------------------------------ MODULE CString ------------------------------
(***************************************************************************)
(* string.h: copying and joining of memory and strings, comparison and     *)
(* search, tokens, and the conversions between integers and text.          *)
(*                                                                         *)
(* Memory is an array of characters; a character is a number, 0 ends a     *)
(* string.  The cells Buffer are the destination of the string functions,  *)
(* the cells above hold a source string that does not overlap it, as the   *)
(* functions require; memmove and memset go anywhere.  A loop that walks   *)
(* to the first character of some kind is written as that position.        *)
(***************************************************************************)
EXTENDS Integers, Sequences, FiniteSets

CONSTANTS
  Chars,      \* characters, 0 among them
  BufferSize, \* cells of the destination
  SourceSize, \* cells of the source
  Texts,      \* strings that are cut into tokens, sequences of characters
  Delims,     \* the delimiters
  IntBits     \* bits of BK_I32: a bound

ASSUME CStringAssumption ==
  /\ 0 \in Chars /\ Chars \subseteq Nat
  /\ BufferSize \in Nat \ {0} /\ SourceSize \in Nat \ {0}
  /\ 0 \notin Delims

NULL == -1
Addr == 0 .. BufferSize + SourceSize - 1
Src == BufferSize

Least(S) == CHOOSE i \in S : \A j \in S : i <= j
Greatest(S) == CHOOSE i \in S : \A j \in S : i >= j
Smaller(a, b) == IF a < b THEN a ELSE b

----------------------------------------------------------------------------
(* Memory.  The copies go one cell at a time and read what is there then.  *)

memset(m, s, c, n) == [a \in DOMAIN m |-> IF a \in s .. s + n - 1 THEN c ELSE m[a]]

memcpy(m, d, s, n) ==
  LET copied[k \in 0 .. n] ==
        IF k = 0 THEN m
        ELSE [copied[k - 1] EXCEPT ![d + k - 1] = copied[k - 1][s + k - 1]]
  IN copied[n]

memmove(m, d, s, n) ==
  LET down[k \in 0 .. n] ==
        IF k = 0 THEN m
        ELSE [down[k - 1] EXCEPT ![d + n - k] = down[k - 1][s + n - k]]
  IN IF d < s THEN memcpy(m, d, s, n) ELSE IF d > s THEN down[n] ELSE m

memcmp(m, p, q, n) ==
  LET from[i \in 0 .. n] ==
        IF i = n THEN 0
        ELSE IF m[p + i] # m[q + i] THEN m[p + i] - m[q + i]
        ELSE from[i + 1]
  IN from[0]

Found(S, Pick(_)) == IF S = {} THEN NULL ELSE Pick(S)
memchr(m, s, c, n) == Found({a \in s .. s + n - 1 : m[a] = c}, Least)
memrchr(m, s, c, n) == Found({a \in s .. s + n - 1 : m[a] = c}, Greatest)

----------------------------------------------------------------------------
(* Strings. *)
IsString(m, s) == \E a \in DOMAIN m : a >= s /\ m[a] = 0
EndOf(m, s) == Least({a \in DOMAIN m : a >= s /\ m[a] = 0})
strlen(m, s) == EndOf(m, s) - s
strnlen(m, s, max) ==
  Least({i \in 0 .. max : i = max \/ (s + i \in DOMAIN m /\ m[s + i] = 0)})

strcpy(m, d, s) == memcpy(m, d, s, strlen(m, s) + 1)

strncpy(m, d, s, n) ==
  LET len == strnlen(m, s, n)
  IN memset(memcpy(m, d, s, len), d + len, 0, n - len)

\* Faulty variant: no room is kept for the terminator.
strlcpyFull(m, d, s, size) ==
  LET len == Smaller(strlen(m, s), size)
  IN IF size > 0 THEN [memcpy(m, d, s, len) EXCEPT ![d + len] = 0] ELSE m

strlcpy(m, d, s, size) ==
  LET len == Smaller(strlen(m, s), size - 1)
  IN IF size > 0 THEN [memcpy(m, d, s, len) EXCEPT ![d + len] = 0] ELSE m

strcat(m, d, s) == memcpy(m, EndOf(m, d), s, strlen(m, s) + 1)

strncat(m, d, s, n) ==
  LET len == strnlen(m, s, n)
  IN [memcpy(m, EndOf(m, d), s, len) EXCEPT ![EndOf(m, d) + len] = 0]

strlcatLen(m, d, s, size) ==
  IF strnlen(m, d, size) >= size THEN size + strlen(m, s)
  ELSE strnlen(m, d, size) + strlen(m, s)

strlcat(m, d, s, size) ==
  LET dlen == strnlen(m, d, size)
      len == Smaller(strlen(m, s), size - dlen - 1)
  IN IF dlen >= size THEN m
     ELSE [memcpy(m, d + dlen, s, len) EXCEPT ![d + dlen + len] = 0]

(* bk_strdup and bk_strndup put the copy where bk_vm_alloc says. *)
strndup(m, new, s, n) ==
  LET len == strnlen(m, s, n)
  IN IF new = NULL THEN m ELSE [memcpy(m, new, s, len) EXCEPT ![new + len] = 0]
strdup(m, new, s) ==
  IF new = NULL THEN m ELSE memcpy(m, new, s, strlen(m, s) + 1)

strcmp(m, p, q) ==
  LET k == Least({i \in 0 .. strlen(m, p) : m[p + i] = 0 \/ m[p + i] # m[q + i]})
  IN m[p + k] - m[q + k]

strncmp(m, p, q, n) ==
  LET k == Least({i \in 0 .. n - 1 : \/ i = n - 1 \/ m[p + i] = 0
                                     \/ m[p + i] # m[q + i]})
  IN IF n = 0 THEN 0 ELSE m[p + k] - m[q + k]

strchr(m, s, c) ==
  LET a == Least({i \in s .. EndOf(m, s) : m[i] \in {0, c}})
  IN IF m[a] = c THEN a ELSE NULL
strrchr(m, s, c) == Found({a \in s .. EndOf(m, s) - 1 : m[a] = c}, Greatest)

strstr(m, hay, needle) ==
  LET len == strlen(m, needle)
  IN IF len = 0 THEN hay
     ELSE Found({a \in hay .. EndOf(m, hay) - 1 : memcmp(m, a, needle, len) = 0},
                Least)

\* Faulty variant: one delimiter is skipped.
strspnOne(m, s, accept) == IF m[s] \in accept THEN 1 ELSE 0

strspn(m, s, accept) ==
  Least({a \in s .. EndOf(m, s) : m[a] \notin accept}) - s
strcspn(m, s, reject) ==
  Least({a \in s .. EndOf(m, s) : m[a] \in reject \union {0}}) - s
strpbrk(m, s, accept) ==
  Found({a \in s .. EndOf(m, s) - 1 : m[a] \in accept}, Least)

----------------------------------------------------------------------------
(* Text of integers: a sign and digits, or hexadecimal digits. *)
MinInt == -2^(IntBits - 1)
MaxInt == 2^(IntBits - 1) - 1

(* The digits of n > 0, or the one digit 0.  -MinInt overflows: the build  *)
(* keeps MinInt, whose only "digit" is the negative remainder.             *)
itoa(value) ==
  LET digits[n \in 0 .. MaxInt] ==
        IF n < 10 THEN <<n>> ELSE Append(digits[n \div 10], n % 10)
  IN [minus |-> value < 0,
      digits |-> IF value = MinInt THEN <<-((-MinInt) % 10)>>
                 ELSE digits[IF value < 0 THEN -value ELSE value]]

atoi(text) ==
  LET upTo[i \in 0 .. Len(text.digits)] ==
        IF i = 0 THEN 0 ELSE upTo[i - 1] * 10 + text.digits[i]
  IN (IF text.minus THEN -1 ELSE 1) * upTo[Len(text.digits)]

(* A nibble is written unless it is 0 and nothing was written before. *)
utoa_hex(value) ==
  LET nibbles == IntBits \div 4
      upTo[i \in 0 .. nibbles] ==
        IF i = 0 THEN <<>>
        ELSE LET d == (value \div 16^(nibbles - i)) % 16
             IN IF d = 0 /\ upTo[i - 1] = <<>> THEN <<>> ELSE Append(upTo[i - 1], d)
  IN IF value = 0 THEN <<0>> ELSE upTo[nibbles]

----------------------------------------------------------------------------
(* The machine: one call on any memory, or two walks over tokens. *)
Users == {1, 2}
Subjects == {"memory", "tokens"}

VARIABLES subject, mem, call,
          reentrant,   \* the users call bk_strtok_r, each with its saveptr
          given,       \* the two strings to be cut
          text,        \* the memory they are in, cells 0 .. length of each
          saveptr,     \* of user 1, of user 2 and, as 0, the static one:
                       \* whose string, and the cell in it
          turn,        \* each user's place: not begun, within, done
          tokens,      \* history: what each user got
          cut,         \* history: the tokens of each string, whoever got them
          mixed        \* history: a bk_strtok began while another was within

tokenVars == <<reentrant, given, text, saveptr, turn, tokens, cut, mixed>>
cvars == <<subject, mem, call, tokenVars>>
NoCall == [f |-> "none", d |-> 0, s |-> 0, n |-> 0, ret |-> 0]

StringOf(t) == [i \in 0 .. Len(t) |-> IF i = Len(t) THEN 0 ELSE t[i + 1]]

CInit ==
  /\ subject \in Subjects
  /\ mem \in IF subject = "memory" THEN [Addr -> Chars] ELSE {[a \in Addr |-> 0]}
  /\ call = NoCall
  /\ reentrant \in IF subject = "tokens" THEN BOOLEAN ELSE {TRUE}
  /\ given \in IF subject = "tokens" THEN [Users -> Texts] ELSE {[u \in Users |-> <<>>]}
  /\ text = [u \in Users |-> StringOf(given[u])]
  /\ saveptr = [i \in {0, 1, 2} |-> <<1, NULL>>]
  /\ turn = [u \in Users |-> "begin"]
  /\ tokens = [u \in Users |-> <<>>] /\ cut = tokens
  /\ mixed = FALSE

Call(f, d, s, n, new, ret) ==
  /\ subject = "memory" /\ call = NoCall
  /\ mem' = new
  /\ call' = [f |-> f, d |-> d, s |-> s, n |-> n, ret |-> ret]
  /\ UNCHANGED <<subject, tokenVars>>

Fits(a, n) == a + n <= BufferSize + SourceSize

Memory ==
  \E d, s \in Addr, n \in 0 .. Cardinality(Addr) :
    /\ Fits(d, n) /\ Fits(s, n)
    /\ \/ Call("memmove", d, s, n, memmove(mem, d, s, n), d)
       \/ /\ d + n <= s \/ s + n <= d
          /\ Call("memcpy", d, s, n, memcpy(mem, d, s, n), d)
       \/ s = d /\ \E c \in Chars : Call("memset", d, c, n, memset(mem, d, c, n), d)

(* Callers give the unbounded functions room, and joins a string to go on. *)
Strings ==
  /\ IsString(mem, Src)
  /\ LET len == strlen(mem, Src)
         room == IF \E a \in 0 .. BufferSize - 1 : mem[a] = 0
                 THEN BufferSize - 1 - EndOf(mem, 0) ELSE -1
     IN \/ len < BufferSize /\ Call("strcpy", 0, Src, 0, strcpy(mem, 0, Src), 0)
        \/ len <= room /\ Call("strcat", 0, Src, 0, strcat(mem, 0, Src), 0)
        \/ \E n \in 0 .. BufferSize :
             \/ Call("strncpy", 0, Src, n, strncpy(mem, 0, Src, n), 0)
             \/ Call("strlcpy", 0, Src, n, strlcpy(mem, 0, Src, n), len)
             \/ Call("strlcat", 0, Src, n, strlcat(mem, 0, Src, n),
                     strlcatLen(mem, 0, Src, n))
             \/ strnlen(mem, Src, n) <= room
                /\ Call("strncat", 0, Src, n, strncat(mem, 0, Src, n), 0)
        \/ \E new \in {NULL, 0} :
             \/ len < BufferSize /\ Call("strdup", 0, Src, 0, strdup(mem, new, Src), new)
             \/ \E n \in 0 .. BufferSize - 1 :
                  Call("strndup", 0, Src, n, strndup(mem, new, Src, n), new)

(* bk_strtok_r, and bk_strtok with its one static saveptr: a user of        *)
(* bk_strtok goes on wherever the last call, of any user, has stopped.      *)
Slot(u) == IF reentrant THEN u ELSE 0

Strtok(u) ==
  LET whose == IF turn[u] = "begin" THEN u ELSE saveptr[Slot(u)][1]
      str == IF turn[u] = "begin" THEN 0 ELSE saveptr[Slot(u)][2]
      m == text[whose]
      token == str + strspn(m, str, Delims)
      end == strpbrk(m, token, Delims)
      stop == IF end = NULL THEN EndOf(m, token) ELSE end
      piece == [i \in 1 .. stop - token |-> m[token + i - 1]]
      after == IF m[token] = 0 \/ end = NULL THEN stop ELSE stop + 1
  IN /\ subject = "tokens"
     /\ turn[u] # "done"
     /\ saveptr' = [saveptr EXCEPT ![Slot(u)] = <<whose, after>>]
     /\ IF m[token] = 0
        THEN /\ turn' = [turn EXCEPT ![u] = "done"]
             /\ UNCHANGED <<text, tokens, cut>>
        ELSE /\ turn' = [turn EXCEPT ![u] = "within"]
             /\ text' = IF end = NULL THEN text ELSE [text EXCEPT ![whose][end] = 0]
             /\ tokens' = [tokens EXCEPT ![u] = Append(@, piece)]
             /\ cut' = [cut EXCEPT ![whose] = Append(@, piece)]
     /\ mixed' = (mixed \/ (~reentrant /\ turn[u] = "begin" /\ \E v \in Users : turn[v] = "within"))
     /\ UNCHANGED <<subject, mem, call, reentrant, given>>

CNext == Memory \/ Strings \/ \E u \in Users : Strtok(u)
CSpec == CInit /\ [][CNext]_cvars

----------------------------------------------------------------------------
Text(m, s) == [i \in 1 .. strlen(m, s) |-> m[s + i - 1]]
Prefix(t, n) == SubSeq(t, 1, Smaller(n, Len(t)))

CTypeOK ==
  /\ subject \in Subjects /\ mem \in [Addr -> Chars]
  /\ turn \in [Users -> {"begin", "within", "done"}]
  /\ \A i \in DOMAIN saveptr : saveptr[i] \in Users \X ({NULL} \union Nat)

(* Whatever the overlap, bk_memmove leaves in the destination what the     *)
(* source held before the call, and nothing else changes; bk_memcpy does   *)
(* so when the two do not overlap.                                         *)
MoveExact ==
  [][ call'.f \in {"memmove", "memcpy"} =>
        \A a \in Addr :
          mem'[a] = IF a \in call'.d .. call'.d + call'.n - 1
                    THEN mem[call'.s + a - call'.d] ELSE mem[a] ]_cvars

(* The string functions write only cells of the destination, the bounded   *)
(* ones only those below their bound; what they leave is the text they     *)
(* promise, cut where the bound says; bk_strlcpy and bk_strlcat end it and *)
(* answer at least the size exactly when they had to cut; bk_strncpy fills *)
(* with zeros and ends it only if there is room.                           *)
CopyKept(m, w, f, n, ret) ==
  LET Sized == {"strncpy", "strlcpy", "strlcat"}
      source == Text(m, Src)
      before == IF IsString(m, 0) THEN Text(m, 0) ELSE <<>>
      Is(t) == IsString(w, 0) /\ Text(w, 0) = t
  IN f \notin {"none", "memmove", "memcpy", "memset"} =>
       /\ \A a \in Addr : a >= BufferSize \/ (f \in Sized /\ a >= n) => w[a] = m[a]
       /\ f = "strcpy" => Is(source)
       /\ f = "strcat" => Is(before \o source)
       /\ f = "strncat" => Is(before \o Prefix(source, n))
       /\ f = "strdup" /\ ret # NULL => Is(source)
       /\ f = "strndup" /\ ret # NULL => Is(Prefix(source, n))
       /\ f = "strlcpy" /\ n > 0 =>
            Is(Prefix(source, n - 1)) /\ (ret >= n <=> Len(source) >= n)
       /\ f = "strlcat" =>
            IF Len(before) < n /\ IsString(m, 0)
            THEN Is(Prefix(before \o source, n - 1)) /\ ret = Len(before \o source)
            ELSE w = m /\ ret >= n
       /\ f = "strncpy" =>
            \A a \in 0 .. n - 1 : w[a] = IF a < Len(source) THEN source[a + 1] ELSE 0

CopiesText == [][CopyKept(mem, mem', call'.f, call'.n, call'.ret)]_cvars

(* Comparison orders strings as dictionaries do, a bound n compares the    *)
(* first n characters, and the searches find the first (or last) place     *)
(* where what they look for is, without reading behind the end.            *)
Before(t, u) ==
  \E k \in 0 .. Len(t) :
    /\ k <= Len(u) /\ SubSeq(t, 1, k) = SubSeq(u, 1, k)
    /\ k < Len(u) /\ (k = Len(t) \/ t[k + 1] < u[k + 1])

Occurs(t, u, i) == i + Len(u) <= Len(t) /\ SubSeq(t, i + 1, i + Len(u)) = u

SearchExact ==
  subject = "memory" /\ call = NoCall /\ IsString(mem, Src) /\ strlen(mem, 0) < Src =>
    LET t == Text(mem, 0)  u == Text(mem, Src)
        at == strstr(mem, 0, Src)
    IN /\ strcmp(mem, 0, Src) = 0 <=> t = u
       /\ strcmp(mem, 0, Src) < 0 <=> Before(t, u)
       /\ \A n \in 0 .. BufferSize :
            strncmp(mem, 0, Src, n) < 0 <=> Before(Prefix(t, n), Prefix(u, n))
       /\ at = NULL <=> \A i \in 0 .. Len(t) : ~Occurs(t, u, i)
       /\ at # NULL => Occurs(t, u, at) /\ \A i \in 0 .. at - 1 : ~Occurs(t, u, i)
       /\ \A c \in Chars \ {0} :
            /\ strchr(mem, 0, c) = memchr(mem, 0, c, Len(t))
            /\ strrchr(mem, 0, c) = memrchr(mem, 0, c, Len(t))
            /\ strpbrk(mem, 0, {c}) = strchr(mem, 0, c)
            /\ strcspn(mem, 0, {c}) = strlen(mem, 0) <=> strchr(mem, 0, c) = NULL

(* The tokens cut from a string are its own pieces: the maximal runs        *)
(* without a delimiter, in order, none empty, none lost and none given      *)
(* twice, whoever gets them.  Users of bk_strtok_r, and users of bk_strtok  *)
(* that come one after the other, get the pieces of their own strings; when *)
(* two of bk_strtok interleave, all go on in the string begun last, and are *)
(* done when that one is, with what was left of the other lost.             *)
Pieces(t) ==
  LET InRun(i) == i \in 1 .. Len(t) /\ t[i] \notin Delims
      starts == {i \in 1 .. Len(t) : InRun(i) /\ ~InRun(i - 1)}
      Piece(i) == SubSeq(t, i, Least({j \in i .. Len(t) : ~InRun(j + 1)}))
  IN [k \in 1 .. Cardinality(starts) |->
        Piece(CHOOSE i \in starts : Cardinality({j \in starts : j < i}) = k - 1)]

TokensExact ==
  subject = "tokens" =>
    /\ \A u \in Users : cut[u] = SubSeq(Pieces(given[u]), 1, Len(cut[u]))
    /\ Len(tokens[1]) + Len(tokens[2]) = Len(cut[1]) + Len(cut[2])
    /\ ~mixed => \A u \in Users :
         tokens[u] = cut[u] /\ (turn[u] = "done" => cut[u] = Pieces(given[u]))
    /\ mixed =>
         LET last == saveptr[0][1] IN
         /\ \A u \in Users \ {last} : Len(tokens[u]) >= Len(cut[u])
         /\ (\E u \in Users : turn[u] = "done") => cut[last] = Pieces(given[last])

(* The text of a number reads back as the number, for all but the least,   *)
(* whose negation overflows; hexadecimal text has its value, all its       *)
(* inner zeros and no leading one.                                         *)
NumbersReadBack ==
  subject = "tokens" /\ (\A u \in Users : given[u] = <<>> /\ turn[u] = "begin") =>
    /\ \A v \in MinInt + 1 .. MaxInt : atoi(itoa(v)) = v
    /\ \A v \in 0 .. 2^IntBits - 1 :
         LET h == utoa_hex(v)
             value[i \in 0 .. Len(h)] ==
               IF i = 0 THEN 0 ELSE value[i - 1] * 16 + h[i]
         IN value[Len(h)] = v /\ (h[1] = 0 => v = 0)
============================================================================
