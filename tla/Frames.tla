------------------------------- MODULE Frames -------------------------------
(***************************************************************************)
(* The macros of exception.h: BK_TRY pushes a frame, BK_THROW calls a      *)
(* function that records the exception in the innermost frame and returns, *)
(* BK_CATCH tests the frame of its block, BK_END_TRY pops a frame.  The    *)
(* functions are declared only; what they do to the frames is taken from   *)
(* what the macros read.                                                   *)
(*                                                                         *)
(* A thread opens blocks inside of each other, through calls.  The body,   *)
(* the clauses and the end of a block are passed in that order, because a  *)
(* throw does not jump.                                                    *)
(***************************************************************************)
EXTENDS Integers, Sequences, SequencesExt

CONSTANTS Classes, MaxDepth, MaxFailures, NoException, NoFrame

\* No exception and no frame are told from every exception and every block.
ASSUME FrameAssumption ==
  /\ MaxFailures \in Nat
  /\ NoException \notin [class : Classes, from : Nat]
  /\ NoFrame \notin Nat

VARIABLES
  frames,   \* the frames pushed, innermost last: [block, exception]
  blocks,   \* the blocks open, innermost last: [frame, stage, handled]
  faulted,  \* a clause looked into the frame of a block that has none
  pushFailures  \* frames that could not be pushed

frameVars == <<frames, blocks, faulted, pushFailures>>

----------------------------------------------------------------------------
FrameInit == frames = <<>> /\ blocks = <<>> /\ faulted = FALSE /\ pushFailures = 0

Here == Len(blocks)
Block == blocks[Here]
ToStage(stage) == blocks' = [blocks EXCEPT ![Here].stage = stage]

\* BK_TRY; the body is skipped when there is no frame.
Try ==
  /\ Here < MaxDepth
  /\ Here > 0 => Block.stage \in {"body", "handler", "finally"}
  /\ \/ /\ frames' = Append(frames, [block |-> Here + 1, exception |-> NoException])
        /\ blocks' = Append(blocks, [frame |-> Here + 1, stage |-> "body", handled |-> 0])
        /\ UNCHANGED pushFailures
     \/ /\ pushFailures < MaxFailures
        /\ pushFailures' = pushFailures + 1
        /\ blocks' = Append(blocks, [frame |-> NoFrame, stage |-> "clauses", handled |-> 0])
        /\ UNCHANGED frames
  /\ UNCHANGED faulted

\* The innermost frame is given the exception; without one it goes to the
\* handlers of the system.
Raise(class) ==
  frames' = IF frames = <<>> THEN frames
            ELSE [frames EXCEPT ![Len(frames)].exception = [class |-> class, from |-> Here]]

\* BK_THROW, BK_ASSERT and the BK_CHECK macros, which are throws on a condition
Throw ==
  /\ Here > 0 /\ Block.stage \in {"body", "handler", "finally"}
  /\ \E class \in Classes : Raise(class)
  /\ UNCHANGED <<blocks, faulted, pushFailures>>

EndBody ==
  /\ Here > 0 /\ Block.stage = "body" /\ ToStage("clauses")
  /\ UNCHANGED <<frames, faulted, pushFailures>>

\* The classes the frame of the innermost block may be read to hold; a frame
\* that was popped for another block is memory given back, and may hold any.
Held ==
  LET own == {i \in DOMAIN frames : frames[i].block = Block.frame}
  IN  IF own = {} THEN Classes
      ELSE {f.class : f \in {frames[i].exception : i \in own} \ {NoException}}

\* BK_CATCH(class) or, for every class, BK_CATCH_ALL
Catch(classes) ==
  /\ Here > 0 /\ Block.stage = "clauses" /\ ~faulted
  /\ \/ /\ Block.frame = NoFrame
        /\ faulted' = TRUE
        /\ UNCHANGED blocks
     \/ /\ Block.frame # NoFrame
        /\ Held \cap classes # {}
        /\ blocks' = [blocks EXCEPT ![Here].stage = "handler",
                                    ![Here].handled = IF @ < 2 THEN @ + 1 ELSE @]
        /\ UNCHANGED faulted
  /\ UNCHANGED <<frames, pushFailures>>

\* BK_RETHROW in a clause
Rethrow ==
  /\ Here > 0 /\ Block.stage = "handler"
  /\ \E class \in Held : Raise(class)
  /\ UNCHANGED <<blocks, faulted, pushFailures>>

EndClause ==
  /\ Here > 0 /\ Block.stage = "handler" /\ ToStage("clauses")
  /\ UNCHANGED <<frames, faulted, pushFailures>>

Finally ==
  /\ Here > 0 /\ Block.stage = "clauses" /\ ToStage("finally")
  /\ UNCHANGED <<frames, faulted, pushFailures>>

\* Faulty variant: a block whose exception was not handled keeps its frame.
EndTryUnhandled ==
  /\ Here > 0 /\ Block.stage \in {"clauses", "finally"} /\ ~faulted
  /\ frames' = IF frames = <<>> \/ (Held # {} /\ Block.handled = 0) THEN frames
               ELSE Front(frames)
  /\ blocks' = Front(blocks)
  /\ UNCHANGED <<faulted, pushFailures>>

\* BK_END_TRY pops the innermost frame, whosever it is.
EndTry ==
  /\ Here > 0 /\ Block.stage \in {"clauses", "finally"} /\ ~faulted
  /\ frames' = IF frames = <<>> THEN frames ELSE Front(frames)
  /\ blocks' = Front(blocks)
  /\ UNCHANGED <<faulted, pushFailures>>

FrameNext ==
  \/ Try \/ Throw \/ EndBody \/ Rethrow \/ EndClause \/ Finally \/ EndTry
  \/ Catch(Classes) \/ \E class \in Classes : Catch({class})

FrameSpec == FrameInit /\ [][FrameNext]_frameVars

----------------------------------------------------------------------------
FrameTypeOK ==
  /\ \A i \in DOMAIN frames : frames[i].exception # NoException =>
       frames[i].exception.class \in Classes
  /\ \A i \in DOMAIN blocks : blocks[i].frame \in {i, NoFrame}
  /\ pushFailures \in 0 .. MaxFailures

\* While every frame could be pushed, each open block has its own frame and its
\* exception was thrown by itself: a rethrow goes to the frame it came from and
\* what a block does not handle is lost with it, so no exception ever gets from
\* an inner block to an outer one; and a handled exception stays, so that the
\* next clause that fits handles it again.  Without a frame, only an outer
\* block can be short of its own: no frame outlives its block
\* (exception.h:406-443).
FramesUnwound ==
  /\ \A i, j \in DOMAIN frames : i < j => frames[i].block < frames[j].block
  /\ \A i \in DOMAIN frames :
       /\ frames[i].block <= Here
       /\ blocks[frames[i].block].frame # NoFrame
  /\ pushFailures = 0 =>
       /\ Len(frames) = Here
       /\ \A i \in DOMAIN frames :
            /\ frames[i].exception # NoException => frames[i].exception.from = i
            /\ blocks[i].handled > 0 => frames[i].exception # NoException
=============================================================================
