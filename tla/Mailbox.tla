------------------------------- MODULE Mailbox -------------------------------
(***************************************************************************)
(* What a queue with one reader promises: messages are taken in the order  *)
(* in which they were put, one at a time, each of them once, and none is   *)
(* left behind while the reader is there.  A reader leaves only between    *)
(* two messages; a message may be put after that, and stays.               *)
(***************************************************************************)
EXTENDS Naturals, Sequences, SequencesExt

CONSTANTS
  Messages,
  NoMessage  \* not a message

VARIABLES
  waiting,  \* messages put and not taken, oldest first
  current,  \* the message being handled, or NoMessage
  done,     \* messages handled, in order
  closed    \* the reader has left

vars == <<waiting, current, done, closed>>

TypeOK ==
  /\ waiting \in Seq(Messages)
  /\ current \in Messages \cup {NoMessage}
  /\ done \in Seq(Messages)
  /\ closed \in BOOLEAN

Init ==
  /\ waiting = <<>>
  /\ current = NoMessage
  /\ done = <<>>
  /\ closed = FALSE

Put(m) ==
  /\ m \notin ToSet(waiting) \cup ToSet(done) \cup {current}
  /\ waiting' = Append(waiting, m)
  /\ UNCHANGED <<current, done, closed>>

Take ==
  /\ ~closed
  /\ current = NoMessage
  /\ waiting # <<>>
  /\ current' = Head(waiting)
  /\ waiting' = Tail(waiting)
  /\ UNCHANGED <<done, closed>>

Finish ==
  /\ current # NoMessage
  /\ done' = Append(done, current)
  /\ current' = NoMessage
  /\ UNCHANGED <<waiting, closed>>

Close ==
  /\ ~closed
  /\ current = NoMessage
  /\ closed' = TRUE
  /\ UNCHANGED <<waiting, current, done>>

Next == (\E m \in Messages : Put(m)) \/ Take \/ Finish \/ Close

Spec == Init /\ [][Next]_vars

FairSpec == Spec /\ WF_vars(Take) /\ WF_vars(Finish)
==============================================================================
