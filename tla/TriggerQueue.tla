---------------------------- MODULE TriggerQueue ----------------------------
(***************************************************************************)
(* Message and meeting triggers: TriggerQueue and ProcessMessageQueue in   *)
(* engine/triggers.go, with ProcessMessage and ProcessMeetingEvent, which  *)
(* decide the triggers that an event fires.                                *)
(*                                                                         *)
(* Any goroutine may add a message; one goroutine reads the queue.  It     *)
(* sleeps in a select over the context it was started with, notifyCh (one  *)
(* place, the sender never blocks) and a timer, and handles one message    *)
(* per wake-up.  A handler is YAMLDefinedTool.Call, module FunctionCall:   *)
(* here it returns, with whatever outcome.                                 *)
(*                                                                         *)
(* Definitions named ...Bug are mutated forms of the definition that       *)
(* follows them; no specification uses them.                               *)
(***************************************************************************)
EXTENDS Naturals, Sequences, SequencesExt

CONSTANTS
  Messages,   \* queue items (bound on their number)
  Meetings,   \* meeting events (bound on their number)
  Functions,  \* functions that have triggers
  Triggers,   \* every trigger of every function, in the order of GetAllTools
  Kinds,      \* kinds of items that are added, out of MessageKinds
  NoMessage   \* the reader handles nothing

Chats == {"userMessage", "teamMessage", "completedUserMessage", "completedTeamMessage"}
Emails == {"userEmail", "teamEmail", "completedUserEmail", "completedTeamEmail"}
MeetingKinds == {"meetingStart", "meetingEnd"}
FlexKinds == {"flexForUser", "flexForTeam", "flexForUserEmail", "flexForTeamEmail"}

\* Trigger types that have a handler; the flex types have none.
Handled == Chats \cup Emails \cup MeetingKinds \cup {"time"}

Trigger == [function : Functions, type : Handled \cup FlexKinds]

\* The type an item is queued with, and the channel of its context.
MessageKinds == [type : Chats \cup Emails, email : BOOLEAN]

ASSUME QueueAssumption ==
  /\ Triggers \in Seq(Trigger)
  /\ Kinds \subseteq MessageKinds
  /\ NoMessage \notin Messages
  /\ Messages \cap Meetings = {}

VARIABLES
  items,      \* TriggerQueue.items
  notified,   \* notifyCh holds a notification
  place,      \* the reader: "select", "get", "handle" or "gone"
  current,    \* the message it handles
  next,       \* position in Triggers
  kind,       \* what each queued message is
  ran,        \* history: positions in Triggers fired for each message or meeting
  handled,    \* history: messages handled, in order
  ended,      \* the context given to Start is done
  stopped     \* Stop was called

queue == <<items, notified, kind>>
reader == <<place, current, next, handled>>
queueVars == <<queue, reader, ran, ended, stopped>>

QueueTypeOK ==
  /\ items \in Seq(Messages)
  /\ notified \in BOOLEAN
  /\ place \in {"select", "get", "handle", "gone"}
  /\ current \in Messages \cup {NoMessage}
  /\ next \in 1 .. Len(Triggers) + 1
  /\ kind \in [Messages -> MessageKinds]
  /\ ran \in [Messages \cup Meetings -> Seq(1 .. Len(Triggers))]
  /\ handled \in Seq(Messages)
  /\ ended \in BOOLEAN
  /\ stopped \in BOOLEAN

QueueInit ==
  /\ items = <<>>
  /\ notified = FALSE
  /\ place = "select"
  /\ current = NoMessage
  /\ next = 1
  /\ kind \in [Messages -> Kinds]
  /\ ran = [e \in Messages \cup Meetings |-> <<>>]
  /\ handled = <<>>
  /\ ended = FALSE
  /\ stopped = FALSE

-----------------------------------------------------------------------------
(* The queue.                                                              *)

Added(m) == m \in ToSet(items) \cup ToSet(handled) \cup {current}

AddsFrontBug(m) ==
  /\ ~Added(m)
  /\ items' = <<m>> \o items
  /\ notified' = TRUE
  /\ UNCHANGED <<kind, reader, ran, ended, stopped>>

\* Add, under the mutex: a full notifyCh is left as it is.
Add(m) ==
  /\ ~Added(m)
  /\ items' = Append(items, m)
  /\ notified' = TRUE
  /\ UNCHANGED <<kind, reader, ran, ended, stopped>>

Notified ==
  /\ place = "select"
  /\ notified
  /\ notified' = FALSE
  /\ place' = "get"
  /\ UNCHANGED <<items, kind, current, next, handled, ran, ended, stopped>>

NoTimerBug == FALSE /\ UNCHANGED queueVars

\* Five seconds without another event.
Timer ==
  /\ place = "select"
  /\ place' = "get"
  /\ UNCHANGED <<queue, current, next, handled, ran, ended, stopped>>

\* GetNext, under the mutex: the oldest item, or none.
GetNext ==
  /\ place = "get"
  /\ IF items = <<>>
     THEN /\ place' = "select"
          /\ UNCHANGED <<items, current>>
     ELSE /\ place' = "handle"
          /\ current' = Head(items)
          /\ items' = Tail(items)
  /\ UNCHANGED <<notified, kind, next, handled, ran, ended, stopped>>

-----------------------------------------------------------------------------
(* ProcessMessage.                                                         *)

\* IsUserMessage and IsTeamMessage of the message's context: an item queued
\* with an email type is neither.
IsUser(m) == kind[m].type \in {"userMessage", "completedUserMessage"}
IsTeam(m) == kind[m].type \in {"teamMessage", "completedTeamMessage"}

OfUsers == {"userMessage", "completedUserMessage", "userEmail", "completedUserEmail"}
OfTeams == {"teamMessage", "completedTeamMessage", "teamEmail", "completedTeamEmail"}

\* Trigger types of the message's channel, and those of the other one.
OfChannel(m) == IF kind[m].email THEN Emails ELSE Chats
OfOtherChannel(m) == IF kind[m].email THEN Chats ELSE Emails

SelectsForgetsCompletedBug(m, t) ==
  /\ t \in Handled \ OfOtherChannel(m)
  /\ t \in OfChannel(m) \cap OfUsers => IsUser(m)
  /\ t \in OfChannel(m) \cap {"teamMessage", "teamEmail"} => IsTeam(m)

\* The channel selects messages or emails, the sender users or teams; no
\* condition looks at the other types of triggers.
Selects(m, t) ==
  /\ t \in Handled \ OfOtherChannel(m)
  /\ t \in OfChannel(m) \cap OfUsers => IsUser(m)
  /\ t \in OfChannel(m) \cap OfTeams => IsTeam(m)

\* One trigger: its handler runs to its end; an error is logged.
HandleTrigger ==
  /\ place = "handle"
  /\ next <= Len(Triggers)
  /\ IF Selects(current, Triggers[next].type)
     THEN ran' = [ran EXCEPT ![current] = Append(@, next)]
     ELSE UNCHANGED ran
  /\ next' = next + 1
  /\ UNCHANGED <<queue, place, current, handled, ended, stopped>>

\* ProcessMessage returns; handled and current are bookkeeping.
MessageDone ==
  /\ place = "handle"
  /\ next > Len(Triggers)
  /\ place' = "select"
  /\ handled' = Append(handled, current)
  /\ current' = NoMessage
  /\ next' = 1
  /\ UNCHANGED <<queue, ran, ended, stopped>>

-----------------------------------------------------------------------------
(* Meetings, and the end.                                                  *)

\* ProcessMeetingEvent runs in the goroutine of its caller.
Meeting(e, type) ==
  /\ ran[e] = <<>>
  /\ ran' = [ran EXCEPT ![e] =
               SelectSeq([i \in 1 .. Len(Triggers) |-> i], LAMBDA i : Triggers[i].type = type)]
  /\ UNCHANGED <<queue, reader, ended, stopped>>

\* The select also watches the context given to Start ...
Leave ==
  /\ place = "select"
  /\ ended
  /\ place' = "gone"
  /\ UNCHANGED <<queue, current, next, handled, ran, ended, stopped>>

EndContext ==
  /\ ~ended
  /\ ended' = TRUE
  /\ UNCHANGED <<queue, reader, ran, stopped>>

\* ... while Stop cancels the context of NewTriggerSystem and stops cron.
Stop ==
  /\ ~stopped
  /\ stopped' = TRUE
  /\ UNCHANGED <<queue, reader, ran, ended>>

-----------------------------------------------------------------------------
Reader == Notified \/ Timer \/ GetNext \/ HandleTrigger \/ MessageDone \/ Leave

QueueNext ==
  \/ Reader
  \/ \E m \in Messages : Add(m)
  \/ \E e \in Meetings, type \in MeetingKinds : Meeting(e, type)
  \/ EndContext
  \/ Stop

QueueSpec == QueueInit /\ [][QueueNext]_queueVars

\* The reader is scheduled, its timer expires, and handlers return; messages
\* need not arrive.
FairQueueSpec == QueueSpec /\ WF_queueVars(Reader)

-----------------------------------------------------------------------------
(* Properties.                                                             *)

Promise ==
  INSTANCE Mailbox WITH waiting <- items, done <- handled, closed <- (place = "gone")

\* The queue keeps the promise of a mailbox: in order, one at a time, each
\* message once, whatever the race between Add, notifyCh, the timer and the
\* context.
InOrder == Promise!Spec

\* It also keeps it in time: with the timer, no message is left in the queue
\* while the reader is there, though several may share one notification.
NoneLeft == Promise!FairSpec

\* The table of trigger types in doc/specification.md: the channel and the
\* sender a trigger is for, and the end of the workflow it runs at.
Audience ==
  [userMessage          |-> [channel |-> "chat",  sender |-> "user", phase |-> "start"],
   teamMessage          |-> [channel |-> "chat",  sender |-> "team", phase |-> "start"],
   completedUserMessage |-> [channel |-> "chat",  sender |-> "user", phase |-> "completion"],
   completedTeamMessage |-> [channel |-> "chat",  sender |-> "team", phase |-> "completion"],
   userEmail            |-> [channel |-> "email", sender |-> "user", phase |-> "start"],
   teamEmail            |-> [channel |-> "email", sender |-> "team", phase |-> "start"],
   completedUserEmail   |-> [channel |-> "email", sender |-> "user", phase |-> "completion"],
   completedTeamEmail   |-> [channel |-> "email", sender |-> "team", phase |-> "completion"]]

\* Who sent message m and when, as the type it was queued with says, and the
\* channel it came by.
Event(m) == [channel |-> IF kind[m].email THEN "email" ELSE "chat",
             sender  |-> Audience[kind[m].type].sender,
             phase   |-> Audience[kind[m].type].phase]

Increasing(s) == \A i, j \in DOMAIN s : i < j => s[i] < s[j]

\* A handled message has fired every trigger that the documentation's table
\* means for its channel, sender and phase, whatever the handlers before
\* returned; no message or email trigger of another channel or sender and no
\* flexible trigger; and each in order, once.  Nothing is claimed of what
\* ProcessMessage fires against that table: time_based and meeting triggers,
\* which no condition excludes, and triggers of the other phase; nor that an
\* item queued with an email type, which is nobody's message, fires any.
FiresItsAudience ==
  \A m \in ToSet(handled) :
    /\ kind[m].type \in Chats =>
         \A j \in DOMAIN Triggers :
           Triggers[j].type \in DOMAIN Audience /\ Audience[Triggers[j].type] = Event(m) => j \in ToSet(ran[m])
    /\ \A j \in ToSet(ran[m]) :
         /\ Triggers[j].type \notin FlexKinds
         /\ Triggers[j].type \in DOMAIN Audience =>
              /\ Audience[Triggers[j].type].channel = Event(m).channel
              /\ Audience[Triggers[j].type].sender = Event(m).sender
    /\ Increasing(ran[m])
=============================================================================
