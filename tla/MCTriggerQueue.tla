--------------------------- MODULE MCTriggerQueue ---------------------------
(* Small instances of TriggerQueue for TLC.                                 *)
EXTENDS TriggerQueue

\* A function for each kind of event and one with two triggers.
SomeTriggers ==
  << [function |-> "greet", type |-> "userMessage"],
     [function |-> "audit", type |-> "userMessage"],
     [function |-> "audit", type |-> "completedUserMessage"],
     [function |-> "report", type |-> "completedTeamMessage"],
     [function |-> "mail", type |-> "teamEmail"],
     [function |-> "nightly", type |-> "time"],
     [function |-> "minutes", type |-> "meetingEnd"],
     [function |-> "helper", type |-> "flexForUser"] >>

SomeFunctions == {"greet", "audit", "report", "mail", "nightly", "minutes", "helper"}

\* A user's message, a message after its workflow, and an email of the team.
SomeKinds ==
  {[type |-> "userMessage", email |-> FALSE],
   [type |-> "completedUserMessage", email |-> FALSE],
   [type |-> "teamMessage", email |-> TRUE]}
=============================================================================
