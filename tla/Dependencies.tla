----------------------------- MODULE Dependencies -----------------------------
(***************************************************************************)
(* The needs of a function: ToolEngine.ExecuteDependencies and             *)
(* FindFunctionAndTool in engine/tool_engine.go, CheckNeeds in             *)
(* engine/execution_tracker.go, and the part of YAMLDefinedTool.Call that  *)
(* uses their result.                                                      *)
(*                                                                         *)
(* A call works off the needs of its function from left to right.  A need  *)
(* that is a function of a tool is called in turn, on the same goroutine,  *)
(* so calls form a stack; the needs that are system functions run inside   *)
(* the call.  What a call does once its needs are met is the subject of    *)
(* FunctionCall and here one step with every outcome it can have, the      *)
(* records its callbacks and hooks leave of other functions included.      *)
(*                                                                         *)
(* A call may ask a person for something in three ways.  Callers know only *)
(* the first: a result that has one of the special texts.  A result with   *)
(* another text, though the call is recorded as pending, is to them a      *)
(* result like any other, and a question that comes as an error is to them *)
(* an error like any other.                                                *)
(*                                                                         *)
(* All calls are for one message.  The same function may be called again   *)
(* for it, by the agent or after an approval, and then finds the records   *)
(* of the calls before.                                                    *)
(*                                                                         *)
(* Definitions named ...Bug are mutated forms of the definition that       *)
(* follows them; no specification uses them.                               *)
(***************************************************************************)
EXTENDS Naturals, Sequences

CONSTANTS
  Functions,      \* the functions of tools, and the system functions
  Tools,          \* the configurations explored
  MaxInvocations  \* bound on the calls that are not made by a need

Kinds == {"tool", "system", "ask", "message"}

Need == [name : Functions, params : BOOLEAN]

\* What the YAML of the tools says, and whether database calls fail.
ToolType ==
  [root    : Functions,
   needs   : [Functions -> Seq(Need)],
   kind    : [Functions -> Kinds],
   home    : [Functions -> Nat], \* the tool a function belongs to
   cached  : SUBSET Functions,   \* with a cache field
   handled : SUBSET Functions,   \* with onFailure functions
   called  : SUBSET Functions,   \* that callbacks and hooks call
   faults  : BOOLEAN]

\* Only the functions of a tool have needs.  Nothing is assumed of cycles: the
\* parser looks for them inside each tool, not between two.
ASSUME ToolsAssumption ==
  /\ MaxInvocations \in Nat
  /\ Tools \subseteq ToolType
  /\ \A t \in Tools :
       /\ t.kind[t.root] = "tool"
       /\ \A f \in Functions : t.kind[f] # "tool" => t.needs[f] = <<>>

VARIABLES
  tool,     \* the configuration
  stack,    \* the calls that are running, outermost first
  rows,     \* the newest record of each function
  sending,  \* messages to the user being sent
  invoked,  \* calls made so far that no need made
  answer,   \* what the last of them returned
  asked     \* history: something in it was asked for in a special text

vars == <<tool, stack, rows, sending, invoked, answer, asked>>

\* The status of a record and, when it is pending, its output: pending stands
\* for one of the special texts, reminded for another ("This action is pending
\* team approval", "I'm working on gathering the necessary information").
Statuses == {"complete", "failed", "skipped", "pending", "reminded"}
Answers == {"text", "special", "error"}
Stages == {"enter", "needs", "operate", "failed", "paused"}

Frame ==
  [fn      : Functions,
   stage   : Stages,
   pos     : Nat,               \* the need being looked at
   missing : SUBSET Nat,        \* missingNeedMap, by position
   ended   : SUBSET Functions]  \* history: needs that ended since the call began

TypeOK ==
  /\ tool \in Tools
  /\ stack \in Seq(Frame)
  /\ rows \in [Functions -> Statuses \cup {"none"}]
  /\ sending \in [Functions -> Nat]
  /\ invoked \in 0 .. MaxInvocations
  /\ answer \in Answers \cup {"none"}
  /\ asked \in BOOLEAN
  /\ \A i \in DOMAIN stack :
       /\ stack[i].pos \in 1 .. Len(tool.needs[stack[i].fn]) + 1
       /\ stack[i].missing \subseteq DOMAIN tool.needs[stack[i].fn]

Init ==
  /\ tool \in Tools
  /\ stack = <<>>
  /\ rows = [f \in Functions |-> "none"]
  /\ sending = [f \in Functions |-> 0]
  /\ invoked = 0
  /\ answer = "none"
  /\ asked = FALSE

-----------------------------------------------------------------------------
Depth == Len(stack)
Top == stack[Depth]
Fn == Top.fn
Needs(f) == tool.needs[f]

Running(stage) == stack # <<>> /\ Top.stage = stage

\* The call on top of the stack goes to another stage.
Goto(stage) == stack' = [stack EXCEPT ![Depth].stage = stage]

\* The need at the current position is over, and with it the needs in E ended.
Passed(frame, E) == [frame EXCEPT !.pos = @ + 1, !.ended = @ \cup E]

NextNeed(E) == stack' = [stack EXCEPT ![Depth] = Passed(Top, E)]

Enter(f) == [fn |-> f, stage |-> "enter", pos |-> 1, missing |-> {}, ended |-> {}]

\* RecordExecution: callers log its failure, or ignore it.
Record(f, status) ==
  \/ rows' = [rows EXCEPT ![f] = status]
  \/ tool.faults /\ UNCHANGED rows

\* The call on top of the stack leaves one of these records, and its callbacks
\* and hooks leave records of the functions they call, questions included.
Leaves(statuses) ==
  \E s \in statuses \cup (IF tool.faults THEN {rows[Fn]} ELSE {}),
     G \in SUBSET (tool.called \ {Fn}) :
    \E others \in [G -> Statuses] :
      rows' = [f \in Functions |-> IF f \in G THEN others[f]
                                  ELSE IF f = Fn THEN s ELSE rows[f]]

\* It leaves none of its own.
LeavesNone == Leaves({rows[Fn]})

IgnoresSpecialBug(frame, result, f) ==
  [frame EXCEPT !.ended = @ \cup {f},
                !.pos = IF result = "error" THEN @ ELSE @ + 1,
                !.stage = IF result = "error" THEN "failed" ELSE "needs"]

RepeatsNeedBug(frame, result, f) ==
  [frame EXCEPT !.ended = @ \cup {f},
                !.stage = IF result = "text" THEN "needs"
                          ELSE IF result = "special" THEN "paused" ELSE "failed"]

\* What ExecuteDependencies makes of the result of the call it made.
Resume(frame, result, f) ==
  [fn      |-> frame.fn,
   stage   |-> IF result = "text" THEN "needs"
               ELSE IF result = "special" THEN "paused" ELSE "failed",
   pos     |-> IF result = "text" THEN frame.pos + 1 ELSE frame.pos,
   missing |-> frame.missing,
   ended   |-> frame.ended \cup {f}]

\* The call on top of the stack returns result to whoever made it.
Return(result) ==
  IF Depth = 1
  THEN stack' = <<>> /\ answer' = result
  ELSE /\ stack' = [i \in 1 .. Depth - 1 |->
                      IF i = Depth - 1 THEN Resume(stack[i], result, Fn) ELSE stack[i]]
       /\ UNCHANGED answer

-----------------------------------------------------------------------------
(* CheckNeeds and the needs that run all the same.                         *)

HasExecuted(f) == rows[f] # "none"

\* A need with params, or on a function of the caller's own tool that has no
\* cache field, is executed even if it was executed before.
Forced(f, n) ==
  \/ n.params
  \/ /\ tool.kind[n.name] = "tool"
     /\ tool.home[n.name] = tool.home[f]
     /\ n.name \notin tool.cached

ReusesRecordsBug(f) == {i \in DOMAIN Needs(f) : ~HasExecuted(Needs(f)[i].name)}

\* The map is by name: what one need on a function decides holds for the
\* other needs on it.
Missing(f) ==
  {i \in DOMAIN Needs(f) :
     \E j \in DOMAIN Needs(f) :
       /\ Needs(f)[j].name = Needs(f)[i].name
       /\ ~HasExecuted(Needs(f)[j].name) \/ Forced(f, Needs(f)[j])}

AllMet(f) == \A i \in DOMAIN Needs(f) : HasExecuted(Needs(f)[i].name)

-----------------------------------------------------------------------------
(* A call.                                                                 *)

\* The agent, or the answer to a request, calls the function.
Invoke ==
  /\ stack = <<>>
  /\ invoked < MaxInvocations
  /\ invoked' = invoked + 1
  /\ stack' = <<Enter(tool.root)>>
  /\ asked' = FALSE
  /\ UNCHANGED <<tool, rows, sending, answer>>

\* What the caller gets; IsSpecialReturn looks for the three texts anywhere in
\* it, the output of an operation included.
Gives(result) == Return(result) /\ asked' = (asked \/ result = "special")

\* Step 0 of Call: a scoped cache that ignores the inputs has the output.
EarlyCache ==
  /\ Running("enter")
  /\ Fn \in tool.cached
  /\ Record(Fn, "complete")
  /\ \E result \in {"text", "special"} : Gives(result)
  /\ UNCHANGED <<tool, sending, invoked>>

\* Nothing to execute: the call goes on at once.
Checked(frame, needs) ==
  [frame EXCEPT !.missing = needs, !.stage = IF needs = {} THEN "operate" ELSE "needs"]

\* ExecuteDependencies looks once which needs it has to execute.
CheckNeeds ==
  /\ Running("enter")
  /\ \/ stack' = [stack EXCEPT ![Depth] = Checked(Top, Missing(Fn))]
     \/ tool.faults /\ Needs(Fn) # <<>> /\ Goto("failed")
  /\ UNCHANGED <<tool, rows, sending, invoked, answer, asked>>

\* The need at the current position, when there is one left to execute.
Current(n) ==
  /\ Running("needs")
  /\ Top.pos \in Top.missing
  /\ n = Needs(Fn)[Top.pos]

RunsOverBug ==
  /\ Running("needs")
  /\ Top.pos \notin Top.missing
  /\ NextNeed({})
  /\ UNCHANGED <<tool, rows, sending, invoked, answer, asked>>

SkipNeed ==
  /\ Running("needs")
  /\ Top.pos \in DOMAIN Needs(Fn)
  /\ Top.pos \notin Top.missing
  /\ NextNeed({})
  /\ UNCHANGED <<tool, rows, sending, invoked, answer, asked>>

\* sendTeamMessage, Learn, queryMemories and createMemory record what became
\* of them and never fail the caller, except for a query that is missing.
SystemNeed ==
  \E n \in {m \in Need : Current(m) /\ tool.kind[m.name] = "system"} :
    /\ \/ /\ \E s \in {"complete", "failed"} : Record(n.name, s)
          /\ NextNeed({n.name})
       \/ Goto("failed") /\ UNCHANGED rows
    /\ UNCHANGED <<tool, sending, invoked, answer, asked>>

\* askToKnowledgeBase: an error ends the caller, and so does an answer that
\* asks for something.
AskNeed ==
  \E n \in {m \in Need : Current(m) /\ tool.kind[m.name] = "ask"} :
    /\ \/ Goto("failed") /\ UNCHANGED <<rows, asked>>
       \/ Record(n.name, "complete") /\ NextNeed({n.name}) /\ UNCHANGED asked
       \/ Record(n.name, "complete") /\ Goto("paused") /\ asked' = TRUE
    /\ UNCHANGED <<tool, sending, invoked, answer>>

\* sendMessageToUser: an empty message is skipped, any other is sent by a
\* goroutine nobody waits for.
MessageNeed ==
  \E n \in {m \in Need : Current(m) /\ tool.kind[m.name] = "message"} :
    /\ NextNeed({n.name})
    /\ \/ Record(n.name, "skipped") /\ UNCHANGED sending
       \/ sending' = [sending EXCEPT ![n.name] = @ + 1] /\ UNCHANGED rows
    /\ UNCHANGED <<tool, invoked, answer, asked>>

MessageSent ==
  \E f \in Functions :
    /\ sending[f] > 0
    /\ sending' = [sending EXCEPT ![f] = @ - 1]
    /\ \E s \in {"complete", "failed"} : Record(f, s)
    /\ UNCHANGED <<tool, stack, invoked, answer, asked>>

\* A function of a tool is called, unless it is not found or the lock on the
\* tools is not had in time.
CallNeed ==
  \E n \in {m \in Need : Current(m) /\ tool.kind[m.name] = "tool"} :
    /\ stack' = Append(stack, Enter(n.name)) \/ Goto("failed")
    /\ UNCHANGED <<tool, rows, sending, invoked, answer, asked>>

\* After the last need CheckNeeds is asked again: any record will do.
FinalCheck ==
  /\ Running("needs")
  /\ Top.pos \notin DOMAIN Needs(Fn)
  /\ \/ /\ AllMet(Fn)
        /\ Goto("operate")
     \/ /\ ~AllMet(Fn) \/ tool.faults
        /\ Goto("failed")
  /\ UNCHANGED <<tool, rows, sending, invoked, answer, asked>>

\* Call turns the error into its output; executeOnFailureFunctions records
\* the call if there are onFailure functions.
EndFailed ==
  /\ Running("failed")
  /\ IF Fn \in tool.handled THEN Leaves({"failed"}) ELSE LeavesNone
  /\ Return("text")
  /\ UNCHANGED <<tool, sending, invoked, asked>>

GoesOnBug ==
  /\ Running("paused")
  /\ Record(Fn, "pending")
  /\ Return("text")
  /\ UNCHANGED <<tool, sending, invoked, asked>>

\* Call passes on what the need asked for.
EndPaused ==
  /\ Running("paused")
  /\ Record(Fn, "pending")
  /\ Return("special")
  /\ UNCHANGED <<tool, sending, invoked, asked>>

(* The rest of Call: records and a result.                                 *)

\* It ran, was skipped, or failed and was recorded; the output may happen to
\* have a special text.
Runs ==
  /\ Leaves({"complete", "failed", "skipped"})
  /\ \E result \in {"text", "special"} : Gives(result)

\* It could not evaluate its condition and has no onFailure functions.
Breaks == Fn \notin tool.handled /\ LeavesNone /\ Gives("text")

\* It waits for a person, and says so in a text callers do not know.
Reminds == Leaves({"reminded"}) /\ Gives("text")

\* It asks a person in a special text.
Asks == Leaves({"pending"}) /\ Gives("special")

\* It is cancelled, or its condition or an onSuccess function asks for
\* something: ErrInputFulfillmentPending is an error like any other.
Errs == Leaves({"complete", "skipped"}) /\ Gives("error")

Operate ==
  /\ Running("operate")
  /\ Runs \/ Breaks \/ Reminds \/ Asks \/ Errs
  /\ UNCHANGED <<tool, sending, invoked>>

-----------------------------------------------------------------------------
Step ==
  \/ EarlyCache \/ CheckNeeds \/ SkipNeed \/ SystemNeed \/ AskNeed \/ MessageNeed
  \/ CallNeed \/ FinalCheck \/ EndFailed \/ EndPaused \/ Operate

\* Nothing is left to do: a bounded instance stops here.
Over ==
  /\ stack = <<>>
  /\ invoked = MaxInvocations
  /\ \A f \in Functions : sending[f] = 0
  /\ UNCHANGED vars

Next == Invoke \/ Step \/ MessageSent \/ Over

Spec == Init /\ [][Next]_vars

\* A call in progress goes on, and what it calls answers.
FairSpec == Spec /\ WF_vars(Step)

-----------------------------------------------------------------------------
(* Properties.                                                             *)

\* A function operates only after its needs: each has a record, and each that
\* must be executed for this call (params, no cache field) was, or at least
\* tried, since the call began, whatever earlier calls for the message left.
NeedsMet ==
  \A i \in DOMAIN stack :
    stack[i].stage = "operate" =>
      \A k \in DOMAIN Needs(stack[i].fn) :
        LET n == Needs(stack[i].fn)[k]
        IN  /\ HasExecuted(n.name)
            /\ Forced(stack[i].fn, n) => n.name \in stack[i].ended

\* Once a function or a knowledge query in the stack of calls has asked for
\* something in a special text, no function above it operates, and that is what
\* the outermost call returns; it returns such a text only then.
QuestionsSurface ==
  /\ asked => \A i \in DOMAIN stack : stack[i].stage # "operate"
  /\ stack = <<>> => (asked <=> answer = "special")

\* No function operates on a question an earlier call put in a special text,
\* provided the need must be executed for this one: its newest record is not
\* pending.  The need has onFailure functions, or it may fail and leave its old
\* record, and no callback calls it, which swallows its questions.
NeedsAnswered ==
  ~tool.faults =>
    \A i \in DOMAIN stack :
      stack[i].stage = "operate" =>
        \A k \in DOMAIN Needs(stack[i].fn) :
          LET n == Needs(stack[i].fn)[k]
          IN  /\ Forced(stack[i].fn, n)
              /\ tool.kind[n.name] = "tool"
              /\ n.name \in tool.handled \ tool.called
              => rows[n.name] # "pending"

\* Every call that was made returns.
Settles == stack # <<>> ~> stack = <<>>

==============================================================================
