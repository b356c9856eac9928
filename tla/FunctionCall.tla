----------------------------- MODULE FunctionCall -----------------------------
(***************************************************************************)
(* One function of a tool, called several times: YAMLDefinedTool.Call in   *)
(* engine/yaml_defined_tool.go, with the helpers that decide whether the   *)
(* operation may run (call rule, cache, team approval, user confirmation), *)
(* the loops that repeat it (retry, reRunIf), the callbacks and the        *)
(* execution record.                                                       *)
(*                                                                         *)
(* Each call is a goroutine; one action is one stage of Call, cut where    *)
(* the code reads or writes state that other calls share: the execution    *)
(* records, the scoped cache, the confirmation states, the approval        *)
(* checkpoint.  All calls are for the same client and message, which is    *)
(* the case in which they share all four.  Text produced on the way is     *)
(* left out; the answers of models, databases and foreign systems are      *)
(* choices.                                                                *)
(*                                                                         *)
(* Definitions named ...Bug are mutated forms of the definition that       *)
(* follows them; no specification uses them.                               *)
(***************************************************************************)
EXTENDS Naturals, Sequences, FiniteSets

CONSTANTS
  Calls,       \* the calls of the function (bound on their number)
  Inputs,      \* fulfilled inputs, up to their hash
  Functions,   \* the functions explored, with the conditions they are called in
  NoInput,     \* inputs not fulfilled yet
  NoCall       \* no writer, no confirmation, no approval

Statuses == {"complete", "failed", "pending", "skipped"}

\* What the YAML of the function says, callbacks reduced to their number, and
\* the conditions it is called in: what goes wrong (a database call, the
\* context), and bounds on the calls made in all and at the same time.
FunctionType ==
  [needs     : BOOLEAN,
   runOnlyIf : {"none", "condition", "onErrorAsks", "onErrorEscalates"},
   rule      : {"multiple", "once", "unique"},
   filter    : SUBSET Statuses,
   cache     : {"off", "early", "shared", "perInput"},
   approval  : {"off", "manual", "auto"},
   confirm   : BOOLEAN,
   onSuccess : Nat,
   onFailure : Nat,
   onSkip    : Nat,
   onPending : Nat,
   reRun     : {"none", "same", "fresh"},
   maxReRun  : Nat,
   faults    : SUBSET {"db", "cancel"},
   maxCalls  : Nat,
   maxActive : Nat]

ASSUME ConstantsAssumption ==
  /\ Functions \subseteq FunctionType
  /\ NoInput \notin Inputs
  /\ NoCall \notin Calls

VARIABLES
  fn,          \* the function being called
  call,        \* the local variables of each call
  rows,        \* the execution records each call created, in order
  cache,       \* scoped cache: the call that wrote the output, by key
  confirms,    \* confirmation states of the function
  checkpoint   \* the approval checkpoint of the message

stores == <<fn, rows, cache, confirms, checkpoint>>
vars == <<fn, call, rows, cache, confirms, checkpoint>>

Gates == {"earlyCache", "needs", "runOnlyIf", "onceRule", "fulfil", "uniqueRule",
          "prepare", "successInputs", "cacheLookup"}
Consents == {"approval", "useGrant", "confirm", "ask", "extract", "useConsent"}
Operating == {"start", "execute", "store", "reRun"}
Closing == {"afterSuccess", "recordSuccess", "onSuccess", "completion",
            "recordFailure", "onFailure", "onSkip", "onPending"}
Stages == {"idle", "defer", "done"} \cup Gates \cup Consents \cup Operating \cup Closing

Questions == {"nothing", "input", "approval", "confirmation", "output"}
Errors == {"none", "error", "pending", "panic"}
HookKinds == {"afterSuccess", "afterFailure", "afterCompletion"}

CallType ==
  [pc      : Stages,
   status  : Statuses,             \* status
   stored  : BOOLEAN,              \* executionRecorded
   input   : Inputs \cup {NoInput},
   hash    : Inputs \cup {NoInput},\* inputsHash, NoInput when empty
   tries   : 0 .. 1,               \* retryCount
   reRuns  : Nat,                  \* reRunIfRetryCount
   todo    : Nat,                  \* callbacks still to execute
   asked   : Questions,            \* what the call asked for when it returned
   ret     : Errors,               \* the error Call returns
   state   : Calls \cup {NoCall},  \* existingState, by the call that created it
   \* History, read by properties only.
   consent : Calls \cup {NoCall},  \* confirmation state the call acted upon
   grant   : Calls \cup {NoCall},  \* approved checkpoint it acted upon
   runs    : Nat,                  \* times the operation was started
   ranOn   : SUBSET Inputs,        \* inputs it was started with
   worked  : BOOLEAN,              \* the last run, or the cache, gave an output
   hooks   : SUBSET HookKinds]

Row == [status : Statuses, hash : Inputs \cup {NoInput}]
Confirmation == [by : Calls, hash : Inputs, confirmed : BOOLEAN, expired : BOOLEAN]
Checkpoint == [by : Calls \cup {NoCall}, granted : BOOLEAN]

TypeOK ==
  /\ fn \in Functions
  /\ call \in [Calls -> CallType]
  /\ rows \in [Calls -> Seq(Row)]
  /\ cache \in [Inputs \cup {NoInput} -> Calls \cup {NoCall}]
  /\ confirms \subseteq Confirmation
  /\ checkpoint \in Checkpoint

NewCall ==
  [pc |-> "idle", status |-> "complete", stored |-> FALSE, input |-> NoInput,
   hash |-> NoInput, tries |-> 0, reRuns |-> 0, todo |-> 0, asked |-> "nothing",
   ret |-> "none", state |-> NoCall, consent |-> NoCall, grant |-> NoCall,
   runs |-> 0, ranOn |-> {}, worked |-> FALSE, hooks |-> {}]

NoCheckpoint == [by |-> NoCall, granted |-> FALSE]

Init ==
  /\ fn \in Functions
  /\ call = [c \in Calls |-> NewCall]
  /\ rows = [c \in Calls |-> <<>>]
  /\ cache = [k \in Inputs \cup {NoInput} |-> NoCall]
  /\ confirms = {}
  /\ checkpoint = NoCheckpoint

-----------------------------------------------------------------------------
(* The ways a stage ends.                                                  *)

At(c, stage) == call[c].pc = stage

\* Only call c changes, into r.
Become(c, r) == call' = [call EXCEPT ![c] = r]

Goto(c, stage) == Become(c, [call[c] EXCEPT !.pc = stage])

\* return: the deferred function runs next.
Return(c, s, error) ==
  Become(c, [call[c] EXCEPT !.pc = "defer", !.status = s, !.ret = error])

\* Return with the status the call has so far.
ReturnAsIs(c, error) == Return(c, call[c].status, error)

\* The call asks for something: its magic string callbacks run, then it
\* returns without an error (executeMagicStringCallbacks).
Pause(c, what) ==
  Become(c, [call[c] EXCEPT !.pc = "onPending", !.status = "pending",
                            !.todo = fn.onPending, !.asked = what])

\* A failure before the operation: executeOnFailureFunctions, which records
\* the call only if there are onFailure functions; the caller then sets
\* executionRecorded in either case.
FailEarly(c) ==
  IF fn.onFailure = 0
  THEN Become(c, [call[c] EXCEPT !.pc = "defer", !.status = "failed",
                                 !.stored = TRUE, !.hooks = @ \cup {"afterCompletion"}])
  ELSE Become(c, [call[c] EXCEPT !.pc = "recordFailure", !.status = "failed"])

\* A done context may fail the database calls that carry it as well.
DbFails == fn.faults # {}
ContextDone == "cancel" \in fn.faults

\* RecordExecution: the row carries inputsHash, or the hash of the inputs.
RowOf(c, s) ==
  [status |-> s,
   hash |-> IF call[c].hash = NoInput THEN call[c].input ELSE call[c].hash]

Record(c, s) == rows' = [rows EXCEPT ![c] = Append(@, RowOf(c, s))]

\* shouldCountExecutionStatus: an empty filter counts every status.
Counts(r) == fn.filter = {} \/ r.status \in fn.filter

Executed == {r \in UNION {{rows[c][i] : i \in DOMAIN rows[c]} : c \in Calls} : Counts(r)}

-----------------------------------------------------------------------------
(* Before the inputs are known.                                            *)

Active(c) == call[c].pc \notin {"idle", "done"}

\* Call is entered; without a callback it is an error, and a workflow-only
\* function called directly is skipped.
Begin(c) ==
  /\ At(c, "idle")
  /\ Cardinality({d \in Calls : Active(d)}) < fn.maxActive
  /\ Cardinality({d \in Calls : ~At(d, "idle")}) < fn.maxCalls
  /\ \/ Goto(c, "earlyCache")
     \/ ReturnAsIs(c, "error")
     \/ Return(c, "skipped", "none")
  /\ UNCHANGED stores

\* A cached output ends the call.
ReturnCached(c) ==
  Become(c, [call[c] EXCEPT !.pc = "defer", !.worked = TRUE])

\* Step 0: a client or message cache that ignores the inputs.  A cache that
\* cannot be read is a miss.
EarlyCache(c) ==
  /\ At(c, "earlyCache")
  /\ \/ /\ fn.cache = "early"
        /\ cache[NoInput] # NoCall
        /\ ReturnCached(c)
     \/ /\ fn.cache # "early" \/ cache[NoInput] = NoCall \/ DbFails
        /\ Goto(c, "needs")
  /\ UNCHANGED stores

\* Step 1: ExecuteDependencies gives the needs, an error, or a dependency
\* that asks for something.
Needs(c) ==
  /\ At(c, "needs")
  /\ \/ Goto(c, "runOnlyIf")
     \/ fn.needs /\ FailEarly(c)
     \/ fn.needs /\ Return(c, "pending", "none")
  /\ UNCHANGED stores

\* handleRunOnlyIfError, with or without an original error: the escalation
\* strategies read the text of the original error.
OnErrorOutcomes(hasError) ==
  IF fn.runOnlyIf = "onErrorAsks" THEN {"pending", "error"}
  ELSE IF hasError THEN {"error"} ELSE {"panic"}

\* Step 2: the condition holds, is false, cannot be parsed or evaluated, or
\* its evaluation asks for something.
RunOnlyIf(c) ==
  /\ At(c, "runOnlyIf")
  /\ \/ Goto(c, "onceRule")
     \/ /\ fn.runOnlyIf # "none"
        /\ \/ ReturnAsIs(c, "error")
           \/ ReturnAsIs(c, "pending")
           \/ fn.runOnlyIf = "condition" /\ FailEarly(c)
           \/ /\ fn.runOnlyIf # "condition"
              /\ \E e \in OnErrorOutcomes(TRUE) : ReturnAsIs(c, e)
           \/ Become(c, [call[c] EXCEPT !.pc = "onSkip", !.status = "skipped",
                                      !.todo = fn.onSkip])
  /\ UNCHANGED stores

SkipsRuleBug(c) ==
  /\ At(c, "onceRule")
  /\ Goto(c, "fulfil")
  /\ UNCHANGED stores

\* Step 2.5: a rule that is violated, or cannot be checked, fails the call.
OnceRule(c) ==
  /\ At(c, "onceRule")
  /\ \/ /\ fn.rule # "once" \/ Executed = {}
        /\ Goto(c, "fulfil")
     \/ /\ fn.rule = "once"
        /\ Executed # {} \/ DbFails
        /\ Return(c, "failed", "none")
  /\ UNCHANGED stores

\* Step 3: FulfillInputs.  Cancellation and a missing model are errors of
\* Call itself; the status is still the initial one.
Fulfil(c) ==
  /\ At(c, "fulfil")
  /\ \/ \E x \in Inputs :
          Become(c, [call[c] EXCEPT !.pc = "uniqueRule", !.input = x])
     \/ Pause(c, "input")
     \/ ContextDone /\ ReturnAsIs(c, "error")
     \/ Return(c, "failed", "none")
  /\ UNCHANGED stores

\* Step 4: inputsHash is set whether or not the rule is violated.
UniqueRule(c) ==
  /\ At(c, "uniqueRule")
  /\ \/ fn.rule # "unique" /\ Goto(c, "prepare")
     \/ fn.rule = "unique" /\ DbFails /\ Return(c, "failed", "none")
     \/ /\ fn.rule = "unique"
        /\ IF \E r \in Executed : r.hash = call[c].input
           THEN Become(c, [call[c] EXCEPT !.pc = "defer", !.status = "failed",
                                          !.hash = call[c].input])
           ELSE Become(c, [call[c] EXCEPT !.pc = "prepare", !.hash = call[c].input])
  /\ UNCHANGED stores

\* OnInputsFulfilled, beforeExecution hooks (their errors are logged), and
\* the first look at the context.
Prepare(c) ==
  /\ At(c, "prepare")
  /\ \/ Goto(c, "successInputs")
     \/ ContextDone /\ ReturnAsIs(c, "error")
  /\ UNCHANGED stores

\* Step 5: a required input of an onSuccess function is missing.
SuccessInputs(c) ==
  /\ At(c, "successInputs")
  /\ \/ Goto(c, "cacheLookup")
     \/ fn.onSuccess > 0 /\ Pause(c, "input")
  /\ UNCHANGED stores

\* includeInputs decides whether the inputs are part of the key.
CacheKey(c) == IF fn.cache = "perInput" THEN call[c].input ELSE NoInput

\* Step 6: skipped when step 0 looked already.
CacheLookup(c) ==
  /\ At(c, "cacheLookup")
  /\ \/ /\ fn.cache \in {"shared", "perInput"}
        /\ cache[CacheKey(c)] # NoCall
        /\ ReturnCached(c)
     \/ /\ fn.cache \in {"off", "early"} \/ cache[CacheKey(c)] = NoCall \/ DbFails
        /\ Goto(c, "approval")
  /\ UNCHANGED stores

-----------------------------------------------------------------------------
(* Team approval and user confirmation.                                    *)

UsesCheckpoint(c) ==
  Become(c, [call[c] EXCEPT !.pc = "useGrant", !.grant = checkpoint.by])

ApprovesWaitingBug(c) ==
  /\ At(c, "approval")
  /\ IF fn.approval # "manual" \/ checkpoint.by # NoCall
     THEN Goto(c, "confirm")
     ELSE Pause(c, "approval")
  /\ UNCHANGED stores

\* Step 7.  When the database or the auto-approval setting cannot be read the
\* error is logged and the call goes on.  The message for the team is
\* generated only when there is no checkpoint, and may fail.
Approval(c) ==
  /\ At(c, "approval")
  /\ \/ /\ fn.approval \in {"off", "auto"} \/ DbFails
        /\ Goto(c, "confirm")
     \/ /\ fn.approval = "manual"
        /\ \/ DbFails /\ Return(c, "failed", "none")
           \/ checkpoint.granted /\ UsesCheckpoint(c)
           \/ /\ ~checkpoint.granted
              /\ Pause(c, IF checkpoint = NoCheckpoint THEN "approval" ELSE "nothing")
           \/ checkpoint = NoCheckpoint /\ Return(c, "failed", "none")
  /\ UNCHANGED stores

KeepsGrantBug(c) ==
  /\ At(c, "useGrant")
  /\ Goto(c, "confirm")
  /\ UNCHANGED stores

\* checkTeamApproval deletes the granted checkpoint; a failure is logged.
UseGrant(c) ==
  /\ At(c, "useGrant")
  /\ Goto(c, "confirm")
  /\ checkpoint' = NoCheckpoint \/ (DbFails /\ UNCHANGED checkpoint)
  /\ UNCHANGED <<fn, rows, cache, confirms>>

SameInputs(c) == {s \in confirms : s.hash = call[c].input}

\* checkUserConfirmation: the state for these inputs, or else any state of
\* the function, ignoring the hash.
Matching(c) == IF SameInputs(c) # {} THEN SameInputs(c) ELSE confirms

\* Step 8, the look-up.  An expired state is deleted and counts as none.
Confirm(c) ==
  /\ At(c, "confirm")
  /\ \/ /\ ~fn.confirm
        /\ Goto(c, "start")
        /\ UNCHANGED confirms
     \/ /\ fn.confirm /\ DbFails
        /\ Return(c, "failed", "none")
        /\ UNCHANGED confirms
     \/ /\ fn.confirm /\ confirms = {}
        /\ Goto(c, "ask")
        /\ UNCHANGED confirms
     \/ /\ fn.confirm
        /\ \E s \in Matching(c) :
             IF s.expired
             THEN /\ Goto(c, "ask")
                  /\ confirms' = confirms \ {s} \/ (DbFails /\ UNCHANGED confirms)
             ELSE /\ Become(c, [call[c] EXCEPT !.state = s.by,
                                           !.pc = IF s.confirmed THEN "useConsent" ELSE "extract"])
                  /\ UNCHANGED confirms
  /\ UNCHANGED <<fn, rows, cache, checkpoint>>

\* No state yet: one is created (a failure is logged) and the user is asked.
Ask(c) ==
  /\ At(c, "ask")
  /\ \/ /\ Pause(c, "confirmation")
        /\ \/ confirms' = confirms \cup
                {[by |-> c, hash |-> call[c].input, confirmed |-> FALSE, expired |-> FALSE]}
           \/ DbFails /\ UNCHANGED confirms
     \/ /\ Return(c, "failed", "none")  \* the message cannot be generated
        /\ UNCHANGED confirms
  /\ UNCHANGED <<fn, rows, cache, checkpoint>>

StatesBy(b) == {s \in confirms : s.by = b}

\* A state the user has not confirmed: the conversation is searched for an
\* answer.  A yes is written to the state; without one the user is asked again.
Extract(c) ==
  /\ At(c, "extract")
  /\ \/ /\ Goto(c, "useConsent")
        /\ \/ confirms' = (confirms \ StatesBy(call[c].state)) \cup
                            {[s EXCEPT !.confirmed = TRUE] : s \in StatesBy(call[c].state)}
           \/ DbFails /\ UNCHANGED confirms
     \/ Pause(c, "confirmation") /\ UNCHANGED confirms
     \/ Return(c, "failed", "none") /\ UNCHANGED confirms
  /\ UNCHANGED <<fn, rows, cache, checkpoint>>

\* The confirmation is deleted, "one-time use"; a failure is logged.
UseConsent(c) ==
  /\ At(c, "useConsent")
  /\ Become(c, [call[c] EXCEPT !.pc = "start", !.consent = call[c].state])
  /\ \/ confirms' = confirms \ StatesBy(call[c].state)
     \/ DbFails /\ UNCHANGED confirms
  /\ UNCHANGED <<fn, rows, cache, checkpoint>>

-----------------------------------------------------------------------------
(* The operation, its retry, and reRunIf.                                  *)

Start(c) ==
  /\ At(c, "start")
  /\ \/ Goto(c, "execute")
     \/ ContextDone /\ ReturnAsIs(c, "error")
  /\ UNCHANGED stores

Ran(c) ==
  [call[c] EXCEPT !.runs = @ + 1, !.ranOn = @ \cup {call[c].input}, !.worked = FALSE]

OneTooManyBug == 2

MaxRetries == 1

\* Steps 9 and 10.  The operation gives an output, lacks data, errs (and is
\* tried again), or gives a text that is an error; a terminal operation may
\* also answer with a request of its own; format and policy operations fail
\* when their input or value is missing.
Execute(c) ==
  /\ At(c, "execute")
  /\ \E r \in {Ran(c)} :
       \/ Become(c, [r EXCEPT !.pc = "store", !.worked = TRUE])
       \/ Become(c, [r EXCEPT !.pc = "onPending", !.status = "pending",
                               !.todo = fn.onPending, !.asked = "output"])
       \/ /\ call[c].tries < MaxRetries
          /\ Become(c, [r EXCEPT !.tries = @ + 1])
       \/ Become(c, [r EXCEPT !.pc = "defer", !.status = "failed"])
       \/ /\ fn.onFailure > 0
          /\ Become(c, [r EXCEPT !.pc = "recordFailure", !.status = "failed"])
  /\ UNCHANGED stores

\* Steps 11 to 13: step results, the context, formatting, the cache.
Store(c) ==
  /\ At(c, "store")
  /\ \/ /\ Goto(c, "reRun")
        /\ \/ /\ fn.cache # "off"
              /\ cache' = [cache EXCEPT ![CacheKey(c)] = c]
           \/ /\ fn.cache = "off" \/ DbFails
              /\ UNCHANGED cache
     \/ /\ ContextDone
        /\ ReturnAsIs(c, "error")
        /\ UNCHANGED cache
  /\ UNCHANGED <<fn, rows, confirms, checkpoint>>

NextRound(c, x) ==
  [call[c] EXCEPT !.pc = "execute", !.input = x, !.tries = 0, !.reRuns = @ + 1]

\* Step 13.5: reRunIf.  A condition that cannot be evaluated, and a spent
\* maxRetries, end the loop.  Scope "full" and params may change the inputs;
\* nothing after Step 8 is checked again and inputsHash is kept.
ReRun(c) ==
  /\ At(c, "reRun")
  /\ \/ Goto(c, "afterSuccess")
     \/ /\ fn.reRun # "none"
        /\ call[c].reRuns < fn.maxReRun
        /\ \/ \E x \in IF fn.reRun = "fresh" THEN Inputs ELSE {call[c].input} :
                Become(c, NextRound(c, x))
           \/ ContextDone /\ ReturnAsIs(c, "error")
  /\ UNCHANGED stores

-----------------------------------------------------------------------------
(* Callbacks, hooks and the execution record.                              *)

AfterSuccess(c) ==
  /\ At(c, "afterSuccess")
  /\ Become(c, [call[c] EXCEPT !.hooks = @ \cup {"afterSuccess"},
                               !.pc = IF fn.onSuccess = 0 THEN "completion" ELSE "recordSuccess"])
  /\ UNCHANGED stores

RecordsLateBug(c) ==
  /\ At(c, "recordSuccess")
  /\ Become(c, [call[c] EXCEPT !.pc = "onSuccess", !.todo = fn.onSuccess])
  /\ UNCHANGED stores

RecordsTwiceBug(c) ==
  /\ At(c, "recordSuccess")
  /\ Record(c, "complete")
  /\ Become(c, [call[c] EXCEPT !.pc = "onSuccess", !.todo = fn.onSuccess])
  /\ UNCHANGED <<fn, cache, confirms, checkpoint>>

\* The call is recorded before its onSuccess functions; if that fails the
\* deferred function tries again.
RecordSuccess(c) ==
  /\ At(c, "recordSuccess")
  /\ \/ /\ Record(c, "complete")
        /\ Become(c, [call[c] EXCEPT !.pc = "onSuccess", !.todo = fn.onSuccess,
                                     !.stored = TRUE])
     \/ /\ DbFails
        /\ Become(c, [call[c] EXCEPT !.pc = "onSuccess", !.todo = fn.onSuccess])
        /\ UNCHANGED rows
  /\ UNCHANGED <<fn, cache, confirms, checkpoint>>

\* Before the onFailure functions too, but here a failure is only logged.
RecordFailure(c) ==
  /\ At(c, "recordFailure")
  /\ Record(c, "failed") \/ (DbFails /\ UNCHANGED rows)
  /\ Become(c, [call[c] EXCEPT !.pc = "onFailure", !.todo = fn.onFailure,
                               !.stored = TRUE, !.hooks = @ \cup {"afterFailure"}])
  /\ UNCHANGED <<fn, cache, confirms, checkpoint>>

RepeatsCallbackBug(c) ==
  /\ call[c].pc \in {"onSuccess", "onFailure", "onSkip", "onPending"}
  /\ call[c].todo > 0
  /\ UNCHANGED call
  /\ UNCHANGED stores

\* One callback function: skipped by its condition, executed or failed, the
\* call goes on.
Callback(c) ==
  /\ call[c].pc \in {"onSuccess", "onFailure", "onSkip", "onPending"}
  /\ call[c].todo > 0
  /\ Become(c, [call[c] EXCEPT !.todo = @ - 1])
  /\ UNCHANGED stores

PendingParentBug(c) ==
  /\ At(c, "onSuccess")
  /\ call[c].todo > 0
  /\ Return(c, "pending", "pending")
  /\ UNCHANGED stores

\* An onSuccess function that asks for something ends the call with an error.
SuccessAsks(c) ==
  /\ At(c, "onSuccess")
  /\ call[c].todo > 0
  /\ ReturnAsIs(c, "pending")
  /\ UNCHANGED stores

\* The condition was false: an onError strategy is applied all the same.
SkipEnds(c) ==
  /\ At(c, "onSkip")
  /\ \/ /\ fn.runOnlyIf = "condition"
        /\ ReturnAsIs(c, "none")
     \/ /\ fn.runOnlyIf # "condition"
        /\ \E e \in OnErrorOutcomes(FALSE) : ReturnAsIs(c, e)

CallbacksOver(c) ==
  /\ call[c].todo = 0
  /\ \/ SkipEnds(c)
     \/ At(c, "onPending") /\ ReturnAsIs(c, "none")
     \/ At(c, "onSuccess") /\ Goto(c, "completion")
     \/ /\ At(c, "onFailure")
        /\ Become(c, [call[c] EXCEPT !.pc = "defer", !.hooks = @ \cup {"afterCompletion"}])
  /\ UNCHANGED stores

\* Step 15.
Completion(c) ==
  /\ At(c, "completion")
  /\ Become(c, [call[c] EXCEPT !.pc = "defer", !.hooks = @ \cup {"afterCompletion"}])
  /\ UNCHANGED stores

ForgetsPausedBug(c) ==
  /\ At(c, "defer")
  /\ Goto(c, "done")
  /\ IF call[c].stored \/ call[c].status = "pending"
     THEN UNCHANGED rows
     ELSE Record(c, call[c].status)
  /\ UNCHANGED <<fn, cache, confirms, checkpoint>>

\* The deferred function runs on every return, and on a panic.
Deferred(c) ==
  /\ At(c, "defer")
  /\ Goto(c, "done")
  /\ \/ call[c].stored /\ UNCHANGED rows
     \/ ~call[c].stored /\ Record(c, call[c].status)
     \/ DbFails /\ UNCHANGED rows
  /\ UNCHANGED <<fn, cache, confirms, checkpoint>>

-----------------------------------------------------------------------------
(* Around the calls: the coordinator, the team, and time.                  *)

\* The coordinator recognises a request for approval and creates the
\* checkpoint, once per request.
CreateCheckpoint(c) ==
  /\ At(c, "done")
  /\ call[c].asked = "approval"
  /\ checkpoint = NoCheckpoint
  /\ checkpoint' = [by |-> c, granted |-> FALSE]
  /\ Become(c, [call[c] EXCEPT !.asked = "nothing"])
  /\ UNCHANGED <<fn, rows, cache, confirms>>

Grant ==
  /\ checkpoint.by # NoCall
  /\ ~checkpoint.granted
  /\ checkpoint' = [checkpoint EXCEPT !.granted = TRUE]
  /\ UNCHANGED <<fn, call, rows, cache, confirms>>

\* The TTL of a confirmation, and of a cache entry, passes.
ConfirmationExpires ==
  /\ \E s \in confirms :
       /\ ~s.expired
       /\ confirms' = (confirms \ {s}) \cup {[s EXCEPT !.expired = TRUE]}
  /\ UNCHANGED <<fn, call, rows, cache, checkpoint>>

CacheExpires ==
  /\ \E k \in DOMAIN cache :
       /\ cache[k] # NoCall
       /\ cache' = [cache EXCEPT ![k] = NoCall]
  /\ UNCHANGED <<fn, call, rows, confirms, checkpoint>>

-----------------------------------------------------------------------------
Gate(c) ==
  \/ EarlyCache(c) \/ Needs(c) \/ RunOnlyIf(c) \/ OnceRule(c) \/ Fulfil(c)
  \/ UniqueRule(c) \/ Prepare(c) \/ SuccessInputs(c) \/ CacheLookup(c)

Consent(c) ==
  \/ Approval(c) \/ UseGrant(c) \/ Confirm(c) \/ Ask(c) \/ Extract(c) \/ UseConsent(c)

Operate(c) == Start(c) \/ Execute(c) \/ Store(c) \/ ReRun(c)

Close(c) ==
  \/ AfterSuccess(c) \/ RecordSuccess(c) \/ RecordFailure(c) \/ Callback(c)
  \/ SuccessAsks(c) \/ CallbacksOver(c) \/ Completion(c) \/ Deferred(c)

Step(c) == Gate(c) \/ Consent(c) \/ Operate(c) \/ Close(c)

Environment ==
  \/ \E c \in Calls : CreateCheckpoint(c)
  \/ Grant
  \/ ConfirmationExpires
  \/ CacheExpires

\* No call is left: a bounded instance stops here.
AllDone ==
  /\ \A c \in Calls : ~Active(c)
  /\ UNCHANGED vars

Next == AllDone \/ Environment \/ \E c \in Calls : Begin(c) \/ Step(c)

Spec == Init /\ [][Next]_vars

\* A started call is scheduled, and what it calls answers.
FairSpec == Spec /\ \A c \in Calls : WF_vars(Step(c))

-----------------------------------------------------------------------------
(* Properties.                                                             *)

Done(c) == At(c, "done")

\* However a call ends, and whatever the database does, it leaves at most one
\* execution record: the deferred function and the records written before the
\* callbacks never both count.
RecordedAtMostOnce == \A c \in Calls : Len(rows[c]) <= 1

\* With a working database a call that ended has its record, except one that
\* failed before its operation when the function has no onFailure functions.
NoneLost ==
  ~DbFails =>
    \A c \in Calls :
      Done(c) /\ rows[c] = <<>> =>
        fn.onFailure = 0 /\ call[c].status = "failed" /\ call[c].runs = 0

\* onSuccess and onFailure functions find the record of their parent, with
\* the outcome they react to.
ParentFirst ==
  ~DbFails =>
    \A c \in Calls :
      /\ At(c, "onSuccess") => rows[c] # <<>> /\ rows[c][1].status = "complete"
      /\ At(c, "onFailure") => rows[c] # <<>> /\ rows[c][1].status = "failed"

\* Without reRunIf, an output in the cache comes from a call whose operation
\* worked and whose status stays complete: callbacks that fail or ask for
\* something do not change it.
CacheHonest ==
  fn.reRun = "none" =>
    \A k \in DOMAIN cache :
      cache[k] # NoCall =>
        call[cache[k]].worked /\ call[cache[k]].status = "complete"

\* The call rule, for calls one after the other: of two calls that started
\* the operation (for unique: on the same inputs), one left no record that
\* the filter counts.
RuleKept ==
  fn.maxActive = 1 /\ ~DbFails /\ fn.reRun # "fresh" =>
    \A c, d \in Calls :
      /\ c # d /\ Done(c) /\ Done(d)
      /\ \/ fn.rule = "once" /\ call[c].runs > 0 /\ call[d].runs > 0
         \/ fn.rule = "unique" /\ call[c].ranOn \cap call[d].ranOn # {}
      => \E e \in {c, d} : ~Counts(rows[e][1])

\* An operation that needs a confirmation (an approval) starts on the strength
\* of one that another call asked for, and that call did not start it.
Consented ==
  \A c \in Calls :
    call[c].runs > 0 =>
      /\ fn.confirm =>
           call[c].consent # NoCall /\ call[call[c].consent].runs = 0
      /\ fn.approval = "manual" /\ ~DbFails =>
           call[c].grant # NoCall /\ call[call[c].grant].runs = 0

\* One-time use, for calls one after the other and a working database: no
\* confirmation and no approval serves two calls.
OneTimeConsent ==
  fn.maxActive = 1 /\ ~DbFails =>
    \A c, d \in Calls :
      c # d => /\ call[c].consent = call[d].consent => call[c].consent = NoCall
               /\ call[c].grant = call[d].grant => call[c].grant = NoCall

\* Every call that was started returns: retries and reRunIf end.
Finishes == \A c \in Calls : Active(c) ~> Done(c)

===============================================================================
