------------------------------ MODULE Operations ------------------------------
(***************************************************************************)
(* The operation of a function: the loop of Call that tries it twice and   *)
(* the operations on steps it tries, in engine/yaml_defined_tool.go.       *)
(*                                                                         *)
(* An operation is a sequence of steps; a step is executed once, or for    *)
(* each item of a list.  The results of the first try are kept for the     *)
(* second, which skips the steps that have one.  Calls of an API also log  *)
(* in again when the answer asks for it, repeat calls of a busy service,   *)
(* and work through a list with two goroutines.  An action is the work     *)
(* between two answers of the outside world; a goroutine's actions         *)
(* interleave with those of the other one and of the collector of their    *)
(* answers.                                                                *)
(*                                                                         *)
(* Parameters, requests and outputs are left out: a result is the list of  *)
(* the items it was obtained for.                                          *)
(*                                                                         *)
(* Definitions named ...Bug are mutated forms of the definition that       *)
(* follows them; no specification uses them.                               *)
(***************************************************************************)
EXTENDS Integers, Sequences, FiniteSets, SequencesExt

CONSTANTS
  Operations,  \* the operations explored
  MaxItems,    \* bound on the length of a list
  MaxItemRetries,  \* of an item: 3 in the code
  MaxAuthRetries,  \* logins repeated in one try: 2 in the code
  Main,        \* the goroutine of the call
  Workers,     \* the goroutines of executeForEachApiStep
  NoResult     \* no entry in stepResults

Kinds == {"api_call", "db", "terminal", "code", "gdrive", "desktop"}
\* What may go wrong: answers of executors, and conditions.
Faults == {"error", "busy", "denied", "loginPage", "prose"} \cup
          {"panic", "cancel", "unresolved"}

StepType ==
  [indexed : BOOLEAN,             \* resultIndex is given
   login   : BOOLEAN,             \* isAuthentication
   list    : BOOLEAN,             \* foreach
   items   : 0 .. MaxItems,
   cond    : BOOLEAN,             \* runOnlyIf
   breakIf : BOOLEAN,
   waitFor : BOOLEAN,
   skip    : BOOLEAN]             \* shouldSkip

\* What the YAML says, and the conditions the operation is executed in.
OperationType ==
  [kind    : Kinds,
   steps   : Seq(StepType),
   token   : BOOLEAN,             \* extractAuthToken
   cached  : SUBSET {"cookies", "token"},
   session : BOOLEAN,             \* reuseSession
   fixer   : BOOLEAN,             \* self-fix is enabled
   faults  : SUBSET Faults]

ASSUME ConstantsAssumption ==
  /\ Operations \subseteq OperationType
  /\ MaxItems \in Nat /\ MaxItemRetries \in Nat /\ MaxAuthRetries \in Nat
  /\ Main \notin Workers \cup (Workers \X Nat) /\ Cardinality(Workers) = 2
  /\ NoResult \notin Seq(Nat)

MaxRetries == 1        \* of the operation

VARIABLES
  op,        \* the operation
  main,      \* the loops of the call
  runner,    \* the item each goroutine is at
  results,   \* stepResults
  queue,     \* workChan of each try: items nobody works on
  answers,   \* resultChan of each try
  stored,    \* credentials in the repositories
  auth,      \* loaded credentials, and authRetryCount of each try
  live,      \* the context has not ended
  log        \* history, read by properties only

vars == <<op, main, runner, results, queue, answers, stored, auth, live, log>>
inner == <<results, queue, answers, stored, auth, log>>

Steps == DOMAIN op.steps
Step == op.steps[main.step]
Tries == 0 .. MaxRetries

\* How a step works through its list.  Two goroutines do for an API, unless an
\* item may end or hold up the list.  A terminal operation never looks at the
\* list of a step, which the parser accepts: the step is executed once.
Each(s) ==
  LET step == op.steps[s] IN
    IF ~step.list \/ op.kind = "terminal" THEN "no"
    ELSE IF op.kind = "api_call" /\ ~step.breakIf /\ ~step.waitFor /\ ~step.skip THEN "parallel"
    ELSE "sequential"

Runners == {Main} \cup (Workers \X Tries)
TryOf(r) == IF r = Main THEN main.try ELSE r[2]
Over == main.pc \in {"succeeded", "failed"}
Credentials == {"cookies", "token"}

MainType ==
  [pc    : {"start", "step", "execute", "relogin", "list", "item", "call", "after",
            "poll", "collect", "fix", "succeeded", "failed"},
   try   : Tries,                 \* retryCount
   step  : Nat,
   item  : Nat,
   at    : Nat,                   \* retryIndex
   got   : Seq(0 .. MaxItems),    \* results of the list so far
   due   : 0 .. MaxItems,         \* answers the collector waits for
   wrong : BOOLEAN,               \* firstError
   open  : BOOLEAN]               \* session

RunnerType ==
  [pc   : {"idle", "take", "call", "count", "relogin", "again", "delay"},
   step : Nat,
   item : 0 .. MaxItems,
   try  : 0 .. MaxItemRetries,    \* attempt
   at   : Nat,                    \* retryIndex
   seen : 0 .. MaxAuthRetries]    \* authRetryCount as it was read

TypeOK ==
  /\ op \in Operations
  /\ main \in MainType
  /\ runner \in [Runners -> RunnerType]
  /\ results \in [Steps -> Seq(0 .. MaxItems) \cup {NoResult}]
  /\ queue \in [Tries -> Seq(1 .. MaxItems)]
  /\ answers \in [Tries -> Seq([item : 1 .. MaxItems, ok : BOOLEAN])]
  /\ stored \subseteq Credentials
  /\ auth \in [loaded : SUBSET Credentials, retries : [Tries -> 0 .. MaxAuthRetries]]
  /\ live \in BOOLEAN
  /\ log \in [done     : [Steps -> [0 .. MaxItems -> Nat]],
              excused  : [Steps -> SUBSET (0 .. MaxItems)],
              relogged : BOOLEAN,             \* a login was repeated
              panicked : BOOLEAN]

Idle == [pc |-> "idle", step |-> 0, item |-> 0, try |-> 0, at |-> 0, seen |-> 0]

Init ==
  /\ op \in Operations
  /\ main = [pc |-> "start", try |-> 0, step |-> 0, item |-> 0, at |-> 0,
             got |-> <<>>, due |-> 0, wrong |-> FALSE, open |-> FALSE]
  /\ runner = [r \in Runners |-> Idle]
  /\ results = [s \in Steps |-> NoResult]
  /\ queue = [t \in Tries |-> <<>>]
  /\ answers = [t \in Tries |-> <<>>]
  /\ stored = op.cached
  /\ auth = [loaded |-> {}, retries |-> [t \in Tries |-> 0]]
  /\ live = TRUE
  /\ log = [done |-> [s \in Steps |-> [p \in 0 .. MaxItems |-> 0]],
            excused |-> [s \in Steps |-> {}],
            relogged |-> FALSE, panicked |-> FALSE]

-----------------------------------------------------------------------------
(* The outside world: what an executor may answer, and what the code makes *)
(* of the answer.                                                          *)

\* A request without credentials is refused, or redirected to a login page.
ApiAnswers == {"ok"} \cup (op.faults \cap {"error", "busy", "denied", "loginPage"})
DbAnswers == {"ok"} \cup (op.faults \cap {"error"})
TerminalAnswers == {"ok"} \cup (op.faults \cap {"error"})
\* The prompt asks for an answer in JSON; it may say, after some prose, that
\* the task has failed.
CodeAnswers == {"ok"} \cup (op.faults \cap {"error", "prose"})
DriveAnswers == {"ok"} \cup (op.faults \cap {"error"})
DesktopAnswers == {"ok"} \cup (op.faults \cap {"error"})

Answers ==
  CASE op.kind = "api_call" -> ApiAnswers
    [] op.kind = "db"       -> DbAnswers
    [] op.kind = "terminal" -> TerminalAnswers
    [] op.kind = "code"     -> CodeAnswers
    [] op.kind = "gdrive"   -> DriveAnswers
    [] op.kind = "desktop"  -> DesktopAnswers

AsksForLogin(a) == a \in {"denied", "loginPage"}
Retryable(a) == a = "busy"

\* A login page comes without an error.  The first answer of a session is
\* searched for a refusal at its start only.
FirstOfSession == op.session /\ main.pc = "execute" /\ ~main.open
Error(a) == a \in {"error", "denied", "busy"} \/ (a = "prose" /\ ~FirstOfSession)

Logins == {s \in Steps : op.steps[s].login}
LoginStep == CHOOSE s \in Logins : \A t \in Logins : s <= t

\* The second try starts with the results of the first.
KeepsResults == op.kind # "desktop"
RetriesItems == op.kind = "api_call"

Count(s, p) == log' = [log EXCEPT !.done[s][p] = @ + 1]
CountRelogin == log' = [log EXCEPT !.relogged = TRUE]
Excuse(s, items) == log' = [log EXCEPT !.excused[s] = @ \cup items]
Store(s, r) == results' = IF op.steps[s].indexed THEN [results EXCEPT ![s] = r] ELSE results

-----------------------------------------------------------------------------
(* The loop of Call.                                                       *)

RetriesForeverBug ==
  main' = [main EXCEPT !.pc = IF main.try < MaxRetries + 1 THEN "start" ELSE "failed",
                       !.try = IF main.try < MaxRetries THEN main.try + 1 ELSE main.try]

FailTry ==
  main' = [main EXCEPT !.pc = IF main.try < MaxRetries THEN "start" ELSE "failed",
                       !.try = IF main.try < MaxRetries THEN main.try + 1 ELSE main.try]

ForgetsResultsBug ==
  /\ main.pc = "start"
  /\ results' = [s \in Steps |-> NoResult]
  /\ auth' = [auth EXCEPT !.loaded =
                IF Logins # {} THEN stored \ (IF op.token THEN {} ELSE {"token"}) ELSE {}]
  /\ main' = [pc |-> "step", try |-> main.try, step |-> 1, item |-> 0, at |-> 0,
              got |-> <<>>, due |-> 0, wrong |-> FALSE, open |-> FALSE]
  /\ UNCHANGED <<op, runner, queue, answers, stored, live, log>>

StartTry ==
  /\ main.pc = "start"
  /\ results' = IF KeepsResults THEN results ELSE [s \in Steps |-> NoResult]
  /\ auth' = [auth EXCEPT !.loaded =
                IF Logins # {} THEN stored \ (IF op.token THEN {} ELSE {"token"}) ELSE {}]
  /\ main' = [pc |-> "step", try |-> main.try, step |-> 1, item |-> 0, at |-> 0,
              got |-> <<>>, due |-> 0, wrong |-> FALSE, open |-> FALSE]
  /\ UNCHANGED <<op, runner, queue, answers, stored, live, log>>

\* The database cannot be opened, its init statement or a migration fails.
NoDatabase ==
  /\ main.pc = "start" /\ op.kind = "db" /\ "error" \in op.faults
  /\ FailTry
  /\ UNCHANGED <<op, runner, live, inner>>

Succeed ==
  /\ main.pc = "step" /\ main.step > Len(op.steps)
  /\ main' = [main EXCEPT !.pc = "succeeded"]
  /\ UNCHANGED <<op, runner, live, inner>>

NextStep == main' = [main EXCEPT !.pc = "step", !.step = @ + 1, !.got = <<>>, !.item = 0]

-----------------------------------------------------------------------------
(* The loop over the steps.                                                *)

AtStep == main.pc = "step" /\ main.step <= Len(op.steps)
HasResult == Step.indexed /\ results[main.step] # NoResult
LoggedIn == Step.login /\ auth.loaded # {}

SkipDone ==
  /\ AtStep /\ (HasResult \/ LoggedIn)
  /\ NextStep
  /\ UNCHANGED <<op, runner, live, inner>>

\* API and terminal operations ignore the runOnlyIf of their steps.
HasCondition == Step.cond /\ op.kind \notin {"api_call", "terminal"}

\* runOnlyIf of the step is false: what was skipped is stored as its result.
SkipStep ==
  /\ AtStep /\ ~HasResult /\ HasCondition
  /\ IF op.kind = "desktop" THEN UNCHANGED results ELSE Store(main.step, <<>>)
  /\ Excuse(main.step, 0 .. MaxItems)
  /\ NextStep
  /\ UNCHANGED <<op, runner, queue, answers, stored, auth, live>>

BadCondition ==
  /\ AtStep /\ ~HasResult /\ HasCondition
  /\ "error" \in op.faults
  /\ FailTry
  /\ UNCHANGED <<op, runner, live, inner>>

TakeStep ==
  /\ AtStep /\ ~HasResult /\ ~LoggedIn
  /\ main' = [main EXCEPT !.pc = IF Each(main.step) = "no" THEN "execute" ELSE "list"]
  /\ UNCHANGED <<op, runner, live, inner>>

-----------------------------------------------------------------------------
(* A step without a list.                                                  *)

\* A login may give a token to keep.
KeepToken(s) ==
  \/ UNCHANGED stored
  \/ /\ op.steps[s].login /\ op.token
     /\ stored' = stored \cup {"token"}

NeedsLogin(a) == Logins # {} /\ ~Step.login /\ AsksForLogin(a)

Execute ==
  /\ main.pc = "execute"
  /\ \E a \in Answers :
       /\ ~NeedsLogin(a) /\ ~Error(a)
       /\ main' = [main EXCEPT !.pc = "step", !.step = @ + 1, !.open = op.session]
       /\ \/ Store(main.step, <<>>)
          \/ op.kind = "desktop" /\ UNCHANGED results
       /\ Count(main.step, 0)
       /\ KeepToken(main.step)
  /\ UNCHANGED <<op, runner, queue, answers, auth, live>>

ExecuteFails ==
  /\ main.pc = "execute"
  /\ \E a \in Answers : ~NeedsLogin(a) /\ Error(a)
  /\ IF op.fixer /\ op.kind \in {"db", "terminal"}
     THEN main' = [main EXCEPT !.pc = "fix"]
     ELSE FailTry
  /\ UNCHANGED <<op, runner, live, inner>>

\* The tool may be rewritten.  The error that asks for a restart of the
\* workflow is an error like any other to the loop of Call.
SelfFix ==
  /\ main.pc = "fix"
  /\ FailTry
  /\ UNCHANGED <<op, runner, results, queue, answers, stored, auth, live, log>>

LoginRefused ==
  /\ main.pc = "execute"
  /\ \E a \in Answers : NeedsLogin(a)
  /\ auth.retries[main.try] >= MaxAuthRetries
  /\ FailTry
  /\ UNCHANGED <<op, runner, live, inner>>

LoginAgain ==
  /\ main.pc = "execute"
  /\ \E a \in Answers : NeedsLogin(a)
  /\ auth.retries[main.try] < MaxAuthRetries
  /\ auth' = [loaded |-> {}, retries |-> [auth.retries EXCEPT ![main.try] = @ + 1]]
  /\ stored' = stored \ ({"cookies"} \cup (IF op.token THEN {"token"} ELSE {}))
  /\ main' = [main EXCEPT !.pc = "relogin", !.at = LoginStep]
  /\ CountRelogin
  /\ UNCHANGED <<op, runner, results, queue, answers, live>>

\* All steps from the login on are executed, those with a list and those
\* already done too, each once; then the operation ends.
Repeat ==
  /\ main.pc = "relogin" /\ main.at <= Len(op.steps)
  /\ \E a \in Answers : ~Error(a)
  /\ Store(main.at, <<>>)
  /\ Count(main.at, 0)
  /\ KeepToken(main.at)
  /\ main' = [main EXCEPT !.at = @ + 1]
  /\ UNCHANGED <<op, runner, queue, answers, auth, live>>

RepeatFails ==
  /\ main.pc = "relogin" /\ main.at <= Len(op.steps)
  /\ \E a \in Answers : Error(a)
  /\ FailTry
  /\ UNCHANGED <<op, runner, live, inner>>

Repeated ==
  /\ main.pc = "relogin" /\ main.at > Len(op.steps)
  /\ main' = [main EXCEPT !.pc = "succeeded"]
  /\ UNCHANGED <<op, runner, live, inner>>

-----------------------------------------------------------------------------
(* A step with a list, one item after the other.                           *)

Items == 1 .. Step.items

\* The variable of the list has no value.
NoItems ==
  /\ main.pc = "list" /\ "unresolved" \in op.faults
  /\ Excuse(main.step, Items)
  /\ IF op.kind \in {"code", "gdrive"} THEN FailTry ELSE NextStep
  /\ IF op.kind = "db" THEN Store(main.step, <<>>) ELSE UNCHANGED results
  /\ UNCHANGED <<op, runner, queue, answers, stored, auth, live>>

StartList ==
  /\ main.pc = "list" /\ Each(main.step) = "sequential"
  /\ main' = [main EXCEPT !.pc = "item", !.item = 1, !.got = <<>>]
  /\ UNCHANGED <<op, runner, live, inner>>

EndList ==
  /\ main.pc = "item" /\ main.item > Step.items
  /\ Store(main.step, main.got)
  /\ NextStep
  /\ UNCHANGED <<op, runner, queue, answers, stored, auth, live, log>>

AtItem == main.pc = "item" /\ main.item <= Step.items

\* A function says so, or cannot be called; other lists never ask.
MaySkip == Step.skip /\ op.kind \in {"api_call", "desktop"}

SkipItem ==
  /\ AtItem /\ MaySkip
  /\ RetriesItems => live
  /\ Excuse(main.step, {main.item})
  /\ main' = [main EXCEPT !.item = @ + 1]
  /\ UNCHANGED <<op, runner, results, queue, answers, stored, auth, live>>

\* Without repetitions: the results are stored when the list is done.
ExecuteItem ==
  /\ AtItem /\ ~RetriesItems
  /\ \E a \in Answers : ~Error(a)
  /\ main' = [main EXCEPT !.item = @ + 1, !.got = Append(@, main.item)]
  /\ Count(main.step, main.item)
  /\ UNCHANGED <<op, runner, results, queue, answers, stored, auth, live>>

ExecuteItemFails ==
  /\ AtItem /\ ~RetriesItems
  /\ \E a \in Answers : Error(a)
  /\ FailTry
  /\ UNCHANGED <<op, runner, live, inner>>

EndedAtItem ==
  /\ AtItem /\ RetriesItems /\ ~live
  /\ FailTry
  /\ UNCHANGED <<op, runner, live, inner>>

CallItem ==
  /\ AtItem /\ RetriesItems /\ live
  /\ runner[Main].pc = "idle"
  /\ runner' = [runner EXCEPT ![Main] = [Idle EXCEPT !.pc = "call", !.step = main.step,
                                                     !.item = main.item]]
  /\ main' = [main EXCEPT !.pc = "call"]
  /\ UNCHANGED <<op, live, inner>>

\* The condition holds or not; one that cannot be evaluated does not.
MayBreak == Step.breakIf

\* After an item: stop the list, or wait for a condition, or go on.
AfterItem ==
  /\ main.pc = "after"
  /\ \/ /\ MayBreak
        /\ Excuse(main.step, main.item + 1 .. Step.items)
        /\ Store(main.step, main.got)
        /\ NextStep
     \/ /\ main' = [main EXCEPT !.pc = IF Step.waitFor THEN "poll" ELSE "item",
                                !.item = IF Step.waitFor THEN @ ELSE @ + 1]
        /\ UNCHANGED <<results, log>>
  /\ UNCHANGED <<op, runner, queue, answers, stored, auth, live>>

\* The function polled says so, or keeps failing or denying until the time
\* or the context has ended.
Poll ==
  /\ main.pc = "poll"
  /\ \/ main' = [main EXCEPT !.pc = "item", !.item = @ + 1]
     \/ ("error" \in op.faults \/ ~live) /\ FailTry
  /\ UNCHANGED <<op, runner, live, inner>>

-----------------------------------------------------------------------------
(* A step with a list, by two goroutines.                                  *)

NumWorkers == IF Step.items < 2 THEN Step.items ELSE 2

StartWorkers ==
  /\ main.pc = "list" /\ Each(main.step) = "parallel"
  /\ IF Step.items = 0
     THEN /\ NextStep
          /\ UNCHANGED <<runner, queue, answers>>
     ELSE /\ main' = [main EXCEPT !.pc = "collect", !.due = Step.items, !.wrong = FALSE,
                                  !.got = [i \in Items |-> 0]]
          /\ queue' = [queue EXCEPT ![main.try] = [i \in Items |-> i]]
          /\ answers' = [answers EXCEPT ![main.try] = <<>>]
          /\ \E W \in SUBSET Workers :
               /\ Cardinality(W) = NumWorkers
               /\ runner' = [r \in Runners |->
                     IF r # Main /\ TryOf(r) = main.try
                     THEN IF r[1] \in W THEN [Idle EXCEPT !.pc = "take", !.step = main.step]
                                        ELSE Idle
                     ELSE runner[r]]
  /\ UNCHANGED <<op, results, stored, auth, live, log>>

Take(r) ==
  /\ runner[r].pc = "take"
  /\ \/ /\ queue[TryOf(r)] # <<>>
        /\ runner' = [runner EXCEPT ![r] = [@ EXCEPT !.pc = "call", !.try = 0,
                                                      !.item = Head(queue[TryOf(r)])]]
        /\ queue' = [queue EXCEPT ![TryOf(r)] = Tail(@)]
     \/ /\ queue[TryOf(r)] = <<>> \/ (~live /\ runner[r].item # 0)
        /\ runner' = [runner EXCEPT ![r] = Idle]
        /\ UNCHANGED queue
  /\ UNCHANGED <<op, main, results, answers, stored, auth, live, log>>

\* The other items are answered with an error, the one that panicked is not.
Panic(r) ==
  /\ runner[r].pc = "call" /\ r # Main /\ "panic" \in op.faults
  /\ answers' = [answers EXCEPT ![TryOf(r)] =
       @ \o [i \in DOMAIN queue[TryOf(r)] |-> [item |-> queue[TryOf(r)][i], ok |-> FALSE]]]
  /\ queue' = [queue EXCEPT ![TryOf(r)] = <<>>]
  /\ runner' = [runner EXCEPT ![r] = Idle]
  /\ log' = [log EXCEPT !.panicked = TRUE]
  /\ UNCHANGED <<op, main, results, stored, auth, live>>

KeepsArrivalOrderBug ==
  /\ main.pc = "collect" /\ main.due > 0 /\ answers[main.try] # <<>>
  /\ LET a == Head(answers[main.try]) IN
       main' = [main EXCEPT !.due = @ - 1, !.wrong = @ \/ ~a.ok,
                            !.got[Step.items - main.due + 1] = a.item]
  /\ answers' = [answers EXCEPT ![main.try] = Tail(@)]
  /\ UNCHANGED <<op, runner, results, queue, stored, auth, live, log>>

Collect ==
  /\ main.pc = "collect" /\ main.due > 0 /\ answers[main.try] # <<>>
  /\ LET a == Head(answers[main.try]) IN
       main' = [main EXCEPT !.due = @ - 1, !.wrong = @ \/ ~a.ok,
                            !.got[a.item] = IF a.ok THEN a.item ELSE 0]
  /\ answers' = [answers EXCEPT ![main.try] = Tail(@)]
  /\ UNCHANGED <<op, runner, results, queue, stored, auth, live, log>>

GoesOnAfterErrorsBug ==
  /\ main.pc = "collect" /\ main.due = 0
  /\ NextStep
  /\ IF main.wrong THEN UNCHANGED results ELSE Store(main.step, main.got)
  /\ UNCHANGED <<op, runner, queue, answers, stored, auth, live, log>>

Collected ==
  /\ main.pc = "collect" /\ main.due = 0
  /\ IF main.wrong
     THEN FailTry /\ UNCHANGED results
     ELSE NextStep /\ Store(main.step, main.got)
  /\ UNCHANGED <<op, runner, queue, answers, stored, auth, live, log>>

\* The goroutines of the try are left to themselves.
StopCollecting ==
  /\ main.pc = "collect" /\ main.due > 0 /\ ~live
  /\ FailTry
  /\ UNCHANGED <<op, runner, live, inner>>

-----------------------------------------------------------------------------
(* One item of a list: executeForEachItemWithRetry, by the goroutine of    *)
(* the call or by a worker.                                                *)

ItemDone(r) ==
  /\ Count(runner[r].step, runner[r].item)
  /\ IF r = Main
     THEN /\ runner' = [runner EXCEPT ![r] = Idle]
          /\ main' = [main EXCEPT !.pc = "after", !.got = Append(@, main.item)]
          /\ Store(main.step, Append(main.got, main.item))
          /\ UNCHANGED answers
     ELSE /\ runner' = [runner EXCEPT ![r] = [Idle EXCEPT !.pc = "take", !.step = runner[r].step,
                                                      !.item = runner[r].item]]
          /\ answers' = [answers EXCEPT ![TryOf(r)] =
                           Append(@, [item |-> runner[r].item, ok |-> TRUE])]
          /\ UNCHANGED <<main, results>>

ItemFails(r) ==
  IF r = Main
  THEN /\ runner' = [runner EXCEPT ![r] = Idle]
       /\ FailTry
       /\ UNCHANGED answers
  ELSE /\ runner' = [runner EXCEPT ![r] = [Idle EXCEPT !.pc = "take", !.step = runner[r].step,
                                                      !.item = runner[r].item]]
       /\ answers' = [answers EXCEPT ![TryOf(r)] =
                        Append(@, [item |-> runner[r].item, ok |-> FALSE])]
       /\ UNCHANGED main

Conclude(r, a) ==
  \/ /\ ~Error(a)
     /\ ItemDone(r)
  \/ /\ Error(a) /\ (~Retryable(a) \/ runner[r].try = MaxItemRetries)
     /\ ItemFails(r)
     /\ UNCHANGED <<results, log>>
  \/ /\ Retryable(a) /\ runner[r].try < MaxItemRetries
     /\ runner' = [runner EXCEPT ![r].pc = "delay"]
     /\ UNCHANGED <<main, results, answers, log>>

ItemNeedsLogin(r, a) ==
  Logins # {} /\ ~op.steps[runner[r].step].login /\ AsksForLogin(a)

Call(r) ==
  /\ runner[r].pc = "call"
  /\ \E a \in ApiAnswers : ~ItemNeedsLogin(r, a) /\ Conclude(r, a)
  /\ UNCHANGED <<op, queue, stored, auth, live>>

\* authRetryCount is shared by the goroutines of a try and not locked: it is
\* read here and written in the next step.
CallRefused(r) ==
  /\ runner[r].pc = "call"
  /\ \E a \in ApiAnswers : ItemNeedsLogin(r, a)
  /\ IF auth.retries[TryOf(r)] >= MaxAuthRetries
     THEN ItemFails(r)
     ELSE /\ runner' = [runner EXCEPT ![r].pc = "count", ![r].seen = auth.retries[TryOf(r)]]
          /\ UNCHANGED <<main, answers>>
  /\ UNCHANGED <<op, results, queue, stored, auth, live, log>>

CountLogin(r) ==
  /\ runner[r].pc = "count"
  /\ auth' = [loaded |-> auth.loaded \ (IF TryOf(r) = main.try THEN {"cookies"} ELSE {}),
              retries |-> [auth.retries EXCEPT ![TryOf(r)] = runner[r].seen + 1]]
  /\ stored' = stored \ {"cookies"}
  /\ runner' = [runner EXCEPT ![r].pc = "relogin", ![r].at = LoginStep]
  /\ CountRelogin
  /\ UNCHANGED <<op, main, results, queue, answers, live>>

\* The steps from the login on; their results are not kept.
RepeatForItem(r) ==
  /\ runner[r].pc = "relogin"
  /\ \E a \in ApiAnswers :
       IF Error(a)
       THEN ItemFails(r)
       ELSE /\ runner' = [runner EXCEPT ![r].at = @ + 1,
                            ![r].pc = IF runner[r].at = Len(op.steps) THEN "again" ELSE @]
            /\ UNCHANGED <<main, answers>>
  /\ UNCHANGED <<op, results, queue, stored, auth, live, log>>

CallAgain(r) ==
  /\ runner[r].pc = "again"
  /\ \E a \in ApiAnswers : Conclude(r, a)
  /\ UNCHANGED <<op, queue, stored, auth, live>>

Delay(r) ==
  /\ runner[r].pc = "delay"
  /\ \/ /\ runner' = [runner EXCEPT ![r].pc = "call", ![r].try = @ + 1]
        /\ UNCHANGED <<main, answers>>
     \/ ~live /\ ItemFails(r)
  /\ UNCHANGED <<op, results, queue, stored, auth, live, log>>

\* The context of the message is cancelled, or its deadline has passed.
Cancel ==
  /\ live /\ ~Over /\ "cancel" \in op.faults
  /\ live' = FALSE
  /\ UNCHANGED <<op, main, runner, inner>>

-----------------------------------------------------------------------------
Loop ==
  \/ StartTry \/ NoDatabase \/ Succeed
  \/ SkipDone \/ SkipStep \/ BadCondition \/ TakeStep
  \/ Execute \/ ExecuteFails \/ SelfFix
  \/ LoginRefused \/ LoginAgain \/ Repeat \/ RepeatFails \/ Repeated
  \/ NoItems \/ StartList \/ EndList \/ SkipItem
  \/ ExecuteItem \/ ExecuteItemFails \/ EndedAtItem \/ CallItem \/ AfterItem \/ Poll
  \/ StartWorkers \/ Collect \/ Collected \/ StopCollecting

Work(r) ==
  \/ Take(r) \/ Panic(r) \/ Call(r) \/ CallRefused(r) \/ CountLogin(r)
  \/ RepeatForItem(r) \/ CallAgain(r) \/ Delay(r)

Terminated == Over /\ (\A r \in Runners : runner[r].pc = "idle") /\ UNCHANGED vars

Next == Loop \/ (\E r \in Runners : Work(r)) \/ Cancel \/ Terminated

\* Goroutines are scheduled, executors answer within their timeouts, polls end.
Fairness == WF_vars(Loop) /\ \A r \in Runners : WF_vars(Work(r))

Spec == Init /\ [][Next]_vars /\ Fairness

-----------------------------------------------------------------------------
(* What an operation promises.                                             *)

Lists(how) == {s \in Steps : Each(s) = how}

\* A step that has given a result is not executed again by the second try: a
\* plain step at most once, the items of a list that stores its results one
\* by one at most once, all others at most once in each try.  Repeating a
\* login repeats steps by design.
NotRepeated ==
  ~log.relogged /\ KeepsResults =>
    \A s \in Steps, p \in 0 .. MaxItems :
      log.done[s][p] <=
        IF op.steps[s].indexed /\ (s \in Lists("no") \/ (s \in Lists("sequential") /\ RetriesItems))
        THEN 1 ELSE MaxRetries + 1

\* An operation that succeeds has executed every step and every item that no
\* condition excused, whatever failed on the way, in either try, in either
\* goroutine.  Lists worked through one by one by an API operation, and
\* operations with a login, are exempt: a second try skips a list that was
\* broken off and left a part of its results.  A step of a terminal operation
\* counts as a step without a list: nothing is claimed of the items of its
\* foreach, which the code leaves out in silence.
NothingLeftOut ==
  main.pc = "succeeded" /\ Logins = {} /\ (RetriesItems => Lists("sequential") = {}) =>
    \A s \in Steps :
      \A p \in IF s \in Lists("no") THEN {0} ELSE 1 .. op.steps[s].items :
        log.done[s][p] > 0 \/ p \in log.excused[s]

\* The results of a list are in the order of its items whatever the order the
\* goroutines finished in, hold every item if it was worked through by both,
\* and hold only items that were executed.
ResultsInOrder ==
  \A s \in Steps : results[s] # NoResult /\ ~log.relogged =>
    LET got == results[s] IN
      /\ \A i \in 1 .. Len(got) - 1 : got[i] < got[i + 1]
      /\ \A i \in DOMAIN got : log.done[s][got[i]] > 0
      /\ s \in Lists("parallel") /\ log.excused[s] = {} => Len(got) = op.steps[s].items

\* Both tries, all repetitions and both goroutines end, unless a goroutine
\* panicked: its item is never answered, and the collector waits for the end
\* of the context.
Ends ==
  \/ <>(Over /\ \A r \in Runners : runner[r].pc = "idle")
  \/ <>[](log.panicked /\ live)

=============================================================================
