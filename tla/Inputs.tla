------------------------------- MODULE Inputs -------------------------------
(* FulfillInputs: the inputs of a function get their values.  Inputs of every *)
(* origin but inference are worked through in order by the caller; those of  *)
(* origin inference follow, each on a goroutine of its own, as many at once  *)
(* as the semaphore allows.  An inference asks a language model in turns,    *)
(* over a conversation that is kept for the message.                         *)
(*                                                                           *)
(* A value is kept as the input whose question it answers.                   *)
(*                                                                           *)
(* Definitions named ...Bug are mutated forms of the definition that         *)
(* follows them; no specification uses them.                                 *)
EXTENDS Naturals, Sequences, FiniteSets, SequencesExt

CONSTANTS
    Names,        \* of inputs
    Lists,        \* lists of inputs a function may have
    MaxAsync,     \* MaxAsyncInputConcurrency
    MaxTurns,     \* turns of an inference
    MaxAttempts,  \* answers of the model that are looked at in a turn
    MaxCalls,     \* calls of FulfillInputs for the message
    None, Nothing, Elsewhere

ASSUME InputsAssumption ==
    /\ {MaxAsync, MaxTurns, MaxAttempts, MaxCalls} \subseteq Nat \ {0}
    /\ {None, Nothing, Elsewhere} \cap Names = {}
    /\ None \notin {Nothing, Elsewhere} /\ IsFiniteSet(Names)

\* "missing" stands for knowledge, memory and search, which are not there.
\* retry is the strategy inference of onError; the others do nothing.
Origins == {"value", "chat", "function", "inference", "missing"}
Input == [name : Names, origin : Origins, optional : BOOLEAN, retry : BOOLEAN]

ASSUME ListsAssumption ==
    \A l \in Lists : l \in Seq(Input) /\ \A i, j \in DOMAIN l : l[i].name = l[j].name => i = j

VARIABLES
    list,     \* inputs of this call
    phase,    \* of FulfillInputs
    at,       \* place in the list
    results,  \* values found so far, by the caller and by the goroutines
    failed,   \* an input that must have a value has none
    holds,    \* inputs whose goroutine holds the semaphore
    infer,    \* the inference of each input
    thread,   \* whose prompt the conversation of the message begins with
    outcome,  \* of the call that ended last
    blank,    \* history: inputs that were given an empty text
    lone,     \* history: inputs whose inferences ran alone
    calls, cancelled, died

call == <<list, phase, at, outcome, calls>>
history == <<blank, lone>>
vars == <<list, phase, at, results, failed, holds, infer, thread, outcome, blank, lone, calls,
          cancelled, died>>

\* Elsewhere is an input of another function, Nothing the text that is
\* returned when the model cannot be made to answer.
Subjects == Names \cup {Elsewhere, Nothing}
Phases == {"idle", "sync", "retry", "spawn", "wait"}
Stages == {"off", "reset", "turn", "prompt", "ask", "tool", "note"}
Inference == [stage : Stages, turn : 0..MaxTurns, attempt : 0..MaxAttempts, thread : Subjects \cup {None},
              second : BOOLEAN]
Off == [stage |-> "off", turn |-> 0, attempt |-> 0, thread |-> None, second |-> FALSE]

TypeOK ==
    /\ list \in Lists \cup {<<>>} /\ phase \in Phases /\ at \in 1..(Len(list) + 1)
    /\ results \in [Names -> Subjects \cup {None}]
    /\ holds \subseteq Names /\ Cardinality(holds) <= MaxAsync
    /\ infer \in [Names -> Inference] /\ thread \in Subjects \cup {None}
    /\ outcome \in {"none", "ok", "error"} /\ blank \cup lone \subseteq Names
    /\ calls \in 0..MaxCalls /\ {failed, cancelled, died} \subseteq BOOLEAN

Init ==
    /\ list = <<>> /\ phase = "idle" /\ at = 1 /\ results = [n \in Names |-> None]
    /\ failed = FALSE /\ holds = {} /\ infer = [n \in Names |-> Off]
    /\ thread \in {None, Elsewhere} /\ outcome = "none" /\ blank = {} /\ lone = {}
    /\ calls = 0 /\ cancelled = FALSE /\ died = FALSE

---------------------------------------------------------------------------
\* The caller.

Listed == {list[i].name : i \in DOMAIN list}
This == list[at]
The(n) == list[CHOOSE i \in DOMAIN list : list[i].name = n]
Inferring == {n \in Names : infer[n].stage # "off"}

Value(n, v) == results' = [results EXCEPT ![n] = v]

\* Some inputs have values from the context already.
Begin ==
    /\ phase = "idle" /\ calls < MaxCalls
    /\ \E l \in Lists : \E given \in SUBSET {l[i].name : i \in DOMAIN l} :
          /\ list' = l
          /\ results' = [n \in Names |-> IF n \in given THEN n ELSE None]
    /\ phase' = "sync" /\ at' = 1 /\ calls' = calls + 1
    /\ failed' = FALSE /\ outcome' = "none" /\ blank' = {}
    /\ UNCHANGED <<holds, infer, thread, lone, cancelled, died>>

Return(r) ==
    /\ phase' = "idle" /\ outcome' = r
    /\ UNCHANGED <<list, at, calls>>
Goto(p, i) == phase' = p /\ at' = i /\ UNCHANGED <<list, outcome, calls>>

\* The inputs that wait for a goroutine are passed over at first.
PassOver ==
    /\ phase = "sync" /\ at <= Len(list)
    /\ results[This.name] # None \/ This.origin = "inference"
    /\ Goto("sync", at + 1)
    /\ UNCHANGED <<results, failed, holds, infer, thread, history, cancelled, died>>

Looks == phase = "sync" /\ at <= Len(list) /\ results[This.name] = None /\ This.origin # "inference"

\* The text that was found may be empty, if nobody looks at it.  A function
\* may have begun a conversation of its own.
Extract ==
    /\ Looks /\ This.origin \in {"value", "chat", "function"}
    /\ \/ Value(This.name, This.name) /\ UNCHANGED blank
       \/ This.origin # "chat" /\ UNCHANGED results /\ blank' = blank \cup {This.name}
    /\ thread' \in {thread} \cup IF This.origin = "function" THEN {Elsewhere} ELSE {}
    /\ Goto("sync", at + 1)
    /\ UNCHANGED <<failed, holds, infer, lone, cancelled, died>>

\* handleInputError: what happens for an input n without a value.
Skipped(n) == The(n).optional
Retried(n) == ~The(n).optional /\ The(n).retry

NotExtracted ==
    /\ Looks /\ This.origin # "value"
    /\ thread' \in {thread} \cup IF This.origin = "function" THEN {Elsewhere} ELSE {}
    /\ \/ Skipped(This.name) /\ Goto("sync", at + 1)
       \/ Retried(This.name) /\ Goto("retry", at)
       \/ ~Skipped(This.name) /\ ~Retried(This.name) /\ Return("error")
    /\ UNCHANGED <<results, failed, holds, infer, history, cancelled, died>>

Async == phase = "spawn" /\ at <= Len(list)

AllSync ==
    /\ phase = "sync" /\ at > Len(list)
    /\ Goto("spawn", 1)
    /\ UNCHANGED <<results, failed, holds, infer, thread, history, cancelled, died>>

NotAsync ==
    /\ Async /\ (This.origin # "inference" \/ results[This.name] # None)
    /\ Goto("spawn", at + 1)
    /\ UNCHANGED <<results, failed, holds, infer, thread, history, cancelled, died>>

\* An inference begins; second tells that it is the one of onError.
Starting(n, second) ==
    /\ infer' = [infer EXCEPT ![n] = [Off EXCEPT !.stage = "reset", !.second = second]]
    /\ lone' = IF Inferring \ {n} = {} THEN (IF second THEN lone ELSE lone \cup {n}) ELSE lone \ (Inferring \cup {n})

\* The caller waits here until a goroutine releases the semaphore.
Spawn ==
    /\ Async /\ This.origin = "inference" /\ results[This.name] = None
    /\ Cardinality(holds) < MaxAsync
    /\ holds' = holds \cup {This.name} /\ Starting(This.name, FALSE)
    /\ Goto("spawn", at + 1)
    /\ UNCHANGED <<results, failed, thread, blank, cancelled, died>>

AllSpawned ==
    /\ phase = "spawn" /\ at > Len(list)
    /\ Goto("wait", at)
    /\ UNCHANGED <<results, failed, holds, infer, thread, history, cancelled, died>>

Joined == phase = "wait" /\ holds = {}
Join ==
    /\ Joined
    /\ Return(IF failed THEN "error" ELSE "ok")
    /\ UNCHANGED <<results, failed, holds, infer, thread, history, cancelled, died>>

\* onError of an input the caller was working on.
Retry ==
    /\ phase = "retry" /\ Inferring \cap {This.name} = {}
    /\ Starting(This.name, TRUE)
    /\ UNCHANGED <<call, results, failed, holds, thread, blank, cancelled, died>>

---------------------------------------------------------------------------
\* InferValue for input n.

On(n, s) == infer[n].stage = s /\ ~died
Becomes(n, q) == infer' = [infer EXCEPT ![n] = q]
Stage(n, s) == Becomes(n, [infer[n] EXCEPT !.stage = s])

\* It ends with a value that answers the question of v.
Ends(n, v) ==
    /\ Value(n, v) /\ Becomes(n, Off) /\ holds' = holds \ {n}
    /\ IF phase = "retry" /\ n = This.name THEN Goto("sync", at + 1) ELSE UNCHANGED call
    /\ UNCHANGED failed

\* It ends without one.  For an input that must have a value inference may be
\* tried a second time, by the same goroutine.
IgnoredBug(n) == failed
MustHave(n) == failed \/ ~Skipped(n)
Fails(n) ==
    IF ~infer[n].second /\ Retried(n)
    THEN Becomes(n, [Off EXCEPT !.stage = "reset", !.second = TRUE]) /\ UNCHANGED <<call, results, failed, holds>>
    ELSE /\ Becomes(n, Off) /\ holds' = holds \ {n} /\ UNCHANGED results
         /\ IF n \in holds THEN failed' = MustHave(n) /\ UNCHANGED call
            ELSE Return("error") /\ UNCHANGED failed

\* GetState returns what an earlier inference for the message has left, which
\* Reset clears.
KeptBug == thread
Cleared == None
Reset(n) ==
    /\ On(n, "reset")
    /\ thread' = Cleared /\ Stage(n, "turn")
    /\ UNCHANGED <<call, results, failed, holds, history, cancelled, died>>

\* The conversation of the message goes on, whoever began it.
ForeverBug(n) == FALSE
LastTurn(n) == infer[n].turn = MaxTurns
Turn(n) ==
    /\ On(n, "turn")
    /\ IF LastTurn(n) \/ cancelled THEN Fails(n)
       ELSE /\ Becomes(n, [infer[n] EXCEPT !.turn = IF @ = MaxTurns THEN @ ELSE @ + 1, !.attempt = 1, !.thread = thread,
                                           !.stage = IF thread = None THEN "prompt" ELSE "ask"])
            /\ UNCHANGED <<call, results, failed, holds>>
    /\ UNCHANGED <<thread, history, cancelled, died>>

\* There was none when it looked: n begins one.
Prompt(n) ==
    /\ On(n, "prompt")
    /\ thread' = n /\ Becomes(n, [infer[n] EXCEPT !.thread = n, !.stage = "ask"])
    /\ UNCHANGED <<call, results, failed, holds, history, cancelled, died>>

\* The model answers: with a value, in a form that is not understood, with a
\* tool to call, or not at all.
Answered(n) ==
    /\ On(n, "ask") /\ Ends(n, infer[n].thread)
    /\ UNCHANGED <<thread, history, cancelled, died>>
Misunderstood(n) ==
    /\ On(n, "ask")
    /\ IF infer[n].attempt = MaxAttempts THEN Ends(n, Nothing) \/ Fails(n)
       ELSE Becomes(n, [infer[n] EXCEPT !.attempt = @ + 1]) /\ UNCHANGED <<call, results, failed, holds>>
    /\ UNCHANGED <<thread, history, cancelled, died>>
WantsTool(n) ==
    /\ On(n, "ask")
    /\ IF cancelled THEN Fails(n) ELSE Stage(n, "tool") /\ UNCHANGED <<call, results, failed, holds>>
    /\ UNCHANGED <<thread, history, cancelled, died>>
NotAnswered(n) ==
    /\ On(n, "ask") /\ Fails(n)
    /\ UNCHANGED <<thread, history, cancelled, died>>

\* AddToolExecution writes to a map and to the conversation of the message.
ToolReturns(n) ==
    /\ On(n, "tool") /\ Stage(n, "note")
    /\ UNCHANGED <<call, results, failed, holds, thread, history, cancelled, died>>
Noted(n) ==
    /\ On(n, "note") /\ Stage(n, "turn")
    /\ UNCHANGED <<call, results, failed, holds, thread, history, cancelled, died>>

\* The runtime ends a program that writes to a map from two goroutines.
Clash ==
    /\ \E m, n \in Names : m # n /\ On(m, "note") /\ On(n, "note")
    /\ died' = TRUE
    /\ UNCHANGED <<call, results, failed, holds, infer, thread, history, cancelled>>

Cancel ==
    /\ phase # "idle" /\ ~cancelled /\ cancelled' = TRUE
    /\ UNCHANGED <<call, results, failed, holds, infer, thread, history, died>>

Idle == (died \/ (phase = "idle" /\ calls = MaxCalls)) /\ UNCHANGED vars
---------------------------------------------------------------------------

Caller == ~died /\ (\/ PassOver \/ Extract \/ NotExtracted \/ AllSync \/ NotAsync
                    \/ Spawn \/ AllSpawned \/ Join \/ Retry)
Goroutine(n) == \/ Reset(n) \/ Turn(n) \/ Prompt(n) \/ Answered(n) \/ Misunderstood(n) \/ WantsTool(n)
                \/ NotAnswered(n) \/ ToolReturns(n) \/ Noted(n)

Next == \/ ~died /\ Begin
        \/ Caller
        \/ \E n \in Names : Goroutine(n)
        \/ Clash \/ Cancel \/ Idle

Spec == Init /\ [][Next]_vars

\* The caller and the goroutines go on; functions, the model and its tools
\* answer in the end.
FairSpec == Spec /\ WF_vars(Caller) /\ \A n \in Names : WF_vars(Goroutine(n))

\* A value that was inferred while no other inference for the message ran
\* answers the question of its own input, whatever conversation was left.
AnswersAlone == \A n \in lone : results[n] \in {None, n, Nothing}

\* Inputs can be inferred concurrently: each gets an answer to its question.
AnswersOwn == \A n \in Names : results[n] \in {None, n, Nothing}

\* When the inputs are said to be fulfilled, each that must have a value has
\* one, or was given an empty text.
NoneMissing ==
    phase = "idle" /\ outcome = "ok" =>
        \A n \in Listed \ blank : results[n] # None \/ The(n).optional

\* Every call returns, with all the goroutines it started gone, unless the
\* program was ended.
Finishes == phase # "idle" ~> died \/ (phase = "idle" /\ Inferring = {})
=============================================================================
