----------------------------- MODULE InputsProofs -----------------------------
(* For any lists of inputs, any width of the semaphore and any number of     *)
(* turns: inputs that are said to be fulfilled have values, and a value that *)
(* was inferred while no other inference ran answers its own question.       *)
(*                                                                           *)
(* Both need to know who runs when (Running).  What the caller and the       *)
(* goroutines have not yet seen to is then a matter of the place in the list *)
(* (Progress), and who runs alone finds no conversation but its own (Alone). *)
EXTENDS Inputs, FiniteSetTheorems, TLAPS

---------------------------------------------------------------------------
\* The inductive invariant.

Types ==
    /\ list \in Lists \cup {<<>>} /\ phase \in Phases /\ at \in 1..(Len(list) + 1)
    /\ results \in [Names -> Subjects \cup {None}]
    /\ holds \subseteq Names
    /\ infer \in [Names -> Inference] /\ thread \in Subjects \cup {None}
    /\ outcome \in {"none", "ok", "error"} /\ blank \subseteq Names /\ lone \subseteq Names
    /\ calls \in 0..MaxCalls /\ failed \in BOOLEAN /\ cancelled \in BOOLEAN /\ died \in BOOLEAN

\* Until the caller starts goroutines only the inference of onError runs, of
\* the input the caller is at; from then on those that hold the semaphore do.
Running ==
    /\ phase \in {"idle", "sync", "retry"} => holds = {}
    /\ phase \in {"idle", "sync"} => Inferring = {}
    /\ phase = "retry" => at \in DOMAIN list /\ Inferring \subseteq {list[at].name}
    /\ phase \in {"spawn", "wait"} => Inferring = holds /\ holds \subseteq Listed
    /\ phase = "wait" => at = Len(list) + 1

\* An inference that has asked has a conversation.
Asking == \A n \in Names : infer[n].stage \in {"ask", "tool", "note"} => infer[n].thread # None

Bounded == Cardinality(holds) <= MaxAsync

\* Input i needs nothing any more.
SeenTo(i) == results[list[i].name] # None \/ list[i].optional \/ list[i].name \in blank

Progress ==
    /\ phase \in {"sync", "retry"} =>
         \A i \in DOMAIN list : i < at /\ list[i].origin # "inference" => SeenTo(i)
    /\ phase \in {"spawn", "wait"} =>
         \A i \in DOMAIN list : i < at \/ list[i].origin # "inference" =>
             SeenTo(i) \/ failed \/ list[i].name \in holds
    /\ phase = "idle" /\ outcome = "ok" => \A i \in DOMAIN list : SeenTo(i)
    /\ phase # "idle" => outcome = "none"

\* Whose inference runs alone has no conversation but its own.
OwnThread(n) ==
    /\ Inferring = {n}
    /\ infer[n].thread \in {None, n}
    /\ infer[n].stage # "reset" => thread \in {None, n}
Alone ==
    /\ AnswersAlone
    /\ \A n \in lone : infer[n].stage # "off" => OwnThread(n)

IInv == Types /\ Bounded /\ Running /\ Asking /\ Progress /\ Alone

LEMMA Constant ==
    /\ MaxAsync \in Nat \ {0} /\ MaxTurns \in Nat \ {0} /\ MaxAttempts \in Nat \ {0} /\ MaxCalls \in Nat \ {0}
    /\ None \notin Names /\ Nothing \notin Names /\ Elsewhere \notin Names
    /\ None \notin Subjects /\ Names \subseteq Subjects /\ {Elsewhere, Nothing} \subseteq Subjects
    /\ Off \in Inference /\ [Off EXCEPT !.stage = "reset"] \in Inference
<1>1. MaxAsync \in Nat \ {0} /\ MaxTurns \in Nat \ {0} /\ MaxAttempts \in Nat \ {0} /\ MaxCalls \in Nat \ {0}
    BY InputsAssumption
<1>2. /\ None \notin Names /\ Nothing \notin Names /\ Elsewhere \notin Names
      /\ None \notin Subjects /\ Names \subseteq Subjects /\ {Elsewhere, Nothing} \subseteq Subjects
    BY InputsAssumption DEF Subjects
<1>3. Off \in Inference
    BY <1>1 DEF Off, Inference, Stages
<1>4. \A q \in Inference : [q EXCEPT !.stage = "reset"] \in Inference
    BY DEF Inference, Stages
<1> QED
    BY <1>1, <1>2, <1>3, <1>4

\* The inputs of a list, whose names are all different.
LEMMA Inputs ==
    ASSUME NEW l \in Lists \cup {<<>>}
    PROVE  /\ l \in Seq(Input)
           /\ \A i \in DOMAIN l : l[i] \in Input /\ l[i].name \in Names
           /\ \A i, j \in DOMAIN l : l[i].name = l[j].name => i = j
<1>1. l \in Seq(Input) /\ \A i, j \in DOMAIN l : l[i].name = l[j].name => i = j
    <2>1. CASE l \in Lists
        BY <2>1, ListsAssumption
    <2>2. CASE l = <<>>
        BY <2>2
    <2> QED
        BY <2>1, <2>2
<1>2. \A i \in DOMAIN l : l[i] \in Input
    BY <1>1
<1> QED
    BY <1>1, <1>2 DEF Input

LEMMA Named ==
    ASSUME Types, NEW i \in DOMAIN list
    PROVE  The(list[i].name) = list[i] /\ list[i].name \in Names /\ list[i].name \in Listed
<1>1. /\ list[i].name \in Names
      /\ \A j \in DOMAIN list : list[j].name = list[i].name => j = i
    BY Inputs DEF Types
<1>2. (CHOOSE j \in DOMAIN list : list[j].name = list[i].name) = i
    BY <1>1
<1> QED
    BY <1>1, <1>2 DEF The, Listed

LEMMA InitIInv == Init => IInv
<1> SUFFICES ASSUME Init PROVE IInv
    OBVIOUS
<1>1. Types
    <2>1. infer \in [Names -> Inference] /\ results \in [Names -> Subjects \cup {None}]
        BY Constant DEF Init
    <2>2. thread \in Subjects \cup {None}
        BY Constant DEF Init
    <2>3. at \in 1..(Len(list) + 1) /\ calls \in 0..MaxCalls
        BY Constant DEF Init
    <2> QED
        BY <2>1, <2>2, <2>3 DEF Init, Types, Phases
<1>2. Inferring = {}
    BY DEF Init, Inferring, Off
<1> QED
    BY <1>1, <1>2, FS_EmptySet, InputsAssumption
    DEF Init, IInv, Bounded, Running, Asking, Progress, Alone, AnswersAlone, OwnThread, Off

---------------------------------------------------------------------------
\* A step of a goroutine does one of three things.

Apart == UNCHANGED <<history, cancelled, died>>

\* It goes on; whose conversation was its own, keeps it.
Own(n) == infer[n].thread \in {None, n} /\ (infer[n].stage # "reset" => thread \in {None, n})
Moves(n) ==
    \E q \in Inference :
        /\ q.stage # "off" /\ Becomes(n, q)
        /\ q.stage \in {"ask", "tool", "note"} => q.thread # None
        /\ UNCHANGED <<call, results, failed, holds>> /\ Apart
        /\ thread' \in Subjects \cup {None}
        /\ Own(n) => Own(n)'

\* It ends with a value or without.
Answers(n) ==
    /\ infer[n].thread \in Subjects
    /\ \E v \in {infer[n].thread, Nothing} : Ends(n, v)
    /\ infer[n].stage # "reset" /\ UNCHANGED thread /\ Apart
Gives(n) ==
    /\ Becomes(n, Off) /\ holds' = holds \ {n} /\ UNCHANGED results
    /\ \/ n \in holds /\ failed' = MustHave(n) /\ UNCHANGED call
       \/ n \notin holds /\ Return("error") /\ UNCHANGED failed
    /\ UNCHANGED thread /\ Apart

LEMMA Inferences ==
    ASSUME NEW q \in Inference
    PROVE  /\ \A s \in Stages : [q EXCEPT !.stage = s] \in Inference /\ [q EXCEPT !.stage = s].stage = s
                                /\ [q EXCEPT !.stage = s].thread = q.thread
           /\ q.stage \in Stages /\ q.turn \in 0..MaxTurns /\ q.attempt \in 0..MaxAttempts
           /\ q.thread \in Subjects \cup {None} /\ q.second \in BOOLEAN
BY DEF Inference

LEMMA Again ==
    ASSUME NEW b \in BOOLEAN
    PROVE  LET q == [Off EXCEPT !.stage = "reset", !.second = b] IN
           /\ q \in Inference /\ q.stage = "reset" /\ q.thread = None /\ q.second = b
<1>1. Off \in Inference
    BY Constant
<1>2. [Off EXCEPT !.stage = "reset", !.second = b] \in Inference
    BY <1>1 DEF Inference, Stages
<1> QED
    BY <1>2 DEF Off

LEMMA Failing ==
    ASSUME Types, NEW n \in Names, infer[n].stage # "off", Fails(n), UNCHANGED <<thread, history, cancelled, died>>
    PROVE  Moves(n) \/ Gives(n)
<1>1. CASE ~infer[n].second /\ Retried(n)
    <2> DEFINE q == [Off EXCEPT !.stage = "reset", !.second = TRUE]
    <2>1. q \in Inference /\ q.stage = "reset" /\ q.thread = None
        BY Again
    <2> HIDE DEF q
    <2>2. Becomes(n, q) /\ UNCHANGED <<call, results, failed, holds>>
        BY <1>1 DEF Fails, q
    <2>3. infer'[n] = q
        BY <2>2 DEF Becomes, Types
    <2> QED
        BY <2>1, <2>2, <2>3 DEF Moves, Apart, Own, Types
<1>2. CASE ~(~infer[n].second /\ Retried(n))
    BY <1>2 DEF Fails, Gives, Apart
<1> QED
    BY <1>1, <1>2

LEMMA Goroutines ==
    ASSUME Types, Asking, NEW n \in Names, Goroutine(n)
    PROVE  infer[n].stage # "off" /\ (Moves(n) \/ Answers(n) \/ Gives(n))
<1>0. infer[n] \in Inference
    BY DEF Types
<1>1. ASSUME NEW q \in Inference, infer' = [infer EXCEPT ![n] = q]
      PROVE  infer'[n] = q
    BY <1>1 DEF Types
<1>2. infer[n].stage # "off"
    BY DEF Goroutine, Reset, Turn, Prompt, Answered, Misunderstood, WantsTool, NotAnswered, ToolReturns, Noted, On
<1>3. CASE Reset(n)
    <2> DEFINE q == [infer[n] EXCEPT !.stage = "turn"]
    <2>1. q \in Inference /\ q.stage = "turn" /\ q.thread = infer[n].thread
        BY <1>0, Inferences DEF Stages
    <2>2. Becomes(n, q) /\ thread' = None /\ UNCHANGED <<call, results, failed, holds>> /\ Apart
        BY <1>3 DEF Reset, Stage, Cleared, Apart
    <2>3. infer'[n] = q
        BY <1>1, <2>1, <2>2 DEF Becomes
    <2> HIDE DEF q
    <2> QED
        BY <1>2, <2>1, <2>2, <2>3 DEF Moves, Own
<1>4. CASE Turn(n)
    <2>1. CASE LastTurn(n) \/ cancelled
        BY <1>2, <1>4, <2>1, Failing DEF Turn
    <2>2. CASE ~(LastTurn(n) \/ cancelled)
        <3> DEFINE q == [infer[n] EXCEPT !.turn = IF @ = MaxTurns THEN @ ELSE @ + 1, !.attempt = 1, !.thread = thread,
                                         !.stage = IF thread = None THEN "prompt" ELSE "ask"]
        <3>1. q \in Inference
            <4> DEFINE i == IF infer[n].turn = MaxTurns THEN infer[n].turn ELSE infer[n].turn + 1
                       s == IF thread = None THEN "prompt" ELSE "ask"
            <4>1. i \in 0..MaxTurns /\ 1 \in 0..MaxAttempts
                BY <1>0, Constant, Inferences
            <4>2. thread \in Subjects \cup {None} /\ s \in Stages
                BY DEF Types, Stages
            <4>3. q = [[[[infer[n] EXCEPT !.turn = i] EXCEPT !.attempt = 1] EXCEPT !.thread = thread] EXCEPT !.stage = s]
                OBVIOUS
            <4> HIDE DEF i, s
            <4> QED
                BY <1>0, <4>1, <4>2, <4>3 DEF Inference
        <3>2. q.thread = thread /\ q.stage = IF thread = None THEN "prompt" ELSE "ask"
            BY <1>0 DEF Inference
        <3>3. Becomes(n, q) /\ UNCHANGED <<thread, call, results, failed, holds>> /\ Apart /\ infer[n].stage = "turn"
            BY <1>4, <2>2 DEF Turn, Apart, On
        <3>4. infer'[n] = q
            BY <1>1, <3>1, <3>3 DEF Becomes
        <3> HIDE DEF q
        <3> QED
            BY <1>2, <3>1, <3>2, <3>3, <3>4 DEF Moves, Own, Types
    <2> QED
        BY <2>1, <2>2
<1>5. CASE Prompt(n)
    <2> DEFINE q == [infer[n] EXCEPT !.thread = n, !.stage = "ask"]
    <2>1. q \in Inference
        BY <1>0, Constant DEF Inference, Stages
    <2>2. q.thread = n /\ q.stage = "ask"
        BY <1>0 DEF Inference
    <2>3. Becomes(n, q) /\ thread' = n /\ UNCHANGED <<call, results, failed, holds>> /\ Apart
        BY <1>5 DEF Prompt, Apart
    <2>4. infer'[n] = q
        BY <1>1, <2>1, <2>3 DEF Becomes
    <2> HIDE DEF q
    <2> QED
        BY <1>2, <2>1, <2>2, <2>3, <2>4, Constant DEF Moves, Own
<1>6. ASSUME infer[n].stage = "ask"
      PROVE  infer[n].thread \in Subjects
    BY <1>0, <1>6, Inferences DEF Asking
<1>7. CASE Answered(n)
    BY <1>2, <1>6, <1>7 DEF Answered, Answers, On, Apart
<1>8. CASE Misunderstood(n)
    <2>1. CASE infer[n].attempt = MaxAttempts
        <3>1. Ends(n, Nothing) \/ Fails(n)
            BY <1>8, <2>1 DEF Misunderstood
        <3> QED
            BY <1>2, <1>6, <1>8, <3>1, Failing DEF Misunderstood, Answers, On, Apart
    <2>2. CASE infer[n].attempt # MaxAttempts
        <3> DEFINE q == [infer[n] EXCEPT !.attempt = @ + 1]
        <3>1. q \in Inference
            BY <1>0, <2>2, Constant DEF Inference
        <3>2. q.thread = infer[n].thread /\ q.stage = infer[n].stage
            BY <1>0 DEF Inference
        <3>3. Becomes(n, q) /\ UNCHANGED <<thread, call, results, failed, holds>> /\ Apart
            BY <1>8, <2>2 DEF Misunderstood, Apart
        <3>4. infer'[n] = q
            BY <1>1, <3>1, <3>3 DEF Becomes
        <3> HIDE DEF q
        <3> QED
            BY <1>2, <3>1, <3>2, <3>3, <3>4 DEF Moves, Own, Types, Asking
    <2> QED
        BY <2>1, <2>2
<1>9. ASSUME NEW s \in Stages \ {"off", "reset"}, Stage(n, s), infer[n].stage \notin {"off", "reset"},
             s \in {"ask", "tool", "note"} => infer[n].thread # None,
             UNCHANGED <<thread, call, results, failed, holds>>, Apart
      PROVE  Moves(n)
    <2> DEFINE q == [infer[n] EXCEPT !.stage = s]
    <2>1. q \in Inference /\ q.stage = s /\ q.thread = infer[n].thread
        BY <1>0, Inferences
    <2>2. Becomes(n, q) /\ infer'[n] = q
        BY <1>1, <1>9, <2>1 DEF Stage, Becomes
    <2> HIDE DEF q
    <2> QED
        BY <1>9, <2>1, <2>2 DEF Moves, Own, Types
<1>10. CASE WantsTool(n)
    BY <1>2, <1>9, <1>10, Failing DEF WantsTool, On, Asking, Stages, Apart
<1>11. CASE NotAnswered(n)
    BY <1>2, <1>11, Failing DEF NotAnswered
<1>12. CASE ToolReturns(n) \/ Noted(n)
    BY <1>2, <1>9, <1>12 DEF ToolReturns, Noted, On, Asking, Stages, Apart
<1> QED
    BY <1>3, <1>4, <1>5, <1>7, <1>8, <1>10, <1>11, <1>12 DEF Goroutine

---------------------------------------------------------------------------
\* The goroutines keep the invariant.

LEMMA Stops ==
    ASSUME Types, NEW n \in Names, NEW q \in Inference, infer' = [infer EXCEPT ![n] = q], infer[n].stage # "off"
    PROVE  /\ infer'[n] = q /\ \A m \in Names \ {n} : infer'[m] = infer[m]
           /\ Inferring' = IF q.stage = "off" THEN Inferring \ {n} ELSE Inferring
           /\ n \in Inferring /\ Inferring \subseteq Names
           /\ infer' \in [Names -> Inference]
BY DEF Types, Inferring

LEMMA TurnsOff ==
    ASSUME Types, NEW n \in Names, Becomes(n, Off), infer[n].stage # "off"
    PROVE  /\ infer'[n] = Off /\ \A m \in Names \ {n} : infer'[m] = infer[m]
           /\ Inferring' = Inferring \ {n} /\ n \in Inferring
           /\ infer' \in [Names -> Inference]
<1>1. Off \in Inference /\ Off.stage = "off"
    BY Constant DEF Off
<1>2. infer' = [infer EXCEPT ![n] = Off]
    BY DEF Becomes
<1> QED
    BY <1>1, <1>2, Stops

\* A set that loses an element gets no larger.
LEMMA Releases ==
    ASSUME Types, Bounded, NEW n \in Names, holds' = holds \ {n}
    PROVE  Bounded'
<1>1. IsFiniteSet(holds) /\ MaxAsync \in Nat
    BY InputsAssumption, FS_Subset DEF Types
<1>2. Cardinality(holds') <= Cardinality(holds)
    BY <1>1, FS_Subset
<1> QED
    BY <1>1, <1>2, FS_Subset, FS_CardinalityType DEF Bounded

LEMMA MovesKeeps ==
    ASSUME IInv, NEW n \in Names, infer[n].stage # "off", Moves(n)
    PROVE  IInv'
<1> USE DEF IInv
<1>1. PICK q \in Inference :
        /\ q.stage # "off" /\ Becomes(n, q)
        /\ q.stage \in {"ask", "tool", "note"} => q.thread # None
        /\ UNCHANGED <<call, results, failed, holds>> /\ Apart
        /\ thread' \in Subjects \cup {None}
        /\ Own(n) => Own(n)'
    BY DEF Moves
<1>2. /\ infer'[n] = q /\ \A m \in Names \ {n} : infer'[m] = infer[m]
      /\ Inferring' = Inferring /\ n \in Inferring
      /\ infer' \in [Names -> Inference]
    BY <1>1, Stops DEF Becomes
<1>3. Types'
    BY <1>1, <1>2 DEF Types, call, history, Apart
<1>4. Running' /\ Progress' /\ Bounded'
    BY <1>1, <1>2 DEF Running, Progress, SeenTo, Bounded, Listed, call, history, Apart
<1>5. Asking'
    BY <1>1, <1>2 DEF Asking
<1>6. Alone'
    <2>1. AnswersAlone'
        BY <1>1 DEF Alone, AnswersAlone, history, Apart
    <2>2. ASSUME NEW m \in lone, infer'[m].stage # "off"
          PROVE  OwnThread(m)'
        <3>1. m \in Names /\ infer[m].stage # "off"
            BY <1>1, <1>2, <2>2 DEF Types, Inferring
        <3>2. OwnThread(m)
            BY <2>2, <3>1 DEF Alone
        <3>3. m = n
            BY <1>2, <3>2 DEF OwnThread
        <3> QED
            BY <1>1, <1>2, <3>2, <3>3 DEF OwnThread, Own
    <2> QED
        BY <1>1, <2>1, <2>2 DEF Alone, history, Apart
<1> QED
    BY <1>3, <1>4, <1>5, <1>6

\* Who worked alone leaves nobody working.
LEMMA AloneStops ==
    ASSUME Types, Alone, NEW n \in Names, infer[n].stage # "off", Becomes(n, Off), lone' = lone, AnswersAlone'
    PROVE  Alone'
<1>1. /\ infer'[n] = Off /\ \A m \in Names \ {n} : infer'[m] = infer[m]
      /\ n \in Inferring
    BY TurnsOff
<1>2. ASSUME NEW m \in lone, infer'[m].stage # "off"
      PROVE  FALSE
    <2>1. m # n /\ m \in Names
        BY <1>1, <1>2 DEF Types, Off
    <2>2. OwnThread(m)
        BY <1>1, <1>2, <2>1 DEF Alone
    <2> QED
        BY <1>1, <2>1, <2>2 DEF OwnThread
<1> QED
    BY <1>2 DEF Alone

LEMMA AnswersKeeps ==
    ASSUME IInv, NEW n \in Names, infer[n].stage # "off", Answers(n)
    PROVE  IInv'
<1> USE DEF IInv
<1>1. PICK v \in {infer[n].thread, Nothing} :
        /\ results' = [results EXCEPT ![n] = v] /\ Becomes(n, Off) /\ holds' = holds \ {n}
        /\ IF phase = "retry" /\ n = This.name THEN Goto("sync", at + 1) ELSE UNCHANGED call
        /\ UNCHANGED <<failed, thread>> /\ Apart
    BY DEF Answers, Ends, Value
<1>2. /\ v \in Subjects /\ v # None
      /\ results'[n] = v /\ \A m \in Names \ {n} : results'[m] = results[m]
      /\ results' \in [Names -> Subjects \cup {None}]
    BY <1>1, Constant DEF Answers, Types
<1>3. /\ infer'[n] = Off /\ \A m \in Names \ {n} : infer'[m] = infer[m]
      /\ Inferring' = Inferring \ {n} /\ n \in Inferring
      /\ infer' \in [Names -> Inference]
    BY <1>1, TurnsOff
<1>4. CASE phase = "retry"
    <2>1. at \in DOMAIN list /\ n = list[at].name /\ Inferring' = {} /\ holds' = {}
        BY <1>1, <1>3, <1>4 DEF Running
    <2>2. phase' = "sync" /\ at' = at + 1 /\ UNCHANGED <<list, outcome, calls, failed, history, cancelled, died>>
        BY <1>1, <1>4, <2>1 DEF Goto, This, Apart
    <2>3. Types'
        <3>1. at' \in 1..(Len(list') + 1)
            BY <2>1, <2>2, Inputs DEF Types
        <3> QED
            BY <1>1, <1>2, <1>3, <2>1, <2>2, <3>1 DEF Types, Phases, history
    <2>4. Running'
        BY <2>1, <2>2 DEF Running
    <2>5. Progress'
        <3> SUFFICES ASSUME NEW i \in DOMAIN list, i < at + 1, list[i].origin # "inference"
                     PROVE  SeenTo(i)'
            BY <1>4, <2>2 DEF Progress
        <3>1. list[i].name \in Names /\ i \in Nat /\ at \in Nat
            BY Inputs DEF Types
        <3>2. CASE i = at
            BY <1>2, <2>1, <2>2, <3>2 DEF SeenTo
        <3>3. CASE i < at
            BY <1>2, <1>4, <2>2, <3>1, <3>3 DEF Progress, SeenTo, history
        <3> QED
            BY <3>1, <3>2, <3>3
    <2> QED
        <3>1. Asking'
            BY <1>3 DEF Asking, Off
        <3>2. AnswersAlone'
            BY <1>1, <1>2, <1>3, <2>2 DEF Alone, AnswersAlone, OwnThread, Answers, Types, history
        <3> QED
            BY <1>1, <2>2, <2>3, <2>4, <2>5, <3>1, <3>2, AloneStops, Releases DEF history
<1>5. CASE phase # "retry"
    <2>1. UNCHANGED <<call, failed, history, cancelled, died>> /\ phase \in {"spawn", "wait"}
        BY <1>1, <1>3, <1>5 DEF Running, Apart, Types, Phases
    <2>2. Types'
        BY <1>1, <1>2, <1>3, <2>1 DEF Types, call, history
    <2>3. Running'
        BY <1>1, <1>3, <2>1 DEF Running, Listed, call
    <2>4. Progress'
        <3>1. ASSUME NEW i \in DOMAIN list, SeenTo(i) \/ failed \/ list[i].name \in holds
              PROVE  SeenTo(i)' \/ failed' \/ list[i].name \in holds'
            <4>1. list[i].name \in Names
                BY Inputs DEF Types
            <4> QED
                BY <1>1, <1>2, <2>1, <3>1, <4>1 DEF SeenTo, call, history
        <3> QED
            BY <2>1, <3>1 DEF Progress, call
    <2> QED
        <3>1. Asking'
            BY <1>3 DEF Asking, Off
        <3>2. AnswersAlone'
            BY <1>1, <1>2, <1>3, <2>1 DEF Alone, AnswersAlone, OwnThread, Answers, Types, history
        <3> QED
            BY <1>1, <2>1, <2>2, <2>3, <2>4, <3>1, <3>2, AloneStops, Releases DEF history
<1> QED
    BY <1>4, <1>5

LEMMA GivesKeeps ==
    ASSUME IInv, NEW n \in Names, infer[n].stage # "off", Gives(n)
    PROVE  IInv'
<1> USE DEF IInv
<1>1. /\ Becomes(n, Off) /\ holds' = holds \ {n} /\ UNCHANGED <<results, thread, history, cancelled, died>>
    BY DEF Gives, Apart
<1>2. /\ infer'[n] = Off /\ \A m \in Names \ {n} : infer'[m] = infer[m]
      /\ Inferring' = Inferring \ {n} /\ n \in Inferring
      /\ infer' \in [Names -> Inference]
    BY <1>1, TurnsOff
<1>3. Asking'
    BY <1>2 DEF Asking, Off
<1>4. Alone' /\ Bounded'
    BY <1>1, AloneStops, Releases DEF Alone, AnswersAlone, history
<1>5. CASE n \in holds
    <2>1. failed' = MustHave(n) /\ UNCHANGED call /\ phase \in {"spawn", "wait"}
        BY <1>5 DEF Gives, Running, Types, Phases
    <2>2. PICK j \in DOMAIN list : list[j].name = n /\ The(n) = list[j]
        BY <1>5, <2>1, Named DEF Running, Listed
    <2>3. list[j].optional \in BOOLEAN
        BY Inputs DEF Types, Input
    <2>4. Types'
        <3>1. failed' \in BOOLEAN
            BY <2>1, <2>2, <2>3 DEF MustHave, Skipped, Types
        <3> QED
            BY <1>1, <1>2, <2>1, <3>1 DEF Types, call, history
    <2>5. Running'
        BY <1>1, <1>2, <2>1 DEF Running, Listed, call
    <2>6. Progress'
        <3>1. ASSUME NEW i \in DOMAIN list, SeenTo(i) \/ failed \/ list[i].name \in holds
              PROVE  SeenTo(i)' \/ failed' \/ list[i].name \in holds'
            <4>1. CASE list[i].name = n
                <5>1. i = j
                    BY <2>2, <4>1, Inputs DEF Types
                <5> QED
                    BY <1>1, <2>1, <2>2, <3>1, <5>1 DEF SeenTo, MustHave, Skipped, call, history
            <4>2. CASE list[i].name # n
                BY <1>1, <2>1, <3>1, <4>2 DEF SeenTo, MustHave, call, history
            <4> QED
                BY <4>1, <4>2
        <3> QED
            BY <2>1, <3>1 DEF Progress, call
    <2> QED
        BY <1>3, <1>4, <2>4, <2>5, <2>6
<1>6. CASE n \notin holds
    <2>1. phase = "retry" /\ Inferring' = {} /\ holds' = {}
        BY <1>1, <1>2, <1>6 DEF Running, Types, Phases
    <2>2. phase' = "idle" /\ outcome' = "error" /\ UNCHANGED <<list, at, calls, failed>>
        BY <1>6 DEF Gives, Return
    <2>3. Types'
        BY <1>1, <1>2, <2>1, <2>2 DEF Types, Phases, history
    <2> QED
        BY <1>3, <1>4, <2>1, <2>2, <2>3 DEF Running, Progress
<1> QED
    BY <1>5, <1>6

---------------------------------------------------------------------------
\* The caller keeps it.

\* A step of the caller that starts no inference, when none that ran alone runs
\* or the conversation stays as it is.
LEMMA Undisturbed ==
    ASSUME Asking, Alone, UNCHANGED <<infer, holds, lone>>, AnswersAlone',
           Inferring = {} \/ UNCHANGED thread, lone \subseteq Names
    PROVE  Asking' /\ Alone' /\ (Bounded => Bounded')
<1>1. Inferring' = Inferring
    BY DEF Inferring
<1>2. ASSUME NEW m \in lone, infer[m].stage # "off"
      PROVE  OwnThread(m)'
    <2>1. m \in Inferring
        BY <1>2 DEF Inferring
    <2> QED
        BY <1>1, <1>2, <2>1 DEF Alone, OwnThread
<1> QED
    BY <1>2 DEF Asking, Alone, Bounded

LEMMA BeginKeeps ==
    ASSUME IInv, Begin
    PROVE  IInv'
<1> USE DEF IInv
<1>1. PICK l \in Lists :
        /\ list' = l
        /\ \E given \in SUBSET {l[i].name : i \in DOMAIN l} :
              results' = [n \in Names |-> IF n \in given THEN n ELSE None]
    BY DEF Begin
<1>2. /\ phase = "idle" /\ phase' = "sync" /\ at' = 1 /\ calls < MaxCalls /\ calls' = calls + 1
      /\ failed' = FALSE /\ outcome' = "none" /\ blank' = {}
      /\ UNCHANGED <<holds, infer, thread, lone, cancelled, died>>
    BY DEF Begin
<1>3. Inferring = {} /\ Inferring' = {} /\ holds = {}
    BY <1>2 DEF Running, Inferring
<1>4. Types'
    <2>1. results' \in [Names -> Subjects \cup {None}]
        BY <1>1, Constant
    <2>2. at' \in 1..(Len(list') + 1)
        BY <1>1, <1>2, Inputs
    <2>3. calls' \in 0..MaxCalls
        BY <1>2, Constant DEF Types
    <2> QED
        BY <1>1, <1>2, <2>1, <2>2, <2>3 DEF Types, Phases
<1>5. Running' /\ Progress'
    <2>1. \A i \in DOMAIN list' : ~(i < at')
        BY <1>1, <1>2, Inputs
    <2> QED
        BY <1>2, <1>3, <2>1 DEF Running, Progress
<1>6. AnswersAlone'
    BY <1>1, <1>2 DEF Types, AnswersAlone
<1> QED
    BY <1>2, <1>3, <1>4, <1>5, <1>6, Undisturbed DEF Types

LEMMA Places ==
    ASSUME Types, at <= Len(list)
    PROVE  /\ at \in DOMAIN list /\ at + 1 \in 1..(Len(list) + 1) /\ at \in Nat
           /\ \A i \in DOMAIN list : i \in Nat /\ (i < at + 1 => i < at \/ i = at)
           /\ This \in Input /\ This.name \in Names /\ This.name \in Listed /\ This = list[at] /\ The(This.name) = This
<1>1. list \in Seq(Input) /\ at \in 1..(Len(list) + 1)
    BY Inputs DEF Types
<1>2. at \in DOMAIN list
    BY <1>1
<1> QED
    BY <1>1, <1>2, Named, Inputs DEF This, Types

\* An input of the list that the caller passes needs nothing, or a goroutine.
LEMMA PassOverKeeps ==
    ASSUME IInv, PassOver
    PROVE  IInv'
<1> USE DEF IInv
<1>1. /\ phase = "sync" /\ phase' = "sync" /\ at' = at + 1
      /\ UNCHANGED <<list, outcome, calls, results, failed, holds, infer, thread, blank, lone, cancelled, died>>
      /\ results[This.name] # None \/ This.origin = "inference"
    BY DEF PassOver, Goto, history
<1>2. Types'
    BY <1>1, Places DEF PassOver, Types
<1>3. Running' /\ AnswersAlone'
    BY <1>1 DEF Running, Inferring, Alone, AnswersAlone
<1>4. Progress'
    BY <1>1, Places DEF PassOver, Progress, SeenTo, This
<1> QED
    BY <1>1, <1>2, <1>3, <1>4, Undisturbed DEF Types

LEMMA ExtractKeeps ==
    ASSUME IInv, Extract
    PROVE  IInv'
<1> USE DEF IInv
<1>1. /\ phase = "sync" /\ phase' = "sync" /\ at' = at + 1 /\ at <= Len(list) /\ results[This.name] = None
      /\ UNCHANGED <<list, outcome, calls, failed, holds, infer, lone, cancelled, died>>
      /\ thread' \in {thread, Elsewhere}
      /\ \/ results' = [results EXCEPT ![This.name] = This.name] /\ UNCHANGED blank
         \/ UNCHANGED results /\ blank' = blank \cup {This.name}
    BY DEF Extract, Looks, Goto, Value
<1>2. /\ This.name \in Names
      /\ results' \in [Names -> Subjects \cup {None}]
      /\ \A n \in Names : results'[n] # results[n] => n = This.name /\ results'[n] = n
      /\ blank \subseteq blank' /\ blank' \subseteq Names
      /\ results'[This.name] # None \/ This.name \in blank'
    BY <1>1, Constant, Places DEF Types
<1>3. Types'
    BY <1>1, <1>2, Constant, Places DEF Types
<1>4. Running' /\ Inferring = {}
    BY <1>1 DEF Running, Inferring
<1>5. AnswersAlone'
    BY <1>1, <1>2 DEF Types, Alone, AnswersAlone
<1>6. Progress'
    <2>1. ASSUME NEW i \in DOMAIN list, SeenTo(i) \/ i = at
          PROVE  SeenTo(i)'
        <3>1. list[i].name \in Names
            BY Inputs DEF Types
        <3> QED
            BY <1>1, <1>2, <2>1, <3>1, Constant DEF SeenTo, This
    <2> QED
        BY <1>1, <2>1, Places DEF Progress
<1> QED
    BY <1>1, <1>3, <1>4, <1>5, <1>6, Undisturbed DEF Types

LEMMA NotExtractedKeeps ==
    ASSUME IInv, NotExtracted
    PROVE  IInv'
<1> USE DEF IInv
<1>1. /\ phase = "sync" /\ at <= Len(list) /\ results[This.name] = None /\ This.origin # "inference"
      /\ UNCHANGED <<list, calls, results, failed, holds, infer, blank, lone, cancelled, died>>
      /\ thread' \in {thread, Elsewhere}
      /\ \/ This.optional /\ phase' = "sync" /\ at' = at + 1 /\ outcome' = outcome
         \/ phase' = "retry" /\ at' = at /\ outcome' = outcome
         \/ phase' = "idle" /\ outcome' = "error" /\ at' = at
    BY Places DEF NotExtracted, Looks, Goto, Return, Skipped, history
<1>2. Types'
    BY <1>1, Constant, Places DEF Types, Phases
<1>3. Running' /\ Inferring = {} /\ AnswersAlone'
    BY <1>1, Places DEF Running, Inferring, Alone, AnswersAlone
<1>4. Progress'
    BY <1>1, Places DEF Progress, SeenTo, This
<1> QED
    BY <1>1, <1>2, <1>3, <1>4, Undisturbed DEF Types

LEMMA AllSyncKeeps ==
    ASSUME IInv, AllSync
    PROVE  IInv'
<1> USE DEF IInv
<1>1. /\ phase = "sync" /\ phase' = "spawn" /\ at > Len(list) /\ at' = 1
      /\ UNCHANGED <<list, outcome, calls, results, failed, holds, infer, thread, blank, lone, cancelled, died>>
    BY DEF AllSync, Goto, history
<1>2. list \in Seq(Input) /\ at \in 1..(Len(list) + 1)
    BY Inputs DEF Types
<1>3. Types'
    BY <1>1, <1>2 DEF Types, Phases
<1>4. Running' /\ AnswersAlone'
    BY <1>1 DEF Running, Inferring, Alone, AnswersAlone
<1>5. Progress'
    BY <1>1, <1>2 DEF Progress, SeenTo
<1> QED
    BY <1>1, <1>3, <1>4, <1>5, Undisturbed DEF Types

LEMMA NotAsyncKeeps ==
    ASSUME IInv, NotAsync
    PROVE  IInv'
<1> USE DEF IInv
<1>1. /\ phase = "spawn" /\ phase' = "spawn" /\ at <= Len(list) /\ at' = at + 1
      /\ UNCHANGED <<list, outcome, calls, results, failed, holds, infer, thread, blank, lone, cancelled, died>>
      /\ This.origin # "inference" \/ results[This.name] # None
    BY DEF NotAsync, Async, Goto, history
<1>2. Types'
    BY <1>1, Places DEF Types
<1>3. Running' /\ AnswersAlone'
    BY <1>1 DEF Running, Inferring, Listed, Alone, AnswersAlone
<1>4. Progress'
    BY <1>1, Places DEF Progress, SeenTo, This
<1> QED
    BY <1>1, <1>2, <1>3, <1>4, Undisturbed DEF Types

LEMMA AllSpawnedKeeps ==
    ASSUME IInv, AllSpawned
    PROVE  IInv'
<1> USE DEF IInv
<1>1. /\ phase = "spawn" /\ phase' = "wait" /\ at > Len(list) /\ at' = at
      /\ UNCHANGED <<list, outcome, calls, results, failed, holds, infer, thread, blank, lone, cancelled, died>>
    BY DEF AllSpawned, Goto, history
<1>2. list \in Seq(Input) /\ at = Len(list) + 1
    BY <1>1, Inputs DEF Types
<1>3. Types'
    BY <1>1 DEF Types, Phases
<1>4. Running' /\ AnswersAlone'
    BY <1>1, <1>2 DEF Running, Inferring, Listed, Alone, AnswersAlone
<1>5. Progress'
    BY <1>1 DEF Progress, SeenTo
<1> QED
    BY <1>1, <1>3, <1>4, <1>5, Undisturbed DEF Types

LEMMA JoinKeeps ==
    ASSUME IInv, Join
    PROVE  IInv'
<1> USE DEF IInv
<1>1. /\ phase = "wait" /\ holds = {} /\ phase' = "idle" /\ outcome' = IF failed THEN "error" ELSE "ok"
      /\ UNCHANGED <<list, at, calls, results, failed, holds, infer, thread, blank, lone, cancelled, died>>
    BY DEF Join, Joined, Return, history
<1>2. list \in Seq(Input) /\ at = Len(list) + 1
    BY <1>1, Inputs DEF Types, Running
<1>3. Types'
    BY <1>1 DEF Types, Phases
<1>4. Running' /\ AnswersAlone'
    BY <1>1 DEF Running, Inferring, Alone, AnswersAlone
<1>5. Progress'
    BY <1>1, <1>2 DEF Progress, SeenTo
<1> QED
    BY <1>1, <1>3, <1>4, <1>5, Undisturbed DEF Types

LEMMA StartingKeeps ==
    ASSUME Types, Asking, Alone, NEW n \in Names, NEW second \in BOOLEAN, Starting(n, second),
           second \/ results[n] = None, UNCHANGED <<results, thread>>
    PROVE  /\ infer' \in [Names -> Inference] /\ lone' \subseteq Names
           /\ Inferring' = Inferring \cup {n}
           /\ Asking' /\ Alone'
<1> DEFINE q == [Off EXCEPT !.stage = "reset", !.second = second]
<1>1. q \in Inference /\ q.stage = "reset" /\ q.thread = None
    BY Again
<1>2. infer' = [infer EXCEPT ![n] = q]
    BY DEF Starting
<1> HIDE DEF q
<1>3. /\ infer' \in [Names -> Inference] /\ infer'[n] = q
      /\ \A m \in Names \ {n} : infer'[m] = infer[m]
    BY <1>1, <1>2 DEF Types
<1>4. Inferring' = Inferring \cup {n}
    BY <1>1, <1>3 DEF Inferring
<1>5. Asking'
    BY <1>1, <1>3 DEF Asking
<1>6. CASE Inferring \ {n} = {}
    <2>1. lone' = IF second THEN lone ELSE lone \cup {n}
        BY <1>6 DEF Starting
    <2>2. AnswersAlone'
        BY <2>1 DEF Alone, AnswersAlone
    <2>3. ASSUME NEW m \in lone', infer'[m].stage # "off"
          PROVE  OwnThread(m)'
        <3>1. m \in Names /\ Inferring' = {n}
            BY <1>4, <1>6, <2>1 DEF Types
        <3>2. m = n
            BY <2>3, <3>1 DEF Inferring
        <3> QED
            BY <1>1, <1>3, <3>1, <3>2 DEF OwnThread
    <2> QED
        BY <1>3, <1>4, <1>5, <2>1, <2>2, <2>3 DEF Types, Alone
<1>7. CASE Inferring \ {n} # {}
    <2>1. lone' = lone \ (Inferring \cup {n})
        BY <1>7 DEF Starting
    <2>2. AnswersAlone'
        BY <2>1 DEF Alone, AnswersAlone
    <2>3. ASSUME NEW m \in lone'
          PROVE  infer'[m].stage = "off"
        BY <1>3, <2>1 DEF Types, Inferring
    <2> QED
        BY <1>3, <1>4, <1>5, <2>1, <2>2, <2>3 DEF Types, Alone
<1> QED
    BY <1>6, <1>7

LEMMA SpawnKeeps ==
    ASSUME IInv, Spawn
    PROVE  IInv'
<1> USE DEF IInv
<1>1. /\ phase = "spawn" /\ phase' = "spawn" /\ at <= Len(list) /\ at' = at + 1
      /\ holds' = holds \cup {This.name} /\ Cardinality(holds) < MaxAsync
      /\ UNCHANGED <<list, outcome, calls, results, failed, thread, blank, cancelled, died>>
      /\ results[This.name] = None /\ Starting(This.name, FALSE)
    BY DEF Spawn, Async, Goto
<1>2. /\ infer' \in [Names -> Inference] /\ lone' \subseteq Names
      /\ Inferring' = Inferring \cup {This.name} /\ Asking' /\ Alone'
    BY <1>1, Places, StartingKeeps
<1>3. Types'
    BY <1>1, <1>2, Places DEF Types
<1>4. Running'
    BY <1>1, <1>2, Places DEF Running, Listed
<1>5. Progress'
    BY <1>1, Places DEF Progress, SeenTo, This
<1>6. Bounded'
    <2>0. IsFiniteSet(holds)
        BY InputsAssumption, FS_Subset DEF Types
    <2>1. IsFiniteSet(holds) /\ Cardinality(holds) \in Nat /\ MaxAsync \in Nat
        BY <2>0, Constant, FS_CardinalityType
    <2>2. Cardinality(holds \cup {This.name}) \in {Cardinality(holds), Cardinality(holds) + 1}
        BY <2>0, FS_AddElement
    <2>3. Cardinality(holds') \in {Cardinality(holds), Cardinality(holds) + 1}
        BY <1>1, <2>2
    <2> QED
        BY <1>1, <2>1, <2>3 DEF Bounded
<1> QED
    BY <1>2, <1>3, <1>4, <1>5, <1>6

LEMMA RetryKeeps ==
    ASSUME IInv, Retry
    PROVE  IInv'
<1> USE DEF IInv
<1>1. /\ phase = "retry" /\ Starting(This.name, TRUE)
      /\ UNCHANGED <<list, phase, at, outcome, calls, results, failed, holds, thread, blank, cancelled, died>>
    BY DEF Retry, call
<1>2. This = list[at] /\ This.name \in Names
    BY <1>1, Inputs DEF This, Running, Types
<1>3. /\ infer' \in [Names -> Inference] /\ lone' \subseteq Names
      /\ Inferring' = Inferring \cup {This.name} /\ Asking' /\ Alone'
    BY <1>1, <1>2, StartingKeeps
<1>4. Types' /\ Bounded'
    BY <1>1, <1>3 DEF Types, Bounded
<1>5. Running'
    BY <1>1, <1>2, <1>3 DEF Running
<1>6. Progress'
    BY <1>1 DEF Progress, SeenTo
<1> QED
    BY <1>3, <1>4, <1>5, <1>6

LEMMA QuietKeeps ==
    ASSUME IInv, UNCHANGED <<call, results, failed, holds, infer, thread, history>>,
           cancelled' \in BOOLEAN, died' \in BOOLEAN
    PROVE  IInv'
BY DEF IInv, Types, Bounded, Running, Asking, Progress, Alone, AnswersAlone, OwnThread, SeenTo, Inferring, Listed,
       call, history

---------------------------------------------------------------------------

LEMMA NextKeeps ==
    ASSUME IInv, [Next]_vars
    PROVE  IInv'
<1>1. CASE Begin
    BY <1>1, BeginKeeps
<1>2. CASE Caller
    BY <1>2, PassOverKeeps, ExtractKeeps, NotExtractedKeeps, AllSyncKeeps, NotAsyncKeeps, SpawnKeeps,
       AllSpawnedKeeps, JoinKeeps, RetryKeeps DEF Caller
<1>3. ASSUME NEW n \in Names, Goroutine(n)
      PROVE  IInv'
    BY <1>3, Goroutines, MovesKeeps, AnswersKeeps, GivesKeeps DEF IInv
<1>4. CASE Clash \/ Cancel \/ Idle \/ UNCHANGED vars
    BY <1>4, QuietKeeps DEF Clash, Cancel, Idle, vars, call, history, IInv, Types
<1> QED
    BY <1>1, <1>2, <1>3, <1>4 DEF Next

LEMMA Invariance == Spec => []IInv
BY InitIInv, NextKeeps, PTL DEF Spec

LEMMA ImpliesTypeOK == IInv => TypeOK
BY DEF IInv, Types, Bounded, TypeOK

LEMMA ImpliesNoneMissing ==
    ASSUME IInv
    PROVE  NoneMissing
<1> SUFFICES ASSUME phase = "idle", outcome = "ok", NEW n \in Listed \ blank
             PROVE  results[n] # None \/ The(n).optional
    BY DEF NoneMissing
<1>1. PICK i \in DOMAIN list : list[i].name = n
    BY DEF Listed
<1>2. SeenTo(i) /\ The(n) = list[i]
    BY <1>1, Named DEF IInv, Progress
<1> QED
    BY <1>1, <1>2 DEF SeenTo

\* Every variable keeps its type, and no more goroutines than the semaphore
\* allows hold it.
THEOREM TypeCorrect == Spec => []TypeOK
BY Invariance, ImpliesTypeOK, PTL

\* Inputs that are said to be fulfilled have values, those apart that need none
\* or were given an empty text, whatever goroutines failed in whatever order.
THEOREM FulfilledMeansValues == Spec => []NoneMissing
BY Invariance, ImpliesNoneMissing, PTL

\* The value an inference gives while no other one runs answers the question of
\* its own input, whatever conversations were left behind for the message.
THEOREM AloneAnswersOwn == Spec => []AnswersAlone
<1>1. IInv => AnswersAlone
    BY DEF IInv, Alone
<1> QED
    BY <1>1, Invariance, PTL
=============================================================================
