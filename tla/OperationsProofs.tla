--------------------------- MODULE OperationsProofs ---------------------------
(***************************************************************************)
(* Proofs about Operations, for any operation (any steps, lists, options   *)
(* and faults), any numbers of items, repetitions and logins.              *)
(*                                                                         *)
(* Four parts make the invariant IInv.                                     *)
(*   TypesOK: where the loop of the call stands says what it has found     *)
(*     out (MainOK); the goroutines of a try work on one step that the     *)
(*     loop has reached, and an item is in one place, the queue or one     *)
(*     goroutine (TeamsOK); so is an item that has an answer the collector *)
(*     waits for (CollectOK).                                              *)
(*   TriesBound, KeptOnce: a try has at most one chance to execute an item *)
(*     (Chance), and takes it away when it does; a step whose results are  *)
(*     kept is executed only without one.                                  *)
(*   Completed: steps that have a result, and those the try has passed,    *)
(*     are complete.                                                       *)
(*   GotDone, ResultsInOrder: the results of a list hold what was executed *)
(*     and grow in the order of its items.                                 *)
(***************************************************************************)
EXTENDS Operations, SequenceTheorems, FiniteSetTheorems, WellFoundedInduction, TLAPS

Size(s) == op.steps[s].items

\* Stages of the loop over a list, and of an item that is not done.
InList == {"item", "call", "after", "poll"}
Busy == {"call", "count", "relogin", "again", "delay"}

\* What a goroutine that counts a login or waits before it repeats a call has
\* found out before.
GoesOn(r) ==
  /\ runner[r].pc = "count" => runner[r].seen < MaxAuthRetries /\ Logins # {}
  /\ runner[r].pc = "delay" => runner[r].try < MaxItemRetries

\* The loop of the call: where it is, it has no result of an earlier try, and
\* its goroutine is at an item when it says so.
MainOK ==
  /\ main.pc \notin {"start", "failed"} => main.step >= 1
  /\ main.pc \in {"execute", "list", "collect"} \cup InList => main.step \in Steps
  /\ main.pc = "execute" => Each(main.step) = "no"
  /\ main.pc = "list" => Each(main.step) # "no"
  /\ main.pc \in InList => Each(main.step) = "sequential" /\ main.item \in 1 .. Size(main.step) + 1
  /\ main.pc \in InList \ {"item"} => RetriesItems /\ main.item <= Size(main.step)
  /\ main.pc \in {"execute", "list", "collect"} /\ Step.indexed => results[main.step] = NoResult
  /\ main.pc \in InList /\ Step.indexed =>
       results[main.step] = IF main.got = <<>> \/ ~RetriesItems THEN NoResult ELSE main.got
  /\ main.pc = "relogin" => log.relogged /\ Logins # {} /\ main.at >= 1
  /\ main.pc = "succeeded" /\ Logins = {} => main.step > Len(op.steps)
  /\ main.pc = "call" <=> runner[Main].pc # "idle"
  /\ main.pc = "call" => /\ runner[Main].pc \in Busy
                         /\ runner[Main].step = main.step /\ runner[Main].item = main.item
  /\ GoesOn(Main)

\* What the loop of the call has before it in its try.
Ahead(s, p) ==
  \/ main.pc = "start"
  \/ main.pc \in {"step", "execute", "list"} /\ main.step <= s
  \/ main.pc \in InList \cup {"collect"} /\ main.step < s
  \/ main.pc \in {"item", "call"} /\ main.step = s /\ main.item <= p
  \/ main.pc \in {"after", "poll"} /\ main.step = s /\ main.item < p

\* The goroutines of try t: they work on one step, which the loop has
\* reached, and an item is in one place.
Team(t) == Workers \X {t}
Works(r) == runner[r].pc # "idle"
Holds(r) == runner[r].pc \in Busy
TeamOK(t) ==
  /\ \A i, j \in DOMAIN queue[t] : queue[t][i] = queue[t][j] => i = j
  /\ \A r \in Team(t) : Works(r) =>
       /\ t <= main.try /\ runner[r].step \in Steps /\ Each(runner[r].step) = "parallel"
       /\ t = main.try => \A p \in 0 .. MaxItems : ~Ahead(runner[r].step, p)
       /\ \A q \in Team(t) : Works(q) => runner[q].step = runner[r].step
  /\ \A r \in Team(t) : GoesOn(r)
  /\ \A r \in Team(t) : Holds(r) =>
       /\ runner[r].item >= 1
       /\ \A i \in DOMAIN queue[t] : queue[t][i] # runner[r].item
       /\ \A q \in Team(t) \ {r} : Holds(q) => runner[q].item # runner[r].item

\* The collector of try t: answers are of the items of its step, and items
\* that have a result, an answer or neither are different ones.
Got(s) == {i \in 1 .. Size(s) : main.got[i] = i}
Unanswered(t, p) ==
  \/ \E i \in DOMAIN queue[t] : queue[t][i] = p
  \/ \E r \in Team(t) : Holds(r) /\ runner[r].item = p
Expected(t, s) ==
  /\ Each(s) = "parallel"
  /\ DOMAIN main.got = 1 .. Size(s) /\ \A i \in 1 .. Size(s) : main.got[i] \in {0, i}
  /\ \A r \in Team(t) : Works(r) => runner[r].step = s
  /\ \A p \in 1 .. MaxItems : Unanswered(t, p) => p <= Size(s)
  /\ \A p \in Got(s) : log.done[s][p] > 0
  /\ ~main.wrong => /\ main.due = Size(s) - Cardinality(Got(s))
                    /\ \A p \in Got(s) : ~Unanswered(t, p)
Answered(t, s, come) ==
  /\ \A i \in DOMAIN come : /\ come[i].item <= Size(s) /\ ~Unanswered(t, come[i].item)
                            /\ come[i].ok => log.done[s][come[i].item] > 0
                            /\ ~main.wrong => come[i].item \notin Got(s)
  /\ \A i, j \in DOMAIN come : come[i].item = come[j].item => i = j
CollectOK ==
  main.pc = "collect" =>
    Expected(main.try, main.step) /\ Answered(main.try, main.step, answers[main.try])

\* Item p of step s may still be executed in try t; each time it is executed
\* takes one such chance away.
Chance(t, s, p) ==
  \/ t > main.try
  \/ t = main.try /\ Ahead(s, p)
  \/ \E r \in Team(t) : /\ Works(r) /\ runner[r].step = s
                        /\ \/ Holds(r) /\ runner[r].item = p
                           \/ \E i \in DOMAIN queue[t] : queue[t][i] = p
Chances(s, p) == (IF Chance(0, s, p) THEN 1 ELSE 0) + (IF Chance(1, s, p) THEN 1 ELSE 0)
TriesBound == ~log.relogged => \A s \in Steps, p \in 0 .. MaxItems : log.done[s][p] + Chances(s, p) <= 2

\* A step whose results are stored as they come is executed only without one.
AtHand(s, p) == main.pc \in InList /\ main.step = s /\ Ahead(s, p)
Kept(s) == op.steps[s].indexed /\ (Each(s) = "no" \/ (Each(s) = "sequential" /\ RetriesItems))
KeptOnce ==
  ~log.relogged /\ KeepsResults =>
    \A s \in Steps, p \in 0 .. MaxItems : Kept(s) =>
      /\ log.done[s][p] <= 1
      /\ log.done[s][p] > 0 => results[s] # NoResult /\ ~AtHand(s, p)

\* Steps that have a result, and those the try has passed, are complete.
Seen(s, p) == log.done[s][p] > 0 \/ p \in log.excused[s]
Complete(s) == \A p \in IF Each(s) = "no" THEN {0} ELSE 1 .. Size(s) : Seen(s, p)
Strict == Logins = {} /\ (RetriesItems => Lists("sequential") = {})
Completed ==
  Strict =>
    \A s \in Steps :
      /\ results[s] # NoResult => Complete(s)
      /\ main.pc \notin {"start", "failed"} /\ s < main.step => Complete(s)
      /\ main.pc = "item" /\ main.step = s => \A p \in 1 .. main.item - 1 : Seen(s, p)

Increasing(got) == \A i \in 1 .. Len(got) - 1 : got[i] < got[i + 1]
\* What ResultsInOrder says of a result of step s.
Fits(s, got) ==
  /\ Increasing(got)
  /\ \A i \in DOMAIN got : log.done[s][got[i]] > 0
  /\ s \in Lists("parallel") /\ log.excused[s] = {} => Len(got) = Size(s)
GotDone ==
  main.pc \in InList =>
    /\ Increasing(main.got)
    /\ \A i \in DOMAIN main.got : /\ log.done[main.step][main.got[i]] > 0
                                  /\ main.got[i] < main.item \/ (main.pc \in {"after", "poll"} /\ main.got[i] = main.item)

TeamsOK == \A t \in Tries : TeamOK(t)

TypesOK == TypeOK /\ MainOK /\ TeamsOK /\ CollectOK
IInv == TypesOK /\ TriesBound /\ KeptOnce /\ Completed /\ GotDone /\ ResultsInOrder

---------------------------------------------------------------------------

LEMMA Elements ==
  ASSUME NEW S, NEW s \in Seq(S)
  PROVE  /\ Len(s) \in Nat /\ DOMAIN s = 1 .. Len(s) /\ \A i \in DOMAIN s : s[i] \in S
         /\ s # <<>> => Len(s) > 0 /\ Head(s) = s[1] /\ Head(s) \in S /\ Tail(s) \in Seq(S)
  OBVIOUS

LEMMA ListOf ==
  ASSUME NEW S, NEW n \in Nat, NEW f \in [1 .. n -> S]
  PROVE  f \in Seq(S) /\ Len(f) = n /\ DOMAIN f = 1 .. n
<1>1. f \in Seq(S)
  OBVIOUS
<1>2. DOMAIN f = 1 .. n /\ DOMAIN f = 1 .. Len(f) /\ Len(f) \in Nat
  BY <1>1
<1> QED
  BY <1>1, <1>2

LEMMA Opened ==
  ASSUME TypeOK
  PROVE  /\ op \in OperationType /\ op.steps \in Seq(StepType) /\ Len(op.steps) \in Nat
         /\ Steps = 1 .. Len(op.steps)
         /\ \A s \in Steps : /\ op.steps[s] \in StepType /\ Size(s) \in 0 .. MaxItems
                             /\ Each(s) \in {"no", "parallel", "sequential"}
         /\ MaxItems \in Nat /\ MaxItemRetries \in Nat /\ MaxAuthRetries \in Nat /\ Tries = {0, 1}
         /\ main \in MainType /\ main.try \in {0, 1} /\ main.step \in Nat /\ main.item \in Nat
         /\ main.got \in Seq(0 .. MaxItems)
         /\ Main \in Runners /\ TryOf(Main) = main.try
         /\ \A r \in Runners : runner[r] \in RunnerType
<1>1. op \in OperationType
  BY ConstantsAssumption DEF TypeOK
<1>2. op.steps \in Seq(StepType) /\ Len(op.steps) \in Nat /\ Steps = 1 .. Len(op.steps)
  BY <1>1 DEF OperationType, Steps
<1>3. \A s \in Steps : op.steps[s] \in StepType
  BY <1>2
<1>4. \A s \in Steps : Size(s) \in 0 .. MaxItems /\ Each(s) \in {"no", "parallel", "sequential"}
  BY <1>3 DEF StepType, Size, Each
<1>5. Tries = {0, 1}
  BY DEF Tries, MaxRetries
<1>6. main \in MainType /\ \A r \in Runners : runner[r] \in RunnerType
  BY DEF TypeOK
<1>7. main.try \in {0, 1} /\ main.step \in Nat /\ main.item \in Nat /\ main.got \in Seq(0 .. MaxItems)
  BY <1>5, <1>6 DEF MainType
<1>8. Main \in Runners /\ TryOf(Main) = main.try
  BY DEF Runners, TryOf
<1> QED
  BY <1>1, <1>2, <1>3, <1>4, <1>5, <1>6, <1>7, <1>8, ConstantsAssumption

LEMMA LeastLogin ==
  ASSUME TypeOK, Logins # {}
  PROVE  LoginStep \in Steps
<1>1. Logins \subseteq Nat
  BY Opened DEF Logins
<1>2. PICK s \in Logins : \A t \in Logins : ~(<<t, s>> \in OpToRel(<, Nat))
  BY <1>1, NatLessThanWellFounded, WFMin
<1>3. ASSUME NEW t \in Logins PROVE s <= t
  <2>1. s \in Nat /\ t \in Nat /\ ~(t < s)
    BY <1>1, <1>2, Zenon DEF OpToRel
  <2> QED
    BY <2>1
<1> QED
  BY <1>3 DEF LoginStep, Logins

\* A worker's goroutine belongs to one try.
LEMMA Teams ==
  ASSUME TypeOK
  PROVE  /\ \A t \in Tries : Team(t) \subseteq Runners /\ \A r \in Team(t) : r # Main /\ TryOf(r) = t
         /\ \A r \in Runners \ {Main} : TryOf(r) \in Tries /\ r \in Team(TryOf(r))
         /\ \A t, u \in Tries : \A r \in Team(t) : r \in Team(u) => t = u
<1>1. \A t \in Tries : Team(t) \subseteq Workers \X Nat
  BY DEF Team, Tries, MaxRetries
<1> QED
  BY <1>1, ConstantsAssumption DEF Team, Runners, TryOf

---------------------------------------------------------------------------
\* What the assignments do.

LEMMA Counting ==
  ASSUME TypeOK, NEW s \in Steps, NEW p \in 0 .. MaxItems, Count(s, p)
  PROVE  /\ log' \in [done : [Steps -> [0 .. MaxItems -> Nat]], excused : [Steps -> SUBSET (0 .. MaxItems)],
                      relogged : BOOLEAN, panicked : BOOLEAN]
         /\ log'.done[s][p] = log.done[s][p] + 1 /\ log.done[s][p] \in Nat
         /\ \A t \in Steps, q \in 0 .. MaxItems : t # s \/ q # p => log'.done[t][q] = log.done[t][q]
         /\ log'.excused = log.excused /\ log'.relogged = log.relogged
<1>1. PICK n : n = log.done[s][p] + 1
  OBVIOUS
<1>0. log.done \in [Steps -> [0 .. MaxItems -> Nat]]
  BY DEF TypeOK
<1>2. log.done[s][p] \in Nat /\ n \in Nat
  <2>1. log.done[s] \in [0 .. MaxItems -> Nat]
    BY <1>0
  <2>2. log.done[s][p] \in Nat
    BY <2>1
  <2> QED
    BY <1>1, <2>2
<1>3. PICK done : done = [log.done EXCEPT ![s][p] = n]
  OBVIOUS
<1>4. /\ done \in [Steps -> [0 .. MaxItems -> Nat]] /\ done[s][p] = n
      /\ \A t \in Steps, q \in 0 .. MaxItems : t # s \/ q # p => done[t][q] = log.done[t][q]
  BY <1>0, <1>2, <1>3
<1>5. log' = [log EXCEPT !.done = done]
  BY <1>1, <1>3 DEF Count, TypeOK
<1> QED
  BY <1>1, <1>2, <1>4, <1>5 DEF TypeOK

LEMMA Excusing ==
  ASSUME TypeOK, NEW s \in Steps, NEW items \in SUBSET (0 .. MaxItems), Excuse(s, items)
  PROVE  /\ log' \in [done : [Steps -> [0 .. MaxItems -> Nat]], excused : [Steps -> SUBSET (0 .. MaxItems)],
                      relogged : BOOLEAN, panicked : BOOLEAN]
         /\ log'.done = log.done /\ log'.relogged = log.relogged
         /\ log'.excused[s] = log.excused[s] \cup items
         /\ \A t \in Steps \ {s} : log'.excused[t] = log.excused[t]
  BY DEF TypeOK, Excuse

LEMMA Storing ==
  ASSUME TypeOK, NEW s \in Steps, NEW got \in Seq(0 .. MaxItems), Store(s, got)
  PROVE  /\ results' \in [Steps -> Seq(0 .. MaxItems) \cup {NoResult}]
         /\ results'[s] = IF op.steps[s].indexed THEN got ELSE results[s]
         /\ \A t \in Steps \ {s} : results'[t] = results[t]
         /\ got # NoResult
<1>1. got \in Seq(Nat)
  BY ConstantsAssumption
<1>2. got # NoResult
  BY <1>1, ConstantsAssumption
<1> QED
  BY <1>2 DEF TypeOK, Store

LEMMA FailShape ==
  ASSUME TypeOK, FailTry
  PROVE  /\ main' \in MainType /\ main'.step = main.step /\ main'.item = main.item /\ main'.got = main.got
         /\ main'.try = 1
         /\ \/ main.try = 0 /\ main'.pc = "start"
            \/ main.try = 1 /\ main'.pc = "failed"
<1>1. main \in MainType /\ main.try \in {0, 1} /\ Tries = {0, 1}
  BY Opened
<1>2. /\ main'.pc = (IF main.try < 1 THEN "start" ELSE "failed")
      /\ main'.try = (IF main.try < 1 THEN main.try + 1 ELSE main.try)
      /\ main'.step = main.step /\ main'.item = main.item /\ main'.got = main.got
  BY <1>1 DEF FailTry, MainType, MaxRetries
<1>3. main' \in MainType
  <2>1. PICK pc : pc = IF main.try < 1 THEN "start" ELSE "failed"
    OBVIOUS
  <2>2. PICK try : try = IF main.try < 1 THEN main.try + 1 ELSE main.try
    OBVIOUS
  <2>3. main' = [main EXCEPT !.pc = pc, !.try = try]
    BY <1>1, <2>1, <2>2 DEF FailTry, MaxRetries
  <2>4. pc \in {"start", "failed"} /\ try \in Tries
    BY <1>1, <2>1, <2>2
  <2> QED
    BY <1>1, <2>3, <2>4 DEF MainType
<1> QED
  BY <1>1, <1>2, <1>3

LEMMA NextShape ==
  ASSUME TypeOK, NextStep
  PROVE  /\ main' \in MainType /\ main'.step = main.step + 1 /\ main'.item = 0 /\ main'.got = <<>>
         /\ main'.try = main.try /\ main'.pc = "step"
<1>1. <<>> \in Seq(0 .. MaxItems)
  OBVIOUS
<1>2. main \in MainType /\ main.step + 1 \in Nat
  BY Opened
<1> QED
  BY <1>1, <1>2 DEF NextStep, MainType

---------------------------------------------------------------------------
\* Steps of the loop.

\* The goroutines go on as they are, and the loop has no more before it.
LEMMA TeamsStay ==
  ASSUME TypesOK, op' = op, queue' = queue, \A r \in Runners \ {Main} : runner'[r] = runner[r],
         main'.try \in {0, 1}, main.try <= main'.try,
         main'.try = main.try => \A s \in Steps, p \in 0 .. MaxItems : Ahead(s, p)' => Ahead(s, p)
  PROVE  /\ TeamsOK'
         /\ \A t \in Tries, s \in Steps, p \in 0 .. MaxItems : Chance(t, s, p)' => Chance(t, s, p)
<1>1. /\ main.try \in {0, 1} /\ Tries = {0, 1} /\ Steps' = Steps
      /\ \A t \in Tries : \A r \in Team(t) : runner'[r] = runner[r]
      /\ \A s : Each(s)' = Each(s)
  BY Opened, Teams DEF TypesOK, Steps, Each
<1>2. ASSUME NEW t \in Tries PROVE TeamOK(t)'
  <2>1. TeamOK(t)
    BY DEF TypesOK, TeamsOK
  <2>2. ASSUME NEW r \in Team(t), Works(r)
        PROVE  /\ t <= main'.try
               /\ t = main'.try => \A p \in 0 .. MaxItems : ~Ahead(runner[r].step, p)'
    <3>0. PICK s : s = runner[r].step
      OBVIOUS
    <3>1. t <= main.try /\ runner[r].step \in Steps
      BY <2>1, <2>2 DEF TeamOK
    <3>2. t <= main'.try /\ (t = main'.try => t = main.try)
      BY <1>1, <3>1
    <3>3. t = main'.try => \A p \in 0 .. MaxItems : ~Ahead(s, p)'
      BY <2>1, <2>2, <3>0, <3>1, <3>2 DEF TeamOK
    <3>4. runner'[r].step = s
      BY <1>1, <3>0
    <3> QED
      BY <3>2, <3>3, <3>4
  <2> QED
    BY <1>1, <2>1, <2>2 DEF TeamOK, Works, Holds, GoesOn, Logins
<1>3. ASSUME NEW t \in Tries, NEW s \in Steps, NEW p \in 0 .. MaxItems, Chance(t, s, p)' PROVE Chance(t, s, p)
  <2>1. CASE t > main'.try
    BY <1>1, <2>1 DEF Chance
  <2>2. CASE t = main'.try /\ Ahead(s, p)'
    <3>1. t > main.try \/ t = main.try
      BY <1>1, <2>2
    <3> QED
      BY <2>2, <3>1 DEF Chance
  <2>3. CASE ~(t > main'.try) /\ ~(t = main'.try /\ Ahead(s, p)')
    BY <1>1, <1>3, <2>3 DEF Chance, Works, Holds
  <2> QED
    BY <2>1, <2>2, <2>3
<1> QED
  BY <1>2, <1>3 DEF TeamsOK, Tries

\* Executing an item takes a chance away.
LEMMA TallyStays ==
  ASSUME IInv, op' = op, TypeOK', log.relogged => log'.relogged,
         \A t \in Tries, s \in Steps, p \in 0 .. MaxItems : Chance(t, s, p)' => Chance(t, s, p),
         \A s \in Steps, p \in 0 .. MaxItems :
           \/ log'.done[s][p] = log.done[s][p]
           \/ /\ log'.done[s][p] = log.done[s][p] + 1
              /\ \E t \in Tries : Chance(t, s, p) /\ ~Chance(t, s, p)'
  PROVE  TriesBound'
<1>1. Steps' = Steps /\ Tries = {0, 1}
  BY Opened DEF IInv, TypesOK, Steps
<1>2. SUFFICES ASSUME ~log.relogged, NEW s \in Steps, NEW p \in 0 .. MaxItems
      PROVE  log'.done[s][p] + Chances(s, p)' <= 2
  BY <1>1 DEF TriesBound
<1>3. PICK a \in {0, 1} : a = IF Chance(0, s, p) THEN 1 ELSE 0
  OBVIOUS
<1>4. PICK b \in {0, 1} : b = IF Chance(1, s, p) THEN 1 ELSE 0
  OBVIOUS
<1>5. PICK c \in {0, 1} : c = IF Chance(0, s, p)' THEN 1 ELSE 0
  OBVIOUS
<1>6. PICK d \in {0, 1} : d = IF Chance(1, s, p)' THEN 1 ELSE 0
  OBVIOUS
<1>7. log.done[s][p] + (a + b) <= 2 /\ c <= a /\ d <= b
  BY <1>1, <1>2, <1>3, <1>4, <1>5, <1>6 DEF IInv, TriesBound, Chances
<1>8. log.done[s] \in [0 .. MaxItems -> Nat]
  BY DEF IInv, TypesOK, TypeOK
<1>9. log.done[s][p] \in Nat
  BY <1>8
<1>10. \/ log'.done[s][p] = log.done[s][p]
       \/ log'.done[s][p] = log.done[s][p] + 1 /\ c + d + 1 <= a + b
  BY <1>1, <1>3, <1>4, <1>5, <1>6, <1>7
<1>11. log'.done[s][p] + (c + d) <= 2
  BY <1>7, <1>9, <1>10
<1> QED
  BY <1>5, <1>6, <1>11 DEF Chances

LEMMA SeenGrows ==
  ASSUME op' = op, NEW s \in Steps, NEW p \in 0 .. MaxItems, Seen(s, p),
         log'.done[s][p] = log.done[s][p] \/ log'.done[s][p] > 0, log.excused[s] \subseteq log'.excused[s]
  PROVE  Seen(s, p)'
  BY DEF Seen

\* The log only grows: of what was executed, and of what was excused.
Grown ==
  /\ log.relogged => log'.relogged
  /\ \A s \in Steps, p \in 0 .. MaxItems :
       log'.done[s][p] = log.done[s][p] \/ log'.done[s][p] = log.done[s][p] + 1
  /\ \A s \in Steps : log.excused[s] \subseteq log'.excused[s]

LEMMA KeptStays ==
  ASSUME IInv, op' = op, TypeOK', log.relogged => log'.relogged,
         KeepsResults => \A s \in Steps, p \in 0 .. MaxItems : Kept(s) =>
           \/ /\ log'.done[s][p] = log.done[s][p]
              /\ results[s] # NoResult => results'[s] # NoResult
              /\ AtHand(s, p)' => AtHand(s, p) \/ results[s] = NoResult
           \/ /\ log'.done[s][p] = log.done[s][p] + 1
              /\ results[s] = NoResult \/ AtHand(s, p)
              /\ results'[s] # NoResult /\ ~AtHand(s, p)'
  PROVE  KeptOnce'
<1>1. Steps' = Steps /\ KeepsResults' = KeepsResults /\ \A s : Kept(s)' = Kept(s)
  BY DEF Steps, KeepsResults, Kept, Each, RetriesItems
<1>2. SUFFICES ASSUME ~log.relogged, KeepsResults, NEW s \in Steps, NEW p \in 0 .. MaxItems, Kept(s)
      PROVE  log'.done[s][p] <= 1 /\ (log'.done[s][p] > 0 => results'[s] # NoResult /\ ~AtHand(s, p)')
  BY <1>1 DEF KeptOnce
<1>3. log.done[s][p] <= 1 /\ (log.done[s][p] > 0 => results[s] # NoResult /\ ~AtHand(s, p))
  BY <1>2 DEF IInv, KeptOnce
<1>4. log.done[s] \in [0 .. MaxItems -> Nat]
  BY DEF IInv, TypesOK, TypeOK
<1>5. log.done[s][p] \in Nat
  BY <1>4
<1>6. CASE log'.done[s][p] = log.done[s][p]
  BY <1>2, <1>3, <1>5, <1>6
<1>7. CASE log'.done[s][p] # log.done[s][p]
  BY <1>2, <1>3, <1>5, <1>7
<1> QED
  BY <1>6, <1>7

LEMMA FitsStay ==
  ASSUME IInv, op' = op, TypeOK', Grown,
         \A s \in Steps : \/ results'[s] \in {results[s], NoResult} \/ log'.relogged
                         \/ Fits(s, results[s])'
  PROVE  ResultsInOrder'
<1>1. Steps' = Steps /\ Lists("parallel")' = Lists("parallel") /\ \A s : Size(s)' = Size(s)
  BY DEF Steps, Lists, Each, Size
<1>2. SUFFICES ASSUME ~log'.relogged, NEW s \in Steps, results'[s] # NoResult
      PROVE  Fits(s, results[s])'
  BY <1>1 DEF ResultsInOrder, Fits, Increasing, Size
<1>3. CASE results'[s] = results[s]
  <2>0. results \in [Steps -> Seq(0 .. MaxItems) \cup {NoResult}]
    BY DEF IInv, TypesOK, TypeOK
  <2>1. results[s] \in Seq(0 .. MaxItems) /\ \A i \in DOMAIN results[s] : results[s][i] \in 0 .. MaxItems
    <3>1. results[s] \in Seq(0 .. MaxItems)
      BY <1>2, <1>3, <2>0
    <3> QED
      BY <3>1, Elements
  <2>2. log.done[s] \in [0 .. MaxItems -> Nat]
    BY DEF IInv, TypesOK, TypeOK
  <2>3. Fits(s, results[s])
    BY <1>2, <1>3 DEF IInv, ResultsInOrder, Fits, Increasing, Size, Grown
  <2>4. \A i \in DOMAIN results[s] : log'.done[s][results[s][i]] > 0
    BY <2>1, <2>2, <2>3, SMTT(20) DEF Fits, Grown
  <2> QED
    BY <1>1, <1>3, <2>3, <2>4 DEF Fits, Increasing, Grown
<1>4. CASE results'[s] # results[s]
  BY <1>2, <1>4
<1> QED
  BY <1>3, <1>4

\* A step of the loop that leaves the goroutines and their items alone.
LEMMA LoopStep ==
  ASSUME IInv, op' = op, queue' = queue, \A r \in Runners \ {Main} : runner'[r] = runner[r],
         TypeOK', MainOK', main'.pc # "collect", Grown, main.try <= main'.try,
         main'.try = main.try => \A s \in Steps, p \in 0 .. MaxItems : Ahead(s, p)' => Ahead(s, p),
         log'.relogged \/ \A s \in Steps, p \in 0 .. MaxItems : log'.done[s][p] # log.done[s][p] =>
           main'.try = main.try /\ Each(s) # "parallel" /\ Ahead(s, p) /\ ~Ahead(s, p)',
         KeptOnce', Completed', GotDone',
         \A s \in Steps : \/ results'[s] \in {results[s], NoResult} \/ log'.relogged
                         \/ Fits(s, results[s])'
  PROVE  IInv'
<1>1. main'.try \in {0, 1} /\ main.try \in {0, 1} /\ Tries = {0, 1} /\ Steps' = Steps
      /\ \A t \in Tries : \A r \in Team(t) : runner'[r] = runner[r]
  <2>1. main' \in MainType' /\ Tries = {0, 1} /\ main.try \in {0, 1} /\ TypeOK
    BY Opened DEF IInv, TypesOK, TypeOK
  <2>2. main'.try \in Tries
    BY <2>1 DEF MainType
  <2>3. \A t \in Tries : \A r \in Team(t) : runner'[r] = runner[r]
    BY <2>1, Teams
  <2> QED
    BY <2>1, <2>2, <2>3 DEF Steps
<1>2. /\ TeamsOK'
      /\ \A t \in Tries, s \in Steps, p \in 0 .. MaxItems : Chance(t, s, p)' => Chance(t, s, p)
  BY <1>1, TeamsStay DEF IInv
<1>3. ASSUME ~log'.relogged, NEW s \in Steps, NEW p \in 0 .. MaxItems, log'.done[s][p] # log.done[s][p]
      PROVE  Chance(main.try, s, p) /\ ~Chance(main.try, s, p)'
  <2>1. PICK t \in Tries : t = main.try
    BY <1>1
  <2>2. main'.try = t /\ Each(s) # "parallel" /\ Ahead(s, p) /\ ~Ahead(s, p)' /\ ~(t > t)
    BY <1>1, <1>3, <2>1
  <2>3. \A r \in Team(t) : ~(Works(r)' /\ runner'[r].step = s)
    BY <1>1, <2>2 DEF IInv, TypesOK, TeamsOK, TeamOK, Works
  <2>4. Chance(t, s, p) /\ ~Chance(t, s, p)'
    BY <2>1, <2>2, <2>3 DEF Chance, Works
  <2>5. ~(main'.try > main'.try) /\ main'.try = main.try
    BY <1>1, <2>1, <2>2
  <2> QED
    BY <2>1, <2>2, <2>3, <2>4, <2>5 DEF Chance, Works
<1>4. TriesBound'
  <2>0. CASE log'.relogged
    BY <2>0 DEF TriesBound
  <2>1. ASSUME ~log'.relogged PROVE \A s \in Steps, p \in 0 .. MaxItems :
           \/ log'.done[s][p] = log.done[s][p]
           \/ /\ log'.done[s][p] = log.done[s][p] + 1
              /\ \E t \in Tries : Chance(t, s, p) /\ ~Chance(t, s, p)'
    <3> SUFFICES ASSUME NEW s \in Steps, NEW p \in 0 .. MaxItems, log'.done[s][p] # log.done[s][p]
                 PROVE  /\ log'.done[s][p] = log.done[s][p] + 1
                        /\ \E t \in Tries : Chance(t, s, p) /\ ~Chance(t, s, p)'
      OBVIOUS
    <3>1. PICK t \in Tries : t = main.try
      BY <1>1
    <3>2. main'.try = main.try
      BY <2>1
    <3>3. Chance(t, s, p) /\ ~Chance(t, s, p)'
      BY <1>3, <2>1, <3>1, <3>2 DEF Chance
    <3> QED
      BY <3>3 DEF Grown
  <2> QED
    BY <1>2, <2>0, <2>1, TallyStays DEF Grown
<1>5. CollectOK'
  BY DEF CollectOK
<1>6. ResultsInOrder'
  BY FitsStay
<1> QED
  BY <1>2, <1>4, <1>5, <1>6 DEF IInv, TypesOK

\* A step that stores and logs nothing.
LEMMA MainStep ==
  ASSUME IInv, UNCHANGED <<op, live, inner>>, main' \in MainType, runner' \in [Runners -> RunnerType],
         \A r \in Runners \ {Main} : runner'[r] = runner[r],
         MainOK', main'.pc # "collect", main.try <= main'.try,
         main'.try = main.try => \A s \in Steps, p \in 0 .. MaxItems : Ahead(s, p)' => Ahead(s, p),
         \A s \in Steps, p \in 0 .. MaxItems : AtHand(s, p)' => AtHand(s, p) \/ results[s] = NoResult \/ ~Kept(s),
         Completed', GotDone'
  PROVE  IInv'
<1>1. /\ op' = op /\ queue' = queue /\ results' = results /\ log' = log /\ stored' = stored /\ auth' = auth
      /\ answers' = answers /\ live' = live
  BY DEF inner
<1>2. TypeOK'
  BY <1>1 DEF IInv, TypesOK, TypeOK, Steps
<1>3. Grown
  BY <1>1 DEF Grown
<1>4. KeptOnce'
  BY <1>1, <1>2, KeptStays
<1> QED
  BY <1>1, <1>2, <1>3, <1>4, LoopStep

LEMMA Failing ==
  ASSUME IInv, FailTry, UNCHANGED <<op, live, inner>>, runner' \in [Runners -> RunnerType],
         \A r \in Runners \ {Main} : runner'[r] = runner[r], runner'[Main].pc = "idle"
  PROVE  IInv'
<1>1. TypeOK /\ main'.pc \in {"start", "failed"} /\ main' \in MainType /\ main'.try = 1 /\ main.try \in {0, 1}
      /\ (main'.try = main.try => main'.pc = "failed")
  BY FailShape, Opened DEF IInv, TypesOK
<1>2. /\ op' = op /\ results' = results /\ log' = log
  BY DEF inner
<1>3. MainOK'
  BY <1>1 DEF MainOK, InList, GoesOn
<1>4. \A s, p : AtHand(s, p)' = FALSE /\ (main'.try = main.try => ~Ahead(s, p)')
  BY <1>1 DEF AtHand, Ahead, InList
<1>5. Completed'
  BY <1>1, <1>2 DEF Completed, IInv, Strict, Complete, Seen, Lists, Logins, RetriesItems, Steps, Each, Size
<1>6. GotDone'
  BY <1>1 DEF GotDone, InList
<1> QED
  BY <1>1, <1>3, <1>4, <1>5, <1>6, MainStep

\* The call has no item of its own unless it says so.
LEMMA Alone ==
  ASSUME IInv, main.pc # "call"
  PROVE  /\ runner \in [Runners -> RunnerType] /\ runner[Main].pc = "idle"
         /\ \A r \in Runners \ {Main} : runner[r] = runner[r]
  BY DEF IInv, TypesOK, TypeOK, MainOK

LEMMA QuitKeeps ==
  ASSUME IInv,
         \/ NoDatabase \/ BadCondition \/ SelfFix \/ LoginRefused \/ RepeatFails
         \/ ExecuteItemFails \/ EndedAtItem \/ StopCollecting \/ (ExecuteFails /\ FailTry) \/ (Poll /\ FailTry)
  PROVE  IInv'
<1>1. FailTry /\ UNCHANGED <<op, live, inner, runner>> /\ main.pc # "call"
  BY DEF NoDatabase, BadCondition, SelfFix, LoginRefused, RepeatFails, ExecuteItemFails, EndedAtItem,
         StopCollecting, ExecuteFails, Poll, inner, AtStep, AtItem
<1> QED
  BY <1>1, Alone, Failing

\* The fields of main and of op that do not change with a step.
LEMMA Constants ==
  ASSUME op' = op
  PROVE  /\ Steps' = Steps /\ Logins' = Logins /\ RetriesItems' = RetriesItems /\ KeepsResults' = KeepsResults
         /\ Strict' = Strict /\ \A s : Each(s)' = Each(s) /\ Size(s)' = Size(s) /\ Kept(s)' = Kept(s)
  BY DEF Steps, Logins, RetriesItems, KeepsResults, Strict, Lists, Each, Size, Kept

\* Completed when nothing is stored or logged, and the loop goes on to the
\* next step or stays where it is.
LEMMA CompletedStays ==
  ASSUME IInv, op' = op, UNCHANGED <<results, log>>,
         \/ main'.pc \in {"start", "failed"} \/ main'.step <= main.step
         \/ (Strict /\ main.step \in Steps => Complete(main.step)) /\ main'.step = main.step + 1,
         main'.pc \notin {"start", "failed"} => main.pc \notin {"start", "failed"},
         main'.step \in Nat,
         main'.pc = "item" =>
           /\ main'.step = main.step /\ Each(main.step) = "sequential"
           /\ RetriesItems \/ main'.item = 1 \/ (main.pc = "item" /\ main'.item = main.item)
  PROVE  Completed'
<1>1. /\ Steps' = Steps /\ Strict' = Strict /\ main.step \in Nat /\ \A s \in Steps : s \in Nat
      /\ \A s : Complete(s)' = Complete(s)
      /\ \A s, p : Seen(s, p)' = Seen(s, p)
  BY Opened, Constants DEF IInv, TypesOK, Complete, Seen, Each, Size
<1>2. SUFFICES ASSUME Strict, NEW s \in Steps
      PROVE  /\ results'[s] # NoResult => Complete(s)
             /\ main'.pc \notin {"start", "failed"} /\ s < main'.step => Complete(s)
             /\ main'.pc = "item" /\ main'.step = s => \A p \in 1 .. main'.item - 1 : Seen(s, p)
  BY <1>1 DEF Completed
<1>3. results'[s] # NoResult => Complete(s)
  BY <1>2 DEF IInv, Completed
<1>4. ASSUME main'.pc \notin {"start", "failed"}, s < main'.step PROVE Complete(s)
  <2>1. CASE s < main.step
    BY <1>2, <1>4, <2>1 DEF IInv, Completed
  <2>2. CASE ~(s < main.step)
    <3>1. s = main.step
      BY <1>1, <1>4, <2>2
    <3> QED
      BY <1>1, <1>2, <1>4, <2>2, <3>1
  <2> QED
    BY <2>1, <2>2
<1>5. ASSUME main'.pc = "item", main'.step = s, NEW p \in 1 .. main'.item - 1 PROVE Seen(s, p)
  <2>1. ~RetriesItems \/ Each(s) # "sequential"
    BY <1>2 DEF Strict, Lists, Each
  <2>2. CASE RetriesItems
    BY <1>5, <2>1, <2>2
  <2>3. CASE main'.item = 1
    BY <1>5, <2>3
  <2> QED
    BY <1>2, <1>5, <2>2, <2>3 DEF IInv, Completed
<1> QED
  BY <1>3, <1>4, <1>5

\* Steps of the loop that only move it.
LEMMA MovesKeep ==
  ASSUME IInv, Succeed \/ Repeated \/ TakeStep \/ StartList \/ (Poll /\ ~FailTry) \/ (ExecuteFails /\ ~FailTry)
  PROVE  IInv'
<1>0. main.pc # "call" /\ UNCHANGED <<op, live, inner, runner>>
  BY DEF Succeed, Repeated, TakeStep, StartList, Poll, ExecuteFails, AtStep
<1>1. /\ op' = op /\ runner' = runner /\ results' = results /\ log' = log /\ runner[Main].pc = "idle"
      /\ runner \in [Runners -> RunnerType]
  BY <1>0, Alone DEF inner
<1>2. /\ TypeOK /\ MainOK /\ main \in MainType /\ main.step \in Nat /\ main.item \in Nat /\ main.got \in Seq(0 .. MaxItems)
      /\ main.try \in Nat
      /\ Steps = 1 .. Len(op.steps) /\ Len(op.steps) \in Nat
      /\ \A s \in Steps : Size(s) \in 0 .. MaxItems /\ Each(s) \in {"no", "parallel", "sequential"}
  BY Opened DEF IInv, TypesOK
<1>3. /\ main'.step = main.step /\ main'.try = main.try /\ main' \in MainType
      /\ \/ main.pc \in {"step", "relogin"} /\ main'.pc = "succeeded" /\ (Logins = {} => main.step > Len(op.steps)) /\ main.step >= 1
         \/ /\ main.pc = "step" /\ main.step \in Steps /\ (Step.indexed => results[main.step] = NoResult)
            /\ main'.pc = IF Each(main.step) = "no" THEN "execute" ELSE "list"
         \/ /\ main.pc = "list" /\ main'.pc = "item" /\ main'.item = 1 /\ main'.got = <<>>
            /\ Each(main.step) = "sequential"
         \/ main.pc = "poll" /\ main'.pc = "item" /\ main'.item = main.item + 1 /\ main'.got = main.got
         \/ main.pc = "execute" /\ main'.pc = "fix"
  <2>1. CASE Succeed
    BY <1>2, <2>1 DEF Succeed, MainType, MainOK
  <2>2. CASE Repeated
    BY <1>2, <2>2 DEF Repeated, MainType, MainOK
  <2>3. CASE TakeStep
    BY <1>2, <2>3 DEF TakeStep, AtStep, HasResult, Step, MainType, MainOK, Each
  <2>4. CASE StartList
    <3>1. <<>> \in Seq(0 .. MaxItems)
      OBVIOUS
    <3>2. main.pc = "list" /\ Each(main.step) = "sequential" /\ main' = [main EXCEPT !.pc = "item", !.item = 1, !.got = <<>>]
      BY <2>4 DEF StartList, Step, Each
    <3>3. main' \in MainType
      BY <1>2, <3>1, <3>2 DEF MainType
    <3> QED
      BY <1>2, <3>2, <3>3 DEF MainType
  <2>5. CASE Poll /\ ~FailTry
    <3>1. main.pc = "poll" /\ main' = [main EXCEPT !.pc = "item", !.item = main.item + 1]
      BY <2>5 DEF Poll
    <3>2. main.item + 1 \in Nat
      BY <1>2
    <3>3. main' \in MainType
      BY <1>2, <3>1, <3>2 DEF MainType
    <3> QED
      BY <1>2, <3>1, <3>3 DEF MainType
  <2>6. CASE ExecuteFails /\ ~FailTry
    BY <1>2, <2>6 DEF ExecuteFails, MainType
  <2> QED
    BY <2>1, <2>2, <2>3, <2>4, <2>5, <2>6
<1>4. MainOK'
  <2>1. /\ Steps' = Steps /\ Logins' = Logins /\ RetriesItems' = RetriesItems
        /\ \A s : Each(s)' = Each(s) /\ Size(s)' = Size(s)
    BY <1>1, Constants
  <2>2. Step' = Step
    BY <1>1, <1>3 DEF Step
  <2> QED
    BY <1>1, <1>2, <1>3, <2>1, <2>2 DEF MainOK, InList, GoesOn
<1>5. main'.try = main.try => \A s \in Steps, p \in 0 .. MaxItems : Ahead(s, p)' => Ahead(s, p)
  <2>1. \A s \in Steps, p \in 0 .. MaxItems : s \in Nat /\ p \in Nat
    BY <1>2
  <2> QED
    BY <1>2, <1>3, <2>1 DEF Ahead, InList, MainOK
<1>6. \A s \in Steps, p \in 0 .. MaxItems : AtHand(s, p)' => AtHand(s, p) \/ results[s] = NoResult \/ ~Kept(s)
  BY <1>2, <1>3 DEF AtHand, Ahead, InList, MainOK, Kept, Step
<1>7. Completed'
  <2>1. main'.pc = "item" => /\ Each(main.step) = "sequential"
                             /\ RetriesItems \/ main'.item = 1
    BY <1>2, <1>3 DEF MainOK, InList
  <2>2. main.pc \notin {"start", "failed"}
    BY DEF Succeed, Repeated, TakeStep, AtStep, StartList, Poll, ExecuteFails
  <2>3. main'.step <= main.step
    BY <1>2, <1>3
  <2> QED
    BY <1>1, <1>2, <1>3, <2>1, <2>2, <2>3, CompletedStays
<1>8. GotDone'
  <2>1. CASE main.pc = "poll"
    <3>1. main.got \in Seq(0 .. MaxItems) /\ \A i \in DOMAIN main.got : main.got[i] \in 0 .. MaxItems
      BY <1>2, Elements
    <3> QED
      BY <1>1, <1>2, <1>3, <2>1, <3>1, SMTT(20) DEF GotDone, IInv, InList, Increasing
  <2>2. CASE main.pc = "list"
    <3>1. main'.got = <<>>
      BY <1>3, <2>2
    <3>2. Len(<<>>) = 0 /\ DOMAIN <<>> = {}
      OBVIOUS
    <3> QED
      BY <3>1, <3>2 DEF GotDone, Increasing
  <2>3. CASE main.pc # "poll" /\ main.pc # "list"
    BY <1>1, <1>3, <2>3 DEF GotDone, InList
  <2> QED
    BY <2>1, <2>2, <2>3
<1>9. main'.pc # "collect" /\ main.try <= main'.try
  BY <1>2, <1>3
<1> QED
  BY <1>0, <1>1, <1>3, <1>4, <1>5, <1>6, <1>7, <1>8, <1>9, MainStep

LEMMA SkipDoneKeeps ==
  ASSUME IInv, SkipDone
  PROVE  IInv'
<1>1. /\ main.pc = "step" /\ main.step \in Steps /\ NextStep /\ UNCHANGED <<op, live, inner, runner>>
      /\ runner' = runner /\ op' = op /\ results' = results /\ log' = log
      /\ runner[Main].pc = "idle" /\ runner \in [Runners -> RunnerType] /\ TypeOK
      /\ main.step \in Nat /\ main.try \in Nat /\ Steps = 1 .. Len(op.steps) /\ Len(op.steps) \in Nat
  <2>1. main.pc = "step" /\ main.step <= Len(op.steps) /\ main.step >= 1
    BY DEF SkipDone, AtStep, IInv, TypesOK, MainOK
  <2> QED
    BY <2>1, Alone, Opened DEF SkipDone, inner, IInv, TypesOK
<1>2. /\ main'.pc = "step" /\ main'.step = main.step + 1 /\ main'.try = main.try /\ main' \in MainType
      /\ main'.try = main.try
  BY <1>1, NextShape
<1>3. MainOK'
  BY <1>1, <1>2 DEF MainOK, InList, GoesOn
<1>4. \A s \in Steps, p \in 0 .. MaxItems : ~AtHand(s, p)' /\ (Ahead(s, p)' => Ahead(s, p))
  BY <1>1, <1>2 DEF AtHand, Ahead, InList
<1>5. Strict => Complete(main.step)
  BY <1>1 DEF SkipDone, HasResult, LoggedIn, Step, Strict, Logins, IInv, Completed
<1>6. Completed'
  BY <1>1, <1>2, <1>5, CompletedStays
<1>7. GotDone' /\ main'.pc # "collect" /\ main.try <= main'.try
  BY <1>1, <1>2 DEF GotDone, InList
<1> QED
  BY <1>1, <1>2, <1>3, <1>4, <1>6, <1>7, MainStep

LEMMA CallItemKeeps ==
  ASSUME IInv, CallItem
  PROVE  IInv'
<1>1. /\ main.pc = "item" /\ main.item <= Size(main.step) /\ RetriesItems
      /\ UNCHANGED <<op, live, inner>> /\ op' = op /\ results' = results /\ log' = log
      /\ main' = [main EXCEPT !.pc = "call"]
      /\ runner' = [runner EXCEPT ![Main] = [Idle EXCEPT !.pc = "call", !.step = main.step, !.item = main.item]]
  BY DEF CallItem, AtItem, Step, Size, inner
<1>2. /\ TypeOK /\ MainOK /\ main \in MainType /\ main.step \in Steps /\ main.step \in Nat /\ main.item \in Nat
      /\ main.try \in Nat /\ main.item >= 1 /\ Each(main.step) = "sequential"
      /\ MaxItems \in Nat /\ Size(main.step) \in 0 .. MaxItems /\ main.got \in Seq(0 .. MaxItems)
      /\ runner \in [Runners -> RunnerType] /\ Main \in Runners /\ MaxItemRetries \in Nat /\ MaxAuthRetries \in Nat
  <2>1. TypeOK /\ MainOK
    BY DEF IInv, TypesOK
  <2>2. main.step \in Steps /\ main.item \in 1 .. Size(main.step) + 1 /\ Each(main.step) = "sequential"
    BY <1>1, <2>1 DEF MainOK, InList
  <2>3. main \in MainType /\ main.step \in Nat /\ main.item \in Nat /\ main.try \in Nat
        /\ MaxItems \in Nat /\ main.got \in Seq(0 .. MaxItems) /\ Size(main.step) \in 0 .. MaxItems
        /\ MaxItemRetries \in Nat /\ MaxAuthRetries \in Nat /\ Main \in Runners
    BY <2>1, <2>2, Opened
  <2>4. runner \in [Runners -> RunnerType]
    BY <2>1 DEF TypeOK
  <2> QED
    BY <2>1, <2>2, <2>3, <2>4
<1>3. PICK fresh : fresh = [Idle EXCEPT !.pc = "call", !.step = main.step, !.item = main.item]
  OBVIOUS
<1>4. fresh \in RunnerType /\ fresh.pc = "call" /\ fresh.step = main.step /\ fresh.item = main.item
  <2>1. main.item \in 0 .. MaxItems /\ 0 \in 0 .. MaxItemRetries /\ 0 \in 0 .. MaxAuthRetries
    BY <1>1, <1>2
  <2>2. fresh = [pc |-> "call", step |-> main.step, item |-> main.item, try |-> 0, at |-> 0, seen |-> 0]
    BY <1>3 DEF Idle
  <2> QED
    BY <1>2, <2>1, <2>2 DEF RunnerType
<1>5. /\ runner' \in [Runners -> RunnerType] /\ runner'[Main] = fresh
      /\ \A r \in Runners \ {Main} : runner'[r] = runner[r]
  BY <1>1, <1>2, <1>3, <1>4
<1>6. /\ main' \in MainType /\ main'.pc = "call" /\ main'.step = main.step /\ main'.item = main.item
      /\ main'.got = main.got /\ main'.try = main.try
  BY <1>1, <1>2 DEF MainType
<1>7. MainOK'
  <2>1. /\ Steps' = Steps /\ RetriesItems' = RetriesItems
        /\ \A s : Each(s)' = Each(s) /\ Size(s)' = Size(s)
    BY <1>1, Constants
  <2>2. Step' = Step
    BY <1>1, <1>6 DEF Step
  <2> QED
    BY <1>1, <1>2, <1>4, <1>5, <1>6, <2>1, <2>2 DEF MainOK, InList, GoesOn, Busy
<1>8. \A s \in Steps, p \in 0 .. MaxItems : Ahead(s, p)' => Ahead(s, p)
  BY <1>1, <1>6 DEF Ahead, InList
<1>12. \A s \in Steps, p \in 0 .. MaxItems : AtHand(s, p)' => AtHand(s, p) \/ results[s] = NoResult \/ ~Kept(s)
  BY <1>1, <1>6 DEF Ahead, AtHand, InList
<1>9. Completed'
  BY <1>1, <1>2, <1>6, CompletedStays
<1>10. GotDone' /\ main'.pc # "collect" /\ main.try <= main'.try
  BY <1>1, <1>2, <1>6 DEF GotDone, InList, Increasing, IInv
<1>11. UNCHANGED <<op, live, inner>>
  BY <1>1
<1> QED
  BY <1>5, <1>6, <1>7, <1>8, <1>9, <1>10, <1>11, <1>12, MainStep

LEMMA StartTryKeeps ==
  ASSUME IInv, StartTry
  PROVE  IInv'
<1>1. /\ main.pc = "start" /\ op' = op /\ runner' = runner /\ queue' = queue /\ log' = log
      /\ answers' = answers /\ stored' = stored /\ live' = live
      /\ main' = [pc |-> "step", try |-> main.try, step |-> 1, item |-> 0, at |-> 0,
                  got |-> <<>>, due |-> 0, wrong |-> FALSE, open |-> FALSE]
      /\ results' = IF KeepsResults THEN results ELSE [s \in Steps |-> NoResult]
  BY DEF StartTry
<1>2. /\ TypeOK /\ main \in MainType /\ main.try \in {0, 1} /\ Tries = {0, 1} /\ MaxItems \in Nat
      /\ Steps = 1 .. Len(op.steps) /\ runner[Main].pc = "idle"
  BY <1>1, Opened, Alone DEF IInv, TypesOK
<1>3. main' \in MainType
  <2>1. <<>> \in Seq(0 .. MaxItems)
    OBVIOUS
  <2> QED
    BY <1>1, <1>2, <2>1 DEF MainType
<1>4. TypeOK'
  <2>1. PICK loaded : loaded = IF Logins # {} THEN stored \ (IF op.token THEN {} ELSE {"token"}) ELSE {}
    OBVIOUS
  <2>2. loaded \in SUBSET Credentials /\ auth' = [auth EXCEPT !.loaded = loaded]
    BY <1>2, <2>1 DEF StartTry, TypeOK
  <2>3. auth' \in [loaded : SUBSET Credentials, retries : [Tries -> 0 .. MaxAuthRetries]]
    BY <1>2, <2>2 DEF TypeOK
  <2>4. results' \in [Steps -> Seq(0 .. MaxItems) \cup {NoResult}]
    BY <1>1, <1>2 DEF TypeOK
  <2> QED
    BY <1>1, <1>2, <1>3, <2>3, <2>4 DEF TypeOK, Steps
<1>5. MainOK'
  BY <1>1, <1>2 DEF MainOK, InList, GoesOn
<1>6. Grown /\ \A s \in Steps, p \in 0 .. MaxItems : ~AtHand(s, p)' /\ Ahead(s, p)
  BY <1>1 DEF Grown, AtHand, Ahead, InList
<1>7. KeptOnce'
  BY <1>1, <1>4, <1>6, KeptStays
<1>8. Completed'
  <2>1. \A s : Complete(s)' = Complete(s)
    BY <1>1 DEF Complete, Seen, Each, Size
  <2>2. main'.pc = "step" /\ main'.step = 1 /\ \A s \in Steps : ~(s < 1)
    BY <1>1, <1>2
  <2>3. Strict => \A s \in Steps : results'[s] # NoResult => Complete(s)
    BY <1>1 DEF Completed, IInv
  <2> QED
    BY <1>1, <2>1, <2>2, <2>3, Constants DEF Completed
<1>9. GotDone' /\ main'.pc # "collect" /\ main'.try = main.try /\ main.try <= main.try
  BY <1>1, <1>2 DEF GotDone, InList
<1>10. \A s \in Steps : results'[s] \in {results[s], NoResult}
  BY <1>1
<1> QED
  BY <1>1, <1>4, <1>5, <1>6, <1>7, <1>8, <1>9, <1>10, LoopStep

LEMMA LoginAgainKeeps ==
  ASSUME IInv, LoginAgain
  PROVE  IInv'
<1>1. /\ main.pc = "execute" /\ op' = op /\ runner' = runner /\ queue' = queue /\ results' = results
      /\ answers' = answers /\ live' = live /\ log' = [log EXCEPT !.relogged = TRUE]
      /\ stored' = stored \ ({"cookies"} \cup (IF op.token THEN {"token"} ELSE {}))
      /\ main' = [main EXCEPT !.pc = "relogin", !.at = LoginStep] /\ Logins # {}
  BY DEF LoginAgain, CountRelogin, NeedsLogin
<1>2. /\ TypeOK /\ MainOK /\ main \in MainType /\ main.try \in {0, 1} /\ Tries = {0, 1} /\ MaxItems \in Nat
      /\ Steps = 1 .. Len(op.steps) /\ runner[Main].pc = "idle" /\ MaxAuthRetries \in Nat
      /\ LoginStep \in Steps /\ LoginStep \in Nat /\ LoginStep >= 1
  BY <1>1, Opened, Alone, LeastLogin DEF IInv, TypesOK
<1>3. /\ main' \in MainType /\ main'.pc = "relogin" /\ main'.step = main.step /\ main'.at = LoginStep
      /\ main'.try = main.try
  BY <1>1, <1>2 DEF MainType
<1>4. log' \in [done : [Steps -> [0 .. MaxItems -> Nat]], excused : [Steps -> SUBSET (0 .. MaxItems)],
                relogged : BOOLEAN, panicked : BOOLEAN]
      /\ log'.done = log.done /\ log'.excused = log.excused /\ log'.relogged
  BY <1>1, <1>2 DEF TypeOK
<1>5. TypeOK'
  <2>1. PICK n : n = auth.retries[main.try] + 1
    OBVIOUS
  <2>2. n \in 0 .. MaxAuthRetries
    BY <1>2, <2>1 DEF LoginAgain, TypeOK
  <2>3. auth' = [loaded |-> {}, retries |-> [auth.retries EXCEPT ![main.try] = n]]
    BY <2>1 DEF LoginAgain
  <2>4. auth' \in [loaded : SUBSET Credentials, retries : [Tries -> 0 .. MaxAuthRetries]]
    BY <1>2, <2>2, <2>3 DEF TypeOK
  <2> QED
    BY <1>1, <1>2, <1>3, <1>4, <2>4 DEF TypeOK, Steps
<1>6. MainOK'
  BY <1>1, <1>2, <1>3, <1>4, Constants DEF MainOK, InList, GoesOn
<1>7. Grown /\ KeptOnce' /\ Completed' /\ GotDone'
  BY <1>1, <1>3, <1>4, Constants DEF Grown, KeptOnce, Completed, Strict, GotDone, InList
<1>8. main.try <= main.try /\ main'.pc # "collect" /\ \A s \in Steps, p \in 0 .. MaxItems : ~Ahead(s, p)'
  BY <1>2, <1>3 DEF Ahead, InList
<1> QED
  BY <1>1, <1>3, <1>4, <1>5, <1>6, <1>7, <1>8, LoopStep

LEMMA CompleteStays ==
  ASSUME TypeOK, op' = op, Grown, NEW s \in Steps
  PROVE  /\ \A p \in 0 .. MaxItems : Seen(s, p) => Seen(s, p)'
         /\ Complete(s) => Complete(s)'
<1>1. ASSUME NEW p \in 0 .. MaxItems, Seen(s, p) PROVE Seen(s, p)'
  <2>1. log.done[s] \in [0 .. MaxItems -> Nat]
    BY DEF TypeOK
  <2>2. log.done[s][p] \in Nat
    BY <2>1
  <2> QED
    BY <1>1, <2>2 DEF Seen, Grown
<1>2. MaxItems \in Nat /\ Size(s) \in 0 .. MaxItems
  BY Opened
<1>3. \A p \in IF Each(s) = "no" THEN {0} ELSE 1 .. Size(s) : p \in 0 .. MaxItems
  BY <1>2
<1> QED
  BY <1>1, <1>3, Constants DEF Complete

\* The loop leaves a step: what it stored and logged is about that step, and
\* the step is complete.
LEMMA Leaving ==
  ASSUME NEW at \in Steps, IInv, op' = op, runner' = runner, queue' = queue, answers' = answers, auth' = auth, live' = live,
         stored' \subseteq Credentials,
         main' \in MainType, main'.pc = "step", main'.step = at + 1, main'.try = main.try,
         main.pc \in {"step", "execute", "list", "collect", "item", "after", "poll"}, main.step = at,
         log' \in [done : [Steps -> [0 .. MaxItems -> Nat]], excused : [Steps -> SUBSET (0 .. MaxItems)],
                   relogged : BOOLEAN, panicked : BOOLEAN],
         results' \in [Steps -> Seq(0 .. MaxItems) \cup {NoResult}], Grown,
         \A s \in Steps \ {at} : results'[s] = results[s],
         \A s \in Steps, p \in 0 .. MaxItems : log'.done[s][p] # log.done[s][p] =>
           s = at /\ main.pc = "execute" /\ (Kept(s) /\ KeepsResults => results'[s] # NoResult),
         results[at] # NoResult => results'[at] # NoResult,
         Strict => Complete(at)',
         results'[at] \in {results[at], NoResult} \/ Fits(at, results[at])'
  PROVE  IInv'
<1>1. /\ TypeOK /\ main \in MainType /\ main.step \in Nat /\ main.try \in {0, 1} /\ Steps = 1 .. Len(op.steps)
      /\ Len(op.steps) \in Nat /\ runner \in [Runners -> RunnerType] /\ runner[Main].pc = "idle" /\ MainOK
      /\ \A s \in Steps : s \in Nat
  BY Opened, Alone DEF IInv, TypesOK
<1>2. TypeOK'
  BY <1>1 DEF TypeOK, Steps
<1>3. MainOK'
  BY <1>1 DEF MainOK, InList, GoesOn
<1>4. \A s \in Steps, p \in 0 .. MaxItems : ~AtHand(s, p)' /\ (Ahead(s, p)' => Ahead(s, p))
  BY <1>1 DEF AtHand, Ahead, InList
<1>5. \A s \in Steps, p \in 0 .. MaxItems : log'.done[s][p] # log.done[s][p] =>
        Each(s) # "parallel" /\ Ahead(s, p) /\ ~Ahead(s, p)'
  BY <1>1 DEF Ahead, InList, MainOK
<1>6. KeptOnce'
  <2>1. SUFFICES ASSUME KeepsResults, NEW s \in Steps, NEW p \in 0 .. MaxItems, Kept(s)
        PROVE  \/ /\ log'.done[s][p] = log.done[s][p]
                  /\ results[s] # NoResult => results'[s] # NoResult
                  /\ AtHand(s, p)' => AtHand(s, p) \/ results[s] = NoResult
               \/ /\ log'.done[s][p] = log.done[s][p] + 1
                  /\ results[s] = NoResult \/ AtHand(s, p)
                  /\ results'[s] # NoResult /\ ~AtHand(s, p)'
    BY <1>2, KeptStays DEF Grown
  <2>2. CASE log'.done[s][p] = log.done[s][p]
    BY <1>4, <2>2
  <2>3. CASE log'.done[s][p] # log.done[s][p]
    <3>1. s = at /\ main.pc = "execute" /\ results'[s] # NoResult
      BY <2>1, <2>3
    <3>2. results[s] = NoResult
      BY <1>1, <2>1, <3>1 DEF MainOK, Kept, Step
    <3> QED
      BY <1>4, <2>3, <3>1, <3>2 DEF Grown
  <2> QED
    BY <2>2, <2>3
<1>7. Completed'
  <2>1. SUFFICES ASSUME Strict, NEW s \in Steps
        PROVE  (results'[s] # NoResult => Complete(s)') /\ (s < main'.step => Complete(s)')
    BY Constants DEF Completed
  <2>2. CASE s = at
    BY <2>1, <2>2
  <2>3. CASE s # at
    <3>1. Complete(s) => Complete(s)'
      BY <1>1, CompleteStays
    <3>2. s < main'.step => s < main.step
      BY <1>1, <2>3
    <3> QED
      BY <2>1, <2>3, <3>1, <3>2 DEF IInv, Completed
  <2> QED
    BY <2>2, <2>3
<1>8. GotDone'
  BY DEF GotDone, InList
<1>9. \A s \in Steps : results'[s] \in {results[s], NoResult} \/ Fits(s, results[s])'
  OBVIOUS
<1> QED
  BY <1>1, <1>2, <1>3, <1>4, <1>5, <1>6, <1>7, <1>8, <1>9, LoopStep

LEMMA EmptyList ==
  <<>> \in Seq(0 .. MaxItems) /\ <<>> # NoResult /\ Len(<<>>) = 0 /\ DOMAIN <<>> = {}
<1>1. <<>> \in Seq(Nat) /\ <<>> \in Seq(0 .. MaxItems) /\ Len(<<>>) = 0 /\ DOMAIN <<>> = {}
  OBVIOUS
<1>2. <<>> # NoResult
  BY <1>1, ConstantsAssumption, Zenon
<1> QED
  BY <1>1, <1>2

LEMMA SkipStepKeeps ==
  ASSUME IInv, SkipStep
  PROVE  IInv'
<1>1. PICK at : at = main.step
  OBVIOUS
<1>2. /\ main.pc = "step" /\ op' = op /\ runner' = runner /\ queue' = queue /\ answers' = answers
      /\ auth' = auth /\ live' = live /\ stored' = stored /\ NextStep /\ Excuse(at, 0 .. MaxItems)
      /\ at <= Len(op.steps)
      /\ results' = results \/ Store(at, <<>>)
  BY <1>1 DEF SkipStep, AtStep
<1>3. TypeOK /\ at \in Steps /\ stored' \subseteq Credentials /\ MaxItems \in Nat /\ Size(at) \in 0 .. MaxItems
  <2>1. TypeOK /\ main.step >= 1
    BY <1>2 DEF IInv, TypesOK, MainOK
  <2>2. stored \subseteq Credentials
    BY <2>1 DEF TypeOK
  <2>3. at \in Steps
    BY <1>1, <1>2, <2>1, Opened
  <2> QED
    BY <1>2, <2>1, <2>2, <2>3, Opened
<1>4. /\ log' \in [done : [Steps -> [0 .. MaxItems -> Nat]], excused : [Steps -> SUBSET (0 .. MaxItems)],
                   relogged : BOOLEAN, panicked : BOOLEAN]
      /\ log'.done = log.done /\ log'.relogged = log.relogged
      /\ log'.excused[at] = log.excused[at] \cup (0 .. MaxItems)
      /\ \A t \in Steps \ {at} : log'.excused[t] = log.excused[t]
  BY <1>2, <1>3, Excusing
<1>5. /\ results' \in [Steps -> Seq(0 .. MaxItems) \cup {NoResult}]
      /\ \A s \in Steps \ {at} : results'[s] = results[s]
      /\ results'[at] \in {results[at], <<>>}
  BY <1>2, <1>3, EmptyList, Storing DEF TypeOK
<1>6. Complete(at)'
  BY <1>3, <1>4, <1>2, Constants DEF Complete, Seen
<1>7. Grown
  <2>1. \A s \in Steps : log.excused[s] \subseteq log'.excused[s]
    BY <1>4
  <2> QED
    BY <1>4, <2>1 DEF Grown
<1>8. results'[at] = <<>> => Fits(at, results[at])'
  BY <1>3, <1>4, EmptyList DEF Fits, Increasing
<1> QED
  BY <1>1, <1>2, <1>3, <1>4, <1>5, <1>6, <1>7, <1>8, NextShape, EmptyList, Leaving

LEMMA ExecuteKeeps ==
  ASSUME IInv, Execute
  PROVE  IInv'
<1>1. PICK at : at = main.step
  OBVIOUS
<1>2. /\ main.pc = "execute" /\ op' = op /\ runner' = runner /\ queue' = queue /\ answers' = answers
      /\ auth' = auth /\ live' = live /\ Count(at, 0) /\ (stored' = stored \/ stored' = stored \cup {"token"})
      /\ Store(at, <<>>) \/ (op.kind = "desktop" /\ results' = results)
      /\ main' = [main EXCEPT !.pc = "step", !.step = @ + 1, !.open = op.session]
  BY <1>1 DEF Execute, KeepToken
<1>3. /\ TypeOK /\ at \in Steps /\ at \in Nat /\ main \in MainType /\ 0 \in 0 .. MaxItems /\ Each(at) = "no"
      /\ op \in OperationType /\ op.steps[at].indexed \in BOOLEAN /\ stored' \subseteq Credentials
  <2>1. TypeOK /\ MainOK
    BY DEF IInv, TypesOK
  <2>2. at \in Steps /\ Each(at) = "no"
    BY <1>1, <1>2, <2>1 DEF MainOK
  <2>3. stored' \subseteq Credentials
    BY <1>2, <2>1 DEF TypeOK, Credentials
  <2>4. main \in MainType /\ at \in Nat /\ op.steps[at] \in StepType /\ op \in OperationType /\ MaxItems \in Nat
    BY <1>1, <2>1, <2>2, Opened
  <2> QED
    BY <2>1, <2>2, <2>3, <2>4 DEF StepType
<1>4. main' \in MainType /\ main'.pc = "step" /\ main'.step = at + 1 /\ main'.try = main.try
  <2>1. PICK session : session = op.session
    OBVIOUS
  <2>2. session \in BOOLEAN /\ at + 1 \in Nat
    BY <1>3, <2>1 DEF OperationType
  <2>3. main' = [main EXCEPT !.pc = "step", !.step = at + 1, !.open = session]
    BY <1>1, <1>2, <2>1
  <2> QED
    BY <1>3, <2>2, <2>3 DEF MainType
<1>5. /\ log' \in [done : [Steps -> [0 .. MaxItems -> Nat]], excused : [Steps -> SUBSET (0 .. MaxItems)],
                    relogged : BOOLEAN, panicked : BOOLEAN]
      /\ log'.done[at][0] = log.done[at][0] + 1 /\ log.done[at][0] \in Nat
      /\ \A t \in Steps, q \in 0 .. MaxItems : t # at \/ q # 0 => log'.done[t][q] = log.done[t][q]
      /\ log'.excused = log.excused /\ log'.relogged = log.relogged
  BY <1>2, <1>3, Counting
<1>6. /\ results' \in [Steps -> Seq(0 .. MaxItems) \cup {NoResult}]
      /\ \A s \in Steps \ {at} : results'[s] = results[s]
      /\ results'[at] \in {results[at], <<>>}
      /\ Kept(at) /\ KeepsResults => results'[at] # NoResult
  BY <1>2, <1>3, EmptyList, Storing DEF TypeOK, Kept, KeepsResults
<1>7. Complete(at)'
  BY <1>2, <1>3, <1>5, Constants DEF Complete, Seen
<1>8. Grown
  BY <1>5 DEF Grown
<1>9. results'[at] = <<>> => Fits(at, results[at])'
  BY <1>2, <1>3, EmptyList, Constants DEF Fits, Increasing, Lists, Each
<1>10. \A s \in Steps, p \in 0 .. MaxItems : log'.done[s][p] # log.done[s][p] =>
         s = at /\ main.pc = "execute" /\ (Kept(s) /\ KeepsResults => results'[s] # NoResult)
  BY <1>2, <1>5, <1>6
<1> QED
  BY <1>1, <1>2, <1>3, <1>4, <1>5, <1>6, <1>7, <1>8, <1>9, <1>10, EmptyList, Leaving

LEMMA EndListKeeps ==
  ASSUME IInv, EndList
  PROVE  IInv'
<1>1. PICK at : at = main.step
  OBVIOUS
<1>0. PICK got : got = main.got
  OBVIOUS
<1>2. /\ main.pc = "item" /\ op' = op /\ runner' = runner /\ queue' = queue /\ answers' = answers
      /\ auth' = auth /\ live' = live /\ stored' = stored /\ log' = log /\ NextStep /\ Store(at, got)
      /\ main.item > Size(at)
  BY <1>0, <1>1 DEF EndList, Size, Step
<1>3. /\ TypeOK /\ at \in Steps /\ at \in Nat /\ Each(at) = "sequential" /\ got \in Seq(0 .. MaxItems)
      /\ stored' \subseteq Credentials /\ main.item \in Nat /\ Size(at) \in 0 .. MaxItems /\ MaxItems \in Nat
  <2>1. TypeOK /\ at \in Steps /\ Each(at) = "sequential"
    BY <1>1, <1>2 DEF IInv, TypesOK, MainOK, InList
  <2>2. stored \subseteq Credentials
    BY <2>1 DEF TypeOK
  <2> QED
    BY <1>0, <1>1, <1>2, <2>1, <2>2, Opened
<1>4. /\ results' \in [Steps -> Seq(0 .. MaxItems) \cup {NoResult}]
      /\ \A s \in Steps \ {at} : results'[s] = results[s]
      /\ results'[at] \in {results[at], got} /\ (results[at] # NoResult => results'[at] # NoResult)
  BY <1>2, <1>3, Storing
<1>5. Strict => Complete(at)'
  <2>1. Strict => \A p \in 1 .. Size(at) : Seen(at, p)
    BY <1>1, <1>2, <1>3 DEF IInv, Completed
  <2> QED
    BY <1>2, <1>3, <2>1, Constants DEF Complete, Seen
<1>6. results'[at] = got => Fits(at, results[at])'
  <2>1. Increasing(got) /\ \A i \in DOMAIN got : log.done[at][got[i]] > 0
    BY <1>0, <1>1, <1>2 DEF IInv, GotDone, InList
  <2> QED
    BY <1>2, <1>3, <2>1, Constants DEF Fits, Increasing, Lists, Each
<1>7. Grown
  BY <1>2 DEF Grown
<1>8. log' \in [done : [Steps -> [0 .. MaxItems -> Nat]], excused : [Steps -> SUBSET (0 .. MaxItems)],
                relogged : BOOLEAN, panicked : BOOLEAN]
  BY <1>2, <1>3 DEF TypeOK
<1> QED
  BY <1>1, <1>2, <1>3, <1>4, <1>5, <1>6, <1>7, <1>8, NextShape, Leaving

LEMMA NoItemsKeeps ==
  ASSUME IInv, NoItems
  PROVE  IInv'
<1>1. PICK at : at = main.step
  OBVIOUS
<1>2. /\ main.pc = "list" /\ op' = op /\ runner' = runner /\ queue' = queue /\ answers' = answers
      /\ auth' = auth /\ live' = live /\ stored' = stored /\ Excuse(at, 1 .. Size(at))
      /\ \/ FailTry /\ results' = results
         \/ NextStep /\ (results' = results \/ Store(at, <<>>))
  BY <1>1 DEF NoItems, Items, Step, Size
<1>3. /\ TypeOK /\ at \in Steps /\ Each(at) # "no" /\ stored' \subseteq Credentials /\ MaxItems \in Nat
      /\ Size(at) \in 0 .. MaxItems /\ runner \in [Runners -> RunnerType] /\ runner[Main].pc = "idle"
  <2>1. TypeOK /\ at \in Steps /\ Each(at) # "no"
    BY <1>1, <1>2 DEF IInv, TypesOK, MainOK
  <2>2. stored \subseteq Credentials
    BY <2>1 DEF TypeOK
  <2> QED
    BY <1>2, <2>1, <2>2, Opened, Alone
<1>4. /\ log' \in [done : [Steps -> [0 .. MaxItems -> Nat]], excused : [Steps -> SUBSET (0 .. MaxItems)],
                   relogged : BOOLEAN, panicked : BOOLEAN]
      /\ log'.done = log.done /\ log'.relogged = log.relogged
      /\ log'.excused[at] = log.excused[at] \cup (1 .. Size(at))
      /\ \A t \in Steps \ {at} : log'.excused[t] = log.excused[t]
  <2>1. 1 .. Size(at) \in SUBSET (0 .. MaxItems)
    BY <1>3
  <2> QED
    BY <1>2, <1>3, <2>1, Excusing
<1>5. Grown
  <2>1. \A s \in Steps : log.excused[s] \subseteq log'.excused[s]
    BY <1>4
  <2> QED
    BY <1>4, <2>1 DEF Grown
<1>6. CASE FailTry /\ results' = results
  <2>1. /\ main' \in MainType /\ main'.pc \in {"start", "failed"} /\ main'.try = 1 /\ main.try \in {0, 1}
        /\ (main'.try = main.try => main'.pc = "failed")
    BY <1>3, <1>6, FailShape, Opened
  <2>2. TypeOK'
    BY <1>2, <1>3, <1>4, <1>6, <2>1 DEF TypeOK, Steps
  <2>3. MainOK'
    BY <1>2, <1>3, <2>1 DEF MainOK, InList, GoesOn
  <2>4. \A s \in Steps, p \in 0 .. MaxItems : ~AtHand(s, p)'
    BY <2>1 DEF AtHand, InList
  <2>5. main'.try = main.try => \A s \in Steps, p \in 0 .. MaxItems : Ahead(s, p)' => Ahead(s, p)
    BY <2>1 DEF Ahead, InList
  <2>6. KeptOnce'
    BY <1>2, <1>4, <1>6, <2>2, <2>4, KeptStays
  <2>7. Completed'
    <3>1. \A s \in Steps : Complete(s) => Complete(s)'
      BY <1>2, <1>3, <1>5, CompleteStays
    <3> QED
      BY <1>2, <1>6, <2>1, <3>1, Constants DEF IInv, Completed
  <2>8. GotDone'
    BY <2>1 DEF GotDone, InList
  <2>9. main.try <= main'.try
    BY <2>1
  <2> QED
    BY <1>2, <1>4, <1>5, <1>6, <2>1, <2>2, <2>3, <2>5, <2>6, <2>7, <2>8, <2>9, LoopStep
<1>7. CASE NextStep /\ (results' = results \/ Store(at, <<>>))
  <2>1. /\ results' \in [Steps -> Seq(0 .. MaxItems) \cup {NoResult}]
        /\ \A s \in Steps \ {at} : results'[s] = results[s]
        /\ results'[at] \in {results[at], <<>>}
    BY <1>3, <1>7, EmptyList, Storing DEF TypeOK
  <2>2. Complete(at)'
    BY <1>2, <1>3, <1>4, Constants DEF Complete, Seen
  <2>3. results'[at] = <<>> => Fits(at, results[at])'
    <3>1. ASSUME Size(at) # 0 PROVE log'.excused[at] # {}
      <4>1. 1 \in 1 .. Size(at)
        BY <1>3, <3>1
      <4> QED
        BY <1>4, <4>1
    <3> QED
      BY <1>2, <3>1, EmptyList, Constants DEF Fits, Increasing
  <2> QED
    BY <1>1, <1>2, <1>3, <1>4, <1>5, <1>7, <2>1, <2>2, <2>3, NextShape, EmptyList, Leaving
<1> QED
  BY <1>2, <1>6, <1>7

LEMMA AfterItemKeeps ==
  ASSUME IInv, AfterItem
  PROVE  IInv'
<1>1. PICK at : at = main.step
  OBVIOUS
<1>2. PICK got : got = main.got
  OBVIOUS
<1>3. /\ main.pc = "after" /\ op' = op /\ runner' = runner /\ queue' = queue /\ answers' = answers
      /\ auth' = auth /\ live' = live /\ stored' = stored
      /\ \/ Excuse(at, main.item + 1 .. Size(at)) /\ Store(at, got) /\ NextStep
         \/ /\ main' = [main EXCEPT !.pc = IF Step.waitFor THEN "poll" ELSE "item",
                                   !.item = IF Step.waitFor THEN main.item ELSE main.item + 1]
            /\ results' = results /\ log' = log
  BY <1>1, <1>2 DEF AfterItem, Size, Step
<1>4. /\ TypeOK /\ MainOK /\ at \in Steps /\ at \in Nat /\ Each(at) = "sequential" /\ got \in Seq(0 .. MaxItems)
      /\ stored' \subseteq Credentials /\ main.item \in Nat /\ Size(at) \in 0 .. MaxItems /\ MaxItems \in Nat
      /\ RetriesItems /\ main.item <= Size(at) /\ main.item >= 1
      /\ runner \in [Runners -> RunnerType] /\ runner[Main].pc = "idle" /\ main \in MainType /\ main.try \in Nat
  <2>1. TypeOK /\ MainOK
    BY DEF IInv, TypesOK
  <2>2. at \in Steps /\ Each(at) = "sequential" /\ RetriesItems /\ main.item <= Size(at)
        /\ main.item \in 1 .. Size(at) + 1
    BY <1>1, <1>3, <2>1 DEF MainOK, InList
  <2>3. stored \subseteq Credentials
    BY <2>1 DEF TypeOK
  <2>4. at \in Nat /\ got \in Seq(0 .. MaxItems) /\ main.item \in Nat /\ Size(at) \in 0 .. MaxItems /\ MaxItems \in Nat
        /\ main \in MainType /\ main.try \in Nat
    BY <1>1, <1>2, <2>1, <2>2, Opened
  <2>5. main.item >= 1
    BY <2>2, <2>4
  <2>6. runner \in [Runners -> RunnerType] /\ runner[Main].pc = "idle"
    BY <1>3, Alone
  <2> QED
    BY <1>3, <2>1, <2>2, <2>3, <2>4, <2>5, <2>6
<1>5. ~Strict
  BY <1>4 DEF Strict, Lists, Each
<1>6. CASE Excuse(at, main.item + 1 .. Size(at)) /\ Store(at, got) /\ NextStep
  <2>1. PICK n \in Nat : n = main.item
    BY <1>4
  <2>2. (n + 1 .. Size(at)) \in SUBSET (0 .. MaxItems) /\ Excuse(at, n + 1 .. Size(at))
    BY <1>4, <1>6, <2>1
  <2>3. /\ log' \in [done : [Steps -> [0 .. MaxItems -> Nat]], excused : [Steps -> SUBSET (0 .. MaxItems)],
                     relogged : BOOLEAN, panicked : BOOLEAN]
        /\ log'.done = log.done /\ log'.relogged = log.relogged
        /\ \A s \in Steps : log.excused[s] \subseteq log'.excused[s]
    BY <1>4, <2>2, Excusing
  <2>4. Grown
    BY <2>3 DEF Grown
  <2>5. /\ results' \in [Steps -> Seq(0 .. MaxItems) \cup {NoResult}]
        /\ \A s \in Steps \ {at} : results'[s] = results[s]
        /\ results'[at] \in {results[at], got} /\ (results[at] # NoResult => results'[at] # NoResult)
    BY <1>4, <1>6, Storing
  <2>6. results'[at] = got => Fits(at, results[at])'
    <3>1. Increasing(got) /\ \A i \in DOMAIN got : log.done[at][got[i]] > 0
      BY <1>1, <1>2, <1>3 DEF IInv, GotDone, InList
    <3> QED
      BY <1>3, <1>4, <2>3, <3>1, Constants DEF Fits, Increasing, Lists, Each
  <2> QED
    BY <1>1, <1>3, <1>4, <1>5, <1>6, <2>3, <2>4, <2>5, <2>6, NextShape, Leaving
<1>7. CASE /\ main' = [main EXCEPT !.pc = IF Step.waitFor THEN "poll" ELSE "item",
                                  !.item = IF Step.waitFor THEN main.item ELSE main.item + 1]
           /\ results' = results /\ log' = log
  <2>1. PICK pc : pc = IF Step.waitFor THEN "poll" ELSE "item"
    OBVIOUS
  <2>2. PICK n : n = IF Step.waitFor THEN main.item ELSE main.item + 1
    OBVIOUS
  <2>3. main' = [main EXCEPT !.pc = pc, !.item = n]
    BY <1>7, <2>1, <2>2
  <2>4. /\ n \in Nat /\ n <= Size(at) + 1
        /\ (pc = "poll" /\ n = main.item) \/ (pc = "item" /\ n = main.item + 1)
    BY <1>4, <2>1, <2>2
  <2>5. /\ main' \in MainType /\ main'.pc = pc /\ main'.item = n /\ main'.step = at /\ main'.got = got
        /\ main'.try = main.try
    BY <1>1, <1>2, <1>4, <2>3, <2>4 DEF MainType
  <2>6. MainOK'
    <3>1. /\ Steps' = Steps /\ Logins' = Logins /\ RetriesItems' = RetriesItems
          /\ \A s : Each(s)' = Each(s) /\ Size(s)' = Size(s)
      BY <1>3, Constants
    <3>2. Step' = Step
      BY <1>1, <1>3, <2>5 DEF Step
    <3> QED
      BY <1>1, <1>2, <1>3, <1>4, <1>7, <2>4, <2>5, <3>1, <3>2 DEF MainOK, InList, GoesOn
  <2>7. \A s \in Steps, p \in 0 .. MaxItems : Ahead(s, p)' => Ahead(s, p)
    BY <1>1, <1>3, <1>4, <2>4, <2>5 DEF Ahead, InList
  <2>8. \A s \in Steps, p \in 0 .. MaxItems : AtHand(s, p)' => AtHand(s, p) \/ results[s] = NoResult \/ ~Kept(s)
    BY <1>1, <1>3, <2>4, <2>5, <2>7 DEF AtHand, InList
  <2>9. Completed'
    BY <1>3, <1>5, Constants DEF Completed
  <2>10. GotDone'
    <3>1. \A i \in DOMAIN got : got[i] \in 0 .. MaxItems
      BY <1>4, Elements
    <3>2. /\ Increasing(got)
          /\ \A i \in DOMAIN got : log.done[at][got[i]] > 0 /\ (got[i] < main.item \/ got[i] = main.item)
      BY <1>1, <1>2, <1>3 DEF IInv, GotDone, InList
    <3>3. \A i \in DOMAIN got : got[i] < n \/ (pc = "poll" /\ got[i] = n)
      BY <1>4, <2>4, <3>1, <3>2
    <3>4. main'.got = got /\ main'.step = at /\ main'.item = n /\ main'.pc = pc /\ log' = log
      BY <1>7, <2>5
    <3> QED
      BY <3>2, <3>3, <3>4 DEF GotDone, InList, Increasing
  <2>11. main'.pc # "collect" /\ main.try <= main'.try
    BY <1>4, <2>4, <2>5
  <2>12. UNCHANGED <<op, live, inner>>
    BY <1>3, <1>7 DEF inner
  <2> QED
    BY <1>3, <1>4, <2>5, <2>6, <2>7, <2>8, <2>9, <2>10, <2>11, <2>12, MainStep
<1> QED
  BY <1>3, <1>6, <1>7

\* A list without items needs no goroutines.
LEMMA NoWorkersKeeps ==
  ASSUME IInv, StartWorkers, Step.items = 0
  PROVE  IInv'
<1>1. PICK at : at = main.step
  OBVIOUS
<1>2. /\ main.pc = "list" /\ op' = op /\ runner' = runner /\ queue' = queue /\ answers' = answers
      /\ auth' = auth /\ stored' = stored /\ log' = log /\ NextStep /\ results' = results /\ live' = live
      /\ Each(at) = "parallel" /\ Size(at) = 0
  BY <1>1 DEF StartWorkers, Step, Each, Size
<1>3. /\ TypeOK /\ at \in Steps /\ stored' \subseteq Credentials
      /\ runner \in [Runners -> RunnerType] /\ runner[Main].pc = "idle"
  BY <1>1, <1>2, Alone DEF IInv, TypesOK, MainOK, TypeOK
<1>4. Complete(at)'
  BY <1>2, Constants DEF Complete
<1>5. Grown
  BY <1>2 DEF Grown
<1>6. /\ log' \in [done : [Steps -> [0 .. MaxItems -> Nat]], excused : [Steps -> SUBSET (0 .. MaxItems)],
                   relogged : BOOLEAN, panicked : BOOLEAN]
      /\ results' \in [Steps -> Seq(0 .. MaxItems) \cup {NoResult}]
  BY <1>2, <1>3 DEF TypeOK
<1> QED
  BY <1>1, <1>2, <1>3, <1>4, <1>5, <1>6, NextShape, Leaving

\* Repeating the steps from the login on is outside what is promised.
LEMMA RepeatKeeps ==
  ASSUME IInv, Repeat
  PROVE  IInv'
<1>1. PICK at : at = main.at
  OBVIOUS
<1>2. /\ main.pc = "relogin" /\ at <= Len(op.steps) /\ op' = op /\ runner' = runner /\ queue' = queue
      /\ answers' = answers /\ auth' = auth /\ live' = live /\ Count(at, 0) /\ Store(at, <<>>)
      /\ stored' = stored \/ stored' = stored \cup {"token"}
      /\ main' = [main EXCEPT !.at = at + 1]
  BY <1>1 DEF Repeat, KeepToken
<1>3. /\ TypeOK /\ at \in Steps /\ at \in Nat /\ main \in MainType /\ 0 \in 0 .. MaxItems
      /\ stored' \subseteq Credentials /\ log.relogged /\ Logins # {} /\ main.step >= 1
      /\ runner \in [Runners -> RunnerType] /\ runner[Main].pc = "idle" /\ main.try \in Nat
  <2>1. TypeOK /\ MainOK
    BY DEF IInv, TypesOK
  <2>2. main.at >= 1 /\ log.relogged /\ Logins # {} /\ main.step >= 1
    BY <1>2, <2>1 DEF MainOK
  <2>3. stored' \subseteq Credentials
    BY <1>2, <2>1 DEF TypeOK, Credentials
  <2>4. main \in MainType /\ main.at \in Nat /\ MaxItems \in Nat /\ Steps = 1 .. Len(op.steps) /\ main.try \in Nat
        /\ Len(op.steps) \in Nat
    BY <2>1, Opened DEF MainType
  <2>5. at \in Steps /\ 0 \in 0 .. MaxItems
    BY <1>1, <1>2, <2>2, <2>4
  <2> QED
    BY <1>1, <1>2, <2>1, <2>2, <2>3, <2>4, <2>5, Alone
<1>4. main' \in MainType /\ main'.pc = "relogin" /\ main'.step = main.step /\ main'.at = at + 1
      /\ main'.try = main.try /\ at + 1 >= 1
  BY <1>1, <1>2, <1>3 DEF MainType
<1>5. /\ log' \in [done : [Steps -> [0 .. MaxItems -> Nat]], excused : [Steps -> SUBSET (0 .. MaxItems)],
                    relogged : BOOLEAN, panicked : BOOLEAN]
      /\ log'.done[at][0] = log.done[at][0] + 1 /\ log.done[at][0] \in Nat
      /\ \A t \in Steps, q \in 0 .. MaxItems : t # at \/ q # 0 => log'.done[t][q] = log.done[t][q]
      /\ log'.excused = log.excused /\ log'.relogged
  BY <1>2, <1>3, Counting
<1>6. results' \in [Steps -> Seq(0 .. MaxItems) \cup {NoResult}]
  BY <1>2, <1>3, EmptyList, Storing
<1>7. TypeOK'
  BY <1>2, <1>3, <1>4, <1>5, <1>6 DEF TypeOK, Steps
<1>8. MainOK'
  BY <1>2, <1>3, <1>4, <1>5, Constants DEF MainOK, InList, GoesOn
<1>9. /\ Grown /\ KeptOnce' /\ Completed' /\ GotDone'
      /\ \A s \in Steps, p \in 0 .. MaxItems : ~Ahead(s, p)'
  BY <1>2, <1>3, <1>4, <1>5, Constants DEF Grown, KeptOnce, Completed, Strict, GotDone, InList, Ahead
<1>10. main.try <= main'.try /\ main'.pc # "collect"
  BY <1>3, <1>4
<1> QED
  BY <1>2, <1>4, <1>5, <1>7, <1>8, <1>9, <1>10, LoopStep

LEMMA CollectedKeeps ==
  ASSUME IInv, Collected
  PROVE  IInv'
<1>1. PICK at : at = main.step
  OBVIOUS
<1>2. PICK got : got = main.got
  OBVIOUS
<1>3. /\ main.pc = "collect" /\ main.due = 0 /\ op' = op /\ runner' = runner /\ queue' = queue
      /\ answers' = answers /\ auth' = auth /\ live' = live /\ stored' = stored /\ log' = log
      /\ IF main.wrong THEN FailTry /\ results' = results ELSE NextStep /\ Store(at, got)
  BY <1>1, <1>2 DEF Collected
<1>4. /\ TypeOK /\ at \in Steps /\ at \in Nat /\ got \in Seq(0 .. MaxItems)
      /\ stored' \subseteq Credentials /\ Size(at) \in 0 .. MaxItems /\ MaxItems \in Nat
      /\ runner \in [Runners -> RunnerType] /\ runner[Main].pc = "idle"
  <2>1. TypeOK /\ at \in Steps
    BY <1>1, <1>3 DEF IInv, TypesOK, MainOK
  <2>2. stored \subseteq Credentials
    BY <2>1 DEF TypeOK
  <2> QED
    BY <1>1, <1>2, <1>3, <2>1, <2>2, Opened, Alone
<1>5. CASE main.wrong
  <2>1. UNCHANGED <<op, live, inner>> /\ FailTry
    BY <1>3, <1>5 DEF inner
  <2> QED
    BY <1>3, <1>4, <2>1, Failing
<1>6. CASE ~main.wrong
  <2>1. /\ Each(at) = "parallel" /\ DOMAIN got = 1 .. Size(at)
        /\ \A i \in 1 .. Size(at) : got[i] = i => log.done[at][i] > 0
        /\ 0 = Size(at) - Cardinality({i \in 1 .. Size(at) : got[i] = i})
    BY <1>1, <1>2, <1>3, <1>6 DEF IInv, TypesOK, CollectOK, Expected, Got
  <2>2. PICK have : have = {i \in 1 .. Size(at) : got[i] = i}
    OBVIOUS
  <2>3. IsFiniteSet(1 .. Size(at)) /\ Cardinality(1 .. Size(at)) = Size(at)
    BY <1>4, FS_Interval
  <2>4. have \subseteq 1 .. Size(at) /\ IsFiniteSet(have) /\ Cardinality(have) \in Nat
    <3>1. have \subseteq 1 .. Size(at)
      BY <2>2
    <3>2. IsFiniteSet(have)
      BY <2>3, <3>1, FS_Subset, Zenon
    <3> QED
      BY <3>1, <3>2, FS_CardinalityType
  <2>5. Cardinality(have) = Size(at)
    <3>1. PICK n \in Nat : n = Size(at)
      BY <1>4
    <3>2. PICK c \in Nat : c = Cardinality(have)
      BY <2>4
    <3>3. 0 = n - c
      BY <2>1, <2>2, <3>1, <3>2
    <3>4. c = n
      BY <3>3
    <3> QED
      BY <3>1, <3>2, <3>4
  <2>6. have = 1 .. Size(at)
    BY <2>3, <2>4, <2>5, FS_Subset
  <2>7. \A i \in 1 .. Size(at) : got[i] = i /\ log.done[at][i] > 0
    BY <2>1, <2>2, <2>6
  <2>8. Len(got) = Size(at)
    BY <1>4, <2>1, Elements
  <2>9. Complete(at)'
    BY <1>3, <2>1, <2>7, Constants DEF Complete, Seen
  <2>10. /\ results' \in [Steps -> Seq(0 .. MaxItems) \cup {NoResult}]
         /\ \A s \in Steps \ {at} : results'[s] = results[s]
         /\ results'[at] \in {results[at], got} /\ (results[at] # NoResult => results'[at] # NoResult)
    BY <1>3, <1>4, <1>6, Storing
  <2>11. results'[at] = got => Fits(at, results[at])'
    <3>1. Increasing(got)
      BY <1>4, <2>7, <2>8 DEF Increasing
    <3>2. \A i \in DOMAIN got : log.done[at][got[i]] > 0
      BY <2>1, <2>7
    <3> QED
      BY <1>3, <2>8, <3>1, <3>2, Constants DEF Fits, Increasing
  <2>12. Grown
    BY <1>3 DEF Grown
  <2>13. log' \in [done : [Steps -> [0 .. MaxItems -> Nat]], excused : [Steps -> SUBSET (0 .. MaxItems)],
                   relogged : BOOLEAN, panicked : BOOLEAN]
    BY <1>3, <1>4 DEF TypeOK
  <2> QED
    BY <1>1, <1>3, <1>4, <1>6, <2>9, <2>10, <2>11, <2>12, <2>13, NextShape, Leaving
<1> QED
  BY <1>5, <1>6

\* What is known of the loop over a list.
LEMMA InListFacts ==
  ASSUME IInv, main.pc \in InList, NEW at, at = main.step, NEW n, n = main.item, NEW got, got = main.got
  PROVE  /\ TypeOK /\ MainOK /\ at \in Steps /\ at \in Nat /\ n \in Nat /\ n >= 1 /\ n <= Size(at) + 1
         /\ Each(at) = "sequential" /\ got \in Seq(0 .. MaxItems) /\ main \in MainType /\ main.try \in Nat
         /\ Size(at) \in 0 .. MaxItems /\ MaxItems \in Nat /\ runner \in [Runners -> RunnerType]
         /\ (op.steps[at].indexed => results[at] = IF got = <<>> \/ ~RetriesItems THEN NoResult ELSE got)
         /\ Increasing(got)
         /\ \A i \in DOMAIN got : /\ got[i] \in 0 .. MaxItems /\ log.done[at][got[i]] > 0
                                  /\ got[i] < n \/ (main.pc \in {"after", "poll"} /\ got[i] = n)
<1>1. TypeOK /\ MainOK
  BY DEF IInv, TypesOK
<1>2. /\ at \in Steps /\ Each(at) = "sequential" /\ n \in 1 .. Size(at) + 1
      /\ (op.steps[at].indexed => results[at] = IF got = <<>> \/ ~RetriesItems THEN NoResult ELSE got)
  BY <1>1 DEF MainOK, InList, Step
<1>3. /\ at \in Nat /\ n \in Nat /\ Size(at) \in 0 .. MaxItems /\ MaxItems \in Nat /\ got \in Seq(0 .. MaxItems)
      /\ main \in MainType /\ main.try \in Nat
  BY <1>1, <1>2, Opened
<1>4. n >= 1 /\ n <= Size(at) + 1
  BY <1>2, <1>3
<1>5. runner \in [Runners -> RunnerType]
  BY <1>1 DEF TypeOK
<1>6. \A i \in DOMAIN got : got[i] \in 0 .. MaxItems
  BY <1>3, Elements
<1>7. /\ Increasing(got)
      /\ \A i \in DOMAIN got : /\ log.done[at][got[i]] > 0
                               /\ got[i] < n \/ (main.pc \in {"after", "poll"} /\ got[i] = n)
  BY DEF IInv, GotDone
<1> QED
  BY <1>1, <1>2, <1>3, <1>4, <1>5, <1>6, <1>7

\* The next item of a list comes after those before.
LEMMA Appending ==
  ASSUME NEW got \in Seq(0 .. MaxItems), NEW n \in 0 .. MaxItems, Increasing(got), MaxItems \in Nat,
         \A i \in DOMAIN got : got[i] < n
  PROVE  /\ Append(got, n) \in Seq(0 .. MaxItems) /\ Append(got, n) # <<>> /\ Increasing(Append(got, n))
         /\ \A i \in DOMAIN Append(got, n) : Append(got, n)[i] = n \/ \E j \in DOMAIN got : Append(got, n)[i] = got[j]
<1>1. Len(got) \in Nat /\ DOMAIN got = 1 .. Len(got) /\ \A i \in DOMAIN got : got[i] \in 0 .. MaxItems
  BY Elements
<1>2. PICK next : next = Append(got, n)
  OBVIOUS
<1>3. /\ next \in Seq(0 .. MaxItems) /\ Len(next) = Len(got) + 1 /\ DOMAIN next = 1 .. Len(got) + 1
      /\ \A i \in 1 .. Len(got) : next[i] = got[i]
      /\ next[Len(got) + 1] = n
  BY <1>1, <1>2
<1>4. next # <<>>
  BY <1>1, <1>3, EmptyList
<1>5. Increasing(next)
  <2>1. SUFFICES ASSUME NEW i \in 1 .. Len(next) - 1 PROVE next[i] < next[i + 1]
    BY DEF Increasing
  <2>2. i \in 1 .. Len(got) /\ next[i] = got[i]
    BY <1>1, <1>3, <2>1
  <2>3. CASE i = Len(got)
    BY <1>1, <1>3, <2>2, <2>3
  <2>4. CASE i # Len(got)
    <3>0. PICK len \in Nat : len = Len(got)
      BY <1>1
    <3>1. i \in 1 .. len - 1 /\ i + 1 \in 1 .. len
      BY <2>2, <2>4, <3>0
    <3> QED
      BY <1>3, <2>2, <3>0, <3>1 DEF Increasing
  <2> QED
    BY <2>3, <2>4
<1>6. \A i \in DOMAIN next : next[i] = n \/ \E j \in DOMAIN got : next[i] = got[j]
  <2>1. SUFFICES ASSUME NEW i \in 1 .. Len(got) + 1, next[i] # n PROVE \E j \in DOMAIN got : next[i] = got[j]
    BY <1>3
  <2>2. i \in 1 .. Len(got)
    BY <1>1, <1>3, <2>1
  <2> QED
    BY <1>1, <1>3, <2>2
<1> QED
  BY <1>2, <1>3, <1>4, <1>5, <1>6

LEMMA SkipItemKeeps ==
  ASSUME IInv, SkipItem
  PROVE  IInv'
<1>1. PICK at : at = main.step
  OBVIOUS
<1>2. PICK n : n = main.item
  OBVIOUS
<1>3. PICK got : got = main.got
  OBVIOUS
<1>4. /\ main.pc = "item" /\ n <= Size(at) /\ op' = op /\ runner' = runner /\ queue' = queue
      /\ answers' = answers /\ auth' = auth /\ live' = live /\ stored' = stored /\ results' = results
      /\ Excuse(at, {n}) /\ main' = [main EXCEPT !.item = n + 1]
  BY <1>1, <1>2 DEF SkipItem, AtItem, Size, Step
<1>5. /\ TypeOK /\ MainOK /\ at \in Steps /\ at \in Nat /\ n \in Nat /\ n >= 1
      /\ Each(at) = "sequential" /\ got \in Seq(0 .. MaxItems) /\ main \in MainType /\ main.try \in Nat
      /\ Size(at) \in 0 .. MaxItems /\ MaxItems \in Nat /\ runner \in [Runners -> RunnerType]
      /\ (op.steps[at].indexed => results[at] = IF got = <<>> \/ ~RetriesItems THEN NoResult ELSE got)
      /\ Increasing(got)
      /\ \A i \in DOMAIN got : got[i] \in 0 .. MaxItems /\ log.done[at][got[i]] > 0 /\ got[i] < n
  BY <1>1, <1>2, <1>3, <1>4, InListFacts, SMTT(20) DEF InList
<1>6. runner[Main].pc = "idle" /\ n \in 0 .. MaxItems
  BY <1>4, <1>5, Alone
<1>7. /\ main' \in MainType /\ main'.pc = "item" /\ main'.item = n + 1 /\ main'.step = at /\ main'.try = main.try
      /\ main'.got = got
  <2>1. n + 1 \in Nat
    BY <1>5
  <2> QED
    BY <1>1, <1>3, <1>4, <1>5, <2>1 DEF MainType
<1>8. /\ log' \in [done : [Steps -> [0 .. MaxItems -> Nat]], excused : [Steps -> SUBSET (0 .. MaxItems)],
                    relogged : BOOLEAN, panicked : BOOLEAN]
      /\ log'.done = log.done /\ log'.relogged = log.relogged
      /\ log'.excused[at] = log.excused[at] \cup {n}
      /\ \A t \in Steps \ {at} : log'.excused[t] = log.excused[t]
  <2>1. {n} \in SUBSET (0 .. MaxItems)
    BY <1>6
  <2> QED
    BY <1>4, <1>5, <2>1, Excusing
<1>9. Grown
  <2>1. \A s \in Steps : log.excused[s] \subseteq log'.excused[s]
    BY <1>8
  <2> QED
    BY <1>8, <2>1 DEF Grown
<1>10. TypeOK'
  BY <1>4, <1>5, <1>7, <1>8 DEF TypeOK, Steps
<1>11. MainOK'
  <2>1. /\ Steps' = Steps /\ Logins' = Logins /\ RetriesItems' = RetriesItems
        /\ \A s : Each(s)' = Each(s) /\ Size(s)' = Size(s)
    BY <1>4, Constants
  <2>2. Step' = op.steps[at]
    BY <1>4, <1>7 DEF Step
  <2>3. n + 1 \in 1 .. Size(at) + 1
    BY <1>4, <1>5
  <2> QED
    BY <1>4, <1>5, <1>6, <1>7, <2>1, <2>2, <2>3, SMTT(20) DEF MainOK, InList, GoesOn
<1>12. \A s \in Steps, p \in 0 .. MaxItems : Ahead(s, p)' => Ahead(s, p)
  BY <1>1, <1>2, <1>4, <1>5, <1>7 DEF Ahead, InList
<1>13. \A s \in Steps, p \in 0 .. MaxItems : AtHand(s, p)' => AtHand(s, p)
  BY <1>1, <1>4, <1>7, <1>12 DEF AtHand, InList
<1>14. KeptOnce'
  BY <1>4, <1>8, <1>10, <1>13, KeptStays
<1>15. Completed'
  <2>1. SUFFICES ASSUME Strict, NEW s \in Steps
        PROVE  /\ results'[s] # NoResult => Complete(s)'
               /\ s < at => Complete(s)'
               /\ at = s => \A p \in 1 .. n : Seen(s, p)'
    <3>1. main'.pc = "item" /\ main'.step = at /\ 1 .. main'.item - 1 = 1 .. n /\ op' = op
          /\ \A t \in Steps : t < at \/ ~(t < main'.step)
      BY <1>4, <1>5, <1>7
    <3> QED
      BY <3>1, Constants DEF Completed
  <2>2. Complete(s) => Complete(s)'
    BY <1>4, <1>5, <1>9, CompleteStays
  <2>3. ASSUME at = s, NEW p \in 1 .. n PROVE Seen(s, p)'
    <3>1. CASE p = n
      BY <1>8, <2>3, <3>1 DEF Seen
    <3>2. CASE p # n
      <4>1. p \in 1 .. n - 1 /\ p \in 0 .. MaxItems
        BY <1>5, <1>6, <2>3, <3>2
      <4>2. Seen(s, p)
        BY <1>1, <1>2, <1>4, <2>1, <2>3, <4>1 DEF IInv, Completed
      <4> QED
        BY <1>4, <1>5, <1>9, <4>1, <4>2, CompleteStays
    <3> QED
      BY <3>1, <3>2
  <2> QED
    BY <1>1, <1>4, <2>1, <2>2, <2>3 DEF IInv, Completed
<1>16. GotDone'
  <2>1. \A i \in DOMAIN got : log'.done[at][got[i]] > 0 /\ got[i] < n + 1
    BY <1>5, <1>8
  <2> QED
    BY <1>5, <1>7, <2>1 DEF GotDone, Increasing
<1>17. main'.pc # "collect" /\ main.try <= main'.try
  BY <1>5, <1>7
<1> QED
  BY <1>4, <1>7, <1>8, <1>9, <1>10, <1>11, <1>12, <1>14, <1>15, <1>16, <1>17, LoopStep

LEMMA ExecuteItemKeeps ==
  ASSUME IInv, ExecuteItem
  PROVE  IInv'
<1>1. PICK at : at = main.step
  OBVIOUS
<1>2. PICK n : n = main.item
  OBVIOUS
<1>3. PICK got : got = main.got
  OBVIOUS
<1>4. /\ main.pc = "item" /\ n <= Size(at) /\ op' = op /\ runner' = runner /\ queue' = queue
      /\ answers' = answers /\ auth' = auth /\ live' = live /\ stored' = stored /\ results' = results
      /\ ~RetriesItems /\ Count(at, n) /\ main' = [main EXCEPT !.item = n + 1, !.got = Append(got, n)]
  BY <1>1, <1>2, <1>3 DEF ExecuteItem, AtItem, Size, Step
<1>5. /\ TypeOK /\ MainOK /\ at \in Steps /\ at \in Nat /\ n \in Nat /\ n >= 1
      /\ Each(at) = "sequential" /\ got \in Seq(0 .. MaxItems) /\ main \in MainType /\ main.try \in Nat
      /\ Size(at) \in 0 .. MaxItems /\ MaxItems \in Nat /\ runner \in [Runners -> RunnerType]
      /\ (op.steps[at].indexed => results[at] = NoResult)
      /\ Increasing(got)
      /\ \A i \in DOMAIN got : got[i] \in 0 .. MaxItems /\ log.done[at][got[i]] > 0 /\ got[i] < n
  BY <1>1, <1>2, <1>3, <1>4, InListFacts DEF InList
<1>6. runner[Main].pc = "idle" /\ n \in 0 .. MaxItems
  BY <1>4, <1>5, Alone
<1>0. PICK next : next = Append(got, n)
  OBVIOUS
<1>7. /\ next \in Seq(0 .. MaxItems) /\ Increasing(next)
      /\ \A i \in DOMAIN next : next[i] = n \/ \E j \in DOMAIN got : next[i] = got[j]
  BY <1>0, <1>5, <1>6, Appending
<1>8. /\ main' \in MainType /\ main'.pc = "item" /\ main'.item = n + 1 /\ main'.step = at /\ main'.try = main.try
      /\ main'.got = next
  <2>1. PICK m \in Nat : m = n + 1
    BY <1>5
  <2>2. main' = [main EXCEPT !.item = m, !.got = next] /\ next \in Seq(0 .. MaxItems) /\ main \in MainType
        /\ main.pc = "item" /\ main.step = at
    BY <1>0, <1>1, <1>4, <1>5, <1>7, <2>1
  <2>3. main' \in MainType
    BY <2>1, <2>2 DEF MainType
  <2>4. main'.pc = "item" /\ main'.item = m /\ main'.step = at /\ main'.try = main.try /\ main'.got = next
    BY <2>2 DEF MainType
  <2> QED
    BY <2>1, <2>3, <2>4
<1>9. /\ log' \in [done : [Steps -> [0 .. MaxItems -> Nat]], excused : [Steps -> SUBSET (0 .. MaxItems)],
                    relogged : BOOLEAN, panicked : BOOLEAN]
      /\ log'.done[at][n] = log.done[at][n] + 1 /\ log.done[at][n] \in Nat
      /\ \A t \in Steps, q \in 0 .. MaxItems : t # at \/ q # n => log'.done[t][q] = log.done[t][q]
      /\ log'.excused = log.excused /\ log'.relogged = log.relogged
  BY <1>4, <1>5, <1>6, Counting
<1>10. Grown /\ Seen(at, n)'
  BY <1>9 DEF Grown, Seen
<1>11. TypeOK'
  BY <1>4, <1>5, <1>8, <1>9 DEF TypeOK, Steps
<1>12. MainOK'
  <2>1. /\ Steps' = Steps /\ Logins' = Logins /\ RetriesItems' = RetriesItems
        /\ \A s : Each(s)' = Each(s) /\ Size(s)' = Size(s)
    BY <1>4, Constants
  <2>2. Step' = op.steps[at]
    BY <1>4, <1>8 DEF Step
  <2>3. n + 1 \in 1 .. Size(at) + 1
    BY <1>4, <1>5
  <2> QED
    BY <1>4, <1>5, <1>6, <1>8, <2>1, <2>2, <2>3 DEF MainOK, InList, GoesOn
<1>13. /\ \A s \in Steps, p \in 0 .. MaxItems : Ahead(s, p)' => Ahead(s, p)
       /\ Ahead(at, n) /\ ~Ahead(at, n)'
  BY <1>1, <1>2, <1>4, <1>5, <1>8 DEF Ahead, InList
<1>14. \A s \in Steps, p \in 0 .. MaxItems : log'.done[s][p] # log.done[s][p] =>
         main'.try = main.try /\ Each(s) # "parallel" /\ Ahead(s, p) /\ ~Ahead(s, p)'
  BY <1>5, <1>8, <1>9, <1>13
<1>15. KeptOnce'
  <2>1. ~Kept(at)
    BY <1>4, <1>5 DEF Kept
  <2>2. \A s \in Steps, p \in 0 .. MaxItems : AtHand(s, p)' => AtHand(s, p)
    BY <1>1, <1>4, <1>8, <1>13 DEF AtHand, InList
  <2>3. \A s \in Steps, p \in 0 .. MaxItems : Kept(s) => log'.done[s][p] = log.done[s][p]
    BY <1>9, <2>1
  <2> QED
    BY <1>4, <1>9, <1>11, <2>2, <2>3, KeptStays
<1>16. Completed'
  <2>1. SUFFICES ASSUME Strict, NEW s \in Steps
        PROVE  /\ results'[s] # NoResult => Complete(s)'
               /\ s < at => Complete(s)'
               /\ at = s => \A p \in 1 .. n : Seen(s, p)'
    <3>1. main'.pc = "item" /\ main'.step = at /\ 1 .. main'.item - 1 = 1 .. n /\ op' = op
          /\ \A t \in Steps : t < at \/ ~(t < main'.step)
      BY <1>4, <1>5, <1>8
    <3> QED
      BY <3>1, Constants DEF Completed
  <2>2. Complete(s) => Complete(s)'
    BY <1>4, <1>5, <1>10, CompleteStays
  <2>3. ASSUME at = s, NEW p \in 1 .. n PROVE Seen(s, p)'
    <3>1. CASE p = n
      BY <1>10, <2>3, <3>1
    <3>2. CASE p # n
      <4>1. p \in 1 .. n - 1 /\ p \in 0 .. MaxItems
        BY <1>5, <1>6, <2>3, <3>2
      <4>2. Seen(s, p)
        BY <1>1, <1>2, <1>4, <2>1, <2>3, <4>1 DEF IInv, Completed
      <4> QED
        BY <1>4, <1>5, <1>10, <4>1, <4>2, CompleteStays
    <3> QED
      BY <3>1, <3>2
  <2> QED
    BY <1>1, <1>4, <2>1, <2>2, <2>3 DEF IInv, Completed
<1>17. GotDone'
  <2>1. \A i \in DOMAIN next : log'.done[at][next[i]] > 0 /\ next[i] < n + 1
    <3>1. \A j \in DOMAIN got : log'.done[at][got[j]] > 0 /\ got[j] < n + 1
      <4>1. SUFFICES ASSUME NEW j \in DOMAIN got PROVE log'.done[at][got[j]] > 0 /\ got[j] < n + 1
        OBVIOUS
      <4>2. got[j] \in 0 .. MaxItems /\ log.done[at][got[j]] > 0 /\ got[j] < n
        BY <1>5
      <4>3. got[j] # n /\ got[j] < n + 1
        BY <1>5, <4>2
      <4> QED
        BY <1>5, <1>9, <4>2, <4>3
    <3>2. log'.done[at][n] > 0 /\ n < n + 1
      <4>1. PICK k \in Nat : k = log.done[at][n]
        BY <1>9
      <4>2. log'.done[at][n] = k + 1
        BY <1>9, <4>1
      <4>3. k + 1 > 0 /\ n < n + 1
        BY <1>5
      <4> QED
        BY <4>2, <4>3
    <3> QED
      BY <1>7, <3>1, <3>2
  <2> QED
    BY <1>7, <1>8, <2>1 DEF GotDone, Increasing
<1>18. main'.pc # "collect" /\ main.try <= main'.try
  BY <1>5, <1>8
<1> QED
  BY <1>4, <1>8, <1>9, <1>10, <1>11, <1>12, <1>13, <1>14, <1>15, <1>16, <1>17, <1>18, LoopStep

---------------------------------------------------------------------------
\* Steps of the goroutines.

\* A worker's step, in which it may have executed an item.
LEMMA WorkerStep ==
  ASSUME IInv, op' = op, main' = main, results' = results, runner'[Main] = runner[Main],
         TypeOK', TeamsOK', CollectOK', Grown,
         \A t \in Tries, s \in Steps, p \in 0 .. MaxItems : Chance(t, s, p)' => Chance(t, s, p),
         \A s \in Steps, p \in 0 .. MaxItems : log'.done[s][p] # log.done[s][p] =>
           Each(s) = "parallel" /\ \E t \in Tries : Chance(t, s, p) /\ ~Chance(t, s, p)'
  PROVE  IInv'
<1>1. /\ TypeOK /\ MainOK /\ Step' = Step
      /\ \A s, p : Ahead(s, p)' = Ahead(s, p) /\ AtHand(s, p)' = AtHand(s, p)
  BY DEF IInv, TypesOK, Step, Ahead, AtHand
<1>2. MainOK'
  BY <1>1, Constants DEF MainOK, GoesOn, Grown
<1>3. TriesBound'
  BY TallyStays DEF Grown
<1>4. KeptOnce'
  <2>1. \A s \in Steps, p \in 0 .. MaxItems : Kept(s) => log'.done[s][p] = log.done[s][p]
    BY DEF Kept
  <2> QED
    BY <1>1, <2>1, KeptStays DEF Grown
<1>5. Completed'
  <2>1. SUFFICES ASSUME Strict, NEW s \in Steps
        PROVE  /\ results[s] # NoResult => Complete(s)'
               /\ main.pc \notin {"start", "failed"} /\ s < main.step => Complete(s)'
               /\ main.pc = "item" /\ main.step = s => \A p \in 1 .. main.item - 1 : Seen(s, p)'
    BY Constants DEF Completed
  <2>2. Complete(s) => Complete(s)'
    BY <1>1, CompleteStays
  <2>3. ASSUME main.pc = "item", main.step = s, NEW p \in 1 .. main.item - 1 PROVE Seen(s, p)'
    <3>1. PICK n \in Nat : n = main.item
      BY <1>1, Opened
    <3>2. n <= Size(s) + 1 /\ Size(s) \in 0 .. MaxItems /\ MaxItems \in Nat
      BY <1>1, <2>3, <3>1, InListFacts DEF InList
    <3>3. p \in 0 .. MaxItems
      BY <2>3, <3>1, <3>2
    <3>4. Seen(s, p)
      BY <2>1, <2>3 DEF IInv, Completed
    <3> QED
      BY <1>1, <3>3, <3>4, CompleteStays
  <2> QED
    BY <2>1, <2>2, <2>3 DEF IInv, Completed
<1>6. GotDone'
  <2>1. SUFFICES ASSUME main.pc \in InList, NEW i \in DOMAIN main.got
        PROVE  log'.done[main.step][main.got[i]] > 0
    BY DEF IInv, GotDone
  <2>2. PICK s \in Steps : s = main.step
    BY <1>1, <2>1, InListFacts
  <2>3. PICK p \in 0 .. MaxItems : p = main.got[i]
    BY <1>1, <2>1, InListFacts
  <2>4. log.done[s][p] > 0
    BY <2>1, <2>2, <2>3 DEF IInv, GotDone
  <2>5. log.done[s] \in [0 .. MaxItems -> Nat]
    BY <1>1 DEF TypeOK
  <2>6. log.done[s][p] \in Nat
    BY <2>5
  <2>7. log'.done[s][p] > 0
    BY <2>4, <2>6 DEF Grown
  <2> QED
    BY <2>2, <2>3, <2>7
<1>7. ResultsInOrder'
  BY FitsStay
<1> QED
  BY <1>2, <1>3, <1>4, <1>5, <1>6, <1>7 DEF IInv, TypesOK

\* The collector waits: answers come, of items that were not answered.
LEMMA Collecting ==
  ASSUME TypeOK, NEW t \in Tries, NEW s \in Steps, NEW come, op' = op, main' = main, Grown,
         Expected(t, s), Answered(t, s, answers[t]),
         \A p : Unanswered(t, p)' => Unanswered(t, p),
         \A r \in Team(t) : Works(r)' => Works(r) /\ runner'[r].step = runner[r].step,
         \A i \in DOMAIN come :
           \/ \E j \in DOMAIN answers[t] : come[i] = answers[t][j]
           \/ /\ come[i].item \in 1 .. MaxItems /\ Unanswered(t, come[i].item) /\ ~Unanswered(t, come[i].item)'
              /\ come[i].ok => log'.done[s][come[i].item] > 0,
         \A i, j \in DOMAIN come : come[i].item = come[j].item => i = j
  PROVE  Expected(t, s)' /\ Answered(t, s, come)'
<1>1. Got(s)' = Got(s) /\ Size(s)' = Size(s) /\ Each(s)' = Each(s)
  BY DEF Got, Size, Each
<1>2. \A p \in 0 .. MaxItems : log.done[s][p] > 0 => log'.done[s][p] > 0
  <2>1. log.done[s] \in [0 .. MaxItems -> Nat]
    BY DEF TypeOK
  <2>2. \A p \in 0 .. MaxItems : log.done[s][p] \in Nat
    BY <2>1
  <2> QED
    BY <2>2 DEF Grown
<1>3. Got(s) \subseteq 0 .. MaxItems
  BY Opened DEF Got
<1>4. Expected(t, s)'
  BY <1>1, <1>2, <1>3 DEF Expected
<1>5. answers[t] \in Seq([item : 1 .. MaxItems, ok : BOOLEAN])
  BY DEF TypeOK
<1>6. \A j \in DOMAIN answers[t] : answers[t][j].item \in 0 .. MaxItems
  <2>1. \A j \in DOMAIN answers[t] : answers[t][j] \in [item : 1 .. MaxItems, ok : BOOLEAN]
    BY <1>5, Elements
  <2>2. MaxItems \in Nat
    BY Opened
  <2> QED
    BY <2>1, <2>2
<1>7. ASSUME NEW i \in DOMAIN come
      PROVE  /\ come[i].item <= Size(s) /\ ~Unanswered(t, come[i].item)'
             /\ come[i].ok => log'.done[s][come[i].item] > 0
             /\ ~main.wrong => come[i].item \notin Got(s)
  <2>1. CASE \E j \in DOMAIN answers[t] : come[i] = answers[t][j]
    BY <1>2, <1>6, <2>1 DEF Answered
  <2>2. CASE ~\E j \in DOMAIN answers[t] : come[i] = answers[t][j]
    BY <2>2 DEF Expected
  <2> QED
    BY <2>1, <2>2
<1>8. Answered(t, s, come)'
  BY <1>1, <1>7 DEF Answered
<1> QED
  BY <1>4, <1>8

\* A goroutine goes on with its item.
LEMMA ItemGoesOn ==
  ASSUME NEW r \in Runners, IInv, op' = op, main' = main, results' = results, queue' = queue, answers' = answers,
         TypeOK', runner[r].pc \in Busy, runner'[r].pc \in Busy, GoesOn(r)',
         runner'[r].step = runner[r].step, runner'[r].item = runner[r].item,
         \A q \in Runners \ {r} : runner'[q] = runner[q],
         log'.done = log.done, log'.excused = log.excused, log.relogged => log'.relogged
  PROVE  IInv'
<1>1. /\ TypeOK /\ MainOK /\ main.try \in Tries /\ Main \in Runners /\ Step' = Step
      /\ \A s, p : Ahead(s, p)' = Ahead(s, p) /\ AtHand(s, p)' = AtHand(s, p)
      /\ \A t \in Tries : Team(t) \subseteq Runners
  BY Opened, Teams DEF IInv, TypesOK, Step, Ahead, AtHand
<1>2. \A q \in Runners : /\ Works(q)' = Works(q) /\ Holds(q)' = Holds(q)
                         /\ runner'[q].step = runner[q].step /\ runner'[q].item = runner[q].item
  BY DEF Works, Holds, Busy
<1>3. \A q \in Runners : GoesOn(q) => GoesOn(q)'
  BY Constants DEF GoesOn
<1>4. MainOK'
  <2>1. runner'[Main].pc # "idle" <=> runner[Main].pc # "idle"
    BY <1>1, <1>2 DEF Works
  <2>2. runner'[Main].pc \in Busy <=> runner[Main].pc \in Busy
    BY <1>1, <1>2 DEF Holds
  <2> QED
    BY <1>1, <1>2, <1>3, <2>1, <2>2, Constants DEF MainOK
<1>5. TeamsOK'
  <2>1. ASSUME NEW t \in Tries PROVE TeamOK(t)'
    <3>1. TeamOK(t) /\ Team(t) \subseteq Runners
      BY <1>1, <2>1 DEF IInv, TypesOK, TeamsOK
    <3> QED
      BY <1>1, <1>2, <1>3, <3>1, Constants DEF TeamOK
  <2> QED
    BY <2>1 DEF TeamsOK, Tries
<1>6. CollectOK'
  <2>1. SUFFICES ASSUME main.pc = "collect" PROVE CollectOK'
    BY DEF CollectOK
  <2>2. PICK t \in Tries : t = main.try
    BY <1>1
  <2>3. PICK s \in Steps : s = main.step
    BY <1>1, <2>1 DEF MainOK
  <2>4. PICK come : come = answers[t]
    OBVIOUS
  <2>5. /\ \A p : Unanswered(t, p)' = Unanswered(t, p)
        /\ \A q \in Team(t) : Works(q)' => Works(q) /\ runner'[q].step = runner[q].step
    BY <1>1, <1>2 DEF Unanswered
  <2>6. Expected(t, s) /\ Answered(t, s, answers[t])
    BY <2>1, <2>2, <2>3 DEF IInv, TypesOK, CollectOK
  <2>7. Expected(t, s)' /\ Answered(t, s, come)'
    BY <1>1, <2>4, <2>5, <2>6, Collecting DEF Grown, Answered
  <2> QED
    BY <2>2, <2>3, <2>4, <2>7 DEF CollectOK
<1>7. \A t \in Tries, s \in Steps, p \in 0 .. MaxItems : Chance(t, s, p)' => Chance(t, s, p)
  BY <1>1, <1>2 DEF Chance
<1>8. TriesBound'
  BY <1>7, TallyStays
<1>9. KeptOnce'
  BY <1>1, KeptStays
<1>10. Completed' /\ GotDone'
  BY Constants DEF IInv, Completed, Complete, Seen, GotDone
<1>11. ResultsInOrder'
  BY FitsStay DEF Grown
<1> QED
  BY <1>4, <1>5, <1>6, <1>8, <1>9, <1>10, <1>11 DEF IInv, TypesOK

LEMMA IdleRunner ==
  ASSUME TypeOK
  PROVE  Idle \in RunnerType /\ Idle.pc = "idle"
<1>1. 0 \in 0 .. MaxItems /\ 0 \in 0 .. MaxItemRetries /\ 0 \in 0 .. MaxAuthRetries
  BY Opened
<1> QED
  BY <1>1 DEF Idle, RunnerType

\* A new state of one goroutine.
LEMMA Changing ==
  ASSUME TypeOK, NEW r \in Runners, NEW fresh \in RunnerType, runner' = [runner EXCEPT ![r] = fresh]
  PROVE  /\ runner' \in [Runners -> RunnerType] /\ runner'[r] = fresh
         /\ \A q \in Runners \ {r} : runner'[q] = runner[q]
  BY DEF TypeOK

\* What is known of a goroutine at an item.
LEMMA ItemFacts ==
  ASSUME IInv, NEW r \in Runners, runner[r].pc \in Busy
  PROVE  /\ TypeOK /\ runner[r] \in RunnerType /\ TryOf(r) \in Tries /\ main.try \in Tries
         /\ runner[r].step \in Steps /\ runner[r].item \in 0 .. MaxItems /\ GoesOn(r)
         /\ r = Main => /\ main.pc = "call" /\ runner[r].step = main.step /\ runner[r].item = main.item
                        /\ RetriesItems /\ main.item <= Size(main.step)
<1>1. TypeOK /\ MainOK /\ runner[r] \in RunnerType /\ TryOf(r) \in Tries /\ main.try \in Tries
  BY Opened, Teams DEF IInv, TypesOK
<1>2. runner[r].item \in 0 .. MaxItems
  BY <1>1 DEF RunnerType
<1>3. CASE r = Main
  <2>1. main.pc = "call"
    BY <1>1, <1>3 DEF MainOK, Busy
  <2> QED
    BY <1>1, <1>2, <1>3, <2>1 DEF MainOK, InList
<1>4. CASE r # Main
  <2>1. PICK t \in Tries : t = TryOf(r)
    BY <1>1
  <2>2. TeamOK(t) /\ r \in Team(t)
    BY <1>1, <1>4, <2>1, Teams DEF IInv, TypesOK, TeamsOK
  <2>3. Works(r)
    BY DEF Works, Busy
  <2> QED
    BY <1>1, <1>2, <1>4, <2>2, <2>3 DEF TeamOK
<1> QED
  BY <1>3, <1>4

\* Waiting, logging in and calling again.
LEMMA WaitKeeps ==
  ASSUME IInv, NEW r \in Runners,
         \/ /\ runner[r].pc \in {"call", "again"} /\ runner[r].try < MaxItemRetries
            /\ runner' = [runner EXCEPT ![r].pc = "delay"] /\ UNCHANGED <<stored, auth, log>>
         \/ /\ runner[r].pc = "call" /\ Logins # {} /\ auth.retries[TryOf(r)] < MaxAuthRetries
            /\ runner' = [runner EXCEPT ![r].pc = "count", ![r].seen = auth.retries[TryOf(r)]]
            /\ UNCHANGED <<stored, auth, log>>
         \/ /\ runner[r].pc = "relogin"
            /\ runner' = [runner EXCEPT ![r].at = @ + 1,
                             ![r].pc = IF runner[r].at = Len(op.steps) THEN "again" ELSE @]
            /\ UNCHANGED <<stored, auth, log>>
         \/ /\ runner[r].pc = "delay"
            /\ runner' = [runner EXCEPT ![r].pc = "call", ![r].try = @ + 1] /\ UNCHANGED <<stored, auth, log>>
         \/ CountLogin(r),
         UNCHANGED <<op, main, results, queue, answers, live>>
  PROVE  IInv'
<1>1. PICK now : now = runner[r]
  OBVIOUS
<1>2. now.pc \in {"call", "again", "relogin", "delay", "count"} /\ runner[r].pc \in Busy
  BY <1>1 DEF CountLogin, Busy
<1>3. /\ TypeOK /\ now \in RunnerType /\ TryOf(r) \in Tries /\ GoesOn(r) /\ runner \in [Runners -> RunnerType]
      /\ MaxItemRetries \in Nat /\ MaxAuthRetries \in Nat /\ op' = op /\ Logins' = Logins
  BY <1>1, <1>2, ItemFacts, Opened, Constants DEF TypeOK
<1>4. /\ auth \in [loaded : SUBSET Credentials, retries : [Tries -> 0 .. MaxAuthRetries]]
      /\ auth.retries[TryOf(r)] \in 0 .. MaxAuthRetries
  BY <1>3 DEF TypeOK
<1>5. PICK fresh :
        /\ runner' = [runner EXCEPT ![r] = fresh]
        /\ \/ /\ fresh = [now EXCEPT !.pc = "delay"] /\ now.try < MaxItemRetries
              /\ UNCHANGED <<stored, auth, log>>
           \/ /\ fresh = [now EXCEPT !.pc = "count", !.seen = auth.retries[TryOf(r)]] /\ Logins # {}
              /\ auth.retries[TryOf(r)] < MaxAuthRetries /\ UNCHANGED <<stored, auth, log>>
           \/ /\ fresh = [now EXCEPT !.at = now.at + 1,
                                      !.pc = IF now.at = Len(op.steps) THEN "again" ELSE now.pc]
              /\ now.pc = "relogin" /\ UNCHANGED <<stored, auth, log>>
           \/ /\ fresh = [now EXCEPT !.pc = "call", !.try = now.try + 1] /\ now.pc = "delay"
              /\ UNCHANGED <<stored, auth, log>>
           \/ fresh = [now EXCEPT !.pc = "relogin", !.at = LoginStep] /\ CountLogin(r)
  BY <1>1, <1>3 DEF CountLogin
<1>6. /\ fresh \in RunnerType /\ fresh.step = now.step /\ fresh.item = now.item /\ fresh.pc \in Busy
      /\ fresh.pc = "count" => fresh.seen < MaxAuthRetries /\ Logins # {}
      /\ fresh.pc = "delay" => fresh.try < MaxItemRetries
  <2>1. CASE fresh = [now EXCEPT !.pc = "delay"] /\ now.try < MaxItemRetries
    BY <1>3, <2>1 DEF RunnerType, Busy
  <2>2. CASE /\ fresh = [now EXCEPT !.pc = "count", !.seen = auth.retries[TryOf(r)]] /\ Logins # {}
             /\ auth.retries[TryOf(r)] < MaxAuthRetries
    BY <1>3, <1>4, <2>2 DEF RunnerType, Busy
  <2>3. CASE /\ fresh = [now EXCEPT !.at = now.at + 1,
                                     !.pc = IF now.at = Len(op.steps) THEN "again" ELSE now.pc]
             /\ now.pc = "relogin"
    <3>1. PICK pc \in {"again", "relogin"} : pc = IF now.at = Len(op.steps) THEN "again" ELSE now.pc
      BY <2>3
    <3>2. PICK n \in Nat : n = now.at + 1
      BY <1>3 DEF RunnerType
    <3>3. fresh = [now EXCEPT !.at = n, !.pc = pc]
      BY <2>3, <3>1, <3>2
    <3> QED
      BY <1>3, <3>3 DEF RunnerType, Busy
  <2>4. CASE fresh = [now EXCEPT !.pc = "call", !.try = now.try + 1] /\ now.pc = "delay"
    <3>1. PICK n \in 0 .. MaxItemRetries : n = now.try + 1
      BY <1>1, <1>3, <2>4 DEF RunnerType, GoesOn
    <3>2. fresh = [now EXCEPT !.pc = "call", !.try = n]
      BY <2>4, <3>1
    <3> QED
      BY <1>3, <3>2 DEF RunnerType, Busy
  <2>5. CASE fresh = [now EXCEPT !.pc = "relogin", !.at = LoginStep] /\ CountLogin(r)
    <3>1. LoginStep \in Nat
      BY <1>1, <1>3, <2>5, LeastLogin, Opened DEF CountLogin, GoesOn
    <3> QED
      BY <1>3, <2>5, <3>1 DEF RunnerType, Busy
  <2> QED
    BY <1>5, <2>1, <2>2, <2>3, <2>4, <2>5
<1>7. /\ runner' \in [Runners -> RunnerType] /\ runner'[r] = fresh
      /\ \A q \in Runners \ {r} : runner'[q] = runner[q]
  BY <1>3, <1>5, <1>6, Changing
<1>8. /\ log'.done = log.done /\ log'.excused = log.excused /\ (log.relogged => log'.relogged)
      /\ TypeOK'
  <2>1. CASE UNCHANGED <<stored, auth, log>>
    BY <1>3, <1>7, <2>1 DEF TypeOK, Steps
  <2>2. CASE CountLogin(r)
    <3>1. /\ log' = [log EXCEPT !.relogged = TRUE] /\ stored' = stored \ {"cookies"} /\ now.pc = "count"
          /\ auth' = [loaded |-> auth.loaded \ (IF TryOf(r) = main.try THEN {"cookies"} ELSE {}),
                      retries |-> [auth.retries EXCEPT ![TryOf(r)] = now.seen + 1]]
      BY <1>1, <2>2 DEF CountLogin, CountRelogin
    <3>2. PICK n \in 0 .. MaxAuthRetries : n = now.seen + 1
      BY <1>1, <1>3, <3>1 DEF RunnerType, GoesOn
    <3>3. auth' \in [loaded : SUBSET Credentials, retries : [Tries -> 0 .. MaxAuthRetries]]
      BY <1>3, <1>4, <3>1, <3>2
    <3>4. log' \in [done : [Steps -> [0 .. MaxItems -> Nat]], excused : [Steps -> SUBSET (0 .. MaxItems)],
                    relogged : BOOLEAN, panicked : BOOLEAN]
          /\ log'.done = log.done /\ log'.excused = log.excused /\ log'.relogged
      BY <1>3, <3>1 DEF TypeOK
    <3>5. stored' \subseteq Credentials
      BY <1>3, <3>1 DEF TypeOK
    <3> QED
      BY <1>3, <1>7, <3>3, <3>4, <3>5 DEF TypeOK, Steps
  <2> QED
    BY <1>5, <2>1, <2>2
<1>9. GoesOn(r)'
  BY <1>3, <1>6, <1>7 DEF GoesOn
<1>10. runner'[r].pc \in Busy /\ runner'[r].step = runner[r].step /\ runner'[r].item = runner[r].item
  BY <1>1, <1>6, <1>7
<1> QED
  BY <1>2, <1>7, <1>8, <1>9, <1>10, ItemGoesOn

\* The call's own goroutine has done its item: the result is stored at once.
LEMMA MainDone ==
  ASSUME IInv, runner[Main].pc \in Busy, ItemDone(Main), UNCHANGED <<op, queue, stored, auth, live>>
  PROVE  IInv'
<1>1. PICK at : at = main.step
  OBVIOUS
<1>2. PICK n : n = main.item
  OBVIOUS
<1>3. PICK got : got = main.got
  OBVIOUS
<1>4. PICK next : next = Append(got, n)
  OBVIOUS
<1>5. main.pc = "call" /\ Main \in Runners /\ runner[Main].step = at /\ runner[Main].item = n /\ RetriesItems
      /\ n <= Size(at)
  <2>1. Main \in Runners
    BY DEF Runners
  <2> QED
    BY <1>1, <1>2, <2>1, ItemFacts
<1>6. /\ TypeOK /\ MainOK /\ at \in Steps /\ at \in Nat /\ n \in Nat /\ n >= 1 /\ n \in 0 .. MaxItems
      /\ Each(at) = "sequential" /\ got \in Seq(0 .. MaxItems) /\ main \in MainType /\ main.try \in Nat
      /\ Size(at) \in 0 .. MaxItems /\ MaxItems \in Nat /\ runner \in [Runners -> RunnerType]
      /\ Increasing(got)
      /\ \A i \in DOMAIN got : got[i] \in 0 .. MaxItems /\ log.done[at][got[i]] > 0 /\ got[i] < n
  BY <1>1, <1>2, <1>3, <1>5, InListFacts DEF InList
<1>7. /\ next \in Seq(0 .. MaxItems) /\ next # <<>> /\ Increasing(next)
      /\ \A i \in DOMAIN next : next[i] = n \/ \E j \in DOMAIN got : next[i] = got[j]
  BY <1>4, <1>6, Appending
<1>8. /\ Count(at, n) /\ Store(at, next) /\ runner' = [runner EXCEPT ![Main] = Idle]
      /\ main' = [main EXCEPT !.pc = "after", !.got = next] /\ answers' = answers
      /\ op' = op /\ queue' = queue /\ stored' = stored /\ auth' = auth /\ live' = live
  BY <1>1, <1>2, <1>3, <1>4, <1>5 DEF ItemDone
<1>9. /\ main' \in MainType /\ main'.pc = "after" /\ main'.item = n /\ main'.step = at /\ main'.try = main.try
      /\ main'.got = next
  BY <1>1, <1>2, <1>6, <1>7, <1>8 DEF MainType
<1>10. /\ runner' \in [Runners -> RunnerType] /\ runner'[Main].pc = "idle"
       /\ \A q \in Runners \ {Main} : runner'[q] = runner[q]
  BY <1>5, <1>6, <1>8, IdleRunner, Changing
<1>11. /\ log' \in [done : [Steps -> [0 .. MaxItems -> Nat]], excused : [Steps -> SUBSET (0 .. MaxItems)],
                     relogged : BOOLEAN, panicked : BOOLEAN]
       /\ log'.done[at][n] = log.done[at][n] + 1 /\ log.done[at][n] \in Nat
       /\ \A t \in Steps, q \in 0 .. MaxItems : t # at \/ q # n => log'.done[t][q] = log.done[t][q]
       /\ log'.excused = log.excused /\ log'.relogged = log.relogged
  BY <1>6, <1>8, Counting
<1>12. /\ results' \in [Steps -> Seq(0 .. MaxItems) \cup {NoResult}]
       /\ results'[at] = IF op.steps[at].indexed THEN next ELSE results[at]
       /\ \A t \in Steps \ {at} : results'[t] = results[t]
       /\ next # NoResult
  BY <1>6, <1>7, <1>8, Storing
<1>13. Grown
  BY <1>11 DEF Grown
<1>14. TypeOK'
  BY <1>6, <1>8, <1>9, <1>10, <1>11, <1>12 DEF TypeOK, Steps
<1>15. MainOK'
  <2>1. /\ Steps' = Steps /\ Logins' = Logins /\ RetriesItems' = RetriesItems
        /\ \A s : Each(s)' = Each(s) /\ Size(s)' = Size(s)
    BY <1>8, Constants
  <2>2. Step' = op.steps[at]
    BY <1>8, <1>9 DEF Step
  <2>3. n \in 1 .. Size(at) + 1
    BY <1>5, <1>6
  <2> QED
    BY <1>5, <1>6, <1>7, <1>9, <1>10, <1>12, <2>1, <2>2, <2>3 DEF MainOK, InList, GoesOn
<1>16. /\ \A s \in Steps, p \in 0 .. MaxItems : Ahead(s, p)' => Ahead(s, p)
       /\ Ahead(at, n) /\ ~Ahead(at, n)'
  BY <1>1, <1>2, <1>5, <1>6, <1>9 DEF Ahead, InList
<1>17. \A s \in Steps, p \in 0 .. MaxItems : log'.done[s][p] # log.done[s][p] =>
         main'.try = main.try /\ Each(s) # "parallel" /\ Ahead(s, p) /\ ~Ahead(s, p)'
  BY <1>6, <1>9, <1>11, <1>16
<1>18. KeptOnce'
  <2>1. SUFFICES ASSUME NEW s \in Steps, NEW p \in 0 .. MaxItems, Kept(s)
        PROVE  \/ /\ log'.done[s][p] = log.done[s][p]
                  /\ results[s] # NoResult => results'[s] # NoResult
                  /\ AtHand(s, p)' => AtHand(s, p) \/ results[s] = NoResult
               \/ /\ log'.done[s][p] = log.done[s][p] + 1
                  /\ results[s] = NoResult \/ AtHand(s, p)
                  /\ results'[s] # NoResult /\ ~AtHand(s, p)'
    BY <1>8, <1>11, <1>14, KeptStays
  <2>2. AtHand(s, p)' => AtHand(s, p)
    BY <1>1, <1>5, <1>9, <1>16 DEF AtHand, InList
  <2>3. CASE s = at /\ p = n
    <3>1. AtHand(s, p) /\ ~AtHand(s, p)'
      BY <1>1, <1>5, <1>16, <2>3 DEF AtHand, InList
    <3>2. results'[s] # NoResult
      BY <1>12, <2>1, <2>3 DEF Kept
    <3> QED
      BY <1>11, <2>3, <3>1, <3>2
  <2>4. CASE ~(s = at /\ p = n)
    <3>1. results[s] # NoResult => results'[s] # NoResult
      BY <1>12
    <3> QED
      BY <1>11, <2>2, <2>4, <3>1
  <2> QED
    BY <2>3, <2>4
<1>19. Completed'
  <2>1. ~Strict
    BY <1>5, <1>6 DEF Strict, Lists, Each
  <2> QED
    BY <1>8, <2>1, Constants DEF Completed
<1>20. \A i \in DOMAIN next : log'.done[at][next[i]] > 0 /\ (next[i] < n \/ next[i] = n)
  <2>1. ASSUME NEW j \in DOMAIN got PROVE log'.done[at][got[j]] > 0 /\ got[j] < n
    <3>1. got[j] \in 0 .. MaxItems /\ log.done[at][got[j]] > 0 /\ got[j] < n
      BY <1>6, <2>1
    <3>2. got[j] # n
      BY <1>6, <3>1
    <3> QED
      BY <1>6, <1>11, <3>1, <3>2
  <2>2. log'.done[at][n] > 0
    <3>1. PICK k \in Nat : k = log.done[at][n]
      BY <1>11
    <3>2. log'.done[at][n] = k + 1
      BY <1>11, <3>1
    <3> QED
      BY <3>2
  <2> QED
    BY <1>7, <2>1, <2>2
<1>21. GotDone'
  BY <1>7, <1>9, <1>20 DEF GotDone, InList, Increasing
<1>22. \A s \in Steps : results'[s] \in {results[s], NoResult} \/ Fits(s, results[s])'
  <2>1. SUFFICES ASSUME NEW s \in Steps, results'[s] # results[s] PROVE Fits(s, results[s])'
    OBVIOUS
  <2>2. s = at /\ results'[s] = next
    BY <1>12, <2>1
  <2>3. s \notin Lists("parallel")'
    BY <1>6, <1>8, <2>2 DEF Lists, Each
  <2> QED
    BY <1>7, <1>20, <2>2, <2>3 DEF Fits, Increasing
<1>23. main'.pc # "collect" /\ main.try <= main'.try
  BY <1>6, <1>9
<1> QED
  BY <1>8, <1>9, <1>10, <1>13, <1>14, <1>15, <1>16, <1>17, <1>18, <1>19, <1>21, <1>22, <1>23, LoopStep

\* What is known of a worker at an item.
LEMMA HolderFacts ==
  ASSUME IInv, NEW r \in Runners \ {Main}, runner[r].pc \in Busy, NEW t, t = TryOf(r),
         NEW s, s = runner[r].step, NEW p, p = runner[r].item
  PROVE  /\ TypeOK /\ t \in Tries /\ r \in Team(t) /\ TeamOK(t) /\ s \in Steps /\ Each(s) = "parallel"
         /\ p \in 1 .. MaxItems /\ p \in 0 .. MaxItems /\ MaxItems \in Nat /\ Works(r) /\ Holds(r)
         /\ Chance(t, s, p) /\ ~(t > main.try) /\ ~(t = main.try /\ Ahead(s, p))
         /\ \A q \in Team(t) \ {r} : Holds(q) => runner[q].item # p
         /\ \A i \in DOMAIN queue[t] : queue[t][i] # p
<1>1. /\ TypeOK /\ t \in Tries /\ r \in Team(t) /\ TeamOK(t) /\ s \in Steps /\ p \in 0 .. MaxItems
      /\ MaxItems \in Nat /\ Works(r) /\ Holds(r) /\ main.try \in {0, 1} /\ Tries = {0, 1}
  BY ItemFacts, Teams, Opened DEF IInv, TypesOK, TeamsOK, Works, Holds, Busy
<1>2. /\ t <= main.try /\ Each(s) = "parallel" /\ p >= 1 /\ (t = main.try => ~Ahead(s, p))
      /\ \A q \in Team(t) \ {r} : Holds(q) => runner[q].item # p
      /\ \A i \in DOMAIN queue[t] : queue[t][i] # p
  BY <1>1 DEF TeamOK
<1>3. Chance(t, s, p)
  BY <1>1 DEF Chance
<1>4. p \in 1 .. MaxItems /\ ~(t > main.try)
  BY <1>1, <1>2
<1> QED
  BY <1>1, <1>2, <1>3, <1>4

\* A worker has done its item, or given up on it, and answers.
LEMMA WorkerAnswers ==
  ASSUME IInv, NEW r \in Runners \ {Main}, runner[r].pc \in Busy, NEW t, t = TryOf(r),
         NEW s, s = runner[r].step, NEW p, p = runner[r].item, NEW ok \in BOOLEAN,
         UNCHANGED <<op, main, results, queue, stored, auth, live>>,
         runner' = [runner EXCEPT ![r] = [Idle EXCEPT !.pc = "take", !.step = s, !.item = p]],
         answers' = [answers EXCEPT ![t] = Append(@, [item |-> p, ok |-> ok])],
         IF ok THEN Count(s, p) ELSE log' = log
  PROVE  IInv'
<1>1. /\ TypeOK /\ t \in Tries /\ r \in Team(t) /\ TeamOK(t) /\ s \in Steps /\ Each(s) = "parallel"
      /\ p \in 1 .. MaxItems /\ p \in 0 .. MaxItems /\ MaxItems \in Nat /\ Works(r) /\ Holds(r)
      /\ Chance(t, s, p) /\ ~(t > main.try) /\ ~(t = main.try /\ Ahead(s, p))
      /\ \A q \in Team(t) \ {r} : Holds(q) => runner[q].item # p
      /\ \A i \in DOMAIN queue[t] : queue[t][i] # p
  BY HolderFacts
<1>2. PICK fresh : fresh = [Idle EXCEPT !.pc = "take", !.step = s, !.item = p]
  OBVIOUS
<1>3. fresh \in RunnerType /\ fresh.pc = "take" /\ fresh.step = s /\ fresh.item = p
  BY <1>1, <1>2, IdleRunner, Opened DEF Idle, RunnerType
<1>4. /\ runner' \in [Runners -> RunnerType] /\ runner'[r] = fresh
      /\ \A q \in Runners \ {r} : runner'[q] = runner[q]
  BY <1>1, <1>2, <1>3, Changing
<1>5. /\ log' \in [done : [Steps -> [0 .. MaxItems -> Nat]], excused : [Steps -> SUBSET (0 .. MaxItems)],
                    relogged : BOOLEAN, panicked : BOOLEAN]
      /\ Grown
      /\ ok => log'.done[s][p] > 0
      /\ \A u \in Steps, q \in 0 .. MaxItems : log'.done[u][q] # log.done[u][q] => u = s /\ q = p
  <2>1. CASE ok
    <3>1. /\ log' \in [done : [Steps -> [0 .. MaxItems -> Nat]], excused : [Steps -> SUBSET (0 .. MaxItems)],
                        relogged : BOOLEAN, panicked : BOOLEAN]
          /\ log'.done[s][p] = log.done[s][p] + 1 /\ log.done[s][p] \in Nat
          /\ \A u \in Steps, q \in 0 .. MaxItems : u # s \/ q # p => log'.done[u][q] = log.done[u][q]
          /\ log'.excused = log.excused /\ log'.relogged = log.relogged
      BY <1>1, <2>1, Counting
    <3>2. PICK k \in Nat : k = log.done[s][p]
      BY <3>1
    <3>3. log'.done[s][p] > 0
      BY <3>1, <3>2
    <3>4. Grown
      BY <3>1 DEF Grown
    <3>5. \A u \in Steps, q \in 0 .. MaxItems : log'.done[u][q] # log.done[u][q] => u = s /\ q = p
      BY <3>1
    <3> QED
      BY <3>1, <3>3, <3>4, <3>5
  <2>2. CASE ~ok
    BY <1>1, <2>2 DEF TypeOK, Grown
  <2> QED
    BY <2>1, <2>2
<1>6. PICK come \in Seq([item : 1 .. MaxItems, ok : BOOLEAN]) : come = answers[t]
  BY <1>1 DEF TypeOK
<1>7. /\ answers' \in [Tries -> Seq([item : 1 .. MaxItems, ok : BOOLEAN])]
      /\ \A u \in Tries \ {t} : answers'[u] = answers[u]
      /\ answers'[t] = Append(come, [item |-> p, ok |-> ok])
  <2>1. PICK next : next = Append(come, [item |-> p, ok |-> ok])
    OBVIOUS
  <2>2. next \in Seq([item : 1 .. MaxItems, ok : BOOLEAN])
    BY <1>1, <1>6, <2>1
  <2>3. answers' = [answers EXCEPT ![t] = next]
    BY <1>1, <1>6, <2>1 DEF TypeOK
  <2>4. answers \in [Tries -> Seq([item : 1 .. MaxItems, ok : BOOLEAN])]
    BY <1>1 DEF TypeOK
  <2>5. t \in Tries
    BY <1>1
  <2>6. PICK S : S = Seq([item : 1 .. MaxItems, ok : BOOLEAN])
    OBVIOUS
  <2>7. answers' \in [Tries -> S] /\ answers'[t] = next /\ \A u \in Tries \ {t} : answers'[u] = answers[u]
    <3>1. next \in S /\ answers \in [Tries -> S]
      BY <2>2, <2>4, <2>6
    <3> QED
      BY <2>3, <2>5, <3>1
  <2> QED
    BY <2>1, <2>6, <2>7
<1>8. TypeOK'
  BY <1>1, <1>4, <1>5, <1>7 DEF TypeOK, Steps
<1>9. /\ \A q \in Runners \ {r} : /\ Works(q)' = Works(q) /\ Holds(q)' = Holds(q) /\ (GoesOn(q) => GoesOn(q)')
                                  /\ runner'[q].step = runner[q].step /\ runner'[q].item = runner[q].item
      /\ Works(r)' /\ ~Holds(r)' /\ GoesOn(r)' /\ runner'[r].step = s
      /\ \A u \in Tries : Team(u) \subseteq Runners /\ (r \in Team(u) => u = t)
      /\ \A u, q : Ahead(u, q)' = Ahead(u, q)
  BY <1>1, <1>3, <1>4, Teams, Constants DEF Works, Holds, GoesOn, Busy, Ahead
<1>10. TeamsOK'
  <2>1. ASSUME NEW u \in Tries PROVE TeamOK(u)'
    <3>1. TeamOK(u)
      BY <1>1 DEF IInv, TypesOK, TeamsOK
    <3>2. CASE u = t
      BY <1>1, <1>9, <3>1, <3>2, Constants DEF TeamOK
    <3>3. CASE u # t
      BY <1>1, <1>9, <3>1, <3>3, Constants DEF TeamOK
    <3> QED
      BY <3>2, <3>3
  <2> QED
    BY <2>1 DEF TeamsOK, Tries
<1>11. CollectOK'
  <2>1. SUFFICES ASSUME main.pc = "collect" PROVE CollectOK'
    BY DEF CollectOK
  <2>2. PICK at \in Steps : at = main.step
    BY <2>1 DEF IInv, TypesOK, MainOK
  <2>3. PICK u \in Tries : u = main.try
    BY <1>1, Opened
  <2>4. PICK next : next = answers'[u]
    OBVIOUS
  <2>5. Expected(u, at) /\ Answered(u, at, answers[u])
    BY <2>1, <2>2, <2>3 DEF IInv, TypesOK, CollectOK
  <2>6. /\ \A q : Unanswered(u, q)' => Unanswered(u, q)
        /\ \A q \in Team(u) : Works(q)' => Works(q) /\ runner'[q].step = runner[q].step
        /\ u = t => Unanswered(u, p) /\ ~Unanswered(u, p)'
    BY <1>1, <1>9 DEF Unanswered
  <2>7. /\ \A i \in DOMAIN next :
             \/ \E j \in DOMAIN answers[u] : next[i] = answers[u][j]
             \/ u = t /\ next[i] = [item |-> p, ok |-> ok]
        /\ \A i, j \in DOMAIN next : next[i].item = next[j].item => i = j
    <3>1. CASE u # t
      BY <1>7, <2>4, <2>5, <3>1 DEF Answered
    <3>2. CASE u = t
      <4>1. next = Append(come, [item |-> p, ok |-> ok]) /\ come = answers[u]
        BY <1>6, <1>7, <2>4, <3>2
      <4>2. /\ Len(come) \in Nat /\ DOMAIN come = 1 .. Len(come) /\ DOMAIN next = 1 .. Len(come) + 1
            /\ \A i \in 1 .. Len(come) : next[i] = come[i]
            /\ next[Len(come) + 1] = [item |-> p, ok |-> ok]
        BY <4>1
      <4>3. \A i \in DOMAIN come : come[i].item # p
        BY <2>5, <2>6, <3>2, <4>1 DEF Answered
      <4>4. \A i \in DOMAIN next : i \in DOMAIN come \/ i = Len(come) + 1
        BY <4>2
      <4>5. \A i, j \in DOMAIN come : come[i].item = come[j].item => i = j
        BY <2>5, <4>1 DEF Answered
      <4> QED
        BY <3>2, <4>1, <4>2, <4>3, <4>4, <4>5
    <3> QED
      BY <3>1, <3>2
  <2>8. u = t => at = s
    BY <1>1, <2>5 DEF Expected
  <2>9. Expected(u, at)' /\ Answered(u, at, next)'
    <3>1. \A i \in DOMAIN next :
           \/ \E j \in DOMAIN answers[u] : next[i] = answers[u][j]
           \/ /\ next[i].item \in 1 .. MaxItems /\ Unanswered(u, next[i].item) /\ ~Unanswered(u, next[i].item)'
              /\ next[i].ok => log'.done[at][next[i].item] > 0
      <4>1. SUFFICES ASSUME NEW i \in DOMAIN next, ~\E j \in DOMAIN answers[u] : next[i] = answers[u][j]
            PROVE  /\ next[i].item \in 1 .. MaxItems /\ Unanswered(u, next[i].item) /\ ~Unanswered(u, next[i].item)'
                   /\ next[i].ok => log'.done[at][next[i].item] > 0
        OBVIOUS
      <4>2. u = t /\ next[i].item = p /\ next[i].ok = ok
        BY <2>7, <4>1
      <4> QED
        BY <1>1, <1>5, <2>6, <2>8, <4>2
    <3> QED
      BY <1>1, <1>5, <2>5, <2>6, <2>7, <3>1, Collecting
  <2> QED
    BY <2>2, <2>3, <2>4, <2>9 DEF CollectOK
<1>12. \A u \in Tries, v \in Steps, q \in 0 .. MaxItems : Chance(u, v, q)' => Chance(u, v, q)
  BY <1>1, <1>9 DEF Chance
<1>13. ~Chance(t, s, p)'
  BY <1>1, <1>9 DEF Chance
<1>14. \A u \in Steps, q \in 0 .. MaxItems : log'.done[u][q] # log.done[u][q] =>
         Each(u) = "parallel" /\ \E v \in Tries : Chance(v, u, q) /\ ~Chance(v, u, q)'
  <2>1. SUFFICES ASSUME NEW u \in Steps, NEW q \in 0 .. MaxItems, log'.done[u][q] # log.done[u][q]
        PROVE  Each(u) = "parallel" /\ \E v \in Tries : Chance(v, u, q) /\ ~Chance(v, u, q)'
    OBVIOUS
  <2>2. u = s /\ q = p
    BY <1>5, <2>1
  <2> QED
    BY <1>1, <1>13, <2>2
<1> QED
  BY <1>4, <1>5, <1>8, <1>10, <1>11, <1>12, <1>14, WorkerStep

\* A worker's step leaves the workers of the other try alone.
LEMMA OtherTeams ==
  ASSUME IInv, NEW t \in Tries, NEW r \in Team(t), op' = op, main' = main,
         \A q \in Runners \ {r} : runner'[q] = runner[q], \A u \in Tries \ {t} : queue'[u] = queue[u]
  PROVE  \A u \in Tries \ {t} :
           /\ TeamOK(u)'
           /\ \A s, p : Chance(u, s, p)' => Chance(u, s, p)
           /\ \A p : Unanswered(u, p)' => Unanswered(u, p)
           /\ \A q \in Team(u) : Works(q)' => Works(q) /\ runner'[q].step = runner[q].step
<1>1. SUFFICES ASSUME NEW u \in Tries, u # t
      PROVE  /\ TeamOK(u)'
             /\ \A s, p : Chance(u, s, p)' => Chance(u, s, p)
             /\ \A p : Unanswered(u, p)' => Unanswered(u, p)
             /\ \A q \in Team(u) : Works(q)' => Works(q) /\ runner'[q].step = runner[q].step
  OBVIOUS
<1>2. TypeOK /\ TeamOK(u)
  BY DEF IInv, TypesOK, TeamsOK
<1>3. \A q \in Team(u) : runner'[q] = runner[q]
  BY <1>1, <1>2, Teams
<1>4. queue'[u] = queue[u] /\ \A s, p : Ahead(s, p)' = Ahead(s, p)
  BY <1>1 DEF Ahead
<1>5. \A q \in Team(u) : Works(q)' = Works(q) /\ Holds(q)' = Holds(q) /\ GoesOn(q)' = GoesOn(q)
  BY <1>3, Constants DEF Works, Holds, GoesOn
<1>6. TeamOK(u)'
  BY <1>2, <1>3, <1>4, <1>5, Constants DEF TeamOK
<1> QED
  BY <1>3, <1>4, <1>5, <1>6 DEF Chance, Unanswered

\* A worker's step that executes nothing.
LEMMA WorkerMoves ==
  ASSUME IInv, NEW t \in Tries, NEW r \in Team(t), op' = op, main' = main, results' = results,
         \A q \in Runners \ {r} : runner'[q] = runner[q], \A u \in Tries \ {t} : queue'[u] = queue[u],
         \A u \in Tries \ {t} : answers'[u] = answers[u],
         log'.done = log.done, log'.excused = log.excused, log.relogged => log'.relogged, TypeOK', TeamOK(t)',
         Works(r)' => Works(r) /\ runner'[r].step = runner[r].step,
         \A p : Unanswered(t, p)' => Unanswered(t, p),
         \A s \in Steps, p \in 0 .. MaxItems : Chance(t, s, p)' => Chance(t, s, p),
         t = main.try /\ Answered(t, main.step, answers[t]) => \A i, j \in DOMAIN answers'[t] :
           /\ answers'[t][i].item = answers'[t][j].item => i = j
           /\ \/ \E k \in DOMAIN answers[t] : answers'[t][i] = answers[t][k]
              \/ /\ answers'[t][i].item \in 1 .. MaxItems /\ ~answers'[t][i].ok
                 /\ \E k \in DOMAIN queue[t] : answers'[t][i].item = queue[t][k]
                 /\ queue'[t] = <<>> /\ ~Works(r)'
  PROVE  IInv'
<1>1. /\ TypeOK /\ MainOK /\ main.try \in Tries /\ Team(t) \subseteq Runners /\ r # Main /\ TeamOK(t)
      /\ \A q \in Team(t) \ {r} : runner'[q] = runner[q]
  BY Opened, Teams DEF IInv, TypesOK, TeamsOK
<1>2. \A u \in Tries \ {t} :
        /\ TeamOK(u)'
        /\ \A s, p : Chance(u, s, p)' => Chance(u, s, p)
        /\ \A p : Unanswered(u, p)' => Unanswered(u, p)
        /\ \A q \in Team(u) : Works(q)' => Works(q) /\ runner'[q].step = runner[q].step
  BY OtherTeams
<1>3. TeamsOK'
  <2>1. \A u \in Tries : TeamOK(u)'
    BY <1>2
  <2> QED
    BY <2>1 DEF TeamsOK, Tries
<1>4. Grown
  BY DEF Grown
<1>5. CollectOK'
  <2>1. SUFFICES ASSUME main.pc = "collect" PROVE CollectOK'
    BY DEF CollectOK
  <2>2. PICK at \in Steps : at = main.step
    BY <1>1, <2>1 DEF MainOK
  <2>3. PICK u \in Tries : u = main.try
    BY <1>1
  <2>4. PICK next : next = answers'[u]
    OBVIOUS
  <2>5. Expected(u, at) /\ Answered(u, at, answers[u])
    BY <2>1, <2>2, <2>3 DEF IInv, TypesOK, CollectOK
  <2>6. /\ \A p : Unanswered(u, p)' => Unanswered(u, p)
        /\ \A q \in Team(u) : Works(q)' => Works(q) /\ runner'[q].step = runner[q].step
    <3>1. \A q \in Team(t) : Works(q)' => Works(q) /\ runner'[q].step = runner[q].step
      BY <1>1 DEF Works
    <3> QED
      BY <1>2, <3>1
  <2>7. CASE u # t
    <3>1. next = answers[u]
      BY <2>4, <2>7
    <3>2. Expected(u, at)' /\ Answered(u, at, next)'
      BY <1>1, <1>4, <2>5, <2>6, <3>1, Collecting DEF Answered
    <3> QED
      BY <2>2, <2>3, <2>4, <3>2 DEF CollectOK
  <2>8. CASE u = t
    <3>1. \A i, j \in DOMAIN next :
           /\ next[i].item = next[j].item => i = j
           /\ \/ \E k \in DOMAIN answers[u] : next[i] = answers[u][k]
              \/ /\ next[i].item \in 1 .. MaxItems /\ ~next[i].ok
                 /\ \E k \in DOMAIN queue[t] : next[i].item = queue[t][k]
                 /\ queue'[t] = <<>> /\ ~Works(r)'
      BY <2>2, <2>3, <2>4, <2>5, <2>8
    <3>2. ASSUME NEW i \in DOMAIN next, ~\E k \in DOMAIN answers[u] : next[i] = answers[u][k]
          PROVE  next[i].item \in 1 .. MaxItems /\ Unanswered(u, next[i].item) /\ ~Unanswered(u, next[i].item)' /\ ~next[i].ok
      <4>1. PICK p \in 1 .. MaxItems : p = next[i].item
        BY <3>1, <3>2
      <4>2. /\ queue'[t] = <<>> /\ ~Works(r)' /\ ~next[i].ok
            /\ \E k \in DOMAIN queue[t] : queue[t][k] = p
        BY <3>1, <3>2, <4>1
      <4>3. Unanswered(t, p)
        BY <4>2 DEF Unanswered
      <4>4. \A q \in Team(t) : Holds(q)' => Holds(q) /\ runner'[q].item = runner[q].item
        BY <1>1, <4>2 DEF Holds, Works, Busy
      <4>5. \A q \in Team(t) : Holds(q)' => runner'[q].item # p
        BY <1>1, <4>2, <4>4 DEF TeamOK
      <4>6. ~Unanswered(t, p)'
        BY <4>2, <4>5, EmptyList DEF Unanswered
      <4> QED
        BY <2>8, <4>1, <4>2, <4>3, <4>6
    <3>3. Expected(u, at)' /\ Answered(u, at, next)'
      BY <1>1, <1>4, <2>5, <2>6, <3>1, <3>2, Collecting
    <3> QED
      BY <2>2, <2>3, <2>4, <3>3 DEF CollectOK
  <2> QED
    BY <2>7, <2>8
<1>6. \A u \in Tries, s \in Steps, p \in 0 .. MaxItems : Chance(u, s, p)' => Chance(u, s, p)
  BY <1>2
<1>7. Main \in Runners /\ runner'[Main] = runner[Main]
  BY <1>1, Opened
<1> QED
  BY <1>3, <1>4, <1>5, <1>6, <1>7, WorkerStep

LEMMA TakeKeeps ==
  ASSUME IInv, NEW r \in Runners, Take(r)
  PROVE  IInv'
<1>1. PICK t : t = TryOf(r)
  OBVIOUS
<1>2. PICK now : now = runner[r]
  OBVIOUS
<1>3. /\ TypeOK /\ MainOK /\ r # Main /\ t \in Tries /\ r \in Team(t) /\ TeamOK(t) /\ now \in RunnerType
      /\ runner \in [Runners -> RunnerType] /\ Team(t) \subseteq Runners /\ now.pc = "take" /\ Works(r) /\ ~Holds(r)
      /\ MaxItems \in Nat /\ MaxItemRetries \in Nat
  <2>1. TypeOK /\ MainOK /\ now.pc = "take"
    BY <1>2 DEF IInv, TypesOK, Take
  <2>2. r # Main
    BY <1>2, <2>1 DEF MainOK, Busy
  <2>3. t \in Tries /\ r \in Team(t) /\ TeamOK(t) /\ now \in RunnerType /\ Team(t) \subseteq Runners
        /\ MaxItems \in Nat /\ MaxItemRetries \in Nat
    BY <1>1, <1>2, <2>1, <2>2, Teams, Opened DEF IInv, TypesOK, TeamsOK
  <2>4. Works(r) /\ ~Holds(r)
    BY <1>2, <2>1 DEF Works, Holds, Busy
  <2>5. runner \in [Runners -> RunnerType]
    BY <2>1 DEF TypeOK
  <2> QED
    BY <2>1, <2>2, <2>3, <2>4, <2>5
<1>4. /\ op' = op /\ main' = main /\ results' = results /\ answers' = answers /\ stored' = stored /\ auth' = auth
      /\ live' = live /\ log' = log
  BY DEF Take
<1>5. \A s, p : Ahead(s, p)' = Ahead(s, p)
  BY <1>4 DEF Ahead
<1>6. CASE queue[t] # <<>> /\ runner' = [runner EXCEPT ![r] = [@ EXCEPT !.pc = "call", !.try = 0, !.item = Head(queue[t])]]
           /\ queue' = [queue EXCEPT ![t] = Tail(@)]
  <2>1. PICK old \in Seq(1 .. MaxItems) : old = queue[t]
    BY <1>3 DEF TypeOK
  <2>2. PICK p : p = Head(old)
    OBVIOUS
  <2>3. PICK rest : rest = Tail(old)
    OBVIOUS
  <2>4. /\ p \in 1 .. MaxItems /\ p \in 0 .. MaxItems /\ p = old[1] /\ rest \in Seq(1 .. MaxItems)
        /\ 1 \in DOMAIN old /\ \A i \in DOMAIN rest : i + 1 \in DOMAIN old /\ rest[i] = old[i + 1] /\ i + 1 # 1
        /\ \A i \in DOMAIN rest : i \in Nat
    <3>1. old # <<>> /\ Len(old) \in Nat /\ Len(old) > 0 /\ DOMAIN old = 1 .. Len(old) /\ p = old[1] /\ p \in 1 .. MaxItems
          /\ rest \in Seq(1 .. MaxItems)
      BY <1>6, <2>1, <2>2, <2>3, Elements
    <3>2. Len(rest) = Len(old) - 1 /\ DOMAIN rest = 1 .. Len(rest)
          /\ \A i \in 1 .. Len(old) - 1 : rest[i] = old[i + 1]
      BY <2>3, <3>1
    <3>3. PICK n \in Nat : n = Len(old) /\ n > 0
      BY <3>1
    <3>4. \A i \in DOMAIN rest : i \in 1 .. n - 1 /\ i \in Nat /\ i + 1 \in 1 .. n /\ i + 1 # 1
      BY <3>2, <3>3
    <3>5. p \in 0 .. MaxItems /\ 1 \in DOMAIN old
      BY <1>3, <3>1
    <3> QED
      BY <3>1, <3>2, <3>3, <3>4, <3>5
  <2>5. PICK fresh : fresh = [now EXCEPT !.pc = "call", !.try = 0, !.item = p]
    OBVIOUS
  <2>6. fresh \in RunnerType /\ fresh.pc = "call" /\ fresh.item = p /\ fresh.step = now.step
    <3>1. 0 \in 0 .. MaxItemRetries
      BY <1>3
    <3> QED
      BY <1>3, <2>4, <2>5, <3>1 DEF RunnerType
  <2>7. /\ runner' \in [Runners -> RunnerType] /\ runner'[r] = fresh
        /\ \A q \in Runners \ {r} : runner'[q] = runner[q]
    <3>1. runner' = [runner EXCEPT ![r] = fresh]
      BY <1>2, <1>3, <1>6, <2>1, <2>2, <2>5
    <3> QED
      BY <1>3, <2>6, <3>1, Changing
  <2>8. /\ queue' \in [Tries -> Seq(1 .. MaxItems)] /\ queue'[t] = rest
        /\ \A u \in Tries \ {t} : queue'[u] = queue[u]
    <3>1. queue \in [Tries -> Seq(1 .. MaxItems)]
      BY <1>3 DEF TypeOK
    <3> QED
      BY <1>3, <1>6, <2>1, <2>3, <2>4, <3>1
  <2>9. TypeOK'
    BY <1>3, <1>4, <2>7, <2>8 DEF TypeOK, Steps
  <2>10. /\ Works(r)' /\ Holds(r)' /\ GoesOn(r)' /\ runner'[r].step = runner[r].step /\ runner'[r].item = p
         /\ \A q \in Team(t) \ {r} : /\ Works(q)' = Works(q) /\ Holds(q)' = Holds(q) /\ GoesOn(q)' = GoesOn(q)
                                   /\ runner'[q] = runner[q]
         /\ \A q \in Team(t) : runner'[q].step = runner[q].step
    BY <1>2, <1>3, <1>4, <2>6, <2>7, Constants DEF Works, Holds, GoesOn, Busy
  <2>11. /\ \A i, j \in DOMAIN old : old[i] = old[j] => i = j
         /\ \A q \in Team(t) : Holds(q) => \A i \in DOMAIN old : old[i] # runner[q].item
    BY <1>3, <2>1 DEF TeamOK
  <2>12. /\ \A i, j \in DOMAIN rest : rest[i] = rest[j] => i = j
         /\ \A i \in DOMAIN rest : rest[i] # p
         /\ \A q \in Team(t) \ {r} : Holds(q) => runner[q].item # p /\ \A i \in DOMAIN rest : rest[i] # runner[q].item
    BY <2>4, <2>11
  <2>13. TeamOK(t)'
    <3>1. \A q \in Team(t) : Works(q)' =>
            /\ t <= main'.try /\ runner'[q].step \in Steps' /\ Each(runner[q].step)' = "parallel"
            /\ t = main'.try => \A x \in 0 .. MaxItems : ~Ahead(runner[q].step, x)'
            /\ \A v \in Team(t) : Works(v)' => runner'[v].step = runner'[q].step
      <4>1. SUFFICES ASSUME NEW q \in Team(t), Works(q)'
            PROVE /\ t <= main'.try /\ runner'[q].step \in Steps' /\ Each(runner[q].step)' = "parallel"
                  /\ t = main'.try => \A x \in 0 .. MaxItems : ~Ahead(runner[q].step, x)'
                  /\ \A v \in Team(t) : Works(v)' => runner'[v].step = runner'[q].step
        OBVIOUS
      <4>2. PICK s : s = runner[q].step
        OBVIOUS
      <4>3. /\ t <= main.try /\ s \in Steps /\ Each(s) = "parallel"
            /\ t = main.try => \A x \in 0 .. MaxItems : ~Ahead(s, x)
            /\ \A v \in Team(t) : Works(v) => runner[v].step = s
        BY <1>3, <2>10, <4>1, <4>2 DEF TeamOK
      <4>4. runner'[q].step = s /\ Steps' = Steps /\ Each(s)' = "parallel"
        BY <1>4, <2>10, <4>2, <4>3, Constants
      <4> QED
        BY <1>3, <1>4, <1>5, <2>10, <4>3, <4>4
    <3>2. \A q \in Team(t) : GoesOn(q)'
      BY <1>3, <2>10 DEF TeamOK
    <3>3. \A i, j \in DOMAIN queue'[t] : queue'[t][i] = queue'[t][j] => i = j
      BY <2>8, <2>12
    <3>4. \A q \in Team(t) : Holds(q)' => runner'[q].item >= 1 /\ \A i \in DOMAIN rest : rest[i] # runner'[q].item
      <4>1. p >= 1
        BY <1>3, <2>4
      <4>2. \A q \in Team(t) \ {r} : Holds(q) => runner[q].item >= 1
        BY <1>3 DEF TeamOK
      <4> QED
        BY <2>10, <2>12, <4>1, <4>2
    <3>5. \A q, v \in Team(t) : Holds(q)' /\ Holds(v)' /\ q # v => runner'[q].item # runner'[v].item
      <4>1. \A q, v \in Team(t) \ {r} : Holds(q) /\ Holds(v) /\ q # v => runner[q].item # runner[v].item
        BY <1>3 DEF TeamOK
      <4> QED
        BY <2>10, <2>12, <4>1
    <3> QED
      BY <2>8, <3>1, <3>2, <3>3, <3>4, <3>5 DEF TeamOK
  <2>14. \A x : Unanswered(t, x)' => Unanswered(t, x)
    <3>1. \A i \in DOMAIN rest : \E j \in DOMAIN queue[t] : queue[t][j] = rest[i]
      BY <2>1, <2>4
    <3>2. \E j \in DOMAIN queue[t] : queue[t][j] = p
      BY <2>1, <2>4
    <3>3. \A q \in Team(t) : Holds(q)' => (Holds(q) /\ runner'[q].item = runner[q].item) \/ runner'[q].item = p
      BY <2>10
    <3> QED
      BY <2>8, <3>1, <3>2, <3>3 DEF Unanswered
  <2>15. \A s \in Steps, x \in 0 .. MaxItems : Chance(t, s, x)' => Chance(t, s, x)
    <3>1. SUFFICES ASSUME NEW s \in Steps, NEW x \in 0 .. MaxItems, Chance(t, s, x)' PROVE Chance(t, s, x)
      OBVIOUS
    <3>2. CASE t > main'.try \/ (t = main'.try /\ Ahead(s, x)')
      BY <1>4, <1>5, <3>2 DEF Chance
    <3>3. CASE ~(t > main'.try \/ (t = main'.try /\ Ahead(s, x)'))
      <4>1. PICK q \in Team(t) : /\ Works(q)' /\ runner'[q].step = s
                                 /\ \/ Holds(q)' /\ runner'[q].item = x
                                    \/ \E i \in DOMAIN rest : rest[i] = x
        BY <2>8, <3>1, <3>3 DEF Chance
      <4>2. Works(q) /\ runner[q].step = s
        BY <1>3, <2>10, <4>1
      <4>3. (Holds(q) /\ runner[q].item = x) \/ \E i \in DOMAIN queue[t] : queue[t][i] = x
        BY <2>1, <2>4, <2>10, <4>1
      <4> QED
        BY <4>2, <4>3 DEF Chance
    <3> QED
      BY <3>2, <3>3
  <2> QED
    BY <1>3, <1>4, <2>7, <2>8, <2>9, <2>10, <2>13, <2>14, <2>15, WorkerMoves DEF Answered
<1>7. CASE runner' = [runner EXCEPT ![r] = Idle] /\ queue' = queue
  <2>1. /\ runner' \in [Runners -> RunnerType] /\ runner'[r] = Idle /\ Idle.pc = "idle"
        /\ \A q \in Runners \ {r} : runner'[q] = runner[q]
    BY <1>3, <1>7, IdleRunner, Changing
  <2>2. TypeOK'
    BY <1>3, <1>4, <1>7, <2>1 DEF TypeOK, Steps
  <2>3. /\ ~Works(r)' /\ ~Holds(r)' /\ GoesOn(r)'
        /\ \A q \in Team(t) \ {r} : /\ Works(q)' = Works(q) /\ Holds(q)' = Holds(q) /\ GoesOn(q)' = GoesOn(q)
                                  /\ runner'[q] = runner[q]
    BY <1>3, <1>4, <2>1, Constants DEF Works, Holds, GoesOn, Busy
  <2>4. TeamOK(t)' /\ \A x : Unanswered(t, x)' => Unanswered(t, x)
    BY <1>3, <1>4, <1>5, <1>7, <2>3, Constants DEF TeamOK, Unanswered
  <2>5. \A s \in Steps, x \in 0 .. MaxItems : Chance(t, s, x)' => Chance(t, s, x)
    BY <1>4, <1>5, <1>7, <2>3 DEF Chance
  <2> QED
    BY <1>3, <1>4, <1>7, <2>1, <2>2, <2>3, <2>4, <2>5, WorkerMoves DEF Answered
<1> QED
  BY <1>1, <1>6, <1>7 DEF Take

LEMMA PanicKeeps ==
  ASSUME IInv, NEW r \in Runners, Panic(r)
  PROVE  IInv'
<1>1. PICK t : t = TryOf(r)
  OBVIOUS
<1>2. /\ r # Main /\ runner[r].pc \in Busy /\ op' = op /\ main' = main /\ results' = results /\ stored' = stored
      /\ auth' = auth /\ live' = live /\ log' = [log EXCEPT !.panicked = TRUE]
      /\ runner' = [runner EXCEPT ![r] = Idle] /\ queue' = [queue EXCEPT ![t] = <<>>]
  BY <1>1 DEF Panic, Busy
<1>3. /\ TypeOK /\ t \in Tries /\ r \in Team(t) /\ TeamOK(t) /\ Team(t) \subseteq Runners /\ Works(r)
  BY <1>1, <1>2, HolderFacts, Teams
<1>4. PICK old \in Seq(1 .. MaxItems) : old = queue[t]
  BY <1>3 DEF TypeOK
<1>5. PICK come \in Seq([item : 1 .. MaxItems, ok : BOOLEAN]) : come = answers[t]
  BY <1>3 DEF TypeOK
<1>6. PICK lost : lost = [i \in DOMAIN old |-> [item |-> old[i], ok |-> FALSE]]
  OBVIOUS
<1>7. PICK next : next = come \o lost
  OBVIOUS
<1>8. /\ lost \in Seq([item : 1 .. MaxItems, ok : BOOLEAN]) /\ Len(lost) = Len(old) /\ DOMAIN lost = DOMAIN old
      /\ \A i \in DOMAIN old : lost[i].item = old[i] /\ ~lost[i].ok /\ old[i] \in 1 .. MaxItems
  <2>1. Len(old) \in Nat /\ DOMAIN old = 1 .. Len(old) /\ \A i \in DOMAIN old : old[i] \in 1 .. MaxItems
    BY Elements
  <2>2. \A i \in DOMAIN old : [item |-> old[i], ok |-> FALSE] \in [item : 1 .. MaxItems, ok : BOOLEAN]
    BY <2>1
  <2>3. lost \in [1 .. Len(old) -> [item : 1 .. MaxItems, ok : BOOLEAN]]
    BY <1>6, <2>1, <2>2
  <2>4. lost \in Seq([item : 1 .. MaxItems, ok : BOOLEAN]) /\ Len(lost) = Len(old) /\ DOMAIN lost = DOMAIN old
    BY <2>1, <2>3, ListOf
  <2> QED
    BY <1>6, <2>1, <2>4
<1>9. /\ next \in Seq([item : 1 .. MaxItems, ok : BOOLEAN]) /\ Len(come) \in Nat
      /\ \A i \in DOMAIN next : /\ i \in Nat
                               /\ \/ i \in DOMAIN come /\ next[i] = come[i]
                                  \/ i - Len(come) \in DOMAIN old /\ next[i] = lost[i - Len(come)]
  BY <1>7, <1>8, Elements
<1>10. /\ answers' \in [Tries -> Seq([item : 1 .. MaxItems, ok : BOOLEAN])] /\ answers'[t] = next
       /\ \A u \in Tries \ {t} : answers'[u] = answers[u]
  <2>1. answers \in [Tries -> Seq([item : 1 .. MaxItems, ok : BOOLEAN])]
    BY <1>3 DEF TypeOK
  <2>2. answers' = [answers EXCEPT ![t] = next]
    BY <1>1, <1>3, <1>4, <1>5, <1>6, <1>7, <2>1 DEF Panic
  <2> QED
    BY <1>3, <1>9, <2>1, <2>2
<1>11. /\ queue' \in [Tries -> Seq(1 .. MaxItems)] /\ queue'[t] = <<>> /\ DOMAIN queue'[t] = {}
       /\ \A u \in Tries \ {t} : queue'[u] = queue[u]
  <2>1. <<>> \in Seq(1 .. MaxItems) /\ DOMAIN <<>> = {}
    OBVIOUS
  <2>2. queue \in [Tries -> Seq(1 .. MaxItems)]
    BY <1>3 DEF TypeOK
  <2> QED
    BY <1>2, <1>3, <2>1, <2>2
<1>12. /\ runner' \in [Runners -> RunnerType] /\ runner'[r] = Idle /\ Idle.pc = "idle"
       /\ \A q \in Runners \ {r} : runner'[q] = runner[q]
  BY <1>2, <1>3, IdleRunner, Changing
<1>13. /\ log' \in [done : [Steps -> [0 .. MaxItems -> Nat]], excused : [Steps -> SUBSET (0 .. MaxItems)],
                     relogged : BOOLEAN, panicked : BOOLEAN]
       /\ log'.done = log.done /\ log'.excused = log.excused /\ log'.relogged = log.relogged
  BY <1>2, <1>3 DEF TypeOK
<1>14. TypeOK'
  BY <1>2, <1>3, <1>10, <1>11, <1>12, <1>13 DEF TypeOK, Steps
<1>15. /\ ~Works(r)' /\ ~Holds(r)' /\ GoesOn(r)'
       /\ \A q \in Team(t) \ {r} : /\ Works(q)' = Works(q) /\ Holds(q)' = Holds(q) /\ GoesOn(q)' = GoesOn(q)
                                 /\ runner'[q] = runner[q]
       /\ \A s, x : Ahead(s, x)' = Ahead(s, x)
  BY <1>2, <1>3, <1>12, Constants DEF Works, Holds, GoesOn, Busy, Ahead
<1>16. TeamOK(t)'
  BY <1>2, <1>3, <1>11, <1>15, Constants DEF TeamOK
<1>17. \A x : Unanswered(t, x)' => Unanswered(t, x)
  BY <1>11, <1>15 DEF Unanswered
<1>18. \A s \in Steps, x \in 0 .. MaxItems : Chance(t, s, x)' => Chance(t, s, x)
  BY <1>2, <1>11, <1>15 DEF Chance
<1>19. ASSUME Answered(t, main.step, come), NEW i \in DOMAIN next, NEW j \in DOMAIN next
       PROVE  /\ next[i].item = next[j].item => i = j
              /\ \/ \E k \in DOMAIN come : next[i] = come[k]
                 \/ /\ next[i].item \in 1 .. MaxItems /\ ~next[i].ok
                    /\ \E k \in DOMAIN old : next[i].item = old[k]
  <2>1. PICK n \in Nat : n = Len(come)
    BY <1>9
  <2>2. \A k \in DOMAIN next : /\ k \in Nat
                             /\ \/ k \in DOMAIN come /\ next[k] = come[k]
                                \/ /\ k - n \in DOMAIN old /\ next[k].item = old[k - n] /\ ~next[k].ok
                                   /\ old[k - n] \in 1 .. MaxItems
    BY <1>8, <1>9, <2>1
  <2>3. \A k \in DOMAIN come, l \in DOMAIN old : come[k].item # old[l]
    <3>1. \A k \in DOMAIN come : ~Unanswered(t, come[k].item)
      BY <1>19 DEF Answered
    <3> QED
      BY <1>4, <3>1 DEF Unanswered
  <2>4. \A k, l \in DOMAIN old : old[k] = old[l] => k = l
    BY <1>3, <1>4 DEF TeamOK
  <2>5. ASSUME next[i].item = next[j].item PROVE i = j
    <3>1. CASE i \in DOMAIN come /\ next[i] = come[i]
      BY <1>19, <2>2, <2>3, <2>5, <3>1 DEF Answered
    <3>2. CASE ~(i \in DOMAIN come /\ next[i] = come[i])
      <4>1. i - n \in DOMAIN old /\ j - n \in DOMAIN old /\ old[i - n] = old[j - n]
        BY <2>2, <2>3, <2>5, <3>2
      <4>2. i - n = j - n /\ i \in Nat /\ j \in Nat
        BY <2>2, <2>4, <4>1
      <4> QED
        BY <4>2
    <3> QED
      BY <3>1, <3>2
  <2> QED
    BY <2>2, <2>5
<1>20. t = main.try /\ Answered(t, main.step, answers[t]) => \A i, j \in DOMAIN answers'[t] :
         /\ answers'[t][i].item = answers'[t][j].item => i = j
         /\ \/ \E k \in DOMAIN answers[t] : answers'[t][i] = answers[t][k]
            \/ /\ answers'[t][i].item \in 1 .. MaxItems /\ ~answers'[t][i].ok
               /\ \E k \in DOMAIN queue[t] : answers'[t][i].item = queue[t][k]
               /\ queue'[t] = <<>> /\ ~Works(r)'
  BY <1>4, <1>5, <1>10, <1>11, <1>15, <1>19
<1> QED
  BY <1>2, <1>3, <1>10, <1>11, <1>12, <1>13, <1>14, <1>15, <1>16, <1>17, <1>18, <1>20, WorkerMoves

---------------------------------------------------------------------------
\* Steps of the collector.

LEMMA CollectorStep ==
  ASSUME IInv, op' = op, results' = results, log' = log, main.pc \in {"list", "collect"}, main'.pc = "collect",
         main'.step = main.step, main'.try = main.try, runner'[Main] = runner[Main],
         TypeOK', TeamsOK', CollectOK',
         \A t \in Tries, s \in Steps, p \in 0 .. MaxItems : Chance(t, s, p)' => Chance(t, s, p)
  PROVE  IInv'
<1>1. /\ MainOK /\ main.step \in Steps /\ Steps' = Steps /\ Step' = Step /\ runner[Main].pc = "idle"
      /\ \A s \in Steps : s \in Nat
  BY Opened, Alone DEF IInv, TypesOK, MainOK, Steps, Step
<1>2. MainOK'
  BY <1>1 DEF MainOK, InList, GoesOn
<1>3. TriesBound'
  BY TallyStays
<1>4. KeptOnce'
  <2>1. \A s, p : ~AtHand(s, p)'
    BY DEF AtHand, InList
  <2> QED
    BY <2>1, KeptStays
<1>5. Completed'
  <2>1. main.step \in Nat /\ main'.step <= main.step /\ main'.step \in Nat
    BY <1>1
  <2> QED
    BY <2>1, CompletedStays
<1>6. GotDone'
  BY DEF GotDone, InList
<1>7. ResultsInOrder'
  BY FitsStay DEF Grown
<1> QED
  BY <1>2, <1>3, <1>4, <1>5, <1>6, <1>7 DEF IInv, TypesOK

LEMMA CollectKeeps ==
  ASSUME IInv, Collect
  PROVE  IInv'
<1>1. PICK t \in Tries : t = main.try
  BY Opened DEF IInv, TypesOK
<1>2. PICK s \in Steps : s = main.step
  BY DEF Collect, IInv, TypesOK, MainOK
<1>3. PICK come \in Seq([item : 1 .. MaxItems, ok : BOOLEAN]) : come = answers[t]
  BY DEF IInv, TypesOK, TypeOK
<1>4. PICK a : a = Head(come)
  OBVIOUS
<1>5. PICK p : p = a.item
  OBVIOUS
<1>6. PICK x : x = IF a.ok THEN p ELSE 0
  OBVIOUS
<1>7. /\ main.pc = "collect" /\ main.due > 0 /\ come # <<>>
      /\ main' = [main EXCEPT !.due = main.due - 1, !.wrong = main.wrong \/ ~a.ok, !.got[p] = x]
      /\ answers' = [answers EXCEPT ![t] = Tail(@)]
      /\ op' = op /\ runner' = runner /\ results' = results /\ queue' = queue /\ stored' = stored /\ auth' = auth
      /\ live' = live /\ log' = log
  BY <1>1, <1>3, <1>4, <1>5, <1>6 DEF Collect
<1>8. /\ TypeOK /\ MainOK /\ main \in MainType /\ main.got \in Seq(0 .. MaxItems) /\ MaxItems \in Nat
      /\ Size(s) \in 0 .. MaxItems /\ runner \in [Runners -> RunnerType] /\ runner[Main].pc = "idle"
      /\ Expected(t, s) /\ Answered(t, s, come) /\ main.try \in {0, 1} /\ Tries = {0, 1}
  BY <1>1, <1>2, <1>3, <1>7, Opened, Alone DEF IInv, TypesOK, CollectOK
<1>9. PICK rest : rest = Tail(come)
  OBVIOUS
<1>10. /\ rest \in Seq([item : 1 .. MaxItems, ok : BOOLEAN]) /\ a = come[1] /\ 1 \in DOMAIN come
       /\ a \in [item : 1 .. MaxItems, ok : BOOLEAN]
       /\ \A i \in DOMAIN rest : i + 1 \in DOMAIN come /\ rest[i] = come[i + 1] /\ i + 1 # 1 /\ i \in Nat
  <2>1. /\ Len(come) \in Nat /\ Len(come) > 0 /\ DOMAIN come = 1 .. Len(come) /\ a = come[1]
        /\ a \in [item : 1 .. MaxItems, ok : BOOLEAN]
        /\ rest \in Seq([item : 1 .. MaxItems, ok : BOOLEAN])
    BY <1>4, <1>7, <1>9, Elements
  <2>2. Len(rest) = Len(come) - 1 /\ DOMAIN rest = 1 .. Len(rest)
        /\ \A i \in 1 .. Len(come) - 1 : rest[i] = come[i + 1]
    BY <1>9, <2>1
  <2>3. PICK n \in Nat : n = Len(come) /\ n > 0
    BY <2>1
  <2>4. \A i \in DOMAIN rest : i \in 1 .. n - 1 /\ i \in Nat /\ i + 1 \in 1 .. n /\ i + 1 # 1
    BY <2>2, <2>3
  <2>5. 1 \in DOMAIN come
    BY <2>1
  <2> QED
    BY <2>1, <2>2, <2>3, <2>4, <2>5
<1>11. /\ p \in 1 .. MaxItems /\ a.ok \in BOOLEAN /\ p \in 1 .. Size(s) /\ ~Unanswered(t, p)
       /\ (a.ok => log.done[s][p] > 0) /\ (~main.wrong => p \notin Got(s))
  <2>1. p \in 1 .. MaxItems /\ a.ok \in BOOLEAN /\ p <= Size(s)
    BY <1>5, <1>8, <1>10 DEF Answered
  <2>2. p \in 1 .. Size(s)
    BY <1>8, <2>1
  <2> QED
    BY <1>5, <1>8, <1>10, <2>1, <2>2 DEF Answered
<1>12. PICK got : got = [main.got EXCEPT ![p] = x]
  OBVIOUS
<1>13. PICK wrong : wrong = (main.wrong \/ ~a.ok)
  OBVIOUS
<1>14. PICK due \in 0 .. MaxItems : due = main.due - 1
  BY <1>7, <1>8 DEF MainType
<1>15. /\ got \in Seq(0 .. MaxItems) /\ DOMAIN got = DOMAIN main.got /\ got[p] = x
       /\ \A i \in DOMAIN got : i # p => got[i] = main.got[i]
  <2>1. x \in 0 .. MaxItems
    BY <1>6, <1>8, <1>11
  <2>2. DOMAIN main.got = 1 .. Size(s) /\ \A i \in DOMAIN main.got : main.got[i] \in 0 .. MaxItems
    BY <1>8, Elements DEF Expected
  <2>3. got \in [1 .. Size(s) -> 0 .. MaxItems]
    BY <1>8, <1>11, <1>12, <2>1, <2>2
  <2>4. got \in Seq(0 .. MaxItems)
    <3>1. Size(s) \in Nat
      BY <1>8
    <3> QED
      BY <2>3, <3>1, ListOf
  <2> QED
    BY <1>8, <1>11, <1>12, <2>2, <2>4
<1>16. /\ main' \in MainType /\ main'.pc = "collect" /\ main'.step = s /\ main'.try = t /\ main'.got = got
       /\ main'.due = due /\ main'.wrong = wrong
  <2>1. main' = [main EXCEPT !.due = due, !.wrong = wrong, !.got = got]
    BY <1>7, <1>8, <1>12, <1>13, <1>14 DEF MainType
  <2>2. wrong \in BOOLEAN
    BY <1>13
  <2> QED
    BY <1>1, <1>2, <1>7, <1>8, <1>15, <2>1, <2>2 DEF MainType
<1>17. /\ answers' \in [Tries -> Seq([item : 1 .. MaxItems, ok : BOOLEAN])] /\ answers'[t] = rest
  <2>1. answers \in [Tries -> Seq([item : 1 .. MaxItems, ok : BOOLEAN])]
    BY <1>8 DEF TypeOK
  <2>2. answers' = [answers EXCEPT ![t] = rest]
    BY <1>3, <1>7, <1>9, <2>1
  <2> QED
    BY <1>10, <2>1, <2>2
<1>18. TypeOK'
  BY <1>7, <1>8, <1>16, <1>17 DEF TypeOK, Steps
<1>19. /\ TeamsOK'
       /\ \A u \in Tries, v \in Steps, q \in 0 .. MaxItems : Chance(u, v, q)' => Chance(u, v, q)
  <2>1. \A v \in Steps, q \in 0 .. MaxItems : Ahead(v, q)' => Ahead(v, q)
    BY <1>2, <1>7, <1>16 DEF Ahead, InList
  <2>2. main'.try \in {0, 1} /\ main.try <= main'.try /\ TypesOK
    BY <1>1, <1>8, <1>16 DEF IInv
  <2> QED
    BY <1>7, <2>1, <2>2, TeamsStay
<1>20. /\ \A q : Unanswered(t, q)' = Unanswered(t, q)
       /\ \A q \in Team(t) : Works(q)' = Works(q) /\ runner'[q] = runner[q]
       /\ Size(s)' = Size(s) /\ Each(s)' = Each(s)
  BY <1>7, Constants DEF Unanswered, Works, Holds
<1>21. /\ Got(s)' \subseteq Got(s) \cup {p} /\ (p \in Got(s)' => a.ok)
       /\ a.ok => Got(s)' = Got(s) \cup {p}
  <2>1. Got(s)' = {i \in 1 .. Size(s) : got[i] = i}
    BY <1>16, <1>20 DEF Got
  <2>2. DOMAIN got = 1 .. Size(s) /\ p # 0
    BY <1>8, <1>11, <1>15 DEF Expected
  <2> QED
    BY <1>6, <1>11, <1>15, <2>1, <2>2 DEF Got
<1>22. a.ok /\ ~main.wrong => Cardinality(Got(s)') = Cardinality(Got(s)) + 1 /\ Cardinality(Got(s)) \in Nat
  <2>0. Size(s) \in Int
    BY <1>8
  <2>1. IsFiniteSet(1 .. Size(s)) /\ Got(s) \subseteq 1 .. Size(s)
    BY <2>0, FS_Interval DEF Got
  <2>2. IsFiniteSet(Got(s))
    BY <2>1, FS_Subset
  <2> QED
    BY <1>11, <1>21, <2>2, FS_AddElement, FS_CardinalityType
<1>23. Expected(t, s)'
  <2>1. \A i \in 1 .. Size(s) : got[i] \in {0, i}
    BY <1>6, <1>8, <1>15 DEF Expected
  <2>2. \A q \in Got(s)' : log.done[s][q] > 0
    BY <1>8, <1>11, <1>21 DEF Expected
  <2>3. ~wrong => due = Size(s) - Cardinality(Got(s)') /\ \A q \in Got(s)' : ~Unanswered(t, q)
    <3>1. SUFFICES ASSUME ~main.wrong, a.ok PROVE due = Size(s) - Cardinality(Got(s)') /\ \A q \in Got(s)' : ~Unanswered(t, q)
      BY <1>13
    <3>2. main.due = Size(s) - Cardinality(Got(s)) /\ \A q \in Got(s) : ~Unanswered(t, q)
      BY <1>8, <3>1 DEF Expected
    <3>3. due = Size(s) - Cardinality(Got(s)')
      BY <1>8, <1>14, <1>22, <3>1, <3>2
    <3> QED
      BY <1>11, <1>21, <3>2, <3>3
  <2>4. DOMAIN got = 1 .. Size(s)
    BY <1>8, <1>15 DEF Expected
  <2> QED
    BY <1>7, <1>8, <1>16, <1>20, <2>1, <2>2, <2>3, <2>4 DEF Expected
<1>24. Answered(t, s, rest)'
  <2>1. \A i, j \in DOMAIN rest : rest[i].item = rest[j].item => i = j
    <3>1. ASSUME NEW i \in DOMAIN rest, NEW j \in DOMAIN rest, rest[i].item = rest[j].item PROVE i = j
      <4>1. i + 1 \in DOMAIN come /\ j + 1 \in DOMAIN come /\ come[i + 1].item = come[j + 1].item
        BY <1>10, <3>1
      <4>2. i + 1 = j + 1
        BY <1>8, <4>1 DEF Answered
      <4> QED
        BY <1>10, <4>2
    <3> QED
      BY <3>1
  <2>2. ASSUME NEW i \in DOMAIN rest
        PROVE  /\ rest[i].item <= Size(s) /\ ~Unanswered(t, rest[i].item)
               /\ rest[i].ok => log.done[s][rest[i].item] > 0
               /\ ~wrong => rest[i].item \notin Got(s)'
    <3>1. rest[i].item # p
      BY <1>5, <1>8, <1>10 DEF Answered
    <3> QED
      BY <1>8, <1>10, <1>13, <1>21, <3>1 DEF Answered
  <2> QED
    BY <1>7, <1>16, <1>20, <2>1, <2>2 DEF Answered
<1>25. CollectOK'
  BY <1>16, <1>17, <1>23, <1>24 DEF CollectOK
<1> QED
  BY <1>1, <1>2, <1>7, <1>16, <1>18, <1>19, <1>25, CollectorStep

LEMMA WorkersKeep ==
  ASSUME IInv, StartWorkers, Step.items # 0
  PROVE  IInv'
<1>1. PICK t \in Tries : t = main.try
  BY Opened DEF IInv, TypesOK
<1>2. PICK s \in Steps : s = main.step
  BY DEF StartWorkers, IInv, TypesOK, MainOK
<1>3. PICK n : n = Size(s)
  OBVIOUS
<1>4. /\ TypeOK /\ MainOK /\ main \in MainType /\ MaxItems \in Nat /\ n \in 1 .. MaxItems /\ n \in 0 .. MaxItems
      /\ Each(s) = "parallel" /\ main.pc = "list" /\ runner \in [Runners -> RunnerType] /\ runner[Main].pc = "idle"
      /\ Tries = {0, 1} /\ Items = 1 .. n
  <2>1. main.pc = "list" /\ n # 0 /\ Each(s) = "parallel" /\ Items = 1 .. n
    BY <1>2, <1>3 DEF StartWorkers, Step, Size, Each, Items
  <2>2. TypeOK /\ MainOK /\ main \in MainType /\ MaxItems \in Nat /\ n \in 0 .. MaxItems /\ Tries = {0, 1}
    BY <1>2, <1>3, Opened DEF IInv, TypesOK
  <2> QED
    BY <2>1, <2>2, Alone
<1>5. PICK got : got = [i \in 1 .. n |-> 0]
  OBVIOUS
<1>6. PICK all : all = [i \in 1 .. n |-> i]
  OBVIOUS
<1>7. /\ got \in Seq(0 .. MaxItems) /\ DOMAIN got = 1 .. n /\ \A i \in 1 .. n : got[i] = 0
      /\ all \in Seq(1 .. MaxItems) /\ DOMAIN all = 1 .. n /\ \A i \in 1 .. n : all[i] = i
  <2>1. got \in [1 .. n -> 0 .. MaxItems] /\ all \in [1 .. n -> 1 .. MaxItems] /\ n \in Nat
    BY <1>4, <1>5, <1>6
  <2> QED
    BY <1>5, <1>6, <2>1, ListOf
<1>8. PICK ready : ready = [Idle EXCEPT !.pc = "take", !.step = s]
  OBVIOUS
<1>9. /\ ready \in RunnerType /\ ready.pc = "take" /\ ready.step = s
      /\ Idle \in RunnerType /\ Idle.pc = "idle"
  <2>1. Idle \in RunnerType /\ Idle.pc = "idle" /\ s \in Nat
    BY <1>4, IdleRunner, Opened
  <2> QED
    BY <1>8, <2>1 DEF RunnerType, Idle
<1>10. /\ main' = [main EXCEPT !.pc = "collect", !.due = n, !.wrong = FALSE, !.got = got]
       /\ queue' = [queue EXCEPT ![t] = all] /\ answers' = [answers EXCEPT ![t] = <<>>]
       /\ op' = op /\ results' = results /\ stored' = stored /\ auth' = auth /\ live' = live /\ log' = log
  BY <1>1, <1>2, <1>3, <1>4, <1>5, <1>6 DEF StartWorkers, Step, Size
<1>11. PICK W \in SUBSET Workers :
         runner' = [r \in Runners |-> IF r # Main /\ TryOf(r) = main.try
                                      THEN IF r[1] \in W THEN ready ELSE Idle
                                      ELSE runner[r]]
  <2>1. ready = [Idle EXCEPT !.pc = "take", !.step = main.step]
    BY <1>2, <1>8
  <2>2. \E W \in SUBSET Workers :
          /\ Cardinality(W) = NumWorkers
          /\ runner' = [r \in Runners |->
                IF r # Main /\ TryOf(r) = main.try
                THEN IF r[1] \in W THEN [Idle EXCEPT !.pc = "take", !.step = main.step] ELSE Idle
                ELSE runner[r]]
    BY Zenon DEF StartWorkers
  <2> QED
    BY <2>1, <2>2, Zenon
<1>12. /\ runner' \in [Runners -> RunnerType] /\ runner'[Main] = runner[Main]
       /\ \A r \in Team(t) : runner'[r] \in {ready, Idle}
       /\ \A u \in Tries \ {t} : \A r \in Team(u) : runner'[r] = runner[r]
  <2>1. Main \in Runners
    BY DEF Runners
  <2>2. \A r \in Team(t) : r \in Runners /\ r # Main /\ TryOf(r) = main.try
    BY <1>1, <1>4, Teams
  <2>3. \A u \in Tries \ {t} : \A r \in Team(u) : r \in Runners /\ TryOf(r) # main.try
    BY <1>1, <1>4, Teams
  <2>4. runner' \in [Runners -> RunnerType]
    BY <1>4, <1>9, <1>11
  <2> QED
    BY <1>11, <2>1, <2>2, <2>3, <2>4
<1>13. /\ main' \in MainType /\ main'.pc = "collect" /\ main'.step = s /\ main'.try = t /\ main'.got = got
       /\ main'.due = n /\ ~main'.wrong
  BY <1>1, <1>2, <1>4, <1>7, <1>10 DEF MainType
<1>14. /\ queue' \in [Tries -> Seq(1 .. MaxItems)] /\ queue'[t] = all
       /\ \A u \in Tries \ {t} : queue'[u] = queue[u]
       /\ answers' \in [Tries -> Seq([item : 1 .. MaxItems, ok : BOOLEAN])] /\ answers'[t] = <<>>
  BY <1>4, <1>7, <1>10 DEF TypeOK
<1>15. TypeOK'
  BY <1>4, <1>10, <1>12, <1>13, <1>14 DEF TypeOK, Steps
<1>16. /\ \A v \in Steps, q \in 0 .. MaxItems : Ahead(v, q)' => Ahead(v, q)
       /\ \A q : ~Ahead(s, q)' /\ Ahead(s, q)
  <2>1. s \in Nat /\ \A v \in Steps : v \in Nat
    BY <1>4, Opened
  <2> QED
    BY <1>2, <1>4, <1>13, <2>1 DEF Ahead, InList
<1>17. \A r \in Team(t) : ~Holds(r)' /\ GoesOn(r)' /\ (Works(r)' => runner'[r].step = s)
  BY <1>9, <1>12 DEF Holds, Works, GoesOn, Busy
<1>18. TeamsOK'
  <2>1. TeamOK(t)'
    <3>1. t <= main'.try /\ Each(s)' = "parallel" /\ Steps' = Steps
      BY <1>4, <1>10, <1>13, Constants
    <3>2. \A i, j \in DOMAIN all : all[i] = all[j] => i = j
      BY <1>7
    <3> QED
      BY <1>14, <1>16, <1>17, <3>1, <3>2 DEF TeamOK
  <2>2. ASSUME NEW u \in Tries \ {t} PROVE TeamOK(u)'
    <3>1. TeamOK(u) /\ u # main.try
      BY <1>1 DEF IInv, TypesOK, TeamsOK
    <3>2. Steps' = Steps /\ (\A v : Each(v)' = Each(v)) /\ Logins' = Logins /\ main'.try = main.try
      BY <1>1, <1>10, <1>13, Constants
    <3>3. /\ \A r \in Team(u) : runner'[r] = runner[r]
          /\ queue'[u] = queue[u]
      BY <1>12, <1>14
    <3>4. \A r \in Team(u) : GoesOn(r)' = GoesOn(r) /\ Works(r)' = Works(r) /\ Holds(r)' = Holds(r)
      BY <3>2, <3>3 DEF GoesOn, Works, Holds
    <3> QED
      BY <3>1, <3>2, <3>3, <3>4 DEF TeamOK
  <2> QED
    BY <1>4, <2>1, <2>2 DEF TeamsOK, Tries
<1>19. ASSUME NEW u \in Tries, NEW v \in Steps, NEW q \in 0 .. MaxItems, Chance(u, v, q)' PROVE Chance(u, v, q)
  <2>1. CASE u > main'.try \/ (u = main'.try /\ Ahead(v, q)')
    BY <1>1, <1>13, <1>16, <2>1 DEF Chance
  <2>2. CASE u = t /\ ~(u > main'.try \/ (u = main'.try /\ Ahead(v, q)'))
    <3>1. v = s
      BY <1>17, <1>19, <2>2 DEF Chance
    <3> QED
      BY <1>1, <1>16, <2>2, <3>1 DEF Chance
  <2>3. CASE u # t /\ ~(u > main'.try \/ (u = main'.try /\ Ahead(v, q)'))
    BY <1>12, <1>14, <1>19, <2>3 DEF Chance, Works, Holds
  <2> QED
    BY <2>1, <2>2, <2>3
<1>20. CollectOK'
  <2>1. Size(s)' = n /\ Each(s)' = "parallel"
    BY <1>3, <1>4, <1>10, Constants
  <2>2. Got(s)' = {}
    <3>1. Got(s)' = {i \in 1 .. n : got[i] = i}
      BY <1>13, <2>1 DEF Got
    <3> QED
      BY <1>4, <1>7, <3>1
  <2>3. n = n - Cardinality(Got(s)')
    BY <1>4, <2>2, FS_EmptySet
  <2>4. \A p : Unanswered(t, p)' => p \in 1 .. n
    BY <1>7, <1>14, <1>17 DEF Unanswered
  <2>5. Expected(t, s)'
    BY <1>4, <1>7, <1>13, <1>17, <2>1, <2>2, <2>3, <2>4 DEF Expected
  <2>6. Answered(t, s, <<>>)'
    <3>1. DOMAIN <<>> = {}
      BY EmptyList
    <3> QED
      BY <3>1 DEF Answered
  <2> QED
    BY <1>13, <1>14, <2>5, <2>6 DEF CollectOK
<1> QED
  BY <1>1, <1>2, <1>4, <1>10, <1>12, <1>13, <1>15, <1>18, <1>19, <1>20, CollectorStep

---------------------------------------------------------------------------
\* What an item comes to.

LEMMA ItemFailsKeeps ==
  ASSUME IInv, NEW r \in Runners, runner[r].pc \in Busy, ItemFails(r),
         UNCHANGED <<op, results, queue, stored, auth, live, log>>
  PROVE  IInv'
<1>1. CASE r = Main
  <2>1. FailTry /\ runner' = [runner EXCEPT ![Main] = Idle] /\ answers' = answers
    BY <1>1 DEF ItemFails
  <2>2. TypeOK /\ Idle \in RunnerType /\ Idle.pc = "idle"
    BY IdleRunner DEF IInv, TypesOK
  <2>3. /\ runner' \in [Runners -> RunnerType] /\ runner'[Main].pc = "idle"
        /\ \A q \in Runners \ {Main} : runner'[q] = runner[q]
    BY <1>1, <2>1, <2>2, Changing
  <2>4. UNCHANGED <<op, live, inner>>
    BY <2>1 DEF inner
  <2> QED
    BY <2>1, <2>3, <2>4, Failing
<1>2. CASE r # Main
  <2>1. PICK t, s, p : t = TryOf(r) /\ s = runner[r].step /\ p = runner[r].item
    OBVIOUS
  <2>2. PICK ok \in BOOLEAN : ok = FALSE
    OBVIOUS
  <2>3. /\ runner' = [runner EXCEPT ![r] = [Idle EXCEPT !.pc = "take", !.step = s, !.item = p]]
        /\ answers' = [answers EXCEPT ![t] = Append(@, [item |-> p, ok |-> ok])]
        /\ main' = main
    BY <1>2, <2>1, <2>2 DEF ItemFails
  <2>4. IF ok THEN Count(s, p) ELSE log' = log
    BY <2>2
  <2> QED
    BY <1>2, <2>1, <2>3, <2>4, WorkerAnswers
<1> QED
  BY <1>1, <1>2

LEMMA ItemDoneKeeps ==
  ASSUME IInv, NEW r \in Runners, runner[r].pc \in Busy, ItemDone(r),
         UNCHANGED <<op, queue, stored, auth, live>>
  PROVE  IInv'
<1>1. CASE r = Main
  BY <1>1, MainDone
<1>2. CASE r # Main
  <2>1. PICK t, s, p : t = TryOf(r) /\ s = runner[r].step /\ p = runner[r].item
    OBVIOUS
  <2>2. PICK ok \in BOOLEAN : ok = TRUE
    OBVIOUS
  <2>3. /\ runner' = [runner EXCEPT ![r] = [Idle EXCEPT !.pc = "take", !.step = s, !.item = p]]
        /\ answers' = [answers EXCEPT ![t] = Append(@, [item |-> p, ok |-> ok])]
        /\ main' = main /\ results' = results /\ Count(s, p)
    BY <1>2, <2>1, <2>2 DEF ItemDone
  <2>4. IF ok THEN Count(s, p) ELSE log' = log
    BY <2>2, <2>3
  <2> QED
    BY <1>2, <2>1, <2>3, <2>4, WorkerAnswers
<1> QED
  BY <1>1, <1>2

LEMMA ConcludeKeeps ==
  ASSUME IInv, NEW r \in Runners, runner[r].pc \in {"call", "again"}, NEW a, Conclude(r, a),
         UNCHANGED <<op, queue, stored, auth, live>>
  PROVE  IInv'
<1>1. runner[r].pc \in Busy
  BY DEF Busy
<1>2. CASE ItemDone(r)
  BY <1>1, <1>2, ItemDoneKeeps
<1>3. CASE ItemFails(r) /\ UNCHANGED <<results, log>>
  BY <1>1, <1>3, ItemFailsKeeps
<1>4. CASE /\ runner[r].try < MaxItemRetries
           /\ runner' = [runner EXCEPT ![r].pc = "delay"]
           /\ UNCHANGED <<main, results, answers, log>>
  BY <1>4, WaitKeeps
<1> QED
  BY <1>2, <1>3, <1>4 DEF Conclude

LEMMA WorkKeeps ==
  ASSUME IInv, NEW r \in Runners, Work(r)
  PROVE  IInv'
<1>1. CASE Take(r)
  BY <1>1, TakeKeeps
<1>2. CASE Panic(r)
  BY <1>2, PanicKeeps
<1>3. CASE Call(r)
  BY <1>3, ConcludeKeeps DEF Call
<1>4. CASE CallRefused(r)
  <2>1. runner[r].pc \in Busy /\ runner[r].pc = "call" /\ Logins # {}
    BY <1>4 DEF CallRefused, Busy, ItemNeedsLogin
  <2>2. UNCHANGED <<op, results, queue, stored, auth, live, log>>
    BY <1>4 DEF CallRefused
  <2>3. CASE auth.retries[TryOf(r)] >= MaxAuthRetries
    BY <1>4, <2>1, <2>2, <2>3, ItemFailsKeeps DEF CallRefused
  <2>4. CASE ~(auth.retries[TryOf(r)] >= MaxAuthRetries)
    <3>1. /\ runner' = [runner EXCEPT ![r].pc = "count", ![r].seen = auth.retries[TryOf(r)]]
          /\ UNCHANGED <<main, answers>>
      BY <1>4, <2>4 DEF CallRefused
    <3>2. auth.retries[TryOf(r)] < MaxAuthRetries
      <4>1. TryOf(r) \in Tries /\ TypeOK /\ MaxAuthRetries \in Nat
        BY <2>1, ItemFacts, ConstantsAssumption
      <4>2. auth.retries \in [Tries -> 0 .. MaxAuthRetries]
        BY <4>1 DEF TypeOK
      <4>3. auth.retries[TryOf(r)] \in 0 .. MaxAuthRetries
        BY <4>1, <4>2
      <4> QED
        BY <2>4, <4>1, <4>3
    <3> QED
      BY <2>1, <2>2, <3>1, <3>2, WaitKeeps
  <2> QED
    BY <2>3, <2>4
<1>5. CASE CountLogin(r)
  BY <1>5, WaitKeeps DEF CountLogin
<1>6. CASE RepeatForItem(r)
  <2>1. runner[r].pc \in Busy /\ runner[r].pc = "relogin" /\ UNCHANGED <<op, results, queue, stored, auth, live, log>>
    BY <1>6 DEF RepeatForItem, Busy
  <2>2. CASE ItemFails(r)
    BY <2>1, <2>2, ItemFailsKeeps
  <2>3. CASE /\ runner' = [runner EXCEPT ![r].at = @ + 1,
                              ![r].pc = IF runner[r].at = Len(op.steps) THEN "again" ELSE @]
             /\ UNCHANGED <<main, answers>>
    BY <2>1, <2>3, WaitKeeps
  <2> QED
    BY <1>6, <2>2, <2>3 DEF RepeatForItem
<1>7. CASE CallAgain(r)
  BY <1>7, ConcludeKeeps DEF CallAgain
<1>8. CASE Delay(r)
  <2>1. runner[r].pc \in Busy /\ runner[r].pc = "delay" /\ UNCHANGED <<op, results, queue, stored, auth, live, log>>
    BY <1>8 DEF Delay, Busy
  <2>2. CASE ItemFails(r)
    BY <2>1, <2>2, ItemFailsKeeps
  <2>3. CASE /\ runner' = [runner EXCEPT ![r].pc = "call", ![r].try = @ + 1]
             /\ UNCHANGED <<main, answers>>
    BY <2>1, <2>3, WaitKeeps
  <2> QED
    BY <1>8, <2>2, <2>3 DEF Delay
<1> QED
  BY <1>1, <1>2, <1>3, <1>4, <1>5, <1>6, <1>7, <1>8 DEF Work

---------------------------------------------------------------------------
\* The specification.

LEMMA LoopKeeps ==
  ASSUME IInv, Loop
  PROVE  IInv'
<1>1. CASE NoDatabase \/ BadCondition \/ SelfFix \/ LoginRefused \/ RepeatFails \/ ExecuteItemFails
           \/ EndedAtItem \/ StopCollecting
  BY <1>1, QuitKeeps
<1>2. CASE Succeed \/ Repeated \/ TakeStep \/ StartList
  BY <1>2, MovesKeep
<1>3. CASE ExecuteFails \/ Poll
  BY <1>3, MovesKeep, QuitKeeps
<1>4. CASE StartWorkers
  BY <1>4, NoWorkersKeeps, WorkersKeep
<1>5. CASE StartTry \/ SkipDone \/ SkipStep \/ Execute \/ LoginAgain \/ Repeat
  BY <1>5, StartTryKeeps, SkipDoneKeeps, SkipStepKeeps, ExecuteKeeps, LoginAgainKeeps, RepeatKeeps
<1>6. CASE NoItems \/ EndList \/ SkipItem \/ ExecuteItem \/ CallItem \/ AfterItem \/ Collect \/ Collected
  BY <1>6, NoItemsKeeps, EndListKeeps, SkipItemKeeps, ExecuteItemKeeps, CallItemKeeps, AfterItemKeeps,
     CollectKeeps, CollectedKeeps
<1> QED
  BY <1>1, <1>2, <1>3, <1>4, <1>5, <1>6 DEF Loop

\* The context ends, or nothing happens.
LEMMA StillKeeps ==
  ASSUME IInv, UNCHANGED <<op, main, runner, results, queue, answers, stored, auth, log>>, live' \in BOOLEAN
  PROVE  IInv'
<1>1. TypeOK' /\ MainOK'
  <2>1. TypeOK'
    BY DEF IInv, TypesOK, TypeOK, Steps
  <2>2. Step' = Step /\ GoesOn(Main)' = GoesOn(Main)
    BY DEF Step, GoesOn, Logins, Steps
  <2>3. MainOK'
    BY <2>2, Constants DEF IInv, TypesOK, MainOK
  <2> QED
    BY <2>1, <2>3
<1>2. \A s, p : Ahead(s, p)' = Ahead(s, p) /\ AtHand(s, p)' = AtHand(s, p) /\ Seen(s, p)' = Seen(s, p)
  BY DEF Ahead, AtHand, Seen
<1>3. TeamsOK'
  BY <1>2 DEF IInv, TypesOK, TeamsOK, TeamOK, Works, Holds, GoesOn, Each, Logins, Steps
<1>4. CollectOK'
  <2>1. \A t, p : Unanswered(t, p)' = Unanswered(t, p)
    BY DEF Unanswered, Holds
  <2>2. \A s : Got(s)' = Got(s) /\ Each(s)' = Each(s) /\ Size(s)' = Size(s)
    BY DEF Got, Each, Size
  <2>3. \A t, s : Expected(t, s)' = Expected(t, s)
    BY <2>1, <2>2 DEF Expected, Works
  <2>4. \A t, s, come : Answered(t, s, come)' = Answered(t, s, come)
    BY <2>1, <2>2 DEF Answered
  <2> QED
    BY <2>3, <2>4 DEF IInv, TypesOK, CollectOK
<1>5. \A t, s, p : Chance(t, s, p)' = Chance(t, s, p)
  BY <1>2 DEF Chance, Works, Holds
<1>6. TriesBound'
  BY <1>5 DEF IInv, TriesBound, Chances, Steps
<1>7. KeptOnce' /\ Completed'
  BY <1>2, Constants DEF IInv, KeptOnce, Completed, Complete
<1>8. GotDone' /\ ResultsInOrder'
  BY DEF IInv, GotDone, Increasing, ResultsInOrder, Steps, Lists, Each
<1> QED
  BY <1>1, <1>3, <1>4, <1>6, <1>7, <1>8 DEF IInv, TypesOK

LEMMA NextKeeps ==
  ASSUME IInv, [Next]_vars
  PROVE  IInv'
<1>1. CASE Loop
  BY <1>1, LoopKeeps
<1>2. CASE \E r \in Runners : Work(r)
  BY <1>2, WorkKeeps
<1>3. CASE Cancel \/ Terminated \/ UNCHANGED vars
  <2>1. live' \in BOOLEAN /\ UNCHANGED <<op, main, runner, results, queue, answers, stored, auth, log>>
    BY <1>3 DEF Cancel, Terminated, vars, inner, IInv, TypesOK, TypeOK
  <2> QED
    BY <2>1, StillKeeps
<1> QED
  BY <1>1, <1>2, <1>3 DEF Next

LEMMA InitIInv == Init => IInv
<1> SUFFICES ASSUME Init PROVE IInv
  OBVIOUS
<1>1. /\ main.pc = "start" /\ main.try = 0 /\ \A r \in Runners : runner[r] = Idle /\ Idle.pc = "idle"
  BY DEF Init, Idle
<1>2. TypeOK
  <2>1. op \in Operations /\ op \in OperationType /\ stored \subseteq Credentials
    BY ConstantsAssumption DEF Init, OperationType, Credentials
  <2>2. main \in MainType /\ Tries = {0, 1}
    BY ConstantsAssumption DEF Init, MainType, Tries, MaxRetries
  <2>3. Idle \in RunnerType
    BY ConstantsAssumption DEF Idle, RunnerType
  <2>4. runner \in [Runners -> RunnerType] /\ results \in [Steps -> Seq(0 .. MaxItems) \cup {NoResult}]
    BY <2>3 DEF Init
  <2>5. /\ queue \in [Tries -> Seq(1 .. MaxItems)]
        /\ answers \in [Tries -> Seq([item : 1 .. MaxItems, ok : BOOLEAN])]
        /\ live \in BOOLEAN
    BY DEF Init
  <2>6. auth \in [loaded : SUBSET Credentials, retries : [Tries -> 0 .. MaxAuthRetries]]
    BY ConstantsAssumption DEF Init
  <2>7. log \in [done : [Steps -> [0 .. MaxItems -> Nat]], excused : [Steps -> SUBSET (0 .. MaxItems)],
                 relogged : BOOLEAN, panicked : BOOLEAN]
    BY DEF Init
  <2> QED
    BY <2>1, <2>2, <2>4, <2>5, <2>6, <2>7 DEF TypeOK
<1>3. Tries = {0, 1} /\ Main \in Runners /\ \A t \in Tries : Team(t) \subseteq Runners /\ queue[t] = <<>> /\ DOMAIN queue[t] = {}
  <2>1. \A t \in Tries : queue[t] = <<>> /\ DOMAIN <<>> = {}
    BY EmptyList DEF Init
  <2> QED
    BY <1>2, <2>1, Opened, Teams
<1>4. MainOK
  BY <1>1, <1>3 DEF MainOK, InList, GoesOn
<1>5. TeamsOK
  BY <1>1, <1>3 DEF TeamsOK, TeamOK, Works, Holds, GoesOn, Busy
<1>6. \A s \in Steps, p \in 0 .. MaxItems : log.done[s][p] = 0
  BY DEF Init
<1>7. TriesBound
  <2>1. \A s, p : Chances(s, p) \in {0, 1, 2}
    BY DEF Chances
  <2> QED
    BY <1>6, <2>1 DEF TriesBound
<1>8. \A s \in Steps : results[s] = NoResult
  BY DEF Init
<1>9. KeptOnce /\ Completed /\ GotDone /\ CollectOK /\ ResultsInOrder
  BY <1>1, <1>6, <1>8 DEF KeptOnce, Completed, GotDone, CollectOK, InList, ResultsInOrder
<1> QED
  BY <1>2, <1>4, <1>5, <1>7, <1>9 DEF IInv, TypesOK

LEMMA Inductive == Spec => []IInv
  BY InitIInv, NextKeeps, PTL DEF Spec

---------------------------------------------------------------------------
\* What an operation promises.

\* The variables of an operation keep their types: a list's answers have a
\* place in its results, and an item a number of attempts.
THEOREM TypeCorrect == Spec => []TypeOK
<1>1. IInv => TypeOK
  BY DEF IInv, TypesOK
<1> QED
  BY <1>1, Inductive, PTL

\* The second try of Call does not execute again what has a result, and no
\* goroutine of either try executes an item twice.
THEOREM OnceInATry == Spec => []NotRepeated
<1>1. IInv => NotRepeated
  <2> SUFFICES ASSUME IInv, ~log.relogged, KeepsResults, NEW s \in Steps, NEW p \in 0 .. MaxItems
               PROVE  log.done[s][p] <= IF Kept(s) THEN 1 ELSE 2
    BY DEF NotRepeated, Kept, Lists, Each, MaxRetries
  <2>1. log.done[s] \in [0 .. MaxItems -> Nat]
    BY DEF IInv, TypesOK, TypeOK
  <2>2. log.done[s][p] \in Nat
    BY <2>1
  <2>3. PICK c \in {0, 1, 2} : c = Chances(s, p)
    BY DEF Chances
  <2>4. log.done[s][p] + c <= 2
    BY <2>3 DEF IInv, TriesBound
  <2>5. log.done[s][p] <= 2
    BY <2>2, <2>4
  <2>6. Kept(s) => log.done[s][p] <= 1
    BY DEF IInv, KeptOnce
  <2> QED
    BY <2>5, <2>6
<1> QED
  BY <1>1, Inductive, PTL

\* A success stands for every step and every item that no condition excused,
\* however many failures, repetitions and goroutines were on the way.
THEOREM SuccessIsComplete == Spec => []NothingLeftOut
<1>1. IInv => NothingLeftOut
  <2> SUFFICES ASSUME IInv, main.pc = "succeeded", Strict, NEW s \in Steps,
                      NEW p \in IF Each(s) = "no" THEN {0} ELSE 1 .. Size(s)
               PROVE  Seen(s, p)
    BY DEF NothingLeftOut, Strict, Seen, Lists, Each, Size
  <2>1. main.step > Len(op.steps)
    BY DEF IInv, TypesOK, MainOK, Strict
  <2>2. s < main.step
    <3>1. s \in 1 .. Len(op.steps) /\ Len(op.steps) \in Nat /\ main.step \in Nat
      BY Opened DEF IInv, TypesOK
    <3> QED
      BY <2>1, <3>1
  <2>3. Complete(s)
    BY <2>2 DEF IInv, Completed
  <2> QED
    BY <2>3 DEF Complete
<1> QED
  BY <1>1, Inductive, PTL

\* The results of a list come out in the order of its items, and only of items
\* that were executed, in whatever order two goroutines answered.
THEOREM ResultsSorted == Spec => []ResultsInOrder
<1>1. IInv => ResultsInOrder
  BY DEF IInv
<1> QED
  BY <1>1, Inductive, PTL

===============================================================================
