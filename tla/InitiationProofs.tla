--------------------------- MODULE InitiationProofs ---------------------------
(* For any functions, users, number of workers, size of the channel and      *)
(* number of tries: an item of a parallel step is initiated at most once by  *)
(* each try, and by the last one if the operation succeeds.                  *)
(*                                                                           *)
(* In a pool every item that was fed is in one place: in the channel, with   *)
(* one worker, or among the items that are done (PoolOK).  So how often the  *)
(* workflow of an item was initiated is the number of tries that are done    *)
(* with it (Counted), and a pool whose workers are gone is done with all.    *)
EXTENDS Initiation, FiniteSetTheorems, TLAPS

---------------------------------------------------------------------------
\* The inductive invariant.

Par(n) == Steps[n].mode = "parallel"
PoolType == [fed : Nat, closed : BOOLEAN, queue : Seq(Nat), worker : [Pids -> Runner],
             ok : SUBSET Nat, bad : SUBSET Nat, open : BOOLEAN]
OpType == [pc : {"step", "work", "wait"} \cup Over, try : Tries, at : Nat \ {0}, run : Runner]
At == {"check", "create", "start"}

\* The items the workers took out of the channel.
Fetched(p) == p.fed - Len(p.queue)
PoolOK(p) ==
    /\ p.fed <= Len(ItemsOf(Parallel)) /\ Len(p.queue) <= p.fed
    /\ \A k \in DOMAIN p.queue : p.queue[k] = Fetched(p) + k
    /\ \A w \in Pids : p.worker[w].pc \in {"free", "gone"} \cup At
    /\ \A w \in Pids : p.worker[w].pc \in At =>
         /\ p.worker[w].item \in 1..Fetched(p) \ (p.ok \cup p.bad)
         /\ \A v \in Pids \ {w} : p.worker[v].pc \in At => p.worker[v].item # p.worker[w].item
    /\ p.ok \cup p.bad \subseteq 1..Fetched(p)
    /\ \A i \in 1..Fetched(p) :
         i \in p.ok \cup p.bad \/ \E w \in Pids : p.worker[w].pc \in At /\ p.worker[w].item = i
    /\ \A w \in Pids : p.worker[w].pc = "gone" => cancelled \/ (p.closed /\ p.queue = <<>>)
    /\ p.closed => cancelled \/ p.fed = Len(ItemsOf(Parallel))

Types ==
    /\ config \in Configs
    /\ op \in OpType
    /\ pool \in [Tries -> PoolType]
    /\ DOMAIN started = DOMAIN Steps
    /\ started = [n \in DOMAIN Steps |-> started[n]]
    /\ \A n \in DOMAIN Steps : started[n] \in [DOMAIN ItemsOf(n) -> Nat]
    /\ cancelled \in BOOLEAN

Operating ==
    /\ op.pc = "work" => /\ op.at \in DOMAIN Steps /\ ~Par(op.at)
                         /\ op.run.item \in DOMAIN ItemsOf(op.at)
    /\ op.pc = "wait" => op.at \in DOMAIN Steps /\ Par(op.at) /\ pool[op.try].open

Pools ==
    \A t \in Tries :
        /\ pool[t].open => t <= op.try /\ Parallel \in DOMAIN Steps /\ Par(Parallel) /\ PoolOK(pool[t])
        /\ ~pool[t].open => pool[t] = EmptyPool

\* The tries that have initiated item i of the parallel step.
Winners(i) == {t \in Tries : i \in pool[t].ok}

\* The operation is through with item i of step n, in this try.
Through(n, i) ==
    \/ op.pc \in Over \/ op.at > n
    \/ op.pc = "work" /\ op.at = n /\ (op.run.item > i \/ (op.run.item = i /\ op.run.pc = "won"))

Counted ==
    \A n \in DOMAIN Steps : \A i \in DOMAIN ItemsOf(n) :
        /\ Par(n) => started[n][i] = Cardinality(Winners(i))
        /\ ~Par(n) => started[n][i] < op.try \/ (started[n][i] = op.try /\ Through(n, i))

Passed ==
    \A n \in DOMAIN Steps :
        Par(n) /\ ~cancelled /\ (op.pc = "success" \/ (op.pc # "error" /\ op.at > n)) =>
            DOMAIN ItemsOf(n) \subseteq pool[op.try].ok

IInv == Types /\ Operating /\ Pools /\ Counted /\ Passed

---------------------------------------------------------------------------

LEMMA Constant ==
    /\ Workers \in Nat \ {0} /\ Buffer \in Nat \ {0} /\ MaxRetries \in Nat
    /\ \A t \in Tries : t \in Nat /\ t >= 1 /\ t <= MaxRetries + 1
    /\ 1 \in Tries /\ Free \in Runner
    /\ IsFiniteSet(Tries)
<1>1. Workers \in Nat \ {0} /\ Buffer \in Nat \ {0} /\ MaxRetries \in Nat
    BY ConstantsAssumption
<1>2. Free \in Runner
    BY DEF Free, Runner
<1>3. IsFiniteSet(Tries)
    BY <1>1, FS_Interval DEF Tries
<1> QED
    BY <1>1, <1>2, <1>3 DEF Tries

\* The parallel step is the only one of its kind.
LEMMA Listed ==
    ASSUME config \in Configs
    PROVE  /\ Steps \in Seq(Step)
           /\ \A n \in DOMAIN Steps : n \in Nat \ {0} /\ ItemsOf(n) \in Seq(Item) /\ Steps[n].mode \in Modes
           /\ \A n \in DOMAIN Steps : Par(n) => n = Parallel
<1>1. /\ Steps \in Seq(Step)
      /\ \A m, n \in DOMAIN Steps : Steps[m].mode = "parallel" /\ Steps[n].mode = "parallel" => m = n
    BY ConstantsAssumption DEF Steps
<1>2. \A n \in DOMAIN Steps : n \in Nat \ {0} /\ Steps[n] \in Step
    BY <1>1
<1>3. \A n \in DOMAIN Steps : Par(n) => n = Parallel
    BY <1>1 DEF Par, Parallel
<1> QED
    BY <1>1, <1>2, <1>3 DEF Step, ItemsOf

LEMMA EmptyOK ==
    ASSUME config \in Configs, Parallel \in DOMAIN Steps
    PROVE  /\ PoolOK(EmptyPool) /\ PoolOK([EmptyPool EXCEPT !.open = TRUE])
<1>1. Len(ItemsOf(Parallel)) \in Nat
    BY Listed
<1> QED
    BY <1>1 DEF PoolOK, EmptyPool, Fetched, Free, At

LEMMA EmptyTyped == EmptyPool \in PoolType /\ EmptyPool.ok = {} /\ EmptyPool.open = FALSE
BY Constant DEF EmptyPool, PoolType

LEMMA InitIInv == Init => IInv
<1> SUFFICES ASSUME Init PROVE IInv
    OBVIOUS
<1>0. /\ config \in Configs /\ op = [pc |-> "step", try |-> 1, at |-> 1, run |-> Free]
      /\ pool = [t \in Tries |-> EmptyPool] /\ cancelled = FALSE
      /\ started = [n \in DOMAIN Steps |-> [i \in DOMAIN ItemsOf(n) |-> 0]]
    BY DEF Init
<1>1. Types
    <2>1. op \in OpType
        <3>1. 1 \in Tries /\ Free \in Runner
            BY Constant
        <3> QED
            BY <1>0, <3>1 DEF OpType
    <2>3. pool \in [Tries -> PoolType]
        BY <1>0, EmptyTyped
    <2>4. \A n \in DOMAIN Steps : started[n] \in [DOMAIN ItemsOf(n) -> Nat]
        BY <1>0
    <2>5. DOMAIN started = DOMAIN Steps /\ started = [n \in DOMAIN Steps |-> started[n]]
        BY <1>0
    <2> QED
        BY <1>0, <2>1, <2>3, <2>4, <2>5 DEF Types
<1>2. Operating /\ Pools
    BY <1>0, EmptyTyped DEF Operating, Pools
<1>3. Counted
    <2>1. ASSUME NEW i PROVE Winners(i) = {}
        BY <1>0, EmptyTyped DEF Winners
    <2> QED
        <3>1. Cardinality({}) = 0
            BY FS_EmptySet
        <3>2. op.try = 1 /\ \A n \in DOMAIN Steps : \A i \in DOMAIN ItemsOf(n) : started[n][i] = 0
            BY <1>0
        <3> QED
            BY <2>1, <3>1, <3>2 DEF Counted
<1>4. Passed
    BY <1>0, Listed DEF Passed
<1> QED
    BY <1>1, <1>2, <1>3, <1>4 DEF IInv

---------------------------------------------------------------------------
\* The goroutine of the operation.

LEMMA SameSteps ==
    ASSUME UNCHANGED config
    PROVE  /\ Steps' = Steps /\ Parallel' = Parallel
           /\ \A n : ItemsOf(n)' = ItemsOf(n) /\ Par(n)' = Par(n)
<1>1. Steps' = Steps
    BY DEF Steps
<1> QED
    BY <1>1 DEF Parallel, ItemsOf, Par

\* A pool that nobody touches.
LEMMA PoolStays ==
    ASSUME UNCHANGED config, cancelled => cancelled', NEW t \in Tries, pool'[t] = pool[t], PoolOK(pool[t])
    PROVE  PoolOK(pool[t])'
<1>1. ItemsOf(Parallel)' = ItemsOf(Parallel)
    BY SameSteps
<1> QED
    BY <1>1 DEF PoolOK, Fetched

\* A step of it that initiates nothing and leaves the pools alone.
LEMMA OperationKeeps ==
    ASSUME IInv, UNCHANGED <<config, started, pool, cancelled>>, op' \in OpType, op.try <= op'.try,
           Operating', Passed',
           op.try < op'.try \/ \A n \in DOMAIN Steps : \A i \in DOMAIN ItemsOf(n) : Through(n, i) => Through(n, i)'
    PROVE  IInv'
<1>1. Types'
    BY DEF IInv, Types, Steps, ItemsOf
<1>2. op.try \in Nat /\ op'.try \in Nat
    BY Constant DEF IInv, Types, OpType
<1>3. Pools'
    <2> SUFFICES ASSUME NEW t \in Tries
                 PROVE  /\ pool[t].open => t <= op'.try /\ Parallel' \in DOMAIN Steps' /\ Par(Parallel)' /\ PoolOK(pool[t])'
                        /\ ~pool[t].open => pool[t] = EmptyPool
        BY DEF Pools
    <2>1. Steps' = Steps /\ Parallel' = Parallel /\ Par(Parallel)' = Par(Parallel)
        BY SameSteps DEF Par
    <2>2. PoolOK(pool[t]) => PoolOK(pool[t])'
        BY PoolStays
    <2>3. /\ pool[t].open => t <= op.try /\ Parallel \in DOMAIN Steps /\ Par(Parallel) /\ PoolOK(pool[t])
          /\ ~pool[t].open => pool[t] = EmptyPool
        BY DEF IInv, Pools
    <2> QED
        BY <1>2, <2>1, <2>2, <2>3, Constant
<1>4. Counted'
    <2>1. ASSUME NEW n \in DOMAIN Steps, NEW i \in DOMAIN ItemsOf(n)
          PROVE  /\ Par(n) => started[n][i] = Cardinality(Winners(i))
                 /\ ~Par(n) => started[n][i] < op'.try \/ (started[n][i] = op'.try /\ Through(n, i)')
        <3>1. started[n][i] \in Nat
            BY DEF IInv, Types
        <3> QED
            BY <1>2, <3>1 DEF IInv, Counted
    <2> QED
        BY <2>1 DEF Counted, Winners, Par, Steps, ItemsOf
<1> QED
    BY <1>1, <1>3, <1>4 DEF IInv

LEMMA OpTyped ==
    ASSUME op \in OpType
    PROVE  /\ op.pc \in {"step", "work", "wait"} \cup Over /\ op.try \in Tries /\ op.at \in Nat \ {0}
           /\ op.run \in Runner /\ op.try \in Nat \ {0}
           /\ NextStep(op) \in OpType /\ NextStep(op).pc = "step" /\ NextStep(op).try = op.try
           /\ NextStep(op).at = op.at + 1
<1>1. op.try \in Nat \ {0}
    BY Constant DEF OpType
<1>2. NextStep(op) \in OpType
    <2>1. op.at + 1 \in Nat \ {0} /\ Free \in Runner
        BY Constant DEF OpType
    <2> QED
        BY <2>1 DEF OpType, NextStep
<1>3. NextStep(op).pc = "step" /\ NextStep(op).try = op.try /\ NextStep(op).at = op.at + 1
    BY DEF OpType, NextStep
<1> QED
    BY <1>1, <1>2, <1>3 DEF OpType

LEMMA FailedTyped ==
    ASSUME op \in OpType
    PROVE  /\ Failed(op) \in OpType
           /\ \/ Failed(op).pc = "error" /\ Failed(op).try = op.try
              \/ Failed(op).pc = "step" /\ Failed(op).try = op.try + 1 /\ Failed(op).at = 1
<1>1. op.try \in Nat /\ MaxRetries \in Nat
    BY OpTyped, Constant
<1>2. CASE op.try > MaxRetries
    <2>1. Failed(op) = [op EXCEPT !.pc = "error"]
        BY <1>2 DEF Failed
    <2> QED
        BY <2>1 DEF OpType, Over
<1>3. CASE ~(op.try > MaxRetries)
    <2>1. Failed(op) = [op EXCEPT !.pc = "step", !.try = @ + 1, !.at = 1, !.run = Free]
        BY <1>3 DEF Failed
    <2>2. op.try + 1 \in Tries
        BY <1>1, <1>3, OpTyped DEF Tries
    <2>3. Free \in Runner /\ 1 \in Nat \ {0}
        BY Constant
    <2>4. Failed(op) \in OpType
        BY <2>1, <2>2, <2>3 DEF OpType
    <2>5. Failed(op).pc = "step" /\ Failed(op).try = op.try + 1 /\ Failed(op).at = 1
        BY <2>1 DEF OpType
    <2> QED
        BY <2>4, <2>5
<1> QED
    BY <1>2, <1>3

\* A try that fails is followed by another one or by the end.
LEMMA FailedKeeps ==
    ASSUME IInv, op' = Failed(op), UNCHANGED <<config, started, pool, cancelled>>
    PROVE  IInv'
<1>1. op \in OpType /\ config \in Configs
    BY DEF IInv, Types
<1>2. op' \in OpType /\ (\/ op'.pc = "error" /\ op'.try = op.try
                         \/ op'.pc = "step" /\ op'.try = op.try + 1 /\ op'.at = 1)
    BY <1>1, FailedTyped
<1>3. op.try <= op'.try /\ op'.pc \notin {"work", "wait", "success"} /\ (op'.pc # "error" => op'.at = 1)
    BY <1>1, <1>2, OpTyped
<1>4. Operating' /\ Passed'
    BY <1>1, <1>3, Listed DEF Operating, Passed, Steps, Par
<1>5. op.try < op'.try \/ \A n \in DOMAIN Steps : \A i \in DOMAIN ItemsOf(n) : Through(n, i) => Through(n, i)'
    BY <1>1, <1>2, OpTyped DEF Through, Over
<1> QED
    BY <1>2, <1>3, <1>4, <1>5, OperationKeeps

\* A step that is over is followed by the next one, if its items are done.
LEMMA NextStepKeeps ==
    ASSUME IInv, op' = NextStep(op), op.pc \notin Over, UNCHANGED <<config, started, pool, cancelled>>,
           op.at \in DOMAIN Steps, Par(op.at) => cancelled \/ DOMAIN ItemsOf(op.at) \subseteq pool[op.try].ok
    PROVE  IInv'
<1>1. op \in OpType /\ config \in Configs
    BY DEF IInv, Types
<1>2. op' \in OpType /\ op'.pc = "step" /\ op'.try = op.try /\ op'.at = op.at + 1 /\ op.at \in Nat /\ op.try \in Nat
    BY <1>1, OpTyped
<1>3. Operating'
    BY <1>2 DEF Operating
<1>4. Passed'
    <2>1. ASSUME NEW n \in DOMAIN Steps, Par(n), ~cancelled, op.at + 1 > n
          PROVE  DOMAIN ItemsOf(n) \subseteq pool[op.try].ok
        BY <1>1, <1>2, <2>1, Listed DEF IInv, Passed, Over
    <2> QED
        BY <1>2, <2>1 DEF Passed, Par, Steps, ItemsOf
<1>5. \A n \in DOMAIN Steps : \A i \in DOMAIN ItemsOf(n) : Through(n, i) => Through(n, i)'
    BY <1>1, <1>2, Listed DEF Through
<1> QED
    BY <1>2, <1>3, <1>4, <1>5, OperationKeeps

\* The next item of a step.
LEMMA NextItemKeeps ==
    ASSUME IInv, UNCHANGED <<config, started, pool, cancelled>>, op.pc \in {"step", "work"}, op.at \in DOMAIN Steps,
           ~Par(op.at), NEW i \in DOMAIN ItemsOf(op.at), op.pc = "work" => i > op.run.item,
           op' = [op EXCEPT !.pc = "work", !.run = [pc |-> "check", item |-> i]]
    PROVE  IInv'
<1>1. op \in OpType /\ config \in Configs
    BY DEF IInv, Types
<1>2. i \in Nat /\ [pc |-> "check", item |-> i] \in Runner
    BY <1>1, Listed DEF Runner
<1>3. /\ op' \in OpType /\ op'.pc = "work" /\ op'.try = op.try /\ op'.at = op.at /\ op'.run.item = i
      /\ op'.run.pc = "check" /\ op.at \in Nat /\ op.try \in Nat /\ op.run.item \in Nat
    BY <1>1, <1>2, OpTyped DEF OpType, Runner
<1>4. Operating'
    BY <1>3 DEF Operating, Par, Steps, ItemsOf
<1>5. Passed'
    BY <1>3 DEF IInv, Passed, Par, Steps, ItemsOf
<1>6. \A n \in DOMAIN Steps : \A j \in DOMAIN ItemsOf(n) : Through(n, j) => Through(n, j)'
    <2> SUFFICES ASSUME NEW n \in DOMAIN Steps, NEW j \in DOMAIN ItemsOf(n), Through(n, j)
                 PROVE  Through(n, j)'
        OBVIOUS
    <2>1. j \in Nat
        BY <1>1, Listed
    <2> QED
        BY <1>2, <1>3, <2>1 DEF Through, Over
<1> QED
    BY <1>3, <1>4, <1>5, <1>6, OperationKeeps

LEMMA AtStepPlace ==
    ASSUME IInv, AtStep
    PROVE  op.at \in DOMAIN Steps /\ op.pc = "step" /\ Current = Steps[op.at] /\ ItemsOf(op.at) = Current.items
BY OpTyped, Listed DEF IInv, Types, AtStep, Current, ItemsOf

LEMMA QuietOperation ==
    ASSUME IInv, Unresolved \/ NoItems \/ Conclude \/ Take \/ OwnNext \/ OwnCancelled
    PROVE  IInv'
<1>1. op \in OpType /\ config \in Configs
    BY DEF IInv, Types
<1>2. CASE Unresolved \/ OwnCancelled
    BY <1>2, FailedKeeps DEF Unresolved, OwnCancelled, Quietly
<1>3. CASE NoItems
    <2>1. ItemsOf(op.at) = <<>> /\ op.at \in DOMAIN Steps /\ op.pc = "step"
        BY <1>3, AtStepPlace DEF NoItems
    <2>2. DOMAIN ItemsOf(op.at) = {}
        BY <2>1
    <2> QED
        BY <1>3, <2>1, <2>2, NextStepKeeps DEF NoItems, Quietly, Over
<1>4. CASE Conclude
    <2>1. op.pc = "step" /\ op.at > Len(Steps) /\ op' = [op EXCEPT !.pc = "success"] /\ UNCHANGED <<config, started, pool, cancelled>>
        BY <1>4 DEF Conclude, Quietly
    <2>2. op' \in OpType /\ op'.pc = "success" /\ op'.try = op.try /\ op.try \in Nat
        BY <1>1, <2>1, OpTyped DEF OpType, Over
    <2>3. Operating'
        BY <2>2 DEF Operating
    <2>4. Passed'
        <3>1. \A n \in DOMAIN Steps : op.at > n
            BY <1>1, <2>1, OpTyped, Listed
        <3> QED
            BY <2>1, <2>2, <3>1 DEF IInv, Passed, Par, Steps, ItemsOf
    <2>5. \A n \in DOMAIN Steps : \A i \in DOMAIN ItemsOf(n) : Through(n, i)'
        BY <2>2 DEF Through, Over
    <2> QED
        BY <2>1, <2>2, <2>3, <2>4, <2>5, OperationKeeps
<1>5. CASE Take
    <2>1. ItemsOf(op.at) # <<>> /\ op.at \in DOMAIN Steps /\ op.pc = "step" /\ ~Par(op.at)
        BY <1>5, AtStepPlace DEF Take, Par
    <2>2. 1 \in DOMAIN ItemsOf(op.at)
        BY <1>1, <2>1, Listed
    <2> QED
        BY <1>5, <2>1, <2>2, NextItemKeeps DEF Take, Quietly
<1>6. CASE OwnNext
    <2>1. op.pc = "work" /\ op' = Advance(op.run.item) /\ UNCHANGED <<config, started, pool, cancelled>>
        BY <1>6 DEF OwnNext, Quietly
    <2>2. op.at \in DOMAIN Steps /\ ~Par(op.at) /\ op.run.item \in DOMAIN ItemsOf(op.at)
        BY <2>1 DEF IInv, Operating
    <2>3. CASE op.run.item = Len(Current.items)
        BY <2>1, <2>2, <2>3, NextStepKeeps DEF Advance, Over
    <2>4. CASE op.run.item # Len(Current.items)
        <3>1. op.run.item + 1 \in DOMAIN ItemsOf(op.at) /\ op.run.item + 1 > op.run.item
            BY <1>1, <2>2, <2>4, Listed DEF Current, ItemsOf
        <3>2. op' = [op EXCEPT !.run = [pc |-> "check", item |-> op.run.item + 1]]
            BY <2>1, <2>4 DEF Advance
        <3>3. op' = [op EXCEPT !.pc = "work", !.run = [pc |-> "check", item |-> op.run.item + 1]]
            BY <1>1, <2>1, <3>2 DEF OpType
        <3> QED
            BY <2>1, <2>2, <3>1, <3>3, NextItemKeeps
    <2> QED
        BY <2>3, <2>4
<1> QED
    BY <1>2, <1>3, <1>4, <1>5, <1>6

\* Work of the operation's own goroutine counts once: its item was not through.
LEMMA OwnWorkKeeps ==
    ASSUME IInv, OwnWork
    PROVE  IInv'
<1>1. op \in OpType /\ config \in Configs
    BY DEF IInv, Types
<1>2. PICK q \in {"create", "start", "won", "lost"} : Work(op.run, op.at, op.run.item, q) /\ op' = [op EXCEPT !.run.pc = q]
    BY DEF OwnWork
<1>3. op.pc = "work" /\ UNCHANGED <<config, pool, cancelled>>
    BY DEF OwnWork
<1>4. /\ op.run.pc \in At
      /\ started' = IF q = "won" THEN [started EXCEPT ![op.at][op.run.item] = @ + 1] ELSE started
    BY <1>2 DEF Work, Checked, Created, Started, At
<1>5. op.at \in DOMAIN Steps /\ ~Par(op.at) /\ op.run.item \in DOMAIN ItemsOf(op.at)
    BY <1>3 DEF IInv, Operating
<1>6. /\ op' \in OpType /\ op'.pc = "work" /\ op'.try = op.try /\ op'.at = op.at /\ op'.run.item = op.run.item
      /\ op'.run.pc = q /\ op.at \in Nat /\ op.try \in Nat /\ op.run.item \in Nat
    BY <1>1, <1>2, <1>3, OpTyped DEF OpType, Runner
<1>7. Types'
    <2>1. started' = [n \in DOMAIN Steps |-> started'[n]] /\ DOMAIN started' = DOMAIN Steps
        BY <1>4, <1>5 DEF IInv, Types
    <2>2. \A n \in DOMAIN Steps : started'[n] \in [DOMAIN ItemsOf(n) -> Nat]
        BY <1>4, <1>5 DEF IInv, Types
    <2> QED
        BY <1>3, <1>6, <2>1, <2>2 DEF IInv, Types, Steps, ItemsOf
<1>8. Operating'
    BY <1>3, <1>5, <1>6 DEF Operating, Par, Steps, ItemsOf
<1>9. Pools'
    <2> SUFFICES ASSUME NEW t \in Tries
                 PROVE  /\ pool[t].open => t <= op.try /\ Parallel' \in DOMAIN Steps' /\ Par(Parallel)' /\ PoolOK(pool[t])'
                        /\ ~pool[t].open => pool[t] = EmptyPool
        BY <1>3, <1>6 DEF Pools
    <2>1. Steps' = Steps /\ Parallel' = Parallel /\ Par(Parallel)' = Par(Parallel)
        BY <1>3, SameSteps DEF Par
    <2>2. PoolOK(pool[t]) => PoolOK(pool[t])'
        BY <1>3, PoolStays
    <2> QED
        BY <2>1, <2>2 DEF IInv, Pools
<1>10. Counted'
    <2>1. ASSUME NEW n \in DOMAIN Steps, NEW i \in DOMAIN ItemsOf(n)
          PROVE  /\ Par(n) => started'[n][i] = Cardinality(Winners(i))
                 /\ ~Par(n) => started'[n][i] < op.try \/ (started'[n][i] = op.try /\ Through(n, i)')
        <3>1. started[n][i] \in Nat /\ i \in Nat /\ n \in Nat
            BY <1>1, Listed DEF IInv, Types
        <3>2. /\ Par(n) => started[n][i] = Cardinality(Winners(i))
              /\ ~Par(n) => started[n][i] < op.try \/ (started[n][i] = op.try /\ Through(n, i))
            BY DEF IInv, Counted
        <3>3. CASE n = op.at /\ i = op.run.item
            <4>1. ~Through(n, i)
                BY <1>3, <1>4, <1>6, <3>3 DEF Through, Over, At
            <4>2. q = "won" => Through(n, i)'
                BY <1>6, <3>3 DEF Through
            <4>3. started'[n][i] = IF q = "won" THEN started[n][i] + 1 ELSE started[n][i]
                BY <1>4, <3>3 DEF IInv, Types
            <4> QED
                BY <1>5, <1>6, <3>1, <3>2, <3>3, <4>1, <4>2, <4>3
        <3>4. CASE ~(n = op.at /\ i = op.run.item)
            <4>1. started'[n][i] = started[n][i]
                BY <1>4, <1>5, <3>4 DEF IInv, Types
            <4>2. Through(n, i) => Through(n, i)'
                BY <1>3, <1>6, <3>1, <3>4 DEF Through, Over
            <4> QED
                BY <3>2, <4>1, <4>2
        <3> QED
            BY <3>3, <3>4
    <2> QED
        BY <1>3, <1>6, <2>1 DEF Counted, Winners, Par, Steps, ItemsOf
<1>11. Passed'
    BY <1>3, <1>6 DEF IInv, Passed, Par, Steps, ItemsOf
<1> QED
    BY <1>7, <1>8, <1>9, <1>10, <1>11 DEF IInv

---------------------------------------------------------------------------
\* The pools.

\* The pool of one try changes, without initiating anything.
LEMMA PoolKeeps ==
    ASSUME IInv, NEW t \in Tries, pool[t].open, pool' \in [Tries -> PoolType],
           \A u \in Tries \ {t} : pool'[u] = pool[u],
           pool'[t].open, pool'[t].ok = pool[t].ok, PoolOK(pool[t])',
           UNCHANGED <<config, cancelled, op, started>>
    PROVE  IInv'
<1>1. Types'
    BY DEF IInv, Types, Steps, ItemsOf
<1>2. Operating'
    BY DEF IInv, Operating, Types, OpType, Par, Steps, ItemsOf
<1>3. Pools'
    <2> SUFFICES ASSUME NEW u \in Tries
                 PROVE  /\ pool'[u].open => u <= op.try /\ Parallel' \in DOMAIN Steps' /\ Par(Parallel)' /\ PoolOK(pool[u])'
                        /\ ~pool'[u].open => pool'[u] = EmptyPool
        BY DEF Pools
    <2>1. Steps' = Steps /\ Parallel' = Parallel /\ Par(Parallel)' = Par(Parallel)
        BY SameSteps DEF Par
    <2>2. /\ pool[u].open => u <= op.try /\ Parallel \in DOMAIN Steps /\ Par(Parallel) /\ PoolOK(pool[u])
          /\ ~pool[u].open => pool[u] = EmptyPool
        BY DEF IInv, Pools
    <2>3. CASE u = t
        BY <2>1, <2>2, <2>3
    <2>4. CASE u # t
        BY <2>1, <2>2, <2>4, PoolStays
    <2> QED
        BY <2>3, <2>4
<1>4. Counted' /\ Passed'
    <2>1. \A u \in Tries : pool'[u].ok = pool[u].ok
        OBVIOUS
    <2>2. \A i : Winners(i)' = Winners(i)
        BY <2>1 DEF Winners
    <2>3. op.try \in Tries
        BY DEF IInv, Types, OpType
    <2> QED
        BY <2>1, <2>2, <2>3 DEF IInv, Counted, Passed, Through, Par, Steps, ItemsOf
<1> QED
    BY <1>1, <1>2, <1>3, <1>4 DEF IInv

LEMMA OpenPoolKeeps ==
    ASSUME IInv, OpenPool
    PROVE  IInv'
<1>1. /\ op' = [op EXCEPT !.pc = "wait"] /\ pool' = [pool EXCEPT ![op.try].open = TRUE]
      /\ UNCHANGED <<config, started, cancelled>>
    BY DEF OpenPool, Quietly
<1>2. /\ op.at \in DOMAIN Steps /\ Par(op.at) /\ op.pc = "step" /\ op.at = Parallel
      /\ op \in OpType /\ config \in Configs /\ pool \in [Tries -> PoolType] /\ op.try \in Tries /\ op.try \in Nat
    BY AtStepPlace, Listed, OpTyped DEF OpenPool, Par, IInv, Types
<1>3. op' \in OpType /\ op'.pc = "wait" /\ op'.try = op.try /\ op'.at = op.at
    BY <1>1, <1>2 DEF OpType
<1>4. /\ pool' \in [Tries -> PoolType] /\ pool'[op.try] = [pool[op.try] EXCEPT !.open = TRUE]
      /\ \A u \in Tries \ {op.try} : pool'[u] = pool[u]
      /\ \A u \in Tries : pool'[u].ok = pool[u].ok
    BY <1>1, <1>2 DEF PoolType
<1>5. Types' /\ Operating'
    BY <1>1, <1>2, <1>3, <1>4 DEF IInv, Types, Operating, Par, Steps, ItemsOf, PoolType
<1>6. Pools'
    <2> SUFFICES ASSUME NEW u \in Tries
                 PROVE  /\ pool'[u].open => u <= op.try /\ Parallel' \in DOMAIN Steps' /\ Par(Parallel)' /\ PoolOK(pool[u])'
                        /\ ~pool'[u].open => pool'[u] = EmptyPool
        BY <1>3 DEF Pools
    <2>1. Steps' = Steps /\ Parallel' = Parallel /\ Par(Parallel)' = Par(Parallel)
        BY <1>1, SameSteps DEF Par
    <2>2. /\ pool[u].open => u <= op.try /\ Parallel \in DOMAIN Steps /\ Par(Parallel) /\ PoolOK(pool[u])
          /\ ~pool[u].open => pool[u] = EmptyPool
        BY DEF IInv, Pools
    <2>3. CASE u # op.try
        BY <1>1, <1>4, <2>1, <2>2, <2>3, PoolStays
    <2>4. CASE u = op.try
        <3>1. PoolOK(pool'[u])
            <4>1. CASE pool[u].open
                <5>1. pool'[u] = pool[u]
                    BY <1>2, <1>4, <2>4, <4>1 DEF PoolType
                <5> QED
                    BY <2>2, <4>1, <5>1
            <4>2. CASE ~pool[u].open
                <5>1. pool'[u] = [EmptyPool EXCEPT !.open = TRUE]
                    BY <1>4, <2>2, <2>4, <4>2
                <5> QED
                    BY <1>2, <5>1, EmptyOK
            <4> QED
                BY <4>1, <4>2
        <3>2. PoolOK(pool[u])'
            <4>1. ItemsOf(Parallel)' = ItemsOf(Parallel)
                BY <1>1, SameSteps
            <4> QED
                BY <1>1, <3>1, <4>1 DEF PoolOK, Fetched
        <3>3. pool'[u].open
            BY <1>2, <1>4, <2>4 DEF PoolType
        <3> QED
            BY <1>2, <2>1, <2>4, <3>2, <3>3
    <2> QED
        BY <2>3, <2>4
<1>7. Counted' /\ Passed'
    <2>1. \A i : Winners(i)' = Winners(i)
        BY <1>4 DEF Winners
    <2>2. \A n, i : Through(n, i) => Through(n, i)'
        BY <1>2, <1>3 DEF Through, Over
    <2> QED
        BY <1>1, <1>2, <1>3, <1>4, <2>1, <2>2 DEF IInv, Counted, Passed, Par, Steps, ItemsOf
<1> QED
    BY <1>5, <1>6, <1>7 DEF IInv

\* What a pool in use looks like.
LEMMA OpenPoolOK ==
    ASSUME IInv, NEW t \in Tries, pool[t].open
    PROVE  /\ pool[t] \in PoolType /\ PoolOK(pool[t]) /\ config \in Configs
           /\ pool[t].fed \in Nat /\ pool[t].queue \in Seq(Nat) /\ Len(pool[t].queue) \in Nat
           /\ Fetched(pool[t]) \in Nat /\ Items(t) = ItemsOf(Parallel) /\ Len(ItemsOf(Parallel)) \in Nat
           /\ pool \in [Tries -> PoolType]
<1>1. pool[t] \in PoolType /\ PoolOK(pool[t]) /\ config \in Configs /\ pool \in [Tries -> PoolType]
    BY DEF IInv, Types, Pools
<1>2. pool[t].fed \in Nat /\ pool[t].queue \in Seq(Nat) /\ Len(pool[t].queue) \in Nat
    BY <1>1 DEF PoolType
<1>3. Fetched(pool[t]) \in Nat
    BY <1>1, <1>2 DEF Fetched, PoolOK
<1>4. Len(ItemsOf(Parallel)) \in Nat
    BY Listed DEF IInv, Types, Pools
<1> QED
    BY <1>1, <1>2, <1>3, <1>4 DEF Items

LEMMA PoolBecomes ==
    ASSUME IInv, NEW t \in Tries, pool[t].open, NEW p \in PoolType, pool' = [pool EXCEPT ![t] = p],
           p.open, p.ok = pool[t].ok, PoolOK(p), UNCHANGED <<config, cancelled, op, started>>
    PROVE  IInv'
<1>1. pool \in [Tries -> PoolType] /\ ItemsOf(Parallel)' = ItemsOf(Parallel)
    BY OpenPoolOK, SameSteps
<1>2. pool' \in [Tries -> PoolType] /\ pool'[t] = p /\ \A u \in Tries \ {t} : pool'[u] = pool[u]
    BY <1>1
<1>3. PoolOK(pool[t])'
    BY <1>1, <1>2 DEF PoolOK, Fetched
<1> QED
    BY <1>2, <1>3, PoolKeeps

LEMMA ProducerKeeps ==
    ASSUME IInv, NEW t \in Tries, Producer(t)
    PROVE  IInv'
<1>1. pool[t].open /\ UNCHANGED <<config, started, cancelled, op>>
    BY DEF Producer, Feed, CloseChannel, Feeding, Quietly
<1>2. /\ pool[t] \in PoolType /\ PoolOK(pool[t]) /\ pool[t].fed \in Nat /\ pool[t].queue \in Seq(Nat)
      /\ Fetched(pool[t]) \in Nat /\ Items(t) = ItemsOf(Parallel) /\ Len(ItemsOf(Parallel)) \in Nat
      /\ pool \in [Tries -> PoolType]
    BY <1>1, OpenPoolOK
<1>3. CASE Feed(t)
    <2>1. /\ pool[t].fed < Len(ItemsOf(Parallel)) /\ ~pool[t].closed
          /\ pool' = [pool EXCEPT ![t].fed = @ + 1, ![t].queue = Append(@, pool[t].fed + 1)]
        BY <1>2, <1>3 DEF Feed, Feeding
    <2> DEFINE q == Append(pool[t].queue, pool[t].fed + 1)
               p == [pool[t] EXCEPT !.fed = @ + 1, !.queue = q]
    <2>2. pool' = [pool EXCEPT ![t] = p]
        BY <1>2, <2>1 DEF PoolType
    <2>3. q \in Seq(Nat) /\ Len(q) = Len(pool[t].queue) + 1
        BY <1>2
    <2>4. /\ p \in PoolType /\ p.fed = pool[t].fed + 1 /\ p.queue = q
          /\ p.closed = pool[t].closed /\ p.worker = pool[t].worker /\ p.ok = pool[t].ok /\ p.bad = pool[t].bad
          /\ p.open = pool[t].open
        <3> HIDE DEF q
        <3>1. pool[t].fed + 1 \in Nat /\ pool[t] \in PoolType /\ q \in Seq(Nat)
            BY <1>2, <2>3
        <3>2. p \in PoolType
            BY <3>1 DEF PoolType
        <3> QED
            BY <3>1 DEF PoolType
    <2>5. /\ Fetched(p) = Fetched(pool[t]) /\ p.fed <= Len(ItemsOf(Parallel)) /\ Len(p.queue) <= p.fed
        <3> HIDE DEF q, p
        <3>1. Len(pool[t].queue) <= pool[t].fed /\ Len(pool[t].queue) \in Nat
            BY <1>2 DEF PoolOK
        <3> QED
            BY <1>2, <2>1, <2>3, <2>4, <3>1 DEF Fetched
    <2>6. \A k \in DOMAIN p.queue : p.queue[k] = Fetched(p) + k
        <3>1. ASSUME NEW k \in DOMAIN q PROVE q[k] = Fetched(pool[t]) + k
            <4>1. \A j \in DOMAIN pool[t].queue : pool[t].queue[j] = Fetched(pool[t]) + j
                BY <1>2 DEF PoolOK
            <4>2. k \in 1..Len(pool[t].queue) + 1 /\ pool[t].fed = Fetched(pool[t]) + Len(pool[t].queue)
                BY <1>2, <2>3 DEF Fetched
            <4>3. CASE k \in 1..Len(pool[t].queue)
                BY <1>2, <4>1, <4>3
            <4>4. CASE k = Len(pool[t].queue) + 1
                <5>1. q[k] = pool[t].fed + 1
                    BY <1>2, <4>4
                <5> HIDE DEF q
                <5> QED
                    BY <1>2, <4>2, <4>4, <5>1
            <4> QED
                BY <1>2, <4>2, <4>3, <4>4
        <3> QED
            BY <2>4, <2>5, <3>1
    <2>7. PoolOK(p)
        <3> HIDE DEF q, p
        <3> QED
            BY <1>2, <2>1, <2>3, <2>4, <2>5, <2>6 DEF PoolOK
    <2> HIDE DEF q, p
    <2> QED
        BY <1>1, <2>2, <2>4, <2>7, PoolBecomes
<1>4. CASE CloseChannel(t)
    <2>1. pool' = [pool EXCEPT ![t].closed = TRUE] /\ (pool[t].fed = Len(ItemsOf(Parallel)) \/ cancelled)
        BY <1>2, <1>4 DEF CloseChannel, StopsFeeding
    <2> DEFINE p == [pool[t] EXCEPT !.closed = TRUE]
    <2>2. pool' = [pool EXCEPT ![t] = p]
        BY <1>2, <2>1 DEF PoolType
    <2>3. /\ p \in PoolType /\ p.fed = pool[t].fed /\ p.queue = pool[t].queue
          /\ p.closed /\ p.worker = pool[t].worker /\ p.ok = pool[t].ok /\ p.bad = pool[t].bad
          /\ p.open = pool[t].open
        BY <1>2 DEF PoolType
    <2> HIDE DEF p
    <2>4. PoolOK(p)
        BY <1>2, <2>1, <2>3 DEF PoolOK, Fetched
    <2> QED
        BY <1>1, <2>2, <2>3, <2>4, PoolBecomes
<1> QED
    BY <1>3, <1>4 DEF Producer

LEMMA TakeItemKeeps ==
    ASSUME IInv, NEW t \in Tries, NEW w \in Pids, TakeItem(t, w)
    PROVE  IInv'
<1>1. pool[t].open /\ UNCHANGED <<config, started, cancelled, op>>
    BY DEF TakeItem, Quietly
<1>2. /\ pool[t] \in PoolType /\ PoolOK(pool[t]) /\ pool[t].fed \in Nat /\ pool[t].queue \in Seq(Nat)
      /\ Fetched(pool[t]) \in Nat /\ pool \in [Tries -> PoolType] /\ Len(pool[t].queue) \in Nat
    BY <1>1, OpenPoolOK
<1>3. /\ pool[t].worker[w].pc = "free" /\ pool[t].queue # <<>>
      /\ pool' = [pool EXCEPT ![t].queue = Tail(@),
                              ![t].worker[w] = [pc |-> "check", item |-> Head(pool[t].queue)]]
    BY DEF TakeItem
<1> DEFINE f == Fetched(pool[t])
           q == Tail(pool[t].queue)
           r == [pc |-> "check", item |-> f + 1]
           p == [pool[t] EXCEPT !.queue = q, !.worker[w] = r]
<1>4. /\ Head(pool[t].queue) = f + 1 /\ q \in Seq(Nat) /\ Len(q) = Len(pool[t].queue) - 1
      /\ \A k \in DOMAIN q : q[k] = f + 1 + k
    <2>1. \A j \in DOMAIN pool[t].queue : pool[t].queue[j] = f + j
        BY <1>2 DEF PoolOK
    <2>2. Len(pool[t].queue) > 0 /\ 1 \in DOMAIN pool[t].queue
        BY <1>2, <1>3
    <2>3. q \in Seq(Nat) /\ Len(q) = Len(pool[t].queue) - 1 /\ Head(pool[t].queue) = f + 1
        BY <1>2, <2>1, <2>2
    <2>4. ASSUME NEW k \in DOMAIN q PROVE q[k] = f + 1 + k
        <3>1. k \in Nat /\ k + 1 \in DOMAIN pool[t].queue /\ q[k] = pool[t].queue[k + 1]
            BY <1>2, <2>2, <2>3
        <3> QED
            <4> HIDE DEF q, f
            <4>1. pool[t].queue[k + 1] = f + (k + 1) /\ f \in Nat
                BY <1>2, <2>1, <3>1 DEF f
            <4> QED
                BY <3>1, <4>1
    <2> QED
        BY <2>3, <2>4
<1>5. r \in Runner /\ r.pc = "check" /\ r.item = f + 1 /\ f \in Nat
    BY <1>2 DEF Runner
<1>6. pool' = [pool EXCEPT ![t] = p]
    BY <1>2, <1>3, <1>4 DEF PoolType
<1>7. /\ p \in PoolType /\ p.fed = pool[t].fed /\ p.queue = q
      /\ p.worker = [pool[t].worker EXCEPT ![w] = r] /\ p.worker[w] = r
      /\ \A v \in Pids \ {w} : p.worker[v] = pool[t].worker[v]
      /\ p.closed = pool[t].closed /\ p.ok = pool[t].ok /\ p.bad = pool[t].bad /\ p.open = pool[t].open
    <2> HIDE DEF r, q
    <2>1. pool[t] \in PoolType /\ r \in Runner /\ q \in Seq(Nat)
        BY <1>2, <1>4, <1>5
    <2> QED
        BY <2>1 DEF PoolType
<1> HIDE DEF r, q, p
<1>8. Fetched(p) = f + 1 /\ p.fed <= Len(ItemsOf(Parallel)) /\ Len(p.queue) <= p.fed
    <2>1. Len(pool[t].queue) <= pool[t].fed /\ pool[t].fed <= Len(ItemsOf(Parallel))
        BY <1>2 DEF PoolOK
    <2> QED
        BY <1>2, <1>4, <1>7, <2>1 DEF Fetched
<1>9. PoolOK(p)
    <2>1. /\ pool[t].ok \cup pool[t].bad \subseteq 1..f
          /\ \A v \in Pids : pool[t].worker[v].pc \in At => pool[t].worker[v].item \in 1..f \ (pool[t].ok \cup pool[t].bad)
        BY <1>2 DEF PoolOK
    <2>2. \A v \in Pids : p.worker[v].pc \in {"free", "gone"} \cup At
        BY <1>2, <1>5, <1>7 DEF PoolOK, At
    <2>3. ASSUME NEW v \in Pids, p.worker[v].pc \in At
          PROVE  /\ p.worker[v].item \in 1..Fetched(p) \ (p.ok \cup p.bad)
                 /\ \A x \in Pids \ {v} : p.worker[x].pc \in At => p.worker[x].item # p.worker[v].item
        <3>1. CASE v = w
            BY <1>5, <1>7, <1>8, <2>1, <3>1
        <3>2. CASE v # w
            <4>1. p.worker[v] = pool[t].worker[v] /\ p.worker[v].item \in 1..f \ (p.ok \cup p.bad)
                BY <1>7, <2>1, <2>3, <3>2
            <4>2. ASSUME NEW x \in Pids \ {v}, p.worker[x].pc \in At
                  PROVE  p.worker[x].item # p.worker[v].item
                <5>1. CASE x = w
                    BY <1>5, <1>7, <4>1, <5>1
                <5>2. CASE x # w
                    BY <1>2, <1>7, <2>3, <4>1, <4>2, <5>2 DEF PoolOK
                <5> QED
                    BY <5>1, <5>2
            <4> QED
                BY <1>5, <1>8, <4>1, <4>2
        <3> QED
            BY <3>1, <3>2
    <2>4. ASSUME NEW i \in 1..Fetched(p)
          PROVE  i \in p.ok \cup p.bad \/ \E v \in Pids : p.worker[v].pc \in At /\ p.worker[v].item = i
        <3>1. CASE i = f + 1
            BY <1>5, <1>7, <3>1 DEF At
        <3>2. CASE i \in 1..f
            <4>1. i \in pool[t].ok \cup pool[t].bad \/ \E v \in Pids : pool[t].worker[v].pc \in At /\ pool[t].worker[v].item = i
                BY <1>2, <3>2 DEF PoolOK
            <4>2. \A v \in Pids : pool[t].worker[v].pc \in At => v # w
                BY <1>3 DEF At
            <4> QED
                BY <1>7, <4>1, <4>2
        <3> QED
            BY <1>5, <1>8, <3>1, <3>2
    <2>5. ASSUME NEW v \in Pids, p.worker[v].pc = "gone"
          PROVE  cancelled \/ (p.closed /\ p.queue = <<>>)
        <3>1. v # w /\ pool[t].worker[v].pc = "gone"
            BY <1>5, <1>7, <2>5
        <3>2. cancelled \/ (pool[t].closed /\ pool[t].queue = <<>>)
            BY <1>2, <3>1 DEF PoolOK
        <3> QED
            BY <1>3, <3>2
    <2>6. p.closed => cancelled \/ p.fed = Len(ItemsOf(Parallel))
        BY <1>2, <1>7 DEF PoolOK
    <2>7. p.ok \cup p.bad \subseteq 1..Fetched(p)
        BY <1>5, <1>7, <1>8, <2>1
    <2>8. \A k \in DOMAIN p.queue : p.queue[k] = Fetched(p) + k
        BY <1>4, <1>7, <1>8
    <2> QED
        BY <1>8, <2>2, <2>3, <2>4, <2>5, <2>6, <2>7, <2>8 DEF PoolOK
<1> QED
    BY <1>1, <1>6, <1>7, <1>9, PoolBecomes

LEMMA LeaveKeeps ==
    ASSUME IInv, NEW t \in Tries, NEW w \in Pids, Leave(t, w)
    PROVE  IInv'
<1>1. pool[t].open /\ UNCHANGED <<config, started, cancelled, op>>
    BY DEF Leave, Quietly
<1>2. pool[t] \in PoolType /\ PoolOK(pool[t]) /\ pool \in [Tries -> PoolType]
    BY <1>1, OpenPoolOK
<1>3. /\ pool[t].worker[w].pc = "free" /\ (cancelled \/ (pool[t].closed /\ pool[t].queue = <<>>))
      /\ pool' = [pool EXCEPT ![t].worker[w].pc = "gone"]
    BY DEF Leave, Leaves
<1> DEFINE r == [pool[t].worker[w] EXCEPT !.pc = "gone"]
           p == [pool[t] EXCEPT !.worker[w] = r]
<1>4. pool' = [pool EXCEPT ![t] = p]
    BY <1>2, <1>3 DEF PoolType
<1>5. r \in Runner /\ r.pc = "gone"
    BY <1>2 DEF PoolType, Runner
<1>6. /\ p \in PoolType /\ p.fed = pool[t].fed /\ p.queue = pool[t].queue
      /\ p.worker = [pool[t].worker EXCEPT ![w] = r] /\ p.worker[w] = r
      /\ \A v \in Pids \ {w} : p.worker[v] = pool[t].worker[v]
      /\ p.closed = pool[t].closed /\ p.ok = pool[t].ok /\ p.bad = pool[t].bad /\ p.open = pool[t].open
    <2> HIDE DEF r
    <2> QED
        BY <1>2, <1>5 DEF PoolType
<1> HIDE DEF r, p
<1>7. PoolOK(p)
    <2>1. Fetched(p) = Fetched(pool[t])
        BY <1>6 DEF Fetched
    <2>2. /\ \A v \in Pids : p.worker[v].pc \in At => v # w /\ p.worker[v] = pool[t].worker[v]
          /\ \A v \in Pids : pool[t].worker[v].pc \in At => v # w /\ p.worker[v] = pool[t].worker[v]
        BY <1>3, <1>5, <1>6 DEF At
    <2>3. \A v \in Pids : p.worker[v].pc \in {"free", "gone"} \cup At
        BY <1>2, <1>5, <1>6 DEF PoolOK
    <2>4. \A v \in Pids : p.worker[v].pc \in At =>
            /\ p.worker[v].item \in 1..Fetched(p) \ (p.ok \cup p.bad)
            /\ \A x \in Pids \ {v} : p.worker[x].pc \in At => p.worker[x].item # p.worker[v].item
        BY <1>2, <1>6, <2>1, <2>2 DEF PoolOK
    <2>5. \A i \in 1..Fetched(p) :
            i \in p.ok \cup p.bad \/ \E v \in Pids : p.worker[v].pc \in At /\ p.worker[v].item = i
        BY <1>2, <1>6, <2>1, <2>2 DEF PoolOK
    <2>6. \A v \in Pids : p.worker[v].pc = "gone" => cancelled \/ (p.closed /\ p.queue = <<>>)
        BY <1>2, <1>3, <1>6 DEF PoolOK
    <2>7. /\ p.fed <= Len(ItemsOf(Parallel)) /\ Len(p.queue) <= p.fed
          /\ \A k \in DOMAIN p.queue : p.queue[k] = Fetched(p) + k
          /\ p.ok \cup p.bad \subseteq 1..Fetched(p)
          /\ p.closed => cancelled \/ p.fed = Len(ItemsOf(Parallel))
        BY <1>2, <1>6, <2>1 DEF PoolOK
    <2> QED
        BY <2>3, <2>4, <2>5, <2>6, <2>7 DEF PoolOK
<1> QED
    BY <1>1, <1>4, <1>6, <1>7, PoolBecomes

\* A worker goes on with its item, or is done with it.
LEMMA WorkedPool ==
    ASSUME IInv, NEW t \in Tries, NEW w \in Pids, pool[t].open, NEW q \in {"create", "start", "won", "lost"},
           NEW r \in Runner, r = pool[t].worker[w], r.pc \in At,
           NEW s \in Runner, s = IF q \in {"won", "lost"} THEN Free ELSE [r EXCEPT !.pc = q],
           NEW p \in PoolType,
           p.worker = [pool[t].worker EXCEPT ![w] = s],
           p.ok = IF q = "won" THEN pool[t].ok \cup {r.item} ELSE pool[t].ok,
           p.bad = IF q = "lost" THEN pool[t].bad \cup {r.item} ELSE pool[t].bad,
           p.fed = pool[t].fed, p.queue = pool[t].queue, p.closed = pool[t].closed
    PROVE  PoolOK(p)
<1>1. pool[t] \in PoolType /\ PoolOK(pool[t])
    BY OpenPoolOK
<1>2. /\ p.worker[w] = s /\ \A v \in Pids \ {w} : p.worker[v] = pool[t].worker[v]
      /\ Fetched(p) = Fetched(pool[t])
    BY <1>1 DEF PoolType, Fetched
<1>3. r.item \in 1..Fetched(p) \ (pool[t].ok \cup pool[t].bad)
    BY <1>1, <1>2 DEF PoolOK
<1>4. /\ s.pc \in {"free"} \cup At
      /\ s.pc \in At => s.item = r.item /\ p.ok = pool[t].ok /\ p.bad = pool[t].bad
      /\ s.pc \notin At => p.ok \cup p.bad = pool[t].ok \cup pool[t].bad \cup {r.item}
    BY DEF Free, At, Runner
<1>5. \A v \in Pids : p.worker[v].pc \in {"free", "gone"} \cup At
    BY <1>1, <1>2, <1>4 DEF PoolOK
<1>6. ASSUME NEW v \in Pids, p.worker[v].pc \in At
      PROVE  /\ p.worker[v].item \in 1..Fetched(p) \ (p.ok \cup p.bad)
             /\ \A x \in Pids \ {v} : p.worker[x].pc \in At => p.worker[x].item # p.worker[v].item
    <2>1. /\ pool[t].worker[v].pc \in At /\ p.worker[v].item = pool[t].worker[v].item
        BY <1>2, <1>4, <1>6
    <2>2. /\ pool[t].worker[v].item \in 1..Fetched(pool[t]) \ (pool[t].ok \cup pool[t].bad)
          /\ \A x \in Pids \ {v} : pool[t].worker[x].pc \in At => pool[t].worker[x].item # pool[t].worker[v].item
        BY <1>1, <2>1 DEF PoolOK
    <2>3. \A x \in Pids : p.worker[x].pc \in At => pool[t].worker[x].pc \in At /\ p.worker[x].item = pool[t].worker[x].item
        BY <1>2, <1>4
    <2>4. p.worker[v].item \notin p.ok \cup p.bad
        <3>1. CASE v = w
            BY <1>2, <1>4, <1>6, <2>1, <2>2, <3>1
        <3>2. CASE v # w
            BY <1>4, <2>1, <2>2, <3>2
        <3> QED
            BY <3>1, <3>2
    <2> QED
        BY <1>2, <2>1, <2>2, <2>3, <2>4
<1>7. ASSUME NEW i \in 1..Fetched(p)
      PROVE  i \in p.ok \cup p.bad \/ \E v \in Pids : p.worker[v].pc \in At /\ p.worker[v].item = i
    <2>1. i \in pool[t].ok \cup pool[t].bad \/ \E v \in Pids : pool[t].worker[v].pc \in At /\ pool[t].worker[v].item = i
        BY <1>1, <1>2 DEF PoolOK
    <2>2. pool[t].ok \cup pool[t].bad \subseteq p.ok \cup p.bad
        OBVIOUS
    <2>3. CASE i = r.item
        BY <1>2, <1>4, <2>3
    <2>4. CASE i # r.item
        BY <1>2, <2>1, <2>2, <2>4
    <2> QED
        BY <2>3, <2>4
<1>8. \A v \in Pids : p.worker[v].pc = "gone" => cancelled \/ (p.closed /\ p.queue = <<>>)
    BY <1>1, <1>2, <1>4 DEF PoolOK, At
<1>9. /\ p.fed <= Len(ItemsOf(Parallel)) /\ Len(p.queue) <= p.fed
      /\ \A k \in DOMAIN p.queue : p.queue[k] = Fetched(p) + k
      /\ p.closed => cancelled \/ p.fed = Len(ItemsOf(Parallel))
    BY <1>1, <1>2 DEF PoolOK
<1>10. p.ok \cup p.bad \subseteq 1..Fetched(p)
    BY <1>1, <1>2, <1>3 DEF PoolOK
<1> QED
    BY <1>5, <1>6, <1>7, <1>8, <1>9, <1>10 DEF PoolOK

\* The tries that initiated an item, when one more does.
LEMMA OneMoreWinner ==
    ASSUME NEW t \in Tries, NEW i, t \notin Winners(i), Winners(i)' = Winners(i) \cup {t}
    PROVE  Cardinality(Winners(i)') = Cardinality(Winners(i)) + 1
<1>1. IsFiniteSet(Winners(i))
    BY Constant, FS_Subset DEF Winners
<1> QED
    BY <1>1, FS_AddElement

LEMMA WorkItemKeeps ==
    ASSUME IInv, NEW t \in Tries, NEW w \in Pids, WorkItem(t, w)
    PROVE  IInv'
<1> DEFINE r == pool[t].worker[w]
<1>1. PICK q \in {"create", "start", "won", "lost"} :
        /\ Work(r, Parallel, r.item, q)
        /\ pool' = [pool EXCEPT ![t].worker[w] = IF q \in {"won", "lost"} THEN Free ELSE [r EXCEPT !.pc = q],
                                ![t].ok = IF q = "won" THEN @ \cup {r.item} ELSE @,
                                ![t].bad = IF q = "lost" THEN @ \cup {r.item} ELSE @]
    BY DEF WorkItem
<1>2. UNCHANGED <<config, op, cancelled>>
    BY DEF WorkItem
<1>3. /\ r.pc \in At
      /\ started' = IF q = "won" THEN [started EXCEPT ![Parallel][r.item] = @ + 1] ELSE started
    BY <1>1 DEF Work, Checked, Created, Started, At
<1>4. pool[t].open
    BY <1>3 DEF IInv, Pools, EmptyPool, Free, At
<1>5. /\ pool[t] \in PoolType /\ PoolOK(pool[t]) /\ pool \in [Tries -> PoolType] /\ config \in Configs
      /\ Len(ItemsOf(Parallel)) \in Nat /\ Parallel \in DOMAIN Steps /\ Par(Parallel)
    BY <1>4, OpenPoolOK DEF IInv, Pools
<1>6. /\ r \in Runner /\ r.item \in DOMAIN ItemsOf(Parallel) /\ r.item \notin pool[t].ok
    <2>1. r \in Runner
        BY <1>5 DEF PoolType
    <2>2. r.item \in 1..Fetched(pool[t]) /\ r.item \notin pool[t].ok /\ Fetched(pool[t]) <= Len(ItemsOf(Parallel))
        BY <1>3, <1>4, <1>5, OpenPoolOK DEF PoolOK, Fetched
    <2>3. Fetched(pool[t]) \in Nat /\ ItemsOf(Parallel) \in Seq(Item)
        BY <1>4, <1>5, OpenPoolOK, Listed
    <2> QED
        BY <1>5, <2>1, <2>2, <2>3
<1> DEFINE s == IF q \in {"won", "lost"} THEN Free ELSE [r EXCEPT !.pc = q]
           good == IF q = "won" THEN pool[t].ok \cup {r.item} ELSE pool[t].ok
           poor == IF q = "lost" THEN pool[t].bad \cup {r.item} ELSE pool[t].bad
           p == [pool[t] EXCEPT !.worker[w] = s, !.ok = good, !.bad = poor]
<1>7. s \in Runner /\ good \in SUBSET Nat /\ poor \in SUBSET Nat
    BY <1>5, <1>6, Constant DEF Runner, PoolType
<1>8. pool' = [pool EXCEPT ![t] = p]
    BY <1>1, <1>5 DEF PoolType
<1>9. /\ p \in PoolType /\ p.worker = [pool[t].worker EXCEPT ![w] = s] /\ p.ok = good /\ p.bad = poor
      /\ p.fed = pool[t].fed /\ p.queue = pool[t].queue /\ p.closed = pool[t].closed /\ p.open
    <2> HIDE DEF s, good, poor
    <2> QED
        BY <1>4, <1>5, <1>7 DEF PoolType
<1>10. PoolOK(p)
    <2> HIDE DEF p
    <2> QED
        BY <1>3, <1>4, <1>6, <1>7, <1>9, WorkedPool
<1>11. CASE q # "won"
    <2> HIDE DEF p
    <2> QED
        BY <1>2, <1>3, <1>4, <1>8, <1>9, <1>10, <1>11, PoolBecomes
<1>12. CASE q = "won"
    <2> HIDE DEF p, r
    <2>1. /\ pool' \in [Tries -> PoolType] /\ pool'[t] = p /\ \A u \in Tries \ {t} : pool'[u] = pool[u]
          /\ pool'[t].ok = pool[t].ok \cup {r.item}
        BY <1>5, <1>8, <1>9, <1>12
    <2>2. /\ DOMAIN started' = DOMAIN Steps /\ started' = [n \in DOMAIN Steps |-> started'[n]]
          /\ \A n \in DOMAIN Steps : started'[n] \in [DOMAIN ItemsOf(n) -> Nat]
          /\ \A n \in DOMAIN Steps : \A i \in DOMAIN ItemsOf(n) :
               started'[n][i] = IF n = Parallel /\ i = r.item THEN started[n][i] + 1 ELSE started[n][i]
        <3>1. /\ started = [n \in DOMAIN Steps |-> started[n]] /\ DOMAIN started = DOMAIN Steps
              /\ \A n \in DOMAIN Steps : started[n] \in [DOMAIN ItemsOf(n) -> Nat]
            BY DEF IInv, Types
        <3>2. started' = [started EXCEPT ![Parallel] = [started[Parallel] EXCEPT ![r.item] = @ + 1]]
            BY <1>3, <1>12, <3>1 DEF r
        <3> DEFINE row == [started[Parallel] EXCEPT ![r.item] = @ + 1]
        <3>3. /\ row \in [DOMAIN ItemsOf(Parallel) -> Nat]
              /\ \A i \in DOMAIN ItemsOf(Parallel) : row[i] = IF i = r.item THEN started[Parallel][i] + 1 ELSE started[Parallel][i]
            BY <1>5, <1>6, <3>1
        <3> HIDE DEF row
        <3>4. started' = [started EXCEPT ![Parallel] = row]
            BY <3>2 DEF row
        <3> QED
            BY <1>5, <3>1, <3>3, <3>4
    <2>3. Types' /\ Operating'
        <3>1. pool[op.try].open => pool'[op.try].open
            <4>1. op.try \in Tries
                BY DEF IInv, Types, OpType
            <4> QED
                BY <1>9, <2>1, <4>1
        <3> QED
            BY <1>2, <2>1, <2>2, <3>1 DEF IInv, Types, Operating, Par, Steps, ItemsOf
    <2>4. Pools'
        <3> SUFFICES ASSUME NEW u \in Tries
                     PROVE  /\ pool'[u].open => u <= op.try /\ Parallel' \in DOMAIN Steps' /\ Par(Parallel)' /\ PoolOK(pool[u])'
                            /\ ~pool'[u].open => pool'[u] = EmptyPool
            BY <1>2 DEF Pools
        <3>1. /\ Steps' = Steps /\ Parallel' = Parallel /\ Par(Parallel)' = Par(Parallel)
              /\ ItemsOf(Parallel)' = ItemsOf(Parallel)
            BY <1>2, SameSteps DEF Par
        <3>2. /\ pool[u].open => u <= op.try /\ Parallel \in DOMAIN Steps /\ Par(Parallel) /\ PoolOK(pool[u])
              /\ ~pool[u].open => pool[u] = EmptyPool
            BY DEF IInv, Pools
        <3>3. CASE u = t
            <4>1. PoolOK(pool[u])'
                BY <1>2, <1>10, <2>1, <3>1, <3>3 DEF PoolOK, Fetched
            <4> QED
                BY <1>4, <1>9, <2>1, <3>1, <3>2, <3>3, <4>1
        <3>4. CASE u # t
            BY <1>2, <2>1, <3>1, <3>2, <3>4, PoolStays
        <3> QED
            BY <3>3, <3>4
    <2>5. Counted'
        <3>1. ASSUME NEW n \in DOMAIN Steps, NEW i \in DOMAIN ItemsOf(n)
              PROVE  /\ Par(n) => started'[n][i] = Cardinality(Winners(i)')
                     /\ ~Par(n) => started'[n][i] < op.try \/ (started'[n][i] = op.try /\ Through(n, i)')
            <4>1. /\ Par(n) => started[n][i] = Cardinality(Winners(i))
                  /\ ~Par(n) => started[n][i] < op.try \/ (started[n][i] = op.try /\ Through(n, i))
                BY DEF IInv, Counted
            <4>2. Through(n, i)' = Through(n, i)
                BY <1>2 DEF Through
            <4>3. Par(n) => n = Parallel
                BY <1>5, Listed
            <4>4. CASE i = r.item
                <5>1. t \notin Winners(i) /\ Winners(i)' = Winners(i) \cup {t}
                    BY <1>6, <2>1, <4>4 DEF Winners, r
                <5>2. Cardinality(Winners(i)') = Cardinality(Winners(i)) + 1
                    BY <5>1, OneMoreWinner
                <5> QED
                    BY <1>5, <2>2, <4>1, <4>2, <4>3, <4>4, <5>2
            <4>5. CASE i # r.item
                <5>1. Winners(i)' = Winners(i)
                    BY <2>1, <4>5 DEF Winners
                <5> QED
                    BY <2>2, <4>1, <4>2, <4>5, <5>1
            <4> QED
                BY <4>4, <4>5
        <3> QED
            BY <1>2, <3>1 DEF Counted, Par, Steps, ItemsOf
    <2>6. Passed'
        <3>1. \A u \in Tries : pool[u].ok \subseteq pool'[u].ok
            BY <2>1
        <3>2. op.try \in Tries
            BY DEF IInv, Types, OpType
        <3> QED
            BY <1>2, <3>1, <3>2 DEF IInv, Passed, Par, Steps, ItemsOf
    <2> QED
        BY <2>3, <2>4, <2>5, <2>6 DEF IInv
<1> QED
    BY <1>11, <1>12

\* A pool whose workers are gone, nobody having cancelled, is done with all its items.
LEMMA JoinKeeps ==
    ASSUME IInv, Join
    PROVE  IInv'
<1>1. /\ op.pc = "wait" /\ AllGone(op.try) /\ UNCHANGED <<config, started, pool, cancelled>>
      /\ op' = IF pool[op.try].bad # {} THEN Failed(op) ELSE NextStep(op)
    BY DEF Join, Quietly
<1>2. CASE pool[op.try].bad # {}
    BY <1>1, <1>2, FailedKeeps
<1>3. CASE pool[op.try].bad = {}
    <2>1. op.at \in DOMAIN Steps /\ Par(op.at) /\ pool[op.try].open /\ op.try \in Tries /\ config \in Configs
        BY <1>1 DEF IInv, Operating, Types, OpType
    <2> DEFINE p == pool[op.try]
    <2>2. /\ PoolOK(p) /\ p.fed \in Nat /\ p.queue \in Seq(Nat) /\ Len(ItemsOf(Parallel)) \in Nat
          /\ op.at = Parallel /\ ItemsOf(op.at) \in Seq(Item)
        BY <2>1, OpenPoolOK, Listed
    <2>3. ASSUME ~cancelled PROVE DOMAIN ItemsOf(op.at) \subseteq p.ok
        <3>1. 1 \in Pids
            BY Constant DEF Pids
        <3>2. p.closed /\ p.queue = <<>>
            BY <1>1, <2>2, <2>3, <3>1 DEF PoolOK, AllGone
        <3>3. p.fed = Len(ItemsOf(Parallel))
            BY <2>2, <2>3, <3>2 DEF PoolOK
        <3>4. Fetched(p) = Len(ItemsOf(op.at))
            BY <2>2, <3>2, <3>3 DEF Fetched
        <3>5. \A i \in 1..Fetched(p) : i \in p.ok \cup p.bad
            BY <1>1, <2>2 DEF PoolOK, AllGone, At
        <3> QED
            BY <1>3, <2>2, <3>4, <3>5
    <2> QED
        BY <1>1, <1>3, <2>1, <2>3, NextStepKeeps DEF Over
<1> QED
    BY <1>2, <1>3

LEMMA CancelKeeps ==
    ASSUME IInv, Cancel
    PROVE  IInv'
<1>1. cancelled' = TRUE /\ UNCHANGED <<config, op, pool, started>>
    BY DEF Cancel
<1>2. Types' /\ Operating'
    BY <1>1 DEF IInv, Types, Operating, Par, Steps, ItemsOf
<1>3. Pools'
    <2> SUFFICES ASSUME NEW t \in Tries
                 PROVE  /\ pool[t].open => t <= op.try /\ Parallel' \in DOMAIN Steps' /\ Par(Parallel)' /\ PoolOK(pool[t])'
                        /\ ~pool[t].open => pool[t] = EmptyPool
        BY <1>1 DEF Pools
    <2>1. Steps' = Steps /\ Parallel' = Parallel /\ Par(Parallel)' = Par(Parallel)
        BY <1>1, SameSteps DEF Par
    <2>2. PoolOK(pool[t]) => PoolOK(pool[t])'
        BY <1>1, PoolStays
    <2> QED
        BY <2>1, <2>2 DEF IInv, Pools
<1>4. Counted'
    BY <1>1 DEF IInv, Counted, Winners, Through, Par, Steps, ItemsOf
<1>5. Passed'
    BY <1>1 DEF Passed
<1> QED
    BY <1>2, <1>3, <1>4, <1>5 DEF IInv

---------------------------------------------------------------------------

LEMMA NextKeeps ==
    ASSUME IInv, [Next]_vars
    PROVE  IInv'
<1>1. CASE Operation
    <2>1. CASE Abandon
        BY <2>1, FailedKeeps DEF Abandon, Quietly
    <2> QED
        BY <1>1, <2>1, QuietOperation, OwnWorkKeeps, OpenPoolKeeps, JoinKeeps DEF Operation
<1>2. ASSUME NEW t \in Tries, Producer(t) \/ \E w \in Pids : Worker(t, w)
      PROVE  IInv'
    BY <1>2, ProducerKeeps, TakeItemKeeps, LeaveKeeps, WorkItemKeeps DEF Worker
<1>3. CASE UNCHANGED vars
    <2>1. UNCHANGED <<config, op, pool, started, cancelled>>
        BY <1>3 DEF vars
    <2>2. Types' /\ Operating' /\ Counted' /\ Passed'
        <3>1. Types'
            BY <2>1 DEF IInv, Types, Steps, ItemsOf
        <3>2. Operating' /\ Passed'
            BY <2>1 DEF IInv, Operating, Passed, Par, Steps, ItemsOf
        <3>3. Counted'
            BY <2>1 DEF IInv, Counted, Winners, Through, Par, Steps, ItemsOf
        <3> QED
            BY <3>1, <3>2, <3>3
    <2>3. Pools'
        <3>1. Steps' = Steps /\ Parallel' = Parallel /\ Par(Parallel)' = Par(Parallel)
            BY <2>1, SameSteps DEF Par
        <3>2. \A t \in Tries : PoolOK(pool[t]) => PoolOK(pool[t])'
            BY <2>1, PoolStays
        <3> QED
            BY <2>1, <3>1, <3>2 DEF IInv, Pools
    <2> QED
        BY <2>2, <2>3 DEF IInv
<1> QED
    BY <1>1, <1>2, <1>3, CancelKeeps DEF Next, AllOver

LEMMA Inductive == Spec => []IInv
<1>1. IInv /\ [Next]_vars => IInv'
    BY NextKeeps
<1> QED
    BY InitIInv, <1>1, PTL DEF Spec

LEMMA ImpliesOnceEach == IInv => OnceEach
<1> SUFFICES ASSUME IInv, NEW n \in DOMAIN Steps, NEW i \in DOMAIN ItemsOf(n)
             PROVE  /\ started[n][i] <= op.try
                    /\ (op.pc = "success" /\ ~cancelled /\ Steps[n].mode = "parallel") =>
                          started[n][i] >= 1 /\ i \in pool[op.try].ok
    BY DEF OnceEach
<1>1. op.try \in Tries /\ op.try \in Nat /\ started[n][i] \in Nat
    BY OpTyped DEF IInv, Types
<1>2. /\ Par(n) => started[n][i] = Cardinality(Winners(i))
      /\ ~Par(n) => started[n][i] <= op.try
    BY <1>1 DEF IInv, Counted
<1>3. IsFiniteSet(Winners(i)) /\ Cardinality(Winners(i)) <= op.try
    <2>1. Winners(i) \subseteq 1..op.try
        BY <1>1, Constant, EmptyTyped DEF Winners, IInv, Pools
    <2>2. IsFiniteSet(1..op.try) /\ Cardinality(1..op.try) = op.try
        <3>1. op.try \in Nat /\ 1 \in Int /\ op.try \in Int /\ op.try >= 1
            BY <1>1, Constant
        <3> QED
            BY <3>1, FS_Interval
    <2> QED
        BY <2>1, <2>2, FS_Subset
<1>4. ASSUME op.pc = "success", ~cancelled, Par(n)
      PROVE  started[n][i] >= 1 /\ i \in pool[op.try].ok
    <2>1. i \in pool[op.try].ok
        BY <1>4 DEF IInv, Passed
    <2>2. Winners(i) # {}
        BY <1>1, <2>1 DEF Winners
    <2>3. Cardinality(Winners(i)) \in Nat /\ Cardinality(Winners(i)) # 0
        BY <1>3, <2>2, FS_EmptySet, FS_CardinalityType
    <2> QED
        BY <1>2, <1>4, <2>1, <2>3
<1> QED
    BY <1>2, <1>3, <1>4 DEF Par

---------------------------------------------------------------------------

\* The state has its type, and every pool keeps each item it was fed in one
\* place (executeForEachParallel of the workflow initiator).
THEOREM PoolsHold == Spec => [](Types /\ Pools)
<1>1. IInv => Types /\ Pools
    BY DEF IInv
<1> QED
    BY Inductive, <1>1, PTL

\* No try of an operation initiates the workflow of an item twice, and one that
\* succeeds without being cancelled has initiated every item of a parallel step,
\* for any number of items, workers, places of the channel and repetitions
\* (executeForEachParallel and the retry loop of Call).
THEOREM OncePerTry == Spec => []OnceEach
BY Inductive, ImpliesOnceEach, PTL

=============================================================================
