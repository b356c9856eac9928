----------------------------- MODULE Initiation ----------------------------
(* One operation that initiates workflows, with its repetition by Call.  The *)
(* steps of the function are taken in turn: a plain step initiates one       *)
(* workflow; a forEach initiates one per item, with shouldSkip conditions on *)
(* the goroutine of the operation, without them on a pool of workers fed     *)
(* through a channel.  Initiating a workflow looks a user up, creates one    *)
(* that is not there, and hands a message to the host.                       *)
EXTENDS Naturals, Sequences, FiniteSets, SequencesExt

CONSTANTS
    Configs,     \* the functions and conditions to explore
    Users,       \* ids a YAML may name
    Workers,     \* goroutines of a pool: 2, more for more than 100 items
    Buffer,      \* places of the channel: 2 * Workers
    MaxRetries,  \* repetitions by Call: 1
    None

Modes == {"plain", "sequential", "parallel", "unresolved"}
\* An item names a user; or has the fields of a user to create (the id is made
\* up, so it is never taken); or lacks a field that is required.
Item == [user : Users \cup {"object", "invalid"}, channel : BOOLEAN]
Step == [mode : Modes, items : Seq(Item)]

ASSUME ConstantsAssumption ==
    /\ Workers \in Nat \ {0} /\ Buffer \in Nat \ {0} /\ MaxRetries \in Nat
    /\ {"object", "invalid"} \cap Users = {}
    /\ \A c \in Configs : /\ c.steps \in Seq(Step)
                          /\ c.known \in SUBSET Users
                          /\ {c.faults, c.cancels} \subseteq BOOLEAN
                          /\ \A m, n \in DOMAIN c.steps :
                               c.steps[m].mode = "parallel" /\ c.steps[n].mode = "parallel" => m = n

VARIABLES
    config,
    op,         \* the operation: stage, try, step, item of a sequential step
    pool,       \* the workers, channel and results of each try's parallel step
    users,      \* table of users
    rows,       \* users with a record of a failed initiation
    started,    \* how often the workflow of each item was initiated
    cancelled   \* the context of the call

vars == <<config, op, pool, users, rows, started, cancelled>>

Tries == 1..(MaxRetries + 1)
Pids == 1..Workers
Over == {"success", "error"}

\* A goroutine that initiates the workflow of an item: "check", "create" and
\* "start" are its calls of the host, "won" and "lost" what came of them.
Runner == [pc : {"free", "check", "create", "start", "won", "lost", "gone"}, item : Nat]
Free == [pc |-> "free", item |-> 0]

EmptyPool == [fed |-> 0, closed |-> FALSE, queue |-> <<>>, worker |-> [w \in Pids |-> Free],
              ok |-> {}, bad |-> {}, open |-> FALSE]

Steps == config.steps
Current == Steps[op.at]
ItemsOf(n) == Steps[n].items
Parallel == CHOOSE n \in DOMAIN Steps : Steps[n].mode = "parallel"

Init ==
    /\ config \in Configs
    /\ op = [pc |-> "step", try |-> 1, at |-> 1, run |-> Free]
    /\ pool = [t \in Tries |-> EmptyPool]
    /\ users = config.known /\ rows = {}
    /\ started = [n \in DOMAIN Steps |-> [i \in DOMAIN ItemsOf(n) |-> 0]]
    /\ cancelled = FALSE

---------------------------------------------------------------------------
\* The steps of a goroutine r that works on an item of step n.  Go says what
\* becomes of r.

\* The parameters are looked at; a user that is named is looked up, and without
\* a channel nobody is created.
Checked(r, item, q) ==
    /\ r.pc = "check"
    /\ CASE item.user = "invalid" -> q = "lost"
         [] item.user = "object" -> q = "create"
         [] item.user \in Users ->
              \/ item.user \in users /\ q = "start"
              \/ item.user \notin users /\ q = IF item.channel THEN "create" ELSE "lost"
              \/ config.faults /\ q = "lost"

\* The host refuses an id that is taken.
Taken(item) == item.user \in users
Created(r, item, q) ==
    /\ r.pc = "create"
    /\ \/ ~Taken(item) /\ q = "start"
       \/ (Taken(item) \/ config.faults) /\ q = "lost"

\* A record is left of a user that is not there or cannot be created.
Records(r, item, q) == q = "lost" /\ item.user # "invalid" /\ r.pc \in {"check", "create"}

\* The parameters of the context are resolved after the user was created, and
\* the message is handed to the host.
Started(r, q) == r.pc = "start" /\ (q = "won" \/ (config.faults /\ q = "lost"))

\* One call of the host for item i of step n, by a goroutine in state r that
\* is in state q afterwards.
Work(r, n, i, q) ==
    LET item == ItemsOf(n)[i] IN
    /\ \/ Checked(r, item, q) \/ Created(r, item, q) \/ Started(r, q)
    /\ users' = IF r.pc = "create" /\ q = "start" THEN users \cup ({item.user} \cap Users) ELSE users
    /\ rows' = IF Records(r, item, q) THEN rows \cup {item.user} ELSE rows
    /\ started' = IF q = "won" THEN [started EXCEPT ![n][i] = @ + 1] ELSE started

Quietly == UNCHANGED <<config, users, rows, started, cancelled>>

---------------------------------------------------------------------------
\* The operation.

AtStep == op.pc = "step" /\ op.at <= Len(Steps)

\* Call repeats an operation that failed from its first step, whatever the
\* context says.
Failed(o) ==
    IF o.try > MaxRetries THEN [o EXCEPT !.pc = "error"]
    ELSE [o EXCEPT !.pc = "step", !.try = @ + 1, !.at = 1, !.run = Free]

Unresolved ==
    /\ AtStep /\ Current.mode = "unresolved"
    /\ op' = Failed(op)
    /\ UNCHANGED pool /\ Quietly

NextStep(o) == [o EXCEPT !.pc = "step", !.at = @ + 1, !.run = Free]

NoItems ==
    /\ AtStep /\ Current.mode # "unresolved" /\ Current.items = <<>>
    /\ op' = NextStep(op)
    /\ UNCHANGED pool /\ Quietly

Conclude ==
    /\ op.pc = "step" /\ op.at > Len(Steps)
    /\ op' = [op EXCEPT !.pc = "success"]
    /\ UNCHANGED pool /\ Quietly

\* A plain step, or the next item of a sequential one.
Take ==
    /\ AtStep /\ Current.mode \in {"plain", "sequential"} /\ Current.items # <<>>
    /\ op' = [op EXCEPT !.pc = "work", !.run = [pc |-> "check", item |-> 1]]
    /\ Current.mode = "sequential" => ~cancelled
    /\ UNCHANGED pool /\ Quietly

OwnWork ==
    /\ op.pc = "work"
    /\ \E q \in {"create", "start", "won", "lost"} :
         /\ Work(op.run, op.at, op.run.item, q)
         /\ op' = [op EXCEPT !.run.pc = q]
    /\ UNCHANGED <<config, pool, cancelled>>

\* An item failed or not, the next one is taken: failures are only counted.
\* A condition that holds, or cannot be evaluated, leaves an item out.
Advance(i) == IF i = Len(Current.items) THEN NextStep(op)
              ELSE [op EXCEPT !.run = [pc |-> "check", item |-> i + 1]]
OwnNext ==
    /\ op.pc = "work"
    /\ \/ op.run.pc \in {"won", "lost"}
       \/ op.run.pc = "check" /\ Current.mode = "sequential"
    /\ (Current.mode = "sequential" /\ op.run.item < Len(Current.items)) => ~cancelled
    /\ op' = Advance(op.run.item)
    /\ UNCHANGED pool /\ Quietly

\* A sequential step looks at the context before each item.
OwnCancelled ==
    /\ cancelled /\ (AtStep \/ op.pc = "work") /\ Current.mode = "sequential"
    /\ \/ AtStep /\ Current.items # <<>>
       \/ op.pc = "work" /\ op.run.pc \in {"won", "lost"} /\ op.run.item < Len(Current.items)
    /\ op' = Failed(op)
    /\ UNCHANGED pool /\ Quietly

---------------------------------------------------------------------------
\* A parallel step: the pool of try t.

Items(t) == ItemsOf(Parallel)

OpenPool ==
    /\ AtStep /\ Current.mode = "parallel" /\ Current.items # <<>>
    /\ op' = [op EXCEPT !.pc = "wait"]
    /\ pool' = [pool EXCEPT ![op.try].open = TRUE]
    /\ Quietly

\* The producer sends the next item, closes the channel after the last one, or
\* closes it when the context is done.
Feeding(t) == pool[t].open /\ ~pool[t].closed
DropsWhenFullBug(t) ==
    /\ Feeding(t) /\ pool[t].fed < Len(Items(t))
    /\ pool' = [pool EXCEPT ![t].fed = @ + 1,
                            ![t].queue = IF Len(@) < Buffer THEN Append(@, pool[t].fed + 1) ELSE @]
    /\ UNCHANGED op /\ Quietly
Feed(t) ==
    /\ Feeding(t)
    /\ pool[t].fed < Len(Items(t)) /\ Len(pool[t].queue) < Buffer
    /\ pool' = [pool EXCEPT ![t].fed = @ + 1, ![t].queue = Append(@, pool[t].fed + 1)]
    /\ UNCHANGED op /\ Quietly
FeedsOnBug(t) == pool[t].fed = Len(Items(t))
StopsFeeding(t) == pool[t].fed = Len(Items(t)) \/ cancelled
CloseChannel(t) ==
    /\ Feeding(t) /\ StopsFeeding(t)
    /\ pool' = [pool EXCEPT ![t].closed = TRUE]
    /\ UNCHANGED op /\ Quietly

\* A free worker takes an item or, the context being done or the channel closed
\* and empty, leaves.
TakeItem(t, w) ==
    /\ pool[t].open /\ pool[t].worker[w].pc = "free" /\ pool[t].queue # <<>>
    /\ pool' = [pool EXCEPT ![t].queue = Tail(@),
                            ![t].worker[w] = [pc |-> "check", item |-> Head(pool[t].queue)]]
    /\ UNCHANGED op /\ Quietly
Leaves(t) == cancelled \/ (pool[t].closed /\ pool[t].queue = <<>>)
Leave(t, w) ==
    /\ pool[t].open /\ pool[t].worker[w].pc = "free" /\ Leaves(t)
    /\ pool' = [pool EXCEPT ![t].worker[w].pc = "gone"]
    /\ UNCHANGED op /\ Quietly

\* What comes of an item is noted under the mutex.
WorkItem(t, w) ==
    LET r == pool[t].worker[w] IN
    /\ \E q \in {"create", "start", "won", "lost"} :
         /\ Work(r, Parallel, r.item, q)
         /\ pool' = [pool EXCEPT ![t].worker[w] = IF q \in {"won", "lost"} THEN Free ELSE [r EXCEPT !.pc = q],
                                 ![t].ok = IF q = "won" THEN @ \cup {r.item} ELSE @,
                                 ![t].bad = IF q = "lost" THEN @ \cup {r.item} ELSE @]
    /\ UNCHANGED <<config, op, cancelled>>

\* The operation goes on when all workers are gone, with an error if an item
\* failed; or leaves them to themselves when the context is done.
AllGone(t) == \A w \in Pids : pool[t].worker[w].pc = "gone"
Join ==
    /\ op.pc = "wait" /\ AllGone(op.try)
    /\ op' = IF pool[op.try].bad # {} THEN Failed(op) ELSE NextStep(op)
    /\ UNCHANGED pool /\ Quietly
Abandon ==
    /\ op.pc = "wait" /\ cancelled
    /\ op' = Failed(op)
    /\ UNCHANGED pool /\ Quietly

Cancel ==
    /\ config.cancels /\ ~cancelled
    /\ cancelled' = TRUE
    /\ UNCHANGED <<config, op, pool, users, rows, started>>

---------------------------------------------------------------------------

Operation == \/ Unresolved \/ NoItems \/ Conclude \/ Take \/ OwnWork \/ OwnNext \/ OwnCancelled
             \/ OpenPool \/ Join \/ Abandon
Producer(t) == Feed(t) \/ CloseChannel(t)
Worker(t, w) == TakeItem(t, w) \/ Leave(t, w) \/ WorkItem(t, w)

Ended == /\ op.pc \in Over
         /\ \A t \in Tries : pool[t].open => pool[t].closed /\ AllGone(t)
AllOver == op.pc \in Over /\ UNCHANGED vars

Next == \/ Operation \/ Cancel \/ AllOver
        \/ \E t \in Tries : Producer(t) \/ \E w \in Pids : Worker(t, w)

Spec == Init /\ [][Next]_vars

\* The Go scheduler runs every goroutine, and the host answers.
FairSpec == /\ Spec /\ WF_vars(Operation)
            /\ \A t \in Tries : WF_vars(Producer(t)) /\ \A w \in Pids : WF_vars(Worker(t, w))

---------------------------------------------------------------------------

\* Every item of a list worked through by a pool counts, and counts once: when
\* the operation succeeds without being cancelled, the workflow of each was
\* initiated, by the last try at the latest, and no try initiates one twice.
OnceEach ==
    \A n \in DOMAIN Steps : \A i \in DOMAIN ItemsOf(n) :
        /\ started[n][i] <= op.try
        /\ (op.pc = "success" /\ ~cancelled /\ Steps[n].mode = "parallel") =>
              started[n][i] >= 1 /\ i \in pool[op.try].ok

\* Whenever the context is done, and whoever waits for whom on the channel, the
\* operation ends and no goroutine of it stays behind.
Drains == <>[]Ended

============================================================================
