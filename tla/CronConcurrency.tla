--------------------------- MODULE CronConcurrency ---------------------------
(***************************************************************************)
(* Concurrency control of the time-based triggers of one function:         *)
(* engine/triggers.go, executeCronWithConcurrencyControl and its helpers.  *)
(*                                                                         *)
(* The cron scheduler runs every firing in a goroutine of its own, and an  *)
(* operator may fire the trigger by hand.  A firing asks shouldExecute     *)
(* under a read lock, may kill the oldest execution (waiting for it up to  *)
(* killTimeout), and only then registers itself under the write lock: the  *)
(* decision and the registration are separate critical sections.           *)
(*                                                                         *)
(* A handler is foreign code: it may go on after its context is cancelled, *)
(* and may never return.  The map activeExecutions is kept per function,   *)
(* so one function is modelled, with one or more triggers (Strategies).    *)
(***************************************************************************)
EXTENDS Naturals, Sequences, SequencesExt

CONSTANTS
  Execs,        \* the firings of the function's triggers (bound on arrivals)
  Strategies,   \* strategies its triggers configure
  MaxParallel,  \* maxParallel of its parallel triggers
  NoExec        \* "no execution to kill"

ASSUME ConstantsAssumption ==
  /\ Strategies \subseteq {"parallel", "skip", "kill"}
  /\ MaxParallel \in Nat \ {0}
  /\ NoExec \notin Execs

VARIABLES
  active,     \* activeExecutions[functionKey], oldest first
  pc,         \* where each firing stands in executeCronWithConcurrencyControl
  strategy,   \* strategy of the trigger that fired
  victim,     \* executionToKill of each firing
  cancelled,  \* executions whose context was cancelled by a killer
  finished,   \* executions whose DoneCh is closed
  overlapped  \* history: two firings were between decision and registration
              \* at once, or one passed between the two steps of a cleanup

vars == <<active, pc, strategy, victim, cancelled, finished, overlapped>>

\* Between shouldExecute and registerExecution.
Deciding == {"check", "verify", "cancel", "await", "register"}

Stages == {"idle", "running", "closing", "done", "skipped"} \cup Deciding

TypeOK ==
  /\ active \in Seq(Execs)
  /\ pc \in [Execs -> Stages]
  /\ strategy \in [Execs -> {"parallel", "skip", "kill"}]
  /\ victim \in [Execs -> Execs \cup {NoExec}]
  /\ cancelled \subseteq Execs
  /\ finished \subseteq Execs
  /\ overlapped \in BOOLEAN

Init ==
  /\ active = <<>>
  /\ pc = [e \in Execs |-> "idle"]
  /\ strategy = [e \in Execs |-> "parallel"]
  /\ victim = [e \in Execs |-> NoExec]
  /\ cancelled = {}
  /\ finished = {}
  /\ overlapped = FALSE

Goto(e, stage) == pc' = [pc EXCEPT ![e] = stage]

-----------------------------------------------------------------------------
(* shouldExecute.  The definitions named ...Bug are mutated forms of the   *)
(* definition that follows them; no specification uses them.               *)

Refuses(s) == active # <<>> /\ s = "skip"

KillsTooLateBug(s) ==
  /\ active # <<>>
  /\ s = "kill" \/ (s = "parallel" /\ Len(active) > MaxParallel)

KillsOldest(s) ==
  /\ active # <<>>
  /\ s = "kill" \/ (s = "parallel" /\ Len(active) >= MaxParallel)

NewestBug == active[Len(active)]

Oldest == active[1]

ForgetsAllBug(e) == <<>>

ForgetsNothingBug(e) == active

LeavesHoleBug(e) == [i \in DOMAIN active |-> IF active[i] = e THEN NoExec ELSE active[i]]

\* unregisterExecution: removing an absent execution changes nothing.
Unregistered(e) ==
  IF \E i \in DOMAIN active : active[i] = e
  THEN RemoveAt(active, CHOOSE i \in DOMAIN active : active[i] = e)
  ELSE active

-----------------------------------------------------------------------------
\* What the history variable records of a step of firing e.
ArrivesDuringDecision == overlapped' = (overlapped \/ \E f \in Execs : pc[f] \in Deciding)

PassesCleanup == overlapped' = (overlapped \/ \E f \in Execs : pc[f] = "closing")

\* The scheduler starts executeCronWithConcurrencyControl in a goroutine.
CronFires(e, s) ==
  /\ pc[e] = "idle"
  /\ ArrivesDuringDecision
  /\ Goto(e, "check")
  /\ strategy' = [strategy EXCEPT ![e] = s]
  /\ UNCHANGED <<active, victim, cancelled, finished>>

\* ExecuteTimeBasedTriggerManually asks shouldExecute itself, answers its
\* caller, and leaves the execution to a goroutine that decides once more.
FireManually(e, s) ==
  /\ pc[e] = "idle"
  /\ ArrivesDuringDecision
  /\ strategy' = [strategy EXCEPT ![e] = s]
  /\ \/ /\ Refuses(s)
        /\ Goto(e, "skipped")
     \/ /\ ~Refuses(s)
        /\ Goto(e, "check")
  /\ UNCHANGED <<active, victim, cancelled, finished>>

NeverRefusesBug(e) ==
  /\ pc[e] = "check"
  /\ Goto(e, "register")
  /\ UNCHANGED <<active, strategy, victim, cancelled, finished, overlapped>>

ShouldExecute(e) ==
  /\ pc[e] = "check"
  /\ PassesCleanup
  /\ \/ /\ Refuses(strategy[e])
        /\ Goto(e, "skipped")
        /\ UNCHANGED victim
     \/ /\ KillsOldest(strategy[e])
        /\ victim' = [victim EXCEPT ![e] = Oldest]
        /\ Goto(e, "verify")
     \/ /\ ~Refuses(strategy[e])
        /\ ~KillsOldest(strategy[e])
        /\ Goto(e, "register")
        /\ UNCHANGED victim
  /\ UNCHANGED <<active, strategy, cancelled, finished>>

\* findExecution under the read lock: a victim that is gone is not killed.
VerifyVictim(e) ==
  /\ pc[e] = "verify"
  /\ Goto(e, IF victim[e] \in ToSet(active) THEN "cancel" ELSE "register")
  /\ UNCHANGED <<active, strategy, victim, cancelled, finished, overlapped>>

\* killExecution cancels the context of the victim ...
Cancel(e) ==
  /\ pc[e] = "cancel"
  /\ cancelled' = cancelled \cup {victim[e]}
  /\ Goto(e, "await")
  /\ UNCHANGED <<active, strategy, victim, finished, overlapped>>

\* ... and waits for its DoneCh ...
VictimDone(e) ==
  /\ pc[e] = "await"
  /\ victim[e] \in finished
  /\ Goto(e, "register")
  /\ UNCHANGED <<active, strategy, victim, cancelled, finished, overlapped>>

AwaitsForeverBug(e) ==
  /\ FALSE
  /\ UNCHANGED vars

\* ... or for killTimeout, after which the victim is unregistered although
\* its handler may still be running.
KillTimeout(e) ==
  /\ pc[e] = "await"
  /\ active' = Unregistered(victim[e])
  /\ Goto(e, "register")
  /\ UNCHANGED <<strategy, victim, cancelled, finished, overlapped>>

\* registerExecution, and the handler starts.
Register(e) ==
  /\ pc[e] = "register"
  /\ PassesCleanup
  /\ active' = Append(active, e)
  /\ Goto(e, "running")
  /\ UNCHANGED <<strategy, victim, cancelled, finished>>

\* The handler returns and the deferred function closes DoneCh ...
HandlerReturns(e) ==
  /\ pc[e] = "running"
  /\ finished' = finished \cup {e}
  /\ Goto(e, "closing")
  /\ UNCHANGED <<active, strategy, victim, cancelled, overlapped>>

\* ... then unregisters the execution.
Unregister(e) ==
  /\ pc[e] = "closing"
  /\ active' = Unregistered(e)
  /\ Goto(e, "done")
  /\ UNCHANGED <<strategy, victim, cancelled, finished, overlapped>>

Fires(e) == \E s \in Strategies : CronFires(e, s) \/ FireManually(e, s)

\* The steps of the wrapper itself; none of them waits for a handler.
Wrapper(e) ==
  \/ ShouldExecute(e)
  \/ VerifyVictim(e)
  \/ Cancel(e)
  \/ VictimDone(e)
  \/ KillTimeout(e)
  \/ Register(e)
  \/ Unregister(e)

\* Every firing was dealt with: a bounded instance stops here.
AllDone ==
  /\ \A e \in Execs : pc[e] \in {"done", "skipped"}
  /\ UNCHANGED vars

Next == AllDone \/ \E e \in Execs : Fires(e) \/ Wrapper(e) \/ HandlerReturns(e)

Spec == Init /\ [][Next]_vars

\* Goroutines are scheduled and the kill timer expires; nothing is assumed
\* about handlers, nor about triggers firing.
FairSpec == Spec /\ \A e \in Execs : WF_vars(Wrapper(e))

-----------------------------------------------------------------------------
Running(e) == pc[e] \in {"running", "closing"}

\* The registry lists executions at most once, and only ones that have not
\* ended: an entry left behind would make the skip strategy refuse for ever.
RegistryLive ==
  /\ \A i, j \in DOMAIN active : active[i] = active[j] => i = j
  /\ \A i \in DOMAIN active : Running(active[i])

\* An execution that runs outside the registry is one whose context was
\* cancelled: unregistering by timeout never hides an execution that was not
\* told to stop.
HiddenWasCancelled ==
  \A e \in Execs : Running(e) /\ e \notin ToSet(active) => e \in cancelled

\* Parallel and kill, while neither decisions nor cleanups were interleaved
\* with another decision: the registry never holds more than maxParallel
\* executions, whatever mixture of triggers fires and however long a victim
\* takes to stop.
SerialBound == ~overlapped => Len(active) <= MaxParallel

\* Skip, while no firing decided next to another one: it starts only if every
\* execution still running was told to stop.
SerialSkip ==
  [][~overlapped' =>
       \A e, f \in Execs :
         /\ pc[e] = "register" /\ pc'[e] = "running" /\ strategy[e] = "skip"
         /\ Running(f)
         => f \in cancelled]_vars

\* A killer cancels the oldest registered execution or one already gone: the
\* victim chosen under the first lock is never overtaken by an older one.
CancelsOldest ==
  [][\A e \in cancelled' \ cancelled :
       e \in ToSet(active) => e = active[1]]_vars

\* Every firing is dealt with, even when the execution it has to kill never
\* returns: it starts or is skipped.
FiringSettles ==
  \A e \in Execs : (pc[e] = "check") ~> (Running(e) \/ pc[e] \in {"done", "skipped"})

\* doc/specification.md, strategy skip: "Guarantees only one execution at a
\* time".  Decision and registration are separate critical sections.
SkipGuarantee ==
  Strategies = {"skip"} =>
    \A e, f \in Execs : Running(e) /\ Running(f) => e = f
==============================================================================
