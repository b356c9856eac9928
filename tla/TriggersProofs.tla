---------------------------- MODULE TriggersProofs ----------------------------
(***************************************************************************)
(* Proofs about engine/triggers.go: CronConcurrency, for any number of     *)
(* firings, any strategies and any interleaving of their steps, and        *)
(* TriggerQueue, for any messages, triggers and kinds of items.  The two   *)
(* share no state; the names of the second specification begin with Queue. *)
(*                                                                         *)
(* RegistryLive is inductive with the types; HiddenWasCancelled also needs *)
(* that whoever waits for a victim has cancelled it, for the wait may end  *)
(* in a timeout that unregisters the victim.  For firings that decide      *)
(* alone SInv says what a decision has established until the registration: *)
(* room, or a victim whose place becomes free.                             *)
(*                                                                         *)
(* TriggerQueue implements Mailbox, and the steps map one to one: Add      *)
(* puts, a GetNext that finds a message takes it, MessageDone finishes it, *)
(* Leave closes; every other step stutters.  The mapping needs to know     *)
(* that the reader holds a message exactly while it handles one.  FInv:    *)
(* every message is in one place, once; what the current one fired is what *)
(* it fires of the triggers before next, in order.                         *)
(***************************************************************************)
EXTENDS CronConcurrency, TriggerQueue, TLAPS


AwaitedIsCancelled ==
  \A e \in Execs : pc[e] \in {"verify", "cancel", "await"} =>
    /\ victim[e] \in Execs
    /\ pc[e] = "await" => victim[e] \in cancelled

IInv == TypeOK /\ RegistryLive /\ HiddenWasCancelled /\ AwaitedIsCancelled

-----------------------------------------------------------------------------
(* Removing one entry of a sequence without repetitions.                   *)

LEMMA RemoveAtFacts ==
  ASSUME NEW S, NEW s \in Seq(S), NEW i \in DOMAIN s
  PROVE  /\ RemoveAt(s, i) \in Seq(S)
         /\ Len(RemoveAt(s, i)) = Len(s) - 1
         /\ \A j \in 1 .. i - 1 : RemoveAt(s, i)[j] = s[j]
         /\ \A j \in i .. Len(s) - 1 : RemoveAt(s, i)[j] = s[j + 1]
<1> DEFINE a == SubSeq(s, 1, i - 1)
           b == SubSeq(s, i + 1, Len(s))
<1>1. i \in 1 .. Len(s) /\ Len(s) \in Nat
  OBVIOUS
<1>2. a \in Seq(S) /\ Len(a) = i - 1 /\ \A j \in 1 .. i - 1 : a[j] = s[j]
  BY <1>1
<1>3. b \in Seq(S) /\ Len(b) = Len(s) - i /\ \A j \in 1 .. Len(s) - i : b[j] = s[i + j]
  BY <1>1
<1>4. RemoveAt(s, i) = a \o b
  BY DEF RemoveAt
<1> HIDE DEF a, b
<1>5. /\ a \o b \in Seq(S) /\ Len(a \o b) = Len(s) - 1
      /\ \A j \in 1 .. i - 1 : (a \o b)[j] = a[j]
      /\ \A j \in i .. Len(s) - 1 : (a \o b)[j] = b[j - (i - 1)]
  BY <1>1, <1>2, <1>3, SMTT(30)
<1>6. \A j \in 1 .. i - 1 : (a \o b)[j] = s[j]
  BY <1>2, <1>5
<1>7. ASSUME NEW j \in i .. Len(s) - 1
      PROVE  (a \o b)[j] = s[j + 1]
  <2>1. j - (i - 1) \in 1 .. Len(s) - i /\ i + (j - (i - 1)) = j + 1
    BY <1>1
  <2>2. b[j - (i - 1)] = s[i + (j - (i - 1))]
    BY <1>3, <2>1
  <2> QED
    BY <1>5, <2>1, <2>2
<1> QED
  BY <1>4, <1>5, <1>6, <1>7

Injective(s) == \A i, j \in DOMAIN s : s[i] = s[j] => i = j

LEMMA UnregisteredFacts ==
  ASSUME active \in Seq(Execs), Injective(active), NEW e
  PROVE  /\ Unregistered(e) \in Seq(Execs)
         /\ Injective(Unregistered(e))
         /\ ToSet(Unregistered(e)) = ToSet(active) \ {e}
<1>1. CASE \E i \in DOMAIN active : active[i] = e
  <2> DEFINE k == CHOOSE i \in DOMAIN active : active[i] = e
             u == RemoveAt(active, k)
  <2>1. k \in DOMAIN active /\ active[k] = e
    BY <1>1
  <2> HIDE DEF k
  <2>2. /\ u \in Seq(Execs) /\ Len(u) = Len(active) - 1
        /\ \A j \in 1 .. k - 1 : u[j] = active[j]
        /\ \A j \in k .. Len(active) - 1 : u[j] = active[j + 1]
    BY <2>1, RemoveAtFacts
  <2>3. Unregistered(e) = u
    BY <1>1 DEF Unregistered, k
  <2> HIDE DEF u
  <2> DEFINE p(j) == IF j < k THEN j ELSE j + 1
  <2>4. ASSUME NEW j \in DOMAIN u
        PROVE  p(j) \in DOMAIN active /\ p(j) # k /\ u[j] = active[p(j)]
    BY <2>1, <2>2
  <2>5. Injective(u)
    <3> SUFFICES ASSUME NEW j \in DOMAIN u, NEW l \in DOMAIN u, u[j] = u[l]
                 PROVE  j = l
      BY DEF Injective
    <3>1. p(j) = p(l)
      BY <2>4 DEF Injective
    <3>2. j \in Int /\ l \in Int /\ k \in Int
      BY <2>1, <2>2
    <3> QED
      BY <3>1, <3>2
  <2>7. ASSUME NEW j \in DOMAIN u
        PROVE  u[j] \in ToSet(active) \ {e}
    <3>1. active[p(j)] # e
      BY <2>1, <2>4 DEF Injective
    <3> QED
      BY <2>4, <3>1 DEF ToSet
  <2>6. ASSUME NEW j \in DOMAIN active, active[j] # e
        PROVE  active[j] \in ToSet(u)
    <3>1. CASE j < k
      <4>1. j \in DOMAIN u /\ u[j] = active[j]
        BY <2>1, <2>2, <3>1
      <4> QED
        BY <4>1 DEF ToSet
    <3>2. CASE j > k
      <4>1. j - 1 \in DOMAIN u /\ u[j - 1] = active[j]
        BY <2>1, <2>2, <3>2
      <4> QED
        BY <4>1 DEF ToSet
    <3> QED
      BY <2>1, <2>6, <3>1, <3>2
  <2> QED
    BY <2>2, <2>3, <2>5, <2>6, <2>7 DEF ToSet
<1>2. CASE ~\E i \in DOMAIN active : active[i] = e
  BY <1>2 DEF Unregistered, ToSet
<1> QED
  BY <1>1, <1>2

-----------------------------------------------------------------------------
(* The invariant.                                                          *)

LEMMA RegistryForm ==
  ASSUME active \in Seq(Execs)
  PROVE  RegistryLive <=> Injective(active) /\ \A e \in ToSet(active) : Running(e)
  BY DEF RegistryLive, Injective, ToSet

LEMMA RegistryFormNext ==
  ASSUME active' \in Seq(Execs)
  PROVE  RegistryLive' <=> Injective(active') /\ \A e \in ToSet(active') : Running(e)'
  BY DEF RegistryLive, Injective, ToSet

\* One firing moves; the registry keeps its entries, and no execution starts.
LEMMA MoveKeeps ==
  ASSUME IInv, TypeOK', NEW e \in Execs, NEW p \in Stages, Goto(e, p),
         active' = active, cancelled \subseteq cancelled',
         Running(e) <=> p \in {"running", "closing"},
         p \in {"verify", "cancel", "await"} =>
           victim'[e] \in Execs /\ (p = "await" => victim'[e] \in cancelled'),
         \A f \in Execs \ {e} : victim'[f] = victim[f]
  PROVE  IInv'
<1>1. /\ pc'[e] = p /\ \A f \in Execs \ {e} : pc'[f] = pc[f]
      /\ \A f \in Execs : Running(f)' <=> Running(f)
  BY DEF IInv, TypeOK, Goto, Running
<1>2. RegistryLive'
  BY <1>1, RegistryForm, RegistryFormNext DEF IInv, TypeOK, ToSet
<1>3. HiddenWasCancelled'
  BY <1>1 DEF IInv, HiddenWasCancelled, ToSet
<1>4. AwaitedIsCancelled'
  BY <1>1 DEF IInv, AwaitedIsCancelled
<1> QED
  BY <1>2, <1>3, <1>4 DEF IInv

\* One firing leaves the registry, or is removed by a killer.
LEMMA RemovalKeeps ==
  ASSUME IInv, NEW e \in Execs, NEW v \in Execs, NEW p \in {"register", "done"}, Goto(e, p),
         active' = Unregistered(v), v = e \/ v \in cancelled, p = "done" => v = e,
         p = "register" => ~Running(e),
         UNCHANGED <<strategy, victim, cancelled, finished, overlapped>>
  PROVE  IInv'
<1>1. active \in Seq(Execs) /\ Injective(active)
  BY RegistryForm DEF IInv, TypeOK
<1>2. active' \in Seq(Execs) /\ Injective(active') /\ ToSet(active') = ToSet(active) \ {v}
  BY <1>1, UnregisteredFacts
<1>3. pc'[e] = p /\ \A f \in Execs \ {e} : pc'[f] = pc[f]
  BY DEF IInv, TypeOK, Goto
<1>4. TypeOK'
  BY <1>2 DEF IInv, TypeOK, Goto, Stages, Deciding
<1>5. \A f \in ToSet(active) : Running(f) /\ f \in Execs
  BY <1>1, RegistryForm DEF IInv, ToSet
<1>6. RegistryLive'
  BY <1>2, <1>3, <1>5, RegistryFormNext DEF Running
<1>7. HiddenWasCancelled'
  BY <1>2, <1>3 DEF IInv, HiddenWasCancelled, Running
<1>8. AwaitedIsCancelled'
  BY <1>3 DEF IInv, AwaitedIsCancelled
<1> QED
  BY <1>4, <1>6, <1>7, <1>8 DEF IInv

LEMMA RegisterKeeps ==
  ASSUME IInv, NEW e \in Execs, Register(e)
  PROVE  IInv'
<1>1. active \in Seq(Execs) /\ Injective(active) /\ \A f \in ToSet(active) : Running(f)
  BY RegistryForm DEF IInv, TypeOK
<1>2. active' = Append(active, e) /\ e \notin ToSet(active)
  BY <1>1 DEF Register, Running
<1>3. active' \in Seq(Execs) /\ ToSet(active') = ToSet(active) \cup {e}
  BY <1>1, <1>2 DEF ToSet
<1>4. Injective(active')
  BY <1>1, <1>2 DEF Injective, ToSet
<1>5. pc'[e] = "running" /\ \A f \in Execs \ {e} : pc'[f] = pc[f]
  BY DEF IInv, TypeOK, Register, Goto
<1>6. TypeOK'
  BY <1>3 DEF IInv, TypeOK, Register, Goto, Stages, PassesCleanup
<1>7. RegistryLive'
  <2>1. \A f \in ToSet(active) : f \in Execs
    BY <1>1 DEF ToSet
  <2> QED
    BY <1>1, <1>3, <1>4, <1>5, <2>1, RegistryFormNext DEF Running
<1>8. HiddenWasCancelled'
  BY <1>3, <1>5 DEF IInv, HiddenWasCancelled, Running, Register
<1>9. AwaitedIsCancelled'
  BY <1>5 DEF IInv, AwaitedIsCancelled, Register
<1> QED
  BY <1>6, <1>7, <1>8, <1>9 DEF IInv

LEMMA FiresKeeps ==
  ASSUME IInv, NEW e \in Execs, Fires(e)
  PROVE  IInv'
<1>1. PICK s \in Strategies : CronFires(e, s) \/ FireManually(e, s)
  BY DEF Fires
<1>2. pc[e] = "idle" /\ s \in {"parallel", "skip", "kill"}
  BY <1>1, ConstantsAssumption DEF CronFires, FireManually
<1>3. PICK p \in {"check", "skipped"} : Goto(e, p)
  BY <1>1 DEF CronFires, FireManually
<1>4. UNCHANGED <<active, victim, cancelled, finished>>
  BY <1>1 DEF CronFires, FireManually
<1>5. p \in Stages /\ ~Running(e)
  BY <1>2 DEF Stages, Deciding, Running
<1>6. TypeOK'
  BY <1>1, <1>2, <1>3, <1>4, <1>5 DEF IInv, TypeOK, CronFires, FireManually, Goto,
         ArrivesDuringDecision
<1> QED
  BY <1>3, <1>4, <1>5, <1>6, MoveKeeps

LEMMA ShouldExecuteKeeps ==
  ASSUME IInv, NEW e \in Execs, ShouldExecute(e)
  PROVE  IInv'
<1>1. ~Running(e) /\ {"skipped", "verify", "register"} \subseteq Stages
  BY DEF ShouldExecute, Running, Stages, Deciding
<1>2. CASE Goto(e, "skipped") /\ UNCHANGED victim
  <2>1. TypeOK'
    BY <1>1, <1>2 DEF IInv, TypeOK, ShouldExecute, Goto, PassesCleanup
  <2> QED
    BY <1>1, <1>2, <2>1, MoveKeeps DEF ShouldExecute
<1>3. CASE Goto(e, "register") /\ UNCHANGED victim
  <2>1. TypeOK'
    BY <1>1, <1>3 DEF IInv, TypeOK, ShouldExecute, Goto, PassesCleanup
  <2> QED
    BY <1>1, <1>3, <2>1, MoveKeeps DEF ShouldExecute
<1>4. CASE /\ KillsOldest(strategy[e])
           /\ victim' = [victim EXCEPT ![e] = Oldest]
           /\ Goto(e, "verify")
  <2>1. Oldest \in Execs
    BY <1>4 DEF KillsOldest, Oldest, IInv, TypeOK
  <2>2. TypeOK'
    BY <1>1, <1>4, <2>1 DEF IInv, TypeOK, ShouldExecute, Goto, PassesCleanup
  <2>3. victim'[e] \in Execs /\ \A f \in Execs \ {e} : victim'[f] = victim[f]
    BY <1>4, <2>1 DEF IInv, TypeOK
  <2> QED
    BY <1>1, <1>4, <2>2, <2>3, MoveKeeps DEF ShouldExecute
<1> QED
  BY <1>2, <1>3, <1>4 DEF ShouldExecute

LEMMA WrapperKeeps ==
  ASSUME IInv, NEW e \in Execs, Wrapper(e)
  PROVE  IInv'
<1>1. CASE VerifyVictim(e)
  <2>1. PICK p \in {"cancel", "register"} : Goto(e, p)
    BY <1>1 DEF VerifyVictim
  <2>2. ~Running(e) /\ p \in Stages /\ victim[e] \in Execs
    BY <1>1 DEF VerifyVictim, Running, Stages, Deciding, IInv, AwaitedIsCancelled
  <2>3. TypeOK'
    BY <1>1, <2>1, <2>2 DEF IInv, TypeOK, VerifyVictim, Goto
  <2> QED
    BY <1>1, <2>1, <2>2, <2>3, MoveKeeps DEF VerifyVictim
<1>2. CASE Cancel(e)
  <2>1. ~Running(e) /\ "await" \in Stages /\ victim[e] \in Execs
    BY <1>2 DEF Cancel, Running, Stages, Deciding, IInv, AwaitedIsCancelled
  <2>2. TypeOK'
    BY <1>2, <2>1 DEF IInv, TypeOK, Cancel, Goto
  <2> QED
    BY <1>2, <2>1, <2>2, MoveKeeps DEF Cancel
<1>3. CASE VictimDone(e)
  <2>1. ~Running(e) /\ "register" \in Stages
    BY <1>3 DEF VictimDone, Running, Stages, Deciding
  <2>2. TypeOK'
    BY <1>3, <2>1 DEF IInv, TypeOK, VictimDone, Goto
  <2> QED
    BY <1>3, <2>1, <2>2, MoveKeeps DEF VictimDone
<1>4. CASE KillTimeout(e)
  <2>1. ~Running(e) /\ victim[e] \in Execs /\ victim[e] \in cancelled
    BY <1>4 DEF KillTimeout, Running, IInv, AwaitedIsCancelled
  <2> QED
    BY <1>4, <2>1, RemovalKeeps DEF KillTimeout
<1>5. CASE Unregister(e)
  BY <1>5, RemovalKeeps DEF Unregister
<1> QED
  BY <1>1, <1>2, <1>3, <1>4, <1>5, ShouldExecuteKeeps, RegisterKeeps DEF Wrapper

LEMMA HandlerReturnsKeeps ==
  ASSUME IInv, NEW e \in Execs, HandlerReturns(e)
  PROVE  IInv'
<1>1. Running(e) /\ "closing" \in Stages
  BY DEF HandlerReturns, Running, Stages
<1>2. TypeOK'
  BY <1>1 DEF IInv, TypeOK, HandlerReturns, Goto
<1> QED
  BY <1>1, <1>2, MoveKeeps DEF HandlerReturns

LEMMA InitIInv ==
  ASSUME Init
  PROVE  IInv
<1>1. TypeOK
  <2>1. overlapped \in BOOLEAN
    BY Zenon DEF Init
  <2> QED
    BY <2>1 DEF Init, TypeOK, Stages
<1>2. RegistryLive /\ HiddenWasCancelled /\ AwaitedIsCancelled
  BY DEF Init, RegistryLive, HiddenWasCancelled, AwaitedIsCancelled, Running
<1> QED
  BY <1>1, <1>2 DEF IInv

LEMMA NextIInv ==
  ASSUME IInv, [Next]_vars
  PROVE  IInv'
<1>1. CASE AllDone \/ UNCHANGED vars
  BY <1>1 DEF AllDone, vars, IInv, TypeOK, RegistryLive, HiddenWasCancelled,
              AwaitedIsCancelled, Running, ToSet
<1> QED
  BY <1>1, FiresKeeps, WrapperKeeps, HandlerReturnsKeeps DEF Next

LEMMA SpecIInv == Spec => []IInv
  BY InitIInv, NextIInv, PTL DEF Spec

\* The registry, the stages and the victims keep their types.
THEOREM TypeCorrect == Spec => []TypeOK
<1>1. IInv => TypeOK
  BY DEF IInv
<1> QED
  BY <1>1, SpecIInv, PTL

\* activeExecutions holds each running execution at most once and nothing
\* that has ended, though two goroutines may remove the same entry.
THEOREM RegistryIsLive == Spec => []RegistryLive
<1>1. IInv => RegistryLive
  BY DEF IInv
<1> QED
  BY <1>1, SpecIInv, PTL

\* An execution that runs without being registered was told to stop, whatever
\* the kill timeouts and however handlers ignore them.
THEOREM HiddenIsCancelled == Spec => []HiddenWasCancelled
<1>1. IInv => HiddenWasCancelled
  BY DEF IInv
<1> QED
  BY <1>1, SpecIInv, PTL

-----------------------------------------------------------------------------
(* Firings that decide one after the other.                               *)

\* Taking an execution out of the registry: how many are left, and who is first.
LEMMA UnregisteredLength ==
  ASSUME active \in Seq(Execs), NEW e
  PROVE  /\ Len(Unregistered(e)) <= Len(active)
         /\ e \in ToSet(active) => Len(Unregistered(e)) = Len(active) - 1
         /\ active # <<>> /\ active[1] # e => Unregistered(e)[1] = active[1]
<1>1. CASE \E i \in DOMAIN active : active[i] = e
  <2> DEFINE k == CHOOSE i \in DOMAIN active : active[i] = e
             u == RemoveAt(active, k)
  <2>1. k \in DOMAIN active /\ active[k] = e
    BY <1>1
  <2> HIDE DEF k
  <2>2. /\ u \in Seq(Execs) /\ Len(u) = Len(active) - 1
        /\ \A j \in 1 .. k - 1 : u[j] = active[j]
    BY <2>1, RemoveAtFacts
  <2>3. Unregistered(e) = u
    BY <1>1 DEF Unregistered, k
  <2> HIDE DEF u
  <2>4. active[1] # e => 1 \in 1 .. k - 1
    BY <2>1
  <2> QED
    BY <2>2, <2>3, <2>4
<1>2. CASE ~\E i \in DOMAIN active : active[i] = e
  <2>1. Unregistered(e) = active /\ e \notin ToSet(active)
    BY <1>2 DEF Unregistered, ToSet
  <2> QED
    BY <2>1
<1> QED
  BY <1>1, <1>2

-----------------------------------------------------------------------------
(* The victim stays the oldest.                                            *)

VictimIsOldest ==
  \A e \in Execs :
    pc[e] \in {"verify", "cancel"} =>
      /\ pc[victim[e]] \in {"running", "closing", "done"}
      /\ victim[e] \in ToSet(active) => victim[e] = active[1]

LEMMA RegistryTyped ==
  ASSUME IInv
  PROVE  active \in Seq(Execs) /\ Injective(active) /\ (\A e \in ToSet(active) : Running(e) /\ e \in Execs)
  BY RegistryForm DEF IInv, TypeOK, ToSet

LEMMA NextVictimIsOldest ==
  ASSUME IInv, VictimIsOldest, [Next]_vars
  PROVE  VictimIsOldest'
<1>1. CASE AllDone \/ UNCHANGED vars
  BY <1>1 DEF AllDone, vars, VictimIsOldest
<1> SUFFICES ASSUME NEW e \in Execs, Fires(e) \/ Wrapper(e) \/ HandlerReturns(e)
             PROVE  VictimIsOldest'
  BY <1>1 DEF Next
<1>2. active \in Seq(Execs) /\ Injective(active) /\ \A f \in ToSet(active) : Running(f) /\ f \in Execs
  BY RegistryTyped
<1>3. ASSUME NEW p, Goto(e, p), active' = active, victim' = victim,
             p \in {"verify", "cancel"} => pc[e] \in {"verify", "cancel"},
             pc[e] \in {"running", "closing", "done"} => p \in {"running", "closing", "done"}
      PROVE  VictimIsOldest'
  <2>1. pc'[e] = p /\ \A f \in Execs \ {e} : pc'[f] = pc[f]
    BY <1>3 DEF Goto, IInv, TypeOK
  <2>2. \A f \in Execs : pc[f] \in {"verify", "cancel"} => victim[f] \in Execs
    BY DEF IInv, AwaitedIsCancelled
  <2> QED
    BY <1>3, <2>1, <2>2 DEF VictimIsOldest
<1>4. CASE Fires(e) \/ HandlerReturns(e) \/ VerifyVictim(e) \/ Cancel(e) \/ VictimDone(e)
  BY <1>3, <1>4 DEF Fires, CronFires, FireManually, HandlerReturns, VerifyVictim, Cancel, VictimDone
<1>5. CASE ShouldExecute(e)
  <2>1. CASE victim' = victim /\ (Goto(e, "skipped") \/ Goto(e, "register"))
    BY <1>3, <1>5, <2>1 DEF ShouldExecute
  <2>2. CASE KillsOldest(strategy[e]) /\ victim' = [victim EXCEPT ![e] = Oldest] /\ Goto(e, "verify")
    <3>1. /\ active' = active /\ victim'[e] = active[1] /\ active[1] \in ToSet(active) /\ pc[e] = "check"
          /\ pc'[e] = "verify" /\ \A f \in Execs \ {e} : victim'[f] = victim[f] /\ pc'[f] = pc[f]
      BY <1>2, <1>5, <2>2 DEF ShouldExecute, Goto, Oldest, KillsOldest, ToSet, IInv, TypeOK
    <3>2. pc'[victim'[e]] \in {"running", "closing"}
      BY <1>2, <3>1 DEF Running
    <3>3. \A f \in Execs : pc[f] \in {"verify", "cancel"} => victim[f] \in Execs
      BY DEF IInv, AwaitedIsCancelled
    <3> QED
      BY <3>1, <3>2, <3>3 DEF VictimIsOldest
  <2> QED
    BY <1>5, <2>1, <2>2 DEF ShouldExecute
<1>6. CASE Register(e)
  <2>1. /\ active' = Append(active, e) /\ victim' = victim /\ pc'[e] = "running"
        /\ \A f \in Execs \ {e} : pc'[f] = pc[f]
    BY <1>6 DEF Register, Goto, IInv, TypeOK
  <2>2. ToSet(active') = ToSet(active) \cup {e}
    BY <1>2, <2>1 DEF ToSet
  <2>3. active # <<>> => active'[1] = active[1]
    BY <1>2, <2>1
  <2>4. active = <<>> => active'[1] = e /\ ToSet(active) = {}
    BY <1>2, <2>1 DEF ToSet
  <2>5. ASSUME NEW f \in Execs, pc'[f] \in {"verify", "cancel"}
        PROVE  /\ pc'[victim'[f]] \in {"running", "closing", "done"}
               /\ victim'[f] \in ToSet(active') => victim'[f] = active'[1]
    <3>1. /\ pc[f] = pc'[f] /\ victim[f] = victim'[f] /\ victim[f] \in Execs
          /\ pc[victim[f]] \in {"running", "closing", "done"}
      BY <2>1, <2>5 DEF VictimIsOldest, IInv, AwaitedIsCancelled
    <3>2. victim[f] # e
      BY <1>6, <3>1 DEF Register
    <3> QED
      BY <2>1, <2>2, <2>3, <2>4, <2>5, <3>1, <3>2 DEF VictimIsOldest
  <2> QED
    BY <2>5 DEF VictimIsOldest
<1>7. CASE KillTimeout(e) \/ Unregister(e)
  <2>1. PICK v \in {e, victim[e]} : active' = Unregistered(v)
    BY <1>7 DEF KillTimeout, Unregister
  <2>2. /\ victim' = victim /\ pc'[e] \in {"register", "done"}
        /\ \A f \in Execs \ {e} : pc'[f] = pc[f]
    BY <1>7 DEF KillTimeout, Unregister, Goto, IInv, TypeOK
  <2>3. ToSet(active') = ToSet(active) \ {v}
    BY <1>2, <2>1, UnregisteredFacts
  <2>4. active # <<>> /\ active[1] # v => active'[1] = active[1]
    BY <1>2, <2>1, UnregisteredLength
  <2>5. ToSet(active) # {} => active # <<>>
    BY DEF ToSet
  <2>6. \A f \in Execs : pc[f] \in {"verify", "cancel"} => victim[f] \in Execs
    BY DEF IInv, AwaitedIsCancelled
  <2>7. pc[e] \in {"await", "closing"} /\ (pc[e] = "closing" => pc'[e] = "done")
    BY <1>7 DEF KillTimeout, Unregister, Goto, IInv, TypeOK
  <2> QED
    BY <2>2, <2>3, <2>4, <2>5, <2>6, <2>7 DEF VictimIsOldest
<1> QED
  BY <1>4, <1>5, <1>6, <1>7 DEF Wrapper

-----------------------------------------------------------------------------
(* One decision at a time.                                                 *)

Room == Len(active) < MaxParallel

OneDecides == \A e, f \in Execs : pc[e] \in Deciding /\ pc[f] \in Deciding => e = f

\* What a decision has established and nobody disturbs: a victim whose place
\* becomes free, room for one more, or, for skip, nothing at all running.
Decided(e) ==
  /\ pc[e] \in {"verify", "cancel", "await"} => victim[e] \in ToSet(active) \/ Room
  /\ pc[e] = "register" => Room \/ \E f \in ToSet(active) : pc[f] = "closing"
  /\ strategy[e] = "skip" /\ pc[e] \in Deciding \ {"check"} => active = <<>>

SInv ==
  /\ \A e \in finished : pc[e] \in {"closing", "done"}
  /\ ~overlapped =>
       /\ OneDecides
       /\ Len(active) <= MaxParallel
       /\ \A e \in Execs : Decided(e)

\* One firing moves and the registry stays as it is.
LEMMA MoveSerial ==
  ASSUME IInv, SInv, NEW e \in Execs, NEW p, Goto(e, p), active' = active,
         \A f \in Execs \ {e} : victim'[f] = victim[f] /\ strategy'[f] = strategy[f],
         \A f \in finished' : pc'[f] \in {"closing", "done"},
         overlapped => overlapped',
         ~overlapped' => /\ p \in Deciding => \A f \in Execs \ {e} : pc[f] \notin Deciding
                         /\ Decided(e)',
         pc[e] = "closing" => p = "closing"
  PROVE  SInv'
<1>1. pc'[e] = p /\ \A f \in Execs \ {e} : pc'[f] = pc[f]
  BY DEF Goto, IInv, TypeOK
<1>2. ASSUME ~overlapped'
      PROVE  OneDecides' /\ Len(active') <= MaxParallel /\ \A f \in Execs : Decided(f)'
  <2>1. OneDecides /\ Len(active) <= MaxParallel /\ \A f \in Execs : Decided(f)
    BY <1>2 DEF SInv
  <2>2. OneDecides'
    BY <1>1, <1>2, <2>1 DEF OneDecides
  <2>3. ASSUME NEW f \in Execs \ {e} PROVE Decided(f)'
    <3>1. Decided(f) /\ pc'[f] = pc[f] /\ victim'[f] = victim[f] /\ strategy'[f] = strategy[f]
      BY <1>1, <2>1
    <3>2. \A x \in ToSet(active) : x \in Execs /\ (pc[x] = "closing" => pc'[x] = "closing")
      BY <1>1, RegistryTyped
    <3> QED
      BY <3>1, <3>2 DEF Decided, Room
  <2> QED
    BY <1>2, <2>1, <2>2, <2>3
<1> QED
  BY <1>2 DEF SInv

\* A registered execution leaves, at its end or by a killer.
LEMMA RemovalSerial ==
  ASSUME IInv, SInv, NEW e \in Execs, NEW v \in Execs, active' = Unregistered(v),
         \/ pc[e] = "await" /\ Goto(e, "register") /\ v = victim[e]
         \/ pc[e] = "closing" /\ Goto(e, "done") /\ v = e,
         UNCHANGED <<strategy, victim, finished, overlapped>>
  PROVE  SInv'
<1>1. active \in Seq(Execs) /\ Injective(active) /\ \A f \in ToSet(active) : Running(f) /\ f \in Execs
  BY RegistryTyped
<1>2. /\ ToSet(active') = ToSet(active) \ {v} /\ Len(active') <= Len(active)
      /\ v \in ToSet(active) => Len(active') = Len(active) - 1
      /\ active' \in Seq(Execs)
  BY <1>1, UnregisteredFacts, UnregisteredLength
<1>3. /\ pc'[e] = IF pc[e] = "await" THEN "register" ELSE "done"
      /\ \A f \in Execs \ {e} : pc'[f] = pc[f]
  BY DEF Goto, IInv, TypeOK
<1>4. MaxParallel \in Nat /\ Len(active) \in Nat /\ Len(active') \in Nat
  BY <1>1, <1>2, ConstantsAssumption
<1>5. \A f \in finished' : pc'[f] \in {"closing", "done"}
  <2>1. \A f \in finished : f \in Execs /\ pc[f] \in {"closing", "done"}
    BY DEF SInv, IInv, TypeOK
  <2> QED
    BY <1>3, <2>1
<1>6. ASSUME ~overlapped'
      PROVE  OneDecides' /\ Len(active') <= MaxParallel /\ \A f \in Execs : Decided(f)'
  <2>1. OneDecides /\ Len(active) <= MaxParallel /\ \A f \in Execs : Decided(f)
    BY <1>6 DEF SInv
  <2>2. OneDecides'
    BY <1>3, <2>1 DEF OneDecides, Deciding
  <2>3. Len(active') <= MaxParallel /\ (v \in ToSet(active) => Room') /\ (Room => Room')
    BY <1>2, <1>4, <2>1 DEF Room
  <2>4. active = <<>> => active' = <<>>
    BY <1>2
  <2>5. ASSUME NEW f \in Execs PROVE Decided(f)'
    <3>1. CASE f = e
      BY <1>3, <2>1, <2>3, <2>4, <3>1 DEF Decided, Deciding
    <3>2. CASE f # e
      <4>1. \A x \in ToSet(active) : pc[x] = "closing" => x = v \/ (x \in ToSet(active') /\ pc'[x] = "closing")
        BY <1>1, <1>2, <1>3
      <4> QED
        BY <1>2, <1>3, <2>1, <2>3, <2>4, <3>2, <4>1 DEF Decided
    <3> QED
      BY <3>1, <3>2
  <2> QED
    BY <2>2, <2>3, <2>5
<1> QED
  BY <1>5, <1>6 DEF SInv

LEMMA FiresSerial ==
  ASSUME IInv, SInv, NEW e \in Execs, Fires(e)
  PROVE  SInv'
<1>1. PICK s \in Strategies : CronFires(e, s) \/ FireManually(e, s)
  BY DEF Fires
<1>2. PICK p \in {"check", "skipped"} : Goto(e, p)
  BY <1>1 DEF CronFires, FireManually
<1>3. /\ pc[e] = "idle" /\ ArrivesDuringDecision
      /\ UNCHANGED <<active, victim, cancelled, finished>>
      /\ \A f \in Execs \ {e} : strategy'[f] = strategy[f]
  BY <1>1 DEF CronFires, FireManually, IInv, TypeOK
<1>4. pc'[e] = p /\ \A f \in Execs \ {e} : pc'[f] = pc[f]
  BY <1>2 DEF Goto, IInv, TypeOK
<1>5. \A f \in finished' : pc'[f] \in {"closing", "done"}
  <2>1. \A f \in finished : f \in Execs /\ f # e /\ pc[f] \in {"closing", "done"}
    BY <1>3 DEF SInv, IInv, TypeOK
  <2> QED
    BY <1>3, <1>4, <2>1
<1>6. ~overlapped' => ~overlapped /\ \A f \in Execs : pc[f] \notin Deciding
  BY <1>3 DEF ArrivesDuringDecision
<1>7. Decided(e)'
  BY <1>4 DEF Decided, Deciding
<1> QED
  BY <1>2, <1>3, <1>5, <1>6, <1>7, MoveSerial

\* shouldExecute, when no execution stands between the steps of its cleanup.
LEMMA ShouldExecuteSerial ==
  ASSUME IInv, SInv, NEW e \in Execs, ShouldExecute(e)
  PROVE  SInv'
<1>1. PICK p \in {"skipped", "verify", "register"} : Goto(e, p)
  BY DEF ShouldExecute
<1>2. pc'[e] = p /\ \A f \in Execs \ {e} : pc'[f] = pc[f]
  BY <1>1 DEF Goto, IInv, TypeOK
<1>3. /\ pc[e] = "check" /\ PassesCleanup
      /\ UNCHANGED <<active, strategy, cancelled, finished>>
      /\ \A f \in Execs \ {e} : victim'[f] = victim[f]
  BY DEF ShouldExecute, IInv, TypeOK
<1>4. \A f \in finished' : pc'[f] \in {"closing", "done"}
  <2>1. \A f \in finished : f \in Execs /\ f # e /\ pc[f] \in {"closing", "done"}
    BY <1>3 DEF SInv, IInv, TypeOK
  <2> QED
    BY <1>2, <1>3, <2>1
<1>5. overlapped => overlapped'
  BY <1>3 DEF PassesCleanup
<1>6. ASSUME ~overlapped' PROVE \A f \in Execs \ {e} : pc[f] \notin Deciding
  BY <1>3, <1>5, <1>6 DEF SInv, OneDecides, Deciding
<1>7. active \in Seq(Execs) /\ MaxParallel \in Nat \ {0} /\ strategy[e] \in {"parallel", "skip", "kill"}
  BY ConstantsAssumption DEF IInv, TypeOK
<1>8. Decided(e)'
  <2>1. CASE p = "skipped"
    BY <1>2, <2>1 DEF Decided, Deciding
  <2>2. CASE p = "verify"
    <3>1. KillsOldest(strategy[e]) /\ victim' = [victim EXCEPT ![e] = Oldest]
      BY <1>2, <2>2 DEF ShouldExecute, Goto, IInv, TypeOK
    <3>2. active # <<>> /\ strategy[e] # "skip" /\ victim'[e] = active[1]
      BY <3>1 DEF KillsOldest, Oldest, IInv, TypeOK
    <3>3. victim'[e] \in ToSet(active')
      BY <1>3, <1>7, <3>2 DEF ToSet
    <3> QED
      BY <1>2, <1>3, <2>2, <3>2, <3>3 DEF Decided, Deciding
  <2>3. CASE p = "register"
    <3>1. ~Refuses(strategy[e]) /\ ~KillsOldest(strategy[e])
      BY <1>2, <2>3 DEF ShouldExecute, Goto, IInv, TypeOK
    <3>2. strategy[e] = "skip" => active = <<>>
      BY <3>1 DEF Refuses
    <3>3. active = <<>> \/ Len(active) < MaxParallel
      BY <1>7, <3>1 DEF Refuses, KillsOldest
    <3>4. Room'
      BY <1>3, <1>7, <3>3 DEF Room
    <3> QED
      BY <1>2, <1>3, <2>3, <3>2, <3>4 DEF Decided
  <2> QED
    BY <2>1, <2>2, <2>3
<1> QED
  BY <1>1, <1>3, <1>4, <1>5, <1>6, <1>8, MoveSerial

\* The steps from the choice of a victim to the end of the wait.
LEMMA KillerSerial ==
  ASSUME IInv, SInv, NEW e \in Execs, VerifyVictim(e) \/ Cancel(e) \/ VictimDone(e)
  PROVE  SInv'
<1>1. PICK p \in {"cancel", "await", "register"} : Goto(e, p)
  BY DEF VerifyVictim, Cancel, VictimDone
<1>2. pc'[e] = p /\ \A f \in Execs \ {e} : pc'[f] = pc[f]
  BY <1>1 DEF Goto, IInv, TypeOK
<1>3. /\ pc[e] \in {"verify", "cancel", "await"}
      /\ UNCHANGED <<active, strategy, victim, finished, overlapped>>
  BY DEF VerifyVictim, Cancel, VictimDone
<1>4. \A f \in finished : f \in Execs /\ f # e /\ pc[f] \in {"closing", "done"}
  BY <1>3 DEF SInv, IInv, TypeOK
<1>5. \A f \in finished' : pc'[f] \in {"closing", "done"}
  BY <1>2, <1>3, <1>4
<1>6. ASSUME ~overlapped'
      PROVE  Decided(e)' /\ \A f \in Execs \ {e} : pc[f] \notin Deciding
  <2>1. OneDecides /\ Decided(e)
    BY <1>3, <1>6 DEF SInv
  <2>2. \A f \in Execs \ {e} : pc[f] \notin Deciding
    BY <1>3, <2>1 DEF OneDecides, Deciding
  <2>3. victim[e] \in ToSet(active) \/ Room
    BY <1>3, <2>1 DEF Decided
  <2>4. strategy[e] = "skip" => active = <<>>
    BY <1>3, <2>1 DEF Decided, Deciding
  <2>5. p = "register" => Room \/ \E f \in ToSet(active) : pc'[f] = "closing"
    <3>1. CASE VerifyVictim(e)
      <4>1. p = "register" => victim[e] \notin ToSet(active)
        BY <1>2, <3>1 DEF VerifyVictim, Goto, IInv, TypeOK
      <4> QED
        BY <2>3, <4>1
    <3>2. CASE Cancel(e)
      BY <1>2, <3>2 DEF Cancel, Goto, IInv, TypeOK
    <3>3. CASE VictimDone(e)
      <4>1. victim[e] \in finished
        BY <3>3 DEF VictimDone
      <4>2. victim[e] \in ToSet(active) => pc'[victim[e]] = "closing"
        BY <1>2, <1>4, <4>1, RegistryTyped DEF Running
      <4> QED
        BY <2>3, <4>2
    <3> QED
      BY <3>1, <3>2, <3>3
  <2>6. Decided(e)'
    BY <1>2, <1>3, <2>3, <2>4, <2>5 DEF Decided, Room
  <2> QED
    BY <2>2, <2>6
<1> QED
  BY <1>1, <1>3, <1>5, <1>6, MoveSerial

LEMMA RegisterSerial ==
  ASSUME IInv, SInv, NEW e \in Execs, Register(e)
  PROVE  SInv'
<1>1. /\ pc[e] = "register" /\ PassesCleanup /\ active' = Append(active, e)
      /\ UNCHANGED <<strategy, victim, cancelled, finished>>
      /\ pc'[e] = "running" /\ \A f \in Execs \ {e} : pc'[f] = pc[f]
  BY DEF Register, Goto, IInv, TypeOK
<1>2. \A f \in finished' : pc'[f] \in {"closing", "done"}
  <2>1. \A f \in finished : f \in Execs /\ f # e /\ pc[f] \in {"closing", "done"}
    BY <1>1 DEF SInv, IInv, TypeOK
  <2> QED
    BY <1>1, <2>1
<1>3. ASSUME ~overlapped'
      PROVE  OneDecides' /\ Len(active') <= MaxParallel /\ \A f \in Execs : Decided(f)'
  <2>1. ~overlapped /\ \A f \in Execs : pc[f] # "closing"
    BY <1>1, <1>3 DEF PassesCleanup
  <2>2. OneDecides /\ Decided(e)
    BY <2>1 DEF SInv
  <2>3. Room
    BY <1>1, <2>1, <2>2, RegistryTyped DEF Decided
  <2>4. Len(active') <= MaxParallel
    <3>1. active \in Seq(Execs) /\ MaxParallel \in Nat
      BY RegistryTyped, ConstantsAssumption
    <3> QED
      BY <1>1, <2>3, <3>1 DEF Room
  <2>5. \A f \in Execs : pc'[f] \notin Deciding
    BY <1>1, <2>2 DEF OneDecides, Deciding
  <2> QED
    BY <2>4, <2>5 DEF OneDecides, Decided, Deciding
<1> QED
  BY <1>2, <1>3 DEF SInv

LEMMA HandlerReturnsSerial ==
  ASSUME IInv, SInv, NEW e \in Execs, HandlerReturns(e)
  PROVE  SInv'
<1>1. /\ pc[e] = "running" /\ finished' = finished \cup {e} /\ Goto(e, "closing")
      /\ UNCHANGED <<active, strategy, victim, cancelled, overlapped>>
      /\ pc'[e] = "closing" /\ \A f \in Execs \ {e} : pc'[f] = pc[f]
  BY DEF HandlerReturns, Goto, IInv, TypeOK
<1>2. \A f \in finished' : pc'[f] \in {"closing", "done"}
  <2>1. \A f \in finished : f \in Execs /\ pc[f] \in {"closing", "done"}
    BY DEF SInv, IInv, TypeOK
  <2> QED
    BY <1>1, <2>1
<1>3. Decided(e)' /\ "closing" \notin Deciding
  BY <1>1 DEF Decided, Deciding
<1> QED
  BY <1>1, <1>2, <1>3, MoveSerial

LEMMA InitSInv ==
  ASSUME Init
  PROVE  SInv /\ VictimIsOldest
<1>1. active = <<>> /\ finished = {} /\ (\A e \in Execs : pc[e] = "idle") /\ MaxParallel \in Nat
  BY ConstantsAssumption DEF Init
<1> QED
  BY <1>1 DEF SInv, OneDecides, Decided, Deciding, VictimIsOldest

LEMMA NextSInv ==
  ASSUME IInv, SInv, [Next]_vars
  PROVE  SInv'
<1>1. CASE AllDone \/ UNCHANGED vars
  BY <1>1 DEF AllDone, vars, SInv, OneDecides, Decided, Room
<1>2. ASSUME NEW e \in Execs, KillTimeout(e) PROVE SInv'
  <2>1. victim[e] \in Execs
    BY <1>2 DEF KillTimeout, IInv, AwaitedIsCancelled
  <2> QED
    BY <1>2, <2>1, RemovalSerial DEF KillTimeout
<1>3. ASSUME NEW e \in Execs, Unregister(e) PROVE SInv'
  BY <1>3, RemovalSerial DEF Unregister
<1> QED
  BY <1>1, <1>2, <1>3, FiresSerial, ShouldExecuteSerial, KillerSerial, RegisterSerial,
     HandlerReturnsSerial DEF Next, Wrapper

LEMMA SpecSInv == Spec => [](IInv /\ SInv /\ VictimIsOldest)
<1>1. Init => IInv /\ SInv /\ VictimIsOldest
  BY InitIInv, InitSInv
<1>2. IInv /\ SInv /\ VictimIsOldest /\ [Next]_vars => (IInv /\ SInv /\ VictimIsOldest)'
  BY NextIInv, NextSInv, NextVictimIsOldest
<1> QED
  BY <1>1, <1>2, PTL DEF Spec

\* Decided one after the other, firings never hold more than maxParallel
\* places of activeExecutions, whatever strategies their triggers mix.
THEOREM SerialIsBounded == Spec => []SerialBound
<1>1. SInv => SerialBound
  BY DEF SInv, SerialBound
<1> QED
  BY <1>1, SpecSInv, PTL

LEMMA OverlapStays ==
  ASSUME [Next]_vars, overlapped
  PROVE  overlapped'
  BY DEF Next, vars, AllDone, Fires, CronFires, FireManually, Wrapper, ShouldExecute, VerifyVictim,
         Cancel, VictimDone, KillTimeout, Register, Unregister, HandlerReturns,
         ArrivesDuringDecision, PassesCleanup

\* A firing under skip that decided alone starts only when whatever still
\* runs, registered or not, was told to stop.
THEOREM SkipStartsAlone == Spec => SerialSkip
<1>1. ASSUME IInv, SInv, [Next]_vars, ~overlapped', NEW e \in Execs, NEW f \in Execs,
             pc[e] = "register", strategy[e] = "skip", Running(f)
      PROVE  f \in cancelled
  <2>1. ~overlapped
    BY <1>1, OverlapStays
  <2>2. active = <<>>
    BY <1>1, <2>1 DEF SInv, Decided, Deciding
  <2>3. f \notin ToSet(active)
    BY <2>2 DEF ToSet
  <2> QED
    BY <1>1, <2>3 DEF IInv, HiddenWasCancelled
<1> DEFINE A == ~overlapped' =>
       \A e, f \in Execs :
         /\ pc[e] = "register" /\ pc'[e] = "running" /\ strategy[e] = "skip"
         /\ Running(f)
         => f \in cancelled
<1>2. IInv /\ SInv /\ VictimIsOldest /\ [Next]_vars => [A]_vars
  BY <1>1
<1>3. [][A]_vars => SerialSkip
  BY PTL DEF SerialSkip
<1> QED
  BY <1>2, <1>3, SpecSInv, PTL DEF Spec

\* killExecution cancels the oldest registered execution or one that already
\* left: no registration or removal between the choice and the cancellation
\* puts an older one in front.
THEOREM OldestIsCancelled == Spec => CancelsOldest
<1>1. ASSUME IInv, VictimIsOldest, [Next]_vars, NEW e \in cancelled' \ cancelled,
             e \in ToSet(active)
      PROVE  e = active[1]
  <2>1. PICK k \in Execs : Cancel(k)
    BY <1>1 DEF Next, vars, AllDone, Fires, CronFires, FireManually, Wrapper, ShouldExecute,
           VerifyVictim, VictimDone, KillTimeout, Register, Unregister, HandlerReturns
  <2>2. e = victim[k] /\ pc[k] = "cancel"
    BY <1>1, <2>1 DEF Cancel
  <2> QED
    BY <1>1, <2>2 DEF VictimIsOldest
<1> DEFINE A == \A e \in cancelled' \ cancelled : e \in ToSet(active) => e = active[1]
<1>2. IInv /\ SInv /\ VictimIsOldest /\ [Next]_vars => [A]_vars
  BY <1>1
<1>3. [][A]_vars => CancelsOldest
  BY PTL DEF CancelsOldest
<1> QED
  BY <1>2, <1>3, SpecSInv, PTL DEF Spec

-----------------------------------------------------------------------------
(* The queue holds a message while it is handled.                          *)


Holds ==
  /\ items \in Seq(Messages)
  /\ current \in Messages \cup {NoMessage}
  /\ place = "handle" <=> current # NoMessage

LEMMA InitHolds ==
  ASSUME QueueInit
  PROVE  Holds
  BY DEF QueueInit, Holds

LEMMA NextHolds ==
  ASSUME Holds, [QueueNext]_queueVars
  PROVE  Holds'
<1> USE DEF Holds
<1>1. ASSUME NEW m \in Messages, Add(m)
      PROVE  Holds'
  BY <1>1 DEF Add, reader
<1>2. CASE Notified
  BY <1>2 DEF Notified
<1>3. CASE Timer
  BY <1>3 DEF Timer, queue
<1>4. CASE GetNext
  <2>1. CASE items = <<>>
    BY <1>4, <2>1 DEF GetNext
  <2>2. CASE items # <<>>
    <3>1. Head(items) \in Messages /\ Tail(items) \in Seq(Messages)
      BY <2>2
    <3>2. Head(items) # NoMessage
      BY <3>1, QueueAssumption
    <3> QED
      BY <1>4, <2>2, <3>1, <3>2 DEF GetNext
  <2> QED
    BY <2>1, <2>2
<1>5. CASE HandleTrigger
  BY <1>5 DEF HandleTrigger, queue
<1>6. CASE MessageDone
  BY <1>6 DEF MessageDone, queue
<1>7. CASE Leave
  BY <1>7 DEF Leave, queue
<1>8. ASSUME NEW e \in Meetings, NEW type \in MeetingKinds, Meeting(e, type)
      PROVE  Holds'
  BY <1>8 DEF Meeting, queue, reader
<1>9. CASE EndContext \/ Stop \/ UNCHANGED queueVars
  BY <1>9 DEF EndContext, Stop, queueVars, queue, reader
<1> QED
  BY <1>1, <1>2, <1>3, <1>4, <1>5, <1>6, <1>7, <1>8, <1>9 DEF QueueNext, Reader

LEMMA SpecHolds == QueueSpec => []Holds
  BY InitHolds, NextHolds, PTL DEF QueueSpec

\* Steps that touch neither the queue nor the message being handled.
LEMMA Stutters ==
  ASSUME items' = items, current' = current, handled' = handled,
         (place = "gone")' = (place = "gone")
  PROVE  UNCHANGED Promise!vars
  BY DEF Promise!vars

LEMMA StepRefines ==
  ASSUME Holds, [QueueNext]_queueVars
  PROVE  [Promise!Next]_(Promise!vars)
<1> USE DEF Holds
<1>1. ASSUME NEW m \in Messages, Add(m)
      PROVE  Promise!Put(m)
  BY <1>1 DEF Add, Added, reader, ToSet, Promise!Put, Promise!ToSet
<1>2. CASE Notified
  BY <1>2, Stutters DEF Notified
<1>3. CASE Timer
  BY <1>3, Stutters DEF Timer, queue
<1>4. CASE GetNext
  <2>1. CASE items = <<>>
    BY <1>4, <2>1, Stutters DEF GetNext
  <2>2. CASE items # <<>>
    BY <1>4, <2>2 DEF GetNext, Promise!Take, Promise!Next
  <2> QED
    BY <2>1, <2>2
<1>5. CASE HandleTrigger
  BY <1>5, Stutters DEF HandleTrigger, queue
<1>6. CASE MessageDone
  BY <1>6 DEF MessageDone, queue, Promise!Finish, Promise!Next
<1>7. CASE Leave
  BY <1>7 DEF Leave, queue, Promise!Close, Promise!Next
<1>8. ASSUME NEW e \in Meetings, NEW type \in MeetingKinds, Meeting(e, type)
      PROVE  UNCHANGED Promise!vars
  BY <1>8, Stutters DEF Meeting, queue, reader
<1>9. CASE EndContext \/ Stop \/ UNCHANGED queueVars
  BY <1>9, Stutters DEF EndContext, Stop, queueVars, queue, reader
<1> QED
  BY <1>1, <1>2, <1>3, <1>4, <1>5, <1>6, <1>7, <1>8, <1>9 DEF QueueNext, Reader, Promise!Next

\* The queue, its notifications, its timer and its contexts keep the promise
\* of a mailbox: messages are handled in order, one at a time, each once.
THEOREM QueueImplementsMailbox == QueueSpec => InOrder
<1>1. QueueInit => Promise!Init
  BY DEF QueueInit, Promise!Init
<1>2. Holds /\ [QueueNext]_queueVars => [Promise!Next]_(Promise!vars)
  BY StepRefines
<1> QED
  BY <1>1, <1>2, SpecHolds, PTL DEF QueueSpec, InOrder, Promise!Spec

-----------------------------------------------------------------------------
(* What each message fires.                                                *)

\* Every message is in one place, once.
Distinct ==
  /\ items \in Seq(Messages) /\ handled \in Seq(Messages)
  /\ \A i, j \in DOMAIN items : items[i] = items[j] => i = j
  /\ ToSet(items) \cap ToSet(handled) = {}
  /\ current \notin ToSet(items) \cup ToSet(handled)

\* The triggers that message m fires, among the first n.
FiredBy(m, n) == {j \in 1 .. n : j \in DOMAIN Triggers /\ Selects(m, Triggers[j].type)}

\* Message m has fired what it fires among the first n triggers, in order.
FiredTo(m, n) ==
  /\ ran[m] \in Seq(Nat)
  /\ ToSet(ran[m]) = FiredBy(m, n)
  /\ Increasing(ran[m])

FInv ==
  /\ Holds
  /\ Distinct
  /\ DOMAIN ran = Messages \cup Meetings
  /\ next \in 1 .. Len(Triggers) + 1
  /\ place # "handle" => next = 1
  /\ \A m \in Messages : m # current /\ m \notin ToSet(handled) => ran[m] = <<>>
  /\ current # NoMessage => FiredTo(current, next - 1)
  /\ \A m \in ToSet(handled) : FiredTo(m, Len(Triggers))

LEMMA TriggersTyped == Len(Triggers) \in Nat /\ DOMAIN Triggers = 1 .. Len(Triggers)
  BY QueueAssumption

LEMMA FiredToNothing ==
  ASSUME NEW m, ran[m] = <<>>
  PROVE  FiredTo(m, 0)
  BY DEF FiredTo, FiredBy, Increasing, ToSet

\* A step that leaves what was fired, and the place of every message.
LEMMA SameFirings ==
  ASSUME NEW m, NEW n, FiredTo(m, n), ran'[m] = ran[m], kind' = kind
  PROVE  FiredTo(m, n)'
  BY DEF FiredTo, FiredBy, Selects, IsUser, IsTeam, OfChannel, OfOtherChannel

LEMMA StaysFired ==
  ASSUME FInv, Holds', Distinct', UNCHANGED <<ran, kind, current, handled, next>>,
         place' = "handle" <=> place = "handle"
  PROVE  FInv'
  BY SameFirings DEF FInv

LEMMA AddFires ==
  ASSUME FInv, NEW m \in Messages, Add(m), Holds'
  PROVE  FInv'
<1>1. /\ items' = Append(items, m) /\ m \notin ToSet(items) \cup ToSet(handled) \cup {current}
      /\ UNCHANGED <<ran, kind, current, handled, next, place>>
  BY DEF Add, Added, reader
<1>2. items \in Seq(Messages) /\ items' \in Seq(Messages) /\ ToSet(items') = ToSet(items) \cup {m}
  BY <1>1 DEF FInv, Distinct, ToSet
<1>3. \A i, j \in DOMAIN items' : items'[i] = items'[j] => i = j
  BY <1>1, <1>2 DEF FInv, Distinct, ToSet
<1>4. Distinct'
  BY <1>1, <1>2, <1>3 DEF FInv, Distinct
<1> QED
  BY <1>1, <1>4, StaysFired

LEMMA TakeFires ==
  ASSUME FInv, GetNext, Holds'
  PROVE  FInv'
<1>1. CASE items = <<>>
  <2>1. Distinct'
    BY <1>1 DEF GetNext, FInv, Distinct
  <2> QED
    BY <1>1, <2>1, StaysFired DEF GetNext
<1>2. CASE items # <<>>
  <2>0. PICK m : m = Head(items)
    OBVIOUS
  <2>1. /\ items' = Tail(items) /\ current' = m /\ place = "get" /\ place' = "handle"
        /\ UNCHANGED <<ran, kind, handled, next>>
    BY <1>2, <2>0 DEF GetNext
  <2>2. /\ items \in Seq(Messages) /\ Tail(items) \in Seq(Messages)
        /\ m = items[1] /\ m \in Messages
        /\ Len(Tail(items)) = Len(items) - 1
        /\ \A i \in DOMAIN Tail(items) : i + 1 \in DOMAIN items /\ Tail(items)[i] = items[i + 1]
    BY <1>2, <2>0 DEF FInv, Distinct
  <2>3. ToSet(Tail(items)) = ToSet(items) \ {m} /\ m \in ToSet(items)
    <3>1. \A i \in DOMAIN items : i # 1 => i - 1 \in DOMAIN Tail(items) /\ (i - 1) + 1 = i
      BY <2>2
    <3>2. ASSUME NEW i \in DOMAIN Tail(items) PROVE Tail(items)[i] # m
      <4>1. items[i + 1] # items[1]
        BY <2>2, <1>2 DEF FInv, Distinct
      <4> QED
        BY <2>2, <4>1
    <3>3. 1 \in DOMAIN items
      BY <1>2, <2>2
    <3> QED
      BY <2>2, <3>1, <3>2, <3>3 DEF ToSet
  <2>4. \A i, j \in DOMAIN Tail(items) : Tail(items)[i] = Tail(items)[j] => i = j
    BY <2>2 DEF FInv, Distinct
  <2>5. Distinct'
    BY <2>1, <2>2, <2>3, <2>4 DEF FInv, Distinct
  <2>6. current = NoMessage /\ next = 1 /\ m \notin ToSet(handled) /\ m # NoMessage
    BY <2>1, <2>2, <2>3, QueueAssumption DEF FInv, Holds, Distinct
  <2>7. ran[m] = <<>> /\ FiredTo(m, 0)
    BY <2>2, <2>6, FiredToNothing DEF FInv
  <2>8. FiredTo(m, 0)'
    BY <2>1, <2>7, SameFirings DEF FInv
  <2>9. next' - 1 = 0 /\ Len(Triggers) \in Nat
    BY <2>1, <2>6, TriggersTyped
  <2>10. \A x \in ToSet(handled') : FiredTo(x, Len(Triggers))'
    BY <2>1, SameFirings DEF FInv
  <2>11. FiredTo(current, next - 1)'
    BY <2>1, <2>8, <2>9 DEF FiredTo, FiredBy
  <2>12. \A x \in Messages : x # current' /\ x \notin ToSet(handled') => ran'[x] = <<>>
    BY <2>1, <2>6, QueueAssumption DEF FInv
  <2>13. next' \in 1 .. Len(Triggers) + 1 /\ DOMAIN ran' = Messages \cup Meetings
    BY <2>1 DEF FInv
  <2> QED
    BY <2>1, <2>5, <2>10, <2>11, <2>12, <2>13 DEF FInv
<1> QED
  BY <1>1, <1>2

\* One more trigger of the message being handled.
LEMMA TriggerFires ==
  ASSUME FInv, HandleTrigger, Holds'
  PROVE  FInv'
<1>0. PICK m, n : m = current /\ n = next
  OBVIOUS
<1>1. /\ place = "handle" /\ n \in 1 .. Len(Triggers) /\ next' = n + 1
      /\ UNCHANGED <<items, notified, kind, place, current, handled>>
      /\ m \in Messages /\ m # NoMessage /\ FiredTo(m, n - 1) /\ DOMAIN ran = Messages \cup Meetings
      /\ m \notin ToSet(handled)
  BY <1>0, TriggersTyped DEF HandleTrigger, queue, FInv, Holds, Distinct
<1>2. Distinct'
  BY <1>1 DEF FInv, Distinct
<1>3. /\ ran'[m] = IF Selects(m, Triggers[n].type) THEN Append(ran[m], n) ELSE ran[m]
      /\ \A x \in Messages \ {m} : ran'[x] = ran[x]
      /\ DOMAIN ran' = DOMAIN ran
  BY <1>0, <1>1 DEF HandleTrigger
<1>4. FiredBy(m, n)' = FiredBy(m, n)
  BY <1>1 DEF FiredBy, Selects, IsUser, IsTeam, OfChannel, OfOtherChannel
<1>5. /\ FiredBy(m, n) = IF Selects(m, Triggers[n].type) THEN FiredBy(m, n - 1) \cup {n}
                         ELSE FiredBy(m, n - 1)
  BY <1>1, TriggersTyped DEF FiredBy
<1>6. ran[m] \in Seq(Nat) /\ ToSet(ran[m]) = FiredBy(m, n - 1) /\ Increasing(ran[m])
  BY <1>1 DEF FiredTo
<1>7. n \in Nat \ {0}
  BY <1>1
<1>8. \A i \in DOMAIN ran[m] : ran[m][i] \in 1 .. n - 1
  BY <1>6 DEF ToSet, FiredBy
<1>9. ASSUME NEW s, s = Append(ran[m], n)
      PROVE  s \in Seq(Nat) /\ ToSet(s) = ToSet(ran[m]) \cup {n} /\ Increasing(s)
  <2>1. s \in Seq(Nat) /\ Len(s) = Len(ran[m]) + 1 /\ s[Len(ran[m]) + 1] = n
        /\ \A i \in DOMAIN ran[m] : s[i] = ran[m][i]
    BY <1>6, <1>7, <1>9
  <2>2. DOMAIN s = DOMAIN ran[m] \cup {Len(ran[m]) + 1} /\ DOMAIN ran[m] = 1 .. Len(ran[m])
    <3>1. Len(ran[m]) \in Nat /\ DOMAIN ran[m] = 1 .. Len(ran[m])
      BY <1>6
    <3>2. DOMAIN s = 1 .. Len(s)
      BY <2>1
    <3>3. 1 .. Len(ran[m]) + 1 = 1 .. Len(ran[m]) \cup {Len(ran[m]) + 1}
      BY <3>1
    <3> QED
      BY <2>1, <3>1, <3>2, <3>3
  <2>3. ToSet(s) = ToSet(ran[m]) \cup {n}
    BY <2>1, <2>2 DEF ToSet
  <2>4. Increasing(s)
    BY <1>6, <1>7, <1>8, <2>1, <2>2 DEF Increasing
  <2> QED
    BY <2>1, <2>3, <2>4
<1>10. /\ ran'[m] \in Seq(Nat) /\ ToSet(ran'[m]) = FiredBy(m, n) /\ Increasing(ran'[m])
  BY <1>3, <1>5, <1>6, <1>8, <1>9
<1>11. next' - 1 = n /\ next' \in 1 .. Len(Triggers) + 1
  BY <1>0, <1>1, TriggersTyped
<1>12. FiredTo(current, next - 1)'
  BY <1>0, <1>1, <1>4, <1>10, <1>11 DEF FiredTo, FiredBy, Increasing
<1>13. \A x \in ToSet(handled') : FiredTo(x, Len(Triggers))'
  <2>1. \A x \in ToSet(handled) : x \in Messages /\ x # m
    BY <1>1 DEF FInv, Distinct, ToSet
  <2> QED
    BY <1>1, <1>3, <2>1, SameFirings DEF FInv
<1> QED
  BY <1>0, <1>1, <1>2, <1>3, <1>11, <1>12, <1>13 DEF FInv

LEMMA DoneFires ==
  ASSUME FInv, MessageDone, Holds'
  PROVE  FInv'
<1> DEFINE m == current
<1>1. /\ place = "handle" /\ next > Len(Triggers) /\ next' = 1 /\ place' = "select"
      /\ handled' = Append(handled, m) /\ current' = NoMessage
      /\ UNCHANGED <<items, kind, ran>>
      /\ m \in Messages /\ m # NoMessage /\ FiredTo(m, next - 1)
  BY DEF MessageDone, queue, FInv, Holds
<1>2. next - 1 = Len(Triggers)
  BY <1>1, TriggersTyped DEF FInv
<1>3. handled' \in Seq(Messages) /\ ToSet(handled') = ToSet(handled) \cup {m}
  BY <1>1, SMTT(30) DEF FInv, Distinct, ToSet
<1>4. NoMessage \notin ToSet(items') \cup ToSet(handled')
  BY <1>1, <1>3, QueueAssumption DEF FInv, Distinct, ToSet
<1>5. Distinct'
  BY <1>1, <1>3, <1>4 DEF FInv, Distinct
<1>6. \A x \in ToSet(handled') : FiredTo(x, Len(Triggers))'
  BY <1>1, <1>2, <1>3, SameFirings DEF FInv
<1>7. \A x \in Messages : x \notin ToSet(handled') => ran'[x] = <<>>
  BY <1>1, <1>3 DEF FInv
<1> QED
  BY <1>1, <1>5, <1>6, <1>7, TriggersTyped DEF FInv

\* A meeting fires its triggers in the goroutine of its caller.
LEMMA MeetingFires ==
  ASSUME FInv, NEW e \in Meetings, NEW type \in MeetingKinds, Meeting(e, type), Holds'
  PROVE  FInv'
<1>1. /\ UNCHANGED <<items, kind, place, current, next, handled>>
      /\ DOMAIN ran' = DOMAIN ran
      /\ \A m \in Messages : ran'[m] = ran[m]
  BY QueueAssumption DEF Meeting, queue, reader, FInv
<1>2. Distinct'
  BY <1>1 DEF FInv, Distinct
<1>3. \A m \in ToSet(handled) : m \in Messages
  BY DEF FInv, Distinct, ToSet
<1>4. \A m \in ToSet(handled') : FiredTo(m, Len(Triggers))'
  BY <1>1, <1>3, SameFirings DEF FInv
<1>5. current' # NoMessage => FiredTo(current, next - 1)'
  BY <1>1, SameFirings DEF FInv, Holds
<1> QED
  BY <1>1, <1>2, <1>4, <1>5 DEF FInv

LEMMA InitFInv ==
  ASSUME QueueInit
  PROVE  FInv
<1>1. Holds
  BY InitHolds
<1>2. items = <<>> /\ handled = <<>> /\ current = NoMessage /\ next = 1 /\ place = "select"
      /\ ran = [e \in Messages \cup Meetings |-> <<>>]
  BY DEF QueueInit
<1> QED
  BY <1>1, <1>2, TriggersTyped DEF FInv, Distinct, ToSet

LEMMA NextFInv ==
  ASSUME FInv, [QueueNext]_queueVars
  PROVE  FInv'
<1>1. Holds'
  BY NextHolds DEF FInv
<1>2. CASE Notified \/ Timer \/ Leave \/ EndContext \/ Stop \/ UNCHANGED queueVars
  <2>1. /\ UNCHANGED <<items, ran, kind, current, handled, next>>
        /\ place' = "handle" <=> place = "handle"
    BY <1>2 DEF Notified, Timer, Leave, EndContext, Stop, queueVars, queue, reader
  <2>2. Distinct'
    BY <2>1 DEF FInv, Distinct
  <2> QED
    BY <1>1, <2>1, <2>2, StaysFired
<1> QED
  BY <1>1, <1>2, AddFires, TakeFires, TriggerFires, DoneFires, MeetingFires DEF QueueNext, Reader

\* What the conditions of ProcessMessage leave over is what the table of the
\* documentation means, for the types of triggers it gives an audience.
LEMMA SelectsAudience ==
  ASSUME NEW m, kind[m] \in MessageKinds, NEW t \in Handled \cup FlexKinds
  PROVE  /\ kind[m].type \in Chats /\ t \in DOMAIN Audience /\ Audience[t] = Event(m) => Selects(m, t)
         /\ Selects(m, t) => t \notin FlexKinds
         /\ Selects(m, t) /\ t \in DOMAIN Audience =>
              Audience[t].channel = Event(m).channel /\ Audience[t].sender = Event(m).sender
<1>1. DOMAIN Audience = Chats \cup Emails
  BY DEF Audience, Chats, Emails
<1>2. kind[m].type \in Chats \cup Emails /\ kind[m].email \in BOOLEAN
  BY DEF MessageKinds
<1>3. ASSUME NEW u \in Chats \cup Emails
      PROVE  /\ Audience[u].channel = IF u \in Emails THEN "email" ELSE "chat"
             /\ Audience[u].sender = IF u \in OfTeams THEN "team" ELSE "user"
             /\ u \in OfUsers <=> u \notin OfTeams
  BY DEF Audience, Chats, Emails, OfTeams, OfUsers
<1>4. /\ Event(m).channel = IF kind[m].email THEN "email" ELSE "chat"
      /\ Event(m).sender = IF kind[m].type \in OfTeams THEN "team" ELSE "user"
  BY <1>2, <1>3 DEF Event
<1>5. Chats \cap Emails = {}
  BY DEF Chats, Emails
<1>6. IsUser(m) <=> kind[m].type \in Chats /\ kind[m].type \notin OfTeams
  BY <1>2 DEF IsUser, Chats, Emails, OfTeams
<1>7. IsTeam(m) <=> kind[m].type \in Chats /\ kind[m].type \in OfTeams
  BY <1>2 DEF IsTeam, Chats, Emails, OfTeams
<1>8. ASSUME kind[m].type \in Chats, t \in Chats \cup Emails, Audience[t] = Event(m)
      PROVE  Selects(m, t)
  <2>1. /\ t \in Emails <=> kind[m].email
        /\ t \in OfTeams <=> kind[m].type \in OfTeams
    BY <1>2, <1>3, <1>4, <1>8
  <2> QED
    BY <1>3, <1>5, <1>6, <1>7, <1>8, <2>1 DEF Selects, OfChannel, OfOtherChannel, Handled
<1>9. ASSUME Selects(m, t) PROVE t \notin FlexKinds
  BY <1>9 DEF Selects, Handled, FlexKinds, Chats, Emails, MeetingKinds
<1>10. ASSUME Selects(m, t), t \in Chats \cup Emails
       PROVE  Audience[t].channel = Event(m).channel /\ Audience[t].sender = Event(m).sender
  <2>1. t \in Emails <=> kind[m].email
    BY <1>2, <1>5, <1>10 DEF Selects, OfOtherChannel
  <2>2. t \in OfTeams <=> kind[m].type \in OfTeams
    BY <1>3, <1>5, <1>6, <1>7, <1>10, <2>1 DEF Selects, OfChannel
  <2> QED
    BY <1>3, <1>4, <1>10, <2>1, <2>2
<1> QED
  BY <1>1, <1>8, <1>9, <1>10

\* A handled message has fired all that the documented table of triggers means
\* for it and nothing the table gives to another channel or sender, though
\* ProcessMessage only excludes types; in the order of GetAllTools and once.
THEOREM AudienceFires == QueueSpec => []FiresItsAudience
<1>1. FInv /\ kind \in [Messages -> MessageKinds] => FiresItsAudience
  <2> SUFFICES ASSUME FInv, kind \in [Messages -> MessageKinds], NEW m \in ToSet(handled)
               PROVE  FiresItsAudience!(m)
    BY DEF FiresItsAudience
  <2>1. m \in Messages /\ kind[m] \in MessageKinds
    BY DEF FInv, Distinct, ToSet
  <2>2. ToSet(ran[m]) = FiredBy(m, Len(Triggers)) /\ Increasing(ran[m])
    BY DEF FInv, FiredTo
  <2>3. \A j \in DOMAIN Triggers : Triggers[j].type \in Handled \cup FlexKinds
    <3> SUFFICES ASSUME NEW j \in DOMAIN Triggers
                 PROVE  Triggers[j].type \in Handled \cup FlexKinds
      OBVIOUS
    <3>1. Triggers[j] \in Trigger
      BY QueueAssumption
    <3> QED
      BY <3>1 DEF Trigger
  <2>4. \A j : j \in ToSet(ran[m]) <=> j \in DOMAIN Triggers /\ Selects(m, Triggers[j].type)
    BY <2>2, TriggersTyped DEF FiredBy
  <2> QED
    BY <2>1, <2>2, <2>3, <2>4, SelectsAudience
<1>2. FInv /\ [QueueNext]_queueVars => FInv'
  BY NextFInv
<1>3. QueueInit => kind \in [Messages -> MessageKinds]
  BY QueueAssumption DEF QueueInit
<1>4. kind \in [Messages -> MessageKinds] /\ [QueueNext]_queueVars => (kind \in [Messages -> MessageKinds])'
  BY DEF QueueNext, queueVars, queue, Reader, Add, Notified, Timer, GetNext, HandleTrigger, MessageDone,
         Meeting, Leave, EndContext, Stop
<1> QED
  BY <1>1, <1>2, <1>3, <1>4, InitFInv, PTL DEF QueueSpec
=============================================================================
