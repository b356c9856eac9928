-------------------------- MODULE FunctionCallProofs --------------------------
(***************************************************************************)
(* Proofs about FunctionCall, for any number of calls, any inputs, any     *)
(* configuration of the function and any faults.                           *)
(*                                                                         *)
(* RecordedAtMostOnce is not inductive: a second record is ruled out only  *)
(* by where a call stands.  The invariant IInv says that executionRecorded *)
(* is false until the stages that may set it, and that, until the deferred *)
(* function has run, a call without it has no record.                      *)
(*                                                                         *)
(* Two facts carry the proofs about the cache and consents (JInv).  The    *)
(* fields of a call are fixed by where it stands: its status stays         *)
(* complete until it leaves the path of success, and it has not run before *)
(* it starts (Local).  And a call that asked for a consent waits: it has   *)
(* not run and never will, so that whoever acts on the consent is another  *)
(* call (Waits, Links, Shared).                                            *)
(*                                                                         *)
(* For calls made one after the other and a working database two more      *)
(* invariants follow.  What a call has used is gone and no later call      *)
(* brings it back (KInv), hence one-time use.  And a call past its rule    *)
(* stays alone: no other call has a record that forbids it (LInv).         *)
(***************************************************************************)
EXTENDS FunctionCall, FiniteSetTheorems, TLAPS

\* Stages that read the fulfilled inputs.
AfterFulfil ==
  {"uniqueRule", "prepare", "successInputs", "cacheLookup"} \cup Consents \cup Operating

\* Stages before any record can have been written.
BeforeRecord ==
  {"idle", "onSkip", "onPending", "afterSuccess", "recordSuccess", "recordFailure"}
    \cup Gates \cup Consents \cup Operating

CallInv(c) ==
  /\ call[c].pc \in AfterFulfil => call[c].input \in Inputs
  /\ call[c].pc \in BeforeRecord => ~call[c].stored
  /\ call[c].pc # "done" /\ ~call[c].stored => rows[c] = <<>>
  /\ Len(rows[c]) <= 1

IInv == TypeOK /\ \A c \in Calls : CallInv(c)

-----------------------------------------------------------------------------
(* Setting one field of a call's record keeps its type; assignments to     *)
(* several fields are these, one after the other.                          *)

LEMMA SetPc == \A r \in CallType : \A x \in Stages : [r EXCEPT !.pc = x] \in CallType
  BY DEF CallType
LEMMA SetStatus == \A r \in CallType : \A x \in Statuses : [r EXCEPT !.status = x] \in CallType
  BY DEF CallType
LEMMA SetStored == \A r \in CallType : \A x \in BOOLEAN : [r EXCEPT !.stored = x] \in CallType
  BY DEF CallType
LEMMA SetInput == \A r \in CallType : \A x \in Inputs : [r EXCEPT !.input = x] \in CallType
  BY DEF CallType
LEMMA SetHash ==
  \A r \in CallType : \A x \in Inputs \cup {NoInput} : [r EXCEPT !.hash = x] \in CallType
  BY DEF CallType
LEMMA SetTries == \A r \in CallType : \A x \in 0 .. 1 : [r EXCEPT !.tries = x] \in CallType
  BY DEF CallType
LEMMA SetReRuns == \A r \in CallType : \A x \in Nat : [r EXCEPT !.reRuns = x] \in CallType
  BY DEF CallType
LEMMA SetTodo == \A r \in CallType : \A x \in Nat : [r EXCEPT !.todo = x] \in CallType
  BY DEF CallType
LEMMA SetAsked == \A r \in CallType : \A x \in Questions : [r EXCEPT !.asked = x] \in CallType
  BY DEF CallType
LEMMA SetRet == \A r \in CallType : \A x \in Errors : [r EXCEPT !.ret = x] \in CallType
  BY DEF CallType
LEMMA SetState ==
  \A r \in CallType : \A x \in Calls \cup {NoCall} : [r EXCEPT !.state = x] \in CallType
  BY DEF CallType
LEMMA SetConsent ==
  \A r \in CallType : \A x \in Calls \cup {NoCall} : [r EXCEPT !.consent = x] \in CallType
  BY DEF CallType
LEMMA SetGrant ==
  \A r \in CallType : \A x \in Calls \cup {NoCall} : [r EXCEPT !.grant = x] \in CallType
  BY DEF CallType
LEMMA SetRuns == \A r \in CallType : \A x \in Nat : [r EXCEPT !.runs = x] \in CallType
  BY DEF CallType
LEMMA SetRanOn == \A r \in CallType : \A x \in SUBSET Inputs : [r EXCEPT !.ranOn = x] \in CallType
  BY DEF CallType
LEMMA SetWorked == \A r \in CallType : \A x \in BOOLEAN : [r EXCEPT !.worked = x] \in CallType
  BY DEF CallType
LEMMA SetHooks ==
  \A r \in CallType : \A x \in SUBSET HookKinds : [r EXCEPT !.hooks = x] \in CallType
  BY DEF CallType

-----------------------------------------------------------------------------
(* How a step of one call keeps the invariant.                             *)

\* The stores keep their types, and only call c may get a record.
StoresKept(c) ==
  /\ fn' = fn
  /\ rows' \in [Calls -> Seq(Row)]
  /\ \A d \in Calls \ {c} : rows'[d] = rows[d]
  /\ cache' \in [Inputs \cup {NoInput} -> Calls \cup {NoCall}]
  /\ confirms' \subseteq Confirmation
  /\ checkpoint' \in Checkpoint

LEMMA UnchangedKept ==
  ASSUME TypeOK, NEW c \in Calls, UNCHANGED stores
  PROVE  StoresKept(c) /\ rows'[c] = rows[c]
  BY DEF TypeOK, stores, StoresKept

\* Call c becomes r and may get a record.
LEMMA Advance ==
  ASSUME IInv, NEW c \in Calls, NEW r \in CallType, Become(c, r), StoresKept(c),
         r.pc \in AfterFulfil => r.input \in Inputs,
         r.pc \in BeforeRecord => ~r.stored,
         r.pc # "done" /\ ~r.stored => rows'[c] = <<>>,
         Len(rows'[c]) <= 1
  PROVE  IInv'
<1>1. call' \in [Calls -> CallType] /\ call'[c] = r
  BY DEF IInv, TypeOK, Become
<1>2. \A d \in Calls \ {c} : call'[d] = call[d]
  BY DEF IInv, TypeOK, Become
<1>3. TypeOK'
  BY <1>1 DEF IInv, TypeOK, StoresKept
<1>4. CallInv(c)'
  BY <1>1 DEF CallInv
<1>5. \A d \in Calls \ {c} : CallInv(d)'
  BY <1>2 DEF IInv, CallInv, StoresKept
<1> QED
  BY <1>3, <1>4, <1>5 DEF IInv

\* Call c becomes r without a new record.
LEMMA Keeps ==
  ASSUME IInv, NEW c \in Calls, NEW r \in CallType, Become(c, r), StoresKept(c),
         rows'[c] = rows[c], call[c].pc # "done",
         r.stored = call[c].stored \/ r.stored,
         r.pc \in BeforeRecord => call[c].pc \in BeforeRecord /\ r.stored = call[c].stored,
         r.pc \in AfterFulfil => r.input \in Inputs
  PROVE  IInv'
<1>1. r.pc \in BeforeRecord => ~r.stored
  BY DEF IInv, CallInv
<1>2. r.pc # "done" /\ ~r.stored => rows'[c] = <<>>
  BY DEF IInv, CallInv, CallType
<1>3. Len(rows'[c]) <= 1
  BY DEF IInv, CallInv
<1> QED
  BY <1>1, <1>2, <1>3, Advance

LEMMA GotoKeeps ==
  ASSUME IInv, NEW c \in Calls, NEW p \in Stages, Goto(c, p), StoresKept(c),
         rows'[c] = rows[c], call[c].pc # "done",
         p \in BeforeRecord => call[c].pc \in BeforeRecord,
         p \in AfterFulfil => call[c].pc \in AfterFulfil
  PROVE  IInv'
<1> DEFINE r == [call[c] EXCEPT !.pc = p]
<1>1. call[c] \in CallType
  BY DEF IInv, TypeOK
<1>2. r \in CallType
  BY <1>1, SetPc
<1>3. r.pc = p /\ r.stored = call[c].stored /\ r.input = call[c].input
  BY <1>1 DEF CallType
<1>4. Become(c, r)
  BY DEF Goto
<1>5. r.pc \in AfterFulfil => r.input \in Inputs
  BY <1>3 DEF IInv, CallInv
<1> HIDE DEF r
<1> QED
  BY <1>2, <1>3, <1>4, <1>5, Keeps

\* "defer" is neither before the record nor a stage that reads the inputs.
LEMMA DeferKeeps ==
  ASSUME IInv, NEW c \in Calls, NEW r \in CallType, Become(c, r), StoresKept(c),
         rows'[c] = rows[c], call[c].pc # "done",
         r.pc = "defer", r.stored = call[c].stored \/ r.stored
  PROVE  IInv'
<1>1. "defer" \notin BeforeRecord /\ "defer" \notin AfterFulfil
  BY DEF BeforeRecord, AfterFulfil, Gates, Consents, Operating
<1> QED
  BY <1>1, Keeps

LEMMA ReturnKeeps ==
  ASSUME IInv, NEW c \in Calls, NEW s \in Statuses, NEW e \in Errors, Return(c, s, e),
         StoresKept(c), rows'[c] = rows[c], call[c].pc # "done"
  PROVE  IInv'
<1> DEFINE r == [call[c] EXCEPT !.pc = "defer", !.status = s, !.ret = e]
<1>1. call[c] \in CallType /\ "defer" \in Stages
  BY DEF IInv, TypeOK, Stages
<1>2. r \in CallType
  BY <1>1, SetPc, SetStatus, SetRet
<1>3. r.pc = "defer" /\ r.stored = call[c].stored
  BY <1>1 DEF CallType
<1>4. Become(c, r)
  BY DEF Return
<1> HIDE DEF r
<1> QED
  BY <1>2, <1>3, <1>4, DeferKeeps

LEMMA ReturnAsIsKeeps ==
  ASSUME IInv, NEW c \in Calls, NEW e \in Errors, ReturnAsIs(c, e),
         StoresKept(c), rows'[c] = rows[c], call[c].pc # "done"
  PROVE  IInv'
<1>1. call[c].status \in Statuses
  BY DEF IInv, TypeOK, CallType
<1> QED
  BY <1>1, ReturnKeeps DEF ReturnAsIs

LEMMA FnTyped ==
  ASSUME TypeOK
  PROVE  /\ fn.onSuccess \in Nat /\ fn.onFailure \in Nat
         /\ fn.onSkip \in Nat /\ fn.onPending \in Nat
  BY ConstantsAssumption DEF TypeOK, FunctionType

\* Stages that wait for callbacks, or record the call, may follow any stage
\* before the record.
LEMMA ClosingKeeps ==
  ASSUME IInv, NEW c \in Calls, NEW r \in CallType, Become(c, r), StoresKept(c),
         rows'[c] = rows[c], call[c].pc \in BeforeRecord,
         r.pc \in {"onPending", "onSkip", "recordFailure", "recordSuccess", "completion"},
         r.stored = call[c].stored
  PROVE  IInv'
<1>1. r.pc \notin AfterFulfil /\ call[c].pc # "done"
  BY DEF BeforeRecord, AfterFulfil, Gates, Consents, Operating
<1> QED
  BY <1>1, Keeps

LEMMA PauseKeeps ==
  ASSUME IInv, NEW c \in Calls, NEW w \in Questions, Pause(c, w), StoresKept(c),
         rows'[c] = rows[c], call[c].pc \in BeforeRecord
  PROVE  IInv'
<1> DEFINE r == [call[c] EXCEPT !.pc = "onPending", !.status = "pending",
                                !.todo = fn.onPending, !.asked = w]
<1>1. call[c] \in CallType /\ fn.onPending \in Nat
  BY FnTyped DEF IInv, TypeOK
<1>2. "onPending" \in Stages /\ "pending" \in Statuses
  BY DEF Stages, Closing, Statuses
<1>3. r \in CallType
  BY <1>1, <1>2, SetPc, SetStatus, SetTodo, SetAsked
<1>4. r.pc = "onPending" /\ r.stored = call[c].stored
  BY <1>1 DEF CallType
<1>5. Become(c, r)
  BY DEF Pause
<1> HIDE DEF r
<1> QED
  BY <1>3, <1>4, <1>5, ClosingKeeps

LEMMA AddHook ==
  ASSUME NEW r \in CallType, NEW h \in HookKinds
  PROVE  r.hooks \cup {h} \in SUBSET HookKinds
  BY DEF CallType

LEMMA FailEarlyKeeps ==
  ASSUME IInv, NEW c \in Calls, FailEarly(c), StoresKept(c),
         rows'[c] = rows[c], call[c].pc \in BeforeRecord
  PROVE  IInv'
<1>1. call[c] \in CallType
  BY DEF IInv, TypeOK
<1>2. /\ "defer" \in Stages /\ "recordFailure" \in Stages
      /\ "failed" \in Statuses /\ "afterCompletion" \in HookKinds
  BY DEF Stages, Closing, Statuses, HookKinds
<1>3. call[c].pc # "done"
  BY DEF BeforeRecord, Gates, Consents, Operating
<1>4. CASE fn.onFailure = 0
  <2> DEFINE r == [call[c] EXCEPT !.pc = "defer", !.status = "failed", !.stored = TRUE,
                                  !.hooks = @ \cup {"afterCompletion"}]
  <2>1. call[c].hooks \cup {"afterCompletion"} \in SUBSET HookKinds
    BY <1>1, <1>2, AddHook
  <2>2. r \in CallType
    BY <1>1, <1>2, <2>1, SetPc, SetStatus, SetStored, SetHooks DEF CallType
  <2>3. r.pc = "defer" /\ r.stored
    BY <1>1 DEF CallType
  <2>4. Become(c, r)
    BY <1>4 DEF FailEarly
  <2> HIDE DEF r
  <2> QED
    BY <1>3, <2>2, <2>3, <2>4, DeferKeeps
<1>5. CASE fn.onFailure # 0
  <2> DEFINE r == [call[c] EXCEPT !.pc = "recordFailure", !.status = "failed"]
  <2>1. r \in CallType
    BY <1>1, <1>2, SetPc, SetStatus
  <2>2. r.pc = "recordFailure" /\ r.stored = call[c].stored
    BY <1>1 DEF CallType
  <2>3. Become(c, r)
    BY <1>5 DEF FailEarly
  <2> HIDE DEF r
  <2> QED
    BY <2>1, <2>2, <2>3, ClosingKeeps
<1> QED
  BY <1>4, <1>5

LEMMA EarlyGotoKeeps ==
  ASSUME IInv, NEW c \in Calls, NEW p \in Stages, Goto(c, p), StoresKept(c),
         rows'[c] = rows[c], call[c].pc \in BeforeRecord,
         p \in AfterFulfil => call[c].pc \in AfterFulfil
  PROVE  IInv'
<1>1. call[c].pc # "done"
  BY DEF BeforeRecord, Gates, Consents, Operating
<1> QED
  BY <1>1, GotoKeeps

LEMMA ErrorNames ==
  /\ {"none", "error", "pending", "panic"} \subseteq Errors
  /\ {"complete", "failed", "pending", "skipped"} \subseteq Statuses
  /\ {"nothing", "input", "approval", "confirmation", "output"} \subseteq Questions
  BY DEF Errors, Statuses, Questions

-----------------------------------------------------------------------------
(* One lemma per action.                                                   *)

LEMMA BeginKeeps ==
  ASSUME IInv, NEW c \in Calls, Begin(c)
  PROVE  IInv'
<1>1. StoresKept(c) /\ rows'[c] = rows[c]
  BY UnchangedKept DEF IInv, Begin
<1>2. call[c].pc \in BeforeRecord /\ call[c].pc # "done"
  BY DEF Begin, At, BeforeRecord
<1>3. "earlyCache" \in Stages /\ "earlyCache" \notin AfterFulfil
  BY DEF Stages, Gates, AfterFulfil, Consents, Operating
<1>4. Goto(c, "earlyCache") \/ ReturnAsIs(c, "error") \/ Return(c, "skipped", "none")
  BY DEF Begin
<1> QED
  BY <1>1, <1>2, <1>3, <1>4, EarlyGotoKeeps, ReturnAsIsKeeps, ReturnKeeps, ErrorNames

LEMMA ReturnCachedKeeps ==
  ASSUME IInv, NEW c \in Calls, ReturnCached(c), StoresKept(c),
         rows'[c] = rows[c], call[c].pc # "done"
  PROVE  IInv'
<1> DEFINE r == [call[c] EXCEPT !.pc = "defer", !.worked = TRUE]
<1>1. call[c] \in CallType /\ "defer" \in Stages
  BY DEF IInv, TypeOK, Stages
<1>2. r \in CallType
  BY <1>1, SetPc, SetWorked
<1>3. r.pc = "defer" /\ r.stored = call[c].stored
  BY <1>1 DEF CallType
<1>4. Become(c, r)
  BY DEF ReturnCached
<1> HIDE DEF r
<1> QED
  BY <1>2, <1>3, <1>4, DeferKeeps

LEMMA EarlyCacheKeeps ==
  ASSUME IInv, NEW c \in Calls, EarlyCache(c)
  PROVE  IInv'
<1>1. StoresKept(c) /\ rows'[c] = rows[c]
  BY UnchangedKept DEF IInv, EarlyCache
<1>2. call[c].pc \in BeforeRecord /\ call[c].pc # "done"
  BY DEF EarlyCache, At, BeforeRecord, Gates
<1>3. "needs" \in Stages /\ "needs" \notin AfterFulfil
  BY DEF Stages, Gates, AfterFulfil, Consents, Operating
<1>4. Goto(c, "needs") \/ ReturnCached(c)
  BY DEF EarlyCache
<1> QED
  BY <1>1, <1>2, <1>3, <1>4, EarlyGotoKeeps, ReturnCachedKeeps

LEMMA NeedsKeeps ==
  ASSUME IInv, NEW c \in Calls, Needs(c)
  PROVE  IInv'
<1>1. StoresKept(c) /\ rows'[c] = rows[c]
  BY UnchangedKept DEF IInv, Needs
<1>2. call[c].pc \in BeforeRecord /\ call[c].pc # "done"
  BY DEF Needs, At, BeforeRecord, Gates
<1>3. "runOnlyIf" \in Stages /\ "runOnlyIf" \notin AfterFulfil
  BY DEF Stages, Gates, AfterFulfil, Consents, Operating
<1>4. Goto(c, "runOnlyIf") \/ FailEarly(c) \/ Return(c, "pending", "none")
  BY DEF Needs
<1> QED
  BY <1>1, <1>2, <1>3, <1>4, EarlyGotoKeeps, FailEarlyKeeps, ReturnKeeps, ErrorNames

LEMMA RunOnlyIfKeeps ==
  ASSUME IInv, NEW c \in Calls, RunOnlyIf(c)
  PROVE  IInv'
<1> DEFINE r == [call[c] EXCEPT !.pc = "onSkip", !.status = "skipped", !.todo = fn.onSkip]
<1>1. StoresKept(c) /\ rows'[c] = rows[c]
  BY UnchangedKept DEF IInv, RunOnlyIf
<1>2. call[c].pc \in BeforeRecord /\ call[c].pc # "done"
  BY DEF RunOnlyIf, At, BeforeRecord, Gates
<1>3. /\ "onceRule" \in Stages /\ "onceRule" \notin AfterFulfil /\ "onSkip" \in Stages
      /\ OnErrorOutcomes(TRUE) \subseteq Errors
  BY DEF Stages, Gates, Closing, AfterFulfil, Consents, Operating, OnErrorOutcomes, Errors
<1>4. \/ Goto(c, "onceRule") \/ FailEarly(c) \/ \E e \in Errors : ReturnAsIs(c, e)
      \/ Become(c, r)
  BY <1>3, ErrorNames DEF RunOnlyIf
<1>5. CASE Become(c, r)
  <2>1. call[c] \in CallType /\ fn.onSkip \in Nat
    BY FnTyped DEF IInv, TypeOK
  <2>2. r \in CallType
    BY <1>3, <2>1, ErrorNames, SetPc, SetStatus, SetTodo
  <2>3. r.pc = "onSkip" /\ r.stored = call[c].stored
    BY <2>1 DEF CallType
  <2> HIDE DEF r
  <2> QED
    BY <1>1, <1>2, <1>5, <2>2, <2>3, ClosingKeeps
<1> HIDE DEF r
<1> QED
  BY <1>1, <1>2, <1>3, <1>4, <1>5, EarlyGotoKeeps, FailEarlyKeeps, ReturnAsIsKeeps

LEMMA OnceRuleKeeps ==
  ASSUME IInv, NEW c \in Calls, OnceRule(c)
  PROVE  IInv'
<1>1. StoresKept(c) /\ rows'[c] = rows[c]
  BY UnchangedKept DEF IInv, OnceRule
<1>2. call[c].pc \in BeforeRecord /\ call[c].pc # "done"
  BY DEF OnceRule, At, BeforeRecord, Gates
<1>3. "fulfil" \in Stages /\ "fulfil" \notin AfterFulfil
  BY DEF Stages, Gates, AfterFulfil, Consents, Operating
<1>4. Goto(c, "fulfil") \/ Return(c, "failed", "none")
  BY DEF OnceRule
<1> QED
  BY <1>1, <1>2, <1>3, <1>4, EarlyGotoKeeps, ReturnKeeps, ErrorNames

LEMMA FulfilKeeps ==
  ASSUME IInv, NEW c \in Calls, Fulfil(c)
  PROVE  IInv'
<1>1. StoresKept(c) /\ rows'[c] = rows[c]
  BY UnchangedKept DEF IInv, Fulfil
<1>2. call[c].pc \in BeforeRecord /\ call[c].pc # "done"
  BY DEF Fulfil, At, BeforeRecord, Gates
<1>3. ASSUME NEW x \in Inputs, Become(c, [call[c] EXCEPT !.pc = "uniqueRule", !.input = x])
      PROVE  IInv'
  <2> DEFINE r == [call[c] EXCEPT !.pc = "uniqueRule", !.input = x]
  <2>1. call[c] \in CallType /\ "uniqueRule" \in Stages
    BY DEF IInv, TypeOK, Stages, Gates
  <2>2. r \in CallType
    BY <2>1, SetPc, SetInput
  <2>3. r.stored = call[c].stored /\ r.input \in Inputs
    BY <2>1 DEF CallType
  <2>4. Become(c, r)
    BY <1>3
  <2> HIDE DEF r
  <2> QED
    BY <1>1, <1>2, <2>2, <2>3, <2>4, Keeps
<1>4. CASE Pause(c, "input")
  BY <1>1, <1>2, <1>4, PauseKeeps, ErrorNames
<1>5. CASE ReturnAsIs(c, "error") \/ Return(c, "failed", "none")
  BY <1>1, <1>2, <1>5, ReturnAsIsKeeps, ReturnKeeps, ErrorNames
<1> QED
  BY <1>3, <1>4, <1>5 DEF Fulfil

LEMMA UniqueRuleKeeps ==
  ASSUME IInv, NEW c \in Calls, UniqueRule(c)
  PROVE  IInv'
<1> DEFINE u == [call[c] EXCEPT !.pc = "defer", !.status = "failed", !.hash = call[c].input]
           v == [call[c] EXCEPT !.pc = "prepare", !.hash = call[c].input]
<1>1. StoresKept(c) /\ rows'[c] = rows[c]
  BY UnchangedKept DEF IInv, UniqueRule
<1>2. call[c].pc \in BeforeRecord /\ call[c].pc \in AfterFulfil /\ call[c].pc # "done"
  BY DEF UniqueRule, At, BeforeRecord, AfterFulfil, Gates
<1>3. "prepare" \in Stages /\ "defer" \in Stages
  BY DEF Stages, Gates
<1>4. call[c] \in CallType /\ call[c].input \in Inputs
  BY <1>2 DEF IInv, TypeOK, CallInv
<1>5. \/ Goto(c, "prepare") \/ Return(c, "failed", "none") \/ Become(c, u) \/ Become(c, v)
  BY DEF UniqueRule
<1>6. u \in CallType /\ v \in CallType
  BY <1>3, <1>4, ErrorNames, SetPc, SetStatus, SetHash
<1>7. /\ u.pc = "defer" /\ u.stored = call[c].stored
      /\ v.stored = call[c].stored /\ v.input \in Inputs
  BY <1>4 DEF CallType
<1> HIDE DEF u, v
<1>8. CASE Become(c, u)
  BY <1>1, <1>2, <1>6, <1>7, <1>8, DeferKeeps
<1>9. CASE Become(c, v)
  BY <1>1, <1>2, <1>6, <1>7, <1>9, Keeps
<1> QED
  BY <1>1, <1>2, <1>3, <1>5, <1>8, <1>9, EarlyGotoKeeps, ReturnKeeps, ErrorNames

LEMMA PrepareKeeps ==
  ASSUME IInv, NEW c \in Calls, Prepare(c)
  PROVE  IInv'
<1>1. StoresKept(c) /\ rows'[c] = rows[c]
  BY UnchangedKept DEF IInv, Prepare
<1>2. call[c].pc \in BeforeRecord /\ call[c].pc \in AfterFulfil /\ call[c].pc # "done"
  BY DEF Prepare, At, BeforeRecord, AfterFulfil, Gates
<1>3. "successInputs" \in Stages
  BY DEF Stages, Gates
<1>4. Goto(c, "successInputs") \/ ReturnAsIs(c, "error")
  BY DEF Prepare
<1> QED
  BY <1>1, <1>2, <1>3, <1>4, EarlyGotoKeeps, ReturnAsIsKeeps, ErrorNames

LEMMA SuccessInputsKeeps ==
  ASSUME IInv, NEW c \in Calls, SuccessInputs(c)
  PROVE  IInv'
<1>1. StoresKept(c) /\ rows'[c] = rows[c]
  BY UnchangedKept DEF IInv, SuccessInputs
<1>2. call[c].pc \in BeforeRecord /\ call[c].pc \in AfterFulfil
  BY DEF SuccessInputs, At, BeforeRecord, AfterFulfil, Gates
<1>3. "cacheLookup" \in Stages
  BY DEF Stages, Gates
<1>4. Goto(c, "cacheLookup") \/ Pause(c, "input")
  BY DEF SuccessInputs
<1> QED
  BY <1>1, <1>2, <1>3, <1>4, EarlyGotoKeeps, PauseKeeps, ErrorNames

LEMMA CacheLookupKeeps ==
  ASSUME IInv, NEW c \in Calls, CacheLookup(c)
  PROVE  IInv'
<1>1. StoresKept(c) /\ rows'[c] = rows[c]
  BY UnchangedKept DEF IInv, CacheLookup
<1>2. call[c].pc \in BeforeRecord /\ call[c].pc \in AfterFulfil /\ call[c].pc # "done"
  BY DEF CacheLookup, At, BeforeRecord, AfterFulfil, Gates
<1>3. "approval" \in Stages
  BY DEF Stages, Consents
<1>4. Goto(c, "approval") \/ ReturnCached(c)
  BY DEF CacheLookup
<1> QED
  BY <1>1, <1>2, <1>3, <1>4, EarlyGotoKeeps, ReturnCachedKeeps

LEMMA GateKeeps ==
  ASSUME IInv, NEW c \in Calls, Gate(c)
  PROVE  IInv'
  BY EarlyCacheKeeps, NeedsKeeps, RunOnlyIfKeeps, OnceRuleKeeps, FulfilKeeps,
     UniqueRuleKeeps, PrepareKeeps, SuccessInputsKeeps, CacheLookupKeeps DEF Gate

LEMMA ApprovalKeeps ==
  ASSUME IInv, NEW c \in Calls, Approval(c)
  PROVE  IInv'
<1> DEFINE r == [call[c] EXCEPT !.pc = "useGrant", !.grant = checkpoint.by]
<1>1. StoresKept(c) /\ rows'[c] = rows[c]
  BY UnchangedKept DEF IInv, Approval
<1>2. call[c].pc \in BeforeRecord /\ call[c].pc \in AfterFulfil /\ call[c].pc # "done"
  BY DEF Approval, At, BeforeRecord, AfterFulfil, Consents
<1>3. "confirm" \in Stages /\ "useGrant" \in Stages
  BY DEF Stages, Consents
<1>4. call[c] \in CallType /\ call[c].input \in Inputs /\ checkpoint.by \in Calls \cup {NoCall}
  BY <1>2 DEF IInv, TypeOK, CallInv, Checkpoint
<1>5. \/ Goto(c, "confirm") \/ Return(c, "failed", "none")
      \/ Pause(c, "approval") \/ Pause(c, "nothing")
      \/ Become(c, r)
  BY DEF Approval, UsesCheckpoint
<1>6. r \in CallType /\ r.stored = call[c].stored /\ r.input \in Inputs
  <2>1. r \in CallType
    BY <1>3, <1>4, SetPc, SetGrant
  <2>2. r.stored = call[c].stored /\ r.input = call[c].input
    BY <1>4 DEF CallType
  <2> QED
    BY <1>4, <2>1, <2>2
<1> HIDE DEF r
<1>7. CASE Become(c, r)
  BY <1>1, <1>2, <1>6, <1>7, Keeps
<1> QED
  BY <1>1, <1>2, <1>3, <1>5, <1>7, EarlyGotoKeeps, ReturnKeeps, PauseKeeps, ErrorNames

LEMMA UseGrantKeeps ==
  ASSUME IInv, NEW c \in Calls, UseGrant(c)
  PROVE  IInv'
<1>1. StoresKept(c) /\ rows'[c] = rows[c]
  <2>1. NoCheckpoint \in Checkpoint
    BY DEF NoCheckpoint, Checkpoint
  <2> QED
    BY <2>1 DEF IInv, TypeOK, UseGrant, StoresKept
<1>2. call[c].pc \in BeforeRecord /\ call[c].pc \in AfterFulfil
  BY DEF UseGrant, At, BeforeRecord, AfterFulfil, Consents
<1>3. "confirm" \in Stages /\ Goto(c, "confirm")
  BY DEF UseGrant, Stages, Consents
<1> QED
  BY <1>1, <1>2, <1>3, EarlyGotoKeeps

LEMMA ConfirmKeeps ==
  ASSUME IInv, NEW c \in Calls, Confirm(c)
  PROVE  IInv'
<1>1. /\ fn' = fn /\ rows' = rows /\ cache' = cache /\ checkpoint' = checkpoint
      /\ confirms' \subseteq confirms
  BY DEF Confirm
<1>2. StoresKept(c) /\ rows'[c] = rows[c]
  BY <1>1 DEF IInv, TypeOK, StoresKept
<1>3. call[c].pc \in BeforeRecord /\ call[c].pc \in AfterFulfil /\ call[c].pc # "done"
  BY DEF Confirm, At, BeforeRecord, AfterFulfil, Consents
<1>4. {"start", "ask", "useConsent", "extract"} \subseteq Stages
  BY DEF Stages, Consents, Operating
<1>5. call[c] \in CallType /\ call[c].input \in Inputs
  BY <1>3 DEF IInv, TypeOK, CallInv
<1>6. CASE Goto(c, "start") \/ Goto(c, "ask") \/ Return(c, "failed", "none")
  BY <1>2, <1>3, <1>4, <1>6, EarlyGotoKeeps, ReturnKeeps, ErrorNames
<1>7. ASSUME NEW s \in Matching(c),
             Become(c, [call[c] EXCEPT !.state = s.by,
                                       !.pc = IF s.confirmed THEN "useConsent" ELSE "extract"])
      PROVE  IInv'
  <2> DEFINE p == IF s.confirmed THEN "useConsent" ELSE "extract"
             r == [call[c] EXCEPT !.state = s.by, !.pc = p]
  <2>1. s.by \in Calls \cup {NoCall}
    BY DEF Matching, SameInputs, IInv, TypeOK, Confirmation
  <2>2. p \in Stages
    BY <1>4
  <2>3. Become(c, r)
    BY <1>7
  <2> HIDE DEF p
  <2>4. r \in CallType
    BY <1>5, <2>1, <2>2, SetPc, SetState
  <2>5. r.stored = call[c].stored /\ r.input = call[c].input
    BY <1>5 DEF CallType
  <2> HIDE DEF r
  <2> QED
    BY <1>2, <1>3, <1>5, <2>3, <2>4, <2>5, Keeps
<1> QED
  BY <1>6, <1>7 DEF Confirm

LEMMA AskKeeps ==
  ASSUME IInv, NEW c \in Calls, Ask(c)
  PROVE  IInv'
<1>1. call[c].pc \in BeforeRecord /\ call[c].pc \in AfterFulfil /\ call[c].pc # "done"
  BY DEF Ask, At, BeforeRecord, AfterFulfil, Consents
<1>2. call[c].input \in Inputs
  BY <1>1 DEF IInv, CallInv
<1>3. [by |-> c, hash |-> call[c].input, confirmed |-> FALSE, expired |-> FALSE]
        \in Confirmation
  BY <1>2 DEF Confirmation
<1>4. StoresKept(c) /\ rows'[c] = rows[c]
  BY <1>3 DEF IInv, TypeOK, Ask, StoresKept
<1>5. Pause(c, "confirmation") \/ Return(c, "failed", "none")
  BY DEF Ask
<1> QED
  BY <1>1, <1>4, <1>5, PauseKeeps, ReturnKeeps, ErrorNames

LEMMA ExtractKeeps ==
  ASSUME IInv, NEW c \in Calls, Extract(c)
  PROVE  IInv'
<1>1. call[c].pc \in BeforeRecord /\ call[c].pc \in AfterFulfil /\ call[c].pc # "done"
  BY DEF Extract, At, BeforeRecord, AfterFulfil, Consents
<1>2. \A s \in Confirmation : [s EXCEPT !.confirmed = TRUE] \in Confirmation
  BY DEF Confirmation
<1>3. confirms' \subseteq Confirmation
  BY <1>2 DEF IInv, TypeOK, Extract, StatesBy
<1>4. StoresKept(c) /\ rows'[c] = rows[c]
  BY <1>3 DEF IInv, TypeOK, Extract, StoresKept
<1>5. "useConsent" \in Stages
  BY DEF Stages, Consents
<1>6. Goto(c, "useConsent") \/ Pause(c, "confirmation") \/ Return(c, "failed", "none")
  BY DEF Extract
<1> QED
  BY <1>1, <1>4, <1>5, <1>6, EarlyGotoKeeps, PauseKeeps, ReturnKeeps, ErrorNames

LEMMA UseConsentKeeps ==
  ASSUME IInv, NEW c \in Calls, UseConsent(c)
  PROVE  IInv'
<1> DEFINE r == [call[c] EXCEPT !.pc = "start", !.consent = call[c].state]
<1>1. StoresKept(c) /\ rows'[c] = rows[c]
  BY DEF IInv, TypeOK, UseConsent, StoresKept
<1>2. call[c].pc \in BeforeRecord /\ call[c].pc \in AfterFulfil /\ call[c].pc # "done"
  BY DEF UseConsent, At, BeforeRecord, AfterFulfil, Consents
<1>3. /\ call[c] \in CallType /\ call[c].input \in Inputs
      /\ call[c].state \in Calls \cup {NoCall} /\ "start" \in Stages
  BY <1>2 DEF IInv, TypeOK, CallInv, CallType, Stages, Operating
<1>4. r \in CallType
  BY <1>3, SetPc, SetConsent
<1>5. r.stored = call[c].stored /\ r.input = call[c].input
  BY <1>3 DEF CallType
<1>6. Become(c, r)
  BY DEF UseConsent
<1> HIDE DEF r
<1> QED
  BY <1>1, <1>2, <1>3, <1>4, <1>5, <1>6, Keeps

LEMMA ConsentKeeps ==
  ASSUME IInv, NEW c \in Calls, Consent(c)
  PROVE  IInv'
  BY ApprovalKeeps, UseGrantKeeps, ConfirmKeeps, AskKeeps, ExtractKeeps, UseConsentKeeps
     DEF Consent

LEMMA StartKeeps ==
  ASSUME IInv, NEW c \in Calls, Start(c)
  PROVE  IInv'
<1>1. StoresKept(c) /\ rows'[c] = rows[c]
  BY UnchangedKept DEF IInv, Start
<1>2. call[c].pc \in BeforeRecord /\ call[c].pc \in AfterFulfil /\ call[c].pc # "done"
  BY DEF Start, At, BeforeRecord, AfterFulfil, Operating
<1>3. "execute" \in Stages
  BY DEF Stages, Operating
<1>4. Goto(c, "execute") \/ ReturnAsIs(c, "error")
  BY DEF Start
<1> QED
  BY <1>1, <1>2, <1>3, <1>4, EarlyGotoKeeps, ReturnAsIsKeeps, ErrorNames

\* What Execute does to the call before it decides how the run ended.
LEMMA RanTyped ==
  ASSUME NEW c \in Calls, call[c] \in CallType, call[c].input \in Inputs
  PROVE  /\ Ran(c) \in CallType
         /\ Ran(c).pc = call[c].pc /\ Ran(c).stored = call[c].stored
         /\ Ran(c).input = call[c].input /\ Ran(c).tries = call[c].tries
<1>1. call[c].runs + 1 \in Nat /\ call[c].ranOn \cup {call[c].input} \in SUBSET Inputs
  BY DEF CallType
<1>2. [call[c] EXCEPT !.runs = @ + 1] \in CallType
  BY <1>1, SetRuns
<1>3. [call[c] EXCEPT !.runs = @ + 1].ranOn = call[c].ranOn
  BY DEF CallType
<1>4. [call[c] EXCEPT !.runs = @ + 1, !.ranOn = @ \cup {call[c].input}] \in CallType
  BY <1>1, <1>2, <1>3, SetRanOn
<1>5. Ran(c) \in CallType
  BY <1>4, SetWorked DEF Ran
<1>6. /\ Ran(c).pc = call[c].pc /\ Ran(c).stored = call[c].stored
      /\ Ran(c).input = call[c].input /\ Ran(c).tries = call[c].tries
  BY DEF Ran, CallType
<1> QED
  BY <1>5, <1>6

LEMMA ExecuteKeeps ==
  ASSUME IInv, NEW c \in Calls, Execute(c)
  PROVE  IInv'
<1> DEFINE r == Ran(c)
           ok == [r EXCEPT !.pc = "store", !.worked = TRUE]
           asks == [r EXCEPT !.pc = "onPending", !.status = "pending",
                             !.todo = fn.onPending, !.asked = "output"]
           again == [r EXCEPT !.tries = @ + 1]
           ends == [r EXCEPT !.pc = "defer", !.status = "failed"]
           fails == [r EXCEPT !.pc = "recordFailure", !.status = "failed"]
<1>1. StoresKept(c) /\ rows'[c] = rows[c]
  BY UnchangedKept DEF IInv, Execute
<1>2. call[c].pc \in BeforeRecord /\ call[c].pc \in AfterFulfil /\ call[c].pc # "done"
  BY DEF Execute, At, BeforeRecord, AfterFulfil, Operating
<1>3. call[c] \in CallType /\ call[c].input \in Inputs /\ fn.onPending \in Nat
  BY <1>2, FnTyped DEF IInv, TypeOK, CallInv
<1>4. /\ r \in CallType /\ r.pc = call[c].pc /\ r.stored = call[c].stored
      /\ r.input = call[c].input /\ r.tries = call[c].tries
  BY <1>3, RanTyped
<1>5. \/ Become(c, ok) \/ Become(c, asks) \/ Become(c, ends) \/ Become(c, fails)
      \/ call[c].tries < MaxRetries /\ Become(c, again)
  BY DEF Execute
<1>6. {"store", "onPending", "defer", "recordFailure"} \subseteq Stages
  BY DEF Stages, Operating, Closing
<1> HIDE DEF r
<1>7. CASE Become(c, ok)
  <2>1. ok \in CallType
    BY <1>4, <1>6, SetPc, SetWorked
  <2>2. ok.stored = call[c].stored /\ ok.input = call[c].input
    BY <1>4 DEF CallType
  <2> HIDE DEF ok
  <2> QED
    BY <1>1, <1>2, <1>3, <1>7, <2>1, <2>2, Keeps
<1>8. CASE Become(c, asks)
  <2>1. asks \in CallType
    BY <1>3, <1>4, <1>6, ErrorNames, SetPc, SetStatus, SetTodo, SetAsked
  <2>2. asks.pc = "onPending" /\ asks.stored = call[c].stored
    BY <1>4 DEF CallType
  <2> HIDE DEF asks
  <2> QED
    BY <1>1, <1>2, <1>8, <2>1, <2>2, ClosingKeeps
<1>9. CASE Become(c, ends)
  <2>1. ends \in CallType
    BY <1>4, <1>6, ErrorNames, SetPc, SetStatus
  <2>2. ends.pc = "defer" /\ ends.stored = call[c].stored
    BY <1>4 DEF CallType
  <2> HIDE DEF ends
  <2> QED
    BY <1>1, <1>2, <1>9, <2>1, <2>2, DeferKeeps
<1>10. CASE Become(c, fails)
  <2>1. fails \in CallType
    BY <1>4, <1>6, ErrorNames, SetPc, SetStatus
  <2>2. fails.pc = "recordFailure" /\ fails.stored = call[c].stored
    BY <1>4 DEF CallType
  <2> HIDE DEF fails
  <2> QED
    BY <1>1, <1>2, <1>10, <2>1, <2>2, ClosingKeeps
<1>11. CASE call[c].tries < MaxRetries /\ Become(c, again)
  <2>1. r.tries + 1 \in 0 .. 1
    BY <1>3, <1>4, <1>11 DEF CallType, MaxRetries
  <2>2. again \in CallType
    BY <1>4, <2>1, SetTries
  <2>3. again.pc = call[c].pc /\ again.stored = call[c].stored /\ again.input = call[c].input
    BY <1>4 DEF CallType
  <2> HIDE DEF again
  <2> QED
    BY <1>1, <1>2, <1>3, <1>11, <2>2, <2>3, Keeps
<1> QED
  BY <1>5, <1>7, <1>8, <1>9, <1>10, <1>11

LEMMA StoreKeeps ==
  ASSUME IInv, NEW c \in Calls, Store(c)
  PROVE  IInv'
<1>1. call[c].pc \in BeforeRecord /\ call[c].pc \in AfterFulfil /\ call[c].pc # "done"
  BY DEF Store, At, BeforeRecord, AfterFulfil, Operating
<1>2. CacheKey(c) \in Inputs \cup {NoInput}
  BY <1>1 DEF IInv, CallInv, CacheKey
<1>3. StoresKept(c) /\ rows'[c] = rows[c]
  BY <1>2 DEF IInv, TypeOK, Store, StoresKept
<1>4. "reRun" \in Stages
  BY DEF Stages, Operating
<1>5. Goto(c, "reRun") \/ ReturnAsIs(c, "error")
  BY DEF Store
<1> QED
  BY <1>1, <1>3, <1>4, <1>5, EarlyGotoKeeps, ReturnAsIsKeeps, ErrorNames

LEMMA ReRunKeeps ==
  ASSUME IInv, NEW c \in Calls, ReRun(c)
  PROVE  IInv'
<1>1. StoresKept(c) /\ rows'[c] = rows[c]
  BY UnchangedKept DEF IInv, ReRun
<1>2. call[c].pc \in BeforeRecord /\ call[c].pc \in AfterFulfil /\ call[c].pc # "done"
  BY DEF ReRun, At, BeforeRecord, AfterFulfil, Operating
<1>3. call[c] \in CallType /\ call[c].input \in Inputs
  BY <1>2 DEF IInv, TypeOK, CallInv
<1>4. CASE Goto(c, "afterSuccess") \/ ReturnAsIs(c, "error")
  <2>1. "afterSuccess" \in Stages
    BY DEF Stages, Closing
  <2> QED
    BY <1>1, <1>2, <1>4, <2>1, EarlyGotoKeeps, ReturnAsIsKeeps, ErrorNames
<1>5. ASSUME NEW x \in Inputs, Become(c, NextRound(c, x))
      PROVE  IInv'
  <2> DEFINE r == NextRound(c, x)
  <2>1. "execute" \in Stages /\ 0 \in 0 .. 1
    BY DEF Stages, Operating
  <2>2. call[c].reRuns + 1 \in Nat
    BY <1>3 DEF CallType
  <2>3. r \in CallType
    BY <1>3, <2>1, <2>2, SetPc, SetInput, SetTries, SetReRuns DEF NextRound
  <2>4. r.stored = call[c].stored /\ r.input \in Inputs
    BY <1>3 DEF CallType, NextRound
  <2>5. Become(c, r)
    BY <1>5
  <2> HIDE DEF r
  <2> QED
    BY <1>1, <1>2, <2>3, <2>4, <2>5, Keeps
<1> QED
  BY <1>3, <1>4, <1>5 DEF ReRun

LEMMA OperateKeeps ==
  ASSUME IInv, NEW c \in Calls, Operate(c)
  PROVE  IInv'
  BY StartKeeps, ExecuteKeeps, StoreKeeps, ReRunKeeps DEF Operate

LEMMA AfterSuccessKeeps ==
  ASSUME IInv, NEW c \in Calls, AfterSuccess(c)
  PROVE  IInv'
<1> DEFINE p == IF fn.onSuccess = 0 THEN "completion" ELSE "recordSuccess"
           r == [call[c] EXCEPT !.hooks = @ \cup {"afterSuccess"}, !.pc = p]
<1>1. StoresKept(c) /\ rows'[c] = rows[c]
  BY UnchangedKept DEF IInv, AfterSuccess
<1>2. call[c].pc \in BeforeRecord
  BY DEF AfterSuccess, At, BeforeRecord
<1>3. call[c] \in CallType
  BY DEF IInv, TypeOK
<1>4. call[c].hooks \cup {"afterSuccess"} \in SUBSET HookKinds
  BY <1>3 DEF CallType, HookKinds
<1>5. p \in Stages /\ p \in {"completion", "recordSuccess"}
  BY DEF Stages, Closing
<1>6. Become(c, r)
  BY DEF AfterSuccess
<1> HIDE DEF p
<1>7. r \in CallType
  BY <1>3, <1>4, <1>5, SetPc, SetHooks
<1>8. r.pc = p /\ r.stored = call[c].stored
  BY <1>3 DEF CallType
<1> HIDE DEF r
<1> QED
  BY <1>1, <1>2, <1>5, <1>6, <1>7, <1>8, ClosingKeeps

\* A record written by a call that had none, and what else is left alone.
LEMMA RecordKept ==
  ASSUME TypeOK, NEW c \in Calls, NEW s \in Statuses,
         Record(c, s) \/ UNCHANGED rows, rows[c] = <<>>,
         UNCHANGED <<fn, cache, confirms, checkpoint>>
  PROVE  /\ StoresKept(c)
         /\ Len(rows'[c]) <= 1
         /\ rows'[c] = <<>> \/ Record(c, s)
<1>1. call[c] \in CallType
  BY DEF TypeOK
<1>2. RowOf(c, s) \in Row
  BY <1>1 DEF RowOf, Row, CallType
<1>3. CASE Record(c, s)
  <2>1. rows' = [rows EXCEPT ![c] = <<RowOf(c, s)>>]
    BY <1>3 DEF Record
  <2>2. <<RowOf(c, s)>> \in Seq(Row) /\ Len(<<RowOf(c, s)>>) = 1
    BY <1>2
  <2> QED
    BY <1>3, <2>1, <2>2 DEF TypeOK, StoresKept
<1>4. CASE UNCHANGED rows
  BY <1>4 DEF TypeOK, StoresKept
<1> QED
  BY <1>3, <1>4

LEMMA RecordSuccessKeeps ==
  ASSUME IInv, NEW c \in Calls, RecordSuccess(c)
  PROVE  IInv'
<1> DEFINE u == [call[c] EXCEPT !.pc = "onSuccess", !.todo = fn.onSuccess, !.stored = TRUE]
           v == [call[c] EXCEPT !.pc = "onSuccess", !.todo = fn.onSuccess]
<1>1. call[c] \in CallType /\ fn.onSuccess \in Nat
  BY FnTyped DEF IInv, TypeOK
<1>2. call[c].pc = "recordSuccess" /\ ~call[c].stored /\ rows[c] = <<>>
  BY DEF RecordSuccess, At, IInv, CallInv, BeforeRecord
<1>3. "onSuccess" \in Stages /\ "onSuccess" \notin BeforeRecord \cup AfterFulfil
  BY DEF Stages, Closing, BeforeRecord, AfterFulfil, Gates, Consents, Operating
<1>4. u \in CallType /\ v \in CallType
  BY <1>1, <1>3, SetPc, SetTodo, SetStored
<1>5. u.pc = "onSuccess" /\ u.stored /\ v.pc = "onSuccess" /\ v.stored = call[c].stored
  BY <1>1 DEF CallType
<1>6. \/ Record(c, "complete") /\ Become(c, u)
      \/ UNCHANGED rows /\ Become(c, v)
  BY DEF RecordSuccess
<1>7. /\ StoresKept(c) /\ Len(rows'[c]) <= 1
      /\ UNCHANGED rows => rows'[c] = <<>>
  BY <1>2, <1>6, RecordKept, ErrorNames DEF IInv, RecordSuccess
<1> HIDE DEF u, v
<1>8. CASE Record(c, "complete") /\ Become(c, u)
  BY <1>3, <1>4, <1>5, <1>7, <1>8, Advance
<1>9. CASE UNCHANGED rows /\ Become(c, v)
  BY <1>3, <1>4, <1>5, <1>7, <1>9, Advance
<1> QED
  BY <1>6, <1>8, <1>9

LEMMA RecordFailureKeeps ==
  ASSUME IInv, NEW c \in Calls, RecordFailure(c)
  PROVE  IInv'
<1> DEFINE r == [call[c] EXCEPT !.pc = "onFailure", !.todo = fn.onFailure,
                                !.stored = TRUE, !.hooks = @ \cup {"afterFailure"}]
<1>1. call[c] \in CallType /\ fn.onFailure \in Nat
  BY FnTyped DEF IInv, TypeOK
<1>2. rows[c] = <<>>
  BY DEF RecordFailure, At, IInv, CallInv, BeforeRecord
<1>3. "onFailure" \in Stages /\ "onFailure" \notin BeforeRecord \cup AfterFulfil
  BY DEF Stages, Closing, BeforeRecord, AfterFulfil, Gates, Consents, Operating
<1>4. call[c].hooks \cup {"afterFailure"} \in SUBSET HookKinds
  BY <1>1 DEF CallType, HookKinds
<1>5. r \in CallType
  BY <1>1, <1>3, <1>4, SetPc, SetTodo, SetStored, SetHooks
<1>6. r.pc = "onFailure" /\ r.stored
  BY <1>1 DEF CallType
<1>7. Become(c, r)
  BY DEF RecordFailure
<1>8. StoresKept(c) /\ Len(rows'[c]) <= 1
  BY <1>2, RecordKept, ErrorNames DEF IInv, RecordFailure
<1> HIDE DEF r
<1> QED
  BY <1>3, <1>5, <1>6, <1>7, <1>8, Advance

LEMMA CallbackKeeps ==
  ASSUME IInv, NEW c \in Calls, Callback(c)
  PROVE  IInv'
<1> DEFINE r == [call[c] EXCEPT !.todo = @ - 1]
<1>1. StoresKept(c) /\ rows'[c] = rows[c]
  BY UnchangedKept DEF IInv, Callback
<1>2. call[c].pc # "done" /\ call[c].pc \notin AfterFulfil
  BY DEF Callback, AfterFulfil, Consents, Operating
<1>3. call[c] \in CallType
  BY DEF IInv, TypeOK
<1>4. call[c].todo - 1 \in Nat
  BY <1>3 DEF CallType, Callback
<1>5. r \in CallType
  BY <1>3, <1>4, SetTodo
<1>6. r.pc = call[c].pc /\ r.stored = call[c].stored
  BY <1>3 DEF CallType
<1>7. Become(c, r)
  BY DEF Callback
<1> HIDE DEF r
<1> QED
  BY <1>1, <1>2, <1>5, <1>6, <1>7, Keeps

LEMMA SuccessAsksKeeps ==
  ASSUME IInv, NEW c \in Calls, SuccessAsks(c)
  PROVE  IInv'
<1>1. StoresKept(c) /\ rows'[c] = rows[c]
  BY UnchangedKept DEF IInv, SuccessAsks
<1>2. call[c].pc # "done" /\ ReturnAsIs(c, "pending")
  BY DEF SuccessAsks, At
<1> QED
  BY <1>1, <1>2, ReturnAsIsKeeps, ErrorNames

\* The call ends with its afterCompletion hooks.
LEMMA CompletionRecordKeeps ==
  ASSUME IInv, NEW c \in Calls, StoresKept(c), rows'[c] = rows[c], call[c].pc # "done",
         Become(c, [call[c] EXCEPT !.pc = "defer", !.hooks = @ \cup {"afterCompletion"}])
  PROVE  IInv'
<1> DEFINE r == [call[c] EXCEPT !.pc = "defer", !.hooks = @ \cup {"afterCompletion"}]
<1>1. call[c] \in CallType /\ "defer" \in Stages
  BY DEF IInv, TypeOK, Stages
<1>2. call[c].hooks \cup {"afterCompletion"} \in SUBSET HookKinds
  BY <1>1 DEF CallType, HookKinds
<1>3. r \in CallType
  BY <1>1, <1>2, SetPc, SetHooks
<1>4. r.pc = "defer" /\ r.stored = call[c].stored
  BY <1>1 DEF CallType
<1>5. Become(c, r)
  OBVIOUS
<1> HIDE DEF r
<1> QED
  BY <1>3, <1>4, <1>5, DeferKeeps

LEMMA CallbacksOverKeeps ==
  ASSUME IInv, NEW c \in Calls, CallbacksOver(c)
  PROVE  IInv'
<1>1. StoresKept(c) /\ rows'[c] = rows[c]
  BY UnchangedKept DEF IInv, CallbacksOver
<1>2. call[c].pc # "done"
  BY DEF CallbacksOver, SkipEnds, At
<1>3. CASE SkipEnds(c) \/ (At(c, "onPending") /\ ReturnAsIs(c, "none"))
  <2>1. \E e \in Errors : ReturnAsIs(c, e)
    BY <1>3, ErrorNames DEF SkipEnds, OnErrorOutcomes
  <2> QED
    BY <1>1, <1>2, <2>1, ReturnAsIsKeeps
<1>4. CASE At(c, "onSuccess") /\ Goto(c, "completion")
  <2>1. "completion" \in Stages /\ "completion" \notin BeforeRecord \cup AfterFulfil
    BY DEF Stages, Closing, BeforeRecord, AfterFulfil, Gates, Consents, Operating
  <2> QED
    BY <1>1, <1>2, <1>4, <2>1, GotoKeeps
<1>5. CASE Become(c, [call[c] EXCEPT !.pc = "defer", !.hooks = @ \cup {"afterCompletion"}])
  BY <1>1, <1>2, <1>5, CompletionRecordKeeps
<1> QED
  BY <1>3, <1>4, <1>5 DEF CallbacksOver

LEMMA CompletionKeeps ==
  ASSUME IInv, NEW c \in Calls, Completion(c)
  PROVE  IInv'
<1>1. StoresKept(c) /\ rows'[c] = rows[c]
  BY UnchangedKept DEF IInv, Completion
<1>2. call[c].pc # "done"
  BY DEF Completion, At
<1> QED
  BY <1>1, <1>2, CompletionRecordKeeps DEF Completion

LEMMA DeferredKeeps ==
  ASSUME IInv, NEW c \in Calls, Deferred(c)
  PROVE  IInv'
<1> DEFINE r == [call[c] EXCEPT !.pc = "done"]
<1>1. call[c] \in CallType /\ "done" \in Stages /\ call[c].status \in Statuses
  BY DEF IInv, TypeOK, Stages, CallType
<1>2. r \in CallType
  BY <1>1, SetPc
<1>3. r.pc = "done" /\ "done" \notin BeforeRecord \cup AfterFulfil
  BY <1>1 DEF CallType, BeforeRecord, AfterFulfil, Gates, Consents, Operating
<1>4. Become(c, r)
  BY DEF Deferred, Goto
<1>5. CASE call[c].stored \/ UNCHANGED rows
  <2>1. UNCHANGED stores
    BY <1>5 DEF Deferred, stores
  <2>2. StoresKept(c) /\ Len(rows'[c]) <= 1
    BY <2>1, UnchangedKept DEF IInv, CallInv
  <2> HIDE DEF r
  <2> QED
    BY <1>2, <1>3, <1>4, <2>2, Advance
<1>6. CASE ~call[c].stored /\ Record(c, call[c].status)
  <2>1. rows[c] = <<>>
    BY <1>6 DEF Deferred, At, IInv, CallInv
  <2>2. StoresKept(c) /\ Len(rows'[c]) <= 1
    BY <1>1, <1>6, <2>1, RecordKept DEF IInv, Deferred
  <2> HIDE DEF r
  <2> QED
    BY <1>2, <1>3, <1>4, <2>2, Advance
<1> QED
  BY <1>5, <1>6 DEF Deferred

LEMMA CloseKeeps ==
  ASSUME IInv, NEW c \in Calls, Close(c)
  PROVE  IInv'
  BY AfterSuccessKeeps, RecordSuccessKeeps, RecordFailureKeeps, CallbackKeeps,
     SuccessAsksKeeps, CallbacksOverKeeps, CompletionKeeps, DeferredKeeps DEF Close

LEMMA CreateCheckpointKeeps ==
  ASSUME IInv, NEW c \in Calls, CreateCheckpoint(c)
  PROVE  IInv'
<1> DEFINE r == [call[c] EXCEPT !.asked = "nothing"]
<1>1. call[c] \in CallType /\ call[c].pc = "done"
  BY DEF IInv, TypeOK, CreateCheckpoint, At
<1>2. r \in CallType
  BY <1>1, ErrorNames, SetAsked
<1>3. r.pc = "done" /\ "done" \notin BeforeRecord \cup AfterFulfil
  BY <1>1 DEF CallType, BeforeRecord, AfterFulfil, Gates, Consents, Operating
<1>4. StoresKept(c) /\ Len(rows'[c]) <= 1
  BY DEF IInv, TypeOK, CallInv, CreateCheckpoint, StoresKept, Checkpoint
<1>5. Become(c, r)
  BY DEF CreateCheckpoint
<1> HIDE DEF r
<1> QED
  BY <1>2, <1>3, <1>4, <1>5, Advance

LEMMA EnvironmentKeeps ==
  ASSUME IInv, Environment
  PROVE  IInv'
<1>1. CASE \E c \in Calls : CreateCheckpoint(c)
  BY <1>1, CreateCheckpointKeeps
<1>2. CASE Grant
  <2>1. TypeOK'
    BY <1>2 DEF IInv, TypeOK, Grant, Checkpoint
  <2> QED
    BY <1>2, <2>1 DEF IInv, CallInv, Grant
<1>3. CASE ConfirmationExpires
  <2>1. confirms' \subseteq Confirmation
    BY <1>3 DEF IInv, TypeOK, ConfirmationExpires, Confirmation
  <2>2. TypeOK'
    BY <1>3, <2>1 DEF IInv, TypeOK, ConfirmationExpires
  <2> QED
    BY <1>3, <2>2 DEF IInv, CallInv, ConfirmationExpires
<1>4. CASE CacheExpires
  <2>1. TypeOK'
    BY <1>4 DEF IInv, TypeOK, CacheExpires
  <2> QED
    BY <1>4, <2>1 DEF IInv, CallInv, CacheExpires
<1> QED
  BY <1>1, <1>2, <1>3, <1>4 DEF Environment

-----------------------------------------------------------------------------
(* The invariant, and the theorems.                                        *)

LEMMA InitIInv ==
  ASSUME Init
  PROVE  IInv
<1>1. NewCall \in CallType
  BY DEF NewCall, CallType, Stages, Statuses, Questions, Errors, HookKinds
<1>2. NoCheckpoint \in Checkpoint /\ <<>> \in Seq(Row)
  BY DEF NoCheckpoint, Checkpoint
<1>3. TypeOK
  BY <1>1, <1>2 DEF Init, TypeOK
<1>4. ASSUME NEW c \in Calls
      PROVE  CallInv(c)
  <2>1. call[c].pc = "idle" /\ ~call[c].stored /\ rows[c] = <<>>
    BY DEF Init, NewCall
  <2>2. "idle" \notin AfterFulfil
    BY DEF AfterFulfil, Consents, Operating
  <2> QED
    BY <2>1, <2>2 DEF CallInv
<1> QED
  BY <1>3, <1>4 DEF IInv

LEMMA NextIInv ==
  ASSUME IInv, [Next]_vars
  PROVE  IInv'
<1>1. CASE AllDone \/ UNCHANGED vars
  BY <1>1 DEF AllDone, vars, IInv, TypeOK, CallInv
<1>2. CASE Environment
  BY <1>2, EnvironmentKeeps
<1>3. ASSUME NEW c \in Calls, Begin(c) \/ Step(c)
      PROVE  IInv'
  BY <1>3, BeginKeeps, GateKeeps, ConsentKeeps, OperateKeeps, CloseKeeps DEF Step
<1> QED
  BY <1>1, <1>2, <1>3 DEF Next

LEMMA SpecIInv == Spec => []IInv
  BY InitIInv, NextIInv, PTL DEF Spec

\* The state of a call, the records, the cache and the consents keep their
\* types: no handler of Call leaves the stages and statuses it knows.
THEOREM TypeCorrect == Spec => []TypeOK
<1>1. IInv => TypeOK
  BY DEF IInv
<1> QED
  BY <1>1, SpecIInv, PTL

\* However a call ends, and whatever fails, the deferred function and the
\* records written before callbacks leave at most one execution record.
THEOREM AtMostOneRecord == Spec => []RecordedAtMostOnce
<1>1. IInv => RecordedAtMostOnce
  BY DEF IInv, CallInv, RecordedAtMostOnce
<1> QED
  BY <1>1, SpecIInv, PTL

-----------------------------------------------------------------------------

\* Stages before the operation, on the way to success, after an output.
Fresh == {"idle", "start"} \cup Gates \cup Consents
Working == {"store", "reRun", "afterSuccess", "recordSuccess", "onSuccess", "completion"}
Steady == Fresh \cup {"execute"} \cup Working
\* Stages that only a confirmed (an approved) call reaches.
Confirmed == Operating
Granted == {"useGrant", "confirm", "ask", "extract", "useConsent"} \cup Operating

Waits(q) == q.pc \in {"onPending", "defer", "done"} /\ q.runs = 0
Wrote(q) ==
  /\ q.pc \in (Working \ {"store"}) \cup {"defer", "done"}
  /\ q.status = "complete" /\ q.worked

\* A call with state q and records w.
Local(q, w) ==
  /\ q.pc \in Fresh => q.runs = 0
  /\ q.pc \in Steady => q.status = "complete"
  /\ q.pc \in Working => q.worked
  /\ ~DbFails =>
       /\ q.stored /\ w = <<>> =>
            q.pc \in {"defer", "done"} /\ fn.onFailure = 0 /\ q.status = "failed" /\ q.runs = 0
       /\ q.pc = "done" => q.stored \/ w # <<>>
       /\ q.pc = "onSuccess" => w # <<>> /\ w[1].status = "complete"
       /\ q.pc = "onFailure" => w # <<>> /\ w[1].status = "failed"
  /\ q.asked = "approval" => Waits(q)
  /\ q.pc \in {"extract", "useConsent"} => q.state # NoCall
  /\ fn.confirm /\ (q.pc \in Confirmed \/ q.runs > 0) => q.consent # NoCall
  /\ fn.approval = "manual" /\ ~DbFails /\ (q.pc \in Granted \/ q.runs > 0) => q.grant # NoCall

Links(q) == \A x \in {q.state, q.consent, q.grant} : x # NoCall => Waits(call[x])

Shared ==
  /\ \A s \in confirms : Waits(call[s.by])
  /\ checkpoint.by # NoCall => Waits(call[checkpoint.by])
  /\ checkpoint.granted => checkpoint.by # NoCall
  /\ fn.reRun = "none" => \A k \in DOMAIN cache : cache[k] # NoCall => Wrote(call[cache[k]])

JInv == (\A c \in Calls : Local(call[c], rows[c]) /\ Links(call[c])) /\ Shared

-----------------------------------------------------------------------------
(* How a step of one call keeps the invariant.                             *)

\* Call c becomes r, whatever it does to the stores.
LEMMA Onward ==
  ASSUME IInv, JInv, NEW c \in Calls, NEW r \in CallType, Become(c, r), UNCHANGED fn,
         \A d \in Calls \ {c} : rows'[d] = rows[d],
         Local(r, rows'[c]),
         Waits(call[c]) => Waits(r),
         fn.reRun = "none" /\ Wrote(call[c]) => Wrote(r),
         \A x \in {r.state, r.consent, r.grant} :
           x = NoCall \/ x \in {call[c].state, call[c].consent, call[c].grant} \/ Waits(call[x]),
         \A s \in confirms' : (\E t \in confirms : t.by = s.by) \/ (s.by = c /\ Waits(r)),
         \/ checkpoint'.by = NoCall \/ checkpoint'.by = checkpoint.by
         \/ checkpoint'.by = c /\ Waits(r),
         checkpoint'.granted => checkpoint'.by # NoCall,
         \A k \in DOMAIN cache' :
           \/ cache'[k] = NoCall \/ (k \in DOMAIN cache /\ cache'[k] = cache[k])
           \/ cache'[k] = c /\ Wrote(r)
  PROVE  JInv'
<1>1. /\ call'[c] = r /\ \A d \in Calls \ {c} : call'[d] = call[d]
      /\ \A d \in Calls : call[d] \in CallType
  BY DEF IInv, TypeOK, Become
<1>2. \A d \in Calls : Waits(call[d]) => Waits(call'[d])
  BY <1>1
<1>3. fn.reRun = "none" => \A d \in Calls : Wrote(call[d]) => Wrote(call'[d])
  BY <1>1
<1>4. \A d \in Calls : Local(call[d], rows[d])' <=> Local(call'[d], rows'[d])
  BY DEF Local, DbFails
<1>5. \A d \in Calls : Local(call[d], rows[d])'
  BY <1>1, <1>4 DEF JInv
<1>6. \A d \in Calls : {call[d].state, call[d].consent, call[d].grant} \subseteq Calls \cup {NoCall}
  BY <1>1 DEF CallType
<1>7. {r.state, r.consent, r.grant} \subseteq Calls \cup {NoCall}
  BY DEF CallType
<1>8. ASSUME NEW d \in Calls PROVE Links(call[d])'
  <2> SUFFICES ASSUME NEW x \in {call'[d].state, call'[d].consent, call'[d].grant}, x # NoCall
               PROVE  Waits(call'[x])
    BY DEF Links, Waits
  <2>1. CASE d # c
    <3>1. x \in Calls /\ Waits(call[x])
      BY <1>1, <1>6, <2>1 DEF JInv, Links
    <3> QED
      BY <1>2, <3>1
  <2>2. CASE d = c
    <3>1. x \in Calls /\ x \in {r.state, r.consent, r.grant}
      BY <1>1, <1>7, <2>2
    <3>2. Waits(call[x])
      BY <3>1 DEF JInv, Links
    <3> QED
      BY <1>2, <3>1, <3>2
  <2> QED
    BY <2>1, <2>2
<1>9. Shared'
  <2>1. ASSUME NEW s \in confirms' PROVE Waits(call'[s.by])
    <3>1. CASE \E t \in confirms : t.by = s.by
      <4>1. PICK t \in confirms : t.by = s.by
        BY <3>1
      <4>2. s.by \in Calls /\ Waits(call[s.by])
        BY <4>1 DEF IInv, TypeOK, Confirmation, JInv, Shared
      <4> QED
        BY <1>2, <4>2
    <3>2. CASE s.by = c /\ Waits(r)
      BY <1>1, <3>2
    <3> QED
      BY <3>1, <3>2
  <2>2. checkpoint'.by # NoCall => Waits(call'[checkpoint'.by])
    <3>1. checkpoint.by # NoCall => checkpoint.by \in Calls /\ Waits(call[checkpoint.by])
      BY DEF IInv, TypeOK, Checkpoint, JInv, Shared
    <3> QED
      BY <1>1, <1>2, <3>1
  <2>3. ASSUME fn.reRun = "none", NEW k \in DOMAIN cache', cache'[k] # NoCall PROVE Wrote(call'[cache'[k]])
    <3>1. CASE k \in DOMAIN cache /\ cache'[k] = cache[k]
      <4>1. cache[k] \in Calls /\ Wrote(call[cache[k]])
        BY <2>3, <3>1 DEF IInv, TypeOK, JInv, Shared
      <4> QED
        BY <1>3, <2>3, <3>1, <4>1
    <3>2. CASE cache'[k] = c /\ Wrote(r)
      BY <1>1, <3>2
    <3> QED
      BY <2>3, <3>1, <3>2
  <2> QED
    BY <2>1, <2>2, <2>3 DEF Shared, Waits, Wrote
<1> QED
  BY <1>5, <1>8, <1>9 DEF JInv

\* The stores stay as they are, and so do the consents the call has.
LEMMA Quietly ==
  ASSUME IInv, JInv, NEW c \in Calls, NEW r \in CallType, Become(c, r), UNCHANGED stores,
         Local(r, rows[c]),
         Waits(call[c]) => Waits(r),
         fn.reRun = "none" /\ Wrote(call[c]) => Wrote(r),
         r.state = call[c].state, r.consent = call[c].consent, r.grant = call[c].grant
  PROVE  JInv'
<1>1. UNCHANGED <<fn, rows, cache, confirms, checkpoint>>
  BY DEF stores
<1>2. checkpoint'.granted => checkpoint'.by # NoCall
  BY <1>1 DEF JInv, Shared
<1>3. /\ \A s \in confirms' : \E t \in confirms : t.by = s.by
      /\ \A k \in DOMAIN cache' : k \in DOMAIN cache /\ cache'[k] = cache[k]
      /\ checkpoint'.by = checkpoint.by /\ rows'[c] = rows[c]
  BY <1>1
<1> QED
  BY <1>1, <1>2, <1>3, Onward

-----------------------------------------------------------------------------
(* The ways a stage ends.                                                  *)

LEMMA OfCall ==
  ASSUME IInv, JInv, NEW c \in Calls
  PROVE  call[c] \in CallType /\ Local(call[c], rows[c]) /\ fn.onPending \in Nat
  BY FnTyped DEF IInv, TypeOK, JInv

\* Before the call returns.
Underway == Fresh \cup {"execute"} \cup Working \cup {"recordFailure", "onFailure", "onSkip", "onPending"}

\* To a stage no further on, or the next one.
LEMMA GotoFacts ==
  ASSUME IInv, JInv, NEW c \in Calls, NEW p \in Stages, Goto(c, p),
         call[c].pc \in Steady, p \in Steady \ {"onSuccess"},
         p \in Fresh => call[c].pc \in Fresh,
         p \in Working => call[c].pc \in Working,
         call[c].pc \in Working \ {"store"} => p \in Working \ {"store"},
         p \in {"extract", "useConsent"} => call[c].pc \in {"extract", "useConsent"},
         p \in Confirmed => call[c].pc \in Confirmed \/ ~fn.confirm,
         p \in Granted => call[c].pc \in Granted \/ fn.approval # "manual" \/ DbFails
  PROVE  \E r \in CallType :
           /\ Become(c, r) /\ Local(r, rows[c]) /\ ~Waits(call[c]) /\ (Wrote(call[c]) => Wrote(r))
           /\ r.state = call[c].state /\ r.consent = call[c].consent /\ r.grant = call[c].grant
           /\ r.pc = p /\ r.status = call[c].status /\ r.worked = call[c].worked
<1>1. PICK r : r = [call[c] EXCEPT !.pc = p]
  OBVIOUS
<1>2. call[c] \in CallType /\ Local(call[c], rows[c]) /\ Become(c, r)
  BY <1>1, OfCall DEF Goto
<1>3. r \in CallType
  BY <1>1, <1>2, SetPc
<1>4. /\ r.pc = p /\ r.status = call[c].status /\ r.stored = call[c].stored /\ r.asked = call[c].asked
      /\ r.state = call[c].state /\ r.consent = call[c].consent /\ r.grant = call[c].grant
      /\ r.runs = call[c].runs /\ r.worked = call[c].worked
  BY <1>1, <1>2 DEF CallType
<1>5. call[c].pc \notin {"defer", "done", "onPending", "onFailure"} /\ p \notin {"defer", "done", "onPending", "onFailure"}
  BY DEF Steady, Fresh, Working, Gates, Consents
<1>6. Local(r, rows[c])
  BY <1>2, <1>4, <1>5 DEF Local, Waits
<1>7. ~Waits(call[c]) /\ (Wrote(call[c]) => Wrote(r))
  BY <1>4, <1>5 DEF Waits, Wrote
<1> QED
  BY <1>2, <1>3, <1>4, <1>6, <1>7

LEMMA GotoOn ==
  ASSUME IInv, JInv, NEW c \in Calls, NEW p \in Stages, Goto(c, p), UNCHANGED stores,
         call[c].pc \in Steady, p \in Steady \ {"extract", "useConsent", "onSuccess"},
         p \in Fresh => call[c].pc \in Fresh,
         p \in Working => call[c].pc \in Working,
         call[c].pc \in Working \ {"store"} => p \in Working \ {"store"},
         p \in Confirmed => call[c].pc \in Confirmed \/ ~fn.confirm,
         p \in Granted => call[c].pc \in Granted \/ fn.approval # "manual" \/ DbFails
  PROVE  JInv'
  BY GotoFacts, Quietly

LEMMA ReturnOn ==
  ASSUME IInv, JInv, NEW c \in Calls, NEW s \in Statuses, NEW e \in Errors, Return(c, s, e), UNCHANGED stores,
         call[c].pc \in Underway, s = call[c].status \/ call[c].pc \notin Working
  PROVE  JInv'
<1>1. PICK r : r = [call[c] EXCEPT !.pc = "defer", !.status = s, !.ret = e]
  OBVIOUS
<1>2. call[c] \in CallType /\ Local(call[c], rows[c]) /\ Become(c, r) /\ "defer" \in Stages
  BY <1>1, OfCall DEF Return, Stages
<1>3. r \in CallType
  BY <1>1, <1>2, SetPc, SetStatus, SetRet
<1>4. /\ r.pc = "defer" /\ r.status = s /\ r.stored = call[c].stored /\ r.asked = call[c].asked
      /\ r.state = call[c].state /\ r.consent = call[c].consent /\ r.grant = call[c].grant
      /\ r.runs = call[c].runs /\ r.worked = call[c].worked
  BY <1>1, <1>2 DEF CallType
<1>5. /\ call[c].pc \notin {"defer", "done"}
      /\ "defer" \notin Steady \cup Confirmed \cup Granted
  BY DEF Underway, Steady, Fresh, Working, Gates, Consents, Confirmed, Granted, Operating
<1>6. Waits(call[c]) => Waits(r)
  BY <1>4 DEF Waits
<1>7. Local(r, rows[c])
  BY <1>2, <1>4, <1>5, <1>6 DEF Local, Steady
<1>8. Wrote(call[c]) => Wrote(r)
  BY <1>4, <1>5 DEF Wrote
<1> QED
  BY <1>2, <1>3, <1>4, <1>6, <1>7, <1>8, Quietly

LEMMA ReturnAsIsOn ==
  ASSUME IInv, JInv, NEW c \in Calls, NEW e \in Errors, ReturnAsIs(c, e), UNCHANGED stores,
         call[c].pc \in Underway
  PROVE  JInv'
<1>1. call[c].status \in Statuses
  BY OfCall DEF CallType
<1> QED
  BY <1>1, ReturnOn DEF ReturnAsIs

\* A call that asks for something has not run.
LEMMA PauseFacts ==
  ASSUME IInv, JInv, NEW c \in Calls, NEW w \in Questions, Pause(c, w), call[c].pc \in Fresh
  PROVE  \E r \in CallType :
           /\ Become(c, r) /\ Waits(r) /\ r.pc = "onPending" /\ Local(r, rows[c])
           /\ r.state = call[c].state /\ r.consent = call[c].consent /\ r.grant = call[c].grant
<1>1. PICK r : r = [call[c] EXCEPT !.pc = "onPending", !.status = "pending",
                                   !.todo = fn.onPending, !.asked = w]
  OBVIOUS
<1>2. call[c] \in CallType /\ Local(call[c], rows[c]) /\ Become(c, r) /\ fn.onPending \in Nat
      /\ "onPending" \in Stages /\ "pending" \in Statuses
  BY <1>1, OfCall DEF Pause, Stages, Closing, Statuses
<1>3. r \in CallType
  BY <1>1, <1>2, SetPc, SetStatus, SetTodo, SetAsked
<1>4. /\ r.pc = "onPending" /\ r.status = "pending" /\ r.stored = call[c].stored /\ r.asked = w
      /\ r.state = call[c].state /\ r.consent = call[c].consent /\ r.grant = call[c].grant
      /\ r.runs = call[c].runs /\ r.worked = call[c].worked
  BY <1>1, <1>2 DEF CallType
<1>5. call[c].pc \notin {"defer", "done"} /\ call[c].runs = 0
      /\ "onPending" \notin Steady \cup Confirmed \cup Granted
  BY <1>2 DEF Local, Steady, Fresh, Working, Gates, Consents, Confirmed, Granted, Operating
<1>6. Waits(r)
  BY <1>4, <1>5 DEF Waits
<1>7. Local(r, rows[c])
  BY <1>2, <1>4, <1>5, <1>6 DEF Local, Steady
<1> QED
  BY <1>2, <1>3, <1>4, <1>6, <1>7

LEMMA FreshStage ==
  ASSUME NEW p \in Fresh
  PROVE  p \in Underway /\ p \in Steady /\ p \notin Working /\ p \notin {"defer", "done", "onPending", "execute"}
  BY DEF Fresh, Underway, Steady, Working, Gates, Consents

LEMMA PauseOn ==
  ASSUME IInv, JInv, NEW c \in Calls, NEW w \in Questions, Pause(c, w), UNCHANGED stores, call[c].pc \in Fresh
  PROVE  JInv'
<1>1. ~Wrote(call[c])
  BY FreshStage DEF Wrote
<1> QED
  BY <1>1, PauseFacts, Quietly

LEMMA FailEarlyOn ==
  ASSUME IInv, JInv, NEW c \in Calls, FailEarly(c), UNCHANGED stores, call[c].pc \in Gates
  PROVE  JInv'
<1>1. /\ call[c] \in CallType /\ Local(call[c], rows[c])
      /\ call[c].pc \in Fresh /\ ~Wrote(call[c]) /\ ~Waits(call[c])
  BY OfCall, FreshStage DEF Fresh, Wrote, Waits
<1>2. /\ "defer" \in Stages /\ "recordFailure" \in Stages
      /\ "failed" \in Statuses /\ "afterCompletion" \in HookKinds
  BY DEF Stages, Closing, Statuses, HookKinds
<1>3. {"defer", "recordFailure"} \cap (Steady \cup Confirmed \cup Granted) = {}
  BY DEF Steady, Fresh, Working, Gates, Consents, Confirmed, Granted, Operating
<1>4. CASE fn.onFailure = 0
  <2>1. PICK r : r = [call[c] EXCEPT !.pc = "defer", !.status = "failed", !.stored = TRUE,
                                     !.hooks = @ \cup {"afterCompletion"}]
    OBVIOUS
  <2>2. Become(c, r)
    BY <1>4, <2>1 DEF FailEarly
  <2>3. call[c].hooks \cup {"afterCompletion"} \in SUBSET HookKinds
    BY <1>1, <1>2, AddHook
  <2>4. r \in CallType
    BY <1>1, <1>2, <2>1, <2>3, SetPc, SetStatus, SetStored, SetHooks DEF CallType
  <2>5. /\ r.pc = "defer" /\ r.status = "failed" /\ r.asked = call[c].asked
        /\ r.state = call[c].state /\ r.consent = call[c].consent /\ r.grant = call[c].grant
        /\ r.runs = call[c].runs /\ r.worked = call[c].worked
    BY <1>1, <2>1 DEF CallType
  <2>6. Local(r, rows[c])
    BY <1>1, <1>3, <1>4, <2>5 DEF Local, Steady, Waits
  <2> QED
    BY <1>1, <2>2, <2>4, <2>5, <2>6, Quietly
<1>5. CASE fn.onFailure # 0
  <2>1. PICK r : r = [call[c] EXCEPT !.pc = "recordFailure", !.status = "failed"]
    OBVIOUS
  <2>2. Become(c, r)
    BY <1>5, <2>1 DEF FailEarly
  <2>3. r \in CallType
    BY <1>1, <1>2, <2>1, SetPc, SetStatus
  <2>4. /\ r.pc = "recordFailure" /\ r.status = "failed" /\ r.asked = call[c].asked /\ r.stored = call[c].stored
        /\ r.state = call[c].state /\ r.consent = call[c].consent /\ r.grant = call[c].grant
        /\ r.runs = call[c].runs /\ r.worked = call[c].worked
    BY <1>1, <2>1 DEF CallType
  <2>5. call[c].pc \notin {"defer", "done"}
    BY <1>1, FreshStage
  <2>6. Local(r, rows[c])
    BY <1>1, <1>3, <2>4, <2>5 DEF Local, Steady, Waits
  <2> QED
    BY <1>1, <2>2, <2>3, <2>4, <2>6, Quietly
<1> QED
  BY <1>4, <1>5

-----------------------------------------------------------------------------
(* One lemma per action.                                                   *)

LEMMA GateStage ==
  ASSUME NEW p \in Gates
  PROVE  p \in Fresh /\ p \in Underway /\ p \in Steady /\ p \notin Working /\ p \notin Granted /\ p \notin Confirmed
         /\ p \notin {"extract", "useConsent", "onSuccess"} /\ p \in Stages
  BY DEF Gates, Fresh, Underway, Steady, Working, Granted, Confirmed, Operating, Stages

LEMMA BeginOn ==
  ASSUME IInv, JInv, NEW c \in Calls, Begin(c)
  PROVE  JInv'
<1>1. call[c].pc \in Fresh /\ UNCHANGED stores
  BY DEF Begin, At, Fresh
<1>2. "earlyCache" \in Gates
  BY DEF Gates
<1>3. Goto(c, "earlyCache") \/ ReturnAsIs(c, "error") \/ Return(c, "skipped", "none")
  BY DEF Begin
<1>4. CASE Goto(c, "earlyCache")
  BY <1>1, <1>2, <1>4, FreshStage, GateStage, GotoOn
<1>5. CASE ReturnAsIs(c, "error") \/ Return(c, "skipped", "none")
  BY <1>1, <1>5, FreshStage, ReturnAsIsOn, ReturnOn, ErrorNames
<1> QED
  BY <1>3, <1>4, <1>5

\* From one gate to the next.
LEMMA NextGate ==
  ASSUME IInv, JInv, NEW c \in Calls, NEW p \in Gates, Goto(c, p), UNCHANGED stores, call[c].pc \in Gates
  PROVE  JInv'
  BY GateStage, GotoOn

\* A gate that does not let the call pass.
LEMMA GateCloses ==
  ASSUME IInv, JInv, NEW c \in Calls, UNCHANGED stores, call[c].pc \in Gates,
         \/ FailEarly(c) \/ \E e \in Errors : ReturnAsIs(c, e)
         \/ \E w \in Questions : Pause(c, w)
         \/ \E s \in Statuses, e \in Errors : Return(c, s, e)
  PROVE  JInv'
  BY GateStage, FailEarlyOn, ReturnAsIsOn, ReturnOn, PauseOn

LEMMA ReturnCachedOn ==
  ASSUME IInv, JInv, NEW c \in Calls, ReturnCached(c), UNCHANGED stores, call[c].pc \in Gates
  PROVE  JInv'
<1>1. PICK r : r = [call[c] EXCEPT !.pc = "defer", !.worked = TRUE]
  OBVIOUS
<1>2. /\ call[c] \in CallType /\ Local(call[c], rows[c]) /\ Become(c, r) /\ "defer" \in Stages
  BY <1>1, OfCall DEF ReturnCached, Stages
<1>3. r \in CallType
  BY <1>1, <1>2, SetPc, SetWorked
<1>4. /\ r.pc = "defer" /\ r.status = call[c].status /\ r.stored = call[c].stored /\ r.asked = call[c].asked
      /\ r.state = call[c].state /\ r.consent = call[c].consent /\ r.grant = call[c].grant
      /\ r.runs = call[c].runs
  BY <1>1, <1>2 DEF CallType
<1>5. call[c].pc \in Fresh /\ call[c].pc \notin {"defer", "done", "onPending"} \cup Working
      /\ "defer" \notin Steady \cup Confirmed \cup Granted
  BY GateStage, FreshStage DEF Steady, Fresh, Working, Gates, Consents, Confirmed, Granted, Operating
<1>6. Local(r, rows[c])
  BY <1>2, <1>4, <1>5 DEF Local, Steady, Waits
<1>7. ~Waits(call[c]) /\ ~Wrote(call[c])
  BY <1>5 DEF Waits, Wrote
<1> QED
  BY <1>2, <1>3, <1>4, <1>6, <1>7, Quietly

LEMMA RunOnlyIfOn ==
  ASSUME IInv, JInv, NEW c \in Calls, RunOnlyIf(c)
  PROVE  JInv'
<1>1. UNCHANGED stores /\ call[c].pc \in Gates
  BY DEF RunOnlyIf, At, Gates
<1>2. "onceRule" \in Gates /\ OnErrorOutcomes(TRUE) \subseteq Errors
  BY DEF Gates, OnErrorOutcomes, Errors
<1>3. \/ Goto(c, "onceRule") \/ FailEarly(c) \/ \E e \in Errors : ReturnAsIs(c, e)
      \/ Become(c, [call[c] EXCEPT !.pc = "onSkip", !.status = "skipped", !.todo = fn.onSkip])
  BY <1>2, ErrorNames DEF RunOnlyIf
<1>4. CASE Become(c, [call[c] EXCEPT !.pc = "onSkip", !.status = "skipped", !.todo = fn.onSkip])
  <2>1. PICK r : r = [call[c] EXCEPT !.pc = "onSkip", !.status = "skipped", !.todo = fn.onSkip]
    OBVIOUS
  <2>2. /\ call[c] \in CallType /\ Local(call[c], rows[c]) /\ Become(c, r) /\ "onSkip" \in Stages
        /\ fn.onSkip \in Nat
    BY <1>4, <2>1, OfCall, FnTyped DEF Stages, Closing, IInv
  <2>3. r \in CallType
    BY <2>1, <2>2, ErrorNames, SetPc, SetStatus, SetTodo
  <2>4. /\ r.pc = "onSkip" /\ r.stored = call[c].stored /\ r.asked = call[c].asked
        /\ r.state = call[c].state /\ r.consent = call[c].consent /\ r.grant = call[c].grant
        /\ r.runs = call[c].runs
    BY <2>1, <2>2 DEF CallType
  <2>5. call[c].pc \in Fresh /\ call[c].pc \notin {"defer", "done", "onPending"} \cup Working
        /\ "onSkip" \notin Steady \cup Confirmed \cup Granted
    BY <1>1, GateStage, FreshStage DEF Steady, Fresh, Working, Gates, Consents, Confirmed, Granted, Operating
  <2>6. Local(r, rows[c])
    BY <2>2, <2>4, <2>5 DEF Local, Steady, Waits
  <2>7. ~Waits(call[c]) /\ ~Wrote(call[c])
    BY <2>5 DEF Waits, Wrote
  <2> QED
    BY <1>1, <2>2, <2>3, <2>4, <2>6, <2>7, Quietly
<1> QED
  BY <1>1, <1>2, <1>3, <1>4, NextGate, GateCloses

\* A field that the invariant does not mention is set at a gate.
LEMMA GateSets ==
  ASSUME IInv, JInv, NEW c \in Calls, NEW p \in Gates, NEW x \in Inputs, NEW h \in Inputs \cup {NoInput},
         Become(c, [call[c] EXCEPT !.pc = p, !.input = x, !.hash = h]),
         UNCHANGED stores, call[c].pc \in Gates
  PROVE  JInv'
<1>1. PICK r : r = [call[c] EXCEPT !.pc = p, !.input = x, !.hash = h]
  OBVIOUS
<1>2. /\ call[c] \in CallType /\ Local(call[c], rows[c]) /\ Become(c, r) /\ p \in Stages
  BY <1>1, OfCall, GateStage
<1>3. r \in CallType
  BY <1>1, <1>2, SetPc, SetInput, SetHash
<1>4. /\ r.pc = p /\ r.status = call[c].status /\ r.stored = call[c].stored /\ r.asked = call[c].asked
      /\ r.state = call[c].state /\ r.consent = call[c].consent /\ r.grant = call[c].grant
      /\ r.runs = call[c].runs
  BY <1>1, <1>2 DEF CallType
<1>5. /\ call[c].pc \in Fresh /\ call[c].pc \notin {"defer", "done", "onPending"} \cup Working
      /\ p \notin {"defer", "done", "onPending", "onSuccess", "onFailure", "extract", "useConsent"}
                  \cup Working \cup Confirmed \cup Granted
      /\ call[c].pc \in Steady
  BY GateStage, FreshStage DEF Gates
<1>6. Local(r, rows[c])
  BY <1>2, <1>4, <1>5 DEF Local, Waits
<1>7. ~Waits(call[c]) /\ ~Wrote(call[c])
  BY <1>5 DEF Waits, Wrote
<1> QED
  BY <1>2, <1>3, <1>4, <1>6, <1>7, Quietly

LEMMA FulfilOn ==
  ASSUME IInv, JInv, NEW c \in Calls, Fulfil(c)
  PROVE  JInv'
<1>1. UNCHANGED stores /\ call[c].pc \in Gates /\ "uniqueRule" \in Gates /\ call[c] \in CallType
  BY OfCall DEF Fulfil, At, Gates
<1>2. \/ \E x \in Inputs : Become(c, [call[c] EXCEPT !.pc = "uniqueRule", !.input = x])
      \/ Pause(c, "input") \/ ReturnAsIs(c, "error") \/ Return(c, "failed", "none")
  BY DEF Fulfil
<1>3. ASSUME NEW x \in Inputs, Become(c, [call[c] EXCEPT !.pc = "uniqueRule", !.input = x])
      PROVE  JInv'
  <2>1. call[c].hash \in Inputs \cup {NoInput}
        /\ [call[c] EXCEPT !.pc = "uniqueRule", !.input = x]
             = [call[c] EXCEPT !.pc = "uniqueRule", !.input = x, !.hash = call[c].hash]
    BY <1>1 DEF CallType
  <2> QED
    BY <1>1, <1>3, <2>1, GateSets
<1> QED
  BY <1>1, <1>2, <1>3, GateCloses, ErrorNames

\* Violating the rule is told by the output: the call ends with its status.
LEMMA UniqueRuleOn ==
  ASSUME IInv, JInv, NEW c \in Calls, UniqueRule(c)
  PROVE  JInv'
<1>1. UNCHANGED stores /\ call[c].pc \in Gates /\ "prepare" \in Gates
      /\ call[c].pc \in AfterFulfil /\ call[c].input \in Inputs /\ call[c] \in CallType
  BY OfCall DEF UniqueRule, At, Gates, AfterFulfil, IInv, CallInv
<1> DEFINE fails == [call[c] EXCEPT !.pc = "defer", !.status = "failed", !.hash = call[c].input]
           goes == [call[c] EXCEPT !.pc = "prepare", !.hash = call[c].input]
<1>2. \/ Goto(c, "prepare") \/ Return(c, "failed", "none")
      \/ Become(c, fails) \/ Become(c, goes)
  BY DEF UniqueRule
<1>3. CASE Become(c, fails)
  <2>1. PICK r : r = fails
    OBVIOUS
  <2>2. /\ Local(call[c], rows[c]) /\ Become(c, r) /\ "defer" \in Stages
    BY <1>3, <2>1, OfCall DEF Stages
  <2>3. r \in CallType
    BY <1>1, <2>1, <2>2, ErrorNames, SetPc, SetStatus, SetHash
  <2>4. /\ r.pc = "defer" /\ r.stored = call[c].stored /\ r.asked = call[c].asked
        /\ r.state = call[c].state /\ r.consent = call[c].consent /\ r.grant = call[c].grant
        /\ r.runs = call[c].runs
    BY <1>1, <2>1 DEF CallType
  <2>5. call[c].pc \in Fresh /\ call[c].pc \notin {"defer", "done", "onPending"} \cup Working
        /\ "defer" \notin Steady \cup Confirmed \cup Granted
    BY <1>1, GateStage, FreshStage DEF Steady, Fresh, Working, Gates, Consents, Confirmed, Granted, Operating
  <2>6. Local(r, rows[c])
    BY <2>2, <2>4, <2>5 DEF Local, Steady, Waits
  <2>7. ~Waits(call[c]) /\ ~Wrote(call[c])
    BY <2>5 DEF Waits, Wrote
  <2> QED
    BY <1>1, <2>2, <2>3, <2>4, <2>6, <2>7, Quietly
<1>4. CASE Become(c, goes)
  <2>1. goes = [call[c] EXCEPT !.pc = "prepare", !.input = call[c].input, !.hash = call[c].input]
    BY <1>1 DEF CallType
  <2> QED
    BY <1>1, <1>4, <2>1, GateSets
<1> QED
  BY <1>1, <1>2, <1>3, <1>4, NextGate, GateCloses, ErrorNames

LEMMA GateOn ==
  ASSUME IInv, JInv, NEW c \in Calls, Gate(c)
  PROVE  JInv'
<1>1. CASE EarlyCache(c)
  <2>1. UNCHANGED stores /\ call[c].pc \in Gates /\ "needs" \in Gates
        /\ (ReturnCached(c) \/ Goto(c, "needs"))
    BY <1>1 DEF EarlyCache, At, Gates
  <2> QED
    BY <2>1, NextGate, ReturnCachedOn
<1>2. CASE Needs(c)
  <2>1. UNCHANGED stores /\ call[c].pc \in Gates /\ "runOnlyIf" \in Gates
        /\ (Goto(c, "runOnlyIf") \/ FailEarly(c) \/ Return(c, "pending", "none"))
    BY <1>2 DEF Needs, At, Gates
  <2> QED
    BY <2>1, NextGate, GateCloses, ErrorNames
<1>3. CASE OnceRule(c)
  <2>1. UNCHANGED stores /\ call[c].pc \in Gates /\ "fulfil" \in Gates
        /\ (Goto(c, "fulfil") \/ Return(c, "failed", "none"))
    BY <1>3 DEF OnceRule, At, Gates
  <2> QED
    BY <2>1, NextGate, GateCloses, ErrorNames
<1>4. CASE Prepare(c)
  <2>1. UNCHANGED stores /\ call[c].pc \in Gates /\ "successInputs" \in Gates
        /\ (Goto(c, "successInputs") \/ ReturnAsIs(c, "error"))
    BY <1>4 DEF Prepare, At, Gates
  <2> QED
    BY <2>1, NextGate, GateCloses, ErrorNames
<1>5. CASE SuccessInputs(c)
  <2>1. UNCHANGED stores /\ call[c].pc \in Gates /\ "cacheLookup" \in Gates
        /\ (Goto(c, "cacheLookup") \/ Pause(c, "input"))
    BY <1>5 DEF SuccessInputs, At, Gates
  <2> QED
    BY <2>1, NextGate, GateCloses, ErrorNames
<1>6. CASE CacheLookup(c)
  <2>1. UNCHANGED stores /\ call[c].pc \in Gates /\ (ReturnCached(c) \/ Goto(c, "approval"))
    BY <1>6 DEF CacheLookup, At, Gates
  <2>2. "approval" \in Stages /\ "approval" \in Fresh /\ "approval" \notin Granted \cup Confirmed \cup Working
    BY DEF Stages, Fresh, Consents, Granted, Confirmed, Operating, Working
  <2> QED
    BY <2>1, <2>2, GateStage, FreshStage, GotoOn, ReturnCachedOn
<1> QED
  BY <1>1, <1>2, <1>3, <1>4, <1>5, <1>6, RunOnlyIfOn, FulfilOn, UniqueRuleOn DEF Gate

-----------------------------------------------------------------------------
(* Team approval and user confirmation.                                    *)

LEMMA ConsentStage ==
  ASSUME NEW p \in Consents
  PROVE  /\ p \in Fresh /\ p \in Underway /\ p \in Steady /\ p \notin Working /\ p \notin Confirmed
         /\ p \in Stages
         /\ p \notin {"defer", "done", "onPending", "onFailure", "onSuccess"}
         /\ p # "approval" => p \in Granted
  BY DEF Consents, Fresh, Underway, Steady, Working, Confirmed, Granted, Operating, Gates, Stages

\* A step of the consents that may change confirmations and the checkpoint.
LEMMA ConsentChanges ==
  ASSUME IInv, JInv, NEW c \in Calls, NEW r \in CallType, Become(c, r),
         UNCHANGED <<fn, rows, cache>>, call[c].pc \in Consents, Local(r, rows[c]),
         \A x \in {r.state, r.consent, r.grant} :
           x = NoCall \/ x \in {call[c].state, call[c].consent, call[c].grant} \/ Waits(call[x]),
         \A s \in confirms' : (\E t \in confirms : t.by = s.by) \/ (s.by = c /\ Waits(r)),
         checkpoint' \in {checkpoint, NoCheckpoint}
  PROVE  JInv'
<1>1. ~Waits(call[c]) /\ ~Wrote(call[c])
  BY ConsentStage DEF Waits, Wrote
<1>2. checkpoint'.granted => checkpoint'.by # NoCall
  BY DEF NoCheckpoint, JInv, Shared
<1>3. checkpoint'.by = NoCall \/ checkpoint'.by = checkpoint.by
  BY DEF NoCheckpoint
<1>4. /\ \A k \in DOMAIN cache' : k \in DOMAIN cache /\ cache'[k] = cache[k]
      /\ rows'[c] = rows[c] /\ (\A d \in Calls \ {c} : rows'[d] = rows[d]) /\ fn' = fn
  OBVIOUS
<1> QED
  BY <1>1, <1>2, <1>3, <1>4, Onward

LEMMA ApprovalOn ==
  ASSUME IInv, JInv, NEW c \in Calls, Approval(c)
  PROVE  JInv'
<1>1. /\ UNCHANGED stores /\ call[c].pc = "approval" /\ call[c].pc \in Consents /\ "confirm" \in Consents
      /\ call[c] \in CallType /\ Local(call[c], rows[c]) /\ "useGrant" \in Consents
      /\ {"approval", "nothing"} \subseteq Questions
  BY OfCall DEF Approval, At, Consents, Questions
<1>2. \/ /\ fn.approval # "manual" \/ DbFails
         /\ Goto(c, "confirm")
      \/ Return(c, "failed", "none")
      \/ checkpoint.granted /\ UsesCheckpoint(c)
      \/ Pause(c, "approval") \/ Pause(c, "nothing")
  BY DEF Approval
<1>3. CASE (fn.approval # "manual" \/ DbFails) /\ Goto(c, "confirm")
  BY <1>1, <1>3, ConsentStage, GotoOn
<1>4. CASE Return(c, "failed", "none")
  BY <1>1, <1>4, ConsentStage, ErrorNames, ReturnOn
<1>5. CASE Pause(c, "approval") \/ Pause(c, "nothing")
  BY <1>1, <1>5, ConsentStage, PauseOn
<1>6. CASE checkpoint.granted /\ UsesCheckpoint(c)
  <2>1. PICK r : r = [call[c] EXCEPT !.pc = "useGrant", !.grant = checkpoint.by]
    OBVIOUS
  <2>2. /\ Become(c, r) /\ checkpoint.by # NoCall /\ checkpoint.by \in Calls
        /\ Waits(call[checkpoint.by]) /\ "useGrant" \in Stages
    BY <1>1, <1>6, <2>1, ConsentStage DEF UsesCheckpoint, JInv, Shared, IInv, TypeOK, Checkpoint
  <2>3. r \in CallType
    BY <1>1, <2>1, <2>2, SetPc, SetGrant
  <2>4. /\ r.pc = "useGrant" /\ r.status = call[c].status /\ r.stored = call[c].stored
        /\ r.asked = call[c].asked /\ r.runs = call[c].runs
        /\ r.state = call[c].state /\ r.consent = call[c].consent /\ r.grant = checkpoint.by
    BY <1>1, <2>1 DEF CallType
  <2>5. Local(r, rows[c])
    BY <1>1, <2>2, <2>4, ConsentStage DEF Local, Waits
  <2>6. \A s \in confirms' : \E t \in confirms : t.by = s.by
    BY <1>1 DEF stores
  <2>7. UNCHANGED <<fn, rows, cache>> /\ checkpoint' \in {checkpoint, NoCheckpoint}
    BY <1>1 DEF stores
  <2> QED
    BY <1>1, <2>2, <2>3, <2>4, <2>5, <2>6, <2>7, ConsentChanges
<1> QED
  BY <1>2, <1>3, <1>4, <1>5, <1>6

\* From one of the later consents to a stage it leads to, or to a question.
LEMMA ConsentMoves ==
  ASSUME IInv, JInv, NEW c \in Calls, call[c].pc \in Consents \ {"approval"},
         UNCHANGED <<fn, rows, cache>>, checkpoint' \in {checkpoint, NoCheckpoint},
         \A s \in confirms' : \E t \in confirms : t.by = s.by,
         \/ Goto(c, "confirm") \/ Goto(c, "ask")
         \/ Goto(c, "start") /\ ~fn.confirm
         \/ Goto(c, "useConsent") /\ call[c].pc = "extract"
  PROVE  JInv'
<1>1. PICK p \in {"confirm", "ask", "start", "useConsent"} :
        /\ Goto(c, p)
        /\ p = "start" => ~fn.confirm
        /\ p = "useConsent" => call[c].pc = "extract"
  OBVIOUS
<1>2. p \in Stages /\ p \in Fresh /\ p \in Steady \ {"onSuccess"} /\ p \notin Working
      /\ (p \in Confirmed => p = "start")
  BY DEF Stages, Fresh, Steady, Working, Consents, Confirmed, Operating, Gates
<1>3. /\ call[c].pc \in Fresh /\ call[c].pc \in Steady /\ call[c].pc \notin Working
      /\ call[c].pc \in Granted
  BY ConsentStage
<1> QED
  BY <1>1, <1>2, <1>3, GotoFacts, ConsentChanges

LEMMA UseGrantOn ==
  ASSUME IInv, JInv, NEW c \in Calls, UseGrant(c)
  PROVE  JInv'
<1>1. /\ call[c].pc \in Consents \ {"approval"} /\ UNCHANGED <<fn, rows, cache>>
      /\ checkpoint' \in {checkpoint, NoCheckpoint} /\ confirms' = confirms /\ Goto(c, "confirm")
  BY DEF UseGrant, At, Consents
<1> QED
  BY <1>1, ConsentMoves

LEMMA ConfirmOn ==
  ASSUME IInv, JInv, NEW c \in Calls, Confirm(c)
  PROVE  JInv'
<1>1. /\ call[c].pc \in Consents \ {"approval"} /\ UNCHANGED <<fn, rows, cache>>
      /\ checkpoint' \in {checkpoint, NoCheckpoint}
      /\ call[c] \in CallType /\ Local(call[c], rows[c]) /\ call[c].pc = "confirm"
  BY OfCall DEF Confirm, At, Consents
<1>2. confirms' \subseteq confirms
  BY DEF Confirm
<1>3. CASE ~fn.confirm /\ Goto(c, "start")
  BY <1>1, <1>2, <1>3, ConsentMoves
<1>4. CASE Goto(c, "ask")
  BY <1>1, <1>2, <1>4, ConsentMoves
<1>5. CASE Return(c, "failed", "none") /\ UNCHANGED confirms
  <2>1. UNCHANGED stores
    BY <1>5 DEF Confirm, stores
  <2> QED
    BY <1>1, <1>5, <2>1, ConsentStage, ErrorNames, ReturnOn
<1>6. CASE \E s \in Matching(c) :
             Become(c, [call[c] EXCEPT !.state = s.by,
                                       !.pc = IF s.confirmed THEN "useConsent" ELSE "extract"])
  <2>1. PICK s \in confirms :
          Become(c, [call[c] EXCEPT !.state = s.by,
                                    !.pc = IF s.confirmed THEN "useConsent" ELSE "extract"])
    BY <1>6 DEF Matching, SameInputs
  <2>2. PICK p : p = IF s.confirmed THEN "useConsent" ELSE "extract"
    OBVIOUS
  <2>3. PICK r : r = [call[c] EXCEPT !.state = s.by, !.pc = p]
    OBVIOUS
  <2>4. /\ Become(c, r) /\ p \in Consents /\ p \in {"useConsent", "extract"} /\ s.by \in Calls
        /\ Waits(call[s.by]) /\ s.by # NoCall
    BY <2>1, <2>2, <2>3, ConstantsAssumption
    DEF Consents, JInv, Shared, IInv, TypeOK, Confirmation
  <2>5. r \in CallType
    BY <1>1, <2>3, <2>4, ConsentStage, SetPc, SetState
  <2>6. /\ r.pc = p /\ r.status = call[c].status /\ r.stored = call[c].stored
        /\ r.asked = call[c].asked /\ r.runs = call[c].runs
        /\ r.state = s.by /\ r.consent = call[c].consent /\ r.grant = call[c].grant
    BY <1>1, <2>3 DEF CallType
  <2>7. Local(r, rows[c])
    BY <1>1, <2>4, <2>6, ConsentStage DEF Local, Waits
  <2> QED
    BY <1>1, <1>2, <2>4, <2>5, <2>6, <2>7, ConsentChanges
<1> QED
  BY <1>3, <1>4, <1>5, <1>6 DEF Confirm

LEMMA AskOn ==
  ASSUME IInv, JInv, NEW c \in Calls, Ask(c)
  PROVE  JInv'
<1>1. /\ call[c].pc \in Consents /\ UNCHANGED <<fn, rows, cache>> /\ "confirmation" \in Questions
      /\ checkpoint' \in {checkpoint, NoCheckpoint}
  BY DEF Ask, At, Consents, Questions
<1>2. CASE /\ Pause(c, "confirmation")
           /\ \A s \in confirms' : s \in confirms \/ s.by = c
  BY <1>1, <1>2, ConsentStage, PauseFacts, ConsentChanges
<1>3. CASE Return(c, "failed", "none") /\ UNCHANGED confirms
  <2>1. UNCHANGED stores
    BY <1>3 DEF Ask, stores
  <2> QED
    BY <1>1, <1>3, <2>1, ConsentStage, ErrorNames, ReturnOn
<1> QED
  BY <1>2, <1>3 DEF Ask

LEMMA ExtractOn ==
  ASSUME IInv, JInv, NEW c \in Calls, Extract(c)
  PROVE  JInv'
<1>1. /\ call[c].pc = "extract" /\ call[c].pc \in Consents \ {"approval"}
      /\ UNCHANGED <<fn, rows, cache, checkpoint>> /\ "confirmation" \in Questions
  BY DEF Extract, At, Consents, Questions
<1>2. CASE Goto(c, "useConsent")
  <2>1. \A s \in confirms' : \E t \in confirms : t.by = s.by
    <3>1. confirms \subseteq Confirmation
      BY DEF IInv, TypeOK
    <3>2. \A s \in Confirmation : [s EXCEPT !.confirmed = TRUE].by = s.by
      BY DEF Confirmation
    <3>3. StatesBy(call[c].state) \subseteq confirms
      BY DEF StatesBy
    <3>4. \/ confirms' = (confirms \ StatesBy(call[c].state)) \cup
                            {[s EXCEPT !.confirmed = TRUE] : s \in StatesBy(call[c].state)}
          \/ confirms' = confirms
      BY DEF Extract
    <3> SUFFICES ASSUME NEW s \in confirms' PROVE \E t \in confirms : t.by = s.by
      OBVIOUS
    <3>5. CASE s \in confirms
      BY <3>5
    <3>6. CASE s \notin confirms
      <4>1. \E t \in StatesBy(call[c].state) : s = [t EXCEPT !.confirmed = TRUE]
        BY <3>4, <3>6
      <4>2. PICK t \in StatesBy(call[c].state) : s = [t EXCEPT !.confirmed = TRUE]
        BY <4>1
      <4>3. t \in confirms /\ t \in Confirmation
        BY <3>1, <3>3
      <4> QED
        BY <3>2, <4>2, <4>3
    <3> QED
      BY <3>5, <3>6
  <2> QED
    BY <1>1, <1>2, <2>1, ConsentMoves
<1>3. CASE UNCHANGED stores /\ (Pause(c, "confirmation") \/ Return(c, "failed", "none"))
  BY <1>1, <1>3, ConsentStage, ErrorNames, ReturnOn, PauseOn
<1> QED
  BY <1>2, <1>3 DEF Extract, stores

LEMMA UseConsentOn ==
  ASSUME IInv, JInv, NEW c \in Calls, UseConsent(c)
  PROVE  JInv'
<1>1. /\ call[c].pc = "useConsent" /\ call[c].pc \in Consents \ {"approval"}
      /\ UNCHANGED <<fn, rows, cache>> /\ checkpoint' \in {checkpoint, NoCheckpoint}
      /\ confirms' \subseteq confirms /\ call[c] \in CallType /\ Local(call[c], rows[c])
  BY OfCall DEF UseConsent, At, Consents
<1>2. PICK r : r = [call[c] EXCEPT !.pc = "start", !.consent = call[c].state]
  OBVIOUS
<1>3. /\ Become(c, r) /\ call[c].state \in Calls \cup {NoCall} /\ call[c].state # NoCall
      /\ "start" \in Stages
  BY <1>1, <1>2 DEF UseConsent, Local, CallType, Stages, Operating
<1>4. r \in CallType
  BY <1>1, <1>2, <1>3, SetPc, SetConsent
<1>5. /\ r.pc = "start" /\ r.status = call[c].status /\ r.stored = call[c].stored
      /\ r.asked = call[c].asked /\ r.runs = call[c].runs
      /\ r.state = call[c].state /\ r.consent = call[c].state /\ r.grant = call[c].grant
  BY <1>1, <1>2 DEF CallType
<1>6. "start" \in Fresh /\ "start" \notin Working /\ call[c].pc \in Fresh
  BY <1>1, ConsentStage DEF Fresh, Working
<1>7. Local(r, rows[c])
  BY <1>1, <1>3, <1>5, <1>6, ConsentStage DEF Local, Waits
<1> QED
  BY <1>1, <1>3, <1>4, <1>5, <1>7, ConsentChanges

LEMMA ConsentOn ==
  ASSUME IInv, JInv, NEW c \in Calls, Consent(c)
  PROVE  JInv'
  BY ApprovalOn, UseGrantOn, ConfirmOn, AskOn, ExtractOn, UseConsentOn DEF Consent

-----------------------------------------------------------------------------
(* The operation.                                                          *)

LEMMA StartOn ==
  ASSUME IInv, JInv, NEW c \in Calls, Start(c)
  PROVE  JInv'
<1>1. /\ UNCHANGED stores /\ call[c].pc = "start" /\ "execute" \in Stages
      /\ (Goto(c, "execute") \/ ReturnAsIs(c, "error"))
  BY DEF Start, At, Stages, Operating
<1>2. /\ "start" \in Fresh \cap Steady \cap Confirmed \cap Granted \cap Underway /\ "start" \notin Working
      /\ "execute" \in Steady \cap Confirmed \cap Granted
      /\ "execute" \notin Fresh \cup Working \cup {"extract", "useConsent", "onSuccess"}
  BY DEF Fresh, Steady, Confirmed, Granted, Underway, Working, Operating, Gates, Consents
<1> QED
  BY <1>1, <1>2, GotoOn, ReturnAsIsOn, ErrorNames

\* What the operation may lead to.
LEMMA RunOn ==
  ASSUME IInv, JInv, NEW c \in Calls, NEW r \in CallType, Become(c, r), UNCHANGED stores,
         call[c].pc = "execute", r.runs = call[c].runs + 1,
         r.pc \in {"store", "execute", "onPending", "defer", "recordFailure"},
         r.pc \in {"store", "execute"} => r.status = call[c].status,
         r.pc = "store" => r.worked,
         r.asked \in {call[c].asked, "output"}, r.stored = call[c].stored,
         r.state = call[c].state, r.consent = call[c].consent, r.grant = call[c].grant
  PROVE  JInv'
<1>1. call[c] \in CallType /\ Local(call[c], rows[c]) /\ call[c].runs \in Nat
  BY OfCall DEF CallType
<1>2. /\ call[c].pc \notin {"defer", "done", "onPending", "onFailure"} \cup Working
      /\ r.pc \notin Fresh \cup {"extract", "useConsent", "onSuccess", "onFailure", "done"}
      /\ r.pc \in Working => r.pc = "store"
      /\ r.pc \in Steady => r.pc \in {"store", "execute"}
      /\ call[c].pc \in Steady \cap Confirmed \cap Granted
  BY DEF Fresh, Working, Steady, Confirmed, Granted, Operating, Gates, Consents
<1>3. ~Waits(call[c]) /\ ~Wrote(call[c])
  BY <1>2 DEF Waits, Wrote
<1>4. Local(r, rows[c])
  BY <1>1, <1>2, <1>3 DEF Local
<1> QED
  BY <1>3, <1>4, Quietly

LEMMA ExecuteOn ==
  ASSUME IInv, JInv, NEW c \in Calls, Execute(c)
  PROVE  JInv'
<1>1. /\ UNCHANGED stores /\ call[c].pc = "execute" /\ call[c] \in CallType
      /\ call[c].input \in Inputs /\ fn.onPending \in Nat
      /\ {"store", "execute", "onPending", "defer", "recordFailure"} \subseteq Stages
      /\ {"pending", "failed"} \subseteq Statuses /\ "output" \in Questions
  BY OfCall DEF Execute, At, IInv, CallInv, AfterFulfil, Operating, Closing, Stages, Statuses, Questions
<1>2. PICK q : q = Ran(c)
  OBVIOUS
<1>3. q \in CallType
  BY <1>1, <1>2, RanTyped
<1>4. /\ q.pc = "execute" /\ q.status = call[c].status /\ q.stored = call[c].stored /\ q.asked = call[c].asked
      /\ q.state = call[c].state /\ q.consent = call[c].consent /\ q.grant = call[c].grant
      /\ q.runs = call[c].runs + 1 /\ q.tries = call[c].tries
  BY <1>1, <1>2 DEF Ran, CallType
<1>5. \/ Become(c, [q EXCEPT !.pc = "store", !.worked = TRUE])
      \/ Become(c, [q EXCEPT !.pc = "onPending", !.status = "pending",
                              !.todo = fn.onPending, !.asked = "output"])
      \/ q.tries = 0 /\ Become(c, [q EXCEPT !.tries = 1])
      \/ Become(c, [q EXCEPT !.pc = "defer", !.status = "failed"])
      \/ Become(c, [q EXCEPT !.pc = "recordFailure", !.status = "failed"])
  <2>1. call[c].tries \in 0 .. 1
    BY <1>1 DEF CallType
  <2>2. call[c].tries < MaxRetries => q.tries = 0 /\ [q EXCEPT !.tries = @ + 1] = [q EXCEPT !.tries = 1]
    BY <1>4, <2>1 DEF MaxRetries
  <2> QED
    BY <1>2, <2>2 DEF Execute
<1>6. CASE Become(c, [q EXCEPT !.pc = "store", !.worked = TRUE])
  <2>1. PICK r : r = [q EXCEPT !.pc = "store", !.worked = TRUE]
    OBVIOUS
  <2>2. r \in CallType
    BY <1>1, <1>3, <2>1, SetPc, SetWorked
  <2>3. /\ r.pc = "store" /\ r.worked /\ r.status = q.status /\ r.stored = q.stored /\ r.asked = q.asked
        /\ r.state = q.state /\ r.consent = q.consent /\ r.grant = q.grant /\ r.runs = q.runs
    BY <1>3, <2>1 DEF CallType
  <2> QED
    BY <1>1, <1>4, <1>6, <2>1, <2>2, <2>3, RunOn
<1>7. CASE Become(c, [q EXCEPT !.pc = "onPending", !.status = "pending",
                               !.todo = fn.onPending, !.asked = "output"])
  <2>1. PICK r : r = [q EXCEPT !.pc = "onPending", !.status = "pending",
                               !.todo = fn.onPending, !.asked = "output"]
    OBVIOUS
  <2>2. r \in CallType
    BY <1>1, <1>3, <2>1, SetPc, SetStatus, SetTodo, SetAsked
  <2>3. /\ r.pc = "onPending" /\ r.stored = q.stored /\ r.asked = "output"
        /\ r.state = q.state /\ r.consent = q.consent /\ r.grant = q.grant /\ r.runs = q.runs
    BY <1>3, <2>1 DEF CallType
  <2> QED
    BY <1>1, <1>4, <1>7, <2>1, <2>2, <2>3, RunOn
<1>8. CASE Become(c, [q EXCEPT !.tries = 1])
  <2>1. PICK r : r = [q EXCEPT !.tries = 1]
    OBVIOUS
  <2>2. r \in CallType
    <3>1. 1 \in 0 .. 1
      OBVIOUS
    <3> QED
      BY <1>3, <2>1, <3>1, SetTries
  <2>3. /\ r.pc = "execute" /\ r.status = q.status /\ r.stored = q.stored /\ r.asked = q.asked
        /\ r.state = q.state /\ r.consent = q.consent /\ r.grant = q.grant /\ r.runs = q.runs
    BY <1>3, <1>4, <2>1 DEF CallType
  <2> QED
    BY <1>1, <1>4, <1>8, <2>1, <2>2, <2>3, RunOn
<1>9. ASSUME NEW p \in {"defer", "recordFailure"}, Become(c, [q EXCEPT !.pc = p, !.status = "failed"])
      PROVE  JInv'
  <2>1. PICK r : r = [q EXCEPT !.pc = p, !.status = "failed"]
    OBVIOUS
  <2>2. r \in CallType
    BY <1>1, <1>3, <2>1, SetPc, SetStatus
  <2>3. /\ r.pc = p /\ r.stored = q.stored /\ r.asked = q.asked
        /\ r.state = q.state /\ r.consent = q.consent /\ r.grant = q.grant /\ r.runs = q.runs
    BY <1>3, <2>1 DEF CallType
  <2> QED
    BY <1>1, <1>4, <1>9, <2>1, <2>2, <2>3, RunOn
<1> QED
  BY <1>5, <1>6, <1>7, <1>8, <1>9

LEMMA WorkingStage ==
  ASSUME NEW p \in Working
  PROVE  /\ p \in Steady /\ p \in Underway /\ p \in Stages
         /\ p \notin Fresh \cup {"defer", "done", "onPending", "onFailure", "extract", "useConsent"}
  BY DEF Working, Steady, Underway, Fresh, Gates, Consents, Stages, Operating, Closing

LEMMA StoreOn ==
  ASSUME IInv, JInv, NEW c \in Calls, Store(c)
  PROVE  JInv'
<1>1. /\ call[c].pc = "store" /\ call[c] \in CallType /\ Local(call[c], rows[c])
      /\ UNCHANGED <<fn, rows, confirms, checkpoint>>
  BY OfCall DEF Store, At
<1>2. CASE Goto(c, "reRun")
  <2>1. /\ "store" \in Working /\ "reRun" \in Working
        /\ {"store", "reRun"} \subseteq Confirmed \cap Granted
    BY DEF Working, Confirmed, Granted, Operating
  <2>2. PICK r \in CallType :
          /\ Become(c, r) /\ Local(r, rows[c]) /\ ~Waits(call[c]) /\ (Wrote(call[c]) => Wrote(r))
          /\ r.state = call[c].state /\ r.consent = call[c].consent /\ r.grant = call[c].grant
          /\ r.pc = "reRun" /\ r.status = call[c].status /\ r.worked = call[c].worked
    BY <1>1, <1>2, <2>1, WorkingStage, GotoFacts
  <2>3. Wrote(r)
    BY <1>1, <2>1, <2>2, WorkingStage DEF Local, Wrote
  <2>4. \A k \in DOMAIN cache' : (k \in DOMAIN cache /\ cache'[k] = cache[k]) \/ cache'[k] = c
    BY DEF Store, IInv, TypeOK
  <2>5. checkpoint'.granted => checkpoint'.by # NoCall
    BY <1>1 DEF JInv, Shared
  <2>6. /\ \A s \in confirms' : \E t \in confirms : t.by = s.by
        /\ checkpoint'.by = checkpoint.by /\ rows' = rows /\ fn' = fn
    BY <1>1
  <2> QED
    BY <2>2, <2>3, <2>4, <2>5, <2>6, Onward
<1>3. CASE ReturnAsIs(c, "error") /\ UNCHANGED cache
  <2>1. UNCHANGED stores /\ "store" \in Underway
    BY <1>1, <1>3 DEF stores, Underway, Working
  <2> QED
    BY <1>1, <1>3, <2>1, ReturnAsIsOn, ErrorNames
<1> QED
  BY <1>2, <1>3 DEF Store

LEMMA ReRunOn ==
  ASSUME IInv, JInv, NEW c \in Calls, ReRun(c)
  PROVE  JInv'
<1>1. /\ call[c].pc = "reRun" /\ call[c] \in CallType /\ Local(call[c], rows[c]) /\ UNCHANGED stores
      /\ call[c].input \in Inputs
  BY OfCall DEF ReRun, At, IInv, CallInv, AfterFulfil, Operating
<1>2. /\ "reRun" \in Working \cap Confirmed \cap Granted /\ "afterSuccess" \in Working \ {"store"}
      /\ "afterSuccess" \notin Confirmed \cup Granted
      /\ "execute" \in Steady \cap Confirmed \cap Granted /\ "execute" \in Stages
      /\ "execute" \notin Fresh \cup Working
  BY DEF Working, Steady, Fresh, Confirmed, Granted, Operating, Stages, Gates, Consents
<1>3. CASE Goto(c, "afterSuccess")
  BY <1>1, <1>2, <1>3, WorkingStage, GotoOn
<1>4. CASE ReturnAsIs(c, "error")
  BY <1>1, <1>2, <1>4, WorkingStage, ReturnAsIsOn, ErrorNames
<1>5. CASE fn.reRun # "none" /\ \E x \in Inputs : Become(c, NextRound(c, x))
  <2>1. PICK x \in Inputs : Become(c, NextRound(c, x))
    BY <1>5
  <2>2. PICK r : r = NextRound(c, x)
    OBVIOUS
  <2>3. call[c].reRuns \in Nat /\ call[c].reRuns + 1 \in Nat /\ 0 \in 0 .. 1
    BY <1>1 DEF CallType
  <2>4. r = [call[c] EXCEPT !.pc = "execute", !.input = x, !.tries = 0, !.reRuns = call[c].reRuns + 1]
    BY <1>1, <2>2 DEF NextRound, CallType
  <2>5. r \in CallType
    <3>1. [call[c] EXCEPT !.pc = "execute", !.input = x] \in CallType
      BY <1>1, <1>2, SetPc, SetInput
    <3>2. [call[c] EXCEPT !.pc = "execute", !.input = x, !.tries = 0] \in CallType
      BY <2>3, <3>1, SetTries
    <3> QED
      BY <2>3, <2>4, <3>2, SetReRuns
  <2>6. /\ r.pc = "execute" /\ r.status = call[c].status /\ r.stored = call[c].stored /\ r.asked = call[c].asked
        /\ r.state = call[c].state /\ r.consent = call[c].consent /\ r.grant = call[c].grant
        /\ r.runs = call[c].runs
    BY <1>1, <2>4 DEF CallType
  <2>7. ~Waits(call[c])
    BY <1>1 DEF Waits
  <2>8. Local(r, rows[c])
    BY <1>1, <1>2, <2>6, <2>7, WorkingStage DEF Local
  <2> QED
    BY <1>1, <1>5, <2>1, <2>2, <2>5, <2>6, <2>7, <2>8, Quietly
<1>6. \/ Goto(c, "afterSuccess") \/ ReturnAsIs(c, "error")
      \/ fn.reRun # "none" /\ \E x \in Inputs : Become(c, NextRound(c, x))
  BY <1>1 DEF ReRun
<1> QED
  BY <1>3, <1>4, <1>5, <1>6

LEMMA OperateOn ==
  ASSUME IInv, JInv, NEW c \in Calls, Operate(c)
  PROVE  JInv'
  BY StartOn, ExecuteOn, StoreOn, ReRunOn DEF Operate

-----------------------------------------------------------------------------
(* Callbacks and the record.                                               *)

LEMMA AfterSuccessOn ==
  ASSUME IInv, JInv, NEW c \in Calls, AfterSuccess(c)
  PROVE  JInv'
<1>1. /\ call[c].pc = "afterSuccess" /\ call[c] \in CallType /\ Local(call[c], rows[c]) /\ UNCHANGED stores
  BY OfCall DEF AfterSuccess, At
<1>2. PICK p : p = IF fn.onSuccess = 0 THEN "completion" ELSE "recordSuccess"
  OBVIOUS
<1>3. PICK r : r = [call[c] EXCEPT !.hooks = @ \cup {"afterSuccess"}, !.pc = p]
  OBVIOUS
<1>4. /\ Become(c, r) /\ p \in Working \ {"store"} /\ p \in Stages /\ p \notin Confirmed \cup Granted
      /\ p # "onSuccess" /\ "afterSuccess" \in Working \ {"store"}
  BY <1>2, <1>3 DEF AfterSuccess, Working, Stages, Closing, Confirmed, Granted, Operating
<1>5. call[c].hooks \cup {"afterSuccess"} \in SUBSET HookKinds
  BY <1>1 DEF CallType, HookKinds
<1>6. r \in CallType
  BY <1>1, <1>3, <1>4, <1>5, SetPc, SetHooks
<1>7. /\ r.pc = p /\ r.status = call[c].status /\ r.stored = call[c].stored /\ r.asked = call[c].asked
      /\ r.state = call[c].state /\ r.consent = call[c].consent /\ r.grant = call[c].grant
      /\ r.runs = call[c].runs /\ r.worked = call[c].worked
  BY <1>1, <1>3 DEF CallType
<1>8. ~Waits(call[c]) /\ (Wrote(call[c]) => Wrote(r))
  BY <1>1, <1>4, <1>7 DEF Waits, Wrote
<1>9. Local(r, rows[c])
  BY <1>1, <1>4, <1>7, <1>8, WorkingStage DEF Local
<1> QED
  BY <1>1, <1>4, <1>6, <1>7, <1>8, <1>9, Quietly

\* A step that may write a record, and moves on.
LEMMA RecordsOn ==
  ASSUME IInv, JInv, NEW c \in Calls, NEW r \in CallType, Become(c, r),
         UNCHANGED <<fn, cache, confirms, checkpoint>>, \A d \in Calls \ {c} : rows'[d] = rows[d],
         Local(r, rows'[c]), Waits(call[c]) => Waits(r), Wrote(call[c]) => Wrote(r),
         r.state = call[c].state, r.consent = call[c].consent, r.grant = call[c].grant
  PROVE  JInv'
<1>1. checkpoint'.granted => checkpoint'.by # NoCall
  BY DEF JInv, Shared
<1>2. /\ \A s \in confirms' : \E t \in confirms : t.by = s.by
      /\ \A k \in DOMAIN cache' : k \in DOMAIN cache /\ cache'[k] = cache[k]
      /\ checkpoint'.by = checkpoint.by /\ fn' = fn
  OBVIOUS
<1> QED
  BY <1>1, <1>2, Onward

\* The first record of a call.
LEMMA FirstRecord ==
  ASSUME IInv, NEW c \in Calls, rows[c] = <<>>, NEW s \in Statuses,
         Record(c, s) \/ UNCHANGED rows
  PROVE  /\ \A d \in Calls \ {c} : rows'[d] = rows[d]
         /\ Record(c, s) => rows'[c] # <<>> /\ rows'[c][1].status = s
<1>1. rows \in [Calls -> Seq(Row)]
  BY DEF IInv, TypeOK
<1>2. CASE Record(c, s)
  <2>1. rows' = [rows EXCEPT ![c] = <<RowOf(c, s)>>]
    BY <1>2 DEF Record
  <2>2. RowOf(c, s).status = s
    BY DEF RowOf
  <2>3. rows'[c] = <<RowOf(c, s)>> /\ \A d \in Calls \ {c} : rows'[d] = rows[d]
    BY <1>1, <2>1
  <2> QED
    BY <2>2, <2>3
<1>3. CASE UNCHANGED rows /\ ~Record(c, s)
  BY <1>3
<1> QED
  BY <1>2, <1>3

LEMMA RecordSuccessOn ==
  ASSUME IInv, JInv, NEW c \in Calls, RecordSuccess(c)
  PROVE  JInv'
<1>1. /\ call[c].pc = "recordSuccess" /\ call[c] \in CallType /\ Local(call[c], rows[c])
      /\ UNCHANGED <<fn, cache, confirms, checkpoint>> /\ fn.onSuccess \in Nat
      /\ rows[c] = <<>> /\ ~call[c].stored
  BY OfCall, FnTyped DEF RecordSuccess, At, IInv, CallInv, BeforeRecord
<1>2. \E b \in BOOLEAN :
        /\ Become(c, [call[c] EXCEPT !.pc = "onSuccess", !.todo = fn.onSuccess, !.stored = b])
        /\ IF b THEN Record(c, "complete") ELSE DbFails /\ UNCHANGED rows
  <2>1. [call[c] EXCEPT !.pc = "onSuccess", !.todo = fn.onSuccess]
          = [call[c] EXCEPT !.pc = "onSuccess", !.todo = fn.onSuccess, !.stored = FALSE]
    BY <1>1 DEF CallType
  <2> QED
    BY <2>1 DEF RecordSuccess
<1>3. PICK b \in BOOLEAN :
        /\ Become(c, [call[c] EXCEPT !.pc = "onSuccess", !.todo = fn.onSuccess, !.stored = b])
        /\ IF b THEN Record(c, "complete") ELSE DbFails /\ UNCHANGED rows
  BY <1>2
<1>4. PICK r : r = [call[c] EXCEPT !.pc = "onSuccess", !.todo = fn.onSuccess, !.stored = b]
  OBVIOUS
<1>5. /\ Become(c, r) /\ "onSuccess" \in Working \ {"store"} /\ "onSuccess" \in Stages
      /\ "onSuccess" \notin Confirmed \cup Granted /\ "recordSuccess" \in Working
  BY <1>3, <1>4 DEF Working, Stages, Closing, Confirmed, Granted, Operating
<1>6. r \in CallType
  BY <1>1, <1>4, <1>5, SetPc, SetTodo, SetStored
<1>7. /\ r.pc = "onSuccess" /\ r.status = call[c].status /\ r.stored = b /\ r.asked = call[c].asked
      /\ r.state = call[c].state /\ r.consent = call[c].consent /\ r.grant = call[c].grant
      /\ r.runs = call[c].runs /\ r.worked = call[c].worked
  BY <1>1, <1>4 DEF CallType
<1>8. ~Waits(call[c]) /\ (Wrote(call[c]) => Wrote(r))
  BY <1>1, <1>5, <1>7 DEF Waits, Wrote
<1>9. /\ \A d \in Calls \ {c} : rows'[d] = rows[d]
      /\ ~DbFails => rows'[c] # <<>> /\ rows'[c][1].status = "complete"
  BY <1>1, <1>3, FirstRecord, ErrorNames
<1>10. Local(r, rows'[c])
  BY <1>1, <1>5, <1>7, <1>8, <1>9, WorkingStage DEF Local
<1> QED
  BY <1>1, <1>5, <1>6, <1>7, <1>8, <1>9, <1>10, RecordsOn

LEMMA RecordFailureOn ==
  ASSUME IInv, JInv, NEW c \in Calls, RecordFailure(c)
  PROVE  JInv'
<1>1. /\ call[c].pc = "recordFailure" /\ call[c] \in CallType /\ Local(call[c], rows[c])
      /\ UNCHANGED <<fn, cache, confirms, checkpoint>> /\ fn.onFailure \in Nat
      /\ rows[c] = <<>> /\ (Record(c, "failed") \/ UNCHANGED rows)
      /\ DbFails \/ Record(c, "failed")
  BY OfCall, FnTyped DEF RecordFailure, At, IInv, CallInv, BeforeRecord
<1>2. PICK r : r = [call[c] EXCEPT !.pc = "onFailure", !.todo = fn.onFailure,
                                   !.stored = TRUE, !.hooks = @ \cup {"afterFailure"}]
  OBVIOUS
<1>3. /\ Become(c, r) /\ "onFailure" \in Stages
      /\ "onFailure" \notin Steady \cup Confirmed \cup Granted
  BY <1>2 DEF RecordFailure, Stages, Closing, Steady, Fresh, Working, Gates, Consents, Confirmed, Granted, Operating
<1>4. call[c].hooks \cup {"afterFailure"} \in SUBSET HookKinds
  BY <1>1 DEF CallType, HookKinds
<1>5. r \in CallType
  <2>1. [call[c] EXCEPT !.pc = "onFailure", !.todo = fn.onFailure, !.stored = TRUE] \in CallType
    BY <1>1, <1>3, SetPc, SetTodo, SetStored
  <2>2. r = [[call[c] EXCEPT !.pc = "onFailure", !.todo = fn.onFailure, !.stored = TRUE]
               EXCEPT !.hooks = call[c].hooks \cup {"afterFailure"}]
    BY <1>1, <1>2 DEF CallType
  <2> QED
    BY <1>4, <2>1, <2>2, SetHooks
<1>6. /\ r.pc = "onFailure" /\ r.asked = call[c].asked
      /\ r.state = call[c].state /\ r.consent = call[c].consent /\ r.grant = call[c].grant
      /\ r.runs = call[c].runs
  BY <1>1, <1>2 DEF CallType
<1>7. ~Waits(call[c]) /\ ~Wrote(call[c])
  BY <1>1 DEF Waits, Wrote, Working
<1>8. /\ \A d \in Calls \ {c} : rows'[d] = rows[d]
      /\ ~DbFails => rows'[c] # <<>> /\ rows'[c][1].status = "failed"
  BY <1>1, FirstRecord, ErrorNames
<1>9. Local(r, rows'[c])
  BY <1>1, <1>3, <1>6, <1>7, <1>8 DEF Local, Steady
<1> QED
  BY <1>1, <1>3, <1>5, <1>6, <1>7, <1>8, <1>9, RecordsOn

\* A step that changes no field the invariant mentions.
LEMMA CallbackOn ==
  ASSUME IInv, JInv, NEW c \in Calls, Callback(c)
  PROVE  JInv'
<1>1. /\ call[c] \in CallType /\ Local(call[c], rows[c]) /\ UNCHANGED stores
      /\ call[c].todo - 1 \in Nat
  BY OfCall DEF Callback, CallType
<1>2. PICK r : r = [call[c] EXCEPT !.todo = call[c].todo - 1]
  OBVIOUS
<1>3. Become(c, r)
  BY <1>1, <1>2 DEF Callback, CallType
<1>4. r \in CallType
  BY <1>1, <1>2, SetTodo
<1>5. /\ r.pc = call[c].pc /\ r.status = call[c].status /\ r.stored = call[c].stored /\ r.asked = call[c].asked
      /\ r.state = call[c].state /\ r.consent = call[c].consent /\ r.grant = call[c].grant
      /\ r.runs = call[c].runs /\ r.worked = call[c].worked
  BY <1>1, <1>2 DEF CallType
<1>6. (Waits(call[c]) => Waits(r)) /\ (Wrote(call[c]) => Wrote(r))
  BY <1>5 DEF Waits, Wrote
<1>7. Local(r, rows[c])
  BY <1>1, <1>5, <1>6 DEF Local
<1> QED
  BY <1>1, <1>3, <1>4, <1>5, <1>6, <1>7, Quietly

\* The call ends with its afterCompletion hooks.
LEMMA CompletesOn ==
  ASSUME IInv, JInv, NEW c \in Calls, UNCHANGED stores, call[c].pc \in {"onFailure", "completion"},
         Become(c, [call[c] EXCEPT !.pc = "defer", !.hooks = @ \cup {"afterCompletion"}])
  PROVE  JInv'
<1>1. call[c] \in CallType /\ Local(call[c], rows[c]) /\ "defer" \in Stages
  BY OfCall DEF Stages
<1>2. PICK r : r = [call[c] EXCEPT !.pc = "defer", !.hooks = @ \cup {"afterCompletion"}]
  OBVIOUS
<1>3. call[c].hooks \cup {"afterCompletion"} \in SUBSET HookKinds
  BY <1>1 DEF CallType, HookKinds
<1>4. Become(c, r) /\ r \in CallType
  BY <1>1, <1>2, <1>3, SetPc, SetHooks
<1>5. /\ r.pc = "defer" /\ r.status = call[c].status /\ r.stored = call[c].stored /\ r.asked = call[c].asked
      /\ r.state = call[c].state /\ r.consent = call[c].consent /\ r.grant = call[c].grant
      /\ r.runs = call[c].runs /\ r.worked = call[c].worked
  BY <1>1, <1>2 DEF CallType
<1>6. "defer" \notin Steady \cup Confirmed \cup Granted
  BY DEF Steady, Fresh, Working, Gates, Consents, Confirmed, Granted, Operating
<1>7. ~Waits(call[c]) /\ (Wrote(call[c]) => Wrote(r))
  BY <1>5 DEF Waits, Wrote
<1>8. Local(r, rows[c])
  BY <1>1, <1>5, <1>6, <1>7 DEF Local, Steady
<1> QED
  BY <1>4, <1>5, <1>7, <1>8, Quietly

LEMMA CallbacksOverOn ==
  ASSUME IInv, JInv, NEW c \in Calls, CallbacksOver(c)
  PROVE  JInv'
<1>1. UNCHANGED stores /\ {"onSkip", "onPending"} \subseteq Underway
  BY DEF CallbacksOver, Underway
<1>2. CASE SkipEnds(c) \/ (At(c, "onPending") /\ ReturnAsIs(c, "none"))
  <2>1. call[c].pc \in Underway /\ \E e \in Errors : ReturnAsIs(c, e)
    BY <1>1, <1>2, ErrorNames DEF SkipEnds, OnErrorOutcomes, At
  <2> QED
    BY <1>1, <2>1, ReturnAsIsOn
<1>3. CASE At(c, "onSuccess") /\ Goto(c, "completion")
  <2>1. {"onSuccess", "completion"} \subseteq Working \ {"store"} /\ "completion" \notin Confirmed \cup Granted
    BY DEF Working, Confirmed, Granted, Operating
  <2> QED
    BY <1>1, <1>3, <2>1, WorkingStage, GotoOn DEF At
<1>4. CASE At(c, "onFailure") /\ Become(c, [call[c] EXCEPT !.pc = "defer", !.hooks = @ \cup {"afterCompletion"}])
  BY <1>1, <1>4, CompletesOn DEF At
<1> QED
  BY <1>2, <1>3, <1>4 DEF CallbacksOver

LEMMA DeferredOn ==
  ASSUME IInv, JInv, NEW c \in Calls, Deferred(c)
  PROVE  JInv'
<1>1. /\ call[c].pc = "defer" /\ call[c] \in CallType /\ Local(call[c], rows[c])
      /\ UNCHANGED <<fn, cache, confirms, checkpoint>> /\ "done" \in Stages /\ call[c].status \in Statuses
      /\ ~call[c].stored => rows[c] = <<>>
  BY OfCall DEF Deferred, At, Stages, CallType, IInv, CallInv
<1>2. PICK r : r = [call[c] EXCEPT !.pc = "done"]
  OBVIOUS
<1>3. Become(c, r) /\ r \in CallType
  BY <1>1, <1>2, SetPc DEF Deferred, Goto
<1>4. /\ r.pc = "done" /\ r.status = call[c].status /\ r.stored = call[c].stored /\ r.asked = call[c].asked
      /\ r.state = call[c].state /\ r.consent = call[c].consent /\ r.grant = call[c].grant
      /\ r.runs = call[c].runs /\ r.worked = call[c].worked
  BY <1>1, <1>2 DEF CallType
<1>5. /\ \A d \in Calls \ {c} : rows'[d] = rows[d]
      /\ call[c].stored /\ ~DbFails => rows'[c] = rows[c]
      /\ ~call[c].stored /\ ~DbFails => rows'[c] # <<>>
  <2>1. CASE UNCHANGED rows
    BY <2>1, FirstRecord, <1>1 DEF Deferred
  <2>2. CASE ~call[c].stored /\ Record(c, call[c].status)
    BY <1>1, <2>2, FirstRecord
  <2> QED
    BY <2>1, <2>2 DEF Deferred
<1>6. "done" \notin Steady \cup Confirmed \cup Granted
  BY DEF Steady, Fresh, Working, Gates, Consents, Confirmed, Granted, Operating
<1>7. (Waits(call[c]) => Waits(r)) /\ (Wrote(call[c]) => Wrote(r))
  BY <1>1, <1>4 DEF Waits, Wrote
<1>8. Local(r, rows'[c])
  BY <1>1, <1>4, <1>5, <1>6, <1>7 DEF Local, Steady
<1> QED
  BY <1>1, <1>3, <1>4, <1>5, <1>7, <1>8, RecordsOn

LEMMA CloseOn ==
  ASSUME IInv, JInv, NEW c \in Calls, Close(c)
  PROVE  JInv'
<1>1. CASE SuccessAsks(c)
  <2>1. UNCHANGED stores /\ call[c].pc \in Working /\ ReturnAsIs(c, "pending")
    BY <1>1 DEF SuccessAsks, At, Working
  <2> QED
    BY <2>1, WorkingStage, ErrorNames, ReturnAsIsOn
<1>2. CASE Completion(c)
  BY <1>2, CompletesOn DEF Completion, At
<1> QED
  BY <1>1, <1>2, AfterSuccessOn, RecordSuccessOn, RecordFailureOn, CallbackOn,
     CallbacksOverOn, DeferredOn DEF Close

-----------------------------------------------------------------------------
(* Around the calls, and the invariant.                                    *)

LEMMA CreateCheckpointOn ==
  ASSUME IInv, JInv, NEW c \in Calls, CreateCheckpoint(c)
  PROVE  JInv'
<1>1. /\ call[c].pc = "done" /\ call[c].asked = "approval" /\ call[c] \in CallType /\ Local(call[c], rows[c])
      /\ UNCHANGED <<fn, rows, cache, confirms>> /\ checkpoint'.by = c
  BY OfCall DEF CreateCheckpoint, At
<1>2. PICK r : r = [call[c] EXCEPT !.asked = "nothing"]
  OBVIOUS
<1>3. Become(c, r) /\ r \in CallType
  BY <1>1, <1>2, ErrorNames, SetAsked DEF CreateCheckpoint
<1>4. /\ r.pc = "done" /\ r.status = call[c].status /\ r.stored = call[c].stored /\ r.asked = "nothing"
      /\ r.state = call[c].state /\ r.consent = call[c].consent /\ r.grant = call[c].grant
      /\ r.runs = call[c].runs /\ r.worked = call[c].worked
  BY <1>1, <1>2 DEF CallType
<1>5. Waits(call[c]) /\ Waits(r) /\ (Wrote(call[c]) => Wrote(r))
  BY <1>1, <1>4 DEF Local, Waits, Wrote
<1>6. Local(r, rows[c])
  BY <1>1, <1>4 DEF Local
<1>7. /\ \A s \in confirms' : \E t \in confirms : t.by = s.by
      /\ \A k \in DOMAIN cache' : k \in DOMAIN cache /\ cache'[k] = cache[k]
      /\ rows' = rows /\ fn' = fn /\ c # NoCall
  BY <1>1, ConstantsAssumption
<1>8. \A d \in Calls \ {c} : rows'[d] = rows[d]
  BY <1>7
<1>9. Local(r, rows'[c])
  BY <1>6, <1>7
<1>10. /\ checkpoint'.by = c /\ Waits(r)
       /\ checkpoint'.granted => checkpoint'.by # NoCall
  BY <1>1, <1>5, <1>7
<1>11. \A x \in {r.state, r.consent, r.grant} : x \in {call[c].state, call[c].consent, call[c].grant}
  BY <1>4
<1> QED
  BY <1>3, <1>5, <1>7, <1>8, <1>9, <1>10, <1>11, Onward

\* The stores change while no call does anything.
LEMMA Aside ==
  ASSUME IInv, JInv, UNCHANGED <<fn, call, rows>>,
         \A s \in confirms' : \E t \in confirms : t.by = s.by,
         checkpoint'.by = checkpoint.by, checkpoint'.granted => checkpoint.by # NoCall,
         \A k \in DOMAIN cache' : cache'[k] = NoCall \/ (k \in DOMAIN cache /\ cache'[k] = cache[k])
  PROVE  JInv'
<1>1. \A c \in Calls : Local(call[c], rows[c])' /\ Links(call[c])'
  BY DEF JInv, Local, Links, DbFails, Waits
<1>2. Shared'
  <2>1. \A s \in confirms' : Waits(call[s.by])
    BY DEF JInv, Shared
  <2>2. checkpoint.by # NoCall => Waits(call[checkpoint.by])
    BY DEF JInv, Shared
  <2>3. fn.reRun = "none" => \A k \in DOMAIN cache' : cache'[k] # NoCall => Wrote(call[cache'[k]])
    BY DEF JInv, Shared
  <2> QED
    BY <2>1, <2>2, <2>3 DEF Shared, Waits, Wrote
<1> QED
  BY <1>1, <1>2 DEF JInv

LEMMA EnvironmentOn ==
  ASSUME IInv, JInv, Environment
  PROVE  JInv'
<1>1. checkpoint.granted => checkpoint.by # NoCall
  BY DEF JInv, Shared
<1>2. CASE Grant
  <2>1. /\ UNCHANGED <<fn, call, rows>> /\ confirms' = confirms /\ cache' = cache
        /\ checkpoint'.by = checkpoint.by /\ checkpoint.by # NoCall
    BY <1>2 DEF Grant, IInv, TypeOK, Checkpoint
  <2> QED
    BY <2>1, Aside
<1>3. CASE ConfirmationExpires
  <2>1. PICK s \in confirms : confirms' = (confirms \ {s}) \cup {[s EXCEPT !.expired = TRUE]}
    BY <1>3 DEF ConfirmationExpires
  <2>2. [s EXCEPT !.expired = TRUE].by = s.by
    BY DEF IInv, TypeOK, Confirmation
  <2>3. \A u \in confirms' : \E t \in confirms : t.by = u.by
    BY <2>1, <2>2
  <2>4. UNCHANGED <<fn, call, rows>> /\ cache' = cache /\ checkpoint' = checkpoint
    BY <1>3 DEF ConfirmationExpires
  <2> QED
    BY <1>1, <2>3, <2>4, Aside
<1>4. CASE CacheExpires
  <2>1. PICK k \in DOMAIN cache : cache' = [cache EXCEPT ![k] = NoCall]
    BY <1>4 DEF CacheExpires
  <2>2. \A j \in DOMAIN cache' : cache'[j] = NoCall \/ (j \in DOMAIN cache /\ cache'[j] = cache[j])
    BY <2>1 DEF IInv, TypeOK
  <2>3. UNCHANGED <<fn, call, rows>> /\ confirms' = confirms /\ checkpoint' = checkpoint
    BY <1>4 DEF CacheExpires
  <2> QED
    BY <1>1, <2>2, <2>3, Aside
<1> QED
  BY <1>2, <1>3, <1>4, CreateCheckpointOn DEF Environment

LEMMA InitJInv ==
  ASSUME Init
  PROVE  JInv
<1>1. \A c \in Calls :
        /\ call[c].pc = "idle" /\ call[c].runs = 0 /\ call[c].status = "complete"
        /\ call[c].asked = "nothing" /\ ~call[c].stored
        /\ {call[c].state, call[c].consent, call[c].grant} = {NoCall}
  BY DEF Init, NewCall
<1>2. "idle" \notin Working \cup Confirmed \cup Granted
  BY DEF Working, Confirmed, Granted, Operating
<1>3. \A c \in Calls : Local(call[c], rows[c])
  BY <1>1, <1>2 DEF Local
<1>4. \A c \in Calls : Links(call[c])
  BY <1>1 DEF Links
<1>5. Shared
  BY DEF Init, NoCheckpoint, Shared
<1> QED
  BY <1>3, <1>4, <1>5 DEF JInv

LEMMA NextJInv ==
  ASSUME IInv, JInv, [Next]_vars
  PROVE  JInv'
<1>1. CASE AllDone \/ UNCHANGED vars
  <2>1. UNCHANGED <<fn, call, rows>> /\ confirms' = confirms /\ cache' = cache /\ checkpoint' = checkpoint
    BY <1>1 DEF AllDone, vars
  <2>2. checkpoint.granted => checkpoint.by # NoCall
    BY DEF JInv, Shared
  <2> QED
    BY <2>1, <2>2, Aside
<1>2. CASE Environment
  BY <1>2, EnvironmentOn
<1>3. ASSUME NEW c \in Calls, Begin(c) \/ Step(c)
      PROVE  JInv'
  BY <1>3, BeginOn, GateOn, ConsentOn, OperateOn, CloseOn DEF Step
<1> QED
  BY <1>1, <1>2, <1>3 DEF Next

LEMMA SpecJInv == Spec => [](IInv /\ JInv)
<1>1. Init => IInv /\ JInv
  BY InitIInv, InitJInv
<1>2. IInv /\ JInv /\ [Next]_vars => (IInv /\ JInv)'
  BY NextIInv, NextJInv
<1> QED
  BY <1>1, <1>2, PTL DEF Spec

\* With a working database no call ends unrecorded, except one that failed
\* before its operation while the function has no onFailure functions:
\* executeOnFailureFunctions records nothing then, and Call believes it did.
THEOREM RecordsKept == Spec => []NoneLost
<1>1. JInv => NoneLost
  BY DEF JInv, Local, NoneLost, Done, At
<1> QED
  BY <1>1, SpecJInv, PTL

\* With a working database an onSuccess or onFailure function is executed
\* only after its parent was recorded, and as complete or failed accordingly.
THEOREM ParentRecorded == Spec => []ParentFirst
<1>1. JInv => ParentFirst
  BY DEF JInv, Local, ParentFirst, At
<1> QED
  BY <1>1, SpecJInv, PTL

\* Without reRunIf the cache holds outputs of calls that worked and stay
\* complete, whatever their callbacks do after the output was stored.
THEOREM HonestCache == Spec => []CacheHonest
<1>1. JInv => CacheHonest
  BY DEF JInv, Shared, CacheHonest, Wrote
<1> QED
  BY <1>1, SpecJInv, PTL

\* No operation that needs a confirmation or a manual approval starts without
\* one that another call asked for and ended on, without starting it itself.
THEOREM ConsentGiven == Spec => []Consented
<1>1. JInv => Consented
  BY DEF JInv, Local, Links, Waits, Consented
<1> QED
  BY <1>1, SpecJInv, PTL

-----------------------------------------------------------------------------
(* One-time use of a consent.                                              *)

\* Calls one after the other, and a working database.
Sequential == fn.maxActive = 1 /\ ~DbFails

OneActs == \A c, d \in Calls : Active(c) /\ Active(d) => c = d

\* What a call has used is gone, and what it is about to use is there.
UsedUp(c) ==
  /\ call[c].consent # NoCall => \A s \in confirms : s.by # call[c].consent
  /\ call[c].pc \in {"extract", "useConsent"} => \E s \in confirms : s.by = call[c].state
  /\ call[c].grant # NoCall /\ checkpoint.by = call[c].grant => call[c].pc = "useGrant"

\* A request for approval leads to one checkpoint.
Settled ==
  /\ checkpoint.by # NoCall => call[checkpoint.by].asked # "approval"
  /\ \A c \in Calls : call[c].grant # NoCall => call[call[c].grant].asked # "approval"

Once ==
  \A c, d \in Calls :
    c # d => /\ call[c].consent = call[d].consent => call[c].consent = NoCall
             /\ call[c].grant = call[d].grant => call[c].grant = NoCall

KInv == Sequential => OneActs /\ (\A c \in Calls : UsedUp(c)) /\ Settled /\ Once

\* A step of c that touches no consent.
Plain(c) ==
  /\ \A d \in Calls \ {c} : call'[d] = call[d]
  /\ call'[c].pc \notin {"idle", "extract", "useConsent"}
  /\ call'[c].consent = call[c].consent /\ call'[c].grant = call[c].grant
  /\ call'[c].asked = call[c].asked \/ ~Waits(call[c])

LEMMA Plainly ==
  ASSUME IInv, JInv, KInv, NEW c \in Calls, Plain(c), UNCHANGED <<fn, confirms, checkpoint>>,
         call[c].pc # "useGrant", Sequential => \A d \in Calls \ {c} : ~Active(d)
  PROVE  KInv'
<1> SUFFICES ASSUME Sequential' PROVE (OneActs /\ (\A d \in Calls : UsedUp(d)) /\ Settled /\ Once)'
  BY DEF KInv
<1>1. Sequential /\ OneActs /\ (\A d \in Calls : UsedUp(d)) /\ Settled /\ Once
  BY DEF Sequential, DbFails, KInv
<1>2. OneActs'
  BY <1>1 DEF OneActs, Active, Plain
<1>3. \A d \in Calls : UsedUp(d)'
  BY <1>1 DEF UsedUp, Plain
<1>4. Settled'
  <2>1. ASSUME NEW x \in Calls, Waits(call[x]), call[x].asked # "approval" PROVE call'[x].asked # "approval"
    BY <2>1 DEF Plain
  <2>2. checkpoint.by # NoCall => checkpoint.by \in Calls /\ Waits(call[checkpoint.by])
    BY DEF IInv, TypeOK, Checkpoint, JInv, Shared
  <2>3. ASSUME NEW d \in Calls, call[d].grant # NoCall
        PROVE  call[d].grant \in Calls /\ Waits(call[call[d].grant])
    BY <2>3 DEF IInv, TypeOK, CallType, JInv, Links
  <2>4. \A d \in Calls : call'[d].grant = call[d].grant
    BY DEF Plain
  <2> QED
    BY <1>1, <2>1, <2>2, <2>3, <2>4 DEF Settled
<1>5. Once'
  BY <1>1 DEF Once, Plain
<1> QED
  BY <1>2, <1>3, <1>4, <1>5

\* Call c becomes r, and its consents stay as they are.
LEMMA BecomesPlain ==
  ASSUME IInv, NEW c \in Calls, NEW r, Become(c, r), r.pc \notin {"idle", "extract", "useConsent"},
         r.consent = call[c].consent, r.grant = call[c].grant, r.asked = call[c].asked \/ ~Waits(call[c])
  PROVE  Plain(c)
<1>1. call'[c] = r /\ \A d \in Calls \ {c} : call'[d] = call[d]
  BY DEF IInv, TypeOK, Become
<1> QED
  BY <1>1 DEF Plain

LEMMA GotoPlain ==
  ASSUME IInv, NEW c \in Calls, NEW p \in Stages \ {"idle", "extract", "useConsent"}, Goto(c, p)
  PROVE  Plain(c)
<1>1. PICK r : r = [call[c] EXCEPT !.pc = p]
  OBVIOUS
<1>2. r.pc = p /\ r.consent = call[c].consent /\ r.grant = call[c].grant /\ r.asked = call[c].asked
  BY <1>1 DEF IInv, TypeOK, CallType
<1> QED
  BY <1>1, <1>2, BecomesPlain DEF Goto

LEMMA ReturnPlain ==
  ASSUME IInv, NEW c \in Calls, NEW s, NEW e, Return(c, s, e)
  PROVE  Plain(c)
<1>1. PICK r : r = [call[c] EXCEPT !.pc = "defer", !.status = s, !.ret = e]
  OBVIOUS
<1>2. r.pc = "defer" /\ r.consent = call[c].consent /\ r.grant = call[c].grant /\ r.asked = call[c].asked
  BY <1>1 DEF IInv, TypeOK, CallType
<1> QED
  BY <1>1, <1>2, BecomesPlain DEF Return

LEMMA PausePlain ==
  ASSUME IInv, NEW c \in Calls, NEW w, Pause(c, w), ~Waits(call[c])
  PROVE  Plain(c)
<1>1. PICK r : r = [call[c] EXCEPT !.pc = "onPending", !.status = "pending",
                                   !.todo = fn.onPending, !.asked = w]
  OBVIOUS
<1>2. r.pc = "onPending" /\ r.consent = call[c].consent /\ r.grant = call[c].grant
  BY <1>1 DEF IInv, TypeOK, CallType
<1> QED
  BY <1>1, <1>2, BecomesPlain DEF Pause

LEMMA FailEarlyPlain ==
  ASSUME IInv, NEW c \in Calls, FailEarly(c)
  PROVE  Plain(c)
<1>1. CASE fn.onFailure = 0
  <2>1. PICK r : r = [call[c] EXCEPT !.pc = "defer", !.status = "failed", !.stored = TRUE,
                                     !.hooks = @ \cup {"afterCompletion"}]
    OBVIOUS
  <2>2. r.pc = "defer" /\ r.consent = call[c].consent /\ r.grant = call[c].grant /\ r.asked = call[c].asked
    BY <2>1 DEF IInv, TypeOK, CallType
  <2> QED
    BY <1>1, <2>1, <2>2, BecomesPlain DEF FailEarly
<1>2. CASE fn.onFailure # 0
  <2>1. PICK r : r = [call[c] EXCEPT !.pc = "recordFailure", !.status = "failed"]
    OBVIOUS
  <2>2. r.pc = "recordFailure" /\ r.consent = call[c].consent /\ r.grant = call[c].grant
        /\ r.asked = call[c].asked
    BY <2>1 DEF IInv, TypeOK, CallType
  <2> QED
    BY <1>2, <2>1, <2>2, BecomesPlain DEF FailEarly
<1> QED
  BY <1>1, <1>2

LEMMA CachedPlain ==
  ASSUME IInv, NEW c \in Calls, ReturnCached(c)
  PROVE  Plain(c)
<1>1. PICK r : r = [call[c] EXCEPT !.pc = "defer", !.worked = TRUE]
  OBVIOUS
<1>2. r.pc = "defer" /\ r.consent = call[c].consent /\ r.grant = call[c].grant /\ r.asked = call[c].asked
  BY <1>1 DEF IInv, TypeOK, CallType
<1> QED
  BY <1>1, <1>2, BecomesPlain DEF ReturnCached

\* A call at a gate goes on, or does not, without touching a consent.
LEMMA GatePlain ==
  ASSUME IInv, NEW c \in Calls, Gate(c)
  PROVE  Plain(c)
<1>1. call[c].pc \in Gates /\ call[c] \in CallType
  BY DEF IInv, TypeOK, Gate, EarlyCache, Needs, RunOnlyIf, OnceRule, Fulfil, UniqueRule, Prepare, SuccessInputs,
         CacheLookup, At, Gates
<1>2. ~Waits(call[c])
  BY <1>1 DEF Gates, Waits
<1>3. /\ Gates \cup {"approval"} \subseteq Stages
      /\ (Gates \cup {"approval"}) \cap {"idle", "extract", "useConsent"} = {}
  BY DEF Stages, Gates, Consents
<1>4. CASE \/ \E p \in Gates \cup {"approval"} : Goto(c, p)
           \/ \E s, e : Return(c, s, e)
           \/ \E w : Pause(c, w)
           \/ FailEarly(c) \/ ReturnCached(c)
  BY <1>2, <1>3, <1>4, GotoPlain, ReturnPlain, PausePlain, FailEarlyPlain, CachedPlain
<1>5. ASSUME NEW r, Become(c, r),
             \/ r = [call[c] EXCEPT !.pc = "onSkip", !.status = "skipped", !.todo = fn.onSkip]
             \/ \E x : r = [call[c] EXCEPT !.pc = "uniqueRule", !.input = x]
             \/ r = [call[c] EXCEPT !.pc = "defer", !.status = "failed", !.hash = call[c].input]
             \/ r = [call[c] EXCEPT !.pc = "prepare", !.hash = call[c].input]
      PROVE  Plain(c)
  <2>1. /\ r.pc \in {"onSkip", "uniqueRule", "defer", "prepare"}
        /\ r.consent = call[c].consent /\ r.grant = call[c].grant /\ r.asked = call[c].asked
    BY <1>1, <1>5 DEF CallType
  <2> QED
    BY <1>5, <2>1, BecomesPlain
<1>6. CASE EarlyCache(c) \/ Needs(c) \/ OnceRule(c) \/ Prepare(c) \/ SuccessInputs(c) \/ CacheLookup(c)
  BY <1>4, <1>6 DEF EarlyCache, Needs, OnceRule, Prepare, SuccessInputs, CacheLookup, ReturnAsIs, Gates
<1>7. CASE RunOnlyIf(c)
  BY <1>4, <1>5, <1>7 DEF RunOnlyIf, ReturnAsIs, Gates
<1>8. CASE Fulfil(c)
  BY <1>4, <1>5, <1>8 DEF Fulfil, ReturnAsIs
<1>9. CASE UniqueRule(c)
  BY <1>4, <1>5, <1>9 DEF UniqueRule, Gates
<1> QED
  BY <1>6, <1>7, <1>8, <1>9 DEF Gate

LEMMA OperatePlain ==
  ASSUME IInv, NEW c \in Calls, Operate(c)
  PROVE  Plain(c)
<1>1. call[c].pc \in Operating /\ call[c] \in CallType
  BY DEF IInv, TypeOK, Operate, Start, Execute, Store, ReRun, At, Operating
<1>2. ~Waits(call[c])
  BY <1>1 DEF Operating, Waits
<1>3. /\ {"execute", "reRun", "afterSuccess"} \subseteq Stages
  BY DEF Stages, Operating, Closing
<1>4. CASE (\E p \in {"execute", "reRun", "afterSuccess"} : Goto(c, p)) \/ \E s, e : Return(c, s, e)
  BY <1>3, <1>4, GotoPlain, ReturnPlain
<1>5. CASE Start(c) \/ Store(c)
  BY <1>4, <1>5 DEF Start, Store, ReturnAsIs
<1>6. CASE ReRun(c)
  <2>1. ASSUME NEW x, Become(c, NextRound(c, x)) PROVE Plain(c)
    <3>1. PICK r : r = NextRound(c, x)
      OBVIOUS
    <3>2. r.pc = "execute" /\ r.consent = call[c].consent /\ r.grant = call[c].grant /\ r.asked = call[c].asked
      BY <1>1, <3>1 DEF NextRound, CallType
    <3> QED
      BY <2>1, <3>1, <3>2, BecomesPlain
  <2> QED
    BY <1>4, <1>6, <2>1 DEF ReRun, ReturnAsIs
<1>7. CASE Execute(c)
  <2>1. PICK r : r = Ran(c)
    OBVIOUS
  <2>2. r.pc = "execute" /\ r.consent = call[c].consent /\ r.grant = call[c].grant
    BY <1>1, <1>7, <2>1 DEF Ran, CallType, Execute, At
  <2>3. PICK q :
          /\ Become(c, q)
          /\ \/ q = [r EXCEPT !.pc = "store", !.worked = TRUE]
             \/ q = [r EXCEPT !.pc = "onPending", !.status = "pending",
                              !.todo = fn.onPending, !.asked = "output"]
             \/ q = [r EXCEPT !.tries = r.tries + 1]
             \/ q = [r EXCEPT !.pc = "defer", !.status = "failed"]
             \/ q = [r EXCEPT !.pc = "recordFailure", !.status = "failed"]
    BY <1>7, <2>1 DEF Execute
  <2>4. DOMAIN r = DOMAIN call[c] /\ {"pc", "consent", "grant"} \subseteq DOMAIN r
    BY <1>1, <2>1 DEF Ran, CallType
  <2>5. /\ q.pc \in {"store", "onPending", "execute", "defer", "recordFailure"}
        /\ q.consent = call[c].consent /\ q.grant = call[c].grant
    BY <2>2, <2>3, <2>4
  <2> QED
    BY <1>2, <2>3, <2>5, BecomesPlain
<1> QED
  BY <1>5, <1>6, <1>7 DEF Operate

LEMMA ClosePlain ==
  ASSUME IInv, NEW c \in Calls, Close(c)
  PROVE  Plain(c)
<1>1. call[c] \in CallType
  BY DEF IInv, TypeOK
<1>2. {"completion", "done"} \subseteq Stages
  BY DEF Stages, Closing
<1>3. CASE Goto(c, "completion") \/ Goto(c, "done") \/ \E s, e : Return(c, s, e)
  BY <1>2, <1>3, GotoPlain, ReturnPlain
<1>4. ASSUME NEW r, Become(c, r),
             \/ r = [call[c] EXCEPT !.hooks = @ \cup {"afterSuccess"},
                                    !.pc = IF fn.onSuccess = 0 THEN "completion" ELSE "recordSuccess"]
             \/ r = [call[c] EXCEPT !.pc = "onSuccess", !.todo = fn.onSuccess, !.stored = TRUE]
             \/ r = [call[c] EXCEPT !.pc = "onSuccess", !.todo = fn.onSuccess]
             \/ r = [call[c] EXCEPT !.pc = "onFailure", !.todo = fn.onFailure,
                                    !.stored = TRUE, !.hooks = @ \cup {"afterFailure"}]
             \/ r = [call[c] EXCEPT !.pc = "defer", !.hooks = @ \cup {"afterCompletion"}]
      PROVE  Plain(c)
  <2>1. /\ r.pc \in {"completion", "recordSuccess", "onSuccess", "onFailure", "defer"}
        /\ r.consent = call[c].consent /\ r.grant = call[c].grant /\ r.asked = call[c].asked
    BY <1>1, <1>4 DEF CallType
  <2> QED
    BY <1>4, <2>1, BecomesPlain
<1>5. CASE AfterSuccess(c) \/ RecordSuccess(c) \/ RecordFailure(c) \/ Completion(c)
  BY <1>4, <1>5 DEF AfterSuccess, RecordSuccess, RecordFailure, Completion
<1>6. CASE SuccessAsks(c) \/ Deferred(c)
  BY <1>3, <1>6 DEF SuccessAsks, Deferred, ReturnAsIs
<1>7. CASE CallbacksOver(c)
  BY <1>3, <1>4, <1>7 DEF CallbacksOver, SkipEnds, ReturnAsIs
<1>8. CASE Callback(c)
  <2>1. PICK r : r = [call[c] EXCEPT !.todo = @ - 1]
    OBVIOUS
  <2>2. /\ r.pc \in {"onSuccess", "onFailure", "onSkip", "onPending"}
        /\ r.consent = call[c].consent /\ r.grant = call[c].grant /\ r.asked = call[c].asked
    BY <1>1, <1>8, <2>1 DEF Callback, CallType
  <2> QED
    BY <1>8, <2>1, <2>2, BecomesPlain DEF Callback
<1> QED
  BY <1>5, <1>6, <1>7, <1>8 DEF Close

LEMMA PlainStep ==
  ASSUME IInv, JInv, KInv, NEW c \in Calls, Gate(c) \/ Operate(c) \/ Close(c)
  PROVE  KInv'
<1>1. UNCHANGED <<fn, confirms, checkpoint>>
  BY DEF Gate, EarlyCache, Needs, RunOnlyIf, OnceRule, Fulfil, UniqueRule, Prepare, SuccessInputs, CacheLookup,
         Operate, Start, Execute, Store, ReRun, Close, AfterSuccess, RecordSuccess, RecordFailure, Callback,
         SuccessAsks, CallbacksOver, Completion, Deferred, stores
<1>2. call[c].pc \in Gates \cup Operating \cup Closing \cup {"defer"}
  BY DEF Gate, EarlyCache, Needs, RunOnlyIf, OnceRule, Fulfil, UniqueRule, Prepare, SuccessInputs, CacheLookup,
         Operate, Start, Execute, Store, ReRun, Close, AfterSuccess, RecordSuccess, RecordFailure, Callback,
         SuccessAsks, CallbacksOver, SkipEnds, Completion, Deferred, At, Gates, Operating, Closing
<1>3. Active(c) /\ call[c].pc # "useGrant"
  BY <1>2 DEF Active, Gates, Operating, Closing
<1>4. Sequential => \A d \in Calls \ {c} : ~Active(d)
  BY <1>3 DEF KInv, OneActs
<1> QED
  BY <1>1, <1>3, <1>4, GatePlain, OperatePlain, ClosePlain, Plainly

\* What KInv says in a sequential instance, and who else is active.
LEMMA Alone ==
  ASSUME KInv, Sequential, NEW c \in Calls, Active(c)
  PROVE  /\ OneActs /\ (\A d \in Calls : UsedUp(d)) /\ Settled /\ Once
         /\ \A d \in Calls \ {c} : call[d].pc \in {"idle", "done"}
  BY DEF KInv, OneActs, Active

\* A step of the consents of c, by what it changes.
LEMMA ConsentSpent ==
  ASSUME IInv, JInv, KInv, NEW c \in Calls, call[c].pc \in Consents, UNCHANGED fn,
         \A d \in Calls \ {c} : call'[d] = call[d],
         call'[c].pc # "idle",
         call'[c].grant \in {call[c].grant, checkpoint.by},
         checkpoint' \in {checkpoint, NoCheckpoint},
         Sequential => UsedUp(c)' /\ \A d \in Calls \ {c} :
           /\ call[d].consent # NoCall => \A s \in confirms' : s.by # call[d].consent
           /\ call[d].consent = call'[c].consent => call[d].consent = NoCall
           /\ call[d].grant = call'[c].grant => call[d].grant = NoCall
  PROVE  KInv'
<1>1. Active(c) /\ ~Waits(call[c])
  BY DEF Active, Waits, Consents
<1>2. ASSUME Sequential
      PROVE  OneActs' /\ (\A d \in Calls : UsedUp(d)') /\ Settled' /\ Once'
  <2>1. /\ OneActs /\ (\A d \in Calls : UsedUp(d)) /\ Settled /\ Once
        /\ \A d \in Calls \ {c} : call[d].pc \in {"idle", "done"}
    BY <1>1, <1>2, Alone
  <2>2. OneActs'
    BY <2>1 DEF OneActs, Active
  <2>3. checkpoint'.by \in {checkpoint.by, NoCall}
    BY DEF NoCheckpoint
  <2>4. \A d \in Calls : UsedUp(d)'
    BY <1>1, <1>2, <2>1, <2>3 DEF UsedUp
  <2>5. Settled'
    <3>1. ASSUME NEW x \in Calls, Waits(call[x]) PROVE call'[x] = call[x]
      BY <1>1, <3>1
    <3>2. checkpoint.by # NoCall => checkpoint.by \in Calls /\ Waits(call[checkpoint.by])
      BY DEF IInv, TypeOK, Checkpoint, JInv, Shared
    <3>3. ASSUME NEW d \in Calls, call[d].grant # NoCall
          PROVE  call[d].grant \in Calls /\ Waits(call[call[d].grant])
      BY <3>3 DEF IInv, TypeOK, CallType, JInv, Links
    <3>4. \A d \in Calls : call'[d].grant \in {call[d].grant, checkpoint.by}
      OBVIOUS
    <3> QED
      BY <2>1, <2>3, <3>1, <3>2, <3>3, <3>4 DEF Settled
  <2>6. Once'
    BY <1>2, <2>1 DEF Once
  <2> QED
    BY <2>2, <2>4, <2>5, <2>6
<1> QED
  BY <1>2 DEF KInv, Sequential, DbFails

LEMMA ConsentQuiet ==
  ASSUME IInv, JInv, KInv, NEW c \in Calls, call[c].pc \in Consents \ {"useGrant"},
         UNCHANGED <<fn, confirms, checkpoint>>,
         \/ \E p \in {"confirm", "ask", "start"} : Goto(c, p)
         \/ \E w : Pause(c, w)
         \/ \E s, e : Return(c, s, e)
  PROVE  KInv'
<1>1. {"confirm", "ask", "start"} \subseteq Stages \ {"idle", "extract", "useConsent"}
  BY DEF Stages, Consents, Operating
<1>2. Active(c) /\ ~Waits(call[c]) /\ call[c].pc # "useGrant"
  BY DEF Active, Waits, Consents
<1>3. Sequential => \A d \in Calls \ {c} : ~Active(d)
  BY <1>2 DEF KInv, OneActs
<1> QED
  BY <1>1, <1>2, <1>3, GotoPlain, PausePlain, ReturnPlain, Plainly

LEMMA ApprovalSpends ==
  ASSUME IInv, JInv, KInv, NEW c \in Calls, Approval(c)
  PROVE  KInv'
<1>1. /\ UNCHANGED <<fn, confirms, checkpoint>> /\ call[c].pc = "approval"
      /\ call[c].pc \in Consents \ {"useGrant"} /\ call[c] \in CallType /\ Active(c)
  BY DEF Approval, stores, At, Consents, IInv, TypeOK, Active
<1>2. CASE \/ Goto(c, "confirm") \/ (\E w : Pause(c, w)) \/ \E s, e : Return(c, s, e)
  BY <1>1, <1>2, ConsentQuiet
<1>3. CASE UsesCheckpoint(c)
  <2>1. PICK r : r = [call[c] EXCEPT !.pc = "useGrant", !.grant = checkpoint.by]
    OBVIOUS
  <2>2. r.pc = "useGrant" /\ r.grant = checkpoint.by /\ r.consent = call[c].consent
    BY <1>1, <2>1 DEF CallType
  <2>3. call'[c] = r /\ \A d \in Calls \ {c} : call'[d] = call[d]
    BY <1>3, <2>1 DEF UsesCheckpoint, Become, IInv, TypeOK
  <2>4. ASSUME Sequential
        PROVE  UsedUp(c)' /\ \A d \in Calls \ {c} :
                 /\ call[d].consent # NoCall => \A s \in confirms' : s.by # call[d].consent
                 /\ call[d].consent = call'[c].consent => call[d].consent = NoCall
                 /\ call[d].grant = call'[c].grant => call[d].grant = NoCall
    <3>1. /\ (\A d \in Calls : UsedUp(d)) /\ Once
          /\ \A d \in Calls \ {c} : call[d].pc \in {"idle", "done"}
      BY <1>1, <2>4, Alone
    <3>2. UsedUp(c)'
      BY <1>1, <2>2, <2>3, <3>1 DEF UsedUp
    <3>3. ASSUME NEW d \in Calls \ {c}, call[d].grant = call'[c].grant
          PROVE  call[d].grant = NoCall
      BY <2>2, <2>3, <3>1, <3>3 DEF UsedUp
    <3>4. ASSUME NEW d \in Calls \ {c}
          PROVE  /\ call[d].consent # NoCall => \A s \in confirms' : s.by # call[d].consent
                 /\ call[d].consent = call'[c].consent => call[d].consent = NoCall
      BY <1>1, <2>2, <2>3, <3>1 DEF UsedUp, Once
    <3> QED
      BY <3>2, <3>3, <3>4
  <2> QED
    BY <1>1, <2>2, <2>3, <2>4, ConsentSpent
<1> QED
  BY <1>2, <1>3 DEF Approval

LEMMA UseGrantSpends ==
  ASSUME IInv, JInv, KInv, NEW c \in Calls, UseGrant(c)
  PROVE  KInv'
<1>1. /\ UNCHANGED <<fn, confirms>> /\ call[c].pc = "useGrant" /\ call[c].pc \in Consents
      /\ call[c] \in CallType /\ Active(c) /\ checkpoint' \in {checkpoint, NoCheckpoint}
      /\ Goto(c, "confirm")
  BY DEF UseGrant, At, Consents, IInv, TypeOK, Active
<1>2. PICK r : r = [call[c] EXCEPT !.pc = "confirm"]
  OBVIOUS
<1>3. r.pc = "confirm" /\ r.grant = call[c].grant /\ r.consent = call[c].consent
  BY <1>1, <1>2 DEF CallType
<1>4. call'[c] = r /\ \A d \in Calls \ {c} : call'[d] = call[d]
  BY <1>1, <1>2 DEF Goto, Become, IInv, TypeOK
<1>5. ASSUME Sequential
      PROVE  UsedUp(c)' /\ \A d \in Calls \ {c} :
               /\ call[d].consent # NoCall => \A s \in confirms' : s.by # call[d].consent
               /\ call[d].consent = call'[c].consent => call[d].consent = NoCall
               /\ call[d].grant = call'[c].grant => call[d].grant = NoCall
  <2>1. (\A d \in Calls : UsedUp(d)) /\ Once
    BY <1>1, <1>5, Alone
  <2>2. checkpoint'.by = NoCall
    BY <1>5 DEF UseGrant, Sequential, NoCheckpoint
  <2>3. UsedUp(c)'
    BY <1>1, <1>3, <1>4, <2>1, <2>2 DEF UsedUp
  <2>4. ASSUME NEW d \in Calls \ {c}
        PROVE  /\ call[d].consent # NoCall => \A s \in confirms' : s.by # call[d].consent
               /\ call[d].consent = call'[c].consent => call[d].consent = NoCall
               /\ call[d].grant = call'[c].grant => call[d].grant = NoCall
    BY <1>1, <1>3, <1>4, <2>1 DEF UsedUp, Once
  <2> QED
    BY <2>3, <2>4
<1> QED
  BY <1>1, <1>3, <1>4, <1>5, ConsentSpent

\* The confirmations change: none appears that another call has used.
LEMMA ConfirmsChange ==
  ASSUME IInv, JInv, KInv, NEW c \in Calls, call[c].pc \in Consents \ {"useGrant"},
         UNCHANGED <<fn, checkpoint>>, NEW r, Become(c, r), r.pc # "idle", r.grant = call[c].grant,
         r.pc \in {"extract", "useConsent"} => \E s \in confirms' : s.by = r.state,
         \A s \in confirms' : s.by = c \/ \E t \in confirms : t.by = s.by,
         \/ r.consent = call[c].consent
         \/ ~DbFails => /\ \E s \in confirms : s.by = r.consent
                        /\ \A s \in confirms' : s.by # r.consent
  PROVE  KInv'
<1>1. call'[c] = r /\ \A d \in Calls \ {c} : call'[d] = call[d]
  BY DEF Become, IInv, TypeOK
<1>2. Active(c) /\ ~Waits(call[c])
  BY DEF Active, Waits, Consents
<1>3. \A d \in Calls : call[d].consent # c
  <2>1. c # NoCall
    BY ConstantsAssumption
  <2> QED
    BY <1>2, <2>1 DEF JInv, Links
<1>4. ASSUME Sequential
      PROVE  UsedUp(c)' /\ \A d \in Calls \ {c} :
               /\ call[d].consent # NoCall => \A s \in confirms' : s.by # call[d].consent
               /\ call[d].consent = call'[c].consent => call[d].consent = NoCall
               /\ call[d].grant = call'[c].grant => call[d].grant = NoCall
  <2>1. (\A d \in Calls : UsedUp(d)) /\ Once /\ ~DbFails
    BY <1>2, <1>4, Alone DEF Sequential
  <2>2. ASSUME NEW d \in Calls, call[d].consent # NoCall, NEW s \in confirms'
        PROVE  s.by # call[d].consent
    BY <1>3, <2>1, <2>2 DEF UsedUp
  <2>3. UsedUp(c)'
    BY <1>1, <2>1, <2>2 DEF UsedUp
  <2>4. ASSUME NEW d \in Calls \ {c}, call[d].consent = r.consent
        PROVE  call[d].consent = NoCall
    <3>1. CASE r.consent = call[c].consent
      BY <2>1, <2>4, <3>1 DEF Once
    <3>2. CASE \E s \in confirms : s.by = r.consent
      BY <2>1, <2>4, <3>2 DEF UsedUp
    <3> QED
      BY <2>1, <3>1, <3>2
  <2>5. \A d \in Calls \ {c} : call[d].grant = r.grant => call[d].grant = NoCall
    BY <2>1 DEF Once
  <2> QED
    BY <1>1, <2>2, <2>3, <2>4, <2>5
<1> QED
  BY <1>1, <1>4, ConsentSpent

LEMMA ConfirmSpends ==
  ASSUME IInv, JInv, KInv, NEW c \in Calls, Confirm(c)
  PROVE  KInv'
<1>1. /\ UNCHANGED <<fn, checkpoint>> /\ call[c].pc \in Consents \ {"useGrant"} /\ call[c] \in CallType
      /\ confirms' \subseteq confirms
  BY DEF Confirm, At, Consents, IInv, TypeOK
<1>2. CASE UNCHANGED confirms /\ (Goto(c, "start") \/ Goto(c, "ask") \/ Return(c, "failed", "none"))
  BY <1>1, <1>2, ConsentQuiet
<1>3. CASE Goto(c, "ask")
  <2>1. PICK r : r = [call[c] EXCEPT !.pc = "ask"]
    OBVIOUS
  <2>2. r.pc = "ask" /\ r.grant = call[c].grant /\ r.consent = call[c].consent
    BY <1>1, <2>1 DEF CallType
  <2> QED
    BY <1>1, <1>3, <2>1, <2>2, ConfirmsChange DEF Goto
<1>4. ASSUME UNCHANGED confirms, NEW s \in Matching(c),
             Become(c, [call[c] EXCEPT !.state = s.by,
                                       !.pc = IF s.confirmed THEN "useConsent" ELSE "extract"])
      PROVE  KInv'
  <2>1. PICK p : p = IF s.confirmed THEN "useConsent" ELSE "extract"
    OBVIOUS
  <2>2. PICK r : r = [call[c] EXCEPT !.state = s.by, !.pc = p]
    OBVIOUS
  <2>3. r.pc # "idle" /\ r.state = s.by /\ r.grant = call[c].grant /\ r.consent = call[c].consent
    BY <1>1, <2>1, <2>2 DEF CallType
  <2>4. s \in confirms'
    BY <1>4 DEF Matching, SameInputs
  <2> QED
    BY <1>1, <1>4, <2>1, <2>2, <2>3, <2>4, ConfirmsChange
<1> QED
  BY <1>2, <1>3, <1>4 DEF Confirm

LEMMA AskSpends ==
  ASSUME IInv, JInv, KInv, NEW c \in Calls, Ask(c)
  PROVE  KInv'
<1>1. /\ UNCHANGED <<fn, checkpoint>> /\ call[c].pc \in Consents \ {"useGrant"} /\ call[c] \in CallType
  BY DEF Ask, At, Consents, IInv, TypeOK
<1>2. CASE /\ Pause(c, "confirmation")
           /\ \A s \in confirms' : s.by = c \/ s \in confirms
  <2>1. PICK r : r = [call[c] EXCEPT !.pc = "onPending", !.status = "pending",
                                     !.todo = fn.onPending, !.asked = "confirmation"]
    OBVIOUS
  <2>2. r.pc = "onPending" /\ r.grant = call[c].grant /\ r.consent = call[c].consent
    BY <1>1, <2>1 DEF CallType
  <2> QED
    BY <1>1, <1>2, <2>1, <2>2, ConfirmsChange DEF Pause
<1>3. CASE UNCHANGED confirms /\ Return(c, "failed", "none")
  BY <1>1, <1>3, ConsentQuiet
<1> QED
  BY <1>2, <1>3 DEF Ask

LEMMA ExtractSpends ==
  ASSUME IInv, JInv, KInv, NEW c \in Calls, Extract(c)
  PROVE  KInv'
<1>1. /\ UNCHANGED <<fn, checkpoint>> /\ call[c].pc = "extract" /\ call[c].pc \in Consents \ {"useGrant"}
      /\ call[c] \in CallType /\ Active(c)
  BY DEF Extract, At, Consents, IInv, TypeOK, Active
<1>2. CASE UNCHANGED confirms /\ (Pause(c, "confirmation") \/ Return(c, "failed", "none"))
  BY <1>1, <1>2, ConsentQuiet
<1>3. CASE Goto(c, "useConsent")
  <2>1. PICK r : r = [call[c] EXCEPT !.pc = "useConsent"]
    OBVIOUS
  <2>2. /\ r.pc = "useConsent" /\ r.grant = call[c].grant /\ r.consent = call[c].consent
        /\ r.state = call[c].state
    BY <1>1, <2>1 DEF CallType
  <2>3. \A s \in confirms : [s EXCEPT !.confirmed = TRUE].by = s.by
    BY DEF IInv, TypeOK, Confirmation
  <2>4. StatesBy(call[c].state) \subseteq confirms
    BY DEF StatesBy
  <2>5. /\ \A s \in confirms' : \E t \in confirms : t.by = s.by
        /\ \A t \in confirms : \E s \in confirms' : t.by = s.by
    <3>1. CASE confirms' = confirms
      BY <3>1
    <3>2. CASE confirms' = (confirms \ StatesBy(call[c].state)) \cup
                             {[s EXCEPT !.confirmed = TRUE] : s \in StatesBy(call[c].state)}
      BY <2>3, <2>4, <3>2
    <3> QED
      BY <3>1, <3>2 DEF Extract
  <2>6. ASSUME Sequential PROVE \E s \in confirms' : s.by = r.state
    BY <1>1, <2>2, <2>5, <2>6, Alone DEF UsedUp
  <2>7. CASE Sequential
    BY <1>1, <1>3, <2>1, <2>2, <2>5, <2>6, <2>7, ConfirmsChange DEF Goto
  <2>8. CASE ~Sequential
    BY <1>1, <2>8 DEF KInv, Sequential, DbFails
  <2> QED
    BY <2>7, <2>8
<1> QED
  BY <1>2, <1>3 DEF Extract

LEMMA UseConsentSpends ==
  ASSUME IInv, JInv, KInv, NEW c \in Calls, UseConsent(c)
  PROVE  KInv'
<1>1. /\ UNCHANGED <<fn, checkpoint>> /\ call[c].pc = "useConsent" /\ call[c].pc \in Consents \ {"useGrant"}
      /\ call[c] \in CallType /\ Active(c) /\ confirms' \subseteq confirms
  BY DEF UseConsent, At, Consents, IInv, TypeOK, Active
<1>2. PICK r : r = [call[c] EXCEPT !.pc = "start", !.consent = call[c].state]
  OBVIOUS
<1>3. r.pc = "start" /\ r.grant = call[c].grant /\ r.consent = call[c].state
  BY <1>1, <1>2 DEF CallType
<1>4. ~DbFails => \A s \in confirms' : s.by # r.consent
  BY <1>3 DEF UseConsent, StatesBy
<1>5. ASSUME Sequential PROVE \E s \in confirms : s.by = r.consent
  BY <1>1, <1>3, <1>5, Alone DEF UsedUp
<1>6. CASE Sequential
  BY <1>1, <1>2, <1>3, <1>4, <1>5, <1>6, ConfirmsChange DEF UseConsent
<1>7. CASE ~Sequential
  BY <1>1, <1>7 DEF KInv, Sequential, DbFails
<1> QED
  BY <1>6, <1>7

\* A call of a sequential instance begins when no other is active.
LEMMA BeginsAlone ==
  ASSUME KInv, NEW c \in Calls, Begin(c), Sequential
  PROVE  \A d \in Calls : ~Active(d)
<1> DEFINE A == {d \in Calls : Active(d)}
<1>1. Cardinality(A) < 1
  BY DEF Begin, Sequential
<1>2. ASSUME NEW d \in A PROVE FALSE
  <2>1. A = {d}
    BY <1>2 DEF KInv, OneActs
  <2>2. Cardinality({d}) = 1
    BY FS_Singleton
  <2> QED
    BY <1>1, <2>1, <2>2
<1> QED
  BY <1>2

LEMMA BeginSpends ==
  ASSUME IInv, JInv, KInv, NEW c \in Calls, Begin(c)
  PROVE  KInv'
<1>1. UNCHANGED <<fn, confirms, checkpoint>> /\ call[c].pc = "idle"
  BY DEF Begin, stores, At
<1>2. Plain(c)
  <2>1. "earlyCache" \in Stages \ {"idle", "extract", "useConsent"}
    BY DEF Stages, Gates
  <2> QED
    BY <2>1, GotoPlain, ReturnPlain DEF Begin, ReturnAsIs
<1>3. Sequential => \A d \in Calls : ~Active(d)
  BY BeginsAlone
<1> QED
  BY <1>1, <1>2, <1>3, Plainly

LEMMA EnvironmentSpends ==
  ASSUME IInv, JInv, KInv, Environment
  PROVE  KInv'
<1>1. ASSUME NEW c \in Calls, CreateCheckpoint(c) PROVE KInv'
  <2>1. /\ UNCHANGED <<fn, confirms>> /\ checkpoint'.by = c /\ call[c].pc = "done"
        /\ call[c].asked = "approval" /\ call[c] \in CallType
    BY <1>1 DEF CreateCheckpoint, At, IInv, TypeOK
  <2>2. PICK r : r = [call[c] EXCEPT !.asked = "nothing"]
    OBVIOUS
  <2>3. /\ r.pc = "done" /\ r.asked = "nothing" /\ r.consent = call[c].consent /\ r.grant = call[c].grant
    BY <2>1, <2>2 DEF CallType
  <2>4. call'[c] = r /\ \A d \in Calls \ {c} : call'[d] = call[d]
    BY <1>1, <2>2 DEF CreateCheckpoint, Become, IInv, TypeOK
  <2>5. ASSUME Sequential
        PROVE  OneActs' /\ (\A d \in Calls : UsedUp(d)') /\ Settled' /\ Once'
    <3>1. OneActs /\ (\A d \in Calls : UsedUp(d)) /\ Settled /\ Once
      BY <2>5 DEF KInv
    <3>2. OneActs'
      BY <2>1, <2>3, <2>4, <3>1 DEF OneActs, Active
    <3>3. \A d \in Calls : call[d].grant # NoCall => call[d].grant # c
      BY <2>1, <3>1 DEF Settled
    <3>4. \A d \in Calls : UsedUp(d)'
      BY <2>1, <2>3, <2>4, <3>1, <3>3 DEF UsedUp
    <3>5. \A d \in Calls : call'[d].grant = call[d].grant
      BY <2>3, <2>4
    <3>6. \A d \in Calls : call[d].asked # "approval" => call'[d].asked # "approval"
      BY <2>3, <2>4
    <3>7. \A d \in Calls : call[d].grant \in Calls \cup {NoCall}
      BY DEF IInv, TypeOK, CallType
    <3>8. Settled'
      BY <2>1, <2>3, <2>4, <3>1, <3>5, <3>6, <3>7 DEF Settled
    <3>9. Once'
      BY <2>3, <2>4, <3>1 DEF Once
    <3> QED
      BY <3>2, <3>4, <3>8, <3>9
  <2> QED
    BY <2>1, <2>5 DEF KInv, Sequential, DbFails
<1>2. ASSUME UNCHANGED <<fn, call>>, checkpoint'.by = checkpoint.by,
             \A s \in confirms' : \E t \in confirms : t.by = s.by,
             \A t \in confirms : \E s \in confirms' : t.by = s.by
      PROVE  KInv'
  <2>1. ASSUME Sequential
        PROVE  OneActs' /\ (\A d \in Calls : UsedUp(d)') /\ Settled' /\ Once'
    BY <1>2, <2>1 DEF KInv, OneActs, Active, UsedUp, Settled, Once
  <2> QED
    BY <1>2, <2>1 DEF KInv, Sequential, DbFails
<1>3. CASE Grant
  BY <1>2, <1>3 DEF Grant, IInv, TypeOK, Checkpoint
<1>4. CASE ConfirmationExpires
  <2>1. PICK s \in confirms : confirms' = (confirms \ {s}) \cup {[s EXCEPT !.expired = TRUE]}
    BY <1>4 DEF ConfirmationExpires
  <2>2. [s EXCEPT !.expired = TRUE].by = s.by
    BY DEF IInv, TypeOK, Confirmation
  <2>3. /\ \A u \in confirms' : \E t \in confirms : t.by = u.by
        /\ \A t \in confirms : \E u \in confirms' : t.by = u.by
    BY <2>1, <2>2
  <2> QED
    BY <1>2, <1>4, <2>3 DEF ConfirmationExpires
<1>5. CASE CacheExpires
  BY <1>2, <1>5 DEF CacheExpires
<1> QED
  BY <1>1, <1>3, <1>4, <1>5 DEF Environment

LEMMA InitKInv == Init => KInv
<1> SUFFICES ASSUME Init PROVE KInv
  OBVIOUS
<1>1. \A c \in Calls :
        call[c].pc = "idle" /\ call[c].consent = NoCall /\ call[c].grant = NoCall
  BY DEF Init, NewCall
<1>2. checkpoint.by = NoCall
  BY DEF Init, NoCheckpoint
<1> QED
  BY <1>1, <1>2 DEF KInv, OneActs, Active, UsedUp, Settled, Once

LEMMA NextKInv ==
  ASSUME IInv, JInv, KInv, [Next]_vars
  PROVE  KInv'
<1>1. CASE AllDone \/ UNCHANGED vars
  BY <1>1 DEF AllDone, vars, KInv, Sequential, DbFails, OneActs, Active, UsedUp, Settled, Once
<1>2. CASE Environment
  BY <1>2, EnvironmentSpends
<1>3. ASSUME NEW c \in Calls, Begin(c) \/ Step(c)
      PROVE  KInv'
  BY <1>3, BeginSpends, PlainStep, ApprovalSpends, UseGrantSpends, ConfirmSpends, AskSpends,
     ExtractSpends, UseConsentSpends
  DEF Step, Consent
<1> QED
  BY <1>1, <1>2, <1>3 DEF Next

\* Called one after the other and with a working database, no two calls act
\* on the same confirmation or the same approval: checkUserConfirmation and
\* checkTeamApproval delete what they act on before the operation starts.
THEOREM ConsentSpentOnce == Spec => []OneTimeConsent
<1>1. Init => IInv /\ JInv /\ KInv
  BY InitIInv, InitJInv, InitKInv
<1>2. IInv /\ JInv /\ KInv /\ [Next]_vars => (IInv /\ JInv /\ KInv)'
  BY NextIInv, NextJInv, NextKInv
<1>3. KInv => OneTimeConsent
  BY DEF KInv, Sequential, Once, OneTimeConsent
<1> QED
  BY <1>1, <1>2, <1>3, PTL DEF Spec

-----------------------------------------------------------------------------
(* The call rule.                                                          *)

\* Calls one after the other that keep their inputs, under a rule.
Ruled == Sequential /\ fn.reRun # "fresh" /\ fn.rule # "multiple"

\* Past the look at the execution records.
Past == {"prepare", "successInputs", "cacheLookup"} \cup Consents \cup Operating
Looked == Past \cup {"fulfil", "uniqueRule"}
Passed(q) == q.runs > 0 \/ q.pc \in (IF fn.rule = "unique" THEN Past ELSE Looked)

\* No other call has a record that forbids c to run.
Clear(c) ==
  \A d \in Calls \ {c} : \A i \in DOMAIN rows[d] :
    Counts(rows[d][i]) => fn.rule = "unique" /\ rows[d][i].hash # call[c].input

Kept(c) ==
  /\ call[c].ranOn \subseteq {call[c].input}
  /\ call[c].ranOn # {} => call[c].runs > 0
  /\ fn.rule = "unique" /\ Passed(call[c]) => call[c].hash = call[c].input
  /\ fn.rule = "unique" /\ Passed(call[c]) /\ rows[c] # <<>> => rows[c][1].hash = call[c].input
  /\ Passed(call[c]) /\ ~Done(c) => Clear(c)

LInv == Ruled => (\A c \in Calls : Kept(c)) /\ RuleKept

LEMMA RuleStep ==
  ASSUME IInv, JInv, KInv, LInv, NEW c \in Calls, UNCHANGED fn,
         \A d \in Calls \ {c} : call'[d] = call[d] /\ rows'[d] = rows[d],
         Sequential => \A d \in Calls \ {c} : ~Active(d),
         call[c].pc # "done",
         call'[c].pc = "done" =>
           /\ call'[c].runs = call[c].runs /\ call'[c].ranOn = call[c].ranOn
           /\ call'[c].input = call[c].input,
         Ruled => Kept(c)'
  PROVE  LInv'
<1>1. ASSUME Ruled
      PROVE  (\A d \in Calls : Kept(d)') /\ RuleKept'
  <2>1. (\A d \in Calls : Kept(d)) /\ RuleKept /\ Sequential /\ fn.rule \in {"once", "unique"}
    BY <1>1, ConstantsAssumption DEF LInv, Ruled, IInv, TypeOK, FunctionType
  <2>2. ASSUME NEW d \in Calls \ {c} PROVE Kept(d)'
    <3>1. call[d].pc \in {"idle", "done"} /\ call'[d] = call[d] /\ rows'[d] = rows[d]
      BY <2>1 DEF Active
    <3>2. call[d].pc = "idle" => ~Passed(call[d])
      <4>1. call[d].pc = "idle" => call[d].runs = 0
        BY DEF JInv, Local, Fresh
      <4> QED
        BY <3>1, <4>1 DEF Passed, Past, Looked, Consents, Operating
    <3>3. Kept(d)
      BY <2>1
    <3>4. Passed(call'[d]) => call[d].pc = "done"
      BY <3>1, <3>2
    <3>5. Passed(call[d])' => Passed(call[d])
      BY <3>1 DEF Passed
    <3> QED
      BY <3>1, <3>2, <3>3, <3>5 DEF Kept, Done, At
  <2>3. \A d \in Calls : rows'[d] = rows[d] => (Counts(rows[d][1])' <=> Counts(rows[d][1]))
    BY DEF Counts
  <2>4. ASSUME NEW d \in Calls \ {c}, Done(c)', Done(d)',
               \/ fn.rule = "once" /\ call'[c].runs > 0 /\ call'[d].runs > 0
               \/ fn.rule = "unique" /\ call'[c].ranOn \cap call'[d].ranOn # {}
        PROVE  ~Counts(rows[d][1])'
    <3>1. /\ call'[c].runs = call[c].runs /\ call'[c].ranOn = call[c].ranOn
          /\ call'[d] = call[d] /\ rows'[d] = rows[d] /\ Done(d)
      BY <2>4 DEF Done, At
    <3>2. Kept(c) /\ Kept(d)
      BY <2>1
    <3>3. call[c].runs > 0 /\ call[d].runs > 0
      BY <2>4, <3>1, <3>2 DEF Kept
    <3>4. Passed(call[c]) /\ Passed(call[d]) /\ ~Done(c)
      BY <3>3 DEF Passed, Done, At
    <3>5. Clear(c)
      BY <3>2, <3>4 DEF Kept
    <3>6. rows[d] # <<>> /\ rows[d] \in Seq(Row)
      <4>1. call[d].runs # 0
        BY <3>3 DEF IInv, TypeOK, CallType
      <4> QED
        BY <2>1, <3>1, <4>1 DEF JInv, Local, Done, At, Sequential, IInv, TypeOK
    <3>7. 1 \in DOMAIN rows[d]
      BY <3>6
    <3>8. fn.rule = "unique" => rows[d][1].hash = call[c].input
      BY <2>4, <3>1, <3>2, <3>4, <3>6 DEF Kept
    <3>9. ~Counts(rows[d][1])
      BY <2>4, <3>5, <3>7, <3>8 DEF Clear
    <3> QED
      BY <2>3, <3>1, <3>9
  <2>5. RuleKept'
    <3> SUFFICES ASSUME NEW x \in Calls, NEW y \in Calls, x # y, Done(x)', Done(y)',
                        \/ fn.rule = "once" /\ call'[x].runs > 0 /\ call'[y].runs > 0
                        \/ fn.rule = "unique" /\ call'[x].ranOn \cap call'[y].ranOn # {}
                 PROVE  \E e \in {x, y} : ~Counts(rows[e][1])'
      BY DEF RuleKept
    <3>1. CASE x = c
      BY <2>4, <3>1
    <3>2. CASE y = c
      BY <2>4, <3>2
    <3>3. CASE x # c /\ y # c
      <4>1. Done(x) /\ Done(y) /\ call'[x] = call[x] /\ call'[y] = call[y]
            /\ rows'[x] = rows[x] /\ rows'[y] = rows[y]
        BY <3>3 DEF Done, At
      <4>2. \E e \in {x, y} : ~Counts(rows[e][1])
        BY <1>1, <2>1, <4>1 DEF RuleKept, Ruled, Sequential
      <4> QED
        BY <2>3, <4>1, <4>2
    <3> QED
      BY <3>1, <3>2, <3>3
  <2>6. Kept(c)'
    BY <1>1
  <2> QED
    BY <2>2, <2>5, <2>6
<1> QED
  BY <1>1 DEF LInv, Ruled, Sequential, DbFails

\* A step at a gate: what it takes to be let through.
LEMMA GateRule ==
  ASSUME IInv, JInv, KInv, LInv, NEW c \in Calls, call[c].pc \in Gates, UNCHANGED <<fn, rows>>,
         NEW r, Become(c, r), r.runs = call[c].runs, r.ranOn = call[c].ranOn, r.pc # "done",
         Ruled /\ r.pc \in (IF fn.rule = "unique" THEN Past ELSE Looked) =>
           /\ fn.rule = "unique" => r.hash = r.input
           /\ \A d \in Calls \ {c} : \A i \in DOMAIN rows[d] :
                Counts(rows[d][i]) => fn.rule = "unique" /\ rows[d][i].hash # r.input
  PROVE  LInv'
<1>1. /\ call'[c] = r /\ \A d \in Calls \ {c} : call'[d] = call[d] /\ rows'[d] = rows[d]
      /\ rows' = rows
  BY DEF Become, IInv, TypeOK
<1>2. /\ call[c].runs = 0 /\ call[c].pc # "done" /\ Active(c)
  BY GateStage, FreshStage DEF JInv, Local, Active, Fresh, Gates
<1>3. Sequential => \A d \in Calls \ {c} : ~Active(d)
  BY <1>2 DEF KInv, OneActs
<1>4. rows[c] = <<>>
  BY <1>2 DEF IInv, CallInv, BeforeRecord
<1>5. ASSUME Ruled PROVE Kept(c)'
  <2>1. call[c].ranOn = {}
    BY <1>2, <1>5 DEF LInv, Kept
  <2>2. Passed(call[c])' => r.pc \in (IF fn.rule = "unique" THEN Past ELSE Looked)
    BY <1>1, <1>2 DEF Passed
  <2>3. Passed(call[c])' => Clear(c)'
    BY <1>1, <1>5, <2>2 DEF Clear, Counts
  <2> QED
    BY <1>1, <1>2, <1>4, <1>5, <2>1, <2>2, <2>3 DEF Kept
<1> QED
  BY <1>1, <1>2, <1>3, <1>5, RuleStep

\* A step after the rule: inputs and hash stay, at most the operation runs.
Calm(c) ==
  /\ \A d \in Calls \ {c} : call'[d] = call[d]
  /\ call'[c].input = call[c].input /\ call'[c].hash = call[c].hash
  /\ \/ call'[c].runs = call[c].runs /\ call'[c].ranOn = call[c].ranOn
     \/ /\ call[c].pc \in Past /\ call'[c].pc # "done" /\ call'[c].runs > 0
        /\ call'[c].ranOn = call[c].ranOn \cup {call[c].input}
  /\ call'[c].pc \in Looked => call[c].pc \in Past

LEMMA CalmStep ==
  ASSUME IInv, JInv, KInv, LInv, NEW c \in Calls, Calm(c), UNCHANGED fn, Active(c),
         rows' = rows \/ \E s : Record(c, s)
  PROVE  LInv'
<1>1. call[c].pc # "done" /\ rows \in [Calls -> Seq(Row)]
  BY DEF Active, IInv, TypeOK
<1>2. Sequential => \A d \in Calls \ {c} : ~Active(d)
  BY DEF KInv, OneActs
<1>3. /\ \A d \in Calls \ {c} : rows'[d] = rows[d]
      /\ rows'[c] = rows[c] \/ \E s : rows'[c] = Append(rows[c], RowOf(c, s))
  BY <1>1 DEF Record
<1>4. ASSUME Ruled PROVE Kept(c)'
  <2>1. Kept(c)
    BY <1>4 DEF LInv
  <2>2. Passed(call'[c]) => Passed(call[c])
    BY DEF Calm, Passed, Looked
  <2>3. Passed(call[c])' => Passed(call[c])
    BY DEF Calm, Passed, Looked
  <2>4. Passed(call[c])' => Clear(c)'
    BY <1>1, <1>3, <2>1, <2>3 DEF Kept, Clear, Counts, Calm, Done, At
  <2>5. ASSUME fn.rule = "unique", Passed(call[c])', rows'[c] # <<>>
        PROVE  rows'[c][1].hash = call'[c].input
    <3>1. call[c].hash = call[c].input /\ call'[c].input = call[c].input
      BY <2>1, <2>3, <2>5 DEF Kept, Calm
    <3>2. rows[c] # <<>> => rows[c][1].hash = call[c].input
      BY <2>1, <2>3, <2>5 DEF Kept
    <3>3. CASE rows'[c] = rows[c]
      BY <2>5, <3>1, <3>2, <3>3
    <3>4. ASSUME NEW s, rows'[c] = Append(rows[c], RowOf(c, s)) PROVE rows'[c][1].hash = call'[c].input
      <4>1. RowOf(c, s).hash = call[c].input
        BY <3>1 DEF RowOf
      <4>2. rows[c] \in Seq(Row)
        BY <1>1
      <4>3. CASE rows[c] = <<>>
        BY <3>1, <3>4, <4>1, <4>3
      <4>4. CASE rows[c] # <<>>
        <5>1. Append(rows[c], RowOf(c, s))[1] = rows[c][1]
          BY <4>2, <4>4
        <5> QED
          BY <3>1, <3>2, <3>4, <4>4, <5>1
      <4> QED
        BY <4>3, <4>4
    <3> QED
      BY <1>3, <3>3, <3>4
  <2>6. fn.rule = "unique" /\ Passed(call[c])' => call'[c].hash = call'[c].input
    BY <2>1, <2>3 DEF Kept, Calm
  <2>7. call'[c].ranOn \subseteq {call'[c].input} /\ (call'[c].ranOn # {} => call'[c].runs > 0)
    BY <2>1 DEF Kept, Calm
  <2> QED
    BY <2>4, <2>5, <2>6, <2>7 DEF Kept
<1>5. call'[c].pc = "done" =>
        /\ call'[c].runs = call[c].runs /\ call'[c].ranOn = call[c].ranOn
        /\ call'[c].input = call[c].input
  BY DEF Calm
<1> QED
  BY <1>1, <1>2, <1>3, <1>4, <1>5, RuleStep DEF Calm

\* A gate that does not let the call on to the rule, or leads on from it.
LEMMA GateAside ==
  ASSUME IInv, JInv, KInv, LInv, NEW c \in Calls, call[c].pc \in Gates, UNCHANGED <<fn, rows>>,
         \/ \E p \in (Gates \cup {"approval"}) \ {"fulfil", "uniqueRule"} :
              Goto(c, p) /\ (p \in Past => call[c].pc \in Past)
         \/ \E s, e : Return(c, s, e)
         \/ \E w : Pause(c, w)
         \/ FailEarly(c) \/ ReturnCached(c)
  PROVE  LInv'
<1>1. call[c] \in CallType /\ call[c].pc # "done"
  BY DEF IInv, TypeOK, Gates
<1>2. {"defer", "onPending", "recordFailure"} \cap Looked = {} /\ Past \subseteq Looked /\ "done" \notin Gates
  BY DEF Looked, Past, Gates, Consents, Operating
<1>3. ASSUME NEW r, Become(c, r), r.runs = call[c].runs, r.ranOn = call[c].ranOn, r.input = call[c].input,
             r.hash = call[c].hash, r.pc # "done",
             r.pc \in Looked => r.pc \in Past /\ call[c].pc \in Past
      PROVE  LInv'
  <2>1. ASSUME Ruled, r.pc \in (IF fn.rule = "unique" THEN Past ELSE Looked)
        PROVE  /\ fn.rule = "unique" => r.hash = r.input
               /\ \A d \in Calls \ {c} : \A i \in DOMAIN rows[d] :
                    Counts(rows[d][i]) => fn.rule = "unique" /\ rows[d][i].hash # r.input
    <3>1. Kept(c) /\ Passed(call[c])
      BY <1>2, <1>3, <2>1 DEF LInv, Passed
    <3> QED
      BY <1>1, <1>3, <3>1 DEF Kept, Clear, Done, At
  <2> QED
    BY <1>3, <2>1, GateRule
<1>4. ASSUME NEW p \in (Gates \cup {"approval"}) \ {"fulfil", "uniqueRule"}, Goto(c, p),
             p \in Past => call[c].pc \in Past
      PROVE  LInv'
  <2>1. PICK r : r = [call[c] EXCEPT !.pc = p]
    OBVIOUS
  <2>2. /\ r.runs = call[c].runs /\ r.ranOn = call[c].ranOn /\ r.input = call[c].input
        /\ r.hash = call[c].hash /\ r.pc = p /\ p # "done" /\ (p \in Looked => p \in Past)
    BY <1>1, <1>2, <2>1 DEF CallType, Looked
  <2> QED
    BY <1>3, <1>4, <2>1, <2>2 DEF Goto
<1>5. ASSUME NEW s, NEW e, Return(c, s, e) PROVE LInv'
  <2>1. PICK r : r = [call[c] EXCEPT !.pc = "defer", !.status = s, !.ret = e]
    OBVIOUS
  <2>2. /\ r.runs = call[c].runs /\ r.ranOn = call[c].ranOn /\ r.input = call[c].input
        /\ r.hash = call[c].hash /\ r.pc = "defer"
    BY <1>1, <2>1 DEF CallType
  <2> QED
    BY <1>2, <1>3, <1>5, <2>1, <2>2 DEF Return
<1>6. ASSUME NEW w, Pause(c, w) PROVE LInv'
  <2>1. PICK r : r = [call[c] EXCEPT !.pc = "onPending", !.status = "pending",
                                     !.todo = fn.onPending, !.asked = w]
    OBVIOUS
  <2>2. /\ r.runs = call[c].runs /\ r.ranOn = call[c].ranOn /\ r.input = call[c].input
        /\ r.hash = call[c].hash /\ r.pc = "onPending"
    BY <1>1, <2>1 DEF CallType
  <2> QED
    BY <1>2, <1>3, <1>6, <2>1, <2>2 DEF Pause
<1>7. ASSUME NEW r, Become(c, r),
             \/ r = [call[c] EXCEPT !.pc = "defer", !.status = "failed", !.stored = TRUE,
                                    !.hooks = @ \cup {"afterCompletion"}]
             \/ r = [call[c] EXCEPT !.pc = "recordFailure", !.status = "failed"]
             \/ r = [call[c] EXCEPT !.pc = "defer", !.worked = TRUE]
      PROVE  LInv'
  <2>1. /\ r.runs = call[c].runs /\ r.ranOn = call[c].ranOn /\ r.input = call[c].input
        /\ r.hash = call[c].hash /\ r.pc \in {"defer", "recordFailure"}
    BY <1>1, <1>7 DEF CallType
  <2> QED
    BY <1>2, <1>3, <1>7, <2>1
<1> QED
  BY <1>4, <1>5, <1>6, <1>7 DEF FailEarly, ReturnCached

LEMMA OnceRuleLets ==
  ASSUME IInv, JInv, KInv, LInv, NEW c \in Calls, OnceRule(c)
  PROVE  LInv'
<1>1. call[c].pc \in Gates /\ UNCHANGED <<fn, rows>> /\ call[c] \in CallType /\ rows \in [Calls -> Seq(Row)]
  BY DEF OnceRule, At, Gates, stores, IInv, TypeOK
<1>2. CASE Return(c, "failed", "none")
  BY <1>1, <1>2, GateAside
<1>3. CASE Goto(c, "fulfil") /\ (fn.rule # "once" \/ Executed = {})
  <2>1. PICK r : r = [call[c] EXCEPT !.pc = "fulfil"]
    OBVIOUS
  <2>2. r.pc = "fulfil" /\ r.runs = call[c].runs /\ r.ranOn = call[c].ranOn
    BY <1>1, <2>1 DEF CallType
  <2>3. ASSUME Ruled, r.pc \in (IF fn.rule = "unique" THEN Past ELSE Looked)
        PROVE  fn.rule # "unique" /\ Executed = {}
    <3>1. fn.rule \in {"multiple", "once", "unique"}
      BY ConstantsAssumption DEF IInv, TypeOK, FunctionType
    <3>2. "fulfil" \notin Past
      BY DEF Past, Consents, Operating
    <3> QED
      BY <1>3, <2>2, <2>3, <3>1, <3>2 DEF Ruled
  <2>4. ASSUME Executed = {}, NEW d \in Calls, NEW i \in DOMAIN rows[d] PROVE ~Counts(rows[d][i])
    BY <2>4 DEF Executed
  <2> QED
    BY <1>1, <1>3, <2>1, <2>2, <2>3, <2>4, GateRule DEF Goto
<1> QED
  BY <1>2, <1>3 DEF OnceRule

LEMMA FulfilLets ==
  ASSUME IInv, JInv, KInv, LInv, NEW c \in Calls, Fulfil(c)
  PROVE  LInv'
<1>1. call[c].pc \in Gates /\ call[c].pc = "fulfil" /\ UNCHANGED <<fn, rows>> /\ call[c] \in CallType
  BY DEF Fulfil, At, Gates, stores, IInv, TypeOK
<1>2. CASE Pause(c, "input") \/ ReturnAsIs(c, "error") \/ Return(c, "failed", "none")
  BY <1>1, <1>2, GateAside DEF ReturnAsIs
<1>3. ASSUME NEW x \in Inputs, Become(c, [call[c] EXCEPT !.pc = "uniqueRule", !.input = x])
      PROVE  LInv'
  <2>1. PICK r : r = [call[c] EXCEPT !.pc = "uniqueRule", !.input = x]
    OBVIOUS
  <2>2. r.pc = "uniqueRule" /\ r.runs = call[c].runs /\ r.ranOn = call[c].ranOn
    BY <1>1, <2>1 DEF CallType
  <2>3. ASSUME Ruled, r.pc \in (IF fn.rule = "unique" THEN Past ELSE Looked)
        PROVE  /\ fn.rule # "unique"
               /\ \A d \in Calls \ {c} : \A i \in DOMAIN rows[d] : ~Counts(rows[d][i])
    <3>1. fn.rule # "unique"
      BY <2>2, <2>3 DEF Past, Consents, Operating
    <3>2. Kept(c) /\ Passed(call[c]) /\ ~Done(c)
      BY <1>1, <2>3, <3>1 DEF LInv, Passed, Looked, Done, At
    <3> QED
      BY <3>1, <3>2 DEF Kept, Clear
  <2> QED
    BY <1>1, <1>3, <2>1, <2>2, <2>3, GateRule
<1> QED
  BY <1>2, <1>3 DEF Fulfil

LEMMA UniqueRuleLets ==
  ASSUME IInv, JInv, KInv, LInv, NEW c \in Calls, UniqueRule(c)
  PROVE  LInv'
<1>1. /\ call[c].pc \in Gates /\ call[c].pc = "uniqueRule" /\ UNCHANGED <<fn, rows>>
      /\ call[c] \in CallType /\ rows \in [Calls -> Seq(Row)]
  BY DEF UniqueRule, At, Gates, stores, IInv, TypeOK
<1>2. CASE Return(c, "failed", "none")
  BY <1>1, <1>2, GateAside
<1>3. CASE Become(c, [call[c] EXCEPT !.pc = "defer", !.status = "failed", !.hash = call[c].input])
  <2>1. PICK r : r = [call[c] EXCEPT !.pc = "defer", !.status = "failed", !.hash = call[c].input]
    OBVIOUS
  <2>2. r.pc = "defer" /\ r.runs = call[c].runs /\ r.ranOn = call[c].ranOn
    BY <1>1, <2>1 DEF CallType
  <2>3. "defer" \notin Past \cup Looked
    BY DEF Past, Looked, Consents, Operating
  <2> QED
    BY <1>1, <1>3, <2>1, <2>2, <2>3, GateRule
<1>4. CASE fn.rule # "unique" /\ Goto(c, "prepare")
  <2>1. PICK r : r = [call[c] EXCEPT !.pc = "prepare"]
    OBVIOUS
  <2>2. r.pc = "prepare" /\ r.runs = call[c].runs /\ r.ranOn = call[c].ranOn
    BY <1>1, <2>1 DEF CallType
  <2>3. ASSUME Ruled
        PROVE  \A d \in Calls \ {c} : \A i \in DOMAIN rows[d] : ~Counts(rows[d][i])
    <3>1. Kept(c) /\ Passed(call[c]) /\ ~Done(c)
      BY <1>1, <1>4, <2>3 DEF LInv, Passed, Looked, Done, At
    <3> QED
      BY <1>4, <3>1 DEF Kept, Clear
  <2> QED
    BY <1>1, <1>4, <2>1, <2>2, <2>3, GateRule DEF Goto
<1>5. CASE /\ fn.rule = "unique" /\ ~(\E r \in Executed : r.hash = call[c].input)
           /\ Become(c, [call[c] EXCEPT !.pc = "prepare", !.hash = call[c].input])
  <2>1. PICK r : r = [call[c] EXCEPT !.pc = "prepare", !.hash = call[c].input]
    OBVIOUS
  <2>2. /\ r.pc = "prepare" /\ r.runs = call[c].runs /\ r.ranOn = call[c].ranOn
        /\ r.hash = call[c].input /\ r.input = call[c].input
    BY <1>1, <2>1 DEF CallType
  <2>3. ASSUME NEW d \in Calls, NEW i \in DOMAIN rows[d], Counts(rows[d][i])
        PROVE  rows[d][i].hash # r.input
    <3>1. rows[d][i] \in Executed
      BY <2>3 DEF Executed
    <3> QED
      BY <1>5, <2>2, <3>1
  <2> QED
    BY <1>1, <1>5, <2>1, <2>2, <2>3, GateRule
<1> QED
  BY <1>2, <1>3, <1>4, <1>5 DEF UniqueRule

LEMMA GateLets ==
  ASSUME IInv, JInv, KInv, LInv, NEW c \in Calls, Gate(c)
  PROVE  LInv'
<1>1. CASE EarlyCache(c) \/ Needs(c) \/ Prepare(c) \/ SuccessInputs(c) \/ CacheLookup(c)
  <2>1. call[c].pc \in Gates /\ UNCHANGED <<fn, rows>>
    BY <1>1 DEF EarlyCache, Needs, Prepare, SuccessInputs, CacheLookup, At, Gates, stores
  <2>2. \/ \E p \in (Gates \cup {"approval"}) \ {"fulfil", "uniqueRule"} :
              Goto(c, p) /\ (p \in Past => call[c].pc \in Past)
        \/ \E s, e : Return(c, s, e)
        \/ \E w : Pause(c, w)
        \/ FailEarly(c) \/ ReturnCached(c)
    BY <1>1 DEF EarlyCache, Needs, Prepare, SuccessInputs, CacheLookup, At, Gates, ReturnAsIs, Past, Consents, Operating
  <2> QED
    BY <2>1, <2>2, GateAside
<1>2. CASE RunOnlyIf(c)
  <2>1. call[c].pc \in Gates /\ UNCHANGED <<fn, rows>> /\ call[c] \in CallType
    BY <1>2 DEF RunOnlyIf, At, Gates, stores, IInv, TypeOK
  <2>2. CASE Goto(c, "onceRule") \/ FailEarly(c) \/ \E e : ReturnAsIs(c, e)
    <3>1. "onceRule" \in Gates /\ "onceRule" \notin Past
      BY DEF Gates, Past, Consents, Operating
    <3> QED
      BY <2>1, <2>2, <3>1, GateAside DEF ReturnAsIs
  <2>3. CASE Become(c, [call[c] EXCEPT !.pc = "onSkip", !.status = "skipped", !.todo = fn.onSkip])
    <3>1. PICK r : r = [call[c] EXCEPT !.pc = "onSkip", !.status = "skipped", !.todo = fn.onSkip]
      OBVIOUS
    <3>2. r.pc = "onSkip" /\ r.runs = call[c].runs /\ r.ranOn = call[c].ranOn
      BY <2>1, <3>1 DEF CallType
    <3>3. "onSkip" \notin Past \cup Looked
      BY DEF Past, Looked, Consents, Operating
    <3> QED
      BY <2>1, <2>3, <3>1, <3>2, <3>3, GateRule
  <2> QED
    BY <1>2, <2>2, <2>3 DEF RunOnlyIf
<1> QED
  BY <1>1, <1>2, OnceRuleLets, FulfilLets, UniqueRuleLets DEF Gate

\* Call c becomes r, past the rule, with the inputs it has.
LEMMA BecomesCalm ==
  ASSUME IInv, NEW c \in Calls, NEW r, Become(c, r), r.input = call[c].input, r.hash = call[c].hash,
         r.runs = call[c].runs, r.ranOn = call[c].ranOn, r.pc \in Looked => call[c].pc \in Past
  PROVE  Calm(c)
<1>1. call'[c] = r /\ \A d \in Calls \ {c} : call'[d] = call[d]
  BY DEF IInv, TypeOK, Become
<1> QED
  BY <1>1 DEF Calm

LEMMA GotoCalm ==
  ASSUME IInv, NEW c \in Calls, NEW p, Goto(c, p), p \in Looked => call[c].pc \in Past
  PROVE  Calm(c)
<1>1. PICK r : r = [call[c] EXCEPT !.pc = p]
  OBVIOUS
<1>2. r.pc = p /\ r.input = call[c].input /\ r.hash = call[c].hash /\ r.runs = call[c].runs
      /\ r.ranOn = call[c].ranOn
  BY <1>1 DEF IInv, TypeOK, CallType
<1> QED
  BY <1>1, <1>2, BecomesCalm DEF Goto

LEMMA ReturnCalm ==
  ASSUME IInv, NEW c \in Calls, NEW s, NEW e, Return(c, s, e)
  PROVE  Calm(c)
<1>1. PICK r : r = [call[c] EXCEPT !.pc = "defer", !.status = s, !.ret = e]
  OBVIOUS
<1>2. r.pc = "defer" /\ r.input = call[c].input /\ r.hash = call[c].hash /\ r.runs = call[c].runs
      /\ r.ranOn = call[c].ranOn
  BY <1>1 DEF IInv, TypeOK, CallType
<1>3. "defer" \notin Looked
  BY DEF Looked, Past, Consents, Operating
<1> QED
  BY <1>1, <1>2, <1>3, BecomesCalm DEF Return

LEMMA PauseCalm ==
  ASSUME IInv, NEW c \in Calls, NEW w, Pause(c, w)
  PROVE  Calm(c)
<1>1. PICK r : r = [call[c] EXCEPT !.pc = "onPending", !.status = "pending",
                                   !.todo = fn.onPending, !.asked = w]
  OBVIOUS
<1>2. r.pc = "onPending" /\ r.input = call[c].input /\ r.hash = call[c].hash /\ r.runs = call[c].runs
      /\ r.ranOn = call[c].ranOn
  BY <1>1 DEF IInv, TypeOK, CallType
<1>3. "onPending" \notin Looked
  BY DEF Looked, Past, Consents, Operating
<1> QED
  BY <1>1, <1>2, <1>3, BecomesCalm DEF Pause

LEMMA ConsentLets ==
  ASSUME IInv, JInv, KInv, LInv, NEW c \in Calls, Consent(c)
  PROVE  LInv'
<1>1. /\ call[c].pc \in Consents /\ call[c] \in CallType /\ UNCHANGED fn /\ rows' = rows
  BY DEF Consent, Approval, UseGrant, Confirm, Ask, Extract, UseConsent, stores, At, Consents, IInv, TypeOK
<1>2. Active(c) /\ call[c].pc \in Past
  BY <1>1 DEF Active, Consents, Past
<1>3. CASE (\E p : Goto(c, p)) \/ (\E w : Pause(c, w)) \/ \E s, e : Return(c, s, e)
  BY <1>1, <1>2, <1>3, GotoCalm, PauseCalm, ReturnCalm, CalmStep
<1>4. ASSUME NEW r, Become(c, r),
             \/ r = [call[c] EXCEPT !.pc = "useGrant", !.grant = checkpoint.by]
             \/ r = [call[c] EXCEPT !.pc = "start", !.consent = call[c].state]
             \/ \E x, p : r = [call[c] EXCEPT !.state = x, !.pc = p]
      PROVE  LInv'
  <2>1. r.input = call[c].input /\ r.hash = call[c].hash /\ r.runs = call[c].runs /\ r.ranOn = call[c].ranOn
    BY <1>1, <1>4 DEF CallType
  <2> QED
    BY <1>1, <1>2, <1>4, <2>1, BecomesCalm, CalmStep
<1>5. CASE Approval(c)
  BY <1>3, <1>4, <1>5 DEF Approval, UsesCheckpoint
<1>6. CASE UseGrant(c) \/ Ask(c) \/ Extract(c)
  BY <1>3, <1>6 DEF UseGrant, Ask, Extract
<1>7. CASE Confirm(c)
  <2>1. CASE (\E p : Goto(c, p)) \/ \E s, e : Return(c, s, e)
    BY <1>3, <2>1
  <2>2. ASSUME NEW s \in Matching(c),
               Become(c, [call[c] EXCEPT !.state = s.by,
                                         !.pc = IF s.confirmed THEN "useConsent" ELSE "extract"])
        PROVE  LInv'
    BY <1>4, <2>2
  <2> QED
    BY <1>7, <2>1, <2>2 DEF Confirm
<1>8. CASE UseConsent(c)
  BY <1>4, <1>8 DEF UseConsent
<1> QED
  BY <1>5, <1>6, <1>7, <1>8 DEF Consent

LEMMA ExecuteLets ==
  ASSUME IInv, JInv, KInv, LInv, NEW c \in Calls, Execute(c)
  PROVE  LInv'
<1>1. /\ call[c].pc = "execute" /\ call[c] \in CallType /\ UNCHANGED fn /\ rows' = rows
      /\ call[c].pc \in Past /\ Active(c)
  BY DEF Execute, stores, At, IInv, TypeOK, Past, Operating, Active
<1>2. PICK q : q = Ran(c)
  OBVIOUS
<1>3. /\ DOMAIN q = DOMAIN call[c] /\ {"pc", "runs", "ranOn", "input", "hash"} \subseteq DOMAIN q
      /\ q.pc = "execute" /\ q.input = call[c].input /\ q.hash = call[c].hash /\ q.runs > 0
      /\ q.ranOn = call[c].ranOn \cup {call[c].input}
  BY <1>1, <1>2 DEF Ran, CallType
<1>4. PICK r :
        /\ Become(c, r)
        /\ \/ r = [q EXCEPT !.pc = "store", !.worked = TRUE]
           \/ r = [q EXCEPT !.pc = "onPending", !.status = "pending",
                            !.todo = fn.onPending, !.asked = "output"]
           \/ r = [q EXCEPT !.tries = q.tries + 1]
           \/ r = [q EXCEPT !.pc = "defer", !.status = "failed"]
           \/ r = [q EXCEPT !.pc = "recordFailure", !.status = "failed"]
  BY <1>2 DEF Execute
<1>5. /\ r.pc # "done" /\ r.input = call[c].input /\ r.hash = call[c].hash /\ r.runs > 0
      /\ r.ranOn = call[c].ranOn \cup {call[c].input}
  BY <1>3, <1>4
<1>6. call'[c] = r /\ \A d \in Calls \ {c} : call'[d] = call[d]
  BY <1>4 DEF IInv, TypeOK, Become
<1>7. Calm(c)
  BY <1>1, <1>5, <1>6 DEF Calm
<1> QED
  BY <1>1, <1>7, CalmStep

LEMMA OperateLets ==
  ASSUME IInv, JInv, KInv, LInv, NEW c \in Calls, Operate(c)
  PROVE  LInv'
<1>1. /\ call[c].pc \in Operating /\ call[c] \in CallType /\ UNCHANGED fn /\ rows' = rows
  BY DEF Operate, Start, Execute, Store, ReRun, stores, At, Operating, IInv, TypeOK
<1>2. Active(c) /\ call[c].pc \in Past
  BY <1>1 DEF Active, Operating, Past
<1>3. CASE (\E p : Goto(c, p)) \/ \E s, e : Return(c, s, e)
  BY <1>1, <1>2, <1>3, GotoCalm, ReturnCalm, CalmStep
<1>4. CASE Start(c) \/ Store(c)
  BY <1>3, <1>4 DEF Start, Store, ReturnAsIs
<1>5. CASE ReRun(c)
  <2>1. CASE fn.reRun = "fresh"
    <3>1. LInv' <=> LInv' \/ fn'.reRun = "fresh"
      BY DEF LInv, Ruled
    <3> QED
      BY <1>1, <2>1, <3>1
  <2>2. CASE Become(c, NextRound(c, call[c].input))
    <3>1. PICK r : r = NextRound(c, call[c].input)
      OBVIOUS
    <3>2. r.input = call[c].input /\ r.hash = call[c].hash /\ r.runs = call[c].runs /\ r.ranOn = call[c].ranOn
      BY <1>1, <3>1 DEF NextRound, CallType
    <3> QED
      BY <1>1, <1>2, <2>2, <3>1, <3>2, BecomesCalm, CalmStep
  <2> QED
    BY <1>3, <1>5, <2>1, <2>2 DEF ReRun, ReturnAsIs
<1> QED
  BY <1>4, <1>5, ExecuteLets DEF Operate

LEMMA CloseLets ==
  ASSUME IInv, JInv, KInv, LInv, NEW c \in Calls, Close(c)
  PROVE  LInv'
<1>1. /\ call[c].pc \in Closing \cup {"defer"} /\ call[c] \in CallType /\ UNCHANGED fn
      /\ rows' = rows \/ \E s : Record(c, s)
  BY DEF Close, AfterSuccess, RecordSuccess, RecordFailure, Callback, SuccessAsks, CallbacksOver, SkipEnds,
         Completion, Deferred, stores, At, Closing, IInv, TypeOK
<1>2. Active(c)
  BY <1>1 DEF Active, Closing
<1>3. (Closing \cup {"defer", "done"}) \cap Looked = {}
  BY DEF Closing, Looked, Past, Consents, Operating
<1>4. CASE (\E p \in {"completion", "done"} : Goto(c, p)) \/ \E s, e : Return(c, s, e)
  <2>1. {"completion", "done"} \cap Looked = {}
    BY <1>3 DEF Closing
  <2> QED
    BY <1>1, <1>2, <1>4, <2>1, GotoCalm, ReturnCalm, CalmStep
<1>5. ASSUME NEW r, Become(c, r),
             \/ r = [call[c] EXCEPT !.hooks = @ \cup {"afterSuccess"},
                                    !.pc = IF fn.onSuccess = 0 THEN "completion" ELSE "recordSuccess"]
             \/ r = [call[c] EXCEPT !.pc = "onSuccess", !.todo = fn.onSuccess, !.stored = TRUE]
             \/ r = [call[c] EXCEPT !.pc = "onSuccess", !.todo = fn.onSuccess]
             \/ r = [call[c] EXCEPT !.pc = "onFailure", !.todo = fn.onFailure,
                                    !.stored = TRUE, !.hooks = @ \cup {"afterFailure"}]
             \/ r = [call[c] EXCEPT !.pc = "defer", !.hooks = @ \cup {"afterCompletion"}]
             \/ r = [call[c] EXCEPT !.todo = @ - 1]
      PROVE  LInv'
  <2>1. /\ r.pc \in {"completion", "recordSuccess", "onSuccess", "onFailure", "defer", call[c].pc}
        /\ r.input = call[c].input /\ r.hash = call[c].hash /\ r.runs = call[c].runs /\ r.ranOn = call[c].ranOn
    BY <1>1, <1>5 DEF CallType
  <2>2. r.pc \in Closing \cup {"defer"}
    BY <1>1, <2>1 DEF Closing
  <2>3. r.pc \notin Looked
    BY <1>3, <2>2
  <2> QED
    BY <1>1, <1>2, <1>5, <2>1, <2>3, BecomesCalm, CalmStep
<1>6. CASE AfterSuccess(c) \/ RecordSuccess(c) \/ RecordFailure(c) \/ Completion(c)
  BY <1>5, <1>6 DEF AfterSuccess, RecordSuccess, RecordFailure, Completion
<1>7. CASE SuccessAsks(c) \/ Deferred(c)
  BY <1>4, <1>7 DEF SuccessAsks, Deferred, ReturnAsIs
<1>8. CASE CallbacksOver(c)
  BY <1>4, <1>5, <1>8 DEF CallbacksOver, SkipEnds, ReturnAsIs
<1>9. CASE Callback(c)
  BY <1>5, <1>9 DEF Callback
<1> QED
  BY <1>6, <1>7, <1>8, <1>9 DEF Close

LEMMA BeginLets ==
  ASSUME IInv, JInv, KInv, LInv, NEW c \in Calls, Begin(c)
  PROVE  LInv'
<1>1. /\ call[c].pc = "idle" /\ call[c] \in CallType /\ UNCHANGED fn /\ rows' = rows
      /\ call[c].runs = 0
  BY DEF Begin, stores, At, IInv, TypeOK, JInv, Local, Fresh
<1>2. PICK r :
        /\ Become(c, r)
        /\ \/ r = [call[c] EXCEPT !.pc = "earlyCache"]
           \/ \E s, e : r = [call[c] EXCEPT !.pc = "defer", !.status = s, !.ret = e]
  BY DEF Begin, Goto, ReturnAsIs, Return
<1>3. r.pc \in {"earlyCache", "defer"} /\ r.runs = 0 /\ r.ranOn = call[c].ranOn /\ r.input = call[c].input
  BY <1>1, <1>2 DEF CallType
<1>4. call'[c] = r /\ \A d \in Calls \ {c} : call'[d] = call[d]
  BY <1>2 DEF IInv, TypeOK, Become
<1>5. Sequential => \A d \in Calls : ~Active(d)
  BY BeginsAlone
<1>6. ASSUME Ruled PROVE Kept(c)'
  <2>1. call[c].ranOn = {}
    BY <1>1, <1>6 DEF LInv, Kept
  <2>2. ~Passed(call[c])'
    BY <1>3, <1>4 DEF Passed, Past, Looked, Consents, Operating
  <2> QED
    BY <1>3, <1>4, <2>1, <2>2 DEF Kept
<1> QED
  BY <1>1, <1>3, <1>4, <1>5, <1>6, RuleStep

\* Nothing that the rule reads changes.
LEMMA Apart ==
  ASSUME IInv, LInv, UNCHANGED <<fn, rows>>,
         \A c \in Calls : /\ call'[c].pc = call[c].pc /\ call'[c].runs = call[c].runs
                          /\ call'[c].ranOn = call[c].ranOn /\ call'[c].input = call[c].input
                          /\ call'[c].hash = call[c].hash
  PROVE  LInv'
<1>1. ASSUME Ruled PROVE (\A c \in Calls : Kept(c)') /\ RuleKept'
  <2>1. (\A c \in Calls : Kept(c)) /\ RuleKept
    BY <1>1 DEF LInv
  <2>2. \A c \in Calls : Passed(call[c])' <=> Passed(call[c])
    BY DEF Passed
  <2>3. \A c \in Calls : Clear(c)' <=> Clear(c)
    BY DEF Clear, Counts
  <2>4. \A c \in Calls : Done(c)' <=> Done(c)
    BY DEF Done, At
  <2>5. \A c \in Calls : Kept(c)'
    BY <2>1, <2>2, <2>3, <2>4 DEF Kept
  <2>6. RuleKept'
    BY <2>1, <2>4 DEF RuleKept, Counts, DbFails
  <2> QED
    BY <2>5, <2>6
<1> QED
  BY <1>1 DEF LInv, Ruled, Sequential, DbFails

LEMMA EnvironmentLets ==
  ASSUME IInv, JInv, KInv, LInv, Environment
  PROVE  LInv'
<1>1. ASSUME NEW c \in Calls, CreateCheckpoint(c) PROVE LInv'
  <2>1. PICK r : r = [call[c] EXCEPT !.asked = "nothing"]
    OBVIOUS
  <2>2. /\ r.pc = call[c].pc /\ r.runs = call[c].runs /\ r.ranOn = call[c].ranOn
        /\ r.input = call[c].input /\ r.hash = call[c].hash
    BY <2>1 DEF IInv, TypeOK, CallType
  <2>3. call'[c] = r /\ \A d \in Calls \ {c} : call'[d] = call[d]
    BY <1>1, <2>1 DEF CreateCheckpoint, Become, IInv, TypeOK
  <2> QED
    BY <1>1, <2>2, <2>3, Apart DEF CreateCheckpoint
<1>2. CASE Grant \/ ConfirmationExpires \/ CacheExpires
  BY <1>2, Apart DEF Grant, ConfirmationExpires, CacheExpires
<1> QED
  BY <1>1, <1>2 DEF Environment

LEMMA InitLInv == Init => LInv
<1> SUFFICES ASSUME Init PROVE LInv
  OBVIOUS
<1>1. \A c \in Calls : call[c].pc = "idle" /\ call[c].runs = 0 /\ call[c].ranOn = {}
  BY DEF Init, NewCall
<1>2. \A c \in Calls : ~Passed(call[c]) /\ ~Done(c)
  BY <1>1 DEF Passed, Past, Looked, Consents, Operating, Done, At
<1> QED
  BY <1>1, <1>2 DEF LInv, Kept, RuleKept

LEMMA NextLInv ==
  ASSUME IInv, JInv, KInv, LInv, [Next]_vars
  PROVE  LInv'
<1>1. CASE AllDone \/ UNCHANGED vars
  BY <1>1, Apart DEF AllDone, vars
<1>2. CASE Environment
  BY <1>2, EnvironmentLets
<1>3. ASSUME NEW c \in Calls, Begin(c) \/ Step(c)
      PROVE  LInv'
  BY <1>3, BeginLets, GateLets, ConsentLets, OperateLets, CloseLets DEF Step
<1> QED
  BY <1>1, <1>2, <1>3 DEF Next

\* Called one after the other, with a working database and inputs that
\* reRunIf does not change, a function called once (or uniquely) has started
\* twice (on the same inputs) only if one of the calls left a record that the
\* status filter of the rule does not count.
THEOREM RuleHolds == Spec => []RuleKept
<1>1. Init => IInv /\ JInv /\ KInv /\ LInv
  BY InitIInv, InitJInv, InitKInv, InitLInv
<1>2. IInv /\ JInv /\ KInv /\ LInv /\ [Next]_vars => (IInv /\ JInv /\ KInv /\ LInv)'
  BY NextIInv, NextJInv, NextKInv, NextLInv
<1>3. IInv /\ LInv => RuleKept
  <2>1. IInv => fn.rule \in {"multiple", "once", "unique"}
    BY ConstantsAssumption DEF IInv, TypeOK, FunctionType
  <2>2. LInv /\ Ruled => RuleKept
    BY DEF LInv
  <2>3. IInv /\ ~Ruled => RuleKept
    BY DEF RuleKept, Ruled, Sequential
  <2> QED
    BY <2>1, <2>2, <2>3
<1> QED
  BY <1>1, <1>2, <1>3, PTL DEF Spec
=============================================================================
