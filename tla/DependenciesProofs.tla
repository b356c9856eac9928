-------------------------- MODULE DependenciesProofs --------------------------
(***************************************************************************)
(* For any functions, any needs between them, cyclic ones included, and    *)
(* any number of calls: a call operates only when its needs are met, and a *)
(* question in a special text comes out at the bottom of the stack.        *)
(*                                                                         *)
(* Both follow from one inductive invariant.  Every call below the    *)
(* top of the stack waits for the one above it, which is the need at its   *)
(* position (Waiting); in every call, the needs it must execute are among  *)
(* the missing ones, and those it has passed have ended (FrameOK).         *)
(*                                                                         *)
(* NInv, with a working database: the needs a call has passed have no open *)
(* question (AnsweredIn), until something above it in the stack asks; from *)
(* then on the call on top is paused and every return pauses the next.     *)
(***************************************************************************)
EXTENDS Dependencies, TLAPS

-----------------------------------------------------------------------------
(* The inductive invariant.                                                *)

NeedOf(t, fr, k) == t.needs[fr.fn][k]

ForcedIn(t, fr, k) ==
  LET n == NeedOf(t, fr, k)
  IN  \/ n.params
      \/ /\ t.kind[n.name] = "tool"
         /\ t.home[n.name] = t.home[fr.fn]
         /\ n.name \notin t.cached

\* What one call has done about its needs, given the configuration t and the
\* records r.
FrameOK(t, r, fr) ==
  /\ fr \in Frame
  /\ fr.pos \in 1 .. Len(t.needs[fr.fn]) + 1
  /\ fr.missing \subseteq DOMAIN t.needs[fr.fn]
  /\ fr.stage = "enter" => fr.pos = 1
  /\ fr.stage = "needs" =>
       \A k \in DOMAIN t.needs[fr.fn] :
         /\ ForcedIn(t, fr, k) => k \in fr.missing
         /\ k < fr.pos /\ k \in fr.missing => NeedOf(t, fr, k).name \in fr.ended
  /\ fr.stage = "operate" =>
       \A k \in DOMAIN t.needs[fr.fn] :
         /\ r[NeedOf(t, fr, k).name] # "none"
         /\ ForcedIn(t, fr, k) => NeedOf(t, fr, k).name \in fr.ended

Calls ==
  /\ stack \in Seq(Frame)
  /\ \A i \in DOMAIN stack : FrameOK(tool, rows, stack[i])

Waiting ==
  \A i \in DOMAIN stack :
    i < Depth =>
      /\ stack[i].stage = "needs"
      /\ stack[i].pos \in stack[i].missing
      /\ NeedOf(tool, stack[i], stack[i].pos).name = stack[i + 1].fn

Asking ==
  asked <=> IF stack = <<>> THEN answer = "special" ELSE Top.stage = "paused"

Rest ==
  /\ tool \in Tools
  /\ rows \in [Functions -> Statuses \cup {"none"}]
  /\ sending \in [Functions -> Nat]
  /\ invoked \in 0 .. MaxInvocations
  /\ answer \in Answers \cup {"none"}
  /\ asked \in BOOLEAN

IInv == Rest /\ Calls /\ Waiting /\ Asking

\* Records are never taken back.
Grows(r, s) == \A f \in Functions : r[f] # "none" => s[f] # "none"

-----------------------------------------------------------------------------
LEMMA ToolFacts ==
  ASSUME NEW t \in Tools
  PROVE  /\ t \in ToolType
         /\ t.root \in Functions
         /\ \A f \in Functions :
              /\ t.needs[f] \in Seq(Need)
              /\ \A k \in DOMAIN t.needs[f] :
                   /\ t.needs[f][k] \in Need
                   /\ t.needs[f][k].name \in Functions
<1>1. t \in ToolType
  BY ToolsAssumption
<1>2. ASSUME NEW f \in Functions
      PROVE  /\ t.needs[f] \in Seq(Need)
             /\ \A k \in DOMAIN t.needs[f] :
                  t.needs[f][k] \in Need /\ t.needs[f][k].name \in Functions
  <2>1. t.needs[f] \in Seq(Need)
    BY <1>1 DEF ToolType
  <2>2. \A k \in DOMAIN t.needs[f] : t.needs[f][k] \in Need
    BY <2>1
  <2> QED
    BY <2>1, <2>2 DEF Need
<1> QED
  BY <1>1, <1>2 DEF ToolType

LEMMA FrameGrows ==
  ASSUME NEW t \in Tools, NEW r, NEW s, Grows(r, s), NEW fr, FrameOK(t, r, fr)
  PROVE  FrameOK(t, s, fr)
<1>1. fr.fn \in Functions
  BY DEF FrameOK, Frame
<1>2. \A k \in DOMAIN t.needs[fr.fn] : NeedOf(t, fr, k).name \in Functions
  BY <1>1, ToolFacts DEF NeedOf
<1> QED
  BY <1>2 DEF FrameOK, Grows

LEMMA Recorded ==
  ASSUME IInv, NEW f \in Functions, NEW s \in Statuses, Record(f, s)
  PROVE  rows' \in [Functions -> Statuses \cup {"none"}] /\ Grows(rows, rows')
  BY DEF IInv, Rest, Record, Grows, Statuses

\* So do the records a call and its callbacks leave.
LEMMA Left ==
  ASSUME IInv, Fn \in Functions, NEW S \in SUBSET (Statuses \cup {rows[Fn]}), Leaves(S)
  PROVE  rows' \in [Functions -> Statuses \cup {"none"}] /\ Grows(rows, rows')
<1>1. PICK s \in S \cup (IF tool.faults THEN {rows[Fn]} ELSE {}),
           G \in SUBSET (tool.called \ {Fn}) :
        \E others \in [G -> Statuses] :
          rows' = [f \in Functions |-> IF f \in G THEN others[f]
                                      ELSE IF f = Fn THEN s ELSE rows[f]]
  BY DEF Leaves
<1>2. PICK others \in [G -> Statuses] :
        rows' = [f \in Functions |-> IF f \in G THEN others[f]
                                    ELSE IF f = Fn THEN s ELSE rows[f]]
  BY <1>1
<1>3. s \in Statuses \/ s = rows[Fn]
  OBVIOUS
<1>4. rows \in [Functions -> Statuses \cup {"none"}] /\ "none" \notin Statuses
  BY DEF IInv, Rest, Statuses
<1> QED
  BY <1>2, <1>3, <1>4 DEF Grows

\* Fields of a call are updated one after the other.
LEMMA PassedFields ==
  ASSUME NEW fr \in Frame, NEW E \in SUBSET Functions
  PROVE  LET g == Passed(fr, E)
         IN  /\ g \in Frame /\ g.fn = fr.fn /\ g.stage = fr.stage
             /\ g.pos = fr.pos + 1 /\ g.missing = fr.missing /\ g.ended = fr.ended \cup E
<1> DEFINE h == [fr EXCEPT !.pos = @ + 1]
           g == [h EXCEPT !.ended = @ \cup E]
<1>1. h \in Frame /\ h.fn = fr.fn /\ h.stage = fr.stage /\ h.pos = fr.pos + 1
      /\ h.missing = fr.missing /\ h.ended = fr.ended
  BY DEF Frame
<1>2. g = Passed(fr, E)
  BY DEF Passed
<1>3. g \in Frame /\ g.fn = h.fn /\ g.stage = h.stage /\ g.pos = h.pos
      /\ g.missing = h.missing /\ g.ended = h.ended \cup E
  <2> HIDE DEF h
  <2> QED
    BY <1>1 DEF Frame
<1> HIDE DEF h, g
<1> QED
  BY <1>1, <1>2, <1>3

LEMMA CheckedFields ==
  ASSUME NEW fr \in Frame, NEW m \in SUBSET Nat
  PROVE  LET g == Checked(fr, m)
         IN  /\ g \in Frame /\ g.fn = fr.fn
             /\ g.stage = IF m = {} THEN "operate" ELSE "needs"
             /\ g.pos = fr.pos /\ g.missing = m /\ g.ended = fr.ended
<1> DEFINE s == IF m = {} THEN "operate" ELSE "needs"
           h == [fr EXCEPT !.missing = m]
           g == [h EXCEPT !.stage = s]
<1>1. h \in Frame /\ h.fn = fr.fn /\ h.pos = fr.pos /\ h.missing = m
      /\ h.ended = fr.ended
  BY DEF Frame
<1>2. g = Checked(fr, m) /\ s \in Stages
  BY DEF Checked, Stages
<1>3. g \in Frame /\ g.fn = h.fn /\ g.stage = s /\ g.pos = h.pos
      /\ g.missing = h.missing /\ g.ended = h.ended
  <2> HIDE DEF h, s
  <2> QED
    BY <1>1, <1>2 DEF Frame
<1> HIDE DEF h, g
<1> QED
  BY <1>1, <1>2, <1>3

-----------------------------------------------------------------------------
(* Steps that change only the call on top.                                 *)

LEMMA TopChanges ==
  ASSUME IInv, Rest', tool' = tool, Grows(rows, rows'),
         stack # <<>>, NEW g, g.fn = Fn, FrameOK(tool, rows', g),
         stack' = [stack EXCEPT ![Depth] = g],
         asked' <=> g.stage = "paused"
  PROVE  IInv'
<1>1. Depth \in Nat /\ Depth > 0 /\ stack \in Seq(Frame) /\ g \in Frame
  BY DEF IInv, Calls, FrameOK, Depth
<1>2. stack' \in Seq(Frame) /\ Len(stack') = Depth /\ DOMAIN stack' = DOMAIN stack
      /\ DOMAIN stack = 1 .. Depth
  BY <1>1 DEF Depth
<1>3. \A i \in DOMAIN stack : stack'[i] = IF i = Depth THEN g ELSE stack[i]
  BY <1>1, <1>2
<1>4. \A i \in DOMAIN stack : stack'[i].fn = stack[i].fn
  BY <1>1, <1>2, <1>3 DEF Fn, Top
<1>5. Calls'
  <2>1. ASSUME NEW i \in DOMAIN stack
        PROVE  FrameOK(tool, rows', stack'[i])
    BY <1>3, FrameGrows DEF IInv, Calls, Rest
  <2> QED
    BY <1>2, <2>1 DEF Calls
<1>6. Waiting'
  <2>1. ASSUME NEW i \in DOMAIN stack, i < Depth
        PROVE  /\ stack'[i] = stack[i]
               /\ stack'[i + 1].fn = stack[i + 1].fn
    BY <1>1, <1>2, <1>3, <1>4, <2>1
  <2> QED
    BY <1>2, <2>1 DEF IInv, Waiting, NeedOf, Depth
<1>7. Asking'
  BY <1>1, <1>2, <1>3 DEF Asking, Top, Depth
<1> QED
  BY <1>5, <1>6, <1>7 DEF IInv

\* Steps that leave the stack alone.
LEMMA StackStays ==
  ASSUME IInv, Rest', tool' = tool, Grows(rows, rows'),
         stack' = stack, answer' = answer, asked' = asked
  PROVE  IInv'
<1>1. Calls'
  BY FrameGrows DEF IInv, Calls, Rest
<1>2. Waiting' /\ Asking'
  BY DEF IInv, Waiting, Asking, NeedOf, Top, Depth
<1> QED
  BY <1>1, <1>2 DEF IInv

-----------------------------------------------------------------------------
(* Return.                                                                 *)

LEMMA Resumed ==
  ASSUME NEW fr \in Frame, NEW result \in Answers, NEW f \in Functions
  PROVE  LET g == Resume(fr, result, f)
         IN  /\ g.fn = fr.fn
             /\ g.missing = fr.missing
             /\ g.ended = fr.ended \cup {f}
             /\ g.pos = IF result = "text" THEN fr.pos + 1 ELSE fr.pos
             /\ g.stage = IF result = "text" THEN "needs"
                          ELSE IF result = "special" THEN "paused" ELSE "failed"
             /\ g \in Frame
  BY DEF Resume, Frame, Stages

LEMMA Returns ==
  ASSUME IInv, tool' = tool, Grows(rows, rows'), stack # <<>>,
         rows' \in [Functions -> Statuses \cup {"none"}],
         sending' = sending, invoked' = invoked, asked' \in BOOLEAN,
         NEW result \in Answers, Return(result), asked' <=> result = "special"
  PROVE  IInv'
<1>1. Depth \in Nat /\ Depth > 0 /\ stack \in Seq(Frame) /\ DOMAIN stack = 1 .. Depth
  BY DEF IInv, Calls, Depth
<1>2. Rest'
  BY DEF IInv, Rest, Return
<1>3. CASE Depth = 1
  <2>1. stack' = <<>> /\ answer' = result
    BY <1>3 DEF Return
  <2>2. Calls' /\ Waiting'
    BY <2>1 DEF Calls, Waiting
  <2>3. Asking'
    BY <2>1 DEF Asking
  <2> QED
    BY <1>2, <2>2, <2>3 DEF IInv
<1>4. CASE Depth # 1
  <2> DEFINE d == Depth - 1
             caller == stack[d]
             g == Resume(caller, result, Fn)
  <2>1. d \in Nat /\ d > 0 /\ d \in DOMAIN stack
    BY <1>1, <1>4
  <2>2. stack' = [i \in 1 .. d |-> IF i = d THEN g ELSE stack[i]] /\ answer' = answer
    BY <1>4 DEF Return
  <2>3. /\ FrameOK(tool, rows, caller)
        /\ caller.stage = "needs"
        /\ caller.pos \in caller.missing
        /\ NeedOf(tool, caller, caller.pos).name = Fn
    BY <1>1, <2>1 DEF IInv, Calls, Waiting, Fn, Top
  <2>4. FrameOK(tool, rows', caller)
    BY <2>3, FrameGrows DEF IInv, Rest
  <2>5. g.fn = caller.fn /\ FrameOK(tool, rows', g)
    <3>0. caller \in Frame /\ Fn \in Functions
      BY <1>1, <2>4 DEF FrameOK, IInv, Calls, Fn, Top, Frame
    <3>1. /\ g.fn = caller.fn
          /\ g.missing = caller.missing
          /\ g.ended = caller.ended \cup {Fn}
          /\ g \in Frame
      BY <3>0, Resumed
    <3>2. CASE result = "text"
      <4>1. g.stage = "needs" /\ g.pos = caller.pos + 1
        BY <3>0, <3>2 DEF Resume, Frame
      <4>2. caller.pos \in Nat /\ caller.pos \in DOMAIN tool.needs[caller.fn]
            /\ tool.needs[caller.fn] \in Seq(Need)
        BY <2>3, <3>0, ToolFacts DEF FrameOK, IInv, Rest, Frame
      <4>3. g.pos \in 1 .. Len(tool.needs[g.fn]) + 1
        BY <3>1, <4>1, <4>2
      <4>4. ASSUME NEW k \in DOMAIN tool.needs[g.fn]
            PROVE  /\ ForcedIn(tool, g, k) => k \in g.missing
                   /\ k < g.pos /\ k \in g.missing => NeedOf(tool, g, k).name \in g.ended
        <5>1. k \in Nat /\ (k < g.pos => k < caller.pos \/ k = caller.pos)
          BY <3>1, <4>1, <4>2, <4>4
        <5>2. NeedOf(tool, g, k) = NeedOf(tool, caller, k)
              /\ (ForcedIn(tool, g, k) <=> ForcedIn(tool, caller, k))
          BY <3>1 DEF NeedOf, ForcedIn
        <5>3. /\ ForcedIn(tool, caller, k) => k \in caller.missing
              /\ k < caller.pos /\ k \in caller.missing
                   => NeedOf(tool, caller, k).name \in caller.ended
          BY <2>3, <3>1 DEF FrameOK
        <5> QED
          BY <2>3, <3>1, <5>1, <5>2, <5>3
      <4> QED
        BY <2>3, <3>1, <4>1, <4>3, <4>4 DEF FrameOK
    <3>3. CASE result # "text"
      <4>1. g.stage \in {"paused", "failed"} /\ g.pos = caller.pos
        BY <3>0, <3>3 DEF Resume, Frame
      <4> QED
        BY <2>4, <3>1, <4>1 DEF FrameOK
    <3> QED
      BY <3>2, <3>3
  <2>6. stack' \in Seq(Frame) /\ Len(stack') = d /\ DOMAIN stack' = 1 .. d
    BY <1>1, <2>1, <2>2, <2>5 DEF FrameOK
  <2>7. \A i \in 1 .. d : stack'[i] = IF i = d THEN g ELSE stack[i]
    BY <2>2
  <2>8. \A i \in 1 .. d : i \in DOMAIN stack /\ stack'[i].fn = stack[i].fn
    BY <1>1, <2>1, <2>5, <2>7
  <2>9. Calls'
    <3>1. ASSUME NEW i \in 1 .. d
          PROVE  FrameOK(tool, rows', stack'[i])
      BY <2>5, <2>7, <2>8, FrameGrows DEF IInv, Calls, Rest
    <3> QED
      BY <2>6, <3>1 DEF Calls
  <2>10. Waiting'
    <3>1. ASSUME NEW i \in 1 .. d, i < d
          PROVE  /\ stack'[i] = stack[i]
                 /\ stack'[i + 1].fn = stack[i + 1].fn
                 /\ i \in DOMAIN stack /\ i < Depth
      BY <1>1, <2>1, <2>7, <2>8, <3>1
    <3> HIDE DEF d
    <3> QED
      BY <2>6, <3>1 DEF IInv, Waiting, NeedOf, Depth
  <2>11. Asking'
    <3>1. stack' # <<>> /\ Top' = g
      BY <2>1, <2>6, <2>7 DEF Top, Depth
    <3>2. result = "special" <=> g.stage = "paused"
      BY <2>3 DEF Resume, FrameOK, Frame
    <3> QED
      BY <3>1, <3>2 DEF Asking
  <2> QED
    BY <1>2, <2>9, <2>10, <2>11 DEF IInv
<1> QED
  BY <1>3, <1>4

-----------------------------------------------------------------------------
(* The steps.                                                              *)

\* What the call on top of the stack looks like.
LEMMA TopFrame ==
  ASSUME IInv, stack # <<>>
  PROVE  /\ Depth \in DOMAIN stack
         /\ FrameOK(tool, rows, Top)
         /\ Top \in Frame
         /\ Fn \in Functions
         /\ Needs(Fn) = tool.needs[Top.fn]
         /\ Needs(Fn) \in Seq(Need)
<1>1. Depth \in DOMAIN stack
  BY DEF IInv, Calls, Depth
<1>2. FrameOK(tool, rows, Top)
  BY <1>1 DEF IInv, Calls, Top
<1>3. Top \in Frame /\ Fn \in Functions
  BY <1>2 DEF FrameOK, Fn, Frame
<1> QED
  BY <1>1, <1>2, <1>3, ToolFacts DEF Needs, Fn, IInv, Rest

\* To go to a stage that claims nothing.
LEMMA GoesTo ==
  ASSUME IInv, Rest', tool' = tool, Grows(rows, rows'), stack # <<>>,
         NEW stage \in {"failed", "paused"}, Goto(stage), asked' <=> stage = "paused"
  PROVE  IInv'
<1> DEFINE g == [Top EXCEPT !.stage = stage]
<1>1. FrameOK(tool, rows', Top) /\ Top \in Frame
  BY TopFrame, FrameGrows DEF IInv, Rest
<1>2. g.fn = Fn /\ g.stage = stage /\ g.pos = Top.pos /\ g.missing = Top.missing /\ g \in Frame
  BY <1>1 DEF Frame, Stages, Fn
<1>3. FrameOK(tool, rows', g)
  BY <1>1, <1>2 DEF FrameOK, Fn
<1>4. stack' = [stack EXCEPT ![Depth] = g]
  BY DEF Goto, Top
<1> HIDE DEF g
<1> QED
  BY <1>2, <1>3, <1>4, TopChanges

\* To go past the need at the current position.
LEMMA Passes ==
  ASSUME IInv, Rest', tool' = tool, Grows(rows, rows'), Running("needs"), ~asked',
         Top.pos \in DOMAIN Needs(Fn),
         NEW E \in SUBSET Functions,
         Top.pos \in Top.missing => Needs(Fn)[Top.pos].name \in E,
         NextNeed(E)
  PROVE  IInv'
<1> DEFINE g == Passed(Top, E)
<1>1. stack # <<>> /\ Top.stage = "needs"
  BY DEF Running
<1>2. FrameOK(tool, rows, Top) /\ Top \in Frame /\ Needs(Fn) = tool.needs[Top.fn]
      /\ Needs(Fn) \in Seq(Need)
  BY <1>1, TopFrame
<1>3. /\ g.fn = Top.fn /\ g.stage = "needs" /\ g.pos = Top.pos + 1
      /\ g.missing = Top.missing /\ g.ended = Top.ended \cup E /\ g \in Frame
  BY <1>1, <1>2, PassedFields
<1> HIDE DEF g
<1>4. Top.pos \in Nat /\ g.pos \in 1 .. Len(tool.needs[g.fn]) + 1
  BY <1>2, <1>3 DEF Frame
<1>5. ASSUME NEW k \in DOMAIN tool.needs[g.fn]
      PROVE  /\ ForcedIn(tool, g, k) => k \in g.missing
             /\ k < g.pos /\ k \in g.missing => NeedOf(tool, g, k).name \in g.ended
  <2>1. k \in Nat /\ (k < g.pos => k < Top.pos \/ k = Top.pos)
    BY <1>2, <1>3, <1>4, <1>5
  <2>2. NeedOf(tool, g, k) = NeedOf(tool, Top, k)
        /\ (ForcedIn(tool, g, k) <=> ForcedIn(tool, Top, k))
    BY <1>3 DEF NeedOf, ForcedIn
  <2>3. /\ ForcedIn(tool, Top, k) => k \in Top.missing
        /\ k < Top.pos /\ k \in Top.missing => NeedOf(tool, Top, k).name \in Top.ended
    BY <1>1, <1>2, <1>3 DEF FrameOK
  <2>4. k = Top.pos => NeedOf(tool, Top, k) = Needs(Fn)[Top.pos]
    BY <1>2 DEF NeedOf
  <2> QED
    BY <1>3, <2>1, <2>2, <2>3, <2>4
<1>6. FrameOK(tool, rows', g)
  BY <1>2, <1>3, <1>4, <1>5 DEF FrameOK
<1>7. stack' = [stack EXCEPT ![Depth] = g]
  BY DEF NextNeed, g
<1> QED
  BY <1>1, <1>3, <1>6, <1>7, TopChanges DEF Fn

LEMMA Quiet ==
  ASSUME IInv, stack # <<>>, Top.stage # "paused"
  PROVE  ~asked
  BY DEF IInv, Asking

LEMMA Initially ==
  ASSUME Init
  PROVE  IInv
<1>1. MaxInvocations \in Nat
  BY ToolsAssumption
<1>2. Rest
  <2>1. asked \in BOOLEAN
    BY Zenon DEF Init
  <2> QED
    BY <1>1, <2>1 DEF Init, Rest
<1> QED
  BY <1>2 DEF Init, IInv, Calls, Waiting, Asking

LEMMA GrowsRefl == Grows(rows, rows)
  BY DEF Grows

LEMMA InvokeStep ==
  ASSUME IInv, Invoke
  PROVE  IInv'
<1> USE DEF Invoke
<1> DEFINE fr == Enter(tool.root)
<1>0. MaxInvocations \in Nat
  BY ToolsAssumption
<1>1. Rest'
  <2>1. asked' \in BOOLEAN
    BY Zenon
  <2> QED
    BY <1>0, <2>1 DEF IInv, Rest
<1>2. tool.root \in Functions /\ tool.needs[tool.root] \in Seq(Need)
  BY ToolFacts DEF IInv, Rest
<1>3. fr \in Frame /\ fr.stage = "enter" /\ fr.pos = 1 /\ fr.missing = {} /\ fr.fn = tool.root
  BY <1>2 DEF Enter, Frame, Stages
<1>4. FrameOK(tool, rows, fr)
  BY <1>2, <1>3 DEF FrameOK
<1>5. stack' = <<fr>> /\ tool' = tool /\ rows' = rows /\ ~asked'
  OBVIOUS
<1> HIDE DEF fr, Invoke
<1>6. stack' \in Seq(Frame) /\ DOMAIN stack' = {1} /\ stack'[1] = fr /\ Len(stack') = 1
  BY <1>3, <1>5
<1>7. Calls'
  BY <1>4, <1>5, <1>6 DEF Calls
<1>8. Waiting' /\ Asking'
  BY <1>3, <1>5, <1>6 DEF Waiting, Asking, Top, Depth
<1> QED
  BY <1>1, <1>7, <1>8 DEF IInv

LEMMA CheckNeedsStep ==
  ASSUME IInv, CheckNeeds
  PROVE  IInv'
<1>1. stack # <<>> /\ Top.stage = "enter" /\ tool' = tool /\ rows' = rows /\ asked' = asked
  BY DEF CheckNeeds, Running
<1>2. Rest'
  BY DEF CheckNeeds, IInv, Rest
<1>3. ~asked'
  BY <1>1, Quiet
<1>4. Grows(rows, rows')
  BY <1>1, GrowsRefl DEF Grows
<1>5. CASE Goto("failed")
  BY <1>1, <1>2, <1>3, <1>4, <1>5, GoesTo
<1>6. CASE ~Goto("failed")
  <2> DEFINE s == IF Missing(Fn) = {} THEN "operate" ELSE "needs"
             g == Checked(Top, Missing(Fn))
  <2>1. FrameOK(tool, rows, Top) /\ Top \in Frame /\ Needs(Fn) = tool.needs[Fn]
        /\ Needs(Fn) \in Seq(Need) /\ Depth \in DOMAIN stack /\ Fn \in Functions
    BY <1>1, TopFrame DEF Fn
  <2>2. stack' = [stack EXCEPT ![Depth] = g]
    BY <1>6 DEF CheckNeeds
  <2>3. Missing(Fn) \subseteq DOMAIN Needs(Fn) /\ DOMAIN Needs(Fn) \subseteq Nat
    BY <2>1 DEF Missing
  <2>5. Top.pos = 1 /\ \A k \in DOMAIN Needs(Fn) : ~(k < Top.pos)
    BY <1>1, <2>1 DEF FrameOK
  <2>6. s \in {"operate", "needs"} /\ (s = "operate" => Missing(Fn) = {})
    OBVIOUS
  <2>7. g \in Frame /\ g.fn = Fn /\ g.stage = s /\ g.pos = Top.pos /\ g.missing = Missing(Fn)
    <3>1. Missing(Fn) \in SUBSET Nat
      BY <2>3
    <3> QED
      BY <2>1, <3>1, CheckedFields DEF Fn
  <2>8. Top.pos \in 1 .. Len(tool.needs[g.fn]) + 1
    BY <2>1, <2>7 DEF FrameOK, Fn
  <2> HIDE DEF g, s
  <2>9. ASSUME NEW k \in DOMAIN Needs(Fn), k \notin Missing(Fn)
        PROVE  ~ForcedIn(tool, g, k) /\ rows[NeedOf(tool, g, k).name] # "none"
    <3>1. HasExecuted(Needs(Fn)[k].name) /\ ~Forced(Fn, Needs(Fn)[k])
      BY <2>9 DEF Missing
    <3> QED
      BY <2>1, <2>7, <3>1 DEF HasExecuted, Forced, ForcedIn, NeedOf
  <2>10. FrameOK(tool, rows', g)
    BY <1>1, <2>1, <2>3, <2>5, <2>6, <2>7, <2>8, <2>9 DEF FrameOK
  <2>11. stack' = [stack EXCEPT ![Depth] = g]
    BY <2>2 DEF g
  <2> QED
    BY <1>1, <1>2, <1>3, <1>4, <2>6, <2>7, <2>10, <2>11, TopChanges
<1> QED
  BY <1>5, <1>6

\* RecordExecution keeps what the invariant says of the records.
LEMMA RecordedRest ==
  ASSUME IInv, NEW f \in Functions, NEW s \in Statuses, Record(f, s),
         tool' = tool, sending' \in [Functions -> Nat], invoked' = invoked,
         answer' = answer, asked' \in BOOLEAN
  PROVE  Rest' /\ Grows(rows, rows')
<1>1. rows' \in [Functions -> Statuses \cup {"none"}] /\ Grows(rows, rows')
  BY Recorded
<1> QED
  BY <1>1 DEF IInv, Rest

LEMMA SkipNeedStep ==
  ASSUME IInv, SkipNeed
  PROVE  IInv'
<1> USE DEF SkipNeed
<1>1. Rest' /\ tool' = tool /\ Grows(rows, rows')
  BY GrowsRefl DEF IInv, Rest, Grows
<1>2. ~asked'
  BY Quiet DEF Running
<1> QED
  BY <1>1, <1>2, Passes

\* The need at the current position, as the steps that execute it see it.
LEMMA CurrentNeed ==
  ASSUME IInv, NEW n, Current(n)
  PROVE  /\ Running("needs") /\ stack # <<>> /\ ~asked
         /\ Top.pos \in Top.missing
         /\ Top.pos \in DOMAIN Needs(Fn)
         /\ n = Needs(Fn)[Top.pos]
         /\ n.name \in Functions
<1>1. Running("needs") /\ stack # <<>> /\ Top.stage = "needs"
      /\ Top.pos \in Top.missing /\ n = Needs(Fn)[Top.pos]
  BY DEF Current, Running
<1>2. Top.pos \in DOMAIN Needs(Fn) /\ Fn \in Functions
  BY <1>1, TopFrame DEF FrameOK
<1> QED
  BY <1>1, <1>2, Quiet, ToolFacts DEF IInv, Rest, Needs

LEMMA SystemNeedStep ==
  ASSUME IInv, SystemNeed
  PROVE  IInv'
<1>1. PICK n \in Need :
        /\ Current(n)
        /\ \/ (\E s \in {"complete", "failed"} : Record(n.name, s)) /\ NextNeed({n.name})
           \/ Goto("failed") /\ UNCHANGED rows
        /\ UNCHANGED <<tool, sending, invoked, answer, asked>>
  BY DEF SystemNeed
<1>2. sending' \in [Functions -> Nat] /\ asked' \in BOOLEAN
  BY <1>1 DEF IInv, Rest
<1>3. CASE NextNeed({n.name}) /\ \E s \in {"complete", "failed"} : Record(n.name, s)
  <2>1. Rest' /\ Grows(rows, rows')
    BY <1>1, <1>2, <1>3, CurrentNeed, RecordedRest DEF Statuses
  <2> QED
    BY <1>1, <1>3, <2>1, CurrentNeed, Passes
<1>4. CASE Goto("failed") /\ UNCHANGED rows
  <2>1. Rest' /\ Grows(rows, rows')
    BY <1>1, <1>4, GrowsRefl DEF IInv, Rest, Grows
  <2> QED
    BY <1>1, <1>4, <2>1, CurrentNeed, GoesTo
<1> QED
  BY <1>1, <1>3, <1>4

LEMMA AskNeedStep ==
  ASSUME IInv, AskNeed
  PROVE  IInv'
<1>1. PICK n \in Need :
        /\ Current(n)
        /\ \/ Goto("failed") /\ UNCHANGED <<rows, asked>>
           \/ Record(n.name, "complete") /\ NextNeed({n.name}) /\ UNCHANGED asked
           \/ Record(n.name, "complete") /\ Goto("paused") /\ asked' = TRUE
        /\ UNCHANGED <<tool, sending, invoked, answer>>
  BY DEF AskNeed
<1>2. sending' \in [Functions -> Nat]
  BY <1>1 DEF IInv, Rest
<1>3. CASE Goto("failed") /\ UNCHANGED <<rows, asked>>
  <2>1. Rest' /\ Grows(rows, rows')
    BY <1>1, <1>3, GrowsRefl DEF IInv, Rest, Grows
  <2> QED
    BY <1>1, <1>3, <2>1, CurrentNeed, GoesTo
<1>4. CASE Record(n.name, "complete") /\ NextNeed({n.name}) /\ UNCHANGED asked
  <2>0. asked' \in BOOLEAN
    BY <1>4 DEF IInv, Rest
  <2>1. Rest' /\ Grows(rows, rows')
    BY <1>1, <1>2, <1>4, <2>0, CurrentNeed, RecordedRest DEF Statuses
  <2> QED
    BY <1>1, <1>4, <2>1, CurrentNeed, Passes
<1>5. CASE Record(n.name, "complete") /\ Goto("paused") /\ asked' = TRUE
  <2>0. asked' \in BOOLEAN
    BY <1>5, Zenon
  <2>1. Rest' /\ Grows(rows, rows')
    BY <1>1, <1>2, <1>5, <2>0, CurrentNeed, RecordedRest DEF Statuses
  <2> QED
    BY <1>1, <1>5, <2>1, CurrentNeed, GoesTo
<1> QED
  BY <1>1, <1>3, <1>4, <1>5

LEMMA MessageNeedStep ==
  ASSUME IInv, MessageNeed
  PROVE  IInv'
<1>1. PICK n \in Need :
        /\ Current(n)
        /\ NextNeed({n.name})
        /\ \/ Record(n.name, "skipped") /\ UNCHANGED sending
           \/ sending' = [sending EXCEPT ![n.name] = @ + 1] /\ UNCHANGED rows
        /\ UNCHANGED <<tool, invoked, answer, asked>>
  BY DEF MessageNeed
<1>2. asked' \in BOOLEAN /\ sending \in [Functions -> Nat]
  BY <1>1 DEF IInv, Rest
<1>3. Rest' /\ Grows(rows, rows')
  <2>1. CASE Record(n.name, "skipped") /\ UNCHANGED sending
    BY <1>1, <1>2, <2>1, CurrentNeed, RecordedRest DEF Statuses
  <2>2. CASE sending' = [sending EXCEPT ![n.name] = @ + 1] /\ UNCHANGED rows
    <3>1. sending' \in [Functions -> Nat]
      BY <1>1, <1>2, <2>2, CurrentNeed
    <3> QED
      BY <1>1, <2>2, <3>1, GrowsRefl DEF IInv, Rest, Grows
  <2> QED
    BY <1>1, <2>1, <2>2
<1> QED
  BY <1>1, <1>3, CurrentNeed, Passes

LEMMA MessageSentStep ==
  ASSUME IInv, MessageSent
  PROVE  IInv'
<1>1. PICK f \in Functions :
        /\ sending[f] > 0
        /\ sending' = [sending EXCEPT ![f] = @ - 1]
        /\ \E s \in {"complete", "failed"} : Record(f, s)
        /\ UNCHANGED <<tool, stack, invoked, answer, asked>>
  BY DEF MessageSent
<1>2. sending' \in [Functions -> Nat] /\ asked' \in BOOLEAN
  BY <1>1 DEF IInv, Rest
<1>3. Rest' /\ Grows(rows, rows')
  BY <1>1, <1>2, RecordedRest DEF Statuses
<1> QED
  BY <1>1, <1>3, StackStays

LEMMA CallNeedStep ==
  ASSUME IInv, CallNeed
  PROVE  IInv'
<1>1. PICK n \in Need :
        /\ Current(n)
        /\ stack' = Append(stack, Enter(n.name)) \/ Goto("failed")
        /\ UNCHANGED <<tool, rows, sending, invoked, answer, asked>>
  BY DEF CallNeed
<1>0. /\ Running("needs") /\ stack # <<>> /\ ~asked
      /\ Top.pos \in Top.missing /\ n = Needs(Fn)[Top.pos]
      /\ n.name \in Functions
  <2>1. Current(n)
    BY <1>1
  <2> QED
    BY <2>1, CurrentNeed, Zenon
<1>2. Rest' /\ Grows(rows, rows')
  BY <1>1, GrowsRefl DEF IInv, Rest, Grows
<1>3. CASE Goto("failed")
  BY <1>0, <1>1, <1>2, <1>3, GoesTo
<1>4. CASE stack' = Append(stack, Enter(n.name))
  <2> DEFINE fr == Enter(n.name)
             d == Depth
  <2>1. d \in Nat /\ d > 0 /\ stack \in Seq(Frame) /\ DOMAIN stack = 1 .. d
        /\ FrameOK(tool, rows, Top) /\ Top = stack[d] /\ Top.stage = "needs"
    BY <1>0, TopFrame DEF IInv, Calls, Depth, Top, Running
  <2>2. n.name \in Functions /\ tool.needs[n.name] \in Seq(Need)
    BY <1>0, ToolFacts DEF IInv, Rest
  <2>3. /\ fr \in Frame /\ fr.fn = n.name /\ fr.stage = "enter" /\ fr.pos = 1
        /\ fr.missing = {}
    BY <2>2 DEF Enter, Frame, Stages
  <2>4. FrameOK(tool, rows, fr)
    BY <2>2, <2>3 DEF FrameOK
  <2> HIDE DEF fr
  <2>5. /\ stack' \in Seq(Frame) /\ Len(stack') = d + 1 /\ DOMAIN stack' = 1 .. d + 1
        /\ stack'[d + 1] = fr
        /\ \A i \in 1 .. d : stack'[i] = stack[i]
    BY <1>4, <2>1, <2>3 DEF Depth, fr
  <2> HIDE DEF d
  <2>6. Calls'
    <3>1. ASSUME NEW i \in 1 .. d + 1
          PROVE  FrameOK(tool, rows, stack'[i])
      <4>1. i = d + 1 \/ i \in DOMAIN stack
        BY <2>1
      <4> QED
        BY <2>1, <2>4, <2>5, <4>1 DEF IInv, Calls
    <3> QED
      BY <1>1, <2>5, <3>1 DEF Calls
  <2>7. Waiting'
    <3>1. ASSUME NEW i \in 1 .. d + 1, i < d + 1
          PROVE  /\ stack'[i].stage = "needs"
                 /\ stack'[i].pos \in stack'[i].missing
                 /\ NeedOf(tool, stack'[i], stack'[i].pos).name = stack'[i + 1].fn
      <4>1. CASE i = d
        BY <1>0, <2>1, <2>3, <2>5, <4>1 DEF NeedOf, Needs, Fn
      <4>2. CASE i # d
        <5>1. i \in DOMAIN stack /\ i + 1 \in 1 .. d /\ i < Depth
          BY <2>1, <3>1, <4>2 DEF d
        <5> QED
          BY <2>1, <2>5, <5>1 DEF IInv, Waiting
      <4> QED
        BY <4>1, <4>2
    <3> QED
      BY <1>1, <2>5, <3>1 DEF Waiting, Depth, NeedOf
  <2>8. Asking'
    <3>1. stack' # <<>> /\ Top' = fr
      BY <2>1, <2>5 DEF Top, Depth
    <3> QED
      BY <1>0, <1>1, <2>3, <3>1 DEF Asking
  <2> QED
    BY <1>2, <2>6, <2>7, <2>8 DEF IInv
<1> QED
  BY <1>1, <1>3, <1>4

LEMMA FinalCheckStep ==
  ASSUME IInv, FinalCheck
  PROVE  IInv'
<1>1. /\ stack # <<>> /\ Top.stage = "needs" /\ Top.pos \notin DOMAIN Needs(Fn)
      /\ UNCHANGED <<tool, rows, sending, invoked, answer, asked>>
  BY DEF FinalCheck, Running
<1>2. Rest' /\ Grows(rows, rows')
  BY <1>1, GrowsRefl DEF IInv, Rest, Grows
<1>3. ~asked
  BY <1>1, Quiet
<1>4. CASE Goto("failed")
  BY <1>1, <1>2, <1>3, <1>4, GoesTo
<1>5. CASE AllMet(Fn) /\ Goto("operate")
  <2> DEFINE g == [Top EXCEPT !.stage = "operate"]
  <2>1. FrameOK(tool, rows, Top) /\ Top \in Frame /\ Needs(Fn) = tool.needs[Top.fn]
        /\ Needs(Fn) \in Seq(Need)
    BY <1>1, TopFrame
  <2>2. /\ g.fn = Top.fn /\ g.stage = "operate" /\ g.pos = Top.pos
        /\ g.missing = Top.missing /\ g.ended = Top.ended /\ g \in Frame
    BY <2>1 DEF Frame, Stages
  <2>3. stack' = [stack EXCEPT ![Depth] = g]
    BY <1>5 DEF Goto, Top
  <2> HIDE DEF g
  <2>4. \A k \in DOMAIN Needs(Fn) : k \in Nat /\ k < Top.pos
    <3>1. Top.pos = Len(Needs(Fn)) + 1
      BY <1>1, <2>1 DEF FrameOK
    <3> QED
      BY <2>1, <3>1
  <2>5. ASSUME NEW k \in DOMAIN tool.needs[g.fn]
        PROVE  /\ rows[NeedOf(tool, g, k).name] # "none"
               /\ ForcedIn(tool, g, k) => NeedOf(tool, g, k).name \in g.ended
    <3>1. NeedOf(tool, g, k) = NeedOf(tool, Top, k)
          /\ (ForcedIn(tool, g, k) <=> ForcedIn(tool, Top, k))
      BY <2>2 DEF NeedOf, ForcedIn
    <3>2. rows[NeedOf(tool, Top, k).name] # "none"
      BY <1>5, <2>1, <2>2, <2>5 DEF AllMet, HasExecuted, NeedOf
    <3>3. /\ ForcedIn(tool, Top, k) => k \in Top.missing
          /\ k < Top.pos /\ k \in Top.missing => NeedOf(tool, Top, k).name \in Top.ended
      BY <1>1, <2>1, <2>2, <2>5 DEF FrameOK
    <3> QED
      BY <2>1, <2>2, <2>4, <2>5, <3>1, <3>2, <3>3
  <2>6. FrameOK(tool, rows', g)
    BY <1>1, <2>1, <2>2, <2>5 DEF FrameOK
  <2> QED
    BY <1>1, <1>2, <1>3, <2>2, <2>3, <2>6, TopChanges DEF Fn
<1> QED
  BY <1>4, <1>5 DEF FinalCheck

\* A call that ends with a result of its own, when nothing has asked.
LEMMA Ended ==
  ASSUME IInv, stack # <<>>, Top.stage # "paused", NEW result \in Answers, Gives(result),
         rows' \in [Functions -> Statuses \cup {"none"}], Grows(rows, rows'),
         UNCHANGED <<tool, sending, invoked>>
  PROVE  IInv'
<1>1. Return(result) /\ (asked' <=> result = "special")
  BY Quiet DEF Gives
<1>2. asked' \in BOOLEAN
  BY Zenon DEF Gives
<1> QED
  BY <1>1, <1>2, Returns

LEMMA EarlyCacheStep ==
  ASSUME IInv, EarlyCache
  PROVE  IInv'
<1>1. /\ stack # <<>> /\ Top.stage = "enter" /\ Record(Fn, "complete")
      /\ UNCHANGED <<tool, sending, invoked>>
  BY DEF EarlyCache, Running
<1>2. PICK result \in Answers : Gives(result)
  BY DEF EarlyCache, Answers
<1>3. rows' \in [Functions -> Statuses \cup {"none"}] /\ Grows(rows, rows')
  BY <1>1, TopFrame, Recorded DEF Statuses
<1> QED
  BY <1>1, <1>2, <1>3, Ended

LEMMA EndFailedStep ==
  ASSUME IInv, EndFailed
  PROVE  IInv'
<1>1. /\ stack # <<>> /\ Top.stage = "failed" /\ Return("text")
      /\ Leaves({"failed"}) \/ LeavesNone
      /\ UNCHANGED <<tool, sending, invoked, asked>>
  BY DEF EndFailed, Running
<1>2. ~asked' /\ asked' \in BOOLEAN /\ Fn \in Functions
  BY <1>1, Quiet, TopFrame DEF IInv, Rest
<1>3. rows' \in [Functions -> Statuses \cup {"none"}] /\ Grows(rows, rows')
  BY <1>1, <1>2, Left DEF LeavesNone, Statuses
<1> QED
  BY <1>1, <1>2, <1>3, Returns DEF Answers

LEMMA EndPausedStep ==
  ASSUME IInv, EndPaused
  PROVE  IInv'
<1>1. /\ stack # <<>> /\ Top.stage = "paused" /\ Record(Fn, "pending") /\ Return("special")
      /\ UNCHANGED <<tool, sending, invoked, asked>>
  BY DEF EndPaused, Running
<1>2. asked /\ asked' \in BOOLEAN /\ Fn \in Functions
  BY <1>1, TopFrame DEF IInv, Rest, Asking
<1>3. rows' \in [Functions -> Statuses \cup {"none"}] /\ Grows(rows, rows')
  BY <1>1, <1>2, Recorded DEF Statuses
<1> QED
  BY <1>1, <1>2, <1>3, Returns DEF Answers

LEMMA OperateStep ==
  ASSUME IInv, Operate
  PROVE  IInv'
<1>1. stack # <<>> /\ Top.stage = "operate" /\ UNCHANGED <<tool, sending, invoked>>
  BY DEF Operate, Running
<1>2. PICK result \in Answers : Gives(result)
  BY DEF Operate, Runs, Breaks, Reminds, Asks, Errs, Answers
<1>3. PICK S \in SUBSET (Statuses \cup {rows[Fn]}) : Leaves(S)
  BY DEF Operate, Runs, Breaks, Reminds, Asks, Errs, LeavesNone, Statuses
<1>4. rows' \in [Functions -> Statuses \cup {"none"}] /\ Grows(rows, rows')
  BY <1>1, <1>3, TopFrame, Left
<1> QED
  BY <1>1, <1>2, <1>4, Ended

LEMMA NextKeeps ==
  ASSUME IInv, [Next]_vars
  PROVE  IInv'
<1>1. CASE UNCHANGED vars
  <2>1. Rest' /\ Grows(rows, rows')
    BY <1>1 DEF vars, IInv, Rest, Grows
  <2> QED
    BY <1>1, <2>1, StackStays DEF vars
<1>2. CASE Invoke \/ MessageSent
  BY <1>2, InvokeStep, MessageSentStep
<1>3. CASE Step
  BY <1>3, EarlyCacheStep, CheckNeedsStep, SkipNeedStep, SystemNeedStep, AskNeedStep,
     MessageNeedStep, CallNeedStep, FinalCheckStep, EndFailedStep, EndPausedStep,
     OperateStep DEF Step
<1> QED
  BY <1>1, <1>2, <1>3 DEF Next, Over

LEMMA Invariance == Spec => []IInv
  BY Initially, NextKeeps, PTL DEF Spec

-----------------------------------------------------------------------------
(* The theorems.                                                           *)

LEMMA ImpliesTypeOK ==
  ASSUME IInv
  PROVE  TypeOK
<1>1. ASSUME NEW i \in DOMAIN stack
      PROVE  /\ stack[i].pos \in 1 .. Len(tool.needs[stack[i].fn]) + 1
             /\ stack[i].missing \subseteq DOMAIN tool.needs[stack[i].fn]
  BY <1>1 DEF IInv, Calls, FrameOK
<1> QED
  BY <1>1 DEF TypeOK, IInv, Rest, Calls

LEMMA ImpliesNeedsMet ==
  ASSUME IInv
  PROVE  NeedsMet
<1> SUFFICES ASSUME NEW i \in DOMAIN stack, stack[i].stage = "operate",
                    NEW k \in DOMAIN Needs(stack[i].fn)
             PROVE  LET n == Needs(stack[i].fn)[k]
                    IN  /\ HasExecuted(n.name)
                        /\ Forced(stack[i].fn, n) => n.name \in stack[i].ended
  BY DEF NeedsMet
<1>1. FrameOK(tool, rows, stack[i])
  BY DEF IInv, Calls
<1> QED
  BY <1>1 DEF FrameOK, HasExecuted, Forced, ForcedIn, NeedOf, Needs

LEMMA ImpliesQuestionsSurface ==
  ASSUME IInv
  PROVE  QuestionsSurface
<1>1. ASSUME asked, NEW i \in DOMAIN stack
      PROVE  stack[i].stage # "operate"
  <2>1. stack \in Seq(Frame) /\ stack # <<>> /\ (i < Depth \/ i = Depth)
    BY <1>1 DEF IInv, Calls, Depth
  <2>2. Top.stage = "paused"
    BY <1>1, <2>1 DEF IInv, Asking
  <2> QED
    BY <1>1, <2>1, <2>2 DEF IInv, Waiting, Top
<1>2. stack = <<>> => (asked <=> answer = "special")
  BY DEF IInv, Asking
<1> QED
  BY <1>1, <1>2 DEF QuestionsSurface

\* Every variable keeps its type, and no call looks past its last need.
THEOREM TypeCorrect == Spec => []TypeOK
  BY Invariance, ImpliesTypeOK, PTL

\* ExecuteDependencies lets a function operate only when each need has a record
\* and each that must be executed for this call has ended since it began.
THEOREM NeedsAreMet == Spec => []NeedsMet
  BY Invariance, ImpliesNeedsMet, PTL

\* What a function or a knowledge query asks for in a special text ends every
\* call below it and reaches the caller of the outermost one, who gets such a
\* text only then.
THEOREM QuestionsComeOut == Spec => []QuestionsSurface
  BY Invariance, ImpliesQuestionsSurface, PTL

-----------------------------------------------------------------------------
(* Questions of earlier calls.                                             *)

\* The need at position k, when it must be executed for this call and is a
\* function that records its failures, has no open question.
NoQuestion(t, r, fr, k) ==
  LET n == NeedOf(t, fr, k)
  IN  ForcedIn(t, fr, k) /\ t.kind[n.name] = "tool" /\ n.name \in t.handled \ t.called
        => r[n.name] # "pending"

\* So it is with the needs a call has passed.
AnsweredIn(t, r, fr) ==
  \A k \in DOMAIN t.needs[fr.fn] :
    fr.stage = "operate" \/ (fr.stage = "needs" /\ k < fr.pos) => NoQuestion(t, r, fr, k)

\* And with all calls, until something asks.
Settled ==
  \/ stack = <<>> \/ Top.stage = "paused"
  \/ \A i \in DOMAIN stack : AnsweredIn(tool, rows, stack[i])

\* Only messages to the user are recorded later by a goroutine.
Sends == \A f \in Functions : sending[f] > 0 => tool.kind[f] = "message"

NInv == Sends /\ (~tool.faults => Settled)

\* No function of a tool is left with a new question, but by a callback.
Calm(t, r, s) ==
  \A f \in Functions : t.kind[f] = "tool" /\ f \notin t.called => s[f] = r[f] \/ s[f] # "pending"

LEMMA CalmKeeps ==
  ASSUME NEW t \in Tools, NEW r, NEW s, Calm(t, r, s), NEW fr \in Frame, AnsweredIn(t, r, fr)
  PROVE  AnsweredIn(t, s, fr)
<1>1. \A k \in DOMAIN t.needs[fr.fn] : NeedOf(t, fr, k).name \in Functions
  BY ToolFacts DEF NeedOf, Frame
<1> QED
  BY <1>1 DEF AnsweredIn, NoQuestion, Calm

LEMMA CalmRecord ==
  ASSUME IInv, ~tool.faults, NEW f \in Functions, NEW s, Record(f, s)
  PROVE  /\ rows'[f] = s
         /\ s # "pending" \/ tool.kind[f] # "tool" => Calm(tool, rows, rows')
  BY DEF Record, IInv, Rest, Calm

LEMMA CalmLeft ==
  ASSUME IInv, ~tool.faults, Fn \in Functions, NEW S, Leaves(S)
  PROVE  \E s \in S : /\ rows'[Fn] = s
                      /\ s # "pending" \/ s = rows[Fn] => Calm(tool, rows, rows')
<1>1. PICK s \in S, G \in SUBSET (tool.called \ {Fn}) :
        \E others \in [G -> Statuses] :
          rows' = [f \in Functions |-> IF f \in G THEN others[f]
                                      ELSE IF f = Fn THEN s ELSE rows[f]]
  BY DEF Leaves
<1> QED
  BY <1>1 DEF Calm

LEMMA TopSettles ==
  ASSUME IInv, Settled, tool' = tool, stack # <<>>, Top.stage # "paused",
         NEW g, stack' = [stack EXCEPT ![Depth] = g],
         g.stage = "paused" \/ (AnsweredIn(tool, rows', g) /\ Calm(tool, rows, rows'))
  PROVE  Settled'
<1>1. Depth \in DOMAIN stack /\ stack \in Seq(Frame) /\ DOMAIN stack' = DOMAIN stack
      /\ Len(stack') = Depth /\ tool \in Tools
  BY TopFrame DEF IInv, Calls, Rest, Depth
<1>2. \A i \in DOMAIN stack : stack'[i] = IF i = Depth THEN g ELSE stack[i]
  BY <1>1
<1>3. CASE g.stage = "paused"
  BY <1>1, <1>2, <1>3 DEF Settled, Top, Depth
<1>4. CASE AnsweredIn(tool, rows', g) /\ Calm(tool, rows, rows')
  <2>1. ASSUME NEW i \in DOMAIN stack PROVE AnsweredIn(tool, rows', stack'[i])
    <3>1. stack[i] \in Frame /\ AnsweredIn(tool, rows, stack[i])
      BY <1>1 DEF Settled
    <3> QED
      BY <1>1, <1>2, <1>4, <3>1, CalmKeeps
  <2> QED
    BY <1>1, <2>1 DEF Settled
<1> QED
  BY <1>3, <1>4

LEMMA GotoSettles ==
  ASSUME IInv, Settled, tool' = tool, stack # <<>>, Top.stage # "paused",
         NEW stage \in {"failed", "paused"}, Goto(stage),
         stage = "paused" \/ rows' = rows
  PROVE  Settled'
<1> DEFINE g == [Top EXCEPT !.stage = stage]
<1>1. g.stage = stage
  BY TopFrame DEF Frame
<1>2. stack' = [stack EXCEPT ![Depth] = g]
  BY DEF Goto, Top
<1> HIDE DEF g
<1>3. stage = "failed" => AnsweredIn(tool, rows', g) /\ Calm(tool, rows, rows')
  BY <1>1 DEF AnsweredIn, Calm
<1> QED
  BY <1>1, <1>2, <1>3, TopSettles

\* Past a need that is not a function of a tool, or need not be executed.
LEMMA PassSettles ==
  ASSUME IInv, Settled, tool' = tool, Running("needs"), Calm(tool, rows, rows'),
         Top.pos \notin Top.missing \/ tool.kind[Needs(Fn)[Top.pos].name] # "tool",
         NEW E \in SUBSET Functions, NextNeed(E)
  PROVE  Settled'
<1> DEFINE g == Passed(Top, E)
<1>1. stack # <<>> /\ Top.stage = "needs"
  BY DEF Running
<1>2. /\ FrameOK(tool, rows, Top) /\ Top \in Frame /\ Needs(Fn) = tool.needs[Top.fn]
      /\ Depth \in DOMAIN stack /\ tool \in Tools /\ Needs(Fn) \in Seq(Need)
  BY <1>1, TopFrame DEF IInv, Rest
<1>3. g.fn = Top.fn /\ g.stage = "needs" /\ g.pos = Top.pos + 1
  BY <1>1, <1>2, PassedFields
<1>4. stack' = [stack EXCEPT ![Depth] = g]
  BY DEF NextNeed
<1> HIDE DEF g
<1>5. AnsweredIn(tool, rows', Top)
  BY <1>1, <1>2, CalmKeeps DEF Settled, Top
<1>6. ASSUME NEW k \in DOMAIN tool.needs[g.fn], k < g.pos
      PROVE  NoQuestion(tool, rows', g, k)
  <2>1. k \in Nat /\ Top.pos \in Nat /\ (k < Top.pos \/ k = Top.pos)
    BY <1>2, <1>3, <1>6 DEF Frame
  <2>2. /\ NeedOf(tool, g, k) = NeedOf(tool, Top, k)
        /\ ForcedIn(tool, g, k) <=> ForcedIn(tool, Top, k)
    BY <1>3 DEF NeedOf, ForcedIn
  <2>3. CASE k < Top.pos
    BY <1>1, <1>3, <1>5, <2>2, <2>3 DEF AnsweredIn, NoQuestion
  <2>4. CASE k = Top.pos
    <3>1. NeedOf(tool, Top, k) = Needs(Fn)[Top.pos] /\ (ForcedIn(tool, Top, k) => k \in Top.missing)
      BY <1>1, <1>2, <1>3, <2>4 DEF FrameOK, NeedOf
    <3> QED
      BY <2>2, <2>4, <3>1 DEF NoQuestion
  <2> QED
    BY <2>1, <2>3, <2>4
<1>7. AnsweredIn(tool, rows', g)
  BY <1>3, <1>6 DEF AnsweredIn
<1> QED
  BY <1>1, <1>4, <1>7, TopSettles

\* What a call returns: a question stops the caller, a text comes from a call
\* that left its own record, if its function records its failures.
LEMMA ReturnSettles ==
  ASSUME IInv, Settled, tool' = tool, stack # <<>>, NEW result \in Answers, Return(result),
         \/ result = "special"
         \/ /\ Top.stage # "paused" /\ Calm(tool, rows, rows')
            /\ result = "text" /\ Fn \in tool.handled \ tool.called => rows'[Fn] # "pending"
  PROVE  Settled'
<1>1. /\ Depth \in Nat /\ Depth > 0 /\ stack \in Seq(Frame) /\ DOMAIN stack = 1 .. Depth
      /\ tool \in Tools
  BY DEF IInv, Calls, Rest, Depth
<1>2. CASE Depth = 1
  BY <1>2 DEF Return, Settled
<1>3. CASE Depth # 1
  <2> DEFINE d == Depth - 1
             caller == stack[d]
             g == Resume(caller, result, Fn)
  <2>1. d \in Nat /\ d > 0 /\ d \in DOMAIN stack /\ caller \in Frame /\ Fn \in Functions
    BY <1>1, <1>3, TopFrame
  <2>2. stack' = [i \in 1 .. d |-> IF i = d THEN g ELSE stack[i]]
    BY <1>3 DEF Return
  <2>3. /\ caller.stage = "needs"
        /\ NeedOf(tool, caller, caller.pos).name = Fn
        /\ tool.needs[caller.fn] \in Seq(Need)
    <3>1. caller.stage = "needs" /\ NeedOf(tool, caller, caller.pos).name = Fn
      BY <1>1, <2>1 DEF IInv, Calls, Waiting, Fn, Top
    <3>2. caller.fn \in Functions
      BY <2>1 DEF Frame
    <3> QED
      BY <1>1, <3>1, <3>2, ToolFacts
  <2>4. /\ g.fn = caller.fn
        /\ g.pos = IF result = "text" THEN caller.pos + 1 ELSE caller.pos
        /\ g.stage = IF result = "text" THEN "needs"
                     ELSE IF result = "special" THEN "paused" ELSE "failed"
    BY <2>1, Resumed
  <2> HIDE DEF g
  <2>5. Len(stack') = d /\ DOMAIN stack' = 1 .. d /\ stack'[d] = g /\ Top' = g
    <3>1. g \in Frame
      BY <2>1, Resumed DEF g
    <3>2. stack' \in Seq(Frame) /\ Len(stack') = d /\ DOMAIN stack' = 1 .. d
      BY <1>1, <2>1, <2>2, <3>1
    <3>3. stack'[d] = g
      BY <2>1, <2>2
    <3> QED
      BY <3>2, <3>3 DEF Top, Depth
  <2>6. CASE result = "special"
    BY <2>4, <2>5, <2>6 DEF Settled
  <2>7. CASE result # "special"
    <3>1. \A i \in DOMAIN stack : AnsweredIn(tool, rows', stack[i])
      BY <1>1, <2>7, CalmKeeps DEF Settled
    <3>2. AnsweredIn(tool, rows', g)
      <4>1. CASE result # "text"
        BY <2>4, <2>7, <4>1 DEF AnsweredIn
      <4>2. CASE result = "text"
        <5>1. ASSUME NEW k \in DOMAIN tool.needs[g.fn], k < g.pos
              PROVE  NoQuestion(tool, rows', g, k)
          <6>1. k \in Nat /\ caller.pos \in Nat /\ (k < caller.pos \/ k = caller.pos)
            BY <2>1, <2>3, <2>4, <4>2, <5>1 DEF Frame
          <6>2. /\ NeedOf(tool, g, k) = NeedOf(tool, caller, k)
                /\ ForcedIn(tool, g, k) <=> ForcedIn(tool, caller, k)
            BY <2>4 DEF NeedOf, ForcedIn
          <6>3. CASE k < caller.pos
            BY <2>1, <2>3, <2>4, <3>1, <6>2, <6>3 DEF AnsweredIn, NoQuestion
          <6>4. CASE k = caller.pos
            BY <2>3, <2>7, <4>2, <6>2, <6>4 DEF NoQuestion
          <6> QED
            BY <6>1, <6>3, <6>4
        <5> QED
          BY <2>4, <4>2, <5>1 DEF AnsweredIn
      <4> QED
        BY <4>1, <4>2
    <3>3. \A i \in 1 .. d : AnsweredIn(tool, rows', stack'[i])
      <4>1. \A i \in 1 .. d : i \in DOMAIN stack /\ (i # d => stack'[i] = stack[i])
        BY <1>1, <2>1, <2>2
      <4> QED
        BY <2>5, <3>1, <3>2, <4>1
    <3> QED
      BY <2>5, <3>3 DEF Settled
  <2> QED
    BY <2>6, <2>7
<1> QED
  BY <1>2, <1>3

-----------------------------------------------------------------------------
(* The steps, when calls of the database work.                             *)

LEMMA CallSettles ==
  ASSUME IInv, Settled, CallNeed
  PROVE  Settled'
<1>1. PICK n \in Need :
        /\ Current(n)
        /\ stack' = Append(stack, Enter(n.name)) \/ Goto("failed")
        /\ UNCHANGED <<tool, rows, sending, invoked, answer, asked>>
  BY DEF CallNeed
<1>2. stack # <<>> /\ Top.stage = "needs" /\ n.name \in Functions
  BY <1>1, CurrentNeed DEF Running
<1>3. CASE Goto("failed")
  BY <1>1, <1>2, <1>3, GotoSettles
<1>4. CASE stack' = Append(stack, Enter(n.name))
  <2>1. stack \in Seq(Frame) /\ Depth \in Nat /\ \A i \in DOMAIN stack : AnsweredIn(tool, rows, stack[i])
    BY <1>2 DEF IInv, Calls, Settled, Depth
  <2>2. Enter(n.name).stage = "enter"
    BY DEF Enter
  <2>3. AnsweredIn(tool, rows, Enter(n.name))
    BY <2>2 DEF AnsweredIn
  <2>4. \A i \in DOMAIN stack' : (i \in DOMAIN stack /\ stack'[i] = stack[i]) \/ stack'[i] = Enter(n.name)
    BY <1>4, <2>1
  <2>5. \A i \in DOMAIN stack' : AnsweredIn(tool, rows, stack'[i])
    BY <2>1, <2>3, <2>4
  <2> QED
    BY <1>1, <2>5 DEF Settled
<1> QED
  BY <1>1, <1>3, <1>4

LEMMA CheckSettles ==
  ASSUME IInv, Settled, ~tool.faults, CheckNeeds
  PROVE  Settled'
<1> DEFINE g == Checked(Top, Missing(Fn))
<1>1. /\ stack # <<>> /\ Top.stage = "enter" /\ tool' = tool /\ rows' = rows
      /\ stack' = [stack EXCEPT ![Depth] = g]
  BY DEF CheckNeeds, Running
<1>2. FrameOK(tool, rows, Top) /\ Top \in Frame /\ Needs(Fn) = tool.needs[Fn] /\ Needs(Fn) \in Seq(Need)
  BY <1>1, TopFrame DEF Fn
<1>3. Missing(Fn) \in SUBSET Nat
  BY <1>2 DEF Missing
<1>4. /\ g.fn = Fn /\ g.pos = Top.pos
      /\ g.stage = IF Missing(Fn) = {} THEN "operate" ELSE "needs"
  BY <1>2, <1>3, CheckedFields DEF Fn
<1> HIDE DEF g
<1>5. Top.pos = 1 /\ \A k \in DOMAIN Needs(Fn) : ~(k < Top.pos)
  BY <1>1, <1>2 DEF FrameOK
<1>6. ASSUME NEW k \in DOMAIN Needs(Fn), k \notin Missing(Fn) PROVE ~ForcedIn(tool, g, k)
  <2>1. ~Forced(Fn, Needs(Fn)[k])
    BY <1>6 DEF Missing
  <2> QED
    BY <1>2, <1>4, <2>1 DEF Forced, ForcedIn, NeedOf
<1>7. AnsweredIn(tool, rows', g)
  BY <1>2, <1>4, <1>5, <1>6 DEF AnsweredIn, NoQuestion
<1>8. Calm(tool, rows, rows')
  BY <1>1 DEF Calm
<1> QED
  BY <1>1, <1>7, <1>8, TopSettles

LEMMA FinalSettles ==
  ASSUME IInv, Settled, FinalCheck
  PROVE  Settled'
<1>1. /\ stack # <<>> /\ Top.stage = "needs" /\ Top.pos \notin DOMAIN Needs(Fn)
      /\ tool' = tool /\ rows' = rows
  BY DEF FinalCheck, Running
<1>2. CASE Goto("failed")
  BY <1>1, <1>2, GotoSettles
<1>3. CASE Goto("operate")
  <2> DEFINE g == [Top EXCEPT !.stage = "operate"]
  <2>1. FrameOK(tool, rows, Top) /\ Top \in Frame /\ Needs(Fn) = tool.needs[Top.fn]
        /\ Needs(Fn) \in Seq(Need) /\ Depth \in DOMAIN stack
    BY <1>1, TopFrame
  <2>2. g.fn = Top.fn /\ g.stage = "operate"
    BY <2>1 DEF Frame
  <2>3. stack' = [stack EXCEPT ![Depth] = g]
    BY <1>3 DEF Goto, Top
  <2> HIDE DEF g
  <2>4. \A k \in DOMAIN Needs(Fn) : k < Top.pos
    <3>1. Top.pos = Len(Needs(Fn)) + 1
      BY <1>1, <2>1 DEF FrameOK
    <3> QED
      BY <2>1, <3>1
  <2>5. AnsweredIn(tool, rows, Top)
    BY <1>1, <2>1 DEF Settled, Top
  <2>6. AnsweredIn(tool, rows', g) /\ Calm(tool, rows, rows')
    BY <1>1, <2>1, <2>2, <2>4, <2>5 DEF AnsweredIn, NoQuestion, ForcedIn, NeedOf, Calm
  <2> QED
    BY <1>1, <2>3, <2>6, TopSettles
<1> QED
  BY <1>2, <1>3 DEF FinalCheck

LEMMA NeedSettles ==
  ASSUME IInv, Settled, ~tool.faults, SkipNeed \/ SystemNeed \/ AskNeed \/ MessageNeed
  PROVE  Settled'
<1>1. CASE SkipNeed
  <2>1. Running("needs") /\ tool' = tool /\ Calm(tool, rows, rows') /\ NextNeed({})
        /\ Top.pos \notin Top.missing
    BY <1>1 DEF SkipNeed, Calm
  <2> QED
    BY <2>1, PassSettles
<1>2. ASSUME NEW n \in Need, Current(n), tool.kind[n.name] # "tool", tool' = tool,
             NextNeed({n.name}), rows' = rows \/ \E s \in Statuses : Record(n.name, s)
      PROVE  Settled'
  <2>1. Running("needs") /\ n = Needs(Fn)[Top.pos] /\ n.name \in Functions
    BY <1>2, CurrentNeed
  <2>2. Calm(tool, rows, rows')
    BY <1>2, <2>1, CalmRecord DEF Calm
  <2> QED
    BY <1>2, <2>1, <2>2, PassSettles
<1>3. ASSUME NEW n, Current(n), tool' = tool,
             (Goto("failed") /\ rows' = rows) \/ Goto("paused")
      PROVE  Settled'
  BY <1>3, GotoSettles DEF Current, Running
<1>4. CASE SystemNeed
  BY <1>2, <1>3, <1>4 DEF SystemNeed, Statuses
<1>5. CASE AskNeed
  BY <1>2, <1>3, <1>5 DEF AskNeed, Statuses
<1>6. CASE MessageNeed
  BY <1>2, <1>6 DEF MessageNeed, Statuses
<1> QED
  BY <1>1, <1>4, <1>5, <1>6

LEMMA EndSettles ==
  ASSUME IInv, Settled, ~tool.faults, EarlyCache \/ EndFailed \/ EndPaused \/ Operate
  PROVE  Settled'
<1>1. stack # <<>> /\ tool' = tool
  BY DEF EarlyCache, EndFailed, EndPaused, Operate, Running
<1>2. Fn \in Functions
  BY <1>1, TopFrame
<1>3. CASE Return("special")
  BY <1>1, <1>3, ReturnSettles DEF Answers
<1>4. ASSUME NEW result \in {"text", "error"}, Return(result), Top.stage # "paused",
             NEW S, Leaves(S), "pending" \notin S \/ (S = {rows[Fn]} /\ Fn \notin tool.handled)
      PROVE  Settled'
  <2>1. PICK s \in S : /\ rows'[Fn] = s
                       /\ s # "pending" \/ s = rows[Fn] => Calm(tool, rows, rows')
    BY <1>2, <1>4, CalmLeft
  <2>2. Calm(tool, rows, rows') /\ (Fn \in tool.handled => rows'[Fn] # "pending")
    BY <1>4, <2>1
  <2> QED
    BY <1>1, <1>4, <2>2, ReturnSettles DEF Answers
<1>5. CASE EarlyCache
  <2>1. Record(Fn, "complete") /\ Top.stage = "enter"
        /\ \E result \in {"text", "special"} : Return(result)
    BY <1>5 DEF EarlyCache, Running, Gives
  <2>2. Calm(tool, rows, rows') /\ rows'[Fn] # "pending"
    BY <1>2, <2>1, CalmRecord
  <2> QED
    BY <1>1, <2>1, <2>2, ReturnSettles DEF Answers
<1>6. CASE EndFailed
  <2>1. Return("text") /\ Top.stage = "failed"
        /\ IF Fn \in tool.handled THEN Leaves({"failed"}) ELSE Leaves({rows[Fn]})
    BY <1>6 DEF EndFailed, Running, LeavesNone
  <2> QED
    BY <1>4, <2>1
<1>7. CASE EndPaused
  BY <1>3, <1>7 DEF EndPaused
<1>8. CASE Operate
  <2>1. Top.stage = "operate"
    BY <1>8 DEF Operate, Running
  <2>2. CASE Runs
    BY <1>3, <1>4, <2>1, <2>2 DEF Runs, Gives
  <2>3. CASE Breaks
    BY <1>4, <2>1, <2>3 DEF Breaks, Gives, LeavesNone
  <2>4. CASE Reminds
    BY <1>4, <2>1, <2>4 DEF Reminds, Gives
  <2>5. CASE Asks
    BY <1>3, <2>5 DEF Asks, Gives
  <2>6. CASE Errs
    BY <1>4, <2>1, <2>6 DEF Errs, Gives
  <2> QED
    BY <1>8, <2>2, <2>3, <2>4, <2>5, <2>6 DEF Operate
<1> QED
  BY <1>5, <1>6, <1>7, <1>8

LEMMA SendsKeeps ==
  ASSUME IInv, Sends, [Next]_vars
  PROVE  Sends'
<1>1. CASE MessageNeed
  <2>1. PICK n \in Need :
          /\ tool.kind[n.name] = "message"
          /\ sending' = sending \/ sending' = [sending EXCEPT ![n.name] = @ + 1]
          /\ tool' = tool
    BY <1>1 DEF MessageNeed
  <2> QED
    BY <2>1 DEF IInv, Rest, Sends
<1>2. CASE MessageSent
  <2>1. PICK f \in Functions : sending[f] > 0 /\ sending' = [sending EXCEPT ![f] = @ - 1] /\ tool' = tool
    BY <1>2 DEF MessageSent
  <2> QED
    BY <2>1 DEF IInv, Rest, Sends
<1>3. CASE ~MessageNeed /\ ~MessageSent
  <2>1. sending' = sending /\ tool' = tool
    BY <1>3 DEF Next, Step, Invoke, Over, vars, EarlyCache, CheckNeeds, SkipNeed, SystemNeed,
           AskNeed, CallNeed, FinalCheck, EndFailed, EndPaused, Operate
  <2> QED
    BY <2>1 DEF Sends
<1> QED
  BY <1>1, <1>2, <1>3

LEMMA NextNInv ==
  ASSUME IInv, NInv, [Next]_vars
  PROVE  NInv'
<1>1. Sends'
  BY SendsKeeps DEF NInv
<1>2. tool' = tool
  BY DEF Next, Step, Invoke, Over, vars, EarlyCache, CheckNeeds, SkipNeed, SystemNeed, MessageSent,
         AskNeed, MessageNeed, CallNeed, FinalCheck, EndFailed, EndPaused, Operate
<1>3. ASSUME ~tool.faults
      PROVE  Settled'
  <2>0. Settled /\ Sends
    BY <1>3 DEF NInv
  <2>1. CASE Invoke
    <3>1. stack' = <<Enter(tool.root)>> /\ Enter(tool.root).stage = "enter"
      BY <2>1 DEF Invoke, Enter
    <3>2. \A i \in DOMAIN stack' : stack'[i].stage = "enter"
      BY <3>1
    <3> QED
      BY <3>2 DEF Settled, AnsweredIn
  <2>2. CASE MessageSent
    <3>1. PICK f \in Functions : sending[f] > 0 /\ (\E s \in {"complete", "failed"} : Record(f, s))
                                 /\ stack' = stack
      BY <2>2 DEF MessageSent
    <3>2. tool.kind[f] = "message"
      BY <2>0, <3>1 DEF Sends
    <3>3. Calm(tool, rows, rows')
      BY <1>3, <3>1, <3>2, CalmRecord
    <3>4. ASSUME NEW i \in DOMAIN stack, AnsweredIn(tool, rows, stack[i])
          PROVE  AnsweredIn(tool, rows', stack[i])
      BY <3>3, <3>4, CalmKeeps DEF IInv, Rest, Calls
    <3> QED
      BY <1>2, <2>0, <3>1, <3>4 DEF Settled, Top, Depth
  <2>3. CASE Step
    BY <1>3, <2>0, <2>3, EndSettles, CheckSettles, NeedSettles, CallSettles, FinalSettles DEF Step
  <2>4. CASE Over \/ UNCHANGED vars
    BY <2>0, <2>4 DEF Over, vars, Settled, Top, Depth
  <2> QED
    BY <2>1, <2>2, <2>3, <2>4 DEF Next
<1> QED
  BY <1>1, <1>2, <1>3 DEF NInv

LEMMA InitNInv ==
  ASSUME Init
  PROVE  NInv
  BY DEF Init, NInv, Sends, Settled

LEMMA ImpliesNeedsAnswered ==
  ASSUME IInv, NInv
  PROVE  NeedsAnswered
<1> SUFFICES ASSUME ~tool.faults, NEW i \in DOMAIN stack, stack[i].stage = "operate"
             PROVE  AnsweredIn(tool, rows, stack[i])
  BY DEF NeedsAnswered, AnsweredIn, NoQuestion, Forced, ForcedIn, NeedOf, Needs
<1>1. stack \in Seq(Frame) /\ stack # <<>> /\ (i < Depth \/ i = Depth)
  BY DEF IInv, Calls, Depth
<1>2. Top.stage # "paused"
  BY <1>1 DEF IInv, Waiting, Top
<1> QED
  BY <1>1, <1>2 DEF NInv, Settled

\* With a working database no function operates while a need it must have
\* executed for this call, that records its failures and that no callback
\* calls, has an open question in a special text: such a question stops every
\* call below it.
THEOREM NeedsAreAnswered == Spec => []NeedsAnswered
<1>1. IInv /\ NInv /\ [Next]_vars => NInv'
  BY NextNInv
<1>2. IInv /\ NInv => NeedsAnswered
  BY ImpliesNeedsAnswered
<1> QED
  BY <1>1, <1>2, InitNInv, Invariance, PTL DEF Spec
==============================================================================
