-------------------------- MODULE SkillRunsProofs --------------------------
(* Proofs about SkillRuns, for every set of skills and every bound.          *)
(*                                                                           *)
(* The invariant Inv says of the stack, for each frame below the top, how    *)
(* it waits for the one above it and that it carries on: the frames between  *)
(* two calls of one function are a path of the edges the parser follows, or  *)
(* one of them waits in a way it does not follow; and frames that wait for   *)
(* hooks are a path of the hooks that were registered.  Of the records, it   *)
(* says that a need the call has passed is recorded, and with it every need  *)
(* of the need unless one on the way returned short.  Of the skill, that it  *)
(* was accepted once anything runs.                                          *)
EXTENDS SkillRuns, FiniteSetTheorems, TLAPS

-----------------------------------------------------------------------------
(* What can be reached.                                                    *)

LEMMA ReachesEnds ==
  ASSUME NEW E, NEW a, NEW b \in Names, <<a, b>> \in E
  PROVE  b \in Reach(E, a)
  BY DEF Reach

LEMMA ReachIsTransitive ==
  ASSUME NEW E, NEW a, NEW b, NEW c, b \in Reach(E, a), c \in Reach(E, b)
  PROVE  c \in Reach(E, a)
<1> SUFFICES ASSUME NEW S \in SUBSET Names, \A e \in E : e[1] \in S \cup {a} => e[2] \in S
             PROVE  c \in S
  BY DEF Reach
<1>1. b \in S
  BY DEF Reach
<1>2. \A e \in E : e[1] \in S \cup {b} => e[2] \in S
  BY <1>1
<1> QED
  BY <1>2 DEF Reach

LEMMA ReachGrows ==
  ASSUME NEW E, NEW F, E \subseteq F, NEW a
  PROVE  Reach(E, a) \subseteq Reach(F, a)
  BY DEF Reach

LEMMA ReachStaysIn ==
  ASSUME NEW E, NEW a, NEW S \in SUBSET Names,
         \A e \in E : e[1] \in S \cup {a} => e[2] \in S
  PROVE  Reach(E, a) \subseteq S
  BY DEF Reach

-----------------------------------------------------------------------------
(* The skill does not change.                                              *)

LEMMA SkillStays ==
  ASSUME UNCHANGED skill
  PROVE  /\ Own' = Own /\ Fns' = Fns
         /\ \A f, l : Calls(f, l)' = Calls(f, l)
         /\ \A f, l : Callees(f, l)' = Callees(f, l)
         /\ \A f : InputsOf(f)' = InputsOf(f) /\ Sources(f)' = Sources(f) /\ InputNames(f)' = InputNames(f)
         /\ Frame' = Frame /\ Remembered' = Remembered
<1>1. Own' = Own /\ Fns' = Fns
  BY DEF Own, Fns
<1>2. \A f, l : Calls(f, l)' = Calls(f, l)
  BY <1>1 DEF Calls
<1>3. \A f, l : Callees(f, l)' = Callees(f, l)
  BY <1>2 DEF Callees
<1>4. \A f : InputsOf(f)' = InputsOf(f) 
  BY <1>1 DEF InputsOf
<1>5. \A f : Sources(f)' = Sources(f) /\ InputNames(f)' = InputNames(f)
  BY <1>4 DEF Sources, InputNames
<1>6. Remembered' = Remembered
  BY <1>1 DEF Remembered
<1>7. Frame' = Frame
  BY <1>1, <1>6 DEF Frame
<1> QED
  BY <1>1, <1>2, <1>3, <1>4, <1>5, <1>6, <1>7

LEMMA GraphsStay ==
  ASSUME UNCHANGED skill
  PROVE  /\ Checked' = Checked /\ Deps' = Deps /\ Scanned' = Scanned
         /\ \A f : DepsOf(f)' = DepsOf(f)
<1>1. \A ls : Edges(ls)' = Edges(ls)
  BY SkillStays DEF Edges
<1>2. FromEdges' = FromEdges
  BY SkillStays DEF FromEdges
<1>3. \A ls : StaticHooks(ls)' = StaticHooks(ls)
  BY SkillStays DEF StaticHooks
<1>4. Deps' = Deps
  BY <1>1, SkillStays DEF Deps
<1>5. \A f : DepsOf(f)' = DepsOf(f)
  BY <1>4, SkillStays DEF DepsOf
<1> QED
  BY <1>1, <1>2, <1>3, <1>4, <1>5 DEF Checked, Scanned

-----------------------------------------------------------------------------
(* What the runs need of an accepted skill.                                *)

Sound ==
  /\ NoCycle
  /\ \A f \in Own : \A l \in Lists : Callees(f, l) \subseteq Own \cup External
  /\ \A f \in Own : Fns[f].onlyIf \subseteq DepsOf(f) \cup {"env"}
  /\ \A f \in Own : \A s \in StartsOf(f) : s.side \in Sides =>
        \A g \in s.given : g \in Own /\ Fns[g].triggers \cap Compatible(s.side) # {}
  /\ \A f \in Own : \A i \in DOMAIN Calls(f, "onSuccess") :
        LET c == Calls(f, "onSuccess")[i] IN
        c.to \in Own \ Shared /\ DOMAIN c.params # {} =>
            Range(c.params) \subseteq
                OwnSources(f) \cup {Calls(f, "onSuccess")[j].to : j \in 1..(i - 1)}
                \cup (IF c.each THEN {"item"} ELSE {})

LEMMA AcceptedIsSound ==
  ASSUME Accepted, IsSkill(skill)
  PROVE  Sound
<1>1. \A f \in Own : CallsOK(f) /\ OnlyIfKnown(f) /\ InitiatesOK(f)
  BY DEF Accepted, FunctionOK
<1>2. NoCycle
  BY DEF Accepted
<1>3. ASSUME NEW f \in Own, NEW l \in Lists
      PROVE  Callees(f, l) \subseteq Own \cup External
  <2>1. \A i \in DOMAIN Calls(f, l) : Exists(Calls(f, l)[i].to)
    BY <1>1 DEF CallsOK, CallOK
  <2> QED
    BY <2>1 DEF Callees, Exists
<1>4. ASSUME NEW f \in Own, NEW s \in StartsOf(f), s.side \in Sides
      PROVE  \A g \in s.given : g \in Own /\ Fns[g].triggers \cap Compatible(s.side) # {}
  <2>1. Fns[f].operation = "initiate" /\ s \in ToSet(Fns[f].starts)
    BY <1>4 DEF StartsOf
  <2>2. PICK i \in DOMAIN Fns[f].starts : s = Fns[f].starts[i]
    BY <2>1 DEF ToSet
  <2>3. GivenFits(Fns[f].starts[i])
    BY <1>1, <2>1, <2>2 DEF InitiatesOK
  <2> QED
    BY <1>4, <2>2, <2>3 DEF GivenFits
<1>5. ASSUME NEW f \in Own, NEW i \in DOMAIN Calls(f, "onSuccess"), NEW c, c = Calls(f, "onSuccess")[i],
             c.to \in Own \ Shared, DOMAIN c.params # {}
      PROVE  Range(c.params) \subseteq
                OwnSources(f) \cup {Calls(f, "onSuccess")[j].to : j \in 1..(i - 1)}
                \cup (IF c.each THEN {"item"} ELSE {})
  <2>1. "onSuccess" \in Lists
    BY DEF Lists
  <2>2. ParamsKnown(f, c, Extra(f, "onSuccess", i))
    BY <1>1, <1>5, <2>1 DEF CallsOK, CallOK
  <2>3. c.to \notin External
    BY <1>5 DEF External, IsSkill, Own, Fns
  <2>4. Range(c.params) \subseteq OwnSources(f) \cup Extra(f, "onSuccess", i)
    BY <1>5, <2>2, <2>3 DEF ParamsKnown
  <2>5. Extra(f, "onSuccess", i) = {Calls(f, "onSuccess")[j].to : j \in 1..(i - 1)}
                                   \cup (IF c.each THEN {"item"} ELSE {})
    BY <1>5 DEF Extra
  <2> QED
    BY <2>4, <2>5
<1> QED
  BY <1>1, <1>2, <1>3, <1>4, <1>5 DEF Sound, OnlyIfKnown

LEMMA SoundStays ==
  ASSUME UNCHANGED skill, Sound
  PROVE  Sound'
<1>1. NoCycle'
  BY SkillStays, GraphsStay DEF Sound, NoCycle
<1>2. \A f : StartsOf(f)' = StartsOf(f) /\ OwnSources(f)' = OwnSources(f)
  BY SkillStays DEF StartsOf, OwnSources
<1>3. \A f \in Own' : Fns'[f].onlyIf \subseteq DepsOf(f)' \cup {"env"}
  BY SkillStays, GraphsStay DEF Sound
<1>4. \A f \in Own' : \A s \in StartsOf(f)' : s.side \in Sides =>
        \A g \in s.given : g \in Own' /\ Fns'[g].triggers \cap Compatible(s.side) # {}
  BY SkillStays, <1>2 DEF Sound
<1>5. \A f \in Own' : \A i \in DOMAIN Calls(f, "onSuccess")' :
        LET c == Calls(f, "onSuccess")'[i] IN
        c.to \in Own' \ Shared /\ DOMAIN c.params # {} =>
            Range(c.params) \subseteq
                OwnSources(f)' \cup {Calls(f, "onSuccess")'[j].to : j \in 1..(i - 1)}
                \cup (IF c.each THEN {"item"} ELSE {})
  BY SkillStays, <1>2 DEF Sound
<1>6. \A f \in Own' : \A l \in Lists : Callees(f, l)' \subseteq Own' \cup External
  BY SkillStays DEF Sound
<1> QED
  BY <1>1, <1>3, <1>4, <1>5, <1>6 DEF Sound

-----------------------------------------------------------------------------
(* Types of what is read from the skill.                                   *)

LEMMA SkillTyped ==
  ASSUME IsSkill(skill)
  PROVE  /\ Own \subseteq Names \ System
         /\ \A f \in Own : Fns[f] \in Function
         /\ \A f \in Own : \A l \in Lists : Calls(f, l) \in Seq(Call)
         /\ \A f \in Own : Fns[f].inputs \in Seq(Input)
<1>1. Own \subseteq Names \ System /\ \A f \in Own : Fns[f] \in Function
  BY DEF IsSkill, Own, Fns
<1>2. ASSUME NEW f \in Own
      PROVE  Fns[f].call \in [Lists -> Seq(Call)] /\ Fns[f].inputs \in Seq(Input)
  BY <1>1 DEF Function
<1> QED
  BY <1>1, <1>2 DEF Calls

LEMMA CallTyped ==
  ASSUME IsSkill(skill), NEW f \in Own, NEW l \in Lists, NEW i \in DOMAIN Calls(f, l)
  PROVE  /\ Calls(f, l)[i].to \in Names
         /\ Calls(f, l)[i].hook \in Hook \cup {None}
         /\ DOMAIN Calls(f, l)[i].params \subseteq Inputs
         /\ Calls(f, l)[i].each \in BOOLEAN
<1>1. PICK S : S = Call
  OBVIOUS
<1>2. Calls(f, l) \in Seq(S)
  BY <1>1, SkillTyped
<1>3. Calls(f, l)[i] \in Call
  BY <1>1, <1>2
<1>4. PICK c \in Call : c = Calls(f, l)[i]
  BY <1>3
<1>5. c.params \in UNION {[d -> Refs] : d \in SUBSET Inputs}
  BY DEF Call
<1>6. DOMAIN c.params \subseteq Inputs
  BY <1>5
<1>7. c.to \in Names /\ c.hook \in Hook \cup {None} /\ c.each \in BOOLEAN
  BY DEF Call
<1> QED
  BY <1>4, <1>6, <1>7

LEMMA InputTyped ==
  ASSUME IsSkill(skill), NEW f \in Own, NEW i \in DOMAIN Fns[f].inputs
  PROVE  Fns[f].inputs[i] \in InputsOf(f) /\ Fns[f].inputs[i].name \in Inputs
<1>1. PICK S : S = Input
  OBVIOUS
<1>2. Fns[f].inputs \in Seq(S)
  BY <1>1, SkillTyped
<1>3. Fns[f].inputs[i] \in Input
  BY <1>1, <1>2
<1>4. Fns[f].inputs[i].name \in Inputs
  BY <1>3 DEF Input
<1> QED
  BY <1>4 DEF InputsOf, ToSet

LEMMA RememberedTyped ==
  ASSUME NEW r
  PROVE  r \in Remembered <=> \E d \in SUBSET Own : r \in [d -> SUBSET Inputs]
  BY DEF Remembered

\* An edge of the lists and of the inputs the parser follows.
LEMMA CheckedEdge ==
  ASSUME IsSkill(skill), NEW f \in Own, NEW g \in Names,
         \/ g \in Callees(f, "needs") \cup Callees(f, "onSuccess") \cup Callees(f, "onSkip")
         \/ g \in Sources(f)
  PROVE  g \in Reach(Checked, f)
<1>1. <<f, g>> \in Checked
  BY DEF Checked, FromEdges, Edges
<1> QED
  BY <1>1, ReachesEnds

-----------------------------------------------------------------------------
(* Types of the frames.                                                    *)

LEMMA FrameTyped ==
  ASSUME NEW q \in Frame
  PROVE  /\ q.fn \in Own /\ q.stage \in Stages /\ q.after \in Stages
         /\ q.at \in Nat \ {0} /\ q.sub \in Nat \ {0} /\ q.depth \in Nat
         /\ q.given \subseteq Inputs /\ q.part \subseteq Inputs /\ q.filled \subseteq Inputs
         /\ q.local \in Remembered /\ q.outs \subseteq Names /\ q.due \subseteq Hook
  BY DEF Frame

\* Frame p is frame q of the same call, a step later.
Later(p, q) == p \in Frame /\ p.fn = q.fn /\ p.depth = q.depth

LEMMA StagedFrame ==
  ASSUME NEW q \in Frame, NEW s \in Stages
  PROVE  /\ Later(Staged(q, s), q)
         /\ Staged(q, s).stage = s /\ Staged(q, s).filled = q.filled /\ Staged(q, s).given = q.given
         /\ Staged(q, s).due = {} /\ Staged(q, s).at = 1
<1>1. PICK a : a = [q EXCEPT !.stage = s]
  OBVIOUS
<1>2. a \in Frame /\ a.fn = q.fn /\ a.depth = q.depth /\ a.stage = s /\ a.filled = q.filled /\ a.given = q.given
  BY <1>1 DEF Frame
<1>3. PICK b : b = [a EXCEPT !.at = 1]
  OBVIOUS
<1>4. /\ b \in Frame /\ b.fn = q.fn /\ b.depth = q.depth
      /\ b.stage = s /\ b.filled = q.filled /\ b.given = q.given /\ b.at = 1
  BY <1>2, <1>3 DEF Frame
<1>5. PICK c : c = [b EXCEPT !.sub = 1, !.part = {}]
  OBVIOUS
<1>6. /\ c \in Frame /\ c.fn = q.fn /\ c.depth = q.depth
      /\ c.stage = s /\ c.filled = q.filled /\ c.given = q.given /\ c.at = 1
  BY <1>4, <1>5 DEF Frame
<1>7. PICK d : d = [c EXCEPT !.outs = {}, !.due = {}]
  OBVIOUS
<1>8. /\ d \in Frame /\ d.fn = q.fn /\ d.depth = q.depth
      /\ d.stage = s /\ d.filled = q.filled /\ d.given = q.given /\ d.at = 1 /\ d.due = {}
  BY <1>6, <1>7 DEF Frame
<1>9. Staged(q, s) = d
  BY <1>1, <1>3, <1>5, <1>7 DEF Staged
<1> QED
  BY <1>8, <1>9 DEF Later

LEMMA FilledFrame ==
  ASSUME NEW q \in Frame, NEW v \in SUBSET Inputs
  PROVE  /\ Later([q EXCEPT !.filled = v], q) /\ [q EXCEPT !.filled = v].stage = q.stage
  BY DEF Frame, Later

LEMMA DueFrame ==
  ASSUME NEW q \in Frame, NEW due \in SUBSET Hook
  PROVE  LET p == [q EXCEPT !.due = due] IN
         Later(p, q) /\ p.stage = q.stage /\ p.due = due /\ p.after = q.after /\ p.at = q.at
  BY DEF Frame, Later

LEMMA SubFrame ==
  ASSUME NEW q \in Frame
  PROVE  LET p == [q EXCEPT !.sub = @ + 1] IN
         Later(p, q) /\ p.stage = q.stage /\ p.due = q.due /\ p.after = q.after /\ p.at = q.at
  BY DEF Frame, Later

LEMMA AtFrame ==
  ASSUME NEW q \in Frame
  PROVE  LET p == [q EXCEPT !.at = 2] IN
         Later(p, q) /\ p.stage = q.stage /\ p.due = q.due /\ p.after = q.after
  BY DEF Frame, Later

LEMMA OnwardFrame ==
  ASSUME NEW q \in Frame
  PROVE  LET p == [q EXCEPT !.at = @ + 1, !.sub = 1] IN
         Later(p, q) /\ p.stage = q.stage /\ p.due = q.due /\ p.after = q.after
<1>1. PICK n \in Nat \ {0} : n = q.at + 1
  BY FrameTyped
<1>2. PICK r : r = [q EXCEPT !.at = n]
  OBVIOUS
<1>3. Later(r, q) /\ r.stage = q.stage /\ r.due = q.due /\ r.after = q.after
  BY <1>2 DEF Frame, Later
<1>4. PICK p : p = [r EXCEPT !.sub = 1]
  OBVIOUS
<1>5. Later(p, q) /\ p.stage = q.stage /\ p.due = q.due /\ p.after = q.after
  BY <1>3, <1>4 DEF Frame, Later
<1> QED
  BY <1>1, <1>2, <1>4, <1>5

LEMMA OutsFrame ==
  ASSUME NEW q \in Frame, NEW outs \in SUBSET Names
  PROVE  LET p == [q EXCEPT !.outs = outs] IN
         Later(p, q) /\ p.stage = q.stage /\ p.due = q.due /\ p.after = q.after
  BY DEF Frame, Later

LEMMA NextCalleeFrame ==
  ASSUME NEW q \in Frame
  PROVE  /\ Later(NextCallee(q), q) /\ NextCallee(q).stage = q.stage
         /\ NextCallee(q).due = q.due /\ NextCallee(q).after = q.after
<1>1. PICK r : r = [q EXCEPT !.at = @ + 1, !.sub = 1]
  OBVIOUS
<1>2. Later(r, q) /\ r.stage = q.stage /\ r.due = q.due /\ r.after = q.after
  BY <1>1, OnwardFrame
<1>3. PICK p : p = [r EXCEPT !.part = {}]
  OBVIOUS
<1>4. Later(p, q) /\ p.stage = q.stage /\ p.due = q.due /\ p.after = q.after
  BY <1>2, <1>3 DEF Frame, Later
<1> QED
  BY <1>1, <1>3, <1>4 DEF NextCallee

LEMMA LocalFrame ==
  ASSUME NEW q \in Frame, NEW l \in Remembered
  PROVE  LET p == [q EXCEPT !.local = l] IN
         Later(p, q) /\ p.stage = q.stage /\ p.due = q.due /\ p.after = q.after
  BY DEF Frame, Later

LEMMA NewFrameTyped ==
  ASSUME NEW g \in Own, NEW given \in SUBSET Inputs, NEW d \in Nat
  PROVE  /\ NewFrame(g, given, d) \in Frame /\ NewFrame(g, given, d).fn = g
         /\ NewFrame(g, given, d).stage = "enter" /\ NewFrame(g, given, d).depth = d
<1>1. Empty \in Remembered
  <2>1. Empty \in [{} -> SUBSET Inputs]
    BY DEF Empty
  <2> QED
    BY <2>1, RememberedTyped
<1>2. "enter" \in Stages
  BY DEF Stages
<1> QED
  BY <1>1, <1>2 DEF NewFrame, Frame

\* One more function whose inputs are remembered.
LEMMA RemembersMore ==
  ASSUME NEW r \in Remembered, NEW g \in Own, NEW v \in SUBSET Inputs
  PROVE  Remember(r, g, v) \in Remembered
<1>1. PICK d \in SUBSET Own : r \in [d -> SUBSET Inputs]
  BY RememberedTyped
<1>2. Remember(r, g, v) \in [d \cup {g} -> SUBSET Inputs]
  BY <1>1 DEF Remember
<1> QED
  BY <1>1, <1>2, RememberedTyped

LEMMA Recalled ==
  ASSUME NEW r \in Remembered, NEW g \in DOMAIN r
  PROVE  r[g] \subseteq Inputs /\ g \in Own
<1>1. PICK d \in SUBSET Own : r \in [d -> SUBSET Inputs]
  BY RememberedTyped
<1> QED
  BY <1>1

LEMMA PassedTyped ==
  ASSUME cache \in Remembered, NEW q \in Frame
  PROVE  Passed(q) \subseteq Inputs
<1>1. q.fn \in DOMAIN cache => cache[q.fn] \subseteq Inputs
  BY Recalled
<1>2. q.given \subseteq Inputs /\ q.filled \subseteq Inputs
  BY FrameTyped
<1> QED
  BY <1>1, <1>2 DEF Passed

LEMMA InheritedTyped ==
  ASSUME cache \in Remembered, stack \in Seq(Frame), NEW g
  PROVE  Inherited(g) \subseteq Inputs
<1>1. PICK S : S = Frame
  OBVIOUS
<1>2. ASSUME NEW i \in DOMAIN stack
      PROVE  InContext(stack[i]) \subseteq Inputs
  <2>1. stack[i] \in Frame
    BY <1>1
  <2> QED
    BY <2>1, PassedTyped, FrameTyped DEF InContext
<1> QED
  BY <1>2 DEF Inherited, Innermost

LEMMA GivenTyped ==
  ASSUME IsSkill(skill), cache \in Remembered, stack \in Seq(Frame), NEW q \in Frame, NEW g,
         q.stage \in Lists, q.at \in DOMAIN Calls(q.fn, q.stage)
  PROVE  Given(q, g) \subseteq Inputs
<1>1. Resolved(q) \subseteq Inputs
  BY CallTyped, FrameTyped DEF Resolved
<1>2. Passed(q) \subseteq Inputs /\ Inherited(g) \subseteq Inputs
  BY PassedTyped, InheritedTyped
<1>3. /\ g \in DOMAIN cache => cache[g] \subseteq Inputs
      /\ g \in DOMAIN q.local => q.local[g] \subseteq Inputs
  BY Recalled, FrameTyped
<1>4. Again(q, g) \subseteq Inputs
  BY <1>2, <1>3 DEF Again
<1>5. Given(q, g) \subseteq Resolved(q) \cup Passed(q) \cup Inherited(g) \cup Again(q, g)
                           \cup (IF g \in DOMAIN cache THEN cache[g] ELSE {})
  BY DEF Given
<1> QED
  BY <1>1, <1>2, <1>3, <1>4, <1>5

-----------------------------------------------------------------------------
(* A frame that waits for a call, and goes on when the call comes back.    *)

\* The parser follows the calls a function makes from these stages.
Followed == {"needs", "onSuccess", "onSkip", "inputs", "presolve"}

\* Frame q called g.
Waits(q, g) ==
  /\ q.stage \in Followed \cup Unchecked
  /\ q.stage \in Followed => g \in Reach(Checked, q.fn)
  /\ q.stage = "hooks" => g \in Reach(Hooked(hooks), q.fn)
  /\ q.stage \in Lists => q.at \in DOMAIN Calls(q.fn, q.stage)
  /\ q.stage \in {"inputs", "presolve"} => Whose(q) \in Own

LEMMA WaitsStays ==
  ASSUME UNCHANGED skill, hooks \subseteq hooks', NEW q, NEW g, Waits(q, g)
  PROVE  Waits(q, g)'
<1>1. Hooked(hooks) \subseteq Hooked(hooks)'
  BY DEF Hooked
<1>2. Reach(Hooked(hooks), q.fn) \subseteq Reach(Hooked(hooks)', q.fn)
  BY <1>1, ReachGrows
<1>3. Whose(q)' = Whose(q)
  BY SkillStays DEF Whose
<1> QED
  BY <1>2, <1>3, SkillStays, GraphsStay DEF Waits

LEMMA WantedTyped ==
  ASSUME IsSkill(skill), NEW q, Whose(q) \in Own
  PROVE  \A n \in Wanted(q) : n \in InputsOf(Whose(q)) /\ n.name \in Inputs
  BY InputTyped DEF Wanted

LEMMA FoundFrame ==
  ASSUME IsSkill(skill), NEW q \in Frame, Whose(q) \in Own
  PROVE  /\ Later(Found(q), q) /\ Found(q).stage = q.stage
         /\ Found(q).due = q.due /\ Found(q).after = q.after
<1>1. PICK part \in SUBSET Inputs : part = q.part \cup {n.name : n \in Wanted(q)}
  BY WantedTyped, FrameTyped
<1>2. PICK r : r = [q EXCEPT !.sub = @ + 1]
  OBVIOUS
<1>3. Later(r, q) /\ r.stage = q.stage /\ r.due = q.due /\ r.after = q.after /\ r.part = q.part
  BY <1>2 DEF Later, Frame
<1>4. PICK p : p = [r EXCEPT !.part = part]
  OBVIOUS
<1>5. Later(p, q) /\ p.stage = q.stage /\ p.due = q.due /\ p.after = q.after
  BY <1>3, <1>4 DEF Later, Frame
<1>6. Found(q) = p
  BY <1>1, <1>2, <1>4 DEF Found, Frame
<1> QED
  BY <1>5, <1>6

LEMMA NotFoundFrame ==
  ASSUME NEW q \in Frame, NEW r, q.stage \in {"inputs", "presolve"}
  PROVE  LET p == NotFound(q, r) IN
         /\ Later(p, q)
         /\ \/ p.stage = q.stage /\ p.due = q.due /\ p.after = q.after
            \/ q.stage = "inputs" /\ p.stage \in {"onMissing", "unfilled"}
<1>1. {"onMissing", "unfilled"} \subseteq Stages
  BY DEF Stages, Lists, Verdicts
<1> QED
  BY <1>1, SubFrame, NextCalleeFrame, StagedFrame DEF NotFound

LEMMA FollowingFrame ==
  ASSUME NEW q \in Frame, NEW g \in Names, NEW r
  PROVE  LET p == Following(q, g, r) IN
         Later(p, q) /\ p.stage = q.stage /\ p.due = q.due /\ p.after = q.after
<1>1. PICK s : s = [q EXCEPT !.at = @ + 1, !.sub = 1]
  OBVIOUS
<1>2. Later(s, q) /\ s.stage = q.stage /\ s.due = q.due /\ s.after = q.after
  BY <1>1, OnwardFrame
<1>3. s \in Frame /\ s.outs = q.outs
  BY <1>1, <1>2 DEF Later, Frame
<1>4. PICK outs \in SUBSET Names : outs = IF Chains(q, r) THEN q.outs \cup {g} ELSE q.outs
  BY FrameTyped
<1>5. PICK p : p = [s EXCEPT !.outs = outs]
  OBVIOUS
<1>6. Later(p, s) /\ p.stage = s.stage /\ p.due = s.due /\ p.after = s.after
  BY <1>3, <1>5, OutsFrame
<1>7. Later(p, q) /\ p.stage = q.stage /\ p.due = q.due /\ p.after = q.after
  BY <1>2, <1>6 DEF Later
<1>8. [q EXCEPT !.at = @ + 1, !.sub = 1, !.outs = IF Chains(q, r) THEN @ \cup {g} ELSE @] = p
  BY <1>1, <1>4, <1>5 DEF Frame
<1> QED
  BY <1>7, <1>8, SubFrame DEF Following

LEMMA ResumeFrame ==
  ASSUME IsSkill(skill), NEW q \in Frame, NEW g \in Names, NEW r,
         q.stage \in {"inputs", "presolve"} => Whose(q) \in Own
  PROVE  LET p == Resume(q, g, r) IN
         /\ Later(p, q)
         /\ \/ p.stage = q.stage /\ p.due = q.due /\ p.after = q.after
            \/ q.stage = "needs" /\ p.stage \in {"stopped", "broken"}
            \/ q.stage = "onSuccess" /\ p.stage = "stuck"
            \/ q.stage = "inputs" /\ p.stage \in {"onMissing", "unfilled"}
<1>1. {"stopped", "broken", "stuck"} \subseteq Stages
  BY DEF Stages, Verdicts
<1>2. CASE q.stage = "needs"
  BY <1>1, <1>2, StagedFrame, FollowingFrame DEF Resume
<1>3. CASE q.stage = "onSuccess"
  BY <1>1, <1>3, StagedFrame, FollowingFrame DEF Resume
<1>4. CASE q.stage \in Lists \ {"needs", "onSuccess"}
  BY <1>4, FollowingFrame DEF Resume, Lists
<1>5. CASE q.stage \in {"inputs", "presolve"}
  BY <1>5, FoundFrame, NotFoundFrame DEF Resume, Lists
<1>6. CASE q.stage = "rerun"
  BY <1>6, AtFrame DEF Resume, Lists
<1>7. CASE q.stage \notin Lists \cup {"inputs", "presolve", "rerun"}
  <2>1. Resume(q, g, r) = q
    BY <1>7 DEF Resume, Lists
  <2> QED
    BY <2>1 DEF Later
<1> QED
  BY <1>2, <1>3, <1>4, <1>5, <1>6, <1>7 DEF Lists

-----------------------------------------------------------------------------
(* The invariant of the calls that run.                                    *)

NeedsRecorded(f) == \A g \in Callees(f, "needs") : rows[g] # "none"

\* Stages in which the needs of a function have not all been called.
BeforeNeeds == {"enter", "needs", "broken", "stopped"}
AfterHooks == {"presolve", "succeeded", "onFailure", "completed", "failed"}

FrameInv(q) ==
  /\ q.stage = "hooks" => /\ q.after \in AfterHooks
                          /\ \A h \in q.due : h \in hooks /\ h.of = q.fn
  /\ q.stage \notin BeforeNeeds => q.fn \in short \/ NeedsRecorded(q.fn)
  /\ q.stage = "ask" => NeedsRecorded(q.fn)

\* A function that a frame leads to is reached by edges the parser follows, or
\* by hooks.
Path(i, j) == \/ \E k \in i..(j - 1) : stack[k].stage \in Unchecked
              \/ stack[j].fn \in Reach(Checked, stack[i].fn)
HookPath(i, j) == \/ \E k \in i..(j - 1) : stack[k].stage # "hooks"
                  \/ stack[j].fn \in Reach(Hooked(hooks), stack[i].fn)

InvAt(i) == \A q : q = stack[i] => FrameInv(q)
WaitsAt(i) == \A q, g : q = stack[i] /\ g = stack[i + 1].fn => Waits(q, g)

StackInv ==
  /\ \A i \in DOMAIN stack : InvAt(i) /\ stack[i].depth <= i - 1
  /\ \A i \in 1..(Len(stack) - 1) : WaitsAt(i)
  /\ \A i, j \in DOMAIN stack : i < j => Path(i, j) /\ HookPath(i, j)

\* A function that has a record has records of all its needs.
RowsInv == \A f \in Own : rows[f] # "none" => f \in short \/ NeedsRecorded(f)

\* What a step of a call may do to the records and the hooks.
Grow == /\ UNCHANGED skill
        /\ hooks \subseteq hooks' /\ short \subseteq short'
        /\ \A g \in Names : rows[g] # "none" => rows'[g] # "none"

LEMMA NeedsStayRecorded ==
  ASSUME IsSkill(skill), Grow, NEW f \in Own, NeedsRecorded(f)
  PROVE  NeedsRecorded(f)'
<1>1. Callees(f, "needs") \subseteq Names /\ Callees(f, "needs")' = Callees(f, "needs")
  <2>1. "needs" \in Lists
    BY DEF Lists
  <2> QED
    BY <2>1, CallTyped, SkillStays DEF Callees, Grow
<1> QED
  BY <1>1 DEF NeedsRecorded, Grow

LEMMA FrameInvStays ==
  ASSUME IsSkill(skill), Grow, NEW q \in Frame, FrameInv(q)
  PROVE  FrameInv(q)'
<1>1. q.fn \in Own
  BY FrameTyped
<1>2. NeedsRecorded(q.fn) => NeedsRecorded(q.fn)'
  BY <1>1, NeedsStayRecorded
<1> QED
  BY <1>2 DEF FrameInv, Grow

LEMMA HooksReachMore ==
  ASSUME Grow, NEW f
  PROVE  Reach(Hooked(hooks), f) \subseteq Reach(Hooked(hooks)', f)
<1>1. Hooked(hooks) \subseteq Hooked(hooks)'
  BY DEF Hooked, Grow
<1> QED
  BY <1>1, ReachGrows

\* What a step that leaves the first n frames leaves of the invariant.
LEMMA Below ==
  ASSUME IsSkill(skill), stack \in Seq(Frame), stack' \in Seq(Frame), StackInv, Grow,
         NEW n \in Nat, n <= Len(stack), n <= Len(stack'),
         \A i \in 1..n : stack'[i].fn = stack[i].fn /\ stack'[i].depth = stack[i].depth,
         \A i \in 1..(n - 1) : stack'[i] = stack[i]
  PROVE  /\ \A i \in 1..(n - 1) : InvAt(i)'
         /\ \A i \in 1..n : stack'[i].depth <= i - 1
         /\ \A i \in 1..(n - 1) : WaitsAt(i)'
         /\ \A i, j \in 1..n : i < j => Path(i, j)' /\ HookPath(i, j)'
<1>0. PICK S, s, t : S = Frame /\ s = stack /\ t = stack'
  OBVIOUS
<1>1. s \in Seq(S) /\ t \in Seq(S) /\ Len(s) \in Nat /\ Len(t) \in Nat
  <2>1. Frame' = Frame
    BY SkillStays DEF Grow
  <2> QED
    BY <1>0, <2>1
<1>2. DOMAIN s = 1..Len(s) /\ DOMAIN t = 1..Len(t)
  BY <1>1
<1>3. ASSUME NEW i \in 1..(n - 1)
      PROVE  InvAt(i)'
  <2>1. i \in DOMAIN s /\ t[i] = s[i] /\ s[i] \in Frame
    BY <1>0, <1>1, <1>2
  <2>2. FrameInv(s[i])
    BY <2>1, <1>0 DEF StackInv, InvAt
  <2>3. PICK q : q = s[i]
    OBVIOUS
  <2>4. FrameInv(q)'
    BY <2>1, <2>2, <2>3, FrameInvStays
  <2> QED
    BY <2>1, <2>3, <2>4, <1>0 DEF InvAt
<1>4. ASSUME NEW i \in 1..n
      PROVE  stack'[i].depth <= i - 1
  <2>1. i \in DOMAIN s
    BY <1>0, <1>1, <1>2
  <2>2. s[i].depth <= i - 1
    BY <2>1, <1>0 DEF StackInv
  <2> QED
    BY <2>2, <1>0
<1>5. ASSUME NEW i \in 1..(n - 1)
      PROVE  WaitsAt(i)'
  <2>1. i \in 1..(Len(s) - 1) /\ i + 1 \in 1..n
    BY <1>0, <1>1, <1>2
  <2>2. Waits(s[i], s[i + 1].fn)
    BY <2>1, <1>0 DEF StackInv, WaitsAt
  <2>3. PICK q, g : q = s[i] /\ g = s[i + 1].fn
    OBVIOUS
  <2>4. Waits(q, g)'
    BY <2>2, <2>3, WaitsStays DEF Grow
  <2>5. t[i] = s[i] /\ t[i + 1].fn = g
    BY <2>1, <2>3, <1>0
  <2> QED
    BY <2>3, <2>4, <2>5, <1>0 DEF WaitsAt
<1>6. ASSUME NEW i \in 1..n, NEW j \in 1..n, i < j
      PROVE  Path(i, j)' /\ HookPath(i, j)'
  <2>1. i \in DOMAIN s /\ j \in DOMAIN s
    BY <1>0, <1>1, <1>2
  <2>2. Path(i, j) /\ HookPath(i, j)
    BY <2>1, <1>6, <1>0 DEF StackInv
  <2>3. \A k \in i..(j - 1) : t[k] = s[k]
    BY <1>0, <1>6
  <2>4. t[i].fn = s[i].fn /\ t[j].fn = s[j].fn
    BY <1>0
  <2>5. Path(i, j)'
    BY <2>2, <2>3, <2>4, <1>0, GraphsStay DEF Path, Grow
  <2>6. HookPath(i, j)'
    BY <2>2, <2>3, <2>4, <1>0, HooksReachMore DEF HookPath
  <2> QED
    BY <2>5, <2>6
<1> QED
  BY <1>3, <1>4, <1>5, <1>6

\* The call on top goes on.
LEMMA TopGoesOn ==
  ASSUME IsSkill(skill), stack \in Seq(Frame), StackInv, Grow, stack # <<>>,
         NEW p, Later(p, Top), FrameInv(p)', With(p)
  PROVE  StackInv' /\ stack' \in Seq(Frame) /\ Len(stack') = Len(stack)
<1>0. PICK S, s, t, n : S = Frame /\ s = stack /\ t = stack' /\ n = Len(s)
  OBVIOUS
<1>1. s \in Seq(S) /\ s # <<>> /\ n \in Nat \ {0} /\ p \in S /\ t = [s EXCEPT ![n] = p]
  BY <1>0 DEF With, Later, Depth
<1>2. t \in Seq(S) /\ Len(t) = n /\ DOMAIN t = 1..n /\ t[n] = p /\ \A i \in 1..(n - 1) : t[i] = s[i]
  BY <1>0, <1>1
<1>3. p.fn = s[n].fn /\ p.depth = s[n].depth
  BY <1>0 DEF Later, Top, Depth
<1>4. \A i \in 1..n : t[i].fn = s[i].fn /\ t[i].depth = s[i].depth
  BY <1>1, <1>2, <1>3
<1>5. /\ \A i \in 1..(n - 1) : InvAt(i)'
      /\ \A i \in 1..n : stack'[i].depth <= i - 1
      /\ \A i \in 1..(n - 1) : WaitsAt(i)'
      /\ \A i, j \in 1..n : i < j => Path(i, j)' /\ HookPath(i, j)'
  BY <1>0, <1>1, <1>2, <1>4, Below
<1>6. \A i \in 1..n : InvAt(i)'
  <2>1. InvAt(n)'
    BY <1>0, <1>2 DEF InvAt
  <2> QED
    BY <2>1, <1>1, <1>5
<1> QED
  BY <1>0, <1>1, <1>2, <1>5, <1>6 DEF StackInv

\* The call on top, in frame p now, calls the function of frame f.
LEMMA TopCalls ==
  ASSUME IsSkill(skill), stack \in Seq(Frame), StackInv, Grow, stack # <<>>,
         NEW p, Later(p, Top), FrameInv(p)', NEW f \in Frame, Waits(p, f.fn)',
         f.stage = "enter", f.depth <= Depth,
         stack' = Append([stack EXCEPT ![Depth] = p], f)
  PROVE  StackInv' /\ stack' \in Seq(Frame) /\ Len(stack') = Len(stack) + 1
<1>0. PICK S, s, t, n : S = Frame /\ s = stack /\ t = stack' /\ n = Len(s)
  OBVIOUS
<1>1. s \in Seq(S) /\ s # <<>> /\ n \in Nat \ {0} /\ p \in S /\ t = Append([s EXCEPT ![n] = p], f)
  BY <1>0 DEF Later, Depth
<1>2. t \in Seq(S) /\ Len(t) = n + 1 /\ t[n] = p /\ t[n + 1] = f /\ \A i \in 1..(n - 1) : t[i] = s[i]
  <2>1. PICK u : u = [s EXCEPT ![n] = p]
    OBVIOUS
  <2>2. u \in Seq(S) /\ Len(u) = n /\ u[n] = p /\ \A i \in 1..(n - 1) : u[i] = s[i]
    BY <1>0, <1>1, <2>1
  <2>3. t = Append(u, f) /\ f \in S
    BY <1>0, <1>1, <2>1
  <2>4. t \in Seq(S) /\ Len(t) = n + 1
    BY <2>2, <2>3
  <2>5. \A i \in 1..n : t[i] = u[i]
    BY <1>1, <2>2, <2>3
  <2>6. t[n + 1] = f
    BY <1>1, <2>2, <2>3
  <2> QED
    BY <1>1, <2>2, <2>4, <2>5, <2>6
<1>3. p.fn = s[n].fn /\ p.depth = s[n].depth
  BY <1>0 DEF Later, Top, Depth
<1>4. \A i \in 1..n : t[i].fn = s[i].fn /\ t[i].depth = s[i].depth
  BY <1>1, <1>2, <1>3
<1>5. /\ \A i \in 1..(n - 1) : InvAt(i)'
      /\ \A i \in 1..n : stack'[i].depth <= i - 1
      /\ \A i \in 1..(n - 1) : WaitsAt(i)'
      /\ \A i, j \in 1..n : i < j => Path(i, j)' /\ HookPath(i, j)'
  <2>1. n \in Nat /\ n <= Len(stack) /\ n <= Len(stack')
    BY <1>0, <1>1, <1>2
  <2>2. stack' \in Seq(Frame)
    BY <1>0, <1>2
  <2>3. /\ \A i \in 1..n : stack'[i].fn = stack[i].fn /\ stack'[i].depth = stack[i].depth
        /\ \A i \in 1..(n - 1) : stack'[i] = stack[i]
    BY <1>0, <1>2, <1>4
  <2> QED
    BY <2>1, <2>2, <2>3, Below
<1>6. DOMAIN stack' = 1..(n + 1) /\ DOMAIN t = 1..(n + 1)
  <2>1. DOMAIN t = 1..Len(t)
    BY <1>2
  <2> QED
    BY <1>0, <1>2, <2>1
<1>7. \A i \in 1..(n + 1) : InvAt(i)' /\ stack'[i].depth <= i - 1
  <2>1. InvAt(n)'
    BY <1>0, <1>2 DEF InvAt
  <2>2. FrameInv(f)'
    BY DEF FrameInv, BeforeNeeds
  <2>3. InvAt(n + 1)'
    BY <1>0, <1>2, <2>2 DEF InvAt
  <2>4. stack'[n + 1].depth <= (n + 1) - 1
    BY <1>0, <1>1, <1>2 DEF Depth
  <2>5. \A i \in 1..(n + 1) : i \in 1..(n - 1) \/ i = n \/ i = n + 1
    BY <1>1
  <2>6. n \in 1..n /\ \A i \in 1..(n - 1) : i \in 1..n
    BY <1>1
  <2> QED
    BY <2>1, <2>3, <2>4, <2>5, <2>6, <1>5
<1>8. \A i \in 1..n : WaitsAt(i)'
  <2>1. WaitsAt(n)'
    BY <1>0, <1>2 DEF WaitsAt
  <2> QED
    BY <2>1, <1>1, <1>5
<1>9. ASSUME NEW i \in 1..n
      PROVE  Path(i, n + 1)' /\ HookPath(i, n + 1)'
  <2>1. /\ p.stage \in Unchecked \/ f.fn \in Reach(Checked', p.fn)
        /\ p.stage # "hooks" \/ f.fn \in Reach(Hooked(hooks)', p.fn)
    BY DEF Waits
  <2>2. n \in i..((n + 1) - 1) /\ \A k \in i..(n - 1) : k \in i..((n + 1) - 1)
    BY <1>1
  <2>3. CASE i = n
    BY <1>0, <1>2, <2>1, <2>2, <2>3 DEF Path, HookPath
  <2>4. CASE i # n
    <3>1. Path(i, n)' /\ HookPath(i, n)'
      BY <1>1, <1>5, <2>4
    <3>2. \/ \E k \in i..(n - 1) : t[k].stage \in Unchecked
          \/ p.fn \in Reach(Checked', t[i].fn)
      BY <3>1, <1>0, <1>2 DEF Path
    <3>3. \/ \E k \in i..(n - 1) : t[k].stage # "hooks"
          \/ p.fn \in Reach(Hooked(hooks)', t[i].fn)
      BY <3>1, <1>0, <1>2 DEF HookPath
    <3>4. Path(i, n + 1)'
      BY <1>0, <1>2, <2>1, <2>2, <3>2, ReachIsTransitive DEF Path
    <3>5. HookPath(i, n + 1)'
      BY <1>0, <1>2, <2>1, <2>2, <3>3, ReachIsTransitive DEF HookPath
    <3> QED
      BY <3>4, <3>5
  <2> QED
    BY <2>3, <2>4
<1>10. \A i, j \in 1..(n + 1) : i < j => Path(i, j)' /\ HookPath(i, j)'
  <2>1. \A i, j \in 1..(n + 1) : i < j => i \in 1..n /\ (j \in 1..n \/ j = n + 1)
    BY <1>1
  <2> QED
    BY <2>1, <1>5, <1>9
<1>11. (n + 1) - 1 = n /\ Len(stack') = n + 1
  BY <1>0, <1>1, <1>2
<1>12. StackInv'
  BY <1>6, <1>7, <1>8, <1>10, <1>11 DEF StackInv
<1>13. stack' \in Seq(Frame)
  BY <1>0, <1>2
<1> QED
  BY <1>0, <1>11, <1>12, <1>13

\* The call on top comes back to the one that waits for it, in frame p then.
LEMMA TopReturns ==
  ASSUME IsSkill(skill), stack \in Seq(Frame), StackInv, Grow, Depth > 1,
         NEW p, Later(p, stack[Depth - 1]), FrameInv(p)',
         stack' = [Front(stack) EXCEPT ![Depth - 1] = p]
  PROVE  StackInv' /\ stack' \in Seq(Frame) /\ Len(stack') = Len(stack) - 1
<1>0. PICK S, s, t, n : S = Frame /\ s = stack /\ t = stack' /\ n = Len(s) - 1
  OBVIOUS
<1>1. s \in Seq(S) /\ n \in Nat \ {0} /\ Len(s) = n + 1 /\ p \in S /\ t = [Front(s) EXCEPT ![n] = p]
  BY <1>0 DEF Later, Depth
<1>2. Front(s) \in Seq(S) /\ Len(Front(s)) = n /\ \A i \in 1..n : Front(s)[i] = s[i]
  BY <1>1 DEF Front
<1>3. t \in Seq(S) /\ Len(t) = n /\ DOMAIN t = 1..n /\ t[n] = p /\ \A i \in 1..(n - 1) : t[i] = s[i]
  BY <1>1, <1>2
<1>4. p.fn = s[n].fn /\ p.depth = s[n].depth
  BY <1>0 DEF Later, Depth
<1>5. \A i \in 1..n : t[i].fn = s[i].fn /\ t[i].depth = s[i].depth
  BY <1>1, <1>3, <1>4
<1>. n <= Len(stack) /\ n <= Len(stack')
  BY <1>0, <1>1, <1>3
<1>6. /\ \A i \in 1..(n - 1) : InvAt(i)'
      /\ \A i \in 1..n : stack'[i].depth <= i - 1
      /\ \A i \in 1..(n - 1) : WaitsAt(i)'
      /\ \A i, j \in 1..n : i < j => Path(i, j)' /\ HookPath(i, j)'
  BY <1>0, <1>1, <1>3, <1>5, Below
<1>7. \A i \in 1..n : InvAt(i)'
  <2>1. InvAt(n)'
    BY <1>0, <1>3 DEF InvAt
  <2> QED
    BY <2>1, <1>1, <1>6
<1> QED
  BY <1>0, <1>1, <1>3, <1>6, <1>7 DEF StackInv

-----------------------------------------------------------------------------
(* The invariant.                                                          *)

\* A workflow is for functions that are offered for its message.
Fits(w) == w.literal /\ ~w.email => w.given \subseteq Offered(w)

\* Only an accepted skill makes calls.
AcceptedInv ==
  /\ verdict = "accepted" => Sound
  /\ stack # <<>> \/ coming # {} => verdict = "accepted"
  /\ \A w \in coming \cup ({flow} \ {None}) : Fits(w)

Inv == TypeOK /\ StackInv /\ RowsInv /\ AcceptedInv

LEMMA FitsStays ==
  ASSUME UNCHANGED skill, NEW w, Fits(w)
  PROVE  Fits(w)'
<1>1. Offered(w)' = Offered(w)
  BY SkillStays DEF Offered
<1> QED
  BY <1>1 DEF Fits

LEMMA BroughtFits ==
  ASSUME Sound, NEW f \in Own, NEW w \in Brought(f)
  PROVE  Fits(w)
<1>1. PICK s \in StartsOf(f) : /\ w.given = s.given
                               /\ w.literal <=> s.side \in Sides
                               /\ w.literal => w.side = s.side
  BY DEF Brought
<1>2. SUFFICES ASSUME w.literal, ~w.email, NEW g \in w.given
               PROVE  g \in Offered(w)
  BY DEF Fits
<1>3. s.side \in Sides /\ w.side = s.side
  BY <1>1, <1>2
<1>4. g \in Own /\ Fns[g].triggers \cap Compatible(w.side) # {}
  BY <1>1, <1>2, <1>3 DEF Sound
<1>5. CASE w.side = "user"
  BY <1>2, <1>4, <1>5 DEF Offered, Compatible
<1>6. CASE w.side = "team"
  BY <1>2, <1>4, <1>6 DEF Offered, Compatible
<1> QED
  BY <1>3, <1>5, <1>6 DEF Sides

\* What a step of a call may do besides working on the stack.  It records only
\* a function whose needs have records, or which it counts as cut short.
Effects ==
  /\ Same
  /\ hooks \subseteq hooks' /\ hooks' \subseteq Hook
  /\ short \subseteq short' /\ short' \subseteq Own
  /\ rows' \in [Names -> Statuses] /\ cache' \in Remembered
  /\ \A g \in Names : rows[g] # "none" => rows'[g] # "none"
  /\ \A f \in Own : rows'[f] # "none" => rows[f] # "none" \/ f \in short' \/ NeedsRecorded(f)
  /\ coming' \subseteq Workflow /\ \A w \in coming' \ coming : \E f \in Own : w \in Brought(f)

LEMMA StepKeepsInv ==
  ASSUME Inv, Effects, stack # <<>>, StackInv', stack' \in Seq(Frame), Len(stack') <= MaxDepth
  PROVE  Inv'
<1>1. Grow /\ UNCHANGED <<skill, verdict, flow, asked>>
  BY DEF Effects, Same, Grow
<1>2. Frame' = Frame /\ Remembered' = Remembered /\ Own' = Own
  BY <1>1, SkillStays
<1>3. IsSkill(skill) /\ Own \subseteq Names
  BY SkillTyped DEF Inv, TypeOK
<1>4. TypeOK'
  BY <1>1, <1>2 DEF Inv, TypeOK, Effects
<1>5. RowsInv'
  <2>1. \A f \in Own : NeedsRecorded(f) => NeedsRecorded(f)'
    BY <1>1, <1>3, NeedsStayRecorded
  <2>2. \A f \in Own : rows'[f] # "none" => f \in short' \/ NeedsRecorded(f)
    BY DEF Inv, RowsInv, Effects
  <2> QED
    BY <1>2, <2>1, <2>2 DEF RowsInv
<1>6. AcceptedInv'
  <2>1. verdict = "accepted" /\ Sound /\ \A w \in coming \cup ({flow} \ {None}) : Fits(w)
    BY DEF Inv, AcceptedInv
  <2>2. Sound'
    BY <1>1, <2>1, SoundStays
  <2>3. \A w \in coming' \cup ({flow} \ {None}) : Fits(w)
    BY <2>1, BroughtFits DEF Effects
  <2>4. \A w \in coming' \cup ({flow} \ {None}) : Fits(w)'
    BY <1>1, <2>3, FitsStays
  <2> QED
    BY <1>1, <2>1, <2>2, <2>4 DEF AcceptedInv
<1> QED
  BY <1>4, <1>5, <1>6 DEF Inv

\* What the invariant says of the call on top.
LEMMA TopFacts ==
  ASSUME Inv, stack # <<>>
  PROVE  /\ IsSkill(skill) /\ Sound /\ stack \in Seq(Frame) /\ cache \in Remembered
         /\ Depth \in Nat \ {0} /\ Depth <= MaxDepth
         /\ Top \in Frame /\ Fn \in Own /\ Top.depth \in Nat /\ Top.depth <= Depth - 1
         /\ Top.filled \subseteq Inputs /\ Top.stage \in Stages /\ Top.due \subseteq Hook
<1>0. PICK S, s : S = Frame /\ s = stack
  OBVIOUS
<1>1. IsSkill(skill) /\ stack \in Seq(Frame) /\ Len(stack) <= MaxDepth /\ cache \in Remembered
  BY DEF Inv, TypeOK
<1>2. s \in Seq(S) /\ s # <<>>
  BY <1>0, <1>1
<1>3. Len(s) \in Nat \ {0} /\ s[Len(s)] \in S /\ Len(s) \in DOMAIN s
  BY <1>2
<1>4. Depth \in Nat \ {0} /\ Depth <= MaxDepth /\ Top \in Frame /\ Depth \in DOMAIN stack
  BY <1>0, <1>1, <1>3 DEF Depth, Top
<1>5. Top.depth <= Depth - 1
  BY <1>4 DEF Inv, StackInv, Top
<1>6. Sound
  BY DEF Inv, AcceptedInv
<1> QED
  BY <1>1, <1>4, <1>5, <1>6, FrameTyped DEF Fn

LEMMA FrameFacts ==
  ASSUME Inv, NEW i \in DOMAIN stack, NEW q, q = stack[i]
  PROVE  q \in Frame /\ FrameInv(q)
<1>0. PICK S, s : S = Frame /\ s = stack
  OBVIOUS
<1>1. s \in Seq(S) /\ i \in DOMAIN s
  BY <1>0 DEF Inv, TypeOK
<1>2. q \in Frame
  BY <1>0, <1>1
<1> QED
  BY <1>2 DEF Inv, StackInv, InvAt

LEMMA TopInv ==
  ASSUME Inv, stack # <<>>
  PROVE  \A q : q = Top => q \in Frame /\ FrameInv(q)
<1>1. Depth \in DOMAIN stack
  <2>1. PICK S, s : S = Frame /\ s = stack
    OBVIOUS
  <2>2. s \in Seq(S) /\ s # <<>>
    BY <2>1 DEF Inv, TypeOK
  <2> QED
    BY <2>1, <2>2 DEF Depth
<1> QED
  BY <1>1, FrameFacts DEF Top

\* A frame that goes on in a stage for which the needs have to be done.
LEMMA FrameGoesOn ==
  ASSUME IsSkill(skill), Grow, NEW q \in Frame, FrameInv(q), NEW p, Later(p, q),
         \/ p.stage = q.stage /\ p.due \subseteq q.due /\ p.after = q.after
         \/ /\ p.stage \notin {"hooks", "ask"}
            /\ p.stage \in BeforeNeeds \/ q.stage \notin BeforeNeeds \/ q.fn \in short'
  PROVE  FrameInv(p)'
<1>1. FrameInv(q)'
  BY FrameInvStays
<1>2. q.fn \in short \/ NeedsRecorded(q.fn) => q.fn \in short' \/ NeedsRecorded(q.fn)'
  BY NeedsStayRecorded, FrameTyped DEF Grow
<1>3. p.fn = q.fn
  BY DEF Later
<1> QED
  BY <1>1, <1>2, <1>3 DEF FrameInv

\* The call on top goes on in frame p.
LEMMA GoesOn ==
  ASSUME Inv, Effects, stack # <<>>, NEW p, With(p), Later(p, Top), FrameInv(p)'
  PROVE  Inv'
<1>1. Grow
  BY DEF Effects, Same, Grow
<1>2. StackInv' /\ stack' \in Seq(Frame) /\ Len(stack') = Len(stack)
  BY <1>1, TopGoesOn DEF Inv, TypeOK
<1> QED
  BY <1>2, StepKeepsInv DEF Inv, TypeOK

LEMMA StaysOrMoves ==
  ASSUME Inv, Effects, stack # <<>>, NEW p, With(p), Later(p, Top),
         \/ p.stage = Top.stage /\ p.due \subseteq Top.due /\ p.after = Top.after
         \/ /\ p.stage \notin {"hooks", "ask"}
            /\ p.stage \in BeforeNeeds \/ Top.stage \notin BeforeNeeds \/ Fn \in short'
  PROVE  Inv'
<1>1. PICK q : q = Top
  OBVIOUS
<1>2. q \in Frame /\ FrameInv(q) /\ IsSkill(skill) /\ Grow
  BY <1>1, TopInv, TopFacts DEF Effects, Same, Grow
<1>3. FrameInv(p)'
  BY <1>1, <1>2, FrameGoesOn DEF Fn
<1> QED
  BY <1>3, GoesOn

\* It goes on after the hooks of an event.
LEMMA Fires ==
  ASSUME Inv, Effects, UNCHANGED hooks, stack # <<>>, NEW q, Later(q, Top), NEW e, NEW s \in AfterHooks,
         Fire(q, e, s), Top.stage \notin BeforeNeeds \/ Fn \in short'
  PROVE  Inv'
<1>1. q \in Frame /\ q.fn = Fn /\ {"hooks"} \cup AfterHooks \subseteq Stages
  BY DEF Later, Fn, Stages, Lists, AfterHooks
<1>2. PICK due \in SUBSET {h \in hooks : h.of = q.fn /\ h.on = e} :
         With(IF due = {} THEN Staged(q, s) ELSE [Staged(q, "hooks") EXCEPT !.due = due, !.after = s])
  BY DEF Fire
<1>3. CASE due = {}
  <2>1. PICK p : p = Staged(q, s)
    OBVIOUS
  <2>2. With(p) /\ Later(p, q) /\ p.stage = s
    BY <1>1, <1>2, <1>3, <2>1, StagedFrame
  <2>3. s \notin {"hooks", "ask"}
    BY DEF AfterHooks
  <2> QED
    BY <2>2, <2>3, StaysOrMoves DEF Later
<1>4. CASE due # {}
  <2>1. PICK r : r = Staged(q, "hooks")
    OBVIOUS
  <2>2. r \in Frame /\ Later(r, q) /\ r.stage = "hooks"
    BY <1>1, <2>1, StagedFrame DEF Later
  <2>3. PICK p : p = [r EXCEPT !.due = due, !.after = s]
    OBVIOUS
  <2>4. due \in SUBSET Hook /\ s \in Stages
    BY <1>1, <1>2 DEF Inv, TypeOK
  <2>5. Later(p, r) /\ p.stage = "hooks" /\ p.due = due /\ p.after = s
    BY <2>2, <2>3, <2>4 DEF Frame, Later
  <2>6. Later(p, Top) /\ p.fn = Fn
    BY <2>2, <2>5 DEF Later, Fn
  <2>7. PICK f : f = Fn
    OBVIOUS
  <2>8. f \in short' \/ NeedsRecorded(f)'
    <3>1. PICK t : t = Top
      OBVIOUS
    <3>2. t \in Frame /\ FrameInv(t) /\ IsSkill(skill) /\ Grow /\ f \in Own /\ t.fn = f
      BY <2>7, <3>1, TopInv, TopFacts DEF Effects, Same, Grow, Fn
    <3>3. f \in short \/ NeedsRecorded(f) => f \in short' \/ NeedsRecorded(f)'
      BY <3>2, NeedsStayRecorded DEF Grow
    <3> QED
      BY <2>7, <3>1, <3>2, <3>3 DEF FrameInv
  <2>9. FrameInv(p)'
    BY <2>5, <2>6, <2>7, <2>8, <1>1, <1>2 DEF FrameInv
  <2> QED
    BY <1>2, <1>4, <2>1, <2>3, <2>6, <2>9, GoesOn
<1> QED
  BY <1>3, <1>4

-----------------------------------------------------------------------------
(* Calls that are made, and that come back.                                *)

LEMMA RecordedRows ==
  ASSUME NEW rs \in [Names -> Statuses], NEW g \in Names, NEW s \in Statuses
  PROVE  /\ [rs EXCEPT ![g] = s] \in [Names -> Statuses]
         /\ [rs EXCEPT ![g] = s][g] = s
         /\ \A h \in Names \ {g} : [rs EXCEPT ![g] = s][h] = rs[h]
  OBVIOUS

\* A step that leaves the records as they are.
LEMMA QuietEffects ==
  ASSUME Inv, Same, UNCHANGED <<rows, hooks, coming>>, cache' \in Remembered,
         short \subseteq short', short' \subseteq Own
  PROVE  Effects
  BY DEF Effects, Inv, TypeOK

\* A step that records one function.
LEMMA RecordEffects ==
  ASSUME Inv, Same, UNCHANGED <<coming>>, cache' \in Remembered,
         hooks \subseteq hooks', hooks' \subseteq Hook, short \subseteq short', short' \subseteq Own,
         NEW g \in Names, NEW s \in Statuses \ {"none"}, rows' = Recorded(g, s),
         g \in Own => g \in short' \/ NeedsRecorded(g)
  PROVE  Effects
<1>1. rows \in [Names -> Statuses] /\ rows' = [rows EXCEPT ![g] = s]
  BY DEF Inv, TypeOK, Recorded
<1>2. rows' \in [Names -> Statuses] /\ rows'[g] = s /\ \A h \in Names \ {g} : rows'[h] = rows[h]
  BY <1>1, RecordedRows
<1>3. Own \subseteq Names
  BY SkillTyped DEF Inv, TypeOK
<1> QED
  BY <1>2, <1>3 DEF Effects, Inv, TypeOK

\* The call on top goes on with the result of a call it waits for.
LEMMA Resumes ==
  ASSUME Inv, Effects, stack # <<>>, NEW g \in Names, NEW r, With(Resume(Top, g, r)),
         Top.stage \in {"inputs", "presolve"} => Whose(Top) \in Own
  PROVE  Inv'
<1>1. PICK q, p : q = Top /\ p = Resume(Top, g, r)
  OBVIOUS
<1>2. q \in Frame /\ IsSkill(skill)
  BY <1>1, TopFacts
<1>3. /\ Later(p, q)
      /\ \/ p.stage = q.stage /\ p.due = q.due /\ p.after = q.after
         \/ q.stage = "needs" /\ p.stage \in {"stopped", "broken"}
         \/ q.stage = "onSuccess" /\ p.stage = "stuck"
         \/ q.stage = "inputs" /\ p.stage \in {"onMissing", "unfilled"}
  BY <1>1, <1>2, ResumeFrame
<1>4. \/ p.stage = q.stage /\ p.due \subseteq q.due /\ p.after = q.after
      \/ /\ p.stage \notin {"hooks", "ask"}
         /\ p.stage \in BeforeNeeds \/ q.stage \notin BeforeNeeds
  BY <1>3 DEF BeforeNeeds
<1> QED
  BY <1>1, <1>3, <1>4, StaysOrMoves

LEMMA CallsOwn ==
  ASSUME Inv, stack # <<>>, NEW g \in Own, NEW given \in SUBSET Inputs,
         Waits(Top, g), CallOwn(g, given), cache' \in Remembered
  PROVE  Inv'
<1>1. g \in Names /\ IsSkill(skill)
  BY SkillTyped DEF Inv, TypeOK
<1>2. CASE Depth < MaxDepth
  <2>1. PICK t, f : t = Top /\ f = NewFrame(g, given, Top.depth)
    OBVIOUS
  <2>2. stack' = Append(stack, f) /\ UNCHANGED <<rows, short, coming, hooks>> /\ Same
    BY <1>2, <2>1 DEF CallOwn, Rest
  <2>3. f \in Frame /\ f.fn = g /\ f.stage = "enter" /\ f.depth = t.depth /\ t.depth <= Depth - 1
    BY <2>1, TopFacts, NewFrameTyped
  <2>4. Effects /\ Grow
    BY <2>2, QuietEffects DEF Inv, TypeOK, Effects, Same, Grow
  <2>5. t \in Frame /\ FrameInv(t) /\ Later(t, Top)
    BY <2>1, TopInv DEF Later
  <2>6. FrameInv(t)'
    BY <1>1, <2>4, <2>5, FrameInvStays
  <2>7. Waits(t, f.fn)'
    BY <2>1, <2>3, <2>4, WaitsStays DEF Grow
  <2>8. [stack EXCEPT ![Depth] = t] = stack
    <3>1. PICK S, s : S = Frame /\ s = stack
      OBVIOUS
    <3>2. s \in Seq(S) /\ s # <<>>
      BY <3>1 DEF Inv, TypeOK
    <3>3. [s EXCEPT ![Len(s)] = s[Len(s)]] = s
      BY <3>2
    <3> QED
      BY <2>1, <3>1, <3>3 DEF Top, Depth
  <2>9. f.depth <= Depth /\ Depth + 1 <= MaxDepth
    BY <1>2, <2>3, TopFacts, FrameTyped, BoundsAssumption
  <2>10. StackInv' /\ stack' \in Seq(Frame) /\ Len(stack') = Len(stack) + 1
    BY <1>1, <2>2, <2>3, <2>4, <2>5, <2>6, <2>7, <2>8, <2>9, TopCalls DEF Inv, TypeOK
  <2> QED
    BY <2>4, <2>9, <2>10, StepKeepsInv DEF Depth
<1>3. CASE ~(Depth < MaxDepth)
  <2>1. /\ With(Resume(Top, g, "text")) /\ rows' = Recorded(g, "complete") /\ short' = short \cup {g}
        /\ UNCHANGED <<coming, hooks>> /\ Same
    BY <1>3 DEF CallOwn, Rest
  <2>2. Effects
    BY <1>1, <2>1, RecordEffects DEF Inv, TypeOK, Statuses
  <2> QED
    BY <1>1, <2>1, <2>2, Resumes DEF Waits
<1> QED
  BY <1>2, <1>3

LEMMA CallsOther ==
  ASSUME Inv, stack # <<>>, NEW c, c.to \in Names \ Own, c.hook \in Hook \cup {None}, CallOther(c),
         Top.stage \notin {"inputs", "presolve"}
  PROVE  Inv'
<1>1. UNCHANGED <<cache, short, coming>> /\ Same /\ c.to \in Names
  BY DEF CallOther
<1>2. cache \in Remembered /\ short \subseteq Own /\ hooks \subseteq Hook
  BY DEF Inv, TypeOK
<1>3. PICK r : With(Resume(Top, c.to, r))
  BY DEF CallOther
<1>4. CASE \E s \in {"complete", "failed"} : rows' = Recorded(c.to, s)
  <2>1. PICK s \in Statuses \ {"none"} : rows' = Recorded(c.to, s)
    BY <1>4 DEF Statuses
  <2>2. hooks \subseteq hooks' /\ hooks' \subseteq Hook
    BY <1>2 DEF CallOther
  <2>3. Effects
    BY <1>1, <1>2, <2>1, <2>2, RecordEffects
  <2> QED
    BY <1>1, <1>3, <2>3, Resumes
<1>5. CASE UNCHANGED <<rows, hooks>>
  <2>1. Effects
    BY <1>1, <1>2, <1>5, QuietEffects
  <2> QED
    BY <1>1, <1>3, <2>1, Resumes
<1> QED
  BY <1>4, <1>5 DEF CallOther

LEMMA Returns ==
  ASSUME Inv, stack # <<>>, NEW s \in Statuses, NEW r, Return(s, r),
         UNCHANGED <<cache, coming>>, Rest,
         short \subseteq short', short' \subseteq Own,
         Top.stage \notin BeforeNeeds \/ Fn \in short'
  PROVE  Inv'
<1>0. PICK f, rs, caller : /\ f = Fn /\ rs = (IF s = "none" THEN rows ELSE Recorded(Fn, s))
                           /\ caller = stack[Depth - 1]
  OBVIOUS
<1>1. PICK seen :
        /\ rows' = IF Depth > 1 /\ caller.stage = "hooks" THEN [rs EXCEPT ![f] = OfHook(seen)] ELSE rs
        /\ stack' = IF Depth = 1 THEN <<>>
                    ELSE [Front(stack) EXCEPT ![Depth - 1] = Resume(caller, f, seen)]
  BY <1>0 DEF Return
<1>2. f \in Own /\ f \in Names /\ IsSkill(skill) /\ Depth \in Nat \ {0} /\ Depth <= MaxDepth
      /\ Own \subseteq Names
  BY <1>0, TopFacts, SkillTyped
<1>3. rs \in [Names -> Statuses] /\ \A h \in Names \ {f} : rs[h] = rows[h]
  <2>1. rows \in [Names -> Statuses]
    BY DEF Inv, TypeOK
  <2> QED
    BY <1>0, <1>2, <2>1, RecordedRows DEF Recorded
<1>4. rs[f] = "none" => rows[f] = "none"
  BY <1>0, <1>2 DEF Recorded, Inv, TypeOK
<1>5. OfHook(seen) \in Statuses \ {"none"}
  BY DEF OfHook, Statuses
<1>6. /\ rows' \in [Names -> Statuses] /\ \A h \in Names \ {f} : rows'[h] = rows[h]
      /\ rows'[f] = "none" => rows[f] = "none"
  BY <1>1, <1>2, <1>3, <1>4, <1>5, RecordedRows
<1>7. f \in short' \/ NeedsRecorded(f)
  <2>1. PICK t : t = Top
    OBVIOUS
  <2>2. FrameInv(t) /\ t.fn = f
    BY <1>0, <2>1, TopInv DEF Fn
  <2> QED
    BY <1>0, <2>1, <2>2 DEF FrameInv
<1>8. Effects
  BY <1>2, <1>6, <1>7 DEF Effects, Rest, Inv, TypeOK
<1>9. Grow
  BY <1>8 DEF Effects, Same, Grow
<1>10. CASE Depth = 1
  <2>1. stack' = <<>>
    BY <1>1, <1>10
  <2>2. StackInv' /\ stack' \in Seq(Frame) /\ Len(stack') <= MaxDepth
    BY <2>1, BoundsAssumption DEF StackInv
  <2> QED
    BY <1>8, <2>2, StepKeepsInv
<1>11. CASE Depth # 1
  <2>1. Depth > 1 /\ Depth - 1 \in DOMAIN stack /\ Depth - 1 \in 1..(Len(stack) - 1)
    <3>1. Len(stack) \in Nat /\ DOMAIN stack = 1..Len(stack)
      BY DEF Inv, TypeOK
    <3> QED
      BY <1>2, <1>11, <3>1 DEF Depth
  <2>2. caller \in Frame /\ FrameInv(caller)
    BY <1>0, <2>1, FrameFacts
  <2>3. Waits(caller, f)
    <3>1. WaitsAt(Depth - 1)
      BY <2>1 DEF Inv, StackInv
    <3>2. (Depth - 1) + 1 = Depth
      BY <1>2
    <3> QED
      BY <1>0, <3>1, <3>2 DEF WaitsAt, Fn, Top
  <2>4. PICK p : p = Resume(caller, f, seen)
    OBVIOUS
  <2>5. /\ Later(p, caller)
        /\ \/ p.stage = caller.stage /\ p.due = caller.due /\ p.after = caller.after
           \/ caller.stage = "needs" /\ p.stage \in {"stopped", "broken"}
           \/ caller.stage = "onSuccess" /\ p.stage = "stuck"
           \/ caller.stage = "inputs" /\ p.stage \in {"onMissing", "unfilled"}
    BY <1>2, <2>2, <2>3, <2>4, ResumeFrame DEF Waits
  <2>6. FrameInv(p)'
    <3>1. \/ p.stage = caller.stage /\ p.due \subseteq caller.due /\ p.after = caller.after
          \/ /\ p.stage \notin {"hooks", "ask"}
             /\ p.stage \in BeforeNeeds \/ caller.stage \notin BeforeNeeds
      BY <2>5 DEF BeforeNeeds
    <3> QED
      BY <1>2, <1>9, <2>2, <2>5, <3>1, FrameGoesOn
  <2>7. stack' = [Front(stack) EXCEPT ![Depth - 1] = p]
    BY <1>1, <1>11, <2>4
  <2>8. StackInv' /\ stack' \in Seq(Frame) /\ Len(stack') = Len(stack) - 1
    BY <1>0, <1>2, <1>9, <2>1, <2>5, <2>6, <2>7, TopReturns DEF Inv, TypeOK
  <2>9. Len(stack') <= MaxDepth
    BY <1>2, <2>8, BoundsAssumption DEF Depth
  <2> QED
    BY <1>8, <2>8, <2>9, StepKeepsInv
<1> QED
  BY <1>10, <1>11

-----------------------------------------------------------------------------
(* Steps of the call on top.                                               *)

LEMMA GoesTo ==
  ASSUME Inv, Effects, stack # <<>>, NEW s \in Stages \ {"hooks", "ask"}, Goto(s),
         s \in BeforeNeeds \/ Top.stage \notin BeforeNeeds \/ Fn \in short'
  PROVE  Inv'
<1>1. PICK p : p = Staged(Top, s)
  OBVIOUS
<1>2. Later(p, Top) /\ p.stage = s /\ With(p)
  BY <1>1, TopFacts, StagedFrame DEF Goto
<1> QED
  BY <1>2, StaysOrMoves

LEMMA BeginKeeps ==
  ASSUME Inv, Begin
  PROVE  Inv'
<1>1. Effects
  BY QuietEffects DEF Begin, Quiet, Rest, Inv, TypeOK
<1>2. "needs" \in Stages \ {"hooks", "ask"} /\ "needs" \in BeforeNeeds
  BY DEF Stages, Lists, BeforeNeeds
<1> QED
  BY <1>1, <1>2, GoesTo DEF Begin, At

\* The function has not started, or its output is in the cache.
LEMMA EndsAtOnce ==
  ASSUME Inv, TurnAway \/ Cached
  PROVE  Inv'
<1>1. PICK s \in {"skipped", "complete"} : Return(s, "text")
  BY DEF TurnAway, Cached
<1>2. stack # <<>> /\ short' = short \cup {Fn} /\ UNCHANGED <<cache, coming>> /\ Rest
  BY DEF TurnAway, Cached, At
<1>3. Fn \in Own /\ short \subseteq Own
  BY <1>2, TopFacts DEF Inv, TypeOK
<1> QED
  BY <1>1, <1>2, <1>3, Returns DEF Statuses

LEMMA ThisFacts ==
  ASSUME Inv, InList
  PROVE  /\ stack # <<>> /\ Top.stage \in Lists /\ Top.at \in DOMAIN Calls(Fn, Top.stage)
         /\ This.to \in Names /\ This.to \in Own \cup External /\ This.hook \in Hook \cup {None}
         /\ This.to \in Callees(Fn, Top.stage)
<1>1. stack # <<>> /\ Top.stage \in Lists /\ Top.at <= Len(Calls(Fn, Top.stage))
  BY DEF InList
<1>2. Top \in Frame /\ Fn \in Own /\ IsSkill(skill) /\ Sound
  BY <1>1, TopFacts
<1>3. PICK S, c : S = Call /\ c = Calls(Fn, Top.stage)
  OBVIOUS
<1>4. c \in Seq(S)
  BY <1>1, <1>2, <1>3, SkillTyped
<1>5. Top.at \in DOMAIN c
  BY <1>1, <1>2, <1>3, <1>4, FrameTyped
<1>6. This.to \in Names /\ This.hook \in Hook \cup {None}
  BY <1>1, <1>2, <1>3, <1>5, CallTyped DEF This
<1>7. This.to \in Callees(Fn, Top.stage)
  BY <1>3, <1>5 DEF This, Callees
<1> QED
  BY <1>1, <1>2, <1>3, <1>5, <1>6, <1>7 DEF Sound

LEMMA SkipKeeps ==
  ASSUME Inv, Skip
  PROVE  Inv'
<1>1. /\ stack # <<>> /\ This.to \in Names /\ UNCHANGED <<cache, coming>> /\ Rest
      /\ short \subseteq Own /\ cache \in Remembered /\ Top \in Frame
  BY ThisFacts, TopFacts DEF Skip, Inv, TypeOK
<1>2. PICK p, t : p \in {[t EXCEPT !.sub = @ + 1], [t EXCEPT !.at = @ + 1, !.sub = 1]} /\ t = Top /\ With(p)
  BY DEF Skip, Onward
<1>3. Later(p, Top) /\ p.stage = Top.stage /\ p.due = Top.due /\ p.after = Top.after
  BY <1>1, <1>2, SubFrame, OnwardFrame
<1>4. Effects
  <2>1. CASE UNCHANGED <<rows, short>>
    BY <1>1, <2>1, QuietEffects DEF Rest
  <2>2. CASE rows' = Recorded(This.to, "skipped") /\ short' = short \cup ({This.to} \cap Own)
    <3>1. PICK g : g = This.to
      OBVIOUS
    <3>2. g \in Own => g \in short'
      BY <2>2, <3>1
    <3> QED
      BY <1>1, <2>2, <3>1, <3>2, RecordEffects DEF Rest, Statuses, Inv, TypeOK
  <2> QED
    BY <2>1, <2>2 DEF Skip
<1> QED
  BY <1>1, <1>2, <1>3, <1>4, StaysOrMoves

LEMMA NoMoreItemsKeeps ==
  ASSUME Inv, NoMoreItems
  PROVE  Inv'
<1>1. /\ stack # <<>> /\ This.to \in Names /\ Quiet
      /\ short \subseteq Own /\ cache \in Remembered /\ Top \in Frame
  BY ThisFacts, TopFacts DEF NoMoreItems, Inv, TypeOK
<1>2. PICK t, q : t = Top /\ q = [t EXCEPT !.at = @ + 1, !.sub = 1]
  OBVIOUS
<1>3. Later(q, t) /\ q.stage = t.stage /\ q.due = t.due /\ q.after = t.after /\ t \in Frame
  BY <1>1, <1>2, OnwardFrame
<1>4. PICK outs : outs = IF Top.stage = "onSuccess" /\ Top.sub > 1 THEN q.outs \cup {This.to} ELSE q.outs
  OBVIOUS
<1>5. outs \in SUBSET Names
  BY <1>1, <1>3, <1>4, FrameTyped DEF Later
<1>6. PICK p : p = [q EXCEPT !.outs = outs]
  OBVIOUS
<1>7. Later(p, q) /\ p.stage = q.stage /\ p.due = q.due /\ p.after = q.after
  BY <1>3, <1>5, <1>6, OutsFrame DEF Later
<1>8. Later(p, Top) /\ p.stage = Top.stage /\ p.due \subseteq Top.due /\ p.after = Top.after
  BY <1>2, <1>3, <1>7 DEF Later
<1>9. With(p)
  BY <1>2, <1>4, <1>6 DEF NoMoreItems, Onward
<1>10. Effects
  BY <1>1, QuietEffects DEF Quiet, Rest
<1> QED
  BY <1>1, <1>8, <1>9, <1>10, StaysOrMoves

LEMMA ReuseKeeps ==
  ASSUME Inv, Reuse
  PROVE  Inv'
<1>1. /\ stack # <<>> /\ This.to \in Names /\ Quiet /\ Top.stage \in Lists
      /\ short \subseteq Own /\ cache \in Remembered /\ Top \in Frame
  BY ThisFacts, TopFacts DEF Reuse, Inv, TypeOK
<1>2. Effects
  BY <1>1, QuietEffects DEF Quiet, Rest
<1>3. CASE With(Onward)
  <2>1. PICK p, t : t = Top /\ p = [t EXCEPT !.at = @ + 1, !.sub = 1]
    OBVIOUS
  <2>2. Later(p, Top) /\ p.stage = Top.stage /\ p.due \subseteq Top.due /\ p.after = Top.after
    BY <1>1, <2>1, OnwardFrame
  <2> QED
    BY <1>1, <1>2, <1>3, <2>1, <2>2, StaysOrMoves DEF Onward
<1>4. CASE With(Resume(Top, This.to, "text"))
  <2>1. Top.stage \notin {"inputs", "presolve"}
    BY <1>1 DEF Lists
  <2> QED
    BY <1>1, <1>2, <1>4, <2>1, Resumes
<1> QED
  BY <1>3, <1>4 DEF Reuse

LEMMA CallNextKeeps ==
  ASSUME Inv, CallNext
  PROVE  Inv'
<1>1. PICK g : g = This.to
  OBVIOUS
<1>2. /\ stack # <<>> /\ g \in Names /\ g \in Own \cup External /\ Top.stage \in Lists
      /\ Top.at \in DOMAIN Calls(Fn, Top.stage) /\ g \in Callees(Fn, Top.stage)
      /\ This.hook \in Hook \cup {None}
  BY <1>1, ThisFacts DEF CallNext
<1>3. Top \in Frame /\ Fn \in Own /\ IsSkill(skill) /\ cache \in Remembered /\ stack \in Seq(Frame)
  BY <1>2, TopFacts
<1>4. CASE g \notin Own
  <2>1. CallOther(This) /\ Top.stage \notin {"inputs", "presolve"}
    BY <1>1, <1>2, <1>4 DEF CallNext, Lists
  <2> QED
    BY <1>1, <1>2, <1>4, <2>1, CallsOther
<1>5. CASE g \in Own
  <2>1. PICK given : given = Given(Top, g)
    OBVIOUS
  <2>2. CallOwn(g, given)
    BY <1>1, <1>5, <2>1 DEF CallNext
  <2>3. given \in SUBSET Inputs
    BY <1>2, <1>3, <2>1, GivenTyped DEF Fn
  <2>4. cache' \in Remembered
    <3>1. cache' = cache \/ (g \in DOMAIN Top.local /\ cache' = Remember(cache, g, Top.local[g]))
      BY <1>1, <1>5 DEF CallNext
    <3>2. g \in DOMAIN Top.local => Top.local[g] \subseteq Inputs
      BY <1>3, FrameTyped, Recalled
    <3> QED
      BY <1>3, <1>5, <3>1, <3>2, RemembersMore
  <2>5. Waits(Top, g)
    <3>1. Top.stage \in Followed => g \in Reach(Checked, Fn)
      BY <1>2, <1>3, CheckedEdge DEF Followed, Lists
    <3>2. Top.stage \in Followed \cup Unchecked /\ Top.stage \notin {"hooks", "inputs", "presolve"}
      BY <1>2 DEF Followed, Unchecked, Asking, Lists
    <3> QED
      BY <1>2, <3>1, <3>2 DEF Waits, Fn
  <2> QED
    BY <1>2, <1>5, <2>2, <2>3, <2>4, <2>5, CallsOwn
<1> QED
  BY <1>4, <1>5

\* Steps that only move the call on top.
LEMMA QuietlyOn ==
  ASSUME Inv, Quiet, NEW s \in Stages \ {"hooks", "ask"}, stack # <<>>, Goto(s),
         s \in BeforeNeeds \/ Top.stage \notin BeforeNeeds
  PROVE  Inv'
<1>1. Effects
  BY QuietEffects DEF Quiet, Rest, Inv, TypeOK
<1> QED
  BY <1>1, GoesTo

\* Needs are met when they all have records.
LEMMA NeedsMetKeeps ==
  ASSUME Inv, NeedsMet
  PROVE  Inv'
<1>1. stack # <<>> /\ Quiet /\ Fn \in Own /\ IsSkill(skill) /\ Top \in Frame
  BY TopFacts DEF NeedsMet, AtEnd, At
<1>2. CASE Goto("broken")
  <2>1. "broken" \in Stages \ {"hooks", "ask"} /\ "broken" \in BeforeNeeds
    BY DEF Stages, Verdicts, BeforeNeeds
  <2> QED
    BY <1>1, <1>2, <2>1, QuietlyOn
<1>3. CASE Goto("ask") /\ NeedsRecorded(Fn)
  <2>1. PICK p, f : p = Staged(Top, "ask") /\ f = Fn
    OBVIOUS
  <2>2. "ask" \in Stages
    BY DEF Stages
  <2>3. Later(p, Top) /\ p.stage = "ask" /\ With(p)
    BY <1>1, <1>3, <2>1, <2>2, StagedFrame DEF Goto
  <2>4. Effects /\ Grow
    BY <1>1, QuietEffects DEF Quiet, Rest, Same, Grow, Inv, TypeOK
  <2>5. NeedsRecorded(f)'
    BY <1>1, <1>3, <2>1, <2>4, NeedsStayRecorded
  <2>6. FrameInv(p)'
    BY <2>1, <2>3, <2>5 DEF FrameInv, Later, Fn
  <2> QED
    BY <1>1, <2>3, <2>4, <2>6, GoesOn
<1> QED
  BY <1>2, <1>3 DEF NeedsMet, NeedsRecorded

LEMMA TopLater ==
  ASSUME Inv, stack # <<>>
  PROVE  Later(Top, Top)
  BY TopFacts DEF Later

LEMMA CallbacksDoneKeeps ==
  ASSUME Inv, CallbacksDone
  PROVE  Inv'
<1>1. Quiet /\ UNCHANGED hooks
  BY DEF CallbacksDone, Quiet, Rest
<1>2. Effects
  BY <1>1, QuietEffects DEF Quiet, Rest, Inv, TypeOK
<1>3. /\ stack # <<>> /\ Top.stage \in {"onSuccess", "onFailure"}
      /\ \E s \in {"completed", "failed"} : Fire(Top, "afterCompletion", s)
  BY DEF CallbacksDone, AtEnd, At
<1>4. Top.stage \notin BeforeNeeds /\ {"completed", "failed"} \subseteq AfterHooks
  BY <1>3 DEF BeforeNeeds, AfterHooks
<1> QED
  BY <1>1, <1>2, <1>3, <1>4, TopLater, Fires

\* The call ends after its needs.
LEMMA EndsKeep ==
  ASSUME Inv, Done \/ Skipped \/ Asked
  PROVE  Inv'
<1>1. /\ stack # <<>> /\ UNCHANGED <<cache, short, coming>> /\ Rest
      /\ Top.stage \in {"completed", "failed", "onSkip"} \cup Asking
      /\ \E s \in Statuses, r \in {"text", "special", "pending", "error"} : Return(s, r)
  BY DEF Done, Skipped, Asked, AtEnd, At, Statuses
<1>2. short \subseteq Own /\ Top.stage \notin BeforeNeeds
  BY <1>1 DEF Inv, TypeOK, BeforeNeeds, Asking
<1> QED
  BY <1>1, <1>2, Returns

LEMMA StoppedKeeps ==
  ASSUME Inv, Stopped
  PROVE  Inv'
<1>1. /\ stack # <<>> /\ UNCHANGED <<cache, coming>> /\ Rest
      /\ Top.stage \in {"stopped", "unfilled", "stuck"}
      /\ \E s \in Statuses, r \in {"text", "special", "pending"} : Return(s, r)
  BY DEF Stopped, At, Statuses
<1>2. Fn \in Own /\ short \subseteq Own
  BY <1>1, TopFacts DEF Inv, TypeOK
<1>3. short' = IF Top.stage = "stopped" THEN short \cup {Fn} ELSE short
  BY <1>1 DEF Stopped, At
<1>4. Top.stage \notin BeforeNeeds \/ Fn \in short'
  BY <1>1, <1>3 DEF BeforeNeeds
<1> QED
  BY <1>1, <1>2, <1>3, <1>4, Returns

\* The records of a step that records the function of the call on top.
LEMMA RecordsFn ==
  ASSUME Inv, Rest, UNCHANGED <<cache, coming>>, stack # <<>>,
         NEW s \in {"complete", "failed"}, rows' \in {rows, Recorded(Fn, s)},
         \/ UNCHANGED short /\ Top.stage \notin BeforeNeeds
         \/ short' = short \cup {Fn}
  PROVE  Effects
<1>1. PICK t, f : t = Top /\ f = Fn
  OBVIOUS
<1>2. FrameInv(t) /\ t.fn = f /\ f \in Own /\ f \in Names
  BY <1>1, TopInv, TopFacts, SkillTyped DEF Fn
<1>3. f \in short' \/ NeedsRecorded(f)
  BY <1>1, <1>2 DEF FrameInv
<1>4. short \subseteq short' /\ short' \subseteq Own /\ cache' \in Remembered
      /\ hooks \subseteq hooks' /\ hooks' \subseteq Hook
  BY <1>1, <1>2 DEF Inv, TypeOK, Rest
<1>5. CASE UNCHANGED rows
  BY <1>4, <1>5, QuietEffects DEF Rest
<1>6. CASE rows' = Recorded(f, s)
  BY <1>2, <1>3, <1>4, <1>6, RecordEffects DEF Rest, Statuses
<1> QED
  BY <1>1, <1>5, <1>6

LEMMA BrokenKeeps ==
  ASSUME Inv, Broken
  PROVE  Inv'
<1>1. /\ stack # <<>> /\ UNCHANGED <<cache, coming>> /\ Rest /\ short' = short \cup {Fn}
      /\ rows' \in {rows, Recorded(Fn, "failed")}
      /\ \E e \in Events : \E s \in {"onFailure", "failed"} : Fire(Top, e, s)
  BY DEF Broken, At, FailUnrecorded, Fail, Events
<1>2. Effects /\ UNCHANGED hooks /\ Fn \in short'
  BY <1>1, RecordsFn DEF Rest
<1>3. {"onFailure", "failed"} \subseteq AfterHooks
  BY DEF AfterHooks
<1> QED
  BY <1>1, <1>2, <1>3, TopLater, Fires

LEMMA ConditionKeeps ==
  ASSUME Inv, Condition
  PROVE  Inv'
<1>1. stack # <<>> /\ Top.stage = "ask" /\ UNCHANGED <<cache, short, coming>> /\ Rest
  BY DEF Condition, At
<1>2. short \subseteq Own /\ cache \in Remembered
  BY DEF Inv, TypeOK
<1>3. Top.stage \notin BeforeNeeds
  BY <1>1 DEF BeforeNeeds
<1>4. ASSUME NEW s \in {"inputs", "onSkip"}, Goto(s), UNCHANGED rows
      PROVE  Inv'
  <2>1. Effects
    BY <1>1, <1>2, <1>4, QuietEffects DEF Rest
  <2>2. s \in Stages \ {"hooks", "ask"}
    BY DEF Stages, Lists
  <2> QED
    BY <1>1, <1>3, <1>4, <2>1, <2>2, GoesTo
<1>5. CASE \E r \in {"pending", "error"} : Return("complete", r)
  BY <1>1, <1>2, <1>3, <1>5, Returns DEF Statuses
<1>6. CASE FailUnrecorded
  <2>1. /\ rows' \in {rows, Recorded(Fn, "failed")} /\ UNCHANGED hooks
        /\ \E e \in Events : \E s \in {"onFailure", "failed"} : Fire(Top, e, s)
    BY <1>1, <1>6 DEF FailUnrecorded, Fail, Events, Rest
  <2>2. Effects
    BY <1>1, <1>3, <2>1, RecordsFn
  <2>3. {"onFailure", "failed"} \subseteq AfterHooks
    BY DEF AfterHooks
  <2> QED
    BY <1>1, <1>3, <2>1, <2>2, <2>3, TopLater, Fires
<1> QED
  BY <1>4, <1>5, <1>6 DEF Condition

LEMMA RunHookKeeps ==
  ASSUME Inv, RunHook
  PROVE  Inv'
<1>1. /\ stack # <<>> /\ Top.stage = "hooks" /\ UNCHANGED <<cache, coming>> /\ Rest
      /\ Top.depth < MaxHookDepth
  BY DEF RunHook, At
<1>2. PICK h, q : /\ h \in Top.due /\ q = [Top EXCEPT !.due = @ \ {h}]
                  /\ IF h.then \in Own /\ Depth < MaxDepth
                     THEN /\ stack' = Append([stack EXCEPT ![Depth] = q],
                                NewFrame(h.then, Top.filled \cup h.gives \cup Inherited(h.then), Top.depth + 1))
                          /\ UNCHANGED <<rows, short>>
                     ELSE /\ With(q) /\ \E s \in {"complete", "failed"} : rows' = Recorded(h.then, s)
                          /\ short' = IF h.then \in Own THEN short \cup {h.then} ELSE short
  BY DEF RunHook
<1>3. PICK t, g : t = Top /\ g = h.then
  OBVIOUS
<1>4. t \in Frame /\ FrameInv(t) /\ IsSkill(skill) /\ t.fn \in Own
  BY <1>1, <1>3, TopInv, TopFacts DEF Fn
<1>5. PICK due : due = t.due \ {h}
  OBVIOUS
<1>6. due \in SUBSET Hook /\ h \in Hook /\ h \in hooks /\ h.of = t.fn
  BY <1>1, <1>2, <1>3, <1>4, <1>5, FrameTyped DEF FrameInv
<1>7. Later(q, t) /\ q.stage = t.stage /\ q.due = due /\ q.after = t.after
  BY <1>2, <1>3, <1>4, <1>5, <1>6 DEF Frame, Later
<1>8. g \in Names /\ h.gives \subseteq Inputs
  BY <1>3, <1>6 DEF Hook
<1>9. Later(q, Top) /\ q.stage = Top.stage /\ q.due \subseteq Top.due /\ q.after = Top.after
  BY <1>3, <1>5, <1>7
<1>10. CASE h.then \in Own /\ Depth < MaxDepth
  <2>1. PICK f : f = NewFrame(g, Top.filled \cup h.gives \cup Inherited(g), t.depth + 1)
    OBVIOUS
  <2>2. Top.filled \cup h.gives \cup Inherited(g) \subseteq Inputs
    BY <1>1, <1>8, TopFacts, InheritedTyped
  <2>3. t.depth + 1 \in Nat /\ t.depth + 1 <= Depth /\ Depth \in Nat /\ Depth + 1 <= MaxDepth
    BY <1>1, <1>3, <1>10, TopFacts, BoundsAssumption
  <2>4. f \in Frame /\ f.fn = g /\ f.stage = "enter" /\ f.depth = t.depth + 1
    BY <1>3, <1>10, <2>1, <2>2, <2>3, NewFrameTyped
  <2>5. UNCHANGED <<rows, short, hooks>> /\ Effects /\ Grow
    BY <1>1, <1>2, <1>10, QuietEffects DEF Rest, Same, Grow, Inv, TypeOK
  <2>6. FrameInv(q)'
    BY <1>4, <1>7, <1>5, <2>5, FrameGoesOn
  <2>7. Waits(q, g)
    <3>1. <<t.fn, g>> \in Hooked(hooks)
      BY <1>3, <1>6 DEF Hooked
    <3>2. g \in Reach(Hooked(hooks), t.fn)
      BY <1>8, <3>1, ReachesEnds
    <3>3. q.stage = "hooks" /\ q.fn = t.fn
      BY <1>1, <1>3, <1>7 DEF Later
    <3> QED
      BY <3>2, <3>3 DEF Waits, Followed, Unchecked, Lists
  <2>8. Waits(q, f.fn)'
    BY <2>4, <2>5, <2>7, WaitsStays DEF Grow
  <2>9. stack' = Append([stack EXCEPT ![Depth] = q], f)
    BY <1>2, <1>3, <1>10, <2>1
  <2>10. StackInv' /\ stack' \in Seq(Frame) /\ Len(stack') = Len(stack) + 1
    BY <1>1, <1>4, <1>9, <2>3, <2>4, <2>5, <2>6, <2>8, <2>9, TopCalls DEF Inv, TypeOK
  <2> QED
    BY <1>1, <2>3, <2>5, <2>10, StepKeepsInv DEF Depth
<1>11. CASE ~(h.then \in Own /\ Depth < MaxDepth)
  <2>1. PICK s \in {"complete", "failed"} : rows' = Recorded(g, s)
    BY <1>2, <1>3, <1>11
  <2>2. With(q) /\ short' = IF g \in Own THEN short \cup {g} ELSE short
    BY <1>2, <1>3, <1>11
  <2>3. short \subseteq short' /\ short' \subseteq Own /\ (g \in Own => g \in short')
    BY <2>2 DEF Inv, TypeOK
  <2>4. Effects
    BY <1>1, <1>8, <2>1, <2>3, RecordEffects DEF Rest, Statuses, Inv, TypeOK
  <2> QED
    BY <1>1, <1>9, <2>2, <2>4, StaysOrMoves
<1> QED
  BY <1>10, <1>11

LEMMA HooksDoneKeeps ==
  ASSUME Inv, HooksDone
  PROVE  Inv'
<1>1. stack # <<>> /\ Top.stage = "hooks" /\ Quiet /\ Goto(Top.after)
  BY DEF HooksDone, At
<1>2. PICK t : t = Top
  OBVIOUS
<1>3. t.after \in AfterHooks /\ t \in Frame
  BY <1>1, <1>2, TopInv DEF FrameInv
<1>4. t.after \in Stages \ {"hooks", "ask"} /\ Top.stage \notin BeforeNeeds
  BY <1>1, <1>3, FrameTyped DEF AfterHooks, BeforeNeeds
<1> QED
  BY <1>1, <1>2, <1>4, QuietlyOn

\* Whose inputs the call on top looks for.
LEMMA LooksFacts ==
  ASSUME Inv, Looks
  PROVE  /\ stack # <<>> /\ Top.stage \in {"inputs", "presolve"} /\ Callee \in Own
         /\ Callee # Fn => Top.stage = "presolve" /\ Callee \in Callees(Fn, "onSuccess")
         /\ Have \subseteq Inputs
<1>1. stack # <<>> /\ Top.stage \in {"inputs", "presolve"}
  BY DEF Looks, Filling
<1>2. Top \in Frame /\ Fn \in Own /\ IsSkill(skill) /\ cache \in Remembered /\ stack \in Seq(Frame)
  BY <1>1, TopFacts
<1>3. Have \subseteq Inputs
  BY <1>2, FrameTyped, InheritedTyped DEF Have
<1>4. CASE Top.stage = "inputs"
  BY <1>1, <1>2, <1>3, <1>4 DEF Callee, Whose, Fn
<1>5. CASE Top.stage = "presolve"
  <2>1. Callee \in Own /\ Top.at <= Len(Calls(Fn, "onSuccess"))
    BY <1>5 DEF Looks, Filling, Presolved
  <2>2. PICK S, c : S = Call /\ c = Calls(Fn, "onSuccess")
    OBVIOUS
  <2>3. c \in Seq(S)
    BY <1>2, <2>2, SkillTyped DEF Lists
  <2>4. Top.at \in DOMAIN c
    BY <1>2, <2>1, <2>2, <2>3, FrameTyped
  <2>5. Callee = c[Top.at].to
    BY <1>5, <2>2 DEF Callee, Whose, Fn
  <2>6. Callee \in Callees(Fn, "onSuccess")
    BY <2>2, <2>4, <2>5 DEF Callees
  <2> QED
    BY <1>1, <1>3, <1>5, <2>1, <2>6
<1> QED
  BY <1>1, <1>4, <1>5

LEMMA FillKeeps ==
  ASSUME Inv, Fill
  PROVE  Inv'
<1>1. Looks
  BY DEF Fill
<1>2. /\ stack # <<>> /\ Top.stage \in {"inputs", "presolve"} /\ Callee \in Own
      /\ Callee # Fn => Top.stage = "presolve" /\ Callee \in Callees(Fn, "onSuccess")
  BY <1>1, LooksFacts
<1>3. Top \in Frame /\ Fn \in Own /\ IsSkill(skill) /\ cache \in Remembered /\ stack \in Seq(Frame)
  BY <1>2, TopFacts
<1>4. Whose(Top) \in Own
  BY <1>2 DEF Callee
<1>5. PICK n \in Wanted(Top) :
        \/ Quiet /\ With([Top EXCEPT !.sub = @ + 1])
        \/ n.origin = "function" /\ n.from \in Own /\ CallOwn(n.from, Inherited(n.from)) /\ UNCHANGED cache
        \/ Quiet /\ With(Found(Top))
        \/ Quiet /\ With(NotFound(Top, "error"))
  BY DEF Fill
<1>6. Quiet => Effects
  BY QuietEffects DEF Quiet, Rest, Inv, TypeOK
<1>7. CASE Quiet /\ With([Top EXCEPT !.sub = @ + 1])
  <2>1. PICK t, p : t = Top /\ p = [t EXCEPT !.sub = @ + 1]
    OBVIOUS
  <2>2. Later(p, Top) /\ p.stage = Top.stage /\ p.due \subseteq Top.due /\ p.after = Top.after
    BY <1>3, <2>1, SubFrame
  <2> QED
    BY <1>2, <1>6, <1>7, <2>1, <2>2, StaysOrMoves
<1>8. CASE Quiet /\ With(Found(Top))
  <2>1. PICK p : p = Found(Top)
    OBVIOUS
  <2>2. Later(p, Top) /\ p.stage = Top.stage /\ p.due \subseteq Top.due /\ p.after = Top.after
    BY <1>3, <1>4, <2>1, FoundFrame
  <2> QED
    BY <1>2, <1>6, <1>8, <2>1, <2>2, StaysOrMoves
<1>9. CASE Quiet /\ With(NotFound(Top, "error"))
  <2>1. PICK t, p : t = Top /\ p = NotFound(t, "error")
    OBVIOUS
  <2>2. /\ Later(p, t)
        /\ \/ p.stage = t.stage /\ p.due \subseteq t.due /\ p.after = t.after
           \/ t.stage = "inputs" /\ p.stage \in {"onMissing", "unfilled"}
    BY <1>2, <1>3, <2>1, NotFoundFrame
  <2>3. t.stage \notin BeforeNeeds
    BY <1>2, <2>1 DEF BeforeNeeds
  <2> QED
    BY <1>2, <1>6, <1>9, <2>1, <2>2, <2>3, StaysOrMoves
<1>10. CASE /\ n.origin = "function" /\ n.from \in Own
            /\ CallOwn(n.from, Inherited(n.from)) /\ UNCHANGED cache
  <2>1. PICK g : g = n.from
    OBVIOUS
  <2>2. g \in Own /\ g \in Names /\ Inherited(g) \in SUBSET Inputs
    BY <1>3, <1>10, <2>1, SkillTyped, InheritedTyped
  <2>3. n \in InputsOf(Callee)
    BY <1>3, <1>4, <1>5, WantedTyped DEF Callee
  <2>4. g \in Sources(Callee)
    BY <1>10, <2>1, <2>3 DEF Sources
  <2>5. g \in Reach(Checked, Callee)
    BY <1>2, <1>3, <2>2, <2>4, CheckedEdge
  <2>6. g \in Reach(Checked, Fn)
    <3>1. CASE Callee = Fn
      BY <2>5, <3>1
    <3>2. CASE Callee # Fn
      <4>1. Callee \in Reach(Checked, Fn)
        BY <1>2, <1>3, <3>2, CheckedEdge, SkillTyped
      <4> QED
        BY <2>5, <4>1, ReachIsTransitive
    <3> QED
      BY <3>1, <3>2
  <2>7. Waits(Top, g)
    BY <1>2, <1>4, <2>6 DEF Waits, Followed, Lists, Fn
  <2> QED
    BY <1>2, <1>3, <1>10, <2>1, <2>2, <2>7, CallsOwn
<1> QED
  BY <1>5, <1>7, <1>8, <1>9, <1>10

LEMMA FilledKeeps ==
  ASSUME Inv, Filled
  PROVE  Inv'
<1>1. /\ stack # <<>> /\ Top.stage = "inputs" /\ cache' = Remember(cache, Fn, Have)
      /\ UNCHANGED <<rows, short, coming>> /\ Rest
      /\ Fire([Top EXCEPT !.filled = Have], "beforeExecution", "presolve")
  BY DEF Filled, At
<1>2. Top \in Frame /\ Fn \in Own /\ IsSkill(skill) /\ cache \in Remembered /\ stack \in Seq(Frame)
  BY <1>1, TopFacts
<1>3. Have \in SUBSET Inputs
  <2>1. Top.part \subseteq Inputs /\ Top.given \subseteq Inputs
    BY <1>2, FrameTyped
  <2> QED
    BY <1>1, <2>1 DEF Have
<1>4. cache' \in Remembered
  BY <1>1, <1>2, <1>3, RemembersMore
<1>5. Effects /\ UNCHANGED hooks
  BY <1>1, <1>4, QuietEffects DEF Rest, Inv, TypeOK
<1>6. Later([Top EXCEPT !.filled = Have], Top)
  BY <1>2, <1>3, FilledFrame
<1>7. "presolve" \in AfterHooks /\ Top.stage \notin BeforeNeeds
  BY <1>1 DEF AfterHooks, BeforeNeeds
<1> QED
  BY <1>1, <1>5, <1>6, <1>7, Fires

LEMMA FilledEarlyKeeps ==
  ASSUME Inv, FilledEarly
  PROVE  Inv'
<1>1. PICK q, have : q = NextCallee(Top) /\ have = Have
  OBVIOUS
<1>2. /\ stack # <<>> /\ UNCHANGED <<rows, short, coming>> /\ Rest /\ Looks
      /\ With([q EXCEPT !.local = Remember(@, Callee, have)])
      /\ cache' \in {cache, Remember(cache, Callee, have)}
  BY <1>1 DEF FilledEarly, At
<1>3. Top \in Frame /\ cache \in Remembered
  BY <1>2, TopFacts
<1>4. Callee \in Own /\ have \in SUBSET Inputs
  BY <1>1, <1>2, LooksFacts
<1>5. Later(q, Top) /\ q.stage = Top.stage /\ q.due = Top.due /\ q.after = Top.after
  BY <1>1, <1>3, NextCalleeFrame
<1>6. q \in Frame /\ q.local \in Remembered
  BY <1>5, FrameTyped DEF Later
<1>7. PICK l \in Remembered : l = Remember(q.local, Callee, have)
  BY <1>4, <1>6, RemembersMore
<1>8. PICK p : p = [q EXCEPT !.local = l]
  OBVIOUS
<1>9. Later(p, q) /\ p.stage = q.stage /\ p.due = q.due /\ p.after = q.after
  BY <1>6, <1>8, LocalFrame
<1>10. Later(p, Top) /\ p.stage = Top.stage /\ p.due \subseteq Top.due /\ p.after = Top.after
  BY <1>5, <1>9 DEF Later
<1>11. With(p)
  BY <1>2, <1>7, <1>8
<1>12. cache' \in Remembered
  BY <1>2, <1>3, <1>4, RemembersMore
<1>13. Effects
  BY <1>2, <1>12, QuietEffects DEF Rest, Inv, TypeOK
<1> QED
  BY <1>2, <1>10, <1>11, <1>13, StaysOrMoves

LEMMA NotEarlyKeeps ==
  ASSUME Inv, NotEarly
  PROVE  Inv'
<1>1. stack # <<>> /\ Quiet /\ With(NextCallee(Top))
  BY DEF NotEarly, At
<1>2. PICK p : p = NextCallee(Top)
  OBVIOUS
<1>3. Later(p, Top) /\ p.stage = Top.stage /\ p.due \subseteq Top.due /\ p.after = Top.after
  BY <1>1, <1>2, TopFacts, NextCalleeFrame
<1>4. Effects
  BY <1>1, QuietEffects DEF Quiet, Rest, Inv, TypeOK
<1> QED
  BY <1>1, <1>2, <1>3, <1>4, StaysOrMoves

\* The rules, and the way to them and back from a rerun.
LEMMA RulesKeep ==
  ASSUME Inv, Ready \/ Rules
  PROVE  Inv'
<1>1. /\ stack # <<>> /\ Quiet /\ Top.stage \in {"presolve", "rules"}
      /\ \E s \in {"rules", "operate", "onApproval", "onConfirm"} : Goto(s)
  BY DEF Ready, Rules, At
<1>2. {"rules", "operate", "onApproval", "onConfirm"} \subseteq Stages \ {"hooks", "ask"}
  BY DEF Stages, Lists
<1>3. Top.stage \notin BeforeNeeds
  BY <1>1 DEF BeforeNeeds
<1> QED
  BY <1>1, <1>2, <1>3, QuietlyOn

\* A function the operation asks for.
LEMMA AsksFor ==
  ASSUME Inv, stack # <<>>, Top.stage \in {"operate", "rerun"}, NEW g \in Own, CallOwn(g, Inherited(g)),
         cache' \in Remembered
  PROVE  Inv'
<1>1. Top \in Frame /\ cache \in Remembered /\ stack \in Seq(Frame)
  BY TopFacts
<1>2. Waits(Top, g)
  BY DEF Waits, Followed, Unchecked, Lists
<1>3. Inherited(g) \in SUBSET Inputs
  BY <1>1, InheritedTyped
<1> QED
  BY <1>2, <1>3, CallsOwn

LEMMA PollKeeps ==
  ASSUME Inv, Poll
  PROVE  Inv'
<1>1. stack # <<>> /\ Top.stage = "operate"
  BY DEF Poll, At
<1>2. Fn \in Own /\ IsSkill(skill) /\ Top \in Frame /\ stack \in Seq(Frame) /\ cache \in Remembered
  BY <1>1, TopFacts
<1>3. PICK g \in (Fns[Fn].waitFor \cup Fns[Fn].shouldSkip) \ System :
        IF g \in Own THEN CallOwn(g, Inherited(g)) /\ UNCHANGED cache
        ELSE /\ rows' \in {rows, Recorded(g, "complete"), Recorded(g, "failed")}
             /\ UNCHANGED <<stack, cache, short, coming>> /\ Rest
  BY DEF Poll
<1>4. CASE g \in Own
  BY <1>1, <1>2, <1>3, <1>4, AsksFor
<1>5. CASE g \notin Own
  <2>1. Fns[Fn] \in Function
    BY <1>2, SkillTyped
  <2>2. g \in Names
    BY <1>3, <2>1 DEF Function
  <2>3. UNCHANGED <<stack, cache, short, coming>> /\ Rest
    BY <1>3, <1>5
  <2>4. Effects
    <3>1. CASE UNCHANGED rows
      BY <2>3, <3>1, QuietEffects DEF Rest, Inv, TypeOK
    <3>2. CASE \E s \in {"complete", "failed"} : rows' = Recorded(g, s)
      BY <1>5, <2>2, <2>3, <3>2, RecordEffects DEF Rest, Inv, TypeOK, Statuses
    <3> QED
      BY <1>3, <1>5, <3>1, <3>2
  <2>5. PICK p, S, s : p = Top /\ S = Frame /\ s = stack
    OBVIOUS
  <2>6. s \in Seq(S) /\ s # <<>>
    BY <1>1, <1>2, <2>5
  <2>7. [s EXCEPT ![Len(s)] = s[Len(s)]] = s
    BY <2>6
  <2>8. With(p)
    BY <2>3, <2>5, <2>7 DEF With, Top, Depth
  <2>9. Later(p, Top) /\ p.stage = Top.stage /\ p.due \subseteq Top.due /\ p.after = Top.after
    BY <1>2, <2>5 DEF Later
  <2> QED
    BY <1>1, <2>4, <2>8, <2>9, StaysOrMoves
<1> QED
  BY <1>4, <1>5

LEMMA OperateKeeps ==
  ASSUME Inv, Operate
  PROVE  Inv'
<1>1. stack # <<>> /\ Top.stage = "operate" /\ UNCHANGED <<cache, short>> /\ Rest
  BY DEF Operate, At
<1>2. Fn \in Own /\ Top.stage \notin BeforeNeeds /\ short \subseteq Own
  BY <1>1, TopFacts DEF BeforeNeeds, Inv, TypeOK
<1>3. CASE Fail /\ UNCHANGED coming
  <2>1. rows' = Recorded(Fn, "failed") /\ Fire(Top, "afterFailure", "onFailure")
    BY <1>3 DEF Fail
  <2>2. Effects /\ UNCHANGED hooks
    BY <1>1, <1>2, <1>3, <2>1, RecordsFn DEF Rest
  <2> QED
    BY <1>1, <1>2, <2>1, <2>2, TopLater, Fires DEF AfterHooks
<1>4. CASE Return("failed", "text") /\ UNCHANGED coming
  BY <1>1, <1>2, <1>4, Returns DEF Statuses
<1>5. CASE /\ Goto("rerun") /\ UNCHANGED rows
           /\ coming' = coming \/ \E w \in Brought(Fn) : coming' = coming \cup {w}
  <2>1. coming' \subseteq Workflow /\ \A w \in coming' \ coming : w \in Brought(Fn)
    BY <1>5 DEF Brought, Inv, TypeOK
  <2>2. Effects
    BY <1>1, <1>2, <1>5, <2>1 DEF Effects, Rest, Inv, TypeOK
  <2>3. "rerun" \in Stages \ {"hooks", "ask"}
    BY DEF Stages
  <2> QED
    BY <1>1, <1>2, <1>5, <2>2, <2>3, GoesTo
<1> QED
  BY <1>3, <1>4, <1>5 DEF Operate

LEMMA AskToRerunKeeps ==
  ASSUME Inv, AskToRerun
  PROVE  Inv'
<1>1. PICK g : g = Fns[Fn].rerun
  OBVIOUS
<1>2. /\ stack # <<>> /\ Top.stage = "rerun" /\ g \in Own /\ CallOwn(g, Inherited(g))
      /\ cache' = Remember(cache, g, {})
  BY <1>1 DEF AskToRerun, At
<1>3. cache' \in Remembered
  BY <1>2, RemembersMore DEF Inv, TypeOK
<1> QED
  BY <1>2, <1>3, AsksFor

LEMMA RerunKeeps ==
  ASSUME Inv, Rerun
  PROVE  Inv'
<1>1. PICK q : q = Staged(Top, "operate")
  OBVIOUS
<1>2. PICK filled : filled = q.filled \cup Fns[Fn].rerunParams
  OBVIOUS
<1>3. PICK p : p = [q EXCEPT !.filled = filled]
  OBVIOUS
<1>4. stack # <<>> /\ Top.stage = "rerun" /\ Quiet /\ With(p)
  BY <1>1, <1>2, <1>3 DEF Rerun, At
<1>5. Top \in Frame /\ Fn \in Own /\ IsSkill(skill)
  BY <1>4, TopFacts
<1>6. Later(q, Top) /\ q.stage = "operate"
  BY <1>1, <1>5, StagedFrame DEF Stages
<1>7. filled \in SUBSET Inputs
  <2>1. Fns[Fn] \in Function
    BY <1>5, SkillTyped
  <2>2. Fns[Fn].rerunParams \subseteq Inputs
    BY <2>1 DEF Function
  <2> QED
    BY <1>2, <1>6, <2>2, FrameTyped DEF Later
<1>8. Later(p, Top) /\ p.stage = "operate"
  BY <1>3, <1>6, <1>7, FilledFrame DEF Later
<1>9. p.stage \notin {"hooks", "ask"} /\ Top.stage \notin BeforeNeeds
  BY <1>4, <1>8 DEF BeforeNeeds
<1>10. Effects
  BY <1>4, QuietEffects DEF Quiet, Rest, Inv, TypeOK
<1> QED
  BY <1>4, <1>8, <1>9, <1>10, StaysOrMoves

LEMMA SucceedKeeps ==
  ASSUME Inv, Succeed
  PROVE  Inv'
<1>1. stack # <<>> /\ Top.stage = "rerun" /\ Quiet /\ Fire(Top, "afterSuccess", "succeeded")
  BY DEF Succeed, At
<1>2. Effects /\ UNCHANGED hooks
  BY <1>1, QuietEffects DEF Quiet, Rest, Inv, TypeOK
<1>3. "succeeded" \in AfterHooks /\ Top.stage \notin BeforeNeeds
  BY <1>1 DEF AfterHooks, BeforeNeeds
<1> QED
  BY <1>1, <1>2, <1>3, TopLater, Fires

LEMMA ChainKeeps ==
  ASSUME Inv, Chain
  PROVE  Inv'
<1>1. /\ stack # <<>> /\ Top.stage = "succeeded" /\ Goto("onSuccess")
      /\ rows' \in {rows, Recorded(Fn, "complete")} /\ UNCHANGED <<cache, short, coming>> /\ Rest
  BY DEF Chain, At
<1>2. "onSuccess" \in Stages \ {"hooks", "ask"} /\ Top.stage \notin BeforeNeeds
  BY <1>1 DEF Stages, Lists, BeforeNeeds
<1>3. Effects
  BY <1>1, <1>2, RecordsFn
<1> QED
  BY <1>1, <1>2, <1>3, GoesTo

-----------------------------------------------------------------------------
(* Steps with no call running.                                             *)

LEMMA ParseKeeps ==
  ASSUME Inv, Parse
  PROVE  Inv'
<1>1. /\ verdict = "none" /\ verdict' = IF Accepted THEN "accepted" ELSE "refused"
      /\ UNCHANGED <<skill, stack, rows, cache, flow, coming, asked, hooks, short>>
  BY DEF Parse
<1>2. stack = <<>> /\ coming = {}
  BY <1>1 DEF Inv, AcceptedInv
<1>3. IsSkill(skill) /\ UNCHANGED Frame /\ UNCHANGED Remembered /\ UNCHANGED Own
  BY <1>1, SkillStays DEF Inv, TypeOK
<1>4. TypeOK'
  BY <1>1, <1>3 DEF Inv, TypeOK
<1>5. StackInv'
  BY <1>1, <1>2 DEF StackInv
<1>6. RowsInv'
  BY <1>1, <1>3, SkillStays DEF RowsInv, NeedsRecorded, Inv
<1>7. AcceptedInv'
  <2>1. \A w \in coming \cup ({flow} \ {None}) : Fits(w)'
    BY <1>1, FitsStays DEF Inv, AcceptedInv
  <2>2. verdict' = "accepted" => Sound'
    BY <1>1, <1>3, AcceptedIsSound, SoundStays
  <2> QED
    BY <1>1, <1>2, <2>1, <2>2 DEF AcceptedInv
<1> QED
  BY <1>4, <1>5, <1>6, <1>7 DEF Inv

LEMMA AskKeeps ==
  ASSUME Inv, Ask
  PROVE  Inv'
<1>1. /\ verdict = "accepted" /\ stack = <<>> /\ asked < MaxCalls /\ asked' = asked + 1
      /\ UNCHANGED <<skill, verdict, rows, cache, flow, coming, hooks, short>>
  BY DEF Ask
<1>2. PICK g \in Own : stack' = <<NewFrame(g, {}, 0)>>
  BY DEF Ask, Triggered, Offered
<1>3. IsSkill(skill) /\ UNCHANGED Frame /\ UNCHANGED Remembered /\ UNCHANGED Own
  BY <1>1, SkillStays DEF Inv, TypeOK
<1>4. PICK f : f = NewFrame(g, {}, 0)
  OBVIOUS
<1>5. f \in Frame /\ f.stage = "enter" /\ f.depth = 0
  BY <1>4, NewFrameTyped
<1>6. stack' = <<f>> /\ stack' \in Seq(Frame) /\ Len(stack') = 1 /\ DOMAIN stack' = {1} /\ stack'[1] = f
  BY <1>2, <1>4, <1>5
<1>7. TypeOK'
  <2>1. asked' \in 0..MaxCalls /\ 1 <= MaxDepth
    BY <1>1, BoundsAssumption DEF Inv, TypeOK
  <2> QED
    BY <1>1, <1>3, <1>6, <2>1 DEF Inv, TypeOK
<1>8. StackInv'
  <2>1. FrameInv(f)'
    BY <1>5 DEF FrameInv, BeforeNeeds
  <2>2. InvAt(1)' /\ stack'[1].depth <= 1 - 1
    BY <1>5, <1>6, <2>1 DEF InvAt
  <2> QED
    BY <1>6, <2>2 DEF StackInv
<1>9. RowsInv'
  BY <1>1, <1>3, SkillStays DEF RowsInv, NeedsRecorded, Inv
<1>10. AcceptedInv'
  <2>1. \A w \in coming \cup ({flow} \ {None}) : Fits(w)'
    BY <1>1, FitsStays DEF Inv, AcceptedInv
  <2> QED
    BY <1>1, <2>1, SoundStays DEF Inv, AcceptedInv
<1> QED
  BY <1>7, <1>8, <1>9, <1>10 DEF Inv

LEMMA StartFlowKeeps ==
  ASSUME Inv, StartFlow
  PROVE  Inv'
<1>1. /\ stack = <<>> /\ rows' = NoRows /\ cache' = Empty /\ asked' = 0 /\ short' = {}
      /\ UNCHANGED <<skill, verdict, stack, hooks>>
  BY DEF StartFlow
<1>2. PICK w \in coming : flow' = w /\ coming' = coming \ {w}
  BY DEF StartFlow
<1>3. IsSkill(skill) /\ UNCHANGED Frame /\ UNCHANGED Remembered /\ UNCHANGED Own
  BY <1>1, SkillStays DEF Inv, TypeOK
<1>4. NoRows \in [Names -> Statuses] /\ Empty \in Remembered /\ 0 \in 0..MaxCalls
  <2>1. Empty \in [{} -> SUBSET Inputs]
    BY DEF Empty
  <2>2. 0 \in 0..MaxCalls
    BY BoundsAssumption
  <2> QED
    BY <2>1, <2>2, RememberedTyped DEF NoRows, Statuses
<1>5. TypeOK'
  BY <1>1, <1>2, <1>3, <1>4 DEF Inv, TypeOK
<1>6. StackInv'
  BY <1>1 DEF StackInv
<1>7. RowsInv'
  BY <1>1, <1>3, SkillTyped DEF RowsInv, NoRows
<1>8. AcceptedInv'
  <2>1. \A v \in coming' \cup {flow'} : Fits(v)
    BY <1>2 DEF Inv, AcceptedInv
  <2>2. \A v \in coming' \cup {flow'} : Fits(v)'
    BY <1>1, <2>1, FitsStays
  <2>3. verdict' = "accepted" => Sound'
    BY <1>1, SoundStays DEF Inv, AcceptedInv
  <2> QED
    BY <1>1, <1>2, <2>2, <2>3 DEF Inv, AcceptedInv
<1> QED
  BY <1>5, <1>6, <1>7, <1>8 DEF Inv

LEMMA InitInv == Init => Inv
<1> SUFFICES ASSUME Init
             PROVE  Inv
  OBVIOUS
<1>1. /\ IsSkill(skill) /\ verdict = "none" /\ stack = <<>> /\ rows = NoRows /\ cache = Empty
      /\ flow = None /\ coming = {} /\ asked = 0 /\ hooks = {} /\ short = {}
  BY SkillsAssumption DEF Init
<1>2. TypeOK
  <2>1. Empty \in [{} -> SUBSET Inputs]
    BY DEF Empty
  <2>2. Empty \in Remembered /\ NoRows \in [Names -> Statuses]
    BY <2>1, RememberedTyped DEF NoRows, Statuses
  <2>3. 0 \in 0..MaxCalls /\ 0 <= MaxDepth
    BY BoundsAssumption
  <2> QED
    BY <1>1, <2>2, <2>3 DEF TypeOK
<1>3. StackInv
  BY <1>1 DEF StackInv
<1>4. RowsInv
  BY <1>1, SkillTyped DEF RowsInv, NoRows
<1> QED
  BY <1>1, <1>2, <1>3, <1>4 DEF Inv, AcceptedInv

LEMMA StutterKeeps ==
  ASSUME Inv, UNCHANGED vars
  PROVE  Inv'
<1>1. /\ UNCHANGED skill /\ UNCHANGED verdict /\ UNCHANGED stack /\ UNCHANGED rows /\ UNCHANGED cache
      /\ UNCHANGED flow /\ UNCHANGED coming /\ UNCHANGED asked /\ UNCHANGED hooks /\ UNCHANGED short
  BY DEF vars
<1>2. UNCHANGED Frame /\ UNCHANGED Remembered /\ UNCHANGED Own /\ IsSkill(skill) /\ Grow
  BY <1>1, SkillStays DEF Inv, TypeOK, Grow
<1>3. TypeOK'
  BY <1>1, <1>2 DEF Inv, TypeOK
<1>4. StackInv'
  <2>1. PICK S, s : S = Frame /\ s = stack
    OBVIOUS
  <2>2. s \in Seq(S) /\ Len(s) \in Nat /\ DOMAIN s = 1..Len(s)
    BY <2>1 DEF Inv, TypeOK
  <2>3. CASE s = <<>>
    BY <1>1, <2>1, <2>3 DEF StackInv
  <2>4. CASE s # <<>>
    <3>1. PICK p : p = s[Len(s)]
      OBVIOUS
    <3>2. [s EXCEPT ![Len(s)] = p] = s /\ Len(s) \in DOMAIN s
      BY <2>2, <2>4, <3>1
    <3>3. With(p) /\ p = Top
      BY <1>1, <2>1, <3>1, <3>2 DEF With, Top, Depth
    <3>4. p \in Frame /\ FrameInv(p) /\ Later(p, Top)
      BY <2>1, <2>4, <3>3, TopInv DEF Later
    <3>5. FrameInv(p)'
      BY <1>2, <3>4, FrameInvStays
    <3> QED
      BY <1>2, <2>1, <2>4, <3>3, <3>4, <3>5, TopGoesOn DEF Inv, TypeOK
  <2> QED
    BY <2>3, <2>4
<1>5. RowsInv'
  BY <1>1, <1>2, SkillStays DEF RowsInv, NeedsRecorded, Inv
<1>6. AcceptedInv'
  <2>1. \A w \in coming \cup ({flow} \ {None}) : Fits(w)'
    BY <1>1, FitsStays DEF Inv, AcceptedInv
  <2> QED
    BY <1>1, <2>1, SoundStays DEF Inv, AcceptedInv
<1> QED
  BY <1>3, <1>4, <1>5, <1>6 DEF Inv

LEMMA NextInv == Inv /\ [Next]_vars => Inv'
<1> SUFFICES ASSUME Inv, [Next]_vars
             PROVE  Inv'
  OBVIOUS
<1>1. CASE UNCHANGED vars
  BY <1>1, StutterKeeps
<1>2. CASE Parse \/ Ask \/ StartFlow \/ Idle
  BY <1>2, ParseKeeps, AskKeeps, StartFlowKeeps, StutterKeeps DEF Idle
<1>3. CASE Begin \/ TurnAway \/ Cached \/ Condition
  BY <1>3, BeginKeeps, EndsAtOnce, ConditionKeeps
<1>4. CASE Skip \/ NoMoreItems \/ Reuse \/ CallNext
  BY <1>4, SkipKeeps, NoMoreItemsKeeps, ReuseKeeps, CallNextKeeps
<1>5. CASE NeedsMet \/ CallbacksDone \/ Done \/ Skipped \/ Asked \/ Broken \/ Stopped
  BY <1>5, NeedsMetKeeps, CallbacksDoneKeeps, EndsKeep, BrokenKeeps, StoppedKeeps
<1>6. CASE RunHook \/ HooksDone
  BY <1>6, RunHookKeeps, HooksDoneKeeps
<1>7. CASE Fill \/ Filled \/ FilledEarly \/ NotEarly \/ Ready
  BY <1>7, FillKeeps, FilledKeeps, FilledEarlyKeeps, NotEarlyKeeps, RulesKeep
<1>8. CASE Rules \/ Poll \/ Operate \/ AskToRerun \/ Rerun \/ Succeed \/ Chain
  BY <1>8, RulesKeep, PollKeeps, OperateKeeps, AskToRerunKeeps, RerunKeeps, SucceedKeeps, ChainKeeps
<1> QED
  BY <1>1, <1>2, <1>3, <1>4, <1>5, <1>6, <1>7, <1>8 DEF Next

LEMMA Invariant == Spec => []Inv
<1>1. Init => Inv
  BY InitInv
<1>2. Inv /\ [Next]_vars => Inv'
  BY NextInv
<1> QED
  BY <1>1, <1>2, PTL DEF Spec

-----------------------------------------------------------------------------
(* The theorems.                                                           *)

\* The calls, what is remembered of them and the workflows stay of their types.
THEOREM TypeCorrect == Spec => []TypeOK
<1>1. Inv => TypeOK
  BY DEF Inv
<1> QED
  BY <1>1, Invariant, PTL

\* checkFunctionDependencyCycles refuses the skills in which a function could
\* call itself again over the lists and inputs it follows.
THEOREM NoNestedCalls == Spec => []NoNesting
<1>1. Inv => NoNesting
  <2> SUFFICES ASSUME Inv, NEW i \in DOMAIN stack, NEW j \in DOMAIN stack, i < j, stack[i].fn = stack[j].fn
               PROVE  \E k \in i..(j - 1) : stack[k].stage \in Unchecked
    BY DEF NoNesting
  <2>1. Path(i, j)
    BY DEF Inv, StackInv
  <2>2. PICK q : q = stack[i]
    OBVIOUS
  <2>3. q \in Frame /\ q.fn \in Own
    BY <2>2, FrameFacts, FrameTyped
  <2>4. NoCycle
    BY DEF Inv, AcceptedInv, Sound
  <2> QED
    BY <2>1, <2>2, <2>3, <2>4 DEF Path, NoCycle
<1> QED
  BY <1>1, Invariant, PTL

\* validateRunOnlyIf lets a condition refer to what the function needs,
\* directly or not.  All of that has been called when CheckNeeds finds that the
\* needs have: by induction along the needs, whose functions have records.
THEOREM ConditionAnswered == Spec => []RefsAnswered
<1>1. Inv => RefsAnswered
  <2> SUFFICES ASSUME Inv, At("ask"), NEW g \in Fns[Fn].onlyIf \cap (Own \cup Shared)
               PROVE  rows[g] # "none" \/ \E h \in short \cap DepsOf(Fn) : g \in DepsOf(h)
    BY DEF RefsAnswered
  <2>1. PICK a : a = Fn
    OBVIOUS
  <2>2. stack # <<>> /\ Top.stage = "ask"
    BY DEF At
  <2>3. a \in Own /\ IsSkill(skill) /\ Sound
    BY <2>1, <2>2, TopFacts
  <2>4. Own \subseteq Names \ System
    BY <2>3, SkillTyped
  <2>5. NeedsRecorded(a)
    <3>1. PICK t : t = Top
      OBVIOUS
    <3>2. FrameInv(t) /\ t.fn = a
      BY <2>1, <2>2, <3>1, TopInv DEF Fn
    <3> QED
      BY <2>2, <3>1, <3>2 DEF FrameInv
  <2> DEFINE within(f) == Reach(Deps, f)
             answered == {b \in within(a) : \/ rows[b] # "none"
                                            \/ \E h \in short \cap within(a) : b \in within(h)}
  <2>6. within(a) \subseteq answered
    <3>1. answered \in SUBSET Names
      BY DEF Reach
    <3>2. ASSUME NEW f \in answered \cup {a}, NEW b, <<f, b>> \in Deps
          PROVE  b \in answered
      <4>1. f \in Own /\ b \in Callees(f, "needs")
        BY <3>2 DEF Deps, Edges
      <4>2. b \in Names
        BY <4>1, <2>3, CallTyped DEF Callees, Lists
      <4>3. b \in within(f)
        BY <3>2, <4>2, ReachesEnds
      <4>4. b \in within(a)
        <5>1. CASE f = a
          BY <4>3, <5>1
        <5>2. CASE f # a
          BY <3>2, <4>3, <5>2, ReachIsTransitive
        <5> QED
          BY <5>1, <5>2
      <4>5. CASE f = a
        BY <2>5, <4>1, <4>4, <4>5 DEF NeedsRecorded
      <4>6. CASE f # a /\ rows[f] # "none"
        <5>1. f \in short \/ NeedsRecorded(f)
          BY <4>1, <4>6 DEF Inv, RowsInv
        <5> QED
          BY <3>2, <4>1, <4>3, <4>4, <4>6, <5>1 DEF NeedsRecorded
      <4>7. CASE f # a /\ \E h \in short \cap within(a) : f \in within(h)
        BY <4>3, <4>4, <4>7, ReachIsTransitive
      <4> QED
        BY <3>2, <4>5, <4>6, <4>7
    <3>3. \A e \in Deps : \E f, b : e = <<f, b>>
      BY DEF Deps, Edges
    <3>4. \A e \in Deps : e[1] \in answered \cup {a} => e[2] \in answered
      BY <3>2, <3>3
    <3> QED
      BY <3>1, <3>4, ReachStaysIn
  <2>7. g \in DepsOf(a) /\ g \notin System
    BY <2>1, <2>3, <2>4, NamesAssumption DEF Sound
  <2>8. CASE g \in Callees(a, "needs")
    BY <2>5, <2>8 DEF NeedsRecorded
  <2>9. CASE g \in within(a) \cap Own
    <3>1. short \subseteq Own
      BY DEF Inv, TypeOK
    <3>2. CASE \E h \in short \cap within(a) : g \in within(h)
      BY <2>1, <2>9, <3>1, <3>2 DEF DepsOf
    <3> QED
      BY <2>6, <2>9, <3>2
  <2> QED
    BY <2>7, <2>8, <2>9 DEF DepsOf
<1> QED
  BY <1>1, Invariant, PTL

\* validateFunctionCallParams admits in the params of an onSuccess function the
\* sources that the call can resolve then, but for the ones named here.
THEOREM ParamsAreResolved == Spec => []ParamsResolve
<1>1. Inv => ParamsResolve
  <2> SUFFICES ASSUME Inv, At("onSuccess"), InList, This.to \in Own \ Shared,
                      NEW r \in Range(This.params) \ Known(Top)
               PROVE  \/ r \in Callees(Fn, "needs") \/ r \in InputNames(Fn)
                      \/ \E j \in 1..(Top.at - 1) : Calls(Fn, "onSuccess")[j].to = r
    BY DEF ParamsResolve
  <2>1. stack # <<>> /\ Top.stage = "onSuccess" /\ Top.at \in DOMAIN Calls(Fn, "onSuccess")
    BY ThisFacts DEF At
  <2>2. Fn \in Own /\ Sound
    BY <2>1, TopFacts
  <2>3. This = Calls(Fn, "onSuccess")[Top.at]
    BY <2>1 DEF This
  <2>4. DOMAIN This.params # {}
    BY DEF Range
  <2>5. r \in OwnSources(Fn) \cup {Calls(Fn, "onSuccess")[j].to : j \in 1..(Top.at - 1)}
              \cup (IF This.each THEN {"item"} ELSE {})
    BY <2>1, <2>2, <2>3, <2>4 DEF Sound
  <2>6. {"env", "result"} \subseteq Known(Top)
    BY <2>1 DEF Known, Special
  <2>7. This.each => "item" \in Known(Top)
    BY <2>1, <2>3 DEF Known, Loops, Fn
  <2> QED
    BY <2>5, <2>6, <2>7 DEF OwnSources
<1> QED
  BY <1>1, Invariant, PTL

\* validateContextParamsFunctionReferences lets a workflow give inputs only to
\* functions that the agent is offered for its message.
THEOREM GivenAreOffered == Spec => []GivenOffered
<1>1. Inv => GivenOffered
  BY DEF Inv, AcceptedInv, Fits, GivenOffered
<1> QED
  BY <1>1, Invariant, PTL

\* The functions of the tool that the hooks the parser scans are for, or call.
Ends == {h.of : h \in Scanned} \cup {h.then : h \in Scanned}
Hooking == Own \cap Ends

LEMMA Crowded ==
  ASSUME NEW n \in Nat, NEW T, IsFiniteSet(T), Cardinality(T) < n, NEW f \in [1..n -> T]
  PROVE  \E i, j \in 1..n : i # j /\ f[i] = f[j]
<1>1. IsFiniteSet(1..n) /\ Cardinality(1..n) = n
  BY FS_Interval
<1> QED
  BY <1>1, FS_PigeonHole

LEMMA ScannedTyped ==
  ASSUME IsSkill(skill)
  PROVE  Scanned \subseteq Hook
<1>1. ASSUME NEW f \in Own, NEW l \in Lists, NEW c \in ToSet(Calls(f, l))
      PROVE  c.hook \in Hook \cup {None}
  <2>1. PICK i \in DOMAIN Calls(f, l) : c = Calls(f, l)[i]
    BY DEF ToSet
  <2> QED
    BY <2>1, CallTyped
<1>2. {"needs", "onSuccess", "onFailure"} \subseteq Lists
  BY DEF Lists
<1> QED
  BY <1>1, <1>2 DEF Scanned, StaticHooks

\* A chain of hooks as long as the limit, through functions no more than that,
\* comes back to one of them, which is a cycle the parser warned of.
THEOREM LimitWarned ==
  Spec => [](IsFiniteSet(Hooking) /\ Cardinality(Hooking) <= MaxHookDepth => HooksWarned)
<1>1. Inv /\ IsFiniteSet(Hooking) /\ Cardinality(Hooking) <= MaxHookDepth => HooksWarned
  <2> SUFFICES ASSUME Inv, IsFiniteSet(Hooking), Cardinality(Hooking) <= MaxHookDepth,
                      At("hooks"), Top.depth >= MaxHookDepth,
                      hooks \subseteq Scanned, \A k \in 1..(Depth - 1) : stack[k].stage = "hooks"
               PROVE  HookWarning
    BY DEF HooksWarned, Scanned
  <2>1. PICK S, s, n : S = Frame /\ s = stack /\ n = Len(s)
    OBVIOUS
  <2>2. s \in Seq(S) /\ s # <<>> /\ n \in Nat \ {0} /\ n = Depth
    BY <2>1 DEF At, Inv, TypeOK, Depth
  <2>3. n > MaxHookDepth /\ MaxHookDepth \in Nat \ {0}
    BY <2>2, TopFacts, BoundsAssumption DEF At
  <2>4. \A i, j \in 1..n : i < j => s[j].fn \in Reach(Hooked(Scanned), s[i].fn)
    <3> SUFFICES ASSUME NEW i \in 1..n, NEW j \in 1..n, i < j
                 PROVE  s[j].fn \in Reach(Hooked(Scanned), s[i].fn)
      OBVIOUS
    <3>1. HookPath(i, j)
      <4>1. i \in DOMAIN s /\ j \in DOMAIN s
        <5>1. DOMAIN s = 1..Len(s)
          BY <2>2
        <5> QED
          BY <2>1, <5>1
      <4> QED
        BY <2>1, <4>1 DEF Inv, StackInv
    <3>2. \A k \in i..(j - 1) : k \in 1..(n - 1)
      BY <2>2
    <3>3. s[j].fn \in Reach(Hooked(hooks), s[i].fn)
      BY <2>1, <2>2, <3>1, <3>2 DEF HookPath
    <3>4. Hooked(hooks) \subseteq Hooked(Scanned)
      BY DEF Hooked
    <3> QED
      BY <3>3, <3>4, ReachGrows
  <2>5. ASSUME NEW i \in 1..n
        PROVE  s[i].fn \in Hooking
    <3>1. ASSUME NEW f, NEW g \in Reach(Hooked(Scanned), f)
          PROVE  f \in Ends /\ g \in Ends
      <4>1. g \in Names /\ \A C \in SUBSET Names :
                (\A e \in Hooked(Scanned) : e[1] \in C \cup {f} => e[2] \in C) => g \in C
        BY <3>1 DEF Reach
      <4>2. \A e \in Hooked(Scanned) : e[1] \in Ends /\ e[2] \in Ends
        BY DEF Hooked, Ends
      <4>3. g \in Ends
        <5>1. \A e \in Hooked(Scanned) : e[1] \in (Ends \cap Names) \cup {f} => e[2] \in Ends \cap Names
          <6>1. \A e \in Hooked(Scanned) : e[2] \in Names
            BY ScannedTyped DEF Inv, TypeOK, Hooked, Hook
          <6> QED
            BY <4>2, <6>1
        <5> QED
          BY <4>1, <5>1
      <4>4. f \in Ends
        <5>1. CASE \E e \in Hooked(Scanned) : e[1] = f
          BY <4>2, <5>1
        <5>2. CASE \A e \in Hooked(Scanned) : e[1] # f
          <6>1. \A e \in Hooked(Scanned) : e[1] \in {} \cup {f} => e[2] \in {}
            BY <5>2
          <6>2. g \in {}
            BY <4>1, <6>1
          <6> QED
            BY <6>2
        <5> QED
          BY <5>1, <5>2
      <4> QED
        BY <4>3, <4>4
    <3>2. s[i].fn \in Ends
      <4>1. i = 1 \/ 1 < i
        BY <2>2
      <4>2. 1 \in 1..n /\ 2 \in 1..n /\ 1 < 2
        BY <2>2, <2>3
      <4> QED
        BY <2>4, <3>1, <4>1, <4>2
    <3>3. s[i].fn \in Own
      <4>1. PICK q : q = s[i]
        OBVIOUS
      <4>2. DOMAIN s = 1..Len(s)
        BY <2>2
      <4> QED
        BY <2>1, <4>1, <4>2, FrameFacts, FrameTyped
    <3> QED
      BY <3>2, <3>3 DEF Hooking
  <2>6. \E i, j \in 1..n : i # j /\ s[i].fn = s[j].fn
    <3>1. Cardinality(Hooking) < n
      <4>1. Cardinality(Hooking) \in Nat
        BY FS_CardinalityType
      <4> QED
        BY <2>2, <2>3, <4>1
    <3>2. PICK f : f = [i \in 1..n |-> s[i].fn]
      OBVIOUS
    <3>3. f \in [1..n -> Hooking]
      BY <2>5, <3>2
    <3>4. \E i, j \in 1..n : i # j /\ f[i] = f[j]
      BY <2>2, <3>1, <3>3, Crowded
    <3> QED
      BY <3>2, <3>4
  <2>7. PICK i \in 1..n, j \in 1..n : i < j /\ s[i].fn = s[j].fn
    BY <2>2, <2>6
  <2>8. s[i].fn \in Reach(Hooked(Scanned), s[i].fn) /\ s[i].fn \in Names
    BY <2>4, <2>7 DEF Reach
  <2> QED
    BY <2>8 DEF HookWarning
<1> QED
  BY <1>1, Invariant, PTL
=============================================================================
