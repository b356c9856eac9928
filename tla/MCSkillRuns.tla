----------------------------- MODULE MCSkillRuns -----------------------------
(* Skills of a function A that is triggered and one to three private ones.   *)
EXTENDS SkillRuns

CONSTANTS A, B, C, D, sys, know, util, reg, x, y

MCNames == {A, B, C, D, sys, know, util, reg}
MCInputs == {x, y}

NoLists == [l \in Lists |-> <<>>]
Plain == [private |-> TRUE, triggers |-> {}, inputs |-> <<>>, call |-> NoLists, onlyIf |-> {},
          rerun |-> None, rerunParams |-> {}, waitFor |-> {}, shouldSkip |-> {}, gated |-> FALSE,
          cached |-> FALSE, presolved |-> TRUE, asks |-> {}, operation |-> "plain", starts |-> <<>>]
Public == [Plain EXCEPT !.private = FALSE, !.triggers = {"flexUser"}]

To(g) == [to |-> g, query |-> FALSE, params |-> <<>>, onlyIf |-> {}, each |-> FALSE,
          hook |-> None]
In(n) == [name |-> n, origin |-> "chat", from |-> None, value |-> FALSE, refs |-> {}, onlyIf |-> {},
          optional |-> FALSE, async |-> FALSE, onError |-> None, oneOf |-> None]
From(n, g) == [In(n) EXCEPT !.origin = "function", !.from = g]
App(fns) == [kind |-> "app", fns |-> fns]

\* f also calls g, from a list or for an input.
Adds(fn, l, g) ==
    CASE l = "from" -> [fn EXCEPT !.inputs = <<From(x, g)>>]
      [] l = "waitFor" -> [fn EXCEPT !.waitFor = {g}]
      [] l = "rerun" -> [fn EXCEPT !.rerun = g]
      [] OTHER -> [fn EXCEPT !.call[l] = Append(@, To(g))]

Ways == Lists \cup {"from", "waitFor", "rerun"}
Base == A :> Public @@ B :> Plain @@ C :> Plain

\* A reaches B, B reaches C and one of them calls back.
Rings == {[Base EXCEPT ![A] = Adds(@, p, B), ![B] = Adds(@, q, C), ![C] = Adds(@, r, z)] :
             p \in Ways, q \in {"needs", "onSuccess", "onSkip", "from", "onFailure"},
             r \in {"needs", "onSuccess", "onSkip", "from", "rerun"}, z \in {A, B}}
\* A skipped call is a reason for the calls of onSkip.
Conditional(fns) == [f \in DOMAIN fns |->
    IF fns[f].call["onSkip"] = <<>> THEN fns[f] ELSE [fns[f] EXCEPT !.onlyIf = {"env"}]]
RingSkills == {App(Conditional(r)) : r \in Rings}

\* A passes something on to the two functions of its onSuccess.
Param(g, p, r) == [To(g) EXCEPT !.params = (p :> r)]
Passing ==
    {App(A :> [Public EXCEPT !.inputs = <<[In(x) EXCEPT !.optional = opt]>>,
                             !.call["onSuccess"] = <<[Param(B, x, r1) EXCEPT !.each = each, !.onlyIf = cond],
                                                     Param(C, y, r2)>>]
         @@ B :> [Plain EXCEPT !.inputs = <<In(x), [In(y) EXCEPT !.origin = late, !.optional = TRUE]>>,
                               !.asks = asks]
         @@ C :> [Plain EXCEPT !.inputs = <<[In(y) EXCEPT !.value = TRUE, !.origin = "none"]>>,
                               !.presolved = pre]) :
        r1 \in {x, C, "item"}, r2 \in {"result", B, "item"}, each \in BOOLEAN, cond \in {{}, {"result"}},
        opt \in BOOLEAN, late \in {"chat", "inference"}, asks \in {{}, {"team"}}, pre \in BOOLEAN}

\* runOnlyIf of A refers to what it needs.
Conditions ==
    {App(A :> [Public EXCEPT !.call["needs"] = <<To(B)>> \o more, !.onlyIf = {g}, !.call["onSkip"] = <<To(util)>>,
                             !.call["onFailure"] = onf]
         @@ B :> [Adds(Plain, l, C) EXCEPT !.cached = cached, !.shouldSkip = {util},
                                    !.call["onFailure"] = onf]
         @@ C :> [Plain EXCEPT !.asks = asks, !.inputs = <<From(x, sys)>>]) :
        g \in {B, C}, l \in {"needs", "onSuccess"}, cached \in BOOLEAN, onf \in {<<>>, <<To(sys)>>},
        asks \in {{}, {"user"}}, more \in {<<>>, <<Param(sys, x, "env")>>, <<[To(know) EXCEPT !.query = TRUE]>>}}

\* B leads to C, maybe not under every condition, before A needs it.
Skipping ==
    {App(A :> [Public EXCEPT !.call["needs"] = <<To(B), To(C)>>, !.onlyIf = {g}]
         @@ B :> [Plain EXCEPT !.call["onSuccess"] = <<[To(C) EXCEPT !.onlyIf = cond]>>]
         @@ C :> [Plain EXCEPT !.call["needs"] = <<To(D), To(util)>>, !.cached = cached]
         @@ D :> Plain) :
        g \in {D, util}, cond \in {{}, {"result"}}, cached \in BOOLEAN}

\* A starts a workflow for B.
Starts(side, t, gated) ==
    App(A :> [Public EXCEPT !.operation = "initiate", !.starts = <<[side |-> side, given |-> {B}]>>]
        @@ B :> [Public EXCEPT !.triggers = {t}, !.gated = gated])
Starting == {Starts(side, t, gated) : side \in Sides, t \in Triggers, gated \in BOOLEAN}
            \cup {Starts("variable", t, FALSE) : t \in {"flexUser", "onTeamEmail"}}

\* A and B register hooks that call one another, and B may call A besides.  A
\* chain of hooks through two functions is no longer than MaxHookDepth.
Registers(f, e, g, s) == [To(reg) EXCEPT !.hook = [of |-> f, on |-> e, then |-> g, gives |-> {}, static |-> s]]
Hooking ==
    {App(A :> [Public EXCEPT !.call[l] = <<Registers(A, e, B, TRUE)>>]
         @@ B :> [Public EXCEPT !.call[m] = <<Registers(B, d, g, s)>>, !.call["onSuccess"] = @ \o more]) :
        l \in {"needs", "onSuccess", "onFailure"}, m \in {"needs", "onSuccess", "onFailure"}, e \in Events,
        d \in {"beforeExecution", "afterCompletion"}, g \in {A, util}, s \in BOOLEAN, more \in {<<>>, <<To(A)>>}}

MCToTry == RingSkills \cup Passing \cup Conditions \cup Skipping \cup Starting \cup Hooking
=============================================================================
