------------------------------- MODULE Skills -------------------------------
(* What the parser accepts: the functions of one tool, what they call and    *)
(* what they refer to, and the checks of skill/parser.go that look at more   *)
(* than one field.  Syntax, spelling, types and the fields of an operation   *)
(* are left out, and so are the warnings but the one about hooks.            *)
(*                                                                           *)
(* Definitions named ...Bug are mutated forms of the definition that         *)
(* follows them; no specification uses them.                                 *)
EXTENDS Naturals, Sequences, FiniteSets, SequencesExt, Functions

CONSTANTS
    Names,       \* names of functions, of the tool and of others
    System,      \* system functions
    Shared,      \* functions of shared tools
    WithParams,  \* the system and shared functions that accept params
    Queries,     \* askToKnowledgeBase and queryMemories
    Inputs,      \* names of inputs
    None

ASSUME NamesAssumption ==
    /\ System \cup Shared \subseteq Names /\ System \cap Shared = {}
    /\ WithParams \subseteq System \cup Shared /\ Queries \subseteq System
    /\ None \notin Names \cup Inputs /\ "env" \notin Names

\* A name an expression begins with.  "env" stands for the environment and the
\* system variables, which are always there.
Refs == Names \cup Inputs \cup {"result", "item", "skipReason", "env"}

\* The lists of a function that call others.
Lists == {"needs", "onSuccess", "onFailure", "onSkip", "onMissing", "onConfirm", "onApproval"}

Sides == {"user", "team"}
EventTriggers == {"time", "onUser", "onTeam", "onUserEmail", "onTeamEmail"}
Triggers == EventTriggers \cup {"flexUser", "flexTeam", "flexUserEmail", "flexTeamEmail"}

\* What a call of registerHook asks for: that on this event of one function
\* another is called, and given these inputs.  The names are static or come
\* from variables.
Events == {"beforeExecution", "afterSuccess", "afterFailure", "afterCompletion"}
Hook == [of : Names, on : Events, then : Names, gives : SUBSET Inputs, static : BOOLEAN]

Call == [to : Names, query : BOOLEAN, params : UNION {[d -> Refs] : d \in SUBSET Inputs},
         onlyIf : SUBSET Refs, each : BOOLEAN, hook : Hook \cup {None}]

Origins == {"none", "chat", "function", "inference"}
Input == [name : Inputs, origin : Origins, from : Names \cup {None}, value : BOOLEAN,
          refs : SUBSET Refs, onlyIf : SUBSET Refs, optional : BOOLEAN, async : BOOLEAN,
          onError : Names \cup {None}, oneOf : Names \cup {None}]

\* A step that starts a workflow: of a literal type or one only known when it
\* runs, for functions whose inputs it gives.
Start == [side : Sides \cup {"variable"}, given : SUBSET Names]

\* The functions of a tool.  Lower-case names are private; gated is
\* requiresInitiateWorkflow; presolved is the absence of
\* skipInputPreEvaluation; asks is what the operation has to wait for.
Function ==
    [private : BOOLEAN, triggers : SUBSET Triggers, inputs : Seq(Input), call : [Lists -> Seq(Call)],
     onlyIf : SUBSET Refs, rerun : Names \cup {None}, rerunParams : SUBSET Inputs,
     waitFor : SUBSET Names, shouldSkip : SUBSET Names, gated : BOOLEAN, cached : BOOLEAN,
     presolved : BOOLEAN, asks : SUBSET Sides, operation : {"plain", "initiate"}, starts : Seq(Start)]

VARIABLES
    skill,  \* kind "app", "system" or "shared"; fns: the functions by name
    verdict

Fns == skill.fns
Own == DOMAIN Fns
External == System \cup Shared
Calls(f, l) == Fns[f].call[l]
Callees(f, l) == {Calls(f, l)[i].to : i \in DOMAIN Calls(f, l)}
InputsOf(f) == ToSet(Fns[f].inputs)
InputNames(f) == {n.name : n \in InputsOf(f)}
Sources(f) == {n.from : n \in {m \in InputsOf(f) : m.origin = "function"}}

\* A tool with a function that has the name of a system function is left out:
\* the parser and the engine take the one for the other.
IsSkill(s) == /\ s \in [kind : {"app", "system", "shared"}, fns : [DOMAIN s.fns -> Function]]
              /\ DOMAIN s.fns \subseteq Names \ System

---------------------------------------------------------------------------
\* Graphs of the tool.

\* What can be reached from a over the edges E: the least set that has the ends
\* of a's edges and of its own.
Reach(E, a) ==
    LET closed == {S \in SUBSET Names : \A e \in E : e[1] \in S \cup {a} => e[2] \in S} IN
    {b \in Names : \A S \in closed : b \in S}
Edges(ls) == UNION {{<<f, g>> : g \in UNION {Callees(f, l) : l \in ls}} : f \in Own}
FromEdges == UNION {{<<f, g>> : g \in Sources(f)} : f \in Own}

\* Needs, needs of needs and so on, and the system functions.  The closure is
\* over the functions of the tool: a shared one counts where it is a need itself.
DepsOverListsBug == Edges({"needs", "onSuccess"})
Deps == Edges({"needs"})
DepsOf(f) == System \cup Callees(f, "needs") \cup (Reach(Deps, f) \cap Own)

\* checkFunctionDependencyCycles follows these.
CheckedForgetsSkipBug == FromEdges \cup Edges({"needs", "onSuccess"})
Checked == FromEdges \cup Edges({"needs", "onSuccess", "onSkip"})
NoCycle == \A f \in Own : f \notin Reach(Checked, f)

\* checkStaticHookCycles; what it finds is a warning only.
StaticHooks(ls) ==
    {c.hook : c \in {c \in UNION {ToSet(Calls(f, l)) : f \in Own, l \in ls} : c.hook # None /\ c.hook.static}}
ScannedNeedsOnlyBug == StaticHooks({"needs"})
Scanned == StaticHooks({"needs", "onSuccess", "onFailure"})
Hooked(hs) == {<<h.of, h.then>> : h \in hs}
HookWarning == \E g \in Names : g \in Reach(Hooked(Scanned), g)

StepEdges == UNION {{<<f, g>> : g \in Fns[f].waitFor \cup Fns[f].shouldSkip} : f \in Own}
Forward == FromEdges \cup Edges(Lists) \cup StepEdges
ReachedFrom(S) == S \cup {g \in Own : \E f \in S : g \in Reach(Forward, f)}

Triggered == {f \in Own : Fns[f].triggers # {}}
AllReached == Own \subseteq ReachedFrom(Triggered)

Entries == {f \in Own : ~Fns[f].private \/ Fns[f].triggers \cap EventTriggers # {}}
NoOrphans == skill.kind = "app" => Own \subseteq ReachedFrom(Entries)

---------------------------------------------------------------------------
\* One call of a list.

Exists(g) == g \in Own \cup External

\* What the params of a call may refer to.
OwnSources(f) == InputNames(f) \cup Callees(f, "needs") \cup {"env", "result"}
AllSiblingsBug(f, l, i) == IF l = "onSuccess" THEN Callees(f, l) \cup {"item"} ELSE {}
Extra(f, l, i) ==
    LET earlier == {Calls(f, l)[j].to : j \in 1..(i - 1)}
        item == IF Calls(f, l)[i].each THEN {"item"} ELSE {} IN
    CASE l = "onSuccess" -> earlier \cup item
      [] l = "onFailure" -> item
      [] l = "onSkip" -> earlier \cup {"skipReason"}
      [] OTHER -> {}

ParamsKnown(f, c, extra) ==
    DOMAIN c.params # {} =>
        /\ c.to \in External => c.to \in WithParams
        /\ c.to \notin External => /\ DOMAIN c.params \subseteq InputNames(c.to)
                                   /\ Range(c.params) \subseteq OwnSources(f) \cup extra

\* runOnlyIf of a call.
ConditionKnown(f, c) == c.onlyIf \subseteq InputNames(f) \cup {"result", "env"} \cup DepsOf(f)

NeedOK(f, i) ==
    LET c == Calls(f, "needs")[i] IN
    /\ c.query => c.to \in Queries /\ c.params = <<>>
    /\ c.to \in Queries => c.query \/ DOMAIN c.params # {}
    /\ c.to \in System => c.to \in Queries \cup WithParams
    /\ c.onlyIf = {} /\ ~c.each

CallOK(f, l, i) ==
    LET c == Calls(f, l)[i] IN
    /\ Exists(c.to) /\ c.to # f
    /\ IF l = "needs" THEN NeedOK(f, i) ELSE ConditionKnown(f, c)
    /\ ParamsKnown(f, c, Extra(f, l, i))

CallsOK(f) == \A l \in Lists : \A i \in DOMAIN Calls(f, l) : CallOK(f, l, i)

---------------------------------------------------------------------------
\* Inputs.

Before(f, i) == {Fns[f].inputs[j].name : j \in 1..(i - 1)}

\* The function that onError calls; the one that lists the values to choose from.
OnErrorOK(n) == n.onError # None => n.onError \in Own \cup System
OptionsOK(n) == n.oneOf # None => n.origin = "chat" /\ n.oneOf \in Own

InputOK(f, i) ==
    LET n == Fns[f].inputs[i] IN
    /\ n.name \notin Before(f, i)
    /\ n.origin = "none" => n.value \/ n.optional
    /\ n.origin = "function" => Exists(n.from)
    /\ OnErrorOK(n) /\ OptionsOK(n)
    /\ n.onlyIf \subseteq Before(f, i) \cup DepsOf(f) \cup {"env"}
    /\ n.async => n.refs \cap (InputNames(f) \ {n.name}) = {}

InputsOK(f) == \A i \in DOMAIN Fns[f].inputs : InputOK(f, i)

\* The inputs of a public function refer to the ones before them only, unless
\* a workflow gives them.
ValuesKnown(f) ==
    Fns[f].private \/ Fns[f].gated \/
    \A i \in DOMAIN Fns[f].inputs : LET n == Fns[f].inputs[i] IN
        n.value => n.refs \subseteq Before(f, i) \cup {"env"}

\* Nor do the params of its needs refer to one that somebody has to give.
NeedsSelfContained(f) ==
    Fns[f].private \/
    LET given == {n.name : n \in {m \in InputsOf(f) : m.origin = "none" /\ m.refs # {}}} IN
    \A i \in DOMAIN Calls(f, "needs") :
        Range(Calls(f, "needs")[i].params) \cap (given \ Callees(f, "needs")) = {}

---------------------------------------------------------------------------
\* Conditions, steps and workflows.

OnlyIfKnown(f) == Fns[f].onlyIf \subseteq DepsOf(f) \cup {"env"}

RerunOK(f) == /\ Fns[f].rerun = None \/ (Exists(Fns[f].rerun) /\ Fns[f].rerun # f)
              /\ Fns[f].rerunParams \subseteq InputNames(f)

StepsOK(f) == Fns[f].waitFor \subseteq Own /\ \A g \in Fns[f].shouldSkip : Exists(g)

\* Triggers of a function that the workflow of a side may be given.
Compatible(side) == IF side = "user" THEN {"flexUser", "onUser"} ELSE {"flexTeam", "onTeam"}
AnyTriggerBug(s) == s.given \subseteq Own
GivenFits(s) ==
    s.side \in Sides => \A g \in s.given : g \in Own /\ Fns[g].triggers \cap Compatible(s.side) # {}

InitiatesOK(f) ==
    Fns[f].operation = "initiate" =>
        /\ Fns[f].triggers # {} /\ Fns[f].triggers \subseteq {"time", "flexUser", "flexTeam"}
        /\ Fns[f].starts # <<>>
        /\ \A i \in DOMAIN Fns[f].starts : GivenFits(Fns[f].starts[i])

StartsOf(f) == IF Fns[f].operation = "initiate" THEN ToSet(Fns[f].starts) ELSE {}
GatedOK(f) ==
    Fns[f].gated => /\ ~Fns[f].private
                    /\ \E g \in Own : \E s \in StartsOf(g) : f \in s.given

FunctionOK(f) ==
    /\ InputsOK(f) /\ CallsOK(f) /\ OnlyIfKnown(f) /\ RerunOK(f) /\ StepsOK(f) /\ InitiatesOK(f)
    /\ NeedsSelfContained(f) /\ ValuesKnown(f) /\ GatedOK(f)

Accepted == /\ Own # {}
            /\ \A f \in Own : FunctionOK(f)
            /\ NoCycle /\ AllReached /\ NoOrphans
=============================================================================
