------------------------------ MODULE SkillRuns ------------------------------
(* The calls an accepted skill leads to.  A call of a function works through *)
(* its lists one after the other; every function named there is called on    *)
(* the same goroutine, so calls form a stack.  What the operation does is    *)
(* one step with every outcome it can have (module Operations), and so are   *)
(* the rules of a call (module FunctionCall) and the system and shared       *)
(* functions.  Of inputs, only which ones have a value is kept.  All calls   *)
(* of a stack are for one message; a workflow that an operation initiates    *)
(* brings a message of its own.                                              *)
EXTENDS Skills

CONSTANTS
    ToTry,     \* the skills explored
    MaxDepth,  \* calls on the stack: one beyond it is not looked into
    MaxItems,  \* items of a forEach
    MaxCalls,  \* calls the agent makes for a message
    MaxComing, \* workflows that wait: one beyond it is not looked into
    MaxHookDepth

ASSUME BoundsAssumption == {MaxDepth, MaxItems, MaxCalls, MaxComing, MaxHookDepth} \subseteq Nat \ {0}
ASSUME SkillsAssumption == \A s \in ToTry : IsSkill(s)

VARIABLES
    stack,    \* the calls that run, outermost first
    rows,     \* status of the newest record of each function for the message
    cache,    \* inputs each function was last given, for the message
    flow,     \* the workflow the message belongs to
    coming,   \* workflows that were initiated
    asked,    \* calls the agent has made
    hooks,    \* hooks of the client, whatever the message
    short     \* history: functions that returned, or were skipped, before their needs were met

vars == <<skill, verdict, stack, rows, cache, flow, coming, asked, hooks, short>>

Remembered == UNION {[d -> SUBSET Inputs] : d \in SUBSET Own}

\* Lists that end the call as pending.
Asking == {"onMissing", "onConfirm", "onApproval"}
Callbacks == Lists \ {"needs"}
\* A call that was made came back in a way that ends this one.
Verdicts == {"stopped", "broken", "unfilled", "stuck"}
Stages == Lists \cup Verdicts \cup {"enter", "ask", "inputs", "presolve", "rules", "operate", "rerun",
                                    "succeeded", "completed", "failed", "hooks"}

Frame == [fn : Own, stage : Stages,
          at : Nat \ {0},          \* place in the list
          sub : Nat \ {0},         \* item of a forEach, or place in the inputs
          given : SUBSET Inputs,   \* the context of the call has these
          part : SUBSET Inputs,    \* resolved so far
          filled : SUBSET Inputs,
          local : Remembered,      \* onSuccessInputsCache
          outs : SUBSET Names,     \* earlier functions of the list that gave an output
          depth : Nat,             \* calls further out that a hook made
          due : SUBSET Hook,       \* hooks to run
          after : Stages]          \* where the call goes on when they have run

Workflow == [side : Sides, email : BOOLEAN, given : SUBSET Names, literal : BOOLEAN]
Statuses == {"none", "complete", "failed", "skipped", "pending"}

TypeOK ==
    /\ IsSkill(skill) /\ verdict \in {"none", "accepted", "refused"}
    /\ stack \in Seq(Frame) /\ Len(stack) <= MaxDepth
    /\ rows \in [Names -> Statuses] /\ cache \in Remembered
    /\ flow \in Workflow \cup {None} /\ coming \subseteq Workflow
    /\ asked \in 0..MaxCalls /\ hooks \subseteq Hook /\ short \subseteq Own

NoRows == [g \in Names |-> "none"]
Empty == [g \in {} |-> {}]
Remember(r, g, inputs) == [h \in DOMAIN r \cup {g} |-> IF h = g THEN inputs ELSE r[h]]

Init ==
    /\ skill \in ToTry /\ verdict = "none"
    /\ stack = <<>> /\ rows = NoRows /\ cache = Empty
    /\ flow = None /\ coming = {} /\ asked = 0 /\ hooks = {} /\ short = {}

Parse ==
    /\ verdict = "none"
    /\ verdict' = IF Accepted THEN "accepted" ELSE "refused"
    /\ UNCHANGED <<skill, stack, rows, cache, flow, coming, asked, hooks, short>>

---------------------------------------------------------------------------
\* The call on top of the stack.

Depth == Len(stack)
Top == stack[Depth]
Fn == Top.fn
At(s) == stack # <<>> /\ Top.stage = s

With(frame) == stack' = [stack EXCEPT ![Depth] = frame]
Staged(q, s) == [q EXCEPT !.stage = s, !.at = 1, !.sub = 1, !.part = {}, !.outs = {}, !.due = {}]
Goto(s) == With(Staged(Top, s))

\* The call goes on at s after the hooks of event e, of which some may have expired.
Fire(q, e, s) ==
    \E due \in SUBSET {h \in hooks : h.of = q.fn /\ h.on = e} :
        With(IF due = {} THEN Staged(q, s) ELSE [Staged(q, "hooks") EXCEPT !.due = due, !.after = s])

Same == UNCHANGED <<skill, verdict, flow, asked>>
Rest == Same /\ UNCHANGED hooks
Quiet == UNCHANGED <<rows, cache, short, coming>> /\ Rest

Recorded(g, s) == [rows EXCEPT ![g] = s]

\* What the params of the calls of frame q are resolved from.
Passed(q) ==
    CASE q.stage = "needs" -> IF q.given # {} THEN q.given
                              ELSE IF q.fn \in DOMAIN cache THEN cache[q.fn] ELSE {}
      [] q.stage \in {"onSkip", "onMissing"} -> {}
      [] OTHER -> q.filled
Loops(q) == q.stage \in {"onSuccess", "onFailure"} /\ Calls(q.fn, q.stage)[q.at].each
Special(q) ==
    CASE q.stage = "needs" -> {}
      [] q.stage = "onSkip" -> {"skipReason"} \cup
             IF Calls(q.fn, "needs") = <<>> THEN {}
             ELSE {g \in DepsOf(q.fn) : rows[g] \notin {"none", "skipped"}}
      [] OTHER -> {"result"}
Known(q) == Passed(q) \cup q.outs \cup Special(q) \cup {"env"} \cup IF Loops(q) THEN {"item"} ELSE {}

\* A param that refers to something unknown is left out.
Resolved(q) ==
    LET params == Calls(q.fn, q.stage)[q.at].params IN {d \in DOMAIN params : params[d] \in Known(q)}

\* What the context has for g from the calls further out: what the innermost
\* call of g has.
InContext(q) == IF q.stage \in Callbacks THEN Passed(q) \cap Inputs ELSE q.given
Innermost(g) == {i \in DOMAIN stack : stack[i].fn = g /\ \A j \in DOMAIN stack : stack[j].fn = g => j <= i}
Inherited(g) == UNION {InContext(stack[i]) : i \in Innermost(g)}

\* A callback of onSuccess is given again what its function was given before,
\* and every item of a forEach besides what the caller was given.
Again(q, g) ==
    IF g \in DOMAIN cache THEN cache[g]
    ELSE IF g \in DOMAIN q.local THEN q.local[g] ELSE Inherited(g)
Given(q, g) ==
    Resolved(q) \cup
    CASE Loops(q) -> Passed(q) \cup IF g \in DOMAIN cache THEN cache[g] ELSE {}
      [] q.stage = "onSuccess" /\ ~Loops(q) -> Again(q, g)
      [] OTHER -> Inherited(g)

---------------------------------------------------------------------------
\* A call comes back with "text" whatever its status, with "special", a
\* question to a person, with "pending", ErrInputFulfillmentPending, or "error".

\* Inference inputs come last; onSuccess functions have the others early.
Late(n) == n.origin = "inference"
Sooner(f, i, j) ==
    LET n == Fns[f].inputs IN
    IF Late(n[i]) <=> Late(n[j]) THEN i < j ELSE Late(n[j])
Place(f, i) == Cardinality({j \in DOMAIN Fns[f].inputs : Sooner(f, j, i)}) + 1
Early(f) == {n \in InputsOf(f) : ~Late(n)}
\* Whose inputs frame q looks for, and the one in place q.sub.
Whose(q) == IF q.stage = "presolve" THEN Calls(q.fn, "onSuccess")[q.at].to ELSE q.fn
Wanted(q) ==
    {Fns[Whose(q)].inputs[i] : i \in {i \in DOMAIN Fns[Whose(q)].inputs :
        Place(Whose(q), i) = q.sub /\ (q.stage = "presolve" => ~Late(Fns[Whose(q)].inputs[i]))}}

Found(q) == [q EXCEPT !.sub = @ + 1, !.part = @ \cup {n.name : n \in Wanted(q)}]
NextCallee(q) == [q EXCEPT !.at = @ + 1, !.sub = 1, !.part = {}]
NotFound(q, r) ==
    IF \E n \in Wanted(q) : n.optional THEN [q EXCEPT !.sub = @ + 1]
    ELSE IF q.stage = "presolve" THEN NextCallee(q)
    ELSE Staged(q, IF r = "pending" THEN "onMissing" ELSE "unfilled")

Chains(q, r) == \/ r = "text" /\ q.stage \in {"needs", "onSuccess", "onSkip"}
                \/ r = "special" /\ q.stage = "onSkip"
Following(q, g, r) ==
    IF Loops(q) /\ ~(r = "pending" /\ q.stage = "onFailure") THEN [q EXCEPT !.sub = @ + 1]
    ELSE [q EXCEPT !.at = @ + 1, !.sub = 1, !.outs = IF Chains(q, r) THEN @ \cup {g} ELSE @]

\* The frame q that called g goes on with its result r.
Resume(q, g, r) ==
    CASE q.stage = "needs" ->
            IF r = "text" THEN Following(q, g, r)
            ELSE Staged(q, IF r = "special" THEN "stopped" ELSE "broken")
      [] q.stage = "onSuccess" ->
            IF r = "pending" \/ (r = "special" /\ ~Loops(q)) THEN Staged(q, "stuck") ELSE Following(q, g, r)
      [] q.stage \in Lists \ {"needs", "onSuccess"} -> Following(q, g, r)
      [] q.stage \in {"inputs", "presolve"} ->
            IF r \in {"text", "special"} THEN Found(q) ELSE NotFound(q, r)
      [] q.stage = "rerun" -> [q EXCEPT !.at = 2]
      [] OTHER -> q

\* A function that a hook called is recorded once more, by the hook.
OfHook(r) == IF r \in {"text", "special"} THEN "complete" ELSE "failed"

\* The call ends and is recorded as s, if it has not been recorded before.  A
\* callback without a record counts as an error.
Return(s, r) ==
    LET rs == IF s = "none" THEN rows ELSE Recorded(Fn, s)
        caller == stack[Depth - 1]
        seen == IF caller.stage \in Callbacks \cup {"hooks"} /\ r = "text" /\ rs[Fn] = "none" THEN "error" ELSE r IN
    /\ rows' = IF Depth > 1 /\ caller.stage = "hooks" THEN [rs EXCEPT ![Fn] = OfHook(seen)] ELSE rs
    /\ stack' = IF Depth = 1 THEN <<>>
                ELSE [Front(stack) EXCEPT ![Depth - 1] = Resume(caller, Fn, seen)]

NewFrame(g, given, depth) ==
    [fn |-> g, stage |-> "enter", at |-> 1, sub |-> 1, given |-> given, part |-> {}, filled |-> {},
     local |-> Empty, outs |-> {}, depth |-> depth, due |-> {}, after |-> "enter"]

\* An own function is called.  Beyond MaxDepth it ends at once.
CallOwn(g, given) ==
    /\ UNCHANGED coming /\ Rest
    /\ IF Depth < MaxDepth
       THEN stack' = Append(stack, NewFrame(g, given, Top.depth)) /\ UNCHANGED <<rows, short>>
       ELSE With(Resume(Top, g, "text")) /\ rows' = Recorded(g, "complete") /\ short' = short \cup {g}

\* The system or shared function of c is called.
CallOther(c) ==
    /\ UNCHANGED <<cache, short, coming>> /\ Same
    /\ \/ /\ rows' = Recorded(c.to, "complete") /\ With(Resume(Top, c.to, "text"))
          /\ hooks' = hooks \cup ({c.hook} \ {None})
       \/ rows' = Recorded(c.to, "failed") /\ With(Resume(Top, c.to, "text")) /\ UNCHANGED hooks
       \/ c.to \in Queries /\ rows' = Recorded(c.to, "complete") /\ With(Resume(Top, c.to, "special"))
          /\ UNCHANGED hooks
       \/ UNCHANGED <<rows, hooks>> /\ With(Resume(Top, c.to, "error"))

---------------------------------------------------------------------------
\* Who calls from outside.

Offered(w) ==
    LET on == CASE w.side = "user" /\ ~w.email -> {"flexUser", "onUser"}
                [] w.side = "user" /\ w.email -> {"flexUserEmail", "onUserEmail"}
                [] w.side = "team" /\ ~w.email -> {"flexTeam", "onTeam"}
                [] OTHER -> {"flexTeamEmail", "onTeamEmail"} IN
    {g \in Own : Fns[g].triggers \cap on # {}}

Ask ==
    /\ verdict = "accepted" /\ stack = <<>> /\ asked < MaxCalls
    /\ \E g \in IF flow = None THEN Triggered ELSE Offered(flow) : stack' = <<NewFrame(g, {}, 0)>>
    /\ asked' = asked + 1
    /\ UNCHANGED <<skill, verdict, rows, cache, flow, coming, hooks, short>>

\* The message of a workflow that was initiated is processed.
StartFlow ==
    /\ stack = <<>>
    /\ \E w \in coming : flow' = w /\ coming' = coming \ {w}
    /\ rows' = NoRows /\ cache' = Empty /\ asked' = 0 /\ short' = {}
    /\ UNCHANGED <<skill, verdict, stack, hooks>>

---------------------------------------------------------------------------
\* Before the lists.

Begin ==
    /\ At("enter")
    /\ ~(Fns[Fn].gated /\ flow = None)
    /\ Goto("needs") /\ Quiet

\* requiresInitiateWorkflow, outside a workflow.
TurnAway ==
    /\ At("enter") /\ Fns[Fn].gated /\ flow = None
    /\ Return("skipped", "text") /\ short' = short \cup {Fn}
    /\ UNCHANGED <<cache, coming>> /\ Rest

\* A scoped cache that ignores the inputs has the output.
Cached ==
    /\ At("enter") /\ Fns[Fn].cached
    /\ ~(Fns[Fn].gated /\ flow = None)
    /\ Return("complete", "text") /\ short' = short \cup {Fn}
    /\ UNCHANGED <<cache, coming>> /\ Rest

\* The call is recorded before the functions of onFailure are called.
Fail == /\ Calls(Fn, "onFailure") # <<>>
        /\ rows' = Recorded(Fn, "failed") /\ Fire(Top, "afterFailure", "onFailure")
\* Some failures leave no record when there is nothing in onFailure.
FailUnrecorded ==
    \/ Fail
    \/ Calls(Fn, "onFailure") = <<>> /\ Fire(Top, "afterCompletion", "failed") /\ UNCHANGED rows

\* runOnlyIf of the function is met, is not, fails, or ends in a question or an
\* error that leaves the call recorded as complete.  A question of the
\* inference or of onError comes back as ErrInputFulfillmentPending.
Condition ==
    /\ At("ask")
    /\ \/ Goto("inputs") /\ UNCHANGED rows
       \/ /\ Fns[Fn].onlyIf # {}
          /\ \/ Goto("onSkip") /\ UNCHANGED rows
             \/ FailUnrecorded
             \/ \E r \in {"pending", "error"} : Return("complete", r)
    /\ UNCHANGED <<cache, short, coming>> /\ Rest

---------------------------------------------------------------------------
\* Working through a list.

InList == stack # <<>> /\ Top.stage \in Lists /\ Top.at <= Len(Calls(Fn, Top.stage))
This == Calls(Fn, Top.stage)[Top.at]
Onward == [Top EXCEPT !.at = @ + 1, !.sub = 1]

\* Needs, and callbacks, without params are not executed again when they are
\* not functions of the tool or have a cache.
Reused(c) == /\ c.params = <<>> /\ c.hook = None /\ rows[c.to] # "none"
             /\ (c.to \in Own => Fns[c.to].cached)

\* runOnlyIf of a callback is not met, or cannot be evaluated.  The skip is
\* recorded, except for an item of a forEach.
Skip ==
    /\ InList /\ This.onlyIf # {}
    /\ IF Loops(Top)
       THEN Top.sub <= MaxItems /\ With([Top EXCEPT !.sub = @ + 1]) /\ UNCHANGED <<rows, short>>
       ELSE /\ With(Onward)
            /\ \/ UNCHANGED <<rows, short>>
               \/ rows' = Recorded(This.to, "skipped") /\ short' = short \cup ({This.to} \cap Own)
    /\ UNCHANGED <<cache, coming>> /\ Rest

\* There are no items, or no more of them.
NoMoreItems ==
    /\ InList /\ Loops(Top)
    /\ With([Onward EXCEPT !.outs = IF Top.stage = "onSuccess" /\ Top.sub > 1 THEN @ \cup {This.to} ELSE @])
    /\ Quiet

Reuse ==
    /\ InList /\ Reused(This) /\ Top.sub <= MaxItems
    /\ With(IF Top.stage = "needs" THEN Onward ELSE Resume(Top, This.to, "text"))
    /\ Quiet

CallNext ==
    /\ InList /\ ~Reused(This) /\ Top.sub <= MaxItems
    /\ IF This.to \notin Own THEN CallOther(This)
       ELSE LET first == Top.stage = "onSuccess" /\ ~Loops(Top) /\ This.to \notin DOMAIN cache
                         /\ This.to \in DOMAIN Top.local IN
            /\ CallOwn(This.to, Given(Top, This.to))
            /\ cache' = IF first THEN Remember(cache, This.to, Top.local[This.to]) ELSE cache

AtEnd(l) == At(l) /\ Top.at > Len(Calls(Fn, l))

NeedsMet ==
    /\ AtEnd("needs")
    /\ Goto(IF \E g \in Callees(Fn, "needs") : rows[g] = "none" THEN "broken" ELSE "ask")
    /\ Quiet

CallbacksDone ==
    /\ \/ AtEnd("onSuccess") /\ Fire(Top, "afterCompletion", "completed")
       \/ AtEnd("onFailure") /\ Fire(Top, "afterCompletion", "failed")
    /\ Quiet

\* A call with functions in these two lists was recorded when the list began.
Done ==
    /\ \/ At("completed") /\ Return(IF Calls(Fn, "onSuccess") = <<>> THEN "complete" ELSE "none", "text")
       \/ At("failed") /\ Return("none", "text")
    /\ UNCHANGED <<cache, short, coming>> /\ Rest

\* onError of runOnlyIf has its say after onSkip.
Skipped ==
    /\ AtEnd("onSkip")
    /\ \E r \in {"text", "pending", "error"} : Return("skipped", r)
    /\ UNCHANGED <<cache, short, coming>> /\ Rest

\* A value to be asked for leads to a text that asks for nothing, and so does an
\* approval the team was asked for before.
Asked ==
    /\ \E l \in Asking : AtEnd(l)
    /\ \E r \in {"text", "special"} :
        /\ Top.stage = "onMissing" => r = "text"
        /\ Top.stage = "onConfirm" => r = "special"
        /\ Return("pending", r)
    /\ UNCHANGED <<cache, short, coming>> /\ Rest

\* Needs that cannot be called, or are not met.
Broken ==
    /\ At("broken") /\ FailUnrecorded
    /\ short' = short \cup {Fn}
    /\ UNCHANGED <<cache, coming>> /\ Rest

Stopped ==
    /\ \/ At("stopped") /\ Return("pending", "special")
       \/ At("unfilled") /\ Return("failed", "text")
       \/ At("stuck") /\ Return("none", "pending")
    /\ short' = IF At("stopped") THEN short \cup {Fn} ELSE short
    /\ UNCHANGED <<cache, coming>> /\ Rest

---------------------------------------------------------------------------
\* Hooks: getRegisteredHooks, executeHooks.

\* A hook that cannot be found a function for is recorded as failed.
RunHook ==
    /\ At("hooks") /\ Top.depth < MaxHookDepth
    /\ \E h \in Top.due :
        LET q == [Top EXCEPT !.due = @ \ {h}] IN
        IF h.then \in Own /\ Depth < MaxDepth
        THEN /\ stack' = Append([stack EXCEPT ![Depth] = q],
                                NewFrame(h.then, Top.filled \cup h.gives \cup Inherited(h.then), Top.depth + 1))
             /\ UNCHANGED <<rows, short>>
        ELSE /\ With(q) /\ \E s \in {"complete", "failed"} : rows' = Recorded(h.then, s)
             /\ short' = IF h.then \in Own THEN short \cup {h.then} ELSE short
    /\ UNCHANGED <<cache, coming>> /\ Rest

\* At the limit the hooks are refused, and the call goes on.
HooksDone ==
    /\ At("hooks") /\ (Top.due = {} \/ Top.depth >= MaxHookDepth)
    /\ Goto(Top.after) /\ Quiet

---------------------------------------------------------------------------
\* Inputs: FulfillInputs for the function, then for its onSuccess functions.

Filling == /\ stack # <<>> /\ Top.stage \in {"inputs", "presolve"}
           /\ Top.stage = "presolve" => Top.at <= Len(Calls(Fn, "onSuccess"))
Callee == Whose(Top)
Presolved == Callee \in Own /\ Fns[Callee].presolved /\ Early(Callee) # {}
Looks == Filling /\ (Top.stage = "presolve" => Presolved)
Have == Top.part \cup IF Top.stage = "inputs" THEN Top.given ELSE Inherited(Callee)

\* The next input is there already, is computed or asked of a model, or is
\* the output of a function.  Only functions of the tool are found.
Fill ==
    /\ Looks
    /\ \E n \in Wanted(Top) :
        LET called == n.origin = "function" /\ ~n.value IN
        IF n.name \in Have THEN With([Top EXCEPT !.sub = @ + 1]) /\ Quiet
        ELSE IF called /\ n.from \in Own THEN CallOwn(n.from, Inherited(n.from)) /\ UNCHANGED cache
        ELSE /\ \/ ~called /\ With(Found(Top))
                \/ ~n.value /\ With(NotFound(Top, "error"))
             /\ Quiet

Filled ==
    /\ At("inputs") /\ Wanted(Top) = {}
    /\ Fire([Top EXCEPT !.filled = Have], "beforeExecution", "presolve")
    /\ cache' = Remember(cache, Fn, Have)
    /\ UNCHANGED <<rows, short, coming>> /\ Rest

\* Inputs that are all there already go to the callback as well.
FilledEarly ==
    /\ At("presolve") /\ Looks /\ Wanted(Top) = {}
    /\ With([NextCallee(Top) EXCEPT !.local = Remember(@, Callee, Have)])
    /\ cache' = IF Early(Callee) = InputsOf(Callee) THEN Remember(cache, Callee, Have) ELSE cache
    /\ UNCHANGED <<rows, short, coming>> /\ Rest

NotEarly == At("presolve") /\ Filling /\ ~Presolved /\ With(NextCallee(Top)) /\ Quiet
Ready == At("presolve") /\ ~Filling /\ Goto("rules") /\ Quiet

---------------------------------------------------------------------------
\* The operation.

Rules ==
    /\ At("rules")
    /\ \/ Goto("operate")
       \/ "team" \in Fns[Fn].asks /\ Goto("onApproval")
       \/ "user" \in Fns[Fn].asks /\ Goto("onConfirm")
    /\ Quiet

\* waitFor and shouldSkip call functions while the operation runs.  The system
\* functions are not found.
Poll ==
    /\ At("operate")
    /\ \E g \in (Fns[Fn].waitFor \cup Fns[Fn].shouldSkip) \ System :
        IF g \in Own THEN CallOwn(g, Inherited(g)) /\ UNCHANGED cache
        ELSE /\ rows' \in {rows, Recorded(g, "complete"), Recorded(g, "failed")}
             /\ UNCHANGED <<stack, cache, short, coming>> /\ Rest

\* The message of a workflow may be of the email channel or of another.
Brought(f) ==
    {w \in Workflow : \E s \in StartsOf(f) : /\ w.given = s.given
                                             /\ w.literal <=> s.side \in Sides
                                             /\ w.literal => w.side = s.side}

Operate ==
    /\ At("operate")
    /\ \/ Fail /\ UNCHANGED coming
       \/ Calls(Fn, "onFailure") = <<>> /\ Return("failed", "text") /\ UNCHANGED coming
       \/ /\ Goto("rerun") /\ UNCHANGED rows
          /\ IF Fns[Fn].operation = "initiate" /\ Cardinality(coming) < MaxComing
             THEN \E w \in Brought(Fn) : coming' = coming \cup {w}
             ELSE UNCHANGED coming
    /\ UNCHANGED <<cache, short>> /\ Rest

\* reRunIf.  Only functions of the tool are found; the inputs remembered for
\* the function are replaced by the params of this call.
AskToRerun ==
    /\ At("rerun") /\ Top.at = 1 /\ Fns[Fn].rerun \in Own
    /\ CallOwn(Fns[Fn].rerun, Inherited(Fns[Fn].rerun))
    /\ cache' = Remember(cache, Fns[Fn].rerun, {})

Rerun ==
    /\ At("rerun") /\ Top.at = 2
    /\ With([Staged(Top, "operate") EXCEPT !.filled = @ \cup Fns[Fn].rerunParams])
    /\ Quiet

Succeed ==
    /\ At("rerun") /\ (Top.at = 2 \/ Fns[Fn].rerun \notin Own)
    /\ Fire(Top, "afterSuccess", "succeeded") /\ Quiet

\* The call is recorded before the functions of onSuccess are called.
Chain ==
    /\ At("succeeded") /\ Goto("onSuccess")
    /\ rows' = IF Calls(Fn, "onSuccess") = <<>> THEN rows ELSE Recorded(Fn, "complete")
    /\ UNCHANGED <<cache, short, coming>> /\ Rest

---------------------------------------------------------------------------

\* Nobody asks for anything; so a call that could not go on would be a deadlock.
Idle == verdict # "none" /\ stack = <<>> /\ UNCHANGED vars

Next == \/ Parse \/ Ask \/ StartFlow \/ Idle
        \/ Begin \/ TurnAway \/ Cached \/ Condition
        \/ Skip \/ NoMoreItems \/ Reuse \/ CallNext
        \/ NeedsMet \/ CallbacksDone \/ Done \/ Skipped \/ Asked \/ Broken \/ Stopped
        \/ RunHook \/ HooksDone
        \/ Fill \/ Filled \/ FilledEarly \/ NotEarly \/ Ready
        \/ Rules \/ Poll \/ Operate \/ AskToRerun \/ Rerun \/ Succeed \/ Chain

Spec == Init /\ [][Next]_vars

\* A function that calls itself again, through whatever functions, does so on
\* a path with a call that checkFunctionDependencyCycles does not follow.
Unchecked == Asking \cup {"onFailure", "operate", "rerun", "hooks"}
NoNesting ==
    \A i, j \in DOMAIN stack :
        i < j /\ stack[i].fn = stack[j].fn => \E k \in i..(j - 1) : stack[k].stage \in Unchecked

\* When runOnlyIf is evaluated, every function of a tool it may refer to has
\* been called for the message, unless a need on the way to it returned before
\* its own needs were called.
RefsAnswered ==
    At("ask") => \A g \in Fns[Fn].onlyIf \cap (Own \cup Shared) :
        rows[g] # "none" \/ \E h \in short \cap DepsOf(Fn) : g \in DepsOf(h)

\* What a param of an onSuccess function refers to is there when the function
\* is called, unless it is the output of a need (never looked up), of an
\* earlier onSuccess function that gave none, or an input without a value.
ParamsResolve ==
    At("onSuccess") /\ InList /\ This.to \in Own \ Shared =>
        \A r \in Range(This.params) \ Known(Top) :
            \/ r \in Callees(Fn, "needs") \/ r \in InputNames(Fn)
            \/ \E j \in 1..(Top.at - 1) : Calls(Fn, "onSuccess")[j].to = r

\* The limit on nested hooks refuses the hooks of a function only where the
\* parser warned of a cycle, a hook was registered with a variable or in a list
\* the parser does not scan, or another kind of call is part of the cycle.
HooksWarned ==
    At("hooks") /\ Top.depth >= MaxHookDepth =>
        \/ HookWarning
        \/ ~(hooks \subseteq StaticHooks({"needs", "onSuccess", "onFailure"}))
        \/ \E k \in 1..(Depth - 1) : stack[k].stage # "hooks"

\* The functions a workflow of a literal type is given inputs for are among
\* those the agent is offered for its message.
GivenOffered == flow # None /\ flow.literal /\ ~flow.email => flow.given \subseteq Offered(flow)
=============================================================================
