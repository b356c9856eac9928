--------------------------- MODULE MCFunctionCall ---------------------------
(* Small instances of FunctionCall for TLC: the configurations of the       *)
(* called function that each run explores.                                  *)
EXTENDS FunctionCall, TLC

Plain ==
  [needs |-> FALSE, runOnlyIf |-> "none", rule |-> "multiple", filter |-> {},
   cache |-> "off", approval |-> "off", confirm |-> FALSE, onSuccess |-> 0,
   onFailure |-> 0, onSkip |-> 0, onPending |-> 0, reRun |-> "none", maxReRun |-> 0,
   faults |-> {}, maxCalls |-> 2, maxActive |-> 2]

WithCallbacks == [Plain EXCEPT !.onSuccess = 1, !.onFailure = 1, !.onSkip = 1]

\* Every gate and every ending, one configuration per group of features, two
\* calls at the same time.
ManyFunctions ==
  {[WithCallbacks EXCEPT !.needs = TRUE, !.runOnlyIf = r] :
     r \in {"condition", "onErrorAsks", "onErrorEscalates"}}
  \cup {[Plain EXCEPT !.needs = TRUE, !.runOnlyIf = "condition", !.cache = k,
                      !.onPending = 1, !.onSuccess = 1] : k \in {"early", "shared", "perInput"}}
  \cup {[WithCallbacks EXCEPT !.reRun = "fresh", !.maxReRun = 1, !.cache = "shared"]}

\* The same with failing database calls and cancelled contexts.
FaultyFunctions == {[f EXCEPT !.faults = {"db", "cancel"}] : f \in ManyFunctions}

\* The consents a function may need, in every combination: a call asks for
\* each, a third one runs, a fourth one must ask again.
ConsentFunctions ==
  {[Plain EXCEPT !.approval = a, !.confirm = b, !.maxCalls = 4, !.maxActive = 1] :
     a \in {"off", "manual", "auto"}, b \in BOOLEAN}

\* Call rules under each kind of filter, with records that count and records
\* that do not.
RuleFunctions ==
  {[Plain EXCEPT !.rule = r, !.filter = f, !.onFailure = n, !.reRun = "same",
                 !.maxReRun = 1, !.maxCalls = 2, !.maxActive = 1] :
     r \in {"once", "unique"}, f \in {{}, {"complete"}, {"failed"}}, n \in {0, 1}}

AllFunctions == ManyFunctions \cup FaultyFunctions \cup ConsentFunctions \cup RuleFunctions

\* Everything that loops or waits: retries, reRunIf, callbacks, a confirmation.
LivelyFunctions ==
  {[WithCallbacks EXCEPT !.confirm = TRUE, !.reRun = "fresh", !.maxReRun = 2,
                         !.onPending = 1, !.runOnlyIf = "condition", !.faults = {"cancel"}]}

\* Calls are interchangeable, and so are inputs.
Symmetry == Permutations(Calls) \cup Permutations(Inputs)
=============================================================================
