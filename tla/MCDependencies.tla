--------------------------- MODULE MCDependencies ---------------------------
(* Small instances of Dependencies for TLC.                                *)
EXTENDS Dependencies, TLC

CONSTANTS f0, f1, f2, f3

On(f) == [name |-> f, params |-> FALSE]
With(f) == [name |-> f, params |-> TRUE]

Plain ==
  [root    |-> f0,
   needs   |-> [f \in Functions |-> <<>>],
   kind    |-> [f \in Functions |-> "tool"],
   home    |-> [f \in Functions |-> 0],
   cached  |-> {},
   handled |-> {},
   called  |-> {},
   faults  |-> FALSE]

\* Each function belongs to the tool of the root, or to a shared one.
Home(S) == [f \in Functions |-> IF f \in S THEN 1 ELSE 0]

\* Two needs that share a third one, with a cache field or without, reached
\* with params or without, in the same tool or in a shared one.
Diamonds ==
  {[Plain EXCEPT !.needs = (f0 :> <<On(f1), On(f2)>>) @@ (f1 :> <<On(f3)>>)
                           @@ (f2 :> <<n>>) @@ (f3 :> <<>>),
                 !.cached = c, !.home = Home(s), !.handled = h, !.faults = h = {}] :
     n \in {On(f3), With(f3)}, c \in {{}, {f3}}, s \in {{}, {f1, f3}},
     h \in {{}, {f1, f3}}}

\* System functions, one of them needed twice, around a function of the tool.
Systems ==
  {[Plain EXCEPT !.needs = [f \in Functions |->
                              IF f = f0 THEN <<n, On(f2), On(f3), On(f1), On(f2), n>>
                              ELSE IF f = f1 THEN <<n>> ELSE <<>>],
                 !.kind = (f0 :> "tool") @@ (f1 :> "tool") @@ (f2 :> k) @@ (f3 :> "message"),
                 !.cached = c] :
     n \in {On(f2), With(f3)}, k \in {"system", "ask"}, c \in {{}, {f1}}}

\* A need that a callback of another need calls as well.
Callbacks ==
  {[Plain EXCEPT !.needs = (f0 :> <<n, On(f1), On(f3)>>) @@ [f \in Functions |-> <<>>],
                 !.called = {f2}, !.handled = {f1, f2, f3}, !.cached = {f3}] :
     n \in {On(f2), With(f2)}}

AllTools == Callbacks \cup Diamonds \cup Systems
=============================================================================
