----------------------------- MODULE MCOperations -----------------------------
(* Operations of every kind that succeed, fail and are repeated, small     *)
(* enough for TLC.                                                         *)
EXTENDS Operations

Plain == [indexed |-> TRUE, login |-> FALSE, list |-> FALSE, items |-> 0, cond |-> FALSE,
          breakIf |-> FALSE, waitFor |-> FALSE, skip |-> FALSE]
Unindexed == [Plain EXCEPT !.indexed = FALSE]
Conditional == [Plain EXCEPT !.cond = TRUE]
Login == [Unindexed EXCEPT !.login = TRUE]
List(n) == [Plain EXCEPT !.list = TRUE, !.items = n]
Broken(n) == [List(n) EXCEPT !.breakIf = TRUE]

Operation(kind, steps, faults) ==
  [kind |-> kind, steps |-> steps, token |-> FALSE, cached |-> {}, session |-> FALSE,
   fixer |-> FALSE, faults |-> faults]

\* Steps of which the second try has some done and some to repeat.
Tables == {Operation(k, <<Plain, Conditional, List(2), Unindexed>>, {"error", "unresolved"}) :
             k \in {"db", "code", "gdrive"}}
Scripts == {[Operation(k, <<Plain, Unindexed, Plain>>, {"error", "prose"}) EXCEPT !.fixer = f,
                                                              !.session = f] :
             k \in {"db", "terminal", "code"}, f \in BOOLEAN}
           \cup {Operation("terminal", <<Plain, List(2), Unindexed>>, {"error"})}
Screens == {Operation("desktop", <<Conditional, [List(2) EXCEPT !.skip = TRUE]>>,
                      {"error", "unresolved"})}
\* Lists of an API, by one goroutine and by two.
Lists1 == {Operation("api_call", <<Plain, [List(3) EXCEPT !.breakIf = b, !.waitFor = w, !.skip = s]>>,
                     {"error", "busy", "cancel", "unresolved"}) :
             <<b, w, s>> \in (BOOLEAN \X BOOLEAN \X BOOLEAN) \ {<<FALSE, FALSE, FALSE>>}}
Lists2 == {Operation("api_call", <<List(n), Plain>>, {"error", "unresolved"}) : n \in {0, 1, 2}}
          \cup {Operation("api_call", <<List(3)>>, {"error"}),
                Operation("api_call", <<List(2)>>, {"busy"}),
                Operation("api_call", <<List(2)>>, {"error", "panic", "cancel"})}
\* Lists behind a login, with credentials that have expired.
Logged == {[Operation("api_call", <<Login, l>>, {"denied", "loginPage"})
              EXCEPT !.token = t, !.cached = c] :
             l \in {Plain, Broken(2)},
             t \in BOOLEAN, c \in {{}, {"cookies", "token"}}}
          \cup {Operation("api_call", <<Login, Broken(2), Plain>>, {"denied"})}
          \cup {Operation("api_call", <<Login, List(2)>>, {"denied"})}

AllOperations == Tables \cup Scripts \cup Screens \cup Lists1 \cup Lists2 \cup Logged
=============================================================================
