---------------------------- MODULE WorkflowsProofs ----------------------------
(* For any number of requests, categories and steps: unless a write fails,   *)
(* no workflow is left without steps, however the requests interleave.       *)
(*                                                                           *)
(* The last request to begin deleting rows of a workflow saves it: nobody    *)
(* has read the rows it is going to add, so nobody deletes them.  Each       *)
(* workflow has such a row, in the table or still to be added (Kept).  That  *)
(* a request's rows are new when it begins follows from what is known of all *)
(* rows in the table and in the lists of rows to delete (Old).               *)
(*                                                                           *)
(* Requests one after the other leave the steps of the last one to speak.    *)
EXTENDS Workflows, SequenceTheorems, TLAPS

---------------------------------------------------------------------------
\* The inductive invariant.

Writers == {None} \cup (Requests \X Nat)
Row == [by : Writers, n : Nat]
FlowType == [category : Names \cup {None}, verified : BOOLEAN, steps : Seq(Row)]
Stages == Asking \cup Over \cup
          {"idle", "look", "read", "store", "delete", "add", "fetch", "save", "next", "create"}
RequestType == [kind : Kinds, pc : Stages, attempt : Nat, category : Names \cup {None}, id : Ids \cup {None},
                rename : BOOLEAN, doomed : Seq(Row), left : Seq(Row), todo : Seq(Names)]

Types ==
    /\ flow \in [Ids -> FlowType]
    /\ request \in [Requests -> RequestType]
    /\ broken \in BOOLEAN

\* Stages in which a request has found its workflow, in which it knows the
\* category, and in which it has rows in the table.
Finding == {"read", "merge", "revise", "store", "delete", "add"}
Naming == Finding \cup {"look", "create", "save"}
Writing == {"delete", "add"}
After == {"add", "fetch", "next", "done", "failed"}

\* What a request is about exists.
HeldBy(q) ==
    /\ q.pc \in Finding => q.id \in Ids /\ flow[q.id].category # None
    /\ q.pc \in Naming => q.category \in Names
    /\ q.kind = "categorise" => q.pc \in {"choose", "done", "failed"}
Held == \A r \in Requests : HeldBy(request[r])

\* The rows still to be added are the last ones of what the request writes.
HasRest(q) == q.pc \in Writing \/ (q.pc = "read" /\ q.kind # "generate")
RestOf(r, q) ==
    HasRest(q) =>
        /\ Len(q.left) <= StepsEach /\ (q.pc # "add" => Len(q.left) = StepsEach)
        /\ \A i \in DOMAIN q.left :
             q.left[i] = [by |-> <<r, Len(q.todo)>>, n |-> StepsEach - Len(q.left) + i]
Rests == \A r \in Requests : RestOf(r, request[r])

\* A row that a request with state q has written.
OldTo(q, s) ==
    /\ q.pc # "idle" /\ s.by[2] >= Len(q.todo)
    /\ s.by[2] = Len(q.todo) => q.pc \in After /\ (q.pc = "add" => s.n <= StepsEach - Len(q.left))
Old(s) == s.by # None => OldTo(request[s.by[1]], s)
Past ==
    /\ \A id \in Ids : \A i \in DOMAIN flow[id].steps : Old(flow[id].steps[i])
    /\ \A r \in Requests : \A i \in DOMAIN request[r].doomed : Old(request[r].doomed[i])

\* Row s of workflow id is there to stay.
Deletes(q, id, s) == q.pc = "delete" /\ q.id = id /\ \E i \in DOMAIN q.doomed : q.doomed[i] = s
Adds(q, id, s) == q.pc \in Writing /\ q.id = id /\ \E i \in DOMAIN q.left : q.left[i] = s
Stays(id, s) ==
    /\ \A r \in Requests : ~Deletes(request[r], id, s)
    /\ \/ \E i \in DOMAIN flow[id].steps : flow[id].steps[i] = s
       \/ \E r \in Requests : Adds(request[r], id, s)
Kept == ~broken => \A id \in Ids : flow[id].category # None => \E s \in Row : Stays(id, s)

IInv == Types /\ Held /\ Rests /\ Past /\ Kept

---------------------------------------------------------------------------
\* Rows.

LEMMA Constant ==
    /\ None \notin Requests /\ None \notin Names /\ None \notin Requests \X Nat /\ Names # {} /\ Head(Categories) \in Names
    /\ StepsEach \in Nat /\ StepsEach >= 1 /\ MaxAttempts \in Nat
    /\ Categories \in Seq(Names) /\ \A id \in Ids : id \in Nat
<1>1. Categories \in Seq(STRING) /\ Categories # <<>> 
      /\ None \notin Requests \cup Range(Categories) \cup (Requests \X Nat) /\ StepsEach \in Nat \ {0} /\ MaxAttempts \in Nat \ {0}
    BY ConstantsAssumption
<1>2. Names = {Categories[i] : i \in DOMAIN Categories}
    BY DEF Names, Range
<1>3. Len(Categories) \in Nat /\ Len(Categories) > 0 /\ DOMAIN Categories = 1..Len(Categories)
    BY <1>1
<1>4. Head(Categories) = Categories[1]
    BY <1>1, <1>3
<1>5. Categories \in Seq(Names)
    BY <1>1, <1>2, <1>3
<1> QED
    BY <1>1, <1>2, <1>3, <1>4, <1>5 DEF Names, Ids

\* What a request writes: some rows, all its own.
LEMMA OwnRows ==
    ASSUME NEW w \in Writers
    PROVE  /\ StepsOf(w) \in Seq(Row) /\ Len(StepsOf(w)) = StepsEach
           /\ 1 \in DOMAIN StepsOf(w) /\ StepsOf(w)[1] \in Row
           /\ \A i \in DOMAIN StepsOf(w) : StepsOf(w)[i] = [by |-> w, n |-> i]
<1>1. StepsEach \in Nat /\ StepsEach >= 1
    BY Constant
<1>2. \A n \in 1..StepsEach : [by |-> w, n |-> n] \in Row
    BY <1>1 DEF Row
<1> QED
    BY <1>1, <1>2 DEF StepsOf

LEMMA WithoutRow ==
    ASSUME NEW steps \in Seq(Row), NEW row
    PROVE  /\ Without(steps, row) \in Seq(Row)
           /\ \A i \in DOMAIN Without(steps, row) : \E j \in DOMAIN steps : Without(steps, row)[i] = steps[j]
           /\ \A j \in DOMAIN steps : steps[j] # row =>
                \E i \in DOMAIN Without(steps, row) : Without(steps, row)[i] = steps[j]
<1>1. CASE row \notin Range(steps)
    <2>1. Without(steps, row) = steps
        BY <1>1 DEF Without
    <2> QED
        BY <2>1
<1>2. CASE row \in Range(steps)
    <2> DEFINE k == CHOOSE i \in DOMAIN steps : steps[i] = row
               a == SubSeq(steps, 1, k - 1)
               b == SubSeq(steps, k + 1, Len(steps))
    <2>1. k \in DOMAIN steps /\ steps[k] = row
        BY <1>2 DEF Range
    <2>2. Without(steps, row) = a \o b
        BY <1>2 DEF Without, RemoveAt
    <2> HIDE DEF k
    <2>3. k \in 1..Len(steps) /\ Len(steps) \in Nat
        BY <2>1
    <2>4. /\ a \in Seq(Row) /\ Len(a) = k - 1 /\ \A i \in 1..k - 1 : a[i] = steps[i]
        BY <2>3
    <2>5. /\ b \in Seq(Row) /\ Len(b) = Len(steps) - k /\ \A i \in 1..Len(steps) - k : b[i] = steps[k + i]
        BY <2>3
    <2> HIDE DEF a, b
    <2> DEFINE c == a \o b
    <2>6. /\ c \in Seq(Row) /\ Len(c) = Len(a) + Len(b)
          /\ \A i \in 1..Len(a) + Len(b) : c[i] = IF i <= Len(a) THEN a[i] ELSE b[i - Len(a)]
        BY <2>4, <2>5, ConcatProperties
    <2> HIDE DEF c
    <2>7. /\ DOMAIN c = 1..Len(steps) - 1
          /\ \A i \in 1..k - 1 : i \in DOMAIN c /\ c[i] = steps[i]
        <3>1. Len(a) + Len(b) = Len(steps) - 1 /\ DOMAIN c = 1..Len(steps) - 1
            BY <2>3, <2>4, <2>5, <2>6
        <3>2. ASSUME NEW i \in 1..k - 1 PROVE i \in DOMAIN c /\ c[i] = steps[i]
            <4>1. i \in 1..Len(a) + Len(b) /\ i <= Len(a)
                BY <2>3, <2>4, <3>1
            <4>2. c[i] = a[i]
                BY <2>6, <4>1
            <4> QED
                BY <2>4, <3>1, <4>1, <4>2
        <3> QED
            BY <3>1, <3>2
    <2>8. ASSUME NEW i \in k..Len(steps) - 1 PROVE c[i] = steps[i + 1]
        <3>1. i - (k - 1) \in 1..Len(steps) - k /\ ~(i <= k - 1) /\ i \in 1..Len(a) + Len(b)
            BY <2>3, <2>4, <2>5
        <3>2. c[i] = b[i - (k - 1)]
            BY <2>4, <2>6, <3>1
        <3>3. b[i - (k - 1)] = steps[k + (i - (k - 1))] /\ k + (i - (k - 1)) = i + 1
            BY <2>3, <2>5, <3>1
        <3> QED
            BY <3>2, <3>3
    <2>9. ASSUME NEW i \in DOMAIN c PROVE \E j \in DOMAIN steps : c[i] = steps[j]
        <3>1. CASE i < k
            <4>1. i \in 1..k - 1 /\ i \in DOMAIN steps
                BY <2>3, <2>7, <3>1
            <4> QED
                BY <2>7, <4>1
        <3>2. CASE i >= k
            <4>1. i + 1 \in DOMAIN steps /\ i \in k..Len(steps) - 1
                BY <2>3, <2>7, <3>2
            <4> QED
                BY <2>8, <4>1
        <3> QED
            BY <2>3, <2>7, <3>1, <3>2
    <2>10. ASSUME NEW j \in DOMAIN steps, steps[j] # row PROVE \E i \in DOMAIN c : c[i] = steps[j]
        <3>1. j # k /\ j \in 1..Len(steps)
            BY <2>1, <2>10
        <3>2. CASE j < k
            <4>1. j \in 1..k - 1
                BY <2>3, <3>1, <3>2
            <4> QED
                BY <2>7, <4>1
        <3>3. CASE j > k
            <4>1. j - 1 \in k..Len(steps) - 1 /\ (j - 1) + 1 = j /\ j - 1 \in 1..Len(steps) - 1
                BY <2>3, <3>1, <3>3
            <4>2. j - 1 \in DOMAIN c /\ c[j - 1] = steps[(j - 1) + 1]
                BY <2>7, <2>8, <4>1
            <4> QED
                BY <4>1, <4>2
        <3> QED
            BY <2>3, <3>1, <3>2, <3>3
    <2> QED
        BY <2>2, <2>6, <2>9, <2>10 DEF c
<1> QED
    BY <1>1, <1>2

LEMMA InitIInv == Init => IInv
<1> SUFFICES ASSUME Init PROVE IInv
    OBVIOUS
<1> USE DEF Init
<1>1. PICK verified \in BOOLEAN, there \in BOOLEAN :
        flow = [id \in Ids |->
                  IF id = 1 /\ there
                  THEN [category |-> Head(Categories), verified |-> verified, steps |-> StepsOf(None)]
                  ELSE NoFlow]
    OBVIOUS
<1>2. request = [r \in Requests |-> Idle] /\ broken = FALSE
    OBVIOUS
<1>3. Idle \in RequestType /\ Idle.pc = "idle" /\ Idle.kind = "generate" /\ Idle.doomed = <<>>
    BY DEF Idle, RequestType, Kinds, Stages
<1>4. StepsOf(None) \in Seq(Row) /\ 1 \in DOMAIN StepsOf(None) /\ StepsOf(None)[1] \in Row
      /\ \A i \in DOMAIN StepsOf(None) : StepsOf(None)[i].by = None
    BY OwnRows DEF Writers
<1>5. \A id \in Ids : flow[id] \in FlowType
    BY <1>1, <1>4, Constant DEF FlowType, NoFlow
<1>6. Types
    BY <1>1, <1>2, <1>3, <1>5 DEF Types
<1>7. Held /\ Rests
    BY <1>2, <1>3 DEF Held, HeldBy, Rests, RestOf, HasRest, Finding, Naming, Writing
<1>8. Past
    <2>1. ASSUME NEW id \in Ids, NEW i \in DOMAIN flow[id].steps PROVE Old(flow[id].steps[i])
        BY <1>1, <1>4 DEF NoFlow, Old
    <2> QED
        BY <1>2, <1>3, <2>1 DEF Past
<1>9. Kept
    <2>1. ASSUME NEW id \in Ids, flow[id].category # None
          PROVE  \E s \in Row : Stays(id, s)
        <3>1. flow[id].steps = StepsOf(None)
            BY <1>1, <2>1 DEF NoFlow
        <3>2. Stays(id, StepsOf(None)[1])
            BY <1>2, <1>3, <1>4, <3>1 DEF Stays, Deletes
        <3> QED
            BY <1>4, <3>2
    <2> QED
        BY <2>1 DEF Kept
<1> QED
    BY <1>6, <1>7, <1>8, <1>9 DEF IInv

---------------------------------------------------------------------------
\* Steps.

LEMMA Lengths ==
    ASSUME NEW q \in RequestType
    PROVE  /\ q.left \in Seq(Row) /\ q.doomed \in Seq(Row) /\ q.todo \in Seq(Names)
           /\ Len(q.left) \in Nat /\ Len(q.todo) \in Nat /\ StepsEach \in Nat /\ StepsEach >= 1
<1>1. q.left \in Seq(Row) /\ q.doomed \in Seq(Row) /\ q.todo \in Seq(Names)
    BY DEF RequestType
<1> QED
    BY <1>1, Constant

LEMMA Typed ==
    ASSUME IInv
    PROVE  /\ \A id \in Ids : flow[id] \in FlowType /\ flow[id].steps \in Seq(Row)
           /\ \A r \in Requests : /\ request[r] \in RequestType /\ Len(request[r].todo) \in Nat
                                   /\ request[r].doomed \in Seq(Row) /\ request[r].left \in Seq(Row)
                                   /\ Len(request[r].left) \in Nat /\ Writer(r) \in Writers
                                   /\ Writer(r) = <<r, Len(request[r].todo)>>
<1>1. ASSUME NEW r \in Requests
      PROVE  request[r] \in RequestType /\ Len(request[r].todo) \in Nat
    BY DEF IInv, Types, RequestType
<1> QED
    BY <1>1 DEF IInv, Types, RequestType, FlowType, Writer, Writers

\* Rows known before a request went on are known afterwards.
LEMMA OldStays ==
    ASSUME IInv, NEW r \in Requests, NEW q \in RequestType, request' = [request EXCEPT ![r] = q],
           \/ request[r].pc = "idle"
           \/ q.pc # "idle" /\ Len(q.todo) < Len(request[r].todo)
           \/ /\ q.pc # "idle" /\ q.todo = request[r].todo
              /\ request[r].pc \in After => q.pc \in After
              /\ q.pc = "add" /\ request[r].pc \in After => request[r].pc = "add" /\ Len(q.left) <= Len(request[r].left),
           NEW s \in Row, Old(s)
    PROVE  Old(s)'
<1>1. CASE s.by = None
    BY <1>1 DEF Old
<1>2. CASE s.by # None
    <2>1. PICK x \in Requests, k \in Nat : s.by = <<x, k>>
        BY <1>2 DEF Row, Writers
    <2>2. s.by[1] = x /\ s.by[2] = k /\ s.n \in Nat
        BY <2>1 DEF Row
    <2>3. OldTo(request[x], s)
        BY <1>2, <2>2 DEF Old
    <2>4. CASE x # r
        <3>1. request'[x] = request[x]
            BY <2>1, <2>4, Typed
        <3> QED
            BY <2>2, <2>3, <3>1 DEF Old
    <2>5. CASE x = r
        <3>1. request'[r] = q /\ Len(request[r].todo) \in Nat /\ Len(q.todo) \in Nat
              /\ Len(request[r].left) \in Nat /\ Len(q.left) \in Nat /\ StepsEach \in Nat
            BY Typed, Lengths DEF IInv, Types
        <3>2. OldTo(q, s)
            BY <2>2, <2>3, <2>5, <3>1 DEF OldTo, After
        <3> QED
            BY <2>2, <2>5, <3>1, <3>2 DEF Old
    <2> QED
        BY <2>4, <2>5
<1> QED
    BY <1>1, <1>2

\* What a step of request r, which has state q afterwards, must not break.
LEMMA StepKeeps ==
    ASSUME IInv, NEW r \in Requests, NEW q \in RequestType, request' = [request EXCEPT ![r] = q],
           flow' \in [Ids -> FlowType], broken' \in BOOLEAN,
           \A id \in Ids : flow[id].category # None => flow'[id].category # None,
           HeldBy(q)', RestOf(r, q),
           \/ request[r].pc = "idle"
           \/ q.pc # "idle" /\ Len(q.todo) < Len(request[r].todo)
           \/ /\ q.pc # "idle" /\ q.todo = request[r].todo
              /\ request[r].pc \in After => q.pc \in After
              /\ q.pc = "add" /\ request[r].pc \in After => request[r].pc = "add" /\ Len(q.left) <= Len(request[r].left),
           \A i \in DOMAIN q.doomed : Old(q.doomed[i]),
           \A id \in Ids : \A i \in DOMAIN flow'[id].steps :
             \/ \E j \in DOMAIN flow[id].steps : flow'[id].steps[i] = flow[id].steps[j]
             \/ flow'[id].steps[i].by = <<r, Len(q.todo)>> /\ OldTo(q, flow'[id].steps[i]),
           Kept'
    PROVE  IInv'
<1>1. /\ \A x \in Requests : request'[x] = IF x = r THEN q ELSE request[x]
      /\ \A x \in Requests \ {r} : request'[x] = request[x]
      /\ request'[r] = q
    BY DEF IInv, Types
<1>2. Types'
    BY DEF IInv, Types
<1>3. Held'
    <2> SUFFICES ASSUME NEW x \in Requests PROVE HeldBy(request[x])'
        BY DEF Held
    <2>1. CASE x = r
        BY <1>1, <2>1 DEF HeldBy
    <2>2. CASE x # r
        BY <1>1, <2>2 DEF IInv, Held, HeldBy
    <2> QED
        BY <2>1, <2>2
<1>4. Rests'
    <2> SUFFICES ASSUME NEW x \in Requests PROVE RestOf(x, request'[x])
        BY DEF Rests, RestOf, HasRest
    <2>1. CASE x = r
        BY <1>1, <2>1
    <2>2. CASE x # r
        BY <1>1, <2>2 DEF IInv, Rests
    <2> QED
        BY <2>1, <2>2
<1>5. \A s \in Row : Old(s) => Old(s)'
    BY OldStays
<1>6. Past'
    <2>1. ASSUME NEW id \in Ids, NEW i \in DOMAIN flow'[id].steps PROVE Old(flow[id].steps[i])'
        <3> DEFINE s == flow'[id].steps[i]
        <3>1. CASE \E j \in DOMAIN flow[id].steps : s = flow[id].steps[j]
            BY <1>5, <3>1, Typed DEF IInv, Past
        <3>2. CASE s.by = <<r, Len(q.todo)>> /\ OldTo(q, s)
            BY <1>1, <3>2 DEF Old, OldTo
        <3> QED
            BY <3>1, <3>2
    <2>2. ASSUME NEW x \in Requests, NEW i \in DOMAIN request'[x].doomed PROVE Old(request[x].doomed[i])'
        <3>1. request'[x].doomed \in Seq(Row) /\ Old(request'[x].doomed[i])
            BY <1>1, Typed DEF IInv, Past, RequestType
        <3> QED
            BY <1>5, <3>1
    <2> QED
        BY <2>1, <2>2 DEF Past
<1> QED
    BY <1>2, <1>3, <1>4, <1>6 DEF IInv

\* A request goes on to a stage in which it has no rows to delete or add, and
\* leaves every workflow its steps.
LEMMA CalmKeeps ==
    ASSUME IInv, NEW r \in Requests, NEW q \in RequestType, request' = [request EXCEPT ![r] = q],
           flow' \in [Ids -> FlowType],
           \A id \in Ids : /\ flow'[id].steps = flow[id].steps
                           /\ flow'[id].category = None <=> flow[id].category = None,
           \/ broken' = TRUE
           \/ broken' = broken /\ (request[r].pc \in Writing => request[r].pc = "add" /\ request[r].left = <<>>),
           q.pc \notin Writing \cup {"idle"}, HeldBy(q), RestOf(r, q),
           \/ request[r].pc = "idle" \/ Len(q.todo) < Len(request[r].todo)
           \/ q.todo = request[r].todo /\ (request[r].pc \in After => q.pc \in After),
           \A i \in DOMAIN q.doomed : Old(q.doomed[i])
    PROVE  IInv'
<1>1. /\ \A x \in Requests : request'[x] = IF x = r THEN q ELSE request[x]
      /\ broken' \in BOOLEAN
    BY DEF IInv, Types
<1>2. HeldBy(q)'
    BY DEF HeldBy
<1>3. Kept'
    <2> SUFFICES ASSUME ~broken', NEW id \in Ids, flow'[id].category # None
                 PROVE  \E s \in Row : Stays(id, s)'
        BY DEF Kept
    <2>1. PICK s \in Row : Stays(id, s)
        BY DEF IInv, Kept
    <2>2. ~Adds(request[r], id, s)
        BY DEF Adds
    <2>3. \A x \in Requests : ~Deletes(request[x], id, s)'
        BY <1>1, <2>1 DEF Stays, Deletes, Writing
    <2>4. \A x \in Requests : Adds(request[x], id, s) => Adds(request[x], id, s)'
        BY <1>1, <2>2 DEF Adds
    <2> QED
        BY <2>1, <2>3, <2>4 DEF Stays
<1> QED
    BY <1>1, <1>2, <1>3, StepKeeps DEF Writing

\* The same, when the table stays as it is.
LEMMA QuietKeeps ==
    ASSUME IInv, NEW r \in Requests, NEW q \in RequestType, request' = [request EXCEPT ![r] = q], UNCHANGED flow,
           \/ broken' = TRUE
           \/ broken' = broken /\ (request[r].pc \in Writing => request[r].pc = "add" /\ request[r].left = <<>>),
           q.pc \notin Writing \cup {"idle"}, HeldBy(q), RestOf(r, q),
           \/ request[r].pc = "idle" \/ Len(q.todo) < Len(request[r].todo)
           \/ q.todo = request[r].todo /\ (request[r].pc \in After => q.pc \in After),
           \A i \in DOMAIN q.doomed : Old(q.doomed[i])
    PROVE  IInv'
<1>1. flow' \in [Ids -> FlowType]
    BY DEF IInv, Types
<1> QED
    BY <1>1, CalmKeeps

\* A request begins to write workflow q.id.  Nobody has read the rows that it
\* is going to add.
LEMMA EnterKeeps ==
    ASSUME IInv, NEW r \in Requests, NEW q \in RequestType, request' = [request EXCEPT ![r] = q],
           flow' \in [Ids -> FlowType], UNCHANGED broken,
           request[r].pc \notin Writing \cup After \cup {"idle"},
           q.pc \in Writing, q.kind # "categorise", q.todo = request[r].todo, Len(q.left) = StepsEach, RestOf(r, q),
           q.category \in Names, q.id \in Ids, flow'[q.id].category # None,
           \A id \in Ids \ {q.id} : flow'[id] = flow[id],
           \A i \in DOMAIN flow'[q.id].steps :
             \E j \in DOMAIN flow[q.id].steps : flow'[q.id].steps[i] = flow[q.id].steps[j],
           \A i \in DOMAIN q.doomed : Old(q.doomed[i])
    PROVE  IInv'
<1>1. /\ \A x \in Requests : request'[x] = IF x = r THEN q ELSE request[x]
      /\ broken' \in BOOLEAN
    BY DEF IInv, Types
<1>2. HeldBy(q)'
    BY DEF HeldBy
<1> DEFINE champion == q.left[1]
<1>3. champion \in Row /\ champion.by = <<r, Len(q.todo)>> /\ 1 \in DOMAIN q.left
    <2>1. 1 \in DOMAIN q.left /\ q.left[1] \in Row
        BY Lengths
    <2>2. q.left[1].by = <<r, Len(q.todo)>>
        <3>1. HasRest(q)
            BY DEF HasRest
        <3>2. \A i \in DOMAIN q.left : q.left[i] = [by |-> <<r, Len(q.todo)>>, n |-> StepsEach - Len(q.left) + i]
            BY <3>1 DEF RestOf
        <3>3. q.left[1] = [by |-> <<r, Len(q.todo)>>, n |-> StepsEach - Len(q.left) + 1]
            BY <2>1, <3>2, Zenon
        <3> QED
            BY <3>3
    <2> QED
        BY <2>1, <2>2
<1>4. ~Old(champion)
    <2>1. Len(q.todo) \in Nat
        BY Lengths
    <2>2. champion.by \in Requests \X Nat /\ champion.by[1] = r /\ champion.by[2] = Len(q.todo)
        BY <1>3, <2>1
    <2>3. champion.by # None
        BY <2>2, Constant
    <2> QED
        BY <2>2, <2>3 DEF Old, OldTo, Writing
<1>5. Kept'
    <2> SUFFICES ASSUME ~broken, NEW id \in Ids, flow'[id].category # None
                 PROVE  \E s \in Row : Stays(id, s)'
        BY DEF Kept
    <2>1. CASE id = q.id
        <3>1. \A x \in Requests : \A i \in DOMAIN request'[x].doomed : Old(request'[x].doomed[i])
            BY <1>1 DEF IInv, Past
        <3>2. \A x \in Requests : ~Deletes(request[x], id, champion)'
            BY <1>4, <3>1 DEF Deletes
        <3>3. Adds(request[r], id, champion)'
            BY <1>1, <1>3, <2>1 DEF Adds
        <3> QED
            BY <1>3, <3>2, <3>3 DEF Stays
    <2>2. CASE id # q.id
        <3>1. PICK s \in Row : Stays(id, s)
            BY <2>2 DEF IInv, Kept
        <3>2. ~Adds(request[r], id, s)
            BY DEF Adds
        <3>3. \A x \in Requests : ~Deletes(request[x], id, s)'
            BY <1>1, <2>2, <3>1 DEF Stays, Deletes
        <3>4. \A x \in Requests : Adds(request[x], id, s) => Adds(request[x], id, s)'
            BY <1>1, <3>2 DEF Adds
        <3> QED
            BY <2>2, <3>1, <3>3, <3>4 DEF Stays
    <2> QED
        BY <2>1, <2>2
<1>6. \A id \in Ids : flow[id].category # None => flow'[id].category # None
    OBVIOUS
<1>7. \A id \in Ids : \A i \in DOMAIN flow'[id].steps :
        \E j \in DOMAIN flow[id].steps : flow'[id].steps[i] = flow[id].steps[j]
    OBVIOUS
<1> QED
    BY <1>1, <1>2, <1>5, <1>6, <1>7, StepKeeps DEF Writing

LEMMA PlaceOf ==
    ASSUME IInv, NEW r \in Requests
    PROVE  /\ request[r] \in RequestType /\ HeldBy(request[r]) /\ RestOf(r, request[r])
           /\ \A i \in DOMAIN request[r].doomed : Old(request[r].doomed[i])
           /\ request[r].pc \in Stages /\ Len(request[r].todo) \in Nat
           /\ \A id \in Find(request[r].category) : id \in Ids /\ flow[id].category = request[r].category
BY Typed DEF IInv, Held, Rests, Past, RequestType, Find

\* Steps that leave the table as it is.
LEMMA ArriveKeeps ==
    ASSUME IInv, NEW r \in Requests, Arrive(r)
    PROVE  IInv'
<1>1. PICK kind \in Kinds, rename \in BOOLEAN :
        request' = [request EXCEPT ![r] =
            [Idle EXCEPT !.kind = kind, !.rename = rename,
                !.category = IF kind = "feedback" THEN Head(Categories) ELSE None,
                !.todo = IF kind = "sync" THEN Categories ELSE <<>>,
                !.pc = CASE kind = "generate" -> "design"
                         [] kind = "categorise" -> "choose"
                         [] kind = "feedback" -> "look"
                         [] kind = "sync" -> "next"]]
    BY DEF Arrive, Becomes
<1>2. request[r].pc = "idle" /\ UNCHANGED <<flow, broken>>
    BY DEF Arrive, At, Stored
<1> DEFINE stage == CASE kind = "generate" -> "design"
                         [] kind = "categorise" -> "choose"
                         [] kind = "feedback" -> "look"
                         [] kind = "sync" -> "next"
           c == IF kind = "feedback" THEN Head(Categories) ELSE None
           rest == IF kind = "sync" THEN Categories ELSE <<>>
           q == [Idle EXCEPT !.kind = kind, !.rename = rename, !.category = c, !.todo = rest, !.pc = stage]
<1>3. /\ stage \in {"design", "choose", "look", "next"} /\ (stage = "look" => c \in Names)
      /\ kind = "categorise" => stage = "choose"
      /\ c \in Names \cup {None} /\ rest \in Seq(Names)
    BY Constant DEF Kinds
<1>4. request' = [request EXCEPT ![r] = q]
    BY <1>1
<1> HIDE DEF stage, c, rest
<1>5. stage \in Stages /\ stage \notin Writing \cup Finding \cup {"idle"}
      /\ (stage \in Naming => stage = "look")
    BY <1>3 DEF Stages, Asking, Writing, Finding, Naming
<1>6. q \in RequestType /\ q.pc = stage /\ q.category = c /\ q.doomed = <<>> /\ q.kind = kind
    <2>1. Idle \in RequestType /\ Idle.doomed = <<>>
        BY DEF Idle, RequestType, Kinds, Stages
    <2> QED
        BY <1>3, <1>5, <2>1 DEF RequestType
<1>7. HeldBy(q) /\ RestOf(r, q)
    <2> HIDE DEF q
    <2> QED
        BY <1>3, <1>5, <1>6 DEF HeldBy, RestOf, HasRest, Finding
<1>8. q.pc \notin Writing \cup {"idle"} /\ \A i \in DOMAIN q.doomed : Old(q.doomed[i])
    BY <1>5, <1>6
<1> HIDE DEF q
<1> QED
    BY <1>2, <1>4, <1>6, <1>7, <1>8, QuietKeeps DEF Writing

LEMMA FailsKeeps ==
    ASSUME IInv, NEW r \in Requests, Fails(r) \/ AskFails(r)
    PROVE  IInv'
<1> DEFINE q == [request[r] EXCEPT !.pc = "failed"]
<1>1. /\ request' = [request EXCEPT ![r] = q] /\ UNCHANGED flow
      /\ broken' = TRUE \/ (broken' = broken /\ request[r].pc \notin Writing)
    BY DEF Fails, AskFails, Becomes, At, Stored, Asking, Writing
<1>2. request[r] \in RequestType /\ \A i \in DOMAIN request[r].doomed : Old(request[r].doomed[i])
    BY PlaceOf
<1>3. q \in RequestType /\ q.pc = "failed" /\ q.doomed = request[r].doomed /\ q.todo = request[r].todo
    BY <1>2 DEF RequestType, Stages, Over
<1> HIDE DEF q
<1>4. HeldBy(q) /\ RestOf(r, q)
    BY <1>3 DEF HeldBy, RestOf, HasRest, Finding, Naming, Writing
<1> QED
    BY <1>1, <1>2, <1>3, <1>4, QuietKeeps DEF Writing, After

LEMMA AskAgainKeeps ==
    ASSUME IInv, NEW r \in Requests, AskAgain(r)
    PROVE  IInv'
<1> DEFINE q == [request[r] EXCEPT !.attempt = @ + 1]
<1>1. request' = [request EXCEPT ![r] = q] /\ UNCHANGED <<flow, broken>> /\ request[r].pc \in Asking
    BY DEF AskAgain, Becomes, At, Stored
<1>2. /\ request[r] \in RequestType /\ \A i \in DOMAIN request[r].doomed : Old(request[r].doomed[i])
      /\ HeldBy(request[r])
    BY PlaceOf
<1>3. /\ q \in RequestType /\ q.pc = request[r].pc /\ q.kind = request[r].kind /\ q.doomed = request[r].doomed /\ q.todo = request[r].todo
      /\ q.id = request[r].id /\ q.category = request[r].category
    <2>1. request[r].attempt + 1 \in Nat
        BY <1>2 DEF RequestType
    <2> QED
        BY <1>2, <2>1 DEF RequestType
<1> HIDE DEF q
<1>4. HeldBy(q) /\ RestOf(r, q)
    BY <1>1, <1>2, <1>3 DEF HeldBy, RestOf, HasRest, Writing, Asking
<1> QED
    BY <1>1, <1>2, <1>3, <1>4, QuietKeeps DEF Writing, After, Asking

LEMMA UseKeeps ==
    ASSUME IInv, NEW r \in Requests, Use(r)
    PROVE  IInv'
<1>1. PICK c \in Names :
        request' = [request EXCEPT ![r] = [request[r] EXCEPT !.attempt = 1,
                    !.category = IF request[r].pc \in {"design", "revise"} THEN c ELSE @,
                    !.pc = CASE @ = "choose" -> "done"
                             [] @ = "design" -> "look"
                             [] @ \in {"merge", "revise"} -> "store"]]
    BY DEF Use, Becomes
<1>2. UNCHANGED <<flow, broken>> /\ request[r].pc \in Asking
    BY DEF Use, At, Stored
<1> DEFINE q == [request[r] EXCEPT !.attempt = 1,
                    !.category = IF request[r].pc \in {"design", "revise"} THEN c ELSE @,
                    !.pc = CASE @ = "choose" -> "done"
                             [] @ = "design" -> "look"
                             [] @ \in {"merge", "revise"} -> "store"]
<1>3. /\ request[r] \in RequestType /\ \A i \in DOMAIN request[r].doomed : Old(request[r].doomed[i])
      /\ HeldBy(request[r])
    BY PlaceOf
<1>4. q \in RequestType
    BY <1>2, <1>3 DEF RequestType, Asking, Stages, Over
<1>5. /\ q.pc \in {"done", "look", "store"} /\ q.doomed = request[r].doomed /\ q.todo = request[r].todo
      /\ q.id = request[r].id
      /\ q.kind = request[r].kind /\ (q.pc # "done" => request[r].pc # "choose")
      /\ q.pc = "store" => request[r].pc \in {"merge", "revise"}
      /\ q.pc # "done" => (q.category = c \/ (q.category = request[r].category /\ request[r].pc = "merge"))
    BY <1>2, <1>3 DEF RequestType, Asking
<1>6. HeldBy(q) /\ RestOf(r, q)
    <2> HIDE DEF q
    <2>1. q.pc # "done" => request[r].kind # "categorise"
        BY <1>2, <1>3, <1>5 DEF HeldBy, Asking
    <2> QED
        BY <1>3, <1>5, <2>1 DEF HeldBy, RestOf, HasRest, Writing, Finding, Naming
<1> QED
    <2>1. request' = [request EXCEPT ![r] = q]
        BY <1>1
    <2> HIDE DEF q
    <2> QED
        BY <1>2, <1>3, <1>4, <1>5, <1>6, <2>1, QuietKeeps DEF Writing, After, Asking

LEMMA LookKeeps ==
    ASSUME IInv, NEW r \in Requests, Look(r)
    PROVE  IInv'
<1> DEFINE old == request[r]
           found(id) == [old EXCEPT !.id = id,
                  !.pc = CASE old.kind = "feedback" -> "revise"
                           [] flow[id].verified -> IF old.kind = "sync" THEN "next" ELSE "done"
                           [] ~flow[id].verified /\ old.kind = "generate" -> "read"
                           [] ~flow[id].verified /\ old.kind = "sync" -> "store"]
           goes(stage) == [old EXCEPT !.pc = stage]
<1>1. /\ UNCHANGED <<flow, broken>> /\ old.pc = "look"
      /\ \/ \E id \in Find(old.category) : request' = [request EXCEPT ![r] = found(id)]
         \/ \E stage \in {"create", "save", "failed"} : request' = [request EXCEPT ![r] = goes(stage)]
    BY DEF Look, Becomes, At, Stored
<1>2. /\ old \in RequestType /\ \A i \in DOMAIN old.doomed : Old(old.doomed[i])
      /\ old.category \in Names /\ None \notin Names /\ old.kind # "categorise"
    BY <1>1, PlaceOf, Constant DEF HeldBy, Naming
<1>3. CASE \E id \in Find(old.category) : request' = [request EXCEPT ![r] = found(id)]
    <2>1. PICK id \in Find(old.category) : request' = [request EXCEPT ![r] = found(id)]
        BY <1>3
    <2>2. id \in Ids /\ flow[id].category # None /\ flow[id].verified \in BOOLEAN
        BY <1>2, PlaceOf, Typed DEF FlowType
    <2> DEFINE stage == CASE old.kind = "feedback" -> "revise"
                           [] flow[id].verified -> IF old.kind = "sync" THEN "next" ELSE "done"
                           [] ~flow[id].verified /\ old.kind = "generate" -> "read"
                           [] ~flow[id].verified /\ old.kind = "sync" -> "store"
               q == [old EXCEPT !.id = id, !.pc = stage]
    <2>3. request' = [request EXCEPT ![r] = q]
        BY <2>1
    <2>4. /\ stage \in {"revise", "next", "done", "read", "store"}
          /\ stage = "read" => old.kind = "generate"
          /\ old.kind # "categorise"
        <3>1. old.kind \in {"generate", "feedback", "sync"}
            BY <1>1, <1>2, PlaceOf DEF RequestType, Kinds, HeldBy
        <3> QED
            BY <2>2, <3>1
    <2> HIDE DEF stage
    <2>5. /\ q \in RequestType /\ q.pc = stage /\ q.id = id /\ q.category = old.category /\ q.kind = old.kind
          /\ q.doomed = old.doomed /\ q.todo = old.todo
        BY <1>2, <2>2, <2>4 DEF RequestType, Stages, Over, Asking
    <2> HIDE DEF q, old
    <2>6. HeldBy(q) /\ RestOf(r, q)
        BY <1>2, <2>2, <2>4, <2>5 DEF HeldBy, RestOf, HasRest, Writing
    <2> QED
        BY <1>1, <1>2, <2>3, <2>4, <2>5, <2>6, QuietKeeps DEF Writing, After, old
<1>4. CASE \E stage \in {"create", "save", "failed"} : request' = [request EXCEPT ![r] = goes(stage)]
    <2>1. PICK stage \in {"create", "save", "failed"} : request' = [request EXCEPT ![r] = goes(stage)]
        BY <1>4
    <2> DEFINE q == goes(stage)
    <2>2. /\ q \in RequestType /\ q.pc = stage /\ q.category = old.category /\ q.kind = old.kind
          /\ q.doomed = old.doomed /\ q.todo = old.todo
        BY <1>2 DEF RequestType, Stages, Over, Asking
    <2> HIDE DEF q, goes
    <2>3. HeldBy(q) /\ RestOf(r, q)
        <3>1. q.pc \notin Finding /\ q.category \in Names /\ q.kind # "categorise" /\ ~HasRest(q)
            BY <1>2, <2>2 DEF HasRest, Writing, Finding
        <3> QED
            BY <3>1 DEF HeldBy, RestOf
    <2>4. request' = [request EXCEPT ![r] = q]
        BY <2>1 DEF q
    <2> QED
        BY <1>1, <1>2, <2>2, <2>3, <2>4, QuietKeeps DEF Writing, After
<1> QED
    BY <1>1, <1>3, <1>4

LEMMA ReadKeeps ==
    ASSUME IInv, NEW r \in Requests, Read(r)
    PROVE  IInv'
<1> DEFINE old == request[r]
           stage == IF old.kind = "generate" THEN "merge" ELSE "delete"
           q == [old EXCEPT !.doomed = flow[old.id].steps, !.pc = stage]
<1>1. request' = [request EXCEPT ![r] = q] /\ UNCHANGED <<flow, broken>> /\ old.pc = "read"
    BY DEF Read, Becomes, At, Stored
<1>2. /\ old \in RequestType /\ old.id \in Ids /\ old.category \in Names /\ old.kind # "categorise"
      /\ flow[old.id].category # None /\ RestOf(r, old)
    BY <1>1, PlaceOf DEF HeldBy, Finding, Naming
<1>3. flow[old.id].steps \in Seq(Row) /\ \A i \in DOMAIN flow[old.id].steps : Old(flow[old.id].steps[i])
    BY <1>2, Typed DEF IInv, Past
<1>4. stage \in {"merge", "delete"}
    OBVIOUS
<1>5. stage \in Stages
    BY <1>4 DEF Stages, Asking
<1>6. /\ q \in RequestType /\ q.pc = stage /\ q.id = old.id /\ q.category = old.category /\ q.kind = old.kind
      /\ q.doomed = flow[old.id].steps /\ q.todo = old.todo /\ q.left = old.left
    BY <1>2, <1>3, <1>5 DEF RequestType
<1>7. flow' \in [Ids -> FlowType]
    BY <1>1 DEF IInv, Types
<1> HIDE DEF q
<1>8. CASE old.kind = "generate"
    <2>1. q.pc = "merge" /\ HeldBy(q) /\ RestOf(r, q)
        BY <1>2, <1>6, <1>8 DEF HeldBy, RestOf, HasRest, Writing
    <2> QED
        BY <1>1, <1>3, <1>6, <2>1, QuietKeeps DEF Writing, After
<1>9. CASE old.kind # "generate"
    <2>1. q.pc = "delete" /\ Len(q.left) = StepsEach /\ RestOf(r, q)
        BY <1>1, <1>2, <1>6, <1>9 DEF RestOf, HasRest, Writing
    <2> QED
        BY <1>1, <1>2, <1>3, <1>6, <1>7, <2>1, EnterKeeps DEF Writing, After
<1> QED
    BY <1>8, <1>9

LEMMA FetchKeeps ==
    ASSUME IInv, NEW r \in Requests, Fetch(r)
    PROVE  IInv'
<1>1. PICK stage \in Over : request' = [request EXCEPT ![r] = [request[r] EXCEPT !.pc = stage]]
    BY DEF Fetch, Becomes, Over
<1>2. UNCHANGED <<flow, broken>> /\ request[r].pc = "fetch"
    BY DEF Fetch, At, Stored
<1> DEFINE q == [request[r] EXCEPT !.pc = stage]
<1>3. request[r] \in RequestType /\ \A i \in DOMAIN request[r].doomed : Old(request[r].doomed[i])
    BY PlaceOf
<1>4. q \in RequestType /\ q.pc = stage /\ q.doomed = request[r].doomed /\ q.todo = request[r].todo
    BY <1>3 DEF RequestType, Stages
<1> HIDE DEF q
<1>5. HeldBy(q) /\ RestOf(r, q)
    BY <1>4 DEF HeldBy, RestOf, HasRest, Finding, Naming, Writing, Over
<1>6. request' = [request EXCEPT ![r] = q]
    BY <1>1 DEF q
<1> QED
    BY <1>2, <1>3, <1>4, <1>5, <1>6, QuietKeeps DEF Writing, After, Over

LEMMA NextWorkflowKeeps ==
    ASSUME IInv, NEW r \in Requests, NextWorkflow(r)
    PROVE  IInv'
<1> DEFINE old == request[r]
           over == [old EXCEPT !.pc = "done"]
           next == [old EXCEPT !.category = Head(old.todo), !.todo = Tail(old.todo), !.pc = "look"]
<1>1. /\ request' = [request EXCEPT ![r] = IF old.todo = <<>> THEN over ELSE next]
      /\ UNCHANGED <<flow, broken>> /\ old.pc = "next"
    BY DEF NextWorkflow, Becomes, At, Stored
<1>2. /\ old \in RequestType /\ \A i \in DOMAIN old.doomed : Old(old.doomed[i])
      /\ old.kind # "categorise"
    BY <1>1, PlaceOf DEF HeldBy
<1>3. CASE old.todo = <<>>
    <2>1. /\ over \in RequestType /\ over.pc = "done" /\ over.doomed = old.doomed /\ over.todo = old.todo
        BY <1>2 DEF RequestType, Stages, Over
    <2>2. request' = [request EXCEPT ![r] = over]
        BY <1>1, <1>3
    <2> HIDE DEF over
    <2>3. HeldBy(over) /\ RestOf(r, over)
        BY <2>1 DEF HeldBy, RestOf, HasRest, Finding, Naming, Writing
    <2> QED
        BY <1>1, <1>2, <2>1, <2>2, <2>3, QuietKeeps DEF Writing, After
<1>4. CASE old.todo # <<>>
    <2>1. /\ Head(old.todo) \in Names /\ Tail(old.todo) \in Seq(Names)
          /\ Len(Tail(old.todo)) < Len(old.todo)
        BY <1>2, <1>4, Lengths
    <2>2. /\ next \in RequestType /\ next.pc = "look" /\ next.doomed = old.doomed /\ next.todo = Tail(old.todo)
          /\ next.category \in Names /\ next.kind = old.kind
        BY <1>2, <2>1 DEF RequestType, Stages
    <2>3. request' = [request EXCEPT ![r] = next]
        BY <1>1, <1>4
    <2> HIDE DEF next
    <2>4. HeldBy(next) /\ RestOf(r, next)
        BY <1>2, <2>2 DEF HeldBy, RestOf, HasRest, Finding, Writing
    <2> QED
        BY <1>1, <1>2, <2>1, <2>2, <2>3, <2>4, QuietKeeps DEF Writing
<1> QED
    BY <1>3, <1>4

LEMMA CompleteKeeps ==
    ASSUME IInv, NEW r \in Requests, Complete(r)
    PROVE  IInv'
<1> DEFINE old == request[r]
           stage == CASE old.kind = "feedback" -> "done" [] old.kind = "sync" -> "next"
                      [] old.kind = "generate" -> "fetch"
           q == [old EXCEPT !.pc = stage]
<1>1. request' = [request EXCEPT ![r] = q] /\ UNCHANGED <<flow, broken>> /\ old.pc = "add" /\ old.left = <<>>
    BY DEF Complete, Becomes, At
<1>2. /\ old \in RequestType /\ \A i \in DOMAIN old.doomed : Old(old.doomed[i])
      /\ old.kind \in {"generate", "feedback", "sync"}
    BY <1>1, PlaceOf DEF HeldBy, RequestType, Kinds
<1>3. stage \in {"done", "next", "fetch"}
    BY <1>2
<1> HIDE DEF stage
<1>4. /\ q \in RequestType /\ q.pc = stage /\ q.doomed = old.doomed /\ q.todo = old.todo /\ q.kind = old.kind
    BY <1>2, <1>3 DEF RequestType, Stages, Over
<1> HIDE DEF q
<1>5. HeldBy(q) /\ RestOf(r, q)
    BY <1>2, <1>3, <1>4 DEF HeldBy, RestOf, HasRest, Finding, Naming, Writing
<1> QED
    BY <1>1, <1>2, <1>3, <1>4, <1>5, QuietKeeps DEF Writing, After

---------------------------------------------------------------------------
\* Steps that write the table.

\* The rows a request writes, when it begins.
LEMMA FreshRows ==
    ASSUME IInv, NEW r \in Requests, NEW q \in RequestType, q.left = StepsOf(Writer(r)),
           q.todo = request[r].todo
    PROVE  Len(q.left) = StepsEach /\ RestOf(r, q)
<1>1. /\ Writer(r) = <<r, Len(q.todo)>> /\ Len(q.left) = StepsEach
      /\ \A i \in DOMAIN q.left : q.left[i] = [by |-> <<r, Len(q.todo)>>, n |-> i]
    BY Typed, OwnRows
<1>2. q.left \in Seq(Row) /\ StepsEach \in Nat
    BY Lengths
<1>3. ASSUME NEW i \in DOMAIN q.left
      PROVE  q.left[i] = [by |-> <<r, Len(q.todo)>>, n |-> StepsEach - Len(q.left) + i]
    <2>1. StepsEach - Len(q.left) + i = i
        BY <1>1, <1>2
    <2> QED
        BY <1>1, <2>1
<1>4. Len(q.left) <= StepsEach
    BY <1>1, <1>2
<1> QED
    BY <1>1, <1>3, <1>4 DEF RestOf

LEMMA StoreKeeps ==
    ASSUME IInv, NEW r \in Requests, Store(r)
    PROVE  IInv'
<1> DEFINE old == request[r]
           stage == IF old.kind = "generate" THEN "delete" ELSE "read"
           q == [old EXCEPT !.left = StepsOf(Writer(r)), !.pc = stage]
           fails == [old EXCEPT !.pc = "failed"]
           after == [flow EXCEPT ![old.id].category = old.category, ![old.id].verified = Verifies(r)]
<1>1. /\ UNCHANGED broken /\ old.pc = "store"
      /\ \/ flow' = after /\ request' = [request EXCEPT ![r] = q]
         \/ UNCHANGED flow /\ request' = [request EXCEPT ![r] = fails]
    BY DEF Store, Becomes, At
<1>2. /\ old \in RequestType /\ old.id \in Ids /\ old.category \in Names /\ old.kind # "categorise"
      /\ None \notin Names /\ flow[old.id].category # None /\ \A i \in DOMAIN old.doomed : Old(old.doomed[i])
    BY <1>1, PlaceOf, Constant DEF HeldBy, Finding, Naming
<1>3. CASE UNCHANGED flow /\ request' = [request EXCEPT ![r] = fails]
    <2>1. fails \in RequestType /\ fails.pc = "failed" /\ fails.doomed = old.doomed /\ fails.todo = old.todo
        BY <1>2 DEF RequestType, Stages, Over
    <2> HIDE DEF fails
    <2>2. HeldBy(fails) /\ RestOf(r, fails)
        BY <2>1 DEF HeldBy, RestOf, HasRest, Finding, Naming, Writing
    <2> QED
        BY <1>1, <1>2, <1>3, <2>1, <2>2, QuietKeeps DEF Writing, After
<1>4. CASE flow' = after /\ request' = [request EXCEPT ![r] = q]
    <2>1. Verifies(r) \in BOOLEAN /\ flow \in [Ids -> FlowType]
        BY DEF Verifies, IInv, Types
    <2>2. /\ after \in [Ids -> FlowType]
          /\ after[old.id].category = old.category /\ after[old.id].steps = flow[old.id].steps
          /\ \A id \in Ids \ {old.id} : after[id] = flow[id]
        BY <1>2, <2>1 DEF FlowType
    <2>3. StepsOf(Writer(r)) \in Seq(Row)
        BY Typed, OwnRows
    <2>4. stage \in Stages
        BY DEF Stages
    <2>5. /\ q \in RequestType /\ q.pc = stage /\ q.id = old.id /\ q.category = old.category /\ q.kind = old.kind
          /\ q.doomed = old.doomed /\ q.todo = old.todo /\ q.left = StepsOf(Writer(r))
        BY <1>2, <2>3, <2>4 DEF RequestType
    <2> HIDE DEF q, after
    <2>6. Len(q.left) = StepsEach /\ RestOf(r, q)
        BY <2>5, FreshRows
    <2>7. CASE old.kind = "generate"
        <3>1. flow'[q.id].category # None /\ (\A id \in Ids \ {q.id} : flow'[id] = flow[id])
              /\ flow'[q.id].steps = flow[q.id].steps /\ flow' \in [Ids -> FlowType]
            BY <1>2, <1>4, <2>2, <2>5
        <3> QED
            BY <1>1, <1>2, <1>4, <2>5, <2>6, <2>7, <3>1, EnterKeeps DEF Writing, After
    <2>8. CASE old.kind # "generate"
        <3>1. \A id \in Ids : /\ flow'[id].steps = flow[id].steps
                              /\ flow'[id].category = None <=> flow[id].category = None
            BY <1>2, <1>4, <2>2
        <3>2. HeldBy(q)
            BY <1>2, <2>5, <2>8 DEF HeldBy
        <3> QED
            BY <1>1, <1>2, <1>4, <2>2, <2>5, <2>6, <2>8, <3>1, <3>2, CalmKeeps DEF Writing, After
    <2> QED
        BY <2>7, <2>8
<1> QED
    BY <1>1, <1>3, <1>4

LEMMA CreateKeeps ==
    ASSUME IInv, NEW r \in Requests, Create(r)
    PROVE  IInv'
<1> DEFINE old == request[r]
           q(id) == [old EXCEPT !.id = id, !.left = StepsOf(Writer(r)), !.pc = "add"]
           fails == [old EXCEPT !.pc = "failed"]
           after(id) == [flow EXCEPT ![id] = [NoFlow EXCEPT !.category = old.category]]
<1>1. /\ old.pc = "create"
      /\ \/ \E id \in Free : flow' = after(id) /\ request' = [request EXCEPT ![r] = q(id)] /\ UNCHANGED broken
         \/ UNCHANGED flow /\ request' = [request EXCEPT ![r] = fails] /\ broken' = TRUE
    BY DEF Create, Becomes, At
<1>2. /\ old \in RequestType /\ old.category \in Names /\ old.kind # "categorise"
      /\ None \notin Names /\ \A i \in DOMAIN old.doomed : Old(old.doomed[i])
    BY <1>1, PlaceOf, Constant DEF HeldBy, Naming
<1>3. CASE UNCHANGED flow /\ request' = [request EXCEPT ![r] = fails] /\ broken' = TRUE
    <2>1. fails \in RequestType /\ fails.pc = "failed" /\ fails.doomed = old.doomed /\ fails.todo = old.todo
        BY <1>2 DEF RequestType, Stages, Over
    <2> HIDE DEF fails
    <2>2. HeldBy(fails) /\ RestOf(r, fails)
        BY <2>1 DEF HeldBy, RestOf, HasRest, Finding, Naming, Writing
    <2> QED
        BY <1>1, <1>2, <1>3, <2>1, <2>2, QuietKeeps DEF Writing, After
<1>4. ASSUME NEW id \in Free, flow' = after(id), request' = [request EXCEPT ![r] = q(id)], UNCHANGED broken
      PROVE  IInv'
    <2> DEFINE p == q(id)
    <2>1. id \in Ids /\ flow \in [Ids -> FlowType]
        BY DEF Free, IInv, Types
    <2>2. /\ flow' \in [Ids -> FlowType]
          /\ flow'[id].category = old.category /\ flow'[id].steps = <<>>
          /\ \A x \in Ids \ {id} : flow'[x] = flow[x]
        <3> DEFINE new == [NoFlow EXCEPT !.category = old.category]
        <3>1. new \in FlowType /\ new.category = old.category /\ new.steps = <<>>
            <4>1. NoFlow \in FlowType /\ NoFlow.steps = <<>>
                BY DEF FlowType, NoFlow
            <4> QED
                BY <1>2, <4>1 DEF FlowType
        <3> HIDE DEF new
        <3>2. flow' = [flow EXCEPT ![id] = new]
            BY <1>4 DEF new
        <3> QED
            BY <2>1, <3>1, <3>2
    <2>3. StepsOf(Writer(r)) \in Seq(Row)
        BY Typed, OwnRows
    <2>4. /\ p \in RequestType /\ p.pc = "add" /\ p.id = id /\ p.category = old.category /\ p.kind = old.kind
          /\ p.doomed = old.doomed /\ p.todo = old.todo /\ p.left = StepsOf(Writer(r))
        BY <1>2, <2>1, <2>3 DEF RequestType, Stages
    <2>5. request' = [request EXCEPT ![r] = p]
        BY <1>4
    <2> HIDE DEF p
    <2>6. Len(p.left) = StepsEach /\ RestOf(r, p)
        BY <2>4, FreshRows
    <2>7. \A i \in DOMAIN flow'[p.id].steps :
            \E j \in DOMAIN flow[p.id].steps : flow'[p.id].steps[i] = flow[p.id].steps[j]
        BY <2>2, <2>4
    <2> QED
        BY <1>1, <1>2, <1>4, <2>1, <2>2, <2>4, <2>5, <2>6, <2>7, EnterKeeps DEF Writing, After
<1> QED
    BY <1>1, <1>3, <1>4

LEMMA DeleteKeeps ==
    ASSUME IInv, NEW r \in Requests, Delete(r)
    PROVE  IInv'
<1> DEFINE old == request[r]
<1>1. old.pc = "delete" /\ UNCHANGED broken
    BY DEF Delete, At
<1>2. /\ old \in RequestType /\ old.id \in Ids /\ old.category \in Names /\ old.kind # "categorise"
      /\ flow[old.id].category # None /\ (\A i \in DOMAIN old.doomed : Old(old.doomed[i])) /\ RestOf(r, old)
    BY <1>1, PlaceOf DEF HeldBy, Finding, Naming
<1>3. flow \in [Ids -> FlowType] /\ broken \in BOOLEAN /\ Types
    BY DEF IInv, Types
<1>4. CASE old.doomed = <<>>
    <2>0. PICK q : q = [old EXCEPT !.pc = "add"]
        OBVIOUS
    <2>1. request' = [request EXCEPT ![r] = q] /\ UNCHANGED flow
        BY <1>4, <2>0 DEF Delete, Becomes
    <2>2. /\ q \in RequestType /\ q.pc = "add" /\ q.id = old.id /\ q.category = old.category /\ q.kind = old.kind
          /\ q.doomed = old.doomed /\ q.todo = old.todo /\ q.left = old.left
        BY <1>2, <2>0 DEF RequestType, Stages
    <2>3. HeldBy(q)' /\ RestOf(r, q)
        BY <1>1, <1>2, <2>1, <2>2 DEF HeldBy, RestOf, HasRest, Writing
    <2>4. Kept'
        <3> SUFFICES ASSUME ~broken, NEW id \in Ids, flow[id].category # None
                     PROVE  \E s \in Row : Stays(id, s)'
            BY <1>1, <2>1 DEF Kept
        <3>1. PICK s \in Row : Stays(id, s)
            BY DEF IInv, Kept
        <3>2. /\ \A x \in Requests : request'[x] = IF x = r THEN q ELSE request[x]
            BY <1>3, <2>1 DEF Types
        <3>3. \A x \in Requests : ~Deletes(request[x], id, s)'
            BY <2>2, <3>1, <3>2 DEF Stays, Deletes
        <3>4. \A x \in Requests : Adds(request[x], id, s) => Adds(request[x], id, s)'
            BY <2>2, <3>2 DEF Adds, Writing
        <3> QED
            BY <2>1, <3>1, <3>3, <3>4 DEF Stays
    <2> QED
        BY <1>1, <1>2, <1>3, <2>1, <2>2, <2>3, <2>4, StepKeeps DEF After
<1>5. CASE old.doomed # <<>>
    <2>0. PICK q : q = [old EXCEPT !.doomed = Tail(old.doomed)]
        OBVIOUS
    <2> DEFINE gone == Head(old.doomed)
               steps == flow[old.id].steps
               after == [flow EXCEPT ![old.id].steps = Without(steps, gone)]
    <2>1. request' = [request EXCEPT ![r] = q] /\ flow' = after
        BY <1>5, <2>0 DEF Delete, Becomes
    <2>2. /\ old.doomed \in Seq(Row) /\ Tail(old.doomed) \in Seq(Row) /\ 1 \in DOMAIN old.doomed
          /\ gone = old.doomed[1]
          /\ \A i \in DOMAIN Tail(old.doomed) : i + 1 \in DOMAIN old.doomed /\ Tail(old.doomed)[i] = old.doomed[i + 1]
        BY <1>2, <1>5, Lengths
    <2>3. /\ q \in RequestType /\ q.pc = "delete" /\ q.id = old.id /\ q.category = old.category /\ q.kind = old.kind
          /\ q.doomed = Tail(old.doomed) /\ q.todo = old.todo /\ q.left = old.left
        BY <1>1, <1>2, <2>0, <2>2 DEF RequestType
    <2>4a. steps \in Seq(Row)
        BY <1>2, Typed
    <2> HIDE DEF gone, steps
    <2>4. /\ Without(steps, gone) \in Seq(Row)
          /\ \A i \in DOMAIN Without(steps, gone) : \E j \in DOMAIN steps : Without(steps, gone)[i] = steps[j]
          /\ \A j \in DOMAIN steps : steps[j] # gone =>
                \E i \in DOMAIN Without(steps, gone) : Without(steps, gone)[i] = steps[j]
        BY <2>4a, WithoutRow
    <2>5. /\ flow' \in [Ids -> FlowType]
          /\ \A id \in Ids : flow'[id].category = flow[id].category
          /\ flow'[old.id].steps = Without(steps, gone)
          /\ \A id \in Ids \ {old.id} : flow'[id] = flow[id]
        BY <1>2, <1>3, <2>1, <2>4 DEF FlowType
    <2> HIDE DEF after
    <2>6. HeldBy(q)' /\ RestOf(r, q)
        BY <1>1, <1>2, <2>3, <2>5 DEF HeldBy, RestOf, HasRest, Writing
    <2>7. \A x \in Requests : request'[x] = IF x = r THEN q ELSE request[x]
        BY <1>3, <2>1 DEF Types
    <2>8. Kept'
        <3> SUFFICES ASSUME ~broken, NEW id \in Ids, flow[id].category # None
                     PROVE  \E s \in Row : Stays(id, s)'
            BY <1>1, <2>5 DEF Kept
        <3>1. PICK s \in Row : Stays(id, s)
            BY DEF IInv, Kept
        <3>2. ~Deletes(old, id, s)
            BY <3>1 DEF Stays
        <3>3. \A x \in Requests : ~Deletes(request[x], id, s)'
            <4>1. ~Deletes(q, id, s)
                BY <1>1, <2>2, <2>3, <3>2 DEF Deletes
            <4> QED
                BY <2>7, <3>1, <4>1 DEF Stays, Deletes
        <3>4. \A x \in Requests : Adds(request[x], id, s) => Adds(request[x], id, s)'
            BY <1>1, <2>3, <2>7 DEF Adds, Writing
        <3>5. (\E i \in DOMAIN flow[id].steps : flow[id].steps[i] = s)
                => (\E i \in DOMAIN flow'[id].steps : flow'[id].steps[i] = s)
            <4>1. CASE id # old.id
                BY <2>5, <4>1
            <4>2. CASE id = old.id
                <5>1. s # gone
                    BY <1>1, <2>2, <3>2, <4>2 DEF Deletes
                <5> QED
                    BY <2>4, <2>5, <4>2, <5>1 DEF steps
            <4> QED
                BY <4>1, <4>2
        <3> QED
            BY <3>1, <3>3, <3>4, <3>5 DEF Stays
    <2>9. \A i \in DOMAIN q.doomed : Old(q.doomed[i])
        BY <1>2, <2>2, <2>3
    <2>10. \A id \in Ids : \A i \in DOMAIN flow'[id].steps :
             \E j \in DOMAIN flow[id].steps : flow'[id].steps[i] = flow[id].steps[j]
        BY <2>4, <2>5 DEF steps
    <2>11. (\A id \in Ids : flow[id].category # None => flow'[id].category # None) /\ broken' \in BOOLEAN
        BY <1>1, <1>3, <2>5
    <2>12. q.pc # "idle" /\ q.todo = old.todo /\ old.pc \notin After
        BY <1>1, <2>3 DEF After
    <2> HIDE DEF old
    <2> QED
        BY <2>1, <2>3, <2>5, <2>6, <2>8, <2>9, <2>10, <2>11, <2>12, StepKeeps DEF old
<1> QED
    BY <1>4, <1>5

LEMMA AddKeeps ==
    ASSUME IInv, NEW r \in Requests, Add(r)
    PROVE  IInv'
<1> DEFINE old == request[r]
           row == Head(old.left)
           steps == flow[old.id].steps
           after == [flow EXCEPT ![old.id].steps = Append(steps, row)]
<1>1. old.pc = "add" /\ old.left # <<>> /\ UNCHANGED broken /\ flow' = after
    BY DEF Add, At
<1>2. /\ old \in RequestType /\ old.id \in Ids /\ old.category \in Names /\ old.kind # "categorise"
      /\ flow[old.id].category # None /\ (\A i \in DOMAIN old.doomed : Old(old.doomed[i])) /\ RestOf(r, old)
    BY <1>1, PlaceOf DEF HeldBy, Finding, Naming
<1>3. flow \in [Ids -> FlowType] /\ broken \in BOOLEAN /\ Types /\ steps \in Seq(Row)
    BY <1>2, Typed DEF IInv, Types
<1>4. PICK q : q = [old EXCEPT !.left = Tail(old.left)]
    OBVIOUS
<1>5. request' = [request EXCEPT ![r] = q]
    BY <1>4 DEF Add, Becomes
<1>6. /\ old.left \in Seq(Row) /\ Tail(old.left) \in Seq(Row) /\ row = old.left[1] /\ row \in Row
      /\ Len(Tail(old.left)) = Len(old.left) - 1 /\ Len(old.left) \in Nat /\ Len(old.left) >= 1 /\ 1 \in DOMAIN old.left
      /\ \A i \in DOMAIN Tail(old.left) : i + 1 \in DOMAIN old.left /\ Tail(old.left)[i] = old.left[i + 1]
      /\ \A i \in DOMAIN old.left : i = 1 \/ (i - 1 \in DOMAIN Tail(old.left) /\ Tail(old.left)[i - 1] = old.left[i])
    BY <1>1, <1>2, Lengths
<1>7. /\ q \in RequestType /\ q.pc = "add" /\ q.id = old.id /\ q.category = old.category /\ q.kind = old.kind
      /\ q.doomed = old.doomed /\ q.todo = old.todo /\ q.left = Tail(old.left)
    BY <1>1, <1>2, <1>4, <1>6 DEF RequestType
<1> HIDE DEF row, steps
<1>8. /\ Append(steps, row) \in Seq(Row) /\ Len(steps) + 1 \in DOMAIN Append(steps, row)
      /\ Append(steps, row)[Len(steps) + 1] = row
      /\ \A i \in DOMAIN steps : i \in DOMAIN Append(steps, row) /\ Append(steps, row)[i] = steps[i]
      /\ \A i \in DOMAIN Append(steps, row) : i \in DOMAIN steps \/ i = Len(steps) + 1
    BY <1>3, <1>6
<1>9. /\ flow' \in [Ids -> FlowType]
      /\ \A id \in Ids : flow'[id].category = flow[id].category
      /\ flow'[old.id].steps = Append(steps, row)
      /\ \A id \in Ids \ {old.id} : flow'[id] = flow[id]
    BY <1>1, <1>2, <1>3, <1>8 DEF FlowType
<1> HIDE DEF after
<1>10. /\ Len(old.left) <= StepsEach /\ StepsEach \in Nat
       /\ \A i \in DOMAIN old.left :
            old.left[i] = [by |-> <<r, Len(old.todo)>>, n |-> StepsEach - Len(old.left) + i]
    BY <1>1, <1>2, Lengths DEF RestOf, HasRest, Writing
<1>11. HeldBy(q)'
    BY <1>2, <1>7, <1>9 DEF HeldBy
<1>12. RestOf(r, q)
    <2>1. ASSUME NEW i \in DOMAIN q.left
          PROVE  q.left[i] = [by |-> <<r, Len(q.todo)>>, n |-> StepsEach - Len(q.left) + i]
        <3>1. i + 1 \in DOMAIN old.left /\ q.left[i] = old.left[i + 1] /\ i \in Nat
            BY <1>6, <1>7
        <3>2. Len(q.left) = Len(old.left) - 1 /\ Len(old.left) \in Nat /\ StepsEach \in Nat
            BY <1>6, <1>7, <1>10
        <3>3. StepsEach - Len(old.left) + (i + 1) = StepsEach - Len(q.left) + i
            <4>1. PICK m \in Nat : m = Len(old.left)
                BY <3>2
            <4>2. PICK l \in Nat : l = Len(q.left)
                BY <1>7, Lengths
            <4>3. l = m - 1
                BY <3>2, <4>1, <4>2
            <4>4. PICK k \in Nat : k = StepsEach
                BY <3>2
            <4>5. PICK n \in Nat : n = i
                BY <3>1
            <4>6. k - m + (n + 1) = k - l + n
                BY <4>3
            <4> QED
                BY <4>1, <4>2, <4>4, <4>5, <4>6
        <3> QED
            BY <1>7, <1>10, <3>1, <3>3
    <2>2. Len(q.left) <= StepsEach
        BY <1>6, <1>7, <1>10
    <2> QED
        BY <1>7, <2>1, <2>2 DEF RestOf
<1>13. row.by = <<r, Len(q.todo)>> /\ OldTo(q, row)
    <2>1. row = [by |-> <<r, Len(q.todo)>>, n |-> StepsEach - Len(old.left) + 1]
        BY <1>6, <1>7, <1>10
    <2>2. row.by[2] = Len(q.todo) /\ Len(q.todo) \in Nat /\ row.by = <<r, Len(q.todo)>>
        BY <1>7, <2>1, Lengths
    <2>3. row.n <= StepsEach - Len(q.left)
        BY <1>6, <1>7, <1>10, <2>1
    <2> QED
        BY <1>7, <2>2, <2>3 DEF OldTo, After
<1>14. \A x \in Requests : request'[x] = IF x = r THEN q ELSE request[x]
    BY <1>3, <1>5 DEF Types
<1>15. Kept'
    <2> SUFFICES ASSUME ~broken, NEW id \in Ids, flow[id].category # None
                 PROVE  \E s \in Row : Stays(id, s)'
        BY <1>1, <1>9 DEF Kept
    <2>1. PICK s \in Row : Stays(id, s)
        BY DEF IInv, Kept
    <2>2. \A x \in Requests : ~Deletes(request[x], id, s)'
        BY <1>7, <1>14, <2>1 DEF Stays, Deletes
    <2>3. \A x \in Requests \ {r} : Adds(request[x], id, s) => Adds(request[x], id, s)'
        BY <1>14 DEF Adds
    <2>4. (\E i \in DOMAIN flow[id].steps : flow[id].steps[i] = s)
            => (\E i \in DOMAIN flow'[id].steps : flow'[id].steps[i] = s)
        BY <1>8, <1>9 DEF steps
    <2>5. Adds(old, id, s) =>
            \/ \E i \in DOMAIN flow'[id].steps : flow'[id].steps[i] = s
            \/ Adds(request[r], id, s)'
        <3> SUFFICES ASSUME Adds(old, id, s)
                     PROVE  \/ \E i \in DOMAIN flow'[id].steps : flow'[id].steps[i] = s
                            \/ Adds(request[r], id, s)'
            OBVIOUS
        <3>1. PICK i \in DOMAIN old.left : old.left[i] = s /\ old.id = id
            BY DEF Adds
        <3>2. CASE i = 1
            BY <1>6, <1>8, <1>9, <3>1, <3>2
        <3>3. CASE i # 1
            <4>1. i - 1 \in DOMAIN q.left /\ q.left[i - 1] = s
                BY <1>6, <1>7, <3>1, <3>3
            <4>2. request'[r] = q /\ q.pc \in Writing /\ q.id = id
                BY <1>7, <1>14, <3>1 DEF Writing
            <4> QED
                BY <4>1, <4>2 DEF Adds
        <3> QED
            BY <3>2, <3>3
    <2> QED
        BY <2>1, <2>2, <2>3, <2>4, <2>5 DEF Stays
<1>16. \A id \in Ids : \A i \in DOMAIN flow'[id].steps :
         \/ \E j \in DOMAIN flow[id].steps : flow'[id].steps[i] = flow[id].steps[j]
         \/ flow'[id].steps[i].by = <<r, Len(q.todo)>> /\ OldTo(q, flow'[id].steps[i])
    BY <1>8, <1>9, <1>13 DEF steps
<1>17. (\A id \in Ids : flow[id].category # None => flow'[id].category # None) /\ broken' \in BOOLEAN
       /\ \A i \in DOMAIN q.doomed : Old(q.doomed[i])
    BY <1>1, <1>2, <1>3, <1>7, <1>9
<1>18. q.pc = "add" /\ q.todo = old.todo /\ old.pc = "add" /\ Len(q.left) <= Len(old.left)
    BY <1>1, <1>6, <1>7
<1> HIDE DEF old
<1> QED
    BY <1>5, <1>7, <1>9, <1>11, <1>12, <1>15, <1>16, <1>17, <1>18, StepKeeps DEF old, After

LEMMA SaveKeeps ==
    ASSUME IInv, NEW r \in Requests, Save(r)
    PROVE  IInv'
<1> DEFINE old == request[r]
           new == [category |-> old.category, verified |-> FALSE, steps |-> StepsOf(Writer(r))]
<1>1. /\ old.pc = "save" /\ UNCHANGED broken
      /\ \/ \E id \in Free : flow' = [flow EXCEPT ![id] = new]
                             /\ request' = [request EXCEPT ![r] = [old EXCEPT !.id = id, !.pc = "done"]]
         \/ UNCHANGED flow /\ request' = [request EXCEPT ![r] = [old EXCEPT !.pc = "done"]]
    BY DEF Save, Becomes, At, Stored
<1>2. /\ old \in RequestType /\ old.category \in Names /\ old.kind # "categorise"
      /\ None \notin Names /\ \A i \in DOMAIN old.doomed : Old(old.doomed[i])
    BY <1>1, PlaceOf, Constant DEF HeldBy, Naming
<1>3. flow \in [Ids -> FlowType] /\ broken \in BOOLEAN /\ Types
    BY DEF IInv, Types
<1>4. CASE UNCHANGED flow /\ request' = [request EXCEPT ![r] = [old EXCEPT !.pc = "done"]]
    <2> DEFINE q == [old EXCEPT !.pc = "done"]
    <2>1. q \in RequestType /\ q.pc = "done" /\ q.doomed = old.doomed /\ q.todo = old.todo
        BY <1>2 DEF RequestType, Stages, Over
    <2> HIDE DEF q
    <2>2. HeldBy(q) /\ RestOf(r, q)
        BY <2>1 DEF HeldBy, RestOf, HasRest, Finding, Naming, Writing
    <2>3. request' = [request EXCEPT ![r] = q]
        BY <1>4 DEF q
    <2> QED
        BY <1>1, <1>2, <1>4, <2>1, <2>2, <2>3, QuietKeeps DEF Writing, After
<1>5. ASSUME NEW id \in Free, flow' = [flow EXCEPT ![id] = new],
             request' = [request EXCEPT ![r] = [old EXCEPT !.id = id, !.pc = "done"]]
      PROVE  IInv'
    <2>1. PICK q : q = [old EXCEPT !.id = id, !.pc = "done"]
        OBVIOUS
    <2>2. request' = [request EXCEPT ![r] = q]
        BY <1>5, <2>1
    <2>3. id \in Ids
        BY DEF Free
    <2>4. q \in RequestType /\ q.pc = "done" /\ q.doomed = old.doomed /\ q.todo = old.todo
        BY <1>2, <2>1, <2>3 DEF RequestType, Stages, Over
    <2> DEFINE rows == StepsOf(Writer(r))
    <2>5. /\ Writer(r) = <<r, Len(q.todo)>> /\ Writer(r) \in Writers /\ Len(q.todo) \in Nat
          /\ rows \in Seq(Row) /\ 1 \in DOMAIN rows /\ rows[1] \in Row
          /\ \A i \in DOMAIN rows : rows[i] = [by |-> Writer(r), n |-> i]
        BY <2>4, Typed, OwnRows
    <2>6. new \in FlowType /\ new.category = old.category /\ new.steps = rows
        BY <1>2, <2>5 DEF FlowType
    <2> HIDE DEF rows, new
    <2>7. /\ flow' \in [Ids -> FlowType] /\ flow'[id].category = old.category /\ flow'[id].steps = rows
          /\ \A x \in Ids \ {id} : flow'[x] = flow[x]
        BY <1>3, <1>5, <2>3, <2>6
    <2>8. HeldBy(q)' /\ RestOf(r, q)
        BY <2>4 DEF HeldBy, RestOf, HasRest, Finding, Naming, Writing
    <2>9. \A i \in DOMAIN rows : rows[i].by = <<r, Len(q.todo)>> /\ OldTo(q, rows[i]) /\ ~Old(rows[i])
        <3> SUFFICES ASSUME NEW i \in DOMAIN rows
                     PROVE  rows[i].by = <<r, Len(q.todo)>> /\ OldTo(q, rows[i]) /\ ~Old(rows[i])
            OBVIOUS
        <3>1. rows[i].by = <<r, Len(q.todo)>>
            BY <2>5
        <3>2. /\ rows[i].by[1] = r /\ rows[i].by[2] = Len(q.todo)
              /\ rows[i].by \in Requests \X Nat
            BY <2>5, <3>1
        <3>3. rows[i].by # None
            BY <3>2, Constant
        <3>4. OldTo(q, rows[i])
            BY <2>4, <2>5, <3>2 DEF OldTo, After
        <3>5. ~OldTo(old, rows[i])
            BY <1>1, <2>4, <3>2 DEF OldTo, After
        <3> QED
            BY <3>1, <3>2, <3>3, <3>4, <3>5 DEF Old
    <2>10. \A x \in Requests : request'[x] = IF x = r THEN q ELSE request[x]
        BY <1>3, <2>2 DEF Types
    <2>11. Kept'
        <3> SUFFICES ASSUME ~broken, NEW x \in Ids, flow'[x].category # None
                     PROVE  \E s \in Row : Stays(x, s)'
            BY <1>1 DEF Kept
        <3>1. CASE x = id
            <4>1. \A y \in Requests : \A i \in DOMAIN request'[y].doomed : Old(request'[y].doomed[i])
                BY <1>2, <2>4, <2>10 DEF IInv, Past
            <4>2. PICK s \in Row : s = rows[1]
                BY <2>5
            <4>3. \A y \in Requests : ~Deletes(request[y], x, s)'
                BY <2>5, <2>9, <4>1, <4>2 DEF Deletes
            <4>4. \E i \in DOMAIN flow'[x].steps : flow'[x].steps[i] = s
                BY <2>5, <2>7, <3>1, <4>2
            <4> QED
                BY <4>3, <4>4 DEF Stays
        <3>2. CASE x # id
            <4>1. PICK s \in Row : Stays(x, s)
                BY <2>7, <3>2 DEF IInv, Kept
            <4>2. ~Adds(old, x, s) /\ ~Deletes(q, x, s)
                BY <1>1, <2>4 DEF Adds, Deletes, Writing
            <4>3. \A y \in Requests : ~Deletes(request[y], x, s)'
                BY <2>10, <4>1, <4>2 DEF Stays, Deletes
            <4>4. \A y \in Requests : Adds(request[y], x, s) => Adds(request[y], x, s)'
                BY <2>10, <4>2 DEF Adds
            <4> QED
                BY <2>7, <3>2, <4>1, <4>3, <4>4 DEF Stays
        <3> QED
            BY <3>1, <3>2
    <2>12. \A x \in Ids : \A i \in DOMAIN flow'[x].steps :
             \/ \E j \in DOMAIN flow[x].steps : flow'[x].steps[i] = flow[x].steps[j]
             \/ flow'[x].steps[i].by = <<r, Len(q.todo)>> /\ OldTo(q, flow'[x].steps[i])
        BY <2>7, <2>9
    <2>13. (\A x \in Ids : flow[x].category # None => flow'[x].category # None) /\ broken' \in BOOLEAN
           /\ \A i \in DOMAIN q.doomed : Old(q.doomed[i])
        BY <1>1, <1>2, <1>3, <2>4, <2>7
    <2>14. q.pc = "done" /\ q.todo = old.todo /\ old.pc \notin After
        BY <1>1, <2>4 DEF After
    <2> HIDE DEF old
    <2> QED
        BY <2>2, <2>4, <2>7, <2>8, <2>11, <2>12, <2>13, <2>14, StepKeeps DEF old, After
<1> QED
    BY <1>1, <1>4, <1>5

---------------------------------------------------------------------------
\* The theorem.

LEMMA StutterKeeps == IInv /\ UNCHANGED vars => IInv'
<1> SUFFICES ASSUME IInv, UNCHANGED vars PROVE IInv'
    OBVIOUS
<1>1. UNCHANGED <<flow, request, broken>>
    BY DEF vars
<1>2. Types' /\ Held' /\ Rests'
    BY <1>1 DEF IInv, Types, Held, HeldBy, Rests, RestOf, HasRest
<1>3. Past'
    BY <1>1 DEF IInv, Past, Old, OldTo
<1>4. \A id, s : Stays(id, s) => Stays(id, s)'
    BY <1>1 DEF Stays, Deletes, Adds
<1>5. Kept'
    BY <1>1, <1>4 DEF IInv, Kept
<1> QED
    BY <1>2, <1>3, <1>5 DEF IInv

LEMMA StepsKeep == IInv /\ [Next]_vars => IInv'
<1> SUFFICES ASSUME IInv, [Next]_vars PROVE IInv'
    OBVIOUS
<1>1. CASE \E r \in Requests :
         \/ Arrive(r) \/ Fails(r) \/ AskFails(r) \/ AskAgain(r) \/ Use(r) \/ Look(r) \/ Read(r)
         \/ Store(r) \/ Delete(r) \/ Add(r) \/ Complete(r) \/ Fetch(r) \/ NextWorkflow(r) \/ Create(r) \/ Save(r)
    BY <1>1, ArriveKeeps, FailsKeeps, AskAgainKeeps, UseKeeps, LookKeeps, ReadKeeps, StoreKeeps, DeleteKeeps,
       AddKeeps, CompleteKeeps, FetchKeeps, NextWorkflowKeeps, CreateKeeps, SaveKeeps
<1>2. CASE UNCHANGED vars
    BY <1>2, StutterKeeps
<1> QED
    BY <1>1, <1>2 DEF Next, AllOver

LEMMA Inductive == Spec => []IInv
<1> QED
    BY InitIInv, StepsKeep, PTL DEF Spec

\* Once all requests are over and none of their writes has failed, every
\* workflow in the table has steps: those of the request that was the last to
\* begin deleting are there, whatever the other requests read, deleted and
\* added in between, and for any number of requests, categories and steps.
THEOREM NeverWithoutSteps == Spec => []NeverEmptied
<1>1. IInv => NeverEmptied
    <2> SUFFICES ASSUME IInv, Quiet, NEW id \in Ids, flow[id].category # None
                 PROVE  flow[id].steps # <<>>
        BY DEF NeverEmptied
    <2>1. PICK s \in Row : Stays(id, s)
        BY DEF IInv, Kept, Quiet
    <2>2. \A r \in Requests : ~Adds(request[r], id, s)
        BY DEF Quiet, Active, Over, Adds, Writing
    <2>3. \E i \in DOMAIN flow[id].steps : flow[id].steps[i] = s
        BY <2>1, <2>2 DEF Stays
    <2> QED
        BY <2>3
<1> QED
    BY <1>1, Inductive, PTL

---------------------------------------------------------------------------

\* The first k rows a request writes.
StepsTo(w, k) == [n \in 1..k |-> [by |-> w, n |-> n]]

Serially == ~overlapped /\ ~broken

OneActive == \A r, s \in Active : r = s

\* What a person has spoken on is verified and in the table.
Spoken == \A id \in human : flow[id].verified /\ flow[id].category # None

Untouched(id) == \A r \in Requests : request[r].pc \in Writing => request[r].id # id

\* A workflow that nobody writes has the steps it is to have.
Words == \A id \in Ids : flow[id].category # None /\ Untouched(id) => flow[id].steps = StepsOf(word[id])

Different(s) == \A i, j \in DOMAIN s : s[i] = s[j] => i = j

Reading(q) == q.pc = "delete" \/ (q.pc \in {"merge", "store"} /\ q.kind = "generate")

\* A request that acts alone: the rows it has read are those in the table,
\* and what it adds follows on what it has added.
WordOf(r, q) ==
    /\ q.pc = "revise" => q.kind = "feedback"
    /\ q.pc = "merge" => q.kind = "generate"
    /\ q.pc \in {"save", "create"} => q.kind # "feedback"
    /\ q.kind = "feedback" /\ q.pc \in {"read", "delete", "add"} => flow[q.id].verified
    /\ q.kind # "feedback" /\ q.pc \in {"read", "merge", "store", "delete", "add"} => q.id \notin human
    /\ Reading(q) => q.doomed = flow[q.id].steps /\ Different(q.doomed)
    /\ q.pc = "add" => flow[q.id].steps = StepsTo(<<r, Len(q.todo)>>, StepsEach - Len(q.left))

\* Inductive together with IInv.  While requests have come one after the other
\* and no write has failed, one request at most is active, so that nothing
\* changes between its reading of rows and its deleting of them.
WInv ==
    /\ word \in [Ids -> Writers] /\ human \subseteq Ids /\ overlapped \in BOOLEAN
    /\ ~overlapped => OneActive
    /\ Serially => Spoken /\ Words /\ \A r \in Requests : WordOf(r, request[r])

\* Stages at which WordOf says something.
Said == {"revise", "merge", "save", "create", "read", "store", "delete", "add"}

LEMMA SilentWord ==
    ASSUME NEW r, NEW q, q.pc \notin Said
    PROVE  WordOf(r, q)
    BY DEF WordOf, Reading, Said

\* A step of request r, alone, after which it has state q.
LEMMA StepSpeaks ==
    ASSUME IInv, WInv, NEW r \in Active, NEW q \in RequestType, request' = [request EXCEPT ![r] = q],
           q.pc # "idle",
           word' \in [Ids -> Writers], human' \subseteq Ids, overlapped' = overlapped, broken => broken',
           Serially' => Spoken' /\ Words' /\ WordOf(r, q)'
    PROVE  WInv'
<1>1. /\ r \in Requests /\ \A x \in Requests : request'[x] = IF x = r THEN q ELSE request[x]
      /\ request[r].pc # "idle" /\ overlapped' \in BOOLEAN
    BY DEF IInv, Types, Active, WInv
<1>2. Active' \subseteq Active
    BY <1>1 DEF Active
<1>3. ~overlapped' => OneActive'
    BY <1>2 DEF WInv, OneActive
<1>4. ASSUME Serially', NEW x \in Requests PROVE WordOf(x, request[x])'
    <2>1. CASE x = r
        BY <1>1, <1>4, <2>1 DEF WordOf, Reading
    <2>2. CASE x # r
        <3>1. x \notin Active
            BY <1>4, <2>2 DEF WInv, OneActive, Serially
        <3>2. request'[x] = request[x] /\ request'[x].pc \notin Said
            BY <1>1, <2>2, <3>1 DEF Active, Over, Said
        <3> QED
            BY <3>2 DEF WordOf, Reading, Said
    <2> QED
        BY <2>1, <2>2
<1> QED
    BY <1>3, <1>4 DEF WInv

\* The table and the histories stay as they are.
LEMMA QuietSpeaks ==
    ASSUME IInv, WInv, NEW r \in Active, NEW q \in RequestType, request' = [request EXCEPT ![r] = q],
           q.pc # "idle", UNCHANGED <<flow, word, human, overlapped>>, broken => broken',
           broken' \/ (request[r].pc \in Writing => q.pc \in Writing /\ q.id = request[r].id),
           Serially /\ ~broken' => WordOf(r, q)
    PROVE  WInv'
<1>1. /\ r \in Requests /\ \A x \in Requests : request'[x] = IF x = r THEN q ELSE request[x]
    BY DEF IInv, Types, Active
<1>2. word' \in [Ids -> Writers] /\ human' \subseteq Ids
    BY DEF WInv
<1>3. ASSUME Serially' PROVE Spoken' /\ Words' /\ WordOf(r, q)'
    <2>1. Serially /\ Spoken /\ Words /\ WordOf(r, q)
        BY <1>3 DEF Serially, WInv
    <2>2. \A id \in Ids : Untouched(id)' => Untouched(id)
        BY <1>1, <1>3 DEF Untouched, Serially
    <2> QED
        BY <2>1, <2>2 DEF Spoken, Words, WordOf, Reading
<1> QED
    BY <1>2, <1>3, StepSpeaks

\* Request r alone: what is known of it and of the workflows.
LEMMA AloneKnows ==
    ASSUME IInv, WInv, Serially, NEW r \in Requests
    PROVE  /\ Spoken /\ Words /\ WordOf(r, request[r])
           /\ request[r].pc \notin Over \cup {"idle"} =>
                \A x \in Requests \ {r} : request[x].pc \in Over \cup {"idle"}
<1>1. Spoken /\ Words /\ WordOf(r, request[r]) /\ OneActive
    BY DEF WInv, Serially
<1> QED
    BY <1>1 DEF OneActive, Active

LEMMA ArriveSpeaks ==
    ASSUME IInv, WInv, NEW r \in Requests, Arrive(r)
    PROVE  WInv'
<1>1. PICK q : request' = [request EXCEPT ![r] = q] /\ q.pc \in {"design", "choose", "look", "next"}
    <2>1. PICK kind \in Kinds, rename \in BOOLEAN :
            request' = [request EXCEPT ![r] =
                [Idle EXCEPT !.kind = kind, !.rename = rename,
                    !.category = IF kind = "feedback" THEN Head(Categories) ELSE None,
                    !.todo = IF kind = "sync" THEN Categories ELSE <<>>,
                    !.pc = CASE kind = "generate" -> "design"
                             [] kind = "categorise" -> "choose"
                             [] kind = "feedback" -> "look"
                             [] kind = "sync" -> "next"]]
        BY DEF Arrive, Becomes
    <2>2. PICK stage : stage = CASE kind = "generate" -> "design"
                                 [] kind = "categorise" -> "choose"
                                 [] kind = "feedback" -> "look"
                                 [] kind = "sync" -> "next"
        OBVIOUS
    <2>3. stage \in {"design", "choose", "look", "next"}
        BY <2>2 DEF Kinds
    <2>4. PICK q : q = [Idle EXCEPT !.kind = kind, !.rename = rename,
                    !.category = IF kind = "feedback" THEN Head(Categories) ELSE None,
                    !.todo = IF kind = "sync" THEN Categories ELSE <<>>,
                    !.pc = stage]
        OBVIOUS
    <2>5. q.pc = stage
        BY <2>4 DEF Idle
    <2>6. request' = [request EXCEPT ![r] = q]
        BY <2>1, <2>2, <2>4
    <2> QED
        BY <2>3, <2>5, <2>6
<1>2. /\ request[r].pc = "idle" /\ UNCHANGED <<flow, bridge, word, human, broken>>
      /\ overlapped' = (overlapped \/ Active # {})
    BY DEF Arrive, At, Stored
<1>3. \A x \in Requests : request'[x] = IF x = r THEN q ELSE request[x]
    BY <1>1 DEF IInv, Types
<1>4. ~overlapped' => OneActive'
    BY <1>2, <1>3 DEF OneActive, Active
<1>5. ASSUME Serially' PROVE Spoken' /\ Words' /\ \A x \in Requests : WordOf(x, request[x])'
    <2>1. Serially /\ Spoken /\ Words /\ \A x \in Requests : WordOf(x, request[x])
        BY <1>2, <1>5 DEF Serially, WInv
    <2>2. \A id \in Ids : Untouched(id)' => Untouched(id)
        BY <1>2, <1>3 DEF Untouched, Writing
    <2>3. \A x \in Requests : WordOf(x, request[x])'
        BY <1>1, <1>2, <1>3, <2>1 DEF WordOf, Reading
    <2> QED
        BY <1>2, <2>1, <2>2, <2>3 DEF Spoken, Words
<1>6. overlapped' \in BOOLEAN
    BY <1>2, Zenon DEF WInv
<1> QED
    BY <1>2, <1>4, <1>5, <1>6 DEF WInv

LEMMA FailsSpeaks ==
    ASSUME IInv, WInv, NEW r \in Requests, Fails(r) \/ AskFails(r)
    PROVE  WInv'
<1>1. PICK q : q = [request[r] EXCEPT !.pc = "failed"]
    OBVIOUS
<1>2. /\ request' = [request EXCEPT ![r] = q] /\ UNCHANGED <<flow, word, human, overlapped>>
      /\ broken' = TRUE \/ (broken' = broken /\ request[r].pc \notin Writing)
      /\ r \in Active
    BY <1>1 DEF Fails, AskFails, Becomes, At, Stored, Asking, Writing, Active, Over
<1>3. q \in RequestType /\ q.pc = "failed"
    BY <1>1, PlaceOf DEF RequestType, Stages, Over
<1>4. WordOf(r, q)
    BY <1>3, SilentWord DEF Said
<1>5. /\ (broken => broken') /\ q.pc # "idle"
      /\ broken' \/ (request[r].pc \in Writing => q.pc \in Writing /\ q.id = request[r].id)
    BY <1>2, <1>3
<1> QED
    BY <1>2, <1>3, <1>4, <1>5, QuietSpeaks

LEMMA AskAgainSpeaks ==
    ASSUME IInv, WInv, NEW r \in Requests, AskAgain(r)
    PROVE  WInv'
<1>1. PICK q : q = [request[r] EXCEPT !.attempt = @ + 1]
    OBVIOUS
<1>2. /\ request' = [request EXCEPT ![r] = q] /\ UNCHANGED <<flow, word, human, overlapped, broken>>
      /\ request[r].pc \in Asking /\ r \in Active
    BY <1>1 DEF AskAgain, Becomes, At, Stored, Asking, Active, Over
<1>3. request[r] \in RequestType /\ request[r].attempt + 1 \in Nat
    BY PlaceOf DEF RequestType
<1>4. /\ q \in RequestType /\ q.pc = request[r].pc /\ q.kind = request[r].kind /\ q.doomed = request[r].doomed
      /\ q.todo = request[r].todo /\ q.id = request[r].id /\ q.left = request[r].left
    BY <1>1, <1>3 DEF RequestType
<1>5. Serially => WordOf(r, q)
    BY <1>4, AloneKnows DEF WordOf, Reading
<1> QED
    BY <1>2, <1>4, <1>5, QuietSpeaks DEF Asking, Writing

LEMMA UseSpeaks ==
    ASSUME IInv, WInv, NEW r \in Requests, Use(r)
    PROVE  WInv'
<1>1. PICK c \in Names :
        request' = [request EXCEPT ![r] = [request[r] EXCEPT !.attempt = 1,
                    !.category = IF request[r].pc \in {"design", "revise"} THEN c ELSE @,
                    !.pc = CASE @ = "choose" -> "done"
                             [] @ = "design" -> "look"
                             [] @ \in {"merge", "revise"} -> "store"]]
    BY DEF Use, Becomes
<1>2. PICK q : q = [request[r] EXCEPT !.attempt = 1,
                    !.category = IF request[r].pc \in {"design", "revise"} THEN c ELSE @,
                    !.pc = CASE @ = "choose" -> "done"
                             [] @ = "design" -> "look"
                             [] @ \in {"merge", "revise"} -> "store"]
    OBVIOUS
<1>3. /\ request' = [request EXCEPT ![r] = q] /\ UNCHANGED <<flow, word, human, overlapped, broken>>
      /\ request[r].pc \in Asking /\ r \in Active
    BY <1>1, <1>2 DEF Use, At, Stored, Asking, Active, Over
<1>4. request[r] \in RequestType
    BY PlaceOf
<1>5. q \in RequestType
    BY <1>2, <1>3, <1>4 DEF RequestType, Asking, Stages, Over
<1>6. /\ q.pc \in {"done", "look", "store"} /\ q.doomed = request[r].doomed /\ q.todo = request[r].todo
      /\ q.id = request[r].id /\ q.kind = request[r].kind
      /\ q.pc = "store" => request[r].pc \in {"merge", "revise"}
    BY <1>2, <1>3, <1>4 DEF RequestType, Asking
<1>7. Serially => WordOf(r, q)
    BY <1>6, AloneKnows DEF WordOf, Reading
<1> QED
    BY <1>3, <1>5, <1>6, <1>7, QuietSpeaks DEF Asking, Writing

LEMMA LookSpeaks ==
    ASSUME IInv, WInv, NEW r \in Requests, Look(r)
    PROVE  WInv'
<1> DEFINE old == request[r]
           found(id) == [old EXCEPT !.id = id,
                  !.pc = CASE old.kind = "feedback" -> "revise"
                           [] flow[id].verified -> IF old.kind = "sync" THEN "next" ELSE "done"
                           [] ~flow[id].verified /\ old.kind = "generate" -> "read"
                           [] ~flow[id].verified /\ old.kind = "sync" -> "store"]
           goes(stage) == [old EXCEPT !.pc = stage]
<1>1. /\ UNCHANGED <<flow, word, human, overlapped, broken>> /\ old.pc = "look" /\ r \in Active
      /\ \/ \E id \in Find(old.category) : request' = [request EXCEPT ![r] = found(id)]
         \/ \E stage \in {"create", "save", "failed"} :
              /\ request' = [request EXCEPT ![r] = goes(stage)]
              /\ stage # "failed" => old.kind # "feedback"
    BY DEF Look, Becomes, At, Stored, Active, Over
<1>2. /\ old \in RequestType /\ old.kind \in {"generate", "feedback", "sync"}
    BY <1>1, PlaceOf DEF HeldBy, RequestType, Kinds
<1>3. ASSUME NEW id \in Find(old.category), request' = [request EXCEPT ![r] = found(id)]
      PROVE  WInv'
    <2>1. id \in Ids /\ flow[id].verified \in BOOLEAN
        BY PlaceOf, Typed DEF FlowType
    <2>2. PICK stage : stage = CASE old.kind = "feedback" -> "revise"
                           [] flow[id].verified -> IF old.kind = "sync" THEN "next" ELSE "done"
                           [] ~flow[id].verified /\ old.kind = "generate" -> "read"
                           [] ~flow[id].verified /\ old.kind = "sync" -> "store"
        OBVIOUS
    <2>3. /\ stage \in {"revise", "next", "done", "read", "store"}
          /\ stage = "revise" => old.kind = "feedback"
          /\ stage = "read" => old.kind = "generate" /\ ~flow[id].verified
          /\ stage = "store" => old.kind = "sync" /\ ~flow[id].verified
        BY <1>2, <2>1, <2>2
    <2>4. PICK q : q = [old EXCEPT !.id = id, !.pc = stage]
        OBVIOUS
    <2>5. request' = [request EXCEPT ![r] = q]
        BY <1>3, <2>2, <2>4
    <2>6. q \in RequestType /\ q.pc = stage /\ q.id = id /\ q.kind = old.kind
        BY <1>2, <2>1, <2>3, <2>4 DEF RequestType, Stages, Over, Asking
    <2>7. Serially /\ ~flow[id].verified => id \notin human
        BY AloneKnows DEF Spoken
    <2>8. ASSUME Serially PROVE WordOf(r, q)
        <3>1. ~flow[id].verified => id \notin human
            BY <2>7, <2>8
        <3> HIDE DEF old
        <3> QED
            BY <2>3, <2>6, <3>1 DEF WordOf, Reading
    <2>9. q.pc # "idle" /\ old.pc \notin Writing
        BY <1>1, <2>3, <2>6 DEF Writing
    <2> HIDE DEF old
    <2> QED
        BY <1>1, <2>5, <2>6, <2>8, <2>9, QuietSpeaks DEF old
<1>4. ASSUME NEW stage \in {"create", "save", "failed"}, request' = [request EXCEPT ![r] = goes(stage)],
             stage # "failed" => old.kind # "feedback"
      PROVE  WInv'
    <2>1. PICK q : q = goes(stage)
        OBVIOUS
    <2>2. q \in RequestType /\ q.pc = stage /\ q.kind = old.kind
        BY <1>2, <2>1 DEF RequestType, Stages, Over, Asking
    <2>3. WordOf(r, q)
        BY <1>4, <2>2 DEF WordOf, Reading
    <2>4. request' = [request EXCEPT ![r] = q] /\ q.pc # "idle" /\ old.pc \notin Writing
        BY <1>1, <1>4, <2>1, <2>2 DEF Writing
    <2> HIDE DEF old
    <2> QED
        BY <1>1, <2>2, <2>3, <2>4, QuietSpeaks DEF old
<1> QED
    BY <1>1, <1>3, <1>4

LEMMA OverSpeaks ==
    ASSUME IInv, WInv, NEW r \in Requests, Fetch(r) \/ NextWorkflow(r)
    PROVE  WInv'
<1> DEFINE old == request[r]
<1>0. old \in RequestType
    BY PlaceOf
<1>1. CASE Fetch(r)
    <2>1. PICK stage \in Over : request' = [request EXCEPT ![r] = [old EXCEPT !.pc = stage]]
        BY <1>1 DEF Fetch, Becomes, Over
    <2>2. PICK q : q = [old EXCEPT !.pc = stage]
        OBVIOUS
    <2>3. q \in RequestType /\ q.pc = stage /\ request' = [request EXCEPT ![r] = q]
        BY <1>0, <2>1, <2>2 DEF RequestType, Stages
    <2>4. /\ UNCHANGED <<flow, word, human, overlapped, broken>> /\ old.pc = "fetch" /\ r \in Active
        BY <1>1 DEF Fetch, At, Stored, Active, Over
    <2>5. WordOf(r, q)
        BY <2>3, SilentWord DEF Said, Over
    <2> QED
        BY <2>3, <2>4, <2>5, QuietSpeaks DEF Over, Writing
<1>2. CASE NextWorkflow(r)
    <2>1. PICK q : /\ request' = [request EXCEPT ![r] = q]
                   /\ q = IF old.todo = <<>> THEN [old EXCEPT !.pc = "done"]
                          ELSE [old EXCEPT !.category = Head(old.todo), !.todo = Tail(old.todo), !.pc = "look"]
        BY <1>2 DEF NextWorkflow, Becomes
    <2>2. /\ UNCHANGED <<flow, word, human, overlapped, broken>> /\ old.pc = "next" /\ r \in Active
        BY <1>2 DEF NextWorkflow, At, Stored, Active, Over
    <2>3. old.todo # <<>> => Head(old.todo) \in Names /\ Tail(old.todo) \in Seq(Names)
        BY <1>0, Lengths
    <2>4. q \in RequestType /\ q.pc \in {"done", "look"}
        BY <1>0, <2>1, <2>3 DEF RequestType, Stages, Over
    <2>5. WordOf(r, q)
        BY <2>4, SilentWord DEF Said
    <2> QED
        BY <2>1, <2>2, <2>4, <2>5, QuietSpeaks DEF Writing
<1> QED
    BY <1>1, <1>2

\* Rows of one writer differ.
LEMMA OwnDiffer ==
    ASSUME NEW w \in Writers
    PROVE  Different(StepsOf(w))
    BY OwnRows DEF Different

LEMMA ReadSpeaks ==
    ASSUME IInv, WInv, NEW r \in Requests, Read(r)
    PROVE  WInv'
<1> DEFINE old == request[r]
<1>1. PICK q : q = [old EXCEPT !.doomed = flow[old.id].steps,
                               !.pc = IF old.kind = "generate" THEN "merge" ELSE "delete"]
    OBVIOUS
<1>2. /\ request' = [request EXCEPT ![r] = q] /\ UNCHANGED <<flow, word, human, overlapped, broken>>
      /\ old.pc = "read" /\ r \in Active
    BY <1>1 DEF Read, Becomes, At, Stored, Active, Over
<1>3. /\ old \in RequestType /\ old.id \in Ids /\ flow[old.id].category # None /\ flow[old.id].steps \in Seq(Row)
    BY <1>2, PlaceOf, Typed DEF HeldBy, Finding
<1>4. /\ q \in RequestType /\ q.pc = (IF old.kind = "generate" THEN "merge" ELSE "delete")
      /\ q.id = old.id /\ q.kind = old.kind /\ q.doomed = flow[old.id].steps
    BY <1>1, <1>3 DEF RequestType, Stages, Asking
<1>5. ASSUME Serially PROVE WordOf(r, q)
    <2>1. Words /\ WordOf(r, old) /\ \A x \in Requests \ {r} : request[x].pc \in Over \cup {"idle"}
        BY <1>2, <1>5, AloneKnows DEF Over
    <2>2. Untouched(old.id)
        BY <1>2, <2>1 DEF Untouched, Writing, Over
    <2>3. flow[old.id].steps = StepsOf(word[old.id]) /\ word[old.id] \in Writers
        BY <1>3, <2>1, <2>2 DEF Words, WInv
    <2>4. Different(q.doomed)
        BY <1>4, <2>3, OwnDiffer
    <2> QED
        BY <1>2, <1>4, <2>1, <2>4 DEF WordOf, Reading
<1> QED
    BY <1>2, <1>4, <1>5, QuietSpeaks DEF Writing

\* The table changes in workflow id alone, which r is about.
LEMMA OthersSpeak ==
    ASSUME IInv, WInv, Serially, NEW r \in Requests, NEW q, request' = [request EXCEPT ![r] = q],
           NEW id \in Ids, \A x \in Ids \ {id} : flow'[x] = flow[x] /\ word'[x] = word[x],
           request[r].pc \in Writing => request[r].id = id,
           flow'[id].category # None /\ Untouched(id)' => flow'[id].steps = StepsOf(word'[id])
    PROVE  Words'
<1>1. \A x \in Requests : request'[x] = IF x = r THEN q ELSE request[x]
    BY DEF IInv, Types
<1>2. \A x \in Ids \ {id} : Untouched(x)' => Untouched(x)
    BY <1>1 DEF Untouched
<1>3. Words
    BY AloneKnows
<1> QED
    BY <1>2, <1>3 DEF Words

LEMMA StoreSpeaks ==
    ASSUME IInv, WInv, NEW r \in Requests, Store(r)
    PROVE  WInv'
<1> DEFINE old == request[r]
<1>0. PICK id : id = old.id
    OBVIOUS
<1>1. /\ UNCHANGED <<word, human, overlapped, broken>> /\ old.pc = "store" /\ r \in Active
    BY DEF Store, At, Active, Over
<1>2. /\ old \in RequestType /\ old.id \in Ids /\ old.category \in Names /\ None \notin Names
      /\ flow[old.id].category # None /\ flow \in [Ids -> FlowType]
    BY <1>1, PlaceOf, Constant DEF HeldBy, Finding, Naming, IInv, Types
<1>3. CASE UNCHANGED flow /\ request' = [request EXCEPT ![r] = [old EXCEPT !.pc = "failed"]]
    <2>1. PICK q : q = [old EXCEPT !.pc = "failed"]
        OBVIOUS
    <2>2. q \in RequestType /\ q.pc = "failed" /\ request' = [request EXCEPT ![r] = q]
        BY <1>2, <1>3, <2>1 DEF RequestType, Stages, Over
    <2>3. WordOf(r, q)
        BY <2>2, SilentWord DEF Said
    <2> QED
        BY <1>1, <1>3, <2>2, <2>3, QuietSpeaks DEF Writing
<1>4. CASE /\ flow' = [flow EXCEPT ![old.id].category = old.category, ![old.id].verified = Verifies(r)]
           /\ request' = [request EXCEPT ![r] = [old EXCEPT !.left = StepsOf(Writer(r)),
                                                   !.pc = IF old.kind = "generate" THEN "delete" ELSE "read"]]
    <2>1. PICK q : q = [old EXCEPT !.left = StepsOf(Writer(r)),
                                   !.pc = IF old.kind = "generate" THEN "delete" ELSE "read"]
        OBVIOUS
    <2>2. StepsOf(Writer(r)) \in Seq(Row)
        BY Typed, OwnRows
    <2>3. /\ q \in RequestType /\ q.pc = (IF old.kind = "generate" THEN "delete" ELSE "read")
          /\ q.id = old.id /\ q.kind = old.kind /\ q.doomed = old.doomed
          /\ request' = [request EXCEPT ![r] = q]
        BY <1>2, <1>4, <2>1, <2>2 DEF RequestType, Stages
    <2>4. /\ flow'[id].category = old.category /\ flow'[id].steps = flow[id].steps
          /\ old.kind = "feedback" => flow'[id].verified
          /\ \A x \in Ids \ {id} : flow'[x] = flow[x]
        BY <1>0, <1>2, <1>4 DEF FlowType, Verifies
    <2>5. ASSUME Serially' PROVE Spoken' /\ Words' /\ WordOf(r, q)'
        <3>1. Serially /\ Spoken /\ Words /\ WordOf(r, old) /\ human \subseteq Ids
              /\ \A x \in Requests \ {r} : request[x].pc \in Over \cup {"idle"}
            BY <1>1, <2>5, AloneKnows DEF Serially, WInv, Over
        <3>2. id \in human => old.kind = "feedback"
            BY <1>0, <1>1, <3>1 DEF WordOf
        <3>3. Spoken'
            <4>1. id \in human => flow'[id].verified /\ flow'[id].category # None
                BY <1>2, <2>4, <3>2
            <4>2. human' = human
                BY <1>1
            <4> QED
                BY <2>4, <3>1, <4>1, <4>2 DEF Spoken
        <3>4. flow[id].steps = StepsOf(word[id])
            BY <1>0, <1>1, <1>2, <3>1 DEF Words, Untouched, Writing, Over
        <3>5. Words'
            <4>1. id \in Ids /\ \A x \in Ids \ {id} : flow'[x] = flow[x] /\ word'[x] = word[x]
                BY <1>0, <1>1, <1>2, <2>4
            <4>2. flow'[id].steps = StepsOf(word'[id])
                BY <1>1, <2>4, <3>4
            <4> QED
                BY <1>1, <2>3, <3>1, <4>1, <4>2, OthersSpeak DEF Writing
        <3>6. WordOf(r, q)'
            BY <1>0, <1>1, <2>3, <2>4, <3>1 DEF WordOf, Reading
        <3> QED
            BY <3>3, <3>5, <3>6
    <2>6. word' \in [Ids -> Writers] /\ human' \subseteq Ids
        BY <1>1 DEF WInv
    <2> QED
        BY <1>1, <2>3, <2>5, <2>6, StepSpeaks
<1> QED
    BY <1>3, <1>4 DEF Store, Becomes

\* Deleting the first row, when no other is like it.
LEMMA WithoutFirst ==
    ASSUME NEW s \in Seq(Row), s # <<>>, Different(s)
    PROVE  Without(s, Head(s)) = Tail(s) /\ Different(Tail(s))
<1>1. Head(s) = s[1] /\ 1 \in DOMAIN s /\ Len(s) \in Nat /\ Len(s) > 0
    OBVIOUS
<1>2. Head(s) \in Range(s)
    BY <1>1 DEF Range
<1>3. PICK k : k = CHOOSE i \in DOMAIN s : s[i] = Head(s)
    OBVIOUS
<1>4. k \in DOMAIN s /\ s[k] = s[1]
    BY <1>1, <1>3
<1>5. k = 1
    BY <1>1, <1>4 DEF Different
<1>6. Without(s, Head(s)) = RemoveAt(s, 1)
    BY <1>2, <1>3, <1>5 DEF Without
<1>7. RemoveAt(s, 1) = SubSeq(s, 1, 0) \o SubSeq(s, 2, Len(s))
    BY DEF RemoveAt
<1>8. SubSeq(s, 1, 0) = <<>> /\ SubSeq(s, 2, Len(s)) = Tail(s) /\ Tail(s) \in Seq(Row)
    BY <1>1
<1>9. <<>> \o Tail(s) = Tail(s)
    BY <1>8
<1>10. \A i \in DOMAIN Tail(s) : i \in Nat /\ i + 1 \in DOMAIN s /\ Tail(s)[i] = s[i + 1]
    BY <1>1
<1>11. Different(Tail(s))
    <2> SUFFICES ASSUME NEW i \in DOMAIN Tail(s), NEW j \in DOMAIN Tail(s), Tail(s)[i] = Tail(s)[j]
                 PROVE  i = j
        BY DEF Different
    <2>1. i + 1 = j + 1
        BY <1>10 DEF Different
    <2> QED
        BY <1>10, <2>1
<1> QED
    BY <1>6, <1>7, <1>8, <1>9, <1>11

LEMMA DeleteSpeaks ==
    ASSUME IInv, WInv, NEW r \in Requests, Delete(r)
    PROVE  WInv'
<1> DEFINE old == request[r]
<1>1. old.pc = "delete" /\ UNCHANGED <<word, human, overlapped, broken>> /\ r \in Active
    BY DEF Delete, At, Active, Over
<1>2. /\ old \in RequestType /\ old.id \in Ids /\ flow[old.id].category # None
      /\ RestOf(r, old) /\ flow \in [Ids -> FlowType] /\ flow[old.id].steps \in Seq(Row)
    BY <1>1, PlaceOf, Typed DEF HeldBy, Finding, IInv, Types
<1>3. CASE old.doomed = <<>>
    <2>1. PICK q : q = [old EXCEPT !.pc = "add"]
        OBVIOUS
    <2>2. request' = [request EXCEPT ![r] = q] /\ UNCHANGED flow
        BY <1>3, <2>1 DEF Delete, Becomes
    <2>3. /\ q \in RequestType /\ q.pc = "add" /\ q.id = old.id /\ q.kind = old.kind
          /\ q.todo = old.todo /\ q.left = old.left
        BY <1>2, <2>1 DEF RequestType, Stages
    <2>4. ASSUME Serially PROVE WordOf(r, q)
        <3>1. WordOf(r, old)
            BY <2>4, AloneKnows
        <3>2. flow[old.id].steps = <<>>
            BY <1>1, <1>3, <3>1 DEF WordOf, Reading
        <3>3. StepsEach - Len(q.left) = 0
            BY <1>1, <1>2, <2>3, Lengths DEF RestOf, HasRest, Writing
        <3>4. StepsTo(<<r, Len(q.todo)>>, 0) = <<>>
            BY DEF StepsTo
        <3> QED
            BY <1>1, <2>3, <3>1, <3>2, <3>3, <3>4 DEF WordOf, Reading
    <2> QED
        BY <1>1, <2>2, <2>3, <2>4, QuietSpeaks DEF Writing
<1>4. CASE old.doomed # <<>>
    <2>1. PICK q : q = [old EXCEPT !.doomed = Tail(old.doomed)]
        OBVIOUS
    <2>2. PICK steps : steps = Without(flow[old.id].steps, Head(old.doomed))
        OBVIOUS
    <2>3. request' = [request EXCEPT ![r] = q] /\ flow' = [flow EXCEPT ![old.id].steps = steps]
        BY <1>4, <2>1, <2>2 DEF Delete, Becomes
    <2>4. Tail(old.doomed) \in Seq(Row)
        BY <1>2, <1>4, Lengths
    <2>5. /\ q \in RequestType /\ q.pc = "delete" /\ q.id = old.id /\ q.kind = old.kind
          /\ q.doomed = Tail(old.doomed)
        BY <1>1, <1>2, <2>1, <2>4 DEF RequestType
    <2>6. /\ flow'[old.id].steps = steps /\ flow'[old.id].category = flow[old.id].category
          /\ flow'[old.id].verified = flow[old.id].verified
          /\ \A id \in Ids \ {old.id} : flow'[id] = flow[id]
        BY <1>2, <2>3 DEF FlowType
    <2>7. ASSUME Serially' PROVE Spoken' /\ Words' /\ WordOf(r, q)'
        <3>1. Serially /\ Spoken /\ WordOf(r, old) /\ human \subseteq Ids
            BY <1>1, <2>7, AloneKnows DEF Serially, WInv
        <3>2. Spoken'
            BY <1>1, <2>6, <3>1 DEF Spoken
        <3>3. PICK id : id = old.id
            OBVIOUS
        <3>4. Words'
            <4>1. request'[r] = q
                BY <2>3 DEF IInv, Types
            <4>2. ~Untouched(id)'
                BY <2>5, <3>3, <4>1 DEF Untouched, Writing
            <4>3. id \in Ids /\ \A x \in Ids \ {id} : flow'[x] = flow[x] /\ word'[x] = word[x]
                BY <1>1, <1>2, <2>6, <3>3
            <4> QED
                BY <2>3, <3>1, <3>3, <4>2, <4>3, OthersSpeak
        <3>5. old.doomed = flow[old.id].steps /\ Different(old.doomed)
            BY <1>1, <3>1 DEF WordOf, Reading
        <3>6. steps = Tail(old.doomed) /\ Different(Tail(old.doomed))
            BY <1>2, <1>4, <2>2, <3>5, WithoutFirst
        <3>7. WordOf(r, q)'
            BY <1>1, <2>5, <2>6, <3>1, <3>6 DEF WordOf, Reading
        <3> QED
            BY <3>2, <3>4, <3>7
    <2>8. word' \in [Ids -> Writers] /\ human' \subseteq Ids
        BY <1>1 DEF WInv
    <2> QED
        BY <1>1, <2>3, <2>5, <2>7, <2>8, StepSpeaks
<1> QED
    BY <1>3, <1>4

\* One more row.
LEMMA OneMore ==
    ASSUME NEW w, NEW k \in Nat
    PROVE  Append(StepsTo(w, k), [by |-> w, n |-> k + 1]) = StepsTo(w, k + 1)
<1>1. PICK e : e = [by |-> w, n |-> k + 1]
    OBVIOUS
<1>2. PICK S : \A n \in 1..k + 1 : [by |-> w, n |-> n] \in S
    <2>1. \A n \in 1..k + 1 : [by |-> w, n |-> n] \in {[by |-> w, n |-> m] : m \in 1..k + 1}
        OBVIOUS
    <2> QED
        BY <2>1
<1>3. \A n \in 1..k : n \in 1..k + 1
    OBVIOUS
<1>4. StepsTo(w, k) \in Seq(S) /\ Len(StepsTo(w, k)) = k /\ \A n \in 1..k : StepsTo(w, k)[n] = [by |-> w, n |-> n]
    BY <1>2, <1>3 DEF StepsTo
<1>5. StepsTo(w, k + 1) \in Seq(S) /\ Len(StepsTo(w, k + 1)) = k + 1
      /\ \A n \in 1..k + 1 : StepsTo(w, k + 1)[n] = [by |-> w, n |-> n]
    BY <1>2 DEF StepsTo
<1>6. PICK s : s = StepsTo(w, k)
    OBVIOUS
<1>7. PICK t : t = StepsTo(w, k + 1)
    OBVIOUS
<1>8. e \in S /\ t[k + 1] = e /\ \A n \in 1..k : t[n] = s[n]
    BY <1>1, <1>2, <1>3, <1>4, <1>5, <1>6, <1>7
<1>9. /\ Append(s, e) \in Seq(S) /\ Len(Append(s, e)) = k + 1
      /\ \A n \in 1..k + 1 : Append(s, e)[n] = t[n]
    BY <1>4, <1>6, <1>8
<1>10. Append(s, e) = t
    <2>1. t \in Seq(S) /\ Len(t) = k + 1
        BY <1>5, <1>7
    <2> QED
        BY <1>9, <2>1, SeqEqual
<1> QED
    BY <1>1, <1>6, <1>7, <1>10

LEMMA AddSpeaks ==
    ASSUME IInv, WInv, NEW r \in Requests, Add(r)
    PROVE  WInv'
<1> DEFINE old == request[r]
<1>1. old.pc = "add" /\ old.left # <<>> /\ UNCHANGED <<word, human, overlapped, broken>> /\ r \in Active
    BY DEF Add, At, Active, Over
<1>2. /\ old \in RequestType /\ old.id \in Ids /\ flow[old.id].category # None
      /\ RestOf(r, old) /\ flow \in [Ids -> FlowType] /\ flow[old.id].steps \in Seq(Row)
    BY <1>1, PlaceOf, Typed DEF HeldBy, Finding, IInv, Types
<1>3. PICK q : q = [old EXCEPT !.left = Tail(old.left)]
    OBVIOUS
<1>4. PICK steps : steps = Append(flow[old.id].steps, Head(old.left))
    OBVIOUS
<1>5. request' = [request EXCEPT ![r] = q] /\ flow' = [flow EXCEPT ![old.id].steps = steps]
    BY <1>3, <1>4 DEF Add, Becomes
<1>6. /\ old.left \in Seq(Row) /\ Tail(old.left) \in Seq(Row) /\ Len(Tail(old.left)) = Len(old.left) - 1
      /\ Head(old.left) = old.left[1] /\ 1 \in DOMAIN old.left /\ Len(old.left) \in Nat /\ Len(old.left) > 0
      /\ StepsEach \in Nat
    BY <1>1, <1>2, Lengths
<1>7. /\ q \in RequestType /\ q.pc = "add" /\ q.id = old.id /\ q.kind = old.kind
      /\ q.left = Tail(old.left) /\ q.todo = old.todo
    BY <1>1, <1>2, <1>3, <1>6 DEF RequestType
<1>8. /\ flow'[old.id].steps = steps /\ flow'[old.id].category = flow[old.id].category
      /\ flow'[old.id].verified = flow[old.id].verified
      /\ \A id \in Ids \ {old.id} : flow'[id] = flow[id]
    BY <1>2, <1>5 DEF FlowType
<1>9. ASSUME Serially' PROVE Spoken' /\ Words' /\ WordOf(r, q)'
    <2>1. Serially /\ Spoken /\ WordOf(r, old) /\ human \subseteq Ids
        BY <1>1, <1>9, AloneKnows DEF Serially, WInv
    <2>2. Spoken'
        BY <1>1, <1>8, <2>1 DEF Spoken
    <2>3. PICK id : id = old.id
        OBVIOUS
    <2>4. Words'
        <3>1. request'[r] = q
            BY <1>5 DEF IInv, Types
        <3>2. ~Untouched(id)'
            BY <1>7, <2>3, <3>1 DEF Untouched, Writing
        <3>3. id \in Ids /\ \A x \in Ids \ {id} : flow'[x] = flow[x] /\ word'[x] = word[x]
            BY <1>1, <1>2, <1>8, <2>3
        <3> QED
            BY <1>5, <2>1, <2>3, <3>2, <3>3, OthersSpeak
    <2>5. PICK k : k = StepsEach - Len(old.left)
        OBVIOUS
    <2>6. /\ k \in Nat /\ StepsEach - Len(q.left) = k + 1
          /\ Head(old.left) = [by |-> <<r, Len(old.todo)>>, n |-> k + 1]
        <3>1. Len(old.left) <= StepsEach
            BY <1>1, <1>2 DEF RestOf, HasRest, Writing
        <3>2. old.left[1] = [by |-> <<r, Len(old.todo)>>, n |-> StepsEach - Len(old.left) + 1]
            BY <1>1, <1>2, <1>6 DEF RestOf, HasRest, Writing
        <3>3. k \in Nat /\ StepsEach - Len(old.left) + 1 = k + 1
            BY <1>6, <2>5, <3>1
        <3>4. StepsEach - Len(q.left) = k + 1
            <4>1. PICK n : n = Len(old.left)
                OBVIOUS
            <4>2. Len(q.left) = n - 1 /\ n \in Nat /\ StepsEach \in Nat /\ k = StepsEach - n
                BY <1>6, <1>7, <2>5, <4>1
            <4>3. StepsEach - (n - 1) = StepsEach - n + 1
                BY <4>2
            <4> QED
                BY <4>2, <4>3
        <3> QED
            BY <1>6, <3>2, <3>3, <3>4
    <2>7. flow[old.id].steps = StepsTo(<<r, Len(old.todo)>>, k)
        BY <1>1, <2>1, <2>5 DEF WordOf
    <2>8. steps = StepsTo(<<r, Len(old.todo)>>, k + 1)
        BY <1>4, <2>6, <2>7, OneMore
    <2>9. WordOf(r, q)'
        BY <1>1, <1>7, <1>8, <2>1, <2>6, <2>8 DEF WordOf, Reading
    <2> QED
        BY <2>2, <2>4, <2>9
<1>10. word' \in [Ids -> Writers] /\ human' \subseteq Ids
    BY <1>1 DEF WInv
<1> QED
    BY <1>1, <1>5, <1>7, <1>9, <1>10, StepSpeaks

\* The histories, when the steps of r are complete.
LEMMA WrittenKeeps ==
    ASSUME IInv, WInv, NEW r \in Requests, NEW id \in Ids, Written(r, id)
    PROVE  /\ word' \in [Ids -> Writers] /\ human' \subseteq Ids
           /\ \A x \in Ids \ {id} : word'[x] = word[x]
           /\ word'[id] = IF id \in human /\ request[r].kind # "feedback" THEN word[id] ELSE Writer(r)
           /\ human' = human \cup (IF request[r].kind = "feedback" THEN {id} ELSE {})
    BY Typed DEF Written, WInv

LEMMA CompleteSpeaks ==
    ASSUME IInv, WInv, NEW r \in Requests, Complete(r)
    PROVE  WInv'
<1> DEFINE old == request[r]
<1>1. /\ old.pc = "add" /\ old.left = <<>> /\ UNCHANGED <<flow, overlapped, broken>> /\ r \in Active
      /\ Written(r, old.id)
    BY DEF Complete, At, Active, Over
<1>2. /\ old \in RequestType /\ old.id \in Ids /\ flow[old.id].category # None
      /\ old.kind \in {"generate", "feedback", "sync"} /\ Writer(r) = <<r, Len(old.todo)>>
    BY <1>1, PlaceOf, Typed DEF HeldBy, Finding, RequestType, Kinds
<1>3. PICK q : /\ request' = [request EXCEPT ![r] = q]
               /\ q = [old EXCEPT !.pc = CASE old.kind = "feedback" -> "done" [] old.kind = "sync" -> "next"
                                           [] old.kind = "generate" -> "fetch"]
    BY DEF Complete, Becomes
<1>4. q \in RequestType /\ q.pc \in {"done", "next", "fetch"}
    BY <1>2, <1>3 DEF RequestType, Stages, Over
<1>5. /\ word' \in [Ids -> Writers] /\ human' \subseteq Ids
      /\ \A x \in Ids \ {old.id} : word'[x] = word[x]
      /\ word'[old.id] = IF old.id \in human /\ old.kind # "feedback" THEN word[old.id] ELSE Writer(r)
      /\ human' = human \cup (IF old.kind = "feedback" THEN {old.id} ELSE {})
    BY <1>1, <1>2, WrittenKeeps
<1>6. ASSUME Serially' PROVE Spoken' /\ Words' /\ WordOf(r, q)'
    <2>1. Serially /\ Spoken /\ WordOf(r, old)
        BY <1>1, <1>6, AloneKnows DEF Serially
    <2>2. /\ old.kind = "feedback" => flow[old.id].verified
          /\ old.kind # "feedback" => old.id \notin human
          /\ flow[old.id].steps = StepsTo(Writer(r), StepsEach - Len(old.left))
        BY <1>1, <1>2, <2>1 DEF WordOf
    <2>3. Spoken'
        BY <1>1, <1>2, <1>5, <2>1, <2>2 DEF Spoken
    <2>4. StepsEach - Len(old.left) = StepsEach
        BY <1>1, Constant
    <2>5. flow'[old.id].steps = StepsOf(word'[old.id])
        BY <1>1, <1>5, <2>2, <2>4 DEF StepsTo, StepsOf
    <2>6. Words'
        BY <1>1, <1>2, <1>3, <1>5, <2>1, <2>5, OthersSpeak
    <2>7. WordOf(r, q)'
        BY <1>4 DEF WordOf, Reading
    <2> QED
        BY <2>3, <2>6, <2>7
<1> QED
    BY <1>1, <1>3, <1>4, <1>5, <1>6, StepSpeaks

LEMMA CreateSpeaks ==
    ASSUME IInv, WInv, NEW r \in Requests, Create(r)
    PROVE  WInv'
<1> DEFINE old == request[r]
<1>1. old.pc = "create" /\ UNCHANGED <<word, human, overlapped>> /\ r \in Active
    BY DEF Create, At, Active, Over
<1>2. old \in RequestType /\ old.category \in Names /\ None \notin Names /\ flow \in [Ids -> FlowType]
    BY <1>1, PlaceOf, Constant DEF HeldBy, Naming, IInv, Types
<1>3. CASE request' = [request EXCEPT ![r] = [old EXCEPT !.pc = "failed"]] /\ broken' = TRUE /\ UNCHANGED flow
    <2>1. PICK q : q = [old EXCEPT !.pc = "failed"]
        OBVIOUS
    <2>2. q \in RequestType /\ q.pc = "failed" /\ request' = [request EXCEPT ![r] = q]
        BY <1>2, <1>3, <2>1 DEF RequestType, Stages, Over
    <2> QED
        BY <1>1, <1>3, <2>2, QuietSpeaks
<1>4. ASSUME NEW id \in Free, flow' = [flow EXCEPT ![id] = [NoFlow EXCEPT !.category = old.category]],
             request' = [request EXCEPT ![r] = [old EXCEPT !.id = id, !.left = StepsOf(Writer(r)), !.pc = "add"]],
             UNCHANGED broken
      PROVE  WInv'
    <2>1. PICK q : q = [old EXCEPT !.id = id, !.left = StepsOf(Writer(r)), !.pc = "add"]
        OBVIOUS
    <2>2. id \in Ids /\ flow[id].category = None
        BY DEF Free
    <2>3. StepsOf(Writer(r)) \in Seq(Row) /\ Len(StepsOf(Writer(r))) = StepsEach
        BY Typed, OwnRows
    <2>4. /\ q \in RequestType /\ q.pc = "add" /\ q.id = id /\ q.kind = old.kind
          /\ q.left = StepsOf(Writer(r)) /\ request' = [request EXCEPT ![r] = q]
        BY <1>2, <1>4, <2>1, <2>2, <2>3 DEF RequestType, Stages
    <2>5. /\ flow'[id].steps = <<>>
          /\ \A x \in Ids \ {id} : flow'[x] = flow[x]
        BY <1>2, <1>4, <2>2 DEF NoFlow
    <2>6. ASSUME Serially' PROVE Spoken' /\ Words' /\ WordOf(r, q)'
        <3>1. Serially /\ Spoken /\ WordOf(r, old) /\ human \subseteq Ids
            BY <1>4, <1>1, <2>6, AloneKnows DEF Serially, WInv
        <3>2. id \notin human
            BY <2>2, <3>1 DEF Spoken
        <3>3. Spoken'
            BY <1>1, <2>5, <3>1, <3>2 DEF Spoken
        <3>4. ~Untouched(id)'
            <4>1. request'[r] = q
                BY <2>4 DEF IInv, Types
            <4> QED
                BY <2>4, <4>1 DEF Untouched, Writing
        <3>5. Words'
            BY <1>1, <2>2, <2>4, <2>5, <3>1, <3>4, OthersSpeak DEF Writing
        <3>6. StepsEach - Len(q.left) = 0
            BY <2>3, <2>4, Constant
        <3>7. old.kind # "feedback"
            BY <1>1, <3>1 DEF WordOf
        <3>8. WordOf(r, q)'
            <4>1. StepsTo(<<r, Len(q.todo)>>, 0) = <<>>
                BY DEF StepsTo
            <4> QED
                BY <1>1, <2>4, <2>5, <3>2, <3>6, <3>7, <4>1 DEF WordOf, Reading
        <3> QED
            BY <3>3, <3>5, <3>8
    <2>7. word' \in [Ids -> Writers] /\ human' \subseteq Ids
        BY <1>1 DEF WInv
    <2> QED
        BY <1>1, <1>4, <2>4, <2>6, <2>7, StepSpeaks
<1> QED
    BY <1>3, <1>4 DEF Create, Becomes

LEMMA SaveSpeaks ==
    ASSUME IInv, WInv, NEW r \in Requests, Save(r)
    PROVE  WInv'
<1> DEFINE old == request[r]
           new == [category |-> old.category, verified |-> FALSE, steps |-> StepsOf(Writer(r))]
<1>1. old.pc = "save" /\ UNCHANGED <<overlapped, broken>> /\ r \in Active
    BY DEF Save, At, Active, Over
<1>2. old \in RequestType /\ flow \in [Ids -> FlowType]
    BY PlaceOf DEF IInv, Types
<1>3. CASE request' = [request EXCEPT ![r] = [old EXCEPT !.pc = "done"]] /\ UNCHANGED Stored
    <2>1. PICK q : q = [old EXCEPT !.pc = "done"]
        OBVIOUS
    <2>2. q \in RequestType /\ q.pc = "done" /\ request' = [request EXCEPT ![r] = q]
          /\ UNCHANGED <<flow, word, human>>
        BY <1>2, <1>3, <2>1 DEF RequestType, Stages, Over, Stored
    <2>3. WordOf(r, q)
        BY <2>2, SilentWord DEF Said
    <2> QED
        BY <1>1, <2>2, <2>3, QuietSpeaks DEF Writing
<1>4. ASSUME NEW id \in Free, flow' = [flow EXCEPT ![id] = new], Written(r, id),
             request' = [request EXCEPT ![r] = [old EXCEPT !.id = id, !.pc = "done"]]
      PROVE  WInv'
    <2>1. PICK q : q = [old EXCEPT !.id = id, !.pc = "done"]
        OBVIOUS
    <2>2. id \in Ids /\ flow[id].category = None
        BY DEF Free
    <2>3. q \in RequestType /\ q.pc = "done" /\ request' = [request EXCEPT ![r] = q]
        BY <1>2, <1>4, <2>1, <2>2 DEF RequestType, Stages, Over
    <2>4. flow'[id].steps = StepsOf(Writer(r)) /\ \A x \in Ids \ {id} : flow'[x] = flow[x]
        BY <1>2, <1>4, <2>2
    <2>5. /\ word' \in [Ids -> Writers] /\ human' \subseteq Ids
          /\ \A x \in Ids \ {id} : word'[x] = word[x]
          /\ word'[id] = IF id \in human /\ old.kind # "feedback" THEN word[id] ELSE Writer(r)
          /\ human' = human \cup (IF old.kind = "feedback" THEN {id} ELSE {})
        BY <1>4, <2>2, WrittenKeeps
    <2>6. ASSUME Serially' PROVE Spoken' /\ Words' /\ WordOf(r, q)'
        <3>1. Serially /\ Spoken /\ WordOf(r, old) /\ human \subseteq Ids
            BY <1>1, <2>6, AloneKnows DEF Serially, WInv
        <3>2. id \notin human /\ old.kind # "feedback"
            BY <1>1, <2>2, <3>1 DEF Spoken, WordOf
        <3>3. Spoken'
            BY <2>4, <2>5, <3>1, <3>2 DEF Spoken
        <3>4. flow'[id].steps = StepsOf(word'[id])
            BY <2>4, <2>5, <3>2
        <3>5. Words'
            BY <1>1, <2>2, <2>3, <2>4, <2>5, <3>1, <3>4, OthersSpeak DEF Writing
        <3>6. WordOf(r, q)'
            BY <2>3 DEF WordOf, Reading
        <3> QED
            BY <3>3, <3>5, <3>6
    <2> QED
        BY <1>1, <2>3, <2>5, <2>6, StepSpeaks
<1> QED
    BY <1>3, <1>4 DEF Save, Becomes

LEMMA InitWInv ==
    ASSUME Init
    PROVE  WInv
<1>1. PICK verified \in BOOLEAN, there \in BOOLEAN :
         /\ flow = [id \in Ids |->
                IF id = 1 /\ there
                THEN [category |-> Head(Categories), verified |-> verified, steps |-> StepsOf(None)]
                ELSE NoFlow]
         /\ human = IF there /\ verified THEN {1} ELSE {}
    BY DEF Init
<1>2. word = [id \in Ids |-> None] /\ request = [r \in Requests |-> Idle] /\ overlapped = FALSE
    BY DEF Init
<1>3. 1 \in Ids /\ Head(Categories) # None
    <2>1. Len(Categories) \in Nat \ {0}
        BY ConstantsAssumption
    <2> QED
        BY <2>1, Constant DEF Ids
<1>4. Idle.pc = "idle"
    BY DEF Idle
<1>5. Active = {}
    BY <1>2, <1>4 DEF Active
<1>6. word \in [Ids -> Writers] /\ human \subseteq Ids /\ overlapped \in BOOLEAN
    BY <1>1, <1>2, <1>3 DEF Writers
<1>7. Spoken
    BY <1>1, <1>3 DEF Spoken
<1>8. Words
    BY <1>1, <1>2 DEF Words, NoFlow
<1>9. \A r \in Requests : WordOf(r, request[r])
    BY <1>2, <1>4 DEF WordOf, Reading
<1> QED
    BY <1>5, <1>6, <1>7, <1>8, <1>9 DEF WInv, OneActive

LEMMA StepsSpeak == IInv /\ WInv /\ [Next]_vars => WInv'
<1> SUFFICES ASSUME IInv, WInv, [Next]_vars PROVE WInv'
    OBVIOUS
<1>1. CASE \E r \in Requests :
         \/ Arrive(r) \/ Fails(r) \/ AskFails(r) \/ AskAgain(r) \/ Use(r) \/ Look(r) \/ Read(r)
         \/ Store(r) \/ Delete(r) \/ Add(r) \/ Complete(r) \/ Fetch(r) \/ NextWorkflow(r) \/ Create(r) \/ Save(r)
    BY <1>1, ArriveSpeaks, FailsSpeaks, AskAgainSpeaks, UseSpeaks, LookSpeaks, ReadSpeaks, StoreSpeaks,
       DeleteSpeaks, AddSpeaks, CompleteSpeaks, OverSpeaks, CreateSpeaks, SaveSpeaks
<1>2. CASE UNCHANGED vars
    BY <1>2 DEF vars, WInv, Serially, OneActive, Active, Spoken, Words, Untouched, WordOf, Reading
<1> QED
    BY <1>1, <1>2 DEF Next, AllOver

\* Requests that come one after the other leave each workflow exactly the
\* steps, in their order, of the last one to speak on it, and none that was
\* generated or synchronised speaks after a person: for any number of
\* requests, categories and steps.
THEOREM LastWordStands == Spec => []LastWord
<1>1. IInv /\ WInv => LastWord
    <2> SUFFICES ASSUME WInv, Quiet, ~overlapped, NEW id \in Ids, flow[id].category # None
                 PROVE  flow[id].steps = StepsOf(word[id])
        BY DEF LastWord
    <2>1. Words
        BY DEF WInv, Serially, Quiet
    <2>2. Untouched(id)
        BY DEF Untouched, Quiet, Active, Writing, Over
    <2> QED
        BY <2>1, <2>2 DEF Words
<1> QED
    BY <1>1, InitIInv, InitWInv, StepsKeep, StepsSpeak, PTL DEF Spec

=============================================================================
