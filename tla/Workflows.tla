----------------------------- MODULE Workflows -----------------------------
(* The stored workflows of an agent and the requests that write them: a      *)
(* message for which a workflow is generated, or merged into the one of its  *)
(* category; feedback of a person on a workflow; the workflows of a tool's   *)
(* YAML, synchronised when the tool is loaded; a message put into a category.*)
(* Each request runs on a goroutine of its own and writes one row at a time, *)
(* without a transaction.  A language model proposes; each of its answers is *)
(* looked at and asked for again up to MaxAttempts times.                    *)
EXTENDS Naturals, Sequences, FiniteSets, SequencesExt

CONSTANTS
    Requests,      \* requests, one per goroutine
    Categories,    \* the sequence of categories the YAML has workflows of
    StepsEach,     \* steps of a workflow
    MaxAttempts,   \* answers a request asks for: 3
    None

ASSUME ConstantsAssumption ==
    /\ IsFiniteSet(Requests) /\ None \notin Requests \cup Range(Categories) \cup (Requests \X Nat)
    /\ Categories \in Seq(STRING) /\ Categories # <<>> /\ IsInjective(Categories)
    /\ StepsEach \in Nat \ {0} /\ MaxAttempts \in Nat \ {0}

VARIABLES
    flow,      \* the table of workflows with their steps
    bridge,    \* whose steps the copy in the bridge schema has
    request,   \* the local variables of each request
    word,      \* history: whose steps each workflow is to have
    human,     \* history: the workflows a person has spoken on
    overlapped, broken  \* history: two requests at once, a failed write

vars == <<flow, bridge, request, word, human, overlapped, broken>>

Names == Range(Categories)
Ids == 1..Len(Categories)
Kinds == {"generate", "feedback", "sync", "categorise"}

\* "garbled": no category, or no step that can be parsed; "renamed": another
\* category than asked for; "tools": steps of tools there are not.
Answers == {"down", "empty", "garbled", "renamed", "tools", "good"}

\* The stages in which a request waits for the language model.
Asking == {"design", "merge", "revise", "choose"}
Over == {"done", "failed"}

\* The rows of the steps that are written at a time, and the workflow no one
\* has stored.
StepsOf(writer) == [n \in 1..StepsEach |-> [by |-> writer, n |-> n]]
NoFlow == [category |-> None, verified |-> FALSE, steps |-> <<>>]

Find(c) == {id \in Ids : flow[id].category = c}
Free == {id \in Ids : flow[id].category = None}

Idle == [kind |-> "generate", pc |-> "idle", attempt |-> 1, category |-> None, id |-> None,
         rename |-> FALSE, doomed |-> <<>>, left |-> <<>>, todo |-> <<>>]

Init ==
    /\ \E verified \in BOOLEAN, there \in BOOLEAN :
         /\ flow = [id \in Ids |->
                IF id = 1 /\ there
                THEN [category |-> Head(Categories), verified |-> verified, steps |-> StepsOf(None)]
                ELSE NoFlow]
         /\ human = IF there /\ verified THEN {1} ELSE {}
    /\ bridge = [id \in Ids |-> None]
    /\ word = [id \in Ids |-> None]
    /\ request = [r \in Requests |-> Idle]
    /\ overlapped = FALSE /\ broken = FALSE

---------------------------------------------------------------------------

Active == {r \in Requests : request[r].pc \notin Over \cup {"idle"}}

\* A synchronisation writes the workflows of the YAML one after the other.
Writer(r) == <<r, Len(request[r].todo)>>

\* Request r goes on as q; the database and the histories as they are.
Becomes(r, q) == request' = [request EXCEPT ![r] = q]
Stored == <<flow, bridge, word, human>>
At(r, stages) == request[r].pc \in stages

\* A request arrives.
Arrive(r) ==
    /\ At(r, {"idle"})
    /\ \E kind \in Kinds, rename \in BOOLEAN :
         /\ rename => kind = "feedback"
         /\ Becomes(r, [Idle EXCEPT !.kind = kind, !.rename = rename,
                !.category = IF kind = "feedback" THEN Head(Categories) ELSE None,
                !.todo = IF kind = "sync" THEN Categories ELSE <<>>,
                !.pc = CASE kind = "generate" -> "design"
                         [] kind = "categorise" -> "choose"
                         [] kind = "feedback" -> "look"
                         [] kind = "sync" -> "next"])
    /\ overlapped' = (overlapped \/ Active # {})
    /\ UNCHANGED <<Stored, broken>>

\* A call of the database fails: the request ends with the error.  Rows
\* written until then stay.
Fails(r) ==
    /\ At(r, {"look", "read", "store", "delete", "add", "fetch", "save"})
    /\ At(r, {"look"}) => request[r].kind = "feedback"
    /\ Becomes(r, [request[r] EXCEPT !.pc = "failed"])
    /\ broken' = TRUE
    /\ UNCHANGED <<Stored, overlapped>>

\* What the loop at a stage makes of an answer: use it, ask again, give up,
\* or go on with the default the stage has.
LastAttempt(r) == request[r].attempt = MaxAttempts
Flawed(r, answer) ==
    CASE request[r].pc = "choose" -> answer \in {"empty", "garbled", "renamed", "tools"}
      [] request[r].pc = "design" -> answer \in {"empty", "garbled", "tools"}
      [] request[r].pc = "merge" -> answer \in {"empty", "garbled", "renamed", "tools"}
      [] request[r].pc = "revise" -> answer \in {"empty", "garbled"} \/ (answer = "renamed" /\ ~request[r].rename)
GivesUp(r, answer) ==
    \/ answer = "down"
    \/ LastAttempt(r) /\ answer = "empty"
    \/ LastAttempt(r) /\ answer = "garbled" /\ request[r].pc \in {"design", "revise"}
AsksAgain(r, answer) == Flawed(r, answer) /\ ~LastAttempt(r)

AskFails(r) ==
    /\ At(r, Asking)
    /\ \E answer \in Answers : GivesUp(r, answer)
    /\ Becomes(r, [request[r] EXCEPT !.pc = "failed"])
    /\ UNCHANGED <<Stored, overlapped, broken>>

AskAgain(r) ==
    /\ At(r, Asking)
    /\ \E answer \in Answers \ {"down"} : AsksAgain(r, answer)
    /\ Becomes(r, [request[r] EXCEPT !.attempt = @ + 1])
    /\ UNCHANGED <<Stored, overlapped, broken>>

\* An answer is used.  The last answer of a merge that cannot be parsed is
\* replaced by the new workflow, one of another category gets the name of the
\* existing one, and tools there are not are let through.
Use(r) ==
    /\ At(r, Asking)
    /\ \E answer \in Answers :
         /\ ~GivesUp(r, answer) /\ ~AsksAgain(r, answer)
         /\ \E c \in Names :
              /\ request[r].pc \in {"merge", "choose"} => c = Head(Categories)
              /\ request[r].pc = "revise" => (c # request[r].category <=> answer = "renamed" /\ request[r].rename)
              /\ Becomes(r, [request[r] EXCEPT !.attempt = 1,
                    !.category = IF request[r].pc \in {"design", "revise"} THEN c ELSE @,
                    !.pc = CASE @ = "choose" -> "done"
                             [] @ = "design" -> "look"
                             [] @ \in {"merge", "revise"} -> "store"])
    /\ UNCHANGED <<Stored, overlapped, broken>>

\* The workflow of the category is looked up, and nothing is done about one
\* that a person has verified.
Look(r) ==
    /\ At(r, {"look"})
    /\ LET q == request[r]  found == Find(q.category) IN
         \/ \E id \in found :
              Becomes(r, [q EXCEPT !.id = id,
                  !.pc = CASE q.kind = "feedback" -> "revise"
                           [] flow[id].verified -> IF q.kind = "sync" THEN "next" ELSE "done"
                           [] ~flow[id].verified /\ q.kind = "generate" -> "read"
                           [] ~flow[id].verified /\ q.kind = "sync" -> "store"])
         \/ /\ q.kind # "feedback"   \* an error means that there is none, too
            /\ Becomes(r, [q EXCEPT !.pc = IF q.kind = "sync" THEN "create" ELSE "save"])
         \/ /\ found = {} /\ q.kind = "feedback"
            /\ Becomes(r, [q EXCEPT !.pc = "failed"])
    /\ UNCHANGED <<Stored, overlapped, broken>>

\* The rows to delete are read: by a merge before the language model is asked,
\* by the others after the workflow was updated.
Read(r) ==
    /\ At(r, {"read"})
    /\ Becomes(r, [request[r] EXCEPT !.doomed = flow[request[r].id].steps,
           !.pc = IF request[r].kind = "generate" THEN "merge" ELSE "delete"])
    /\ UNCHANGED <<Stored, overlapped, broken>>

\* The row of the workflow is updated; the table has one row per category.
NeverVerifiesBug(r) == FALSE
Verifies(r) == request[r].kind = "feedback"
Store(r) ==
    /\ At(r, {"store"})
    /\ LET q == request[r] IN
         IF Find(q.category) \subseteq {q.id}
         THEN /\ flow' = [flow EXCEPT ![q.id].category = q.category, ![q.id].verified = Verifies(r)]
              /\ Becomes(r, [q EXCEPT !.left = StepsOf(Writer(r)), !.pc = IF q.kind = "generate" THEN "delete" ELSE "read"])
         ELSE /\ Becomes(r, [q EXCEPT !.pc = "failed"])
              /\ UNCHANGED flow
    /\ UNCHANGED <<bridge, word, human, overlapped, broken>>

\* The table without a row, which it has once at most.
Without(steps, row) ==
    IF row \in Range(steps) THEN RemoveAt(steps, CHOOSE i \in DOMAIN steps : steps[i] = row) ELSE steps
Delete(r) ==
    /\ At(r, {"delete"})
    /\ LET q == request[r] IN
         IF q.doomed = <<>>
         THEN Becomes(r, [q EXCEPT !.pc = "add"]) /\ UNCHANGED flow
         ELSE /\ flow' = [flow EXCEPT ![q.id].steps = Without(@, Head(q.doomed))]
              /\ Becomes(r, [q EXCEPT !.doomed = Tail(@)])
    /\ UNCHANGED <<bridge, word, human, overlapped, broken>>

Add(r) ==
    /\ At(r, {"add"})
    /\ request[r].left # <<>>
    /\ flow' = [flow EXCEPT ![request[r].id].steps = Append(@, Head(request[r].left))]
    /\ Becomes(r, [request[r] EXCEPT !.left = Tail(@)])
    /\ UNCHANGED <<bridge, word, human, overlapped, broken>>

\* The steps of r are complete.  A person's word stands until a person speaks.
Written(r, id) ==
    /\ word' = [word EXCEPT ![id] = IF id \in human /\ request[r].kind # "feedback" THEN @ ELSE Writer(r)]
    /\ human' = human \cup (IF request[r].kind = "feedback" THEN {id} ELSE {})

\* Feedback is copied to the bridge schema, where a failure is only logged; a
\* merge fetches the workflow again; a synchronisation takes the next one.
Complete(r) ==
    /\ At(r, {"add"})
    /\ request[r].left = <<>>
    /\ Written(r, request[r].id)
    /\ LET q == request[r] IN
         /\ Becomes(r, [q EXCEPT !.pc = CASE q.kind = "feedback" -> "done" [] q.kind = "sync" -> "next"
                                          [] q.kind = "generate" -> "fetch"])
         /\ bridge' \in {bridge} \cup (IF q.kind = "feedback" THEN {[bridge EXCEPT ![q.id] = r]} ELSE {})
    /\ UNCHANGED <<flow, overlapped, broken>>

Fetch(r) ==
    /\ At(r, {"fetch"})
    /\ Becomes(r, [request[r] EXCEPT !.pc = IF Find(request[r].category) = {} THEN "failed" ELSE "done"])
    /\ UNCHANGED <<Stored, overlapped, broken>>

\* The synchronisation of the next workflow of the YAML, or its end.
NextWorkflow(r) ==
    /\ At(r, {"next"})
    /\ LET q == request[r] IN
         Becomes(r, IF q.todo = <<>> THEN [q EXCEPT !.pc = "done"]
                    ELSE [q EXCEPT !.category = Head(q.todo), !.todo = Tail(q.todo), !.pc = "look"])
    /\ UNCHANGED <<Stored, overlapped, broken>>

CreatesWithoutStepsBug(r) ==
    /\ At(r, {"create"})
    /\ flow' \in {flow} \cup {[flow EXCEPT ![id] = [NoFlow EXCEPT !.category = request[r].category]] :
                               id \in {i \in Free : Find(request[r].category) = {}}}
    /\ Becomes(r, [request[r] EXCEPT !.pc = "next"])
    /\ UNCHANGED <<bridge, word, human, overlapped, broken>>

\* A workflow of the YAML is created, without steps at first.  The table
\* refuses a category it has.
Create(r) ==
    /\ At(r, {"create"})
    /\ LET q == request[r] IN
         \/ \E id \in Free :
              /\ Find(q.category) = {} /\ id = CHOOSE i \in Free : \A j \in Free : i <= j
              /\ flow' = [flow EXCEPT ![id] = [NoFlow EXCEPT !.category = q.category]]
              /\ Becomes(r, [q EXCEPT !.id = id, !.left = StepsOf(Writer(r)), !.pc = "add"])
              /\ UNCHANGED broken
         \/ /\ Becomes(r, [q EXCEPT !.pc = "failed"])
            /\ broken' = TRUE
            /\ UNCHANGED flow
    /\ UNCHANGED <<bridge, word, human, overlapped>>

\* The host stores a generated workflow, or does not; the copy in the bridge
\* schema may fail.
Save(r) ==
    /\ At(r, {"save"})
    /\ LET q == request[r] IN
         \/ \E id \in Free :
              /\ Find(q.category) = {} /\ id = CHOOSE i \in Free : \A j \in Free : i <= j
              /\ flow' = [flow EXCEPT ![id] =
                     [category |-> q.category, verified |-> FALSE, steps |-> StepsOf(Writer(r))]]
              /\ bridge' \in {bridge, [bridge EXCEPT ![id] = r]}
              /\ Written(r, id)
              /\ Becomes(r, [q EXCEPT !.id = id, !.pc = "done"])
         \/ Becomes(r, [q EXCEPT !.pc = "done"]) /\ UNCHANGED Stored
    /\ UNCHANGED <<overlapped, broken>>

AllOver == (\A r \in Requests : At(r, Over)) /\ UNCHANGED vars

Next ==
    \/ \E r \in Requests :
         \/ Arrive(r) \/ Fails(r) \/ AskFails(r) \/ AskAgain(r) \/ Use(r) \/ Look(r) \/ Read(r)
         \/ Store(r) \/ Delete(r) \/ Add(r) \/ Complete(r) \/ Fetch(r) \/ NextWorkflow(r) \/ Create(r) \/ Save(r)
    \/ AllOver

Spec == Init /\ [][Next]_vars

---------------------------------------------------------------------------

Quiet == Active = {} /\ ~broken

\* When requests come one after the other and no write fails, each workflow
\* has exactly the steps, in their order, of the last one to speak on it, and a
\* generated or synchronised one never speaks after a person.
LastWord == Quiet /\ ~overlapped =>
    \A id \in Ids : flow[id].category # None => flow[id].steps = StepsOf(word[id])

\* However requests interleave, unless a write fails no workflow is left
\* without steps once they are done: nobody deletes what he has not read, and
\* everybody reads before he adds.
NeverEmptied == Quiet => \A id \in Ids : flow[id].category # None => flow[id].steps # <<>>

============================================================================
