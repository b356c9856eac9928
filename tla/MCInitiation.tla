---- MODULE MCInitiation ----
\* Lists of up to three items: of users that are there or not, named twice, of
\* objects, and of items without a field that is required.
EXTENDS Initiation

Named(u) == [user |-> u, channel |-> TRUE]
NoChannel(u) == [user |-> u, channel |-> FALSE]
Object == [user |-> "object", channel |-> TRUE]
Invalid == [user |-> "invalid", channel |-> FALSE]

Two == {<<>>, <<Named("ann"), Named("ann")>>, <<Object, NoChannel("bob")>>, <<Named("bob"), Invalid>>}
Three == <<Named("ann"), Named("bob"), Named("ann")>>
List(mode, lists) == {[mode |-> mode, items |-> l] : l \in lists}
Plain == {[mode |-> "plain", items |-> <<NoChannel("bob")>>]}
Missing == [mode |-> "unresolved", items |-> <<>>]

Short == {<<l>> : l \in List("parallel", Two)}
         \cup {<<p, l>> : p \in Plain, l \in List("sequential", Two)}
         \cup {<<l, Missing>> : l \in List("sequential", Two)}
Long == {<<p, l>> : p \in Plain, l \in List("parallel", {Three})}

AllConfigs == [steps : Short, known : {{}, {"ann"}}, faults : BOOLEAN, cancels : {FALSE}]
         \cup [steps : Short, known : {{}}, faults : {FALSE}, cancels : {TRUE}]
         \cup [steps : Long, known : {{}}, faults : {FALSE}, cancels : {FALSE}]

TwoUsers == {"ann", "bob"}
====
