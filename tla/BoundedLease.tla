---------------------------- MODULE BoundedLease ----------------------------
(***************************************************************************)
(* What a connection pool promises its callers, with no idle list, no      *)
(* waiting and no clock: at most Bound of them hold a lease at a time, and *)
(* a lease is turned into a connection no other lease has.                 *)
(***************************************************************************)
EXTENDS Integers, FiniteSets

CONSTANTS Task, Conn, None, Bound

VARIABLES
    granted,  \* the tasks that hold a lease
    lease     \* the connection of each lease, None before there is one

Init ==
    /\ granted = {}
    /\ lease = [t \in Task |-> None]

Unleased == {c \in Conn : \A t \in Task : lease[t] # c}

\* A lease comes with a connection at once, or is given one later.
Grant(t) ==
    /\ t \notin granted
    /\ Cardinality(granted) < Bound
    /\ granted' = granted \cup {t}
    /\ \E c \in Unleased \cup {None} : lease' = [lease EXCEPT ![t] = c]

Provide(t) ==
    /\ t \in granted
    /\ lease[t] = None
    /\ \E c \in Unleased : lease' = [lease EXCEPT ![t] = c]
    /\ UNCHANGED granted

Release(t) ==
    /\ t \in granted
    /\ granted' = granted \ {t}
    /\ lease' = [lease EXCEPT ![t] = None]

Next == \E t \in Task : Grant(t) \/ Provide(t) \/ Release(t)

Spec == Init /\ [][Next]_<<granted, lease>>
=============================================================================
