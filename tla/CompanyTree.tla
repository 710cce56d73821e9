------------------------------ MODULE CompanyTree ------------------------------
(***************************************************************************)
(* What the companies table promises: a forest that grows at its leaves.   *)
(* A company is added, a leaf is moved or removed, each in one step, and   *)
(* the group of every company is its top-most ancestor, whatever the step  *)
(* was.  The promise is kept until a request overtakes another one.        *)
(***************************************************************************)
EXTENDS Integers

CONSTANTS
    Companies,   \* every company there can be
    NoParent     \* the parent of a root

VARIABLES
    parent,   \* of every company there is: its parent, or NoParent
    group,    \* of every company there is: the root of its group
    broken    \* one request has overtaken another: nothing is promised any more

vars == <<parent, group, broken>>

IsLeaf(c) == \A d \in DOMAIN parent : parent[d] # c

\* d is c or above it: every set that holds c and its members' parents holds d.
IsAbove(d, c) ==
    \A S \in SUBSET DOMAIN parent :
        c \in S /\ (\A e \in S : parent[e] \in S \cup {NoParent}) => d \in S

\* group is the function from each company to its top-most ancestor.
GroupsAreTops ==
    /\ DOMAIN group = DOMAIN parent
    /\ \A c \in DOMAIN parent :
         /\ group[c] \in DOMAIN parent
         /\ parent[group[c]] = NoParent
         /\ IsAbove(group[c], c)

Init == parent = <<>> /\ group = <<>> /\ broken = FALSE

Add(c, p) ==
    /\ c \notin DOMAIN parent
    /\ p \in DOMAIN parent \cup {NoParent}
    /\ parent' = [d \in DOMAIN parent \cup {c} |-> IF d = c THEN p ELSE parent[d]]

Move(c, p) ==
    /\ c \in DOMAIN parent
    /\ IsLeaf(c)
    /\ p \in (DOMAIN parent \ {c}) \cup {NoParent}
    /\ parent' = [parent EXCEPT ![c] = p]

Remove(c) ==
    /\ c \in DOMAIN parent
    /\ IsLeaf(c)
    /\ parent' = [d \in DOMAIN parent \ {c} |-> parent[d]]

Change ==
    /\ \E c \in Companies :
         \/ \E p \in Companies \cup {NoParent} : Add(c, p) \/ Move(c, p)
         \/ Remove(c)
    /\ GroupsAreTops'
    /\ broken' = FALSE

Next == Change \/ broken'

Spec == Init /\ [][Next]_vars
=============================================================================
