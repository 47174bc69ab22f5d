------------------------------- MODULE PortLease -------------------------------
(***************************************************************************)
(* What the NAT table of gravital-stack promises the rest of the stack: a  *)
(* set of leases that gives every flow (source address, real destination)  *)
(* at most one virtual port and every virtual port to at most one flow.    *)
(* How a port is found, and that two hash maps are kept in step to answer  *)
(* look-ups in both directions, is the business of NatTable.               *)
(***************************************************************************)
CONSTANTS Flows,    \* the (source, real destination) pairs of the apps
          Ports     \* the virtual ports that can be leased

VARIABLE lease      \* the set of <<flow, port>> pairs in force

Init == lease = {}

\* A flow without a port gets some port nobody holds.
Grant(f, p) ==
    /\ \A l \in lease : l[1] # f /\ l[2] # p
    /\ lease' = lease \cup {<<f, p>>}

\* Whoever holds a port gives it back.
Release(p) == lease' = {l \in lease : l[2] # p}

Next == \/ \E f \in Flows, p \in Ports : Grant(f, p)
        \/ \E p \in Ports : Release(p)

Spec == Init /\ [][Next]_lease
================================================================================
