-------------------------------- MODULE NatTable --------------------------------
(***************************************************************************)
(* The NAT table of the userspace stack (gravital-stack/src/nat.rs): two   *)
(* hash maps, forward and reverse, and the cursor of a circular scan over  *)
(* the virtual ports [BASE_PORT, BASE_PORT + PORT_RANGE).                  *)
(***************************************************************************)
EXTENDS Integers

CONSTANTS Srcs,         \* source addresses of the apps on the device
          Dsts,         \* real destinations
          BASE_PORT,    \* first virtual port (10_000 in the code)
          PORT_RANGE    \* number of virtual ports (50_000 in the code)

ASSUME PortsAssumption ==
    /\ BASE_PORT \in Nat
    /\ PORT_RANGE \in Nat \ {0}
    /\ BASE_PORT + PORT_RANGE <= 2^16       \* ports are u16

VARIABLES forward,      \* (src, real_dst) -> virtual port
          reverse,      \* virtual port -> (src, real_dst)
          next          \* where the next scan for a free port starts

natVars == <<forward, reverse, next>>

Flows == Srcs \X Dsts
Ports == BASE_PORT .. BASE_PORT + PORT_RANGE - 1

NatInit ==
    /\ forward = << >>
    /\ reverse = << >>
    /\ next = BASE_PORT

\* The cursor moves one port up, and from the last port back to the first.
After(p) == BASE_PORT + ((p - BASE_PORT + 1) % PORT_RANGE)

\* The i-th port a scan that starts at the cursor looks at.
Scanned(i) == BASE_PORT + ((next - BASE_PORT + i) % PORT_RANGE)

\* Mutants of FreeAt: the scan stops one port short of the full circle, or does
\* not look whether the port is taken.
FreeAt_short == {i \in 0 .. PORT_RANGE - 2 : Scanned(i) \notin DOMAIN reverse}
FreeAt_unchecked == 0 .. PORT_RANGE - 1

\* How many taken ports the scan skips before a free one, if there is one.
FreeAt == {i \in 0 .. PORT_RANGE - 1 : Scanned(i) \notin DOMAIN reverse}

\* HashMap::insert and HashMap::remove.
With(f, k, v) == [x \in DOMAIN f \cup {k} |-> IF x = k THEN v ELSE f[x]]
Without(f, k) == [x \in DOMAIN f \ {k} |-> f[x]]

Bind(flow, vp) ==
    /\ forward' = With(forward, flow, vp)
    /\ reverse' = With(reverse, vp, flow)
    /\ next' = After(vp)

\* Mutant of insert: the look-up of a flow that has a port is missing.
insert_again(flow) ==
    \/ \E i \in FreeAt : (\A j \in FreeAt : i <= j) /\ Bind(flow, Scanned(i))
    \/ FreeAt = {} /\ UNCHANGED natVars

\* A flow that has a port keeps it; a new one gets the first free port of the
\* scan; when a full circle finds none, the cursor is back where it started.
insert(flow) ==
    \/ /\ flow \in DOMAIN forward
       /\ UNCHANGED natVars
    \/ /\ flow \notin DOMAIN forward
       /\ \E i \in FreeAt :
            /\ \A j \in FreeAt : i <= j
            /\ Bind(flow, Scanned(i))
    \/ /\ flow \notin DOMAIN forward
       /\ FreeAt = {}
       /\ UNCHANGED natVars

\* A look-up answers with the set of its one entry, or with the empty set (None).
lookup_forward(flow) == IF flow \in DOMAIN forward THEN {forward[flow]} ELSE {}

lookup_reverse(vp) == IF vp \in DOMAIN reverse THEN {reverse[vp]} ELSE {}

\* Mutant of remove_by_vport: the forward entry is forgotten.
remove_half(vp) ==
    /\ reverse' = Without(reverse, vp)
    /\ UNCHANGED <<forward, next>>

remove_by_vport(vp) ==
    /\ IF vp \in DOMAIN reverse
       THEN /\ reverse' = Without(reverse, vp)
            /\ forward' = Without(forward, reverse[vp])
       ELSE UNCHANGED <<forward, reverse>>
    /\ UNCHANGED next

NatNext == \/ \E flow \in Flows : insert(flow)
           \/ \E vp \in Ports : remove_by_vport(vp)

NatSpec == NatInit /\ [][NatNext]_natVars
--------------------------------------------------------------------------------
\* Both maps relate flows to virtual ports, and the cursor never leaves the
\* port range (nat.rs:42 computes it in u16, where a cursor below BASE_PORT
\* would underflow).
NatTypeOK ==
    /\ DOMAIN forward \subseteq Flows /\ \A f \in DOMAIN forward : forward[f] \in Ports
    /\ DOMAIN reverse \subseteq Ports /\ \A p \in DOMAIN reverse : reverse[p] \in Flows
    /\ next \in Ports

\* The two maps are inverses of each other: whatever the order of inserts and
\* removals, the port an inbound packet is rewritten to leads back to the flow
\* it came from when the answer is rewritten (nat.rs:44-45 and 66-67 update the
\* two maps one after the other).
Inverse ==
    /\ \A f \in DOMAIN forward : forward[f] \in DOMAIN reverse /\ reverse[forward[f]] = f
    /\ \A p \in DOMAIN reverse : reverse[p] \in DOMAIN forward /\ forward[reverse[p]] = p

\* The scan gives up (nat.rs:48-50, "full") exactly when every port is taken:
\* starting anywhere, a full circle visits every port of the range.
FullOnlyWhenFull == FreeAt = {} <=> DOMAIN reverse = Ports

\* The table as a set of leases: a flow and its port.
lease == {<<f, forward[f]>> : f \in DOMAIN forward}

\* NatTable implements the leases the stack relies on: no step of insert or
\* remove_by_vport moves a flow to another port, hands out a port in use, or
\* takes away the port of another flow.
Lease == INSTANCE PortLease
LeaseSpec == Lease!Spec
================================================================================
