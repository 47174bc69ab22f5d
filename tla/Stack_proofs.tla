----------------------------- MODULE Stack_proofs -----------------------------
(***************************************************************************)
(* Every segment and every relay of the stack goes where it belongs, for   *)
(* any number of apps, servers, ports and connections and any queue sizes. *)
(* The argument rests on the NAT table, whose own theorems come first: an  *)
(* entry, once made, is never changed, so what a packet, a socket or a     *)
(* connection was given when it was created stays true.                    *)
(***************************************************************************)
EXTENDS Stack, TLAPS

-------------------------------------------------------------------------------
(* The NAT table, for any sets of sources and destinations and any port range. *)

\* The scan and the cursor stay inside the port range.
LEMMA ScanInRange ==
    ASSUME NEW p \in Ports, NEW i \in Nat
    PROVE  BASE_PORT + ((p - BASE_PORT + i) % PORT_RANGE) \in Ports
  <1>1. p - BASE_PORT + i \in Nat
    BY PortsAssumption DEF Ports
  <1>2. (p - BASE_PORT + i) % PORT_RANGE \in 0 .. PORT_RANGE - 1
    BY <1>1, PortsAssumption
  <1> QED  BY <1>2, PortsAssumption DEF Ports

\* Type correctness and the inverse property are inductive together: the
\* removal of a port deletes the right flow only because reverse is the
\* inverse of forward.
NatInv == NatTypeOK /\ Inverse

LEMMA NatInitInv == NatInit => NatInv
  BY PortsAssumption DEF NatInit, NatInv, NatTypeOK, Inverse, Ports

LEMMA NatStepInv == NatInv /\ [NatNext]_natVars => NatInv'
  <1> SUFFICES ASSUME NatInv, [NatNext]_natVars PROVE NatInv'
    OBVIOUS
  <1> USE DEF NatInv
  <1>1. ASSUME NEW flow \in Flows, NEW i \in FreeAt, flow \notin DOMAIN forward,
               Bind(flow, Scanned(i))
        PROVE  NatInv'
    <2> DEFINE vp == Scanned(i)
    <2>1. vp \in Ports /\ vp \notin DOMAIN reverse
      BY ScanInRange DEF FreeAt, Scanned, NatTypeOK
    <2>2. After(vp) \in Ports
      BY <2>1, ScanInRange DEF After
    <2> HIDE DEF vp
    <2>3. /\ DOMAIN forward' = DOMAIN forward \cup {flow}
          /\ \A f \in DOMAIN forward' : forward'[f] = IF f = flow THEN vp ELSE forward[f]
          /\ DOMAIN reverse' = DOMAIN reverse \cup {vp}
          /\ \A p \in DOMAIN reverse' : reverse'[p] = IF p = vp THEN flow ELSE reverse[p]
          /\ next' = After(vp)
      BY <1>1 DEF Bind, vp, With
    <2>4. NatTypeOK'
      BY <1>1, <2>1, <2>2, <2>3 DEF NatTypeOK
    <2>5. Inverse'
      BY <1>1, <2>1, <2>3 DEF Inverse
    <2> QED  BY <2>4, <2>5
  <1>2. ASSUME NEW vp \in Ports, remove_by_vport(vp)
        PROVE  NatInv'
    BY <1>2 DEF remove_by_vport, Without, NatTypeOK, Inverse
  <1>3. ASSUME UNCHANGED natVars PROVE NatInv'
    BY <1>3 DEF natVars, NatTypeOK, Inverse
  <1> QED  BY <1>1, <1>2, <1>3 DEF NatNext, insert

\* The two hash maps of NatTable are type correct and inverses of each other
\* in every reachable state (nat.rs:33-69).
THEOREM NatCorrect == NatSpec => [](NatTypeOK /\ Inverse)
  BY NatInitInv, NatStepInv, PTL DEF NatSpec, NatInv

\* NatTable implements the leases of PortLease (nat.rs:33-69): a flow never
\* moves to another port, no port in use is handed out, and a removal takes
\* away exactly the entry of the port it names.
THEOREM NatImplementsLease == NatSpec => LeaseSpec
  <1>1. NatInit => Lease!Init
    BY DEF NatInit, Lease!Init, lease
  <1>2. NatInv /\ [NatNext]_natVars => [Lease!Next]_lease
    <2> SUFFICES ASSUME NatInv, [NatNext]_natVars PROVE [Lease!Next]_lease
      OBVIOUS
    <2> USE DEF NatInv
    <2>1. ASSUME NEW flow \in Flows, NEW i \in FreeAt, flow \notin DOMAIN forward,
                 Bind(flow, Scanned(i))
          PROVE  Lease!Next
      <3> DEFINE vp == Scanned(i)
      <3>1. vp \in Ports /\ vp \notin DOMAIN reverse
        BY ScanInRange DEF FreeAt, Scanned, NatTypeOK
      <3> HIDE DEF vp
      <3>2. forward' = With(forward, flow, vp)
        BY <2>1 DEF Bind, vp
      <3>3. \A l \in lease : l[1] # flow /\ l[2] # vp
        BY <2>1, <3>1 DEF lease, Inverse
      <3>4. lease' = lease \cup {<<flow, vp>>}
        BY <2>1, <3>2 DEF lease, With
      <3> QED  BY <3>1, <3>3, <3>4 DEF Lease!Next, Lease!Grant
    <2>2. ASSUME NEW vp \in Ports, remove_by_vport(vp)
          PROVE  Lease!Next
      <3>1. lease' = {l \in lease : l[2] # vp}
        <4>1. CASE vp \in DOMAIN reverse
          BY <2>2, <4>1 DEF remove_by_vport, Without, lease, Inverse, NatTypeOK
        <4>2. CASE vp \notin DOMAIN reverse
          BY <2>2, <4>2 DEF remove_by_vport, lease, Inverse
        <4> QED  BY <4>1, <4>2
      <3> QED  BY <3>1 DEF Lease!Next, Lease!Release
    <2>3. ASSUME UNCHANGED natVars PROVE UNCHANGED lease
      BY <2>3 DEF natVars, lease
    <2> QED  BY <2>1, <2>2, <2>3 DEF NatNext, insert
  <1> QED  BY <1>1, <1>2, NatInitInv, NatStepInv, PTL DEF NatSpec, LeaseSpec, Lease!Spec

\* Starting anywhere, the scan looks at every port of the range.
LEMMA ScanCovers ==
    ASSUME next \in Ports, NEW p \in Ports
    PROVE  \E i \in 0 .. PORT_RANGE - 1 : Scanned(i) = p
  <1> DEFINE n == next - BASE_PORT
             q == p - BASE_PORT
  <1>1. n \in 0 .. PORT_RANGE - 1 /\ q \in 0 .. PORT_RANGE - 1
    BY PortsAssumption DEF Ports
  <1>2. q % PORT_RANGE = q /\ (q + PORT_RANGE) % PORT_RANGE = q
    BY <1>1, PortsAssumption
  <1>3. CASE n <= q
    <2>1. Scanned(q - n) = p
      BY <1>1, <1>2, <1>3, PortsAssumption DEF Scanned, Ports
    <2> QED  BY <1>1, <1>3, <2>1, PortsAssumption
  <1>4. CASE q < n
    <2>1. Scanned(q - n + PORT_RANGE) = p
      BY <1>1, <1>2, <1>4, PortsAssumption DEF Scanned, Ports
    <2> QED  BY <1>1, <1>4, <2>1, PortsAssumption
  <1> QED  BY <1>1, <1>3, <1>4

\* insert answers None (nat.rs:48-50) exactly when every virtual port is taken.
THEOREM NatFull == NatSpec => []FullOnlyWhenFull
  <1>1. NatInv => FullOnlyWhenFull
    <2> SUFFICES ASSUME NatInv PROVE FullOnlyWhenFull
      OBVIOUS
    <2>1. \A i \in 0 .. PORT_RANGE - 1 : Scanned(i) \in Ports
      BY ScanInRange, PortsAssumption DEF NatInv, NatTypeOK, Scanned
    <2> QED  BY <2>1, ScanCovers DEF FullOnlyWhenFull, FreeAt, NatInv, NatTypeOK
  <1> QED  BY <1>1, NatInitInv, NatStepInv, PTL DEF NatSpec

-------------------------------------------------------------------------------
(* The stack. *)

\* Time for the steps that are about a whole state.
USE SMTT(30), ZenonT(30)

\* A packet carries the port of its flow.
Known(p) == p.vport \in DOMAIN reverse /\ reverse[p.vport] = p.flow

\* The packets on their way, those that wait for smoltcp included.
QueuesOK ==
    /\ tun_rx \in Seq([flow : Flows, flag : Flags])
    /\ dev_rx \in Seq([vport : Ports, flow : Flows, flag : Flags])
    /\ dev_tx \subseteq [vport : Ports, flow : Flows]
    /\ tun_tx \subseteq [src : Dsts, dst : Srcs, flow : Flows]
    /\ \A i \in DOMAIN dev_rx : Known(dev_rx[i])
    /\ AnswersComeHome

SocketType ==
    [vport : Ports, tcp : TcpStates, flow : Flows \cup {NoFlow}, full : BOOLEAN]

SocketsTyped ==
    /\ DOMAIN sockets \subseteq Handles
    /\ \A h \in DOMAIN sockets : sockets[h] \in SocketType
    /\ DOMAIN active = DOMAIN sockets
    /\ \A h \in DOMAIN active : active[h] \in Dsts
    /\ DOMAIN sockets \subseteq DOMAIN conn /\ DOMAIN conn \subseteq Handles
    /\ \A h \in DOMAIN conn : conn[h] \in [local : Ports, remote : Dsts]

SocketsOK == SocketsTyped /\ RelayReachesDestination /\ OneSocketPerPort

WaitersOK ==
    /\ pending \in Seq(DOMAIN conn) /\ Len(pending) <= PENDING_CAP
    /\ relays \subseteq DOMAIN conn
    /\ todo \subseteq DOMAIN sockets

StackInv == NatInv /\ phase \in Phases /\ QueuesOK /\ SocketsOK /\ WaitersOK

\* The entries of the NAT table outlive a step.
Keeps == \A p \in DOMAIN reverse : p \in DOMAIN reverse' /\ reverse'[p] = reverse[p]

\* Sockets may go, and those that stay may change their state and be given the flow of
\* their port.
LEMMA SocketsMove ==
    ASSUME SocketsOK, DOMAIN sockets' \subseteq DOMAIN sockets, DOMAIN active' = DOMAIN sockets',
           conn' = conn, reverse' = reverse,
           \A g \in DOMAIN sockets' :
                /\ active'[g] = active[g] /\ sockets'[g] \in SocketType
                /\ sockets'[g].vport = sockets[g].vport
                /\ \/ sockets'[g].flow \in {NoFlow, sockets[g].flow}
                   \/ sockets'[g].flow = reverse[sockets[g].vport]
    PROVE  SocketsOK'
  <1>1. SocketsTyped /\ RelayReachesDestination /\ OneSocketPerPort
    BY DEF SocketsOK
  <1>2. SocketsTyped'
    <2>1. ASSUME NEW g \in DOMAIN active' PROVE active'[g] \in Dsts
      BY <1>1 DEF SocketsTyped
    <2> QED BY <1>1, <2>1 DEF SocketsTyped, SocketType
  <1>3. RelayReachesDestination'
    <2> SUFFICES ASSUME NEW g \in DOMAIN sockets'
                 PROVE  /\ conn'[g] = [local |-> sockets'[g].vport, remote |-> active'[g]]
                        /\ sockets'[g].vport \in DOMAIN reverse'
                        /\ reverse'[sockets'[g].vport][2] = active'[g]
                        /\ sockets'[g].flow # NoFlow => sockets'[g].flow = reverse'[sockets'[g].vport]
      BY DEF RelayReachesDestination
    <2>1. /\ conn[g] = [local |-> sockets[g].vport, remote |-> active[g]]
          /\ sockets[g].vport \in DOMAIN reverse /\ reverse[sockets[g].vport][2] = active[g]
          /\ sockets[g].flow # NoFlow => sockets[g].flow = reverse[sockets[g].vport]
      BY <1>1 DEF RelayReachesDestination
    <2> QED BY <2>1
  <1>4. OneSocketPerPort'
    BY <1>1 DEF OneSocketPerPort
  <1> QED BY <1>2, <1>3, <1>4 DEF SocketsOK

\* Nothing about the sockets has changed.
LEMMA SocketsSame ==
    ASSUME SocketsOK, sockets' = sockets, active' = active, conn' = conn, reverse' = reverse
    PROVE  SocketsOK'
  <1>1. /\ DOMAIN active = DOMAIN sockets
        /\ \A g \in DOMAIN sockets : sockets[g] \in SocketType
    BY DEF SocketsOK, SocketsTyped, SocketType
  <1> QED BY <1>1, SocketsMove

\* One socket changes; it keeps its port, and has no flow, its own or that of its port.
LEMMA OneSocketMoves ==
    ASSUME SocketsOK, WaitersOK, NEW h \in DOMAIN sockets,
           DOMAIN sockets' = DOMAIN sockets,
           \A g \in DOMAIN sockets : g # h => sockets'[g] = sockets[g],
           sockets'[h] \in SocketType, sockets'[h].vport = sockets[h].vport,
           \/ sockets'[h].flow \in {NoFlow, sockets[h].flow}
           \/ sockets'[h].flow = reverse[sockets[h].vport],
           UNCHANGED <<active, conn, pending, relays>>, reverse' = reverse,
           todo' \subseteq todo
    PROVE  SocketsOK' /\ WaitersOK'
  <1>1. SocketsTyped /\ DOMAIN active' = DOMAIN sockets'
    BY DEF SocketsOK, SocketsTyped
  <1>2. ASSUME NEW g \in DOMAIN sockets'
        PROVE  /\ active'[g] = active[g] /\ sockets'[g] \in SocketType
               /\ sockets'[g].vport = sockets[g].vport
               /\ \/ sockets'[g].flow \in {NoFlow, sockets[g].flow}
                  \/ sockets'[g].flow = reverse[sockets[g].vport]
    BY <1>1, Zenon DEF SocketsTyped
  <1>3. SocketsOK'
    BY <1>1, <1>2, SocketsMove
  <1>4. WaitersOK'
    BY DEF WaitersOK
  <1> QED BY <1>3, <1>4

\* Nobody has come or gone.
LEMMA WaitersSame ==
    ASSUME WaitersOK, sockets' = sockets, conn' = conn, pending' = pending, relays' = relays,
           todo' \subseteq DOMAIN sockets
    PROVE  WaitersOK'
  <1>1. pending' \in Seq(DOMAIN conn')
    BY Zenon DEF WaitersOK
  <1> QED BY <1>1, Zenon DEF WaitersOK

\* Nothing is there at the start.
LEMMA StackInitInv == StackInit => StackInv
  <1> SUFFICES ASSUME StackInit PROVE StackInv
    OBVIOUS
  <1>1. NatInv
    BY NatInitInv DEF StackInit
  <1>2. QueuesOK
    BY DEF StackInit, QueuesOK, AnswersComeHome
  <1>3. SocketsOK
    BY DEF StackInit, SocketsOK, SocketsTyped, RelayReachesDestination, OneSocketPerPort
  <1>4. WaitersOK
    BY BoundsAssumption DEF StackInit, WaitersOK
  <1> QED BY <1>1, <1>2, <1>3, <1>4 DEF StackInit, StackInv, Phases

\* insert gives a flow an entry, or leaves it its own, and changes no other.
LEMMA InsertKeeps ==
    ASSUME NatInv, NEW flow \in Flows, insert(flow)
    PROVE  /\ NatInv' /\ Keeps
           /\ flow \in DOMAIN forward' =>
                /\ forward'[flow] \in Ports
                /\ forward'[flow] \in DOMAIN reverse'
                /\ reverse'[forward'[flow]] = flow
  <1>1. NatInv'
    BY NatStepInv DEF NatNext
  <1>2. Keeps
    <2>1. CASE UNCHANGED natVars
      BY <2>1 DEF natVars, Keeps
    <2>2. ASSUME NEW i \in FreeAt, Bind(flow, Scanned(i)) PROVE Keeps
      BY <2>2 DEF Bind, With, FreeAt, Keeps
    <2> QED BY <2>1, <2>2 DEF insert
  <1> QED BY <1>1, <1>2 DEF NatInv, NatTypeOK, Inverse

\* Whatever is known of the sockets stays true while the table keeps its entries.
LEMMA SocketsKept ==
    ASSUME SocketsOK, Keeps, UNCHANGED <<sockets, active, conn>>
    PROVE  SocketsOK'
  BY DEF SocketsOK, SocketsTyped, RelayReachesDestination, OneSocketPerPort, Keeps

\* close_handle never finds the port it looks for, and leaves the table alone.
LEMMA CloseHandleFact ==
    ASSUME NEW h, close_handle(h)
    PROVE  /\ UNCHANGED natVars
           /\ active' = Without(active, h) /\ sockets' = Without(sockets, h)
  <1>1. vport_of_handle(h, Without(active, h)) = {}
    BY DEF vport_of_handle, Without
  <1> QED BY <1>1 DEF close_handle

\* The sequences that shrink at the front and grow at the back.
LEMMA SeqFacts ==
    ASSUME NEW S, NEW s \in Seq(S)
    PROVE  /\ \A x \in S : /\ Append(s, x) \in Seq(S)
                          /\ \A i \in DOMAIN Append(s, x) :
                                Append(s, x)[i] = x \/ (i \in DOMAIN s /\ Append(s, x)[i] = s[i])
           /\ s # << >> => /\ Head(s) \in S /\ Tail(s) \in Seq(S)
                           /\ Len(Tail(s)) = Len(s) - 1
                           /\ \A i \in DOMAIN Tail(s) : i + 1 \in DOMAIN s /\ Tail(s)[i] = s[i + 1]
  OBVIOUS

\* A sequence over a set is one over a larger set.
LEMMA SeqWider ==
    ASSUME NEW S, NEW T, S \subseteq T, NEW s \in Seq(S)
    PROVE  s \in Seq(T)
  OBVIOUS

\* A SYN: the new socket has the port of the flow that asked for it, and no other
\* socket has that destination.
LEMMA ListenerOK ==
    ASSUME StackInv, NEW flow \in Flows, Keeps, NEW vp \in Ports,
           vp \in DOMAIN reverse', reverse'[vp] = flow,
           NeedsListener(flow[2]), create_listener(vp, flow[2])
    PROVE  /\ SocketsOK'
           /\ pending' \in Seq(DOMAIN conn') /\ Len(pending') <= PENDING_CAP
           /\ DOMAIN conn \subseteq DOMAIN conn' /\ DOMAIN sockets \subseteq DOMAIN sockets'
  <1> DEFINE new == [vport |-> vp, tcp |-> "Listen", flow |-> NoFlow, full |-> FALSE]
             link == [local |-> vp, remote |-> flow[2]]
  <1>1. PICK h \in Handles :
            /\ h \notin DOMAIN sockets
            /\ sockets' = With(sockets, h, new)
            /\ active' = With(active, h, flow[2])
            /\ conn' = With(conn, h, link)
            /\ pending' = IF Len(pending) < PENDING_CAP THEN Append(pending, h) ELSE pending
    BY DEF create_listener, Unused
  <1>2. /\ flow[2] \in Dsts
        /\ new \in SocketType
        /\ link \in [local : Ports, remote : Dsts]
    BY DEF Flows, TcpStates, SocketType
  <1>3. /\ new.vport = vp /\ new.flow = NoFlow
    OBVIOUS
  <1> HIDE DEF new, link
  <1>4. /\ DOMAIN sockets' = DOMAIN sockets \cup {h} /\ sockets'[h] = new
        /\ \A g \in DOMAIN sockets : g # h /\ sockets'[g] = sockets[g]
        /\ DOMAIN active' = DOMAIN active \cup {h} /\ active'[h] = flow[2]
        /\ \A g \in DOMAIN active : g # h => active'[g] = active[g]
        /\ DOMAIN conn' = DOMAIN conn \cup {h} /\ conn'[h] = link
        /\ \A g \in DOMAIN conn : g # h => conn'[g] = conn[g]
    BY <1>1 DEF With
  <1>5. SocketsTyped
    BY DEF StackInv, SocketsOK
  <1>6. SocketsTyped'
    BY <1>2, <1>4, <1>5 DEF SocketsTyped
  <1>7. \A g \in DOMAIN sockets : active[g] # flow[2] /\ sockets[g].vport # vp
    <2> SUFFICES ASSUME NEW g \in DOMAIN sockets
                 PROVE  active[g] # flow[2] /\ sockets[g].vport # vp
      OBVIOUS
    <2>1. active[g] # flow[2]
      BY <1>5 DEF NeedsListener, SocketsTyped
    <2>2. /\ sockets[g].vport \in DOMAIN reverse
          /\ reverse[sockets[g].vport][2] = active[g]
      BY Zenon DEF StackInv, SocketsOK, RelayReachesDestination
    <2>3. reverse'[sockets[g].vport] = reverse[sockets[g].vport]
      BY <2>2 DEF Keeps
    <2> QED BY <2>1, <2>2, <2>3
  <1>8. RelayReachesDestination'
    BY <1>3, <1>4, <1>5 DEF StackInv, SocketsOK, RelayReachesDestination, Keeps, SocketsTyped, link
  <1>9. OneSocketPerPort'
    BY <1>3, <1>4, <1>5, <1>7 DEF StackInv, SocketsOK, OneSocketPerPort, SocketsTyped
  <1>10. pending' \in Seq(DOMAIN conn') /\ Len(pending') <= PENDING_CAP
    <2>1. pending \in Seq(DOMAIN conn) /\ Len(pending) <= PENDING_CAP
      BY DEF StackInv, WaitersOK
    <2>2. pending \in Seq(DOMAIN conn') /\ h \in DOMAIN conn'
      BY <1>4, <2>1, SeqWider
    <2>3. CASE Len(pending) < PENDING_CAP
      <3>1. pending' = Append(pending, h)
        BY <1>1, <2>3
      <3>2. Append(pending, h) \in Seq(DOMAIN conn') /\ Len(Append(pending, h)) = Len(pending) + 1
        BY <2>2
      <3> QED BY <2>1, <2>3, <3>1, <3>2, BoundsAssumption
    <2>4. CASE ~(Len(pending) < PENDING_CAP)
      BY <1>1, <2>1, <2>2, <2>4
    <2> QED BY <2>3, <2>4
  <1> QED BY <1>4, <1>6, <1>8, <1>9, <1>10 DEF SocketsOK

\* A packet that is passed on to smoltcp has the port of its flow.
LEMMA PassedOn ==
    ASSUME QueuesOK, Keeps, NEW p \in [flow : Flows, flag : Flags], NEW vp \in Ports,
           vp \in DOMAIN reverse', reverse'[vp] = p.flow, rewrite_inbound(p, vp)
    PROVE  /\ dev_rx' \in Seq([vport : Ports, flow : Flows, flag : Flags])
           /\ \A i \in DOMAIN dev_rx' : Known(dev_rx[i])'
  <1> DEFINE r == [vport |-> vp, flow |-> p.flow, flag |-> p.flag]
             S == [vport : Ports, flow : Flows, flag : Flags]
  <1>1. r \in S /\ dev_rx \in Seq(S)
    BY DEF QueuesOK
  <1>2. r.vport = vp /\ r.flow = p.flow
    OBVIOUS
  <1>3. dev_rx' = Append(dev_rx, r)
    BY DEF rewrite_inbound
  <1> HIDE DEF r, S
  <1>4. \A i \in DOMAIN dev_rx' : dev_rx'[i] = r \/ (i \in DOMAIN dev_rx /\ dev_rx'[i] = dev_rx[i])
    BY <1>1, <1>3, SeqFacts
  <1>5. \A i \in DOMAIN dev_rx' : Known(dev_rx[i])'
    BY <1>2, <1>4 DEF Known, QueuesOK, Keeps
  <1>6. dev_rx' \in Seq(S)
    BY <1>1, <1>3, SeqFacts
  <1> QED BY <1>5, <1>6 DEF S

\* The queues after an inbound packet.
LEMMA QueuesKept ==
    ASSUME QueuesOK, Keeps, UNCHANGED <<dev_tx, tun_tx>>,
           tun_rx' \in Seq([flow : Flows, flag : Flags]),
           dev_rx' \in Seq([vport : Ports, flow : Flows, flag : Flags]),
           \A i \in DOMAIN dev_rx' : Known(dev_rx[i])'
    PROVE  QueuesOK'
  BY DEF QueuesOK, AnswersComeHome, Keeps

\* Inbound packets get the port of their flow, and a SYN a socket for it.
LEMMA ProcessInboundInv == StackInv /\ process_inbound => StackInv'
  <1> SUFFICES ASSUME StackInv, process_inbound PROVE StackInv'
    OBVIOUS
  <1> DEFINE p == Head(tun_rx)
             P == [flow : Flows, flag : Flags]
  <1>1. /\ phase \in Phases /\ phase' = phase /\ UNCHANGED <<dev_tx, tun_tx, relays, todo>>
        /\ tun_rx \in Seq(P) /\ tun_rx # << >> /\ tun_rx' = Tail(tun_rx)
        /\ inbound_syn(p) \/ inbound_other(p)
        /\ QueuesOK /\ SocketsOK /\ WaitersOK /\ NatInv
    BY DEF process_inbound, StackInv, QueuesOK
  <1>2. p \in P /\ tun_rx' \in Seq(P)
    BY <1>1, SeqFacts, Zenon
  <1> HIDE DEF p
  <1>3. p.flow \in Flows
    BY <1>2
  <1>same. /\ dev_rx \in Seq([vport : Ports, flow : Flows, flag : Flags])
           /\ (Keeps /\ dev_rx' = dev_rx) => \A i \in DOMAIN dev_rx' : Known(dev_rx[i])'
    BY <1>1 DEF QueuesOK, Known, Keeps
  <1>4. CASE inbound_syn(p)
    <2>1. /\ NatInv' /\ Keeps
          /\ p.flow \in DOMAIN forward' =>
                /\ forward'[p.flow] \in Ports
                /\ forward'[p.flow] \in DOMAIN reverse'
                /\ reverse'[forward'[p.flow]] = p.flow
      BY <1>1, <1>3, <1>4, InsertKeeps DEF inbound_syn
    <2>2. CASE p.flow \notin DOMAIN forward'
      <3>1. UNCHANGED <<sockets, active, conn, pending, dev_rx>>
        BY <1>4, <2>2 DEF inbound_syn
      <3>2. QueuesOK'
        BY <1>1, <1>2, <1>same, <2>1, <3>1, QueuesKept
      <3>3. SocketsOK'
        BY <1>1, <2>1, <3>1, SocketsKept
      <3>4. WaitersOK'
        BY <1>1, <3>1 DEF WaitersOK
      <3> QED BY <1>1, <2>1, <3>2, <3>3, <3>4 DEF StackInv
    <2>3. CASE p.flow \in DOMAIN forward'
      <3>1. QueuesOK'
        <4>1. rewrite_inbound(p, forward'[p.flow])
          BY <1>4, <2>3 DEF inbound_syn
        <4> QED BY <1>1, <1>2, <2>1, <2>3, <4>1, PassedOn, QueuesKept
      <3>2. CASE NeedsListener(p.flow[2])
        <4>1. create_listener(forward'[p.flow], p.flow[2])
          BY <1>4, <2>3, <3>2 DEF inbound_syn
        <4>2. /\ SocketsOK'
              /\ pending' \in Seq(DOMAIN conn') /\ Len(pending') <= PENDING_CAP
              /\ DOMAIN conn \subseteq DOMAIN conn' /\ DOMAIN sockets \subseteq DOMAIN sockets'
          BY <1>3, <2>1, <2>3, <3>2, <4>1, ListenerOK
        <4>3. WaitersOK'
          BY <1>1, <4>2 DEF WaitersOK
        <4> QED BY <1>1, <2>1, <3>1, <4>2, <4>3 DEF StackInv
      <3>3. CASE ~NeedsListener(p.flow[2])
        <4>1. UNCHANGED <<sockets, active, conn, pending>>
          BY <1>4, <2>3, <3>3 DEF inbound_syn
        <4>2. SocketsOK' /\ WaitersOK'
          BY <1>1, <2>1, <4>1, SocketsKept DEF WaitersOK
        <4> QED BY <1>1, <2>1, <3>1, <4>2 DEF StackInv
      <3> QED BY <3>2, <3>3
    <2> QED BY <2>2, <2>3
  <1>5. CASE inbound_other(p)
    <2>1. UNCHANGED <<natVars, sockets, active, conn, pending>>
      BY <1>5 DEF inbound_other
    <2>2. Keeps /\ NatInv'
      BY <1>1, <2>1 DEF natVars, Keeps, NatInv, NatTypeOK, Inverse
    <2>3. SocketsOK' /\ WaitersOK'
      BY <1>1, <2>1, <2>2, SocketsKept DEF WaitersOK
    <2>4. QueuesOK'
      <3>1. CASE UNCHANGED dev_rx
        BY <1>1, <1>2, <1>same, <2>2, <3>1, QueuesKept
      <3>2. CASE \E vp \in lookup_forward(p.flow) : rewrite_inbound(p, vp)
        <4>1. PICK vp \in lookup_forward(p.flow) : rewrite_inbound(p, vp)
          BY <3>2
        <4>2. vp \in Ports /\ vp \in DOMAIN reverse' /\ reverse'[vp] = p.flow
          BY <1>1, <2>1 DEF lookup_forward, NatInv, NatTypeOK, Inverse, natVars
        <4> QED BY <1>1, <1>2, <2>2, <4>1, <4>2, PassedOn, QueuesKept
      <3> QED BY <1>5, <3>1, <3>2 DEF inbound_other
    <2> QED BY <1>1, <2>2, <2>3, <2>4 DEF StackInv
  <1> QED BY <1>1, <1>4, <1>5

\* A socket takes the flow of the segment it accepts: the flow of its own port.
LEMMA DrivePacketInv == StackInv /\ drive_packet => StackInv'
  <1> SUFFICES ASSUME StackInv, drive_packet PROVE StackInv'
    OBVIOUS
  <1> DEFINE p == Head(dev_rx)
             P == [vport : Ports, flow : Flows, flag : Flags]
  <1>1. /\ phase \in Phases
        /\ UNCHANGED <<natVars, phase, tun_rx, tun_tx, active, connVars, todo>>
        /\ dev_rx \in Seq(P) /\ dev_rx # << >> /\ dev_rx' = Tail(dev_rx)
        /\ QueuesOK /\ SocketsOK /\ WaitersOK /\ NatInv
    BY DEF drive_packet, StackInv, QueuesOK
  <1>2. /\ p \in P /\ dev_rx' \in Seq(P)
        /\ \A i \in DOMAIN dev_rx' : i + 1 \in DOMAIN dev_rx /\ dev_rx'[i] = dev_rx[i + 1]
    BY <1>1, SeqFacts, Zenon
  <1>3. Known(p)
    <2>1. 1 \in DOMAIN dev_rx /\ p = dev_rx[1]
      BY <1>1
    <2> QED BY <1>1, <2>1 DEF QueuesOK
  <1>4. NatInv'
    BY <1>1 DEF natVars, NatInv, NatTypeOK, Inverse
  <1>5. reverse' = reverse
    BY <1>1 DEF natVars
  <1>6. QueuesOK'
    <2>1. \A i \in DOMAIN dev_rx' : Known(dev_rx[i])'
      BY <1>1, <1>2, <1>5 DEF QueuesOK, Known
    <2>2. Segment(p) \in [vport : Ports, flow : Flows] /\ Known(Segment(p))
      BY <1>2, <1>3 DEF Segment, Known
    <2>3. \A q \in dev_tx' : q \in dev_tx \/ q = Segment(p)
      BY DEF drive_packet, Answers
    <2>4. AnswersComeHome'
      BY <1>1, <1>5, <2>2, <2>3 DEF AnswersComeHome, QueuesOK, Known
    <2>5. dev_tx' \subseteq [vport : Ports, flow : Flows]
      BY <1>1, <2>2, <2>3 DEF QueuesOK
    <2> QED BY <1>1, <1>2, <2>1, <2>4, <2>5 DEF QueuesOK
  <1> HIDE DEF p
  <1>7. CASE UNCHANGED sockets
    <2>1. /\ active' = active /\ conn' = conn /\ pending' = pending /\ relays' = relays
          /\ todo' \subseteq DOMAIN sockets
      BY <1>1 DEF connVars, WaitersOK
    <2>2. SocketsOK' /\ WaitersOK'
      BY <1>1, <1>5, <1>7, <2>1, SocketsSame, WaitersSame
    <2> QED BY <1>1, <1>4, <1>6, <2>2 DEF StackInv
  <1>8. ASSUME NEW h \in DOMAIN sockets, DOMAIN sockets' = DOMAIN sockets,
               \A g \in DOMAIN sockets : g # h => sockets'[g] = sockets[g],
               sockets'[h] \in SocketType, sockets'[h].vport = sockets[h].vport,
               \/ sockets'[h].flow \in {NoFlow, sockets[h].flow}
               \/ sockets'[h].flow = reverse[sockets[h].vport]
        PROVE  StackInv'
    <2>1. UNCHANGED <<active, conn, pending, relays>> /\ todo' \subseteq todo
      BY <1>1 DEF connVars
    <2>2. SocketsOK' /\ WaitersOK'
      BY <1>1, <1>5, <1>8, <2>1, OneSocketMoves
    <2> QED BY <1>1, <1>4, <1>6, <2>2 DEF StackInv
  <1>9. ASSUME NEW h \in DOMAIN sockets PROVE sockets[h] \in SocketType
    BY <1>1 DEF SocketsOK, SocketsTyped
  <1>10. ASSUME NEW h \in DOMAIN sockets, NEW tcp \in TcpStates, receive(h, p, tcp)
         PROVE  StackInv'
    <2> DEFINE f == IF tcp = "Listen" THEN NoFlow ELSE p.flow
               b == sockets[h].full /\ Open(tcp)
    <2>1. f \in Flows \cup {NoFlow} /\ b \in BOOLEAN
      BY <1>2 DEF Open
    <2>2. f = NoFlow \/ f = reverse[sockets[h].vport]
      BY <1>3, <1>10 DEF receive, Accepts, Known
    <2>3. sockets' = [sockets EXCEPT ![h].tcp = tcp, ![h].flow = f, ![h].full = b]
      BY <1>10 DEF receive
    <2> HIDE DEF f, b
    <2>4. /\ DOMAIN sockets' = DOMAIN sockets
          /\ \A g \in DOMAIN sockets : g # h => sockets'[g] = sockets[g]
          /\ sockets'[h] = [sockets[h] EXCEPT !.tcp = tcp, !.flow = f, !.full = b]
      BY <2>3, Zenon
    <2>5. /\ sockets'[h] \in SocketType
          /\ sockets'[h].vport = sockets[h].vport /\ sockets'[h].flow = f
      BY <1>9, <2>1, <2>4 DEF SocketType
    <2> QED BY <1>8, <2>2, <2>4, <2>5
  <1>11. ASSUME NEW h \in DOMAIN sockets, acknowledge(h, p) PROVE StackInv'
    <2>1. /\ DOMAIN sockets' = DOMAIN sockets
          /\ \A g \in DOMAIN sockets : g # h => sockets'[g] = sockets[g]
          /\ sockets'[h] = [sockets[h] EXCEPT !.full = FALSE]
      BY <1>11, Zenon DEF acknowledge
    <2>2. /\ sockets'[h] \in SocketType
          /\ sockets'[h].vport = sockets[h].vport /\ sockets'[h].flow = sockets[h].flow
      BY <1>9, <2>1 DEF SocketType
    <2> QED BY <1>8, <2>1, <2>2
  <1> QED BY <1>7, <1>10, <1>11 DEF drive_packet, p

\* What a socket sends is of the flow of its port.
LEMMA DriveDoneInv == StackInv /\ drive_done => StackInv'
  <1> SUFFICES ASSUME StackInv, drive_done PROVE StackInv'
    OBVIOUS
  <1>1. /\ phase' = "service" /\ todo' = DOMAIN active
        /\ UNCHANGED <<natVars, tun_rx, dev_rx, tun_tx, sockets, active, connVars>>
        /\ QueuesOK /\ SocketsOK /\ WaitersOK /\ NatInv
    BY DEF drive_done, StackInv
  <1>2. NatInv' /\ reverse' = reverse
    BY <1>1 DEF natVars, NatInv, NatTypeOK, Inverse
  <1>3. SocketsOK' /\ WaitersOK'
    <2>1. /\ sockets' = sockets /\ active' = active /\ conn' = conn /\ pending' = pending
          /\ relays' = relays /\ todo' \subseteq DOMAIN sockets
      BY <1>1 DEF connVars, WaitersOK, SocketsOK, SocketsTyped
    <2> QED BY <1>1, <1>2, <2>1, SocketsSame, WaitersSame
  <1>4. \A q \in dev_tx' : q \in dev_tx \/ \E h \in DOMAIN sockets :
            sockets[h].flow # NoFlow /\ q = Segment(sockets[h])
    BY DEF drive_done
  <1>5. ASSUME NEW h \in DOMAIN sockets, sockets[h].flow # NoFlow
        PROVE  /\ Segment(sockets[h]) \in [vport : Ports, flow : Flows]
               /\ Known(Segment(sockets[h]))
    <2>1. sockets[h] \in SocketType /\ RelayReachesDestination
      BY <1>1 DEF SocketsOK, SocketsTyped
    <2>2. sockets[h].vport \in Ports /\ sockets[h].flow \in Flows
      BY <1>5, <2>1 DEF SocketType
    <2>3. Known(sockets[h])
      BY <1>5, <2>1, Zenon DEF RelayReachesDestination, Known
    <2> QED BY <2>2, <2>3, Zenon DEF Segment, Known
  <1>6. \A q \in dev_tx' : q \in [vport : Ports, flow : Flows] /\ Known(q)
    BY <1>1, <1>4, <1>5 DEF QueuesOK, AnswersComeHome, Known
  <1>7. QueuesOK'
    BY <1>1, <1>2, <1>6 DEF QueuesOK, AnswersComeHome, Known
  <1> QED BY <1>1, <1>2, <1>3, <1>7 DEF StackInv, Phases

\* Service changes only the state of a socket, or removes it with its entry in active.
LEMMA ServiceInv == ASSUME StackInv, NEW h \in Handles, service_socket(h) PROVE StackInv'
  <1>1. /\ phase \in Phases /\ UNCHANGED <<phase, queueVars, connVars>>
        /\ h \in todo /\ todo' = todo \ {h} /\ todo \subseteq DOMAIN sockets
        /\ QueuesOK /\ SocketsOK /\ WaitersOK /\ NatInv /\ SocketsTyped
    BY DEF service_socket, StackInv, WaitersOK, SocketsOK
  <1>2. ASSUME UNCHANGED natVars PROVE NatInv' /\ QueuesOK' /\ reverse' = reverse
    BY <1>1, <1>2
       DEF natVars, NatInv, NatTypeOK, Inverse, queueVars, QueuesOK, AnswersComeHome, Known
  <1>3. CASE close_handle(h)
    <2>1. UNCHANGED natVars /\ active' = Without(active, h) /\ sockets' = Without(sockets, h)
      BY <1>3, CloseHandleFact
    <2>2. /\ DOMAIN sockets' = DOMAIN sockets \ {h} /\ DOMAIN active' = DOMAIN active \ {h}
          /\ \A g \in DOMAIN sockets' : sockets'[g] = sockets[g]
          /\ \A g \in DOMAIN active' : active'[g] = active[g]
      BY <2>1 DEF Without
    <2>3. conn' = conn /\ pending' = pending /\ relays' = relays /\ reverse' = reverse
      BY <1>1, <1>2, <2>1 DEF connVars
    <2>4. DOMAIN sockets' \subseteq DOMAIN sockets /\ DOMAIN active' = DOMAIN sockets'
      BY <1>1, <2>2 DEF SocketsTyped
    <2>5. SocketsOK'
      <3>1. ASSUME NEW g \in DOMAIN sockets'
            PROVE  /\ active'[g] = active[g] /\ sockets'[g] \in SocketType
                   /\ sockets'[g].vport = sockets[g].vport
                   /\ \/ sockets'[g].flow \in {NoFlow, sockets[g].flow}
                      \/ sockets'[g].flow = reverse[sockets[g].vport]
        BY <1>1, <2>2, <2>4 DEF SocketsTyped, SocketType
      <3> QED BY <1>1, <2>3, <2>4, <3>1, SocketsMove
    <2>6. WaitersOK'
      BY <1>1, <2>2, <2>3 DEF WaitersOK
    <2> QED BY <1>1, <1>2, <2>1, <2>5, <2>6 DEF StackInv
  <1>4. ASSUME UNCHANGED <<natVars, active>>, fill(h) \/ half_close(h) PROVE StackInv'
    <2>1. PICK tcp \in TcpStates, b \in BOOLEAN :
            sockets' = [sockets EXCEPT ![h].tcp = tcp, ![h].full = b]
      <3>1. sockets[h] \in SocketType
        BY <1>1 DEF SocketsTyped
      <3>2. CASE fill(h)
        <4>1. sockets' = [sockets EXCEPT ![h].tcp = sockets[h].tcp, ![h].full = TRUE]
          BY <1>1, <3>1, <3>2 DEF fill, SocketType
        <4> QED BY <3>1, <4>1 DEF SocketType
      <3>3. CASE half_close(h)
        <4>1. Closing(sockets[h].tcp) \in TcpStates
          BY DEF Closing, TcpStates
        <4>2. sockets' = [sockets EXCEPT ![h].tcp = Closing(sockets[h].tcp),
                                         ![h].full = sockets[h].full]
          BY <1>1, <3>1, <3>3 DEF half_close, SocketType
        <4> QED BY <3>1, <4>1, <4>2 DEF SocketType
      <3> QED BY <1>4, <3>2, <3>3
    <2>2. /\ DOMAIN sockets' = DOMAIN sockets
          /\ \A g \in DOMAIN sockets : g # h => sockets'[g] = sockets[g]
          /\ sockets'[h] = [sockets[h] EXCEPT !.tcp = tcp, !.full = b]
      BY <1>1, <2>1, Zenon
    <2>3. /\ sockets'[h] \in SocketType
          /\ sockets'[h].vport = sockets[h].vport /\ sockets'[h].flow = sockets[h].flow
      BY <1>1, <2>2 DEF SocketsTyped, SocketType
    <2>4. UNCHANGED <<active, conn, pending, relays>> /\ reverse' = reverse /\ todo' \subseteq todo
      BY <1>1, <1>2, <1>4 DEF connVars
    <2>5. SocketsOK' /\ WaitersOK'
      BY <1>1, <2>2, <2>3, <2>4, OneSocketMoves
    <2> QED BY <1>1, <1>2, <1>4, <2>5 DEF StackInv
  <1>5. CASE UNCHANGED <<natVars, sockets, active>>
    <2>1. conn' = conn /\ pending' = pending /\ relays' = relays /\ todo' \subseteq DOMAIN sockets
      BY <1>1 DEF connVars
    <2>2. SocketsOK' /\ WaitersOK'
      BY <1>1, <1>2, <1>5, <2>1, SocketsSame, WaitersSame
    <2> QED BY <1>1, <1>2, <1>5, <2>2 DEF StackInv
  <1> QED BY <1>3, <1>4, <1>5 DEF service_socket

\* A segment leaves with the address of the flow of its port.
LEMMA DrainInv == StackInv /\ drain => StackInv'
  <1> SUFFICES ASSUME StackInv, drain PROVE StackInv'
    OBVIOUS
  <1>1. /\ phase' = "write" /\ dev_tx' = {}
        /\ tun_tx' = tun_tx \cup UNION {rewrite_outbound(p) : p \in dev_tx}
        /\ UNCHANGED <<natVars, tun_rx, dev_rx, sockets, active, connVars, todo>>
        /\ QueuesOK /\ SocketsOK /\ WaitersOK /\ NatInv
    BY DEF drain, StackInv
  <1>2. NatInv' /\ reverse' = reverse
    BY <1>1 DEF natVars, NatInv, NatTypeOK, Inverse
  <1>3. SocketsOK' /\ WaitersOK'
    <2>1. /\ sockets' = sockets /\ active' = active /\ conn' = conn /\ pending' = pending
          /\ relays' = relays /\ todo' \subseteq DOMAIN sockets
      BY <1>1 DEF connVars, WaitersOK, SocketsOK, SocketsTyped
    <2> QED BY <1>1, <1>2, <2>1, SocketsSame, WaitersSame
  <1>4. ASSUME NEW p \in dev_tx, NEW q \in rewrite_outbound(p)
        PROVE  q \in [src : Dsts, dst : Srcs, flow : Flows] /\ <<q.dst, q.src>> = q.flow
    <2>1. p.vport \in DOMAIN reverse /\ reverse[p.vport] = p.flow /\ p.flow \in Flows
      BY <1>1 DEF QueuesOK, AnswersComeHome
    <2>2. q = [src |-> p.flow[2], dst |-> p.flow[1], flow |-> p.flow]
      BY <2>1 DEF rewrite_outbound, lookup_reverse
    <2> QED BY <2>1, <2>2 DEF Flows
  <1>5. /\ tun_tx' \subseteq [src : Dsts, dst : Srcs, flow : Flows]
        /\ \A q \in tun_tx' : <<q.dst, q.src>> = q.flow
    <2>1. \A q \in tun_tx' : q \in tun_tx \/ \E p \in dev_tx : q \in rewrite_outbound(p)
      BY <1>1, Zenon
    <2> QED BY <1>1, <1>4, <2>1 DEF QueuesOK, AnswersComeHome
  <1>6. AnswersComeHome'
    BY <1>1, <1>5 DEF AnswersComeHome
  <1>7. QueuesOK'
    BY <1>1, <1>2, <1>5, <1>6 DEF QueuesOK, Known
  <1> QED BY <1>1, <1>2, <1>3, <1>7 DEF StackInv, Phases

\* The steps that move no packet into the stack and touch no socket.
LEMMA OtherSteps ==
    ASSUME StackInv,
           \/ poll \/ inbound_done \/ service_done \/ drain_outbound \/ accept
           \/ \E flow \in Flows, flag \in Fed : feed_inbound(flow, flag)
           \/ \E h \in Handles : relay_ends(h)
           \/ UNCHANGED <<natVars, stackVars>>
    PROVE  StackInv'
  <1>1. /\ UNCHANGED <<natVars, dev_rx, dev_tx, sockets, active, conn, todo>>
        /\ phase' \in Phases /\ tun_tx' \subseteq tun_tx
    BY Zenon DEF StackInv, Phases, poll, inbound_done, service_done, drain_outbound, accept,
           feed_inbound, relay_ends, queueVars, connVars, stackVars
  <1>2. tun_rx' \in Seq([flow : Flows, flag : Flags])
    <2>1. tun_rx \in Seq([flow : Flows, flag : Flags])
      BY DEF StackInv, QueuesOK
    <2>2. ASSUME NEW flow \in Flows, NEW flag \in Fed, feed_inbound(flow, flag)
          PROVE  tun_rx' \in Seq([flow : Flows, flag : Flags])
      <3>1. [flow |-> flow, flag |-> flag] \in [flow : Flows, flag : Flags]
        BY BoundsAssumption
      <3> QED BY <2>1, <2>2, <3>1, SeqFacts, Zenon DEF feed_inbound
    <2>3. CASE UNCHANGED tun_rx
      BY <2>1, <2>3
    <2> QED
      BY <2>2, <2>3, Zenon DEF poll, inbound_done, service_done, drain_outbound, accept, relay_ends,
                        queueVars, stackVars
  <1>3. /\ pending' \in Seq(DOMAIN conn) /\ Len(pending') <= PENDING_CAP
        /\ relays' \subseteq DOMAIN conn
    <2>1. /\ pending \in Seq(DOMAIN conn) /\ Len(pending) <= PENDING_CAP
          /\ relays \subseteq DOMAIN conn
      BY DEF StackInv, WaitersOK
    <2>2. CASE pending # << >> /\ pending' = Tail(pending) /\ relays' = relays \cup {Head(pending)}
      <3>1. /\ Head(pending) \in DOMAIN conn /\ Tail(pending) \in Seq(DOMAIN conn)
            /\ Len(Tail(pending)) = Len(pending) - 1
        BY <2>1, <2>2, SeqFacts, Zenon
      <3>2. Len(Tail(pending)) <= PENDING_CAP
        BY <2>1, <3>1, BoundsAssumption
      <3> QED BY <2>1, <2>2, <3>1, <3>2
    <2>3. CASE pending' = pending /\ relays' \subseteq relays
      BY <2>1, <2>3
    <2> QED
      BY <2>2, <2>3, Zenon DEF poll, inbound_done, service_done, drain_outbound, accept, relay_ends,
                        feed_inbound, connVars, stackVars
  <1>4. NatInv' /\ reverse' = reverse
    BY <1>1 DEF StackInv, natVars, NatInv, NatTypeOK, Inverse
  <1>5. SocketsOK' /\ WaitersOK'
    <2>1. SocketsOK'
      BY <1>1, <1>4, SocketsSame DEF StackInv
    <2>2. conn' = conn /\ sockets' = sockets /\ todo' \subseteq DOMAIN sockets
      BY <1>1 DEF StackInv, WaitersOK
    <2>3. WaitersOK'
      BY <1>3, <2>2, Zenon DEF WaitersOK
    <2> QED BY <2>1, <2>3
  <1>6. QueuesOK'
    BY <1>1, <1>2, <1>4 DEF StackInv, QueuesOK, AnswersComeHome, Known
  <1> QED BY <1>1, <1>4, <1>5, <1>6 DEF StackInv

LEMMA StackInvariant == StackSpec => []StackInv
  <1>1. StackInv /\ [StackNext]_<<natVars, stackVars>> => StackInv'
    BY ProcessInboundInv, DrivePacketInv, DriveDoneInv, ServiceInv, DrainInv, OtherSteps
       DEF StackNext, PollTask
  <1> QED BY <1>1, StackInitInv, PTL DEF StackSpec

\* In every reachable state of the stack, whatever the apps, the proxy and smoltcp do,
\* the variables keep their types and the relay of a socket was told the destination
\* of the flow the socket carries (stack.rs:138-145, 165-193).
THEOREM StackCorrect == StackSpec => [](StackTypeOK /\ RelayReachesDestination)
  <1>1. StackInv => StackTypeOK /\ RelayReachesDestination
    BY DEF StackInv, StackTypeOK, NatInv, QueuesOK, SocketsOK, SocketsTyped, SocketType,
           WaitersOK
  <1> QED BY <1>1, StackInvariant, PTL

\* Every segment that is queued for the apps finds the entry of its flow and leaves
\* with the address the app expects, however late it is drained (stack.rs:109-121).
THEOREM StackAnswersComeHome == StackSpec => []AnswersComeHome
  <1>1. StackInv => AnswersComeHome
    BY DEF StackInv, QueuesOK
  <1> QED BY <1>1, StackInvariant, PTL

\* No two sockets share a port or a destination, whatever order the segments of the
\* apps come in (stack.rs:141).
THEOREM StackOneSocketPerPort == StackSpec => []OneSocketPerPort
  <1>1. StackInv => OneSocketPerPort
    BY DEF StackInv, SocketsOK
  <1> QED BY <1>1, StackInvariant, PTL

===============================================================================
