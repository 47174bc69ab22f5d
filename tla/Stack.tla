---------------------------------- MODULE Stack ----------------------------------
(***************************************************************************)
(* The userspace TCP stack of the client (gravital-stack/src/stack.rs) and *)
(* the poll task that drives it (run_client_loop in runner.rs): packets of *)
(* the apps come in from the TUN device, a NAT table gives every flow a    *)
(* virtual port, a smoltcp socket listens on that port, and each socket is *)
(* handed to a relay task as a VirtualConnection.                          *)
(*                                                                         *)
(* The poll task is sequential, one label of phase per stage: it waits for *)
(* its tick, polls ("inbound", "drive", "service" and "drain", all under   *)
(* the stack's one mutex), writes what is to go out and accepts what is    *)
(* new.  The read task feeds packets whenever the mutex is free, and relay *)
(* tasks end at any time.                                                  *)
(*                                                                         *)
(* A packet is its flow and its TCP flags; payload is the business of      *)
(* Relay.  smoltcp is external: a socket moves along the TCP state diagram *)
(* or ignores a segment, and may answer whatever it is sent.  The packets  *)
(* between smoltcp and the TUN device are kept as sets: nothing below      *)
(* depends on their order.                                                 *)
(***************************************************************************)
EXTENDS NatTable, Sequences, FiniteSets

CONSTANTS PENDING_CAP,  \* connections that may wait to be accepted (128 in the code)
          Fed,          \* the TCP flags of the packets that arrive
          MaxQueue,     \* bound: packets waiting in tun_rx
          MaxSockets    \* bound: connections that exist at a time

Flags == {"SYN", "ACK", "FIN", "RST"}

ASSUME BoundsAssumption ==
    /\ PENDING_CAP \in Nat /\ MaxQueue \in Nat /\ MaxSockets \in Nat
    /\ Fed \subseteq Flags

VARIABLES phase,    \* what the poll task is doing
          tun_rx,   \* packets from the TUN device: [flow, flag]
          dev_rx,   \* packets rewritten for smoltcp: [vport, flow, flag]
          dev_tx,   \* segments from smoltcp: [vport, flow]; flow is whose they are
          tun_tx,   \* segments for the TUN device: [src, dst, flow]
          sockets,  \* handle -> [vport, tcp, flow, full]; flow once a SYN was accepted,
                    \* full: the transmit buffer has no room
          active,   \* handle -> real destination
          conn,     \* handle -> [local, remote] of its VirtualConnection
          pending,  \* connections waiting to be accepted
          relays,   \* connections whose sender a relay task still holds
          todo      \* handles that this poll has still to service

stackVars == <<phase, tun_rx, dev_rx, dev_tx, tun_tx, sockets, active, conn, pending,
               relays, todo>>
queueVars == <<tun_rx, dev_rx, dev_tx, tun_tx>>
connVars == <<conn, pending, relays>>

Handles == 1 .. MaxSockets
NoFlow == << >>

Held(h) == h \in relays \/ \E i \in DOMAIN pending : pending[i] = h

(***************************************************************************)
(* smoltcp.                                                                *)
(***************************************************************************)
TcpStates == {"Listen", "SynReceived", "Established", "CloseWait", "FinWait1", "FinWait2",
              "Closing", "LastAck", "TimeWait", "Closed"}

\* The moves a segment may cause.
TcpMoves ==
    {<<"Listen", "SYN", "SynReceived">>, <<"SynReceived", "ACK", "Established">>,
     <<"SynReceived", "FIN", "CloseWait">>, <<"SynReceived", "RST", "Listen">>,
     <<"Established", "FIN", "CloseWait">>, <<"FinWait1", "ACK", "FinWait2">>,
     <<"FinWait1", "FIN", "Closing">>, <<"FinWait1", "FIN", "TimeWait">>,
     <<"FinWait2", "FIN", "TimeWait">>, <<"Closing", "ACK", "TimeWait">>,
     <<"LastAck", "ACK", "Closed">>}
    \cup {<<s, "RST", "Closed">> : s \in TcpStates \ {"Listen", "SynReceived", "Closed"}}

Open(tcp) == tcp \in {"Established", "CloseWait"}

\* can_send: the socket may still transmit and its buffer has room.
CanSend(s) == Open(s.tcp) /\ ~s.full

\* Socket::close: send a FIN.
Closing(tcp) == IF tcp = "Established" THEN "FinWait1" ELSE "LastAck"

\* The socket a segment belongs to.  The listener names the interface's address
\* (stack.rs:170) and the packet keeps the server's: that smoltcp hands it over all
\* the same is what set_any_ip is used for (stack.rs:62-64), and is assumed.
Accepts(h, p) ==
    /\ sockets[h].vport = p.vport
    /\ sockets[h].tcp # "Listen" => sockets[h].flow[1] = p.flow[1]

Segment(p) == [vport |-> p.vport, flow |-> p.flow]
Answers(p) == {{}, {Segment(p)}}

\* A socket takes a segment; it remembers the flow whose SYN it accepted.
receive(h, p, tcp) ==
    /\ Accepts(h, p)
    /\ <<sockets[h].tcp, p.flag, tcp>> \in TcpMoves
    /\ sockets' = [sockets EXCEPT ![h].tcp = tcp,
                                  ![h].flow = IF tcp = "Listen" THEN NoFlow ELSE p.flow,
                                  ![h].full = sockets[h].full /\ Open(tcp)]

\* The app has read what it was sent, so that the buffer has room again.
acknowledge(h, p) ==
    /\ Accepts(h, p)
    /\ p.flag = "ACK" /\ Open(sockets[h].tcp)
    /\ sockets' = [sockets EXCEPT ![h].full = FALSE]

drive_packet ==
    /\ phase = "drive"
    /\ dev_rx # << >>
    /\ dev_rx' = Tail(dev_rx)
    /\ \E answer \in Answers(Head(dev_rx)) : dev_tx' = dev_tx \cup answer
    /\ \/ UNCHANGED sockets
       \/ \E h \in DOMAIN sockets, tcp \in TcpStates : receive(h, Head(dev_rx), tcp)
       \/ \E h \in DOMAIN sockets : acknowledge(h, Head(dev_rx))
    /\ UNCHANGED <<natVars, phase, tun_rx, tun_tx, active, connVars, todo>>

\* Sockets that have a peer may transmit: data, FINs and retransmissions.
drive_done ==
    /\ phase = "drive"
    /\ dev_rx = << >>
    /\ \E H \in SUBSET {h \in DOMAIN sockets : sockets[h].flow # NoFlow} :
            dev_tx' = dev_tx \cup {Segment(sockets[h]) : h \in H}
    /\ phase' = "service"
    /\ todo' = DOMAIN active
    /\ UNCHANGED <<natVars, tun_rx, dev_rx, tun_tx, sockets, active, connVars>>

(***************************************************************************)
(* Inbound packets.                                                        *)
(***************************************************************************)
\* Mutant of NeedsListener: every SYN, even a repeated one, gets a listener.
NeedsListener_always(real_dst) == TRUE

NeedsListener(real_dst) == \A h \in DOMAIN active : active[h] # real_dst

\* Handles that neither the stack nor a relay knows; the model lets a SYN in
\* only if there is one for every listener it may need.
Unused == {h \in Handles : h \notin DOMAIN sockets /\ ~Held(h)}
RoomFor(flow) ==
    \/ ~NeedsListener(flow[2])
    \/ Cardinality({i \in DOMAIN tun_rx : tun_rx[i].flag = "SYN"}) < Cardinality(Unused)

feed_inbound(flow, flag) ==
    /\ phase \in {"tick", "write", "accept"}
    /\ Len(tun_rx) < MaxQueue
    /\ flag = "SYN" => RoomFor(flow)
    /\ tun_rx' = Append(tun_rx, [flow |-> flow, flag |-> flag])
    /\ UNCHANGED <<natVars, phase, dev_rx, dev_tx, tun_tx, sockets, active, connVars, todo>>

poll ==
    /\ phase = "tick"
    /\ phase' = "inbound"
    /\ UNCHANGED <<natVars, queueVars, sockets, active, connVars, todo>>

create_listener(vp, real_dst) ==
    \E h \in Unused :
        /\ \A other \in Unused : h <= other
        /\ sockets' = With(sockets, h, [vport |-> vp, tcp |-> "Listen", flow |-> NoFlow,
                                      full |-> FALSE])
        /\ active' = With(active, h, real_dst)
        /\ conn' = With(conn, h, [local |-> vp, remote |-> real_dst])
        /\ pending' = IF Len(pending) < PENDING_CAP THEN Append(pending, h) ELSE pending

rewrite_inbound(p, vp) ==
    dev_rx' = Append(dev_rx, [vport |-> vp, flow |-> p.flow, flag |-> p.flag])

\* A SYN gets its flow a port, and a listener unless some socket is active for
\* the same destination; without a free port it is dropped.
inbound_syn(p) ==
    /\ p.flag = "SYN"
    /\ insert(p.flow)
    /\ IF p.flow \in DOMAIN forward'
       THEN /\ IF NeedsListener(p.flow[2])
               THEN create_listener(forward'[p.flow], p.flow[2])
               ELSE UNCHANGED <<sockets, active, conn, pending>>
            /\ rewrite_inbound(p, forward'[p.flow])
       ELSE UNCHANGED <<sockets, active, conn, pending, dev_rx>>

\* Any other packet needs the port its flow got, or is dropped.
inbound_other(p) ==
    /\ p.flag # "SYN"
    /\ \/ \E vp \in lookup_forward(p.flow) : rewrite_inbound(p, vp)
       \/ lookup_forward(p.flow) = {} /\ UNCHANGED dev_rx
    /\ UNCHANGED <<natVars, sockets, active, conn, pending>>

process_inbound ==
    /\ phase = "inbound"
    /\ tun_rx # << >>
    /\ inbound_syn(Head(tun_rx)) \/ inbound_other(Head(tun_rx))
    /\ tun_rx' = Tail(tun_rx)
    /\ UNCHANGED <<phase, dev_tx, tun_tx, relays, todo>>

inbound_done ==
    /\ phase = "inbound"
    /\ tun_rx = << >>
    /\ phase' = "drive"
    /\ UNCHANGED <<natVars, queueVars, sockets, active, connVars, todo>>

(***************************************************************************)
(* Service of the active sockets, in the arbitrary order of a hash map.    *)
(***************************************************************************)
vport_of_handle(h, act) ==
    IF h \notin DOMAIN act THEN {}
    ELSE LET vps == {vp \in DOMAIN reverse : reverse[vp][2] = act[h]}
         IN {vp \in vps : \A other \in vps : vp <= other}

\* Mutant of close_handle: the port is looked up before the entry is removed.
close_handle_looks_first(h) ==
    /\ active' = Without(active, h)
    /\ IF vport_of_handle(h, active) = {} THEN UNCHANGED natVars
       ELSE \E vp \in vport_of_handle(h, active) : remove_by_vport(vp)
    /\ sockets' = Without(sockets, h)

\* The entry is taken out of active before its port is looked up there.
close_handle(h) ==
    LET rest == Without(active, h)
        vport == vport_of_handle(h, rest)
    IN /\ active' = rest
       /\ IF vport = {} THEN UNCHANGED natVars ELSE \E vp \in vport : remove_by_vport(vp)
       /\ sockets' = Without(sockets, h)

\* What the relay has sent, or has left in the channel, fills the buffer.
fill(h) ==
    /\ CanSend(sockets[h])
    /\ sockets' = [sockets EXCEPT ![h].full = TRUE]

\* Nobody will send any more and the buffer has room: the socket sends a FIN.
half_close(h) ==
    /\ CanSend(sockets[h]) /\ ~Held(h)
    /\ sockets' = [sockets EXCEPT ![h].tcp = Closing(sockets[h].tcp)]

\* Mutant of service_socket: a connection nobody holds is not closed.
service_socket_keeps(h) ==
    /\ phase = "service"
    /\ h \in todo
    /\ todo' = todo \ {h}
    /\ \/ sockets[h].tcp \in {"Closed", "TimeWait"} /\ close_handle(h)
       \/ fill(h) /\ UNCHANGED <<natVars, active>>
       \/ /\ sockets[h].tcp \notin {"Closed", "TimeWait"}
          /\ UNCHANGED <<natVars, sockets, active>>
    /\ UNCHANGED <<phase, queueVars, connVars>>

service_socket(h) ==
    /\ phase = "service"
    /\ h \in todo
    /\ todo' = todo \ {h}
    /\ \/ /\ sockets[h].tcp \in {"Closed", "TimeWait"}
          /\ close_handle(h)
       \/ /\ fill(h) \/ half_close(h)
          /\ UNCHANGED <<natVars, active>>
       \/ /\ sockets[h].tcp \notin {"Closed", "TimeWait"}
          /\ CanSend(sockets[h]) => Held(h)
          /\ UNCHANGED <<natVars, sockets, active>>
    /\ UNCHANGED <<phase, queueVars, connVars>>

service_done ==
    /\ phase = "service"
    /\ todo = {}
    /\ phase' = "drain"
    /\ UNCHANGED <<natVars, queueVars, sockets, active, connVars, todo>>

(***************************************************************************)
(* Outbound packets and new connections.                                   *)
(***************************************************************************)
\* A segment leaves with the address of the server the app believes it talks
\* to; one whose port is not in the table is dropped.
rewrite_outbound(p) ==
    {[src |-> f[2], dst |-> p.flow[1], flow |-> p.flow] : f \in lookup_reverse(p.vport)}

drain ==
    /\ phase = "drain"
    /\ tun_tx' = tun_tx \cup UNION {rewrite_outbound(p) : p \in dev_tx}
    /\ dev_tx' = {}
    /\ phase' = "write"
    /\ UNCHANGED <<natVars, tun_rx, dev_rx, sockets, active, connVars, todo>>

drain_outbound ==
    /\ phase = "write"
    /\ \/ /\ \E p \in tun_tx : tun_tx' = tun_tx \ {p}
          /\ UNCHANGED phase
       \/ /\ tun_tx = {}
          /\ phase' = "accept"
          /\ UNCHANGED tun_tx
    /\ UNCHANGED <<natVars, tun_rx, dev_rx, dev_tx, sockets, active, connVars, todo>>

\* Mutant of accept: the last connection in the queue is left there.
accept_but_one ==
    /\ phase = "accept"
    /\ \/ /\ Len(pending) > 1
          /\ pending' = Tail(pending)
          /\ relays' = relays \cup {Head(pending)}
          /\ UNCHANGED phase
       \/ /\ Len(pending) <= 1
          /\ phase' = "tick"
          /\ UNCHANGED <<pending, relays>>
    /\ UNCHANGED <<natVars, queueVars, sockets, active, conn, todo>>

accept ==
    /\ phase = "accept"
    /\ \/ /\ pending # << >>
          /\ pending' = Tail(pending)
          /\ relays' = relays \cup {Head(pending)}
          /\ UNCHANGED phase
       \/ /\ pending = << >>
          /\ phase' = "tick"
          /\ UNCHANGED <<pending, relays>>
    /\ UNCHANGED <<natVars, queueVars, sockets, active, conn, todo>>

\* The relay could not reach the proxy, the upstream closed or failed, or the
\* stack's end of the connection is gone: the relay drops its sender.
relay_ends(h) ==
    /\ h \in relays
    /\ relays' = relays \ {h}
    /\ UNCHANGED <<natVars, phase, queueVars, sockets, active, conn, pending, todo>>
--------------------------------------------------------------------------------
StackInit ==
    /\ NatInit
    /\ phase = "tick"
    /\ tun_rx = << >> /\ dev_rx = << >>
    /\ dev_tx = {} /\ tun_tx = {}
    /\ sockets = << >> /\ active = << >> /\ conn = << >>
    /\ pending = << >>
    /\ relays = {} /\ todo = {}

PollTask ==
    \/ poll \/ process_inbound \/ inbound_done \/ drive_packet \/ drive_done
    \/ \E h \in Handles : service_socket(h)
    \/ service_done \/ drain \/ drain_outbound \/ accept

StackNext ==
    \/ PollTask
    \/ \E flow \in Flows, flag \in Fed : feed_inbound(flow, flag)
    \/ \E h \in Handles : relay_ends(h)

StackSpec == StackInit /\ [][StackNext]_<<natVars, stackVars>>

\* The ticker of the poll task never stops.  What a relay leaves in its channel is
\* finite: it cannot take the room in the buffer again each time there is some.
FairStackSpec ==
    /\ StackSpec
    /\ WF_<<natVars, stackVars>>(PollTask)
    /\ \A h \in Handles : SF_<<natVars, stackVars>>(service_socket(h) /\ half_close(h))
--------------------------------------------------------------------------------
Phases == {"tick", "inbound", "drive", "service", "drain", "write", "accept"}

StackTypeOK ==
    /\ NatTypeOK
    /\ phase \in Phases
    /\ tun_rx \in Seq([flow : Flows, flag : Flags])
    /\ dev_rx \in Seq([vport : Ports, flow : Flows, flag : Flags])
    /\ dev_tx \subseteq [vport : Ports, flow : Flows]
    /\ tun_tx \subseteq [src : Dsts, dst : Srcs, flow : Flows]
    /\ DOMAIN sockets \subseteq Handles
    /\ \A h \in DOMAIN sockets :
            sockets[h] \in [vport : Ports, tcp : TcpStates, flow : Flows \cup {NoFlow},
                            full : BOOLEAN]
    /\ DOMAIN active = DOMAIN sockets
    /\ \A h \in DOMAIN active : active[h] \in Dsts
    /\ DOMAIN sockets \subseteq DOMAIN conn /\ DOMAIN conn \subseteq Handles
    /\ \A h \in DOMAIN conn : conn[h] \in [local : Ports, remote : Dsts]
    /\ pending \in Seq(DOMAIN conn) /\ Len(pending) <= PENDING_CAP
    /\ relays \subseteq DOMAIN conn
    /\ todo \subseteq DOMAIN sockets

\* Every segment smoltcp produces finds the NAT entry of the flow it belongs to
\* and leaves with the address of the server that app opened the connection to:
\* none is lost for want of an entry, none reaches an app as the answer of
\* another server (stack.rs:109-121).
AnswersComeHome ==
    /\ \A p \in dev_tx : p.vport \in DOMAIN reverse /\ reverse[p.vport] = p.flow
    /\ \A p \in tun_tx : <<p.dst, p.src>> = p.flow

\* The bytes of an app go where the app wanted: the relay of the socket that
\* carries a flow was told that flow's destination, and the two ends of the
\* connection agree on the port (stack.rs:138-145, 165-193, runner.rs:361-371).
RelayReachesDestination ==
    \A h \in DOMAIN sockets :
        /\ conn[h] = [local |-> sockets[h].vport, remote |-> active[h]]
        /\ sockets[h].vport \in DOMAIN reverse
        /\ reverse[sockets[h].vport][2] = active[h]
        /\ sockets[h].flow # NoFlow => sockets[h].flow = reverse[sockets[h].vport]

\* A segment has one socket to go to: no two sockets listen on one port, although
\* SYNs are repeated, listeners are looked for by destination and ports of closed
\* connections stay taken (stack.rs:138-145).
OneSocketPerPort ==
    \A g, h \in DOMAIN sockets : g # h => sockets[g].vport # sockets[h].vport

\* A connection whose relay is gone, or that found no room in the queue of pending
\* connections, does not stay open for ever, unless its app stops reading: then the
\* transmit buffer stays full and the stack does not get to close it
\* (stack.rs:186-190, 223-235).
OrphansAreClosed ==
    \A h \in Handles :
        <>[](h \in DOMAIN sockets /\ Open(sockets[h].tcp) /\ ~Held(h))
            => <>[](h \in DOMAIN sockets /\ sockets[h].full)

\* A connection that waits is handed to a relay (runner.rs:339-344).
PendingAreAccepted ==
    \A h \in Handles : (\E i \in DOMAIN pending : pending[i] = h) ~> h \in relays
--------------------------------------------------------------------------------
(***************************************************************************)
(* What the comments say of the stack and the code does not do.            *)
(***************************************************************************)

\* "Remove an entry once a connection is closed": the port of a socket that is
\* removed is free again (nat.rs:64, stack.rs:96-105).
PortReleased ==
    [][\A h \in DOMAIN sockets \ DOMAIN sockets' :
            sockets[h].vport \notin DOMAIN reverse']_<<natVars, stackVars>>
================================================================================
