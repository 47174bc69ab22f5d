--------------------------------- MODULE Dataplane ---------------------------------
(***************************************************************************)
(* The tasks of run_client_loop (gravital-engine/src/runner.rs) around the *)
(* TUN device: the reader, which sorts packets, a task for every DNS query *)
(* (gravital-dns/src/interceptor.rs, resolver.rs), and the poll task's way *)
(* out.  They share the writer (gravital-tun/src/device.rs) behind a       *)
(* mutex, and the metrics.                                                 *)
(*                                                                         *)
(* The stack is module Stack: here it has one flow, whose packets it takes *)
(* rewritten, and it produces packets of its own.  The apps, the           *)
(* resolver's server and the device are external.                          *)
(***************************************************************************)
EXTENDS Packets, FiniteSets

CONSTANTS Tasks,       \* the DNS tasks that may be spawned
          AppPackets,  \* what apps write to the device
          StackPackets,\* what the stack produces, before rewrite_outbound
          Remote,      \* the remote address and port of the flow the stack has
          VPort,       \* its virtual port
          Answers,     \* the datagrams that may reach the socket of a query
          MTU,         \* the MTU of the device
          MaxIn,       \* bound: packets read
          MaxOut       \* bound: packets of the stack

\* An app may claim any lengths, but the payload of a datagram with a whole header is
\* the rest of the buffer.  smoltcp produces whole segments.  resolver.rs takes 4096
\* octets of a datagram at most.
ASSUME PacketAssumption ==
    /\ \A p \in AppPackets : /\ p \in Packet /\ Len(p.data) <= p.len
                             /\ p.proto = UDP /\ ihl(p) >= 20 => Len(p.data) >= p.len - ihl(p) - 8
    /\ \A p \in StackPackets : p \in Packet /\ Len(p.data) <= p.len /\ Segment(p) /\ p.total = p.len
    /\ \A a \in Answers : a \in Seq(Octets) /\ Len(a) <= 4096
    /\ Remote \in [addr : Addresses, port : Words] /\ VPort \in Words
ASSUME TaskAssumption == Tasks \cap {"free", "poll"} = {}
ASSUME PlaneBounds == MTU \in Nat /\ MaxIn \in Nat /\ MaxOut \in Nat

VARIABLES reader,   \* tun_read_task: reading, ended, or panicked
          tun_rx,   \* TCP packets that wait for the stack
          fed,      \* history: what process_inbound made of them, the packet that
                    \* smoltcp was given or nothing
          task,     \* the DNS tasks
          poll,     \* poll_task: where it is, what the stack has produced
          writer,   \* who holds the mutex of the writer
          written,  \* history: what reached the device, and who wrote it
          metrics   \* EngineMetrics and the counters of DnsInterceptor

planeVars == <<reader, tun_rx, fed, task, poll, writer, written, metrics>>

Free == "free"
NoPacket == [len |-> 0]
Task(k, at, out) == [at |-> at, pkt |-> k.pkt, query |-> k.query, out |-> out]
NoTask == [at |-> "none", pkt |-> NoPacket, query |-> << >>, out |-> NoPacket]

Bump(fields) == [f \in DOMAIN metrics |-> metrics[f] + (IF f \in fields THEN 1 ELSE 0)]
Spawned == {t \in Tasks : task[t] # NoTask}

(***************************************************************************)
(* tun_read_task.                                                          *)
(***************************************************************************)
\* What becomes of a packet.  A datagram for port 53 without a payload is dropped, and
\* no counter says so.
fate(p) ==
    CASE parse(p) = Some(TCP) -> "feed_inbound"
      [] parse(p) = Some(UDP) /\ udp_dst_port(p) = Some(53) ->
            CASE extract_udp_payload(p) = None -> "nothing"
              [] extract_udp_payload(p) = Panic -> "panic"
              [] OTHER -> "intercept"
      [] parse(p) = Some(UDP) /\ udp_dst_port(p) = Panic -> "panic"
      [] OTHER -> "drops_parse_error"

read_packet(p) ==
    /\ reader = "reading" /\ metrics.packets_in < MaxIn
    /\ reader' = IF fate(p) = "panic" THEN "panicked" ELSE "reading"
    /\ tun_rx' = IF fate(p) = "feed_inbound" THEN Append(tun_rx, p) ELSE tun_rx
    /\ IF fate(p) = "intercept"
       THEN \E t \in Tasks \ Spawned :
                task' = [task EXCEPT ![t] = [at |-> "query", pkt |-> p, out |-> NoPacket,
                                             query |-> extract_udp_payload(p).v]]
       ELSE UNCHANGED task
    /\ metrics' = Bump({"packets_in"} \cup ({fate(p)} \cap {"drops_parse_error"}))
    /\ UNCHANGED <<fed, poll, writer, written>>

\* A failed read ends the reader, and nothing else.
read_fails ==
    /\ reader = "reading"
    /\ reader' = "ended"
    /\ UNCHANGED <<tun_rx, fed, task, poll, writer, written, metrics>>

(***************************************************************************)
(* A DNS task.                                                             *)
(***************************************************************************)
\* The query with the flags of a response and RCODE 2.
build_servfail(query) ==
    IF Len(query) < 2 THEN << >>
    ELSE IF Len(query) < 4 THEN query
    ELSE [query EXCEPT ![3] = 129, ![4] = 130]

\* Whatever comes within five seconds to the port of the socket: nobody looks whether
\* it answers this query, or an earlier one that was sent from the same port.
forward_raw(query) == Answers

\* Mutant of handle_query: the query that could not be resolved is forgotten.
handle_query_forgets(t) ==
    /\ task[t].at = "query"
    /\ task' = [task EXCEPT ![t] = Task(@, "done", NoPacket)]
    /\ metrics' = Bump({"dns_queries", "dns_failures"})
    /\ UNCHANGED <<reader, tun_rx, fed, poll, writer, written>>

\* A failure, or no answer in time, is answered with SERVFAIL.  The reply is
\* counted before it is written.
handle_query(t) ==
    /\ task[t].at = "query"
    /\ \E fails \in BOOLEAN :
        \E resp \in IF fails THEN {build_servfail(task[t].query)} ELSE forward_raw(task[t].query) :
          \E reply \in {build_udp_reply(task[t].pkt, resp)} :
            /\ task' = [task EXCEPT ![t] =
                          CASE reply = None -> Task(@, "done", NoPacket)
                            [] reply = Panic -> Task(@, "panicked", NoPacket)
                            [] OTHER -> Task(@, "lock", reply.v)]
            /\ metrics' = Bump({"dns_queries"} \cup (IF fails THEN {"dns_failures"} ELSE {})
                               \cup (IF reply.is = "some" THEN {"packets_out"} ELSE {}))
    /\ UNCHANGED <<reader, tun_rx, fed, poll, writer, written>>

lock(t) ==
    /\ task[t].at = "lock" /\ writer = Free
    /\ writer' = t
    /\ task' = [task EXCEPT ![t] = Task(@, "write", @.out)]
    /\ UNCHANGED <<reader, tun_rx, fed, poll, written, metrics>>

\* A packet that does not fit is refused and a write may fail: nobody looks.
write_packet(who, p) ==
    \/ /\ p.len <= MTU
       /\ written' = Append(written, [by |-> who, pkt |-> p])
    \/ UNCHANGED written

write(t) ==
    /\ task[t].at = "write"
    /\ write_packet(t, task[t].out)
    /\ writer' = Free
    /\ task' = [task EXCEPT ![t] = Task(@, IF written' = written THEN "lost" ELSE "done", @.out)]
    /\ UNCHANGED <<reader, tun_rx, fed, poll, metrics>>

(***************************************************************************)
(* poll_task.                                                              *)
(***************************************************************************)
\* process_inbound for every packet that waits: one that is not a segment is
\* dropped, the others are rewritten.
process_inbound ==
    /\ fed' = fed \o [i \in DOMAIN tun_rx |-> rewrite_inbound(tun_rx[i], VPort)]
    /\ tun_rx' = << >>

\* UserspaceStack::poll takes what came in and leaves what is to go out, rewritten.
stack_poll ==
    /\ poll.at = "tick"
    /\ process_inbound
    /\ \E n \in 0..(MaxOut - poll.count) : \E out \in [1..n -> StackPackets] :
        poll' = [at |-> "drain", count |-> poll.count + n,
                 out |-> [i \in 1..n |-> rewrite_outbound(out[i], Remote.addr, Remote.port).v]]
    /\ UNCHANGED <<reader, task, writer, written, metrics>>

drain_outbound ==
    /\ poll.at = "drain"
    /\ IF poll.out = << >>
       THEN poll' = [poll EXCEPT !.at = "tick"] /\ UNCHANGED metrics
       ELSE poll' = [poll EXCEPT !.at = "lock"] /\ metrics' = Bump({"packets_out"})
    /\ UNCHANGED <<reader, tun_rx, fed, task, writer, written>>

poll_lock ==
    /\ poll.at = "lock" /\ writer = Free
    /\ writer' = "poll"
    /\ poll' = [poll EXCEPT !.at = "write"]
    /\ UNCHANGED <<reader, tun_rx, fed, task, written, metrics>>

poll_write ==
    /\ poll.at = "write"
    /\ write_packet("poll", Head(poll.out))
    /\ writer' = Free
    /\ poll' = [poll EXCEPT !.at = "drain", !.out = Tail(@)]
    /\ UNCHANGED <<reader, tun_rx, fed, task, metrics>>
--------------------------------------------------------------------------------
PlaneInit ==
    /\ reader = "reading" /\ tun_rx = << >> /\ fed = << >>
    /\ task = [t \in Tasks |-> NoTask]
    /\ poll = [at |-> "tick", count |-> 0, out |-> << >>]
    /\ writer = Free /\ written = << >>
    /\ metrics = [packets_in |-> 0, packets_out |-> 0, drops_parse_error |-> 0,
                  dns_queries |-> 0, dns_failures |-> 0]

DnsTask(t) == handle_query(t) \/ lock(t) \/ write(t)
PollTask == stack_poll \/ drain_outbound \/ poll_lock \/ poll_write

PlaneNext ==
    \/ \E p \in AppPackets : read_packet(p)
    \/ read_fails
    \/ \E t \in Tasks : DnsTask(t)
    \/ PollTask

PlaneSpec == PlaneInit /\ [][PlaneNext]_planeVars

\* The resolver has a timeout, the device becomes writable for whoever holds the
\* writer, and tokio's mutex is handed over in order: lock is strongly fair.
FairPlaneSpec ==
    /\ PlaneSpec
    /\ \A t \in Tasks : WF_planeVars(handle_query(t) \/ write(t)) /\ SF_planeVars(lock(t))
    /\ WF_planeVars(poll_write)
--------------------------------------------------------------------------------
\* No packet, however short and whatever its length fields say, makes a task index
\* past the end of it: IpView::parse covers for the helpers that run after it, and
\* extract_udp_payload for build_udp_reply, which reads further than it checks when
\* the header has options; rewrite_inbound checks what fix_tcp_checksum writes
\* (runner.rs:266-289, 418-446, rewrite.rs:92-117).
NeverPastTheEnd ==
    /\ reader # "panicked"
    /\ \A t \in Tasks : task[t].at # "panicked"
    /\ \A i \in DOMAIN fed : fed[i] # Panic

\* What an app gets is well-formed, with checksums that verify, and fits the device;
\* what smoltcp gets has checksums that verify, whatever the app sent; and nobody
\* writes without the mutex (rewrite.rs:34-152, runner.rs:439-506, device.rs:106-109).
PacketsAreWellFormed ==
    /\ \A i \in DOMAIN written : WellFormed(written[i].pkt) /\ written[i].pkt.len <= MTU
    /\ \A i \in DOMAIN fed : fed[i].is = "some" => SumsVerify(fed[i].v)
    /\ poll.at = "write" <=> writer = "poll"
    /\ \A t \in Tasks : task[t].at = "write" <=> writer = t

\* A message under the identifier of the query, and as long; none if it has none.
Refuses(resp, query) ==
    IF Len(query) < 2 THEN resp = << >>
    ELSE Len(resp) = Len(query) /\ Take(resp, 2) = Take(query, 2)

\* A query is answered once at most, to the app and port that asked and from the
\* server and port it was sent to.  What the app gets is, octet by octet, what the
\* resolver's socket received, or else as long as its own query and under its
\* identifier.  That the datagram received answers the query is nowhere ensured
\* (interceptor.rs:25-67, resolver.rs:30-46, runner.rs:439-471).
AnswersGoHome ==
    \A t \in Tasks :
        LET mine == {i \in DOMAIN written : written[i].by = t} IN
        /\ Cardinality(mine) <= 1
        /\ \A i \in mine :
            LET p == written[i].pkt IN
            /\ <<p.src, p.sport>> = <<task[t].pkt.dst, task[t].pkt.dport>>
            /\ <<p.dst, p.dport>> = <<task[t].pkt.src, task[t].pkt.sport>>
            /\ p.data \in Answers \/ Refuses(p.data, task[t].query)

\* Every query that was intercepted is answered, with SERVFAIL when it cannot be
\* resolved, unless the device refuses the answer (interceptor.rs:36-42).
QueriesAreAnswered ==
    \A t \in Tasks :
        (task[t].at = "query") ~> (\/ \E i \in DOMAIN written : written[i].by = t
                                   \/ task[t].at = "lost")
================================================================================
