---------------------------------- MODULE Proxies ----------------------------------
(***************************************************************************)
(* One connection through a proxy of the server mode: the accept loop and  *)
(* the handler of the SOCKS5 server (gravital-socks/src/server.rs, with    *)
(* the messages of proto.rs) or of the HTTP CONNECT proxy                  *)
(* (gravital-http/src/server.rs), the two copies of relay_bidirectional,   *)
(* and, as one kind of peer, SocksClient::connect_with_retry (client.rs).  *)
(*                                                                         *)
(* A TCP connection is two streams of tokens: a message of a handshake, or *)
(* a unit of data, which is its number.  Arrival in pieces matters where   *)
(* the code reads whatever is there (the head of an HTTP request); what is *)
(* read with read_exact is one token.  Sockets are external: the peers     *)
(* send, close and reset whenever they like.                               *)
(***************************************************************************)
EXTENDS Integers, Sequences

CONSTANTS AuthEnabled,      \* ServerConfig.auth_enabled: FALSE in the engine
          MAX_HEADER_SIZE,  \* tokens the HTTP handler reads at most (8192 bytes)
          MaxAttempts,      \* max_attempts of connect_with_retry
          MaxData,          \* bound: units of data each end sends
          Peers,            \* what may connect: subset of {"SocksClient", "socks", "http"}
          Addrs,            \* the addresses asked for: subset of AddrSpec
          Port              \* the port asked for

VARIABLES server,  \* the accept loop, and whether shutdown was signalled
          peer,    \* the peer
          srv,     \* the handler
          sock,    \* its two connections
          copy     \* the tasks of relay_bidirectional

proxyVars == <<server, peer, srv, sock, copy>>

(***************************************************************************)
(* Addresses on the wire.                                                  *)
(***************************************************************************)
Bytes(n) == [i \in 1..n |-> i % 256]

\* A name has at most 255 octets, in DNS and on the wire; they are ASCII, which
\* from_utf8_lossy leaves alone, and none is a colon.
Octet == {n \in Nat : n < 256}
NameOctet == {n \in Octet : n < 128 /\ n # 58}
AddrSpec == {a \in [kind : {"Ipv4", "Ipv6", "Domain"}, octets : Seq(Octet)] :
                /\ a.kind = "Ipv4" => Len(a.octets) = 4
                /\ a.kind = "Ipv6" => Len(a.octets) = 16
                /\ a.kind = "Domain" => a.octets \in Seq(NameOctet) /\ Len(a.octets) < 256}

ASSUME ProxyAssumption ==
    /\ AuthEnabled \in BOOLEAN /\ MAX_HEADER_SIZE \in Nat \ {0}
    /\ MaxAttempts \in Nat \ {0} /\ MaxData \in Nat
    /\ Peers \subseteq {"SocksClient", "socks", "http"}
    /\ Addrs \subseteq AddrSpec /\ Port \in Nat /\ Port < 65536

to_be_bytes(p) == <<p \div 256, p % 256>>

encode_address(a, p) ==
    CASE a.kind = "Ipv4" -> <<1>> \o a.octets \o to_be_bytes(p)
      [] a.kind = "Ipv6" -> <<4>> \o a.octets \o to_be_bytes(p)
      [] a.kind = "Domain" -> <<3, Len(a.octets) % 256>> \o a.octets \o to_be_bytes(p)

NoAddress == [addr |-> [kind |-> "none", octets |-> << >>], port |-> 0, used |-> 0]

\* The kind and the number of octets that an address type announces.
Form(b) ==
    CASE b[1] = 1 -> [kind |-> "Ipv4", from |-> 2, len |-> 4]
      [] b[1] = 4 -> [kind |-> "Ipv6", from |-> 2, len |-> 16]
      [] b[1] = 3 /\ Len(b) > 1 -> [kind |-> "Domain", from |-> 3, len |-> b[2]]
      [] OTHER -> [kind |-> "none", from |-> 2, len |-> 0]

\* Mutant of read_address: the octet with the length of a name is not skipped.
read_address_short(b) ==
    LET f == Form(b)
        at == 2 + f.len IN
    IF f.kind = "none" \/ Len(b) < at + 1 THEN NoAddress
    ELSE [addr |-> [kind |-> f.kind, octets |-> SubSeq(b, 2, at - 1)],
          port |-> b[at] * 256 + b[at + 1], used |-> at + 1]

\* What read_request takes from the stream and parse_udp_datagram from the buffer:
\* an address of a known type with all its octets, then the port.
read_address(b) ==
    LET f == Form(b)
        at == f.from + f.len IN
    IF f.kind = "none" \/ Len(b) < at + 1 THEN NoAddress
    ELSE [addr |-> [kind |-> f.kind, octets |-> SubSeq(b, f.from, at - 1)],
          port |-> b[at] * 256 + b[at + 1], used |-> at + 1]

\* Mutant of skip_bound_address: every bound address has four octets.
skip_bound_address_v4(b) == 7

\* How much of a reply skip_bound_address takes, with the type of the address.
skip_bound_address(b) ==
    CASE b[1] = 1 -> 1 + 4 + 2 [] b[1] = 4 -> 1 + 16 + 2 [] b[1] = 3 -> 2 + b[2] + 2 [] OTHER -> 1

\* The target of an HTTP request is host:port.  An IPv6 host has colons of its own;
\* the port is one element.
COLON == -1
Host(a) == (IF a.kind = "Ipv6" THEN <<COLON>> ELSE << >>) \o a.octets

\* Where the last colon is, 0 when there is none.
rfind(target) ==
    LET colons == {i \in DOMAIN target : target[i] = COLON} IN
    IF colons = {} THEN 0 ELSE CHOOSE i \in colons : \A j \in colons : j <= i

\* The host is what precedes it; what follows must be a port.
parse_host_port(target) ==
    LET pos == rfind(target) IN
    IF pos = 0 \/ pos + 1 # Len(target) THEN NoAddress
    ELSE [addr |-> [kind |-> "host", octets |-> SubSeq(target, 1, pos - 1)],
          port |-> target[pos + 1], used |-> 0]

(***************************************************************************)
(* Tokens.                                                                 *)
(***************************************************************************)
Greeting(v, methods) == [is |-> "greeting", version |-> v, methods |-> methods]
Request(cmd, b) == [is |-> "request", cmd |-> cmd, addr |-> b]
Part == [is |-> "part"]
End(method, target) == [is |-> "end", method |-> method, target |-> target]
Data(n) == [is |-> "data", n |-> n]
Method(m) == [is |-> "method", method |-> m]
Reply(code, bound) == [is |-> "reply", code |-> code, bound |-> bound]

Units(n) == [i \in 1..n |-> Data(i)]
IsData(t) == t.is = "data"
IsReply(t) == t.is = "reply"
IsSuccess(t) == IsReply(t) /\ t.code = "Succeeded"

\* send_reply writes the address the socket is bound to, one of the same family as
\* what it is connected to; an error has 0.0.0.0:0.
Local(kind) == [kind |-> kind, octets |-> Bytes(IF kind = "Ipv6" THEN 16 ELSE 4)]
send_reply(code, kind) ==
    Reply(code, encode_address(Local(IF kind = "Ipv6" THEN "Ipv6" ELSE "Ipv4"), 0))

\* What a peer that asks for address a says before its data: SocksClient one thing,
\* the others anything.
Unsupported == <<9>>
SocksScripts(a) ==
    {<<Greeting(v, methods), Request(cmd, b)>> :
        v \in {4, 5}, methods \in {{"NO_AUTH"}, {"USERPASS"}},
        cmd \in {"CONNECT", "BIND", "UDP_ASSOCIATE", "other"},
        b \in {encode_address(a, Port), Unsupported}}
Targets(a) == {Host(a), Host(a) \o <<COLON, Port>>}
HttpScripts(a) ==
    {[i \in 1..n |-> IF i < n THEN Part ELSE End(method, target)] :
        n \in 1..MAX_HEADER_SIZE + 1, target \in Targets(a),
        method \in {"CONNECT", "other", "malformed"}}
Scripts(p, a) ==
    CASE p = "SocksClient" ->
            {<<Greeting(5, {"NO_AUTH"}), Request("CONNECT", encode_address(a, Port))>>}
      [] p = "socks" -> SocksScripts(a)
      [] p = "http" -> HttpScripts(a)

(***************************************************************************)
(* Connections.  in has arrived and is not read, eof and rst are what the  *)
(* other end did after it, out is all the handler wrote, shut says that    *)
(* the handler closed its side, sent counts the units the other end sent.  *)
(***************************************************************************)
NewSock == [in |-> << >>, eof |-> FALSE, rst |-> FALSE, out |-> << >>, shut |-> FALSE, sent |-> 0]
Socks == [cli |-> NewSock, up |-> NewSock]
Copying == [at |-> "copying", data |-> << >>]
Copies == [up |-> Copying, down |-> Copying]

\* The handler.  tcp is the address it has connected to, buf what the HTTP
\* handler has read, udp the relay of an association and what it has forwarded.
NewHandler == [at |-> "none", buf |-> << >>, addr |-> NoAddress, tcp |-> NoAddress,
               udp |-> [relay |-> "none", forwarded |-> {}]]

\* A read fails, after what had arrived or instead of it.
Lost(s) == sock[s].rst \/ (sock[s].in = << >> /\ sock[s].eof)

Taken(s, n) == SubSeq(sock[s].in, 1, n)
Take(s, n) == [sock EXCEPT ![s].in = SubSeq(@, n + 1, Len(@))]

\* The handler returns, which closes both its connections.
Closed(k) == [s \in DOMAIN k |-> [k[s] EXCEPT !.shut = TRUE]]
Ended(k) == sock' = Closed(k) /\ srv' = [srv EXCEPT !.at = "done"]

\* write_all to the peer and go on, or return when that fails.
Answer(k, tokens, next) ==
    IF k.cli.rst THEN Ended(k)
    ELSE /\ sock' = (IF next.at = "done" THEN Closed([k EXCEPT !.cli.out = @ \o tokens])
                     ELSE [k EXCEPT !.cli.out = @ \o tokens])
         /\ srv' = next

Refuse(k, code) == Answer(k, <<send_reply(code, "Ipv4")>>, [srv EXCEPT !.at = "done"])
--------------------------------------------------------------------------------
\* SocksServer::run and HttpProxyServer::run.  A handler is spawned for every
\* connection and lives on when the loop ends.
accept ==
    /\ server.loop = "select" /\ srv.at = "none" /\ peer.at \notin {"idle", "asleep", "err"}
    /\ srv' = [NewHandler EXCEPT !.at = IF peer.is = "http" THEN "head" ELSE "negotiate"]
    /\ UNCHANGED <<server, peer, sock, copy>>

\* Dropping the listener resets what it has not accepted.
run_stops ==
    /\ server.loop = "select" /\ server.signal
    /\ server' = [server EXCEPT !.loop = "ended"]
    /\ sock' = IF srv.at = "none" THEN [sock EXCEPT !.cli.rst = TRUE] ELSE sock
    /\ UNCHANGED <<peer, srv, copy>>

shutdown ==
    /\ ~server.signal
    /\ server' = [server EXCEPT !.signal = TRUE]
    /\ UNCHANGED <<peer, srv, sock, copy>>

\* Whatever a handler waits for, the loss of the peer ends it.
PeerLost ==
    /\ srv.at \in {"negotiate", "request", "head"} /\ Lost("cli")
    /\ Ended(sock)
    /\ UNCHANGED <<server, peer, copy>>

(***************************************************************************)
(* The SOCKS5 handler.                                                     *)
(***************************************************************************)
negotiate_method ==
    /\ srv.at = "negotiate" /\ sock.cli.in # << >>
    /\ LET t == Head(sock.cli.in)
           k == Take("cli", 1)
           next == [srv EXCEPT !.at = "request"] IN
       CASE t.version # 5 -> Ended(k)
         [] t.version = 5 /\ "NO_AUTH" \in t.methods -> Answer(k, <<Method("NO_AUTH")>>, next)
         [] t.version = 5 /\ "NO_AUTH" \notin t.methods /\ AuthEnabled /\ "USERPASS" \in t.methods ->
                Answer(k, <<Method("USERPASS")>>, next)
         [] OTHER -> Answer(k, <<Method("NONE_ACCEPTABLE")>>, [srv EXCEPT !.at = "done"])
    /\ UNCHANGED <<server, peer, copy>>

\* read_request, and the dispatch on the command.  A request that cannot be read
\* is not answered, nor is an association for which no socket can be bound.
read_request ==
    /\ srv.at = "request" /\ sock.cli.in # << >>
    /\ LET t == Head(sock.cli.in)
           k == Take("cli", 1)
           a == read_address(t.addr) IN
       CASE t.cmd = "other" \/ a = NoAddress -> Ended(k)
         [] t.cmd = "BIND" /\ a # NoAddress -> Refuse(k, "CommandNotSupported")
         [] t.cmd = "UDP_ASSOCIATE" /\ a # NoAddress ->
                \/ Answer(k, <<send_reply("Succeeded", "Ipv4")>>,
                          [srv EXCEPT !.at = "udp", !.udp.relay = "running"])
                \/ Ended(k)
         [] OTHER -> sock' = k /\ srv' = [srv EXCEPT !.at = "resolve", !.addr = a]
    /\ UNCHANGED <<server, peer, copy>>

\* to_socket_addr: only a name can fail to resolve, and then nothing is answered.
to_socket_addr ==
    /\ srv.at = "resolve"
    /\ \/ srv' = [srv EXCEPT !.at = "connect"] /\ UNCHANGED sock
       \/ srv.addr.addr.kind = "Domain" /\ Ended(sock)
    /\ UNCHANGED <<server, peer, copy>>

\* Mutant of connect_upstream: the handler does not return after a failure.
connect_upstream_goes_on ==
    /\ srv.at = "connect"
    /\ \E tokens \in {<< >>, <<send_reply("HostUnreachable", "Ipv4")>>} :
        Answer(sock, tokens, [srv EXCEPT !.at = "established", !.tcp = srv.addr])
    /\ UNCHANGED <<server, peer, copy>>

\* TcpStream::connect in handle_connect and in handle_http_proxy.
connect_upstream ==
    /\ srv.at = "connect"
    /\ \/ /\ srv' = [srv EXCEPT !.at = "established", !.tcp = srv.addr]
          /\ UNCHANGED sock
       \/ /\ peer.is = "http"
          /\ Refuse(sock, "BadGateway")
       \/ /\ peer.is # "http"
          /\ \E rep \in {"ConnectionRefused", "TtlExpired", "HostUnreachable"} : Refuse(sock, rep)
    /\ UNCHANGED <<server, peer, copy>>

\* The answer of handle_connect, and the 200 of the HTTP handler.
Success == IF peer.is = "http" THEN Reply("Succeeded", << >>)
           ELSE send_reply("Succeeded", srv.addr.addr.kind)

\* Mutant of established: what came with the head of the request is forgotten.
established_forgets ==
    /\ srv.at = "established"
    /\ Answer(sock, <<Success>>, [srv EXCEPT !.at = "relay"])
    /\ UNCHANGED <<server, peer, copy>>

\* The success is answered; an HTTP handler still has what came with the head.
established ==
    /\ srv.at = "established"
    /\ Answer(sock, <<Success>>,
              [srv EXCEPT !.at = IF srv.buf = << >> THEN "relay" ELSE "early"])
    /\ UNCHANGED <<server, peer, copy>>

early ==
    /\ srv.at = "early"
    /\ IF sock.up.rst THEN Ended(sock)
       ELSE /\ sock' = [sock EXCEPT !.up.out = @ \o srv.buf]
            /\ srv' = [srv EXCEPT !.at = "relay"]
    /\ UNCHANGED <<server, peer, copy>>

\* relay_udp: a datagram is an address and a payload.  One that cannot be parsed or
\* resolved ends the relay; a fragment is skipped; no answer comes back.
Datagrams == {encode_address(a, Port) \o Bytes(2) : a \in Addrs} \cup {Unsupported}

relay_udp ==
    /\ srv.at = "udp" /\ srv.udp.relay = "running"
    /\ \E d \in Datagrams :
        LET a == read_address(d) IN
        \/ a = NoAddress /\ srv' = [srv EXCEPT !.udp.relay = "ended"]
        \/ a # NoAddress /\ a.addr.kind = "Domain" /\ srv' = [srv EXCEPT !.udp.relay = "ended"]
        \/ a # NoAddress
           /\ srv' = [srv EXCEPT !.udp.forwarded =
                        @ \cup {[datagram |-> d, to |-> a.addr, payload |-> SubSeq(d, a.used + 1, Len(d))]}]
    /\ UNCHANGED <<server, peer, sock, copy>>

\* handle_udp_associate: a byte on the control connection, or its end, stops it.
udp_stop ==
    /\ srv.at = "udp" /\ (sock.cli.in # << >> \/ Lost("cli"))
    /\ sock' = Closed(sock)
    /\ srv' = [srv EXCEPT !.at = "done", !.udp.relay = "ended"]
    /\ UNCHANGED <<server, peer, copy>>

(***************************************************************************)
(* The HTTP handler reads what is there until the head is complete.        *)
(***************************************************************************)
\* The position of the end of the head in what was read, 0 when it is partial.
parse(buf) ==
    IF \E i \in DOMAIN buf : buf[i].is = "end"
    THEN CHOOSE i \in DOMAIN buf : buf[i].is = "end" ELSE 0

handle_http_proxy ==
    /\ srv.at = "head" /\ sock.cli.in # << >>
    /\ \E n \in 1..Len(sock.cli.in) :
        LET buf == srv.buf \o Taken("cli", n)
            k == Take("cli", n)
            end == parse(buf)
            a == parse_host_port(buf[end].target) IN
        /\ Len(buf) <= MAX_HEADER_SIZE
        /\ CASE end = 0 /\ Len(buf) < MAX_HEADER_SIZE -> sock' = k /\ srv' = [srv EXCEPT !.buf = buf]
             [] end = 0 /\ Len(buf) = MAX_HEADER_SIZE -> Ended(k)
             [] end # 0 /\ buf[end].method = "other" -> Refuse(k, "MethodNotAllowed")
             [] end # 0 /\ buf[end].method = "malformed" -> Ended(k)
             [] end # 0 /\ buf[end].method = "CONNECT" /\ a = NoAddress -> Ended(k)
             [] end # 0 /\ buf[end].method = "CONNECT" /\ a # NoAddress ->
                    /\ sock' = k
                    /\ srv' = [srv EXCEPT !.at = "connect", !.addr = a,
                                           !.buf = SubSeq(buf, end + 1, Len(buf))]
    /\ UNCHANGED <<server, peer, copy>>

(***************************************************************************)
(* relay_bidirectional: two copies, each of which ends with its source or  *)
(* when its destination fails, and then shuts its destination down.        *)
(***************************************************************************)
Source(d) == IF d = "up" THEN "cli" ELSE "up"
Destination(d) == IF d = "up" THEN "up" ELSE "cli"
Directions == DOMAIN Copies

\* The halves a copy owns are dropped with it.
CopyEnds(d) ==
    /\ copy' = [copy EXCEPT ![d] = [at |-> "done", data |-> << >>]]
    /\ sock' = [sock EXCEPT ![Destination(d)].shut = TRUE]

\* Mutant of copy_read: the end of the source is not noticed.
copy_read_deaf(d) ==
    /\ srv.at = "relay" /\ copy[d] = Copying
    /\ \E n \in 1..Len(sock[Source(d)].in) :
        /\ copy' = [copy EXCEPT ![d].data = Taken(Source(d), n)]
        /\ sock' = Take(Source(d), n)
    /\ UNCHANGED <<server, peer, srv>>

copy_read(d) ==
    /\ srv.at = "relay" /\ copy[d] = Copying
    /\ \/ \E n \in 1..Len(sock[Source(d)].in) :
            /\ copy' = [copy EXCEPT ![d].data = Taken(Source(d), n)]
            /\ sock' = Take(Source(d), n)
       \/ Lost(Source(d)) /\ CopyEnds(d)
    /\ UNCHANGED <<server, peer, srv>>

copy_write(d) ==
    /\ copy[d].data # << >>
    /\ IF sock[Destination(d)].rst THEN CopyEnds(d)
       ELSE /\ copy' = [copy EXCEPT ![d] = Copying]
            /\ sock' = [sock EXCEPT ![Destination(d)].out = @ \o copy[d].data]
    /\ UNCHANGED <<server, peer, srv>>

\* Mutant of relay_done: one direction is enough.
relay_done_first ==
    /\ srv.at = "relay" /\ \E d \in Directions : copy[d].at = "done"
    /\ Ended(sock)
    /\ UNCHANGED <<server, peer, copy>>

\* try_join waits for both: the tasks do not fail.
relay_done ==
    /\ srv.at = "relay" /\ \A d \in Directions : copy[d].at = "done"
    /\ Ended(sock)
    /\ UNCHANGED <<server, peer, copy>>
--------------------------------------------------------------------------------
(***************************************************************************)
(* The peer.  todo is what it has yet to say before its data, read how     *)
(* many tokens of the answers SocksClient has taken.                       *)
(***************************************************************************)
\* The attempt failed: sleep and try again, or give up.
Failed == [peer EXCEPT !.at = IF peer.attempt = MaxAttempts THEN "err" ELSE "asleep"]

\* TcpStream::connect; SocksClient sends its greeting with it.
peer_connect ==
    /\ peer.at = "idle"
    /\ IF server.loop = "ended" THEN peer' = Failed /\ UNCHANGED sock
       ELSE IF peer.is = "SocksClient"
       THEN /\ peer' = [peer EXCEPT !.at = "method", !.todo = Tail(@)]
            /\ sock' = [sock EXCEPT !.cli.in = <<Head(peer.todo)>>]
       ELSE peer' = [peer EXCEPT !.at = "ok"] /\ UNCHANGED sock
    /\ UNCHANGED <<server, srv, copy>>

\* SocksClient::connect from the answer to the greeting on.
Unread == peer.read < Len(sock.cli.out)
Answered == sock.cli.out[peer.read + 1]
Skipped(b) == CASE skip_bound_address(b) < Len(b) -> 0
                [] skip_bound_address(b) = Len(b) -> 1
                [] skip_bound_address(b) > Len(b) -> 2

connect ==
    /\ peer.is = "SocksClient" /\ peer.at \in {"method", "reply"}
    /\ \/ /\ Unread /\ peer.at = "method" /\ Answered = Method("NO_AUTH")
          /\ peer' = [peer EXCEPT !.at = "reply", !.todo = Tail(@), !.read = @ + 1]
          /\ sock' = [sock EXCEPT !.cli.in = Append(@, Head(peer.todo))]
       \/ /\ Unread /\ peer.at = "reply" /\ IsSuccess(Answered)
          /\ peer' = [peer EXCEPT !.at = "ok", !.read = @ + Skipped(Answered.bound)]
          /\ UNCHANGED sock
       \/ /\ \/ Unread /\ Answered # Method("NO_AUTH") /\ ~IsSuccess(Answered)
             \/ ~Unread /\ sock.cli.shut
             \/ sock.cli.rst
          /\ peer' = Failed
          /\ sock' = [sock EXCEPT !.cli.eof = TRUE]
    /\ UNCHANGED <<server, srv, copy>>

\* Mutant of connect_with_retry: the attempts are not counted.
connect_with_retry_uncounted ==
    /\ peer.at = "asleep" /\ srv.at \in {"none", "done"}
    /\ \E s \in Scripts(peer.is, peer.asked) :
        peer' = [peer EXCEPT !.at = "idle", !.todo = s, !.read = 0]
    /\ srv' = NewHandler /\ sock' = Socks /\ copy' = Copies
    /\ UNCHANGED server

\* connect_with_retry after backoff_delay.  Every failure of an attempt comes from
\* the end of its handler, so the next connection finds none of it.
connect_with_retry ==
    /\ peer.at = "asleep" /\ srv.at \in {"none", "done"}
    /\ \E s \in Scripts(peer.is, peer.asked) :
        peer' = [peer EXCEPT !.at = "idle", !.attempt = @ + 1, !.todo = s, !.read = 0]
    /\ srv' = NewHandler /\ sock' = Socks /\ copy' = Copies
    /\ UNCHANGED server

peer_send ==
    /\ peer.at = "ok" /\ ~sock.cli.eof /\ ~sock.cli.rst
    /\ \/ /\ peer.todo # << >>
          /\ peer' = [peer EXCEPT !.todo = Tail(@)]
          /\ sock' = [sock EXCEPT !.cli.in = Append(@, Head(peer.todo))]
       \/ /\ peer.todo = << >> /\ sock.cli.sent < MaxData
          /\ sock' = [sock EXCEPT !.cli.sent = @ + 1, !.cli.in = Append(@, Data(sock.cli.sent + 1))]
          /\ UNCHANGED peer
    /\ UNCHANGED <<server, srv, copy>>

\* Each end may finish sending, and may reset.
Present(s) == IF s = "cli" THEN peer.at = "ok" ELSE srv.tcp # NoAddress

far_send ==
    /\ Present("up") /\ ~sock.up.eof /\ ~sock.up.rst /\ sock.up.sent < MaxData
    /\ sock' = [sock EXCEPT !.up.sent = @ + 1, !.up.in = Append(@, Data(sock.up.sent + 1))]
    /\ UNCHANGED <<server, peer, srv, copy>>

hang_up(s) ==
    /\ Present(s) /\ ~sock[s].rst
    /\ \/ ~sock[s].eof /\ sock' = [sock EXCEPT ![s].eof = TRUE]
       \/ sock' = [sock EXCEPT ![s].rst = TRUE]
    /\ UNCHANGED <<server, peer, srv, copy>>
--------------------------------------------------------------------------------
ProxyInit ==
    /\ server = [loop |-> "select", signal |-> FALSE]
    /\ \E p \in Peers, a \in Addrs : \E s \in Scripts(p, a) :
        peer = [is |-> p, at |-> "idle", attempt |-> IF p = "SocksClient" THEN 1 ELSE MaxAttempts,
                asked |-> a, todo |-> s, read |-> 0]
    /\ srv = NewHandler /\ sock = Socks /\ copy = Copies

Handler ==
    \/ PeerLost \/ negotiate_method \/ read_request \/ to_socket_addr
    \/ handle_http_proxy \/ connect_upstream \/ established \/ early
    \/ udp_stop \/ relay_done
Copy(d) == copy_read(d) \/ copy_write(d)
Client == connect \/ connect_with_retry \/ (peer.is = "SocksClient" /\ peer_connect)

ProxyNext ==
    \/ accept \/ run_stops \/ shutdown
    \/ Handler \/ relay_udp
    \/ \E d \in Directions : Copy(d)
    \/ peer_connect \/ connect \/ connect_with_retry
    \/ peer_send \/ far_send \/ \E s \in DOMAIN Socks : hang_up(s)

ProxySpec == ProxyInit /\ [][ProxyNext]_proxyVars

\* The runtime polls tasks that are ready; nothing is assumed of the two ends, but
\* that resolving and connecting return.
FairProxySpec ==
    /\ ProxySpec
    /\ WF_proxyVars(accept \/ run_stops) /\ WF_proxyVars(Handler)
    /\ \A d \in Directions : WF_proxyVars(Copy(d))
    /\ WF_proxyVars(Client)
--------------------------------------------------------------------------------
\* What the far end gets is what the peer sent after its request, from its first
\* unit, in order and once, whether it came with the head of the request or later;
\* and no part of a handshake (server.rs of gravital-http:125-130, relay_bidirectional).
TunnelCarriesTheStream == sock.up.out = Units(Len(sock.up.out))

\* The peer gets one verdict at most, and then nothing but the data of the far end
\* in order, and that only after a success (handle_connect, handle_http_proxy).
OneVerdictThenData ==
    LET out == sock.cli.out IN
    \E k \in 0..Len(out) :
        /\ \A i \in 1..k : ~IsData(out[i])
        /\ \A i \in k + 1..Len(out) : out[i] = Data(i - k)
        /\ \A i, j \in 1..k : IsReply(out[i]) /\ IsReply(out[j]) => i = j
        /\ k < Len(out) => k > 0 /\ IsSuccess(out[k])

Asked == IF peer.is = "http" THEN [kind |-> "host", octets |-> Host(peer.asked)] ELSE peer.asked

\* A peer that was told of a success has a connection to the address it asked for,
\* as it wrote it and read_request or parse_host_port read it, or an association whose
\* datagrams go where each is addressed, with all of their payload and no more
\* (handle_connect 103-120, handle_udp_associate, relay_udp, proto.rs:82-136, 221-261).
SuccessIsWhatWasAsked ==
    /\ (\E i \in DOMAIN sock.cli.out : IsSuccess(sock.cli.out[i])) =>
          \/ srv.tcp.addr = Asked /\ srv.tcp.port = Port
          \/ srv.udp.relay # "none"
    /\ \A f \in srv.udp.forwarded :
          f.to \in Addrs /\ f.datagram = encode_address(f.to, Port) \o f.payload

\* SocksClient returns a stream only at the start of the data phase, and only when
\* the proxy is connected: the handler is in the relay or past it (client.rs:26-75).
ClientStreamIsTunnel ==
    peer.is = "SocksClient" /\ peer.at = "ok" =>
        /\ srv.tcp # NoAddress
        /\ \A i \in peer.read + 1..Len(sock.cli.out) : IsData(sock.cli.out[i])

\* Against this repository's own proxy, which answers or closes within its time-outs,
\* connect_with_retry returns, with a stream or after its last attempt
\* (client.rs:84-109).  It rests on the proxy: the client has no time-out of its own.
ClientReturns == (peer.is = "SocksClient") ~> (peer.at \in {"ok", "err"})

\* A handler ends, with its copies, once its ends have: the peer, and the far end if
\* it is connected by then (server.rs of both: every read returns at the end of its
\* stream, and relay_bidirectional waits for its two tasks).
Gone(s) == sock[s].eof \/ sock[s].rst
FarStays == srv.tcp # NoAddress /\ ~Gone("up")
HandlerEnds ==
    (srv.at # "none" /\ Gone("cli") /\ ~FarStays) ~> (srv.at = "done" \/ FarStays)

\* A half-closed connection goes on in the other direction: what the far end sends
\* after the peer has finished still gets to the peer, if nobody resets
\* (relay_bidirectional waits for both directions).
HalfCloseDelivers ==
    (srv.at = "relay" /\ sock.cli.eof /\ sock.up.sent = MaxData)
        ~> (Len(SelectSeq(sock.cli.out, IsData)) = MaxData \/ sock.cli.rst \/ sock.up.rst)
================================================================================
