----------------------------- MODULE Proxies_proofs -----------------------------
(***************************************************************************)
(* The invariant of ProxyHandler_proofs is kept by the other steps of a    *)
(* connection as well: the UDP association, the head of an HTTP request,   *)
(* the copies of the tunnel and its two ends.  The properties of a proxy   *)
(* follow from it.                                                         *)
(***************************************************************************)
EXTENDS ProxyHandler_proofs

\* Time for the steps that are about a whole state.
USE SMTT(30), ZenonT(30)

(***************************************************************************)
(* The association and the head of an HTTP request.                        *)
(***************************************************************************)
\* A datagram is an address and a payload: what is forwarded is the payload, to the
\* address.
LEMMA DatagramIs ==
    ASSUME NEW d \in Datagrams, read_address(d) # NoAddress
    PROVE  LET a == read_address(d) IN
           a.addr \in Addrs /\ d = encode_address(a.addr, Port) \o SubSeq(d, a.used + 1, Len(d))
  <1> DEFINE q == Bytes(2)
  <1>1. d # Unsupported
    BY ReadUnsupported
  <1>2. PICK b \in Addrs : d = encode_address(b, Port) \o q
    BY <1>1 DEF Datagrams
  <1>3. b \in AddrSpec /\ Port \in Nat
    BY ProxyAssumption
  <1>4. q \in Seq(Nat)
    <2>1. \A i \in 1..2 : i % 256 \in Nat
      OBVIOUS
    <2> QED BY <2>1 DEF Bytes
  <1> HIDE DEF q
  <1> DEFINE e == encode_address(b, Port)
             a == read_address(d)
             w == SubSeq(d, Len(e) + 1, Len(d))
  <1>5. EncodedIs(b, Port, q, e, e \o q)
    BY <1>3, <1>4, Encoded, Zenon
  <1>6. e \in Seq(Nat) /\ d = e \o q
    BY <1>2, <1>5, Zenon DEF EncodedIs
  <1>7. a = [addr |-> b, port |-> Port, used |-> Len(e)]
    BY <1>2, <1>3, <1>4, ReadBack, Zenon
  <1>8. w = q
    <2> HIDE DEF e
    <2>1. JoinIs(Nat, e, q, d)
      BY <1>4, <1>6, JoinFact, Zenon
    <2> DEFINE m == Len(e)
               l == Len(q)
    <2>2. m \in Nat /\ l \in Nat
      BY <1>4, <1>6
    <2>3. d \in Seq(Nat) /\ Len(d) = m + l /\ \A i \in 1..l : d[m + i] = q[i]
      BY <2>1, Zenon DEF JoinIs
    <2> HIDE DEF m, l
    <2> DEFINE v == SubSeq(d, m + 1, m + l)
    <2>4. v \in Seq(Nat) /\ Len(v) = l /\ \A i \in 1..l : v[i] = d[m + i]
      <3> DEFINE k == m + l
      <3>1. k \in Nat /\ m <= k /\ k <= Len(d) /\ k - m = l
        BY <2>2, <2>3
      <3>2. SubSeq(d, m + 1, k) \in Seq(Nat) /\ Len(SubSeq(d, m + 1, k)) = l
        <4> HIDE DEF k
        <4> QED BY <2>2, <2>3, <3>1
      <3>3. \A i \in 1..l : SubSeq(d, m + 1, k)[i] = d[m + i]
        <4> HIDE DEF k
        <4> QED BY <2>2, <2>3, <3>1
      <3> QED BY <3>2, <3>3, Zenon
    <2>5. \A i \in 1..Len(v) : v[i] = q[i]
      BY <2>3, <2>4, Zenon
    <2>6. v = q
      BY <1>4, <2>4, <2>5, SameSeq, Zenon DEF l
    <2> QED BY <2>3, <2>6 DEF v, m
  <1> HIDE DEF e, a
  <1>9. a.addr = b /\ a.used = Len(e)
    BY <1>7
  <1>10. a.addr \in Addrs /\ d = encode_address(a.addr, Port) \o SubSeq(d, a.used + 1, Len(d))
    BY <1>6, <1>8, <1>9, <1>2, Zenon DEF e
  <1> QED BY <1>10, Zenon DEF a

\* The relay of an association.
LEMMA UdpStep ==
    ASSUME ProxyInv, relay_udp
    PROVE  ProxyInv'
  <1>1. srv.at = "udp" /\ peer' = peer /\ copy' = copy /\ sock' = sock
    BY DEF relay_udp
  <1>2. SockOK(sock) /\ SrvOK(srv) /\ LabelsOK /\ UpInv /\ DownInv /\ peer.at # "idle"
    BY <1>1, PeerThere DEF ProxyInv, ShapeOK
  <1>3. srv.udp.relay # "none" /\ peer.is = "socks"
    BY <1>1 DEF ProxyInv, AddrInv
  <1>4. PICK d \in Datagrams :
            \/ srv' = [srv EXCEPT !.udp.relay = "ended"]
            \/ /\ read_address(d) # NoAddress
               /\ srv' = [srv EXCEPT !.udp.forwarded =
                    @ \cup {[datagram |-> d, to |-> read_address(d).addr,
                             payload |-> SubSeq(d, read_address(d).used + 1, Len(d))]}]
    BY Zenon DEF relay_udp
  <1> DEFINE a == read_address(d)
             f == [datagram |-> d, to |-> a.addr, payload |-> SubSeq(d, a.used + 1, Len(d))]
             F == srv.udp.forwarded \cup {f}
  <1>5. \/ srv' = [srv EXCEPT !.udp.relay = "ended"]
        \/ a # NoAddress /\ srv' = [srv EXCEPT !.udp.forwarded = F]
    BY <1>4, Zenon
  <1>6. a # NoAddress => f.to \in Addrs /\ f.datagram = encode_address(f.to, Port) \o f.payload
    <2> SUFFICES ASSUME a # NoAddress
                 PROVE  f.to \in Addrs /\ f.datagram = encode_address(f.to, Port) \o f.payload
      BY Zenon
    <2>1. a.addr \in Addrs /\ d = encode_address(a.addr, Port) \o SubSeq(d, a.used + 1, Len(d))
      BY DatagramIs, Zenon
    <2> HIDE DEF a
    <2>2. f.to = a.addr /\ f.datagram = d /\ f.payload = SubSeq(d, a.used + 1, Len(d))
      BY Zenon
    <2> HIDE DEF f
    <2> QED BY <2>1, <2>2, Zenon
  <1> HIDE DEF F, a, f
  <1>7. /\ SrvOK(srv') /\ srv'.at = "udp" /\ srv'.buf = srv.buf /\ srv'.tcp = srv.tcp
        /\ srv'.udp.relay # "none"
        /\ \/ srv'.udp.forwarded = srv.udp.forwarded
           \/ a # NoAddress /\ srv'.udp.forwarded = F
    <2>1. CASE srv' = [srv EXCEPT !.udp.relay = "ended"]
      <3>1. SrvIs(srv', srv.at, srv.buf, srv.addr, srv.tcp, "ended", srv.udp.forwarded)
        BY <1>2, <2>1, SrvFlat, Zenon
      <3> QED BY <1>1, <3>1 DEF SrvIs
    <2>2. CASE a # NoAddress /\ srv' = [srv EXCEPT !.udp.forwarded = F]
      <3>1. SrvIs(srv', srv.at, srv.buf, srv.addr, srv.tcp, srv.udp.relay, F)
        BY <1>2, <2>2, SrvFlat, Zenon
      <3> QED BY <1>1, <1>3, <2>2, <3>1, Zenon DEF SrvIs
    <2> QED BY <1>5, <2>1, <2>2, Zenon
  <1>8. ShapeOK'
    BY <1>1, <1>7, Zenon DEF ProxyInv, ShapeOK
  <1>9. LabelsOK'
    <2>1. "udp" \in SocksLabels
      BY DEF SocksLabels
    <2> QED BY <1>1, <1>2, <1>3, <1>7, <2>1, LabelsStep
  <1>10. UpInv'
    BY <1>1, <1>2, <1>7, UpFrame
  <1>11. DownInv'
    <2>1. GoesOn(srv.at, srv'.at)
      BY <1>1, <1>7 DEF GoesOn
    <2> QED BY <1>1, <1>2, <1>7, <2>1, DownFrame
  <1>12. AddrInv'
    <2>1. \A g \in srv'.udp.forwarded :
            g.to \in Addrs /\ g.datagram = encode_address(g.to, Port) \o g.payload
      <3>1. \A g \in srv.udp.forwarded :
              g.to \in Addrs /\ g.datagram = encode_address(g.to, Port) \o g.payload
        BY Zenon DEF ProxyInv, AddrInv
      <3> QED BY <1>6, <1>7, <3>1, Zenon DEF F
    <2>2. peer'.is = "socks" /\ srv'.at \notin {"resolve", "connect", "established", "early", "relay"}
      BY <1>1, <1>3, <1>7
    <2> QED BY <1>7, <2>1, <2>2, Zenon DEF AddrInv
  <1>13. ClientInv'
    BY <1>1, <1>3 DEF ClientInv
  <1> QED BY <1>8, <1>9, <1>10, <1>11, <1>12, <1>13 DEF ProxyInv

\* The association ends.
LEMMA UdpStopStep ==
    ASSUME ProxyInv, udp_stop
    PROVE  ProxyInv'
  <1>1. /\ srv.at = "udp" /\ peer' = peer /\ copy' = copy /\ sock' = Closed(sock)
        /\ srv' = [srv EXCEPT !.at = "done", !.udp.relay = "ended"]
    BY DEF udp_stop
  <1>2. SockOK(sock) /\ SrvOK(srv) /\ LabelsOK /\ UpInv /\ DownInv /\ peer.at # "idle"
    BY <1>1, PeerThere DEF ProxyInv, ShapeOK
  <1>3. srv.udp.relay # "none" /\ peer.is = "socks"
    BY <1>1 DEF ProxyInv, AddrInv
  <1>4. SameSock(sock, sock')
    BY <1>1, <1>2, ClosedFlat, Zenon
  <1>5. /\ SockOK(sock') /\ sock'.cli.in = sock.cli.in /\ sock'.cli.out = sock.cli.out
        /\ sock'.cli.sent = sock.cli.sent /\ sock'.up.in = sock.up.in /\ sock'.up.out = sock.up.out
        /\ sock'.up.sent = sock.up.sent
    BY <1>4, Zenon DEF SameSock, SockIs
  <1>6. SrvIs(srv', "done", srv.buf, srv.addr, srv.tcp, "ended", srv.udp.forwarded)
    BY <1>1, <1>2, SrvFlat, Zenon
  <1>7. /\ SrvOK(srv') /\ srv'.at = "done" /\ srv'.buf = srv.buf /\ srv'.tcp = srv.tcp
        /\ srv'.udp.relay # "none" /\ srv'.udp.forwarded = srv.udp.forwarded
    BY <1>6 DEF SrvIs
  <1>8. ShapeOK'
    BY <1>1, <1>5, <1>7, Zenon DEF ProxyInv, ShapeOK
  <1>9. LabelsOK'
    <2>1. "done" \in SocksLabels
      BY DEF SocksLabels
    <2> QED BY <1>1, <1>2, <1>3, <1>7, <2>1, LabelsStep
  <1>10. UpInv'
    BY <1>1, <1>2, <1>5, <1>7, UpFrame
  <1>11. DownInv'
    <2>1. GoesOn(srv.at, srv'.at)
      BY <1>1, <1>7 DEF GoesOn
    <2> QED BY <1>1, <1>2, <1>5, <1>7, <2>1, DownFrame
  <1>12. AddrInv'
    BY <1>1, <1>3, <1>7, Zenon DEF ProxyInv, AddrInv
  <1>13. ClientInv'
    BY <1>1, <1>3 DEF ClientInv
  <1> QED BY <1>8, <1>9, <1>10, <1>11, <1>12, <1>13 DEF ProxyInv

\* A complete head names what was asked for, or has no port.
LEMMA TargetIs ==
    ASSUME LabelsOK, peer.is = "http", NEW target \in Targets(peer.asked),
           parse_host_port(target) # NoAddress
    PROVE  parse_host_port(target).addr = Asked /\ parse_host_port(target).port = Port
  <1> DEFINE a == peer.asked
             b == [addr |-> [kind |-> "host", octets |-> Host(a)], port |-> Port, used |-> 0]
  <1>1. a \in AddrSpec
    BY ProxyAssumption DEF LabelsOK
  <1>2. target = Host(a) \/ target = Host(a) \o <<COLON, Port>>
    BY DEF Targets
  <1>3. /\ parse_host_port(Host(a)) = NoAddress
        /\ parse_host_port(Host(a) \o <<COLON, Port>>) = b
    BY <1>1, HostPort, Zenon
  <1>4. parse_host_port(target) = b
    BY <1>2, <1>3, Zenon
  <1>5. b.addr = Asked /\ b.port = Port
    BY DEF Asked
  <1> QED BY <1>4, <1>5, Zenon

\* What the HTTP handler does with what it has read.
LEMMA HttpCases ==
    ASSUME ProxyInv, handle_http_proxy
    PROVE  \E n \in 0..Len(sock.cli.in) :
             LET buf == srv.buf \o Taken("cli", n)
                 k == Take("cli", n)
                 a == parse_host_port(buf[parse(buf)].target) IN
             \/ sock' = k /\ srv' = [srv EXCEPT !.buf = buf]
             \/ Ended(k)
             \/ Refuse(k, "MethodNotAllowed")
             \/ /\ parse(buf) # 0 /\ buf[parse(buf)].target \in Targets(peer.asked) /\ a # NoAddress
                /\ sock' = k
                /\ srv' = [srv EXCEPT !.at = "connect", !.addr = a,
                                       !.buf = SubSeq(buf, parse(buf) + 1, Len(buf))]
  <1>1. srv.at = "head" /\ sock.cli.in # << >>
    BY Zenon DEF handle_http_proxy
  <1>2. LabelsOK /\ UpInv
    BY DEF ProxyInv
  <1> DEFINE buf(n) == srv.buf \o Taken("cli", n)
             k(n) == Take("cli", n)
             end(n) == parse(buf(n))
             a(n) == parse_host_port(buf(n)[end(n)].target)
             last(n) == buf(n)[end(n)]
             kept(n) == sock' = k(n) /\ srv' = [srv EXCEPT !.buf = buf(n)]
             goes(n) == /\ sock' = k(n)
                        /\ srv' = [srv EXCEPT !.at = "connect", !.addr = a(n),
                                               !.buf = SubSeq(buf(n), end(n) + 1, Len(buf(n)))]
  <1>3. PICK n \in 1..Len(sock.cli.in) :
        /\ Len(buf(n)) <= MAX_HEADER_SIZE
        /\ CASE end(n) = 0 /\ Len(buf(n)) < MAX_HEADER_SIZE -> kept(n)
             [] end(n) = 0 /\ Len(buf(n)) = MAX_HEADER_SIZE -> Ended(k(n))
             [] end(n) # 0 /\ last(n).method = "other" -> Refuse(k(n), "MethodNotAllowed")
             [] end(n) # 0 /\ last(n).method = "malformed" -> Ended(k(n))
             [] end(n) # 0 /\ last(n).method = "CONNECT" /\ a(n) = NoAddress -> Ended(k(n))
             [] end(n) # 0 /\ last(n).method = "CONNECT" /\ a(n) # NoAddress -> goes(n)
    BY Zenon DEF handle_http_proxy
  <1>4. n \in 0..Len(sock.cli.in)
    BY <1>1, <1>2, SomeIn, Zenon
  <1>5. buf(n) = srv.buf \o SubSeq(sock.cli.in, 1, n)
    BY Zenon DEF Taken
  <1>6. /\ Len(buf(n)) \in Nat
        /\ end(n) # 0 => /\ last(n).method \in {"CONNECT", "other", "malformed"}
                         /\ last(n).target \in Targets(peer.asked)
    BY <1>1, <1>2, <1>4, <1>5, HeadParsed, Zenon
  <1> HIDE DEF buf, k, end, a, last, kept, goes
  <1>7. Len(buf(n)) < MAX_HEADER_SIZE \/ Len(buf(n)) = MAX_HEADER_SIZE
    BY <1>3, <1>6, ProxyAssumption
  <1>8. \/ kept(n) \/ Ended(k(n)) \/ Refuse(k(n), "MethodNotAllowed")
        \/ end(n) # 0 /\ last(n).target \in Targets(peer.asked) /\ a(n) # NoAddress /\ goes(n)
    BY <1>3, <1>6, <1>7, Zenon
  <1> QED BY <1>4, <1>8, ZenonT(30) DEF buf, k, end, a, last, kept, goes

\* The HTTP handler reads.
LEMMA HttpStep ==
    ASSUME ProxyInv, handle_http_proxy
    PROVE  ProxyInv'
  <1>1. srv.at = "head" /\ peer' = peer /\ copy' = copy
    BY Zenon DEF handle_http_proxy
  <1>2. SockOK(sock) /\ SrvOK(srv) /\ LabelsOK /\ UpInv /\ DownInv /\ peer.at # "idle"
    BY <1>1, PeerThere DEF ProxyInv, ShapeOK
  <1>3. peer.is = "http"
    BY <1>1, <1>2 DEF LabelsOK, SocksLabels
  <1> DEFINE buf(n) == srv.buf \o Taken("cli", n)
             k(n) == Take("cli", n)
             end(n) == parse(buf(n))
             target(n) == buf(n)[end(n)].target
             a(n) == parse_host_port(target(n))
             rest(n) == SubSeq(buf(n), end(n) + 1, Len(buf(n)))
  <1>4. PICK n \in 0..Len(sock.cli.in) :
        \/ sock' = k(n) /\ srv' = [srv EXCEPT !.buf = buf(n)]
        \/ Ended(k(n))
        \/ Refuse(k(n), "MethodNotAllowed")
        \/ /\ end(n) # 0 /\ target(n) \in Targets(peer.asked) /\ a(n) # NoAddress
           /\ sock' = k(n)
           /\ srv' = [srv EXCEPT !.at = "connect", !.addr = a(n), !.buf = rest(n)]
    BY HttpCases, Zenon
  <1>5. Reads(k(n)) /\ TookCli(k(n), n)
    BY <1>2, ReadsOK, Zenon
  <1>6. buf(n) = srv.buf \o SubSeq(sock.cli.in, 1, n)
    BY Zenon DEF Taken
  <1>7. Asked' = Asked
    BY <1>1, Zenon DEF Asked
  <1>8. ASSUME sock' = k(n)
        PROVE  /\ SockOK(sock') /\ sock'.cli.in = SubSeq(sock.cli.in, n + 1, Len(sock.cli.in))
               /\ sock'.cli.out = sock.cli.out
               /\ sock'.cli.sent = sock.cli.sent /\ sock'.up.in = sock.up.in
               /\ sock'.up.out = sock.up.out /\ sock'.up.sent = sock.up.sent
    BY <1>5, <1>8, Zenon DEF SockIs, TookCli
  <1> HIDE DEF k, buf
  <1>9. CASE Ended(k(n))
    BY <1>1, <1>5, <1>9, EndsNow
  <1>10. CASE Refuse(k(n), "MethodNotAllowed")
    <2>1. "MethodNotAllowed" \in Codes /\ "MethodNotAllowed" # "Succeeded"
      BY DEF Codes
    <2> QED BY <1>1, <1>5, <1>10, <2>1, Refused
  <1>11. CASE sock' = k(n) /\ srv' = [srv EXCEPT !.buf = buf(n)]
    <2>1. SrvIs(srv', srv.at, buf(n), srv.addr, srv.tcp, srv.udp.relay, srv.udp.forwarded)
      BY <1>2, <1>11, SrvFlat, Zenon
    <2>2. /\ SrvOK(srv') /\ srv'.at = srv.at /\ srv'.buf = buf(n) /\ srv'.addr = srv.addr
          /\ srv'.tcp = srv.tcp
          /\ srv'.udp.relay = srv.udp.relay /\ srv'.udp.forwarded = srv.udp.forwarded
      BY <2>1, Zenon DEF SrvIs
    <2>4. ShapeOK'
      BY <1>1, <1>8, <1>11, <2>2, Zenon DEF ProxyInv, ShapeOK
    <2>5. LabelsOK'
      BY <1>1, <1>2, <2>2 DEF LabelsOK
    <2>6. UpInv'
      BY <1>1, <1>2, <1>6, <1>8, <1>11, <2>2, UpHead, ZenonT(30)
    <2>7. DownInv'
      <3>1. GoesOn(srv.at, srv'.at)
        BY <2>2 DEF GoesOn
      <3> QED BY <1>1, <1>2, <1>8, <1>11, <2>2, <3>1, DownFrame
    <2>8. AddrInv'
      BY <1>1, <1>7, <2>2, Zenon DEF ProxyInv, AddrInv
    <2>9. ClientInv'
      BY <1>1, ClientStep, Zenon
    <2> QED BY <2>4, <2>5, <2>6, <2>7, <2>8, <2>9 DEF ProxyInv
  <1>12. CASE /\ end(n) # 0 /\ target(n) \in Targets(peer.asked) /\ a(n) # NoAddress
              /\ sock' = k(n)
              /\ srv' = [srv EXCEPT !.at = "connect", !.addr = a(n), !.buf = rest(n)]
    <2>0. a(n).addr = Asked /\ a(n).port = Port
      BY <1>2, <1>3, <1>12, TargetIs, Zenon
    <2> HIDE DEF a
    <2>1. SrvIs(srv', "connect", rest(n), a(n), srv.tcp, srv.udp.relay, srv.udp.forwarded)
      <3> HIDE DEF rest
      <3> QED BY <1>2, <1>12, SrvFlat, Zenon
    <2>2. /\ SrvOK(srv') /\ srv'.at = "connect" /\ srv'.buf = rest(n) /\ srv'.addr = a(n)
          /\ srv'.tcp = srv.tcp
          /\ srv'.udp.relay = srv.udp.relay /\ srv'.udp.forwarded = srv.udp.forwarded
      BY <2>1, Zenon DEF SrvIs
    <2>4. ShapeOK'
      BY <1>1, <1>8, <1>12, <2>2, Zenon DEF ProxyInv, ShapeOK
    <2>5. LabelsOK'
      <3>1. "connect" \in HttpLabels
        BY DEF HttpLabels
      <3> QED BY <1>1, <1>2, <1>3, <2>2, <3>1, LabelsStep
    <2>6. UpInv'
      BY <1>1, <1>2, <1>6, <1>8, <1>12, <2>2, UpParsed, Zenon
    <2>7. DownInv'
      <3>1. GoesOn(srv.at, srv'.at)
        BY <1>1, <2>2 DEF GoesOn
      <3> QED BY <1>1, <1>2, <1>8, <1>12, <2>2, <3>1, DownFrame
    <2>8. AddrInv'
      BY <1>1, <1>7, <2>0, <2>2, Zenon DEF ProxyInv, AddrInv
    <2>9. ClientInv'
      BY <1>1, ClientStep
    <2> QED BY <2>4, <2>5, <2>6, <2>7, <2>8, <2>9 DEF ProxyInv
  <1> QED BY <1>4, <1>9, <1>10, <1>11, <1>12, ZenonT(30)

\* A step of a copy changes nothing but the two streams and the copies.
LEMMA CopyFrame ==
    ASSUME ProxyInv, srv.at = "relay", peer' = peer, srv' = srv, SockOK(sock'), CopyOK(copy'),
           \A d \in Ways : \/ copy'[d] = copy[d] \/ copy'[d].at = "copying"
                           \/ copy'[d].at = "done" /\ copy'[d].data = << >>,
           UpInv', DownInv'
    PROVE  ProxyInv'
  <1>1. ShapeOK' /\ AddrInv' /\ ClientInv'
    BY Zenon DEF ProxyInv, ShapeOK, AddrInv, ClientInv, Asked
  <1>2. LabelsOK'
    BY DEF ProxyInv, LabelsOK
  <1> QED BY <1>1, <1>2, Zenon DEF ProxyInv

\* A copy that ends.
LEMMA CopyEndsStep ==
    ASSUME ProxyInv, srv.at = "relay", peer' = peer, srv' = srv, NEW d \in Ways, CopyEnds(d)
    PROVE  ProxyInv'
  <1> DEFINE e == Destination(d)
  <1>1. e \in Sides
    BY DEF Destination, Sides
  <1>2. SockOK(sock) /\ CopyOK(copy) /\ LabelsOK /\ UpInv /\ DownInv
    BY DEF ProxyInv, ShapeOK
  <1>3. SameSock(sock, sock')
    <2>1. sock' = [sock EXCEPT ![e].shut = TRUE]
      BY DEF CopyEnds
    <2> HIDE DEF e
    <2> QED BY <1>1, <1>2, <2>1, FlagsFlat, Zenon
  <1>4. /\ SockOK(sock') /\ sock'.cli.in = sock.cli.in /\ sock'.cli.out = sock.cli.out
        /\ sock'.cli.sent = sock.cli.sent /\ sock'.up.in = sock.up.in
        /\ sock'.up.out = sock.up.out /\ sock'.up.sent = sock.up.sent
    BY <1>3, Zenon DEF SameSock, SockIs
  <1>5. /\ CopyOK(copy') /\ copy'[d] = [at |-> "done", data |-> << >>]
        /\ \A c \in Ways : c # d => copy'[c] = copy[c]
    <2>1. copy' = [copy EXCEPT ![d] = [at |-> "done", data |-> << >>]]
      BY DEF CopyEnds
    <2> DEFINE w == [at |-> "done", data |-> << >>]
    <2>2. DOMAIN w = {"at", "data"}
      OBVIOUS
    <2> HIDE DEF w
    <2>3. CopyBecomes(copy', copy, d, w)
      BY <1>2, <2>1, <2>2, CopyFlat, Zenon DEF w
    <2> QED BY <2>3, Zenon DEF CopyBecomes, OthersKept, w
  <1>6. copy'[d].at = "done" /\ copy'[d].data = << >>
    BY <1>5
  <1>7. UpInv' /\ DownInv'
    <2>1. CASE d = "up"
      <3>1. copy'.down = copy.down /\ copy'.up.at = "done"
        BY <1>5, <1>6, <2>1 DEF Ways
      <3>2. UpInv'
        BY <1>2, <1>4, <3>1, UpCopyEnds
      <3>3. GoesOn(srv.at, srv'.at)
        BY DEF GoesOn
      <3> QED BY <1>2, <1>4, <3>1, <3>2, <3>3, DownFrame, Zenon
    <2>2. CASE d = "down"
      <3>1. copy'.up = copy.up /\ copy'.down.at = "done"
        BY <1>5, <1>6, <2>2 DEF Ways
      <3>2. DownInv'
        BY <1>2, <1>4, <3>1, DownCopyEnds
      <3> QED BY <1>2, <1>4, <3>1, <3>2, UpFrame
    <2> QED BY <2>1, <2>2 DEF Ways
  <1> QED BY <1>4, <1>5, <1>6, <1>7, CopyFrame, Zenon

\* Where a copy reads and writes.
LEMMA Ends ==
    /\ Source("up") = "cli" /\ Destination("up") = "up"
    /\ Source("down") = "up" /\ Destination("down") = "cli"
  BY DEF Source, Destination

\* The copy to the far end.
LEMMA CopyUpStep ==
    ASSUME ProxyInv, Copy("up")
    PROVE  ProxyInv'
  <1>1. peer' = peer /\ srv' = srv
    BY Zenon DEF Copy, copy_read, copy_write
  <1>2. SockOK(sock) /\ CopyOK(copy) /\ LabelsOK /\ UpInv /\ DownInv /\ "up" \in Ways
    BY DEF ProxyInv, ShapeOK, Ways
  <1>3. GoesOn(srv.at, srv'.at)
    BY <1>1 DEF GoesOn
  <1>4. CASE copy_read("up")
    <2>1. srv.at = "relay" /\ copy.up.at = "copying" /\ copy.up.data = << >>
      BY <1>4 DEF copy_read, Copying
    <2>2. CASE CopyEnds("up")
      BY <1>1, <1>2, <2>1, <2>2, CopyEndsStep
    <2>3. ASSUME NEW n \in 1..Len(sock["cli"].in),
                 copy' = [copy EXCEPT !["up"].data = Taken("cli", n)], sock' = Take("cli", n)
          PROVE  ProxyInv'
      <3> DEFINE v == SubSeq(sock.cli.in, 1, n)
      <3>1. n \in 0..Len(sock.cli.in)
        <4>1. CASE sock.cli.in = << >>
          BY <4>1
        <4>2. CASE sock.cli.in # << >>
          BY <1>2, <4>2, SomeIn
        <4> QED BY <4>1, <4>2
      <3>2. copy' = [copy EXCEPT !["up"].data = v]
        BY <2>3 DEF Taken
      <3>3. TookCli(sock', n)
        BY <1>2, <2>3, TakeFlat, Zenon
      <3>4. /\ SockOK(sock') /\ sock'.cli.in = SubSeq(sock.cli.in, n + 1, Len(sock.cli.in))
            /\ sock'.cli.out = sock.cli.out /\ sock'.cli.sent = sock.cli.sent
            /\ sock'.up.in = sock.up.in /\ sock'.up.out = sock.up.out /\ sock'.up.sent = sock.up.sent
        BY <3>3, Zenon DEF TookCli, SockIs
      <3> HIDE DEF v
      <3>5. /\ CopyOK(copy') /\ copy'["up"].at = copy["up"].at /\ copy'["up"].data = v
            /\ \A c \in Ways : c # "up" => copy'[c] = copy[c]
        <4>1. CopyHolds(copy', copy, "up", v)
          BY <1>2, <3>2, CopyFlat, Zenon
        <4> QED BY <4>1, Zenon DEF CopyHolds, OthersKept
      <3>6. copy'.up.at = copy.up.at /\ copy'.up.data = v /\ copy'.down = copy.down
        BY <3>5 DEF Ways
      <3>7. UpInv'
        BY <1>1, <1>2, <2>1, <3>1, <3>4, <3>6, UpRead DEF v
      <3>8. DownInv'
        BY <1>1, <1>2, <1>3, <3>4, <3>6, DownFrame
      <3>9. \A c \in Ways : copy'[c] = copy[c] \/ copy'[c].at = "copying"
        BY <2>1, <3>5, <3>6 DEF Ways
      <3> QED BY <1>1, <2>1, <3>4, <3>5, <3>7, <3>8, <3>9, CopyFrame, Zenon
    <2> QED BY <1>4, <2>2, <2>3, Ends, Zenon DEF copy_read
  <1>5. CASE copy_write("up")
    <2>1. copy.up.data # << >>
      BY <1>5 DEF copy_write
    <2>2. srv.at = "relay" /\ copy.up.at = "copying"
      BY <1>2, <2>1 DEF LabelsOK, Ways
    <2>3. CASE CopyEnds("up")
      BY <1>1, <1>2, <2>2, <2>3, CopyEndsStep
    <2>4. CASE /\ copy' = [copy EXCEPT !["up"] = Copying]
               /\ sock' = [sock EXCEPT !["up"].out = @ \o copy["up"].data]
      <3> DEFINE v == sock.up.out \o copy.up.data
      <3>1. sock' = [sock EXCEPT !.up.out = v]
        BY <2>4, Zenon
      <3> HIDE DEF v
      <3>2. SockIs(sock', sock.cli.in, sock.cli.out, sock.cli.sent, sock.up.in, v, sock.up.sent)
        BY <1>2, <3>1, StreamFlat, Zenon
      <3>4. /\ SockOK(sock') /\ sock'.cli.in = sock.cli.in
            /\ sock'.cli.out = sock.cli.out /\ sock'.cli.sent = sock.cli.sent
            /\ sock'.up.in = sock.up.in /\ sock'.up.out = v /\ sock'.up.sent = sock.up.sent
        BY <3>2, Zenon DEF SockIs
      <3>5. /\ CopyOK(copy') /\ copy'["up"] = Copying
            /\ \A c \in Ways : c # "up" => copy'[c] = copy[c]
        <4>1. DOMAIN Copying = {"at", "data"}
          BY DEF Copying
        <4>2. CopyBecomes(copy', copy, "up", Copying)
          BY <1>2, <2>4, <4>1, CopyFlat, Zenon
        <4> QED BY <4>2, Zenon DEF CopyBecomes, OthersKept
      <3>6. copy'.up = Copying /\ copy'.down = copy.down
        BY <3>5 DEF Ways
      <3>7. UpInv'
        BY <1>1, <1>2, <2>2, <3>4, <3>6, UpWrite, Zenon DEF v
      <3>8. DownInv'
        BY <1>1, <1>2, <1>3, <3>4, <3>6, DownFrame
      <3>9. \A c \in Ways : copy'[c] = copy[c] \/ copy'[c].at = "copying"
        BY <3>5 DEF Ways, Copying
      <3> QED BY <1>1, <2>2, <3>4, <3>5, <3>7, <3>8, <3>9, CopyFrame, Zenon
    <2> QED BY <1>5, <2>3, <2>4, Ends, Zenon DEF copy_write
  <1> QED BY <1>4, <1>5 DEF Copy

\* What the far end has sent and no copy has read is a sequence.
LEMMA SomeUpIn ==
    ASSUME DownInv
    PROVE  \A n \in 1..Len(sock.up.in) : n \in 0..Len(sock.up.in)
  <1>1. PICK y \in Nat : y <= sock.up.sent /\ sock.up.in = Seg(<< >>, y, sock.up.sent)
    BY DEF DownInv, DownOK
  <1>2. sock.up.sent \in Nat
    BY DEF DownInv
  <1>3. SegIs(<< >>, y, sock.up.sent, sock.up.in)
    BY <1>1, <1>2, SegFact, Zenon
  <1>4. Len(sock.up.in) = sock.up.sent - y
    BY <1>3, Zenon DEF SegIs
  <1> QED BY <1>1, <1>2, <1>4

\* The copy to the peer.
LEMMA CopyDownStep ==
    ASSUME ProxyInv, Copy("down")
    PROVE  ProxyInv'
  <1>1. peer' = peer /\ srv' = srv
    BY Zenon DEF Copy, copy_read, copy_write
  <1>2. SockOK(sock) /\ CopyOK(copy) /\ LabelsOK /\ UpInv /\ DownInv /\ "down" \in Ways
    BY DEF ProxyInv, ShapeOK, Ways
  <1>4. CASE copy_read("down")
    <2>1. srv.at = "relay" /\ copy.down.at = "copying" /\ copy.down.data = << >>
      BY <1>4 DEF copy_read, Copying
    <2>2. CASE CopyEnds("down")
      BY <1>1, <1>2, <2>1, <2>2, CopyEndsStep
    <2>3. ASSUME NEW n \in 1..Len(sock["up"].in),
                 copy' = [copy EXCEPT !["down"].data = Taken("up", n)], sock' = Take("up", n)
          PROVE  ProxyInv'
      <3> DEFINE v == SubSeq(sock.up.in, 1, n)
      <3>1. n \in 0..Len(sock.up.in)
        BY <1>2, SomeUpIn
      <3>2. copy' = [copy EXCEPT !["down"].data = v]
        BY <2>3 DEF Taken
      <3>3. SockIs(sock', sock.cli.in, sock.cli.out, sock.cli.sent,
                   SubSeq(sock.up.in, n + 1, Len(sock.up.in)), sock.up.out, sock.up.sent)
        BY <1>2, <2>3, TakeFlat, Zenon
      <3>4. /\ SockOK(sock') /\ sock'.cli.in = sock.cli.in
            /\ sock'.cli.out = sock.cli.out /\ sock'.cli.sent = sock.cli.sent
            /\ sock'.up.in = SubSeq(sock.up.in, n + 1, Len(sock.up.in))
            /\ sock'.up.out = sock.up.out /\ sock'.up.sent = sock.up.sent
        BY <3>3, Zenon DEF SockIs
      <3> HIDE DEF v
      <3>5. /\ CopyOK(copy') /\ copy'["down"].at = copy["down"].at /\ copy'["down"].data = v
            /\ \A c \in Ways : c # "down" => copy'[c] = copy[c]
        <4>1. CopyHolds(copy', copy, "down", v)
          BY <1>2, <3>2, CopyFlat, Zenon
        <4> QED BY <4>1, Zenon DEF CopyHolds, OthersKept
      <3>6. copy'.down.at = copy.down.at /\ copy'.down.data = v /\ copy'.up = copy.up
        BY <3>5 DEF Ways
      <3>7. DownInv'
        BY <1>1, <1>2, <2>1, <3>1, <3>4, <3>6, DownRead DEF v
      <3>8. UpInv'
        BY <1>1, <1>2, <3>4, <3>6, UpFrame
      <3>9. \A c \in Ways : copy'[c] = copy[c] \/ copy'[c].at = "copying"
        BY <2>1, <3>5, <3>6 DEF Ways
      <3> QED BY <1>1, <2>1, <3>4, <3>5, <3>7, <3>8, <3>9, CopyFrame, Zenon
    <2> QED BY <1>4, <2>2, <2>3, Ends, Zenon DEF copy_read
  <1>5. CASE copy_write("down")
    <2>1. copy.down.data # << >>
      BY <1>5 DEF copy_write
    <2>2. srv.at = "relay" /\ copy.down.at = "copying"
      BY <1>2, <2>1 DEF LabelsOK, Ways
    <2>3. CASE CopyEnds("down")
      BY <1>1, <1>2, <2>2, <2>3, CopyEndsStep
    <2>4. CASE /\ copy' = [copy EXCEPT !["down"] = Copying]
               /\ sock' = [sock EXCEPT !["cli"].out = @ \o copy["down"].data]
      <3> DEFINE v == sock.cli.out \o copy.down.data
      <3>1. sock' = [sock EXCEPT !.cli.out = v]
        BY <2>4, Zenon
      <3> HIDE DEF v
      <3>2. SockIs(sock', sock.cli.in, v, sock.cli.sent, sock.up.in, sock.up.out, sock.up.sent)
        BY <1>2, <3>1, StreamFlat, Zenon
      <3>4. /\ SockOK(sock') /\ sock'.cli.in = sock.cli.in
            /\ sock'.cli.out = v /\ sock'.cli.sent = sock.cli.sent
            /\ sock'.up.in = sock.up.in /\ sock'.up.out = sock.up.out /\ sock'.up.sent = sock.up.sent
        BY <3>2, Zenon DEF SockIs
      <3>5. /\ CopyOK(copy') /\ copy'["down"] = Copying
            /\ \A c \in Ways : c # "down" => copy'[c] = copy[c]
        <4>1. DOMAIN Copying = {"at", "data"}
          BY DEF Copying
        <4>2. CopyBecomes(copy', copy, "down", Copying)
          BY <1>2, <2>4, <4>1, CopyFlat, Zenon
        <4> QED BY <4>2, Zenon DEF CopyBecomes, OthersKept
      <3>6. copy'.down = Copying /\ copy'.up = copy.up
        BY <3>5 DEF Ways
      <3>7. DownInv'
        BY <1>1, <1>2, <2>2, <3>4, <3>6, DownWrite DEF v
      <3>8. UpInv'
        BY <1>1, <1>2, <3>4, <3>6, UpFrame
      <3>9. \A c \in Ways : copy'[c] = copy[c] \/ copy'[c].at = "copying"
        BY <3>5 DEF Ways, Copying
      <3> QED BY <1>1, <2>2, <3>4, <3>5, <3>7, <3>8, <3>9, CopyFrame, Zenon
    <2> QED BY <1>5, <2>3, <2>4, Ends, Zenon DEF copy_write
  <1> QED BY <1>4, <1>5 DEF Copy

--------------------------------------------------------------------------------
(***************************************************************************)
(* The two ends.                                                           *)
(***************************************************************************)
\* A step of the peer once it has connected.
LEMMA PeerStep ==
    ASSUME ProxyInv, srv' = srv, copy' = copy, PeerOK(peer'), peer'.is = peer.is,
           peer'.asked = peer.asked, SockOK(sock'), UpInv', DownInv', ClientInv',
           peer'.at # "idle", peer'.at \in {"method", "reply"} => peer.is = "SocksClient"
    PROVE  ProxyInv'
  <1>1. ShapeOK'
    BY DEF ProxyInv, ShapeOK
  <1>2. Asked' = Asked
    BY DEF Asked
  <1>3. AddrInv'
    BY <1>2, Zenon DEF ProxyInv, AddrInv
  <1>4. LabelsOK'
    BY DEF ProxyInv, LabelsOK
  <1> QED BY <1>1, <1>3, <1>4, Zenon DEF ProxyInv

\* An attempt fails.
LEMMA FailedStep ==
    ASSUME ProxyInv, peer' = Failed, srv' = srv, copy' = copy, SameSock(sock, sock')
    PROVE  ProxyInv'
  <1>1. PICK at \in {"err", "asleep"} : peer' = [peer EXCEPT !.at = at]
    BY DEF Failed
  <1>2. PeerOK(peer) /\ LabelsOK /\ UpInv /\ DownInv
    BY DEF ProxyInv, ShapeOK
  <1>3. PeerIs(peer', peer.is, at, peer.asked, peer.todo, peer.read)
    <2>1. PeerIs([peer EXCEPT !.at = at], peer.is, at, peer.asked, peer.todo, peer.read)
      BY <1>2, PeerFlat, Zenon
    <2> QED BY <1>1, <2>1
  <1>4. /\ PeerOK(peer') /\ peer'.is = peer.is /\ peer'.at = at /\ peer'.asked = peer.asked
        /\ peer'.todo = peer.todo /\ peer'.read = peer.read
    BY <1>3, Zenon DEF PeerIs
  <1>5. at \notin {"idle", "method", "reply", "ok"}
    OBVIOUS
  <1>6. /\ SockOK(sock') /\ sock'.cli.in = sock.cli.in /\ sock'.cli.out = sock.cli.out
        /\ sock'.cli.sent = sock.cli.sent /\ sock'.up.in = sock.up.in
        /\ sock'.up.out = sock.up.out /\ sock'.up.sent = sock.up.sent
    BY Zenon DEF SameSock, SockIs
  <1>7. UpInv'
    BY <1>2, <1>4, <1>5, <1>6, UpFrame
  <1>8. DownInv'
    <2>1. GoesOn(srv.at, srv'.at)
      BY DEF GoesOn
    <2> QED BY <1>2, <1>4, <1>5, <1>6, <2>1, DownFrame
  <1>9. ClientInv'
    BY <1>4, <1>5 DEF ClientInv
  <1> QED BY <1>4, <1>5, <1>6, <1>7, <1>8, <1>9, PeerStep

\* A peer that has not connected has said nothing; SocksClient has its request to say
\* until the greeting is answered.
LEMMA YetToSay ==
    ASSUME LabelsOK, UpInv, peer.at \in {"idle", "method"}
    PROVE  /\ peer.at = "idle" => sock.cli.in = << >>
           /\ peer.is = "SocksClient" => peer.todo # << >>
  <1>1. PICK s \in Scripts(peer.is, peer.asked), N \in Nat, r \in Nat, x \in Nat :
            UpOK(s, N, r, x) /\ Len(s) \in Nat
    BY UpStream
  <1>2. /\ r <= N /\ peer.todo = Seg(s, N, Len(s)) /\ sock.cli.in = Seg(s, r, N)
        /\ peer.at = "idle" => N = 0
        /\ peer.at = "method" => N = 1
    BY <1>1, Zenon DEF UpOK
  <1>3. peer.at = "idle" => sock.cli.in = << >>
    <2> SUFFICES ASSUME peer.at = "idle" PROVE Seg(s, r, N) = << >>
      BY <1>2
    <2>1. N <= r
      BY <1>2
    <2> QED BY <2>1, SegNone, Zenon
  <1>4. peer.is = "SocksClient" => peer.todo # << >>
    <2> SUFFICES ASSUME peer.is = "SocksClient" PROVE Seg(s, N, Len(s)) # << >>
      BY <1>2
    <2>1. ScriptFacts(peer.is, peer.asked, s)
      BY <1>1, ScriptIs, Zenon DEF LabelsOK
    <2>2. Len(s) = 2
      BY <2>1 DEF ScriptFacts, SocksScript
    <2>3. N <= Len(s) /\ N # Len(s)
      BY <1>2, <2>2
    <2>4. SegIs(s, N, Len(s), Seg(s, N, Len(s)))
      BY <1>1, <2>3, SegFact, Zenon
    <2> QED BY <2>3, <2>4, Zenon DEF SegIs
  <1> QED BY <1>3, <1>4

\* The peer connects.
LEMMA PeerConnectStep ==
    ASSUME ProxyInv, peer_connect
    PROVE  ProxyInv'
  <1>1. peer.at = "idle" /\ srv' = srv /\ copy' = copy
    BY DEF peer_connect
  <1>2. PeerOK(peer) /\ SockOK(sock) /\ LabelsOK /\ UpInv /\ DownInv
    BY DEF ProxyInv, ShapeOK
  <1>3. GoesOn(srv.at, srv'.at)
    BY <1>1 DEF GoesOn
  <1>4. CASE peer' = Failed /\ sock' = sock
    <2>1. "cli" \in Sides
      BY DEF Sides
    <2>2. SameSock(sock, sock')
      BY <1>2, <1>4, <2>1, FlagsFlat, Zenon
    <2> QED BY <1>1, <1>4, <2>2, FailedStep
  <1>5. CASE /\ peer.is = "SocksClient"
             /\ peer' = [peer EXCEPT !.at = "method", !.todo = Tail(@)]
             /\ sock' = [sock EXCEPT !.cli.in = <<Head(peer.todo)>>]
    <2> DEFINE t == Tail(peer.todo)
               i == <<Head(peer.todo)>>
    <2>1. sock.cli.in = << >> /\ peer.todo # << >>
      BY <1>1, <1>2, <1>5, YetToSay
    <2>2. i = Append(sock.cli.in, Head(peer.todo))
      BY <2>1
    <2>3. peer' = [peer EXCEPT !.at = "method", !.todo = t] /\ sock' = [sock EXCEPT !.cli.in = i]
      BY <1>5
    <2> HIDE DEF t, i
    <2>4. PeerIs(peer', peer.is, "method", peer.asked, t, peer.read)
      BY <1>2, <2>3, PeerFlat, Zenon
    <2>5. /\ PeerOK(peer') /\ peer'.is = peer.is /\ peer'.at = "method" /\ peer'.asked = peer.asked
          /\ peer'.todo = t /\ peer'.read = peer.read
      BY <2>4, Zenon DEF PeerIs
    <2>6. SockIs(sock', i, sock.cli.out, sock.cli.sent, sock.up.in, sock.up.out, sock.up.sent)
      BY <1>2, <2>3, StreamFlat, Zenon
    <2>7. /\ SockOK(sock') /\ sock'.cli.in = i /\ sock'.cli.out = sock.cli.out
          /\ sock'.cli.sent = sock.cli.sent /\ sock'.up.in = sock.up.in
          /\ sock'.up.out = sock.up.out /\ sock'.up.sent = sock.up.sent
      BY <2>6, Zenon DEF SockIs
    <2>8. UpInv'
      BY <1>1, <1>2, <2>1, <2>2, <2>5, <2>7, UpSay, Zenon DEF t
    <2>9. DownInv'
      BY <1>1, <1>2, <1>3, <2>5, <2>7, DownFrame
    <2>10. ClientInv'
      BY <1>1, <1>5, <2>5 DEF ProxyInv, ClientInv
    <2> QED BY <1>1, <1>5, <2>5, <2>7, <2>8, <2>9, <2>10, PeerStep, Zenon
  <1>6. CASE peer.is # "SocksClient" /\ peer' = [peer EXCEPT !.at = "ok"] /\ sock' = sock
    <2>4. PeerIs(peer', peer.is, "ok", peer.asked, peer.todo, peer.read)
      BY <1>2, <1>6, PeerFlat, Zenon
    <2>5. /\ PeerOK(peer') /\ peer'.is = peer.is /\ peer'.at = "ok" /\ peer'.asked = peer.asked
          /\ peer'.todo = peer.todo /\ peer'.read = peer.read
      BY <2>4, Zenon DEF PeerIs
    <2>8. UpInv'
      BY <1>1, <1>2, <1>6, <2>5, UpFrame
    <2>9. DownInv'
      BY <1>1, <1>2, <1>3, <1>6, <2>5, DownFrame
    <2>10. ClientInv'
      BY <1>6, <2>5 DEF ClientInv
    <2> QED BY <1>1, <1>2, <1>6, <2>5, <2>8, <2>9, <2>10, PeerStep, Zenon
  <1> QED BY <1>4, <1>5, <1>6, Zenon DEF peer_connect

\* An end finishes sending, or resets.
LEMMA HangUpStep ==
    ASSUME ProxyInv, NEW e \in Sides, hang_up(e)
    PROVE  ProxyInv'
  <1>1. peer' = peer /\ srv' = srv /\ copy' = copy
    BY DEF hang_up
  <1>2. SockOK(sock)
    BY DEF ProxyInv, ShapeOK
  <1>3. SameSock(sock, sock')
    BY <1>2, FlagsFlat, Zenon DEF hang_up
  <1> QED BY <1>1, <1>3, Frame

\* The far end sends.
LEMMA FarSendStep ==
    ASSUME ProxyInv, far_send
    PROVE  ProxyInv'
  <1> DEFINE n == sock.up.sent + 1
             i == Append(sock.up.in, Data(sock.up.sent + 1))
  <1>1. /\ peer' = peer /\ srv' = srv /\ copy' = copy
        /\ sock' = [sock EXCEPT !.up.sent = n, !.up.in = i]
    BY DEF far_send
  <1>2. SockOK(sock) /\ UpInv /\ DownInv
    BY DEF ProxyInv, ShapeOK
  <1> HIDE DEF n, i
  <1>3. SockIs(sock', sock.cli.in, sock.cli.out, sock.cli.sent, i, sock.up.out, n)
    BY <1>1, <1>2, StreamFlat, Zenon
  <1>4. /\ SockOK(sock') /\ sock'.cli.in = sock.cli.in /\ sock'.cli.out = sock.cli.out
        /\ sock'.cli.sent = sock.cli.sent /\ sock'.up.in = i
        /\ sock'.up.out = sock.up.out /\ sock'.up.sent = n
    BY <1>3, Zenon DEF SockIs
  <1>5. UpInv'
    BY <1>1, <1>2, <1>4, UpFrame
  <1>6. DownInv'
    BY <1>1, <1>2, <1>4, DownSend DEF n, i
  <1>7. ShapeOK' /\ LabelsOK' /\ AddrInv' /\ ClientInv'
    BY <1>1, <1>4, Zenon DEF ProxyInv, ShapeOK, LabelsOK, AddrInv, ClientInv, Asked
  <1> QED BY <1>5, <1>6, <1>7 DEF ProxyInv

\* The peer sends what it has to say, then its data.
LEMMA PeerSendStep ==
    ASSUME ProxyInv, peer_send
    PROVE  ProxyInv'
  <1>1. peer.at = "ok" /\ srv' = srv /\ copy' = copy
    BY DEF peer_send
  <1>2. PeerOK(peer) /\ SockOK(sock) /\ LabelsOK /\ UpInv /\ DownInv
    BY DEF ProxyInv, ShapeOK
  <1>3. GoesOn(srv.at, srv'.at)
    BY <1>1 DEF GoesOn
  <1>4. CASE /\ peer.todo # << >>
             /\ peer' = [peer EXCEPT !.todo = Tail(@)]
             /\ sock' = [sock EXCEPT !.cli.in = Append(@, Head(peer.todo))]
    <2> DEFINE t == Tail(peer.todo)
               i == Append(sock.cli.in, Head(peer.todo))
    <2>3. peer' = [peer EXCEPT !.todo = t] /\ sock' = [sock EXCEPT !.cli.in = i]
      BY <1>4
    <2> HIDE DEF t, i
    <2>4. PeerIs(peer', peer.is, peer.at, peer.asked, t, peer.read)
      BY <1>2, <2>3, PeerFlat, Zenon
    <2>5. /\ PeerOK(peer') /\ peer'.is = peer.is /\ peer'.at = peer.at /\ peer'.asked = peer.asked
          /\ peer'.todo = t /\ peer'.read = peer.read
      BY <2>4, Zenon DEF PeerIs
    <2>6. SockIs(sock', i, sock.cli.out, sock.cli.sent, sock.up.in, sock.up.out, sock.up.sent)
      BY <1>2, <2>3, StreamFlat, Zenon
    <2>7. /\ SockOK(sock') /\ sock'.cli.in = i /\ sock'.cli.out = sock.cli.out
          /\ sock'.cli.sent = sock.cli.sent /\ sock'.up.in = sock.up.in
          /\ sock'.up.out = sock.up.out /\ sock'.up.sent = sock.up.sent
      BY <2>6, Zenon DEF SockIs
    <2>8. UpInv'
      BY <1>1, <1>2, <1>4, <2>5, <2>7, UpSay, Zenon DEF t, i
    <2>9. DownInv'
      BY <1>1, <1>2, <1>3, <2>5, <2>7, DownFrame, Zenon
    <2>10. ClientInv'
      BY <1>1, <2>5 DEF ProxyInv, ClientInv
    <2> QED BY <1>1, <2>5, <2>7, <2>8, <2>9, <2>10, PeerStep
  <1>5. CASE /\ peer.todo = << >> /\ peer' = peer
             /\ sock' = [sock EXCEPT !.cli.sent = @ + 1, !.cli.in = Append(@, Data(sock.cli.sent + 1))]
    <2> DEFINE n == sock.cli.sent + 1
               i == Append(sock.cli.in, Data(sock.cli.sent + 1))
    <2>3. sock' = [sock EXCEPT !.cli.sent = n, !.cli.in = i]
      BY <1>5
    <2> HIDE DEF n, i
    <2>6. SockIs(sock', i, sock.cli.out, n, sock.up.in, sock.up.out, sock.up.sent)
      BY <1>2, <2>3, StreamFlat, Zenon
    <2>7. /\ SockOK(sock') /\ sock'.cli.in = i /\ sock'.cli.out = sock.cli.out
          /\ sock'.cli.sent = n /\ sock'.up.in = sock.up.in
          /\ sock'.up.out = sock.up.out /\ sock'.up.sent = sock.up.sent
      BY <2>6, Zenon DEF SockIs
    <2>8. UpInv'
      BY <1>1, <1>2, <1>5, <2>7, UpData DEF n, i
    <2>9. DownInv'
      BY <1>1, <1>2, <1>3, <1>5, <2>7, DownFrame, Zenon
    <2>10. ClientInv'
      BY <1>1, <1>5 DEF ProxyInv, ClientInv
    <2> QED BY <1>1, <1>2, <1>5, <2>7, <2>8, <2>9, <2>10, PeerStep, Zenon
  <1> QED BY <1>4, <1>5, Zenon DEF peer_send

\* When SocksClient is told of a success in answer to its request, the handler has
\* told it all it had to say: the success, which it takes whole.
LEMMA ToldSuccess ==
    ASSUME ProxyInv, peer.is = "SocksClient", peer.at = "reply", Unread, IsSuccess(Answered)
    PROVE  /\ Skipped(Answered.bound) = 1 /\ srv.tcp # NoAddress /\ peer.read = 1
           /\ \E a \in Seq(Answers) : \E x, y \in Nat : DownOK(a, x, y) /\ Judged(FALSE, a)
  <1>1. peer.read = 1
    BY DEF ProxyInv, ClientInv
  <1>2. PICK a \in Seq(Answers), x \in Nat, y \in Nat : DownOK(a, x, y)
    BY Zenon DEF ProxyInv, DownInv, Answers
  <1>3. /\ Len(sock.cli.out) = Len(a) + x
        /\ \A i \in 1..Len(a) : sock.cli.out[i] = a[i]
        /\ \A i \in 1..x : sock.cli.out[Len(a) + i] = Data(i)
    BY <1>2, ToldIs, Zenon
  <1>4. Len(a) \in Nat
    OBVIOUS
  <1>5. 1 < Len(sock.cli.out) /\ Answered = sock.cli.out[2]
    BY <1>1 DEF Unread, Answered
  <1>6. /\ a = << >> \/ Greeted(FALSE, a) \/ Judged(FALSE, a)
        /\ x > 0 => Won(FALSE, a)
        /\ Won(FALSE, a) => Connected \/ srv.udp.relay # "none"
    BY <1>2, Zenon DEF DownOK
  <1>7. Judged(FALSE, a)
    <2>1. SUFFICES ASSUME ~Judged(FALSE, a) PROVE FALSE
      BY Zenon
    <2>2. ~(x > 0)
      BY <1>6, <2>1, Zenon DEF Won
    <2>3. a = << >> \/ Len(a) = 1
      BY <1>6, <2>1, Zenon DEF Greeted
    <2> QED BY <1>2, <1>3, <1>5, <2>2, <2>3
  <1>8. Len(a) = 2 /\ a[2] \in Replies
    BY <1>7 DEF Judged
  <1>9. Answered = a[2]
    BY <1>3, <1>5, <1>8
  <1>10. Won(FALSE, a)
    BY <1>7, <1>8, <1>9, Zenon DEF Won
  <1>11. a[2].bound \in Seq(Nat) /\ a[2].code = "Succeeded" /\ a[2].bound # << >>
    BY <1>7, <1>8, <1>9 DEF Judged, Replies, IsSuccess
  <1>12. skip_bound_address(a[2].bound) = Len(a[2].bound)
    BY <1>8, <1>11, Zenon DEF Replies
  <1>13. Skipped(a[2].bound) = 1
    <2> DEFINE m == skip_bound_address(a[2].bound)
               l == Len(a[2].bound)
    <2>1. m = l /\ l \in Nat
      BY <1>11, <1>12
    <2> HIDE DEF m, l
    <2>2. ~(m < l) /\ ~(m > l)
      BY <2>1
    <2>3. (CASE m < l -> 0 [] m = l -> 1 [] m > l -> 2) = 1
      BY <2>1, <2>2, Zenon
    <2> QED BY <2>3, Zenon DEF Skipped, m, l
  <1>14. srv.udp.relay = "none"
    BY DEF ProxyInv, AddrInv
  <1>15. srv.tcp # NoAddress
    <2>1. srv.tcp.addr = peer.asked
      BY <1>6, <1>10, <1>14 DEF Connected, Asked
    <2>2. peer.asked.kind # "none"
      BY ProxyAssumption DEF ProxyInv, LabelsOK, AddrSpec
    <2>3. NoAddress.addr.kind = "none"
      BY DEF NoAddress
    <2> QED BY <2>1, <2>2, <2>3, Zenon
  <1> QED BY <1>1, <1>2, <1>7, <1>9, <1>13, <1>15, Zenon

\* SocksClient takes the answers.
LEMMA ConnectStep ==
    ASSUME ProxyInv, connect
    PROVE  ProxyInv'
  <1>1. peer.is = "SocksClient" /\ srv' = srv /\ copy' = copy
    BY DEF connect
  <1>2. PeerOK(peer) /\ SockOK(sock) /\ LabelsOK /\ UpInv /\ DownInv
    BY DEF ProxyInv, ShapeOK
  <1>3. CASE /\ peer.at = "method"
             /\ peer' = [peer EXCEPT !.at = "reply", !.todo = Tail(@), !.read = @ + 1]
             /\ sock' = [sock EXCEPT !.cli.in = Append(@, Head(peer.todo))]
    <2> DEFINE t == Tail(peer.todo)
               i == Append(sock.cli.in, Head(peer.todo))
               n == peer.read + 1
    <2>1. peer.todo # << >>
      BY <1>1, <1>2, <1>3, YetToSay
    <2>2. n = 1
      BY <1>1, <1>3 DEF ProxyInv, ClientInv
    <2>3. /\ peer' = [peer EXCEPT !.at = "reply", !.todo = t, !.read = n]
          /\ sock' = [sock EXCEPT !.cli.in = i]
      BY <1>3
    <2> HIDE DEF t, i, n
    <2>4. PeerIs(peer', peer.is, "reply", peer.asked, t, n)
      BY <1>2, <2>3, PeerFlat, Zenon
    <2>5. /\ PeerOK(peer') /\ peer'.is = peer.is /\ peer'.at = "reply" /\ peer'.asked = peer.asked
          /\ peer'.todo = t /\ peer'.read = n
      BY <2>4, Zenon DEF PeerIs
    <2>6. SockIs(sock', i, sock.cli.out, sock.cli.sent, sock.up.in, sock.up.out, sock.up.sent)
      BY <1>2, <2>3, StreamFlat, Zenon
    <2>7. /\ SockOK(sock') /\ sock'.cli.in = i /\ sock'.cli.out = sock.cli.out
          /\ sock'.cli.sent = sock.cli.sent /\ sock'.up.in = sock.up.in
          /\ sock'.up.out = sock.up.out /\ sock'.up.sent = sock.up.sent
      BY <2>6, Zenon DEF SockIs
    <2>8. UpInv'
      BY <1>1, <1>2, <2>1, <2>5, <2>7, UpSay, Zenon DEF t, i
    <2>9. DownInv'
      <3>1. GoesOn(srv.at, srv'.at)
        BY <1>1 DEF GoesOn
      <3> QED BY <1>1, <1>2, <2>5, <2>7, <3>1, DownFrame
    <2>10. ClientInv'
      BY <2>2, <2>5 DEF ClientInv
    <2> QED BY <1>1, <2>5, <2>7, <2>8, <2>9, <2>10, PeerStep, Zenon
  <1>4. CASE /\ Unread /\ peer.at = "reply" /\ IsSuccess(Answered)
             /\ peer' = [peer EXCEPT !.at = "ok", !.read = @ + Skipped(Answered.bound)]
             /\ sock' = sock
    <2> DEFINE n == peer.read + Skipped(Answered.bound)
    <2>1. Skipped(Answered.bound) = 1 /\ srv.tcp # NoAddress /\ peer.read = 1
      BY <1>1, <1>4, ToldSuccess, Zenon
    <2>2. PICK a \in Seq(Answers), x \in Nat, y \in Nat : DownOK(a, x, y) /\ Judged(FALSE, a)
      BY <1>1, <1>4, ToldSuccess, Zenon
    <2>3. n = 2
      BY <2>1
    <2>4. peer' = [peer EXCEPT !.at = "ok", !.read = n]
      BY <1>4
    <2> HIDE DEF n
    <2>5. PeerIs(peer', peer.is, "ok", peer.asked, peer.todo, n)
      BY <1>2, <2>4, PeerFlat, Zenon
    <2>6. /\ PeerOK(peer') /\ peer'.is = peer.is /\ peer'.at = "ok" /\ peer'.asked = peer.asked
          /\ peer'.todo = peer.todo /\ peer'.read = n
      BY <2>5, Zenon DEF PeerIs
    <2>7. UpInv'
      BY <1>1, <1>2, <1>4, <2>6, UpFrame
    <2>8. DownInv'
      <3>1. Asked' = Asked
        BY <2>6 DEF Asked
      <3>2. Connected' <=> Connected
        BY <1>1, <3>1 DEF Connected
      <3>3. DownOK(a, x, y)'
        BY <1>1, <1>4, <2>2, <2>6, <3>2, Zenon DEF DownOK
      <3>4. sock'.up.sent \in Nat
        BY <1>2, <1>4 DEF DownInv
      <3> QED BY <3>3, <3>4, Zenon DEF DownInv, Answers
    <2>9. ClientInv'
      BY <1>1, <2>1, <2>3, <2>6 DEF ClientInv
    <2> QED BY <1>1, <1>2, <1>4, <2>6, <2>7, <2>8, <2>9, PeerStep
  <1>5. CASE peer' = Failed /\ sock' = [sock EXCEPT !.cli.eof = TRUE]
    <2>1. "cli" \in Sides /\ sock' = [sock EXCEPT !["cli"].eof = TRUE]
      BY <1>5, Zenon DEF Sides
    <2>2. SameSock(sock, sock')
      BY <1>2, <2>1, FlagsFlat, Zenon
    <2> QED BY <1>1, <1>5, <2>2, FailedStep
  <1> QED BY <1>3, <1>4, <1>5, Zenon DEF connect

\* Nothing has been said yet.
Fresh ==
    /\ peer.is \in Peers /\ peer.asked \in Addrs /\ PeerOK(peer) /\ peer.at = "idle" /\ peer.read = 0
    /\ peer.todo \in Scripts(peer.is, peer.asked)
    /\ srv = NewHandler /\ sock = Socks /\ copy = Copies

\* A new connection.
LEMMA FreshInv == Fresh => ProxyInv
  <1> SUFFICES ASSUME Fresh PROVE ProxyInv
    OBVIOUS
  <1>1. /\ peer.is \in Peers /\ peer.asked \in Addrs /\ PeerOK(peer) /\ peer.at = "idle"
        /\ peer.read = 0 /\ peer.todo \in Scripts(peer.is, peer.asked)
    BY Zenon DEF Fresh
  <1>2. SrvIs(srv, "none", << >>, NoAddress, NoAddress, "none", {})
    BY NewFlat, Zenon DEF Fresh
  <1>3. /\ SrvOK(srv) /\ srv.at = "none" /\ srv.buf = << >> /\ srv.tcp = NoAddress
        /\ srv.udp.relay = "none" /\ srv.udp.forwarded = {}
    BY <1>2, Zenon DEF SrvIs
  <1>4. SockIs(sock, << >>, << >>, 0, << >>, << >>, 0)
    BY NewFlat, Zenon DEF Fresh
  <1>5. /\ SockOK(sock) /\ sock.cli.in = << >> /\ sock.cli.out = << >> /\ sock.cli.sent = 0
        /\ sock.up.in = << >> /\ sock.up.out = << >> /\ sock.up.sent = 0
    BY <1>4, Zenon DEF SockIs
  <1>6. CopyOK(copy) /\ copy.up = Copying /\ copy.down = Copying
    <2>1. copy = Copies
      BY DEF Fresh
    <2> QED BY <2>1 DEF CopyOK, Ways, Copies, Copying
  <1>7. ShapeOK
    BY <1>1, <1>3, <1>5, <1>6, Zenon DEF ShapeOK
  <1>8. LabelsOK
    BY <1>1, <1>3, <1>6 DEF LabelsOK, HttpLabels, SocksLabels, Ways, Copying
  <1>9. UpInv
    <2> DEFINE s == peer.todo
    <2>1. Seg(s, 0, Len(s)) = s /\ Seg(s, 0, 0) = << >> /\ Seg(s, Len(s), Len(s)) = << >>
      BY <1>1, WholeScript
    <2>2. ScriptFacts(peer.is, peer.asked, s)
      BY <1>1, ScriptIs, Zenon
    <2>3. Len(s) \in Nat
      BY <2>2, Zenon DEF ScriptFacts
    <2>4. UpOK(s, 0, 0, Len(s))
      BY <1>1, <1>3, <1>5, <2>1, <2>3 DEF UpOK
    <2>5. 0 \in Nat
      OBVIOUS
    <2> QED BY <1>1, <2>3, <2>4, <2>5, Zenon DEF UpInv
  <1>10. DownInv
    <2> DEFINE e == << >>
    <2>1. Seg(<< >>, 0, 0) = << >>
      BY SegNone
    <2>2. e \in Seq(Methods \cup Replies) /\ e \o << >> = e
      OBVIOUS
    <2>3. ~Won(peer.is = "http", e)
      BY DEF Won, Judged
    <2>4. DownOK(e, 0, 0)
      BY <1>1, <1>3, <1>5, <2>1, <2>2, <2>3 DEF DownOK
    <2>5. sock.up.sent \in Nat /\ 0 \in Nat
      BY <1>5
    <2> HIDE DEF e
    <2> QED BY <2>2, <2>4, <2>5, Zenon DEF DownInv
  <1>11. AddrInv /\ ClientInv
    BY <1>1, <1>3 DEF AddrInv, ClientInv
  <1> QED BY <1>7, <1>8, <1>9, <1>10, <1>11, Zenon DEF ProxyInv

\* The initial states.
LEMMA ProxyInitInv == ProxyInit => ProxyInv
  <1> SUFFICES ASSUME ProxyInit PROVE Fresh
    BY FreshInv
  <1> QED BY DEF ProxyInit, Fresh, PeerOK

\* SocksClient tries again.
LEMMA RetryStep ==
    ASSUME ProxyInv, connect_with_retry
    PROVE  ProxyInv'
  <1>1. PICK s \in Scripts(peer.is, peer.asked) :
            peer' = [peer EXCEPT !.at = "idle", !.attempt = @ + 1, !.todo = s, !.read = 0]
    BY Zenon DEF connect_with_retry
  <1>2. srv' = NewHandler /\ sock' = Socks /\ copy' = Copies
    BY DEF connect_with_retry
  <1>3. PeerOK(peer) /\ peer.is \in Peers /\ peer.asked \in Addrs
    BY DEF ProxyInv, ShapeOK, LabelsOK
  <1>4. PeerIs(peer', peer.is, "idle", peer.asked, s, 0)
    <2>1. PeerIs([peer EXCEPT !.at = "idle", !.attempt = peer.attempt + 1, !.todo = s, !.read = 0],
                 peer.is, "idle", peer.asked, s, 0)
      BY <1>3, PeerFlat, Zenon
    <2> QED BY <1>1, <2>1
  <1>5. Fresh'
    <2>1. /\ PeerOK(peer') /\ peer'.is = peer.is /\ peer'.at = "idle" /\ peer'.asked = peer.asked
          /\ peer'.todo = s /\ peer'.read = 0
      BY <1>4, Zenon DEF PeerIs
    <2> QED BY <1>1, <1>2, <1>3, <2>1, Zenon DEF Fresh
  <1>6. Fresh' => ProxyInv'
    BY FreshInv, PTL
  <1> QED BY <1>5, <1>6

--------------------------------------------------------------------------------
(***************************************************************************)
(* The invariants.                                                         *)
(***************************************************************************)
\* Nothing changes.
LEMMA ProxyStutter ==
    ASSUME ProxyInv, UNCHANGED proxyVars
    PROVE  ProxyInv'
  <1>1. "cli" \in Sides /\ SockOK(sock)
    BY DEF Sides, ProxyInv, ShapeOK
  <1>2. peer' = peer /\ srv' = srv /\ copy' = copy /\ sock' = sock
    BY DEF proxyVars
  <1>3. SameSock(sock, sock')
    BY <1>1, <1>2, FlagsFlat, Zenon
  <1> QED BY <1>2, <1>3, Frame

\* Every step keeps the invariant.
LEMMA ProxyStepInv == ProxyInv /\ [ProxyNext]_proxyVars => ProxyInv'
  <1> SUFFICES ASSUME ProxyInv, [ProxyNext]_proxyVars PROVE ProxyInv'
    OBVIOUS
  <1>1. CASE accept \/ run_stops \/ shutdown
    BY <1>1, AcceptStep, LoopStep
  <1>2. CASE PeerLost \/ negotiate_method \/ read_request \/ to_socket_addr
    BY <1>2, PeerLostStep, NegotiateStep, RequestStep, ResolveStep
  <1>3. CASE handle_http_proxy \/ connect_upstream \/ established \/ early
    BY <1>3, HttpStep, ConnectUpstreamStep, EstablishedStep, EarlyStep
  <1>4. CASE udp_stop \/ relay_done \/ relay_udp
    BY <1>4, UdpStopStep, RelayDoneStep, UdpStep
  <1>5. CASE \E d \in Directions : Copy(d)
    <2>1. Directions = {"up", "down"}
      BY DEF Directions, Copies
    <2>2. Copy("up") \/ Copy("down")
      BY <1>5, <2>1
    <2> QED BY <2>2, CopyUpStep, CopyDownStep
  <1>6. CASE peer_connect \/ connect \/ connect_with_retry
    BY <1>6, PeerConnectStep, ConnectStep, RetryStep
  <1>7. CASE peer_send \/ far_send
    BY <1>7, PeerSendStep, FarSendStep
  <1>8. CASE \E e \in DOMAIN Socks : hang_up(e)
    <2>1. DOMAIN Socks = Sides
      BY DEF Socks, Sides
    <2> QED BY <1>8, <2>1, HangUpStep
  <1>9. CASE UNCHANGED proxyVars
    BY <1>9, ProxyStutter
  <1> QED BY <1>1, <1>2, <1>3, <1>4, <1>5, <1>6, <1>7, <1>8, <1>9, Zenon DEF ProxyNext, Handler

\* A unit of data is no answer.
LEMMA DataIs ==
    \A n : IsData(Data(n)) /\ ~IsReply(Data(n)) /\ ~IsSuccess(Data(n))
  BY DEF Data, IsData, IsReply, IsSuccess

\* The only reply among the answers is the verdict, which is the last of them.
LEMMA VerdictIsLast ==
    ASSUME NEW http \in BOOLEAN, NEW a \in Seq(Answers),
           a = << >> \/ Greeted(http, a) \/ Judged(http, a)
    PROVE  \A i \in 1..Len(a) : ~IsData(a[i]) /\ (IsReply(a[i]) => Judged(http, a) /\ i = Len(a))
  <1> SUFFICES ASSUME NEW i \in 1..Len(a)
               PROVE  ~IsData(a[i]) /\ (IsReply(a[i]) => Judged(http, a) /\ i = Len(a))
    OBVIOUS
  <1>1. a[i] \in Methods \cup Replies
    BY DEF Answers
  <1>2. /\ \A t \in Methods : ~IsData(t) /\ ~IsReply(t)
        /\ \A t \in Replies : ~IsData(t)
    BY OtherAnswers
  <1>3. ~IsData(a[i])
    BY <1>1, <1>2, Zenon
  <1>4. ASSUME IsReply(a[i]) PROVE Judged(http, a) /\ i = Len(a)
    <2>1. a[i] \notin Methods
      BY <1>2, <1>4, Zenon
    <2>2. CASE a = << >>
      BY <2>2
    <2>3. CASE Greeted(http, a)
      BY <2>1, <2>3 DEF Greeted
    <2>4. CASE Judged(http, a)
      <3>1. Len(a) = 1 \/ (Len(a) = 2 /\ a[1] \in Methods)
        BY <2>4, Zenon DEF Judged
      <3>2. i # 1 \/ Len(a) = 1
        BY <2>1, <3>1, Zenon
      <3> DEFINE l == Len(a)
      <3>3. i \in 1..l /\ (l = 1 \/ l = 2) /\ (i # 1 \/ l = 1)
        BY <3>1, <3>2, Zenon
      <3> HIDE DEF l
      <3>4. i = l
        BY <3>3
      <3> QED BY <2>4, <3>4, Zenon DEF l
    <2> QED BY <2>2, <2>3, <2>4
  <1> QED BY <1>3, <1>4

\* The stream from the handler to the peer.
LEMMA ProxyTold ==
    ASSUME ProxyInv
    PROVE  OneVerdictThenData /\ SuccessIsWhatWasAsked /\ ClientStreamIsTunnel
  <1> DEFINE out == sock.cli.out
             http == peer.is = "http"
  <1>1. PICK a \in Seq(Answers), x \in Nat, y \in Nat : DownOK(a, x, y)
    BY Zenon DEF ProxyInv, DownInv, Answers
  <1>2. /\ Len(out) = Len(a) + x
        /\ \A i \in 1..Len(a) : out[i] = a[i]
        /\ \A i \in 1..x : out[Len(a) + i] = Data(i)
    BY <1>1, ToldIs, Zenon
  <1>3. /\ a = << >> \/ Greeted(http, a) \/ Judged(http, a)
        /\ x > 0 => Won(http, a)
        /\ Won(http, a) => Connected \/ srv.udp.relay # "none"
        /\ peer.is = "SocksClient" /\ peer.at = "ok" => Judged(FALSE, a)
    BY <1>1, Zenon DEF DownOK
  <1>4. \A i \in 1..Len(a) : ~IsData(a[i]) /\ (IsReply(a[i]) => Judged(http, a) /\ i = Len(a))
    <2>1. http \in BOOLEAN
      OBVIOUS
    <2> HIDE DEF http
    <2> QED BY <1>3, <2>1, VerdictIsLast, Zenon
  <1> DEFINE k == Len(a)
             l == Len(out)
  <1>5. k \in Nat /\ l = k + x /\ l \in Nat
    BY <1>1, <1>2
  <1>6. \A i \in k + 1..l : out[i] = Data(i - k)
    <2> SUFFICES ASSUME NEW i \in k + 1..l PROVE out[i] = Data(i - k)
      OBVIOUS
    <2> DEFINE j == i - k
    <2>1. j \in 1..x /\ k + j = i
      BY <1>5
    <2> HIDE DEF j
    <2>2. out[k + j] = Data(j)
      BY <1>2, <2>1, Zenon
    <2> QED BY <2>1, <2>2, Zenon DEF j
  <1> HIDE DEF out, http, k, l
  <1>7. OneVerdictThenData
    <2>1. k \in 0..l
      BY <1>1, <1>5
    <2>2. \A i \in 1..k : ~IsData(out[i])
      BY <1>2, <1>4, Zenon DEF k
    <2>3. \A i, j \in 1..k : IsReply(out[i]) /\ IsReply(out[j]) => i = j
      BY <1>2, <1>4, Zenon DEF k
    <2>4. k < l => k > 0 /\ IsSuccess(out[k])
      <3> SUFFICES ASSUME k < l PROVE k > 0 /\ IsSuccess(out[k])
        OBVIOUS
      <3>1. x > 0
        BY <1>1, <1>5
      <3>2. Judged(http, a) /\ IsSuccess(a[k])
        BY <1>3, <3>1, Zenon DEF Won, k
      <3>3. k = 1 \/ k = 2
        BY <3>2, Zenon DEF Judged, k
      <3>4. k > 0 /\ k \in 1..k
        BY <3>3
      <3> QED BY <1>2, <3>2, <3>4, Zenon DEF k
    <2> QED BY <1>6, <2>1, <2>2, <2>3, <2>4, Zenon DEF OneVerdictThenData, out, l
  <1>8. SuccessIsWhatWasAsked
    <2>1. ASSUME NEW i \in DOMAIN out, IsSuccess(out[i])
          PROVE  Connected \/ srv.udp.relay # "none"
      <3>1. DOMAIN out = 1..l
        <4>1. out = a \o Seg(<< >>, 0, x)
          BY <1>1, Zenon DEF DownOK, out
        <4>2. DOMAIN out = 1..Len(out)
          BY <4>1
        <4> QED BY <4>2 DEF l
      <3>2. ~(i \in k + 1..l)
        BY <1>6, <2>1, DataIs, Zenon
      <3>3. i \in 1..k
        BY <1>5, <3>1, <3>2
      <3>4. IsSuccess(a[i]) /\ IsReply(a[i])
        BY <1>2, <2>1, <3>3, Zenon DEF k, IsSuccess
      <3>5. Judged(http, a) /\ i = Len(a)
        BY <1>4, <3>3, <3>4, Zenon DEF k
      <3> QED BY <1>3, <3>4, <3>5, Zenon DEF Won
    <2>2. \A f \in srv.udp.forwarded :
              f.to \in Addrs /\ f.datagram = encode_address(f.to, Port) \o f.payload
      BY Zenon DEF ProxyInv, AddrInv
    <2> QED BY <2>1, <2>2, Zenon DEF SuccessIsWhatWasAsked, Connected, out
  <1>9. ClientStreamIsTunnel
    <2> SUFFICES ASSUME peer.is = "SocksClient", peer.at = "ok"
                 PROVE  srv.tcp # NoAddress /\ \A i \in peer.read + 1..l : IsData(out[i])
      BY Zenon DEF ClientStreamIsTunnel, out, l
    <2>1. peer.read = 2 /\ srv.tcp # NoAddress
      BY DEF ProxyInv, ClientInv
    <2>2. k = 2
      BY <1>3 DEF Judged, k
    <2> QED BY <1>6, <2>1, <2>2, DataIs, Zenon
  <1> QED BY <1>7, <1>8, <1>9

\* The stream from the peer to the far end.
LEMMA ProxyCarried ==
    ASSUME ProxyInv
    PROVE  TunnelCarriesTheStream
  <1>1. PICK s \in Scripts(peer.is, peer.asked), N \in Nat, r \in Nat, x \in Nat :
            UpOK(s, N, r, x) /\ Len(s) \in Nat
    BY UpStream DEF ProxyInv
  <1> DEFINE m == Len(s)
             u == sock.up.out
  <1>2. m <= x /\ u = Seg(s, m, x)
    BY <1>1, Zenon DEF UpOK
  <1>3. SegIs(s, m, x, Seg(s, m, x))
    BY <1>1, <1>2, SegFact, Zenon
  <1>4. Len(u) = x - m
    BY <1>2, <1>3, Zenon DEF SegIs
  <1>5. \A i \in 1..x - m : Tok(s, m + i) = Data(i)
    <2> SUFFICES ASSUME NEW i \in 1..x - m PROVE Tok(s, m + i) = Data(i)
      OBVIOUS
    <2>1. ~(m + i <= m) /\ (m + i) - m = i
      BY <1>1
    <2> QED BY <2>1 DEF Tok
  <1>6. Seg(s, m, x) = Units(x - m)
    BY <1>5 DEF Seg, Units
  <1> QED BY <1>2, <1>4, <1>6, Zenon DEF TunnelCarriesTheStream

\* ProxyInv is an invariant: every buffer of a connection is a segment of the stream
\* it carries (server.rs and client.rs of gravital-socks, server.rs of gravital-http).
THEOREM ProxyInvariant == ProxySpec => []ProxyInv
  <1> QED BY ProxyInitInv, ProxyStepInv, PTL DEF ProxySpec

\* What the far end gets is what the peer sent after its request, from its first unit,
\* in order and once, for every script of a peer and every cut of the stream into reads
\* (the early data of gravital-http's server.rs:125-130, relay_bidirectional).
THEOREM CarriesTheStream == ProxySpec => []TunnelCarriesTheStream
  <1>1. ProxyInv => TunnelCarriesTheStream
    BY ProxyCarried
  <1> QED BY <1>1, ProxyInvariant, PTL

\* A peer gets one verdict at most, then data only, and that only after a success
\* (handle_connect, handle_http_proxy).
THEOREM VerdictThenData == ProxySpec => []OneVerdictThenData
  <1>1. ProxyInv => OneVerdictThenData
    BY ProxyTold
  <1> QED BY <1>1, ProxyInvariant, PTL

\* Whatever address of whatever type a peer asks for, a success means a connection to it;
\* and what an association forwards goes, whole, where each datagram is addressed
\* (encode_address, read_request, parse_host_port, parse_udp_datagram).
THEOREM SuccessIsAsked == ProxySpec => []SuccessIsWhatWasAsked
  <1>1. ProxyInv => SuccessIsWhatWasAsked
    BY ProxyTold
  <1> QED BY <1>1, ProxyInvariant, PTL

\* The stream SocksClient returns starts with the data of the far end, whatever address
\* the proxy is bound to (client.rs:26-75, skip_bound_address).
THEOREM ClientGetsTunnel == ProxySpec => []ClientStreamIsTunnel
  <1>1. ProxyInv => ClientStreamIsTunnel
    BY ProxyTold
  <1> QED BY <1>1, ProxyInvariant, PTL
=================================================================================
