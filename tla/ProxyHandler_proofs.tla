------------------------- MODULE ProxyHandler_proofs -------------------------
(***************************************************************************)
(* One connection through a proxy, for any addresses and ports, any size   *)
(* of a head, any amount of data and any number of attempts: the invariant *)
(* of module Proxies, its two streams, and the steps of the handler from   *)
(* the greeting to the tunnel.                                             *)
(*                                                                         *)
(* What the peer says is one stream: its script, then its data.  Every     *)
(* buffer between the peer and the far end is a segment of that stream,    *)
(* and the segments are adjacent.  The answers of the handler and the data *)
(* of the far end are another stream.                                      *)
(***************************************************************************)
EXTENDS Proxies, TLAPS

\* Time for the steps that are about a whole state.
USE SMTT(30), ZenonT(30)

\* Token i of the stream of a peer with script s, and the tokens after lo, up to hi.
Tok(s, i) == IF i <= Len(s) THEN s[i] ELSE Data(i - Len(s))
Seg(s, lo, hi) == [i \in 1..hi - lo |-> Tok(s, lo + i)]

Sides == {"cli", "up"}
Ways == {"up", "down"}

SockOK(k) ==
    DOMAIN k = Sides /\ \A e \in Sides : DOMAIN k[e] = {"in", "eof", "rst", "out", "shut", "sent"}
SrvOK(v) == DOMAIN v = {"at", "buf", "addr", "tcp", "udp"} /\ DOMAIN v.udp = {"relay", "forwarded"}
PeerOK(p) == DOMAIN p = {"is", "at", "attempt", "asked", "todo", "read"}
CopyOK(c) == DOMAIN c = Ways /\ \A d \in Ways : DOMAIN c[d] = {"at", "data"}

ShapeOK == SockOK(sock) /\ SrvOK(srv) /\ PeerOK(peer) /\ CopyOK(copy)

\* Where a handler can be.
HttpLabels == {"none", "head", "connect", "established", "early", "relay", "done"}
SocksLabels == {"none", "negotiate", "request", "resolve", "connect", "established", "udp",
                "relay", "done"}

LabelsOK ==
    /\ peer.is \in Peers /\ peer.asked \in Addrs
    /\ srv.at \in IF peer.is = "http" THEN HttpLabels ELSE SocksLabels
    /\ peer.at = "idle" => srv.at = "none"
    /\ peer.at \in {"method", "reply"} => peer.is = "SocksClient"
    /\ \A d \in Ways :
        /\ copy[d].at \in {"copying", "done"}
        /\ srv.at \notin {"relay", "done"} => copy[d].at = "copying"
        /\ srv.at # "relay" \/ copy[d].at = "done" => copy[d].data = << >>

\* N tokens of the stream were said and r of them read; the far end has got what is
\* before x.
UpOK(s, N, r, x) ==
    /\ r <= N /\ Len(s) <= x
    /\ peer.todo = Seg(s, N, Len(s))
    /\ sock.cli.sent = (IF N <= Len(s) THEN 0 ELSE N - Len(s))
    /\ sock.cli.in = Seg(s, r, N)
    /\ sock.up.out = Seg(s, Len(s), x)
    /\ peer.at = "idle" => N = 0
    /\ peer.at = "method" => N = 1
    /\ peer.is # "http" \/ srv.at = "none" => srv.buf = << >>
    /\ srv.at \in {"none", "negotiate"} => r = 0
    /\ srv.at = "request" => r = 1
    /\ srv.at = "resolve" => r = 2
    /\ srv.at = "head" => srv.buf = Seg(s, 0, r)
    /\ srv.at \in {"connect", "established", "early"} =>
            Len(s) <= r /\ srv.buf = Seg(s, Len(s), r)
    /\ srv.at \notin {"relay", "done"} => x = Len(s)
    /\ srv.at = "relay" /\ copy.up.at = "copying" => x <= r /\ copy.up.data = Seg(s, x, r)

UpInv == \E s \in Scripts(peer.is, peer.asked) : \E N, r, x \in Nat : UpOK(s, N, r, x)

\* The answers of a handler.
Methods == [is : {"method"}, method : {"NO_AUTH", "USERPASS", "NONE_ACCEPTABLE"}]
Codes == {"Succeeded", "CommandNotSupported", "ConnectionRefused", "TtlExpired", "HostUnreachable",
          "BadGateway", "MethodNotAllowed"}
Replies == {t \in [is : {"reply"}, code : Codes, bound : Seq(Nat)] :
                t.code = "Succeeded" => t.bound = << >> \/ skip_bound_address(t.bound) = Len(t.bound)}

Greeted(http, a) == IF http THEN a = << >> ELSE Len(a) = 1 /\ a[1] \in Methods
Judged(http, a) == IF http THEN Len(a) = 1 /\ a[1] \in Replies
                   ELSE Len(a) = 2 /\ a[1] \in Methods /\ a[2] \in Replies /\ a[2].bound # << >>

Won(http, a) == Judged(http, a) /\ IsSuccess(a[Len(a)])
Connected == srv.tcp.addr = Asked /\ srv.tcp.port = Port

DownOK(a, x, y) ==
    /\ y <= sock.up.sent
    /\ sock.up.in = Seg(<< >>, y, sock.up.sent)
    /\ sock.cli.out = a \o Seg(<< >>, 0, x)
    /\ a = << >> \/ Greeted(peer.is = "http", a) \/ Judged(peer.is = "http", a)
    /\ srv.at \in {"none", "negotiate", "head"} => a = << >>
    /\ srv.at \in {"request", "resolve", "connect", "established"} => Greeted(peer.is = "http", a)
    /\ srv.at \in {"udp", "early", "relay"} => Won(peer.is = "http", a)
    /\ x > 0 => Won(peer.is = "http", a)
    /\ srv.at \notin {"relay", "done"} => x = 0 /\ y = 0
    /\ srv.at = "relay" /\ copy.down.at = "copying" => x <= y /\ copy.down.data = Seg(<< >>, x, y)
    /\ peer.is = "SocksClient" /\ peer.at = "ok" => Judged(FALSE, a)
    /\ Won(peer.is = "http", a) => Connected \/ srv.udp.relay # "none"

DownInv == sock.up.sent \in Nat /\ \E a \in Seq(Methods \cup Replies) : \E x, y \in Nat : DownOK(a, x, y)

AddrInv ==
    /\ srv.at \in {"resolve", "connect", "established", "early", "relay"} =>
            srv.addr.addr = Asked /\ srv.addr.port = Port
    /\ srv.at \in {"established", "early", "relay"} => srv.tcp = srv.addr
    /\ srv.at = "udp" => srv.udp.relay # "none"
    /\ srv.udp.relay # "none" => peer.is = "socks"
    /\ \A f \in srv.udp.forwarded :
          f.to \in Addrs /\ f.datagram = encode_address(f.to, Port) \o f.payload

ClientInv ==
    peer.is = "SocksClient" =>
        /\ peer.at \in {"idle", "method"} => peer.read = 0
        /\ peer.at = "reply" => peer.read = 1
        /\ peer.at = "ok" => peer.read = 2 /\ srv.tcp # NoAddress

ProxyInv == ShapeOK /\ LabelsOK /\ UpInv /\ DownInv /\ AddrInv /\ ClientInv
--------------------------------------------------------------------------------
(***************************************************************************)
(* Segments.                                                               *)
(***************************************************************************)
Toks(s) == {Tok(s, i) : i \in Nat}

\* What there is to know of a segment.
SegIs(s, l, h, u) ==
    /\ u \in Seq(Toks(s)) /\ Len(u) = h - l
    /\ \A i \in 1..h - l : u[i] = Tok(s, l + i)
    /\ (u = << >>) <=> (l = h)

\* A segment is a sequence.
LEMMA SegFact ==
    ASSUME NEW s, NEW l \in Nat, NEW h \in Nat, l <= h
    PROVE  SegIs(s, l, h, Seg(s, l, h))
  <1> DEFINE u == Seg(s, l, h)
  <1>1. u = [i \in 1..h - l |-> Tok(s, l + i)] /\ h - l \in Nat
    BY DEF Seg
  <1>2. \A i \in 1..h - l : Tok(s, l + i) \in Toks(s)
    BY DEF Toks
  <1> HIDE DEF u
  <1>3. u \in Seq(Toks(s)) /\ Len(u) = h - l /\ \A i \in 1..h - l : u[i] = Tok(s, l + i)
    BY <1>1, <1>2
  <1>4. (u = << >>) <=> (l = h)
    BY <1>3
  <1> QED BY <1>3, <1>4 DEF u, SegIs

\* There is nothing after the end.
LEMMA SegNone ==
    ASSUME NEW s, NEW l \in Nat, NEW h \in Nat, h <= l
    PROVE  Seg(s, l, h) = << >>
  <1>1. 1..h - l = {}
    OBVIOUS
  <1> QED BY <1>1 DEF Seg

\* Two sequences with the same elements are the same.
LEMMA SameSeq ==
    ASSUME NEW S, NEW u \in Seq(S), NEW v \in Seq(S), Len(u) = Len(v),
           \A i \in 1..Len(u) : u[i] = v[i]
    PROVE  u = v
  OBVIOUS

\* Adjacent segments join.
LEMMA SegJoin ==
    ASSUME NEW s, NEW l \in Nat, NEW m \in Nat, NEW h \in Nat, l <= m, m <= h
    PROVE  Seg(s, l, m) \o Seg(s, m, h) = Seg(s, l, h)
  <1> DEFINE S == Toks(s)
             t(i) == Tok(s, i)
             a == Seg(s, l, m)
             b == Seg(s, m, h)
             c == Seg(s, l, h)
             w == a \o b
  <1>1. a \in Seq(S) /\ Len(a) = m - l /\ \A i \in 1..m - l : a[i] = t(l + i)
    <2>1. SegIs(s, l, m, a)
      BY SegFact, Zenon
    <2> QED BY <2>1, Zenon DEF SegIs
  <1>2. b \in Seq(S) /\ Len(b) = h - m /\ \A i \in 1..h - m : b[i] = t(m + i)
    <2>1. SegIs(s, m, h, b)
      BY SegFact, Zenon
    <2> QED BY <2>1, Zenon DEF SegIs
  <1>3. c \in Seq(S) /\ Len(c) = h - l /\ \A i \in 1..h - l : c[i] = t(l + i)
    <2>1. l <= h
      OBVIOUS
    <2>2. SegIs(s, l, h, c)
      BY <2>1, SegFact, Zenon
    <2> QED BY <2>2, Zenon DEF SegIs
  <1> HIDE DEF S, a, b, c, t
  <1>4. /\ w \in Seq(S) /\ Len(w) = Len(a) + Len(b)
        /\ \A i \in 1..Len(a) : w[i] = a[i]
        /\ \A i \in 1..Len(b) : w[Len(a) + i] = b[i]
    <2>1. a \in Seq(S) /\ b \in Seq(S)
      BY <1>1, <1>2
    <2>2. w \in Seq(S) /\ Len(w) = Len(a) + Len(b)
      BY <2>1
    <2>3. \A i \in 1..Len(a) : w[i] = a[i]
      BY <2>1
    <2>4. \A i \in 1..Len(b) : w[Len(a) + i] = b[i]
      BY <2>1
    <2> QED BY <2>2, <2>3, <2>4
  <1> HIDE DEF w
  <1>5. \A i \in 1..Len(w) : w[i] = c[i]
    <2> SUFFICES ASSUME NEW i \in 1..Len(w) PROVE w[i] = c[i]
      OBVIOUS
    <2>1. i \in Nat /\ i >= 1 /\ i <= h - l
      BY <1>1, <1>2, <1>4
    <2>2. CASE i <= m - l
      <3>1. i \in 1..m - l /\ i \in 1..h - l /\ i \in 1..Len(a)
        BY <1>1, <2>1, <2>2
      <3> QED BY <1>1, <1>3, <1>4, <3>1, Zenon
    <2>3. CASE i > m - l
      <3> DEFINE j == i - (m - l)
      <3>1. j \in 1..h - m /\ i = Len(a) + j /\ m + j = l + i /\ i \in 1..h - l
        BY <1>1, <2>1, <2>3
      <3> HIDE DEF j
      <3>2. w[i] = b[j]
        BY <1>2, <1>4, <3>1
      <3>3. b[j] = t(l + i) /\ c[i] = t(l + i)
        BY <1>2, <1>3, <3>1
      <3> QED BY <3>2, <3>3
    <2> QED BY <2>1, <2>2, <2>3
  <1>6. Len(w) = Len(c)
    BY <1>1, <1>2, <1>3, <1>4
  <1>7. w = c
    BY <1>3, <1>4, <1>5, <1>6, SameSeq
  <1> QED BY <1>7 DEF w, a, b, c

\* A segment is extended by the next token.
LEMMA SegAppend ==
    ASSUME NEW s, NEW l \in Nat, NEW h \in Nat, l <= h
    PROVE  Append(Seg(s, l, h), Tok(s, h + 1)) = Seg(s, l, h + 1)
  <1> DEFINE S == Toks(s)
             t(i) == Tok(s, i)
             a == Seg(s, l, h)
             c == Seg(s, l, h + 1)
             w == Append(a, t(h + 1))
  <1>1. a \in Seq(S) /\ Len(a) = h - l /\ \A i \in 1..h - l : a[i] = t(l + i)
    <2>1. SegIs(s, l, h, a)
      BY SegFact, Zenon
    <2> QED BY <2>1, Zenon DEF SegIs
  <1>2. c \in Seq(S) /\ Len(c) = h + 1 - l /\ \A i \in 1..h + 1 - l : c[i] = t(l + i)
    <2>1. h + 1 \in Nat /\ l <= h + 1
      OBVIOUS
    <2>2. SegIs(s, l, h + 1, c)
      BY <2>1, SegFact, Zenon
    <2> QED BY <2>2 DEF SegIs
  <1>3. t(h + 1) \in S
    BY DEF Toks
  <1> HIDE DEF S, a, c, t
  <1>4. /\ w \in Seq(S) /\ Len(w) = Len(a) + 1 /\ w[Len(a) + 1] = t(h + 1)
        /\ \A i \in 1..Len(a) : w[i] = a[i]
    BY <1>1, <1>3
  <1> HIDE DEF w
  <1>5. \A i \in 1..Len(w) : w[i] = c[i]
    <2> SUFFICES ASSUME NEW i \in 1..Len(w) PROVE w[i] = c[i]
      OBVIOUS
    <2>1. i \in 1..h + 1 - l
      BY <1>1, <1>4
    <2>2. CASE i = h + 1 - l
      <3>1. i = Len(a) + 1 /\ l + i = h + 1
        BY <1>1, <2>2
      <3> QED BY <1>2, <1>4, <2>1, <3>1
    <2>3. CASE i # h + 1 - l
      <3>1. i \in 1..h - l /\ i \in 1..Len(a)
        BY <1>1, <2>1, <2>3
      <3> QED BY <1>1, <1>2, <1>4, <2>1, <3>1, Zenon
    <2> QED BY <2>2, <2>3
  <1>6. w = c
    BY <1>1, <1>2, <1>4, <1>5, SameSeq
  <1> QED BY <1>6 DEF w, a, c, t

\* A segment is cut in two.
CutIs(s, l, h, k) ==
    /\ SubSeq(Seg(s, l, h), 1, k) = Seg(s, l, l + k)
    /\ SubSeq(Seg(s, l, h), k + 1, Len(Seg(s, l, h))) = Seg(s, l + k, h)

\* A segment is cut in two, anywhere.
LEMMA SegCut ==
    ASSUME NEW s, NEW l \in Nat, NEW h \in Nat, l <= h, NEW k \in 0..h - l
    PROVE  CutIs(s, l, h, k)
  <1> DEFINE S == Toks(s)
             t(i) == Tok(s, i)
             a == Seg(s, l, h)
             b == Seg(s, l, l + k)
             c == Seg(s, l + k, h)
             v == SubSeq(a, 1, k)
             w == SubSeq(a, k + 1, h - l)
  <1>1. a \in Seq(S) /\ Len(a) = h - l /\ \A i \in 1..h - l : a[i] = t(l + i)
    <2>1. SegIs(s, l, h, a)
      BY SegFact, Zenon
    <2> QED BY <2>1, Zenon DEF SegIs
  <1>2. b \in Seq(S) /\ Len(b) = k /\ \A i \in 1..k : b[i] = t(l + i)
    <2>1. l + k \in Nat /\ l <= l + k /\ (l + k) - l = k
      OBVIOUS
    <2>3. SegIs(s, l, l + k, b)
      BY <2>1, SegFact, Zenon
    <2>2. /\ b \in Seq(S) /\ Len(b) = (l + k) - l
          /\ \A i \in 1..(l + k) - l : b[i] = t(l + i)
      BY <2>3, Zenon DEF SegIs
    <2> QED BY <2>1, <2>2, Zenon
  <1>3. c \in Seq(S) /\ Len(c) = h - l - k /\ \A i \in 1..h - l - k : c[i] = t(l + k + i)
    <2>1. l + k \in Nat /\ l + k <= h /\ h - (l + k) = h - l - k
      OBVIOUS
    <2>3. SegIs(s, l + k, h, c)
      BY <2>1, SegFact, Zenon
    <2>2. /\ c \in Seq(S) /\ Len(c) = h - (l + k)
          /\ \A i \in 1..h - (l + k) : c[i] = t(l + k + i)
      BY <2>3, Zenon DEF SegIs
    <2> QED BY <2>1, <2>2, Zenon
  <1> HIDE DEF S, a, b, c, t
  <1>4. v \in Seq(S) /\ Len(v) = k /\ \A i \in 1..k : v[i] = a[i]
    BY <1>1
  <1>5. /\ w \in Seq(S) /\ Len(w) = h - l - k
        /\ \A i \in 1..h - l - k : w[i] = a[k + i]
    BY <1>1
  <1> HIDE DEF v, w
  <1>6. v = b
    <2>1. \A i \in 1..Len(v) : v[i] = b[i]
      <3> SUFFICES ASSUME NEW i \in 1..Len(v) PROVE v[i] = b[i]
        OBVIOUS
      <3>1. i \in 1..k /\ i \in 1..h - l
        BY <1>4
      <3> QED BY <1>1, <1>2, <1>4, <3>1, Zenon
    <2> QED BY <1>2, <1>4, <2>1, SameSeq
  <1>7. w = c
    <2>1. \A i \in 1..Len(w) : w[i] = c[i]
      <3> SUFFICES ASSUME NEW i \in 1..Len(w) PROVE w[i] = c[i]
        OBVIOUS
      <3>1. i \in 1..h - l - k /\ k + i \in 1..h - l /\ l + (k + i) = l + k + i
        BY <1>5
      <3>2. a[k + i] = t(l + (k + i))
        BY <1>1, <3>1
      <3> QED BY <1>3, <1>5, <3>1, <3>2
    <2> QED BY <1>3, <1>5, <2>1, SameSeq
  <1> QED BY <1>1, <1>6, <1>7 DEF a, b, c, v, w, CutIs

\* The first token of a segment, and the others.
LEMMA SegHead ==
    ASSUME NEW s, NEW l \in Nat, NEW h \in Nat, l < h
    PROVE  Head(Seg(s, l, h)) = Tok(s, l + 1) /\ Tail(Seg(s, l, h)) = Seg(s, l + 1, h)
  <1> DEFINE a == Seg(s, l, h)
  <1>1. a \in Seq(Toks(s)) /\ Len(a) = h - l /\ \A i \in 1..h - l : a[i] = Tok(s, l + i)
    <2>1. l <= h
      OBVIOUS
    <2>2. SegIs(s, l, h, a)
      BY <2>1, SegFact, Zenon
    <2> QED BY <2>2, Zenon DEF SegIs
  <1>2. 1 \in 0..h - l /\ 1 \in 1..h - l
    OBVIOUS
  <1>3. SubSeq(a, 1 + 1, Len(a)) = Seg(s, l + 1, h)
    <2>1. l <= h
      OBVIOUS
    <2>2. CutIs(s, l, h, 1)
      BY <1>2, <2>1, SegCut, Zenon
    <2> QED BY <2>2, Zenon DEF CutIs
  <1>4. a[1] = Tok(s, l + 1)
    BY <1>1, <1>2
  <1> HIDE DEF a
  <1>5. Head(a) = a[1] /\ Tail(a) = SubSeq(a, 1 + 1, Len(a))
    BY <1>1, <1>2
  <1> QED BY <1>3, <1>4, <1>5 DEF a
--------------------------------------------------------------------------------
(***************************************************************************)
(* The records, field by field.                                            *)
(***************************************************************************)
SockIs(m, ci, co, cs, ui, uo, us) ==
    /\ SockOK(m)
    /\ m.cli.in = ci /\ m.cli.out = co /\ m.cli.sent = cs
    /\ m.up.in = ui /\ m.up.out = uo /\ m.up.sent = us
SameSock(k, m) ==
    SockIs(m, k.cli.in, k.cli.out, k.cli.sent, k.up.in, k.up.out, k.up.sent)
SrvIs(m, at, buf, addr, tcp, relay, forwarded) ==
    /\ SrvOK(m)
    /\ m.at = at /\ m.buf = buf /\ m.addr = addr /\ m.tcp = tcp
    /\ m.udp.relay = relay /\ m.udp.forwarded = forwarded
SrvAt(v, m, at) == SrvIs(m, at, v.buf, v.addr, v.tcp, v.udp.relay, v.udp.forwarded)
PeerIs(m, is, at, asked, todo, read) ==
    /\ PeerOK(m)
    /\ m.is = is /\ m.at = at /\ m.asked = asked /\ m.todo = todo /\ m.read = read

\* Closing a connection, its end and its reset leave the streams as they are.
LEMMA FlagsFlat ==
    ASSUME NEW k, SockOK(k), NEW e \in Sides
    PROVE  /\ SameSock(k, k)
           /\ SameSock(k, [k EXCEPT ![e].shut = TRUE])
           /\ SameSock(k, [k EXCEPT ![e].eof = TRUE])
           /\ SameSock(k, [k EXCEPT ![e].rst = TRUE])
  BY DEF SameSock, SockIs, SockOK, Sides

\* Closing both.
LEMMA ClosedFlat ==
    ASSUME NEW k, SockOK(k)
    PROVE  SameSock(k, Closed(k))
  BY DEF SameSock, SockIs, SockOK, Sides, Closed

\* What is read and what is written.
LEMMA StreamFlat ==
    ASSUME NEW k, SockOK(k), NEW v, NEW w
    PROVE  /\ SockIs([k EXCEPT !.cli.in = v], v, k.cli.out, k.cli.sent, k.up.in, k.up.out, k.up.sent)
           /\ SockIs([k EXCEPT !.up.in = v], k.cli.in, k.cli.out, k.cli.sent, v, k.up.out, k.up.sent)
           /\ SockIs([k EXCEPT !.cli.out = v], k.cli.in, v, k.cli.sent, k.up.in, k.up.out, k.up.sent)
           /\ SockIs([k EXCEPT !.up.out = v], k.cli.in, k.cli.out, k.cli.sent, k.up.in, v, k.up.sent)
           /\ SockIs([k EXCEPT !.cli.sent = v, !.cli.in = w], w, k.cli.out, v, k.up.in, k.up.out, k.up.sent)
           /\ SockIs([k EXCEPT !.up.sent = v, !.up.in = w], k.cli.in, k.cli.out, k.cli.sent, w, k.up.out, v)
  BY Zenon DEF SockIs, SockOK, Sides

\* The handler.
LEMMA SrvFlat ==
    ASSUME NEW v, SrvOK(v), NEW a, NEW b, NEW c
    PROVE  /\ SrvAt(v, v, v.at)
           /\ SrvAt(v, [v EXCEPT !.at = a], a)
           /\ SrvIs([v EXCEPT !.at = a, !.udp.relay = b], a, v.buf, v.addr, v.tcp, b, v.udp.forwarded)
           /\ SrvIs([v EXCEPT !.at = a, !.addr = b], a, v.buf, b, v.tcp, v.udp.relay, v.udp.forwarded)
           /\ SrvIs([v EXCEPT !.at = a, !.tcp = b], a, v.buf, v.addr, b, v.udp.relay, v.udp.forwarded)
           /\ SrvIs([v EXCEPT !.buf = b], v.at, b, v.addr, v.tcp, v.udp.relay, v.udp.forwarded)
           /\ SrvIs([v EXCEPT !.at = a, !.addr = b, !.buf = c], a, c, b, v.tcp, v.udp.relay, v.udp.forwarded)
           /\ SrvIs([v EXCEPT !.udp.relay = b], v.at, v.buf, v.addr, v.tcp, b, v.udp.forwarded)
           /\ SrvIs([v EXCEPT !.udp.forwarded = b], v.at, v.buf, v.addr, v.tcp, v.udp.relay, b)
  BY DEF SrvAt, SrvIs, SrvOK

\* A new handler.
LEMMA NewFlat ==
    ASSUME NEW a
    PROVE  /\ SrvIs(NewHandler, "none", << >>, NoAddress, NoAddress, "none", {})
           /\ SrvIs([NewHandler EXCEPT !.at = a], a, << >>, NoAddress, NoAddress, "none", {})
           /\ SockIs(Socks, << >>, << >>, 0, << >>, << >>, 0)
           /\ CopyOK(Copies) /\ Copies.up = Copying /\ Copies.down = Copying
  BY DEF NewHandler, SrvIs, SrvOK, SockIs, SockOK, Sides, Socks, NewSock, Copies, CopyOK, Ways, Copying

\* The peer.
LEMMA PeerFlat ==
    ASSUME NEW p, PeerOK(p), NEW a, NEW b, NEW c, NEW d
    PROVE  /\ PeerIs(p, p.is, p.at, p.asked, p.todo, p.read)
           /\ PeerIs([p EXCEPT !.at = a], p.is, a, p.asked, p.todo, p.read)
           /\ PeerIs([p EXCEPT !.at = a, !.todo = b], p.is, a, p.asked, b, p.read)
           /\ PeerIs([p EXCEPT !.todo = b], p.is, p.at, p.asked, b, p.read)
           /\ PeerIs([p EXCEPT !.at = a, !.todo = b, !.read = c], p.is, a, p.asked, b, c)
           /\ PeerIs([p EXCEPT !.at = a, !.read = c], p.is, a, p.asked, p.todo, c)
           /\ PeerIs([p EXCEPT !.at = a, !.attempt = d, !.todo = b, !.read = c], p.is, a, p.asked, b, c)
  BY DEF PeerIs, PeerOK

\* The copies after a change of one of them.
OthersKept(m, c, d) == CopyOK(m) /\ \A e \in Ways : e # d => m[e] = c[e]
CopyHolds(m, c, d, v) == OthersKept(m, c, d) /\ m[d].at = c[d].at /\ m[d].data = v
CopyBecomes(m, c, d, v) == OthersKept(m, c, d) /\ m[d] = v

\* What a copy holds changes, or the whole of it.
LEMMA CopyFlat ==
    ASSUME NEW c, CopyOK(c), NEW d \in Ways, NEW v, NEW w
    PROVE  /\ CopyHolds([c EXCEPT ![d].data = v], c, d, v)
           /\ DOMAIN w = {"at", "data"} => CopyBecomes([c EXCEPT ![d] = w], c, d, w)
  BY DEF CopyOK, Ways, CopyHolds, CopyBecomes, OthersKept
--------------------------------------------------------------------------------
(***************************************************************************)
(* Addresses on the wire.                                                  *)
(***************************************************************************)
Header(a) == CASE a.kind = "Ipv4" -> <<1>>
               [] a.kind = "Ipv6" -> <<4>>
               [] a.kind = "Domain" -> <<3, Len(a.octets) % 256>>

\* b has n elements, then the octets o, then the port p.
Layout(b, n, o, p) ==
    /\ Len(b) >= n + Len(o) + 2
    /\ \A i \in 1..Len(o) : b[n + i] = o[i]
    /\ b[n + Len(o) + 1] = p \div 256 /\ b[n + Len(o) + 2] = p % 256

\* w is u, then v.
JoinIs(S, u, v, w) ==
    /\ w \in Seq(S) /\ Len(w) = Len(u) + Len(v)
    /\ \A i \in 1..Len(u) : w[i] = u[i]
    /\ \A i \in 1..Len(v) : w[Len(u) + i] = v[i]

\* What there is to know of a concatenation.
LEMMA JoinFact ==
    ASSUME NEW S, NEW u \in Seq(S), NEW v \in Seq(S)
    PROVE  JoinIs(S, u, v, u \o v)
  <1>1. u \o v \in Seq(S) /\ Len(u \o v) = Len(u) + Len(v)
    OBVIOUS
  <1>2. \A i \in 1..Len(u) : (u \o v)[i] = u[i]
    OBVIOUS
  <1>3. \A i \in 1..Len(v) : (u \o v)[Len(u) + i] = v[i]
    OBVIOUS
  <1> QED BY <1>1, <1>2, <1>3, Zenon DEF JoinIs

PartsIs(h, o, t, q, w, b) ==
    /\ w \in Seq(Nat) /\ Len(w) = Len(h) + Len(o) + Len(t)
    /\ b \in Seq(Nat) /\ Len(b) = Len(w) + Len(q)
    /\ \A i \in 1..Len(h) : b[i] = h[i] /\ w[i] = h[i]
    /\ \A i \in 1..Len(o) : b[Len(h) + i] = o[i]
    /\ \A i \in 1..Len(t) : b[Len(h) + Len(o) + i] = t[i]

\* The three parts of an address on the wire.
LEMMA Parts ==
    ASSUME NEW h \in Seq(Nat), NEW o \in Seq(Nat), NEW t \in Seq(Nat), NEW q \in Seq(Nat)
    PROVE  PartsIs(h, o, t, q, h \o o \o t, h \o o \o t \o q)
  <1> DEFINE v == h \o o
             w == v \o t
             b == w \o q
  <1>1. JoinIs(Nat, h, o, v)
    BY JoinFact, Zenon
  <1> HIDE DEF v
  <1>2. JoinIs(Nat, v, t, w)
    <2>1. v \in Seq(Nat)
      BY <1>1, Zenon DEF JoinIs
    <2> QED BY <2>1, JoinFact, Zenon
  <1> HIDE DEF w
  <1>3. JoinIs(Nat, w, q, b)
    <2>1. w \in Seq(Nat)
      BY <1>2, Zenon DEF JoinIs
    <2> QED BY <2>1, JoinFact, Zenon
  <1> HIDE DEF b
  <1> USE DEF JoinIs
  <1>4. \A i \in 1..Len(h) : b[i] = h[i] /\ w[i] = h[i]
    <2> SUFFICES ASSUME NEW i \in 1..Len(h) PROVE b[i] = h[i] /\ w[i] = h[i]
      OBVIOUS
    <2>1. i \in 1..Len(v) /\ i \in 1..Len(w)
      BY <1>1, <1>2
    <2> QED BY <1>1, <1>2, <1>3, <2>1, Zenon
  <1>5. \A i \in 1..Len(o) : b[Len(h) + i] = o[i]
    <2> SUFFICES ASSUME NEW i \in 1..Len(o) PROVE b[Len(h) + i] = o[i]
      OBVIOUS
    <2> DEFINE j == Len(h) + i
    <2>1. Len(v) = Len(h) + Len(o) /\ Len(w) = Len(v) + Len(t)
      BY <1>1, <1>2, Zenon
    <2>4. j \in 1..Len(v) /\ j \in 1..Len(w)
      <3> HIDE DEF JoinIs
      <3> QED BY <2>1
    <2>2. v[j] = o[i]
      BY <1>1, Zenon
    <2> HIDE DEF j
    <2>3. b[j] = v[j]
      BY <1>2, <1>3, <2>4, Zenon
    <2> QED BY <2>2, <2>3, Zenon DEF j
  <1>6. \A i \in 1..Len(t) : b[Len(h) + Len(o) + i] = t[i]
    <2> SUFFICES ASSUME NEW i \in 1..Len(t) PROVE b[Len(h) + Len(o) + i] = t[i]
      OBVIOUS
    <2> DEFINE j == Len(v) + i
    <2>1. j \in 1..Len(w) /\ Len(h) + Len(o) + i = j
      BY <1>1, <1>2
    <2>2. w[j] = t[i]
      BY <1>2, Zenon
    <2> HIDE DEF j
    <2>3. b[j] = w[j]
      BY <1>3, <2>1, Zenon
    <2> QED BY <2>1, <2>2, <2>3, Zenon
  <1>7. Len(w) = Len(h) + Len(o) + Len(t)
    BY <1>1, <1>2, Zenon
  <1>8. PartsIs(h, o, t, q, w, b)
    BY <1>2, <1>3, <1>4, <1>5, <1>6, <1>7, Zenon DEF PartsIs
  <1> QED BY <1>8 DEF b, w, v

EncodedIs(a, p, q, e, b) ==
    /\ e \in Seq(Nat) /\ Len(e) = Len(Header(a)) + Len(a.octets) + 2 /\ e[1] = Header(a)[1]
    /\ b \in Seq(Nat) /\ Len(b) = Len(e) + Len(q)
    /\ \A i \in 1..Len(Header(a)) : b[i] = Header(a)[i]
    /\ Layout(b, Len(Header(a)), a.octets, p)

\* An address has fewer than 256 octets, whatever its kind.
LEMMA AddrShape ==
    ASSUME NEW a \in AddrSpec
    PROVE  /\ a.kind \in {"Ipv4", "Ipv6", "Domain"} /\ a.octets \in Seq(Octet)
           /\ Len(a.octets) \in Nat /\ Len(a.octets) < 256
           /\ a = [kind |-> a.kind, octets |-> a.octets]
           /\ a.kind = "Ipv4" => Len(a.octets) = 4
           /\ a.kind = "Ipv6" => Len(a.octets) = 16
  <1>1. /\ a \in [kind : {"Ipv4", "Ipv6", "Domain"}, octets : Seq(Octet)]
        /\ a.kind = "Ipv4" => Len(a.octets) = 4
        /\ a.kind = "Ipv6" => Len(a.octets) = 16
        /\ a.kind = "Domain" => Len(a.octets) < 256
    BY Zenon DEF AddrSpec
  <1>2. /\ a.kind \in {"Ipv4", "Ipv6", "Domain"} /\ a.octets \in Seq(Octet)
        /\ a = [kind |-> a.kind, octets |-> a.octets]
    BY <1>1
  <1> DEFINE o == a.octets
  <1>3. Len(o) \in Nat
    BY <1>2
  <1>4. Len(o) < 256
    <2>1. \A n : n = 4 \/ n = 16 => n < 256
      OBVIOUS
    <2>2. Len(o) = 4 \/ Len(o) = 16 \/ Len(o) < 256
      BY <1>1, <1>2, Zenon
    <2> QED BY <2>1, <2>2, Zenon
  <1> QED BY <1>1, <1>2, <1>3, <1>4, Zenon

\* What encode_address writes.
LEMMA Encoded ==
    ASSUME NEW a \in AddrSpec, NEW p \in Nat, NEW q \in Seq(Nat)
    PROVE  EncodedIs(a, p, q, encode_address(a, p), encode_address(a, p) \o q)
  <1> DEFINE e == encode_address(a, p)
             h == Header(a)
             o == a.octets
             t == to_be_bytes(p)
             b == e \o q
  <1>1. a.kind \in {"Ipv4", "Ipv6", "Domain"} /\ o \in Seq(Octet) /\ Len(o) < 256 /\ Len(o) \in Nat
    BY AddrShape, Zenon
  <1>2. o \in Seq(Nat)
    BY <1>1 DEF Octet
  <1>3. h \in Seq(Nat) /\ Len(h) >= 1
    <2> HIDE DEF o
    <2> DEFINE n == Len(o) % 256
    <2>1. n \in Nat
      BY <1>1
    <2>2. h = <<1>> \/ h = <<4>> \/ h = <<3, n>>
      BY <1>1, Zenon DEF o, Header
    <2> HIDE DEF h, n
    <2>3. <<3, n>> \in Seq(Nat) /\ Len(<<3, n>>) = 2
      BY <2>1
    <2>4. <<1>> \in Seq(Nat) /\ Len(<<1>>) = 1 /\ <<4>> \in Seq(Nat) /\ Len(<<4>>) = 1
      OBVIOUS
    <2>5. h \in Seq(Nat)
      BY <2>2, <2>3, <2>4, Zenon
    <2>6. Len(h) = 1 \/ Len(h) = 2
      BY <2>2, <2>3, <2>4, Zenon
    <2>7. \A m : m = 1 \/ m = 2 => m >= 1
      OBVIOUS
    <2> QED BY <2>5, <2>6, <2>7, Zenon
  <1>4. t \in Seq(Nat) /\ Len(t) = 2 /\ t[1] = p \div 256 /\ t[2] = p % 256
    BY DEF to_be_bytes
  <1>5. e = h \o o \o t
    <2>1. CASE a.kind = "Ipv4"
      BY <2>1, Zenon DEF encode_address, Header
    <2>2. CASE a.kind = "Ipv6"
      BY <2>2, Zenon DEF encode_address, Header
    <2>3. CASE a.kind = "Domain"
      BY <2>3, Zenon DEF encode_address, Header
    <2> QED BY <1>1, <2>1, <2>2, <2>3, Zenon
  <1> HIDE DEF e, h, o, t
  <1>6. PartsIs(h, o, t, q, e, b)
    <2>1. h \in Seq(Nat) /\ o \in Seq(Nat) /\ t \in Seq(Nat)
      BY <1>2, <1>3, <1>4
    <2> QED BY <2>1, <1>5, Parts, Zenon
  <1> HIDE DEF b
  <1>7. Layout(b, Len(h), o, p)
    <2>1. 1 \in 1..Len(t) /\ 2 \in 1..Len(t)
      BY <1>4
    <2>2. Len(b) >= Len(h) + Len(o) + 2
      BY <1>3, <1>4, <1>6, <1>1 DEF PartsIs
    <2>3. b[Len(h) + Len(o) + 1] = p \div 256 /\ b[Len(h) + Len(o) + 2] = p % 256
      BY <1>4, <1>6, <2>1, Zenon DEF PartsIs
    <2> QED BY <1>6, <2>2, <2>3, Zenon DEF Layout, PartsIs
  <1>8. e[1] = h[1]
    <2>1. 1 \in 1..Len(h)
      BY <1>3
    <2> QED BY <2>1, <1>6, Zenon DEF PartsIs
  <1>9. Len(e) = Len(h) + Len(o) + 2
    BY <1>4, <1>6, Zenon DEF PartsIs
  <1>10. EncodedIs(a, p, q, e, b)
    BY <1>6, <1>7, <1>8, <1>9, Zenon DEF EncodedIs, PartsIs, h, o
  <1> QED BY <1>10 DEF b, e

\* What read_address takes from an address on the wire is the address.
LEMMA ReadBack ==
    ASSUME NEW a \in AddrSpec, NEW q \in Seq(Nat)
    PROVE  /\ read_address(encode_address(a, Port) \o q) =
                [addr |-> a, port |-> Port, used |-> Len(encode_address(a, Port))]
           /\ read_address(encode_address(a, Port)) =
                [addr |-> a, port |-> Port, used |-> Len(encode_address(a, Port))]
  <1> DEFINE e == encode_address(a, Port)
             h == Header(a)
             o == a.octets
  <1>1. /\ a.kind \in {"Ipv4", "Ipv6", "Domain"} /\ o \in Seq(Octet) /\ Len(o) < 256 /\ Len(o) \in Nat
        /\ a = [kind |-> a.kind, octets |-> o]
        /\ a.kind = "Ipv4" => Len(o) = 4
        /\ a.kind = "Ipv6" => Len(o) = 16
    BY AddrShape, Zenon
  <1>2. o \in Seq(Nat) /\ Port \in Nat
    BY <1>1, ProxyAssumption DEF Octet
  <1> HIDE DEF e, o
  <1>3. Len(o) % 256 = Len(o)
    <2>1. \A l \in Nat : l < 256 => l % 256 = l
      OBVIOUS
    <2> QED BY <1>1, <2>1, Zenon
  <1>4. ASSUME NEW r \in Seq(Nat)
        PROVE  read_address(e \o r) = [addr |-> a, port |-> Port, used |-> Len(e)]
    <2> DEFINE b == e \o r
    <2>1. EncodedIs(a, Port, r, e, b)
      BY <1>2, Encoded, Zenon DEF e
    <2> HIDE DEF b, h
    <2>2. /\ b \in Seq(Nat) /\ Len(b) = Len(e) + Len(r) /\ Len(e) = Len(h) + Len(o) + 2
          /\ \A i \in 1..Len(h) : b[i] = h[i]
          /\ Layout(b, Len(h), o, Port)
      BY <2>1, Zenon DEF EncodedIs, h, o
    <2>3. /\ Form(b) = [kind |-> a.kind, from |-> Len(h) + 1, len |-> Len(o)]
          /\ Len(h) \in Nat
      <3>1. CASE a.kind = "Ipv4"
        <4>1. h = <<1>>
          BY <3>1, Zenon DEF h, Header
        <4>2. Len(h) = 1 /\ h[1] = 1 /\ 1 \in 1..1
          BY <4>1
        <4>3. b[1] = 1
          BY <2>2, <4>2, Zenon
        <4>4. Form(b) = [kind |-> "Ipv4", from |-> 2, len |-> 4]
          BY <4>3 DEF Form
        <4>5. Len(o) = 4 /\ Len(h) + 1 = 2
          BY <1>1, <3>1, <4>2
        <4>6. Len(h) \in Nat
          BY <4>2
        <4> QED BY <3>1, <4>4, <4>5, <4>6, Zenon
      <3>2. CASE a.kind = "Ipv6"
        <4>1. h = <<4>>
          BY <3>2, Zenon DEF h, Header
        <4>2. Len(h) = 1 /\ h[1] = 4 /\ 1 \in 1..1
          BY <4>1
        <4>3. b[1] = 4
          BY <2>2, <4>2, Zenon
        <4>4. Form(b) = [kind |-> "Ipv6", from |-> 2, len |-> 16]
          BY <4>3 DEF Form
        <4>5. Len(o) = 16 /\ Len(h) + 1 = 2
          BY <1>1, <3>2, <4>2
        <4>6. Len(h) \in Nat
          BY <4>2
        <4> QED BY <3>2, <4>4, <4>5, <4>6, Zenon
      <3>3. CASE a.kind = "Domain"
        <4>1. h = <<3, Len(o)>>
          BY <1>3, <3>3, Zenon DEF h, Header, o
        <4>2. Len(h) = 2 /\ h[1] = 3 /\ h[2] = Len(o) /\ 1 \in 1..2 /\ 2 \in 1..2
          BY <4>1
        <4>3. b[1] = 3 /\ b[2] = Len(o)
          BY <2>2, <4>2, Zenon
        <4>4. Len(b) > 1
          BY <1>1, <2>2, <4>2
        <4>5. Form(b) = [kind |-> "Domain", from |-> 3, len |-> Len(o)]
          BY <4>3, <4>4 DEF Form
        <4> QED BY <1>1, <3>3, <4>2, <4>5
      <3> QED BY <1>1, <3>1, <3>2, <3>3, Zenon
    <2> DEFINE n == Len(h)
               at == n + 1 + Len(o)
    <2>4. n \in Nat /\ at \in Nat /\ Len(b) >= at + 1 /\ at = n + Len(o) + 1 /\ at + 1 = n + Len(o) + 2
      BY <1>1, <2>2, <2>3
    <2>5. SubSeq(b, n + 1, at - 1) = o
      <3> DEFINE v == SubSeq(b, n + 1, at - 1)
      <3>1. v \in Seq(Nat) /\ Len(v) = Len(o) /\ \A i \in 1..Len(o) : v[i] = b[n + i]
        <4> DEFINE l == Len(o)
                   m == Len(b)
                   k == at - 1
        <4>1. l \in Nat /\ k = n + l /\ k <= m /\ n \in Nat /\ m \in Nat
          BY <1>1, <2>2, <2>4
        <4> HIDE DEF l, k, n, at
        <4>2. SubSeq(b, n + 1, k) \in Seq(Nat) /\ Len(SubSeq(b, n + 1, k)) = l
          BY <2>2, <4>1
        <4>3. \A i \in 1..l : SubSeq(b, n + 1, k)[i] = b[n + i]
          BY <2>2, <4>1
        <4> QED BY <4>2, <4>3, Zenon DEF k, l
      <3> HIDE DEF v
      <3>2. \A i \in 1..Len(v) : v[i] = o[i]
        BY <2>2, <3>1, Zenon DEF Layout
      <3>3. v = o
        BY <1>2, <3>1, <3>2, SameSeq
      <3> QED BY <3>3 DEF v
    <2>6. b[at] = Port \div 256 /\ b[at + 1] = Port % 256
      BY <2>2, <2>4, Zenon DEF Layout
    <2> HIDE DEF n, at
    <2>7. (Port \div 256) * 256 + (Port % 256) = Port
      BY ProxyAssumption
    <2>8. b[at] * 256 + b[at + 1] = Port
      BY <2>6, <2>7, ZenonT(30)
    <2>9. ~(Len(b) < at + 1) /\ Form(b).kind # "none" /\ at + 1 = Len(e)
      BY <1>1, <2>2, <2>3, <2>4 DEF n
    <2>10. Form(b).from = n + 1 /\ Form(b).len = Len(o) /\ Form(b).kind = a.kind
      BY <2>3 DEF n
    <2>11. read_address(b) = [addr |-> [kind |-> a.kind, octets |-> o], port |-> Port, used |-> at + 1]
      BY <2>5, <2>8, <2>9, <2>10, Zenon DEF read_address, at
    <2> QED BY <1>1, <2>9, <2>11, Zenon DEF b
  <1>5. e \in Seq(Nat)
    <2>1. EncodedIs(a, Port, q, e, e \o q)
      BY <1>2, Encoded, Zenon DEF e
    <2> QED BY <2>1, Zenon DEF EncodedIs
  <1>6. << >> \in Seq(Nat) /\ e \o << >> = e
    BY <1>5
  <1> QED BY <1>4, <1>6, Zenon DEF e

\* An address of an unknown type is none.
LEMMA ReadUnsupported == read_address(Unsupported) = NoAddress
  <1>1. Unsupported[1] = 9 /\ Len(Unsupported) = 1
    BY DEF Unsupported
  <1>2. Form(Unsupported).kind = "none"
    BY <1>1 DEF Form
  <1> QED BY <1>2, Zenon DEF read_address

\* The last colon is the one after which there is no other.
LEMMA LastColon ==
    ASSUME NEW v \in Seq(Int)
    PROVE  /\ (\A i \in DOMAIN v : v[i] # COLON) => rfind(v) = 0
           /\ \A m \in DOMAIN v :
                 v[m] = COLON /\ (\A i \in DOMAIN v : v[i] = COLON => i <= m) => rfind(v) = m
  <1> DEFINE S == {i \in DOMAIN v : v[i] = COLON}
  <1>1. (\A i \in DOMAIN v : v[i] # COLON) => rfind(v) = 0
    BY Zenon DEF rfind
  <1>2. ASSUME NEW m \in DOMAIN v, v[m] = COLON, \A i \in DOMAIN v : v[i] = COLON => i <= m
        PROVE  rfind(v) = m
    <2> DEFINE M == CHOOSE i \in S : \A j \in S : j <= i
    <2>1. m \in S /\ \A j \in S : j <= m
      BY <1>2
    <2>2. M \in S /\ \A j \in S : j <= M
      BY <2>1, Zenon
    <2>3. S \subseteq Int
      OBVIOUS
    <2>4. rfind(v) = M
      BY <2>1, Zenon DEF rfind
    <2> HIDE DEF S, M
    <2>5. M = m
      BY <2>1, <2>2, <2>3
    <2> QED BY <2>4, <2>5
  <1> QED BY <1>1, <1>2, Zenon

\* A host with no port has no port; with one, what precedes it is the host.
LEMMA HostPort ==
    ASSUME NEW a \in AddrSpec
    PROVE  /\ parse_host_port(Host(a)) = NoAddress
           /\ parse_host_port(Host(a) \o <<COLON, Port>>) =
                [addr |-> [kind |-> "host", octets |-> Host(a)], port |-> Port, used |-> 0]
  <1> DEFINE o == a.octets
             u == Host(a)
             c == <<COLON, Port>>
             w == u \o c
  <1>1. /\ o \in Seq(Octet) /\ Len(o) \in Nat /\ (a.kind = "Ipv6" => Len(o) = 16)
    BY DEF AddrSpec
  <1>2. o \in Seq(Int) /\ \A i \in 1..Len(o) : o[i] # COLON
    BY <1>1 DEF Octet, COLON
  <1>3. Port \in Int /\ Port # COLON /\ COLON \in Int
    BY ProxyAssumption DEF COLON
  <1> HIDE DEF o
  <1>4. u \in Seq(Int) /\ parse_host_port(u) = NoAddress
    <2>1. CASE a.kind # "Ipv6"
      <3>1. u = o
        <4>1. u = << >> \o o
          BY <2>1, Zenon DEF Host, o
        <4> HIDE DEF u
        <4> QED BY <4>1, <1>2
      <3> HIDE DEF u
      <3>2. DOMAIN u = 1..Len(o)
        BY <1>2, <3>1
      <3>3. rfind(u) = 0
        BY <1>2, <3>1, <3>2, LastColon, Zenon
      <3> QED BY <1>2, <3>1, <3>3, Zenon DEF parse_host_port
    <2>2. CASE a.kind = "Ipv6"
      <3> DEFINE d == <<COLON>>
      <3>1. u = d \o o
        BY <2>2, Zenon DEF Host, o
      <3> HIDE DEF u, d
      <3>2. d \in Seq(Int) /\ Len(d) = 1 /\ d[1] = COLON
        BY <1>3 DEF d
      <3>3. JoinIs(Int, d, o, u)
        BY <1>2, <3>1, <3>2, JoinFact, Zenon
      <3>4. u \in Seq(Int) /\ Len(u) = 17 /\ u[1] = COLON
        <4>1. 1 \in 1..1 /\ 1 + 16 = 17
          OBVIOUS
        <4> QED BY <1>1, <2>2, <3>2, <3>3, <4>1, Zenon DEF JoinIs
      <3>5. \A i \in DOMAIN u : u[i] = COLON => i <= 1
        <4> SUFFICES ASSUME NEW i \in DOMAIN u, i # 1 PROVE u[i] # COLON
          BY <3>4
        <4> DEFINE j == i - 1
        <4>1. DOMAIN u = 1..17 /\ Len(o) = 16
          BY <1>1, <2>2, <3>4
        <4>2. j \in 1..Len(o) /\ i = Len(d) + j
          BY <3>2, <4>1
        <4> HIDE DEF j
        <4>3. u[i] = o[j]
          BY <3>3, <4>2, Zenon DEF JoinIs
        <4> QED BY <1>2, <4>2, <4>3, Zenon
      <3>6. rfind(u) = 1
        <4>1. 1 \in DOMAIN u
          BY <3>4
        <4> QED BY <3>4, <3>5, <4>1, LastColon, Zenon
      <3>7. 1 + 1 # Len(u)
        BY <3>4
      <3> QED BY <3>4, <3>6, <3>7, Zenon DEF parse_host_port
    <2> QED BY <2>1, <2>2, Zenon
  <1>5. c \in Seq(Int) /\ Len(c) = 2 /\ c[1] = COLON /\ c[2] = Port
    BY <1>3
  <1> HIDE DEF u, c
  <1>6. JoinIs(Int, u, c, w)
    BY <1>4, <1>5, JoinFact, Zenon
  <1> DEFINE l == Len(u)
  <1> HIDE DEF w
  <1>7. l \in Nat
    BY <1>4
  <1>8. w \in Seq(Int) /\ Len(w) = l + 2 /\ DOMAIN w = 1..l + 2
    BY <1>4, <1>5, <1>6 DEF JoinIs
  <1>9. w[l + 1] = COLON /\ w[l + 2] = Port
    <2>1. 1 \in 1..Len(c) /\ 2 \in 1..Len(c)
      BY <1>5
    <2> QED BY <1>5, <1>6, <2>1, Zenon DEF JoinIs
  <1>10. SubSeq(w, 1, l) = u
    <2> DEFINE v == SubSeq(w, 1, l)
    <2> HIDE DEF l
    <2>1. v \in Seq(Int) /\ Len(v) = l /\ \A i \in 1..l : v[i] = w[i]
      BY <1>7, <1>8
    <2> HIDE DEF v
    <2>2. \A i \in 1..Len(v) : v[i] = u[i]
      BY <2>1, <1>6, Zenon DEF JoinIs, l
    <2>3. v = u
      BY <1>4, <2>1, <2>2, SameSeq, Zenon DEF l
    <2> QED BY <2>3 DEF v
  <1> HIDE DEF l
  <1>11. l + 1 \in DOMAIN w /\ \A i \in DOMAIN w : w[i] = COLON => i <= l + 1
    BY <1>3, <1>7, <1>8, <1>9
  <1> DEFINE pos == l + 1
  <1>12. rfind(w) = pos
    BY <1>8, <1>9, <1>11, LastColon, Zenon
  <1>13. pos # 0 /\ pos + 1 = Len(w) /\ pos - 1 = l /\ pos + 1 = l + 2
    BY <1>7, <1>8
  <1> HIDE DEF pos
  <1>14. parse_host_port(w) = [addr |-> [kind |-> "host", octets |-> u], port |-> Port, used |-> 0]
    BY <1>9, <1>10, <1>12, <1>13, Zenon DEF parse_host_port
  <1> QED BY <1>4, <1>14, Zenon DEF w, u, c

\* The octets that the handler makes up are octets.
LEMMA LocalAddr ==
    ASSUME NEW k \in {"Ipv4", "Ipv6"}
    PROVE  Local(k) \in AddrSpec /\ Local(k).kind = k
           /\ Len(Local(k).octets) = IF k = "Ipv6" THEN 16 ELSE 4
  <1> DEFINE n == IF k = "Ipv6" THEN 16 ELSE 4
             o == Bytes(n)
  <1>1. n \in Nat /\ n < 256 /\ (k = "Ipv4" => n = 4) /\ (k = "Ipv6" => n = 16) /\ k # "Domain"
    OBVIOUS
  <1> HIDE DEF n
  <1>2. \A i \in 1..n : i % 256 \in Octet
    BY <1>1 DEF Octet
  <1>3. o \in Seq(Octet) /\ Len(o) = n
    BY <1>1, <1>2 DEF Bytes
  <1> HIDE DEF o
  <1>4. Local(k) = [kind |-> k, octets |-> o]
    BY Zenon DEF Local, o, n
  <1>5. /\ Local(k) \in [kind : {"Ipv4", "Ipv6", "Domain"}, octets : Seq(Octet)]
        /\ Local(k).kind = k /\ Local(k).octets = o
    BY <1>3, <1>4
  <1>6. Local(k) \in AddrSpec
    BY <1>1, <1>3, <1>5, Zenon DEF AddrSpec
  <1> QED BY <1>3, <1>5, <1>6, Zenon DEF n

\* What send_reply writes is one reply, which skip_bound_address takes whole.
LEMMA ReplySent ==
    ASSUME NEW code \in Codes, NEW kind
    PROVE  LET t == send_reply(code, kind) IN
           t \in Replies /\ t.bound # << >> /\ t.code = code /\ t.is = "reply"
  <1> DEFINE k == IF kind = "Ipv6" THEN "Ipv6" ELSE "Ipv4"
             a == Local(k)
             e == encode_address(a, 0)
             t == send_reply(code, kind)
  <1>1. k \in {"Ipv4", "Ipv6"}
    OBVIOUS
  <1> HIDE DEF k
  <1>2. a \in AddrSpec /\ a.kind = k /\ Len(a.octets) = IF k = "Ipv6" THEN 16 ELSE 4
    BY <1>1, LocalAddr, Zenon
  <1> HIDE DEF a
  <1>3. EncodedIs(a, 0, << >>, e, e \o << >>)
    <2>1. 0 \in Nat /\ << >> \in Seq(Nat)
      OBVIOUS
    <2> QED BY <1>2, <2>1, Encoded, Zenon
  <1>4. Header(a) = IF k = "Ipv6" THEN <<4>> ELSE <<1>>
    BY <1>1, <1>2 DEF Header
  <1>5. /\ e \in Seq(Nat) /\ Len(e) = Len(Header(a)) + Len(a.octets) + 2
        /\ e[1] = Header(a)[1]
    BY <1>3, Zenon DEF EncodedIs
  <1> HIDE DEF e
  <1>6. skip_bound_address(e) = Len(e) /\ Len(e) > 0
    <2>1. CASE k = "Ipv6"
      <3>1. Header(a) = <<4>> /\ Len(a.octets) = 16
        BY <1>2, <1>4, <2>1
      <3>2. e[1] = 4 /\ Len(e) = 19
        BY <1>5, <3>1
      <3> QED BY <3>2 DEF skip_bound_address
    <2>2. CASE k = "Ipv4"
      <3>1. Header(a) = <<1>> /\ Len(a.octets) = 4
        BY <1>2, <1>4, <2>2
      <3>2. e[1] = 1 /\ Len(e) = 7
        BY <1>5, <3>1
      <3> QED BY <3>2 DEF skip_bound_address
    <2> QED BY <1>1, <2>1, <2>2
  <1>7. e # << >>
    BY <1>5, <1>6
  <1>8. t = [is |-> "reply", code |-> code, bound |-> e]
    BY Zenon DEF send_reply, Reply, e, a, k
  <1> HIDE DEF t
  <1>9. t \in [is : {"reply"}, code : Codes, bound : Seq(Nat)]
    BY <1>5, <1>8
  <1>10. t.bound = e /\ t.code = code /\ t.is = "reply"
    BY <1>8
  <1> QED BY <1>6, <1>7, <1>9, <1>10, Zenon DEF Replies, t

\* The 200 of the HTTP handler is a reply too, and so are the answers to a greeting.
LEMMA OtherAnswers ==
    /\ Reply("Succeeded", << >>) \in Replies /\ IsSuccess(Reply("Succeeded", << >>))
    /\ \A m \in {"NO_AUTH", "USERPASS", "NONE_ACCEPTABLE"} : Method(m) \in Methods
    /\ \A t \in Methods : t.is = "method" /\ ~IsSuccess(t) /\ ~IsData(t) /\ ~IsReply(t)
    /\ \A t \in Replies : t.is = "reply" /\ ~IsData(t) /\ IsReply(t)
  <1> DEFINE t == Reply("Succeeded", << >>)
  <1>1. t \in [is : {"reply"}, code : Codes, bound : Seq(Nat)] /\ t.bound = << >>
    <2>1. "Succeeded" \in Codes /\ << >> \in Seq(Nat)
      BY DEF Codes
    <2> QED BY <2>1, Zenon DEF Reply
  <1>2. t \in Replies
    BY <1>1, Zenon DEF Replies
  <1>3. IsSuccess(t)
    BY DEF Reply, IsSuccess, IsReply
  <1>4. \A m \in {"NO_AUTH", "USERPASS", "NONE_ACCEPTABLE"} : Method(m) \in Methods
    BY DEF Method, Methods
  <1>5. \A u \in Methods : u.is = "method" /\ ~IsSuccess(u) /\ ~IsData(u) /\ ~IsReply(u)
    BY DEF Methods, IsSuccess, IsReply, IsData
  <1>6. \A u \in Replies : u.is = "reply"
    BY DEF Replies
  <1>7. \A u \in Replies : ~IsData(u) /\ IsReply(u)
    BY <1>6 DEF IsReply, IsData
  <1> QED BY <1>2, <1>3, <1>4, <1>5, <1>6, <1>7, Zenon

\* The script of a peer.
SocksScript(s, a) ==
    /\ Len(s) = 2
    /\ s[1].is = "greeting" /\ s[2].is = "request"
    /\ s[2].addr \in {encode_address(a, Port), Unsupported}
HttpScript(s, a) ==
    /\ Len(s) >= 1
    /\ \A i \in 1..Len(s) - 1 : s[i] = Part
    /\ \E method \in {"CONNECT", "other", "malformed"} : \E target \in Targets(a) :
        s[Len(s)] = End(method, target)

ScriptFacts(p, a, s) ==
    /\ Len(s) \in Nat
    /\ p # "http" => SocksScript(s, a)
    /\ p = "http" => HttpScript(s, a)
    /\ p = "SocksClient" => s[2].cmd = "CONNECT"
    /\ s = [i \in 1..Len(s) |-> s[i]]

\* What the scripts are.
LEMMA ScriptIs ==
    ASSUME NEW p \in Peers, NEW a, NEW s \in Scripts(p, a)
    PROVE  ScriptFacts(p, a, s)
  <1>1. p \in {"SocksClient", "socks", "http"}
    BY ProxyAssumption
  <1>2. CASE p = "SocksClient"
    <2>2. Scripts(p, a) =
            {<<Greeting(5, {"NO_AUTH"}), Request("CONNECT", encode_address(a, Port))>>}
      BY <1>2, Zenon DEF Scripts
    <2>1. s = <<Greeting(5, {"NO_AUTH"}), Request("CONNECT", encode_address(a, Port))>>
      BY <2>2, Zenon
    <2> QED BY <1>2, <2>1 DEF ScriptFacts, SocksScript, Greeting, Request
  <1>3. CASE p = "socks"
    <2>1. Scripts(p, a) = SocksScripts(a)
      <3>1. p # "SocksClient"
        BY <1>3
      <3> QED BY <1>3, <3>1, Zenon DEF Scripts
    <2>2. \E v \in {4, 5}, methods \in {{"NO_AUTH"}, {"USERPASS"}},
             cmd \in {"CONNECT", "BIND", "UDP_ASSOCIATE", "other"},
             b \in {encode_address(a, Port), Unsupported} :
            s = <<Greeting(v, methods), Request(cmd, b)>>
      BY <2>1, SMT DEF SocksScripts
    <2>3. PICK v, methods, cmd, b :
            /\ b \in {encode_address(a, Port), Unsupported}
            /\ s = <<Greeting(v, methods), Request(cmd, b)>>
      BY <2>2, Zenon
    <2> QED BY <1>3, <2>3 DEF ScriptFacts, SocksScript, Greeting, Request
  <1>4. CASE p = "http"
    <2> DEFINE f(n, m, t) == [i \in 1..n |-> IF i < n THEN Part ELSE End(m, t)]
    <2>1. Scripts(p, a) = HttpScripts(a)
      <3>1. p # "SocksClient" /\ p # "socks"
        BY <1>4
      <3> QED BY <1>4, <3>1, Zenon DEF Scripts
    <2>2. \E n \in 1..MAX_HEADER_SIZE + 1, t \in Targets(a), m \in {"CONNECT", "other", "malformed"} :
            s = f(n, m, t)
      BY <2>1, SMT DEF HttpScripts
    <2>3. PICK n, t, m : /\ n \in 1..MAX_HEADER_SIZE + 1 /\ t \in Targets(a) /\ s = f(n, m, t)
                         /\ m \in {"CONNECT", "other", "malformed"}
      BY <2>2, Zenon
    <2>4. n \in Nat /\ n >= 1
      BY <2>3, ProxyAssumption
    <2>5. Len(s) = n /\ \A i \in 1..n : s[i] = IF i < n THEN Part ELSE End(m, t)
      BY <2>3, <2>4
    <2>6. s[n] = End(m, t) /\ \A i \in 1..n - 1 : s[i] = Part
      BY <2>4, <2>5
    <2>7. HttpScript(s, a)
      BY <2>3, <2>4, <2>5, <2>6, Zenon DEF HttpScript
    <2>8. p # "SocksClient"
      BY <1>4
    <2>9. s = [i \in 1..Len(s) |-> s[i]]
      BY <2>3, <2>5
    <2> QED BY <1>4, <2>4, <2>5, <2>7, <2>8, <2>9, Zenon DEF ScriptFacts
  <1> QED BY <1>1, <1>2, <1>3, <1>4, Zenon

\* A script is the first segment of its stream.
LEMMA WholeScript ==
    ASSUME NEW p \in Peers, NEW a, NEW s \in Scripts(p, a)
    PROVE  Seg(s, 0, Len(s)) = s /\ Seg(s, 0, 0) = << >> /\ Seg(s, Len(s), Len(s)) = << >>
  <1>1. Len(s) \in Nat /\ s = [i \in 1..Len(s) |-> s[i]]
    <2>1. ScriptFacts(p, a, s)
      BY ScriptIs, Zenon
    <2> QED BY <2>1, Zenon DEF ScriptFacts
  <1>2. Seg(s, 0, 0) = << >> /\ Seg(s, Len(s), Len(s)) = << >>
    <2>1. 0 \in Nat /\ 0 <= 0 /\ Len(s) <= Len(s)
      BY <1>1
    <2> QED BY <1>1, <2>1, SegNone, Zenon
  <1> DEFINE n == Len(s)
  <1>3. n - 0 = n /\ \A i \in 1..n : Tok(s, 0 + i) = s[i]
    BY <1>1 DEF Tok
  <1> HIDE DEF n
  <1>4. Seg(s, 0, n) = [i \in 1..n |-> s[i]]
    BY <1>3, Zenon DEF Seg
  <1> QED BY <1>1, <1>2, <1>4, Zenon DEF n

\* The end of a head is where it is.
LEMMA HeadEnd ==
    ASSUME NEW a, NEW s, Len(s) \in Nat, HttpScript(s, a), NEW h \in Nat
    PROVE  LET buf == Seg(s, 0, h) IN
           /\ h < Len(s) => parse(buf) = 0
           /\ h >= Len(s) => parse(buf) = Len(s) /\ buf[Len(s)] = s[Len(s)]
  <1> DEFINE n == Len(s)
             buf == Seg(s, 0, h)
  <1>1. buf \in Seq(Toks(s)) /\ Len(buf) = h /\ \A i \in 1..h : buf[i] = Tok(s, i)
    <2>1. 0 \in Nat /\ 0 <= h /\ h - 0 = h /\ \A i \in 1..h : 0 + i = i
      OBVIOUS
    <2>2. SegIs(s, 0, h, buf)
      BY <2>1, SegFact, Zenon
    <2> HIDE DEF buf
    <2> QED BY <2>1, <2>2, Zenon DEF SegIs
  <1> HIDE DEF buf
  <1>2. DOMAIN buf = 1..h
    BY <1>1
  <1>3. \A i \in 1..h : buf[i].is = "end" <=> i = n
    <2> SUFFICES ASSUME NEW i \in 1..h PROVE buf[i].is = "end" <=> i = n
      OBVIOUS
    <2>1. buf[i] = IF i <= n THEN s[i] ELSE Data(i - n)
      BY <1>1, Zenon DEF Tok
    <2>2. n \in Nat /\ i \in Nat /\ i >= 1
      OBVIOUS
    <2>3. CASE i > n
      <3>1. buf[i] = Data(i - n)
        BY <2>1, <2>2, <2>3
      <3>2. buf[i].is = "data"
        BY <3>1 DEF Data
      <3> QED BY <2>2, <2>3, <3>2
    <2>4. CASE i < n
      <3>1. i \in 1..n - 1 /\ i <= n
        BY <2>2, <2>4
      <3>2. buf[i] = Part
        BY <2>1, <3>1, Zenon DEF HttpScript
      <3>3. buf[i].is = "part"
        BY <3>2 DEF Part
      <3> QED BY <2>2, <2>4, <3>3
    <2>5. CASE i = n
      <3>1. n <= n
        BY <2>2
      <3>2. buf[n] = s[n]
        BY <2>1, <2>5, <3>1, Zenon
      <3>3. PICK m, t : s[n] = End(m, t)
        BY Zenon DEF HttpScript
      <3>4. End(m, t).is = "end"
        BY DEF End
      <3> QED BY <2>5, <3>2, <3>3, <3>4, Zenon
    <2> QED BY <2>2, <2>3, <2>4, <2>5
  <1>4. ASSUME h < n PROVE parse(buf) = 0
    <2>1. n \notin 1..h
      BY <1>4
    <2> QED BY <1>2, <1>3, <2>1, Zenon DEF parse
  <1>5. ASSUME h >= n PROVE parse(buf) = n /\ buf[n] = s[n]
    <2>1. n \in 1..h /\ n <= n
      BY <1>5 DEF HttpScript
    <2> DEFINE c == CHOOSE i \in DOMAIN buf : buf[i].is = "end"
    <2>3. \E i \in DOMAIN buf : buf[i].is = "end"
      BY <1>2, <1>3, <2>1, Zenon
    <2>4. c \in DOMAIN buf /\ buf[c].is = "end"
      BY <2>3, Zenon
    <2>2. parse(buf) = n
      BY <1>2, <1>3, <2>3, <2>4, Zenon DEF parse
    <2> QED BY <1>1, <2>1, <2>2, Zenon DEF Tok
  <1> QED BY <1>4, <1>5, Zenon DEF buf

\* The stream of the peer, with its script.
LEMMA UpStream ==
    ASSUME LabelsOK, UpInv
    PROVE  \E s \in Scripts(peer.is, peer.asked), N \in Nat, r \in Nat, x \in Nat :
              UpOK(s, N, r, x) /\ Len(s) \in Nat
  <1>1. PICK s \in Scripts(peer.is, peer.asked), N \in Nat, r \in Nat, x \in Nat : UpOK(s, N, r, x)
    BY Zenon DEF UpInv
  <1>2. ScriptFacts(peer.is, peer.asked, s)
    BY ScriptIs, Zenon DEF LabelsOK
  <1> QED BY <1>1, <1>2, Zenon DEF ScriptFacts

\* A step that leaves the stream of the peer alone.
LEMMA UpFrame ==
    ASSUME UpInv, peer'.is = peer.is, peer'.asked = peer.asked, peer'.todo = peer.todo,
           sock'.cli.sent = sock.cli.sent, sock'.cli.in = sock.cli.in, sock'.up.out = sock.up.out,
           srv'.buf = srv.buf, copy'.up = copy.up,
           peer'.at = peer.at \/ peer'.at \notin {"idle", "method"},
           srv'.at = srv.at \/ srv'.at = "done"
    PROVE  UpInv'
  <1>1. PICK s \in Scripts(peer.is, peer.asked), N \in Nat, r \in Nat, x \in Nat : UpOK(s, N, r, x)
    BY DEF UpInv
  <1>2. UpOK(s, N, r, x)'
    BY <1>1 DEF UpOK
  <1> QED BY <1>1, <1>2, Zenon DEF UpInv

\* Whatever a copy has not written when it ends is not asked for again.
LEMMA UpCopyEnds ==
    ASSUME UpInv, srv.at = "relay", peer' = peer, srv' = srv,
           sock'.cli.sent = sock.cli.sent, sock'.cli.in = sock.cli.in, sock'.up.out = sock.up.out,
           copy'.up.at = "done"
    PROVE  UpInv'
  <1>1. PICK s \in Scripts(peer.is, peer.asked), N \in Nat, r \in Nat, x \in Nat : UpOK(s, N, r, x)
    BY DEF UpInv
  <1>2. UpOK(s, N, r, x)'
    BY <1>1 DEF UpOK
  <1> QED BY <1>1, <1>2, Zenon DEF UpInv

\* A new handler has read nothing.
LEMMA UpAccept ==
    ASSUME LabelsOK, UpInv, srv.at = "none", peer' = peer, sock' = sock, copy' = copy,
           srv'.at = (IF peer.is = "http" THEN "head" ELSE "negotiate"), srv'.buf = << >>
    PROVE  UpInv'
  <1>1. PICK s \in Scripts(peer.is, peer.asked), N \in Nat, r \in Nat, x \in Nat :
            UpOK(s, N, r, x) /\ Len(s) \in Nat
    BY UpStream, Zenon
  <1>2. r = 0 /\ Seg(s, 0, r) = << >>
    <2>1. r = 0 /\ 0 <= 0 /\ 0 \in Nat
      BY <1>1 DEF UpOK
    <2> QED BY <2>1, SegNone, Zenon
  <1>3. UpOK(s, N, r, x)'
    BY <1>1, <1>2 DEF UpOK
  <1> QED BY <1>1, <1>3, Zenon DEF UpInv

\* The handler takes the next n tokens.
LEMMA UpTake ==
    ASSUME LabelsOK, UpInv, NEW n \in 0..Len(sock.cli.in), peer' = peer, copy' = copy,
           sock'.cli.in = SubSeq(sock.cli.in, n + 1, Len(sock.cli.in)),
           sock'.cli.sent = sock.cli.sent, sock'.up.out = sock.up.out, srv'.buf = srv.buf,
           \/ srv'.at = "done"
           \/ srv.at = "negotiate" /\ srv'.at = "request" /\ n = 1
           \/ srv.at = "request" /\ srv'.at \in {"resolve", "udp"} /\ n = 1
    PROVE  UpInv'
  <1>1. PICK s \in Scripts(peer.is, peer.asked), N \in Nat, r \in Nat, x \in Nat :
            UpOK(s, N, r, x) /\ Len(s) \in Nat
    BY UpStream, Zenon
  <1>2. sock.cli.in = Seg(s, r, N) /\ r <= N
    BY <1>1 DEF UpOK
  <1>3. Len(sock.cli.in) = N - r
    <2>1. SegIs(s, r, N, sock.cli.in)
      BY <1>2, SegFact, Zenon
    <2> QED BY <2>1, Zenon DEF SegIs
  <1>4. n \in Nat /\ r + n \in Nat /\ r + n <= N /\ n \in 0..N - r
    BY <1>3
  <1>5. sock'.cli.in = Seg(s, r + n, N)
    <2>1. CutIs(s, r, N, n)
      BY <1>2, <1>4, SegCut, Zenon
    <2> QED BY <1>2, <2>1, Zenon DEF CutIs
  <1>6. UpOK(s, N, r + n, x)'
    BY <1>1, <1>4, <1>5 DEF UpOK
  <1> QED BY <1>1, <1>4, <1>6, Zenon DEF UpInv

SplitIs(s, r, N, n) ==
    /\ n \in Nat /\ r + n \in Nat /\ r <= r + n /\ r + n <= N
    /\ SubSeq(Seg(s, r, N), 1, n) = Seg(s, r, r + n)
    /\ SubSeq(Seg(s, r, N), n + 1, Len(Seg(s, r, N))) = Seg(s, r + n, N)

\* What is taken of a segment, and what is left.
LEMMA Split ==
    ASSUME NEW s, NEW r \in Nat, NEW N \in Nat, r <= N, NEW n \in 0..Len(Seg(s, r, N))
    PROVE  SplitIs(s, r, N, n)
  <1>1. Len(Seg(s, r, N)) = N - r
    <2>1. SegIs(s, r, N, Seg(s, r, N))
      BY SegFact, Zenon
    <2> QED BY <2>1, Zenon DEF SegIs
  <1>2. n \in Nat /\ r + n \in Nat /\ r <= r + n /\ r + n <= N /\ n \in 0..N - r
    BY <1>1
  <1>3. CutIs(s, r, N, n)
    BY <1>2, SegCut, Zenon
  <1> QED BY <1>2, <1>3, Zenon DEF CutIs, SplitIs

\* A SOCKS5 handler that has resolved its address has read its two messages.
LEMMA UpResolved ==
    ASSUME LabelsOK, UpInv, srv.at = "resolve", srv'.at = "connect", srv'.buf = srv.buf,
           peer' = peer, sock' = sock, copy' = copy
    PROVE  UpInv'
  <1>1. PICK s \in Scripts(peer.is, peer.asked), N \in Nat, r \in Nat, x \in Nat :
            UpOK(s, N, r, x) /\ Len(s) \in Nat
    BY UpStream, Zenon
  <1>2. peer.is \in Peers /\ peer.is # "http"
    BY DEF LabelsOK, HttpLabels
  <1>3. Len(s) = 2
    <2>1. ScriptFacts(peer.is, peer.asked, s)
      BY <1>1, <1>2, ScriptIs, Zenon
    <2> QED BY <1>2, <2>1, Zenon DEF ScriptFacts, SocksScript
  <1>4. r = 2 /\ srv.buf = << >>
    BY <1>1, <1>2 DEF UpOK
  <1>5. Seg(s, Len(s), r) = << >>
    <2>1. r <= Len(s)
      BY <1>3, <1>4
    <2> QED BY <1>1, <2>1, SegNone, Zenon
  <1>6. Len(s) <= r
    BY <1>3, <1>4
  <1>7. UpOK(s, N, r, x)'
    BY <1>1, <1>4, <1>5, <1>6 DEF UpOK
  <1> QED BY <1>1, <1>7, Zenon DEF UpInv

\* The far end is there.
LEMMA UpConnected ==
    ASSUME LabelsOK, UpInv, srv.at = "connect", srv'.at = "established", srv'.buf = srv.buf,
           peer' = peer, sock' = sock, copy' = copy
    PROVE  UpInv'
  <1>1. PICK s \in Scripts(peer.is, peer.asked), N \in Nat, r \in Nat, x \in Nat :
            UpOK(s, N, r, x) /\ Len(s) \in Nat
    BY UpStream, Zenon
  <1>2. UpOK(s, N, r, x)'
    BY <1>1 DEF UpOK
  <1> QED BY <1>1, <1>2, Zenon DEF UpInv

\* The relay begins with nothing in between, when nothing came with the head.
LEMMA UpEstablished ==
    ASSUME LabelsOK, UpInv, srv.at = "established", srv'.buf = srv.buf,
           srv'.at = (IF srv.buf = << >> THEN "relay" ELSE "early"),
           peer' = peer, sock'.cli.in = sock.cli.in, sock'.cli.sent = sock.cli.sent,
           sock'.up.out = sock.up.out, copy' = copy
    PROVE  UpInv'
  <1>1. PICK s \in Scripts(peer.is, peer.asked), N \in Nat, r \in Nat, x \in Nat :
            UpOK(s, N, r, x) /\ Len(s) \in Nat
    BY UpStream, Zenon
  <1>2. Len(s) <= r /\ srv.buf = Seg(s, Len(s), r) /\ x = Len(s)
    BY <1>1 DEF UpOK
  <1>3. copy.up.data = << >> /\ copy.up.at = "copying"
    BY DEF LabelsOK, Ways
  <1>4. x <= r /\ (srv.buf = << >> => copy.up.data = Seg(s, x, r))
    BY <1>2, <1>3, Zenon
  <1>5. UpOK(s, N, r, x)'
    BY <1>1, <1>2, <1>4 DEF UpOK
  <1> QED BY <1>1, <1>5, Zenon DEF UpInv

\* What came with the head goes first.
LEMMA UpEarly ==
    ASSUME LabelsOK, UpInv, srv.at = "early", srv'.buf = srv.buf, srv'.at = "relay",
           peer' = peer, sock'.cli.in = sock.cli.in, sock'.cli.sent = sock.cli.sent,
           sock'.up.out = sock.up.out \o srv.buf, copy' = copy
    PROVE  UpInv'
  <1>1. PICK s \in Scripts(peer.is, peer.asked), N \in Nat, r \in Nat, x \in Nat :
            UpOK(s, N, r, x) /\ Len(s) \in Nat
    BY UpStream, Zenon
  <1>2. Len(s) <= r /\ srv.buf = Seg(s, Len(s), r) /\ x = Len(s) /\ sock.up.out = Seg(s, Len(s), x)
    BY <1>1 DEF UpOK
  <1>3. copy.up.data = << >> /\ copy.up.at = "copying"
    BY DEF LabelsOK, Ways
  <1>4. sock'.up.out = Seg(s, Len(s), r)
    <2>1. Len(s) <= Len(s)
      BY <1>1
    <2>2. Seg(s, Len(s), Len(s)) \o Seg(s, Len(s), r) = Seg(s, Len(s), r)
      BY <1>1, <1>2, <2>1, SegJoin, Zenon
    <2> QED BY <1>2, <2>2, Zenon
  <1>5. r <= r /\ copy.up.data = Seg(s, r, r)
    <2>1. r <= r
      BY <1>1
    <2>2. Seg(s, r, r) = << >>
      BY <1>1, <2>1, SegNone, Zenon
    <2> QED BY <2>1, <2>2, <1>3, Zenon
  <1>6. UpOK(s, N, r, r)'
    BY <1>1, <1>2, <1>4, <1>5 DEF UpOK
  <1> QED BY <1>1, <1>6, Zenon DEF UpInv

\* A copy reads what the peer sent next.
LEMMA UpRead ==
    ASSUME LabelsOK, UpInv, srv.at = "relay", copy.up.at = "copying", copy.up.data = << >>,
           NEW n \in 0..Len(sock.cli.in), peer' = peer, srv' = srv,
           sock'.cli.in = SubSeq(sock.cli.in, n + 1, Len(sock.cli.in)),
           sock'.cli.sent = sock.cli.sent, sock'.up.out = sock.up.out,
           copy'.up.at = copy.up.at, copy'.up.data = SubSeq(sock.cli.in, 1, n)
    PROVE  UpInv'
  <1>1. PICK s \in Scripts(peer.is, peer.asked), N \in Nat, r \in Nat, x \in Nat :
            UpOK(s, N, r, x) /\ Len(s) \in Nat
    BY UpStream, Zenon
  <1>2. sock.cli.in = Seg(s, r, N) /\ r <= N /\ x <= r /\ copy.up.data = Seg(s, x, r)
    BY <1>1 DEF UpOK
  <1>3. x = r
    <2>1. SegIs(s, x, r, copy.up.data)
      BY <1>1, <1>2, SegFact, Zenon
    <2> QED BY <2>1, Zenon DEF SegIs
  <1>4. SplitIs(s, r, N, n)
    BY <1>1, <1>2, Split, Zenon
  <1>5. /\ sock'.cli.in = Seg(s, r + n, N) /\ copy'.up.data = Seg(s, x, r + n)
        /\ x <= r + n /\ r + n <= N /\ r + n \in Nat
    BY <1>2, <1>3, <1>4, Zenon DEF SplitIs
  <1>6. UpOK(s, N, r + n, x)'
    BY <1>1, <1>5 DEF UpOK
  <1> QED BY <1>1, <1>5, <1>6, Zenon DEF UpInv

\* And writes it.
LEMMA UpWrite ==
    ASSUME LabelsOK, UpInv, srv.at = "relay", copy.up.at = "copying", peer' = peer, srv' = srv,
           sock'.cli.in = sock.cli.in, sock'.cli.sent = sock.cli.sent,
           sock'.up.out = sock.up.out \o copy.up.data, copy'.up = Copying
    PROVE  UpInv'
  <1>1. PICK s \in Scripts(peer.is, peer.asked), N \in Nat, r \in Nat, x \in Nat :
            UpOK(s, N, r, x) /\ Len(s) \in Nat
    BY UpStream, Zenon
  <1>2. Len(s) <= x /\ x <= r /\ copy.up.data = Seg(s, x, r) /\ sock.up.out = Seg(s, Len(s), x)
    BY <1>1 DEF UpOK
  <1>3. sock'.up.out = Seg(s, Len(s), r)
    <2>1. Seg(s, Len(s), x) \o Seg(s, x, r) = Seg(s, Len(s), r)
      BY <1>1, <1>2, SegJoin, ZenonT(30)
    <2> QED BY <1>2, <2>1, Zenon
  <1>4. r <= r /\ copy'.up.data = Seg(s, r, r) /\ Len(s) <= r
    <2>1. r <= r /\ Len(s) <= r
      BY <1>1, <1>2
    <2>2. Seg(s, r, r) = << >>
      BY <1>1, <2>1, SegNone, Zenon
    <2>3. copy'.up.data = << >>
      BY DEF Copying
    <2> QED BY <2>1, <2>2, <2>3, Zenon
  <1>5. UpOK(s, N, r, r)'
    BY <1>1, <1>3, <1>4, Zenon DEF UpOK
  <1> QED BY <1>1, <1>5, Zenon DEF UpInv

\* What an HTTP handler has read of the stream, with the next n tokens.
LEMMA HeadRead ==
    ASSUME LabelsOK, UpInv, srv.at = "head", NEW n \in 0..Len(sock.cli.in)
    PROVE  \E s \in Scripts(peer.is, peer.asked), N \in Nat, r \in Nat, x \in Nat :
              /\ UpOK(s, N, r, x) /\ Len(s) \in Nat /\ peer.is = "http"
              /\ HttpScript(s, peer.asked) /\ SplitIs(s, r, N, n)
              /\ sock.cli.in = Seg(s, r, N)
              /\ srv.buf \o SubSeq(sock.cli.in, 1, n) = Seg(s, 0, r + n)
  <1>1. PICK s \in Scripts(peer.is, peer.asked), N \in Nat, r \in Nat, x \in Nat :
            UpOK(s, N, r, x) /\ Len(s) \in Nat
    BY UpStream, Zenon
  <1>2. peer.is \in Peers /\ peer.is = "http"
    BY DEF LabelsOK, SocksLabels
  <1>3. HttpScript(s, peer.asked)
    <2>1. ScriptFacts(peer.is, peer.asked, s)
      BY <1>1, <1>2, ScriptIs, Zenon
    <2> QED BY <1>2, <2>1, Zenon DEF ScriptFacts
  <1>4. sock.cli.in = Seg(s, r, N) /\ r <= N /\ srv.buf = Seg(s, 0, r)
    BY <1>1 DEF UpOK
  <1>5. SplitIs(s, r, N, n)
    BY <1>1, <1>4, Split, Zenon
  <1>6. Seg(s, 0, r) \o Seg(s, r, r + n) = Seg(s, 0, r + n)
    <2>1. 0 \in Nat /\ 0 <= r
      BY <1>1
    <2>2. r + n \in Nat /\ r <= r + n
      BY <1>5, Zenon DEF SplitIs
    <2> QED BY <1>1, <2>1, <2>2, SegJoin, ZenonT(30)
  <1>7. srv.buf \o SubSeq(sock.cli.in, 1, n) = Seg(s, 0, r + n)
    BY <1>4, <1>5, <1>6, Zenon DEF SplitIs
  <1> QED BY <1>1, <1>2, <1>3, <1>4, <1>5, <1>7, Zenon

\* A part of a head is kept.
LEMMA UpHead ==
    ASSUME LabelsOK, UpInv, srv.at = "head", NEW n \in 0..Len(sock.cli.in),
           srv'.at = "head", srv'.buf = srv.buf \o SubSeq(sock.cli.in, 1, n),
           peer' = peer, copy' = copy,
           sock'.cli.in = SubSeq(sock.cli.in, n + 1, Len(sock.cli.in)),
           sock'.cli.sent = sock.cli.sent, sock'.up.out = sock.up.out
    PROVE  UpInv'
  <1>1. PICK s \in Scripts(peer.is, peer.asked), N \in Nat, r \in Nat, x \in Nat :
              /\ UpOK(s, N, r, x) /\ Len(s) \in Nat /\ peer.is = "http"
              /\ HttpScript(s, peer.asked) /\ SplitIs(s, r, N, n)
              /\ sock.cli.in = Seg(s, r, N)
              /\ srv.buf \o SubSeq(sock.cli.in, 1, n) = Seg(s, 0, r + n)
    BY HeadRead, Zenon
  <1>2. /\ sock'.cli.in = Seg(s, r + n, N) /\ srv'.buf = Seg(s, 0, r + n)
        /\ r + n <= N /\ r + n \in Nat
    BY <1>1, Zenon DEF SplitIs
  <1>3. UpOK(s, N, r + n, x)'
    BY <1>1, <1>2, Zenon DEF UpOK
  <1> QED BY <1>1, <1>2, <1>3, Zenon DEF UpInv

\* The last line of a head that is complete.
LEMMA HeadParsed ==
    ASSUME LabelsOK, UpInv, srv.at = "head", NEW n \in 0..Len(sock.cli.in), NEW buf,
           buf = srv.buf \o SubSeq(sock.cli.in, 1, n)
    PROVE  /\ Len(buf) \in Nat
           /\ parse(buf) # 0 =>
                 /\ buf[parse(buf)].method \in {"CONNECT", "other", "malformed"}
                 /\ buf[parse(buf)].target \in Targets(peer.asked)
  <1>1. PICK s \in Scripts(peer.is, peer.asked), N \in Nat, r \in Nat, x \in Nat :
              /\ UpOK(s, N, r, x) /\ Len(s) \in Nat /\ peer.is = "http"
              /\ HttpScript(s, peer.asked) /\ SplitIs(s, r, N, n)
              /\ sock.cli.in = Seg(s, r, N)
              /\ srv.buf \o SubSeq(sock.cli.in, 1, n) = Seg(s, 0, r + n)
    BY HeadRead, Zenon
  <1> DEFINE L == Len(s)
             h == r + n
  <1>2. buf = Seg(s, 0, h) /\ h \in Nat
    BY <1>1, Zenon DEF SplitIs
  <1> HIDE DEF h
  <1>3. Len(buf) \in Nat
    <2>1. 0 \in Nat /\ 0 <= h /\ h - 0 = h
      BY <1>2
    <2>2. SegIs(s, 0, h, buf)
      BY <1>2, <2>1, SegFact, Zenon
    <2> QED BY <1>2, <2>1, <2>2, Zenon DEF SegIs
  <1>4. /\ h < L => parse(buf) = 0
        /\ h >= L => parse(buf) = L /\ buf[L] = s[L]
    <2>1. LET b == Seg(s, 0, h) IN
          /\ h < Len(s) => parse(b) = 0
          /\ h >= Len(s) => parse(b) = Len(s) /\ b[Len(s)] = s[Len(s)]
      BY <1>1, <1>2, HeadEnd, Zenon
    <2> QED BY <1>2, <2>1, Zenon
  <1> HIDE DEF L
  <1>5. h < L \/ h >= L
    BY <1>1, <1>2 DEF L
  <1>6. PICK m, t : /\ m \in {"CONNECT", "other", "malformed"} /\ t \in Targets(peer.asked)
                    /\ s[L] = End(m, t)
    BY <1>1, Zenon DEF HttpScript, L
  <1>7. End(m, t).target = t /\ End(m, t).method = m
    BY DEF End
  <1> QED BY <1>3, <1>4, <1>5, <1>6, <1>7, Zenon

\* With the end of the head, what came after it is kept, and the target is what was asked for.
LEMMA UpParsed ==
    ASSUME LabelsOK, UpInv, srv.at = "head", NEW n \in 0..Len(sock.cli.in), NEW buf,
           buf = srv.buf \o SubSeq(sock.cli.in, 1, n), parse(buf) # 0,
           srv'.at = "connect", srv'.buf = SubSeq(buf, parse(buf) + 1, Len(buf)),
           peer' = peer, copy' = copy,
           sock'.cli.in = SubSeq(sock.cli.in, n + 1, Len(sock.cli.in)),
           sock'.cli.sent = sock.cli.sent, sock'.up.out = sock.up.out
    PROVE  UpInv'
  <1>1. PICK s \in Scripts(peer.is, peer.asked), N \in Nat, r \in Nat, x \in Nat :
              /\ UpOK(s, N, r, x) /\ Len(s) \in Nat /\ peer.is = "http"
              /\ HttpScript(s, peer.asked) /\ SplitIs(s, r, N, n)
              /\ sock.cli.in = Seg(s, r, N)
              /\ srv.buf \o SubSeq(sock.cli.in, 1, n) = Seg(s, 0, r + n)
    BY HeadRead, Zenon
  <1> DEFINE L == Len(s)
             h == r + n
  <1>2. /\ sock'.cli.in = Seg(s, h, N) /\ buf = Seg(s, 0, h)
        /\ h <= N /\ h \in Nat
    BY <1>1, Zenon DEF SplitIs
  <1> HIDE DEF L, h
  <1>3. L \in Nat /\ HttpScript(s, peer.asked)
    BY <1>1, Zenon DEF L
  <1>4. /\ h < L => parse(buf) = 0
        /\ h >= L => parse(buf) = L /\ buf[L] = s[L]
    <2>1. Len(s) \in Nat /\ HttpScript(s, peer.asked)
      BY <1>1, Zenon
    <2>2. LET b == Seg(s, 0, h) IN
          /\ h < Len(s) => parse(b) = 0
          /\ h >= Len(s) => parse(b) = Len(s) /\ b[Len(s)] = s[Len(s)]
      BY <1>2, <2>1, HeadEnd, Zenon
    <2> QED BY <1>2, <2>2, Zenon DEF L
  <1>5. h >= L /\ parse(buf) = L /\ buf[L] = s[L]
    <2>1. h < L \/ h >= L
      BY <1>2, <1>3
    <2> QED BY <1>4, <2>1, Zenon
  <1>6. srv'.buf = Seg(s, L, h)
    <2>1. 0 \in Nat /\ 0 <= h /\ L \in 0..h - 0 /\ 0 + L = L
      BY <1>2, <1>3, <1>5
    <2>2. CutIs(s, 0, h, L)
      BY <1>2, <2>1, SegCut, Zenon
    <2> QED BY <1>2, <1>5, <2>1, <2>2, Zenon DEF CutIs
  <1>7. UpOK(s, N, h, x)'
    BY <1>1, <1>2, <1>5, <1>6, Zenon DEF UpOK, L
  <1>8. UpInv'
    BY <1>1, <1>2, <1>7, Zenon DEF UpInv
  <1> QED BY <1>8

\* The peer says the next of its messages.
LEMMA UpSay ==
    ASSUME LabelsOK, UpInv, peer.todo # << >>, peer'.todo = Tail(peer.todo),
           peer'.is = peer.is, peer'.asked = peer.asked,
           \/ peer.at = "idle" /\ peer'.at = "method"
           \/ peer'.at \notin {"idle", "method"},
           sock'.cli.in = Append(sock.cli.in, Head(peer.todo)),
           sock'.cli.sent = sock.cli.sent, sock'.up.out = sock.up.out, srv' = srv, copy' = copy
    PROVE  UpInv'
  <1>1. PICK s \in Scripts(peer.is, peer.asked), N \in Nat, r \in Nat, x \in Nat :
            UpOK(s, N, r, x) /\ Len(s) \in Nat
    BY UpStream, Zenon
  <1>2. peer.todo = Seg(s, N, Len(s)) /\ r <= N /\ sock.cli.in = Seg(s, r, N)
    BY <1>1 DEF UpOK
  <1>3. N < Len(s)
    <2>1. CASE Len(s) <= N
      BY <1>1, <1>2, <2>1, SegNone, Zenon
    <2> QED BY <1>1, <2>1
  <1>4. Head(peer.todo) = Tok(s, N + 1) /\ peer'.todo = Seg(s, N + 1, Len(s))
    BY <1>1, <1>2, <1>3, SegHead, Zenon
  <1>5. sock'.cli.in = Seg(s, r, N + 1)
    <2>1. Append(Seg(s, r, N), Tok(s, N + 1)) = Seg(s, r, N + 1)
      BY <1>1, <1>2, SegAppend, Zenon
    <2> QED BY <1>2, <1>4, <2>1, Zenon
  <1>6. N + 1 \in Nat /\ N <= Len(s) /\ N + 1 <= Len(s) /\ r <= N + 1 /\ (N = 0 => N + 1 = 1)
    BY <1>1, <1>2, <1>3
  <1>7. UpOK(s, N + 1, r, x)'
    BY <1>1, <1>4, <1>5, <1>6 DEF UpOK
  <1> QED BY <1>1, <1>6, <1>7, Zenon DEF UpInv

\* The peer sends the next unit of its data.
LEMMA UpData ==
    ASSUME LabelsOK, UpInv, peer.todo = << >>, peer' = peer, peer.at = "ok",
           sock'.cli.in = Append(sock.cli.in, Data(sock.cli.sent + 1)),
           sock'.cli.sent = sock.cli.sent + 1, sock'.up.out = sock.up.out, srv' = srv, copy' = copy
    PROVE  UpInv'
  <1>1. PICK s \in Scripts(peer.is, peer.asked), N \in Nat, r \in Nat, x \in Nat :
            UpOK(s, N, r, x) /\ Len(s) \in Nat
    BY UpStream, Zenon
  <1> DEFINE L == Len(s)
             c == sock.cli.sent
  <1>2. /\ peer.todo = Seg(s, N, L) /\ r <= N /\ sock.cli.in = Seg(s, r, N)
        /\ c = (IF N <= L THEN 0 ELSE N - L)
    BY <1>1 DEF UpOK
  <1>3. L <= N
    <2>1. CASE N < L
      <3>1. N <= L
        BY <1>1, <2>1
      <3>2. SegIs(s, N, L, peer.todo)
        BY <1>1, <1>2, <3>1, SegFact, Zenon
      <3>3. N = L
        BY <3>2, Zenon DEF SegIs
      <3> QED BY <1>1, <2>1, <3>3
    <2> QED BY <1>1, <2>1
  <1> HIDE DEF L, c
  <1>4. L \in Nat
    BY <1>1 DEF L
  <1>5. /\ c = N - L /\ ~(N + 1 <= L) /\ (N + 1) - L = c + 1
        /\ N + 1 \in Nat /\ r <= N + 1 /\ L <= N + 1
    BY <1>1, <1>2, <1>3, <1>4
  <1>6. Tok(s, N + 1) = Data(c + 1)
    BY <1>5, Zenon DEF Tok, L
  <1>7. sock'.cli.in = Seg(s, r, N + 1)
    <2>1. Append(Seg(s, r, N), Tok(s, N + 1)) = Seg(s, r, N + 1)
      BY <1>1, <1>2, SegAppend, Zenon
    <2> QED BY <1>2, <1>6, <2>1, Zenon DEF c
  <1>8. peer'.todo = Seg(s, N + 1, L)
    <2>1. Seg(s, N + 1, L) = << >>
      BY <1>4, <1>5, SegNone, Zenon
    <2> QED BY <2>1, Zenon
  <1>9. sock'.cli.sent = (IF N + 1 <= L THEN 0 ELSE (N + 1) - L)
    BY <1>5, Zenon DEF c
  <1>10. UpOK(s, N + 1, r, x)'
    BY <1>1, <1>5, <1>7, <1>8, <1>9, Zenon DEF UpOK, L
  <1> QED BY <1>1, <1>5, <1>10, Zenon DEF UpInv

--------------------------------------------------------------------------------
(***************************************************************************)
(* The stream to the peer.                                                 *)
(***************************************************************************)
Answers == Methods \cup Replies

\* Who has only been greeted has no verdict.
LEMMA NotJudged ==
    ASSUME NEW http \in BOOLEAN, NEW a, a = << >> \/ Greeted(http, a)
    PROVE  ~Judged(http, a) /\ ~Won(http, a)
  <1>1. CASE a = << >>
    <2>1. Len(a) = 0
      BY <1>1
    <2> QED BY <2>1 DEF Judged, Won
  <1>2. CASE Greeted(http, a) /\ ~http
    <2>1. Len(a) = 1
      BY <1>2, Zenon DEF Greeted
    <2> QED BY <1>2, <2>1 DEF Judged, Won
  <1>3. CASE Greeted(http, a) /\ http
    BY <1>1, <1>3, Zenon DEF Greeted
  <1> QED BY <1>1, <1>2, <1>3, Zenon

\* How a handler goes on without an answer.
GoesOn(u, v) ==
    \/ u = v \/ v = "done"
    \/ u = "none" /\ v \in {"negotiate", "head"}
    \/ u = "request" /\ v = "resolve"
    \/ u = "resolve" /\ v = "connect"
    \/ u = "connect" /\ v = "established"
    \/ u = "head" /\ v = "connect"
    \/ u = "early" /\ v = "relay"

\* A step that says nothing to the peer.
LEMMA DownFrame ==
    ASSUME LabelsOK, DownInv, GoesOn(srv.at, srv'.at),
           sock'.up.sent = sock.up.sent, sock'.up.in = sock.up.in, sock'.cli.out = sock.cli.out,
           copy'.down = copy.down, peer'.is = peer.is, peer'.asked = peer.asked,
           peer'.at = peer.at \/ peer'.at # "ok" \/ peer.is # "SocksClient",
           srv'.tcp = srv.tcp \/ srv.at \in {"none", "connect"},
           srv'.udp.relay = srv.udp.relay \/ srv'.udp.relay # "none" \/ srv.at = "none"
    PROVE  DownInv'
  <1>1. PICK a \in Seq(Answers), x \in Nat, y \in Nat : DownOK(a, x, y)
    BY Zenon DEF DownInv, Answers
  <1> DEFINE http == peer.is = "http"
  <1>2. srv.at \in {"none", "negotiate", "head", "request", "resolve", "connect", "established"} =>
            a = << >> \/ Greeted(http, a)
    BY <1>1 DEF DownOK
  <1>3. srv.at \in {"none", "negotiate", "head", "request", "resolve", "connect", "established"} =>
            ~Judged(http, a) /\ ~Won(http, a)
    <2>1. http \in BOOLEAN
      OBVIOUS
    <2> HIDE DEF http
    <2> QED BY <1>2, <2>1, NotJudged, Zenon
  <1>4. srv.at = "head" => http /\ Greeted(http, a)
    <2>1. srv.at = "head" => http
      BY DEF LabelsOK, SocksLabels
    <2>2. srv.at = "head" => a = << >>
      BY <1>1 DEF DownOK
    <2> QED BY <2>1, <2>2, Zenon DEF Greeted
  <1>5. srv.at = "early" => x <= y /\ copy.down.data = Seg(<< >>, x, y)
    <2>1. srv.at = "early" => x = 0 /\ y = 0
      BY <1>1 DEF DownOK
    <2>2. srv.at = "early" => copy.down.data = << >>
      BY DEF LabelsOK, Ways
    <2>3. 0 <= 0 /\ 0 \in Nat
      OBVIOUS
    <2>4. Seg(<< >>, 0, 0) = << >>
      BY <2>3, SegNone, Zenon
    <2> QED BY <2>1, <2>2, <2>3, <2>4, Zenon
  <1>6. Connected' \/ srv'.udp.relay # "none" \/ ~Won(http, a)
    <2>1. srv.at \in {"none", "connect"} => ~Won(http, a)
      BY <1>3
    <2>2. Won(http, a) => Connected \/ srv.udp.relay # "none"
      BY <1>1, Zenon DEF DownOK
    <2>3. srv'.tcp = srv.tcp => (Connected' <=> Connected)
      BY DEF Connected, Asked
    <2> HIDE DEF http
    <2>4. srv.at = "none" => ~Won(http, a)
      BY <2>1
    <2> QED BY <2>1, <2>2, <2>3, <2>4, Zenon
  <1>7. DownOK(a, x, y)'
    <2>1. peer'.is = peer.is /\ http' = http
      OBVIOUS
    <2>2. /\ (y <= sock.up.sent)' /\ (sock.up.in = Seg(<< >>, y, sock.up.sent))'
          /\ (sock.cli.out = a \o Seg(<< >>, 0, x))'
      BY <1>1, Zenon DEF DownOK
    <2>3. (a = << >> \/ Greeted(http, a) \/ Judged(http, a))' /\ (x > 0 => Won(http, a))'
      BY <1>1, Zenon DEF DownOK
    <2>4. /\ srv'.at \in {"none", "negotiate", "head"} => a = << >>
          /\ srv'.at \in {"request", "resolve", "connect", "established"} => Greeted(http, a)
          /\ srv'.at \in {"udp", "early", "relay"} => Won(http, a)
          /\ srv'.at \notin {"relay", "done"} => x = 0 /\ y = 0
          /\ srv'.at = "relay" /\ copy'.down.at = "copying" =>
                x <= y /\ copy'.down.data = Seg(<< >>, x, y)
      <3> HIDE DEF http
      <3>1. /\ srv.at \in {"none", "negotiate", "head"} => a = << >>
            /\ srv.at \in {"request", "resolve", "connect", "established"} => Greeted(http, a)
            /\ srv.at \in {"udp", "early", "relay"} => Won(http, a)
            /\ srv.at \notin {"relay", "done"} => x = 0 /\ y = 0
            /\ srv.at = "relay" /\ copy.down.at = "copying" =>
                x <= y /\ copy.down.data = Seg(<< >>, x, y)
        BY <1>1, Zenon DEF DownOK, http
      <3> QED BY <1>4, <1>5, <3>1 DEF GoesOn
    <2>5. peer'.is = "SocksClient" /\ peer'.at = "ok" => Judged(FALSE, a)
      <3>1. peer.is = "SocksClient" /\ peer.at = "ok" => Judged(FALSE, a)
        BY <1>1, Zenon DEF DownOK
      <3> QED BY <3>1, Zenon
    <2> QED BY <1>6, <2>2, <2>3, <2>4, <2>5, Zenon DEF DownOK
  <1>8. sock'.up.sent \in Nat
    BY Zenon DEF DownInv
  <1> QED BY <1>1, <1>7, <1>8, Zenon DEF DownInv, Answers

\* Before the relay, what the peer was told is what the handler answered.
LEMMA NothingYet ==
    ASSUME NEW a \in Seq(Answers), NEW x, NEW y, DownOK(a, x, y), srv.at \notin {"relay", "done"}
    PROVE  x = 0 /\ y = 0 /\ sock.cli.out = a
  <1>1. x = 0 /\ y = 0 /\ sock.cli.out = a \o Seg(<< >>, 0, x)
    BY DEF DownOK
  <1>2. Seg(<< >>, 0, 0) = << >>
    <2>1. 0 \in Nat /\ 0 <= 0
      OBVIOUS
    <2> QED BY <2>1, SegNone, Zenon
  <1>3. a \o << >> = a
    OBVIOUS
  <1> QED BY <1>1, <1>2, <1>3, Zenon

\* One more answer.
LEMMA OneMore ==
    ASSUME NEW a \in Seq(Answers), NEW t \in Answers
    PROVE  /\ a \o <<t>> \in Seq(Answers) /\ Len(a \o <<t>>) = Len(a) + 1
           /\ (a \o <<t>>)[Len(a) + 1] = t
           /\ \A i \in 1..Len(a) : (a \o <<t>>)[i] = a[i]
           /\ (a \o <<t>>) \o Seg(<< >>, 0, 0) = a \o <<t>>
  <1> DEFINE u == <<t>>
             w == a \o u
  <1>1. u \in Seq(Answers) /\ Len(u) = 1 /\ u[1] = t /\ 1 \in 1..Len(u)
    OBVIOUS
  <1> HIDE DEF u
  <1>2. JoinIs(Answers, a, u, w)
    BY <1>1, JoinFact, Zenon
  <1> HIDE DEF w
  <1>3. Seg(<< >>, 0, 0) = << >>
    <2>1. 0 \in Nat /\ 0 <= 0
      OBVIOUS
    <2> QED BY <2>1, SegNone, Zenon
  <1>4. w \o << >> = w
    BY <1>2 DEF JoinIs
  <1>5. /\ w \in Seq(Answers) /\ Len(w) = Len(a) + 1 /\ w[Len(a) + 1] = t
        /\ \A i \in 1..Len(a) : w[i] = a[i]
    BY <1>1, <1>2, Zenon DEF JoinIs
  <1> QED BY <1>3, <1>4, <1>5, Zenon DEF w, u

\* The answer to a greeting.
LEMMA DownMethod ==
    ASSUME LabelsOK, DownInv, srv.at = "negotiate", srv'.at \in {"request", "done"},
           NEW t \in Methods, sock'.cli.out = sock.cli.out \o <<t>>,
           sock'.up.sent = sock.up.sent, sock'.up.in = sock.up.in, copy' = copy, peer' = peer,
           srv'.tcp = srv.tcp, srv'.udp.relay = srv.udp.relay
    PROVE  DownInv'
  <1>1. PICK a \in Seq(Answers), x \in Nat, y \in Nat : DownOK(a, x, y)
    BY Zenon DEF DownInv, Answers
  <1>2. x = 0 /\ y = 0 /\ sock.cli.out = a
    BY <1>1, NothingYet
  <1> DEFINE b == a \o <<t>>
             http == peer.is = "http"
  <1>3. t \in Answers
    BY DEF Answers
  <1>4. /\ b \in Seq(Answers) /\ Len(b) = Len(a) + 1 /\ b[Len(a) + 1] = t
        /\ b \o Seg(<< >>, 0, 0) = b
    BY <1>1, <1>3, OneMore, Zenon
  <1>5. a = << >> /\ Len(a) = 0
    <2>1. a = << >>
      BY <1>1 DEF DownOK
    <2> QED BY <2>1
  <1> HIDE DEF b
  <1>6. ~http /\ http \in BOOLEAN
    BY DEF LabelsOK, HttpLabels
  <1>7. Len(b) = 1 /\ b[1] = t
    <2>1. 0 + 1 = 1
      OBVIOUS
    <2> QED BY <2>1, <1>4, <1>5, Zenon
  <1> HIDE DEF http
  <1>8. Greeted(http, b) /\ ~Judged(http, b) /\ ~Won(http, b)
    <2>1. Greeted(http, b)
      BY <1>6, <1>7, Zenon DEF Greeted
    <2> QED BY <1>6, <2>1, NotJudged, Zenon
  <1>9. ~(peer'.is = "SocksClient" /\ peer'.at = "ok")
    <2>1. ~Judged(FALSE, a)
      BY <1>5 DEF Judged
    <2> QED BY <1>1, <2>1, Zenon DEF DownOK
  <1>10. DownOK(b, x, y)'
    <2>1. (sock.cli.out = b \o Seg(<< >>, 0, x))'
      BY <1>2, <1>4, Zenon DEF b
    <2>2. (y <= sock.up.sent)' /\ (sock.up.in = Seg(<< >>, y, sock.up.sent))'
      BY <1>1, Zenon DEF DownOK
    <2>3. x = 0 /\ y = 0 /\ ~(x > 0)
      BY <1>2
    <2>4. srv'.at \notin {"none", "negotiate", "head"} /\ srv'.at \notin {"udp", "early", "relay"}
      OBVIOUS
    <2> QED BY <1>8, <1>9, <2>1, <2>2, <2>3, <2>4, Zenon DEF DownOK, http
  <1>11. sock'.up.sent \in Nat
    BY Zenon DEF DownInv
  <1> QED BY <1>1, <1>4, <1>10, <1>11, Zenon DEF DownInv, Answers

\* The verdict: only one, and a success only with what it promises.
LEMMA DownReply ==
    ASSUME LabelsOK, DownInv, srv.at \in {"head", "request", "connect", "established"},
           NEW t \in Replies, peer.is = "http" \/ t.bound # << >>,
           \/ srv'.at = "done" /\ ~IsSuccess(t)
           \/ srv'.at \in {"udp", "early", "relay"} /\ IsSuccess(t)
              /\ (Connected' \/ srv'.udp.relay # "none"),
           sock'.cli.out = sock.cli.out \o <<t>>,
           sock'.up.sent = sock.up.sent, sock'.up.in = sock.up.in, copy' = copy, peer' = peer
    PROVE  DownInv'
  <1>1. PICK a \in Seq(Answers), x \in Nat, y \in Nat : DownOK(a, x, y)
    BY Zenon DEF DownInv, Answers
  <1>2. x = 0 /\ y = 0 /\ sock.cli.out = a
    <2>1. srv.at \notin {"relay", "done"}
      OBVIOUS
    <2> QED BY <1>1, <2>1, NothingYet, Zenon
  <1> DEFINE b == a \o <<t>>
             http == peer.is = "http"
  <1>3. t \in Answers
    BY DEF Answers
  <1>4. /\ b \in Seq(Answers) /\ Len(b) = Len(a) + 1 /\ b[Len(a) + 1] = t
        /\ b \o Seg(<< >>, 0, 0) = b /\ \A i \in 1..Len(a) : b[i] = a[i]
    BY <1>1, <1>3, OneMore, Zenon
  <1> HIDE DEF b
  <1>5. Greeted(http, a) /\ http \in BOOLEAN
    <2>1. srv.at = "head" => http /\ a = << >>
      BY <1>1, Zenon DEF LabelsOK, SocksLabels, DownOK
    <2>2. srv.at # "head" => Greeted(http, a)
      BY <1>1 DEF DownOK
    <2> QED BY <2>1, <2>2, Zenon DEF Greeted
  <1>6. ~(peer'.is = "SocksClient" /\ peer'.at = "ok")
    <2>1. ~Judged(http, a)
      BY <1>5, NotJudged, Zenon
    <2>2. peer.is = "SocksClient" => http = FALSE
      OBVIOUS
    <2> QED BY <1>1, <2>1, <2>2, Zenon DEF DownOK
  <1>7. Judged(http, b) /\ b[Len(b)] = t
    <2>1. b[Len(b)] = t
      BY <1>4, Zenon
    <2>2. CASE http
      <3>1. a = << >>
        BY <1>5, <2>2, Zenon DEF Greeted
      <3>2. Len(a) = 0 /\ 0 + 1 = 1
        BY <3>1
      <3> QED BY <1>4, <2>1, <2>2, <3>2, Zenon DEF Judged
    <2>3. CASE ~http
      <3>1. Len(a) = 1 /\ a[1] \in Methods
        BY <1>5, <2>3, Zenon DEF Greeted
      <3>2. 1 + 1 = 2 /\ 1 \in 1..1
        OBVIOUS
      <3>3. Len(b) = 2 /\ b[1] = a[1] /\ b[2] = t
        BY <1>4, <3>1, <3>2, Zenon
      <3> QED BY <2>1, <2>3, <3>1, <3>3, Zenon DEF Judged, http
    <2> QED BY <2>1, <2>2, <2>3, Zenon
  <1> HIDE DEF http
  <1>8. Won(http, b) <=> IsSuccess(t)
    BY <1>7, Zenon DEF Won
  <1>9. srv'.at = "relay" => x <= y /\ copy'.down.data = Seg(<< >>, x, y)
    <2>1. copy.down.data = << >>
      BY DEF LabelsOK, Ways
    <2>2. 0 \in Nat /\ 0 <= 0
      OBVIOUS
    <2>3. Seg(<< >>, 0, 0) = << >>
      BY <2>2, SegNone, Zenon
    <2> QED BY <1>2, <2>1, <2>2, <2>3, Zenon
  <1>10. DownOK(b, x, y)'
    <2>1. (sock.cli.out = b \o Seg(<< >>, 0, x))'
      BY <1>2, <1>4, Zenon DEF b
    <2>2. (y <= sock.up.sent)' /\ (sock.up.in = Seg(<< >>, y, sock.up.sent))'
      BY <1>1, Zenon DEF DownOK
    <2>3. x = 0 /\ y = 0 /\ ~(x > 0)
      BY <1>2
    <2>4. /\ srv'.at \notin {"none", "negotiate", "head"}
          /\ srv'.at \notin {"request", "resolve", "connect", "established"}
          /\ srv'.at = "done" => ~IsSuccess(t) /\ srv'.at \notin {"udp", "early", "relay"}
          /\ srv'.at # "done" => IsSuccess(t) /\ (Connected' \/ srv'.udp.relay # "none")
      OBVIOUS
    <2> QED BY <1>6, <1>7, <1>8, <1>9, <2>1, <2>2, <2>3, <2>4, Zenon DEF DownOK, http
  <1>11. sock'.up.sent \in Nat
    BY Zenon DEF DownInv
  <1> QED BY <1>1, <1>4, <1>10, <1>11, Zenon DEF DownInv, Answers

\* A copy reads what the far end sent next.
LEMMA DownRead ==
    ASSUME DownInv, srv.at = "relay", copy.down.at = "copying", copy.down.data = << >>,
           NEW n \in 0..Len(sock.up.in), peer' = peer, srv' = srv,
           sock'.up.in = SubSeq(sock.up.in, n + 1, Len(sock.up.in)),
           sock'.up.sent = sock.up.sent, sock'.cli.out = sock.cli.out,
           copy'.down.at = copy.down.at, copy'.down.data = SubSeq(sock.up.in, 1, n)
    PROVE  DownInv'
  <1>1. PICK a \in Seq(Answers), x \in Nat, y \in Nat : DownOK(a, x, y)
    BY Zenon DEF DownInv, Answers
  <1> DEFINE m == sock.up.sent
  <1>2. m \in Nat
    BY Zenon DEF DownInv
  <1>3. sock.up.in = Seg(<< >>, y, m) /\ y <= m /\ x <= y /\ copy.down.data = Seg(<< >>, x, y)
    BY <1>1 DEF DownOK
  <1>4. x = y
    <2>1. SegIs(<< >>, x, y, copy.down.data)
      BY <1>1, <1>3, SegFact, Zenon
    <2> QED BY <2>1, Zenon DEF SegIs
  <1>5. SplitIs(<< >>, y, m, n)
    BY <1>1, <1>2, <1>3, Split, Zenon
  <1>6. /\ sock'.up.in = Seg(<< >>, y + n, m) /\ copy'.down.data = Seg(<< >>, x, y + n)
        /\ x <= y + n /\ y + n <= m /\ y + n \in Nat
    BY <1>3, <1>4, <1>5, Zenon DEF SplitIs
  <1>7. DownOK(a, x, y + n)'
    <2>1. Connected' <=> Connected
      BY DEF Connected, Asked
    <2> QED BY <1>1, <1>6, <2>1, Zenon DEF DownOK
  <1> QED BY <1>1, <1>2, <1>6, <1>7, Zenon DEF DownInv, Answers

\* And writes it.
LEMMA DownWrite ==
    ASSUME DownInv, srv.at = "relay", copy.down.at = "copying", peer' = peer, srv' = srv,
           sock'.up.in = sock.up.in, sock'.up.sent = sock.up.sent,
           sock'.cli.out = sock.cli.out \o copy.down.data, copy'.down = Copying
    PROVE  DownInv'
  <1>1. PICK a \in Seq(Answers), x \in Nat, y \in Nat : DownOK(a, x, y)
    BY Zenon DEF DownInv, Answers
  <1> DEFINE u == Seg(<< >>, 0, x)
             v == Seg(<< >>, x, y)
             S == Answers \cup Toks(<< >>)
  <1>2. x <= y /\ copy.down.data = v /\ sock.cli.out = a \o u
    BY <1>1 DEF DownOK
  <1>3. 0 \in Nat /\ 0 <= x /\ y <= y
    BY <1>1
  <1>4. u \o v = Seg(<< >>, 0, y)
    BY <1>1, <1>2, <1>3, SegJoin, Zenon
  <1>5. u \in Seq(Toks(<< >>)) /\ v \in Seq(Toks(<< >>))
    <2>1. SegIs(<< >>, 0, x, u) /\ SegIs(<< >>, x, y, v)
      BY <1>1, <1>2, <1>3, SegFact, Zenon
    <2> QED BY <2>1, Zenon DEF SegIs
  <1> HIDE DEF u, v
  <1>6. u \in Seq(S) /\ v \in Seq(S) /\ a \in Seq(S)
    BY <1>1, <1>5
  <1> HIDE DEF S
  <1>7. (a \o u) \o v = a \o (u \o v)
    BY <1>6
  <1>8. sock'.cli.out = a \o Seg(<< >>, 0, y)
    BY <1>2, <1>4, <1>7, Zenon
  <1>9. y <= y /\ copy'.down.data = Seg(<< >>, y, y)
    <2>1. Seg(<< >>, y, y) = << >>
      BY <1>1, <1>3, SegNone, Zenon
    <2>2. copy'.down.data = << >>
      BY DEF Copying
    <2> QED BY <1>3, <2>1, <2>2, Zenon
  <1>10. DownOK(a, y, y)'
    <2>1. Connected' <=> Connected
      BY DEF Connected, Asked
    <2> QED BY <1>1, <1>8, <1>9, <2>1, Zenon DEF DownOK
  <1>11. sock'.up.sent \in Nat
    BY Zenon DEF DownInv
  <1> QED BY <1>1, <1>10, <1>11, Zenon DEF DownInv, Answers

\* Or ends.
LEMMA DownCopyEnds ==
    ASSUME DownInv, srv.at = "relay", peer' = peer, srv' = srv,
           sock'.up.sent = sock.up.sent, sock'.up.in = sock.up.in, sock'.cli.out = sock.cli.out,
           copy'.down.at = "done"
    PROVE  DownInv'
  <1>1. PICK a \in Seq(Answers), x \in Nat, y \in Nat : DownOK(a, x, y)
    BY Zenon DEF DownInv, Answers
  <1>2. DownOK(a, x, y)'
    <2>1. Connected' <=> Connected
      BY DEF Connected, Asked
    <2> QED BY <1>1, <2>1, Zenon DEF DownOK
  <1>3. sock'.up.sent \in Nat
    BY Zenon DEF DownInv
  <1> QED BY <1>1, <1>2, <1>3, Zenon DEF DownInv, Answers

\* The far end sends the next unit of its data.
LEMMA DownSend ==
    ASSUME DownInv, peer' = peer, srv' = srv, copy' = copy,
           sock'.up.in = Append(sock.up.in, Data(sock.up.sent + 1)),
           sock'.up.sent = sock.up.sent + 1, sock'.cli.out = sock.cli.out
    PROVE  DownInv'
  <1>1. PICK a \in Seq(Answers), x \in Nat, y \in Nat : DownOK(a, x, y)
    BY Zenon DEF DownInv, Answers
  <1> DEFINE m == sock.up.sent
  <1>2. m \in Nat /\ y <= m /\ sock.up.in = Seg(<< >>, y, m)
    BY <1>1 DEF DownInv, DownOK
  <1> HIDE DEF m
  <1>3. m + 1 \in Nat /\ y <= m + 1 /\ ~(m + 1 <= 0) /\ (m + 1) - 0 = m + 1 /\ Len(<< >>) = 0
    BY <1>1, <1>2
  <1>4. Tok(<< >>, m + 1) = Data(m + 1)
    BY <1>3, Zenon DEF Tok
  <1>5. sock'.up.in = Seg(<< >>, y, m + 1)
    <2>1. Append(Seg(<< >>, y, m), Tok(<< >>, m + 1)) = Seg(<< >>, y, m + 1)
      BY <1>1, <1>2, SegAppend, Zenon
    <2> QED BY <1>2, <1>4, <2>1, Zenon DEF m
  <1>6. DownOK(a, x, y)'
    <2>1. Connected' <=> Connected
      BY DEF Connected, Asked
    <2>2. sock'.up.sent = m + 1
      BY DEF m
    <2>3. (y <= sock.up.sent)' /\ (sock.up.in = Seg(<< >>, y, sock.up.sent))'
      BY <1>3, <1>5, <2>2, Zenon
    <2> QED BY <1>1, <2>1, <2>3, Zenon DEF DownOK
  <1>7. sock'.up.sent \in Nat
    BY <1>3, Zenon DEF m
  <1> QED BY <1>1, <1>6, <1>7, Zenon DEF DownInv, Answers

\* What the peer was told, token by token.
LEMMA ToldIs ==
    ASSUME NEW a \in Seq(Answers), NEW x \in Nat, NEW y, DownOK(a, x, y)
    PROVE  /\ Len(sock.cli.out) = Len(a) + x
           /\ \A i \in 1..Len(a) : sock.cli.out[i] = a[i]
           /\ \A i \in 1..x : sock.cli.out[Len(a) + i] = Data(i)
  <1> DEFINE u == Seg(<< >>, 0, x)
             S == Answers \cup Toks(<< >>)
             w == sock.cli.out
  <1>1. w = a \o u
    BY DEF DownOK
  <1>2. u \in Seq(Toks(<< >>)) /\ Len(u) = x /\ \A i \in 1..x : u[i] = Tok(<< >>, i)
    <2>1. 0 \in Nat /\ 0 <= x /\ x - 0 = x /\ \A i \in 1..x : 0 + i = i
      OBVIOUS
    <2>2. SegIs(<< >>, 0, x, u)
      BY <2>1, SegFact, Zenon
    <2> HIDE DEF u
    <2> QED BY <2>1, <2>2, Zenon DEF SegIs
  <1> HIDE DEF u, w
  <1>3. u \in Seq(S) /\ a \in Seq(S)
    BY <1>2
  <1> HIDE DEF S
  <1>4. JoinIs(S, a, u, w)
    BY <1>1, <1>3, JoinFact, Zenon
  <1>5. \A i \in 1..x : Tok(<< >>, i) = Data(i)
    <2> SUFFICES ASSUME NEW i \in 1..x PROVE Tok(<< >>, i) = Data(i)
      OBVIOUS
    <2>1. ~(i <= 0) /\ i - 0 = i /\ Len(<< >>) = 0
      OBVIOUS
    <2> QED BY <2>1, Zenon DEF Tok
  <1> QED BY <1>2, <1>4, <1>5, Zenon DEF JoinIs, w

--------------------------------------------------------------------------------
(***************************************************************************)
(* The handler.                                                            *)
(***************************************************************************)
\* The handler returns.
LEMMA EndedFlat ==
    ASSUME NEW k, SockOK(k), SrvOK(srv), Ended(k)
    PROVE  SameSock(k, sock') /\ SrvAt(srv, srv', "done")
  <1>1. SameSock(k, Closed(k))
    BY ClosedFlat
  <1>2. SrvAt(srv, [srv EXCEPT !.at = "done"], "done")
    BY SrvFlat, Zenon
  <1> QED BY <1>1, <1>2, Zenon DEF Ended

\* The handler answers and goes on, or returns.
LEMMA AnswerFlat ==
    ASSUME NEW k, SockOK(k), SrvOK(srv), NEW tokens, NEW next, Answer(k, tokens, next)
    PROVE  \/ SameSock(k, sock') /\ SrvAt(srv, srv', "done")
           \/ /\ SockIs(sock', k.cli.in, k.cli.out \o tokens, k.cli.sent, k.up.in, k.up.out, k.up.sent)
              /\ srv' = next
  <1>1. CASE k.cli.rst
    <2>1. Ended(k)
      BY <1>1, Zenon DEF Answer
    <2> QED BY <2>1, EndedFlat
  <1>2. CASE ~k.cli.rst
    <2> DEFINE o == k.cli.out \o tokens
               m == [k EXCEPT !.cli.out = o]
    <2>1. srv' = next /\ (sock' = Closed(m) \/ sock' = m)
      BY <1>2 DEF Answer
    <2> HIDE DEF o
    <2>2. SockIs(m, k.cli.in, o, k.cli.sent, k.up.in, k.up.out, k.up.sent)
      BY StreamFlat, Zenon
    <2> HIDE DEF m
    <2>3. SockOK(m)
      BY <2>2, Zenon DEF SockIs
    <2>4. SameSock(m, Closed(m))
      BY <2>3, ClosedFlat, Zenon
    <2>5. SockIs(Closed(m), k.cli.in, o, k.cli.sent, k.up.in, k.up.out, k.up.sent)
      BY <2>2, <2>4, Zenon DEF SockIs, SameSock
    <2>6. SockIs(sock', k.cli.in, o, k.cli.sent, k.up.in, k.up.out, k.up.sent)
      BY <2>1, <2>2, <2>5, Zenon
    <2> QED BY <2>1, <2>6, Zenon DEF o
  <1> QED BY <1>1, <1>2, Zenon

\* The handler takes what it reads.
TookCli(k, n) == SockIs(k, SubSeq(sock.cli.in, n + 1, Len(sock.cli.in)), sock.cli.out, sock.cli.sent,
                        sock.up.in, sock.up.out, sock.up.sent)

\* What Take does to the two connections.
LEMMA TakeFlat ==
    ASSUME SockOK(sock), NEW n
    PROVE  /\ TookCli(Take("cli", n), n)
           /\ SockIs(Take("up", n), sock.cli.in, sock.cli.out, sock.cli.sent,
                     SubSeq(sock.up.in, n + 1, Len(sock.up.in)), sock.up.out, sock.up.sent)
  <1> DEFINE v == SubSeq(sock.cli.in, n + 1, Len(sock.cli.in))
             w == SubSeq(sock.up.in, n + 1, Len(sock.up.in))
  <1>1. Take("cli", n) = [sock EXCEPT !.cli.in = v]
    BY Zenon DEF Take
  <1>2. Take("up", n) = [sock EXCEPT !.up.in = w]
    BY Zenon DEF Take
  <1> HIDE DEF v, w
  <1>3. /\ SockIs([sock EXCEPT !.cli.in = v], v, sock.cli.out, sock.cli.sent, sock.up.in, sock.up.out, sock.up.sent)
        /\ SockIs([sock EXCEPT !.up.in = w], sock.cli.in, sock.cli.out, sock.cli.sent, w, sock.up.out, sock.up.sent)
    BY StreamFlat, Zenon
  <1> QED BY <1>1, <1>2, <1>3, Zenon DEF TookCli, v, w

\* Nothing is read from an empty buffer.
LEMMA SomeIn ==
    ASSUME LabelsOK, UpInv, sock.cli.in # << >>
    PROVE  1 \in 0..Len(sock.cli.in) /\ \A n \in 1..Len(sock.cli.in) : n \in 0..Len(sock.cli.in)
  <1>1. PICK s \in Scripts(peer.is, peer.asked), N \in Nat, r \in Nat, x \in Nat :
            UpOK(s, N, r, x) /\ Len(s) \in Nat
    BY UpStream, Zenon
  <1>2. r <= N /\ sock.cli.in = Seg(s, r, N)
    BY <1>1 DEF UpOK
  <1>3. SegIs(s, r, N, sock.cli.in)
    BY <1>1, <1>2, SegFact, Zenon
  <1>4. Len(sock.cli.in) = N - r /\ N # r
    BY <1>3, Zenon DEF SegIs
  <1> QED BY <1>1, <1>2, <1>4

\* The handler is done.
LEMMA Ending ==
    ASSUME ProxyInv, srv.at # "none", srv.at # "relay" \/ \A d \in Ways : copy[d].at = "done",
           peer' = peer, copy' = copy, SrvAt(srv, srv', "done"), SockOK(sock'),
           sock'.cli.sent = sock.cli.sent, sock'.up.out = sock.up.out,
           \/ sock'.cli.in = sock.cli.in
           \/ \E n \in 0..Len(sock.cli.in) :
                sock'.cli.in = SubSeq(sock.cli.in, n + 1, Len(sock.cli.in)),
           DownInv'
    PROVE  ProxyInv'
  <1> USE DEF ProxyInv
  <1>1. /\ SrvOK(srv') /\ srv'.at = "done" /\ srv'.buf = srv.buf /\ srv'.addr = srv.addr /\ srv'.tcp = srv.tcp
        /\ srv'.udp.relay = srv.udp.relay /\ srv'.udp.forwarded = srv.udp.forwarded
    BY Zenon DEF SrvAt, SrvIs
  <1>2. ShapeOK'
    BY <1>1, Zenon DEF ShapeOK
  <1>3. LabelsOK'
    <2>1. peer'.at # "idle"
      BY DEF LabelsOK
    <2>2. "done" \in HttpLabels /\ "done" \in SocksLabels
      BY DEF HttpLabels, SocksLabels
    <2>3. \A d \in Ways : copy[d].data = << >>
      BY DEF LabelsOK
    <2> QED BY <1>1, <2>1, <2>2, <2>3 DEF LabelsOK
  <1>4. UpInv'
    <2>1. CASE sock'.cli.in = sock.cli.in
      BY <1>1, <2>1, UpFrame, Zenon
    <2>2. ASSUME NEW n \in 0..Len(sock.cli.in),
                 sock'.cli.in = SubSeq(sock.cli.in, n + 1, Len(sock.cli.in))
          PROVE  UpInv'
      BY <1>1, <2>2, UpTake
    <2> QED BY <2>1, <2>2, Zenon
  <1>5. AddrInv'
    <2>1. Asked' = Asked
      BY Zenon DEF Asked
    <2> QED BY <1>1, Zenon DEF AddrInv
  <1>6. ClientInv'
    BY <1>1, ZenonT(30) DEF ClientInv
  <1> QED BY <1>2, <1>3, <1>4, <1>5, <1>6

\* The handler is done and has said nothing more.
LEMMA EndingQuiet ==
    ASSUME ProxyInv, srv.at # "none", srv.at # "relay" \/ \A d \in Ways : copy[d].at = "done",
           peer' = peer, copy' = copy, SrvAt(srv, srv', "done"), SockOK(sock'),
           sock'.cli.sent = sock.cli.sent, sock'.up.out = sock.up.out,
           \/ sock'.cli.in = sock.cli.in
           \/ \E n \in 0..Len(sock.cli.in) :
                sock'.cli.in = SubSeq(sock.cli.in, n + 1, Len(sock.cli.in)),
           sock'.cli.out = sock.cli.out, sock'.up.in = sock.up.in, sock'.up.sent = sock.up.sent
    PROVE  ProxyInv'
  <1>1. srv'.at = "done" /\ srv'.tcp = srv.tcp /\ srv'.udp.relay = srv.udp.relay
    BY Zenon DEF SrvAt, SrvIs
  <1>2. GoesOn(srv.at, srv'.at)
    BY <1>1, Zenon DEF GoesOn
  <1>3. DownInv'
    BY <1>1, <1>2, DownFrame, Zenon DEF ProxyInv
  <1> QED BY <1>3, Ending

\* The loss of the peer.
LEMMA PeerLostStep ==
    ASSUME ProxyInv, PeerLost
    PROVE  ProxyInv'
  <1>1. SockOK(sock) /\ SrvOK(srv)
    BY DEF ProxyInv, ShapeOK
  <1>2. SameSock(sock, sock') /\ SrvAt(srv, srv', "done")
    BY <1>1, EndedFlat, Zenon DEF PeerLost
  <1>3. srv.at # "none" /\ srv.at # "relay" /\ peer' = peer /\ copy' = copy
    BY DEF PeerLost
  <1> QED BY <1>2, <1>3, EndingQuiet DEF SameSock, SockIs

\* Both copies have ended.
LEMMA RelayDoneStep ==
    ASSUME ProxyInv, relay_done
    PROVE  ProxyInv'
  <1>1. SockOK(sock) /\ SrvOK(srv)
    BY DEF ProxyInv, ShapeOK
  <1>2. SameSock(sock, sock') /\ SrvAt(srv, srv', "done")
    BY <1>1, EndedFlat, Zenon DEF relay_done
  <1>3. Directions = Ways
    BY DEF Directions, Copies, Ways
  <1>4. srv.at # "none" /\ (\A d \in Ways : copy[d].at = "done") /\ peer' = peer /\ copy' = copy
    BY <1>3 DEF relay_done
  <1> QED BY <1>2, <1>4, EndingQuiet DEF SameSock, SockIs

\* Nothing but a flag of a connection changes.
LEMMA Frame ==
    ASSUME ProxyInv, peer' = peer, srv' = srv, copy' = copy, SameSock(sock, sock')
    PROVE  ProxyInv'
  <1> USE DEF ProxyInv
  <1>1. /\ SockOK(sock') /\ sock'.cli.in = sock.cli.in /\ sock'.cli.out = sock.cli.out
        /\ sock'.cli.sent = sock.cli.sent /\ sock'.up.in = sock.up.in /\ sock'.up.out = sock.up.out
        /\ sock'.up.sent = sock.up.sent
    BY Zenon DEF SameSock, SockIs
  <1>2. ShapeOK' /\ LabelsOK' /\ AddrInv' /\ ClientInv'
    BY <1>1, Zenon DEF ShapeOK, LabelsOK, AddrInv, ClientInv, Asked
  <1>3. UpInv'
    BY <1>1, UpFrame
  <1>4. GoesOn(srv.at, srv'.at)
    BY Zenon DEF GoesOn
  <1>5. DownInv'
    BY <1>1, <1>4, DownFrame
  <1> QED BY <1>2, <1>3, <1>5

\* SocksClient has its stream only after the verdict.
LEMMA NotYetOk ==
    ASSUME LabelsOK, DownInv,
           srv.at \in {"none", "negotiate", "head", "request", "resolve", "connect", "established"}
    PROVE  ~(peer.is = "SocksClient" /\ peer.at = "ok")
  <1> SUFFICES ASSUME peer.is = "SocksClient", peer.at = "ok" PROVE FALSE
    OBVIOUS
  <1>1. PICK a \in Seq(Methods \cup Replies), x \in Nat, y \in Nat : DownOK(a, x, y)
    BY DEF DownInv
  <1>2. Judged(FALSE, a)
    BY <1>1, Zenon DEF DownOK
  <1>3. a = << >> \/ Greeted(FALSE, a)
    BY <1>1, Zenon DEF DownOK
  <1> QED BY <1>2, <1>3, NotJudged, Zenon

\* A step of the handler before the relay keeps the labels.
LEMMA LabelsStep ==
    ASSUME LabelsOK, peer' = peer, copy' = copy, peer.at # "idle", srv.at \notin {"relay", "done"},
           srv'.at \in IF peer.is = "http" THEN HttpLabels ELSE SocksLabels
    PROVE  LabelsOK'
  <1>1. \A d \in Ways : copy[d].at = "copying" /\ copy[d].data = << >>
    BY DEF LabelsOK
  <1> QED BY <1>1, Zenon DEF LabelsOK

\* A step of the handler before the success keeps what SocksClient knows.
LEMMA ClientStep ==
    ASSUME ProxyInv, peer' = peer,
           srv.at \in {"none", "negotiate", "head", "request", "resolve", "connect", "established"}
    PROVE  ClientInv'
  <1>1. ~(peer.is = "SocksClient" /\ peer.at = "ok")
    BY NotYetOk DEF ProxyInv
  <1> QED BY <1>1 DEF ProxyInv, ClientInv

\* The accept loop.
LEMMA AcceptStep ==
    ASSUME ProxyInv, accept
    PROVE  ProxyInv'
  <1> USE DEF ProxyInv
  <1> DEFINE l == IF peer.is = "http" THEN "head" ELSE "negotiate"
  <1>1. /\ srv.at = "none" /\ peer.at # "idle" /\ peer' = peer /\ sock' = sock /\ copy' = copy
        /\ srv' = [NewHandler EXCEPT !.at = l]
    BY DEF accept
  <1>2. SrvIs(srv', l, << >>, NoAddress, NoAddress, "none", {})
    <2> HIDE DEF l
    <2> QED BY <1>1, NewFlat, Zenon
  <1>3. /\ SrvOK(srv') /\ srv'.at = l /\ srv'.buf = << >> /\ srv'.udp.relay = "none"
        /\ srv'.udp.forwarded = {}
    BY <1>2, Zenon DEF SrvIs
  <1>4. ShapeOK'
    BY <1>1, <1>3, Zenon DEF ShapeOK
  <1>5. LabelsOK'
    <2>1. srv'.at \in IF peer.is = "http" THEN HttpLabels ELSE SocksLabels
      BY <1>3 DEF HttpLabels, SocksLabels
    <2> QED BY <1>1, <2>1, LabelsStep
  <1>6. UpInv'
    BY <1>1, <1>3, UpAccept
  <1>7. DownInv'
    <2>1. GoesOn(srv.at, srv'.at)
      BY <1>1, <1>3 DEF GoesOn
    <2> QED BY <1>1, <2>1, DownFrame
  <1>8. AddrInv'
    BY <1>3 DEF AddrInv
  <1>9. ClientInv'
    BY <1>1, ClientStep
  <1> QED BY <1>4, <1>5, <1>6, <1>7, <1>8, <1>9

\* The loop ends, or is told to.
LEMMA LoopStep ==
    ASSUME ProxyInv, run_stops \/ shutdown
    PROVE  ProxyInv'
  <1>1. SockOK(sock) /\ "cli" \in Sides
    BY DEF ProxyInv, ShapeOK, Sides
  <1>2. SameSock(sock, sock) /\ SameSock(sock, [sock EXCEPT !["cli"].rst = TRUE])
    BY <1>1, FlagsFlat, Zenon
  <1>3. peer' = peer /\ srv' = srv /\ copy' = copy
    BY DEF run_stops, shutdown
  <1>4. sock' = sock \/ sock' = [sock EXCEPT !["cli"].rst = TRUE]
    BY DEF run_stops, shutdown
  <1>5. SameSock(sock, sock')
    BY <1>2, <1>4, Zenon
  <1> QED BY <1>3, <1>5, Frame

\* k is the connections, after the handler has read from the peer or not.
Reads(k) == SameSock(sock, k) \/ \E n \in 0..Len(sock.cli.in) : TookCli(k, n)

\* The handler ends after a read.
LEMMA EndsAfter ==
    ASSUME ProxyInv, NEW k, Reads(k), srv.at \notin {"none", "relay"}, peer' = peer, copy' = copy,
           SameSock(k, sock'), SrvAt(srv, srv', "done")
    PROVE  ProxyInv'
  <1>1. /\ SockOK(sock') /\ sock'.cli.in = k.cli.in /\ sock'.cli.out = k.cli.out
        /\ sock'.cli.sent = k.cli.sent /\ sock'.up.in = k.up.in /\ sock'.up.out = k.up.out
        /\ sock'.up.sent = k.up.sent
    BY Zenon DEF SameSock, SockIs
  <1>2. /\ k.cli.out = sock.cli.out /\ k.cli.sent = sock.cli.sent /\ k.up.in = sock.up.in
        /\ k.up.out = sock.up.out /\ k.up.sent = sock.up.sent
        /\ \/ k.cli.in = sock.cli.in
           \/ \E n \in 0..Len(sock.cli.in) : k.cli.in = SubSeq(sock.cli.in, n + 1, Len(sock.cli.in))
    BY Zenon DEF Reads, SameSock, SockIs, TookCli
  <1> QED BY <1>1, <1>2, EndingQuiet

\* What a read leaves are connections.
LEMMA ReadsOK ==
    ASSUME SockOK(sock), SrvOK(srv)
    PROVE  /\ \A k : Reads(k) => SockOK(k)
           /\ Reads(sock)
           /\ \A n \in 0..Len(sock.cli.in) : Reads(Take("cli", n)) /\ TookCli(Take("cli", n), n)
  <1>1. SameSock(sock, sock)
    <2>1. "cli" \in Sides
      BY DEF Sides
    <2> QED BY <2>1, FlagsFlat, Zenon
  <1>2. \A n \in 0..Len(sock.cli.in) : TookCli(Take("cli", n), n)
    BY TakeFlat, Zenon
  <1> QED BY <1>1, <1>2, Zenon DEF Reads, SameSock, SockIs, TookCli

\* The handler ends.
LEMMA EndsNow ==
    ASSUME ProxyInv, NEW k, Reads(k), srv.at \notin {"none", "relay"}, peer' = peer, copy' = copy,
           Ended(k)
    PROVE  ProxyInv'
  <1>1. SockOK(k) /\ SrvOK(srv)
    BY ReadsOK, Zenon DEF ProxyInv, ShapeOK
  <1>2. SameSock(k, sock') /\ SrvAt(srv, srv', "done")
    BY <1>1, EndedFlat, Zenon
  <1> QED BY <1>2, EndsAfter

\* The handler refuses, and ends.
LEMMA Refused ==
    ASSUME ProxyInv, NEW k, Reads(k), srv.at \in {"head", "request", "connect"},
           peer' = peer, copy' = copy, NEW code \in Codes, code # "Succeeded", Refuse(k, code)
    PROVE  ProxyInv'
  <1> DEFINE t == send_reply(code, "Ipv4")
  <1>1. SockOK(k) /\ SrvOK(srv)
    BY ReadsOK, Zenon DEF ProxyInv, ShapeOK
  <1>2. t \in Replies /\ t.bound # << >> /\ t.code = code
    BY ReplySent, Zenon
  <1>3. Answer(k, <<t>>, [srv EXCEPT !.at = "done"])
    BY Zenon DEF Refuse
  <1> HIDE DEF t
  <1>4. \/ SameSock(k, sock') /\ SrvAt(srv, srv', "done")
        \/ /\ SockIs(sock', k.cli.in, k.cli.out \o <<t>>, k.cli.sent, k.up.in, k.up.out, k.up.sent)
           /\ srv' = [srv EXCEPT !.at = "done"]
    BY <1>1, <1>3, AnswerFlat, Zenon
  <1>5. CASE SameSock(k, sock') /\ SrvAt(srv, srv', "done")
    BY <1>5, EndsAfter, Zenon
  <1>6. CASE /\ SockIs(sock', k.cli.in, k.cli.out \o <<t>>, k.cli.sent, k.up.in, k.up.out, k.up.sent)
             /\ srv' = [srv EXCEPT !.at = "done"]
    <2>1. SrvAt(srv, srv', "done")
      BY <1>1, <1>6, SrvFlat, Zenon
    <2>2. /\ SockOK(sock') /\ sock'.cli.in = k.cli.in /\ sock'.cli.out = k.cli.out \o <<t>>
          /\ sock'.cli.sent = k.cli.sent /\ sock'.up.in = k.up.in /\ sock'.up.out = k.up.out
          /\ sock'.up.sent = k.up.sent
      BY <1>6, Zenon DEF SockIs
    <2>3. /\ k.cli.out = sock.cli.out /\ k.cli.sent = sock.cli.sent /\ k.up.in = sock.up.in
          /\ k.up.out = sock.up.out /\ k.up.sent = sock.up.sent
          /\ \/ k.cli.in = sock.cli.in
             \/ \E n \in 0..Len(sock.cli.in) : k.cli.in = SubSeq(sock.cli.in, n + 1, Len(sock.cli.in))
      BY Zenon DEF Reads, SameSock, SockIs, TookCli
    <2>4. ~IsSuccess(t) /\ srv'.at = "done"
      BY <1>2, <2>1, ZenonT(30) DEF IsSuccess, SrvAt, SrvIs
    <2>5. DownInv'
      BY <1>2, <2>2, <2>3, <2>4, DownReply DEF ProxyInv
    <2> QED BY <2>1, <2>2, <2>3, <2>5, Ending
  <1> QED BY <1>4, <1>5, <1>6

\* A handler at work has a peer that has connected.
LEMMA PeerThere ==
    ASSUME LabelsOK, srv.at # "none"
    PROVE  peer.at # "idle"
  BY DEF LabelsOK

\* The method is chosen.
LEMMA NegotiateStep ==
    ASSUME ProxyInv, negotiate_method
    PROVE  ProxyInv'
  <1> DEFINE k == Take("cli", 1)
             to(l) == [srv EXCEPT !.at = l]
  <1>1. srv.at = "negotiate" /\ sock.cli.in # << >> /\ peer' = peer /\ copy' = copy
    BY DEF negotiate_method
  <1>2. SockOK(sock) /\ SrvOK(srv) /\ LabelsOK /\ UpInv /\ DownInv
    BY DEF ProxyInv, ShapeOK
  <1>3. 1 \in 0..Len(sock.cli.in)
    BY <1>1, <1>2, SomeIn
  <1>4. Reads(k) /\ TookCli(k, 1) /\ SockOK(k)
    BY <1>2, <1>3, ReadsOK, Zenon
  <1>5. \/ Ended(k)
        \/ \E m \in {"NO_AUTH", "USERPASS", "NONE_ACCEPTABLE"}, l \in {"request", "done"} :
              Answer(k, <<Method(m)>>, to(l))
    <2> DEFINE t == Head(sock.cli.in)
    <2>1. CASE t.version # 5
      BY <2>1, Zenon DEF negotiate_method
    <2>2. CASE t.version = 5 /\ "NO_AUTH" \in t.methods
      <3>1. Answer(k, <<Method("NO_AUTH")>>, to("request"))
        BY <2>2, Zenon DEF negotiate_method
      <3> QED BY <3>1
    <2>3. CASE t.version = 5 /\ "NO_AUTH" \notin t.methods /\ AuthEnabled /\ "USERPASS" \in t.methods
      <3>1. Answer(k, <<Method("USERPASS")>>, to("request"))
        BY <2>3, Zenon DEF negotiate_method
      <3> QED BY <3>1
    <2>4. CASE t.version = 5 /\ "NO_AUTH" \notin t.methods /\ ~(AuthEnabled /\ "USERPASS" \in t.methods)
      <3>1. Answer(k, <<Method("NONE_ACCEPTABLE")>>, to("done"))
        BY <2>4, Zenon DEF negotiate_method
      <3> QED BY <3>1
    <2> QED BY <2>1, <2>2, <2>3, <2>4, Zenon
  <1> HIDE DEF k, to
  <1>6. CASE Ended(k)
    BY <1>1, <1>4, <1>6, EndsNow
  <1>7. ASSUME NEW m \in {"NO_AUTH", "USERPASS", "NONE_ACCEPTABLE"}, NEW l \in {"request", "done"},
               Answer(k, <<Method(m)>>, to(l))
        PROVE  ProxyInv'
    <2> DEFINE t == Method(m)
    <2>1. t \in Methods
      BY OtherAnswers, Zenon
    <2> HIDE DEF t
    <2>2. \/ SameSock(k, sock') /\ SrvAt(srv, srv', "done")
          \/ /\ SockIs(sock', k.cli.in, k.cli.out \o <<t>>, k.cli.sent, k.up.in, k.up.out, k.up.sent)
             /\ srv' = to(l)
      BY <1>2, <1>4, <1>7, AnswerFlat, Zenon DEF t
    <2>3. CASE SameSock(k, sock') /\ SrvAt(srv, srv', "done")
      BY <1>1, <1>4, <2>3, EndsAfter
    <2>4. CASE /\ SockIs(sock', k.cli.in, k.cli.out \o <<t>>, k.cli.sent, k.up.in, k.up.out, k.up.sent)
               /\ srv' = to(l)
      <3>1. SrvAt(srv, srv', l)
        BY <1>2, <2>4, SrvFlat, Zenon DEF to
      <3>2. /\ SrvOK(srv') /\ srv'.at = l /\ srv'.buf = srv.buf /\ srv'.addr = srv.addr /\ srv'.tcp = srv.tcp
            /\ srv'.udp.relay = srv.udp.relay /\ srv'.udp.forwarded = srv.udp.forwarded
        BY <3>1, Zenon DEF SrvAt, SrvIs
      <3>3. /\ SockOK(sock') /\ sock'.cli.in = SubSeq(sock.cli.in, 1 + 1, Len(sock.cli.in))
            /\ sock'.cli.out = sock.cli.out \o <<t>>
            /\ sock'.cli.sent = sock.cli.sent /\ sock'.up.in = sock.up.in /\ sock'.up.out = sock.up.out
            /\ sock'.up.sent = sock.up.sent
        BY <1>4, <2>4, Zenon DEF SockIs, TookCli
      <3>4. DownInv'
        BY <1>1, <1>2, <2>1, <3>2, <3>3, DownMethod, Zenon
      <3>5. CASE l = "done"
        <4>1. \E n \in 0..Len(sock.cli.in) : sock'.cli.in = SubSeq(sock.cli.in, n + 1, Len(sock.cli.in))
          BY <1>3, <3>3, Zenon
        <4> QED BY <1>1, <3>1, <3>3, <3>4, <3>5, <4>1, Ending
      <3>6. CASE l = "request"
        <4>1. ShapeOK'
          BY <1>1, <3>2, <3>3, Zenon DEF ProxyInv, ShapeOK
        <4>2. LabelsOK'
          <5>1. peer.is # "http"
            BY <1>1, <1>2 DEF LabelsOK, HttpLabels
          <5>2. "request" \in SocksLabels
            BY DEF SocksLabels
          <5> QED BY <1>1, <1>2, <3>2, <3>6, <5>1, <5>2, PeerThere, LabelsStep
        <4>3. UpInv'
          BY <1>1, <1>2, <1>3, <3>2, <3>3, <3>6, UpTake
        <4>4. AddrInv'
          BY <1>1, <3>2, <3>6, Zenon DEF ProxyInv, AddrInv
        <4>5. ClientInv'
          BY <1>1, ClientStep
        <4> QED BY <3>4, <4>1, <4>2, <4>3, <4>4, <4>5 DEF ProxyInv
      <3> QED BY <3>5, <3>6
    <2> QED BY <2>2, <2>3, <2>4
  <1> QED BY <1>5, <1>6, <1>7, Zenon

\* What the handler reads after the greeting is the request of the peer, and the
\* address in it the one that was asked for, or none.
LEMMA RequestIs ==
    ASSUME LabelsOK, UpInv, srv.at = "request", sock.cli.in # << >>
    PROVE  LET t == Head(sock.cli.in) IN
           /\ peer.is # "http"
           /\ peer.is = "SocksClient" => t.cmd = "CONNECT"
           /\ \/ read_address(t.addr) = NoAddress
              \/ read_address(t.addr).addr = Asked /\ read_address(t.addr).port = Port
  <1> DEFINE t == Head(sock.cli.in)
             p == peer.is
             q == peer.asked
  <1>1. PICK s \in Scripts(p, q), N \in Nat, r \in Nat, x \in Nat : UpOK(s, N, r, x) /\ Len(s) \in Nat
    BY UpStream, Zenon
  <1>2. p # "http" /\ p \in Peers /\ q \in Addrs
    BY DEF LabelsOK, HttpLabels
  <1>3. ScriptFacts(p, q, s)
    BY <1>2, ScriptIs, Zenon
  <1>4. r = 1 /\ r <= N /\ sock.cli.in = Seg(s, r, N)
    BY <1>1 DEF UpOK
  <1>5. t = Tok(s, r + 1)
    <2>1. SegIs(s, r, N, sock.cli.in)
      BY <1>4, SegFact, Zenon
    <2>2. N # r
      BY <2>1, Zenon DEF SegIs
    <2>3. r < N
      BY <1>4, <2>2
    <2>4. Head(Seg(s, r, N)) = Tok(s, r + 1)
      BY <2>3, SegHead
    <2> QED BY <1>4, <2>4, Zenon
  <1> HIDE DEF t, p, q
  <1>6. SocksScript(s, q) /\ (p = "SocksClient" => s[2].cmd = "CONNECT")
    BY <1>2, <1>3, Zenon DEF ScriptFacts
  <1>7. t = s[2]
    <2>1. r + 1 = 2 /\ 2 <= Len(s)
      BY <1>4, <1>6 DEF SocksScript
    <2> QED BY <1>5, <2>1, Zenon DEF Tok
  <1>8. t.addr \in {encode_address(q, Port), Unsupported}
    BY <1>6, <1>7, Zenon DEF SocksScript
  <1>9. q \in AddrSpec /\ Asked = q
    BY <1>2, ProxyAssumption DEF Asked, p, q
  <1>10. << >> \in Seq(Nat)
    OBVIOUS
  <1>11. read_address(encode_address(q, Port)) = [addr |-> q, port |-> Port, used |-> Len(encode_address(q, Port))]
    BY <1>9, <1>10, ReadBack, Zenon
  <1>12. \/ read_address(t.addr) = NoAddress
         \/ read_address(t.addr).addr = Asked /\ read_address(t.addr).port = Port
    <2>1. CASE t.addr = Unsupported
      BY <2>1, ReadUnsupported, Zenon
    <2>2. CASE t.addr = encode_address(q, Port)
      <3> DEFINE u == read_address(t.addr)
                 n == Len(encode_address(q, Port))
      <3>1. u = [addr |-> q, port |-> Port, used |-> n]
        BY <1>11, <2>2, Zenon
      <3> HIDE DEF u, n
      <3>2. u.addr = q /\ u.port = Port
        BY <3>1
      <3> QED BY <1>9, <3>2, Zenon DEF u
    <2> QED BY <1>8, <2>1, <2>2, Zenon
  <1> QED BY <1>2, <1>6, <1>7, <1>12, Zenon DEF t, p

\* The request is read, and refused or acted upon.
LEMMA RequestStep ==
    ASSUME ProxyInv, read_request
    PROVE  ProxyInv'
  <1> DEFINE t == Head(sock.cli.in)
             k == Take("cli", 1)
             a == read_address(t.addr)
             ok == send_reply("Succeeded", "Ipv4")
             udp == [srv EXCEPT !.at = "udp", !.udp.relay = "running"]
  <1>1. srv.at = "request" /\ sock.cli.in # << >> /\ peer' = peer /\ copy' = copy
    BY DEF read_request
  <1>2. SockOK(sock) /\ SrvOK(srv) /\ LabelsOK /\ UpInv /\ DownInv /\ peer.at # "idle"
    BY <1>1, PeerThere DEF ProxyInv, ShapeOK
  <1>3. 1 \in 0..Len(sock.cli.in)
    BY <1>1, <1>2, SomeIn
  <1>4. Reads(k) /\ TookCli(k, 1) /\ SockOK(k)
    BY <1>2, <1>3, ReadsOK, Zenon
  <1>5. /\ peer.is # "http" /\ (peer.is = "SocksClient" => t.cmd = "CONNECT")
        /\ a # NoAddress => a.addr = Asked /\ a.port = Port
    BY <1>1, <1>2, RequestIs, Zenon
  <1>6. \/ Ended(k)
        \/ Refuse(k, "CommandNotSupported")
        \/ t.cmd = "UDP_ASSOCIATE" /\ Answer(k, <<ok>>, udp)
        \/ a # NoAddress /\ sock' = k /\ srv' = [srv EXCEPT !.at = "resolve", !.addr = a]
    <2>1. CASE t.cmd = "other" \/ a = NoAddress
      BY <2>1, Zenon DEF read_request
    <2>2. CASE t.cmd = "BIND" /\ a # NoAddress
      BY <2>2, Zenon DEF read_request
    <2>3. CASE t.cmd = "UDP_ASSOCIATE" /\ a # NoAddress
      BY <2>3, Zenon DEF read_request
    <2>4. CASE t.cmd \notin {"other", "BIND", "UDP_ASSOCIATE"} /\ a # NoAddress
      BY <2>4, Zenon DEF read_request
    <2> QED BY <2>1, <2>2, <2>3, <2>4, Zenon
  <1>7. "resolve" \in SocksLabels /\ "udp" \in SocksLabels
    BY DEF SocksLabels
  <1> HIDE DEF t, k, a, ok, udp
  <1>8. CASE Ended(k)
    BY <1>1, <1>4, <1>8, EndsNow
  <1>9. CASE Refuse(k, "CommandNotSupported")
    <2>1. "CommandNotSupported" \in Codes
      BY DEF Codes
    <2> QED BY <1>1, <1>4, <1>9, <2>1, Refused
  <1>10. CASE t.cmd = "UDP_ASSOCIATE" /\ Answer(k, <<ok>>, udp)
    <2>1. "Succeeded" \in Codes
      BY DEF Codes
    <2>2. ok \in Replies /\ ok.bound # << >> /\ ok.code = "Succeeded" /\ ok.is = "reply"
      BY <2>1, ReplySent, Zenon DEF ok
    <2>3. \/ SameSock(k, sock') /\ SrvAt(srv, srv', "done")
          \/ /\ SockIs(sock', k.cli.in, k.cli.out \o <<ok>>, k.cli.sent, k.up.in, k.up.out, k.up.sent)
             /\ srv' = udp
      BY <1>2, <1>4, <1>10, AnswerFlat, Zenon
    <2>4. CASE SameSock(k, sock') /\ SrvAt(srv, srv', "done")
      BY <1>1, <1>4, <2>4, EndsAfter
    <2>5. CASE /\ SockIs(sock', k.cli.in, k.cli.out \o <<ok>>, k.cli.sent, k.up.in, k.up.out, k.up.sent)
               /\ srv' = udp
      <3>1. SrvIs(srv', "udp", srv.buf, srv.addr, srv.tcp, "running", srv.udp.forwarded)
        BY <1>2, <2>5, SrvFlat, Zenon DEF udp
      <3>2. /\ SrvOK(srv') /\ srv'.at = "udp" /\ srv'.buf = srv.buf /\ srv'.tcp = srv.tcp
            /\ srv'.udp.relay = "running" /\ srv'.udp.forwarded = srv.udp.forwarded
        BY <3>1, Zenon DEF SrvIs
      <3>3. /\ SockOK(sock') /\ sock'.cli.in = SubSeq(sock.cli.in, 1 + 1, Len(sock.cli.in))
            /\ sock'.cli.out = sock.cli.out \o <<ok>>
            /\ sock'.cli.sent = sock.cli.sent /\ sock'.up.in = sock.up.in /\ sock'.up.out = sock.up.out
            /\ sock'.up.sent = sock.up.sent
        BY <1>4, <2>5, Zenon DEF SockIs, TookCli
      <3>4. IsSuccess(ok)
        BY <2>2, Zenon DEF IsSuccess, IsReply
      <3>5. DownInv'
        BY <1>1, <1>2, <2>2, <3>2, <3>3, <3>4, DownReply
      <3>6. ShapeOK'
        BY <1>1, <3>2, <3>3, Zenon DEF ProxyInv, ShapeOK
      <3>7. LabelsOK'
        BY <1>1, <1>2, <1>5, <1>7, <3>2, LabelsStep, Zenon
      <3>8. UpInv'
        BY <1>1, <1>2, <1>3, <3>2, <3>3, UpTake
      <3>9. AddrInv'
        <4>1. peer.is = "socks"
          <5>1. peer.is \in {"SocksClient", "socks", "http"}
            <6>1. peer.is \in Peers
              BY <1>2 DEF LabelsOK
            <6>2. Peers \subseteq {"SocksClient", "socks", "http"}
              BY ProxyAssumption
            <6> QED BY <6>1, <6>2, Zenon
          <5>2. t.cmd # "CONNECT"
            BY <1>10, Zenon
          <5> QED BY <1>5, <5>1, <5>2, Zenon
        <4> QED BY <1>1, <3>2, <4>1, Zenon DEF ProxyInv, AddrInv
      <3>10. ClientInv'
        BY <1>1, ClientStep
      <3> QED BY <3>5, <3>6, <3>7, <3>8, <3>9, <3>10 DEF ProxyInv
    <2> QED BY <2>3, <2>4, <2>5
  <1>11. CASE a # NoAddress /\ sock' = k /\ srv' = [srv EXCEPT !.at = "resolve", !.addr = a]
    <2>1. SrvIs(srv', "resolve", srv.buf, a, srv.tcp, srv.udp.relay, srv.udp.forwarded)
      BY <1>2, <1>11, SrvFlat, Zenon
    <2>2. /\ SrvOK(srv') /\ srv'.at = "resolve" /\ srv'.buf = srv.buf /\ srv'.addr = a /\ srv'.tcp = srv.tcp
          /\ srv'.udp.relay = srv.udp.relay /\ srv'.udp.forwarded = srv.udp.forwarded
      BY <2>1, Zenon DEF SrvIs
    <2>3. /\ SockOK(sock') /\ sock'.cli.in = SubSeq(sock.cli.in, 1 + 1, Len(sock.cli.in))
          /\ sock'.cli.out = sock.cli.out
          /\ sock'.cli.sent = sock.cli.sent /\ sock'.up.in = sock.up.in /\ sock'.up.out = sock.up.out
          /\ sock'.up.sent = sock.up.sent
      BY <1>4, <1>11, Zenon DEF SockIs, TookCli
    <2>4. ShapeOK'
      BY <1>1, <2>2, <2>3, Zenon DEF ProxyInv, ShapeOK
    <2>5. LabelsOK'
      BY <1>1, <1>2, <1>5, <1>7, <2>2, LabelsStep
    <2>6. UpInv'
      BY <1>1, <1>2, <1>3, <2>2, <2>3, UpTake
    <2>7. DownInv'
      <3>1. GoesOn(srv.at, srv'.at)
        BY <1>1, <2>2 DEF GoesOn
      <3> QED BY <1>1, <1>2, <2>2, <2>3, <3>1, DownFrame
    <2>8. AddrInv'
      <3>1. Asked' = Asked
        BY <1>1, Zenon DEF Asked
      <3> QED BY <1>1, <1>5, <1>11, <2>2, <3>1, Zenon DEF ProxyInv, AddrInv
    <2>9. ClientInv'
      BY <1>1, ClientStep
    <2> QED BY <2>4, <2>5, <2>6, <2>7, <2>8, <2>9 DEF ProxyInv
  <1> QED BY <1>6, <1>8, <1>9, <1>10, <1>11, Zenon

\* The address is resolved.
LEMMA ResolveStep ==
    ASSUME ProxyInv, to_socket_addr
    PROVE  ProxyInv'
  <1>1. srv.at = "resolve" /\ peer' = peer /\ copy' = copy
    BY DEF to_socket_addr
  <1>2. SockOK(sock) /\ SrvOK(srv) /\ LabelsOK /\ UpInv /\ DownInv /\ peer.at # "idle"
    BY <1>1, PeerThere DEF ProxyInv, ShapeOK
  <1>3. CASE Ended(sock)
    <2>1. Reads(sock)
      BY <1>2, ReadsOK, Zenon
    <2> QED BY <1>1, <1>3, <2>1, EndsNow
  <1>4. CASE srv' = [srv EXCEPT !.at = "connect"] /\ sock' = sock
    <2>1. SrvAt(srv, srv', "connect")
      BY <1>2, <1>4, SrvFlat, Zenon
    <2>2. /\ SrvOK(srv') /\ srv'.at = "connect" /\ srv'.buf = srv.buf /\ srv'.addr = srv.addr /\ srv'.tcp = srv.tcp
          /\ srv'.udp.relay = srv.udp.relay /\ srv'.udp.forwarded = srv.udp.forwarded
      BY <2>1, Zenon DEF SrvAt, SrvIs
    <2>3. ShapeOK'
      BY <1>1, <1>4, <2>2, Zenon DEF ProxyInv, ShapeOK
    <2>4. LabelsOK'
      <3>1. "connect" \in SocksLabels /\ "connect" \in HttpLabels
        BY DEF SocksLabels, HttpLabels
      <3> QED BY <1>1, <1>2, <2>2, <3>1, LabelsStep
    <2>5. UpInv'
      BY <1>1, <1>2, <1>4, <2>2, UpResolved
    <2>6. DownInv'
      <3>1. GoesOn(srv.at, srv'.at)
        BY <1>1, <2>2 DEF GoesOn
      <3> QED BY <1>1, <1>2, <1>4, <2>2, <3>1, DownFrame
    <2>7. AddrInv'
      <3>1. Asked' = Asked
        BY <1>1, Zenon DEF Asked
      <3> QED BY <1>1, <2>2, <3>1, Zenon DEF ProxyInv, AddrInv
    <2>8. ClientInv'
      BY <1>1, ClientStep
    <2> QED BY <2>3, <2>4, <2>5, <2>6, <2>7, <2>8 DEF ProxyInv
  <1> QED BY <1>3, <1>4, Zenon DEF to_socket_addr

\* The handler connects to the address, or refuses.
LEMMA ConnectUpstreamStep ==
    ASSUME ProxyInv, connect_upstream
    PROVE  ProxyInv'
  <1>1. srv.at = "connect" /\ peer' = peer /\ copy' = copy
    BY DEF connect_upstream
  <1>2. SockOK(sock) /\ SrvOK(srv) /\ LabelsOK /\ UpInv /\ DownInv /\ peer.at # "idle"
    BY <1>1, PeerThere DEF ProxyInv, ShapeOK
  <1>3. \/ srv' = [srv EXCEPT !.at = "established", !.tcp = srv.addr] /\ sock' = sock
        \/ \E code \in Codes : code # "Succeeded" /\ Refuse(sock, code)
    BY DEF connect_upstream, Codes
  <1>4. ASSUME NEW code \in Codes, code # "Succeeded", Refuse(sock, code)
        PROVE  ProxyInv'
    <2>1. Reads(sock)
      BY <1>2, ReadsOK, Zenon
    <2> QED BY <1>1, <1>4, <2>1, Refused
  <1>5. CASE srv' = [srv EXCEPT !.at = "established", !.tcp = srv.addr] /\ sock' = sock
    <2>1. SrvIs(srv', "established", srv.buf, srv.addr, srv.addr, srv.udp.relay, srv.udp.forwarded)
      BY <1>2, <1>5, SrvFlat, Zenon
    <2>2. /\ SrvOK(srv') /\ srv'.at = "established" /\ srv'.buf = srv.buf /\ srv'.addr = srv.addr
          /\ srv'.tcp = srv.addr /\ srv'.udp.relay = srv.udp.relay /\ srv'.udp.forwarded = srv.udp.forwarded
      BY <2>1, Zenon DEF SrvIs
    <2>3. ShapeOK'
      BY <1>1, <1>5, <2>2, Zenon DEF ProxyInv, ShapeOK
    <2>4. LabelsOK'
      <3>1. "established" \in SocksLabels /\ "established" \in HttpLabels
        BY DEF SocksLabels, HttpLabels
      <3> QED BY <1>1, <1>2, <2>2, <3>1, LabelsStep
    <2>5. UpInv'
      BY <1>1, <1>2, <1>5, <2>2, UpConnected
    <2>6. DownInv'
      <3>1. GoesOn(srv.at, srv'.at)
        BY <1>1, <2>2 DEF GoesOn
      <3> QED BY <1>1, <1>2, <1>5, <2>2, <3>1, DownFrame
    <2>7. AddrInv'
      <3>1. Asked' = Asked
        BY <1>1, Zenon DEF Asked
      <3> QED BY <1>1, <2>2, <3>1, Zenon DEF ProxyInv, AddrInv
    <2>8. ClientInv'
      BY <1>1, ClientStep
    <2> QED BY <2>3, <2>4, <2>5, <2>6, <2>7, <2>8 DEF ProxyInv
  <1> QED BY <1>3, <1>4, <1>5, Zenon

\* The success that a peer is told.
LEMMA SuccessIs ==
    /\ Success \in Replies /\ IsSuccess(Success)
    /\ peer.is = "http" \/ Success.bound # << >>
  <1>1. CASE peer.is = "http"
    <2>1. Success = Reply("Succeeded", << >>)
      BY <1>1, Zenon DEF Success
    <2> QED BY <1>1, <2>1, OtherAnswers, Zenon
  <1>2. CASE peer.is # "http"
    <2> DEFINE kind == srv.addr.addr.kind
    <2>1. Success = send_reply("Succeeded", kind)
      BY <1>2, Zenon DEF Success
    <2>2. "Succeeded" \in Codes
      BY DEF Codes
    <2> HIDE DEF kind
    <2> DEFINE t == send_reply("Succeeded", kind)
    <2>3. t \in Replies /\ t.bound # << >> /\ t.code = "Succeeded" /\ t.is = "reply"
      BY <2>2, ReplySent, Zenon
    <2> QED BY <2>1, <2>3, Zenon DEF IsSuccess, IsReply
  <1> QED BY <1>1, <1>2, Zenon

\* The success is told.
LEMMA EstablishedStep ==
    ASSUME ProxyInv, established
    PROVE  ProxyInv'
  <1> DEFINE t == Success
             l == IF srv.buf = << >> THEN "relay" ELSE "early"
             next == [srv EXCEPT !.at = l]
  <1>1. srv.at = "established" /\ peer' = peer /\ copy' = copy /\ Answer(sock, <<t>>, next)
    BY Zenon DEF established
  <1>2. SockOK(sock) /\ SrvOK(srv) /\ LabelsOK /\ UpInv /\ DownInv /\ peer.at # "idle"
    BY <1>1, PeerThere DEF ProxyInv, ShapeOK
  <1>3. t \in Replies /\ IsSuccess(t) /\ (peer.is = "http" \/ t.bound # << >>)
    BY SuccessIs, Zenon
  <1>4. l = (IF srv.buf = << >> THEN "relay" ELSE "early") /\ (l = "relay" \/ l = "early")
    BY Zenon
  <1> HIDE DEF t, l
  <1>5. \/ SameSock(sock, sock') /\ SrvAt(srv, srv', "done")
        \/ /\ SockIs(sock', sock.cli.in, sock.cli.out \o <<t>>, sock.cli.sent, sock.up.in, sock.up.out, sock.up.sent)
           /\ srv' = next
    BY <1>1, <1>2, AnswerFlat, Zenon
  <1>6. CASE SameSock(sock, sock') /\ SrvAt(srv, srv', "done")
    <2>1. Reads(sock)
      BY <1>2, ReadsOK, Zenon
    <2> QED BY <1>1, <1>6, <2>1, EndsAfter, Zenon
  <1>7. CASE /\ SockIs(sock', sock.cli.in, sock.cli.out \o <<t>>, sock.cli.sent, sock.up.in, sock.up.out, sock.up.sent)
             /\ srv' = next
    <2>1. SrvAt(srv, srv', l)
      BY <1>2, <1>7, SrvFlat, Zenon
    <2>2. /\ SrvOK(srv') /\ srv'.at = l /\ srv'.buf = srv.buf /\ srv'.addr = srv.addr /\ srv'.tcp = srv.tcp
          /\ srv'.udp.relay = srv.udp.relay /\ srv'.udp.forwarded = srv.udp.forwarded
      BY <2>1, Zenon DEF SrvAt, SrvIs
    <2>3. /\ SockOK(sock') /\ sock'.cli.in = sock.cli.in /\ sock'.cli.out = sock.cli.out \o <<t>>
          /\ sock'.cli.sent = sock.cli.sent /\ sock'.up.in = sock.up.in /\ sock'.up.out = sock.up.out
          /\ sock'.up.sent = sock.up.sent
      BY <1>7, Zenon DEF SockIs
    <2>4. ShapeOK'
      BY <1>1, <2>2, <2>3, Zenon DEF ProxyInv, ShapeOK
    <2>5. LabelsOK'
      <3>1. CASE peer.is = "http"
        <4>1. l \in HttpLabels
          BY <1>4 DEF HttpLabels
        <4> QED BY <1>1, <1>2, <2>2, <3>1, <4>1, LabelsStep
      <3>2. CASE peer.is # "http"
        <4>1. srv.buf = << >>
          <5>1. PICK s \in Scripts(peer.is, peer.asked), N \in Nat, r \in Nat, x \in Nat :
                    UpOK(s, N, r, x) /\ Len(s) \in Nat
            BY <1>2, UpStream, Zenon
          <5> QED BY <3>2, <5>1 DEF UpOK
        <4>2. l \in SocksLabels
          BY <1>4, <4>1 DEF SocksLabels
        <4> QED BY <1>1, <1>2, <2>2, <3>2, <4>2, LabelsStep
      <3> QED BY <3>1, <3>2
    <2>6. UpInv'
      BY <1>1, <1>2, <1>4, <2>2, <2>3, UpEstablished
    <2>7. srv.addr.addr = Asked /\ srv.addr.port = Port /\ srv.tcp = srv.addr
      BY <1>1 DEF ProxyInv, AddrInv
    <2>8. Asked' = Asked
      BY <1>1, Zenon DEF Asked
    <2>9. DownInv'
      <3>1. Connected'
        BY <2>2, <2>7, <2>8, Zenon DEF Connected
      <3>2. srv'.at \in {"udp", "early", "relay"}
        BY <1>4, <2>2
      <3> QED BY <1>1, <1>2, <1>3, <2>3, <3>1, <3>2, DownReply, Zenon
    <2>10. AddrInv'
      <3>1. srv'.at # "udp"
        BY <1>4, <2>2
      <3> QED BY <1>1, <2>2, <2>7, <2>8, <3>1, Zenon DEF ProxyInv, AddrInv
    <2>11. ClientInv'
      BY <1>1, ClientStep
    <2> QED BY <2>4, <2>5, <2>6, <2>9, <2>10, <2>11 DEF ProxyInv
  <1> QED BY <1>5, <1>6, <1>7, Zenon

\* What came with the head of the request goes to the far end.
LEMMA EarlyStep ==
    ASSUME ProxyInv, early
    PROVE  ProxyInv'
  <1> DEFINE o == sock.up.out \o srv.buf
  <1>1. srv.at = "early" /\ peer' = peer /\ copy' = copy
    BY DEF early
  <1>2. SockOK(sock) /\ SrvOK(srv) /\ LabelsOK /\ UpInv /\ DownInv /\ peer.at # "idle"
    BY <1>1, PeerThere DEF ProxyInv, ShapeOK
  <1>3. CASE Ended(sock)
    <2>1. Reads(sock)
      BY <1>2, ReadsOK, Zenon
    <2> QED BY <1>1, <1>3, <2>1, EndsNow, Zenon
  <1>4. CASE sock' = [sock EXCEPT !.up.out = o] /\ srv' = [srv EXCEPT !.at = "relay"]
    <2>1. SrvAt(srv, srv', "relay")
      BY <1>2, <1>4, SrvFlat, Zenon
    <2>2. /\ SrvOK(srv') /\ srv'.at = "relay" /\ srv'.buf = srv.buf /\ srv'.addr = srv.addr /\ srv'.tcp = srv.tcp
          /\ srv'.udp.relay = srv.udp.relay /\ srv'.udp.forwarded = srv.udp.forwarded
      BY <2>1, Zenon DEF SrvAt, SrvIs
    <2>3. SockIs(sock', sock.cli.in, sock.cli.out, sock.cli.sent, sock.up.in, o, sock.up.sent)
      <3> HIDE DEF o
      <3> QED BY <1>2, <1>4, StreamFlat, Zenon
    <2>4. /\ SockOK(sock') /\ sock'.cli.in = sock.cli.in /\ sock'.cli.out = sock.cli.out
          /\ sock'.cli.sent = sock.cli.sent /\ sock'.up.in = sock.up.in /\ sock'.up.out = sock.up.out \o srv.buf
          /\ sock'.up.sent = sock.up.sent
      BY <2>3, Zenon DEF SockIs
    <2>5. ShapeOK'
      BY <1>1, <2>2, <2>4, Zenon DEF ProxyInv, ShapeOK
    <2>6. peer.is = "http"
      BY <1>1, <1>2 DEF LabelsOK, SocksLabels
    <2>7. LabelsOK'
      <3>1. "relay" \in HttpLabels
        BY DEF HttpLabels
      <3> QED BY <1>1, <1>2, <2>2, <2>6, <3>1, LabelsStep
    <2>8. UpInv'
      BY <1>1, <1>2, <2>2, <2>4, UpEarly
    <2>9. DownInv'
      <3>1. GoesOn(srv.at, srv'.at)
        BY <1>1, <2>2 DEF GoesOn
      <3> QED BY <1>1, <1>2, <2>2, <2>4, <3>1, DownFrame
    <2>10. AddrInv'
      <3>1. Asked' = Asked
        BY <1>1, Zenon DEF Asked
      <3> QED BY <1>1, <2>2, <3>1, Zenon DEF ProxyInv, AddrInv
    <2>11. ClientInv'
      BY <1>1, <2>6 DEF ClientInv
    <2> QED BY <2>5, <2>7, <2>8, <2>9, <2>10, <2>11 DEF ProxyInv
  <1> QED BY <1>3, <1>4, Zenon DEF early
================================================================================
