------------------------------ MODULE MC_Dataplane ------------------------------
EXTENDS Dataplane, UdpGw, TLC

App == <<2560, 2>>
Iface == <<2560, 1>>
Server == <<257, 257>>
Site == <<65535, 65535>>

\* A packet from an app, with the lengths and the checksums that it should have.
Whole(proto, words, dport, data) ==
    LET size == 4 * words + (IF proto = UDP THEN 8 ELSE 20) + Len(data) IN
    fix_checksums([len |-> size, ver |-> 4, ihl |-> words, total |-> size, proto |-> proto,
                   src |-> App, dst |-> IF proto = UDP THEN Server ELSE Site,
                   sport |-> 40000, dport |-> dport, rest |-> 0,
                   udp_len |-> IF proto = UDP THEN 8 + Len(data) ELSE 0,
                   data |-> data, ip_sum |-> 0, sum |-> 0])

Query == Whole(UDP, 5, 53, <<1, 2, 1, 0, 255>>)
Segment1 == Whole(TCP, 5, 443, <<255, 255, 7>>)

\* Once rewritten, its words add up to a sum that needs both rounds of fold.
Segment2 ==
    LET p == [Segment1 EXCEPT !.dport = VPort]
    IN fix_checksums([Segment1 EXCEPT !.rest = 65535 - (SegmentSum(p) % 65536)])

\* Only the first n octets.
Cut(p, n) == [p EXCEPT !.len = n, !.data = Take(@, Len(@) - (p.len - n))]

\* Queries whole, with options, too short for an identifier, and cut or labelled at
\* the lengths where a check decides; segments likewise; other protocols, versions.
SomeAppPackets ==
    {Query, Whole(UDP, 6, 53, <<3, 4, 1, 0>>), Whole(UDP, 5, 53, <<9>>), Whole(UDP, 5, 80, <<1>>)}
    \cup {[Query EXCEPT !.len = n, !.data = << >>] : n \in {0, 19, 20, 27, 28}}
    \cup {Cut(Query, 32)}
    \cup {[Query EXCEPT !.udp_len = n] : n \in {7, 8, 14}}
    \cup {[Query EXCEPT !.ihl = n] : n \in {4, 15}}
    \cup {Segment1, Segment2, Whole(TCP, 6, 443, << >>), Cut(Segment1, 42)}
    \cup {[Segment1 EXCEPT !.len = 39, !.data = << >>]}
    \cup {[Query EXCEPT !.proto = 1], [Query EXCEPT !.ver = 5]}
    \cup {[Query EXCEPT !.ver = 6], [Segment1 EXCEPT !.ver = 6]}

SomeStackPackets ==
    {[Whole(TCP, 5, 40000, data) EXCEPT !.src = Iface, !.dst = App, !.sport = VPort] :
        data \in {<< >>, <<1, 2, 3, 4>>}}
SomeRemote == [addr |-> Site, port |-> 443]

\* An answer to Query, which any other query may get as well, and one too long for the
\* device.
SomeAnswers == {<<1, 2, 129, 128, 5>>, [i \in 1..20 |-> i]}

\* Frames of the UDP gateway: both kinds of address, payloads empty and longer than one
\* octet of the length can say.
FirstOctets(n) == [i \in 1..n |-> i % 256]
SomeFrames ==
    {[client_id |-> 0, flags |-> 0, ip |-> FirstOctets(4), port |-> 65535, payload |-> << >>],
     [client_id |-> 2130706433, flags |-> 3, ip |-> FirstOctets(16), port |-> 256,
      payload |-> FirstOctets(300)]}
ASSUME FramesComeBack == \A f, g \in SomeFrames : ComesBack(f, encode(g))
================================================================================
