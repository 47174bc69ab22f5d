---------------------------------- MODULE Packets ----------------------------------
(***************************************************************************)
(* IP packets as the data plane reads and writes them: the length checks   *)
(* of gravital-proto/src/ip.rs and of the helpers in                       *)
(* gravital-engine/src/runner.rs, the reply to a DNS query, and the        *)
(* rewriting of gravital-stack/src/rewrite.rs, with their checksums.       *)
(*                                                                         *)
(* A packet is a buffer of len octets and the fields that lie in it when   *)
(* it is long enough: version and header length (in 32-bit words), the     *)
(* protocol, addresses as pairs of 16-bit words, ports, the length field   *)
(* of UDP, the payload as octets.  A slice that ends past len panics.      *)
(***************************************************************************)
EXTENDS Checksum, Sequences

None == [is |-> "none"]
Some(v) == [is |-> "some", v |-> v]
Panic == [is |-> "panic"]

\* What a buffer may hold: any values that the width of a field allows.  rest stands
\* for the words of a TCP header that nothing here changes.
Nibbles == 0..15
Octets == {n \in Nat : n < 256}
Words == {n \in Nat : n < 65536}
Addresses == Words \X Words
Rests == {n \in Nat : n <= 8 * 65535}
Packet == [len : Words, ver : Nibbles, ihl : Nibbles, total : Words, proto : Octets,
           src : Addresses, dst : Addresses, sport : Words, dport : Words, rest : Rests,
           udp_len : Words, data : Seq(Octets), ip_sum : Words, sum : Words]

\* Indexing up to octet n.
Read(p, n, v) == IF n <= p.len THEN Some(v) ELSE Panic

TCP == 6
UDP == 17
ihl(p) == 4 * p.ihl

\* The sum of the 16-bit words of some octets, the last filled up with a zero.
Sum(octets) ==
    LET upto[i \in 0..Len(octets)] ==
            IF i = 0 THEN 0 ELSE upto[i - 1] + octets[i] * (IF i % 2 = 1 THEN 256 ELSE 1)
    IN upto[Len(octets)]
Take(octets, n) == SubSeq(octets, 1, IF Len(octets) < n THEN Len(octets) ELSE n)
SumAddr(addr) == addr[1] + addr[2]

(***************************************************************************)
(* Parsing.                                                                *)
(***************************************************************************)
\* IpView::parse, with Ipv4View::parse and Ipv6View::parse, and protocol.
parse(p) ==
    CASE p.len = 0 -> None
      [] p.len > 0 /\ p.ver = 4 ->
            IF p.len < 20 \/ ihl(p) < 20 \/ p.len < ihl(p) THEN None ELSE Some(p.proto)
      [] p.len > 0 /\ p.ver = 6 -> IF p.len < 40 THEN None ELSE Some(p.proto)
      [] OTHER -> None

\* The check that the helpers of runner.rs and rewrite.rs begin with.
Is4(p, proto) == p.len >= 20 /\ p.ver = 4 /\ p.proto = proto

udp_dst_port(p) ==
    IF ~Is4(p, UDP) \/ p.len < ihl(p) + 8 THEN None ELSE Read(p, ihl(p) + 4, p.dport)

\* Mutant of extract_udp_payload: the length field is believed.
extract_udp_payload_trusting(p) ==
    IF ~Is4(p, UDP) \/ p.len < ihl(p) + 8 \/ p.udp_len < 8 THEN None
    ELSE Read(p, ihl(p) + p.udp_len, SubSeq(p.data, 1, p.udp_len - 8))

extract_udp_payload(p) ==
    IF ~Is4(p, UDP) \/ p.len < ihl(p) + 8 \/ p.udp_len < 8 \/ p.len < ihl(p) + p.udp_len THEN None
    ELSE Read(p, ihl(p) + p.udp_len, SubSeq(p.data, 1, p.udp_len - 8))

(***************************************************************************)
(* Checksums.                                                              *)
(***************************************************************************)
\* The words of the IPv4 header without its checksum.  The ones nothing here reads
\* are constant: the identification and the options are zero, the TTL is 64.
HeaderSum(p) ==
    (p.ver * 4096 + p.ihl * 256) + p.total + (64 * 256 + p.proto) + SumAddr(p.src) + SumAddr(p.dst)

\* Pseudo-header and segment without its checksum.
SegmentSum(p) ==
    SumAddr(p.src) + SumAddr(p.dst) + p.proto + (p.len - ihl(p))
        + p.sport + p.dport + p.rest + (IF p.proto = UDP THEN p.udp_len ELSE 0) + Sum(p.data)

\* fix_ipv4_checksum, fix_ip4_checksum; fix_tcp_checksum, fix_udp_checksum.
fix_checksums(p) == [p EXCEPT !.ip_sum = checksum(HeaderSum(p)), !.sum = checksum(SegmentSum(p))]

SumsVerify(p) == verify(HeaderSum(p) + p.ip_sum) /\ verify(SegmentSum(p) + p.sum)

\* A packet that the receiver's IP stack takes: its lengths agree and both of its
\* checksums verify.
WellFormed(p) ==
    /\ p.total = p.len
    /\ p.proto = UDP => p.udp_len = p.len - ihl(p)
    /\ SumsVerify(p)

(***************************************************************************)
(* The reply to a query, and rewriting.                                    *)
(***************************************************************************)
\* Mutant of Reply: the ports are not swapped.
Reply_ports(p, resp) ==
    fix_checksums([p EXCEPT !.len = 28 + Len(resp), !.ihl = 5, !.total = 28 + Len(resp),
                            !.src = p.dst, !.dst = p.src, !.rest = 0,
                            !.udp_len = 8 + Len(resp), !.data = resp])

Reply(p, resp) ==
    fix_checksums([p EXCEPT !.len = 28 + Len(resp), !.ihl = 5, !.total = 28 + Len(resp),
                            !.src = p.dst, !.dst = p.src, !.sport = p.dport, !.dport = p.sport,
                            !.rest = 0, !.udp_len = 8 + Len(resp), !.data = resp])

build_udp_reply(p, resp) ==
    IF ~Is4(p, UDP) \/ p.len < 28 THEN None ELSE Read(p, ihl(p) + 4, Reply(p, resp))

\* The checks of extract_tcp_addrs, rewrite_inbound and rewrite_outbound are the same.
Segment(p) == Is4(p, TCP) /\ p.len >= ihl(p) + 20

rewrite_inbound(p, vport) ==
    IF ~Segment(p) THEN None ELSE Read(p, ihl(p) + 18, fix_checksums([p EXCEPT !.dport = vport]))

rewrite_outbound(p, addr, port) ==
    IF ~Segment(p) THEN None
    ELSE Read(p, ihl(p) + 18, fix_checksums([p EXCEPT !.src = addr, !.sport = port]))
================================================================================
