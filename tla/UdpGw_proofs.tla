----------------------------- MODULE UdpGw_proofs -----------------------------
(***************************************************************************)
(* The frames of the UDP gateway come back, for every frame and whatever   *)
(* follows it, and decode never indexes past the end, whatever arrives.    *)
(***************************************************************************)
EXTENDS UdpGw, SequenceTheorems, TLAPS

\* Time for the steps that index sequences.
USE SMTT(30), ZenonT(30)

\* The outcomes of decode are different.
LEMMA Outcomes == /\ Truncated # Panic /\ InvalidVersion # Panic
                  /\ \A v : Some(v) # Panic
  <1>1. Truncated.is = "truncated" /\ InvalidVersion.is = "version" /\ Panic.is = "panic"
    BY DEF Truncated, InvalidVersion, Panic
  <1>2. \A v : Some(v).is = "some"
    BY DEF Some
  <1> QED BY <1>1, <1>2

\* What follows the address is read only as far as it was checked for.
LEMMA PayloadInBounds ==
    ASSUME NEW data \in Seq(Nat), NEW offset \in Nat
    PROVE  decode_payload(data, offset) # Panic
  <1>1. ASSUME ~(Len(data) < offset + 4)
        PROVE  offset + 4 + from_be_bytes(data, offset + 2) \in Nat
    <2>1. data[offset + 2 + 1] \in Nat /\ data[offset + 2 + 2] \in Nat
      BY <1>1
    <2> QED BY <2>1 DEF from_be_bytes
  <1>2. \A m, n \in Nat : ~(m < n) => n <= m
    OBVIOUS
  <1> QED BY <1>1, <1>2, Outcomes DEF decode_payload, Indexed

\* Whatever octets arrive, decode answers with a frame or with an error: none of its
\* reads goes past the end (frame.rs:49-96).
THEOREM DecodeInBounds == \A data \in Seq(Nat) : decode(data) # Panic
  <1> SUFFICES ASSUME NEW data \in Seq(Nat) PROVE decode(data) # Panic
    OBVIOUS
  <1>1. \A n \in {4, 16} : decode_addr(data, n) # Panic
    BY Outcomes, PayloadInBounds DEF decode_addr, Indexed
  <1> QED BY <1>1, Outcomes DEF decode, Indexed

\* Numbers are put together again from their octets.
LEMMA BytesFact ==
    ASSUME NEW n \in Nat
    PROVE  /\ Byte(n, 16777216) \in Octet /\ Byte(n, 65536) \in Octet
           /\ Byte(n, 256) \in Octet /\ Byte(n, 1) \in Octet
           /\ n < 65536 => Byte(n, 256) * 256 + Byte(n, 1) = n
           /\ n < 65536 * 65536 =>
                (Byte(n, 16777216) * 256 + Byte(n, 65536)) * 65536
                    + (Byte(n, 256) * 256 + Byte(n, 1)) = n
  BY DEF Byte, Octet

\* Indexing a concatenation.
Joined(e, s, t) ==
    /\ Len(e) = Len(s) + Len(t)
    /\ \A i \in 1 .. Len(s) : e[i] = s[i]
    /\ \A i \in 1 .. Len(t) : e[Len(s) + i] = t[i]

\* A concatenation is indexed part by part.
LEMMA Concat ==
    ASSUME NEW S, NEW s \in Seq(S), NEW t \in Seq(S)
    PROVE  s \o t \in Seq(S) /\ Joined(s \o t, s, t)
  BY DEF Joined

\* Where the parts are in a header of seven octets, an address, four octets and a payload.
Parts(e, H, a, L, p) ==
    /\ Len(e) = 11 + Len(a) + Len(p)
    /\ \A i \in 1 .. 7 : e[i] = H[i]
    /\ \A i \in 1 .. Len(a) : e[7 + i] = a[i]
    /\ \A i \in 1 .. 4 : e[7 + Len(a) + i] = L[i]
    /\ \A i \in 1 .. Len(p) : e[11 + Len(a) + i] = p[i]

\* The octets of a frame, part by part.
LEMMA Layout ==
    ASSUME NEW S, NEW H \in Seq(S), NEW a \in Seq(S), NEW L \in Seq(S), NEW p \in Seq(S),
           Len(H) = 7, Len(L) = 4
    PROVE  H \o a \o L \o p \in Seq(S) /\ Parts(H \o a \o L \o p, H, a, L, p)
  <1> DEFINE A == H \o a
             B == A \o L
             e == B \o p
  <1>1. A \in Seq(S) /\ Joined(A, H, a)
    BY Concat
  <1> SUFFICES e \in Seq(S) /\ Parts(e, H, a, L, p)
    OBVIOUS
  <1> HIDE DEF A
  <1>2. B \in Seq(S) /\ Joined(B, A, L)
    BY <1>1, Concat
  <1> HIDE DEF B
  <1>3. e \in Seq(S) /\ Joined(e, B, p)
    BY <1>2, Concat
  <1> HIDE DEF e
  <1>4. Len(A) = 7 + Len(a) /\ Len(B) = 11 + Len(a) /\ Len(a) \in Nat /\ Len(p) \in Nat
    BY <1>1, <1>2 DEF Joined
  <1>5. ASSUME NEW i \in 1 .. 7 PROVE e[i] = H[i]
    <2>1. i \in 1 .. Len(H) /\ i \in 1 .. Len(A) /\ i \in 1 .. Len(B)
      BY <1>4
    <2> QED BY <1>1, <1>2, <1>3, <2>1, Zenon DEF Joined
  <1>6. ASSUME NEW i \in 1 .. Len(a) PROVE e[7 + i] = a[i]
    <2>1. 7 + i \in 1 .. Len(A) /\ 7 + i \in 1 .. Len(B)
      BY <1>4
    <2>2. A[7 + i] = a[i]
      BY <1>1 DEF Joined
    <2> QED BY <1>2, <1>3, <2>1, <2>2, Zenon DEF Joined
  <1>7. ASSUME NEW i \in 1 .. 4 PROVE e[7 + Len(a) + i] = L[i]
    <2>1. 7 + Len(a) + i \in 1 .. Len(B)
      BY <1>4
    <2>2. B[Len(A) + i] = L[i]
      BY <1>2 DEF Joined
    <2>3. B[7 + Len(a) + i] = L[i]
      BY <1>4, <2>2
    <2> QED BY <1>3, <2>1, <2>3, Zenon DEF Joined
  <1>8. ASSUME NEW i \in 1 .. Len(p) PROVE e[11 + Len(a) + i] = p[i]
    BY <1>3, <1>4 DEF Joined
  <1>9. Len(e) = 11 + Len(a) + Len(p)
    BY <1>3, <1>4 DEF Joined
  <1> QED BY <1>3, <1>5, <1>6, <1>7, <1>8, <1>9 DEF Parts

\* The octets before the address, and those between the address and the payload.
Header(f) ==
    <<VERSION, f.flags, Byte(f.client_id, 16777216), Byte(f.client_id, 65536),
      Byte(f.client_id, 256), Byte(f.client_id, 1), IF Len(f.ip) = 4 THEN IPV4 ELSE IPV6>>
PortAndLength(f) ==
    <<Byte(f.port, 256), Byte(f.port, 1), Byte(Len(f.payload), 256), Byte(Len(f.payload), 1)>>

\* The fields of a frame.
LEMMA FrameFact ==
    ASSUME NEW f \in UdpGwFrame
    PROVE  /\ f.ip \in Seq(Octet) /\ f.payload \in Seq(Octet) /\ Len(f.ip) \in {4, 16}
           /\ Len(f.payload) \in Nat /\ f.flags \in 0 .. 3
           /\ f = [client_id |-> f.client_id, flags |-> f.flags, ip |-> f.ip, port |-> f.port,
                   payload |-> f.payload]
  BY SMTT(30) DEF UdpGwFrame

\* The numbers of a frame, read from their octets.
LEMMA NumbersFact ==
    ASSUME NEW f \in UdpGwFrame
    PROVE  /\ Byte(f.port, 256) * 256 + Byte(f.port, 1) = f.port
           /\ Byte(Len(f.payload), 256) * 256 + Byte(Len(f.payload), 1) = Len(f.payload)
  <1>1. /\ f.port \in Nat /\ f.port < 65536
        /\ Len(f.payload) \in Nat /\ Len(f.payload) < 65536
    BY SMTT(30) DEF UdpGwFrame
  <1> QED BY <1>1, BytesFact, SMTT(30)

\* The client's number, read from its octets.
LEMMA ClientFact ==
    ASSUME NEW f \in UdpGwFrame
    PROVE  (Byte(f.client_id, 16777216) * 256 + Byte(f.client_id, 65536)) * 65536
               + (Byte(f.client_id, 256) * 256 + Byte(f.client_id, 1)) = f.client_id
  <1>1. f.client_id \in Nat /\ f.client_id < 65536 * 65536
    BY SMTT(30) DEF UdpGwFrame
  <1> QED BY <1>1, BytesFact, SMTT(30)

\* Both are octets, seven and four.
LEMMA HeaderFact ==
    ASSUME NEW f \in UdpGwFrame
    PROVE  /\ Header(f) \in Seq(Octet) /\ Len(Header(f)) = 7
           /\ PortAndLength(f) \in Seq(Octet) /\ Len(PortAndLength(f)) = 4
  <1>1. f.port \in Nat /\ f.client_id \in Nat /\ Len(f.payload) \in Nat /\ f.flags \in 0 .. 3
    BY SMTT(30) DEF UdpGwFrame
  <1>2. VERSION \in Octet /\ f.flags \in Octet /\ IPV4 \in Octet /\ IPV6 \in Octet
    BY <1>1, SMTT(30) DEF VERSION, Octet, IPV4, IPV6
  <1>3. /\ Byte(f.client_id, 16777216) \in Octet /\ Byte(f.client_id, 65536) \in Octet
        /\ Byte(f.client_id, 256) \in Octet /\ Byte(f.client_id, 1) \in Octet
        /\ Byte(f.port, 256) \in Octet /\ Byte(f.port, 1) \in Octet
        /\ Byte(Len(f.payload), 256) \in Octet /\ Byte(Len(f.payload), 1) \in Octet
    BY <1>1, BytesFact, SMTT(30)
  <1>4. Header(f) \in Seq(Octet) /\ Len(Header(f)) = 7
    BY <1>2, <1>3, SMTT(30) DEF Header
  <1>5. PortAndLength(f) \in Seq(Octet) /\ Len(PortAndLength(f)) = 4
    BY <1>3, SMTT(30) DEF PortAndLength
  <1> QED BY <1>4, <1>5

\* encode puts the parts in this order.
LEMMA EncodeFact ==
    ASSUME NEW f \in UdpGwFrame
    PROVE  /\ encode(f) \in Seq(Octet)
           /\ Parts(encode(f), Header(f), f.ip, PortAndLength(f), f.payload)
  <1>1. encode(f) = Header(f) \o f.ip \o PortAndLength(f) \o f.payload
    BY SMTT(30) DEF encode, Header, PortAndLength
  <1> QED BY <1>1, FrameFact, HeaderFact, Layout

\* d is a part of e from its beginning, or e with something behind it.
Along(d, e) == \A i \in 1 .. Len(e) : i <= Len(d) => d[i] = e[i]

\* The parts of a frame, where they have come.
Seen(d, H, a, L, p) ==
    /\ \A i \in 1 .. 7 : i <= Len(d) => d[i] = H[i]
    /\ \A i \in 1 .. Len(a) : 7 + i <= Len(d) => d[7 + i] = a[i]
    /\ \A i \in 1 .. 4 : 7 + Len(a) + i <= Len(d) => d[7 + Len(a) + i] = L[i]
    /\ \A i \in 1 .. Len(p) : 11 + Len(a) + i <= Len(d) => d[11 + Len(a) + i] = p[i]

\* Octets along a frame show its parts.
LEMMA Reads ==
    ASSUME NEW f \in UdpGwFrame, NEW d \in Seq(Nat), Along(d, encode(f))
    PROVE  /\ Len(encode(f)) = 11 + Len(f.ip) + Len(f.payload)
           /\ Seen(d, Header(f), f.ip, PortAndLength(f), f.payload)
  <1> DEFINE k == Len(f.ip)
  <1>1. k \in Nat /\ Len(f.payload) \in Nat
    BY FrameFact
  <1>2. Parts(encode(f), Header(f), f.ip, PortAndLength(f), f.payload)
    BY EncodeFact
  <1>3. Len(encode(f)) = 11 + k + Len(f.payload)
    BY <1>2 DEF Parts
  <1>within. ASSUME NEW n \in Nat, NEW m \in Nat, NEW l, l = 11 + n + m
             PROVE  /\ \A i \in 1 .. 7 : i \in 1 .. l
                    /\ \A i \in 1 .. n : 7 + i \in 1 .. l
                    /\ \A i \in 1 .. 4 : 7 + n + i \in 1 .. l
                    /\ \A i \in 1 .. m : 11 + n + i \in 1 .. l
    BY <1>within
  <1>4. ASSUME NEW i \in 1 .. 7, i <= Len(d) PROVE d[i] = Header(f)[i]
    <2>1. i \in 1 .. Len(encode(f))
      BY <1>1, <1>3, <1>within, Zenon
    <2> QED BY <1>2, <1>4, <2>1, Zenon DEF Along, Parts
  <1>5. ASSUME NEW i \in 1 .. k, 7 + i <= Len(d) PROVE d[7 + i] = f.ip[i]
    <2>1. 7 + i \in 1 .. Len(encode(f))
      BY <1>1, <1>3, <1>within, Zenon
    <2> QED BY <1>2, <1>5, <2>1, Zenon DEF Along, Parts
  <1>6. ASSUME NEW i \in 1 .. 4, 7 + k + i <= Len(d) PROVE d[7 + k + i] = PortAndLength(f)[i]
    <2>1. 7 + k + i \in 1 .. Len(encode(f))
      BY <1>1, <1>3, <1>within, Zenon
    <2> QED BY <1>2, <1>6, <2>1, Zenon DEF Along, Parts
  <1>7. ASSUME NEW i \in 1 .. Len(f.payload), 11 + k + i <= Len(d)
        PROVE  d[11 + k + i] = f.payload[i]
    <2>1. 11 + k + i \in 1 .. Len(encode(f))
      BY <1>1, <1>3, <1>within, Zenon
    <2> QED BY <1>2, <1>7, <2>1, Zenon DEF Along, Parts
  <1> QED BY <1>3, <1>4, <1>5, <1>6, <1>7 DEF Seen

\* Indexing a piece of d.
LEMMA Slice ==
    ASSUME NEW d \in Seq(Nat), NEW o \in Nat, NEW n \in Nat, o + n <= Len(d)
    PROVE  /\ SubSeq(d, o + 1, o + n) \in Seq(Nat) /\ Len(SubSeq(d, o + 1, o + n)) = n
           /\ \A i \in 1 .. n : SubSeq(d, o + 1, o + n)[i] = d[o + i]
  <1>1. SubSeq(d, o + 1, o + n) \in Seq(Nat) /\ Len(SubSeq(d, o + 1, o + n)) = n
    OBVIOUS
  <1>2. ASSUME NEW i \in 1 .. n PROVE SubSeq(d, o + 1, o + n)[i] = d[o + i]
    <2>1. o + 1 \in Int /\ o + n \in Int /\ \A j \in o + 1 .. o + n : d[j] \in Nat
      OBVIOUS
    <2>2. \A j \in 1 .. (o + n) - (o + 1) + 1 : SubSeq(d, o + 1, o + n)[j] = d[o + 1 + j - 1]
      BY <2>1, SubSeqProperties
    <2>3. i \in 1 .. (o + n) - (o + 1) + 1 /\ o + 1 + i - 1 = o + i
      OBVIOUS
    <2>4. SubSeq(d, o + 1, o + n)[i] = d[o + 1 + i - 1]
      BY <2>2, <2>3, Zenon
    <2> QED BY <2>3, <2>4, Zenon
  <1> QED BY <1>1, <1>2, Zenon

\* A piece of d that is t, octet for octet, is t.
LEMMA Piece ==
    ASSUME NEW d \in Seq(Nat), NEW t \in Seq(Octet), NEW o \in Nat, o + Len(t) <= Len(d),
           \A i \in 1 .. Len(t) : d[o + i] = t[i]
    PROVE  SubSeq(d, o + 1, o + Len(t)) = t
  <1>1. t \in Seq(Nat)
    BY DEF Octet
  <1>2. Len(t) \in Nat /\ Len(d) \in Nat
    OBVIOUS
  <1> DEFINE u == SubSeq(d, o + 1, o + Len(t))
  <1>3. u \in Seq(Nat) /\ Len(u) = Len(t) /\ \A i \in 1 .. Len(t) : u[i] = d[o + i]
    BY <1>2, Slice, Zenon
  <1> HIDE DEF u
  <1>4. \A i \in 1 .. Len(t) : u[i] = t[i]
    BY <1>3, Zenon
  <1>5. u = t
    BY <1>1, <1>3, <1>4, SeqEqual
  <1> QED BY <1>5 DEF u

\* The parts of a frame in d, once the length of the payload has come.
Fielded(d, H, a, L, p, o, m) ==
    /\ d[2] = H[2] /\ d[2 + 1] = H[3] /\ d[2 + 2] = H[4] /\ d[4 + 1] = H[5] /\ d[4 + 2] = H[6]
    /\ d[o + 1] = L[1] /\ d[o + 2] = L[2] /\ d[o + 2 + 1] = L[3] /\ d[o + 2 + 2] = L[4]
    /\ SubSeq(d, 8, o) = a
    /\ o + 4 + m <= Len(d) => SubSeq(d, o + 5, o + 4 + m) = p

\* decode finds the parts where encode has put them.
LEMMA Fields ==
    ASSUME NEW d \in Seq(Nat), NEW a \in Seq(Octet), NEW p \in Seq(Octet), NEW H, NEW L,
           NEW o \in Nat, o = 7 + Len(a), NEW m \in Nat, m = Len(p), Seen(d, H, a, L, p),
           o + 4 <= Len(d)
    PROVE  Fielded(d, H, a, L, p, o, m)
  <1>1. Len(d) \in Nat /\ Len(a) \in Nat
    OBVIOUS
  <1>2. /\ \A i \in 1 .. 7 : i <= Len(d)
        /\ \A i \in 1 .. Len(a) : 7 + i <= Len(d)
        /\ \A i \in 1 .. 4 : 7 + Len(a) + i <= Len(d)
    BY <1>1
  <1>3. /\ \A i \in 1 .. 7 : d[i] = H[i]
        /\ \A i \in 1 .. Len(a) : d[7 + i] = a[i]
        /\ \A i \in 1 .. 4 : d[o + i] = L[i]
    BY <1>2, Zenon DEF Seen
  <1>4. d[2] = H[2] /\ d[2 + 1] = H[3] /\ d[2 + 2] = H[4] /\ d[4 + 1] = H[5] /\ d[4 + 2] = H[6]
    BY <1>3
  <1>5. d[o + 1] = L[1] /\ d[o + 2] = L[2] /\ d[o + 3] = L[3] /\ d[o + 4] = L[4]
    BY <1>3
  <1>6. o + 2 + 1 = o + 3 /\ o + 2 + 2 = o + 4
    OBVIOUS
  <1>7. SubSeq(d, 7 + 1, 7 + Len(a)) = a
    <2>1. 7 \in Nat /\ 7 + Len(a) <= Len(d)
      BY <1>1
    <2> QED BY <1>3, <2>1, Piece, Zenon
  <1>8. ASSUME o + 4 + m <= Len(d) PROVE SubSeq(d, o + 4 + 1, o + 4 + Len(p)) = p
    <2>1. \A i \in 1 .. m : 11 + Len(a) + i <= Len(d) /\ 11 + Len(a) + i = o + 4 + i
      BY <1>1, <1>8
    <2>2. o + 4 \in Nat /\ o + 4 + Len(p) <= Len(d)
      BY <1>8
    <2>3. \A i \in 1 .. Len(p) : d[11 + Len(a) + i] = p[i]
      BY <2>1, Zenon DEF Seen
    <2>4. \A i \in 1 .. Len(p) : d[o + 4 + i] = p[i]
      BY <2>1, <2>3
    <2> QED BY <2>2, <2>4, Piece, Zenon
  <1>9. 7 + 1 = 8 /\ o + 4 + 1 = o + 5
    OBVIOUS
  <1> QED BY <1>4, <1>5, <1>6, <1>7, <1>8, <1>9, ZenonT(30) DEF Fielded

\* decode goes on with the address that the header announces.
LEMMA DecodeHead ==
    ASSUME NEW d \in Seq(Nat), NEW k \in {4, 16},
           Len(d) # 0 => d[1] = VERSION,
           8 <= Len(d) => d[7] = IF k = 4 THEN IPV4 ELSE IPV6
    PROVE  decode(d) = IF Len(d) < 8 THEN Truncated ELSE decode_addr(d, k)
  <1>1. Len(d) \in Nat
    OBVIOUS
  <1>2. CASE Len(d) < 8
    BY <1>1, <1>2 DEF decode
  <1>3. CASE ~(Len(d) < 8)
    <2>1. Len(d) # 0 /\ 8 <= Len(d) /\ 7 <= Len(d)
      BY <1>1, <1>3
    <2>2. d[1] = VERSION /\ (k = 4 => d[7] = IPV4)
      BY <2>1
    <2>3. k = 16 => d[7] = IPV6 /\ d[7] # IPV4
      BY <2>1 DEF IPV4, IPV6
    <2> QED BY <1>3, <2>1, <2>2, <2>3 DEF decode, Indexed
  <1> QED BY <1>2, <1>3

\* An address that ends at o is followed by a payload of m octets, and the frame is v.
Framed(d, o, m, v) ==
    /\ o + 4 <= Len(d) => from_be_bytes(d, o + 2) = m
    /\ o + 4 + m <= Len(d) => v = Decoded(d, o, o + 4 + m)

Finished(d, k, o, m, v) ==
    decode_addr(d, k) = IF Len(d) < o + 4 + m THEN Truncated ELSE Some(v)

\* decode of the rest, from the address on.
LEMMA DecodeTail ==
    ASSUME NEW d \in Seq(Nat), NEW k \in Nat, NEW m \in Nat, NEW v, NEW o \in Nat, o = 7 + k,
           Framed(d, o, m, v)
    PROVE  Finished(d, k, o, m, v)
  <1>1. Len(d) \in Nat
    OBVIOUS
  <1>2. decode_addr(d, k) = IF Len(d) < o THEN Truncated ELSE Indexed(d, o, decode_payload(d, o))
    BY SMTT(30) DEF decode_addr
  <1>3. CASE Len(d) < o + 4
    <2>1. Len(d) < o + 4 + m /\ (~(Len(d) < o) => o <= Len(d))
      BY <1>1, <1>3, SMTT(30)
    <2>2. decode_payload(d, o) = Truncated
      BY <1>3, SMTT(30) DEF decode_payload
    <2> QED BY <1>2, <2>1, <2>2, SMTT(30) DEF Indexed, Finished
  <1>4. CASE ~(Len(d) < o + 4)
    <2>1. o + 4 <= Len(d) /\ o <= Len(d) /\ ~(Len(d) < o)
      BY <1>1, <1>4, SMTT(30)
    <2>2. decode_addr(d, k) = decode_payload(d, o)
      BY <1>2, <2>1, SMTT(30) DEF Indexed
    <2>3. from_be_bytes(d, o + 2) = m
      BY <2>1, Zenon DEF Framed
    <2>4. CASE Len(d) < o + 4 + m
      <3>1. decode_payload(d, o) = Truncated
        BY <1>4, <2>1, <2>3, <2>4, SMTT(30) DEF decode_payload, Indexed
      <3> QED BY <2>2, <2>4, <3>1, SMTT(30) DEF Finished
    <2>5. CASE ~(Len(d) < o + 4 + m)
      <3>1. o + 4 + m <= Len(d)
        BY <1>1, <2>5, SMTT(30)
      <3>2. decode_payload(d, o) = Some(Decoded(d, o, o + 4 + m))
        BY <1>4, <2>1, <2>3, <2>5, <3>1, SMTT(30) DEF decode_payload, Indexed
      <3>3. decode_payload(d, o) = Some(v)
        BY <3>1, <3>2, Zenon DEF Framed
      <3> QED BY <2>2, <2>5, <3>3, SMTT(30) DEF Finished
    <2> QED BY <2>4, <2>5, SMTT(30)
  <1> QED BY <1>3, <1>4, SMTT(30) DEF Finished

\* The frame is put together from what was read of it.
LEMMA Assembled ==
    ASSUME NEW d, NEW o, NEW e, NEW f \in UdpGwFrame,
           from_be_bytes_32(d, 2) = f.client_id, d[2] % 4 = f.flags, SubSeq(d, 8, o) = f.ip,
           from_be_bytes(d, o) = f.port, SubSeq(d, o + 5, e) = f.payload
    PROVE  f = Decoded(d, o, e)
  <1>1. Decoded(d, o, e) =
            [client_id |-> f.client_id, flags |-> f.flags, ip |-> f.ip, port |-> f.port,
             payload |-> f.payload]
    BY Zenon DEF Decoded
  <1> QED BY <1>1, FrameFact, Zenon

\* What decode reads along a frame is that frame.
LEMMA DecodedFact ==
    ASSUME NEW f \in UdpGwFrame, NEW d \in Seq(Nat), Along(d, encode(f)),
           NEW o \in Nat, o = 7 + Len(f.ip), NEW m \in Nat, m = Len(f.payload)
    PROVE  Framed(d, o, m, f)
  <1> SUFFICES ASSUME o + 4 <= Len(d)
               PROVE  /\ from_be_bytes(d, o + 2) = m
                      /\ o + 4 + m <= Len(d) => f = Decoded(d, o, o + 4 + m)
    <2>1. \A x, y, z \in Nat : x + y <= z => x <= z
      OBVIOUS
    <2>2. o + 4 \in Nat /\ Len(d) \in Nat
      OBVIOUS
    <2>3. o + 4 + m <= Len(d) => o + 4 <= Len(d)
      BY <2>1, <2>2, Zenon
    <2> QED BY <2>3, Zenon DEF Framed
  <1> DEFINE H == Header(f)
             L == PortAndLength(f)
             a == f.ip
             p == f.payload
  <1>1. a \in Seq(Octet) /\ p \in Seq(Octet)
    BY FrameFact
  <1>2. Seen(d, H, a, L, p)
    BY Reads, Zenon
  <1>3. H[2] = f.flags
    BY SMTT(30) DEF Header
  <1>client. /\ H[3] = Byte(f.client_id, 16777216) /\ H[4] = Byte(f.client_id, 65536)
             /\ H[5] = Byte(f.client_id, 256) /\ H[6] = Byte(f.client_id, 1)
    BY SMTT(30) DEF Header
  <1>4. L[1] * 256 + L[2] = f.port /\ L[3] * 256 + L[4] = m
    <2>1. /\ L[1] = Byte(f.port, 256) /\ L[2] = Byte(f.port, 1)
          /\ L[3] = Byte(Len(f.payload), 256) /\ L[4] = Byte(Len(f.payload), 1)
      BY SMTT(30) DEF PortAndLength
    <2> HIDE DEF L
    <2>2. /\ Byte(f.port, 256) * 256 + Byte(f.port, 1) = f.port
          /\ Byte(Len(f.payload), 256) * 256 + Byte(Len(f.payload), 1) = Len(f.payload)
      BY NumbersFact
    <2> QED BY <2>1, <2>2
  <1>5. o = 7 + Len(a) /\ m = Len(p)
    OBVIOUS
  <1> HIDE DEF H, L, a, p
  <1>6. Fielded(d, H, a, L, p, o, m)
    BY <1>1, <1>2, <1>5, Fields
  <1>7. /\ from_be_bytes(d, 2) = H[3] * 256 + H[4] /\ from_be_bytes(d, 4) = H[5] * 256 + H[6]
        /\ from_be_bytes(d, o) = L[1] * 256 + L[2] /\ from_be_bytes(d, o + 2) = L[3] * 256 + L[4]
    <2>1. from_be_bytes(d, 2) = H[3] * 256 + H[4]
      BY <1>6, Zenon DEF Fielded, from_be_bytes
    <2>2. from_be_bytes(d, 4) = H[5] * 256 + H[6]
      BY <1>6, Zenon DEF Fielded, from_be_bytes
    <2>3. from_be_bytes(d, o) = L[1] * 256 + L[2]
      BY <1>6, Zenon DEF Fielded, from_be_bytes
    <2>4. from_be_bytes(d, o + 2) = L[3] * 256 + L[4]
      BY <1>6, Zenon DEF Fielded, from_be_bytes
    <2> QED BY <2>1, <2>2, <2>3, <2>4
  <1>8. from_be_bytes(d, o) = f.port
    BY <1>4, <1>7, Zenon
  <1>9. from_be_bytes(d, o + 2) = m
    BY <1>4, <1>7, Zenon
  <1>10. from_be_bytes_32(d, 2) = f.client_id
    <2>1. from_be_bytes_32(d, 2) = from_be_bytes(d, 2) * 65536 + from_be_bytes(d, 4)
      BY SMTT(30) DEF from_be_bytes_32
    <2>2. (H[3] * 256 + H[4]) * 65536 + (H[5] * 256 + H[6]) = f.client_id
      BY <1>client, ClientFact, SMTT(30)
    <2> QED BY <1>7, <2>1, <2>2, SMTT(30)
  <1>11. d[2] % 4 = f.flags
    <2>1. f.flags \in 0 .. 3
      BY FrameFact
    <2>2. f.flags % 4 = f.flags
      BY <2>1
    <2> QED BY <1>3, <1>6, <2>2, SMTT(30) DEF Fielded
  <1>12. ASSUME o + 4 + m <= Len(d) PROVE f = Decoded(d, o, o + 4 + m)
    <2>1. SubSeq(d, 8, o) = f.ip
      BY <1>6, Zenon DEF a, Fielded
    <2>2. SubSeq(d, o + 5, o + 4 + m) = f.payload
      BY <1>6, <1>12, Zenon DEF p, Fielded
    <2> QED BY <1>8, <1>10, <1>11, <2>1, <2>2, Assembled, Zenon
  <1> QED BY <1>9, <1>12, Zenon

\* What has come of a frame is Truncated, all of it is the frame.
LEMMA Decodes ==
    ASSUME NEW f \in UdpGwFrame, NEW d \in Seq(Nat), Along(d, encode(f)),
           NEW l, l = Len(encode(f))
    PROVE  decode(d) = IF Len(d) < l THEN Truncated ELSE Some(f)
  <1> DEFINE k == Len(f.ip)
             m == Len(f.payload)
             H == Header(f)
  <1>1. k \in {4, 16} /\ k \in Nat /\ m \in Nat /\ Len(d) \in Nat
    BY FrameFact
  <1>2. l = 11 + k + m
    BY Reads, Zenon
  <1>3. \A i \in 1 .. 7 : i <= Len(d) => d[i] = H[i]
    BY Reads, Zenon DEF Seen
  <1>4. H[1] = VERSION /\ H[7] = IF k = 4 THEN IPV4 ELSE IPV6
    BY SMTT(30) DEF Header
  <1>5. \A o \in Nat : o = 7 + k => Framed(d, o, m, f)
    BY <1>1, DecodedFact
  <1> HIDE DEF k, m, H
  <1>6. 1 \in 1 .. 7 /\ 7 \in 1 .. 7 /\ (Len(d) # 0 => 1 <= Len(d)) /\ (8 <= Len(d) => 7 <= Len(d))
    BY <1>1, SMTT(30)
  <1>7. (Len(d) # 0 => d[1] = H[1]) /\ (8 <= Len(d) => d[7] = H[7])
    BY <1>3, <1>6, Zenon
  <1>8. decode(d) = IF Len(d) < 8 THEN Truncated ELSE decode_addr(d, k)
    <2>1. Len(d) # 0 => d[1] = VERSION
      BY <1>4, <1>7
    <2>2. 8 <= Len(d) => d[7] = IF k = 4 THEN IPV4 ELSE IPV6
      BY <1>4, <1>7
    <2> QED BY <1>1, <2>1, <2>2, DecodeHead
  <1>9. PICK o \in Nat : o = 7 + k
    BY <1>1
  <1>10. o + 4 + m = l
    BY <1>1, <1>2, <1>9, SMTT(30)
  <1>12. Finished(d, k, o, m, f)
    <2>1. Framed(d, o, m, f)
      BY <1>5, <1>9
    <2> QED BY <1>1, <1>9, <2>1, DecodeTail
  <1>13. Len(d) < 8 => Len(d) < l
    BY <1>1, <1>2, SMTT(30)
  <1> QED BY <1>8, <1>10, <1>12, <1>13, Zenon DEF Finished

\* Every frame comes out of the stream as it went in, whatever follows it, and nothing
\* comes out before all of it has come (frame.rs:26-96).
THEOREM FrameComesBack == \A f \in UdpGwFrame, rest \in Seq(Octet) : ComesBack(f, rest)
  <1> SUFFICES ASSUME NEW f \in UdpGwFrame, NEW rest \in Seq(Octet)
               PROVE  ComesBack(f, rest)
    OBVIOUS
  <1> DEFINE e == encode(f)
  <1>1. e \in Seq(Octet) /\ Len(e) \in Nat
    BY EncodeFact
  <1>wider. \A s \in Seq(Octet) : s \in Seq(Nat)
    BY DEF Octet
  <1>2. ASSUME NEW n \in 0 .. Len(e) - 1 PROVE decode(SubSeq(e, 1, n)) = Truncated
    <2> DEFINE d == SubSeq(e, 1, n)
    <2>1. d \in Seq(Octet) /\ Len(d) = n /\ \A i \in 1 .. n : d[i] = e[i]
      <3> HIDE DEF e
      <3> QED BY <1>1
    <2> HIDE DEF d
    <2>2. Along(d, e)
      BY <1>1, <2>1 DEF Along
    <2>3. Len(d) < Len(e)
      BY <1>1, <2>1
    <2>4. decode(d) = Truncated
      BY <1>wider, <2>1, <2>2, <2>3, Decodes
    <2> QED BY <2>4 DEF d
  <1>3. decode(e \o rest) = Some(f)
    <2> DEFINE d == e \o rest
    <2>1. d \in Seq(Octet) /\ Joined(d, e, rest)
      <3> HIDE DEF e
      <3> QED BY <1>1, Concat
    <2> HIDE DEF d
    <2>2. Along(d, e)
      BY <1>1, <2>1 DEF Along, Joined
    <2>3. ~(Len(d) < Len(e))
      <3> HIDE DEF e
      <3> QED BY <1>1, <2>1 DEF Joined
    <2>4. decode(d) = Some(f)
      BY <1>wider, <2>1, <2>2, <2>3, Decodes
    <2> QED BY <2>4 DEF d
  <1> QED BY <1>2, <1>3 DEF ComesBack

===============================================================================
