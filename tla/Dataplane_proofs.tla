------------------------------ MODULE Dataplane_proofs ------------------------------
(***************************************************************************)
(* The data plane, for any packets, any answers and any number of tasks.   *)
(*                                                                         *)
(* First the checksum, for every sum that fits in a u32, and packets: the  *)
(* sums of a packet do fit, which takes an induction over the octets of    *)
(* its payload, so that the checksums which the code stores verify         *)
(* whatever the packet holds.  A reply and a rewritten segment are         *)
(* well-formed.                                                            *)
(*                                                                         *)
(* A query that extract_udp_payload accepts is short enough for any answer *)
(* to it to fit in a packet, and long enough for build_udp_reply, which    *)
(* reads two octets more than it checks for when the header has options.   *)
(* But a task uses its packet long after the reader looked at it: what the *)
(* reader found is kept with the task (Intercepted), a reply is good from  *)
(* the moment it is built until it is written (RepliesOK), and a task that *)
(* wrote is done (WrittenOK).                                              *)
(***************************************************************************)
EXTENDS Dataplane, FiniteSetTheorems, SequenceTheorems, WellFoundedInduction, TLAPS

\* Time for the steps that are about a whole state.
USE SMTT(30), ZenonT(30)

(***************************************************************************)
(* The checksum.                                                           *)
(***************************************************************************)
\* A round of the loop changes a sum by a multiple of 65535, and leaves it alone
\* when the loop would stop (the while loops of checksum.rs:15-17, rewrite.rs:25-27).
LEMMA CarryStep ==
    ASSUME NEW s, U32(s)
    PROVE  /\ Carry(s) \in Nat /\ Carry(s) <= 131070
           /\ s = Carry(s) + 65535 * (s \div 65536)
           /\ s <= 65535 => Carry(s) = s
           /\ s > 0 => Carry(s) > 0
  BY SMT DEF Carry, U32

\* The loop ends after two rounds: what they leave fits in sixteen bits, so the
\* cast to u16 loses nothing, and another round would change nothing.
THEOREM FoldFits ==
    ASSUME NEW s, U32(s)
    PROVE  U16(fold(s)) /\ Carry(fold(s)) = fold(s)
  <1>1. Carry(s) \in Nat /\ Carry(s) <= 131070
    BY SMT, CarryStep
  <1>2. U16(Carry(Carry(s)))
    BY SMT, <1>1 DEF Carry, U16
  <1>3. Carry(Carry(Carry(s))) = Carry(Carry(s))
    BY SMT, <1>2 DEF Carry, U16
  <1> QED
    BY SMT, <1>2, <1>3 DEF fold

\* A sum and its fold differ by a multiple of 65535.
LEMMA FoldCongruent ==
    ASSUME NEW s, U32(s)
    PROVE  /\ \E k \in Nat : s = fold(s) + 65535 * k
           /\ s > 0 => fold(s) > 0
  <1> DEFINE c == Carry(s)
  <1>1. /\ c \in Nat /\ c <= 131070 /\ s = c + 65535 * (s \div 65536) /\ (s > 0 => c > 0)
    BY SMT, CarryStep
  <1>2. U32(c)
    BY SMT, <1>1 DEF U32
  <1>3. /\ c = Carry(c) + 65535 * (c \div 65536) /\ (c > 0 => Carry(c) > 0)
    BY SMT, <1>2, CarryStep
  <1>4. /\ s \div 65536 \in Nat /\ c \div 65536 \in Nat /\ Carry(c) \in Int
    BY SMT, <1>1 DEF U32, Carry
  <1>5. s = Carry(c) + 65535 * ((s \div 65536) + (c \div 65536))
    BY SMT, <1>1, <1>3, <1>4
  <1>6. (s \div 65536) + (c \div 65536) \in Nat
    BY SMT, <1>4
  <1>7. s > 0 => Carry(c) > 0
    BY SMT, <1>1, <1>3
  <1> QED
    BY SMT, <1>5, <1>6, <1>7 DEF fold

\* What the code stores is what a receiver accepts: the words and the checksum of
\* their sum, added to it, verify.  Only the overflow of the u32 is excluded
\* (checksum.rs:3-42, rewrite.rs:15-82, runner.rs:473-506, Ipv4View::verify_checksum).
THEOREM ChecksumVerifies ==
    ASSUME NEW s, U32(s), U32(s + checksum(s))
    PROVE  U16(checksum(s)) /\ verify(s + checksum(s))
  <1> DEFINE f == fold(s)
             t == s + checksum(s)
             g == fold(t)
  <1>1. U16(f) /\ U16(g)
    BY SMT, FoldFits
  <1>2. checksum(s) = 65535 - f
    BY SMT, <1>1 DEF checksum, complement, U16
  <1>3. PICK k \in Nat : s = f + 65535 * k
    BY SMT, FoldCongruent
  <1>4. PICK j \in Nat : t = g + 65535 * j
    BY SMT, FoldCongruent
  <1>5. t = 65535 * (k + 1)
    BY SMT, <1>1, <1>2, <1>3 DEF U16
  <1>6. g > 0
    <2>1. t > 0
      BY SMT, <1>5, <1>3
    <2> QED
      BY SMT, <2>1, FoldCongruent
  <1>7. g = 65535
    BY SMT, <1>1, <1>3, <1>4, <1>5, <1>6 DEF U16
  <1>8. checksum(t) = 0
    BY SMT, <1>7 DEF checksum, complement
  <1> QED
    BY SMT, <1>1, <1>2, <1>8 DEF verify, U16

(***************************************************************************)
(* Sums.                                                                   *)
(***************************************************************************)
\* A set of naturals that is not empty has a least element.
LEMMA Least ==
  ASSUME NEW T, T \subseteq Nat, T # {}
  PROVE  \E x \in T : \A y \in T : x <= y
  <1> DEFINE R == OpToRel(<, Nat)
  <1>1. IsWellFoundedOn(R, Nat)
    BY NatLessThanWellFounded
  <1>2. \A x, y \in Nat : <<x, y>> \in R <=> x < y
    BY DEF OpToRel
  <1> HIDE DEF R
  <1>3. PICK x \in T : \A y \in T : ~(<<y, x>> \in R)
    BY <1>1, WFMin, Zenon
  <1>4. \A y \in T : ~(y < x)
    BY <1>2, <1>3, Zenon
  <1>5. \A y \in T : x <= y
    BY <1>4
  <1> QED BY <1>5

\* Induction, for a set of naturals.
LEMMA Everything ==
  ASSUME NEW T, 0 \in T, \A n \in Nat : n \in T => n + 1 \in T
  PROVE  Nat \subseteq T
  <1> SUFFICES ASSUME Nat \ T # {} PROVE FALSE
    OBVIOUS
  <1>1. PICK x \in Nat \ T : \A y \in Nat \ T : x <= y
    BY Least, Zenon
  <1>2. x # 0 /\ x - 1 \in Nat
    BY <1>1
  <1>3. x - 1 \in T
    BY <1>1, <1>2
  <1>4. (x - 1) + 1 \in T
    BY <1>2, <1>3
  <1> QED BY <1>1, <1>4

\* The range of an octet.
LEMMA OctetRange == \A n \in Octets : n \in Nat /\ n <= 255
  BY DEF Octets

\* The equation that defines the partial sums of Sum, up to n.
Partial(f, d, n) ==
    f = [i \in 0..n |-> IF i = 0 THEN 0 ELSE f[i - 1] + d[i] * (IF i % 2 = 1 THEN 256 ELSE 1)]

\* The partial sums exist.
LEMMA PartialSums == 
  ASSUME NEW d \in Seq(Octets), NEW n \in Nat
  PROVE  \E f : Partial(f, d, n)
  <1> DEFINE T == {k \in Nat : \E f : Partial(f, d, k)}
  <1>1. 0 \in T
    <2>1. Partial([i \in 0..0 |-> 0], d, 0)
      BY DEF Partial
    <2> QED BY <2>1
  <1>2. ASSUME NEW k \in Nat, k \in T PROVE k + 1 \in T
    <2>1. PICK f : Partial(f, d, k)
      BY <1>2
    <2> DEFINE w(i) == d[i] * (IF i % 2 = 1 THEN 256 ELSE 1)
               g == [i \in 0..(k + 1) |-> IF i = k + 1 THEN f[k] + w(k + 1) ELSE f[i]]
    <2>2. \A i \in 0..k : f[i] = IF i = 0 THEN 0 ELSE f[i - 1] + w(i)
      BY <2>1 DEF Partial
    <2> HIDE DEF w
    <2>3. \A i \in 0..(k + 1) : g[i] = IF i = 0 THEN 0 ELSE g[i - 1] + w(i)
      <3> TAKE i \in 0..(k + 1)
      <3>1. CASE i = k + 1
        <4>1. g[k + 1] = f[k] + w(k + 1) /\ g[k] = f[k]
          OBVIOUS
        <4>2. i # 0 /\ i - 1 = k
          BY <3>1
        <4> HIDE DEF g
        <4> QED BY <3>1, <4>1, <4>2
      <3>2. CASE i \in 0..k
        <4>1. g[i] = f[i] /\ (i # 0 => i - 1 \in 0..k)
          BY <3>2
        <4>2. i # 0 => g[i - 1] = f[i - 1]
          BY <3>2, <4>1
        <4> HIDE DEF g
        <4> QED BY <2>2, <3>2, <4>1, <4>2
      <3> QED BY <3>1, <3>2
    <2>4. g = [i \in 0..(k + 1) |-> IF i = 0 THEN 0 ELSE g[i - 1] + w(i)]
      BY <2>3
    <2> USE DEF w
    <2> HIDE DEF g
    <2>5. Partial(g, d, k + 1)
      BY <2>4 DEF Partial
    <2> QED BY <2>5
  <1> HIDE DEF T
  <1>3. Nat \subseteq T
    BY <1>1, <1>2, Everything
  <1> QED BY <1>3 DEF T

\* A word is 65535 at most, and an octet adds 65280 to the sum at most.
LEMMA SumBound ==
  ASSUME NEW d \in Seq(Octets)
  PROVE  Sum(d) \in Nat /\ Sum(d) <= 65280 * Len(d)
  <1> DEFINE N == Len(d)
             w(i) == d[i] * (IF i % 2 = 1 THEN 256 ELSE 1)
             f == CHOOSE h : Partial(h, d, N)
  <1>1. N \in Nat
    OBVIOUS
  <1>2. Partial(f, d, N)
    BY <1>1, PartialSums
  <1>3. Sum(d) = f[N]
    BY DEF Sum, Partial
  <1>4. \A i \in 1..N : w(i) \in Nat /\ w(i) <= 65280
    <2> SUFFICES ASSUME NEW i \in 1..Len(d) PROVE w(i) \in Nat /\ w(i) <= 65280
      OBVIOUS
    <2>1. d[i] \in Octets
      BY ElementOfSeq
    <2>2. d[i] \in Nat /\ d[i] <= 255
      BY <2>1, OctetRange
    <2>3. CASE i % 2 = 1
      <3>1. w(i) = d[i] * 256
        BY <2>3
      <3> HIDE DEF w
      <3> QED BY SMT, <2>2, <3>1
    <2>4. CASE i % 2 # 1
      <3>1. w(i) = d[i] * 1
        BY <2>4
      <3> HIDE DEF w
      <3> QED BY SMT, <2>2, <3>1
    <2> QED BY <2>3, <2>4
  <1> HIDE DEF f
  <1>5. \A i \in 0..N : f[i] = IF i = 0 THEN 0 ELSE f[i - 1] + w(i)
    BY <1>2 DEF Partial
  <1> HIDE DEF N, w
  <1> DEFINE T == {k \in Nat : k <= N => f[k] \in Nat /\ f[k] <= 65280 * k}
  <1>6. 0 \in T
    BY <1>1, <1>5
  <1>7. ASSUME NEW k \in Nat, k \in T PROVE k + 1 \in T
    <2>1. SUFFICES ASSUME k + 1 <= N PROVE f[k + 1] \in Nat /\ f[k + 1] <= 65280 * (k + 1)
      OBVIOUS
    <2>2. f[k + 1] = f[k] + w(k + 1)
      BY <1>1, <1>5, <2>1
    <2>3. w(k + 1) \in Nat /\ w(k + 1) <= 65280
      BY <1>1, <1>4, <2>1
    <2>4. f[k] \in Nat /\ f[k] <= 65280 * k
      BY <1>1, <1>7, <2>1
    <2> QED BY SMT, <2>2, <2>3, <2>4
  <1> HIDE DEF T
  <1>8. N \in T
    BY <1>1, <1>6, <1>7, Everything
  <1>9. f[N] \in Nat /\ f[N] <= 65280 * N
    BY <1>1, <1>8 DEF T
  <1> QED BY <1>3, <1>9 DEF N

(***************************************************************************)
(* Packets and their checksums.                                            *)
(***************************************************************************)
\* What rewrite_inbound and build_udp_reply return when they do not panic.
Outcome == {None} \cup [is : {"some"}, v : Packet]

\* The three outcomes of a helper (a value, None, a panic) are different.
LEMMA Tags ==
  /\ None # Panic
  /\ \A v : Some(v) # Panic /\ Some(v) # None
  /\ \A v, w : Some(v) = Some(w) => v = w
  /\ None.is # "some" /\ \A v : Some(v).is = "some" /\ Some(v).v = v
  <1>1. None.is = "none" /\ Panic.is = "panic" BY DEF None, Panic
  <1>2. \A v : Some(v).is = "some" /\ Some(v).v = v BY DEF Some
  <1>3. None # Panic BY <1>1
  <1>4. \A v : Some(v) # Panic /\ Some(v) # None BY <1>1, <1>2
  <1>5. ASSUME NEW v, NEW w, Some(v) = Some(w) PROVE v = w
    BY <1>2, <1>5
  <1> QED BY <1>1, <1>2, <1>3, <1>4, <1>5

\* A packet that a helper returns is an outcome.
LEMMA SomeOutcome == \A p \in Packet : Some(p) \in Outcome
  BY DEF Some, Outcome

\* A sum that a packet can have, with its checksum, is below 2^32.
LEMMA StoredVerifies ==
  ASSUME NEW s \in Nat, s <= 4280000000
  PROVE  checksum(s) \in Words /\ verify(s + checksum(s))
  <1>1. U32(s)
    BY SMT DEF U32
  <1>2. U16(fold(s))
    BY <1>1, FoldFits
  <1>3. checksum(s) = 65535 - fold(s)
    BY SMT, <1>2 DEF checksum, complement, U16
  <1>4. checksum(s) \in Words
    BY SMT, <1>2, <1>3 DEF U16, Words
  <1>5. U32(s + checksum(s))
    BY SMT, <1>4 DEF U32, Words
  <1> QED BY <1>1, <1>4, <1>5, ChecksumVerifies

\* What the fields of a packet are.
FieldsOK(p) ==
    /\ p.len \in Nat /\ p.len <= 65535 /\ p.ver \in Nat /\ p.ver <= 15
    /\ p.ihl \in Nat /\ p.ihl <= 15 /\ p.total \in Nat /\ p.total <= 65535
    /\ p.proto \in Nat /\ p.proto <= 255
    /\ SumAddr(p.src) \in Nat /\ SumAddr(p.src) <= 131070
    /\ SumAddr(p.dst) \in Nat /\ SumAddr(p.dst) <= 131070
    /\ p.sport \in Nat /\ p.sport <= 65535 /\ p.dport \in Nat /\ p.dport <= 65535
    /\ p.rest \in Nat /\ p.rest <= 524280 /\ p.udp_len \in Nat /\ p.udp_len <= 65535
    /\ p.data \in Seq(Octets)

\* The fields of a packet.
LEMMA Fields ==
  ASSUME NEW p \in Packet
  PROVE  FieldsOK(p)
  <1>1. /\ p.len \in Words /\ p.total \in Words /\ p.src \in Addresses
        /\ p.dst \in Addresses /\ p.sport \in Words /\ p.dport \in Words
        /\ p.udp_len \in Words /\ p.data \in Seq(Octets)
        /\ p.ver \in Nibbles /\ p.ihl \in Nibbles /\ p.proto \in Octets /\ p.rest \in Rests
    BY DEF Packet
  <1>3. \A w \in Words : w \in Nat /\ w <= 65535
    BY SMT DEF Words
  <1>4. \A a \in Addresses : a[1] \in Words /\ a[2] \in Words
    BY DEF Addresses
  <1>5. \A a \in Addresses : SumAddr(a) \in Nat /\ SumAddr(a) <= 131070
    <2> TAKE a \in Addresses
    <2>1. a[1] \in Nat /\ a[1] <= 65535 /\ a[2] \in Nat /\ a[2] <= 65535
      BY <1>3, <1>4
    <2> QED BY SMT, <2>1 DEF SumAddr
  <1>6. \A n \in Nibbles : n \in Nat /\ n <= 15
    BY DEF Nibbles
  <1>n. p.ver \in Nat /\ p.ver <= 15 /\ p.ihl \in Nat /\ p.ihl <= 15
    BY <1>1, <1>6
  <1>r. \A n \in Rests : n \in Nat /\ n <= 524280
    BY SMT DEF Rests
  <1>7. p.proto \in Nat /\ p.proto <= 255
    BY <1>1, OctetRange
  <1>8. /\ p.len \in Nat /\ p.len <= 65535 /\ p.total \in Nat /\ p.total <= 65535
        /\ p.sport \in Nat /\ p.sport <= 65535 /\ p.dport \in Nat /\ p.dport <= 65535
        /\ p.udp_len \in Nat /\ p.udp_len <= 65535
    BY <1>1, <1>3
  <1>9. /\ SumAddr(p.src) \in Nat /\ SumAddr(p.src) <= 131070
        /\ SumAddr(p.dst) \in Nat /\ SumAddr(p.dst) <= 131070
    BY <1>1, <1>5
  <1>s. p.rest \in Nat /\ p.rest <= 524280 /\ p.data \in Seq(Octets)
    BY <1>1, <1>r
  <1> QED BY <1>7, <1>8, <1>9, <1>n, <1>s DEF FieldsOK

\* The sums of a packet fit in a u32, with 16 bits to spare.
LEMMA HeaderFits ==
  ASSUME NEW p \in Packet
  PROVE  HeaderSum(p) \in Nat /\ HeaderSum(p) <= 4280000000
  <1>1. /\ p.ver \in Nat /\ p.ver <= 15 /\ p.ihl \in Nat /\ p.ihl <= 15
        /\ p.total \in Nat /\ p.total <= 65535 /\ p.proto \in Nat /\ p.proto <= 255
        /\ SumAddr(p.src) \in Nat /\ SumAddr(p.src) <= 131070
        /\ SumAddr(p.dst) \in Nat /\ SumAddr(p.dst) <= 131070
    <2>1. FieldsOK(p)
      BY Fields
    <2> QED BY <2>1 DEF FieldsOK
  <1> QED BY SMT, <1>1 DEF HeaderSum

\* The same for the segment, whose length may be anything.
LEMMA SegmentFits ==
  ASSUME NEW p \in Packet, Len(p.data) <= 65535, ihl(p) <= p.len
  PROVE  SegmentSum(p) \in Nat /\ SegmentSum(p) <= 4280000000
  <1> DEFINE n == Len(p.data)
             total == Sum(p.data)
             u == IF p.proto = UDP THEN p.udp_len ELSE 0
             size == p.len - ihl(p)
  <1> HIDE DEF u, size
  <1>d. p.data \in Seq(Octets)
    <2>1. FieldsOK(p)
      BY Fields
    <2> QED BY <2>1 DEF FieldsOK
  <1>1. n \in Nat
    BY <1>d
  <1>2. total \in Nat /\ total <= 65280 * n
    BY <1>d, SumBound
  <1>3. n <= 65535
    OBVIOUS
  <1>4. u \in Nat /\ u <= 65535
    <2>1. p.udp_len \in Nat /\ p.udp_len <= 65535
      <3>1. FieldsOK(p)
        BY Fields
      <3> QED BY <3>1 DEF FieldsOK
    <2> QED BY <2>1 DEF u
  <1>5. size \in Nat /\ size <= 65535
    <2>1. p.len \in Nat /\ p.len <= 65535 /\ p.ihl \in Nat
      <3>1. FieldsOK(p)
        BY Fields
      <3> QED BY <3>1 DEF FieldsOK
    <2>2. ihl(p) \in Nat
      BY <2>1 DEF ihl
    <2> QED BY <2>1, <2>2 DEF size
  <1>6. SegmentSum(p) = SumAddr(p.src) + SumAddr(p.dst) + p.proto + size
                        + p.sport + p.dport + p.rest + u + total
    BY DEF SegmentSum, u, size
  <1> HIDE DEF n, total, u, size
  <1>7. total \in Nat /\ total <= 4278124800
    BY SMT, <1>1, <1>2, <1>3
  <1>8. /\ p.proto \in Nat /\ p.proto <= 255 /\ p.rest \in Nat /\ p.rest <= 524280
        /\ SumAddr(p.src) \in Nat /\ SumAddr(p.src) <= 131070
        /\ SumAddr(p.dst) \in Nat /\ SumAddr(p.dst) <= 131070
        /\ p.sport \in Nat /\ p.sport <= 65535 /\ p.dport \in Nat /\ p.dport <= 65535
    <2>1. FieldsOK(p)
      BY Fields
    <2> QED BY <2>1 DEF FieldsOK
  <1> DEFINE a == SumAddr(p.src)
             b == SumAddr(p.dst)
             c == p.proto
             d == p.sport
             e == p.dport
             f == p.rest
  <1>9. /\ a \in Nat /\ a <= 131070 /\ b \in Nat /\ b <= 131070 /\ c \in Nat /\ c <= 255
        /\ d \in Nat /\ d <= 65535 /\ e \in Nat /\ e <= 65535 /\ f \in Nat /\ f <= 524280
    BY <1>8
  <1>10. SegmentSum(p) = a + b + c + size + d + e + f + u + total
    BY <1>6
  <1> HIDE DEF a, b, c, d, e, f
  <1> QED BY SMT, <1>4, <1>5, <1>7, <1>9, <1>10

\* The updates of a packet that the code makes give packets: its checksums, its
\* destination port, its source, and all that build_udp_reply sets.
WithSums(p, a, b) == [p EXCEPT !.ip_sum = a, !.sum = b]
ToPort(p, a) == [p EXCEPT !.dport = a]
FromSource(p, a, b) == [p EXCEPT !.src = a, !.sport = b]
Returned(p, n, u, i, r, d) ==
    [p EXCEPT !.len = n, !.ihl = i, !.total = n, !.src = p.dst, !.dst = p.src,
              !.sport = p.dport, !.dport = p.sport, !.rest = r, !.udp_len = u, !.data = d]

LEMMA SumsUpdate ==
  ASSUME NEW p \in Packet, NEW a \in Words, NEW b \in Words
  PROVE  WithSums(p, a, b) \in Packet
  <1> DEFINE payloads == Seq(Octets)
  <1>1. Packet = [len : Words, ver : Nibbles, ihl : Nibbles, total : Words, proto : Octets,
                  src : Addresses, dst : Addresses, sport : Words, dport : Words, rest : Rests,
                  udp_len : Words, data : payloads, ip_sum : Words, sum : Words]
    BY DEF Packet
  <1> HIDE DEF payloads
  <1> QED BY <1>1, Zenon DEF WithSums

\* rewrite_inbound sets the destination port.
LEMMA PortUpdate ==
  ASSUME NEW p \in Packet, NEW a \in Words
  PROVE  ToPort(p, a) \in Packet
  <1> DEFINE payloads == Seq(Octets)
  <1>1. Packet = [len : Words, ver : Nibbles, ihl : Nibbles, total : Words, proto : Octets,
                  src : Addresses, dst : Addresses, sport : Words, dport : Words, rest : Rests,
                  udp_len : Words, data : payloads, ip_sum : Words, sum : Words]
    BY DEF Packet
  <1> HIDE DEF payloads
  <1> QED BY <1>1 DEF ToPort

\* rewrite_outbound sets the source.
LEMMA SourceUpdate ==
  ASSUME NEW p \in Packet, NEW a \in Addresses, NEW b \in Words
  PROVE  FromSource(p, a, b) \in Packet
  <1> DEFINE payloads == Seq(Octets)
  <1>1. Packet = [len : Words, ver : Nibbles, ihl : Nibbles, total : Words, proto : Octets,
                  src : Addresses, dst : Addresses, sport : Words, dport : Words, rest : Rests,
                  udp_len : Words, data : payloads, ip_sum : Words, sum : Words]
    BY DEF Packet
  <1> HIDE DEF payloads
  <1> QED BY <1>1, Zenon DEF FromSource

\* build_udp_reply sets the lengths, turns the addresses round and replaces the payload.
LEMMA ReplyUpdate ==
  ASSUME NEW p \in Packet, NEW n \in Words, NEW u \in Words, NEW i \in Nibbles,
         NEW r \in Rests, NEW d \in Seq(Octets)
  PROVE  Returned(p, n, u, i, r, d) \in Packet
  <1> DEFINE payloads == Seq(Octets)
  <1>1. Packet = [len : Words, ver : Nibbles, ihl : Nibbles, total : Words, proto : Octets,
                  src : Addresses, dst : Addresses, sport : Words, dport : Words, rest : Rests,
                  udp_len : Words, data : payloads, ip_sum : Words, sum : Words]
    BY DEF Packet
  <1>2. d \in payloads
    OBVIOUS
  <1> HIDE DEF payloads
  <1> QED BY <1>1, <1>2 DEF Returned

\* fix_checksums stores checksums that verify, and changes nothing else.
LEMMA FixedVerifies ==
  ASSUME NEW p \in Packet, Len(p.data) <= 65535, ihl(p) <= p.len
  PROVE  /\ fix_checksums(p) \in Packet
         /\ SumsVerify(fix_checksums(p))
         /\ \A f \in {"len", "ihl", "total", "proto", "src", "dst", "sport", "dport",
                      "udp_len", "data"} : fix_checksums(p)[f] = p[f]
  <1> DEFINE a == checksum(HeaderSum(p))
             b == checksum(SegmentSum(p))
             q == WithSums(p, a, b)
  <1>1. a \in Words /\ verify(HeaderSum(p) + a)
    BY HeaderFits, StoredVerifies
  <1>2. b \in Words /\ verify(SegmentSum(p) + b)
    BY SegmentFits, StoredVerifies
  <1>3. fix_checksums(p) = q
    BY DEF fix_checksums, WithSums
  <1> HIDE DEF a, b
  <1>q. q \in Packet
    BY <1>1, <1>2, SumsUpdate
  <1>4. /\ q.ip_sum = a /\ q.sum = b
        /\ q.len = p.len /\ q.ver = p.ver /\ q.ihl = p.ihl /\ q.total = p.total
        /\ q.proto = p.proto /\ q.src = p.src /\ q.dst = p.dst /\ q.sport = p.sport
        /\ q.dport = p.dport /\ q.rest = p.rest /\ q.udp_len = p.udp_len /\ q.data = p.data
    BY DEF Packet, WithSums
  <1> HIDE DEF q
  <1>5. HeaderSum(q) = HeaderSum(p)
    BY <1>4 DEF HeaderSum
  <1>6. SegmentSum(q) = SegmentSum(p)
    BY <1>4 DEF SegmentSum, ihl
  <1>7. SumsVerify(q)
    BY <1>1, <1>2, <1>4, <1>5, <1>6 DEF SumsVerify
  <1> QED BY <1>3, <1>4, <1>7, <1>q

\* A reply is well-formed whatever the query's packet looked like, and goes back to
\* where the query came from.
LEMMA ReplyOK ==
  ASSUME NEW p \in Packet, p.proto = UDP, NEW r \in Seq(Octets), Len(r) <= 65507
  PROVE  /\ Reply(p, r) \in Packet /\ WellFormed(Reply(p, r))
         /\ Reply(p, r).src = p.dst /\ Reply(p, r).sport = p.dport
         /\ Reply(p, r).dst = p.src /\ Reply(p, r).dport = p.sport
         /\ Reply(p, r).data = r
  <1> DEFINE n == 28 + Len(r)
             u == 8 + Len(r)
             b == Returned(p, n, u, 5, 0, r)
             q == fix_checksums(b)
  <1>1. Len(r) \in Nat
    OBVIOUS
  <1>2. n \in Words /\ u \in Words /\ u = n - 20 /\ 20 <= n
    BY SMT, <1>1 DEF Words
  <1>3. 5 \in Nibbles /\ 0 \in Rests
    BY SMT DEF Nibbles, Rests
  <1>4. Reply(p, r) = q
    BY DEF Reply, Returned
  <1> HIDE DEF n, u
  <1>5. b \in Packet
    BY <1>2, <1>3, ReplyUpdate
  <1>6. /\ b.len = n /\ b.ihl = 5 /\ b.total = n /\ b.proto = p.proto /\ b.src = p.dst
        /\ b.dst = p.src /\ b.sport = p.dport /\ b.dport = p.sport
        /\ b.udp_len = u /\ b.data = r
    BY DEF Packet, Returned
  <1> HIDE DEF b
  <1>7. Len(b.data) <= 65535
    BY SMT, <1>1, <1>6
  <1>8. ihl(b) = 20 /\ ihl(b) <= b.len
    BY SMT, <1>2, <1>6 DEF ihl, Words
  <1>9. /\ q \in Packet /\ SumsVerify(q)
        /\ q.len = b.len /\ q.ihl = b.ihl /\ q.total = b.total /\ q.src = b.src
        /\ q.dst = b.dst /\ q.sport = b.sport /\ q.dport = b.dport
        /\ q.udp_len = b.udp_len /\ q.data = b.data
    BY <1>5, <1>7, <1>8, FixedVerifies
  <1> HIDE DEF q
  <1>10. ihl(q) = 20
    BY <1>8, <1>9 DEF ihl
  <1>11. WellFormed(q)
    BY <1>2, <1>6, <1>9, <1>10 DEF WellFormed
  <1> QED BY <1>4, <1>6, <1>9, <1>11

\* rewrite_inbound reads and writes within the packet, and what it leaves verifies.
LEMMA InboundOK ==
  ASSUME NEW p \in Packet, Len(p.data) <= p.len, NEW v \in Words
  PROVE  /\ rewrite_inbound(p, v) \in Outcome
         /\ rewrite_inbound(p, v).is = "some" => SumsVerify(rewrite_inbound(p, v).v)
  <1>1. CASE ~Segment(p)
    <2>1. rewrite_inbound(p, v) = None
      BY <1>1 DEF rewrite_inbound
    <2> QED BY <2>1, Tags DEF Outcome
  <1>2. CASE Segment(p)
    <2> DEFINE b == ToPort(p, v)
               q == fix_checksums(b)
    <2>1. p.len \in Nat /\ p.len <= 65535 /\ p.ihl \in Nat /\ p.data \in Seq(Octets)
      <3>1. FieldsOK(p)
        BY Fields
      <3> QED BY <3>1 DEF FieldsOK
    <2>2. ihl(p) + 18 <= p.len /\ ihl(p) <= p.len
      BY SMT, <1>2, <2>1 DEF Segment, ihl
    <2>3. rewrite_inbound(p, v) = Some(q)
      BY <1>2, <2>2 DEF rewrite_inbound, Read, ToPort
    <2>4. b \in Packet
      BY PortUpdate
    <2>5. b.data = p.data /\ b.ihl = p.ihl /\ b.len = p.len
      BY DEF Packet, ToPort
    <2> HIDE DEF b
    <2>6. Len(b.data) <= 65535 /\ ihl(b) <= b.len
      <3>1. Len(p.data) \in Nat
        BY <2>1
      <3> QED BY <2>1, <2>2, <2>5, <3>1 DEF ihl
    <2>7. q \in Packet /\ SumsVerify(q)
      BY <2>4, <2>6, FixedVerifies
    <2> HIDE DEF q
    <2> QED BY <2>3, <2>7, Tags, SomeOutcome
  <1> QED BY <1>1, <1>2

\* rewrite_outbound keeps a whole segment whole.
LEMMA OutboundOK ==
  ASSUME NEW p \in Packet, Len(p.data) <= p.len, Segment(p), p.total = p.len,
         NEW a \in Addresses, NEW v \in Words
  PROVE  /\ rewrite_outbound(p, a, v).v \in Packet
         /\ WellFormed(rewrite_outbound(p, a, v).v)
  <1> DEFINE b == FromSource(p, a, v)
             q == fix_checksums(b)
  <1>1. p.len \in Nat /\ p.len <= 65535 /\ p.ihl \in Nat /\ p.data \in Seq(Octets)
    <2>1. FieldsOK(p)
      BY Fields
    <2> QED BY <2>1 DEF FieldsOK
  <1>2. ihl(p) + 18 <= p.len /\ ihl(p) <= p.len
    BY SMT, <1>1 DEF Segment, ihl
  <1>3. rewrite_outbound(p, a, v) = Some(q)
    BY <1>2 DEF rewrite_outbound, Read, FromSource
  <1>4. b \in Packet
    BY SourceUpdate
  <1>5. /\ b.data = p.data /\ b.ihl = p.ihl /\ b.len = p.len
        /\ b.total = p.total /\ b.proto = p.proto
    BY DEF Packet, FromSource
  <1> HIDE DEF b
  <1>6. Len(b.data) <= 65535 /\ ihl(b) <= b.len
    <2>1. Len(p.data) \in Nat
      BY <1>1
    <2> QED BY <1>1, <1>2, <1>5, <2>1 DEF ihl
  <1>7. /\ q \in Packet /\ SumsVerify(q)
        /\ q.len = b.len /\ q.total = b.total /\ q.proto = b.proto
    BY <1>4, <1>6, FixedVerifies
  <1>8. q.proto # UDP
    BY <1>5, <1>7 DEF Segment, Is4, TCP, UDP
  <1> HIDE DEF q
  <1>9. WellFormed(q)
    BY <1>5, <1>7, <1>8 DEF WellFormed
  <1> QED BY <1>3, <1>7, <1>9, Tags

(***************************************************************************)
(* Queries and their answers.                                              *)
(***************************************************************************)
\* udp_dst_port and extract_udp_payload read only what they have checked for.
LEMMA HelpersInBounds ==
  ASSUME NEW p \in Packet
  PROVE  udp_dst_port(p) # Panic /\ extract_udp_payload(p) # Panic
  <1>1. p.len \in Nat /\ p.ihl \in Nat /\ p.udp_len \in Nat
    <2>1. FieldsOK(p)
      BY Fields
    <2> QED BY <2>1 DEF FieldsOK
  <1>2. udp_dst_port(p) # Panic
    BY <1>1, Tags DEF udp_dst_port, Read, ihl
  <1>3. extract_udp_payload(p) # Panic
    BY <1>1, Tags DEF extract_udp_payload, Read, ihl
  <1> QED BY <1>2, <1>3

\* What the reader hands to a task: a datagram whose header is whole.
IsQuery(p, query) ==
    p \in AppPackets /\ ihl(p) >= 20 /\ extract_udp_payload(p) = Some(query)

\* The reader hands nothing else to a task, and does not panic.
LEMMA FateOK ==
  ASSUME NEW p \in AppPackets
  PROVE  /\ fate(p) \in {"feed_inbound", "nothing", "intercept", "drops_parse_error"}
         /\ fate(p) = "intercept" => IsQuery(p, extract_udp_payload(p).v)
  <1>1. p \in Packet
    BY PacketAssumption
  <1>2. udp_dst_port(p) # Panic /\ extract_udp_payload(p) # Panic
    BY <1>1, HelpersInBounds
  <1>3. fate(p) \in {"feed_inbound", "nothing", "intercept", "drops_parse_error"}
    BY <1>2 DEF fate
  <1>4. ASSUME fate(p) = "intercept" PROVE IsQuery(p, extract_udp_payload(p).v)
    <2>1. parse(p) = Some(UDP) /\ udp_dst_port(p) = Some(53) /\ extract_udp_payload(p) # None
      BY <1>4 DEF fate
    <2>2. Is4(p, UDP)
      BY <2>1, Tags DEF udp_dst_port
    <2>3. parse(p) # None
      BY <2>1, Tags
    <2>4. ihl(p) >= 20
      <3>1. p.ihl \in Nat /\ p.len \in Nat
        <4>1. FieldsOK(p)
          BY <1>1, Fields
        <4> QED BY <4>1 DEF FieldsOK
      <3> QED BY <2>2, <2>3, <3>1 DEF parse, Is4, ihl
    <2>5. \E v : extract_udp_payload(p) = Some(v)
      BY <1>2, <2>1 DEF extract_udp_payload, Read
    <2> QED BY <2>4, <2>5, Tags DEF IsQuery
  <1> QED BY <1>3, <1>4

\* The payload of a query: octets, so few that the answer to it fits in a packet.
LEMMA QueryOK ==
  ASSUME NEW p, NEW query, IsQuery(p, query)
  PROVE  /\ p \in Packet /\ Is4(p, UDP) /\ p.len >= 28 /\ ihl(p) + 4 <= p.len
         /\ query \in Seq(Octets) /\ Len(query) <= 65507
  <1>1. p \in AppPackets /\ p \in Packet
    BY PacketAssumption DEF IsQuery
  <1>2. p.len \in Nat /\ p.len <= 65535 /\ p.ihl \in Nat /\ p.udp_len \in Nat /\ p.data \in Seq(Octets)
    <2>1. FieldsOK(p)
      BY <1>1, Fields
    <2> QED BY <2>1 DEF FieldsOK
  <1>3. Is4(p, UDP) /\ ~(p.len < ihl(p) + 8) /\ ~(p.udp_len < 8) /\ ~(p.len < ihl(p) + p.udp_len)
    BY Tags DEF IsQuery, extract_udp_payload
  <1>4. ihl(p) \in Nat /\ ihl(p) >= 20
    BY <1>2 DEF ihl, IsQuery
  <1>5. ihl(p) + p.udp_len <= p.len
    BY <1>2, <1>3, <1>4
  <1> DEFINE n == p.udp_len - 8
             m == Len(p.data)
  <1>6. query = SubSeq(p.data, 1, n)
    BY <1>3, <1>5, Tags, Zenon DEF IsQuery, extract_udp_payload, Read
  <1>7. p.proto = UDP
    BY <1>3 DEF Is4
  <1>8. m >= p.len - ihl(p) - 8
    BY <1>1, <1>4, <1>7, PacketAssumption
  <1>m. m \in Nat
    BY <1>2
  <1>9. \A i \in 1..m : p.data[i] \in Octets
    BY <1>2, ElementOfSeq
  <1> HIDE DEF m
  <1>10. n \in Nat /\ n <= m /\ n <= 65507
    <2> DEFINE l == p.len
               h == ihl(p)
               u == p.udp_len
    <2>1. l \in Nat /\ l <= 65535 /\ u \in Nat
      BY <1>2
    <2>2. h \in Nat /\ h >= 20 /\ h + u <= l /\ ~(u < 8)
      BY <1>3, <1>4, <1>5
    <2>3. m >= l - h - 8 /\ n = u - 8
      BY <1>8
    <2> HIDE DEF l, h, u, n
    <2> QED BY SMT, <1>m, <2>1, <2>2, <2>3
  <1> HIDE DEF n
  <1>11. \A i \in 1..n : p.data[i] \in Octets
    BY <1>9, <1>10, <1>m
  <1>12. query \in Seq(Octets) /\ Len(query) = IF 1 <= n THEN n - 1 + 1 ELSE 0
    BY <1>6, <1>10, <1>11, SubSeqProperties, SMTT(30)
  <1>13. Len(query) = n
    BY <1>10, <1>12
  <1>14. p.len >= 28 /\ ihl(p) + 4 <= p.len
    BY <1>2, <1>3, <1>4
  <1> QED BY <1>1, <1>3, <1>10, <1>12, <1>13, <1>14

\* The first two octets, which are the identifier of a DNS message.
LEMMA TakeTwo ==
  ASSUME NEW d \in Seq(Octets), Len(d) >= 2
  PROVE  Take(d, 2) = <<d[1], d[2]>> /\ Take(d, 2) \in Seq(Octets) /\ Len(Take(d, 2)) = 2
  <1>1. d[1] \in Octets /\ d[2] \in Octets /\ Len(d) \in Nat
    BY ElementOfSeq
  <1>2. \A i \in 1..2 : d[i] \in Octets
    BY <1>1
  <1>3. Take(d, 2) = SubSeq(d, 1, 2)
    BY <1>1 DEF Take
  <1> DEFINE s == SubSeq(d, 1, 2)
  <1>4. s \in Seq(Octets) /\ Len(s) = 2 /\ s[1] = d[1] /\ s[2] = d[2]
    BY <1>2, SubSeqProperties, SMTT(30)
  <1> HIDE DEF s
  <1>5. s = <<s[1], s[2]>>
    BY <1>4
  <1> QED BY <1>3, <1>4, <1>5, Zenon DEF s

\* What comes back fits in a packet, and a SERVFAIL has the identifier of the query.
LEMMA ResponseOK ==
  ASSUME NEW query \in Seq(Octets), Len(query) <= 65507,
         NEW r, r = build_servfail(query) \/ r \in forward_raw(query)
  PROVE  /\ r \in Seq(Octets) /\ Len(r) <= 65507
         /\ r \in Answers \/ Refuses(r, query)
  <1> DEFINE n == Len(query)
  <1>1. n \in Nat
    OBVIOUS
  <1>2. CASE r = build_servfail(query)
    <2>1. CASE n < 2
      <3>1. r = << >>
        BY <1>2, <2>1 DEF build_servfail
      <3>2. Len(r) = 0
        BY <3>1
      <3> QED BY <1>1, <2>1, <3>1, <3>2 DEF Refuses
    <2>2. CASE n >= 2 /\ n < 4
      <3>1. r = query
        BY <1>1, <1>2, <2>2 DEF build_servfail
      <3> QED BY <1>1, <2>2, <3>1 DEF Refuses
    <2>3. CASE n >= 4
      <3>1. r = [query EXCEPT ![3] = 129, ![4] = 130]
        BY <1>1, <1>2, <2>3 DEF build_servfail
      <3>2. 129 \in Octets /\ 130 \in Octets
        BY SMT DEF Octets
      <3> DEFINE s == [query EXCEPT ![3] = 129]
      <3>3. s \in Seq(Octets) /\ Len(s) = n /\ s[1] = query[1] /\ s[2] = query[2]
        BY <1>1, <2>3, <3>2, ExceptSeq
      <3>4. r = [s EXCEPT ![4] = 130]
        BY <3>1
      <3> HIDE DEF s
      <3>5. r \in Seq(Octets) /\ Len(r) = n /\ r[1] = s[1] /\ r[2] = s[2]
        BY <1>1, <2>3, <3>2, <3>3, <3>4, ExceptSeq
      <3>6. Take(r, 2) = <<r[1], r[2]>> /\ Take(query, 2) = <<query[1], query[2]>>
        BY <1>1, <2>3, <3>5, TakeTwo
      <3> QED BY <1>1, <2>3, <3>3, <3>5, <3>6 DEF Refuses
    <2> QED BY <1>1, <2>1, <2>2, <2>3
  <1>3. CASE r \in forward_raw(query)
    <2>1. r \in Answers
      BY <1>3 DEF forward_raw
    <2>2. r \in Seq(Octets) /\ Len(r) \in Nat /\ Len(r) <= 4096
      BY <2>1, PacketAssumption
    <2> QED BY <2>1, <2>2
  <1> QED BY <1>2, <1>3

\* p answers the query of task k: it goes back where the query came from, with what the
\* socket received or a SERVFAIL.
Answering(p, k) ==
    /\ <<p.src, p.sport>> = <<k.pkt.dst, k.pkt.dport>>
    /\ <<p.dst, p.dport>> = <<k.pkt.src, k.pkt.sport>>
    /\ p.data \in Answers \/ Refuses(p.data, k.query)

Deliverable(p, k) == p \in Packet /\ WellFormed(p) /\ Answering(p, k)

\* Whatever comes back, build_udp_reply builds a packet that answers the query:
\* extract_udp_payload has checked the lengths for it.
LEMMA BuildOK ==
  ASSUME NEW k, IsQuery(k.pkt, k.query),
         NEW r, r = build_servfail(k.query) \/ r \in forward_raw(k.query)
  PROVE  /\ build_udp_reply(k.pkt, r) = Some(Reply(k.pkt, r))
         /\ Deliverable(Reply(k.pkt, r), k)
  <1> DEFINE p == k.pkt
             query == k.query
  <1>1. /\ p \in Packet /\ Is4(p, UDP) /\ p.len >= 28 /\ ihl(p) + 4 <= p.len
        /\ query \in Seq(Octets) /\ Len(query) <= 65507
    BY QueryOK
  <1>2. p.proto = UDP /\ p.len \in Nat
    <2>1. FieldsOK(p)
      BY <1>1, Fields
    <2> QED BY <1>1, <2>1 DEF Is4, FieldsOK
  <1>3. /\ r \in Seq(Octets) /\ Len(r) <= 65507
        /\ r \in Answers \/ Refuses(r, query)
    BY <1>1, ResponseOK
  <1>4. build_udp_reply(p, r) = Some(Reply(p, r))
    BY <1>1, <1>2 DEF build_udp_reply, Read
  <1>5. /\ Reply(p, r) \in Packet /\ WellFormed(Reply(p, r))
        /\ Reply(p, r).src = p.dst /\ Reply(p, r).sport = p.dport
        /\ Reply(p, r).dst = p.src /\ Reply(p, r).dport = p.sport
        /\ Reply(p, r).data = r
    BY <1>1, <1>2, <1>3, ReplyOK
  <1>6. Deliverable(Reply(p, r), k)
    BY <1>3, <1>5 DEF Deliverable, Answering
  <1> QED BY <1>4, <1>6

(***************************************************************************)
(* The invariant.                                                          *)
(***************************************************************************)
CounterNames == {"packets_in", "packets_out", "drops_parse_error", "dns_queries",
                 "dns_failures"}

\* Where the reader, the tasks and the poll task can be, and what they hold.
PlaneTypeOK ==
    /\ reader \in {"reading", "ended"}
    /\ tun_rx \in Seq(AppPackets) /\ fed \in Seq(Outcome)
    /\ DOMAIN task = Tasks
    /\ \A t \in Tasks : task[t].at \in {"none", "query", "lock", "write", "done", "lost"}
    /\ poll \in [at : {"tick", "drain", "lock", "write"}, count : Nat, out : Seq(Packet)]
    /\ written \in Seq([by : Tasks \cup {"poll"}, pkt : Packet])
    /\ metrics \in [CounterNames -> Nat]

\* From the moment it is spawned a task has a packet that the reader checked.
Intercepted ==
    \A t \in Tasks :
        /\ task[t].at = "none" => task[t] = NoTask
        /\ task[t].at # "none" => IsQuery(task[t].pkt, task[t].query)

\* The writer's mutex is held by the one that writes.
Mutex ==
    /\ poll.at = "write" <=> writer = "poll"
    /\ \A t \in Tasks : task[t].at = "write" <=> writer = t

\* What a task has to write is well-formed and answers its query.
RepliesOK ==
    \A t \in Tasks : task[t].at \in {"lock", "write"} => Deliverable(task[t].out, task[t])

\* What the poll task has to write is well-formed, and there is some when it writes.
OutgoingOK ==
    /\ \A i \in DOMAIN poll.out : WellFormed(poll.out[i])
    /\ poll.at \in {"lock", "write"} => poll.out # << >>

FedOK == \A i \in DOMAIN fed : fed[i].is = "some" => SumsVerify(fed[i].v)

\* What was written is well-formed and fits, and a task that wrote something is done:
\* it wrote the answer to its query, once.
WrittenOK ==
    /\ \A i \in DOMAIN written : WellFormed(written[i].pkt) /\ written[i].pkt.len <= MTU
    /\ \A i \in DOMAIN written : written[i].by \in Tasks =>
          /\ task[written[i].by].at = "done"
          /\ Answering(written[i].pkt, task[written[i].by])
    /\ \A i, j \in DOMAIN written :
          (written[i].by \in Tasks /\ written[i].by = written[j].by) => i = j

PlaneInv == PlaneTypeOK /\ Intercepted /\ Mutex /\ RepliesOK /\ OutgoingOK /\ FedOK /\ WrittenOK

\* Counting keeps counters counters.
LEMMA BumpOK ==
  ASSUME metrics \in [CounterNames -> Nat], NEW S
  PROVE  /\ Bump(S) \in [CounterNames -> Nat]
         /\ \A f \in CounterNames : Bump(S)[f] = metrics[f] + (IF f \in S THEN 1 ELSE 0)
  BY DEF Bump

\* A step of one task leaves the others alone, and the task its query.
LEMMA TaskMoves ==
  ASSUME PlaneTypeOK, Intercepted, NEW t \in Tasks, task[t].at # "none",
         NEW at \in {"lock", "write", "done", "lost"}, NEW out,
         task' = [task EXCEPT ![t] = Task(task[t], at, out)]
  PROVE  /\ DOMAIN task' = Tasks
         /\ \A u \in Tasks : u # t => task'[u] = task[u]
         /\ task'[t].at = at /\ task'[t].out = out
         /\ \A p : Answering(p, task'[t]) <=> Answering(p, task[t])
         /\ \A u \in Tasks : task'[u].at \in {"none", "query", "lock", "write", "done", "lost"}
         /\ Intercepted'
  <1>1. DOMAIN task = Tasks
    BY DEF PlaneTypeOK
  <1>2. task'[t] = Task(task[t], at, out)
    BY <1>1
  <1>3. /\ task'[t].at = at /\ task'[t].out = out
        /\ task'[t].pkt = task[t].pkt /\ task'[t].query = task[t].query
    BY <1>2 DEF Task
  <1>4. DOMAIN task' = Tasks /\ \A u \in Tasks : u # t => task'[u] = task[u]
    BY <1>1
  <1>5. \A p : Answering(p, task'[t]) <=> Answering(p, task[t])
    BY <1>3 DEF Answering
  <1>6. \A u \in Tasks : task'[u].at \in {"none", "query", "lock", "write", "done", "lost"}
    BY <1>3, <1>4 DEF PlaneTypeOK
  <1>7. Intercepted'
    BY <1>3, <1>4 DEF Intercepted
  <1> QED BY <1>3, <1>4, <1>5, <1>6, <1>7

\* A step that writes nothing keeps WrittenOK when it leaves the done tasks alone.
LEMMA NothingWritten ==
  ASSUME WrittenOK, written' = written,
         \A u \in Tasks : task[u].at = "done" => task'[u] = task[u]
  PROVE  WrittenOK'
  BY DEF WrittenOK

\* A packet that is read keeps the invariant, and a query gets a task with it.
LEMMA ReadInv ==
  ASSUME PlaneInv, NEW p \in AppPackets, read_packet(p)
  PROVE  PlaneInv'
  <1>1. PlaneTypeOK /\ Intercepted /\ Mutex /\ RepliesOK /\ OutgoingOK /\ FedOK /\ WrittenOK
    BY DEF PlaneInv
  <1>2. /\ fate(p) \in {"feed_inbound", "nothing", "intercept", "drops_parse_error"}
        /\ fate(p) = "intercept" => IsQuery(p, extract_udp_payload(p).v)
    BY FateOK
  <1>3. fed' = fed /\ poll' = poll /\ writer' = writer /\ written' = written
    BY DEF read_packet
  <1>4. reader' \in {"reading", "ended"}
    BY <1>2 DEF read_packet
  <1>5. tun_rx' \in Seq(AppPackets)
    BY <1>1 DEF read_packet, PlaneTypeOK
  <1>6. metrics' \in [CounterNames -> Nat]
    BY <1>1, BumpOK DEF read_packet, PlaneTypeOK
  <1>7. OutgoingOK' /\ FedOK'
    BY <1>1, <1>3 DEF OutgoingOK, FedOK
  <1>8. CASE fate(p) # "intercept"
    <2>1. task' = task
      BY <1>8, Zenon DEF read_packet
    <2>2. PlaneTypeOK'
      BY <1>1, <1>3, <1>4, <1>5, <1>6, <2>1, Zenon DEF PlaneTypeOK
    <2>3. Intercepted' /\ Mutex' /\ RepliesOK'
      BY <1>1, <1>3, <2>1 DEF Intercepted, Mutex, RepliesOK
    <2>4. WrittenOK'
      BY <1>1, <1>3, <2>1, NothingWritten
    <2> QED BY <1>7, <2>2, <2>3, <2>4 DEF PlaneInv
  <1>9. CASE fate(p) = "intercept"
    <2> DEFINE new == [at |-> "query", pkt |-> p, out |-> NoPacket,
                       query |-> extract_udp_payload(p).v]
    <2>1. PICK t \in Tasks \ Spawned : task' = [task EXCEPT ![t] = new]
      BY <1>9 DEF read_packet
    <2>2. task[t] = NoTask /\ task[t].at = "none"
      BY <2>1 DEF Spawned, NoTask
    <2>3. DOMAIN task' = Tasks /\ task'[t] = new /\ \A u \in Tasks : u # t => task'[u] = task[u]
      BY <1>1, <2>1 DEF PlaneTypeOK
    <2>4. task'[t].at = "query" /\ task'[t].pkt = p /\ task'[t].query = extract_udp_payload(p).v
      BY <2>3
    <2> HIDE DEF new
    <2>5. PlaneTypeOK'
      BY <1>1, <1>3, <1>4, <1>5, <1>6, <2>3, <2>4, ZenonT(30) DEF PlaneTypeOK
    <2>6. Intercepted'
      BY <1>1, <1>2, <1>9, <2>3, <2>4 DEF Intercepted
    <2>7. Mutex'
      BY <1>1, <1>3, <2>2, <2>3, <2>4 DEF Mutex
    <2>8. RepliesOK'
      BY <1>1, <2>3, <2>4 DEF RepliesOK
    <2>9. WrittenOK'
      BY <1>1, <1>3, <2>2, <2>3, NothingWritten
    <2> QED BY <1>7, <2>5, <2>6, <2>7, <2>8, <2>9 DEF PlaneInv
  <1> QED BY <1>8, <1>9

\* A failed read ends the reader only.
LEMMA ReadFailsInv == PlaneInv /\ read_fails => PlaneInv'
  <1> SUFFICES ASSUME PlaneInv, read_fails PROVE PlaneInv'
    OBVIOUS
  <1>1. /\ reader' = "ended" /\ tun_rx' = tun_rx /\ fed' = fed /\ task' = task /\ poll' = poll
        /\ writer' = writer /\ written' = written /\ metrics' = metrics
    BY DEF read_fails
  <1>2. PlaneTypeOK'
    BY <1>1, Zenon DEF PlaneInv, PlaneTypeOK
  <1>3. Intercepted' /\ Mutex' /\ RepliesOK' /\ OutgoingOK' /\ FedOK' /\ WrittenOK'
    BY <1>1 DEF PlaneInv, Intercepted, Mutex, RepliesOK, OutgoingOK, FedOK, WrittenOK
  <1> QED BY <1>2, <1>3 DEF PlaneInv

\* What handle_query does: a reply is built, whether the query was resolved or not.
LEMMA HandleQuery ==
  ASSUME PlaneInv, NEW t \in Tasks, handle_query(t)
  PROVE  \E out, S :
            /\ Deliverable(out, task[t])
            /\ task' = [task EXCEPT ![t] = Task(task[t], "lock", out)]
            /\ metrics' = Bump(S)
  <1>1. task[t].at = "query"
    BY DEF handle_query
  <1>2. IsQuery(task[t].pkt, task[t].query)
    BY <1>1 DEF PlaneInv, Intercepted
  <1> DEFINE Goes(fails, reply) ==
        /\ task' = [task EXCEPT ![t] =
                       CASE reply = None -> Task(task[t], "done", NoPacket)
                         [] reply = Panic -> Task(task[t], "panicked", NoPacket)
                         [] OTHER -> Task(task[t], "lock", reply.v)]
        /\ metrics' = Bump({"dns_queries"} \cup (IF fails THEN {"dns_failures"} ELSE {})
                            \cup (IF reply.is = "some" THEN {"packets_out"} ELSE {}))
  <1>a. PICK fails \in BOOLEAN :
           \E resp \in IF fails THEN {build_servfail(task[t].query)} ELSE forward_raw(task[t].query) :
              Goes(fails, build_udp_reply(task[t].pkt, resp))
    BY Zenon DEF handle_query
  <1>b. PICK resp \in IF fails THEN {build_servfail(task[t].query)} ELSE forward_raw(task[t].query) :
           Goes(fails, build_udp_reply(task[t].pkt, resp))
    BY <1>a, Zenon
  <1> DEFINE reply == build_udp_reply(task[t].pkt, resp)
  <1>3. Goes(fails, reply)
    BY <1>b
  <1>4. resp = build_servfail(task[t].query) \/ resp \in forward_raw(task[t].query)
    BY <1>b, Zenon
  <1> DEFINE out == Reply(task[t].pkt, resp)
  <1>5. reply = Some(out) /\ Deliverable(out, task[t])
    BY <1>2, <1>4, BuildOK
  <1> HIDE DEF out, reply
  <1>6. reply # None /\ reply # Panic /\ reply.is = "some" /\ reply.v = out
    BY <1>5, Tags
  <1>7. task' = [task EXCEPT ![t] = Task(task[t], "lock", out)]
    BY <1>3, <1>6
  <1> DEFINE S == {"dns_queries"} \cup (IF fails THEN {"dns_failures"} ELSE {}) \cup {"packets_out"}
  <1>8. metrics' = Bump(S)
    BY <1>3, <1>6
  <1> HIDE DEF S
  <1> QED BY <1>5, <1>7, <1>8, Zenon

\* A query becomes a reply that waits for the writer.
LEMMA HandleQueryInv ==
  ASSUME PlaneInv, NEW t \in Tasks, handle_query(t)
  PROVE  PlaneInv'
  <1>1. PlaneTypeOK /\ Intercepted /\ Mutex /\ RepliesOK /\ OutgoingOK /\ FedOK /\ WrittenOK
    BY DEF PlaneInv
  <1>2. /\ task[t].at = "query" /\ reader' = reader /\ tun_rx' = tun_rx /\ fed' = fed
        /\ poll' = poll /\ writer' = writer /\ written' = written
    BY DEF handle_query
  <1>3. PICK out, S : /\ Deliverable(out, task[t])
                      /\ task' = [task EXCEPT ![t] = Task(task[t], "lock", out)]
                      /\ metrics' = Bump(S)
    BY HandleQuery
  <1>4. /\ DOMAIN task' = Tasks
        /\ \A u \in Tasks : u # t => task'[u] = task[u]
        /\ task'[t].at = "lock" /\ task'[t].out = out
        /\ \A p : Answering(p, task'[t]) <=> Answering(p, task[t])
        /\ \A u \in Tasks : task'[u].at \in {"none", "query", "lock", "write", "done", "lost"}
        /\ Intercepted'
    BY <1>1, <1>2, <1>3, TaskMoves, Zenon
  <1>5. metrics' \in [CounterNames -> Nat]
    BY <1>1, <1>3, BumpOK, Zenon DEF PlaneTypeOK
  <1>6. PlaneTypeOK'
    BY <1>1, <1>2, <1>4, <1>5 DEF PlaneTypeOK
  <1>7. Mutex'
    BY <1>1, <1>2, <1>4 DEF Mutex
  <1>8. Deliverable(task'[t].out, task'[t])
    BY <1>3, <1>4 DEF Deliverable
  <1>9. RepliesOK'
    BY <1>1, <1>4, <1>8 DEF RepliesOK
  <1>10. OutgoingOK' /\ FedOK'
    BY <1>1, <1>2 DEF OutgoingOK, FedOK
  <1>11. WrittenOK'
    BY <1>1, <1>2, <1>4, NothingWritten
  <1> QED BY <1>4, <1>6, <1>7, <1>9, <1>10, <1>11, Zenon DEF PlaneInv

\* A task takes the mutex, which nobody holds.
LEMMA LockInv ==
  ASSUME PlaneInv, NEW t \in Tasks, lock(t)
  PROVE  PlaneInv'
  <1>1. PlaneTypeOK /\ Intercepted /\ Mutex /\ RepliesOK /\ OutgoingOK /\ FedOK /\ WrittenOK
    BY DEF PlaneInv
  <1>2. /\ task[t].at = "lock" /\ writer = Free /\ writer' = t
        /\ task' = [task EXCEPT ![t] = Task(task[t], "write", task[t].out)]
        /\ reader' = reader /\ tun_rx' = tun_rx /\ fed' = fed
        /\ poll' = poll /\ written' = written /\ metrics' = metrics
    BY DEF lock
  <1>3. /\ DOMAIN task' = Tasks
        /\ \A u \in Tasks : u # t => task'[u] = task[u]
        /\ task'[t].at = "write" /\ task'[t].out = task[t].out
        /\ \A p : Answering(p, task'[t]) <=> Answering(p, task[t])
        /\ \A u \in Tasks : task'[u].at \in {"none", "query", "lock", "write", "done", "lost"}
        /\ Intercepted'
    BY <1>1, <1>2, TaskMoves, ZenonT(30)
  <1>4. PlaneTypeOK'
    BY <1>1, <1>2, <1>3 DEF PlaneTypeOK
  <1>5. t # "poll" /\ Free # "poll" /\ \A u \in Tasks : u # Free
    BY TaskAssumption DEF Free
  <1>6. Mutex'
    BY <1>1, <1>2, <1>3, <1>5, Zenon DEF Mutex
  <1>7. Deliverable(task'[t].out, task'[t])
    BY <1>1, <1>2, <1>3, Zenon DEF Deliverable, RepliesOK
  <1>8. RepliesOK'
    BY <1>1, <1>3, <1>7, Zenon DEF RepliesOK
  <1>9. OutgoingOK' /\ FedOK'
    BY <1>1, <1>2 DEF OutgoingOK, FedOK
  <1>10. WrittenOK'
    BY <1>1, <1>2, <1>3, NothingWritten, Zenon
  <1> QED BY <1>3, <1>4, <1>6, <1>8, <1>9, <1>10 DEF PlaneInv

\* A packet that write_packet appends.
LEMMA OneMoreWritten ==
  ASSUME PlaneTypeOK, WrittenOK, NEW who \in Tasks \cup {"poll"}, NEW p \in Packet,
         WellFormed(p), p.len <= MTU, written' = Append(written, [by |-> who, pkt |-> p]),
         \A u \in Tasks : task[u].at = "done" => task'[u] = task[u],
         who \in Tasks => /\ task[who].at # "done" /\ task'[who].at = "done"
                          /\ Answering(p, task'[who])
  PROVE  /\ WrittenOK' /\ written' \in Seq([by : Tasks \cup {"poll"}, pkt : Packet])
         /\ Len(written') = Len(written) + 1
  <1> DEFINE e == [by |-> who, pkt |-> p]
             n == Len(written)
             Entry == [by : Tasks \cup {"poll"}, pkt : Packet]
  <1>1. e \in Entry /\ e.by = who /\ e.pkt = p
    OBVIOUS
  <1>2. written \in Seq(Entry) /\ n \in Nat /\ DOMAIN written = 1..n
    BY DEF PlaneTypeOK
  <1>3. written' = Append(written, e)
    OBVIOUS
  <1> HIDE DEF e, Entry
  <1>4. /\ written' \in Seq(Entry) /\ Len(written') = n + 1
        /\ \A i \in 1..n : written'[i] = written[i]
        /\ written'[n + 1] = e
    BY <1>1, <1>2, <1>3, AppendProperties
  <1>5. DOMAIN written' = 1..(n + 1)
    BY <1>4
  <1> HIDE DEF n
  <1>6. \A i \in DOMAIN written' : (i \in DOMAIN written /\ written'[i] = written[i])
                                   \/ (i = n + 1 /\ written'[i] = e)
    BY <1>2, <1>4, <1>5
  <1>7. \A i \in DOMAIN written : i # n + 1
    BY <1>2
  <1>8. \A i \in DOMAIN written : written[i].by # who \/ who \notin Tasks
    BY DEF WrittenOK
  <1>9. \A i \in DOMAIN written' : WellFormed(written'[i].pkt) /\ written'[i].pkt.len <= MTU
    BY <1>1, <1>6, Zenon DEF WrittenOK
  <1>10. \A i \in DOMAIN written' : written'[i].by \in Tasks =>
          /\ task'[written'[i].by].at = "done"
          /\ Answering(written'[i].pkt, task'[written'[i].by])
    BY <1>1, <1>6 DEF WrittenOK
  <1>11. \A i, j \in DOMAIN written' :
          (written'[i].by \in Tasks /\ written'[i].by = written'[j].by) => i = j
    BY <1>1, <1>6, <1>8 DEF WrittenOK
  <1> QED BY <1>4, <1>9, <1>10, <1>11, Zenon DEF WrittenOK, n, Entry

\* A task writes its reply, or the device refuses it, and the mutex is free again.
LEMMA WriteInv ==
  ASSUME PlaneInv, NEW t \in Tasks, write(t)
  PROVE  PlaneInv'
  <1>1. PlaneTypeOK /\ Intercepted /\ Mutex /\ RepliesOK /\ OutgoingOK /\ FedOK /\ WrittenOK
    BY DEF PlaneInv
  <1> DEFINE p == task[t].out
             at == IF written' = written THEN "lost" ELSE "done"
             Entry == [by : Tasks \cup {"poll"}, pkt : Packet]
  <1>2. /\ task[t].at = "write" /\ writer' = Free /\ write_packet(t, p)
        /\ task' = [task EXCEPT ![t] = Task(task[t], at, p)]
        /\ reader' = reader /\ tun_rx' = tun_rx /\ fed' = fed /\ poll' = poll
        /\ metrics' = metrics
    BY DEF write
  <1>3. Deliverable(p, task[t])
    BY <1>1, <1>2 DEF RepliesOK
  <1> HIDE DEF p
  <1>4. at \in {"lost", "done"}
    OBVIOUS
  <1>5. /\ DOMAIN task' = Tasks
        /\ \A u \in Tasks : u # t => task'[u] = task[u]
        /\ task'[t].at = at
        /\ \A q : Answering(q, task'[t]) <=> Answering(q, task[t])
        /\ \A u \in Tasks : task'[u].at \in {"none", "query", "lock", "write", "done", "lost"}
        /\ Intercepted'
    BY <1>1, <1>2, <1>4, TaskMoves, ZenonT(30)
  <1>6. t # "poll" /\ Free # "poll" /\ \A u \in Tasks : u # Free
    BY TaskAssumption DEF Free
  <1>7. Mutex'
    BY <1>1, <1>2, <1>4, <1>5, <1>6 DEF Mutex
  <1>8. RepliesOK'
    BY <1>1, <1>4, <1>5, Zenon DEF RepliesOK
  <1>9. OutgoingOK' /\ FedOK'
    BY <1>1, <1>2 DEF OutgoingOK, FedOK
  <1>10. \A u \in Tasks : task[u].at = "done" => task'[u] = task[u]
    BY <1>2, <1>5
  <1>11. WrittenOK' /\ written' \in Seq(Entry)
    <2>1. CASE p.len <= MTU /\ written' = Append(written, [by |-> t, pkt |-> p])
      <3>1. written' # written
        <4>1. written \in Seq(Entry)
          BY <1>1 DEF PlaneTypeOK
        <4>2. Len(Append(written, [by |-> t, pkt |-> p])) = Len(written) + 1 /\ Len(written) \in Nat
          BY <4>1
        <4> QED BY <2>1, <4>2
      <3>2. task'[t].at = "done"
        BY <1>5, <3>1, Zenon
      <3>3. p \in Packet /\ WellFormed(p) /\ Answering(p, task'[t])
        BY <1>3, <1>5 DEF Deliverable
      <3>4. WrittenOK' /\ written' \in Seq(Entry)
        BY <1>1, <1>2, <1>10, <2>1, <3>2, <3>3, OneMoreWritten, ZenonT(30)
      <3> QED BY <3>4
    <2>2. CASE written' = written
      <3>1. WrittenOK'
        BY <1>1, <1>10, <2>2, NothingWritten, Zenon
      <3>2. written' \in Seq(Entry)
        BY <1>1, <2>2, Zenon DEF PlaneTypeOK
      <3> QED BY <3>1, <3>2, Zenon
    <2> QED BY <1>2, <2>1, <2>2, Zenon DEF write_packet
  <1>12. PlaneTypeOK'
    BY <1>1, <1>2, <1>5, <1>11, Zenon DEF PlaneTypeOK
  <1> QED BY <1>5, <1>7, <1>8, <1>9, <1>11, <1>12, Zenon DEF PlaneInv

\* What process_inbound makes of the packets that wait.
LEMMA Processed ==
  ASSUME PlaneTypeOK, FedOK, process_inbound
  PROVE  /\ fed' \in Seq(Outcome) /\ FedOK'
         /\ Len(fed') = Len(fed) + Len(tun_rx)
  <1> DEFINE g == [i \in DOMAIN tun_rx |-> rewrite_inbound(tun_rx[i], VPort)]
             n == Len(tun_rx)
             m == Len(fed)
  <1>1. tun_rx \in Seq(AppPackets) /\ fed \in Seq(Outcome)
    BY DEF PlaneTypeOK
  <1>2. n \in Nat /\ DOMAIN tun_rx = 1..n /\ m \in Nat /\ DOMAIN fed = 1..m
    BY <1>1, LenProperties, Zenon
  <1>3. \A i \in 1..n : /\ g[i] \in Outcome
                        /\ g[i].is = "some" => SumsVerify(g[i].v)
    <2> TAKE i \in 1..n
    <2>1. tun_rx[i] \in AppPackets
      BY <1>1, ElementOfSeq
    <2>2. tun_rx[i] \in Packet /\ Len(tun_rx[i].data) <= tun_rx[i].len /\ VPort \in Words
      BY <2>1, PacketAssumption
    <2>3. g[i] = rewrite_inbound(tun_rx[i], VPort)
      BY <1>2
    <2> QED BY <2>2, <2>3, InboundOK
  <1>4. DOMAIN g = 1..n
    BY <1>2
  <1>5. fed' = fed \o g
    BY DEF process_inbound
  <1>f. g = [i \in 1..n |-> g[i]]
    BY <1>4
  <1> HIDE DEF g, n, m
  <1>6. g \in Seq(Outcome) /\ Len(g) = n
    BY <1>2, <1>3, <1>4, <1>f
  <1>7. /\ fed' \in Seq(Outcome) /\ Len(fed') = Len(fed) + Len(g)
        /\ \A i \in 1 .. Len(fed) + Len(g) :
              fed'[i] = IF i <= Len(fed) THEN fed[i] ELSE g[i - Len(fed)]
    BY <1>1, <1>5, <1>6, ConcatProperties, Zenon
  <1>8. DOMAIN fed' = 1..(m + n)
    BY <1>6, <1>7 DEF m
  <1>9. ASSUME NEW i \in DOMAIN fed', fed'[i].is = "some" PROVE SumsVerify(fed'[i].v)
    <2>1. i \in 1..(m + n)
      BY <1>8, <1>9
    <2>2. CASE i <= m
      <3>1. fed'[i] = fed[i] /\ i \in DOMAIN fed
        BY <1>2, <1>6, <1>7, <2>1, <2>2 DEF m
      <3> QED BY <1>9, <3>1 DEF FedOK
    <2>3. CASE ~(i <= m)
      <3>1. fed'[i] = g[i - m] /\ i - m \in 1..n
        BY <1>2, <1>6, <1>7, <2>1, <2>3 DEF m
      <3> QED BY <1>3, <1>9, <3>1
    <2> QED BY <2>2, <2>3
  <1>10. FedOK'
    BY <1>9 DEF FedOK
  <1> QED BY <1>6, <1>7, <1>10 DEF n

\* The poll task feeds what waits and takes what the stack has produced.
LEMMA StackPollInv == PlaneInv /\ stack_poll => PlaneInv'
  <1> SUFFICES ASSUME PlaneInv, stack_poll PROVE PlaneInv'
    OBVIOUS
  <1>1. PlaneTypeOK /\ Intercepted /\ Mutex /\ RepliesOK /\ OutgoingOK /\ FedOK /\ WrittenOK
    BY DEF PlaneInv
  <1>2. /\ poll.at = "tick" /\ process_inbound /\ reader' = reader /\ task' = task
        /\ writer' = writer /\ written' = written /\ metrics' = metrics
    BY DEF stack_poll
  <1>3. fed' \in Seq(Outcome) /\ FedOK'
    BY <1>1, <1>2, Processed
  <1>4. tun_rx' = << >>
    BY <1>2 DEF process_inbound
  <1>5. PICK n \in 0..(MaxOut - poll.count) : \E out \in [1..n -> StackPackets] :
          poll' = [at |-> "drain", count |-> poll.count + n,
                   out |-> [i \in 1..n |-> rewrite_outbound(out[i], Remote.addr, Remote.port).v]]
    BY Zenon DEF stack_poll
  <1>6. PICK out \in [1..n -> StackPackets] :
          poll' = [at |-> "drain", count |-> poll.count + n,
                   out |-> [i \in 1..n |-> rewrite_outbound(out[i], Remote.addr, Remote.port).v]]
    BY <1>5, ZenonT(30)
  <1>7. n \in Nat /\ poll.count \in Nat
    BY <1>1, PlaneBounds DEF PlaneTypeOK
  <1> DEFINE g == [i \in 1..n |-> rewrite_outbound(out[i], Remote.addr, Remote.port).v]
  <1>8. \A i \in 1..n : g[i] \in Packet /\ WellFormed(g[i])
    <2> TAKE i \in 1..n
    <2>1. out[i] \in StackPackets
      BY <1>6
    <2>2. /\ out[i] \in Packet /\ Len(out[i].data) <= out[i].len /\ Segment(out[i])
          /\ out[i].total = out[i].len /\ Remote.addr \in Addresses /\ Remote.port \in Words
      BY <2>1, PacketAssumption
    <2>3. g[i] = rewrite_outbound(out[i], Remote.addr, Remote.port).v
      OBVIOUS
    <2> HIDE DEF g
    <2> QED BY <2>2, <2>3, OutboundOK
  <1>9. DOMAIN g = 1..n /\ g = [i \in 1..n |-> g[i]]
    OBVIOUS
  <1>10. poll' = [at |-> "drain", count |-> poll.count + n, out |-> g]
    BY <1>6
  <1> HIDE DEF g
  <1>11. g \in Seq(Packet)
    BY <1>7, <1>8, <1>9
  <1>12. PlaneTypeOK'
    BY <1>1, <1>2, <1>3, <1>4, <1>7, <1>10, <1>11 DEF PlaneTypeOK
  <1>13. OutgoingOK'
    BY <1>8, <1>9, <1>10, Zenon DEF OutgoingOK
  <1>14. Mutex'
    BY <1>1, <1>2, <1>10, Zenon DEF Mutex
  <1>15. Intercepted' /\ RepliesOK' /\ WrittenOK'
    BY <1>1, <1>2 DEF Intercepted, RepliesOK, WrittenOK
  <1> QED BY <1>3, <1>12, <1>13, <1>14, <1>15 DEF PlaneInv

\* The poll task takes the next packet, and the mutex for it.
LEMMA DrainInv == PlaneInv /\ (drain_outbound \/ poll_lock) => PlaneInv'
  <1> SUFFICES ASSUME PlaneInv, drain_outbound \/ poll_lock PROVE PlaneInv'
    OBVIOUS
  <1>1. PlaneTypeOK /\ Intercepted /\ Mutex /\ RepliesOK /\ OutgoingOK /\ FedOK /\ WrittenOK
    BY DEF PlaneInv
  <1>2. /\ reader' = reader /\ tun_rx' = tun_rx /\ fed' = fed /\ task' = task
        /\ written' = written
    BY DEF drain_outbound, poll_lock
  <1>3. metrics' \in [CounterNames -> Nat]
    BY <1>1, BumpOK DEF drain_outbound, poll_lock, PlaneTypeOK
  <1>4. PICK at \in {"tick", "lock", "write"} :
           poll' = [poll EXCEPT !.at = at] /\ (at # "tick" => poll.out # << >>)
                   /\ (at = "write" => writer = Free /\ writer' = "poll")
                   /\ (at # "write" => poll.at = "drain" /\ writer' = writer)
    BY <1>1 DEF drain_outbound, poll_lock, OutgoingOK
  <1>5. poll' \in [at : {"tick", "drain", "lock", "write"}, count : Nat, out : Seq(Packet)]
    BY <1>1, <1>4, Zenon DEF PlaneTypeOK
  <1>6. poll'.at = at /\ poll'.out = poll.out
    BY <1>1, <1>4 DEF PlaneTypeOK
  <1>7. PlaneTypeOK'
    BY <1>1, <1>2, <1>3, <1>5 DEF PlaneTypeOK
  <1>8. OutgoingOK'
    BY <1>1, <1>4, <1>6 DEF OutgoingOK
  <1>9. Free # "poll" /\ \A u \in Tasks : u # Free /\ u # "poll"
    BY TaskAssumption DEF Free
  <1>10. Mutex'
    BY <1>1, <1>2, <1>4, <1>6, <1>9, Zenon DEF Mutex
  <1>11. Intercepted' /\ RepliesOK' /\ WrittenOK' /\ FedOK'
    BY <1>1, <1>2 DEF Intercepted, RepliesOK, WrittenOK, FedOK
  <1> QED BY <1>7, <1>8, <1>10, <1>11 DEF PlaneInv

\* The poll task writes a packet, or the device refuses it.
LEMMA PollWriteInv == PlaneInv /\ poll_write => PlaneInv'
  <1> SUFFICES ASSUME PlaneInv, poll_write PROVE PlaneInv'
    OBVIOUS
  <1>1. PlaneTypeOK /\ Intercepted /\ Mutex /\ RepliesOK /\ OutgoingOK /\ FedOK /\ WrittenOK
    BY DEF PlaneInv
  <1> DEFINE q == poll.out
             Entry == [by : Tasks \cup {"poll"}, pkt : Packet]
  <1>2. /\ poll.at = "write" /\ write_packet("poll", Head(q)) /\ writer' = Free
        /\ poll' = [poll EXCEPT !.at = "drain", !.out = Tail(q)]
        /\ reader' = reader /\ tun_rx' = tun_rx /\ fed' = fed /\ task' = task
        /\ metrics' = metrics
    BY DEF poll_write
  <1>3. q \in Seq(Packet) /\ q # << >> /\ DOMAIN q = 1..Len(q) /\ Len(q) \in Nat
    BY <1>1, <1>2 DEF PlaneTypeOK, OutgoingOK
  <1>4. /\ Head(q) \in Packet /\ Tail(q) \in Seq(Packet) /\ Len(Tail(q)) = Len(q) - 1
        /\ \A i \in 1 .. Len(Tail(q)) : Tail(q)[i] = q[i + 1]
    BY <1>3, HeadTailProperties
  <1>5. Head(q) = q[1] /\ 1 \in DOMAIN q
    BY <1>3
  <1>6. WellFormed(Head(q))
    BY <1>1, <1>5, Zenon DEF OutgoingOK
  <1>7. \A i \in DOMAIN Tail(q) : WellFormed(Tail(q)[i])
    <2> TAKE i \in DOMAIN Tail(q)
    <2>1. i \in 1..Len(Tail(q))
      BY <1>4
    <2>2. i + 1 \in DOMAIN q /\ Tail(q)[i] = q[i + 1]
      BY <1>3, <1>4, <2>1
    <2> QED BY <1>1, <2>2 DEF OutgoingOK
  <1>8. poll' \in [at : {"tick", "drain", "lock", "write"}, count : Nat, out : Seq(Packet)]
    BY <1>1, <1>2, <1>4, Zenon DEF PlaneTypeOK
  <1>9. poll'.at = "drain" /\ poll'.out = Tail(q)
    BY <1>1, <1>2 DEF PlaneTypeOK
  <1>10. OutgoingOK'
    BY <1>7, <1>9 DEF OutgoingOK
  <1> HIDE DEF q
  <1>11. Free # "poll" /\ \A u \in Tasks : u # Free /\ u # "poll"
    BY TaskAssumption DEF Free
  <1>12. Mutex'
    BY <1>1, <1>2, <1>9, <1>11 DEF Mutex
  <1>13. Intercepted' /\ RepliesOK' /\ FedOK'
    BY <1>1, <1>2 DEF Intercepted, RepliesOK, FedOK
  <1>14. WrittenOK' /\ written' \in Seq(Entry)
    <2>1. CASE Head(q).len <= MTU /\ written' = Append(written, [by |-> "poll", pkt |-> Head(q)])
      <3>1. "poll" \notin Tasks
        BY <1>11
      <3>2. WrittenOK' /\ written' \in Seq(Entry)
        BY <1>1, <1>2, <1>4, <1>6, <2>1, <3>1, OneMoreWritten, Zenon
      <3> QED BY <3>2
    <2>2. CASE written' = written
      <3>1. WrittenOK'
        BY <1>1, <1>2, <2>2, NothingWritten
      <3>2. written' \in Seq(Entry)
        BY <1>1, <2>2 DEF PlaneTypeOK
      <3> QED BY <3>1, <3>2
    <2> QED BY <1>2, <2>1, <2>2, Zenon DEF write_packet
  <1>15. PlaneTypeOK'
    BY <1>1, <1>2, <1>8, <1>14 DEF PlaneTypeOK
  <1> QED BY <1>10, <1>12, <1>13, <1>14, <1>15 DEF PlaneInv

\* The data plane starts with nothing in anybody's hands.
LEMMA PlaneInitInv == PlaneInit => PlaneInv
  <1> SUFFICES ASSUME PlaneInit PROVE PlaneInv
    OBVIOUS
  <1>1. /\ reader = "reading" /\ tun_rx = << >> /\ fed = << >> /\ task = [t \in Tasks |-> NoTask]
        /\ poll = [at |-> "tick", count |-> 0, out |-> << >>] /\ writer = Free /\ written = << >>
    BY DEF PlaneInit
  <1>2. metrics \in [CounterNames -> Nat]
    BY DEF PlaneInit, CounterNames
  <1>3. \A t \in Tasks : task[t] = NoTask /\ task[t].at = "none"
    BY <1>1 DEF NoTask
  <1>4. PlaneTypeOK
    BY <1>1, <1>2, <1>3 DEF PlaneTypeOK
  <1>5. Free # "poll" /\ \A u \in Tasks : u # Free
    BY TaskAssumption DEF Free
  <1>6. Mutex
    BY <1>1, <1>3, <1>5 DEF Mutex
  <1>7. Intercepted /\ RepliesOK
    BY <1>3 DEF Intercepted, RepliesOK
  <1>8. OutgoingOK /\ FedOK /\ WrittenOK
    BY <1>1 DEF OutgoingOK, FedOK, WrittenOK
  <1> QED BY <1>4, <1>6, <1>7, <1>8 DEF PlaneInv

\* Every step of the data plane keeps the invariant.
LEMMA PlaneStepInv == PlaneInv /\ [PlaneNext]_planeVars => PlaneInv'
  <1> SUFFICES ASSUME PlaneInv, [PlaneNext]_planeVars PROVE PlaneInv'
    OBVIOUS
  <1>1. CASE UNCHANGED planeVars
    <2>1. /\ reader' = reader /\ tun_rx' = tun_rx /\ fed' = fed /\ task' = task
          /\ poll' = poll /\ writer' = writer /\ written' = written /\ metrics' = metrics
      BY <1>1 DEF planeVars
    <2>2. PlaneTypeOK'
      BY <2>1, Zenon DEF PlaneInv, PlaneTypeOK
    <2>3. Intercepted' /\ Mutex' /\ RepliesOK' /\ OutgoingOK' /\ FedOK' /\ WrittenOK'
      BY <2>1, Zenon DEF PlaneInv, Intercepted, Mutex, RepliesOK, OutgoingOK, FedOK, WrittenOK
    <2> QED BY <2>2, <2>3 DEF PlaneInv
  <1> QED
    BY <1>1, ReadInv, ReadFailsInv, HandleQueryInv, LockInv, WriteInv, StackPollInv, DrainInv,
       PollWriteInv, Zenon DEF PlaneNext, DnsTask, PollTask

\* The invariant of the data plane.
LEMMA PlaneInvariant == PlaneSpec => []PlaneInv
  BY PlaneInitInv, PlaneStepInv, PTL DEF PlaneSpec

\* Whatever the apps send, and whatever the resolver answers, no task of the data
\* plane indexes past the end of a packet (runner.rs:266-289, 418-446, rewrite.rs:88-117).
THEOREM PlaneInBounds == PlaneSpec => []NeverPastTheEnd
  <1>1. PlaneInv => NeverPastTheEnd
    <2> SUFFICES ASSUME PlaneInv PROVE NeverPastTheEnd
      BY Zenon
    <2>1. \A o \in Outcome : o # Panic
      BY Tags DEF Outcome, None, Panic
    <2>2. \A i \in DOMAIN fed : fed[i] \in Outcome
      BY DEF PlaneInv, PlaneTypeOK
    <2>3. reader # "panicked" /\ \A t \in Tasks : task[t].at # "panicked"
      BY ZenonT(30) DEF PlaneInv, PlaneTypeOK
    <2> QED BY <2>1, <2>2, <2>3 DEF NeverPastTheEnd
  <1> QED BY <1>1, PlaneInvariant, PTL

\* Every packet that is written is well-formed, verifies and fits the device, everything
\* that smoltcp is given verifies, and nobody writes without the mutex, for every
\* packet that an app can send (rewrite.rs:34-152, runner.rs:439-506, device.rs:106-109).
THEOREM PlaneWellFormed == PlaneSpec => []PacketsAreWellFormed
  <1>1. PlaneInv => PacketsAreWellFormed
    BY Zenon DEF PlaneInv, WrittenOK, FedOK, Mutex, PacketsAreWellFormed
  <1> QED BY <1>1, PlaneInvariant, PTL

\* However many queries are under way, each is answered once at most, to the app and
\* port that asked, with what the resolver's socket received or with a SERVFAIL under
\* its own identifier (interceptor.rs:25-67, runner.rs:439-471).
THEOREM PlaneAnswers == PlaneSpec => []AnswersGoHome
  <1>1. PlaneInv => AnswersGoHome
    <2> SUFFICES ASSUME PlaneInv, NEW t \in Tasks
                 PROVE  LET mine == {i \in DOMAIN written : written[i].by = t} IN
                        /\ Cardinality(mine) <= 1
                        /\ \A i \in mine : Answering(written[i].pkt, task[t])
      BY Zenon DEF AnswersGoHome, Answering
    <2> DEFINE mine == {i \in DOMAIN written : written[i].by = t}
    <2>1. \A i \in mine : Answering(written[i].pkt, task[t])
      BY DEF PlaneInv, WrittenOK
    <2>2. \A i, j \in mine : i = j
      BY DEF PlaneInv, WrittenOK
    <2> HIDE DEF mine
    <2>3. CASE mine = {}
      BY <2>1, <2>3, FS_EmptySet DEF mine
    <2>4. CASE mine # {}
      <3>1. PICK i : mine = {i}
        BY <2>2, <2>4
      <3>2. Cardinality(mine) = 1
        BY <3>1, FS_Singleton, Zenon
      <3> QED BY <2>1, <3>2 DEF mine
    <2> QED BY <2>3, <2>4
  <1> QED BY <1>1, PlaneInvariant, PTL
================================================================================
