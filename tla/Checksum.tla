---------------------------------- MODULE Checksum ----------------------------------
(***************************************************************************)
(* The Internet checksum of RFC 1071, which the code has four times:       *)
(* gravital-proto/src/checksum.rs, gravital-stack/src/rewrite.rs, and      *)
(* rfc1071 and fix_udp_checksum in gravital-engine/src/runner.rs.  All add *)
(* 16-bit words in a u32, fold the carries back and take the complement.   *)
(***************************************************************************)
EXTENDS Integers

\* Sums are u32.  That none overflows is not a matter of chance: a packet has at
\* most 65535 octets, and 32768 words and a pseudo-header stay below 2^32.
U32(n) == n \in Nat /\ n < 65536 * 65536
U16(n) == n \in Nat /\ n < 65536

\* One round of the loop: (sum & 0xFFFF) + (sum >> 16).
Carry(sum) == (sum % 65536) + (sum \div 65536)

\* Mutant of fold: one round only.
fold_once(sum) == Carry(sum)

\* while sum >> 16 != 0.  A round leaves a sum below 2^16 as it is, and two are
\* enough for any u32 (theorem FoldFits), so this is the loop.
fold(sum) == Carry(Carry(sum))

\* !(sum as u16)
complement(sum) == 65535 - (sum % 65536)

\* The checksum of words that add up to sum.
checksum(sum) == complement(fold(sum))

\* What a receiver asks of words that include their checksum (verify_checksum).
verify(sum) == checksum(sum) = 0
================================================================================
