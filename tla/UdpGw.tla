----------------------------------- MODULE UdpGw -----------------------------------
(***************************************************************************)
(* The frames of the UDP gateway (gravital-udpgw/src/frame.rs), which      *)
(* carry the datagrams of many clients over one TCP stream.  A frame is    *)
(* encoded as octets and decoded from whatever has arrived of the stream,  *)
(* so the length checks of decode separate one frame from the next.        *)
(***************************************************************************)
EXTENDS Packets

VERSION == 1
IPV4 == 1
IPV6 == 4

Octet == {n \in Nat : n < 256}

\* The frames there are: flags are the two that have a name, addresses have 4 or 16
\* octets, and the length of a datagram fits in 16 bits.
UdpGwFrame ==
    {f \in [client_id : Nat, flags : 0 .. 3, ip : Seq(Octet), port : Nat, payload : Seq(Octet)] :
        /\ f.client_id < 65536 * 65536 /\ f.port < 65536
        /\ Len(f.ip) \in {4, 16} /\ Len(f.payload) < 65536}

\* The octet of n whose place is worth unit.
Byte(n, unit) == (n \div unit) % 256

\* The length is cut to 16 bits.
encode(f) ==
    <<VERSION, f.flags, Byte(f.client_id, 16777216), Byte(f.client_id, 65536),
      Byte(f.client_id, 256), Byte(f.client_id, 1), IF Len(f.ip) = 4 THEN IPV4 ELSE IPV6>>
        \o f.ip
        \o <<Byte(f.port, 256), Byte(f.port, 1), Byte(Len(f.payload), 256), Byte(Len(f.payload), 1)>>
        \o f.payload

Truncated == [is |-> "truncated"]
InvalidVersion == [is |-> "version"]

\* v, for which the code has indexed the first n octets.
Indexed(data, n, v) == IF n <= Len(data) THEN v ELSE Panic

\* Of a u16 and of a u32.
from_be_bytes(data, offset) == data[offset + 1] * 256 + data[offset + 2]
from_be_bytes_32(data, offset) ==
    from_be_bytes(data, offset) * 65536 + from_be_bytes(data, offset + 2)

\* The frame whose address ends at offset and whose payload ends at end.
Decoded(data, offset, end) ==
    [client_id |-> from_be_bytes_32(data, 2),
     flags |-> data[2] % 4,
     ip |-> SubSeq(data, 8, offset),
     port |-> from_be_bytes(data, offset),
     payload |-> SubSeq(data, offset + 5, end)]

\* Port, length and payload, which follow the address.
decode_payload(data, offset) ==
    IF Len(data) < offset + 4 THEN Truncated
    ELSE Indexed(data, offset + 4,
            LET end == offset + 4 + from_be_bytes(data, offset + 2)
            IN IF Len(data) < end THEN Truncated
               ELSE Indexed(data, end, Some(Decoded(data, offset, end))))

\* The address of n octets begins at offset 7.
decode_addr(data, n) ==
    IF Len(data) < 7 + n THEN Truncated
    ELSE Indexed(data, 7 + n, decode_payload(data, 7 + n))

decode(data) ==
    IF Len(data) = 0 THEN Truncated
    ELSE IF data[1] # VERSION THEN InvalidVersion
    ELSE IF Len(data) < 8 THEN Truncated
    ELSE Indexed(data, 7,
            IF data[7] = IPV4 THEN decode_addr(data, 4)
            ELSE IF data[7] = IPV6 THEN decode_addr(data, 16)
            ELSE Truncated)
--------------------------------------------------------------------------------
\* A frame comes out of the stream as it went in, and only when all of it has come:
\* what is there of a frame is Truncated, never a panic and never another, shorter
\* frame; and octets of the next frame behind it do not matter (frame.rs:26-96).
ComesBack(f, rest) ==
    LET octets == encode(f) IN
    /\ \A n \in 0 .. Len(octets) - 1 : decode(SubSeq(octets, 1, n)) = Truncated
    /\ decode(octets \o rest) = Some(f)
================================================================================
