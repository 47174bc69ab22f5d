------------------------------- MODULE MC_Proxies -------------------------------
EXTENDS Proxies

\* A number and a name.
SomeAddrs == {[kind |-> "Ipv6", octets |-> Bytes(16)], [kind |-> "Domain", octets |-> Bytes(5)]}
================================================================================
