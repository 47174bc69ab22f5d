------------------------------ MODULE MC_NatTable ------------------------------
EXTENDS NatTable

\* The instance checked is given by NatTable.cfg: two apps and two servers, that
\* is four flows, and one port fewer than flows.
================================================================================
