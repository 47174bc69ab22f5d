-------------------------------- MODULE MC_Relay -------------------------------
EXTENDS Relay

\* Relay.cfg has channels and buffers smaller than the traffic.
================================================================================
