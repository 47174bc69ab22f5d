------------------------------ MODULE MC_Services ------------------------------
EXTENDS Services, TLC

\* PROBE_PORTS of NetworkDiscovery.kt:77.
PROBE_PORTS == <<1080, 8080>>
================================================================================
