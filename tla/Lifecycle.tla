------------------------------- MODULE Lifecycle -------------------------------
(***************************************************************************)
(* The session state machine as the architecture documents it: one phase,  *)
(* one atomic step per row of the table of valid transitions, and nothing  *)
(* else ever changes the phase.  Only a Shutdown may come in any phase: a  *)
(* session that is Stopping says why.  A fatal error may come in any phase *)
(* too, as the transition function says (session.rs:155), where the table  *)
(* has rows for the phases from Preparing to Reconnecting only.            *)
(***************************************************************************)
VARIABLES phase,
          reason  \* why a session is Stopping

Init == phase = "Idle"

Row(from, to) == phase = from /\ phase' = to

Start      == Row("Idle", "Preparing")
Ready      == Row("Preparing", "Connecting")
Connect    == Row("Connecting", "Connected") \/ Row("Reconnecting", "Connected")
Lose       == Row("Connecting", "Reconnecting") \/ Row("Connected", "Reconnecting")
Stop       == /\ Row("Connected", "Stopping") \/ Row("Reconnecting", "Stopping")
              /\ reason' = "UserRequest"
Stopped    == Row("Stopping", "Idle")
Fail       == phase' = "Failed"
Acknowledge == Row("Failed", "Idle")
Shutdown   == phase' = "Stopping" /\ reason' = "Shutdown"

Next == Start \/ Ready \/ Connect \/ Lose \/ Stop \/ Stopped \/ Fail \/ Acknowledge \/ Shutdown

Spec == Init /\ [][Next]_phase
================================================================================
