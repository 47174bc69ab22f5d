------------------------------ MODULE SessionTable ------------------------------
(***************************************************************************)
(* The states, the events and the transition function of the session       *)
(* (gravital-engine/src/session.rs).                                       *)
(*                                                                         *)
(* Left out of the states: the attempt count (the code only ever stores    *)
(* 1), the peer, last_error and recoverable (a function of the error).     *)
(***************************************************************************)
CONSTANT FailureKinds  \* the causes of a FatalError

Modes == {"Client", "Server"}
StopReasons == {"UserRequest", "Shutdown"}

None == "none"

State(tag, mode, cause) == [tag |-> tag, mode |-> mode, cause |-> cause]

Idle == State("Idle", None, None)

States ==
    {Idle}
    \cup {State(t, m, None) :
            t \in {"Preparing", "Connecting", "Connected", "Reconnecting"}, m \in Modes}
    \cup {State("Stopping", m, r) : m \in Modes, r \in StopReasons}
    \cup {State("Failed", m, k) : m \in Modes, k \in FailureKinds}

Event(kind, arg) == [kind |-> kind, arg |-> arg]

Events ==
    {Event(k, None) : k \in {"UserStop", "UserAcknowledge", "EnginePrepared", "EngineReady",
                             "EngineStopped", "ProxyConnected", "ProxyDisconnected",
                             "NetworkLost", "NetworkRestored", "Shutdown"}}
    \cup {Event("UserStart", m) : m \in Modes}
    \cup {Event("FatalError", k) : k \in FailureKinds}

\* SessionState::mode, with the default the transition function gives it.
ModeOf(s) == IF s.mode = None THEN "Client" ELSE s.mode

InvalidTransition == State("InvalidTransition", None, None)

transition(s, e) ==
    CASE e.kind = "FatalError" -> State("Failed", ModeOf(s), e.arg)
      [] e.kind = "Shutdown" -> State("Stopping", ModeOf(s), "Shutdown")
      [] s.tag = "Idle" /\ e.kind = "UserStart" -> State("Preparing", e.arg, None)
      [] s.tag = "Preparing" /\ e.kind = "EngineReady" -> State("Connecting", s.mode, None)
      [] s.tag = "Preparing" /\ e.kind = "EnginePrepared" -> s
      [] s.tag \in {"Connecting", "Reconnecting"} /\ e.kind = "ProxyConnected" ->
            State("Connected", s.mode, None)
      [] s.tag \in {"Connecting", "Connected"}
            /\ e.kind \in {"NetworkLost", "ProxyDisconnected"} ->
            State("Reconnecting", s.mode, None)
      [] s.tag \in {"Connected", "Reconnecting"} /\ e.kind = "UserStop" ->
            State("Stopping", s.mode, "UserRequest")
      [] s.tag = "Stopping" /\ e.kind = "EngineStopped" -> Idle
      [] s.tag = "Failed" /\ e.kind = "UserAcknowledge" -> Idle
      [] OTHER -> InvalidTransition
================================================================================
