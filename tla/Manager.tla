---------------------------------- MODULE Manager ----------------------------------
(***************************************************************************)
(* SessionManager.kt over the engine: the coroutines that startClient,     *)
(* startServer and stop launch, the collector of the engine's              *)
(* announcements, and the JNI functions in between.  The services and the  *)
(* view model (module Services) call SessionManager at any time.           *)
(*                                                                         *)
(* The engine is module Engine, step by step: a coroutine runs on a thread *)
(* of Dispatchers.IO, and is the caller of the engine while it is inside   *)
(* the JNI call.  A step of SessionManager is one access to state that     *)
(* others see; a write of _mode and the write of _state next to it are one *)
(* step, and so is a stop's look at the mode with the Stopping it shows.   *)
(*                                                                         *)
(* The engine announces a state by calling the listener, which launches a  *)
(* coroutine per announcement (SessionManager.kt:53).  Dispatchers.IO may  *)
(* run these in any order, so the collector may find any of the            *)
(* announcements in flight first.  The collector is launched with the      *)
(* object and has subscribed when the first call comes.                    *)
(***************************************************************************)
EXTENDS Engine, Integers, Sequences, FiniteSets

VARIABLES boot,       \* the engine: "none", or made, with the listener wired or not
          inflight,   \* announcements launched and not yet collected
          ui,         \* SessionManager._state
          uiMode,     \* SessionManager._mode
          handling,   \* what the collector is about to write
          co          \* SessionManager's coroutines, one per caller of the engine

appVars == <<ui, uiMode, handling, co>>
managerVars == <<engineVars, boot, inflight, appVars>>

NoMode == "IDLE"
NoCo == [call |-> "none", at |-> "none"]
NoEvent == [to |-> None, read |-> Idle, mode |-> NoMode]

(***************************************************************************)
(* The JNI functions.                                                      *)
(***************************************************************************)
\* The listener that Engine::new adds finds the callback, if it was ever set.
fire_jvm_event ==
    IF boot = "wired" /\ \E p \in Procs : pc[p] = "telling" /\ pc'[p] # "telling"
    THEN inflight' = Append(inflight, heard'.tag)
    ELSE UNCHANGED inflight

EngineStep ==
    /\ \/ \E c \in Callers : CallStep(c)
       \/ \E t \in Tasks : TaskStep(t) \/ reader_fails(t)
    /\ fire_jvm_event
    /\ UNCHANGED <<boot, appVars>>

\* The engine is made when it is first needed.  When SessionManager is made it sets
\* the callback; if the engine cannot be made then, the callback stays unset.
Booted == {"wired"} \cup (IF "boot" \in Faults THEN {"none"} ELSE {})

get_or_init ==
    \/ boot # "none" /\ UNCHANGED boot
    \/ boot = "none" /\ boot' = "unwired"

AppMode(call) == IF call = "server" THEN "Server" ELSE "Client"

CallStart(c) ==
    /\ co[c].call # "stop"
    /\ \/ /\ get_or_init
          /\ \E m \in {"server", "client"}, t \in Tasks : co[c].call = m /\ start(c, m, t)
          /\ co' = [co EXCEPT ![c].at = "inside"]
       \/ /\ boot = "none"
          /\ co' = [co EXCEPT ![c].at = "refused"]
          /\ UNCHANGED <<engineVars, boot>>

\* A stop before there is an engine is answered with OK.
CallStop(c) ==
    /\ co[c].call = "stop"
    /\ co' = [co EXCEPT ![c].at = "inside"]
    /\ \/ boot # "none" /\ stop(c)
       \/ boot = "none" /\ UNCHANGED engineVars
    /\ UNCHANGED boot

CallEngine(c) ==
    /\ co[c].at = "calling"
    /\ CallStart(c) \/ CallStop(c)
    /\ UNCHANGED <<inflight, ui, uiMode, handling>>

(***************************************************************************)
(* startClient, startServer and stop launch a coroutine.                   *)
(***************************************************************************)
\* Bound: no more starts than there are tasks left.
Startable == Cardinality({t \in Tasks : pc[t] = "ready"})
                 > Cardinality({c \in Callers : co[c].at \in {"launched", "calling"}
                                                 /\ co[c].call # "stop"})

launch(c, call) ==
    /\ call \in Calls /\ co[c] = NoCo
    /\ call # "stop" => Startable
    /\ co' = [co EXCEPT ![c] = [call |-> call, at |-> "launched"]]
    /\ UNCHANGED <<engineVars, boot, inflight, ui, uiMode, handling>>

\* A start shows Preparing, a stop Stopping with the mode it finds.
Begin(c) ==
    /\ co[c].at = "launched"
    /\ co' = [co EXCEPT ![c].at = "calling"]
    /\ \/ /\ co[c].call # "stop"
          /\ uiMode' = AppMode(co[c].call)
          /\ ui' = State("Preparing", uiMode', None)
       \/ /\ co[c].call = "stop"
          /\ ui' = State("Stopping",
                         IF ui.tag \in {"Connected", "Connecting", "Reconnecting"}
                             THEN ui.mode ELSE uiMode,
                         None)
          /\ UNCHANGED uiMode
    /\ UNCHANGED <<engineVars, boot, inflight, handling>>

Returned(c) == co[c].at = "refused" \/ (co[c].at = "inside" /\ Free(c))

\* What a coroutine shows at its end.  A stop does not look at the answer.
Verdict(c) ==
    IF co[c].call = "stop" THEN Idle
    ELSE IF co[c].at = "refused" \/ pc[c] = "err"
         THEN State("Failed", AppMode(co[c].call), "refused")
    ELSE IF co[c].call = "server" THEN State("Connected", "Server", None)
    ELSE State("Connecting", "Client", None)

Finish(c) ==
    /\ Returned(c)
    /\ co' = [co EXCEPT ![c] = NoCo]
    /\ ui' = Verdict(c)
    /\ uiMode' = IF co[c].call = "stop" THEN NoMode ELSE uiMode
    /\ UNCHANGED <<engineVars, boot, inflight, handling>>

\* The screen dismisses an error; the engine is not told, and nobody looks whether
\* it is still an error that is shown.
acknowledgeError ==
    /\ "acknowledge" \in Calls
    /\ ui' = Idle
    /\ uiMode' = NoMode
    /\ UNCHANGED <<engineVars, boot, inflight, handling, co>>

(***************************************************************************)
(* The collector reads the state, then writes the one announced.           *)
(***************************************************************************)
Without(seq, i) == SubSeq(seq, 1, i - 1) \o SubSeq(seq, i + 1, Len(seq))

collect ==
    /\ handling = NoEvent
    /\ \E i \in DOMAIN inflight :
        /\ inflight' = Without(inflight, i)
        /\ handling' = [to |-> inflight[i], read |-> ui,
                        mode |-> IF ui.mode = None THEN uiMode ELSE ui.mode]
    /\ UNCHANGED <<engineVars, boot, ui, uiMode, co>>

\* Preparing is not among the states it knows: it writes back what it read.
Transition(to, read, m) ==
    CASE to = "Idle" -> Idle
      [] to = "Failed" -> State("Failed", m, "engine")
      [] to \in {"Connecting", "Connected", "Reconnecting", "Stopping"} -> State(to, m, None)
      [] OTHER -> read

applyTransition ==
    /\ handling # NoEvent
    /\ ui' = Transition(handling.to, handling.read, handling.mode)
    /\ uiMode' = IF handling.to = "Idle" THEN NoMode ELSE uiMode
    /\ handling' = NoEvent
    /\ UNCHANGED <<engineVars, boot, inflight, co>>
--------------------------------------------------------------------------------
ManagerInit ==
    /\ EngineInit
    /\ boot \in Booted
    /\ inflight = << >>
    /\ ui = Idle /\ uiMode = NoMode /\ handling = NoEvent
    /\ co = [c \in Callers |-> NoCo]

Coroutine(c) == Begin(c) \/ CallEngine(c) \/ Finish(c)

ManagerNext ==
    \/ \E c \in Callers, call \in {"server", "client", "stop"} : launch(c, call)
    \/ acknowledgeError
    \/ \E c \in Callers : Coroutine(c)
    \/ collect \/ applyTransition
    \/ EngineStep

ManagerSpec == ManagerInit /\ [][ManagerNext]_managerVars
--------------------------------------------------------------------------------
\* No task is going to do anything by itself.
Resting(t) ==
    \/ pc[t] \in {"ready", "done"}
    \/ pc[t] = "looping" /\ <<t, "main">> \notin unseen
    \/ /\ pc[t] = "serving"
       /\ \A x \in Proxies : half[t][x] # "binding" /\ <<t, x>> \notin unseen
       /\ \E x \in Proxies : half[t][x] = "serving"

\* Nothing is under way: no coroutine, no announcement, no task that moves.
Quiet ==
    /\ \A c \in Callers : co[c] = NoCo
    /\ inflight = << >> /\ handling = NoEvent
    /\ \A t \in Tasks : Resting(t)

\* Kotlin "receives transition JSON and can update its own state flow": once all is
\* quiet, the app shows the state that the engine is in (runner.rs:50-57,
\* SessionManager.kt:76-83, 132-164).
AppShowsSession == Quiet => ui.tag = state.tag
================================================================================
