----------------------------- MODULE Engine_proofs -----------------------------
(***************************************************************************)
(* The lifecycle of the engine for any number of callers and of sessions:  *)
(* a start never leaves the session half way, and nothing ends by itself.   *)
(***************************************************************************)
EXTENDS Engine, TLAPS

\* Time for the steps that are about a whole state.
USE SMTT(30), ZenonT(30)

StartLabels == {"force", "unsignal", "user_start", "subscribe", "engine_ready", "spawn", "abort"}

\* A start call has a task of its own, reserved for it until it spawns it.
JobsReserved ==
    /\ \A c \in Callers : pc[c] \in StartLabels => job[c] # NoTask
    /\ \A c \in Callers : job[c] # NoTask => pc[job[c]] = "reserved"
    /\ \A c, d \in Callers : job[c] # NoTask /\ job[c] = job[d] => c = d

\* What a dispatch under way is about to store and where it goes on fit the
\* event it dispatches; only calls store Preparing and Connecting.
CallFits(c) ==
    pc[c] \in {"writing", "telling"} =>
        \/ /\ pending[c].next.tag = "Preparing"
           /\ job[c] # NoTask
           /\ pending[c].then = IF IsServer(job[c]) THEN "subscribe" ELSE "engine_ready"
        \/ /\ pending[c].next.tag = "Connecting"
           /\ job[c] # NoTask
           /\ pending[c].then = IF IsServer(job[c]) THEN "spawn" ELSE "subscribe"
        \/ /\ pending[c].next.tag = "Stopping"
           /\ pending[c].then = "stop_signal"

TaskFits(t) ==
    pc[t] \in {"writing", "telling"} =>
        /\ pending[t].next.tag \in {"Connected", "Failed", "Idle"}
        /\ pending[t].then \in {"serve", "select", "finish"}

PendingFits == (\A c \in Callers : CallFits(c)) /\ (\A t \in Tasks : TaskFits(t))

EngineInv ==
    /\ EngineTypeOK
    /\ JobsReserved
    /\ PendingFits
    /\ PreparingHasStarter
    /\ ConnectingHasDriver

\* What the events of the engine do to a state.
LEMMA Transitions ==
    ASSUME NEW s \in States
    PROVE  /\ \A m \in Modes : LET n == transition(s, Event("UserStart", m)) IN
                n # InvalidTransition => n \in States /\ n.tag = "Preparing"
           /\ LET n == transition(s, Event("EngineReady", None)) IN
                /\ n # InvalidTransition => n \in States /\ n.tag = "Connecting"
                /\ s.tag = "Preparing" => n # InvalidTransition
           /\ LET n == transition(s, Event("ProxyConnected", None)) IN
                /\ n # InvalidTransition => n \in States /\ n.tag = "Connected"
                /\ s.tag = "Connecting" => n # InvalidTransition
           /\ LET n == transition(s, Event("UserStop", None)) IN
                n # InvalidTransition => n \in States /\ n.tag = "Stopping"
           /\ LET n == transition(s, Event("EngineStopped", None)) IN
                n # InvalidTransition => n \in States /\ n.tag = "Idle"
           /\ LET n == transition(s, Event("FatalError", "TunOpenFailed")) IN
                n \in States /\ n.tag = "Failed" /\ n # InvalidTransition
  <1> USE DEF States, State, Idle, None, Modes, StopReasons, Event
  <1>1. s.mode \in Modes \cup {None} /\ (s.tag # "Idle" => s.mode \in Modes)
    OBVIOUS
  <1>2. ModeOf(s) \in Modes
    BY <1>1 DEF ModeOf
  <1>3. \A m \in Modes : LET n == transition(s, Event("UserStart", m)) IN
                n # InvalidTransition => n \in States /\ n.tag = "Preparing"
    BY <1>1 DEF transition, InvalidTransition
  <1>4. LET n == transition(s, Event("EngineReady", None)) IN
                /\ n # InvalidTransition => n \in States /\ n.tag = "Connecting"
                /\ s.tag = "Preparing" => n # InvalidTransition
    BY <1>1 DEF transition, InvalidTransition
  <1>5. LET n == transition(s, Event("ProxyConnected", None)) IN
                /\ n # InvalidTransition => n \in States /\ n.tag = "Connected"
                /\ s.tag = "Connecting" => n # InvalidTransition
    BY <1>1 DEF transition, InvalidTransition
  <1>6. LET n == transition(s, Event("UserStop", None)) IN
                n # InvalidTransition => n \in States /\ n.tag = "Stopping"
    BY <1>1 DEF transition, InvalidTransition
  <1>7. LET n == transition(s, Event("EngineStopped", None)) IN
                n # InvalidTransition => n \in States /\ n.tag = "Idle"
    BY <1>1 DEF transition, InvalidTransition
  <1>8. LET n == transition(s, Event("FatalError", "TunOpenFailed")) IN
                n \in States /\ n.tag = "Failed" /\ n # InvalidTransition
    BY <1>2, TunOpenFailedAssumption DEF transition, InvalidTransition
  <1> HIDE DEF States, State, Idle, None, Modes, StopReasons, Event
  <1> QED  BY <1>3, <1>4, <1>5, <1>6, <1>7, <1>8

\* A dispatch that no other process interrupts is a step of the documented state
\* machine, for every event and in every state, those the engine never
\* dispatches included (session.rs:151-214).  What the races of the engine break
\* is therefore not the transition function but the two locks around it.
THEOREM DispatchFollowsTable ==
    ASSUME state \in States, NEW e \in Events,
           transition(state, e) # InvalidTransition,
           state' = transition(state, e)
    PROVE  state' \in States /\ (state' = state \/ Table!Next)
  <1> USE DEF States, State, Idle, None, Modes, StopReasons, Event
  <1>1. state.mode \in Modes \cup {None} /\ (state.tag # "Idle" => state.mode \in Modes)
    OBVIOUS
  <1>2. ModeOf(state) \in Modes
    BY <1>1 DEF ModeOf
  <1>3. CASE \E k \in FailureKinds : e = Event("FatalError", k)
    BY <1>2, <1>3 DEF transition, Table!Next, Table!Fail
  <1>4. CASE e = Event("Shutdown", None)
    BY <1>2, <1>4 DEF transition, Table!Next, Table!Shutdown
  <1>5. CASE \E m \in Modes : e = Event("UserStart", m)
    BY <1>5 DEF transition, InvalidTransition, Table!Next, Table!Start, Table!Row
  <1>6. CASE e = Event("EngineReady", None)
    BY <1>1, <1>6 DEF transition, InvalidTransition, Table!Next, Table!Ready, Table!Row
  <1>7. CASE e = Event("EnginePrepared", None)
    BY <1>7 DEF transition, InvalidTransition
  <1>8. CASE e = Event("ProxyConnected", None)
    BY <1>1, <1>8 DEF transition, InvalidTransition, Table!Next, Table!Connect, Table!Row
  <1>9. CASE e = Event("NetworkLost", None)
    BY <1>1, <1>9 DEF transition, InvalidTransition, Table!Next, Table!Lose, Table!Row
  <1>10. CASE e = Event("ProxyDisconnected", None)
    BY <1>1, <1>10 DEF transition, InvalidTransition, Table!Next, Table!Lose, Table!Row
  <1>11. CASE e = Event("UserStop", None)
    BY <1>1, <1>11 DEF transition, InvalidTransition, Table!Next, Table!Stop, Table!Row
  <1>12. CASE e = Event("EngineStopped", None)
    BY <1>1, <1>12 DEF transition, InvalidTransition, Table!Next, Table!Stopped, Table!Row
  <1>13. CASE e = Event("UserAcknowledge", None)
    BY <1>1, <1>13 DEF transition, InvalidTransition, Table!Next, Table!Acknowledge, Table!Row
  <1>14. CASE e = Event("NetworkRestored", None)
    BY <1>1, <1>14 DEF transition, InvalidTransition
  <1> QED
    BY <1>3, <1>4, <1>5, <1>6, <1>7, <1>8, <1>9, <1>10, <1>11, <1>12, <1>13, <1>14
    DEF Events

LEMMA EngineInitInv == EngineInit => EngineInv
  <1> SUFFICES ASSUME EngineInit PROVE EngineInv
    OBVIOUS
  <1> USE ProcsAssumption DEF EngineInit, SessionInit
  <1>1. Idle \in States /\ Idle.tag = "Idle"
    BY DEF States, State, Idle
  <1>2. EngineTypeOK
    <2>1. pc \in [Procs -> Labels] /\ pending \in [Procs -> [next : States, then : Nexts]]
      BY <1>1 DEF NoDispatch, Labels, Nexts
    <2>2. mode \in [Tasks -> Modes] /\ half \in [Tasks -> [Proxies -> Halves]]
      BY DEF Modes, Halves
    <2> QED  BY <1>1, <2>1, <2>2, Zenon DEF EngineTypeOK
  <1>3. JobsReserved /\ PendingFits
    BY DEF JobsReserved, PendingFits, CallFits, TaskFits, StartLabels
  <1>4. PreparingHasStarter /\ ConnectingHasDriver
    BY <1>1 DEF PreparingHasStarter, ConnectingHasDriver
  <1> QED  BY <1>2, <1>3, <1>4 DEF EngineInv

\* The first critical section of a dispatch: p keeps the state as it is and
\* either goes on at a label or holds a valid successor of the state.
Outcome(p, n, ok, err) ==
    /\ state' = state
    /\ heard' = heard
    /\ pc' \in [Procs -> Labels]
    /\ pending' \in [Procs -> [next : States, then : Nexts]]
    /\ \A q \in Procs \ {p} : pc'[q] = pc[q] /\ pending'[q] = pending[q]
    /\ \/ pc'[p] = err /\ n = InvalidTransition
       \/ pc'[p] = ok /\ n = state
       \/ /\ pc'[p] = "writing"
          /\ n \notin {InvalidTransition, state}
          /\ pending'[p].next = n
          /\ pending'[p].then = ok

LEMMA ReadOutcome ==
    ASSUME NEW p \in Procs, NEW ok \in Nexts \cap Labels, NEW err \in Labels,
           NEW n, n # InvalidTransition => n \in States, EngineTypeOK,
           /\ \/ /\ n = InvalidTransition
                 /\ pc' = [pc EXCEPT ![p] = err]
                 /\ UNCHANGED pending
              \/ /\ n = state
                 /\ pc' = [pc EXCEPT ![p] = ok]
                 /\ UNCHANGED pending
              \/ /\ n \notin {InvalidTransition, state}
                 /\ pc' = [pc EXCEPT ![p] = "writing"]
                 /\ pending' = [pending EXCEPT ![p] = [next |-> n, then |-> ok]]
           /\ UNCHANGED <<state, heard>>
    PROVE  Outcome(p, n, ok, err)
  <1>1. "writing" \in Labels
    BY DEF Labels
  <1>2. pc' \in [Procs -> Labels]
    BY <1>1 DEF EngineTypeOK
  <1>3. pending' \in [Procs -> [next : States, then : Nexts]]
    BY DEF EngineTypeOK
  <1>4. /\ \A q \in Procs \ {p} : pc'[q] = pc[q] /\ pending'[q] = pending[q]
        /\ \/ pc'[p] = err /\ n = InvalidTransition
           \/ pc'[p] = ok /\ n = state
           \/ /\ pc'[p] = "writing"
              /\ n \notin {InvalidTransition, state}
              /\ pending'[p].next = n
              /\ pending'[p].then = ok
    BY DEF EngineTypeOK
  <1> QED  BY <1>2, <1>3, <1>4 DEF Outcome

ChannelTypeOK ==
    /\ signal \in BOOLEAN
    /\ rxs \subseteq Tasks \X (Proxies \cup {"main"})
    /\ unseen \subseteq rxs
    /\ told \subseteq Tasks \X BOOLEAN

\* The operations of the channel keep its types.
LEMMA SendTypes ==
    ASSUME EngineTypeOK, NEW v \in BOOLEAN, send(v)
    PROVE  ChannelTypeOK'
  <1>1. \A r \in rxs : <<r[1], v>> \in Tasks \X BOOLEAN
    BY DEF EngineTypeOK
  <1>2. told' \subseteq Tasks \X BOOLEAN
    BY <1>1 DEF EngineTypeOK, send
  <1>3. signal' \in BOOLEAN
    BY DEF EngineTypeOK, send
  <1> QED  BY <1>2, <1>3 DEF EngineTypeOK, ChannelTypeOK, send

LEMMA SubscribeTypes ==
    ASSUME EngineTypeOK, NEW t \in Tasks, subscribe(t)
    PROVE  ChannelTypeOK'
  BY DEF EngineTypeOK, ChannelTypeOK, subscribe

LEMMA HalfTypes ==
    ASSUME half \in [Tasks -> [Proxies -> Halves]],
           NEW t \in Tasks, NEW x \in Proxies, NEW v \in Halves
    PROVE  [half EXCEPT ![t][x] = v] \in [Tasks -> [Proxies -> Halves]]
  <1>1. [half[t] EXCEPT ![x] = v] \in [Proxies -> Halves]
    OBVIOUS
  <1> QED  BY <1>1

\* Only p moves.
Frame(p) ==
    /\ UNCHANGED <<job, mode>>
    /\ \A q \in Procs \ {p} : pc'[q] = pc[q] /\ pending'[q] = pending[q]

\* What another process is about to do is not affected.
LEMMA FrameKeeps ==
    ASSUME NEW p \in Procs, Frame(p)
    PROVE  /\ \A c \in Callers \ {p} : /\ CallFits(c) => CallFits(c)'
                                       /\ WillReady(c) => WillReady(c)'
                                       /\ WillSpawn(c) => WillSpawn(c)'
           /\ \A t \in Tasks \ {p} : /\ TaskFits(t) => TaskFits(t)'
                                     /\ WillAnnounce(t) => WillAnnounce(t)'
  <1>1. ASSUME NEW c \in Callers \ {p}
        PROVE  /\ CallFits(c) => CallFits(c)'
               /\ WillReady(c) => WillReady(c)'
               /\ WillSpawn(c) => WillSpawn(c)'
    <2>1. pc'[c] = pc[c] /\ pending'[c] = pending[c] /\ job' = job /\ mode' = mode
      BY ProcsAssumption DEF Frame
    <2>2. CallFits(c) => CallFits(c)'
      BY <2>1 DEF CallFits, IsServer
    <2>3. WillReady(c) => WillReady(c)'
      BY <2>1 DEF WillReady, Writing, Telling, IsServer
    <2>4. WillSpawn(c) => WillSpawn(c)'
      BY <2>1 DEF WillSpawn, Telling, IsServer
    <2> QED  BY <2>2, <2>3, <2>4
  <1>2. ASSUME NEW t \in Tasks \ {p}
        PROVE  (TaskFits(t) => TaskFits(t)') /\ (WillAnnounce(t) => WillAnnounce(t)')
    <2>1. pc'[t] = pc[t] /\ pending'[t] = pending[t]
      BY ProcsAssumption DEF Frame
    <2> QED  BY <2>1 DEF TaskFits, WillAnnounce, Writing
  <1> QED  BY <1>1, <1>2

\* When one process moves, the invariant depends on that process alone: what it
\* holds must fit, and if it was the one going to move the session on it must
\* still be.
LEMMA OneMoves ==
    ASSUME EngineInv, NEW p \in Procs, Frame(p),
           p \in Callers => CallFits(p)' /\ (pc'[p] \in StartLabels => job[p] # NoTask),
           p \in Tasks => TaskFits(p)' /\ pc[p] # "reserved",
           state'.tag = "Preparing" =>
               \/ p \in Callers /\ WillReady(p)'
               \/ state.tag = "Preparing" /\ (p \in Callers => ~WillReady(p)),
           state'.tag = "Connecting" =>
               \/ p \in Callers /\ WillSpawn(p)'
               \/ p \in Tasks /\ WillAnnounce(p)'
               \/ /\ state.tag = "Connecting"
                  /\ p \in Callers => ~WillSpawn(p)
                  /\ p \in Tasks => ~WillAnnounce(p)
    PROVE  JobsReserved' /\ PendingFits' /\ PreparingHasStarter' /\ ConnectingHasDriver'
  <1>a. EngineTypeOK /\ JobsReserved /\ PendingFits /\ PreparingHasStarter /\ ConnectingHasDriver
    BY DEF EngineInv
  <1>1. JobsReserved'
    <2>1. job' = job /\ \A q \in Procs \ {p} : pc'[q] = pc[q]
      BY DEF Frame
    <2>2. \A d \in Callers : job[d] # NoTask =>
                job[d] \in Procs \ {p} /\ pc[job[d]] = "reserved"
      <3>1. \A d \in Callers : job[d] # NoTask => job[d] \in Tasks /\ pc[job[d]] = "reserved"
        BY <1>a DEF JobsReserved, EngineTypeOK
      <3> QED  BY <3>1, ProcsAssumption
    <2>3. \A d \in Callers : job'[d] # NoTask => pc'[job'[d]] = "reserved"
      BY <2>1, <2>2
    <2>4. \A d \in Callers : pc'[d] \in StartLabels => job'[d] # NoTask
      <3>1. \A d \in Callers \ {p} : pc'[d] = pc[d]
        BY <2>1, ProcsAssumption
      <3> QED  BY <1>a, <2>1, <3>1 DEF JobsReserved
    <2>5. \A c, d \in Callers : job'[c] # NoTask /\ job'[c] = job'[d] => c = d
      BY <1>a, <2>1 DEF JobsReserved
    <2> QED  BY <2>3, <2>4, <2>5 DEF JobsReserved
  <1>2. PendingFits'
    <2>1. \A c \in Callers : CallFits(c)'
      BY <1>a, FrameKeeps DEF PendingFits
    <2>2. \A t \in Tasks : TaskFits(t)'
      BY <1>a, FrameKeeps DEF PendingFits
    <2> QED  BY <2>1, <2>2 DEF PendingFits
  <1>3. PreparingHasStarter'
    BY <1>a, FrameKeeps DEF PreparingHasStarter
  <1>4. ConnectingHasDriver'
    BY <1>a, FrameKeeps DEF ConnectingHasDriver
  <1> QED  BY <1>1, <1>2, <1>3, <1>4

\* p moves from one label to another and leaves the session and its task alone.
Move(p, from, to) ==
    /\ UNCHANGED <<state, pending, job, mode>>
    /\ pc[p] = from /\ pc'[p] = to
    /\ \A q \in Procs \ {p} : pc'[q] = pc[q]

LEMMA TaskMove ==
    ASSUME EngineInv, NEW t \in Tasks, NEW from, NEW to, Move(t, from, to),
           from # "reserved", to \notin {"writing", "telling"},
           from \in {"open", "fatal", "announce"} => to \in {"open", "fatal", "announce"},
           from \notin {"writing", "telling"}
    PROVE  JobsReserved' /\ PendingFits' /\ PreparingHasStarter' /\ ConnectingHasDriver'
  <1>1. t \in Procs /\ t \notin Callers
    BY ProcsAssumption
  <1>2. Frame(t)
    BY DEF Move, Frame
  <1>3. TaskFits(t)' /\ pc[t] # "reserved"
    BY DEF Move, TaskFits
  <1>4. WillAnnounce(t) => WillAnnounce(t)'
    BY DEF Move, WillAnnounce, Writing
  <1> QED  BY <1>1, <1>2, <1>3, <1>4, OneMoves DEF Move

LEMMA CallMove ==
    ASSUME EngineInv, NEW c \in Callers, NEW from, NEW to, Move(c, from, to),
           from \in {"unsignal", "stop_signal", "ready", "err"},
           to \in {"user_start", "ready", "err"}, to \in StartLabels => job[c] # NoTask
    PROVE  JobsReserved' /\ PendingFits' /\ PreparingHasStarter' /\ ConnectingHasDriver'
  <1>1. c \in Procs /\ c \notin Tasks
    BY ProcsAssumption
  <1>2. Frame(c)
    BY DEF Move, Frame
  <1>3. CallFits(c)' /\ (pc'[c] \in StartLabels => job[c] # NoTask)
    BY DEF Move, CallFits
  <1>4. ~WillReady(c) /\ ~WillSpawn(c)
    BY DEF Move, WillReady, WillSpawn, Writing, Telling
  <1> QED  BY <1>1, <1>2, <1>3, <1>4, OneMoves DEF Move

LEMMA QuietStep ==
    ASSUME EngineInv, UNCHANGED <<state, pc, pending, job, mode>>
    PROVE  JobsReserved' /\ PendingFits' /\ PreparingHasStarter' /\ ConnectingHasDriver'
  BY DEF EngineInv, JobsReserved, PendingFits, CallFits, TaskFits, PreparingHasStarter,
         ConnectingHasDriver, WillReady, WillSpawn, WillAnnounce, Writing, Telling, IsServer

LEMMA NoDispatchTypes == NoDispatch \in [next : States, then : Nexts]
  BY DEF NoDispatch, States, Nexts, Idle

\* Every step of a call, of a task or of the environment preserves the
\* invariant.
LEMMA EngineStepInv == EngineInv /\ [EngineNext]_engineVars => EngineInv'
  <1> SUFFICES ASSUME EngineInv, [EngineNext]_engineVars PROVE EngineInv'
    OBVIOUS
  <1> USE ProcsAssumption DEF IsServer
  <1>a. EngineTypeOK /\ JobsReserved /\ PendingFits /\ PreparingHasStarter /\ ConnectingHasDriver
    BY DEF EngineInv
  <1> USE <1>a
  <1>force. ASSUME NEW c \in Callers, start_force(c) PROVE EngineInv'
    <2>1. EngineTypeOK'
      BY <1>force DEF start_force, EngineTypeOK, Labels, force_idle, Idle, States, State,
         channelVars, taskVars, Goto
    <2>2. /\ pc[c] = "force" /\ pc'[c] = "unsignal" /\ state' = Idle
          /\ c \in Procs /\ c \notin Tasks
          /\ Frame(c)
      BY <1>force DEF start_force, EngineTypeOK, Frame, force_idle, taskVars, Goto
    <2>3. CallFits(c)' /\ (pc'[c] \in StartLabels => job[c] # NoTask)
      BY <2>2 DEF CallFits, JobsReserved, StartLabels
    <2>4. state'.tag \notin {"Preparing", "Connecting"}
      BY <2>2 DEF Idle, State
    <2> QED  BY <2>1, <2>2, <2>3, <2>4, OneMoves DEF EngineInv
  <1>unsignal. ASSUME NEW c \in Callers, start_unsignal(c) PROVE EngineInv'
    <2>1. EngineTypeOK'
      <3>1. ChannelTypeOK'
        BY <1>unsignal, SendTypes, Zenon DEF start_unsignal
      <3> QED
        BY <1>unsignal, <3>1 DEF start_unsignal, EngineTypeOK, ChannelTypeOK, Labels,
           channelVars, taskVars, Goto
    <2>2. Move(c, "unsignal", "user_start")
      BY <1>unsignal DEF start_unsignal, Move, EngineTypeOK, taskVars, Goto
    <2> QED  BY <1>unsignal, <2>1, <2>2, CallMove DEF EngineInv, start_unsignal, Free,
                JobsReserved, StartLabels
  <1>subscribe. ASSUME NEW c \in Callers, start_subscribe(c) PROVE EngineInv'
    <2>1. EngineTypeOK'
      <3>1. ChannelTypeOK'
        BY <1>subscribe, SubscribeTypes DEF start_subscribe, EngineTypeOK, JobsReserved,
           StartLabels
      <3> QED
        BY <1>subscribe, <3>1 DEF start_subscribe, EngineTypeOK, ChannelTypeOK, Labels,
           channelVars, taskVars, Goto
    <2>2. /\ pc[c] = "subscribe" /\ state' = state
          /\ pc'[c] = IF IsServer(job[c]) THEN "engine_ready" ELSE "spawn"
          /\ c \in Procs /\ c \notin Tasks
          /\ Frame(c)
      BY <1>subscribe DEF start_subscribe, EngineTypeOK, Frame, taskVars, Goto
    <2>3. CallFits(c)' /\ (pc'[c] \in StartLabels => job[c] # NoTask)
      BY <2>2 DEF CallFits, JobsReserved, StartLabels
    <2>4. /\ WillReady(c) => WillReady(c)'
          /\ WillSpawn(c) => WillSpawn(c)'
      BY <2>2 DEF WillReady, WillSpawn, Writing, Telling
    <2> QED  BY <2>1, <2>2, <2>3, <2>4, OneMoves DEF EngineInv
  <1>job. \A c \in Callers : pc[c] \in StartLabels =>
            job[c] \in Tasks /\ pc[job[c]] = "reserved" /\ c # job[c]
    BY DEF JobsReserved, EngineTypeOK
  <1>spawn. ASSUME NEW c \in Callers, start_spawn(c) PROVE EngineInv'
    <2> DEFINE t == job[c]
    <2>1. t \in Tasks /\ pc[t] = "reserved" /\ c # t /\ pc[c] = "spawn"
      BY <1>spawn, <1>job DEF start_spawn, StartLabels
    <2>2. /\ UNCHANGED <<state, pending, mode>>
          /\ pc'[c] = "ready" /\ job'[c] = NoTask
          /\ pc'[t] = IF IsServer(job[c]) THEN "announce" ELSE "open"
          /\ \A q \in Procs \ {c, t} : pc'[q] = pc[q]
          /\ \A d \in Callers \ {c} : job'[d] = job[d]
      BY <1>spawn, <2>1 DEF start_spawn, EngineTypeOK, taskVars
    <2>3. EngineTypeOK'
      BY <1>spawn, Zenon DEF start_spawn, EngineTypeOK, Labels, channelVars, taskVars
    <2>4. JobsReserved'
      <3>1. \A d \in Callers \ {c} : job[d] # NoTask => job[d] \in Procs \ {c, t}
        BY <2>1 DEF JobsReserved, EngineTypeOK
      <3> QED  BY <2>1, <2>2, <3>1 DEF JobsReserved, StartLabels
    <2> HIDE DEF t
    <2>5. PendingFits'
      BY <2>1, <2>2 DEF PendingFits, CallFits, TaskFits
    <2>6. PreparingHasStarter'
      BY <2>1, <2>2 DEF PreparingHasStarter, WillReady, Writing, Telling
    <2>7. ConnectingHasDriver'
      BY <2>1, <2>2 DEF ConnectingHasDriver, WillSpawn, WillAnnounce, Writing, Telling
    <2> QED  BY <2>3, <2>4, <2>5, <2>6, <2>7 DEF EngineInv
  <1>abort. ASSUME NEW c \in Callers, start_abort(c) PROVE EngineInv'
    <2> DEFINE t == job[c]
    <2>1. t \in Tasks /\ pc[t] = "reserved" /\ c # t /\ pc[c] = "abort"
      BY <1>abort, <1>job DEF start_abort, StartLabels
    <2>2. /\ UNCHANGED <<state, pending, mode>>
          /\ pc'[c] = "err" /\ job'[c] = NoTask
          /\ pc'[t] = "ready"
          /\ \A q \in Procs \ {c, t} : pc'[q] = pc[q]
          /\ \A d \in Callers \ {c} : job'[d] = job[d]
      BY <1>abort, <2>1 DEF start_abort, EngineTypeOK, taskVars
    <2>3. EngineTypeOK'
      BY <1>abort, Zenon DEF start_abort, EngineTypeOK, Labels, Drop, taskVars
    <2>4. JobsReserved'
      <3>1. \A d \in Callers \ {c} : job[d] # NoTask => job[d] \in Procs \ {c, t}
        BY <2>1 DEF JobsReserved, EngineTypeOK
      <3> QED  BY <2>1, <2>2, <3>1 DEF JobsReserved, StartLabels
    <2> HIDE DEF t
    <2>5. PendingFits'
      BY <2>1, <2>2 DEF PendingFits, CallFits, TaskFits
    <2>6. PreparingHasStarter'
      BY <2>1, <2>2 DEF PreparingHasStarter, WillReady, Writing, Telling
    <2>7. ConnectingHasDriver'
      BY <2>1, <2>2 DEF ConnectingHasDriver, WillSpawn, WillAnnounce, Writing, Telling
    <2> QED  BY <2>3, <2>4, <2>5, <2>6, <2>7 DEF EngineInv
  <1>signal. ASSUME NEW c \in Callers, stop_signal(c) PROVE EngineInv'
    <2>1. EngineTypeOK'
      <3>1. ChannelTypeOK'
        BY <1>signal, SendTypes, Zenon DEF stop_signal
      <3> QED
        BY <1>signal, <3>1 DEF stop_signal, EngineTypeOK, ChannelTypeOK, Labels,
           channelVars, taskVars, Goto
    <2>2. Move(c, "stop_signal", "ready")
      BY <1>signal DEF stop_signal, Move, EngineTypeOK, taskVars, Goto
    <2> QED  BY <1>signal, <2>1, <2>2, CallMove DEF EngineInv, stop_signal, Free,
                JobsReserved, StartLabels
  <1>shutdown. ASSUME NEW c \in Callers, shutdown(c) PROVE EngineInv'
    <2>1. EngineTypeOK'
      <3>1. ChannelTypeOK'
        BY <1>shutdown, SendTypes, Zenon DEF shutdown
      <3> QED
        BY <1>shutdown, <3>1 DEF shutdown, EngineTypeOK, ChannelTypeOK, Labels, channelVars,
           taskVars, Goto, Free
    <2>2. Move(c, pc[c], "ready")
      BY <1>shutdown DEF shutdown, Move, EngineTypeOK, taskVars, Goto, Free
    <2> QED  BY <1>shutdown, <2>1, <2>2, CallMove DEF EngineInv, shutdown, Free,
                JobsReserved, StartLabels
  <1>serve. ASSUME NEW t \in Tasks, server_serve(t) PROVE EngineInv'
    <2>1. EngineTypeOK'
      BY <1>serve DEF server_serve, EngineTypeOK, Labels, channelVars, taskVars, Goto,
         Proxies, Halves
    <2>2. Move(t, "serve", "serving")
      BY <1>serve DEF server_serve, Move, EngineTypeOK, taskVars, Goto
    <2> QED  BY <2>1, <2>2, TaskMove DEF EngineInv
  <1>join. ASSUME NEW t \in Tasks, server_join(t) PROVE EngineInv'
    <2>1. EngineTypeOK'
      BY <1>join DEF server_join, EngineTypeOK, Labels, channelVars, taskVars, Goto
    <2>2. Move(t, "serving", "ending")
      BY <1>join DEF server_join, Move, EngineTypeOK, taskVars, Goto
    <2> QED  BY <2>1, <2>2, TaskMove DEF EngineInv
  <1>open. ASSUME NEW t \in Tasks, client_open(t) PROVE EngineInv'
    <2>1. EngineTypeOK'
      BY <1>open, Zenon DEF client_open, EngineTypeOK, Labels, channelVars, taskVars, Goto
    <2>2. Move(t, "open", "announce") \/ Move(t, "open", "fatal")
      BY <1>open DEF client_open, Move, EngineTypeOK, taskVars, Goto
    <2> QED  BY <2>1, <2>2, TaskMove DEF EngineInv
  <1>select. ASSUME NEW t \in Tasks, client_select(t) PROVE EngineInv'
    <2>1. EngineTypeOK'
      <3>1. pc' \in [Procs -> Labels]
        BY <1>select DEF client_select, EngineTypeOK, Labels, Goto
      <3>2. loops' \subseteq Tasks \X {"reader", "poller"}
        BY <1>select DEF client_select, EngineTypeOK
      <3> QED  BY <1>select, <3>1, <3>2 DEF client_select, EngineTypeOK, channelVars
    <2>2. Move(t, "select", "looping")
      BY <1>select DEF client_select, Move, EngineTypeOK, taskVars, Goto
    <2> QED  BY <2>1, <2>2, TaskMove DEF EngineInv
  <1>changed. ASSUME NEW t \in Tasks, client_changed(t) PROVE EngineInv'
    <2>1. EngineTypeOK'
      BY <1>changed DEF client_changed, EngineTypeOK, Labels, channelVars, taskVars, Goto
    <2>2. Move(t, "select", "ending") \/ Move(t, "looping", "ending")
      BY <1>changed DEF client_changed, Move, EngineTypeOK, taskVars, Goto
    <2> QED  BY <2>1, <2>2, TaskMove DEF EngineInv
  <1>finish. ASSUME NEW t \in Tasks, task_finish(t) PROVE EngineInv'
    <2>1. EngineTypeOK'
      BY <1>finish DEF task_finish, EngineTypeOK, Labels, channelVars, taskVars, Goto, Drop
    <2>2. Move(t, "finish", "done")
      BY <1>finish DEF task_finish, Move, EngineTypeOK, taskVars, Goto
    <2> QED  BY <2>1, <2>2, TaskMove DEF EngineInv
  <1>reader. ASSUME NEW t \in Tasks, reader_fails(t) PROVE EngineInv'
    <2>1. EngineTypeOK'
      BY <1>reader DEF reader_fails, EngineTypeOK, channelVars, sessionVars
    <2>2. UNCHANGED <<state, pc, pending, job, mode>>
      BY <1>reader, Zenon DEF reader_fails, sessionVars
    <2> QED  BY <2>1, <2>2, QuietStep DEF EngineInv
  <1>user_start. ASSUME NEW c \in Callers, start_user_start(c) PROVE EngineInv'
    <2> DEFINE e == Event("UserStart", mode[job[c]])
               ok == IF IsServer(job[c]) THEN "subscribe" ELSE "engine_ready"
               n == transition(state, e)
    <2>1. pc[c] = "user_start" /\ UNCHANGED <<job, channelVars, taskVars>>
      BY <1>user_start DEF start_user_start, DispatchRead
    <2>2. c \in Procs /\ ok \in Nexts \cap Labels /\ "abort" \in Labels
      BY DEF Labels, Nexts
    <2>3. /\ n # InvalidTransition => n \in States
          /\ n # InvalidTransition => n.tag = "Preparing"
      <3>1. mode[job[c]] \in Modes
        BY <2>1 DEF JobsReserved, StartLabels, EngineTypeOK
      <3>2. \A m \in Modes : LET s == transition(state, Event("UserStart", m)) IN
                s # InvalidTransition => s \in States /\ s.tag = "Preparing"
        BY Transitions, ZenonT(30) DEF EngineTypeOK
      <3> QED  BY <3>1, <3>2
    <2>4. Outcome(c, n, ok, "abort")
      <3> HIDE DEF n, ok
      <3> QED  BY <1>user_start, <2>2, <2>3, ReadOutcome DEF start_user_start, DispatchRead,
                  n, ok, e
    <2> HIDE DEF n
    <2>5. EngineTypeOK'
      BY <2>1, <2>4 DEF EngineTypeOK, Outcome, channelVars, taskVars
    <2>6. Frame(c)
      BY <2>1, <2>4 DEF Outcome, Frame, taskVars
    <2>7. CallFits(c)' /\ (pc'[c] \in StartLabels => job[c] # NoTask)
      <3>1. pc[c] \in StartLabels => job[c] # NoTask
        BY DEF JobsReserved
      <3> QED  BY <2>1, <2>3, <2>4, <3>1 DEF Outcome, CallFits, StartLabels, taskVars
    <2>8. ~WillSpawn(c)
      BY <2>1 DEF WillSpawn, Telling
    <2>9. state.tag = "Preparing" => ~WillReady(c)
      BY <2>1 DEF WillReady, Telling, Writing
    <2> QED  BY <2>2, <2>4, <2>5, <2>6, <2>7, <2>8, <2>9, OneMoves DEF Outcome, EngineInv
  <1>engine_ready. ASSUME NEW c \in Callers, start_engine_ready(c) PROVE EngineInv'
    <2> DEFINE e == Event("EngineReady", None)
               ok == IF IsServer(job[c]) THEN "spawn" ELSE "subscribe"
               n == transition(state, e)
    <2>1. pc[c] = "engine_ready" /\ UNCHANGED <<job, channelVars, taskVars>>
      BY <1>engine_ready DEF start_engine_ready, DispatchRead
    <2>2. c \in Procs /\ ok \in Nexts \cap Labels /\ "abort" \in Labels
      BY Zenon DEF Labels, Nexts
    <2>3. /\ n # InvalidTransition => n \in States
          /\ n # InvalidTransition => n.tag = "Connecting"
          /\ state.tag = "Preparing" => n # InvalidTransition /\ n # state
      BY Transitions, Zenon DEF EngineTypeOK
    <2>4. Outcome(c, n, ok, "abort")
      <3> HIDE DEF n, ok
      <3> QED  BY <1>engine_ready, <2>2, <2>3, ReadOutcome DEF start_engine_ready,
                  DispatchRead, n, ok, e
    <2> HIDE DEF n
    <2>5. EngineTypeOK'
      BY <2>1, <2>4 DEF EngineTypeOK, Outcome, channelVars, taskVars
    <2>6. Frame(c)
      BY <2>1, <2>4 DEF Outcome, Frame, taskVars
    <2>7. CallFits(c)' /\ (pc'[c] \in StartLabels => job[c] # NoTask)
      <3>1. pc[c] \in StartLabels => job[c] # NoTask
        BY DEF JobsReserved
      <3> QED  BY <2>1, <2>3, <2>4, <3>1 DEF Outcome, CallFits, StartLabels, taskVars
    <2>8. ~WillSpawn(c)
      BY <2>1, Zenon DEF WillSpawn, Telling
    <2>9. state.tag = "Preparing" => WillReady(c)'
      BY <2>3, <2>4 DEF Outcome, WillReady, Writing
    <2> QED  BY <2>2, <2>4, <2>5, <2>6, <2>7, <2>8, <2>9, OneMoves DEF Outcome, EngineInv
  <1>stop. ASSUME NEW c \in Callers, stop(c) PROVE EngineInv'
    <2> DEFINE e == Event("UserStop", None)
               ok == "stop_signal"
               n == transition(state, e)
    <2>1. pc[c] = pc[c] /\ UNCHANGED <<job, channelVars, taskVars>>
      BY <1>stop DEF stop, DispatchRead, Free
    <2>2. c \in Procs /\ ok \in Nexts \cap Labels /\ "err" \in Labels
      BY Zenon DEF Labels, Nexts
    <2>3. /\ n # InvalidTransition => n \in States
          /\ n # InvalidTransition => n.tag = "Stopping"
      BY Transitions DEF EngineTypeOK
    <2>4. Outcome(c, n, ok, "err")
      <3> HIDE DEF n, ok
      <3> QED  BY <1>stop, <2>2, <2>3, ReadOutcome, Zenon DEF stop, DispatchRead, n, ok, e
    <2> HIDE DEF n
    <2>5. EngineTypeOK'
      BY <2>1, <2>4, Zenon DEF EngineTypeOK, Outcome, channelVars, taskVars
    <2>6. Frame(c)
      BY <2>1, <2>4 DEF Outcome, Frame, taskVars
    <2>7. CallFits(c)' /\ (pc'[c] \in StartLabels => job[c] # NoTask)
      <3>1. pc[c] \in StartLabels => job[c] # NoTask
        BY DEF JobsReserved
      <3> QED  BY <2>1, <2>3, <2>4, <3>1 DEF Outcome, CallFits, StartLabels, taskVars
    <2>8. ~WillSpawn(c)
      BY <1>stop DEF WillSpawn, Telling, stop, Free
    <2>9. state.tag = "Preparing" => ~WillReady(c)
      BY <1>stop DEF WillReady, Telling, Writing, stop, Free
    <2> QED  BY <2>2, <2>4, <2>5, <2>6, <2>7, <2>8, <2>9, OneMoves, Zenon DEF Outcome, EngineInv
  <1>server_announce. ASSUME NEW t \in Tasks, server_announce(t) PROVE EngineInv'
    <2> DEFINE e == Event("ProxyConnected", None)
               ok == "serve"
               n == transition(state, e)
    <2>1. pc[t] = "announce" /\ UNCHANGED <<job, channelVars, taskVars>>
      BY <1>server_announce DEF server_announce, DispatchRead
    <2>2. t \in Procs /\ ok \in Nexts \cap Labels /\ "serve" \in Labels
      BY DEF Labels, Nexts
    <2>3. /\ n # InvalidTransition => n \in States
          /\ n # InvalidTransition => n.tag = "Connected"
          /\ state.tag = "Connecting" => n # InvalidTransition /\ n # state
      BY Transitions, Zenon DEF EngineTypeOK
    <2>4. Outcome(t, n, ok, "serve")
      <3> HIDE DEF n, ok
      <3> QED  BY <1>server_announce, <2>2, <2>3, ReadOutcome, Zenon DEF server_announce,
                  DispatchRead, n, ok, e
    <2> HIDE DEF n
    <2>5. EngineTypeOK'
      BY <2>1, <2>4 DEF EngineTypeOK, Outcome, channelVars, taskVars
    <2>6. Frame(t)
      BY <2>1, <2>4 DEF Outcome, Frame, taskVars
    <2>7. TaskFits(t)' /\ pc[t] # "reserved"
      BY <2>1, <2>3, <2>4 DEF Outcome, TaskFits
    <2>8. state.tag = "Connecting" => WillAnnounce(t)'
      BY <2>3, <2>4 DEF Outcome, WillAnnounce, Writing
    <2> QED  BY <2>2, <2>4, <2>5, <2>6, <2>7, <2>8, OneMoves DEF Outcome, EngineInv
  <1>client_announce. ASSUME NEW t \in Tasks, client_announce(t) PROVE EngineInv'
    <2> DEFINE e == Event("ProxyConnected", None)
               ok == "select"
               n == transition(state, e)
    <2>1. pc[t] = "announce" /\ UNCHANGED <<job, channelVars, taskVars>>
      BY <1>client_announce, Zenon DEF client_announce, DispatchRead
    <2>2. t \in Procs /\ ok \in Nexts \cap Labels /\ "select" \in Labels
      BY Zenon DEF Labels, Nexts
    <2>3. /\ n # InvalidTransition => n \in States
          /\ n # InvalidTransition => n.tag = "Connected"
          /\ state.tag = "Connecting" => n # InvalidTransition /\ n # state
      BY Transitions, Zenon DEF EngineTypeOK
    <2>4. Outcome(t, n, ok, "select")
      <3> HIDE DEF n, ok
      <3> QED  BY <1>client_announce, <2>2, <2>3, ReadOutcome DEF client_announce,
                  DispatchRead, n, ok, e
    <2> HIDE DEF n
    <2>5. EngineTypeOK'
      BY <2>1, <2>4 DEF EngineTypeOK, Outcome, channelVars, taskVars
    <2>6. Frame(t)
      BY <2>1, <2>4 DEF Outcome, Frame, taskVars
    <2>7. TaskFits(t)' /\ pc[t] # "reserved"
      BY <2>1, <2>3, <2>4 DEF Outcome, TaskFits
    <2>8. state.tag = "Connecting" => WillAnnounce(t)'
      BY <2>3, <2>4 DEF Outcome, WillAnnounce, Writing
    <2> QED  BY <2>2, <2>4, <2>5, <2>6, <2>7, <2>8, OneMoves, Zenon DEF Outcome, EngineInv
  <1>fatal. ASSUME NEW t \in Tasks, client_fatal(t) PROVE EngineInv'
    <2> DEFINE e == Event("FatalError", "TunOpenFailed")
               ok == "finish"
               n == transition(state, e)
    <2>1. pc[t] = "fatal" /\ UNCHANGED <<job, channelVars, taskVars>>
      BY <1>fatal DEF client_fatal, DispatchRead
    <2>2. t \in Procs /\ ok \in Nexts \cap Labels /\ "finish" \in Labels
      BY DEF Labels, Nexts
    <2>3. /\ n # InvalidTransition => n \in States
          /\ n.tag = "Failed" /\ n # InvalidTransition
      BY Transitions, Zenon DEF EngineTypeOK
    <2>4. Outcome(t, n, ok, "finish")
      <3> HIDE DEF n, ok
      <3> QED  BY <1>fatal, <2>2, <2>3, ReadOutcome DEF client_fatal, DispatchRead, n, ok, e
    <2> HIDE DEF n
    <2>5. EngineTypeOK'
      BY <2>1, <2>4 DEF EngineTypeOK, Outcome, channelVars, taskVars
    <2>6. Frame(t)
      BY <2>1, <2>4 DEF Outcome, Frame, taskVars
    <2>7. TaskFits(t)' /\ pc[t] # "reserved"
      BY <2>1, <2>3, <2>4 DEF Outcome, TaskFits
    <2>8. state.tag = "Connecting" => WillAnnounce(t)'
      BY <2>3, <2>4 DEF Outcome, WillAnnounce, Writing
    <2> QED  BY <2>2, <2>4, <2>5, <2>6, <2>7, <2>8, OneMoves, Zenon DEF Outcome, EngineInv
  <1>ending. ASSUME NEW t \in Tasks, task_ending(t) PROVE EngineInv'
    <2> DEFINE e == Event("EngineStopped", None)
               ok == "finish"
               n == transition(state, e)
    <2>1. pc[t] = "ending" /\ UNCHANGED <<job, channelVars, taskVars>>
      BY <1>ending, Zenon DEF task_ending, DispatchRead
    <2>2. t \in Procs /\ ok \in Nexts \cap Labels /\ "finish" \in Labels
      BY DEF Labels, Nexts
    <2>3. /\ n # InvalidTransition => n \in States
          /\ n # InvalidTransition => n.tag = "Idle"
      BY Transitions, Zenon DEF EngineTypeOK
    <2>4. Outcome(t, n, ok, "finish")
      <3> HIDE DEF n, ok
      <3> QED  BY <1>ending, <2>2, <2>3, ReadOutcome, Zenon DEF task_ending, DispatchRead, n, ok, e
    <2> HIDE DEF n
    <2>5. EngineTypeOK'
      BY <2>1, <2>4 DEF EngineTypeOK, Outcome, channelVars, taskVars
    <2>6. Frame(t)
      BY <2>1, <2>4 DEF Outcome, Frame, taskVars
    <2>7. TaskFits(t)' /\ pc[t] # "reserved"
      BY <2>1, <2>3, <2>4 DEF Outcome, TaskFits
    <2>8. ~WillAnnounce(t)
      BY <2>1 DEF WillAnnounce, Writing
    <2> QED  BY <2>2, <2>4, <2>5, <2>6, <2>7, <2>8, OneMoves, Zenon DEF Outcome, EngineInv
  <1>bind. ASSUME NEW t \in Tasks, NEW x \in Proxies, run_bind(t, x) PROVE EngineInv'
    <2>1. EngineTypeOK'
      <3>0. half \in [Tasks -> [Proxies -> Halves]] /\ {"serving", "failed", "ended"} \subseteq Halves
        BY DEF EngineTypeOK, Halves
      <3>1. half' \in [Tasks -> [Proxies -> Halves]]
        <4>1. \/ half' = half
              \/ \E v \in {"serving", "failed", "ended"} : half' = [half EXCEPT ![t][x] = v]
          BY <1>bind DEF run_bind
        <4> QED  BY <3>0, <4>1, HalfTypes
      <3>2. ChannelTypeOK'
        BY <1>bind DEF run_bind, EngineTypeOK, ChannelTypeOK, Drop, channelVars
      <3> QED  BY <1>bind, <3>1, <3>2, Zenon DEF run_bind, EngineTypeOK, ChannelTypeOK,
                  sessionVars, channelVars
    <2>2. UNCHANGED <<state, pc, pending, job, mode>>
      BY <1>bind, Zenon DEF run_bind, sessionVars
    <2> QED  BY <2>1, <2>2, QuietStep DEF EngineInv
  <1>signalled. ASSUME NEW t \in Tasks, NEW x \in Proxies, run_changed(t, x) PROVE EngineInv'
    <2>1. EngineTypeOK'
      <3>0. half \in [Tasks -> [Proxies -> Halves]] /\ {"serving", "failed", "ended"} \subseteq Halves
        BY DEF EngineTypeOK, Halves
      <3>1. half' \in [Tasks -> [Proxies -> Halves]]
        <4>1. \/ half' = half
              \/ \E v \in {"serving", "failed", "ended"} : half' = [half EXCEPT ![t][x] = v]
          BY <1>signalled DEF run_changed
        <4> QED  BY <3>0, <4>1, HalfTypes
      <3>2. ChannelTypeOK'
        BY <1>signalled DEF run_changed, EngineTypeOK, ChannelTypeOK, Drop, channelVars
      <3> QED  BY <1>signalled, <3>1, <3>2 DEF run_changed, EngineTypeOK, ChannelTypeOK,
                  sessionVars, channelVars
    <2>2. UNCHANGED <<state, pc, pending, job, mode>>
      BY <1>signalled DEF run_changed, sessionVars
    <2> QED  BY <2>1, <2>2, QuietStep DEF EngineInv
  <1>call_dispatch. ASSUME NEW c \in Callers, dispatching(c) PROVE EngineInv'
    <2>1. UNCHANGED <<job, mode, half, loops, channelVars>>
      BY <1>call_dispatch, Zenon DEF dispatching, taskVars
    <2>2. CASE DispatchWrite(c)
      <3>1. /\ pc[c] = "writing" /\ pc'[c] = "telling"
            /\ \A q \in Procs \ {c} : pc'[q] = pc[q]
            /\ pc' \in [Procs -> Labels]
            /\ pending' = pending /\ heard' = heard
            /\ state' = pending[c].next /\ state' \in States
        BY <2>2 DEF DispatchWrite, EngineTypeOK, Labels
      <3>2. EngineTypeOK'
        BY <2>1, <3>1, Zenon DEF EngineTypeOK, channelVars
      <3>3. c \in Procs /\ c \notin Tasks /\ Frame(c) /\ CallFits(c)
        BY <2>1, <3>1 DEF Frame, PendingFits
      <3>4. CallFits(c)' /\ (pc'[c] \in StartLabels => job[c] # NoTask)
        BY <2>1, <3>1, <3>3, Zenon DEF CallFits, StartLabels
      <3>5. /\ state'.tag = "Preparing" => WillReady(c)'
            /\ state'.tag = "Connecting" => WillSpawn(c)'
        BY <3>1 DEF WillReady, WillSpawn, Telling
      <3> QED  BY <3>2, <3>3, <3>4, <3>5, OneMoves DEF EngineInv
    <2>3. CASE DispatchNotify(c)
      <3>1. pc[c] = "telling" /\ CallFits(c) /\ pending[c].then \in Labels
        BY <2>3, Zenon DEF DispatchNotify, PendingFits, CallFits, Labels
      <3>2. /\ pc'[c] = pending[c].then
            /\ \A q \in Procs \ {c} : pc'[q] = pc[q] /\ pending'[q] = pending[q]
            /\ pc' \in [Procs -> Labels]
            /\ state' = state /\ heard' \in States
        BY <2>3, <3>1 DEF DispatchNotify, EngineTypeOK
      <3>3. pending' \in [Procs -> [next : States, then : Nexts]]
        BY <2>3, NoDispatchTypes, Zenon DEF DispatchNotify, EngineTypeOK
      <3>4. EngineTypeOK'
        BY <2>1, <3>2, <3>3 DEF EngineTypeOK, channelVars
      <3>5. c \in Procs /\ c \notin Tasks /\ Frame(c)
        BY <2>1, <3>2 DEF Frame
      <3>6. CallFits(c)' /\ (pc'[c] \in StartLabels => job[c] # NoTask)
        BY <2>1, <3>1, <3>2, Zenon DEF CallFits, StartLabels
      <3>7. /\ WillReady(c) => WillReady(c)'
            /\ WillSpawn(c) => WillSpawn(c)'
        BY <2>1, <3>1, <3>2 DEF CallFits, WillReady, WillSpawn, Writing, Telling
      <3> QED  BY <3>2, <3>4, <3>5, <3>6, <3>7, OneMoves, Zenon DEF EngineInv
    <2> QED  BY <1>call_dispatch, <2>2, <2>3 DEF dispatching, DispatchStep
  <1>task_dispatch. ASSUME NEW t \in Tasks, dispatching(t) PROVE EngineInv'
    <2>1. UNCHANGED <<job, mode, half, loops, channelVars>>
      BY <1>task_dispatch, Zenon DEF dispatching, taskVars
    <2>2. CASE DispatchWrite(t)
      <3>1. /\ pc[t] = "writing" /\ pc'[t] = "telling"
            /\ \A q \in Procs \ {t} : pc'[q] = pc[q]
            /\ pc' \in [Procs -> Labels]
            /\ pending' = pending /\ heard' = heard
            /\ state' = pending[t].next /\ state' \in States
        BY <2>2 DEF DispatchWrite, EngineTypeOK, Labels
      <3>2. EngineTypeOK'
        BY <2>1, <3>1 DEF EngineTypeOK, channelVars
      <3>3. t \in Procs /\ t \notin Callers /\ Frame(t) /\ TaskFits(t)
        BY <2>1, <3>1 DEF Frame, PendingFits
      <3>4. TaskFits(t)' /\ pc[t] # "reserved"
        BY <2>1, <3>1, <3>3 DEF TaskFits, StartLabels
      <3>5. state'.tag \notin {"Preparing", "Connecting"}
        BY <3>1, <3>3, Zenon DEF TaskFits
      <3> QED  BY <3>2, <3>3, <3>4, <3>5, OneMoves DEF EngineInv
    <2>3. CASE DispatchNotify(t)
      <3>1. pc[t] = "telling" /\ TaskFits(t) /\ pending[t].then \in Labels
        BY <2>3 DEF DispatchNotify, PendingFits, TaskFits, Labels
      <3>2. /\ pc'[t] = pending[t].then
            /\ \A q \in Procs \ {t} : pc'[q] = pc[q] /\ pending'[q] = pending[q]
            /\ pc' \in [Procs -> Labels]
            /\ state' = state /\ heard' \in States
        BY <2>3, <3>1 DEF DispatchNotify, EngineTypeOK
      <3>3. pending' \in [Procs -> [next : States, then : Nexts]]
        BY <2>3, NoDispatchTypes DEF DispatchNotify, EngineTypeOK
      <3>4. EngineTypeOK'
        BY <2>1, <3>2, <3>3 DEF EngineTypeOK, channelVars
      <3>5. t \in Procs /\ t \notin Callers /\ Frame(t)
        BY <2>1, <3>2 DEF Frame
      <3>6. TaskFits(t)' /\ pc[t] # "reserved"
        BY <2>1, <3>1, <3>2 DEF TaskFits, StartLabels
      <3>7. ~WillAnnounce(t)
        BY <3>1 DEF WillAnnounce, Writing
      <3> QED  BY <3>2, <3>4, <3>5, <3>6, <3>7, OneMoves DEF EngineInv
    <2> QED  BY <1>task_dispatch, <2>2, <2>3 DEF dispatching, DispatchStep
  <1>start. ASSUME NEW c \in Callers, NEW m \in {"server", "client"}, NEW t \in Tasks, start(c, m, t)
        PROVE  EngineInv'
    <2>1. EngineTypeOK'
      BY <1>start, Zenon DEF start, EngineTypeOK, Labels, Modes, channelVars
    <2>2. /\ pc[c] \in {"ready", "err"} /\ pc[t] = "ready" /\ c # t
          /\ pc'[c] \in {"user_start", "force"} /\ pc'[t] = "reserved"
          /\ job'[c] = t
          /\ \A q \in Procs \ {c, t} : pc'[q] = pc[q]
          /\ \A d \in Callers \ {c} : job'[d] = job[d]
          /\ \A u \in Tasks \ {t} : mode'[u] = mode[u]
          /\ UNCHANGED <<state, pending>>
      BY <1>start DEF start, Free, EngineTypeOK
    <2>3. \A d \in Callers : job[d] # NoTask => job[d] \in Tasks \ {t} /\ pc[job[d]] = "reserved"
      BY <2>2 DEF JobsReserved, EngineTypeOK
    <2>4. JobsReserved'
      <3>1. t # NoTask /\ Tasks \subseteq Procs \ {c}
        BY <2>2
      <3>2. \A d \in Callers : job'[d] # NoTask => pc'[job'[d]] = "reserved"
        BY <2>2, <2>3, <3>1
      <3>3. \A d \in Callers : pc'[d] \in StartLabels => job'[d] # NoTask
        BY <2>2, <3>1 DEF JobsReserved
      <3>4. \A d, f \in Callers : job'[d] # NoTask /\ job'[d] = job'[f] => d = f
        BY <2>2, <2>3 DEF JobsReserved
      <3> QED  BY <3>2, <3>3, <3>4 DEF JobsReserved
    <2>5. ASSUME NEW d \in Callers \ {c}
          PROVE  /\ CallFits(d) => CallFits(d)'
                 /\ WillReady(d) => WillReady(d)'
                 /\ WillSpawn(d) => WillSpawn(d)'
      <3>1. /\ pc'[d] = pc[d] /\ pending'[d] = pending[d] /\ job'[d] = job[d]
            /\ job[d] # NoTask => mode'[job[d]] = mode[job[d]]
            /\ pc[d] \in StartLabels => job[d] # NoTask
        BY <2>2, <2>3 DEF JobsReserved
      <3>2. CallFits(d) => CallFits(d)'
        BY <3>1 DEF CallFits
      <3>3. (WillReady(d) => WillReady(d)') /\ (WillSpawn(d) => WillSpawn(d)')
        BY <3>1 DEF WillReady, WillSpawn, Writing, Telling, StartLabels
      <3> QED  BY <3>2, <3>3
    <2>6. ASSUME NEW u \in Tasks \ {t}
          PROVE  (TaskFits(u) => TaskFits(u)') /\ (WillAnnounce(u) => WillAnnounce(u)')
      BY <2>2, ZenonT(30) DEF TaskFits, WillAnnounce, Writing
    <2>7. CallFits(c)' /\ TaskFits(t)' /\ ~WillReady(c) /\ ~WillSpawn(c) /\ ~WillAnnounce(t)
      BY <2>2 DEF CallFits, TaskFits, WillReady, WillSpawn, WillAnnounce, Writing, Telling
    <2>8. PendingFits'
      BY <2>5, <2>6, <2>7 DEF PendingFits
    <2>9. PreparingHasStarter' /\ ConnectingHasDriver'
      BY <2>2, <2>5, <2>6, <2>7, Zenon DEF PreparingHasStarter, ConnectingHasDriver
    <2> QED  BY <2>1, <2>4, <2>8, <2>9 DEF EngineInv
  <1>stutter. ASSUME UNCHANGED engineVars PROVE EngineInv'
    <2>1. EngineTypeOK'
      BY <1>stutter DEF engineVars, sessionVars, EngineTypeOK
    <2>2. UNCHANGED <<state, pc, pending, job, mode>>
      BY <1>stutter DEF engineVars, sessionVars
    <2> QED  BY <2>1, <2>2, QuietStep, Zenon DEF EngineInv
  <1>call. ASSUME NEW c \in Callers, CallStep(c) PROVE EngineInv'
    BY <1>call, <1>force, <1>unsignal, <1>user_start, <1>subscribe, <1>engine_ready, <1>spawn,
       <1>abort, <1>signal, <1>call_dispatch DEF CallStep
  <1>task. ASSUME NEW t \in Tasks, TaskStep(t) PROVE EngineInv'
    BY <1>task, <1>server_announce, <1>serve, <1>join, <1>bind, <1>signalled, <1>open,
       <1>fatal,
       <1>client_announce, <1>select, <1>changed, <1>ending, <1>finish, <1>task_dispatch DEF TaskStep
  <1>environment. ASSUME Environment PROVE EngineInv'
    BY <1>environment, <1>start, <1>stop, <1>shutdown, <1>reader DEF Environment
  <1> QED  BY <1>call, <1>task, <1>environment, <1>stutter DEF EngineNext

\* The start call c has not subscribed to the shutdown channel yet.
Unsubscribed(c) ==
    \/ pc[c] \in {"force", "unsignal", "user_start", "subscribe"}
    \/ pc[c] = "engine_ready" /\ ~IsServer(job[c])
    \/ /\ pc[c] \in {"writing", "telling"}
       /\ \/ pending[c].next.tag = "Preparing"
          \/ pending[c].next.tag = "Connecting" /\ ~IsServer(job[c])

\* Until then its task has no receiver, so what an earlier stop left in the
\* channel cannot be unseen for it.
CallTold(c) == Unsubscribed(c) => \A r \in rxs : r[1] # job[c]

\* A task that was not spawned has no proxies, and one that was not reserved has
\* no receiver at all; only a server serves; an end was asked for.
TaskTold(t) ==
    /\ pc[t] \in {"ready", "reserved"} =>
           \A x \in Proxies : half[t][x] = "none" /\ <<t, x>> \notin rxs
    /\ pc[t] = "ready" => <<t, "main">> \notin rxs
    /\ \/ pc[t] \in {"serve", "serving"}
       \/ pc[t] \in {"writing", "telling"} /\ pending[t].then = "serve"
       => IsServer(t)
    /\ \A x \in Proxies : half[t][x] = "ended" => <<t, TRUE>> \in told
    /\ pc[t] = "ending" /\ ~IsServer(t) => \E v \in BOOLEAN : <<t, v>> \in told

\* What a receiver has not seen was sent after its task subscribed.
UnseenTold == \A r \in unseen : <<r[1], signal>> \in told

ToldInv ==
    /\ UnseenTold
    /\ \A c \in Callers : CallTold(c)
    /\ \A t \in Tasks : TaskTold(t)

LEMMA ToldInitInv == EngineInit => ToldInv
  BY ProcsAssumption DEF EngineInit, SessionInit, ToldInv, UnseenTold, CallTold, TaskTold

\* When one process moves and the channel only tells more, the others keep what
\* they know.
LEMMA ToldFrame ==
    ASSUME EngineTypeOK, ToldInv, NEW p \in Procs, Frame(p),
           rxs' \subseteq rxs, told \subseteq told',
           \A u \in Tasks \ {p} : half'[u] = half[u],
           UnseenTold',
           p \in Callers => CallTold(p)',
           p \in Tasks => TaskTold(p)'
    PROVE  ToldInv'
  <1>1. ASSUME NEW c \in Callers \ {p} PROVE CallTold(c)'
    <2>1. /\ pc'[c] = pc[c] /\ pending'[c] = pending[c] /\ job' = job /\ mode' = mode
          /\ CallTold(c)
      BY ProcsAssumption DEF Frame, ToldInv
    <2>2. Unsubscribed(c)' => Unsubscribed(c)
      BY <2>1 DEF Unsubscribed, IsServer
    <2> QED  BY <2>1, <2>2 DEF CallTold
  <1>2. ASSUME NEW t \in Tasks \ {p} PROVE TaskTold(t)'
    <2>1. /\ pc'[t] = pc[t] /\ pending'[t] = pending[t] /\ mode' = mode /\ half'[t] = half[t]
          /\ TaskTold(t)
      BY ProcsAssumption, Zenon DEF Frame, ToldInv
    <2> QED  BY <2>1, ZenonT(30) DEF TaskTold, IsServer
  <1> QED  BY <1>1, <1>2 DEF ToldInv

\* A process moves and leaves the channel and the proxies alone.
LEMMA ToldMove ==
    ASSUME EngineTypeOK, ToldInv, NEW p \in Procs, Frame(p), UNCHANGED <<channelVars, half>>,
           p \in Callers => (Unsubscribed(p)' => Unsubscribed(p)),
           p \in Tasks => /\ pc'[p] \notin {"ready", "reserved", "ending"}
                          /\ \/ pc'[p] \in {"serve", "serving"}
                             \/ pc'[p] \in {"writing", "telling"} /\ pending'[p].then = "serve"
                             => IsServer(p)
    PROVE  ToldInv'
  <1>1. UNCHANGED <<rxs, unseen, signal, told, half, job, mode>>
    BY Zenon DEF channelVars, Frame
  <1>2. UnseenTold'
    BY <1>1, Zenon DEF ToldInv, UnseenTold
  <1>3. p \in Callers => CallTold(p)'
    BY <1>1 DEF ToldInv, CallTold
  <1>4. ASSUME p \in Tasks PROVE TaskTold(p)'
    <2>1. TaskTold(p) /\ pc'[p] \notin {"ready", "reserved", "ending"}
      BY <1>4 DEF ToldInv
    <2>2. (IsServer(p) <=> IsServer(p)') /\ half'[p] = half[p] /\ told' = told
      BY <1>1 DEF IsServer
    <2> QED  BY <1>4, <2>1, <2>2, Zenon DEF TaskTold
  <1> QED  BY <1>1, <1>2, <1>3, <1>4, ToldFrame, Zenon

LEMMA ToldStutter ==
    ASSUME ToldInv, UNCHANGED <<pc, pending, mode, job, half, signal, rxs, unseen, told>>
    PROVE  ToldInv'
  <1>1. UnseenTold'
    BY DEF ToldInv, UnseenTold
  <1>2. ASSUME NEW c \in Callers PROVE CallTold(c)'
    BY DEF ToldInv, CallTold, Unsubscribed, IsServer
  <1>3. ASSUME NEW t \in Tasks PROVE TaskTold(t)'
    <2>1. TaskTold(t) /\ (IsServer(t) <=> IsServer(t)')
      BY DEF ToldInv, IsServer
    <2> QED  BY <2>1, Zenon DEF TaskTold
  <1> QED  BY <1>1, <1>2, <1>3 DEF ToldInv

\* A signal is sent by a call that goes on to a label where it is not waiting to
\* subscribe, or has not left it.
LEMMA ToldSend ==
    ASSUME EngineTypeOK, ToldInv, NEW c \in Callers, Frame(c), NEW v \in BOOLEAN, send(v),
           UNCHANGED half, Unsubscribed(c)' => Unsubscribed(c)
    PROVE  ToldInv'
  <1>1. c \in Procs /\ c \notin Tasks /\ job' = job
    BY ProcsAssumption DEF Frame
  <1>2. rxs' = rxs /\ told \subseteq told'
    BY DEF send
  <1>3. UnseenTold'
    BY DEF UnseenTold, send
  <1>4. CallTold(c)'
    BY <1>1, <1>2 DEF ToldInv, CallTold
  <1> QED  BY <1>1, <1>2, <1>3, <1>4, ToldFrame

\* The first critical section of a dispatch, as far as the channel can tell.
ReadsTo(p, from, e, ok, err) ==
    /\ Frame(p) /\ UNCHANGED <<channelVars, half>>
    /\ pc[p] = from
    /\ \/ pc'[p] \in {ok, err}
       \/ /\ pc'[p] = "writing" /\ pending'[p].then = ok
          /\ pending'[p].next = transition(state, e)
          /\ transition(state, e) # InvalidTransition

LEMMA ReadMoves ==
    ASSUME EngineTypeOK, NEW p \in Procs, NEW from, NEW e, NEW ok, NEW err,
           DispatchRead(p, from, e, ok, err), UNCHANGED <<job, channelVars, taskVars>>
    PROVE  ReadsTo(p, from, e, ok, err)
  <1> DEFINE n == transition(state, e)
  <1>1. /\ pc[p] = from
        /\ \/ pc' = [pc EXCEPT ![p] = err] /\ UNCHANGED pending
           \/ pc' = [pc EXCEPT ![p] = ok] /\ UNCHANGED pending
           \/ /\ n # InvalidTransition
              /\ pc' = [pc EXCEPT ![p] = "writing"]
              /\ pending' = [pending EXCEPT ![p] = [next |-> n, then |-> ok]]
    BY Zenon DEF DispatchRead
  <1> HIDE DEF n
  <1>2. Frame(p)
    BY <1>1, ZenonT(30) DEF EngineTypeOK, Frame, taskVars
  <1>3. /\ pc[p] = from
        /\ \/ pc'[p] \in {ok, err}
           \/ /\ pc'[p] = "writing" /\ pending'[p].then = ok
              /\ pending'[p].next = n
              /\ n # InvalidTransition
    <2>1. DOMAIN pc = Procs /\ DOMAIN pending = Procs
      BY Zenon DEF EngineTypeOK
    <2> QED  BY <1>1, <2>1
  <1> QED  BY <1>2, <1>3, Zenon DEF ReadsTo, n, taskVars

\* The second critical section of a dispatch, and what follows it.
LEMMA DispatchMoves ==
    ASSUME EngineTypeOK, NEW p \in Procs, dispatching(p)
    PROVE  /\ Frame(p) /\ UNCHANGED <<channelVars, half>>
           /\ \/ pc[p] = "writing" /\ pc'[p] = "telling" /\ pending'[p] = pending[p]
              \/ pc[p] = "telling" /\ pc'[p] = pending[p].then
  <1>1. CASE DispatchWrite(p)
    BY <1>1, Zenon DEF DispatchWrite, dispatching, Frame, taskVars, EngineTypeOK
  <1>2. CASE DispatchNotify(p)
    BY <1>2, Zenon DEF DispatchNotify, dispatching, Frame, taskVars, EngineTypeOK
  <1> QED  BY <1>1, <1>2, Zenon DEF dispatching, DispatchStep

\* Every step keeps what is known of the channel.
LEMMA ToldStepInv == EngineInv /\ ToldInv /\ [EngineNext]_engineVars => ToldInv'
  <1> SUFFICES ASSUME EngineInv, ToldInv, [EngineNext]_engineVars PROVE ToldInv'
    OBVIOUS
  <1>a. EngineTypeOK /\ JobsReserved /\ PendingFits
    BY DEF EngineInv
  <1>p. /\ \A c \in Callers : c \in Procs /\ c \notin Tasks
        /\ \A t \in Tasks : t \in Procs /\ t \notin Callers /\ t # NoTask
    BY ProcsAssumption
  <1>told. /\ UnseenTold
           /\ \A c \in Callers : CallTold(c)
           /\ \A t \in Tasks : TaskTold(t)
    BY DEF ToldInv
  <1> USE <1>a, <1>p
  <1>job. \A c \in Callers : pc[c] \in StartLabels =>
            job[c] \in Tasks /\ pc[job[c]] = "reserved" /\ c # job[c]
    BY Zenon DEF JobsReserved, EngineTypeOK
  <1>unsub. \A c \in Callers : Unsubscribed(c) => job[c] \in Tasks /\ pc[job[c]] = "reserved"
    <2> TAKE c \in Callers
    <2>1. Unsubscribed(c) => job[c] # NoTask
      BY Zenon DEF Unsubscribed, JobsReserved, StartLabels, PendingFits, CallFits
    <2> QED  BY <2>1 DEF JobsReserved, EngineTypeOK
  <1>force. ASSUME NEW c \in Callers, start_force(c) PROVE ToldInv'
    <2>1. Frame(c) /\ UNCHANGED <<channelVars, half>> /\ pc[c] = "force"
      BY <1>force DEF start_force, EngineTypeOK, Frame, taskVars, Goto
    <2>2. Unsubscribed(c)
      BY <2>1 DEF Unsubscribed
    <2> QED  BY <2>1, <2>2, ToldMove, Zenon
  <1>unsignal. ASSUME NEW c \in Callers, start_unsignal(c) PROVE ToldInv'
    <2>1. Frame(c) /\ send(FALSE) /\ UNCHANGED half /\ pc[c] = "unsignal"
      BY <1>unsignal, Zenon DEF start_unsignal, EngineTypeOK, Frame, taskVars, Goto
    <2>2. Unsubscribed(c)
      BY <2>1 DEF Unsubscribed
    <2> QED  BY <2>1, <2>2, ToldSend, Zenon
  <1>user_start. ASSUME NEW c \in Callers, start_user_start(c) PROVE ToldInv'
    <2>1. Frame(c) /\ UNCHANGED <<channelVars, half>> /\ pc[c] = "user_start"
      BY <1>user_start, ReadMoves, Zenon DEF start_user_start, ReadsTo
    <2>2. Unsubscribed(c)
      BY <2>1 DEF Unsubscribed
    <2> QED  BY <2>1, <2>2, ToldMove, ZenonT(30)
  <1>engine_ready. ASSUME NEW c \in Callers, start_engine_ready(c) PROVE ToldInv'
    <2> DEFINE n == transition(state, Event("EngineReady", None))
    <2>1. /\ Frame(c) /\ UNCHANGED <<channelVars, half>> /\ pc[c] = "engine_ready"
          /\ \/ pc'[c] \in {IF IsServer(job[c]) THEN "spawn" ELSE "subscribe", "abort"}
             \/ pc'[c] = "writing" /\ pending'[c].next = n /\ n # InvalidTransition
      BY <1>engine_ready, ReadMoves DEF start_engine_ready, ReadsTo
    <2>2. n # InvalidTransition => n.tag = "Connecting"
      BY Transitions, ZenonT(30) DEF EngineTypeOK
    <2> HIDE DEF n
    <2>3. job' = job /\ mode' = mode
      BY <2>1 DEF Frame
    <2>4. Unsubscribed(c)' => Unsubscribed(c)
      BY <2>1, <2>2, <2>3 DEF Unsubscribed, IsServer
    <2> QED  BY <2>1, <2>4, ToldMove, ZenonT(30)
  <1>stop. ASSUME NEW c \in Callers, stop(c) PROVE ToldInv'
    <2> DEFINE n == transition(state, Event("UserStop", None))
    <2>1. /\ Frame(c) /\ UNCHANGED <<channelVars, half>>
          /\ \/ pc'[c] \in {"stop_signal", "err"}
             \/ pc'[c] = "writing" /\ pending'[c].next = n /\ n # InvalidTransition
      BY <1>stop, ReadMoves, Zenon DEF stop, ReadsTo
    <2>2. n # InvalidTransition => n.tag = "Stopping"
      BY Transitions, Zenon DEF EngineTypeOK
    <2> HIDE DEF n
    <2>3. ~Unsubscribed(c)'
      BY <2>1, <2>2 DEF Unsubscribed
    <2> QED  BY <2>1, <2>3, ToldMove, Zenon
  <1>signal. ASSUME NEW c \in Callers, stop_signal(c) PROVE ToldInv'
    <2>1. Frame(c) /\ send(TRUE) /\ UNCHANGED half /\ pc'[c] = "ready"
      BY <1>signal, Zenon DEF stop_signal, EngineTypeOK, Frame, taskVars, Goto
    <2>2. ~Unsubscribed(c)'
      BY <2>1, Zenon DEF Unsubscribed
    <2> QED  BY <2>1, <2>2, ToldSend, Zenon
  <1>shutdown. ASSUME NEW c \in Callers, shutdown(c) PROVE ToldInv'
    <2>1. Frame(c) /\ send(TRUE) /\ UNCHANGED half /\ pc'[c] = "ready"
      BY <1>shutdown, Zenon DEF shutdown, EngineTypeOK, Frame, taskVars, Goto
    <2>2. ~Unsubscribed(c)'
      BY <2>1 DEF Unsubscribed
    <2> QED  BY <2>1, <2>2, ToldSend, Zenon
  <1>call_dispatch. ASSUME NEW c \in Callers, dispatching(c) PROVE ToldInv'
    <2>1. /\ Frame(c) /\ UNCHANGED <<channelVars, half>>
          /\ \/ pc[c] = "writing" /\ pc'[c] = "telling" /\ pending'[c] = pending[c]
             \/ pc[c] = "telling" /\ pc'[c] = pending[c].then
      BY <1>call_dispatch, DispatchMoves, Zenon
    <2>2. CallFits(c) /\ job' = job /\ mode' = mode
      BY <2>1, Zenon DEF Frame, PendingFits
    <2>3. Unsubscribed(c)' => Unsubscribed(c)
      BY <2>1, <2>2 DEF Unsubscribed, CallFits, IsServer
    <2> QED  BY <2>1, <2>3, ToldMove, Zenon
  <1>subscribe. ASSUME NEW c \in Callers, start_subscribe(c) PROVE ToldInv'
    <2> DEFINE t == job[c]
    <2>1. pc[c] = "subscribe" /\ Unsubscribed(c) /\ t \in Tasks /\ pc[t] = "reserved"
      BY <1>subscribe, <1>job, Zenon DEF start_subscribe, StartLabels, Unsubscribed
    <2>2. /\ Frame(c) /\ UNCHANGED <<half, unseen, signal>>
          /\ pc'[c] \in {"engine_ready", "spawn"} /\ (pc'[c] = "engine_ready" => IsServer(t))
          /\ rxs' = rxs \cup {<<t, "main">>}
          /\ told' = {r \in told : r[1] # t}
      BY <1>subscribe, Zenon DEF start_subscribe, subscribe, EngineTypeOK, Frame, taskVars, Goto
    <2>3. \A r \in rxs : r[1] # t
      BY <2>1, <1>told DEF CallTold
    <2>4. UnseenTold'
      BY <2>2, <2>3, <1>told, Zenon DEF UnseenTold, EngineTypeOK
    <2>5. ASSUME NEW d \in Callers \ {c} PROVE CallTold(d)'
      <3>1. pc'[d] = pc[d] /\ pending'[d] = pending[d] /\ job' = job /\ mode' = mode
        BY <2>2 DEF Frame
      <3>2. Unsubscribed(d)' => Unsubscribed(d)
        BY <3>1, Zenon DEF Unsubscribed, IsServer
      <3>3. Unsubscribed(d) => job[d] # t
        BY <1>unsub, <2>1 DEF JobsReserved
      <3>4. CallTold(d)
        BY <1>told, Zenon
      <3>5. \A r \in rxs' : r \in rxs \/ r[1] = t
        <4>1. rxs' = rxs \cup {<<t, "main">>}
          BY <2>2, Zenon
        <4> QED  BY <4>1
      <3> QED  BY <3>1, <3>2, <3>3, <3>4, <3>5, Zenon DEF CallTold
    <2>6. CallTold(c)'
      <3>1. ~Unsubscribed(c)'
        BY <2>2 DEF Unsubscribed, IsServer, Frame
      <3> QED  BY <3>1 DEF CallTold
    <2>7. ASSUME NEW u \in Tasks PROVE TaskTold(u)'
      <3>1. pc'[u] = pc[u] /\ pending'[u] = pending[u] /\ mode' = mode /\ half' = half /\ TaskTold(u)
        BY <1>told, <2>2 DEF Frame
      <3>2. CASE u = t
        BY <2>1, <2>2, <3>1, <3>2, Zenon DEF TaskTold, Proxies
      <3>3. CASE u # t
        <4>1. /\ \A v : <<u, v>> \in told' <=> <<u, v>> \in told
              /\ \A x : <<u, x>> \in rxs' <=> <<u, x>> \in rxs
          BY <2>2, <3>3
        <4> QED  BY <3>1, <4>1, Zenon DEF TaskTold, IsServer
      <3> QED  BY <3>2, <3>3
    <2> QED  BY <2>4, <2>5, <2>6, <2>7 DEF ToldInv
  <1>spawn. ASSUME NEW c \in Callers, start_spawn(c) PROVE ToldInv'
    <2> DEFINE t == job[c]
    <2>1. t \in Tasks /\ pc[t] = "reserved" /\ c # t /\ pc[c] = "spawn"
      BY <1>spawn, <1>job DEF start_spawn, StartLabels
    <2>2. /\ UNCHANGED <<channelVars, pending, mode, half>>
          /\ pc'[c] = "ready" /\ pc'[t] \in {"announce", "open"}
          /\ \A q \in Procs \ {c, t} : pc'[q] = pc[q]
          /\ \A d \in Callers \ {c} : job'[d] = job[d]
      BY <1>spawn, <2>1, Zenon DEF start_spawn, EngineTypeOK, taskVars
    <2> HIDE DEF t
    <2>3. UnseenTold'
      BY <1>told, <2>2, Zenon DEF UnseenTold, channelVars
    <2>4. ASSUME NEW d \in Callers PROVE CallTold(d)'
      <3>1. Unsubscribed(d)' => d # c /\ Unsubscribed(d)
        BY <2>1, <2>2 DEF Unsubscribed, IsServer
      <3> QED  BY <1>told, <2>2, <3>1 DEF CallTold, channelVars
    <2>5. ASSUME NEW u \in Tasks PROVE TaskTold(u)'
      <3>1. TaskTold(u) /\ (pc'[u] = pc[u] \/ pc'[u] \in {"announce", "open"})
        BY <1>told, <2>1, <2>2
      <3>2. UNCHANGED <<pending, mode, half, rxs, told>>
        BY <2>2 DEF channelVars
      <3> QED  BY <3>1, <3>2, Zenon DEF TaskTold, IsServer
    <2> QED  BY <2>3, <2>4, <2>5 DEF ToldInv
  <1>abort. ASSUME NEW c \in Callers, start_abort(c) PROVE ToldInv'
    <2> DEFINE t == job[c]
    <2>1. t \in Tasks /\ pc[t] = "reserved" /\ c # t /\ pc[c] = "abort"
      BY <1>abort, <1>job, Zenon DEF start_abort, StartLabels
    <2>2. /\ UNCHANGED <<pending, mode, half, signal, told>>
          /\ rxs' = rxs \ {<<t, "main">>} /\ unseen' \subseteq unseen
          /\ pc'[c] = "err" /\ pc'[t] = "ready"
          /\ \A q \in Procs \ {c, t} : pc'[q] = pc[q]
          /\ \A d \in Callers \ {c} : job'[d] = job[d]
      BY <1>abort, <2>1 DEF start_abort, Drop, EngineTypeOK, taskVars
    <2> HIDE DEF t
    <2>3. UnseenTold'
      BY <1>told, <2>2, ZenonT(30) DEF UnseenTold
    <2>4. ASSUME NEW d \in Callers PROVE CallTold(d)'
      <3>1. Unsubscribed(d)' => d # c /\ Unsubscribed(d)
        BY <2>1, <2>2, Zenon DEF Unsubscribed, IsServer
      <3> QED  BY <1>told, <2>2, <3>1, Zenon DEF CallTold
    <2>5. ASSUME NEW u \in Tasks PROVE TaskTold(u)'
      <3>1. TaskTold(u) /\ (u # t => pc'[u] = pc[u]) /\ TaskTold(t)
        BY <1>told, <2>1, <2>2, Zenon
      <3> QED  BY <2>1, <2>2, <3>1, Zenon DEF TaskTold, IsServer
    <2> QED  BY <2>3, <2>4, <2>5 DEF ToldInv
  <1>start. ASSUME NEW c \in Callers, NEW m \in {"server", "client"}, NEW t \in Tasks, start(c, m, t)
        PROVE  ToldInv'
    <2>2. /\ pc[t] = "ready" /\ c # t
          /\ pc'[c] \in {"user_start", "force"} /\ pc'[t] = "reserved"
          /\ job'[c] = t
          /\ \A q \in Procs \ {c, t} : pc'[q] = pc[q]
          /\ \A d \in Callers \ {c} : job'[d] = job[d]
          /\ \A u \in Tasks \ {t} : mode'[u] = mode[u]
          /\ UNCHANGED <<pending, half, signal, rxs, unseen, told>>
      BY <1>start DEF start, Free, EngineTypeOK, channelVars
    <2>3. UnseenTold'
      BY <1>told, <2>2, ZenonT(30) DEF UnseenTold
    <2>4. TaskTold(t) /\ \A r \in rxs : r[1] # t
      <3>1. TaskTold(t) /\ \A x \in Proxies \cup {"main"} : <<t, x>> \notin rxs
        BY <1>told, <2>2, Zenon DEF TaskTold
      <3> QED  BY <3>1 DEF EngineTypeOK
    <2>5. ASSUME NEW d \in Callers \ {c} PROVE CallTold(d)'
      <3>1. Unsubscribed(d) => mode'[job[d]] = mode[job[d]]
        BY <1>unsub, <2>2, Zenon
      <3>2. pc[d] \in StartLabels => mode'[job[d]] = mode[job[d]]
        BY <1>job, <2>2, Zenon
      <3>3. pc[d] \in {"writing", "telling"} /\ pending[d].next.tag = "Connecting" =>
              mode'[job[d]] = mode[job[d]]
        <4>1. pc[d] \in {"writing", "telling"} /\ pending[d].next.tag = "Connecting" => job[d] # NoTask
          BY Zenon DEF PendingFits, CallFits
        <4>2. job[d] # NoTask => job[d] \in Tasks \ {t}
          BY <2>2 DEF JobsReserved, EngineTypeOK
        <4> QED  BY <2>2, <4>1, <4>2
      <3>4. Unsubscribed(d)' => Unsubscribed(d)
        BY <2>2, <3>2, <3>3 DEF Unsubscribed, IsServer, StartLabels
      <3>5. CallTold(d) /\ job'[d] = job[d] /\ rxs' = rxs
        BY <1>told, <2>2, ZenonT(30)
      <3> QED  BY <3>4, <3>5, Zenon DEF CallTold
    <2>6. CallTold(c)'
      BY <2>2, <2>4, Zenon DEF CallTold
    <2>7. ASSUME NEW u \in Tasks \ {t} PROVE TaskTold(u)'
      <3>1. TaskTold(u) /\ pc'[u] = pc[u] /\ mode'[u] = mode[u]
        BY <1>told, <2>2, Zenon
      <3> QED  BY <2>2, <3>1, Zenon DEF TaskTold, IsServer
    <2>8. TaskTold(t)'
      BY <2>2, <2>4, Zenon DEF TaskTold
    <2> QED  BY <2>3, <2>5, <2>6, <2>7, <2>8, Zenon DEF ToldInv
  <1>serve. ASSUME NEW t \in Tasks, server_serve(t) PROVE ToldInv'
    <2>1. /\ pc[t] = "serve" /\ Frame(t) /\ pc'[t] = "serving"
          /\ UNCHANGED <<signal, told>>
          /\ rxs' = rxs \cup {<<t, x>> : x \in Proxies}
          /\ unseen' = unseen \cup IF <<t, "main">> \in unseen THEN {<<t, x>> : x \in Proxies} ELSE {}
          /\ half' = [half EXCEPT ![t] = [x \in Proxies |-> "binding"]]
      BY <1>serve, Zenon DEF server_serve, EngineTypeOK, Frame, Goto
    <2>2. UnseenTold'
      <3>1. UnseenTold /\ told' = told /\ signal' = signal
        BY <1>told, <2>1, Zenon
      <3>2. unseen' = unseen \cup IF <<t, "main">> \in unseen THEN {<<t, x>> : x \in Proxies} ELSE {}
        BY <2>1, Zenon
      <3> QED  BY <3>1, <3>2 DEF UnseenTold
    <2>3. ASSUME NEW c \in Callers PROVE CallTold(c)'
      <3>1. pc'[c] = pc[c] /\ pending'[c] = pending[c] /\ job' = job /\ mode' = mode
        BY <2>1 DEF Frame
      <3>2. Unsubscribed(c)' => Unsubscribed(c)
        BY <3>1, Zenon DEF Unsubscribed, IsServer
      <3>3. Unsubscribed(c) => job[c] # t
        BY <1>unsub, <2>1
      <3>4. \A r \in rxs' : r \in rxs \/ r[1] = t
        BY <2>1
      <3> QED  BY <1>told, <3>1, <3>2, <3>3, <3>4 DEF CallTold
    <2>4. ASSUME NEW u \in Tasks \ {t} PROVE TaskTold(u)'
      <3>1. /\ pc'[u] = pc[u] /\ pending'[u] = pending[u] /\ mode' = mode
            /\ half'[u] = half[u] /\ TaskTold(u)
        BY <1>told, <2>1, Zenon DEF Frame, EngineTypeOK
      <3>2. \A x : <<u, x>> \in rxs' => <<u, x>> \in rxs
        BY <2>1, ZenonT(30)
      <3> QED  BY <2>1, <3>1, <3>2, Zenon DEF TaskTold, IsServer
    <2>5. TaskTold(t)'
      <3>1. mode' = mode /\ TaskTold(t) /\ \A x \in Proxies : half'[t][x] = "binding"
        BY <1>told, <2>1 DEF Frame, EngineTypeOK
      <3> QED  BY <2>1, <3>1, Zenon DEF TaskTold, IsServer
    <2> QED  BY <2>2, <2>3, <2>4, <2>5, Zenon DEF ToldInv
  <1>server_announce. ASSUME NEW t \in Tasks, server_announce(t) PROVE ToldInv'
    <2>0. ReadsTo(t, "announce", Event("ProxyConnected", None), "serve", "serve") /\ IsServer(t)
      BY <1>server_announce, ReadMoves DEF server_announce
    <2>1. /\ Frame(t) /\ UNCHANGED <<channelVars, half>>
          /\ pc'[t] \in {"serve", "writing"}
      BY <2>0, Zenon DEF ReadsTo
    <2> QED  BY <2>0, <2>1, ToldMove, Zenon
  <1>client_announce. ASSUME NEW t \in Tasks, client_announce(t) PROVE ToldInv'
    <2>0. ReadsTo(t, "announce", Event("ProxyConnected", None), "select", "select")
      BY <1>client_announce, ReadMoves DEF client_announce
    <2>1. /\ Frame(t) /\ UNCHANGED <<channelVars, half>>
          /\ pc'[t] # "select" => pc'[t] = "writing" /\ pending'[t].then = "select"
      BY <2>0, Zenon DEF ReadsTo
    <2> QED  BY <2>1, ToldMove
  <1>fatal. ASSUME NEW t \in Tasks, client_fatal(t) PROVE ToldInv'
    <2>0. ReadsTo(t, "fatal", Event("FatalError", "TunOpenFailed"), "finish", "finish")
      BY <1>fatal, ReadMoves DEF client_fatal
    <2>1. /\ Frame(t) /\ UNCHANGED <<channelVars, half>>
          /\ pc'[t] # "finish" => pc'[t] = "writing" /\ pending'[t].then = "finish"
      BY <2>0 DEF ReadsTo
    <2> QED  BY <2>1, ToldMove
  <1>ending. ASSUME NEW t \in Tasks, task_ending(t) PROVE ToldInv'
    <2>0. ReadsTo(t, "ending", Event("EngineStopped", None), "finish", "finish")
      BY <1>ending, ReadMoves DEF task_ending
    <2>1. /\ Frame(t) /\ UNCHANGED <<channelVars, half>>
          /\ pc'[t] # "finish" => pc'[t] = "writing" /\ pending'[t].then = "finish"
      BY <2>0 DEF ReadsTo
    <2> QED  BY <2>1, ToldMove
  <1>task_dispatch. ASSUME NEW t \in Tasks, dispatching(t) PROVE ToldInv'
    <2>1. /\ Frame(t) /\ UNCHANGED <<channelVars, half>>
          /\ \/ pc[t] = "writing" /\ pc'[t] = "telling" /\ pending'[t] = pending[t]
             \/ pc[t] = "telling" /\ pc'[t] = pending[t].then
      BY <1>task_dispatch, DispatchMoves, Zenon
    <2>2. TaskFits(t) /\ TaskTold(t)
      BY <1>told DEF PendingFits
    <2>3. /\ pc'[t] \notin {"ready", "reserved", "ending"}
          /\ \/ pc'[t] \in {"serve", "serving"}
             \/ pc'[t] \in {"writing", "telling"} /\ pending'[t].then = "serve"
             => IsServer(t)
      BY <2>1, <2>2 DEF TaskFits, TaskTold
    <2> QED  BY <2>1, <2>3, ToldMove
  <1>join. ASSUME NEW t \in Tasks, server_join(t) PROVE ToldInv'
    <2>1. /\ Frame(t) /\ UNCHANGED <<channelVars, half>> /\ pc[t] = "serving" /\ pc'[t] = "ending"
      BY <1>join DEF server_join, EngineTypeOK, Frame, taskVars, Goto
    <2>2. TaskTold(t)'
      BY <1>told, <2>1, Zenon DEF TaskTold, IsServer, Frame, channelVars
    <2>3. UnseenTold'
      BY <1>told, <2>1 DEF UnseenTold, channelVars
    <2> QED  BY <2>1, <2>2, <2>3, ToldFrame, Zenon DEF channelVars
  <1>open. ASSUME NEW t \in Tasks, client_open(t) PROVE ToldInv'
    <2>1. /\ Frame(t) /\ UNCHANGED <<channelVars, half>> /\ pc'[t] \in {"announce", "fatal"}
      BY <1>open, Zenon DEF client_open, EngineTypeOK, Frame, taskVars, Goto
    <2> QED  BY <2>1, ToldMove, Zenon
  <1>select. ASSUME NEW t \in Tasks, client_select(t) PROVE ToldInv'
    <2>1. /\ Frame(t) /\ UNCHANGED <<channelVars, half>> /\ pc'[t] = "looping"
      BY <1>select, Zenon DEF client_select, EngineTypeOK, Frame, Goto
    <2> QED  BY <2>1, ToldMove, Zenon
  <1>changed. ASSUME NEW t \in Tasks, client_changed(t) PROVE ToldInv'
    <2>1. /\ Frame(t) /\ UNCHANGED <<half, signal, rxs, told>>
          /\ pc[t] \in {"select", "looping"} /\ pc'[t] = "ending"
          /\ <<t, "main">> \in unseen /\ unseen' \subseteq unseen
      BY <1>changed, Zenon DEF client_changed, EngineTypeOK, Frame, taskVars, Goto
    <2>2. UnseenTold'
      BY <1>told, <2>1, ZenonT(30) DEF UnseenTold
    <2>3. <<t, signal>> \in told /\ signal \in BOOLEAN
      BY <1>told, <2>1, Zenon DEF UnseenTold, EngineTypeOK
    <2>4. TaskTold(t)'
      BY <1>told, <2>1, <2>3, Zenon DEF TaskTold, IsServer, Frame
    <2> QED  BY <2>1, <2>2, <2>4, ToldFrame, Zenon
  <1>finish. ASSUME NEW t \in Tasks, task_finish(t) PROVE ToldInv'
    <2>1. /\ Frame(t) /\ UNCHANGED <<half, signal, told>>
          /\ pc'[t] = "done" /\ rxs' \subseteq rxs /\ unseen' \subseteq unseen
      BY <1>finish, Zenon DEF task_finish, Drop, EngineTypeOK, Frame, taskVars, Goto
    <2>2. UnseenTold'
      BY <1>told, <2>1 DEF UnseenTold
    <2>3. TaskTold(t)'
      BY <1>told, <2>1, Zenon DEF TaskTold
    <2> QED  BY <2>1, <2>2, <2>3, ToldFrame, Zenon
  <1>reader. ASSUME NEW t \in Tasks, reader_fails(t) PROVE ToldInv'
    <2>1. UNCHANGED <<pc, pending, mode, job, half, signal, rxs, unseen, told>>
      BY <1>reader DEF reader_fails, sessionVars, channelVars
    <2> QED  BY <2>1, ToldStutter
  <1>bind. ASSUME NEW t \in Tasks, NEW x \in Proxies, run_bind(t, x) PROVE ToldInv'
    <2>1. PICK v \in {"serving", "failed"} :
            /\ half[t][x] = "binding"
            /\ half' = [half EXCEPT ![t][x] = v]
            /\ UNCHANGED <<pc, pending, mode, job, signal, told>>
            /\ rxs' \subseteq rxs /\ unseen' \subseteq unseen
      BY <1>bind DEF run_bind, Drop, sessionVars, channelVars
    <2>2. /\ \A u \in Tasks \ {t} : half'[u] = half[u]
          /\ \A y \in Proxies \ {x} : half'[t][y] = half[t][y]
          /\ half'[t][x] = v
      BY <2>1, Zenon DEF EngineTypeOK
    <2>3. UnseenTold'
      BY <1>told, <2>1 DEF UnseenTold
    <2>4. TaskTold(t)'
      <3>1. TaskTold(t) /\ pc[t] \notin {"ready", "reserved"}
        BY <1>told, <2>1, Zenon DEF TaskTold
      <3>2. \A y \in Proxies : half'[t][y] = "ended" => half[t][y] = "ended"
        BY <2>2
      <3> QED  BY <2>1, <3>1, <3>2, Zenon DEF TaskTold, IsServer
    <2>5. Frame(t)
      BY <2>1 DEF Frame
    <2> QED  BY <2>1, <2>2, <2>3, <2>4, <2>5, ToldFrame
  <1>signalled. ASSUME NEW t \in Tasks, NEW x \in Proxies, run_changed(t, x) PROVE ToldInv'
    <2>1. /\ half[t][x] = "serving" /\ <<t, x>> \in unseen
          /\ \/ signal /\ half' = [half EXCEPT ![t][x] = "ended"]
             \/ half' = half
          /\ UNCHANGED <<pc, pending, mode, job, signal, told>>
          /\ rxs' \subseteq rxs /\ unseen' \subseteq unseen
      BY <1>signalled, Zenon DEF run_changed, Drop, sessionVars, channelVars
    <2>2. /\ \A u \in Tasks \ {t} : half'[u] = half[u]
          /\ \A y \in Proxies \ {x} : half'[t][y] = half[t][y]
          /\ half'[t][x] # half[t][x] => signal /\ half'[t][x] = "ended"
      <3>1. CASE half' = half
        BY <3>1, Zenon
      <3>2. CASE signal /\ half' = [half EXCEPT ![t][x] = "ended"]
        BY <3>2, Zenon DEF EngineTypeOK
      <3> QED  BY <2>1, <3>1, <3>2
    <2>3. UnseenTold'
      BY <1>told, <2>1 DEF UnseenTold
    <2>4. signal => <<t, TRUE>> \in told
      <3>1. <<t, signal>> \in told
        BY <1>told, <2>1, Zenon DEF UnseenTold
      <3>2. signal => signal = TRUE
        BY DEF EngineTypeOK
      <3> QED  BY <3>1, <3>2, Zenon
    <2>5. TaskTold(t)'
      <3>1. TaskTold(t) /\ pc[t] \notin {"ready", "reserved"}
        BY <1>told, <2>1, Zenon DEF TaskTold
      <3>2. \A y \in Proxies : half'[t][y] = "ended" => half[t][y] = "ended" \/ <<t, TRUE>> \in told
        BY <2>2, <2>4
      <3> QED  BY <2>1, <3>1, <3>2, Zenon DEF TaskTold, IsServer
    <2>6. Frame(t)
      BY <2>1 DEF Frame
    <2> QED  BY <2>1, <2>2, <2>3, <2>5, <2>6, ToldFrame
  <1>stutter. ASSUME UNCHANGED engineVars PROVE ToldInv'
    <2>1. UNCHANGED <<pc, pending, mode, job, half, signal, rxs, unseen, told>>
      BY <1>stutter DEF engineVars, sessionVars
    <2> QED  BY <2>1, ToldStutter
  <1>call. ASSUME NEW c \in Callers, CallStep(c) PROVE ToldInv'
    BY <1>call, <1>force, <1>unsignal, <1>user_start, <1>subscribe, <1>engine_ready, <1>spawn,
       <1>abort, <1>signal, <1>call_dispatch DEF CallStep
  <1>task. ASSUME NEW t \in Tasks, TaskStep(t) PROVE ToldInv'
    BY <1>task, <1>server_announce, <1>serve, <1>join, <1>bind, <1>signalled, <1>open,
       <1>fatal, <1>client_announce, <1>select, <1>changed, <1>ending, <1>finish,
       <1>task_dispatch DEF TaskStep
  <1>environment. ASSUME Environment PROVE ToldInv'
    BY <1>environment, <1>start, <1>stop, <1>shutdown, <1>reader DEF Environment
  <1> QED  BY <1>call, <1>task, <1>environment, <1>stutter DEF EngineNext

LEMMA EngineInvariant == EngineSpec => [](EngineInv /\ ToldInv)
  BY EngineInitInv, EngineStepInv, ToldInitInv, ToldStepInv, PTL DEF EngineSpec

\* The engine is type correct, and however the calls and the tasks of any number
\* of callers and sessions interleave, a session in Preparing has a start call
\* that is going to move it on (runner.rs:81-130).
THEOREM EngineCorrect == EngineSpec => [](EngineTypeOK /\ PreparingHasStarter)
  <1>1. EngineInv => EngineTypeOK /\ PreparingHasStarter
    BY DEF EngineInv
  <1> QED  BY <1>1, EngineInvariant, PTL

\* A session in Connecting has a call that is going to spawn its task or a task
\* that is going to announce itself or its failure (runner.rs:103-171).
THEOREM ConnectingMovesOn == EngineSpec => []ConnectingHasDriver
  <1>1. EngineInv => ConnectingHasDriver
    BY DEF EngineInv
  <1> QED  BY <1>1, EngineInvariant, PTL

\* No task of any session ends by itself: not for the signal an earlier session
\* left in the channel, nor for one that was sent before it subscribed
\* (runner.rs:91, 110-112, 134, 178).
THEOREM EndsWhenTold == EngineSpec => []EndsOnlyWhenTold
  <1>1. ToldInv => EndsOnlyWhenTold
    BY Zenon DEF ToldInv, TaskTold, EndsOnlyWhenTold
  <1> QED  BY <1>1, EngineInvariant, PTL
================================================================================
