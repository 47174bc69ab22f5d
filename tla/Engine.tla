--------------------------------- MODULE Engine ---------------------------------
(***************************************************************************)
(* The engine's lifecycle (gravital-engine/src/runner.rs): the calls that  *)
(* Kotlin threads make through JNI (start_server, start_client, stop,      *)
(* shutdown) and the tokio tasks that the starts spawn, all of which       *)
(* dispatch events to the one Session.                                     *)
(*                                                                         *)
(* A call runs on the thread of its caller, a task on a worker thread of   *)
(* the runtime.  Between any two of their steps other callers and tasks    *)
(* run.  A step of this module is one access to shared state: the session, *)
(* the shutdown channel, a port or the set of running loops.               *)
(*                                                                         *)
(* The shutdown channel is a tokio watch channel (external).  It holds one *)
(* value; send stores a value and makes it unseen for every receiver, and  *)
(* fails without storing anything when there is no receiver; a new         *)
(* receiver has seen the value it finds; a clone has seen what its origin  *)
(* has.                                                                    *)
(***************************************************************************)
EXTENDS Session

CONSTANTS Callers,  \* Kotlin threads that call the engine
          Tasks,    \* the tasks that may be spawned; each start takes one
          Calls,    \* the calls made: subset of {"server", "client", "stop", "shutdown"}
          Faults    \* what may go wrong outside: subset of {"bind", "open", "read"}

NoTask == "no task"

ASSUME ProcsAssumption ==
    /\ Procs = Callers \cup Tasks
    /\ Callers \cap Tasks = {}
    /\ NoTask \notin Tasks

ASSUME TunOpenFailedAssumption == "TunOpenFailed" \in FailureKinds

VARIABLES mode,     \* the mode a task was started in
          job,      \* the task that a start call is going to spawn
          signal,   \* the value in the shutdown channel
          rxs,      \* the live receivers of the channel: <<task, part>>
          unseen,   \* the receivers whose changed() would return now
          half,     \* the two proxies of a server task
          loops,    \* the data-plane tasks running: <<task, "reader" or "poller">>
          told      \* history: tasks sent something since they subscribed
                    \*   (<<t, TRUE>>: a stop; <<t, FALSE>>: the reset of a later start)

channelVars == <<signal, rxs, unseen, told>>
taskVars == <<mode, half, loops>>
engineVars == <<sessionVars, mode, job, signal, rxs, unseen, half, loops, told>>

Proxies == {"socks", "http"}

Goto(p, label) == pc' = [pc EXCEPT ![p] = label]

(***************************************************************************)
(* The shutdown channel.                                                   *)
(***************************************************************************)
send(v) ==
    /\ signal' = IF rxs = {} THEN signal ELSE v
    /\ unseen' = rxs
    /\ told' = told \cup {<<r[1], v>> : r \in rxs}
    /\ UNCHANGED rxs

subscribe(t) ==
    /\ rxs' = rxs \cup {<<t, "main">>}
    /\ told' = {r \in told : r[1] # t}
    /\ UNCHANGED <<signal, unseen>>

Drop(R) ==
    /\ rxs' = rxs \ R
    /\ unseen' = unseen \ R
    /\ UNCHANGED <<signal, told>>

(***************************************************************************)
(* start_server and start_client.                                          *)
(***************************************************************************)
Free(c) == pc[c] \in {"ready", "err"}

\* The call reads the state to see whether an earlier session must be reset.
start(c, m, t) ==
    /\ m \in Calls /\ Free(c) /\ pc[t] = "ready"
    /\ pc' = [pc EXCEPT ![c] = IF state = Idle THEN "user_start" ELSE "force",
                        ![t] = "reserved"]
    /\ mode' = [mode EXCEPT ![t] = IF m = "server" THEN "Server" ELSE "Client"]
    /\ job' = [job EXCEPT ![c] = t]
    /\ UNCHANGED <<state, pending, heard, half, loops, channelVars>>

start_force(c) ==
    /\ pc[c] = "force"
    /\ force_idle
    /\ Goto(c, "unsignal")
    /\ UNCHANGED <<pending, heard, job, channelVars, taskVars>>

start_unsignal(c) ==
    /\ pc[c] = "unsignal"
    /\ send(FALSE)
    /\ Goto(c, "user_start")
    /\ UNCHANGED <<state, pending, heard, job, taskVars>>

IsServer(t) == mode[t] = "Server"

\* start_server subscribes before it dispatches EngineReady, start_client after.
start_user_start(c) ==
    /\ pc[c] = "user_start"
    /\ DispatchRead(c, "user_start", Event("UserStart", mode[job[c]]),
                    IF IsServer(job[c]) THEN "subscribe" ELSE "engine_ready", "abort")
    /\ UNCHANGED <<job, channelVars, taskVars>>

start_engine_ready(c) ==
    /\ pc[c] = "engine_ready"
    /\ DispatchRead(c, "engine_ready", Event("EngineReady", None),
                    IF IsServer(job[c]) THEN "spawn" ELSE "subscribe", "abort")
    /\ UNCHANGED <<job, channelVars, taskVars>>

\* Mutant of start_subscribe: start_server forgets to dispatch EngineReady.
start_subscribe_unready(c) ==
    /\ pc[c] = "subscribe"
    /\ subscribe(job[c])
    /\ Goto(c, "spawn")
    /\ UNCHANGED <<state, pending, heard, job, taskVars>>

start_subscribe(c) ==
    /\ pc[c] = "subscribe"
    /\ subscribe(job[c])
    /\ Goto(c, IF IsServer(job[c]) THEN "engine_ready" ELSE "spawn")
    /\ UNCHANGED <<state, pending, heard, job, taskVars>>

\* Mutant of start_spawn: the task of a server does not announce itself.
start_spawn_unannounced(c) ==
    /\ pc[c] = "spawn"
    /\ pc' = [pc EXCEPT ![c] = "ready",
                        ![job[c]] = IF IsServer(job[c]) THEN "serve" ELSE "open"]
    /\ job' = [job EXCEPT ![c] = NoTask]
    /\ UNCHANGED <<state, pending, heard, channelVars, taskVars>>

start_spawn(c) ==
    /\ pc[c] = "spawn"
    /\ pc' = [pc EXCEPT ![c] = "ready",
                        ![job[c]] = IF IsServer(job[c]) THEN "announce" ELSE "open"]
    /\ job' = [job EXCEPT ![c] = NoTask]
    /\ UNCHANGED <<state, pending, heard, channelVars, taskVars>>

\* An event was refused: the call returns the error and drops its receiver.
start_abort(c) ==
    /\ pc[c] = "abort"
    /\ Drop({<<job[c], "main">>})
    /\ pc' = [pc EXCEPT ![c] = "err", ![job[c]] = "ready"]
    /\ job' = [job EXCEPT ![c] = NoTask]
    /\ UNCHANGED <<state, pending, heard, taskVars>>

(***************************************************************************)
(* stop and shutdown.                                                      *)
(***************************************************************************)
stop(c) ==
    /\ "stop" \in Calls /\ Free(c)
    /\ DispatchRead(c, pc[c], Event("UserStop", None), "stop_signal", "err")
    /\ UNCHANGED <<job, channelVars, taskVars>>

stop_signal(c) ==
    /\ pc[c] = "stop_signal"
    /\ send(TRUE)
    /\ Goto(c, "ready")
    /\ UNCHANGED <<state, pending, heard, job, taskVars>>

shutdown(c) ==
    /\ "shutdown" \in Calls /\ Free(c)
    /\ send(TRUE)
    /\ Goto(c, "ready")
    /\ UNCHANGED <<state, pending, heard, job, taskVars>>

(***************************************************************************)
(* The task of a server: it announces itself as connected, then runs the   *)
(* SOCKS and the HTTP proxy side by side until both have ended.            *)
(***************************************************************************)
server_announce(t) ==
    /\ IsServer(t)
    /\ DispatchRead(t, "announce", Event("ProxyConnected", None), "serve", "serve")
    /\ UNCHANGED <<job, channelVars, taskVars>>

\* Mutant of server_serve: the proxies have not seen the value they start with.
server_serve_unseen(t) ==
    /\ pc[t] = "serve"
    /\ rxs' = rxs \cup {<<t, x>> : x \in Proxies}
    /\ unseen' = unseen \cup {<<t, x>> : x \in Proxies}
    /\ half' = [half EXCEPT ![t] = [x \in Proxies |-> "binding"]]
    /\ Goto(t, "serving")
    /\ UNCHANGED <<state, pending, heard, job, mode, loops, signal, told>>

server_serve(t) ==
    LET clones == {<<t, x>> : x \in Proxies} IN
    /\ pc[t] = "serve"
    /\ rxs' = rxs \cup clones
    /\ unseen' = unseen \cup IF <<t, "main">> \in unseen THEN clones ELSE {}
    /\ half' = [half EXCEPT ![t] = [x \in Proxies |-> "binding"]]
    /\ Goto(t, "serving")
    /\ UNCHANGED <<state, pending, heard, job, mode, loops, signal, told>>

PortTaken(t, x) == \E u \in Tasks \ {t} : half[u][x] = "serving"

\* TcpListener::bind succeeds, or fails because a task still listens there or
\* for a reason outside the engine.  A proxy that cannot bind returns an error
\* that nobody looks at.
run_bind(t, x) ==
    /\ half[t][x] = "binding"
    /\ \/ /\ ~PortTaken(t, x)
          /\ half' = [half EXCEPT ![t][x] = "serving"]
          /\ UNCHANGED channelVars
       \/ /\ PortTaken(t, x) \/ "bind" \in Faults
          /\ half' = [half EXCEPT ![t][x] = "failed"]
          /\ Drop({<<t, x>>})
    /\ UNCHANGED <<sessionVars, mode, job, loops>>

\* Mutant of run_changed: the accept loop does not leave when it reads true.
run_changed_stays(t, x) ==
    /\ half[t][x] = "serving"
    /\ <<t, x>> \in unseen
    /\ unseen' = unseen \ {<<t, x>>}
    /\ UNCHANGED <<sessionVars, mode, job, loops, half, signal, rxs, told>>

\* The accept loop wakes up for a change of the signal and ends if it reads true.
run_changed(t, x) ==
    /\ half[t][x] = "serving"
    /\ <<t, x>> \in unseen
    /\ \/ /\ signal
          /\ half' = [half EXCEPT ![t][x] = "ended"]
          /\ Drop({<<t, x>>})
       \/ /\ ~signal
          /\ unseen' = unseen \ {<<t, x>>}
          /\ UNCHANGED <<half, signal, rxs, told>>
    /\ UNCHANGED <<sessionVars, mode, job, loops>>

server_join(t) ==
    /\ pc[t] = "serving"
    /\ \A x \in Proxies : half[t][x] \in {"ended", "failed"}
    /\ Goto(t, "ending")
    /\ UNCHANGED <<state, pending, heard, job, channelVars, taskVars>>

(***************************************************************************)
(* The task of a client: it opens the TUN device and the stack, announces  *)
(* itself as connected, and runs the client loop until the signal changes. *)
(***************************************************************************)
\* Mutant of client_open: a failure to open is not reported.
client_open_silent(t) ==
    /\ pc[t] = "open"
    /\ \/ Goto(t, "announce")
       \/ "open" \in Faults /\ Goto(t, "finish")
    /\ UNCHANGED <<state, pending, heard, job, channelVars, taskVars>>

client_open(t) ==
    /\ pc[t] = "open"
    /\ \/ Goto(t, "announce")
       \/ "open" \in Faults /\ Goto(t, "fatal")
    /\ UNCHANGED <<state, pending, heard, job, channelVars, taskVars>>

client_fatal(t) ==
    /\ DispatchRead(t, "fatal", Event("FatalError", "TunOpenFailed"), "finish", "finish")
    /\ UNCHANGED <<job, channelVars, taskVars>>

client_announce(t) ==
    /\ ~IsServer(t)
    /\ DispatchRead(t, "announce", Event("ProxyConnected", None), "select", "select")
    /\ UNCHANGED <<job, channelVars, taskVars>>

\* The first poll of select! tries its two branches in a random order, so a
\* signal that is already there may end the task before its loops are spawned.
client_select(t) ==
    /\ pc[t] = "select"
    /\ Goto(t, "looping")
    /\ loops' = loops \cup {<<t, "reader">>, <<t, "poller">>}
    /\ UNCHANGED <<state, pending, heard, job, mode, half, channelVars>>

\* Mutant of client_changed: only a change to true ends the task.
client_changed_if_true(t) ==
    /\ pc[t] \in {"select", "looping"}
    /\ <<t, "main">> \in unseen
    /\ unseen' = unseen \ {<<t, "main">>}
    /\ Goto(t, IF signal THEN "ending" ELSE pc[t])
    /\ UNCHANGED <<state, pending, heard, job, signal, rxs, told, taskVars>>

\* Any change ends the task, whatever its value.  The future of the client loop
\* is dropped; the two tasks it spawned are detached and go on.
client_changed(t) ==
    /\ pc[t] \in {"select", "looping"}
    /\ <<t, "main">> \in unseen
    /\ unseen' = unseen \ {<<t, "main">>}
    /\ Goto(t, "ending")
    /\ UNCHANGED <<state, pending, heard, job, signal, rxs, told, taskVars>>

\* The read loop gives up at the first error; the poll loop never ends.
reader_fails(t) ==
    /\ "read" \in Faults
    /\ <<t, "reader">> \in loops
    /\ loops' = loops \ {<<t, "reader">>}
    /\ UNCHANGED <<sessionVars, mode, job, half, channelVars>>

(***************************************************************************)
(* The end of a task of either kind.                                       *)
(***************************************************************************)
\* Mutant of task_ending: the session is reset without telling the listeners.
task_ending_forced(t) ==
    /\ pc[t] = "ending"
    /\ force_idle
    /\ Goto(t, "finish")
    /\ UNCHANGED <<pending, heard, job, channelVars, taskVars>>

\* Mutant of task_ending: the session is not told.
task_ending_silent(t) ==
    /\ pc[t] = "ending"
    /\ Goto(t, "finish")
    /\ UNCHANGED <<state, pending, heard, job, channelVars, taskVars>>

task_ending(t) ==
    /\ DispatchRead(t, "ending", Event("EngineStopped", None), "finish", "finish")
    /\ UNCHANGED <<job, channelVars, taskVars>>

task_finish(t) ==
    /\ pc[t] = "finish"
    /\ Drop({<<t, "main">>})
    /\ Goto(t, "done")
    /\ UNCHANGED <<state, pending, heard, job, taskVars>>
--------------------------------------------------------------------------------
EngineInit ==
    /\ SessionInit
    /\ mode = [t \in Tasks |-> "Client"]
    /\ job = [c \in Callers |-> NoTask]
    /\ signal = FALSE
    /\ rxs = {}
    /\ unseen = {}
    /\ half = [t \in Tasks |-> [x \in Proxies |-> "none"]]
    /\ loops = {}
    /\ told = {}

\* The steps of a dispatch that is under way.
dispatching(p) == DispatchStep(p) /\ UNCHANGED <<job, channelVars, taskVars>>

\* What a call does by itself once it was made.
CallStep(c) ==
    \/ start_force(c) \/ start_unsignal(c) \/ start_user_start(c) \/ start_subscribe(c)
    \/ start_engine_ready(c) \/ start_spawn(c) \/ start_abort(c) \/ stop_signal(c)
    \/ dispatching(c)

\* What a task does by itself.
TaskStep(t) ==
    \/ server_announce(t) \/ server_serve(t) \/ server_join(t)
    \/ \E x \in Proxies : run_bind(t, x) \/ run_changed(t, x)
    \/ client_open(t) \/ client_fatal(t) \/ client_announce(t) \/ client_select(t)
    \/ client_changed(t) \/ task_ending(t) \/ task_finish(t) \/ dispatching(t)

\* What users and the device do.
Environment ==
    \/ \E c \in Callers : \/ \E m \in {"server", "client"}, t \in Tasks : start(c, m, t)
                          \/ stop(c) \/ shutdown(c)
    \/ \E t \in Tasks : reader_fails(t)

EngineNext ==
    \/ Environment
    \/ \E c \in Callers : CallStep(c)
    \/ \E t \in Tasks : TaskStep(t)

EngineSpec == EngineInit /\ [][EngineNext]_engineVars

\* A call that was made runs to its end and a task that can move is scheduled.
\* Users need not call anything.  The two accept loops of a server are polled
\* by one task, so each gets its turn.
FairEngineSpec ==
    /\ EngineSpec
    /\ \A c \in Callers : WF_engineVars(CallStep(c))
    /\ \A t \in Tasks : WF_engineVars(TaskStep(t))
--------------------------------------------------------------------------------
Labels == {"ready", "err", "writing", "telling", "force", "unsignal", "user_start",
           "subscribe", "engine_ready", "spawn", "abort", "stop_signal", "reserved",
           "announce", "serve", "serving", "open", "fatal", "select", "looping", "ending",
           "finish", "done"}

Halves == {"none", "binding", "serving", "failed", "ended"}

\* Where a dispatch may go on.
Nexts == {"none", "subscribe", "engine_ready", "spawn", "stop_signal", "serve", "select",
          "finish"}

EngineTypeOK ==
    /\ state \in States
    /\ heard \in States
    /\ pc \in [Procs -> Labels]
    /\ pending \in [Procs -> [next : States, then : Nexts]]
    /\ mode \in [Tasks -> Modes]
    /\ job \in [Callers -> Tasks \cup {NoTask}]
    /\ signal \in BOOLEAN
    /\ rxs \subseteq Tasks \X (Proxies \cup {"main"})
    /\ unseen \subseteq rxs
    /\ half \in [Tasks -> [Proxies -> Halves]]
    /\ loops \subseteq Tasks \X {"reader", "poller"}
    /\ told \subseteq Tasks \X BOOLEAN

\* p has read the state and is about to store one with this tag, or has stored
\* it and is about to tell the listeners.
Writing(p, tag) == pc[p] = "writing" /\ pending[p].next.tag = tag
Telling(p, tag) == pc[p] = "telling" /\ pending[p].next.tag = tag

\* The start call c has still to dispatch EngineReady, or is about to store its
\* outcome.
WillReady(c) ==
    \/ Telling(c, "Preparing") \/ Writing(c, "Connecting")
    \/ pc[c] = "engine_ready"
    \/ pc[c] = "subscribe" /\ IsServer(job[c])

\* The start call c is about to spawn its task.
WillSpawn(c) ==
    \/ Telling(c, "Connecting")
    \/ pc[c] = "spawn"
    \/ pc[c] = "subscribe" /\ ~IsServer(job[c])

\* The task t has still to announce itself or its failure, or is about to store
\* the outcome.
WillAnnounce(t) ==
    \/ pc[t] \in {"open", "fatal", "announce"}
    \/ Writing(t, "Connected") \/ Writing(t, "Failed")

\* However starts, stops and tasks interleave, a session is never left in
\* Preparing: some start call is going to move it on (runner.rs:88-103, 129-130).
PreparingHasStarter ==
    state.tag = "Preparing" => \E c \in Callers : WillReady(c)

\* A session is never left in Connecting: a start call or a task is going to move
\* it on (runner.rs:103-107, 130-171).
ConnectingHasDriver ==
    state.tag = "Connecting" =>
        (\E c \in Callers : WillSpawn(c)) \/ (\E t \in Tasks : WillAnnounce(t))

\* Nothing ends by itself: a proxy leaves its accept loop only for a stop or a
\* shutdown made after its start, although the value of an earlier stop may
\* still be in the channel when it subscribes; a client task ends only for a
\* signal sent after its start (runner.rs:91, 110-112, 134, 178).
EndsOnlyWhenTold ==
    \A t \in Tasks :
        /\ \A x \in Proxies : half[t][x] = "ended" => <<t, TRUE>> \in told
        /\ pc[t] = "ending" /\ ~IsServer(t) => \E v \in BOOLEAN : <<t, v>> \in told

\* A stop reaches every client task it was meant for, even when a restart
\* overwrites the signal before the task has looked at it (runner.rs:178).
ClientStops ==
    \A t \in Tasks : (<<t, TRUE>> \in told /\ ~IsServer(t)) ~> pc[t] = "done"

\* A stop reaches a server task unless a later start takes the signal back
\* (socks server.rs:60-65, http server.rs:56-61).
ServerStopsIfSignalStays ==
    \A t \in Tasks : []((<<t, TRUE>> \in told /\ []signal) => <>(pc[t] = "done"))

\* Starting comes to an end: connected, failed, or refused.
StartSettles ==
    (state.tag \in {"Preparing", "Connecting"}) ~>
        (state.tag \notin {"Preparing", "Connecting"})

\* The task t has still to dispatch EngineStopped.
WillEnd(t) ==
    \/ pc[t] \in {"open", "announce", "serve", "serving", "select", "looping", "ending"}
    \/ pc[t] \in {"writing", "telling"} /\ pending[t].then \in {"serve", "select"}

\* A session that is being stopped leaves Stopping as long as one task that the stop
\* reached has still to end, and no later start takes the signal back, whatever else
\* fails.  Without such a task nothing brings it out of Stopping but the next start:
\* a server whose proxies could both not bind has ended before the stop, and a second
\* stop may store Stopping when the task has already ended (runner.rs:110-114,
\* 174-181, 188-191).
StopCompletes ==
    []((/\ state.tag = "Stopping"
        /\ \E t \in Tasks : <<t, TRUE>> \in told /\ WillEnd(t)
        /\ []signal) => <>(state.tag # "Stopping"))

\* Only one task has ever been spawned: there was no restart.
FirstSession == \E t \in Tasks : \A u \in Tasks \ {t} : pc[u] = "ready"

Bound == \A t \in Tasks, x \in Proxies : half[t][x] # "failed"

\* In a session that is not restarted and whose proxies find their ports free, the
\* listeners do not stay behind: if they were told of states in another order than
\* the session took them, a later announcement makes up for it.  When no proxy can
\* bind they may: the task ends by itself while a stop has stored Stopping and not
\* announced it, and Idle is announced first (session.rs:133-137, runner.rs:50-57).
HeardCatchesUp == [](FirstSession /\ Bound) => []<>(heard = state)
================================================================================
