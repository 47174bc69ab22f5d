--------------------------------- MODULE Services ---------------------------------
(***************************************************************************)
(* The Android side above SessionManager: HomeViewModel with the buttons   *)
(* of HomeScreen, the search for a server (NetworkDiscovery), and the two  *)
(* foreground services, GravitalVpnService and GravitalServerService.      *)
(*                                                                         *)
(* What the screen shows of the session changes at any time, as module     *)
(* Manager does: here it is any of the cases the buttons tell apart.  A    *)
(* call of SessionManager launches a coroutine of that module and returns, *)
(* so here it is no more than the end of a step.                           *)
(***************************************************************************)
EXTENDS Integers, Sequences

CONSTANTS MaxIntents,  \* intents of one service that may be on their way at once
          ProbePorts   \* the ports findServer tries, in this order

VARIABLES shown,   \* HomeUiState.sessionState: Idle, a connected server, or any other
          search,  \* discoveryJob and _discovery
          home,    \* HomeScreen is composed, so it collects the events
          asked,   \* a RequestVpnPermission event is not answered yet
          svc      \* the services

serviceVars == <<shown, search, home, asked, svc>>

ASSUME MaxIntentsAssumption == MaxIntents \in Nat \ {0}

Cases == {"Idle", "Server", "Other"}
Names == {"vpn", "server"}

(***************************************************************************)
(* The services.  fg is the notification, jobs the coroutines of the       *)
(* service's scope that have not run, intents what onStartCommand has not  *)
(* seen, dying that stopSelf was called.                                   *)
(***************************************************************************)
NewService == [fg |-> "none", jobs |-> {}, intents |-> <<>>, dying |-> FALSE]

sendIntent(s, action) ==
    /\ Len(svc[s].intents) < MaxIntents
    /\ svc' = [svc EXCEPT ![s].intents = Append(@, action)]

\* startVpn and startServer up to the launch.
Started(s, v) == [v EXCEPT !.jobs = @ \cup {"start"},
                           !.fg = IF s = "vpn" THEN "connecting" ELSE "active"]

\* stopVpn and stopServer.
Stopped(v) == [v EXCEPT !.jobs = @ \cup {"stop"}, !.fg = "none", !.dying = TRUE]

\* An intent that is queued when stopSelf is called still reaches this instance, or
\* the next one: what a start leaves in the scope of this one goes with it.
onStartCommand(s) ==
    /\ svc[s].intents # <<>>
    /\ LET v == [svc[s] EXCEPT !.intents = Tail(@)] IN
       svc' = [svc EXCEPT ![s] = IF Head(svc[s].intents) = "start" THEN Started(s, v)
                                 ELSE Stopped(v)]
    /\ UNCHANGED <<shown, search, home, asked>>

\* The coroutine of startVpn: establish may yield no tunnel (external), and then
\* the service gives up.  Otherwise SessionManager.startClient is called and the
\* notification says so, even when the service was stopped in the meantime.
startVpn ==
    /\ "start" \in svc["vpn"].jobs
    /\ LET v == [svc["vpn"] EXCEPT !.jobs = @ \ {"start"}] IN
       \E next \in {[v EXCEPT !.fg = "active"], [v EXCEPT !.dying = TRUE]} :
           svc' = [svc EXCEPT !["vpn"] = next]
    /\ UNCHANGED <<shown, search, home, asked>>

\* The coroutines that only call SessionManager.
job(s, action) ==
    /\ action \in svc[s].jobs
    /\ action = "start" => s = "server"
    /\ svc' = [svc EXCEPT ![s].jobs = @ \ {action}]
    /\ UNCHANGED <<shown, search, home, asked>>

\* The user takes the VPN permission back in the system's settings.
onRevoke ==
    /\ svc["vpn"].fg # "none" /\ ~svc["vpn"].dying
    /\ svc' = [svc EXCEPT !["vpn"] = Stopped(@)]
    /\ UNCHANGED <<shown, search, home, asked>>

\* The scope is cancelled with the coroutines that have not run; the system takes
\* the notification of a destroyed service away.
onDestroy(s) ==
    /\ svc[s].dying
    /\ svc' = [svc EXCEPT ![s] = [NewService EXCEPT !.intents = svc[s].intents]]
    /\ UNCHANGED <<shown, search, home, asked>>

(***************************************************************************)
(* The search.  job is how many ports the live coroutine has tried, or     *)
(* NoJob; says is what _discovery holds.                                   *)
(***************************************************************************)
NoJob == -1
NoSearch == [job |-> NoJob, says |-> "nothing"]
Searching == search.says = "discovering"

\* An event that nobody collects is lost.
emit == asked' = home

\* HomeScreen is in front, and not the system's dialog for the permission.
Front == home /\ ~asked

\* ModeCards and the retry of the error card; a search under way is cancelled.
startClientMode ==
    /\ Front
    /\ (shown = "Idle" /\ ~Searching) \/ search.says = "error"
    /\ search' = [job |-> 0, says |-> "discovering"]
    /\ UNCHANGED <<shown, home, asked, svc>>

\* Mutant of findServer: after the last port it begins again.
findServer_endless ==
    /\ search.job # NoJob
    /\ \/ search' = NoSearch /\ emit /\ search.job < Len(ProbePorts)
       \/ search' = [search EXCEPT !.job = IF @ < Len(ProbePorts) THEN @ + 1 ELSE 0] /\ UNCHANGED asked
    /\ UNCHANGED <<shown, home, svc>>

\* The rest of the coroutine.  Without a gateway nothing is tried; each port is
\* tried until one answers, and a probe that is silent times out.
findServer ==
    /\ search.job # NoJob
    /\ \/ /\ search.job < Len(ProbePorts)
          /\ search' = NoSearch
          /\ emit
       \/ /\ search.job < Len(ProbePorts)
          /\ search' = [search EXCEPT !.job = @ + 1]
          /\ UNCHANGED asked
       \/ /\ search.job \in {0, Len(ProbePorts)}
          /\ search' = [job |-> NoJob, says |-> "error"]
          /\ UNCHANGED asked
    /\ UNCHANGED <<shown, home, svc>>

\* Mutant of cancelDiscovery: the screen forgets the search, the coroutine goes on.
cancelDiscovery_detached ==
    /\ Front /\ Searching
    /\ search' = [search EXCEPT !.says = "nothing"]
    /\ UNCHANGED <<shown, home, asked, svc>>

cancelDiscovery ==
    /\ Front /\ Searching
    /\ search' = NoSearch
    /\ UNCHANGED <<shown, home, asked, svc>>

dismissDiscoveryError ==
    /\ Front /\ search.says = "error"
    /\ search' = [search EXCEPT !.says = "nothing"]
    /\ UNCHANGED <<shown, home, asked, svc>>

\* The scanner is opened from the error card; a code that is not host:port is ignored.
connectFromQr ==
    /\ Front /\ search.says = "error"
    /\ search' = [search EXCEPT !.says = "nothing"]
    /\ emit
    /\ UNCHANGED <<shown, home, svc>>
--------------------------------------------------------------------------------
\* The screen has the permission, or gets it (connectWithProxy), or the user
\* refuses it.
RequestVpnPermission ==
    /\ asked
    /\ asked' = FALSE
    /\ sendIntent("vpn", "start") \/ UNCHANGED svc
    /\ UNCHANGED <<shown, search, home>>

startServerMode ==
    /\ Front /\ shown = "Idle" /\ ~Searching
    /\ sendIntent("server", "start")
    /\ UNCHANGED <<shown, search, home, asked>>

\* HomeViewModel.stop: SessionManager.stop, and for a connected server its service
\* too.  In any other state it changes nothing here: the VPN service is not told.
stop ==
    /\ Front /\ ~Searching /\ shown = "Server"
    /\ sendIntent("server", "stop")
    /\ UNCHANGED <<shown, search, home, asked>>

\* The other screens of the navigation graph; leaving ends the collector.
navigate ==
    /\ ~asked
    /\ home' = ~home
    /\ UNCHANGED <<shown, search, asked, svc>>

\* SessionManager (module Manager) changes what is shown.
combine ==
    /\ shown' \in Cases \ {shown}
    /\ UNCHANGED <<search, home, asked, svc>>

ServiceInit ==
    /\ shown = "Idle" /\ search = NoSearch /\ home = TRUE /\ asked = FALSE
    /\ svc = [s \in Names |-> NewService]

User ==
    \/ startClientMode \/ cancelDiscovery \/ dismissDiscoveryError \/ connectFromQr
    \/ RequestVpnPermission \/ startServerMode \/ stop \/ navigate \/ onRevoke

Service(s) ==
    \/ onStartCommand(s) \/ onDestroy(s)
    \/ s = "vpn" /\ startVpn
    \/ \E action \in {"start", "stop"} : job(s, action)

ServiceNext == User \/ combine \/ findServer \/ \E s \in Names : Service(s)

ServiceSpec == ServiceInit /\ [][ServiceNext]_serviceVars

\* The main looper delivers intents in order and the dispatcher runs coroutines;
\* the user need not do anything.
FairServiceSpec ==
    /\ ServiceSpec
    /\ WF_serviceVars(findServer)
    /\ \A s \in Names :
        /\ WF_serviceVars(onStartCommand(s))
        /\ WF_serviceVars(onDestroy(s))
--------------------------------------------------------------------------------
\* A search ends by itself, found or not: every probe has a timeout and there are
\* finitely many (NetworkDiscovery.kt:26-31, 57-64).
SearchEnds == Searching ~> ~Searching

\* The VPN permission is asked for only by a search that the screen still shows, or by
\* a code scanned from its error card: a cancelled search does not ask later, however
\* far its probes had come (HomeViewModel.kt:64-83).
CancelledSearchIsSilent ==
    [][~asked /\ asked' => search.says # "nothing"]_serviceVars

================================================================================
