# Gravital Share: TLA+ models

Gravital Share lets one Android device share its connection with others. The
device that shares runs a SOCKS5 and an HTTP CONNECT proxy (*server*). A device
that uses it routes all its traffic into a TUN device, turns the packets back
into TCP streams in user space, and sends each stream through the SOCKS5 proxy
(*client*). The engine is a Rust library (`src/engine`), the app is Kotlin
(`src/android`); the two meet in a JNI bridge.

This directory holds models of the engine, the proxies, the data plane and the
app's control, the TLC runs that check them on small instances, and TLAPS proofs
of their safety properties for every instance. `PROJECT.json` is the index:
components, runs, what every definition models (`map`), hazards, findings, theorems.

## 1. The system and its parts

| Part | Where | State, and who touches it | Model |
|---|---|---|---|
| Session automaton | `gravital-engine/src/session.rs` | one state behind an RwLock; callers on Kotlin threads and tokio tasks | `SessionTable`, `Session`, `Lifecycle` |
| Engine lifecycle | `gravital-engine/src/runner.rs` | session, shutdown `watch` channel, spawned tasks | `Engine` |
| NAT table | `gravital-stack/src/nat.rs` | two hash maps and a cursor, under the stack's mutex | `NatTable`, `PortLease` |
| Userspace stack | `gravital-stack/src/{stack,device,rewrite}.rs` | queues, sockets, pending connections; read task, poll task | `Stack` |
| Connection and relay | `gravital-stack/src/connection.rs`, `runner.rs:354-413` | two bounded channels between the poll task and a relay task | `Relay` |
| Data-plane loops, DNS interception | `runner.rs:238-350`, `gravital-dns`, `gravital-tun` | the reader, one task per query, the poll task; a writer behind a mutex, counters | `Dataplane` |
| Parsers, rewriting, checksums | `gravital-proto`, `rewrite.rs`, `runner.rs:415-506` | pure functions | `Packets`, `Checksum` |
| SOCKS5 server and client, HTTP CONNECT proxy | `gravital-socks`, `gravital-http` | one task per client, two per tunnel | `Proxies` (accept loops also in `Engine`) |
| JNI bridge, SessionManager | `jni_android.rs`, `EngineBridge.kt`, `domain/SessionManager.kt` | a state flow written by several coroutines and a collector | `Manager` |
| Services, HomeViewModel, discovery | `service/`, `HomeViewModel.kt`, `NetworkDiscovery.kt`, `HomeScreen.kt` | coroutine scopes, foreground services, a search, events | `Services` |
| UDP gateway | `gravital-udpgw` | frames, identifiers; no other crate uses it | `UdpGw` (frames only) |
| Settings and diagnostics, C stubs, observability, theme | | a form, a list of lines, stubs, output | not modelled |

How they interact: the app calls `start_server`, `start_client` and `stop`. A
start moves the session along and spawns a task. A server task runs the two
accept loops until the shutdown channel tells them to stop. A client task opens
the TUN device and spawns a read task, which feeds packets to the stack, and a
poll task, which drives the stack, writes what it produces and hands new
connections to relay tasks. A relay opens a SOCKS tunnel and copies both ways.
Every transition of the session is announced to the app through a listener.
SessionManager turns calls and announcements into the state the app shows; the
services and the view model call it.

## 2. The modules

`X_proofs` holds the theorems about `X`; those about `NatTable` are in `Stack_proofs`,
those about `Checksum` and `Packets` in `Dataplane_proofs`, and the first half of the proof about
`Proxies` in `ProxyHandler_proofs`. `MC_X` is the module of X's runs; it
extends `X` and adds symmetry where it is sound. Definitions called `..._something`
and commented as *mutant* are deliberately wrong variants of the definition
that follows; no specification uses them. They serve to show that each checked
property can fail.

**`Lifecycle`** is the table of transitions of
`docs/02-architecture/05-session-state-machine.md`. One thing is wider: a fatal
error may come in any phase, as `session.rs:155` says.

**`Session`** models `dispatch` as the code does it: read the state (one lock),
compute, store (another lock), call the listeners. `pc[p]` says where process
`p` is, `pending[p]` what it is about to store and where it goes on, `heard` is
the last state the listeners were told. `transition` is the code's function,
without the attempt number, the peer and the error texts, which no
property depends on; it has a module of its own, **`SessionTable`**.

**`Engine`** extends `Session` with the calls and the tasks. Every access to
shared state is a step, so everything can happen in between. `start` and the
`start_*` actions stand for both `start_server` and `start_client`, which differ
in the order of `subscribe` and `EngineReady`; their `map` entries therefore span
both functions. `signal`, `rxs` and `unseen` are the watch channel: one value, a
set of live receivers, and those that have not seen the value. `half` is the
state of a server's two proxies, `loops` the detached tasks of clients. `told`
is a history variable: who was sent what since it subscribed. `Calls` and
`Faults` choose what the environment does in a run.
`start_client` with a negative descriptor returns before it touches anything
shared, and is left out.

**`PortLease`** is what the NAT table promises: leases of ports to flows.
**`NatTable`** is how it is kept: `forward`, `reverse`, and the circular scan,
whose loop is the first free element of `Scanned(0), Scanned(1), ...`.

**`Stack`** extends `NatTable`. The poll task is sequential, `phase` says where it
is: inbound packets, smoltcp, service of each socket, outbound rewriting,
writing, accepting. The steps of `poll` itself run under the mutex, so packets
are fed only outside it; relays may end at any time. A packet is its flow and
its flag. Sockets may retransmit, segments may be repeated or ignored. `full` says
that a socket's transmit buffer has no room, which `can_send` asks for: what a relay sent
may fill it at any service (`fill`), and an acknowledgement of the app empties it.

**`Relay`** is the data of one connection. `service_socket` has three stages, and
the relay works on the channels between them. Data are numbered units; a chunk
is a sequence of units, so losses, repetitions and reordering show.

**`Checksum`** is RFC 1071 on sums of words, **`Packets`** the packets: a length and
the fields the code looks at. Indexing past the length is a value, `Panic`, so that
the length checks are part of the model and can be wrong. Both are pure.

**`UdpGw`** is the frame of the UDP gateway: `encode` to octets and `decode` from what has
come of a stream, with the same `Panic`. It is pure as well, and has no run of
its own: `MC_Dataplane` extends it and assumes that two sample frames come back, which TLC
evaluates; the theorem is about all frames.

**`Dataplane`** has the tasks of `run_client_loop` around the TUN device: the reader
and what it does with each kind of packet (`fate`), a DNS task per query, and the
poll task's way out. `writer` is the mutex of the device, `metrics` the counters of
the code. `forward_raw` hands over any datagram of `Answers`: the code compares nothing of
it with the query. The stack is one flow here; `fed` keeps what `process_inbound` made of
the packets it took.

**`Proxies`** is one connection to a proxy: the accept loop, the SOCKS5 or the HTTP
handler, the two copies of `relay_bidirectional`, the UDP association, and the
peer, which is `SocksClient` with its retries or says anything. A connection is two
streams of tokens; addresses are octets, because the properties are about how many
octets each reader takes. A name has at most 255 of them, all ASCII and none a colon: on
these `from_utf8_lossy` is the identity, and the length fits its octet. A write of a copy does
not wait for room (`copy_write`): a reader that never reads would only hold its own tunnel up.
The engine itself calls `connect` only;
`connect_with_retry` is public and has no caller yet.

**`Manager`** is SessionManager over the engine; it extends `Engine`. A call is a coroutine
with its steps `Begin`, `CallEngine`, `Finish`; while it is inside the JNI call it is a caller
of the engine, whose steps interleave with everything else. The listener puts the
announcements in flight (`fire_jvm_event`), in whatever order they are then emitted, and the
collector is `collect` and `applyTransition`, which read and write the same state flow as the
coroutines. `boot` says whether there is an engine and whether it has the listener: when the
engine cannot be made as SessionManager registers, a later start may make one without.
`shutdown` is left out, as SessionManager does not call it.

**`Services`** is above SessionManager: the buttons of HomeScreen, the search, the
permission and the two services with their intents, notifications and scopes. What
the session shows is any value at any time (`combine`); conversely, `Manager` lets
calls come in any order. So the two modules are composed by each
allowing everything the other may do.

### What is external

smoltcp, tokio's channels and sockets, and the apps, proxies and the kernel at
either end are modelled from how the code uses them. For smoltcp 0.11 the model is
permissive: a socket takes one of the moves of the TCP state diagram, or ignores
the segment, and may answer or not. One assumption matters: a socket that
listens on the interface's address and a virtual port accepts packets for any
destination address (`Accepts`). The code relies on this (`stack.rs:62-64`,
`src/README.md:103`); smoltcp's source is not part of the repository, so whether it does is
not examined here, and everything `Stack` says holds under that assumption.
A watch channel keeps one value, and `send` without receivers stores nothing. An
mpsc receiver counts as closed when all senders are gone, even if messages are
left in it. Writes to the TUN device are assumed not to block for ever.

## 3. The runs

Passing runs:

| Run | Instance | What it shows |
|---|---|---|
| `nat_table` | 4 flows, 3 ports | the maps stay inverse, the scan gives up exactly when full, `PortLease` is implemented |
| `engine_races` | 2 callers, 2 sessions, every start, stop and shutdown, ports taken, failing open and read | nobody is left in Preparing or Connecting; nothing ends by itself |
| `engine_live` | 1 caller, 2 sessions, ports taken, failing open | a stop that is not taken back ends a server, a stop ends a client in any case; starts settle; a stop completes if a task it reached has still to end; the listeners of a first session catch up if a port was free |
| `stack_safety` | 2 apps, 2 servers, 3 ports, 2 sockets | segments and relays go where they belong; one socket per port |
| `stack_live` | 1 app, 2 servers, pending queue of 1 | waiting connections are accepted; a connection nobody serves is closed, unless its buffer stays full because its app does not read |
| `relay` | channels and buffers of 2, 3 units each way | nothing is duplicated or reordered, traffic that fits is kept, a reset of the app reaches the upstream and the end of the upstream the app, and what both have closed is released |
| `services` | 2 intents per service, the code's probe ports | the search ends; a cancelled search never asks for the permission |
| `proxies` | all kinds of peers, an IPv6 address and a name, 2 attempts, 2 units each way | one verdict and then the data of the address asked for; nothing of a handshake in the tunnel; client and handlers come to an end; half-closed tunnels go on |
| `dataplane` | 2 DNS tasks, packets cut and labelled at every length where a check decides | no index past the end; checksums that verify; one answer to each query, to who asked |

Three runs end in a counterexample. What each checks is a sentence of the repository,
quoted under `findings`:

| Run | Instance | What it shows |
|---|---|---|
| `stack_port_leak` | as `stack_safety`, smaller | the port of a closed connection is never released (stack.rs:97) |
| `engine_lost_update` | 2 callers, 1 session | the engine does not implement `Lifecycle`: of two stops at once the second stores Stopping over the Idle that the end of the session brought, and nobody completes it (session.rs:133) |
| `manager` | 1 coroutine, 1 session, no fault | with every announcement collected and nothing under way, the app shows Connecting while the engine is Connected (SessionManager.kt:82), or the states in another order than they were announced (53) |

The first is a leak that shows only after many connections. The second is why
`StopCompletes` speaks of a task that has still to end, and why it and `HeardCatchesUp` are
checked with one caller.

Two further deviations came to light while the models were built. Each was once
seen as a counterexample and is still reachable in the model, but no run
is spent on it now:

* a second connection to a server that has one gets a port on which no socket
  listens (`NeedsListener`, stack.rs:141), where
  `docs/03-protocols/03-tun2socks-bridge.md:108` has every SYN accepted; `OneSocketPerPort`
  says only that no socket is shared;
* a full channel to a relay drops a chunk that the app will not send again and lets
  later ones pass (`Deliver`, stack.rs:216), which is why `FittingIsKept` has its condition.

The models contain further behaviours that a reader of the documents would not
expect. They follow from single actions, and no run is spent on them:

* `stop` is refused in Preparing and Connecting (`stop`, runner.rs:189);
* a server is Connected before its proxies are bound, and stays so if they fail
  (`server_announce`, `run_bind`, runner.rs:107); its task has ended then, and a later stop
  stays in Stopping, which is why `StopCompletes` has its condition;
* a restart stores Idle over whatever session there is, and a task of the session before may
  store Idle over the new one: a live server that was not told to end can be behind an Idle
  session (`start_force`, `task_ending`, runner.rs:84-87);
* the read and poll tasks of a client survive its stop (`loops`, runner.rs:178);
* a restart takes back the stop of a server that has not looked yet, which is
  why `ServerStopsIfSignalStays` has its condition (runner.rs:86);
* listeners can be told in another order than the states were stored, which is
  why `HeardCatchesUp` is claimed for a first session only (session.rs:134);
* `send_slice` may take a part of a chunk (`SendSlice`, stack.rs:226), the last
  chunk of the upstream may stay in the channel (`service_close`, stack.rs:233) and
  the last data of the app in the socket (`service_begin`, stack.rs:200);
* the upstream does not learn that the app has closed only its own side
  (`up_recv`, runner.rs:387);
* besides what the run `manager` finds, the app shows Idle after a stop that the engine
  refused (SessionManager.kt:121), after `acknowledgeError` whatever the engine does (127), and
  hears nothing more when the engine could not be made as it registered
  (jni_android.rs:111);
* stopping a client session leaves the VPN service and its notification
  (`stop` in `Services`, HomeViewModel.kt:132), although
  `docs/02-architecture/03-control-plane-kotlin.md:90` calls the notification honest;
  a stop of a service may be cancelled with the service (`onDestroy`), a start that waits
  for the settings goes on after the stop (`startVpn`), and a start that is queued behind a
  stop reaches the instance that is going to be destroyed and may be lost with its scope
  (`onStartCommand`, GravitalServerService.kt:60-73);
* a request for the VPN permission is lost when the home screen is not in front
  (`emit`, HomeViewModel.kt:76);
* a handler waits for a silent peer without a time-out, answers neither a name that
  does not resolve nor a malformed request, and a UDP association relays no answers
  and ends with its first bad datagram (`Proxies`);
* SocksClient has no time-out either, so that a proxy which stays silent holds it for ever
  (client.rs:36-71), although `docs/03-protocols/01-socks5.md:328` asks for an abort after 30 s:
  `ClientReturns` is about a proxy that answers or closes, as the repository's own does;
* the comment at `gravital-socks/src/server.rs:186` says that one direction is enough to
  end a tunnel; the code waits for both, which is what `HalfCloseDelivers` shows;
* a DNS answer that does not fit the MTU is counted as sent and never arrives
  (`write_packet`, runner.rs:284), and neither a malformed datagram for port 53
  (`fate`, runner.rs:274) nor a segment that the stack refuses is in any counter, although
  `docs/02-architecture/02-data-plane-rust.md:9` has every drop counted;
* the resolver takes whatever datagram arrives for the answer (`forward_raw`,
  resolver.rs:36-43), the late answer to another query included.

**Bounds.** Two callers and two tasks are the smallest instance with two starts,
a start and a stop, or two stops at once, and a restart next to a task that is
ending. Three ports for four flows make the scan wrap, skip and fail. In
`stack_safety` two flows share a destination and two share a source; in
`stack_live` the queue of tun packets holds two so that a second connection meets
a full pending queue of one. `MaxQueue` and `MaxSockets` bound the
environment only: a SYN is let in when a handle is free. In `Relay` `MaxUp` and
`MaxDown` bound the traffic; the capacities are below it, so every buffer
overflows, and traffic that fits is the part `FittingIsKept` speaks of. In the
engine's runs `Calls` and `Faults` are spread so that every action fires in one of
them and none takes more than a few minutes; the theorems about the engine are for
all calls and faults.
In `engine_live` the action constraint `TakesFirst` has the caller take the tasks, which are
alike, in one order; a symmetry would be unsound next to liveness. In `services` two intents may wait for each service, enough
for a stop and a restart. In `proxies` the head of a request may be longer than
`MAX_HEADER_SIZE`, and two units are the least that can be reordered. In `dataplane` the
MTU lies between the two answers the server may give, and one of the segments needs
both rounds of `fold`.
The code's own values (50 000 ports, 128 pending, 256 chunks, 64 KiB) are
constants in the models.

**Symmetry** is used in `engine_races` (callers, tasks) and `stack_safety`
(addresses, which are only compared); neither checks liveness.
`engine_races` also has a view without `heard`, which no action reads; it holds
only states that `pending` held before.

**Deadlock** is checked except in `Relay` and `Proxies`, where a connection may really
be over.

**Fairness.** A call that was made runs on (its thread is scheduled) and a spawned
task is polled: `WF` on `CallStep` and `TaskStep`. The two accept loops of a server
are polled by one `join!`. The poll task ticks for ever: `WF(PollTask)`. What a relay has
left in its channel when it ends is finite, so it cannot fill the buffer again each time
there is room: `SF` on the service that closes. Nobody is
assumed to call, connect, send or close. `relay` also assumes that connecting and
writing to the upstream return, and that the app
reads what it is sent: `SF(app_ack)`, strong because the action is disabled during
each service although every poll lets smoltcp run. In `services` the main looper delivers
intents and dispatchers run coroutines; nothing is assumed of the user. In
`proxies` tasks that are ready are polled and resolving and connecting return; nothing is
assumed of the two ends. In `dataplane` the resolver has a time-out, whoever
holds the writer gets to write, and tokio's mutex is handed over in order of arrival:
`SF(lock)`, because others may hold it in between.

## 4. What is proved

With TLAPS, for all values of the constants that satisfy the named assumptions. Every
safety invariant that a passing run checks is a theorem; the run shows it on a small instance,
together with the liveness that TLAPS cannot reach.

**The NAT table and the stack** (`Stack_proofs`; from `PortsAssumption`: the range is not
empty and fits in `u16`, and `BoundsAssumption`).

* `NatCorrect`: `NatSpec => [](NatTypeOK /\ Inverse)`. The invariant is inductive as it
  stands. The arithmetic of the cursor is in `ScanInRange`.
* `NatImplementsLease`: `NatSpec => LeaseSpec`; every insert maps to a `Grant` or a stutter
  and every removal to a `Release`, because the maps are inverse.
* `NatFull`: `NatSpec => []FullOnlyWhenFull`; `ScanCovers` shows that the scan from any
  cursor reaches every port.
* `StackCorrect`, `StackAnswersComeHome`, `StackOneSocketPerPort`: `StackTypeOK`,
  `RelayReachesDestination`, `AnswersComeHome` and `OneSocketPerPort`, for any apps, servers
  and port range. They build on the invariant of the NAT table. What has to be added
  (`StackInv`) is that a packet which waits for smoltcp carries the port that `reverse` gives
  to its flow (`Known`). This is kept because no step of the poll task takes an entry away:
  `close_handle` never finds the port it would release (`CloseHandleFact`). The finding
  `stack_port_leak` is thus part of the argument, and a fix of it will need another one.

**The engine** (`Engine_proofs`; from `ProcsAssumption` and `TunOpenFailedAssumption`), for
any number of callers and tasks, and all calls and faults.

* `EngineCorrect` and `ConnectingMovesOn`: `EngineTypeOK`, `PreparingHasStarter` and
  `ConnectingHasDriver`. Neither property is inductive: `EngineInv` also says that a start
  call owns the task it reserved (`JobsReserved`), and that what a dispatch is about to store
  fits the process that stores it (`PendingFits`: only calls store Preparing and Connecting).
  There is one step per action; most are instances of `OneMoves`, which reduces a step of one
  process to what that process holds before and after.
* `EndsWhenTold`: `EndsOnlyWhenTold`. The strengthening (`ToldInv`) follows the channel: what
  a receiver has not seen was sent after its task subscribed (`UnseenTold`), and until a call
  subscribes, its task has no receiver, so that the signal an earlier stop left behind
  cannot be unseen for it (`CallTold`).
* `DispatchFollowsTable`: for every event, those the engine never dispatches included, a
  dispatch that nothing interrupts is refused, changes nothing, or is a step of `Lifecycle`.

**Packets and the data plane** (`Dataplane_proofs`; from `PacketAssumption`:
what the apps, smoltcp and the resolver send are packets and answers of the sizes that the
code's buffers allow; `TaskAssumption`, `PlaneBounds`).

* `FoldFits` and `ChecksumVerifies`: for every sum that fits in a `u32` two rounds of
  folding are the whole loop, and words with their checksum verify. A round changes a sum by a
  multiple of 65535 (`CarryStep`), and that is all it takes. That the sum of the words of a
  packet does fit in a `u32` is an induction over the octets of its payload.
* `PlaneInBounds`, `PlaneWellFormed`, `PlaneAnswers`: `NeverPastTheEnd`,
  `PacketsAreWellFormed` and `AnswersGoHome`, for any packets and any number of tasks. The
  inductive invariant (`PlaneInv`) keeps with each task what the reader found out about its
  packet (`Intercepted`: this is the check that `build_udp_reply` lacks), says of a reply that
  it is good from the moment it is built until it is written (`RepliesOK`), of a packet of the
  poll task that it was rewritten (`OutgoingOK`), and that whoever writes holds the writer (`Mutex`).

**SessionManager** (`Manager_proofs`; from the assumptions of the engine), for any number of
coroutines and tasks, and all faults.

* `ManagerImplementsEngine`: `ManagerSpec => EngineSpec`. A step of the app is a step of the
  engine or leaves it alone, so that every theorem about the engine holds below the app, whose
  calls are more restricted than the engine's environment.
* `AppPreparingHasStarter` and `AppConnectingHasDriver` are two of them.

**The relay** (`Relay_proofs`; from `CapsAssumption`), for any capacities and any traffic. Each
direction is one pipe: what was delivered, the chunk in hand, a channel, a buffer.

* `RelayCorrect`: `RelayTypeOK` and `InOrder`. The inductive invariant (`Ordered`) says that
  the units increase along the whole pipe and stay below the next one to be sent; every step
  moves units to the next stage or drops some.
* `RelayKeeps`: `FittingIsKept`. The stages of the pipe are adjacent spans of 1, 2, ..., n, and
  so are the chunks of the channel (`Kept`): `cut[i]` is where chunk i ends. As no chunk is empty,
  `i <= cut[i]`, so a channel never holds more chunks than units were sent: it has room for
  what fits. That the chunks of a channel, one after the other, are what `Flat` computes is an
  induction over the channel.

**The proxies** (`ProxyHandler_proofs`, `Proxies_proofs`; from `ProxyAssumption`), for every IPv4 and IPv6 address, every
name, every port, size of a head, amount of data and number of attempts: `CarriesTheStream`,
`VerdictThenData`, `SuccessIsAsked` and `ClientGetsTunnel`, the four invariants of the run.

* What the peer says is one stream: its script, then its data. Every buffer on the way to the
  far end is a segment of it (`Seg(s, lo, hi)`), and the segments are adjacent (`UpOK`):
  out to the far end up to x, in the hands of the handler or of a copy up to r, arrived up to N,
  still to be said after that. A step moves one of the three borders. The handler starts the
  tunnel with x at the end of the script, so that no part of a handshake gets into it.
* What the peer is told is another one (`DownOK`): the answers of the handler, then the
  far end's data up to x, then the copy's up to y. Which answers there are is fixed by
  where the handler is (`Greeted`, `Judged`).
* Between the two: the address in the handler's hands is the one asked for (`AddrInv`), because
  `read_address` takes back what `encode_address` writes and `parse_host_port` splits at the
  last colon; and SocksClient has read two answers when it returns (`ClientInv`), because
  `skip_bound_address` takes the whole of what `send_reply` writes.
* `ProxyInv`, the conjunction, is inductive (`ProxyInvariant`).

**The UDP gateway** (`UdpGw_proofs`, no assumptions).

* `FrameComesBack`: for every frame and whatever octets follow it, `decode` of the octets gives
  the frame back, and of any proper prefix of the frame `Truncated`. The octets of a frame are
  four parts at known offsets (`Layout`), `decode` reads the same offsets (`Fields`), and numbers
  come back from their octets (`BytesFact`).
* `DecodeInBounds`: on any octets at all, `decode` does not index past the end.

Model-checked only: all liveness properties, since liveness under fairness is outside what TLAPS
can do here, and `Services`. Of `LifecycleSpec`, the refinement of the documented state machine
by the engine, what holds is `DispatchFollowsTable`: the two locks of `dispatch` break the rest.
The type invariants are proved and not checked again by a run.

Induction over data (the octets of a payload, the chunks of a channel) is done without the
library's induction theorems, whose operator parameter the provers cannot instantiate: by
the least counterexample of the well-founded order of the natural numbers (`WFMin`).

## 5. Not modelled

* The multiplexer of the UDP gateway (`mux.rs`: a counter and a map), `leak_check.rs`,
  `backoff_delay` of the session, and the TCP, UDP and ICMP views of `gravital-proto`: nothing
  calls them. A datagram of 65536 octets or more is no frame in `UdpGw`: `encode` would
  cut its length to 16 bits, and `FrameTooLarge` is raised nowhere.
* `SettingsViewModel` and `SettingsRepository`: three values and a dirty flag that
  nothing else reads. An edit made while a save is writing is marked as saved.
  `DiagnosticViewModel`: a list of lines.
* The readiness loop around the system calls of the TUN device, the conversion of
  JSON and strings in the JNI bridge, byte counters, configuration defaults.
* The C stubs, which reach nothing; log output, colours and rendering.
