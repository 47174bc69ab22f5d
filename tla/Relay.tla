---------------------------------- MODULE Relay ----------------------------------
(***************************************************************************)
(* The data path of one intercepted connection: the smoltcp socket of the  *)
(* app, service_socket in the poll task (gravital-stack/src/stack.rs), the *)
(* two bounded channels of the VirtualConnection (connection.rs), and the  *)
(* two halves of relay_connection (gravital-engine/src/runner.rs).         *)
(*                                                                         *)
(* The poll task services the socket under the stack's mutex, but the      *)
(* relay works on the other ends of the channels without it, so the three  *)
(* stages of service_socket interleave with the relay: step is where the   *)
(* poll task is.  Segments of the app are processed between two services.  *)
(*                                                                         *)
(* A unit of data is its number in the stream of its sender; a chunk is a  *)
(* sequence of units.  smoltcp, the channels and the upstream are external.*)
(***************************************************************************)
EXTENDS Naturals, Sequences

CONSTANTS CHANNEL_CAP,  \* chunks that fit in a channel (256 in the code)
          SOCK_BUF,     \* units that fit in a socket buffer (65_536 bytes in the code)
          MaxUp,        \* bound: units the app sends
          MaxDown       \* bound: units the upstream sends

ASSUME CapsAssumption ==
    /\ CHANNEL_CAP \in Nat \ {0} /\ SOCK_BUF \in Nat \ {0}
    /\ MaxUp \in Nat /\ MaxDown \in Nat

VARIABLES tcp,      \* state of the socket; "Gone" once it is removed
          rx, tx,   \* its receive and transmit buffers
          step,     \* stage of service_socket
          up_ch,    \* channel from the socket to the relay
          down_ch,  \* channel from the relay to the socket
          up,       \* app_to_up: where it is, and the chunk it is writing
          down,     \* up_to_app: where it is, and the chunk it is sending
          upstream, \* the other end of the SOCKS tunnel
          sent,     \* units the app and the upstream have sent so far
          app_got, up_got   \* what the app and the upstream have received

sockVars == <<tcp, rx, tx>>
vars == <<sockVars, step, up_ch, down_ch, up, down, upstream, sent, app_got, up_got>>

At(label) == [at |-> label, data |-> << >>]

\* The units n+1 .. n+k of a stream.
Units(n, k) == [i \in 1 .. k |-> n + i]

\* The ends of the channels that the relay holds are dropped with its halves.
SenderDropped == down.at = "done"
ReceiverDropped == up.at = "done"

(***************************************************************************)
(* The app and smoltcp.                                                    *)
(***************************************************************************)
MayReceive == tcp \in {"Established", "FinWait"}

app_send ==
    /\ step = "idle" /\ MayReceive
    /\ sent.app < MaxUp /\ Len(rx) < SOCK_BUF
    /\ sent' = [sent EXCEPT !.app = @ + 1]
    /\ rx' = Append(rx, sent.app + 1)
    /\ UNCHANGED <<tcp, tx, step, up_ch, down_ch, up, down, upstream, app_got, up_got>>

\* The app takes a unit; when it was the last, a FIN that waited behind it is
\* acknowledged as well.
app_ack ==
    /\ step = "idle" /\ tx # << >> /\ tcp # "Closed"
    /\ app_got' = Append(app_got, Head(tx))
    /\ tx' = Tail(tx)
    /\ tcp' = IF Len(tx) > 1 THEN tcp
              ELSE CASE tcp = "Closing" -> "TimeWait" [] tcp = "LastAck" -> "Closed"
                     [] OTHER -> tcp
    /\ UNCHANGED <<rx, step, up_ch, down_ch, up, down, upstream, sent, up_got>>

app_fin ==
    /\ step = "idle" /\ MayReceive
    /\ tcp' = CASE tcp = "Established" -> "CloseWait"
                [] tcp = "FinWait" /\ tx # << >> -> "Closing"
                [] tcp = "FinWait" /\ tx = << >> -> "TimeWait"
    /\ UNCHANGED <<rx, tx, step, up_ch, down_ch, up, down, upstream, sent, app_got, up_got>>

app_reset ==
    /\ step = "idle" /\ tcp \notin {"Closed", "TimeWait", "Gone"}
    /\ tcp' = "Closed"
    /\ UNCHANGED <<rx, tx, step, up_ch, down_ch, up, down, upstream, sent, app_got, up_got>>

(***************************************************************************)
(* service_socket.                                                         *)
(***************************************************************************)
\* A socket that is closed is removed, and the stack's ends of the channels
\* with it: what the relay has put in down_ch is lost, what is in up_ch is not.
service_begin ==
    /\ step = "idle" /\ tcp # "Gone"
    /\ \/ /\ tcp \in {"Closed", "TimeWait"}
          /\ tcp' = "Gone"
          /\ rx' = << >> /\ tx' = << >> /\ down_ch' = << >>
          /\ UNCHANGED step
       \/ /\ tcp \notin {"Closed", "TimeWait"}
          /\ step' = "recv"
          /\ UNCHANGED <<sockVars, down_ch>>
    /\ UNCHANGED <<up_ch, up, down, upstream, sent, app_got, up_got>>

Deliver(chunk) ==
    up_ch' = IF Len(up_ch) < CHANNEL_CAP /\ ~ReceiverDropped THEN Append(up_ch, chunk)
                                                             ELSE up_ch

\* Mutant of service_recv: the data stays in the buffer.
service_recv_peeks ==
    /\ step = "recv"
    /\ step' = "send"
    /\ \/ rx = << >> /\ UNCHANGED up_ch
       \/ \E n \in 1 .. Len(rx) : Deliver(SubSeq(rx, 1, n))
    /\ UNCHANGED <<tcp, rx, tx, down_ch, up, down, upstream, sent, app_got, up_got>>

\* Socket::recv passes on the contiguous part of the ring buffer, some prefix
\* of what was received, and takes it out whether try_send accepted it or not.
service_recv ==
    /\ step = "recv"
    /\ step' = "send"
    /\ \/ /\ rx = << >>
          /\ UNCHANGED <<rx, up_ch>>
       \/ \E n \in 1 .. Len(rx) :
            /\ Deliver(SubSeq(rx, 1, n))
            /\ rx' = SubSeq(rx, n + 1, Len(rx))
    /\ UNCHANGED <<tcp, tx, down_ch, up, down, upstream, sent, app_got, up_got>>

CanSend == tcp \in {"Established", "CloseWait"} /\ Len(tx) < SOCK_BUF

\* Mutant of SendSlice: the end of a chunk is cut off.
SendSlice_first(chunk) == tx' = Append(tx, Head(chunk))

\* Socket::send_slice takes what fits.
SendSlice(chunk) ==
    LET room == SOCK_BUF - Len(tx)
    IN tx' = tx \o SubSeq(chunk, 1, IF Len(chunk) < room THEN Len(chunk) ELSE room)

\* One round of the loop per step, until try_recv finds the channel empty.
service_send ==
    /\ step = "send"
    /\ \/ /\ CanSend /\ down_ch # << >>
          /\ SendSlice(Head(down_ch))
          /\ down_ch' = Tail(down_ch)
          /\ UNCHANGED step
       \/ /\ ~(CanSend /\ down_ch # << >>)
          /\ step' = "close"
          /\ UNCHANGED <<tx, down_ch>>
    /\ UNCHANGED <<tcp, rx, up_ch, up, down, upstream, sent, app_got, up_got>>

\* Mutant of service_close: a socket that the app has half closed is not closed.
service_close_established ==
    /\ step = "close"
    /\ step' = "idle"
    /\ tcp' = IF CanSend /\ SenderDropped /\ tcp = "Established" THEN "FinWait" ELSE tcp
    /\ UNCHANGED <<rx, tx, up_ch, down_ch, up, down, upstream, sent, app_got, up_got>>

service_close ==
    /\ step = "close"
    /\ step' = "idle"
    /\ \/ /\ CanSend /\ SenderDropped
          /\ tcp' = CASE tcp = "Established" -> "FinWait"
                      [] tcp = "CloseWait" -> IF tx = << >> THEN "Closed" ELSE "LastAck"
       \/ /\ ~(CanSend /\ SenderDropped)
          /\ UNCHANGED tcp
    /\ UNCHANGED <<rx, tx, up_ch, down_ch, up, down, upstream, sent, app_got, up_got>>

(***************************************************************************)
(* relay_connection.                                                       *)
(***************************************************************************)
\* SocksClient::connect: on failure the relay returns and drops its ends.
relay_connect ==
    /\ up.at = "connecting"
    /\ \/ /\ up' = At("recv") /\ down' = At("read") /\ upstream' = "open"
          /\ UNCHANGED up_ch
       \/ /\ up' = At("done") /\ down' = At("done") /\ UNCHANGED upstream
          /\ up_ch' = << >>
    /\ UNCHANGED <<sockVars, step, down_ch, sent, app_got, up_got>>

\* Mutant of up_recv: the end of the channel is never seen.
up_recv_forever ==
    /\ up.at = "recv" /\ up_ch # << >>
    /\ up' = [at |-> "write", data |-> Head(up_ch)]
    /\ up_ch' = Tail(up_ch)
    /\ UNCHANGED <<sockVars, step, down_ch, down, upstream, sent, app_got, up_got>>

\* recv yields None only when the stack's sender is gone and nothing is left.
up_recv ==
    /\ up.at = "recv"
    /\ \/ /\ up_ch # << >>
          /\ up' = [at |-> "write", data |-> Head(up_ch)]
          /\ up_ch' = Tail(up_ch)
       \/ /\ up_ch = << >> /\ tcp = "Gone"
          /\ up' = At("shutdown")
          /\ UNCHANGED up_ch
    /\ UNCHANGED <<sockVars, step, down_ch, down, upstream, sent, app_got, up_got>>

up_write ==
    /\ up.at = "write"
    /\ \/ /\ upstream # "broken"
          /\ up_got' = up_got \o up.data
          /\ up' = At("recv")
       \/ /\ upstream = "broken"
          /\ up' = At("shutdown")
          /\ UNCHANGED up_got
    /\ UNCHANGED <<sockVars, step, up_ch, down_ch, down, upstream, sent, app_got>>

up_shutdown ==
    /\ up.at = "shutdown"
    /\ up' = At("done")
    /\ up_ch' = << >>
    /\ UNCHANGED <<sockVars, step, down_ch, down, upstream, sent, app_got, up_got>>

down_read ==
    /\ down.at = "read"
    /\ \/ \E n \in 1 .. MaxDown - sent.up :
            /\ upstream = "open"
            /\ down' = [at |-> "send", data |-> Units(sent.up, n)]
            /\ sent' = [sent EXCEPT !.up = @ + n]
       \/ /\ upstream \in {"closed", "broken"}
          /\ down' = At("done")
          /\ UNCHANGED sent
    /\ UNCHANGED <<sockVars, step, up_ch, down_ch, up, upstream, app_got, up_got>>

\* send waits for room in the channel and fails when the stack's end is gone.
down_send ==
    /\ down.at = "send"
    /\ \/ /\ tcp # "Gone" /\ Len(down_ch) < CHANNEL_CAP
          /\ down_ch' = Append(down_ch, down.data)
          /\ down' = At("read")
       \/ /\ tcp = "Gone"
          /\ down' = At("done")
          /\ UNCHANGED down_ch
    /\ UNCHANGED <<sockVars, step, up_ch, up, upstream, sent, app_got, up_got>>

upstream_ends(how) ==
    /\ upstream = "open"
    /\ upstream' = how
    /\ UNCHANGED <<sockVars, step, up_ch, down_ch, up, down, sent, app_got, up_got>>
--------------------------------------------------------------------------------
\* A relay is spawned for a socket as soon as it was created.
Init ==
    /\ tcp = "Established" /\ rx = << >> /\ tx = << >>
    /\ step = "idle"
    /\ up_ch = << >> /\ down_ch = << >>
    /\ up = At("connecting") /\ down = At("connecting")
    /\ upstream = "none"
    /\ sent = [app |-> 0, up |-> 0]
    /\ app_got = << >> /\ up_got = << >>

PollTask == service_begin \/ service_recv \/ service_send \/ service_close
UpTask == up_recv \/ up_write \/ up_shutdown
DownTask == down_read \/ down_send
AppTask == app_send \/ app_ack \/ app_fin \/ app_reset

Next ==
    \/ PollTask \/ relay_connect \/ UpTask \/ DownTask \/ AppTask
    \/ \E how \in {"closed", "broken"} : upstream_ends(how)

Spec == Init /\ [][Next]_vars

\* The poll task ticks for ever and the relay's futures are polled.  The app
\* reads what it is sent, again and again interrupted by services (every poll
\* lets smoltcp run before it services the socket); nobody need send, close or
\* reset.
FairSpec ==
    /\ Spec
    /\ WF_vars(PollTask) /\ SF_vars(app_ack)
    /\ WF_vars(relay_connect) /\ WF_vars(UpTask) /\ WF_vars(DownTask)
--------------------------------------------------------------------------------
Tcp == {"Established", "CloseWait", "FinWait", "Closing", "LastAck", "TimeWait", "Closed",
        "Gone"}

RelayTypeOK ==
    /\ tcp \in Tcp
    /\ rx \in Seq(1 .. MaxUp) /\ tx \in Seq(1 .. MaxDown)
    /\ Len(rx) <= SOCK_BUF /\ Len(tx) <= SOCK_BUF
    /\ step \in {"idle", "recv", "send", "close"}
    /\ up_ch \in Seq(Seq(1 .. MaxUp)) /\ Len(up_ch) <= CHANNEL_CAP
    /\ down_ch \in Seq(Seq(1 .. MaxDown)) /\ Len(down_ch) <= CHANNEL_CAP
    /\ up.at \in {"connecting", "recv", "write", "shutdown", "done"}
    /\ up.data \in Seq(1 .. MaxUp)
    /\ down.at \in {"connecting", "read", "send", "done"}
    /\ down.data \in Seq(1 .. MaxDown)
    /\ upstream \in {"none", "open", "closed", "broken"}
    /\ sent \in [app : 0 .. MaxUp, up : 0 .. MaxDown]
    /\ app_got \in Seq(1 .. MaxDown) /\ up_got \in Seq(1 .. MaxUp)

Increasing(s) == \A i, j \in DOMAIN s : i < j => s[i] < s[j]

\* Whatever is lost on the way, nothing is delivered twice or out of order, in
\* either direction (stack.rs:210-230, runner.rs:386-409).
InOrder == Increasing(up_got) /\ Increasing(app_got)

\* The units in the chunks of a channel, first chunk first.
Flat(ch) ==
    LET upto[i \in 1 .. Len(ch)] == IF i = 1 THEN ch[i] ELSE upto[i - 1] \o ch[i]
    IN  IF ch = << >> THEN << >> ELSE upto[Len(ch)]

\* Traffic that fits is not lost: as long as the app has sent no more units than
\* the channel has places, and as long as the upstream has sent no more than the
\* socket buffer holds, every unit sent is, in its place, either delivered or in
\* one of the buffers, until the connection is torn down (stack.rs:210-230,
\* runner.rs:386-409).
FittingIsKept ==
    /\ sent.app <= CHANNEL_CAP /\ tcp # "Gone" /\ up.at \notin {"shutdown", "done"} =>
            up_got \o up.data \o Flat(up_ch) \o rx = Units(0, sent.app)
    /\ sent.up <= SOCK_BUF /\ tcp # "Gone" =>
            app_got \o tx \o Flat(down_ch) \o down.data = Units(0, sent.up)

\* When the upstream ends, or could not be reached, the app is told: its socket
\* is closed in the end (stack.rs:232-235, runner.rs:371-377, 396-409).
UpstreamEndReachesApp ==
    SenderDropped ~> tcp \notin {"Established", "CloseWait"}

\* When the app resets its connection, the half of the relay that writes to the
\* upstream ends, however much it had still to write: the tunnel is shut down
\* (stack.rs:200-203, runner.rs:386-393).
AppResetReachesUpstream == (tcp = "Closed") ~> (up.at = "done")

\* A connection that both sides have closed is released: the socket is removed
\* and both halves of the relay end, so no task or channel stays behind
\* (stack.rs:200-235, runner.rs:386-411).
BothClosedReleases ==
    (tcp = "CloseWait" /\ upstream \in {"closed", "broken"})
        ~> (tcp = "Gone" /\ up.at = "done" /\ down.at = "done")
================================================================================
