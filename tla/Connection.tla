------------------------------ MODULE Connection ------------------------------
(***************************************************************************)
(* The daemon's connection to the server (runner.rs, run_event_loop and    *)
(* drive_connection): the loop that connects, reads and backs off; the     *)
(* writer task that drains a bounded channel into the socket; the pinger;  *)
(* and the turn tasks, each holding a clone of the channel's sender while  *)
(* it runs.  The writer ends when every sender is gone or a send fails,    *)
(* and the loop waits for the writer before it reconnects or exits.        *)
(*                                                                         *)
(* What the messages do to the agents is the subject of AgentLifecycle;    *)
(* here a message is either one that only makes the handler queue a frame, *)
(* or a delivery that also spawns a turn.                                  *)
(***************************************************************************)
EXTENDS Naturals, Sequences

CONSTANTS
  Turns,           (* turn tasks that can be in flight; reused when done   *)
  Capacity,        (* slots of the outbound channel (64)                   *)
  InitialBackoff,  (* seconds *)
  MaxBackoff,
  None             (* no turn; nothing being sent                          *)

(* A frame, and the turn it is about, if any.                              *)
Frame == [kind : {"ready", "ack", "working", "idle", "other", "close"},
          turn : Turns \cup {None}]

ASSUME ConnectionAssumption ==
  /\ Capacity \in Nat \ {0}
  /\ InitialBackoff \in Nat \ {0} /\ MaxBackoff \in Nat
  /\ InitialBackoff <= MaxBackoff
  /\ None \notin Turns \cup Frame

VARIABLES
  loop,      (* where the event loop is                                    *)
  pending,   (* the delivery being acked                                   *)
  backoff,
  signals,   (* the signal task: "waiting"; or "gone", its sender dropped  *)
  asked,     (* the value in the shutdown watch                            *)
  unseen,    (* the receiver has not looked at that value yet              *)
  socket,    (* "none"; "open"; "lost"                                     *)
  queue,     (* frames in the outbound channel of the current connection   *)
  sending,   (* the frame the writer hands to the socket                   *)
  writer,    (* "none"; "running"; "closing" the socket; "ended": the      *)
             (* receiver is dropped                                        *)
  pinger,    (* "none"; "waiting" for its tick; "pinging": queueing a Ping *)
  turn,      (* "none"; "starting"; "running"; "reporting"                 *)
  clone,     (* the sender a turn holds: "none"; "current"; "closed"       *)
  shown      (* the last the server saw of each turn on this connection    *)

loopVars == <<loop, pending, backoff>>
watchVars == <<signals, asked, unseen>>
wireVars == <<socket, queue, sending, writer, shown>>
turnVars == <<turn, clone>>
vars == <<loopVars, watchVars, wireVars, pinger, turnVars>>

Plain(kind) == [kind |-> kind, turn |-> None]
Of(kind, t) == [kind |-> kind, turn |-> t]

NothingShown == [t \in Turns |-> "none"]

Init ==
  /\ loop = "top" /\ pending = None /\ backoff = InitialBackoff
  /\ signals = "waiting" /\ asked = FALSE /\ unseen = FALSE
  /\ socket = "none" /\ queue = <<>> /\ sending = None /\ writer = "none"
  /\ shown = NothingShown
  /\ pinger = "none"
  /\ turn = [t \in Turns |-> "none"] /\ clone = [t \in Turns |-> "none"]

-----------------------------------------------------------------------------
(* Faulty variants, each a mistake the operator it stands for could have   *)
(* held; with it in place the property named here fails.                   *)

(* RoomLeft: a slot too many (TypeOK).                                     *)
RoomForOneMore == Len(queue) <= Capacity

(* TryAppend: a frame is dropped when the channel is full, as with         *)
(* try_send (IdleReachesServer).                                           *)
AppendOrDrop(f) == queue' = IF Len(queue) < Capacity THEN Append(queue, f) ELSE queue

(* Driving: the loop does not drop its sender (Reconnects, ShutdownHeard). *)
DrivingToTheEnd ==
  {"opening", "select", "acking", "replying", "replyingTwice", "closing",
   "draining", "leaving"}

(* AckQueued: a delivery is not acked (AckPrecedesWorking).                *)
NothingQueued(t) == UNCHANGED queue

-----------------------------------------------------------------------------
(* The bounded channel.  A send waits for a slot; it fails once the        *)
(* receiver is dropped.                                                    *)

Receiving == writer \in {"running", "closing"}
RoomLeft == Len(queue) < Capacity
TryAppend(f) == RoomLeft /\ queue' = Append(queue, f)

(* send(f).await through a sender of the current channel.                  *)
Send(f) ==
  \/ Receiving /\ TryAppend(f)
  \/ writer = "ended" /\ UNCHANGED queue

(* The same through a turn's clone, which may belong to a channel whose    *)
(* connection is gone.                                                     *)
SendThrough(t, f) ==
  \/ clone[t] = "current" /\ Send(f)
  \/ clone[t] = "closed" /\ UNCHANGED queue

(* The loop's own sender lives until it leaves the message loop.           *)
Driving == {"opening", "select", "acking", "replying", "replyingTwice", "closing"}
SomeSender ==
  loop \in Driving \/ pinger # "none" \/ \E t \in Turns : clone[t] = "current"

-----------------------------------------------------------------------------
(* The shutdown watch.                                                     *)

(* SIGINT or SIGTERM: the value is sent and the sender dropped.            *)
Signal ==
  /\ signals = "waiting"
  /\ signals' = "gone" /\ asked' = TRUE /\ unseen' = TRUE
  /\ UNCHANGED <<loopVars, wireVars, pinger, turnVars>>

(* A handler cannot be installed: the sender is dropped without a value.   *)
SignalSetupFails ==
  /\ signals = "waiting"
  /\ signals' = "gone"
  /\ UNCHANGED <<asked, unseen, loopVars, wireVars, pinger, turnVars>>

(* changed() is ready: a value not looked at, or no sender left.           *)
ChangedReady == unseen \/ signals = "gone"
Asked == asked

-----------------------------------------------------------------------------
(* run_event_loop.                                                         *)

Top ==
  /\ loop = "top"
  /\ loop' = IF Asked THEN "exited" ELSE "connecting"
  /\ UNCHANGED <<pending, backoff, watchVars, wireVars, pinger, turnVars>>

(* connect_async succeeds: the backoff is reset, drive_connection makes a  *)
(* channel and spawns the writer and the pinger.                           *)
ConnectSucceeds ==
  /\ loop = "connecting"
  /\ loop' = "opening" /\ backoff' = InitialBackoff
  /\ socket' = "open" /\ queue' = <<>> /\ sending' = None /\ writer' = "running"
  /\ shown' = NothingShown /\ pinger' = "waiting"
  /\ UNCHANGED <<pending, watchVars, turnVars>>

ConnectFails ==
  /\ loop = "connecting"
  /\ loop' = "backoff"
  /\ UNCHANGED <<pending, backoff, watchVars, wireVars, pinger, turnVars>>

Doubled == IF 2 * backoff > MaxBackoff THEN MaxBackoff ELSE 2 * backoff

(* The backoff has passed, or changed() cuts it short.                     *)
BackOff ==
  /\ loop = "backoff"
  /\ \/ UNCHANGED unseen /\ loop' = "top" /\ backoff' = Doubled
     \/ /\ ChangedReady /\ unseen' = FALSE
        /\ IF Asked THEN loop' = "exited" /\ UNCHANGED backoff
                    ELSE loop' = "top" /\ backoff' = Doubled
  /\ UNCHANGED <<pending, signals, asked, wireVars, pinger, turnVars>>

-----------------------------------------------------------------------------
(* drive_connection.                                                       *)

(* The ready frame, and the frames of the restore loop after it.           *)
Open ==
  /\ loop = "opening"
  /\ Send(Plain("ready"))
  /\ loop' = "select"
  /\ UNCHANGED <<pending, backoff, watchVars, socket, sending, writer, shown, pinger, turnVars>>

SeeShutdown ==
  /\ loop = "select" /\ ChangedReady
  /\ unseen' = FALSE
  /\ loop' = IF Asked THEN "closing" ELSE "select"
  /\ UNCHANGED <<pending, backoff, signals, asked, wireVars, pinger, turnVars>>

ReadDelivery(t) ==
  /\ loop = "select" /\ socket = "open" /\ turn[t] = "none"
  /\ loop' = "acking" /\ pending' = t
  /\ UNCHANGED <<backoff, watchVars, wireVars, pinger, turnVars>>

(* A request with one reply: a ping, a list, a notice, a transcript, a     *)
(* workspace, the models of a runtime.  Frames without a reply (pong,      *)
(* ready, tasks, reminders, what is unknown) leave the loop where it is.   *)
ReadRequest ==
  /\ loop = "select" /\ socket = "open"
  /\ loop' = "replying"
  /\ UNCHANGED <<pending, backoff, watchVars, wireVars, pinger, turnVars>>

(* A migration is acked and then said to be done; a start has more than    *)
(* one reply as well.                                                      *)
ReadMigration ==
  /\ loop = "select" /\ socket = "open"
  /\ loop' = "replyingTwice"
  /\ UNCHANGED <<pending, backoff, watchVars, wireVars, pinger, turnVars>>

(* A reply that cannot be sent ends the handler.                           *)
Reply ==
  /\ loop \in {"replying", "replyingTwice"}
  /\ Send(Plain("other"))
  /\ loop' = IF loop = "replyingTwice" /\ Receiving THEN "replying" ELSE "select"
  /\ UNCHANGED <<pending, backoff, watchVars, socket, sending, writer, shown, pinger, turnVars>>

(* The ack is queued and the turn spawned with a clone of the sender; when *)
(* the writer is gone the handler returns early.                           *)
AckQueued(t) == TryAppend(Of("ack", t))

AckDelivery ==
  /\ loop = "acking"
  /\ \/ /\ Receiving /\ AckQueued(pending)
        /\ turn' = [turn EXCEPT ![pending] = "starting"]
        /\ clone' = [clone EXCEPT ![pending] = "current"]
     \/ /\ writer = "ended"
        /\ UNCHANGED <<queue, turnVars>>
  /\ loop' = "select" /\ pending' = None
  /\ UNCHANGED <<backoff, watchVars, socket, sending, writer, shown, pinger>>

(* The loop is left: the pinger is aborted and the loop's sender dropped.  *)
Abandon(how) == loop' = how /\ pinger' = "none"

ReadEnd ==
  /\ loop = "select" /\ socket = "lost"
  /\ Abandon("draining")
  /\ UNCHANGED <<pending, backoff, watchVars, wireVars, turnVars>>

(* On shutdown a Close frame is queued first.                              *)
Close ==
  /\ loop = "closing"
  /\ Send(Plain("close"))
  /\ Abandon("leaving")
  /\ UNCHANGED <<pending, backoff, watchVars, socket, sending, writer, shown, turnVars>>

(* The writer has ended.  Clones that turns still hold are of no more use. *)
Drained ==
  /\ loop \in {"draining", "leaving"} /\ writer = "ended"
  /\ loop' = IF loop = "leaving" THEN "exited" ELSE "backoff"
  /\ socket' = "none" /\ writer' = "none"
  /\ clone' = [t \in Turns |-> IF clone[t] = "none" THEN "none" ELSE "closed"]
  /\ UNCHANGED <<pending, backoff, watchVars, queue, sending, shown, pinger, turn>>

-----------------------------------------------------------------------------
(* run_writer, and the socket under it.                                    *)

Receive ==
  /\ writer = "running" /\ sending = None /\ queue # <<>>
  /\ sending' = Head(queue) /\ queue' = Tail(queue)
  /\ UNCHANGED <<loopVars, watchVars, socket, writer, shown, pinger, turnVars>>

(* After a Close frame the socket takes no more.                           *)
SendDone ==
  /\ sending # None /\ socket = "open"
  /\ sending' = None
  /\ socket' = IF sending.kind = "close" THEN "lost" ELSE "open"
  /\ shown' = IF sending.turn = None THEN shown
              ELSE [shown EXCEPT ![sending.turn] = sending.kind]
  /\ UNCHANGED <<loopVars, watchVars, queue, writer, pinger, turnVars>>

SendFails ==
  /\ sending # None /\ socket = "lost"
  /\ sending' = None /\ writer' = "closing"
  /\ UNCHANGED <<loopVars, watchVars, socket, queue, shown, pinger, turnVars>>

(* recv returns None: the channel is empty and no sender is left.          *)
ChannelClosed == ~SomeSender /\ queue = <<>>

WriterEnds ==
  /\ writer = "running" /\ sending = None /\ ChannelClosed
  /\ writer' = "closing"
  /\ UNCHANGED <<loopVars, watchVars, socket, queue, sending, shown, pinger, turnVars>>

(* sink.close has returned; the frames still queued are dropped with the   *)
(* receiver.                                                               *)
CloseSink ==
  /\ writer = "closing"
  /\ writer' = "ended" /\ queue' = <<>>
  /\ socket' = "lost"
  /\ UNCHANGED <<loopVars, watchVars, sending, shown, pinger, turnVars>>

(* The peer or the network goes; a read and a send will notice.            *)
Lose ==
  /\ socket = "open"
  /\ socket' = "lost"
  /\ UNCHANGED <<loopVars, watchVars, queue, sending, writer, shown, pinger, turnVars>>

-----------------------------------------------------------------------------
(* spawn_pinger.                                                           *)

Tick ==
  /\ pinger = "waiting"
  /\ pinger' = "pinging"
  /\ UNCHANGED <<loopVars, watchVars, wireVars, turnVars>>

Ping ==
  /\ pinger = "pinging"
  /\ Send(Plain("other"))
  /\ pinger' = IF Receiving THEN "waiting" ELSE "none"
  /\ UNCHANGED <<loopVars, watchVars, socket, sending, writer, shown, turnVars>>

-----------------------------------------------------------------------------
(* run_agent_turn, as far as the channel is concerned.  A turn that is     *)
(* declined ends without a frame; one that ran ends with an idle or error  *)
(* frame, here "idle".                                                     *)

Alive == loop # "exited"

StartTurn(t) ==
  /\ Alive /\ turn[t] = "starting"
  /\ SendThrough(t, Of("working", t))
  /\ turn' = [turn EXCEPT ![t] = "running"]
  /\ UNCHANGED <<clone, loopVars, watchVars, socket, sending, writer, shown, pinger>>

EndTurn(t) ==
  /\ turn' = [turn EXCEPT ![t] = "none"]
  /\ clone' = [clone EXCEPT ![t] = "none"]

DeclineTurn(t) ==
  /\ Alive /\ turn[t] = "starting"
  /\ EndTurn(t)
  /\ UNCHANGED <<loopVars, watchVars, wireVars, pinger>>

RunTurn(t) ==
  /\ Alive /\ turn[t] = "running"
  /\ turn' = [turn EXCEPT ![t] = "reporting"]
  /\ UNCHANGED <<clone, loopVars, watchVars, wireVars, pinger>>

ReportIdle(t) ==
  /\ Alive /\ turn[t] = "reporting"
  /\ SendThrough(t, Of("idle", t))
  /\ EndTurn(t)
  /\ UNCHANGED <<loopVars, watchVars, socket, sending, writer, shown, pinger>>

-----------------------------------------------------------------------------
Loop ==
  \/ Top \/ ConnectSucceeds \/ ConnectFails \/ BackOff
  \/ Open \/ SeeShutdown \/ ReadRequest \/ ReadMigration \/ Reply
  \/ AckDelivery \/ ReadEnd \/ Close \/ Drained
  \/ \E t \in Turns : ReadDelivery(t)

Writer == Receive \/ SendDone \/ SendFails \/ WriterEnds \/ CloseSink
Pinger == Tick \/ Ping
Turn(t) == StartTurn(t) \/ DeclineTurn(t) \/ RunTurn(t) \/ ReportIdle(t)

Next ==
  \/ Loop \/ Writer \/ Pinger \/ Signal \/ SignalSetupFails \/ Lose
  \/ \E t \in Turns : Turn(t)

Spec == Init /\ [][Next]_vars

(* Fairness.  The runtime polls whatever can go on; a connection attempt,  *)
(* a write to the socket and a turn are taken to end; the slots of a tokio *)
(* channel are handed out in FIFO order, so that a send that waits gets    *)
(* one; and select! polls its branches in random order, so that a ready    *)
(* changed() is not passed over for ever.                                  *)
Onward == Top \/ ConnectSucceeds \/ ConnectFails \/ BackOff \/ ReadEnd \/ Drained

Fairness ==
  /\ WF_vars(Onward) /\ WF_vars(Writer)
  /\ SF_vars(Open \/ Reply \/ AckDelivery \/ Close) /\ SF_vars(SeeShutdown)
  /\ \A t \in Turns : SF_vars(StartTurn(t) \/ RunTurn(t) \/ ReportIdle(t))

FairSpec == Spec /\ Fairness

-----------------------------------------------------------------------------
(* Properties.                                                             *)

(* Every variable keeps its type; the channel never holds more than its    *)
(* capacity, and nothing is at the socket unless the writer runs.          *)
TypeOK ==
  /\ loop \in {"top", "connecting", "backoff", "draining", "leaving", "exited"} \cup Driving
  /\ pending \in Turns \cup {None} /\ backoff \in InitialBackoff .. MaxBackoff
  /\ signals \in {"waiting", "gone"} /\ asked \in BOOLEAN /\ unseen \in BOOLEAN
  /\ socket \in {"none", "open", "lost"} /\ writer \in {"none", "running", "closing", "ended"}
  /\ queue \in Seq(Frame) /\ Len(queue) <= Capacity
  /\ sending \in Frame \cup {None} /\ (sending # None => writer = "running")
  /\ pinger \in {"none", "waiting", "pinging"}
  /\ turn \in [Turns -> {"none", "starting", "running", "reporting"}]
  /\ clone \in [Turns -> {"none", "current", "closed"}]
  /\ shown \in [Turns -> {"none", "ack", "working", "idle"}]

(* The server sees a delivery acked before it sees the agent working on it *)
(* (runner.rs:846-881).                                                    *)
AckPrecedesWorking ==
  [][ \A t \in Turns : shown'[t] = "working" /\ shown[t] # "working"
        => shown[t] = "ack" ]_vars

(* As long as the connection holds, a turn shown as working and over has   *)
(* its closing frame on the way: a full channel drops none (2061-2090).    *)
IdleReachesServer ==
  \A t \in Turns : socket = "open" /\ shown[t] = "working" /\ turn[t] = "none"
    => Of("idle", t) \in {sending} \cup {queue[i] : i \in 1..Len(queue)}

(* A daemon asked to shut down exits, wherever its loop is.                *)
ShutdownHeard == asked ~> loop = "exited"

(* A daemon whose connection is lost connects again, or exits.             *)
Reconnects == socket = "lost" ~> loop \in {"connecting", "exited"}

=============================================================================
