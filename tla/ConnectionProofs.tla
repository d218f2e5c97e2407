--------------------------- MODULE ConnectionProofs ---------------------------
(***************************************************************************)
(* Proofs about Connection for every set of turns, every capacity of the   *)
(* channel and every backoff: what the server sees of a turn, and in which *)
(* order.                                                                  *)
(***************************************************************************)
EXTENDS Connection, SequenceTheorems, TLAPS

(* A frame about a turn is one of three.                                   *)
FrameOK(f) == f.turn # None => f.kind \in {"ack", "working", "idle"}

FramesOK ==
  /\ sending # None => FrameOK(sending)
  /\ \A i \in 1..Len(queue) : FrameOK(queue[i])

(* The loop, the writer and the socket belong to one connection.           *)
ConnectionOK ==
  /\ socket = "open" => writer \in {"running", "closing"}
  /\ loop \in {"top", "connecting", "backoff", "exited"} =>
       writer = "none" /\ \A t \in Turns : clone[t] # "current"
  /\ loop = "acking" => pending \in Turns /\ turn[pending] = "none"

(* The last the server sees of a turn before the i-th frame in the channel *)
(* is its ack.                                                             *)
AckBefore(t, i) ==
  \/ \E j \in 1..i-1 : /\ queue[j] = Of("ack", t)
                       /\ \A k \in j+1..i-1 : queue[k].turn # t
  \/ /\ \A k \in 1..i-1 : queue[k].turn # t
     /\ \/ sending = Of("ack", t)
        \/ (sending # None => sending.turn # t) /\ shown[t] = "ack"

Acked(t) ==
  /\ sending = Of("working", t) => shown[t] = "ack"
  /\ \A i \in 1..Len(queue) : queue[i] = Of("working", t) => AckBefore(t, i)
  /\ turn[t] = "starting" /\ clone[t] = "current" => AckBefore(t, Len(queue) + 1)

(* After the i-th frame comes the one that says the turn is over, or will. *)
IdleAfter(t, i) ==
  \/ turn[t] \in {"running", "reporting"} /\ clone[t] = "current"
  \/ \E j \in i+1..Len(queue) : queue[j] = Of("idle", t)

Closed(t) ==
  /\ \A i \in 1..Len(queue) : queue[i] = Of("working", t) => IdleAfter(t, i)
  /\ sending = Of("working", t) => IdleAfter(t, 0)
  /\ shown[t] = "working" => sending = Of("idle", t) \/ IdleAfter(t, 0)

OrderOK == socket = "open" => \A t \in Turns : Acked(t) /\ Closed(t)

CInv == TypeOK /\ FramesOK /\ ConnectionOK
IInv == CInv /\ OrderOK

-----------------------------------------------------------------------------
(* The channel.                                                            *)

LEMMA FrameOf ==
  ASSUME NEW t \in Turns, NEW kind \in {"ack", "working", "idle"}
  PROVE  /\ Of(kind, t) \in Frame /\ FrameOK(Of(kind, t))
         /\ Of(kind, t).kind = kind /\ Of(kind, t).turn = t
BY DEF Of, Frame, FrameOK

LEMMA PlainFrame ==
  ASSUME NEW kind \in {"ready", "other", "close"}
  PROVE  Plain(kind) \in Frame /\ FrameOK(Plain(kind)) /\ Plain(kind).turn = None
BY DEF Plain, Frame, FrameOK

LEMMA AppendIs ==
  ASSUME NEW f \in Frame, queue \in Seq(Frame), queue' = Append(queue, f)
  PROVE  /\ queue' \in Seq(Frame) /\ Len(queue) \in Nat /\ Len(queue') = Len(queue) + 1
         /\ \A i \in 1..Len(queue) : queue'[i] = queue[i] /\ queue[i] \in Frame
         /\ queue'[Len(queue) + 1] = f
OBVIOUS

LEMMA TailIs ==
  ASSUME queue \in Seq(Frame), queue # <<>>, queue' = Tail(queue)
  PROVE  /\ queue' \in Seq(Frame) /\ Head(queue) \in Frame /\ Head(queue) = queue[1]
         /\ Len(queue) \in Nat /\ Len(queue) >= 1 /\ Len(queue') = Len(queue) - 1
         /\ \A i \in 1..Len(queue') : queue'[i] = queue[i+1] /\ i+1 \in 2..Len(queue)
OBVIOUS

(* What a send that goes through, or finds the writer gone, does.          *)
Queued(f) == Receiving /\ RoomLeft /\ queue' = Append(queue, f)
Lost == writer = "ended" /\ UNCHANGED queue

LEMMA SendIs ==
  ASSUME NEW f, Send(f)
  PROVE  Queued(f) \/ Lost
BY DEF Send, TryAppend, Queued, Lost

LEMMA QueuedTypes ==
  ASSUME TypeOK, FramesOK, NEW f \in Frame, FrameOK(f), Queued(f), UNCHANGED sending
  PROVE  queue' \in Seq(Frame) /\ Len(queue') <= Capacity /\ FramesOK'
BY AppendIs, ConnectionAssumption DEF TypeOK, FramesOK, Queued, RoomLeft, FrameOK

-----------------------------------------------------------------------------
(* Types, frames, and what belongs to one connection.                      *)

LEMMA CInit == Init => CInv
<1> SUFFICES ASSUME Init PROVE CInv  OBVIOUS
<1>1. TypeOK
  <2>1. queue \in Seq(Frame) /\ Len(queue) <= Capacity
    BY ConnectionAssumption DEF Init
  <2>2. backoff \in InitialBackoff .. MaxBackoff
    BY ConnectionAssumption DEF Init
  <2>3. QED  BY <2>1, <2>2 DEF Init, TypeOK, NothingShown
<1>2. FramesOK
  BY DEF Init, FramesOK
<1>3. ConnectionOK
  BY DEF Init, ConnectionOK
<1>4. QED  BY <1>1, <1>2, <1>3 DEF CInv

LEMMA DoubledIs ==
  ASSUME backoff \in InitialBackoff .. MaxBackoff
  PROVE  Doubled \in InitialBackoff .. MaxBackoff
BY ConnectionAssumption DEF Doubled

LEMMA LoopKeeps == CInv /\ Loop => CInv'
<1> SUFFICES ASSUME CInv, Loop PROVE CInv'  OBVIOUS
<1> USE DEF CInv, loopVars, watchVars, wireVars, turnVars
<1>1. CASE Top \/ ConnectFails \/ BackOff
  BY <1>1, DoubledIs
  DEF Top, ConnectFails, BackOff, TypeOK, FramesOK, FrameOK, ConnectionOK, Driving
<1>2. CASE ConnectSucceeds
  BY <1>2, ConnectionAssumption
  DEF ConnectSucceeds, NothingShown, TypeOK, FramesOK, ConnectionOK, Driving
<1>3. CASE \/ SeeShutdown \/ ReadRequest \/ ReadMigration \/ ReadEnd
           \/ \E t \in Turns : ReadDelivery(t)
  BY <1>3
  DEF SeeShutdown, ReadRequest, ReadMigration, ReadEnd, Abandon, ReadDelivery,
      TypeOK, FramesOK, FrameOK, ConnectionOK, Driving
<1>4. CASE Open \/ Reply \/ Close
  <2>1. PICK kind \in {"ready", "other", "close"} : Send(Plain(kind))
    BY <1>4 DEF Open, Reply, Close
  <2>2. UNCHANGED sending
    BY <1>4 DEF Open, Reply, Close
  <2>3. queue' \in Seq(Frame) /\ Len(queue') <= Capacity /\ FramesOK'
    <3>1. CASE Queued(Plain(kind))
      BY <2>2, <3>1, QueuedTypes, PlainFrame
    <3>2. CASE Lost
      BY <2>2, <3>2 DEF Lost, TypeOK, FramesOK, FrameOK
    <3>3. QED  BY <2>1, <3>1, <3>2, SendIs
  <2>4. QED
    BY <1>4, <2>3 DEF Open, Reply, Close, Abandon, TypeOK, ConnectionOK, Driving
<1>5. CASE AckDelivery
  <2>1. pending \in Turns
    BY <1>5 DEF AckDelivery, ConnectionOK
  <2>2. queue' \in Seq(Frame) /\ Len(queue') <= Capacity /\ FramesOK'
    <3>1. CASE Queued(Of("ack", pending))
      BY <1>5, <2>1, <3>1, QueuedTypes, FrameOf DEF AckDelivery
    <3>2. CASE UNCHANGED queue
      BY <1>5, <3>2 DEF AckDelivery, TypeOK, FramesOK, FrameOK
    <3>3. QED  BY <1>5, <3>1, <3>2 DEF AckDelivery, AckQueued, TryAppend, Queued
  <2>3. QED  BY <1>5, <2>1, <2>2 DEF AckDelivery, TypeOK, ConnectionOK, Driving
<1>6. CASE Drained
  BY <1>6 DEF Drained, TypeOK, FramesOK, FrameOK, ConnectionOK, Driving
<1>7. QED  BY <1>1, <1>2, <1>3, <1>4, <1>5, <1>6 DEF Loop

LEMMA WriterKeeps == CInv /\ Writer => CInv'
<1> SUFFICES ASSUME CInv, Writer PROVE CInv'  OBVIOUS
<1> USE DEF CInv, loopVars, watchVars, turnVars
<1>1. CASE Receive
  <2>1. /\ queue' \in Seq(Frame) /\ Head(queue) \in Frame /\ Head(queue) = queue[1]
        /\ Len(queue) \in Nat /\ Len(queue) >= 1 /\ Len(queue') = Len(queue) - 1
        /\ \A i \in 1..Len(queue') : queue'[i] = queue[i+1] /\ i+1 \in 2..Len(queue)
    BY <1>1, TailIs DEF Receive, TypeOK
  <2>2. FramesOK'
    BY <1>1, <2>1 DEF Receive, FramesOK, FrameOK
  <2>3. TypeOK'
    BY <1>1, <2>1, ConnectionAssumption DEF Receive, TypeOK
  <2>4. QED  BY <1>1, <2>2, <2>3 DEF Receive, ConnectionOK
<1>2. CASE SendDone
  <2>1. sending \in Frame /\ (sending.turn # None => sending.turn \in Turns)
    BY <1>2 DEF SendDone, TypeOK, Frame
  <2>2. QED
    BY <1>2, <2>1 DEF SendDone, TypeOK, FramesOK, FrameOK, ConnectionOK
<1>3. CASE SendFails \/ WriterEnds
  BY <1>3, ConnectionAssumption
  DEF SendFails, WriterEnds, TypeOK, FramesOK, FrameOK, ConnectionOK
<1>4. CASE CloseSink
  <2>1. TypeOK'
    BY <1>4, ConnectionAssumption DEF CloseSink, TypeOK
  <2>2. FramesOK'
    BY <1>4 DEF CloseSink, FramesOK, FrameOK
  <2>3. QED  BY <1>4, <2>1, <2>2 DEF CloseSink, ConnectionOK
<1>5. QED  BY <1>1, <1>2, <1>3, <1>4 DEF Writer

LEMMA TurnKeeps ==
  ASSUME CInv, NEW t \in Turns, Turn(t)
  PROVE  CInv'
<1> USE DEF CInv, loopVars, watchVars, wireVars
<1>1. CASE DeclineTurn(t) \/ RunTurn(t)
  BY <1>1 DEF DeclineTurn, RunTurn, EndTurn, TypeOK, FramesOK, FrameOK, ConnectionOK
<1>2. CASE StartTurn(t) \/ ReportIdle(t)
  <2>1. PICK kind \in {"working", "idle"} : SendThrough(t, Of(kind, t))
    BY <1>2 DEF StartTurn, ReportIdle
  <2>2. UNCHANGED sending
    BY <1>2 DEF StartTurn, ReportIdle
  <2>3. queue' \in Seq(Frame) /\ Len(queue') <= Capacity /\ FramesOK'
    <3>1. CASE Queued(Of(kind, t))
      BY <2>2, <3>1, QueuedTypes, FrameOf
    <3>2. CASE UNCHANGED queue
      BY <2>2, <3>2 DEF TypeOK, FramesOK, FrameOK
    <3>3. QED  BY <2>1, <3>1, <3>2, SendIs DEF SendThrough, Lost
  <2>4. QED
    BY <1>2, <2>3 DEF StartTurn, ReportIdle, EndTurn, TypeOK, ConnectionOK
<1>3. QED  BY <1>1, <1>2 DEF Turn

LEMMA RestKeeps ==
  ASSUME CInv, Pinger \/ Signal \/ SignalSetupFails \/ Lose
  PROVE  CInv'
<1> USE DEF CInv, loopVars, watchVars, wireVars, turnVars
<1>1. CASE Tick \/ Signal \/ SignalSetupFails \/ Lose
  <2>1. TypeOK'
    BY <1>1 DEF Tick, Signal, SignalSetupFails, Lose, TypeOK
  <2>2. FramesOK'
    BY <1>1 DEF Tick, Signal, SignalSetupFails, Lose, FramesOK, FrameOK
  <2>3. ConnectionOK'
    BY <1>1 DEF Tick, Signal, SignalSetupFails, Lose, ConnectionOK
  <2>4. QED  BY <2>1, <2>2, <2>3
<1>2. CASE Ping
  <2>1. queue' \in Seq(Frame) /\ Len(queue') <= Capacity /\ FramesOK'
    <3>1. CASE Queued(Plain("other"))
      BY <1>2, <3>1, QueuedTypes, PlainFrame DEF Ping
    <3>2. CASE Lost
      BY <1>2, <3>2 DEF Ping, Lost, TypeOK, FramesOK, FrameOK
    <3>3. QED  BY <1>2, <3>1, <3>2, SendIs DEF Ping
  <2>2. QED  BY <1>2, <2>1 DEF Ping, TypeOK, ConnectionOK
<1>3. QED  BY <1>1, <1>2 DEF Pinger

LEMMA ConnectionHolds == Spec => []CInv
<1>1. CInv /\ [Next]_vars => CInv'
  <2>1. ASSUME CInv, UNCHANGED vars PROVE CInv'
    BY <2>1
    DEF vars, loopVars, watchVars, wireVars, turnVars, CInv, TypeOK, FramesOK, FrameOK,
        ConnectionOK
  <2>2. QED  BY <2>1, LoopKeeps, WriterKeeps, TurnKeeps, RestKeeps DEF Next
<1>2. QED  BY <1>1, CInit, PTL DEF Spec

(* Every variable keeps its type; the channel never holds more than its    *)
(* capacity, and nothing is at the socket unless the writer runs.          *)
THEOREM ConnectionTypes == Spec => []TypeOK
BY ConnectionHolds, PTL DEF CInv

-----------------------------------------------------------------------------
(* The order of the frames of one turn.                                    *)

InOrder(t) == Acked(t) /\ Closed(t)

(* What SendDone and Receive have to do with one turn.                     *)
LEMMA OfIsOneTurn ==
  ASSUME NEW t \in Turns, NEW kind, NEW other, NEW f, f = Of(kind, t)
  PROVE  f.turn = t /\ f.kind = kind
BY DEF Of

(* Nothing happens in the channel, and the turn only moves on within what  *)
(* it has said.                                                            *)
LEMMA NothingSent ==
  ASSUME NEW t \in Turns, InOrder(t), UNCHANGED <<queue, sending, shown>>,
         turn'[t] = "starting" /\ clone'[t] = "current"
           => turn[t] = "starting" /\ clone[t] = "current",
         turn[t] \in {"running", "reporting"} /\ clone[t] = "current"
           => turn'[t] \in {"running", "reporting"} /\ clone'[t] = "current"
  PROVE  InOrder(t)'
BY DEF InOrder, Acked, Closed, AckBefore, IdleAfter

(* A frame that is not about the turn is queued.                           *)
LEMMA OtherQueued ==
  ASSUME NEW t \in Turns, InOrder(t), TypeOK, NEW f \in Frame, f.turn # t,
         queue' = Append(queue, f), UNCHANGED <<sending, shown>>,
         turn'[t] = turn[t], clone'[t] = clone[t]
  PROVE  InOrder(t)'
<1>1. /\ queue' \in Seq(Frame) /\ Len(queue) \in Nat /\ Len(queue') = Len(queue) + 1
      /\ \A i \in 1..Len(queue) : queue'[i] = queue[i] /\ queue[i] \in Frame
      /\ queue'[Len(queue) + 1] = f
  BY AppendIs DEF TypeOK
<1>2. \A kind : f # Of(kind, t)
  BY DEF Of
<1>3. ASSUME NEW i \in 1..Len(queue)+1, AckBefore(t, i)
      PROVE  AckBefore(t, i)'
  BY <1>1, <1>3 DEF AckBefore
<1>4. Acked(t)'
  <2>1. ASSUME AckBefore(t, Len(queue) + 1)
        PROVE  AckBefore(t, Len(queue) + 1)'
    BY <1>1, <2>1 DEF AckBefore
  <2>2. QED  BY <1>1, <1>2, <1>3, <2>1 DEF InOrder, Acked
<1>5. Closed(t)'
  <2>1. ASSUME NEW i \in 0..Len(queue), IdleAfter(t, i)
        PROVE  IdleAfter(t, i)'
    BY <1>1, <2>1 DEF IdleAfter
  <2>2. QED  BY <1>1, <1>2, <2>1 DEF InOrder, Closed
<1>6. QED  BY <1>4, <1>5 DEF InOrder

(* The ack of a new delivery is queued; what came before is over.          *)
LEMMA AckIsQueued ==
  ASSUME NEW t \in Turns, InOrder(t), TypeOK, turn[t] = "none", turn'[t] = "starting",
         queue' = Append(queue, Of("ack", t)), UNCHANGED <<sending, shown>>
  PROVE  InOrder(t)'
<1>1. /\ Len(queue) \in Nat /\ Len(queue') = Len(queue) + 1
      /\ \A i \in 1..Len(queue) : queue'[i] = queue[i]
      /\ queue'[Len(queue) + 1] = Of("ack", t)
  BY AppendIs, FrameOf DEF TypeOK
<1>2. Of("ack", t) # Of("working", t)
  BY FrameOf
<1>3. Acked(t)'
  <2>1. ASSUME NEW i \in 1..Len(queue), AckBefore(t, i)
        PROVE  AckBefore(t, i)'
    BY <1>1, <2>1 DEF AckBefore
  <2>2. AckBefore(t, Len(queue) + 1)'
    BY <1>1 DEF AckBefore
  <2>3. QED  BY <1>1, <1>2, <2>1, <2>2 DEF InOrder, Acked
<1>4. Closed(t)'
  <2>1. ASSUME NEW i \in 0..Len(queue), IdleAfter(t, i)
        PROVE  IdleAfter(t, i)'
    BY <1>1, <2>1 DEF IdleAfter
  <2>2. QED  BY <1>1, <1>2, <2>1 DEF InOrder, Closed
<1>5. QED  BY <1>3, <1>4 DEF InOrder

(* A turn that starts says so behind its ack, and will say when it ends.   *)
LEMMA WorkingIsQueued ==
  ASSUME NEW t \in Turns, InOrder(t), TypeOK, turn[t] = "starting", clone[t] = "current",
         turn'[t] = "running", clone'[t] = "current",
         queue' = Append(queue, Of("working", t)), UNCHANGED <<sending, shown>>
  PROVE  InOrder(t)'
<1>1. /\ Len(queue) \in Nat /\ Len(queue') = Len(queue) + 1
      /\ \A i \in 1..Len(queue) : queue'[i] = queue[i]
      /\ queue'[Len(queue) + 1] = Of("working", t)
  BY AppendIs, FrameOf DEF TypeOK
<1>2. Acked(t)'
  <2>1. ASSUME NEW i \in 1..Len(queue)+1, AckBefore(t, i)
        PROVE  AckBefore(t, i)'
    BY <1>1, <2>1 DEF AckBefore
  <2>2. QED  BY <1>1, <2>1 DEF InOrder, Acked
<1>3. Closed(t)'
  BY DEF InOrder, Closed, IdleAfter
<1>4. QED  BY <1>2, <1>3 DEF InOrder

(* The frame that says a turn is over is behind all it said before.        *)
LEMMA IdleIsQueued ==
  ASSUME NEW t \in Turns, InOrder(t), TypeOK, turn'[t] = "none",
         queue' = Append(queue, Of("idle", t)), UNCHANGED <<sending, shown>>
  PROVE  InOrder(t)'
<1>1. /\ Len(queue) \in Nat /\ Len(queue') = Len(queue) + 1
      /\ \A i \in 1..Len(queue) : queue'[i] = queue[i]
      /\ queue'[Len(queue) + 1] = Of("idle", t)
  BY AppendIs, FrameOf DEF TypeOK
<1>2. Of("idle", t) # Of("working", t)
  BY FrameOf
<1>3. Acked(t)'
  <2>1. ASSUME NEW i \in 1..Len(queue), AckBefore(t, i)
        PROVE  AckBefore(t, i)'
    BY <1>1, <2>1 DEF AckBefore
  <2>2. QED  BY <1>1, <1>2, <2>1 DEF InOrder, Acked
<1>4. Closed(t)'
  <2>1. \A i \in 0..Len(queue) : IdleAfter(t, i)'
    BY <1>1 DEF IdleAfter
  <2>2. QED  BY <1>1, <1>2, <2>1 DEF InOrder, Closed
<1>5. QED  BY <1>3, <1>4 DEF InOrder

(* The writer takes the first frame of the channel.                        *)
LEMMA ReceiveInOrder ==
  ASSUME NEW t \in Turns, InOrder(t), TypeOK, sending = None, queue # <<>>,
         sending' = Head(queue), queue' = Tail(queue), UNCHANGED <<shown, turn, clone>>
  PROVE  InOrder(t)'
<1>1. /\ Len(queue) \in Nat /\ Len(queue) >= 1 /\ Len(queue') = Len(queue) - 1
      /\ sending' = queue[1] /\ sending' \in Frame
      /\ \A i \in 1..Len(queue') : queue'[i] = queue[i+1] /\ i+1 \in 2..Len(queue)
  BY TailIs DEF TypeOK
<1>2. \A kind \in {"ack", "working", "idle"} : sending # Of(kind, t)
  BY FrameOf, ConnectionAssumption
<1>3. sending' # None
  BY <1>1, ConnectionAssumption
<1>4. ASSUME NEW i \in 1..Len(queue), AckBefore(t, i + 1)
      PROVE  AckBefore(t, i)'
  <2>1. CASE \E j \in 1..i : queue[j] = Of("ack", t) /\ \A k \in j+1..i : queue[k].turn # t
    <3>1. PICK j \in 1..i : queue[j] = Of("ack", t) /\ \A k \in j+1..i : queue[k].turn # t
      BY <2>1
    <3>2. \A k \in 1..i-1 : queue'[k] = queue[k+1] /\ k+1 \in 2..i
      BY <1>1
    <3>3. CASE j = 1
      BY <1>1, <3>1, <3>2, <3>3 DEF AckBefore
    <3>4. CASE j > 1
      <4>1. j-1 \in 1..i-1 /\ queue'[j-1] = Of("ack", t)
        BY <1>1, <3>1, <3>4
      <4>2. \A k \in j..i-1 : queue'[k].turn # t
        BY <3>1, <3>2
      <4>3. QED  BY <4>1, <4>2 DEF AckBefore
    <3>5. QED  BY <3>3, <3>4
  <2>2. CASE (\A k \in 1..i : queue[k].turn # t) /\ shown[t] = "ack"
    BY <1>1, <2>2 DEF AckBefore
  <2>3. QED  BY <1>2, <1>4, <2>1, <2>2 DEF AckBefore
<1>5. Acked(t)'
  <2>1. sending' = Of("working", t) => shown[t] = "ack"
    BY <1>1, <1>2 DEF InOrder, Acked, AckBefore
  <2>2. \A i \in 1..Len(queue') : queue'[i] = Of("working", t) => AckBefore(t, i)'
    BY <1>1, <1>4 DEF InOrder, Acked
  <2>3. AckBefore(t, Len(queue) + 1) => AckBefore(t, Len(queue) + 1)'
    BY <1>1, <1>4
  <2>4. QED  BY <2>1, <2>2, <2>3 DEF InOrder, Acked
<1>6. Closed(t)'
  <2>1. ASSUME NEW i \in 0..Len(queue'), IdleAfter(t, i + 1)
        PROVE  IdleAfter(t, i)'
    <3>1. CASE \E j \in (i+1)+1..Len(queue) : queue[j] = Of("idle", t)
      <4>1. PICK j \in (i+1)+1..Len(queue) : queue[j] = Of("idle", t)
        BY <3>1
      <4>2. j-1 \in i+1..Len(queue') /\ queue'[j-1] = Of("idle", t)
        BY <1>1, <4>1
      <4>3. QED  BY <4>2 DEF IdleAfter
    <3>2. QED  BY <2>1, <3>1 DEF IdleAfter
  <2>2. IdleAfter(t, 0) => sending' = Of("idle", t) \/ IdleAfter(t, 1)
    BY <1>1 DEF IdleAfter
  <2>3. IdleAfter(t, 1) => IdleAfter(t, 0)'
    BY <1>1, <2>1
  <2>4. QED  BY <1>1, <1>2, <2>1, <2>2, <2>3 DEF InOrder, Closed
<1>7. QED  BY <1>5, <1>6 DEF InOrder

(* The frame at the socket is the next the server sees.                    *)
LEMMA SentInOrder ==
  ASSUME NEW t \in Turns, InOrder(t), TypeOK, FramesOK, SendDone
  PROVE  InOrder(t)'
<1>1. /\ sending \in Frame /\ sending' = None /\ UNCHANGED <<queue, turn, clone>>
      /\ shown' = IF sending.turn = None THEN shown
                  ELSE [shown EXCEPT ![sending.turn] = sending.kind]
  BY DEF SendDone, TypeOK, turnVars
<1>2. \A kind \in {"ack", "working", "idle"} : sending' # Of(kind, t)
  BY <1>1, FrameOf, ConnectionAssumption
<1>3. CASE sending.turn # t
  <2>1. shown'[t] = shown[t] /\ \A kind : sending # Of(kind, t)
    BY <1>1, <1>3 DEF TypeOK, Of
  <2>2. QED
    BY <1>1, <1>2, <2>1 DEF InOrder, Acked, Closed, AckBefore, IdleAfter
<1>4. CASE sending.turn = t
  <2>1. shown'[t] = sending.kind /\ sending = Of(sending.kind, t)
    BY <1>1, <1>4, ConnectionAssumption DEF TypeOK, Frame, Of
  <2>2. sending.kind \in {"ack", "working", "idle"}
    BY <1>1, <1>4, ConnectionAssumption DEF FramesOK, FrameOK
  <2>3. Acked(t)'
    <3>1. \A i \in 1..Len(queue)+1 : AckBefore(t, i) => AckBefore(t, i)'
      BY <1>1, <1>4, <2>1, FrameOf, ConnectionAssumption DEF AckBefore
    <3>2. QED
      BY <1>1, <1>2, <3>1 DEF InOrder, Acked, TypeOK
  <2>4. Closed(t)'
    BY <1>1, <1>2, <2>1, <2>2 DEF InOrder, Closed, IdleAfter
  <2>5. QED  BY <2>3, <2>4 DEF InOrder
<1>5. QED  BY <1>3, <1>4

-----------------------------------------------------------------------------
(* Every step keeps the frames of every turn in order.                     *)

LEMMA PlainSent ==
  ASSUME TypeOK, ConnectionOK, OrderOK, NEW kind \in {"ready", "other", "close"},
         Send(Plain(kind)), UNCHANGED <<socket, sending, shown, turnVars>>
  PROVE  OrderOK'
<1> SUFFICES ASSUME socket = "open", NEW t \in Turns PROVE InOrder(t)'
  BY DEF OrderOK, InOrder
<1>1. InOrder(t) /\ Queued(Plain(kind))
  BY SendIs DEF OrderOK, InOrder, ConnectionOK, Lost
<1>2. Plain(kind) \in Frame /\ Plain(kind).turn # t
  BY PlainFrame, ConnectionAssumption
<1>3. QED  BY <1>1, <1>2, OtherQueued DEF Queued, turnVars

LEMMA AckOrder ==
  ASSUME CInv, OrderOK, AckDelivery
  PROVE  OrderOK'
<1> USE DEF CInv
<1> SUFFICES ASSUME socket = "open", NEW t \in Turns PROVE InOrder(t)'
  BY DEF OrderOK, InOrder, AckDelivery
<1>1. /\ InOrder(t) /\ pending \in Turns /\ turn[pending] = "none"
      /\ queue' = Append(queue, Of("ack", pending)) /\ UNCHANGED <<sending, shown>>
      /\ turn' = [turn EXCEPT ![pending] = "starting"]
      /\ clone' = [clone EXCEPT ![pending] = "current"]
  BY DEF OrderOK, InOrder, ConnectionOK, AckDelivery, AckQueued, TryAppend
<1>2. CASE t = pending
  BY <1>1, <1>2, AckIsQueued DEF TypeOK
<1>3. CASE t # pending
  BY <1>1, <1>3, OtherQueued, FrameOf DEF TypeOK
<1>4. QED  BY <1>2, <1>3

LEMMA TurnOrder ==
  ASSUME CInv, OrderOK, NEW u \in Turns, Turn(u)
  PROVE  OrderOK'
<1> USE DEF CInv
<1>0. UNCHANGED <<socket, sending, shown>>
  BY DEF Turn, StartTurn, DeclineTurn, RunTurn, ReportIdle, wireVars
<1> SUFFICES ASSUME socket = "open", NEW t \in Turns, InOrder(t) PROVE InOrder(t)'
  BY <1>0 DEF OrderOK, InOrder
<1>1. CASE DeclineTurn(u) \/ RunTurn(u)
  BY <1>0, <1>1, NothingSent DEF DeclineTurn, RunTurn, EndTurn, wireVars, TypeOK
<1>2. CASE StartTurn(u)
  <2>1. CASE clone[u] = "current"
    <3>1. queue' = Append(queue, Of("working", u))
      BY <1>2, <2>1 DEF StartTurn, SendThrough, Send, TryAppend, ConnectionOK
    <3>2. CASE t = u
      BY <1>0, <1>2, <2>1, <3>1, <3>2, WorkingIsQueued DEF StartTurn, TypeOK
    <3>3. CASE t # u
      BY <1>0, <1>2, <3>1, <3>3, OtherQueued, FrameOf DEF StartTurn, TypeOK
    <3>4. QED  BY <3>2, <3>3
  <2>2. CASE clone[u] # "current"
    BY <1>0, <1>2, <2>2, NothingSent DEF StartTurn, SendThrough, TypeOK
  <2>3. QED  BY <2>1, <2>2
<1>3. CASE ReportIdle(u)
  <2>1. CASE clone[u] = "current"
    <3>1. queue' = Append(queue, Of("idle", u))
      BY <1>3, <2>1 DEF ReportIdle, SendThrough, Send, TryAppend, ConnectionOK
    <3>2. CASE t = u
      BY <1>0, <1>3, <3>1, <3>2, IdleIsQueued DEF ReportIdle, EndTurn, TypeOK
    <3>3. CASE t # u
      BY <1>0, <1>3, <3>1, <3>3, OtherQueued, FrameOf DEF ReportIdle, EndTurn, TypeOK
    <3>4. QED  BY <3>2, <3>3
  <2>2. CASE clone[u] # "current"
    BY <1>0, <1>3, <2>2, NothingSent DEF ReportIdle, EndTurn, SendThrough, TypeOK
  <2>3. QED  BY <2>1, <2>2
<1>4. QED  BY <1>1, <1>2, <1>3 DEF Turn

LEMMA LoopOrder ==
  ASSUME CInv, OrderOK, Loop
  PROVE  OrderOK'
<1> USE DEF CInv, loopVars, watchVars, wireVars
<1>1. CASE \/ Top \/ ConnectFails \/ BackOff \/ SeeShutdown \/ ReadRequest \/ ReadMigration
           \/ ReadEnd \/ \E t \in Turns : ReadDelivery(t)
  BY <1>1
  DEF Top, ConnectFails, BackOff, SeeShutdown, ReadRequest, ReadMigration, ReadEnd, ReadDelivery,
      turnVars, OrderOK, Acked, Closed, AckBefore, IdleAfter
<1>2. CASE ConnectSucceeds
  <2>1. \A t \in Turns : clone'[t] # "current" /\ shown'[t] = "none"
    BY <1>2 DEF ConnectSucceeds, ConnectionOK, NothingShown, turnVars
  <2>2. queue' = <<>> /\ sending' = None /\ Len(queue') = 0
    BY <1>2 DEF ConnectSucceeds
  <2>3. \A t \in Turns : sending' # Of("working", t)
    BY <2>2, FrameOf, ConnectionAssumption
  <2>4. QED  BY <2>1, <2>2, <2>3 DEF OrderOK, Acked, Closed
<1>3. CASE Open \/ Reply \/ Close
  BY <1>3, PlainSent DEF Open, Reply, Close
<1>4. CASE Drained
  BY <1>4 DEF Drained, OrderOK
<1>5. QED  BY <1>1, <1>2, <1>3, <1>4, AckOrder DEF Loop

LEMMA WriterOrder ==
  ASSUME CInv, OrderOK, Writer
  PROVE  OrderOK'
<1> USE DEF CInv
<1>1. CASE Receive
  BY <1>1, ReceiveInOrder DEF Receive, OrderOK, InOrder, turnVars
<1>2. CASE SendDone
  BY <1>2, SentInOrder DEF SendDone, OrderOK, InOrder
<1>3. CASE SendFails \/ CloseSink
  BY <1>3 DEF SendFails, CloseSink, OrderOK
<1>4. CASE WriterEnds
  BY <1>4 DEF WriterEnds, turnVars, OrderOK, Acked, Closed, AckBefore, IdleAfter
<1>5. QED  BY <1>1, <1>2, <1>3, <1>4 DEF Writer

LEMMA RestOrder ==
  ASSUME CInv, OrderOK, Pinger \/ Signal \/ SignalSetupFails \/ Lose
  PROVE  OrderOK'
<1> USE DEF CInv, wireVars
<1>1. CASE Tick \/ Signal \/ SignalSetupFails
  BY <1>1
  DEF Tick, Signal, SignalSetupFails, turnVars, OrderOK, Acked, Closed, AckBefore, IdleAfter
<1>2. CASE Lose
  BY <1>2 DEF Lose, OrderOK
<1>3. CASE Ping
  BY <1>3, PlainSent DEF Ping
<1>4. QED  BY <1>1, <1>2, <1>3 DEF Pinger

LEMMA OrderHolds == Spec => []IInv
<1>1. CInv /\ OrderOK /\ [Next]_vars => OrderOK'
  <2>1. ASSUME OrderOK, UNCHANGED vars PROVE OrderOK'
    BY <2>1 DEF vars, wireVars, turnVars, OrderOK, Acked, Closed, AckBefore, IdleAfter
  <2>2. QED  BY <2>1, LoopOrder, WriterOrder, TurnOrder, RestOrder DEF Next
<1>2. Init => OrderOK
  BY DEF Init, OrderOK
<1>3. QED  BY <1>1, <1>2, ConnectionHolds, PTL DEF Spec, IInv

(* As long as the connection holds, a turn shown as working and over has   *)
(* its closing frame on the way (run_agent_turn's last send).              *)
THEOREM IdleIsOnItsWay == Spec => []IdleReachesServer
<1>1. IInv => IdleReachesServer
  BY DEF IInv, OrderOK, Closed, IdleAfter, IdleReachesServer
<1>2. QED  BY <1>1, OrderHolds, PTL

(* The server sees a delivery acked before it sees the agent at work on it *)
(* (AckDelivery, StartTurn).                                               *)
THEOREM AckComesFirst == Spec => AckPrecedesWorking
<1>1. ASSUME IInv, [Next]_vars
      PROVE  [\A t \in Turns : shown'[t] = "working" /\ shown[t] # "working"
                => shown[t] = "ack"]_vars
  <2> SUFFICES ASSUME Next, NEW t \in Turns, shown'[t] = "working", shown[t] # "working"
               PROVE  shown[t] = "ack"
    BY <1>1 DEF vars, wireVars
  <2>1. shown' = shown \/ shown' = NothingShown \/ SendDone
    BY DEF Next, Loop, Top, ConnectSucceeds, ConnectFails, BackOff, Open, SeeShutdown,
           ReadRequest, ReadMigration, Reply, AckDelivery, ReadEnd, Close, Drained, ReadDelivery,
           Writer, Receive, SendFails, WriterEnds, CloseSink, Pinger, Tick, Ping,
           Signal, SignalSetupFails, Lose, Turn, StartTurn, DeclineTurn, RunTurn, ReportIdle,
           wireVars
  <2>2. SendDone
    BY <2>1 DEF NothingShown
  <2>3. sending \in Frame /\ sending.turn = t /\ sending.kind = "working"
    BY <1>1, <2>2 DEF SendDone, IInv, CInv, TypeOK
  <2>4. sending = Of("working", t)
    BY <2>3 DEF Frame, Of
  <2>5. QED  BY <1>1, <2>2, <2>4 DEF SendDone, IInv, OrderOK, Acked
<1>2. QED  BY <1>1, OrderHolds, PTL DEF Spec, AckPrecedesWorking

=============================================================================
