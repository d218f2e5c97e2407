------------------------ MODULE AgentLifecycleProofs ------------------------
(***************************************************************************)
(* Proofs about AgentLifecycle for every set of agents, launches and       *)
(* processes and every finite set of deliveries: its invariants, its       *)
(* action properties, what the server is told, and that it implements      *)
(* TurnService.                                                            *)
(***************************************************************************)
EXTENDS AgentLifecycle, FiniteSetTheorems, TLAPS

(* What a reference reaches is an AgentProcess.                            *)
ReachedIsProcess == \A p \in ProcIds : InUse(p) => process[p] \in Process

(* The dispatcher's record of the start or stop it runs.                   *)
LoopOK ==
  /\ loop.op = "none" => /\ loop.pc \in {"boot", "offline", "restore", "idle"}
                         /\ loop.agent = None /\ loop.launch = None /\ loop.proc = None
  /\ loop.op = "start" => /\ loop.pc \in {"minting", "persist", "write", "finish"}
                          /\ loop.agent \in Agents /\ loop.launch \in Launches
                          /\ loop.proc \in ProcIds
  /\ loop.op = "stop" => /\ loop.pc \in {"persist", "write", "finish"}
                         /\ loop.agent \in Agents /\ loop.launch = None
                         /\ loop.proc = None /\ toRestore = {}
  /\ loop.pc \in {"boot", "offline", "idle"} => toRestore = {}
  /\ \A a \in toRestore : saved[a] # None

(* A task that has begun knows its agent, and holds a clone until its end. *)
TurnsOK ==
  \A d \in Deliveries :
    /\ turn[d] = "spawned" \/ turn[d] \in Cloned => to[d] \in Agents
    /\ turn[d] \in Cloned <=> snap[d] # None

(* A lock has the holder that thinks it has it, and no other.              *)
LocksOK ==
  /\ \A d \in Deliveries : turn[d] \in Locked => holder[snap[d]] = d
  /\ \A p \in ProcIds : holder[p] # None => /\ turn[holder[p]] \in Locked
                                            /\ snap[holder[p]] = p

IInv ==
  /\ TypeOK
  /\ ReachedIsProcess
  /\ LoopOK
  /\ TurnsOK
  /\ LocksOK
  /\ ActiveTurnsCounted

Counted == {d \in Deliveries : turn[d] \in Cloned \cup {"panicked"}}

-----------------------------------------------------------------------------
(* The counted deliveries form a finite set, whatever the turns are.       *)
LEMMA CountedFinite ==
  /\ IsFiniteSet(Counted) /\ Cardinality(Counted) \in Nat
  /\ IsFiniteSet(Counted') /\ Cardinality(Counted') \in Nat
<1>1. Counted \subseteq Deliveries /\ Counted' \subseteq Deliveries
  BY DEF Counted
<1>2. IsFiniteSet(Counted) /\ IsFiniteSet(Counted')
  BY <1>1, ConstantsAssumption, FS_Subset
<1>3. QED  BY <1>2, FS_CardinalityType

(* A task that begins adds one to the count.                               *)
LEMMA CountUp ==
  ASSUME NEW d \in Deliveries, ActiveTurnsCounted, d \notin Counted,
         Counted' = Counted \cup {d}, active' = active + 1
  PROVE  ActiveTurnsCounted'
<1>1. Cardinality(Counted') = Cardinality(Counted) + 1
  BY CountedFinite, FS_AddElement
<1>2. QED  BY <1>1 DEF ActiveTurnsCounted, Counted

(* A task that returns takes one off, and there was one to take off.       *)
LEMMA CountDown ==
  ASSUME NEW d \in Deliveries, ActiveTurnsCounted, d \in Counted,
         Counted' = Counted \ {d}, active' = active - 1
  PROVE  ActiveTurnsCounted' /\ active' \in Nat
<1>1. Cardinality(Counted') = Cardinality(Counted) - 1
  BY CountedFinite, FS_RemoveElement
<1>2. QED  BY <1>1, CountedFinite DEF ActiveTurnsCounted, Counted

(* A step that counts no delivery in or out.                               *)
LEMMA CountSame ==
  ASSUME ActiveTurnsCounted, Counted' = Counted, active' = active
  PROVE  ActiveTurnsCounted'
BY DEF ActiveTurnsCounted, Counted

-----------------------------------------------------------------------------
(* The invariant holds at the start, and every action keeps it.            *)

LEMMA InitInv == Init => IInv
<1> SUFFICES ASSUME Init PROVE IInv  OBVIOUS
<1>1. TypeOK
  BY ConstantsAssumption
  DEF Init, TypeOK, NothingRuns, RunningMap, At, Idle, LoopState, TurnState
<1>2. ReachedIsProcess
  BY ConstantsAssumption DEF Init, ReachedIsProcess, InUse, At, Idle
<1>3. LoopOK /\ TurnsOK /\ LocksOK
  BY ConstantsAssumption DEF Init, LoopOK, At, Idle, TurnsOK, LocksOK, Cloned, Locked
<1>4. ActiveTurnsCounted
  <2>1. {d \in Deliveries : turn[d] \in Cloned \cup {"panicked"}} = {}
    BY DEF Init, Cloned, Locked
  <2>2. QED  BY <2>1, FS_EmptySet DEF Init, ActiveTurnsCounted
<1>5. QED  BY <1>1, <1>2, <1>3, <1>4 DEF IInv

(* A process that reports an activity stays a process.                     *)
LEMMA ReportType ==
  ASSUME NEW q \in Process, NEW kind \in {"idle", "working", "error"}
  PROVE  Report(q, kind) \in Process
<1> DEFINE counted == [q EXCEPT !.seq = q.seq + 1]
<1>1. counted \in Process
  BY DEF Process
<1>2. [counted EXCEPT !.latest = kind] \in Process
  BY <1>1 DEF Process
<1>3. Report(q, kind) = [counted EXCEPT !.latest = kind]
  BY DEF Report
<1>4. QED  BY <1>2, <1>3

(* The dispatcher's own steps leave the turns, the clones and the locks    *)
(* alone, so three conjuncts carry over.                                   *)
LEMMA TurnsUntouched ==
  ASSUME IInv, UNCHANGED turnVars
  PROVE  TurnsOK' /\ LocksOK' /\ ActiveTurnsCounted'
BY DEF IInv, turnVars, TurnsOK, LocksOK, ActiveTurnsCounted, Cloned, Locked

LEMMA ConnectInv == IInv /\ Connect => IInv'
<1> SUFFICES ASSUME IInv, Connect PROVE IInv'  OBVIOUS
<1>1. TypeOK'
  BY ConstantsAssumption
  DEF IInv, TypeOK, LoopOK, Connect, turnVars, Return, At, Idle, LoopState
<1>2. ReachedIsProcess'
  BY ConstantsAssumption
  DEF IInv, TypeOK, ReachedIsProcess, InUse, Connect, turnVars, Return, At, Idle
<1>3. LoopOK'
  BY DEF IInv, LoopOK, Connect, Return, At, Idle
<1>4. QED  BY <1>1, <1>2, <1>3, TurnsUntouched DEF IInv, Connect

LEMMA LinkInv == IInv /\ (WriterDies \/ Disconnect) => IInv'
<1> SUFFICES ASSUME IInv, WriterDies \/ Disconnect PROVE IInv'  OBVIOUS
<1>1. TypeOK'
  BY DEF IInv, TypeOK, WriterDies, Disconnect, hostVars, turnVars, At, Idle, LoopState
<1>2. ReachedIsProcess'
  BY ConstantsAssumption
  DEF IInv, TypeOK, LoopOK, ReachedIsProcess, InUse, WriterDies, Disconnect, hostVars,
      turnVars, At, Idle
<1>3. LoopOK'
  BY DEF IInv, LoopOK, WriterDies, Disconnect, hostVars, At, Idle
<1>4. QED  BY <1>1, <1>2, <1>3, TurnsUntouched DEF IInv, WriterDies, Disconnect

(* The process a start builds takes a name that no reference holds.        *)
LEMMA BeginStartInv ==
  ASSUME IInv, NEW a \in Agents, NEW l \in Launches, NEW rest \in SUBSET Agents,
         NEW before \in [Agents -> {"none", "asked", "active", "inactive", "failed"}],
         loop.pc \in {"idle", "restore"}, rest \subseteq toRestore,
         BeginStart(a, l, rest, before)
  PROVE  IInv'
<1>1. CASE process' = process /\ loop' = Return(rest)
  <2>1. TypeOK'
    BY <1>1 DEF IInv, TypeOK, BeginStart, Told, turnVars, Return, At, Idle, LoopState, Op
  <2>2. ReachedIsProcess'
    BY <1>1, ConstantsAssumption
    DEF IInv, TypeOK, ReachedIsProcess, InUse, BeginStart, turnVars, Return, At, Idle
  <2>3. LoopOK'
    BY <1>1 DEF IInv, LoopOK, BeginStart, Return, At, Idle
  <2>4. QED  BY <2>1, <2>2, <2>3, TurnsUntouched DEF IInv, BeginStart
<1>2. ASSUME NEW p \in ProcIds, ~InUse(p),
             process' = [process EXCEPT ![p] = FromStart(a, l)],
             loop' = Op("start", a, l, p, "minting"), status' = before
      PROVE  IInv'
  <2>0. FromStart(a, l) \in Process
    BY DEF FromStart, Process
  <2>1. TypeOK'
    BY <1>2, <2>0 DEF IInv, TypeOK, BeginStart, turnVars, Op, LoopState
  <2>2. ReachedIsProcess'
    BY <1>2, <2>0, ConstantsAssumption
    DEF IInv, TypeOK, ReachedIsProcess, InUse, BeginStart, turnVars, Op
  <2>3. LoopOK'
    BY <1>2 DEF IInv, LoopOK, BeginStart, Op
  <2>4. QED  BY <2>1, <2>2, <2>3, TurnsUntouched DEF IInv, BeginStart
<1>3. QED  BY <1>1, <1>2 DEF BeginStart

LEMMA StartAgentInv ==
  ASSUME IInv, NEW a \in Agents, NEW l \in Launches, StartAgent(a, l)
  PROVE  IInv'
<1>1. [status EXCEPT ![a] = "asked"]
        \in [Agents -> {"none", "asked", "active", "inactive", "failed"}]
  BY DEF IInv, TypeOK
<1>2. /\ loop.pc = "idle" /\ {} \in SUBSET Agents /\ {} \subseteq toRestore
      /\ BeginStart(a, l, {}, [status EXCEPT ![a] = "asked"])
  BY DEF StartAgent
<1>3. QED  BY <1>1, <1>2, BeginStartInv

LEMMA RestoreInv ==
  ASSUME IInv, NEW a \in Agents, Restore(a)
  PROVE  IInv'
<1>1. CASE registry[a] # None
  <2>1. TypeOK'
    BY <1>1 DEF IInv, TypeOK, Restore, StillToVisit, turnVars, Return, At, Idle, LoopState
  <2>2. ReachedIsProcess'
    BY <1>1, ConstantsAssumption
    DEF IInv, TypeOK, ReachedIsProcess, InUse, Restore, turnVars, Return, At, Idle
  <2>3. LoopOK'
    BY <1>1 DEF IInv, LoopOK, Restore, StillToVisit, Return, At, Idle
  <2>4. QED  BY <1>1, <2>1, <2>2, <2>3, TurnsUntouched DEF IInv, Restore
<1>2. CASE registry[a] = None
  <2>1. saved[a] \in Launches
    BY DEF IInv, TypeOK, LoopOK, Restore, RunningMap
  <2>2. StillToVisit(a) \in SUBSET Agents /\ StillToVisit(a) \subseteq toRestore
    BY DEF IInv, TypeOK, StillToVisit
  <2>3. status \in [Agents -> {"none", "asked", "active", "inactive", "failed"}]
    BY DEF IInv, TypeOK
  <2>4. loop.pc = "restore" /\ BeginStart(a, saved[a], StillToVisit(a), status)
    BY <1>2 DEF Restore
  <2>5. QED  BY <2>1, <2>2, <2>3, <2>4, BeginStartInv
<1>3. QED  BY <1>1, <1>2

LEMMA InstallInv == IInv /\ Install => IInv'
<1> SUFFICES ASSUME IInv, Install PROVE IInv'  OBVIOUS
<1>1. loop.op = "start" /\ loop.proc \in ProcIds /\ loop.agent \in Agents
  BY DEF IInv, TypeOK, LoopOK, LoopState, Install
<1>2. process[loop.proc] \in Process
  BY <1>1 DEF IInv, ReachedIsProcess, InUse
<1>3. Report(process[loop.proc], "idle") \in Process
  BY <1>2, ReportType
<1>4. TypeOK'
  BY <1>1, <1>3 DEF IInv, TypeOK, Install, turnVars, LoopState
<1>5. ReachedIsProcess'
  BY <1>1, <1>3, ConstantsAssumption
  DEF IInv, TypeOK, ReachedIsProcess, InUse, Install, turnVars, LoopState
<1>6. LoopOK'
  BY <1>1 DEF IInv, TypeOK, LoopOK, LoopState, Install
<1>7. QED  BY <1>4, <1>5, <1>6, TurnsUntouched DEF IInv, Install

LEMMA OpenStateInv == IInv /\ OpenState => IInv'
<1> SUFFICES ASSUME IInv, OpenState PROVE IInv'  OBVIOUS
<1>1. loop.op \in {"start", "stop"} /\ loop.agent \in Agents
  BY DEF IInv, TypeOK, LoopOK, LoopState, OpenState
<1>2. Recorded \in RunningMap
  BY <1>1 DEF IInv, TypeOK, LoopState, Recorded, RunningMap
<1>3. TypeOK'
  BY <1>2 DEF IInv, TypeOK, OpenState, turnVars, LoopState
<1>4. ReachedIsProcess'
  BY DEF IInv, TypeOK, ReachedIsProcess, InUse, OpenState, turnVars, LoopState
<1>5. LoopOK'
  <2>1. \A a \in toRestore' : saved'[a] # None
    BY <1>1, ConstantsAssumption
    DEF IInv, TypeOK, LoopOK, RunningMap, OpenState, Recorded
  <2>2. QED  BY <1>1, <2>1 DEF IInv, TypeOK, LoopOK, LoopState, OpenState
<1>6. QED  BY <1>3, <1>4, <1>5, TurnsUntouched DEF IInv, OpenState

LEMMA WriteStateInv == IInv /\ WriteState => IInv'
<1> SUFFICES ASSUME IInv, WriteState PROVE IInv'  OBVIOUS
<1>1. TypeOK'
  BY DEF IInv, TypeOK, WriteState, Content, turnVars, LoopState
<1>2. ReachedIsProcess'
  BY DEF IInv, TypeOK, ReachedIsProcess, InUse, WriteState, turnVars, LoopState
<1>3. LoopOK'
  BY DEF IInv, TypeOK, LoopOK, LoopState, WriteState
<1>4. QED  BY <1>1, <1>2, <1>3, TurnsUntouched DEF IInv, WriteState

LEMMA AnnounceInv == IInv /\ Announce => IInv'
<1> SUFFICES ASSUME IInv, Announce PROVE IInv'  OBVIOUS
<1>1. TypeOK'
  BY DEF IInv, TypeOK, Announce, Tell, Told, Return, At, Idle, turnVars, LoopState
<1>2. ReachedIsProcess'
  BY ConstantsAssumption
  DEF IInv, TypeOK, ReachedIsProcess, InUse, Announce, Return, At, Idle, turnVars
<1>3. LoopOK'
  BY DEF IInv, LoopOK, Announce, Return, At, Idle
<1>4. QED  BY <1>1, <1>2, <1>3, TurnsUntouched DEF IInv, Announce

LEMMA StopAgentInv ==
  ASSUME IInv, NEW a \in Agents, StopAgent(a)
  PROVE  IInv'
<1>1. TypeOK'
  BY DEF IInv, TypeOK, StopAgent, Op, turnVars, LoopState
<1>2. ReachedIsProcess'
  BY ConstantsAssumption
  DEF IInv, TypeOK, ReachedIsProcess, InUse, StopAgent, Op, turnVars
<1>3. LoopOK'
  BY DEF IInv, LoopOK, StopAgent, Op
<1>4. QED  BY <1>1, <1>2, <1>3, TurnsUntouched DEF IInv, StopAgent

LEMMA RetireInv == IInv /\ Retire => IInv'
<1> SUFFICES ASSUME IInv, Retire PROVE IInv'  OBVIOUS
<1>1. TypeOK'
  BY DEF IInv, TypeOK, Retire, RegistryWithout, Tell, Told, Return, At, Idle, turnVars,
         LoopState
<1>2. ReachedIsProcess'
  BY ConstantsAssumption
  DEF IInv, TypeOK, ReachedIsProcess, InUse, Retire, RegistryWithout, Return, At, Idle,
      turnVars
<1>3. LoopOK'
  BY DEF IInv, LoopOK, Retire, Return, At, Idle
<1>4. QED  BY <1>1, <1>2, <1>3, TurnsUntouched DEF IInv, Retire

LEMMA ProbeInv ==
  ASSUME IInv, NEW a \in Agents, Probe(a)
  PROVE  IInv'
<1>1. registry[a] \in ProcIds /\ process[registry[a]] \in Process
  BY DEF IInv, TypeOK, ReachedIsProcess, InUse, Probe
<1>2. Report(process[registry[a]], "idle") \in Process
  BY <1>1, ReportType
<1>3. TypeOK'
  BY <1>1, <1>2 DEF IInv, TypeOK, Probe, turnVars
<1>4. ReachedIsProcess'
  BY <1>1, <1>2 DEF IInv, TypeOK, ReachedIsProcess, InUse, Probe, turnVars
<1>5. LoopOK'
  BY DEF IInv, LoopOK, Probe
<1>6. QED  BY <1>3, <1>4, <1>5, TurnsUntouched DEF IInv, Probe

LEMMA DeliverInv ==
  ASSUME IInv, NEW d \in Deliveries, NEW a \in Agents, NEW body \in Bodies,
         Deliver(d, a, body)
  PROVE  IInv'
<1>1. Dispatched(a, body) \in {"unknown", "ignored", "spawned"}
  BY DEF Dispatched
<1>2. TypeOK'
  BY <1>1 DEF IInv, TypeOK, Deliver, hostVars, TurnState, Terminal
<1>3. ReachedIsProcess' /\ LoopOK'
  BY DEF IInv, TypeOK, ReachedIsProcess, InUse, LoopOK, Deliver, hostVars
<1>4. TurnsOK' /\ LocksOK'
  BY <1>1 DEF IInv, TypeOK, TurnsOK, LocksOK, Deliver, Cloned, Locked
<1>5. Counted' = Counted
  BY <1>1 DEF IInv, TypeOK, Deliver, Counted, Cloned, Locked
<1>6. QED  BY <1>2, <1>3, <1>4, <1>5, CountSame DEF IInv, Deliver

-----------------------------------------------------------------------------
(* The steps of a turn.  The dispatcher's state stays as it is.            *)

LEMMA BeginTurnInv ==
  ASSUME IInv, NEW d \in Deliveries, BeginTurn(d)
  PROVE  IInv'
<1>1. to[d] \in Agents /\ snap[d] = None
  BY DEF IInv, TypeOK, TurnsOK, BeginTurn, Cloned, Locked
<1>2. LoopOK'
  BY DEF IInv, LoopOK, BeginTurn, turnFrame
<1>3. CASE registry[to[d]] = None
  <2>1. TypeOK' /\ ReachedIsProcess'
    BY <1>3 DEF IInv, TypeOK, ReachedIsProcess, InUse, BeginTurn, turnFrame, TurnState, Terminal
  <2>2. TurnsOK' /\ LocksOK'
    BY <1>1, <1>3, ConstantsAssumption
    DEF IInv, TypeOK, TurnsOK, LocksOK, BeginTurn, turnFrame, Cloned, Locked
  <2>3. Counted' = Counted /\ active' = active
    BY <1>3 DEF IInv, TypeOK, BeginTurn, Counted, Cloned, Locked
  <2>4. QED  BY <1>2, <2>1, <2>2, <2>3, CountSame DEF IInv
<1>4. CASE registry[to[d]] # None
  <2>1. registry[to[d]] \in ProcIds
    BY <1>1, <1>4 DEF IInv, TypeOK
  <2>2. TypeOK'
    BY <1>4, <2>1 DEF IInv, TypeOK, BeginTurn, turnFrame, TurnState, Cloned
  <2>3. ReachedIsProcess'
    BY <1>1, <1>4, <2>1, ConstantsAssumption
    DEF IInv, TypeOK, ReachedIsProcess, InUse, BeginTurn, turnFrame
  <2>4. TurnsOK' /\ LocksOK'
    BY <1>1, <1>4, <2>1, ConstantsAssumption
    DEF IInv, TypeOK, TurnsOK, LocksOK, BeginTurn, turnFrame, Cloned, Locked
  <2>5. d \notin Counted /\ Counted' = Counted \cup {d} /\ active' = active + 1
    BY <1>4 DEF IInv, TypeOK, BeginTurn, Counted, Cloned, Locked
  <2>6. QED  BY <1>2, <2>2, <2>3, <2>4, <2>5, CountUp DEF IInv
<1>5. QED  BY <1>3, <1>4

LEMMA PrepareInv ==
  ASSUME IInv, NEW d \in Deliveries, Prepare(d)
  PROVE  IInv'
<1>2. LoopOK'
  BY DEF IInv, LoopOK, Prepare, turnFrame
<1>3. CASE turn' = [turn EXCEPT ![d] = "waiting"] /\ UNCHANGED <<snap, active>>
  <2>1. TypeOK' /\ ReachedIsProcess'
    BY <1>3 DEF IInv, TypeOK, ReachedIsProcess, InUse, Prepare, turnFrame, TurnState, Cloned
  <2>2. TurnsOK' /\ LocksOK'
    BY <1>3, ConstantsAssumption
    DEF IInv, TypeOK, TurnsOK, LocksOK, Prepare, turnFrame, Cloned, Locked
  <2>3. Counted' = Counted
    BY <1>3 DEF IInv, TypeOK, Prepare, Counted, Cloned, Locked
  <2>4. QED  BY <1>2, <1>3, <2>1, <2>2, <2>3, CountSame DEF IInv
<1>4. CASE /\ turn' = [turn EXCEPT ![d] = "declined"]
           /\ snap' = [snap EXCEPT ![d] = None]
           /\ active' = CountedDown
  <2>1. d \in Counted /\ Counted' = Counted \ {d} /\ active' = active - 1
    BY <1>4 DEF IInv, TypeOK, Prepare, Counted, Cloned, Locked, CountedDown
  <2>2. ActiveTurnsCounted' /\ active' \in Nat
    BY <2>1, CountDown DEF IInv
  <2>3. TypeOK'
    BY <1>4, <2>2 DEF IInv, TypeOK, Prepare, turnFrame, TurnState, Terminal
  <2>4. ReachedIsProcess'
    BY <1>4, ConstantsAssumption DEF IInv, TypeOK, ReachedIsProcess, InUse, Prepare, turnFrame
  <2>5. TurnsOK' /\ LocksOK'
    BY <1>4, ConstantsAssumption
    DEF IInv, TypeOK, TurnsOK, LocksOK, Prepare, turnFrame, Cloned, Locked
  <2>6. QED  BY <1>2, <2>2, <2>3, <2>4, <2>5 DEF IInv
<1>5. QED  BY <1>3, <1>4 DEF Prepare

(* A turn at work has a clone of a live process.                           *)
LEMMA CloneIsProcess ==
  ASSUME IInv, NEW d \in Deliveries, turn[d] \in Cloned
  PROVE  snap[d] \in ProcIds /\ process[snap[d]] \in Process
BY DEF IInv, TypeOK, TurnsOK, ReachedIsProcess, InUse

LEMMA AcquireLockInv ==
  ASSUME IInv, NEW d \in Deliveries, AcquireLock(d)
  PROVE  IInv'
<1>1. snap[d] \in ProcIds /\ Report(process[snap[d]], "working") \in Process
  BY CloneIsProcess, ReportType DEF AcquireLock, Cloned
<1>2. LoopOK'
  BY DEF IInv, LoopOK, AcquireLock, turnFrame
<1>3. TypeOK'
  BY <1>1 DEF IInv, TypeOK, AcquireLock, turnFrame, TurnState, Cloned, Locked
<1>4. ReachedIsProcess'
  BY <1>1 DEF IInv, TypeOK, ReachedIsProcess, InUse, AcquireLock, turnFrame
<1>5. TurnsOK'
  BY DEF IInv, TypeOK, TurnsOK, AcquireLock, turnFrame, Cloned, Locked
<1>6. LocksOK'
  BY <1>1, ConstantsAssumption
  DEF IInv, TypeOK, TurnsOK, LocksOK, AcquireLock, LockFree, turnFrame, Cloned, Locked
<1>7. Counted' = Counted /\ active' = active
  BY DEF IInv, TypeOK, AcquireLock, Counted, Cloned, Locked
<1>8. QED  BY <1>2, <1>3, <1>4, <1>5, <1>6, <1>7, CountSame DEF IInv

LEMMA RunOneTurnInv ==
  ASSUME IInv, NEW d \in Deliveries, RunOneTurn(d)
  PROVE  IInv'
<1>1. snap[d] \in ProcIds /\ Report(process[snap[d]], "error") \in Process
  BY CloneIsProcess, ReportType DEF RunOneTurn, Cloned, Locked
<1>2. LoopOK'
  BY DEF IInv, LoopOK, RunOneTurn, turnFrame
<1>3. TypeOK'
  BY <1>1 DEF IInv, TypeOK, RunOneTurn, ReportError, turnFrame, TurnState, Cloned, Locked
<1>4. ReachedIsProcess'
  BY <1>1 DEF IInv, TypeOK, ReachedIsProcess, InUse, RunOneTurn, ReportError, turnFrame
<1>5. TurnsOK' /\ LocksOK'
  BY ConstantsAssumption
  DEF IInv, TypeOK, TurnsOK, LocksOK, RunOneTurn, turnFrame, Cloned, Locked
<1>6. Counted' = Counted /\ active' = active
  BY DEF IInv, TypeOK, RunOneTurn, Counted, Cloned, Locked
<1>7. QED  BY <1>2, <1>3, <1>4, <1>5, <1>6, CountSame DEF IInv

LEMMA PostReplyInv ==
  ASSUME IInv, NEW d \in Deliveries, PostReply(d)
  PROVE  IInv'
<1>1. LoopOK'
  BY DEF IInv, LoopOK, PostReply, turnFrame
<1>2. TypeOK' /\ ReachedIsProcess'
  BY DEF IInv, TypeOK, ReachedIsProcess, InUse, PostReply, turnFrame, TurnState, Cloned, Locked
<1>3. TurnsOK' /\ LocksOK'
  BY ConstantsAssumption
  DEF IInv, TypeOK, TurnsOK, LocksOK, PostReply, turnFrame, Cloned, Locked
<1>4. Counted' = Counted /\ active' = active
  BY DEF IInv, TypeOK, PostReply, Counted, Cloned, Locked
<1>5. QED  BY <1>1, <1>2, <1>3, <1>4, CountSame DEF IInv

(* Leaving, after a last report or none.                                   *)
LEMMA LeaveInv ==
  ASSUME IInv, NEW d \in Deliveries, turn[d] \in Locked, Leave(d),
         process' = process \/ process' = [process EXCEPT ![snap[d]] = Report(@, "idle")]
  PROVE  IInv'
<1>1. snap[d] \in ProcIds /\ Report(process[snap[d]], "idle") \in Process
  BY CloneIsProcess, ReportType DEF Cloned
<1>2. LoopOK'
  BY DEF IInv, LoopOK, Leave, turnFrame
<1>3. d \in Counted /\ Counted' = Counted \ {d} /\ active' = active - 1
  BY DEF IInv, TypeOK, Leave, Counted, Cloned, Locked, CountedDown
<1>4. ActiveTurnsCounted' /\ active' \in Nat
  BY <1>3, CountDown DEF IInv
<1>5. TypeOK'
  BY <1>1, <1>4 DEF IInv, TypeOK, Leave, Released, turnFrame, TurnState, Terminal
<1>6. ReachedIsProcess'
  BY <1>1, ConstantsAssumption
  DEF IInv, TypeOK, ReachedIsProcess, InUse, Leave, turnFrame
<1>7. TurnsOK'
  BY DEF IInv, TypeOK, TurnsOK, Leave, turnFrame, Cloned, Locked
<1>8. LocksOK'
  BY <1>1, ConstantsAssumption
  DEF IInv, TypeOK, TurnsOK, LocksOK, Leave, Released, turnFrame, Cloned, Locked
<1>9. QED  BY <1>2, <1>4, <1>5, <1>6, <1>7, <1>8 DEF IInv

LEMMA FinishInv ==
  ASSUME IInv, NEW d \in Deliveries, FinishTurn(d) \/ Apologize(d)
  PROVE  IInv'
BY LeaveInv DEF FinishTurn, Apologize, Locked

LEMMA PanicInv ==
  ASSUME IInv, NEW d \in Deliveries, PanicInTurn(d)
  PROVE  IInv'
<1>1. snap[d] \in ProcIds
  BY CloneIsProcess DEF PanicInTurn, Cloned, Locked
<1>2. LoopOK'
  BY DEF IInv, LoopOK, PanicInTurn, turnFrame
<1>3. TypeOK'
  BY <1>1 DEF IInv, TypeOK, PanicInTurn, Released, turnFrame, TurnState, Terminal
<1>4. ReachedIsProcess'
  BY <1>1, ConstantsAssumption
  DEF IInv, TypeOK, ReachedIsProcess, InUse, PanicInTurn, turnFrame
<1>5. TurnsOK'
  BY DEF IInv, TypeOK, TurnsOK, PanicInTurn, turnFrame, Cloned, Locked
<1>6. LocksOK'
  BY <1>1, ConstantsAssumption
  DEF IInv, TypeOK, TurnsOK, LocksOK, PanicInTurn, Released, turnFrame, Cloned, Locked
<1>7. Counted' = Counted /\ active' = active
  BY DEF IInv, TypeOK, PanicInTurn, Counted, Cloned, Locked
<1>8. QED  BY <1>2, <1>3, <1>4, <1>5, <1>6, <1>7, CountSame DEF IInv

(* The end of the daemon empties everything but the state file.            *)
LEMMA DaemonExitInv == IInv /\ DaemonExit => IInv'
<1> SUFFICES ASSUME IInv, DaemonExit PROVE IInv'  OBVIOUS
<1>1. \A d \in Deliveries : turn'[d] \in Terminal \cup {"none"}
  BY DEF IInv, TypeOK, DaemonExit, TurnState, Terminal
<1>2. Loaded(disk) \in RunningMap
  BY DEF IInv, TypeOK, Loaded, NothingRuns, RunningMap
<1>3. TypeOK'
  BY <1>2, ConstantsAssumption
  DEF IInv, TypeOK, DaemonExit, At, Idle, LoopState, TurnState, Terminal
<1>4. ReachedIsProcess'
  BY ConstantsAssumption DEF ReachedIsProcess, InUse, DaemonExit, At, Idle
<1>5. LoopOK' /\ TurnsOK' /\ LocksOK'
  BY <1>1, ConstantsAssumption
  DEF LoopOK, TurnsOK, LocksOK, DaemonExit, At, Idle, Terminal, Cloned, Locked
<1>6. ActiveTurnsCounted'
  <2>1. {d \in Deliveries : turn'[d] \in Cloned \cup {"panicked"}} = {}
    BY DEF IInv, TypeOK, DaemonExit, Cloned, Locked
  <2>2. QED  BY <2>1, FS_EmptySet DEF DaemonExit, ActiveTurnsCounted
<1>7. QED  BY <1>3, <1>4, <1>5, <1>6 DEF IInv

-----------------------------------------------------------------------------
LEMMA Inductive == IInv /\ [Next]_vars => IInv'
<1> SUFFICES ASSUME IInv, [Next]_vars PROVE IInv'  OBVIOUS
<1>1. CASE Dispatcher
  BY <1>1, ConnectInv, LinkInv, StartAgentInv, RestoreInv, StopAgentInv, ProbeInv,
     InstallInv, OpenStateInv, WriteStateInv, AnnounceInv, RetireInv, DeliverInv
  DEF Dispatcher
<1>2. ASSUME NEW d \in Deliveries, TurnTask(d) PROVE IInv'
  BY <1>2, BeginTurnInv, PrepareInv, AcquireLockInv, RunOneTurnInv, PostReplyInv,
     FinishInv, PanicInv DEF TurnTask
<1>3. CASE DaemonExit
  BY <1>3, DaemonExitInv
<1>4. CASE UNCHANGED vars
  <2>1. TypeOK' /\ ReachedIsProcess' /\ LoopOK'
    BY <1>4 DEF IInv, vars, hostVars, turnVars, TypeOK, ReachedIsProcess, InUse, LoopOK
  <2>2. QED  BY <1>4, <2>1, TurnsUntouched DEF IInv, vars
<1>5. QED  BY <1>1, <1>2, <1>3, <1>4 DEF Next

THEOREM InvariantHolds == Spec => []IInv
BY InitInv, Inductive, PTL DEF Spec

(* Every variable keeps its type; a reference always reaches a process.    *)
THEOREM TypeCorrect == Spec => []TypeOK
<1>1. IInv => TypeOK  BY DEF IInv
<1>2. QED  BY <1>1, InvariantHolds, PTL

(* No two turns run with the same process at the same time.                *)
THEOREM TurnsSerialized == Spec => []OneTurnPerProcess
<1>1. IInv => OneTurnPerProcess
  BY DEF IInv, LocksOK, OneTurnPerProcess
<1>2. QED  BY <1>1, InvariantHolds, PTL

(* active_turns is the number of tasks at work or panicked.                *)
THEOREM CounterExact == Spec => []ActiveTurnsCounted
<1>1. IInv => ActiveTurnsCounted  BY DEF IInv
<1>2. QED  BY <1>1, InvariantHolds, PTL

-----------------------------------------------------------------------------
(* The registry, the record in memory and the record on disk.              *)

(* How far the start or stop in progress has come with each of them.       *)
ProgressOK ==
  /\ loop.op = "start" => process[loop.proc].launch = loop.launch
  /\ loop.op = "start" /\ loop.pc # "minting" => registry[loop.agent] = loop.proc
  /\ loop.pc \in {"write", "finish"} => saved[loop.agent] = loop.launch
  /\ loop.pc = "write" => disk = Torn

PInv == ProgressOK /\ InstalledIsSaved /\ DiskIsCurrent

(* A report does not change the launch of a process.                       *)
LEMMA ReportKeepsLaunch ==
  ASSUME NEW q \in Process, NEW kind
  PROVE  Report(q, kind).launch = q.launch
BY DEF Report, Process

(* A step that leaves registry, records and dispatcher alone, and the      *)
(* launches of the processes the registry and the dispatcher reach.        *)
LEMMA LaunchesKept ==
  ASSUME IInv, PInv, UNCHANGED <<registry, saved, disk, saveFailed, loop>>,
         \A p \in ProcIds : InUse(p) => process'[p].launch = process[p].launch
  PROVE  PInv'
<1>1. ProgressOK'
  BY DEF IInv, LoopOK, InUse, PInv, ProgressOK
<1>2. InstalledIsSaved'
  BY DEF IInv, TypeOK, InUse, PInv, InstalledIsSaved
<1>3. DiskIsCurrent'
  BY DEF PInv, DiskIsCurrent, Loaded, NothingRuns
<1>4. QED  BY <1>1, <1>2, <1>3 DEF PInv

(* A turn changes no process but through a report.                         *)
LEMMA TurnTaskPersist ==
  ASSUME IInv, PInv, NEW d \in Deliveries, TurnTask(d)
  PROVE  PInv'
<1>1. UNCHANGED <<registry, saved, disk, saveFailed, loop>>
  BY DEF TurnTask, BeginTurn, Prepare, AcquireLock, RunOneTurn, PostReply, FinishTurn,
         Apologize, PanicInTurn, Leave, turnFrame
<1>2. \/ process' = process
      \/ /\ turn[d] \in Cloned
         /\ \E kind \in {"idle", "working", "error"} :
              process' = [process EXCEPT ![snap[d]] = Report(@, kind)]
  BY DEF TurnTask, BeginTurn, Prepare, AcquireLock, RunOneTurn, ReportError, PostReply,
         FinishTurn, Apologize, PanicInTurn, Cloned, Locked
<1>3. \A p \in ProcIds : InUse(p) => process'[p].launch = process[p].launch
  BY <1>2, CloneIsProcess, ReportKeepsLaunch DEF IInv, TypeOK
<1>4. QED  BY <1>1, <1>3, LaunchesKept

LEMMA BeginStartPersist ==
  ASSUME IInv, PInv, NEW a \in Agents, NEW l \in Launches, NEW rest, NEW before,
         loop.pc \in {"idle", "restore"}, BeginStart(a, l, rest, before)
  PROVE  PInv'
<1>0. loop.op = "none" /\ loop.agent = None
  BY DEF IInv, TypeOK, LoopOK, LoopState
<1>1. CASE process' = process /\ loop' = Return(rest)
  BY <1>0, <1>1
  DEF PInv, ProgressOK, InstalledIsSaved, DiskIsCurrent, Loaded, NothingRuns, BeginStart,
      Return, At, Idle
<1>2. ASSUME NEW p \in ProcIds, ~InUse(p),
             process' = [process EXCEPT ![p] = FromStart(a, l)],
             loop' = Op("start", a, l, p, "minting")
      PROVE  PInv'
  <2>1. ProgressOK'
    BY <1>2 DEF IInv, TypeOK, ProgressOK, Op, FromStart
  <2>2. InstalledIsSaved'
    BY <1>0, <1>2, ConstantsAssumption
    DEF IInv, TypeOK, PInv, InstalledIsSaved, InUse, BeginStart, Op
  <2>3. DiskIsCurrent'
    BY <1>0, <1>2 DEF PInv, DiskIsCurrent, Loaded, NothingRuns, BeginStart, Op
  <2>4. QED  BY <2>1, <2>2, <2>3 DEF PInv
<1>3. QED  BY <1>1, <1>2 DEF BeginStart

LEMMA RestorePersist ==
  ASSUME IInv, PInv, NEW a \in Agents, Restore(a)
  PROVE  PInv'
<1>1. CASE registry[a] # None
  <2>1. loop.agent = None /\ loop.op = "none"
    BY DEF IInv, TypeOK, LoopOK, LoopState, Restore
  <2>2. QED
    BY <1>1, <2>1
    DEF PInv, ProgressOK, InstalledIsSaved, DiskIsCurrent, Loaded, NothingRuns, Restore,
        Return, At, Idle
<1>2. CASE registry[a] = None
  <2>1. saved[a] \in Launches
    BY DEF IInv, TypeOK, LoopOK, Restore, RunningMap
  <2>2. loop.pc = "restore" /\ BeginStart(a, saved[a], StillToVisit(a), status)
    BY <1>2 DEF Restore
  <2>3. QED  BY <2>1, <2>2, BeginStartPersist
<1>3. QED  BY <1>1, <1>2

LEMMA InstallPersist == IInv /\ PInv /\ Install => PInv'
<1> SUFFICES ASSUME IInv, PInv, Install PROVE PInv'  OBVIOUS
<1>1. loop.op = "start" /\ loop.proc \in ProcIds /\ loop.agent \in Agents
  BY DEF IInv, TypeOK, LoopOK, LoopState, Install
<1>2. process[loop.proc] \in Process
  BY <1>1 DEF IInv, ReachedIsProcess, InUse
<1>3. \A p \in ProcIds : InUse(p) => process'[p].launch = process[p].launch
  BY <1>1, <1>2, ReportKeepsLaunch DEF IInv, TypeOK, Install
<1>4. ProgressOK'
  BY <1>1, <1>3 DEF IInv, TypeOK, InUse, PInv, ProgressOK, Install, LoopState
<1>5. InstalledIsSaved'
  BY <1>1, <1>3 DEF IInv, TypeOK, InUse, PInv, InstalledIsSaved, Install, LoopState
<1>6. DiskIsCurrent'
  BY DEF IInv, TypeOK, LoopState, PInv, DiskIsCurrent, Loaded, NothingRuns, Install
<1>7. QED  BY <1>4, <1>5, <1>6 DEF PInv

LEMMA OpenStatePersist == IInv /\ PInv /\ OpenState => PInv'
<1> SUFFICES ASSUME IInv, PInv, OpenState PROVE PInv'  OBVIOUS
<1>1. loop.agent \in Agents /\ loop.pc = "persist" /\ loop.op \in {"start", "stop"}
  BY DEF IInv, TypeOK, LoopOK, LoopState, OpenState
<1>2. ProgressOK'
  BY <1>1 DEF IInv, TypeOK, RunningMap, PInv, ProgressOK, OpenState, Recorded, LoopState
<1>3. InstalledIsSaved'
  BY <1>1
  DEF IInv, TypeOK, RunningMap, PInv, InstalledIsSaved, OpenState, Recorded, LoopState
<1>4. DiskIsCurrent'
  BY DEF IInv, TypeOK, LoopState, DiskIsCurrent, OpenState
<1>5. QED  BY <1>2, <1>3, <1>4 DEF PInv

LEMMA WriteStatePersist == IInv /\ PInv /\ WriteState => PInv'
<1> SUFFICES ASSUME IInv, PInv, WriteState PROVE PInv'  OBVIOUS
<1>1. ProgressOK' /\ InstalledIsSaved'
  BY DEF IInv, TypeOK, LoopState, PInv, ProgressOK, InstalledIsSaved, WriteState
<1>2. DiskIsCurrent'
  BY ConstantsAssumption
  DEF IInv, TypeOK, LoopState, RunningMap, DiskIsCurrent, Loaded, WriteState, Content
<1>3. QED  BY <1>1, <1>2 DEF PInv

LEMMA AnnouncePersist == IInv /\ PInv /\ Announce => PInv'
<1> SUFFICES ASSUME IInv, PInv, Announce PROVE PInv'  OBVIOUS
<1>1. saved[loop.agent] = process[registry[loop.agent]].launch
  BY DEF PInv, ProgressOK, Announce
<1>2. ProgressOK' /\ InstalledIsSaved'
  BY <1>1 DEF PInv, ProgressOK, InstalledIsSaved, Announce, Return, At, Idle
<1>3. DiskIsCurrent'
  BY DEF PInv, DiskIsCurrent, Loaded, NothingRuns, Announce, Return, At, Idle
<1>4. QED  BY <1>2, <1>3 DEF PInv

LEMMA StopPersist ==
  ASSUME IInv, PInv, Retire \/ (\E a \in Agents : StopAgent(a))
  PROVE  PInv'
<1>1. CASE Retire
  <2>1. loop'.op = "none" /\ loop'.pc \notin {"write", "finish"}
    BY <1>1 DEF Retire, Return, At, Idle
  <2>2. UNCHANGED <<process, saved, disk, saveFailed>> /\ registry' = RegistryWithout(loop.agent)
    BY <1>1 DEF Retire
  <2>3. InstalledIsSaved'
    BY <2>2 DEF IInv, TypeOK, PInv, InstalledIsSaved, RegistryWithout
  <2>4. loop.pc # "write"
    BY <1>1 DEF Retire
  <2>5. QED
    BY <2>1, <2>2, <2>3, <2>4 DEF PInv, ProgressOK, DiskIsCurrent, Loaded, NothingRuns
<1>2. CASE \E a \in Agents : StopAgent(a)
  <2>1. PICK b \in Agents : StopAgent(b)  BY <1>2
  <2>2. loop.agent = None /\ loop.pc = "idle"
    BY <2>1 DEF IInv, LoopOK, TypeOK, LoopState, StopAgent
  <2>3. \A a \in Agents : a # None
    BY ConstantsAssumption
  <2>4. InstalledIsSaved'
    BY <2>1, <2>2, <2>3 DEF PInv, InstalledIsSaved, StopAgent
  <2>5. ProgressOK' /\ DiskIsCurrent'
    BY <2>1, <2>2 DEF PInv, ProgressOK, DiskIsCurrent, Loaded, NothingRuns, StopAgent, Op
  <2>6. QED  BY <2>4, <2>5 DEF PInv
<1>3. QED  BY <1>1, <1>2

LEMMA LinkPersist ==
  ASSUME IInv, PInv, Connect \/ WriterDies \/ Disconnect
  PROVE  PInv'
<1>1. loop' = loop \/ (loop.agent = None /\ loop.op = "none")
  BY DEF IInv, TypeOK, LoopOK, LoopState, Connect, WriterDies, Disconnect, hostVars
<1>2. ProgressOK' /\ InstalledIsSaved'
  BY <1>1 DEF PInv, ProgressOK, InstalledIsSaved, Connect, WriterDies, Disconnect, hostVars,
              Return, At, Idle
<1>3. DiskIsCurrent'
  BY DEF PInv, DiskIsCurrent, Loaded, NothingRuns, Connect, WriterDies, Disconnect,
         hostVars, Return, At, Idle
<1>4. QED  BY <1>2, <1>3 DEF PInv

LEMMA DaemonExitPersist == IInv /\ PInv /\ DaemonExit => PInv'
<1> SUFFICES ASSUME IInv, PInv, DaemonExit PROVE PInv'  OBVIOUS
<1>1. ProgressOK' /\ InstalledIsSaved'
  BY DEF ProgressOK, InstalledIsSaved, DaemonExit, At, Idle
<1>2. DiskIsCurrent'
  BY DEF DiskIsCurrent, Loaded, NothingRuns, DaemonExit, At, Idle
<1>3. QED  BY <1>1, <1>2 DEF PInv

LEMMA OtherPersist ==
  ASSUME IInv, PInv,
         \/ \E a \in Agents : Probe(a)
         \/ \E d \in Deliveries, a \in Agents, body \in Bodies : Deliver(d, a, body)
         \/ UNCHANGED vars
  PROVE  PInv'
<1>1. UNCHANGED <<registry, saved, disk, saveFailed, loop>>
  BY DEF Probe, Deliver, hostVars, vars
<1>2. CASE \E a \in Agents : Probe(a)
  <2>1. PICK a \in Agents : Probe(a)  BY <1>2
  <2>2. registry[a] \in ProcIds /\ process[registry[a]] \in Process
    BY <2>1 DEF IInv, TypeOK, ReachedIsProcess, InUse, Probe
  <2>3. \A p \in ProcIds : InUse(p) => process'[p].launch = process[p].launch
    BY <2>1, <2>2, ReportKeepsLaunch DEF IInv, TypeOK, Probe
  <2>4. QED  BY <1>1, <2>3, LaunchesKept
<1>3. CASE process' = process
  BY <1>1, <1>3, LaunchesKept
<1>4. QED  BY <1>2, <1>3 DEF Deliver, hostVars, vars

LEMMA PersistInductive == IInv /\ PInv /\ [Next]_vars => PInv'
<1> SUFFICES ASSUME IInv, PInv, [Next]_vars PROVE PInv'  OBVIOUS
<1>1. CASE Dispatcher
  <2>1. ASSUME NEW a \in Agents, NEW l \in Launches, StartAgent(a, l) PROVE PInv'
    BY <2>1, BeginStartPersist DEF StartAgent
  <2>2. QED
    BY <1>1, <2>1, RestorePersist, InstallPersist, OpenStatePersist, WriteStatePersist,
       AnnouncePersist, StopPersist, LinkPersist, OtherPersist DEF Dispatcher
<1>2. QED
  BY <1>1, TurnTaskPersist, DaemonExitPersist, OtherPersist DEF Next

LEMMA PersistInit == Init => PInv
BY DEF Init, PInv, ProgressOK, InstalledIsSaved, DiskIsCurrent, Loaded, NothingRuns, At, Idle

THEOREM PersistHolds == Spec => []PInv
BY InvariantHolds, PersistInit, PersistInductive, PTL DEF Spec

(* The registry agrees with the record of running agents.                  *)
THEOREM InstalledAgentsAreSaved == Spec => []InstalledIsSaved
<1>1. PInv => InstalledIsSaved  BY DEF PInv
<1>2. QED  BY <1>1, PersistHolds, PTL

(* The state file agrees with the record of running agents.                *)
THEOREM DiskAgrees == Spec => []DiskIsCurrent
<1>1. PInv => DiskIsCurrent  BY DEF PInv
<1>2. QED  BY <1>1, PersistHolds, PTL

(* Only a start records an agent again, or an end after a failed save.     *)
THEOREM StopIsFinal == Spec => StoppedStaysStopped
<1> DEFINE OnlyByStart ==
      \A a \in Agents : saved[a] = None /\ saved'[a] # None
        => \/ loop.op = "start" /\ loop.agent = a
           \/ exits' # exits /\ saveFailed
<1>1. IInv /\ PInv /\ [Next]_vars => [OnlyByStart]_vars
  <2> SUFFICES ASSUME IInv, PInv, Next PROVE OnlyByStart
    BY DEF vars
  <2>1. CASE DaemonExit
    <3>1. saved' = Loaded(disk) /\ exits' # exits
      BY <2>1 DEF IInv, TypeOK, DaemonExit
    <3>2. loop.pc = "write" => Loaded(disk) = NothingRuns
      BY DEF PInv, ProgressOK, Loaded
    <3>3. loop.pc # "write" /\ ~saveFailed => Loaded(disk) = saved
      BY DEF PInv, DiskIsCurrent
    <3>4. QED  BY <3>1, <3>2, <3>3 DEF NothingRuns, IInv, TypeOK
  <2>2. CASE OpenState
    BY <2>2, ConstantsAssumption
    DEF IInv, TypeOK, RunningMap, LoopOK, LoopState, OpenState, Recorded
  <2>3. CASE saved' = saved
    BY <2>3
  <2>4. DaemonExit \/ OpenState \/ saved' = saved
    BY DEF Next, Dispatcher, Connect, WriterDies, Disconnect, StartAgent, Restore, StopAgent,
           Probe, Install, WriteState, Announce, Retire, Deliver, BeginStart, hostVars,
           TurnTask, BeginTurn, Prepare, AcquireLock, RunOneTurn, PostReply, FinishTurn,
           Apologize, PanicInTurn, Leave, turnFrame
  <2>5. QED  BY <2>1, <2>2, <2>3, <2>4
<1>2. QED  BY <1>1, InvariantHolds, PersistHolds, PTL DEF Spec, StoppedStaysStopped

(* An end of the daemon outside a save keeps every running agent.          *)
THEOREM ExitLosesNoAgent == Spec => ExitKeepsRunningAgents
<1> DEFINE Kept ==
      exits' # exits /\ ~saveFailed /\ loop.pc # "write"
      => \A a \in Agents : registry[a] # None /\ loop.agent # a
                            => saved'[a] = process[registry[a]].launch
<1>1. IInv /\ PInv /\ [Next]_vars => [Kept]_vars
  <2> SUFFICES ASSUME IInv, PInv, Next PROVE Kept
    BY DEF vars
  <2>1. CASE DaemonExit
    BY <2>1 DEF PInv, DiskIsCurrent, InstalledIsSaved, DaemonExit
  <2>2. CASE exits' = exits
    BY <2>2
  <2>3. DaemonExit \/ exits' = exits
    BY DEF Next, Dispatcher, Connect, WriterDies, Disconnect, StartAgent, Restore, StopAgent,
           Probe, Install, OpenState, WriteState, Announce, Retire, Deliver, BeginStart,
           TurnTask, BeginTurn, Prepare, AcquireLock, RunOneTurn, PostReply, FinishTurn,
           Apologize, PanicInTurn, Leave, turnFrame
  <2>4. QED  BY <2>1, <2>2, <2>3
<1>2. QED  BY <1>1, InvariantHolds, PersistHolds, PTL DEF Spec, ExitKeepsRunningAgents

-----------------------------------------------------------------------------
(* What the server was told of the agents.                                 *)

(* ServerToldTruth is about an idle dispatcher; in the restore loop the    *)
(* agents it has still to visit are the exception.                         *)
ToldTruth ==
  \A a \in Agents : link = "up" /\ loop.agent # a =>
    /\ registry[a] # None => status[a] \in {"active", "failed"}
    /\ registry[a] = None /\ saved[a] # None /\ a \notin toRestore => status[a] = "failed"

(* A start that begins has its own agent excepted; one that fails at once  *)
(* says so.                                                                *)
LEMMA BeginStartTold ==
  ASSUME IInv, ToldTruth, NEW a \in Agents, NEW l, NEW rest, NEW before,
         loop.agent = None, toRestore \subseteq rest \cup {a},
         \A b \in Agents \ {a} : before[b] = status[b],
         before \in [Agents -> {"none", "asked", "active", "inactive", "failed"}],
         BeginStart(a, l, rest, before)
  PROVE  ToldTruth'
<1>1. UNCHANGED <<registry, saved, link>> /\ toRestore' = rest
  BY DEF BeginStart
<1>2. CASE status' = Told(before, a, "failed") /\ loop' = Return(rest)
  BY <1>1, <1>2, ConstantsAssumption DEF ToldTruth, Told
<1>3. CASE loop'.agent = a /\ status' = before
  BY <1>1, <1>3, ConstantsAssumption DEF ToldTruth
<1>4. QED  BY <1>2, <1>3 DEF BeginStart, Op

LEMMA RestoreTold ==
  ASSUME IInv, ToldTruth, NEW a \in Agents, Restore(a)
  PROVE  ToldTruth'
<1>1. loop.agent = None /\ toRestore' = toRestore \ {a}
  BY DEF IInv, TypeOK, LoopOK, LoopState, Restore, BeginStart, StillToVisit
<1>2. CASE registry[a] # None
  BY <1>1, <1>2, ConstantsAssumption DEF ToldTruth, Restore
<1>3. CASE registry[a] = None
  BY <1>1, <1>3, BeginStartTold DEF IInv, TypeOK, Restore, StillToVisit
<1>4. QED  BY <1>2, <1>3

LEMMA StartAgentTold ==
  ASSUME IInv, ToldTruth, NEW a \in Agents, NEW l \in Launches, StartAgent(a, l)
  PROVE  ToldTruth'
<1> DEFINE before == [status EXCEPT ![a] = "asked"]
<1>1. loop.agent = None /\ toRestore = {}
  BY DEF IInv, TypeOK, LoopOK, LoopState, StartAgent
<1>2. /\ before \in [Agents -> {"none", "asked", "active", "inactive", "failed"}]
      /\ \A b \in Agents \ {a} : before[b] = status[b]
  BY DEF IInv, TypeOK
<1>3. BeginStart(a, l, {}, before)
  BY DEF StartAgent
<1>4. QED  BY <1>1, <1>2, <1>3, BeginStartTold

(* Only the agent of the handler changes in the registry or the record,    *)
(* and a handler that ends has told the server what became of it.          *)
LEMMA HandlerTold ==
  ASSUME IInv, PInv, ToldTruth, Install \/ OpenState \/ WriteState \/ Announce \/ Retire
  PROVE  ToldTruth'
<1>1. /\ loop.agent \in Agents /\ loop.op \in {"start", "stop"}
      /\ registry \in [Agents -> ProcIds \cup {None}] /\ saved \in RunningMap
      /\ status \in [Agents -> {"none", "asked", "active", "inactive", "failed"}]
  BY DEF IInv, TypeOK, LoopOK, LoopState, Install, OpenState, WriteState, Announce, Retire
<1>2. CASE Install \/ OpenState \/ WriteState
  <2>1. UNCHANGED <<link, status, toRestore>> /\ loop'.agent = loop.agent
    BY <1>2 DEF Install, OpenState, WriteState, IInv, TypeOK, LoopState
  <2>2. \A b \in Agents : b # loop.agent => registry'[b] = registry[b] /\ saved'[b] = saved[b]
    BY <1>1, <1>2 DEF Install, OpenState, WriteState, Recorded, RunningMap
  <2>3. QED  BY <2>1, <2>2 DEF ToldTruth
<1>3. CASE Announce
  <2>1. registry[loop.agent] # None
    BY <1>1, <1>3, ConstantsAssumption DEF IInv, LoopOK, PInv, ProgressOK, Announce
  <2>2. QED
    BY <1>1, <1>3, <2>1, ConstantsAssumption DEF ToldTruth, Announce, Tell, Told
<1>4. CASE Retire
  <2>1. saved[loop.agent] = None
    BY <1>1, <1>4 DEF IInv, LoopOK, PInv, ProgressOK, Retire
  <2>2. QED
    BY <1>1, <1>4, <2>1, ConstantsAssumption
    DEF ToldTruth, Retire, RegistryWithout, Tell, Told
<1>5. QED  BY <1>2, <1>3, <1>4

LEMMA ToldInductive == IInv /\ PInv /\ ToldTruth /\ [Next]_vars => ToldTruth'
<1> SUFFICES ASSUME IInv, PInv, ToldTruth, [Next]_vars PROVE ToldTruth'  OBVIOUS
<1>1. CASE Connect
  BY <1>1, ConstantsAssumption DEF IInv, TypeOK, Connect, ToldTruth
<1>2. ASSUME NEW a \in Agents, StopAgent(a) PROVE ToldTruth'
  <2>1. loop.agent = None
    BY <1>2 DEF IInv, TypeOK, LoopOK, LoopState, StopAgent
  <2>2. QED  BY <1>2, <2>1, ConstantsAssumption DEF ToldTruth, StopAgent
<1>3. CASE link' # "up"
  BY <1>3 DEF ToldTruth
<1>4. CASE UNCHANGED <<registry, saved, loop, toRestore, link, status>>
  BY <1>4 DEF ToldTruth
<1>5. \/ Connect \/ (\E a \in Agents : Restore(a) \/ StopAgent(a))
      \/ \E a \in Agents, l \in Launches : StartAgent(a, l)
      \/ Install \/ OpenState \/ WriteState \/ Announce \/ Retire
      \/ link' # "up" \/ UNCHANGED <<registry, saved, loop, toRestore, link, status>>
  BY DEF Next, Dispatcher, WriterDies, Disconnect, Probe, Deliver, hostVars, vars, DaemonExit,
         TurnTask, BeginTurn, Prepare, AcquireLock, RunOneTurn, PostReply, FinishTurn,
         Apologize, PanicInTurn, Leave, turnFrame
<1>6. QED
  BY <1>1, <1>2, <1>3, <1>4, <1>5, RestoreTold, StartAgentTold, HandlerTold

(* While the connection works, the server has been told the truth about    *)
(* every agent but the one being started or stopped.                       *)
THEOREM ServerKnows == Spec => []ServerToldTruth
<1>1. Init => ToldTruth
  BY DEF Init, ToldTruth
<1>2. IInv /\ ToldTruth => ServerToldTruth
  BY DEF IInv, LoopOK, ToldTruth, ServerToldTruth
<1>3. QED  BY <1>1, <1>2, ToldInductive, InvariantHolds, PersistHolds, PTL DEF Spec

-----------------------------------------------------------------------------
(* The activity frames.                                                    *)

(* Whoever reaches a process reaches that of its own agent.                *)
KnownAgents ==
  /\ \A a \in Agents : registry[a] # None => process[registry[a]].agent = a
  /\ loop.op = "start" => process[loop.proc].agent = loop.agent
  /\ \A d \in Deliveries : turn[d] \in Cloned => process[snap[d]].agent = to[d]

(* A turn that failed has said so, and holds the lock.                     *)
ErrorReported ==
  \A d \in Deliveries : turn[d] = "apologizing" => process[snap[d]].latest # "working"

WInv == KnownAgents /\ ErrorReported /\ NotLeftWorking

LEMMA ReportSays ==
  ASSUME NEW q \in Process, NEW kind \in {"idle", "working", "error"}
  PROVE  Report(q, kind).agent = q.agent /\ Report(q, kind).latest = kind
BY DEF Report, Process

(* A step of the dispatcher that leaves turns and processes alone.         *)
LEMMA QuietWork ==
  ASSUME IInv, WInv, UNCHANGED <<process, turnVars>>,
         \A a \in Agents : registry'[a] \in {registry[a], None},
         loop' = loop \/ loop'.op # "start" \/ (loop'.proc = loop.proc /\ loop'.agent = loop.agent
                                                /\ loop.op = "start"),
         loop'.op # "start" => loop'.proc = None
  PROVE  WInv'
<1>1. \A p \in ProcIds : InUse(p)' => InUse(p)
  BY ConstantsAssumption DEF InUse, turnVars
<1>2. QED
  BY <1>1 DEF WInv, KnownAgents, ErrorReported, NotLeftWorking, turnVars

(* A process is built under a name that nothing reaches.                   *)
LEMMA BeginStartWork ==
  ASSUME IInv, WInv, NEW a \in Agents, NEW l \in Launches, NEW rest, NEW before,
         loop.op = "none", BeginStart(a, l, rest, before)
  PROVE  WInv'
<1>1. CASE process' = process /\ loop' = Return(rest)
  <2>1. loop'.op = "none" /\ loop'.proc = None /\ UNCHANGED <<process, turnVars, registry>>
    BY <1>1 DEF BeginStart, Return, At, Idle
  <2>2. QED  BY <2>1, QuietWork
<1>2. ASSUME NEW p \in ProcIds, ~InUse(p),
             process' = [process EXCEPT ![p] = FromStart(a, l)],
             loop' = Op("start", a, l, p, "minting")
      PROVE  WInv'
  <2>1. /\ process'[p].agent = a /\ process'[p].latest = "none"
        /\ \A q \in ProcIds : q # p => process'[q] = process[q]
    BY <1>2 DEF FromStart, IInv, TypeOK
  <2>2. UNCHANGED <<registry, turnVars>> /\ loop'.proc = p /\ loop'.agent = a
    BY <1>2 DEF BeginStart, Op
  <2>3. KnownAgents' /\ ErrorReported'
    BY <1>2, <2>1, <2>2, CloneIsProcess
    DEF IInv, TypeOK, WInv, KnownAgents, ErrorReported, InUse, turnVars, Cloned, Locked
  <2>4. \A q \in ProcIds : q # p /\ InUse(q)' => InUse(q)
    BY <2>2 DEF InUse, turnVars
  <2>5. NotLeftWorking'
    BY <2>1, <2>2, <2>4 DEF WInv, NotLeftWorking, turnVars
  <2>6. QED  BY <2>3, <2>5 DEF WInv
<1>3. QED  BY <1>1, <1>2 DEF BeginStart

(* A report of a process some reference reaches.                           *)
LEMMA ReportKeepsAgents ==
  ASSUME IInv, NEW p \in ProcIds, InUse(p), NEW kind \in {"idle", "working", "error"},
         process' = [process EXCEPT ![p] = Report(@, kind)]
  PROVE  /\ \A q \in ProcIds : process'[q].agent = process[q].agent
         /\ process'[p].latest = kind
         /\ \A q \in ProcIds : q # p => process'[q] = process[q]
<1>1. process[p] \in Process /\ process \in [ProcIds -> Process \cup {None}]
  BY DEF IInv, TypeOK, ReachedIsProcess
<1>2. QED  BY <1>1, ReportSays

LEMMA InstallWork == IInv /\ WInv /\ Install => WInv'
<1> SUFFICES ASSUME IInv, WInv, Install PROVE WInv'  OBVIOUS
<1>1. /\ loop.op = "start" /\ loop.proc \in ProcIds /\ InUse(loop.proc)
      /\ loop.agent \in Agents /\ UNCHANGED turnVars
  BY DEF IInv, TypeOK, LoopOK, LoopState, InUse, Install
<1>2. process' = [process EXCEPT ![loop.proc] = Report(@, "idle")]
  BY DEF Install
<1>3. /\ \A q \in ProcIds : process'[q].agent = process[q].agent
      /\ process'[loop.proc].latest = "idle"
      /\ \A q \in ProcIds : q # loop.proc => process'[q] = process[q]
  BY <1>1, <1>2, ReportKeepsAgents
<1>4. /\ loop'.proc = loop.proc /\ loop'.op = loop.op /\ loop'.agent = loop.agent
      /\ registry' = [registry EXCEPT ![loop.agent] = loop.proc]
  BY DEF IInv, TypeOK, LoopState, Install
<1>5. KnownAgents' /\ ErrorReported'
  BY <1>1, <1>3, <1>4, CloneIsProcess
  DEF IInv, TypeOK, WInv, KnownAgents, ErrorReported, turnVars, Cloned, Locked
<1>6. \A q \in ProcIds : InUse(q)' => InUse(q)
  BY <1>1, <1>4 DEF IInv, TypeOK, InUse, turnVars
<1>7. NotLeftWorking'
  BY <1>1, <1>3, <1>6 DEF WInv, NotLeftWorking, turnVars
<1>8. QED  BY <1>5, <1>7 DEF WInv

LEMMA ProbeWork ==
  ASSUME IInv, WInv, NEW a \in Agents, Probe(a)
  PROVE  WInv'
<1> DEFINE p == registry[a]
<1>1. p \in ProcIds /\ InUse(p) /\ UNCHANGED <<registry, loop, turnVars>>
  BY DEF IInv, TypeOK, InUse, Probe
<1>2. process' = [process EXCEPT ![p] = Report(@, "idle")]
  BY DEF Probe
<1>3. /\ \A q \in ProcIds : process'[q].agent = process[q].agent
      /\ process'[p].latest = "idle"
      /\ \A q \in ProcIds : q # p => process'[q] = process[q]
  BY <1>1, <1>2, ReportKeepsAgents
<1> HIDE DEF p
<1>4. KnownAgents' /\ ErrorReported'
  BY <1>1, <1>3, CloneIsProcess
  DEF IInv, TypeOK, LoopOK, WInv, KnownAgents, ErrorReported, turnVars, Cloned, Locked
<1>5. NotLeftWorking'
  BY <1>1, <1>3 DEF WInv, NotLeftWorking, InUse, turnVars
<1>6. QED  BY <1>4, <1>5 DEF WInv

LEMMA DispatcherWork == IInv /\ WInv /\ Dispatcher => WInv'
<1> SUFFICES ASSUME IInv, WInv, Dispatcher PROVE WInv'  OBVIOUS
<1>1. ASSUME NEW a \in Agents, NEW l \in Launches, StartAgent(a, l) PROVE WInv'
  <2>1. loop.op = "none"
    BY <1>1 DEF IInv, TypeOK, LoopOK, LoopState, StartAgent
  <2>2. QED  BY <1>1, <2>1, BeginStartWork DEF StartAgent
<1>2. ASSUME NEW a \in Agents, Restore(a) PROVE WInv'
  <2>1. loop.op = "none" /\ saved[a] \in Launches
    BY <1>2 DEF IInv, TypeOK, LoopOK, LoopState, Restore, RunningMap
  <2>2. CASE registry[a] = None
    BY <1>2, <2>1, <2>2, BeginStartWork DEF Restore
  <2>3. CASE registry[a] # None
    <3>1. loop'.op = "none" /\ loop'.proc = None
      BY <1>2, <2>3 DEF Restore, Return, At, Idle
    <3>2. QED  BY <1>2, <2>3, <3>1, QuietWork DEF Restore
  <2>4. QED  BY <2>2, <2>3
<1>3. CASE Connect \/ WriterDies \/ Disconnect \/ \E a \in Agents : StopAgent(a)
  <2>1. UNCHANGED <<process, turnVars, registry>>
    BY <1>3 DEF Connect, WriterDies, Disconnect, StopAgent, hostVars
  <2>2. loop' = loop \/ (loop'.op # "start" /\ loop'.proc = None)
    BY <1>3 DEF Connect, WriterDies, Disconnect, StopAgent, hostVars, Return, At, Idle, Op
  <2>3. loop.op # "start" => loop.proc = None
    BY DEF IInv, TypeOK, LoopOK, LoopState
  <2>4. QED  BY <2>1, <2>2, <2>3, QuietWork
<1>4. CASE OpenState \/ WriteState \/ Announce \/ Retire
  <2>1. UNCHANGED <<process, turnVars>> /\ \A a \in Agents : registry'[a] \in {registry[a], None}
    BY <1>4 DEF IInv, TypeOK, OpenState, WriteState, Announce, Retire, RegistryWithout
  <2>2. \/ loop'.proc = loop.proc /\ loop'.agent = loop.agent /\ loop'.op = loop.op
        \/ loop'.op = "none" /\ loop'.proc = None
    BY <1>4 DEF IInv, TypeOK, LoopState, OpenState, WriteState, Announce, Retire,
               Return, At, Idle
  <2>3. loop.op # "start" => loop.proc = None
    BY DEF IInv, TypeOK, LoopOK, LoopState
  <2>4. QED  BY <2>1, <2>2, <2>3, QuietWork
<1>5. ASSUME NEW d \in Deliveries, NEW a \in Agents, NEW body \in Bodies, Deliver(d, a, body)
      PROVE  WInv'
  <2>1. /\ turn[d] = "none" /\ turn' = [turn EXCEPT ![d] = Dispatched(a, body)]
        /\ Dispatched(a, body) \in {"unknown", "ignored", "spawned"}
        /\ to' = [to EXCEPT ![d] = a]
        /\ UNCHANGED <<registry, process, loop, snap, holder>>
    BY <1>5, ConstantsAssumption DEF Deliver, Dispatched, hostVars, AnyBody
  <2> HIDE DEF Dispatched
  <2>2. KnownAgents' /\ ErrorReported'
    BY <2>1 DEF IInv, TypeOK, WInv, KnownAgents, ErrorReported, Cloned, Locked
  <2>3. NotLeftWorking'
    BY <2>1 DEF IInv, TypeOK, WInv, NotLeftWorking, InUse
  <2>4. QED  BY <2>2, <2>3 DEF WInv
<1>6. QED
  BY <1>1, <1>2, <1>3, <1>4, <1>5, InstallWork, ProbeWork DEF Dispatcher

-----------------------------------------------------------------------------
(* The same for the steps of a turn.                                       *)

LEMMA BeginTurnWork ==
  ASSUME IInv, WInv, NEW d \in Deliveries, BeginTurn(d)
  PROVE  WInv'
<1>1. to[d] \in Agents /\ UNCHANGED <<registry, process, loop, holder, to>>
  BY DEF IInv, TurnsOK, BeginTurn, turnFrame
<1>2. /\ snap' = snap \/ snap' = [snap EXCEPT ![d] = registry[to[d]]]
      /\ \A e \in Deliveries \ {d} : turn'[e] = turn[e]
      /\ turn'[d] \in {"vanished", "preparing"}
      /\ turn'[d] = "preparing" =>
           registry[to[d]] # None /\ snap' = [snap EXCEPT ![d] = registry[to[d]]]
      /\ \A e \in Deliveries \ {d} : snap'[e] = snap[e]
  BY DEF IInv, TypeOK, BeginTurn
<1>3. KnownAgents' /\ ErrorReported'
  BY <1>1, <1>2 DEF IInv, TypeOK, WInv, KnownAgents, ErrorReported, Cloned, Locked
<1>4. \A q \in ProcIds : InUse(q)' => InUse(q)
  BY <1>1, <1>2 DEF IInv, TypeOK, InUse, BeginTurn
<1>5. turn[d] # "panicked"
  BY DEF BeginTurn
<1>6. NotLeftWorking'
  BY <1>1, <1>2, <1>4, <1>5 DEF WInv, NotLeftWorking
<1>7. QED  BY <1>3, <1>6 DEF WInv

(* A step of a turn that has a clone, and that reports nothing.            *)
LEMMA SilentTurnWork ==
  ASSUME IInv, WInv, NEW d \in Deliveries, turn[d] \in Cloned,
         \A e \in Deliveries \ {d} : turn'[e] = turn[e] /\ snap'[e] = snap[e],
         turn'[d] # "apologizing", snap'[d] \in {snap[d], None},
         turn'[d] \in Cloned => snap'[d] = snap[d],
         \A p \in ProcIds : holder'[p] # holder[p] =>
            p = snap[d] /\ (process[p].latest = "working" => turn'[d] = "panicked"),
         UNCHANGED <<registry, process, loop, to>>
  PROVE  WInv'
<1>1. KnownAgents' /\ ErrorReported'
  BY DEF IInv, TypeOK, WInv, KnownAgents, ErrorReported, Cloned, Locked
<1>2. \A q \in ProcIds : InUse(q)' => InUse(q)
  BY ConstantsAssumption DEF IInv, TypeOK, InUse
<1>3. process[snap[d]].agent = to[d] /\ turn[d] # "panicked"
  BY DEF WInv, KnownAgents, Cloned, Locked
<1>4. NotLeftWorking'
  BY <1>2, <1>3 DEF WInv, NotLeftWorking
<1>5. QED  BY <1>1, <1>4 DEF WInv

(* A step of a turn at work, which reports the activity kind.              *)
LEMMA ReportingTurnWork ==
  ASSUME IInv, WInv, NEW d \in Deliveries, turn[d] \in Cloned,
         NEW kind \in {"idle", "working", "error"},
         process' = [process EXCEPT ![snap[d]] = Report(@, kind)],
         \A e \in Deliveries \ {d} : turn'[e] = turn[e] /\ snap'[e] = snap[e],
         snap'[d] \in {snap[d], None}, turn'[d] \in Cloned => snap'[d] = snap[d],
         turn'[d] = "apologizing" => kind # "working",
         \A p \in ProcIds : p # snap[d] => holder'[p] = holder[p],
         kind = "working" => holder[snap[d]] = None /\ holder'[snap[d]] # None,
         UNCHANGED <<registry, loop, to>>
  PROVE  WInv'
<1>1. snap[d] \in ProcIds /\ InUse(snap[d]) /\ turn[d] # "panicked"
  BY CloneIsProcess DEF InUse, Cloned, Locked
<1>2. /\ \A q \in ProcIds : process'[q].agent = process[q].agent
      /\ process'[snap[d]].latest = kind
      /\ \A q \in ProcIds : q # snap[d] => process'[q] = process[q]
  BY <1>1, ReportKeepsAgents
<1>3. KnownAgents'
  BY <1>2, CloneIsProcess DEF IInv, TypeOK, LoopOK, WInv, KnownAgents, Cloned, Locked
<1>4. ErrorReported'
  <2> SUFFICES ASSUME NEW e \in Deliveries, turn'[e] = "apologizing"
               PROVE  process'[snap'[e]].latest # "working"
    BY DEF ErrorReported
  <2>1. CASE e = d
    BY <1>2, <2>1 DEF Cloned, Locked
  <2>2. CASE e # d
    <3>1. turn[e] = "apologizing" /\ snap'[e] = snap[e] /\ snap[e] \in ProcIds
      BY <2>2, CloneIsProcess DEF Cloned, Locked
    <3>2. process[snap[e]].latest # "working"
      BY <3>1 DEF WInv, ErrorReported
    <3>3. snap[e] = snap[d] => kind # "working"
      BY <3>1, ConstantsAssumption DEF IInv, LocksOK, Locked
    <3>4. QED  BY <1>2, <3>1, <3>2, <3>3
  <2>3. QED  BY <2>1, <2>2
<1>5. \A q \in ProcIds : InUse(q)' => InUse(q)
  BY ConstantsAssumption DEF IInv, TypeOK, InUse
<1>6. NotLeftWorking'
  BY <1>1, <1>2, <1>5 DEF WInv, NotLeftWorking
<1>7. QED  BY <1>3, <1>4, <1>6 DEF WInv

LEMMA TurnWork ==
  ASSUME IInv, WInv, NEW d \in Deliveries, TurnTask(d)
  PROVE  WInv'
<1>1. CASE BeginTurn(d)
  BY <1>1, BeginTurnWork
<1>2. CASE Prepare(d) \/ PostReply(d)
  BY <1>2, SilentTurnWork
  DEF Prepare, PostReply, turnFrame, IInv, TypeOK, Cloned, Locked
<1>3. CASE AcquireLock(d)
  <2>1. turn[d] \in Cloned /\ snap[d] \in ProcIds
    BY <1>3, CloneIsProcess DEF AcquireLock, Cloned
  <2>2. holder[snap[d]] = None /\ holder'[snap[d]] # None
    BY <1>3, <2>1, ConstantsAssumption DEF AcquireLock, LockFree, IInv, TypeOK
  <2>3. QED
    BY <1>3, <2>1, <2>2, ReportingTurnWork DEF AcquireLock, turnFrame, IInv, TypeOK
<1>4. CASE RunOneTurn(d)
  <2>1. turn[d] \in Cloned /\ UNCHANGED <<snap, holder, turnFrame>>
    BY <1>4 DEF RunOneTurn, Cloned, Locked
  <2>2. CASE process' = process /\ turn'[d] # "apologizing"
    BY <1>4, <2>1, <2>2, SilentTurnWork
    DEF RunOneTurn, turnFrame, IInv, TypeOK
  <2>3. CASE process' = ReportError(d)
    BY <1>4, <2>1, <2>3, ReportingTurnWork
    DEF RunOneTurn, ReportError, turnFrame, IInv, TypeOK
  <2>4. QED  BY <1>4, <2>2, <2>3 DEF RunOneTurn, IInv, TypeOK
<1>5. CASE FinishTurn(d)
  BY <1>5, ReportingTurnWork
  DEF FinishTurn, Leave, Released, turnFrame, IInv, TypeOK, Cloned, Locked
<1>6. CASE Apologize(d)
  BY <1>6, SilentTurnWork
  DEF Apologize, Leave, Released, turnFrame, IInv, TypeOK, WInv, ErrorReported, Cloned, Locked
<1>7. CASE PanicInTurn(d)
  BY <1>7, SilentTurnWork
  DEF PanicInTurn, Released, turnFrame, IInv, TypeOK, Cloned, Locked
<1>8. QED  BY <1>1, <1>2, <1>3, <1>4, <1>5, <1>6, <1>7 DEF TurnTask

LEMMA WorkInductive == IInv /\ WInv /\ [Next]_vars => WInv'
<1> SUFFICES ASSUME IInv, WInv, [Next]_vars PROVE WInv'  OBVIOUS
<1>1. CASE DaemonExit
  <2>1. \A d \in Deliveries : turn'[d] \notin Cloned
    BY <1>1 DEF DaemonExit, Cloned, Locked
  <2>2. \A p \in ProcIds : ~InUse(p)'
    BY <1>1, ConstantsAssumption DEF DaemonExit, InUse, At, Idle
  <2>3. QED
    BY <1>1, <2>1, <2>2
    DEF DaemonExit, WInv, KnownAgents, ErrorReported, NotLeftWorking, At, Idle, Cloned, Locked
<1>2. CASE UNCHANGED vars
  BY <1>2 DEF vars, hostVars, turnVars, WInv, KnownAgents, ErrorReported, NotLeftWorking, InUse
<1>3. QED  BY <1>1, <1>2, DispatcherWork, TurnWork DEF Next

(* No agent is left shown as working once no turn of it holds the lock,    *)
(* unless one panicked.                                                    *)
THEOREM WorkIsReported == Spec => []NotLeftWorking
<1>1. Init => WInv
  BY ConstantsAssumption
  DEF Init, WInv, KnownAgents, ErrorReported, NotLeftWorking, InUse, At, Idle, Cloned, Locked
<1>2. WInv => NotLeftWorking
  BY DEF WInv
<1>3. QED  BY <1>1, <1>2, WorkInductive, InvariantHolds, PTL DEF Spec

-----------------------------------------------------------------------------
(* The turn service.  Each step of AgentLifecycle is a step of TurnService *)
(* or a stutter, from IInv.                                                *)

phases == [d \in Deliveries |-> PhaseOf(d)]

-----------------------------------------------------------------------------
(* What PhaseOf says, state by state.                                      *)
LEMMA PhaseIs ==
  ASSUME NEW d \in Deliveries
  PROVE  /\ turn[d] = "none" => PhaseOf(d) = "new"
         /\ turn[d] = "spawned" => PhaseOf(d) = "due"
         /\ turn[d] \in {"preparing", "waiting"} => PhaseOf(d) = "begun"
         /\ turn[d] \in Locked => PhaseOf(d) = "serving"
         /\ turn[d] = "panicked" => PhaseOf(d) = "lost"
         /\ turn[d] \in Terminal \ {"panicked"} => PhaseOf(d) = "over"
BY Zenon DEF PhaseOf, Locked, Terminal

LEMMA PhaseWillBe ==
  ASSUME NEW d \in Deliveries
  PROVE  /\ turn'[d] = "none" => PhaseOf(d)' = "new"
         /\ turn'[d] = "spawned" => PhaseOf(d)' = "due"
         /\ turn'[d] \in {"preparing", "waiting"} => PhaseOf(d)' = "begun"
         /\ turn'[d] \in Locked => PhaseOf(d)' = "serving"
         /\ turn'[d] = "panicked" => PhaseOf(d)' = "lost"
         /\ turn'[d] \in Terminal \ {"panicked"} => PhaseOf(d)' = "over"
BY Zenon DEF PhaseOf, Locked, Terminal

(* When one turn moves, its phase moves and the others stay.               *)
LEMMA OnePhaseMoves ==
  ASSUME TypeOK, NEW d \in Deliveries, NEW to0 \in TurnState,
         turn' = [turn EXCEPT ![d] = to0]
  PROVE  /\ phases' = [phases EXCEPT ![d] = PhaseOf(d)']
         /\ phases[d] = PhaseOf(d)
         /\ turn'[d] = to0
<1>1. turn'[d] = to0 /\ \A e \in Deliveries : e # d => turn'[e] = turn[e]
  BY DEF TypeOK
<1>2. \A e \in Deliveries : e # d => PhaseOf(e)' = PhaseOf(e)
  BY <1>1 DEF PhaseOf
<1>3. QED  BY <1>1, <1>2 DEF phases

(* Turns that do not move keep their phases.                               *)
LEMMA PhasesStay == turn' = turn => phases' = phases
BY DEF phases, PhaseOf

(* The dispatcher touches turns only when it delivers.                     *)
LEMMA DispatcherStutters ==
  ASSUME UNCHANGED turnVars
  PROVE  UNCHANGED <<phases, holder, active>>
BY PhasesStay DEF turnVars

(* A delivery is accepted or refused.                                      *)
LEMMA DeliverAccepts ==
  ASSUME IInv, NEW d \in Deliveries, NEW a \in Agents, NEW body \in Bodies,
         Deliver(d, a, body)
  PROVE  Service!Accept(d) \/ Service!Refuse(d)
<1>1. /\ Dispatched(a, body) \in {"unknown", "ignored", "spawned"}
      /\ Dispatched(a, body) \in TurnState
  BY DEF Dispatched, TurnState, Terminal
<1>2. /\ phases' = [phases EXCEPT ![d] = PhaseOf(d)'] /\ phases[d] = PhaseOf(d)
      /\ turn'[d] = Dispatched(a, body)
  BY <1>1, OnePhaseMoves DEF IInv, Deliver
<1>3. PhaseOf(d) = "new" /\ PhaseOf(d)' \in {"due", "over"}
  BY <1>1, <1>2, PhaseIs, PhaseWillBe DEF Deliver, Terminal
<1>4. UNCHANGED <<holder, active>>
  BY DEF Deliver
<1>5. QED
  BY <1>2, <1>3, <1>4 DEF Service!Accept, Service!Refuse, Service!Goes, phases

(* The task begins, or finds its agent gone.                               *)
LEMMA BeginTurnBegins ==
  ASSUME IInv, NEW d \in Deliveries, BeginTurn(d)
  PROVE  Service!Begin(d) \/ Service!Refuse(d)
<1>1. PICK to0 \in {"vanished", "preparing"} :
        /\ turn' = [turn EXCEPT ![d] = to0]
        /\ to0 = "vanished" => active' = active
        /\ to0 = "preparing" => active' = active + 1
  BY DEF BeginTurn
<1>2. to0 \in TurnState
  BY DEF TurnState, Terminal, Cloned
<1>3. /\ phases' = [phases EXCEPT ![d] = PhaseOf(d)'] /\ phases[d] = PhaseOf(d)
      /\ turn'[d] = to0
  BY <1>1, <1>2, OnePhaseMoves DEF IInv
<1>4. /\ PhaseOf(d) = "due"
      /\ to0 = "vanished" => PhaseOf(d)' = "over"
      /\ to0 = "preparing" => PhaseOf(d)' = "begun"
  BY <1>3, PhaseIs, PhaseWillBe DEF BeginTurn, Locked, Terminal
<1>5. holder' = holder
  BY DEF BeginTurn
<1>6. QED
  BY <1>1, <1>3, <1>4, <1>5 DEF Service!Begin, Service!Refuse, Service!Goes, phases

(* The message is one to answer, which is no step of the service, or not.  *)
LEMMA PrepareDeclines ==
  ASSUME IInv, NEW d \in Deliveries, Prepare(d)
  PROVE  Service!Decline(d) \/ UNCHANGED <<phases, holder, active>>
<1>1. PICK to0 \in {"waiting", "declined"} :
        /\ turn' = [turn EXCEPT ![d] = to0]
        /\ to0 = "waiting" => active' = active
        /\ to0 = "declined" => active' = active - 1
  BY DEF Prepare, CountedDown
<1>2. to0 \in TurnState
  BY DEF TurnState, Terminal, Cloned
<1>3. /\ phases' = [phases EXCEPT ![d] = PhaseOf(d)'] /\ phases[d] = PhaseOf(d)
      /\ turn'[d] = to0
  BY <1>1, <1>2, OnePhaseMoves DEF IInv
<1>4. /\ PhaseOf(d) = "begun"
      /\ to0 = "declined" => PhaseOf(d)' = "over"
      /\ to0 = "waiting" => PhaseOf(d)' = "begun"
  BY <1>3, PhaseIs, PhaseWillBe DEF Prepare, Locked, Terminal
<1>5. holder' = holder
  BY DEF Prepare
<1>6. to0 = "waiting" => phases' = phases
  BY <1>3, <1>4 DEF phases
<1>7. QED
  BY <1>1, <1>3, <1>4, <1>5, <1>6 DEF Service!Decline, Service!Goes, phases

(* The lock of the clone serves the turn.                                  *)
LEMMA AcquireServes ==
  ASSUME IInv, NEW d \in Deliveries, AcquireLock(d)
  PROVE  snap[d] \in ProcIds /\ Service!Serve(d, snap[d])
<1>1. snap[d] \in ProcIds
  BY CloneIsProcess DEF AcquireLock, Cloned
<1>2. "running" \in TurnState /\ turn' = [turn EXCEPT ![d] = "running"]
  BY DEF TurnState, Cloned, Locked, AcquireLock
<1>3. /\ phases' = [phases EXCEPT ![d] = PhaseOf(d)'] /\ phases[d] = PhaseOf(d)
      /\ turn'[d] = "running"
  BY <1>2, OnePhaseMoves DEF IInv
<1>4. PhaseOf(d) = "begun" /\ PhaseOf(d)' = "serving"
  BY <1>3, PhaseIs, PhaseWillBe DEF AcquireLock, Locked, Terminal
<1>5. QED
  BY <1>1, <1>3, <1>4
  DEF AcquireLock, LockFree, Service!Serve, Service!Goes, phases

(* Between lock and release the service does not move.                     *)
LEMMA ServingStutters ==
  ASSUME IInv, NEW d \in Deliveries, RunOneTurn(d) \/ PostReply(d)
  PROVE  UNCHANGED <<phases, holder, active>>
<1>1. PICK to0 \in Locked : turn' = [turn EXCEPT ![d] = to0]
  BY DEF RunOneTurn, PostReply, Locked
<1>2. to0 \in TurnState
  BY DEF TurnState, Cloned
<1>3. /\ phases' = [phases EXCEPT ![d] = PhaseOf(d)'] /\ phases[d] = PhaseOf(d)
      /\ turn'[d] = to0
  BY <1>1, <1>2, OnePhaseMoves DEF IInv
<1>4. PhaseOf(d) = "serving" /\ PhaseOf(d)' = "serving"
  BY <1>3, PhaseIs, PhaseWillBe DEF RunOneTurn, PostReply, Locked, Terminal
<1>5. phases' = phases
  BY <1>3, <1>4 DEF phases
<1>6. QED  BY <1>5 DEF RunOneTurn, PostReply

(* The turn gives back the lock it holds, and is counted down.             *)
LEMMA LeaveCompletes ==
  ASSUME IInv, NEW d \in Deliveries, FinishTurn(d) \/ Apologize(d)
  PROVE  snap[d] \in ProcIds /\ Service!Complete(d, snap[d])
<1>1. snap[d] \in ProcIds /\ holder[snap[d]] = d
  BY CloneIsProcess DEF FinishTurn, Apologize, IInv, LocksOK, Cloned, Locked
<1>2. "done" \in TurnState /\ turn' = [turn EXCEPT ![d] = "done"]
  BY DEF TurnState, Terminal, FinishTurn, Apologize, Leave
<1>3. /\ phases' = [phases EXCEPT ![d] = PhaseOf(d)'] /\ phases[d] = PhaseOf(d)
      /\ turn'[d] = "done"
  BY <1>2, OnePhaseMoves DEF IInv
<1>4. PhaseOf(d) = "serving" /\ PhaseOf(d)' = "over"
  BY <1>3, PhaseIs, PhaseWillBe DEF FinishTurn, Apologize, Locked, Terminal
<1>5. QED
  BY <1>1, <1>3, <1>4
  DEF FinishTurn, Apologize, Leave, Released, CountedDown, Service!Complete, Service!Goes,
      Service!GivesBack, phases

(* A panic gives the lock back and keeps the count.                        *)
LEMMA PanicLoses ==
  ASSUME IInv, NEW d \in Deliveries, PanicInTurn(d)
  PROVE  snap[d] \in ProcIds /\ Service!Lose(d, snap[d])
<1>1. snap[d] \in ProcIds /\ holder[snap[d]] = d
  BY CloneIsProcess DEF PanicInTurn, IInv, LocksOK, Cloned, Locked
<1>2. "panicked" \in TurnState /\ turn' = [turn EXCEPT ![d] = "panicked"]
  BY DEF TurnState, Terminal, PanicInTurn
<1>3. /\ phases' = [phases EXCEPT ![d] = PhaseOf(d)'] /\ phases[d] = PhaseOf(d)
      /\ turn'[d] = "panicked"
  BY <1>2, OnePhaseMoves DEF IInv
<1>4. PhaseOf(d) = "serving" /\ PhaseOf(d)' = "lost"
  BY <1>3, PhaseIs, PhaseWillBe DEF PanicInTurn, Locked, Terminal
<1>5. QED
  BY <1>1, <1>3, <1>4
  DEF PanicInTurn, Released, Service!Lose, Service!Goes, Service!GivesBack, phases

(* The end of the daemon is a restart of the service.                      *)
LEMMA ExitRestarts == IInv /\ DaemonExit => Service!Restart
<1> SUFFICES ASSUME IInv, DaemonExit PROVE Service!Restart  OBVIOUS
<1>1. \A d \in Deliveries :
        turn'[d] = IF turn[d] \in {"spawned", "panicked"} \cup Cloned
                   THEN "killed" ELSE turn[d]
  BY DEF DaemonExit
<1>2. \A d \in Deliveries :
        PhaseOf(d)' = IF PhaseOf(d) = "new" THEN "new" ELSE "over"
  BY <1>1, PhaseIs, PhaseWillBe DEF IInv, TypeOK, TurnState, Terminal, Cloned, Locked
<1>3. QED  BY <1>2 DEF DaemonExit, Service!Restart

-----------------------------------------------------------------------------
(* Every step of the host is a step of the service or none.                *)
LEMMA StepImplements == IInv /\ [Next]_vars => [Service!Next]_(Service!vars)
<1> SUFFICES ASSUME IInv, [Next]_vars PROVE Service!Next \/ UNCHANGED <<phases, holder, active>>
  BY DEF Service!vars, phases
<1>1. CASE Dispatcher
  <2>1. CASE \E d \in Deliveries, a \in Agents, body \in Bodies : Deliver(d, a, body)
    BY <2>1, DeliverAccepts DEF Service!Next
  <2>2. CASE UNCHANGED turnVars
    BY <2>2, DispatcherStutters
  <2>3. QED
    BY <1>1, <2>1, <2>2
    DEF Dispatcher, Connect, WriterDies, Disconnect, StartAgent, BeginStart, Restore,
        StopAgent, Probe, Install, OpenState, WriteState, Announce, Retire
<1>2. ASSUME NEW d \in Deliveries, TurnTask(d)
      PROVE  Service!Next \/ UNCHANGED <<phases, holder, active>>
  BY <1>2, BeginTurnBegins, PrepareDeclines, AcquireServes, ServingStutters,
     LeaveCompletes, PanicLoses DEF TurnTask, Service!Next
<1>3. CASE DaemonExit
  BY <1>3, ExitRestarts DEF Service!Next
<1>4. CASE UNCHANGED vars
  BY <1>4, DispatcherStutters DEF vars
<1>5. QED  BY <1>1, <1>2, <1>3, <1>4 DEF Next

LEMMA InitImplements == Init => Service!Init
BY PhaseIs DEF Init, Service!Init

(* AgentLifecycle implements TurnService.                                  *)
THEOREM HostImplementsTurnService == Spec => ImplementsTurnService
BY InitImplements, StepImplements, InvariantHolds, PTL DEF Spec, ImplementsTurnService, Service!Spec

=============================================================================
