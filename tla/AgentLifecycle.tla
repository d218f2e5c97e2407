--------------------------- MODULE AgentLifecycle ---------------------------
(***************************************************************************)
(* The daemon's agent host: the message dispatcher of one server           *)
(* connection (runner.rs, drive_connection and handle_server_message), the *)
(* registry of installed agent processes (agent/process.rs), the set of    *)
(* running agents kept in memory and in state.json (state/mod.rs), and the *)
(* background tasks that run one delivery each (run_agent_turn).           *)
(*                                                                         *)
(* The dispatcher is one task that handles one message at a time; a        *)
(* handler is split where it awaits and where another task or a crash can  *)
(* see its intermediate state.  Every delivery with text gets a task of    *)
(* its own, which interleaves freely with the dispatcher and the others.   *)
(***************************************************************************)
EXTENDS Naturals, FiniteSets

CONSTANTS
  Agents,       (* agent ids                                               *)
  Launches,     (* launch payloads of agent:start (launchId and config)    *)
  ProcIds,      (* names for AgentProcess values; bounds those in use      *)
  Deliveries,   (* agent:deliver frames, one name per frame                *)
  Bodies,       (* the message bodies the server sends: a subset of AnyBody *)
  MaxProbes,    (* bound: activity probes                                  *)
  MaxExits,     (* bound: ends of the daemon process                       *)
  None,         (* no agent, no launch, no process                         *)
  Torn          (* the content of a state.json that does not parse         *)

AnyBody == {"text", "files", "nothing"}

ASSUME ConstantsAssumption ==
  /\ IsFiniteSet(Deliveries)
  /\ Bodies \subseteq AnyBody
  /\ MaxProbes \in Nat /\ MaxExits \in Nat
  /\ None \notin Agents \cup Launches \cup ProcIds \cup Deliveries
  /\ Torn \notin [Agents -> Launches \cup {None}]

VARIABLES
  registry,     (* AgentProcessRegistry: the process installed per agent   *)
  process,      (* the AgentProcess values that some reference reaches     *)
  saved,        (* DaemonState.running_agents                              *)
  disk,         (* the running agents in state.json                        *)
  saveFailed,   (* the last DaemonState::save did not complete             *)
  loop,         (* where the dispatcher is, and the start or stop it runs  *)
  toRestore,    (* persisted agents the restore loop has still to visit    *)
  link,         (* "down"; "up"; "half": the writer task is gone           *)
  status,       (* what the server last asked, or was told, of each agent  *)
  turn,         (* where the task of each delivery is                      *)
  to,           (* the agent a delivery is addressed to                    *)
  snap,         (* the process a turn task has cloned from the registry    *)
  holder,       (* the turn that holds each process's turn_lock            *)
  active,       (* active_turns                                            *)
  probes,
  exits

hostVars == <<registry, process, saved, disk, saveFailed, loop, toRestore>>
turnVars == <<turn, to, snap, holder, active>>
vars == <<hostVars, link, status, turnVars, probes, exits>>

RunningMap == [Agents -> Launches \cup {None}]
NothingRuns == [a \in Agents |-> None]

Process == [agent : Agents, launch : Launches, seq : Nat,
            latest : {"none", "idle", "working", "error"}]

(* What AgentProcess::from_start builds: a counter at 0 and a turn_lock of *)
(* its own (the caller finds holder[p] = None).                            *)
FromStart(a, l) ==
  [agent |-> a, launch |-> l, seq |-> 0, latest |-> "none"]

(* next_activity_client_seq, and the activity the frame then reports.      *)
Report(proc, kind) == [proc EXCEPT !.seq = @ + 1, !.latest = kind]

(* Turns that hold a clone of the process, and among them those that hold  *)
(* its turn_lock.                                                          *)
Locked == {"running", "posting", "finishing", "apologizing"}
Cloned == {"preparing", "waiting"} \cup Locked
Terminal == {"unknown", "ignored", "vanished", "declined", "done", "panicked", "killed"}
TurnState == {"none", "spawned"} \cup Cloned \cup Terminal

(* A process some reference keeps alive: the registry, a turn's clone or   *)
(* the start_agent that is building it.  The others were dropped.          *)
InUse(p) == \/ \E a \in Agents : registry[a] = p
            \/ \E d \in Deliveries : snap[d] = p
            \/ loop.proc = p

Idle == [pc |-> "idle", op |-> "none", agent |-> None, launch |-> None, proc |-> None]
At(pc) == [Idle EXCEPT !.pc = pc]
Op(op, a, l, p, pc) == [pc |-> pc, op |-> op, agent |-> a, launch |-> l, proc |-> p]
LoopState ==
  [pc : {"boot", "offline", "restore", "idle", "minting", "persist", "write", "finish"},
   op : {"none", "start", "stop"},
   agent : Agents \cup {None}, launch : Launches \cup {None}, proc : ProcIds \cup {None}]

(* A handler is done: on to the next persisted agent, or to the messages.  *)
Return(rest) == At(IF rest = {} THEN "idle" ELSE "restore")

(* send_agent_status: queued for the writer, an error once that is gone.   *)
Told(before, a, s) == IF link = "up" THEN [before EXCEPT ![a] = s] ELSE before
Tell(a, s) == status' = Told(status, a, s)

Init ==
  /\ registry = [a \in Agents |-> None]
  /\ process = [p \in ProcIds |-> None]
  /\ saved = NothingRuns /\ disk = NothingRuns /\ saveFailed = FALSE
  /\ loop = At("boot") /\ toRestore = {} /\ link = "down"
  /\ status = [a \in Agents |-> "none"]
  /\ turn = [d \in Deliveries |-> "none"]
  /\ to = [d \in Deliveries |-> None]
  /\ snap = [d \in Deliveries |-> None]
  /\ holder = [p \in ProcIds |-> None]
  /\ active = 0 /\ probes = 0 /\ exits = 0

-----------------------------------------------------------------------------
(* Faulty variants, each a mistake the operator it stands for could have   *)
(* held; with it in place the property named here fails.                   *)

(* StillToVisit: the restore loop never advances (ServesAgain).            *)
StillToVisitAll(a) == toRestore

(* Recorded: the record is not updated before the save (InstalledIsSaved,  *)
(* ExitKeepsRunningAgents).                                                *)
RecordedForgetful == saved

(* Content: what is installed is saved, not what is recorded               *)
(* (DiskIsCurrent, StoppedStaysStopped).                                   *)
ContentOfRegistry ==
  [a \in Agents |-> IF registry[a] = None THEN None ELSE process[registry[a]].launch]

(* RegistryWithout: the stopped agent stays installed (ServerToldTruth).   *)
RegistryKeeping(a) == registry

(* CountedDown: an early return forgets the counter, or counts twice       *)
(* (ActiveTurnsCounted, TypeOK).                                           *)
CountedDownNever == active
CountedDownTwice == active - 2

(* LockFree: the turn does not wait for the lock (OneTurnPerProcess).      *)
LockUnchecked(d) == TRUE

(* ReportError: a failed turn reports nothing (NotLeftWorking).            *)
ReportErrorNever(d) == process

(* Released: the guard outlives its turn (TurnsEnd).                       *)
ReleasedNever(d) == holder

-----------------------------------------------------------------------------
(* The connection.                                                         *)

(* The ready frame lists the agents the registry holds; then the restore   *)
(* loop visits those persisted as running.                                 *)
Connect ==
  /\ loop.pc \in {"boot", "offline"}
  /\ link' = "up"
  /\ status' = [a \in Agents |-> IF registry[a] # None THEN "active" ELSE status[a]]
  /\ toRestore' = {a \in Agents : saved[a] # None}
  /\ loop' = Return(toRestore')
  /\ UNCHANGED <<registry, process, saved, disk, saveFailed, turnVars, probes, exits>>

(* The writer stops at a failed send while the reader still delivers.      *)
WriterDies ==
  /\ link = "up"
  /\ link' = "half"
  /\ UNCHANGED <<hostVars, status, turnVars, probes, exits>>

(* A read error, a close frame or the end of the stream.  Turns go on.     *)
Disconnect ==
  /\ loop.pc = "idle"
  /\ loop' = At("offline") /\ link' = "down"
  /\ UNCHANGED <<registry, process, saved, disk, saveFailed, toRestore, status,
                 turnVars, probes, exits>>

-----------------------------------------------------------------------------
(* start_agent, for an agent:start message and for the restore loop.       *)

(* AgentProcess::from_start fails, or succeeds and the mint request starts. *)
BeginStart(a, l, rest, before) ==
  /\ toRestore' = rest
  /\ \/ /\ status' = Told(before, a, "failed")
        /\ loop' = Return(rest)
        /\ UNCHANGED process
     \/ \E p \in ProcIds :
          /\ ~InUse(p)
          /\ process' = [process EXCEPT ![p] = FromStart(a, l)]
          /\ loop' = Op("start", a, l, p, "minting")
          /\ status' = before
  /\ UNCHANGED <<registry, saved, disk, saveFailed, link, turnVars, probes, exits>>

StartAgent(a, l) ==
  /\ loop.pc = "idle"
  /\ BeginStart(a, l, {}, [status EXCEPT ![a] = "asked"])

(* One round of the restore loop.                                          *)
StillToVisit(a) == toRestore \ {a}

Restore(a) ==
  /\ loop.pc = "restore" /\ a \in toRestore
  /\ IF registry[a] # None
     THEN /\ toRestore' = StillToVisit(a)
          /\ loop' = Return(toRestore')
          /\ UNCHANGED <<registry, process, saved, disk, saveFailed, link, status,
                         turnVars, probes, exits>>
     ELSE BeginStart(a, saved[a], StillToVisit(a), status)

(* The mint request has ended (a failure only costs the credential, with   *)
(* which replies are posted); the process replaces what the agent had.     *)
Install ==
  /\ loop.pc = "minting"
  /\ process' = [process EXCEPT ![loop.proc] = Report(@, "idle")]
  /\ registry' = [registry EXCEPT ![loop.agent] = loop.proc]
  /\ loop' = [loop EXCEPT !.pc = "persist"]
  /\ UNCHANGED <<saved, disk, saveFailed, toRestore, link, status, turnVars, probes, exits>>

(* set_running_agent or remove_running_agent.                              *)
Recorded == [saved EXCEPT ![loop.agent] = loop.launch]

(* The record is updated, then save opens state.json, which truncates it.  *)
OpenState ==
  /\ loop.pc = "persist"
  /\ saved' = Recorded
  /\ \/ /\ disk' = Torn
        /\ loop' = [loop EXCEPT !.pc = "write"]
        /\ UNCHANGED saveFailed
     \/ /\ saveFailed' = TRUE
        /\ loop' = [loop EXCEPT !.pc = "finish"]
        /\ UNCHANGED disk
  /\ UNCHANGED <<registry, process, toRestore, link, status, turnVars, probes, exits>>

Content == saved

WriteState ==
  /\ loop.pc = "write"
  /\ \/ disk' = Content /\ saveFailed' = FALSE
     \/ disk' = disk  /\ saveFailed' = TRUE
  /\ loop' = [loop EXCEPT !.pc = "finish"]
  /\ UNCHANGED <<registry, process, saved, toRestore, link, status, turnVars, probes, exits>>

(* The session, status and activity frames that end start_agent.           *)
Announce ==
  /\ loop.pc = "finish" /\ loop.op = "start"
  /\ Tell(loop.agent, "active")
  /\ loop' = Return(toRestore)
  /\ UNCHANGED <<registry, process, saved, disk, saveFailed, toRestore, link, turnVars,
                 probes, exits>>

(* agent:stop: forget the agent, save, drop its entry, report it.          *)
StopAgent(a) ==
  /\ loop.pc = "idle"
  /\ loop' = Op("stop", a, None, None, "persist")
  /\ UNCHANGED <<registry, process, saved, disk, saveFailed, toRestore, link, status,
                 turnVars, probes, exits>>

RegistryWithout(a) == [registry EXCEPT ![a] = None]

Retire ==
  /\ loop.pc = "finish" /\ loop.op = "stop"
  /\ registry' = RegistryWithout(loop.agent)
  /\ Tell(loop.agent, "inactive")
  /\ loop' = Return(toRestore)
  /\ UNCHANGED <<process, saved, disk, saveFailed, toRestore, link, turnVars, probes, exits>>

-----------------------------------------------------------------------------
(* agent:deliver and agent:activity_probe.                                 *)

(* What becomes of a delivery once it is acked.                            *)
Dispatched(a, body) ==
  CASE registry[a] = None                        -> "unknown"
    [] registry[a] # None /\ body # "text"       -> "ignored"
    [] registry[a] # None /\ body = "text"       -> "spawned"

(* The ack comes first; when the writer is gone it fails, and the handler  *)
(* returns with nothing done.                                              *)
Deliver(d, a, body) ==
  /\ loop.pc = "idle" /\ link = "up"
  /\ turn[d] = "none"
  /\ to' = [to EXCEPT ![d] = a]
  /\ turn' = [turn EXCEPT ![d] = Dispatched(a, body)]
  /\ UNCHANGED <<hostVars, link, status, snap, holder, active, probes, exits>>

(* A probe is answered "idle" whatever the agent is doing.                 *)
Probe(a) ==
  /\ loop.pc = "idle" /\ registry[a] # None
  /\ probes < MaxProbes
  /\ probes' = probes + 1
  /\ process' = [process EXCEPT ![registry[a]] = Report(@, "idle")]
  /\ UNCHANGED <<registry, saved, disk, saveFailed, loop, toRestore, link, status,
                 turnVars, exits>>

-----------------------------------------------------------------------------
(* run_agent_turn, the task of one delivery.                               *)

turnFrame == <<registry, saved, disk, saveFailed, loop, toRestore, link, status, to,
               probes, exits>>

(* The counter goes up and the process is cloned; without an entry the     *)
(* task returns and the counter goes down again.                           *)
BeginTurn(d) ==
  /\ turn[d] = "spawned"
  /\ IF registry[to[d]] = None
     THEN /\ turn' = [turn EXCEPT ![d] = "vanished"]
          /\ UNCHANGED <<snap, active>>
     ELSE /\ turn' = [turn EXCEPT ![d] = "preparing"]
          /\ snap' = [snap EXCEPT ![d] = registry[to[d]]]
          /\ active' = active + 1
  /\ UNCHANGED <<process, holder, turnFrame>>

(* active_turns.fetch_sub, when the task's function has returned.          *)
CountedDown == active - 1

(* Attachments have been fetched, and the message turns out to be one to   *)
(* answer or not (prepare_delivery_prompt).                                *)
Prepare(d) ==
  /\ turn[d] = "preparing"
  /\ \/ turn' = [turn EXCEPT ![d] = "waiting"] /\ UNCHANGED <<snap, active>>
     \/ /\ turn' = [turn EXCEPT ![d] = "declined"]
        /\ snap' = [snap EXCEPT ![d] = None]
        /\ active' = CountedDown
  /\ UNCHANGED <<process, holder, turnFrame>>

(* The turn_lock of the clone, and the "working" frame.                    *)
LockFree(d) == holder[snap[d]] = None

AcquireLock(d) ==
  /\ turn[d] = "waiting" /\ LockFree(d)
  /\ holder' = [holder EXCEPT ![snap[d]] = d]
  /\ process' = [process EXCEPT ![snap[d]] = Report(@, "working")]
  /\ turn' = [turn EXCEPT ![d] = "running"]
  /\ UNCHANGED <<snap, active, turnFrame>>

(* run_one_turn returns a reply to post, one to keep silent about, or an   *)
(* error, which is reported at once.                                       *)
ReportError(d) == [process EXCEPT ![snap[d]] = Report(@, "error")]

RunOneTurn(d) ==
  /\ turn[d] = "running"
  /\ \/ turn' = [turn EXCEPT ![d] = "posting"]   /\ UNCHANGED process
     \/ turn' = [turn EXCEPT ![d] = "finishing"] /\ UNCHANGED process
     \/ /\ turn' = [turn EXCEPT ![d] = "apologizing"]
        /\ process' = ReportError(d)
  /\ UNCHANGED <<snap, holder, active, turnFrame>>

(* post_agent_reply has returned, whatever came of it.                     *)
PostReply(d) ==
  /\ turn[d] = "posting"
  /\ turn' = [turn EXCEPT ![d] = "finishing"]
  /\ UNCHANGED <<process, snap, holder, active, turnFrame>>

(* The end of the task: clone and lock guard are dropped, then the counter *)
(* goes down.                                                              *)
Released(d) == [holder EXCEPT ![snap[d]] = None]

Leave(d) ==
  /\ turn' = [turn EXCEPT ![d] = "done"]
  /\ snap' = [snap EXCEPT ![d] = None]
  /\ holder' = Released(d)
  /\ active' = CountedDown
  /\ UNCHANGED turnFrame

FinishTurn(d) ==
  /\ turn[d] = "finishing"
  /\ process' = [process EXCEPT ![snap[d]] = Report(@, "idle")]
  /\ Leave(d)

(* The fallback message for a failed turn has been posted.                 *)
Apologize(d) ==
  /\ turn[d] = "apologizing"
  /\ UNCHANGED process
  /\ Leave(d)

(* is_no_reply_response slices the response by bytes; one whose 8th byte   *)
(* from either end is inside a character panics, in run_one_turn or after  *)
(* it.  The guard is released by the unwinding, the counter is not.        *)
PanicInTurn(d) ==
  /\ turn[d] = "running"
  /\ turn' = [turn EXCEPT ![d] = "panicked"]
  /\ snap' = [snap EXCEPT ![d] = None]
  /\ holder' = Released(d)
  /\ UNCHANGED <<process, active, turnFrame>>

-----------------------------------------------------------------------------
(* The daemon ends (shutdown, SIGKILL, crash, or exec of an update) and    *)
(* the next one loads state.json.                                          *)
Loaded(content) == IF content = Torn THEN NothingRuns ELSE content

DaemonExit ==
  /\ exits < MaxExits
  /\ exits' = exits + 1
  /\ registry' = [a \in Agents |-> None]
  /\ process' = [p \in ProcIds |-> None]
  /\ saved' = Loaded(disk)
  /\ loop' = At("boot") /\ toRestore' = {} /\ link' = "down"
  /\ turn' = [d \in Deliveries |-> IF turn[d] \in {"spawned", "panicked"} \cup Cloned
                                   THEN "killed" ELSE turn[d]]
  /\ snap' = [d \in Deliveries |-> None]
  /\ holder' = [p \in ProcIds |-> None]
  /\ active' = 0
  /\ UNCHANGED <<disk, saveFailed, status, to, probes>>

-----------------------------------------------------------------------------
Dispatcher ==
  \/ Connect \/ WriterDies \/ Disconnect
  \/ \E a \in Agents, l \in Launches : StartAgent(a, l)
  \/ \E a \in Agents : Restore(a) \/ StopAgent(a) \/ Probe(a)
  \/ Install \/ OpenState \/ WriteState \/ Announce \/ Retire
  \/ \E d \in Deliveries, a \in Agents, body \in Bodies : Deliver(d, a, body)

TurnTask(d) ==
  \/ BeginTurn(d) \/ Prepare(d) \/ AcquireLock(d) \/ RunOneTurn(d)
  \/ PostReply(d) \/ FinishTurn(d) \/ Apologize(d) \/ PanicInTurn(d)

Next == Dispatcher \/ (\E d \in Deliveries : TurnTask(d)) \/ DaemonExit

Spec == Init /\ [][Next]_vars

(* Fairness.  The tokio runtime polls every task that can go on; the       *)
(* dispatcher's and the turns' awaits on HTTP calls, on the child and on   *)
(* its pipes are taken to end; tokio's Mutex is FIFO, so a waiting turn    *)
(* gets a lock that is freed again and again.                              *)
DispatcherStep ==
  \/ Connect \/ Install \/ OpenState \/ WriteState \/ Announce \/ Retire
  \/ \E a \in Agents : Restore(a)

TurnStep(d) ==
  \/ BeginTurn(d) \/ Prepare(d) \/ RunOneTurn(d) \/ PostReply(d)
  \/ FinishTurn(d) \/ Apologize(d) \/ PanicInTurn(d)

Fairness ==
  /\ WF_vars(DispatcherStep)
  /\ \A d \in Deliveries : WF_vars(TurnStep(d)) /\ SF_vars(AcquireLock(d))

FairSpec == Spec /\ Fairness

-----------------------------------------------------------------------------
(* Invariants.                                                             *)

(* Every variable keeps its type; in particular the process behind a       *)
(* registry entry, a clone or a start in progress is a live AgentProcess.  *)
TypeOK ==
  /\ registry \in [Agents -> ProcIds \cup {None}]
  /\ process \in [ProcIds -> Process \cup {None}]
  /\ saved \in RunningMap
  /\ disk \in RunningMap \cup {Torn}
  /\ saveFailed \in BOOLEAN
  /\ loop \in LoopState
  /\ toRestore \in SUBSET Agents
  /\ link \in {"down", "up", "half"}
  /\ status \in [Agents -> {"none", "asked", "active", "inactive", "failed"}]
  /\ turn \in [Deliveries -> TurnState]
  /\ to \in [Deliveries -> Agents \cup {None}]
  /\ snap \in [Deliveries -> ProcIds \cup {None}]
  /\ holder \in [ProcIds -> Deliveries \cup {None}]
  /\ active \in Nat /\ probes \in Nat /\ exits \in Nat

(* Turns that work with the same installed process exclude each other, so  *)
(* two turns of one agent overlap only when the agent was started again    *)
(* between the deliveries' tasks (runner.rs:2016-2019).                    *)
OneTurnPerProcess ==
  \A d1, d2 \in Deliveries :
    turn[d1] \in Locked /\ turn[d2] \in Locked /\ snap[d1] = snap[d2] => d1 = d2

(* The counter the updater waits for is the number of turn tasks that have *)
(* begun and not returned, those that panicked included: it is never 0     *)
(* while a turn is at work (runner.rs:879-891).                            *)
ActiveTurnsCounted ==
  active = Cardinality({d \in Deliveries : turn[d] \in Cloned \cup {"panicked"}})

(* An installed agent is recorded as running with the launch it was        *)
(* installed from, except during its own start or stop (runner.rs:1370,    *)
(* 1372, 1015, 1024).                                                      *)
InstalledIsSaved ==
  \A a \in Agents : registry[a] # None /\ loop.agent # a
                     => saved[a] = process[registry[a]].launch

(* While no save is at work, and unless the last one failed, what a new    *)
(* daemon would load is what this one has in memory (state/mod.rs:185-210). *)
DiskIsCurrent ==
  loop.pc # "write" /\ ~saveFailed => Loaded(disk) = saved

(* While the connection works, the server has been told the truth: an      *)
(* installed agent was not reported stopped, and a persisted agent that is *)
(* not installed once the restore loop is over was reported as failed      *)
(* (runner.rs:602-630, 1382-1420).                                         *)
ServerToldTruth ==
  \A a \in Agents : link = "up" /\ loop.agent # a =>
    /\ registry[a] # None => status[a] \in {"active", "failed"}
    /\ loop.pc = "idle" /\ registry[a] = None /\ saved[a] # None => status[a] = "failed"

(* Whenever no turn holds a process's lock, the frame with its highest     *)
(* clientSeq does not say "working", unless a turn of the agent panicked   *)
(* (runner.rs:2021-2092).                                                  *)
NotLeftWorking ==
  \A p \in ProcIds :
    InUse(p) /\ holder[p] = None /\ process[p].latest = "working"
    => \E d \in Deliveries : turn[d] = "panicked" /\ to[d] = process[p].agent

-----------------------------------------------------------------------------
(* Action and liveness properties.                                         *)

(* An end of the daemon outside a save loses no running agent: the next    *)
(* daemon finds each installed agent with the launch it had, unless the    *)
(* last save failed or the agent was being started or stopped.             *)
ExitKeepsRunningAgents ==
  [][ exits' # exits /\ ~saveFailed /\ loop.pc # "write"
      => \A a \in Agents : registry[a] # None /\ loop.agent # a
                            => saved'[a] = process[registry[a]].launch ]_vars

(* A stopped agent stays stopped: one that is not recorded as running is   *)
(* recorded again only by its own start, or when the daemon ends after a   *)
(* save that failed; never because state.json still had it (1007-1028).    *)
StoppedStaysStopped ==
  [][ \A a \in Agents : saved[a] = None /\ saved'[a] # None
        => \/ loop.op = "start" /\ loop.agent = a
           \/ exits' # exits /\ saveFailed ]_vars

(* A delivery whose task was spawned comes to an end.                      *)
TurnsEnd == \A d \in Deliveries : turn[d] = "spawned" ~> turn[d] \in Terminal

(* A daemon that boots or loses its connection serves messages again, all  *)
(* persisted agents visited.                                               *)
ServesAgain == loop.pc \in {"boot", "offline"} ~> loop.pc = "idle" /\ toRestore = {}

-----------------------------------------------------------------------------
(* The abstract service.                                                   *)

PhaseOf(d) ==
  CASE turn[d] = "none"                     -> "new"
    [] turn[d] = "spawned"                  -> "due"
    [] turn[d] \in {"preparing", "waiting"} -> "begun"
    [] turn[d] \in Locked                   -> "serving"
    [] turn[d] = "panicked"                 -> "lost"
    [] turn[d] \in Terminal \ {"panicked"}  -> "over"

Service == INSTANCE TurnService WITH
  Turns <- Deliveries, Locks <- ProcIds,
  phase <- [d \in Deliveries |-> PhaseOf(d)], serving <- holder, busy <- active

(* The host implements the abstract turn service: restarts of an agent,    *)
(* stops, lost connections and ends of the daemon included, no delivery is *)
(* served twice, a lock is only given back by its holder, and nothing but  *)
(* a turn's begin and end moves the counter (runner.rs:873-891, 1977-2098). *)
ImplementsTurnService == Service!Spec

-----------------------------------------------------------------------------
(* What the documentation says and the code does not do.                   *)

(* "The active-turns counter lets the auto-updater wait until the daemon   *)
(* is idle" (runner.rs:870-871): an idle daemon counts no turn.            *)
IdleCountsNoTurn ==
  (\A d \in Deliveries : turn[d] \notin Cloned) => active = 0

=============================================================================
