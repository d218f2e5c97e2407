# raft-rust-daemon in TLA+

`raft-daemon` hosts the agents of the Raft chat platform on a user's machine
(despite the name there is no consensus protocol in it). It keeps one WebSocket
connection to the Raft server, starts and stops agents when the server asks, runs
one RustyCLI child per message to an agent, posts the replies back over REST, keeps
the set of running agents in `state.json`, updates itself from GitHub releases, and
is itself started and stopped by CLI commands that find it through a PID file.

This directory holds TLA+ modules of the concurrent and crash-prone parts of that
program, the TLC configurations that check them on small instances, and proofs that
the TLA+ proof system checks for instances of any size. Paths below are relative to
`src/src/daemon/` unless they begin with `src/`.

`PROJECT.json` has the exact correspondence: under "map" the lines every definition
stands for, under "hazards" what can go wrong in this code and which property watches
it, under "mutants" for each property a plausible bug under which TLC finds it
violated.

## 1. Inventory

| Component | State it keeps | Operations | Talks to |
|---|---|---|---|
| **Dispatcher and turns** (`runner.rs` 573-1430, 1931-2100; `agent/process.rs` 90-420, 640-760) | registry of installed processes; per process a turn lock, a session, an activity counter; `active_turns` | ready frame, restore loop, `agent:start/stop/deliver/activity_probe/reset/skills`, workspace and machine requests, `run_agent_turn` | persisted state, REST client, writer, proxy, updater (counter) |
| **Persisted state** (`state/mod.rs`) | `DaemonState`: config, running agents with their launch payload; `state.json` | load (fresh state on a parse error), save (truncate, write), set/remove running agent | dispatcher, CLI |
| **Connection** (`runner.rs` 450-720, 2102-2460) | backoff, WebSocket, outbound channel of 64 frames, shutdown watch | connect, back off, read, write, ping, drain, leave | dispatcher, turns, signals |
| **Daemon process, PID file** (`runner.rs` 150-430, 2340-2420; `pidfile.rs`) | `daemon.pid`, processes | start, foreground start, stop, restart, exec, cleanup | OS, other commands |
| **Self-update** (`update.rs`) | last check, download directory, the executable | check, wait for idle and quiet hours, download, verify, rename, exec | turns (counter), GitHub, other profiles |
| **One turn** (`agent/process.rs` 773-960) | child, the pipes of its output and the tasks that read them | spawn, read, wait, time out, kill, collect, judge the output | RustyCLI and the tools it starts |
| **Agent-api proxy, `raft`/`slock` CLI** (`proxy.rs`, `cli/raft_cli.rs`) | token files, proxy token to process | authenticate, rewrite, forward | registry, agents, server |
| **Conversations** (`runner.rs` 1719-1858, 1977-2178; `agent/raft_client.rs` 65-302; `cli/raft_cli.rs` 229-290) | credential of each agent; at the server, reminders and messages | decide whether to answer, build the prompt, derive the target, post; CLI: send, remind | server, other agents, people |
| **Agent homes** (`agent/process.rs` 131-243, 558-678; `runner.rs` 894-970, 1136-1182, 1480-1644, 1860-1950) | per agent a directory with `MEMORY.md` and `notes/`; the legacy one | create, migrate, download attachments, list, read, scan, delete | dispatcher, RustyCLI, server |
| **REST client** (`agent/raft_client.rs`) | credential, base URLs | mint, post, derive target, download | server |
| **Computer manager** (`computer.rs`, `src/models/computer.rs`) | map of computers behind an `RwLock`'d map | start, stop, reconnect, remove, each with a save and a simulated delay | persisted state |
| **Task and reminder managers** (`task/`, `reminder/`, `src/models/task.rs`, `reminder.rs`) | concurrent maps of records | add, get a copy, remove; claim, complete, cancel, fail; snooze, cancel, fire | none of the running daemon |
| **Agent, server, message, runtime, workspace managers** (`agent/manager.rs`, `server.rs`, `message/`, `runtime/`, `workspace.rs`) | maps | placeholders; connect/disconnect/send; lists | CLI (mostly printing stubs) |
| **Runtime drivers, paths, tracing, CLI parsing** | a child, or none | a second way to run RustyCLI, not used by the daemon; pure conversions | |

How they interact: the CLI starts the process, which writes the PID file, loads
`state.json`, starts the proxy, the updater and the event loop. The event loop owns the
connection; the dispatcher is the same task, one message at a time, and every message
handler runs to its end before the next is read. A delivery is acked and becomes a task
of its own, which shares with the dispatcher the registry (behind an `RwLock`), the
process (behind `Arc`), the counter (atomic) and the outbound channel. The updater only
reads the counter and at the end replaces the whole process by `exec`.

### What is hard here, and what makes each part correct

* **Dispatcher and turns.** Handlers await while turns run; a turn looks its process up
  after it was acked; a start replaces a process under a running turn; a task may panic
  between the two updates of the counter. *Correct when* turns of one process exclude
  each other, every delivery's task ends, the counter says how many turns are at work,
  the server is never told less or more than is installed, and the newest frame about an
  agent does not say "working" when no turn is.
* **Persisted state.** Memory, registry and disk are three copies, updated at three
  moments, and the process may end between any two. *Correct when* an installed agent is
  recorded, what is on disk is what is recorded unless a save failed or is at work, a
  stopped agent does not come back, and an exit loses none.
* **Connection.** A bounded channel with up to four kinds of producer, a writer that
  ends only when all senders are gone, and a loop that waits for the writer. *Correct
  when* acks come before the frames of the turn, a full channel loses nothing, a shutdown
  request is honoured wherever the loop is, a lost connection is replaced, and the loop
  ends for no other reason.
* **Daemon process.** The PID file is read, judged and written in separate system calls
  by several processes, and ids are reused. *Correct when* two daemons never serve one
  profile, the one that serves is the one in the file, and a stop that reports success
  has stopped it.
* **Self-update.** The decision is taken minutes before the act; the download is at a
  path other daemons use too; any step may fail. *Correct when* the installed executable
  was always verified, versions never go back, and no turn is cut off.
* **One turn.** Output races the exit, the timeout and the kill; full pipes stop the
  child; tools inherit the pipes and outlive it. *Correct when* a reply is all that was
  printed, a timeout is told and not taken for silence, no child is left behind, and the
  turn returns. (The last it does not always, section 5.)
* **Proxy and CLI.** A token is written before the process that owns it is installed,
  read by a tool, and looked up later. *Correct when* a call goes out as the agent whose
  turn made it, and is denied only when that agent's process was replaced.
* **Conversations.** Agents answer what other agents' answers bring them; the server
  describes a conversation in fields that its versions fill differently, and the prompt
  and the target read them by different rules. *Correct when* an answer goes to where the
  question came from or nowhere, and agents do not keep each other talking.
* **Agent homes.** A start writes into a directory in which a turn of the process before
  it is writing and attachments arrive; the server may delete it under both; a start may
  be cut short between any two writes. *Correct when* no start overwrites a file that was
  there, and an installed agent has its memory and the notes of the earlier daemon.
* **Managers.** Status fields set, saved, slept on and set again, with no lock held
  meanwhile; copies of records changed and put back. *Correct when* no computer is left
  in between two states, a removed one stays removed, and a reminder for once is over
  when it has fired.

## 2. Modules

`AgentLifecycle` is the centre, and `TurnService` is what it promises of turns; the other
modules each abstract it to what they need.

| Module | Models | Checked by | Proofs |
|---|---|---|---|
| `TurnService` | the service of turns, abstractly | `agent_turns` (refinement) | `AgentLifecycleProofs` |
| `AgentLifecycle` | dispatcher, registry, turns, `state.json` | `agent_*` | `AgentLifecycleProofs` |
| `Connection` | event loop, writer, pinger, shutdown | `connection` | `ConnectionProofs` |
| `DaemonProcess` | PID file, start, stop, restart | `daemon_process` | `DaemonProcessProofs` |
| `SelfUpdate` | updater, executable, downloads | `self_update` | `DaemonProcessProofs` |
| `RustyTurn` | the child of a turn, its pipes and timeout | `rusty_turn`, `rusty_timeout` | `RustyTurnProofs` |
| `AgentApiProxy` | token files, tokens, CLI calls | `agent_api_proxy` | `AgentApiProxyProofs` |
| `Conversation` | prompts, targets, answers, reminders | `conversation` | `ConversationProofs` |
| `AgentHome` | files of an agent and who writes them | `agent_home` | `AgentHomeProofs` |
| `Managers` | computers, tasks and reminders of the library | `managers` | `ManagersProofs` |

### TurnService
The abstract specification: each delivery is accepted or refused, begun, served under one
lock, and over or lost; the counter is moved by those steps only; a restart ends what was
accepted. It has no registry, no file, no connection and no messages. `AgentLifecycle`
implements it under the mapping at its end (`Service`): `phase` is computed from `turn`
(`PhaseOf`), `serving` is `holder`, `busy` is `active`. It is what `SelfUpdate`,
`Connection` and `Conversation` take a turn to be.

### AgentLifecycle
`runner.rs` dispatcher and `run_agent_turn`, `agent/process.rs` registry,
`state/mod.rs`.

| State | Code |
|---|---|
| `registry` | `AgentProcessRegistry.processes`, agent id to process |
| `process` | the `AgentProcess` values alive, each with the launch it was built from, its `activity_client_seq` and the activity in the frame with that number |
| `saved`, `disk` | `DaemonState.running_agents` in memory; what `state.json` holds, `Torn` when it does not parse |
| `saveFailed` | the last save returned an error (and the handler went on) |
| `loop` | the point in its handler the dispatcher is at, with that handler's agent, launch, process |
| `toRestore` | the persisted agents the restore loop has yet to visit |
| `link` | "half" when the writer task is gone and sends fail while reads go on |
| `status` | the last `agent:status` about each agent, or that the server asked for it |
| `turn`, `to`, `snap`, `holder` | each delivery's task, its agent, the process it cloned, and who holds each `turn_lock` |
| `active` | `active_turns` |

A handler is split where another task, or the end of the process, can see its
intermediate state: `start_agent` is `StartAgent`/`Restore` (build, begin to mint),
`Install`, `OpenState` (record, truncate), `WriteState`, `Announce`. A turn is
`BeginTurn`, `Prepare`, `AcquireLock`, `RunOneTurn`, `PostReply`/`Apologize`,
`FinishTurn`, with `PanicInTurn` for the byte slice of `is_no_reply_response`
(`runner.rs` 61-72). Everything a step does under one lock or without an await is one
action. Network results and the child's outcome are nondeterministic. `DaemonExit` is
any end of the process at any point, followed by the load of the next one.

Process names are reused once nothing refers to the process, so their number bounds the
processes alive at a time, never how many a run creates.

### Connection
`run_event_loop`, `drive_connection`, `run_writer`, `spawn_pinger`, the shutdown watch and
the senders that turns hold. What messages do to agents is left to `AgentLifecycle`.
`Send` waits for a slot or fails once the receiver is dropped; `SomeSender` is the
condition under which `recv` cannot yet return `None`; `Asked`, `unseen` and `signals`
are the watch's value, its version and its sender. A turn's clone of the sender outlives
the connection ("closed") as in the code, and the loop waits in `Drained`. A handler that
answers is `ReadRequest` (one reply) or `ReadMigration` (two, where a failure of the first
keeps the second from being tried), followed by `Reply`; frames that are only logged are
no step.

### DaemonProcess
CLI commands, the processes they spawn, foreign programs that take process ids, and the
PID file, one action per system call on it. `refuse_if_already_running` and `write_pid`
run in commands and in daemons alike and are the same actions for both. `Crash` is
possible anywhere in a daemon. Starts, stops, restarts and execs overlap freely, since no
lock in the code prevents it.

Two history variables, which restrict no step, tell where that goes wrong. `outdated` has
the actors behind whose back the file has changed: another has truncated or removed it
since they read it, or removed it since they opened it to write (what is written then is
nowhere, `Write`). The command that will put a process's id into the file and that process
itself do not outdate each other (`Related`). `misled` says that, since all were last at
rest (`AtRest`), an actor has truncated or removed a file that is not the one it had read
(`Stale`), has read one that another was in the middle of writing (`Torn`), or is a
command that failed to write the file it had truncated. Each of the three by itself is
enough to end in two daemons or in one that stop does not find; what the properties and
the proofs say is that nothing else is.

### SelfUpdate
The updater of each daemon, the executable, the shared download directory, releases
(which may be withdrawn), the clock. A file is abstracted to whether it has the
published checksum; a write goes to the file that was opened, also after a `rename`.

### RustyTurn
`run_one_turn`, and what `run_agent_turn` makes of its result. The child and one tool hold
the write ends of two pipes (`holders`) with room for `PipeCapacity` chunks; the two tasks
read from the start (`reader`, `buffer`); `turn` is the point in the code: waiting for the
child or the timer, killing and reaping, collecting both buffers, posting. `printed` is a
history of what was written, for `ReplyIsWhole`. Output is abstracted to four kinds of
chunks, those that `trim` and `is_no_reply_response` tell apart. `wait` fails only when
there is no child to wait for, so `WaitFails` needs an exited one. Everything about the
child and the tool is external and free: they print, hang, close their output and exit as
they like, and the kill reaches only the child.

### AgentApiProxy
Tokens on their way from `start_agent` through the token file and a tool's environment to
`find_by_proxy_token`. Each turn has cloned a process (`owner`) and makes one CLI call at
a time (`call`, `bearer`); `sentAs` is the agent whose credential the proxy used. The
truncation and the write of a token file are separate steps and either may fail.
`DaemonExit` ends the proxy and the calls with it; token files stay. `AgentLifecycle`
has what else a start does.

### Conversation
`prepare_delivery_prompt`, `derive_target`, `post_agent_reply` and the CLI commands with
which a turn posts or sets a reminder. The server is external: it keeps conversations,
describes each in one of the `Formats` that the code and its tests provide for
(`channel_target`, `channel_kind`, `channel_type`, each filled, null or absent), delivers
a post to the agents among the members, and resolves a target within the sender's
conversations. A delivery goes through `spawned` (`Prepare`), `waiting` for the turn lock,
`running`, `posting`. `PromptKind` and `Kind` are the two readings of the same fields, of
the prompt and of the target; they differ when `channel_kind` is null, and when only
`channel_target` is filled. That a format whose `channel_type` does not tell a direct
message fills another field that does is an assumption on the server
(`ConversationAssumption`).

### AgentHome
`setup_agent_memory`, `migrate_notes_dir`, `download_delivery_attachments` and the
workspace requests, one step per file opened and per file written, so that the end of the
daemon, a failed call or another task comes in between. A file is absent, torn, or has one
of a few contents (from the earlier daemon, initial, an attachment, edited by the agent).
`kept` is a history of what was there when a start began, `spoilt` of homes that a delete
or a start cut short has left with less. RustyCLI's own writes (`Edit`) are external.

### Managers
`ComputerManager`'s calls, each a first status, a save that may fail, a sleep and a last
status; and the status methods of `Task` and `Reminder`, `set_status` with any status
included, applied by callers to copies (`Get`, `Change`, `Put`), which is how the maps
work. A computer may be added with any status, as a copy taken during a call has. `stuck`
remembers a save that failed, and a computer added while starting or being removed. The
times of tasks and reminders are left out: they come from a wall clock, and nothing
decides by them.

## 3. Runs

| Run | Question | Bounds, and why they suffice |
|---|---|---|
| `agent_turns` | turns, locks, counter; deliveries end, the dispatcher serves again; the service of turns | 1 agent, 2 processes (an old one under a running turn, a new one), 2 deliveries (holder and waiter of one lock, or one for each process), 1 exit; no probes, which only number a frame; no symmetry |
| `agent_persistence` | memory, registry, disk and server agree, across exits; the last frame of each process | 2 agents, 2 launches, 2 processes (of two agents, or an old one under a running turn and a new one), 1 delivery, bodies with and without text, 1 probe, 2 exits (a crash, and one in the recovery from it) |
| `connection` | order, loss, drain, shutdown, reconnect | 2 turns, 1 slot (every producer has to wait), backoff 1..2; no symmetry |
| `daemon_process` | one daemon, addressable, stoppable, or who was misled | 2 process ids, reused, 2 commands at a time, crashes anywhere; a `VIEW` takes states that differ only in dead locals for one (the same with 3 ids holds and takes minutes) |
| `self_update` | verified, never older | 1 daemon, 3 versions, 2 turns, 1 leaked count |
| `rusty_turn` | reply, silence, timeout, kill, pipes | 1 chunk per pipe (every second write blocks), 2 chunks per stream (both ends of a reply), one tool, turns one after the other; no symmetry |
| `rusty_timeout` | *violated*: the timeout ends a turn whose tool hangs | one tool, 1 chunk |
| `agent_api_proxy` | whose credential, which token, who is denied | 2 agents, 2 launches (the same file again, or another), 4 tokens (of two processes, a start and a call), 1 turn (a call depends on no other call) |
| `agent_panic_count` | *violated*: an idle daemon counts no turn | one panic |
| `conversation` | where answers go, whether agents come to rest | 2 agents, 1 person, a channel of all three, the person's and the agents' direct messages; 6 formats of the server, with and without echo; 4 deliveries in flight (a post to the channel wakes two, each answer one more), 2 posts that are no answers |
| `agent_home` | what starts, deletes, attachments and turns leave | 1 agent, 2 notes, 2 attachments of one name, 2 deliveries; every subset of legacy files |
| `managers` | overlapping calls, copies put back late | 1 computer and 2 calls (a third can only repeat what they do), 1 item and 2 callers with a copy each |

Assumptions of the passing runs, where they go beyond the code:

* The three properties of `daemon_process` are claimed until an actor is misled
  (`misled`, section 2), and again once all have come to rest. No overlap, crash, failed
  write or reuse of an id is excluded; the race itself, that an actor can be misled, is
  in the code (section 5).
* `self_update` has one daemon per machine. With two, `InstalledIsVerified` fails
  (section 5).
* `AgentLifecycle` takes up the number of probes and exits with `MaxProbes`, `MaxExits`
  (names of the bounds in the guards); `SelfUpdate` has `MaxVersion`, `MaxTurns`,
  `MaxLeaks`, `RustyTurn` has `MaxChunks`, `Conversation` has `MaxPosts` and `Slots`. The
  other modules have finite state without such bounds. Tokens in `AgentApiProxy` are names that may be used again once nothing
  refers to the old token; a start waits for a free one, where the code makes a new UUID.
* `rusty_turn` and `rusty_timeout` assume nothing of the child, which may hang, nor of the
  tool, which may outlive it and hang for ever.
* `conversation`: people post, and turns use the CLI, finitely often (`MaxPosts`);
  otherwise nothing comes to rest. Answers are not bounded; one for whose deliveries no
  slot is free fails, as posts may anyway, and four slots are enough for two posts to the
  channel and all that follows from them. The agents' own direct messages are excluded
  from `Settles`: there each answers the other for ever (section 5).
* `agent_home`: homes that were deleted, and starts that failed or were cut short, are
  outside `InstalledHasHome` until a start has made the home anew (`spoilt`).
* `agent_api_proxy` takes a port to be new: the next daemon's proxy does not get the one
  that a child of this daemon still calls.

Deadlock is checked except in `connection`, where the exited daemon has no step to take,
and in `conversation`, where all may have been said.

### Fairness

`AgentLifecycle`, `Connection`, `RustyTurn` and `Conversation` state any.

* *Weak* fairness of a task's next step: tokio polls every task that is ready. This
  takes the awaited HTTP requests, socket writes and child processes to come to an end.
  The child has a timeout; `mint_runner_credential` has none of its own, and a grandchild
  may keep the pipes open (both under "hazards"): for those the assumption is about the
  outside world, not about the code.
* *Strong* fairness of `AcquireLock`: `tokio::sync::Mutex` hands out the lock in FIFO
  order, so a waiter gets a lock that is released again and again. It does not assume
  that it is released: a guard that outlives its turn (the mutant) violates `TurnsEnd`.
* *Strong* fairness of sends: `tokio::sync::mpsc` gives out slots in FIFO order. Of
  `SeeShutdown`: `select!` polls its branches in random order, so a ready branch is not
  passed over for ever. The steps of a turn in `Connection` share one strong fairness
  condition because the turn passes from one to the next and its names are reused.
* In `RustyTurn` weak fairness of the turn's steps and of both readers, of a child that
  can write or exit or hang, and of SIGKILL. The timer is relied on only for a child that
  hangs: `tokio::time::timeout` always fires, but a child stalled on a full pipe must not
  need it to go on. Nothing is assumed of a tool: `OnlyToolsHoldTurns` says that a turn
  ends unless a tool holds a pipe for ever, `TurnReturns` that it always ends, and fails.
* In `Conversation` weak fairness of a task's steps (a turn has a timeout, a request
  ends), and strong fairness of `BeginTurn`, which is the turn lock again.
* Nothing is assumed of messages, of the pinger's clock, of the network's failures, of
  signals or of crashes. `DaemonExit` is bounded in the runs.

`SelfUpdate` has no liveness property: the updater looks at the counter every 60 s, and a
daemon that is busy at each look, or whose counter a panic has left above zero, never
updates, so there is none to state.

## 4. Proofs

Every type invariant, safety invariant and action property that a passing run checks is
stated by a theorem, for all values of the constants unless the theorem names a condition;
the conditions are collected at the end of this section.

`AgentLifecycleProofs` proves, from `ConstantsAssumption` alone (the deliveries are
finitely many, the sentinels are no ids), for any agents, launches, processes,
deliveries and bounds:

| Theorem | Says |
|---|---|
| `InvariantHolds` | `Spec => []IInv` |
| `TypeCorrect` | `Spec => []TypeOK`, in particular `active_turns` never wraps |
| `TurnsSerialized` | `Spec => []OneTurnPerProcess` |
| `CounterExact` | `Spec => []ActiveTurnsCounted` |
| `InstalledAgentsAreSaved` | `Spec => []InstalledIsSaved` |
| `DiskAgrees` | `Spec => []DiskIsCurrent` |
| `StopIsFinal` | `Spec => StoppedStaysStopped` |
| `ExitLosesNoAgent` | `Spec => ExitKeepsRunningAgents` |
| `ServerKnows` | `Spec => []ServerToldTruth` |
| `WorkIsReported` | `Spec => []NotLeftWorking` |
| `HostImplementsTurnService` | `Spec => ImplementsTurnService`, the safety part of `Service!Spec` |

The argument. `TypeOK` is not inductive: that `process[snap[d]]` is a process and not
`None` depends on every reference keeping its target alive (`ReachedIsProcess`); that a
start has an agent and a launch depends on where the dispatcher is (`LoopOK`); that the
counter does not go below zero depends on it being the number of tasks that will still
count down (`ActiveTurnsCounted`), which in turn needs that a task in its turn has a clone
(`TurnsOK`). `OneTurnPerProcess` follows from `LocksOK`, which is the lock seen from both
sides: a turn in its critical section is the holder, and a holder is in its section with
that very process. `IInv` is their conjunction, proved action by action. The lemmas
`CountUp`, `CountDown` and `CountSame` carry the cardinality argument.

The persistence theorems use a second invariant `PInv` on top of `IInv`: besides the two
properties it has `ProgressOK`, which says how far a start has come at each point of the
dispatcher: the process under construction has the launch that is being started, once
installed it is the agent's process, once the record is updated the record has that
launch, and between truncation and write the file is torn. `IInv` is needed because a
record agrees with a process only as long as the process is not built anew under the same
name while the registry refers to it. `StopIsFinal` and `ExitLosesNoAgent` are the action
properties that follow for each step.

What the server is told takes two more. `ServerToldTruth` is about a dispatcher at rest;
`ToldTruth` says the same of every agent but the one in hand and those the restore loop
has still to visit. `NotLeftWorking` needs that whoever reaches a process, the registry, a
start or a turn, reaches one of its own agent (`KnownAgents`), for a turn reports on the
process it cloned, and that a turn that apologizes has reported already
(`ErrorReported`).

The refinement follows from `IInv`. Each action of `AgentLifecycle` maps to one action of `TurnService` or to a stutter;
the lemmas are named for the action it maps to (`DeliverAccepts`, `AcquireServes`,
`LeaveCompletes`, ...). `DaemonExit` maps to `Restart`, which needs the
types in `IInv` to know that every delivery is new or over after it.

`ManagersProofs`, from `ManagersAssumption`, for any computers, calls, items and callers:

| Theorem | Says |
|---|---|
| `ManagersTypes` | `Spec => []TypeOK` |
| `NoComputerIsStuck` | `Spec => []Unstuck` |
| `RemovedAreGone` | `Spec => RemovedStaysRemoved` |

`Unstuck` is inductive with the types of calls (`CallsOK`): every step that leaves a
transient status behind also leaves a call still to end, or a mark in `stuck`.
`TypeOK` is not: what it says of a reminder in a map must hold of every copy too
(`ItemsOK`), since a copy may be put back at any later time.

`ConversationProofs`, from `ConversationAssumption` (a direct message has two members and
is the only one of the two, names of channels are unique, and a server whose
`channel_type` does not tell a direct message fills another field that does):

| Theorem | Says |
|---|---|
| `ConversationTypes` | `Spec => []TypeOK` |
| `AnswersGoBack` | `Spec => []AnswersWhereAsked` |

The heart is `DerivedTarget`: whatever fields the server's format has, the target derived
from a delivery is none, or resolves to the conversation the delivery came from. It holds
only of deliveries to a member from a member or the server, which is what `Sound` keeps of
the deliveries in flight, and of reminders until they fire.

`AgentHomeProofs`, from `AgentHomeAssumption`, for any agents, files, attachments and
deliveries in flight:

| Theorem | Says |
|---|---|
| `AgentHomeTypes` | `Spec => []TypeOK` |
| `InstalledHaveHomes` | `Spec => []InstalledHasHome` |
| `StartsKeepFiles` | `Spec => StartKeepsFiles` |

`IInv` says how far a start has come (`StartFits`): what was there is there still and is
not the file it is writing, and every note to migrate is there, in hand, or to come. It
says the same of every home that no start is at work on and that is not spoilt, installed
or not (`HomesOK`): with a memory it is whole, because the next start will take it for
whole. `TurnsOK` is about the others who write: a turn edits the memory only where there
is one, for otherwise it would create one without the notes, and a file an attachment is
being written to is there, so the write makes no file in a directory that is gone.
`StartStillFits` and `StillWhole` are why files added by them disturb neither.

`AgentApiProxyProofs`, from `AgentApiProxyAssumption` (the sentinels are no values), for
any agents, launches, tokens and turns:

| Theorem | Says |
|---|---|
| `ProxyTypes` | `Spec => []TypeOK`, in particular no two installed processes share a token |
| `CallsSpeakForTheirAgent` | `Spec => []SpeaksForItself` |
| `TokenFilesAreCurrent` | `Spec => []TokenFileIsCurrent` |

A token is in four places: in processes, in files, in the environment of a turn and in a
call. `Names(k, a)` says that one of them has `k` for agent `a`, and `OneAgentPerToken`
that no token is named for two agents. It is inductive because no step but the beginning
of a start adds a name (`TokensStayWithTheirAgents`), and that one takes an unused token.
`WrittenIsFiled` carries a successful write from the file to the process that is installed
some steps later.

`DaemonProcessProofs` is about `DaemonProcess`, from `DaemonProcessAssumption`, and about
`SelfUpdate`, from `SelfUpdateAssumption`, for any process ids, commands, versions and
turns:

| Theorem | Says | If |
|---|---|---|
| `ProcessesKeepTypes` | `Spec => []TypeOK` | |
| `OneDaemon` | `Spec => []AtMostOneDaemon` | |
| `DaemonsAreAddressable` | `Spec => []DaemonIsAddressable` | |
| `StopsFindTheDaemon` | `Spec => StopFindsTheDaemon` | |
| `UpdatesKeepTypes` | `UpdateSpec => []UpdateTypeOK` | |
| `UpdatesAreVerified` | `UpdateSpec => []InstalledIsVerified` | one daemon |
| `UpdatesGoForward` | `UpdateSpec => NeverDowngrades` | one daemon |

The first four hold whatever overlaps; that nobody was misled is part of what the
properties say, and in them only, so the invariant is `misled \/ Held` and every step must
be shown to keep `Held` or to mislead. `Held` has three parts. An actor *holds* the file
from truncating it, or, if it is a daemon, until it has removed it again: `OneHolder` says
that all who hold it hold it for one process; `HolderIsNamed` that the file names that
process or somebody is about to write its id; `HolderIsFound` that whoever goes by what it
has read, from a file unchanged since, works for that process, has found it, or has found
it dead. A step changes the file either as a holder, or on a reading: then the reading is
out of date and the actor is misled, or `HolderIsFound` says that nobody is harmed. Each
change outdates all other readers, so the last part survives it (`Bystander`,
`FileLeftAlone`). The history variables are needed in the invariant because whether an
actor's knowledge is still good is nowhere in the program's own state.

Of the update, `OneUpdate` says that a download is open only while it is stored, and to
the temporary file; that what is about to be installed was verified; and that a release in
hand, and the executable, are no older than what runs. With two daemons none of this is
inductive: one renames the file the other is writing, and installs an older version that
the other starts from next. `SelfUpdate` has no name of `DaemonProcess`, so that one proof module
can extend both.

`RustyTurnProofs`, from `RustyTurnAssumption`, for any capacity of the pipes and any amount
of output:

| Theorem | Says |
|---|---|
| `TurnKeepsTypes` | `Spec => []TypeOK`: no pipe overflows, nothing empty is posted |
| `RepliesAreWhole` | `Spec => []ReplyIsWhole` |
| `NoChildIsLeft` | `Spec => []ChildIsGone` |

`Whole` is the argument: what was printed is what the reader has, followed by what is in
the pipe, in this order, at all times. A reader that has ended leaves an empty pipe that
nobody can write to (`EndedIsEmpty`), and a turn is over only after both readers ended
(`OverIsQuiet`), so the reply is all of it (`ReplyIsKept`). `Min` and `Max`, with which
`Trim` cuts the blanks off, are shown to be members of their sets by well-founded
induction (`LeastMember`).

`ConnectionProofs`, from `ConnectionAssumption`, for any turns, capacity of the channel and
backoff:

| Theorem | Says |
|---|---|
| `ConnectionTypes` | `Spec => []TypeOK` |
| `IdleIsOnItsWay` | `Spec => []IdleReachesServer` |
| `AckComesFirst` | `Spec => AckPrecedesWorking` |

Both are about frames in a channel of any length, between which other tasks queue theirs.
`Acked` says of every "working" in the channel or at the socket that the frame of its turn
before it is the ack (`AckBefore`); `Closed` that an "idle" is behind it, or its turn is
still at work and has a sender of this connection (`IdleAfter`). Both hold while the
socket is open (`OrderOK`). `ConnectionOK` says that no turn has a sender of a connection
that does not exist yet, so that both begin true with each connection.

Only model-checked, not proved: the liveness properties `TurnsEnd`, `ServesAgain`,
`ShutdownHeard`, `Reconnects`, `OnlyToolsHoldTurns` and `Settles`, whose fairness conditions are
about `ENABLED`, which the proof system does not have; with `TurnsEnd` the liveness that
`TurnService` would ask for. That nothing deadlocks is likewise TLC's.

The theorems with a condition: the two about the update need one daemon on the machine.
`AnswersGoBack` has its condition, on the server, in `ConversationAssumption`. The others have none but
that sentinels are no values, bounds are numbers, and deliveries are finitely many.

## 5. Findings

Two have a run that ends in a counterexample:

1. `runner.rs` 69-70 slices the reply at byte 8 from either end; text in most
   non-Latin scripts makes it panic there. The task dies between its two updates of
   `active_turns`, and the daemon never counts as idle again (`agent_panic_count`).
2. The timeout of a turn kills the child and then waits, without a timeout, for the end
   of its pipes, which a tool that hangs keeps open (`process.rs` 905-909; 38-40 says the
   timeout "prevents a hung tool/LLM call from blocking the agent forever"). `TurnReturns`
   is violated (`rusty_timeout`).

Two more are found by TLC when a condition of a passing run is dropped:

3. Two starts of one profile may both pass `refuse_if_already_running`, because the PID
   file is written later, and looks absent while it is being written (`pidfile.rs` 62;
   `runner.rs` 167 says start returns an error then); a stop may remove the file that a
   later start has written (`runner.rs` 2364). Without `misled` in it `AtMostOneDaemon` is
   violated by `DaemonProcess`, and so are the other two.
4. The downloads of all profiles go to one path, so a file may be rewritten between its
   verification and its installation (`update.rs` 189-223). `SelfUpdate` with two daemons
   violates `InstalledIsVerified`.

Met while modelling, plain from the code. Of agents and turns:

* A second `agent:start` gives the agent a new process with its own `turn_lock`, so a
  turn of the old one and a turn of the new one overlap. `process.rs` 108-112 says
  deliveries for the same agent "run one at a time"; what holds, and is proved, is that
  turns of one *process* do.
* `state.json` is truncated in place; an end of the daemon before the write loses every
  running agent. `README.md` 19 says they are restored. `ExitKeepsRunningAgents` excludes
  that window.
* An update looks for idleness before a download of minutes, not before it replaces the
  process (`README.md` 155-157: only when no turn is running).

Of conversations:

* Two agents with a direct message between them answer each other for ever, the apology
  for a failed turn included: the check for bots (`runner.rs` 1767) spares direct
  messages. `Settles` does not cover them.
* `prepare_delivery_prompt` takes a `channel_kind` that is null for the kind, while
  `derive_target` then looks at `channel_type` (`runner.rs` 1755, `raft_client.rs` 284);
  with a server that fills only `channel_target`, a bot's direct message counts as one in
  a channel and gets no answer.
* The REST client posts `seen_up_to_seq` where the CLI posts `seenUpToSeq`
  (`raft_client.rs` 65-77, `cli/raft_cli.rs` 242); the server cannot expect both.
* A post the server answers with `held` is taken for sent (`raft_client.rs` 86-91): the
  answer is lost.

Of agent homes:

* A migration that is cut short is never made up for: the next start finds a `MEMORY.md`,
  whole or not, and looks no further (`process.rs` 570). `InstalledHasHome` excludes it.
* Attachments of one name overwrite each other, those of one message included
  (`runner.rs` 1908).
* `machine:workspace:scan` reports absolute paths, which `machine:workspace:delete`
  refuses (`runner.rs` 1144, 1162).

Of the library, which the daemon does not call yet:

* Runtime drivers: in the trait's methods (`src/src/runtime/drivers/rusty.rs` 569-580,
  the same in `builtin.rs`) the new runtime is bound without `mut`, so that
  `runtime.handle_message(..)` is the trait's method again, not the inherent one that
  takes `&mut self`: the call spawns another child and calls itself, for ever. The
  comment says "Create a new runtime instance for this message". The inherent methods
  cannot work either, the child's stdin and stdout are never kept.
* `get_workspace_info` (`workspace.rs` 152-182) holds a guard of the map while it inserts
  under the same key, and waits for itself.
* A computer whose save fails stays "starting" or "removing" (`computer.rs` 66;
  `Unstuck` excludes it); the save writes `DaemonState`, not the map that was changed.
* A recurring reminder that was cancelled is active again when it fires, and the next
  fire time is computed for cancelled ones too (`src/src/models/reminder.rs` 153-164).
* A task that is created with an assignee is claimed without a time of the claim, and
  never has a duration (`src/src/models/task.rs` 102-135, 219). One that is claimed again
  after it was completed, and then set to completed (`set_status`, 137-141), has a negative
  duration: `completed_at` is the old one. So may any task, when the wall clock steps back.
* `claim_task` of the agent manager is unconditional; `send_message` of the server manager
  takes the next frame for its response, whatever it answers.

## 6. Not modelled, and why

* A RustyCLI child that outlives its daemon: `kill_on_drop` (`process.rs` 806) does not
  run when the daemon is killed or replaced by `exec`, so the next daemon's first turn of
  that agent may meet the old child. `ChildIsGone` is about a daemon that goes on.
* The agent manager (placeholders that return fixed text), the server, message, runtime
  and workspace managers, and the runtime drivers: nothing in the daemon calls them, they
  have no state machine, and the two defects that concern order are described above.
* The servers, agents and configuration in `DaemonState`: replaced as a whole by commands
  that are stubs. Of the REST client, the building of URLs and bodies; of the CLI, the
  commands that are a single request; of the proxy, the headers it copies.
* `agent:reset`, task, reminder and computer frames of the server: they are only logged.
* Wording of prompts, logging, colours, paths, argument parsing, models that are records:
  no property here depends on them.
* Time, other than as a choice of whether a timeout happens and of the hour of day in
  `SelfUpdate`; with it the times in tasks and reminders.

## 7. Plan

The numbers of runs and of properties are kept small, so a new component takes the place
of a run that shows less than it does. What is left:

1. An abstract specification of what a connection promises of each turn's frames (a
   subsequence of ack, working, idle, in this order), implemented by `Connection`, as
   `TurnService` is of `AgentLifecycle`.
2. What remains true of the update with several daemons on a machine: nothing that the
   runs check does, and the code would have to change first (a directory per process).
3. The liveness of a start beside others: that of several at once one serves, where the
   code may also refuse all.
