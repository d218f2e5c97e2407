---------------------------- MODULE DaemonProcess ----------------------------
(***************************************************************************)
(* The life of a profile's daemon process and its PID file (runner.rs,     *)
(* start, stop, restart and run_foreground; daemon/pidfile.rs).  The CLI   *)
(* commands, the daemons they spawn, and whatever else gets a process id   *)
(* run side by side and meet in one file, which is read, judged, removed,  *)
(* truncated and written in separate system calls.                         *)
(*                                                                         *)
(* An actor is a command or a process id.  Both kinds run                  *)
(* refuse_if_already_running and write_pid, and share those actions.       *)
(*                                                                         *)
(* Nothing in the code keeps commands and daemons from overlapping, and    *)
(* nothing here does.  Two variables record what that leads to: outdated,  *)
(* the actors behind whose back the PID file has changed, and misled, that *)
(* one of them has acted on it all the same.  They restrict no step.       *)
(***************************************************************************)
EXTENDS Naturals, FiniteSets

CONSTANTS
  Pids,       (* process ids, each reused when free                        *)
  Commands,   (* invocations of the CLI that can be in progress            *)
  None,       (* no process id                                             *)
  Absent,     (* there is no PID file                                      *)
  Empty       (* the PID file holds nothing                                *)

ASSUME DaemonProcessAssumption ==
  /\ Pids \cap Commands = {}
  /\ {None, Absent, Empty} \cap (Pids \cup Commands) = {}
  /\ None # Absent /\ None # Empty /\ Absent # Empty

VARIABLES
  pidFile,   (* the content of daemon.pid *)
  pc,        (* where each actor is       *)
  seen,      (* the process id a command or a daemon has read, or spawned  *)
  restarts,  (* the commands whose stop is followed by a start             *)
  outdated,  (* the actors for which another has truncated or removed the  *)
             (* PID file since they read it, or removed it since they      *)
             (* opened it to write                                         *)
  misled     (* since the profile was last at rest an actor has truncated  *)
             (* or removed a file that was no longer the one it had read,  *)
             (* has read one that another had truncated and not written    *)
             (* yet, or has failed to write the one it had truncated       *)

history == <<outdated, misled>>
vars == <<pidFile, pc, seen, restarts, history>>

Actors == Pids \cup Commands

(* A daemon before its PID is in the file, and one that serves.            *)
Starting == {"check", "judge", "stale", "claim", "write", "setup"}
Serving == {"serving", "leaving"}
DaemonPC == Starting \cup Serving \cup {"exiting"}
ProcessPC == {"free", "foreign"} \cup DaemonPC
Stopping == {"find", "probe", "term", "wait", "kill", "killed", "clear"}
CommandPC == {"idle", "check", "judge", "stale", "spawn", "claim", "write"} \cup Stopping

Init ==
  /\ pidFile = Absent
  /\ pc = [x \in Actors |-> IF x \in Pids THEN "free" ELSE "idle"]
  /\ seen = [x \in Actors |-> None]
  /\ restarts = {}
  /\ outdated = {} /\ misled = FALSE

Goto(x, where) == pc' = [pc EXCEPT ![x] = where]

(* A command that is about to put a process id into the PID file, and the  *)
(* process of that id, work to the same end.                               *)
WritesFor(c, p) == c \in Commands /\ pc[c] \in {"claim", "write"} /\ seen[c] = p
Related(x, y) == WritesFor(x, y) \/ WritesFor(y, x)

(* Where an actor goes by what it has read.                                *)
Reliant == {"judge", "stale", "spawn", "claim"} \cup (Stopping \ {"find"})

(* x truncates the PID file, or removes it together with what others have  *)
(* open.                                                                   *)
Behind(x) == {y \in Actors \ {x} : pc[y] \in Reliant /\ ~Related(x, y)}
Truncates(x) ==
  /\ pidFile' = Empty
  /\ outdated' = (outdated \ {x}) \cup Behind(x)
Removes(x) ==
  /\ pidFile' = Absent
  /\ outdated' = IF pidFile = Absent THEN outdated
                 ELSE outdated \cup Behind(x) \cup {y \in Actors : pc[y] = "write"}

(* x reads a file that another is in the middle of writing; there is a     *)
(* file, and not the one that x has read.                                  *)
Torn(x) ==
  /\ pidFile = Empty
  /\ \E y \in Actors \ outdated : pc[y] = "write" /\ ~Related(x, y)
Stale(x) == pidFile # Absent /\ x \in outdated

Reads(x) ==
  /\ outdated' = outdated \ {x}
  /\ misled' = (misled \/ Torn(x))
ActsOnReading(x) == misled' = (misled \/ Stale(x))

(* A command or a daemon begins.  What went before is over when no other   *)
(* is at work: whatever the file holds, the profile starts afresh.         *)
AtRest ==
  /\ \A c \in Commands : pc[c] = "idle"
  /\ \A p \in Pids : pc[p] \notin DaemonPC
Starts ==
  /\ misled' = (misled /\ ~AtRest)
  /\ UNCHANGED outdated

-----------------------------------------------------------------------------
(* Faulty variants, each a mistake the operator it stands for could have   *)
(* held; with it in place the property named here fails.                   *)

(* Alive: a process that may not be signalled counts as dead               *)
(* (AtMostOneDaemon).                                                      *)
AliveIfOurs(p) == FALSE

(* LeftBehind: a start that is refused cleans up the PID file              *)
(* (DaemonIsAddressable).                                                  *)
LeftBehindNothing == Absent

(* AfterGrace: a daemon that does not exit on SIGTERM is taken to be gone  *)
(* (StopFindsTheDaemon).                                                   *)
AfterGraceDone == "clear"

(* WrittenPid: a command writes its own process id (TypeOK).               *)
WrittenPidOfSelf(x) == x

-----------------------------------------------------------------------------
(* pidfile.rs *)

(* read_pid: a missing and an empty file are the same.                     *)
ReadPid == IF pidFile \in {Absent, Empty} THEN None ELSE pidFile

(* is_alive: a process id in use, whoever uses it.                         *)
Alive(p) == pc[p] # "free"

-----------------------------------------------------------------------------
(* refuse_if_already_running, in a command or in the daemon itself.        *)

Allowed(x) == IF x \in Pids THEN "claim" ELSE "spawn"
Over(x) == IF x \in Pids THEN "free" ELSE "idle"

Check(x) ==
  /\ pc[x] = "check"
  /\ seen' = [seen EXCEPT ![x] = ReadPid]
  /\ Reads(x)
  /\ Goto(x, IF ReadPid \in {None, x} THEN Allowed(x) ELSE "judge")
  /\ UNCHANGED <<pidFile, restarts>>

(* What a refused start leaves in the PID file.                            *)
LeftBehind == pidFile

Judge(x) ==
  /\ pc[x] = "judge"
  /\ IF Alive(seen[x]) THEN Goto(x, Over(x)) /\ pidFile' = LeftBehind
                       ELSE Goto(x, "stale") /\ UNCHANGED pidFile
  /\ UNCHANGED <<seen, restarts, history>>

RemoveStale(x) ==
  /\ pc[x] = "stale"
  /\ Removes(x) /\ ActsOnReading(x)
  /\ Goto(x, Allowed(x))
  /\ UNCHANGED <<seen, restarts>>

-----------------------------------------------------------------------------
(* write_pid: the file is truncated, then written.  Either may fail, and   *)
(* the caller returns; a child that was spawned goes on.                   *)

Claim(x) ==
  /\ pc[x] = "claim"
  /\ \/ Truncates(x) /\ ActsOnReading(x) /\ Goto(x, "write")
     \/ Goto(x, Over(x)) /\ UNCHANGED <<pidFile, history>>
  /\ UNCHANGED <<seen, restarts>>

WrittenPid(x) == IF x \in Pids THEN x ELSE seen[x]

(* What is written to a file that was removed meanwhile is nowhere.  A     *)
(* process that fails to write ends, and nobody needs its file.            *)
Write(x) ==
  /\ pc[x] = "write"
  /\ \/ /\ pidFile' = IF x \in outdated THEN pidFile ELSE WrittenPid(x)
        /\ Goto(x, IF x \in Pids THEN "setup" ELSE "idle")
        /\ UNCHANGED misled
     \/ /\ UNCHANGED pidFile /\ Goto(x, Over(x))
        /\ misled' = (misled \/ x \in Commands)
  /\ UNCHANGED <<seen, restarts, outdated>>

-----------------------------------------------------------------------------
(* start *)

StartBackground(c) ==
  /\ pc[c] = "idle" /\ Starts
  /\ Goto(c, "check")
  /\ restarts' = restarts \ {c}
  /\ UNCHANGED <<pidFile, seen>>

(* start --foreground: the command's own process becomes the daemon.       *)
StartForeground(p) ==
  /\ pc[p] = "free" /\ Starts
  /\ Goto(p, "check")
  /\ UNCHANGED <<pidFile, seen, restarts>>

(* The detached child, which begins run_foreground on its own.             *)
Spawn(c, p) ==
  /\ pc[c] = "spawn" /\ pc[p] = "free"
  /\ pc' = [pc EXCEPT ![c] = "claim", ![p] = "check"]
  /\ seen' = [seen EXCEPT ![c] = p]
  /\ UNCHANGED <<pidFile, restarts, history>>

-----------------------------------------------------------------------------
(* run_foreground, once the PID file is written.                           *)

(* The agent-api proxy starts, or run_foreground returns at once and the   *)
(* PID file stays.                                                         *)
SetUp(p) ==
  /\ pc[p] = "setup"
  /\ Goto(p, "serving") \/ Goto(p, "free")
  /\ UNCHANGED <<pidFile, seen, restarts, history>>

(* The event loop returns: a signal from a terminal, or an error.          *)
Leave(p) ==
  /\ pc[p] = "serving"
  /\ Goto(p, "leaving")
  /\ UNCHANGED <<pidFile, seen, restarts, history>>

CleanUp(p) ==
  /\ pc[p] = "leaving"
  /\ Removes(p)
  /\ Goto(p, "exiting")
  /\ UNCHANGED <<seen, restarts, misled>>

Exit(p) ==
  /\ pc[p] = "exiting"
  /\ Goto(p, "free")
  /\ UNCHANGED <<pidFile, seen, restarts, history>>

(* A self-update execs the new binary: the same process begins again.      *)
Exec(p) ==
  /\ pc[p] = "serving"
  /\ Goto(p, "check")
  /\ UNCHANGED <<pidFile, seen, restarts, history>>

Crash(p) ==
  /\ pc[p] \in DaemonPC
  /\ Goto(p, "free")
  /\ UNCHANGED <<pidFile, seen, restarts, history>>

(* Other programs take and release process ids.                            *)
Foreign(p) ==
  /\ \/ pc[p] = "free" /\ Goto(p, "foreign")
     \/ pc[p] = "foreign" /\ Goto(p, "free")
  /\ UNCHANGED <<pidFile, seen, restarts, history>>

-----------------------------------------------------------------------------
(* stop, and restart, which goes on to start.                              *)

Stop(c, restart) ==
  /\ pc[c] = "idle"
  /\ Starts
  /\ Goto(c, "find")
  /\ restarts' = IF restart THEN restarts \cup {c} ELSE restarts \ {c}
  /\ UNCHANGED <<pidFile, seen>>

(* "not running" is an error that restart ignores.                         *)
AfterStop(c) == IF c \in restarts THEN "check" ELSE "idle"

Find(c) ==
  /\ pc[c] = "find"
  /\ seen' = [seen EXCEPT ![c] = ReadPid]
  /\ Reads(c)
  /\ Goto(c, IF ReadPid = None THEN AfterStop(c) ELSE "probe")
  /\ UNCHANGED <<pidFile, restarts>>

Probe(c) ==
  /\ pc[c] = "probe"
  /\ Goto(c, IF Alive(seen[c]) THEN "term" ELSE "clear")
  /\ UNCHANGED <<pidFile, seen, restarts, history>>

(* SIGTERM ends a daemon that has no handler yet, and any other program or *)
(* not; it makes one that serves leave.  To no process: an error.          *)
Term(c) ==
  /\ pc[c] = "term"
  /\ LET p == seen[c] IN
       \/ /\ pc[p] = "free" /\ Goto(c, "idle")
       \/ /\ pc[p] \in Starting \cup {"foreign"}
          /\ pc' = [pc EXCEPT ![c] = "wait", ![p] = "free"]
       \/ /\ pc[p] = "serving"
          /\ pc' = [pc EXCEPT ![c] = "wait", ![p] = "leaving"]
       \/ /\ pc[p] \in {"foreign", "leaving", "exiting"} /\ Goto(c, "wait")
  /\ UNCHANGED <<pidFile, seen, restarts, history>>

(* The process is gone, or SHUTDOWN_GRACE has passed.                      *)
AfterGrace == "kill"

Wait(c) ==
  /\ pc[c] = "wait"
  /\ IF Alive(seen[c]) THEN Goto(c, AfterGrace) ELSE Goto(c, "clear")
  /\ UNCHANGED <<pidFile, seen, restarts, history>>

Kill(c) ==
  /\ pc[c] = "kill"
  /\ pc' = [pc EXCEPT ![c] = "killed", ![seen[c]] = "free"]
  /\ UNCHANGED <<pidFile, seen, restarts, history>>

(* Still alive after 50 looks: an error.                                   *)
Killed(c) ==
  /\ pc[c] = "killed"
  /\ Goto(c, IF Alive(seen[c]) THEN "idle" ELSE "clear")
  /\ UNCHANGED <<pidFile, seen, restarts, history>>

(* remove_pid, whatever the file holds by now.                             *)
Clear(c) ==
  /\ pc[c] = "clear"
  /\ Removes(c) /\ ActsOnReading(c)
  /\ Goto(c, AfterStop(c))
  /\ UNCHANGED <<seen, restarts>>

-----------------------------------------------------------------------------
Next ==
  \/ \E x \in Actors : Check(x) \/ Judge(x) \/ RemoveStale(x) \/ Claim(x) \/ Write(x)
  \/ \E p \in Pids : \/ StartForeground(p) \/ SetUp(p) \/ Leave(p) \/ CleanUp(p)
                     \/ Exit(p) \/ Exec(p) \/ Crash(p) \/ Foreign(p)
  \/ \E c \in Commands : \/ StartBackground(c) \/ Find(c) \/ Probe(c) \/ Term(c)
                         \/ Wait(c) \/ Kill(c) \/ Killed(c) \/ Clear(c)
                         \/ \E restart \in BOOLEAN : Stop(c, restart)
                         \/ \E p \in Pids : Spawn(c, p)

Spec == Init /\ [][Next]_vars

-----------------------------------------------------------------------------
(* Properties.                                                             *)

(* Every variable keeps its type; a PID file never holds anything but the  *)
(* id of a daemon that was started.                                        *)
TypeOK ==
  /\ pidFile \in Pids \cup {Absent, Empty}
  /\ pc \in [Actors -> ProcessPC \cup CommandPC]
  /\ \A p \in Pids : pc[p] \in ProcessPC
  /\ \A c \in Commands : pc[c] \in CommandPC
  /\ seen \in [Actors -> Pids \cup {None}]
  /\ restarts \subseteq Commands
  /\ outdated \subseteq Actors /\ misled \in BOOLEAN

(* Two daemons never serve one profile ("Returns an error if a daemon is   *)
(* already running", runner.rs:165-169), however starts and stops overlap, *)
(* unless an actor was misled.                                             *)
AtMostOneDaemon ==
  misled \/ \A p, q \in Pids : pc[p] \in Serving /\ pc[q] \in Serving => p = q

(* A daemon that serves is the one the PID file names ("the running        *)
(* daemon's process ID", pidfile.rs:3-6), or the command that spawned it   *)
(* is just writing the same, unless an actor was misled.                   *)
DaemonIsAddressable ==
  misled \/ \A p \in Pids : pc[p] \in Serving =>
    pidFile = p \/ \E c \in Commands \ outdated : pc[c] = "write" /\ seen[c] = p

(* stop says that nothing runs, or that the daemon has stopped, only when  *)
(* no daemon serves (runner.rs:2348-2389), unless an actor was misled.     *)
StopFindsTheDaemon ==
  [][\A c \in Commands :
       pc[c] \in {"find", "clear"} /\ pc'[c] = AfterStop(c) /\ ~misled'
         => \A p \in Pids : pc[p] \notin Serving]_vars

=============================================================================
