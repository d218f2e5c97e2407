------------------------------ MODULE SelfUpdate ------------------------------
(***************************************************************************)
(* The self-update of daemons that share an executable (daemon/update.rs): *)
(* each profile's daemon polls for a release, waits until it is idle and   *)
(* within quiet hours, downloads, verifies and installs the release, and   *)
(* execs it.  The temporary directory is named after the version alone, so *)
(* daemons of one machine share it, as they share the executable.          *)
(*                                                                         *)
(* A file's content is abstracted to whether it has the published          *)
(* checksum.  A checksum file that cannot be had, or has no line for the   *)
(* asset, fails the update like any other error.                           *)
(*                                                                         *)
(* No name here is one of DaemonProcess, the life of the process the task  *)
(* runs in, so that one module can extend both.                            *)
(***************************************************************************)
EXTENDS Naturals, FiniteSets

CONSTANTS
  Daemons,      (* one per profile *)
  MaxVersion,   (* bound: versions published *)
  MaxTurns,     (* bound: turns at work in a daemon at a time *)
  MaxLeaks      (* bound: turns that panicked *)

ASSUME SelfUpdateAssumption ==
  /\ MaxVersion \in Nat \ {0} /\ MaxTurns \in Nat /\ MaxLeaks \in Nat

Versions == 1..MaxVersion

VARIABLES
  latest,    (* the release GitHub calls the latest                        *)
  quiet,     (* the time is within quiet hours, or none are configured     *)
  exe,       (* the installed executable                                   *)
  temp,      (* the downloaded binary in the directory of each version     *)
  task,      (* where each daemon's update task is; "down": no daemon   *)
  info,      (* the release the task has found                             *)
  out,       (* where the file a task writes to has come to be             *)
  image,     (* the version each daemon runs                               *)
  working,   (* the turns at work                                          *)
  leaked     (* turns that panicked without counting themselves down       *)

turnVars == <<working, leaked>>
updateVars == <<latest, quiet, exe, temp, task, info, out, image, turnVars>>

Content == {"good", "wrong", "partial"}
PC == {"tick", "waiting", "fetch", "storing", "verify", "replace", "exec", "down"}

(* active_turns of a daemon.                                               *)
Active(d) == working[d] + leaked[d]

UpdateInit ==
  /\ latest = 1 /\ quiet = TRUE
  /\ exe = [version |-> 1, content |-> "good"]
  /\ temp = [v \in Versions |-> "missing"]
  /\ task = [d \in Daemons |-> "tick"] /\ info = [d \in Daemons |-> 1]
  /\ out = [d \in Daemons |-> "none"]
  /\ image = [d \in Daemons |-> 1]
  /\ working = [d \in Daemons |-> 0] /\ leaked = [d \in Daemons |-> 0]

TaskTo(d, where) == task' = [task EXCEPT ![d] = where]

-----------------------------------------------------------------------------
(* Faulty variants, each a mistake the operator it stands for could have   *)
(* held; with it in place the property named here fails.                   *)

(* Newer: any other version will do (NeverDowngrades).                     *)
NewerIfOther(d) == latest # image[d]

(* ChecksumMatches: the checksum is not compared (InstalledIsVerified).    *)
ChecksumUnchecked(d) == temp[info[d]] # "missing"

(* Counted: a turn that ends is counted down twice (UpdateTypeOK).         *)
CountedTwice(n) == n - 2

-----------------------------------------------------------------------------
(* The releases and the clock.                                             *)

(* A release becomes the latest one, new or after another was withdrawn.   *)
Publish(v) ==
  /\ v # latest
  /\ latest' = v
  /\ UNCHANGED <<quiet, exe, temp, task, info, out, image, turnVars>>

(* is_in_quiet_hours, as the time passes.                                  *)
ClockMoves ==
  /\ quiet' = ~quiet
  /\ UNCHANGED <<latest, exe, temp, task, info, out, image, turnVars>>

-----------------------------------------------------------------------------
(* The update task.                                                        *)

Newer(d) == latest > image[d]

(* check_for_update finds a newer release.  When it fails or finds none    *)
(* the task waits for its next tick.                                       *)
CheckForUpdate(d) ==
  /\ task[d] = "tick" /\ Newer(d)
  /\ info' = [info EXCEPT ![d] = latest]
  /\ TaskTo(d, "waiting")
  /\ UNCHANGED <<latest, quiet, exe, temp, out, image, turnVars>>

(* wait_and_update sees the daemon idle, within quiet hours.               *)
Decide(d) ==
  /\ task[d] = "waiting"
  /\ Active(d) = 0 /\ quiet
  /\ TaskTo(d, "fetch")
  /\ UNCHANGED <<latest, quiet, exe, temp, info, out, image, turnVars>>

(* Any error on the way ends the update until a later tick.                *)
Fail(d) ==
  /\ task[d] \in {"fetch", "storing", "verify", "replace", "exec"}
  /\ TaskTo(d, "tick") /\ out' = [out EXCEPT ![d] = "none"]
  /\ UNCHANGED <<latest, quiet, exe, temp, info, image, turnVars>>

(* The body is there; the file is created or truncated.                    *)
Open(d) ==
  /\ task[d] = "fetch"
  /\ temp' = [temp EXCEPT ![info[d]] = "partial"]
  /\ out' = [out EXCEPT ![d] = "temp"]
  /\ TaskTo(d, "storing")
  /\ UNCHANGED <<latest, quiet, exe, info, image, turnVars>>

(* The body is written, into the file that was opened.                     *)
Store(d, content) ==
  /\ task[d] = "storing" /\ content \in {"good", "wrong"}
  /\ temp' = IF out[d] = "temp" THEN [temp EXCEPT ![info[d]] = content] ELSE temp
  /\ exe' = IF out[d] = "exe" THEN [exe EXCEPT !.content = content] ELSE exe
  /\ out' = [out EXCEPT ![d] = "none"]
  /\ TaskTo(d, "verify")
  /\ UNCHANGED <<latest, quiet, info, image, turnVars>>

ChecksumMatches(d) == temp[info[d]] = "good"

Verify(d) ==
  /\ task[d] = "verify" /\ ChecksumMatches(d)
  /\ TaskTo(d, "replace")
  /\ UNCHANGED <<latest, quiet, exe, temp, info, out, image, turnVars>>

(* rename: what another task is writing to the file goes where it goes.    *)
Moved(d) ==
  [x \in Daemons |->
     CASE out[x] = "temp" /\ info[x] = info[d] -> "exe"
       [] out[x] = "exe"                       -> "gone"
       [] OTHER                                -> out[x]]

Replace(d) ==
  /\ task[d] = "replace" /\ temp[info[d]] # "missing"
  /\ exe' = [version |-> info[d], content |-> temp[info[d]]]
  /\ temp' = [temp EXCEPT ![info[d]] = "missing"]
  /\ out' = Moved(d)
  /\ TaskTo(d, "exec")
  /\ UNCHANGED <<latest, quiet, info, image, turnVars>>

(* The process image is replaced, with every turn in it.                   *)
Begins(d) ==
  /\ exe.content = "good"
  /\ image' = [image EXCEPT ![d] = exe.version]
  /\ TaskTo(d, "tick")
  /\ working' = [working EXCEPT ![d] = 0] /\ leaked' = [leaked EXCEPT ![d] = 0]
  /\ UNCHANGED <<latest, quiet, exe, temp, info, out>>

ExecUpdate(d) == task[d] = "exec" /\ Begins(d)

-----------------------------------------------------------------------------
(* The daemon around it.                                                   *)

DaemonCrashes(d) ==
  /\ task[d] # "down"
  /\ TaskTo(d, "down") /\ out' = [out EXCEPT ![d] = "none"]
  /\ UNCHANGED <<latest, quiet, exe, temp, info, image, turnVars>>

Boot(d) == task[d] = "down" /\ Begins(d)

BeginTurn(d) ==
  /\ task[d] # "down" /\ working[d] < MaxTurns
  /\ working' = [working EXCEPT ![d] = @ + 1]
  /\ UNCHANGED <<latest, quiet, exe, temp, task, info, out, image, leaked>>

Counted(n) == n - 1

EndTurn(d) ==
  /\ task[d] # "down" /\ working[d] > 0
  /\ working' = [working EXCEPT ![d] = Counted(@)]
  /\ UNCHANGED <<latest, quiet, exe, temp, task, info, out, image, leaked>>

PanicInTurn(d) ==
  /\ task[d] # "down" /\ working[d] > 0 /\ leaked[d] < MaxLeaks
  /\ working' = [working EXCEPT ![d] = @ - 1]
  /\ leaked' = [leaked EXCEPT ![d] = @ + 1]
  /\ UNCHANGED <<latest, quiet, exe, temp, task, info, out, image>>

-----------------------------------------------------------------------------
UpdateNext ==
  \/ ClockMoves \/ \E v \in Versions : Publish(v)
  \/ \E d \in Daemons :
       \/ CheckForUpdate(d) \/ Decide(d) \/ Fail(d) \/ Open(d) \/ Verify(d)
       \/ Replace(d) \/ ExecUpdate(d)
       \/ \E content \in Content : Store(d, content)
       \/ DaemonCrashes(d) \/ Boot(d) \/ BeginTurn(d) \/ EndTurn(d) \/ PanicInTurn(d)

UpdateSpec == UpdateInit /\ [][UpdateNext]_updateVars

-----------------------------------------------------------------------------
(* Properties.                                                             *)

(* Every variable keeps its type; in particular no counter goes below 0.   *)
UpdateTypeOK ==
  /\ latest \in Versions /\ quiet \in BOOLEAN
  /\ exe \in [version : Versions, content : Content]
  /\ temp \in [Versions -> Content \cup {"missing"}]
  /\ task \in [Daemons -> PC] /\ info \in [Daemons -> Versions]
  /\ out \in [Daemons -> {"none", "temp", "exe", "gone"}]
  /\ image \in [Daemons -> Versions]
  /\ working \in [Daemons -> Nat] /\ leaked \in [Daemons -> Nat]

(* "verifies its SHA-256 checksum, replaces the current executable"        *)
(* (update.rs:3-5): the installed executable is always one whose checksum  *)
(* was verified, whatever step a download, a crash or an error comes at.   *)
InstalledIsVerified == exe.content = "good"

(* A daemon never runs an older version than it did before, across         *)
(* updates, failed execs, withdrawn releases and restarts (87-95).         *)
NeverDowngrades == [][\A d \in Daemons : image'[d] >= image[d]]_image

=============================================================================
