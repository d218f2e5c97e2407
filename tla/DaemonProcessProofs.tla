------------------------- MODULE DaemonProcessProofs -------------------------
(***************************************************************************)
(* Proofs about DaemonProcess for every set of process ids and commands,   *)
(* however starts, stops, restarts, execs and crashes overlap: the types,  *)
(* and that there are two daemons, or one that the PID file does not find, *)
(* only where an actor was misled.  The self-update, SelfUpdate, follows   *)
(* at the end.                                                             *)
(***************************************************************************)
EXTENDS DaemonProcess, SelfUpdate, TLAPS

(* Where an actor goes by the process id it has read or spawned.           *)
Follows(x) ==
  \/ pc[x] \in {"judge", "probe", "term", "wait", "kill", "killed"}
  \/ x \in Commands /\ pc[x] \in {"claim", "write"}

TInv == TypeOK /\ \A x \in Actors : Follows(x) => seen[x] \in Pids

(* An actor holds the PID file from its truncating it, if nobody removes   *)
(* it before it is written, and a daemon until it has removed it itself.   *)
Writing(x) == pc[x] = "write" /\ x \notin outdated
Holds(x) ==
  \/ Writing(x)
  \/ x \in Pids /\ pc[x] \in {"write", "setup"} \cup Serving

(* What it holds the file for is one process, *)
OneHolder ==
  \A x, y \in Actors : Holds(x) /\ Holds(y) => WrittenPid(x) = WrittenPid(y)

(* which the file names or is about to name, *)
Named(x) ==
  \/ pidFile = WrittenPid(x)
  \/ pidFile = Empty /\ \E y \in Actors : Writing(y) /\ WrittenPid(y) = WrittenPid(x)
HolderIsNamed ==
  /\ \A x \in Actors : Holds(x) => Named(x)
  /\ \A p \in Pids : pc[p] = "write" => p \notin outdated

(* and which an actor that still has the file it has read works for, or    *)
(* has found, or has found dead.                                           *)
WorksFor(x, z) == (x \in Pids \/ pc[x] = "claim") /\ WrittenPid(x) = WrittenPid(z)
HasFound(x, z) ==
  pc[x] \in {"judge", "probe", "term", "wait", "kill", "killed"} /\ seen[x] = WrittenPid(z)
FoundDead(x, z) == pc[x] \in {"stale", "clear"} /\ z \in Commands
HolderIsFound ==
  \A x, z \in Actors : x # z /\ Holds(z) /\ pc[x] \in Reliant /\ x \notin outdated
    => WorksFor(x, z) \/ HasFound(x, z) \/ FoundDead(x, z)

Held == OneHolder /\ HolderIsNamed /\ HolderIsFound
IInv == TInv /\ (misled \/ Held)

-----------------------------------------------------------------------------
(* Types, and an actor that goes by a process id has one.                  *)

LEMMA TypesInit == Init => TInv
BY DaemonProcessAssumption
DEF Init, TInv, TypeOK, Follows, Actors, ProcessPC, CommandPC

(* Each step moves one actor or two, and to places of their own.           *)
LEMMA SharedTypes ==
  ASSUME TInv, NEW x \in Actors,
         Check(x) \/ Judge(x) \/ RemoveStale(x) \/ Claim(x) \/ Write(x)
  PROVE  TInv'
<1>1. outdated' \subseteq Actors /\ misled' \in BOOLEAN
  BY DEF Check, Judge, RemoveStale, Claim, Write, TInv, TypeOK, history, Truncates, Removes,
     Behind, Reads, ActsOnReading
<1> USE DaemonProcessAssumption
    DEF TInv, TypeOK, Follows, Actors, Goto, Allowed, Over, ReadPid,
        ProcessPC, DaemonPC, Starting, Serving, CommandPC, Stopping
<1>2. CASE Check(x)        BY <1>1, <1>2 DEF Check
<1>3. CASE Judge(x)        BY <1>1, <1>3 DEF Judge, LeftBehind
<1>4. CASE RemoveStale(x)  BY <1>1, <1>4 DEF RemoveStale, Removes
<1>5. CASE Claim(x)        BY <1>1, <1>5 DEF Claim, Truncates
<1>6. CASE Write(x)        BY <1>1, <1>6 DEF Write, WrittenPid
<1>7. QED  BY <1>2, <1>3, <1>4, <1>5, <1>6

LEMMA ProcessTypes ==
  ASSUME TInv, NEW p \in Pids,
         \/ StartForeground(p) \/ SetUp(p) \/ Leave(p) \/ CleanUp(p)
         \/ Exit(p) \/ Exec(p) \/ Crash(p) \/ Foreign(p)
  PROVE  TInv'
<1> USE DaemonProcessAssumption
    DEF TInv, TypeOK, Follows, Actors, Goto,
        ProcessPC, DaemonPC, Starting, Serving, CommandPC, Stopping,
        history, Truncates, Removes, Behind, Reads, ActsOnReading, Starts
<1>1. CASE CleanUp(p)  BY <1>1 DEF CleanUp
<1>2. CASE StartForeground(p)  BY <1>2 DEF StartForeground
<1>3. CASE SetUp(p)    BY <1>3 DEF SetUp
<1>4. CASE Leave(p)    BY <1>4 DEF Leave
<1>5. CASE Exit(p)     BY <1>5 DEF Exit
<1>6. CASE Exec(p)     BY <1>6 DEF Exec
<1>7. CASE Crash(p)    BY <1>7 DEF Crash
<1>8. CASE Foreign(p)  BY <1>8 DEF Foreign
<1>9. QED  BY <1>1, <1>2, <1>3, <1>4, <1>5, <1>6, <1>7, <1>8

LEMMA CommandTypes ==
  ASSUME TInv, NEW c \in Commands,
         \/ StartBackground(c) \/ Find(c) \/ Probe(c) \/ Term(c)
         \/ Wait(c) \/ Kill(c) \/ Killed(c) \/ Clear(c)
         \/ \E restart \in BOOLEAN : Stop(c, restart)
         \/ \E p \in Pids : Spawn(c, p)
  PROVE  TInv'
<1> USE DaemonProcessAssumption
    DEF TInv, TypeOK, Follows, Actors, Goto, ReadPid, AfterStop, AfterGrace,
        ProcessPC, DaemonPC, Starting, Serving, CommandPC, Stopping,
        history, Truncates, Removes, Behind, Reads, ActsOnReading, Starts
<1>1. CASE StartBackground(c)  BY <1>1 DEF StartBackground
<1>2. CASE Find(c)             BY <1>2 DEF Find
<1>3. CASE Probe(c)            BY <1>3 DEF Probe
<1>4. CASE Term(c)             BY <1>4 DEF Term
<1>5. CASE Wait(c)             BY <1>5 DEF Wait
<1>6. CASE Kill(c)             BY <1>6 DEF Kill
<1>7. CASE Killed(c)           BY <1>7 DEF Killed
<1>8. CASE Clear(c)            BY <1>8 DEF Clear
<1>9. CASE \E restart \in BOOLEAN : Stop(c, restart)
  BY <1>9 DEF Stop
<1>10. CASE \E p \in Pids : Spawn(c, p)
  BY <1>10 DEF Spawn
<1>11. QED
  BY <1>1, <1>2, <1>3, <1>4, <1>5, <1>6, <1>7, <1>8, <1>9, <1>10

LEMMA TypesHold == Spec => []TInv
<1>1. TInv /\ [Next]_vars => TInv'
  <2> SUFFICES ASSUME TInv, [Next]_vars PROVE TInv'  OBVIOUS
  <2>1. CASE Next
    BY <2>1, SharedTypes, ProcessTypes, CommandTypes DEF Next
  <2>2. CASE UNCHANGED vars
    BY <2>2 DEF vars, history, TInv, TypeOK, Follows
  <2>3. QED  BY <2>1, <2>2
<1>2. QED  BY <1>1, TypesInit, PTL DEF Spec

(* Every variable keeps its type, whatever commands overlap and fail; the  *)
(* PID file never holds anything but the id of a process that was started. *)
THEOREM ProcessesKeepTypes == Spec => []TypeOK
BY TypesHold, PTL DEF TInv

-----------------------------------------------------------------------------
(* One daemon, and the file that finds it, unless an actor was misled.     *)

LEMMA HeldInit == Init => Held
BY DaemonProcessAssumption
DEF Init, Held, OneHolder, HolderIsNamed, HolderIsFound, Holds, Writing, Actors, Serving,
    Reliant, Stopping

(* An actor that reads the file of a holder, and not a torn one, finds the *)
(* holder or works for it.                                                 *)
LEMMA ReadingFinds ==
  ASSUME TInv, Held, NEW x \in Actors, pc[x] \in {"check", "find"}, ~Torn(x),
         NEW z \in Actors, Holds(z)
  PROVE  ReadPid = WrittenPid(z) \/ x = WrittenPid(z)
BY DaemonProcessAssumption
DEF TInv, TypeOK, Held, HolderIsNamed, Named, Writing, Torn, Related, WritesFor, ReadPid,
    WrittenPid, Actors

(* An actor that has the file it has read, and goes on to truncate it,     *)
(* works for whoever holds it.                                             *)
LEMMA ClaimIsOfHolder ==
  ASSUME TInv, Held, NEW x \in Actors, pc[x] \in {"spawn", "claim"}, ~Stale(x),
         NEW z \in Actors, Holds(z)
  PROVE  x \notin outdated /\ WorksFor(x, z)
<1>1. pidFile # Absent
  BY DaemonProcessAssumption DEF TInv, TypeOK, Held, HolderIsNamed, Named, WrittenPid, Actors,
     Holds, Follows, Writing
<1>2. x \notin outdated /\ x # z
  BY <1>1 DEF Stale, Holds, Writing, Serving
<1>3. QED
  BY <1>2 DEF Held, HolderIsFound, HasFound, FoundDead, Reliant

(* A step that leaves the file alone, makes no one hold it, ends the       *)
(* writing of processes only, and lets an actor rely on its reading only   *)
(* if it has found every holder, keeps the file held.                      *)
LEMMA FileLeftAlone ==
  ASSUME TInv, Held, UNCHANGED pidFile,
         \A x \in Actors : Writing(x)' => Writing(x),
         \A x \in Actors : Writing(x) => Writing(x)' \/ (x \in Pids /\ ~Holds(x)'),
         \A x \in Actors : Holds(x)' => Holds(x),
         \A x \in Actors : Holds(x)' => WrittenPid(x)' = WrittenPid(x),
         \A p \in Pids : (pc[p] = "write")' => p \notin outdated',
         \A x, z \in Actors :
           x # z /\ Holds(z) /\ Holds(z)' /\ (pc[x] \in Reliant)' /\ x \notin outdated'
             => (WorksFor(x, z) \/ HasFound(x, z) \/ FoundDead(x, z))'
  PROVE  Held'
<1>1. OneHolder'
  BY DEF Held, OneHolder
<1>2. HolderIsNamed'
  <2> SUFFICES ASSUME NEW x \in Actors, Holds(x)' PROVE Named(x)'
    BY DEF HolderIsNamed
  <2>1. Named(x) /\ Holds(x) /\ WrittenPid(x)' = WrittenPid(x)
    BY DEF Held, HolderIsNamed
  <2>2. ASSUME NEW y \in Actors, Writing(y), WrittenPid(y) = WrittenPid(x)
        PROVE  \E w \in Actors : Writing(w)' /\ WrittenPid(w)' = WrittenPid(x)'
    <3>1. CASE Writing(y)'
      BY <2>1, <2>2, <3>1 DEF Holds
    <3>2. CASE y \in Pids /\ ~Holds(y)'
      <4>1. x \in Commands
        BY <2>2, <3>2 DEF WrittenPid, Actors
      <4>2. Writing(x)'
        BY <4>1, DaemonProcessAssumption DEF Holds
      <4>3. QED  BY <4>2
    <3>3. QED  BY <2>2, <3>1, <3>2
  <2>3. QED  BY <2>1, <2>2 DEF Named
<1>3. HolderIsFound'
  BY DEF HolderIsFound
<1>4. QED  BY <1>1, <1>2, <1>3 DEF Held

(* So does one that ends no one's writing.                                 *)
LEMMA Bystander ==
  ASSUME TInv, Held, UNCHANGED pidFile,
         \A x \in Actors : (Writing(x)' <=> Writing(x)),
         \A x \in Actors : Holds(x)' => Holds(x),
         \A x \in Actors : Holds(x)' => WrittenPid(x)' = WrittenPid(x),
         \A p \in Pids : (pc[p] = "write")' => p \notin outdated',
         \A x, z \in Actors :
           x # z /\ Holds(z) /\ Holds(z)' /\ (pc[x] \in Reliant)' /\ x \notin outdated'
             => (WorksFor(x, z) \/ HasFound(x, z) \/ FoundDead(x, z))'
  PROVE  Held'
BY FileLeftAlone

(* A command or a daemon that begins holds nothing and relies on nothing;  *)
(* and nobody does where the profile was at rest.                          *)
LEMMA StartHeld ==
  ASSUME TInv, misled \/ Held, ~misled', Starts, UNCHANGED <<pidFile, seen>>,
         NEW x \in Actors, pc[x] \in {"free", "idle"}, NEW where \in {"check", "find"},
         Goto(x, where)
  PROVE  Held'
<1> USE DaemonProcessAssumption
    DEF TInv, TypeOK, Actors, Goto, Starts, Writing, Holds, WrittenPid, Serving, Reliant, Stopping
<1>1. CASE AtRest
  <2>1. \A y \in Actors : ~Holds(y)'
    BY <1>1 DEF AtRest, DaemonPC, Starting
  <2>2. QED  BY <2>1 DEF Held, OneHolder, HolderIsNamed, HolderIsFound
<1>2. CASE Held
  BY <1>2, Bystander
  DEF WorksFor, HasFound, FoundDead, Held, HolderIsFound, HolderIsNamed
<1>3. QED  BY <1>1, <1>2

LEMMA SharedHeld ==
  ASSUME TInv, TInv', Held, ~misled', NEW x \in Actors,
         Check(x) \/ Judge(x) \/ RemoveStale(x) \/ Claim(x) \/ Write(x)
  PROVE  Held'
<1> USE DaemonProcessAssumption
    DEF TInv, TypeOK, Actors, Goto, Allowed, Over, history, Writing, Holds, WrittenPid,
        Serving, Reliant, Stopping
<1>1. CASE Check(x)
  <2> USE <1>1 DEF Check, Reads
  <2>1. ASSUME NEW z \in Actors, Holds(z), (pc[x] \in Reliant)'
        PROVE  (WorksFor(x, z) \/ HasFound(x, z) \/ FoundDead(x, z))'
    <3>1. ReadPid = WrittenPid(z) \/ x = WrittenPid(z)
      BY <2>1, ReadingFinds
    <3>2. WrittenPid(z) \in Pids /\ WrittenPid(z)' = WrittenPid(z)
      BY <2>1 DEF Follows
    <3>3. QED  BY <2>1, <3>1, <3>2 DEF WorksFor, HasFound
  <2>2. \A y, z \in Actors :
           y # x /\ y # z /\ Holds(z) /\ Holds(z)' /\ (pc[y] \in Reliant)' /\ y \notin outdated'
             => (WorksFor(y, z) \/ HasFound(y, z) \/ FoundDead(y, z))'
    BY DEF Held, HolderIsFound, WorksFor, HasFound, FoundDead
  <2>3. \A p \in Pids : (pc[p] = "write")' => p \notin outdated'
    BY DEF Held, HolderIsNamed
  <2>4. \A y \in Actors : /\ (Writing(y)' <=> Writing(y))
                          /\ Holds(y)' => Holds(y) /\ WrittenPid(y)' = WrittenPid(y)
    OBVIOUS
  <2>5. QED
    BY ONLY TInv, Held, Check(x), <2>1, <2>2, <2>3, <2>4, Bystander DEF Check
<1>2. CASE Judge(x)
  BY <1>2, Bystander
  DEF Judge, LeftBehind, Alive, WorksFor, HasFound, FoundDead, Held, HolderIsFound, HolderIsNamed
<1>3. CASE RemoveStale(x)
  <2> USE <1>3 DEF RemoveStale, Removes, ActsOnReading
  <2>1. \A z \in Actors : ~Holds(z)'
    <3> SUFFICES ASSUME NEW z \in Actors, Holds(z)' PROVE FALSE  OBVIOUS
    <3>1. Holds(z)  OBVIOUS
    <3>2. pidFile # Absent
      BY <3>1 DEF Held, HolderIsNamed, Named, Follows
    <3>3. x \notin outdated
      BY <3>2 DEF Stale
    <3>4. z \in Commands
      BY <3>1, <3>3 DEF Held, HolderIsFound, WorksFor, HasFound, FoundDead
    <3>5. QED  BY <3>2, <3>4
  <2>2. QED  BY <2>1 DEF Held, OneHolder, HolderIsNamed, HolderIsFound
<1>4. CASE Claim(x)
  <2>1. CASE UNCHANGED <<pidFile, history>> /\ Goto(x, Over(x))
    <3>1. \A y \in Actors : /\ (Writing(y)' <=> Writing(y))
                            /\ Holds(y)' => Holds(y) /\ WrittenPid(y)' = WrittenPid(y)
      BY <1>4, <2>1 DEF Claim
    <3>2. \A p \in Pids : (pc[p] = "write")' => p \notin outdated'
      BY <1>4, <2>1 DEF Claim, Held, HolderIsNamed
    <3>3. \A y, z \in Actors :
             y # z /\ Holds(z) /\ Holds(z)' /\ (pc[y] \in Reliant)' /\ y \notin outdated'
               => (WorksFor(y, z) \/ HasFound(y, z) \/ FoundDead(y, z))'
      BY <1>4, <2>1 DEF Claim, Held, HolderIsFound, WorksFor, HasFound, FoundDead
    <3>4. QED
      BY ONLY TInv, Held, <2>1, <3>1, <3>2, <3>3, Bystander
  <2>2. CASE Truncates(x) /\ ActsOnReading(x) /\ Goto(x, "write")
    <3> USE <1>4, <2>2 DEF Claim, Truncates, ActsOnReading, Behind, Related, WritesFor
    <3>1. \A z \in Actors : Holds(z) => WrittenPid(z) = WrittenPid(x)
      BY ClaimIsOfHolder DEF WorksFor
    <3>2. \A z \in Actors : Holds(z)' => (Holds(z) \/ z = x) /\ WrittenPid(z)' = WrittenPid(z)
      OBVIOUS
    <3>3. OneHolder'
      BY ONLY <3>1, <3>2 DEF OneHolder
    <3>4. Writing(x)'
      OBVIOUS
    <3>5. HolderIsNamed'
      BY <3>3, <3>4 DEF Held, HolderIsNamed, Named, OneHolder
    <3>6. HolderIsFound'
      <4> SUFFICES ASSUME NEW y \in Actors, NEW z \in Actors, y # z, Holds(z)',
                          (pc[y] \in Reliant)', y \notin outdated'
                   PROVE  WorksFor(y, z)'
        BY DEF HolderIsFound
      <4>1. Related(x, y) /\ WrittenPid(y)' = WrittenPid(x)
        OBVIOUS
      <4>2. QED  BY <3>1, <3>2, <4>1 DEF WorksFor
    <3>7. QED  BY <3>3, <3>5, <3>6 DEF Held
  <2>3. QED  BY <1>4, <2>1, <2>2 DEF Claim
<1>5. CASE Write(x)
  <2> USE <1>5 DEF Write
  <2>1. \A z \in Actors : Holds(z)' => Holds(z) /\ WrittenPid(z)' = WrittenPid(z)
    OBVIOUS
  <2>2. OneHolder'
    BY <2>1 DEF Held, OneHolder
  <2>3. HolderIsFound'
    BY <2>1 DEF Held, HolderIsFound, WorksFor, HasFound, FoundDead
  <2>4. HolderIsNamed'
    BY <2>1 DEF Held, OneHolder, HolderIsNamed, Named, Follows
  <2>5. QED  BY <2>2, <2>3, <2>4 DEF Held
<1>6. QED  BY <1>1, <1>2, <1>3, <1>4, <1>5

LEMMA ProcessHeld ==
  ASSUME TInv, TInv', misled \/ Held, ~misled', NEW p \in Pids,
         \/ StartForeground(p) \/ SetUp(p) \/ Leave(p) \/ CleanUp(p)
         \/ Exit(p) \/ Exec(p) \/ Crash(p) \/ Foreign(p)
  PROVE  Held'
<1> USE DaemonProcessAssumption
    DEF TInv, TypeOK, Actors, Goto, history, Writing, Holds, WrittenPid, Serving, Reliant, Stopping
<1>1. CASE StartForeground(p)
  BY <1>1, StartHeld DEF StartForeground
<1>2. CASE CleanUp(p)
  <2> USE <1>2 DEF CleanUp, Removes
  <2>1. \A z \in Actors : ~Holds(z)'
    BY DEF Held, OneHolder, HolderIsNamed, Named, Follows
  <2>2. QED  BY <2>1 DEF Held, OneHolder, HolderIsNamed, HolderIsFound
<1>3. CASE \/ SetUp(p) \/ Leave(p) \/ Exit(p) \/ Exec(p) \/ Crash(p) \/ Foreign(p)
  <2> USE <1>3 DEF SetUp, Leave, Exit, Exec, Crash, Foreign, DaemonPC, Starting, ProcessPC
  <2>1. Held /\ UNCHANGED <<pidFile, seen, outdated>>
    OBVIOUS
  <2>2. \A y \in Actors : y # p => pc'[y] = pc[y]
    OBVIOUS
  <2>3. pc'[p] \notin Reliant \cup {"write"} /\ (Holds(p)' => Holds(p) /\ pc[p] # "write")
    OBVIOUS
  <2>4. \A x \in Actors : Writing(x) => Writing(x)' \/ (x \in Pids /\ ~Holds(x)')
    <3>1. Writing(p) => ~Holds(p)'
      BY <2>3 DEF Writing
    <3>2. ASSUME NEW x \in Actors, x # p, Writing(x) PROVE Writing(x)'
      BY ONLY <2>1, <2>2, <3>2 DEF Writing
    <3>3. QED  BY <3>1, <3>2
  <2>5. \A x \in Actors : (Writing(x)' => Writing(x)) /\ (Holds(x)' => Holds(x))
    BY ONLY TInv, <2>1, <2>2, <2>3 DEF Writing, Holds, TInv, TypeOK, Actors
  <2>6. \A x \in Actors : WrittenPid(x)' = WrittenPid(x)
    BY <2>1 DEF WrittenPid
  <2>7. \A q \in Pids : (pc[q] = "write")' => q \notin outdated'
    BY ONLY <2>1, <2>2, <2>3 DEF Held, HolderIsNamed, Actors
  <2>8. \A x, z \in Actors :
          x # z /\ Holds(z) /\ Holds(z)' /\ (pc[x] \in Reliant)' /\ x \notin outdated'
            => (WorksFor(x, z) \/ HasFound(x, z) \/ FoundDead(x, z))'
    BY ONLY <2>1, <2>2, <2>3, <2>6 DEF Held, HolderIsFound, WorksFor, HasFound, FoundDead
  <2>9. QED
    BY ONLY TInv, <2>1, <2>4, <2>5, <2>6, <2>7, <2>8, FileLeftAlone
<1>4. QED  BY <1>1, <1>2, <1>3

(* A signal may end the process that a command has found, or make it       *)
(* leave; the command goes on from there.                                  *)
LEMMA SignalHeld ==
  ASSUME TInv, TInv', Held, NEW c \in Commands, Term(c) \/ Kill(c)
  PROVE  Held'
<1> USE DaemonProcessAssumption DEF Term, Kill, history
<1> DEFINE p == seen[c]
<1>1. p \in Pids /\ c # p /\ c \in Actors /\ p \in Actors
  BY DEF TInv, Follows, Actors
<1>2. UNCHANGED <<pidFile, seen, outdated>>
  OBVIOUS
<1>3. /\ \A y \in Actors \ {c, p} : pc'[y] = pc[y]
      /\ pc'[c] = "idle" \/ (pc[c] \in {"term", "kill"} /\ pc'[c] \in {"wait", "killed"})
      /\ pc[c] \in {"term", "kill"}
  BY <1>1 DEF TInv, TypeOK, Goto
<1>4. pc'[p] = pc[p] \/ (pc'[p] \in {"free", "leaving"} /\ (pc'[p] = "leaving" => pc[p] = "serving"))
  BY <1>1 DEF TInv, TypeOK, Goto
<1> HIDE DEF p
<1>5. \A x \in Actors : /\ Writing(x)' => Writing(x)
                        /\ Writing(x) => Writing(x)' \/ (x \in Pids /\ ~Holds(x)')
  BY <1>1, <1>2, <1>3, <1>4 DEF Writing, Holds, Serving
<1>6. \A x \in Actors : Holds(x)' => Holds(x)
  BY <1>1, <1>2, <1>3, <1>4 DEF Writing, Holds, Serving
<1>7. \A x \in Actors : WrittenPid(x)' = WrittenPid(x)
  BY <1>2 DEF WrittenPid
<1>8. \A q \in Pids : (pc[q] = "write")' => q \notin outdated'
  BY <1>1, <1>2, <1>3, <1>4 DEF Held, HolderIsNamed, Actors
<1>9. \A x, z \in Actors :
        x # z /\ Holds(z) /\ Holds(z)' /\ (pc[x] \in Reliant)' /\ x \notin outdated'
          => (WorksFor(x, z) \/ HasFound(x, z) \/ FoundDead(x, z))'
  BY <1>1, <1>2, <1>3, <1>4, <1>7
  DEF Held, HolderIsFound, WorksFor, HasFound, FoundDead, Reliant, Stopping
<1>10. QED
  BY ONLY TInv, Held, <1>2, <1>5, <1>6, <1>7, <1>8, <1>9, FileLeftAlone

LEMMA CommandHeld ==
  ASSUME TInv, TInv', misled \/ Held, ~misled', NEW c \in Commands,
         \/ StartBackground(c) \/ Find(c) \/ Probe(c) \/ Term(c)
         \/ Wait(c) \/ Kill(c) \/ Killed(c) \/ Clear(c)
         \/ \E restart \in BOOLEAN : Stop(c, restart)
         \/ \E p \in Pids : Spawn(c, p)
  PROVE  Held'
<1> USE DaemonProcessAssumption
    DEF TInv, TypeOK, Actors, Goto, history, Writing, Holds, WrittenPid, Serving, Reliant,
        Stopping, AfterStop
<1>1. CASE StartBackground(c) \/ \E restart \in BOOLEAN : Stop(c, restart)
  BY <1>1, StartHeld DEF StartBackground, Stop
<1>2. CASE Term(c) \/ Kill(c)
  BY <1>2, SignalHeld DEF Term, Kill
<1>3. CASE Find(c)
  <2> USE <1>3 DEF Find, Reads
  <2>1. ASSUME NEW z \in Actors, Holds(z), (pc[c] \in Reliant)'
        PROVE  HasFound(c, z)'
    <3>1. WrittenPid(z) \in Pids /\ WrittenPid(z)' = WrittenPid(z)
      BY <2>1 DEF Follows
    <3>2. Held /\ ~Torn(c)
      OBVIOUS
    <3>3. ReadPid = WrittenPid(z)
      BY <2>1, <3>1, <3>2, ReadingFinds
    <3>4. QED  BY <2>1, <3>1, <3>3 DEF HasFound
  <2>2. \A y, z \in Actors :
           y # c /\ y # z /\ Holds(z) /\ Holds(z)' /\ (pc[y] \in Reliant)' /\ y \notin outdated'
             => (WorksFor(y, z) \/ HasFound(y, z) \/ FoundDead(y, z))'
    BY DEF Held, HolderIsFound, WorksFor, HasFound, FoundDead
  <2>3. \A p \in Pids : (pc[p] = "write")' => p \notin outdated'
    BY DEF Held, HolderIsNamed
  <2>4. \A y \in Actors : /\ Writing(y)' <=> Writing(y)
                          /\ Holds(y)' => Holds(y) /\ WrittenPid(y)' = WrittenPid(y)
    OBVIOUS
  <2>5. Held
    OBVIOUS
  <2>6. QED
    BY ONLY TInv, Find(c), <2>1, <2>2, <2>3, <2>4, <2>5, Bystander DEF Find
<1>4. CASE Probe(c) \/ Wait(c) \/ Killed(c)
  <2> USE <1>4 DEF Probe, Wait, Killed, AfterGrace
  <2>1. ASSUME NEW z \in Actors, Holds(z), (pc[c] \in Reliant)', c \notin outdated'
        PROVE  HasFound(c, z)' \/ FoundDead(c, z)'
    <3>1. HasFound(c, z) /\ WrittenPid(z)' = WrittenPid(z)
      BY <2>1 DEF Held, HolderIsFound, WorksFor, HasFound, FoundDead
    <3>2. CASE Alive(seen[c])
      BY <2>1, <3>1, <3>2 DEF HasFound
    <3>3. CASE ~Alive(seen[c])
      BY <2>1, <3>1, <3>3 DEF HasFound, FoundDead, Alive
    <3>4. QED  BY <3>2, <3>3
  <2>2. \A y, z \in Actors :
           y # c /\ y # z /\ Holds(z) /\ Holds(z)' /\ (pc[y] \in Reliant)' /\ y \notin outdated'
             => (WorksFor(y, z) \/ HasFound(y, z) \/ FoundDead(y, z))'
    BY DEF Held, HolderIsFound, WorksFor, HasFound, FoundDead
  <2>3. \A p \in Pids : (pc[p] = "write")' => p \notin outdated'
    BY DEF Held, HolderIsNamed
  <2>4. \A y \in Actors : /\ Writing(y)' <=> Writing(y)
                          /\ Holds(y)' => Holds(y) /\ WrittenPid(y)' = WrittenPid(y)
    OBVIOUS
  <2>5. Held /\ UNCHANGED pidFile
    OBVIOUS
  <2>6. QED
    BY ONLY TInv, <2>1, <2>2, <2>3, <2>4, <2>5, Bystander
<1>5. CASE Clear(c)
  <2> USE <1>5 DEF Clear, Removes, ActsOnReading
  <2>1. \A z \in Actors : ~Holds(z)'
    <3> SUFFICES ASSUME NEW z \in Actors, Holds(z)' PROVE FALSE  OBVIOUS
    <3>1. Holds(z) /\ Held  OBVIOUS
    <3>2. pidFile # Absent
      BY <3>1 DEF Held, HolderIsNamed, Named, Follows
    <3>3. c \notin outdated
      BY <3>2 DEF Stale
    <3>4. z \in Commands
      BY <3>1, <3>3 DEF Held, HolderIsFound, WorksFor, HasFound, FoundDead
    <3>5. QED  BY <3>2, <3>4
  <2>2. QED  BY <2>1 DEF Held, OneHolder, HolderIsNamed, HolderIsFound
<1>6. ASSUME NEW p \in Pids, Spawn(c, p)
      PROVE  Held'
  <2> USE <1>6 DEF Spawn
  <2>1. \A z \in Actors : Holds(z)' => Holds(z) /\ z # c /\ WrittenPid(z)' = WrittenPid(z)
    OBVIOUS
  <2>2. \A y, z \in Actors :
           y # z /\ Holds(z) /\ Holds(z)' /\ (pc[y] \in Reliant)' /\ y \notin outdated'
             => (WorksFor(y, z) \/ HasFound(y, z) \/ FoundDead(y, z))'
    BY DEF Held, HolderIsFound, WorksFor, HasFound, FoundDead
  <2>3. \A q \in Pids : (pc[q] = "write")' => q \notin outdated'
    BY DEF Held, HolderIsNamed
  <2>4. \A y \in Actors : Writing(y)' <=> Writing(y)
    OBVIOUS
  <2>5. Held /\ UNCHANGED pidFile
    OBVIOUS
  <2>6. QED
    BY ONLY TInv, <2>1, <2>2, <2>3, <2>4, <2>5, Bystander
<1>7. QED
  BY <1>1, <1>2, <1>3, <1>4, <1>5, <1>6

LEMMA InvariantHolds == Spec => []IInv
<1>1. IInv /\ TInv' /\ [Next]_vars => IInv'
  <2> SUFFICES ASSUME IInv, TInv', [Next]_vars, ~misled' PROVE Held'
    BY DEF IInv
  <2>1. CASE Next
    <3>1. ASSUME NEW x \in Actors,
                 Check(x) \/ Judge(x) \/ RemoveStale(x) \/ Claim(x) \/ Write(x)
          PROVE  Held'
      <4>1. ~misled
        BY <3>1
        DEF IInv, TInv, TypeOK, Check, Judge, RemoveStale, Claim, Write, Reads, ActsOnReading, history
      <4>2. QED  BY <3>1, <4>1, SharedHeld DEF IInv
    <3>2. QED  BY <2>1, <3>1, ProcessHeld, CommandHeld DEF IInv, Next
  <2>2. CASE UNCHANGED vars
    BY <2>2
    DEF vars, history, IInv, Held, OneHolder, HolderIsNamed, HolderIsFound, Holds, Writing, Named,
        WorksFor, HasFound, FoundDead, WrittenPid
  <2>3. QED  BY <2>1, <2>2
<1>2. Init => IInv
  BY TypesInit, HeldInit DEF IInv
<1>3. QED  BY <1>1, <1>2, TypesHold, PTL DEF Spec

(* Two daemons never serve one profile, however starts, stops and execs    *)
(* overlap, unless an actor was misled (refuse_if_already_running).        *)
THEOREM OneDaemon == Spec => []AtMostOneDaemon
<1>1. IInv => AtMostOneDaemon
  BY DaemonProcessAssumption
  DEF IInv, Held, OneHolder, Holds, WrittenPid, AtMostOneDaemon, Actors
<1>2. QED  BY <1>1, InvariantHolds, PTL

(* A daemon that serves is the one the PID file names, or is about to name *)
(* again, unless an actor was misled (write_pid, remove_pid).              *)
THEOREM DaemonsAreAddressable == Spec => []DaemonIsAddressable
<1>1. IInv => DaemonIsAddressable
  BY DaemonProcessAssumption
  DEF IInv, Held, HolderIsNamed, Named, Writing, Holds, WrittenPid, DaemonIsAddressable, Actors,
      Serving
<1>2. QED  BY <1>1, InvariantHolds, PTL

(* stop says that nothing runs, or that the daemon has stopped, only when  *)
(* no daemon serves, unless an actor was misled (stop, send_sigkill).      *)
THEOREM StopsFindTheDaemon == Spec => StopFindsTheDaemon
<1> DEFINE Says(c) == pc[c] \in {"find", "clear"} /\ pc'[c] = AfterStop(c) /\ ~misled'
<1>1. ASSUME IInv, [Next]_vars, NEW c \in Commands, Says(c)
      PROVE  Find(c) \/ Clear(c)
  <2> USE DaemonProcessAssumption, <1>1
      DEF IInv, TInv, TypeOK, Actors, Goto, AfterStop, Follows
  <2>1. ASSUME UNCHANGED vars PROVE FALSE
    BY <2>1 DEF vars
  <2>2. ASSUME NEW x \in Actors,
               Check(x) \/ Judge(x) \/ RemoveStale(x) \/ Claim(x) \/ Write(x)
        PROVE  FALSE
    BY <2>2 DEF Check, Judge, RemoveStale, Claim, Write
  <2>3. ASSUME NEW p \in Pids,
               \/ StartForeground(p) \/ SetUp(p) \/ Leave(p) \/ CleanUp(p)
               \/ Exit(p) \/ Exec(p) \/ Crash(p) \/ Foreign(p)
        PROVE  FALSE
    BY <2>3 DEF StartForeground, SetUp, Leave, CleanUp, Exit, Exec, Crash, Foreign
  <2>4. ASSUME NEW d \in Commands,
               \/ StartBackground(d) \/ Find(d) \/ Probe(d) \/ Term(d)
               \/ Wait(d) \/ Kill(d) \/ Killed(d) \/ Clear(d)
               \/ \E restart \in BOOLEAN : Stop(d, restart)
               \/ \E p \in Pids : Spawn(d, p)
        PROVE  Find(c) \/ Clear(c)
    BY <2>4
    DEF StartBackground, Find, Probe, Term, Wait, Kill, Killed, Clear, Stop, Spawn
  <2>5. QED  BY <2>1, <2>2, <2>3, <2>4 DEF Next
<1>2. ASSUME IInv, NEW c \in Commands, Says(c), Find(c) \/ Clear(c), NEW p \in Pids,
             pc[p] \in Serving
      PROVE  FALSE
  <2> USE DaemonProcessAssumption, <1>2
  <2>1. TInv /\ Held /\ c \in Actors /\ p \in Actors /\ c # p
    BY DEF IInv, TInv, TypeOK, Find, Clear, Reads, ActsOnReading, Actors
  <2>2. Holds(p) /\ WrittenPid(p) = p
    BY DEF Holds, WrittenPid
  <2>3. pidFile # Absent
    BY <2>1, <2>2
    DEF TInv, TypeOK, Held, HolderIsNamed, Named, Actors
  <2>4. CASE Find(c)
    <3>1. ~Torn(c) /\ pc[c] = "find" /\ ReadPid = None
      BY <2>4, <2>1 DEF Find, Reads, Goto, TInv, TypeOK, AfterStop, IInv
    <3>2. QED  BY <2>1, <2>2, <3>1, ReadingFinds
  <2>5. CASE Clear(c)
    <3>1. c \notin outdated /\ pc[c] = "clear"
      BY <2>3, <2>5 DEF Clear, ActsOnReading, Stale, IInv, TInv, TypeOK
    <3>2. QED
      BY <2>1, <2>2, <3>1
      DEF Held, HolderIsFound, WorksFor, HasFound, FoundDead, Reliant, Stopping, Actors
  <2>6. QED  BY <2>4, <2>5
<1>3. IInv /\ [Next]_vars =>
        [\A c \in Commands : Says(c) => \A p \in Pids : pc[p] \notin Serving]_vars
  BY <1>1, <1>2
<1>4. QED  BY <1>3, InvariantHolds, PTL DEF Spec, StopFindsTheDaemon

-----------------------------------------------------------------------------
(* The self-update, a task of the same process with a state of its own:    *)
(* its types for any set of daemons, and what holds of it with one daemon  *)
(* on the machine.                                                         *)

LEMMA UpdateTypesInit == UpdateInit => UpdateTypeOK
BY SelfUpdateAssumption DEF UpdateInit, UpdateTypeOK, Versions, PC, Content

LEMMA UpdateTypesStep ==
  ASSUME UpdateTypeOK, UpdateNext
  PROVE  UpdateTypeOK'
<1> USE DEF UpdateTypeOK, PC, Content, turnVars, TaskTo
<1>1. CASE ClockMoves \/ \E v \in Versions : Publish(v)
  BY <1>1 DEF ClockMoves, Publish
<1>2. ASSUME NEW d \in Daemons,
             CheckForUpdate(d) \/ Decide(d) \/ Fail(d) \/ Open(d) \/ Verify(d)
      PROVE  UpdateTypeOK'
  BY <1>2 DEF CheckForUpdate, Decide, Fail, Open, Verify
<1>3. ASSUME NEW d \in Daemons, NEW content, Store(d, content)
      PROVE  UpdateTypeOK'
  BY <1>3 DEF Store
<1>4. ASSUME NEW d \in Daemons, Replace(d)
      PROVE  UpdateTypeOK'
  <2>1. Moved(d) \in [Daemons -> {"none", "temp", "exe", "gone"}]
    BY Zenon DEF Moved
  <2>2. QED  BY <1>4, <2>1 DEF Replace
<1>5. ASSUME NEW d \in Daemons, ExecUpdate(d) \/ Boot(d)
      PROVE  UpdateTypeOK'
  BY <1>5 DEF ExecUpdate, Boot, Begins
<1>6. ASSUME NEW d \in Daemons,
             DaemonCrashes(d) \/ BeginTurn(d) \/ EndTurn(d) \/ PanicInTurn(d)
      PROVE  UpdateTypeOK'
  BY <1>6 DEF DaemonCrashes, BeginTurn, EndTurn, Counted, PanicInTurn
<1>7. QED  BY <1>1, <1>2, <1>3, <1>4, <1>5, <1>6 DEF UpdateNext

(* Every variable of the self-update keeps its type, for any daemons,      *)
(* versions and turns.                                                     *)
THEOREM UpdatesKeepTypes == UpdateSpec => []UpdateTypeOK
<1>1. UpdateTypeOK /\ [UpdateNext]_updateVars => UpdateTypeOK'
  <2>1. ASSUME UpdateTypeOK, UNCHANGED updateVars PROVE UpdateTypeOK'
    BY <2>1 DEF UpdateTypeOK, updateVars, turnVars
  <2>2. QED  BY <2>1, UpdateTypesStep
<1>2. QED  BY <1>1, UpdateTypesInit, PTL DEF UpdateSpec

(* A download is open only while it is stored, to the temporary file; what *)
(* is about to be installed was verified and is no older than what runs.   *)
OneUpdate ==
  \A d \in Daemons :
    /\ out[d] = IF task[d] = "storing" THEN "temp" ELSE "none"
    /\ task[d] = "replace" => temp[info[d]] = "good"
    /\ task[d] \in {"waiting", "fetch", "storing", "verify", "replace"} => info[d] >= image[d]
    /\ exe.version >= image[d]

UpdateInv == OneUpdate /\ InstalledIsVerified
Forward == \A d \in Daemons : image'[d] >= image[d]

LEMMA UpdateInvInit == UpdateInit => UpdateInv
BY SelfUpdateAssumption DEF UpdateInit, UpdateInv, OneUpdate, InstalledIsVerified

LEMMA UpdateStep ==
  ASSUME \A d, e \in Daemons : d = e, UpdateTypeOK, UpdateInv, UpdateNext
  PROVE  UpdateInv' /\ Forward
<1> USE SelfUpdateAssumption
    DEF UpdateTypeOK, UpdateInv, OneUpdate, Forward,
        InstalledIsVerified, TaskTo, turnVars, Versions
<1>1. CASE ClockMoves \/ \E v \in Versions : Publish(v)
  BY <1>1 DEF ClockMoves, Publish
<1>2. ASSUME NEW d \in Daemons,
             CheckForUpdate(d) \/ Decide(d) \/ Fail(d) \/ Open(d) \/ Verify(d)
      PROVE  UpdateInv' /\ Forward
  BY <1>2 DEF CheckForUpdate, Newer, Decide, Fail, Open, Verify, ChecksumMatches
<1>3. ASSUME NEW d \in Daemons, NEW content, Store(d, content)
      PROVE  UpdateInv' /\ Forward
  BY <1>3 DEF Store
<1>4. ASSUME NEW d \in Daemons, Replace(d)
      PROVE  UpdateInv' /\ Forward
  <2>1. out[d] = "none"
    BY <1>4 DEF Replace
  <2>2. Moved(d)[d] = "none"
    BY <2>1, Zenon DEF Moved
  <2>3. QED  BY <1>4, <2>2 DEF Replace
<1>5. ASSUME NEW d \in Daemons, ExecUpdate(d) \/ Boot(d)
      PROVE  UpdateInv' /\ Forward
  BY <1>5 DEF ExecUpdate, Boot, Begins
<1>6. ASSUME NEW d \in Daemons,
             DaemonCrashes(d) \/ BeginTurn(d) \/ EndTurn(d) \/ PanicInTurn(d)
      PROVE  UpdateInv' /\ Forward
  BY <1>6 DEF DaemonCrashes, BeginTurn, EndTurn, PanicInTurn
<1>7. QED  BY <1>1, <1>2, <1>3, <1>4, <1>5, <1>6 DEF UpdateNext

LEMMA UpdateHolds ==
  ASSUME \A d, e \in Daemons : d = e
  PROVE  UpdateSpec => []UpdateInv
<1>1. UpdateTypeOK /\ UpdateInv /\ [UpdateNext]_updateVars => UpdateInv'
  <2>1. ASSUME UpdateInv, UNCHANGED updateVars PROVE UpdateInv'
    BY <2>1 DEF updateVars, UpdateInv, OneUpdate, InstalledIsVerified
  <2>2. QED  BY <2>1, UpdateStep
<1>2. QED  BY <1>1, UpdateInvInit, UpdatesKeepTypes, PTL DEF UpdateSpec

(* With one daemon on the machine the installed executable is always one   *)
(* whose checksum was verified (download_file, perform_update).            *)
THEOREM UpdatesAreVerified ==
  ASSUME \A d, e \in Daemons : d = e
  PROVE  UpdateSpec => []InstalledIsVerified
BY UpdateHolds, PTL DEF UpdateInv

(* With one daemon on the machine it never runs an older version than it   *)
(* did before (check_for_update).                                          *)
THEOREM UpdatesGoForward ==
  ASSUME \A d, e \in Daemons : d = e
  PROVE  UpdateSpec => NeverDowngrades
<1>1. UpdateTypeOK /\ UpdateInv /\ [UpdateNext]_updateVars
        => [\A d \in Daemons : image'[d] >= image[d]]_image
  BY UpdateStep DEF Forward, updateVars
<1>2. QED
  BY <1>1, UpdateHolds, UpdatesKeepTypes, PTL DEF UpdateSpec, NeverDowngrades

=============================================================================
