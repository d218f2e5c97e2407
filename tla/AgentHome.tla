------------------------------ MODULE AgentHome ------------------------------
(***************************************************************************)
(* The home directory of each agent, <daemon home>/agents/<agent id>, and  *)
(* all who write to it: a start, which creates it and migrates the memory  *)
(* of an earlier daemon (agent/process.rs, from_start, setup_agent_memory);*)
(* deliveries, which download attachments into notes/ (runner.rs,          *)
(* download_delivery_attachments); the agent itself, in its turns; and     *)
(* machine:workspace:delete.  The dispatcher also answers requests that    *)
(* browse it.                                                              *)
(*                                                                         *)
(* Starts, deletes and requests run in the dispatcher, one at a time; the  *)
(* tasks of deliveries run beside them, and the end of the daemon can come *)
(* between any two writes.  A file is truncated when it is opened and then *)
(* written.  The turn lock is left out: the turns of two processes of an   *)
(* agent may overlap (AgentLifecycle).                                     *)
(***************************************************************************)
EXTENDS Naturals, FiniteSets

CONSTANTS
  Agents,
  Names,        (* file names in notes/                                    *)
  Attachments,
  FileName,     (* sanitize_attachment_filename, or attachment-<id>        *)
  TooLarge,     (* names of text files above TEXT_MAX_BYTES                *)
  Binary,       (* names without a text extension                          *)
  Hidden,       (* names that begin with a dot                             *)
  Turns,        (* bound: deliveries in flight                             *)
  None,         (* no start, no delivery, no file being written, no reply  *)
  Absent,       (* the content of a file that is not there                 *)
  Torn          (* the content of a file written in part                   *)

VARIABLES
  home,       (* the files of each agent                                   *)
  legacy,     (* what ~/.slock/agents/<id> holds; nobody writes there      *)
  installed,  (* agents with a process in the registry                     *)
  start,      (* the start the dispatcher is running                       *)
  spoilt,     (* agents a delete, or a start cut short, has left with less *)
              (* than a home, which no start has made anew                 *)
  turn,       (* the deliveries in flight                                  *)
  reply       (* the answer to a request, until the next step              *)

vars == <<home, legacy, installed, start, spoilt, turn, reply>>

Content == Attachments \cup {"legacy", "initial", "edited", Absent, Torn}
Home == [dir : BOOLEAN, memory : Content \ Attachments, notes : [Names -> Content]]
Nothing == [dir |-> FALSE, memory |-> Absent, notes |-> [n \in Names |-> Absent]]
Files == Names \cup {"MEMORY.md"}
Read(h, f) == IF f = "MEMORY.md" THEN h.memory ELSE h.notes[f]
Write(h, f, content) ==
  IF f = "MEMORY.md" THEN [h EXCEPT !.memory = content]
                     ELSE [h EXCEPT !.notes[f] = content]
Present(h) == {f \in Files : Read(h, f) # Absent}

(* kept: the files there since the start began.                            *)
Start == [agent : Agents, kept : SUBSET Files, todo : SUBSET Names,
          file : Files \cup {None},
          step : {"memory", "notes", "note", "ready", "initial", "open"}]

(* writing: the file open for an attachment; unlinked: it has been removed *)
(* since.                                                                  *)
Turn == [of : Agents, stage : {"spawned", "downloading", "waiting", "running"},
         todo : SUBSET Attachments, writing : Attachments \cup {None},
         unlinked : BOOLEAN]

ASSUME AgentHomeAssumption ==
  /\ FileName \in [Attachments -> Names]
  /\ TooLarge \cup Binary \cup Hidden \subseteq Names
  /\ "MEMORY.md" \notin Names
  /\ Attachments \cap {"legacy", "initial", "edited"} = {}
  /\ Absent # Torn
  /\ {Absent, Torn} \cap (Attachments \cup {"legacy", "initial", "edited"}) = {}
  /\ None \notin Agents \cup Files \cup Attachments \cup Start \cup Turn

Init ==
  /\ home = [a \in Agents |-> Nothing]
  /\ legacy \in [Agents -> [memory : BOOLEAN, notes : SUBSET Names]]
  /\ installed = {} /\ start = None /\ spoilt = {}
  /\ turn = [t \in Turns |-> None] /\ reply = None

-----------------------------------------------------------------------------
(* Faulty variants, each a mistake the operator it stands for could have   *)
(* held; with it in place the property named here fails.                   *)

(* MemoryThere: the memory is migrated whether or not there is one         *)
(* (StartKeepsFiles).                                                      *)
MemoryThereNever(h) == FALSE

(* Skipped: the migration ends at the first note that is there already     *)
(* (InstalledHasHome).                                                     *)
SkippedAll(todo, n) == {}

(* Cleared: the directory is taken for empty, its files stay (TypeOK).     *)
ClearedDirOnly(h) == [h EXCEPT !.dir = FALSE]

-----------------------------------------------------------------------------
(* agent:start (from_start and setup_agent_memory).                        *)

MemoryThere(h) == h.memory # Absent

(* The directories are made.  A memory that is there ends the set-up, with *)
(* no look at what it holds or at the notes.                               *)
BeginStart(a) ==
  /\ start = None
  /\ home' = [home EXCEPT ![a].dir = TRUE]
  /\ IF MemoryThere(home[a])
     THEN /\ installed' = installed \cup {a}
          /\ UNCHANGED start
     ELSE /\ start' = [agent |-> a, kept |-> Present(home[a]), file |-> None,
                       step |-> IF legacy[a].memory THEN "memory" ELSE "ready",
                       todo |-> IF legacy[a].memory THEN legacy[a].notes ELSE {}]
          /\ UNCHANGED installed
  /\ reply' = None
  /\ UNCHANGED <<legacy, spoilt, turn>>

(* std::fs::copy and std::fs::write: open, then write.                     *)
Open(f) ==
  /\ home' = [home EXCEPT ![start.agent] = Write(@, f, Torn)]
  /\ start' = [start EXCEPT !.file = f, !.step = "open"]
  /\ UNCHANGED <<installed, spoilt>>

OpenLegacyMemory == start.step = "memory" /\ Open("MEMORY.md")
OpenInitialMemory == start.step = "initial" /\ Open("MEMORY.md")
OpenNote == start.step = "note" /\ Open(start.file)

Fill ==
  /\ start.step = "open"
  /\ LET initial == start.file = "MEMORY.md" /\ ~legacy[start.agent].memory
     IN /\ home' = [home EXCEPT ![start.agent] =
                      Write(@, start.file, IF initial THEN "initial" ELSE "legacy")]
        /\ start' = [start EXCEPT !.file = None,
                                  !.step = IF initial THEN "ready" ELSE "notes"]
  /\ UNCHANGED <<installed, spoilt>>

(* migrate_notes_dir: a note is copied unless there is one of its name.    *)
Skipped(todo, n) == todo \ {n}

NextNote ==
  /\ start.step = "notes"
  /\ IF start.todo = {} THEN start' = [start EXCEPT !.step = "ready"]
     ELSE \E n \in start.todo :
            start' = IF n \in Present(home[start.agent])
                     THEN [start EXCEPT !.todo = Skipped(@, n)]
                     ELSE [start EXCEPT !.todo = @ \ {n}, !.file = n, !.step = "note"]
  /\ UNCHANGED <<home, installed, spoilt>>

FinishStart ==
  /\ start.step = "ready"
  /\ IF home[start.agent].memory # Absent
     THEN /\ installed' = installed \cup {start.agent}
          /\ spoilt' = spoilt \ {start.agent}
          /\ start' = None
     ELSE /\ start' = [start EXCEPT !.step = "initial"]
          /\ UNCHANGED <<installed, spoilt>>
  /\ UNCHANGED home

(* Any of the calls fails: the start is given up, what it wrote stays, and *)
(* so does a process installed before.                                     *)
FailStart ==
  /\ start' = None
  /\ spoilt' = spoilt \cup {start.agent}
  /\ UNCHANGED <<home, installed>>

StartStep ==
  /\ start # None
  /\ \/ OpenLegacyMemory \/ OpenInitialMemory \/ OpenNote \/ Fill
     \/ NextNote \/ FinishStart \/ FailStart
  /\ reply' = None
  /\ UNCHANGED <<legacy, turn>>

StopAgent(a) ==
  /\ start = None
  /\ installed' = installed \ {a}
  /\ reply' = None
  /\ UNCHANGED <<home, legacy, start, spoilt, turn>>

(* The daemon ends, anywhere; files stay as they are.                      *)
DaemonExit ==
  /\ installed' = {} /\ start' = None
  /\ spoilt' = spoilt \cup (IF start = None THEN {} ELSE {start.agent})
  /\ turn' = [t \in Turns |-> None] /\ reply' = None
  /\ UNCHANGED <<home, legacy>>

-----------------------------------------------------------------------------
(* Requests of the server.                                                 *)

Told(answer) ==
  /\ reply' = answer
  /\ UNCHANGED <<legacy, installed, start>>

(* remove_dir_all, whatever uses the directory; it may fail with a part of *)
(* the files removed.                                                      *)
Cleared(h) == Nothing
Without(h, gone) ==
  [dir |-> h.dir,
   memory |-> IF "MEMORY.md" \in gone THEN Absent ELSE h.memory,
   notes |-> [n \in Names |-> IF n \in gone THEN Absent ELSE h.notes[n]]]

RemoveHome(a) ==
  /\ start = None
  /\ \/ /\ home[a].dir
        /\ home' = [home EXCEPT ![a] = Cleared(@)]
        /\ Told([type |-> "delete_result", success |-> TRUE])
     \/ /\ home[a].dir
        /\ \E gone \in SUBSET Present(home[a]) :
             home' = [home EXCEPT ![a] = Without(@, gone)]
        /\ Told([type |-> "delete_result", success |-> FALSE])
     \/ /\ ~home[a].dir
        /\ Told([type |-> "delete_result", success |-> FALSE])
        /\ UNCHANGED home
  /\ spoilt' = IF home' = home THEN spoilt ELSE spoilt \cup {a}
  /\ turn' = [t \in Turns |->
       IF turn[t] # None /\ turn[t].of = a /\ turn[t].writing # None
       THEN [turn[t] EXCEPT !.unlinked =
               @ \/ home'[a].notes[FileName[turn[t].writing]] = Absent]
       ELSE turn[t]]

(* read_workspace_file of a note: its text, a marker, or an error.         *)
ReadResult(h, n) ==
  IF h.notes[n] = Absent \/ (n \in TooLarge /\ n \notin Binary) THEN "error"
  ELSE IF n \in Binary THEN "binary" ELSE h.notes[n]

ListWorkspace(a, includeHidden) ==
  /\ start = None
  /\ Told([type |-> "file_tree",
           files |-> IF includeHidden THEN Present(home[a])
                     ELSE Present(home[a]) \ Hidden])
  /\ UNCHANGED <<home, spoilt, turn>>

ReadWorkspace(a, n) ==
  /\ start = None
  /\ Told([type |-> "file_content", content |-> ReadResult(home[a], n)])
  /\ UNCHANGED <<home, spoilt, turn>>

ScanWorkspaces ==
  /\ start = None
  /\ Told([type |-> "scan_result", workspaces |-> {a \in Agents : home[a].dir}])
  /\ UNCHANGED <<home, spoilt, turn>>

-----------------------------------------------------------------------------
(* The task of a delivery.                                                 *)

Deliver(t, a, attachments) ==
  /\ turn[t] = None /\ a \in installed
  /\ turn' = [turn EXCEPT ![t] =
       [of |-> a, stage |-> "spawned", todo |-> attachments, writing |-> None,
        unlinked |-> FALSE]]
  /\ reply' = None
  /\ UNCHANGED <<home, legacy, installed, start, spoilt>>

InTask(t, stage) ==
  /\ turn[t] # None /\ turn[t].stage = stage
  /\ reply' = None
  /\ UNCHANGED <<legacy, installed, start, spoilt>>

(* notes/ is created for a message with attachments; when that fails, or   *)
(* the agent has no credential, none is downloaded.                        *)
BeginDownload(t) ==
  /\ InTask(t, "spawned")
  /\ \/ /\ turn[t].todo # {}
        /\ home' = [home EXCEPT ![turn[t].of].dir = TRUE]
        /\ turn' = [turn EXCEPT ![t].stage = "downloading"]
     \/ /\ turn' = [turn EXCEPT ![t].stage = "waiting", ![t].todo = {}]
        /\ UNCHANGED home

OpenAttachment(t, f) ==
  /\ InTask(t, "downloading") /\ turn[t].writing = None
  /\ f \in turn[t].todo /\ home[turn[t].of].dir
  /\ home' = [home EXCEPT ![turn[t].of] = Write(@, FileName[f], Torn)]
  /\ turn' = [turn EXCEPT ![t].writing = f, ![t].unlinked = FALSE]

(* Another delivery that has the same file open may have written too.      *)
Written(t, f) ==
  IF \E u \in Turns \ {t} :
       /\ turn[u] # None /\ turn[u].of = turn[t].of /\ ~turn[u].unlinked
       /\ turn[u].writing # None /\ FileName[turn[u].writing] = FileName[f]
  THEN {f, Torn} ELSE {f}

FillAttachment(t) ==
  LET f == turn[t].writing IN
  /\ InTask(t, "downloading") /\ f # None
  /\ IF turn[t].unlinked THEN UNCHANGED home
     ELSE \E content \in Written(t, f) :
            home' = [home EXCEPT ![turn[t].of] = Write(@, FileName[f], content)]
  /\ turn' = [turn EXCEPT ![t].writing = None, ![t].unlinked = FALSE,
                          ![t].todo = @ \ {f}]

(* The download fails, or the write.                                       *)
FailAttachment(t, f) ==
  /\ InTask(t, "downloading")
  /\ f \in turn[t].todo /\ turn[t].writing \in {None, f}
  /\ turn' = [turn EXCEPT ![t].writing = None, ![t].unlinked = FALSE,
                          ![t].todo = @ \ {f}]
  /\ UNCHANGED home

EndDownload(t) ==
  /\ InTask(t, "downloading") /\ turn[t].todo = {}
  /\ turn' = [turn EXCEPT ![t].stage = "waiting"]
  /\ UNCHANGED home

(* The child is spawned in the home; without one the turn fails.           *)
BeginTurn(t) ==
  /\ InTask(t, "waiting")
  /\ turn' = [turn EXCEPT ![t] = IF home[turn[t].of].dir
                                 THEN [@ EXCEPT !.stage = "running"] ELSE None]
  /\ UNCHANGED home

(* The agent writes its memory and its notes.                              *)
Edit(t, f) ==
  /\ InTask(t, "running") /\ home[turn[t].of].dir
  /\ home' = [home EXCEPT ![turn[t].of] = Write(@, f, "edited")]
  /\ UNCHANGED turn

EndTurn(t) ==
  /\ InTask(t, "running")
  /\ turn' = [turn EXCEPT ![t] = None]
  /\ UNCHANGED home

-----------------------------------------------------------------------------
Next ==
  \/ \E a \in Agents : BeginStart(a) \/ StopAgent(a) \/ RemoveHome(a)
  \/ StartStep \/ DaemonExit \/ ScanWorkspaces
  \/ \E a \in Agents, includeHidden \in BOOLEAN : ListWorkspace(a, includeHidden)
  \/ \E a \in Agents, n \in Names : ReadWorkspace(a, n)
  \/ \E t \in Turns, a \in Agents, attachments \in SUBSET Attachments :
       Deliver(t, a, attachments)
  \/ \E t \in Turns :
       BeginDownload(t) \/ FillAttachment(t) \/ EndDownload(t) \/ BeginTurn(t) \/ EndTurn(t)
  \/ \E t \in Turns, f \in Attachments : OpenAttachment(t, f) \/ FailAttachment(t, f)
  \/ \E t \in Turns, f \in Files : Edit(t, f)

Spec == Init /\ [][Next]_vars

-----------------------------------------------------------------------------
(* Without its directory a home has no files.                              *)
TypeOK ==
  /\ home \in [Agents -> Home]
  /\ legacy \in [Agents -> [memory : BOOLEAN, notes : SUBSET Names]]
  /\ installed \subseteq Agents /\ spoilt \subseteq Agents
  /\ start \in Start \cup {None}
  /\ turn \in [Turns -> Turn \cup {None}]
  /\ \A a \in Agents : ~home[a].dir => home[a] = Nothing

(* An installed agent has its memory, and the notes of the earlier daemon, *)
(* unless its home was deleted or a start was cut short (by a failure or   *)
(* the end of the daemon): such a start may leave part of a memory, which  *)
(* every later start takes for the whole, and the notes behind.            *)
InstalledHasHome ==
  \A a \in installed \ spoilt :
    /\ home[a].dir /\ home[a].memory \notin {Absent, Torn}
    /\ legacy[a].memory => legacy[a].notes \subseteq Present(home[a])

(* A start does not touch a file that was there when it began, be it the   *)
(* agent's, an attachment or a migrated one, although turns of a process   *)
(* installed before go on writing while it runs.                           *)
StartKeepsFiles ==
  [][start # None /\ start' # start =>
       \A f \in start.kept : Read(home'[start.agent], f) = Read(home[start.agent], f)]_vars

=============================================================================
