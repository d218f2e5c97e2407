-------------------------- MODULE AgentHomeProofs --------------------------
(***************************************************************************)
(* Proofs about AgentHome, for any agents, files, attachments and numbers  *)
(* of deliveries in flight.                                                *)
(***************************************************************************)
EXTENDS AgentHome, TLAPS

(* How far a start has come: s the start, h the home it works on, l the    *)
(* home of the earlier daemon.  What was there when it began is still      *)
(* there, and is not the file it has chosen; each note to migrate is there *)
(* or still to come.                                                       *)
StartFits(s, h, l) ==
  /\ h.dir
  /\ s.kept \subseteq Present(h) /\ "MEMORY.md" \notin s.kept /\ s.file \notin s.kept
  /\ s.step = "note" => s.file \in Names
  /\ s.step = "open" => s.file \in Files
  /\ s.step \in {"memory", "notes", "note"} => l.memory
  /\ s.step = "open" /\ s.file # "MEMORY.md" => l.memory
  /\ s.step = "initial" => ~l.memory
  /\ h.memory = Torn => s.step = "open" /\ s.file = "MEMORY.md"
  /\ l.memory => l.notes \subseteq
       Present(h) \cup s.todo \cup (IF s.step = "note" THEN {s.file} ELSE {})
  /\ l.memory /\ s.step # "memory" => h.memory # Absent
  /\ l.memory /\ s.step = "ready" => s.todo = {}

StartOK == start # None => StartFits(start, home[start.agent], legacy[start.agent])

(* A home with a memory has the whole of it, and the notes.                *)
Whole(h, l) ==
  h.memory # Absent =>
    h.memory # Torn /\ (l.memory => l.notes \subseteq Present(h))

InStart(a) == start # None /\ start.agent = a

HomesOK ==
  \A a \in Agents \ spoilt :
    /\ ~InStart(a) => Whole(home[a], legacy[a])
    /\ a \in installed => home[a].memory # Absent /\ ~InStart(a)

(* The turn of a delivery d runs in a home h with a memory, unless it is   *)
(* one of those that have less; a file it is writing, and that was not     *)
(* removed, is there.  s is the start at work.                             *)
TurnFits(d, h, s, less) ==
  /\ d.of \notin less => h.memory # Absent \/ (s # None /\ s.agent = d.of)
  /\ d.writing # None /\ ~d.unlinked => h.notes[FileName[d.writing]] # Absent

TurnsOK ==
  \A t \in Turns : turn[t] # None => TurnFits(turn[t], home[turn[t].of], start, spoilt)

IInv == TypeOK /\ StartOK /\ HomesOK /\ TurnsOK

-----------------------------------------------------------------------------
(* Files.                                                                  *)

LEMMA PresentIs ==
  ASSUME NEW h \in Home
  PROVE  /\ "MEMORY.md" \in Present(h) <=> h.memory # Absent
         /\ \A n \in Names : n \in Present(h) <=> h.notes[n] # Absent
BY AgentHomeAssumption DEF Present, Files, Read

LEMMA DirKeepsFiles ==
  ASSUME NEW h \in Home
  PROVE  LET w == [h EXCEPT !.dir = TRUE]
         IN /\ w \in Home /\ w.dir /\ w.memory = h.memory /\ w.notes = h.notes
            /\ Present(w) = Present(h)
<1> DEFINE w == [h EXCEPT !.dir = TRUE]
<1>1. w \in Home /\ w.dir /\ w.memory = h.memory /\ w.notes = h.notes
  BY DEF Home
<1> HIDE DEF w
<1>2. Present(w) = Present(h)
  BY <1>1 DEF Present, Read
<1> QED BY <1>1, <1>2 DEF w

LEMMA WriteWrites ==
  ASSUME NEW h \in Home, NEW f \in Files, NEW c \in Content, c # Absent,
         f = "MEMORY.md" => c \notin Attachments
  PROVE  LET w == Write(h, f, c)
         IN /\ w \in Home /\ w.dir = h.dir
            /\ w.memory = IF f = "MEMORY.md" THEN c ELSE h.memory
            /\ \A n \in Names : w.notes[n] = IF f = n THEN c ELSE h.notes[n]
            /\ \A g \in Files : g # f => Read(w, g) = Read(h, g)
            /\ Present(w) = Present(h) \cup {f}
<1> DEFINE w == Write(h, f, c)
<1>1. CASE f = "MEMORY.md"
  <2>1. w = [h EXCEPT !.memory = c]
    BY <1>1 DEF Write
  <2>2. w \in Home /\ w.dir = h.dir /\ w.memory = c /\ w.notes = h.notes
    BY <1>1, <2>1 DEF Home
  <2> HIDE DEF w
  <2>3. \A n \in Names : w.notes[n] = IF f = n THEN c ELSE h.notes[n]
    BY <1>1, <2>2, AgentHomeAssumption
  <2>4. \A g \in Files : g # f => Read(w, g) = Read(h, g)
    BY <1>1, <2>2 DEF Read
  <2>5. Read(w, f) = c
    BY <1>1, <2>2 DEF Read
  <2>6. Present(w) = Present(h) \cup {f}
    BY <2>4, <2>5 DEF Present
  <2> QED BY <1>1, <2>2, <2>3, <2>4, <2>6 DEF w
<1>2. CASE f # "MEMORY.md"
  <2>1. w = [h EXCEPT !.notes[f] = c] /\ f \in Names
    BY <1>2 DEF Write, Files
  <2>2. /\ w \in Home /\ w.dir = h.dir /\ w.memory = h.memory
        /\ w.notes = [h.notes EXCEPT ![f] = c]
    BY <2>1 DEF Home
  <2>3. h.notes \in [Names -> Content]
    BY DEF Home
  <2> HIDE DEF w
  <2>4. \A n \in Names : w.notes[n] = IF f = n THEN c ELSE h.notes[n]
    BY <2>1, <2>2, <2>3
  <2>5. \A g \in Files : g # f => Read(w, g) = Read(h, g)
    BY <2>2, <2>4, AgentHomeAssumption DEF Read, Files
  <2>6. Read(w, f) = c
    BY <1>2, <2>1, <2>4 DEF Read
  <2>7. Present(w) = Present(h) \cup {f}
    BY <2>5, <2>6 DEF Present
  <2> QED BY <1>2, <2>2, <2>4, <2>5, <2>7 DEF w
<1> QED BY <1>1, <1>2

(* A start does not mind that files are added or edited beside it.         *)
LEMMA StartStillFits ==
  ASSUME NEW s, NEW h, NEW l, StartFits(s, h, l), NEW w, w.dir,
         Present(h) \subseteq Present(w), w.memory = h.memory \/ w.memory \notin {Absent, Torn}
  PROVE  StartFits(s, w, l)
BY DEF StartFits

LEMMA StillWhole ==
  ASSUME NEW h, NEW l, Whole(h, l), NEW w, Present(h) \subseteq Present(w),
         w.memory = h.memory \/ (h.memory # Absent /\ w.memory \notin {Absent, Torn})
  PROVE  Whole(w, l)
BY DEF Whole

-----------------------------------------------------------------------------
(* Writes beside a start: the agent's and those of attachments.            *)

HomesTyped ==
  /\ home \in [Agents -> Home]
  /\ \A a \in Agents : ~home[a].dir => home[a] = Nothing

LEMMA WriteBeside ==
  ASSUME IInv, NEW a \in Agents, NEW f \in Files, NEW c \in Content, c # Absent,
         home[a].dir,
         f = "MEMORY.md" =>
           c = "edited" /\ (a \notin spoilt => home[a].memory # Absent \/ InStart(a)),
         home' = [home EXCEPT ![a] = Write(home[a], f, c)],
         UNCHANGED <<legacy, installed, start, spoilt>>
  PROVE  /\ HomesTyped' /\ StartOK' /\ HomesOK'
         /\ \A b \in Agents : Present(home[b]) \subseteq Present(home'[b])
<1> DEFINE w == Write(home[a], f, c)
<1>1. home \in [Agents -> Home] /\ home[a] \in Home
  BY DEF IInv, TypeOK
<1>2. f = "MEMORY.md" => c \notin Attachments /\ c \notin {Absent, Torn}
  BY AgentHomeAssumption
<1>3. /\ w \in Home /\ w.dir /\ Present(home[a]) \subseteq Present(w)
      /\ w.memory = IF f = "MEMORY.md" THEN c ELSE home[a].memory
  BY <1>1, <1>2, WriteWrites
<1>4. home'[a] = w /\ \A b \in Agents : b # a => home'[b] = home[b]
  BY <1>1
<1>5. home' \in [Agents -> Home]
  BY <1>1, <1>3
<1> HIDE DEF w
<1>6. HomesTyped'
  BY <1>3, <1>4, <1>5 DEF HomesTyped, IInv, TypeOK
<1>7. \A b \in Agents : Present(home[b]) \subseteq Present(home'[b])
  BY <1>3, <1>4
<1>8. StartOK'
  <2> SUFFICES ASSUME start # None
               PROVE  StartFits(start, home'[start.agent], legacy[start.agent])
    BY DEF StartOK
  <2>1. start.agent \in Agents /\ StartFits(start, home[start.agent], legacy[start.agent])
    BY DEF IInv, TypeOK, StartOK, Start
  <2>2. CASE start.agent = a
    BY <1>2, <1>3, <1>4, <2>1, <2>2, StartStillFits
  <2>3. CASE start.agent # a
    BY <1>4, <2>1, <2>3
  <2> QED BY <2>2, <2>3
<1>9. HomesOK'
  <2> SUFFICES ASSUME NEW b \in Agents \ spoilt
               PROVE  /\ ~InStart(b) => Whole(home'[b], legacy[b])
                      /\ b \in installed => home'[b].memory # Absent /\ ~InStart(b)
    BY DEF HomesOK, InStart
  <2>1. /\ ~InStart(b) => Whole(home[b], legacy[b])
        /\ b \in installed => home[b].memory # Absent /\ ~InStart(b)
    BY DEF IInv, HomesOK
  <2>2. CASE b = a
    <3>1. ~InStart(b) => Whole(w, legacy[b])
      BY <1>2, <1>3, <2>1, <2>2, StillWhole
    <3>2. b \in installed => w.memory # Absent
      BY <1>2, <1>3, <2>1, <2>2
    <3> QED BY <1>4, <2>1, <2>2, <3>1, <3>2
  <2>3. CASE b # a
    BY <1>4, <2>1, <2>3
  <2> QED BY <2>2, <2>3
<1> QED BY <1>6, <1>7, <1>8, <1>9

(* A turn fits as long as files are only added.                            *)
LEMMA TurnStillFits ==
  ASSUME NEW d \in Turn, NEW s, NEW less, NEW h \in Home, TurnFits(d, h, s, less),
         NEW w \in Home, Present(h) \subseteq Present(w)
  PROVE  TurnFits(d, w, s, less)
<1>1. d.writing # None => FileName[d.writing] \in Names
  BY AgentHomeAssumption DEF Turn
<1>2. /\ h.memory # Absent => w.memory # Absent
      /\ \A n \in Names : h.notes[n] # Absent => w.notes[n] # Absent
  BY PresentIs
<1> QED BY <1>1, <1>2 DEF TurnFits

LEMMA TurnsAre ==
  ASSUME IInv, NEW t \in Turns, turn[t] # None
  PROVE  /\ turn[t] \in Turn /\ turn[t].of \in Agents /\ home[turn[t].of] \in Home
         /\ TurnFits(turn[t], home[turn[t].of], start, spoilt)
BY DEF IInv, TypeOK, TurnsOK, Turn

(* A step of a task makes e of its delivery, and adds files if any.        *)
LEMMA TaskStepIsOK ==
  ASSUME IInv, NEW t \in Turns, NEW e \in Turn \cup {None},
         turn' = [turn EXCEPT ![t] = e],
         UNCHANGED <<legacy, installed, start, spoilt>>,
         HomesTyped', StartOK', HomesOK',
         \A b \in Agents : Present(home[b]) \subseteq Present(home'[b]),
         e # None => TurnFits(e, home'[e.of], start, spoilt)
  PROVE  IInv'
<1>1. TypeOK'
  BY DEF IInv, TypeOK, HomesTyped
<1>2. TurnsOK'
  <2> SUFFICES ASSUME NEW u \in Turns, turn'[u] # None
               PROVE  TurnFits(turn'[u], home'[turn'[u].of], start, spoilt)
    BY DEF TurnsOK
  <2>1. CASE u = t
    <3>1. turn'[u] = e
      BY <2>1 DEF IInv, TypeOK
    <3> QED BY <3>1
  <2>2. CASE u # t
    <3>1. turn'[u] = turn[u]
      BY <2>2 DEF IInv, TypeOK
    <3>2. home'[turn[u].of] \in Home
      BY <3>1, TurnsAre DEF HomesTyped
    <3> QED BY <3>1, <3>2, TurnsAre, TurnStillFits
  <2> QED BY <2>1, <2>2
<1> QED BY <1>1, <1>2 DEF IInv

(* The same for a step that touches no file.                               *)
LEMMA QuietTaskStepIsOK ==
  ASSUME IInv, NEW t \in Turns, NEW e \in Turn \cup {None},
         turn' = [turn EXCEPT ![t] = e],
         UNCHANGED <<home, legacy, installed, start, spoilt>>,
         e # None => TurnFits(e, home[e.of], start, spoilt)
  PROVE  IInv'
<1>1. HomesTyped'
  BY DEF HomesTyped, IInv, TypeOK
<1>2. StartOK'
  BY DEF StartOK, IInv
<1>3. HomesOK'
  BY DEF HomesOK, IInv, InStart
<1>4. home' = home
  OBVIOUS
<1> QED BY <1>1, <1>2, <1>3, <1>4, TaskStepIsOK

(* A directory is made, or was there.                                      *)
LEMMA DirMade ==
  ASSUME IInv, NEW a \in Agents, home' = [home EXCEPT ![a] = [home[a] EXCEPT !.dir = TRUE]]
  PROVE  /\ HomesTyped' /\ home'[a].dir
         /\ \A b \in Agents : /\ home[b].dir => home'[b].dir
                             /\ home'[b].memory = home[b].memory
                             /\ Present(home'[b]) = Present(home[b])
<1> DEFINE w == [home[a] EXCEPT !.dir = TRUE]
<1>1. home \in [Agents -> Home] /\ home[a] \in Home
  BY DEF IInv, TypeOK
<1>2. /\ w \in Home /\ w.dir /\ w.memory = home[a].memory
      /\ Present(w) = Present(home[a])
  BY <1>1, DirKeepsFiles
<1>3. home'[a] = w /\ \A b \in Agents : b # a => home'[b] = home[b]
  BY <1>1
<1>4. home' \in [Agents -> Home]
  BY <1>1, <1>2
<1> HIDE DEF w
<1>5. HomesTyped'
  BY <1>2, <1>3, <1>4 DEF HomesTyped, IInv, TypeOK
<1> QED BY <1>2, <1>3, <1>5

LEMMA DirBeside ==
  ASSUME IInv, NEW a \in Agents, home' = [home EXCEPT ![a] = [home[a] EXCEPT !.dir = TRUE]],
         UNCHANGED <<legacy, installed, start, spoilt>>
  PROVE  /\ HomesTyped' /\ StartOK' /\ HomesOK'
         /\ \A b \in Agents : Present(home[b]) \subseteq Present(home'[b])
<1>1. StartOK'
  <2> SUFFICES ASSUME start # None
               PROVE  StartFits(start, home'[start.agent], legacy[start.agent])
    BY DEF StartOK
  <2>1. start.agent \in Agents /\ StartFits(start, home[start.agent], legacy[start.agent])
    BY DEF IInv, TypeOK, StartOK, Start
  <2>2. home'[start.agent].dir
    BY <2>1, DirMade DEF StartFits
  <2> QED BY <2>1, <2>2, DirMade, StartStillFits
<1>2. HomesOK'
  BY DirMade DEF HomesOK, IInv, InStart, Whole
<1> QED BY <1>1, <1>2, DirMade

-----------------------------------------------------------------------------
(* The task of a delivery.                                                 *)

LEMMA DeliverIsOK ==
  ASSUME IInv, NEW t \in Turns, NEW a \in Agents, NEW attachments \in SUBSET Attachments,
         Deliver(t, a, attachments)
  PROVE  IInv'
<1> DEFINE e == [of |-> a, stage |-> "spawned", todo |-> attachments, writing |-> None,
                 unlinked |-> FALSE]
<1>1. e \in Turn
  BY DEF Turn
<1>2. turn' = [turn EXCEPT ![t] = e] /\ UNCHANGED <<home, legacy, installed, start, spoilt>>
  BY DEF Deliver
<1>3. TurnFits(e, home[a], start, spoilt)
  BY DEF Deliver, TurnFits, IInv, HomesOK
<1>4. e.of = a
  OBVIOUS
<1> HIDE DEF e
<1> QED BY <1>1, <1>2, <1>3, <1>4, QuietTaskStepIsOK

LEMMA BeginDownloadIsOK ==
  ASSUME IInv, NEW t \in Turns, BeginDownload(t)
  PROVE  IInv'
<1> DEFINE d == turn[t]
<1>1. d # None /\ UNCHANGED <<legacy, installed, start, spoilt>>
  BY DEF BeginDownload, InTask
<1>2. d \in Turn /\ d.of \in Agents /\ TurnFits(d, home[d.of], start, spoilt)
  BY <1>1, TurnsAre
<1>3. CASE /\ home' = [home EXCEPT ![d.of].dir = TRUE]
           /\ turn' = [turn EXCEPT ![t].stage = "downloading"]
  <2> DEFINE e == [d EXCEPT !.stage = "downloading"]
  <2>1. home' = [home EXCEPT ![d.of] = [home[d.of] EXCEPT !.dir = TRUE]]
    BY <1>3
  <2>2. turn' = [turn EXCEPT ![t] = e]
    BY <1>3
  <2>3. /\ HomesTyped' /\ StartOK' /\ HomesOK'
        /\ \A b \in Agents : Present(home[b]) \subseteq Present(home'[b])
    BY <1>1, <1>2, <2>1, DirBeside
  <2>4. e \in Turn /\ e.of = d.of /\ e.writing = d.writing /\ e.unlinked = d.unlinked
    BY <1>2 DEF Turn
  <2> HIDE DEF e
  <2>5. TurnFits(d, home'[d.of], start, spoilt)
    BY <1>1, <1>2, <2>3, TurnsAre, TurnStillFits DEF HomesTyped
  <2>6. TurnFits(e, home'[e.of], start, spoilt)
    BY <2>4, <2>5 DEF TurnFits
  <2> QED BY <1>1, <2>2, <2>3, <2>4, <2>6, TaskStepIsOK
<1>4. CASE /\ turn' = [turn EXCEPT ![t].stage = "waiting", ![t].todo = {}]
           /\ UNCHANGED home
  <2> DEFINE e == [[d EXCEPT !.stage = "waiting"] EXCEPT !.todo = {}]
  <2>1. turn' = [turn EXCEPT ![t] = e]
    BY <1>4 DEF IInv, TypeOK
  <2>2. e \in Turn /\ e.of = d.of /\ e.writing = d.writing /\ e.unlinked = d.unlinked
    BY <1>2 DEF Turn
  <2> HIDE DEF e
  <2>3. TurnFits(e, home[e.of], start, spoilt)
    BY <1>2, <2>2 DEF TurnFits
  <2> QED BY <1>1, <1>4, <2>1, <2>2, <2>3, QuietTaskStepIsOK
<1> QED BY <1>3, <1>4 DEF BeginDownload

LEMMA OpenAttachmentIsOK ==
  ASSUME IInv, NEW t \in Turns, NEW f \in Attachments, OpenAttachment(t, f)
  PROVE  IInv'
<1> DEFINE d == turn[t]
           n == FileName[f]
           e == [[d EXCEPT !.writing = f] EXCEPT !.unlinked = FALSE]
<1>1. /\ d # None /\ home[d.of].dir
      /\ home' = [home EXCEPT ![d.of] = Write(home[d.of], n, Torn)]
      /\ turn' = [turn EXCEPT ![t].writing = f, ![t].unlinked = FALSE]
      /\ UNCHANGED <<legacy, installed, start, spoilt>>
  BY DEF OpenAttachment, InTask
<1>2. /\ d \in Turn /\ d.of \in Agents /\ home[d.of] \in Home
      /\ TurnFits(d, home[d.of], start, spoilt)
  BY <1>1, TurnsAre
<1>3. n \in Names /\ n \in Files /\ n # "MEMORY.md" /\ Torn \in Content /\ Torn # Absent
  BY AgentHomeAssumption DEF Files, Content
<1>4. turn' = [turn EXCEPT ![t] = e]
  BY <1>1 DEF IInv, TypeOK
<1>5. /\ HomesTyped' /\ StartOK' /\ HomesOK'
      /\ \A b \in Agents : Present(home[b]) \subseteq Present(home'[b])
  BY <1>1, <1>2, <1>3, WriteBeside
<1>6. e \in Turn /\ e.of = d.of /\ e.writing = f
  BY <1>2 DEF Turn
<1>7. home'[d.of].notes[n] # Absent
  BY <1>1, <1>2, <1>3, WriteWrites DEF IInv, TypeOK
<1>8. TurnFits(d, home'[d.of], start, spoilt)
  BY <1>1, <1>2, <1>5, TurnStillFits DEF HomesTyped
<1> HIDE DEF e
<1>9. TurnFits(e, home'[e.of], start, spoilt)
  BY <1>6, <1>7, <1>8 DEF TurnFits
<1> QED BY <1>1, <1>4, <1>5, <1>6, <1>9, TaskStepIsOK

(* A delivery that has closed its file still fits.                         *)
LEMMA ClosedFits ==
  ASSUME NEW d \in Turn, NEW f, NEW h, NEW s, NEW less, TurnFits(d, h, s, less)
  PROVE  LET e == [[[d EXCEPT !.writing = None] EXCEPT !.unlinked = FALSE]
                     EXCEPT !.todo = d.todo \ {f}]
         IN e \in Turn /\ e.of = d.of /\ TurnFits(e, h, s, less)
<1> DEFINE e == [[[d EXCEPT !.writing = None] EXCEPT !.unlinked = FALSE]
                   EXCEPT !.todo = d.todo \ {f}]
<1>1. e \in Turn /\ e.of = d.of /\ e.writing = None
  BY DEF Turn
<1> HIDE DEF e
<1>2. TurnFits(e, h, s, less)
  BY <1>1 DEF TurnFits
<1> QED BY <1>1, <1>2 DEF e

LEMMA FillAttachmentIsOK ==
  ASSUME IInv, NEW t \in Turns, FillAttachment(t)
  PROVE  IInv'
<1> DEFINE d == turn[t]
           f == d.writing
           n == FileName[f]
           e == [[[d EXCEPT !.writing = None] EXCEPT !.unlinked = FALSE]
                   EXCEPT !.todo = d.todo \ {f}]
<1>1. /\ d # None /\ f # None
      /\ turn' = [turn EXCEPT ![t].writing = None, ![t].unlinked = FALSE,
                              ![t].todo = @ \ {f}]
      /\ UNCHANGED <<legacy, installed, start, spoilt>>
  BY DEF FillAttachment, InTask
<1>2. /\ d \in Turn /\ d.of \in Agents /\ home[d.of] \in Home
      /\ TurnFits(d, home[d.of], start, spoilt)
  BY <1>1, TurnsAre
<1>3. turn' = [turn EXCEPT ![t] = e]
  BY <1>1 DEF IInv, TypeOK
<1>4. f \in Attachments
  BY <1>1, <1>2 DEF Turn
<1>5. CASE d.unlinked /\ UNCHANGED home
  <2>1. e \in Turn /\ TurnFits(e, home[e.of], start, spoilt)
    BY <1>2, ClosedFits
  <2> HIDE DEF e
  <2> QED BY <1>1, <1>3, <1>5, <2>1, QuietTaskStepIsOK
<1>6. CASE ~d.unlinked
  <2>1. PICK c \in {f, Torn} : home' = [home EXCEPT ![d.of] = Write(home[d.of], n, c)]
    BY <1>6 DEF FillAttachment, Written
  <2>2. /\ n \in Names /\ n \in Files /\ n # "MEMORY.md"
        /\ c \in Content /\ c # Absent
    BY <1>4, AgentHomeAssumption DEF Files, Content
  <2>3. home[d.of].notes[n] # Absent
    BY <1>1, <1>2, <1>6 DEF TurnFits
  <2>4. home[d.of].dir
    BY <1>2, <2>2, <2>3 DEF IInv, TypeOK, Nothing
  <2>5. /\ HomesTyped' /\ StartOK' /\ HomesOK'
        /\ \A b \in Agents : Present(home[b]) \subseteq Present(home'[b])
    BY <1>1, <1>2, <2>1, <2>2, <2>4, WriteBeside
  <2>6. TurnFits(d, home'[d.of], start, spoilt)
    BY <1>2, <2>5, TurnStillFits DEF HomesTyped
  <2>7. e \in Turn /\ e.of = d.of /\ TurnFits(e, home'[d.of], start, spoilt)
    BY <1>2, <2>6, ClosedFits
  <2> HIDE DEF e
  <2> QED BY <1>1, <1>3, <2>5, <2>7, TaskStepIsOK
<1> QED BY <1>5, <1>6 DEF FillAttachment

LEMMA FailAttachmentIsOK ==
  ASSUME IInv, NEW t \in Turns, NEW f \in Attachments, FailAttachment(t, f)
  PROVE  IInv'
<1> DEFINE d == turn[t]
           e == [[[d EXCEPT !.writing = None] EXCEPT !.unlinked = FALSE]
                   EXCEPT !.todo = d.todo \ {f}]
<1>1. /\ d # None
      /\ turn' = [turn EXCEPT ![t].writing = None, ![t].unlinked = FALSE,
                              ![t].todo = @ \ {f}]
      /\ UNCHANGED <<home, legacy, installed, start, spoilt>>
  BY DEF FailAttachment, InTask
<1>2. d \in Turn /\ TurnFits(d, home[d.of], start, spoilt)
  BY <1>1, TurnsAre
<1>3. turn' = [turn EXCEPT ![t] = e]
  BY <1>1 DEF IInv, TypeOK
<1>4. e \in Turn /\ TurnFits(e, home[e.of], start, spoilt)
  BY <1>2, ClosedFits
<1> HIDE DEF e
<1> QED BY <1>1, <1>3, <1>4, QuietTaskStepIsOK

LEMMA StageStepIsOK ==
  ASSUME IInv, NEW t \in Turns, EndDownload(t) \/ BeginTurn(t) \/ EndTurn(t)
  PROVE  IInv'
<1> DEFINE d == turn[t]
<1>1. d # None /\ UNCHANGED <<home, legacy, installed, start, spoilt>>
  BY DEF EndDownload, BeginTurn, EndTurn, InTask
<1>2. d \in Turn /\ TurnFits(d, home[d.of], start, spoilt)
  BY <1>1, TurnsAre
<1>3. PICK e \in {[d EXCEPT !.stage = "waiting"], [d EXCEPT !.stage = "running"], None} :
        turn' = [turn EXCEPT ![t] = e]
  BY DEF EndDownload, BeginTurn, EndTurn
<1>4. e # None => e \in Turn /\ e.of = d.of /\ e.writing = d.writing /\ e.unlinked = d.unlinked
  BY <1>2 DEF Turn
<1>5. e # None => TurnFits(e, home[e.of], start, spoilt)
  BY <1>2, <1>4 DEF TurnFits
<1> QED BY <1>1, <1>3, <1>4, <1>5, QuietTaskStepIsOK

LEMMA EditIsOK ==
  ASSUME IInv, NEW t \in Turns, NEW f \in Files, Edit(t, f)
  PROVE  IInv'
<1> DEFINE d == turn[t]
<1>1. /\ d # None /\ home[d.of].dir
      /\ home' = [home EXCEPT ![d.of] = Write(home[d.of], f, "edited")]
      /\ turn' = turn /\ UNCHANGED <<legacy, installed, start, spoilt>>
  BY DEF Edit, InTask
<1>2. /\ d \in Turn /\ d.of \in Agents /\ home[d.of] \in Home
      /\ TurnFits(d, home[d.of], start, spoilt)
  BY <1>1, TurnsAre
<1>3. "edited" \in Content /\ "edited" # Absent
  BY AgentHomeAssumption DEF Content
<1>4. /\ HomesTyped' /\ StartOK' /\ HomesOK'
      /\ \A b \in Agents : Present(home[b]) \subseteq Present(home'[b])
  BY <1>1, <1>2, <1>3, WriteBeside DEF TurnFits, InStart
<1>5. TurnFits(d, home'[d.of], start, spoilt)
  BY <1>2, <1>4, TurnStillFits DEF HomesTyped
<1>6. turn' = [turn EXCEPT ![t] = d]
  BY <1>1 DEF IInv, TypeOK
<1> QED BY <1>1, <1>2, <1>4, <1>5, <1>6, TaskStepIsOK

-----------------------------------------------------------------------------
(* The start at work.                                                      *)

(* The turns do not mind that files are added, or how far the start of an  *)
(* agent is.                                                               *)
LEMMA TurnsOKBeside ==
  ASSUME IInv, HomesTyped', UNCHANGED turn, spoilt \subseteq spoilt',
         \A b \in Agents : Present(home[b]) \subseteq Present(home'[b]),
         \A b \in Agents : InStart(b) => b \in spoilt' \/ InStart(b)'
  PROVE  TurnsOK'
<1> SUFFICES ASSUME NEW t \in Turns, turn[t] # None
             PROVE  TurnFits(turn[t], home'[turn[t].of], start', spoilt')
  BY DEF TurnsOK
<1>1. TurnFits(turn[t], home'[turn[t].of], start, spoilt)
  BY TurnsAre, TurnStillFits DEF HomesTyped
<1> QED BY <1>1, TurnsAre DEF TurnFits, InStart

(* A step of a start makes s of it, and w of the home.                     *)
LEMMA StartWorksOn ==
  ASSUME IInv, start # None, NEW s \in Start, s.agent = start.agent, start' = s,
         NEW w \in Home, Present(home[start.agent]) \subseteq Present(w),
         home' = [home EXCEPT ![start.agent] = w],
         StartFits(s, w, legacy[start.agent]),
         UNCHANGED <<legacy, installed, spoilt, turn>>
  PROVE  IInv'
<1>1. start.agent \in Agents /\ home \in [Agents -> Home] /\ w.dir /\ s # None
  BY AgentHomeAssumption DEF IInv, TypeOK, Start, StartFits
<1>2. home'[start.agent] = w /\ \A b \in Agents : b # start.agent => home'[b] = home[b]
  BY <1>1
<1>3. HomesTyped'
  BY <1>1, <1>2 DEF HomesTyped, IInv, TypeOK
<1>4. TypeOK'
  BY <1>3 DEF HomesTyped, IInv, TypeOK
<1>5. StartOK'
  BY <1>2 DEF StartOK
<1>6. \A b \in Agents : InStart(b)' <=> InStart(b)
  BY <1>1 DEF InStart
<1>7. HomesOK'
  BY <1>2, <1>6 DEF HomesOK, IInv, InStart
<1>8. TurnsOK'
  BY <1>2, <1>3, <1>6, TurnsOKBeside
<1> QED BY <1>4, <1>5, <1>7, <1>8 DEF IInv

LEMMA StartIs ==
  ASSUME IInv, start # None
  PROVE  /\ start \in Start /\ start.agent \in Agents /\ home[start.agent] \in Home
         /\ start.kept \subseteq Files /\ home[start.agent].memory \in Content \ Attachments
         /\ StartFits(start, home[start.agent], legacy[start.agent])
BY DEF IInv, TypeOK, StartOK, Start, Home

(* A file is opened that the start has chosen.                             *)
LEMMA OpenIsOK ==
  ASSUME IInv, start # None, OpenLegacyMemory \/ OpenInitialMemory \/ OpenNote,
         UNCHANGED <<legacy, turn>>
  PROVE  IInv' /\ \A f \in start.kept : Read(home'[start.agent], f) = Read(home[start.agent], f)
<1> DEFINE h == home[start.agent]
           l == legacy[start.agent]
<1>1. PICK f \in Files :
        /\ Open(f)
        /\ \/ start.step = "memory" /\ f = "MEMORY.md"
           \/ start.step = "initial" /\ f = "MEMORY.md"
           \/ start.step = "note" /\ f = start.file /\ f \in Names
  BY StartIs DEF OpenLegacyMemory, OpenInitialMemory, OpenNote, StartFits, Files
<1> DEFINE w == Write(h, f, Torn)
           s == [[start EXCEPT !.file = f] EXCEPT !.step = "open"]
<1>2. Torn \in Content /\ Torn \notin Attachments /\ Torn # Absent /\ "MEMORY.md" \notin Names
  BY AgentHomeAssumption DEF Content
<1>3. /\ w \in Home /\ w.dir = h.dir /\ Present(w) = Present(h) \cup {f}
      /\ w.memory = IF f = "MEMORY.md" THEN Torn ELSE h.memory
      /\ \A g \in Files : g # f => Read(w, g) = Read(h, g)
  BY <1>2, StartIs, WriteWrites
<1>4. /\ s \in Start /\ s.agent = start.agent /\ s.kept = start.kept
      /\ s.todo = start.todo /\ s.file = f /\ s.step = "open"
  BY StartIs DEF Start
<1>5. home' = [home EXCEPT ![start.agent] = w] /\ start' = s /\ UNCHANGED <<installed, spoilt>>
  BY <1>1, StartIs DEF Open, Start
<1> HIDE DEF w, s
<1>6. StartFits(s, w, l)
  BY <1>1, <1>2, <1>3, <1>4, StartIs DEF StartFits
<1>7. f \notin start.kept
  BY <1>1, StartIs DEF StartFits
<1>8. \A g \in start.kept : Read(home'[start.agent], g) = Read(home[start.agent], g)
  BY <1>3, <1>5, <1>7, StartIs DEF IInv, TypeOK
<1>9. IInv'
  BY <1>3, <1>4, <1>5, <1>6, StartWorksOn
<1> QED BY <1>8, <1>9

LEMMA FillIsOK ==
  ASSUME IInv, start # None, Fill, UNCHANGED <<legacy, turn>>
  PROVE  IInv' /\ \A f \in start.kept : Read(home'[start.agent], f) = Read(home[start.agent], f)
<1> DEFINE h == home[start.agent]
           l == legacy[start.agent]
           f == start.file
           initial == f = "MEMORY.md" /\ ~l.memory
           c == IF initial THEN "initial" ELSE "legacy"
           w == Write(h, f, c)
           s == [[start EXCEPT !.file = None]
                   EXCEPT !.step = IF initial THEN "ready" ELSE "notes"]
<1>1. f \in Files /\ start.step = "open"
  BY StartIs DEF Fill, StartFits
<1>2. c \in Content /\ c \notin Attachments /\ c \notin {Absent, Torn} /\ None \notin Files
  BY AgentHomeAssumption DEF Content
<1>3. home' = [home EXCEPT ![start.agent] = w] /\ start' = s /\ UNCHANGED <<installed, spoilt>>
  BY StartIs DEF Fill, Start
<1> HIDE DEF c
<1>4. /\ w \in Home /\ w.dir = h.dir /\ Present(w) = Present(h) \cup {f}
      /\ w.memory = IF f = "MEMORY.md" THEN c ELSE h.memory
      /\ \A g \in Files : g # f => Read(w, g) = Read(h, g)
  BY <1>1, <1>2, StartIs, WriteWrites
<1>5. /\ s \in Start /\ s.agent = start.agent /\ s.kept = start.kept
      /\ s.todo = start.todo /\ s.file = None
      /\ s.step = IF initial THEN "ready" ELSE "notes"
  BY StartIs DEF Start
<1> HIDE DEF w, s
<1>6. StartFits(s, w, l)
  BY <1>1, <1>2, <1>4, <1>5, StartIs DEF StartFits
<1>7. \A g \in start.kept : Read(home'[start.agent], g) = Read(home[start.agent], g)
  BY <1>3, <1>4, StartIs DEF IInv, TypeOK, StartFits
<1>8. IInv'
  BY <1>3, <1>4, <1>5, <1>6, StartWorksOn
<1> QED BY <1>7, <1>8

(* The choice of the next note, and of the initial memory.                 *)
LEMMA ChoiceIsOK ==
  ASSUME IInv, start # None, UNCHANGED <<home, legacy, installed, spoilt, turn>>,
         NEW s \in Start, s.agent = start.agent, start' = s,
         StartFits(s, home[start.agent], legacy[start.agent])
  PROVE  IInv'
<1>1. home' = [home EXCEPT ![start.agent] = home[start.agent]]
  BY DEF IInv, TypeOK
<1> QED BY <1>1, StartIs, StartWorksOn

LEMMA NextNoteIsOK ==
  ASSUME IInv, start # None, NextNote, UNCHANGED <<legacy, turn>>
  PROVE  IInv'
<1> DEFINE h == home[start.agent]
           l == legacy[start.agent]
<1>1. /\ start.step = "notes" /\ start.todo \subseteq Names
      /\ UNCHANGED <<home, installed, spoilt>>
  BY StartIs DEF NextNote, Start
<1>2. CASE start.todo = {} /\ start' = [start EXCEPT !.step = "ready"]
  <2> DEFINE s == [start EXCEPT !.step = "ready"]
  <2>1. /\ s \in Start /\ s.agent = start.agent /\ s.kept = start.kept
        /\ s.todo = start.todo /\ s.file = start.file /\ s.step = "ready"
    BY StartIs DEF Start
  <2> HIDE DEF s
  <2>2. StartFits(s, h, l)
    BY <1>1, <1>2, <2>1, StartIs DEF StartFits
  <2>3. start' = s
    BY <1>2 DEF s
  <2> QED BY <1>1, <2>1, <2>2, <2>3, ChoiceIsOK
<1>3. ASSUME NEW n \in start.todo, n \in Present(h), start' = [start EXCEPT !.todo = Skipped(@, n)]
      PROVE  IInv'
  <2> DEFINE s == [start EXCEPT !.todo = start.todo \ {n}]
  <2>1. /\ s \in Start /\ s.agent = start.agent /\ s.kept = start.kept
        /\ s.todo = start.todo \ {n} /\ s.file = start.file /\ s.step = start.step
    BY StartIs DEF Start
  <2> HIDE DEF s
  <2>2. StartFits(s, h, l)
    BY <1>1, <1>3, <2>1, StartIs DEF StartFits
  <2>3. start' = s
    BY <1>3 DEF s, Skipped
  <2> QED BY <1>1, <2>1, <2>2, <2>3, ChoiceIsOK
<1>4. ASSUME NEW n \in start.todo, n \notin Present(h),
             start' = [start EXCEPT !.todo = @ \ {n}, !.file = n, !.step = "note"]
      PROVE  IInv'
  <2> DEFINE s == [[[start EXCEPT !.todo = start.todo \ {n}] EXCEPT !.file = n]
                     EXCEPT !.step = "note"]
  <2>1. /\ s \in Start /\ s.agent = start.agent /\ s.kept = start.kept
        /\ s.todo = start.todo \ {n} /\ s.file = n /\ s.step = "note"
    BY <1>1, StartIs DEF Start, Files
  <2>2. start' = s
    BY <1>4, StartIs DEF Start
  <2> HIDE DEF s
  <2>3. n \in Names /\ n \notin start.kept
    BY <1>1, <1>4, StartIs DEF StartFits
  <2>4. StartFits(s, h, l)
    BY <1>1, <1>4, <2>1, <2>3, StartIs DEF StartFits
  <2> QED BY <1>1, <2>1, <2>2, <2>4, ChoiceIsOK
<1> QED BY <1>2, <1>3, <1>4 DEF NextNote

(* What ends a start: it is done, or given up.                             *)
LEMMA FinishStartIsOK ==
  ASSUME IInv, start # None, FinishStart, UNCHANGED <<legacy, turn>>
  PROVE  IInv'
<1> DEFINE h == home[start.agent]
           l == legacy[start.agent]
<1>1. start.step = "ready" /\ UNCHANGED home
  BY DEF FinishStart
<1>2. CASE /\ h.memory # Absent /\ start' = None
           /\ installed' = installed \cup {start.agent} /\ spoilt' = spoilt \ {start.agent}
  <2>1. TypeOK' /\ StartOK'
    BY <1>1, <1>2, StartIs DEF IInv, TypeOK, StartOK
  <2>2. Whole(h, l)
    BY <1>1, StartIs DEF Whole, StartFits
  <2>3. HomesOK'
    BY <1>1, <1>2, <2>2 DEF IInv, HomesOK, InStart
  <2>4. TurnsOK'
    BY <1>1, <1>2 DEF IInv, TurnsOK, TurnFits
  <2> QED BY <2>1, <2>3, <2>4 DEF IInv
<1>3. CASE /\ h.memory = Absent /\ start' = [start EXCEPT !.step = "initial"]
           /\ UNCHANGED <<installed, spoilt>>
  <2> DEFINE s == [start EXCEPT !.step = "initial"]
  <2>1. /\ s \in Start /\ s.agent = start.agent /\ s.kept = start.kept
        /\ s.todo = start.todo /\ s.file = start.file /\ s.step = "initial"
    BY StartIs DEF Start
  <2> HIDE DEF s
  <2>2. StartFits(s, h, l)
    BY <1>1, <1>3, <2>1, StartIs, AgentHomeAssumption DEF StartFits
  <2>3. start' = s
    BY <1>3 DEF s
  <2> QED BY <1>1, <1>3, <2>1, <2>2, <2>3, ChoiceIsOK
<1> QED BY <1>2, <1>3 DEF FinishStart

LEMMA FailStartIsOK ==
  ASSUME IInv, start # None, FailStart, UNCHANGED <<legacy, turn>>
  PROVE  IInv'
<1>1. /\ start' = None /\ spoilt' = spoilt \cup {start.agent} /\ UNCHANGED <<home, installed>>
  BY DEF FailStart
<1>2. TypeOK' /\ StartOK'
  BY <1>1, StartIs DEF IInv, TypeOK, StartOK
<1>3. HomesOK'
  BY <1>1 DEF IInv, HomesOK, InStart
<1>4. TurnsOK'
  BY <1>1 DEF IInv, TurnsOK, TurnFits
<1> QED BY <1>2, <1>3, <1>4 DEF IInv

LEMMA StartStepIsOK ==
  ASSUME IInv, StartStep
  PROVE  IInv' /\ \A f \in start.kept : Read(home'[start.agent], f) = Read(home[start.agent], f)
<1>1. start # None /\ UNCHANGED <<legacy, turn>>
  BY DEF StartStep
<1>2. CASE OpenLegacyMemory \/ OpenInitialMemory \/ OpenNote
  BY <1>1, <1>2, OpenIsOK
<1>3. CASE Fill
  BY <1>1, <1>3, FillIsOK
<1>4. CASE NextNote
  BY <1>1, <1>4, NextNoteIsOK DEF NextNote
<1>5. CASE FinishStart
  BY <1>1, <1>5, FinishStartIsOK DEF FinishStart
<1>6. CASE FailStart
  BY <1>1, <1>6, FailStartIsOK DEF FailStart
<1> QED BY <1>2, <1>3, <1>4, <1>5, <1>6 DEF StartStep

-----------------------------------------------------------------------------
(* The dispatcher: starts begin, agents are stopped, homes are deleted.    *)

LEMMA BeginStartIsOK ==
  ASSUME IInv, NEW a \in Agents, BeginStart(a)
  PROVE  IInv'
<1> DEFINE h == home[a]
           w == home'[a]
<1>1. /\ start = None /\ UNCHANGED <<legacy, spoilt, turn>>
      /\ home' = [home EXCEPT ![a] = [home[a] EXCEPT !.dir = TRUE]]
  BY DEF BeginStart
<1>2. /\ HomesTyped' /\ w.dir
      /\ \A b \in Agents : /\ home'[b].memory = home[b].memory
                          /\ Present(home'[b]) = Present(home[b])
  BY <1>1, DirMade
<1>3. TurnsOK'
  BY <1>1, <1>2, TurnsOKBeside DEF InStart
<1>4. CASE h.memory # Absent /\ installed' = installed \cup {a} /\ UNCHANGED start
  <2>1. TypeOK' /\ StartOK'
    BY <1>1, <1>2, <1>4 DEF HomesTyped, IInv, TypeOK, StartOK
  <2>2. HomesOK'
    BY <1>1, <1>2, <1>4 DEF IInv, HomesOK, InStart, Whole
  <2> QED BY <1>3, <2>1, <2>2 DEF IInv
<1>5. CASE h.memory = Absent /\ start' # None /\ UNCHANGED installed
  <2> DEFINE l == legacy[a]
             s == [agent |-> a, kept |-> Present(h), file |-> None,
                   step |-> IF l.memory THEN "memory" ELSE "ready",
                   todo |-> IF l.memory THEN l.notes ELSE {}]
  <2>1. start' = s
    BY <1>1, <1>5 DEF BeginStart, MemoryThere
  <2>2. /\ Present(h) \subseteq Files /\ None \notin Files /\ l.notes \subseteq Names
        /\ h \in Home /\ "MEMORY.md" \notin Present(h) /\ Absent # Torn
    BY <1>5, PresentIs, AgentHomeAssumption DEF Present, IInv, TypeOK
  <2>3. s \in Start
    BY <2>2 DEF Start
  <2>4. StartFits(s, w, l)
    BY <1>2, <1>5, <2>2 DEF StartFits
  <2>5. s # None /\ s.agent = a
    BY <1>5, <2>1
  <2> HIDE DEF s
  <2>6. TypeOK'
    BY <1>1, <1>2, <1>5, <2>1, <2>3 DEF HomesTyped, IInv, TypeOK
  <2>7. StartOK'
    BY <1>1, <2>1, <2>4, <2>5 DEF StartOK
  <2>8. HomesOK'
    BY <1>1, <1>2, <1>5, <2>1, <2>5 DEF IInv, HomesOK, InStart, Whole
  <2> QED BY <1>3, <2>6, <2>7, <2>8 DEF IInv
<1>6. h.memory = Absent => start' # None
  <2> SUFFICES ASSUME h.memory = Absent
               PROVE  start' # None
    OBVIOUS
  <2> DEFINE s == [agent |-> a, kept |-> Present(h), file |-> None,
                   step |-> IF legacy[a].memory THEN "memory" ELSE "ready",
                   todo |-> IF legacy[a].memory THEN legacy[a].notes ELSE {}]
  <2>1. start' = s
    BY <1>1 DEF BeginStart, MemoryThere
  <2>2. s \in Start
    BY DEF Start, Present, IInv, TypeOK
  <2> QED BY <2>1, <2>2, AgentHomeAssumption
<1> QED BY <1>4, <1>5, <1>6 DEF BeginStart, MemoryThere

LEMMA StopAgentIsOK ==
  ASSUME IInv, NEW a \in Agents, StopAgent(a)
  PROVE  IInv'
<1>1. TypeOK' /\ StartOK'
  BY DEF StopAgent, IInv, TypeOK, StartOK
<1>2. HomesOK'
  BY DEF StopAgent, IInv, HomesOK, InStart
<1>3. TurnsOK'
  BY DEF StopAgent, IInv, TurnsOK
<1> QED BY <1>1, <1>2, <1>3 DEF IInv

LEMMA DaemonExitIsOK ==
  ASSUME IInv, DaemonExit
  PROVE  IInv'
<1>1. TypeOK' /\ StartOK'
  BY StartIs DEF DaemonExit, IInv, TypeOK, StartOK
<1>2. HomesOK'
  BY DEF DaemonExit, IInv, HomesOK, InStart
<1>3. TurnsOK'
  BY DEF DaemonExit, TurnsOK
<1> QED BY <1>1, <1>2, <1>3 DEF IInv

LEMMA RemoveHomeIsOK ==
  ASSUME IInv, NEW a \in Agents, RemoveHome(a)
  PROVE  IInv'
<1>1. /\ start = None /\ UNCHANGED <<legacy, installed, start>>
      /\ spoilt' = IF home' = home THEN spoilt ELSE spoilt \cup {a}
  BY DEF RemoveHome, Told
<1>2. home \in [Agents -> Home] /\ home[a] \in Home
  BY DEF IInv, TypeOK
<1>3. HomesTyped' /\ \A b \in Agents : b # a => home'[b] = home[b]
  <2>1. CASE home[a].dir /\ home' = [home EXCEPT ![a] = Cleared(@)]
    <3>1. Nothing \in Home
      BY AgentHomeAssumption DEF Nothing, Home, Content
    <3>2. home' = [home EXCEPT ![a] = Nothing]
      BY <2>1 DEF Cleared
    <3> QED BY <1>2, <3>1, <3>2 DEF HomesTyped, IInv, TypeOK
  <2>2. ASSUME NEW gone \in SUBSET Present(home[a]), home[a].dir,
               home' = [home EXCEPT ![a] = Without(@, gone)]
        PROVE  HomesTyped' /\ \A b \in Agents : b # a => home'[b] = home[b]
    <3> DEFINE w == Without(home[a], gone)
    <3>1. w \in Home /\ w.dir
      BY <1>2, <2>2, AgentHomeAssumption DEF Without, Home, Content
    <3>2. home' = [home EXCEPT ![a] = w]
      BY <2>2
    <3> HIDE DEF w
    <3> QED BY <1>2, <3>1, <3>2 DEF HomesTyped, IInv, TypeOK
  <2>3. CASE UNCHANGED home
    BY <2>3 DEF HomesTyped, IInv, TypeOK
  <2> QED BY <2>1, <2>2, <2>3 DEF RemoveHome
<1>4. ASSUME NEW t \in Turns, turn'[t] # None
      PROVE  /\ turn'[t] \in Turn
             /\ TurnFits(turn'[t], home'[turn'[t].of], start, spoilt')
  <2> DEFINE d == turn[t]
             u == d.unlinked \/ home'[a].notes[FileName[d.writing]] = Absent
             e == [d EXCEPT !.unlinked = u]
  <2>1. turn'[t] = IF d # None /\ d.of = a /\ d.writing # None THEN e ELSE d
    BY DEF RemoveHome
  <2>2. d # None
    BY <1>4, <2>1
  <2>3. d \in Turn /\ d.of \in Agents /\ TurnFits(d, home[d.of], start, spoilt)
    BY <2>2, TurnsAre
  <2>4. CASE d.of = a /\ d.writing # None
    <3>1. u \in BOOLEAN
      BY <2>3 DEF Turn
    <3> HIDE DEF u
    <3>2. e \in Turn /\ e.of = d.of /\ e.writing = d.writing /\ e.unlinked = u
      BY <2>3, <3>1 DEF Turn
    <3> HIDE DEF e
    <3>3. TurnFits(e, home'[a], start, spoilt')
      BY <1>1, <2>3, <2>4, <3>2 DEF TurnFits, u
    <3> QED BY <2>1, <2>2, <2>4, <3>2, <3>3
  <2>5. CASE d.of = a /\ d.writing = None
    <3>1. turn'[t] = d
      BY <2>1, <2>5
    <3> QED BY <1>1, <2>3, <2>5, <3>1 DEF TurnFits
  <2>6. CASE d.of # a
    <3>1. turn'[t] = d /\ home'[d.of] = home[d.of]
      BY <1>3, <2>1, <2>3, <2>6
    <3> QED BY <1>1, <2>3, <3>1 DEF TurnFits
  <2> QED BY <2>4, <2>5, <2>6
<1>5. turn' \in [Turns -> Turn \cup {None}]
  <2>1. turn' = [t \in Turns |-> turn'[t]]
    BY DEF RemoveHome
  <2> QED BY <1>4, <2>1
<1>6. TypeOK'
  BY <1>1, <1>3, <1>5 DEF HomesTyped, IInv, TypeOK
<1>7. StartOK'
  BY <1>1 DEF StartOK
<1>8. HomesOK'
  BY <1>1, <1>3 DEF IInv, HomesOK, InStart
<1>9. TurnsOK'
  BY <1>1, <1>4 DEF TurnsOK
<1> QED BY <1>6, <1>7, <1>8, <1>9 DEF IInv

LEMMA QuietIsOK ==
  ASSUME IInv, UNCHANGED <<home, legacy, installed, start, spoilt, turn>>
  PROVE  IInv'
BY DEF IInv, TypeOK, StartOK, HomesOK, InStart, TurnsOK

-----------------------------------------------------------------------------

LEMMA InitIsOK == Init => IInv
<1> SUFFICES ASSUME Init
             PROVE  IInv
  OBVIOUS
<1>1. Nothing \in Home /\ Nothing.memory = Absent
  BY AgentHomeAssumption DEF Nothing, Home, Content
<1> QED BY <1>1 DEF Init, IInv, TypeOK, StartOK, HomesOK, TurnsOK, Whole, InStart

LEMMA NextIsOK == IInv /\ [Next]_vars => IInv'
<1> SUFFICES ASSUME IInv, [Next]_vars
             PROVE  IInv'
  OBVIOUS
<1>1. ASSUME NEW a \in Agents, BeginStart(a)
      PROVE  IInv'
  BY <1>1, BeginStartIsOK
<1>2. ASSUME NEW a \in Agents, StopAgent(a)
      PROVE  IInv'
  BY <1>2, StopAgentIsOK
<1>3. ASSUME NEW a \in Agents, RemoveHome(a)
      PROVE  IInv'
  BY <1>3, RemoveHomeIsOK
<1>4. CASE StartStep
  BY <1>4, StartStepIsOK
<1>5. CASE DaemonExit
  BY <1>5, DaemonExitIsOK
<1>6. CASE \/ ScanWorkspaces
           \/ \E a \in Agents, includeHidden \in BOOLEAN : ListWorkspace(a, includeHidden)
           \/ \E a \in Agents, n \in Names : ReadWorkspace(a, n)
           \/ UNCHANGED vars
  BY <1>6, QuietIsOK DEF ScanWorkspaces, ListWorkspace, ReadWorkspace, Told, vars
<1>7. ASSUME NEW t \in Turns, NEW a \in Agents, NEW attachments \in SUBSET Attachments,
             Deliver(t, a, attachments)
      PROVE  IInv'
  BY <1>7, DeliverIsOK
<1>8. ASSUME NEW t \in Turns, BeginDownload(t)
      PROVE  IInv'
  BY <1>8, BeginDownloadIsOK
<1>9. ASSUME NEW t \in Turns, FillAttachment(t)
      PROVE  IInv'
  BY <1>9, FillAttachmentIsOK
<1>10. ASSUME NEW t \in Turns, EndDownload(t) \/ BeginTurn(t) \/ EndTurn(t)
       PROVE  IInv'
  BY <1>10, StageStepIsOK
<1>11. ASSUME NEW t \in Turns, NEW f \in Attachments, OpenAttachment(t, f)
       PROVE  IInv'
  BY <1>11, OpenAttachmentIsOK
<1>12. ASSUME NEW t \in Turns, NEW f \in Attachments, FailAttachment(t, f)
       PROVE  IInv'
  BY <1>12, FailAttachmentIsOK
<1>13. ASSUME NEW t \in Turns, NEW f \in Files, Edit(t, f)
       PROVE  IInv'
  BY <1>13, EditIsOK
<1> QED BY <1>1, <1>2, <1>3, <1>4, <1>5, <1>6, <1>7, <1>8, <1>9, <1>10, <1>11, <1>12, <1>13
        DEF Next

LEMMA Invariant == Spec => []IInv
BY InitIsOK, NextIsOK, PTL DEF Spec

(* Homes, starts and deliveries are what their types say, and a home       *)
(* without its directory has no files.                                     *)
THEOREM AgentHomeTypes == Spec => []TypeOK
<1>1. IInv => TypeOK
  BY DEF IInv
<1> QED BY <1>1, Invariant, PTL

(* An installed agent whose home was not deleted, and no start of which    *)
(* was cut short, has its memory and the notes of the earlier daemon       *)
(* (from_start, setup_agent_memory).                                       *)
THEOREM InstalledHaveHomes == Spec => []InstalledHasHome
<1>1. IInv => InstalledHasHome
  <2> SUFFICES ASSUME IInv, NEW a \in installed \ spoilt
               PROVE  /\ home[a].dir /\ home[a].memory \notin {Absent, Torn}
                      /\ legacy[a].memory => legacy[a].notes \subseteq Present(home[a])
    BY DEF InstalledHasHome
  <2>1. a \in Agents /\ home[a].memory # Absent /\ Whole(home[a], legacy[a])
    BY DEF IInv, TypeOK, HomesOK
  <2>2. home[a].dir
    BY <2>1 DEF IInv, TypeOK, Nothing
  <2> QED BY <2>1, <2>2 DEF Whole
<1> QED BY <1>1, Invariant, PTL

(* A start leaves every file that was there when it began as it is         *)
(* (setup_agent_memory, migrate_notes_dir).                                *)
THEOREM StartsKeepFiles == Spec => StartKeepsFiles
<1>1. IInv /\ [Next]_vars =>
        [start # None /\ start' # start =>
           \A f \in start.kept : Read(home'[start.agent], f) = Read(home[start.agent], f)]_vars
  <2> SUFFICES ASSUME IInv, Next, start # None, start' # start
               PROVE  \A f \in start.kept :
                        Read(home'[start.agent], f) = Read(home[start.agent], f)
    BY DEF vars
  <2>1. StartStep \/ UNCHANGED home
    BY DEF Next, BeginStart, StopAgent, RemoveHome, Told, DaemonExit, ScanWorkspaces,
           ListWorkspace, ReadWorkspace, Deliver, InTask, BeginDownload, FillAttachment,
           EndDownload, BeginTurn, EndTurn, OpenAttachment, FailAttachment, Edit
  <2> QED BY <2>1, StartStepIsOK
<1> QED BY <1>1, Invariant, PTL DEF Spec, StartKeepsFiles

=============================================================================
