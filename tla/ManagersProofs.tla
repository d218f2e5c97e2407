--------------------------- MODULE ManagersProofs ---------------------------
(***************************************************************************)
(* Proofs about Managers, for any computers, calls, items and callers.     *)
(***************************************************************************)
EXTENDS Managers, TLAPS

(* A reminder for once that has fired is over, be it in a map or in a      *)
(* caller's copy.                                                          *)
FiresOnce(x) ==
  x.kind = "reminder" /\ x.interval = "once" => ~(x.fired /\ x.status = "active")

CallsOK ==
  /\ computer \in [Computers -> ComputerStatus \cup {None}]
  /\ call \in [Calls -> Call \cup {None}]
  /\ stuck \subseteq Computers

ItemsOK ==
  /\ item \in [Items -> Item \cup {None}]
  /\ copy \in [Callers -> [id : Items, value : Item] \cup {None}]
  /\ \A i \in Items : item[i] # None => FiresOnce(item[i])
  /\ \A u \in Callers : copy[u] # None => FiresOnce(copy[u].value)

-----------------------------------------------------------------------------
(* Computers.                                                              *)

LEMMA CallsInit == Init => CallsOK /\ Unstuck
BY ManagersAssumption DEF Init, CallsOK, Unstuck, ComputerStatus

LEMMA AddKeepsUnstuck ==
  ASSUME CallsOK, Unstuck, NEW c \in Computers,
         RemoveComputerSync(c) \/ \E status \in ComputerStatus : AddComputer(c, status)
  PROVE  CallsOK' /\ Unstuck'
<1>1. call' = call
  BY DEF AddComputer, RemoveComputerSync
<1>2. PICK s \in ComputerStatus \cup {None} :
        /\ computer' = [computer EXCEPT ![c] = s]
        /\ stuck' = stuck \cup {c} \/ (stuck' = stuck \ {c} /\ s \notin Transient)
  <2>1. None \notin Transient
    BY ManagersAssumption DEF Transient, ComputerStatus
  <2>2. QED  BY <2>1 DEF AddComputer, RemoveComputerSync
<1>3. CallsOK'
  BY <1>1, <1>2 DEF CallsOK
<1>4. \A e \in Computers \ stuck' :
        \/ e # c /\ computer'[e] = computer[e] /\ e \notin stuck
        \/ computer'[e] \notin Transient
  BY <1>2 DEF CallsOK
<1>5. Unstuck'
  BY <1>1, <1>4 DEF Unstuck, Transient
<1> QED BY <1>3, <1>5

LEMMA BeginKeepsUnstuck ==
  ASSUME CallsOK, Unstuck, NEW k \in Calls, NEW op \in Operation, NEW c \in Computers,
         BeginCall(k, op, c)
  PROVE  CallsOK' /\ Unstuck'
<1> DEFINE new == [op |-> op, of |-> c, step |-> "save"]
<1>1. /\ call[k] = None
      /\ computer' = [computer EXCEPT ![c] = FirstStatus(op)]
      /\ stuck' = stuck \ {c}
      /\ call' = [call EXCEPT ![k] = new]
  BY DEF BeginCall
<1>2. new \in Call /\ new # None
  BY ManagersAssumption DEF Call
<1>3. FirstStatus(op) \in ComputerStatus
  BY DEF FirstStatus, ComputerStatus
<1>4. CallsOK'
  BY <1>1, <1>2, <1>3 DEF CallsOK
<1>5. /\ FirstStatus(op) = "starting" => op \in {"start", "reconnect"}
      /\ FirstStatus(op) = "removing" => op = "remove"
  BY DEF FirstStatus, Operation
<1>6. ASSUME NEW e \in Computers \ stuck'
      PROVE  /\ computer'[e] = "starting" =>
                  \E j \in Calls : /\ call'[j] # None /\ call'[j].of = e
                                   /\ call'[j].op \in {"start", "reconnect"}
             /\ computer'[e] = "removing" =>
                  \E j \in Calls : call'[j] # None /\ call'[j].of = e /\ call'[j].op = "remove"
  <2>1. CASE e = c
    <3>1. call'[k] # None /\ call'[k].of = c /\ call'[k].op = op
      BY <1>1, <1>2 DEF CallsOK
    <3>2. computer'[c] = FirstStatus(op)
      BY <1>1 DEF CallsOK
    <3> QED BY <2>1, <3>1, <3>2, <1>5
  <2>2. CASE e # c
    <3>1. computer'[e] = computer[e] /\ e \in Computers \ stuck
      BY <2>2, <1>1, <1>6 DEF CallsOK
    <3>2. \A j \in Calls : call[j] # None => call'[j] = call[j]
      BY <1>1 DEF CallsOK
    <3> QED BY <3>1, <3>2 DEF Unstuck
  <2> QED BY <2>1, <2>2
<1> QED BY <1>4, <1>6 DEF Unstuck

LEMMA SaveKeepsUnstuck ==
  ASSUME CallsOK, Unstuck, NEW k \in Calls, Save(k)
  PROVE  CallsOK' /\ Unstuck'
<1>1. call[k] # None /\ call[k] \in Call /\ computer' = computer
  BY DEF Save, CallsOK
<1>2. CASE call' = [call EXCEPT ![k].step = "sleep"] /\ UNCHANGED stuck
  <2>1. call'[k] \in Call /\ call'[k].of = call[k].of /\ call'[k].op = call[k].op
    BY <1>1, <1>2 DEF Call, CallsOK
  <2>2. call'[k] # None
    BY <2>1, ManagersAssumption
  <2>3. \A j \in Calls : j # k => call'[j] = call[j]
    BY <1>2 DEF CallsOK
  <2>4. CallsOK'
    BY <1>1, <1>2, <2>1, <2>3 DEF CallsOK
  <2>5. Unstuck'
    BY <1>1, <1>2, <2>1, <2>2, <2>3 DEF Unstuck
  <2> QED BY <2>4, <2>5
<1>3. CASE call' = [call EXCEPT ![k] = None] /\ stuck' = stuck \cup {call[k].of}
  <2>1. CallsOK'
    BY <1>1, <1>3 DEF CallsOK, Call
  <2>2. \A j \in Calls, e \in Computers \ stuck' :
          call[j].of = e /\ call[j] # None => call'[j] = call[j]
    BY <1>3 DEF CallsOK
  <2>3. Unstuck'
    BY <1>1, <1>3, <2>2 DEF Unstuck
  <2> QED BY <2>1, <2>3
<1> QED BY <1>2, <1>3 DEF Save

LEMMA EndKeepsUnstuck ==
  ASSUME CallsOK, Unstuck, NEW k \in Calls, EndCall(k)
  PROVE  CallsOK' /\ Unstuck'
<1> DEFINE c == call[k].of
           s == WhenAwake(call[k].op, computer[c])
<1>1. /\ call[k] \in Call /\ call[k] # None /\ c \in Computers
      /\ call' = [call EXCEPT ![k] = None]
      /\ computer' = [computer EXCEPT ![c] = s]
      /\ stuck' = stuck \/ stuck' = stuck \ {c}
      /\ call[k].op = "stop" => stuck' = stuck
  BY DEF EndCall, CallsOK, Call
<1>2. s \in {None, "online"} \/ (call[k].op = "stop" /\ s = computer[c])
  BY DEF WhenAwake
<1>3. CallsOK'
  BY <1>1, <1>2 DEF CallsOK, ComputerStatus
<1>4. None \notin {"starting", "removing"}
  BY ManagersAssumption DEF ComputerStatus
<1>5. \A e \in Computers \ stuck' :
        e = c /\ computer'[e] \in {"starting", "removing"} =>
          call[k].op = "stop" /\ computer'[e] = computer[e] /\ e \notin stuck
  BY <1>1, <1>2, <1>4 DEF CallsOK
<1>6. \A e \in Computers \ stuck' :
        e # c => computer'[e] = computer[e] /\ e \notin stuck
  BY <1>1 DEF CallsOK
<1>7. \A j \in Calls : j # k => call'[j] = call[j]
  BY <1>1 DEF CallsOK
<1>8. Unstuck'
  BY <1>5, <1>6, <1>7 DEF Unstuck
<1> QED BY <1>3, <1>8

LEMMA CallsNext == CallsOK /\ Unstuck /\ [Next]_vars => CallsOK' /\ Unstuck'
<1> SUFFICES ASSUME CallsOK, Unstuck, [Next]_vars
             PROVE  CallsOK' /\ Unstuck'
  OBVIOUS
<1>1. CASE UNCHANGED computerVars
  BY <1>1 DEF computerVars, CallsOK, Unstuck
<1>2. CASE \E c \in Computers : \/ RemoveComputerSync(c)
                               \/ \E status \in ComputerStatus : AddComputer(c, status)
  BY <1>2, AddKeepsUnstuck
<1>3. CASE \E k \in Calls, op \in Operation, c \in Computers : BeginCall(k, op, c)
  BY <1>3, BeginKeepsUnstuck
<1>4. CASE \E k \in Calls : Save(k)
  BY <1>4, SaveKeepsUnstuck
<1>5. CASE \E k \in Calls : EndCall(k)
  BY <1>5, EndKeepsUnstuck
<1>6. \/ UNCHANGED vars \/ (\E i \in Items : Add(i) \/ Remove(i))
      \/ (\E u \in Callers, i \in Items : Get(u, i)) \/ (\E u \in Callers : Change(u) \/ Put(u))
      => UNCHANGED computerVars
  BY DEF vars, Add, Remove, Get, Change, Put, computerVars
<1> QED BY <1>1, <1>2, <1>3, <1>4, <1>5, <1>6 DEF Next

(* No computer is left starting or being removed, unless a save failed or  *)
(* it was added so (computer.rs 57-163).                                   *)
THEOREM NoComputerIsStuck == Spec => []Unstuck
<1>1. Init => CallsOK /\ Unstuck
  BY CallsInit
<1>2. CallsOK /\ Unstuck /\ [Next]_vars => (CallsOK /\ Unstuck)'
  BY CallsNext
<1> QED BY <1>1, <1>2, PTL DEF Spec

(* No call that was asleep when its computer was removed brings it back    *)
(* (computer.rs 57-131).                                                   *)
THEOREM RemovedAreGone == Spec => RemovedStaysRemoved
<1>1. ASSUME CallsOK, [Next]_vars, NEW c \in Computers, computer[c] = None, computer'[c] # None
      PROVE  \E status \in ComputerStatus : AddComputer(c, status)
  <2> USE <1>1
  <2>1. ASSUME UNCHANGED computer PROVE FALSE
    BY <2>1
  <2>2. ASSUME NEW e \in Computers, NEW status \in ComputerStatus, AddComputer(e, status)
        PROVE  e = c
    BY <2>2 DEF AddComputer, CallsOK
  <2>3. ASSUME NEW e \in Computers, RemoveComputerSync(e) PROVE FALSE
    BY <2>3 DEF RemoveComputerSync, CallsOK
  <2>4. ASSUME NEW k \in Calls, NEW op \in Operation, NEW e \in Computers, BeginCall(k, op, e)
        PROVE  FALSE
    BY <2>4 DEF BeginCall, CallsOK
  <2>5. ASSUME NEW k \in Calls, EndCall(k) PROVE FALSE
    <3>1. call[k] \in Call /\ call[k].of \in Computers
      BY <2>5 DEF EndCall, CallsOK, Call
    <3>2. computer' = [computer EXCEPT ![call[k].of] = WhenAwake(call[k].op, computer[call[k].of])]
      BY <2>5 DEF EndCall
    <3>3. WhenAwake(call[k].op, None) = None
      BY DEF WhenAwake
    <3>4. QED  BY <3>1, <3>2, <3>3 DEF CallsOK
  <2>6. ASSUME NEW k \in Calls, Save(k) PROVE FALSE
    BY <2>6, <2>1 DEF Save
  <2>7. \/ UNCHANGED vars \/ (\E i \in Items : Add(i) \/ Remove(i))
        \/ (\E u \in Callers, i \in Items : Get(u, i)) \/ (\E u \in Callers : Change(u) \/ Put(u))
        => UNCHANGED computer
    BY DEF vars, computerVars, Add, Remove, Get, Change, Put
  <2>8. QED  BY <2>1, <2>2, <2>3, <2>4, <2>5, <2>6, <2>7 DEF Next
<1>2. CallsOK /\ [Next]_vars =>
        [\A c \in Computers : computer[c] = None /\ computer'[c] # None
           => \E status \in ComputerStatus : AddComputer(c, status)]_vars
  BY <1>1
<1>3. Init => CallsOK /\ Unstuck
  BY CallsInit
<1>4. CallsOK /\ Unstuck /\ [Next]_vars => (CallsOK /\ Unstuck)'
  BY CallsNext
<1> QED BY <1>2, <1>3, <1>4, PTL DEF Spec, RemovedStaysRemoved

-----------------------------------------------------------------------------
(* Tasks and reminders.                                                    *)

LEMMA ChangesKeepItems ==
  ASSUME NEW x \in Item, FiresOnce(x), NEW y \in Changed(x)
  PROVE  y \in Item /\ FiresOnce(y)
<1>1. CASE x \in Task
  <2>1. x.kind = "task"
    BY <1>1 DEF Task
  <2>2. \/ y \in {Claim(x), Complete(x), Cancel(x), Fail(x)}
        \/ \E status \in TaskStatus : y = SetStatus(x, status)
    BY <2>1 DEF Changed
  <2>3. y \in Task
    BY <1>1, <2>2 DEF Claim, Complete, Cancel, Fail, SetStatus, Task, TaskStatus
  <2> QED BY <2>3 DEF Task, Item, FiresOnce
<1>2. CASE x \in Reminder
  <2>1. x.kind # "task"
    BY <1>2 DEF Reminder
  <2>2. y \in {Snooze(x), CancelReminder(x), Fire(x)}
    BY <2>1 DEF Changed
  <2>3. CASE y = Snooze(x)
    BY <1>2, <2>3 DEF Reminder, Item, Snooze, FiresOnce, ReminderStatus
  <2>4. CASE y = CancelReminder(x)
    BY <1>2, <2>4 DEF Reminder, Item, CancelReminder, FiresOnce, ReminderStatus
  <2>5. CASE y = Fire(x)
    BY <1>2, <2>5 DEF Reminder, Item, Fire, FiresOnce, ReminderStatus
  <2> QED BY <2>2, <2>3, <2>4, <2>5
<1> QED BY <1>1, <1>2 DEF Item

LEMMA NewItems ==
  /\ \A assigned \in BOOLEAN : NewTask(assigned) \in Item /\ FiresOnce(NewTask(assigned))
  /\ \A interval \in {"once", "recurring"} :
       NewReminder(interval) \in Item /\ FiresOnce(NewReminder(interval))
BY DEF NewTask, Task, TaskStatus, NewReminder, Reminder, ReminderStatus, Item, FiresOnce

LEMMA ItemsInit == Init => ItemsOK
BY ManagersAssumption DEF Init, ItemsOK

LEMMA AddKeepsItems ==
  ASSUME ItemsOK, NEW i \in Items, Add(i) \/ Remove(i)
  PROVE  ItemsOK'
<1>1. copy' = copy
  BY DEF Add, Remove
<1>2. PICK x \in Item \cup {None} :
        item' = [item EXCEPT ![i] = x] /\ (x # None => FiresOnce(x))
  BY NewItems DEF Add, Remove
<1> QED BY <1>1, <1>2 DEF ItemsOK

LEMMA GetKeepsItems ==
  ASSUME ItemsOK, NEW u \in Callers, NEW i \in Items, Get(u, i)
  PROVE  ItemsOK'
<1>1. item[i] \in Item /\ FiresOnce(item[i])
  BY DEF Get, ItemsOK
<1>2. copy' = [copy EXCEPT ![u] = [id |-> i, value |-> item[i]]]
  BY DEF Get
<1>3. item' = item
  BY DEF Get
<1> QED BY <1>1, <1>2, <1>3 DEF ItemsOK

LEMMA ChangeKeepsItems ==
  ASSUME ItemsOK, NEW u \in Callers, Change(u)
  PROVE  ItemsOK'
<1>1. copy[u] \in [id : Items, value : Item] /\ FiresOnce(copy[u].value)
  BY DEF Change, ItemsOK
<1>2. PICK x \in Changed(copy[u].value) : copy' = [copy EXCEPT ![u] = [@ EXCEPT !.value = x]]
  BY DEF Change
<1>3. x \in Item /\ FiresOnce(x)
  BY <1>1, ChangesKeepItems
<1>4. item' = item
  BY DEF Change
<1>5. [copy[u] EXCEPT !.value = x] \in [id : Items, value : Item]
      /\ [copy[u] EXCEPT !.value = x].value = x
  BY <1>1, <1>3
<1>6. copy' \in [Callers -> [id : Items, value : Item] \cup {None}]
  BY <1>2, <1>5 DEF ItemsOK
<1>7. \A v \in Callers : copy'[v] # None => FiresOnce(copy'[v].value)
  BY <1>2, <1>3, <1>5 DEF ItemsOK
<1> QED BY <1>4, <1>6, <1>7 DEF ItemsOK

LEMMA PutKeepsItems ==
  ASSUME ItemsOK, NEW u \in Callers, Put(u)
  PROVE  ItemsOK'
<1>1. copy[u] \in [id : Items, value : Item] /\ FiresOnce(copy[u].value)
  BY DEF Put, ItemsOK
<1>2. /\ item' = [item EXCEPT ![copy[u].id] = copy[u].value]
      /\ copy' = [copy EXCEPT ![u] = None]
  BY DEF Put
<1> QED BY <1>1, <1>2 DEF ItemsOK

LEMMA ItemsNext == ItemsOK /\ [Next]_vars => ItemsOK'
<1> SUFFICES ASSUME ItemsOK, [Next]_vars
             PROVE  ItemsOK'
  OBVIOUS
<1>1. CASE UNCHANGED itemVars
  BY <1>1 DEF itemVars, ItemsOK
<1>2. CASE \E i \in Items : Add(i) \/ Remove(i)
  BY <1>2, AddKeepsItems
<1>3. CASE \E u \in Callers, i \in Items : Get(u, i)
  BY <1>3, GetKeepsItems
<1>4. CASE \E u \in Callers : Change(u) \/ Put(u)
  BY <1>4, ChangeKeepsItems, PutKeepsItems
<1>5. \/ UNCHANGED vars \/ (\E c \in Computers : RemoveComputerSync(c))
      \/ (\E c \in Computers, status \in ComputerStatus : AddComputer(c, status))
      \/ (\E k \in Calls, op \in Operation, c \in Computers : BeginCall(k, op, c))
      \/ (\E k \in Calls : Save(k) \/ EndCall(k))
      => UNCHANGED itemVars
  BY DEF vars, AddComputer, RemoveComputerSync, BeginCall, Save, EndCall
<1> QED BY <1>1, <1>2, <1>3, <1>4, <1>5 DEF Next

(* Statuses keep their types, and a reminder for once that has fired is    *)
(* not active again, whatever copies of it are put back                    *)
(* (models/reminder.rs 133-164).                                           *)
THEOREM ManagersTypes == Spec => []TypeOK
<1>1. Init => CallsOK /\ Unstuck /\ ItemsOK
  BY CallsInit, ItemsInit
<1>2. (CallsOK /\ Unstuck /\ ItemsOK) /\ [Next]_vars => (CallsOK /\ Unstuck /\ ItemsOK)'
  BY CallsNext, ItemsNext
<1>3. CallsOK /\ ItemsOK => TypeOK
  BY DEF CallsOK, ItemsOK, TypeOK, FiresOnce
<1> QED BY <1>1, <1>2, <1>3, PTL DEF Spec

=============================================================================
