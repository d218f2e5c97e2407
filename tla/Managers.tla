------------------------------ MODULE Managers ------------------------------
(***************************************************************************)
(* The managers of the library: computers, whose status changes around a   *)
(* save and a sleep (daemon/computer.rs, models/computer.rs), and tasks    *)
(* and reminders, which are kept as values in concurrent maps              *)
(* (daemon/task/manager.rs, daemon/reminder/manager.rs, models/task.rs,    *)
(* models/reminder.rs).  The daemon does not call them yet; what is        *)
(* checked is what a program that calls them from several tasks can rely   *)
(* on.                                                                     *)
(***************************************************************************)
CONSTANTS
  Computers,
  Calls,      (* bound: calls on computers in progress                     *)
  Items,      (* ids of tasks and reminders                                *)
  Callers,    (* tasks of the program that work on a copy of an item       *)
  None        (* not in the map; no call; no copy                          *)

VARIABLES
  computer,   (* the status of each computer, None when not in the map     *)
  call,       (* calls on computers                                        *)
  stuck,      (* computers whose status was last set by a call that then   *)
              (* could not save, or that were added while starting or      *)
              (* being removed                                             *)
  item,       (* the tasks and reminders in the maps                       *)
  copy        (* what get_task or get_reminder gave a caller, and what it  *)
              (* has made of it                                            *)

computerVars == <<computer, call, stuck>>
itemVars == <<item, copy>>
vars == <<computerVars, itemVars>>

ComputerStatus == {"online", "starting", "offline", "removing"}
Operation == {"start", "stop", "reconnect", "remove"}
Call == [op : Operation, of : Computers, step : {"save", "sleep"}]

TaskStatus ==
  {"pending", "claimed", "in_progress", "completed", "cancelled", "failed"}
Task == [kind : {"task"}, status : TaskStatus, assigned : BOOLEAN]
ReminderStatus == {"active", "snoozed", "cancelled"}
Reminder == [kind : {"reminder"}, status : ReminderStatus,
             interval : {"once", "recurring"}, fired : BOOLEAN]
Item == Task \cup Reminder

ASSUME ManagersAssumption ==
  None \notin ComputerStatus \cup Call \cup Item

Init ==
  /\ computer = [c \in Computers |-> None] /\ call = [k \in Calls |-> None]
  /\ stuck = {}
  /\ item = [i \in Items |-> None] /\ copy = [u \in Callers |-> None]

-----------------------------------------------------------------------------
(* Faulty variants, each a mistake the operator it stands for could have   *)
(* held; with it in place the property named here fails.                   *)

(* WhenAwake: a reconnect leaves the computer starting (Unstuck).          *)
WhenAwakeStart(op, status) ==
  IF op = "remove" THEN None ELSE IF op = "start" /\ status # None THEN "online" ELSE status

(* WhenAwake: the computer is put online as it was when the call began     *)
(* (RemovedStaysRemoved).                                                  *)
WhenAwakeAlways(op, status) ==
  IF op = "remove" THEN None ELSE IF op = "stop" THEN status ELSE "online"

(* Fire: a reminder that was snoozed is active again (TypeOK).             *)
FireAgain(r) == [r EXCEPT !.fired = TRUE, !.status = "active"]

-----------------------------------------------------------------------------
(* ComputerManager.  Another call may come at each await, and between the  *)
(* change of the status and the save that follows it.                      *)

Transient == {"starting", "removing"}

(* Any value will do, a copy taken in the middle of a call included.       *)
AddComputer(c, status) ==
  /\ computer' = [computer EXCEPT ![c] = status]
  /\ stuck' = IF status \in Transient THEN stuck \cup {c} ELSE stuck \ {c}
  /\ UNCHANGED <<call, itemVars>>

RemoveComputerSync(c) ==
  /\ computer' = [computer EXCEPT ![c] = None]
  /\ stuck' = stuck \ {c}
  /\ UNCHANGED <<call, itemVars>>

FirstStatus(op) == IF op = "stop" THEN "offline"
                   ELSE IF op = "remove" THEN "removing" ELSE "starting"

(* A computer that is not in the map is an error and changes nothing.      *)
BeginCall(k, op, c) ==
  /\ call[k] = None /\ computer[c] # None
  /\ computer' = [computer EXCEPT ![c] = FirstStatus(op)]
  /\ stuck' = stuck \ {c}
  /\ call' = [call EXCEPT ![k] = [op |-> op, of |-> c, step |-> "save"]]
  /\ UNCHANGED itemVars

(* The save succeeds, or the call ends with its error.                     *)
Save(k) ==
  /\ call[k] # None /\ call[k].step = "save"
  /\ \/ /\ call' = [call EXCEPT ![k].step = "sleep"]
        /\ UNCHANGED stuck
     \/ /\ call' = [call EXCEPT ![k] = None]
        /\ stuck' = stuck \cup {call[k].of}
  /\ UNCHANGED <<computer, itemVars>>

(* After the sleep; whether a second save fails changes only the result.   *)
WhenAwake(op, status) ==
  IF op = "remove" \/ status = None THEN None
  ELSE IF op = "stop" THEN status ELSE "online"

EndCall(k) ==
  /\ call[k] # None /\ call[k].step = "sleep"
  /\ LET c == call[k].of IN
       /\ computer' = [computer EXCEPT ![c] = WhenAwake(call[k].op, @)]
       /\ stuck' = IF call[k].op = "stop" THEN stuck ELSE stuck \ {c}
  /\ call' = [call EXCEPT ![k] = None]
  /\ UNCHANGED itemVars

-----------------------------------------------------------------------------
(* Tasks.  The methods have no guards.  Their times are left out: they are *)
(* read from a wall clock, and only duration_ms looks at them.             *)

NewTask(assigned) ==
  [kind |-> "task", status |-> IF assigned THEN "claimed" ELSE "pending",
   assigned |-> assigned]

Claim(t) == [t EXCEPT !.status = "claimed", !.assigned = TRUE]
Complete(t) == [t EXCEPT !.status = "completed"]
Cancel(t) == [t EXCEPT !.status = "cancelled"]
Fail(t) == [t EXCEPT !.status = "failed"]
SetStatus(t, status) == [t EXCEPT !.status = status]

(* Reminders.                                                              *)

NewReminder(interval) ==
  [kind |-> "reminder", status |-> "active", interval |-> interval, fired |-> FALSE]

Snooze(r) == [r EXCEPT !.status = "snoozed"]
CancelReminder(r) == [r EXCEPT !.status = "cancelled"]
Fire(r) ==
  [r EXCEPT !.fired = TRUE,
            !.status = IF r.interval = "recurring" THEN "active" ELSE "cancelled"]

Changed(x) == IF x.kind = "task"
              THEN {Claim(x), Complete(x), Cancel(x), Fail(x)}
                     \cup {SetStatus(x, status) : status \in TaskStatus}
              ELSE {Snooze(x), CancelReminder(x), Fire(x)}

-----------------------------------------------------------------------------
(* TaskManager and ReminderManager.  The maps give out copies, and the     *)
(* only way to change an item is to add the changed copy again: the last   *)
(* caller wins, also over a removal.                                       *)

Add(i) ==
  /\ \/ \E assigned \in BOOLEAN : item' = [item EXCEPT ![i] = NewTask(assigned)]
     \/ \E interval \in {"once", "recurring"} :
          item' = [item EXCEPT ![i] = NewReminder(interval)]
  /\ UNCHANGED <<computerVars, copy>>

Remove(i) ==
  /\ item' = [item EXCEPT ![i] = None]
  /\ UNCHANGED <<computerVars, copy>>

Get(u, i) ==
  /\ item[i] # None
  /\ copy' = [copy EXCEPT ![u] = [id |-> i, value |-> item[i]]]
  /\ UNCHANGED <<computerVars, item>>

Change(u) ==
  /\ copy[u] # None
  /\ \E x \in Changed(copy[u].value) : copy' = [copy EXCEPT ![u].value = x]
  /\ UNCHANGED <<computerVars, item>>

Put(u) ==
  /\ copy[u] # None
  /\ item' = [item EXCEPT ![copy[u].id] = copy[u].value]
  /\ copy' = [copy EXCEPT ![u] = None]
  /\ UNCHANGED computerVars

-----------------------------------------------------------------------------
Next ==
  \/ \E c \in Computers, status \in ComputerStatus : AddComputer(c, status)
  \/ \E c \in Computers : RemoveComputerSync(c)
  \/ \E k \in Calls, op \in Operation, c \in Computers : BeginCall(k, op, c)
  \/ \E k \in Calls : Save(k) \/ EndCall(k)
  \/ \E i \in Items : Add(i) \/ Remove(i)
  \/ \E u \in Callers, i \in Items : Get(u, i)
  \/ \E u \in Callers : Change(u) \/ Put(u)

Spec == Init /\ [][Next]_vars

-----------------------------------------------------------------------------
(* Values keep their type; a reminder for once that has fired is not       *)
(* active again.                                                           *)
TypeOK ==
  /\ computer \in [Computers -> ComputerStatus \cup {None}]
  /\ call \in [Calls -> Call \cup {None}]
  /\ stuck \subseteq Computers
  /\ item \in [Items -> Item \cup {None}]
  /\ copy \in [Callers -> [id : Items, value : Item] \cup {None}]
  /\ \A i \in Items :
       item[i] # None /\ item[i].kind = "reminder" /\ item[i].interval = "once"
         => ~(item[i].fired /\ item[i].status = "active")

(* A computer is starting or being removed only while some call is on its  *)
(* way to end that, whatever the calls that overlap: no computer is left   *)
(* in between, unless a save failed or it was added so.                    *)
Unstuck ==
  \A c \in Computers \ stuck :
    /\ computer[c] = "starting" =>
         \E k \in Calls : /\ call[k] # None /\ call[k].of = c
                          /\ call[k].op \in {"start", "reconnect"}
    /\ computer[c] = "removing" =>
         \E k \in Calls : call[k] # None /\ call[k].of = c /\ call[k].op = "remove"

(* A computer that was removed while calls on it slept is not brought back *)
(* when they wake up: only add_computer puts one into the map              *)
(* (computer.rs:57-131).                                                   *)
RemovedStaysRemoved ==
  [][\A c \in Computers :
       computer[c] = None /\ computer'[c] # None
         => \E status \in ComputerStatus : AddComputer(c, status)]_vars

=============================================================================
