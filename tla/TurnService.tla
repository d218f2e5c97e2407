---------------------------- MODULE TurnService ----------------------------
(***************************************************************************)
(* What the agent host promises of turns, whatever the dispatcher, the     *)
(* registry, state.json and the connection do meanwhile: a delivery is     *)
(* served at most once, a lock serves one turn at a time and is given back *)
(* by the turn that holds it, and the counter the updater looks at is      *)
(* moved by the turns only.  AgentLifecycle implements it.                 *)
(***************************************************************************)
EXTENDS Naturals

CONSTANTS
  Turns,        (* deliveries, each of which may become a turn             *)
  Locks,        (* the turn_lock of each installed process                 *)
  None          (* no turn                                                 *)

VARIABLES
  phase,        (* how far each turn has come                              *)
  serving,      (* the turn that each lock serves                          *)
  busy          (* active_turns                                            *)

vars == <<phase, serving, busy>>

Phase == {"new", "due", "begun", "serving", "lost", "over"}

Goes(t, from, to) ==
  /\ phase[t] = from
  /\ phase' = [phase EXCEPT ![t] = to]

Init ==
  /\ phase = [t \in Turns |-> "new"]
  /\ serving = [k \in Locks |-> None]
  /\ busy = 0

Accept(t) == Goes(t, "new", "due") /\ UNCHANGED <<serving, busy>>

(* Refused by the dispatcher, or by the task before it has begun.          *)
Refuse(t) ==
  /\ Goes(t, "new", "over") \/ Goes(t, "due", "over")
  /\ UNCHANGED <<serving, busy>>

Begin(t) == Goes(t, "due", "begun") /\ busy' = busy + 1 /\ UNCHANGED serving

Decline(t) == Goes(t, "begun", "over") /\ busy' = busy - 1 /\ UNCHANGED serving

Serve(t, k) ==
  /\ Goes(t, "begun", "serving")
  /\ serving[k] = None
  /\ serving' = [serving EXCEPT ![k] = t]
  /\ UNCHANGED busy

GivesBack(t, k) == serving[k] = t /\ serving' = [serving EXCEPT ![k] = None]

Complete(t, k) ==
  Goes(t, "serving", "over") /\ GivesBack(t, k) /\ busy' = busy - 1

(* The task panics: its lock is given back, its count is not.              *)
Lose(t, k) ==
  Goes(t, "serving", "lost") /\ GivesBack(t, k) /\ UNCHANGED busy

(* The daemon ends: what was accepted is over, nothing is served, and the  *)
(* next daemon counts from 0.                                              *)
Restart ==
  /\ phase' = [t \in Turns |-> IF phase[t] = "new" THEN "new" ELSE "over"]
  /\ serving' = [k \in Locks |-> None]
  /\ busy' = 0

Next ==
  \/ \E t \in Turns : Accept(t) \/ Refuse(t) \/ Begin(t) \/ Decline(t)
  \/ \E t \in Turns, k \in Locks : Serve(t, k) \/ Complete(t, k) \/ Lose(t, k)
  \/ Restart

Spec == Init /\ [][Next]_vars

=============================================================================
