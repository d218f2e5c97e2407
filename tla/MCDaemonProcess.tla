--------------------------- MODULE MCDaemonProcess ---------------------------
(***************************************************************************)
(* Symmetry and a view for the bounded instances of DaemonProcess.         *)
(***************************************************************************)
EXTENDS DaemonProcess, TLC

(* Process ids are interchangeable, and so are commands.                   *)
NameSymmetry == Permutations(Pids) \cup Permutations(Commands)

(* States that differ only in what no actor looks at any more, the locals  *)
(* of a function that has returned, are one: seen matters from the reading *)
(* of the file to its writing, restarts until the stop is over.            *)
Live == {x \in Actors : pc[x] \in Reliant \cup {"write"}}
LiveState ==
  <<pidFile, pc, [x \in Actors |-> IF x \in Live THEN seen[x] ELSE None],
    {c \in restarts : pc[c] \in Stopping}, outdated \cap Live, misled>>

=============================================================================
