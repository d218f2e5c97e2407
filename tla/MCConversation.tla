--------------------------- MODULE MCConversation ---------------------------
(* A channel of two agents and a person, a direct message of the person    *)
(* and an agent, and one between the agents; server versions that fill the *)
(* fields of a message in the ways the tests of derive_target name, where  *)
(* a direct message may carry the name of a channel too.                   *)
EXTENDS Conversation
CONSTANTS a, b, p
Chats == {[kind |-> "channel", name |-> "general", members |-> {a, b, p}],
          [kind |-> "dm", name |-> "general", members |-> {a, p}],
          [kind |-> "dm", name |-> "general", members |-> {a, b}]}
Versions == {
  [target |-> TRUE, kind |-> "absent", type |-> "absent", echo |-> FALSE],
  [target |-> TRUE, kind |-> "given", type |-> "absent", echo |-> TRUE],
  [target |-> FALSE, kind |-> "given", type |-> "channel", echo |-> FALSE],
  [target |-> FALSE, kind |-> "null", type |-> "given", echo |-> FALSE],
  [target |-> FALSE, kind |-> "absent", type |-> "given", echo |-> FALSE],
  [target |-> FALSE, kind |-> "absent", type |-> "absent", echo |-> FALSE]}
=============================================================================
