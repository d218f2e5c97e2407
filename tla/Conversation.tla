---------------------------- MODULE Conversation ----------------------------
(***************************************************************************)
(* Chat through the daemon: the raft server delivers a posted message to   *)
(* the agents among the members of the conversation; each delivery becomes *)
(* a task (run_agent_turn) that decides whether the agent should respond   *)
(* (prepare_delivery_prompt), runs a turn under the agent's turn lock, and *)
(* posts what it prints as a message of the agent's own (post_agent_reply, *)
(* raft_client.rs), which the server delivers in turn.  While it runs, the *)
(* turn may post and set reminders with the raft CLI (cli/raft_cli.rs).    *)
(*                                                                         *)
(* The questions are where an answer goes, and whether agents that answer  *)
(* each other ever stop.  Crashes, the registry and the frames of a turn   *)
(* are the business of AgentLifecycle.                                     *)
(***************************************************************************)
EXTENDS Naturals, FiniteSets

CONSTANTS
  Agents,
  People,
  System,         (* the sender of a fired reminder                        *)
  Conversations,  (* what the server keeps: kind, name and members of each *)
  Formats,        (* how versions of the server describe a conversation    *)
  Slots,          (* bound: deliveries in flight                           *)
  MaxPosts,       (* bound: posts of people and calls of the raft CLI      *)
  None            (* an empty slot; no target                              *)

Actors == Agents \cup People

(* "given": the field holds the kind of the conversation; "channel": it    *)
(* says "channel" of every conversation; "null": it is there, and null.    *)
Format == [target : BOOLEAN,                        (* channel_target      *)
           kind : {"given", "null", "absent"},      (* channel_kind        *)
           type : {"given", "channel", "absent"},   (* channel_type        *)
           echo : BOOLEAN]      (* an agent's own posts are delivered to it *)

ASSUME ConversationAssumption ==
  /\ Conversations \subseteq [kind : {"channel", "dm"}, name : STRING,
                              members : SUBSET Actors]
  /\ \A c \in Conversations :
       c.kind = "dm" => \E x, y \in Actors : x # y /\ c.members = {x, y}
  /\ \A c, e \in Conversations :
       /\ c.kind = e.kind
       /\ IF c.kind = "dm" THEN c.members = e.members ELSE c.name = e.name
       => c = e
  /\ Formats \subseteq Format
  (* A server whose channel_type does not tell a direct message fills      *)
  (* another field that does.                                              *)
  /\ \A f \in Formats : f.type = "channel" => f.target \/ f.kind = "given"
  /\ Slots \subseteq Nat /\ IsFiniteSet(Slots) /\ MaxPosts \in Nat
  /\ Agents \cap People = {} /\ System \notin Actors
  /\ None \notin {"channel", "dm"}

VARIABLES
  format,      (* the format of the server                                 *)
  credential,  (* whether a credential was minted for each agent           *)
  delivery,    (* the deliveries in flight, by slot                        *)
  reminders,   (* reminders the server holds: whose, and where             *)
  posts

vars == <<format, credential, delivery, reminders, posts>>
frozen == <<format, credential>>

(* A target descriptor: a channel's name or the peer of a direct message.  *)
Target == [channel : {c.name : c \in Conversations}] \cup [peer : Actors \cup {System}]
Task == [to : Agents, from : Actors \cup {System}, conv : Conversations,
         body : {"text", "files", "nothing"},
         stage : {"spawned", "waiting", "running", "posting"},
         target : Target \cup {None}]
Reminder == [of : Agents, conv : Conversations]

Init ==
  /\ format \in Formats
  /\ credential \in [Agents -> BOOLEAN]
  /\ delivery = [i \in Slots |-> None]
  /\ reminders = {} /\ posts = 0

At(stage) == {i \in Slots : delivery[i] # None /\ delivery[i].stage = stage}
Free == {i \in Slots : delivery[i] = None}

-----------------------------------------------------------------------------
(* Faulty variants, each a mistake the operator it stands for could have   *)
(* held; with it in place the property named here fails.                   *)

(* MayAnswer: no check for the agent's own messages (Settles).             *)
MayAnswerEcho(d) ==
  /\ d.body # "nothing"
  /\ ~(d.from \in Agents /\ d.conv.kind # "dm")

(* MayAnswer: no check for other agents in a channel (Settles).            *)
MayAnswerBots(d) == d.body # "nothing" /\ d.from # d.to

(* Kind: channel_type first, then channel_kind (AnswersWhereAsked).        *)
KindByType(c) == IF format.type = "channel" THEN "channel" ELSE c.kind

(* MayPost: no check that a target could be derived (TypeOK).              *)
MayPostAnyway(a, target) == credential[a]

-----------------------------------------------------------------------------
(* What the daemon reads of a message (prepare_delivery_prompt and         *)
(* derive_target).  They read the kind of the conversation differently:    *)
(* the prompt looks at channel_type only when there is no channel_kind,    *)
(* the target also when channel_kind is null.                              *)

ByType(c) == IF format.type = "given" THEN c.kind
             ELSE IF format.type = "channel" THEN "channel" ELSE None
PromptKind(c) == IF format.kind = "given" THEN c.kind
                 ELSE IF format.kind = "null" THEN None ELSE ByType(c)
Kind(c) == IF format.kind = "given" THEN c.kind ELSE ByType(c)

IsDirect(d) == PromptKind(d.conv) = "dm"

(* An answer is due unless the message has neither text nor attachments,   *)
(* is the agent's own, or is a bot's and not in a direct message.          *)
MayAnswer(d) ==
  /\ d.body # "nothing"
  /\ d.from # d.to
  /\ ~(d.from \in Agents /\ ~IsDirect(d))

Peer(d) == CHOOSE m \in d.conv.members : m # d.to

(* What formatChannelTarget of the server puts in channel_target.          *)
ServerTarget(d) ==
  IF d.conv.kind = "dm" THEN [peer |-> Peer(d)] ELSE [channel |-> d.conv.name]

DeriveTarget(d) ==
  IF format.target THEN ServerTarget(d)
  ELSE IF Kind(d.conv) = "channel" THEN [channel |-> d.conv.name]
  ELSE IF Kind(d.conv) = "dm" THEN [peer |-> d.from]
  ELSE None

-----------------------------------------------------------------------------
(* The server.  A target that names no conversation of the agent is        *)
(* refused.  A channel's name resolves to the channel, a peer's to the     *)
(* direct message between the two.                                         *)

Resolve(a, target) ==
  {c \in Conversations :
     /\ a \in c.members
     /\ IF "peer" \in DOMAIN target
        THEN c.kind = "dm" /\ target.peer \in c.members \ {a}
        ELSE c.kind = "channel" /\ c.name = target.channel}

(* Each receiver's delivery takes the next free slot.                      *)
Place(table, receivers, d) ==
  LET free == {i \in Slots : table[i] = None}
      slot == CHOOSE f \in [receivers -> free] :
                \A a, b \in receivers : f[a] = f[b] => a = b
  IN [i \in Slots |-> IF \E a \in receivers : slot[a] = i
                      THEN [d EXCEPT !.to = CHOOSE a \in receivers : slot[a] = i]
                      ELSE table[i]]

Receivers(c, sender) ==
  (c.members \cap Agents) \ (IF format.echo THEN {} ELSE {sender})

Message(c, sender, body) ==
  [to |-> CHOOSE a \in Agents : TRUE, from |-> sender, conv |-> c, body |-> body,
   stage |-> "spawned", target |-> None]

(* The deliveries after a post, where the slots in done have become free.  *)
Posted(c, sender, body, done) ==
  LET table == [i \in Slots |-> IF i \in done THEN None ELSE delivery[i]]
  IN Place(table, Receivers(c, sender), Message(c, sender, body))

RoomFor(c, sender, done) ==
  Cardinality(Receivers(c, sender)) <= Cardinality(Free \cup done)

PersonPosts(p, c, body) ==
  /\ posts < MaxPosts /\ p \in c.members /\ RoomFor(c, p, {})
  /\ posts' = posts + 1
  /\ delivery' = Posted(c, p, body, {})
  /\ UNCHANGED <<frozen, reminders>>

ReminderFires(r) ==
  /\ r \in reminders /\ Free # {}
  /\ reminders' = reminders \ {r}
  /\ delivery' = Place(delivery, {r.of}, Message(r.conv, System, "text"))
  /\ UNCHANGED <<frozen, posts>>

-----------------------------------------------------------------------------
(* The task of a delivery (run_agent_turn).                                *)

Prepare(i) ==
  /\ i \in At("spawned")
  /\ delivery' = [delivery EXCEPT ![i] =
                    IF MayAnswer(@) THEN [@ EXCEPT !.stage = "waiting"] ELSE None]
  /\ UNCHANGED <<frozen, reminders, posts>>

(* The turn lock is held from here to the end of the task.                 *)
MayBegin(a) ==
  \A i \in At("running") \cup At("posting") : delivery[i].to # a

BeginTurn(i) ==
  /\ i \in At("waiting") /\ MayBegin(delivery[i].to)
  /\ delivery' = [delivery EXCEPT ![i].stage = "running"]
  /\ UNCHANGED <<frozen, reminders, posts>>

(* An empty reply, or the marker for "no reply".                           *)
StaySilent(i) ==
  /\ i \in At("running")
  /\ delivery' = [delivery EXCEPT ![i] = None]
  /\ UNCHANGED <<frozen, reminders, posts>>

(* post_agent_reply, with the reply of a turn that succeeded or with the   *)
(* apology for one that failed: nothing is posted without a credential or  *)
(* a target.                                                               *)
MayPost(a, target) == credential[a] /\ target # None

Answer(i) ==
  /\ i \in At("running")
  /\ LET d == delivery[i]
         target == DeriveTarget(d)
     IN delivery' = [delivery EXCEPT ![i] =
          IF MayPost(d.to, target)
          THEN [d EXCEPT !.stage = "posting", !.target = target] ELSE None]
  /\ UNCHANGED <<frozen, reminders, posts>>

(* send_agent_message: the server takes the message; or it refuses it,     *)
(* cannot be reached, or holds it and asks for a freshness check, which    *)
(* the daemon takes for success.  Either way the task ends.                *)
Delivered(i) ==
  /\ i \in At("posting")
  /\ LET d == delivery[i]
     IN \E c \in Resolve(d.to, d.target) :
          /\ RoomFor(c, d.to, {i})
          /\ delivery' = Posted(c, d.to, "text", {i})
  /\ UNCHANGED <<frozen, reminders, posts>>

NotDelivered(i) ==
  /\ i \in At("posting")
  /\ delivery' = [delivery EXCEPT ![i] = None]
  /\ UNCHANGED <<frozen, reminders, posts>>

(* The raft CLI within a turn: message send goes to any conversation of    *)
(* the agent; a reminder is tied to the message of the turn                *)
(* (SLOCK_MESSAGE_ID); the other commands read, or keep the server's task  *)
(* list, and start no conversation.                                        *)
CliSend(i, c) ==
  /\ i \in At("running") /\ credential[delivery[i].to] /\ posts < MaxPosts
  /\ delivery[i].to \in c.members /\ RoomFor(c, delivery[i].to, {})
  /\ posts' = posts + 1
  /\ delivery' = Posted(c, delivery[i].to, "text", {})
  /\ UNCHANGED <<frozen, reminders>>

CliRemind(i) ==
  /\ i \in At("running") /\ credential[delivery[i].to] /\ posts < MaxPosts
  /\ posts' = posts + 1
  /\ reminders' = reminders \cup {[of |-> delivery[i].to, conv |-> delivery[i].conv]}
  /\ UNCHANGED <<frozen, delivery>>

CliForget(i, r) ==
  /\ i \in At("running") /\ r \in reminders /\ r.of = delivery[i].to
  /\ reminders' = reminders \ {r}
  /\ UNCHANGED <<frozen, delivery, posts>>

-----------------------------------------------------------------------------
TaskStep(i) ==
  \/ Prepare(i) \/ BeginTurn(i) \/ StaySilent(i) \/ Answer(i)
  \/ Delivered(i) \/ NotDelivered(i)

Next ==
  \/ \E i \in Slots : TaskStep(i)
  \/ \E p \in People, c \in Conversations, body \in {"text", "files", "nothing"} :
       PersonPosts(p, c, body)
  \/ \E r \in reminders : ReminderFires(r)
  \/ \E i \in Slots, c \in Conversations : CliSend(i, c)
  \/ \E i \in Slots : CliRemind(i)
  \/ \E i \in Slots, r \in reminders : CliForget(i, r)

Spec == Init /\ [][Next]_vars

(* The runtime polls a task that is ready, a turn ends within its timeout, *)
(* a request ends, and the turn lock is first come, first served.          *)
Fairness ==
  \A i \in Slots :
    /\ WF_vars(Prepare(i))
    /\ SF_vars(BeginTurn(i))
    /\ WF_vars(StaySilent(i) \/ Answer(i))
    /\ WF_vars(Delivered(i) \/ NotDelivered(i))

FairSpec == Spec /\ Fairness

-----------------------------------------------------------------------------
(* Slots hold deliveries or nothing, and what is posted has a target and a *)
(* credential.                                                             *)
TypeOK ==
  /\ format \in Formats
  /\ credential \in [Agents -> BOOLEAN]
  /\ \A i \in Slots : delivery[i] \in Task \cup {None}
  /\ \A i \in At("posting") :
       delivery[i].target # None /\ credential[delivery[i].to]
  /\ reminders \subseteq Reminder
  /\ posts \in 0..MaxPosts

(* An answer goes to the conversation the message came from or nowhere,    *)
(* however the server describes it: never the answer to a direct message   *)
(* into a channel, nor to another person.                                  *)
AnswersWhereAsked ==
  \A i \in At("posting") :
    Resolve(delivery[i].to, delivery[i].target) \subseteq {delivery[i].conv}

(* Conversations in which at most one party answers: channels, where bots  *)
(* do not answer bots, and the direct messages of a person.  The direct    *)
(* messages between two agents are not among them: each answers the other, *)
(* also with the apology for a turn that failed.                           *)
Quiet == {c \in Conversations : c.kind = "channel" \/ c.members \cap People # {}}

(* Agents do not keep a conversation alive among or with themselves: when  *)
(* the posts of people have ended, each of these comes to rest, although   *)
(* every answer is delivered to the other agents and may be echoed.        *)
Settles ==
  \A c \in Quiet : <>[](\A i \in Slots : delivery[i] # None => delivery[i].conv # c)

=============================================================================
