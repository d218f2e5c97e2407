------------------------- MODULE ConversationProofs -------------------------
(***************************************************************************)
(* Proofs about Conversation, for any agents, people, conversations and    *)
(* formats of the server that keep to ConversationAssumption, and any      *)
(* number of deliveries and posts.                                         *)
(***************************************************************************)
EXTENDS Conversation, TLAPS

(* A delivery is for a member of its conversation, from another or from    *)
(* the server; one being posted has a target and a credential, and the     *)
(* target names no other conversation.                                     *)
Member(d) ==
  /\ d \in Task
  /\ d.to \in d.conv.members
  /\ d.from \in d.conv.members \cup {System}

MayBePosted(d, keys) ==
  /\ d.target # None /\ keys[d.to]
  /\ Resolve(d.to, d.target) \subseteq {d.conv}

DeliveryOK(d, keys) == Member(d) /\ (d.stage = "posting" => MayBePosted(d, keys))

(* Every delivery in a table is one of those, and so are all reminders for *)
(* members of the conversations they are tied to.                          *)
Sound(table, keys) ==
  /\ table \in [Slots -> Task \cup {None}]
  /\ \A i \in Slots : table[i] # None => DeliveryOK(table[i], keys)

IInv ==
  /\ format \in Formats
  /\ credential \in [Agents -> BOOLEAN]
  /\ Sound(delivery, credential)
  /\ reminders \subseteq {r \in Reminder : r.of \in r.conv.members}
  /\ posts \in 0..MaxPosts

-----------------------------------------------------------------------------
(* Targets.                                                                *)

LEMMA KindIsKind ==
  ASSUME format \in Formats, ~format.target, NEW c \in Conversations
  PROVE  Kind(c) \in {c.kind, None}
<1>1. format.type = "channel" => format.kind = "given"
  BY ConversationAssumption
<1> QED BY <1>1 DEF Kind, ByType

(* The name of a channel resolves to that channel.                         *)
LEMMA NameResolves ==
  ASSUME NEW c \in Conversations, c.kind = "channel", NEW a
  PROVE  Resolve(a, [channel |-> c.name]) \subseteq {c}
BY ConversationAssumption DEF Resolve

(* A member other than oneself resolves to the direct message of the two.  *)
LEMMA PeerResolves ==
  ASSUME NEW c \in Conversations, c.kind = "dm", NEW a \in c.members,
         NEW m \in c.members, m # a
  PROVE  Resolve(a, [peer |-> m]) \subseteq {c}
<1> SUFFICES ASSUME NEW e \in Resolve(a, [peer |-> m])
             PROVE  e = c
  OBVIOUS
<1>1. e \in Conversations /\ a \in e.members /\ e.kind = "dm" /\ m \in e.members \ {a}
  BY DEF Resolve
<1>2. e.members = {a, m} /\ c.members = {a, m}
  <2>1. \E x, y \in Actors : x # y /\ e.members = {x, y}
    BY <1>1, ConversationAssumption
  <2>2. \E x, y \in Actors : x # y /\ c.members = {x, y}
    BY ConversationAssumption
  <2>3. e.members = {a, m}
    BY <1>1, <2>1
  <2>4. c.members = {a, m}
    BY <2>2
  <2> QED BY <2>3, <2>4
<1> QED BY <1>1, <1>2, ConversationAssumption

(* A peer that is no member of any conversation resolves to none.          *)
LEMMA StrangerResolves ==
  ASSUME NEW a, NEW m, m \notin Actors \/ m = a
  PROVE  Resolve(a, [peer |-> m]) = {}
<1>1. \A c \in Conversations : c.members \subseteq Actors
  BY ConversationAssumption
<1> QED BY <1>1 DEF Resolve

(* derive_target names the conversation the message came from, or none.    *)
LEMMA DerivedTarget ==
  ASSUME format \in Formats, NEW d, Member(d), DeriveTarget(d) # None
  PROVE  /\ DeriveTarget(d) \in Target
         /\ Resolve(d.to, DeriveTarget(d)) \subseteq {d.conv}
<1>1. d.conv \in Conversations /\ d.from \in Actors \cup {System} /\ d.to \in d.conv.members
  BY DEF Member, Task
<1>2. d.conv.kind \in {"channel", "dm"} /\ d.conv.members \subseteq Actors
  BY <1>1, ConversationAssumption
<1>3. CASE d.conv.kind = "channel" /\ DeriveTarget(d) = [channel |-> d.conv.name]
  BY <1>1, <1>3, NameResolves DEF Target
<1>4. CASE d.conv.kind = "dm" /\ DeriveTarget(d) = [peer |-> Peer(d)]
  <2>1. \E m \in d.conv.members : m # d.to
    BY <1>1, <1>4, ConversationAssumption
  <2>2. Peer(d) \in d.conv.members /\ Peer(d) # d.to
    BY <2>1 DEF Peer
  <2> QED BY <1>1, <1>2, <1>4, <2>2, PeerResolves DEF Target
<1>5. CASE d.conv.kind = "dm" /\ DeriveTarget(d) = [peer |-> d.from]
  <2>1. DeriveTarget(d) \in Target
    BY <1>1, <1>5 DEF Target
  <2>2. Resolve(d.to, [peer |-> d.from]) \subseteq {d.conv}
    <3>1. CASE d.from \notin Actors \/ d.from = d.to
      <4>1. Resolve(d.to, [peer |-> d.from]) = {}
        BY <3>1, StrangerResolves
      <4> QED BY <4>1
    <3>2. CASE d.from \in Actors /\ d.from # d.to
      <4>1. d.from \in d.conv.members
        BY <3>2, ConversationAssumption DEF Member
      <4> QED BY <1>1, <1>5, <3>2, <4>1, PeerResolves
    <3> QED BY <3>1, <3>2
  <2> QED BY <1>5, <2>1, <2>2
<1>6. \/ d.conv.kind = "channel" /\ DeriveTarget(d) = [channel |-> d.conv.name]
      \/ d.conv.kind = "dm" /\ DeriveTarget(d) = [peer |-> Peer(d)]
      \/ d.conv.kind = "dm" /\ DeriveTarget(d) = [peer |-> d.from]
  <2>1. CASE format.target
    BY <1>2, <2>1 DEF DeriveTarget, ServerTarget
  <2>2. CASE ~format.target
    <3>1. Kind(d.conv) \in {d.conv.kind, None}
      BY <1>1, <2>2, KindIsKind
    <3>2. None \notin {"channel", "dm"}
      BY ConversationAssumption
    <3> QED BY <1>2, <2>2, <3>1, <3>2 DEF DeriveTarget
  <2> QED BY <2>1, <2>2
<1> QED BY <1>3, <1>4, <1>5, <1>6

-----------------------------------------------------------------------------
(* What the server places.                                                 *)

LEMMA PlaceIsSound ==
  ASSUME NEW keys, NEW table, Sound(table, keys), NEW R, NEW d,
         \A a \in R : [d EXCEPT !.to = a] \in Task /\ DeliveryOK([d EXCEPT !.to = a], keys)
  PROVE  Sound(Place(table, R, d), keys)
<1> DEFINE free == {i \in Slots : table[i] = None}
           slot == CHOOSE f \in [R -> free] : \A a, b \in R : f[a] = f[b] => a = b
           chosen(i) == CHOOSE a \in R : slot[a] = i
           new == [i \in Slots |-> IF \E a \in R : slot[a] = i
                                   THEN [d EXCEPT !.to = chosen(i)] ELSE table[i]]
<1>1. Place(table, R, d) = new
  BY DEF Place
<1>2. ASSUME NEW i \in Slots
      PROVE  new[i] \in Task \cup {None} /\ (new[i] # None => DeliveryOK(new[i], keys))
  <2>1. CASE \E a \in R : slot[a] = i
    <3>1. chosen(i) \in R
      <4> HIDE DEF slot
      <4> QED BY <2>1
    <3>2. new[i] = [d EXCEPT !.to = chosen(i)]
      BY <2>1
    <3> HIDE DEF new, chosen
    <3> QED BY <3>1, <3>2
  <2>2. CASE ~ \E a \in R : slot[a] = i
    <3>1. new[i] = table[i]
      BY <2>2
    <3> HIDE DEF new
    <3> QED BY <3>1 DEF Sound
  <2> QED BY <2>1, <2>2
<1>3. new = [i \in Slots |-> new[i]]
  OBVIOUS
<1> HIDE DEF new
<1> QED BY <1>1, <1>2, <1>3 DEF Sound

LEMMA MessageIsOK ==
  ASSUME NEW keys, NEW c \in Conversations, NEW sender \in c.members \cup {System},
         NEW body \in {"text", "files", "nothing"}, NEW a \in c.members \cap Agents
  PROVE  /\ [Message(c, sender, body) EXCEPT !.to = a] \in Task
         /\ DeliveryOK([Message(c, sender, body) EXCEPT !.to = a], keys)
<1> DEFINE d == [to |-> a, from |-> sender, conv |-> c, body |-> body,
                 stage |-> "spawned", target |-> None]
<1>1. [Message(c, sender, body) EXCEPT !.to = a] = d
  BY DEF Message
<1>2. sender \in Actors \cup {System}
  BY ConversationAssumption
<1>3. d \in Task
  BY <1>2 DEF Task
<1>4. DeliveryOK(d, keys)
  BY <1>3 DEF DeliveryOK, Member
<1> QED BY <1>1, <1>3, <1>4

LEMMA PostedIsSound ==
  ASSUME Sound(delivery, credential), NEW c \in Conversations, NEW sender \in c.members,
         NEW body \in {"text", "files", "nothing"}, NEW done
  PROVE  Sound(Posted(c, sender, body, done), credential)
<1> DEFINE table == [i \in Slots |-> IF i \in done THEN None ELSE delivery[i]]
<1>1. Sound(table, credential)
  BY DEF Sound
<1>2. Receivers(c, sender) \subseteq c.members \cap Agents
  BY DEF Receivers
<1>3. \A a \in Receivers(c, sender) :
        /\ [Message(c, sender, body) EXCEPT !.to = a] \in Task
        /\ DeliveryOK([Message(c, sender, body) EXCEPT !.to = a], credential)
  BY <1>2, MessageIsOK
<1>4. Sound(Place(table, Receivers(c, sender), Message(c, sender, body)), credential)
  <2> HIDE DEF table
  <2> QED BY <1>1, <1>3, PlaceIsSound
<1> QED BY <1>4 DEF Posted

-----------------------------------------------------------------------------
(* The steps.                                                              *)

LEMMA InitIsSound == Init => IInv
BY ConversationAssumption DEF Init, IInv, Sound

(* A delivery that goes on or ends leaves the table sound.                 *)
LEMMA StepIsSound ==
  ASSUME Sound(delivery, credential), NEW i \in Slots, NEW d \in Task \cup {None},
         d # None => DeliveryOK(d, credential), delivery' = [delivery EXCEPT ![i] = d]
  PROVE  Sound(delivery', credential)
BY DEF Sound

LEMMA StageChanges ==
  ASSUME NEW d \in Task, DeliveryOK(d, credential), NEW s \in {"spawned", "waiting", "running"}
  PROVE  [d EXCEPT !.stage = s] \in Task /\ DeliveryOK([d EXCEPT !.stage = s], credential)
<1> DEFINE e == [d EXCEPT !.stage = s]
<1>1. e \in Task /\ e.to = d.to /\ e.from = d.from /\ e.conv = d.conv /\ e.stage = s
  BY DEF Task
<1> HIDE DEF e
<1>2. DeliveryOK(e, credential)
  BY <1>1 DEF DeliveryOK, Member
<1> QED BY <1>1, <1>2 DEF e

LEMMA AnswerIsOK ==
  ASSUME IInv, NEW d \in Task, DeliveryOK(d, credential), MayPost(d.to, DeriveTarget(d))
  PROVE  LET e == [d EXCEPT !.stage = "posting", !.target = DeriveTarget(d)]
         IN e \in Task /\ DeliveryOK(e, credential)
<1> DEFINE e == [d EXCEPT !.stage = "posting", !.target = DeriveTarget(d)]
<1>1. /\ DeriveTarget(d) # None /\ credential[d.to]
      /\ DeriveTarget(d) \in Target
      /\ Resolve(d.to, DeriveTarget(d)) \subseteq {d.conv}
  BY DerivedTarget DEF MayPost, IInv, DeliveryOK
<1>2. /\ e \in Task /\ e.to = d.to /\ e.from = d.from /\ e.conv = d.conv
      /\ e.target = DeriveTarget(d)
  BY <1>1 DEF Task
<1> HIDE DEF e
<1>3. DeliveryOK(e, credential)
  BY <1>1, <1>2 DEF DeliveryOK, Member, MayBePosted
<1> QED BY <1>2, <1>3 DEF e

LEMMA TaskStepIsSound ==
  ASSUME IInv, NEW i \in Slots, TaskStep(i)
  PROVE  Sound(delivery', credential)
<1>1. Sound(delivery, credential)
  BY DEF IInv
<1>2. ASSUME NEW s, i \in At(s)
      PROVE  delivery[i] \in Task /\ DeliveryOK(delivery[i], credential)
  BY <1>1, <1>2 DEF At, Sound
<1>3. CASE Prepare(i)
  <2>1. PICK d \in {[delivery[i] EXCEPT !.stage = "waiting"], None} :
          delivery' = [delivery EXCEPT ![i] = d]
    BY <1>3 DEF Prepare
  <2>2. d \in Task \cup {None} /\ (d # None => DeliveryOK(d, credential))
    BY <1>2, <1>3, <2>1, StageChanges DEF Prepare
  <2> QED BY <1>1, <2>1, <2>2, StepIsSound
<1>4. CASE BeginTurn(i)
  <2>1. delivery' = [delivery EXCEPT ![i] = [delivery[i] EXCEPT !.stage = "running"]]
    BY <1>4 DEF BeginTurn
  <2>2. /\ [delivery[i] EXCEPT !.stage = "running"] \in Task
        /\ DeliveryOK([delivery[i] EXCEPT !.stage = "running"], credential)
    BY <1>2, <1>4, StageChanges DEF BeginTurn
  <2> QED BY <1>1, <2>1, <2>2, StepIsSound
<1>5. CASE StaySilent(i) \/ NotDelivered(i)
  <2>1. delivery' = [delivery EXCEPT ![i] = None]
    BY <1>5 DEF StaySilent, NotDelivered
  <2> QED BY <1>1, <2>1, StepIsSound
<1>6. CASE Answer(i)
  <2> DEFINE d == delivery[i]
             e == [d EXCEPT !.stage = "posting", !.target = DeriveTarget(d)]
  <2>1. d \in Task /\ DeliveryOK(d, credential)
    BY <1>2, <1>6 DEF Answer
  <2>2. \/ MayPost(d.to, DeriveTarget(d)) /\ delivery' = [delivery EXCEPT ![i] = e]
        \/ delivery' = [delivery EXCEPT ![i] = None]
    BY <1>6 DEF Answer
  <2>3. MayPost(d.to, DeriveTarget(d)) => e \in Task /\ DeliveryOK(e, credential)
    BY <2>1, AnswerIsOK
  <2> HIDE DEF e
  <2> QED BY <1>1, <2>2, <2>3, StepIsSound
<1>7. CASE Delivered(i)
  <2>1. PICK c \in Resolve(delivery[i].to, delivery[i].target) :
          delivery' = Posted(c, delivery[i].to, "text", {i})
    BY <1>7 DEF Delivered
  <2>2. c \in Conversations /\ delivery[i].to \in c.members
    BY <2>1 DEF Resolve
  <2> QED BY <1>1, <2>1, <2>2, PostedIsSound
<1> QED BY <1>3, <1>4, <1>5, <1>6, <1>7 DEF TaskStep

LEMMA NextIsSound == IInv /\ [Next]_vars => IInv'
<1> SUFFICES ASSUME IInv, [Next]_vars
             PROVE  IInv'
  OBVIOUS
<1> USE DEF frozen
<1>1. CASE UNCHANGED vars
  BY <1>1 DEF vars, IInv
<1>2. CASE \E i \in Slots : TaskStep(i)
  <2>1. PICK i \in Slots : TaskStep(i)
    BY <1>2
  <2>2. Sound(delivery', credential)
    BY <2>1, TaskStepIsSound
  <2>3. UNCHANGED <<frozen, reminders, posts>>
    BY <2>1 DEF TaskStep, Prepare, BeginTurn, StaySilent, Answer, Delivered, NotDelivered
  <2> QED BY <2>2, <2>3 DEF IInv
<1>3. ASSUME NEW p \in People, NEW c \in Conversations,
             NEW body \in {"text", "files", "nothing"}, PersonPosts(p, c, body)
      PROVE  IInv'
  <2>1. Sound(Posted(c, p, body, {}), credential)
    BY <1>3, PostedIsSound DEF PersonPosts, IInv
  <2>2. posts' \in 0..MaxPosts
    BY <1>3, ConversationAssumption DEF PersonPosts, IInv
  <2> QED BY <1>3, <2>1, <2>2 DEF PersonPosts, IInv
<1>4. ASSUME NEW r \in reminders, ReminderFires(r)
      PROVE  IInv'
  <2>1. r.conv \in Conversations /\ r.of \in r.conv.members \cap Agents
    BY DEF IInv, Reminder
  <2>2. \A a \in {r.of} :
          /\ [Message(r.conv, System, "text") EXCEPT !.to = a] \in Task
          /\ DeliveryOK([Message(r.conv, System, "text") EXCEPT !.to = a], credential)
    BY <2>1, MessageIsOK
  <2>3. Sound(Place(delivery, {r.of}, Message(r.conv, System, "text")), credential)
    BY <2>2, PlaceIsSound DEF IInv
  <2> QED BY <1>4, <2>3 DEF ReminderFires, IInv
<1>5. ASSUME NEW i \in Slots, NEW c \in Conversations, CliSend(i, c)
      PROVE  IInv'
  <2>1. Sound(Posted(c, delivery[i].to, "text", {}), credential)
    BY <1>5, PostedIsSound DEF CliSend, IInv
  <2>2. posts' \in 0..MaxPosts
    BY <1>5, ConversationAssumption DEF CliSend, IInv
  <2> QED BY <1>5, <2>1, <2>2 DEF CliSend, IInv
<1>6. ASSUME NEW i \in Slots, CliRemind(i)
      PROVE  IInv'
  <2>1. delivery[i] \in Task /\ Member(delivery[i])
    BY <1>6 DEF CliRemind, At, IInv, Sound, DeliveryOK
  <2>2. LET r == [of |-> delivery[i].to, conv |-> delivery[i].conv]
        IN r \in Reminder /\ r.of \in r.conv.members
    BY <2>1 DEF Member, Task, Reminder
  <2>3. posts' \in 0..MaxPosts
    BY <1>6, ConversationAssumption DEF CliRemind, IInv
  <2> QED BY <1>6, <2>2, <2>3 DEF CliRemind, IInv
<1>7. ASSUME NEW i \in Slots, NEW r \in reminders, CliForget(i, r)
      PROVE  IInv'
  BY <1>7 DEF CliForget, IInv
<1> QED BY <1>1, <1>2, <1>3, <1>4, <1>5, <1>6, <1>7 DEF Next

LEMMA Invariant == Spec => []IInv
BY InitIsSound, NextIsSound, PTL DEF Spec

(* What is being posted has a target and a credential (post_agent_reply,   *)
(* runner.rs 2124-2157).                                                   *)
THEOREM ConversationTypes == Spec => []TypeOK
<1>1. IInv => TypeOK
  BY DEF IInv, Sound, DeliveryOK, MayBePosted, TypeOK, At
<1> QED BY <1>1, Invariant, PTL

(* An answer goes to the conversation the message came from, or nowhere    *)
(* (derive_target, agent/raft_client.rs 274-302), whatever the server's    *)
(* format and however many agents, conversations and deliveries there are. *)
THEOREM AnswersGoBack == Spec => []AnswersWhereAsked
<1>1. IInv => AnswersWhereAsked
  BY DEF IInv, Sound, DeliveryOK, MayBePosted, AnswersWhereAsked, At
<1> QED BY <1>1, Invariant, PTL

=============================================================================
