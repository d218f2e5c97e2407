--------------------------- MODULE RustyTurnProofs ---------------------------
(***************************************************************************)
(* Proofs about RustyTurn for every capacity of the pipes and any amount   *)
(* of output.                                                              *)
(***************************************************************************)
EXTENDS RustyTurn, SequenceTheorems, WellFoundedInduction, TLAPS

-----------------------------------------------------------------------------
(* The ends of a trimmed text.                                             *)

LEMMA LeastMember ==
  ASSUME NEW S, S \subseteq Nat, S # {}
  PROVE  \E x \in S : \A y \in S : x <= y
<1>1. PICK x \in S : \A y \in S : ~ (<<y, x>> \in OpToRel(<, Nat))
  BY NatLessThanWellFounded, WFMin
<1>2. \A y \in S : ~ (y < x)
  BY <1>1 DEF OpToRel
<1>3. QED  BY <1>2

LEMMA MinIsMember ==
  ASSUME NEW S, S \subseteq Nat, S # {}
  PROVE  Min(S) \in S
BY LeastMember DEF Min

LEMMA MaxIsMember ==
  ASSUME NEW n \in Nat, NEW S, S \subseteq 1..n, S # {}
  PROVE  Max(S) \in S
<1>0. \A i \in S : i \in Int
  OBVIOUS
<1> DEFINE R == {n - i : i \in S}
<1>1. PICK r \in R : \A y \in R : r <= y
  <2>1. R \subseteq Nat /\ R # {}
    <3>1. \A i \in S : n - i \in Nat
      OBVIOUS
    <3>2. QED  BY <3>1
  <2>2. QED  BY <2>1, LeastMember
<1>2. PICK x \in S : r = n - x
  BY <1>1
<1>3. \A i \in S : x >= i
  <2>1. \A i \in S : n - x <= n - i
    BY <1>1, <1>2
  <2>2. QED  BY <1>0, <2>1
<1>4. QED  BY <1>3 DEF Max

LEMMA TrimType ==
  ASSUME NEW s \in Seq(Chunk)
  PROVE  Trim(s) \in Seq(Chunk)
<1> DEFINE shown == {i \in DOMAIN s : s[i] # "blank"}
<1>1. CASE shown = {}
  BY <1>1 DEF Trim
<1>2. CASE shown # {}
  <2>1. Len(s) \in Nat /\ shown \subseteq 1..Len(s)
    OBVIOUS
  <2>2. Min(shown) \in 1..Len(s) /\ Max(shown) \in 1..Len(s)
    <3>1. shown \subseteq Nat
      BY <2>1
    <3>2. Min(shown) \in shown
      BY <1>2, <3>1, MinIsMember
    <3>3. Max(shown) \in shown
      BY <1>2, <2>1, MaxIsMember
    <3>4. QED  BY <2>1, <3>2, <3>3
  <2>3. Trim(s) = SubSeq(s, Min(shown), Max(shown))
    BY <1>2 DEF Trim
  <2> HIDE DEF shown
  <2>4. SubSeq(s, Min(shown), Max(shown)) \in Seq(Chunk)
    BY <2>2, SubSeqProperties
  <2>5. QED  BY <2>3, <2>4
<1>3. QED  BY <1>1, <1>2

-----------------------------------------------------------------------------
(* The inductive invariant.                                                *)

Over == {"idle", "posting", "apologizing"}

(* Nothing is lost between the pipe and the buffer.                        *)
Whole == \A s \in Streams : printed[s] = buffer[s] \o pipe[s]

(* A reader ends when nobody is left who could write.                      *)
EndedIsEmpty ==
  /\ \A s \in Streams : reader[s] = "ended" => pipe[s] = <<>> /\ holders[s] = {}
  /\ child = "writing" => "child" \in holders[blockedOn]

(* A turn is over only with its child gone and its pipes read to the end.  *)
OverIsQuiet ==
  /\ turn \in Over \cup {"collecting"} => ~Alive
  /\ turn \in Over => \A s \in Streams : reader[s] = "ended"
  /\ turn = "killing" => how = "timedOut"
  /\ turn = "collecting" => how \in {"exited", "waitFailed", "timedOut"}

ReplyIsKept ==
  /\ turn = "posting" \/ outcome = "posted" => reply = Trim(printed["out"])
  /\ outcome = "posted" => turn = "idle"

IInv == TypeOK /\ Whole /\ EndedIsEmpty /\ OverIsQuiet /\ ReplyIsKept

LEMMA InitHolds == Init => IInv
<1> SUFFICES ASSUME Init PROVE IInv  OBVIOUS
<1>1. Whole
  BY DEF Init, Whole
<1>2. TypeOK
  BY RustyTurnAssumption DEF Init, TypeOK, Streams
<1>3. QED
  BY <1>1, <1>2 DEF IInv, Init, EndedIsEmpty, OverIsQuiet, ReplyIsKept, Streams, Over, Alive

(* A chunk moves from the pipe to the buffer, or comes to the pipe.        *)
LEMMA AppendBehind ==
  ASSUME NEW a \in Seq(Chunk), NEW b \in Seq(Chunk), NEW c \in Chunk
  PROVE  Append(a \o b, c) = a \o Append(b, c)
OBVIOUS

LEMMA HeadMoves ==
  ASSUME NEW a \in Seq(Chunk), NEW b \in Seq(Chunk), b # <<>>
  PROVE  a \o b = Append(a, Head(b)) \o Tail(b)
OBVIOUS

(* A write goes to the end of what was printed.                            *)
LEMMA WriteKeeps ==
  ASSUME TypeOK, Whole, NEW s \in Streams, NEW chunk \in Chunk, WriteTo(s, chunk),
         UNCHANGED <<buffer, holders, reader>>
  PROVE  /\ Whole'
         /\ pipe' \in [Streams -> Seq(Chunk)] /\ printed' \in [Streams -> Seq(Chunk)]
         /\ \A r \in Streams : Len(pipe'[r]) <= PipeCapacity
         /\ \A r \in Streams \ {s} : pipe'[r] = pipe[r] /\ printed'[r] = printed[r]
<1> DEFINE piped == Append(pipe[s], chunk)
           shown == Append(printed[s], chunk)
<1>1. /\ pipe[s] \in Seq(Chunk) /\ printed[s] \in Seq(Chunk) /\ buffer[s] \in Seq(Chunk)
      /\ printed[s] = buffer[s] \o pipe[s]
  BY DEF TypeOK, Whole
<1>2. shown = buffer[s] \o piped
  BY <1>1, AppendBehind
<1>3. piped \in Seq(Chunk) /\ shown \in Seq(Chunk) /\ Len(piped) <= PipeCapacity
  BY <1>1, AppendProperties, LenProperties, RustyTurnAssumption DEF WriteTo
<1>4. pipe' = [pipe EXCEPT ![s] = piped] /\ printed' = [printed EXCEPT ![s] = shown]
  BY DEF WriteTo
<1> HIDE DEF piped, shown
<1>5. QED
  BY <1>2, <1>3, <1>4 DEF Whole, TypeOK

LEMMA ChildHolds == IInv /\ Child => IInv'
<1> SUFFICES ASSUME IInv, Child PROVE IInv'  OBVIOUS
<1> USE DEF IInv, turnVars, pipeVars, childVars
<1>1. CASE \E s \in Streams : ChildBeginsWrite(s)
  BY <1>1
  DEF ChildBeginsWrite, TypeOK, Whole, EndedIsEmpty, OverIsQuiet, ReplyIsKept, Alive, Over
<1>2. CASE \E chunk \in Chunk : ChildWrites(chunk)
  <2>1. PICK chunk \in Chunk : ChildWrites(chunk)
    BY <1>2
  <2>2. blockedOn \in Streams
    BY DEF TypeOK
  <2>3. /\ Whole'
        /\ pipe' \in [Streams -> Seq(Chunk)] /\ printed' \in [Streams -> Seq(Chunk)]
        /\ \A r \in Streams : Len(pipe'[r]) <= PipeCapacity
        /\ \A r \in Streams \ {blockedOn} : pipe'[r] = pipe[r] /\ printed'[r] = printed[r]
    BY <2>1, <2>2, WriteKeeps DEF ChildWrites
  <2>4. TypeOK'
    BY <2>1, <2>3 DEF ChildWrites, TypeOK
  <2>5. EndedIsEmpty' /\ OverIsQuiet' /\ ReplyIsKept'
    BY <2>1, <2>2, <2>3 DEF ChildWrites, EndedIsEmpty, OverIsQuiet, ReplyIsKept, Alive, Over
  <2>6. QED  BY <2>3, <2>4, <2>5
<1>3. CASE (\E ok \in BOOLEAN : ChildExits(ok)) \/ ChildDies
  <2>1. TypeOK'
    BY <1>3 DEF ChildExits, ChildDies, Held, TypeOK
  <2>2. Whole' /\ EndedIsEmpty' /\ OverIsQuiet' /\ ReplyIsKept'
    BY <1>3
    DEF ChildExits, ChildDies, Held, Whole, EndedIsEmpty, OverIsQuiet, ReplyIsKept, Alive, Over
  <2>3. QED  BY <2>1, <2>2
<1>4. CASE ChildHangs
  BY <1>4 DEF ChildHangs, TypeOK, Whole, EndedIsEmpty, OverIsQuiet, ReplyIsKept, Alive, Over
<1>5. CASE ChildCloses
  BY <1>5
  DEF ChildCloses, Held, TypeOK, Whole, EndedIsEmpty, OverIsQuiet, ReplyIsKept, Alive, Over
<1>6. QED  BY <1>1, <1>2, <1>3, <1>4, <1>5 DEF Child

LEMMA ToolHolds == IInv /\ Tool => IInv'
<1> SUFFICES ASSUME IInv, Tool PROVE IInv'  OBVIOUS
<1> USE DEF IInv, turnVars, childVars
<1>1. CASE ToolStarts
  BY <1>1
  DEF ToolStarts, TypeOK, Whole, EndedIsEmpty, OverIsQuiet, ReplyIsKept, Alive, Over
<1>2. CASE \E chunk \in Chunk : ToolWrites(chunk)
  <2>1. PICK chunk \in Chunk : ToolWrites(chunk)
    BY <1>2
  <2>2. "out" \in Streams
    BY DEF Streams
  <2>3. /\ Whole'
        /\ pipe' \in [Streams -> Seq(Chunk)] /\ printed' \in [Streams -> Seq(Chunk)]
        /\ \A r \in Streams : Len(pipe'[r]) <= PipeCapacity
        /\ \A r \in Streams \ {"out"} : pipe'[r] = pipe[r] /\ printed'[r] = printed[r]
    BY <2>1, <2>2, WriteKeeps DEF ToolWrites
  <2>4. TypeOK'
    BY <2>1, <2>3 DEF ToolWrites, TypeOK
  <2>5. EndedIsEmpty' /\ OverIsQuiet' /\ ReplyIsKept'
    BY <2>1, <2>2, <2>3 DEF ToolWrites, EndedIsEmpty, OverIsQuiet, ReplyIsKept, Alive, Over
  <2>6. QED  BY <2>3, <2>4, <2>5
<1>3. CASE ToolEnds
  BY <1>3
  DEF ToolEnds, Held, TypeOK, Whole, EndedIsEmpty, OverIsQuiet, ReplyIsKept, Alive, Over
<1>4. QED  BY <1>1, <1>2, <1>3 DEF Tool

LEMMA ReaderHolds ==
  ASSUME IInv, NEW s \in Streams, Reader(s)
  PROVE  IInv'
<1> USE DEF IInv, turnVars, childVars
<1>1. CASE Read(s)
  <2> DEFINE kept == Append(buffer[s], Head(pipe[s]))
             left == Tail(pipe[s])
  <2>1. /\ pipe[s] \in Seq(Chunk) /\ pipe[s] # <<>> /\ buffer[s] \in Seq(Chunk)
        /\ printed[s] = buffer[s] \o pipe[s]
    BY <1>1 DEF Read, TypeOK, Whole
  <2>2. /\ left \in Seq(Chunk) /\ kept \in Seq(Chunk) /\ Len(left) <= Len(pipe[s])
    BY <2>1, HeadTailProperties
  <2>3. printed[s] = kept \o left
    BY <2>1, HeadMoves
  <2>4. buffer' = [buffer EXCEPT ![s] = kept] /\ pipe' = [pipe EXCEPT ![s] = left]
    BY <1>1 DEF Read
  <2> HIDE DEF kept, left
  <2>5. Len(left) <= PipeCapacity
    BY <2>1, <2>2, LenProperties, RustyTurnAssumption DEF TypeOK
  <2>6. TypeOK' /\ Whole'
    <3>1. TypeOK'
      BY <1>1, <2>2, <2>4, <2>5 DEF Read, TypeOK
    <3>2. Whole'
      BY <1>1, <2>3, <2>4 DEF Read, TypeOK, Whole
    <3>3. QED  BY <3>1, <3>2
  <2>7. EndedIsEmpty' /\ OverIsQuiet' /\ ReplyIsKept'
    BY <1>1, <2>4 DEF Read, TypeOK, EndedIsEmpty, OverIsQuiet, ReplyIsKept, Alive, Over
  <2>8. QED  BY <2>6, <2>7
<1>2. CASE ReadToEnd(s)
  BY <1>2
  DEF ReadToEnd, TypeOK, Whole, EndedIsEmpty, OverIsQuiet, ReplyIsKept, Alive, Over
<1>3. QED  BY <1>1, <1>2 DEF Reader

-----------------------------------------------------------------------------
(* What becomes of the result.                                             *)

LEMMA ReactionIs ==
  ASSUME NEW text
  PROVE  /\ Reaction(text) \in {"silent", "panicked", "posting"}
         /\ Reaction(text) = "posting" => text # <<>>
BY Zenon DEF Reaction

LEMMA ResultIs ==
  ASSUME NEW text, how \in {"exited", "waitFailed", "timedOut"}
  PROVE  Result(text) \in {"apologize", "panic", "answer"}
<1>1. AfterTimeout(text) \in {"apologize", "panic", "answer"}
  BY Zenon DEF AfterTimeout
<1>2. AfterExit(text) \in {"apologize", "panic", "answer"}
  BY Zenon DEF AfterExit
<1>3. QED  BY <1>1, <1>2, Zenon DEF Result

(* A turn that ends has one of four ends.                                  *)
LEMMA CollectCases ==
  ASSUME Collect, OverIsQuiet
  PROVE  /\ turn = "collecting" /\ BothRead /\ UNCHANGED <<how, childVars, pipeVars>>
         /\ \/ turn' = "apologizing" /\ UNCHANGED <<reply, outcome>>
            \/ turn' = "idle" /\ outcome' = "panicked" /\ UNCHANGED reply
            \/ turn' = "idle" /\ outcome' = "silent" /\ UNCHANGED reply
            \/ /\ turn' = "posting" /\ reply' = Trim(buffer["out"]) /\ UNCHANGED outcome
               /\ reply' # <<>>
<1> DEFINE text == Trim(buffer["out"])
<1>1. turn = "collecting" /\ BothRead /\ UNCHANGED <<how, childVars, pipeVars>>
  BY DEF Collect
<1>2. Result(text) \in {"apologize", "panic", "answer"}
  BY <1>1, ResultIs DEF OverIsQuiet
<1>3. /\ Reaction(text) \in {"silent", "panicked", "posting"}
      /\ Reaction(text) = "posting" => text # <<>>
  BY ReactionIs
<1> HIDE DEF text
<1>4. CASE Result(text) = "apologize"
  BY <1>1, <1>4, Zenon DEF Collect, text
<1>5. CASE Result(text) = "panic" \/ (Result(text) = "answer" /\ Reaction(text) = "panicked")
  BY <1>1, <1>5, Zenon DEF Collect, text
<1>6. CASE Result(text) = "answer" /\ Reaction(text) = "silent"
  BY <1>1, <1>6, Zenon DEF Collect, text
<1>7. CASE Result(text) = "answer" /\ Reaction(text) = "posting"
  BY <1>1, <1>3, <1>7, Zenon DEF Collect, text
<1>8. QED  BY <1>2, <1>3, <1>4, <1>5, <1>6, <1>7

LEMMA TurnHolds == IInv /\ Turn => IInv'
<1> SUFFICES ASSUME IInv, Turn PROVE IInv'  OBVIOUS
<1> USE DEF IInv, pipeVars, childVars
<1>1. CASE Spawn
  <2>1. TypeOK'
    BY <1>1, RustyTurnAssumption DEF Spawn, TypeOK
  <2>2. Whole'
    BY <1>1 DEF Spawn, Whole
  <2>3. EndedIsEmpty' /\ OverIsQuiet' /\ ReplyIsKept'
    BY <1>1 DEF Spawn, EndedIsEmpty, OverIsQuiet, ReplyIsKept, Over
  <2>4. QED  BY <2>1, <2>2, <2>3
<1>2. CASE SpawnFails
  BY <1>2 DEF SpawnFails, TypeOK, Whole, EndedIsEmpty, OverIsQuiet, ReplyIsKept, Alive, Over
<1>3. CASE WaitReturns \/ WaitFails
  BY <1>3
  DEF WaitReturns, WaitFails, TypeOK, Whole, EndedIsEmpty, OverIsQuiet, ReplyIsKept, Alive, Over
<1>4. CASE Timeout
  BY <1>4
  DEF Timeout, AfterSignal, TypeOK, Whole, EndedIsEmpty, OverIsQuiet, ReplyIsKept, Alive, Over
<1>5. CASE Reaped
  BY <1>5
  DEF Reaped, Exited, TypeOK, Whole, EndedIsEmpty, OverIsQuiet, ReplyIsKept, Alive, Over
<1>6. CASE Collect
  <2>1. /\ buffer["out"] \in Seq(Chunk) /\ pipe["out"] = <<>>
        /\ printed["out"] = buffer["out"] \o pipe["out"]
    BY <1>6, CollectCases DEF BothRead, TypeOK, Whole, EndedIsEmpty, Streams
  <2>2. printed["out"] = buffer["out"]
    BY <2>1, ConcatEmptySeq
  <2>3. Trim(buffer["out"]) \in Seq(Chunk)
    BY <2>1, TrimType
  <2>4. TypeOK'
    BY <1>6, <2>3, CollectCases DEF TypeOK
  <2>5. Whole' /\ EndedIsEmpty' /\ OverIsQuiet' /\ ReplyIsKept'
    BY <1>6, <2>2, CollectCases
    DEF BothRead, Whole, EndedIsEmpty, OverIsQuiet, ReplyIsKept, Alive, Over
  <2>6. QED  BY <2>4, <2>5
<1>7. CASE PostReply
  BY <1>7 DEF PostReply, TypeOK, Whole, EndedIsEmpty, OverIsQuiet, ReplyIsKept, Alive, Over
<1>8. QED  BY <1>1, <1>2, <1>3, <1>4, <1>5, <1>6, <1>7 DEF Turn

-----------------------------------------------------------------------------
LEMMA InvariantHolds == Spec => []IInv
<1>1. IInv /\ [Next]_vars => IInv'
  <2> SUFFICES ASSUME IInv, UNCHANGED vars PROVE IInv'
    BY ChildHolds, ToolHolds, ReaderHolds, TurnHolds DEF Next
  <2>1. QED
    BY DEF vars, turnVars, pipeVars, childVars, IInv, TypeOK, Whole, EndedIsEmpty, OverIsQuiet,
           ReplyIsKept, Alive
<1>2. QED  BY <1>1, InitHolds, PTL DEF Spec

(* Every variable keeps its type; no pipe overflows, and what is posted is *)
(* never empty.                                                            *)
THEOREM TurnKeepsTypes == Spec => []TypeOK
BY InvariantHolds, PTL DEF IInv

(* A reply that is posted is all the child and its tools printed, trimmed, *)
(* however the child ended and whoever held its pipes (run_one_turn).      *)
THEOREM RepliesAreWhole == Spec => []ReplyIsWhole
<1>1. IInv => ReplyIsWhole
  BY DEF IInv, ReplyIsKept, ReplyIsWhole
<1>2. QED  BY <1>1, InvariantHolds, PTL

(* When a turn is over its child has exited (the kill of run_one_turn).    *)
THEOREM NoChildIsLeft == Spec => []ChildIsGone
<1>1. IInv => ChildIsGone
  BY DEF IInv, OverIsQuiet, ChildIsGone, Over
<1>2. QED  BY <1>1, InvariantHolds, PTL

=============================================================================
