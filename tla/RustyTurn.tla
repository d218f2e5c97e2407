------------------------------- MODULE RustyTurn -------------------------------
(***************************************************************************)
(* One RustyCLI turn (agent/process.rs, run_one_turn) and what             *)
(* run_agent_turn makes of its result (runner.rs): the child, a tool the   *)
(* child starts and that inherits its pipes, the two tasks that read the   *)
(* pipes, the timeout and the kill, and the reply, silence or apology that *)
(* follows.  Turns of one agent come one after the other here; how they    *)
(* exclude each other is the subject of AgentLifecycle.                    *)
(*                                                                         *)
(* Output comes in chunks.  "marker" is one that reads NO_REPLY, "blank"   *)
(* is white space, and "wide" is text whose eighth byte from either end is *)
(* inside a character.                                                     *)
(***************************************************************************)
EXTENDS Naturals, Sequences, FiniteSetsExt

CONSTANTS
  PipeCapacity,   (* chunks a pipe of the operating system holds           *)
  MaxChunks       (* bound: chunks printed to a stream in a turn           *)

ASSUME RustyTurnAssumption ==
  PipeCapacity \in Nat \ {0} /\ MaxChunks \in Nat

VARIABLES
  turn,      (* where run_agent_turn is                                    *)
  how,       (* how the wait for the child ended                           *)
  child,     (* the RustyCLI process                                       *)
  blockedOn, (* the stream a "writing" child prints to                     *)
  success,   (* the exit status                                            *)
  holders,   (* the processes that hold the write end of each pipe         *)
  pipe,      (* what is in each pipe                                       *)
  reader,    (* the task that reads each pipe                              *)
  buffer,    (* what it has read                                           *)
  printed,   (* everything printed to each stream                          *)
  reply,     (* the text run_one_turn returned, trimmed                    *)
  outcome    (* what became of the delivery                                *)

turnVars == <<turn, how, reply, outcome>>
childVars == <<child, blockedOn, success>>
pipeVars == <<holders, pipe, reader, buffer, printed>>
vars == <<turnVars, childVars, pipeVars>>

Streams == {"out", "err"}
Chunk == {"text", "marker", "blank", "wide"}
(* What is printed to stderr is only logged.                               *)
ChunksOf(s) == IF s = "out" THEN Chunk ELSE {"text"}

Alive == child \in {"running", "writing", "hung", "dying"}

Init ==
  /\ turn = "idle" /\ how = "none" /\ reply = <<>> /\ outcome = "none"
  /\ child = "none" /\ blockedOn = "out" /\ success = TRUE
  /\ holders = [s \in Streams |-> {}]
  /\ pipe = [s \in Streams |-> <<>>]
  /\ reader = [s \in Streams |-> "ended"]
  /\ buffer = [s \in Streams |-> <<>>]
  /\ printed = [s \in Streams |-> <<>>]

-----------------------------------------------------------------------------
(* Faulty variants, each a mistake the operator it stands for could have   *)
(* held; with it in place the property named here fails.                   *)

(* MayRead: the pipes are read once the child has exited                   *)
(* (OnlyToolsHoldTurns).                                                   *)
MayReadAfterwards(s) == turn = "collecting"

(* BothRead: what was read by the time of the exit is taken for all        *)
(* (ReplyIsWhole).                                                         *)
BothReadAtOnce == TRUE

(* Exited: the child is not waited for after the kill (ChildIsGone).       *)
ExitedOrKilled == child \in {"dying", "exited"}

-----------------------------------------------------------------------------
(* The text of a reply.                                                    *)

Trim(s) ==
  LET shown == {i \in DOMAIN s : s[i] # "blank"}
  IN  IF shown = {} THEN <<>> ELSE SubSeq(s, Min(shown), Max(shown))

Ends(text) == {text[1], text[Len(text)]}

(* is_no_reply_response, which slices eight bytes off both ends.           *)
SlicePanics(text) == text # <<>> /\ "wide" \in Ends(text)
NoReply(text) == text # <<>> /\ "marker" \in Ends(text)

(* Faulty: an empty text is a reply like any other (TypeOK).               *)
ReactionToAny(text) ==
  CASE SlicePanics(text)                     -> "panicked"
    [] ~SlicePanics(text) /\ NoReply(text)   -> "silent"
    [] OTHER                                 -> "posting"

(* What run_agent_turn does with a text that run_one_turn returned.        *)
Reaction(text) ==
  CASE text = <<>>                           -> "silent"
    [] text # <<>> /\ SlicePanics(text)      -> "panicked"
    [] ~SlicePanics(text) /\ NoReply(text)   -> "silent"
    [] OTHER                                 -> "posting"

(* run_one_turn's result: "answer" for the text, or an error.              *)
AfterTimeout(text) ==
  CASE text = <<>>                           -> "apologize"
    [] text # <<>> /\ SlicePanics(text)      -> "panic"
    [] ~SlicePanics(text) /\ NoReply(text)   -> "apologize"
    [] OTHER                                 -> "answer"

AfterExit(text) == IF text = <<>> /\ ~success THEN "apologize" ELSE "answer"

Result(text) ==
  CASE how = "timedOut"   -> AfterTimeout(text)
    [] how = "exited"     -> AfterExit(text)
    [] how = "waitFailed" -> "apologize"

-----------------------------------------------------------------------------
(* The child and its tool.                                                 *)

Held(p) == [s \in Streams |-> holders[s] \ {p}]

WriteTo(s, chunk) ==
  /\ Len(pipe[s]) < PipeCapacity
  /\ pipe' = [pipe EXCEPT ![s] = Append(@, chunk)]
  /\ printed' = [printed EXCEPT ![s] = Append(@, chunk)]

(* A write blocks while the pipe is full.                                  *)
ChildBeginsWrite(s) ==
  /\ child = "running" /\ "child" \in holders[s] /\ Len(printed[s]) < MaxChunks
  /\ child' = "writing" /\ blockedOn' = s
  /\ UNCHANGED <<success, turnVars, pipeVars>>

ChildWrites(chunk) ==
  /\ child = "writing" /\ chunk \in ChunksOf(blockedOn)
  /\ WriteTo(blockedOn, chunk)
  /\ child' = "running"
  /\ UNCHANGED <<blockedOn, success, holders, reader, buffer, turnVars>>

ChildExits(ok) ==
  /\ child = "running"
  /\ child' = "exited" /\ success' = ok /\ holders' = Held("child")
  /\ UNCHANGED <<blockedOn, pipe, reader, buffer, printed, turnVars>>

(* It waits for a model or a tool that does not answer.                    *)
ChildHangs ==
  /\ child = "running"
  /\ child' = "hung"
  /\ UNCHANGED <<blockedOn, success, pipeVars, turnVars>>

(* It closes its output and goes on.                                       *)
ChildCloses ==
  /\ child = "running"
  /\ holders' = Held("child")
  /\ UNCHANGED <<childVars, pipe, reader, buffer, printed, turnVars>>

(* SIGKILL takes effect.                                                   *)
ChildDies ==
  /\ child = "dying"
  /\ child' = "exited" /\ success' = FALSE /\ holders' = Held("child")
  /\ UNCHANGED <<blockedOn, pipe, reader, buffer, printed, turnVars>>

(* A tool inherits the pipes; the kill does not reach it.                  *)
ToolStarts ==
  /\ child = "running"
  /\ holders' = [s \in Streams |-> IF "child" \in holders[s] THEN {"child", "tool"}
                                                             ELSE holders[s]]
  /\ holders' # holders
  /\ UNCHANGED <<childVars, pipe, reader, buffer, printed, turnVars>>

ToolWrites(chunk) ==
  /\ "tool" \in holders["out"] /\ Len(printed["out"]) < MaxChunks
  /\ WriteTo("out", chunk)
  /\ UNCHANGED <<childVars, holders, reader, buffer, turnVars>>

ToolEnds ==
  /\ \E s \in Streams : "tool" \in holders[s]
  /\ holders' = Held("tool")
  /\ UNCHANGED <<childVars, pipe, reader, buffer, printed, turnVars>>

-----------------------------------------------------------------------------
(* The tasks that read the pipes.                                          *)

MayRead(s) == TRUE

Read(s) ==
  /\ reader[s] = "reading" /\ pipe[s] # <<>> /\ MayRead(s)
  /\ buffer' = [buffer EXCEPT ![s] = Append(@, Head(pipe[s]))]
  /\ pipe' = [pipe EXCEPT ![s] = Tail(@)]
  /\ UNCHANGED <<holders, reader, printed, childVars, turnVars>>

ReadToEnd(s) ==
  /\ reader[s] = "reading" /\ pipe[s] = <<>> /\ holders[s] = {}
  /\ reader' = [reader EXCEPT ![s] = "ended"]
  /\ UNCHANGED <<holders, pipe, buffer, printed, childVars, turnVars>>

-----------------------------------------------------------------------------
(* run_one_turn, and the end of run_agent_turn.                            *)

Spawn ==
  /\ turn = "idle"
  /\ turn' = "waiting" /\ how' = "none" /\ reply' = <<>> /\ outcome' = "none"
  /\ child' = "running" /\ success' = TRUE /\ UNCHANGED blockedOn
  /\ holders' = [s \in Streams |-> {"child"}]
  /\ reader' = [s \in Streams |-> "reading"]
  /\ pipe' = [s \in Streams |-> <<>>]
  /\ buffer' = pipe' /\ printed' = pipe'

SpawnFails ==
  /\ turn = "idle"
  /\ turn' = "apologizing" /\ how' = "spawnFailed" /\ reply' = <<>> /\ outcome' = "none"
  /\ UNCHANGED <<childVars, pipeVars>>

Exited == child = "exited"

WaitReturns ==
  /\ turn = "waiting" /\ child = "exited"
  /\ turn' = "collecting" /\ how' = "exited"
  /\ UNCHANGED <<reply, outcome, childVars, pipeVars>>

(* waitpid finds no child only when it has exited and was reaped.          *)
WaitFails ==
  /\ turn = "waiting" /\ child = "exited"
  /\ turn' = "collecting" /\ how' = "waitFailed"
  /\ UNCHANGED <<reply, outcome, childVars, pipeVars>>

(* A child that has exited cannot be killed any more.                      *)
AfterSignal == IF Alive THEN "dying" ELSE child

Timeout ==
  /\ turn = "waiting"
  /\ turn' = "killing" /\ how' = "timedOut"
  /\ child' = AfterSignal
  /\ UNCHANGED <<blockedOn, success, reply, outcome, pipeVars>>

Reaped ==
  /\ turn = "killing" /\ Exited
  /\ turn' = "collecting"
  /\ UNCHANGED <<how, reply, outcome, childVars, pipeVars>>

(* Both reading tasks are awaited, and the result is acted on.             *)
BothRead == \A s \in Streams : reader[s] = "ended"

Collect ==
  /\ turn = "collecting" /\ BothRead
  /\ LET text == Trim(buffer["out"]) IN
       CASE Result(text) = "apologize" ->
              turn' = "apologizing" /\ UNCHANGED <<reply, outcome>>
         [] Result(text) = "panic" \/ (Result(text) = "answer" /\ Reaction(text) = "panicked") ->
              turn' = "idle" /\ outcome' = "panicked" /\ UNCHANGED reply
         [] Result(text) = "answer" /\ Reaction(text) = "silent" ->
              turn' = "idle" /\ outcome' = "silent" /\ UNCHANGED reply
         [] Result(text) = "answer" /\ Reaction(text) = "posting" ->
              turn' = "posting" /\ reply' = text /\ UNCHANGED outcome
  /\ UNCHANGED <<how, childVars, pipeVars>>

(* post_agent_reply: without a credential or a target, or when the server  *)
(* refuses, the reply is lost.                                             *)
PostReply ==
  /\ turn \in {"posting", "apologizing"}
  /\ turn' = "idle"
  /\ outcome' \in {IF turn = "posting" THEN "posted" ELSE "apologized", "lost"}
  /\ UNCHANGED <<how, reply, childVars, pipeVars>>

-----------------------------------------------------------------------------
Child ==
  \/ \E s \in Streams : ChildBeginsWrite(s)
  \/ \E chunk \in Chunk : ChildWrites(chunk)
  \/ \E ok \in BOOLEAN : ChildExits(ok)
  \/ ChildHangs \/ ChildCloses \/ ChildDies
Tool == ToolStarts \/ (\E chunk \in Chunk : ToolWrites(chunk)) \/ ToolEnds
Reader(s) == Read(s) \/ ReadToEnd(s)
Turn ==
  \/ Spawn \/ SpawnFails \/ WaitReturns \/ WaitFails \/ Timeout \/ Reaped
  \/ Collect \/ PostReply

Next == Child \/ Tool \/ (\E s \in Streams : Reader(s)) \/ Turn

Spec == Init /\ [][Next]_vars

(* Fairness.  The runtime polls what can go on; posts are taken to end; a  *)
(* child that can go on does so until it exits or hangs; SIGKILL takes     *)
(* effect.  The timer is only relied on for a child that hangs, so that    *)
(* what holds of the others holds without it.  Nothing is assumed of a     *)
(* tool, which may outlive its turn for ever.                              *)
CodeFairness ==
  /\ WF_vars(WaitReturns \/ Reaped \/ Collect \/ PostReply)
  /\ \A s \in Streams : WF_vars(Reader(s))
  /\ WF_vars(\E chunk \in Chunk : ChildWrites(chunk))
  /\ WF_vars(ChildHangs \/ \E ok \in BOOLEAN : ChildExits(ok))
  /\ WF_vars(ChildDies)
  /\ WF_vars(child = "hung" /\ Timeout)

CodeSpec == Spec /\ CodeFairness

-----------------------------------------------------------------------------
(* Properties.                                                             *)

(* Every variable keeps its type; in particular no pipe overflows, and     *)
(* what is being posted is not empty.                                      *)
TypeOK ==
  /\ turn \in {"idle", "waiting", "killing", "collecting", "posting", "apologizing"}
  /\ how \in {"none", "spawnFailed", "exited", "waitFailed", "timedOut"}
  /\ child \in {"none", "running", "writing", "hung", "dying", "exited"}
  /\ blockedOn \in Streams /\ success \in BOOLEAN
  /\ holders \in [Streams -> SUBSET {"child", "tool"}]
  /\ pipe \in [Streams -> Seq(Chunk)] /\ \A s \in Streams : Len(pipe[s]) <= PipeCapacity
  /\ reader \in [Streams -> {"reading", "ended"}]
  /\ buffer \in [Streams -> Seq(Chunk)] /\ printed \in [Streams -> Seq(Chunk)]
  /\ reply \in Seq(Chunk) /\ (turn = "posting" => reply # <<>>)
  /\ outcome \in {"none", "posted", "lost", "silent", "apologized", "panicked"}

(* A reply is everything the child and its tools printed, trimmed: nothing *)
(* that was still in a pipe at the exit or the kill is cut off             *)
(* (process.rs:868-907).                                                   *)
ReplyIsWhole == outcome = "posted" => reply = Trim(printed["out"])

(* When a turn is over its child is gone, so the next turn of the agent    *)
(* does not meet it in the workspace (process.rs:905-907,                  *)
(* runner.rs:2016-2018).                                                   *)
ChildIsGone == turn \in {"idle", "posting", "apologizing"} => ~Alive

(* A turn always comes to its end, whatever its child does, unless a tool  *)
(* that the child has left behind holds a pipe for ever: then the readers  *)
(* are awaited, and nothing bounds that wait (process.rs:894-909).         *)
OnlyToolsHoldTurns ==
  \/ []<>(turn = "idle")
  \/ <>[](turn = "collecting" /\ \E s \in Streams : "tool" \in holders[s])

(* The timeout "prevents a hung tool/LLM call from blocking the agent      *)
(* forever" (process.rs:38-41): a turn that waits for its child ends.      *)
TurnReturns == turn = "waiting" ~> turn = "idle"

=============================================================================
