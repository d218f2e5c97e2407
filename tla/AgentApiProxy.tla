----------------------------- MODULE AgentApiProxy -----------------------------
(***************************************************************************)
(* The local agent-api proxy (proxy.rs), the bundled raft CLI that calls   *)
(* it from within a turn (cli/raft_cli.rs), and the tokens that tie the    *)
(* two together: start_agent writes a new token to a file and installs the *)
(* process that owns it (runner.rs); a turn's tools read the file; the     *)
(* proxy looks the token up and forwards the request with the credential   *)
(* of the process it finds.                                                *)
(*                                                                         *)
(* Tokens are UUIDs.  The name of one that nothing refers to any more may  *)
(* be used again for a new one.                                            *)
(***************************************************************************)
EXTENDS Naturals

CONSTANTS
  Agents,
  Launches,
  Tokens,   (* names for the tokens alive                                  *)
  Turns,    (* RustyCLI turns, each with one CLI call at a time            *)
  None,     (* no process, no start, no turn, no token                     *)
  Absent,   (* there is no such file                                       *)
  Empty     (* the file was truncated, or holds part of a token            *)

(* What matters of an AgentProcess; "written" records whether the write of *)
(* its token file succeeded.                                               *)
Process == [agent : Agents, launch : Launches, token : Tokens,
            credential : BOOLEAN, written : BOOLEAN]
Starting == [process : Process, step : {"write", "fill", "mint", "install"}]

ASSUME AgentApiProxyAssumption ==
  /\ None \notin Agents \cup Launches \cup Tokens \cup Process \cup Starting
  /\ Absent \notin Tokens /\ Empty \notin Tokens /\ Absent # Empty

VARIABLES
  registry,   (* the process installed for each agent                      *)
  start,      (* the start_agent in progress                               *)
  file,       (* the token file of each agent and launch                   *)
  owner,      (* the process each turn has cloned                          *)
  call,       (* where the CLI call of each turn is                        *)
  bearer,     (* the token it has read                                     *)
  sentAs      (* the agent whose credential it was forwarded with          *)

startVars == <<registry, start, file>>
callVars == <<owner, call, bearer, sentAs>>
vars == <<startVars, callVars>>

Init ==
  /\ registry = [a \in Agents |-> None] /\ start = None
  /\ file = [path \in Agents \X Launches |-> Absent]
  /\ owner = [t \in Turns |-> None] /\ call = [t \in Turns |-> "none"]
  /\ bearer = [t \in Turns |-> None] /\ sentAs = [t \in Turns |-> None]

InUse(token) ==
  \/ \E a \in Agents : registry[a] # None /\ registry[a].token = token
  \/ start # None /\ start.process.token = token
  \/ \E path \in Agents \X Launches : file[path] = token
  \/ \E t \in Turns : bearer[t] = token \/ (owner[t] # None /\ owner[t].token = token)

-----------------------------------------------------------------------------
(* Faulty variants, each a mistake the operator it stands for could have   *)
(* held; with it in place the property named here fails.                   *)

(* Accepts: any process with a credential will do (SpeaksForItself).       *)
AcceptsAny(a, token) == registry[a] # None /\ registry[a].credential

(* Fresh: a token is used again while it is in use (TypeOK).               *)
FreshOrNot(token) == TRUE

(* Filled: a token file that exists is not written anew                    *)
(* (TokenFileIsCurrent).                                                   *)
FilledOnce(old, token) == IF old = Absent THEN token ELSE old

-----------------------------------------------------------------------------
(* start_agent, agent:stop and the end of the daemon.                      *)

TokenFile(a, l) == <<a, l>>
Fresh(token) == ~InUse(token)
Path == TokenFile(start.process.agent, start.process.launch)

BeginStart(a, l, token) ==
  /\ start = None /\ Fresh(token)
  /\ start' = [process |-> [agent |-> a, launch |-> l, token |-> token,
                            credential |-> FALSE, written |-> FALSE],
               step |-> "write"]
  /\ UNCHANGED <<registry, file, callVars>>

(* write_proxy_token_file opens the file, which truncates it, and writes;  *)
(* a failure is logged, and the start goes on.                             *)
OpenTokenFile ==
  /\ start # None /\ start.step = "write"
  /\ \/ /\ file' = [file EXCEPT ![Path] = Empty]
        /\ start' = [start EXCEPT !.step = "fill"]
     \/ /\ start' = [start EXCEPT !.step = "mint"]
        /\ UNCHANGED file
  /\ UNCHANGED <<registry, callVars>>

Filled(old, token) == token

FillTokenFile ==
  /\ start # None /\ start.step = "fill"
  /\ \/ /\ file' = [file EXCEPT ![Path] = Filled(@, start.process.token)]
        /\ \E written \in BOOLEAN :
             start' = [process |-> [start.process EXCEPT !.written = written], step |-> "mint"]
     \/ /\ start' = [start EXCEPT !.step = "mint"]
        /\ UNCHANGED file
  /\ UNCHANGED <<registry, callVars>>

(* mint_runner_credential succeeds or fails.                               *)
Mint ==
  /\ start # None /\ start.step = "mint"
  /\ \E minted \in BOOLEAN :
       start' = [process |-> [start.process EXCEPT !.credential = minted], step |-> "install"]
  /\ UNCHANGED <<registry, file, callVars>>

Install ==
  /\ start # None /\ start.step = "install"
  /\ registry' = [registry EXCEPT ![start.process.agent] = start.process]
  /\ start' = None
  /\ UNCHANGED <<file, callVars>>

StopAgent(a) ==
  /\ start = None
  /\ registry' = [registry EXCEPT ![a] = None]
  /\ UNCHANGED <<start, file, callVars>>

(* The proxy goes with the daemon, and the calls on their way with it.     *)
(* The next daemon's proxy has another address, which the turns of this    *)
(* one never learn.                                                        *)
DaemonExit ==
  /\ registry' = [a \in Agents |-> None] /\ start' = None
  /\ owner' = [t \in Turns |-> None] /\ call' = [t \in Turns |-> "none"]
  /\ bearer' = [t \in Turns |-> None] /\ sentAs' = [t \in Turns |-> None]
  /\ UNCHANGED file

-----------------------------------------------------------------------------
(* A turn, and the raft CLI its tools run.                                 *)

BeginTurn(t, a) ==
  /\ owner[t] = None /\ registry[a] # None
  /\ owner' = [owner EXCEPT ![t] = registry[a]]
  /\ UNCHANGED <<startVars, call, bearer, sentAs>>

EndTurn(t) ==
  /\ owner[t] # None /\ call[t] = "none"
  /\ owner' = [owner EXCEPT ![t] = None]
  /\ UNCHANGED <<startVars, call, bearer, sentAs>>

(* resolve_config reads the file the turn's environment names; without one *)
(* the CLI ends with an error.                                             *)
ReadToken(t) ==
  /\ owner[t] # None /\ call[t] = "none"
  /\ LET path == TokenFile(owner[t].agent, owner[t].launch) IN
       /\ file[path] # Absent
       /\ bearer' = [bearer EXCEPT ![t] = file[path]]
  /\ call' = [call EXCEPT ![t] = "sent"]
  /\ UNCHANGED <<startVars, owner, sentAs>>

(* find_by_proxy_token, and the credential of what it finds.               *)
Accepts(a, token) ==
  registry[a] # None /\ registry[a].token = token /\ registry[a].credential

Forward(t, a) ==
  /\ call[t] = "sent" /\ Accepts(a, bearer[t])
  /\ call' = [call EXCEPT ![t] = "forwarded"]
  /\ sentAs' = [sentAs EXCEPT ![t] = a]
  /\ UNCHANGED <<startVars, owner, bearer>>

Deny(t) ==
  /\ call[t] = "sent" /\ \A a \in Agents : ~Accepts(a, bearer[t])
  /\ call' = [call EXCEPT ![t] = "denied"]
  /\ UNCHANGED <<startVars, owner, bearer, sentAs>>

(* The response, or a gateway error, is back and the CLI ends.             *)
Answer(t) ==
  /\ call[t] \in {"forwarded", "denied"}
  /\ call' = [call EXCEPT ![t] = "none"]
  /\ bearer' = [bearer EXCEPT ![t] = None]
  /\ sentAs' = [sentAs EXCEPT ![t] = None]
  /\ UNCHANGED <<startVars, owner>>

-----------------------------------------------------------------------------
Dispatcher ==
  \/ \E a \in Agents, l \in Launches, token \in Tokens : BeginStart(a, l, token)
  \/ OpenTokenFile \/ FillTokenFile \/ Mint \/ Install
  \/ \E a \in Agents : StopAgent(a)

Turn(t) ==
  \/ \E a \in Agents : BeginTurn(t, a) \/ Forward(t, a)
  \/ EndTurn(t) \/ ReadToken(t) \/ Deny(t) \/ Answer(t)

Next == Dispatcher \/ DaemonExit \/ \E t \in Turns : Turn(t)

Spec == Init /\ [][Next]_vars

-----------------------------------------------------------------------------
(* Properties.                                                             *)

Types ==
  /\ registry \in [Agents -> Process \cup {None}]
  /\ start \in Starting \cup {None}
  /\ file \in [Agents \X Launches -> Tokens \cup {Absent, Empty}]
  /\ owner \in [Turns -> Process \cup {None}]
  /\ call \in [Turns -> {"none", "sent", "forwarded", "denied"}]
  /\ bearer \in [Turns -> Tokens \cup {None, Empty}]
  /\ sentAs \in [Turns -> Agents \cup {None}]
  /\ \A a \in Agents : registry[a] # None => registry[a].agent = a

(* Every variable keeps its type, and no two installed processes have the  *)
(* same token.                                                             *)
TypeOK ==
  /\ Types
  /\ \A a, b \in Agents :
       registry[a] # None /\ registry[b] # None /\ registry[a].token = registry[b].token
         => a = b

(* A call is forwarded with the credential of the agent whose turn made    *)
(* it, however starts, stops and ends of the daemon come between the       *)
(* reading of the token and its lookup (proxy.rs:122-138).                 *)
SpeaksForItself ==
  \A t \in Turns : call[t] = "forwarded" => sentAs[t] = owner[t].agent

(* Once its token has been written, an installed process finds it in its   *)
(* file, except while the agent is being started again                     *)
(* (runner.rs:1329-1370).                                                  *)
TokenFileIsCurrent ==
  \A a \in Agents :
    /\ registry[a] # None /\ registry[a].written
    /\ start # None => start.process.agent # a
    => file[TokenFile(a, registry[a].launch)] = registry[a].token

=============================================================================
