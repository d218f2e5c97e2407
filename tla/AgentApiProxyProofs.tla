------------------------- MODULE AgentApiProxyProofs -------------------------
(***************************************************************************)
(* Proofs about AgentApiProxy for every set of agents, launches, token     *)
(* names and turns.                                                        *)
(***************************************************************************)
EXTENDS AgentApiProxy, TLAPS

(* Whatever refers to a token does so for an agent: a process for its own, *)
(* a file for the one it was written for, a call for its turn's.           *)
Names(k, a) ==
  \/ registry[a] # None /\ registry[a].token = k
  \/ start # None /\ start.process.token = k /\ start.process.agent = a
  \/ \E l \in Launches : file[TokenFile(a, l)] = k
  \/ \E t \in Turns : /\ owner[t] # None /\ owner[t].agent = a
                      /\ owner[t].token = k \/ bearer[t] = k

OneAgentPerToken ==
  \A k \in Tokens : \A a, b \in Agents : Names(k, a) /\ Names(k, b) => a = b

(* A write that succeeded is in the file the start is about.               *)
WrittenIsFiled ==
  start # None /\ start.process.written
    => start.step \in {"mint", "install"} /\ file[Path] = start.process.token

(* A call belongs to a turn.                                               *)
CallsHaveOwners == \A t \in Turns : call[t] # "none" => owner[t] # None
IdleHasNoBearer == \A t \in Turns : call[t] = "none" => bearer[t] = None

IInv == /\ Types /\ OneAgentPerToken /\ WrittenIsFiled
        /\ CallsHaveOwners /\ IdleHasNoBearer
        /\ TokenFileIsCurrent /\ SpeaksForItself

-----------------------------------------------------------------------------
LEMMA InitHolds == Init => IInv
BY AgentApiProxyAssumption
DEF Init, IInv, Types, OneAgentPerToken, Names, WrittenIsFiled, CallsHaveOwners,
    IdleHasNoBearer, TokenFileIsCurrent, SpeaksForItself, TokenFile

LEMMA TypesGiveTypeOK == Types /\ OneAgentPerToken => TypeOK
BY DEF Types, OneAgentPerToken, Names, TypeOK, Process

(* No step but the beginning of a start gives a token a new name, and that *)
(* one takes a token nothing refers to.                                    *)
LEMMA TokensStayWithTheirAgents ==
  ASSUME OneAgentPerToken,
         \A k \in Tokens : \A a \in Agents : Names(k, a)' => Names(k, a)
  PROVE  OneAgentPerToken'
BY DEF OneAgentPerToken

(* Writing the file of the start leaves the other agents' files alone.     *)
LEMMA OtherFilesStay ==
  ASSUME Types, TokenFileIsCurrent, registry' = registry,
         NEW s \in Agents, NEW l \in Launches, NEW content,
         file' = [file EXCEPT ![<<s, l>>] = content] \/ file' = file,
         start # None /\ start.process.agent = s,
         start' # None /\ start'.process.agent = s
  PROVE  TokenFileIsCurrent'
<1> SUFFICES ASSUME NEW a \in Agents, registry[a] # None, registry[a].written, a # s
             PROVE  file'[<<a, registry[a].launch>>] = registry[a].token
  BY DEF TokenFileIsCurrent, TokenFile
<1>1. <<a, registry[a].launch>> \in Agents \X Launches
  BY DEF Types, Process
<1>2. file[<<a, registry[a].launch>>] = registry[a].token
  BY DEF TokenFileIsCurrent, TokenFile
<1>3. QED  BY <1>1, <1>2 DEF Types

LEMMA UnusedHasNoNames ==
  ASSUME NEW k \in Tokens, ~InUse(k), Types
  PROVE  \A a \in Agents : ~Names(k, a)
BY DEF InUse, Names, TokenFile, Types

-----------------------------------------------------------------------------
(* The dispatcher.                                                         *)

LEMMA BeginStartHolds ==
  ASSUME IInv, NEW a \in Agents, NEW l \in Launches, NEW token \in Tokens,
         BeginStart(a, l, token)
  PROVE  IInv'
<1>1. Types'
  BY AgentApiProxyAssumption DEF IInv, Types, BeginStart, callVars, Starting, Process
<1>2. \A b \in Agents : ~Names(token, b)
  BY UnusedHasNoNames DEF IInv, BeginStart, Fresh
<1>3. OneAgentPerToken'
  BY <1>2 DEF IInv, OneAgentPerToken, Names, BeginStart, callVars
<1>4. WrittenIsFiled'
  BY DEF IInv, WrittenIsFiled, BeginStart
<1>5. TokenFileIsCurrent'
  BY DEF IInv, TokenFileIsCurrent, BeginStart
<1>6. QED
  BY <1>1, <1>3, <1>4, <1>5
  DEF IInv, BeginStart, callVars, CallsHaveOwners, IdleHasNoBearer, SpeaksForItself

LEMMA OpenHolds == IInv /\ OpenTokenFile => IInv'
<1> SUFFICES ASSUME IInv, OpenTokenFile PROVE IInv'  OBVIOUS
<1> USE AgentApiProxyAssumption DEF IInv, OpenTokenFile, callVars, Path, TokenFile
<1>1. /\ start \in Starting /\ start' \in Starting /\ start'.process = start.process
      /\ Path \in Agents \X Launches
      /\ ~start.process.written
  BY DEF Types, Starting, Process, WrittenIsFiled
<1>2. Types'
  BY <1>1 DEF Types
<1>3. OneAgentPerToken'
  <2>1. \A k \in Tokens : \A a \in Agents : Names(k, a)' => Names(k, a)
    BY <1>1 DEF Names, Types
  <2>2. QED  BY <2>1, TokensStayWithTheirAgents
<1>4. WrittenIsFiled'
  BY <1>1 DEF WrittenIsFiled
<1>5. TokenFileIsCurrent'
  <2>1. start.process.agent \in Agents /\ start.process.launch \in Launches
    BY <1>1 DEF Starting, Process
  <2>2. QED  BY <1>1, <2>1, OtherFilesStay
<1>6. QED
  BY <1>2, <1>3, <1>4, <1>5 DEF CallsHaveOwners, IdleHasNoBearer, SpeaksForItself

LEMMA FillHolds == IInv /\ FillTokenFile => IInv'
<1> SUFFICES ASSUME IInv, FillTokenFile PROVE IInv'  OBVIOUS
<1> USE AgentApiProxyAssumption DEF IInv, FillTokenFile, callVars, Path, TokenFile, Filled
<1>1. /\ start \in Starting /\ start' \in Starting
      /\ start'.process.agent = start.process.agent
      /\ start'.process.launch = start.process.launch
      /\ start'.process.token = start.process.token
      /\ start'.step = "mint"
      /\ Path \in Agents \X Launches /\ start.process.token \in Tokens
      /\ ~start.process.written
      /\ ~start'.process.written \/ file' = [file EXCEPT ![Path] = start.process.token]
  <2>1. start \in Starting /\ start.process \in Process /\ ~start.process.written
    BY DEF Types, Starting, WrittenIsFiled
  <2>2. \A w \in BOOLEAN : [start.process EXCEPT !.written = w] \in Process
    BY <2>1 DEF Process
  <2>3. CASE UNCHANGED file /\ start' = [start EXCEPT !.step = "mint"]
    BY <2>1, <2>3 DEF Starting, Process
  <2>4. CASE file' = [file EXCEPT ![Path] = start.process.token]
    BY <2>1, <2>2, <2>4 DEF Starting, Process
  <2>5. QED  BY <2>3, <2>4
<1>2. Types'
  BY <1>1 DEF Types
<1>3. OneAgentPerToken'
  <2>1. \A k \in Tokens : \A a \in Agents : Names(k, a)' => Names(k, a)
    BY <1>1 DEF Names, Types
  <2>2. QED  BY <2>1, TokensStayWithTheirAgents
<1>4. WrittenIsFiled'
  BY <1>1 DEF WrittenIsFiled, Types
<1>5. TokenFileIsCurrent'
  <2>1. start.process.agent \in Agents /\ start.process.launch \in Launches
    BY <1>1 DEF Starting, Process
  <2>2. QED  BY <1>1, <2>1, OtherFilesStay
<1>6. QED
  BY <1>2, <1>3, <1>4, <1>5 DEF CallsHaveOwners, IdleHasNoBearer, SpeaksForItself

LEMMA MintHolds == IInv /\ Mint => IInv'
<1> SUFFICES ASSUME IInv, Mint PROVE IInv'  OBVIOUS
<1> USE AgentApiProxyAssumption DEF IInv, Mint, callVars, Path, TokenFile
<1>1. /\ start \in Starting /\ start' \in Starting
      /\ start'.process.agent = start.process.agent
      /\ start'.process.launch = start.process.launch
      /\ start'.process.token = start.process.token
      /\ start'.process.written = start.process.written
      /\ start'.step = "install"
  <2>1. start \in Starting /\ start.process \in Process
    BY DEF Types, Starting
  <2>2. PICK m \in BOOLEAN :
          start' = [process |-> [start.process EXCEPT !.credential = m], step |-> "install"]
    OBVIOUS
  <2>3. [start.process EXCEPT !.credential = m] \in Process
    BY <2>1 DEF Process
  <2>4. QED  BY <2>1, <2>2, <2>3 DEF Starting, Process
<1>2. Types'
  BY <1>1 DEF Types
<1>3. OneAgentPerToken'
  <2>1. \A k \in Tokens : \A a \in Agents : Names(k, a)' => Names(k, a)
    BY <1>1 DEF Names
  <2>2. QED  BY <2>1, TokensStayWithTheirAgents
<1>4. WrittenIsFiled'
  BY <1>1 DEF WrittenIsFiled
<1>5. TokenFileIsCurrent'
  BY <1>1 DEF TokenFileIsCurrent
<1>6. QED
  BY <1>2, <1>3, <1>4, <1>5 DEF CallsHaveOwners, IdleHasNoBearer, SpeaksForItself

LEMMA InstallHolds == IInv /\ Install => IInv'
<1> SUFFICES ASSUME IInv, Install PROVE IInv'  OBVIOUS
<1> USE AgentApiProxyAssumption DEF IInv, Install, callVars, Path, TokenFile
<1>1. start \in Starting /\ start.process \in Process /\ start.process.agent \in Agents
  BY DEF Types, Starting, Process
<1>2. Types'
  BY <1>1 DEF Types
<1>3. OneAgentPerToken'
  <2>1. \A k \in Tokens : \A a \in Agents : Names(k, a)' => Names(k, a)
    BY <1>1 DEF Names, Types
  <2>2. QED  BY <2>1, TokensStayWithTheirAgents
<1>4. TokenFileIsCurrent'
  BY <1>1 DEF TokenFileIsCurrent, WrittenIsFiled, Types
<1>5. QED
  BY <1>2, <1>3, <1>4
  DEF WrittenIsFiled, CallsHaveOwners, IdleHasNoBearer, SpeaksForItself

LEMMA StopHolds ==
  ASSUME IInv, NEW a \in Agents, StopAgent(a)
  PROVE  IInv'
<1> USE DEF IInv, StopAgent, callVars
<1>1. Types'
  BY DEF Types
<1>2. OneAgentPerToken'
  <2>1. \A k \in Tokens : \A b \in Agents : Names(k, b)' => Names(k, b)
    BY DEF Names, Types
  <2>2. QED  BY <2>1, TokensStayWithTheirAgents
<1>3. TokenFileIsCurrent'
  BY DEF TokenFileIsCurrent, Types
<1>4. QED
  BY <1>1, <1>2, <1>3
  DEF WrittenIsFiled, CallsHaveOwners, IdleHasNoBearer, SpeaksForItself

LEMMA DaemonExitHolds == IInv /\ DaemonExit => IInv'
<1> SUFFICES ASSUME IInv, DaemonExit PROVE IInv'  OBVIOUS
<1> USE DEF IInv, DaemonExit
<1>1. Types'
  BY DEF Types
<1>2. OneAgentPerToken'
  <2>1. \A k \in Tokens : \A b \in Agents : Names(k, b)' => Names(k, b)
    BY DEF Names, Types
  <2>2. QED  BY <2>1, TokensStayWithTheirAgents
<1>3. QED
  BY <1>1, <1>2
  DEF WrittenIsFiled, TokenFileIsCurrent, CallsHaveOwners, IdleHasNoBearer, SpeaksForItself

-----------------------------------------------------------------------------
(* A turn and the CLI call of its tools.                                   *)

LEMMA TurnHolds ==
  ASSUME IInv, NEW t \in Turns, Turn(t)
  PROVE  IInv'
<1> USE AgentApiProxyAssumption DEF IInv, startVars
<1>0. UNCHANGED startVars
  BY DEF Turn, BeginTurn, EndTurn, ReadToken, Forward, Deny, Answer
<1>1. WrittenIsFiled' /\ TokenFileIsCurrent'
  BY <1>0 DEF WrittenIsFiled, TokenFileIsCurrent, Path
<1>2. Types' /\ CallsHaveOwners' /\ IdleHasNoBearer'
  <2>1. CASE \E a \in Agents : BeginTurn(t, a)
    BY <2>1 DEF BeginTurn, Types, CallsHaveOwners, IdleHasNoBearer
  <2>2. CASE EndTurn(t)
    BY <2>2 DEF EndTurn, Types, CallsHaveOwners, IdleHasNoBearer
  <2>3. CASE ReadToken(t)
    <3>1. owner[t] \in Process /\ <<owner[t].agent, owner[t].launch>> \in Agents \X Launches
      BY <2>3 DEF ReadToken, Types, Process
    <3>2. QED  BY <2>3, <3>1 DEF ReadToken, Types, CallsHaveOwners, IdleHasNoBearer, TokenFile
  <2>4. CASE \E a \in Agents : Forward(t, a)
    BY <2>4 DEF Forward, Types, CallsHaveOwners, IdleHasNoBearer
  <2>5. CASE Deny(t)
    BY <2>5 DEF Deny, Types, CallsHaveOwners, IdleHasNoBearer
  <2>6. CASE Answer(t)
    BY <2>6 DEF Answer, Types, CallsHaveOwners, IdleHasNoBearer
  <2>7. QED  BY <2>1, <2>2, <2>3, <2>4, <2>5, <2>6 DEF Turn
<1>3. \A k \in Tokens : \A a \in Agents : Names(k, a)' => Names(k, a)
  <2> SUFFICES ASSUME NEW k \in Tokens, NEW a \in Agents, Names(k, a)'
               PROVE  Names(k, a)
    OBVIOUS
  <2>1. CASE \E b \in Agents : BeginTurn(t, b)
    BY <2>1 DEF BeginTurn, Names, Types, CallsHaveOwners, IdleHasNoBearer
  <2>2. CASE EndTurn(t)
    BY <2>2 DEF EndTurn, Names, Types
  <2>3. CASE ReadToken(t)
    <3>1. owner[t] \in Process /\ owner[t].launch \in Launches
      BY <2>3 DEF ReadToken, Types, Process
    <3>2. QED  BY <2>3, <3>1 DEF ReadToken, Names, Types, TokenFile
  <2>4. CASE (\E b \in Agents : Forward(t, b)) \/ Deny(t)
    BY <2>4 DEF Forward, Deny, Names
  <2>5. CASE Answer(t)
    BY <2>5 DEF Answer, Names, Types
  <2>6. QED  BY <2>1, <2>2, <2>3, <2>4, <2>5 DEF Turn
<1>4. OneAgentPerToken'
  BY <1>3, TokensStayWithTheirAgents
<1>5. SpeaksForItself'
  <2>1. CASE \E a \in Agents : BeginTurn(t, a)
    BY <2>1 DEF BeginTurn, SpeaksForItself, CallsHaveOwners, Types
  <2>2. CASE EndTurn(t) \/ ReadToken(t) \/ Deny(t) \/ Answer(t)
    BY <2>2 DEF EndTurn, ReadToken, Deny, Answer, SpeaksForItself, Types
  <2>3. CASE \E a \in Agents : Forward(t, a)
    <3>1. PICK a \in Agents : Forward(t, a)
      BY <2>3
    <3>2. /\ owner[t] \in Process /\ owner[t] # None
          /\ registry[a] \in Process /\ registry[a].agent = a
      BY <3>1 DEF Forward, Accepts, Types, CallsHaveOwners
    <3>3. bearer[t] \in Tokens /\ owner[t].agent \in Agents
      BY <3>1, <3>2 DEF Forward, Accepts, Process
    <3>4. Names(bearer[t], a) /\ Names(bearer[t], owner[t].agent)
      BY <3>1, <3>2 DEF Forward, Accepts, Names
    <3>5. owner[t].agent = a
      BY <3>3, <3>4 DEF OneAgentPerToken
    <3>6. QED  BY <3>1, <3>5 DEF Forward, SpeaksForItself, Types
  <2>4. QED  BY <2>1, <2>2, <2>3 DEF Turn
<1>6. QED  BY <1>1, <1>2, <1>4, <1>5

-----------------------------------------------------------------------------
LEMMA InvariantHolds == Spec => []IInv
<1>1. IInv /\ [Next]_vars => IInv'
  <2> SUFFICES ASSUME IInv, [Next]_vars PROVE IInv'  OBVIOUS
  <2>1. CASE Dispatcher
    BY <2>1, BeginStartHolds, OpenHolds, FillHolds, MintHolds, InstallHolds, StopHolds
    DEF Dispatcher
  <2>2. CASE UNCHANGED vars
    BY <2>2
    DEF vars, startVars, callVars, IInv, Types, OneAgentPerToken, Names, WrittenIsFiled, Path,
        CallsHaveOwners, IdleHasNoBearer, TokenFileIsCurrent, SpeaksForItself
  <2>3. QED  BY <2>1, <2>2, DaemonExitHolds, TurnHolds DEF Next
<1>2. QED  BY <1>1, InitHolds, PTL DEF Spec

(* Every variable keeps its type, and no two installed processes have the  *)
(* same token.                                                             *)
THEOREM ProxyTypes == Spec => []TypeOK
BY InvariantHolds, TypesGiveTypeOK, PTL DEF IInv

(* A call of a turn's tools is forwarded with the credential of the turn's *)
(* agent and no other (find_by_proxy_token).                               *)
THEOREM CallsSpeakForTheirAgent == Spec => []SpeaksForItself
BY InvariantHolds, PTL DEF IInv

(* Once written, the token of an installed process is the one in its file, *)
(* except while its agent is started again (write_proxy_token_file).       *)
THEOREM TokenFilesAreCurrent == Spec => []TokenFileIsCurrent
BY InvariantHolds, PTL DEF IInv

=============================================================================
