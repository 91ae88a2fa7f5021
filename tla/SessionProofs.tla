--------------------------- MODULE SessionProofs ---------------------------
(* Theorems about Session, for any plays, pids, bounds and places of death: *)
(* its type invariant, that a claimed client speaks for the play the game   *)
(* process loaded, what a recorded session is worth, and that a game has    *)
(* one client.                                                              *)
EXTENDS Session, FiniteSetTheorems, TLAPS

Started == [pid : Pid, play : Play \cup {NoPlay}]
ClientRecord == [play : Play, game : Games, claimed : BOOLEAN, alive : BOOLEAN]
CallRecord == [play : Play \cup {NoPlay}, generation : 0 .. generation,
               claim : Games \cup {NoGame}, game : Games \cup {NoGame},
               client : 0 .. Len(clients)]

(* A call past its first check works for a play; it starts a client for a   *)
(* game it has settled on.                                                  *)
CallOK ==
  /\ pc # "idle" => call.play \in Play
  /\ pc \in {"lookup", "spawn", "register"} => call.game \in Games

(* Sequences only grow at the end. *)
LEMMA AppendsTo ==
  ASSUME NEW S, NEW s \in Seq(S), NEW e \in S
  PROVE  /\ Append(s, e) \in Seq(S)
         /\ Len(Append(s, e)) = Len(s) + 1
         /\ Len(s) \in Nat
         /\ \A i \in 1 .. Len(s) : Append(s, e)[i] = s[i]
         /\ Append(s, e)[Len(s) + 1] = e
OBVIOUS

LEMMA SeqWidens ==
  ASSUME NEW S, NEW T, S \subseteq T, NEW s \in Seq(S)
  PROVE  s \in Seq(T)
<1>1. \A i \in 1 .. Len(s) : s[i] \in T
  OBVIOUS
<1>2. Len(s) \in Nat /\ s = [i \in 1 .. Len(s) |-> s[i]]
  OBVIOUS
<1>3. QED
  BY <1>1, <1>2

(* A client that ends stays on the list. *)
LEMMA EndsClient ==
  ASSUME NEW S, S = ClientRecord, clients \in Seq(S), NEW c \in DOMAIN clients
  PROVE  /\ [clients EXCEPT ![c].alive = FALSE] \in Seq(S)
         /\ Len([clients EXCEPT ![c].alive = FALSE]) = Len(clients)
         /\ \A d \in DOMAIN clients :
              LET e == [clients EXCEPT ![c].alive = FALSE][d]
              IN  /\ e.play = clients[d].play /\ e.game = clients[d].game
                  /\ e.claimed = clients[d].claimed
<1> DEFINE new == [clients[c] EXCEPT !.alive = FALSE]
<1>1. clients[c] \in ClientRecord
  OBVIOUS
<1>2. /\ new \in ClientRecord
      /\ new.play = clients[c].play /\ new.game = clients[c].game
      /\ new.claimed = clients[c].claimed
  BY <1>1 DEF ClientRecord
<1>3. [clients EXCEPT ![c].alive = FALSE] = [clients EXCEPT ![c] = new]
  OBVIOUS
<1> HIDE DEF new
<1>4. /\ [clients EXCEPT ![c] = new] \in Seq(S)
      /\ Len([clients EXCEPT ![c] = new]) = Len(clients)
  BY <1>2
<1>5. QED
  BY <1>2, <1>3, <1>4

SessionTyped == TypeOK /\ CallOK

LEMMA TypeInit == Init => SessionTyped
<1> SUFFICES ASSUME Init PROVE SessionTyped
  OBVIOUS
<1>1. Games = {} /\ Len(clients) = 0
  BY DEF Init, Games
<1>2. records \in [Play -> [game : Games \cup {NoGame}, client : 0 .. Len(clients)]]
  BY <1>1 DEF Init, NoSession, NoGame, NoClient
<1>3. call \in CallRecord
  BY <1>1 DEF Init, NoCall, NoGame, NoClient, CallRecord
<1>4. QED
  BY <1>1, <1>2, <1>3
     DEF Init, SessionTyped, TypeOK, CallOK, CallRecord, Steps, NoHandles, NoClient

(* Nothing disappears from starts, clients or the generations.              *)
LEMMA StartType ==
  ASSUME SessionTyped, NEW pid \in Pid, StartGame(pid)
  PROVE  SessionTyped'
<1>1. /\ starts' \in Seq(Started) /\ Len(starts') = Len(starts) + 1
      /\ Len(starts) \in Nat
  BY AppendsTo, [pid |-> pid, play |-> active] \in Started, starts \in Seq(Started)
     DEF SessionTyped, TypeOK, StartGame, Started
<1>2. Games \subseteq Games' /\ Len(starts) + 1 \in Games'
  BY <1>1 DEF Games
<1>3. running' \subseteq Games'
  BY <1>2 DEF SessionTyped, TypeOK, StartGame
<1>4. clients' \in Seq(ClientRecord')
  <2>1. ClientRecord \subseteq ClientRecord'
    BY <1>2 DEF ClientRecord
  <2>2. clients \in Seq(ClientRecord) /\ clients' = clients
    BY DEF SessionTyped, TypeOK, StartGame, ClientRecord
  <2>3. QED
    BY <2>1, <2>2, SeqWidens
<1>5. records' \in [Play -> [game : (Games \cup {NoGame})', client : 0 .. Len(clients')]]
  BY <1>2 DEF SessionTyped, TypeOK, StartGame, NoGame
<1>6. call' \in CallRecord'
  BY <1>2 DEF SessionTyped, TypeOK, StartGame, CallRecord, NoGame
<1>7. CallOK'
  BY <1>2 DEF SessionTyped, CallOK, StartGame
<1>8. QED
  BY <1>1, <1>3, <1>4, <1>5, <1>6, <1>7
     DEF SessionTyped, TypeOK, StartGame, Started, ClientRecord, CallRecord, NoGame

LEMMA OutsideType ==
  ASSUME SessionTyped, Outside
  PROVE  SessionTyped'
<1>1. CASE \E p \in Play \cup {NoPlay} : Switch(p)
  <2>1. PICK p \in Play \cup {NoPlay} : Switch(p)
    BY <1>1
  <2>2. 0 .. generation \subseteq 0 .. generation' /\ generation' \in Nat
    BY <2>1 DEF SessionTyped, TypeOK, Switch
  <2>3. arms' \subseteq [play : Play, generation : 0 .. generation']
    BY <2>1, <2>2 DEF SessionTyped, TypeOK, Switch
  <2>4. call' \in CallRecord'
    BY <2>1, <2>2 DEF SessionTyped, TypeOK, Switch, CallRecord, Games
  <2>5. QED
    BY <2>1, <2>2, <2>3, <2>4 DEF SessionTyped, TypeOK, CallOK, Switch, CallRecord, Games
<1>2. CASE \E pid \in Pid : StartGame(pid)
  BY <1>2, StartType
<1>3. CASE \E g \in Games : ExitGame(g)
  BY <1>3 DEF SessionTyped, TypeOK, CallOK, ExitGame, Games
<1>4. CASE \E c \in DOMAIN clients : ExitClient(c)
  <2>1. PICK c \in DOMAIN clients : ExitClient(c)
    BY <1>4
  <2>2. clients' \in Seq(ClientRecord') /\ Len(clients') = Len(clients)
    BY <2>1, EndsClient DEF SessionTyped, TypeOK, ExitClient, ClientRecord, Games, outside
  <2>3. QED
    BY <2>1, <2>2 DEF SessionTyped, TypeOK, CallOK, ExitClient, ClientRecord, Games, outside
<1>5. QED
  BY <1>1, <1>2, <1>3, <1>4 DEF Outside

(* The backend's own steps leave starts and running alone.                  *)
LEMMA NoCallIsCall == SessionTyped => NoCall \in CallRecord
BY NoPlayAssumption DEF SessionTyped, TypeOK, NoCall, CallRecord, NoGame, NoClient

LEMMA QuietType ==
  ASSUME SessionTyped, Quiet, call' \in CallRecord, pc' \in Steps, CallOK'
  PROVE  SessionTyped'
BY DEF SessionTyped, TypeOK, Quiet, outside, CallRecord, Games

LEMMA ReturnType ==
  ASSUME SessionTyped, NEW from, Return(from)
  PROVE  call' \in CallRecord /\ pc' \in Steps /\ CallOK'
BY NoCallIsCall DEF Return, Steps, CallOK

LEMMA StepType ==
  ASSUME SessionTyped, NEW from \in Steps \ {"idle"}, NEW to \in Steps, Step(from, to),
         outside' = outside,
         to \in {"lookup", "spawn", "register"} =>
           from \in {"lookup", "spawn", "register"}
  PROVE  call' \in CallRecord /\ pc' \in Steps /\ CallOK'
BY DEF Step, SessionTyped, TypeOK, CallRecord, CallOK, Games, outside

LEMMA DieType == ASSUME SessionTyped, Die PROVE SessionTyped'
<1>1. call' \in CallRecord /\ pc' \in Steps /\ CallOK'
  BY NoCallIsCall DEF Die, Steps, CallOK
<1>2. handle' \in [Play -> 0 .. Len(clients)] /\ deaths' \in Nat
  BY DEF Die, NoHandles, NoClient, SessionTyped, TypeOK
<1>3. QED
  BY <1>1, <1>2 DEF Die, SessionTyped, TypeOK, outside, CallRecord, Games

LEMMA ArmingType == ASSUME SessionTyped, Arming PROVE SessionTyped'
<1>1. CASE \E p \in Play : ArmCalls(p)
  <2>1. PICK p \in Play : ArmCalls(p)
    BY <1>1
  <2>2. call' = [NoCall EXCEPT !.play = p] /\ pc' = "arm_bytes"
    BY <2>1 DEF ArmCalls, Begin
  <2>3. call' \in CallRecord /\ call'.play = p
    BY <2>2, NoCallIsCall DEF CallRecord, NoCall
  <2>4. QED
    BY <2>1, <2>2, <2>3, QuietType DEF ArmCalls, CallOK, Steps, ArmSteps
<1>2. CASE ArmBytes
  BY <1>2, QuietType, StepType DEF ArmBytes, Steps, ArmSteps, Quiet
<1>3. CASE ArmStat
  <2>1. call' \in CallRecord /\ pc' \in Steps /\ CallOK'
    BY <1>3, ReturnType DEF ArmStat
  <2>2. NewArm \in [play : Play, generation : 0 .. generation]
    BY <1>3 DEF ArmStat, Return, NewArm, SessionTyped, TypeOK, CallOK
  <2>3. QED
    BY <1>3, <2>1, <2>2 DEF ArmStat, SessionTyped, TypeOK, outside, CallRecord, Games
<1>4. QED
  BY <1>1, <1>2, <1>3 DEF Arming

LEMMA SpawnType == ASSUME SessionTyped, Spawn PROVE SessionTyped'
<1> DEFINE new == [play |-> call.play, game |-> call.game,
                   claimed |-> call.claim # NoGame, alive |-> TRUE]
<1>1. new \in ClientRecord
  BY DEF SessionTyped, TypeOK, CallOK, Spawn, ClientRecord
<1>2. /\ clients' \in Seq(ClientRecord) /\ Len(clients') = Len(clients) + 1
      /\ Len(clients) \in Nat
  BY <1>1, AppendsTo, clients \in Seq(ClientRecord)
     DEF Spawn, SessionTyped, TypeOK, ClientRecord
<1>3. /\ 0 .. Len(clients) \subseteq 0 .. Len(clients')
      /\ Len(clients) + 1 \in 0 .. Len(clients')
  BY <1>2
<1>4. call' \in CallRecord' /\ call'.play = call.play /\ call'.game = call.game
  BY <1>3 DEF Spawn, SessionTyped, TypeOK, CallRecord, outside, Games
<1>5. records' \in [Play -> [game : (Games \cup {NoGame})', client : 0 .. Len(clients')]]
  BY <1>3 DEF Spawn, SessionTyped, TypeOK, outside, Games
<1>6. handle' \in [Play -> 0 .. Len(clients')]
  BY <1>3 DEF Spawn, SessionTyped, TypeOK
<1>7. QED
  BY <1>2, <1>4, <1>5, <1>6
     DEF Spawn, SessionTyped, TypeOK, CallOK, CallRecord, ClientRecord, outside, Games,
         Steps, ConnectSteps

LEMMA ConnectingType == ASSUME SessionTyped, Connecting PROVE SessionTyped'
<1>1. CASE \E a \in arms, claim \in Games \cup {NoGame} : ConnectCalls(a, claim)
  <2>1. PICK a \in arms, claim \in Games \cup {NoGame} : ConnectCalls(a, claim)
    BY <1>1
  <2>2. call' = [NoCall EXCEPT !.play = a.play, !.claim = claim,
                               !.generation = a.generation] /\ pc' = "bytes"
    BY <2>1 DEF ConnectCalls, Begin
  <2>3. a.play \in Play /\ a.generation \in 0 .. generation
    BY DEF SessionTyped, TypeOK
  <2>4. call' \in CallRecord /\ call'.play \in Play
    BY <2>2, <2>3, NoCallIsCall DEF CallRecord, NoCall
  <2>5. QED
    BY <2>1, <2>2, <2>4, QuietType DEF ConnectCalls, CallOK, Steps, ConnectSteps
<1>2. CASE Bytes
  BY <1>2, QuietType, StepType DEF Bytes, Steps, ConnectSteps, Quiet
<1>3. CASE Stat
  BY <1>3, QuietType, StepType DEF Stat, Steps, ConnectSteps, Quiet
<1>4. CASE \E g \in Games : CheckProcess(g)
  <2>1. PICK g \in Games : CheckProcess(g)
    BY <1>4
  <2>2. call' \in CallRecord /\ call'.play = call.play /\ call'.game = g
    BY <2>1 DEF CheckProcess, SessionTyped, TypeOK, CallRecord
  <2>3. QED
    BY <2>1, <2>2, QuietType
       DEF CheckProcess, Quiet, outside, Games, SessionTyped, CallOK, Steps, ConnectSteps
<1>5. CASE Reuse
  BY <1>5, QuietType, ReturnType DEF Reuse
<1>6. CASE NotSupervised
  BY <1>6, QuietType, StepType DEF NotSupervised, Steps, ConnectSteps, Quiet
<1>7. CASE Spawn
  BY <1>7, SpawnType
<1>8. CASE Register
  <2>1. call' \in CallRecord /\ pc' \in Steps /\ CallOK'
    BY <1>8, ReturnType DEF Register
  <2>2. NewSession \in [game : Games \cup {NoGame}, client : 0 .. Len(clients)]
    BY DEF NewSession, SessionTyped, TypeOK
  <2>3. QED
    BY <1>8, <2>1, <2>2 DEF Register, SessionTyped, TypeOK, outside, CallRecord, Games
<1>9. QED
  BY <1>1, <1>2, <1>3, <1>4, <1>5, <1>6, <1>7, <1>8 DEF Connecting

LEMMA StoppingType == ASSUME SessionTyped, Stopping PROVE SessionTyped'
<1>1. CASE \E p \in Play : StopCalls(p)
  <2>1. PICK p \in Play : StopCalls(p)
    BY <1>1
  <2>2. call' = [NoCall EXCEPT !.play = p] /\ pc' = "stopped"
    BY <2>1 DEF StopCalls, Begin
  <2>3. call' \in CallRecord /\ call'.play = p
    BY <2>2, NoCallIsCall DEF CallRecord, NoCall
  <2>4. handle[p] \in DOMAIN clients
    BY <2>1 DEF StopCalls, SessionTyped, TypeOK, NoClient
  <2>5. clients' \in Seq(ClientRecord) /\ Len(clients') = Len(clients)
    BY <2>1, <2>4, EndsClient DEF StopCalls, Ended, SessionTyped, TypeOK, ClientRecord
  <2>6. QED
    BY <2>1, <2>2, <2>3, <2>5
       DEF StopCalls, SessionTyped, TypeOK, CallOK, outside, Games, ClientRecord,
           CallRecord, Steps
<1>2. CASE Release
  <2>1. call' \in CallRecord /\ pc' \in Steps /\ CallOK'
    BY <1>2, ReturnType DEF Release
  <2>2. NoClient \in 0 .. Len(clients)
    BY DEF NoClient, SessionTyped, TypeOK
  <2>3. handle' \in [Play -> 0 .. Len(clients)]
    BY <1>2, <2>2 DEF Release, SessionTyped, TypeOK
  <2>4. records' \in [Play -> [game : Games \cup {NoGame}, client : 0 .. Len(clients)]]
    BY <1>2, <2>2 DEF Release, SessionTyped, TypeOK
  <2>5. QED
    BY <1>2, <2>1, <2>3, <2>4 DEF Release, SessionTyped, TypeOK, outside, CallRecord, Games
<1>3. QED
  BY <1>1, <1>2 DEF Stopping

LEMMA TypeStep == SessionTyped /\ [Next]_vars => SessionTyped'
<1> SUFFICES ASSUME SessionTyped, [Next]_vars PROVE SessionTyped'
  OBVIOUS
<1>1. CASE Refuse
  BY <1>1, ReturnType, QuietType DEF Refuse
<1>2. CASE UNCHANGED vars
  BY <1>2 DEF vars, outside, SessionTyped, TypeOK, CallOK, Games
<1>3. QED
  BY <1>1, <1>2, OutsideType, DieType, ArmingType, ConnectingType, StoppingType
     DEF Next

(* Every reachable state of the coordinator is well typed.                  *)
THEOREM TypeCorrect == Spec => []TypeOK
<1>1. SessionTyped => TypeOK
  BY DEF SessionTyped
<1>2. QED
  BY <1>1, TypeInit, TypeStep, PTL DEF Spec

-----------------------------------------------------------------------------
(* Why a claim is enough.  An arm is minted while no emulator runs, so as   *)
(* long as its generation lasts every emulator started since has loaded its *)
(* play.  The generation of a connecting call is compared after the claim   *)
(* was made: a claimed process that is still running later was running      *)
(* then.                                                                    *)
NobodyStartsWhileArming == ~StartsWhileArming

ArmIsCurrent(a) ==
  a.generation = generation =>
    active = a.play /\ \A g \in running : Loaded(g) = a.play

ClaimLoads(g) == g # NoGame => Loaded(g) = call.play

Backed ==
  /\ pc \in ArmSteps => running = {}
  /\ \A a \in arms : ArmIsCurrent(a)
  /\ pc \in {"bytes", "stat"} =>
       [play |-> call.play, generation |-> call.generation] \in arms
  /\ pc = "process" /\ call.claim \in running => ClaimLoads(call.claim)
  /\ pc \in {"lookup", "spawn"} /\ call.claim # NoGame =>
       call.game = call.claim /\ ClaimLoads(call.claim)

MatchInv == NobodyStartsWhileArming /\ SessionTyped /\ Backed /\ ClientMatchesGame

LEMMA MatchInit == NobodyStartsWhileArming /\ Init => MatchInv
BY TypeInit DEF Init, MatchInv, Backed, ClientMatchesGame, ArmSteps

(* An emulator that starts loads what is active; the processes that ran     *)
(* before it keep what they loaded.                                         *)
LEMMA StartMatch ==
  ASSUME MatchInv, NEW pid \in Pid, StartGame(pid)
  PROVE  (Backed /\ ClientMatchesGame)'
<1>1. /\ Len(starts) \in Nat
      /\ \A g \in Games : starts'[g].play = starts[g].play
      /\ starts'[Len(starts) + 1].play = active
  <2>1. starts \in Seq(Started) /\ [pid |-> pid, play |-> active] \in Started
    BY DEF MatchInv, SessionTyped, TypeOK, Started
  <2>2. starts' = Append(starts, [pid |-> pid, play |-> active])
    BY DEF StartGame
  <2>3. /\ Len(starts) \in Nat
        /\ \A i \in 1 .. Len(starts) : starts'[i] = starts[i]
        /\ starts'[Len(starts) + 1] = [pid |-> pid, play |-> active]
    BY <2>1, <2>2, AppendsTo
  <2>4. QED
    BY <2>3 DEF Games
<1>2. running \subseteq Games /\ running' = running \cup {Len(starts) + 1}
  BY DEF MatchInv, SessionTyped, TypeOK, StartGame
<1>3. call.claim \in Games \cup {NoGame} /\ Len(starts) + 1 \notin Games \cup {NoGame}
  BY <1>1 DEF MatchInv, SessionTyped, TypeOK, Games, NoGame
<1>4. (pc \in ArmSteps => running = {})'
  BY DEF MatchInv, NobodyStartsWhileArming, StartGame
<1>5. (\A a \in arms : ArmIsCurrent(a))'
  <2>1. SUFFICES ASSUME NEW a \in arms, a.generation = generation
                 PROVE  active = a.play /\ \A g \in running' : Loaded(g)' = a.play
    BY DEF StartGame, ArmIsCurrent
  <2>2. active = a.play /\ \A g \in running : Loaded(g) = a.play
    BY <2>1 DEF MatchInv, Backed, ArmIsCurrent
  <2>3. QED
    BY <1>1, <1>2, <2>2 DEF Loaded
<1>6. ASSUME pc' = "process", call'.claim \in running' PROVE ClaimLoads(call.claim)'
  BY <1>1, <1>2, <1>3, <1>6 DEF MatchInv, Backed, ClaimLoads, Loaded, StartGame
<1>7. ASSUME pc' \in {"lookup", "spawn"}, call'.claim # NoGame
      PROVE  call'.game = call'.claim /\ ClaimLoads(call.claim)'
  BY <1>1, <1>3, <1>7 DEF MatchInv, Backed, ClaimLoads, Loaded, StartGame
<1>8. ClientMatchesGame'
  <2>1. clients \in Seq(ClientRecord)
    BY DEF MatchInv, SessionTyped, TypeOK, ClientRecord
  <2>2. \A c \in DOMAIN clients : clients[c] \in ClientRecord
    BY <2>1
  <2>3. \A c \in DOMAIN clients : clients[c].game \in Games
    BY <2>2 DEF ClientRecord
  <2>4. QED
    BY <1>1, <2>3 DEF MatchInv, ClientMatchesGame, Loaded, StartGame
<1>9. QED
  BY <1>4, <1>5, <1>6, <1>7, <1>8 DEF Backed, MatchInv, StartGame

LEMMA OutsideMatch ==
  ASSUME MatchInv, Outside
  PROVE  (Backed /\ ClientMatchesGame)'
<1>1. CASE \E p \in Play \cup {NoPlay} : Switch(p)
  <2>1. PICK p \in Play \cup {NoPlay} : Switch(p)
    BY <1>1
  <2>2. \A a \in arms : a.generation # generation'
    BY <2>1 DEF Switch, MatchInv, SessionTyped, TypeOK
  <2>3. QED
    BY <2>1, <2>2
       DEF Switch, MatchInv, Backed, ArmIsCurrent, ClaimLoads, Loaded,
           ClientMatchesGame
<1>2. CASE \E pid \in Pid : StartGame(pid)
  BY <1>2, StartMatch
<1>3. CASE \E g \in Games : ExitGame(g)
  BY <1>3 DEF ExitGame, MatchInv, Backed, ArmIsCurrent, ClaimLoads, Loaded,
              ClientMatchesGame
<1>4. CASE \E c \in DOMAIN clients : ExitClient(c)
  <2>1. PICK c \in DOMAIN clients : ExitClient(c)
    BY <1>4
  <2>2. /\ DOMAIN clients' = DOMAIN clients
        /\ \A d \in DOMAIN clients : /\ clients'[d].play = clients[d].play
                                     /\ clients'[d].game = clients[d].game
                                     /\ clients'[d].claimed = clients[d].claimed
    BY <2>1, EndsClient
       DEF ExitClient, MatchInv, SessionTyped, TypeOK, ClientRecord
  <2>3. QED
    BY <2>1, <2>2
       DEF ExitClient, MatchInv, Backed, ArmIsCurrent, ClaimLoads, Loaded,
           ClientMatchesGame, outside
<1>5. QED
  BY <1>1, <1>2, <1>3, <1>4 DEF Outside

(* The calls: what each step of connect_and_start_client establishes.       *)
LEMMA ArmStatMatch ==
  ASSUME MatchInv, ArmStat
  PROVE  (Backed /\ ClientMatchesGame)'
<1>1. running = {} /\ active = call.play
  BY DEF ArmStat, Return, IsActive, MatchInv, Backed, ArmSteps
<1>2. ArmIsCurrent(NewArm)
  BY <1>1 DEF ArmIsCurrent, NewArm
<1>3. \A a \in arms' : ArmIsCurrent(a)
  BY <1>2 DEF ArmStat, MatchInv, Backed
<1>4. QED
  BY <1>3 DEF ArmStat, Return, MatchInv, Backed, ArmIsCurrent, ClaimLoads, Loaded,
              ClientMatchesGame, ArmSteps, outside

LEMMA StatMatch ==
  ASSUME MatchInv, Stat
  PROVE  (Backed /\ ClientMatchesGame)'
<1> DEFINE arm == [play |-> call.play, generation |-> call.generation]
<1>1. ArmIsCurrent(arm) /\ arm.generation = generation
  BY DEF Stat, Step, Unchanged, MatchInv, Backed
<1>2. call.claim \in running => Loaded(call.claim) = call.play
  BY <1>1 DEF ArmIsCurrent
<1>3. QED
  BY <1>2 DEF Stat, Step, Quiet, MatchInv, Backed, ArmIsCurrent, ClaimLoads, Loaded,
              ClientMatchesGame, ArmSteps, outside

LEMMA SpawnMatch ==
  ASSUME MatchInv, Spawn
  PROVE  (Backed /\ ClientMatchesGame)'
<1> DEFINE new == [play |-> call.play, game |-> call.game,
                   claimed |-> call.claim # NoGame, alive |-> TRUE]
<1>1. new.claimed => Loaded(new.game) = new.play
  BY DEF Spawn, MatchInv, Backed, ClaimLoads
<1>2. clients \in Seq(ClientRecord) /\ new \in ClientRecord
  BY DEF Spawn, MatchInv, SessionTyped, TypeOK, CallOK, ClientRecord
<1>3. clients' = Append(clients, new)
  BY DEF Spawn
<1> HIDE DEF new
<1>4. /\ DOMAIN clients' = 1 .. Len(clients) + 1 /\ DOMAIN clients = 1 .. Len(clients)
      /\ \A c \in 1 .. Len(clients) : clients'[c] = clients[c]
      /\ clients'[Len(clients) + 1] = new
      /\ Len(clients) \in Nat
  BY <1>2, <1>3, AppendsTo
<1>5. \A c \in DOMAIN clients' : c \in DOMAIN clients \/ c = Len(clients) + 1
  BY <1>4
<1>6. ClientMatchesGame'
  BY <1>1, <1>4, <1>5 DEF ClientMatchesGame, MatchInv, Spawn, outside, Loaded
<1>7. QED
  BY <1>6 DEF Spawn, MatchInv, Backed, ArmIsCurrent, ClaimLoads, Loaded, ArmSteps, outside

LEMMA ConnectingMatch ==
  ASSUME MatchInv, Connecting
  PROVE  (Backed /\ ClientMatchesGame)'
<1>1. CASE \E a \in arms, claim \in Games \cup {NoGame} : ConnectCalls(a, claim)
  <2>1. PICK a \in arms, claim \in Games \cup {NoGame} : ConnectCalls(a, claim)
    BY <1>1
  <2>2. call' = [NoCall EXCEPT !.play = a.play, !.claim = claim,
                               !.generation = a.generation] /\ pc' = "bytes"
    BY <2>1 DEF ConnectCalls, Begin
  <2>3. a = [play |-> a.play, generation |-> a.generation]
    BY DEF MatchInv, SessionTyped, TypeOK
  <2>4. call'.play = a.play /\ call'.generation = a.generation
    BY <2>2 DEF NoCall
  <2>5. QED
    BY <2>1, <2>2, <2>3, <2>4
       DEF ConnectCalls, Quiet, MatchInv, Backed, ArmIsCurrent, Loaded,
           ClientMatchesGame, ArmSteps, outside
<1>2. CASE Bytes
  BY <1>2 DEF Bytes, Step, Quiet, MatchInv, Backed, ArmIsCurrent, ClaimLoads, Loaded,
              ClientMatchesGame, ArmSteps, outside
<1>3. CASE Stat
  BY <1>3, StatMatch
<1>4. CASE \E g \in Games : CheckProcess(g)
  <2>1. PICK g \in Games : CheckProcess(g)
    BY <1>4
  <2>2. call'.claim = call.claim /\ call'.play = call.play /\ call'.game = g
    BY <2>1 DEF CheckProcess, MatchInv, SessionTyped, TypeOK
  <2>3. call.claim # NoGame => g = call.claim /\ g \in running
    BY <2>1 DEF CheckProcess, Identified
  <2>4. call.claim # NoGame => ClaimLoads(call.claim)
    BY <2>1, <2>3 DEF CheckProcess, MatchInv, Backed
  <2>5. QED
    BY <2>1, <2>2, <2>3, <2>4
       DEF CheckProcess, Quiet, MatchInv, Backed, ArmIsCurrent, ClaimLoads, Loaded,
           ClientMatchesGame, ArmSteps, outside
<1>5. CASE Reuse
  BY <1>5 DEF Reuse, Return, Quiet, MatchInv, Backed, ArmIsCurrent, Loaded,
              ClientMatchesGame, ArmSteps, outside
<1>6. CASE NotSupervised
  BY <1>6 DEF NotSupervised, Step, Quiet, MatchInv, Backed, ArmIsCurrent, ClaimLoads,
              Loaded, ClientMatchesGame, ArmSteps, outside
<1>7. CASE Spawn
  BY <1>7, SpawnMatch
<1>8. CASE Register
  BY <1>8 DEF Register, Return, MatchInv, Backed, ArmIsCurrent, Loaded,
              ClientMatchesGame, ArmSteps, outside
<1>9. QED
  BY <1>1, <1>2, <1>3, <1>4, <1>5, <1>6, <1>7, <1>8 DEF Connecting

LEMMA StoppingMatch ==
  ASSUME MatchInv, Stopping
  PROVE  (Backed /\ ClientMatchesGame)'
<1>1. CASE \E p \in Play : StopCalls(p)
  <2>1. PICK p \in Play : StopCalls(p)
    BY <1>1
  <2>2. handle[p] \in DOMAIN clients /\ clients \in Seq(ClientRecord)
    BY <2>1 DEF StopCalls, MatchInv, SessionTyped, TypeOK, NoClient, ClientRecord
  <2>3. /\ DOMAIN clients' = DOMAIN clients
        /\ \A d \in DOMAIN clients : /\ clients'[d].play = clients[d].play
                                     /\ clients'[d].game = clients[d].game
                                     /\ clients'[d].claimed = clients[d].claimed
    BY <2>1, <2>2, EndsClient DEF StopCalls, Ended
  <2>4. QED
    BY <2>1, <2>3
       DEF StopCalls, Begin, MatchInv, Backed, ArmIsCurrent, Loaded,
           ClientMatchesGame, ArmSteps, outside
<1>2. CASE Release
  BY <1>2 DEF Release, Return, MatchInv, Backed, ArmIsCurrent, Loaded,
              ClientMatchesGame, ArmSteps, outside
<1>3. QED
  BY <1>1, <1>2 DEF Stopping

LEMMA ArmingMatch ==
  ASSUME MatchInv, Arming
  PROVE  (Backed /\ ClientMatchesGame)'
<1>1. CASE \E p \in Play : ArmCalls(p)
  BY <1>1 DEF ArmCalls, Begin, Quiet, MatchInv, Backed, ArmIsCurrent, Loaded,
              ClientMatchesGame, ArmSteps, outside
<1>2. CASE ArmBytes
  BY <1>2 DEF ArmBytes, Step, Quiet, MatchInv, Backed, ArmIsCurrent, Loaded,
              ClientMatchesGame, ArmSteps, outside
<1>3. CASE ArmStat
  BY <1>3, ArmStatMatch
<1>4. QED
  BY <1>1, <1>2, <1>3 DEF Arming

LEMMA MatchStep == MatchInv /\ [Next]_vars => MatchInv'
<1> SUFFICES ASSUME MatchInv, [Next]_vars PROVE (Backed /\ ClientMatchesGame)'
  BY TypeStep DEF MatchInv
<1>1. CASE Die
  BY <1>1 DEF Die, MatchInv, Backed, ArmIsCurrent, Loaded, ClientMatchesGame,
              ArmSteps, outside
<1>2. CASE Refuse
  BY <1>2 DEF Refuse, Return, Quiet, MatchInv, Backed, ArmIsCurrent, Loaded,
              ClientMatchesGame, ArmSteps, outside
<1>3. CASE UNCHANGED vars
  BY <1>3 DEF vars, outside, MatchInv, Backed, ArmIsCurrent, ClaimLoads, Loaded,
              ClientMatchesGame
<1>4. QED
  BY <1>1, <1>2, <1>3, OutsideMatch, ArmingMatch, ConnectingMatch, StoppingMatch
     DEF Next

(* A client connected to the process the fork reported speaks for the play  *)
(* that process loaded: connect_and_start_client needs both the comparison  *)
(* of fingerprints and the claim, and no lock.                              *)
THEOREM ClaimedClientsMatch ==
  ASSUME NobodyStartsWhileArming PROVE Spec => []ClientMatchesGame
<1>1. Init => MatchInv
  BY MatchInit
<1>2. MatchInv => ClientMatchesGame
  BY DEF MatchInv
<1>3. QED
  BY <1>1, <1>2, MatchStep, PTL DEF Spec

-----------------------------------------------------------------------------
(* What the coordinator knows of its clients.  A client is Serving while    *)
(* the game it was started for runs.                                        *)
Serving(c) == clients[c].game \in running

(* The client a call has just started is the one it will record; the handle *)
(* is of the recorded client; a client that is being stopped is dead.       *)
Kept ==
  /\ SessionIsTruthful
  /\ pc = "register" =>
       /\ call.client \in DOMAIN clients
       /\ clients[call.client].play = call.play
       /\ clients[call.client].game = call.game
  /\ \A p \in Play : handle[p] # NoClient => handle[p] = records[p].client
  /\ pc = "stopped" =>
       /\ handle[call.play] # NoClient
       /\ ~clients[handle[call.play]].alive

(* Clients are appended; each keeps its play and its game.                  *)
SameClients ==
  /\ DOMAIN clients' = DOMAIN clients
  /\ \A c \in DOMAIN clients :
       /\ clients'[c].play = clients[c].play /\ clients'[c].game = clients[c].game
       /\ clients'[c].alive => clients[c].alive

LEMMA SpawnAppends ==
  ASSUME SessionTyped, Spawn
  PROVE  /\ Len(clients) \in Nat /\ DOMAIN clients = 1 .. Len(clients)
         /\ DOMAIN clients' = DOMAIN clients \cup {Len(clients) + 1}
         /\ \A c \in DOMAIN clients : clients'[c] = clients[c]
         /\ clients'[Len(clients) + 1].play = call.play
         /\ clients'[Len(clients) + 1].game = call.game
         /\ Len(clients) + 1 \notin DOMAIN clients
<1> DEFINE new == [play |-> call.play, game |-> call.game,
                   claimed |-> call.claim # NoGame, alive |-> TRUE]
<1>1. clients \in Seq(ClientRecord) /\ new \in ClientRecord
  BY DEF Spawn, SessionTyped, TypeOK, CallOK, ClientRecord
<1>2. clients' = Append(clients, new)
  BY DEF Spawn
<1>3. new.play = call.play /\ new.game = call.game
  OBVIOUS
<1> HIDE DEF new
<1>4. /\ DOMAIN clients' = 1 .. Len(clients) + 1 /\ DOMAIN clients = 1 .. Len(clients)
      /\ \A c \in 1 .. Len(clients) : clients'[c] = clients[c]
      /\ clients'[Len(clients) + 1] = new
      /\ Len(clients) \in Nat
  BY <1>1, <1>2, AppendsTo
<1>5. QED
  BY <1>3, <1>4

LEMMA EndedIsDead ==
  ASSUME SessionTyped, NEW c \in DOMAIN clients,
         clients' = [clients EXCEPT ![c].alive = FALSE]
  PROVE  SameClients /\ ~clients'[c].alive
<1>1. clients \in Seq(ClientRecord)
  BY DEF SessionTyped, TypeOK, ClientRecord
<1>2. \A d \in DOMAIN clients : clients[d] \in ClientRecord
  BY <1>1
<1>3. ASSUME NEW d \in DOMAIN clients
      PROVE  /\ clients'[d].play = clients[d].play /\ clients'[d].game = clients[d].game
             /\ clients'[d].alive => clients[d].alive
             /\ d = c => ~clients'[d].alive
  <2>1. CASE d = c
    <3>1. clients'[d] = [clients[d] EXCEPT !.alive = FALSE]
      BY <2>1
    <3>2. QED
      BY <1>2, <3>1 DEF ClientRecord
  <2>2. CASE d # c
    BY <2>2
  <2>3. QED
    BY <2>1, <2>2
<1>4. QED
  BY <1>3 DEF SameClients

LEMMA ClientsStep == ASSUME SessionTyped, [Next]_vars PROVE SameClients \/ Spawn
<1>1. CASE \E c \in DOMAIN clients : ExitClient(c)
  BY <1>1, EndedIsDead DEF ExitClient
<1>2. CASE \E p \in Play : StopCalls(p)
  <2>1. PICK p \in Play : StopCalls(p)
    BY <1>2
  <2>2. handle[p] \in DOMAIN clients
    BY <2>1 DEF StopCalls, SessionTyped, TypeOK, NoClient
  <2>3. QED
    BY <2>1, <2>2, EndedIsDead DEF StopCalls, Ended
<1>3. CASE clients' = clients
  BY <1>3 DEF SameClients
<1>4. QED
  BY <1>1, <1>2, <1>3
     DEF Next, Outside, Switch, StartGame, ExitGame, Die, Arming, ArmCalls, ArmBytes, ArmStat,
         Connecting, ConnectCalls, Bytes, Stat, CheckProcess, Reuse, NotSupervised, Register,
         Refuse, Stopping, Release, Quiet, vars

LEMMA KeptInit == Init => Kept
BY DEF Init, Kept, SessionIsTruthful, NoSession, NoHandles

(* A record that is true stays so while the clients do.                     *)
LEMMA TruthfulStays ==
  ASSUME SessionTyped, Kept, [Next]_vars,
         \A p \in Play : /\ records'[p].game = records[p].game
                         /\ records'[p].client \in {records[p].client, NoClient}
  PROVE  SessionIsTruthful'
<1> SUFFICES ASSUME NEW p \in Play, records'[p].game # NoGame
             PROVE  \E c \in DOMAIN clients' :
                      /\ clients'[c].play = p /\ clients'[c].game = records'[p].game
                      /\ records'[p].client \in {c, NoClient}
  BY DEF SessionIsTruthful
<1>1. PICK c \in DOMAIN clients : /\ clients[c].play = p /\ clients[c].game = records[p].game
                                  /\ records[p].client \in {c, NoClient}
  BY DEF Kept, SessionIsTruthful
<1>2. /\ c \in DOMAIN clients' /\ clients'[c].play = clients[c].play
      /\ clients'[c].game = clients[c].game
  BY ClientsStep, SpawnAppends DEF SameClients
<1>3. QED
  BY <1>1, <1>2

LEMMA KeptStep == SessionTyped /\ Kept /\ [Next]_vars => Kept'
<1> SUFFICES ASSUME SessionTyped, Kept, [Next]_vars PROVE Kept'
  OBVIOUS
<1>1. CASE Register
  <2>1. /\ SameClients /\ pc' = "idle" /\ pc = "register" /\ call.play \in Play
        /\ records' = [records EXCEPT ![call.play] = NewSession]
        /\ handle' = [handle EXCEPT ![call.play] = call.client]
    BY <1>1, ClientsStep DEF Register, Return, Spawn, SessionTyped, CallOK
  <2>2. /\ NewSession.game = clients[call.client].game /\ NewSession.client = call.client
        /\ call.client \in DOMAIN clients /\ clients[call.client].play = call.play
    BY <2>1 DEF Kept, NewSession
  <2>3. records \in [Play -> [game : Games \cup {NoGame}, client : 0 .. Len(clients)]]
        /\ handle \in [Play -> 0 .. Len(clients)]
    BY DEF SessionTyped, TypeOK
  <2>4. ASSUME NEW p \in Play, records'[p].game # NoGame
        PROVE  \E c \in DOMAIN clients' :
                 /\ clients'[c].play = p /\ clients'[c].game = records'[p].game
                 /\ records'[p].client \in {c, NoClient}
    <3>1. CASE p = call.play
      BY <2>1, <2>2, <2>3, <3>1 DEF SameClients
    <3>2. CASE p # call.play
      BY <2>1, <2>3, <2>4, <3>2 DEF SameClients, Kept, SessionIsTruthful
    <3>3. QED
      BY <3>1, <3>2
  <2>5. \A p \in Play : handle'[p] # NoClient => handle'[p] = records'[p].client
    BY <2>1, <2>2, <2>3 DEF Kept
  <2>6. QED
    BY <2>1, <2>4, <2>5 DEF Kept, SessionIsTruthful
<1>2. CASE Release
  <2>1. /\ pc' = "idle" /\ call.play \in Play
        /\ handle' = [handle EXCEPT ![call.play] = NoClient]
        /\ records' = [records EXCEPT ![call.play].client = NoClient]
    BY <1>2 DEF Release, Return, SessionTyped, CallOK
  <2>2. records \in [Play -> [game : Games \cup {NoGame}, client : 0 .. Len(clients)]]
        /\ handle \in [Play -> 0 .. Len(clients)]
    BY DEF SessionTyped, TypeOK
  <2>3. \A p \in Play : /\ records'[p].game = records[p].game
                        /\ records'[p].client \in {records[p].client, NoClient}
                        /\ handle'[p] # NoClient => handle'[p] = records'[p].client
    BY <2>1, <2>2 DEF Kept
  <2>4. QED
    BY <2>1, <2>3, TruthfulStays DEF Kept
<1>3. CASE \E p \in Play : StopCalls(p)
  <2>1. PICK p \in Play : StopCalls(p)
    BY <1>3
  <2>2. /\ handle[p] \in DOMAIN clients /\ clients' = [clients EXCEPT ![handle[p]].alive = FALSE]
        /\ handle[p] # NoClient
    BY <2>1 DEF StopCalls, Ended, SessionTyped, TypeOK, NoClient
  <2>3. /\ pc' = "stopped" /\ call'.play = p /\ UNCHANGED <<records, handle>>
    BY <2>1 DEF StopCalls, Begin, NoCall
  <2>4. ~clients'[handle[p]].alive
    BY <2>2, EndedIsDead
  <2>5. QED
    BY <2>2, <2>3, <2>4, TruthfulStays DEF Kept
<1>4. CASE Spawn
  <2>1. /\ pc' = "register" /\ call'.play = call.play /\ call'.game = call.game
        /\ call'.client = Len(clients) + 1 /\ UNCHANGED <<records, handle>>
    BY <1>4 DEF Spawn, SessionTyped, TypeOK
  <2>2. QED
    BY <1>4, <2>1, SpawnAppends, TruthfulStays DEF Kept
<1>5. CASE Die
  <2>1. pc' = "idle" /\ handle' = NoHandles /\ records' = records
    BY <1>5 DEF Die
  <2>2. QED
    BY <2>1, TruthfulStays DEF Kept, NoHandles
<1>6. CASE ~(Register \/ Release \/ (\E p \in Play : StopCalls(p)) \/ Spawn \/ Die)
  <2>1. /\ UNCHANGED <<records, handle>>
        /\ pc' \in {"register", "stopped"} => pc' = pc /\ call' = call
    BY <1>6
       DEF Next, Outside, Switch, StartGame, ExitGame, ExitClient, Arming, ArmCalls, ArmBytes,
           ArmStat, Connecting, ConnectCalls, Bytes, Stat, CheckProcess, Reuse, NotSupervised,
           Refuse, Stopping, Quiet, vars, Begin, Step, Return
  <2>2. SameClients
    BY <1>6, ClientsStep
  <2>3. pc = "stopped" => handle[call.play] \in DOMAIN clients
    BY DEF Kept, SessionTyped, TypeOK, CallOK, NoClient
  <2>4. QED
    BY <2>1, <2>2, <2>3, TruthfulStays DEF Kept, SameClients
<1>7. QED
  BY <1>1, <1>2, <1>3, <1>4, <1>5, <1>6

(* What supervisor.json says of a play is true of a client that was started *)
(* for it, wherever the backend dies.                                       *)
THEOREM SessionsTruthful == Spec => []SessionIsTruthful
<1>1. Kept => SessionIsTruthful
  BY DEF Kept
<1>2. QED
  BY TypeInit, TypeStep, KeptInit, KeptStep, <1>1, PTL DEF Spec

(* A record lets go of a client only when that client has ended.            *)
THEOREM ReleasesOnlyDead == Spec => ReleaseOnlyDead
<1> DEFINE Released ==
             \A p \in Play :
               records[p].client # NoClient /\ records'[p].client = NoClient
                 => ~clients'[records[p].client].alive
<1>1. SessionTyped /\ Kept /\ [Next]_vars => [Released]_vars
  <2> SUFFICES ASSUME SessionTyped, Kept, [Next]_vars, NEW p \in Play,
                      records[p].client # NoClient, records'[p].client = NoClient
               PROVE  ~clients'[records[p].client].alive
    OBVIOUS
  <2>1. records \in [Play -> [game : Games \cup {NoGame}, client : 0 .. Len(clients)]]
        /\ clients \in Seq(ClientRecord)
    BY DEF SessionTyped, TypeOK, ClientRecord
  <2>2. CASE Register
    <3>1. records'[call.play].client = call.client /\ call.client # NoClient
      BY <2>1, <2>2 DEF Register, Return, Kept, NewSession, NoClient, SessionTyped, CallOK
    <3>2. QED
      BY <2>1, <2>2, <3>1 DEF Register
  <2>3. CASE Release
    <3>1. p = call.play /\ pc = "stopped" /\ clients' = clients
      BY <2>1, <2>3 DEF Release, Return
    <3>2. QED
      BY <3>1 DEF Kept
  <2>4. CASE ~(Register \/ Release)
    <3>1. records' = records
      BY <2>4
         DEF Next, Outside, Switch, StartGame, ExitGame, ExitClient, Arming, ArmCalls, ArmBytes,
             ArmStat, Connecting, ConnectCalls, Bytes, Stat, CheckProcess, Reuse, NotSupervised,
             Spawn, Refuse, Stopping, StopCalls, Die, Quiet, vars
    <3>2. QED
      BY <3>1
  <2>5. QED
    BY <2>2, <2>3, <2>4
<1>2. QED
  BY TypeInit, TypeStep, KeptInit, KeptStep, <1>1, PTL DEF Spec, ReleaseOnlyDead

-----------------------------------------------------------------------------
(* Why one game has one client.  There is one game at a time, and the       *)
(* session of its play is of that game from the moment its client is        *)
(* started; a call that works for another play cannot find it alive, since  *)
(* an arm record is worth something only while no game that has a client of *)
(* another play runs.                                                       *)
OneEmulator == MaxGames <= 1
NoneUnrecorded == "register" \notin DieAt

Current(a) == a.generation = generation

OneRunning == IsFiniteSet(running) /\ \A g, h \in running : g = h

Sole == \A c, d \in DOMAIN clients : clients[c].game = clients[d].game => c = d

InRecord ==
  \A c \in DOMAIN clients : Serving(c) =>
    \/ records[clients[c].play].game = clients[c].game
    \/ pc = "register" /\ call.client = c

ArmsServed ==
  \A a \in arms : Current(a) =>
    active = a.play /\ \A c \in DOMAIN clients : Serving(c) => clients[c].play = a.play

(* What each place of a call relies on.                                     *)
CallServed ==
  /\ pc \in ArmSteps => \A c \in DOMAIN clients : ~Serving(c)
  /\ pc \in {"bytes", "stat"} =>
       [play |-> call.play, generation |-> call.generation] \in arms
  /\ pc \in {"process", "lookup", "spawn"} =>
       \A a \in arms : Current(a) => a.play = call.play
  /\ pc = "process" => \A c \in DOMAIN clients : Serving(c) => clients[c].play = call.play
  /\ pc \in {"lookup", "spawn", "register"} =>
       \A c \in DOMAIN clients : Serving(c) => clients[c].game = call.game
  /\ pc = "lookup" =>
       \A c \in DOMAIN clients : clients[c].game = call.game =>
         Recorded.game = call.game
  /\ pc = "spawn" => \A c \in DOMAIN clients : clients[c].game # call.game

SoleInv == OneRunning /\ Sole /\ InRecord /\ ArmsServed /\ CallServed

LEMMA ClientsTyped ==
  ASSUME SessionTyped, NEW c \in DOMAIN clients
  PROVE  clients[c].play \in Play /\ clients[c].game \in Games
<1>1. clients \in Seq(ClientRecord)
  BY DEF SessionTyped, TypeOK, ClientRecord
<1>2. clients[c] \in ClientRecord
  BY <1>1
<1>3. QED
  BY <1>2 DEF ClientRecord

LEMMA SoleInit == Init => SoleInv
BY FS_EmptySet
   DEF Init, SoleInv, OneRunning, Sole, InRecord, ArmsServed, CallServed, ArmSteps

(* No game starts beside another.                                           *)
LEMMA StartsAlone ==
  ASSUME OneEmulator, SessionTyped, OneRunning, NEW pid \in Pid, StartGame(pid)
  PROVE  /\ running = {} /\ OneRunning'
         /\ \A c \in DOMAIN clients : ~Serving(c)'
<1>1. Cardinality(running) \in Nat /\ Cardinality(running) < 1
  BY BoundsAssumption, FS_CardinalityType DEF OneEmulator, OneRunning, StartGame
<1>2. running = {}
  BY <1>1, FS_EmptySet DEF OneRunning
<1>3. running' = {Len(starts) + 1} /\ clients' = clients /\ Len(starts) \in Nat
  BY <1>2 DEF StartGame, SessionTyped, TypeOK
<1>4. OneRunning'
  BY <1>3, FS_Singleton DEF OneRunning
<1>5. \A c \in DOMAIN clients : clients[c].game \in Games
  BY ClientsTyped
<1>6. QED
  BY <1>2, <1>3, <1>4, <1>5 DEF Serving, Games

LEMMA RunningStep ==
  ASSUME OneEmulator, SessionTyped, OneRunning, [Next]_vars PROVE OneRunning'
<1>1. CASE \E pid \in Pid : StartGame(pid)
  BY <1>1, StartsAlone
<1>2. CASE \E g \in Games : ExitGame(g)
  <2>1. PICK g \in Games : running' = running \ {g}
    BY <1>2 DEF ExitGame
  <2>2. IsFiniteSet(running')
    BY <2>1, FS_RemoveElement DEF OneRunning
  <2>3. QED
    BY <2>1, <2>2 DEF OneRunning
<1>3. CASE running' = running
  BY <1>3 DEF OneRunning
<1>4. QED
  BY <1>1, <1>2, <1>3
     DEF Next, Outside, Switch, ExitClient, Die, Arming, ArmCalls, ArmBytes, ArmStat,
         Connecting, ConnectCalls, Bytes, Stat, CheckProcess, Reuse, NotSupervised, Spawn,
         Register, Refuse, Stopping, StopCalls, Release, Quiet, outside, vars

(* The world around a call: switches, and games and clients that end.       *)
LEMMA OutsideSole ==
  ASSUME OneEmulator, SessionTyped, SoleInv, Outside PROVE SoleInv'
<1>1. OneRunning'
  BY RunningStep DEF SoleInv, Next
<1>2. UNCHANGED <<arms, records, pc, call>>
  BY DEF Outside, Switch, StartGame, ExitGame, ExitClient
<1>3. SameClients
  BY ClientsStep DEF Next, Outside, Switch, StartGame, ExitGame, ExitClient, Spawn, outside,
     SameClients
<1>4. Sole'
  BY <1>3 DEF SoleInv, Sole, SameClients
<1>5. \A c \in DOMAIN clients' : Serving(c)' => Serving(c)
  <2>1. CASE \E pid \in Pid : StartGame(pid)
    BY <1>3, <2>1, StartsAlone DEF SoleInv, SameClients
  <2>2. CASE ~\E pid \in Pid : StartGame(pid)
    BY <1>3, <2>2 DEF Outside, Switch, ExitGame, ExitClient, Serving, SameClients, outside
  <2>3. QED
    BY <2>1, <2>2
<1>6. InRecord'
  BY <1>2, <1>3, <1>5 DEF SoleInv, InRecord, SameClients
<1>7. \A a \in arms : Current(a)' => Current(a) /\ active' = active
  <2>1. /\ generation \in Nat /\ \A a \in arms : a.generation \in 0 .. generation
    BY DEF SessionTyped, TypeOK
  <2>2. generation' = generation + 1 \/ UNCHANGED <<generation, active>>
    BY DEF Outside, Switch, StartGame, ExitGame, ExitClient, outside
  <2>3. QED
    BY <2>1, <2>2 DEF Current
<1>8. ArmsServed'
  BY <1>2, <1>3, <1>5, <1>7 DEF SoleInv, ArmsServed, SameClients
<1>9. CallServed'
  <2>1. Recorded' = Recorded
    BY <1>2 DEF Recorded
  <2>2. QED
    BY <1>2, <1>3, <1>5, <1>7, <2>1 DEF SoleInv, CallServed, SameClients
<1>10. QED
  BY <1>1, <1>4, <1>6, <1>8, <1>9 DEF SoleInv

(* A step of a call that starts no client, records nothing and mints no     *)
(* arm has only its own place to answer for.                                *)
LEMMA CallSole ==
  ASSUME SessionTyped, SoleInv, UNCHANGED <<outside, arms, records>>, SameClients,
         pc # "register" \/ ~\E c \in DOMAIN clients : pc = "register" /\ call.client = c
  PROVE  OneRunning' /\ Sole' /\ InRecord' /\ ArmsServed'
<1>1. \A c \in DOMAIN clients : Serving(c)' <=> Serving(c)
  BY DEF SameClients, Serving, outside
<1>2. InRecord'
  BY <1>1 DEF SoleInv, InRecord, SameClients
<1>3. ArmsServed'
  BY <1>1 DEF SoleInv, ArmsServed, SameClients, Current, outside
<1>4. OneRunning' /\ Sole'
  BY DEF SoleInv, OneRunning, Sole, SameClients, outside
<1>5. QED
  BY <1>2, <1>3, <1>4

LEMMA ArmingSole ==
  ASSUME SessionTyped, SoleInv, Arming PROVE SoleInv'
<1>1. SameClients /\ clients' = clients
  BY DEF Arming, ArmCalls, ArmBytes, ArmStat, Quiet, SameClients
<1>2. CASE \E p \in Play : ArmCalls(p)
  <2>1. pc = "idle" /\ pc' = "arm_bytes" /\ running' = {}
        /\ UNCHANGED <<outside, arms, records>>
    BY <1>2 DEF ArmCalls, Begin, Quiet, outside
  <2>2. OneRunning' /\ Sole' /\ InRecord' /\ ArmsServed'
    BY <1>1, <2>1, CallSole
  <2>3. CallServed'
    BY <1>1, <2>1 DEF CallServed, Serving
  <2>4. QED
    BY <2>2, <2>3 DEF SoleInv
<1>3. CASE ArmBytes
  <2>1. pc = "arm_bytes" /\ pc' = "arm_stat" /\ UNCHANGED <<outside, arms, records>>
    BY <1>3 DEF ArmBytes, Step, Quiet
  <2>2. OneRunning' /\ Sole' /\ InRecord' /\ ArmsServed'
    BY <1>1, <2>1, CallSole
  <2>3. CallServed'
    BY <1>1, <2>1 DEF SoleInv, CallServed, Serving, ArmSteps, outside
  <2>4. QED
    BY <2>2, <2>3 DEF SoleInv
<1>4. CASE ArmStat
  <2>1. /\ pc = "arm_stat" /\ pc' = "idle" /\ active = call.play
        /\ arms' = arms \cup {NewArm} /\ UNCHANGED <<outside, records>>
    BY <1>4 DEF ArmStat, Return, IsActive
  <2>2. \A c \in DOMAIN clients : ~Serving(c) /\ ~Serving(c)'
    BY <1>1, <2>1 DEF SoleInv, CallServed, Serving, ArmSteps, outside
  <2>3. OneRunning' /\ Sole' /\ InRecord'
    BY <1>1, <2>1, <2>2 DEF SoleInv, OneRunning, Sole, InRecord, outside
  <2>4. ArmsServed'
    BY <1>1, <2>1, <2>2 DEF SoleInv, ArmsServed, NewArm, Current, outside
  <2>5. CallServed'
    BY <2>1 DEF CallServed, ArmSteps
  <2>6. QED
    BY <2>3, <2>4, <2>5 DEF SoleInv
<1>5. QED
  BY <1>2, <1>3, <1>4 DEF Arming

LEMMA SpawnSole ==
  ASSUME SessionTyped, SoleInv, Spawn PROVE SoleInv'
<1> DEFINE n == Len(clients) + 1
<1>1. /\ pc = "spawn" /\ pc' = "register" /\ UNCHANGED <<outside, arms, records>>
      /\ call'.play = call.play /\ call'.game = call.game /\ call'.client = n
  BY DEF Spawn, SessionTyped, TypeOK
<1>2. /\ DOMAIN clients' = DOMAIN clients \cup {n}
      /\ \A c \in DOMAIN clients : clients'[c] = clients[c]
      /\ clients'[n].play = call.play /\ clients'[n].game = call.game
  BY SpawnAppends
<1> HIDE DEF n
<1>3. \A c \in DOMAIN clients : Serving(c)' <=> Serving(c)
  BY <1>1, <1>2 DEF Serving, outside
<1>4. OneRunning'
  BY <1>1 DEF SoleInv, OneRunning, outside
<1>5. Sole'
  <2>1. \A c \in DOMAIN clients : clients[c].game # call.game
    BY <1>1 DEF SoleInv, CallServed
  <2>2. QED
    BY <1>2, <2>1 DEF SoleInv, Sole
<1>6. InRecord'
  <2>1. \A c \in DOMAIN clients :
          Serving(c) => records[clients[c].play].game = clients[c].game
    BY <1>1 DEF SoleInv, InRecord
  <2>2. QED
    BY <1>1, <1>2, <1>3, <2>1 DEF InRecord
<1>7. ArmsServed'
  <2>1. \A a \in arms : Current(a) => a.play = call.play
    BY <1>1 DEF SoleInv, CallServed
  <2>2. \A a \in arms : Current(a)' <=> Current(a)
    BY <1>1 DEF Current, outside
  <2>3. QED
    BY <1>1, <1>2, <1>3, <2>1, <2>2 DEF SoleInv, ArmsServed, outside
<1>8. CallServed'
  BY <1>1, <1>2, <1>3 DEF SoleInv, CallServed, ArmSteps
<1>9. QED
  BY <1>4, <1>5, <1>6, <1>7, <1>8 DEF SoleInv

LEMMA RegisterSole ==
  ASSUME SessionTyped, Kept, SoleInv, Register PROVE SoleInv'
<1>1. /\ pc = "register" /\ pc' = "idle" /\ UNCHANGED <<outside, clients, arms>>
      /\ records' = [records EXCEPT ![call.play] = NewSession] /\ call.play \in Play
  BY DEF Register, Return, SessionTyped, CallOK
<1>2. /\ call.client \in DOMAIN clients /\ clients[call.client].play = call.play
      /\ clients[call.client].game = call.game
      /\ NewSession.game = call.game
  BY <1>1 DEF Kept, NewSession
<1>3. \A c \in DOMAIN clients : (Serving(c)' <=> Serving(c)) /\ clients[c].play \in Play
  BY <1>1, ClientsTyped DEF Serving, outside
<1>4. InRecord'
  <2> SUFFICES ASSUME NEW c \in DOMAIN clients, Serving(c)
               PROVE  records'[clients[c].play].game = clients[c].game
    BY <1>1, <1>3 DEF InRecord
  <2>1. clients[c].game = call.game /\ c = call.client
    BY <1>1, <1>2 DEF SoleInv, CallServed, Sole
  <2>2. DOMAIN records = Play
    BY DEF SessionTyped, TypeOK
  <2>3. QED
    BY <1>1, <1>2, <2>1, <2>2
<1>5. OneRunning' /\ Sole' /\ ArmsServed'
  BY <1>1, <1>3 DEF SoleInv, OneRunning, Sole, ArmsServed, Current, outside
<1>6. CallServed'
  BY <1>1 DEF CallServed, ArmSteps
<1>7. QED
  BY <1>4, <1>5, <1>6 DEF SoleInv

(* The checks of a call, up to the client it starts.                        *)
LEMMA ChecksSole ==
  ASSUME SessionTyped, Kept, SoleInv,
         \/ \E a \in arms, claim \in Games \cup {NoGame} : ConnectCalls(a, claim)
         \/ Bytes \/ Stat \/ (\E g \in Games : CheckProcess(g)) \/ Reuse \/ NotSupervised
  PROVE  SoleInv'
<1>1. /\ UNCHANGED <<outside, arms, records, clients>> /\ SameClients
      /\ pc # "register"
  BY DEF ConnectCalls, Begin, Bytes, Stat, CheckProcess, Reuse, NotSupervised, Step, Return,
     Quiet, SameClients
<1>2. OneRunning' /\ Sole' /\ InRecord' /\ ArmsServed'
  BY <1>1, CallSole
<1>3. \A c \in DOMAIN clients : Serving(c)' <=> Serving(c)
  BY <1>1 DEF Serving, outside
<1>4. \A a \in arms : Current(a)' <=> Current(a)
  BY <1>1 DEF Current, outside
<1>5. CASE \E a \in arms, claim \in Games \cup {NoGame} : ConnectCalls(a, claim)
  <2>1. PICK a \in arms, claim \in Games \cup {NoGame} : ConnectCalls(a, claim)
    BY <1>5
  <2>2. /\ pc' = "bytes" /\ call'.play = a.play /\ call'.generation = a.generation
        /\ a = [play |-> a.play, generation |-> a.generation]
    BY <2>1 DEF ConnectCalls, Begin, NoCall, SessionTyped, TypeOK
  <2>3. CallServed'
    BY <1>1, <2>2 DEF CallServed, ArmSteps
  <2>4. QED
    BY <1>2, <2>3 DEF SoleInv
<1>6. CASE Bytes
  <2>1. pc = "bytes" /\ pc' = "stat" /\ call' = call
    BY <1>6 DEF Bytes, Step
  <2>2. CallServed'
    BY <1>1, <2>1 DEF SoleInv, CallServed, ArmSteps
  <2>3. QED
    BY <1>2, <2>2 DEF SoleInv
<1>7. CASE Stat
  <2> DEFINE arm == [play |-> call.play, generation |-> call.generation]
  <2>1. pc = "stat" /\ pc' = "process" /\ call' = call /\ arm \in arms /\ Current(arm)
    BY <1>7 DEF Stat, Step, Unchanged, SoleInv, CallServed, Current
  <2>2. active = call.play
        /\ \A c \in DOMAIN clients : Serving(c) => clients[c].play = call.play
    BY <2>1 DEF SoleInv, ArmsServed
  <2>3. \A a \in arms : Current(a) => a.play = call.play
    BY <2>2 DEF SoleInv, ArmsServed
  <2>4. CallServed'
    BY <1>1, <1>3, <1>4, <2>1, <2>2, <2>3 DEF CallServed, ArmSteps
  <2>5. QED
    BY <1>2, <2>4 DEF SoleInv
<1>8. CASE \E g \in Games : CheckProcess(g)
  <2>1. PICK g \in Games : CheckProcess(g)
    BY <1>8
  <2>2. /\ pc = "process" /\ pc' = "lookup" /\ g \in running
        /\ call'.play = call.play /\ call'.game = g
    BY <2>1 DEF CheckProcess, Identified, SessionTyped, TypeOK
  <2>3. \A c \in DOMAIN clients : Serving(c) => clients[c].game = g
    BY <2>2 DEF Serving, SoleInv, OneRunning
  <2>4. \A c \in DOMAIN clients : clients[c].game = g => records[call.play].game = g
    BY <2>2 DEF Serving, SoleInv, InRecord, CallServed
  <2>5. \A a \in arms : Current(a) => a.play = call.play
    BY <2>2 DEF SoleInv, CallServed
  <2>6. CallServed'
    BY <1>1, <1>3, <1>4, <2>2, <2>3, <2>4, <2>5 DEF CallServed, ArmSteps, Recorded
  <2>7. QED
    BY <1>2, <2>6 DEF SoleInv
<1>9. CASE Reuse
  BY <1>2, <1>9 DEF Reuse, Return, SoleInv, CallServed, ArmSteps
<1>10. CASE NotSupervised
  <2>1. pc = "lookup" /\ pc' = "spawn" /\ call' = call /\ ~SamePid /\ call.game \in Games
    BY <1>10 DEF NotSupervised, Step, SessionTyped, CallOK
  <2>2. Recorded.game # call.game
    BY <2>1 DEF SamePid, Games, NoGame, SessionTyped, TypeOK
  <2>3. \A c \in DOMAIN clients : clients[c].game # call.game
    BY <2>1, <2>2 DEF SoleInv, CallServed
  <2>4. CallServed'
    BY <1>1, <1>3, <1>4, <2>1, <2>3 DEF SoleInv, CallServed, ArmSteps
  <2>5. QED
    BY <1>2, <2>4 DEF SoleInv
<1>11. QED
  BY <1>5, <1>6, <1>7, <1>8, <1>9, <1>10

LEMMA SoleStep ==
  ASSUME OneEmulator, NoneUnrecorded
  PROVE  SessionTyped /\ Kept /\ SoleInv /\ [Next]_vars => SoleInv'
<1> SUFFICES ASSUME SessionTyped, Kept, SoleInv, [Next]_vars PROVE SoleInv'
  OBVIOUS
<1>1. CASE Die \/ Refuse \/ Stopping
  <2>1. UNCHANGED <<outside, arms>> /\ SameClients /\ pc # "register"
        /\ pc' \in {"idle", "stopped"}
    <3>1. SameClients
      BY <1>1, ClientsStep DEF Next, Die, Refuse, Stopping, StopCalls, Release, Quiet, Spawn,
         Begin, Return, SameClients
    <3>2. QED
      BY <1>1, <3>1 DEF NoneUnrecorded, Die, Refuse, Stopping, StopCalls, Release, Quiet,
         Begin, Return, ArmSteps
  <2>2. \A p \in Play : records'[p].game = records[p].game
    <3>1. CASE Release
      BY <3>1 DEF Release, SessionTyped, TypeOK
    <3>2. CASE ~Release
      BY <1>1, <3>2 DEF Die, Refuse, Stopping, StopCalls, Quiet
    <3>3. QED
      BY <3>1, <3>2
  <2>3. \A c \in DOMAIN clients : (Serving(c)' <=> Serving(c)) /\ clients[c].play \in Play
    BY <2>1, ClientsTyped DEF Serving, SameClients, outside
  <2>4. OneRunning' /\ Sole'
    BY <2>1 DEF SoleInv, OneRunning, Sole, SameClients, outside
  <2>5. InRecord'
    BY <2>1, <2>2, <2>3 DEF SoleInv, InRecord, SameClients
  <2>6. ArmsServed'
    BY <2>1, <2>3 DEF SoleInv, ArmsServed, SameClients, Current, outside
  <2>7. CallServed'
    BY <2>1 DEF CallServed, ArmSteps
  <2>8. QED
    BY <2>4, <2>5, <2>6, <2>7 DEF SoleInv
<1>2. CASE UNCHANGED vars
  BY <1>2 DEF vars, outside, SoleInv, OneRunning, Sole, InRecord, ArmsServed, CallServed,
     Serving, Current, Recorded
<1>3. CASE Outside \/ Arming \/ Connecting
  BY <1>3, OutsideSole, ArmingSole, ChecksSole, SpawnSole, RegisterSole DEF Connecting
<1>4. QED
  BY <1>1, <1>2, <1>3 DEF Next

(* "Repeated Play never spawns a duplicate client": with one emulator at a  *)
(* time and a backend that does not die between starting a client and       *)
(* recording it, a game process never has two, whatever was switched,       *)
(* started, ended or given the same pid in between.                         *)
THEOREM OneClient ==
  ASSUME OneEmulator, NoneUnrecorded PROVE Spec => []OneClientPerGame
<1>1. SoleInv => OneClientPerGame
  BY DEF SoleInv, Sole, OneClientPerGame
<1>2. Init => SessionTyped /\ Kept /\ SoleInv
  BY TypeInit, KeptInit, SoleInit
<1>3. SessionTyped /\ Kept /\ SoleInv /\ [Next]_vars => (SessionTyped /\ Kept /\ SoleInv)'
  BY TypeStep, KeptStep, SoleStep
<1>4. QED
  BY <1>1, <1>2, <1>3, PTL DEF Spec
=============================================================================
