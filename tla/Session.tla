------------------------------ MODULE Session ------------------------------
(* bb_launcher/integrated: the coordinator backend arms a play while the    *)
(* game is stopped and later connects one Archipelago client to the game    *)
(* process that was started from it.  Around it BBLauncher switches mod     *)
(* packages, emulators start and exit, clients exit, and the backend itself *)
(* may die between two of its steps: what survives is supervisor.json, the  *)
(* arm records and the processes.                                           *)
(*                                                                          *)
(* A play stands for its receipt and package; an arm record for a play and  *)
(* the activation fingerprint it was minted with.  The fingerprint hashes   *)
(* file identities and timestamps as well as bytes, so every switch makes a *)
(* new one: `generation`.  A call that is refused before it has changed     *)
(* anything is the absence of a step.                                       *)
EXTENDS Naturals, Sequences, FiniteSets

CONSTANTS
  Play, NoPlay,        \* plays; what the game runs without any of them
  Pid,                 \* process numbers: the system gives them out again
  MaxSwitches,         \* bounds: package switches,
  MaxStarts,           \*   emulator starts,
  MaxGames,            \*   emulators at a time,
  MaxClients,          \*   clients ever started,
  MaxDeaths,           \*   backend deaths
  DieAt,               \* the steps before which the backend may die
  StartsWhileArming    \* whether somebody starts the game during an arm call

ASSUME NoPlayAssumption == NoPlay \notin Play
ASSUME BoundsAssumption ==
  {MaxSwitches, MaxStarts, MaxGames, MaxClients, MaxDeaths} \subseteq Nat
ASSUME StartsAssumption == StartsWhileArming \in BOOLEAN

VARIABLES
  active,      \* the play whose package is active in the game overlay
  generation,  \* of the file identities under it
  starts,      \* every emulator process ever started: its pid, what it loaded
  running,     \* those still alive
  clients,     \* every client process ever started
  arms,        \* arm records on disk
  records,     \* supervisor.json: the session of each play
  handle,      \* client_processes: this backend's Popen object of each session
  deaths,
  pc, call     \* the backend's step and the locals of its call

outside == <<active, generation, starts, running>>
vars == <<outside, clients, arms, records, handle, deaths, pc, call>>

NoGame == 0      \* a game is known by its creation: its index in starts
NoClient == 0    \* a client by its index in clients
NoSession == [game |-> NoGame, client |-> NoClient]
NoCall == [play |-> NoPlay, generation |-> 0, claim |-> NoGame,
           game |-> NoGame, client |-> NoClient]
NoHandles == [p \in Play |-> NoClient]

Games == 1 .. Len(starts)
PidOf(g) == starts[g].pid
Loaded(g) == starts[g].play

ArmSteps == {"arm_bytes", "arm_stat"}
ConnectSteps == {"bytes", "stat", "process", "lookup", "spawn", "register"}
Steps == {"idle", "stopped"} \cup ArmSteps \cup ConnectSteps

Init ==
  /\ active = NoPlay /\ generation = 0
  /\ starts = << >> /\ running = {}
  /\ clients = << >>
  /\ arms = {}
  /\ records = [p \in Play |-> NoSession]
  /\ handle = NoHandles
  /\ deaths = 0
  /\ pc = "idle" /\ call = NoCall

----------------------------------------------------------------------------
(* The world around the backend.                                            *)

(* BBLauncher activates a package, activates it again or deactivates it.    *)
Switch(p) ==
  /\ generation < MaxSwitches
  /\ active' = p
  /\ generation' = generation + 1
  /\ UNCHANGED <<starts, running, clients, arms, records, handle, deaths, pc,
                 call>>

(* shadPS4 starts with a pid no running emulator has, and loads what is     *)
(* active.                                                                  *)
StartGame(pid) ==
  /\ Cardinality(running) < MaxGames
  /\ Len(starts) < MaxStarts
  /\ \A g \in running : PidOf(g) # pid
  /\ StartsWhileArming \/ pc \notin ArmSteps
  /\ starts' = Append(starts, [pid |-> pid, play |-> active])
  /\ running' = running \cup {Len(starts) + 1}
  /\ UNCHANGED <<active, generation, clients, arms, records, handle, deaths,
                 pc, call>>

ExitGame(g) ==
  /\ g \in running
  /\ running' = running \ {g}
  /\ UNCHANGED <<active, generation, starts, clients, arms, records, handle,
                 deaths, pc, call>>

ExitClient(c) ==
  /\ clients[c].alive
  /\ clients' = [clients EXCEPT ![c].alive = FALSE]
  /\ UNCHANGED <<outside, arms, records, handle, deaths, pc, call>>

(* The backend dies and BBLauncher runs another: the handles are lost, the  *)
(* clients keep running.                                                    *)
Die ==
  /\ pc \in DieAt /\ deaths < MaxDeaths
  /\ deaths' = deaths + 1
  /\ pc' = "idle" /\ call' = NoCall
  /\ handle' = NoHandles
  /\ UNCHANGED <<outside, clients, arms, records>>

----------------------------------------------------------------------------
Begin(to, c) == pc = "idle" /\ pc' = to /\ call' = c

Step(from, to) == pc = from /\ pc' = to /\ UNCHANGED call

Return(from) == pc = from /\ pc' = "idle" /\ call' = NoCall

Quiet == UNCHANGED <<outside, clients, arms, records, handle, deaths>>

(* verify_and_arm: the preflight refuses while a game runs; the bytes are   *)
(* verified, then the fingerprint is taken and the arm record written.      *)
ArmCalls(p) ==
  /\ running = {}
  /\ Begin("arm_bytes", [NoCall EXCEPT !.play = p])
  /\ Quiet

(* verify_external_activation hashes every file before it reads the file    *)
(* identities the fingerprint is made of.                                   *)
IsActive == active = call.play

ArmBytes == IsActive /\ Step("arm_bytes", "arm_stat") /\ Quiet

(* As if the arm were minted for the activation to come. *)
ArmAhead == [play |-> call.play, generation |-> generation + 1]

NewArm == [play |-> call.play, generation |-> generation]

ArmStat ==
  /\ Return("arm_stat")
  /\ IsActive
  /\ arms' = arms \cup {NewArm}
  /\ UNCHANGED <<outside, clients, records, handle, deaths>>

(* connect_and_start_client, with the process the fork says it started or   *)
(* without one: bytes and fingerprint, then the live process.               *)
ConnectCalls(a, claim) ==
  /\ Begin("bytes", [NoCall EXCEPT !.play = a.play, !.claim = claim,
                                   !.generation = a.generation])
  /\ Quiet

Bytes == IsActive /\ Step("bytes", "stat") /\ Quiet

(* As if the fingerprint were made of bytes alone. *)
UnchangedBytes == IsActive

Unchanged == generation = call.generation

Stat == IsActive /\ Unchanged /\ Step("stat", "process") /\ Quiet

(* _check_claimed_process: a process of the claimed pid must be running and *)
(* be of the claimed creation.  Without a claim only an emulator that runs  *)
(* alone identifies itself.                                                 *)
Identified(g) ==
  \/ /\ call.claim # NoGame /\ g = call.claim
     /\ \E live \in running : PidOf(live) = PidOf(g) /\ live = g
  \/ call.claim = NoGame /\ running = {g}

CheckProcess(g) ==
  /\ pc = "process" /\ pc' = "lookup"
  /\ Identified(g)
  /\ call' = [call EXCEPT !.game = g]
  /\ Quiet

(* existing_session_for_play and reattach_session: a session recorded for   *)
(* this pid is reused when it is the same process and refused when the pid  *)
(* was given out again.                                                     *)
Recorded == records[call.play]

(* As if sessions were never looked up. *)
SamePidNever == FALSE

SamePid == Recorded.game # NoGame /\ PidOf(Recorded.game) = PidOf(call.game)

Reuse ==
  /\ Return("lookup")
  /\ SamePid /\ Recorded.game = call.game
  /\ Quiet

NotSupervised == Step("lookup", "spawn") /\ ~SamePid /\ Quiet

(* production_spawn checks the plan, the cache and the receipt again, and   *)
(* starts the client.                                                       *)
Spawn ==
  /\ pc = "spawn" /\ pc' = "register"
  /\ Len(clients) < MaxClients
  /\ clients' = Append(clients, [play |-> call.play, game |-> call.game,
                                 claimed |-> call.claim # NoGame,
                                 alive |-> TRUE])
  /\ call' = [call EXCEPT !.client = Len(clients) + 1]
  /\ UNCHANGED <<outside, arms, records, handle, deaths>>

(* register_session; the handle is kept, an earlier one of the session is   *)
(* dropped.  claim_client then finds the client it is asked to record.      *)
(* As if a new session kept the process of the old one. *)
SessionOfOldGame ==
  [game |-> IF Recorded.game = NoGame THEN call.game ELSE Recorded.game,
   client |-> call.client]

NewSession == [game |-> call.game, client |-> call.client]

Register ==
  /\ Return("register")
  /\ records' = [records EXCEPT ![call.play] = NewSession]
  /\ handle' = [handle EXCEPT ![call.play] = call.client]
  /\ UNCHANGED <<outside, clients, arms, deaths>>

(* A check of a call fails, at the latest before the client is started, and *)
(* the call answers with an error.                                          *)
Refuse ==
  /\ pc \in ArmSteps \cup (ConnectSteps \ {"register"})
  /\ Return(pc)
  /\ \/ pc \in {"arm_bytes", "arm_stat", "bytes"} /\ ~IsActive
     \/ pc = "stat" /\ ~(IsActive /\ Unchanged)
     \/ pc = "process" /\ \A g \in Games : ~Identified(g)
     \/ pc = "lookup" /\ SamePid /\ Recorded.game # call.game
     \/ pc = "spawn"
  /\ Quiet

(* stop_client: only with the handle; the client is terminated and waited   *)
(* for, then its session is released.                                       *)
(* As if terminate() were not waited for. *)
EndedLater(c) == clients

Ended(c) == [clients EXCEPT ![c].alive = FALSE]

StopCalls(p) ==
  /\ handle[p] # NoClient
  /\ Begin("stopped", [NoCall EXCEPT !.play = p])
  /\ clients' = Ended(handle[p])
  /\ UNCHANGED <<outside, arms, records, handle, deaths>>

Release ==
  /\ Return("stopped")
  /\ handle' = [handle EXCEPT ![call.play] = NoClient]
  /\ records' = [records EXCEPT ![call.play].client = NoClient]
  /\ UNCHANGED <<outside, clients, arms, deaths>>

Outside ==
  \/ \E p \in Play \cup {NoPlay} : Switch(p)
  \/ \E pid \in Pid : StartGame(pid)
  \/ \E g \in Games : ExitGame(g)
  \/ \E c \in DOMAIN clients : ExitClient(c)

Arming == (\E p \in Play : ArmCalls(p)) \/ ArmBytes \/ ArmStat

Connecting ==
  \/ \E a \in arms, claim \in Games \cup {NoGame} : ConnectCalls(a, claim)
  \/ Bytes \/ Stat \/ (\E g \in Games : CheckProcess(g))
  \/ Reuse \/ NotSupervised \/ Spawn \/ Register

Stopping == (\E p \in Play : StopCalls(p)) \/ Release

Next == Outside \/ Die \/ Arming \/ Connecting \/ Refuse \/ Stopping

Spec == Init /\ [][Next]_vars

----------------------------------------------------------------------------
(* Every variable holds what the program can put there.                     *)
TypeOK ==
  /\ active \in Play \cup {NoPlay} /\ generation \in Nat
  /\ starts \in Seq([pid : Pid, play : Play \cup {NoPlay}])
  /\ running \subseteq Games
  /\ clients \in Seq([play : Play, game : Games, claimed : BOOLEAN,
                      alive : BOOLEAN])
  /\ arms \subseteq [play : Play, generation : 0 .. generation]
  /\ records \in [Play -> [game : Games \cup {NoGame}, client : 0 .. Len(clients)]]
  /\ handle \in [Play -> 0 .. Len(clients)]
  /\ deaths \in Nat
  /\ pc \in Steps
  /\ call \in [play : Play \cup {NoPlay}, generation : 0 .. generation,
               claim : Games \cup {NoGame}, game : Games \cup {NoGame},
               client : 0 .. Len(clients)]

(* "Verify exact activation and selected identity with game stopped", then  *)
(* "recheck installed bytes and fresh game process": a client connected to  *)
(* the process the fork reported speaks for the play that process loaded,   *)
(* whatever was switched, restarted or given the same pid since the arm.    *)
ClientMatchesGame ==
  \A c \in DOMAIN clients :
    clients[c].claimed => Loaded(clients[c].game) = clients[c].play

(* "Repeated Play never spawns a duplicate client: the supervisor record    *)
(* owns one client per session": two live clients never serve one game.     *)
OneClientPerGame ==
  \A c, d \in DOMAIN clients :
    clients[c].alive /\ clients[d].alive /\ clients[c].game = clients[d].game
      => c = d

(* What supervisor.json says of a play is true: the recorded game is one    *)
(* the play's client was started for, and the recorded client is that one.  *)
SessionIsTruthful ==
  \A p \in Play :
    records[p].game # NoGame =>
      \E c \in DOMAIN clients :
        /\ clients[c].play = p /\ clients[c].game = records[p].game
        /\ records[p].client \in {c, NoClient}

(* release_client: a record lets go of a client only when that client has   *)
(* exited, so that a live one can still be found.                           *)
ReleaseOnlyDead ==
  [][\A p \in Play :
       records[p].client # NoClient /\ records'[p].client = NoClient
         => ~clients'[records[p].client].alive]_vars
=============================================================================
