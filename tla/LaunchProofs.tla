---------------------------- MODULE LaunchProofs ----------------------------
(***************************************************************************)
(* Theorems about the launcher window, alone (LaunchSpec) and with its     *)
(* Create & host page (HostSpec), for any rooms, addresses and bounds.     *)
(* Every lemma about a step of the window serves both.                     *)
(***************************************************************************)
EXTENDS LocalHost, TLAPS

Preparing == {"prepare", "evict", "write", "publish", "built"}
Equipping == {"stopped", "switch", "witness", "witnessed"}
Published == {"probe", "spawn", "starting", "identity", "handback"}

(* Which calls get to which steps, and what they know there.                *)
JobInv ==
  /\ step \in {"idle"} \cup LaunchSteps \cup HostSteps
  /\ step \in LaunchSteps =>
       job.server \in Server /\ job.what \in {"launch", "randomize", "connect", "vanilla"}
  /\ step \in LaunchSteps /\ job.what \in {"launch", "connect"} => job.slot \in Room
  /\ step \in Preparing => job.what \in {"launch", "randomize"}
  /\ step \in Equipping => job.what = "launch"
  /\ step \in {"config", "client"} => job.what \in {"launch", "connect"}
  /\ step = "late" => job.what = "connect"
  /\ step = "game" => job.what \in {"launch", "vanilla"}
  /\ step = "spawned" => job.what = "vanilla"
  /\ step \in (Preparing \ {"prepare"}) \cup Equipping \cup {"config", "late", "client"} =>
       job.room \in Room
  /\ step = "game" /\ job.what = "launch" => job.room \in Room
  /\ step \in LaunchSteps \ {"read"} /\ job.what = "launch" => job.first \in Room
  /\ step = "publish" => job.made \in Room
  /\ step \in Published => job.server \in Server /\ job.first \in Room

Typed == LaunchTypeOK /\ JobInv

-----------------------------------------------------------------------------
LEMMA NoJobOK == NoJob \in Job
BY DEF NoJob, Job

LEMMA AppendKeeps ==
  ASSUME NEW S, NEW s \in Seq(S), NEW e \in S
  PROVE  /\ Append(s, e) \in Seq(S)
         /\ Len(Append(s, e)) = Len(s) + 1
         /\ Len(s) \in Nat
         /\ \A i \in 1 .. Len(s) : Append(s, e)[i] = s[i]
         /\ Append(s, e)[Len(s) + 1] = e
OBVIOUS

LEMMA ElementIn == ASSUME NEW S, NEW s \in Seq(S), NEW i \in 1 .. Len(s) PROVE s[i] \in S
OBVIOUS

LEMMA OneMore ==
  ASSUME NEW n \in Nat, NEW S \in SUBSET (1 .. n)
  PROVE  S \cup {n + 1} \subseteq 1 .. n + 1
OBVIOUS

LEMMA TypedInit == LaunchInit => Typed
<1> SUFFICES ASSUME LaunchInit PROVE Typed
  OBVIOUS
<1> USE DEF LaunchInit
<1>1. LaunchTypeOK
  <2>1. Vanilla \in Overlays
    BY DEF Vanilla, Overlays
  <2>2. 0 \in 0 .. MaxFaults /\ Len(boots) <= MaxBoots /\ Len(logins) <= MaxLogins
    BY LaunchBounds
  <2>3. cache \in [Room -> Content] /\ witness \in [Room -> Content]
    BY DEF Content
  <2>4. config \in [Room -> Room \cup {NoRoom}] /\ lock \in [Server -> Room \cup {NoRoom}]
        /\ spoke \in [Server -> Room \cup {NoRoom}]
    OBVIOUS
  <2>5. boots \in Seq(Overlays) /\ logins \in Seq(Login)
    OBVIOUS
  <2>6. QED
    BY <2>1, <2>2, <2>3, <2>4, <2>5, NoJobOK DEF LaunchTypeOK
<1>2. JobInv
  BY DEF JobInv, LaunchSteps, HostSteps, Preparing, Equipping, Published
<1>3. QED
  BY <1>1, <1>2 DEF Typed

(* Between two calls there is nothing to know.                              *)
LEMMA IdleJob == step = "idle" => JobInv
BY DEF JobInv, LaunchSteps, HostSteps, Preparing, Equipping, Published

(* A call that ends, and a button.                                          *)
LEMMA EndedTyped ==
  ASSUME Typed, Done,
         UNCHANGED <<field, cache, witness, config, lock, procs, history>>,
         overlay' \in Overlays, faults' \in 0 .. MaxFaults
  PROVE  Typed'
<1>1. step' = "idle" /\ job' = NoJob
  BY DEF Done
<1>2. JobInv'
  BY <1>1, IdleJob DEF JobInv, LaunchSteps, HostSteps, Preparing, Equipping, Published
<1>3. LaunchTypeOK'
  BY <1>1, NoJobOK DEF Typed, LaunchTypeOK, procs, history
<1>4. QED
  BY <1>2, <1>3 DEF Typed

LEMMA FailTyped == ASSUME Typed, NEW from, Fail(from) PROVE Typed'
BY EndedTyped DEF Fail, files, Typed, LaunchTypeOK

LEMMA PressTyped ==
  ASSUME Typed, NEW what \in {"launch", "randomize", "connect", "vanilla"},
         NEW agreed \in BOOLEAN, NEW rebuild \in BOOLEAN, Press(what, agreed, rebuild)
  PROVE  Typed'
<1> DEFINE slot == IF what \in Speaks THEN field.room ELSE NoRoom
<1>1. field.room \in Room /\ field.server \in Server
  BY DEF Typed, LaunchTypeOK
<1>2. slot \in Room \cup {NoRoom} /\ (what \in {"launch", "connect"} => slot \in Room)
  BY <1>1 DEF Speaks
<1>3. job' = [NoJob EXCEPT !.what = what, !.agreed = agreed, !.rebuild = rebuild,
                           !.server = field.server, !.slot = slot]
      /\ step' = "read"
  BY DEF Press, To
<1> HIDE DEF slot
<1>4. job' = [what |-> what, server |-> field.server, slot |-> slot, agreed |-> agreed,
              rebuild |-> rebuild, first |-> NoRoom, room |-> NoRoom, made |-> NoRoom,
              game |-> 0, gen |-> 0]
  BY <1>3 DEF NoJob
<1>5. job' \in Job /\ job'.what = what /\ job'.server = field.server /\ job'.slot = slot
  BY <1>1, <1>2, <1>4 DEF Job
<1>6. JobInv'
  BY <1>1, <1>2, <1>3, <1>5 DEF JobInv, LaunchSteps, HostSteps, Preparing, Equipping, Published
<1>7. LaunchTypeOK'
  BY <1>5 DEF Press, Typed, LaunchTypeOK, files, procs, history
<1>8. QED
  BY <1>6, <1>7 DEF Typed

LEMMA PreparesTyped == ASSUME Typed, PreparesSeed PROVE Typed'
<1> USE DEF Typed
<1>1. CASE ReadRequest
  <2>1. /\ \/ job' = [job EXCEPT !.first = field.room, !.agreed = FALSE]
           \/ job.what # "launch" /\ job' = job
        /\ step = "read" /\ step' = "prepare" /\ job.what \in Builds
    BY <1>1 DEF ReadRequest, To
  <2>2. /\ job' \in Job /\ UNCHANGED <<job.slot, job.server, job.what>>
        /\ job.what = "launch" => job'.first \in Room
        /\ job.what \in {"launch", "randomize"}
    BY <1>1, <2>1 DEF ReadRequest, LaunchTypeOK, Job, JobInv, LaunchSteps, Builds
  <2>3. lock' \in [Server -> Room \cup {NoRoom}] /\ waved' \subseteq Server
    BY <1>1 DEF ReadRequest, Remember, LaunchTypeOK, JobInv, LaunchSteps
  <2>4. LaunchTypeOK'
    BY <1>1, <2>2, <2>3 DEF ReadRequest, LaunchTypeOK, procs
  <2>5. JobInv'
    BY <2>1, <2>2 DEF JobInv, LaunchSteps, HostSteps, Preparing, Equipping, Published
  <2>6. QED
    BY <2>4, <2>5
<1>2. CASE Prepare
  <2>1. job' = [job EXCEPT !.room = field.room, !.rebuild = FALSE] /\ step = "prepare"
        /\ step' \in {"write", "evict", "built"}
    BY <1>2 DEF Prepare, KeyRoom, To
  <2>2. job' \in Job /\ job'.room \in Room
        /\ UNCHANGED <<job.slot, job.server, job.what, job.first>>
    BY <2>1 DEF LaunchTypeOK, Job
  <2>3. cache' \in [Room -> Content]
    BY <1>2 DEF Prepare, LaunchTypeOK, Content
  <2>4. LaunchTypeOK'
    BY <1>2, <2>2, <2>3 DEF Prepare, LaunchTypeOK, procs, history
  <2>5. JobInv'
    BY <2>1, <2>2 DEF JobInv, LaunchSteps, HostSteps, Preparing, Equipping, Published
  <2>6. QED
    BY <2>4, <2>5
<1>3. CASE Evict \/ PublishBuild
  <2>1. /\ step \in {"evict", "publish"} /\ job' = job
        /\ step = "evict" => step' = "write"
        /\ step = "publish" => step' = "built"
    BY <1>3 DEF Evict, PublishBuild, To
  <2>2. cache' \in [Room -> Content]
    BY <1>3 DEF Evict, PublishBuild, JobInv, Preparing, LaunchTypeOK, Content
  <2>3. LaunchTypeOK'
    BY <1>3, <2>1, <2>2 DEF Evict, PublishBuild, LaunchTypeOK, procs, history
  <2>4. JobInv'
    BY <2>1 DEF JobInv, LaunchSteps, HostSteps, Preparing, Equipping, Published
  <2>5. QED
    BY <2>3, <2>4
<1>4. CASE RunWriters
  <2>1. /\ job' = [job EXCEPT !.made = field.room] /\ step = "write" /\ step' = "publish"
    BY <1>4 DEF RunWriters, To
  <2>2. job' \in Job /\ job'.made \in Room
        /\ UNCHANGED <<job.slot, job.server, job.what, job.first, job.room>>
    BY <2>1 DEF LaunchTypeOK, Job
  <2>3. LaunchTypeOK'
    BY <1>4, <2>2 DEF RunWriters, LaunchTypeOK, files, procs, history
  <2>4. JobInv'
    BY <2>1, <2>2 DEF JobInv, LaunchSteps, HostSteps, Preparing, Equipping, Published
  <2>5. QED
    BY <2>3, <2>4
<1>5. CASE ReadRefused \/ PrepareRefused \/ BuildFails \/ Randomized
  BY <1>5, FailTyped DEF ReadRefused, PrepareRefused, BuildFails, Randomized
<1>6. QED
  BY <1>1, <1>2, <1>3, <1>4, <1>5 DEF PreparesSeed

(* An emulator that starts loads what is installed.                         *)
LEMMA BootTyped ==
  ASSUME LaunchTypeOK, NEW by \in {"launcher", "hand"}, Boot(by)
  PROVE  /\ boots' \in Seq(Overlays) /\ Len(boots') <= MaxBoots
         /\ Len(boots) \in Nat /\ Len(boots') = Len(boots) + 1
         /\ up' = up \cup {Len(boots) + 1} /\ up' \subseteq 1 .. Len(boots')
         /\ \A i \in 1 .. Len(boots) : boots'[i] = boots[i]
         /\ boots'[Len(boots) + 1] = overlay
         /\ by = "launcher" => /\ job' \in Job /\ job'.game = Len(boots) + 1
                               /\ UNCHANGED <<job.what, job.server, job.slot, job.agreed,
                                              job.rebuild, job.first, job.room, job.made>>
         /\ by = "hand" => job' = job
<1>1. /\ boots \in Seq(Overlays) /\ overlay \in Overlays /\ up \subseteq 1 .. Len(boots)
      /\ Len(boots) < MaxBoots /\ boots' = Append(boots, overlay)
      /\ up' = up \cup {Len(boots')}
  BY DEF LaunchTypeOK, Boot
<1>2. /\ boots' \in Seq(Overlays) /\ Len(boots') = Len(boots) + 1 /\ Len(boots) \in Nat
      /\ \A i \in 1 .. Len(boots) : boots'[i] = boots[i]
      /\ boots'[Len(boots) + 1] = overlay
  BY <1>1, AppendKeeps
<1>3. MaxBoots \in Nat
  BY LaunchBounds
<1>4. Len(boots) + 1 <= MaxBoots
  BY <1>1, <1>2, <1>3
<1>5. up \cup {Len(boots) + 1} \subseteq 1 .. Len(boots) + 1
  BY <1>1, <1>2, OneMore
<1>6. by = "launcher" => job' = [job EXCEPT !.game = Len(boots) + 1]
  BY <1>2 DEF Boot
<1>7. by = "hand" => job' = job
  BY DEF Boot
<1>8. by = "launcher" => /\ job' \in Job /\ job'.game = Len(boots) + 1
                         /\ UNCHANGED <<job.what, job.server, job.slot, job.agreed,
                                        job.rebuild, job.first, job.room, job.made>>
  BY <1>2, <1>6 DEF LaunchTypeOK, Job
<1>9. QED
  BY <1>1, <1>2, <1>4, <1>5, <1>7, <1>8

(* A client that starts, or does not.                                       *)
NewLogin == [game |-> job.game, room |-> ConfigRoom, slot |-> job.slot,
             server |-> job.server, gen |-> job.gen, alone |-> up \subseteq {job.game}]

LEMMA ClientRuns ==
  ASSUME Typed, SpawnClient
  PROVE  /\ NewLogin \in Login /\ step = "client" /\ Done
         /\ job.server \in Server /\ ConfigRoom \in Room
         /\ UNCHANGED <<field, files, boots, up, faults>>
         /\ \/ UNCHANGED <<logins, open, history>>
            \/ /\ logins' = Append(logins, NewLogin) /\ logins' \in Seq(Login)
               /\ Len(logins) \in Nat /\ Len(logins') = Len(logins) + 1
               /\ Len(logins') <= MaxLogins
               /\ \A i \in 1 .. Len(logins) : logins'[i] = logins[i]
               /\ logins'[Len(logins) + 1] = NewLogin
               /\ open' \subseteq 1 .. Len(logins')
               /\ spoke' = [spoke EXCEPT ![job.server] = ConfigRoom]
               /\ waved' = waved \ {job.server}
<1>1. /\ step = "client" /\ Done /\ job.server \in Server /\ ConfigRoom \in Room
      /\ job.slot \in Room
      /\ UNCHANGED <<field, files, boots, up, faults>>
  BY DEF SpawnClient, Typed, JobInv, LaunchSteps, ConfigRoom
<1>2. NewLogin \in Login
  BY <1>1 DEF NewLogin, Login, Typed, LaunchTypeOK, Job
<1>3. CASE UNCHANGED <<logins, open, history>>
  BY <1>1, <1>2, <1>3
<1>4. CASE ~UNCHANGED <<logins, open, history>>
  <2>1. /\ Len(logins) < MaxLogins
        /\ logins' = Append(logins, NewLogin) /\ open' = open \cup {Len(logins')}
        /\ spoke' = [spoke EXCEPT ![job.server] = ConfigRoom]
        /\ waved' = waved \ {job.server}
    BY <1>4 DEF SpawnClient, NewLogin
  <2>2. logins \in Seq(Login) /\ open \subseteq 1 .. Len(logins)
    BY DEF Typed, LaunchTypeOK
  <2>3. /\ logins' \in Seq(Login) /\ Len(logins) \in Nat /\ Len(logins') = Len(logins) + 1
        /\ \A i \in 1 .. Len(logins) : logins'[i] = logins[i]
        /\ logins'[Len(logins) + 1] = NewLogin
    BY <1>2, <2>1, <2>2, AppendKeeps
  <2>4. open \cup {Len(logins) + 1} \subseteq 1 .. Len(logins) + 1
    BY <2>2, <2>3, OneMore
  <2>5. Len(logins') <= MaxLogins /\ open' \subseteq 1 .. Len(logins')
    BY <2>1, <2>3, <2>4, LaunchBounds
  <2>6. QED
    BY <1>1, <1>2, <2>1, <2>3, <2>5
<1>5. QED
  BY <1>3, <1>4

LEMMA SpawnClientTyped == ASSUME Typed, SpawnClient PROVE Typed'
<1>1. step' = "idle" /\ job' = NoJob
  BY ClientRuns DEF Done
<1>2. JobInv'
  BY <1>1 DEF JobInv, LaunchSteps, HostSteps, Preparing, Equipping, Published
<1>3. spoke' \in [Server -> Room \cup {NoRoom}] /\ waved' \subseteq Server
  BY ClientRuns DEF Typed, LaunchTypeOK, history
<1>4. LaunchTypeOK'
  BY <1>1, <1>3, ClientRuns, NoJobOK DEF Typed, LaunchTypeOK, files
<1>5. QED
  BY <1>2, <1>4 DEF Typed

LEMMA LaunchesTyped == ASSUME Typed, Launches PROVE Typed'
<1> USE DEF Typed
<1>1. CASE Recheck \/ CheckStopped \/ LateCheck
  <2>1. /\ UNCHANGED <<field, files, procs, job, history, faults>>
        /\ \/ step = "built" /\ step' = "stopped" /\ job.what = "launch"
           \/ step = "stopped" /\ step' = "switch"
           \/ step = "late" /\ step' = "client"
    BY <1>1 DEF Recheck, CheckStopped, LateCheck, To
  <2>2. LaunchTypeOK'
    BY <2>1 DEF LaunchTypeOK, files, procs, history
  <2>3. JobInv'
    BY <2>1 DEF JobInv, LaunchSteps, HostSteps, Preparing, Equipping, Published
  <2>4. QED
    BY <2>2, <2>3
<1>2. CASE Activate
  <2>1. /\ step = "switch" /\ step' = "witness" /\ job.what = "launch"
        /\ UNCHANGED <<field, cache, witness, config, lock, procs, job, history, faults>>
        /\ overlay' \in Overlays
    BY <1>2 DEF Activate, To, JobInv, Equipping, Overlays
  <2>2. LaunchTypeOK'
    BY <2>1 DEF LaunchTypeOK, procs, history
  <2>3. JobInv'
    BY <2>1 DEF JobInv, LaunchSteps, HostSteps, Preparing, Equipping, Published
  <2>4. QED
    BY <2>2, <2>3
<1>3. CASE WriteWitness
  <2>1. /\ \/ step = "witness" /\ step' = "witnessed"
           \/ step = "witnessed" /\ step' = "config"
        /\ UNCHANGED <<field, cache, overlay, config, lock, procs, job, history, faults>>
        /\ witness' \in [Room -> Content]
    BY <1>3 DEF WriteWitness, To, JobInv, Equipping, LaunchTypeOK, Content
  <2>2. LaunchTypeOK'
    BY <2>1 DEF LaunchTypeOK, procs, history
  <2>3. JobInv'
    BY <2>1 DEF JobInv, LaunchSteps, HostSteps, Preparing, Equipping, Published
  <2>4. QED
    BY <2>2, <2>3
<1>4. CASE WriteConfig
  <2>1. /\ step = "config" /\ step' = IF job.what = "launch" THEN "game" ELSE "late"
        /\ UNCHANGED <<field, cache, overlay, witness, lock, procs, job, history, faults>>
        /\ config' \in [Room -> Room \cup {NoRoom}]
    BY <1>4 DEF WriteConfig, To, JobInv, LaunchTypeOK
  <2>2. LaunchTypeOK'
    BY <2>1 DEF LaunchTypeOK, procs, history
  <2>3. JobInv'
    BY <2>1 DEF JobInv, LaunchSteps, HostSteps, Preparing, Equipping, Published
  <2>4. QED
    BY <2>2, <2>3
<1>5. CASE SpawnGame
  <2>1. /\ step = "game" /\ Boot("launcher")
        /\ step' = IF job.what = "vanilla" THEN "spawned" ELSE "client"
        /\ UNCHANGED <<field, files, history, faults, logins, open>>
    BY <1>5 DEF SpawnGame, To, Boot
  <2>2. LaunchTypeOK'
    BY <2>1, BootTyped DEF LaunchTypeOK, files, history
  <2>3. UNCHANGED <<job.what, job.server, job.slot, job.first, job.room, job.made>>
    BY <2>1, BootTyped
  <2>4. JobInv'
    BY <2>1, <2>3 DEF JobInv, LaunchSteps, HostSteps, Preparing, Equipping, Published
  <2>5. QED
    BY <2>2, <2>4
<1>6. CASE Connect
  <2>1. PICK g \in up : job' = [job EXCEPT !.room = overlay.room, !.game = g, !.agreed = FALSE]
    BY <1>6 DEF Connect
  <2>2. /\ step = "read" /\ step' = "config" /\ job.what = "connect" /\ overlay.room = field.room
        /\ UNCHANGED <<field, cache, overlay, witness, config, procs, spoke, faults>>
    BY <1>6 DEF Connect, To
  <2>3. g \in Nat /\ overlay.room \in Room
    BY <2>2 DEF LaunchTypeOK
  <2>4. job' \in Job /\ job'.room \in Room
        /\ UNCHANGED <<job.what, job.server, job.slot, job.first, job.made>>
    BY <2>1, <2>3 DEF LaunchTypeOK, Job
  <2>5. lock' \in [Server -> Room \cup {NoRoom}] /\ waved' \subseteq Server
    BY <1>6, <2>2 DEF Connect, Remember, LaunchTypeOK, JobInv, LaunchSteps
  <2>6. LaunchTypeOK'
    BY <2>2, <2>4, <2>5 DEF LaunchTypeOK, procs
  <2>7. JobInv'
    BY <2>2, <2>4 DEF JobInv, LaunchSteps, HostSteps, Preparing, Equipping, Published
  <2>8. QED
    BY <2>6, <2>7
<1>7. CASE LaunchVanilla
  <2>1. /\ step = "read" /\ step' = "game" /\ job.what = "vanilla"
        /\ UNCHANGED <<field, cache, witness, config, lock, procs, job, history, faults>>
        /\ overlay' \in Overlays
    BY <1>7 DEF LaunchVanilla, To, Vanilla, Overlays
  <2>2. LaunchTypeOK'
    BY <2>1 DEF LaunchTypeOK, procs, history
  <2>3. JobInv'
    BY <2>1 DEF JobInv, LaunchSteps, HostSteps, Preparing, Equipping, Published
  <2>4. QED
    BY <2>2, <2>3
<1>8. CASE ActivateFails
  <2>1. CASE Fail({"stopped", "switch"})
    BY <2>1, FailTyped
  <2>2. CASE ~Fail({"stopped", "switch"})
    <3>1. Done /\ overlay' = Vanilla
          /\ UNCHANGED <<field, cache, witness, config, lock, procs, history, faults>>
      BY <1>8, <2>2 DEF ActivateFails
    <3>2. QED
      BY <3>1, EndedTyped DEF Vanilla, Overlays, LaunchTypeOK
  <2>3. QED
    BY <2>1, <2>2
<1>9. CASE RecheckRefused \/ VanillaDone \/ LaunchFails \/ LateRefused \/ Refused
  BY <1>9, FailTyped DEF RecheckRefused, VanillaDone, LaunchFails, LateRefused, Refused
<1>10. QED
  BY <1>1, <1>2, <1>3, <1>4, <1>5, <1>6, <1>7, <1>8, <1>9, SpawnClientTyped DEF Launches

LEMMA AroundTyped == ASSUME Typed, Around PROVE Typed'
<1> USE DEF Typed
<1>1. CASE EditFields
  BY <1>1 DEF EditFields, LaunchTypeOK, JobInv, files, procs, history
<1>2. CASE BootByHand
  <2>1. /\ UNCHANGED <<field, files, step, history, faults, logins, open>>
        /\ Boot("hand")
    BY <1>2 DEF BootByHand, Boot
  <2>2. QED
    BY <2>1, BootTyped DEF LaunchTypeOK, JobInv, files, history
<1>3. CASE QuitGame \/ QuitClient
  BY <1>3 DEF QuitGame, QuitClient, LaunchTypeOK, JobInv, files, history
<1>4. CASE Spoil
  <2>1. /\ faults' = faults + 1 /\ faults < MaxFaults
        /\ UNCHANGED <<field, witness, config, lock, procs, step, job, history>>
        /\ \/ UNCHANGED cache
           \/ \E r \in Room, c \in {"missing", "broken"} : cache' = [cache EXCEPT ![r] = c]
        /\ overlay' \in {overlay, Vanilla}
    BY <1>4 DEF Spoil
  <2>2. cache' \in [Room -> Content]
    BY <2>1 DEF LaunchTypeOK, Content
  <2>3. overlay' \in Overlays
    BY <2>1 DEF LaunchTypeOK, Vanilla, Overlays
  <2>4. faults' \in 0 .. MaxFaults
    BY <2>1, LaunchBounds DEF LaunchTypeOK
  <2>5. LaunchTypeOK'
    BY <2>1, <2>2, <2>3, <2>4 DEF LaunchTypeOK, procs, history
  <2>6. JobInv'
    BY <2>1 DEF JobInv
  <2>7. QED
    BY <2>5, <2>6
<1>5. CASE WorkerDies
  <2>1. faults' \in 0 .. MaxFaults
    BY <1>5, LaunchBounds DEF WorkerDies, LaunchTypeOK
  <2>2. QED
    BY <1>5, <2>1, EndedTyped DEF WorkerDies, files, LaunchTypeOK
<1>6. QED
  BY <1>1, <1>2, <1>3, <1>4, <1>5 DEF Around

LEMMA StutterTyped == ASSUME Typed, UNCHANGED launchVars PROVE Typed'
BY DEF Typed, launchVars, LaunchTypeOK, JobInv, files, procs, history

LEMMA TypedStep == Typed /\ [LaunchNext]_launchVars => Typed'
<1> SUFFICES ASSUME Typed, [LaunchNext]_launchVars PROVE Typed'
  OBVIOUS
<1>1. CASE Presses
  BY <1>1, PressTyped DEF Presses
<1>2. QED
  BY <1>1, PreparesTyped, LaunchesTyped, AroundTyped, StutterTyped DEF LaunchNext

(* Whatever the player does around the worker and wherever it dies, every   *)
(* variable of the window holds what the code can put there.                *)
THEOREM LaunchTypeCorrect == LaunchSpec => []LaunchTypeOK
BY TypedInit, TypedStep, PTL DEF LaunchSpec, Typed
-----------------------------------------------------------------------------
(* The cache *)

(* The request stays as it is while the writers run for the key that was    *)
(* computed from it.                                                        *)
KeyedAsWritten == EditAt \cap {"evict", "write"} = {}

CacheInv ==
  /\ CacheIsTrue
  /\ step \in {"evict", "write"} => field.room = job.room
  /\ step = "publish" => job.made = job.room

(* A step that builds nothing.                                              *)
LEMMA CacheUntouched ==
  ASSUME CacheInv, UNCHANGED cache,
         \/ step' \notin {"evict", "write", "publish"}
         \/ UNCHANGED <<step, job>> /\ (field' = field \/ step \notin {"evict", "write"})
  PROVE  CacheInv'
BY DEF CacheInv, CacheIsTrue

LEMMA FailStep ==
  ASSUME NEW from, Fail(from)
  PROVE  /\ step \in from /\ step' = "idle" /\ job' = NoJob
         /\ UNCHANGED <<field, files, procs, history, faults>>
BY DEF Fail, Done

(* An entry that is changed is emptied, damaged or made from its own room.  *)
LEMMA EntryChanged ==
  ASSUME CacheIsTrue, cache \in [Room -> Content], NEW r \in Room,
         NEW c \in {r, "missing", "broken"}, cache' = [cache EXCEPT ![r] = c]
  PROVE  CacheIsTrue'
BY EntryAssumption DEF CacheIsTrue

LEMMA PreparesCache == ASSUME Typed, CacheInv, PreparesSeed PROVE CacheInv'
<1>0. cache \in [Room -> Content] /\ field.room \in Room /\ job \in Job /\ CacheIsTrue
  BY DEF Typed, LaunchTypeOK, CacheInv
<1>1. CASE ReadRequest
  BY <1>1, CacheUntouched DEF ReadRequest, To
<1>2. CASE Prepare
  <2>1. /\ job' = [job EXCEPT !.room = field.room, !.rebuild = FALSE] /\ UNCHANGED field
        /\ step' \in {"write", "evict", "built"}
        /\ cache' \in {cache, [cache EXCEPT ![field.room] = "broken"]}
    BY <1>2 DEF Prepare, KeyRoom, To
  <2>2. job'.room = field'.room
    BY <1>0, <2>1 DEF Job
  <2>3. CacheIsTrue'
    BY <1>0, <2>1, EntryChanged DEF CacheIsTrue
  <2>4. QED
    BY <2>1, <2>2, <2>3 DEF CacheInv
<1>3. CASE Evict
  <2>1. /\ step = "evict" /\ step' = "write" /\ UNCHANGED <<field, job>> /\ job.room \in Room
        /\ cache' = [cache EXCEPT ![job.room] = "missing"]
    BY <1>3 DEF Evict, To, Typed, JobInv, Preparing
  <2>2. CacheIsTrue'
    BY <1>0, <2>1, EntryChanged
  <2>3. QED
    BY <2>1, <2>2 DEF CacheInv
<1>4. CASE RunWriters
  <2>1. /\ step = "write" /\ step' = "publish" /\ UNCHANGED <<field, cache>>
        /\ job' = [job EXCEPT !.made = field.room]
    BY <1>4 DEF RunWriters, To, files
  <2>2. job'.made = field.room /\ job'.room = job.room
    BY <1>0, <2>1 DEF Job
  <2>3. QED
    BY <2>1, <2>2 DEF CacheInv, CacheIsTrue
<1>5. CASE PublishBuild
  <2>1. /\ step = "publish" /\ step' = "built" /\ job.room \in Room /\ job.made = job.room
        /\ cache' = [cache EXCEPT ![job.room] = job.made]
    BY <1>5 DEF PublishBuild, To, Typed, JobInv, Preparing, CacheInv
  <2>2. CacheIsTrue'
    BY <1>0, <2>1, EntryChanged
  <2>3. QED
    BY <2>1, <2>2 DEF CacheInv
<1>6. CASE ReadRefused \/ PrepareRefused \/ BuildFails \/ Randomized
  <2>1. step' = "idle" /\ UNCHANGED cache
    BY <1>6, FailStep DEF ReadRefused, PrepareRefused, BuildFails, Randomized, files
  <2>2. QED
    BY <2>1, CacheUntouched
<1>7. QED
  BY <1>1, <1>2, <1>3, <1>4, <1>5, <1>6 DEF PreparesSeed

LEMMA LaunchesCache == ASSUME Typed, CacheInv, Launches PROVE CacheInv'
<1>1. CASE Recheck \/ CheckStopped \/ LateCheck
  BY <1>1, CacheUntouched DEF Recheck, CheckStopped, LateCheck, To, files
<1>2. CASE Activate \/ WriteWitness \/ Connect \/ LaunchVanilla
  BY <1>2, CacheUntouched DEF Activate, WriteWitness, Connect, LaunchVanilla, To
<1>3. CASE WriteConfig \/ SpawnGame \/ SpawnClient
  BY <1>3, CacheUntouched DEF WriteConfig, SpawnGame, SpawnClient, To, Done, files
<1>4. CASE RecheckRefused \/ VanillaDone \/ LaunchFails \/ LateRefused \/ Refused
  <2>1. step' = "idle" /\ UNCHANGED cache
    BY <1>4, FailStep DEF RecheckRefused, VanillaDone, LaunchFails, LateRefused, Refused, files
  <2>2. QED
    BY <2>1, CacheUntouched
<1>5. CASE ActivateFails
  <2>1. step' = "idle" /\ UNCHANGED cache
    BY <1>5, FailStep DEF ActivateFails, Done, files
  <2>2. QED
    BY <2>1, CacheUntouched
<1>6. QED
  BY <1>1, <1>2, <1>3, <1>4, <1>5 DEF Launches

LEMMA AroundCache == ASSUME KeyedAsWritten, Typed, CacheInv, Around PROVE CacheInv'
<1>1. CASE EditFields
  BY <1>1, CacheUntouched DEF EditFields, KeyedAsWritten, files
<1>2. CASE BootByHand
  <2>1. Boot("hand") /\ UNCHANGED <<field, files, step>>
    BY <1>2 DEF BootByHand
  <2>2. job' = job
    BY <2>1 DEF Boot
  <2>3. QED
    BY <2>1, <2>2, CacheUntouched DEF files
<1>3. CASE QuitGame \/ QuitClient
  BY <1>3, CacheUntouched DEF QuitGame, QuitClient, files
<1>4. CASE Spoil
  <2>1. /\ step = "idle" /\ step' = step
        /\ \/ UNCHANGED cache
           \/ \E r \in Room, c \in {"missing", "broken"} : cache' = [cache EXCEPT ![r] = c]
    BY <1>4 DEF Spoil
  <2>2. CacheIsTrue'
    BY <2>1, EntryChanged DEF CacheInv, CacheIsTrue, Typed, LaunchTypeOK
  <2>3. QED
    BY <2>1, <2>2 DEF CacheInv
<1>5. CASE WorkerDies
  BY <1>5, CacheUntouched DEF WorkerDies, Done, files
<1>6. QED
  BY <1>1, <1>2, <1>3, <1>4, <1>5 DEF Around

LEMMA LaunchCache ==
  ASSUME KeyedAsWritten, Typed, CacheInv, [LaunchNext]_launchVars
  PROVE  CacheInv'
<1>1. CASE Presses
  BY <1>1, CacheUntouched DEF Presses, Press, To, files
<1>2. CASE UNCHANGED launchVars
  BY <1>2, CacheUntouched DEF launchVars, files
<1>3. QED
  BY <1>1, <1>2, PreparesCache, LaunchesCache, AroundCache DEF LaunchNext

LEMMA CacheInit == LaunchInit => CacheInv
BY EntryAssumption DEF LaunchInit, CacheInv, CacheIsTrue

(* A cache entry that is reused because it has the right name was made from *)
(* that room's request, whatever was rebuilt, deleted, damaged or cut short *)
(* before: no writer is handed another request than the one in its key.     *)
THEOREM CacheTrue == ASSUME KeyedAsWritten PROVE LaunchSpec => []CacheIsTrue
<1>1. LaunchInit => Typed /\ CacheInv
  BY TypedInit, CacheInit
<1>2. Typed /\ CacheInv /\ [LaunchNext]_launchVars => (Typed /\ CacheInv)'
  BY TypedStep, LaunchCache
<1>3. CacheInv => CacheIsTrue
  BY DEF CacheInv
<1>4. QED
  BY <1>1, <1>2, <1>3, PTL DEF LaunchSpec

-----------------------------------------------------------------------------
(* The identity of an address *)

Agrees(s) == spoke[s] = NoRoom \/ lock[s] = spoke[s] \/ s \in waved

(* The room a call remembered for its address is still the one there.       *)
LockInv ==
  /\ \A s \in Server : Agrees(s)
  /\ step \in LaunchSteps \ {"read"} /\ job.what = "launch" => lock[job.server] = job.first
  /\ step \in {"config", "late", "client"} /\ job.what = "connect" =>
       lock[job.server] = job.room

Remembered == UNCHANGED <<lock, spoke, waved>>

LEMMA LockUntouched ==
  ASSUME LockInv, Remembered,
         \/ step' \in {"idle", "read"} \cup HostSteps
         \/ /\ UNCHANGED <<job.what, job.server, job.first>>
            /\ step \in LaunchSteps \ {"read"}
            /\ \/ step' \notin {"config", "late", "client"} \/ job.what # "connect"
               \/ step \in {"config", "late", "client"} /\ UNCHANGED job.room
         \/ UNCHANGED <<job.what, job.server, job.first, job.room, step>>
  PROVE  LockInv'
BY DEF LockInv, Remembered, Agrees, LaunchSteps, HostSteps

(* check_seed_slot_identity, for the address of the call.                   *)
LEMMA Remembers ==
  ASSUME Typed, NEW s \in Server, NEW r \in Room, NEW agreed \in BOOLEAN,
         Remember(s, r, agreed), UNCHANGED spoke, \A t \in Server : Agrees(t)
  PROVE  lock'[s] = r /\ \A t \in Server : Agrees(t)'
<1>1. /\ agreed \/ lock[s] \in {NoRoom, r}
      /\ lock' = [lock EXCEPT ![s] = r] /\ lock \in [Server -> Room \cup {NoRoom}]
      /\ waved' = IF agreed /\ lock[s] \notin {NoRoom, r} THEN waved \cup {s} ELSE waved
  BY DEF Remember, MayUse, Typed, LaunchTypeOK
<1>2. ASSUME NEW t \in Server PROVE Agrees(t)'
  <2>1. CASE t = s
    BY <1>1, <2>1 DEF Agrees
  <2>2. CASE t # s
    BY <1>1, <2>2 DEF Agrees
  <2>3. QED
    BY <2>1, <2>2
<1>3. QED
  BY <1>1, <1>2

LEMMA PreparesLock == ASSUME Typed, LockInv, PreparesSeed PROVE LockInv'
<1>0. job \in Job /\ field.room \in Room
  BY DEF Typed, LaunchTypeOK
<1>1. CASE ReadRequest
  <2>1. step = "read" /\ step' = "prepare" /\ UNCHANGED spoke
    BY <1>1 DEF ReadRequest, To
  <2>2. CASE job.what = "launch"
    <3>1. /\ Remember(job.server, field.room, job.agreed)
          /\ job' = [job EXCEPT !.first = field.room, !.agreed = FALSE]
          /\ job.server \in Server /\ job.agreed \in BOOLEAN
      BY <1>0, <1>1, <2>1, <2>2 DEF ReadRequest, Typed, JobInv, LaunchSteps, Job
    <3>2. job'.first = field.room /\ job'.server = job.server /\ job'.what = "launch"
      BY <1>0, <2>2, <3>1 DEF Job
    <3>3. lock'[job.server] = field.room /\ \A t \in Server : Agrees(t)'
      BY <1>0, <2>1, <3>1, Remembers DEF LockInv
    <3>4. QED
      BY <2>1, <3>2, <3>3 DEF LockInv
  <2>3. CASE job.what # "launch"
    <3>1. UNCHANGED <<lock, waved, job>>
      BY <1>1, <2>3 DEF ReadRequest
    <3>2. QED
      BY <2>1, <2>3, <3>1 DEF LockInv, Agrees
  <2>4. QED
    BY <2>2, <2>3
<1>2. CASE Prepare \/ RunWriters
  <2>1. /\ \/ job' = [job EXCEPT !.room = field.room, !.rebuild = FALSE]
           \/ job' = [job EXCEPT !.made = field.room]
        /\ step \in {"prepare", "write"} /\ step' \in {"write", "evict", "built", "publish"}
        /\ Remembered
    BY <1>2 DEF Prepare, RunWriters, KeyRoom, To, Remembered, files, history
  <2>2. UNCHANGED <<job.what, job.server, job.first>>
    BY <1>0, <2>1 DEF Job
  <2>3. QED
    BY <2>1, <2>2, LockUntouched DEF LaunchSteps
<1>3. CASE Evict \/ PublishBuild
  BY <1>3, LockUntouched
     DEF Evict, PublishBuild, To, Remembered, history, LaunchSteps
<1>4. CASE ReadRefused \/ PrepareRefused \/ BuildFails \/ Randomized
  <2>1. step' = "idle" /\ Remembered
    BY <1>4, FailStep
       DEF ReadRefused, PrepareRefused, BuildFails, Randomized, Remembered, files, history
  <2>2. QED
    BY <2>1, LockUntouched
<1>5. QED
  BY <1>1, <1>2, <1>3, <1>4 DEF PreparesSeed

LEMMA ConnectLock == ASSUME Typed, LockInv, Connect PROVE LockInv'
<1>1. PICK g \in up : job' = [job EXCEPT !.room = overlay.room, !.game = g, !.agreed = FALSE]
  BY DEF Connect
<1>2. /\ step = "read" /\ step' = "config" /\ job.what = "connect" /\ job \in Job
      /\ overlay.room = field.room /\ field.room \in Room /\ job.server \in Server
      /\ job.agreed \in BOOLEAN
      /\ Remember(job.server, field.room, job.agreed) /\ UNCHANGED spoke
  BY DEF Connect, To, Typed, LaunchTypeOK, JobInv, LaunchSteps, Job
<1>3. /\ job'.room = field.room /\ job'.server = job.server /\ job'.what = "connect"
  BY <1>1, <1>2 DEF Job
<1>4. lock'[job.server] = field.room /\ \A t \in Server : Agrees(t)'
  BY <1>2, Remembers DEF LockInv
<1>5. QED
  BY <1>2, <1>3, <1>4 DEF LockInv

(* The client speaks for the room its address is remembered with.           *)
LEMMA ClientSpeaks ==
  ASSUME Typed, LockInv, SpawnClient
  PROVE  /\ lock[job.server] = ConfigRoom /\ UNCHANGED lock /\ step' = "idle"
         /\ job.server \in Server
         /\ \/ UNCHANGED <<logins, spoke, waved>>
            \/ /\ spoke' = [spoke EXCEPT ![job.server] = ConfigRoom]
               /\ waved' = waved \ {job.server}
<1>1. /\ step = "client" /\ Done /\ job.server \in Server
      /\ UNCHANGED <<field, files, boots, up, faults>>
      /\ \/ UNCHANGED <<logins, open, history>>
         \/ /\ spoke' = [spoke EXCEPT ![job.server] = ConfigRoom]
            /\ waved' = waved \ {job.server}
  BY ClientRuns
<1>2. job.what \in {"launch", "connect"}
  BY <1>1 DEF Typed, JobInv
<1>3. lock[job.server] = ConfigRoom
  BY <1>1, <1>2 DEF LockInv, ConfigRoom, LaunchSteps
<1>4. QED
  BY <1>1, <1>3 DEF Done, files, history

LEMMA LaunchesLock == ASSUME Typed, LockInv, Launches PROVE LockInv'
<1>0. job \in Job
  BY DEF Typed, LaunchTypeOK
<1>1. CASE Recheck \/ CheckStopped \/ LateCheck
  BY <1>1, LockUntouched
     DEF Recheck, CheckStopped, LateCheck, To, files, history, Remembered, LaunchSteps
<1>2. CASE Activate \/ WriteWitness
  <2>1. /\ step \in {"switch", "witness", "witnessed"} /\ job.what = "launch"
        /\ step' \in {"witness", "witnessed", "config"} /\ UNCHANGED job /\ Remembered
    BY <1>2 DEF Activate, WriteWitness, To, Remembered, history, Typed, JobInv, Equipping
  <2>2. QED
    BY <2>1, LockUntouched DEF LaunchSteps
<1>3. CASE LaunchVanilla
  <2>1. step = "read" /\ job.what = "vanilla" /\ step' = "game" /\ UNCHANGED job /\ Remembered
    BY <1>3 DEF LaunchVanilla, To, Remembered, history
  <2>2. QED
    BY <2>1 DEF LockInv, Remembered, Agrees
<1>4. CASE WriteConfig
  <2>1. /\ step = "config" /\ step' \in {"game", "late"} /\ UNCHANGED job /\ Remembered
        /\ job.what \in {"launch", "connect"}
    BY <1>4 DEF WriteConfig, To, Remembered, history
  <2>2. QED
    BY <2>1, LockUntouched DEF LaunchSteps
<1>5. CASE SpawnGame
  <2>1. /\ step = "game" /\ step' \in {"spawned", "client"} /\ Boot("launcher") /\ Remembered
        /\ job.what \in {"launch", "vanilla"}
    BY <1>5 DEF SpawnGame, To, Remembered, history, files, Typed, JobInv
  <2>2. UNCHANGED <<job.what, job.server, job.first>>
    BY <2>1, BootTyped DEF Typed
  <2>3. QED
    BY <2>1, <2>2, LockUntouched DEF LaunchSteps
<1>6. CASE SpawnClient
  <2>1. /\ lock[job.server] = ConfigRoom /\ UNCHANGED lock /\ step' = "idle"
        /\ job.server \in Server
        /\ \/ UNCHANGED <<spoke, waved>>
           \/ /\ spoke' = [spoke EXCEPT ![job.server] = ConfigRoom]
              /\ waved' = waved \ {job.server}
    BY <1>6, ClientSpeaks
  <2>2. CASE UNCHANGED <<spoke, waved>>
    BY <2>1, <2>2, LockUntouched DEF Remembered
  <2>3. CASE /\ spoke' = [spoke EXCEPT ![job.server] = ConfigRoom]
             /\ waved' = waved \ {job.server}
    <3>1. ASSUME NEW t \in Server PROVE Agrees(t)'
      <4>1. Agrees(t) /\ spoke \in [Server -> Room \cup {NoRoom}]
        BY DEF LockInv, Typed, LaunchTypeOK
      <4>2. QED
        BY <2>1, <2>3, <4>1 DEF Agrees
    <3>2. QED
      BY <2>1, <3>1 DEF LockInv, LaunchSteps
  <2>4. QED
    BY <2>1, <2>2, <2>3
<1>7. CASE RecheckRefused \/ VanillaDone \/ LaunchFails \/ LateRefused \/ Refused
           \/ ActivateFails
  <2>1. step' = "idle" /\ Remembered
    BY <1>7, FailStep
       DEF RecheckRefused, VanillaDone, LaunchFails, LateRefused, Refused, ActivateFails,
           Done, Remembered, files, history
  <2>2. QED
    BY <2>1, LockUntouched
<1>8. QED
  BY <1>1, <1>2, <1>3, <1>4, <1>5, <1>6, <1>7, ConnectLock DEF Launches

LEMMA AroundLock == ASSUME Typed, LockInv, Around PROVE LockInv'
<1>1. CASE EditFields \/ QuitGame \/ QuitClient \/ Spoil
  <2>1. UNCHANGED <<job, step>> /\ Remembered
    BY <1>1 DEF EditFields, QuitGame, QuitClient, Spoil, Remembered, files, history
  <2>2. QED
    BY <2>1, LockUntouched
<1>2. CASE BootByHand
  <2>1. Boot("hand") /\ UNCHANGED step /\ Remembered
    BY <1>2 DEF BootByHand, Remembered, files, history
  <2>2. job' = job
    BY <2>1 DEF Boot
  <2>3. QED
    BY <2>1, <2>2, LockUntouched
<1>3. CASE WorkerDies
  BY <1>3, LockUntouched DEF WorkerDies, Done, Remembered, files, history
<1>4. QED
  BY <1>1, <1>2, <1>3 DEF Around

LEMMA LaunchLock ==
  ASSUME Typed, LockInv, [LaunchNext]_launchVars
  PROVE  LockInv'
<1>1. CASE Presses
  BY <1>1, LockUntouched DEF Presses, Press, To, files, history, Remembered
<1>2. CASE UNCHANGED launchVars
  BY <1>2, LockUntouched DEF launchVars, files, history, Remembered
<1>3. QED
  BY <1>1, <1>2, PreparesLock, LaunchesLock, AroundLock DEF LaunchNext

(* A client that speaks for another room than the one before it on that     *)
(* address does so with the player's consent.                               *)
LEMMA SilentStep ==
  ASSUME Typed, LockInv, SpawnClient \/ UNCHANGED spoke, NEW s \in Server, spoke'[s] # spoke[s]
  PROVE  spoke[s] = NoRoom \/ s \in waved
<1>1. CASE UNCHANGED spoke
  BY <1>1
<1>2. CASE SpawnClient
  <2>1. spoke' = [spoke EXCEPT ![job.server] = ConfigRoom] /\ lock[job.server] = ConfigRoom
    BY <1>2, ClientSpeaks
  <2>2. spoke \in [Server -> Room \cup {NoRoom}] /\ Agrees(s)
    BY DEF Typed, LaunchTypeOK, LockInv
  <2>3. s = job.server /\ spoke[s] # lock[s]
    BY <2>1, <2>2
  <2>4. QED
    BY <2>2, <2>3 DEF Agrees
<1>3. QED
  BY <1>1, <1>2

LEMMA OnlyClientsSpeak == ASSUME [LaunchNext]_launchVars PROVE SpawnClient \/ UNCHANGED spoke
<1>1. CASE Presses
  BY <1>1 DEF Presses, Press, history
<1>2. CASE PreparesSeed
  <2>1. CASE ReadRequest \/ Prepare \/ Evict \/ RunWriters \/ PublishBuild
    BY <2>1 DEF ReadRequest, Prepare, Evict, RunWriters, PublishBuild, history
  <2>2. QED
    BY <1>2, <2>1, FailStep
       DEF PreparesSeed, ReadRefused, PrepareRefused, BuildFails, Randomized, history
<1>3. CASE Launches
  <2>1. CASE Recheck \/ CheckStopped \/ Activate \/ WriteWitness \/ WriteConfig \/ SpawnGame
             \/ Connect \/ LateCheck \/ LaunchVanilla
    BY <2>1 DEF Recheck, CheckStopped, Activate, WriteWitness, WriteConfig, SpawnGame,
                Connect, LateCheck, LaunchVanilla, history
  <2>2. QED
    BY <1>3, <2>1, FailStep
       DEF Launches, RecheckRefused, VanillaDone, LaunchFails, LateRefused, Refused,
           ActivateFails, history
<1>4. CASE Around
  BY <1>4 DEF Around, EditFields, BootByHand, QuitGame, QuitClient, Spoil, WorkerDies, history
<1>5. QED
  BY <1>1, <1>2, <1>3, <1>4 DEF LaunchNext, launchVars, history

LEMMA LockInitially == LaunchInit => LockInv
BY DEF LaunchInit, LockInv, Agrees, LaunchSteps

(* check_seed_slot_identity does its work however calls are refused, die    *)
(* halfway or follow each other: on no address does a client that speaks    *)
(* for one room follow one that spoke for another without the player having *)
(* agreed in between.                                                       *)
THEOREM NoneSilent == LaunchSpec => NoSilentRoomChange
<1>1. LaunchInit => Typed /\ LockInv
  BY TypedInit, LockInitially
<1>2. Typed /\ LockInv /\ [LaunchNext]_launchVars => (Typed /\ LockInv)'
  BY TypedStep, LaunchLock
<1>3. Typed /\ LockInv /\ [LaunchNext]_launchVars =>
        [\A s \in Server : spoke'[s] # spoke[s] => spoke[s] = NoRoom \/ s \in waved]_launchVars
  BY OnlyClientsSpeak, SilentStep
<1>4. QED
  BY <1>1, <1>2, <1>3, PTL DEF LaunchSpec, NoSilentRoomChange

-----------------------------------------------------------------------------
(* What is played, and what is spoken for *)

(* From the reading of the request to the plan's own use of it nothing is   *)
(* edited, and no emulator is started by hand while the launcher switches   *)
(* the overlay and starts its own: those gaps the code leaves open.         *)
NoHandInTheGaps ==
  /\ EditAt \cap {"read", "evict", "write"} = {}
  /\ BootAt \cap {"switch", "witness", "witnessed", "config", "game", "client"} = {}

(* All the names of a call mean one room.                                   *)
Named ==
  /\ step = "read" /\ job.what \in {"launch", "connect"} => job.slot = field.room
  /\ step \in LaunchSteps \ {"read"} /\ job.what = "launch" => job.first = job.slot
  /\ step \in {"config", "late", "client"} /\ job.what = "connect" => job.room = job.slot
  /\ step \in Equipping \cup {"config", "game", "client"} /\ job.what = "launch" =>
       job.room = job.first

Alone ==
  /\ step \in {"switch", "witness", "witnessed", "config", "game"} /\ job.what = "launch" =>
       up = {}
  /\ step = "client" => up \subseteq {job.game}

Genuine(o, room) == o.room = room /\ o.made = room

(* Every overlay is what its name says; those running loaded the one that   *)
(* is installed, or nothing is; the game of the call loaded its room.       *)
LoadedNow ==
  /\ overlay.made = overlay.room /\ overlay.gen = 0
  /\ \A g \in up : boots[g] = overlay \/ overlay = Vanilla
  /\ step \in {"witness", "witnessed", "config", "game"} /\ job.what = "launch" =>
       Genuine(overlay, job.room)
  /\ \/ step \in {"config", "late", "client"} /\ job.what = "connect"
     \/ step = "client" /\ job.what = "launch"
     => job.game \in 1 .. Len(boots) /\ Genuine(boots[job.game], job.room)

SpeaksTruly(c) ==
  /\ c.alone /\ c.slot = c.room /\ c.game \in 1 .. Len(boots)
  /\ Genuine(boots[c.game], c.room)

Spoken == \A i \in 1 .. Len(logins) : SpeaksTruly(logins[i])

PlayInv == Named /\ Alone /\ LoadedNow /\ Spoken

LEMMA SpokenSpeaks == Spoken => SpeaksForItsGame
BY DEF Spoken, SpeaksTruly, Genuine, SpeaksForItsGame

(* A step that starts nothing and switches nothing; what it knows of the    *)
(* call is what the call knew.                                              *)
LEMMA PlayEnds ==
  ASSUME PlayInv, step' \in {"idle"} \cup HostSteps, UNCHANGED <<boots, up, logins>>,
         overlay' \in {overlay, Vanilla}
  PROVE  PlayInv'
BY DEF PlayInv, Named, Alone, LoadedNow, Spoken, SpeaksTruly, Vanilla, LaunchSteps, HostSteps,
       Equipping, Genuine

LEMMA PlayUntouched ==
  ASSUME PlayInv, UNCHANGED <<overlay, boots, logins>>, up' \subseteq up,
         UNCHANGED <<step, job>>, UNCHANGED field \/ step # "read"
  PROVE  PlayInv'
BY DEF PlayInv, Named, Alone, LoadedNow, Spoken, SpeaksTruly

LEMMA PressPlay ==
  ASSUME Typed, PlayInv, NEW what, NEW agreed, NEW rebuild, Press(what, agreed, rebuild)
  PROVE  PlayInv'
<1>1. /\ step' = "read" /\ UNCHANGED <<field, overlay, boots, up, logins>>
      /\ job'.what = what
      /\ job'.slot = IF what \in Speaks THEN field.room ELSE NoRoom
  BY DEF Press, To, NoJob, files, procs
<1>2. QED
  BY <1>1 DEF PlayInv, Named, Alone, LoadedNow, Spoken, SpeaksTruly, Speaks, LaunchSteps,
              Equipping

LEMMA PreparesPlay == ASSUME Typed, PlayInv, PreparesSeed PROVE PlayInv'
<1>0. job \in Job
  BY DEF Typed, LaunchTypeOK
<1> DEFINE Quiet == /\ UNCHANGED <<overlay, boots, up, logins>>
                    /\ step' \in Preparing
<1>1. ASSUME Quiet, job'.what = "launch" => job'.first = job'.slot,
             job'.what \in {"launch", "randomize"}
      PROVE  PlayInv'
  BY <1>1 DEF PlayInv, Named, Alone, LoadedNow, Spoken, SpeaksTruly, Equipping, Preparing
<1>2. CASE ReadRequest
  <2>1. /\ Quiet /\ step = "read"
        /\ \/ job' = [job EXCEPT !.first = field.room, !.agreed = FALSE]
           \/ job.what # "launch" /\ job' = job
        /\ job.what \in {"launch", "randomize"}
    BY <1>2 DEF ReadRequest, To, procs, Preparing, Builds, Typed, JobInv, LaunchSteps
  <2>2. UNCHANGED <<job.what, job.slot>> /\ (job.what = "launch" => job'.first = field.room)
    BY <1>0, <2>1 DEF Job
  <2>3. job.what = "launch" => job.slot = field.room
    BY <2>1 DEF PlayInv, Named
  <2>4. QED
    BY <1>1, <2>1, <2>2, <2>3
<1>3. CASE Prepare \/ Evict \/ RunWriters \/ PublishBuild
  <2>1. /\ Quiet /\ step \in Preparing
        /\ \/ job' = [job EXCEPT !.room = field.room, !.rebuild = FALSE]
           \/ job' = [job EXCEPT !.made = field.room]
           \/ job' = job
    BY <1>3 DEF Prepare, Evict, RunWriters, PublishBuild, KeyRoom, To, procs, files, Preparing
  <2>2. UNCHANGED <<job.what, job.slot, job.first>>
    BY <1>0, <2>1 DEF Job
  <2>3. /\ job.what = "launch" => job.first = job.slot
        /\ job.what \in {"launch", "randomize"}
    BY <2>1 DEF PlayInv, Named, Preparing, LaunchSteps, Typed, JobInv
  <2>4. QED
    BY <1>1, <2>1, <2>2, <2>3
<1>4. CASE ReadRefused \/ PrepareRefused \/ BuildFails \/ Randomized
  <2>1. step' = "idle" /\ UNCHANGED <<overlay, boots, up, logins>>
    BY <1>4, FailStep DEF ReadRefused, PrepareRefused, BuildFails, Randomized, files, procs
  <2>2. QED
    BY <2>1, PlayEnds
<1>5. QED
  BY <1>2, <1>3, <1>4 DEF PreparesSeed

(* What was recorded of earlier clients stays true when emulators start.    *)
LEMMA SpokenGrows ==
  ASSUME Spoken, UNCHANGED logins, Len(boots) \in Nat, Len(boots') >= Len(boots),
         Len(boots') \in Nat, \A i \in 1 .. Len(boots) : boots'[i] = boots[i]
  PROVE  Spoken'
<1>1. ASSUME NEW i \in 1 .. Len(logins) PROVE SpeaksTruly(logins[i])'
  <2>1. SpeaksTruly(logins[i])
    BY DEF Spoken
  <2>2. logins[i].game \in 1 .. Len(boots')
    BY <2>1 DEF SpeaksTruly
  <2>3. QED
    BY <2>1, <2>2 DEF SpeaksTruly
<1>2. QED
  BY <1>1 DEF Spoken

LEMMA SpawnGamePlay == ASSUME Typed, PlayInv, SpawnGame PROVE PlayInv'
<1>1. /\ step = "game" /\ Boot("launcher") /\ UNCHANGED <<overlay, logins>>
      /\ step' = IF job.what = "vanilla" THEN "spawned" ELSE "client"
      /\ job.what \in {"launch", "vanilla"}
  BY DEF SpawnGame, To, Boot, files, Typed, JobInv
<1>2. /\ Len(boots) \in Nat /\ Len(boots') = Len(boots) + 1
      /\ up' = up \cup {Len(boots) + 1}
      /\ \A i \in 1 .. Len(boots) : boots'[i] = boots[i]
      /\ boots'[Len(boots) + 1] = overlay
      /\ job'.game = Len(boots) + 1
      /\ UNCHANGED <<job.what, job.slot, job.first, job.room>>
      /\ up \subseteq 1 .. Len(boots)
  BY <1>1, BootTyped DEF Typed, LaunchTypeOK
<1>3. Spoken'
  BY <1>1, <1>2, SpokenGrows DEF PlayInv
<1>4. \A g \in up' : boots'[g] = overlay' \/ overlay' = Vanilla
  BY <1>1, <1>2 DEF PlayInv, LoadedNow
<1>5. CASE job.what = "vanilla"
  BY <1>1, <1>2, <1>3, <1>4, <1>5 DEF PlayInv, Named, Alone, LoadedNow, Equipping
<1>6. CASE job.what = "launch"
  <2>1. /\ up = {} /\ Genuine(overlay, job.room) /\ job.room = job.first /\ job.first = job.slot
    BY <1>1, <1>6 DEF PlayInv, Named, Alone, LoadedNow, LaunchSteps
  <2>2. job'.game \in 1 .. Len(boots') /\ Genuine(boots'[job'.game], job'.room)
    BY <1>2, <2>1 DEF Genuine
  <2>3. QED
    BY <1>1, <1>2, <1>3, <1>4, <1>6, <2>1, <2>2 DEF PlayInv, Named, Alone, LoadedNow, Equipping
<1>7. QED
  BY <1>1, <1>5, <1>6

LEMMA SpawnClientPlay == ASSUME Typed, PlayInv, SpawnClient PROVE PlayInv'
<1>1. /\ step = "client" /\ step' = "idle" /\ UNCHANGED <<overlay, boots, up>>
      /\ job.what \in {"launch", "connect"}
  BY ClientRuns DEF Done, files, Typed, JobInv
<1>2. /\ up \subseteq {job.game} /\ job.game \in 1 .. Len(boots)
      /\ Genuine(boots[job.game], job.room) /\ ConfigRoom = job.room /\ job.slot = job.room
  BY <1>1 DEF PlayInv, Named, Alone, LoadedNow, LaunchSteps, ConfigRoom
<1>3. SpeaksTruly(NewLogin)
  BY <1>2 DEF SpeaksTruly, NewLogin
<1>4. Spoken'
  <2>1. CASE UNCHANGED logins
    BY <1>1, <2>1 DEF PlayInv, Spoken, SpeaksTruly
  <2>2. CASE /\ Len(logins) \in Nat /\ Len(logins') = Len(logins) + 1
             /\ \A i \in 1 .. Len(logins) : logins'[i] = logins[i]
             /\ logins'[Len(logins) + 1] = NewLogin
    <3>1. ASSUME NEW i \in 1 .. Len(logins') PROVE SpeaksTruly(logins'[i])
      <4>1. i \in 1 .. Len(logins) \/ i = Len(logins) + 1
        BY <2>2
      <4>2. QED
        BY <1>3, <2>2, <4>1 DEF PlayInv, Spoken
    <3>2. QED
      BY <1>1, <3>1 DEF Spoken, SpeaksTruly
  <2>3. QED
    BY <2>1, <2>2, ClientRuns
<1>5. QED
  BY <1>1, <1>4 DEF PlayInv, Named, Alone, LoadedNow, LaunchSteps, Equipping

LEMMA ConnectPlay == ASSUME Typed, PlayInv, Connect PROVE PlayInv'
<1>1. PICK g \in up : /\ up = {g}
                      /\ job' = [job EXCEPT !.room = overlay.room, !.game = g, !.agreed = FALSE]
  BY DEF Connect
<1>2. /\ step = "read" /\ step' = "config" /\ job.what = "connect" /\ job \in Job
      /\ overlay.room = field.room /\ field.room \in Room
      /\ UNCHANGED <<field, overlay, boots, up, logins>> /\ up \subseteq 1 .. Len(boots)
  BY DEF Connect, To, procs, Typed, LaunchTypeOK
<1>3. /\ job'.room = field.room /\ job'.game = g /\ job'.what = "connect"
      /\ job'.slot = job.slot
  BY <1>1, <1>2 DEF Job
<1>4. boots[g] = overlay /\ g \in 1 .. Len(boots)
  BY <1>1, <1>2, NoneAssumption DEF PlayInv, LoadedNow, Vanilla
<1>5. QED
  BY <1>2, <1>3, <1>4 DEF PlayInv, Named, Alone, LoadedNow, Spoken, SpeaksTruly, Equipping, Genuine

LEMMA LaunchesPlay ==
  ASSUME Typed, CacheInv, PlayInv, Launches PROVE PlayInv'
<1>0. job \in Job
  BY DEF Typed, LaunchTypeOK
<1>1. CASE Recheck \/ CheckStopped \/ LateCheck
  <2>1. UNCHANGED <<overlay, boots, up, logins, job>>
    BY <1>1 DEF Recheck, CheckStopped, LateCheck, files, procs
  <2>2. \/ step = "built" /\ step' = "stopped" /\ job.what = "launch" /\ job.room = job.first
        \/ step = "stopped" /\ step' = "switch" /\ job.what = "launch" /\ up = {}
        \/ step = "late" /\ step' = "client" /\ job.what = "connect" /\ up = {job.game}
    BY <1>1 DEF Recheck, CheckStopped, LateCheck, SameRequest, StillAlone, To, Typed, JobInv,
                Equipping
  <2>3. QED
    BY <2>1, <2>2 DEF PlayInv, Named, Alone, LoadedNow, Spoken, SpeaksTruly, LaunchSteps, Equipping
<1>2. CASE Activate
  <2>1. /\ step = "switch" /\ step' = "witness" /\ job.what = "launch" /\ job.room \in Room
        /\ UNCHANGED <<job, boots, up, logins>>
        /\ overlay' = [room |-> job.room, made |-> cache[job.room], gen |-> 0]
        /\ cache[job.room] = job.room
    BY <1>2 DEF Activate, To, procs, Typed, JobInv, Equipping, CacheInv, CacheIsTrue
  <2>2. up = {}
    BY <2>1 DEF PlayInv, Alone
  <2>3. QED
    BY <2>1, <2>2 DEF PlayInv, Named, Alone, LoadedNow, Spoken, SpeaksTruly, LaunchSteps,
                      Equipping, Genuine
<1>3. CASE WriteWitness \/ WriteConfig
  <2>1. UNCHANGED <<overlay, boots, up, logins, job>>
    BY <1>3 DEF WriteWitness, WriteConfig, procs
  <2>2. \/ step = "witness" /\ step' = "witnessed" /\ job.what = "launch"
        \/ step = "witnessed" /\ step' = "config" /\ job.what = "launch"
        \/ step = "config" /\ step' = "game" /\ job.what = "launch"
        \/ step = "config" /\ step' = "late" /\ job.what = "connect"
    BY <1>3 DEF WriteWitness, WriteConfig, To, Typed, JobInv, Equipping
  <2>3. QED
    BY <2>1, <2>2 DEF PlayInv, Named, Alone, LoadedNow, Spoken, SpeaksTruly, LaunchSteps, Equipping
<1>4. CASE LaunchVanilla
  <2>1. /\ step' = "game" /\ job.what = "vanilla" /\ UNCHANGED <<job, boots, up, logins>>
        /\ overlay' = Vanilla
    BY <1>4 DEF LaunchVanilla, To, procs
  <2>2. QED
    BY <2>1 DEF PlayInv, Named, Alone, LoadedNow, Spoken, SpeaksTruly, Equipping, Vanilla
<1>5. CASE RecheckRefused \/ VanillaDone \/ LaunchFails \/ LateRefused \/ Refused
           \/ ActivateFails
  <2>1. /\ step' = "idle" /\ UNCHANGED <<boots, up, logins>>
        /\ overlay' \in {overlay, Vanilla}
    BY <1>5, FailStep
       DEF RecheckRefused, VanillaDone, LaunchFails, LateRefused, Refused, ActivateFails,
           Done, files, procs
  <2>2. QED
    BY <2>1, PlayEnds
<1>6. QED
  BY <1>1, <1>2, <1>3, <1>4, <1>5, SpawnGamePlay, SpawnClientPlay, ConnectPlay DEF Launches

LEMMA AroundPlay == ASSUME NoHandInTheGaps, Typed, PlayInv, Around PROVE PlayInv'
<1>1. CASE EditFields \/ QuitGame \/ QuitClient
  <2>1. /\ UNCHANGED <<overlay, boots, logins, step, job>> /\ up' \subseteq up
        /\ UNCHANGED field \/ step \in EditAt
    BY <1>1 DEF EditFields, QuitGame, QuitClient, files, procs
  <2>2. QED
    BY <2>1, PlayUntouched DEF NoHandInTheGaps
<1>2. CASE BootByHand
  <2>0. step \notin {"switch", "witness", "witnessed", "config", "game", "client"}
    BY <1>2 DEF BootByHand, NoHandInTheGaps
  <2>1. Boot("hand") /\ UNCHANGED <<field, overlay, step, logins>>
    BY <1>2 DEF BootByHand, Boot, files
  <2>2. /\ Len(boots) \in Nat /\ Len(boots') = Len(boots) + 1
        /\ up' = up \cup {Len(boots) + 1}
        /\ \A i \in 1 .. Len(boots) : boots'[i] = boots[i]
        /\ boots'[Len(boots) + 1] = overlay
        /\ UNCHANGED job
        /\ up \subseteq 1 .. Len(boots)
    BY <2>1, BootTyped DEF Typed, LaunchTypeOK
  <2>3. Spoken'
    BY <2>1, <2>2, SpokenGrows DEF PlayInv
  <2>4. \A g \in up' : boots'[g] = overlay' \/ overlay' = Vanilla
    BY <2>1, <2>2 DEF PlayInv, LoadedNow
  <2>5. job.game \in 1 .. Len(boots) =>
          job.game \in 1 .. Len(boots') /\ boots'[job.game] = boots[job.game]
    BY <2>2
  <2>6. LoadedNow'
    BY <2>1, <2>2, <2>4, <2>5 DEF PlayInv, LoadedNow
  <2>7. Named' /\ Alone'
    BY <2>0, <2>1, <2>2 DEF PlayInv, Named, Alone
  <2>8. QED
    BY <2>3, <2>6, <2>7 DEF PlayInv
<1>3. CASE Spoil \/ WorkerDies
  <2>1. /\ step' = "idle" /\ UNCHANGED <<boots, up, logins>>
        /\ overlay' \in {overlay, Vanilla}
    BY <1>3 DEF Spoil, WorkerDies, Done, files, procs
  <2>2. QED
    BY <2>1, PlayEnds
<1>4. QED
  BY <1>1, <1>2, <1>3 DEF Around

LEMMA LaunchPlay ==
  ASSUME NoHandInTheGaps, Typed, CacheInv, PlayInv, [LaunchNext]_launchVars
  PROVE  PlayInv'
<1>1. CASE Presses
  BY <1>1, PressPlay DEF Presses
<1>2. CASE UNCHANGED launchVars
  BY <1>2, PlayUntouched DEF launchVars, files, procs
<1>3. QED
  BY <1>1, <1>2, PreparesPlay, LaunchesPlay, AroundPlay DEF LaunchNext

LEMMA PlayInit == LaunchInit => PlayInv
BY DEF LaunchInit, PlayInv, Named, Alone, LoadedNow, Spoken, Vanilla, LaunchSteps, Equipping

(* What a client speaks for is what its emulator loaded, and no other       *)
(* emulator ran when it was started, whatever was rebuilt, swapped, closed, *)
(* damaged or killed before, for any number of rooms, emulators and clients.*)
THEOREM SpeaksTrue ==
  ASSUME NoHandInTheGaps PROVE LaunchSpec => []SpeaksForItsGame
<1>0. KeyedAsWritten
  BY DEF NoHandInTheGaps, KeyedAsWritten
<1>1. LaunchInit => Typed /\ CacheInv /\ PlayInv
  BY TypedInit, CacheInit, PlayInit
<1>2. Typed /\ CacheInv /\ PlayInv /\ [LaunchNext]_launchVars
        => (Typed /\ CacheInv /\ PlayInv)'
  BY <1>0, TypedStep, LaunchCache, LaunchPlay
<1>3. PlayInv => SpeaksForItsGame
  BY SpokenSpeaks DEF PlayInv
<1>4. QED
  BY <1>1, <1>2, <1>3, PTL DEF LaunchSpec

-----------------------------------------------------------------------------
(* The page that hosts, beside the launches of its window *)

HostTypeOK ==
  /\ servers \in Seq([at : Server, room : Room]) /\ alive \subseteq 1 .. Newest
  /\ host \in 0 .. Newest

Starting == {"starting", "identity", "handback"}

(* Until it is handed back a server that was started belongs to the call.   *)
ServerInv ==
  /\ alive \subseteq {host} \cup orphans \cup (IF step \in Starting THEN {Newest} ELSE {})
  /\ step \in {"generate"} \cup Published => ~Running

(* The address of the server behind Stop server is remembered with its      *)
(* room, and the one being started is for the room that was read.           *)
HostedInv ==
  /\ Running /\ servers[host].at \notin overruled =>
       lock[servers[host].at] = servers[host].room
  /\ step \in {"probe", "spawn"} => field.room = job.first
  /\ step \in Starting => servers[Newest] = [at |-> job.server, room |-> job.first]
  /\ step = "handback" => lock[job.server] = job.first

LEMMA NewestCounts == ASSUME HostTypeOK PROVE Newest \in Nat /\ 0 \notin alive
BY DEF HostTypeOK, Newest

(* A launch of the window does not touch a call of the page.                *)
LEMMA LaunchingApart ==
  ASSUME Launching
  PROVE  /\ [LaunchNext]_launchVars /\ UNCHANGED <<processes, host, orphans>>
         /\ overruled' = overruled \cup {s \in Server : job.agreed /\ lock'[s] # lock[s]}
         /\ \/ step \notin HostSteps /\ step' \notin HostSteps
            \/ UNCHANGED <<step, job, lock>> /\ (UNCHANGED field \/ step \in EditAt)
<1>1. /\ [LaunchNext]_launchVars /\ UNCHANGED <<processes, host, orphans>>
      /\ overruled' = overruled \cup {s \in Server : job.agreed /\ lock'[s] # lock[s]}
  BY DEF Launching, LaunchNext, Presses, Around
<1>2. CASE \E agreed \in BOOLEAN : Press("launch", agreed, FALSE)
  BY <1>1, <1>2 DEF Press, To, HostSteps
<1>3. CASE PreparesSeed
  <2>1. CASE ReadRequest \/ Prepare \/ Evict \/ RunWriters \/ PublishBuild
    BY <1>1, <2>1 DEF ReadRequest, Prepare, Evict, RunWriters, PublishBuild, To, HostSteps
  <2>2. QED
    BY <1>1, <1>3, <2>1, FailStep
       DEF PreparesSeed, ReadRefused, PrepareRefused, BuildFails, Randomized, HostSteps
<1>4. CASE Launches
  <2>1. CASE Recheck \/ CheckStopped \/ Activate \/ WriteWitness
    BY <1>1, <2>1 DEF Recheck, CheckStopped, Activate, WriteWitness, To, HostSteps
  <2>2. CASE WriteConfig \/ SpawnGame \/ Connect \/ LateCheck \/ LaunchVanilla \/ SpawnClient
    BY <1>1, <2>2
       DEF WriteConfig, SpawnGame, Connect, LateCheck, LaunchVanilla, SpawnClient, To, Done,
           HostSteps
  <2>3. QED
    BY <1>1, <1>4, <2>1, <2>2, FailStep
       DEF Launches, RecheckRefused, VanillaDone, LaunchFails, LateRefused, Refused,
           ActivateFails, Done, HostSteps
<1>5. CASE EditFields
  BY <1>1, <1>5 DEF EditFields, files
<1>6. QED
  BY <1>2, <1>3, <1>4, <1>5 DEF Launching

PageOrServer == Hosts \/ ServerListens \/ ServerEnds \/ WindowDies

(* What the page and its servers never touch.                               *)
LEMMA OutsideApart ==
  ASSUME PageOrServer
  PROVE  /\ UNCHANGED <<cache, overlay, witness, config, procs, spoke>>
         /\ step' \in {"idle"} \cup HostSteps \/ UNCHANGED launchVars
         /\ UNCHANGED <<lock, waved>> \/ KeepIdentity
<1>1. CASE CreateSeed \/ HostSelected \/ StopPressed
  BY <1>1 DEF CreateSeed, HostSelected, StopPressed, HostCall, To, HostSteps, files, history
<1>2. CASE Generated \/ PortIsFree \/ SpawnServer \/ HearsReady
  BY <1>2 DEF Generated, PortIsFree, SpawnServer, HearsReady, To, Done, HostSteps, files, history
<1>3. CASE GenerationFails \/ HostRefused \/ SpawnFails \/ StartFails \/ IdentityFails
  BY <1>3, FailStep
     DEF GenerationFails, HostRefused, SpawnFails, StartFails, IdentityFails, files, history
<1>4. CASE KeepIdentity
  BY <1>4 DEF KeepIdentity, To, HostSteps
<1>5. CASE HandBack \/ StopServer \/ WindowDies
  BY <1>5 DEF HandBack, StopServer, WindowDies, Done, files, history
<1>6. CASE Poll \/ ServerListens \/ ServerEnds
  BY <1>6 DEF Poll, ServerListens, ServerEnds, launchVars, files, history
<1>7. QED
  BY <1>1, <1>2, <1>3, <1>4, <1>5, <1>6 DEF PageOrServer, Hosts

(* A call of the page between its steps.                                    *)
LEMMA PageTyped ==
  ASSUME Typed, step' \in {"idle"} \cup HostSteps, job' \in Job,
         step' \in Published => job'.server \in Server /\ job'.first \in Room,
         field' \in [room : Room, server : Server],
         lock' \in [Server -> Room \cup {NoRoom}], waved' \subseteq Server,
         faults' \in 0 .. MaxFaults,
         UNCHANGED <<cache, overlay, witness, config, procs, spoke>>
  PROVE  Typed'
<1>1. LaunchTypeOK'
  BY DEF Typed, LaunchTypeOK, procs
<1>2. JobInv'
  BY DEF JobInv, LaunchSteps, HostSteps, Preparing, Equipping, Published
<1>3. QED
  BY <1>1, <1>2 DEF Typed

LEMMA HostCallTyped ==
  ASSUME Typed, NEW s \in Server \cup {NoServer}, NEW r \in Room \cup {NoRoom}, NEW next \in HostSteps,
         next \in Published => s \in Server /\ r \in Room, HostCall(s, r, next)
  PROVE  Typed' /\ UNCHANGED hosting /\ step' = next /\ job'.server = s /\ job'.first = r
         /\ UNCHANGED field
<1>1. /\ job' = [what |-> "host", server |-> s, slot |-> NoRoom, agreed |-> FALSE, rebuild |-> FALSE,
                 first |-> r, room |-> NoRoom, made |-> NoRoom, game |-> 0, gen |-> 0]
      /\ step' = next /\ UNCHANGED <<field, files, procs, history, faults, hosting>>
  BY DEF HostCall, To, NoJob
<1>2. job' \in Job /\ job'.server = s /\ job'.first = r
  BY <1>1 DEF Job
<1>3. Typed'
  BY <1>1, <1>2, PageTyped DEF Typed, LaunchTypeOK, files, procs, history
<1>4. QED
  BY <1>1, <1>2, <1>3

LEMMA OutsideTyped == ASSUME Typed, HostTypeOK, PageOrServer PROVE Typed'
<1>0. /\ job \in Job /\ NoJob \in Job /\ field \in [room : Room, server : Server]
      /\ lock \in [Server -> Room \cup {NoRoom}] /\ waved \subseteq Server
      /\ faults \in 0 .. MaxFaults
  BY NoJobOK DEF Typed, LaunchTypeOK
<1>1. CASE CreateSeed
  BY <1>1, HostCallTyped DEF CreateSeed, HostSteps, Published
<1>2. CASE HostSelected
  <2>1. PICK s \in Server : HostCall(s, field.room, "probe")
    BY <1>2 DEF HostSelected
  <2>2. QED
    BY <1>0, <2>1, HostCallTyped DEF HostSteps, Published
<1>3. CASE StopPressed
  BY <1>3, HostCallTyped DEF StopPressed, HostSteps, Published
<1>4. CASE Generated
  <2>1. PICK r \in Room :
          /\ field' = [field EXCEPT !.room = r]
          /\ \/ Done
             \/ /\ \E s \in Server : job' = [job EXCEPT !.server = s, !.first = r]
                /\ To("probe")
    BY <1>4 DEF Generated
  <2>2. /\ UNCHANGED <<files, procs, history, faults>>
        /\ field' \in [room : Room, server : Server]
    BY <1>0, <1>4, <2>1 DEF Generated
  <2>3. CASE Done
    BY <1>0, <2>2, <2>3, PageTyped DEF Done, files, history, HostSteps, Published
  <2>4. CASE ~Done
    <3>1. PICK s \in Server : job' = [job EXCEPT !.server = s, !.first = r]
      BY <2>1, <2>4
    <3>2. job' \in Job /\ job'.server = s /\ job'.first = r
      BY <1>0, <3>1 DEF Job
    <3>3. step' = "probe"
      BY <2>1, <2>4 DEF To
    <3>4. QED
      BY <1>0, <2>2, <3>2, <3>3, PageTyped DEF files, history, HostSteps
  <2>5. QED
    BY <2>3, <2>4
<1>5. CASE PortIsFree \/ SpawnServer \/ HearsReady
  <2>1. /\ step \in {"probe", "spawn", "starting"} /\ UNCHANGED job
        /\ step' \in {"spawn", "starting", "identity"}
        /\ UNCHANGED <<field, files, procs, history, faults>>
    BY <1>5 DEF PortIsFree, SpawnServer, HearsReady, To
  <2>2. job.server \in Server /\ job.first \in Room
    BY <2>1 DEF Typed, JobInv, Published
  <2>3. QED
    BY <1>0, <2>1, <2>2, PageTyped DEF files, history, HostSteps
<1>6. CASE KeepIdentity
  <2>1. /\ step = "identity" /\ step' = "handback"
        /\ UNCHANGED <<field, cache, overlay, witness, config, procs, job, spoke, faults>>
        /\ lock' = [lock EXCEPT ![job.server] = job.first]
        /\ waved' = IF lock[job.server] \notin {NoRoom, job.first}
                     THEN waved \cup {job.server} ELSE waved
    BY <1>6 DEF KeepIdentity, HostedIdentity, To
  <2>2. job.server \in Server /\ job.first \in Room
    BY <2>1 DEF Typed, JobInv, Published
  <2>3. QED
    BY <1>0, <2>1, <2>2, PageTyped DEF HostSteps
<1>7. CASE HandBack
  <2>1. /\ step = "handback" /\ field' = [field EXCEPT !.server = job.server] /\ Done
        /\ UNCHANGED <<files, procs, history, faults>>
    BY <1>7 DEF HandBack
  <2>2. job.server \in Server
    BY <2>1 DEF Typed, JobInv, Published
  <2>3. QED
    BY <1>0, <2>1, <2>2, PageTyped DEF Done, files, history, Published
<1>8. CASE StopServer
  BY <1>0, <1>8, PageTyped DEF StopServer, Done, files, history, Published
<1>9. CASE WindowDies
  BY <1>0, <1>9, PageTyped, LaunchBounds DEF WindowDies, Done, files, history, Published
<1>10. CASE GenerationFails \/ HostRefused \/ SpawnFails \/ StartFails \/ IdentityFails
  BY <1>10, FailTyped DEF GenerationFails, HostRefused, SpawnFails, StartFails, IdentityFails
<1>11. CASE Poll \/ ServerListens \/ ServerEnds
  BY <1>11, StutterTyped DEF Poll, ServerListens, ServerEnds
<1>12. QED
  BY <1>1, <1>2, <1>3, <1>4, <1>5, <1>6, <1>7, <1>8, <1>9, <1>10, <1>11 DEF PageOrServer, Hosts

PageInv == HostTypeOK /\ ServerInv

LEMMA LaunchingPage == ASSUME PageInv, Launching PROVE PageInv'
<1>1. /\ UNCHANGED <<servers, alive, host, orphans>>
      /\ (step \notin HostSteps /\ step' \notin HostSteps) \/ UNCHANGED step
  BY LaunchingApart DEF processes
<1>2. QED
  BY <1>1 DEF PageInv, HostTypeOK, ServerInv, Running, Newest, Starting, Published, HostSteps

LEMMA OutsidePage == ASSUME Typed, PageInv, PageOrServer PROVE PageInv'
<1>1. CASE CreateSeed \/ HostSelected \/ StopPressed
  <2>1. /\ step = "idle" /\ UNCHANGED <<servers, alive, host, orphans>>
        /\ (~Running /\ step' \in {"generate", "probe"}) \/ step' = "stopping"
    BY <1>1 DEF CreateSeed, HostSelected, StopPressed, HostCall, To, hosting, processes
  <2>2. QED
    BY <2>1 DEF PageInv, HostTypeOK, ServerInv, Running, Newest, Starting, Published
<1>2. CASE Generated \/ PortIsFree \/ HearsReady
  <2>1. /\ step \in {"generate", "probe", "starting"}
        /\ UNCHANGED <<servers, alive, host, orphans>>
        /\ step = "starting" => step' = "identity"
        /\ step \in {"generate", "probe"} => step' \in {"idle", "probe", "spawn"}
    BY <1>2 DEF Generated, PortIsFree, HearsReady, To, Done, hosting, processes
  <2>2. QED
    BY <2>1 DEF PageInv, HostTypeOK, ServerInv, Running, Newest, Starting, Published
<1>3. CASE SpawnServer
  <2>1. /\ step = "spawn" /\ step' = "starting" /\ UNCHANGED <<host, orphans>>
        /\ servers' = Append(servers, [at |-> job.server, room |-> field.room])
        /\ alive' = alive \cup {Len(servers')}
    BY <1>3 DEF SpawnServer, To
  <2>2. [at |-> job.server, room |-> field.room] \in [at : Server, room : Room]
    BY <2>1 DEF Typed, LaunchTypeOK, JobInv, Published
  <2>3. /\ servers' \in Seq([at : Server, room : Room]) /\ Newest' = Newest + 1
        /\ Newest \in Nat
    BY <2>1, <2>2, AppendKeeps DEF PageInv, HostTypeOK, Newest
  <2>4. alive \cup {Newest + 1} \subseteq 1 .. Newest + 1
    BY <2>3, OneMore DEF PageInv, HostTypeOK
  <2>5. alive' = alive \cup {Newest'}
    BY <2>1 DEF Newest
  <2>6. host \in 0 .. Newest' /\ host # Newest'
    BY <2>3 DEF PageInv, HostTypeOK
  <2>7. HostTypeOK'
    BY <2>1, <2>3, <2>4, <2>5, <2>6 DEF HostTypeOK
  <2>8. alive \subseteq {host} \cup orphans /\ host \notin alive
    BY <2>1 DEF PageInv, ServerInv, Running, Starting, Published
  <2>9. ServerInv'
    BY <2>1, <2>5, <2>6, <2>8 DEF ServerInv, Running, Starting
  <2>10. QED
    BY <2>7, <2>9 DEF PageInv
<1>4. CASE KeepIdentity
  <2>1. /\ step = "identity" /\ step' = "handback"
        /\ UNCHANGED <<servers, alive, host, orphans>>
    BY <1>4 DEF KeepIdentity, To, processes
  <2>2. QED
    BY <2>1 DEF PageInv, HostTypeOK, ServerInv, Running, Newest, Starting, Published
<1>5. CASE HandBack
  <2>1. /\ step = "handback" /\ step' = "idle" /\ host' = Newest
        /\ UNCHANGED <<servers, alive, orphans>>
    BY <1>5 DEF HandBack, Done, processes
  <2>2. Newest' = Newest /\ Newest \in Nat
    BY <2>1, NewestCounts DEF PageInv, Newest
  <2>3. host \notin alive
    BY <2>1 DEF PageInv, ServerInv, Running, Published
  <2>4. QED
    BY <2>1, <2>2, <2>3 DEF PageInv, HostTypeOK, ServerInv, Running, Starting, Published
<1>6. CASE GenerationFails \/ HostRefused \/ SpawnFails
  <2>1. /\ step \in {"generate", "probe", "spawn"} /\ step' = "idle"
        /\ UNCHANGED <<servers, alive, host, orphans>>
    BY <1>6, FailStep DEF GenerationFails, HostRefused, SpawnFails, hosting, processes
  <2>2. QED
    BY <2>1 DEF PageInv, HostTypeOK, ServerInv, Running, Newest, Starting, Published
<1>7. CASE StartFails \/ IdentityFails
  <2>1. /\ step \in Starting /\ step' = "idle" /\ UNCHANGED <<servers, host, orphans>>
        /\ alive' = alive \ {Newest}
    BY <1>7, FailStep DEF StartFails, IdentityFails, GivenUp, Starting
  <2>2. Newest' = Newest
    BY <2>1 DEF Newest
  <2>3. QED
    BY <2>1, <2>2 DEF PageInv, HostTypeOK, ServerInv, Running, Starting, Published
<1>8. CASE StopServer
  <2>1. /\ step = "stopping" /\ step' = "idle" /\ UNCHANGED <<servers, orphans>>
        /\ alive' = alive \ {host} /\ host' \in {0, host}
    BY <1>8 DEF StopServer, Done
  <2>2. Newest' = Newest /\ Newest \in Nat
    BY <2>1, NewestCounts DEF PageInv, Newest
  <2>3. alive' \subseteq orphans'
    BY <2>1 DEF PageInv, ServerInv, Starting
  <2>4. QED
    BY <2>1, <2>2, <2>3 DEF PageInv, HostTypeOK, ServerInv, Running, Starting, Published
<1>9. CASE Poll
  <2>1. /\ host \notin alive /\ host' = 0 /\ UNCHANGED <<servers, alive, orphans, step>>
    BY <1>9 DEF Poll, Running, processes, launchVars
  <2>2. Newest' = Newest /\ Newest \in Nat /\ 0 \notin alive
    BY <2>1, NewestCounts DEF PageInv, Newest
  <2>3. QED
    BY <2>1, <2>2 DEF PageInv, HostTypeOK, ServerInv, Running, Starting, Published
<1>10. CASE ServerListens \/ ServerEnds
  <2>1. UNCHANGED <<servers, host, orphans, step>> /\ alive' \subseteq alive
    BY <1>10 DEF ServerListens, ServerEnds, launchVars
  <2>2. Newest' = Newest
    BY <2>1 DEF Newest
  <2>3. QED
    BY <2>1, <2>2 DEF PageInv, HostTypeOK, ServerInv, Running
<1>11. CASE WindowDies
  <2>1. /\ step' = "idle" /\ host' = 0 /\ orphans' = orphans \cup alive
        /\ UNCHANGED <<servers, alive>>
    BY <1>11 DEF WindowDies, Done, processes
  <2>2. Newest' = Newest /\ Newest \in Nat
    BY <2>1, NewestCounts DEF PageInv, Newest
  <2>3. QED
    BY <2>1, <2>2 DEF PageInv, HostTypeOK, ServerInv, Running, Starting, Published
<1>12. QED
  BY <1>1, <1>2, <1>3, <1>4, <1>5, <1>6, <1>7, <1>8, <1>9, <1>10, <1>11 DEF PageOrServer, Hosts

LEMMA HostInitially == HostInit => Typed /\ PageInv
<1> SUFFICES ASSUME HostInit PROVE Typed /\ PageInv
  OBVIOUS
<1>1. Typed /\ step = "idle"
  BY TypedInit DEF HostInit, LaunchInit
<1>2. /\ servers = << >> /\ alive = {} /\ host = 0
      /\ servers \in Seq([at : Server, room : Room]) /\ Newest = 0
  BY DEF HostInit, Newest
<1>3. QED
  BY <1>1, <1>2 DEF PageInv, HostTypeOK, ServerInv, Running, Published, Starting

LEMMA HostStep ==
  ASSUME Typed, PageInv, [HostNext]_hostVars
  PROVE  Typed' /\ PageInv'
<1>1. CASE UNCHANGED hostVars
  <2>1. UNCHANGED <<servers, alive, host, orphans, step>> /\ UNCHANGED launchVars
    BY <1>1 DEF hostVars, hosting, processes, launchVars
  <2>2. QED
    BY <2>1, StutterTyped DEF PageInv, HostTypeOK, ServerInv, Running, Newest
<1>2. CASE Launching
  BY <1>2, LaunchingApart, TypedStep, LaunchingPage
<1>3. CASE PageOrServer
  BY <1>3, OutsideTyped, OutsidePage DEF PageInv
<1>4. QED
  BY <1>1, <1>2, <1>3 DEF HostNext, PageOrServer

(* However a start fails, is slow, is stopped by force or is cut short, a   *)
(* server still running is the one behind Stop server, or its window was    *)
(* killed.                                                                  *)
THEOREM NoneStray == HostSpec => []NoStrayServer
<1>1. Typed /\ PageInv /\ [HostNext]_hostVars => (Typed /\ PageInv)'
  BY HostStep
<1>2. PageInv => NoStrayServer
  BY DEF PageInv, ServerInv, NoStrayServer, Starting
<1>3. QED
  BY <1>1, <1>2, HostInitially, PTL DEF HostSpec

(* Beside the page's own calls, whatever they do to servers, every variable *)
(* of the window holds what the code can put there.                         *)
THEOREM HostTypeCorrect == HostSpec => []LaunchTypeOK
<1>1. Typed /\ PageInv /\ [HostNext]_hostVars => (Typed /\ PageInv)'
  BY HostStep
<1>2. Typed => LaunchTypeOK
  BY DEF Typed
<1>3. QED
  BY <1>1, <1>2, HostInitially, PTL DEF HostSpec

-----------------------------------------------------------------------------
(* Whose room is played at the hosted address *)

(* The request stays as it is while the address is probed and the server    *)
(* spawned: its options were read before, the archive is opened after.      *)
HostedAsRead == EditAt \cap {"probe", "spawn"} = {}

Honoured(i) == servers[i].at \notin overruled => lock[servers[i].at] = servers[i].room

LEMMA HostedSplit == HostedInv <=> /\ host \in alive => Honoured(host)
                                   /\ step \in {"probe", "spawn"} => field.room = job.first
                                   /\ step \in Starting =>
                                        servers[Newest] = [at |-> job.server, room |-> job.first]
                                   /\ step = "handback" => lock[job.server] = job.first
BY DEF HostedInv, Honoured, Running

(* A launch of the window changes what an address is remembered for only    *)
(* for the address it names.                                                *)
LEMMA LockChanges ==
  ASSUME Typed, [LaunchNext]_launchVars
  PROVE  \/ UNCHANGED lock
         \/ /\ job.server \in Server /\ job.agreed \in BOOLEAN /\ field.room \in Room
            /\ Remember(job.server, field.room, job.agreed)
<1>1. CASE Presses
  BY <1>1 DEF Presses, Press, files
<1>2. CASE PreparesSeed
  <2>1. CASE ReadRequest
    BY <1>2, <2>1 DEF ReadRequest, Typed, LaunchTypeOK, JobInv, LaunchSteps, Job
  <2>2. CASE Prepare \/ Evict \/ RunWriters \/ PublishBuild
    BY <2>2 DEF Prepare, Evict, RunWriters, PublishBuild, files
  <2>3. QED
    BY <1>2, <2>1, <2>2, FailStep
       DEF PreparesSeed, ReadRefused, PrepareRefused, BuildFails, Randomized, files
<1>3. CASE Launches
  <2>1. CASE Connect
    BY <2>1 DEF Connect, Typed, LaunchTypeOK, JobInv, LaunchSteps, Job
  <2>2. CASE Recheck \/ CheckStopped \/ Activate \/ WriteWitness \/ WriteConfig \/ SpawnGame
             \/ LateCheck \/ LaunchVanilla \/ SpawnClient
    BY <2>2 DEF Recheck, CheckStopped, Activate, WriteWitness, WriteConfig, SpawnGame,
                LateCheck, LaunchVanilla, SpawnClient, files
  <2>3. QED
    BY <1>3, <2>1, <2>2, FailStep
       DEF Launches, RecheckRefused, VanillaDone, LaunchFails, LateRefused, Refused,
           ActivateFails, files
<1>4. CASE Around
  BY <1>4 DEF Around, EditFields, BootByHand, QuitGame, QuitClient, Spoil, WorkerDies, files
<1>5. QED
  BY <1>1, <1>2, <1>3, <1>4 DEF LaunchNext, launchVars, files

LEMMA LaunchingHosted ==
  ASSUME HostedAsRead, Typed, PageInv, HostedInv, Launching
  PROVE  HostedInv'
<1>1. /\ UNCHANGED <<servers, alive, host>> /\ [LaunchNext]_launchVars
      /\ overruled' = overruled \cup {s \in Server : job.agreed /\ lock'[s] # lock[s]}
      /\ \/ step \notin HostSteps /\ step' \notin HostSteps
         \/ UNCHANGED <<step, job, lock>> /\ (UNCHANGED field \/ step \in EditAt)
  BY LaunchingApart DEF processes
<1>2. ASSUME host \in alive PROVE Honoured(host)'
  <2>0. servers[host] \in [at : Server, room : Room]
    <3>1. servers \in Seq([at : Server, room : Room]) /\ host \in 1 .. Len(servers)
      BY <1>2 DEF PageInv, HostTypeOK, Newest
    <3>2. QED
      BY <3>1, ElementIn
  <2>1. servers[host].at \in Server /\ servers[host].room \in Room
    BY <2>0
  <2>2. Honoured(host)
    BY <1>2, HostedSplit
  <2>3. CASE UNCHANGED lock
    BY <1>1, <2>2, <2>3 DEF Honoured
  <2>4. CASE /\ job.server \in Server /\ job.agreed \in BOOLEAN /\ field.room \in Room
             /\ Remember(job.server, field.room, job.agreed)
    <3>1. /\ job.agreed \/ lock[job.server] \in {NoRoom, field.room}
          /\ lock' = [lock EXCEPT ![job.server] = field.room]
          /\ lock \in [Server -> Room \cup {NoRoom}]
      BY <2>4 DEF Remember, MayUse, Typed, LaunchTypeOK
    <3>2. CASE lock'[servers[host].at] = lock[servers[host].at]
      BY <1>1, <2>2, <3>2 DEF Honoured
    <3>3. CASE lock'[servers[host].at] # lock[servers[host].at]
      <4>1. servers[host].at = job.server
        BY <3>1, <3>3, <2>1
      <4>2. CASE job.agreed
        BY <1>1, <2>1, <3>3, <4>2 DEF Honoured
      <4>3. CASE ~job.agreed
        BY <1>1, <2>1, <2>2, <3>1, <3>3, <4>1, <4>3, NoneAssumption DEF Honoured
      <4>4. QED
        BY <4>2, <4>3
    <3>4. QED
      BY <3>2, <3>3
  <2>5. QED
    BY <1>1, <2>3, <2>4, LockChanges
<1>3. UNCHANGED Newest
  BY <1>1 DEF Newest
<1>4. QED
  BY <1>1, <1>2, <1>3, HostedSplit DEF HostSteps, Starting, HostedInv, HostedAsRead, Running,
                                        Honoured

LEMMA OutsideHosted ==
  ASSUME Typed, PageInv, HostedInv, PageOrServer
  PROVE  HostedInv'
<1>0. /\ job \in Job /\ field \in [room : Room, server : Server] /\ Newest \in Nat
      /\ 0 \notin alive
  BY NewestCounts DEF Typed, LaunchTypeOK, PageInv
<1>1. CASE CreateSeed \/ StopPressed
  <2>1. /\ step' \in {"generate", "stopping"}
        /\ UNCHANGED <<lock, servers, alive, host, overruled>>
    BY <1>1 DEF CreateSeed, StopPressed, HostCall, To, hosting, processes, files
  <2>2. QED
    BY <2>1 DEF HostedInv, Running, Starting
<1>2. CASE HostSelected
  <2>1. PICK s \in Server : HostCall(s, field.room, "probe")
    BY <1>2 DEF HostSelected
  <2>2. UNCHANGED hosting /\ step' = "probe" /\ job'.first = field.room /\ UNCHANGED field
    BY <1>0, <2>1, HostCallTyped DEF HostSteps, Published
  <2>3. UNCHANGED lock
    BY <2>1 DEF HostCall, files
  <2>4. QED
    BY <2>2, <2>3 DEF HostedInv, Running, Starting, hosting, processes
<1>3. CASE Generated
  <2>1. PICK r \in Room :
          /\ field' = [field EXCEPT !.room = r]
          /\ \/ Done
             \/ /\ \E s \in Server : job' = [job EXCEPT !.server = s, !.first = r]
                /\ To("probe")
    BY <1>3 DEF Generated
  <2>2. UNCHANGED <<lock, servers, alive, host, overruled>>
    BY <1>3 DEF Generated, files, hosting, processes
  <2>3. field'.room = r
    BY <1>0, <2>1
  <2>4. step' = "idle" \/ (step' = "probe" /\ job'.first = r)
    BY <1>0, <2>1 DEF Done, To, Job
  <2>5. QED
    BY <2>2, <2>3, <2>4 DEF HostedInv, Running, Starting
<1>4. CASE PortIsFree \/ HearsReady
  <2>1. /\ UNCHANGED <<field, lock, job, servers, alive, host, overruled>>
        /\ \/ step = "probe" /\ step' = "spawn"
           \/ step = "starting" /\ step' = "identity"
    BY <1>4 DEF PortIsFree, HearsReady, To, files, hosting, processes
  <2>2. UNCHANGED Newest
    BY <2>1 DEF Newest
  <2>3. QED
    BY <2>1, <2>2 DEF HostedInv, Running, Starting
<1>5. CASE SpawnServer
  <2>1. /\ step = "spawn" /\ step' = "starting" /\ UNCHANGED <<field, lock, job, host>>
        /\ servers' = Append(servers, [at |-> job.server, room |-> field.room])
        /\ alive' = alive \cup {Len(servers')}
    BY <1>5 DEF SpawnServer, To, files
  <2>2. [at |-> job.server, room |-> field.room] \in [at : Server, room : Room]
    BY <2>1 DEF Typed, LaunchTypeOK, JobInv, Published
  <2>3. Newest' = Newest + 1 /\ servers'[Newest + 1] = [at |-> job.server, room |-> field.room]
    BY <2>1, <2>2, AppendKeeps DEF PageInv, HostTypeOK, Newest
  <2>4. field.room = job.first
    BY <2>1 DEF HostedInv
  <2>5. alive' = alive \cup {Newest + 1}
    BY <2>1, <2>3 DEF Newest
  <2>6. host \notin alive'
    BY <1>0, <2>1, <2>5 DEF PageInv, HostTypeOK, ServerInv, Running, Published
  <2>7. servers'[Newest'] = [at |-> job'.server, room |-> job'.first]
    BY <2>1, <2>3, <2>4
  <2>8. QED
    BY <2>1, <2>6, <2>7 DEF HostedInv, Running, Starting
<1>6. CASE KeepIdentity
  <2>1. /\ step = "identity" /\ step' = "handback" /\ UNCHANGED <<job, servers, alive, host>>
        /\ lock' = [lock EXCEPT ![job.server] = job.first]
    BY <1>6 DEF KeepIdentity, HostedIdentity, To, processes
  <2>2. job.server \in Server /\ lock \in [Server -> Room \cup {NoRoom}]
    BY <2>1 DEF Typed, LaunchTypeOK, JobInv, Published
  <2>3. host \notin alive
    BY <2>1 DEF PageInv, ServerInv, Running, Published
  <2>4. UNCHANGED Newest
    BY <2>1 DEF Newest
  <2>5. QED
    BY <2>1, <2>2, <2>3, <2>4 DEF HostedInv, Running, Starting
<1>7. CASE HandBack
  <2>1. /\ step = "handback" /\ step' = "idle" /\ host' = Newest
        /\ UNCHANGED <<servers, lock>>
    BY <1>7 DEF HandBack, Done, processes, files
  <2>2. servers[Newest] = [at |-> job.server, room |-> job.first] /\ lock[job.server] = job.first
    BY <2>1 DEF HostedInv, Starting
  <2>3. QED
    BY <2>1, <2>2 DEF HostedInv, Running, Starting
<1>8. CASE GenerationFails \/ HostRefused \/ SpawnFails
  <2>1. step' = "idle" /\ UNCHANGED <<lock, servers, alive, host, overruled>>
    BY <1>8, FailStep DEF GenerationFails, HostRefused, SpawnFails, hosting, processes, files
  <2>2. QED
    BY <2>1 DEF HostedInv, Running, Starting
<1>9. CASE StartFails \/ IdentityFails
  <2>1. /\ step' = "idle" /\ UNCHANGED <<lock, servers, host, overruled>>
        /\ alive' = alive \ {Newest}
    BY <1>9, FailStep DEF StartFails, IdentityFails, GivenUp, files
  <2>2. QED
    BY <2>1 DEF HostedInv, Running, Starting
<1>10. CASE StopServer \/ WindowDies
  <2>1. step' = "idle" /\ host' \notin alive'
    BY <1>0, <1>10 DEF StopServer, WindowDies, Done, processes
  <2>2. QED
    BY <2>1 DEF HostedInv, Running, Starting
<1>11. CASE Poll \/ ServerListens \/ ServerEnds
  <2>1. /\ UNCHANGED <<field, lock, job, step, servers, overruled>>
        /\ alive' \subseteq alive /\ (host' = 0 \/ host' = host)
    BY <1>11 DEF Poll, ServerListens, ServerEnds, launchVars, files, processes
  <2>2. UNCHANGED Newest
    BY <2>1 DEF Newest
  <2>3. host' \in alive' => host' = host /\ host \in alive
    BY <1>0, <2>1
  <2>4. QED
    BY <2>1, <2>2, <2>3 DEF HostedInv, Running, Starting
<1>12. QED
  BY <1>1, <1>2, <1>3, <1>4, <1>5, <1>6, <1>7, <1>8, <1>9, <1>10, <1>11 DEF PageOrServer, Hosts

LEMMA HostedStep ==
  ASSUME HostedAsRead, Typed, PageInv, HostedInv, [HostNext]_hostVars
  PROVE  HostedInv'
<1>1. CASE UNCHANGED hostVars
  BY <1>1 DEF hostVars, hosting, processes, launchVars, files, HostedInv, Running, Newest
<1>2. CASE ~UNCHANGED hostVars
  BY <1>2, LaunchingHosted, OutsideHosted DEF HostNext, PageOrServer
<1>3. QED
  BY <1>1, <1>2

LEMMA OutsideLock == ASSUME Typed, LockInv, PageOrServer PROVE LockInv'
<1>1. UNCHANGED spoke /\ (step' \in {"idle"} \cup HostSteps \/ UNCHANGED launchVars)
      /\ (UNCHANGED <<lock, waved>> \/ KeepIdentity)
  BY OutsideApart
<1>2. CASE UNCHANGED <<lock, waved>>
  BY <1>1, <1>2, LockUntouched DEF Remembered, launchVars
<1>3. CASE KeepIdentity
  <2>1. /\ step = "identity" /\ step' = "handback" /\ UNCHANGED <<spoke, job>>
        /\ lock' = [lock EXCEPT ![job.server] = job.first]
        /\ waved' = IF lock[job.server] \notin {NoRoom, job.first}
                     THEN waved \cup {job.server} ELSE waved
        /\ lock \in [Server -> Room \cup {NoRoom}]
    BY <1>3 DEF KeepIdentity, HostedIdentity, To, Typed, LaunchTypeOK
  <2>2. ASSUME NEW t \in Server PROVE Agrees(t)'
    <3>1. Agrees(t)
      BY DEF LockInv
    <3>2. QED
      BY <2>1, <3>1 DEF Agrees
  <2>3. QED
    BY <2>1, <2>2 DEF LockInv, LaunchSteps
<1>4. QED
  BY <1>1, <1>2, <1>3

LEMMA HostLock == ASSUME Typed, LockInv, [HostNext]_hostVars PROVE LockInv'
<1>1. CASE UNCHANGED hostVars
  BY <1>1, LaunchLock DEF hostVars
<1>2. CASE ~UNCHANGED hostVars
  BY <1>2, LaunchLock, LaunchingApart, OutsideLock DEF HostNext, PageOrServer
<1>3. QED
  BY <1>1, <1>2

(* The same promise while the window also hosts: what the page remembers    *)
(* for an address counts as agreed.                                         *)
THEOREM HostNoneSilent == HostSpec => NoSilentRoomChange
<1>1. HostInit => LockInv
  BY LockInitially DEF HostInit
<1>2. Typed /\ PageInv /\ LockInv /\ [HostNext]_hostVars => (Typed /\ PageInv /\ LockInv)'
  BY HostStep, HostLock
<1>3. Typed /\ LockInv /\ [HostNext]_hostVars =>
        [\A s \in Server : spoke'[s] # spoke[s] => spoke[s] = NoRoom \/ s \in waved]_launchVars
  <2>1. [HostNext]_hostVars => [LaunchNext]_launchVars \/ UNCHANGED spoke
    BY LaunchingApart, OutsideApart DEF HostNext, PageOrServer, hostVars
  <2>2. QED
    BY <2>1, OnlyClientsSpeak, SilentStep
<1>4. QED
  BY <1>1, <1>2, <1>3, HostInitially, PTL DEF HostSpec, NoSilentRoomChange

(* Only a launch starts clients, and for the room of its address.           *)
LEMMA NewLoginSpeaks ==
  ASSUME Typed, LockInv, [HostNext]_hostVars, NEW i \in Len(logins) + 1 .. Len(logins')
  PROVE  /\ lock[logins'[i].server] = logins'[i].room
         /\ UNCHANGED <<lock, servers, host, alive>>
<1>1. logins' # logins
  <2>1. ASSUME logins' = logins PROVE FALSE
    <3>1. logins \in Seq(Login)
      BY DEF Typed, LaunchTypeOK
    <3>2. QED
      BY <2>1, <3>1
  <2>2. QED
    BY <2>1
<1>2. Launching
  BY <1>1, OutsideApart DEF HostNext, PageOrServer, hostVars, launchVars, procs
<1>3. SpawnClient
  <2>1. CASE \E agreed \in BOOLEAN : Press("launch", agreed, FALSE)
    BY <1>1, <2>1 DEF Press, procs
  <2>2. CASE EditFields
    BY <1>1, <2>2 DEF EditFields, procs
  <2>3. CASE PreparesSeed
    <3>1. CASE ReadRequest \/ Prepare \/ Evict \/ RunWriters \/ PublishBuild
      BY <1>1, <3>1 DEF ReadRequest, Prepare, Evict, RunWriters, PublishBuild, procs
    <3>2. QED
      BY <1>1, <2>3, <3>1, FailStep
         DEF PreparesSeed, ReadRefused, PrepareRefused, BuildFails, Randomized, procs
  <2>4. CASE Launches
    <3>1. CASE Recheck \/ CheckStopped \/ Activate \/ WriteWitness \/ WriteConfig \/ SpawnGame
               \/ Connect \/ LateCheck \/ LaunchVanilla
      BY <1>1, <3>1 DEF Recheck, CheckStopped, Activate, WriteWitness, WriteConfig, SpawnGame,
                        Boot, Connect, LateCheck, LaunchVanilla, procs
    <3>2. QED
      BY <1>1, <2>4, <3>1, FailStep
         DEF Launches, RecheckRefused, VanillaDone, LaunchFails, LateRefused, Refused,
             ActivateFails, procs
  <2>5. QED
    BY <1>2, <2>1, <2>2, <2>3, <2>4 DEF Launching
<1>4. /\ Len(logins) \in Nat /\ Len(logins') = Len(logins) + 1
      /\ logins'[Len(logins) + 1] = NewLogin
  BY <1>1, <1>3, ClientRuns
<1>5. i = Len(logins) + 1
  BY <1>4
<1>6. lock[job.server] = ConfigRoom /\ UNCHANGED lock
  BY <1>3, ClientSpeaks
<1>7. QED
  BY <1>2, <1>4, <1>5, <1>6, LaunchingApart DEF NewLogin, processes

(* A client started against the address this window hosts at speaks for the *)
(* hosted room, whatever the address was used for before, whatever else was *)
(* selected or launched since, unless the player agreed to reuse it.        *)
THEOREM HostedPlayed == ASSUME HostedAsRead PROVE HostSpec => HostedRoomIsPlayed
<1>1. HostInit => LockInv /\ HostedInv
  <2>1. HostInit => LockInv
    BY LockInitially DEF HostInit
  <2>2. HostInit => HostedInv
    BY DEF HostInit, LaunchInit, HostedInv, Running, Starting
  <2>3. QED
    BY <2>1, <2>2
<1> DEFINE Inv == Typed /\ PageInv /\ LockInv /\ HostedInv
<1>2. Inv /\ [HostNext]_hostVars => Inv'
  BY HostStep, HostLock, HostedStep
<1>3. Inv /\ [HostNext]_hostVars =>
        [\A i \in Len(logins) + 1 .. Len(logins') :
           Running /\ servers[host].at = logins'[i].server /\ logins'[i].server \notin overruled
             => logins'[i].room = servers[host].room]_hostVars
  BY NewLoginSpeaks DEF HostedInv
<1> HIDE DEF Inv
<1>4. HostInit => Inv
  BY <1>1, HostInitially DEF Inv
<1>5. QED
  BY <1>2, <1>3, <1>4, PTL DEF HostSpec, HostedRoomIsPlayed

LEMMA HostPlay ==
  ASSUME NoHandInTheGaps, Typed, CacheInv, PlayInv, [HostNext]_hostVars
  PROVE  CacheInv' /\ PlayInv'
<1>1. KeyedAsWritten
  BY DEF NoHandInTheGaps, KeyedAsWritten
<1>2. CASE [LaunchNext]_launchVars
  BY <1>1, <1>2, LaunchCache, LaunchPlay
<1>3. CASE PageOrServer /\ step' \in {"idle"} \cup HostSteps
  <2>1. UNCHANGED <<cache, overlay, boots, up, logins>>
    BY <1>3, OutsideApart DEF procs
  <2>2. CacheInv'
    BY <1>3, <2>1, CacheUntouched DEF HostSteps
  <2>3. QED
    BY <1>3, <2>1, <2>2, PlayEnds
<1>4. QED
  BY <1>2, <1>3, LaunchingApart, OutsideApart DEF HostNext, PageOrServer, hostVars

(* Hosting beside it changes nothing of what a client speaks for.           *)
THEOREM HostSpeaksTrue ==
  ASSUME NoHandInTheGaps PROVE HostSpec => [](CacheIsTrue /\ SpeaksForItsGame)
<1> DEFINE Inv == Typed /\ PageInv /\ CacheInv /\ PlayInv
<1>1. HostInit => Inv
  BY HostInitially, CacheInit, PlayInit DEF HostInit
<1>2. Inv /\ [HostNext]_hostVars => Inv'
  BY HostStep, HostPlay
<1>3. Inv => CacheIsTrue /\ SpeaksForItsGame
  BY SpokenSpeaks DEF PlayInv, CacheInv
<1> HIDE DEF Inv
<1>4. QED
  BY <1>1, <1>2, <1>3, PTL DEF HostSpec
=============================================================================
