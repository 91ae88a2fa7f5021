--------------------------- MODULE ExternalProofs ---------------------------
(***************************************************************************)
(* Theorems about BBLauncher mode, for any rooms, servers and bounds, and  *)
(* wherever the fields, the emulator and the package may change.           *)
(***************************************************************************)
EXTENDS External, TLAPS

(* From these steps on the call works for a room.                           *)
ExternalNamed == {"evict", "write", "publish", "built", "stopped", "switch", "witness",
          "witnessed", "config", "late", "client", "stage", "replace", "remove",
          "looked", "found", "again", "final"}

(* The calls that start a client with the plan's slot.                      *)
Logs == {"launch", "connect", "attach"}

(* The calls that start from the receipt selected at the press.             *)
Selects == {"verify", "attach"}

ExternalJobInv ==
  /\ step # "idle" => job.server \in Server
  /\ step # "idle" /\ job.what \in Logs => job.slot \in Room
  /\ step \in {"late", "final", "client"} \/ (step = "game" /\ job.what # "vanilla") =>
       job.what \in Logs
  /\ step = "read" /\ job.what \in Selects =>
       job.room \in Room /\ ConfigRoom \in Room /\ job.made \in Room
  /\ step = "prepare" /\ job.what = "launch" => job.first \in Room
  /\ step \in ExternalNamed \/ (step = "game" /\ job.what # "vanilla") =>
       job.room \in Room /\ ConfigRoom \in Room
  /\ step \in {"publish", "stage", "replace", "remove"} => job.made \in Room

(* No activation is known by a number BBLauncher has yet to reach.          *)
GenInv ==
  /\ overlay.gen <= activations
  /\ job.gen <= activations
  /\ \A r \in Room : seen[r].gen <= activations

ExternalTyped == ExternalTypeOK /\ ExternalJobInv /\ GenInv

-----------------------------------------------------------------------------
LEMMA ExternalNoJobOK == NoJob \in Job /\ NoJob.gen = 0
BY DEF NoJob, Job

LEMMA ExternalTypedInit == ExternalInit => ExternalTyped
<1> SUFFICES ASSUME ExternalInit PROVE ExternalTyped
  OBVIOUS
<1> USE DEF ExternalInit, LaunchInit
<1>1. LaunchTypeOK
  <2>1. Vanilla \in Overlays
    BY DEF Vanilla, Overlays
  <2>2. 0 \in 0 .. MaxFaults /\ Len(boots) <= MaxBoots /\ Len(logins) <= MaxLogins
    BY LaunchBounds
  <2>3. cache \in [Room -> Content] /\ witness \in [Room -> Content]
    BY DEF Content
  <2>4. config \in [Room -> Room \cup {NoRoom}] /\ lock \in [Server -> Room \cup {NoRoom}]
        /\ spoke \in [Server -> Room \cup {NoRoom}]
    OBVIOUS
  <2>5. boots \in Seq(Overlays) /\ logins \in Seq(Login)
    OBVIOUS
  <2>6. QED
    BY <2>1, <2>2, <2>3, <2>4, <2>5, ExternalNoJobOK DEF LaunchTypeOK
<1>2. /\ pkg \in [Room -> Content \cup {"edited"}]
      /\ seen \in [Room -> [gen : 0 .. MaxActivations, boots : 0 .. MaxBoots]]
      /\ activations \in 0 .. MaxActivations
  BY LaunchBounds, SwitchesAssumption DEF NeverSeen, Content
<1>3. ExternalJobInv
  BY DEF ExternalJobInv, ExternalNamed
<1>4. GenInv
  BY ExternalNoJobOK DEF GenInv, Vanilla, NeverSeen
<1>5. QED
  BY <1>1, <1>2, <1>3, <1>4 DEF ExternalTyped, ExternalTypeOK

-----------------------------------------------------------------------------
(* A call that ends. *)
LEMMA ExternalEndedTyped ==
  ASSUME ExternalTyped, Done, UNCHANGED <<field, files, procs, history, faults, packages>>
  PROVE  ExternalTyped'
<1>1. step' = "idle" /\ job' = NoJob
  BY DEF Done
<1>2. ExternalTypeOK'
  BY <1>1, ExternalNoJobOK
     DEF ExternalTyped, ExternalTypeOK, LaunchTypeOK, files, procs, history, packages
<1>3. ExternalJobInv'
  BY <1>1 DEF ExternalJobInv, ExternalNamed
<1>4. GenInv'
  BY <1>1, ExternalNoJobOK DEF ExternalTyped, GenInv, files, packages, ExternalTypeOK
<1>5. QED
  BY <1>2, <1>3, <1>4 DEF ExternalTyped

LEMMA ExternalFailTyped ==
  ASSUME ExternalTyped, NEW from, Fail(from), UNCHANGED packages
  PROVE  ExternalTyped'
BY ExternalEndedTyped DEF Fail

(* A button. *)
LEMMA ExternalPressTyped ==
  ASSUME ExternalTyped, NEW what \in {"launch", "randomize", "connect", "vanilla", "export",
                              "retry"},
         NEW agreed \in BOOLEAN, NEW rebuild \in BOOLEAN,
         Press(what, agreed, rebuild), UNCHANGED packages
  PROVE  ExternalTyped'
<1>1. field.room \in Room /\ field.server \in Server
  BY DEF ExternalTyped, ExternalTypeOK, LaunchTypeOK
<1>2. /\ job' \in Job /\ job'.gen = 0 /\ job'.server \in Server
      /\ job'.what = what /\ (what \in Logs => job'.slot \in Room)
      /\ step' = "read"
  <2> DEFINE slot == IF what \in Speaks THEN field.room ELSE NoRoom
  <2>1. slot \in Room \cup {NoRoom} /\ (what \in Speaks => slot \in Room)
    BY <1>1
  <2>2. job' = [NoJob EXCEPT !.what = what, !.agreed = agreed, !.rebuild = rebuild,
                             !.server = field.server, !.slot = slot]
    BY DEF Press
  <2>3. step' = "read"
    BY DEF Press, To
  <2> HIDE DEF slot
  <2>4. job' = [what |-> what, server |-> field.server, slot |-> slot, agreed |-> agreed,
                rebuild |-> rebuild, first |-> NoRoom, room |-> NoRoom, made |-> NoRoom,
                game |-> 0, gen |-> 0]
    BY <2>2 DEF NoJob
  <2>5. QED
    BY <1>1, <2>1, <2>3, <2>4 DEF Job, Speaks, Logs
<1>3. UNCHANGED <<field, files, procs, history, faults, packages>>
  BY DEF Press
<1>4. ExternalJobInv'
  BY <1>2 DEF ExternalJobInv, ExternalNamed, Selects
<1>5. GenInv'
  BY <1>2, <1>3 DEF ExternalTyped, GenInv, files, packages, ExternalTypeOK
<1>6. ExternalTypeOK'
  BY <1>2, <1>3 DEF ExternalTyped, ExternalTypeOK, LaunchTypeOK, files, procs, history, packages
<1>7. QED
  BY <1>4, <1>5, <1>6 DEF ExternalTyped

(* A button for a receipt of ours.                                          *)
LEMMA ExternalPressWithTyped ==
  ASSUME ExternalTyped, NEW receipt \in receipts, NEW what \in Selects,
         NEW agreed \in BOOLEAN, PressWith(receipt, what, agreed)
  PROVE  ExternalTyped'
<1>1. /\ field.room \in Room /\ field.server \in Server
      /\ receipt.room \in Room /\ receipt.made \in Room
  BY DEF ExternalTyped, ExternalTypeOK, LaunchTypeOK
<1> DEFINE slot == IF what = "attach" THEN field.room ELSE NoRoom
<1>2. /\ job' = [what |-> what, server |-> field.server, slot |-> slot, agreed |-> agreed,
                 rebuild |-> FALSE, first |-> NoRoom, room |-> receipt.room,
                 made |-> receipt.made, game |-> 0, gen |-> 0]
      /\ step' = "read" /\ UNCHANGED <<field, files, procs, history, faults, packages>>
  BY DEF PressWith, To, NoJob
<1>3. slot \in Room \cup {NoRoom} /\ (what \in Logs => slot \in Room)
  BY <1>1 DEF Selects, Logs
<1> HIDE DEF slot
<1>4. /\ job' \in Job /\ job'.gen = 0
      /\ job'.what = what /\ job'.server \in Server
      /\ (what \in Logs => job'.slot \in Room)
      /\ job'.room \in Room /\ job'.made \in Room
  BY <1>1, <1>2, <1>3 DEF Job, Selects
<1>5. ExternalJobInv'
  BY <1>2, <1>4 DEF ExternalJobInv, ExternalNamed, ConfigRoom, Selects
<1>6. GenInv'
  BY <1>2, <1>4 DEF ExternalTyped, GenInv, files, packages, ExternalTypeOK
<1>7. ExternalTypeOK'
  BY <1>2, <1>4 DEF ExternalTyped, ExternalTypeOK, LaunchTypeOK, files, procs, history, packages
<1>8. QED
  BY <1>5, <1>6, <1>7 DEF ExternalTyped

(* A step that moves the call on and leaves its rooms and the files alone.  *)
LEMMA ExternalPreparesTyped ==
  ASSUME ExternalTyped, PreparesSeed, UNCHANGED packages PROVE ExternalTyped'
<1> USE DEF ExternalTyped, packages
<1>1. CASE ReadRequest
  <2>1. /\ job' = [job EXCEPT !.first = field.room, !.agreed = FALSE] \/ job' = job
        /\ step = "read" /\ step' = "prepare"
    BY <1>1 DEF ReadRequest, To
  <2>2. /\ job' \in Job /\ UNCHANGED <<job.gen, job.slot, job.server, job.what>>
        /\ job.what = "launch" => job'.first \in Room
    BY <1>1, <2>1 DEF ReadRequest, ExternalTypeOK, LaunchTypeOK, Job
  <2>3. lock' \in [Server -> Room \cup {NoRoom}] /\ waved' \subseteq Server
    BY <1>1 DEF ReadRequest, Remember, ExternalTypeOK, LaunchTypeOK, ExternalJobInv
  <2>4. UNCHANGED <<field, cache, overlay, witness, config, procs, spoke, faults>>
    BY <1>1 DEF ReadRequest
  <2>5. ExternalTypeOK'
    BY <2>2, <2>3, <2>4 DEF ExternalTypeOK, LaunchTypeOK, procs
  <2>6. ExternalJobInv' /\ GenInv'
    BY <2>1, <2>2, <2>4 DEF ExternalJobInv, GenInv, ExternalNamed
  <2>7. QED
    BY <2>5, <2>6
<1>2. CASE Prepare
  <2>1. job' = [job EXCEPT !.room = field.room, !.rebuild = FALSE] /\ step = "prepare"
        /\ step' \in {"write", "evict", "built"}
    BY <1>2 DEF Prepare, KeyRoom, To
  <2>2. job' \in Job /\ job'.room = field.room /\ UNCHANGED <<job.gen, job.slot, job.server,
        job.what, job.first>>
    BY <2>1 DEF ExternalTypeOK, LaunchTypeOK, Job
  <2>3. cache' \in [Room -> Content]
    BY <1>2 DEF Prepare, ExternalTypeOK, LaunchTypeOK, Content
  <2>4. UNCHANGED <<field, overlay, witness, config, lock, procs, history, faults>>
    BY <1>2 DEF Prepare
  <2>5. ExternalTypeOK'
    BY <2>2, <2>3, <2>4 DEF ExternalTypeOK, LaunchTypeOK, procs, history
  <2>6. ExternalJobInv' /\ GenInv'
    BY <2>1, <2>2, <2>4 DEF ExternalJobInv, GenInv, ConfigRoom, ExternalTypeOK, LaunchTypeOK
  <2>7. QED
    BY <2>5, <2>6
<1>3. CASE Evict \/ PublishBuild
  <2>1. cache' \in [Room -> Content]
    BY <1>3 DEF Evict, PublishBuild, ExternalJobInv, ExternalTypeOK, LaunchTypeOK, Content
  <2>2. /\ step \in ExternalNamed /\ step' \in {"write", "built"}
        /\ UNCHANGED <<field, overlay, witness, config, lock, procs, job, history, faults>>
    BY <1>3 DEF Evict, PublishBuild, To, ExternalNamed
  <2>3. ExternalTypeOK'
    BY <2>1, <2>2 DEF ExternalTypeOK, LaunchTypeOK, procs, history
  <2>4. ExternalJobInv' /\ GenInv'
    BY <2>2 DEF ExternalJobInv, GenInv, ConfigRoom, ExternalNamed
  <2>5. QED
    BY <2>3, <2>4
<1>4. CASE RunWriters
  <2>1. /\ job' = [job EXCEPT !.made = field.room] /\ step = "write" /\ step' = "publish"
        /\ UNCHANGED <<field, files, procs, history, faults>>
    BY <1>4 DEF RunWriters, To
  <2>2. job' \in Job /\ job'.made \in Room /\ UNCHANGED <<job.gen, job.slot, job.server,
        job.what, job.first, job.room>>
    BY <2>1 DEF ExternalTypeOK, LaunchTypeOK, Job
  <2>3. ExternalTypeOK'
    BY <2>1, <2>2 DEF ExternalTypeOK, LaunchTypeOK, files, procs, history
  <2>4. ExternalJobInv' /\ GenInv'
    BY <2>1, <2>2 DEF ExternalJobInv, GenInv, ConfigRoom, ExternalNamed, files
  <2>5. QED
    BY <2>3, <2>4
<1>5. CASE ReadRefused \/ PrepareRefused \/ BuildFails \/ Randomized
  BY <1>5, ExternalFailTyped DEF ReadRefused, PrepareRefused, BuildFails, Randomized
<1>6. QED
  BY <1>1, <1>2, <1>3, <1>4, <1>5 DEF PreparesSeed

LEMMA AppendGrows ==
  ASSUME NEW S, NEW s \in Seq(S), NEW e \in S
  PROVE  /\ Append(s, e) \in Seq(S)
         /\ Len(Append(s, e)) = Len(s) + 1
         /\ Len(s) \in Nat
         /\ \A i \in 1 .. Len(s) : Append(s, e)[i] = s[i]
         /\ Append(s, e)[Len(s) + 1] = e
OBVIOUS

LEMMA OneMoreUp ==
  ASSUME NEW n \in Nat, NEW S \in SUBSET (1 .. n)
  PROVE  S \cup {n + 1} \subseteq 1 .. n + 1
OBVIOUS

(* The last steps before a client runs. *)
LEMMA StartsTyped ==
  ASSUME ExternalTyped, WriteWitness \/ SpawnClient \/ LaunchFails \/ Refused, UNCHANGED packages
  PROVE  ExternalTyped'
<1> USE DEF ExternalTyped, packages
<1>1. CASE WriteWitness
  <2>1. step \in ExternalNamed
    BY <1>1 DEF WriteWitness, ExternalNamed
  <2>2. witness' \in [Room -> Content]
    BY <1>1, <2>1 DEF WriteWitness, ExternalJobInv, ExternalTypeOK, LaunchTypeOK, Content
  <2>3. /\ step' \in {"witnessed", "config"}
        /\ UNCHANGED <<field, cache, overlay, config, lock, procs, job, history, faults>>
    BY <1>1 DEF WriteWitness, To
  <2>4. ExternalTypeOK'
    BY <2>2, <2>3 DEF ExternalTypeOK, LaunchTypeOK, procs, history
  <2>5. ExternalJobInv' /\ GenInv'
    BY <2>1, <2>3 DEF ExternalJobInv, GenInv, ConfigRoom, ExternalNamed
  <2>6. QED
    BY <2>4, <2>5
<1>2. CASE SpawnClient
  <2> DEFINE c == [game |-> job.game, room |-> ConfigRoom, slot |-> job.slot,
                   server |-> job.server, gen |-> job.gen, alone |-> up \subseteq {job.game}]
  <2>1. c \in Login
    BY <1>2 DEF SpawnClient, ExternalJobInv, ExternalNamed, ExternalTypeOK, LaunchTypeOK, Job, Login
  <2>2. step' = "idle" /\ job' = NoJob /\ UNCHANGED <<field, files, boots, up, faults>>
    BY <1>2 DEF SpawnClient, Done
  <2>3. \/ UNCHANGED <<logins, open, spoke, waved>>
        \/ /\ Len(logins) < MaxLogins
           /\ logins' = Append(logins, c)
           /\ open' = open \cup {Len(logins')}
           /\ spoke' = [spoke EXCEPT ![job.server] = ConfigRoom]
           /\ waved' = waved \ {job.server}
    BY <1>2 DEF SpawnClient, history
  <2>4. /\ logins' \in Seq(Login) /\ Len(logins') <= MaxLogins
        /\ open' \subseteq 1 .. Len(logins')
        /\ spoke' \in [Server -> Room \cup {NoRoom}] /\ waved' \subseteq Server
    <3>1. CASE UNCHANGED <<logins, open, spoke, waved>>
      BY <3>1 DEF ExternalTypeOK, LaunchTypeOK
    <3>2. CASE ~UNCHANGED <<logins, open, spoke, waved>>
      <4>1. logins' = Append(logins, c) /\ Len(logins) < MaxLogins
            /\ open' = open \cup {Len(logins')} /\ waved' = waved \ {job.server}
            /\ spoke' = [spoke EXCEPT ![job.server] = ConfigRoom]
        BY <2>3, <3>2
      <4>2. logins \in Seq(Login) /\ open \subseteq 1 .. Len(logins) /\ waved \subseteq Server
            /\ spoke \in [Server -> Room \cup {NoRoom}]
        BY DEF ExternalTypeOK, LaunchTypeOK
      <4>3. logins' \in Seq(Login) /\ Len(logins') = Len(logins) + 1 /\ Len(logins) \in Nat
        BY <2>1, <4>1, <4>2, AppendGrows
      <4>4. spoke' \in [Server -> Room \cup {NoRoom}]
        BY <4>1, <4>2, <1>2 DEF SpawnClient, ExternalJobInv, ExternalNamed
      <4>5. MaxLogins \in Nat
        BY LaunchBounds
      <4>6. Len(logins') <= MaxLogins /\ open' \subseteq 1 .. Len(logins')
        <5>1. Len(logins) < MaxLogins /\ open' = open \cup {Len(logins) + 1}
          BY <4>1, <4>3
        <5>2. open \cup {Len(logins) + 1} \subseteq 1 .. Len(logins) + 1
          BY <4>2, <4>3, OneMoreUp
        <5>3. Len(logins) + 1 <= MaxLogins
          BY <5>1, <4>3, <4>5
        <5>4. QED
          BY <5>1, <5>2, <5>3, <4>3
      <4>7. QED
        BY <4>1, <4>2, <4>3, <4>4, <4>6
    <3>3. QED
      BY <3>1, <3>2
  <2>5. ExternalTypeOK'
    BY <2>2, <2>4, ExternalNoJobOK DEF ExternalTypeOK, LaunchTypeOK, files
  <2>6. ExternalJobInv' /\ GenInv'
    BY <2>2, ExternalNoJobOK DEF ExternalJobInv, GenInv, ExternalNamed, files, ExternalTypeOK
  <2>7. QED
    BY <2>5, <2>6
<1>3. CASE LaunchFails \/ Refused
  BY <1>3, ExternalFailTyped DEF LaunchFails, Refused
<1>4. QED
  BY <1>1, <1>2, <1>3

-----------------------------------------------------------------------------
LEMMA PublishesTyped == ASSUME ExternalTyped, Publishes PROVE ExternalTyped'
<1> USE DEF ExternalTyped
<1>1. CASE Stage
  <2>1. /\ job' = [job EXCEPT !.made = cache[job.room]] /\ cache[job.room] \in Room
        /\ step = "built" /\ step' = "stage"
        /\ UNCHANGED <<field, files, procs, history, faults, packages>>
    BY <1>1 DEF Stage, To
  <2>2. job' \in Job /\ job'.made \in Room /\ UNCHANGED <<job.gen, job.slot, job.server,
        job.what, job.first, job.room>>
    BY <2>1 DEF ExternalTypeOK, LaunchTypeOK, Job
  <2>3. ExternalTypeOK'
    BY <2>1, <2>2 DEF ExternalTypeOK, LaunchTypeOK, files, procs, history, packages
  <2>4. ExternalJobInv' /\ GenInv'
    BY <2>1, <2>2 DEF ExternalJobInv, GenInv, ConfigRoom, ExternalNamed, files, packages
  <2>5. QED
    BY <2>3, <2>4
<1>2. CASE WriteReceipt \/ Remove
  <2>1. step \in {"stage", "replace", "remove"} /\ step' \in {"replace", "remove"}
    BY <1>2 DEF WriteReceipt, Remove, To
  <2>2. job.room \in Room /\ job.made \in Room
    BY <2>1 DEF ExternalJobInv, ExternalNamed
  <2>3. /\ receipts' \subseteq [room : Room, made : Room]
        /\ pkg' \in [Room -> Content \cup {"edited"}]
    BY <1>2, <2>2 DEF WriteReceipt, Remove, NewReceipt, Receipt, ExternalTypeOK, Content
  <2>4. UNCHANGED <<field, files, procs, job, history, faults, seen, activations>>
    BY <1>2 DEF WriteReceipt, Remove
  <2>5. ExternalTypeOK'
    BY <2>3, <2>4 DEF ExternalTypeOK, LaunchTypeOK, files, procs, history
  <2>6. ExternalJobInv' /\ GenInv'
    BY <2>1, <2>4 DEF ExternalJobInv, GenInv, ConfigRoom, ExternalNamed, files
  <2>7. QED
    BY <2>5, <2>6
<1>3. CASE Publish
  <2>1. /\ step' = "idle" /\ job' = NoJob
        /\ UNCHANGED <<field, files, procs, history, faults, receipts, seen, activations>>
    BY <1>3 DEF Publish, Done
  <2>2. pkg' \in [Room -> Content \cup {"edited"}]
    BY <1>3 DEF Publish, ExternalJobInv, ExternalTypeOK, Content
  <2>3. ExternalTypeOK'
    BY <2>1, <2>2, ExternalNoJobOK DEF ExternalTypeOK, LaunchTypeOK, files, procs, history
  <2>4. ExternalJobInv' /\ GenInv'
    BY <2>1, ExternalNoJobOK DEF ExternalJobInv, GenInv, ExternalNamed, files, ExternalTypeOK
  <2>5. QED
    BY <2>3, <2>4
<1>4. CASE ExportFails
  BY <1>4, ExternalFailTyped DEF ExportFails
<1>5. QED
  BY <1>1, <1>2, <1>3, <1>4 DEF Publishes

LEMMA AttachesTyped == ASSUME ExternalTyped, Attaches PROVE ExternalTyped'
<1> USE DEF ExternalTyped
<1>1. CASE LookAtActivation \/ FindActivation
  <2> DEFINE g == job'.gen
  <2>1. /\ step = "read" /\ step' \in {"looked", "found"}
        /\ \E n \in {overlay.gen, seen[job.room].gen} : job' = [job EXCEPT !.gen = n]
        /\ job.what \in {"verify", "attach"}
        /\ UNCHANGED <<field, files, procs, history, faults, packages>>
    BY <1>1 DEF LookAtActivation, FindActivation, To
  <2>2. job.room \in Room /\ ConfigRoom \in Room
    BY <2>1 DEF ExternalJobInv, Selects
  <2>3. /\ overlay.gen \in Nat /\ seen[job.room].gen \in Nat
        /\ overlay.gen <= activations /\ seen[job.room].gen <= activations
    BY <2>2 DEF ExternalTypeOK, LaunchTypeOK, Overlays, GenInv
  <2>4. /\ job' \in Job /\ job'.room \in Room /\ job'.gen <= activations
        /\ UNCHANGED <<job.slot, job.server, job.what, job.first, job.room>>
    BY <2>1, <2>2, <2>3 DEF ExternalTypeOK, LaunchTypeOK, Job
  <2>5. ExternalTypeOK'
    BY <2>1, <2>4 DEF ExternalTypeOK, LaunchTypeOK, files, procs, history, packages
  <2>6. ExternalJobInv' /\ GenInv'
    BY <2>1, <2>2, <2>4 DEF ExternalJobInv, GenInv, ConfigRoom, ExternalNamed, files, packages
  <2>7. QED
    BY <2>5, <2>6
<1>2. CASE Observe
  <2>1. /\ step = "looked" /\ step' = "idle" /\ job' = NoJob
        /\ seen' = [seen EXCEPT ![job.room] = [gen |-> job.gen, boots |-> Len(boots)]]
        /\ UNCHANGED <<field, files, procs, history, faults, pkg, receipts, activations>>
    BY <1>2 DEF Observe, Done
  <2>2. job.gen \in 0 .. MaxActivations /\ Len(boots) \in 0 .. MaxBoots
    <3>1. job.gen \in Nat /\ job.gen <= activations /\ activations \in 0 .. MaxActivations
      BY DEF ExternalTypeOK, LaunchTypeOK, GenInv, Job
    <3>2. boots \in Seq(Overlays) /\ Len(boots) <= MaxBoots
      BY DEF ExternalTypeOK, LaunchTypeOK
    <3>3. Len(boots) \in Nat /\ MaxBoots \in Nat /\ MaxActivations \in Nat
      BY <3>2, LaunchBounds, SwitchesAssumption
    <3>4. Len(boots) \in 0 .. MaxBoots
      BY <3>2, <3>3
    <3>5. QED
      BY <3>1, <3>3, <3>4
  <2>3. seen' \in [Room -> [gen : 0 .. MaxActivations, boots : 0 .. MaxBoots]]
    BY <2>1, <2>2 DEF ExternalTypeOK
  <2>4. \A r \in Room : seen'[r].gen <= activations
    BY <2>1 DEF ExternalTypeOK, GenInv
  <2>5. ExternalTypeOK'
    BY <2>1, <2>3, ExternalNoJobOK DEF ExternalTypeOK, LaunchTypeOK, files, procs, history
  <2>6. ExternalJobInv' /\ GenInv'
    BY <2>1, <2>4, ExternalNoJobOK DEF ExternalJobInv, GenInv, ExternalNamed, files, ExternalTypeOK
  <2>7. QED
    BY <2>5, <2>6
<1>3. CASE FindGame
  <2>1. PICK h \in up : job' = [job EXCEPT !.game = h]
    BY <1>3 DEF FindGame
  <2>2. /\ step = "found" /\ step' = "again"
        /\ UNCHANGED <<field, files, procs, history, faults, packages>>
    BY <1>3 DEF FindGame, To
  <2>3. h \in Nat
    BY DEF ExternalTypeOK, LaunchTypeOK
  <2>4. job' \in Job /\ UNCHANGED <<job.gen, job.slot, job.server, job.what, job.first,
        job.room>>
    BY <2>1, <2>3 DEF ExternalTypeOK, LaunchTypeOK, Job
  <2>5. ExternalTypeOK'
    BY <2>2, <2>4 DEF ExternalTypeOK, LaunchTypeOK, files, procs, history, packages
  <2>6. ExternalJobInv' /\ GenInv'
    BY <2>2, <2>4 DEF ExternalJobInv, GenInv, ConfigRoom, ExternalNamed, files, packages
  <2>7. QED
    BY <2>5, <2>6
<1>4. CASE VerifyAgain
  <2>1. /\ step = "again" /\ step' = "witness"
        /\ job' = [job EXCEPT !.agreed = FALSE]
        /\ UNCHANGED <<field, cache, overlay, witness, config, procs, spoke, faults, packages>>
    BY <1>4 DEF VerifyAgain, To
  <2>2. /\ job.server \in Server /\ job.room \in Room
        /\ job' \in Job /\ UNCHANGED <<job.what, job.gen, job.slot, job.server, job.first, job.room>>
    BY <2>1 DEF ExternalJobInv, ExternalNamed, ExternalTypeOK, LaunchTypeOK, Job
  <2>3. lock' \in [Server -> Room \cup {NoRoom}] /\ waved' \subseteq Server
    BY <1>4, <2>2 DEF VerifyAgain, Remember, ExternalTypeOK, LaunchTypeOK
  <2>4. ExternalTypeOK'
    BY <2>1, <2>2, <2>3 DEF ExternalTypeOK, LaunchTypeOK, procs, packages
  <2>5. ExternalJobInv' /\ GenInv'
    BY <2>1, <2>2 DEF ExternalJobInv, GenInv, ConfigRoom, ExternalNamed, packages
  <2>6. QED
    BY <2>4, <2>5
<1>5. CASE WriteContract \/ FinalCheck
  <2>1. /\ step \in {"config", "final"} /\ step' \in {"final", "client"}
        /\ UNCHANGED <<field, cache, overlay, witness, lock, procs, job, history, faults, packages>>
    BY <1>5 DEF WriteContract, FinalCheck, To, files
  <2>2. job.what \in Logs
    BY <1>5 DEF WriteContract, FinalCheck, ExternalJobInv, Logs
  <2>3. job.room \in Room
    BY <2>1 DEF ExternalJobInv, ExternalNamed
  <2>4. config' \in [Room -> Room \cup {NoRoom}]
    BY <1>5, <2>3 DEF WriteContract, FinalCheck, files, ExternalTypeOK, LaunchTypeOK
  <2>5. ExternalTypeOK'
    BY <2>1, <2>4 DEF ExternalTypeOK, LaunchTypeOK, procs, history, packages
  <2>6. ExternalJobInv' /\ GenInv'
    BY <2>1, <2>2 DEF ExternalJobInv, GenInv, ConfigRoom, ExternalNamed, packages
  <2>7. QED
    BY <2>5, <2>6
<1>6. CASE ExternalRefuses
  BY <1>6, ExternalFailTyped DEF ExternalRefuses
<1>7. QED
  BY <1>1, <1>2, <1>3, <1>4, <1>5, <1>6 DEF Attaches

-----------------------------------------------------------------------------
(* BBLauncher, the player and the machine. *)
LEMMA ExternalBootTyped ==
  ASSUME LaunchTypeOK, Boot("hand")
  PROVE  /\ boots' \in Seq(Overlays) /\ Len(boots') <= MaxBoots
         /\ up' \subseteq 1 .. Len(boots')
<1>1. /\ boots \in Seq(Overlays) /\ overlay \in Overlays /\ up \subseteq 1 .. Len(boots)
      /\ Len(boots) < MaxBoots /\ boots' = Append(boots, overlay)
      /\ up' = up \cup {Len(boots')}
  BY DEF LaunchTypeOK, Boot
<1>2. boots' \in Seq(Overlays) /\ Len(boots') = Len(boots) + 1 /\ Len(boots) \in Nat
  BY <1>1, AppendGrows
<1>3. MaxBoots \in Nat
  BY LaunchBounds
<1>4. Len(boots) + 1 <= MaxBoots
  BY <1>1, <1>2, <1>3
<1>5. up \cup {Len(boots) + 1} \subseteq 1 .. Len(boots) + 1
  BY <1>1, <1>2, OneMoreUp
<1>6. QED
  BY <1>1, <1>2, <1>4, <1>5

LEMMA ExternalAroundTyped ==
  ASSUME ExternalTyped, EditFields \/ BootByHand \/ QuitGame \/ QuitClient \/ WorkerDies,
         UNCHANGED packages
  PROVE  ExternalTyped'
<1> USE DEF ExternalTyped, packages
<1>1. CASE EditFields
  BY <1>1 DEF EditFields, ExternalTypeOK, LaunchTypeOK, ExternalJobInv, GenInv, ConfigRoom,
     ExternalNamed, files, procs, history
<1>2. CASE BootByHand
  <2>1. /\ UNCHANGED <<field, files, step, history, faults, logins, open, job>>
        /\ boots' \in Seq(Overlays) /\ Len(boots') <= MaxBoots
        /\ up' \subseteq 1 .. Len(boots')
    BY <1>2, ExternalBootTyped DEF BootByHand, Boot, ExternalTypeOK
  <2>2. ExternalTypeOK'
    BY <2>1 DEF ExternalTypeOK, LaunchTypeOK, files, history
  <2>3. ExternalJobInv' /\ GenInv'
    BY <2>1 DEF ExternalJobInv, GenInv, ConfigRoom, ExternalNamed, files
  <2>4. QED
    BY <2>2, <2>3
<1>3. CASE QuitGame \/ QuitClient
  BY <1>3 DEF QuitGame, QuitClient, ExternalTypeOK, LaunchTypeOK, ExternalJobInv, GenInv,
     ConfigRoom, ExternalNamed, files, history
<1>4. CASE WorkerDies
  <2>1. faults' \in 0 .. MaxFaults
    BY <1>4, LaunchBounds DEF WorkerDies, ExternalTypeOK, LaunchTypeOK
  <2>2. step' = "idle" /\ job' = NoJob /\ UNCHANGED <<field, files, procs, history>>
    BY <1>4 DEF WorkerDies, Done
  <2>3. ExternalTypeOK'
    BY <2>1, <2>2, ExternalNoJobOK DEF ExternalTypeOK, LaunchTypeOK, files, procs, history
  <2>4. ExternalJobInv' /\ GenInv'
    BY <2>2, ExternalNoJobOK DEF ExternalJobInv, GenInv, ExternalNamed, files, ExternalTypeOK
  <2>5. QED
    BY <2>3, <2>4
<1>5. QED
  BY <1>1, <1>2, <1>3, <1>4

LEMMA PlayersTyped == ASSUME ExternalTyped, SwitchPackages \/ OwnPackage PROVE ExternalTyped'
<1> USE DEF ExternalTyped
<1>1. CASE SwitchPackages
  <2>1. /\ UNCHANGED <<field, cache, witness, config, lock, procs, step, job, history, faults,
                       pkg, receipts, seen>>
        /\ activations < MaxActivations /\ activations' = activations + 1
        /\ overlay' = Vanilla \/ \E r \in Room : overlay' = Activation(r)
    BY <1>1 DEF SwitchPackages
  <2>2. activations \in 0 .. MaxActivations /\ MaxActivations \in Nat
    BY SwitchesAssumption DEF ExternalTypeOK
  <2>3. activations' \in 0 .. MaxActivations
    BY <2>1, <2>2
  <2>4. overlay' \in Overlays /\ overlay'.gen <= activations'
    BY <2>1, <2>2 DEF Vanilla, Activation, Overlays
  <2>5. ExternalTypeOK'
    BY <2>1, <2>3, <2>4 DEF ExternalTypeOK, LaunchTypeOK, procs, history
  <2>6. ExternalJobInv'
    BY <2>1 DEF ExternalJobInv, ConfigRoom, ExternalNamed
  <2>7. job.gen \in Nat /\ \A r \in Room : seen[r].gen \in Nat
    BY DEF ExternalTypeOK, LaunchTypeOK, Job
  <2>8. GenInv'
    BY <2>1, <2>2, <2>4, <2>7 DEF GenInv
  <2>9. QED
    BY <2>5, <2>6, <2>8
<1>2. CASE OwnPackage
  <2>1. faults' \in 0 .. MaxFaults
    BY <1>2, LaunchBounds DEF OwnPackage, ExternalTypeOK, LaunchTypeOK
  <2>2. UNCHANGED <<field, files, procs, step, job, history, receipts, seen, activations>>
    BY <1>2 DEF OwnPackage
  <2>3. pkg' \in [Room -> Content \cup {"edited"}]
    BY <1>2 DEF OwnPackage, ExternalTypeOK
  <2>4. ExternalTypeOK'
    BY <2>1, <2>2, <2>3 DEF ExternalTypeOK, LaunchTypeOK, files, procs, history
  <2>5. ExternalJobInv' /\ GenInv'
    BY <2>2 DEF ExternalJobInv, GenInv, ConfigRoom, ExternalNamed, files
  <2>6. QED
    BY <2>4, <2>5
<1>3. QED
  BY <1>1, <1>2

LEMMA ExternalStutterTyped == ASSUME ExternalTyped, UNCHANGED externalVars PROVE ExternalTyped'
BY DEF ExternalTyped, externalVars, launchVars, ExternalTypeOK, LaunchTypeOK, ExternalJobInv,
   GenInv, ConfigRoom, ExternalNamed, files, procs, history, packages

LEMMA ExternalTypedStep == ExternalTyped /\ [ExternalNext]_externalVars => ExternalTyped'
<1> SUFFICES ASSUME ExternalTyped, [ExternalNext]_externalVars PROVE ExternalTyped'
  OBVIOUS
<1>1. CASE ExternalPresses
  BY <1>1, ExternalPressTyped, ExternalPressWithTyped DEF ExternalPresses, Selects
<1>2. CASE AsInLaunch
  BY <1>2, ExternalPreparesTyped, StartsTyped, ExternalAroundTyped DEF AsInLaunch
<1>3. QED
  BY <1>1, <1>2, PublishesTyped, AttachesTyped, PlayersTyped, ExternalStutterTyped DEF ExternalNext

(* Wherever the player, BBLauncher and the machine interfere, every         *)
(* variable of the window holds what the code can put there.                *)
THEOREM ExternalTypeCorrect == ExternalSpec => []ExternalTypeOK
BY ExternalTypedInit, ExternalTypedStep, PTL DEF ExternalSpec, ExternalTyped

-----------------------------------------------------------------------------
(* An export past its first check keeps what it is about to publish.        *)
LEMMA OthersDoNotPublish ==
  ASSUME ExternalPresses \/ AsInLaunch \/ Attaches \/ SwitchPackages \/ OwnPackage
         \/ UNCHANGED externalVars
  PROVE  /\ UNCHANGED receipts
         /\ step' \in {"stage", "replace", "remove"} => UNCHANGED <<step, job>>
<1>1. CASE ExternalPresses
  BY <1>1 DEF ExternalPresses, Press, PressWith, To, packages
<1>2. CASE AsInLaunch
  <2>1. CASE PreparesSeed
    BY <1>2, <2>1 DEF AsInLaunch, PreparesSeed, ReadRequest, ReadRefused, Prepare,
       PrepareRefused, Evict, RunWriters, PublishBuild, BuildFails, Randomized, Fail, Done,
       To, packages
  <2>2. CASE WriteWitness \/ SpawnClient \/ LaunchFails \/ Refused
    BY <1>2, <2>2 DEF AsInLaunch, WriteWitness, SpawnClient, LaunchFails, Refused, Fail,
       Done, To, packages
  <2>3. CASE EditFields \/ BootByHand \/ QuitGame \/ QuitClient \/ WorkerDies
    BY <1>2, <2>3 DEF AsInLaunch, EditFields, BootByHand, Boot, QuitGame, QuitClient,
       WorkerDies, Done, packages
  <2>4. QED
    BY <1>2, <2>1, <2>2, <2>3 DEF AsInLaunch
<1>3. CASE Attaches
  BY <1>3 DEF Attaches, LookAtActivation, Observe, FindActivation, FindGame, VerifyAgain,
     WriteContract, FinalCheck, ExternalRefuses, Fail, Done, To, packages
<1>4. CASE SwitchPackages \/ OwnPackage \/ UNCHANGED externalVars
  BY <1>4 DEF SwitchPackages, OwnPackage, externalVars, launchVars, packages
<1>5. QED
  BY <1>1, <1>2, <1>3, <1>4

LEMMA OthersKeepPackages ==
  ASSUME ExternalPresses \/ AsInLaunch \/ Attaches \/ SwitchPackages \/ UNCHANGED externalVars
  PROVE  UNCHANGED pkg
BY DEF ExternalPresses, PressWith, AsInLaunch, Attaches, LookAtActivation, Observe, FindActivation,
   FindGame, VerifyAgain, WriteContract, FinalCheck, ExternalRefuses, SwitchPackages,
   externalVars, launchVars, packages

(* The receipt of a package is there before the package.                    *)
ReceiptFirst == step \in {"replace", "remove"} => Receipt \in receipts

LEMMA ReceiptInit == ExternalInit => PackageHasReceipt /\ ReceiptFirst
BY RoomAssumption, EntryAssumption DEF ExternalInit, LaunchInit, PackageHasReceipt, ReceiptFirst

LEMMA ReceiptStep ==
  ExternalTyped /\ PackageHasReceipt /\ ReceiptFirst /\ [ExternalNext]_externalVars
    => PackageHasReceipt' /\ ReceiptFirst'
<1> SUFFICES ASSUME ExternalTyped, PackageHasReceipt, ReceiptFirst, [ExternalNext]_externalVars
             PROVE  PackageHasReceipt' /\ ReceiptFirst'
  OBVIOUS
<1> USE DEF PackageHasReceipt, ReceiptFirst, Receipt
<1>1. CASE ExternalPresses \/ AsInLaunch \/ Attaches \/ SwitchPackages \/ UNCHANGED externalVars
  BY <1>1, OthersDoNotPublish, OthersKeepPackages
<1>2. CASE OwnPackage
  <2>1. \A r \in Room : pkg'[r] \in Room => pkg'[r] = pkg[r]
    BY <1>2, RoomAssumption, EntryAssumption DEF OwnPackage, ExternalTyped, ExternalTypeOK
  <2>2. QED
    BY <1>2, <2>1, OthersDoNotPublish
<1>3. CASE Stage
  BY <1>3 DEF Stage, To, packages
<1>4. CASE WriteReceipt
  BY <1>4 DEF WriteReceipt, NewReceipt, To
<1>5. CASE Remove
  <2>1. \A r \in Room : pkg'[r] \in Room => pkg'[r] = pkg[r]
    BY <1>5, RoomAssumption, EntryAssumption DEF Remove, ExternalTyped, ExternalTypeOK
  <2>2. QED
    BY <1>5, <2>1 DEF Remove, To
<1>6. CASE Publish
  <2>1. pkg \in [Room -> Content \cup {"edited"}]
    BY DEF ExternalTyped, ExternalTypeOK
  <2>2. QED
    BY <1>6, <2>1 DEF Publish, Done
<1>7. CASE ExportFails
  BY <1>7 DEF ExportFails, Fail, Done, packages
<1>8. QED
  BY <1>1, <1>2, <1>3, <1>4, <1>5, <1>6, <1>7 DEF ExternalNext, Publishes

(* A package of ours has its receipt wherever an export was killed.         *)
THEOREM PackageReceipt == ExternalSpec => []PackageHasReceipt
BY ExternalTypedInit, ExternalTypedStep, ReceiptInit, ReceiptStep, PTL DEF ExternalSpec

-----------------------------------------------------------------------------
(* What is being removed was ours, or the player agreed.                    *)
RemovesOurs == step = "remove" => job.agreed \/ pkg[job.room] # "edited"

LEMMA ReplacesOurs ==
  ASSUME ExternalTyped, step = "replace", MayReplace, pkg[job.room] = "edited"
  PROVE  job.agreed
<1>1. job.made \in Room /\ "edited" \notin Room
  BY RoomAssumption, EntryAssumption DEF ExternalTyped, ExternalJobInv
<1>2. QED
  BY <1>1 DEF MayReplace

LEMMA RemovesStep ==
  ASSUME "remove" \notin PackageAt, ExternalTyped, RemovesOurs, [ExternalNext]_externalVars
  PROVE  /\ RemovesOurs'
         /\ [\A r \in Room :
               pkg[r] = "edited" /\ pkg'[r] # "edited" => job.agreed]_externalVars
<1> USE DEF RemovesOurs
<1>1. CASE ExternalPresses \/ AsInLaunch \/ Attaches \/ SwitchPackages \/ UNCHANGED externalVars
  BY <1>1, OthersDoNotPublish, OthersKeepPackages
<1>2. CASE OwnPackage
  BY <1>2 DEF OwnPackage, ExternalTyped, ExternalTypeOK
<1>3. CASE Stage \/ WriteReceipt \/ ExportFails
  BY <1>3 DEF Stage, WriteReceipt, ExportFails, Fail, Done, To, packages
<1>4. CASE Remove
  <2>1. job.room \in Room /\ pkg \in [Room -> Content \cup {"edited"}]
    BY <1>4 DEF Remove, ExternalTyped, ExternalTypeOK, ExternalJobInv, ExternalNamed
  <2>2. CASE step = "replace"
    <3>1. /\ MayReplace /\ pkg' = [pkg EXCEPT ![job.room] = "broken"] /\ UNCHANGED job
      BY <1>4, <2>2 DEF Remove, StillReplaceable
    <3>2. QED
      BY <2>1, <2>2, <3>1, ReplacesOurs
  <2>3. CASE step = "remove"
    BY <1>4, <2>1, <2>3 DEF Remove, To
  <2>4. QED
    BY <1>4, <2>2, <2>3 DEF Remove
<1>5. CASE Publish
  BY <1>5 DEF Publish, Done, ExternalTyped, ExternalTypeOK
<1>6. QED
  BY <1>1, <1>2, <1>3, <1>4, <1>5 DEF ExternalNext, Publishes

(* If nobody puts a package where one is being removed, what the player put *)
(* there goes only with his consent, whatever he changed since the first    *)
(* look.                                                                    *)
THEOREM EditedKept ==
  ASSUME "remove" \notin PackageAt
  PROVE  ExternalSpec => EditedIsKept
<1>1. ExternalInit => RemovesOurs
  BY DEF ExternalInit, LaunchInit, RemovesOurs
<1>2. ExternalTyped /\ RemovesOurs /\ [ExternalNext]_externalVars =>
        /\ RemovesOurs'
        /\ [\A r \in Room :
              pkg[r] = "edited" /\ pkg'[r] # "edited" => job.agreed]_externalVars
  BY RemovesStep
<1>3. QED
  BY <1>1, <1>2, ExternalTypedInit, ExternalTypedStep, PTL DEF ExternalSpec, EditedIsKept

-----------------------------------------------------------------------------
(* While the activation that was observed is the current one, every game    *)
(* booted since the observation has loaded it.                              *)
SeenInv ==
  \A r \in Room :
    seen[r].gen > 0 /\ overlay.gen = seen[r].gen =>
      \A i \in seen[r].boots + 1 .. Len(boots) : boots[i].gen = seen[r].gen

(* The steps of an attach that follow its second verification.              *)
Attached == {"witness", "witnessed", "config", "final", "client"}

LoadedIt(game, gen) == game \in 1 .. Len(boots) /\ boots[game].gen = gen

(* A call that remembers an activation is a verification or an attach.      *)
PathInv ==
  job.gen > 0 =>
    /\ step \in {"looked", "found", "again"} \cup Attached
    /\ step \in {"found", "again"} => job.gen = seen[job.room].gen
    /\ step = "again" => job.game \in seen[job.room].boots + 1 .. Len(boots)
    /\ step \in Attached => LoadedIt(job.game, job.gen)

LoginInv ==
  \A i \in 1 .. Len(logins) :
    logins[i].gen > 0 => LoadedIt(logins[i].game, logins[i].gen)

BootInv == SeenInv /\ PathInv /\ LoginInv

LEMMA BootInit == ExternalInit => BootInv
BY ExternalNoJobOK DEF ExternalInit, LaunchInit, BootInv, SeenInv, PathInv, LoginInv, NeverSeen

(* What neither boots, nor switches, nor observes, nor starts a client      *)
(* concerns the call alone.                                                 *)
LEMMA BootFrame ==
  ASSUME BootInv, UNCHANGED <<overlay, boots, logins, seen>>, PathInv'
  PROVE  BootInv'
BY DEF BootInv, SeenInv, LoginInv, LoadedIt

LEMMA BootOfCalls ==
  ASSUME ExternalTyped, BootInv,
         ExternalPresses \/ (PreparesSeed /\ UNCHANGED packages) \/ Publishes
  PROVE  BootInv'
<1>1. UNCHANGED <<overlay, boots, logins, seen>>
  BY DEF ExternalPresses, Press, PressWith, PreparesSeed, ReadRequest, ReadRefused, Prepare,
     PrepareRefused, Evict, RunWriters, PublishBuild, BuildFails, Randomized, Publishes,
     Stage, WriteReceipt, Remove, Publish, ExportFails, Fail, files, procs, packages
<1>2. job'.gen = 0 \/ (job.gen = job'.gen /\ step \notin {"looked", "found", "again"} \cup Attached)
  <2>1. CASE ExternalPresses
    BY <2>1, ExternalNoJobOK DEF ExternalPresses, Press, PressWith, NoJob
  <2>2. CASE PreparesSeed
    BY <2>2, ExternalNoJobOK DEF PreparesSeed, ReadRequest, ReadRefused, Prepare,
       PrepareRefused, Evict, RunWriters, PublishBuild, BuildFails, Randomized, Fail, Done,
       Attached, ExternalTyped, ExternalTypeOK, LaunchTypeOK, Job
  <2>3. CASE Publishes
    BY <2>3, ExternalNoJobOK DEF Publishes, Stage, WriteReceipt, Remove, Publish, ExportFails, Fail,
       Done, Attached, ExternalTyped, ExternalTypeOK, LaunchTypeOK, Job
  <2>4. QED
    BY <2>1, <2>2, <2>3
<1>3. PathInv'
  BY <1>2 DEF BootInv, PathInv
<1>4. QED
  BY <1>1, <1>3, BootFrame

LEMMA BootOfStart ==
  ASSUME ExternalTyped, BootInv, WriteWitness \/ SpawnClient \/ LaunchFails \/ Refused,
         UNCHANGED packages
  PROVE  BootInv'
<1>1. CASE WriteWitness \/ LaunchFails \/ Refused
  <2>1. UNCHANGED <<overlay, boots, logins, seen>>
    BY <1>1 DEF WriteWitness, LaunchFails, Refused, Fail, files, procs, packages
  <2>2. job'.gen = 0 \/ (UNCHANGED job /\ {step, step'} \subseteq {"witness", "witnessed", "config"})
    BY <1>1, ExternalNoJobOK DEF WriteWitness, LaunchFails, Refused, Fail, Done, To
  <2>3. PathInv'
    BY <2>1, <2>2 DEF BootInv, PathInv, Attached, LoadedIt
  <2>4. QED
    BY <2>1, <2>3, BootFrame
<1>2. CASE SpawnClient
  <2> DEFINE c == [game |-> job.game, room |-> ConfigRoom, slot |-> job.slot,
                   server |-> job.server, gen |-> job.gen, alone |-> up \subseteq {job.game}]
  <2>1. /\ step = "client" /\ job' = NoJob /\ UNCHANGED <<overlay, boots, seen>>
        /\ UNCHANGED logins \/ logins' = Append(logins, c)
    BY <1>2 DEF SpawnClient, Done, files, packages
  <2>2. PathInv'
    BY <2>1, ExternalNoJobOK DEF PathInv
  <2>3. c.gen > 0 => LoadedIt(c.game, c.gen)
    BY <2>1 DEF BootInv, PathInv, Attached
  <2>4. c \in Login /\ logins \in Seq(Login)
    BY <2>1 DEF ExternalTyped, ExternalJobInv, ExternalNamed, ExternalTypeOK, LaunchTypeOK,
       Job, Login
  <2>5. LoginInv'
    <3>1. CASE UNCHANGED logins
      BY <2>1, <3>1 DEF BootInv, LoginInv, LoadedIt
    <3>2. CASE logins' = Append(logins, c)
      <4> HIDE DEF c
      <4>1. \A i \in 1 .. Len(logins') : logins'[i] = c \/ (i \in 1 .. Len(logins) /\ logins'[i] = logins[i])
        BY <2>4, <3>2, AppendGrows
      <4>2. \A i \in 1 .. Len(logins') :
              logins'[i].gen > 0 => LoadedIt(logins'[i].game, logins'[i].gen)
        BY <2>3, <4>1 DEF BootInv, LoginInv
      <4>3. QED
        BY <2>1, <4>2 DEF LoginInv, LoadedIt
    <3>3. QED
      BY <2>1, <3>1, <3>2
  <2>6. SeenInv'
    BY <2>1 DEF BootInv, SeenInv
  <2>7. QED
    BY <2>2, <2>5, <2>6 DEF BootInv
<1>3. QED
  BY <1>1, <1>2

LEMMA BootOfAttach == ASSUME ExternalTyped, BootInv, Attaches PROVE BootInv'
<1>1. CASE LookAtActivation \/ FindActivation
  <2>1. UNCHANGED <<overlay, boots, logins, seen>>
    BY <1>1 DEF LookAtActivation, FindActivation, files, procs, packages
  <2>2. \/ step' = "looked"
        \/ step' = "found" /\ job' = [job EXCEPT !.gen = seen[job.room].gen]
    BY <1>1 DEF LookAtActivation, FindActivation, To
  <2>3. step' = "found" => job'.gen = seen[job'.room].gen
    BY <2>2 DEF ExternalTyped, ExternalTypeOK, LaunchTypeOK, Job
  <2>4. PathInv'
    BY <2>1, <2>2, <2>3 DEF PathInv, Attached
  <2>5. QED
    BY <2>1, <2>4, BootFrame
<1>2. CASE Observe
  <2>1. /\ step = "looked" /\ job' = NoJob /\ UNCHANGED <<overlay, boots, logins>>
        /\ seen' = [seen EXCEPT ![job.room] = [gen |-> job.gen, boots |-> Len(boots)]]
    BY <1>2 DEF Observe, Done, files, procs
  <2>2. \A r \in Room : seen'[r] = seen[r] \/ seen'[r].boots = Len(boots)
    BY <2>1 DEF ExternalTyped, ExternalTypeOK
  <2>3. Len(boots) \in Nat
    BY DEF ExternalTyped, ExternalTypeOK, LaunchTypeOK
  <2>4. SeenInv'
    BY <2>1, <2>2, <2>3 DEF BootInv, SeenInv
  <2>5. PathInv' /\ LoginInv'
    BY <2>1, ExternalNoJobOK DEF BootInv, PathInv, LoginInv, LoadedIt
  <2>6. QED
    BY <2>4, <2>5 DEF BootInv
<1>3. CASE FindGame
  <2>1. PICK h \in up : h > seen[job.room].boots /\ job' = [job EXCEPT !.game = h]
    BY <1>3 DEF FindGame
  <2>2. step = "found" /\ step' = "again" /\ UNCHANGED <<overlay, boots, logins, seen>>
    BY <1>3 DEF FindGame, To, files, procs, packages
  <2>3. job'.game = h /\ job'.room = job.room /\ job'.gen = job.gen /\ job.room \in Room
    BY <2>1, <2>2 DEF ExternalTyped, ExternalJobInv, ExternalNamed, ExternalTypeOK,
       LaunchTypeOK, Job
  <2>4. h \in 1 .. Len(boots) /\ Len(boots) \in Nat /\ seen[job.room].boots \in Nat
    BY <2>3 DEF ExternalTyped, ExternalTypeOK, LaunchTypeOK
  <2>5. PathInv'
    BY <2>1, <2>2, <2>3, <2>4 DEF BootInv, PathInv, Attached
  <2>6. QED
    BY <2>2, <2>5, BootFrame
<1>4. CASE VerifyAgain
  <2>1. /\ step = "again" /\ step' = "witness"
        /\ job \in Job /\ job' = [job EXCEPT !.agreed = FALSE]
        /\ overlay.gen = job.gen /\ overlay.gen > 0
        /\ UNCHANGED <<overlay, boots, logins, seen>>
    BY <1>4 DEF VerifyAgain, SameActivation, Verifies, To, procs, packages, ExternalTyped,
       ExternalTypeOK, LaunchTypeOK
  <2>2. job.gen = seen[job.room].gen /\ job.game \in seen[job.room].boots + 1 .. Len(boots)
    BY <2>1 DEF BootInv, PathInv
  <2>3. job.room \in Room /\ seen[job.room].boots \in Nat /\ Len(boots) \in Nat
    BY <2>1 DEF ExternalTyped, ExternalJobInv, ExternalNamed, ExternalTypeOK, LaunchTypeOK
  <2>4. boots[job.game].gen = job.gen
    BY <2>1, <2>2, <2>3 DEF BootInv, SeenInv
  <2>5. job.game \in 1 .. Len(boots) /\ UNCHANGED <<job.gen, job.game, job.room>>
    BY <2>1, <2>2, <2>3 DEF Job
  <2>6. PathInv'
    BY <2>1, <2>4, <2>5 DEF PathInv, Attached, LoadedIt
  <2>7. QED
    BY <2>1, <2>6, BootFrame
<1>5. CASE WriteContract \/ FinalCheck \/ ExternalRefuses
  <2>1. UNCHANGED <<overlay, boots, logins, seen>>
    BY <1>5 DEF WriteContract, FinalCheck, ExternalRefuses, Fail, files, procs, packages
  <2>2. job'.gen = 0 \/ (UNCHANGED job /\ {step, step'} \subseteq {"config", "final", "client"})
    BY <1>5, ExternalNoJobOK DEF WriteContract, FinalCheck, ExternalRefuses, Fail, Done, To
  <2>3. PathInv'
    BY <2>1, <2>2 DEF BootInv, PathInv, Attached, LoadedIt
  <2>4. QED
    BY <2>1, <2>3, BootFrame
<1>6. QED
  BY <1>1, <1>2, <1>3, <1>4, <1>5 DEF Attaches

(* A boot loads the current activation and leaves what others loaded.       *)
LEMMA BootOfGame ==
  ASSUME ExternalTyped, BootInv, BootByHand, UNCHANGED packages
  PROVE  BootInv'
<1>1. /\ UNCHANGED <<overlay, logins, seen, step, job>>
      /\ boots' = Append(boots, overlay)
  BY DEF BootByHand, Boot, files, packages
<1>2. boots \in Seq(Overlays) /\ overlay \in Overlays
  BY DEF ExternalTyped, ExternalTypeOK, LaunchTypeOK
<1>3. /\ Len(boots') = Len(boots) + 1 /\ Len(boots) \in Nat
      /\ \A i \in 1 .. Len(boots) : boots'[i] = boots[i]
      /\ boots'[Len(boots) + 1] = overlay
  BY <1>1, <1>2, AppendGrows
<1>4. \A game, gen : LoadedIt(game, gen) => LoadedIt(game, gen)'
  BY <1>3 DEF LoadedIt
<1>5. \A r \in Room : seen[r].boots \in Nat
  BY DEF ExternalTyped, ExternalTypeOK
<1>6. SeenInv'
  <2> SUFFICES ASSUME NEW r \in Room, seen[r].gen > 0, overlay.gen = seen[r].gen,
                      NEW i \in seen[r].boots + 1 .. Len(boots')
               PROVE  boots'[i].gen = seen[r].gen
    BY <1>1 DEF SeenInv
  <2>1. i \in seen[r].boots + 1 .. Len(boots) \/ i = Len(boots) + 1
    BY <1>3, <1>5
  <2>2. CASE i \in seen[r].boots + 1 .. Len(boots)
    <3>1. i \in 1 .. Len(boots)
      BY <2>2, <1>3, <1>5
    <3>2. QED
      BY <2>2, <3>1, <1>3 DEF BootInv, SeenInv
  <2>3. QED
    BY <2>1, <2>2, <1>3
<1>7. PathInv'
  <2>1. \A n \in Nat : n + 1 .. Len(boots) \subseteq n + 1 .. Len(boots')
    BY <1>3
  <2>2. step = "again" => job.room \in Room
    BY DEF ExternalTyped, ExternalJobInv, ExternalNamed
  <2>3. QED
    BY <1>1, <1>4, <1>5, <2>1, <2>2 DEF BootInv, PathInv
<1>8. LoginInv'
  BY <1>1, <1>4 DEF BootInv, LoginInv
<1>9. QED
  BY <1>6, <1>7, <1>8 DEF BootInv

LEMMA BootOfWorld ==
  ASSUME ExternalTyped, BootInv,
         \/ (EditFields \/ QuitGame \/ QuitClient \/ WorkerDies) /\ UNCHANGED packages
         \/ OwnPackage
         \/ UNCHANGED externalVars
  PROVE  BootInv'
<1>1. UNCHANGED <<overlay, boots, logins, seen>>
  BY DEF EditFields, QuitGame, QuitClient, WorkerDies, OwnPackage, externalVars, launchVars,
     files, procs, packages
<1>2. job'.gen = 0 \/ UNCHANGED <<job, step>>
  BY ExternalNoJobOK DEF EditFields, QuitGame, QuitClient, WorkerDies, OwnPackage, Done,
     externalVars, launchVars
<1>3. PathInv'
  BY <1>1, <1>2 DEF BootInv, PathInv, LoadedIt
<1>4. QED
  BY <1>1, <1>3, BootFrame

(* What BBLauncher activates is none of what was seen before.               *)
LEMMA BootOfSwitch == ASSUME ExternalTyped, BootInv, SwitchPackages PROVE BootInv'
<1>1. /\ UNCHANGED <<boots, logins, seen, step, job>>
      /\ overlay' = Vanilla \/ \E r \in Room : overlay' = Activation(r)
  BY DEF SwitchPackages, procs
<1>2. overlay'.gen \in {0, activations + 1}
  BY <1>1 DEF Vanilla, Activation
<1>3. \A r \in Room : seen[r].gen \in Nat /\ seen[r].gen <= activations
  BY DEF ExternalTyped, ExternalTypeOK, GenInv
<1>4. activations \in Nat
  BY DEF ExternalTyped, ExternalTypeOK
<1>5. SeenInv'
  BY <1>1, <1>2, <1>3, <1>4 DEF SeenInv
<1>6. PathInv' /\ LoginInv'
  BY <1>1 DEF BootInv, PathInv, LoginInv, LoadedIt
<1>7. QED
  BY <1>5, <1>6 DEF BootInv

LEMMA BootStep == ExternalTyped /\ BootInv /\ [ExternalNext]_externalVars => BootInv'
<1> SUFFICES ASSUME ExternalTyped, BootInv, [ExternalNext]_externalVars PROVE BootInv'
  OBVIOUS
<1>1. CASE AsInLaunch
  <2>1. CASE PreparesSeed
    BY <1>1, <2>1, BootOfCalls DEF AsInLaunch
  <2>2. CASE WriteWitness \/ SpawnClient \/ LaunchFails \/ Refused
    BY <1>1, <2>2, BootOfStart DEF AsInLaunch
  <2>3. CASE BootByHand
    BY <1>1, <2>3, BootOfGame DEF AsInLaunch
  <2>4. CASE EditFields \/ QuitGame \/ QuitClient \/ WorkerDies
    BY <1>1, <2>4, BootOfWorld DEF AsInLaunch
  <2>5. QED
    BY <1>1, <2>1, <2>2, <2>3, <2>4 DEF AsInLaunch
<1>2. CASE ExternalPresses \/ Publishes
  BY <1>2, BootOfCalls
<1>3. CASE Attaches
  BY <1>3, BootOfAttach
<1>4. CASE SwitchPackages
  BY <1>4, BootOfSwitch
<1>5. CASE OwnPackage \/ UNCHANGED externalVars
  BY <1>5, BootOfWorld
<1>6. QED
  BY <1>1, <1>2, <1>3, <1>4, <1>5 DEF ExternalNext

(* A client is attached only to a game that loaded the very activation      *)
(* verified before that game was booted, however often BBLauncher switched. *)
THEOREM AttachedBoot == ExternalSpec => []AttachedToVerifiedBoot
<1>1. BootInv => AttachedToVerifiedBoot
  BY DEF BootInv, LoginInv, LoadedIt, AttachedToVerifiedBoot
<1>2. QED
  BY <1>1, ExternalTypedInit, ExternalTypedStep, BootInit, BootStep, PTL DEF ExternalSpec

-----------------------------------------------------------------------------
(* The cache, the receipts and what they are true of *)

(* The request stays as it is while the writers run for the key that was    *)
(* computed from it.                                                        *)
ExportedAsWritten == EditAt \cap {"evict", "write"} = {}

(* What was built, and what is being exported, was made from its room.      *)
ExternalCacheInv ==
  /\ CacheIsTrue
  /\ step \in {"evict", "write"} => field.room = job.room
  /\ step = "publish" => job.made = job.room
  /\ \A p \in receipts : p.made = p.room
  /\ step \in {"stage", "replace", "remove"} => job.made = job.room

Building == {"evict", "write", "publish", "stage", "replace", "remove"}

(* A step that builds and exports nothing.                                  *)
LEMMA ExternalCacheUntouched ==
  ASSUME ExternalCacheInv, UNCHANGED <<cache, receipts>>,
         \/ step' \notin Building
         \/ UNCHANGED <<step, job>> /\ (field' = field \/ step \notin {"evict", "write"})
  PROVE  ExternalCacheInv'
BY DEF ExternalCacheInv, CacheIsTrue, Building

LEMMA ExternalFailStep ==
  ASSUME NEW from, Fail(from)
  PROVE  /\ step \in from /\ step' = "idle" /\ job' = NoJob
         /\ UNCHANGED <<field, files, procs, history, faults>>
BY DEF Fail, Done

(* An entry that is changed is emptied, damaged or made from its own room.  *)
LEMMA ExternalEntryChanged ==
  ASSUME CacheIsTrue, cache \in [Room -> Content], NEW r \in Room,
         NEW c \in {r, "missing", "broken"}, cache' = [cache EXCEPT ![r] = c]
  PROVE  CacheIsTrue'
BY RoomAssumption, EntryAssumption DEF CacheIsTrue

LEMMA ExternalPreparesCache ==
  ASSUME ExternalTyped, ExternalCacheInv, PreparesSeed, UNCHANGED packages PROVE ExternalCacheInv'
<1>0. /\ cache \in [Room -> Content] /\ field.room \in Room /\ job \in Job /\ CacheIsTrue
      /\ UNCHANGED receipts /\ \A p \in receipts : p.made = p.room
  BY DEF ExternalTyped, ExternalTypeOK, LaunchTypeOK, ExternalCacheInv, packages
<1>1. CASE ReadRequest
  BY <1>0, <1>1, ExternalCacheUntouched DEF ReadRequest, To, Building
<1>2. CASE Prepare
  <2>1. /\ job' = [job EXCEPT !.room = field.room, !.rebuild = FALSE] /\ UNCHANGED field
        /\ step' \in {"write", "evict", "built"}
        /\ cache' \in {cache, [cache EXCEPT ![field.room] = "broken"]}
    BY <1>2 DEF Prepare, KeyRoom, To
  <2>2. job'.room = field'.room
    BY <1>0, <2>1 DEF Job
  <2>3. CacheIsTrue'
    BY <1>0, <2>1, ExternalEntryChanged DEF CacheIsTrue
  <2>4. QED
    BY <1>0, <2>1, <2>2, <2>3 DEF ExternalCacheInv
<1>3. CASE Evict
  <2>1. /\ step = "evict" /\ step' = "write" /\ UNCHANGED <<field, job>> /\ job.room \in Room
        /\ cache' = [cache EXCEPT ![job.room] = "missing"]
    BY <1>3 DEF Evict, To, ExternalTyped, ExternalJobInv, ExternalNamed
  <2>2. CacheIsTrue'
    BY <1>0, <2>1, ExternalEntryChanged
  <2>3. QED
    BY <1>0, <2>1, <2>2 DEF ExternalCacheInv
<1>4. CASE RunWriters
  <2>1. /\ step = "write" /\ step' = "publish" /\ UNCHANGED <<field, cache>>
        /\ job' = [job EXCEPT !.made = field.room]
    BY <1>4 DEF RunWriters, To, files
  <2>2. job'.made = field.room /\ job'.room = job.room
    BY <1>0, <2>1 DEF Job
  <2>3. QED
    BY <1>0, <2>1, <2>2 DEF ExternalCacheInv, CacheIsTrue
<1>5. CASE PublishBuild
  <2>1. /\ step = "publish" /\ step' = "built" /\ job.room \in Room /\ job.made = job.room
        /\ cache' = [cache EXCEPT ![job.room] = job.made]
    BY <1>5 DEF PublishBuild, To, ExternalTyped, ExternalJobInv, ExternalNamed, ExternalCacheInv
  <2>2. CacheIsTrue'
    BY <1>0, <2>1, ExternalEntryChanged
  <2>3. QED
    BY <1>0, <2>1, <2>2 DEF ExternalCacheInv
<1>6. CASE ReadRefused \/ PrepareRefused \/ BuildFails \/ Randomized
  <2>1. step' = "idle" /\ UNCHANGED cache
    BY <1>6, ExternalFailStep DEF ReadRefused, PrepareRefused, BuildFails, Randomized, files
  <2>2. QED
    BY <1>0, <2>1, ExternalCacheUntouched DEF Building
<1>7. QED
  BY <1>1, <1>2, <1>3, <1>4, <1>5, <1>6 DEF PreparesSeed

LEMMA PublishesCache == ASSUME ExternalTyped, ExternalCacheInv, Publishes PROVE ExternalCacheInv'
<1>0. job \in Job
  BY DEF ExternalTyped, ExternalTypeOK, LaunchTypeOK
<1>1. CASE Stage
  <2>1. /\ step = "built" /\ step' = "stage" /\ cache[job.room] \in Room
        /\ job' = [job EXCEPT !.made = cache[job.room]] /\ UNCHANGED <<cache, receipts>>
    BY <1>1 DEF Stage, To, files, packages
  <2>2. job.room \in Room
    BY <2>1 DEF ExternalTyped, ExternalJobInv, ExternalNamed
  <2>3. job'.made = job'.room
    BY <1>0, <2>1, <2>2 DEF ExternalCacheInv, CacheIsTrue, Job
  <2>4. QED
    BY <2>1, <2>3 DEF ExternalCacheInv, CacheIsTrue
<1>2. CASE WriteReceipt
  <2>1. /\ step = "stage" /\ step' = "replace" /\ UNCHANGED <<job, cache>>
        /\ receipts' = receipts \cup {[room |-> job.room, made |-> job.made]}
    BY <1>2 DEF WriteReceipt, NewReceipt, Receipt, To, files
  <2>2. job.made = job.room
    BY <2>1 DEF ExternalCacheInv
  <2>3. QED
    BY <2>1, <2>2 DEF ExternalCacheInv, CacheIsTrue
<1>3. CASE Remove
  <2>1. /\ step \in {"replace", "remove"} /\ step' \in {"replace", "remove"}
        /\ UNCHANGED <<job, cache, receipts>>
    BY <1>3 DEF Remove, To, files
  <2>2. QED
    BY <2>1 DEF ExternalCacheInv, CacheIsTrue
<1>4. CASE Publish \/ ExportFails
  <2>1. step' = "idle" /\ UNCHANGED <<cache, receipts>>
    BY <1>4, ExternalFailStep DEF Publish, ExportFails, Done, files, packages
  <2>2. QED
    BY <2>1, ExternalCacheUntouched DEF Building
<1>5. QED
  BY <1>1, <1>2, <1>3, <1>4 DEF Publishes

LEMMA CacheStep ==
  ASSUME ExportedAsWritten, ExternalTyped, ExternalCacheInv, [ExternalNext]_externalVars
  PROVE  ExternalCacheInv'
<1>1. CASE ExternalPresses
  BY <1>1, ExternalCacheUntouched DEF ExternalPresses, Press, PressWith, To, files, packages,
     Building
<1>2. CASE AsInLaunch
  <2>0. UNCHANGED receipts
    BY <1>2 DEF AsInLaunch, packages
  <2>1. CASE PreparesSeed
    BY <1>2, <2>1, ExternalPreparesCache DEF AsInLaunch
  <2>2. CASE WriteWitness \/ SpawnClient \/ LaunchFails \/ Refused \/ WorkerDies
    <3>1. step' \in {"witnessed", "config", "idle"} /\ UNCHANGED cache
      BY <2>2, ExternalFailStep
         DEF WriteWitness, SpawnClient, LaunchFails, Refused, WorkerDies, Done, To, files
    <3>2. QED
      BY <2>0, <3>1, ExternalCacheUntouched DEF Building
  <2>3. CASE EditFields
    BY <2>0, <2>3, ExternalCacheUntouched DEF EditFields, ExportedAsWritten, files
  <2>4. CASE BootByHand \/ QuitGame \/ QuitClient
    <3>1. UNCHANGED <<step, job, field, cache>>
      BY <2>4 DEF BootByHand, Boot, QuitGame, QuitClient, files
    <3>2. QED
      BY <2>0, <3>1, ExternalCacheUntouched
  <2>5. QED
    BY <1>2, <2>1, <2>2, <2>3, <2>4 DEF AsInLaunch
<1>3. CASE Attaches
  <2>1. UNCHANGED cache
    BY <1>3 DEF Attaches, LookAtActivation, Observe, FindActivation, FindGame, VerifyAgain,
                WriteContract, FinalCheck, ExternalRefuses, Fail, files
  <2>2. step' \notin Building
    BY <1>3 DEF Attaches, LookAtActivation, Observe, FindActivation, FindGame, VerifyAgain,
                WriteContract, FinalCheck, ExternalRefuses, Fail, To, Done, Building
  <2>3. QED
    BY <1>3, <2>1, <2>2, ExternalCacheUntouched, OthersDoNotPublish
<1>4. CASE SwitchPackages \/ OwnPackage \/ UNCHANGED externalVars
  <2>1. UNCHANGED <<step, job, field, cache, receipts>>
    BY <1>4 DEF SwitchPackages, OwnPackage, externalVars, launchVars, files, packages
  <2>2. QED
    BY <2>1, ExternalCacheUntouched
<1>5. QED
  BY <1>1, <1>2, <1>3, <1>4, PublishesCache DEF ExternalNext

LEMMA ExternalCacheInit == ExternalInit => ExternalCacheInv
BY RoomAssumption, EntryAssumption DEF ExternalInit, LaunchInit, ExternalCacheInv, CacheIsTrue

(* In this mode too an entry that is reused was made from the request its   *)
(* name was computed from.                                                  *)
THEOREM ExternalCacheTrue == ASSUME ExportedAsWritten PROVE ExternalSpec => []CacheIsTrue
<1>1. ExternalTyped /\ ExternalCacheInv /\ [ExternalNext]_externalVars
        => (ExternalTyped /\ ExternalCacheInv)'
  BY ExternalTypedStep, CacheStep
<1>2. ExternalCacheInv => CacheIsTrue
  BY DEF ExternalCacheInv
<1>3. QED
  BY <1>1, <1>2, ExternalTypedInit, ExternalCacheInit, PTL DEF ExternalSpec

-----------------------------------------------------------------------------
(* The identity of an address, and whose game a client speaks for           *)

(* No emulator is started by hand between the last look at the processes    *)
(* and the start of the client: a gap the code leaves open.                 *)
NoBootAtClient == "client" \notin BootAt

ExternalGenuine(o, room) == o.room = room /\ o.made = room

ExternalAgrees(s) == spoke[s] = NoRoom \/ lock[s] = spoke[s] \/ s \in waved

(* An attach is for one room; from its second verification on its address   *)
(* is remembered with that room.                                            *)
AttachInv ==
  /\ job.what \notin {"launch", "connect"}
  /\ step \in {"found", "again"} \cup Attached => job.what = "attach" /\ job.gen > 0
  /\ step \in Attached => lock[job.server] = job.room
  /\ \A s \in Server : ExternalAgrees(s)

(* The step a call is at tells what it may do next.                         *)
Attaching == {"looked", "found", "again"} \cup Attached

LEMMA AttachUntouched ==
  ASSUME AttachInv, UNCHANGED <<lock, spoke, waved>>,
         \/ step' \notin Attaching /\ job'.what \notin {"launch", "connect"}
         \/ /\ UNCHANGED <<job.what, job.server, job.slot, job.room, job.gen>>
            /\ \/ UNCHANGED step
               \/ step \in Attached /\ step' \in Attached
               \/ step = "found" /\ step' = "again"
  PROVE  AttachInv'
BY DEF AttachInv, ExternalAgrees, Attaching, Attached

(* check_seed_slot_identity, for the address of the call.                   *)
LEMMA ExternalRemembers ==
  ASSUME ExternalTyped, NEW s \in Server, NEW r \in Room, NEW agreed \in BOOLEAN,
         Remember(s, r, agreed), UNCHANGED spoke, \A t \in Server : ExternalAgrees(t)
  PROVE  lock'[s] = r /\ \A t \in Server : ExternalAgrees(t)'
<1>1. /\ agreed \/ lock[s] \in {NoRoom, r}
      /\ lock' = [lock EXCEPT ![s] = r] /\ lock \in [Server -> Room \cup {NoRoom}]
      /\ waved' = IF agreed /\ lock[s] \notin {NoRoom, r} THEN waved \cup {s} ELSE waved
  BY DEF Remember, MayUse, ExternalTyped, ExternalTypeOK, LaunchTypeOK
<1>2. ASSUME NEW t \in Server PROVE ExternalAgrees(t)'
  <2>1. CASE t = s
    BY <1>1, <2>1 DEF ExternalAgrees
  <2>2. CASE t # s
    BY <1>1, <2>2 DEF ExternalAgrees
  <2>3. QED
    BY <2>1, <2>2
<1>3. QED
  BY <1>1, <1>2

LEMMA CallsAttach ==
  ASSUME ExternalTyped, AttachInv,
         ExternalPresses \/ (PreparesSeed /\ UNCHANGED packages) \/ Publishes
  PROVE  AttachInv'
<1>0. job \in Job /\ job.what \notin {"launch", "connect"}
  BY DEF ExternalTyped, ExternalTypeOK, LaunchTypeOK, AttachInv
<1>1. CASE ExternalPresses
  <2>1. step' = "read" /\ job'.what \in {"export", "attach", "randomize", "retry", "verify"}
        /\ UNCHANGED <<lock, spoke, waved>>
    BY <1>1 DEF ExternalPresses, Press, PressWith, To, NoJob, files, history
  <2>2. QED
    BY <2>1, AttachUntouched DEF Attaching, Attached
<1>2. CASE PreparesSeed
  <2>1. CASE ReadRequest \/ Prepare \/ Evict \/ RunWriters \/ PublishBuild
    <3>1. step' \in {"prepare", "evict", "write", "publish", "built"}
          /\ UNCHANGED <<lock, spoke, waved>>
      BY <1>0, <2>1 DEF ReadRequest, Prepare, Evict, RunWriters, PublishBuild, To, files, history
    <3>2. \/ job' = job \/ job' = [job EXCEPT !.room = KeyRoom, !.rebuild = FALSE]
          \/ job' = [job EXCEPT !.made = field.room]
      BY <1>0, <2>1 DEF ReadRequest, Prepare, Evict, RunWriters, PublishBuild
    <3>3. job'.what = job.what
      BY <1>0, <3>2 DEF Job
    <3>4. QED
      BY <1>0, <3>1, <3>3, AttachUntouched DEF Attaching, Attached
  <2>2. CASE ReadRefused \/ PrepareRefused \/ BuildFails \/ Randomized
    BY <2>2, ExternalFailStep, AttachUntouched
       DEF ReadRefused, PrepareRefused, BuildFails, Randomized, files, history, NoJob,
           Attaching, Attached
  <2>3. QED
    BY <1>2, <2>1, <2>2 DEF PreparesSeed
<1>3. CASE Publishes
  <2>1. CASE Stage \/ WriteReceipt \/ Remove
    <3>1. step' \in {"stage", "replace", "remove"} /\ UNCHANGED <<lock, spoke, waved>>
      BY <2>1 DEF Stage, WriteReceipt, Remove, To, files, history
    <3>2. job' = job \/ job' = [job EXCEPT !.made = cache[job.room]]
      BY <2>1 DEF Stage, WriteReceipt, Remove
    <3>3. job'.what = job.what
      BY <1>0, <3>2 DEF Job
    <3>4. QED
      BY <1>0, <3>1, <3>3, AttachUntouched DEF Attaching, Attached
  <2>2. CASE Publish \/ ExportFails
    BY <2>2, ExternalFailStep, AttachUntouched
       DEF Publish, ExportFails, Done, files, history, NoJob, Attaching, Attached
  <2>3. QED
    BY <1>3, <2>1, <2>2 DEF Publishes
<1>4. QED
  BY <1>1, <1>2, <1>3

(* The client speaks for the room its address is remembered with.           *)
LEMMA ExternalClientSpeaks ==
  ASSUME ExternalTyped, AttachInv, SpawnClient
  PROVE  /\ step = "client" /\ step' = "idle" /\ job' = NoJob /\ UNCHANGED lock
         /\ job.what = "attach" /\ ConfigRoom = job.room /\ lock[job.server] = job.room
         /\ job.server \in Server
         /\ \/ UNCHANGED <<spoke, waved, logins>>
            \/ /\ spoke' = [spoke EXCEPT ![job.server] = job.room]
               /\ waved' = waved \ {job.server}
BY DEF SpawnClient, AttachInv, Attached, ConfigRoom, Done, files, history, ExternalTyped,
   ExternalJobInv

LEMMA StartsAttach ==
  ASSUME ExternalTyped, AttachInv, WriteWitness \/ SpawnClient \/ LaunchFails \/ Refused
  PROVE  AttachInv'
<1>1. CASE WriteWitness
  <2>1. {step, step'} \subseteq Attached /\ UNCHANGED <<job, lock, spoke, waved>>
    BY <1>1 DEF WriteWitness, To, history, Attached
  <2>2. QED
    BY <2>1, AttachUntouched
<1>2. CASE SpawnClient
  <2>1. CASE UNCHANGED <<spoke, waved>>
    BY <1>2, <2>1, ExternalClientSpeaks, AttachUntouched DEF NoJob, Attaching, Attached
  <2>2. CASE ~UNCHANGED <<spoke, waved>>
    <3>1. /\ spoke' = [spoke EXCEPT ![job.server] = job.room] /\ UNCHANGED lock
          /\ waved' = waved \ {job.server} /\ lock[job.server] = job.room
          /\ step' = "idle" /\ job' = NoJob
      BY <1>2, <2>2, ExternalClientSpeaks
    <3>2. ASSUME NEW t \in Server PROVE ExternalAgrees(t)'
      <4>1. ExternalAgrees(t) /\ spoke \in [Server -> Room \cup {NoRoom}]
        BY DEF AttachInv, ExternalTyped, ExternalTypeOK, LaunchTypeOK
      <4>2. QED
        BY <3>1, <4>1 DEF ExternalAgrees
    <3>3. QED
      BY <3>1, <3>2 DEF AttachInv, NoJob, Attached
  <2>3. QED
    BY <2>1, <2>2
<1>3. CASE LaunchFails \/ Refused
  BY <1>3, ExternalFailStep, AttachUntouched
     DEF LaunchFails, Refused, files, history, NoJob, Attaching, Attached
<1>4. QED
  BY <1>1, <1>2, <1>3

LEMMA AttachesAttach == ASSUME ExternalTyped, BootInv, AttachInv, Attaches PROVE AttachInv'
<1>0. job \in Job
  BY DEF ExternalTyped, ExternalTypeOK, LaunchTypeOK
<1>1. CASE LookAtActivation
  <2>1. /\ step' = "looked" /\ job.what = "verify" /\ UNCHANGED <<lock, spoke, waved>>
        /\ job' = [job EXCEPT !.gen = overlay.gen]
    BY <1>1 DEF LookAtActivation, To, files, history
  <2>2. job'.what = "verify"
    BY <1>0, <2>1 DEF Job
  <2>3. QED
    BY <2>1, <2>2 DEF AttachInv, ExternalAgrees, Attached
<1>2. CASE FindActivation
  <2>1. /\ step' = "found" /\ job.what = "attach" /\ UNCHANGED <<lock, spoke, waved>>
        /\ job' = [job EXCEPT !.gen = seen[job.room].gen]
        /\ overlay.gen = seen[job.room].gen /\ overlay.gen > 0
    BY <1>2 DEF FindActivation, SameActivation, Verifies, To, files, history
  <2>2. job'.what = "attach" /\ job'.gen > 0
    BY <1>0, <2>1 DEF Job
  <2>3. QED
    BY <2>1, <2>2 DEF AttachInv, ExternalAgrees, Attached
<1>3. CASE FindGame
  <2>1. PICK g \in up : job' = [job EXCEPT !.game = g]
    BY <1>3 DEF FindGame
  <2>2. step = "found" /\ step' = "again" /\ UNCHANGED <<lock, spoke, waved>>
    BY <1>3 DEF FindGame, To, files, history
  <2>3. UNCHANGED <<job.what, job.server, job.slot, job.room, job.gen>>
    BY <1>0, <2>1 DEF Job
  <2>4. QED
    BY <2>2, <2>3, AttachUntouched
<1>4. CASE VerifyAgain
  <2>1. /\ step = "again" /\ step' = "witness" /\ UNCHANGED spoke
        /\ Remember(job.server, job.room, job.agreed) /\ job' = [job EXCEPT !.agreed = FALSE]
        /\ job.server \in Server /\ job.room \in Room /\ job.agreed \in BOOLEAN
    BY <1>0, <1>4 DEF VerifyAgain, To, ExternalTyped, ExternalJobInv, ExternalNamed, Job
  <2>2. lock'[job.server] = job.room /\ \A t \in Server : ExternalAgrees(t)'
    BY <2>1, ExternalRemembers DEF AttachInv
  <2>3. UNCHANGED <<job.what, job.server, job.slot, job.room, job.gen>>
    BY <1>0, <2>1 DEF Job
  <2>4. QED
    BY <2>1, <2>2, <2>3 DEF AttachInv
<1>5. CASE WriteContract \/ FinalCheck
  <2>1. {step, step'} \subseteq Attached /\ UNCHANGED <<job, lock, spoke, waved>>
    BY <1>5 DEF WriteContract, FinalCheck, To, files, history, Attached
  <2>2. QED
    BY <2>1, AttachUntouched
<1>6. CASE Observe \/ ExternalRefuses
  BY <1>6, ExternalFailStep, AttachUntouched
     DEF Observe, ExternalRefuses, Done, files, history, NoJob, Attaching, Attached
<1>7. QED
  BY <1>1, <1>2, <1>3, <1>4, <1>5, <1>6 DEF Attaches

LEMMA AttachStep ==
  ASSUME ExternalTyped, BootInv, AttachInv, [ExternalNext]_externalVars
  PROVE  AttachInv'
<1>1. CASE \/ EditFields \/ BootByHand \/ QuitGame \/ QuitClient \/ SwitchPackages \/ OwnPackage
           \/ UNCHANGED externalVars
  <2>1. UNCHANGED <<step, job, lock, spoke, waved>>
    BY <1>1 DEF EditFields, BootByHand, Boot, QuitGame, QuitClient, SwitchPackages, OwnPackage,
                externalVars, launchVars, files, history
  <2>2. QED
    BY <2>1, AttachUntouched
<1>2. CASE WorkerDies
  BY <1>2, AttachUntouched DEF WorkerDies, Done, files, history, NoJob, Attaching, Attached
<1>3. QED
  BY <1>1, <1>2, CallsAttach, StartsAttach, AttachesAttach DEF ExternalNext, AsInLaunch

LEMMA AttachInit == ExternalInit => AttachInv
BY DEF ExternalInit, LaunchInit, AttachInv, ExternalAgrees, Attached, NoJob

LEMMA ExternalSilentStep ==
  ASSUME ExternalTyped, AttachInv, [ExternalNext]_externalVars
  PROVE  [\A s \in Server : spoke'[s] # spoke[s] => spoke[s] = NoRoom \/ s \in waved]_launchVars
<1>1. CASE SpawnClient
  <2>1. ASSUME NEW s \in Server, spoke'[s] # spoke[s] PROVE spoke[s] = NoRoom \/ s \in waved
    <3>1. /\ lock[job.server] = job.room
          /\ spoke' = [spoke EXCEPT ![job.server] = job.room]
      BY <1>1, <2>1, ExternalClientSpeaks
    <3>2. spoke \in [Server -> Room \cup {NoRoom}] /\ ExternalAgrees(s)
      BY DEF ExternalTyped, ExternalTypeOK, LaunchTypeOK, AttachInv
    <3>3. s = job.server /\ spoke[s] # lock[s]
      BY <2>1, <3>1, <3>2
    <3>4. QED
      BY <3>2, <3>3 DEF ExternalAgrees
  <2>2. QED
    BY <2>1
<1>2. CASE ~SpawnClient
  <2>1. CASE AsInLaunch
    <3>1. CASE PreparesSeed
      <4>1. CASE ReadRequest \/ Prepare \/ Evict \/ RunWriters \/ PublishBuild
        BY <4>1 DEF ReadRequest, Prepare, Evict, RunWriters, PublishBuild, history
      <4>2. QED
        BY <3>1, <4>1, ExternalFailStep
           DEF PreparesSeed, ReadRefused, PrepareRefused, BuildFails, Randomized, history
    <3>2. QED
      BY <1>2, <2>1, <3>1, ExternalFailStep
         DEF AsInLaunch, WriteWitness, LaunchFails, Refused, EditFields, BootByHand, QuitGame,
             QuitClient, WorkerDies, history
  <2>2. CASE ExternalPresses \/ Publishes
    BY <2>2, ExternalFailStep
       DEF ExternalPresses, Press, PressWith, Publishes, Stage, WriteReceipt, Remove, Publish, ExportFails,
           history
  <2>3. CASE Attaches
    BY <2>3, ExternalFailStep
       DEF Attaches, LookAtActivation, Observe, FindActivation, FindGame, VerifyAgain,
           WriteContract, FinalCheck, ExternalRefuses, history
  <2>4. QED
    BY <2>1, <2>2, <2>3
       DEF ExternalNext, SwitchPackages, OwnPackage, externalVars, launchVars, history
<1>3. QED
  BY <1>1, <1>2

(* connect_external asks check_seed_slot_identity as well: clients attached *)
(* to what BBLauncher booted follow one another on an address for one room, *)
(* or the player has agreed in between.                                     *)
THEOREM ExternalNoneSilent == ExternalSpec => NoSilentRoomChange
<1>1. ExternalTyped /\ BootInv /\ AttachInv /\ [ExternalNext]_externalVars
        => (ExternalTyped /\ BootInv /\ AttachInv)'
  BY ExternalTypedStep, BootStep, AttachStep
<1>2. ExternalInit => ExternalTyped /\ BootInv /\ AttachInv
  BY ExternalTypedInit, BootInit, AttachInit
<1>3. ExternalTyped /\ AttachInv /\ [ExternalNext]_externalVars =>
        [\A s \in Server : spoke'[s] # spoke[s] => spoke[s] = NoRoom \/ s \in waved]_launchVars
  BY ExternalSilentStep
<1>4. QED
  BY <1>1, <1>2, <1>3, PTL DEF ExternalSpec, NoSilentRoomChange

-----------------------------------------------------------------------------
ExternalSpeaksTruly(c) ==
  /\ c.alone /\ c.slot = c.room /\ c.game \in 1 .. Len(boots)
  /\ ExternalGenuine(boots[c.game], c.room)

(* An activation is known by its number: emulators that loaded the current  *)
(* number loaded what is installed.                                         *)
OneEach ==
  \A i \in 1 .. Len(boots) :
    /\ boots[i].gen <= activations
    /\ overlay.gen > 0 /\ boots[i].gen = overlay.gen => boots[i] = overlay

ExternalSpoken == \A i \in 1 .. Len(logins) : ExternalSpeaksTruly(logins[i])

ExternalPlayInv ==
  /\ OneEach /\ ExternalSpoken
  /\ step \in Attached => job.game \in 1 .. Len(boots) /\ ExternalGenuine(boots[job.game], job.room)
  /\ step = "client" => up \subseteq {job.game}

(* The request is not replaced between a press and the reading: a gap the   *)
(* code leaves open, for nothing compares the plan with the receipt.        *)
ReadAsPressed == "read" \notin EditAt

(* The receipt a call starts from was written for a build made from its     *)
(* room, and the plan has the slot of the room the call ends up with.       *)
SelectedInv ==
  job.what \in Selects /\ step \in {"read"} \cup Attaching =>
    /\ job.made = job.room
    /\ job.what = "attach" => job.slot = IF step = "read" THEN field.room ELSE job.room

LEMMA SelectedUntouched ==
  ASSUME SelectedInv,
         \/ job'.what \notin Selects \/ step' \notin {"read"} \cup Attaching
         \/ /\ UNCHANGED <<job.what, job.slot, job.room, job.made>>
            /\ \/ {step, step'} \subseteq Attaching
               \/ UNCHANGED step /\ (UNCHANGED field \/ step # "read")
  PROVE  SelectedInv'
BY DEF SelectedInv, Attaching, Attached

LEMMA SelectedOfCalls ==
  ASSUME ExternalTyped, ExternalCacheInv, SelectedInv,
         ExternalPresses \/ PreparesSeed \/ Publishes
  PROVE  SelectedInv'
<1>1. CASE ExternalPresses
  <2>1. CASE \E what \in {"export", "randomize", "retry"}, agreed \in BOOLEAN :
               Press(what, agreed, FALSE)
    <3>1. job'.what \notin Selects
      BY <2>1 DEF Press, NoJob, Selects
    <3>2. QED
      BY <3>1, SelectedUntouched
  <2>2. CASE \E r \in receipts, what \in Selects, agreed \in BOOLEAN : PressWith(r, what, agreed)
    <3>1. PICK r \in receipts, what \in Selects, agreed \in BOOLEAN : PressWith(r, what, agreed)
      BY <2>2
    <3>2. /\ step' = "read" /\ UNCHANGED field
          /\ job' = [NoJob EXCEPT !.what = what, !.agreed = agreed, !.server = field.server,
                                  !.slot = IF what = "attach" THEN field.room ELSE NoRoom,
                                  !.room = r.room, !.made = r.made]
      BY <3>1 DEF PressWith, To
    <3>3. /\ job'.what = what /\ job'.room = r.room /\ job'.made = r.made
          /\ what = "attach" => job'.slot = field.room
      BY <3>2 DEF NoJob
    <3>4. r.made = r.room
      BY DEF ExternalCacheInv
    <3>5. QED
      BY <3>2, <3>3, <3>4 DEF SelectedInv
  <2>3. QED
    BY <1>1, <2>1, <2>2 DEF ExternalPresses, Selects
<1>2. CASE PreparesSeed
  <2>1. step' \notin {"read"} \cup Attaching
    BY <1>2, ExternalFailStep
       DEF PreparesSeed, ReadRequest, ReadRefused, Prepare, PrepareRefused, Evict, RunWriters,
           PublishBuild, BuildFails, Randomized, To, Attaching, Attached
  <2>2. QED
    BY <2>1, SelectedUntouched
<1>3. CASE Publishes
  <2>1. step' \notin {"read"} \cup Attaching
    BY <1>3, ExternalFailStep
       DEF Publishes, Stage, WriteReceipt, Remove, Publish, ExportFails, To, Done, Attaching,
           Attached
  <2>2. QED
    BY <2>1, SelectedUntouched
<1>4. QED
  BY <1>1, <1>2, <1>3

LEMMA SelectedOfAttach ==
  ASSUME ExternalTyped, SelectedInv, Attaches PROVE SelectedInv'
<1>0. job \in Job
  BY DEF ExternalTyped, ExternalTypeOK, LaunchTypeOK
<1>1. CASE LookAtActivation
  <2>1. step = "read" /\ step' = "looked" /\ job' = [job EXCEPT !.gen = overlay.gen]
        /\ job.what = "verify"
    BY <1>1 DEF LookAtActivation, To
  <2>2. UNCHANGED <<job.what, job.room, job.made>>
    BY <1>0, <2>1 DEF Job
  <2>3. QED
    BY <2>1, <2>2 DEF SelectedInv, Selects
<1>2. CASE FindActivation
  <2>1. /\ step = "read" /\ step' = "found" /\ job' = [job EXCEPT !.gen = seen[job.room].gen]
        /\ job.what = "attach" /\ field.room = job.room
    BY <1>2 DEF FindActivation, To
  <2>2. UNCHANGED <<job.what, job.slot, job.room, job.made>>
    BY <1>0, <2>1 DEF Job
  <2>3. QED
    BY <2>1, <2>2 DEF SelectedInv, Selects
<1>3. CASE FindGame \/ VerifyAgain \/ WriteContract \/ FinalCheck
  <2>1. {step, step'} \subseteq Attaching
    BY <1>3 DEF FindGame, VerifyAgain, WriteContract, FinalCheck, To, Attaching, Attached
  <2>2. \/ \E g \in up : job' = [job EXCEPT !.game = g]
        \/ job' = [job EXCEPT !.agreed = FALSE]
        \/ job' = job
    BY <1>3 DEF FindGame, VerifyAgain, WriteContract, FinalCheck
  <2>3. UNCHANGED <<job.what, job.slot, job.room, job.made>>
    BY <1>0, <2>2 DEF Job
  <2>4. QED
    BY <2>1, <2>3, SelectedUntouched
<1>4. CASE Observe \/ ExternalRefuses
  BY <1>4, ExternalFailStep, SelectedUntouched
     DEF Observe, ExternalRefuses, Done, Attaching, Attached
<1>5. QED
  BY <1>1, <1>2, <1>3, <1>4 DEF Attaches

LEMMA SelectedStep ==
  ASSUME ReadAsPressed, ExternalTyped, ExternalCacheInv, SelectedInv, [ExternalNext]_externalVars
  PROVE  SelectedInv'
<1>1. CASE AsInLaunch
  <2>1. CASE WriteWitness
    BY <2>1, SelectedUntouched DEF WriteWitness, To, Attaching, Attached
  <2>2. CASE SpawnClient \/ LaunchFails \/ Refused \/ WorkerDies
    BY <2>2, ExternalFailStep, SelectedUntouched
       DEF SpawnClient, LaunchFails, Refused, WorkerDies, Done, Attaching, Attached
  <2>3. CASE EditFields
    BY <2>3, SelectedUntouched DEF EditFields, ReadAsPressed
  <2>4. CASE BootByHand \/ QuitGame \/ QuitClient
    BY <2>4, SelectedUntouched DEF BootByHand, Boot, QuitGame, QuitClient
  <2>5. QED
    BY <1>1, <2>1, <2>2, <2>3, <2>4, SelectedOfCalls DEF AsInLaunch
<1>2. CASE SwitchPackages \/ OwnPackage \/ UNCHANGED externalVars
  <2>1. UNCHANGED <<step, job, field>>
    BY <1>2 DEF SwitchPackages, OwnPackage, externalVars, launchVars
  <2>2. QED
    BY <2>1, SelectedUntouched
<1>3. QED
  BY <1>1, <1>2, SelectedOfCalls, SelectedOfAttach DEF ExternalNext

LEMMA SelectedInit == ExternalInit => SelectedInv
BY DEF ExternalInit, LaunchInit, SelectedInv, NoJob, Selects

LEMMA ExternalPlayUntouched ==
  ASSUME ExternalPlayInv, UNCHANGED <<overlay, boots, logins, activations>>, up' \subseteq up,
         \/ step' \notin Attached
         \/ /\ UNCHANGED <<job.game, job.room>> /\ step \in Attached
            /\ step' = "client" => step = "client"
  PROVE  ExternalPlayInv'
BY DEF ExternalPlayInv, OneEach, ExternalSpoken, ExternalSpeaksTruly, Attached

LEMMA CallsPlay ==
  ASSUME ExternalPlayInv, ExternalPresses \/ (PreparesSeed /\ UNCHANGED packages) \/ Publishes
  PROVE  ExternalPlayInv'
<1>1. CASE ExternalPresses
  BY <1>1, ExternalPlayUntouched
     DEF ExternalPresses, Press, PressWith, To, files, procs, packages, Attached
<1>2. CASE PreparesSeed /\ UNCHANGED packages
  <2>1. CASE ReadRequest \/ Prepare \/ Evict \/ RunWriters \/ PublishBuild
    BY <1>2, <2>1, ExternalPlayUntouched
       DEF ReadRequest, Prepare, Evict, RunWriters, PublishBuild, To, files, procs, packages,
           Attached
  <2>2. QED
    BY <1>2, <2>1, ExternalFailStep, ExternalPlayUntouched
       DEF PreparesSeed, ReadRefused, PrepareRefused, BuildFails, Randomized, files, procs,
           packages, Attached
<1>3. CASE Stage \/ WriteReceipt \/ Remove
  BY <1>3, ExternalPlayUntouched DEF Stage, WriteReceipt, Remove, To, files, procs, packages,
     Attached
<1>4. CASE Publish \/ ExportFails
  BY <1>4, ExternalFailStep, ExternalPlayUntouched
     DEF Publish, ExportFails, Done, files, procs, packages, Attached
<1>5. QED
  BY <1>1, <1>2, <1>3, <1>4 DEF Publishes

LEMMA ExternalSpawnClientPlay ==
  ASSUME ExternalTyped, AttachInv, SelectedInv, ExternalPlayInv, SpawnClient, UNCHANGED packages
  PROVE  ExternalPlayInv'
<1> DEFINE c == [game |-> job.game, room |-> ConfigRoom, slot |-> job.slot,
                 server |-> job.server, gen |-> job.gen, alone |-> up \subseteq {job.game}]
<1>1. /\ step = "client" /\ step' = "idle" /\ UNCHANGED <<overlay, boots, up, activations>>
      /\ UNCHANGED logins \/ logins' = Append(logins, c)
  BY DEF SpawnClient, Done, files, packages
<1>2. ConfigRoom = job.room /\ job.room = job.slot
  BY <1>1, ExternalClientSpeaks DEF SelectedInv, Selects, Attaching, Attached
<1>3. ExternalSpeaksTruly(c)
  BY <1>1, <1>2 DEF ExternalPlayInv, ExternalSpeaksTruly, Attached
<1>4. c \in Login /\ logins \in Seq(Login)
  BY <1>1 DEF ExternalTyped, ExternalJobInv, ExternalNamed, ExternalTypeOK, LaunchTypeOK, Job, Login
<1>5. ExternalSpoken'
  <2>1. CASE UNCHANGED logins
    BY <1>1, <2>1 DEF ExternalPlayInv, ExternalSpoken, ExternalSpeaksTruly
  <2>2. CASE logins' = Append(logins, c)
    <3> HIDE DEF c
    <3>1. \A i \in 1 .. Len(logins') :
            logins'[i] = c \/ (i \in 1 .. Len(logins) /\ logins'[i] = logins[i])
      BY <1>4, <2>2, AppendGrows
    <3>2. \A i \in 1 .. Len(logins') : ExternalSpeaksTruly(logins'[i])
      BY <1>3, <3>1 DEF ExternalPlayInv, ExternalSpoken
    <3>3. QED
      BY <1>1, <3>2 DEF ExternalSpoken, ExternalSpeaksTruly
  <2>3. QED
    BY <1>1, <2>1, <2>2
<1>6. QED
  BY <1>1, <1>5 DEF ExternalPlayInv, OneEach, Attached

LEMMA AttachesPlay ==
  ASSUME ExternalTyped, BootInv, BootInv', AttachInv, SelectedInv, ExternalPlayInv, Attaches
  PROVE  ExternalPlayInv'
<1>0. job \in Job
  BY DEF ExternalTyped, ExternalTypeOK, LaunchTypeOK
<1>1. CASE LookAtActivation \/ FindActivation \/ FindGame
  BY <1>1, ExternalPlayUntouched
     DEF LookAtActivation, FindActivation, FindGame, To, files, procs, packages, Attached
<1>2. CASE Observe \/ ExternalRefuses
  BY <1>2, ExternalFailStep, ExternalPlayUntouched
     DEF Observe, ExternalRefuses, Done, files, procs, packages, Attached
<1>3. CASE VerifyAgain
  <2>1. /\ step = "again" /\ step' = "witness" /\ job' = [job EXCEPT !.agreed = FALSE]
        /\ overlay.gen = job.gen /\ overlay.gen > 0 /\ overlay.room = job.room
        /\ overlay.made = job.made
        /\ UNCHANGED <<overlay, boots, up, logins, activations>>
    BY <1>3 DEF VerifyAgain, SameActivation, Verifies, To, procs, packages
  <2>2. UNCHANGED <<job.game, job.room, job.gen>>
    BY <1>0, <2>1 DEF Job
  <2>3. job.game \in 1 .. Len(boots) /\ boots[job.game].gen = overlay.gen
    BY <2>1, <2>2 DEF BootInv, PathInv, Attached, LoadedIt
  <2>4. boots[job.game] = overlay
    BY <2>1, <2>3 DEF ExternalPlayInv, OneEach
  <2>5. overlay.made = job.room
    BY <2>1 DEF AttachInv, SelectedInv, Selects, Attaching
  <2>6. QED
    BY <2>1, <2>2, <2>3, <2>4, <2>5
       DEF ExternalPlayInv, OneEach, ExternalSpoken, ExternalSpeaksTruly, ExternalGenuine, Attached
<1>4. CASE WriteContract
  BY <1>4, ExternalPlayUntouched DEF WriteContract, To, procs, packages, Attached
<1>5. CASE FinalCheck
  <2>1. /\ step = "final" /\ step' = "client" /\ up = {job.game}
        /\ UNCHANGED <<job, overlay, boots, up, logins, activations>>
    BY <1>5 DEF FinalCheck, StillAlone, To, files, procs, packages
  <2>2. QED
    BY <2>1 DEF ExternalPlayInv, OneEach, ExternalSpoken, ExternalSpeaksTruly, Attached
<1>6. QED
  BY <1>1, <1>2, <1>3, <1>4, <1>5 DEF Attaches

LEMMA BootByHandPlay ==
  ASSUME NoBootAtClient, ExternalTyped, ExternalPlayInv, BootByHand, UNCHANGED packages
  PROVE  ExternalPlayInv'
<1>1. /\ UNCHANGED <<overlay, logins, step, job, activations>> /\ step \in BootAt
      /\ boots' = Append(boots, overlay) /\ up' = up \cup {Len(boots')}
  BY DEF BootByHand, Boot, files, packages
<1>2. boots \in Seq(Overlays) /\ overlay \in Overlays
  BY DEF ExternalTyped, ExternalTypeOK, LaunchTypeOK
<1>3. /\ Len(boots') = Len(boots) + 1 /\ Len(boots) \in Nat
      /\ \A i \in 1 .. Len(boots) : boots'[i] = boots[i]
      /\ boots'[Len(boots) + 1] = overlay
  BY <1>1, <1>2, AppendGrows
<1>4. \A i \in 1 .. Len(boots) : i \in 1 .. Len(boots')
  BY <1>3
<1>5. OneEach'
  <2>1. overlay.gen <= activations
    BY DEF ExternalTyped, GenInv
  <2>2. \A i \in 1 .. Len(boots') : i \in 1 .. Len(boots) \/ i = Len(boots) + 1
    BY <1>3
  <2>3. QED
    BY <1>1, <1>3, <2>1, <2>2 DEF ExternalPlayInv, OneEach
<1>6. ExternalSpoken'
  <2>1. ASSUME NEW i \in 1 .. Len(logins) PROVE ExternalSpeaksTruly(logins[i])'
    <3>1. ExternalSpeaksTruly(logins[i])
      BY DEF ExternalPlayInv, ExternalSpoken
    <3>2. UNCHANGED logins[i]
      BY <1>1
    <3>3. boots'[logins[i].game] = boots[logins[i].game] /\ logins[i].game \in 1 .. Len(boots')
      BY <1>3, <1>4, <3>1 DEF ExternalSpeaksTruly
    <3>4. QED
      BY <3>1, <3>2, <3>3 DEF ExternalSpeaksTruly
  <2>2. QED
    BY <1>1, <2>1 DEF ExternalSpoken
<1>7. step # "client"
  BY <1>1 DEF NoBootAtClient
<1>8. QED
  BY <1>1, <1>3, <1>4, <1>5, <1>6, <1>7 DEF ExternalPlayInv

LEMMA SwitchPlay == ASSUME ExternalTyped, ExternalPlayInv, SwitchPackages PROVE ExternalPlayInv'
<1>1. /\ UNCHANGED <<boots, up, logins, step, job>> /\ activations' = activations + 1
      /\ overlay' = Vanilla \/ \E r \in Room : overlay' = Activation(r)
  BY DEF SwitchPackages, procs
<1>2. overlay'.gen \in {0, activations + 1}
  BY <1>1 DEF Vanilla, Activation
<1>3. activations \in Nat /\ boots \in Seq(Overlays)
  BY DEF ExternalTyped, ExternalTypeOK, LaunchTypeOK
<1>4. ASSUME NEW i \in 1 .. Len(boots) PROVE boots[i].gen \in Nat
  <2>1. boots[i] \in Overlays
    BY <1>3
  <2>2. QED
    BY <2>1 DEF Overlays
<1>5. OneEach'
  BY <1>1, <1>2, <1>3, <1>4 DEF ExternalPlayInv, OneEach
<1>6. QED
  BY <1>1, <1>5 DEF ExternalPlayInv, ExternalSpoken, ExternalSpeaksTruly

LEMMA PlayStep ==
  ASSUME NoBootAtClient, ExternalTyped, BootInv, BootInv', AttachInv, SelectedInv,
         ExternalPlayInv, [ExternalNext]_externalVars
  PROVE  ExternalPlayInv'
<1>1. CASE AsInLaunch
  <2>0. UNCHANGED packages
    BY <1>1 DEF AsInLaunch
  <2>1. CASE WriteWitness
    BY <2>0, <2>1, ExternalPlayUntouched DEF WriteWitness, To, procs, packages, Attached
  <2>2. CASE LaunchFails \/ Refused \/ WorkerDies
    BY <2>0, <2>2, ExternalFailStep, ExternalPlayUntouched
       DEF LaunchFails, Refused, WorkerDies, Done, files, procs, packages, Attached
  <2>3. CASE EditFields \/ QuitGame \/ QuitClient
    <3>1. /\ UNCHANGED <<overlay, boots, logins, activations, step, job>> /\ up' \subseteq up
      BY <2>0, <2>3 DEF EditFields, QuitGame, QuitClient, files, procs, packages
    <3>2. QED
      BY <3>1, ExternalPlayUntouched
  <2>4. QED
    BY <1>1, <2>0, <2>1, <2>2, <2>3, CallsPlay, ExternalSpawnClientPlay,
       BootByHandPlay DEF AsInLaunch
<1>2. CASE OwnPackage \/ UNCHANGED externalVars
  <2>1. UNCHANGED <<overlay, boots, up, logins, activations, step, job>>
    BY <1>2 DEF OwnPackage, externalVars, launchVars, files, procs, packages
  <2>2. QED
    BY <2>1, ExternalPlayUntouched
<1>3. QED
  BY <1>1, <1>2, CallsPlay, AttachesPlay, SwitchPlay DEF ExternalNext

LEMMA ExternalPlayInit == ExternalInit => ExternalPlayInv
BY DEF ExternalInit, LaunchInit, ExternalPlayInv, OneEach, ExternalSpoken, Attached

(* When the request is replaced neither between a press and its reading nor *)
(* while the writers run, and no emulator is started after the last look,   *)
(* the client that is attached speaks for what BBLauncher activated and the *)
(* running game loaded: that package was exported from the build of the     *)
(* same room, however often packages were switched, replaced or edited and  *)
(* games closed and started again.                                          *)
THEOREM ExternalSpeaksTrue ==
  ASSUME ExportedAsWritten, ReadAsPressed, NoBootAtClient
  PROVE  ExternalSpec => []SpeaksForItsGame
<1> DEFINE Inv == /\ ExternalTyped /\ BootInv /\ ExternalCacheInv
                  /\ AttachInv /\ SelectedInv /\ ExternalPlayInv
<1>1. ExternalInit => Inv
  BY ExternalTypedInit, BootInit, ExternalCacheInit, AttachInit, SelectedInit, ExternalPlayInit
<1>2. Inv /\ [ExternalNext]_externalVars => Inv'
  <2> SUFFICES ASSUME Inv, [ExternalNext]_externalVars PROVE Inv'
    OBVIOUS
  <2>1. ExternalTyped' /\ BootInv' /\ ExternalCacheInv' /\ AttachInv' /\ SelectedInv'
    BY ExternalTypedStep, BootStep, CacheStep, AttachStep, SelectedStep
  <2>2. ExternalPlayInv'
    BY <2>1, PlayStep
  <2>3. QED
    BY <2>1, <2>2
<1>3. Inv => SpeaksForItsGame
  BY DEF ExternalPlayInv, ExternalSpoken, ExternalSpeaksTruly, ExternalGenuine, SpeaksForItsGame
<1> HIDE DEF Inv
<1>4. QED
  BY <1>1, <1>2, <1>3, PTL DEF ExternalSpec
=============================================================================
