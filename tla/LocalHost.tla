----------------------------- MODULE LocalHost ------------------------------
(***************************************************************************)
(* The window's Create & host page (bb_launcher/local_session_ui.py) and   *)
(* the Archipelago server it starts and owns (local_session.py), beside    *)
(* the launches of the same window: both work under one `_busy' flag, so   *)
(* a call of this page is a call of Launch's worker.                       *)
(*                                                                         *)
(* A server is a process of its own, known by its number.  It listens some *)
(* time after it was started, if its address is still free, and may end at *)
(* any moment.  The window may be killed; its servers survive it.          *)
(***************************************************************************)
EXTENDS Launch

CONSTANT MaxHosts   \* bound: servers ever started

VARIABLES
  servers,   \* every server ever started: its address and the room it hosts
  alive,     \* those still running
  heard,     \* those that have said that they listen
  host,      \* the panel's handle, or 0
  orphans,   \* history: servers whose window was killed
  overruled  \* history: addresses remembered otherwise, by consent, since we hosted there

processes == <<servers, alive, heard>>
hosting == <<processes, host, orphans, overruled>>
hostVars == <<launchVars, hosting>>

HostSteps == {"generate", "probe", "spawn", "starting", "identity", "handback", "stopping"}

Newest == Len(servers)

Running == host \in alive

(* A call of the page: its address, and the room whose identity it read.    *)
HostCall(server, room, next) ==
  /\ step = "idle"
  /\ job' = [NoJob EXCEPT !.what = "host", !.server = server, !.first = room]
  /\ To(next)
  /\ UNCHANGED <<field, files, procs, history, faults, hosting>>

HostInit ==
  /\ LaunchInit
  /\ servers = << >> /\ alive = {} /\ heard = {}
  /\ host = 0 /\ orphans = {} /\ overruled = {}

-----------------------------------------------------------------------------
(* _generate, generate_seed *)

CreateSeed == ~Running /\ HostCall(NoServer, NoRoom, "generate")

(* The archive becomes the selected request; Create & host goes on.         *)
Generated ==
  /\ step = "generate"
  /\ \E r \in Room :
       /\ field' = [field EXCEPT !.room = r]
       /\ \/ Done
          \/ /\ \E s \in Server :
                  job' = [job EXCEPT !.server = s, !.first = r]
             /\ To("probe")
  /\ UNCHANGED <<files, procs, history, faults, hosting>>

(* Cancelled, failed, or nothing in it that could be hosted.                *)
GenerationFails == Fail({"generate"}) /\ UNCHANGED hosting

-----------------------------------------------------------------------------
(* _host_selected, start_server *)

HostSelected == ~Running /\ \E s \in Server : HostCall(s, field.room, "probe")

Holds(i, address) == i \in alive \cap heard /\ servers[i].at = address

(* The port is bound and given back; after this nobody keeps it.            *)
PortIsFree ==
  /\ step = "probe"
  /\ \A i \in alive : ~Holds(i, job.server)
  /\ To("spawn")
  /\ UNCHANGED <<field, files, procs, job, history, faults, hosting>>

HostRefused == Fail({"probe"}) /\ UNCHANGED hosting

SpawnServer ==
  /\ step = "spawn" /\ Newest < MaxHosts
  /\ servers' = Append(servers, [at |-> job.server, room |-> field.room])
  /\ alive' = alive \cup {Len(servers')}
  /\ To("starting")
  /\ UNCHANGED <<field, files, procs, job, history, faults, heard, host, orphans, overruled>>

SpawnFails == Fail({"spawn"}) /\ UNCHANGED hosting

HearsReady ==
  /\ step = "starting" /\ Newest \in heard
  /\ To("identity")
  /\ UNCHANGED <<field, files, procs, job, history, faults, hosting>>

(* Mutant: a server that is too slow is given up, but goes on starting.     *)
GivenUpRuns == alive

GivenUp == alive \ {Newest}

(* It ended, or has not spoken in time and is terminated.                   *)
StartFails ==
  /\ Fail({"starting"})
  /\ alive' = GivenUp
  /\ UNCHANGED <<servers, heard, host, orphans, overruled>>

(* Mutant: what the address was last used for still counts.                 *)
HostedIdentityOld ==
  IF lock[job.server] = NoRoom THEN [lock EXCEPT ![job.server] = job.first] ELSE lock

HostedIdentity == [lock EXCEPT ![job.server] = job.first]

(* check_seed_slot_identity(..., allow_mismatch=True)                       *)
KeepIdentity ==
  /\ step = "identity"
  /\ lock' = HostedIdentity
  /\ waved' = IF lock[job.server] \notin {NoRoom, job.first}
               THEN waved \cup {job.server} ELSE waved
  /\ overruled' = overruled \ {job.server}
  /\ To("handback")
  /\ UNCHANGED <<field, cache, overlay, witness, config, procs, job, spoke, faults,
                 processes, host, orphans>>

(* The identity cannot be written: server.stop(), and raise.                *)
IdentityFails ==
  /\ Fail({"identity"})
  /\ alive' = GivenUp
  /\ UNCHANGED <<servers, heard, host, orphans, overruled>>

(* _host_started, on the window's thread.                                   *)
HandBack ==
  /\ step = "handback"
  /\ host' = Newest
  /\ field' = [field EXCEPT !.server = job.server]
  /\ Done
  /\ UNCHANGED <<files, procs, history, faults, processes, orphans, overruled>>

-----------------------------------------------------------------------------
(* _stop, _close, _poll *)

StopPressed == Running /\ HostCall(NoServer, NoRoom, "stopping")

(* A server that has to be forced makes stop() raise: the handle stays.     *)
StopServer ==
  /\ step = "stopping"
  /\ alive' = alive \ {host}
  /\ host' \in {0, host}
  /\ Done
  /\ UNCHANGED <<field, files, procs, history, faults, servers, heard, orphans, overruled>>

Poll ==
  /\ host # 0 /\ ~Running
  /\ host' = 0
  /\ UNCHANGED <<launchVars, processes, orphans, overruled>>

-----------------------------------------------------------------------------
(* The servers, and the death of the window *)

ServerListens ==
  /\ \E i \in alive \ heard :
       /\ \A j \in alive : ~Holds(j, servers[i].at)
       /\ heard' = heard \cup {i}
  /\ UNCHANGED <<launchVars, servers, alive, host, orphans, overruled>>

ServerEnds ==
  /\ \E i \in alive : alive' = alive \ {i}
  /\ UNCHANGED <<launchVars, servers, heard, host, orphans, overruled>>

WindowDies ==
  /\ faults < MaxFaults
  /\ faults' = faults + 1
  /\ Done
  /\ host' = 0 /\ orphans' = orphans \cup alive
  /\ UNCHANGED <<field, files, procs, history, processes, overruled>>

(* The same window's launches.                                              *)
Launching ==
  /\ \/ \E agreed \in BOOLEAN : Press("launch", agreed, FALSE)
     \/ PreparesSeed \/ Launches \/ EditFields
  /\ overruled' = overruled \cup {s \in Server : job.agreed /\ lock'[s] # lock[s]}
  /\ UNCHANGED <<processes, host, orphans>>

-----------------------------------------------------------------------------

Hosts ==
  CreateSeed \/ Generated \/ GenerationFails \/ HostSelected \/ PortIsFree \/ HostRefused
  \/ SpawnServer \/ SpawnFails \/ HearsReady \/ StartFails \/ KeepIdentity \/ IdentityFails
  \/ HandBack \/ StopPressed \/ StopServer \/ Poll

HostNext == Hosts \/ ServerListens \/ ServerEnds \/ WindowDies \/ Launching

HostSpec == HostInit /\ [][HostNext]_hostVars

(***************************************************************************)
(*                               Properties                                *)
(***************************************************************************)

(* "Keep the launcher open while playing": the window is the only one that  *)
(* can stop the server.  However a start failed, was slow or was given up,  *)
(* a server left running is the one behind Stop server, unless the window   *)
(* itself was killed.                                                       *)
NoStrayServer == step = "idle" => alive \subseteq {host} \cup orphans

(* "Its verified identity replaces address history": a client started       *)
(* against the address this window hosts at speaks for the hosted room,     *)
(* whatever that address was used for before and whatever is selected now,  *)
(* unless the player has since agreed to reuse the address.                 *)
HostedRoomIsPlayed ==
  [][\A i \in Len(logins) + 1 .. Len(logins') :
       Running /\ servers[host].at = logins'[i].server /\ logins'[i].server \notin overruled
         => logins'[i].room = servers[host].room]_hostVars

=============================================================================
