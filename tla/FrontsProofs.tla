---------------------------- MODULE FrontsProofs ----------------------------
(***************************************************************************)
(* Theorems about the ways a play is started, together: whichever front a  *)
(* machine uses, for any plays, rooms, servers and bounds.  Each front is  *)
(* one of the components whose theorems are in SessionProofs, LaunchProofs *)
(* and ExternalProofs; what is added is that the others stand still, and   *)
(* what that is worth.                                                     *)
(***************************************************************************)
EXTENDS Fronts, SessionProofs, LaunchProofs, ExternalProofs

IsFront == front \in {"backend", "standalone", "hosting", "bblauncher"}

(* The window's state, its page's and its packages', where no window runs.  *)
Windows == <<externalVars, hosting>>

LEMMA FrontStays ==
  ASSUME [FrontsNext]_frontVars
  PROVE  /\ front' = front
         /\ front # "backend" => UNCHANGED vars
         /\ front = "backend" => [Next]_vars /\ UNCHANGED Windows
         /\ front = "standalone" => [LaunchNext]_launchVars /\ UNCHANGED <<packages, hosting>>
         /\ front = "hosting" => [HostNext]_hostVars /\ UNCHANGED packages
         /\ front = "bblauncher" => [ExternalNext]_externalVars /\ UNCHANGED hosting
<1>1. CASE UNCHANGED frontVars
  BY <1>1 DEF frontVars, externalVars, hostVars, Windows
<1>2. CASE FrontsNext
  BY <1>2 DEF FrontsNext, Backend, Standalone, Hosting, BBLauncherMode, externalVars, hostVars,
     Windows
<1>3. QED
  BY <1>1, <1>2

(* A machine with one of the fronts is the component behind it; the backend *)
(* is one of them, or nothing happens to it.                                *)
THEOREM OneFront ==
  FrontsSpec => /\ Spec
                /\ front = "standalone" => LaunchSpec
                /\ front = "hosting" => HostSpec
                /\ front = "bblauncher" => ExternalSpec
<1>1. FrontsInit => Init /\ LaunchInit /\ HostInit /\ ExternalInit
  BY DEF FrontsInit, HostInit
<1>2. [FrontsNext]_frontVars => [Next]_vars
  BY FrontStays DEF FrontsNext, Backend, Standalone, Hosting, BBLauncherMode, frontVars
<1>3. front = "standalone" /\ [FrontsNext]_frontVars
        => (front = "standalone")' /\ [LaunchNext]_launchVars
  BY FrontStays
<1>4. front = "hosting" /\ [FrontsNext]_frontVars => (front = "hosting")' /\ [HostNext]_hostVars
  BY FrontStays
<1>5. front = "bblauncher" /\ [FrontsNext]_frontVars
        => (front = "bblauncher")' /\ [ExternalNext]_externalVars
  BY FrontStays
<1>6. FrontsSpec => Spec
  BY <1>1, <1>2, PTL DEF FrontsSpec, Spec
<1>7. FrontsSpec /\ front = "standalone" => LaunchSpec
  BY <1>1, <1>3, PTL DEF FrontsSpec, LaunchSpec
<1>8. FrontsSpec /\ front = "hosting" => HostSpec
  BY <1>1, <1>4, PTL DEF FrontsSpec, HostSpec
<1>9. FrontsSpec /\ front = "bblauncher" => ExternalSpec
  BY <1>1, <1>5, PTL DEF FrontsSpec, ExternalSpec
<1>10. QED
  BY <1>6, <1>7, <1>8, <1>9

LEMMA FrontKnown == FrontsSpec => IsFront
BY DEF FrontsSpec, FrontsInit, IsFront

(* Where the backend starts the plays no window does.                       *)
LEMMA NoWindow == FrontsSpec /\ front = "backend" => LaunchSpec /\ HostSpec /\ ExternalSpec
<1>1. FrontsInit => LaunchInit /\ HostInit /\ ExternalInit
  BY DEF FrontsInit, HostInit
<1>2. front = "backend" /\ [FrontsNext]_frontVars
        => /\ (front = "backend")' /\ [LaunchNext]_launchVars
           /\ [HostNext]_hostVars /\ [ExternalNext]_externalVars
  BY FrontStays DEF Windows, externalVars, hostVars
<1>3. QED
  BY <1>1, <1>2, PTL DEF FrontsSpec, LaunchSpec, HostSpec, ExternalSpec
-----------------------------------------------------------------------------
(* The sessions of the backend, whatever else the machine is used for.      *)
THEOREM FrontsSessions ==
  ASSUME NobodyStartsWhileArming, OneEmulator, NoneUnrecorded
  PROVE  FrontsSpec =>
           /\ [](TypeOK /\ ClientMatchesGame /\ OneClientPerGame /\ SessionIsTruthful)
           /\ ReleaseOnlyDead
BY OneFront, TypeCorrect, ClaimedClientsMatch, OneClient, SessionsTruthful, ReleasesOnlyDead, PTL

-----------------------------------------------------------------------------
(* The window, whichever way it starts a play.                              *)

(* Nothing is entered in the cache under another name than its own.         *)
THEOREM FrontsCacheTrue ==
  ASSUME NoHandInTheGaps PROVE FrontsSpec => []CacheIsTrue
<1>1. KeyedAsWritten /\ ExportedAsWritten
  BY DEF NoHandInTheGaps, KeyedAsWritten, ExportedAsWritten
<1>2. LaunchSpec => []CacheIsTrue
  BY <1>1, CacheTrue
<1>3. ExternalSpec => []CacheIsTrue
  BY <1>1, ExternalCacheTrue
<1>4. HostSpec => []CacheIsTrue
  BY HostSpeaksTrue, PTL
<1>5. IsFront => \/ front = "backend" \/ front = "standalone"
                 \/ front = "hosting" \/ front = "bblauncher"
  BY DEF IsFront
<1>6. QED
  BY <1>2, <1>3, <1>4, <1>5, OneFront, NoWindow, FrontKnown, PTL

(* Every client was started for the room its game loaded, alone: whoever    *)
(* built, switched and booted it.                                           *)
THEOREM FrontsSpeakTrue ==
  ASSUME NoHandInTheGaps PROVE FrontsSpec => []SpeaksForItsGame
<1>1. ExportedAsWritten /\ ReadAsPressed /\ NoBootAtClient
  BY DEF NoHandInTheGaps, ExportedAsWritten, ReadAsPressed, NoBootAtClient
<1>2. LaunchSpec => []SpeaksForItsGame
  BY SpeaksTrue
<1>3. ExternalSpec => []SpeaksForItsGame
  BY <1>1, ExternalSpeaksTrue
<1>4. HostSpec => []SpeaksForItsGame
  BY HostSpeaksTrue, PTL
<1>5. IsFront => \/ front = "backend" \/ front = "standalone"
                 \/ front = "hosting" \/ front = "bblauncher"
  BY DEF IsFront
<1>6. QED
  BY <1>2, <1>3, <1>4, <1>5, OneFront, NoWindow, FrontKnown, PTL

(* No server hears of another room without the player's word, whichever     *)
(* front remembers the address.                                             *)
THEOREM FrontsNoneSilent == FrontsSpec => NoSilentRoomChange
<1>1. IsFront => \/ front = "backend" \/ front = "standalone"
                 \/ front = "hosting" \/ front = "bblauncher"
  BY DEF IsFront
<1>2. QED
  BY <1>1, OneFront, NoWindow, FrontKnown, NoneSilent, HostNoneSilent, ExternalNoneSilent, PTL

-----------------------------------------------------------------------------
(* The page's server and the packages are still where their front is not.   *)

NoServers == front # "hosting" => alive = {}
NoPackages == front # "bblauncher" => pkg = [r \in Room |-> "missing"]

LEMMA NoServersStep == NoServers /\ [FrontsNext]_frontVars => NoServers'
<1> SUFFICES ASSUME NoServers, [FrontsNext]_frontVars PROVE NoServers'
  OBVIOUS
<1>1. front # "hosting" => alive' = alive
  BY FrontStays DEF FrontsNext, Backend, Standalone, BBLauncherMode, Hosting, frontVars,
     hosting, processes
<1>2. QED
  BY <1>1, FrontStays DEF NoServers

LEMMA NoPackagesStep == NoPackages /\ [FrontsNext]_frontVars => NoPackages'
<1> SUFFICES ASSUME NoPackages, [FrontsNext]_frontVars PROVE NoPackages'
  OBVIOUS
<1>1. front # "bblauncher" => pkg' = pkg
  BY FrontStays DEF FrontsNext, Backend, Standalone, BBLauncherMode, Hosting, frontVars,
     externalVars, packages
<1>2. QED
  BY <1>1, FrontStays DEF NoPackages

(* No server is left behind, whichever front was used.                      *)
THEOREM FrontsNoneStray == FrontsSpec => []NoStrayServer
<1>1. FrontsInit => NoServers
  BY DEF FrontsInit, HostInit, NoServers
<1>2. front # "hosting" /\ [FrontsNext]_frontVars => (front # "hosting")'
  BY FrontStays
<1>3. front # "hosting" /\ NoServers => NoStrayServer
  BY DEF NoServers, NoStrayServer
<1>4. FrontsSpec /\ front # "hosting" => []NoStrayServer
  BY <1>1, <1>2, <1>3, NoServersStep, PTL DEF FrontsSpec
<1>5. front = "hosting" \/ front # "hosting"
  OBVIOUS
<1>6. QED
  BY <1>4, <1>5, OneFront, NoneStray, PTL

(* A hosted room is the one played at the address it is hosted at.          *)
THEOREM FrontsHostedPlayed ==
  ASSUME HostedAsRead PROVE FrontsSpec => HostedRoomIsPlayed
<1> DEFINE Played == \A i \in Len(logins) + 1 .. Len(logins') :
                       Running /\ servers[host].at = logins'[i].server
                         /\ logins'[i].server \notin overruled
                           => logins'[i].room = servers[host].room
<1>1. FrontsInit => NoServers
  BY DEF FrontsInit, HostInit, NoServers
<1>2. front # "hosting" /\ [FrontsNext]_frontVars => (front # "hosting")'
  BY FrontStays
<1>3. front # "hosting" /\ NoServers => [Played]_hostVars
  BY DEF NoServers, Running
<1>4. FrontsSpec /\ front # "hosting" => [][Played]_hostVars
  BY <1>1, <1>2, <1>3, NoServersStep, PTL DEF FrontsSpec
<1>5. FrontsSpec /\ front # "hosting" => HostedRoomIsPlayed
  BY <1>4 DEF HostedRoomIsPlayed
<1>6. front = "hosting" \/ front # "hosting"
  OBVIOUS
<1>7. HostSpec => HostedRoomIsPlayed
  BY HostedPlayed
<1>8. QED
  BY <1>5, <1>6, <1>7, OneFront, PTL

(* Every package that came from an export has its receipt; what the player  *)
(* put there goes only in an export he agreed to.                           *)
THEOREM FrontsPackages ==
  ASSUME "remove" \notin PackageAt
  PROVE  FrontsSpec => []PackageHasReceipt /\ EditedIsKept
<1> DEFINE Spared(r) == pkg[r] = "edited" /\ pkg'[r] # "edited" => job.agreed
<1>1. FrontsInit => NoPackages
  BY DEF FrontsInit, ExternalInit, NoPackages
<1>2. front # "bblauncher" /\ [FrontsNext]_frontVars => (front # "bblauncher")'
  BY FrontStays
<1>3. front # "bblauncher" /\ NoPackages
        => PackageHasReceipt /\ [\A r \in Room : Spared(r)]_externalVars
  BY EntryAssumption DEF NoPackages, PackageHasReceipt
<1>4. FrontsSpec /\ front # "bblauncher"
        => []PackageHasReceipt /\ [][\A r \in Room : Spared(r)]_externalVars
  BY <1>1, <1>2, <1>3, NoPackagesStep, PTL DEF FrontsSpec
<1>5. FrontsSpec /\ front # "bblauncher" => []PackageHasReceipt /\ EditedIsKept
  BY <1>4 DEF EditedIsKept
<1>6. front = "bblauncher" \/ front # "bblauncher"
  OBVIOUS
<1>7. ExternalSpec => EditedIsKept
  BY EditedKept
<1>8. QED
  BY <1>5, <1>6, <1>7, OneFront, PackageReceipt, PTL

-----------------------------------------------------------------------------
(* Only an attach knows an activation by its number.                        *)
NoneNumbered == job.gen = 0 /\ \A i \in 1 .. Len(logins) : logins[i].gen = 0

LEMMA NumberedByAttach ==
  ASSUME LaunchTypeOK, NoneNumbered, [LaunchNext]_launchVars \/ [HostNext]_hostVars
  PROVE  NoneNumbered'
<1>1. job \in Job /\ logins \in Seq(Login) /\ job.gen = 0
  BY DEF LaunchTypeOK, NoneNumbered
<1>2. NoJob.gen = 0
  BY DEF NoJob
<1>3. CASE SpawnClient
  <2>1. job'.gen = 0
    BY <1>2, <1>3 DEF SpawnClient, Done
  <2>2. CASE UNCHANGED logins
    BY <2>1, <2>2 DEF NoneNumbered
  <2>3. CASE logins' # logins
    <3>1. PICK c : logins' = Append(logins, c) /\ c.gen = 0
      BY <1>1, <1>3, <2>3 DEF SpawnClient
    <3>2. QED
      BY <1>1, <2>1, <3>1 DEF NoneNumbered
  <2>4. QED
    BY <2>2, <2>3
<1>4. CASE Presses \/ CreateSeed \/ HostSelected \/ StopPressed
  <2>1. UNCHANGED logins /\ job'.gen = 0
    BY <1>4 DEF Presses, Press, CreateSeed, HostSelected, StopPressed, HostCall, NoJob, procs
  <2>2. QED
    BY <2>1 DEF NoneNumbered
<1>5. CASE ReadRequest \/ Prepare \/ RunWriters \/ Connect \/ SpawnGame \/ BootByHand \/ Generated
  <2>1. UNCHANGED logins
    BY <1>5 DEF ReadRequest, Prepare, RunWriters, Connect, SpawnGame, BootByHand, Boot, Generated,
       procs
  <2>2. job'.gen = 0
    BY <1>1, <1>2, <1>5 DEF ReadRequest, Prepare, RunWriters, Connect, SpawnGame, BootByHand,
       Boot, Generated, Done, Job
  <2>3. QED
    BY <2>1, <2>2 DEF NoneNumbered
<1>6. CASE \/ ReadRefused \/ PrepareRefused \/ BuildFails \/ Randomized \/ RecheckRefused
           \/ ActivateFails \/ VanillaDone \/ LaunchFails \/ LateRefused \/ Refused \/ WorkerDies
           \/ GenerationFails \/ HostRefused \/ SpawnFails \/ StartFails \/ IdentityFails
           \/ HandBack \/ StopServer \/ WindowDies
  <2>1. UNCHANGED logins /\ job'.gen = 0
    BY <1>2, <1>6 DEF ReadRefused, PrepareRefused, BuildFails, Randomized, RecheckRefused,
       ActivateFails, VanillaDone, LaunchFails, LateRefused, Refused, WorkerDies,
       GenerationFails, HostRefused, SpawnFails, StartFails, IdentityFails, HandBack,
       StopServer, WindowDies, Fail, Done, procs
  <2>2. QED
    BY <2>1 DEF NoneNumbered
<1>7. CASE \/ Evict \/ PublishBuild \/ Recheck \/ CheckStopped \/ Activate \/ WriteWitness
           \/ WriteConfig \/ LateCheck \/ LaunchVanilla \/ EditFields \/ QuitGame \/ QuitClient
           \/ Spoil \/ PortIsFree \/ SpawnServer \/ HearsReady \/ KeepIdentity \/ Poll
           \/ ServerListens \/ ServerEnds \/ UNCHANGED <<job, logins>>
  <2>1. UNCHANGED <<job, logins>>
    BY <1>7 DEF Evict, PublishBuild, Recheck, CheckStopped, Activate, WriteWitness, WriteConfig,
       LateCheck, LaunchVanilla, EditFields, QuitGame, QuitClient, Spoil, PortIsFree,
       SpawnServer, HearsReady, KeepIdentity, Poll, ServerListens, ServerEnds, procs, launchVars
  <2>2. QED
    BY <2>1 DEF NoneNumbered
<1>8. QED
  BY <1>3, <1>4, <1>5, <1>6, <1>7 DEF LaunchNext, PreparesSeed, Launches, Around, HostNext, Hosts,
     Launching, Presses, launchVars, hostVars, procs

(* A client of an activation that was verified is attached to a game that   *)
(* was booted from it, in every front.                                      *)
THEOREM FrontsAttachedBoot == FrontsSpec => []AttachedToVerifiedBoot
<1>1. LaunchInit => NoneNumbered
  BY DEF LaunchInit, NoJob, NoneNumbered
<1>2. NoneNumbered => AttachedToVerifiedBoot
  BY DEF NoneNumbered, AttachedToVerifiedBoot
<1>3. LaunchSpec => []AttachedToVerifiedBoot
  BY <1>1, <1>2, NumberedByAttach, LaunchTypeCorrect, PTL DEF LaunchSpec
<1>4. HostSpec => []AttachedToVerifiedBoot
  BY <1>1, <1>2, NumberedByAttach, HostTypeCorrect, PTL DEF HostSpec, HostInit
<1>5. IsFront => \/ front = "backend" \/ front = "standalone"
                 \/ front = "hosting" \/ front = "bblauncher"
  BY DEF IsFront
<1>6. QED
  BY <1>3, <1>4, <1>5, OneFront, NoWindow, FrontKnown, AttachedBoot, PTL
=============================================================================
