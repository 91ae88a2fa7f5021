------------------------------- MODULE Fronts -------------------------------
(* The ways a play is started: BBLauncher's fork drives the backend of      *)
(* bb_launcher/integrated, the window launches by itself (integration mode  *)
(* "standalone"), the same window also hosts the room, or the window        *)
(* exports to BBLauncher and attaches to what it booted (mode "bblauncher").  A *)
(* behaviour is one of these: each refuses the calls of the others and they *)
(* share no state that these models keep.                                   *)
EXTENDS Session, External, LocalHost

VARIABLE front

frontVars == <<front, vars, externalVars, hosting>>

FrontsInit ==
  /\ front \in {"backend", "standalone", "hosting", "bblauncher"}
  /\ Init /\ ExternalInit /\ HostInit

Backend == front = "backend" /\ Next /\ UNCHANGED <<externalVars, hosting>>

Standalone ==
  front = "standalone" /\ LaunchNext /\ UNCHANGED <<vars, packages, hosting>>

Hosting == front = "hosting" /\ HostNext /\ UNCHANGED <<vars, packages>>

BBLauncherMode ==
  front = "bblauncher" /\ ExternalNext /\ UNCHANGED <<vars, hosting>>

FrontsNext == (Backend \/ Standalone \/ Hosting \/ BBLauncherMode) /\ UNCHANGED front

FrontsSpec == FrontsInit /\ [][FrontsNext]_frontVars
=============================================================================
