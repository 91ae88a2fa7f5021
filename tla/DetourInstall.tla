---------------------------- MODULE DetourInstall ----------------------------
(***************************************************************************)
(* `install --arm' of tools/bb_native_delivery: process.py:357 lays the    *)
(* state region and the caves, then threadcontrol.py:119 suspends every    *)
(* thread of the game, looks where each one is, writes the detours and     *)
(* resumes (docs/INSTALL-ATOMICITY.md).  The threads of the game run, come *)
(* and go meanwhile.  A write may fail, the tool may be killed before any  *)
(* step, and the command may be given again.                               *)
(***************************************************************************)
EXTENDS Naturals, FiniteSets

CONSTANTS
    Thread,      \* threads the game ever has
    Site,        \* hook sites: consume, heartbeat, hp
    Unborn,      \* threads that do not exist at the start
    ExitAt,      \* steps of the installer at which a thread may end,
    BornAt,      \*   at which one may be created
    Budget,      \* attempt_budget
    MaxInstalls  \* bound: commands given

ASSUME InstallAssumption ==
    /\ Unborn \subseteq Thread /\ Budget \in Nat \ {0} /\ MaxInstalls \in Nat

VARIABLES
    ipc,      \* where the installer is; "out" before and between commands
    rip,      \* where each thread executes: in the window of a site or elsewhere
    left,     \* threads that a command which was cut off has left suspended
    laid,     \* the state region, and the caves that are in place
    hook,     \* the bytes at each site
    listed,   \* locals of the installer: threads enumerated and not yet suspended,
    mine,     \*   those it has suspended,
    attempt,  \*   rounds begun,
    result,   \*   how the round under way ends
    installs,
    cutOff    \* history: a command did not get to its resumes

installer == <<listed, mine, attempt, result>>
image     == <<laid, hook>>
installVars == <<ipc, rip, left, image, installer, installs, cutOff>>

Regions == {"state"} \cup Site
InstallSteps == {"out", "lay", "list", "suspend", "write", "resume", "installed"}

InstallInit ==
    /\ ipc = "out"
    /\ rip = [t \in Thread |-> IF t \in Unborn THEN "unborn" ELSE "elsewhere"]
    /\ left = {}
    /\ laid = {} /\ hook = [s \in Site |-> "original"]
    /\ listed = {} /\ mine = {} /\ attempt = 0 /\ result = "none"
    /\ installs = 0 /\ cutOff = FALSE

Alive == {t \in Thread : rip[t] \notin {"unborn", "gone"}}

Frozen == mine \cup left

Leave(to) ==
    /\ ipc' = to
    /\ listed' = {} /\ mine' = {} /\ attempt' = 0 /\ result' = "none"

\* An exception or a kill that no finally answers.
CutOff == left' = Frozen /\ cutOff' = TRUE /\ Leave("out")

-----------------------------------------------------------------------------
(* install: require_validated_image, then the blobs that are no detours.    *)

Install ==
    /\ ipc = "out" /\ installs < MaxInstalls
    /\ \A s \in Site : hook[s] = "original"
    /\ ipc' = "lay" /\ installs' = installs + 1 /\ laid' = {}
    /\ UNCHANGED <<rip, left, hook, installer, cutOff>>

\* Mutant: a detour is written with the cave it leads to.
LayUntil == {"state"}

LaidFirst == Regions

Lay ==
    /\ ipc = "lay"
    /\ \/ \E r \in LaidFirst \ laid : laid' = laid \cup {r} /\ UNCHANGED ipc
       \/ LaidFirst \subseteq laid /\ ipc' = "list" /\ UNCHANGED laid
    /\ UNCHANGED <<rip, left, hook, installer, installs, cutOff>>

LayFails ==
    /\ ipc = "lay" /\ ipc' = "out"
    /\ UNCHANGED <<rip, left, image, installer, installs, cutOff>>

-----------------------------------------------------------------------------
(* install_detours_atomically                                               *)

Enumerate ==
    /\ ipc = "list" /\ attempt < Budget
    /\ ipc' = "suspend" /\ attempt' = attempt + 1
    /\ listed' = Alive
    /\ UNCHANGED <<rip, left, image, mine, result, installs, cutOff>>

\* InstallAborted: the budget is used up.
Abort ==
    /\ ipc = "list" /\ attempt = Budget
    /\ Leave("out")
    /\ UNCHANGED <<rip, left, image, installs, cutOff>>

Suspend(t) ==
    /\ ipc = "suspend" /\ t \in listed \cap Alive
    /\ listed' = listed \ {t}
    /\ mine' = mine \cup {t}
    /\ UNCHANGED <<ipc, rip, left, image, attempt, result, installs, cutOff>>

\* OpenThread fails for a thread that has ended: _suspend_all raises before the
\* try whose finally resumes what it has suspended.
SuspendRaises(t) ==
    /\ ipc = "suspend" /\ t \in listed \ Alive
    /\ CutOff
    /\ UNCHANGED <<rip, image, installs>>

\* Mutant: the threads are stopped but nobody looks where.
ClearBlindly == TRUE

Clear == \A t \in mine : rip[t] \notin Site

Look ==
    /\ ipc = "suspend" /\ listed = {}
    /\ IF Clear THEN ipc' = "write" /\ result' = "write"
                ELSE ipc' = "resume" /\ result' = "again"
    /\ UNCHANGED <<rip, left, image, listed, mine, attempt, installs, cutOff>>

WriteDetour ==
    /\ ipc = "write"
    /\ \E s \in Site : hook[s] = "original" /\ hook' = [hook EXCEPT ![s] = "detour"]
    /\ IF \A s \in Site : hook'[s] = "detour"
       THEN ipc' = "resume" /\ result' = "done" ELSE UNCHANGED <<ipc, result>>
    /\ UNCHANGED <<rip, left, laid, listed, mine, attempt, installs, cutOff>>

\* Mutant: a write that fails leaves the function at once.
WriteRaisesOut ==
    /\ ipc = "write" /\ left' = Frozen /\ Leave("out")
    /\ UNCHANGED <<rip, image, installs, cutOff>>

\* The finally of the round resumes all the same.
WriteRaises ==
    /\ ipc = "write" /\ ipc' = "resume" /\ result' = "raised"
    /\ UNCHANGED <<rip, left, image, listed, mine, attempt, installs, cutOff>>

Resume ==
    /\ ipc = "resume"
    /\ \/ \E t \in mine :
            /\ mine' = mine \ {t}
            /\ UNCHANGED <<ipc, listed, attempt, result>>
       \/ mine = {} /\ result = "again" /\ ipc' = "list" /\ UNCHANGED installer
       \/ mine = {} /\ result = "done" /\ Leave("installed")
       \/ mine = {} /\ result = "raised" /\ Leave("out")
    /\ UNCHANGED <<rip, left, image, installs, cutOff>>

InstallerKilled ==
    /\ ipc \notin {"out", "installed"} /\ CutOff
    /\ UNCHANGED <<rip, image, installs>>

-----------------------------------------------------------------------------
(* The threads of the game.                                                 *)

Run(t) ==
    /\ t \in Alive \ Frozen /\ ipc # "installed"
    /\ \/ rip[t] = "elsewhere" /\ \E s \in Site : rip' = [rip EXCEPT ![t] = s]
       \/ rip[t] # "elsewhere" /\ rip' = [rip EXCEPT ![t] = "elsewhere"]
    /\ UNCHANGED <<ipc, left, image, installer, installs, cutOff>>

EndThread(t) ==
    /\ t \in Alive \ Frozen /\ ipc \in ExitAt
    /\ rip' = [rip EXCEPT ![t] = "gone"]
    /\ UNCHANGED <<ipc, left, image, installer, installs, cutOff>>

CreateThread(t) ==
    /\ rip[t] = "unborn" /\ Alive \ Frozen # {} /\ ipc \in BornAt
    /\ rip' = [rip EXCEPT ![t] = "elsewhere"]
    /\ UNCHANGED <<ipc, left, image, installer, installs, cutOff>>

-----------------------------------------------------------------------------
Installer ==
    Install \/ Lay \/ LayFails \/ Enumerate \/ Abort \/ Look \/ WriteDetour
    \/ WriteRaises \/ Resume \/ InstallerKilled
    \/ \E t \in Thread : Suspend(t) \/ SuspendRaises(t)

Threads == \E t \in Thread : Run(t) \/ EndThread(t) \/ CreateThread(t)

InstallNext == Installer \/ Threads

InstallSpec == InstallInit /\ [][InstallNext]_installVars

-----------------------------------------------------------------------------
(* Properties.                                                              *)

\* Every variable holds what the tool can put there.
InstallTypeOK ==
    /\ ipc \in InstallSteps
    /\ rip \in [Thread -> Site \cup {"elsewhere", "unborn", "gone"}]
    /\ left \subseteq Thread /\ laid \subseteq Regions
    /\ hook \in [Site -> {"original", "detour"}]
    /\ listed \subseteq Thread /\ mine \subseteq Thread
    /\ attempt \in 0 .. Budget
    /\ result \in {"none", "again", "write", "done", "raised"}
    /\ installs \in 0 .. MaxInstalls /\ cutOff \in BOOLEAN

\* docs/INSTALL-ATOMICITY.md: verification cannot make the write safe, "only ...
\* making sure no thread is inside the window when the bytes change"; and no jump
\* is there before the cave and the state it leads to.
NobodyUnderTheWrite ==
    [][\A s \in Site : hook'[s] # hook[s] =>
         /\ \A t \in Alive : t \in Frozen /\ rip[t] # s
         /\ {"state", s} \subseteq laid]_installVars

\* "A leaked suspend is its own hang": whenever a command is over, however it
\* ended, every thread of the game runs, unless the tool was killed, or a thread
\* ended between the enumeration and its suspension.
NobodyStaysFrozen == ipc \in {"out", "installed"} /\ ~cutOff => Frozen = {}
=============================================================================
