------------------------------ MODULE Delivery ------------------------------
(* The tool from end to end: the detours are installed, then grants run.    *)
(* The grant command takes the hooks for granted and never asks whether an  *)
(* install ended well (cli.py:337); it is explored after one that did, at   *)
(* the first command.                                                       *)
EXTENDS NativeGrant, DetourInstall

deliveryVars == <<vars, installVars>>

DeliveryInit == Init /\ InstallInit

Installing == runs = 0 /\ ~ready /\ InstallNext /\ UNCHANGED vars

\* Where the exploration of the grants begins.  No line of the tool checks it, and
\* no property or theorem rests on it.
Hooked ==
    /\ ipc = "installed" /\ installs = 1
    /\ \A t \in Thread : rip[t] = "elsewhere" /\ t \notin Frozen

Granting == Hooked /\ Next /\ UNCHANGED installVars

DeliveryNext == Installing \/ Granting

DeliverySpec == DeliveryInit /\ [][DeliveryNext]_deliveryVars
=============================================================================
