---------------------------- MODULE SeedSwitch ----------------------------
(***************************************************************************)
(* What the overlay transaction promises, without its directories: the     *)
(* game is switched from one overlay to another (or to none) as a whole.   *)
(* While a switch is pending the game may be shown the old overlay, the    *)
(* new one or nothing; when it ends it is shown the new one, verified, or  *)
(* exactly the old one.  The launcher switches nothing under a running     *)
(* game, and outside a switch it only moves aside what it may.             *)
(***************************************************************************)
CONSTANTS
  Tree,        \* what can be at the overlay's name
  Target,      \* what a switch can aim at
  None,        \* no switch is pending
  Absent,      \* nothing at the overlay's name: the vanilla game
  Void,        \* the old overlay was spoilt by the player meanwhile
  Delivers,    \* <<t, k>>: tree t is a verified build of target k
  Removable    \* trees the launcher may move aside outside a switch

VARIABLES
  shown,       \* what the game is shown
  saved,       \* what a switch that is abandoned must show again
  target,      \* what the pending switch aims at
  running,     \* the game runs
  busy         \* the launcher is at work

vars == <<shown, saved, target, running, busy>>

Init == shown = Absent /\ saved = Absent /\ target = None /\ ~running /\ ~busy

Call == ~busy /\ busy' /\ UNCHANGED <<shown, saved, target, running>>

Leave == busy /\ ~busy' /\ UNCHANGED <<shown, saved, target, running>>

Begin(k) ==
  /\ target = None
  /\ target' = k /\ saved' = shown
  /\ UNCHANGED shown

Show ==
  /\ target # None
  /\ shown' \in {saved, Absent} \/ <<shown', target>> \in Delivers
  /\ UNCHANGED <<saved, target>>

Commit ==
  /\ target # None /\ <<shown, target>> \in Delivers
  /\ target' = None /\ saved' = Absent
  /\ UNCHANGED shown

Abandon ==
  /\ target # None /\ saved \in {shown, Void}
  /\ target' = None /\ saved' = Absent
  /\ UNCHANGED shown

MoveAside ==
  /\ target = None /\ shown \in Removable
  /\ shown' = Absent
  /\ UNCHANGED <<saved, target>>

Work ==
  /\ busy /\ ~running
  /\ (\E k \in Target : Begin(k)) \/ Show \/ Commit \/ Abandon \/ MoveAside
  /\ busy' \in BOOLEAN
  /\ UNCHANGED running

(* Between calls the player edits overlays at will; spoiling the one that   *)
(* would have to be shown again voids the promise.                          *)
Edit ==
  /\ ~busy
  /\ shown' \in Tree
  /\ saved' \in {saved, Void}
  /\ target = None => saved' = saved
  /\ UNCHANGED <<target, running, busy>>

Play == ~busy /\ running' = ~running /\ UNCHANGED <<shown, saved, target, busy>>

Next == Call \/ Leave \/ Work \/ Edit \/ Play

Spec == Init /\ [][Next]_vars
===========================================================================
