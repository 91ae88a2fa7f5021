--------------------------- MODULE DeliveryProofs ---------------------------
(***************************************************************************)
(* Proofs about the native grant tool.  First its grants: what the request *)
(* cell and the journal say of each other, run after run, and how often a  *)
(* tag is given, for any tags, kinds, counts and numbers of runs.  Then    *)
(* its install: that it neither overwrites code a thread executes nor      *)
(* leaves a thread suspended, for any threads, sites, rounds and commands. *)
(* Last the two together.                                                  *)
(***************************************************************************)
EXTENDS Delivery, TLAPS

(* Only a run that has staged a request arms the cell, and the gate lets no *)
(* run begin over an armed one.                                             *)
FreeInv ==
  /\ active => tpc \in {"poll", "close"}
  /\ tpc \in {"record", "queue", "stage", "size", "arm"} => cell.request = "none"
  /\ tpc = "poll" /\ ~active => cell.request = "none"

(* The arguments of an armed request, and of the one being staged, are of   *)
(* one run.                                                                 *)
WholeInv ==
  /\ tpc \in {"size", "arm", "armed"} => cell.staged = run.tag
  /\ tpc \in {"arm", "armed"} => cell.sized = run.tag
  /\ cell.request # "none" =>
       /\ cell.armed \in Tag
       /\ cell.staged = cell.armed /\ cell.sized = cell.armed

(* A done mark seen by the run that armed the cell is that of its request.  *)
FlightInv ==
  /\ tpc = "arm" => ~cell.done
  /\ tpc = "armed" \/ active =>
       /\ cell.armed = run.tag
       /\ cell.done => cell.request = "none" /\ given[run.tag] >= 1

(* What a run is about to write into the journal is true.                   *)
CloseInv ==
  /\ status \in Terminal \cup {"interrupted"} => tpc = "close"
  /\ tpc = "close" =>
       /\ status \in Terminal => cell.request = "none"
       /\ status = "completed" => given[run.tag] >= 1

AccountInv ==
  /\ tpc \in {"poll", "queue"} \cup Staging => lossy \/ journal[run.tag] = "armed"
  /\ ArmedIsAccounted
  /\ CompletedWasGiven

CellInv == FreeInv /\ WholeInv /\ FlightInv

Safe == CellInv /\ CloseInv /\ AccountInv

-----------------------------------------------------------------------------
(* Every reachable state is well typed. *)
LEMMA NoRunOK ==
  NoRun \in [tag : Tag \cup {NoTag}, count : {"none", "first", "now"}, clear : BOOLEAN]
BY DEF NoRun

LEMMA BudgetOK ==
  0 \in 0 .. MinAbsent + MaxVerify /\ 0 < MinAbsent + MaxVerify /\ 0 \in Nat
BY NativeAssumption

LEMMA TypeInit == Init => TypeOK
<1> SUFFICES ASSUME Init PROVE TypeOK
  OBVIOUS
<1>1. RunOK
  BY NoRunOK, BudgetOK DEF Init, RunOK, Status, Waiting
<1>2. GameOK
  BY NativeAssumption DEF Init, GameOK, IdleCell
<1>3. JournalOK
  BY DEF Init, JournalOK, EmptyJournal, Unnoted
<1>4. QED
  BY <1>1, <1>2, <1>3 DEF TypeOK

LEMMA OffRunOK == Off => RunOK'
BY NoRunOK, BudgetOK DEF RunOK, Off, Status, Waiting

LEMMA SameGame == GameOK /\ UNCHANGED game => GameOK'
BY DEF GameOK, game

LEMMA SameJournal ==
  JournalOK /\ UNCHANGED <<journal, history, runs, moves>> => JournalOK'
BY DEF JournalOK, history

LEMMA CellGameOK ==
  ASSUME TypeOK, UNCHANGED <<held, ready, given>>,
         cell' \in [request : {"none", "insert", "existing"}, staged : Tag \cup {NoTag},
                   sized : Tag \cup {NoTag}, armed : Tag \cup {NoTag}, done : BOOLEAN]
  PROVE  GameOK'
BY DEF TypeOK, GameOK

LEMMA TypeStart ==
  ASSUME TypeOK, NEW t \in Tag, NEW c \in Count, NEW clear \in BOOLEAN, NEW force \in Forced,
         Start(t, c, clear, force)
  PROVE  TypeOK'
<1>1. c \in {"none", "first", "now"} /\ held[Item[t]] \in Nat
  BY NativeAssumption DEF TypeOK, GameOK
<1>2. Expected(t, c) \in Nat
  BY <1>1 DEF TypeOK, JournalOK, Expected
<1>3. first' \in [Tag -> [noted : BOOLEAN, spoilt : BOOLEAN, count : Nat]]
  BY <1>1 DEF TypeOK, JournalOK, Start
<1>4. recounted' \subseteq Tag \X {"settled", "open"}
  BY DEF TypeOK, JournalOK, Start, Outcome
<1>5. RunOK'
  <2>1. run' \in [tag : Tag \cup {NoTag}, count : {"none", "first", "now"}, clear : BOOLEAN]
        /\ run'.tag \in Tag
    BY <1>1 DEF Start
  <2>2. baseline' \in Nat
    BY <1>2, BudgetOK DEF Start
  <2>3. QED
    BY <2>1, <2>2, BudgetOK DEF RunOK, Start, Status, Waiting
<1>6. GameOK' /\ JournalOK'
  BY <1>3, <1>4, SameGame DEF TypeOK, JournalOK, Start
<1>7. QED
  BY <1>5, <1>6 DEF TypeOK

LEMMA TypeCommand == TypeOK /\ Command => TypeOK'
<1> SUFFICES ASSUME TypeOK, Command PROVE TypeOK'
  OBVIOUS
<1>1. CASE \E t \in Tag, c \in Count, clear \in BOOLEAN, force \in Forced :
             Start(t, c, clear, force)
  BY <1>1, TypeStart
<1>2. CASE Gate
  <2>1. RunOK' /\ JournalOK'
    BY <1>2, SameJournal DEF Gate, TypeOK, RunOK, session
  <2>2. GameOK'
    BY <1>2, CellGameOK DEF Gate, TypeOK, GameOK, IdleCell
  <2>3. QED
    BY <2>1, <2>2 DEF TypeOK
<1>3. CASE GateRefuses
  BY <1>3, OffRunOK, SameGame, SameJournal DEF GateRefuses, TypeOK
<1>4. CASE RecordArmed
  <2>1. RunOK' /\ GameOK'
    BY <1>4, SameGame DEF RecordArmed, TypeOK, RunOK, session
  <2>2. JournalOK'
    BY <1>4 DEF RecordArmed, Record, TypeOK, JournalOK
  <2>3. QED
    BY <2>1, <2>2 DEF TypeOK
<1>5. QED
  BY <1>1, <1>2, <1>3, <1>4 DEF Command

LEMMA TypeStays ==
  ASSUME TypeOK, NEW s \in Status, Stays(s), exists' \in BOOLEAN,
         polls' \in 0 .. MinAbsent + MaxVerify - 1, tpc # "off"
  PROVE  TypeOK'
<1>1. RunOK'
  BY NativeAssumption DEF TypeOK, RunOK, Stays
<1>2. QED
  BY <1>1, SameGame, SameJournal DEF TypeOK, Stays

LEMMA TypeFinish ==
  ASSUME TypeOK, NEW s \in Status, Finish(s), exists' \in BOOLEAN, baseline' \in Nat,
         polls' \in 0 .. MinAbsent + MaxVerify, tpc # "off"
  PROVE  TypeOK'
<1>1. RunOK'
  BY DEF TypeOK, RunOK, Finish
<1>2. QED
  BY <1>1, SameGame, SameJournal DEF TypeOK, Finish

LEMMA TypePoll == TypeOK /\ Poll => TypeOK'
<1> SUFFICES ASSUME TypeOK, Poll PROVE TypeOK'
  OBVIOUS
<1>1. /\ {"awaiting_inventory", "read_unavailable", "executing", "verify_pending"} \subseteq Status
      /\ Terminal \subseteq Status
  BY DEF Status, Waiting, InFlight
<1>2. polls \in Nat /\ (tpc = "poll" => polls + 1 \in 0 .. MinAbsent + MaxVerify)
  BY NativeAssumption DEF TypeOK, RunOK
<1>3. CASE Unavailable \/ AwaitCave
  <2>1. exists' \in BOOLEAN /\ polls' \in 0 .. MinAbsent + MaxVerify - 1 /\ tpc # "off"
    BY <1>3, <1>2, NativeAssumption DEF Unavailable, AwaitCave, TypeOK, RunOK
  <2>2. QED
    BY <1>3, <1>1, <2>1, TypeStays DEF Unavailable, AwaitCave
<1>4. CASE AwaitHydration
  BY <1>4, <1>1, <1>2, TypeStays, NativeAssumption DEF AwaitHydration, TypeOK, RunOK
<1>5. CASE Scan
  <2>1. Item[run.tag] \in Kind /\ held[Item[run.tag]] \in Nat
    BY <1>5, NativeAssumption DEF Scan, TypeOK, RunOK, GameOK
  <2>2. /\ exists' \in BOOLEAN /\ baseline' \in Nat
        /\ polls' \in 0 .. MinAbsent + MaxVerify - 1
    BY <1>5, <2>1, NativeAssumption DEF Scan, TypeOK, RunOK, Exists, Baseline
  <2>3. CASE Finish("recovered_complete") \/ Finish("quantity_mismatch") \/ Finish("failed")
    <3>1. tpc # "off" /\ polls' \in 0 .. MinAbsent + MaxVerify
      BY <1>5, <2>2, NativeAssumption DEF Scan
    <3>2. QED
      BY <2>2, <2>3, <3>1, <1>1, TypeFinish DEF Terminal
  <2>4. CASE tpc' = "queue" /\ UNCHANGED <<run, status, active, refused, journal, game,
                                           history, runs, moves>>
    <3>1. RunOK'
      BY <1>5, <2>2, <2>4, NativeAssumption DEF Scan, TypeOK, RunOK
    <3>2. QED
      BY <2>4, <3>1, SameGame, SameJournal DEF TypeOK
  <2>5. QED
    BY <1>5, <2>3, <2>4 DEF Scan
<1>6. CASE Queue
  <2>1. RunOK'
    BY <1>6 DEF Queue, TypeOK, RunOK, session, Staging
  <2>2. QED
    BY <1>6, <2>1, SameGame, SameJournal DEF Queue, TypeOK
<1>7. CASE Stage \/ Size \/ Arm
  <2>1. RunOK' /\ JournalOK'
    BY <1>7, SameJournal DEF Stage, Size, Arm, TypeOK, RunOK, session, Staging
  <2>2. GameOK'
    BY <1>7, CellGameOK DEF Stage, Size, Arm, TypeOK, RunOK, GameOK
  <2>3. QED
    BY <2>1, <2>2 DEF TypeOK
<1>8. CASE Armed
  <2>1. RunOK'
    BY <1>8, <1>1, NativeAssumption DEF Armed, TypeOK, RunOK
  <2>2. QED
    BY <1>8, <2>1, SameGame, SameJournal DEF Armed, TypeOK
<1>9. CASE Complete
  BY <1>9, <1>1, <1>2, TypeFinish DEF Complete, Terminal, TypeOK, RunOK
<1>10. CASE Verify
  <2>1. CASE polls + 1 < MaxVerify /\ Stays("verify_pending") /\ UNCHANGED exists
    BY <1>10, <2>1, <1>1, <1>2, TypeStays, NativeAssumption DEF Verify, TypeOK, RunOK
  <2>2. CASE polls + 1 >= MaxVerify /\ Finish("failed") /\ UNCHANGED <<exists, baseline>>
    BY <1>10, <2>2, <1>1, <1>2, TypeFinish DEF Verify, Terminal, TypeOK, RunOK
  <2>3. QED
    BY <1>10, <2>1, <2>2 DEF Verify
<1>11. QED
  BY <1>3, <1>4, <1>5, <1>6, <1>7, <1>8, <1>9, <1>10 DEF Poll

LEMMA TypeEnd == TypeOK /\ End => TypeOK'
<1> SUFFICES ASSUME TypeOK, End PROVE TypeOK'
  OBVIOUS
<1>1. CASE TimeOut
  <2>1. RunOK'
    BY <1>1 DEF TimeOut, TypeOK, RunOK, session
  <2>2. QED
    BY <1>1, <2>1, SameGame, SameJournal DEF TimeOut, TypeOK
<1>2. CASE Interrupt
  <2>1. RunOK'
    BY <1>2 DEF Interrupt, Disarm, TypeOK, RunOK, Staging
  <2>2. GameOK' /\ JournalOK'
    BY <1>2, CellGameOK, SameJournal DEF Interrupt, Disarm, TypeOK, GameOK
  <2>3. QED
    BY <2>1, <2>2 DEF TypeOK
<1>3. CASE Close
  <2>1. JournalOK'
    BY <1>3 DEF Close, Record, TypeOK, RunOK, JournalOK
  <2>2. QED
    BY <1>3, <2>1, OffRunOK, SameGame DEF Close, TypeOK
<1>4. CASE Kill
  <2>1. JournalOK'
    BY <1>4 DEF Kill, TypeOK, JournalOK, EmptyJournal
  <2>2. QED
    BY <1>4, <2>1, OffRunOK, SameGame DEF Kill, TypeOK
<1>5. CASE InterruptLate
  <2>1. RunOK'
    BY <1>5 DEF InterruptLate, TypeOK, RunOK
  <2>2. QED
    BY <1>5, <2>1, SameGame, SameJournal DEF InterruptLate, TypeOK
<1>6. QED
  BY <1>1, <1>2, <1>3, <1>4, <1>5 DEF End

LEMMA SameRun == RunOK /\ UNCHANGED <<tpc, session>> => RunOK'
BY DEF RunOK, session

LEMMA CountChanged ==
  ASSUME NEW S, NEW f \in [S -> Nat], NEW k, NEW n, k \in S => n \in Nat
  PROVE  [f EXCEPT ![k] = n] \in [S -> Nat]
OBVIOUS

LEMMA TypeMove ==
  ASSUME TypeOK, NEW k \in Kind, NEW n \in Nat, Move(k, n)
  PROVE  TypeOK'
<1>1. RunOK' /\ GameOK'
  BY SameRun DEF Move, TypeOK, GameOK
<1>2. first' \in [Tag -> [noted : BOOLEAN, spoilt : BOOLEAN, count : Nat]]
  BY DEF Move, TypeOK, JournalOK
<1>3. recounted' \subseteq Tag \X {"settled", "open"}
  <2>1. tpc # "off" => run.tag \in Tag
    BY DEF Move, TypeOK, RunOK
  <2>2. QED
    BY <2>1 DEF Move, TypeOK, JournalOK
<1>4. QED
  BY <1>1, <1>2, <1>3 DEF Move, TypeOK, JournalOK

LEMMA TypeGame == TypeOK /\ Game => TypeOK'
<1> SUFFICES ASSUME TypeOK, Game PROVE TypeOK'
  OBVIOUS
<1>1. CASE Publish
  BY <1>1, SameRun, SameJournal DEF Publish, TypeOK, GameOK
<1>2. CASE CaveRuns
  <2>1. RunOK' /\ JournalOK'
    BY <1>2, SameRun, SameJournal DEF CaveRuns, TypeOK
  <2>2. \A k \in Kind : Least(Cap, held[k] + Quantity) \in Nat
    BY NativeAssumption DEF TypeOK, GameOK, Least
  <2>3. held' \in [Kind -> Nat] /\ given' \in [Tag -> Nat]
    <3>1. held' \in [Kind -> Nat]
      BY <1>2, <2>2, CountChanged DEF CaveRuns, TypeOK, GameOK
    <3>2. given' \in [Tag -> Nat]
      <4>1. \A t \in Tag : given[t] + 1 \in Nat
        BY DEF TypeOK, GameOK
      <4>2. QED
        BY <1>2, <4>1, CountChanged DEF CaveRuns, TypeOK, GameOK
    <3>3. QED
      BY <3>1, <3>2
  <2>4. GameOK'
    BY <1>2, <2>3 DEF CaveRuns, TypeOK, GameOK
  <2>5. QED
    BY <2>1, <2>4 DEF TypeOK
<1>3. CASE Gain
  BY <1>3, TypeMove DEF Gain, TypeOK, GameOK
<1>4. CASE Use
  BY <1>4, TypeMove DEF Use, TypeOK, GameOK
<1>5. QED
  BY <1>1, <1>2, <1>3, <1>4 DEF Game

LEMMA TypeStep == TypeOK /\ [Next]_vars => TypeOK'
<1> SUFFICES ASSUME TypeOK, [Next]_vars PROVE TypeOK'
  OBVIOUS
<1>1. CASE UNCHANGED vars
  BY <1>1, SameRun, SameGame, SameJournal DEF vars, TypeOK
<1>2. QED
  BY <1>1, TypeCommand, TypePoll, TypeEnd, TypeGame DEF Next

(* Whatever cuts runs short, the tool, the cell and the journal stay well  *)
(* typed, and the retry budgets of a run are respected.                    *)
THEOREM TypeCorrect == Spec => []TypeOK
BY TypeInit, TypeStep, PTL DEF Spec

-----------------------------------------------------------------------------
(* The invariant of the cell, action by action. *)

LEMMA SafeInit == Init => Safe
BY DEF Init, Safe, CellInv, FreeInv, WholeInv, FlightInv, CloseInv, AccountInv,
   ArmedIsAccounted, CompletedWasGiven, IdleCell, EmptyJournal, Terminal, Staging

(* A run that ends and takes nothing with it: the cell keeps what it holds. *)
LEMMA SafeOff ==
  ASSUME Safe, Off, UNCHANGED <<cell, given>>, lossy => lossy',
         \A t \in Tag : journal'[t] \in Terminal =>
           \/ journal'[t] = journal[t]
           \/ /\ cell.request = "none"
              /\ journal'[t] = "completed" => given[t] >= 1
  PROVE  Safe'
<1>1. CellInv' /\ CloseInv'
  BY DEF Off, Safe, CellInv, FreeInv, WholeInv, FlightInv, CloseInv, Terminal
<1>2. ArmedIsAccounted'
  BY DEF Safe, CellInv, WholeInv, AccountInv, ArmedIsAccounted
<1>3. CompletedWasGiven'
  BY DEF Safe, AccountInv, CompletedWasGiven, Terminal
<1>4. QED
  BY <1>1, <1>2, <1>3 DEF Safe, AccountInv, Off, Staging

LEMMA SafeCommand == TypeOK /\ Safe /\ Command => Safe'
<1> SUFFICES ASSUME TypeOK, Safe, Command PROVE Safe'
  OBVIOUS
<1>1. CASE \E t \in Tag, c \in Count, clear \in BOOLEAN, force \in Forced :
             Start(t, c, clear, force)
  BY <1>1 DEF Start, game, Safe, CellInv, FreeInv, WholeInv, FlightInv, CloseInv,
     AccountInv, ArmedIsAccounted, CompletedWasGiven, Terminal, Staging
<1>2. CASE Gate
  BY <1>2 DEF Gate, session, IdleCell, Safe, CellInv, FreeInv, WholeInv, FlightInv,
     CloseInv, AccountInv, ArmedIsAccounted, CompletedWasGiven, Terminal, Staging
<1>3. CASE GateRefuses
  BY <1>3, SafeOff DEF GateRefuses, game, history
<1>4. CASE RecordArmed
  <2>1. CellInv' /\ CloseInv'
    BY <1>4 DEF RecordArmed, session, game, Safe, CellInv, FreeInv, WholeInv, FlightInv,
       CloseInv
  <2>2. AccountInv'
    BY <1>4 DEF RecordArmed, Record, session, game, Safe, CellInv, FreeInv, AccountInv,
       ArmedIsAccounted, CompletedWasGiven, TypeOK, RunOK, JournalOK
  <2>3. QED
    BY <2>1, <2>2 DEF Safe
<1>5. QED
  BY <1>1, <1>2, <1>3, <1>4 DEF Command

LEMMA SafeStays ==
  ASSUME Safe, NEW s \in Waiting \cup InFlight, Stays(s), tpc = "poll"
  PROVE  Safe'
<1>1. s \notin Terminal \cup {"interrupted"}
  BY DEF Waiting, InFlight, Terminal
<1>2. QED
  BY <1>1 DEF Stays, game, history, Safe, CellInv, FreeInv, WholeInv, FlightInv, CloseInv,
     AccountInv, ArmedIsAccounted, CompletedWasGiven, Staging

LEMMA SafeFinish ==
  ASSUME Safe, NEW s \in Terminal, Finish(s), tpc = "poll", cell.request = "none",
         s = "completed" => given[run.tag] >= 1
  PROVE  Safe'
<1>1. s # "interrupted"
  BY DEF Terminal
<1>2. QED
  BY <1>1 DEF Finish, game, history, Safe, CellInv, FreeInv, WholeInv, FlightInv, CloseInv,
     AccountInv, ArmedIsAccounted, CompletedWasGiven, Staging

LEMMA SafePoll == TypeOK /\ Safe /\ Poll => Safe'
<1> SUFFICES ASSUME TypeOK, Safe, Poll PROVE Safe'
  OBVIOUS
<1>1. {"awaiting_inventory", "read_unavailable", "executing", "verify_pending"}
        \subseteq Waiting \cup InFlight
  BY DEF Waiting, InFlight
<1>2. CASE Unavailable \/ AwaitHydration \/ AwaitCave
  BY <1>1, <1>2, SafeStays DEF Unavailable, AwaitHydration, AwaitCave
<1>3. CASE Scan
  <2>1. cell.request = "none"
    BY <1>3 DEF Scan, Safe, CellInv, FreeInv
  <2>2. CASE Finish("recovered_complete") \/ Finish("quantity_mismatch") \/ Finish("failed")
    BY <1>3, <2>1, <2>2, SafeFinish DEF Scan, Terminal
  <2>3. CASE tpc' = "queue" /\ UNCHANGED <<run, status, active, refused, journal, game,
                                           history, runs, moves>>
    BY <1>3, <2>1, <2>3 DEF Scan, game, history, Safe, CellInv, FreeInv, WholeInv,
       FlightInv, CloseInv, AccountInv, ArmedIsAccounted, CompletedWasGiven, Staging
  <2>4. QED
    BY <1>3, <2>2, <2>3 DEF Scan
<1>4. CASE Queue
  BY <1>4 DEF Queue, session, game, history, Safe, CellInv, FreeInv, WholeInv, FlightInv,
     CloseInv, AccountInv, ArmedIsAccounted, CompletedWasGiven, Staging
<1>5. CASE Stage \/ Size \/ Arm
  <2>1. cell.request = "none" /\ tpc \in {"stage", "size", "arm"} /\ ~active
        /\ run.tag \in Tag
    BY <1>5 DEF Stage, Size, Arm, Safe, CellInv, FreeInv, TypeOK, RunOK
  <2>2. CellInv'
    <3>1. CASE Stage
      <4>1. cell'.request = "none" /\ cell'.staged = run.tag
        BY <2>1, <3>1 DEF Stage, TypeOK, GameOK
      <4>2. QED
        BY <2>1, <3>1, <4>1 DEF Stage, session, CellInv, FreeInv, WholeInv, FlightInv
    <3>2. CASE Size
      <4>1. /\ cell'.request = "none" /\ cell'.staged = cell.staged
            /\ cell'.sized = run.tag /\ cell'.done = FALSE
        BY <2>1, <3>2 DEF Size, TypeOK, GameOK
      <4>2. cell.staged = run.tag
        BY <3>2 DEF Size, Safe, CellInv, WholeInv
      <4>3. QED
        BY <2>1, <3>2, <4>1, <4>2 DEF Size, session, CellInv, FreeInv, WholeInv, FlightInv
    <3>3. CASE Arm
      <4>1. /\ cell'.armed = run.tag /\ cell'.staged = cell.staged
            /\ cell'.sized = cell.sized /\ cell'.done = cell.done
        BY <2>1, <3>3 DEF Arm, TypeOK, GameOK
      <4>2. cell.staged = run.tag /\ cell.sized = run.tag /\ ~cell.done
        BY <3>3 DEF Arm, Safe, CellInv, WholeInv, FlightInv
      <4>3. QED
        BY <2>1, <3>3, <4>1, <4>2 DEF Arm, session, CellInv, FreeInv, WholeInv, FlightInv
    <3>4. QED
      BY <1>5, <3>1, <3>2, <3>3
  <2>3. CloseInv'
    BY <1>5, <2>1 DEF Stage, Size, Arm, session, Safe, CloseInv
  <2>4. AccountInv'
    <3>1. cell'.request # "none" => cell'.armed = run.tag
      BY <1>5, <2>1 DEF Stage, Size, Arm, TypeOK, GameOK
    <3>2. lossy \/ journal[run.tag] = "armed"
      BY <2>1 DEF Safe, AccountInv, Staging
    <3>3. QED
      BY <1>5, <2>1, <3>1, <3>2 DEF Stage, Size, Arm, session, history, Safe, AccountInv,
         ArmedIsAccounted, CompletedWasGiven, Terminal, Staging
  <2>5. QED
    BY <2>2, <2>3, <2>4 DEF Safe
<1>6. CASE Armed
  BY <1>6 DEF Armed, game, history, Safe, CellInv, FreeInv, WholeInv, FlightInv, CloseInv,
     AccountInv, ArmedIsAccounted, CompletedWasGiven, Terminal, Staging
<1>7. CASE Complete
  <2>1. cell.request = "none" /\ given[run.tag] >= 1
    BY <1>7 DEF Complete, Safe, CellInv, FlightInv
  <2>2. QED
    BY <1>7, <2>1, SafeFinish DEF Complete, Terminal
<1>8. CASE Verify
  <2>1. cell.request = "none"
    BY <1>8 DEF Verify, Safe, CellInv, FlightInv
  <2>2. CASE Stays("verify_pending")
    BY <1>1, <1>8, <2>2, SafeStays DEF Verify
  <2>3. CASE Finish("failed")
    BY <1>8, <2>1, <2>3, SafeFinish DEF Verify, Terminal
  <2>4. QED
    BY <1>8, <2>2, <2>3 DEF Verify
<1>9. QED
  BY <1>2, <1>3, <1>4, <1>5, <1>6, <1>7, <1>8 DEF Poll

LEMMA SafeEnd == TypeOK /\ Safe /\ End => Safe'
<1> SUFFICES ASSUME TypeOK, Safe, End PROVE Safe'
  OBVIOUS
<1>1. CASE TimeOut
  BY <1>1 DEF TimeOut, session, game, history, Safe, CellInv, FreeInv, WholeInv, FlightInv,
     CloseInv, AccountInv, ArmedIsAccounted, CompletedWasGiven, Terminal, Staging
<1>2. CASE Interrupt
  <2>1. /\ cell'.request \in {cell.request, "none"}
        /\ cell'.armed = cell.armed /\ cell'.staged = cell.staged
        /\ cell'.sized = cell.sized /\ cell'.done = cell.done
    BY <1>2 DEF Interrupt, Disarm, TypeOK, GameOK
  <2>2. CellInv'
    BY <1>2, <2>1 DEF Interrupt, Safe, CellInv, FreeInv, WholeInv, FlightInv
  <2>3. CloseInv' /\ AccountInv'
    BY <1>2, <2>1 DEF Interrupt, history, Safe, CloseInv, AccountInv, ArmedIsAccounted,
       CompletedWasGiven, Terminal, Staging
  <2>4. QED
    BY <2>2, <2>3 DEF Safe
<1>3. CASE Close
  <2>1. \A t \in Tag : journal'[t] \in Terminal =>
          \/ journal'[t] = journal[t]
          \/ cell.request = "none" /\ (journal'[t] = "completed" => given[t] >= 1)
    BY <1>3 DEF Close, Record, Safe, CloseInv, TypeOK, RunOK, JournalOK
  <2>2. QED
    BY <1>3, <2>1, SafeOff DEF Close, Record, game
<1>4. CASE Kill
  BY <1>4, SafeOff DEF Kill, EmptyJournal, game, Terminal
<1>5. CASE InterruptLate
  BY <1>5 DEF InterruptLate, game, history, Safe, CellInv, FreeInv, WholeInv, FlightInv,
     CloseInv, AccountInv, ArmedIsAccounted, CompletedWasGiven, Terminal, Staging
<1>6. QED
  BY <1>1, <1>2, <1>3, <1>4, <1>5 DEF End

LEMMA SafeGame == TypeOK /\ Safe /\ Game => Safe'
<1> SUFFICES ASSUME TypeOK, Safe, Game PROVE Safe'
  OBVIOUS
<1>1. CASE Publish \/ Gain \/ Use
  BY <1>1 DEF Publish, Gain, Use, Move, session, history, Safe, CellInv, FreeInv, WholeInv,
     FlightInv, CloseInv, AccountInv, ArmedIsAccounted, CompletedWasGiven, Terminal, Staging
<1>2. CASE CaveRuns
  <2>1. /\ cell'.request = "none"
        /\ cell'.armed = cell.armed /\ cell'.staged = cell.staged
        /\ cell'.sized = cell.sized
        /\ cell.armed \in Tag
    BY <1>2 DEF CaveRuns, TypeOK, GameOK, Safe, CellInv, WholeInv
  <2>2. given'[cell.armed] >= 1 /\ \A t \in Tag : given[t] >= 1 => given'[t] >= 1
    BY <1>2, <2>1 DEF CaveRuns, TypeOK, GameOK
  <2>3. CellInv'
    BY <1>2, <2>1, <2>2 DEF CaveRuns, session, Safe, CellInv, FreeInv, WholeInv, FlightInv
  <2>4. CloseInv'
    BY <1>2, <2>1, <2>2 DEF CaveRuns, session, Safe, CloseInv, Terminal, TypeOK, RunOK
  <2>5. AccountInv'
    BY <1>2, <2>1, <2>2 DEF CaveRuns, session, history, Safe, AccountInv, ArmedIsAccounted,
       CompletedWasGiven, Staging
  <2>6. QED
    BY <2>3, <2>4, <2>5 DEF Safe
<1>3. QED
  BY <1>1, <1>2 DEF Game

LEMMA SafeStep == TypeOK /\ Safe /\ [Next]_vars => Safe'
<1> SUFFICES ASSUME TypeOK, Safe, [Next]_vars PROVE Safe'
  OBVIOUS
<1>1. CASE UNCHANGED vars
  BY <1>1 DEF vars, session, game, history, Safe, CellInv, FreeInv, WholeInv, FlightInv,
     CloseInv, AccountInv, ArmedIsAccounted, CompletedWasGiven, Terminal, Staging
<1>2. QED
  BY <1>1, SafeCommand, SafePoll, SafeEnd, SafeGame DEF Next

LEMMA SafeAlways == Spec => [](TypeOK /\ Safe)
BY TypeInit, TypeStep, SafeInit, SafeStep, PTL DEF Spec

-----------------------------------------------------------------------------
(* An armed request is never one the journal calls settled, however the    *)
(* runs before it ended.                                                   *)
THEOREM Accounted == Spec => []ArmedIsAccounted
BY SafeAlways, PTL DEF Safe, AccountInv

(* What the journal calls completed has been through the cave. *)
THEOREM CompletedGiven == Spec => []CompletedWasGiven
BY SafeAlways, PTL DEF Safe, AccountInv

(* A run stages its request over an idle cell. *)
THEOREM CellFree == Spec => []CellIsFree
<1>1. Safe => CellIsFree
  BY DEF Safe, CellInv, FreeInv, CellIsFree
<1>2. QED
  BY <1>1, SafeAlways, PTL

(* The cave executes what one run staged, whole. *)
THEOREM RunsWholeRequest == Spec => CaveRunsWholeRequest
<1>1. TypeOK /\ Safe /\ [Next]_vars
        => [given' # given => cell.staged = cell.armed /\ cell.sized = cell.armed]_vars
  <2> SUFFICES ASSUME Safe, Next, given' # given
               PROVE  cell.staged = cell.armed /\ cell.sized = cell.armed
    OBVIOUS
  <2>1. CASE CaveRuns
    BY <2>1 DEF CaveRuns, Safe, CellInv, WholeInv
  <2>2. CASE ~CaveRuns
    BY <2>2 DEF Next, Command, Poll, End, Game, Start, Gate, GateRefuses, RecordArmed,
       Unavailable, AwaitHydration, Scan, Queue, Stage, Size, Arm, Armed, AwaitCave,
       Complete, Verify, TimeOut, Interrupt, InterruptLate, Close, Kill, Publish, Gain, Use,
       Move, Stays, Finish, game
  <2>3. QED
    BY <2>1, <2>2
<1>2. QED
  BY <1>1, SafeAlways, PTL DEF Spec, CaveRunsWholeRequest

(* An exception in the poll loop leaves no armed request behind, wherever   *)
(* the staging of the request is, unless the guest refuses to be disarmed.  *)
THEOREM Disarms == Spec => LoopDisarms
<1>1. TypeOK /\ Safe /\ [Next]_vars =>
        [tpc # "close" /\ tpc' = "close" /\ status' = "interrupted"
           => cell'.request = "none" \/ refused']_vars
  <2> SUFFICES ASSUME TypeOK, Safe, Next,
                      tpc # "close", tpc' = "close", status' = "interrupted"
               PROVE  cell'.request = "none" \/ refused'
    OBVIOUS
  <2>1. CASE Interrupt
    <3>1. ~active /\ tpc \notin Staging => cell.request = "none"
      BY <2>1 DEF Interrupt, Staging, Safe, CellInv, FreeInv
    <3>2. QED
      BY <2>1, <3>1 DEF Interrupt, Disarm, TypeOK, GameOK
  <2>2. CASE ~Interrupt
    <3>1. status # "interrupted"
      BY DEF Safe, CloseInv
    <3>2. Poll \/ TimeOut
      BY <2>2 DEF Next, Command, End, Game, Start, Gate, GateRefuses, RecordArmed,
         InterruptLate, Close, Kill, Off, Publish, CaveRuns, Gain, Use, Move
    <3>3. QED
      BY <3>1, <3>2 DEF Poll, Unavailable, AwaitHydration, Scan, Queue, Stage, Size, Arm,
         Armed, AwaitCave, Complete, Verify, TimeOut, Stays, Finish, session
  <2>3. QED
    BY <2>1, <2>2
<1>2. QED
  BY <1>1, SafeAlways, PTL DEF Spec, LoopDisarms

-----------------------------------------------------------------------------
(* No tag is executed twice: tag by tag, unless it is excused.              *)
Excused(t)   == lossy \/ Recounted(t, {"settled", "open"})
Pending(t)   == cell.request # "none" /\ cell.armed = t
Countable(t) == first[t].noted /\ ~first[t].spoilt /\ first[t].count + Quantity <= Cap
Untaken      == tpc \in {"gate", "record"} \/ (tpc = "poll" /\ ~active)

DoneOnce(t) == given[t] <= 1 /\ (Pending(t) => given[t] = 0)

(* What was or may yet be given, the journal knows of. *)
Traced(t) == given[t] >= 1 \/ Pending(t) => journal[t] # "none" /\ first[t].noted

(* While nobody else moved the item, its count tells whether it was given. *)
Counted(t) == Countable(t) =>
  /\ held[Item[t]] >= first[t].count
  /\ given[t] >= 1 => held[Item[t]] >= first[t].count + Quantity

(* A run that has passed the gate without a count has nothing behind it; one *)
(* with a count compares it with what is held before it stages.              *)
Runs(t) == run.tag = t =>
  /\ tpc # "off" /\ first[t].noted
  /\ tpc \in {"queue", "stage", "size", "arm"} => given[t] = 0
  /\ tpc \notin {"gate", "record"} => journal[t] # "none"
  /\ run.count = "first" => Countable(t) /\ baseline = first[t].count
  /\ run.count # "first" /\ Untaken => given[t] = 0 /\ ~Pending(t)

Once(t) == Excused(t) \/ (DoneOnce(t) /\ Traced(t) /\ Counted(t) /\ Runs(t))

OnceInv == \A t \in Tag : Once(t)

LEMMA OnceInit == Init => OnceInv
<1> SUFFICES ASSUME Init, NEW t \in Tag PROVE Once(t)
  BY DEF OnceInv
<1>1. given[t] = 0 /\ ~first[t].noted /\ run.tag # t /\ ~Pending(t)
  BY NativeAssumption DEF Init, NoRun, IdleCell, Unnoted, Pending
<1>2. QED
  BY <1>1 DEF Once, DoneOnce, Traced, Counted, Runs, Countable

(* A step that arms and gives nothing, and brings no run nearer to arming. *)
LEMMA OnceKeeps ==
  ASSUME OnceInv, UNCHANGED <<journal, held, given, history>>,
         run'.tag = run.tag, run'.count = run.count,
         run.count = "first" => baseline' = baseline,
         \A t \in Tag : Pending(t)' => Pending(t),
         Untaken' => Untaken, tpc' # "off",
         tpc' \in {"queue", "stage", "size", "arm"} => tpc \in {"queue", "stage", "size", "arm"},
         tpc \in {"gate", "record"} => tpc' \in {"gate", "record"}
  PROVE  OnceInv'
<1> SUFFICES ASSUME NEW t \in Tag PROVE Once(t)'
  BY DEF OnceInv
<1>1. Once(t) /\ (Pending(t)' => Pending(t)) /\ Excused(t)' = Excused(t)
      /\ Countable(t)' = Countable(t)
  BY DEF OnceInv, Excused, Recounted, Countable, history
<1>2. QED
  BY <1>1 DEF Once, DoneOnce, Traced, Counted, Runs, history

(* A run ends: the cell is left as it is. *)
LEMMA OnceOff ==
  ASSUME OnceInv, Off, UNCHANGED <<cell, held, given, first, recounted>>,
         lossy => lossy',
         lossy' \/ \A t \in Tag : journal[t] # "none" => journal'[t] # "none"
  PROVE  OnceInv'
<1> SUFFICES ASSUME NEW t \in Tag, ~Excused(t)' PROVE Once(t)'
  BY DEF OnceInv, Once
<1>1. DoneOnce(t) /\ Traced(t) /\ Counted(t) /\ (journal[t] # "none" => journal'[t] # "none")
  BY DEF OnceInv, Once, Excused, Recounted
<1>2. run'.tag # t
  BY NativeAssumption DEF Off, NoRun
<1>3. Pending(t)' = Pending(t) /\ Countable(t)' = Countable(t)
  BY DEF Pending, Countable
<1>4. QED
  BY <1>1, <1>2, <1>3 DEF Once, DoneOnce, Traced, Counted, Runs

LEMMA OnceStart ==
  ASSUME TypeOK, Safe, OnceInv, NEW u \in Tag, NEW c \in Count, NEW clear \in BOOLEAN,
         NEW force \in Forced, Start(u, c, clear, force)
  PROVE  OnceInv'
<1> SUFFICES ASSUME NEW t \in Tag, ~Excused(t)' PROVE Once(t)'
  BY DEF OnceInv, Once
<1>1. ~Excused(t)
  BY DEF Start, Excused, Recounted
<1>2. DoneOnce(t) /\ Traced(t) /\ Counted(t) /\ Runs(t)
  BY <1>1 DEF OnceInv, Once
<1>3. Pending(t)' = Pending(t)
  BY DEF Start, game, Pending
<1>4. held[Item[t]] \in Nat /\ given[t] \in Nat /\ first[t].count \in Nat
  BY NativeAssumption DEF TypeOK, GameOK, JournalOK
<1>5. CASE t # u
  <2>1. first'[t] = first[t] /\ run'.tag # t
    BY <1>5 DEF Start, TypeOK, JournalOK
  <2>2. QED
    BY <1>2, <1>3, <2>1 DEF Start, game, Once, DoneOnce, Traced, Counted, Runs, Countable
<1>6. CASE t = u
  <2>1. /\ first'[t].noted
        /\ first[t].noted => first'[t] = first[t]
        /\ ~first[t].noted => first'[t].count = held[Item[t]] /\ ~first'[t].spoilt
    BY <1>6 DEF Start, TypeOK, JournalOK
  <2>2. DoneOnce(t)' /\ Traced(t)'
    BY <1>2, <1>3, <2>1 DEF Start, game, DoneOnce, Traced
  <2>3. Counted(t)'
    <3>1. CASE first[t].noted
      BY <1>2, <2>1, <3>1 DEF Start, game, Counted, Countable
    <3>2. CASE ~first[t].noted
      <4>1. ~(given[t] >= 1)
        BY <1>2, <3>2 DEF Traced
      <4>2. QED
        BY <1>4, <2>1, <3>2, <4>1 DEF Start, game, Counted, Countable
    <3>3. QED
      BY <3>1, <3>2
  <2>4. Runs(t)'
    <3>1. run'.tag = t /\ run'.count = c /\ tpc' = "gate"
      BY <1>6 DEF Start
    <3>2. c = "first" => Countable(t)' /\ baseline' = first'[t].count
      BY <1>4, <1>6, <2>1 DEF Start, Honest, Expected, Countable
    <3>3. c # "first" => journal[t] = "none"
      <4>1. ~force
        BY <1>6 DEF Start, Excused, Recounted
      <4>2. c \in {"none", "now", "first"}
        BY NativeAssumption
      <4>3. c = "now" => journal[t] \in {"none", "armed", "interrupted"}
        BY <1>6, <4>1 DEF Start, Excused, Recounted, Outcome
      <4>4. QED
        BY <1>6, <4>1, <4>2, <4>3 DEF Start, Reused, Inconclusive
    <3>4. c # "first" => given'[t] = 0 /\ ~Pending(t)'
      BY <1>2, <1>3, <1>4, <3>3 DEF Traced, Start, game
    <3>5. QED
      BY <2>1, <3>1, <3>2, <3>4 DEF Runs
  <2>5. QED
    BY <2>2, <2>3, <2>4 DEF Once
<1>7. QED
  BY <1>5, <1>6

LEMMA OnceCommand == TypeOK /\ Safe /\ OnceInv /\ Command => OnceInv'
<1> SUFFICES ASSUME TypeOK, Safe, OnceInv, Command PROVE OnceInv'
  OBVIOUS
<1>1. CASE \E t \in Tag, c \in Count, clear \in BOOLEAN, force \in Forced :
             Start(t, c, clear, force)
  BY <1>1, OnceStart
<1>2. CASE Gate
  <2>1. \A t \in Tag : Pending(t)' => Pending(t)
    BY <1>2 DEF Gate, Pending, IdleCell
  <2>2. run'.tag = run.tag /\ run'.count = run.count
    BY <1>2 DEF Gate, TypeOK, RunOK
  <2>3. QED
    BY <1>2, <2>1, <2>2, OnceKeeps DEF Gate, Untaken
<1>3. CASE GateRefuses
  BY <1>3, OnceOff DEF GateRefuses, game, history
<1>4. CASE RecordArmed
  <2> SUFFICES ASSUME NEW t \in Tag, ~Excused(t)' PROVE Once(t)'
    BY DEF OnceInv, Once
  <2>1. ~Excused(t) /\ ~lossy'
    BY <1>4 DEF RecordArmed, Record, Excused, Recounted
  <2>2. DoneOnce(t) /\ Traced(t) /\ Counted(t) /\ Runs(t)
    BY <2>1 DEF OnceInv, Once
  <2>3. journal' = [journal EXCEPT ![run.tag] = "armed"]
    BY <1>4, <2>1 DEF RecordArmed, Record
  <2>4. /\ run.tag = t => journal'[t] = "armed"
        /\ run.tag # t => journal'[t] = journal[t]
    BY <2>3 DEF TypeOK, JournalOK
  <2>5. Untaken
    BY <1>4 DEF RecordArmed, Untaken
  <2>6. Pending(t)' = Pending(t) /\ Countable(t)' = Countable(t)
    BY <1>4 DEF RecordArmed, game, Pending, Countable
  <2>7. QED
    BY <1>4, <2>2, <2>4, <2>5, <2>6 DEF RecordArmed, session, game, Once, DoneOnce, Traced,
       Counted, Runs
<1>5. QED
  BY <1>1, <1>2, <1>3, <1>4 DEF Command

(* A scan that finds the count it expected finds a tag not yet given. *)
LEMMA OnceScan == TypeOK /\ Safe /\ OnceInv /\ Scan => OnceInv'
<1> SUFFICES ASSUME TypeOK, Safe, OnceInv, Scan PROVE OnceInv'
  OBVIOUS
<1>1. run.tag \in Tag /\ run.count \in {"none", "first", "now"} /\ tpc = "poll" /\ ~active
  BY DEF Scan, TypeOK, RunOK
<1>2. run.count = "first" => baseline' = baseline
  BY DEF Scan, Baseline
<1>3. \A t \in Tag : Pending(t)' = Pending(t)
  BY DEF Scan, Finish, game, Pending
<1>4. CASE tpc' = "close"
  BY <1>1, <1>2, <1>3, <1>4, OnceKeeps DEF Scan, Finish, game, Untaken
<1>5. CASE tpc' # "close"
  <2>1. /\ tpc' = "queue" /\ held[Item[run.tag]] = baseline'
        /\ UNCHANGED <<run, status, active, refused, journal, game, history>>
    BY <1>5 DEF Scan, Finish
  <2> SUFFICES ASSUME NEW t \in Tag, ~Excused(t)' PROVE Once(t)'
    BY DEF OnceInv, Once
  <2>2. ~Excused(t)
    BY <2>1 DEF history, Excused, Recounted
  <2>3. DoneOnce(t) /\ Traced(t) /\ Counted(t) /\ Runs(t)
    BY <2>2 DEF OnceInv, Once
  <2>4. given[t] \in Nat /\ first[t].count \in Nat /\ Quantity \in Nat \ {0}
    BY NativeAssumption DEF TypeOK, GameOK, JournalOK
  <2>5. run.tag = t => given[t] = 0
    <3>1. CASE run.count = "first"
      BY <1>2, <2>1, <2>3, <2>4, <3>1 DEF Runs, Counted
    <3>2. CASE run.count # "first"
      BY <1>1, <2>3, <3>2 DEF Runs, Untaken
    <3>3. QED
      BY <3>1, <3>2
  <2>6. Runs(t)'
    BY <1>1, <1>2, <2>1, <2>3, <2>5 DEF game, history, Runs, Untaken, Countable
  <2>7. DoneOnce(t)' /\ Traced(t)' /\ Counted(t)'
    BY <1>3, <2>1, <2>3 DEF game, history, DoneOnce, Traced, Counted, Countable
  <2>8. QED
    BY <2>6, <2>7 DEF Once
<1>6. QED
  BY <1>4, <1>5

LEMMA OnceArm == TypeOK /\ Safe /\ OnceInv /\ Arm => OnceInv'
<1> SUFFICES ASSUME TypeOK, Safe, OnceInv, Arm, NEW t \in Tag PROVE Once(t)'
  BY DEF OnceInv
<1>1. cell'.armed = run.tag /\ UNCHANGED <<session, journal, held, given, history>>
  BY DEF Arm, TypeOK, GameOK
<1>2. Excused(t)' = Excused(t) /\ Countable(t)' = Countable(t)
  BY <1>1 DEF history, Excused, Recounted, Countable
<1>3. Pending(t)' => run.tag = t
  BY <1>1 DEF Pending
<1>4. QED
  BY <1>1, <1>2, <1>3 DEF Arm, session, history, OnceInv, Once, DoneOnce, Traced, Counted,
     Runs, Untaken

LEMMA OncePoll == TypeOK /\ Safe /\ OnceInv /\ Poll => OnceInv'
<1> SUFFICES ASSUME TypeOK, Safe, OnceInv, Poll PROVE OnceInv'
  OBVIOUS
<1>1. CASE Unavailable \/ AwaitHydration \/ AwaitCave \/ Complete \/ Verify
  BY <1>1, OnceKeeps DEF Unavailable, AwaitHydration, AwaitCave, Complete, Verify, Stays,
     Finish, game, Untaken, Pending
<1>2. CASE Scan
  BY <1>2, OnceScan
<1>3. CASE Queue \/ Armed
  BY <1>3, OnceKeeps DEF Queue, Armed, session, game, Untaken, Pending
<1>4. CASE Stage \/ Size
  <2>1. \A t \in Tag : Pending(t)' => Pending(t)
    BY <1>4 DEF Stage, Size, Pending, TypeOK, GameOK
  <2>2. QED
    BY <1>4, <2>1, OnceKeeps DEF Stage, Size, session, Untaken
<1>5. CASE Arm
  BY <1>5, OnceArm
<1>6. QED
  BY <1>1, <1>2, <1>3, <1>4, <1>5 DEF Poll

LEMMA OnceEnd == TypeOK /\ Safe /\ OnceInv /\ End => OnceInv'
<1> SUFFICES ASSUME TypeOK, Safe, OnceInv, End PROVE OnceInv'
  OBVIOUS
<1>1. CASE TimeOut
  BY <1>1, OnceKeeps DEF TimeOut, session, game, Untaken, Pending
<1>2. CASE Interrupt
  <2>1. \A t \in Tag : Pending(t)' => Pending(t)
    BY <1>2 DEF Interrupt, Disarm, Pending, TypeOK, GameOK
  <2>2. QED
    BY <1>2, <2>1, OnceKeeps DEF Interrupt, Untaken, Staging
<1>3. CASE Close
  <2>1. lossy' \/ \A t \in Tag : journal[t] # "none" => journal'[t] # "none"
    <3>1. status # "none"
      BY <1>3 DEF Close, TypeOK, RunOK, Status, Terminal, Waiting, InFlight
    <3>2. QED
      BY <1>3, <3>1 DEF Close, Record, TypeOK, JournalOK
  <2>2. QED
    BY <1>3, <2>1, OnceOff DEF Close, Record, game
<1>4. CASE Kill
  BY <1>4, OnceOff DEF Kill, game
<1>5. CASE InterruptLate
  BY <1>5, OnceKeeps DEF InterruptLate, game, Untaken, Pending
<1>6. QED
  BY <1>1, <1>2, <1>3, <1>4, <1>5 DEF End

(* The cave gives the tag whose request is pending, and the count shows it. *)
LEMMA OnceCave == TypeOK /\ Safe /\ OnceInv /\ CaveRuns => OnceInv'
<1> SUFFICES ASSUME TypeOK, Safe, OnceInv, CaveRuns, NEW t \in Tag, ~Excused(t)' PROVE Once(t)'
  BY DEF OnceInv, Once
<1>0. ~Excused(t)
  BY DEF CaveRuns, history, Excused, Recounted
<1>1. DoneOnce(t) /\ Traced(t) /\ Counted(t) /\ Runs(t)
  BY <1>0 DEF OnceInv, Once
<1>2. cell.armed \in Tag /\ cell.staged = cell.armed /\ cell.request # "none"
  BY DEF CaveRuns, Safe, CellInv, WholeInv
<1>3. cell'.request = "none" /\ ~Pending(t)'
  BY DEF CaveRuns, Pending, TypeOK, GameOK
<1>4. tpc \notin {"queue", "stage", "size", "arm"}
  BY <1>2 DEF Safe, CellInv, FreeInv
<1>5. UNCHANGED <<tpc, session, journal, history>>
  BY DEF CaveRuns
<1>6. held[Item[t]] \in Nat /\ first[t].count \in Nat /\ given[t] \in Nat
      /\ Quantity \in Nat \ {0} /\ Cap \in Nat
  BY NativeAssumption DEF TypeOK, GameOK, JournalOK
<1>7. held'[Item[t]] \in {held[Item[t]], Least(Cap, held[Item[t]] + Quantity)}
      /\ (t = cell.armed => held'[Item[t]] = Least(Cap, held[Item[t]] + Quantity))
  BY <1>2, NativeAssumption DEF CaveRuns, TypeOK, GameOK
<1>8. given'[t] = IF t = cell.armed THEN given[t] + 1 ELSE given[t]
  BY DEF CaveRuns, TypeOK, GameOK
<1>9. Countable(t)' = Countable(t)
  BY <1>5 DEF history, Countable
<1>10. t = cell.armed => Pending(t) /\ given[t] = 0
  BY <1>1, <1>2 DEF Pending, DoneOnce
<1>11. DoneOnce(t)' /\ Traced(t)'
  BY <1>1, <1>3, <1>5, <1>6, <1>8, <1>10 DEF history, DoneOnce, Traced
<1>12. Counted(t)'
  <2> SUFFICES ASSUME Countable(t)
               PROVE  /\ held'[Item[t]] >= first[t].count
                      /\ given'[t] >= 1 => held'[Item[t]] >= first[t].count + Quantity
    BY <1>5, <1>9 DEF history, Counted
  <2>1. first[t].count + Quantity <= Cap /\ held[Item[t]] >= first[t].count
        /\ (given[t] >= 1 => held[Item[t]] >= first[t].count + Quantity)
    BY <1>1 DEF Counted, Countable
  <2>2. CASE t = cell.armed
    BY <1>6, <1>7, <2>1, <2>2 DEF Least
  <2>3. CASE t # cell.armed
    BY <1>6, <1>7, <1>8, <2>1, <2>3 DEF Least
  <2>4. QED
    BY <2>2, <2>3
<1>13. Runs(t)'
  <2>1. t = cell.armed => (run.tag = t => ~(run.count # "first" /\ Untaken))
    BY <1>1, <1>10 DEF Runs
  <2>2. Untaken' = Untaken
    BY <1>5 DEF session, Untaken
  <2>3. QED
    BY <1>1, <1>3, <1>4, <1>5, <1>8, <1>9, <2>1, <2>2 DEF session, history, Runs
<1>14. QED
  BY <1>11, <1>12, <1>13 DEF Once

(* The player's own moves spoil the counts they touch. *)
LEMMA OnceMove ==
  ASSUME TypeOK, Safe, OnceInv, NEW k \in Kind, NEW n \in Nat, Move(k, n)
  PROVE  OnceInv'
<1> SUFFICES ASSUME NEW t \in Tag, ~Excused(t)' PROVE Once(t)'
  BY DEF OnceInv, Once
<1>1. ~Excused(t)
  BY DEF Move, Excused, Recounted
<1>2. DoneOnce(t) /\ Traced(t) /\ Counted(t) /\ Runs(t)
  BY <1>1 DEF OnceInv, Once
<1>3. UNCHANGED <<tpc, session, journal, cell, given>> /\ Pending(t)' = Pending(t)
  BY DEF Move, Pending
<1>4. /\ first'[t].noted = first[t].noted /\ first'[t].count = first[t].count
      /\ Item[t] # k \/ ~first[t].noted => first'[t] = first[t]
      /\ Item[t] = k /\ first[t].noted => first'[t].spoilt
  BY DEF Move, TypeOK, JournalOK
<1>5. Item[t] # k => held'[Item[t]] = held[Item[t]]
  BY DEF Move, TypeOK, GameOK
<1>6. Item[t] = k => ~Countable(t)'
  BY <1>4 DEF Countable
<1>7. Item[t] # k => Countable(t)' = Countable(t)
  BY <1>4 DEF Countable
<1>8. DoneOnce(t)' /\ Traced(t)' /\ Counted(t)'
  BY <1>2, <1>3, <1>4, <1>5, <1>6, <1>7 DEF DoneOnce, Traced, Counted
<1>9. Runs(t)'
  <2>1. run.tag = t /\ run.count = "first" => Item[t] # k
    <3>1. run.tag = t => tpc # "off"
      BY <1>2 DEF Runs
    <3>2. QED
      BY <3>1 DEF Move, Excused, Recounted
  <2>2. Untaken' = Untaken
    BY <1>3 DEF session, Untaken
  <2>3. QED
    BY <1>2, <1>3, <1>4, <1>7, <2>1, <2>2 DEF session, Runs
<1>10. QED
  BY <1>8, <1>9 DEF Once

LEMMA OnceStep == TypeOK /\ Safe /\ OnceInv /\ [Next]_vars => OnceInv'
<1> SUFFICES ASSUME TypeOK, Safe, OnceInv, [Next]_vars PROVE OnceInv'
  OBVIOUS
<1>1. CASE UNCHANGED vars
  BY <1>1 DEF vars, session, game, history, OnceInv, Once, Excused, Recounted, DoneOnce,
     Traced, Counted, Runs, Pending, Countable, Untaken
<1>2. CASE Publish
  BY <1>2 DEF Publish, session, history, OnceInv, Once, Excused, Recounted, DoneOnce,
     Traced, Counted, Runs, Pending, Countable, Untaken
<1>3. CASE Gain \/ Use
  <2>1. PICK k \in Kind, n \in Nat : Move(k, n)
    BY <1>3 DEF Gain, Use, TypeOK, GameOK
  <2>2. QED
    BY <2>1, OnceMove
<1>4. QED
  BY <1>1, <1>2, <1>3, OnceCommand, OncePoll, OnceEnd, OnceCave DEF Next, Game

(* No tag is executed twice, whatever kills, interruptions, time-outs and    *)
(* reruns lie in between, for any tags, kinds, quantities, carry caps and    *)
(* numbers of runs, unless the journal lost a record, a rerun was forced or  *)
(* went by another count than that before the tag's first run, or the player *)
(* moved the item under a run that went by it.                               *)
THEOREM GivenAtMostOnce == Spec => []GivenOnce
<1>1. OnceInv => GivenOnce
  BY DEF OnceInv, Once, Excused, DoneOnce, GivenOnce
<1>2. QED
  BY <1>1, SafeAlways, TypeInit, TypeStep, SafeInit, SafeStep, OnceInit, OnceStep, PTL
     DEF Spec

-----------------------------------------------------------------------------
(* The install.                                                             *)

(* Outside its rounds the installer holds no thread, and only what cut it   *)
(* off leaves one suspended for good.                                       *)
HeldInv ==
    /\ ipc \in {"out", "lay", "list", "installed"} => mine = {}
    /\ ~cutOff => left = {}

(* A round begins with every cave laid.                                     *)
LaidInv == ipc \in {"list", "suspend", "write", "resume"} => Regions \subseteq laid

(* Every thread alive is caught or about to be; when the bytes are          *)
(* written all are caught, outside every window.                            *)
CaughtInv ==
    /\ ipc = "suspend" => Alive \subseteq listed \cup mine
    /\ ipc = "write" => Alive \subseteq mine /\ Clear

-----------------------------------------------------------------------------
(* The tool and the threads stay well typed, the rounds within the budget.  *)
LEMMA InstallTypeInit == InstallInit => InstallTypeOK
<1> SUFFICES ASSUME InstallInit PROVE InstallTypeOK
  OBVIOUS
<1>1. 0 \in 0 .. Budget /\ 0 \in 0 .. MaxInstalls
  BY InstallAssumption
<1>2. rip \in [Thread -> Site \cup {"elsewhere", "unborn", "gone"}]
  BY DEF InstallInit
<1>3. hook \in [Site -> {"original", "detour"}]
  BY DEF InstallInit
<1>4. QED
  BY <1>1, <1>2, <1>3 DEF InstallInit, InstallTypeOK, InstallSteps

LEMMA LeaveType ==
    ASSUME NEW to \in InstallSteps, InstallTypeOK, Leave(to)
    PROVE  /\ ipc' \in InstallSteps /\ listed' \subseteq Thread /\ mine' \subseteq Thread
           /\ attempt' \in 0 .. Budget
           /\ result' \in {"none", "again", "write", "done", "raised"}
BY InstallAssumption DEF Leave, InstallTypeOK

LEMMA InstallTypeStep == InstallTypeOK /\ [InstallNext]_installVars => InstallTypeOK'
<1> SUFFICES ASSUME InstallTypeOK, [InstallNext]_installVars PROVE InstallTypeOK'
  OBVIOUS
<1> USE InstallAssumption DEF InstallTypeOK
<1>1. CASE UNCHANGED installVars
  BY <1>1 DEF installVars, image, installer, Regions
<1>2. CASE Install
  BY <1>2 DEF Install, InstallSteps, installer, Regions
<1>3. CASE Lay
  BY <1>3 DEF Lay, LaidFirst, InstallSteps, installer, Regions
<1>4. CASE LayFails
  BY <1>4 DEF LayFails, InstallSteps, installer, image, Regions
<1>5. CASE Enumerate
  BY <1>5 DEF Enumerate, InstallSteps, image, Regions, Alive
<1>6. CASE Abort \/ InstallerKilled \/ \E t \in Thread : SuspendRaises(t)
  <2>1. Leave("out") /\ UNCHANGED <<rip, laid, hook, installs>>
    BY <1>6 DEF Abort, InstallerKilled, SuspendRaises, CutOff, image
  <2>2. left' \subseteq Thread /\ cutOff' \in BOOLEAN
    BY <1>6 DEF Abort, InstallerKilled, SuspendRaises, CutOff, Frozen
  <2>3. "out" \in InstallSteps
    BY DEF InstallSteps
  <2>4. QED
    BY <2>1, <2>2, <2>3, LeaveType DEF Regions
<1>7. CASE Look
  BY <1>7 DEF Look, InstallSteps, image, Regions
<1>8. CASE WriteDetour
  BY <1>8 DEF WriteDetour, InstallSteps, Regions
<1>9. CASE WriteRaises
  BY <1>9 DEF WriteRaises, InstallSteps, image, Regions
<1>10. CASE Resume
  <2>1. UNCHANGED <<rip, left, laid, hook, installs, cutOff>>
    BY <1>10 DEF Resume, image
  <2>2. CASE \E t \in mine : mine' = mine \ {t} /\ UNCHANGED <<ipc, listed, attempt, result>>
    BY <2>1, <2>2 DEF Regions
  <2>3. CASE ipc' = "list" /\ UNCHANGED installer
    BY <2>1, <2>3 DEF Regions, installer, InstallSteps
  <2>4. CASE \E to \in {"installed", "out"} : Leave(to)
    <3>1. {"installed", "out"} \subseteq InstallSteps
      BY DEF InstallSteps
    <3>2. QED
      BY <2>1, <2>4, <3>1, LeaveType DEF Regions
  <2>5. QED
    BY <1>10, <2>2, <2>3, <2>4 DEF Resume
<1>11. CASE \E t \in Thread : Suspend(t)
  BY <1>11 DEF Suspend, image, Regions
<1>12. CASE Threads
  BY <1>12 DEF Threads, Run, EndThread, CreateThread, image, installer, Regions
<1>13. QED
  BY <1>1, <1>2, <1>3, <1>4, <1>5, <1>6, <1>7, <1>8, <1>9, <1>10, <1>11, <1>12
  DEF InstallNext, Installer

(* Whatever the threads of the game do, and however commands end, the state *)
(* of the installer stays well typed and no command exceeds its budget.     *)
THEOREM InstallTypeCorrect == InstallSpec => []InstallTypeOK
BY InstallTypeInit, InstallTypeStep, PTL DEF InstallSpec

-----------------------------------------------------------------------------
LEMMA HeldInit == InstallInit => HeldInv
BY DEF InstallInit, HeldInv

LEMMA HeldStep == HeldInv /\ [InstallNext]_installVars => HeldInv'
<1> SUFFICES ASSUME HeldInv, [InstallNext]_installVars PROVE HeldInv'
  OBVIOUS
<1> USE DEF HeldInv
<1>1. CASE UNCHANGED installVars \/ Threads
  BY <1>1 DEF installVars, image, installer, Threads, Run, EndThread, CreateThread
<1>2. CASE Install \/ Lay \/ LayFails \/ Enumerate \/ Abort
  BY <1>2 DEF Install, Lay, LayFails, Enumerate, Abort, Leave, image, installer
<1>3. CASE InstallerKilled \/ \E t \in Thread : SuspendRaises(t)
  BY <1>3 DEF InstallerKilled, SuspendRaises, CutOff, Leave
<1>4. CASE Look \/ WriteDetour \/ WriteRaises \/ \E t \in Thread : Suspend(t)
  BY <1>4 DEF Look, WriteDetour, WriteRaises, Suspend
<1>5. CASE Resume
  BY <1>5 DEF Resume, Leave, installer
<1>6. QED
  BY <1>1, <1>2, <1>3, <1>4, <1>5 DEF InstallNext, Installer

(* Once a command is over every thread of the game runs, whichever write    *)
(* failed or round was blocked, unless the command itself was cut off.      *)
THEOREM NoLeakedSuspend == InstallSpec => []NobodyStaysFrozen
<1>1. HeldInv => NobodyStaysFrozen
  BY DEF HeldInv, NobodyStaysFrozen, Frozen
<1>2. QED
  BY <1>1, HeldInit, HeldStep, PTL DEF InstallSpec

-----------------------------------------------------------------------------
LEMMA LaidStep == LaidInv /\ [InstallNext]_installVars => LaidInv'
<1> SUFFICES ASSUME LaidInv, [InstallNext]_installVars PROVE LaidInv'
  OBVIOUS
<1> USE DEF LaidInv, Regions
<1>1. CASE UNCHANGED installVars \/ Threads
  BY <1>1 DEF installVars, image, installer, Threads, Run, EndThread, CreateThread
<1>2. CASE Install \/ Lay \/ LayFails
  BY <1>2 DEF Install, Lay, LayFails, LaidFirst, image
<1>3. CASE Enumerate \/ Look \/ WriteDetour \/ WriteRaises \/ \E t \in Thread : Suspend(t)
  BY <1>3 DEF Enumerate, Look, WriteDetour, WriteRaises, Suspend, image
<1>4. CASE Abort \/ InstallerKilled \/ \E t \in Thread : SuspendRaises(t)
  BY <1>4 DEF Abort, InstallerKilled, SuspendRaises, CutOff, Leave
<1>5. CASE Resume
  BY <1>5 DEF Resume, Leave, image
<1>6. QED
  BY <1>1, <1>2, <1>3, <1>4, <1>5 DEF InstallNext, Installer

LEMMA AliveNotGrown ==
    ASSUME InstallTypeOK, NEW t \in Thread, Run(t) \/ EndThread(t)
    PROVE  Alive' \subseteq Alive
BY DEF InstallTypeOK, Run, EndThread, Alive

LEMMA CaughtStep ==
    ASSUME "suspend" \notin BornAt, InstallTypeOK, CaughtInv, [InstallNext]_installVars
    PROVE  CaughtInv'
<1> USE DEF CaughtInv
<1>1. CASE UNCHANGED installVars
  BY <1>1 DEF installVars, image, installer, Alive, Clear
<1>2. CASE Install \/ Lay \/ LayFails \/ Abort \/ WriteRaises \/ InstallerKilled
             \/ \E t \in Thread : SuspendRaises(t)
  BY <1>2 DEF Install, Lay, LayFails, Abort, WriteRaises, InstallerKilled, SuspendRaises,
     CutOff, Leave
<1>3. CASE Enumerate
  BY <1>3 DEF Enumerate, Alive
<1>4. CASE \E t \in Thread : Suspend(t)
  BY <1>4 DEF Suspend, Alive
<1>5. CASE Look
  BY <1>5 DEF Look, Alive, Clear
<1>6. CASE WriteDetour
  BY <1>6 DEF WriteDetour, Alive, Clear
<1>7. CASE Resume
  BY <1>7 DEF Resume, Leave, installer
<1>8. CASE Threads
  <2>1. PICK t \in Thread : Run(t) \/ EndThread(t) \/ CreateThread(t)
    BY <1>8 DEF Threads
  <2>2. UNCHANGED <<ipc, listed, mine>>
    BY <2>1 DEF Run, EndThread, CreateThread, installer
  <2>3. ASSUME ipc = "suspend" PROVE Alive' \subseteq listed \cup mine
    BY <2>1, <2>3, AliveNotGrown DEF CreateThread
  <2>4. ipc # "write"
    BY <2>1 DEF Run, EndThread, CreateThread, Frozen
  <2>5. QED
    BY <2>2, <2>3, <2>4
<1>9. QED
  BY <1>1, <1>2, <1>3, <1>4, <1>5, <1>6, <1>7, <1>8 DEF InstallNext, Installer

LEMMA WriteStep ==
    ASSUME InstallTypeOK, LaidInv, CaughtInv, [InstallNext]_installVars
    PROVE  [\A s \in Site : hook'[s] # hook[s] =>
              /\ \A t \in Alive : t \in Frozen /\ rip[t] # s
              /\ {"state", s} \subseteq laid]_installVars
<1>1. CASE WriteDetour
  BY <1>1 DEF WriteDetour, LaidInv, CaughtInv, Clear, Frozen, Regions
<1>2. CASE UNCHANGED hook
  BY <1>2
<1>3. WriteDetour \/ UNCHANGED hook
  BY DEF InstallNext, Installer, Threads, Install, Lay, LayFails, Enumerate, Abort, Look,
     WriteRaises, Resume, InstallerKilled, Suspend, SuspendRaises, Run, EndThread,
     CreateThread, installVars, image
<1>4. QED
  BY <1>1, <1>2, <1>3

(* If no thread is created between the listing of the threads and the       *)
(* suspension of the last one, bytes change only while every thread of the  *)
(* game is stopped outside the site, behind the cave they lead to.          *)
THEOREM WriteIsSafe ==
    ASSUME "suspend" \notin BornAt
    PROVE  InstallSpec => NobodyUnderTheWrite
<1>1. InstallInit => LaidInv /\ CaughtInv
  BY DEF InstallInit, LaidInv, CaughtInv
<1>2. InstallTypeOK /\ CaughtInv /\ [InstallNext]_installVars => CaughtInv'
  BY CaughtStep
<1>3. InstallTypeOK /\ LaidInv /\ CaughtInv /\ [InstallNext]_installVars =>
        [\A s \in Site : hook'[s] # hook[s] =>
              /\ \A t \in Alive : t \in Frozen /\ rip[t] # s
              /\ {"state", s} \subseteq laid]_installVars
  BY WriteStep
<1>4. QED
  BY <1>1, <1>2, <1>3, InstallTypeInit, InstallTypeStep, LaidStep, PTL
  DEF InstallSpec, NobodyUnderTheWrite

(* Every detour is written, and every cave and the state they need is laid. *)
Whole == (\A s \in Site : hook[s] = "detour") /\ Regions \subseteq laid

(* A round that ends well has written every site.                           *)
RoundInv ==
    /\ result = "done" => ipc = "resume" /\ Whole
    /\ ipc = "installed" => Whole

LEMMA RoundStep ==
  ASSUME LaidInv, RoundInv, [InstallNext]_installVars PROVE RoundInv'
<1> USE DEF RoundInv, Whole
<1>1. CASE UNCHANGED installVars \/ Threads
  BY <1>1 DEF installVars, image, installer, Threads, Run, EndThread, CreateThread
<1>2. CASE Install \/ Lay \/ LayFails \/ Enumerate
  BY <1>2 DEF Install, Lay, LayFails, Enumerate, image, installer
<1>3. CASE Abort \/ InstallerKilled \/ \E t \in Thread : SuspendRaises(t)
  BY <1>3 DEF Abort, InstallerKilled, SuspendRaises, CutOff, Leave
<1>4. CASE Look \/ WriteRaises \/ \E t \in Thread : Suspend(t)
  BY <1>4 DEF Look, WriteRaises, Suspend, image
<1>5. CASE WriteDetour
  BY <1>5 DEF WriteDetour, LaidInv
<1>6. CASE Resume
  BY <1>6 DEF Resume, Leave, image, installer
<1>7. QED
  BY <1>1, <1>2, <1>3, <1>4, <1>5, <1>6 DEF InstallNext, Installer

(* A command that ends well (cli.py, exit status 0) leaves every detour     *)
(* written and every cave behind them laid, whichever commands before it    *)
(* failed while laying or writing, were blocked, or were killed.            *)
THEOREM SuccessIsWhole == InstallSpec => [](ipc = "installed" => Whole)
<1>1. InstallInit => LaidInv /\ RoundInv
  BY DEF InstallInit, LaidInv, RoundInv
<1>2. RoundInv => (ipc = "installed" => Whole)
  BY DEF RoundInv
<1>3. QED
  BY <1>1, <1>2, LaidStep, RoundStep, PTL DEF InstallSpec

-----------------------------------------------------------------------------
(* The tool from end to end: an install, then grants.                       *)

(* While it installs it grants nothing, and what it grants changes neither  *)
(* the threads nor the detours: the tool is an install and it is grants.    *)
THEOREM DeliveryOfParts == DeliverySpec => Spec /\ InstallSpec
<1>1. DeliveryInit => Init /\ InstallInit
  BY DEF DeliveryInit
<1>2. [DeliveryNext]_deliveryVars => [Next]_vars /\ [InstallNext]_installVars
  BY DEF DeliveryNext, Installing, Granting, deliveryVars
<1>3. QED
  BY <1>1, <1>2, PTL DEF DeliverySpec, Spec, InstallSpec

(* What holds of the grants holds of the tool: no tag goes twice through    *)
(* the cave, the journal knows of every armed request and is right about    *)
(* the completed ones, and an exception in the poll loop disarms the cell.  *)
THEOREM ToolGrants ==
  DeliverySpec => /\ [](TypeOK /\ CellIsFree /\ ArmedIsAccounted /\ CompletedWasGiven /\ GivenOnce)
                  /\ CaveRunsWholeRequest /\ LoopDisarms
BY DeliveryOfParts, TypeCorrect, CellFree, Accounted, CompletedGiven, GivenAtMostOnce,
   RunsWholeRequest, Disarms, PTL

(* And what holds of the install.                                           *)
THEOREM ToolInstalls ==
  ASSUME "suspend" \notin BornAt
  PROVE  DeliverySpec => [](InstallTypeOK /\ NobodyStaysFrozen) /\ NobodyUnderTheWrite
BY DeliveryOfParts, InstallTypeCorrect, NoLeakedSuspend, WriteIsSafe, PTL
=============================================================================
