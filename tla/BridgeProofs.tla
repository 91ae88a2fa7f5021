---------------------------- MODULE BridgeProofs ----------------------------
(* Proofs about Bridge, for any items, kinds, rooms, bounds and places of   *)
(* death.  Typed says what the programs' locals, the files and the request  *)
(* cell hold at each place of the harness; WitnessInv that each of them,    *)
(* when it says an item was granted, speaks of one that was; AckInv and     *)
(* OrderInv that the client's cursor and the commands follow the order of   *)
(* the room; VialInv that a Vial is only written over a stack; OnceInv      *)
(* where the next item is, and which record can tell.                       *)
EXTENDS Bridge, TLAPS

Status == {"empty", "awaiting_inventory", "bootstrap_waiting", "bootstrap_complete",
           "bootstrap_skipped", "recovery_ambiguous"} \cup Done \cup Terminal \cup InFlight
Amount == Nat \cup {NoCount}
Record == [status : Status, tag : Int, before : Amount, after : Amount]
Memory == [tag : Int, before : Amount, after : Amount]

(* What a full command file names.                                          *)
IsGrant(c) == c.seed \in Seeds /\ c.tag \in 1 .. Len(Items[c.seed]) /\ c.kind \in Kinds

(* Where the harness has taken a command on.                                *)
InHand == {"write", "verify", "arm", "active"}

(* Where the client is busy with the next item.                             *)
Busy == {"looked", "send", "wait", "ack", "count"}

RecordsInv == state \in Record /\ out \in Record /\ prior \in Record /\ mem \in Memory

ClientInv ==
    /\ cpc \in Busy => delivered < Len(Items[seed])
    /\ receipt.is = "full" => receipt.seed \in Seeds /\ receipt.n \in Nat

HandInv ==
    /\ command.is = "full" => IsGrant(command)
    /\ hpc \in InHand => IsGrant(cur) /\ mem.tag = cur.tag
    /\ hpc = "write" => mem.after \in Nat

(* A request is armed only while the harness waits for it, or after it was  *)
(* closed; and is gone with the game.                                       *)
CellInv ==
    /\ cell = [request |-> cell.request, done |-> cell.done, cmd |-> cell.cmd]
    /\ cell.request \in BOOLEAN /\ cell.done \in BOOLEAN
    /\ cell.request => /\ IsGrant(cell.cmd) /\ cell.cmd.kind # "vial" /\ ~cell.done
                       /\ hooked /\ hpc \in {"active", "off"}
    /\ hpc \in {"arm", "active"} /\ hooked => cell.cmd = cur
    /\ hpc = "arm" => ~cell.done /\ cur.kind # "vial"
    /\ ready => hooked
    /\ hooked => up
    /\ up \in BOOLEAN /\ hooked \in BOOLEAN /\ ready \in BOOLEAN

Typed == TypeOK /\ RecordsInv /\ ClientInv /\ HandInv /\ CellInv

-----------------------------------------------------------------------------
(* Records and commands.                                                    *)

LEMMA NowhereTyped == Nowhere \in Record /\ NoMem \in Memory
BY DEF Nowhere, NoMem, Record, Memory, Status, Amount, NoCount, NoTag

LEMMA ReportTyped ==
  ASSUME NEW status \in Status, NEW m \in Memory, Report(status, m)
  PROVE  /\ state' \in Record /\ out' \in Record /\ mem' \in Memory /\ mem' = m
         /\ out'.status = status /\ out'.tag = m.tag /\ state' = Nowhere
BY NowhereTyped DEF Report, Record, Memory

LEMMA GrantIsGrant ==
  ASSUME NEW s \in Seeds, NEW i \in 1 .. Len(Items[s])
  PROVE  /\ IsGrant(Grant(s, i))
         /\ Grant(s, i).is = "full" /\ Grant(s, i).seed = s /\ Grant(s, i).tag = i
<1>1. Items[s] \in Seq(Kinds)
  BY BridgeAssumption
<1>2. Items[s][i] \in Kinds
  BY <1>1
<1>3. QED
  BY <1>2 DEF IsGrant, Grant

LEMMA NoCommandNames ==
  /\ NoCommand.is = "none" /\ NoCommand.tag = -1
  /\ TornCommand.is = "torn" /\ TornCommand.tag = -1
BY DEF NoCommand, TornCommand, NoTag

(* What a grant is called in the history.                                   *)
LEMMA GrantInOrder ==
  ASSUME NEW c, IsGrant(c) PROVE <<c.seed, c.tag>> \in Order
BY DEF IsGrant, Order, Index

(* The counts a plan starts from and ends with.                             *)
LEMMA PlanTyped ==
  ASSUME Typed, NEW c, IsGrant(c)
  PROVE  /\ Plan(c) \in Memory /\ Plan(c).tag = c.tag /\ Plan(c).after \in Nat
         /\ Plan(c).before = Expected(c) /\ Expected(c) \in Nat
<1>1. Expected(c) \in Nat
  BY DEF Typed, TypeOK, RecordsInv, Record, Amount, NoCount, Expected, Witnessed, Matches,
     IsGrant
<1>2. c.tag \in Int
  BY BridgeAssumption DEF IsGrant
<1>3. QED
  BY <1>1, <1>2 DEF Plan, Memory, Amount

(* Changing one count leaves counts.                                        *)
LEMMA UpdateTyped ==
  ASSUME NEW S, NEW f \in [S -> Nat], NEW x, NEW n \in Nat
  PROVE  [f EXCEPT ![x] = n] \in [S -> Nat]
OBVIOUS

-----------------------------------------------------------------------------
LEMMA TypedInit == Init => Typed
<1> SUFFICES ASSUME Init PROVE Typed
  OBVIOUS
<1>1. RecordsInv
  BY NowhereTyped DEF Init, RecordsInv
<1>2. TypeOK
  <2>1. HeldAtStart \in [Kinds -> Nat]
    BY BridgeAssumption
  <2>2. command.is = "none" /\ receipt.is = "none"
    BY DEF Init, NoCommand, NoReceipt
  <2>3. {state, prior, out} \subseteq
          [status : {"empty", "awaiting_inventory", "bootstrap_waiting",
                     "bootstrap_complete", "bootstrap_skipped", "recovery_ambiguous"}
                    \cup Done \cup Terminal \cup InFlight,
           tag : Int, before : Int, after : Int]
    BY <1>1 DEF RecordsInv, Record, Amount, NoCount, Status
  <2>4. QED
    BY <2>1, <2>2, <2>3 DEF Init, TypeOK
<1>3. ClientInv
  BY DEF Init, ClientInv, Busy, NoReceipt
<1>4. HandInv
  BY NoCommandNames DEF Init, HandInv, InHand
<1>5. CellInv
  BY DEF Init, CellInv, IdleCell
<1>6. QED
  BY <1>1, <1>2, <1>3, <1>4, <1>5 DEF Typed

(* A poll that only says something, and takes no command in hand.           *)
LEMMA SaysTyped ==
  ASSUME Typed, NEW status \in Status, NEW m \in Memory, Report(status, m),
         ~cell.request,
         hpc' \in {"poll", "command", "remove", "failed"},
         UNCHANGED <<client, command, receipt, prior, game, history>>
  PROVE  Typed'
<1>1. state' \in Record /\ out' \in Record /\ mem' \in Memory
  BY ReportTyped
<1>2. RecordsInv'
  BY <1>1 DEF Typed, RecordsInv
<1>3. TypeOK'
  BY <1>1, <1>2 DEF Typed, TypeOK, client, game, history, RecordsInv, Record, Amount, NoCount,
     Status
<1>4. ClientInv'
  BY DEF Typed, ClientInv, client
<1>5. HandInv'
  BY DEF Typed, HandInv, InHand, IsGrant
<1>6. CellInv'
  BY DEF Typed, CellInv, game
<1>7. QED
  BY <1>2, <1>3, <1>4, <1>5, <1>6 DEF Typed

(* Nothing is armed while the harness polls.                                *)
LEMMA PollingIsFree ==
  ASSUME CellInv, Polls \/ hpc \notin {"active", "off"} PROVE ~cell.request
BY DEF Polls, CellInv

LEMMA ReportsTyped ==
  ASSUME Typed,
         \/ BootstrapWaits \/ AwaitInventory \/ Reject \/ AwaitHydration \/ WriteFails
         \/ Verify \/ AttachFails
  PROVE  Typed'
<1>1. mem \in Memory /\ state \in Record /\ CellInv
  BY DEF Typed, RecordsInv
<1>2. /\ {"bootstrap_waiting", "awaiting_inventory", "command_rejected", "write_error",
          "completed", "failed", "setup_error"} \subseteq Status
      /\ [mem EXCEPT !.tag = BootTag] \in Memory
      /\ [tag |-> state.tag, before |-> state.before, after |-> state.after] \in Memory
  BY <1>1 DEF Status, Done, Terminal, Memory, Record, BootTag
<1>3. CASE BootstrapWaits
  BY <1>1, <1>2, <1>3, SaysTyped, PollingIsFree DEF BootstrapWaits
<1>4. CASE AwaitInventory \/ AwaitHydration
  BY <1>1, <1>2, <1>4, SaysTyped, PollingIsFree DEF AwaitInventory, AwaitHydration, Stays
<1>5. CASE Reject
  BY <1>1, <1>2, <1>5, SaysTyped, PollingIsFree DEF Reject
<1>6. CASE WriteFails
  BY <1>1, <1>2, <1>6, SaysTyped, PollingIsFree DEF WriteFails
<1>7. CASE Verify
  BY <1>1, <1>2, <1>7, SaysTyped, PollingIsFree DEF Verify
<1>8. CASE AttachFails
  <2>1. ~cell.request
    BY <1>1, <1>8 DEF AttachFails, CellInv
  <2>2. QED
    BY <1>1, <1>2, <1>8, <2>1, SaysTyped DEF AttachFails
<1>9. QED
  BY <1>3, <1>4, <1>5, <1>6, <1>7, <1>8

LEMMA DecisionsTyped ==
  ASSUME Typed, Ambiguous \/ Recovered \/ Mismatch \/ RefuseVial
  PROVE  Typed'
<1>1. IsGrant(command) /\ ~cell.request
  BY PollingIsFree DEF Typed, HandInv, Ambiguous, Recovered, Mismatch, RefuseVial, Executable,
     Decides
<1>2. Plan(command) \in Memory
  BY <1>1, PlanTyped
<1>3. {"recovery_ambiguous", "recovered_complete", "quantity_mismatch", "failed"}
        \subseteq Status
  BY DEF Status, Done, Terminal
<1>4. CASE Ambiguous
  BY <1>1, <1>2, <1>3, <1>4, SaysTyped DEF Ambiguous
<1>5. CASE Recovered \/ Mismatch \/ RefuseVial
  BY <1>1, <1>2, <1>3, <1>5, SaysTyped DEF Recovered, Mismatch, RefuseVial, Ends
<1>6. QED
  BY <1>4, <1>5

(* The bootstrap's one Vial.                                                *)
LEMMA BootstrapEndsTyped == ASSUME Typed, BootstrapEnds PROVE Typed'
<1>1. ~cell.request /\ mem \in Memory
  BY PollingIsFree DEF Typed, RecordsInv, BootstrapEnds
<1>2. {"bootstrap_complete", "bootstrap_skipped"} \subseteq Status
  BY DEF Status
<1>3. /\ held' \in [Kinds -> Nat]
      /\ \E status \in Status, m \in Memory : Report(status, m)
  <2>1. CASE held["vial"] \in 1 .. HeldCap - 1
    <3>1. [tag |-> BootTag, before |-> held["vial"], after |-> held["vial"] + 1] \in Memory
      BY <2>1, BridgeAssumption DEF Memory, BootTag, Amount
    <3>2. held' \in [Kinds -> Nat]
      <4>1. held["vial"] + 1 \in Nat /\ held \in [Kinds -> Nat]
        BY <2>1, BridgeAssumption DEF Typed, TypeOK
      <4>2. held' = [held EXCEPT !["vial"] = held["vial"] + 1]
        BY <2>1 DEF BootstrapEnds
      <4>3. QED
        BY <4>1, <4>2, UpdateTyped
    <3>3. QED
      BY <1>2, <2>1, <3>1, <3>2 DEF BootstrapEnds
  <2>2. CASE held["vial"] \notin 1 .. HeldCap - 1
    <3>1. [mem EXCEPT !.tag = BootTag] \in Memory
      BY <1>1 DEF Memory, BootTag
    <3>2. QED
      BY <1>2, <2>2, <3>1 DEF BootstrapEnds, Typed, TypeOK
  <2>3. QED
    BY <2>1, <2>2
<1>4. state' \in Record /\ out' \in Record /\ mem' \in Memory
  BY <1>3, ReportTyped
<1>5. /\ hpc = "poll" /\ hpc' = hpc
      /\ UNCHANGED <<client, command, receipt, prior, cur, up, hooked, ready, cell, saved,
                     history>>
  BY DEF BootstrapEnds
<1>6. RecordsInv'
  BY <1>4, <1>5 DEF Typed, RecordsInv
<1>7. TypeOK'
  BY <1>3, <1>4, <1>5, <1>6 DEF Typed, TypeOK, client, history, RecordsInv, Record, Amount,
     NoCount, Status
<1>8. ClientInv' /\ HandInv' /\ CellInv'
  BY <1>1, <1>5 DEF Typed, ClientInv, HandInv, CellInv, client, InHand, IsGrant
<1>9. QED
  BY <1>6, <1>7, <1>8 DEF Typed

(* A command is taken in hand.                                              *)
LEMMA TakesTyped == ASSUME Typed, Direct \/ Queue PROVE Typed'
<1>1. IsGrant(command) /\ ~cell.request /\ command.is = "full"
  BY PollingIsFree DEF Typed, HandInv, Direct, Queue, Executable, Decides
<1>2. Plan(command) \in Memory /\ Plan(command).tag = command.tag /\ Plan(command).after \in Nat
  BY <1>1, PlanTyped
<1>3. /\ state' \in Record /\ out' \in Record /\ mem' \in Memory
      /\ mem'.tag = command.tag /\ mem'.after \in Nat
  BY <1>2, ReportTyped DEF Direct, Queue, Status, InFlight
<1>4. /\ cur' = command /\ hpc' \in {"write", "arm"}
      /\ UNCHANGED <<client, command, receipt, prior, up, hooked, ready, held, saved, history>>
  BY DEF Direct, Queue, game
<1>5. RecordsInv'
  BY <1>3, <1>4 DEF Typed, RecordsInv
<1>6. TypeOK'
  BY <1>3, <1>4, <1>5 DEF Typed, TypeOK, client, history, RecordsInv, Record, Amount,
     NoCount, Status
<1>7. ClientInv'
  BY <1>4 DEF Typed, ClientInv, client
<1>8. HandInv'
  BY <1>1, <1>3, <1>4 DEF HandInv, IsGrant
<1>9. CellInv'
  <2>1. CASE Direct
    BY <1>1, <1>4, <2>1 DEF Typed, CellInv, Direct, game
  <2>2. CASE Queue
    <3>1. cell' = [request |-> FALSE, done |-> FALSE, cmd |-> command]
          /\ command.kind # "vial" /\ hpc' = "arm"
      BY <2>2 DEF Queue, Insertable
    <3>2. QED
      BY <1>4, <3>1 DEF Typed, CellInv
  <2>3. QED
    BY <2>1, <2>2
<1>10. QED
  BY <1>5, <1>6, <1>7, <1>8, <1>9 DEF Typed

(* The guest write, the armed request, and its answer.                      *)
LEMMA WriteTyped == ASSUME Typed, Write PROVE Typed'
<1>1. <<cur.seed, cur.tag>> \in Order /\ mem.after \in Nat
  BY GrantInOrder DEF Typed, HandInv, InHand, Write
<1>2. TypeOK'
  <2>1. held' \in [Kinds -> Nat]
    BY <1>1, UpdateTyped DEF Typed, TypeOK, Write
  <2>2. given[<<cur.seed, cur.tag>>] + 1 \in Nat /\ given \in [Order -> Nat]
    BY <1>1 DEF Typed, TypeOK
  <2>3. given' \in [Order -> Nat]
    BY <2>2, UpdateTyped DEF Write
  <2>4. QED
    BY <1>1, <2>1, <2>3 DEF Typed, TypeOK, Write, client, files
<1>3. RecordsInv' /\ ClientInv'
  BY DEF Typed, RecordsInv, ClientInv, Write, client, files
<1>5. hpc = "write" /\ hpc' = "verify" /\ hooked
      /\ UNCHANGED <<files, mem, cur, up, hooked, ready, cell>>
  BY DEF Write
<1>6. HandInv' /\ CellInv'
  BY <1>5 DEF Typed, HandInv, CellInv, InHand, IsGrant, files
<1>4. QED
  BY <1>2, <1>3, <1>6 DEF Typed

LEMMA ArmTyped == ASSUME Typed, Arm PROVE Typed'
<1>1. mem \in Memory /\ IsGrant(cur) /\ mem.tag = cur.tag
  BY DEF Typed, RecordsInv, HandInv, InHand, Arm
<1>2. state' \in Record /\ out' \in Record /\ mem' = mem
  BY <1>1, ReportTyped DEF Arm, Status, InFlight
<1>3. UNCHANGED <<client, command, receipt, prior, cur, up, hooked, ready, held, saved, history>>
  BY DEF Arm
<1>4. RecordsInv'
  BY <1>1, <1>2, <1>3 DEF Typed, RecordsInv
<1>5. TypeOK'
  BY <1>2, <1>3, <1>4 DEF Typed, TypeOK, Arm, client, history, RecordsInv, Record, Amount,
     NoCount, Status
<1>6. ClientInv' /\ HandInv'
  BY <1>1, <1>2, <1>3 DEF Typed, ClientInv, HandInv, client, InHand, IsGrant, Arm
<1>7. CellInv'
  <2>1. hpc = "arm" /\ hpc' = "active"
    BY DEF Arm
  <2>2. CASE hooked
    <3>1. cell' = [request |-> TRUE, done |-> cell.done, cmd |-> cell.cmd]
      BY <2>2 DEF Arm, Typed, CellInv
    <3>2. QED
      BY <1>1, <1>3, <2>1, <2>2, <3>1 DEF Typed, CellInv, IsGrant
  <2>3. CASE ~hooked
    BY <1>3, <2>1, <2>3 DEF Typed, CellInv, Arm
  <2>4. QED
    BY <2>2, <2>3
<1>8. QED
  BY <1>4, <1>5, <1>6, <1>7 DEF Typed

LEMMA VerifyNativeTyped == ASSUME Typed, VerifyNative PROVE Typed'
<1>1. mem \in Memory /\ ~cell.request
  BY DEF Typed, RecordsInv, CellInv, VerifyNative
<1>2. {"completed", "verify_pending", "failed"} \subseteq Status
  BY DEF Status, Done, InFlight, Terminal
<1>3. state' \in Record /\ out' \in Record /\ mem' = mem
  BY <1>1, <1>2, ReportTyped DEF VerifyNative
<1>4. /\ hpc = "active" /\ hpc' \in {"active", "remove"}
      /\ UNCHANGED <<client, command, receipt, prior, cur, game, history>>
  BY DEF VerifyNative
<1>5. RecordsInv'
  BY <1>1, <1>3, <1>4 DEF Typed, RecordsInv
<1>6. TypeOK'
  BY <1>3, <1>4, <1>5 DEF Typed, TypeOK, client, game, history, RecordsInv, Record, Amount,
     NoCount, Status
<1>7. ClientInv' /\ HandInv' /\ CellInv'
  BY <1>1, <1>3, <1>4 DEF Typed, ClientInv, HandInv, CellInv, client, game, InHand, IsGrant
<1>8. QED
  BY <1>5, <1>6, <1>7 DEF Typed

(* The table is executed, idles, removes, flushes and is closed.            *)
LEMMA AttachTyped == ASSUME Typed, Attach PROVE Typed'
<1>1. [tag |-> state.tag, before |-> state.before, after |-> state.after] \in Memory
  BY DEF Typed, RecordsInv, Record, Memory
<1>2. {"recovery_pending", "awaiting_inventory"} \subseteq Status
  BY DEF Status, InFlight
<1>3. state' \in Record /\ out' \in Record /\ mem' \in Memory
  BY <1>1, <1>2, ReportTyped, NowhereTyped DEF Attach
<1>4. /\ hpc' = "poll" /\ cell' = IdleCell /\ hooked' = TRUE /\ up /\ prior' = state
      /\ UNCHANGED <<client, command, receipt, up, ready, held, saved, history>>
  BY DEF Attach
<1>5. RecordsInv'
  BY <1>3, <1>4 DEF Typed, RecordsInv
<1>6. TypeOK'
  BY <1>3, <1>4, <1>5 DEF Typed, TypeOK, client, history, RecordsInv, Record, Amount,
     NoCount, Status
<1>7. ClientInv' /\ HandInv' /\ CellInv'
  BY <1>4 DEF Typed, ClientInv, HandInv, CellInv, client, InHand, IsGrant, IdleCell
<1>8. QED
  BY <1>5, <1>6, <1>7 DEF Typed

LEMMA QuietTyped ==
  ASSUME Typed, NoWork \/ Remove \/ Flush \/ CheatEngineDies
  PROVE  Typed'
<1>1. RecordsInv'
  BY NowhereTyped DEF Typed, RecordsInv, NoWork, Remove, Flush, CheatEngineDies, NoLocals, files
<1>2. TypeOK'
  <2>1. /\ hpc' \in {hpc, "poll", "off"}
        /\ command'.is \in {command.is, "none"}
        /\ UNCHANGED <<client, receipt, held, saved, history>>
    BY NoCommandNames DEF NoWork, Remove, Flush, CheatEngineDies, files, game
  <2>2. QED
    BY <1>1, <2>1 DEF Typed, TypeOK, client, history, RecordsInv, Record, Amount,
       NoCount, Status
<1>3. ClientInv'
  BY DEF Typed, ClientInv, NoWork, Remove, Flush, CheatEngineDies, client, files
<1>4. HandInv'
  BY NoCommandNames DEF Typed, HandInv, NoWork, Remove, Flush, CheatEngineDies, files, InHand,
     IsGrant
<1>5. CellInv'
  BY DEF Typed, CellInv, NoWork, Remove, Flush, CheatEngineDies, game
<1>6. QED
  BY <1>1, <1>2, <1>3, <1>4, <1>5 DEF Typed

-----------------------------------------------------------------------------
LEMMA ClientTyped == ASSUME Typed, Client \/ Die PROVE Typed'
<1>1. UNCHANGED <<state, harness, game, history>>
  BY DEF Client, Connect, Look, OpenCommand, Send, Answer, TimeOut, Unlink, Count, Store, Die,
     files
<1>2. seed' \in Seeds /\ delivered' \in Nat /\ ClientInv'
  BY DEF Typed, TypeOK, ClientInv, Busy, Client, Connect, Look, OpenCommand, Send, Answer,
     TimeOut, Unlink, Count, Store, Die, files, TornReceipt, NoReceipt, Due
<1>3. command'.is = "full" => command' = command \/ IsGrant(command')
  <2>1. CASE Send
    <3>1. seed \in Seeds /\ Due \in 1 .. Len(Items[seed])
      BY <2>1, BridgeAssumption DEF Typed, TypeOK, ClientInv, Busy, Send, Due
    <3>2. QED
      BY <2>1, <3>1, GrantIsGrant DEF Send
  <2>2. CASE ~Send
    BY <2>2, NoCommandNames DEF Client, Connect, Look, OpenCommand, Answer, TimeOut, Unlink,
       Count, Store, Die, files
  <2>3. QED
    BY <2>1, <2>2
<1>4. /\ command'.is \in {"none", "torn", "full"} /\ receipt'.is \in {"none", "torn", "full"}
      /\ cpc' \in {"off", "idle", "looked", "send", "wait", "ack", "count", "store"}
  BY NoCommandNames DEF Typed, TypeOK, Client, Connect, Look, OpenCommand, Send, Answer,
     TimeOut, Unlink, Count, Store, Die, files, Grant, TornReceipt, NoReceipt
<1>5. TypeOK'
  BY <1>1, <1>2, <1>4 DEF Typed, TypeOK, harness, game, history
<1>6. RecordsInv' /\ HandInv' /\ CellInv'
  BY <1>1, <1>3 DEF Typed, RecordsInv, HandInv, CellInv, harness, game, IsGrant
<1>7. QED
  BY <1>2, <1>5, <1>6 DEF Typed

LEMMA GameTyped ==
  ASSUME Typed, Launch \/ Ready \/ CaveRuns \/ Gain \/ Use \/ Save \/ GameEnds
  PROVE  Typed'
<1>1. UNCHANGED <<client, files, harness>>
  BY DEF Launch, Ready, CaveRuns, Gain, Use, Save, GameEnds, Move
<1>2. /\ held' \in [Kinds -> Nat] /\ saved' \in [Kinds -> Nat]
      /\ ever' \subseteq Order /\ given' \in [Order -> Nat] /\ savedGiven' \in [Order -> Nat]
  <2>1. CASE Launch \/ Ready \/ Save \/ GameEnds
    BY <2>1 DEF Typed, TypeOK, Launch, Ready, Save, GameEnds, history
  <2>2. CASE CaveRuns
    <3>1. <<cell.cmd.seed, cell.cmd.tag>> \in Order
      BY <2>2, GrantInOrder DEF CaveRuns, Typed, CellInv
    <3>2. /\ held[cell.cmd.kind] + 1 \in Nat /\ held \in [Kinds -> Nat]
          /\ given[<<cell.cmd.seed, cell.cmd.tag>>] + 1 \in Nat /\ given \in [Order -> Nat]
      <4>1. cell.cmd.kind \in Kinds
        BY <2>2 DEF CaveRuns, Typed, CellInv, IsGrant
      <4>2. QED
        BY <3>1, <4>1 DEF Typed, TypeOK
    <3>3. held' \in [Kinds -> Nat] /\ given' \in [Order -> Nat]
      BY <2>2, <3>2, UpdateTyped DEF CaveRuns
    <3>4. QED
      BY <2>2, <3>1, <3>3 DEF Typed, TypeOK, CaveRuns
  <2>3. CASE Gain \/ Use
    BY <2>3 DEF Typed, TypeOK, Gain, Use, Move, history
  <2>4. QED
    BY <2>1, <2>2, <2>3
<1>3. TypeOK' /\ RecordsInv' /\ ClientInv' /\ HandInv'
  BY <1>1, <1>2 DEF Typed, TypeOK, RecordsInv, ClientInv, HandInv, client, files, harness,
     InHand, IsGrant
<1>4. CellInv'
  <2>1. CASE CaveRuns
    <3>1. cell' = [request |-> FALSE, done |-> TRUE, cmd |-> cell.cmd]
      BY <2>1 DEF CaveRuns, Typed, CellInv
    <3>2. cell.request /\ UNCHANGED <<up, hooked, ready, hpc, cur>>
      BY <2>1 DEF CaveRuns, harness
    <3>3. QED
      BY <3>1, <3>2 DEF Typed, CellInv
  <2>2. CASE GameEnds
    BY <1>1, <2>2 DEF GameEnds, Typed, CellInv, IdleCell, harness
  <2>3. CASE Launch \/ Ready
    <3>1. UNCHANGED <<hooked, cell, hpc, cur>> /\ up' = TRUE /\ ready' \in BOOLEAN
      BY <1>1, <2>3 DEF Typed, CellInv, Launch, Ready, harness
    <3>2. ready' => hooked'
      BY <2>3 DEF Typed, CellInv, Launch, Ready
    <3>3. QED
      BY <3>1, <3>2 DEF Typed, CellInv, IsGrant
  <2>4. CASE Gain \/ Use \/ Save
    <3>1. UNCHANGED <<up, hooked, ready, cell>>
      BY <2>4 DEF Gain, Use, Save, Move
    <3>2. QED
      BY <1>1, <3>1 DEF Typed, CellInv, harness, IsGrant
  <2>5. QED
    BY <2>1, <2>2, <2>3, <2>4
<1>5. QED
  BY <1>3, <1>4 DEF Typed

LEMMA TypedStep == Typed /\ [Next]_vars => Typed'
<1> SUFFICES ASSUME Typed, [Next]_vars PROVE Typed'
  OBVIOUS
<1>1. CASE UNCHANGED vars
  BY <1>1 DEF Typed, TypeOK, RecordsInv, ClientInv, HandInv, CellInv, IsGrant, vars, client,
     files, harness, game, history
<1>2. CASE Poll
  BY <1>2, ReportsTyped, DecisionsTyped, BootstrapEndsTyped, TakesTyped, WriteTyped, ArmTyped,
     VerifyNativeTyped, QuietTyped DEF Poll
<1>3. CASE Client \/ Attach \/ AttachFails \/ Flush \/ Game \/ World
  BY <1>3, ClientTyped, AttachTyped, ReportsTyped, QuietTyped, GameTyped DEF Game, World
<1>4. QED
  BY <1>1, <1>2, <1>3 DEF Next, Table

(* Whatever dies and whatever file is torn, every variable holds what the   *)
(* two programs can put there.                                              *)
THEOREM TypeCorrect == Spec => []TypeOK
<1>1. Typed => TypeOK
  BY DEF Typed
<1>2. QED
  BY TypedInit, TypedStep, <1>1, PTL DEF Spec

(* Whenever the harness is about to ask for an insertion, no other is       *)
(* pending, so that the report that the cell is busy is never made.         *)
THEOREM CellFree == Spec => []CellIsFree
<1>1. Typed => CellIsFree
  BY PollingIsFree DEF Typed, CellIsFree, Executable, Decides
<1>2. QED
  BY TypedInit, TypedStep, <1>1, PTL DEF Spec

-----------------------------------------------------------------------------
(* The harness's word.                                                      *)

(* A record that says "granted", a write that was made and a cave that is   *)
(* done are about an item that was in the game.                             *)
WitnessInv ==
    /\ WitnessIsTrue
    /\ hpc = "verify" => <<cur.seed, cur.tag>> \in ever
    /\ cell.done => <<cell.cmd.seed, cell.cmd.tag>> \in ever

LEMMA Remembers == ASSUME [Next]_vars PROVE ever \subseteq ever'
<1>1. ASSUME Client \/ Die PROVE ever' = ever
  BY <1>1 DEF Client, Connect, Look, OpenCommand, Send, Answer, TimeOut, Unlink, Count, Store,
     Die, history
<1>2. ASSUME Table PROVE ever \subseteq ever'
  BY <1>2 DEF Table, Attach, AttachFails, Flush, Poll, BootstrapWaits, BootstrapEnds, NoWork,
     AwaitInventory, Reject, AwaitHydration, Stays, Ambiguous, Recovered, Mismatch, RefuseVial,
     Ends, Direct, Write, WriteFails, Verify, Queue, Arm, VerifyNative, Remove, history
<1>3. ASSUME Game \/ World PROVE ever \subseteq ever'
  BY <1>1, <1>3 DEF Game, World, Launch, Ready, CaveRuns, Gain, Use, Move, Save, GameEnds,
     CheatEngineDies, history
<1>4. QED
  BY <1>1, <1>2, <1>3 DEF Next, vars, history

LEMMA EmptyRecordSaysNothing == Witness(Nowhere)
BY DEF Witness, Nowhere, Done

(* Reporting keeps the word when what is reported is true.                  *)
LEMMA ReportWitness ==
  ASSUME WitnessInv, ever \subseteq ever', prior' = prior,
         NEW status \in Status, NEW m \in Memory, Report(status, m),
         status \in Done => \E s \in Seeds : <<s, m.tag>> \in ever
  PROVE  WitnessIsTrue'
<1>1. state' = Nowhere /\ out'.status = status /\ out'.tag = m.tag
  BY ReportTyped
<1>2. Witness(state)'
  BY <1>1 DEF Witness, Nowhere, Done
<1>3. Witness(out)' /\ Witness(prior)'
  BY <1>1 DEF Witness, WitnessInv, WitnessIsTrue
<1>4. QED
  BY <1>2, <1>3 DEF WitnessIsTrue

(* A poll that does not touch the game and claims nothing new.              *)
LEMMA SaysWitness ==
  ASSUME WitnessInv, ever' = ever, cell' = cell, prior' = prior, hpc' # "verify",
         NEW status \in Status, NEW m \in Memory, Report(status, m),
         status \in Done => \E s \in Seeds : <<s, m.tag>> \in ever
  PROVE  WitnessInv'
<1>1. WitnessIsTrue'
  BY ReportWitness
<1>2. QED
  BY <1>1 DEF WitnessInv

LEMMA ReportsWitness ==
  ASSUME Typed, WitnessInv,
         \/ BootstrapWaits \/ AwaitInventory \/ Reject \/ AwaitHydration \/ WriteFails
         \/ Ambiguous \/ Mismatch \/ RefuseVial \/ BootstrapEnds \/ Direct \/ AttachFails
  PROVE  WitnessInv'
<1>1. /\ ever' = ever /\ cell' = cell /\ prior' = prior /\ hpc' # "verify"
      /\ \E m : \E status \in Status \ Done : Report(status, m)
  BY DEF BootstrapWaits, AwaitInventory, Reject, AwaitHydration, WriteFails, Ambiguous,
     Mismatch, RefuseVial, BootstrapEnds, Direct, AttachFails, Stays, Ends, game, history,
     Status, Done, Terminal, InFlight, Polls, Decides, Executable
<1>2. PICK m : \E status \in Status \ Done : Report(status, m)
  BY <1>1
<1>3. state' = Nowhere /\ out'.status \notin Done
  BY <1>2 DEF Report
<1>4. Witness(state)' /\ Witness(out)' /\ Witness(prior)'
  BY <1>1, <1>3 DEF Witness, Nowhere, Done, WitnessInv, WitnessIsTrue
<1>5. QED
  BY <1>1, <1>4 DEF WitnessInv, WitnessIsTrue

(* "completed" and "recovered_complete".                                    *)
LEMMA ClaimsWitness ==
  ASSUME Typed, WitnessInv, Verify \/ VerifyNative \/ Recovered
  PROVE  WitnessInv'
<1>1. ever' = ever /\ cell' = cell /\ prior' = prior /\ hpc' # "verify"
  BY DEF Verify, VerifyNative, Recovered, Ends, game, history
<1>2. mem \in Memory /\ {"completed", "failed", "verify_pending", "recovered_complete"}
                          \subseteq Status
  BY DEF Typed, RecordsInv, Status, Done, Terminal, InFlight
<1>3. CASE Verify
  <2>1. mem.tag = cur.tag /\ cur.seed \in Seeds /\ <<cur.seed, cur.tag>> \in ever
    BY <1>3 DEF Verify, Typed, HandInv, InHand, IsGrant, WitnessInv
  <2>2. QED
    BY <1>1, <1>2, <1>3, <2>1, SaysWitness DEF Verify
<1>4. CASE VerifyNative
  <2>1. /\ mem.tag = cur.tag /\ cur.seed \in Seeds
        /\ cell.cmd = cur /\ <<cell.cmd.seed, cell.cmd.tag>> \in ever
    BY <1>4 DEF VerifyNative, Typed, HandInv, CellInv, InHand, IsGrant, WitnessInv
  <2>2. QED
    BY <1>1, <1>2, <1>4, <2>1, SaysWitness DEF VerifyNative
<1>5. CASE Recovered
  <2>1. Plan(command) \in Memory /\ Plan(command).tag = command.tag
    BY <1>5, PlanTyped DEF Recovered, Decides, Typed, HandInv
  <2>2. \E s \in Seeds : <<s, command.tag>> \in ever
    BY <1>5 DEF Recovered, Witnessed, Matches, WitnessInv, WitnessIsTrue, Witness
  <2>3. QED
    BY <1>1, <1>2, <1>5, <2>1, <2>2, SaysWitness DEF Recovered, Ends
<1>6. QED
  BY <1>3, <1>4, <1>5

(* The grants, the cell and the files.                                      *)
LEMMA MovesWitness ==
  ASSUME Typed, WitnessInv, ever \subseteq ever',
         \/ Write \/ Queue \/ Arm \/ Attach \/ NoWork \/ Remove \/ Flush \/ CheatEngineDies
  PROVE  WitnessInv'
<1>1. CASE Write
  <2>1. UNCHANGED <<state, out, prior, cur, cell>> /\ <<cur.seed, cur.tag>> \in ever'
    BY <1>1 DEF Write, files
  <2>2. QED
    BY <2>1 DEF WitnessInv, WitnessIsTrue, Witness
<1>2. CASE Queue \/ Arm
  <2>1. /\ \E m : \E status \in Status \ Done : Report(status, m)
        /\ prior' = prior /\ hpc' # "verify" /\ ~cell'.done
    BY <1>2 DEF Queue, Arm, Status, Done, InFlight, Terminal, Typed, CellInv
  <2>2. PICK m : \E status \in Status \ Done : Report(status, m)
    BY <2>1
  <2>3. state' = Nowhere /\ out'.status \notin Done
    BY <2>2 DEF Report
  <2>4. Witness(state)' /\ Witness(out)' /\ Witness(prior)'
    BY <2>1, <2>3 DEF Witness, Nowhere, Done, WitnessInv, WitnessIsTrue
  <2>5. QED
    BY <2>1, <2>4 DEF WitnessInv, WitnessIsTrue
<1>3. CASE Attach
  <2>1. /\ state' = Nowhere /\ out'.status \notin Done /\ prior' = state
        /\ hpc' = "poll" /\ ~cell'.done
    BY <1>3 DEF Attach, Report, IdleCell, Done
  <2>2. Witness(state)' /\ Witness(out)' /\ Witness(prior)'
    BY <2>1 DEF Witness, Nowhere, Done, WitnessInv, WitnessIsTrue
  <2>3. QED
    BY <2>1, <2>2 DEF WitnessInv, WitnessIsTrue
<1>4. CASE NoWork \/ Remove \/ Flush \/ CheatEngineDies
  <2>1. /\ cell' = cell /\ ever \subseteq ever'
        /\ hpc' = "verify" => hpc = "verify" /\ cur' = cur
        /\ {state', out', prior'} \subseteq {state, out, prior, Nowhere}
    BY <1>4 DEF NoWork, Remove, Flush, CheatEngineDies, NoLocals, files, game
  <2>2. Witness(state)' /\ Witness(out)' /\ Witness(prior)'
    BY <2>1, EmptyRecordSaysNothing DEF Witness, WitnessInv, WitnessIsTrue
  <2>3. QED
    BY <2>1, <2>2 DEF WitnessInv, WitnessIsTrue
<1>5. QED
  BY <1>1, <1>2, <1>3, <1>4

LEMMA OthersWitness ==
  ASSUME Typed, WitnessInv, ever \subseteq ever', Client \/ Die \/ Game \/ Gain \/ Use \/ Save \/ GameEnds
  PROVE  WitnessInv'
<1>1. UNCHANGED <<state, out, prior, hpc, cur>>
  BY DEF Client, Connect, Look, OpenCommand, Send, Answer, TimeOut, Unlink, Count, Store, Die,
     Game, Launch, Ready, CaveRuns, Gain, Use, Move, Save, GameEnds, files, harness
<1>2. cell'.done => <<cell'.cmd.seed, cell'.cmd.tag>> \in ever'
  <2>1. CASE CaveRuns
    <3>1. cell' = [request |-> FALSE, done |-> TRUE, cmd |-> cell.cmd]
      BY <2>1 DEF CaveRuns, Typed, CellInv
    <3>2. QED
      BY <2>1, <3>1 DEF CaveRuns
  <2>2. CASE GameEnds
    BY <2>2 DEF GameEnds, IdleCell
  <2>3. CASE ~CaveRuns /\ ~GameEnds
    <3>1. cell' = cell
      BY <2>3 DEF Client, Connect, Look, OpenCommand, Send, Answer, TimeOut, Unlink, Count,
         Store, Die, Game, Launch, Ready, Gain, Use, Move, Save, game
    <3>2. QED
      BY <3>1 DEF WitnessInv
  <2>4. QED
    BY <2>1, <2>2, <2>3
<1>3. QED
  BY <1>1, <1>2 DEF WitnessInv, WitnessIsTrue, Witness

LEMMA WitnessStep == Typed /\ WitnessInv /\ [Next]_vars => WitnessInv'
<1> SUFFICES ASSUME Typed, WitnessInv, [Next]_vars PROVE WitnessInv'
  OBVIOUS
<1>1. ever \subseteq ever'
  BY Remembers
<1>2. CASE UNCHANGED vars
  BY <1>2 DEF WitnessInv, WitnessIsTrue, Witness, vars, client, files, harness, game, history
<1>3. CASE Table
  BY <1>1, <1>3, ReportsWitness, ClaimsWitness, MovesWitness DEF Table, Poll
<1>4. CASE Client \/ Game \/ World
  BY <1>1, <1>4, OthersWitness, MovesWitness DEF World
<1>5. QED
  BY <1>2, <1>3, <1>4 DEF Next

LEMMA WitnessInit == Init => WitnessInv
BY EmptyRecordSaysNothing DEF Init, WitnessInv, WitnessIsTrue, IdleCell

(* Wherever Cheat Engine or the game died, and whatever the player did to   *)
(* the counts, a record that says an item was granted is right.             *)
THEOREM WitnessTrue == Spec => []WitnessIsTrue
<1>1. WitnessInv => WitnessIsTrue
  BY DEF WitnessInv
<1>2. QED
  BY TypedInit, TypedStep, WitnessInit, WitnessStep, <1>1, PTL DEF Spec

-----------------------------------------------------------------------------
(* The client's cursor. Tags carry no room (client.py:187), so what follows *)
(* is of a player who stays in one room.                                    *)
SingleRoom == \A s, t \in Seeds : s = t

(* The client is past its look at the state file: the item due was granted. *)
AckInv ==
    /\ AckedWasGiven
    /\ cpc \in {"ack", "count"} => <<seed, Due>> \in ever

LEMMA SuccessIsGiven ==
  ASSUME SingleRoom, Typed, WitnessInv, Outcome(Due) = "success"
  PROVE  <<seed, Due>> \in ever
<1>1. state.status \in Done /\ state.tag = Due
  BY DEF Outcome
<1>2. PICK s \in Seeds : <<s, Due>> \in ever
  BY <1>1 DEF WitnessInv, WitnessIsTrue, Witness
<1>3. s = seed
  BY DEF SingleRoom, Typed, TypeOK
<1>4. QED
  BY <1>2, <1>3

LEMMA AckInit == Init => AckInv
BY DEF Init, AckInv, AckedWasGiven, NoReceipt

LEMMA ClientAcks ==
  ASSUME SingleRoom, Typed, WitnessInv, AckInv, Client PROVE AckInv'
<1>1. ever' = ever /\ delivered \in Nat /\ seed \in Seeds
  BY DEF Typed, TypeOK, Client, Connect, Look, OpenCommand, Send, Answer, TimeOut, Unlink,
     Count, Store, history
<1>2. ASSUME NEW s \in Seeds, Connect(s) PROVE AckInv'
  <2>1. CASE receipt.is = "full" /\ receipt.seed = s
    BY <1>1, <1>2, <2>1 DEF Connect, AckInv, AckedWasGiven, files
  <2>2. CASE ~(receipt.is = "full" /\ receipt.seed = s)
    BY <1>1, <1>2, <2>2 DEF Connect, AckInv, AckedWasGiven, files
  <2>3. QED
    BY <2>1, <2>2
<1>3. CASE Look \/ Answer
  <2>1. cpc' = "ack" => <<seed, Due>> \in ever
    BY <1>3, SuccessIsGiven DEF Look, Answer
  <2>2. cpc # "off" /\ cpc' # "count" /\ UNCHANGED <<seed, delivered, receipt>>
    BY <1>3 DEF Look, Answer, files
  <2>3. QED
    BY <1>1, <2>1, <2>2 DEF AckInv, AckedWasGiven, Due
<1>4. CASE OpenCommand \/ Send \/ TimeOut \/ Unlink
  <2>1. /\ cpc # "off" /\ UNCHANGED <<seed, delivered, receipt>>
        /\ cpc' \in {"ack", "count"} => cpc \in {"ack", "count"}
    BY <1>4 DEF OpenCommand, Send, TimeOut, Unlink, files
  <2>2. QED
    BY <1>1, <2>1 DEF AckInv, AckedWasGiven, Due
<1>5. CASE Count
  <2>1. /\ cpc = "count" /\ cpc' = "store" /\ seed' = seed /\ delivered' = delivered + 1
        /\ receipt'.is = "torn"
    BY <1>5 DEF Count, TornReceipt, NoReceipt
  <2>2. ASSUME NEW i \in 1 .. delivered + 1 PROVE <<seed, i>> \in ever
    <3>1. i \in 1 .. delivered \/ i = Due
      BY <1>1 DEF Due
    <3>2. QED
      BY <2>1, <3>1 DEF AckInv, AckedWasGiven
  <2>3. QED
    BY <1>1, <2>1, <2>2 DEF AckInv, AckedWasGiven
<1>6. CASE Store
  BY <1>1, <1>6 DEF Store, AckInv, AckedWasGiven
<1>7. QED
  BY <1>2, <1>3, <1>4, <1>5, <1>6 DEF Client

LEMMA AckStep ==
  ASSUME SingleRoom, Typed, WitnessInv, AckInv, [Next]_vars PROVE AckInv'
<1>1. ever \subseteq ever'
  BY Remembers
<1>2. CASE Die
  <2>1. cpc' = "off" /\ receipt' = receipt
    BY <1>2 DEF Die, files
  <2>2. QED
    BY <1>1, <2>1 DEF AckInv, AckedWasGiven
<1>3. CASE Table \/ Game \/ Gain \/ Use \/ Save \/ GameEnds \/ CheatEngineDies \/ UNCHANGED vars
  <2>1. UNCHANGED <<cpc, seed, delivered, receipt>>
    BY <1>3 DEF Table, Attach, AttachFails, Flush, Poll, BootstrapWaits, BootstrapEnds, NoWork,
       AwaitInventory, Reject, AwaitHydration, Stays, Ambiguous, Recovered, Mismatch,
       RefuseVial, Ends, Direct, Write, WriteFails, Verify, Queue, Arm, VerifyNative, Remove,
       Game, Launch, Ready, CaveRuns, Gain, Use, Move, Save, GameEnds, CheatEngineDies, client,
       files, vars
  <2>2. QED
    BY <1>1, <2>1 DEF AckInv, AckedWasGiven, Due
<1>4. QED
  BY <1>2, <1>3, ClientAcks DEF Next, World

(* In one room, the cursor never passes an item that was never in the game, *)
(* whatever the harness deleted and whoever died in between.                *)
THEOREM AckedGiven == ASSUME SingleRoom PROVE Spec => []AckedWasGiven
<1>1. Init => Typed /\ WitnessInv /\ AckInv
  BY TypedInit, WitnessInit, AckInit
<1>2. Typed /\ WitnessInv /\ AckInv /\ [Next]_vars => (Typed /\ WitnessInv /\ AckInv)'
  BY TypedStep, WitnessStep, AckStep
<1>3. AckInv => AckedWasGiven
  BY DEF AckInv
<1>4. QED
  BY <1>1, <1>2, <1>3, PTL DEF Spec

-----------------------------------------------------------------------------
(* The order of the room.                                                   *)

(* Everything the room sent before the command's item has been in the game. *)
Follows(c) == \A j \in 1 .. c.tag - 1 : <<c.seed, j>> \in ever

(* So it is for each place a command waits at.                              *)
OrderInv ==
    /\ command.is = "full" => Follows(command)
    /\ hpc \in InHand => Follows(cur)
    /\ cell.request => Follows(cell.cmd)

LEMMA OrderInit == Init => OrderInv
BY NoCommandNames DEF Init, OrderInv, InHand, IdleCell

(* The client publishes the item after those it has acknowledged.           *)
LEMMA ClientOrders ==
  ASSUME Typed, AckInv, OrderInv, Client \/ Die PROVE OrderInv'
<1>1. UNCHANGED <<ever, hpc, cur, cell>>
  BY DEF Client, Connect, Look, OpenCommand, Send, Answer, TimeOut, Unlink, Count, Store, Die,
     harness, game, history
<1>2. CASE Send
  <2>1. Due \in 1 .. Len(Items[seed]) /\ seed \in Seeds /\ cpc # "off"
    BY <1>2, BridgeAssumption DEF Typed, TypeOK, ClientInv, Busy, Send, Due
  <2>2. command'.seed = seed /\ command'.tag = Due
    BY <1>2, <2>1, GrantIsGrant DEF Send
  <2>3. Due - 1 = delivered
    BY DEF Due, Typed, TypeOK
  <2>4. Follows(command)'
    BY <1>1, <2>1, <2>2, <2>3 DEF Follows, AckInv, AckedWasGiven
  <2>5. QED
    BY <1>1, <2>4 DEF OrderInv, Follows
<1>3. CASE ~Send
  <2>1. command' = command \/ command'.is # "full"
    BY <1>3, NoCommandNames DEF Client, Connect, Look, OpenCommand, Answer, TimeOut, Unlink,
       Count, Store, Die, files
  <2>2. QED
    BY <1>1, <2>1 DEF OrderInv, Follows
<1>4. QED
  BY <1>2, <1>3

(* The harness takes the command it found, and arms the one it took.        *)
LEMMA TableOrders ==
  ASSUME Typed, OrderInv, Table \/ CheatEngineDies, ever \subseteq ever' PROVE OrderInv'
<1>1. CASE Direct \/ Queue
  <2>1. /\ command.is = "full" /\ UNCHANGED <<command, ever>> /\ cur' = command
        /\ ~cell'.request
    BY <1>1, PollingIsFree DEF Direct, Queue, Executable, Decides, Typed, CellInv, game, history
  <2>2. QED
    BY <2>1 DEF OrderInv, Follows
<1>2. CASE Arm
  <2>1. /\ UNCHANGED <<command, ever, cur>> /\ hpc = "arm"
        /\ cell'.request => cell'.cmd = cur
    <3>1. CASE hooked
      BY <1>2, <3>1 DEF Arm, Typed, CellInv, history
    <3>2. CASE ~hooked
      BY <1>2, <3>2 DEF Arm, Typed, CellInv, history
    <3>3. QED
      BY <3>1, <3>2
  <2>2. QED
    BY <2>1 DEF OrderInv, Follows, InHand
<1>3. CASE ~(Direct \/ Queue \/ Arm)
  <2>1. /\ command' = command \/ command'.is # "full"
        /\ hpc' \in InHand => hpc \in InHand /\ cur' = cur
        /\ cell'.request => cell' = cell
    BY <1>3, NoCommandNames DEF Table, Attach, AttachFails, Flush, Poll, BootstrapWaits,
       BootstrapEnds, NoWork, AwaitInventory, Reject, AwaitHydration, Stays, Ambiguous,
       Recovered, Mismatch, RefuseVial, Ends, Write, WriteFails, Verify, VerifyNative, Remove,
       CheatEngineDies, NoLocals, InHand, IdleCell, files, game, Polls
  <2>2. QED
    BY <2>1 DEF OrderInv, Follows
<1>4. QED
  BY <1>1, <1>2, <1>3

LEMMA GameOrders ==
  ASSUME Typed, OrderInv, Game \/ Gain \/ Use \/ Save \/ GameEnds \/ UNCHANGED vars,
         ever \subseteq ever'
  PROVE  OrderInv'
<1>1. UNCHANGED <<command, hpc, cur>>
  BY DEF Game, Launch, Ready, CaveRuns, Gain, Use, Move, Save, GameEnds, files, harness, vars
<1>2. cell'.request => cell' = cell
  <2>1. CASE CaveRuns
    BY <2>1 DEF CaveRuns, Typed, CellInv
  <2>2. CASE ~CaveRuns
    BY <2>2 DEF Game, Launch, Ready, Gain, Use, Move, Save, GameEnds, IdleCell, game, vars
  <2>3. QED
    BY <2>1, <2>2
<1>3. QED
  BY <1>1, <1>2 DEF OrderInv, Follows

LEMMA OrderStep ==
  ASSUME Typed, AckInv, OrderInv, [Next]_vars PROVE OrderInv'
<1>1. ever \subseteq ever'
  BY Remembers
<1>2. QED
  BY <1>1, ClientOrders, TableOrders, GameOrders DEF Next, World

(* Only the guest write and the cave put an item into the game.             *)
LEMMA EntersBy ==
  ASSUME [Next]_vars
  PROVE  \/ ever' = ever
         \/ Write /\ ever' = ever \cup {<<cur.seed, cur.tag>>}
         \/ CaveRuns /\ ever' = ever \cup {<<cell.cmd.seed, cell.cmd.tag>>}
<1>1. ASSUME Client \/ Die PROVE ever' = ever
  BY <1>1 DEF Client, Connect, Look, OpenCommand, Send, Answer, TimeOut, Unlink, Count, Store,
     Die, history
<1>2. ASSUME Table, ~Write PROVE ever' = ever
  BY <1>2 DEF Table, Attach, AttachFails, Flush, Poll, BootstrapWaits, BootstrapEnds, NoWork,
     AwaitInventory, Reject, AwaitHydration, Stays, Ambiguous, Recovered, Mismatch, RefuseVial,
     Ends, Direct, WriteFails, Verify, Queue, Arm, VerifyNative, Remove, history
<1>3. ASSUME Game \/ World, ~CaveRuns PROVE ever' = ever
  BY <1>1, <1>3 DEF Game, World, Launch, Ready, Gain, Use, Move, Save, GameEnds,
     CheatEngineDies, history
<1>4. CASE Write
  BY <1>4 DEF Write
<1>5. CASE CaveRuns
  BY <1>5 DEF CaveRuns
<1>6. CASE UNCHANGED vars
  BY <1>6 DEF vars, history
<1>7. QED
  BY <1>1, <1>2, <1>3, <1>4, <1>5, <1>6 DEF Next

(* In one room, items enter the game in the order the room sent them.       *)
THEOREM InOrder == ASSUME SingleRoom PROVE Spec => GivenInOrder
<1> DEFINE Inv == Typed /\ WitnessInv /\ AckInv /\ OrderInv
           Entered == \A s \in Seeds, i \in Index :
                         <<s, i>> \in ever' \ ever => \A j \in 1 .. i - 1 : <<s, j>> \in ever
<1>1. Init => Inv
  BY TypedInit, WitnessInit, AckInit, OrderInit
<1>2. Inv /\ [Next]_vars => Inv'
  BY TypedStep, WitnessStep, AckStep, OrderStep
<1>3. Inv /\ [Next]_vars => [Entered]_vars
  <2> SUFFICES ASSUME Inv, [Next]_vars, NEW s \in Seeds, NEW i \in Index,
                      <<s, i>> \in ever' \ ever
               PROVE  \A j \in 1 .. i - 1 : <<s, j>> \in ever
    OBVIOUS
  <2>1. CASE Write /\ ever' = ever \cup {<<cur.seed, cur.tag>>}
    <3>1. s = cur.seed /\ i = cur.tag /\ hpc \in InHand
      BY <2>1 DEF Write, InHand
    <3>2. QED
      BY <3>1 DEF OrderInv, Follows
  <2>2. CASE CaveRuns /\ ever' = ever \cup {<<cell.cmd.seed, cell.cmd.tag>>}
    <3>1. s = cell.cmd.seed /\ i = cell.cmd.tag /\ cell.request
      BY <2>2 DEF CaveRuns
    <3>2. QED
      BY <3>1 DEF OrderInv, Follows
  <2>3. QED
    BY <2>1, <2>2, EntersBy
<1>4. QED
  BY <1>1, <1>2, <1>3, PTL DEF Spec, GivenInOrder

-----------------------------------------------------------------------------
(* Blood Vials.                                                             *)

(* The player does not use up the Vials between the record of a grant and   *)
(* its write; when one may, the write makes a stack of the old count.       *)
VialsKept == "vial" \notin Usable \/ "write" \notin PlayerAt

VialInv == hpc = "write" /\ hooked /\ cur.kind = "vial" => held["vial"] > 0

LEMMA VialInit == Init => VialInv
BY DEF Init, VialInv

LEMMA VialStep == ASSUME VialsKept, Typed, VialInv, [Next]_vars PROVE VialInv'
<1>1. CASE Direct
  <2>1. command.kind = cur'.kind /\ held[command.kind] > 0 /\ held' = held
    BY <1>1 DEF Direct, game
  <2>2. QED
    BY <2>1 DEF VialInv
<1>2. CASE Gain \/ Use
  <2>1. UNCHANGED <<hpc, cur, hooked>>
    BY <1>2 DEF Gain, Use, Move, harness
  <2>2. ASSUME hpc = "write", "vial" \in Kinds, held["vial"] > 0 PROVE held'["vial"] > 0
    <3>1. held \in [Kinds -> Nat]
      BY DEF Typed, TypeOK
    <3>2. CASE Gain
      <4>1. PICK k \in Gainable : held' = [held EXCEPT ![k] = held[k] + 1]
        BY <3>2 DEF Gain, Move
      <4>2. held'["vial"] \in {held["vial"], held["vial"] + 1} /\ held["vial"] \in Nat
        BY <2>2, <3>1, <4>1
      <4>3. QED
        BY <2>2, <4>2
    <3>3. CASE Use
      <4>1. PICK k \in Usable : k # "vial" /\ held' = [held EXCEPT ![k] = held[k] + (-1)]
        BY <2>2, <3>3 DEF Use, Move, VialsKept
      <4>2. held'["vial"] = held["vial"]
        BY <2>2, <3>1, <4>1
      <4>3. QED
        BY <2>2, <4>2
    <3>4. QED
      BY <1>2, <3>2, <3>3
  <2>3. cur.kind = "vial" /\ hpc = "write" => "vial" \in Kinds
    BY DEF Typed, HandInv, IsGrant, InHand
  <2>4. QED
    BY <2>1, <2>2, <2>3 DEF VialInv
<1>3. CASE ~(Direct \/ Gain \/ Use)
  <2>1. \/ UNCHANGED <<hpc, cur, hooked, held>>
        \/ hpc' # "write"
        \/ hooked' = FALSE
        \/ hooked' = hooked /\ ~hooked
    BY <1>3 DEF Next, Client, Connect, Look, OpenCommand, Send, Answer, TimeOut, Unlink,
       Count, Store, Die, Table, Attach, AttachFails, Flush, Poll, BootstrapWaits,
       BootstrapEnds, NoWork, AwaitInventory, Reject, AwaitHydration, Stays, Ambiguous,
       Recovered, Mismatch, RefuseVial, Ends, Write, WriteFails, Verify, Queue, Arm,
       VerifyNative, Remove, Game, World, Launch, Ready, CaveRuns, Save, GameEnds,
       CheatEngineDies, NoLocals, harness, game, vars, Typed, CellInv, Polls
  <2>2. QED
    BY <2>1 DEF VialInv
<1>4. QED
  BY <1>1, <1>2, <1>3

(* The deaths, attaches, moves and commands are counted.                    *)
Counted == moves \in Nat

LEMMA CountedStep == Counted /\ [Next]_vars => Counted'
<1> SUFFICES ASSUME Counted, [Next]_vars PROVE Counted'
  OBVIOUS
<1>1. CASE Gain \/ Use
  BY <1>1 DEF Gain, Use, Move, Counted
<1>2. CASE ~(Gain \/ Use)
  <2>1. moves' = moves
    BY <1>2 DEF Next, Client, Connect, Look, OpenCommand, Send, Answer, TimeOut, Unlink,
       Count, Store, Die, Table, Attach, AttachFails, Flush, Poll, BootstrapWaits,
       BootstrapEnds, NoWork, AwaitInventory, Reject, AwaitHydration, Stays, Ambiguous,
       Recovered, Mismatch, RefuseVial, Ends, Direct, Write, WriteFails, Verify, Queue, Arm,
       VerifyNative, Remove, Game, World, Launch, Ready, CaveRuns, Save, GameEnds,
       CheatEngineDies, bounds, vars
  <2>2. QED
    BY <2>1 DEF Counted
<1>3. QED
  BY <1>1, <1>2

(* The actions that change what is held, and how.                           *)
LEMMA HeldBy ==
  ASSUME [Next]_vars
  PROVE  held' = held \/ BootstrapEnds \/ Write \/ CaveRuns \/ Gain \/ Use \/ Launch \/ GameEnds
<1>1. ASSUME Client \/ Die PROVE held' = held
  BY <1>1 DEF Client, Connect, Look, OpenCommand, Send, Answer, TimeOut, Unlink, Count, Store,
     Die, game
<1>2. ASSUME Table, ~BootstrapEnds, ~Write PROVE held' = held
  BY <1>2 DEF Table, Attach, AttachFails, Flush, Poll, BootstrapWaits, NoWork, AwaitInventory,
     Reject, AwaitHydration, Stays, Ambiguous, Recovered, Mismatch, RefuseVial, Ends, Direct,
     WriteFails, Verify, Queue, Arm, VerifyNative, Remove, game
<1>3. ASSUME Game \/ World, ~CaveRuns, ~Gain, ~Use, ~Launch, ~GameEnds PROVE held' = held
  BY <1>1, <1>3 DEF Game, World, Ready, Save, CheatEngineDies, game
<1>4. QED
  BY <1>1, <1>2, <1>3 DEF Next, vars, game

(* Where the player does not use Vials up under the harness's hand, neither *)
(* a grant of a Vial nor the bootstrap's refund creates a stack of them.    *)
THEOREM VialsNotMade == ASSUME VialsKept PROVE Spec => VialsAreNotMade
<1> DEFINE Inv == Typed /\ VialInv /\ Counted
           Moved == held["vial"] = 0 /\ held'["vial"] > 0 => moves' # moves \/ up' # up
<1>1. Init => Inv
  BY TypedInit, VialInit DEF Init, Counted
<1>2. Inv /\ [Next]_vars => Inv'
  BY TypedStep, VialStep, CountedStep
<1>3. Inv /\ [Next]_vars => [Moved]_vars
  <2> SUFFICES ASSUME Inv, [Next]_vars, held["vial"] = 0, held'["vial"] > 0
               PROVE  moves' # moves \/ up' # up
    OBVIOUS
  <2>1. held \in [Kinds -> Nat] /\ "vial" \in Kinds
    BY BridgeAssumption DEF Typed, TypeOK
  <2>2. ~BootstrapEnds
    BY BridgeAssumption DEF BootstrapEnds
  <2>3. ~Write
    <3>1. ASSUME Write PROVE held'["vial"] = held["vial"]
      <4>1. held' = [held EXCEPT ![cur.kind] = mem.after] /\ cur.kind # "vial"
        BY <3>1 DEF Write, VialInv
      <4>2. QED
        BY <2>1, <4>1
    <3>2. QED
      BY <3>1
  <2>4. ~CaveRuns
    <3>1. ASSUME CaveRuns PROVE held'["vial"] = held["vial"]
      <4>1. held' = [held EXCEPT ![cell.cmd.kind] = held[cell.cmd.kind] + 1]
            /\ cell.cmd.kind # "vial"
        BY <3>1 DEF CaveRuns, Typed, CellInv
      <4>2. QED
        BY <2>1, <4>1
    <3>2. QED
      BY <3>1
  <2>5. CASE Gain \/ Use
    BY <2>5 DEF Gain, Use, Move, Counted
  <2>6. CASE Launch \/ GameEnds
    BY <2>6 DEF Launch, GameEnds, Typed, CellInv
  <2>7. QED
    BY <2>2, <2>3, <2>4, <2>5, <2>6, HeldBy
<1>4. QED
  BY <1>1, <1>2, <1>3, PTL DEF Spec, VialsAreNotMade
-----------------------------------------------------------------------------
(* No item is given twice.                                                  *)

(* One restart, of a harness that leaves whole records and does not die     *)
(* between the guest write and the record of its answer.                    *)
OneRestart == MaxAttaches <= 2 /\ ~TornRecords /\ "verify" \notin DieAt

(* A player who holds a Vial, uses nothing up, and leaves the count alone   *)
(* between the guest write and its verification.                            *)
SteadyCounts == HeldAtStart["vial"] >= 1 /\ Usable = {} /\ "verify" \notin PlayerAt

(* A client whose receipt is whole, and whose look at the record and at the *)
(* command are one.                                                         *)
SteadyClient == "looked" \notin PollAt /\ "store" \notin KillAt

(* The item the client has next, in the room and in the history.            *)
Stored == IF receipt.is = "full" THEN receipt.n ELSE 0
Cursor == IF cpc = "off" THEN Stored ELSE delivered
NextItem == Cursor + 1
NextKind == Items[seed][NextItem]
NextOrder == <<seed, NextItem>>
Present == NextOrder \in Order /\ given[NextOrder] >= 1

(* The last record reported, whether its file is whole yet or not.          *)
Latest == IF out = Nowhere THEN state ELSE out

(* The count shows the item wherever it is: in the game, in the save.       *)
Shows(before) ==
    NextOrder \in Order =>
        /\ given[NextOrder] >= 1 => held[NextKind] >= before + 1
        /\ savedGiven[NextOrder] >= 1 => saved[NextKind] >= before + 1

(* A record from which a restart finds out whether the item is present, and *)
(* one from which the client takes it that it is.                           *)
Tells(r) ==
    /\ r.tag = NextItem /\ r.status \in Done \cup InFlight
    /\ r.before \in Nat /\ r.after = r.before + 1 /\ Shows(r.before)
Answers(r) == Tells(r) /\ r.status \in Done

CursorInv ==
    /\ cpc = "store" <=> receipt.is = "torn"
    /\ cpc \notin {"off", "store"} => delivered = Stored

(* The command file names the next item or none; while the client takes the *)
(* answer it is about to go, or a record answers for it after the restart.  *)
CommandInv ==
    /\ command.is = "full" => command = Grant(seed, NextItem)
    /\ cpc = "send" => command.is = "torn"
    /\ cpc \in {"count", "store"} => command.is = "none"
    /\ cpc = "ack" => \/ command.is = "none"
                      \/ hpc \in {"remove", "off"} /\ Answers(Latest)
                      \/ attaches = MaxAttaches /\ (Answers(prior) \/ hpc = "failed")

(* Once the record says the next item was granted, its command is not       *)
(* written again, or the record of the restart answers for it too.          *)
AnswerInv ==
    /\ out # Nowhere => state = Nowhere
    /\ Latest.status \in Done => Latest.tag <= NextItem
    /\ Latest.status \in Done /\ Latest.tag = NextItem =>
         /\ Answers(Latest)
         /\ \/ cpc \notin {"looked", "send"} /\ (command.is = "none" \/ hpc \in {"remove", "off"})
            \/ attaches = MaxAttaches /\ Answers(prior)

GivenInv ==
    \A o \in Order : /\ given[o] <= 1 /\ savedGiven[o] <= given[o]
                     /\ given[o] >= 1 => o[2] <= NextItem

StockInv == held["vial"] >= 1 /\ saved["vial"] >= 1 /\ hpc # "command"

FirstInv ==
    /\ attaches \in Nat /\ attaches <= MaxAttaches
    /\ attaches = 0 => /\ hpc = "off" /\ ~hooked /\ Latest.status \notin Done
                       /\ \A o \in Order : given[o] = 0

Refunded == ~boot /\ (hooked => ready)

(* What the harness has in hand is the next item, told by its record.       *)
TakenNow ==
    /\ cur.tag = NextItem /\ cur = Grant(seed, NextItem) /\ command.is = "full"
    /\ cpc \notin {"ack", "count", "store"} /\ Refunded
    /\ Latest.status \in InFlight /\ Tells(Latest)
    /\ Latest.before = mem.before /\ Latest.after = mem.after
    /\ hpc \in {"write", "arm"} => ~Present
    /\ hpc = "arm" => mem.before = 0
    /\ hpc = "verify" => hooked /\ held[NextKind] = mem.after
    /\ hpc = "active" /\ hooked /\ cell.done => Present

(* Or, after the restart, an item that was answered to the client before    *)
(* its command was deleted, and that is not in the game that came back: the *)
(* client may be about to go past it, or has.                               *)
TakenAgain ==
    /\ cur.tag = NextItem /\ cur = Grant(seed, NextItem) /\ Answers(prior)
    /\ mem.before = prior.before /\ mem.after = prior.after
TakenPassed ==
    /\ cur.tag = NextItem - 1 /\ ~Present /\ cpc \notin {"ack", "count"}
    /\ mem.before \in Nat /\ mem.after = mem.before + 1
TakenLate ==
    /\ attaches = MaxAttaches /\ hooked /\ cur.seed = seed
    /\ Latest.status \in InFlight /\ Latest.tag = cur.tag
    /\ TakenAgain \/ TakenPassed
    /\ hpc \in {"write", "arm"} \/ cell.request => given[<<cur.seed, cur.tag>>] = 0
    /\ hpc = "arm" \/ cell.request => mem.before = 0

TakenInv == hpc \in InHand => TakenNow \/ TakenLate

(* So is what the cave was asked for, whether the harness lives or not.     *)
PendingNow ==
    /\ cell.cmd.tag = NextItem /\ cell.cmd = Grant(seed, NextItem) /\ ~Present
    /\ cpc \notin {"ack", "count", "store"}
    /\ Latest.status \in InFlight /\ Tells(Latest) /\ Latest.before = 0
PendingInv == cell.request => PendingNow \/ (hpc = "active" /\ TakenLate)

(* A next item that is present can be told: by the record of the one who    *)
(* has it in hand or has just answered, by the record a dead harness left,  *)
(* or by the one that was read at the restart.                              *)
TracedInv ==
    Present =>
        \/ hpc \in InHand /\ TakenNow
        \/ Answers(Latest) /\ hpc \in {"poll", "remove"} /\ Refunded
        \/ Tells(Latest) /\ hpc = "off"
        \/ attaches = MaxAttaches /\ (Tells(prior) \/ hpc = "failed")

OnceInv == CursorInv /\ CommandInv /\ AnswerInv /\ GivenInv /\ StockInv /\ FirstInv
           /\ TakenInv /\ PendingInv /\ TracedInv

LEMMA NextItemTyped ==
  ASSUME SingleRoom, Typed
  PROVE  /\ NextItem \in Nat \ {0} /\ seed \in Seeds
         /\ \A o \in Order : o = <<seed, o[2]>> /\ o[2] \in Nat
         /\ NextOrder \in Order => NextKind \in Kinds
<1>1. NextItem \in Nat \ {0} /\ seed \in Seeds
  BY DEF Typed, TypeOK, ClientInv, NextItem, Cursor, Stored
<1>2. ASSUME NEW o \in Order PROVE o = <<seed, o[2]>> /\ o[2] \in 1 .. Len(Items[seed])
  <2>1. PICK s \in Seeds, i \in Index : o = <<s, i>>
    BY <1>2 DEF Order
  <2>2. PICK t \in Seeds : i \in 1 .. Len(Items[t])
    BY DEF Index
  <2>3. s = seed /\ t = seed
    BY <1>1 DEF SingleRoom
  <2>4. QED
    BY <2>1, <2>2, <2>3
<1>3. Items[seed] \in Seq(Kinds)
  BY <1>1, BridgeAssumption
<1>4. Len(Items[seed]) \in Nat
  BY <1>3
<1>5. ASSUME NextOrder \in Order PROVE NextKind \in Kinds
  <2>1. NextItem \in 1 .. Len(Items[seed])
    BY <1>2, <1>5 DEF NextOrder
  <2>2. QED
    BY <1>3, <2>1 DEF NextKind
<1>6. QED
  BY <1>1, <1>2, <1>4, <1>5

(* A grant of the next item is of its kind, and in the history.             *)
LEMMA GrantOfNext ==
  ASSUME SingleRoom, Typed, NEW c, IsGrant(c), c = Grant(seed, NextItem)
  PROVE  /\ c.seed = seed /\ c.tag = NextItem /\ c.kind = NextKind
         /\ <<c.seed, c.tag>> = NextOrder /\ NextOrder \in Order /\ NextKind \in Kinds
<1>1. c.seed = seed /\ c.tag = NextItem /\ c.kind = NextKind
  BY DEF Grant, NextKind
<1>2. NextOrder \in Order
  BY <1>1, GrantInOrder DEF NextOrder
<1>3. QED
  BY <1>1, <1>2, NextItemTyped DEF NextOrder

LEMMA OnceInit == ASSUME SteadyCounts PROVE Init => OnceInv
<1> SUFFICES ASSUME Init PROVE OnceInv
  OBVIOUS
<1>1. CursorInv /\ CommandInv
  BY NoCommandNames DEF Init, CursorInv, CommandInv, NoReceipt
<1>2. AnswerInv /\ Latest.status \notin Done
  BY DEF Init, AnswerInv, Latest, Nowhere, Done
<1>3. GivenInv /\ ~Present
  BY DEF Init, GivenInv, Present
<1>4. StockInv
  BY DEF Init, StockInv, SteadyCounts
<1>5. FirstInv
  BY <1>2, BridgeAssumption DEF Init, FirstInv
<1>6. TakenInv /\ PendingInv
  BY DEF Init, TakenInv, InHand, PendingInv, IdleCell
<1>7. QED
  BY <1>1, <1>2, <1>3, <1>4, <1>5, <1>6 DEF OnceInv, TracedInv

(* The client believes a whole record about its next item, which the        *)
(* harness has then not in hand.                                            *)
LEMMA SuccessIsNext ==
  ASSUME Typed, OnceInv, cpc \in {"idle", "wait"}, Outcome(Due) = "success"
  PROVE  /\ \/ command.is = "none"
            \/ hpc \in {"remove", "off"} /\ Answers(Latest)
            \/ attaches = MaxAttaches /\ Answers(prior)
         /\ hpc \notin InHand /\ ~cell.request
<1>1. state # Nowhere /\ state.status \in Done /\ state.tag = Due
  BY DEF Outcome
<1>2. Latest = state /\ Due = NextItem
  BY <1>1 DEF OnceInv, AnswerInv, Latest, NextItem, Cursor, Due
<1>3. Latest.status \notin InFlight
  BY <1>1, <1>2 DEF Done, InFlight
<1>4. QED
  BY <1>1, <1>2, <1>3 DEF OnceInv, AnswerInv, TakenInv, TakenNow, TakenLate, PendingInv,
     PendingNow

(* What a client step leaves alone.                                         *)
LEMMA ClientNext ==
  ASSUME SingleRoom, SteadyClient, Typed, OnceInv, Client \/ Die
  PROVE  /\ UNCHANGED <<state, harness, game, history, attaches, Latest>>
         /\ seed' = seed
         /\ ~Count => NextItem' = NextItem
<1>1. UNCHANGED <<state, harness, game, history, attaches>>
  BY DEF Client, Connect, Look, OpenCommand, Send, Answer, TimeOut, Unlink, Count, Store, Die,
     files, bounds
<1>2. Latest' = Latest
  BY <1>1 DEF Latest, harness
<1>3. seed' = seed
  BY DEF SingleRoom, Typed, TypeOK, Client, Connect, Look, OpenCommand, Send, Answer, TimeOut,
     Unlink, Count, Store, Die
<1>4. ASSUME ~Count PROVE Cursor' = Cursor
  <2>1. ASSUME NEW s \in Seeds, Connect(s) PROVE Cursor' = Cursor
    <3>1. receipt.is = "full" => receipt.seed = s
      BY DEF SingleRoom, Typed, ClientInv
    <3>2. QED
      BY <2>1, <3>1 DEF Connect, Cursor, Stored, files
  <2>2. CASE Store
    BY <2>2 DEF Store, Cursor, Stored
  <2>3. CASE Die
    BY <2>3 DEF Die, Cursor, Stored, files, OnceInv, CursorInv, SteadyClient
  <2>4. CASE Look \/ OpenCommand \/ Send \/ Answer \/ TimeOut \/ Unlink
    BY <2>4 DEF Look, OpenCommand, Send, Answer, TimeOut, Unlink, Cursor, files
  <2>5. QED
    BY <1>4, <2>1, <2>2, <2>3, <2>4 DEF Client
<1>5. QED
  BY <1>1, <1>2, <1>3, <1>4 DEF NextItem

(* The cursor moves past an item that was answered.                         *)
LEMMA CountOnce ==
  ASSUME SingleRoom, SteadyClient, Typed, OnceInv, Count PROVE OnceInv'
<1>1. /\ UNCHANGED <<state, harness, game, history, attaches, Latest>> /\ seed' = seed
      /\ command' = command
  BY ClientNext DEF Client, Count
<1>2. /\ cpc = "count" /\ cpc' = "store" /\ delivered' = delivered + 1
      /\ receipt' = TornReceipt /\ receipt'.is = "torn"
      /\ NextItem = delivered + 1 /\ NextItem' = NextItem + 1
  BY DEF Count, TornReceipt, NoReceipt, NextItem, Cursor
<1>3. /\ command.is = "none" /\ ~TakenNow /\ ~PendingNow
      /\ TakenLate => TakenAgain
  BY <1>2 DEF OnceInv, CommandInv, TakenNow, PendingNow, TakenLate, TakenPassed
<1>4. NextItem \in Nat /\ \A o \in Order : o[2] \in Nat
  BY NextItemTyped
<1>5. CursorInv' /\ CommandInv'
  BY <1>1, <1>2, <1>3 DEF CursorInv, CommandInv
<1>6. AnswerInv'
  <2>1. state \in Record /\ out \in Record
    BY DEF Typed, RecordsInv
  <2>2. Latest \in Record
    BY <2>1 DEF Latest
  <2>3. Latest.tag \in Int
    BY <2>2 DEF Record
  <2>4. Latest.status \in Done => Latest.tag <= NextItem
    BY DEF OnceInv, AnswerInv
  <2>5. Latest.status \in Done => Latest.tag < NextItem'
    BY <1>2, <1>4, <2>3, <2>4
  <2>6. QED
    BY <1>1, <1>2, <1>4, <2>3, <2>5 DEF OnceInv, AnswerInv, harness
<1>7. GivenInv'
  BY <1>1, <1>2, <1>4 DEF OnceInv, GivenInv, history
<1>8. ~Present'
  <2>1. ASSUME NextOrder' \in Order, given[NextOrder'] >= 1 PROVE FALSE
    <3>1. NextOrder'[2] = NextItem + 1
      BY <1>2 DEF NextOrder
    <3>2. NextOrder'[2] <= NextItem
      BY <2>1 DEF OnceInv, GivenInv
    <3>3. QED
      BY <1>4, <3>1, <3>2
  <2>2. QED
    BY <1>1, <2>1 DEF Present, history
<1>9. StockInv' /\ FirstInv'
  BY <1>1 DEF OnceInv, StockInv, FirstInv, harness, game, history
<1>10. TakenInv' /\ PendingInv'
  <2>1. ASSUME TakenLate PROVE TakenLate'
    <3>1. /\ cur.tag = NextItem /\ mem.before \in Nat /\ mem.after = mem.before + 1
      BY <1>3, <2>1 DEF TakenAgain, Answers, Tells
    <3>2. TakenPassed'
      BY <1>1, <1>2, <1>4, <1>8, <3>1 DEF TakenPassed, harness
    <3>3. QED
      BY <1>1, <2>1, <3>2 DEF TakenLate, harness, game, history
  <2>2. QED
    BY <1>1, <1>3, <2>1 DEF OnceInv, TakenInv, PendingInv, harness, game
<1>11. QED
  BY <1>5, <1>6, <1>7, <1>8, <1>9, <1>10 DEF OnceInv, TracedInv

(* The other steps of the client keep to the next item.                     *)
LEMMA ClientOnce ==
  ASSUME SingleRoom, SteadyClient, Typed, OnceInv, Client \/ Die, ~Count PROVE OnceInv'
<1>1. /\ UNCHANGED <<state, harness, game, history, attaches, Latest, NextItem>>
      /\ seed' = seed
  BY ClientNext
<1>2. /\ UNCHANGED <<hpc, cur, mem, boot, out, prior, hooked, ready, cell, held, saved, given,
                     savedGiven, NextKind, NextOrder>>
  BY <1>1 DEF harness, game, history, NextKind, NextOrder
<1>3. /\ Present' = Present /\ (Tells(Latest) => Tells(Latest)')
      /\ (Answers(Latest) => Answers(Latest)')
      /\ (Tells(prior) => Tells(prior)') /\ (Answers(prior) => Answers(prior)')
  BY <1>1, <1>2 DEF Present, Answers, Tells, Shows
<1>4. CursorInv'
  <2>1. ASSUME NEW s \in Seeds, Connect(s) PROVE CursorInv'
    <3>1. receipt.is = "full" => receipt.seed = s
      BY DEF SingleRoom, Typed, ClientInv
    <3>2. QED
      BY <2>1, <3>1 DEF OnceInv, CursorInv, Connect, Stored, files
  <2>2. CASE Store
    BY <2>2 DEF Store, CursorInv, Stored
  <2>3. CASE Die
    BY <2>3 DEF OnceInv, CursorInv, Die, Stored, SteadyClient, files
  <2>4. CASE Look \/ OpenCommand \/ Send \/ Answer \/ TimeOut \/ Unlink
    BY <2>4 DEF OnceInv, CursorInv, Look, OpenCommand, Send, Answer, TimeOut, Unlink, Stored,
       files
  <2>5. QED
    BY <2>1, <2>2, <2>3, <2>4 DEF Client
<1>5. CommandInv'
  <2>1. CASE Look \/ Answer
    <3>1. cpc' = "ack" => Outcome(Due) = "success" /\ cpc \in {"idle", "wait"}
      BY <2>1 DEF Look, Answer
    <3>2. cpc' \in {"ack", "looked", "idle"} /\ command' = command
      BY <2>1 DEF Look, Answer, files
    <3>3. cpc' = "ack" => CommandInv'
      BY <1>1, <1>2, <1>3, <3>1, <3>2, SuccessIsNext DEF OnceInv, CommandInv
    <3>4. QED
      BY <1>1, <3>2, <3>3 DEF OnceInv, CommandInv
  <2>2. CASE Send
    BY <1>1, <2>2 DEF Send, CommandInv, Grant, Due, NextItem, Cursor
  <2>3. CASE OpenCommand \/ Unlink \/ TimeOut \/ Store \/ Die \/ \E s \in Seeds : Connect(s)
    BY <1>1, <1>2, <1>3, <2>3, NoCommandNames DEF OpenCommand, Unlink, TimeOut, Store, Die,
       Connect, OnceInv, CommandInv, files
  <2>4. QED
    BY <2>1, <2>2, <2>3 DEF Client
<1>6. AnswerInv'
  <2>1. cpc' = "send" => cpc = "looked"
    BY DEF Client, Connect, Look, OpenCommand, Send, Answer, TimeOut, Unlink, Count, Store, Die
  <2>2. ASSUME cpc' = "looked", Latest.status \in Done, Latest.tag = NextItem PROVE FALSE
    <3>1. cpc = "idle" /\ Outcome(Due) = "pending"
      BY <2>2 DEF Client, Connect, Look, OpenCommand, Send, Answer, TimeOut, Unlink, Count,
         Store, Die
    <3>2. Latest = state /\ Due = NextItem
      BY <3>1 DEF Outcome, OnceInv, AnswerInv, Latest, Due, NextItem, Cursor
    <3>3. QED
      BY <2>2, <3>1, <3>2 DEF Outcome
  <2>3. ASSUME cpc # "looked", cpc # "send", command.is = "none" PROVE command'.is = "none"
    BY <2>3, NoCommandNames DEF Client, Connect, Look, OpenCommand, Send, Answer, TimeOut,
       Unlink, Store, Count, Die, files
  <2>4. QED
    BY <1>1, <1>2, <1>3, <2>1, <2>2, <2>3 DEF OnceInv, AnswerInv
<1>7. GivenInv' /\ StockInv' /\ FirstInv'
  BY <1>1, <1>2 DEF OnceInv, GivenInv, StockInv, FirstInv
<1>8. ASSUME hpc \in InHand \/ cell.request
      PROVE  /\ cpc' \in {"ack", "count", "store"} => cpc \in {"ack", "count", "store"}
             /\ cpc' \in {"ack", "count"} => cpc \in {"ack", "count"}
  <2>1. cpc \in {"idle", "wait"} => Outcome(Due) # "success"
    BY <1>8, SuccessIsNext
  <2>2. QED
    BY <2>1 DEF Client, Connect, Look, OpenCommand, Send, Answer, TimeOut, Unlink, Count, Store,
       Die
<1>9. ASSUME cpc \notin {"ack", "count", "store"}, command.is = "full", cpc # "send"
      PROVE  command' = command
  BY <1>9 DEF Client, Connect, Look, OpenCommand, Send, Answer, TimeOut, Unlink, Count, Store,
     Die, files
<1>10. ASSUME hpc \in InHand, TakenNow PROVE TakenNow'
  BY <1>1, <1>2, <1>8, <1>9, <1>3, <1>10 DEF OnceInv, CommandInv, TakenNow, Refunded
<1>11. ASSUME hpc \in InHand, TakenLate PROVE TakenLate'
  <2>1. TakenAgain => TakenAgain'
    BY <1>1, <1>2, <1>3 DEF TakenAgain
  <2>2. TakenPassed => TakenPassed'
    BY <1>1, <1>2, <1>8, <1>3, <1>11 DEF TakenPassed
  <2>3. QED
    BY <1>1, <1>2, <1>11, <2>1, <2>2 DEF TakenLate
<1>12. TakenInv' /\ PendingInv'
  <2>1. cell.request /\ PendingNow => PendingNow'
    BY <1>1, <1>2, <1>8, <1>3 DEF PendingNow
  <2>2. QED
    BY <1>1, <1>2, <1>10, <1>11, <2>1 DEF OnceInv, TakenInv, PendingInv, InHand
<1>13. TracedInv'
  BY <1>1, <1>2, <1>3, <1>10 DEF OnceInv, TracedInv, Refunded
<1>14. QED
  BY <1>4, <1>5, <1>6, <1>7, <1>12, <1>13 DEF OnceInv

-----------------------------------------------------------------------------
(* The harness and the game leave the client's cursor where it is.          *)
LEMMA OthersKeepCursor ==
  ASSUME \/ Table \/ Game \/ Gain \/ Use \/ Save \/ GameEnds \/ CheatEngineDies
  PROVE  UNCHANGED <<cpc, seed, delivered, receipt, Stored, NextItem, NextKind, NextOrder>>
<1>1. UNCHANGED <<cpc, seed, delivered, receipt>>
  BY DEF Table, Attach, AttachFails, Flush, Poll, BootstrapWaits, BootstrapEnds, NoWork,
     AwaitInventory, Reject, AwaitHydration, Stays, Ambiguous, Recovered, Mismatch,
     RefuseVial, Ends, Direct, Write, WriteFails, Verify, Queue, Arm, VerifyNative, Remove,
     Game, Launch, Ready, CaveRuns, Gain, Use, Move, Save, GameEnds, CheatEngineDies, client,
     files
<1>2. QED
  BY <1>1 DEF Stored, NextItem, Cursor, NextKind, NextOrder

(* What an invariant of a step that reports says of its record.             *)
LEMMA ReportLatest ==
  ASSUME NEW status \in Status \ {"empty"}, NEW m \in Memory, Report(status, m)
  PROVE  /\ state' = Nowhere /\ out' # Nowhere /\ Latest' = out' /\ mem' = m
         /\ Latest'.status = status /\ Latest'.tag = m.tag
         /\ Latest'.before = m.before /\ Latest'.after = m.after
<1>1. out' # Nowhere
  BY DEF Report, Nowhere
<1>2. Latest' = out'
  BY <1>1 DEF Latest
<1>3. QED
  BY <1>1, <1>2 DEF Report

(* A poll with something to do about the next item, if it is present at all, *)
(* reads of it in the record of the last restart.                           *)
LEMMA PollTraced ==
  ASSUME Typed, OnceInv, hpc = "poll", Present,
         command.is # "none" \/ boot \/ (hooked /\ ~ready)
  PROVE  attaches = MaxAttaches /\ Tells(prior)
<1>1. CASE Answers(Latest) /\ Refunded
  BY <1>1 DEF OnceInv, AnswerInv, Answers, Tells, Refunded
<1>2. CASE ~(Answers(Latest) /\ Refunded)
  BY <1>2 DEF OnceInv, TracedInv, InHand
<1>3. QED
  BY <1>1, <1>2

(* A poll that only speaks, or refunds the Vial.                            *)
LEMMA PollSaysOnce ==
  ASSUME SingleRoom, Typed, OnceInv, hpc = "poll",
         NEW status \in Status \ {"empty"}, NEW m \in Memory, Report(status, m),
         command.is # "none" \/ boot \/ (hooked /\ ~ready),
         hpc' \in {"poll", "remove"},
         status \in Done =>
           /\ m.tag = NextItem /\ m.before \in Nat /\ m.after = m.before + 1 /\ Shows(m.before)
           /\ cpc \notin {"looked", "send"} /\ hpc' = "remove",
         UNCHANGED <<command, prior, hooked, ready, cell, saved, given, savedGiven, attaches,
                     cpc, seed, receipt, Stored, NextItem, NextKind, NextOrder, delivered>>,
         held' \in [Kinds -> Nat], \A k \in Kinds : held'[k] >= held[k]
  PROVE  OnceInv'
<1>1. ~cell.request
  BY PollingIsFree DEF Typed
<1>2. ASSUME NEW b \in Nat, Shows(b)
      PROVE  NextOrder' \in Order => /\ given'[NextOrder'] >= 1 => held'[NextKind'] >= b + 1
                                     /\ savedGiven'[NextOrder'] >= 1 => saved'[NextKind'] >= b + 1
  <2>1. NextOrder \in Order => /\ held[NextKind] \in Nat /\ held'[NextKind] \in Nat
                               /\ held'[NextKind] >= held[NextKind]
    BY NextItemTyped DEF Typed, TypeOK
  <2>2. QED
    BY <1>2, <2>1 DEF Shows
<1>3. (Tells(prior) => Tells(prior)') /\ (Answers(prior) => Answers(prior)')
  BY <1>2 DEF Tells, Answers, Shows
<1>4. CursorInv' /\ CommandInv'
  BY <1>3 DEF OnceInv, CursorInv, CommandInv
<1>5. AnswerInv'
  <2>1. /\ state' = Nowhere /\ Latest'.status = status /\ Latest'.tag = m.tag
        /\ Latest'.before = m.before /\ Latest'.after = m.after
    BY ReportLatest
  <2>2. status \in Done => Answers(Latest)'
    BY <1>2, <2>1 DEF Answers, Tells, Shows
  <2>3. QED
    BY <2>1, <2>2, NextItemTyped DEF AnswerInv
<1>6. GivenInv' /\ FirstInv'
  BY DEF OnceInv, GivenInv, FirstInv
<1>7. StockInv'
  BY BridgeAssumption DEF Typed, TypeOK, OnceInv, StockInv
<1>8. TakenInv' /\ PendingInv'
  BY <1>1 DEF TakenInv, PendingInv, InHand
<1>9. ASSUME Present' PROVE attaches = MaxAttaches /\ Tells(prior)'
  BY <1>3, <1>9, PollTraced DEF Present
<1>10. QED
  BY <1>4, <1>5, <1>6, <1>7, <1>8, <1>9 DEF OnceInv, TracedInv

(* What is not in the game is not in its save.                              *)
LEMMA AbsentIsUnsaved ==
  ASSUME Typed, OnceInv, ~Present, NextOrder \in Order
  PROVE  given[NextOrder] = 0 /\ savedGiven[NextOrder] = 0
<1>1. given[NextOrder] \in Nat /\ savedGiven[NextOrder] \in Nat
  BY DEF Typed, TypeOK
<1>2. savedGiven[NextOrder] <= given[NextOrder]
  BY DEF OnceInv, GivenInv
<1>3. ~(given[NextOrder] >= 1)
  BY DEF Present
<1>4. QED
  BY <1>1, <1>2, <1>3

(* A grant is recovered from the count its record started at.               *)
LEMMA RecoveredShows ==
  ASSUME Typed, OnceInv, Recovered, hpc = "poll", command.is = "full"
  PROVE  Shows(Plan(command).before)
<1>1. Plan(command).before = prior.before
  BY DEF Plan, Expected, Recovered
<1>2. CASE Present
  BY <1>1, <1>2, PollTraced DEF Tells
<1>3. CASE ~Present
  BY <1>3, AbsentIsUnsaved DEF Shows
<1>4. QED
  BY <1>2, <1>3

LEMMA ReportsOnce ==
  ASSUME SingleRoom, SteadyClient, Typed, OnceInv,
         \/ BootstrapWaits \/ NoWork \/ AwaitInventory \/ Reject \/ AwaitHydration
         \/ Ambiguous \/ Recovered \/ Mismatch \/ RefuseVial
  PROVE  OnceInv'
<1>1. UNCHANGED <<cpc, seed, delivered, receipt, Stored, NextItem, NextKind, NextOrder>>
  BY OthersKeepCursor DEF Table, Poll
<1>2. hpc # "command" /\ held["vial"] >= 1
  BY DEF OnceInv, StockInv
<1>3. ~BootstrapWaits /\ ~NoWork
  BY <1>2 DEF BootstrapWaits, NoWork
<1>4. /\ hpc = "poll" /\ UNCHANGED <<command, prior, hooked, ready, cell, held, saved, given,
                                     savedGiven, attaches>>
      /\ hpc' \in {"poll", "remove"} /\ cpc \in PollAt
      /\ command.is # "none" \/ (hooked /\ ~ready)
  BY <1>2, <1>3 DEF AwaitInventory, Reject, AwaitHydration, Stays, Ambiguous, Recovered,
     Mismatch, RefuseVial, Ends, Executable, Decides, Polls, Turn, game, history, bounds
<1>5. held' \in [Kinds -> Nat] /\ \A k \in Kinds : held'[k] >= held[k]
  BY <1>4 DEF Typed, TypeOK
<1>6. {"awaiting_inventory", "command_rejected", "recovery_ambiguous", "recovered_complete",
       "quantity_mismatch", "failed"} \subseteq Status \ {"empty"}
      /\ {"awaiting_inventory", "command_rejected", "recovery_ambiguous",
          "quantity_mismatch", "failed"} \cap Done = {}
  BY DEF Status, Done, Terminal
<1>7. mem \in Memory
  BY DEF Typed, RecordsInv
<1>8. CASE AwaitInventory \/ AwaitHydration \/ Reject
  <2>1. \E status \in {"awaiting_inventory", "command_rejected"} : Report(status, mem)
    BY <1>8 DEF AwaitInventory, AwaitHydration, Reject, Stays
  <2>2. QED
    BY <1>1, <1>4, <1>5, <1>6, <1>7, <2>1, PollSaysOnce
<1>9. CASE Ambiguous \/ Recovered \/ Mismatch \/ RefuseVial
  <2>1. command.is = "full" /\ IsGrant(command)
    BY <1>9 DEF Ambiguous, Recovered, Mismatch, RefuseVial, Executable, Decides, Typed, HandInv
  <2>2. Plan(command) \in Memory /\ Plan(command).tag = command.tag
    BY <2>1, PlanTyped
  <2>3. command.tag = NextItem
    BY <2>1, GrantOfNext DEF OnceInv, CommandInv
  <2>4. cpc \notin {"looked", "send"}
    BY <1>4, <2>1 DEF SteadyClient, OnceInv, CommandInv
  <2>5. CASE Recovered
    <3>1. Plan(command).before \in Nat /\ Plan(command).after = Plan(command).before + 1
      BY <2>1, PlanTyped DEF Plan
    <3>2. Shows(Plan(command).before)
      BY <1>4, <2>1, <2>3, <2>5, RecoveredShows
    <3>3. QED
      BY <1>1, <1>4, <1>5, <1>6, <2>2, <2>3, <2>4, <2>5, <3>1, <3>2, PollSaysOnce
         DEF Recovered, Ends
  <2>6. CASE Ambiguous \/ Mismatch \/ RefuseVial
    <3>1. \E status \in {"recovery_ambiguous", "quantity_mismatch", "failed"} :
             Report(status, Plan(command))
      BY <2>6 DEF Ambiguous, Mismatch, RefuseVial, Ends
    <3>2. QED
      BY <1>1, <1>4, <1>5, <1>6, <2>2, <3>1, PollSaysOnce
  <2>7. QED
    BY <1>9, <2>5, <2>6
<1>10. QED
  BY <1>3, <1>8, <1>9

LEMMA BootstrapEndsOnce ==
  ASSUME SingleRoom, Typed, OnceInv, BootstrapEnds PROVE OnceInv'
<1>1. UNCHANGED <<cpc, seed, delivered, receipt, Stored, NextItem, NextKind, NextOrder>>
  BY OthersKeepCursor DEF Table, Poll
<1>2. /\ hpc = "poll" /\ hpc' = hpc /\ boot
      /\ UNCHANGED <<command, prior, hooked, ready, cell, saved, given, savedGiven, attaches>>
  BY DEF BootstrapEnds, history, bounds
<1>3. held' \in [Kinds -> Nat]
  BY BootstrapEndsTyped DEF Typed, TypeOK
<1>4. \A k \in Kinds : held'[k] >= held[k]
  <2>1. held \in [Kinds -> Nat]
    BY DEF Typed, TypeOK
  <2>2. held' = held \/ held' = [held EXCEPT !["vial"] = held["vial"] + 1]
    BY DEF BootstrapEnds
  <2>3. QED
    BY <2>1, <2>2
<1>5. \E status \in {"bootstrap_complete", "bootstrap_skipped"}, m \in Memory :
         Report(status, m)
  <2>1. mem \in Memory /\ held \in [Kinds -> Nat]
    BY DEF Typed, TypeOK, RecordsInv
  <2>2. [mem EXCEPT !.tag = BootTag] \in Memory
    BY <2>1 DEF Memory, BootTag
  <2>3. [tag |-> BootTag, before |-> held["vial"], after |-> held["vial"] + 1] \in Memory
    BY <2>1, BridgeAssumption DEF Memory, BootTag, Amount
  <2>4. QED
    BY <2>2, <2>3 DEF BootstrapEnds
<1>6. {"bootstrap_complete", "bootstrap_skipped"} \subseteq Status \ {"empty"}
      /\ {"bootstrap_complete", "bootstrap_skipped"} \cap Done = {}
  BY DEF Status, Done
<1>7. QED
  BY <1>1, <1>2, <1>3, <1>4, <1>5, <1>6, PollSaysOnce

(* A command is only taken in hand when its item is not in the game: if it  *)
(* were, the record of the last restart would say from which count.         *)
LEMMA TakesAbsent ==
  ASSUME SingleRoom, Typed, OnceInv, Direct \/ Queue PROVE ~Present
<1>1. hpc = "poll" /\ command.is = "full" /\ held[command.kind] = Expected(command)
  BY DEF Direct, Queue, Executable, Decides, Polls, OnceInv, StockInv
<1>2. command.tag = NextItem /\ command.kind = NextKind /\ NextKind \in Kinds
      /\ NextOrder \in Order
  BY <1>1, GrantOfNext DEF OnceInv, CommandInv, Typed, HandInv
<1>3. ASSUME Present PROVE FALSE
  <2>1. Tells(prior)
    BY <1>1, <1>3, PollTraced
  <2>2. Expected(command) = prior.before /\ prior.before \in Nat
    BY <1>2, <2>1 DEF Tells, Expected, Witnessed, Matches, NoCount
  <2>3. held[NextKind] >= prior.before + 1
    BY <1>2, <1>3, <2>1 DEF Tells, Shows, Present
  <2>4. QED
    BY <1>1, <1>2, <2>2, <2>3 DEF Typed, TypeOK
<1>4. QED
  BY <1>3

LEMMA TakesOnce ==
  ASSUME SingleRoom, Typed, OnceInv, Direct \/ Queue PROVE OnceInv'
<1>1. UNCHANGED <<cpc, seed, delivered, receipt, Stored, NextItem, NextKind, NextOrder>>
  BY OthersKeepCursor DEF Table, Poll
<1>2. /\ hpc = "poll" /\ command.is = "full" /\ ready /\ ~boot
      /\ held[command.kind] = Expected(command)
      /\ cur' = command /\ hpc' \in {"write", "arm"}
      /\ UNCHANGED <<command, prior, boot, up, hooked, ready, held, saved, given, savedGiven,
                     attaches>>
      /\ Report("executing", Plan(command)) /\ ~cell'.request
  BY PollingIsFree DEF Direct, Queue, Executable, Decides, Polls, OnceInv, StockInv, game,
     history, bounds, Typed
<1>3. IsGrant(command) /\ command = Grant(seed, NextItem)
  BY <1>2 DEF OnceInv, CommandInv, Typed, HandInv
<1>4. command.tag = NextItem /\ command.kind = NextKind /\ NextKind \in Kinds
  BY <1>3, GrantOfNext
<1>5. /\ Plan(command) \in Memory /\ Plan(command).tag = NextItem
      /\ Plan(command).before = held[NextKind] /\ Plan(command).after = held[NextKind] + 1
      /\ held[NextKind] \in Nat
  BY <1>2, <1>3, <1>4, PlanTyped DEF Plan
<1>6. /\ state' = Nowhere /\ out' # Nowhere /\ Latest'.status = "executing"
      /\ Latest'.tag = NextItem /\ Latest'.before = mem'.before /\ Latest'.after = mem'.after
      /\ mem' = Plan(command)
  BY <1>2, <1>5, ReportLatest DEF Status, InFlight
<1>7. ~Present'
  BY <1>1, <1>2, TakesAbsent DEF Present
<1>8. NextOrder \in Order => given[NextOrder] = 0 /\ savedGiven[NextOrder] = 0
  BY TakesAbsent, AbsentIsUnsaved
<1>9. Tells(Latest)'
  <2>1. NextOrder \in Order => given'[NextOrder] = 0 /\ savedGiven'[NextOrder] = 0
    BY <1>2, <1>8
  <2>2. QED
    BY <1>1, <1>5, <1>6, <2>1 DEF Tells, Shows, InFlight
<1>10. /\ cpc \notin {"count", "store"}
       /\ cpc = "ack" => attaches = MaxAttaches /\ Answers(prior)
  BY <1>2 DEF OnceInv, CommandInv
<1>11. Tells(prior)' <=> Tells(prior)
  BY <1>1, <1>2 DEF Tells, Shows
<1>12. CursorInv' /\ CommandInv' /\ AnswerInv'
  BY <1>1, <1>2, <1>6, <1>10, <1>11 DEF OnceInv, CursorInv, CommandInv, AnswerInv, Done, Answers
<1>13. GivenInv' /\ StockInv' /\ FirstInv'
  BY <1>1, <1>2 DEF OnceInv, GivenInv, StockInv, FirstInv
<1>14. hpc' = "arm" => mem'.before = 0
  BY <1>2, <1>4, <1>5, <1>6 DEF Direct, Queue
<1>15. CASE cpc # "ack"
  <2>1. cur'.tag = NextItem' /\ cur' = Grant(seed, NextItem)' /\ command'.is = "full" /\ Refunded'
    BY <1>1, <1>2, <1>3, <1>4 DEF Refunded
  <2>2. /\ Latest'.status \in InFlight /\ Tells(Latest)' /\ ~Present'
        /\ Latest'.before = mem'.before /\ Latest'.after = mem'.after
    BY <1>6, <1>7, <1>9 DEF InFlight
  <2>3. cpc' \notin {"ack", "count", "store"}
    BY <1>1, <1>10, <1>15
  <2>4. TakenNow'
    BY <1>2, <1>14, <2>1, <2>2, <2>3 DEF TakenNow
  <2>5. QED
    BY <1>2, <1>7, <1>12, <1>13, <2>4 DEF OnceInv, TakenInv, PendingInv, TracedInv
<1>16. CASE cpc = "ack"
  <2>1. prior.before = Expected(command) /\ prior.before \in Nat /\ prior.after = prior.before + 1
    BY <1>4, <1>10, <1>16 DEF Answers, Tells, Expected, Witnessed, Matches, NoCount
  <2>2. TakenAgain'
    BY <1>1, <1>2, <1>3, <1>4, <1>5, <1>6, <1>10, <1>11, <1>16, <2>1 DEF TakenAgain, Answers
  <2>3. given'[<<cur'.seed, cur'.tag>>] = 0 /\ cur'.seed = seed'
    BY <1>1, <1>2, <1>3, <1>8, GrantOfNext
  <2>4. hooked'
    BY <1>2 DEF Typed, CellInv
  <2>5. TakenLate'
    BY <1>1, <1>2, <1>4, <1>6, <1>10, <1>14, <1>16, <2>2, <2>3, <2>4 DEF TakenLate, InFlight
  <2>6. QED
    BY <1>2, <1>7, <1>12, <1>13, <2>5 DEF OnceInv, TakenInv, PendingInv, TracedInv
<1>17. QED
  BY <1>15, <1>16

(* The guest write puts the item in, over the count the record names.       *)
LEMMA WriteNowOnce ==
  ASSUME SingleRoom, Typed, OnceInv, Write, TakenNow PROVE OnceInv'
<1>1. UNCHANGED <<cpc, seed, delivered, receipt, Stored, NextItem, NextKind, NextOrder>>
  BY OthersKeepCursor DEF Table, Poll
<1>2. /\ hpc = "write" /\ hpc' = "verify" /\ hooked /\ hpc \in InHand
      /\ held' = [held EXCEPT ![cur.kind] = mem.after]
      /\ given' = [given EXCEPT ![<<cur.seed, cur.tag>>] = given[<<cur.seed, cur.tag>>] + 1]
      /\ UNCHANGED <<command, state, out, mem, prior, cur, boot, hooked, ready, cell, saved,
                     savedGiven, attaches, Latest>>
  BY DEF Write, InHand, bounds, files, Latest
<1>3. /\ cur = Grant(seed, NextItem) /\ ~Present /\ Tells(Latest) /\ Latest.status \in InFlight
      /\ Latest.before = mem.before /\ Latest.after = mem.after /\ Refunded
      /\ command.is = "full" /\ cpc \notin {"ack", "count", "store"}
  BY <1>2 DEF TakenNow
<1>4. /\ cur.kind = NextKind /\ <<cur.seed, cur.tag>> = NextOrder /\ NextOrder \in Order
      /\ NextKind \in Kinds
  BY <1>2, <1>3, GrantOfNext DEF Typed, HandInv
<1>5. /\ held \in [Kinds -> Nat] /\ given \in [Order -> Nat] /\ savedGiven \in [Order -> Nat]
  BY DEF Typed, TypeOK
<1>6. given[NextOrder] = 0 /\ savedGiven[NextOrder] = 0
  BY <1>3, <1>4, AbsentIsUnsaved
<1>7. given' = [given EXCEPT ![NextOrder] = 1] /\ held' = [held EXCEPT ![NextKind] = mem.after]
  <2>1. given[NextOrder] + 1 = 1
    BY <1>6
  <2>2. given' = [given EXCEPT ![NextOrder] = given[NextOrder] + 1]
    BY <1>2, <1>4
  <2>3. QED
    BY <1>2, <1>4, <2>1, <2>2
<1>8. mem.before \in Nat /\ mem.after = mem.before + 1
  BY <1>3 DEF Tells
<1>9. held'[NextKind] = mem.after /\ given'[NextOrder] = 1
  BY <1>4, <1>5, <1>7
<1>10. Present' /\ Tells(Latest)'
  BY <1>1, <1>2, <1>3, <1>4, <1>6, <1>8, <1>9 DEF Present, Tells, Shows
<1>11. GivenInv'
  <2>1. NextItem \in Nat /\ NextOrder[2] = NextItem
    BY NextItemTyped DEF NextOrder
  <2>2. ASSUME NEW o \in Order, o # NextOrder PROVE given'[o] = given[o]
    BY <1>5, <1>7, <2>2
  <2>3. QED
    BY <1>1, <1>2, <1>6, <1>9, <2>1, <2>2 DEF OnceInv, GivenInv
<1>12. StockInv' /\ FirstInv'
  <2>1. held'["vial"] \in {held["vial"], mem.after}
    BY <1>5, <1>7, BridgeAssumption
  <2>2. QED
    BY <1>2, <1>8, <2>1 DEF OnceInv, StockInv, FirstInv
<1>13. CursorInv' /\ CommandInv' /\ AnswerInv'
  BY <1>1, <1>2, <1>3 DEF OnceInv, CursorInv, CommandInv, AnswerInv, Done, InFlight
<1>14. TakenNow'
  BY <1>1, <1>2, <1>3, <1>4, <1>9, <1>10, GrantOfNext DEF TakenNow, Refunded, Typed, HandInv
<1>15. ~cell'.request
  BY <1>2, PollingIsFree DEF Typed
<1>16. QED
  BY <1>2, <1>11, <1>12, <1>13, <1>14, <1>15 DEF OnceInv, TakenInv, PendingInv, TracedInv, InHand

(* An item that is given after it was answered is given once too, and the   *)
(* record of the restart shows it.                                          *)
LEMMA LateGives ==
  ASSUME SingleRoom, Typed, OnceInv, TakenLate, hpc \in InHand,
         given[<<cur.seed, cur.tag>>] = 0, hpc' \in {"verify", "active"}, ~cell'.request,
         given' = [given EXCEPT ![<<cur.seed, cur.tag>>] = given[<<cur.seed, cur.tag>>] + 1],
         NEW n \in Nat, n >= mem.after, held' = [held EXCEPT ![cur.kind] = n],
         UNCHANGED <<cpc, seed, delivered, receipt, Stored, NextItem, NextKind, NextOrder,
                     command, state, out, mem, prior, cur, hooked, saved, savedGiven, attaches,
                     Latest>>
  PROVE  OnceInv'
<1> DEFINE C == <<cur.seed, cur.tag>>
<1>1. /\ attaches = MaxAttaches /\ Latest.status \in InFlight /\ Latest.tag = cur.tag
      /\ TakenAgain \/ TakenPassed
      /\ cur.seed = seed /\ hooked /\ mem.before \in Nat /\ mem.after = mem.before + 1
  BY DEF TakenLate, TakenAgain, TakenPassed, Answers, Tells
<1>2. C \in Order /\ C[2] = cur.tag /\ cur.kind \in Kinds /\ IsGrant(cur)
  BY GrantInOrder DEF Typed, HandInv, IsGrant
<1>3. /\ held \in [Kinds -> Nat] /\ given \in [Order -> Nat] /\ savedGiven \in [Order -> Nat]
  BY DEF Typed, TypeOK
<1>4. NextItem \in Nat /\ cur.tag <= NextItem
  BY <1>1, NextItemTyped DEF TakenAgain, TakenPassed
<1>5. given'[C] = 1 /\ \A o \in Order : o # C => given'[o] = given[o]
  BY <1>2, <1>3
<1>6. held'[cur.kind] = n /\ held'["vial"] \in {held["vial"], n}
  BY <1>2, <1>3, BridgeAssumption
<1>7. savedGiven[C] = 0
  <2>1. savedGiven[C] \in Nat /\ savedGiven[C] <= given[C]
    BY <1>2, <1>3 DEF OnceInv, GivenInv
  <2>2. QED
    BY <2>1
<1>8. GivenInv'
  BY <1>2, <1>4, <1>5, <1>7 DEF OnceInv, GivenInv
<1>9. TakenAgain => Answers(prior)' /\ TakenAgain'
  <2>1. ASSUME TakenAgain PROVE C = NextOrder /\ cur.kind = NextKind
    BY <1>2, <2>1, GrantOfNext DEF TakenAgain
  <2>2. ASSUME TakenAgain PROVE Answers(prior)'
    BY <1>1, <1>6, <1>7, <2>1, <2>2 DEF TakenAgain, Answers, Tells, Shows
  <2>3. QED
    BY <2>2 DEF TakenAgain
<1>10. TakenPassed => ~Present' /\ TakenPassed'
  <2>1. ASSUME TakenPassed PROVE C # NextOrder
    BY <1>4, <2>1 DEF TakenPassed, NextOrder
  <2>2. ASSUME TakenPassed PROVE ~Present'
    BY <1>5, <2>1, <2>2 DEF TakenPassed, Present
  <2>3. QED
    BY <2>2 DEF TakenPassed
<1>11. CursorInv' /\ CommandInv' /\ AnswerInv'
  <2>1. cpc = "ack" => Answers(prior)'
    BY <1>1, <1>9 DEF TakenPassed
  <2>2. Latest'.status \notin Done
    BY <1>1 DEF Done, InFlight
  <2>3. QED
    BY <1>1, <2>1, <2>2 DEF OnceInv, CursorInv, CommandInv, AnswerInv
<1>12. StockInv' /\ FirstInv'
  BY <1>1, <1>6 DEF OnceInv, StockInv, FirstInv, InHand
<1>13. TakenLate'
  BY <1>1, <1>9, <1>10 DEF TakenLate
<1>14. TracedInv'
  BY <1>1, <1>9, <1>10 DEF TracedInv, Answers
<1>15. QED
  BY <1>8, <1>11, <1>12, <1>13, <1>14 DEF OnceInv, TakenInv, PendingInv

LEMMA WriteOnce ==
  ASSUME SingleRoom, Typed, OnceInv, Write PROVE OnceInv'
<1>1. UNCHANGED <<cpc, seed, delivered, receipt, Stored, NextItem, NextKind, NextOrder>>
  BY OthersKeepCursor DEF Table, Poll
<1>2. hpc = "write" /\ hpc \in InHand
  BY DEF Write, InHand
<1>3. CASE TakenLate
  <2>1. /\ UNCHANGED <<command, state, out, mem, prior, cur, hooked, saved, savedGiven, attaches,
                       Latest>>
        /\ hpc' = "verify" /\ held' = [held EXCEPT ![cur.kind] = mem.after]
        /\ given' = [given EXCEPT ![<<cur.seed, cur.tag>>] = given[<<cur.seed, cur.tag>>] + 1]
        /\ ~cell'.request
    BY <1>2, PollingIsFree DEF Write, bounds, files, Latest, Typed
  <2>2. given[<<cur.seed, cur.tag>>] = 0 /\ mem.after \in Nat /\ mem.after >= mem.after
    BY <1>2, <1>3 DEF TakenLate, Typed, HandInv
  <2>3. QED
    BY <1>1, <1>2, <1>3, <2>1, <2>2, LateGives
<1>4. CASE TakenNow
  BY <1>4, WriteNowOnce
<1>5. QED
  BY <1>2, <1>3, <1>4 DEF OnceInv, TakenInv

(* A guest that is gone is not written to, and nothing is in it.            *)
LEMMA WriteFailsOnce ==
  ASSUME SingleRoom, Typed, OnceInv, WriteFails PROVE OnceInv'
<1>1. UNCHANGED <<cpc, seed, delivered, receipt, Stored, NextItem, NextKind, NextOrder>>
  BY OthersKeepCursor DEF Table, Poll
<1>2. /\ hpc = "write" /\ hpc' = "remove" /\ Report("write_error", mem) /\ hpc \in InHand
      /\ ~hooked
      /\ UNCHANGED <<command, prior, hooked, cell, held, saved, given, savedGiven, attaches>>
  BY DEF WriteFails, InHand, game, history, bounds
<1>3. /\ ~Present /\ cpc \notin {"ack", "count", "store"}
  BY <1>2 DEF OnceInv, TakenInv, TakenNow, TakenLate
<1>4. state' = Nowhere /\ Latest'.status = "write_error"
  BY <1>2, ReportLatest DEF Status, Terminal, Typed, RecordsInv
<1>5. CursorInv' /\ CommandInv' /\ AnswerInv' /\ GivenInv' /\ StockInv' /\ FirstInv'
  BY <1>1, <1>2, <1>3, <1>4 DEF OnceInv, CursorInv, CommandInv, AnswerInv, GivenInv, StockInv,
     FirstInv, Done
<1>6. ~cell'.request /\ hpc' \notin InHand
  BY <1>2, PollingIsFree DEF Typed, InHand
<1>7. ~Present'
  BY <1>1, <1>2, <1>3 DEF Present
<1>8. QED
  BY <1>5, <1>6, <1>7 DEF OnceInv, TakenInv, PendingInv, TracedInv

(* What the harness says of an item that was answered already.              *)
LEMMA LateReports ==
  ASSUME SingleRoom, Typed, OnceInv, TakenLate, hpc \in InHand,
         NEW status \in Status \ {"empty"}, Report(status, mem),
         hpc' \in {"active", "remove"}, hpc' = "active" => status \in InFlight,
         cell'.request => hpc = "arm" /\ hpc' = "active",
         UNCHANGED <<cpc, seed, delivered, receipt, Stored, NextItem, NextKind, NextOrder,
                     command, prior, cur, hooked, held, saved, given, savedGiven, attaches>>
  PROVE  OnceInv'
<1>1. /\ attaches = MaxAttaches /\ (TakenAgain \/ TakenPassed)
      /\ cur.seed = seed /\ hooked /\ mem.before \in Nat /\ mem.after = mem.before + 1
  BY DEF TakenLate, TakenAgain, TakenPassed, Answers, Tells
<1>2. mem \in Memory /\ mem.tag = cur.tag
  BY DEF Typed, RecordsInv, HandInv
<1>3. /\ state' = Nowhere /\ Latest'.status = status /\ Latest'.tag = cur.tag
      /\ Latest'.before = mem.before /\ Latest'.after = mem.after /\ mem' = mem
  BY <1>2, ReportLatest
<1>4. NextItem \in Nat
  BY NextItemTyped
<1>5. Present' = Present /\ (Answers(prior) => Answers(prior)')
  BY DEF Present, Answers, Tells, Shows
<1>6. /\ TakenAgain => TakenAgain' /\ cur.tag = NextItem
      /\ TakenPassed => TakenPassed' /\ cur.tag = NextItem - 1
  BY <1>3, <1>5 DEF TakenAgain, TakenPassed
<1>7. TakenAgain /\ status \in Done => Answers(Latest)'
  BY <1>3 DEF TakenAgain, Answers, Tells, Shows
<1>8. CursorInv' /\ CommandInv'
  BY <1>1, <1>5 DEF OnceInv, CursorInv, CommandInv, TakenAgain, TakenPassed
<1>9. AnswerInv'
  BY <1>1, <1>3, <1>4, <1>5, <1>6, <1>7 DEF AnswerInv, TakenAgain
<1>10. GivenInv' /\ StockInv' /\ FirstInv'
  BY <1>1 DEF OnceInv, GivenInv, StockInv, FirstInv, InHand
<1>11. hpc' = "active" => TakenLate'
  BY <1>1, <1>3, <1>6 DEF TakenLate
<1>12. TracedInv'
  BY <1>1, <1>5 DEF TracedInv, TakenAgain, TakenPassed, Answers
<1>13. QED
  BY <1>8, <1>9, <1>10, <1>11, <1>12 DEF OnceInv, TakenInv, PendingInv, InHand

(* "completed", for a write or for the cave.                                *)
LEMMA CompletesOnce ==
  ASSUME SingleRoom, SteadyClient, Typed, OnceInv, TakenNow, hpc \in InHand, hpc' = "remove",
         cpc \in PollAt, Report("completed", mem), ~cell'.request,
         UNCHANGED <<cpc, seed, delivered, receipt, Stored, NextItem, NextKind, NextOrder,
                     command, prior, boot, hooked, ready, held, saved, given, savedGiven,
                     attaches>>
  PROVE  OnceInv'
<1>1. /\ Tells(Latest) /\ Latest.tag = NextItem /\ Latest.before = mem.before
      /\ Latest.after = mem.after /\ Refunded
      /\ command.is = "full" /\ cpc \notin {"ack", "count", "store", "send", "looked"}
  BY DEF OnceInv, TakenNow, CommandInv, SteadyClient, Tells
<1>2. mem \in Memory /\ mem.tag = NextItem
  BY DEF TakenNow, Typed, HandInv, RecordsInv
<1>3. /\ state' = Nowhere /\ Latest'.status = "completed" /\ Latest'.tag = NextItem
      /\ Latest'.before = Latest.before /\ Latest'.after = Latest.after
  BY <1>1, <1>2, ReportLatest DEF Status, Done
<1>4. Answers(Latest)'
  BY <1>1, <1>3 DEF Answers, Tells, Shows, Done
<1>5. CursorInv' /\ CommandInv' /\ AnswerInv' /\ GivenInv' /\ StockInv' /\ FirstInv'
  BY <1>1, <1>3, <1>4, NextItemTyped DEF OnceInv, CursorInv, CommandInv, AnswerInv, GivenInv,
     StockInv, FirstInv, InHand
<1>6. TracedInv' /\ TakenInv' /\ PendingInv'
  BY <1>1, <1>4 DEF TracedInv, TakenInv, PendingInv, InHand, Refunded
<1>7. QED
  BY <1>5, <1>6 DEF OnceInv

LEMMA VerifiesOnce ==
  ASSUME SingleRoom, SteadyClient, Typed, OnceInv, Verify \/ VerifyNative PROVE OnceInv'
<1>1. UNCHANGED <<cpc, seed, delivered, receipt, Stored, NextItem, NextKind, NextOrder>>
  BY OthersKeepCursor DEF Table, Poll
<1>2. /\ hpc \in InHand /\ cpc \in PollAt /\ ~cell'.request
      /\ UNCHANGED <<command, prior, cur, boot, hooked, ready, cell, held, saved, given,
                     savedGiven, attaches>>
  BY PollingIsFree DEF Verify, VerifyNative, InHand, Turn, game, history, bounds, Typed, CellInv
<1>3. CASE TakenLate
  <2>1. {"completed", "failed", "verify_pending"} \subseteq Status \ {"empty"}
        /\ "verify_pending" \in InFlight
    BY DEF Status, Done, Terminal, InFlight
  <2>2. \E status \in {"completed", "failed", "verify_pending"} :
           /\ Report(status, mem)
           /\ hpc' \in {"active", "remove"} /\ (hpc' = "active" => status = "verify_pending")
    BY DEF Verify, VerifyNative
  <2>3. QED
    BY <1>1, <1>2, <1>3, <2>1, <2>2, LateReports
<1>4. CASE TakenNow
  <2>1. cur.kind = NextKind /\ NextKind \in Kinds
    BY <1>2, <1>4, GrantOfNext DEF TakenNow, Typed, HandInv
  <2>2. Tells(Latest) /\ Latest.before = mem.before /\ Latest.after = mem.after
    BY <1>4 DEF TakenNow
  <2>3. CASE Verify
    <3>1. hooked /\ held[cur.kind] = mem.after
      BY <1>4, <2>1, <2>3 DEF Verify, TakenNow
    <3>2. Report("completed", mem) /\ hpc' = "remove"
      BY <2>3, <3>1 DEF Verify
    <3>3. QED
      BY <1>1, <1>2, <1>4, <3>2, CompletesOnce
  <2>4. CASE VerifyNative
    <3>1. Present
      BY <1>4, <2>4 DEF VerifyNative, TakenNow
    <3>2. Arrived
      BY <2>1, <2>2, <3>1 DEF Arrived, Tells, Shows, Present, Typed, TypeOK
    <3>3. Report("completed", mem) /\ hpc' = "remove"
      BY <2>4, <3>2 DEF VerifyNative
    <3>4. QED
      BY <1>1, <1>2, <1>4, <3>3, CompletesOnce
  <2>5. QED
    BY <2>3, <2>4
<1>5. QED
  BY <1>2, <1>3, <1>4 DEF OnceInv, TakenInv

(* The request goes to a cell that answers nothing yet.                     *)
LEMMA ArmNowOnce ==
  ASSUME SingleRoom, Typed, OnceInv, Arm, TakenNow PROVE OnceInv'
<1>1. UNCHANGED <<cpc, seed, delivered, receipt, Stored, NextItem, NextKind, NextOrder>>
  BY OthersKeepCursor DEF Table, Poll
<1>2. /\ hpc = "arm" /\ hpc' = "active" /\ Report("queued", mem)
      /\ UNCHANGED <<command, prior, cur, boot, hooked, ready, held, saved, given, savedGiven,
                     attaches>>
  BY DEF Arm, history, bounds
<1>3. /\ cur = Grant(seed, NextItem) /\ ~Present /\ mem.before = 0
      /\ Tells(Latest) /\ Latest.before = mem.before /\ Latest.after = mem.after /\ Refunded
      /\ command.is = "full" /\ cpc \notin {"ack", "count", "store"}
  BY <1>2 DEF TakenNow
<1>4. mem \in Memory /\ mem.tag = NextItem
  <2>1. IsGrant(cur) /\ mem.tag = cur.tag /\ mem \in Memory
    BY <1>2 DEF Typed, HandInv, InHand, RecordsInv
  <2>2. QED
    BY <1>3, <2>1, GrantOfNext
<1>5. /\ state' = Nowhere /\ Latest'.status = "queued" /\ Latest'.tag = NextItem
      /\ Latest'.before = mem.before /\ Latest'.after = mem.after /\ mem' = mem
  BY <1>2, <1>4, ReportLatest DEF Status, InFlight
<1>6. Tells(Latest)' /\ Latest'.status \in InFlight
  BY <1>1, <1>2, <1>3, <1>5 DEF Tells, Shows, InFlight
<1>7. ~Present'
  BY <1>1, <1>2, <1>3 DEF Present
<1>8. ~cell'.done /\ (cell'.request => cell'.cmd = cur)
  <2>1. CASE hooked
    <3>1. cell' = [request |-> TRUE, done |-> cell.done, cmd |-> cell.cmd]
      BY <2>1 DEF Arm, Typed, CellInv
    <3>2. QED
      BY <1>2, <2>1, <3>1 DEF Typed, CellInv
  <2>2. CASE ~hooked
    BY <1>2, <2>2 DEF Arm, Typed, CellInv
  <2>3. QED
    BY <2>1, <2>2
<1>9. CursorInv' /\ CommandInv' /\ AnswerInv' /\ GivenInv' /\ StockInv' /\ FirstInv'
  BY <1>1, <1>2, <1>3, <1>5 DEF OnceInv, CursorInv, CommandInv, AnswerInv, GivenInv, StockInv,
     FirstInv, Done
<1>10. TakenNow'
  BY <1>1, <1>2, <1>3, <1>5, <1>6, <1>7, <1>8 DEF TakenNow, Refunded
<1>11. PendingNow' \/ ~cell'.request
  BY <1>1, <1>3, <1>5, <1>6, <1>7, <1>8, GrantOfNext, <1>2 DEF PendingNow, TakenNow
<1>12. QED
  BY <1>7, <1>9, <1>10, <1>11 DEF OnceInv, TakenInv, PendingInv, TracedInv

LEMMA ArmOnce ==
  ASSUME SingleRoom, Typed, OnceInv, Arm PROVE OnceInv'
<1>1. UNCHANGED <<cpc, seed, delivered, receipt, Stored, NextItem, NextKind, NextOrder>>
  BY OthersKeepCursor DEF Table, Poll
<1>2. /\ hpc = "arm" /\ hpc' = "active" /\ Report("queued", mem) /\ hpc \in InHand
      /\ UNCHANGED <<command, prior, cur, hooked, held, saved, given, savedGiven, attaches>>
  BY DEF Arm, history, bounds, InHand
<1>3. "queued" \in Status \ {"empty"} /\ "queued" \in InFlight
  BY DEF Status, InFlight
<1>4. CASE TakenLate
  BY <1>1, <1>2, <1>3, <1>4, LateReports
<1>5. CASE TakenNow
  BY <1>5, ArmNowOnce
<1>6. QED
  BY <1>2, <1>4, <1>5 DEF OnceInv, TakenInv

LEMMA RemoveOnce ==
  ASSUME SingleRoom, Typed, OnceInv, Remove PROVE OnceInv'
<1>1. UNCHANGED <<cpc, seed, delivered, receipt, Stored, NextItem, NextKind, NextOrder>>
  BY OthersKeepCursor DEF Table, Poll
<1>2. /\ hpc = "remove" /\ hpc' = "poll"
      /\ UNCHANGED <<state, out, prior, mem, boot, hooked, ready, cell, held, saved, given,
                     savedGiven, attaches, Latest>>
      /\ cpc = "send" => command' = command
      /\ cpc # "send" => command'.is = "none"
  BY NoCommandNames DEF Remove, game, history, bounds, Latest
<1>3. /\ Present' = Present /\ (Tells(Latest) => Tells(Latest)')
      /\ (Answers(Latest) => Answers(Latest)')
      /\ (Tells(prior) => Tells(prior)') /\ (Answers(prior) => Answers(prior)')
  BY <1>1, <1>2 DEF Present, Answers, Tells, Shows
<1>4. CursorInv' /\ GivenInv' /\ StockInv' /\ FirstInv'
  BY <1>1, <1>2 DEF OnceInv, CursorInv, GivenInv, StockInv, FirstInv
<1>5. CommandInv' /\ AnswerInv'
  <2>1. CASE cpc # "send"
    BY <1>1, <1>2, <1>3, <2>1 DEF OnceInv, CommandInv, AnswerInv
  <2>2. CASE cpc = "send"
    BY <1>1, <1>2, <1>3, <2>2 DEF OnceInv, CommandInv, AnswerInv
  <2>3. QED
    BY <2>1, <2>2
<1>6. TakenInv' /\ PendingInv'
  BY <1>2, PollingIsFree DEF TakenInv, PendingInv, InHand, Typed
<1>7. TracedInv'
  BY <1>2, <1>3 DEF OnceInv, TracedInv, InHand, Refunded
<1>8. QED
  BY <1>4, <1>5, <1>6, <1>7 DEF OnceInv

LEMMA FlushOnce ==
  ASSUME SingleRoom, Typed, OnceInv, Flush PROVE OnceInv'
<1>1. UNCHANGED <<cpc, seed, delivered, receipt, Stored, NextItem, NextKind, NextOrder>>
  BY OthersKeepCursor DEF Table
<1>2. /\ out' = Nowhere /\ Latest' = Latest
      /\ UNCHANGED <<command, hpc, cur, prior, mem, boot, hooked, ready, cell, held, saved,
                     given, savedGiven, attaches>>
  BY DEF Flush, Latest, game, history, bounds
<1>3. /\ Present' = Present /\ (Tells(Latest) => Tells(Latest)')
      /\ (Answers(Latest) => Answers(Latest)')
      /\ (Tells(prior) => Tells(prior)') /\ (Answers(prior) => Answers(prior)')
  BY <1>1, <1>2 DEF Present, Answers, Tells, Shows
<1>4. CursorInv' /\ CommandInv' /\ AnswerInv' /\ GivenInv' /\ StockInv' /\ FirstInv'
  BY <1>1, <1>2, <1>3 DEF OnceInv, CursorInv, CommandInv, AnswerInv, GivenInv, StockInv, FirstInv
<1>5. /\ TakenNow => TakenNow'
      /\ TakenLate => TakenLate'
      /\ PendingNow => PendingNow'
  BY <1>1, <1>2, <1>3 DEF TakenNow, TakenLate, TakenAgain, TakenPassed, PendingNow, Refunded
<1>6. TakenInv' /\ PendingInv' /\ TracedInv'
  BY <1>1, <1>2, <1>3, <1>5 DEF OnceInv, TakenInv, PendingInv, TracedInv, Refunded
<1>7. QED
  BY <1>4, <1>6 DEF OnceInv

(* The one restart reads the record that tells of whatever is present.      *)
LEMMA AttachOnce ==
  ASSUME OneRestart, SingleRoom, Typed, OnceInv, Attach PROVE OnceInv'
<1>1. UNCHANGED <<cpc, seed, delivered, receipt, Stored, NextItem, NextKind, NextOrder>>
  BY OthersKeepCursor DEF Table
<1>2. /\ ~hooked /\ out = Nowhere /\ hpc \in {"off", "poll", "active"} /\ attaches < MaxAttaches
      /\ hpc' = "poll" /\ prior' = state /\ attaches' = attaches + 1 /\ ~cell'.request
      /\ UNCHANGED <<command, held, saved, given, savedGiven>>
      /\ state' = Nowhere /\ out'.status \in {"recovery_pending", "awaiting_inventory"}
  BY DEF Attach, Report, IdleCell, history
<1>3. /\ out' # Nowhere /\ Latest' = out' /\ Latest'.status \notin Done /\ Latest = state
  BY <1>2 DEF Latest, Nowhere, Done
<1>4. /\ attaches \in Nat /\ MaxAttaches \in Nat /\ attaches' >= 1 /\ attaches' <= MaxAttaches
      /\ attaches # 0 => attaches' = MaxAttaches
  BY <1>2, BridgeAssumption DEF OneRestart, OnceInv, FirstInv
<1>5. (Tells(Latest) => Tells(prior)') /\ (Answers(Latest) => Answers(prior)')
  BY <1>1, <1>2, <1>3 DEF Answers, Tells, Shows
<1>6. CommandInv'
  <2>1. Answers(Latest) => attaches' = MaxAttaches
    BY <1>4 DEF Answers, OnceInv, FirstInv
  <2>2. QED
    BY <1>1, <1>2, <1>4, <1>5, <2>1 DEF OnceInv, CommandInv
<1>7. CursorInv' /\ AnswerInv' /\ GivenInv' /\ StockInv' /\ FirstInv'
  BY <1>1, <1>2, <1>3, <1>4 DEF OnceInv, CursorInv, AnswerInv, GivenInv, StockInv, FirstInv
<1>8. TakenInv' /\ PendingInv'
  BY <1>2 DEF TakenInv, PendingInv, InHand
<1>9. ASSUME Present' PROVE attaches' = MaxAttaches /\ Tells(prior)'
  <2>1. Present
    BY <1>1, <1>2, <1>9 DEF Present
  <2>2. attaches # 0
    <3>1. given[NextOrder] \in Nat /\ NextOrder \in Order /\ given[NextOrder] >= 1
      BY <2>1 DEF Present, Typed, TypeOK
    <3>2. QED
      BY <3>1 DEF OnceInv, FirstInv
  <2>3. Tells(Latest)
    BY <1>2, <1>4, <2>1 DEF OnceInv, TracedInv, TakenNow, Answers
  <2>4. QED
    BY <1>4, <1>5, <2>2, <2>3
<1>10. QED
  BY <1>6, <1>7, <1>8, <1>9 DEF OnceInv, TracedInv

LEMMA AttachFailsOnce ==
  ASSUME OneRestart, SingleRoom, Typed, OnceInv, AttachFails PROVE OnceInv'
<1>1. UNCHANGED <<cpc, seed, delivered, receipt, Stored, NextItem, NextKind, NextOrder>>
  BY OthersKeepCursor DEF Table
<1>2. /\ ~hooked /\ hpc = "off" /\ hpc' = "failed" /\ attaches < MaxAttaches
      /\ attaches' = attaches + 1
      /\ UNCHANGED <<command, prior, hooked, cell, held, saved, given, savedGiven>>
      /\ state' = Nowhere /\ out'.status = "setup_error"
  BY DEF AttachFails, Report, game, history
<1>3. /\ out' # Nowhere /\ Latest' = out' /\ Latest'.status \notin Done
  BY <1>2 DEF Latest, Nowhere, Done
<1>4. /\ attaches \in Nat /\ MaxAttaches \in Nat /\ attaches' >= 1 /\ attaches' <= MaxAttaches
      /\ attaches # 0 => attaches' = MaxAttaches
  BY <1>2, BridgeAssumption DEF OneRestart, OnceInv, FirstInv
<1>5. CommandInv'
  <2>1. Answers(Latest) => attaches' = MaxAttaches
    BY <1>4 DEF Answers, OnceInv, FirstInv
  <2>2. QED
    BY <1>1, <1>2, <1>4, <2>1 DEF OnceInv, CommandInv
<1>6. CursorInv' /\ AnswerInv' /\ GivenInv' /\ StockInv' /\ FirstInv'
  BY <1>1, <1>2, <1>3, <1>4 DEF OnceInv, CursorInv, AnswerInv, GivenInv, StockInv, FirstInv
<1>7. TakenInv' /\ PendingInv'
  BY <1>2 DEF TakenInv, PendingInv, InHand, Typed, CellInv
<1>8. ASSUME Present' PROVE attaches' = MaxAttaches
  <2>1. given[NextOrder] \in Nat /\ NextOrder \in Order /\ given[NextOrder] >= 1
    BY <1>1, <1>2, <1>8 DEF Present, Typed, TypeOK
  <2>2. attaches # 0
    BY <2>1 DEF OnceInv, FirstInv
  <2>3. QED
    BY <1>4, <2>2
<1>9. QED
  BY <1>2, <1>5, <1>6, <1>7, <1>8 DEF OnceInv, TracedInv

(* A harness that dies leaves a whole record of what it had in hand.        *)
LEMMA CheatEngineDiesOnce ==
  ASSUME OneRestart, SingleRoom, Typed, OnceInv, CheatEngineDies PROVE OnceInv'
<1>1. UNCHANGED <<cpc, seed, delivered, receipt, Stored, NextItem, NextKind, NextOrder>>
  BY OthersKeepCursor
<1>2. /\ hpc \notin {"verify", "off"} /\ hpc' = "off" /\ out = Nowhere /\ out' = Nowhere
      /\ attaches < MaxAttaches
      /\ UNCHANGED <<command, state, hooked, cell, held, saved, given, savedGiven, attaches,
                     Latest>>
  BY DEF CheatEngineDies, OneRestart, NoLocals, Latest, files, game, history, bounds
<1>3. attaches # MaxAttaches
  BY <1>2, BridgeAssumption DEF OnceInv, FirstInv
<1>4. /\ Present' = Present /\ (Tells(Latest) => Tells(Latest)')
      /\ (Answers(Latest) => Answers(Latest)')
  BY <1>1, <1>2 DEF Present, Answers, Tells, Shows
<1>5. CursorInv' /\ CommandInv' /\ AnswerInv' /\ GivenInv' /\ StockInv' /\ FirstInv'
  BY <1>1, <1>2, <1>3, <1>4 DEF OnceInv, CursorInv, CommandInv, AnswerInv, GivenInv, StockInv,
     FirstInv
<1>6. TakenInv' /\ PendingInv'
  BY <1>1, <1>2, <1>3, <1>4 DEF OnceInv, TakenInv, TakenLate, PendingInv, PendingNow, InHand
<1>7. TracedInv'
  BY <1>2, <1>3, <1>4 DEF OnceInv, TracedInv, TakenNow, Answers
<1>8. QED
  BY <1>5, <1>6, <1>7 DEF OnceInv

-----------------------------------------------------------------------------
(* The game leaves the programs and their files alone.                      *)
LEMMA GameKeeps ==
  ASSUME Game \/ Gain \/ Use \/ Save \/ GameEnds
  PROVE  /\ UNCHANGED <<cpc, seed, delivered, command, state, receipt, hpc, prior, mem, out, boot,
                        cur, attaches>>
         /\ UNCHANGED <<Stored, NextItem, NextKind, NextOrder, Latest>>
<1>1. UNCHANGED <<cpc, seed, delivered, command, state, receipt, hpc, prior, mem, out, boot,
                  cur, attaches>>
  BY DEF Game, Launch, Ready, CaveRuns, Gain, Use, Move, Save, GameEnds, client, files, harness,
     bounds
<1>2. UNCHANGED <<Stored, NextItem, NextKind, NextOrder, Latest>>
  BY <1>1, OthersKeepCursor DEF Latest
<1>3. QED
  BY <1>1, <1>2

(* What speaks only of them is kept, and what the records answer.           *)
LEMMA GameKeepsFiles ==
  ASSUME OnceInv, Game \/ Gain \/ Use \/ Save \/ GameEnds,
         Tells(Latest) => Tells(Latest)', Tells(prior) => Tells(prior)'
  PROVE  CursorInv' /\ CommandInv' /\ AnswerInv'
<1>1. Answers(Latest) => Answers(Latest)'
  BY GameKeeps DEF Answers
<1>2. Answers(prior) => Answers(prior)'
  BY GameKeeps DEF Answers
<1>3. QED
  BY <1>1, <1>2, GameKeeps DEF OnceInv, CursorInv, CommandInv, AnswerInv

(* The game ends, or comes back, with what was saved: the item is present   *)
(* in it only where it was, and then the saved count shows it.              *)
LEMMA RevertsOnce ==
  ASSUME OneRestart, SingleRoom, Typed, OnceInv, Launch \/ GameEnds PROVE OnceInv'
<1>1. /\ UNCHANGED <<cpc, seed, delivered, command, state, receipt, hpc, prior, mem, out, boot,
                     cur, attaches>>
      /\ UNCHANGED <<Stored, NextItem, NextKind, NextOrder, Latest>>
  BY GameKeeps DEF Game
<1>2. /\ held' = saved /\ given' = savedGiven /\ ~hooked' /\ UNCHANGED <<saved, savedGiven>>
      /\ ~cell'.request /\ hpc # "verify"
  <2>1. CASE Launch
    <3>1. ~hooked
      BY <2>1 DEF Launch, Typed, CellInv
    <3>2. hpc # "verify"
      BY <3>1 DEF OnceInv, TakenInv, TakenNow, TakenLate, InHand
    <3>3. QED
      BY <2>1, <3>1, <3>2 DEF Launch, Typed, CellInv
  <2>2. CASE GameEnds
    BY <2>2 DEF GameEnds, IdleCell, OneRestart
  <2>3. QED
    BY <2>1, <2>2
<1>3. given \in [Order -> Nat] /\ savedGiven \in [Order -> Nat]
  BY DEF Typed, TypeOK
<1>4. \A o \in Order : savedGiven[o] \in Nat /\ given[o] \in Nat /\ savedGiven[o] <= given[o]
  BY <1>3 DEF OnceInv, GivenInv
<1>5. NextItem \in Nat /\ \A o \in Order : o[2] \in Nat
  BY NextItemTyped
<1>6. GivenInv'
  <2>1. ASSUME NEW o \in Order
        PROVE  savedGiven[o] <= 1 /\ (savedGiven[o] >= 1 => o[2] <= NextItem)
    BY <1>4, <2>1 DEF OnceInv, GivenInv
  <2>2. QED
    BY <1>1, <1>2, <1>4, <2>1 DEF GivenInv
<1>7. StockInv' /\ FirstInv'
  <2>1. attaches = 0 => \A o \in Order : savedGiven[o] = 0
    BY <1>4 DEF OnceInv, FirstInv
  <2>2. QED
    BY <1>1, <1>2, <2>1 DEF OnceInv, StockInv, FirstInv
<1>8. Present' => Present
  BY <1>1, <1>2, <1>4 DEF Present
<1>9. (Tells(Latest) => Tells(Latest)') /\ (Tells(prior) => Tells(prior)')
  BY <1>1, <1>2 DEF Tells, Shows
<1>10. ~TakenLate
  BY BridgeAssumption DEF Launch, GameEnds, TakenLate, Typed, CellInv, OnceInv, FirstInv
<1>11. TakenNow => TakenNow'
  BY <1>1, <1>2, <1>8, <1>9 DEF TakenNow, Refunded
<1>12. TakenInv' /\ PendingInv'
  BY <1>1, <1>2, <1>10, <1>11 DEF OnceInv, TakenInv, PendingInv
<1>13. TracedInv'
  BY <1>1, <1>2, <1>8, <1>9, <1>11 DEF OnceInv, TracedInv, Refunded, Answers
<1>14. QED
  BY <1>6, <1>7, <1>9, <1>12, <1>13, GameKeepsFiles DEF Game, OnceInv

(* A stack that only grows, and a save of it, show what they showed.        *)
LEMMA PlaysOnce ==
  ASSUME SteadyCounts, SingleRoom, Typed, OnceInv, Ready \/ Gain \/ Use \/ Save PROVE OnceInv'
<1>1. /\ UNCHANGED <<cpc, seed, delivered, command, state, receipt, hpc, prior, mem, out, boot,
                     cur, attaches>>
      /\ UNCHANGED <<Stored, NextItem, NextKind, NextOrder, Latest>>
  BY GameKeeps DEF Game
<1>2. ~Use
  BY DEF Use, SteadyCounts
<1>3. /\ UNCHANGED <<hooked, cell, given>> /\ (ready => ready')
  BY <1>2 DEF Ready, Gain, Move, Save, history
<1>4. held \in [Kinds -> Nat] /\ saved \in [Kinds -> Nat] /\ "vial" \in Kinds
      /\ given \in [Order -> Nat] /\ savedGiven \in [Order -> Nat]
  BY BridgeAssumption DEF Typed, TypeOK
<1>5. \A k \in Kinds : held[k] \in Nat /\ held'[k] \in Nat /\ held'[k] >= held[k]
  <2>1. CASE Gain
    <3>1. PICK k \in Gainable : held' = [held EXCEPT ![k] = held[k] + 1]
      BY <2>1 DEF Gain, Move
    <3>2. QED
      BY <1>4, <3>1
  <2>2. CASE Ready \/ Save
    BY <1>4, <2>2 DEF Ready, Save
  <2>3. QED
    BY <1>2, <2>1, <2>2
<1>6. \/ UNCHANGED <<saved, savedGiven>>
      \/ saved' = held /\ savedGiven' = given /\ held' = held
  BY <1>2 DEF Ready, Gain, Move, Save, history
<1>7. hpc = "verify" => held' = held
  BY <1>2 DEF Ready, Gain, Move, Save, SteadyCounts
<1>8. GivenInv'
  BY <1>1, <1>3, <1>4, <1>6 DEF OnceInv, GivenInv
<1>9. StockInv'
  BY <1>1, <1>4, <1>5, <1>6 DEF OnceInv, StockInv
<1>10. FirstInv'
  BY <1>1, <1>3 DEF OnceInv, FirstInv
<1>11. Present' = Present
  BY <1>1, <1>3 DEF Present
<1>12. ASSUME NEW b \in Nat, NextOrder \in Order,
              given[NextOrder] >= 1 => held[NextKind] >= b + 1,
              savedGiven[NextOrder] >= 1 => saved[NextKind] >= b + 1
       PROVE  /\ given'[NextOrder] >= 1 => held'[NextKind] >= b + 1
              /\ savedGiven'[NextOrder] >= 1 => saved'[NextKind] >= b + 1
  <2>1. NextKind \in Kinds
    BY <1>12, NextItemTyped
  <2>2. held[NextKind] \in Nat /\ held'[NextKind] \in Nat /\ held'[NextKind] >= held[NextKind]
    BY <1>5, <2>1
  <2>3. QED
    BY <1>3, <1>6, <1>12, <2>2
<1>13. (Tells(Latest) => Tells(Latest)') /\ (Tells(prior) => Tells(prior)')
  BY <1>1, <1>12 DEF Tells, Shows
<1>14. Refunded => Refunded'
  BY <1>1, <1>3 DEF Refunded
<1>15. TakenNow => TakenNow'
  BY <1>1, <1>3, <1>7, <1>11, <1>13, <1>14 DEF TakenNow
<1>16. TakenLate => TakenLate'
  BY <1>1, <1>3, <1>11, <1>13 DEF TakenLate, TakenAgain, TakenPassed, Answers
<1>17. PendingNow => PendingNow'
  BY <1>1, <1>3, <1>11, <1>13 DEF PendingNow
<1>18. TakenInv' /\ PendingInv'
  BY <1>1, <1>3, <1>15, <1>16, <1>17 DEF OnceInv, TakenInv, PendingInv
<1>19. TracedInv'
  BY <1>1, <1>11, <1>13, <1>14, <1>15 DEF OnceInv, TracedInv, Answers
<1>20. QED
  BY <1>8, <1>9, <1>10, <1>13, <1>18, <1>19, GameKeepsFiles DEF Game, OnceInv

(* The cave inserts what it was asked for, which is not there yet.          *)
LEMMA CaveNowOnce ==
  ASSUME SingleRoom, Typed, OnceInv, CaveRuns, PendingNow, hpc = "active" => TakenNow
  PROVE  OnceInv'
<1>1. /\ UNCHANGED <<cpc, seed, delivered, command, state, receipt, hpc, prior, mem, out, boot,
                     cur, attaches>>
      /\ UNCHANGED <<Stored, NextItem, NextKind, NextOrder, Latest>>
  BY GameKeeps DEF Game
<1>2. /\ cell.request /\ ready /\ hooked /\ hpc \in {"active", "off"} /\ IsGrant(cell.cmd)
      /\ ~cell'.request /\ UNCHANGED <<hooked, ready, saved, savedGiven>>
      /\ held' = [held EXCEPT ![cell.cmd.kind] = held[cell.cmd.kind] + 1]
      /\ given' = [given EXCEPT ![<<cell.cmd.seed, cell.cmd.tag>>] =
                     given[<<cell.cmd.seed, cell.cmd.tag>>] + 1]
  BY DEF CaveRuns, Typed, CellInv
<1>3. /\ cell.cmd = Grant(seed, NextItem) /\ ~Present /\ Latest.status \in InFlight
      /\ Tells(Latest) /\ Latest.before = 0 /\ cpc # "ack"
  BY DEF PendingNow
<1>4. /\ cell.cmd.kind = NextKind /\ <<cell.cmd.seed, cell.cmd.tag>> = NextOrder
      /\ NextOrder \in Order /\ NextKind \in Kinds
  BY <1>2, <1>3, GrantOfNext
<1>5. /\ held \in [Kinds -> Nat] /\ given \in [Order -> Nat] /\ savedGiven \in [Order -> Nat]
  BY DEF Typed, TypeOK
<1>6. given[NextOrder] = 0 /\ savedGiven[NextOrder] = 0
  <2>1. given[NextOrder] \in Nat /\ savedGiven[NextOrder] \in Nat
    BY <1>4, <1>5
  <2>2. savedGiven[NextOrder] <= given[NextOrder]
    BY <1>4 DEF OnceInv, GivenInv
  <2>3. ~(given[NextOrder] >= 1)
    BY <1>3, <1>4 DEF Present
  <2>4. QED
    BY <2>1, <2>2, <2>3
<1>7. /\ held' = [held EXCEPT ![NextKind] = held[NextKind] + 1]
      /\ given' = [given EXCEPT ![NextOrder] = given[NextOrder] + 1]
  BY <1>2, <1>4
<1>8. /\ held[NextKind] \in Nat /\ held'[NextKind] = held[NextKind] + 1
      /\ given'[NextOrder] = 1
  BY <1>4, <1>5, <1>6, <1>7
<1>9. Present' /\ Tells(Latest)'
  BY <1>1, <1>2, <1>3, <1>4, <1>6, <1>8 DEF Present, Tells, Shows
<1>10. GivenInv'
  <2>1. NextItem \in Nat /\ NextOrder[2] = NextItem
    BY NextItemTyped DEF NextOrder
  <2>2. ASSUME NEW o \in Order, o # NextOrder PROVE given'[o] = given[o]
    BY <1>5, <1>7, <2>2
  <2>3. QED
    BY <1>1, <1>2, <1>6, <1>8, <2>1, <2>2 DEF OnceInv, GivenInv
<1>11. StockInv' /\ FirstInv'
  <2>1. held'["vial"] \in {held["vial"], held["vial"] + 1} /\ held["vial"] \in Nat
    BY <1>5, <1>7, BridgeAssumption
  <2>2. QED
    BY <1>1, <1>2, <2>1 DEF OnceInv, StockInv, FirstInv
<1>12. CursorInv' /\ CommandInv' /\ AnswerInv'
  <2>1. Latest.status \notin Done
    BY <1>3 DEF InFlight, Done
  <2>2. QED
    BY <1>1, <1>3, <2>1 DEF OnceInv, CursorInv, CommandInv, AnswerInv
<1>13. TakenNow => TakenNow'
  BY <1>1, <1>2, <1>9 DEF TakenNow, Refunded
<1>14. TakenInv' /\ PendingInv' /\ TracedInv'
  BY <1>1, <1>2, <1>9, <1>13 DEF TakenInv, PendingInv, TracedInv, InHand
<1>15. QED
  BY <1>10, <1>11, <1>12, <1>14 DEF OnceInv

LEMMA CaveOnce ==
  ASSUME SingleRoom, Typed, OnceInv, CaveRuns PROVE OnceInv'
<1>1. cell.request /\ hooked /\ hpc \in {"active", "off"}
  BY DEF CaveRuns, Typed, CellInv
<1>2. CASE hpc = "active" /\ TakenLate
  <2>1. /\ UNCHANGED <<cpc, seed, delivered, receipt, Stored, NextItem, NextKind, NextOrder>>
        /\ UNCHANGED <<command, state, out, mem, prior, cur, attaches, Latest, hpc>>
    BY GameKeeps DEF Game
  <2>2. cell.cmd = cur /\ hpc \in InHand /\ IsGrant(cur)
    BY <1>1, <1>2 DEF Typed, CellInv, HandInv, InHand
  <2>3. /\ ~cell'.request /\ UNCHANGED <<hooked, saved, savedGiven>>
        /\ held' = [held EXCEPT ![cur.kind] = held[cur.kind] + 1]
        /\ given' = [given EXCEPT ![<<cur.seed, cur.tag>>] = given[<<cur.seed, cur.tag>>] + 1]
    BY <2>2 DEF CaveRuns, Typed, CellInv
  <2>4. /\ given[<<cur.seed, cur.tag>>] = 0 /\ mem.before = 0 /\ mem.after = mem.before + 1
    BY <1>1, <1>2 DEF TakenLate, TakenAgain, TakenPassed, Answers, Tells
  <2>5. cur.kind \in Kinds /\ held[cur.kind] \in Nat
    BY <2>2, GrantInOrder DEF Typed, TypeOK, IsGrant
  <2>6. held[cur.kind] + 1 \in Nat /\ held[cur.kind] + 1 >= mem.after
    BY <2>4, <2>5
  <2>7. QED
    BY <1>2, <2>1, <2>2, <2>3, <2>4, <2>6, LateGives
<1>3. CASE ~(hpc = "active" /\ TakenLate)
  <2>1. PendingNow
    BY <1>1, <1>3 DEF OnceInv, PendingInv
  <2>2. hpc = "active" => TakenNow
    BY <1>3 DEF OnceInv, TakenInv, InHand
  <2>3. QED
    BY <2>1, <2>2, CaveNowOnce
<1>4. QED
  BY <1>2, <1>3

-----------------------------------------------------------------------------
LEMMA OnceStep ==
  ASSUME SingleRoom, OneRestart, SteadyCounts, SteadyClient, Typed, OnceInv, [Next]_vars
  PROVE  OnceInv'
<1>1. CASE UNCHANGED vars
  <2>1. UNCHANGED <<cpc, seed, delivered, command, state, receipt, hpc, prior, mem, out, boot,
                    cur, hooked, ready, cell, held, saved, given, savedGiven, attaches>>
    BY <1>1 DEF vars, client, files, harness, game, history, bounds
  <2>2. UNCHANGED <<Stored, NextItem, NextKind, NextOrder, Latest>>
    BY <2>1 DEF Stored, NextItem, NextKind, NextOrder, Cursor, Latest
  <2>3. UNCHANGED <<Present, Tells(Latest), Tells(prior), Answers(Latest), Answers(prior)>>
    BY <2>1, <2>2 DEF Present, Answers, Tells, Shows
  <2>4. UNCHANGED <<TakenNow, TakenLate, PendingNow>>
    BY <2>1, <2>2, <2>3 DEF TakenNow, TakenLate, TakenAgain, TakenPassed, PendingNow, Refunded
  <2>5. CursorInv' /\ CommandInv' /\ AnswerInv' /\ GivenInv' /\ StockInv' /\ FirstInv'
    BY <2>1, <2>2, <2>3 DEF OnceInv, CursorInv, CommandInv, AnswerInv, GivenInv, StockInv, FirstInv
  <2>6. TakenInv' /\ PendingInv' /\ TracedInv'
    BY <2>1, <2>2, <2>3, <2>4 DEF OnceInv, TakenInv, PendingInv, TracedInv, Refunded
  <2>7. QED
    BY <2>5, <2>6 DEF OnceInv
<1>2. CASE Client \/ Die
  BY <1>2, ClientOnce, CountOnce
<1>3. CASE Table \/ CheatEngineDies
  BY <1>3, ReportsOnce, BootstrapEndsOnce, TakesOnce, WriteOnce, WriteFailsOnce, VerifiesOnce,
     ArmOnce, RemoveOnce, FlushOnce, AttachOnce, AttachFailsOnce, CheatEngineDiesOnce
     DEF Table, Poll
<1>4. CASE Game \/ Gain \/ Use \/ Save \/ GameEnds
  BY <1>4, RevertsOnce, PlaysOnce, CaveOnce DEF Game
<1>5. QED
  BY <1>1, <1>2, <1>3, <1>4 DEF Next, World

(* In one room, across one restart of everything, no item is in the game    *)
(* twice: a retained command is reconciled against the record that was read *)
(* at the restart, whatever the player gained and whenever either program   *)
(* or the game was closed between two of the steps the premises leave.      *)
THEOREM GivenAtMostOnce ==
  ASSUME SingleRoom, OneRestart, SteadyCounts, SteadyClient PROVE Spec => []GivenOnce
<1> DEFINE Inv == Typed /\ OnceInv
<1>1. Init => Inv
  BY TypedInit, OnceInit
<1>2. Inv /\ [Next]_vars => Inv'
  BY TypedStep, OnceStep
<1>3. Inv => GivenOnce
  BY DEF OnceInv, GivenInv, GivenOnce
<1>4. QED
  BY <1>1, <1>2, <1>3, PTL DEF Spec
=============================================================================
