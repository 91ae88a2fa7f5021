------------------------------- MODULE Bridge -------------------------------
(***************************************************************************)
(* The file bridge that turns received Archipelago items into game items:  *)
(* the Python client's bridge_loop (worlds/bloodborne/client.py), the      *)
(* Cheat Engine table's Lua harness                                        *)
(* (tables/Bloodborne-native-item-grant-auto-v2.CT) and the game they      *)
(* share.  The two programs never talk: they meet in three files, a        *)
(* command the client writes and the harness deletes, a state record the   *)
(* harness overwrites and the client polls, and the client's own receipt.  *)
(*                                                                         *)
(* Granularity: one action per file operation, per guest memory write and  *)
(* per decision of one Lua timer callback, because either program, the     *)
(* game or the machine can stop between any two of them.  Opening a file   *)
(* for writing empties it; the text arrives with the close.                *)
(***************************************************************************)
EXTENDS Integers, Sequences, FiniteSets

CONSTANTS
    Seeds,          \* the multiworld rooms the player connects to
    Items,          \* Items[s]: the kinds of the items received in room s
    Kinds,          \* what can be granted; "vial" is the Blood Vial
    HeldAtStart,    \* the inventory of the first save, by kind
    HeldCap,        \* bootstrapVialHeldCap
    Patience,       \* minBootstrapAbsentPolls, minGrantAbsentPolls, maxVerifyPolls
    ClientBuild,    \* RUNTIME_BUILD of the world package
    TableBuild,     \* the build string of the table
    MaxQuantity,    \* bound: the player stops gaining at this count
    MaxAttaches,    \* bound: table executions
    MaxKills,       \* bound: deaths of the client
    MaxMoves,       \* bound: quantities the player changes
    Gainable, Usable, \* the kinds the player gains and uses
    PlayerAt,       \* the harness's places at which the player changes a count
    DieAt,          \* the harness's places at which Cheat Engine or the game can die
    KillAt,         \* the client's places at which it can die
    PollAt,         \* the client's places at which the harness decides
    MaxSends,       \* bound: command files written
    TornRecords     \* TRUE: Cheat Engine can die between emptying and writing the record

ASSUME BridgeAssumption ==
    /\ "vial" \in Kinds /\ \A s \in Seeds : Items[s] \in Seq(Kinds)
    /\ HeldAtStart \in [Kinds -> 0 .. MaxQuantity]
    /\ Patience \in Nat \ {0} /\ HeldCap \in Nat /\ MaxQuantity \in Nat
    /\ MaxAttaches \in Nat /\ MaxKills \in Nat /\ MaxMoves \in Nat
    /\ MaxSends \in Nat /\ TornRecords \in BOOLEAN

VARIABLES
    cpc, seed, delivered,           \* the client
    command, state, receipt,        \* the three files
    hpc, prior, mem, out, boot, bootPolls, absent, verifyPolls, cur, \* the harness
    up, hooked, ready, cell, held, saved,                      \* the game
    ever, given, savedGiven,        \* history: see below
    attaches, kills, moves, sends \* bounds

client == <<cpc, seed, delivered>>
files == <<command, state, receipt>>
harness == <<hpc, prior, mem, out, boot, bootPolls, absent, verifyPolls, cur>>
game == <<up, hooked, ready, cell, held, saved>>
history == <<ever, given, savedGiven>>
bounds == <<attaches, kills, moves, sends>>
vars == <<client, files, harness, game, history, bounds>>

-----------------------------------------------------------------------------
(* Data. A tag received_<i> is the index i; the table's two other tags are   *)
(* negative.                                                                *)

NoTag == -1
BootTag == -2
NoCount == -1

Index == UNION {1 .. Len(Items[s]) : s \in Seeds}
Order == Seeds \X Index

\* The rows of native-grant-state.txt; Nowhere is a missing or emptied file.
Nowhere == [status |-> "empty", tag |-> NoTag, before |-> NoCount, after |-> NoCount]
NoMem == [tag |-> NoTag, before |-> NoCount, after |-> NoCount]

\* The command file: absent, opened but not yet written, or one grant line.
\* The room is not in the file: it is only there to say whose item it is.
NoCommand == [is |-> "none", seed |-> CHOOSE s \in Seeds : TRUE, tag |-> NoTag,
              kind |-> "vial"]
TornCommand == [NoCommand EXCEPT !.is = "torn"]
Grant(s, i) == [is |-> "full", seed |-> s, tag |-> i, kind |-> Items[s][i]]

NoReceipt == [is |-> "none", seed |-> CHOOSE s \in Seeds : TRUE, n |-> 0]
TornReceipt == [NoReceipt EXCEPT !.is = "torn"]

IdleCell == [request |-> FALSE, done |-> FALSE, cmd |-> NoCommand]

Done == {"completed", "recovered_complete"}
Terminal == {"failed", "command_rejected", "quantity_mismatch", "setup_error",
             "write_error"}
InFlight == {"executing", "queued", "verify_pending", "recovery_pending"}

\* Mutant: the tag of the record is not compared.
OutcomeOfAny(i) ==
    IF state = Nowhere \/ ClientBuild # TableBuild THEN "incompatible"
    ELSE IF state.status \in Done THEN "success"
    ELSE IF state.status \in Terminal THEN "failure" ELSE "pending"

\* grant_state_outcome: what the client makes of the state file for tag i.
Outcome(i) ==
    CASE state = Nowhere \/ ClientBuild # TableBuild -> "incompatible"
      [] state # Nowhere /\ ClientBuild = TableBuild /\ state.tag # i -> "pending"
      [] state # Nowhere /\ ClientBuild = TableBuild /\ state.tag = i ->
            IF state.status \in Done THEN "success"
            ELSE IF state.status \in Terminal THEN "failure" ELSE "pending"

Due == delivered + 1    \* the item received_<delivered>, counted from one here

-----------------------------------------------------------------------------
(* The client: bridge_loop.                                                 *)

\* The room is joined; a receipt of this room gives the cursor, anything else zero.
Connect(s) ==
    /\ cpc = "off"
    /\ cpc' = "idle" /\ seed' = s
    /\ delivered' = IF receipt.is = "full" /\ receipt.seed = s THEN receipt.n ELSE 0
    /\ UNCHANGED <<files, harness, game, history, bounds>>

\* Read the state file for the next item. A failure or an incompatible record
\* sends the loop back to its start a second later.
Look ==
    /\ cpc = "idle" /\ delivered < Len(Items[seed])
    /\ \/ Outcome(Due) = "success" /\ cpc' = "ack"
       \/ Outcome(Due) = "pending" /\ cpc' = "looked"
    /\ UNCHANGED <<seed, delivered, files, harness, game, history, bounds>>

\* command.exists() is asked after the state was read; opening empties the file.
OpenCommand ==
    /\ cpc = "looked"
    /\ IF command.is = "none"
       THEN /\ sends < MaxSends /\ sends' = sends + 1
            /\ command' = TornCommand /\ cpc' = "send"
       ELSE UNCHANGED <<command, sends>> /\ cpc' = "wait"
    /\ UNCHANGED <<seed, delivered, state, receipt, harness, game, history, attaches, kills,
                   moves>>

Send ==
    /\ cpc = "send"
    /\ command' = Grant(seed, Due) /\ cpc' = "wait"
    /\ UNCHANGED <<seed, delivered, state, receipt, harness, game, history, bounds>>

\* One look of the wait loop.
Answer ==
    /\ cpc = "wait"
    /\ \/ Outcome(Due) = "success" /\ cpc' = "ack"
       \/ Outcome(Due) \in {"failure", "incompatible"} /\ cpc' = "idle"
    /\ UNCHANGED <<seed, delivered, files, harness, game, history, bounds>>

\* Mutant: the wait loop leaves through the acknowledgement.
TimeOutAcks ==
    /\ cpc = "wait" /\ Outcome(Due) = "pending"
    /\ cpc' = "ack"
    /\ UNCHANGED <<seed, delivered, files, harness, game, history, bounds>>

\* The 30 seconds are over: the loop starts again, the command stays.
TimeOut ==
    /\ cpc = "wait" /\ Outcome(Due) = "pending"
    /\ cpc' = "idle"
    /\ UNCHANGED <<seed, delivered, files, harness, game, history, bounds>>

Unlink ==
    /\ cpc = "ack"
    /\ command' = NoCommand /\ cpc' = "count"
    /\ UNCHANGED <<seed, delivered, state, receipt, harness, game, history, bounds>>

\* delivered += 1, and write_text opens the receipt.
Count ==
    /\ cpc = "count"
    /\ delivered' = delivered + 1 /\ receipt' = TornReceipt /\ cpc' = "store"
    /\ UNCHANGED <<seed, command, state, harness, game, history, bounds>>

Store ==
    /\ cpc = "store"
    /\ receipt' = [is |-> "full", seed |-> seed, n |-> delivered] /\ cpc' = "idle"
    /\ UNCHANGED <<seed, delivered, command, state, harness, game, history, bounds>>

\* The client is closed, is killed, or its bridge task dies of an OSError.
Die ==
    /\ cpc \in KillAt \ {"off"} /\ kills < MaxKills
    /\ cpc' = "off" /\ delivered' = 0 /\ kills' = kills + 1
    /\ UNCHANGED <<seed, files, harness, game, history, attaches, moves, sends>>

-----------------------------------------------------------------------------
(* The harness. Its timer callback (poll) is one Lua function; every action  *)
(* below is one guest write, one file operation or one decision of it.       *)

Turn == out = Nowhere /\ cpc \in PollAt

\* state(): open the file, which empties it, with the record m to be written.
Report(status, m) ==
    /\ mem' = m /\ state' = Nowhere
    /\ out' = [status |-> status, tag |-> m.tag, before |-> m.before, after |-> m.after]

Flush ==
    /\ out # Nowhere
    /\ state' = out /\ out' = Nowhere
    /\ UNCHANGED <<client, command, receipt, hpc, prior, mem, boot, bootPolls, absent,
                   verifyPolls, cur, game, history, bounds>>

\* The table is executed against a game without the hooks: it reads the durable
\* record once, installs, and says whether a command was found lying there.
Attach ==
    /\ up /\ ~hooked /\ out = Nowhere /\ hpc \in {"off", "poll", "active"}
    /\ attaches < MaxAttaches
    /\ hooked' = TRUE /\ cell' = IdleCell
    /\ prior' = state /\ hpc' = "poll"
    /\ boot' = TRUE /\ bootPolls' = 0 /\ verifyPolls' = 0 /\ cur' = NoCommand
    /\ absent' = [tag |-> NoTag, polls |-> 0]
    /\ IF command.is # "none" /\ state # Nowhere /\ state.tag # NoTag
       THEN Report("recovery_pending", [tag |-> state.tag, before |-> state.before,
                                        after |-> state.after])
       ELSE Report("awaiting_inventory", NoMem)
    /\ attaches' = attaches + 1
    /\ UNCHANGED <<client, command, receipt, up, ready, held, saved, history, kills, moves, sends>>

\* The assembler refuses the script: reported under the tag the record held.
AttachFails ==
    /\ up /\ ~hooked /\ hpc = "off" /\ out = Nowhere /\ attaches < MaxAttaches
    /\ Report("setup_error", [tag |-> state.tag, before |-> state.before,
                              after |-> state.after])
    /\ hpc' = "failed" /\ attaches' = attaches + 1
    /\ UNCHANGED <<client, command, receipt, prior, boot, bootPolls, absent, verifyPolls,
                   cur, game, history, kills, moves, sends>>

\* tryBootstrapVial comes first in every poll without a grant in flight. While
\* the Vial stack is missing it only waits, and the poll goes on to the command.
BootstrapWaits ==
    /\ hpc = "poll" /\ Turn /\ boot /\ ready
    /\ held["vial"] = 0 /\ bootPolls < Patience
    /\ bootPolls' = bootPolls + 1
    /\ Report("bootstrap_waiting", [mem EXCEPT !.tag = BootTag])
    /\ hpc' = "command"
    /\ UNCHANGED <<client, command, receipt, prior, boot, absent, verifyPolls, cur, game,
                   history, bounds>>

\* One Vial more for the one spent to find the inventory, unless the player
\* holds the cap or none. (A missing stack refunds a Bullet, which no item is.)
BootstrapEnds ==
    /\ hpc = "poll" /\ Turn /\ boot /\ ready
    /\ held["vial"] = 0 => bootPolls = Patience
    /\ boot' = FALSE /\ bootPolls' = 0
    /\ IF held["vial"] \in 1 .. HeldCap - 1
       THEN /\ held' = [held EXCEPT !["vial"] = @ + 1]
            /\ Report("bootstrap_complete", [tag |-> BootTag, before |-> held["vial"],
                                             after |-> held["vial"] + 1])
       ELSE /\ UNCHANGED held
            /\ Report("bootstrap_skipped", [mem EXCEPT !.tag = BootTag])
    /\ UNCHANGED <<client, command, receipt, hpc, prior, absent, verifyPolls,
                   cur, up, hooked, ready, cell, saved, history, bounds>>

\* The part of the poll that looks at the command file.
Polls ==
    \/ hpc = "command" /\ Turn
    \/ hpc = "poll" /\ Turn /\ ~(boot /\ ready)

Stays(status) ==
    /\ Report(status, mem) /\ hpc' = "poll"
    /\ UNCHANGED <<client, command, receipt, prior, boot, bootPolls, verifyPolls, cur, game,
                   history, bounds>>

NoWork ==
    /\ hpc = "command" /\ Turn /\ command.is = "none"
    /\ hpc' = "poll"
    /\ UNCHANGED <<client, files, prior, mem, out, boot, bootPolls, absent, verifyPolls, cur,
                   game, history, bounds>>

AwaitInventory ==
    /\ Polls /\ ~ready /\ command.is # "torn"
    /\ hooked \/ command.is = "full"
    /\ Stays("awaiting_inventory") /\ UNCHANGED absent

Reject ==
    /\ Polls /\ command.is = "torn"
    /\ Report("command_rejected", mem) /\ hpc' = "remove"
    /\ UNCHANGED <<client, command, receipt, prior, boot, bootPolls, absent, verifyPolls,
                   cur, game, history, bounds>>

\* A missing stack may be one the save has not loaded yet: wait before inserting.
AbsentPolls(c) == IF absent.tag = c.tag THEN absent.polls + 1 ELSE 1
Waits(c) == held[c.kind] = 0 /\ AbsentPolls(c) < Patience

AwaitHydration ==
    /\ Polls /\ ready /\ command.is = "full" /\ Waits(command)
    /\ absent' = [tag |-> command.tag, polls |-> AbsentPolls(command)]
    /\ Stays("awaiting_inventory")

\* What the record read at Attach says of this tag, and the count to start from.
Matches(c) == prior.tag = c.tag /\ prior.before # NoCount /\ prior.after = prior.before + 1
\* Mutants: any record of the tag is a witness; the record is not consulted.
WitnessedByAny(c) == Matches(c)
ExpectedNow(c) == held[c.kind]

Witnessed(c) == Matches(c) /\ prior.status \in Done
Expected(c) ==
    IF Witnessed(c) \/ (Matches(c) /\ prior.status \in InFlight)
    THEN prior.before ELSE held[c.kind]

Decides(c) == Polls /\ ready /\ c.is = "full" /\ ~Waits(c)
Plan(c) == [tag |-> c.tag, before |-> Expected(c), after |-> Expected(c) + 1]
Tracks(c) ==
    absent' = IF held[c.kind] = 0 THEN [tag |-> c.tag, polls |-> AbsentPolls(c)]
              ELSE [tag |-> NoTag, polls |-> 0]

\* The count is already what the grant would make it, and nothing witnessed the
\* grant: the command stays.
Ambiguous ==
    /\ Decides(command) /\ held[command.kind] = Expected(command) + 1
    /\ ~Witnessed(command)
    /\ Report("recovery_ambiguous", Plan(command)) /\ Tracks(command) /\ hpc' = "poll"
    /\ UNCHANGED <<client, command, receipt, prior, boot, bootPolls, verifyPolls, cur, game,
                   history, bounds>>

Ends(status) ==
    /\ Report(status, Plan(command)) /\ Tracks(command) /\ hpc' = "remove"
    /\ UNCHANGED <<client, command, receipt, prior, boot, bootPolls, verifyPolls, cur, game,
                   history, bounds>>

Recovered ==
    /\ Decides(command) /\ held[command.kind] = Expected(command) + 1 /\ Witnessed(command)
    /\ Ends("recovered_complete")

Mismatch ==
    /\ Decides(command) /\ held[command.kind] \notin {Expected(command), Expected(command) + 1}
    /\ Ends("quantity_mismatch")

Executable == Decides(command) /\ held[command.kind] = Expected(command)

\* Mutant: an absent Blood Vial goes to the cave like anything else.
InsertableAll(k) == TRUE

Insertable(k) == k # "vial"

\* An absent Blood Vial is never inserted.
RefuseVial ==
    /\ Executable /\ held[command.kind] = 0 /\ ~Insertable(command.kind)
    /\ Ends("failed")

\* An existing stack is written directly; the record comes first.
Direct ==
    /\ Executable /\ held[command.kind] > 0
    /\ Report("executing", Plan(command)) /\ Tracks(command)
    /\ cur' = command /\ hpc' = "write"
    /\ UNCHANGED <<client, command, receipt, prior, boot, bootPolls, verifyPolls, game,
                   history, bounds>>

\* The guest quantity becomes mem.after, whatever it was; a guest that is gone
\* refuses the write.
Write ==
    /\ hpc = "write" /\ Turn /\ hooked
    /\ held' = [held EXCEPT ![cur.kind] = mem.after] /\ hpc' = "verify"
    /\ ever' = ever \cup {<<cur.seed, cur.tag>>}
    /\ given' = [given EXCEPT ![<<cur.seed, cur.tag>>] = @ + 1]
    /\ UNCHANGED <<client, files, prior, mem, out, boot, bootPolls, absent, verifyPolls, cur,
                   up, hooked, ready, cell, saved, savedGiven, bounds>>

WriteFails ==
    /\ hpc = "write" /\ Turn /\ ~hooked
    /\ Report("write_error", mem) /\ hpc' = "remove"
    /\ UNCHANGED <<client, command, receipt, prior, boot, bootPolls, absent, verifyPolls,
                   cur, game, history, bounds>>

\* Mutant: a status the protocol does not have.
VerifyUnknown ==
    /\ hpc = "verify" /\ Turn
    /\ Report(IF hooked /\ held[cur.kind] = mem.after THEN "completed" ELSE "unverified", mem)
    /\ hpc' = "remove"
    /\ UNCHANGED <<client, command, receipt, prior, boot, bootPolls, absent, verifyPolls,
                   cur, game, history, bounds>>

Verify ==
    /\ hpc = "verify" /\ Turn
    /\ Report(IF hooked /\ held[cur.kind] = mem.after THEN "completed" ELSE "failed", mem)
    /\ hpc' = "remove"
    /\ UNCHANGED <<client, command, receipt, prior, boot, bootPolls, absent, verifyPolls,
                   cur, game, history, bounds>>

\* A missing stack goes through the cave, whose cell must be free (CellIsFree:
\* it always is, the busy report is never made).
Queue ==
    /\ Executable /\ held[command.kind] = 0 /\ Insertable(command.kind) /\ ~cell.request
    /\ Report("executing", Plan(command)) /\ Tracks(command)
    /\ cell' = [request |-> FALSE, done |-> FALSE, cmd |-> command]
    /\ cur' = command /\ verifyPolls' = 0 /\ hpc' = "arm"
    /\ UNCHANGED <<client, command, receipt, prior, boot, bootPolls, up, hooked, ready, held,
                   saved, history, bounds>>

\* Mutant: the armed command is not remembered as the active one.
ArmForgets ==
    /\ hpc = "arm" /\ Turn
    /\ cell' = IF hooked THEN [cell EXCEPT !.request = TRUE] ELSE cell
    /\ Report("queued", mem) /\ hpc' = "poll"
    /\ UNCHANGED <<client, command, receipt, prior, boot, bootPolls, absent, verifyPolls,
                   cur, up, hooked, ready, held, saved, history, bounds>>

Arm ==
    /\ hpc = "arm" /\ Turn
    /\ cell' = IF hooked THEN [cell EXCEPT !.request = TRUE] ELSE cell
    /\ Report("queued", mem) /\ hpc' = "active"
    /\ UNCHANGED <<client, command, receipt, prior, boot, bootPolls, absent, verifyPolls,
                   cur, up, hooked, ready, held, saved, history, bounds>>

\* The cave is done. The slot it filled is the evidence, else the whole count.
Arrived == held[cur.kind] >= 1 \/ held[cur.kind] = mem.after

VerifyNative ==
    /\ hpc = "active" /\ Turn /\ hooked /\ cell.done
    /\ \/ Arrived /\ Report("completed", mem) /\ hpc' = "remove" /\ UNCHANGED verifyPolls
       \/ /\ ~Arrived /\ verifyPolls + 1 < Patience
          /\ verifyPolls' = verifyPolls + 1
          /\ Report("verify_pending", mem) /\ UNCHANGED hpc
       \/ /\ ~Arrived /\ verifyPolls + 1 >= Patience
          /\ verifyPolls' = verifyPolls + 1
          /\ Report("failed", mem) /\ hpc' = "remove"
    /\ UNCHANGED <<client, command, receipt, prior, boot, bootPolls, absent, cur, game,
                   history, bounds>>

\* Mutant: the command file is left behind.
RemoveNot ==
    /\ hpc = "remove" /\ Turn
    /\ hpc' = "poll" /\ cur' = NoCommand
    /\ UNCHANGED <<client, files, prior, mem, out, boot, bootPolls, absent, verifyPolls,
                   game, history, bounds>>

\* os.remove, whatever the file now holds; Windows keeps a file that is open.
Remove ==
    /\ hpc = "remove" /\ Turn
    /\ command' = IF cpc = "send" THEN command ELSE NoCommand
    /\ hpc' = "poll" /\ cur' = NoCommand
    /\ UNCHANGED <<client, state, receipt, prior, mem, out, boot, bootPolls, absent,
                   verifyPolls, game, history, bounds>>

\* The Lua state before a table has been executed.
NoLocals ==
    /\ prior' = Nowhere /\ mem' = NoMem /\ out' = Nowhere
    /\ boot' = TRUE /\ bootPolls' = 0 /\ verifyPolls' = 0 /\ cur' = NoCommand
    /\ absent' = [tag |-> NoTag, polls |-> 0]

\* Cheat Engine is closed, its locals with it; the hooks stay in the game.
CheatEngineDies ==
    /\ hpc \in DieAt \ {"off"} /\ attaches < MaxAttaches
    /\ out = Nowhere \/ TornRecords
    /\ hpc' = "off" /\ NoLocals
    /\ UNCHANGED <<client, files, game, history, bounds>>

-----------------------------------------------------------------------------
(* The game and its player.                                                 *)

Launch ==
    /\ ~up
    /\ up' = TRUE /\ held' = saved /\ given' = savedGiven
    /\ UNCHANGED <<client, files, harness, hooked, ready, cell, saved, ever, savedGiven,
                   bounds>>

\* The player has fired the bullet that shows the harness the inventory.
Ready ==
    /\ up /\ hooked /\ ~ready
    /\ ready' = TRUE
    /\ UNCHANGED <<client, files, harness, up, hooked, cell, held, saved, history, bounds>>

\* The cave takes the request and inserts the item on the game's own thread.
CaveRuns ==
    /\ up /\ ready /\ cell.request
    /\ cell' = [cell EXCEPT !.request = FALSE, !.done = TRUE]
    /\ held' = [held EXCEPT ![cell.cmd.kind] = @ + 1]
    /\ ever' = ever \cup {<<cell.cmd.seed, cell.cmd.tag>>}
    /\ given' = [given EXCEPT ![<<cell.cmd.seed, cell.cmd.tag>>] = @ + 1]
    /\ UNCHANGED <<client, files, harness, up, hooked, ready, saved, savedGiven, bounds>>

Move(k, by) ==
    /\ up /\ hpc \in PlayerAt /\ moves < MaxMoves
    /\ held' = [held EXCEPT ![k] = @ + by] /\ moves' = moves + 1
    /\ UNCHANGED <<client, files, harness, up, hooked, ready, cell, saved, history, attaches,
                   kills, sends>>

Gain == \E k \in Gainable : held[k] < MaxQuantity /\ Move(k, 1)
Use == \E k \in Usable : held[k] > 0 /\ Move(k, -1)

Save ==
    /\ up /\ <<saved, savedGiven>> # <<held, given>>
    /\ saved' = held /\ savedGiven' = given
    /\ UNCHANGED <<client, files, harness, up, hooked, ready, cell, held, ever, given, bounds>>

\* The game ends, by the player's hand or by a crash: what was not saved is gone.
\* (One that ends before a table was executed in it is as if it had not started.)
GameEnds ==
    /\ hooked /\ hpc \in DieAt /\ attaches < MaxAttaches
    /\ up' = FALSE /\ hooked' = FALSE /\ ready' = FALSE /\ cell' = IdleCell
    /\ held' = saved /\ given' = savedGiven
    /\ UNCHANGED <<client, files, harness, saved, ever, savedGiven, bounds>>

-----------------------------------------------------------------------------
Init ==
    /\ cpc = "off" /\ seed \in Seeds /\ delivered = 0
    /\ command = NoCommand /\ state = Nowhere /\ receipt = NoReceipt
    /\ hpc = "off" /\ prior = Nowhere /\ mem = NoMem /\ out = Nowhere
    /\ boot = TRUE /\ bootPolls = 0 /\ absent = [tag |-> NoTag, polls |-> 0]
    /\ verifyPolls = 0 /\ cur = NoCommand
    /\ up = FALSE /\ hooked = FALSE /\ ready = FALSE /\ cell = IdleCell
    /\ held = HeldAtStart /\ saved = HeldAtStart
    /\ ever = {} /\ given = [o \in Order |-> 0] /\ savedGiven = given
    /\ attaches = 0 /\ kills = 0 /\ moves = 0 /\ sends = 0

Client == (\E s \in Seeds : Connect(s)) \/ Look \/ OpenCommand \/ Send \/ Answer \/ TimeOut
          \/ Unlink \/ Count \/ Store
Poll == BootstrapWaits \/ BootstrapEnds \/ NoWork \/ AwaitInventory \/ Reject
        \/ AwaitHydration \/ Ambiguous \/ Recovered \/ Mismatch \/ RefuseVial \/ Direct
        \/ Write \/ WriteFails \/ Verify \/ Queue \/ Arm \/ VerifyNative \/ Remove
Table == Attach \/ AttachFails \/ Flush \/ Poll
Game == Launch \/ Ready \/ CaveRuns
World == Gain \/ Use \/ Save \/ GameEnds \/ CheatEngineDies \/ Die

Next == Client \/ Table \/ Game \/ World

Spec == Init /\ [][Next]_vars

-----------------------------------------------------------------------------
(* Properties.                                                              *)

TypeOK ==
    /\ cpc \in {"off", "idle", "looked", "send", "wait", "ack", "count", "store"}
    /\ seed \in Seeds /\ delivered \in Nat
    /\ hpc \in {"off", "failed", "poll", "command", "write", "verify", "arm", "active",
                "remove"}
    /\ {state, prior, out} \subseteq
         [status : {"empty", "awaiting_inventory", "bootstrap_waiting",
                    "bootstrap_complete", "bootstrap_skipped", "recovery_ambiguous"} \cup Done \cup Terminal \cup InFlight,
          tag : Int, before : Int, after : Int]
    /\ command.is \in {"none", "torn", "full"} /\ receipt.is \in {"none", "torn", "full"}
    /\ held \in [Kinds -> Nat] /\ saved \in [Kinds -> Nat]
    /\ ever \subseteq Order /\ given \in [Order -> Nat] /\ savedGiven \in [Order -> Nat]

\* The cursor, in memory and in the receipt, never passes an item that was not
\* put into the game at least once: bridge_loop acknowledges on the strength of
\* the state file alone (client.py:180-223), the harness may delete another
\* command than the one it executed, and both may die between any two steps.
AckedWasGiven ==
    /\ cpc # "off" => \A i \in 1 .. delivered : <<seed, i>> \in ever
    /\ receipt.is = "full" => \A i \in 1 .. receipt.n : <<receipt.seed, i>> \in ever

\* The harness's word is good: a record that says an item was granted, on disk,
\* about to be written or remembered from an earlier session, names an item that
\* was (the priorWitnessed rule of the table's poll).
Witness(r) == r.status \in Done => \E s \in Seeds : <<s, r.tag>> \in ever
WitnessIsTrue == Witness(state) /\ Witness(out) /\ Witness(prior)

\* The harness asks for a native insertion only when no other is pending, however
\* the game, Cheat Engine and the command file came and went in between.
CellIsFree == (Executable /\ held[command.kind] = 0) => ~cell.request

\* Nobody but the player makes a Blood Vial stack (CT:701, an inserted Vial record
\* is invalid): neither a grant of a Vial nor the bootstrap's refund creates one.
VialsAreNotMade ==
    [][held["vial"] = 0 /\ held'["vial"] > 0 => moves' # moves \/ up' # up]_vars

\* No item is in the game twice: across one restart of everything, a retained
\* command is reconciled against the durable record instead of being executed
\* again (the recoverable rule of the table's poll).
GivenOnce == \A o \in Order : given[o] <= 1

\* Items enter the game in the order the room sent them.
GivenInOrder ==
    [][\A s \in Seeds, i \in Index :
          <<s, i>> \in ever' \ ever => \A j \in 1 .. i - 1 : <<s, j>> \in ever]_vars

\* Every item of the room is acknowledged, unless the bridge says out loud why
\* not (a terminal or ambiguous record for it) or nobody runs the table.
Stuck(i) == state.tag = i /\ state.status \in Terminal \cup {"recovery_ambiguous"}
EveryItemSettles ==
    \A s \in Seeds, i \in Index :
        (seed = s /\ i <= Len(Items[s]) /\ hpc # "off") ~>
            (seed # s \/ (cpc # "off" /\ delivered >= i) \/ \E j \in 1 .. i : Stuck(j)
             \/ hpc \in {"off", "failed"})

\* Both programs run on their timers, the player starts the game, opens the
\* client and the table again, and fires the bullet; nobody need die or play.
FairSpec ==
    /\ Spec
    /\ WF_vars(Client) /\ SF_vars(Flush \/ Poll) /\ SF_vars(Attach)
    /\ WF_vars(Launch) /\ WF_vars(Ready) /\ WF_vars(CaveRuns)
=============================================================================
