----------------------------- MODULE NativeGrant -----------------------------
(***************************************************************************)
(* The grant command of tools/bb_native_delivery without Cheat Engine: one *)
(* run of the command-line tool (cli.py) after the other, each with a      *)
(* GrantSession (delivery.py), against the request cell of the game        *)
(* (guest.py) and the cave that serves it (payload.py).  What survives a   *)
(* run is the cell, which may still be armed, and the journal of tags.     *)
(*                                                                         *)
(* The cells are staged one write at a time, the request last, because the *)
(* tool can be interrupted or killed in between.  The cave runs on the     *)
(* game's own thread within a frame: it is one step.  Any guest read or    *)
(* write may fail.                                                         *)
(***************************************************************************)
EXTENDS Naturals

CONSTANTS
    Tag,           \* names of grants
    NoTag,         \* whose cells the installer's are
    Kind,          \* what can be granted; "vial" is the Blood Vial
    Item,          \* the kind each tag grants
    Quantity,      \* how many of it
    HeldAtStart,   \* the inventories the player may start with: counts by kind
    Cap,           \* what the player can hold of a kind: the rest is stored
    MinAbsent,     \* MIN_ABSENT_POLLS
    MaxVerify,     \* MAX_VERIFY_POLLS
    Count,         \* --expected-before: "none", the "first" count or that of "now"
    Forced,        \* whether --force is given
    MaxRuns,       \* bound: runs of the tool
    MaxMoves       \* bound: counts the player changes

ASSUME NativeAssumption ==
    /\ NoTag \notin Tag /\ Item \in [Tag -> Kind]
    /\ Quantity \in Nat \ {0} /\ HeldAtStart \subseteq [Kind -> Nat] /\ Cap \in Nat
    /\ MinAbsent \in Nat \ {0} /\ MaxVerify \in Nat \ {0}
    /\ Count \subseteq {"none", "first", "now"} /\ Forced \subseteq BOOLEAN
    /\ MaxRuns \in Nat /\ MaxMoves \in Nat

VARIABLES
    tpc,        \* where the tool is; "off" between runs
    run,        \* its arguments
    status,     \* the session's status
    baseline,   \* _expected_before
    exists,     \* the stack the scan found exists
    active,     \* _active: a request is in flight
    polls,      \* _absent_polls or _verify_polls
    refused,    \* the guest refused a write of this run
    journal,    \* the journal file: the last status of each tag
    cell,       \* the request cell and its arguments
    held,       \* what the player holds
    ready,      \* the game has published its inventory
    given,      \* history: how often the cave executed a tag
    first,      \* history: the count the operator noted at a tag's first run
    recounted,  \* history: tags run on another count than that before their first run,
                \* and whether the journal called the run before it settled
    lossy,      \* history: the journal has lost a record
    runs, moves \* bounds

session == <<run, status, baseline, exists, active, polls, refused>>
game    == <<cell, held, ready, given>>
history == <<first, recounted, lossy>>
vars    == <<tpc, session, journal, game, history, runs, moves>>

Terminal == {"completed", "recovered_complete", "failed", "quantity_mismatch"}
Waiting  == {"queued", "awaiting_inventory", "read_unavailable"}
InFlight == {"executing", "verify_pending"}
Status   == Terminal \cup Waiting \cup InFlight

\* Mutant: an interrupted run is taken for a finished one.
InconclusiveArmedOnly == {"armed"}

\* INCONCLUSIVE_STATUSES ("unknown" is never written: a status is never empty).
Inconclusive == {"armed", "interrupted"}

NoRun == [tag |-> NoTag, count |-> "none", clear |-> FALSE]
IdleCell == [request |-> "none", staged |-> NoTag, sized |-> NoTag, armed |-> NoTag,
             done |-> FALSE]
EmptyJournal == [t \in Tag |-> "none"]

Unnoted == [noted |-> FALSE, spoilt |-> FALSE, count |-> 0]

\* find_stack
Exists(t) == held[Item[t]] > 0

-----------------------------------------------------------------------------
(* The command line: _cmd_grant before the session.                         *)

Expected(t, c) == IF c = "first" /\ first[t].noted THEN first[t].count ELSE held[Item[t]]

\* An operator who goes by the count before the first run knows it, has not
\* touched the item since, and left room for the grant.
Honest(t, c) == c = "first" =>
    ~first[t].spoilt /\ Expected(t, c) + Quantity <= Cap

Outcome(s) == IF s \in Terminal THEN "settled" ELSE "open"

\* _gate_reused_tag
Reused(t, c, force) ==
    force \/ (journal[t] \notin Inconclusive /\ (c # "none" \/ journal[t] = "none"))

Start(t, c, clear, force) ==
    /\ tpc = "off" /\ runs < MaxRuns /\ Honest(t, c)
    /\ Reused(t, c, force)
    /\ tpc' = "gate" /\ runs' = runs + 1
    /\ run' = [tag |-> t, count |-> c, clear |-> clear]
    /\ baseline' = IF c = "none" THEN 0 ELSE Expected(t, c)
    /\ status' = "queued" /\ exists' = FALSE /\ active' = FALSE /\ polls' = 0
    /\ refused' = FALSE
    /\ first' = IF first[t].noted THEN first
                ELSE [first EXCEPT ![t] = [noted |-> TRUE, spoilt |-> FALSE,
                                           count |-> held[Item[t]]]]
    /\ recounted' = IF force THEN recounted \cup {<<t, "settled">>}
                    ELSE IF c = "now" /\ journal[t] \notin {"none", "armed", "interrupted"}
                    THEN recounted \cup {<<t, Outcome(journal[t])>>} ELSE recounted
    /\ UNCHANGED <<journal, game, lossy, moves>>

Off == tpc' = "off" /\ run' = NoRun /\ status' = "queued" /\ baseline' = 0
       /\ exists' = FALSE /\ active' = FALSE /\ polls' = 0 /\ refused' = FALSE

\* Mutant: the armed cell is not looked at.
GateOpen ==
    /\ tpc = "gate" /\ tpc' = "record"
    /\ cell' = IF run.clear THEN IdleCell ELSE cell
    /\ run' = [run EXCEPT !.clear = FALSE]
    /\ UNCHANGED <<status, baseline, exists, active, polls, refused, journal, held, ready,
                   given, history, runs, moves>>

\* _gate_request_cell: an idle cell, or --clear-stale-request.
Gate ==
    /\ tpc = "gate" /\ tpc' = "record"
    /\ run.clear \/ cell.request = "none"
    /\ cell' = IF run.clear THEN IdleCell ELSE cell
    /\ run' = [run EXCEPT !.clear = FALSE]
    /\ UNCHANGED <<status, baseline, exists, active, polls, refused, journal, held, ready,
                   given, history, runs, moves>>

\* StaleRequest, or a read or write that failed: the run ends unrecorded.
GateRefuses ==
    /\ tpc = "gate" /\ Off
    /\ UNCHANGED <<journal, game, history, runs, moves>>

\* _record_tag is best effort: a journal that cannot be written is warned about.
Record(s) ==
    \/ journal' = [journal EXCEPT ![run.tag] = s] /\ UNCHANGED lossy
    \/ lossy' = TRUE /\ UNCHANGED journal

RecordArmed ==
    /\ tpc = "record" /\ tpc' = "poll"
    /\ Record("armed")
    /\ UNCHANGED <<session, game, first, recounted, runs, moves>>

-----------------------------------------------------------------------------
(* GrantSession._poll_pending and _queue.                                   *)

Stays(s) ==
    /\ tpc' = "poll" /\ status' = s
    /\ UNCHANGED <<run, baseline, active, refused, journal, game, history, runs, moves>>

Finish(s) ==
    /\ tpc' = "close" /\ status' = s /\ active' = FALSE
    /\ UNCHANGED <<run, refused, journal, game, history, runs, moves>>

\* The inventory is not published, its geometry not hydrated, or not readable.
Unavailable ==
    /\ tpc = "poll" /\ ~active
    /\ Stays("awaiting_inventory") \/ Stays("read_unavailable")
    /\ UNCHANGED <<exists, polls>>

\* A stack that looks absent may be one the save has not loaded yet.
AwaitHydration ==
    /\ tpc = "poll" /\ ~active /\ ready
    /\ ~Exists(run.tag) /\ polls + 1 < MinAbsent
    /\ polls' = polls + 1
    /\ Stays("awaiting_inventory") /\ UNCHANGED exists

Hydrated(t) == Exists(t) \/ polls + 1 >= MinAbsent   \* and stays so

Baseline(t) == IF run.count = "none" THEN held[Item[t]] ELSE baseline

Scan ==
    /\ tpc = "poll" /\ ~active /\ ready /\ Hydrated(run.tag)
    /\ exists' = Exists(run.tag) /\ baseline' = Baseline(run.tag)
    /\ polls' = IF Exists(run.tag) THEN 0 ELSE MinAbsent
    /\ LET found == held[Item[run.tag]]
       IN \/ found = baseline' + Quantity /\ Finish("recovered_complete")
          \/ /\ found \notin {baseline', baseline' + Quantity}
             /\ Finish("quantity_mismatch")
          \/ /\ found = baseline' /\ found = 0 /\ Item[run.tag] = "vial"
             /\ Finish("failed")
          \/ /\ found = baseline' /\ (found > 0 \/ Item[run.tag] # "vial")
             /\ tpc' = "queue"
             /\ UNCHANGED <<run, status, active, refused, journal, game, history, runs,
                            moves>>

\* request_pending also answers no when the cell cannot be read.  It never
\* answers yes (CellIsFree): with one tool at a time nobody else arms the cell.
Queue ==
    /\ tpc = "queue" /\ tpc' = "stage"
    /\ UNCHANGED <<session, journal, game, history, runs, moves>>

\* Mutant: the request is written before its arguments.
StageArms ==
    /\ tpc = "stage" /\ tpc' = "size"
    /\ cell' = [cell EXCEPT !.staged = run.tag, !.armed = run.tag,
                            !.request = IF exists THEN "existing" ELSE "insert"]
    /\ UNCHANGED <<session, journal, held, ready, given, history, runs, moves>>

\* queue_native: the descriptor, the slot and its quantity pointer ...
Stage ==
    /\ tpc = "stage" /\ tpc' = "size"
    /\ cell' = [cell EXCEPT !.staged = run.tag]
    /\ UNCHANGED <<session, journal, held, ready, given, history, runs, moves>>

\* Mutant: done is left as the last request set it.
SizeKeepsDone ==
    /\ tpc = "size" /\ tpc' = "arm"
    /\ cell' = [cell EXCEPT !.sized = run.tag]
    /\ UNCHANGED <<session, journal, held, ready, given, history, runs, moves>>

\* ... the quantity, an empty result and done = 0 ...
Size ==
    /\ tpc = "size" /\ tpc' = "arm"
    /\ cell' = [cell EXCEPT !.sized = run.tag, !.done = FALSE]
    /\ UNCHANGED <<session, journal, held, ready, given, history, runs, moves>>

\* ... and last the request itself.
Arm ==
    /\ tpc = "arm" /\ tpc' = "armed"
    /\ cell' = [cell EXCEPT !.armed = run.tag,
                            !.request = IF exists THEN "existing" ELSE "insert"]
    /\ UNCHANGED <<session, journal, held, ready, given, history, runs, moves>>

Armed ==
    /\ tpc = "armed" /\ tpc' = "poll"
    /\ active' = TRUE /\ polls' = 0 /\ status' = "executing"
    /\ UNCHANGED <<run, baseline, exists, refused, journal, game, history, runs, moves>>

Staging == {"stage", "size", "arm", "armed"}

-----------------------------------------------------------------------------
(* GrantSession._poll_active.                                               *)

\* native_done answers no when the cell cannot be read.
AwaitCave ==
    /\ tpc = "poll" /\ active
    /\ Stays("executing") /\ UNCHANGED <<exists, polls>>

\* The slot holds enough (the slot the scan found, or the one the cave filled),
\* or the whole count is the expected one.
Verified == held[Item[run.tag]] >= Quantity \/ held[Item[run.tag]] = baseline + Quantity

Complete ==
    /\ tpc = "poll" /\ active /\ cell.done /\ Verified
    /\ Finish("completed") /\ UNCHANGED <<exists, polls, baseline>>

\* Mutant: the retry budget is never used up.
VerifyForEver ==
    /\ tpc = "poll" /\ active /\ cell.done
    /\ polls' = polls + 1
    /\ Stays("verify_pending") /\ UNCHANGED exists

\* The evidence is not there, or could not be read.
Verify ==
    /\ tpc = "poll" /\ active /\ cell.done
    /\ polls' = polls + 1
    /\ \/ polls + 1 < MaxVerify /\ Stays("verify_pending") /\ UNCHANGED exists
       \/ polls + 1 >= MaxVerify /\ Finish("failed") /\ UNCHANGED <<exists, baseline>>

-----------------------------------------------------------------------------
(* The ends of a run.                                                       *)

\* The loop of _poll_to_completion gives up; a request in flight stays armed.
TimeOut ==
    /\ tpc = "poll" /\ tpc' = "close"
    /\ UNCHANGED <<session, journal, game, history, runs, moves>>

\* Mutant: a request cut short while being staged does not count as in flight.
DisarmActiveOnly ==
    IF active THEN \/ cell' = [cell EXCEPT !.request = "none"] /\ UNCHANGED refused
                   \/ UNCHANGED cell /\ refused' = TRUE
    ELSE UNCHANGED <<cell, refused>>

\* disarm_best_effort: the guest may refuse the write.
Disarm ==
    IF active \/ tpc \in Staging
    THEN \/ cell' = [cell EXCEPT !.request = "none"] /\ UNCHANGED refused
         \/ UNCHANGED cell /\ refused' = TRUE
    ELSE UNCHANGED <<cell, refused>>

\* Ctrl+C, a refused write, or a read that raises (native_result), in the loop.
Interrupt ==
    /\ tpc \in {"poll", "queue"} \cup Staging
    /\ Disarm
    /\ tpc' = "close" /\ status' = "interrupted" /\ active' = FALSE
    /\ UNCHANGED <<run, baseline, exists, polls, journal, held, ready, given, history, runs,
                   moves>>

\* The same after the loop, while it says that it timed out (or, the request served,
\* how it ended): _cmd_grant records an interruption, and nobody disarms any more.
InterruptLate ==
    /\ tpc = "close" /\ status' = "interrupted" /\ active' = FALSE
    /\ UNCHANGED <<tpc, run, baseline, exists, polls, refused, journal, game, history, runs,
                   moves>>

\* The last _record_tag of the run.
Close ==
    /\ tpc = "close" /\ Off
    /\ Record(status)
    /\ UNCHANGED <<game, first, recounted, runs, moves>>

\* kill -9, a crash.  The journal is emptied before it is written again.
Kill ==
    /\ tpc # "off" /\ Off
    /\ \/ UNCHANGED <<journal, lossy>>
       \/ tpc \in {"record", "close"} /\ journal' = EmptyJournal /\ lossy' = TRUE
    /\ UNCHANGED <<game, first, recounted, runs, moves>>

-----------------------------------------------------------------------------
(* The game.                                                                *)

Publish ==
    /\ ~ready /\ ready' = TRUE
    /\ UNCHANGED <<tpc, session, journal, cell, held, given, history, runs, moves>>

Least(a, b) == IF a < b THEN a ELSE b

\* The consume cave: the request is taken before it is executed.
CaveRuns ==
    /\ ready /\ cell.request # "none"
    /\ cell' = [cell EXCEPT !.request = "none", !.done = TRUE]
    /\ held' = [held EXCEPT ![Item[cell.staged]] = Least(Cap, @ + Quantity)]
    /\ given' = [given EXCEPT ![cell.armed] = @ + 1]
    /\ UNCHANGED <<tpc, session, journal, ready, history, runs, moves>>

Move(k, n) ==
    /\ ready /\ moves < MaxMoves /\ moves' = moves + 1
    /\ held' = [held EXCEPT ![k] = n]
    /\ first' = [t \in Tag |-> IF Item[t] = k /\ first[t].noted
                               THEN [first[t] EXCEPT !.spoilt = TRUE] ELSE first[t]]
    /\ recounted' = IF tpc # "off" /\ run.count = "first" /\ Item[run.tag] = k
                    THEN recounted \cup {<<run.tag, "settled">>} ELSE recounted
    /\ UNCHANGED <<tpc, session, journal, cell, ready, given, lossy, runs>>

Gain == \E k \in Kind : held[k] < Cap /\ Move(k, held[k] + 1)
Use  == \E k \in Kind : held[k] > 0 /\ Move(k, held[k] - 1)

-----------------------------------------------------------------------------
Init ==
    /\ tpc = "off" /\ run = NoRun /\ status = "queued" /\ baseline = 0 /\ exists = FALSE
    /\ active = FALSE /\ polls = 0 /\ refused = FALSE
    /\ journal = EmptyJournal /\ cell = IdleCell
    /\ held \in HeldAtStart /\ ready = FALSE
    /\ given = [t \in Tag |-> 0] /\ first = [t \in Tag |-> Unnoted]
    /\ recounted = {} /\ lossy = FALSE /\ runs = 0 /\ moves = 0

Command == (\E t \in Tag, c \in Count, clear \in BOOLEAN, force \in Forced :
               Start(t, c, clear, force))
           \/ Gate \/ GateRefuses \/ RecordArmed
Poll == Unavailable \/ AwaitHydration \/ Scan \/ Queue \/ Stage \/ Size \/ Arm
        \/ Armed \/ AwaitCave \/ Complete \/ Verify
End  == TimeOut \/ Interrupt \/ InterruptLate \/ Close \/ Kill
Game == Publish \/ CaveRuns \/ Gain \/ Use

Next == Command \/ Poll \/ End \/ Game

Spec == Init /\ [][Next]_vars

-----------------------------------------------------------------------------
(* Properties.                                                              *)

RunOK ==
    /\ tpc \in {"off", "gate", "record", "poll", "queue", "close"} \cup Staging
    /\ run \in [tag : Tag \cup {NoTag}, count : {"none", "first", "now"}, clear : BOOLEAN]
    /\ tpc # "off" => run.tag \in Tag
    /\ status \in Status \cup {"interrupted"}
    /\ baseline \in Nat /\ polls \in 0 .. MinAbsent + MaxVerify
    /\ tpc # "close" => polls < MinAbsent + MaxVerify
    /\ exists \in BOOLEAN /\ active \in BOOLEAN /\ refused \in BOOLEAN

GameOK ==
    /\ cell \in [request : {"none", "insert", "existing"}, staged : Tag \cup {NoTag},
                 sized : Tag \cup {NoTag}, armed : Tag \cup {NoTag}, done : BOOLEAN]
    /\ held \in [Kind -> Nat] /\ given \in [Tag -> Nat] /\ ready \in BOOLEAN

JournalOK ==
    /\ journal \in [Tag -> Status \cup {"none", "armed", "interrupted"}]
    /\ recounted \subseteq Tag \X {"settled", "open"}
    /\ first \in [Tag -> [noted : BOOLEAN, spoilt : BOOLEAN, count : Nat]]
    /\ lossy \in BOOLEAN /\ runs \in Nat /\ moves \in Nat

TypeOK == RunOK /\ GameOK /\ JournalOK

Recounted(t, outcomes) == \E o \in outcomes : <<t, o>> \in recounted

\* No tag is executed twice, whatever kills, interruptions, time-outs and reruns
\* lie in between (issue 146; cli.py:246-296), unless the journal lost records, the
\* operator ran a tag again with a count read after a run whose outcome the journal
\* calls known, or the player changed the count under a run that was given it.
GivenOnce ==
    \A t \in Tag : given[t] <= 1 \/ lossy \/ Recounted(t, {"settled", "open"})

\* cli.py:272-273: "a grant whose outcome is still undetermined must never be
\* re-issued": a tag is executed twice only if the run before the second one had
\* ended on a status that settles it.
OnlySettledIsReissued ==
    \A t \in Tag : given[t] <= 1 \/ lossy \/ Recounted(t, {"settled"})

\* A request that can still go off in the player's face belongs to a tag whose
\* outcome the journal does not call settled: nobody is told an item is there, or
\* is not, while the cave is still armed for it (cli.py:332, process.py:298).
ArmedIsAccounted ==
    cell.request # "none" => lossy \/ journal[cell.armed] \notin Terminal

\* A tag journaled as completed went through the cave: the done mark that says so
\* (guest.py:203, payload.py:311) is never one left by an earlier request.
CompletedWasGiven == \A t \in Tag : journal[t] = "completed" => given[t] >= 1

\* The cell is idle whenever a run begins to stage a request, so that the answer
\* "no" of an unreadable cell (guest.py:182) is the right one.
CellIsFree == tpc \in {"queue", "stage", "size", "arm"} => cell.request = "none"

\* The cave never executes half a request: descriptor, slot and quantity all come
\* from the run that armed it, whichever run was cut short while staging.
CaveRunsWholeRequest ==
    [][given' # given => cell.staged = cell.armed /\ cell.sized = cell.armed]_vars

\* An exception in the poll loop (issues 144 and 146; delivery.py:195-230,
\* cli.py:319-331), before, between or after the writes that stage the request,
\* leaves no armed request behind, unless the guest refuses the very write that
\* disarms it.  Of one after the loop this does not hold (InterruptLate): what it
\* leaves armed is for the gate of the next run.
LoopDisarms ==
    [][tpc # "close" /\ tpc' = "close" /\ status' = "interrupted"
         => cell'.request = "none" \/ refused']_vars
=============================================================================
