-------------------------------- MODULE History --------------------------------
(***************************************************************************)
(* What a thread derives from its log, and what goes on beside it: which    *)
(* events each native session has been shown (Replay), which documents were *)
(* announced (Artifacts), and what became of runs and notes (Runs).  They   *)
(* meet in the log and at a restart only, so that they are run one at a     *)
(* time: the others stand still.                                            *)
(***************************************************************************)
EXTENDS Replay

CONSTANTS
    Shared, Lanes, Names, Contents, MaxChanges, MaxFaults, MaxBoots,
    Threads, Places, Reasons, Issue, NoItem, Texts, MaxTurns, MaxNotes, MaxActs, MaxLosses

ASSUME HistoryAssumption ==
    /\ Shared \notin Lanes
    /\ Places \subseteq Threads \X Agents
    /\ Issue # NoItem
    /\ {MaxChanges, MaxFaults, MaxBoots, MaxTurns, MaxNotes, MaxActs, MaxLosses} \subseteq Nat

VARIABLES
    subject,   \* which of the three is looked at
    \* Artifacts
    depth, file, lane, watched, watching, alive, notified, armed, known, sweep, misread,
    events, touched, changes, faults, boots,
    \* Runs
    records, order, link, turn, started, notes, truth, word, acts, losses

documents == <<depth, file, lane, watched, watching, alive, notified, armed, known, sweep,
               misread, events, touched, changes, faults, boots>>
work      == <<records, order, link, turn, started, notes, truth, word, acts, losses>>
History   == <<subject, vars, documents, work>>

Watchers == INSTANCE Artifacts WITH log <- events
Ledger   == INSTANCE Runs WITH turns <- started

HistoryInit ==
    /\ Init /\ Watchers!Init /\ Ledger!Init
    /\ subject \in {"sessions", "documents", "work"}
    /\ subject # "documents" => depth[Shared] = Watchers!Dir

SessionStep  == subject = "sessions" /\ Next /\ UNCHANGED <<subject, documents, work>>
DocumentStep == subject = "documents" /\ Watchers!Next /\ UNCHANGED <<subject, vars, work>>
WorkStep     == subject = "work" /\ Ledger!Next /\ UNCHANGED <<subject, vars, documents>>

\* The event loop of the core goes on; nothing is assumed of agents and people.
Loop(c) == subject = "documents" /\ Watchers!Loop(c) /\ UNCHANGED <<subject, vars, work>>

HistorySpec ==
    /\ HistoryInit /\ [][SessionStep \/ DocumentStep \/ WorkStep]_History
    /\ \A c \in Watchers!Copies : WF_History(Loop(c))

-----------------------------------------------------------------------------
\* What a session has of the log: it lacks only what four known causes leave out,
\* of others' events and of its own, a replay block repeats nothing it has, and
\* a session rebuilt after a stale resume has all of it (see Replay).
ReplayIsExact == OnlyKnownGaps /\ NoDuplicateReplay /\ RebuiltIsComplete

\* The log catches up with the files of every directory that is listened to:
\* no notification, refused append or failed attach is lost on the way
\* (artifact-watcher.ts #schedule, #sweep).
LogCatchesUp == \A c \in Watchers!Copies : []<>Watchers!UpToDate(c)

\* No event of a document says again what the last one said, and a document is
\* retired only while its file is gone or empty, unless it was written in the
\* middle of the sweep (artifact-watcher.ts:130: "the log cannot take that back").
EventsAreNews == [][Watchers!NoEcho /\ Watchers!OnlyGoneIsRetired]_events

\* What a run is said to be is what became of it, however the turns of several
\* agents and a restart come in between (runs.ts, #closeRun).
RunsAreTrue == Ledger!RunsAreTrue

\* What the person last said of a note stands, and a note is kept once
\* (#ingestRetained, amendRetained, foldRetained).
DecisionsStand == Ledger!DecisionsStand
===============================================================================
