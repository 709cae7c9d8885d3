------------------------------- MODULE Artifacts -------------------------------
(***************************************************************************)
(* Documents: agents publish by writing a file into .awos/artifacts of a    *)
(* working copy, and a watcher per copy turns what it finds there into      *)
(* artifact.updated events of the thread's log.  A notification only arms a *)
(* timer; when it fires, the whole directory is read again.  The sweep is   *)
(* synchronous, so no other callback runs inside it, but agents, editors and*)
(* git go on writing: its looking, attaching, listing and reading are steps *)
(* of their own.                                                            *)
(*                                                                          *)
(* Of the log there is, for each document, the sequence of its events.  The *)
(* file system (directories made and removed, a watch that dies with its    *)
(* directory) is external: as the code's comments and error paths take it.  *)
(***************************************************************************)
EXTENDS Naturals, Sequences, FiniteSets

CONSTANTS
    Shared,      \* the thread's own directory
    Lanes,       \* workers that may get a lane
    Names,       \* file names that are artifact candidates
    Contents,    \* contents of non-empty files
    MaxChanges,  \* bound: changes of the file system
    MaxFaults,   \* bound: refused appends, failed attaches, listings and reads
    MaxBoots     \* bound: restarts of the core

VARIABLES
    depth,     \* of each copy, what exists: 1 the copy, 2 .awos, 3 artifacts
    file,      \* the files in the artifacts directory
    lane,      \* "none"; "up"; "left" by an earlier process
    watched,   \* copies with an entry in #watchers
    watching,  \* #watching as a rung of the ladder, 0: null
    alive,     \* the handle is on the directory that is there now
    notified,  \* a notification is on its way
    armed,     \* #timer
    known,     \* #known, by the document its key names
    sweep,     \* the sweep that is running
    misread,   \* copies whose last sweep could not list or read everything
    log,       \* the events of each document
    touched,   \* history: documents written since the last listing
    changes, faults, boots

disk    == <<depth, file, lane>>
handles == <<watching, alive, notified>>
vars    == <<disk, watched, handles, armed, known, sweep, misread, log, touched,
             changes, faults, boots>>

Copies == {Shared} \cup Lanes

\* A lane's documents carry its agent in the id.
Documents == Copies \X Names

\* No file, no hash, no event; in an event: the tombstone.
Nothing == ""
Empty   == "empty"
NoSweep == [step |-> "none"]

\* The ladder's rungs.
Copy == 1
Dir  == 3

\* The newest event of a document, a tombstone retiring it.
Announced(d) == IF log[d] = <<>> THEN Nothing ELSE log[d][Len(log[d])]

TypeOK ==
    /\ depth \in [Copies -> 0..Dir]
    /\ file \in [Documents -> Contents \cup {Nothing, Empty}]
    /\ lane \in [Lanes -> {"none", "up", "left"}]
    /\ watched \subseteq Copies
    /\ watching \in [Copies -> 0..Dir]
    /\ alive \in [Copies -> BOOLEAN] /\ notified \in [Copies -> BOOLEAN]
    /\ armed \in [Copies -> BOOLEAN]
    /\ known \in [Copies -> [Documents -> Contents \cup {Nothing}]]
    /\ misread \subseteq Copies
    /\ log \in [Documents -> Seq(Contents \cup {Nothing})]
    /\ touched \subseteq Documents

\* The thread is opened over whatever lies in its directory.
Init ==
    /\ \E here \in Copy..Dir : depth = [c \in Copies |-> IF c = Shared THEN here ELSE 0]
    /\ file = [d \in Documents |-> Nothing]
    /\ lane = [l \in Lanes |-> "none"]
    /\ watched = {Shared}
    /\ watching = [c \in Copies |-> 0]
    /\ alive = [c \in Copies |-> FALSE]
    /\ notified = [c \in Copies |-> FALSE]
    /\ armed = [c \in Copies |-> c = Shared]
    /\ known = [c \in Copies |-> [d \in Documents |-> Nothing]]
    /\ sweep = NoSweep
    /\ misread = {}
    /\ log = [d \in Documents |-> <<>>]
    /\ touched = {}
    /\ changes = 0 /\ faults = 0 /\ boots = 0

-----------------------------------------------------------------------------
(* The file system. *)

Changed == changes < MaxChanges /\ changes' = changes + 1

\* The handle on the rung reports a change right below it, or its own end.
Reports(c, rung) == watching[c] = rung /\ alive[c]

\* A file is written, emptied or removed.
Write(d) ==
    /\ Changed
    /\ depth[d[1]] = Dir
    /\ \E now \in Contents \cup {Nothing, Empty} :
          now # file[d] /\ file' = [file EXCEPT ![d] = now]
    /\ touched' = touched \cup {d}
    /\ notified' = [notified EXCEPT ![d[1]] = @ \/ Reports(d[1], Dir)]
    /\ UNCHANGED <<depth, lane, watched, watching, alive, armed, known, sweep, misread, log, faults, boots>>

\* mkdir -p of the artifacts directory.
Make(c) ==
    /\ Changed
    /\ depth[c] \in Copy..Dir - 1
    /\ depth' = [depth EXCEPT ![c] = Dir]
    /\ notified' = [notified EXCEPT ![c] = @ \/ Reports(c, depth[c])]
    /\ UNCHANGED <<file, lane, watched, watching, alive, armed, known, sweep, misread, log, touched, faults, boots>>

\* Everything of the copy above the rung goes, handles and files with it.
Removed(c, rung) ==
    /\ depth' = [depth EXCEPT ![c] = rung]
    /\ file' = [d \in Documents |-> IF d[1] = c THEN Nothing ELSE file[d]]
    /\ notified' = [notified EXCEPT ![c] = @ \/ (alive[c] /\ watching[c] >= rung)]
    /\ alive' = [alive EXCEPT ![c] = @ /\ watching[c] <= rung]

Remove(c) ==
    /\ Changed
    /\ \E rung \in Copy..Dir - 1 : rung < depth[c] /\ Removed(c, rung)
    /\ UNCHANGED <<lane, watched, watching, armed, known, sweep, misread, log, touched, faults, boots>>

-----------------------------------------------------------------------------
(* The watcher. *)

\* #schedule: one timer at a time, which every later request shares.
Notified(c) ==
    /\ sweep = NoSweep
    /\ notified[c]
    /\ notified' = [notified EXCEPT ![c] = FALSE]
    /\ armed' = [armed EXCEPT ![c] = TRUE]
    /\ UNCHANGED <<disk, watched, watching, alive, known, sweep, misread, log, touched, changes, faults, boots>>

\* After #attach: only a watched artifacts directory is read.
Attached(c, rung) == sweep' = IF rung = Dir THEN [step |-> "list", copy |-> c] ELSE NoSweep

\* The timer fires; #attach looks for the nearest directory there is.
Fire(c) ==
    /\ sweep = NoSweep
    /\ armed[c]
    /\ armed' = [armed EXCEPT ![c] = FALSE]
    /\ IF depth[c] \in {0, watching[c]}
       THEN Attached(c, watching[c])
       ELSE sweep' = [step |-> "attach", copy |-> c, target |-> depth[c]]
    /\ UNCHANGED <<disk, watched, handles, known, misread, log, touched, changes, faults, boots>>

Fault == faults < MaxFaults /\ faults' = faults + 1

\* fs.watch on what was found, or a retry when it is gone or refused.
Attach(c) ==
    /\ sweep.step = "attach" /\ sweep.copy = c
    /\ notified' = [notified EXCEPT ![c] = FALSE]
    /\ \/ /\ depth[c] >= sweep.target
          /\ watching' = [watching EXCEPT ![c] = sweep.target]
          /\ alive' = [alive EXCEPT ![c] = TRUE]
          /\ Attached(c, sweep.target)
          /\ UNCHANGED <<armed, faults>>
       \/ /\ IF depth[c] < sweep.target THEN UNCHANGED faults ELSE Fault
          /\ watching' = [watching EXCEPT ![c] = 0]
          /\ alive' = [alive EXCEPT ![c] = FALSE]
          /\ armed' = [armed EXCEPT ![c] = TRUE]
          /\ sweep' = NoSweep
    /\ UNCHANGED <<disk, watched, known, misread, log, touched, changes, boots>>

Here(c) == {d \in Documents : d[1] = c /\ file[d] # Nothing}

\* Mutant: a directory that could not be listed has nothing in it.
ListOrNothing(c) ==
    /\ sweep.step = "list" /\ sweep.copy = c
    /\ touched' = {}
    /\ \/ sweep' = [step |-> "publish", copy |-> c, present |-> Here(c)] /\ UNCHANGED faults
       \/ Fault /\ sweep' = [step |-> "publish", copy |-> c, present |-> {}]
    /\ UNCHANGED <<disk, watched, handles, armed, known, misread, log, changes, boots>>

\* listArtifactFiles: no directory is no artifacts; any other failure is
\* no answer, and the sweep ends.
List(c) ==
    /\ sweep.step = "list" /\ sweep.copy = c
    /\ touched' = {}
    /\ \/ /\ sweep' = [step |-> "publish", copy |-> c, present |-> Here(c)]
          /\ UNCHANGED <<misread, faults>>
       \/ /\ Fault
          /\ sweep' = NoSweep
          /\ misread' = misread \cup {c}
    /\ UNCHANGED <<disk, watched, handles, armed, known, log, changes, boots>>

\* readArtifact: the listed files that can be read and are still there.
Readable(unread) == {d \in sweep.present \ unread : file[d] # Nothing}

\* What a sweep owes the log: for each document its new content, Nothing for
\* one that is not among the files listed, or is empty now.
Owed(c, unread) ==
    LET read  == Readable(unread)
        gone  == {d \in Documents : known[c][d] # Nothing /\
                    (d \notin sweep.present \/ (d \in read /\ file[d] = Empty))}
        fresh == {d \in read : file[d] # Empty /\ file[d] # known[c][d]}
    IN [d \in gone \cup fresh |-> IF d \in gone THEN Nothing ELSE file[d]]

\* Mutant: known before it is out.
RecordedFirst(c, owed, refused) ==
    [known EXCEPT ![c] = [d \in Documents |-> IF d \in DOMAIN owed THEN owed[d] ELSE @[d]]]

\* Known only once the event is out.
Recorded(c, owed, refused) ==
    [known EXCEPT ![c] = [d \in Documents |->
        IF d \in DOMAIN owed \ refused THEN owed[d] ELSE @[d]]]

\* Every file is read and what is new is offered to the store, which may
\* refuse; the sweep then comes back for what it could not deliver.
Publish(c) ==
    /\ sweep.step = "publish" /\ sweep.copy = c
    /\ \E unread \in SUBSET sweep.present :
       LET owed == Owed(c, unread) IN
       \E refused \in SUBSET DOMAIN owed :
          /\ IF unread = {} /\ refused = {} THEN UNCHANGED faults ELSE Fault
          /\ log' = [d \in Documents |->
                        IF d \in DOMAIN owed \ refused THEN Append(log[d], owed[d]) ELSE log[d]]
          /\ known' = Recorded(c, owed, refused)
          /\ armed' = [armed EXCEPT ![c] = @ \/ refused # {}]
          /\ misread' = IF unread = {} THEN misread \ {c} ELSE misread \cup {c}
    /\ sweep' = NoSweep
    /\ UNCHANGED <<disk, watched, handles, touched, changes, boots>>

-----------------------------------------------------------------------------
(* The thread. *)

\* A watcher at its start: nothing attached, its first sweep due.
Started(c, knowing) ==
    /\ watched' = watched \cup {c}
    /\ watching' = [watching EXCEPT ![c] = 0]
    /\ alive' = [alive EXCEPT ![c] = FALSE]
    /\ notified' = [notified EXCEPT ![c] = FALSE]
    /\ armed' = [armed EXCEPT ![c] = TRUE]
    /\ known' = [known EXCEPT ![c] = knowing]

\* #lane gives the worker a copy, and #watch watches it, unless the path is
\* watched already: nothing stops the watcher of a lane that is dropped.
Provision(l) ==
    /\ Changed
    /\ sweep = NoSweep
    /\ lane[l] = "none"
    /\ lane' = [lane EXCEPT ![l] = "up"]
    /\ depth' = [depth EXCEPT ![l] = Copy]
    /\ IF l \in watched THEN UNCHANGED <<watched, handles, armed, known>>
                        ELSE Started(l, [d \in Documents |-> Nothing])
    /\ UNCHANGED <<file, sweep, misread, log, touched, faults, boots>>

\* #dropLanes, or the sweep of the lanes an earlier process left.
Drop(l) ==
    /\ Changed
    /\ lane[l] # "none"
    /\ lane' = [lane EXCEPT ![l] = "none"]
    /\ Removed(l, 0)
    /\ UNCHANGED <<watched, watching, armed, known, sweep, misread, log, touched, faults, boots>>

\* Mutant: a tombstone leaves the document's last content behind.
PublishedArtifactsEver ==
    [d \in Documents |->
        IF \E i \in DOMAIN log[d] : log[d][i] # Nothing
        THEN log[d][CHOOSE i \in DOMAIN log[d] :
                       log[d][i] # Nothing /\ \A j \in i + 1 .. Len(log[d]) : log[d][j] = Nothing]
        ELSE Nothing]

\* What the log says is published, the lanes' documents too.
PublishedArtifacts == [d \in Documents |-> Announced(d)]

\* The core is restarted at any moment, and the thread opened again.
Restart ==
    /\ boots < MaxBoots /\ boots' = boots + 1
    /\ lane' = [l \in Lanes |-> IF lane[l] = "none" THEN "none" ELSE "left"]
    /\ watched' = {Shared}
    /\ watching' = [c \in Copies |-> 0]
    /\ alive' = [c \in Copies |-> FALSE]
    /\ notified' = [c \in Copies |-> FALSE]
    /\ armed' = [c \in Copies |-> c = Shared]
    /\ known' = [c \in Copies |->
                    IF c = Shared THEN PublishedArtifacts ELSE [d \in Documents |-> Nothing]]
    /\ sweep' = NoSweep
    /\ misread' = {}
    /\ UNCHANGED <<depth, file, log, touched, changes, faults>>

Outside == \/ \E d \in Documents : Write(d)
           \/ \E c \in Copies : Make(c) \/ Remove(c)
           \/ \E l \in Lanes : Provision(l) \/ Drop(l)
           \/ Restart

\* The event loop: notifications are delivered, timers fire, a sweep runs on.
Loop(c) == Notified(c) \/ Fire(c) \/ Attach(c) \/ List(c) \/ Publish(c)

Next == Outside \/ \E c \in Copies : Loop(c)

-----------------------------------------------------------------------------
(* Properties. *)

\* The watcher is on the artifacts directory that is there, and its last sweep
\* could read it.  Otherwise nothing wakes it up: a directory that was removed
\* and made again before the sweep, one made between the look and the attach,
\* a lane given a second time, a listing that failed are all silent.
Listening(c) == watching[c] = Dir /\ alive[c] /\ c \notin misread

OnDisk(d) == IF file[d] = Empty THEN Nothing ELSE file[d]

\* Whose word on the document counts: a copy's own watcher, but after a restart
\* the thread's own watcher holds the lanes' documents for its own.
OwnWord(d) == d[1] = Shared \/ boots = 0

\* What the log says of a directory that is listened to is what is in it.
UpToDate(c) ==
    Listening(c) => \A d \in Documents : d[1] = c /\ OwnWord(d) => Announced(d) = OnDisk(d)

Event(d) == log'[d] # log[d]

\* No event says again what the last one of its document said: not after a
\* notification for an unchanged file, not after a refused append, not after a
\* restart, not for a document that was retired.
NoEcho == \A d \in Documents : Event(d) /\ OwnWord(d) => log'[d][Len(log'[d])] # Announced(d)

\* A document is retired only while its file is gone or empty, unless it was
\* written in the middle of the sweep: never on a failed listing or read.
OnlyGoneIsRetired ==
    \A d \in Documents :
       Event(d) /\ OwnWord(d) /\ log'[d][Len(log'[d])] = Nothing =>
          OnDisk(d) = Nothing \/ d \in touched
===============================================================================
