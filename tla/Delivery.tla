------------------------------ MODULE Delivery ------------------------------
(* How what the core knows reaches the window of one user: HarnessServer of  *)
(* core/src/server.ts, HarnessClient of apps/ui/src/lib/client.ts and the    *)
(* part of apps/ui/src/hooks/useHarness.ts that opens threads, shows their   *)
(* transcript, keeps the pinned notes and asks the gate.  One socket carries *)
(* requests up and replies and pushes down, each way in order; it may close  *)
(* at any time and is opened again.                                          *)
EXTENDS Transcript, FiniteSets

CONSTANTS Threads,     \* threads
          Script,      \* thread -> the events that will be logged in it
          Texts,       \* what can be written in the notes
          NoThread,    \* no thread is open
          NoText,      \* the notes of a thread nobody wrote notes for
          Clicks,      \* openings of threads that may be in flight at once
          MaxMoves     \* bound: actions of the user and failures of the socket

\* What is logged anywhere.
Entries == UNION {Range(Script[t]) : t \in Threads}

ASSUME ThreadsAssumption == NoThread \notin Threads
ASSUME ScriptAssumption == Script \in [Threads -> Seq(Entries)]

VARIABLES logged,    \* core: thread -> how much of its script is in its log
          stored,    \* core: the threads that exist
          notes,     \* core: thread -> its pinned notes
          joined,    \* server: the socket is authenticated and gets pushes
          status,    \* client: "closed", "connecting" or "open"
          up,        \* requests on their way
          judging,   \* gate requests the core is evaluating
          outgoing,  \* replies made and not sent yet
          down,      \* replies and pushes on their way
          active,    \* window: the open thread
          shown,     \* window: the events it holds
          behind,    \* window: they were overtaken, see Send
          folder,    \* window: the transcript folder
          pinned,    \* window: the notes editor
          opening,   \* window: each opening's progress
          gate,      \* window: the gate's answer on display
          reading,   \* window: the gate read that is wanted, 0 when none
          reads,     \* window: gate reads so far
          moves

core == <<logged, stored, notes>>
view == <<active, shown, behind, folder>>
panel == <<gate, reading, reads>>
vars == <<core, joined, status, up, judging, outgoing, down, view, pinned, opening, panel, moves>>

NoNotes == [thread |-> NoThread, text |-> NoText, save |-> "saved"]
NoGate == [lane |-> 0, stale |-> TRUE]
NotOpening == [pc |-> "idle"]
\* The client opens the active thread again when it has reconnected.
Openers == Clicks \cup {"resync"}

Log(t) == SubSeq(Script[t], 1, logged[t])
\* The gate judges the lane, which moves with these events.
LaneEvents == {"lane.updated", "turn.failed"}
Lane(events) == Cardinality({i \in DOMAIN events : events[i].kind \in LaneEvents})

Init ==
    /\ logged = [t \in Threads |-> 0] /\ stored = Threads
    /\ notes = [t \in Threads |-> NoText]
    /\ joined = FALSE /\ status = "closed"
    /\ up = <<>> /\ judging = {} /\ outgoing = <<>> /\ down = <<>>
    /\ active = NoThread /\ shown = <<>> /\ behind = FALSE /\ folder = NewFolder
    /\ pinned = NoNotes
    /\ opening = [o \in Openers |-> NotOpening]
    /\ gate = NoGate /\ reading = 0 /\ reads = 0
    /\ moves = 0

-----------------------------------------------------------------------------
(* The core and its server.                                                  *)

\* broadcast reaches a socket once it said hello.
Broadcast(message) == down' = IF joined THEN Append(down, message) ELSE down

LogEvent(t) ==
    /\ t \in stored /\ logged[t] < Len(Script[t])
    /\ logged' = [logged EXCEPT ![t] = @ + 1]
    /\ Broadcast([say |-> "event", thread |-> t, event |-> Script[t][logged[t] + 1]])
    /\ UNCHANGED <<stored, notes, joined, status, up, judging, outgoing, view, pinned, opening, panel, moves>>

\* Somebody deletes a thread.
RemoveThread(t) ==
    /\ t \in stored /\ stored' = stored \ {t}
    /\ Broadcast([say |-> "removed", thread |-> t])
    /\ UNCHANGED <<logged, notes, joined, status, up, judging, outgoing, view, pinned, opening, panel>>

\* #handle of the next request, after the reply to the one before, unless that
\* awaited something.  Notes are written at once, which may fail.
Hello(m) == [say |-> "welcome"]
Opened(m) ==
    IF m.thread \in stored
    THEN [say |-> "opened", by |-> m.by, thread |-> m.thread, events |-> Log(m.thread), overtaken |-> FALSE]
    ELSE [say |-> "refused", by |-> m.by, thread |-> m.thread]
Notes(m) ==
    IF m.thread \in stored
    THEN [say |-> "notes", by |-> m.by, thread |-> m.thread, text |-> notes[m.thread]]
    ELSE [say |-> "refused", by |-> m.by, thread |-> m.thread]

Serve ==
    /\ up # <<>> /\ up' = Tail(up) /\ outgoing = <<>>
    /\ LET m == Head(up)
           Reply(r) == outgoing' = Append(outgoing, r)
       IN  \/ m.ask = "hello" /\ Reply(Hello(m)) /\ UNCHANGED <<judging, notes>>
           \/ m.ask = "open" /\ Reply(Opened(m)) /\ UNCHANGED <<judging, notes>>
           \/ m.ask = "notes" /\ Reply(Notes(m)) /\ UNCHANGED <<judging, notes>>
           \/ /\ m.ask = "set"
              /\ \/ /\ m.thread \in stored /\ notes' = [notes EXCEPT ![m.thread] = m.text]
                    /\ Reply([say |-> "set", by |-> m.by, thread |-> m.thread, text |-> m.text, ok |-> TRUE])
                 \/ /\ UNCHANGED notes
                    /\ Reply([say |-> "set", by |-> m.by, thread |-> m.thread, text |-> m.text, ok |-> FALSE])
              /\ UNCHANGED judging
           \/ m.ask = "gate" /\ judging' = judging \cup {m} /\ UNCHANGED <<outgoing, notes>>
    /\ joined' = (joined \/ Head(up).ask = "hello")
    /\ UNCHANGED <<logged, stored, status, down, view, pinned, opening, panel, moves>>

\* The gate looks at the lane between awaits.
Judge(m) ==
    /\ m \in judging /\ judging' = judging \ {m}
    /\ outgoing' = Append(outgoing, [say |-> "gate", thread |-> m.thread, read |-> m.read,
                                     lane |-> Lane(Log(m.thread)), ok |-> m.thread \in stored])
    /\ UNCHANGED <<core, joined, status, up, down, view, pinned, opening, panel, moves>>

\* A reply is sent in the continuation of its handler: what is pushed between the
\* two overtakes it, and a log read for the reply does not have it.
Send ==
    /\ outgoing # <<>> /\ outgoing' = Tail(outgoing)
    /\ LET r == Head(outgoing)
       IN  down' = Append(down, IF r.say # "opened" THEN r
                                ELSE [r EXCEPT !.overtaken = r.events # Log(r.thread) \/ r.thread \notin stored])
    /\ UNCHANGED <<core, joined, status, up, judging, view, pinned, opening, panel, moves>>

-----------------------------------------------------------------------------
(* The notes editor.                                                         *)

Connected == status # "closed"
Request(m) == up' = IF Connected THEN Append(up, m) ELSE up

Unsaved == pinned.save \in {"unsaved", "failed"}
\* flushPinnedContext up to its request; without a socket it fails at once.
FlushTo(by) ==
    /\ pinned' = [pinned EXCEPT !.save = IF Connected THEN "saving" ELSE "failed"]
    /\ Request([ask |-> "set", by |-> by, thread |-> pinned.thread, text |-> pinned.text])

EditNotes ==
    /\ pinned.thread # NoThread
    /\ \E text \in Texts \ {pinned.text} : pinned' = [pinned EXCEPT !.text = text, !.save = "unsaved"]
    /\ UNCHANGED <<core, joined, status, up, judging, outgoing, down, view, opening, panel>>

\* The write-behind timer.
SaveNotes ==
    /\ pinned.save = "unsaved" /\ FlushTo("timer")
    /\ UNCHANGED <<core, joined, status, judging, outgoing, down, view, opening, panel, moves>>

\* The reply: a failure is shown whatever was typed since, a success only when
\* nothing was.
Flushed(m) ==
    IF pinned.thread # m.thread THEN pinned
    ELSE IF ~m.ok THEN [pinned EXCEPT !.save = "failed"]
    ELSE IF pinned.text = m.text THEN [pinned EXCEPT !.save = "saved"] ELSE pinned

-----------------------------------------------------------------------------
(* The gate panel.                                                           *)

\* readGate: the answer on display is stale until the one asked for is here.
ReadGate(t) ==
    /\ reads' = reads + 1 /\ reading' = reads + 1
    /\ gate' = [gate EXCEPT !.stale = TRUE]

AnyAnswer(m) == m.ok /\ m.thread = active
Wanted(m) == m.read = reading /\ m.ok /\ m.thread = active
GateAnswered(m) ==
    IF Wanted(m) THEN [lane |-> m.lane, stale |-> FALSE]
    ELSE IF m.read = reading THEN [gate EXCEPT !.stale = TRUE] ELSE gate

-----------------------------------------------------------------------------
(* Opening a thread.                                                         *)

Show(t, events) ==
    /\ active' = t /\ shown' = events /\ folder' = FoldOn(folder, events)
Progress(o, with) == opening' = [opening EXCEPT ![o] = with]

AskOpen(o, t) == [ask |-> "open", by |-> o, thread |-> t]

\* openThread: pending notes go out first.
Begin(o, t) ==
    IF Unsaved THEN FlushTo(o) /\ Progress(o, [pc |-> "flushing", thread |-> t])
    ELSE /\ Request(AskOpen(o, t)) /\ Progress(o, [pc |-> "opening", thread |-> t])
         /\ UNCHANGED pinned

\* A person opens a thread.  Without a socket nothing comes of it but a flush
\* that fails.
Click(o, t) ==
    /\ opening[o].pc = "idle" /\ t \in stored /\ Connected
    /\ Begin(o, t)
    /\ UNCHANGED <<core, joined, status, judging, outgoing, down, view, panel>>

Close ==
    /\ Show(NoThread, <<>>) /\ behind' = FALSE /\ pinned' = NoNotes

\* The reply to thread.open: everything on display is the new thread's, but the
\* notes stay where they are when it is the same thread.  A thread with a lane
\* has its gate read.
TakeOpened(m) ==
    /\ Show(m.thread, m.events) /\ behind' = m.overtaken
    /\ pinned' = IF pinned.thread = m.thread THEN pinned ELSE NoNotes
    /\ gate' = NoGate
    /\ Progress(m.by, [pc |-> "notes", thread |-> m.thread])
    /\ LET ask == [ask |-> "notes", by |-> m.by, thread |-> m.thread]
       IN  IF Lane(m.events) = 0
           THEN reading' = 0 /\ reads' = reads /\ up' = Append(up, ask)
           ELSE /\ reading' = reads + 1 /\ reads' = reads + 1
                /\ up' = up \o <<[ask |-> "gate", thread |-> m.thread, read |-> reads + 1], ask>>

\* The text of the core is adopted unless the editor has something of its own.
AdoptAlways(m) == [thread |-> m.thread, text |-> m.text, save |-> "saved"]
Adopt(m) ==
    IF pinned.thread = m.thread /\ pinned.save # "saved" THEN pinned
    ELSE [thread |-> m.thread, text |-> m.text, save |-> "saved"]

\* A failed resync closes what is open, whatever that is by now.
TakeRefused(m) ==
    /\ Progress(m.by, NotOpening)
    /\ IF m.by = "resync" /\ opening[m.by].pc = "opening"
       THEN Close ELSE UNCHANGED <<view, pinned>>

-----------------------------------------------------------------------------
(* The socket.                                                               *)

Connect ==
    /\ status = "closed" /\ status' = "connecting"
    /\ up' = <<[ask |-> "hello"]>>
    /\ UNCHANGED <<core, joined, judging, outgoing, down, view, pinned, opening, panel, moves>>

\* hello was answered: the client resyncs.
TakeWelcome ==
    /\ status' = "open"
    /\ IF active = NoThread THEN UNCHANGED <<up, pinned, opening>> ELSE Begin("resync", active)
    /\ UNCHANGED <<view, panel>>

\* Everything on its way is lost and every pending request fails: the flush of
\* the notes, and the openings; a resync that was asking for its thread closes it.
Lose ==
    /\ Connected /\ status' = "closed" /\ joined' = FALSE
    /\ up' = <<>> /\ judging' = {} /\ outgoing' = <<>> /\ down' = <<>>
    /\ opening' = [o \in Openers |-> NotOpening]
    /\ IF opening["resync"].pc \in {"flushing", "opening"}
       THEN Close
       ELSE /\ pinned' = IF pinned.save = "saving" THEN [pinned EXCEPT !.save = "failed"] ELSE pinned
            /\ UNCHANGED view
    /\ reading' = 0 /\ gate' = [gate EXCEPT !.stale = TRUE]
    /\ UNCHANGED <<core, reads>>

-----------------------------------------------------------------------------
(* The window takes the next message.                                        *)

TakeEvent(m) ==
    /\ IF m.thread = active
       THEN /\ shown' = Append(shown, m.event) /\ folder' = FoldOn(folder, Append(shown, m.event))
            /\ IF m.event.kind \in LaneEvents
               THEN ReadGate(active) /\ Request([ask |-> "gate", thread |-> active, read |-> reads + 1])
               ELSE UNCHANGED <<panel, up>>
       ELSE UNCHANGED <<shown, folder, panel, up>>
    /\ UNCHANGED <<active, behind, pinned, opening, status>>

TakeRemoved(m) ==
    /\ IF m.thread = active THEN Close ELSE UNCHANGED <<view, pinned>>
    /\ gate' = IF m.thread = active THEN NoGate ELSE gate
    /\ UNCHANGED <<opening, reading, reads, up, status>>

\* After the notes were flushed, or could not be, the thread is asked for.
TakeSet(m) ==
    /\ pinned' = Flushed(m)
    /\ IF m.by = "timer" THEN UNCHANGED <<up, opening>>
       ELSE /\ Request(AskOpen(m.by, opening[m.by].thread))
            /\ Progress(m.by, [opening[m.by] EXCEPT !.pc = "opening"])
    /\ UNCHANGED <<view, panel, status>>

TakeNotes(m) ==
    /\ pinned' = IF m.thread = active THEN Adopt(m) ELSE pinned
    /\ Progress(m.by, NotOpening)
    /\ UNCHANGED <<view, panel, up, status>>

Receive ==
    /\ down # <<>> /\ down' = Tail(down)
    /\ LET m == Head(down)
       IN  \/ m.say = "welcome" /\ TakeWelcome
           \/ m.say = "event" /\ TakeEvent(m)
           \/ m.say = "removed" /\ TakeRemoved(m)
           \/ m.say = "opened" /\ TakeOpened(m) /\ UNCHANGED status
           \/ m.say = "refused" /\ TakeRefused(m) /\ UNCHANGED <<panel, up, status>>
           \/ m.say = "set" /\ TakeSet(m)
           \/ m.say = "notes" /\ TakeNotes(m)
           \/ m.say = "gate" /\ gate' = GateAnswered(m)
              /\ UNCHANGED <<view, pinned, opening, reading, reads, up, status>>
    /\ UNCHANGED <<core, joined, judging, outgoing, moves>>

-----------------------------------------------------------------------------
(* The specification.                                                        *)

Move ==
    /\ moves < MaxMoves /\ moves' = moves + 1
    /\ \/ EditNotes \/ Lose
       \/ \E t \in Threads : RemoveThread(t)
       \/ \E o \in Clicks, t \in Threads : Click(o, t)

Next ==
    \/ Move \/ Connect \/ Serve \/ Send \/ Receive \/ SaveNotes
    \/ \E t \in Threads : LogEvent(t)
    \/ \E m \in judging : Judge(m)

Spec == Init /\ [][Next]_vars

-----------------------------------------------------------------------------
(* Properties.                                                               *)

\* Nothing is on its way and the connection is up.
Quiet ==
    /\ status = "open" /\ up = <<>> /\ outgoing = <<>> /\ down = <<>>
    /\ \A o \in Openers : opening[o].pc \notin {"flushing", "opening"}

\* When nothing is on its way, the transcript is what folding the thread's whole
\* log gives, whatever was missed, repeated or switched away from before; and
\* once the open thread is deleted the window has closed it.  An opening whose
\* reply was overtaken is left out (see Send).
TranscriptIsLog ==
    Quiet /\ active # NoThread /\ ~behind =>
        active \in stored /\ folder.state = Fold(Log(active))

\* The gate's answer on display is of no earlier lane than the transcript shows,
\* unless it is marked stale: integration is offered on that answer (readGate).
GateNotBehind == ~gate.stale => gate.lane >= Lane(shown)

\* Notes the core does not have are never replaced in the editor by anything but
\* typing as long as their thread stays open: not by a resync, not by a reply
\* that was under way while they were typed (openThread).
NotesStay ==
    [][pinned.save # "saved" /\ active' = active =>
          pinned'.thread = pinned.thread /\ (moves' = moves => pinned'.text = pinned.text)]_vars
=============================================================================
