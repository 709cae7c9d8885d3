---------------------------------- MODULE Runs ----------------------------------
(***************************************************************************)
(* Runs and what they leave behind.  A turn that is started as work is a    *)
(* run: its start is recorded before the dispatch and its end when the turn *)
(* is over, read back from the log.  At the end of any turn of a thread that*)
(* answers an issue, the notes the agent wrote to .awos/retained.jsonl are  *)
(* taken into the log; the person takes notes of their own and says which   *)
(* are carried into later prompts.  An issue may be worked on in several    *)
(* threads, and what is kept is folded over the logs of all of them, one    *)
(* after the other, in the order the store has them in memory.              *)
(*                                                                          *)
(* The logs hold only what these folds look at.  What the agent's file holds*)
(* is chosen when it is read; every agent of a thread may have a turn.      *)
(***************************************************************************)
EXTENDS Naturals, Sequences, FiniteSets, SequencesExt

CONSTANTS
    Threads, Agents,
    Places,      \* bound: the agents that have turns, with their threads
    Reasons,     \* bound: how an agent may say a turn ended
    Issue,       \* a work item
    NoItem,
    Texts,       \* what can be noted
    MaxTurns,    \* bound: turns
    MaxNotes,    \* bound: notes
    MaxActs,     \* bound: what the person does
    MaxLosses    \* bound: restarts and refused appends

VARIABLES
    records,   \* the events of each thread
    order,     \* the order of the threads in the store's memory
    link,      \* the work item of each thread
    turn,      \* the turn each agent has in each thread
    turns,     \* turns so far, which also number the runs
    notes,     \* notes so far
    truth,     \* history: how each run ended
    word,      \* history: what was last said of each note, and where
    acts, losses

vars == <<records, order, link, turn, turns, notes, truth, word, acts, losses>>

NoTurn == [run |-> 0]

\* An act of the person.
Acts == acts < MaxActs /\ acts' = acts + 1

Init ==
    /\ records = [t \in Threads |-> <<>>]
    /\ order = SetToSeq(Threads)
    /\ link = [t \in Threads |-> Issue]
    /\ turn = [t \in Threads |-> [a \in Agents |-> NoTurn]]
    /\ turns = 0 /\ notes = 0
    /\ truth = <<>> /\ word = <<>>
    /\ acts = 0 /\ losses = 0

-----------------------------------------------------------------------------
(* The folds. *)

\* allEvents: a concatenation in the order of the threads.
AllEvents == FlattenSeq([i \in DOMAIN order |-> records[order[i]]])

\* foldRetained: each note at its last version.
Retained(item) ==
    LET all == SelectSeq(AllEvents, LAMBDA e : e.k = "note" /\ e.item = item)
    IN  {all[i] : i \in {j \in DOMAIN all : \A l \in j + 1 .. Len(all) : all[l].id # all[j].id}}

\* What the next prompt is given.
SelectedForContext(kept) == {n \in kept : n.selected /\ ~n.retired}

\* projectRunEvidence: a run with no end on record is running while its turn is
\* in memory; otherwise the process that had it is gone.
RunState(t, run) ==
    LET ended == SelectSeq(records[t], LAMBDA e : e.k = "run.completed" /\ e.run = run)
        live  == \E a \in Agents : turn[t][a] # NoTurn /\ turn[t][a].asRun /\ turn[t][a].run = run
    IN  IF ended # <<>> THEN ended[Len(ended)].state
        ELSE IF live THEN "running" ELSE "interrupted by restart"

-----------------------------------------------------------------------------
(* Turns. *)

\* send: the work item and the head of the log are taken when the run starts.
Send(t, a) ==
    /\ turns < MaxTurns
    /\ turn[t][a] = NoTurn
    /\ \E work \in BOOLEAN :
         LET asRun == work /\ link[t] # NoItem IN
         /\ turn' = [turn EXCEPT ![t][a] = [run |-> turns + 1, asRun |-> asRun, item |-> link[t],
                                            from |-> Len(records[t]), said |-> "nothing"]]
         /\ records' = IF asRun
                       THEN [records EXCEPT ![t] = Append(@, [k |-> "run.started", run |-> turns + 1])]
                       ELSE records
    /\ turns' = turns + 1
    /\ truth' = Append(truth, "running")
    /\ UNCHANGED <<order, link, notes, word, acts, losses>>

\* The agent says how its turn ended: once, or never.
Report(t, a) ==
    /\ turn[t][a] # NoTurn /\ turn[t][a].said = "nothing"
    /\ \E reason \in Reasons :
         /\ turn' = [turn EXCEPT ![t][a].said = reason]
         /\ records' = [records EXCEPT ![t] =
                           Append(@, [k |-> "turn.completed", agent |-> a, reason |-> reason])]
    /\ UNCHANGED <<order, link, turns, notes, truth, word, acts, losses>>

StateOf(reason) ==
    CASE reason \in {"completed", "nothing"} -> "completed"
      [] reason = "interrupted" -> "interrupted"
      [] OTHER -> "error"

\* Mutant: whoever's turn it was.
CloseRunOfAnyone(t, a, failed) ==
    LET since == SubSeq(records[t], turn[t][a].from + 1, Len(records[t]))
        ends  == SelectSeq(since, LAMBDA e : e.k = "turn.completed")
    IN  IF failed THEN "error" ELSE StateOf(IF ends = <<>> THEN "nothing" ELSE ends[Len(ends)].reason)

\* #closeRun: the agent's last word since the run began, or that the dispatch
\* failed; an agent that stopped early has not finished.
CloseRun(t, a, failed) ==
    LET since == SubSeq(records[t], turn[t][a].from + 1, Len(records[t]))
        ends  == SelectSeq(since, LAMBDA e : e.k = "turn.completed" /\ e.agent = a)
    IN  IF failed THEN "error" ELSE StateOf(IF ends = <<>> THEN "nothing" ELSE ends[Len(ends)].reason)

Note(id, item, text, by) ==
    [k |-> "note", id |-> id, item |-> item, text |-> text, by |-> by,
     selected |-> TRUE, retired |-> FALSE]

\* Mutant: only what is still carried is known.
NewOfStanding(item, wrote) == wrote \ {n.text : n \in SelectedForContext(Retained(item))}

\* #ingestRetained: what the work item has, in whatever state, is not taken again.
NewNotes(item, wrote) == wrote \ {n.text : n \in Retained(item)}

\* The notes and the end of the run, as they go into the log.
Closing(t, a, wrote, failed) ==
    LET mine  == turn[t][a]
        fresh == IF mine.item = NoItem THEN <<>> ELSE SetToSeq(NewNotes(mine.item, wrote))
    IN  [i \in DOMAIN fresh |-> Note(notes + i, mine.item, fresh[i], "agent")]
        \o IF mine.asRun THEN <<[k |-> "run.completed", run |-> mine.run,
                                 state |-> CloseRun(t, a, failed)]>>
                         ELSE <<>>

\* The end of send, one step: should the store refuse an append, what comes
\* after it is not recorded, and the turn is over all the same.
End(t, a) ==
    /\ turn[t][a] # NoTurn
    /\ \E wrote \in SUBSET Texts, failed \in BOOLEAN :
         LET closing == Closing(t, a, wrote, failed)
             fresh(n) == {i \in 1..n : closing[i].k = "note"} IN
         \E n \in 0..Len(closing) :
            /\ n < Len(closing) => losses < MaxLosses
            /\ losses' = IF n < Len(closing) THEN losses + 1 ELSE losses
            /\ notes + Cardinality(fresh(n)) <= MaxNotes
            /\ notes' = notes + Cardinality(fresh(n))
            /\ records' = [records EXCEPT ![t] = @ \o SubSeq(closing, 1, n)]
            /\ word' = word \o [i \in fresh(n) |-> [at |-> t, home |-> t, selected |-> TRUE, retired |-> FALSE]]
            /\ truth' = [truth EXCEPT ![turn[t][a].run] =
                            IF n < Len(closing) THEN "lost"
                            ELSE IF failed THEN "error" ELSE StateOf(turn[t][a].said)]
    /\ turn' = [turn EXCEPT ![t][a] = NoTurn]
    /\ UNCHANGED <<order, link, turns, acts>>

-----------------------------------------------------------------------------
(* The person. *)

\* retainContext.
RetainContext(t) ==
    /\ Acts
    /\ notes < MaxNotes
    /\ link[t] # NoItem
    /\ \E text \in Texts :
          records' = [records EXCEPT ![t] = Append(@, Note(notes + 1, link[t], text, "user"))]
    /\ notes' = notes + 1
    /\ word' = Append(word, [at |-> t, home |-> t, selected |-> TRUE, retired |-> FALSE])
    /\ UNCHANGED <<order, link, turn, turns, truth, losses>>

\* amendRetained: a new version, composed from the current one, in the log of
\* the thread the person is looking at.
AmendRetained(t) ==
    /\ Acts
    /\ \E n \in Retained(link[t]), selected, retired \in BOOLEAN :
         /\ selected = n.selected \/ retired = n.retired
         /\ records' = [records EXCEPT ![t] =
                Append(@, [n EXCEPT !.selected = selected, !.retired = retired])]
         /\ word' = [word EXCEPT ![n.id] =
                [at |-> IF @.at = t THEN t ELSE "elsewhere", home |-> @.home,
                 selected |-> selected, retired |-> retired]]
    /\ UNCHANGED <<order, link, turn, turns, notes, truth, losses>>

\* The thread is attached to the issue, or detached from it.
Relink(t) ==
    /\ Acts
    /\ link' = [link EXCEPT ![t] = IF @ = Issue THEN NoItem ELSE Issue]
    /\ UNCHANGED <<records, order, turn, turns, notes, truth, word, losses>>

\* The core is started again, and reads the threads in another order.
Restart ==
    /\ losses < MaxLosses /\ losses' = losses + 1
    /\ order' \in SetToSeqs(Threads)
    /\ turn' = [t \in Threads |-> [a \in Agents |-> NoTurn]]
    /\ truth' = [run \in DOMAIN truth |-> IF truth[run] = "running" THEN "lost" ELSE truth[run]]
    /\ UNCHANGED <<records, link, turns, notes, word, acts>>

Next ==
    \/ \E p \in Places : Send(p[1], p[2]) \/ Report(p[1], p[2]) \/ End(p[1], p[2])
    \/ \E t \in Threads : RetainContext(t) \/ AmendRetained(t) \/ Relink(t)
    \/ Restart

-----------------------------------------------------------------------------
(* Properties. *)

RunsOf(t) == {records[t][i].run : i \in {j \in DOMAIN records[t] : records[t][j].k = "run.started"}}

\* What a run is said to be is what became of it: its own agent's last word,
\* whatever the other agents of the thread said meanwhile, and a restart for
\* one that nobody could record the end of (runs.ts: "the honest derived state").
RunsAreTrue ==
    \A t \in Threads : \A run \in RunsOf(t) :
       RunState(t, run) = IF truth[run] = "lost" THEN "interrupted by restart" ELSE truth[run]

\* What the person last said of a note stands: it is the version that is kept,
\* after restarts and in every thread, and the agent's file, which is read again
\* at the end of each turn, does not bring it back under a new name.  A note
\* amended in another thread than its own is left out: the fold may find the
\* older version last.
DecisionsStand ==
    /\ \A n \in Retained(Issue) : word[n.id].at = word[n.id].home =>
          n.selected = word[n.id].selected /\ n.retired = word[n.id].retired
    /\ \A m, n \in Retained(Issue) : n.by = "agent" /\ m.text = n.text /\ m.id < n.id => FALSE
=================================================================================
