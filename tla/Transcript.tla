----------------------------- MODULE Transcript -----------------------------
(* apps/ui/src/lib/transcript.ts: how the user interface folds a thread's    *)
(* events into what it shows, from scratch (foldTranscript) and as they come *)
(* in (TranscriptFolder).  Texts are sequences of chunks; the wording of     *)
(* notices is left out.  An event is [id, kind, worker, provider, turn,      *)
(* item, base, text], base being what nativeMessageBase makes of the item.   *)
EXTENDS Naturals, Sequences, Functions, SequencesExt

CONSTANTS NoWorker,   \* the event has no worker profile
          NoBase      \* the item id is not of the form base#n

Empty == [items |-> <<>>, index |-> <<>>, legacy |-> <<>>, divider |-> NoWorker, tokens |-> 0]

Push(s, item) == [s EXCEPT !.items = Append(@, item)]

\* upsert: a key's item is made at the end and changed where it is.
Put(s, key, new, Change(_)) ==
    IF key \in DOMAIN s.index
    THEN [s EXCEPT !.items[s.index[key]] = Change(@)]
    ELSE [Push(s, new) EXCEPT !.index = [k \in DOMAIN @ \cup {key} |-> IF k = key THEN Len(s.items) + 1 ELSE @[k]]]

Item(kind, e, text, streaming) ==
    [kind |-> kind, id |-> e.item, worker |-> e.worker, text |-> text, streaming |-> streaming]
Notice(kind, e) == [kind |-> kind, id |-> e.id, worker |-> e.worker, text |-> e.text, streaming |-> FALSE]

-----------------------------------------------------------------------------
(* Messages of a Claude log from before item ids were stable: deltas and      *)
(* their completion differ in the number after the base.                     *)

IsLegacy(e) == e.provider = "claude" /\ e.base # NoBase
Identity(e) == <<e.worker, e.turn, e.base>>
Candidates(s, e) == IF Identity(e) \in DOMAIN s.legacy THEN s.legacy[Identity(e)] ELSE <<>>
WithCandidates(s, e, keys) ==
    [s EXCEPT !.legacy = [i \in DOMAIN @ \cup {Identity(e)} |-> IF i = Identity(e) THEN keys ELSE @[i]]]

MessageKey(e) == <<"msg", e.worker, e.item>>

AddCandidate(s, e) ==
    IF ~IsLegacy(e) \/ Contains(Candidates(s, e), MessageKey(e)) THEN s
    ELSE WithCandidates(s, e, Append(Candidates(s, e), MessageKey(e)))

RemoveCandidate(s, e, key) ==
    IF ~IsLegacy(e) THEN s ELSE WithCandidates(s, e, Remove(Candidates(s, e), key))

\* findLegacyMessageKey: the first candidate with the completed text, unless the
\* completion's own id is known.
CompletedKey(s, e) ==
    LET same == SelectSeq(Candidates(s, e),
                          LAMBDA k : k \in DOMAIN s.index /\ s.items[s.index[k]].text = e.text)
    IN  IF IsLegacy(e) /\ MessageKey(e) \notin DOMAIN s.index /\ same # <<>>
        THEN Head(same) ELSE MessageKey(e)

Rekeyed(s, from, to) ==
    IF from = to THEN s
    ELSE [s EXCEPT !.index = [k \in (DOMAIN @ \ {from}) \cup {to} |-> IF k = to THEN @[from] ELSE @[k]]]

-----------------------------------------------------------------------------
(* applyEvent.                                                               *)

Delta(s, e) ==
    Put(AddCandidate(s, e), MessageKey(e), Item("message", e, e.text, TRUE),
        LAMBDA old : [old EXCEPT !.text = @ \o e.text, !.streaming = TRUE])

Completed(s, e) ==
    LET key == CompletedKey(s, e)
    IN  RemoveCandidate(
          Put(Rekeyed(s, key, MessageKey(e)), MessageKey(e), Item("message", e, e.text, FALSE),
              LAMBDA old : [old EXCEPT !.id = e.item, !.text = e.text, !.streaming = FALSE]),
          e, key)

Thinking(s, e) ==
    Put(s, <<"think", e.worker, e.item>>, Item("reasoning", e, e.text, e.kind = "reasoning.delta"),
        LAMBDA old : [old EXCEPT !.text = IF e.kind = "reasoning.delta" THEN @ \o e.text ELSE e.text,
                                 !.streaming = e.kind = "reasoning.delta"])

\* Output of a tool nobody started is dropped; a final output is taken only when
\* none was streamed.
ToolKey(e) == <<"tool", e.worker, e.item>>
Tool(s, e) ==
    CASE e.kind = "tool.started" ->
           Put(s, ToolKey(e), Item("tool", e, <<>>, TRUE), LAMBDA old : old)
      [] e.kind = "tool.output" ->
           IF ToolKey(e) \in DOMAIN s.index
           THEN [s EXCEPT !.items[s.index[ToolKey(e)]].text = @ \o e.text] ELSE s
      [] e.kind = "tool.completed" ->
           Put(s, ToolKey(e), Item("tool", e, e.text, FALSE),
               LAMBDA old : [old EXCEPT !.streaming = FALSE, !.text = IF @ = <<>> THEN e.text ELSE @])

\* A divider where another worker takes the floor, which a user message reopens.
Floor(s, e) ==
    IF e.kind = "user.message" THEN [Push(s, Notice("user", e)) EXCEPT !.divider = NoWorker]
    ELSE IF e.worker \in {NoWorker, s.divider} THEN s
    ELSE [Push(s, Notice("divider", e)) EXCEPT !.divider = e.worker]

Notices == {"turn.failed", "error", "lane.updated", "gate.evaluated", "run.started", "run.completed"}

Apply(s, e) ==
    CASE e.kind \in {"user.message", "turn.started"} -> Floor(s, e)
      [] e.kind = "usage" -> [s EXCEPT !.tokens = @ + 1]
      [] e.kind \in Notices -> Push(s, Notice("notice", e))
      [] e.worker = NoWorker -> s
      [] e.kind = "message.delta" -> Delta(s, e)
      [] e.kind = "message.completed" -> Completed(s, e)
      [] e.kind \in {"reasoning.delta", "reasoning.completed"} -> Thinking(s, e)
      [] e.kind \in {"tool.started", "tool.output", "tool.completed"} -> Tool(s, e)
      [] OTHER -> s

\* foldTranscript.
Fold(events) == FoldLeft(Apply, Empty, events)

-----------------------------------------------------------------------------
(* TranscriptFolder.                                                         *)

NewFolder == [state |-> Empty, applied |-> 0, first |-> "", last |-> ""]

\* #continues: the log folded already, possibly with more events on the end.
ContinuesByLength(f, events) == Len(events) >= f.applied
Continues(f, events) ==
    \/ f.applied = 0
    \/ /\ Len(events) >= f.applied
       /\ events[1].id = f.first /\ events[f.applied].id = f.last

FoldOn(f, events) ==
    LET from == IF Continues(f, events) THEN f ELSE NewFolder
    IN  IF from.applied = Len(events) THEN from
        ELSE [state |-> FoldLeft(Apply, from.state, SubSeq(events, from.applied + 1, Len(events))),
              applied |-> Len(events), first |-> Head(events).id, last |-> Last(events).id]
=============================================================================
