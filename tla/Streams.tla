------------------------------- MODULE Streams -------------------------------
(* How what a worker says becomes rows of the transcript: #onStreamEvent,     *)
(* #onAssistant and #onUser of adapters/claude.ts, #onPartial and #onBlock of *)
(* adapters/qwen-code.ts, and behind them the transcript's own fold.          *)
(*                                                                           *)
(* The worker makes a message block by block, usually streaming it, and then  *)
(* sends it once more complete; the results of its tool calls follow.  The    *)
(* two accounts meet only if the adapter gives both the same item id.  A      *)
(* message may be cut short (a retry, an interrupt) and then is never         *)
(* completed.  Claude may leave its thinking out of the complete message.     *)
EXTENDS Transcript, FiniteSets

CONSTANTS Chunks,       \* what a streamed piece of text may be
          MaxMessages,  \* bound: messages begun
          MaxBlocks,    \* bound: blocks of all messages, those cut short left out
          MaxRounds     \* bound: turns

VARIABLES provider,  \* whose adapter it is: "claude" or "qwen"
          round,     \* the turn in flight
          begun,     \* worker: messages begun so far
          message,   \* worker: the message being made, a set of at most one
          told,      \* worker: the messages it completed, in order
          heard,     \* worker (qwen): the blocks it streamed something of
          due,       \* worker: the tool calls whose result is to come
          stream,    \* claude: #streamMessageId
          slots,     \* #blockItemIds, #partialItemIds: the item of each block
          ordinals,  \* claude: #blockOrdinals
          names,     \* claude: #toolNames, the calls that are TodoWrite
          rows       \* the transcript

wire == <<round, begun, message, told, heard, due>>
adapter == <<stream, slots, ordinals, names>>
vars == <<provider, wire, adapter, rows>>

Spoken == {"text", "thinking"}
\* "plan" and "cleared" are TodoWrite calls, with and without entries.
Calls(p) == IF p = "claude" THEN {"tool", "plan", "cleared"} ELSE {"tool"}
Call(id, i) == <<"call", id, i>>

Fresh == [kind \in Spoken |-> 0]

Init ==
    /\ provider \in {"claude", "qwen"}
    /\ round = 1 /\ begun = 0 /\ message = {} /\ told = <<>> /\ heard = {} /\ due = {}
    /\ stream = 0 /\ slots = <<>> /\ ordinals = Fresh /\ names = {}
    /\ rows = Empty

-----------------------------------------------------------------------------
(* Events.                                                                   *)

Event(kind, item, base, text) ==
    [id |-> item, kind |-> kind, worker |-> "w", provider |-> provider, turn |-> round,
     item |-> item, base |-> base, text |-> text]
Emit(events) == rows' = FoldLeft(Apply, rows, events)

Row(kind) == IF kind = "text" THEN "message" ELSE "reasoning"
Suffixed(kind, suffix) ==
    CASE <<kind, suffix>> = <<"text", "delta">>         -> "message.delta"
      [] <<kind, suffix>> = <<"text", "completed">>     -> "message.completed"
      [] <<kind, suffix>> = <<"thinking", "delta">>     -> "reasoning.delta"
      [] <<kind, suffix>> = <<"thinking", "completed">> -> "reasoning.completed"

\* semanticItemId: the message and the block's number among those of its kind.
SemanticItem(id, n) == <<id, n>>
\* An item of Qwen's stream is named for the turn and the block's index.
PartialItem(i) == <<"turn", round, i>>

Spoke(kind, suffix, item, text) ==
    IF text = <<>> THEN <<>>
    ELSE <<Event(Suffixed(kind, suffix), item, IF provider = "claude" THEN Head(item) ELSE NoBase, text)>>
Started(call)  == Event("tool.started", call, NoBase, <<>>)
Finished(call) == Event("tool.completed", call, NoBase, <<"result">>)

-----------------------------------------------------------------------------
(* The stream.                                                               *)

Begin ==
    /\ message = {} /\ due = {} /\ begun < MaxMessages
    /\ begun' = begun + 1
    /\ \E streamed \in BOOLEAN :
          /\ message' = {[id |-> begun + 1, round |-> round, streamed |-> streamed,
                          open |-> FALSE, blocks |-> <<>>]}
          /\ slots' = IF streamed THEN <<>> ELSE slots
          /\ IF streamed /\ provider = "claude" THEN stream' = begun + 1 /\ ordinals' = Fresh
             ELSE UNCHANGED <<stream, ordinals>>
    /\ UNCHANGED <<provider, round, told, heard, due, names, rows>>

Slot(i, item) == slots' = [j \in DOMAIN slots \cup {i} |-> IF j = i THEN item ELSE slots[j]]

\* content_block_start.  Claude's calls are announced by the complete message,
\* Qwen's by the stream.
ClaudeOpens(kind, i) ==
    IF kind \in Spoken
    THEN /\ Slot(i, SemanticItem(stream, ordinals[kind]))
         /\ ordinals' = [ordinals EXCEPT ![kind] = @ + 1]
         /\ UNCHANGED rows
    ELSE UNCHANGED <<slots, ordinals, rows>>
QwenOpens(kind, call, i) ==
    /\ UNCHANGED ordinals
    /\ IF kind = "tool" THEN Slot(i, call) /\ Emit(<<Started(call)>>)
       ELSE Slot(i, PartialItem(i)) /\ UNCHANGED rows

OpenBlock ==
    /\ \E m \in message, kind \in Spoken \cup Calls(provider) :
          LET i == Len(m.blocks) + 1
          IN  /\ ~m.open /\ i + FoldLeft(LAMBDA sum, done : sum + done.made, 0, told) <= MaxBlocks
              /\ message' = {[m EXCEPT !.open = TRUE, !.blocks = Append(@, [kind |-> kind, text |-> <<>>])]}
              /\ IF ~m.streamed THEN UNCHANGED <<slots, ordinals, rows>>
                 ELSE IF provider = "claude" THEN ClaudeOpens(kind, i)
                 ELSE QwenOpens(kind, Call(m.id, i), i)
    /\ UNCHANGED <<provider, round, begun, told, heard, due, stream, names>>

\* content_block_delta, of text and of thinking (bound: once a block).
BlockDelta ==
    /\ \E m \in message, chunk \in Chunks :
          LET i == Len(m.blocks)
              b == m.blocks[i]
          IN  /\ m.open /\ b.kind \in Spoken /\ b.text = <<>>
              /\ message' = {[m EXCEPT !.blocks[i].text = <<chunk>>]}
              /\ IF m.streamed
                 THEN /\ Emit(Spoke(b.kind, "delta", slots[i], <<chunk>>))
                      /\ heard' = IF provider = "claude" THEN heard
                               ELSE heard \cup {[id |-> m.id, round |-> round, place |-> i, kind |-> b.kind]}
                 ELSE UNCHANGED <<rows, heard>>
    /\ UNCHANGED <<provider, round, begun, told, due, adapter>>

\* content_block_stop; Qwen's adapter keeps the item until the message is complete.
CloseBlock ==
    /\ \E m \in message :
          /\ m.open /\ message' = {[m EXCEPT !.open = FALSE]}
          /\ slots' = IF m.streamed /\ provider = "claude"
                      THEN [j \in DOMAIN slots \ {Len(m.blocks)} |-> slots[j]] ELSE slots
    /\ UNCHANGED <<provider, round, begun, told, heard, due, stream, ordinals, names, rows>>

\* A retry begins the message anew; an interrupt ends it (bound: once).
CutShort ==
    /\ begun = Len(told) + 1
    /\ \E m \in message : m.streamed /\ m.blocks # <<>>
    /\ message' = {}
    /\ UNCHANGED <<provider, round, begun, told, heard, due, adapter, rows>>

-----------------------------------------------------------------------------
(* The complete message.                                                     *)

\* Mutant of Ordinal: a block without text is not counted.
OrdinalOfSpoken(blocks, i) ==
    Cardinality({j \in 1..(i - 1) : blocks[j].kind = blocks[i].kind /\ blocks[j].text # <<>>})

\* nextOrdinal over the complete message.
Ordinal(blocks, i) == Cardinality({j \in 1..(i - 1) : blocks[j].kind = blocks[i].kind})

\* A plan is shown as the plan, not as a call.
OnAssistant(id, blocks) ==
    FlattenSeq([i \in DOMAIN blocks |->
        CASE blocks[i].kind \in Spoken ->
               Spoke(blocks[i].kind, "completed", SemanticItem(id, Ordinal(blocks, i)), blocks[i].text)
          [] blocks[i].kind \in {"tool", "cleared"} -> <<Started(blocks[i].call)>>
          [] OTHER -> <<>>])

OnBlocks(id, blocks) ==
    FlattenSeq([i \in DOMAIN blocks |->
        IF blocks[i].kind = "tool" THEN <<Started(blocks[i].call)>>
        ELSE Spoke(blocks[i].kind, "completed",
                   IF i \in DOMAIN slots THEN slots[i] ELSE <<id, i>>, blocks[i].text)])

Complete ==
    /\ \E m \in message :
          LET named == [i \in DOMAIN m.blocks |->
                          [kind |-> m.blocks[i].kind, text |-> m.blocks[i].text, call |-> Call(m.id, i)]]
              short == SelectSeq(named, LAMBDA b : b.kind # "thinking")
              calls == {i \in DOMAIN named : named[i].kind \notin Spoken}
          IN  /\ ~m.open /\ m.blocks # <<>>
              /\ due' = {named[i].call : i \in calls}
              /\ \E final \in IF provider = "claude" THEN {named, short} ELSE {named} :
                    /\ told' = Append(told, [id |-> m.id, round |-> round, blocks |-> final, made |-> Len(named),
                                             slotted |-> {i \in DOMAIN slots : slots[i] = PartialItem(i)}])
                    /\ Emit(IF provider = "claude" THEN OnAssistant(m.id, final) ELSE OnBlocks(m.id, final))
              /\ names' = IF provider = "claude"
                          THEN names \cup {named[i].call : i \in {j \in calls : named[j].kind # "tool"}} ELSE names
              /\ slots' = IF provider = "qwen" THEN <<>> ELSE slots
    /\ message' = {}
    /\ UNCHANGED <<provider, round, begun, heard, stream, ordinals>>

\* #onUser: the result of a TodoWrite closes no row.
ToolResult ==
    /\ \E call \in due :
          /\ due' = due \ {call}
          /\ names' = names \ {call}
          /\ Emit(IF call \in names THEN <<>> ELSE <<Finished(call)>>)
    /\ UNCHANGED <<provider, round, begun, message, told, heard, stream, slots, ordinals>>

\* sendTurn forgets what the last turn left of a stream.
NewTurn ==
    /\ message = {} /\ due = {} /\ begun > 0 /\ round < MaxRounds /\ round' = round + 1
    /\ slots' = <<>> /\ ordinals' = Fresh /\ stream' = 0
    /\ UNCHANGED <<provider, begun, message, told, heard, due, names, rows>>

Next == \/ Begin \/ OpenBlock \/ BlockDelta \/ CloseBlock \/ CutShort
        \/ Complete \/ ToolResult \/ NewTurn

Spec == Init /\ [][Next]_vars

-----------------------------------------------------------------------------
(* Properties.                                                               *)

\* The blocks of a kind that a worker completed, in the order it said them.
Places(kind) ==
    SortSeq(SetToSeq({p \in (DOMAIN told) \X (1..MaxBlocks) :
                        /\ p[2] \in DOMAIN told[p[1]].blocks
                        /\ told[p[1]].blocks[p[2]].kind = kind
                        /\ told[p[1]].blocks[p[2]].text # <<>>}),
            LAMBDA a, b : a[1] < b[1] \/ (a[1] = b[1] /\ a[2] < b[2]))
Said(places) == [n \in DOMAIN places |-> told[places[n][1]].blocks[places[n][2]].text]

Shown(kind) ==
    LET done == SelectSeq(rows.items, LAMBDA r : r.kind = Row(kind) /\ ~r.streaming)
    IN  [n \in DOMAIN done |-> done[n].text]

\* A later message of the turn had a block of the kind under the same index,
\* streamed or given the item of a stream that was cut short.
Overwritten(kind, place) ==
    LET m == told[place[1]]
    IN  /\ place[2] \in m.slotted
        /\ \/ \E h \in heard : h.id > m.id /\ h.round = m.round /\ h.place = place[2] /\ h.kind = kind
           \/ \E n \in DOMAIN Places(kind) :
                  LET later == told[Places(kind)[n][1]]
                  IN  /\ later.id > m.id /\ later.round = m.round
                      /\ Places(kind)[n][2] = place[2] /\ place[2] \in later.slotted

Count(s, x) == Cardinality({i \in DOMAIN s : s[i] = x})
AtRest == message = {} /\ due = {}

\* The row of a call whose result came is closed (bar a cleared to-do list).
CallsClosed ==
    \A n \in DOMAIN rows.items, k \in DOMAIN told :
        \A i \in DOMAIN told[k].blocks :
            (told[k].blocks[i].kind = "tool" /\ rows.items[n].kind = "tool"
                /\ rows.items[n].id = told[k].blocks[i].call) => ~rows.items[n].streaming

\* What a complete message says does not go on as a row still being written.
\* (Thoughts do when the message leaves them out.)
RowsClosed ==
    \A n \in DOMAIN rows.items, k \in DOMAIN told, kind \in Spoken :
        (/\ rows.items[n].kind = Row(kind) /\ rows.items[n].streaming
         /\ \E i \in DOMAIN told[k].blocks : told[k].blocks[i].kind = kind)
            => rows.items[n].id[1] # told[k].id

\* Whatever was streamed, cut short, left out or said at once: what a worker
\* completed is in the transcript, each text and thought in one row, and its rows
\* are closed.  Of Claude's the rows stand in the order it said them.  Of Qwen's
\* they do while no message of the run was cut short or had a row taken over;
\* otherwise each text is still there as often as it was said, bar those whose
\* row a later message of the same turn took over, but it may stand in a row that
\* was opened earlier: the adapter names a streamed item for the turn and the
\* index alone (qwen-code.ts:671), though an id is "for the message being built"
\* (protocol/src/events.ts:110).
SaidIsShown ==
    AtRest =>
        /\ CallsClosed
        /\ provider = "claude" => RowsClosed /\ \A kind \in Spoken : Shown(kind) = Said(Places(kind))
        /\ provider = "qwen" =>
             \A kind \in Spoken :
                LET kept == SelectSeq(Places(kind), LAMBDA p : ~Overwritten(kind, p))
                IN  /\ \A c \in Chunks : Count(Shown(kind), <<c>>) = Count(Said(kept), <<c>>)
                    /\ begun = Len(told) /\ kept = Places(kind) => Shown(kind) = Said(kept)

=============================================================================
