---------------------------- MODULE DeliveryProofs ----------------------------
(***************************************************************************)
(* What the window of one user shows of the gate and of the notes, for any  *)
(* threads, logs and texts, any number of openings in flight and any        *)
(* failures of the socket.                                                  *)
(***************************************************************************)
EXTENDS Delivery, FiniteSetTheorems, SequenceTheorems, TLAPS

-----------------------------------------------------------------------------
(* The inductive invariant. *)

\* A sequence, of whatever it holds.
Queue(q) == q \in Seq({q[i] : i \in DOMAIN q})

CoreOK ==
    /\ logged \in [Threads -> Nat]
    /\ \A t \in Threads : logged[t] <= Len(Script[t])
    /\ stored \subseteq Threads

WindowOK ==
    /\ active \in Threads \cup {NoThread}
    /\ shown \in Seq(Entries)
    /\ gate \in [lane : Nat, stale : BOOLEAN]
    /\ reads \in Nat /\ reading \in 0..reads

\* Notes are those of the open thread, and without a thread there is nothing to
\* save.
NotesOK ==
    /\ pinned = [thread |-> pinned.thread, text |-> pinned.text, save |-> pinned.save]
    /\ pinned.thread \in {NoThread, active}
    /\ pinned.thread = NoThread => pinned.save = "saved"

\* What is asked for is asked of a thread, and a gate read has been counted.
RequestOK(m) ==
    /\ m.ask \in {"set", "gate"} => m.thread \in Threads
    /\ m.ask = "gate" => m.read \in 1..reads

\* An answer of the gate that will be taken is of no earlier lane than is shown.
AnswerOK(m) ==
    /\ m.thread \in Threads /\ m.read \in 1..reads /\ m.lane \in Nat
    /\ Wanted(m) => Lane(shown) <= m.lane

MessageOK(m) ==
    /\ m.say = "event" => m.thread \in Threads /\ m.event \in Entries
    /\ m.say = "opened" =>
         /\ m = [say |-> "opened", by |-> m.by, thread |-> m.thread,
                 events |-> m.events, overtaken |-> m.overtaken]
         /\ m.thread \in Threads /\ m.events \in Seq(Entries)
    /\ m.say = "set" => m.thread \in Threads
    /\ m.say = "gate" => AnswerOK(m)

UpOK == Queue(up) /\ \A i \in 1..Len(up) : RequestOK(up[i])
JudgingOK == \A m \in judging : m.ask = "gate" /\ RequestOK(m)
OutgoingOK ==
    Queue(outgoing) /\ \A i \in 1..Len(outgoing) : MessageOK(outgoing[i]) /\ outgoing[i].say # "event"
DownOK == Queue(down) /\ \A i \in 1..Len(down) : MessageOK(down[i])

\* The lane events of a thread that are on their way after a place in the queue.
IsLane(m, t) == m.say = "event" /\ m.thread = t /\ m.event.kind \in LaneEvents
Coming(q, i, t) == Cardinality({j \in i + 1 .. Len(q) : IsLane(q[j], t)})

\* The lane of each thread, as its log has it.
LaneOf == [t \in Threads |-> Lane(Log(t))]

\* Counting what is on its way, no window has or will have more of a lane than
\* its log has.
ShownNotAhead ==
    active \in Threads => Lane(shown) + Coming(down, 0, active) <= LaneOf[active]
DownNotAhead ==
    \A i \in 1..Len(down) : down[i].say = "opened" =>
       Lane(down[i].events) + Coming(down, i, down[i].thread) <= LaneOf[down[i].thread]
OutgoingNotAhead ==
    \A i \in 1..Len(outgoing) : outgoing[i].say = "opened" =>
       Lane(outgoing[i].events) <= LaneOf[outgoing[i].thread]

IInv ==
    /\ CoreOK /\ WindowOK /\ NotesOK
    /\ UpOK /\ JudgingOK /\ OutgoingOK /\ DownOK
    /\ ShownNotAhead /\ DownNotAhead /\ OutgoingNotAhead
    /\ GateNotBehind

-----------------------------------------------------------------------------
(* Queues and counts. *)

LEMMA QueueFacts ==
    ASSUME NEW q, Queue(q)
    PROVE  /\ Len(q) \in Nat /\ DOMAIN q = 1..Len(q)
           /\ q # <<>> => Len(q) > 0 /\ Head(q) = q[1]
  BY DEF Queue

LEMMA SequenceIsQueue ==
    ASSUME NEW S, NEW q \in Seq(S)
    PROVE  Queue(q)
  BY DEF Queue

LEMMA QueueAppend ==
    ASSUME NEW q, Queue(q), NEW x
    PROVE  /\ Queue(Append(q, x)) /\ Len(Append(q, x)) = Len(q) + 1 /\ Len(q) \in Nat
           /\ \A i \in 1..Len(q) : Append(q, x)[i] = q[i]
           /\ Append(q, x)[Len(q) + 1] = x
  <1> DEFINE S == {q[i] : i \in DOMAIN q} \cup {x}
  <1>1. q \in Seq(S) /\ x \in S
    BY DEF Queue
  <1> HIDE DEF S
  <1>2. Append(q, x) \in Seq(S)
    BY <1>1
  <1>3. Queue(Append(q, x))
    BY <1>2, SequenceIsQueue
  <1> QED BY <1>1, <1>3

LEMMA QueueTail ==
    ASSUME NEW q, Queue(q), q # <<>>
    PROVE  /\ Queue(Tail(q)) /\ Len(Tail(q)) = Len(q) - 1 /\ Len(q) \in Nat /\ Len(q) >= 1
           /\ \A i \in 1..Len(q) - 1 : Tail(q)[i] = q[i + 1]
  <1> DEFINE S == {q[i] : i \in DOMAIN q}
  <1>1. q \in Seq(S)
    BY DEF Queue
  <1> HIDE DEF S
  <1>2. Tail(q) \in Seq(S)
    BY <1>1
  <1>3. Queue(Tail(q))
    BY <1>2, SequenceIsQueue
  <1> QED BY <1>1, <1>3

LEMMA QueueTwo ==
    ASSUME NEW q, Queue(q), NEW x, NEW y
    PROVE  q \o <<x, y>> = Append(Append(q, x), y)
  <1> DEFINE S == {q[i] : i \in DOMAIN q} \cup {x, y}
  <1>1. q \in Seq(S) /\ x \in S /\ y \in S
    BY DEF Queue
  <1> HIDE DEF S
  <1> QED BY <1>1

LEMMA EmptyQueue == Queue(<<>>) /\ Len(<<>>) = 0
  BY DEF Queue

\* Sets of places in a queue are finite.
LEMMA Places ==
    ASSUME NEW n \in Nat, NEW S, S \subseteq 1..n
    PROVE  /\ IsFiniteSet(S) /\ Cardinality(S) \in Nat
           /\ Cardinality(S \cup {n + 1}) = Cardinality(S) + 1
  <1>1. IsFiniteSet(S)
    <2>1. IsFiniteSet(1..n)
      BY 1 \in Int, n \in Int, FS_Interval
    <2> QED BY <2>1, S \in SUBSET (1..n), FS_Subset
  <1>2. n + 1 \notin S
    OBVIOUS
  <1> QED BY <1>1, <1>2, FS_CardinalityType, FS_AddElement

\* Moving all places one to the front leaves their number.
LEMMA Shifted ==
    ASSUME NEW n \in Nat, NEW S, S \subseteq 2..n + 1
    PROVE  Cardinality({j \in 1..n : j + 1 \in S}) = Cardinality(S)
  <1> DEFINE T == {j \in 1..n : j + 1 \in S}
             f == [j \in T |-> j + 1]
  <1>1. IsFiniteSet(T)
    BY Places
  <1>2. f \in [T -> S]
    OBVIOUS
  <1>3. \A j, k \in T : f[j] = f[k] => j = k
    OBVIOUS
  <1>4. \A s \in S : \E j \in T : f[j] = s
    <2> SUFFICES ASSUME NEW s \in S PROVE \E j \in T : f[j] = s
      OBVIOUS
    <2>1. s \in 2..n + 1
      OBVIOUS
    <2>2. s - 1 \in T /\ f[s - 1] = s
      BY <2>1
    <2> QED BY <2>2
  <1>5. f \in Bijection(T, S)
    BY <1>2, <1>3, <1>4 DEF Bijection, Injection, Surjection, IsInjective
  <1>6. ExistsBijection(T, S)
    BY <1>5 DEF ExistsBijection
  <1> QED BY <1>1, <1>6, FS_Bijection

\* The lane's count goes up by one with an event of the lane.
LEMMA LaneFacts ==
    ASSUME NEW s \in Seq(Entries), NEW e \in Entries
    PROVE  /\ Lane(s) \in Nat
           /\ Lane(Append(s, e)) = IF e.kind \in LaneEvents THEN Lane(s) + 1 ELSE Lane(s)
  <1> DEFINE n == Len(s)
             S == {i \in DOMAIN s : s[i].kind \in LaneEvents}
             r == Append(s, e)
             T == {i \in DOMAIN r : r[i].kind \in LaneEvents}
  <1>1. n \in Nat /\ DOMAIN s = 1..n /\ DOMAIN r = 1..n + 1
        /\ (\A i \in 1..n : r[i] = s[i]) /\ r[n + 1] = e
    OBVIOUS
  <1>2. S \subseteq 1..n
    BY <1>1
  <1>3. T = IF e.kind \in LaneEvents THEN S \cup {n + 1} ELSE S
    BY <1>1
  <1>4. Cardinality(S) \in Nat /\ Cardinality(S \cup {n + 1}) = Cardinality(S) + 1
    BY <1>1, <1>2, Places
  <1>5. Lane(s) = Cardinality(S) /\ Lane(r) = Cardinality(T)
    BY DEF Lane
  <1> HIDE DEF S, T, n, r
  <1>6. Lane(r) = IF e.kind \in LaneEvents THEN Lane(s) + 1 ELSE Lane(s)
    BY <1>3, <1>4, <1>5
  <1> QED BY <1>4, <1>5, <1>6 DEF r

LEMMA LaneType ==
    ASSUME NEW s \in Seq(Entries)
    PROVE  Lane(s) \in Nat
  <1>1. {i \in DOMAIN s : s[i].kind \in LaneEvents} \subseteq 1..Len(s) /\ Len(s) \in Nat
    OBVIOUS
  <1> QED BY <1>1, Places DEF Lane

LEMMA LaneOfNothing == Lane(<<>>) = 0
  <1>1. {i \in DOMAIN <<>> : <<>>[i].kind \in LaneEvents} = {}
    OBVIOUS
  <1> QED BY <1>1, FS_EmptySet DEF Lane

\* What is on its way: a message more at the end, one less at the front.
LEMMA ComingType ==
    ASSUME NEW q, Queue(q), NEW i \in Nat, NEW t
    PROVE  Coming(q, i, t) \in Nat /\ (i >= Len(q) => Coming(q, i, t) = 0)
  <1> DEFINE S == {j \in i + 1 .. Len(q) : IsLane(q[j], t)}
  <1>1. Len(q) \in Nat /\ S \subseteq 1..Len(q)
    BY QueueFacts
  <1>2. i >= Len(q) => S = {}
    BY <1>1
  <1> QED BY <1>1, <1>2, Places, FS_EmptySet DEF Coming

LEMMA ComingAppend ==
    ASSUME NEW q, Queue(q), NEW x, NEW i \in 0..Len(q), NEW t
    PROVE  Coming(Append(q, x), i, t) =
              IF IsLane(x, t) THEN Coming(q, i, t) + 1 ELSE Coming(q, i, t)
  <1> DEFINE n == Len(q)
             r == Append(q, x)
             S == {j \in i + 1 .. n : IsLane(q[j], t)}
             T == {j \in i + 1 .. Len(r) : IsLane(r[j], t)}
  <1>1. n \in Nat /\ Len(r) = n + 1 /\ (\A j \in 1..n : r[j] = q[j]) /\ r[n + 1] = x
    BY QueueAppend
  <1>2. S \subseteq 1..n
    BY <1>1
  <1> HIDE DEF r
  <1>3. T = IF IsLane(x, t) THEN S \cup {n + 1} ELSE S
    <2>1. \A j \in i + 1 .. n : r[j] = q[j]
      BY <1>1
    <2>2. i + 1 .. n + 1 = (i + 1 .. n) \cup {n + 1}
      BY <1>1
    <2> QED BY <1>1, <2>1, <2>2
  <1>4. Cardinality(S) \in Nat /\ Cardinality(S \cup {n + 1}) = Cardinality(S) + 1
    BY <1>1, <1>2, Places
  <1>5. Coming(q, i, t) = Cardinality(S) /\ Coming(r, i, t) = Cardinality(T)
    BY DEF Coming
  <1> HIDE DEF S, T, n
  <1>6. Coming(r, i, t) = IF IsLane(x, t) THEN Coming(q, i, t) + 1 ELSE Coming(q, i, t)
    BY <1>3, <1>4, <1>5
  <1> QED BY <1>6 DEF r

LEMMA ComingTail ==
    ASSUME NEW q, Queue(q), q # <<>>, NEW i \in 0..Len(q) - 1, NEW t
    PROVE  Coming(Tail(q), i, t) = Coming(q, i + 1, t)
  <1> DEFINE n == Len(q) - 1
             r == Tail(q)
             S == {j \in i + 2 .. n + 1 : IsLane(q[j], t)}
             T == {j \in i + 1 .. n : IsLane(r[j], t)}
  <1>1. n \in Nat /\ Len(q) = n + 1 /\ Len(r) = n /\ (\A j \in 1..n : r[j] = q[j + 1])
    BY QueueTail
  <1> HIDE DEF n, r
  <1>2. S \subseteq 2..n + 1
    BY <1>1
  <1>3. T = {j \in 1..n : j + 1 \in S}
    BY <1>1
  <1>4. Coming(q, i + 1, t) = Cardinality(S) /\ Coming(r, i, t) = Cardinality(T)
    BY <1>1 DEF Coming
  <1> HIDE DEF S, T
  <1> QED BY <1>1, <1>2, <1>3, <1>4, Shifted DEF r

LEMMA ComingHead ==
    ASSUME NEW q, Queue(q), q # <<>>, NEW t
    PROVE  Coming(q, 0, t) = IF IsLane(q[1], t) THEN Coming(q, 1, t) + 1 ELSE Coming(q, 1, t)
  <1> DEFINE S == {j \in 2..Len(q) : IsLane(q[j], t)}
             T == {j \in 1..Len(q) : IsLane(q[j], t)}
  <1>1. Len(q) \in Nat /\ Len(q) >= 1
    BY QueueTail
  <1>2. T = IF IsLane(q[1], t) THEN S \cup {1} ELSE S
    BY <1>1
  <1>3. IsFiniteSet(S) /\ Cardinality(S) \in Nat /\ 1 \notin S
    <2>1. S \subseteq 1..Len(q) /\ 1 \notin S
      BY <1>1
    <2> HIDE DEF S
    <2> QED BY <1>1, <2>1, Places
  <1>4. Cardinality(S \cup {1}) = Cardinality(S) + 1
    BY <1>3, FS_AddElement
  <1>5. Coming(q, 0, t) = Cardinality(T) /\ Coming(q, 1, t) = Cardinality(S)
    BY DEF Coming
  <1> HIDE DEF S, T
  <1> QED BY <1>2, <1>3, <1>4, <1>5

-----------------------------------------------------------------------------
(* What keeps the parts of the invariant. *)

\* A log is a part of its script.
LEMMA PrefixFacts ==
    ASSUME NEW t \in Threads, NEW n \in Nat, n <= Len(Script[t])
    PROVE  /\ Script[t] \in Seq(Entries)
           /\ SubSeq(Script[t], 1, n) \in Seq(Entries)
           /\ Lane(SubSeq(Script[t], 1, n)) \in Nat
  <1>1. Script[t] \in Seq(Entries) /\ n \in 0..Len(Script[t])
    BY ScriptAssumption
  <1>2. SubSeq(Script[t], 1, n) \in Seq(Entries)
    BY <1>1
  <1> QED BY <1>1, <1>2, LaneType

LEMMA PrefixGrows ==
    ASSUME NEW s \in Seq(Entries), NEW n \in Nat, n < Len(s)
    PROVE  SubSeq(s, 1, n + 1) = Append(SubSeq(s, 1, n), s[n + 1])
  <1> DEFINE p == SubSeq(s, 1, n)
             r == SubSeq(s, 1, n + 1)
             q == Append(p, s[n + 1])
  <1>1. p \in Seq(Entries) /\ Len(p) = n /\ \A i \in 1..n : p[i] = s[i]
    OBVIOUS
  <1>2. r \in Seq(Entries) /\ Len(r) = n + 1 /\ \A i \in 1..n + 1 : r[i] = s[i]
    OBVIOUS
  <1> HIDE DEF p, r
  <1>3. s[n + 1] \in Entries
    OBVIOUS
  <1>4. /\ q \in Seq(Entries) /\ Len(q) = n + 1
        /\ (\A i \in 1..n : q[i] = p[i]) /\ q[n + 1] = s[n + 1]
    BY <1>1, <1>3
  <1> HIDE DEF q
  <1>5. \A i \in 1..n + 1 : r[i] = q[i]
    BY <1>1, <1>2, <1>4
  <1>6. r = q
    BY <1>2, <1>4, <1>5, SeqEqual
  <1> QED BY <1>6 DEF r, q, p

LEMMA LogFacts ==
    ASSUME CoreOK, NEW t \in Threads
    PROVE  /\ Script[t] \in Seq(Entries)
           /\ Log(t) \in Seq(Entries)
           /\ Lane(Log(t)) \in Nat
  BY PrefixFacts DEF CoreOK, Log

LEMMA CoreKept ==
    ASSUME CoreOK, UNCHANGED core
    PROVE  CoreOK' /\ \A t \in Threads : Log(t)' = Log(t)
  BY DEF CoreOK, core, Log

\* How a step may change which answer of the gate is wanted: not at all, or so
\* that no answer to a read so far is.
ReadingKept ==
    /\ reads' \in Nat /\ reads <= reads'
    /\ \/ reading' = reading /\ active' = active /\ Lane(shown)' = Lane(shown)
       \/ reading' \notin 1..reads
       \/ active' \notin Threads

LEMMA MessageKept ==
    ASSUME WindowOK, ReadingKept, NEW m, MessageOK(m)
    PROVE  MessageOK(m)'
  <1>1. ASSUME m.say = "gate" PROVE AnswerOK(m)'
    <2>1. AnswerOK(m)
      BY <1>1 DEF MessageOK
    <2>2. m.read \in 1..reads' /\ m.read \in 1..reads
      BY <2>1 DEF AnswerOK, ReadingKept, WindowOK
    <2>3. Wanted(m)' => Wanted(m) /\ Lane(shown)' = Lane(shown)
      BY <2>1, <2>2 DEF AnswerOK, ReadingKept, Wanted
    <2> QED BY <2>1, <2>2, <2>3 DEF AnswerOK
  <1> QED BY <1>1 DEF MessageOK

LEMMA RequestKept ==
    ASSUME WindowOK, reads' \in Nat, reads <= reads', NEW m, RequestOK(m)
    PROVE  RequestOK(m)'
  BY DEF WindowOK, RequestOK

LEMMA UpKept ==
    ASSUME WindowOK, UpOK, reads' \in Nat, reads <= reads',
           \/ up' = up
           \/ up # <<>> /\ up' = Tail(up)
           \/ \E x : up' = Append(up, x) /\ RequestOK(x)'
           \/ up' = <<>>
    PROVE  UpOK'
  <1>0. \A m : RequestOK(m) => RequestOK(m)'
    BY RequestKept
  <1>1. CASE up' = up
    BY <1>0, <1>1 DEF UpOK, RequestOK
  <1>2. CASE up # <<>> /\ up' = Tail(up)
    <2>1. /\ Queue(up') /\ Len(up') = Len(up) - 1 /\ Len(up) \in Nat
          /\ \A i \in 1..Len(up) - 1 : up'[i] = up[i + 1]
      BY <1>2, QueueTail DEF UpOK
    <2>2. \A i \in 1..Len(up') : i + 1 \in 1..Len(up)
      BY <2>1
    <2> QED BY <1>0, <2>1, <2>2 DEF UpOK, RequestOK
  <1>3. CASE \E x : up' = Append(up, x) /\ RequestOK(x)'
    <2>1. PICK x : up' = Append(up, x) /\ RequestOK(x)'
      BY <1>3
    <2>2. /\ Queue(up') /\ Len(up') = Len(up) + 1 /\ Len(up) \in Nat
          /\ \A i \in 1..Len(up) : up'[i] = up[i]
          /\ up'[Len(up) + 1] = x
      BY <2>1, QueueAppend DEF UpOK
    <2>3. \A i \in 1..Len(up') : i \in 1..Len(up) \/ i = Len(up) + 1
      BY <2>2
    <2> QED BY <1>0, <2>1, <2>2, <2>3 DEF UpOK, RequestOK
  <1>4. CASE up' = <<>>
    BY <1>4, EmptyQueue DEF UpOK
  <1> QED BY <1>1, <1>2, <1>3, <1>4

LEMMA DownKept ==
    ASSUME WindowOK, DownOK, ReadingKept,
           \/ down' = down
           \/ down # <<>> /\ down' = Tail(down)
           \/ \E x : down' = Append(down, x) /\ MessageOK(x)'
           \/ down' = <<>>
    PROVE  DownOK'
  <1>0. \A m : MessageOK(m) => MessageOK(m)'
    BY MessageKept
  <1>1. CASE down' = down
    BY <1>0, <1>1 DEF DownOK, MessageOK, AnswerOK, Wanted
  <1>2. CASE down # <<>> /\ down' = Tail(down)
    <2>1. /\ Queue(down') /\ Len(down') = Len(down) - 1 /\ Len(down) \in Nat
          /\ \A i \in 1..Len(down) - 1 : down'[i] = down[i + 1]
      BY <1>2, QueueTail DEF DownOK
    <2>2. \A i \in 1..Len(down') : i + 1 \in 1..Len(down) /\ down'[i] = down[i + 1]
      BY <2>1
    <2>3. ASSUME NEW i \in 1..Len(down') PROVE MessageOK(down[i])'
      <3>1. PICK m : m = down[i + 1]
        OBVIOUS
      <3>2. MessageOK(m)
        BY <2>2, <3>1 DEF DownOK
      <3>3. MessageOK(m)' /\ down'[i] = m
        BY <1>0, <2>2, <3>1, <3>2
      <3> QED BY <3>2, <3>3 DEF MessageOK, AnswerOK, Wanted
    <2> QED BY <2>1, <2>3 DEF DownOK, MessageOK, AnswerOK, Wanted
  <1>3. CASE \E x : down' = Append(down, x) /\ MessageOK(x)'
    <2>1. PICK x : down' = Append(down, x) /\ MessageOK(x)'
      BY <1>3
    <2>2. /\ Queue(down') /\ Len(down') = Len(down) + 1 /\ Len(down) \in Nat
          /\ \A i \in 1..Len(down) : down'[i] = down[i]
          /\ down'[Len(down) + 1] = x
      BY <2>1, QueueAppend DEF DownOK
    <2>3. \A i \in 1..Len(down') : i \in 1..Len(down) \/ i = Len(down) + 1
      BY <2>2
    <2>4. ASSUME NEW i \in 1..Len(down') PROVE MessageOK(down[i])'
      <3>1. PICK m : m = down'[i]
        OBVIOUS
      <3>2. MessageOK(m)'
        BY <1>0, <2>1, <2>2, <2>3, <3>1 DEF DownOK
      <3> QED BY <3>1, <3>2 DEF MessageOK, AnswerOK, Wanted
    <2> QED BY <2>2, <2>4 DEF DownOK, MessageOK, AnswerOK, Wanted
  <1>4. CASE down' = <<>>
    BY <1>4, EmptyQueue DEF DownOK
  <1> QED BY <1>1, <1>2, <1>3, <1>4

LEMMA OutgoingKept ==
    ASSUME WindowOK, OutgoingOK, ReadingKept,
           \/ outgoing' = outgoing
           \/ outgoing # <<>> /\ outgoing' = Tail(outgoing)
           \/ \E x : outgoing' = Append(outgoing, x) /\ MessageOK(x)' /\ x.say # "event"
           \/ outgoing' = <<>>
    PROVE  OutgoingOK'
  <1>0. \A m : MessageOK(m) => MessageOK(m)'
    BY MessageKept
  <1>1. CASE outgoing' = outgoing
    BY <1>0, <1>1 DEF OutgoingOK, MessageOK, AnswerOK, Wanted
  <1>2. CASE outgoing # <<>> /\ outgoing' = Tail(outgoing)
    <2>1. /\ Queue(outgoing') /\ Len(outgoing') = Len(outgoing) - 1 /\ Len(outgoing) \in Nat
          /\ \A i \in 1..Len(outgoing) - 1 : outgoing'[i] = outgoing[i + 1]
      BY <1>2, QueueTail DEF OutgoingOK
    <2>2. \A i \in 1..Len(outgoing') : i + 1 \in 1..Len(outgoing) /\ outgoing'[i] = outgoing[i + 1]
      BY <2>1
    <2>3. ASSUME NEW i \in 1..Len(outgoing') PROVE MessageOK(outgoing[i])' /\ outgoing'[i].say # "event"
      <3>1. PICK m : m = outgoing[i + 1]
        OBVIOUS
      <3>2. MessageOK(m) /\ m.say # "event"
        BY <2>2, <3>1 DEF OutgoingOK
      <3>3. MessageOK(m)' /\ outgoing'[i] = m
        BY <1>0, <2>2, <3>1, <3>2
      <3> QED BY <3>2, <3>3 DEF MessageOK, AnswerOK, Wanted
    <2> QED BY <2>1, <2>3 DEF OutgoingOK, MessageOK, AnswerOK, Wanted
  <1>3. CASE \E x : outgoing' = Append(outgoing, x) /\ MessageOK(x)' /\ x.say # "event"
    <2>1. PICK x : outgoing' = Append(outgoing, x) /\ MessageOK(x)' /\ x.say # "event"
      BY <1>3
    <2>2. /\ Queue(outgoing') /\ Len(outgoing') = Len(outgoing) + 1 /\ Len(outgoing) \in Nat
          /\ \A i \in 1..Len(outgoing) : outgoing'[i] = outgoing[i]
          /\ outgoing'[Len(outgoing) + 1] = x
      BY <2>1, QueueAppend DEF OutgoingOK
    <2>3. \A i \in 1..Len(outgoing') : i \in 1..Len(outgoing) \/ i = Len(outgoing) + 1
      BY <2>2
    <2>4. ASSUME NEW i \in 1..Len(outgoing') PROVE MessageOK(outgoing[i])' /\ outgoing'[i].say # "event"
      <3>1. PICK m : m = outgoing'[i]
        OBVIOUS
      <3>2. MessageOK(m)' /\ m.say # "event"
        BY <1>0, <2>1, <2>2, <2>3, <3>1 DEF OutgoingOK
      <3> QED BY <3>1, <3>2 DEF MessageOK, AnswerOK, Wanted
    <2> QED BY <2>2, <2>4 DEF OutgoingOK, MessageOK, AnswerOK, Wanted
  <1>4. CASE outgoing' = <<>>
    BY <1>4, EmptyQueue DEF OutgoingOK
  <1> QED BY <1>1, <1>2, <1>3, <1>4

\* A log only grows, and its lane with it.
LEMMA LaneOfType ==
    ASSUME CoreOK
    PROVE  LaneOf \in [Threads -> Nat]
  BY LogFacts DEF LaneOf

LEMMA LaneOfNextType ==
    ASSUME CoreOK'
    PROVE  LaneOf' \in [Threads -> Nat]
  BY PrefixFacts DEF CoreOK, Log, LaneOf

LEMMA LaneOfKept ==
    ASSUME UNCHANGED logged
    PROVE  LaneOf' = LaneOf
  BY DEF LaneOf, Log

\* What is added to the queue is counted in its log already.
LEMMA DownAheadAppend ==
    ASSUME CoreOK, DownOK, DownNotAhead, LaneOf' \in [Threads -> Nat],
           NEW x, down' = Append(down, x),
           \A t \in Threads : LaneOf[t] + (IF IsLane(x, t) THEN 1 ELSE 0) <= LaneOf'[t],
           x.say = "opened" =>
              x.thread \in Threads /\ Lane(x.events) \in Nat /\ Lane(x.events) <= LaneOf'[x.thread]
    PROVE  DownNotAhead'
  <1>1. /\ Queue(down) /\ Queue(down') /\ Len(down') = Len(down) + 1 /\ Len(down) \in Nat
        /\ \A i \in 1..Len(down) : down'[i] = down[i]
        /\ down'[Len(down) + 1] = x
    BY QueueAppend DEF DownOK
  <1> SUFFICES ASSUME NEW i \in 1..Len(down'), down'[i].say = "opened"
               PROVE  Lane(down'[i].events) + Coming(down', i, down'[i].thread)
                         <= LaneOf'[down'[i].thread]
    BY DEF DownNotAhead
  <1>2. CASE i \in 1..Len(down)
    <2>1. PICK m : m = down[i] /\ m = down'[i]
      BY <1>1, <1>2
    <2>2. /\ m.thread \in Threads /\ Lane(m.events) \in Nat
          /\ Lane(m.events) + Coming(down, i, m.thread) <= LaneOf[m.thread]
      BY <1>2, <2>1, LaneType DEF DownOK, MessageOK, DownNotAhead
    <2>3. /\ Coming(down, i, m.thread) \in Nat
          /\ Coming(down', i, m.thread) =
                IF IsLane(x, m.thread) THEN Coming(down, i, m.thread) + 1
                                       ELSE Coming(down, i, m.thread)
      BY <1>1, <1>2, ComingAppend, ComingType, i \in Nat, i \in 0..Len(down)
    <2>4. LaneOf[m.thread] \in Nat /\ LaneOf'[m.thread] \in Nat
      BY <2>2, LaneOfType
    <2>5. LaneOf[m.thread] + (IF IsLane(x, m.thread) THEN 1 ELSE 0) <= LaneOf'[m.thread]
      BY <2>2
    <2>6. Lane(m.events) + Coming(down', i, m.thread) <= LaneOf'[m.thread]
      <3> HIDE DEF Coming
      <3> QED BY <2>2, <2>3, <2>4, <2>5
    <2> QED BY <2>1, <2>6
  <1>3. CASE i = Len(down) + 1
    <2>1. down'[i] = x
      BY <1>1, <1>3
    <2>2. Coming(down', i, x.thread) = 0
      <3>1. i \in Nat /\ i >= Len(down') /\ Queue(down')
        BY <1>1, <1>3
      <3> QED BY <3>1, ComingType
    <2> QED BY <2>1, <2>2
  <1> QED BY <1>1, <1>2, <1>3

LEMMA DownAheadTail ==
    ASSUME DownOK, DownNotAhead, LaneOf' = LaneOf, down # <<>>, down' = Tail(down)
    PROVE  DownNotAhead'
  <1>1. /\ Queue(down) /\ Len(down') = Len(down) - 1 /\ Len(down) \in Nat
        /\ \A i \in 1..Len(down) - 1 : down'[i] = down[i + 1]
    BY QueueTail DEF DownOK
  <1> SUFFICES ASSUME NEW i \in 1..Len(down'), down'[i].say = "opened"
               PROVE  Lane(down'[i].events) + Coming(down', i, down'[i].thread)
                         <= LaneOf[down'[i].thread]
    BY DEF DownNotAhead
  <1>2. i \in 0..Len(down) - 1 /\ i + 1 \in 1..Len(down)
    BY <1>1
  <1>3. PICK m : m = down[i + 1] /\ m = down'[i]
    BY <1>1
  <1>4. Coming(down', i, m.thread) = Coming(down, i + 1, m.thread)
    BY <1>1, <1>2, ComingTail
  <1>5. Lane(m.events) + Coming(down, i + 1, m.thread) <= LaneOf[m.thread]
    BY <1>2, <1>3 DEF DownNotAhead
  <1> QED BY <1>3, <1>4, <1>5

\* Where nothing is added to the queue that counts, it leaves the window alone.
LEMMA ShownAheadAppend ==
    ASSUME CoreOK, DownOK, ShownNotAhead, WindowOK, LaneOf' \in [Threads -> Nat],
           UNCHANGED <<active, shown>>,
           NEW x, down' = Append(down, x),
           \A t \in Threads : LaneOf[t] + (IF IsLane(x, t) THEN 1 ELSE 0) <= LaneOf'[t]
    PROVE  ShownNotAhead'
  <1> SUFFICES ASSUME active \in Threads
               PROVE  Lane(shown) + Coming(down', 0, active) <= LaneOf'[active]
    BY DEF ShownNotAhead
  <1>1. Queue(down) /\ Len(down) \in Nat /\ Lane(shown) \in Nat
    BY LaneType, QueueFacts DEF DownOK, WindowOK
  <1>2. /\ Coming(down, 0, active) \in Nat
        /\ Coming(down', 0, active) =
              IF IsLane(x, active) THEN Coming(down, 0, active) + 1 ELSE Coming(down, 0, active)
    BY <1>1, ComingAppend, ComingType, 0 \in 0..Len(down)
  <1>3. Lane(shown) + Coming(down, 0, active) <= LaneOf[active]
    BY DEF ShownNotAhead
  <1>4. LaneOf[active] \in Nat /\ LaneOf'[active] \in Nat
    BY LaneOfType
  <1>5. LaneOf[active] + (IF IsLane(x, active) THEN 1 ELSE 0) <= LaneOf'[active]
    OBVIOUS
  <1> QED BY <1>1, <1>2, <1>3, <1>4, <1>5

LEMMA OutgoingAheadKept ==
    ASSUME OutgoingOK, OutgoingNotAhead, CoreOK,
           LaneOf' \in [Threads -> Nat], \A t \in Threads : LaneOf[t] <= LaneOf'[t],
           \/ outgoing' = outgoing
           \/ outgoing # <<>> /\ outgoing' = Tail(outgoing)
           \/ \E x : /\ outgoing' = Append(outgoing, x)
                     /\ x.say = "opened" =>
                          x.thread \in Threads /\ Lane(x.events) <= LaneOf'[x.thread]
           \/ outgoing' = <<>>
    PROVE  OutgoingNotAhead'
  <1> DEFINE Behind(m) == m.say = "opened" => Lane(m.events) <= LaneOf'[m.thread]
  <1>1. ASSUME NEW i \in 1..Len(outgoing) PROVE Behind(outgoing[i])
    <2> SUFFICES ASSUME outgoing[i].say = "opened"
                 PROVE  Lane(outgoing[i].events) <= LaneOf'[outgoing[i].thread]
      OBVIOUS
    <2>1. PICK m : m = outgoing[i]
      OBVIOUS
    <2>2. /\ m.thread \in Threads /\ Lane(m.events) \in Nat
          /\ Lane(m.events) <= LaneOf[m.thread]
      BY <2>1, LaneType DEF OutgoingOK, MessageOK, OutgoingNotAhead
    <2>3. LaneOf[m.thread] \in Nat /\ LaneOf'[m.thread] \in Nat /\ LaneOf[m.thread] <= LaneOf'[m.thread]
      BY <2>2, LaneOfType
    <2> QED BY <2>1, <2>2, <2>3
  <1>2. Queue(outgoing) /\ Len(outgoing) \in Nat
    BY QueueFacts DEF OutgoingOK
  <1>3. \A i \in 1..Len(outgoing') : Behind(outgoing'[i])
    <2>1. CASE outgoing' = outgoing
      BY <1>1, <2>1
    <2>2. CASE outgoing # <<>> /\ outgoing' = Tail(outgoing)
      <3>1. /\ Len(outgoing') = Len(outgoing) - 1
            /\ \A i \in 1..Len(outgoing) - 1 : outgoing'[i] = outgoing[i + 1]
        BY <1>2, <2>2, QueueTail
      <3>2. \A i \in 1..Len(outgoing') : i + 1 \in 1..Len(outgoing)
        BY <1>2, <3>1
      <3> QED BY <1>1, <3>1, <3>2
    <2>3. CASE \E x : /\ outgoing' = Append(outgoing, x)
                      /\ x.say = "opened" =>
                           x.thread \in Threads /\ Lane(x.events) <= LaneOf'[x.thread]
      <3>1. PICK x : outgoing' = Append(outgoing, x) /\ Behind(x)
        BY <2>3
      <3>2. /\ Len(outgoing') = Len(outgoing) + 1
            /\ \A i \in 1..Len(outgoing) : outgoing'[i] = outgoing[i]
            /\ outgoing'[Len(outgoing) + 1] = x
        BY <1>2, <3>1, QueueAppend
      <3>3. \A i \in 1..Len(outgoing') : i \in 1..Len(outgoing) \/ i = Len(outgoing) + 1
        BY <1>2, <3>2
      <3> QED BY <1>1, <3>1, <3>2, <3>3
    <2>4. CASE outgoing' = <<>>
      BY <2>4, EmptyQueue
    <2> QED BY <2>1, <2>2, <2>3, <2>4
  <1> QED BY <1>3 DEF OutgoingNotAhead

-----------------------------------------------------------------------------
(* The core and its server. *)

\* The window is left alone.
LEMMA WindowKept ==
    ASSUME IInv, UNCHANGED <<view, panel>>
    PROVE  WindowOK' /\ GateNotBehind' /\ ReadingKept
  BY DEF IInv, view, panel, WindowOK, GateNotBehind, ReadingKept

LEMMA NotesKept ==
    ASSUME IInv, UNCHANGED <<active, pinned>>
    PROVE  NotesOK'
  BY DEF IInv, NotesOK

LEMMA JudgingKept ==
    ASSUME WindowOK, JudgingOK, reads' \in Nat, reads <= reads',
           \A m \in judging' : m \in judging \/ (m.ask = "gate" /\ RequestOK(m)')
    PROVE  JudgingOK'
  <1>1. \A m : RequestOK(m) => RequestOK(m)'
    BY RequestKept
  <1> QED BY <1>1 DEF JudgingOK, RequestOK

LEMMA LogEventKeeps ==
    ASSUME IInv, NEW t \in Threads, LogEvent(t)
    PROVE  IInv'
  <1>e. PICK e : e = Script[t][logged[t] + 1]
    OBVIOUS
  <1>x. PICK x : x = [say |-> "event", thread |-> t, event |-> e]
    OBVIOUS
  <1>1. /\ logged' = [logged EXCEPT ![t] = logged[t] + 1] /\ logged[t] < Len(Script[t])
        /\ down' = (IF joined THEN Append(down, x) ELSE down)
        /\ UNCHANGED <<stored, up, judging, outgoing, view, pinned, panel>>
    BY <1>e, <1>x DEF LogEvent, Broadcast
  <1>2. /\ Script[t] \in Seq(Entries) /\ logged[t] \in Nat /\ logged[t] < Len(Script[t])
        /\ Len(Script[t]) \in Nat
    BY <1>1, LogFacts DEF IInv, CoreOK
  <1>3. e \in Entries
    BY <1>e, <1>2
  <1>4. CoreOK'
    <2>1. logged[t] + 1 \in Nat /\ logged[t] + 1 <= Len(Script[t])
      BY <1>2
    <2> QED BY <1>1, <2>1 DEF IInv, CoreOK
  <1>5. WindowOK' /\ NotesOK' /\ GateNotBehind' /\ ReadingKept
    BY <1>1, WindowKept, NotesKept DEF view
  <1>6. UpOK' /\ JudgingOK' /\ OutgoingOK'
    BY <1>1, <1>5, UpKept, JudgingKept, OutgoingKept DEF IInv, ReadingKept
  <1>7. MessageOK(x)'
    BY <1>3, <1>x DEF MessageOK
  <1>8. DownOK'
    BY <1>1, <1>5, <1>7, DownKept DEF IInv
  <1>9. LaneOf' \in [Threads -> Nat] /\ LaneOf \in [Threads -> Nat]
    BY <1>4, LaneOfType, LaneOfNextType DEF IInv
  <1>10. ASSUME NEW u \in Threads
         PROVE  LaneOf'[u] = LaneOf[u] + (IF u = t /\ e.kind \in LaneEvents THEN 1 ELSE 0)
    <2>1. CASE u # t
      <3>1. Log(u)' = Log(u)
        BY <1>1, <2>1 DEF Log, IInv, CoreOK
      <3> QED BY <1>9, <2>1, <3>1 DEF LaneOf
    <2>2. CASE u = t
      <3>1. logged'[t] = logged[t] + 1
        BY <1>1 DEF IInv, CoreOK
      <3>2. SubSeq(Script[t], 1, logged[t] + 1) = Append(SubSeq(Script[t], 1, logged[t]), e)
        BY <1>e, <1>2, PrefixGrows
      <3>3. Log(t)' = Append(Log(t), e) /\ Log(t) \in Seq(Entries)
        BY <3>1, <3>2, LogFacts DEF Log, IInv
      <3>4. Lane(Log(t))' = IF e.kind \in LaneEvents THEN Lane(Log(t)) + 1 ELSE Lane(Log(t))
        BY <1>3, <3>3, LaneFacts
      <3>5. LaneOf'[t] = Lane(Log(t))' /\ LaneOf[t] = Lane(Log(t))
        BY DEF LaneOf
      <3> QED BY <1>9, <2>2, <3>4, <3>5
    <2> QED BY <2>1, <2>2
  <1>11. \A u \in Threads : LaneOf[u] <= LaneOf'[u]
    BY <1>9, <1>10
  <1>12. OutgoingNotAhead'
    BY <1>1, <1>9, <1>11, OutgoingAheadKept DEF IInv
  <1>13. ShownNotAhead' /\ DownNotAhead'
    <2>1. CASE joined
      <3>1. down' = Append(down, x)
        BY <1>1, <2>1
      <3>2. \A u \in Threads : LaneOf[u] + (IF IsLane(x, u) THEN 1 ELSE 0) <= LaneOf'[u]
        BY <1>x, <1>9, <1>10 DEF IsLane
      <3>3. x.say # "opened"
        BY <1>x
      <3>4. UNCHANGED <<active, shown>>
        BY <1>1 DEF view
      <3> QED BY <1>9, <3>1, <3>2, <3>3, <3>4, DownAheadAppend, ShownAheadAppend DEF IInv
    <2>2. CASE ~joined
      <3>1. down' = down /\ active' = active /\ shown' = shown
        BY <1>1, <2>2 DEF view
      <3>2. ShownNotAhead'
        <4> SUFFICES ASSUME active \in Threads
                     PROVE  Lane(shown) + Coming(down, 0, active) <= LaneOf'[active]
          BY <3>1 DEF ShownNotAhead
        <4>1. Lane(shown) + Coming(down, 0, active) <= LaneOf[active]
          BY DEF IInv, ShownNotAhead
        <4>2. Lane(shown) \in Nat /\ Coming(down, 0, active) \in Nat
          BY LaneType, ComingType DEF IInv, WindowOK, DownOK
        <4> QED BY <1>9, <1>11, <4>1, <4>2
      <3>3. DownNotAhead'
        <4> SUFFICES ASSUME NEW i \in 1..Len(down), down[i].say = "opened"
                     PROVE  Lane(down[i].events) + Coming(down, i, down[i].thread)
                               <= LaneOf'[down[i].thread]
          BY <3>1 DEF DownNotAhead
        <4>1. /\ down[i].thread \in Threads /\ Lane(down[i].events) \in Nat
              /\ Coming(down, i, down[i].thread) \in Nat
          <5>1. PICK m : m = down[i]
            OBVIOUS
          <5>2. m.thread \in Threads /\ Lane(m.events) \in Nat
            BY <5>1, LaneType DEF IInv, DownOK, MessageOK
          <5>3. i \in Nat /\ Queue(down)
            BY QueueFacts DEF IInv, DownOK
          <5> QED BY <5>1, <5>2, <5>3, ComingType
        <4>2. Lane(down[i].events) + Coming(down, i, down[i].thread) <= LaneOf[down[i].thread]
          BY DEF IInv, DownNotAhead
        <4> QED BY <1>9, <1>11, <4>1, <4>2
      <3> QED BY <3>2, <3>3
    <2> QED BY <2>1, <2>2
  <1> QED BY <1>4, <1>5, <1>6, <1>8, <1>12, <1>13 DEF IInv

\* A step that leaves the logs and the window alone, and adds at most a message
\* that is no event to the queue.
LEMMA QueueStep ==
    ASSUME IInv, UNCHANGED <<logged, view, panel>>, stored' \subseteq Threads,
           \/ down' = down
           \/ \E x : /\ down' = Append(down, x) /\ MessageOK(x) /\ x.say # "event"
                     /\ x.say = "opened" => Lane(x.events) <= LaneOf[x.thread]
    PROVE  /\ CoreOK' /\ WindowOK' /\ GateNotBehind' /\ ReadingKept
           /\ LaneOf' = LaneOf /\ LaneOf \in [Threads -> Nat]
           /\ \A m : MessageOK(m) => MessageOK(m)'
           /\ DownOK' /\ ShownNotAhead' /\ DownNotAhead'
  <1>1. CoreOK'
    BY DEF IInv, CoreOK
  <1>2. WindowOK' /\ GateNotBehind' /\ ReadingKept
    BY WindowKept
  <1>3. LaneOf' = LaneOf /\ LaneOf \in [Threads -> Nat]
    BY LaneOfKept, LaneOfType DEF IInv
  <1>4. \A m : MessageOK(m) => MessageOK(m)'
    BY <1>2, MessageKept DEF IInv
  <1>5. CASE down' = down
    <2>1. DownOK'
      BY <1>2, <1>5, DownKept DEF IInv
    <2>2. ShownNotAhead' /\ DownNotAhead'
      BY <1>3, <1>5 DEF IInv, ShownNotAhead, DownNotAhead, view
    <2> QED BY <1>1, <1>2, <1>3, <1>4, <2>1, <2>2
  <1>6. CASE \E x : /\ down' = Append(down, x) /\ MessageOK(x) /\ x.say # "event"
                    /\ x.say = "opened" => Lane(x.events) <= LaneOf[x.thread]
    <2>1. PICK x : /\ down' = Append(down, x) /\ MessageOK(x) /\ x.say # "event"
                   /\ x.say = "opened" => Lane(x.events) <= LaneOf[x.thread]
      BY <1>6
    <2>2. DownOK'
      BY <1>2, <1>4, <2>1, DownKept DEF IInv
    <2>3. \A u \in Threads : LaneOf[u] + (IF IsLane(x, u) THEN 1 ELSE 0) <= LaneOf'[u]
      BY <1>3, <2>1 DEF IsLane
    <2>4. x.say = "opened" =>
             x.thread \in Threads /\ Lane(x.events) \in Nat /\ Lane(x.events) <= LaneOf'[x.thread]
      BY <1>3, <2>1, LaneType DEF MessageOK
    <2>5. UNCHANGED <<active, shown>>
      BY DEF view
    <2>6. ShownNotAhead' /\ DownNotAhead'
      BY <1>3, <2>1, <2>3, <2>4, <2>5, DownAheadAppend, ShownAheadAppend DEF IInv
    <2> QED BY <1>1, <1>2, <1>3, <1>4, <2>2, <2>6
  <1> QED BY <1>5, <1>6

LEMMA RemoveThreadKeeps ==
    ASSUME IInv, NEW t \in Threads, RemoveThread(t)
    PROVE  IInv'
  <1>x. PICK x : x = [say |-> "removed", thread |-> t]
    OBVIOUS
  <1>1. /\ stored' \subseteq Threads
        /\ down' = (IF joined THEN Append(down, x) ELSE down)
        /\ UNCHANGED <<logged, up, judging, outgoing, view, pinned, panel>>
    BY <1>x DEF RemoveThread, Broadcast, IInv, CoreOK
  <1>2. MessageOK(x) /\ x.say \notin {"event", "opened"}
    BY <1>x DEF MessageOK
  <1>3. /\ CoreOK' /\ WindowOK' /\ GateNotBehind' /\ ReadingKept
        /\ LaneOf' = LaneOf /\ LaneOf \in [Threads -> Nat]
        /\ DownOK' /\ ShownNotAhead' /\ DownNotAhead'
    BY <1>1, <1>2, QueueStep
  <1>4. NotesOK'
    BY <1>1, NotesKept DEF view
  <1>5. UpOK' /\ JudgingOK' /\ OutgoingOK'
    BY <1>1, <1>3, UpKept, JudgingKept, OutgoingKept DEF IInv, ReadingKept
  <1>6. OutgoingNotAhead'
    BY <1>1, <1>3, OutgoingAheadKept DEF IInv
  <1> QED BY <1>3, <1>4, <1>5, <1>6 DEF IInv

\* A step that queues at most one reply, or takes one.
LEMMA ReplyStep ==
    ASSUME IInv, UNCHANGED <<logged, view, pinned, panel>>, stored' \subseteq Threads,
           \/ down' = down
           \/ \E x : /\ down' = Append(down, x) /\ MessageOK(x) /\ x.say # "event"
                     /\ x.say = "opened" => Lane(x.events) <= LaneOf[x.thread],
           \/ outgoing' = outgoing
           \/ outgoing # <<>> /\ outgoing' = Tail(outgoing)
           \/ \E r : /\ outgoing' = Append(outgoing, r) /\ MessageOK(r) /\ r.say # "event"
                     /\ r.say = "opened" => Lane(r.events) <= LaneOf[r.thread],
           up' = up \/ (up # <<>> /\ up' = Tail(up)),
           \A m \in judging' : m \in judging \/ (m.ask = "gate" /\ RequestOK(m))
    PROVE  IInv'
  <1>1. /\ CoreOK' /\ WindowOK' /\ GateNotBehind' /\ ReadingKept
        /\ LaneOf' = LaneOf /\ LaneOf \in [Threads -> Nat]
        /\ \A m : MessageOK(m) => MessageOK(m)'
        /\ DownOK' /\ ShownNotAhead' /\ DownNotAhead'
    BY QueueStep
  <1>2. NotesOK'
    BY NotesKept DEF view
  <1>3. UpOK'
    BY <1>1, UpKept DEF IInv, ReadingKept
  <1>4. JudgingOK'
    <2>1. \A m : RequestOK(m) => RequestOK(m)'
      BY <1>1, RequestKept DEF IInv, ReadingKept
    <2> QED BY <1>1, <2>1, JudgingKept DEF IInv, ReadingKept
  <1>5. OutgoingOK'
    BY <1>1, OutgoingKept DEF IInv
  <1>6. OutgoingNotAhead'
    <2>1. \A t \in Threads : LaneOf[t] <= LaneOf'[t]
      BY <1>1
    <2>2. CASE \E r : /\ outgoing' = Append(outgoing, r) /\ MessageOK(r) /\ r.say # "event"
                      /\ r.say = "opened" => Lane(r.events) <= LaneOf[r.thread]
      <3>1. PICK r : /\ outgoing' = Append(outgoing, r) /\ MessageOK(r)
                     /\ r.say = "opened" => Lane(r.events) <= LaneOf[r.thread]
        BY <2>2
      <3>2. r.say = "opened" => r.thread \in Threads /\ Lane(r.events) <= LaneOf'[r.thread]
        BY <1>1, <3>1 DEF MessageOK
      <3> QED BY <1>1, <2>1, <3>1, <3>2, OutgoingAheadKept DEF IInv
    <2> QED BY <1>1, <2>1, <2>2, OutgoingAheadKept DEF IInv
  <1> QED BY <1>1, <1>2, <1>3, <1>4, <1>5, <1>6 DEF IInv

LEMMA ServeKeeps ==
    ASSUME IInv, Serve
    PROVE  IInv'
  <1>m. PICK m : m = Head(up)
    OBVIOUS
  <1>1. /\ up # <<>> /\ up' = Tail(up)
        /\ UNCHANGED <<logged, stored, down, view, pinned, panel>>
    BY DEF Serve
  <1>2. RequestOK(m)
    BY <1>1, <1>m, QueueFacts DEF IInv, UpOK
  <1>3. stored' \subseteq Threads /\ stored \subseteq Threads
    BY <1>1 DEF IInv, CoreOK
  <1>4. CASE m.ask = "gate" /\ judging' = judging \cup {m} /\ outgoing' = outgoing
    BY <1>1, <1>2, <1>3, <1>4, ReplyStep
  <1>5. ASSUME judging' = judging,
               \E r : /\ outgoing' = Append(outgoing, r) /\ MessageOK(r) /\ r.say # "event"
                      /\ r.say = "opened" => Lane(r.events) <= LaneOf[r.thread]
        PROVE  IInv'
    BY <1>1, <1>3, <1>5, ReplyStep
  <1>6. CASE m.ask = "hello" /\ outgoing' = Append(outgoing, Hello(m)) /\ judging' = judging
    <2>1. MessageOK(Hello(m)) /\ Hello(m).say \notin {"event", "opened"}
      BY DEF Hello, MessageOK
    <2> QED BY <1>5, <1>6, <2>1
  <1>7. CASE m.ask = "open" /\ outgoing' = Append(outgoing, Opened(m)) /\ judging' = judging
    <2>1. CASE m.thread \in stored
      <3>1. PICK r : r = [say |-> "opened", by |-> m.by, thread |-> m.thread,
                          events |-> Log(m.thread), overtaken |-> FALSE]
        OBVIOUS
      <3>2. Opened(m) = r
        BY <2>1, <3>1 DEF Opened
      <3>3. m.thread \in Threads /\ Log(m.thread) \in Seq(Entries) /\ Lane(Log(m.thread)) \in Nat
        BY <1>3, <2>1, LogFacts DEF IInv
      <3>4. MessageOK(r)
        BY <3>1, <3>3 DEF MessageOK
      <3>5. Lane(r.events) <= LaneOf[r.thread]
        BY <3>1, <3>3 DEF LaneOf
      <3> QED BY <1>5, <1>7, <3>1, <3>2, <3>4, <3>5
    <2>2. CASE m.thread \notin stored
      <3>1. MessageOK(Opened(m)) /\ Opened(m).say \notin {"event", "opened"}
        BY <2>2 DEF Opened, MessageOK
      <3> QED BY <1>5, <1>7, <3>1
    <2> QED BY <2>1, <2>2
  <1>8. CASE m.ask = "notes" /\ outgoing' = Append(outgoing, Notes(m)) /\ judging' = judging
    <2>1. MessageOK(Notes(m)) /\ Notes(m).say \notin {"event", "opened"}
      BY DEF Notes, MessageOK
    <2> QED BY <1>5, <1>8, <2>1
  <1>9. CASE /\ m.ask = "set" /\ judging' = judging
             /\ \E ok \in BOOLEAN : outgoing' = Append(outgoing,
                    [say |-> "set", by |-> m.by, thread |-> m.thread, text |-> m.text, ok |-> ok])
    <2>1. PICK ok \in BOOLEAN : outgoing' = Append(outgoing,
              [say |-> "set", by |-> m.by, thread |-> m.thread, text |-> m.text, ok |-> ok])
      BY <1>9
    <2>2. PICK r : r = [say |-> "set", by |-> m.by, thread |-> m.thread, text |-> m.text, ok |-> ok]
      OBVIOUS
    <2>3. MessageOK(r) /\ r.say \notin {"event", "opened"}
      BY <1>2, <1>9, <2>2 DEF RequestOK, MessageOK
    <2> QED BY <1>5, <1>9, <2>1, <2>2, <2>3
  <1> QED BY <1>m, <1>4, <1>6, <1>7, <1>8, <1>9 DEF Serve

LEMMA JudgeKeeps ==
    ASSUME IInv, NEW m \in judging, Judge(m)
    PROVE  IInv'
  <1>r. PICK r : r = [say |-> "gate", thread |-> m.thread, read |-> m.read,
                      lane |-> Lane(Log(m.thread)), ok |-> m.thread \in stored]
    OBVIOUS
  <1>1. /\ judging' = judging \ {m} /\ outgoing' = Append(outgoing, r)
        /\ UNCHANGED <<logged, stored, up, down, view, pinned, panel>>
    BY <1>r DEF Judge, core
  <1>2. m.thread \in Threads /\ m.read \in 1..reads /\ Lane(Log(m.thread)) \in Nat
    BY LogFacts DEF IInv, JudgingOK, RequestOK
  <1>3. Wanted(r) => Lane(shown) <= r.lane
    <2> SUFFICES ASSUME r.thread = active PROVE Lane(shown) <= r.lane
      BY DEF Wanted
    <2>1. Lane(shown) + Coming(down, 0, active) <= LaneOf[active]
      BY <1>2, <1>r DEF IInv, ShownNotAhead
    <2>2. Lane(shown) \in Nat /\ Coming(down, 0, active) \in Nat
      BY LaneType, ComingType DEF IInv, WindowOK, DownOK
    <2>3. LaneOf[active] = Lane(Log(active)) /\ r.lane = Lane(Log(active)) /\ r.lane \in Nat
      BY <1>2, <1>r DEF LaneOf
    <2> QED BY <2>1, <2>2, <2>3
  <1>4. MessageOK(r) /\ r.say \notin {"event", "opened"}
    BY <1>2, <1>3, <1>r DEF MessageOK, AnswerOK
  <1>5. stored' \subseteq Threads
    BY <1>1 DEF IInv, CoreOK
  <1> QED BY <1>1, <1>4, <1>5, ReplyStep

LEMMA SendKeeps ==
    ASSUME IInv, Send
    PROVE  IInv'
  <1>r. PICK r : r = Head(outgoing)
    OBVIOUS
  <1>1. /\ outgoing # <<>> /\ outgoing' = Tail(outgoing)
        /\ UNCHANGED <<logged, stored, up, judging, view, pinned, panel>>
    BY DEF Send, core
  <1>2. /\ MessageOK(r) /\ r.say # "event"
        /\ r.say = "opened" => Lane(r.events) <= LaneOf[r.thread]
    BY <1>1, <1>r, QueueFacts DEF IInv, OutgoingOK, OutgoingNotAhead
  <1>3. PICK over : down' = Append(down, IF r.say # "opened" THEN r
                                         ELSE [r EXCEPT !.overtaken = over])
    BY <1>r DEF Send
  <1>4. PICK x : x = IF r.say # "opened" THEN r ELSE [r EXCEPT !.overtaken = over]
    OBVIOUS
  <1>5. /\ MessageOK(x) /\ x.say # "event"
        /\ x.say = "opened" => Lane(x.events) <= LaneOf[x.thread]
    <2>1. CASE r.say # "opened"
      BY <1>2, <1>4, <2>1
    <2>2. CASE r.say = "opened"
      <3>1. r = [say |-> "opened", by |-> r.by, thread |-> r.thread,
                 events |-> r.events, overtaken |-> r.overtaken]
        BY <1>2, <2>2 DEF MessageOK
      <3>2. x = [say |-> "opened", by |-> r.by, thread |-> r.thread,
                 events |-> r.events, overtaken |-> over]
        BY <1>4, <2>2, <3>1
      <3> QED BY <1>2, <2>2, <3>2 DEF MessageOK
    <2> QED BY <2>1, <2>2
  <1>6. stored' \subseteq Threads
    BY <1>1 DEF IInv, CoreOK
  <1> QED BY <1>1, <1>3, <1>4, <1>5, <1>6, ReplyStep

-----------------------------------------------------------------------------
(* The window's own steps. *)

\* Asking for a flush or an opening changes no notes.
NotesHeld ==
    /\ pinned'.thread = pinned.thread /\ pinned'.text = pinned.text
    /\ pinned' = [thread |-> pinned'.thread, text |-> pinned'.text, save |-> pinned'.save]
    /\ pinned.thread = NoThread => pinned'.save = "saved"

LEMMA FlushHolds ==
    ASSUME IInv, pinned.thread # NoThread, NEW by, FlushTo(by), reads' = reads
    PROVE  NotesHeld /\ UpOK'
  <1>p. PICK how : pinned' = [pinned EXCEPT !.save = how]
    BY DEF FlushTo
  <1>1. NotesHeld
    <2>1. pinned = [thread |-> pinned.thread, text |-> pinned.text, save |-> pinned.save]
      BY DEF IInv, NotesOK
    <2>2. pinned' = [thread |-> pinned.thread, text |-> pinned.text, save |-> how]
      BY <1>p, <2>1
    <2> QED BY <2>2 DEF NotesHeld
  <1>x. PICK x : x = [ask |-> "set", by |-> by, thread |-> pinned.thread, text |-> pinned.text]
    OBVIOUS
  <1>2. pinned.thread \in Threads
    BY DEF IInv, NotesOK, WindowOK
  <1>3. RequestOK(x)'
    BY <1>x, <1>2 DEF RequestOK
  <1>4. up' = Append(up, x) \/ up' = up
    BY <1>x DEF FlushTo, Request
  <1>5. reads' \in Nat /\ reads <= reads'
    BY DEF IInv, WindowOK
  <1>6. UpOK'
    BY <1>3, <1>4, <1>5, UpKept DEF IInv
  <1> QED BY <1>1, <1>6

LEMMA BeginHolds ==
    ASSUME IInv, NEW o, NEW t, Begin(o, t), reads' = reads
    PROVE  NotesHeld /\ UpOK'
  <1>1. CASE Unsaved
    <2>1. pinned.thread # NoThread
      BY <1>1 DEF Unsaved, IInv, NotesOK
    <2> QED BY <1>1, <2>1, FlushHolds DEF Begin
  <1>2. CASE ~Unsaved
    <2>x. PICK x : x = AskOpen(o, t)
      OBVIOUS
    <2>1. (up' = Append(up, x) \/ up' = up) /\ pinned' = pinned
      BY <1>2, <2>x DEF Begin, Request
    <2>2. RequestOK(x)'
      BY <2>x DEF AskOpen, RequestOK
    <2>3. reads' \in Nat /\ reads <= reads'
      BY DEF IInv, WindowOK
    <2>4. UpOK'
      BY <2>1, <2>2, <2>3, UpKept DEF IInv
    <2>5. NotesHeld
      BY <2>1 DEF NotesHeld, IInv, NotesOK
    <2> QED BY <2>4, <2>5
  <1> QED BY <1>1, <1>2

LEMMA HeldNotes ==
    ASSUME IInv, NotesHeld, active' = active
    PROVE  NotesOK'
  BY DEF NotesHeld, IInv, NotesOK

\* A step of the window that takes no message.
LEMMA OwnStep ==
    ASSUME IInv, UNCHANGED <<core, judging, outgoing, down, view, panel>>,
           NotesOK', UpOK'
    PROVE  IInv'
  <1>1. UNCHANGED logged /\ stored' \subseteq Threads
    BY DEF core, IInv, CoreOK
  <1>2. /\ CoreOK' /\ WindowOK' /\ GateNotBehind' /\ ReadingKept
        /\ LaneOf' = LaneOf /\ LaneOf \in [Threads -> Nat]
        /\ DownOK' /\ ShownNotAhead' /\ DownNotAhead'
    BY <1>1, QueueStep
  <1>3. JudgingOK' /\ OutgoingOK'
    BY <1>2, JudgingKept, OutgoingKept DEF IInv, ReadingKept
  <1>4. OutgoingNotAhead'
    BY <1>2, OutgoingAheadKept DEF IInv
  <1> QED BY <1>2, <1>3, <1>4 DEF IInv

LEMMA SaveNotesKeeps ==
    ASSUME IInv, SaveNotes
    PROVE  IInv' /\ NotesHeld
  <1>1. /\ pinned.thread # NoThread /\ FlushTo("timer")
        /\ UNCHANGED <<core, judging, outgoing, down, view, panel>> /\ reads' = reads
    BY DEF SaveNotes, IInv, NotesOK, panel
  <1>2. NotesHeld /\ UpOK'
    BY <1>1, FlushHolds
  <1>3. NotesOK'
    BY <1>1, <1>2, HeldNotes DEF view
  <1> QED BY <1>1, <1>2, <1>3, OwnStep

LEMMA ClickKeeps ==
    ASSUME IInv, NEW o, NEW t, Click(o, t)
    PROVE  IInv' /\ NotesHeld
  <1>1. /\ Begin(o, t) /\ UNCHANGED <<core, judging, outgoing, down, view, panel>>
        /\ reads' = reads
    BY DEF Click, panel
  <1>2. NotesHeld /\ UpOK'
    BY <1>1, BeginHolds
  <1>3. NotesOK'
    BY <1>1, <1>2, HeldNotes DEF view
  <1> QED BY <1>1, <1>2, <1>3, OwnStep

LEMMA EditNotesKeeps ==
    ASSUME IInv, EditNotes
    PROVE  IInv' /\ pinned'.thread = pinned.thread
  <1>1. /\ pinned.thread # NoThread
        /\ UNCHANGED <<core, up, judging, outgoing, down, view, panel>>
    BY DEF EditNotes
  <1>2. PICK text : pinned' = [pinned EXCEPT !.text = text, !.save = "unsaved"]
    BY DEF EditNotes
  <1>3. pinned = [thread |-> pinned.thread, text |-> pinned.text, save |-> pinned.save]
    BY DEF IInv, NotesOK
  <1>4. pinned' = [thread |-> pinned.thread, text |-> text, save |-> "unsaved"]
    BY <1>2, <1>3
  <1>5. NotesOK' /\ pinned'.thread = pinned.thread
    BY <1>1, <1>4 DEF IInv, NotesOK, view
  <1>6. UpOK'
    BY <1>1 DEF IInv, UpOK, RequestOK, panel
  <1> QED BY <1>1, <1>5, <1>6, OwnStep

LEMMA ConnectKeeps ==
    ASSUME IInv, Connect
    PROVE  IInv'
  <1>x. PICK x : x = [ask |-> "hello"]
    OBVIOUS
  <1>1. up' = <<x>> /\ UNCHANGED <<core, judging, outgoing, down, view, pinned, panel>>
    BY <1>x DEF Connect
  <1>2. UpOK'
    <2>1. <<x>> \in Seq({x}) /\ Len(<<x>>) = 1 /\ <<x>>[1] = x
      OBVIOUS
    <2>2. Queue(<<x>>)
      BY <2>1, SequenceIsQueue
    <2> QED BY <1>x, <1>1, <2>1, <2>2 DEF UpOK, RequestOK
  <1>3. NotesOK'
    BY <1>1, NotesKept DEF view
  <1> QED BY <1>1, <1>2, <1>3, OwnStep

\* Nothing is open: nothing to be ahead, nothing to be kept.
LEMMA ClosedWindow ==
    ASSUME IInv, Close, reads' = reads, reading' \in 0..reads,
           gate' \in [lane : Nat, stale : BOOLEAN]
    PROVE  /\ WindowOK' /\ NotesOK' /\ GateNotBehind' /\ ReadingKept /\ ShownNotAhead'
           /\ active' = NoThread
  <1>1. active' = NoThread /\ shown' = <<>> /\ pinned' = NoNotes
    BY DEF Close, Show
  <1>2. reads \in Nat /\ active' \notin Threads
    BY <1>1, ThreadsAssumption DEF IInv, WindowOK
  <1>3. WindowOK'
    BY <1>1, <1>2 DEF WindowOK
  <1>4. NotesOK'
    BY <1>1 DEF NotesOK, NoNotes
  <1>5. GateNotBehind'
    BY <1>1, <1>3, LaneOfNothing DEF GateNotBehind, WindowOK
  <1>6. ReadingKept /\ ShownNotAhead'
    BY <1>2 DEF ReadingKept, ShownNotAhead
  <1> QED BY <1>1, <1>3, <1>4, <1>5, <1>6

\* The failure of a flush is shown; the notes are as they were.
LEMMA LoseKeeps ==
    ASSUME IInv, Lose
    PROVE  IInv' /\ (Close \/ (NotesHeld /\ active' = active))
  <1>1. /\ up' = <<>> /\ judging' = {} /\ outgoing' = <<>> /\ down' = <<>>
        /\ reading' = 0 /\ gate' = [gate EXCEPT !.stale = TRUE]
        /\ reads' = reads /\ UNCHANGED <<core, reads>>
        /\ \/ Close
           \/ /\ pinned' = IF pinned.save = "saving" THEN [pinned EXCEPT !.save = "failed"]
                                                     ELSE pinned
              /\ UNCHANGED view
    BY DEF Lose
  <1>2. reads \in Nat /\ reading' \in 0..reads /\ gate' \in [lane : Nat, stale : BOOLEAN] /\ gate'.stale
    <2>1. reads \in Nat /\ gate \in [lane : Nat, stale : BOOLEAN]
      BY DEF IInv, WindowOK
    <2>2. gate' = [lane |-> gate.lane, stale |-> TRUE] /\ gate.lane \in Nat
      BY <1>1, <2>1
    <2>3. reading' = 0 /\ 0 \in 0..reads
      BY <1>1, <2>1
    <2> QED BY <2>1, <2>2, <2>3
  <1>3. CoreOK' /\ LaneOf' = LaneOf /\ LaneOf \in [Threads -> Nat]
    BY <1>1, CoreKept, LaneOfKept, LaneOfType DEF IInv, core
  <1>4. UpOK' /\ JudgingOK' /\ OutgoingOK' /\ DownOK'
    BY <1>1, EmptyQueue DEF UpOK, JudgingOK, OutgoingOK, DownOK
  <1>5. OutgoingNotAhead' /\ DownNotAhead'
    BY <1>1, EmptyQueue DEF OutgoingNotAhead, DownNotAhead
  <1>6. ASSUME Close PROVE IInv' /\ (Close \/ (NotesHeld /\ active' = active))
    <2>1. WindowOK' /\ NotesOK' /\ GateNotBehind' /\ ShownNotAhead'
      BY <1>1, <1>2, <1>6, ClosedWindow
    <2>2. IInv'
      BY <1>3, <1>4, <1>5, <2>1 DEF IInv
    <2> QED BY <1>6, <2>2
  <1>7. ASSUME pinned' = IF pinned.save = "saving" THEN [pinned EXCEPT !.save = "failed"] ELSE pinned,
               UNCHANGED view
        PROVE  IInv' /\ (Close \/ (NotesHeld /\ active' = active))
    <2>1. active' = active /\ shown' = shown
      BY <1>7 DEF view
    <2>2. NotesHeld
      <3>1. pinned = [thread |-> pinned.thread, text |-> pinned.text, save |-> pinned.save]
        BY DEF IInv, NotesOK
      <3>2. CASE pinned.save = "saving"
        <4>1. pinned' = [thread |-> pinned.thread, text |-> pinned.text, save |-> "failed"]
          BY <1>7, <3>1, <3>2
        <4>2. pinned.thread # NoThread
          BY <3>2 DEF IInv, NotesOK
        <4> QED BY <4>1, <4>2 DEF NotesHeld
      <3>3. CASE pinned.save # "saving"
        BY <1>7, <3>1, <3>3 DEF NotesHeld, IInv, NotesOK
      <3> QED BY <3>2, <3>3
    <2>3. NotesOK'
      BY <2>1, <2>2, HeldNotes
    <2>4. WindowOK' /\ GateNotBehind'
      BY <1>1, <1>2, <2>1 DEF IInv, WindowOK, GateNotBehind
    <2>5. ShownNotAhead'
      <3> SUFFICES ASSUME active \in Threads
                   PROVE  Lane(shown) + Coming(<<>>, 0, active) <= LaneOf[active]
        BY <1>1, <1>3, <2>1 DEF ShownNotAhead
      <3>1. Lane(shown) + Coming(down, 0, active) <= LaneOf[active]
        BY DEF IInv, ShownNotAhead
      <3>2. /\ Lane(shown) \in Nat /\ Coming(down, 0, active) \in Nat
            /\ Coming(<<>>, 0, active) = 0
        BY LaneType, ComingType, EmptyQueue DEF IInv, WindowOK, DownOK
      <3> QED BY <1>3, <3>1, <3>2
    <2> QED BY <1>3, <1>4, <1>5, <2>1, <2>2, <2>3, <2>4, <2>5 DEF IInv
  <1> QED BY <1>1, <1>6, <1>7


-----------------------------------------------------------------------------
(* The window takes a message. *)

\* Notes that are not saved are still there, or their thread was left.
NotesSafe ==
    \/ pinned.save = "saved" \/ active' # active
    \/ pinned'.thread = pinned.thread /\ pinned'.text = pinned.text

\* The message at the front.
Arriving(m) == IInv /\ down # <<>> /\ down' = Tail(down) /\ m = down[1] /\ UNCHANGED logged

LEMMA ArrivingFacts ==
    ASSUME NEW m, Arriving(m)
    PROVE  /\ MessageOK(m) /\ Queue(down) /\ Len(down) \in Nat /\ 1 \in 1..Len(down)
           /\ LaneOf' = LaneOf /\ LaneOf \in [Threads -> Nat]
           /\ m.say = "opened" => Lane(m.events) + Coming(down, 1, m.thread) <= LaneOf[m.thread]
           /\ \A t : Coming(down', 0, t) = Coming(down, 1, t) /\ Coming(down, 1, t) \in Nat
           /\ \A t : Coming(down, 0, t) =
                        IF IsLane(m, t) THEN Coming(down, 1, t) + 1 ELSE Coming(down, 1, t)
  <1>1. Queue(down) /\ Len(down) \in Nat /\ 1 \in 1..Len(down) /\ 0 \in 0..Len(down) - 1
    BY QueueFacts DEF Arriving, IInv, DownOK
  <1>2. MessageOK(m)
    BY <1>1 DEF Arriving, IInv, DownOK
  <1>3. LaneOf' = LaneOf /\ LaneOf \in [Threads -> Nat]
    BY LaneOfKept, LaneOfType DEF Arriving, IInv
  <1>4. m.say = "opened" => Lane(m.events) + Coming(down, 1, m.thread) <= LaneOf[m.thread]
    BY <1>1 DEF Arriving, IInv, DownNotAhead
  <1>5. \A t : Coming(down', 0, t) = Coming(down, 1, t)
    <2> SUFFICES ASSUME NEW t PROVE Coming(down', 0, t) = Coming(down, 1, t)
      OBVIOUS
    <2>1. Coming(Tail(down), 0, t) = Coming(down, 0 + 1, t)
      BY <1>1, ComingTail DEF Arriving
    <2>2. Coming(down', 0, t) = Coming(Tail(down), 0, t)
      BY DEF Arriving, Coming
    <2> QED BY <2>1, <2>2
  <1>6. \A t : Coming(down, 1, t) \in Nat
    BY <1>1, ComingType
  <1>7. \A t : Coming(down, 0, t) =
                  IF IsLane(m, t) THEN Coming(down, 1, t) + 1 ELSE Coming(down, 1, t)
    BY <1>1, ComingHead DEF Arriving
  <1> QED BY <1>1, <1>2, <1>3, <1>4, <1>5, <1>6, <1>7

\* Taking a message leaves the core and what is on its way elsewhere alone.
LEMMA ReceiveStep ==
    ASSUME NEW m, Arriving(m), UNCHANGED <<core, judging, outgoing>>,
           WindowOK', NotesOK', GateNotBehind', ReadingKept, UpOK', ShownNotAhead'
    PROVE  IInv'
  <1>1. CoreOK'
    BY CoreKept DEF Arriving, IInv
  <1>2. LaneOf' = LaneOf /\ LaneOf \in [Threads -> Nat]
    BY ArrivingFacts
  <1>3. JudgingOK' /\ OutgoingOK' /\ DownOK'
    BY JudgingKept, OutgoingKept, DownKept DEF Arriving, IInv, ReadingKept
  <1>4. OutgoingNotAhead'
    BY <1>2, OutgoingAheadKept DEF Arriving, IInv
  <1>5. DownNotAhead'
    BY <1>2, DownAheadTail DEF Arriving, IInv
  <1> QED BY <1>1, <1>3, <1>4, <1>5 DEF IInv

\* The transcript stays as it is.
LEMMA ShownKept ==
    ASSUME NEW m, Arriving(m), UNCHANGED <<active, shown>>
    PROVE  ShownNotAhead'
  <1> SUFFICES ASSUME active \in Threads
               PROVE  Lane(shown) + Coming(down', 0, active) <= LaneOf'[active]
    BY DEF ShownNotAhead
  <1>1. Lane(shown) + Coming(down, 0, active) <= LaneOf[active] /\ Lane(shown) \in Nat
    BY LaneType DEF Arriving, IInv, ShownNotAhead, WindowOK
  <1>2. /\ LaneOf' = LaneOf /\ LaneOf[active] \in Nat
        /\ Coming(down', 0, active) = Coming(down, 1, active) /\ Coming(down, 1, active) \in Nat
        /\ Coming(down, 0, active) =
              IF IsLane(m, active) THEN Coming(down, 1, active) + 1 ELSE Coming(down, 1, active)
    BY ArrivingFacts
  <1> QED BY <1>1, <1>2

\* What a request leaves on its way up.
LEMMA UpAppended ==
    ASSUME IInv, reads' \in Nat, reads <= reads', NEW x, RequestOK(x)',
           up' = Append(up, x) \/ up' = up
    PROVE  UpOK'
  BY UpKept DEF IInv

\* A window that stays as it is.
LEMMA StillWindow ==
    ASSUME NEW m, Arriving(m), UNCHANGED <<core, judging, outgoing, active, shown, panel>>,
           NotesOK', UpOK'
    PROVE  IInv'
  <1>1. WindowOK' /\ GateNotBehind' /\ ReadingKept
    BY DEF Arriving, IInv, panel, WindowOK, GateNotBehind, ReadingKept
  <1>2. ShownNotAhead'
    BY ShownKept
  <1> QED BY <1>1, <1>2, ReceiveStep

\* What is closed had no notes to lose, or is another thread than before.
LEMMA ClosedNotes ==
    ASSUME IInv, Close
    PROVE  NotesSafe
  BY DEF IInv, NotesOK, Close, Show, NotesSafe

LEMMA TakeWelcomeKeeps ==
    ASSUME NEW m, Arriving(m), UNCHANGED <<core, judging, outgoing>>, TakeWelcome
    PROVE  IInv' /\ NotesSafe
  <1>1. UNCHANGED <<active, shown, panel>> /\ reads' = reads /\ reads \in Nat
    BY DEF TakeWelcome, view, panel, Arriving, IInv, WindowOK
  <1>2. NotesHeld /\ UpOK'
    <2>1. CASE active = NoThread
      <3>1. UNCHANGED <<up, pinned>>
        BY <2>1 DEF TakeWelcome
      <3>2. NotesHeld
        BY <3>1 DEF NotesHeld, Arriving, IInv, NotesOK
      <3>3. UpOK'
        BY <1>1, <3>1, UpKept DEF Arriving, IInv
      <3> QED BY <3>2, <3>3
    <2>2. CASE active # NoThread
      <3>1. Begin("resync", active)
        BY <2>2 DEF TakeWelcome
      <3> QED BY <1>1, <3>1, BeginHolds DEF Arriving
    <2> QED BY <2>1, <2>2
  <1>3. NotesOK'
    BY <1>1, <1>2, HeldNotes DEF Arriving
  <1>4. IInv'
    BY <1>1, <1>2, <1>3, StillWindow
  <1> QED BY <1>2, <1>4 DEF NotesHeld, NotesSafe

LEMMA TakeSetKeeps ==
    ASSUME NEW m, Arriving(m), m.say = "set", UNCHANGED <<core, judging, outgoing>>, TakeSet(m)
    PROVE  IInv' /\ NotesSafe
  <1>1. /\ UNCHANGED <<active, shown, panel>> /\ reads' = reads /\ reads \in Nat
        /\ pinned' = Flushed(m)
    BY DEF TakeSet, view, panel, Arriving, IInv, WindowOK
  <1>2. m.thread # NoThread
    BY ArrivingFacts, ThreadsAssumption DEF MessageOK
  <1>3. NotesHeld
    <2>1. pinned = [thread |-> pinned.thread, text |-> pinned.text, save |-> pinned.save]
      BY DEF Arriving, IInv, NotesOK
    <2>2. CASE pinned' = pinned
      BY <2>1, <2>2 DEF NotesHeld, Arriving, IInv, NotesOK
    <2>3. CASE pinned.thread = m.thread /\ \E how : pinned' = [pinned EXCEPT !.save = how]
      <3>1. PICK how : pinned' = [pinned EXCEPT !.save = how]
        BY <2>3
      <3>2. pinned' = [thread |-> pinned.thread, text |-> pinned.text, save |-> how]
        BY <2>1, <3>1
      <3> QED BY <1>2, <2>3, <3>2 DEF NotesHeld
    <2> QED BY <1>1, <2>2, <2>3 DEF Flushed
  <1>4. UpOK'
    <2>1. CASE m.by = "timer"
      <3>1. up' = up
        BY <2>1 DEF TakeSet
      <3> QED BY <1>1, <3>1, UpKept DEF Arriving, IInv
    <2>2. CASE m.by # "timer"
      <3>x. PICK x : x = AskOpen(m.by, opening[m.by].thread)
        OBVIOUS
      <3>1. up' = Append(up, x) \/ up' = up
        BY <2>2, <3>x DEF TakeSet, Request
      <3>2. RequestOK(x)'
        BY <3>x DEF AskOpen, RequestOK
      <3>3. reads' \in Nat /\ reads <= reads'
        BY <1>1
      <3> QED BY <3>1, <3>2, <3>3, UpAppended DEF Arriving
    <2> QED BY <2>1, <2>2
  <1>5. NotesOK'
    BY <1>1, <1>3, HeldNotes DEF Arriving
  <1>6. IInv'
    BY <1>1, <1>4, <1>5, StillWindow
  <1> QED BY <1>3, <1>6 DEF NotesHeld, NotesSafe

LEMMA TakeNotesKeeps ==
    ASSUME NEW m, Arriving(m), UNCHANGED <<core, judging, outgoing>>, TakeNotes(m)
    PROVE  IInv' /\ NotesSafe
  <1>1. /\ UNCHANGED <<active, shown, panel>> /\ reads' = reads /\ up' = up
        /\ pinned' = IF m.thread = active THEN Adopt(m) ELSE pinned
    BY DEF TakeNotes, view, panel
  <1>2. UpOK'
    BY <1>1, UpKept DEF Arriving, IInv, WindowOK
  <1>3. NotesOK' /\ NotesSafe
    <2>1. CASE pinned' = pinned
      BY <1>1, <2>1 DEF Arriving, IInv, NotesOK, NotesSafe
    <2>2. CASE /\ m.thread = active /\ ~(pinned.thread = m.thread /\ pinned.save # "saved")
               /\ pinned' = [thread |-> m.thread, text |-> m.text, save |-> "saved"]
      BY <1>1, <2>2 DEF Arriving, IInv, NotesOK, NotesSafe
    <2> QED BY <1>1, <2>1, <2>2 DEF Adopt
  <1>4. IInv'
    BY <1>1, <1>2, <1>3, StillWindow
  <1> QED BY <1>3, <1>4

LEMMA TakeGateKeeps ==
    ASSUME NEW m, Arriving(m), m.say = "gate", UNCHANGED <<core, judging, outgoing>>,
           gate' = GateAnswered(m), UNCHANGED <<view, pinned, reading, reads, up>>
    PROVE  IInv' /\ NotesSafe
  <1>1. AnswerOK(m)
    BY ArrivingFacts DEF MessageOK
  <1>2. WindowOK /\ GateNotBehind /\ gate \in [lane : Nat, stale : BOOLEAN]
    BY DEF Arriving, IInv, WindowOK
  <1>3. gate' \in [lane : Nat, stale : BOOLEAN] /\ (~gate'.stale => gate'.lane >= Lane(shown))
    <2>0. Lane(shown) \in Nat
      BY <1>2, LaneType DEF WindowOK
    <2>1. CASE Wanted(m)
      <3>1. gate' = [lane |-> m.lane, stale |-> FALSE]
        BY <2>1 DEF GateAnswered
      <3> QED BY <1>1, <2>0, <2>1, <3>1 DEF AnswerOK
    <2>2. CASE ~Wanted(m) /\ m.read = reading
      <3>1. gate' = [lane |-> gate.lane, stale |-> TRUE]
        BY <1>2, <2>2 DEF GateAnswered
      <3> QED BY <1>2, <3>1
    <2>3. CASE ~Wanted(m) /\ m.read # reading
      <3>1. gate' = gate
        BY <2>3 DEF GateAnswered
      <3> QED BY <1>2, <3>1 DEF GateNotBehind
    <2> QED BY <2>1, <2>2, <2>3
  <1>4. active' = active /\ shown' = shown
    BY DEF view
  <1>5. WindowOK' /\ GateNotBehind' /\ ReadingKept
    BY <1>2, <1>3, <1>4 DEF WindowOK, GateNotBehind, ReadingKept
  <1>6. NotesOK' /\ NotesSafe
    BY <1>4, NotesKept DEF Arriving, NotesSafe
  <1>7. UpOK'
    BY <1>2, UpKept DEF Arriving, IInv, WindowOK
  <1>8. ShownNotAhead'
    BY <1>4, ShownKept
  <1> QED BY <1>5, <1>6, <1>7, <1>8, ReceiveStep

LEMMA CloseKeeps ==
    ASSUME NEW m, Arriving(m), UNCHANGED <<core, judging, outgoing>>, Close,
           UNCHANGED <<reading, reads, up>>, gate' \in {gate, NoGate}
    PROVE  IInv' /\ NotesSafe
  <1>1. reading' \in 0..reads /\ reads \in Nat /\ gate' \in [lane : Nat, stale : BOOLEAN]
    <2>1. gate \in [lane : Nat, stale : BOOLEAN] /\ NoGate \in [lane : Nat, stale : BOOLEAN]
      BY DEF Arriving, IInv, WindowOK, NoGate
    <2> QED BY <2>1 DEF Arriving, IInv, WindowOK
  <1>2. WindowOK' /\ NotesOK' /\ GateNotBehind' /\ ReadingKept /\ ShownNotAhead'
    BY <1>1, ClosedWindow DEF Arriving
  <1>3. UpOK'
    BY <1>1, UpKept DEF Arriving, IInv
  <1>4. NotesSafe
    BY ClosedNotes DEF Arriving
  <1>5. IInv'
    BY <1>2, <1>3, ReceiveStep
  <1> QED BY <1>4, <1>5

LEMMA TakeRemovedKeeps ==
    ASSUME NEW m, Arriving(m), UNCHANGED <<core, judging, outgoing>>, TakeRemoved(m)
    PROVE  IInv' /\ NotesSafe
  <1>1. UNCHANGED <<reading, reads, up>>
    BY DEF TakeRemoved
  <1>2. CASE m.thread = active
    <2>1. Close /\ gate' \in {gate, NoGate}
      BY <1>2 DEF TakeRemoved
    <2> QED BY <1>1, <2>1, CloseKeeps
  <1>3. CASE m.thread # active
    <2>1. UNCHANGED <<active, shown, panel, pinned>>
      BY <1>3 DEF TakeRemoved, view, panel
    <2>2. UpOK'
      BY <1>1, UpKept DEF Arriving, IInv, WindowOK
    <2>3. NotesOK' /\ NotesSafe
      BY <2>1, NotesKept DEF Arriving, NotesSafe
    <2> QED BY <2>1, <2>2, <2>3, StillWindow
  <1> QED BY <1>2, <1>3

LEMMA TakeRefusedKeeps ==
    ASSUME NEW m, Arriving(m), UNCHANGED <<core, judging, outgoing>>,
           TakeRefused(m), UNCHANGED <<panel, up>>
    PROVE  IInv' /\ NotesSafe
  <1>1. UNCHANGED <<reading, reads, up, gate>>
    BY DEF panel
  <1>2. CASE Close
    <2>1. gate' \in {gate, NoGate}
      BY <1>1
    <2> QED BY <1>1, <1>2, <2>1, CloseKeeps
  <1>3. CASE UNCHANGED <<view, pinned>>
    <2>1. UNCHANGED <<active, shown, panel, pinned>>
      BY <1>3 DEF view
    <2>2. UpOK'
      BY <1>1, UpKept DEF Arriving, IInv, WindowOK
    <2>3. NotesOK' /\ NotesSafe
      BY <2>1, NotesKept DEF Arriving, NotesSafe
    <2> QED BY <2>1, <2>2, <2>3, StillWindow
  <1> QED BY <1>2, <1>3 DEF TakeRefused

\* An event of the open thread was counted as on its way; with one of the lane
\* the answer on display is stale and every read so far is unwanted.
LEMMA TakeEventKeeps ==
    ASSUME NEW m, Arriving(m), m.say = "event", UNCHANGED <<core, judging, outgoing>>,
           TakeEvent(m)
    PROVE  IInv' /\ NotesSafe
  <1>1. active' = active /\ pinned' = pinned
    BY DEF TakeEvent
  <1>2. NotesOK' /\ NotesSafe
    BY <1>1, NotesKept DEF Arriving, NotesSafe
  <1>3. CASE m.thread # active
    <2>1. UNCHANGED <<active, shown, panel>> /\ up' = up /\ reads' = reads
      BY <1>1, <1>3 DEF TakeEvent, panel
    <2>2. UpOK'
      BY <2>1, UpKept DEF Arriving, IInv, WindowOK
    <2> QED BY <1>2, <2>1, <2>2, StillWindow
  <1>4. CASE m.thread = active
    <2>e. PICK e : e = m.event
      OBVIOUS
    <2>1. /\ active \in Threads /\ e \in Entries /\ shown \in Seq(Entries)
          /\ reads \in Nat /\ gate \in [lane : Nat, stale : BOOLEAN]
      BY <1>4, <2>e, ArrivingFacts DEF MessageOK, Arriving, IInv, WindowOK
    <2>2. shown' = Append(shown, e)
      BY <1>4, <2>e DEF TakeEvent
    <2>3. /\ Lane(shown) \in Nat /\ shown' \in Seq(Entries)
          /\ Lane(shown)' = IF e.kind \in LaneEvents THEN Lane(shown) + 1 ELSE Lane(shown)
      BY <2>1, <2>2, LaneFacts
    <2>4. ShownNotAhead'
      <3>1. Lane(shown) + Coming(down, 0, active) <= LaneOf[active]
        BY <2>1 DEF Arriving, IInv, ShownNotAhead
      <3>2. /\ LaneOf' = LaneOf /\ LaneOf[active] \in Nat
            /\ Coming(down', 0, active) = Coming(down, 1, active) /\ Coming(down, 1, active) \in Nat
            /\ Coming(down, 0, active) =
                  IF IsLane(m, active) THEN Coming(down, 1, active) + 1 ELSE Coming(down, 1, active)
        BY <2>1, ArrivingFacts
      <3>3. IsLane(m, active) <=> e.kind \in LaneEvents
        BY <1>4, <2>e DEF IsLane
      <3>4. Lane(shown)' + Coming(down', 0, active) <= LaneOf'[active]
        BY <2>3, <3>1, <3>2, <3>3
      <3> QED BY <1>1, <3>4 DEF ShownNotAhead
    <2>5. CASE e.kind \in LaneEvents
      <3>x. PICK x : x = [ask |-> "gate", thread |-> active, read |-> reads + 1]
        OBVIOUS
      <3>1. /\ reads' = reads + 1 /\ reading' = reads + 1
            /\ gate' = [gate EXCEPT !.stale = TRUE]
            /\ up' = Append(up, x) \/ up' = up
        BY <1>4, <2>e, <2>5, <3>x DEF TakeEvent, ReadGate, Request
      <3>2. gate' = [lane |-> gate.lane, stale |-> TRUE] /\ gate.lane \in Nat
        BY <2>1, <3>1
      <3>3. reads' \in Nat /\ reads <= reads' /\ reading' \in 0..reads' /\ reading' \notin 1..reads
        BY <2>1, <3>1
      <3>4. WindowOK' /\ GateNotBehind' /\ ReadingKept
        BY <1>1, <2>1, <2>3, <3>2, <3>3 DEF WindowOK, GateNotBehind, ReadingKept
      <3>5. RequestOK(x)'
        BY <2>1, <3>1, <3>x DEF RequestOK
      <3>6. UpOK'
        BY <3>1, <3>3, <3>5, UpAppended DEF Arriving
      <3> QED BY <1>2, <2>4, <3>4, <3>6, ReceiveStep
    <2>6. CASE e.kind \notin LaneEvents
      <3>1. UNCHANGED <<gate, reading, reads, up>>
        BY <1>4, <2>e, <2>6 DEF TakeEvent, panel
      <3>2. Lane(shown)' = Lane(shown)
        BY <2>3, <2>6
      <3>3. WindowOK' /\ GateNotBehind' /\ ReadingKept
        BY <1>1, <2>1, <2>3, <3>1, <3>2 DEF Arriving, IInv, WindowOK, GateNotBehind, ReadingKept
      <3>4. UpOK'
        BY <2>1, <3>1, UpKept DEF Arriving, IInv
      <3> QED BY <1>2, <2>4, <3>3, <3>4, ReceiveStep
    <2> QED BY <2>5, <2>6
  <1> QED BY <1>3, <1>4

\* Two requests at once.
LEMMA UpTwoAppended ==
    ASSUME IInv, reads' \in Nat, reads <= reads', NEW x, NEW y, RequestOK(x)', RequestOK(y)',
           up' = up \o <<x, y>>
    PROVE  UpOK'
  <1>1. PICK q : q = Append(up, x)
    OBVIOUS
  <1>2. Queue(up) /\ up' = Append(q, y)
    BY <1>1, QueueTwo DEF IInv, UpOK
  <1>3. /\ Queue(q) /\ Len(q) = Len(up) + 1 /\ Len(up) \in Nat
        /\ \A i \in 1..Len(up) : q[i] = up[i]
        /\ q[Len(up) + 1] = x
    BY <1>1, <1>2, QueueAppend
  <1>4. /\ Queue(up') /\ Len(up') = Len(q) + 1
        /\ \A i \in 1..Len(q) : up'[i] = q[i]
        /\ up'[Len(q) + 1] = y
    <2>1. /\ Queue(Append(q, y)) /\ Len(Append(q, y)) = Len(q) + 1
          /\ \A i \in 1..Len(q) : Append(q, y)[i] = q[i]
          /\ Append(q, y)[Len(q) + 1] = y
      BY <1>3, QueueAppend
    <2>2. PICK r : r = Append(q, y)
      OBVIOUS
    <2>3. up' = r /\ Queue(r) /\ Len(r) = Len(q) + 1
          /\ (\A i \in 1..Len(q) : r[i] = q[i]) /\ r[Len(q) + 1] = y
      BY <1>2, <2>1, <2>2
    <2> QED BY <2>3
  <1>5. \A m : RequestOK(m) => RequestOK(m)'
    BY RequestKept DEF IInv
  <1>6. \A i \in 1..Len(up') : \/ i \in 1..Len(up) /\ up'[i] = up[i]
                               \/ up'[i] = x \/ up'[i] = y
    BY <1>3, <1>4
  <1>7. \A i \in 1..Len(up) : RequestOK(up[i])
    BY DEF IInv, UpOK
  <1> QED BY <1>4, <1>5, <1>6, <1>7 DEF UpOK, RequestOK

\* What is opened was as far behind its log as the reply was long on its way.
LEMMA TakeOpenedKeeps ==
    ASSUME NEW m, Arriving(m), m.say = "opened", UNCHANGED <<core, judging, outgoing>>,
           TakeOpened(m)
    PROVE  IInv' /\ NotesSafe
  <1>1. /\ active' = m.thread /\ shown' = m.events /\ gate' = NoGate
        /\ pinned' = IF pinned.thread = m.thread THEN pinned ELSE NoNotes
    BY DEF TakeOpened, Show
  <1>2. m.thread \in Threads /\ m.events \in Seq(Entries) /\ m.thread # NoThread
    BY ArrivingFacts, ThreadsAssumption DEF MessageOK
  <1>3. NotesOK' /\ NotesSafe
    BY <1>1, <1>2 DEF Arriving, IInv, NotesOK, NotesSafe, NoNotes
  <1>4. ShownNotAhead'
    <2>1. /\ Lane(m.events) + Coming(down, 1, m.thread) <= LaneOf[m.thread] /\ LaneOf' = LaneOf
          /\ Coming(down', 0, m.thread) = Coming(down, 1, m.thread)
      BY ArrivingFacts
    <2> QED BY <1>1, <2>1 DEF ShownNotAhead
  <1>5. reads \in Nat
    BY DEF Arriving, IInv, WindowOK
  <1>x. PICK x : x = [ask |-> "gate", thread |-> m.thread, read |-> reads + 1]
    OBVIOUS
  <1>y. PICK y : y = [ask |-> "notes", by |-> m.by, thread |-> m.thread]
    OBVIOUS
  <1>6. \/ reading' = 0 /\ reads' = reads /\ up' = Append(up, y)
        \/ reading' = reads + 1 /\ reads' = reads + 1 /\ up' = up \o <<x, y>>
    BY <1>x, <1>y DEF TakeOpened
  <1>7. reads' \in Nat /\ reads <= reads' /\ reading' \in 0..reads' /\ reading' \notin 1..reads
    BY <1>5, <1>6
  <1>8. WindowOK' /\ GateNotBehind' /\ ReadingKept
    BY <1>1, <1>2, <1>7 DEF WindowOK, GateNotBehind, ReadingKept, NoGate
  <1>9. RequestOK(y)'
    BY <1>y DEF RequestOK
  <1>10. UpOK'
    <2>1. CASE up' = Append(up, y)
      BY <1>7, <1>9, <2>1, UpAppended DEF Arriving
    <2>2. CASE reads' = reads + 1 /\ up' = up \o <<x, y>>
      <3>1. RequestOK(x)'
        BY <1>2, <1>5, <1>x, <2>2 DEF RequestOK
      <3> QED BY <1>7, <1>9, <2>2, <3>1, UpTwoAppended DEF Arriving
    <2> QED BY <1>6, <2>1, <2>2
  <1>11. IInv'
    BY <1>3, <1>4, <1>8, <1>10, ReceiveStep
  <1> QED BY <1>3, <1>11

LEMMA ReceiveKeeps ==
    ASSUME IInv, Receive
    PROVE  IInv' /\ NotesSafe
  <1>m. PICK m : m = Head(down)
    OBVIOUS
  <1>1. down # <<>> /\ down' = Tail(down) /\ UNCHANGED <<core, judging, outgoing>>
    BY DEF Receive
  <1>2. Arriving(m)
    <2>1. m = down[1]
      BY <1>m, <1>1, QueueFacts DEF IInv, DownOK
    <2> QED BY <1>1, <2>1 DEF Arriving, core
  <1>3. CASE m.say = "welcome" /\ TakeWelcome
    BY <1>1, <1>2, <1>3, TakeWelcomeKeeps
  <1>4. CASE m.say = "event" /\ TakeEvent(m)
    BY <1>1, <1>2, <1>4, TakeEventKeeps
  <1>5. CASE m.say = "removed" /\ TakeRemoved(m)
    BY <1>1, <1>2, <1>5, TakeRemovedKeeps
  <1>6. CASE m.say = "opened" /\ TakeOpened(m)
    BY <1>1, <1>2, <1>6, TakeOpenedKeeps
  <1>7. CASE TakeRefused(m) /\ UNCHANGED <<panel, up>>
    BY <1>1, <1>2, <1>7, TakeRefusedKeeps
  <1>8. CASE m.say = "set" /\ TakeSet(m)
    BY <1>1, <1>2, <1>8, TakeSetKeeps
  <1>9. CASE TakeNotes(m)
    BY <1>1, <1>2, <1>9, TakeNotesKeeps
  <1>10. CASE /\ m.say = "gate" /\ gate' = GateAnswered(m)
              /\ UNCHANGED <<view, pinned, reading, reads, up>>
    BY <1>1, <1>2, <1>10, TakeGateKeeps
  <1>11. \/ m.say = "welcome" /\ TakeWelcome
         \/ m.say = "event" /\ TakeEvent(m)
         \/ m.say = "removed" /\ TakeRemoved(m)
         \/ m.say = "opened" /\ TakeOpened(m)
         \/ TakeRefused(m) /\ UNCHANGED <<panel, up>>
         \/ m.say = "set" /\ TakeSet(m)
         \/ TakeNotes(m)
         \/ /\ m.say = "gate" /\ gate' = GateAnswered(m)
            /\ UNCHANGED <<view, pinned, reading, reads, up>>
    BY <1>m DEF Receive
  <1> QED BY <1>3, <1>4, <1>5, <1>6, <1>7, <1>8, <1>9, <1>10, <1>11

-----------------------------------------------------------------------------
(* The theorems. *)

LEMMA InitHolds == Init => IInv
  <1> SUFFICES ASSUME Init PROVE IInv
    OBVIOUS
  <1>1. CoreOK
    <2>1. ASSUME NEW t \in Threads PROVE logged[t] <= Len(Script[t])
      <3>1. logged[t] = 0 /\ Len(Script[t]) \in Nat
        BY ScriptAssumption DEF Init
      <3> QED BY <3>1
    <2> QED BY <2>1 DEF Init, CoreOK
  <1>2. WindowOK /\ NotesOK /\ GateNotBehind
    BY DEF Init, WindowOK, NotesOK, GateNotBehind, NoNotes, NoGate
  <1>3. UpOK /\ JudgingOK /\ OutgoingOK /\ DownOK
    BY EmptyQueue DEF Init, UpOK, JudgingOK, OutgoingOK, DownOK
  <1>4. ShownNotAhead /\ DownNotAhead /\ OutgoingNotAhead
    BY EmptyQueue, ThreadsAssumption DEF Init, ShownNotAhead, DownNotAhead, OutgoingNotAhead
  <1> QED BY <1>1, <1>2, <1>3, <1>4 DEF IInv

LEMMA StillKeeps ==
    ASSUME IInv, UNCHANGED vars
    PROVE  IInv' /\ NotesSafe
  <1>1. UNCHANGED <<core, judging, outgoing, down, view, panel>> /\ up' = up /\ pinned' = pinned
    BY DEF vars
  <1>2. NotesOK'
    BY <1>1, NotesKept DEF view
  <1>3. UpOK'
    BY <1>1, UpKept DEF IInv, WindowOK, panel
  <1>4. IInv'
    BY <1>1, <1>2, <1>3, OwnStep
  <1> QED BY <1>1, <1>4 DEF NotesSafe

\* Typing is the only step that changes notes which are not saved; it keeps their
\* thread.
LEMMA StepKeeps ==
    ASSUME IInv, [Next]_vars
    PROVE  /\ IInv'
           /\ NotesSafe \/ (moves' = moves + 1 /\ pinned'.thread = pinned.thread)
  <1>1. CASE Move
    <2>1. CASE EditNotes
      BY <1>1, <2>1, EditNotesKeeps DEF Move
    <2>2. CASE Lose
      <3>1. IInv' /\ (Close \/ (NotesHeld /\ active' = active))
        BY <2>2, LoseKeeps
      <3> QED BY <3>1, ClosedNotes DEF NotesHeld, NotesSafe
    <2>3. CASE \E t \in Threads : RemoveThread(t)
      <3>1. PICK t \in Threads : RemoveThread(t)
        BY <2>3
      <3>2. IInv' /\ pinned' = pinned
        BY <3>1, RemoveThreadKeeps DEF RemoveThread
      <3> QED BY <3>2 DEF NotesSafe
    <2>4. CASE \E o \in Clicks, t \in Threads : Click(o, t)
      <3>1. PICK o \in Clicks, t \in Threads : Click(o, t)
        BY <2>4
      <3>2. IInv' /\ NotesHeld
        BY <3>1, ClickKeeps
      <3> QED BY <3>2 DEF NotesHeld, NotesSafe
    <2> QED BY <1>1, <2>1, <2>2, <2>3, <2>4 DEF Move
  <1>2. CASE Connect
    BY <1>2, ConnectKeeps DEF Connect, NotesSafe
  <1>3. CASE Serve
    BY <1>3, ServeKeeps DEF Serve, NotesSafe
  <1>4. CASE Send
    BY <1>4, SendKeeps DEF Send, NotesSafe
  <1>5. CASE Receive
    BY <1>5, ReceiveKeeps
  <1>6. CASE SaveNotes
    BY <1>6, SaveNotesKeeps DEF NotesHeld, NotesSafe
  <1>7. CASE \E t \in Threads : LogEvent(t)
    <2>1. PICK t \in Threads : LogEvent(t)
      BY <1>7
    <2>2. IInv' /\ pinned' = pinned
      BY <2>1, LogEventKeeps DEF LogEvent
    <2> QED BY <2>2 DEF NotesSafe
  <1>8. CASE \E m \in judging : Judge(m)
    <2>1. PICK m \in judging : Judge(m)
      BY <1>8
    <2>2. IInv' /\ pinned' = pinned
      BY <2>1, JudgeKeeps DEF Judge
    <2> QED BY <2>2 DEF NotesSafe
  <1>9. CASE UNCHANGED vars
    BY <1>9, StillKeeps
  <1> QED BY <1>1, <1>2, <1>3, <1>4, <1>5, <1>6, <1>7, <1>8, <1>9 DEF Next

LEMMA Invariance == Spec => []IInv
  <1>1. IInv /\ [Next]_vars => IInv'
    BY StepKeeps
  <1> QED BY InitHolds, <1>1, PTL DEF Spec

\* Moves are only counted up.
Counted == moves \in Nat

LEMMA MovesAreCounted == Spec => []Counted
  <1>1. Init => Counted
    BY DEF Init, Counted
  <1>2. Counted /\ [Next]_vars => Counted'
    <2> SUFFICES ASSUME Counted, [Next]_vars PROVE Counted'
      OBVIOUS
    <2>1. moves' = moves + 1 \/ moves' = moves
      <3>1. CASE Move
        BY <3>1 DEF Move
      <3>2. CASE Connect \/ Serve \/ Send \/ Receive \/ SaveNotes
        BY <3>2 DEF Connect, Serve, Send, Receive, SaveNotes
      <3>3. CASE \/ \E t \in Threads : LogEvent(t)
                 \/ \E m \in judging : Judge(m)
        BY <3>3 DEF LogEvent, Judge
      <3>4. CASE UNCHANGED vars
        BY <3>4 DEF vars
      <3> QED BY <3>1, <3>2, <3>3, <3>4 DEF Next
    <2> QED BY <2>1 DEF Counted
  <1> QED BY <1>1, <1>2, PTL DEF Spec

\* The window holds a thread or none, events, an answer of the gate and a count of
\* its reads; the notes in the editor are of the open thread, and none are waiting
\* to be saved when no thread is open (openThread, readGate).
THEOREM TypeCorrect == Spec => [](CoreOK /\ WindowOK /\ NotesOK)
  <1>1. IInv => CoreOK /\ WindowOK /\ NotesOK
    BY DEF IInv
  <1> QED BY <1>1, Invariance, PTL

\* An answer of the gate that is on display and not marked stale is of a lane at
\* least as far as the transcript, whatever was lost, overtaken or asked twice
\* (readGate).
THEOREM GateIsCurrent == Spec => []GateNotBehind
  <1>1. IInv => GateNotBehind
    BY DEF IInv
  <1> QED BY <1>1, Invariance, PTL

\* Notes the core does not have stay in the editor as long as their thread is
\* open: no reply, no resync and no failure of the socket replaces them (openThread).
THEOREM NotesAreKept == Spec => NotesStay
  <1>1. IInv /\ Counted /\ [Next]_vars =>
           [pinned.save # "saved" /\ active' = active =>
              pinned'.thread = pinned.thread /\ (moves' = moves => pinned'.text = pinned.text)]_vars
    <2> SUFFICES ASSUME IInv, Counted, [Next]_vars, pinned.save # "saved", active' = active
                 PROVE  pinned'.thread = pinned.thread /\ (moves' = moves => pinned'.text = pinned.text)
      OBVIOUS
    <2>1. NotesSafe \/ (moves' = moves + 1 /\ pinned'.thread = pinned.thread)
      BY StepKeeps
    <2>2. moves + 1 # moves
      BY DEF Counted
    <2> QED BY <2>1, <2>2 DEF NotesSafe
  <1> QED BY <1>1, Invariance, MovesAreCounted, PTL DEF Spec, NotesStay
=============================================================================
