----------------------------- MODULE DeskProofs -----------------------------
(***************************************************************************)
(* What the desk promises, for any number of calls, threads, items, labels *)
(* and declarations.  The inductive invariant has three parts that meet:   *)
(* the chain of the issue lets one call inside at a time; while a call is  *)
(* inside no thread that was taken is linked to what stands for the issue; *)
(* and what memory has of an item is what its file says.                   *)
(***************************************************************************)
EXTENDS Desk, FiniteSetTheorems, TLAPS

-----------------------------------------------------------------------------
(* The inductive invariant.                                                  *)

\* What a file that keeps one value of S holds; its temporary is there only
\* while the process that writes it runs a synchronous call, or after it died.
Files(S) == [primary : S \cup {Nothing}, temp : {Nothing}, backup : S \cup {Nothing}]
Loose(S) == [primary : S \cup {Nothing}, temp : S \cup {Nothing, Torn}, backup : S \cup {Nothing}]

Answers == Issue \cup {Nothing}
Links == Items \cup {NoItem}

Considering ==
    [pc : {"continue"}] \cup [pc : {"locked"}, decl : DOMAIN Decls]
    \cup [pc : {"probing"}, decl : DOMAIN Decls, listed : Labels]
    \cup [pc : {"asking", "fetched"}, decl : DOMAIN Decls, listed : Labels, got : Answers]
Attaching == [pc : {"attaching", "attached"}, thread : Threads, had : Links, got : Answers]
Refreshing == [pc : {"refreshing", "refreshed"}, got : Answers]
Listing == [pc : {"listing", "listed"}, had : Answers, got : Answers]

OutsideOK == host \in Issue /\ decl \in DOMAIN Decls /\ up \in BOOLEAN
DiskOK ==
    /\ DOMAIN disk = Items \cup {"catalog", "role"}
    /\ \A i \in Items : disk[i] \in Files(Issue)
    /\ disk["catalog"] \in Files(Issue) /\ disk["role"] \in Files(Roles \cup {NoRole})
MemoryOK ==
    /\ work \in [Items -> Answers]
    /\ catalog \in [snapshot : Answers, current : BOOLEAN]
ThreadOK ==
    /\ thread \in [Threads -> [state : {"none", "stored", "left"}, link : Links,
                               by : {"nobody", "take", "attach", "deleted"}]]
    /\ live \subseteq Threads /\ deleting \subseteq Threads
CallOK ==
    /\ lock \in Seq(Calls)
    /\ call \in [Calls -> {Idle} \cup Considering \cup Attaching \cup Refreshing \cup Listing]

\* Of the counters that bound the model only the one a property reads matters.
TypeOK == OutsideOK /\ DiskOK /\ MemoryOK /\ ThreadOK /\ CallOK /\ exits \in Nat

Waiting(c) == call[c].pc \in {"continue", "locked"}
Inside(c) == call[c].pc \in {"probing", "asking", "fetched"}
Members == {c \in Calls : Waiting(c) \/ Inside(c)}

\* The chain of the issue: the calls that wait and the one inside, once each,
\* and nobody is inside but the head.
Chain ==
    /\ \A j, k \in 1..Len(lock) : lock[j] = lock[k] => j = k
    /\ \A j \in 1..Len(lock) : lock[j] \in Members
    /\ \A c \in Calls : Waiting(c) => \E j \in 1..Len(lock) : lock[j] = c
    /\ \A c \in Calls : Inside(c) => Holds(c)

Taken(t) == Stored(t) /\ thread[t].by = "take"

\* While a call is inside, nobody else takes the issue: no thread that was taken
\* is linked to what stands for it.  A thread that is gone or was left behind
\* counts as taken no more.
Untaken ==
    /\ \A c \in Calls : Inside(c) => \A t \in Threads : Taken(t) => work[thread[t].link] = Nothing
    /\ \A t \in Threads : thread[t].by = "take" => Stored(t) /\ thread[t].link \in Items

\* Two threads taken for one item are one.
TakenOnce ==
    \A t, u \in Threads : Taken(t) /\ Taken(u) /\ thread[t].link = thread[u].link => t = u

\* What is in memory is what the file says, if it says anything.
Agrees(f, v) ==
    v # Nothing => /\ f.primary \in {v, Nothing}
                   /\ f.primary = Nothing => f.backup \in {v, Nothing}

MemoryIsDisk == \A i \in Items : Agrees(disk[i], work[i])

IInv == TypeOK /\ Chain /\ Untaken /\ TakenOnce /\ MemoryIsDisk /\ NoThreadOnGoingDirectory

-----------------------------------------------------------------------------
(* What the synchronous writes do to a file.                                 *)

File(p, t, b) == [primary |-> p, temp |-> t, backup |-> b]

\* The file still says v: its primary does, or its primary is away and the
\* backup does.
Says(f, v) == f.primary = v \/ (f.primary = Nothing /\ f.backup = v)

LEMMA FileFields ==
    ASSUME NEW p, NEW t, NEW b
    PROVE  /\ File(p, t, b).primary = p /\ File(p, t, b).backup = b
           /\ \A v : Says(File(p, t, b), v) <=> p = v \/ (p = Nothing /\ b = v)
           /\ \A v : Agrees(File(p, t, b), v) <=> (v # Nothing => p = v \/ (p = Nothing /\ b \in {v, Nothing}))
<1>1. File(p, t, b).primary = p /\ File(p, t, b).backup = b
    BY DEF File
<1>2. ASSUME NEW v
      PROVE  Says(File(p, t, b), v) <=> p = v \/ (p = Nothing /\ b = v)
    BY <1>1 DEF Says
<1>3. ASSUME NEW v
      PROVE  Agrees(File(p, t, b), v) <=> (v # Nothing => p = v \/ (p = Nothing /\ b \in {v, Nothing}))
    <2>1. CASE v = Nothing
        BY <2>1 DEF Agrees
    <2>2. CASE v # Nothing
        BY <1>1, <2>2 DEF Agrees
    <2> QED
        BY <2>1, <2>2
<1> QED
    BY <1>1, <1>2, <1>3

\* The steps of a write, said of a file by what its three names hold.
LEMMA FileSteps ==
    ASSUME NEW p, NEW t, NEW b
    PROVE  /\ File(p, t, b).primary = p /\ File(p, t, b).backup = b
           /\ \A v : Staged(File(p, t, b), v) = File(p, v, b)
           /\ Unstaged(File(p, t, b)) = File(p, Nothing, b)
           /\ NoBackup(File(p, t, b)) = File(p, t, Nothing)
           /\ SetAside(File(p, t, b)) = IF p = Nothing THEN File(p, t, b) ELSE File(Nothing, t, p)
           /\ Installed(File(p, t, b)) = File(t, Nothing, b)
           /\ Restored(File(p, t, b)) = IF p = Nothing /\ b # Nothing
                                        THEN File(b, t, Nothing) ELSE File(p, t, b)
           /\ \A v : [File(p, t, b) EXCEPT !.backup = v] = File(p, t, v)
<1> DEFINE F(a, c, d) == [z \in {"primary", "temp", "backup"} |->
                            IF z = "primary" THEN a ELSE IF z = "temp" THEN c ELSE d]
<1>0. \A a, c, d : File(a, c, d) = F(a, c, d)
    BY DEF File
<1>a. [F(p, t, b) EXCEPT !.primary = Nothing, !.backup = p] = F(Nothing, t, p)
    OBVIOUS
<1>b. [F(p, t, b) EXCEPT !.primary = t, !.temp = Nothing] = F(t, Nothing, b)
    OBVIOUS
<1>c. [F(p, t, b) EXCEPT !.primary = b, !.backup = Nothing] = F(b, t, Nothing)
    OBVIOUS
<1>1. File(p, t, b).primary = p /\ File(p, t, b).backup = b /\ File(p, t, b).temp = t
    BY DEF File
<1> HIDE DEF F
<1>2. \A v : Staged(File(p, t, b), v) = File(p, v, b)
    BY DEF File, Staged
<1>3. Unstaged(File(p, t, b)) = File(p, Nothing, b)
    BY DEF File, Unstaged
<1>4. NoBackup(File(p, t, b)) = File(p, t, Nothing)
    BY DEF File, NoBackup
<1>5. [File(p, t, b) EXCEPT !.primary = Nothing, !.backup = p] = File(Nothing, t, p)
    BY <1>0, <1>a
<1>6. SetAside(File(p, t, b)) = IF p = Nothing THEN File(p, t, b) ELSE File(Nothing, t, p)
    BY <1>1, <1>5 DEF SetAside
<1>7. [File(p, t, b) EXCEPT !.primary = t, !.temp = Nothing] = File(t, Nothing, b)
    BY <1>0, <1>b
<1>8. Installed(File(p, t, b)) = File(t, Nothing, b)
    BY <1>1, <1>7 DEF Installed
<1>9. [File(p, t, b) EXCEPT !.primary = b, !.backup = Nothing] = File(b, t, Nothing)
    BY <1>0, <1>c
<1>10. Restored(File(p, t, b)) = IF p = Nothing /\ b # Nothing THEN File(b, t, Nothing) ELSE File(p, t, b)
    BY <1>1, <1>9 DEF Restored
<1>11. \A v : [File(p, t, b) EXCEPT !.backup = v] = File(p, t, v)
    BY DEF File
<1> QED
    BY <1>1, <1>2, <1>3, <1>4, <1>6, <1>8, <1>10, <1>11

LEMMA FileIsIn ==
    \A S : \A p, b \in S \cup {Nothing} : File(p, Nothing, b) \in Files(S)
    BY DEF Files, File

LEMMA LooseIsIn ==
    \A S : \A p, b \in S \cup {Nothing} : \A t \in S \cup {Nothing, Torn} : File(p, t, b) \in Loose(S)
    BY DEF Loose, File

LEMMA FilesAre ==
    ASSUME NEW S, NEW f \in Files(S)
    PROVE  \E p \in S \cup {Nothing} : \E b \in S \cup {Nothing} : f = File(p, Nothing, b)
<1>1. f = File(f.primary, Nothing, f.backup) /\ f.primary \in S \cup {Nothing} /\ f.backup \in S \cup {Nothing}
    BY DEF Files, File
<1> QED
    BY <1>1

LEMMA LooseAre ==
    ASSUME NEW S, NEW f \in Loose(S)
    PROVE  \E p \in S \cup {Nothing} : \E b \in S \cup {Nothing} :
              \E t \in S \cup {Nothing, Torn} : f = File(p, t, b)
<1>1. f = File(f.primary, f.temp, f.backup) /\ f.primary \in S \cup {Nothing}
      /\ f.backup \in S \cup {Nothing} /\ f.temp \in S \cup {Nothing, Torn}
    BY DEF Loose, File
<1> QED
    BY <1>1

\* A write of #persist that leaves the process running: one that returned has
\* installed what was written, one that threw has lost nothing.
LEMMA PersistEnds ==
    ASSUME NEW f \in Files(Issue), NEW v \in Issue,
           NEW e \in Persist(f, v), e.how # "died"
    PROVE  /\ e.file \in Files(Issue)
           /\ e.how = "returned" => e.file.primary = v
           /\ e.how # "returned" /\ f.primary # Nothing => Says(e.file, f.primary)
           /\ e.how # "returned" => \A w \in Answers : Agrees(f, w) => Agrees(e.file, w)
<1>1. PICK p \in Answers, b \in Answers : f = File(p, Nothing, b)
    BY FilesAre DEF Answers
<1>2. v # Nothing
    BY ConstantsAssumption
<1> DEFINE away == IF p = Nothing THEN File(Nothing, v, Nothing) ELSE File(Nothing, v, p)
           old == IF p = Nothing THEN Nothing ELSE p
           back == IF p = Nothing /\ b # Nothing THEN File(b, Nothing, Nothing) ELSE File(p, Nothing, b)
<1>3. /\ Staged(f, v) = File(p, v, b) /\ NoBackup(Staged(f, v)) = File(p, v, Nothing)
      /\ SetAside(NoBackup(Staged(f, v))) = away
    BY <1>1, FileSteps
<1>4. away = File(Nothing, v, old)
    OBVIOUS
<1>5. /\ Installed(away) = File(v, Nothing, old) /\ away.backup = old
      /\ NoBackup(File(v, Nothing, old)) = File(v, Nothing, Nothing)
      /\ [File(v, Nothing, old) EXCEPT !.backup = old] = File(v, Nothing, old)
    BY <1>4, FileSteps
<1>6. Unstaged(f) = f /\ Restored(f) = back
    BY <1>1, FileSteps
<1>7. Unstaged(File(p, v, Nothing)) = File(p, Nothing, Nothing)
      /\ Restored(File(p, Nothing, Nothing)) = File(p, Nothing, Nothing)
    BY FileSteps
<1>8. Unstaged(away) = File(Nothing, Nothing, old)
      /\ Restored(File(Nothing, Nothing, old)) = File(old, Nothing, Nothing)
    BY <1>4, FileSteps
<1> HIDE DEF away, back
<1>9. \/ e.how = "returned" /\ (e.file = File(v, Nothing, old) \/ e.file = File(v, Nothing, Nothing))
      \/ e.how = "threw" /\ \/ e.file = f \/ e.file = back \/ e.file = File(p, Nothing, Nothing)
                            \/ e.file = File(Nothing, Nothing, old) \/ e.file = File(old, Nothing, Nothing)
    BY <1>3, <1>5, <1>6, <1>7, <1>8 DEF Persist, GiveUp, End, Died
<1>10. old \in Answers
    BY DEF Answers
<1>11. e.file \in Files(Issue)
    BY <1>1, <1>9, <1>10, FileIsIn DEF back, Answers
<1>12. e.how = "returned" => e.file.primary = v
    BY <1>9, FileFields
<1>13. f.primary = p
    BY <1>1, FileFields
<1>14. ASSUME e.how # "returned", p # Nothing
       PROVE  Says(e.file, p)
    BY <1>1, <1>9, <1>14, FileFields DEF back
<1>15. ASSUME e.how # "returned", NEW w, Agrees(f, w)
       PROVE  Agrees(e.file, w)
    <2>1. w # Nothing => p = w \/ (p = Nothing /\ b \in {w, Nothing})
        BY <1>1, <1>15, FileFields
    <2> QED
        BY <1>9, <1>15, <2>1, FileFields DEF back
<1> QED
    BY <1>11, <1>12, <1>13, <1>14, <1>15

LEMMA PersistDies ==
    ASSUME NEW f \in Files(Issue), NEW v \in Issue,
           NEW e \in Persist(f, v), e.how = "died"
    PROVE  /\ e.file \in Loose(Issue)
           /\ f.primary # Nothing => Says(e.file, f.primary) \/ Says(e.file, v)
<1>1. PICK p \in Answers, b \in Answers : f = File(p, Nothing, b)
    BY FilesAre DEF Answers
<1> DEFINE old == IF p = Nothing THEN Nothing ELSE p
           away == File(Nothing, v, old)
<1>3. /\ Staged(f, v) = File(p, v, b) /\ NoBackup(Staged(f, v)) = File(p, v, Nothing)
      /\ SetAside(NoBackup(Staged(f, v))) = away
      /\ Staged(f, Torn) = File(p, Torn, b) /\ Unstaged(f) = f
    BY <1>1, FileSteps
<1>4. Installed(away) = File(v, Nothing, old)
    BY FileSteps
<1> HIDE DEF away
<1>5. \/ e.file = f \/ e.file = File(p, Torn, b) \/ e.file = File(p, v, b)
      \/ e.file = File(p, v, Nothing) \/ e.file = away \/ e.file = File(v, Nothing, old)
    BY <1>3, <1>4 DEF Persist, GiveUp, End, Died
<1>6. old \in Answers
    BY DEF Answers
<1>7. e.file \in Loose(Issue)
    BY <1>1, <1>5, <1>6, LooseIsIn DEF away, Answers
<1>8. f.primary = p
    BY <1>1, FileFields
<1>9. ASSUME p # Nothing
      PROVE  Says(e.file, p) \/ Says(e.file, v)
    BY <1>1, <1>5, <1>9, FileFields DEF away
<1> QED
    BY <1>7, <1>8, <1>9

\* A start reads what the file says, and keeps it in memory and on disk alike.
LEMMA StartReads ==
    ASSUME NEW f \in Loose(Issue), NEW l \in LoadItem(f)
    PROVE  /\ l.file \in Files(Issue) /\ l.value \in Answers
           /\ Agrees(l.file, l.value)
           /\ \A v \in Issue : Says(f, v) => Says(l.file, v)
<1>1. PICK p \in Answers, b \in Answers, t \in Issue \cup {Nothing, Torn} : f = File(p, t, b)
    BY LooseAre DEF Answers
<1>2. Nothing \in Answers /\ \A v \in Issue : v # Nothing
    BY ConstantsAssumption DEF Answers
<1>3. Unstaged(f) = File(p, Nothing, b) /\ NoBackup(File(p, Nothing, b)) = File(p, Nothing, Nothing)
      /\ File(p, Nothing, b).primary = p
    BY <1>1, FileSteps
<1> DEFINE kept == IF p # Nothing THEN File(p, Nothing, Nothing) ELSE File(p, Nothing, b)
<1>4. \/ l.file = Restored(kept) /\ l.value = Restored(kept).primary
      \/ l.file = kept /\ l.value = Nothing /\ Restored(kept) # kept
    BY <1>3 DEF LoadItem
<1>5. \/ p # Nothing /\ l.file = File(p, Nothing, Nothing) /\ l.value = p
      \/ p = Nothing /\ l.file = File(b, Nothing, Nothing) /\ l.value = b
      \/ p = Nothing /\ l.file = File(Nothing, Nothing, b) /\ l.value \in {Nothing, b} /\ (b = Nothing \/ l.value = Nothing)
    BY <1>4, FileSteps
<1>6. l.file \in Files(Issue) /\ l.value \in Answers
    BY <1>2, <1>5, FileIsIn DEF Answers
<1>7. Agrees(l.file, l.value)
    BY <1>2, <1>5, FileFields
<1>8. ASSUME NEW v \in Issue, Says(f, v)
      PROVE  Says(l.file, v)
    <2>1. p = v \/ (p = Nothing /\ b = v)
        BY <1>1, <1>8, FileFields
    <2> QED
        BY <1>2, <1>5, <2>1, FileFields
<1> QED
    BY <1>6, <1>7, <1>8

LEMMA FilesAreLoose ==
    ASSUME NEW S PROVE Files(S) \subseteq Loose(S)
    BY DEF Files, Loose

\* CatalogStore and the role's store: what they install and read is of its type.
LEMMA InstallEnds ==
    ASSUME NEW S, NEW f \in Files(S), NEW v \in S,
           NEW e \in Install(f, v), e.how # "died"
    PROVE  e.file \in Files(S)
<1>1. PICK p \in S \cup {Nothing}, b \in S \cup {Nothing} : f = File(p, Nothing, b)
    BY FilesAre
<1> DEFINE old == IF p = Nothing THEN Nothing ELSE p
           away == File(Nothing, v, old)
<1>3. /\ Staged(f, v) = File(p, v, b) /\ NoBackup(Staged(f, v)) = File(p, v, Nothing)
      /\ SetAside(NoBackup(Staged(f, v))) = away
      /\ Installed(Staged(f, v)) = File(v, Nothing, b)
    BY <1>1, FileSteps
<1>4. Installed(away) = File(v, Nothing, old) /\ NoBackup(File(v, Nothing, old)) = File(v, Nothing, Nothing)
    BY FileSteps
<1>5. Unstaged(f) = f
    BY <1>1, FileSteps
<1>6. Unstaged(File(p, v, Nothing)) = File(p, Nothing, Nothing)
      /\ Restored(File(p, Nothing, Nothing)) = File(p, Nothing, Nothing)
    BY FileSteps
<1>7. Unstaged(away) = File(Nothing, Nothing, old)
      /\ Restored(File(Nothing, Nothing, old)) = File(old, Nothing, Nothing)
    BY FileSteps
<1> HIDE DEF away
<1>8. \/ e.file = f \/ e.file = File(v, Nothing, b) \/ e.file = File(v, Nothing, Nothing)
      \/ e.file = File(p, Nothing, Nothing)
      \/ e.file = File(Nothing, Nothing, old) \/ e.file = File(old, Nothing, Nothing)
    BY <1>3, <1>4, <1>5, <1>6, <1>7 DEF Install, GiveUp, End, Died
<1> QED
    BY <1>8, FileIsIn

LEMMA InstallDies ==
    ASSUME NEW S, NEW f \in Files(S), NEW v \in S,
           NEW e \in Install(f, v), e.how = "died"
    PROVE  e.file \in Loose(S)
<1>1. PICK p \in S \cup {Nothing}, b \in S \cup {Nothing} : f = File(p, Nothing, b)
    BY FilesAre
<1> DEFINE old == IF p = Nothing THEN Nothing ELSE p
           away == File(Nothing, v, old)
<1>3. /\ Staged(f, v) = File(p, v, b) /\ NoBackup(Staged(f, v)) = File(p, v, Nothing)
      /\ SetAside(NoBackup(Staged(f, v))) = away
      /\ Installed(Staged(f, v)) = File(v, Nothing, b) /\ Staged(f, Torn) = File(p, Torn, b)
    BY <1>1, FileSteps
<1>4. Installed(away) = File(v, Nothing, old)
    BY FileSteps
<1> HIDE DEF away
<1>5. \/ e.file = File(p, Torn, b) \/ e.file = File(p, v, b) \/ e.file = File(p, v, Nothing)
      \/ e.file = away \/ e.file = File(v, Nothing, old) \/ e.file = File(v, Nothing, b)
    BY <1>3, <1>4 DEF Install, GiveUp, End, Died
<1> QED
    BY <1>5, LooseIsIn DEF away

LEMMA LoadReads ==
    ASSUME NEW S, NEW f \in Files(S), NEW e \in Load(f)
    PROVE  e.file \in Files(S) /\ e.value \in S \cup {Nothing}
<1>1. PICK p \in S \cup {Nothing}, b \in S \cup {Nothing} : f = File(p, Nothing, b)
    BY FilesAre
<1>2. e.file \in {f, Restored(f)} /\ e.value \in {f.primary, f.backup}
    BY DEF Load
<1>3. e.file \in {f, File(b, Nothing, Nothing)} /\ e.value \in {p, b}
    BY <1>1, <1>2, FileSteps
<1> QED
    BY <1>3, FileIsIn

LEMMA SweptFile ==
    ASSUME NEW S, NEW f \in Loose(S)
    PROVE  SweepTemporaries(f) \in Files(S)
<1>1. PICK p \in S \cup {Nothing}, b \in S \cup {Nothing}, t \in S \cup {Nothing, Torn} : f = File(p, t, b)
    BY LooseAre
<1>2. SweepTemporaries(f) = File(p, Nothing, b)
    BY <1>1, FileSteps DEF SweepTemporaries
<1> QED
    BY <1>2, FileIsIn

-----------------------------------------------------------------------------
(* The steps, by what they do.                                               *)

LEMMA CallFields ==
    ASSUME CallOK, NEW c \in Calls
    PROVE  /\ call[c].pc \in {"locked", "probing", "asking", "fetched"} => call[c].decl \in DOMAIN Decls
           /\ call[c].pc \in {"probing", "asking", "fetched"} => call[c].listed \in Labels
           /\ call[c].pc \in {"asking", "fetched", "attaching", "attached", "refreshing", "refreshed",
                              "listing", "listed"} => call[c].got \in Answers
           /\ call[c].pc \in {"attaching", "attached"} => call[c].thread \in Threads /\ call[c].had \in Links
           /\ call[c].pc \in {"listing", "listed"} => call[c].had \in Answers
<1>1. call[c] \in {Idle} \cup Considering \cup Attaching \cup Refreshing \cup Listing
    BY DEF CallOK
<1>2. CASE call[c] = Idle
    BY <1>2 DEF Idle
<1>3. CASE call[c] \in Considering
    BY <1>3 DEF Considering
<1>4. CASE call[c] \in Attaching
    BY <1>4 DEF Attaching
<1>5. CASE call[c] \in Refreshing
    BY <1>5 DEF Refreshing
<1>6. CASE call[c] \in Listing
    BY <1>6 DEF Listing
<1> QED
    BY <1>1, <1>2, <1>3, <1>4, <1>5, <1>6

Fetched(r, to, answer) == [r EXCEPT !.pc = to, !.got = answer]
Fetches == {<<"asking", "fetched">>, <<"attaching", "attached">>,
            <<"refreshing", "refreshed">>, <<"listing", "listed">>}

\* What a call that has waited for the host goes on with.
LEMMA FetchFields ==
    ASSUME CallOK, NEW c \in Calls, NEW answer \in Answers,
           NEW from, NEW to, call[c].pc = from,
           <<from, to>> \in Fetches
    PROVE  /\ Fetched(call[c], to, answer)
                 \in Considering \cup Attaching \cup Refreshing \cup Listing
           /\ Fetched(call[c], to, answer).pc = to
<1>1. call[c] \in {Idle} \cup Considering \cup Attaching \cup Refreshing \cup Listing
    BY DEF CallOK
<1>2. CASE from = "asking" /\ to = "fetched"
    <2>1. call[c] \in [pc : {"asking", "fetched"}, decl : DOMAIN Decls, listed : Labels, got : Answers]
        BY <1>1, <1>2 DEF Idle, Considering, Attaching, Refreshing, Listing
    <2> QED
        BY <1>2, <2>1 DEF Considering, Fetched
<1>3. CASE from = "attaching" /\ to = "attached"
    <2>1. call[c] \in Attaching
        BY <1>1, <1>3 DEF Idle, Considering, Attaching, Refreshing, Listing
    <2> QED
        BY <1>3, <2>1 DEF Attaching, Fetched
<1>4. CASE from = "refreshing" /\ to = "refreshed"
    <2>1. call[c] \in Refreshing
        BY <1>1, <1>4 DEF Idle, Considering, Attaching, Refreshing, Listing
    <2> QED
        BY <1>4, <2>1 DEF Refreshing, Fetched
<1>5. CASE from = "listing" /\ to = "listed"
    <2>1. call[c] \in Listing
        BY <1>1, <1>5 DEF Idle, Considering, Attaching, Refreshing, Listing
    <2> QED
        BY <1>5, <2>1 DEF Listing, Fetched
<1> QED
    BY <1>2, <1>3, <1>4, <1>5 DEF Fetches

\* Whoever writes an item has fetched what it writes.
Writes(c, i, e) ==
    /\ call[c].pc \in {"fetched", "attached", "refreshed"} /\ call[c].got \in Issue
    /\ e \in Persist(disk[i], call[c].got) /\ e.how # "died"
    /\ Target(i) /\ Recorded(i, e, call[c].got)

\* What a step does to the items.
Steady == UNCHANGED work /\ \A i \in Items : disk'[i] = disk[i]
ItemStep ==
    \/ Steady
    \/ \E c \in Calls, i \in Items : \E e \in Persist(disk[i], call[c].got) : Writes(c, i, e)
    \/ Exit

\* What a step does to the chain, where the other calls stay where they are.
OthersStay(c) == \A d \in Calls \ {c} : call'[d] = call[d]
Joins(c) == call[c].pc = "idle" /\ Waiting(c)' /\ lock' = Append(lock, c)
Rejoins(c) == Waiting(c) /\ Waiting(c)' /\ Holds(c) /\ lock' = Append(Tail(lock), c)
Enters(c) ==
    /\ Waiting(c) /\ Inside(c)' /\ Holds(c) /\ UNCHANGED lock
    /\ \A t \in Threads : Stored(t) => thread[t].link \notin Found
    /\ UNCHANGED <<work, thread>>
GoesOn(c) == Inside(c) /\ Inside(c)' /\ UNCHANGED lock
DropsOut(c) == (Waiting(c) \/ Inside(c)) /\ Holds(c) /\ call'[c] = Idle /\ lock' = Tail(lock)
Aside(c) == ~Waiting(c) /\ ~Inside(c) /\ ~Waiting(c)' /\ ~Inside(c)' /\ UNCHANGED lock
ChainStep ==
    \/ UNCHANGED <<lock, call>>
    \/ \E c \in Calls : /\ OthersStay(c)
                        /\ Joins(c) \/ Rejoins(c) \/ Enters(c) \/ GoesOn(c) \/ DropsOut(c) \/ Aside(c)
    \/ Exit

\* What a step does to the threads that were taken: one is taken, or those that
\* are have been before.
Takes(c, i, t) ==
    /\ Inside(c) /\ call'[c] = Idle /\ OthersStay(c) /\ Target(i) /\ thread[t].state = "none"
    /\ thread' = [thread EXCEPT ![t] = [state |-> "stored", link |-> i, by |-> "take"]]
ThreadStep ==
    \/ \E c \in Calls, i \in Items, t \in Threads : Takes(c, i, t)
    \/ \A t \in Threads : thread'[t].by = "take" => thread'[t] = thread[t]

Kinds == ItemStep /\ ChainStep /\ ThreadStep

\* Steps that leave the items' files, the calls and the threads alone.
LEMMA QuietKinds ==
    ASSUME UNCHANGED <<work, lock, call, thread>>, \A i \in Items : disk'[i] = disk[i]
    PROVE  Kinds
    BY DEF Kinds, ItemStep, ChainStep, ThreadStep, Steady

LEMMA AskedKinds ==
    ASSUME IInv, Asked
    PROVE  Kinds
<1> USE DEF objects, desk
<1>1. CASE World
    BY <1>1, QuietKinds DEF World
<1>2. CASE SelectRole
    <2>1. \A i \in Items : disk'[i] = disk[i]
        BY <1>2, ConstantsAssumption DEF SelectRole, IInv, TypeOK, DiskOK
    <2> QED
        BY <1>2, <2>1, QuietKinds DEF SelectRole
<1>3. ASSUME NEW c \in Calls, OpenIssue(c)
      PROVE  Kinds
    <2>1. call'[c].pc \in {"continue", "locked"} /\ OthersStay(c)
        BY <1>3 DEF OpenIssue, Goto, IInv, TypeOK, CallOK, OthersStay
    <2> QED
        BY <1>3, <2>1 DEF Kinds, OpenIssue, ItemStep, ChainStep, ThreadStep, Steady, Joins, Waiting
<1>4. ASSUME NEW c \in Calls, NEW t \in Threads, List(c) \/ Attach(c, t) \/ Refresh(c, t)
      PROVE  Kinds
    <2>1. call[c].pc = "idle" /\ call'[c].pc \in {"listing", "attaching", "refreshing"} /\ OthersStay(c)
        BY <1>4 DEF List, Attach, Refresh, Goto, IInv, TypeOK, CallOK, OthersStay
    <2>2. UNCHANGED <<work, disk, lock, thread>>
        BY <1>4 DEF List, Attach, Refresh
    <2>3. ~Waiting(c) /\ ~Inside(c) /\ ~Waiting(c)' /\ ~Inside(c)'
        BY <2>1 DEF Waiting, Inside
    <2> QED
        BY <2>1, <2>2, <2>3 DEF Kinds, ItemStep, ChainStep, ThreadStep, Steady, Aside
<1>5. ASSUME NEW t \in Threads, Create(t) \/ Detach(t)
      PROVE  Kinds
    <2>1. \A u \in Threads : thread'[u].by = "take" => thread'[u] = thread[u]
        BY <1>5 DEF Create, Detach, IInv, TypeOK, ThreadOK, Untaken, Stored
    <2> QED
        BY <1>5, <2>1 DEF Create, Detach, Kinds, ItemStep, ChainStep, ThreadStep, Steady
<1>6. ASSUME NEW t \in Threads, LoadThread(t) \/ Delete(t)
      PROVE  Kinds
    BY <1>6, QuietKinds DEF LoadThread, Delete
<1>7. ASSUME NEW c \in Calls, List(c)
      PROVE  Kinds
    <2>1. call[c].pc = "idle" /\ call'[c].pc = "listing" /\ OthersStay(c)
        BY <1>7 DEF List, Goto, IInv, TypeOK, CallOK, OthersStay
    <2>3. ~Waiting(c) /\ ~Inside(c) /\ ~Waiting(c)' /\ ~Inside(c)'
        BY <2>1 DEF Waiting, Inside
    <2> QED
        BY <1>7, <2>1, <2>3 DEF List, Kinds, ItemStep, ChainStep, ThreadStep, Steady, Aside
<1> QED
    BY <1>1, <1>2, <1>3, <1>4, <1>5, <1>6, <1>7 DEF Asked

\* Recording an item is what a call does that has fetched.
LEMMA RecordedKind ==
    ASSUME TypeOK, NEW c \in Calls, NEW i \in Items,
           call[c].pc \in {"fetched", "attached", "refreshed"}, call[c].got # Nothing,
           NEW p \in Ends(Persist(disk[i], call[c].got)),
           Target(i), Recorded(i, p, call[c].got)
    PROVE  ItemStep
<1>1. call[c].got \in Issue
    BY CallFields DEF TypeOK, Answers
<1>2. p \in Persist(disk[i], call[c].got) /\ p.how # "died"
    BY DEF Ends
<1>3. Writes(c, i, p)
    BY <1>1, <1>2 DEF Writes
<1> QED
    BY <1>2, <1>3 DEF ItemStep

LEMMA TakeKinds ==
    ASSUME IInv, NEW c \in Calls, Take(c)
    PROVE  Kinds
<1>1. Inside(c) /\ call'[c] = Idle /\ OthersStay(c) /\ lock' = Tail(lock) /\ Holds(c)
    BY DEF Take, Settle, Release, Goto, Inside, IInv, TypeOK, CallOK, OthersStay, Chain
<1>2. ChainStep
    BY <1>1 DEF ChainStep, DropsOut
<1>3. PICK e \in ReadRole :
          IF Fits(c, RoleOf(e, decl))
          THEN \E i \in Items : \E p \in Ends(Persist(disk[i], call[c].got)) :
                 /\ Target(i) /\ Recorded(i, p, call[c].got)
                 /\ \/ p.how = "returned" /\ \E t \in Threads :
                          /\ thread[t].state = "none"
                          /\ thread' = [thread EXCEPT ![t] = [state |-> "stored", link |-> i, by |-> "take"]]
                    \/ UNCHANGED thread
          ELSE UNCHANGED <<disk, work, thread, faults>>
    BY DEF Take
<1>4. CASE Fits(c, RoleOf(e, decl))
    <2>1. PICK i \in Items : \E p \in Ends(Persist(disk[i], call[c].got)) :
                 /\ Target(i) /\ Recorded(i, p, call[c].got)
                 /\ \/ p.how = "returned" /\ \E t \in Threads :
                          /\ thread[t].state = "none"
                          /\ thread' = [thread EXCEPT ![t] = [state |-> "stored", link |-> i, by |-> "take"]]
                    \/ UNCHANGED thread
        BY <1>3, <1>4
    <2>2. PICK p \in Ends(Persist(disk[i], call[c].got)) :
                 /\ Target(i) /\ Recorded(i, p, call[c].got)
                 /\ \/ p.how = "returned" /\ \E t \in Threads :
                          /\ thread[t].state = "none"
                          /\ thread' = [thread EXCEPT ![t] = [state |-> "stored", link |-> i, by |-> "take"]]
                    \/ UNCHANGED thread
        BY <2>1
    <2>3. call[c].pc = "fetched" /\ call[c].got # Nothing
        BY <1>4 DEF Take, Fits
    <2>4. ItemStep
        BY <2>2, <2>3, RecordedKind DEF IInv
    <2>5. ThreadStep
        BY <1>1, <2>2 DEF ThreadStep, Takes
    <2> QED
        BY <1>2, <2>4, <2>5 DEF Kinds
<1>5. CASE ~Fits(c, RoleOf(e, decl))
    BY <1>2, <1>3, <1>5 DEF Kinds, ItemStep, Steady, ThreadStep
<1> QED
    BY <1>4, <1>5

LEMMA AttachedKinds ==
    ASSUME IInv, NEW c \in Calls, Attached(c)
    PROVE  Kinds
<1>1. call[c].pc = "attached" /\ call'[c] = Idle /\ OthersStay(c) /\ UNCHANGED lock
    BY DEF Attached, Goto, IInv, TypeOK, CallOK, OthersStay
<1>2. ChainStep
    BY <1>1 DEF ChainStep, Aside, Waiting, Inside, Idle
<1>3. CASE call[c].got = Nothing
    BY <1>2, <1>3 DEF Attached, Kinds, ItemStep, Steady, ThreadStep
<1>4. CASE call[c].got # Nothing
    <2>1. PICK i \in Items : \E p \in Ends(Persist(disk[i], call[c].got)) :
                 /\ Target(i) /\ Recorded(i, p, call[c].got)
                 /\ thread' = IF p.how = "returned" /\ call[c].had # i /\ Stored(call[c].thread)
                              THEN [thread EXCEPT ![call[c].thread].link = i, ![call[c].thread].by = "attach"]
                              ELSE thread
        BY <1>4 DEF Attached
    <2>2. ItemStep
        BY <1>1, <1>4, <2>1, RecordedKind DEF IInv
    <2>3. call[c].thread \in Threads
        BY <1>1, CallFields DEF IInv, TypeOK
    <2>4. \A t \in Threads : thread'[t].by = "take" => thread'[t] = thread[t]
        BY <2>1, <2>3 DEF IInv, TypeOK, ThreadOK
    <2> QED
        BY <1>2, <2>2, <2>4 DEF Kinds, ThreadStep
<1> QED
    BY <1>3, <1>4

LEMMA RefreshedKinds ==
    ASSUME IInv, NEW c \in Calls, Refreshed(c)
    PROVE  Kinds
<1>1. call[c].pc = "refreshed" /\ call'[c] = Idle /\ OthersStay(c) /\ UNCHANGED <<lock, thread>>
    BY DEF Refreshed, Goto, IInv, TypeOK, CallOK, OthersStay
<1>2. ChainStep /\ ThreadStep
    BY <1>1 DEF ChainStep, ThreadStep, Aside, Waiting, Inside, Idle
<1>3. CASE call[c].got = Nothing
    BY <1>2, <1>3 DEF Refreshed, Kinds, ItemStep, Steady
<1>4. CASE call[c].got # Nothing
    <2>1. PICK i \in Items : \E p \in Ends(Persist(disk[i], call[c].got)) :
                 Target(i) /\ Recorded(i, p, call[c].got)
        BY <1>4 DEF Refreshed
    <2>2. ItemStep
        BY <1>1, <1>4, <2>1, RecordedKind DEF IInv
    <2> QED
        BY <1>2, <2>2 DEF Kinds
<1> QED
    BY <1>3, <1>4

LEMMA ListedKinds ==
    ASSUME IInv, NEW c \in Calls, Listed(c)
    PROVE  Kinds
<1>1. call[c].pc = "listed" /\ call'[c] = Idle /\ OthersStay(c) /\ UNCHANGED <<lock, thread, work>>
    BY DEF Listed, Goto, IInv, TypeOK, CallOK, OthersStay
<1>2. ChainStep /\ ThreadStep
    BY <1>1 DEF ChainStep, ThreadStep, Aside, Waiting, Inside, Idle
<1>3. \A i \in Items : disk'[i] = disk[i]
    <2>1. CASE call[c].got = Nothing
        BY <2>1 DEF Listed
    <2>2. CASE call[c].got # Nothing
        <3>1. PICK e \in Ends(Install(disk["catalog"], call[c].got)) :
                  disk' = [disk EXCEPT !["catalog"] = e.file]
            BY <2>2 DEF Listed
        <3> QED
            BY <3>1, ConstantsAssumption DEF IInv, TypeOK, DiskOK
    <2> QED
        BY <2>1, <2>2
<1> QED
    BY <1>1, <1>2, <1>3 DEF Kinds, ItemStep, Steady

LEMMA FetchKinds ==
    ASSUME IInv, NEW c \in Calls, NEW from, NEW to, Fetch(c, from, to),
           <<from, to>> \in Fetches
    PROVE  Kinds
<1>1. PICK answer \in {host, Nothing} : call' = [call EXCEPT ![c] = Fetched(call[c], to, answer)]
    BY DEF Fetch, Goto, Fetched
<1>2. answer \in Answers
    BY DEF IInv, TypeOK, OutsideOK, Answers
<1>a. call[c].pc = from
    BY DEF Fetch
<1>b. Fetched(call[c], to, answer).pc = to
    BY <1>2, <1>a, FetchFields DEF IInv, TypeOK
<1>c. call'[c] = Fetched(call[c], to, answer) /\ OthersStay(c)
    BY <1>1 DEF IInv, TypeOK, CallOK, OthersStay
<1>3. call[c].pc = from /\ call'[c].pc = to /\ OthersStay(c)
    BY <1>a, <1>b, <1>c
<1>4. ChainStep
    <2>1. UNCHANGED lock
        BY DEF Fetch
    <2>2. CASE from = "asking" /\ to = "fetched"
        BY <1>3, <2>1, <2>2 DEF ChainStep, GoesOn, Inside
    <2>3. CASE ~(from = "asking" /\ to = "fetched")
        <3>1. from \in {"attaching", "refreshing", "listing"} /\ to \in {"attached", "refreshed", "listed"}
            BY <2>3 DEF Fetches
        <3>2. ~Waiting(c) /\ ~Inside(c) /\ ~Waiting(c)' /\ ~Inside(c)'
            BY <1>3, <3>1 DEF Waiting, Inside
        <3> QED
            BY <1>3, <2>1, <3>2 DEF ChainStep, Aside
    <2> QED
        BY <2>2, <2>3
<1> QED
    BY <1>4 DEF Fetch, Kinds, ItemStep, Steady, ThreadStep

\* A call in the chain that settles drops out of it.
LEMMA SettledKind ==
    ASSUME CallOK, NEW c \in Calls, Waiting(c) \/ Inside(c), Holds(c), Settle(c)
    PROVE  ChainStep
<1>1. lock' = Tail(lock) /\ call' = [call EXCEPT ![c] = Idle]
    BY DEF Settle, Release, Goto
<1>2. call'[c] = Idle /\ OthersStay(c)
    BY <1>1 DEF CallOK, OthersStay
<1> QED
    BY <1>1, <1>2 DEF ChainStep, DropsOut

LEMMA GoneOn ==
    ASSUME CallOK, NEW c \in Calls, NEW with, Goto(c, with)
    PROVE  call'[c] = with /\ OthersStay(c)
    BY DEF CallOK, Goto, OthersStay

LEMMA ContinueKinds ==
    ASSUME IInv, NEW c \in Calls, Continue(c)
    PROVE  Kinds
<1>1. CallOK /\ Waiting(c) /\ Holds(c)
    BY DEF Continue, Waiting, IInv, TypeOK
<1>2. ASSUME ~Settle(c)
      PROVE  ChainStep
    <2>1. lock' = Append(Tail(lock), c) /\ Goto(c, [pc |-> "locked", decl |-> decl])
        BY <1>2 DEF Continue
    <2>2. call'[c].pc = "locked" /\ OthersStay(c)
        BY <1>1, <2>1, GoneOn
    <2> QED
        BY <1>1, <2>1, <2>2 DEF ChainStep, Rejoins, Waiting
<1>3. ChainStep
    BY <1>1, <1>2, SettledKind
<1> QED
    BY <1>3 DEF Continue, Kinds, ItemStep, Steady, ThreadStep

LEMMA ConsiderKinds ==
    ASSUME IInv, NEW c \in Calls, Consider(c)
    PROVE  Kinds
<1>1. CallOK /\ Waiting(c) /\ Holds(c)
    BY DEF Consider, Waiting, IInv, TypeOK
<1>2. ASSUME ~Settle(c)
      PROVE  ChainStep
    <2>1. ~\E i \in Found : Linked(i) # {}
        BY <1>2 DEF Consider
    <2>2. UNCHANGED lock /\ Goto(c, [pc |-> "probing", decl |-> call[c].decl, listed |-> catalog.snapshot])
        BY <1>2 DEF Consider
    <2>3. \A t \in Threads : Stored(t) => thread[t].link \notin Found
        BY <2>1 DEF Linked
    <2>4. call'[c].pc = "probing" /\ OthersStay(c)
        BY <1>1, <2>2, GoneOn
    <2>5. Enters(c)
        BY <1>1, <2>2, <2>3, <2>4 DEF Consider, Enters, Inside
    <2> QED
        BY <2>4, <2>5 DEF ChainStep
<1>3. ChainStep
    BY <1>1, <1>2, SettledKind
<1>4. \A i \in Items : disk'[i] = disk[i]
    BY ConstantsAssumption DEF Consider, IInv, TypeOK, DiskOK
<1> QED
    BY <1>3, <1>4 DEF Consider, Kinds, ItemStep, Steady, ThreadStep

LEMMA ProbeKinds ==
    ASSUME IInv, NEW c \in Calls, Probe(c)
    PROVE  Kinds
<1>1. CallOK /\ Inside(c) /\ Holds(c)
    BY DEF Probe, Inside, IInv, TypeOK, Chain
<1>2. ASSUME ~Settle(c)
      PROVE  ChainStep
    <2>1. /\ Goto(c, [pc |-> "asking", decl |-> call[c].decl, listed |-> call[c].listed, got |-> Nothing])
          /\ UNCHANGED lock
        BY <1>2 DEF Probe
    <2>2. call'[c].pc = "asking" /\ OthersStay(c)
        BY <1>1, <2>1, GoneOn
    <2> QED
        BY <1>1, <2>1, <2>2 DEF ChainStep, GoesOn, Inside
<1>3. ChainStep
    BY <1>1, <1>2, SettledKind
<1> QED
    BY <1>3 DEF Probe, Kinds, ItemStep, Steady, ThreadStep

LEMMA ExitKinds ==
    ASSUME IInv, Exit
    PROVE  Kinds
<1>1. thread' = [t \in Threads |-> IF thread[t].state = "left" THEN [thread[t] EXCEPT !.state = "stored"]
                                   ELSE thread[t]]
    BY DEF Exit
<1>2. \A t \in Threads : thread'[t].by = "take" => thread'[t] = thread[t]
    BY <1>1 DEF IInv, TypeOK, ThreadOK, Untaken, Stored
<1> QED
    BY <1>2 DEF Kinds, ItemStep, ChainStep, ThreadStep

LEMMA StepKinds ==
    ASSUME IInv, NEW c \in Calls, Step(c)
    PROVE  Kinds
<1>1. CASE Continue(c) \/ Consider(c) \/ Probe(c)
    BY <1>1, ContinueKinds, ConsiderKinds, ProbeKinds
<1>2. CASE Fetch(c, "asking", "fetched")
    BY <1>2, FetchKinds DEF Fetches
<1>3. CASE Fetch(c, "attaching", "attached")
    BY <1>3, FetchKinds DEF Fetches
<1>4. CASE Fetch(c, "refreshing", "refreshed")
    BY <1>4, FetchKinds DEF Fetches
<1>5. CASE Fetch(c, "listing", "listed")
    BY <1>5, FetchKinds DEF Fetches
<1> QED
    BY <1>1, <1>2, <1>3, <1>4, <1>5, TakeKinds, AttachedKinds, RefreshedKinds, ListedKinds DEF Step

LEMMA DeletedKinds ==
    ASSUME IInv, NEW t \in Threads, Deleted(t)
    PROVE  Kinds
<1> USE DEF desk
<1> DEFINE gone == [thread[t] EXCEPT !.state = "left", !.by = "deleted"]
<1>1. thread[t] \in [state : {"none", "stored", "left"}, link : Links,
                     by : {"nobody", "take", "attach", "deleted"}]
    BY DEF IInv, TypeOK, ThreadOK
<1>2. gone.by = "deleted"
    BY <1>1
<1>3. \/ thread' = [thread EXCEPT ![t] = Free]
      \/ thread' = [thread EXCEPT ![t] = gone]
    BY DEF Deleted
<1> HIDE DEF gone
<1>4. \A u \in Threads \ {t} : thread'[u] = thread[u]
    BY <1>3 DEF IInv, TypeOK, ThreadOK
<1>a. \/ thread'[t] = Free
      \/ thread'[t] = gone
    BY <1>3 DEF IInv, TypeOK, ThreadOK
<1>5. thread'[t].by # "take"
    BY <1>2, <1>a DEF Free
<1>6. \A u \in Threads : thread'[u].by = "take" => thread'[u] = thread[u]
    BY <1>4, <1>5
<1> QED
    BY <1>6 DEF Deleted, Kinds, ItemStep, ChainStep, ThreadStep, Steady

LEMMA NextKinds ==
    ASSUME IInv, [Next]_vars
    PROVE  Kinds
<1>1. CASE UNCHANGED vars
    BY <1>1, QuietKinds DEF vars
<1>2. CASE Asked
    BY <1>2, AskedKinds
<1>3. CASE Answered
    BY <1>3, StepKinds, DeletedKinds, ExitKinds DEF Answered
<1> QED
    BY <1>1, <1>2, <1>3 DEF Next

-----------------------------------------------------------------------------
(* The chain: whoever is inside is the only one.                             *)

LEMMA OnlyOneInside ==
    ASSUME Chain, NEW c \in Calls, Holds(c), NEW d \in Calls, Inside(d)
    PROVE  c = d
    BY DEF Chain, Holds

\* When the head gives up its place nobody is inside.
LEMMA NobodyInside ==
    ASSUME Chain, NEW c \in Calls, Holds(c), OthersStay(c), ~Inside(c)', NEW d \in Calls
    PROVE  ~Inside(d)'
<1>1. CASE d = c
    BY <1>1
<1>2. CASE d # c
    <2>1. call'[d] = call[d]
        BY <1>2 DEF OthersStay
    <2>2. ~Inside(d)
        BY <1>2, OnlyOneInside
    <2> QED
        BY <2>1, <2>2 DEF Inside
<1> QED
    BY <1>1, <1>2

LEMMA InOrOut ==
    ASSUME NEW c, OthersStay(c), NEW d \in Calls \ {c}
    PROVE  /\ Waiting(d)' <=> Waiting(d) 
           /\ Inside(d)' <=> Inside(d)
           /\ d \in Members' <=> d \in Members
    BY DEF OthersStay, Waiting, Inside, Members

LEMMA JoinsKept ==
    ASSUME CallOK, Chain, NEW c \in Calls, OthersStay(c), Joins(c)
    PROVE  Chain'
<1>1. lock \in Seq(Calls) /\ lock' = Append(lock, c) /\ ~Waiting(c) /\ ~Inside(c) /\ Waiting(c)' /\ ~Inside(c)'
    BY DEF CallOK, Joins, Waiting, Inside
<1>2. /\ Len(lock') = Len(lock) + 1 /\ Len(lock) \in Nat
      /\ \A j \in 1..Len(lock) : lock'[j] = lock[j] /\ lock[j] \in Calls /\ lock[j] # c
      /\ lock'[Len(lock) + 1] = c
    BY <1>1 DEF Chain, Members
<1>3. \A j, k \in 1..Len(lock') : lock'[j] = lock'[k] => j = k
    BY <1>2 DEF Chain
<1>4. \A j \in 1..Len(lock') : lock'[j] \in Members'
    <2> TAKE j \in 1..Len(lock')
    <2>1. CASE j = Len(lock) + 1
        BY <1>1, <1>2, <2>1 DEF Members
    <2>2. CASE j \in 1..Len(lock)
        <3>1. lock'[j] = lock[j] /\ lock[j] \in Calls \ {c} /\ lock[j] \in Members
            BY <1>2, <2>2 DEF Chain
        <3> QED
            BY <3>1, InOrOut
    <2> QED
        BY <1>2, <2>1, <2>2
<1>5. ASSUME NEW d \in Calls, Waiting(d)'
      PROVE  \E j \in 1..Len(lock') : lock'[j] = d
    <2>1. CASE d = c
        BY <1>2, <2>1
    <2>2. CASE d # c
        <3>1. Waiting(d)
            BY <1>5, <2>2, InOrOut
        <3>2. PICK j \in 1..Len(lock) : lock[j] = d
            BY <3>1 DEF Chain
        <3> QED
            BY <1>2, <3>2
    <2> QED
        BY <2>1, <2>2
<1>6. ASSUME NEW d \in Calls, Inside(d)'
      PROVE  Holds(d)'
    <2>1. d # c /\ Inside(d)
        BY <1>1, <1>6, InOrOut
    <2>2. lock # <<>> /\ Head(lock) = d
        BY <2>1 DEF Chain, Holds
    <2>3. lock' # <<>> /\ Head(lock') = d
        BY <1>1, <2>2
    <2> QED
        BY <2>3 DEF Holds
<1> QED
    BY <1>3, <1>4, <1>5, <1>6 DEF Chain

\* The head goes, to the end of the chain or out of it.
LEMMA HeadGoes ==
    ASSUME CallOK, Chain, NEW c \in Calls, Holds(c)
    PROVE  /\ Tail(lock) \in Seq(Calls) /\ Len(lock) \in Nat /\ Len(Tail(lock)) = Len(lock) - 1
           /\ \A j \in 1..Len(Tail(lock)) : /\ j + 1 \in 1..Len(lock) /\ Tail(lock)[j] = lock[j + 1]
                                            /\ Tail(lock)[j] \in Calls \ {c}
           /\ \A j, k \in 1..Len(Tail(lock)) : Tail(lock)[j] = Tail(lock)[k] => j = k
           /\ \A d \in Calls \ {c} : Waiting(d) => \E j \in 1..Len(Tail(lock)) : Tail(lock)[j] = d
<1>1. lock \in Seq(Calls) /\ lock # <<>> /\ lock[1] = c
    BY DEF CallOK, Holds
<1>2. /\ Tail(lock) \in Seq(Calls) /\ Len(lock) \in Nat \ {0} /\ Len(Tail(lock)) = Len(lock) - 1
      /\ \A j \in 1..Len(Tail(lock)) : j + 1 \in 1..Len(lock) /\ Tail(lock)[j] = lock[j + 1]
    BY <1>1
<1>3. \A j \in 1..Len(Tail(lock)) : lock[j + 1] \in Calls \ {c}
    <2> TAKE j \in 1..Len(Tail(lock))
    <2>1. j + 1 \in 1..Len(lock) /\ j + 1 # 1 /\ 1 \in 1..Len(lock)
        BY <1>2
    <2>2. lock[j + 1] # lock[1]
        BY <2>1 DEF Chain
    <2> QED
        BY <1>1, <2>1, <2>2
<1>4. \A j, k \in 1..Len(Tail(lock)) : Tail(lock)[j] = Tail(lock)[k] => j = k
    <2> TAKE j, k \in 1..Len(Tail(lock))
    <2>1. lock[j + 1] = lock[k + 1] => j + 1 = k + 1
        BY <1>2 DEF Chain
    <2> QED
        BY <1>2, <2>1
<1>5. ASSUME NEW d \in Calls \ {c}, Waiting(d)
      PROVE  \E j \in 1..Len(Tail(lock)) : Tail(lock)[j] = d
    <2>1. PICK j \in 1..Len(lock) : lock[j] = d
        BY <1>5 DEF Chain
    <2>2. j - 1 \in 1..Len(Tail(lock)) /\ (j - 1) + 1 = j
        BY <1>1, <1>2, <2>1
    <2> QED
        BY <1>2, <2>1, <2>2
<1> QED
    BY <1>2, <1>3, <1>4, <1>5

LEMMA DropsOutKept ==
    ASSUME CallOK, Chain, NEW c \in Calls, OthersStay(c), DropsOut(c)
    PROVE  Chain'
<1>1. Holds(c) /\ lock' = Tail(lock) /\ ~Waiting(c)' /\ ~Inside(c)'
    BY DEF DropsOut, Waiting, Inside, Idle
<1>2. \A d \in Calls : ~Inside(d)'
    BY <1>1, NobodyInside
<1>3. \A j, k \in 1..Len(lock') : lock'[j] = lock'[k] => j = k
    BY <1>1, HeadGoes
<1>4. \A j \in 1..Len(lock') : lock'[j] \in Members'
    <2> TAKE j \in 1..Len(lock')
    <2>1. lock'[j] \in Calls \ {c} /\ lock'[j] \in Members
        BY <1>1, HeadGoes DEF Chain
    <2> QED
        BY <2>1, InOrOut
<1>5. ASSUME NEW d \in Calls, Waiting(d)'
      PROVE  \E j \in 1..Len(lock') : lock'[j] = d
    <2>1. d # c /\ Waiting(d)
        BY <1>1, <1>5, InOrOut
    <2> QED
        BY <1>1, <2>1, HeadGoes
<1> QED
    BY <1>2, <1>3, <1>4, <1>5 DEF Chain

LEMMA RejoinsKept ==
    ASSUME CallOK, Chain, NEW c \in Calls, OthersStay(c), Rejoins(c)
    PROVE  Chain'
<1>1. Holds(c) /\ lock' = Append(Tail(lock), c) /\ Waiting(c)' /\ ~Inside(c)'
    BY DEF Rejoins, Waiting, Inside
<1> DEFINE rest == Tail(lock)
<1>a. /\ rest \in Seq(Calls)
      /\ \A j \in 1..Len(rest) : /\ j + 1 \in 1..Len(lock) /\ rest[j] = lock[j + 1]
                                 /\ rest[j] \in Calls \ {c}
      /\ \A j, k \in 1..Len(rest) : rest[j] = rest[k] => j = k
      /\ \A d \in Calls \ {c} : Waiting(d) => \E j \in 1..Len(rest) : rest[j] = d
    BY <1>1, HeadGoes
<1> HIDE DEF rest
<1>b. \A j \in 1..Len(rest) : rest[j] \in Members
    BY <1>a DEF Chain
<1>c. Len(rest) \in Nat
    BY <1>a
<1>2. /\ rest \in Seq(Calls) /\ Len(rest) \in Nat
      /\ \A j \in 1..Len(rest) : rest[j] \in Calls \ {c} /\ rest[j] \in Members
      /\ \A j, k \in 1..Len(rest) : rest[j] = rest[k] => j = k
      /\ \A d \in Calls \ {c} : Waiting(d) => \E j \in 1..Len(rest) : rest[j] = d
    BY <1>a, <1>b, <1>c
<1>3. lock' = Append(rest, c)
    BY <1>1 DEF rest
<1>4. /\ Len(lock') = Len(rest) + 1 /\ lock'[Len(rest) + 1] = c
      /\ \A j \in 1..Len(rest) : lock'[j] = rest[j]
    BY <1>2, <1>3
<1>5. \A d \in Calls : ~Inside(d)'
    BY <1>1, NobodyInside
<1>6. \A j, k \in 1..Len(lock') : lock'[j] = lock'[k] => j = k
    BY <1>2, <1>4
<1>7. \A j \in 1..Len(lock') : lock'[j] \in Members'
    <2> TAKE j \in 1..Len(lock')
    <2>1. CASE j = Len(rest) + 1
        BY <1>1, <1>4, <2>1 DEF Members
    <2>2. CASE j \in 1..Len(rest)
        BY <1>2, <1>4, <2>2, InOrOut
    <2> QED
        BY <1>2, <1>4, <2>1, <2>2
<1>8. ASSUME NEW d \in Calls, Waiting(d)'
      PROVE  \E j \in 1..Len(lock') : lock'[j] = d
    <2>1. CASE d = c
        BY <1>2, <1>4, <2>1
    <2>2. CASE d # c
        <3>1. PICK j \in 1..Len(rest) : rest[j] = d
            BY <1>2, <1>8, <2>2, InOrOut
        <3> QED
            BY <1>2, <1>4, <3>1
    <2> QED
        BY <2>1, <2>2
<1> QED
    BY <1>5, <1>6, <1>7, <1>8 DEF Chain

\* The chain stays, and so does everybody's place in it; only the head may be
\* let in.
LEMMA PlacesKept ==
    ASSUME CallOK, Chain, NEW c \in Calls, OthersStay(c), UNCHANGED lock,
           c \in Members => c \in Members',
           Waiting(c)' => Waiting(c), Inside(c)' => Holds(c)
    PROVE  Chain'
<1>1. lock \in Seq(Calls) /\ lock' = lock
    BY DEF CallOK
<1>2. \A d \in Calls : /\ d \in Members => d \in Members'
                       /\ Waiting(d)' => Waiting(d)
                       /\ Inside(d)' => Holds(d)
    BY InOrOut DEF Chain
<1>3. \A j \in 1..Len(lock') : lock'[j] \in Members'
    BY <1>1, <1>2 DEF Chain
<1>4. \A d \in Calls : Inside(d)' => Holds(d)'
    BY <1>1, <1>2 DEF Holds
<1> QED
    BY <1>1, <1>2, <1>3, <1>4 DEF Chain

LEMMA ChainKept ==
    ASSUME IInv, Kinds
    PROVE  Chain'
<1>1. CallOK /\ Chain /\ ChainStep
    BY DEF IInv, TypeOK, Kinds
<1>2. CASE UNCHANGED <<lock, call>>
    BY <1>1, <1>2 DEF Chain, Holds, Waiting, Inside, Members
<1>3. ASSUME NEW c \in Calls, OthersStay(c),
             Joins(c) \/ Rejoins(c) \/ Enters(c) \/ GoesOn(c) \/ DropsOut(c) \/ Aside(c)
      PROVE  Chain'
    <2>1. CASE Enters(c)
        <3>1. Waiting(c) /\ Inside(c)' /\ ~Waiting(c)' /\ Holds(c) /\ UNCHANGED lock
            BY <2>1 DEF Enters, Waiting, Inside
        <3> QED
            BY <1>1, <1>3, <3>1, PlacesKept DEF Members
    <2>2. CASE GoesOn(c)
        <3>1. Inside(c) /\ Inside(c)' /\ ~Waiting(c)' /\ Holds(c) /\ UNCHANGED lock
            BY <1>1, <2>2 DEF GoesOn, Waiting, Inside, Chain
        <3> QED
            BY <1>1, <1>3, <3>1, PlacesKept DEF Members
    <2>3. CASE Aside(c)
        BY <1>1, <1>3, <2>3, PlacesKept DEF Aside, Members
    <2> QED
        BY <1>1, <1>3, <2>1, <2>2, <2>3, JoinsKept, RejoinsKept, DropsOutKept
<1>4. CASE Exit
    <2>1. lock' = <<>> /\ \A c \in Calls : call'[c] = Idle
        BY <1>4 DEF Exit
    <2> QED
        BY <2>1 DEF Chain, Waiting, Inside, Idle, Members
<1> QED
    BY <1>1, <1>2, <1>3, <1>4 DEF ChainStep

-----------------------------------------------------------------------------
(* The threads that were taken.                                              *)

LEMMA TargetIsFree ==
    ASSUME IInv, NEW i \in Items, Target(i), NEW c \in Calls, Inside(c), NEW t \in Threads, Taken(t)
    PROVE  thread[t].link # i
<1>1. CASE Found # {}
    BY <1>1 DEF Target, Found, IInv, Untaken
<1>2. CASE Found = {}
    BY <1>2 DEF Target
<1> QED
    BY <1>1, <1>2

\* What is inside after a step was inside before, or has just looked.
LEMMA InsideBefore ==
    ASSUME IInv, Kinds, NEW c \in Calls, Inside(c)'
    PROVE  Inside(c) \/ Enters(c)
<1>1. CASE UNCHANGED <<lock, call>>
    BY <1>1 DEF Inside
<1>2. ASSUME NEW d \in Calls, OthersStay(d),
             Joins(d) \/ Rejoins(d) \/ Enters(d) \/ GoesOn(d) \/ DropsOut(d) \/ Aside(d)
      PROVE  Inside(c) \/ Enters(c)
    <2>1. CASE c # d
        BY <1>2, <2>1, InOrOut
    <2>2. CASE c = d
        BY <1>2, <2>2 DEF Joins, Rejoins, GoesOn, DropsOut, Aside, Waiting, Inside, Idle
    <2> QED
        BY <2>1, <2>2
<1>3. CASE Exit
    BY <1>3 DEF Exit, Inside, Idle
<1> QED
    BY <1>1, <1>2, <1>3 DEF Kinds, ChainStep

\* An item nobody has taken is recorded, or none is.
LEMMA StillUntaken ==
    ASSUME IInv, Kinds, NEW c \in Calls, Inside(c), Inside(c)', NEW t \in Threads, Taken(t)
    PROVE  work'[thread[t].link] = Nothing
<1>1. work[thread[t].link] = Nothing
    BY DEF IInv, Untaken
<1>2. CASE Steady
    BY <1>1, <1>2 DEF Steady
<1>3. ASSUME NEW d \in Calls, NEW i \in Items, NEW e \in Persist(disk[i], call[d].got), Writes(d, i, e)
      PROVE  work'[thread[t].link] = Nothing
    <2>1. Target(i) /\ Recorded(i, e, call[d].got)
        BY <1>3 DEF Writes
    <2>2. thread[t].link # i
        BY <2>1, TargetIsFree
    <2>3. work \in [Items -> Answers]
        BY DEF IInv, TypeOK, MemoryOK
    <2> QED
        BY <1>1, <2>1, <2>2, <2>3 DEF Recorded
<1>4. CASE Exit
    BY <1>4 DEF Exit, Inside, Idle
<1> QED
    BY <1>2, <1>3, <1>4 DEF Kinds, ItemStep

LEMMA UntakenKept ==
    ASSUME IInv, Kinds
    PROVE  Untaken'
<1> USE DEF Taken, Stored
<1>1. CASE \A t \in Threads : thread'[t].by = "take" => thread'[t] = thread[t]
    <2>1. ASSUME NEW t \in Threads, thread'[t].by = "take"
          PROVE  Stored(t)' /\ thread'[t].link \in Items /\ thread'[t] = thread[t] /\ Taken(t)
        BY <1>1, <2>1 DEF IInv, Untaken
    <2>2. ASSUME NEW c \in Calls, Inside(c)', NEW t \in Threads, Taken(t)'
          PROVE  work'[thread'[t].link] = Nothing
        <3>1. Taken(t) /\ thread'[t] = thread[t]
            BY <2>1, <2>2
        <3>2. CASE Inside(c)
            BY <2>2, <3>1, <3>2, StillUntaken
        <3>3. CASE Enters(c)
            <4>1. thread[t].link \notin Found /\ thread[t].link \in Items /\ UNCHANGED work
                BY <3>1, <3>3 DEF Enters, IInv, Untaken
            <4> QED
                BY <3>1, <4>1 DEF Found
        <3> QED
            BY <2>2, <3>2, <3>3, InsideBefore
    <2> QED
        BY <2>1, <2>2 DEF Untaken
<1>2. ASSUME NEW c \in Calls, NEW i \in Items, NEW t \in Threads, Takes(c, i, t)
      PROVE  Untaken'
    <2>1. Inside(c) /\ ~Inside(c)' /\ OthersStay(c) /\ Holds(c)
        BY <1>2 DEF Takes, Inside, Idle, IInv, Chain
    <2>2. \A d \in Calls : ~Inside(d)'
        BY <2>1, NobodyInside DEF IInv
    <2>3. \A u \in Threads \ {t} : thread'[u] = thread[u]
        BY <1>2 DEF Takes, IInv, TypeOK, ThreadOK
    <2>4. thread'[t] = [state |-> "stored", link |-> i, by |-> "take"]
        BY <1>2 DEF Takes, IInv, TypeOK, ThreadOK
    <2>5. \A u \in Threads : thread'[u].by = "take" => thread'[u].state = "stored" /\ thread'[u].link \in Items
        BY <2>3, <2>4 DEF IInv, Untaken
    <2> QED
        BY <2>2, <2>5 DEF Untaken
<1> QED
    BY <1>1, <1>2 DEF Kinds, ThreadStep

LEMMA TakenOnceKept ==
    ASSUME IInv, Kinds
    PROVE  TakenOnce'
<1>1. CASE \A t \in Threads : thread'[t].by = "take" => thread'[t] = thread[t]
    BY <1>1 DEF IInv, TakenOnce, Taken, Stored
<1>2. ASSUME NEW c \in Calls, NEW i \in Items, NEW t \in Threads, Takes(c, i, t)
      PROVE  TakenOnce'
    <2>1. Inside(c) /\ Target(i)
        BY <1>2 DEF Takes
    <2>2. \A u \in Threads : Taken(u) => thread[u].link # i
        BY <2>1, TargetIsFree
    <2>3. \A u \in Threads \ {t} : thread'[u] = thread[u]
        BY <1>2 DEF Takes, IInv, TypeOK, ThreadOK
    <2>4. thread'[t] = [state |-> "stored", link |-> i, by |-> "take"]
        BY <1>2 DEF Takes, IInv, TypeOK, ThreadOK
    <2>5. \A u \in Threads \ {t} : Taken(u)' => Taken(u) /\ thread'[u].link # i
        BY <2>2, <2>3 DEF Taken, Stored
    <2>6. ASSUME NEW u \in Threads, NEW v \in Threads, Taken(u)', Taken(v)', thread'[u].link = thread'[v].link
          PROVE  u = v
        <3>1. CASE u = t
            BY <2>4, <2>5, <2>6, <3>1
        <3>2. CASE v = t
            BY <2>4, <2>5, <2>6, <3>2
        <3>3. CASE u # t /\ v # t
            BY <2>3, <2>5, <2>6, <3>3 DEF IInv, TakenOnce
        <3> QED
            BY <3>1, <3>2, <3>3
    <2> QED
        BY <2>6 DEF TakenOnce
<1> QED
    BY <1>1, <1>2 DEF Kinds, ThreadStep

-----------------------------------------------------------------------------
(* The items.                                                                *)

LEMMA WritesItem ==
    ASSUME IInv, NEW c \in Calls, NEW i \in Items, NEW e \in Persist(disk[i], call[c].got), Writes(c, i, e)
    PROVE  /\ e.file \in Files(Issue)
           /\ e.how = "returned" => e.file.primary = call[c].got
           /\ e.how # "returned" /\ disk[i].primary # Nothing => Says(e.file, disk[i].primary)
           /\ e.how # "returned" => \A w \in Answers : Agrees(disk[i], w) => Agrees(e.file, w)
           /\ disk'[i] = e.file /\ \A j \in Items \ {i} : disk'[j] = disk[j] /\ work'[j] = work[j]
           /\ work'[i] = IF e.how = "returned" THEN call[c].got ELSE work[i]
<1>1. disk[i] \in Files(Issue) /\ call[c].got \in Issue /\ e.how # "died"
      /\ Recorded(i, e, call[c].got)
    BY DEF IInv, TypeOK, DiskOK, Writes
<1>2. i \in DOMAIN disk /\ work \in [Items -> Answers]
    BY DEF IInv, TypeOK, DiskOK, MemoryOK
<1>3. disk' = [disk EXCEPT ![i] = e.file]
      /\ work' = IF e.how = "returned" THEN [work EXCEPT ![i] = call[c].got] ELSE work
    BY <1>1 DEF Recorded
<1>4. disk'[i] = e.file /\ \A j \in Items \ {i} : disk'[j] = disk[j] /\ work'[j] = work[j]
    BY <1>2, <1>3 DEF IInv, TypeOK, DiskOK
<1>5. work'[i] = IF e.how = "returned" THEN call[c].got ELSE work[i]
    BY <1>2, <1>3
<1> QED
    BY <1>1, <1>4, <1>5, PersistEnds

\* What the end of the process leaves.
LEMMA RemainsAre ==
    ASSUME IInv, NEW left \in Remains
    PROVE  /\ \A i \in Items : /\ left[i] \in Loose(Issue)
                               /\ disk[i].primary # Nothing =>
                                     \/ Says(left[i], disk[i].primary)
                                     \/ \E c \in Writing : call[c].got \in Issue /\ Says(left[i], call[c].got)
           /\ left["catalog"] \in Loose(Issue) /\ left["role"] = disk["role"]
<1> USE DEF IInv, TypeOK, DiskOK
<1>0. /\ "catalog" \notin Items /\ "role" \notin Items /\ \A i \in Items : disk[i] \in Loose(Issue)
      /\ disk["catalog"] \in Loose(Issue)
    BY ConstantsAssumption, FilesAreLoose
<1>1. CASE left = disk
    BY <1>0, <1>1 DEF Says
<1>2. ASSUME NEW j \in Items, NEW c \in Writing, left \in Leaves(j, Persist(disk[j], call[c].got))
      PROVE  /\ \A i \in Items : /\ left[i] \in Loose(Issue)
                                 /\ disk[i].primary # Nothing =>
                                       \/ Says(left[i], disk[i].primary)
                                       \/ \E d \in Writing : call[d].got \in Issue /\ Says(left[i], call[d].got)
             /\ left["catalog"] \in Loose(Issue) /\ left["role"] = disk["role"]
    <2>1. call[c].got \in Issue
        BY <1>2, CallFields DEF Writing, Answers
    <2>2. PICK e \in Persist(disk[j], call[c].got) : e.how = "died" /\ left = [disk EXCEPT ![j] = e.file]
        BY <1>2 DEF Leaves
    <2>3. e.file \in Loose(Issue)
          /\ (disk[j].primary # Nothing => Says(e.file, disk[j].primary) \/ Says(e.file, call[c].got))
        BY <2>1, <2>2, PersistDies
    <2>4. left[j] = e.file /\ \A f \in DOMAIN disk \ {j} : left[f] = disk[f]
        BY <2>2
    <2>5. left["catalog"] = disk["catalog"] /\ left["role"] = disk["role"]
        BY <1>0, <2>4
    <2>6. ASSUME NEW i \in Items
          PROVE  /\ left[i] \in Loose(Issue)
                 /\ disk[i].primary # Nothing =>
                       \/ Says(left[i], disk[i].primary)
                       \/ \E d \in Writing : call[d].got \in Issue /\ Says(left[i], call[d].got)
        <3>1. CASE i = j
            BY <1>2, <2>1, <2>3, <2>4, <3>1
        <3>2. CASE i # j
            BY <1>0, <2>4, <3>2 DEF Says
        <3> QED
            BY <3>1, <3>2
    <2> QED
        BY <1>0, <2>5, <2>6
<1>3. ASSUME NEW c \in Calls, call[c].pc = "listed", call[c].got # Nothing,
             left \in Leaves("catalog", Install(disk["catalog"], call[c].got))
      PROVE  /\ \A i \in Items : left[i] = disk[i]
             /\ left["catalog"] \in Loose(Issue) /\ left["role"] = disk["role"]
    <2>1. call[c].got \in Issue
        BY <1>3, CallFields DEF Answers
    <2>2. PICK e \in Install(disk["catalog"], call[c].got) :
             e.how = "died" /\ left = [disk EXCEPT !["catalog"] = e.file]
        BY <1>3 DEF Leaves
    <2>3. e.file \in Loose(Issue)
        BY <2>1, <2>2, InstallDies
    <2>4. left["catalog"] = e.file /\ \A f \in DOMAIN disk \ {"catalog"} : left[f] = disk[f]
        BY <2>2
    <2> QED
        BY <1>0, <2>3, <2>4
<1>4. \/ left = disk
      \/ \E j \in Items : \E c \in Writing : left \in Leaves(j, Persist(disk[j], call[c].got))
      \/ \E c \in Calls : /\ call[c].pc = "listed" /\ call[c].got # Nothing
                          /\ left \in Leaves("catalog", Install(disk["catalog"], call[c].got))
    <2> DEFINE item(j, c) == Leaves(j, Persist(disk[j], call[c].got))
               listed(c) == Leaves("catalog", Install(disk["catalog"], call[c].got))
    <2>1. Remains = {disk} \cup (UNION {UNION {item(j, c) : c \in Writing} : j \in {i \in Items : Target(i)}})
                           \cup (UNION {listed(c) : c \in {b \in Calls : call[b].pc = "listed" /\ call[b].got # Nothing}})
        BY Zenon DEF Remains
    <2> HIDE DEF item, listed
    <2>2. \/ left = disk
          \/ left \in UNION {UNION {item(j, c) : c \in Writing} : j \in {i \in Items : Target(i)}}
          \/ left \in UNION {listed(c) : c \in {b \in Calls : call[b].pc = "listed" /\ call[b].got # Nothing}}
        BY <2>1
    <2>3. \/ left = disk
          \/ \E j \in Items : \E c \in Writing : left \in item(j, c)
          \/ \E c \in Calls : call[c].pc = "listed" /\ call[c].got # Nothing /\ left \in listed(c)
        BY <2>2
    <2> QED
        BY <2>3 DEF item, listed
<1>5. CASE \E c \in Calls : /\ call[c].pc = "listed" /\ call[c].got # Nothing
                            /\ left \in Leaves("catalog", Install(disk["catalog"], call[c].got))
    BY <1>0, <1>3, <1>5 DEF Says
<1> QED
    BY <1>1, <1>2, <1>4, <1>5

\* What a start makes of it.
LEMMA ExitItems ==
    ASSUME IInv, Exit
    PROVE  \A i \in Items : /\ disk'[i] \in Files(Issue) /\ work'[i] \in Answers
                            /\ Agrees(disk'[i], work'[i])
                            /\ disk[i].primary # Nothing =>
                                  \/ Says(disk'[i], disk[i].primary)
                                  \/ \E c \in Writing : call[c].got \in Issue /\ Says(disk'[i], call[c].got)
<1>1. PICK left \in Remains :
         \E item \in [Items -> UNION {LoadItem(left[i]) : i \in Items}] :
         \E cat \in Load(SweepTemporaries(left["catalog"])) :
          /\ \A i \in Items : item[i] \in LoadItem(left[i])
          /\ disk' = [f \in DOMAIN disk |-> IF f \in Items THEN item[f].file
                                            ELSE IF f = "catalog" THEN cat.file ELSE left[f]]
          /\ work' = [i \in Items |-> item[i].value]
    BY DEF Exit
<1>2. PICK item \in [Items -> UNION {LoadItem(left[i]) : i \in Items}] :
         \E cat \in Load(SweepTemporaries(left["catalog"])) :
          /\ \A i \in Items : item[i] \in LoadItem(left[i])
          /\ disk' = [f \in DOMAIN disk |-> IF f \in Items THEN item[f].file
                                            ELSE IF f = "catalog" THEN cat.file ELSE left[f]]
          /\ work' = [i \in Items |-> item[i].value]
    BY <1>1
<1>3. \A i \in Items : /\ item[i] \in LoadItem(left[i])
                       /\ disk'[i] = item[i].file /\ work'[i] = item[i].value
    BY <1>2 DEF IInv, TypeOK, DiskOK
<1> TAKE i \in Items
<1>4. left[i] \in Loose(Issue)
      /\ (disk[i].primary # Nothing =>
             \/ Says(left[i], disk[i].primary)
             \/ \E c \in Writing : call[c].got \in Issue /\ Says(left[i], call[c].got))
    BY RemainsAre
<1>5. /\ disk'[i] \in Files(Issue) /\ work'[i] \in Answers /\ Agrees(disk'[i], work'[i])
      /\ \A v \in Issue : Says(left[i], v) => Says(disk'[i], v)
    BY <1>3, <1>4, StartReads
<1>6. disk[i].primary # Nothing => disk[i].primary \in Issue
    BY DEF IInv, TypeOK, DiskOK, Files
<1> QED
    BY <1>4, <1>5, <1>6

LEMMA MemoryKept ==
    ASSUME IInv, Kinds
    PROVE  MemoryIsDisk'
<1>1. CASE Steady
    BY <1>1 DEF Steady, IInv, MemoryIsDisk
<1>2. ASSUME NEW c \in Calls, NEW i \in Items, NEW e \in Persist(disk[i], call[c].got), Writes(c, i, e)
      PROVE  MemoryIsDisk'
    <2>1. ASSUME NEW j \in Items
          PROVE  Agrees(disk'[j], work'[j])
        <3>1. CASE j # i
            BY <1>2, <3>1, WritesItem DEF IInv, MemoryIsDisk
        <3>2. CASE j = i /\ e.how = "returned"
            <4>1. disk'[i].primary = work'[i]
                BY <1>2, <3>2, WritesItem
            <4> QED
                BY <3>2, <4>1 DEF Agrees
        <3>3. CASE j = i /\ e.how # "returned"
            <4>1. Agrees(disk[i], work[i]) /\ work[i] \in Answers
                BY DEF IInv, MemoryIsDisk, TypeOK, MemoryOK
            <4> QED
                BY <1>2, <3>3, <4>1, WritesItem
        <3> QED
            BY <3>1, <3>2, <3>3
    <2> QED
        BY <2>1 DEF MemoryIsDisk
<1>3. CASE Exit
    BY <1>3, ExitItems DEF MemoryIsDisk
<1> QED
    BY <1>1, <1>2, <1>3 DEF Kinds, ItemStep

-----------------------------------------------------------------------------
(* The Thread objects.                                                       *)

LEMMA ObjectsKept ==
    ASSUME IInv, [Next]_vars
    PROVE  NoThreadOnGoingDirectory'
<1> USE DEF objects, desk, outside
<1>0. NoThreadOnGoingDirectory /\ thread \in [Threads -> [state : {"none", "stored", "left"}, link : Links,
                                    by : {"nobody", "take", "attach", "deleted"}]]
      /\ live \subseteq Threads
    BY DEF IInv, TypeOK, ThreadOK
<1>1. ASSUME UNCHANGED <<live, deleting>>, \A t \in Threads : Stored(t) => Stored(t)'
      PROVE  NoThreadOnGoingDirectory'
    BY <1>0, <1>1 DEF NoThreadOnGoingDirectory
<1>2. ASSUME UNCHANGED <<live, deleting, thread>>
      PROVE  NoThreadOnGoingDirectory'
    BY <1>0, <1>2 DEF NoThreadOnGoingDirectory, Stored
<1>3. CASE UNCHANGED vars
    BY <1>2, <1>3 DEF vars
<1>4. ASSUME NEW t \in Threads, Create(t) \/ Detach(t)
      PROVE  NoThreadOnGoingDirectory'
    BY <1>0, <1>1, <1>4 DEF Create, Detach, Stored
<1>5. ASSUME NEW t \in Threads, LoadThread(t) \/ Delete(t)
      PROVE  NoThreadOnGoingDirectory'
    BY <1>0, <1>5 DEF LoadThread, Delete, NoThreadOnGoingDirectory, Stored
<1>6. CASE Asked
    BY <1>2, <1>4, <1>5, <1>6 DEF Asked, World, SelectRole, OpenIssue, List, Attach, Refresh
<1>7. ASSUME NEW c \in Calls, Take(c)
      PROVE  NoThreadOnGoingDirectory'
    <2>1. UNCHANGED <<live, deleting>>
        BY <1>7 DEF Take
    <2>2. \/ UNCHANGED thread
          \/ \E i \in Items, t \in Threads : thread' = [thread EXCEPT ![t] = [state |-> "stored", link |-> i, by |-> "take"]]
        BY <1>7 DEF Take
    <2> QED
        BY <1>0, <1>1, <2>1, <2>2 DEF Stored
<1>8. ASSUME NEW c \in Calls, Attached(c)
      PROVE  NoThreadOnGoingDirectory'
    <2>1. UNCHANGED <<live, deleting>>
        BY <1>8 DEF Attached
    <2>2. \/ UNCHANGED thread
          \/ \E i \in Items : thread' = [thread EXCEPT ![call[c].thread].link = i, ![call[c].thread].by = "attach"]
        BY <1>8 DEF Attached
    <2>3. call[c].thread \in Threads
        BY <1>8, CallFields DEF Attached, IInv, TypeOK
    <2>4. \A t \in Threads : thread'[t].state = thread[t].state
        <3>1. CASE UNCHANGED thread
            BY <3>1
        <3>2. ASSUME NEW i \in Items,
                     thread' = [thread EXCEPT ![call[c].thread].link = i, ![call[c].thread].by = "attach"]
              PROVE  \A t \in Threads : thread'[t].state = thread[t].state
            <4> DEFINE new == [thread[call[c].thread] EXCEPT !.link = i, !.by = "attach"]
            <4>1. new.state = thread[call[c].thread].state
                BY <1>0, <2>3
            <4>2. thread' = [thread EXCEPT ![call[c].thread] = new]
                BY <1>0, <2>3, <3>2
            <4> HIDE DEF new
            <4> QED
                BY <1>0, <2>3, <4>1, <4>2
        <3> QED
            BY <2>2, <3>1, <3>2
    <2> QED
        BY <1>1, <2>1, <2>4 DEF Stored
<1>9. ASSUME NEW c \in Calls, Step(c)
      PROVE  NoThreadOnGoingDirectory'
    BY <1>2, <1>7, <1>8, <1>9 DEF Step, Continue, Consider, Probe, Fetch, Refreshed, Listed
<1>10. ASSUME NEW t \in Threads, Deleted(t)
       PROVE  NoThreadOnGoingDirectory'
    <2>1. t \in deleting /\ t \notin live /\ UNCHANGED live
        BY <1>0, <1>10 DEF Deleted, NoThreadOnGoingDirectory
    <2>2. \A u \in Threads \ {t} : thread'[u] = thread[u]
        BY <1>0, <1>10 DEF Deleted
    <2>3. deleting' \subseteq deleting
        BY <1>10 DEF Deleted
    <2> QED
        BY <1>0, <2>1, <2>2, <2>3 DEF NoThreadOnGoingDirectory, Stored
<1>11. CASE Exit
    BY <1>11 DEF Exit, NoThreadOnGoingDirectory
<1> QED
    BY <1>3, <1>6, <1>9, <1>10, <1>11 DEF Next, Answered

-----------------------------------------------------------------------------
(* Types.                                                                    *)

LEMMA OutsideKept ==
    ASSUME IInv, [Next]_vars
    PROVE  OutsideOK'
<1> USE DEF outside
<1>1. CASE UNCHANGED <<host, decl, up>>
    BY <1>1 DEF IInv, TypeOK, OutsideOK
<1>2. CASE World
    BY <1>2 DEF World, EditIssue, Redeclare, WorkerChanges, IInv, TypeOK, OutsideOK
<1>3. CASE Asked
    BY <1>1, <1>2, <1>3 DEF Asked, SelectRole, OpenIssue, List, Attach, Refresh, Create, Detach, LoadThread, Delete
<1>4. ASSUME NEW c \in Calls, Step(c)
      PROVE  OutsideOK'
    <2>1. CASE Continue(c) \/ Consider(c) \/ Probe(c) \/ Take(c)
        BY <1>1, <2>1 DEF Continue, Consider, Probe, Take
    <2>2. CASE Attached(c) \/ Refreshed(c) \/ Listed(c)
        BY <1>1, <2>2 DEF Attached, Refreshed, Listed
    <2> QED
        BY <1>1, <1>4, <2>1, <2>2 DEF Step, Fetch
<1>5. CASE Answered
    BY <1>1, <1>4, <1>5 DEF Answered, Deleted, Exit
<1> QED
    BY <1>1, <1>3, <1>5 DEF Next, vars

\* Writing one file leaves the others.
LEMMA FileWritten ==
    ASSUME DiskOK, NEW f \in {"catalog", "role"}, NEW file, disk' = [disk EXCEPT ![f] = file],
           f = "catalog" => file \in Files(Issue), f = "role" => file \in Files(Roles \cup {NoRole})
    PROVE  DiskOK'
    BY ConstantsAssumption DEF DiskOK

LEMMA ItemWritten ==
    ASSUME DiskOK, NEW i \in Items, NEW file \in Files(Issue), disk' = [disk EXCEPT ![i] = file]
    PROVE  DiskOK'
    BY ConstantsAssumption DEF DiskOK

LEMMA RecordWritten ==
    ASSUME IInv, NEW c \in Calls, NEW i \in Items,
           call[c].pc \in {"fetched", "attached", "refreshed"}, call[c].got # Nothing,
           NEW p \in Ends(Persist(disk[i], call[c].got)), Recorded(i, p, call[c].got)
    PROVE  DiskOK' /\ work' \in [Items -> Answers]
<1>1. call[c].got \in Issue
    BY CallFields DEF IInv, TypeOK, Answers
<1>2. p \in Persist(disk[i], call[c].got) /\ p.how # "died" /\ disk[i] \in Files(Issue)
    BY DEF Ends, IInv, TypeOK, DiskOK
<1>3. p.file \in Files(Issue)
    BY <1>1, <1>2, PersistEnds
<1>4. disk' = [disk EXCEPT ![i] = p.file]
      /\ work' = IF p.how = "returned" THEN [work EXCEPT ![i] = call[c].got] ELSE work
    BY DEF Recorded
<1> QED
    BY <1>1, <1>3, <1>4, ItemWritten DEF IInv, TypeOK, MemoryOK, Answers

LEMMA RoleRead ==
    ASSUME DiskOK, NEW e \in ReadRole
    PROVE  e.file \in Files(Roles \cup {NoRole})
    BY LoadReads DEF ReadRole, DiskOK

LEMMA ListedTypes ==
    ASSUME IInv, NEW c \in Calls, Listed(c)
    PROVE  DiskOK' /\ MemoryOK'
<1>1. DiskOK /\ MemoryOK /\ call[c].got \in Answers /\ call[c].had \in Answers /\ UNCHANGED work
    BY CallFields DEF Listed, IInv, TypeOK
<1>2. [snapshot |-> call[c].had, current |-> FALSE] \in [snapshot : Answers, current : BOOLEAN]
    BY <1>1
<1>3. CASE call[c].got = Nothing
    <2>1. catalog' = [snapshot |-> call[c].had, current |-> FALSE] /\ UNCHANGED disk
        BY <1>3 DEF Listed
    <2> QED
        BY <1>1, <1>2, <2>1 DEF DiskOK, MemoryOK
<1>4. CASE call[c].got # Nothing
    <2>1. PICK e \in Ends(Install(disk["catalog"], call[c].got)) :
              /\ disk' = [disk EXCEPT !["catalog"] = e.file]
              /\ catalog' = IF e.how = "returned" THEN [snapshot |-> call[c].got, current |-> TRUE]
                            ELSE [snapshot |-> call[c].had, current |-> FALSE]
        BY <1>4 DEF Listed
    <2>2. call[c].got \in Issue /\ disk["catalog"] \in Files(Issue)
        BY <1>1, <1>4 DEF Answers, DiskOK
    <2>3. e.file \in Files(Issue)
        BY <2>1, <2>2, InstallEnds DEF Ends
    <2>4. DiskOK'
        BY <1>1, <2>1, <2>3, FileWritten
    <2>5. catalog' \in [snapshot : Answers, current : BOOLEAN]
        BY <1>1, <1>2, <2>1
    <2> QED
        BY <1>1, <2>4, <2>5 DEF MemoryOK
<1> QED
    BY <1>3, <1>4

LEMMA TakeTypes ==
    ASSUME IInv, NEW c \in Calls, Take(c)
    PROVE  DiskOK' /\ MemoryOK' /\ ThreadOK'
<1>1. UNCHANGED <<catalog, live, deleting>> /\ call[c].pc = "fetched"
    BY DEF Take, objects
<1>2. PICK e \in ReadRole :
          IF Fits(c, RoleOf(e, decl))
          THEN \E i \in Items : \E p \in Ends(Persist(disk[i], call[c].got)) :
                 /\ Target(i) /\ Recorded(i, p, call[c].got)
                 /\ \/ p.how = "returned" /\ \E t \in Threads :
                          /\ thread[t].state = "none"
                          /\ thread' = [thread EXCEPT ![t] = [state |-> "stored", link |-> i, by |-> "take"]]
                    \/ UNCHANGED thread
          ELSE UNCHANGED <<disk, work, thread, faults>>
    BY DEF Take
<1>3. CASE Fits(c, RoleOf(e, decl))
    <2>1. PICK i \in Items : \E p \in Ends(Persist(disk[i], call[c].got)) :
                 /\ Recorded(i, p, call[c].got)
                 /\ \/ \E t \in Threads :
                          thread' = [thread EXCEPT ![t] = [state |-> "stored", link |-> i, by |-> "take"]]
                    \/ UNCHANGED thread
        BY <1>2, <1>3
    <2>2. DiskOK' /\ work' \in [Items -> Answers]
        BY <1>1, <1>3, <2>1, RecordWritten DEF Fits
    <2>3. ThreadOK'
        BY <1>1, <2>1 DEF IInv, TypeOK, ThreadOK, Links
    <2> QED
        BY <1>1, <2>2, <2>3 DEF IInv, TypeOK, MemoryOK
<1>4. CASE ~Fits(c, RoleOf(e, decl))
    BY <1>1, <1>2, <1>4 DEF IInv, TypeOK, DiskOK, MemoryOK, ThreadOK
<1> QED
    BY <1>3, <1>4

LEMMA AttachedTypes ==
    ASSUME IInv, NEW c \in Calls, Attached(c)
    PROVE  DiskOK' /\ MemoryOK' /\ ThreadOK'
<1>1. UNCHANGED <<catalog, live, deleting>> /\ call[c].pc = "attached" /\ call[c].thread \in Threads
    BY CallFields DEF Attached, objects, IInv, TypeOK
<1>2. CASE call[c].got = Nothing
    BY <1>1, <1>2 DEF Attached, IInv, TypeOK, DiskOK, MemoryOK, ThreadOK
<1>3. CASE call[c].got # Nothing
    <2>1. PICK i \in Items : \E p \in Ends(Persist(disk[i], call[c].got)) :
                 /\ Recorded(i, p, call[c].got)
                 /\ \/ thread' = [thread EXCEPT ![call[c].thread].link = i, ![call[c].thread].by = "attach"]
                    \/ UNCHANGED thread
        BY <1>3 DEF Attached
    <2>2. DiskOK' /\ work' \in [Items -> Answers]
        BY <1>1, <1>3, <2>1, RecordWritten
    <2>3. thread' \in [Threads -> [state : {"none", "stored", "left"}, link : Links,
                                   by : {"nobody", "take", "attach", "deleted"}]]
        <3>1. thread \in [Threads -> [state : {"none", "stored", "left"}, link : Links,
                                      by : {"nobody", "take", "attach", "deleted"}]]
            BY DEF IInv, TypeOK, ThreadOK
        <3> DEFINE new == [thread[call[c].thread] EXCEPT !.link = i, !.by = "attach"]
        <3>a. thread[call[c].thread] \in [state : {"none", "stored", "left"}, link : Links,
                                          by : {"nobody", "take", "attach", "deleted"}]
            BY <1>1, <3>1
        <3>2. new \in [state : {"none", "stored", "left"}, link : Links,
                       by : {"nobody", "take", "attach", "deleted"}]
            BY <2>1, <3>a DEF Links
        <3>3. thread' = [thread EXCEPT ![call[c].thread] = new] \/ UNCHANGED thread
            BY <1>1, <2>1, <3>1
        <3> HIDE DEF new
        <3> QED
            BY <3>1, <3>2, <3>3
    <2> QED
        BY <1>1, <2>2, <2>3 DEF IInv, TypeOK, MemoryOK, ThreadOK
<1> QED
    BY <1>2, <1>3

LEMMA RefreshedTypes ==
    ASSUME IInv, NEW c \in Calls, Refreshed(c)
    PROVE  DiskOK' /\ MemoryOK'
<1>1. UNCHANGED catalog /\ call[c].pc = "refreshed"
    BY DEF Refreshed
<1>2. CASE call[c].got = Nothing
    BY <1>1, <1>2 DEF Refreshed, IInv, TypeOK, DiskOK, MemoryOK
<1>3. CASE call[c].got # Nothing
    <2>1. PICK i \in Items : \E p \in Ends(Persist(disk[i], call[c].got)) : Recorded(i, p, call[c].got)
        BY <1>3 DEF Refreshed
    <2>2. DiskOK' /\ work' \in [Items -> Answers]
        BY <1>1, <1>3, <2>1, RecordWritten
    <2> QED
        BY <1>1, <2>2 DEF IInv, TypeOK, MemoryOK
<1> QED
    BY <1>2, <1>3

LEMMA RoleTypes ==
    ASSUME IInv
    PROVE  /\ SelectRole => DiskOK'
           /\ \A c \in Calls : Consider(c) => DiskOK'
<1>1. DiskOK /\ decl \in DOMAIN Decls
    BY DEF IInv, TypeOK, OutsideOK
<1>2. ASSUME SelectRole
      PROVE  DiskOK'
    <2>1. PICK role \in {Decls[decl].role[l] : l \in Labels} \cup {NoRole} :
             \E e \in Ends(Install(disk["role"], role)) : disk' = [disk EXCEPT !["role"] = e.file]
        BY <1>2 DEF SelectRole
    <2>2. role \in Roles \cup {NoRole}
        BY <1>1 DEF Roles
    <2>3. PICK e \in Install(disk["role"], role) : e.how # "died" /\ disk' = [disk EXCEPT !["role"] = e.file]
        BY <2>1 DEF Ends
    <2>4. e.file \in Files(Roles \cup {NoRole})
        BY <1>1, <2>2, <2>3, InstallEnds DEF DiskOK
    <2> QED
        BY <1>1, <2>3, <2>4, FileWritten
<1>3. ASSUME NEW c \in Calls, Consider(c)
      PROVE  DiskOK'
    <2>1. UNCHANGED disk \/ \E e \in ReadRole : disk' = [disk EXCEPT !["role"] = e.file]
        BY <1>3 DEF Consider
    <2>2. CASE UNCHANGED disk
        BY <1>1, <2>2 DEF DiskOK
    <2>3. ASSUME NEW e \in ReadRole, disk' = [disk EXCEPT !["role"] = e.file]
          PROVE  DiskOK'
        BY <1>1, <2>3, RoleRead, FileWritten
    <2> QED
        BY <2>1, <2>2, <2>3
<1> QED
    BY <1>2, <1>3

LEMMA ExitTypes ==
    ASSUME IInv, Exit
    PROVE  DiskOK' /\ MemoryOK' /\ ThreadOK' /\ CallOK'
<1>1. PICK left \in Remains :
         \E item \in [Items -> UNION {LoadItem(left[i]) : i \in Items}] :
         \E cat \in Load(SweepTemporaries(left["catalog"])) :
          /\ \A i \in Items : item[i] \in LoadItem(left[i])
          /\ disk' = [f \in DOMAIN disk |-> IF f \in Items THEN item[f].file
                                            ELSE IF f = "catalog" THEN cat.file ELSE left[f]]
          /\ work' = [i \in Items |-> item[i].value]
          /\ catalog' = [snapshot |-> cat.value, current |-> FALSE]
    BY DEF Exit
<1>2. PICK item \in [Items -> UNION {LoadItem(left[i]) : i \in Items}],
           cat \in Load(SweepTemporaries(left["catalog"])) :
          /\ disk' = [f \in DOMAIN disk |-> IF f \in Items THEN item[f].file
                                            ELSE IF f = "catalog" THEN cat.file ELSE left[f]]
          /\ work' = [i \in Items |-> item[i].value]
          /\ catalog' = [snapshot |-> cat.value, current |-> FALSE]
    BY <1>1
<1>3. cat.file \in Files(Issue) /\ cat.value \in Answers
    <2>1. left["catalog"] \in Loose(Issue)
        BY RemainsAre
    <2>2. SweepTemporaries(left["catalog"]) \in Files(Issue)
        BY <2>1, SweptFile
    <2> QED
        BY <1>2, <2>2, LoadReads DEF Answers
<1>4. DOMAIN disk = Items \cup {"catalog", "role"} /\ disk["role"] \in Files(Roles \cup {NoRole})
    BY DEF IInv, TypeOK, DiskOK
<1>5. DOMAIN disk' = DOMAIN disk /\ disk'["catalog"] = cat.file /\ disk'["role"] = left["role"]
    BY <1>2, <1>4, ConstantsAssumption
<1>6. DiskOK'
    BY <1>3, <1>4, <1>5, ExitItems, RemainsAre DEF DiskOK
<1>7. MemoryOK'
    BY <1>2, <1>3, ExitItems DEF MemoryOK
<1>8. ThreadOK'
    <2>1. /\ thread' = [t \in Threads |-> IF thread[t].state = "left" THEN [thread[t] EXCEPT !.state = "stored"]
                                          ELSE thread[t]]
          /\ live' = {} /\ deleting' = {}
        BY DEF Exit
    <2> QED
        BY <2>1 DEF IInv, TypeOK, ThreadOK
<1>9. CallOK'
    <2>1. lock' = <<>> /\ call' = [c \in Calls |-> Idle]
        BY DEF Exit
    <2> QED
        BY <2>1 DEF CallOK
<1> QED
    BY <1>6, <1>7, <1>8, <1>9

LEMMA DiskKept ==
    ASSUME IInv, [Next]_vars
    PROVE  DiskOK' /\ MemoryOK'
<1> USE DEF outside, objects, desk
<1>0. DiskOK /\ MemoryOK
    BY DEF IInv, TypeOK
<1>1. CASE UNCHANGED <<disk, work, catalog>>
    BY <1>0, <1>1 DEF DiskOK, MemoryOK
<1>2. ASSUME UNCHANGED <<work, catalog>>
      PROVE  MemoryOK'
    BY <1>0, <1>2 DEF MemoryOK
<1>3. CASE Asked
    <2>1. CASE SelectRole
        BY <1>2, <2>1, RoleTypes DEF SelectRole
    <2> QED
        BY <1>1, <1>3, <2>1 DEF Asked, World, OpenIssue, List, Attach, Refresh, Create, Detach, LoadThread, Delete
<1>4. ASSUME NEW c \in Calls, Step(c)
      PROVE  DiskOK' /\ MemoryOK'
    <2>1. CASE Consider(c)
        BY <1>2, <2>1, RoleTypes DEF Consider
    <2>2. CASE Continue(c) \/ Probe(c)
        BY <1>1, <2>2 DEF Continue, Probe
    <2>3. CASE \/ Fetch(c, "asking", "fetched") \/ Fetch(c, "attaching", "attached")
               \/ Fetch(c, "refreshing", "refreshed") \/ Fetch(c, "listing", "listed")
        BY <1>1, <2>3 DEF Fetch
    <2> QED
        BY <1>4, <2>1, <2>2, <2>3, TakeTypes, AttachedTypes, RefreshedTypes, ListedTypes DEF Step
<1>5. ASSUME NEW t \in Threads, Deleted(t)
      PROVE  DiskOK' /\ MemoryOK'
    BY <1>1, <1>5 DEF Deleted
<1> QED
    BY <1>1, <1>3, <1>4, <1>5, ExitTypes DEF Next, Answered, vars

LEMMA ThreadKept ==
    ASSUME IInv, [Next]_vars
    PROVE  ThreadOK'
<1> USE DEF outside, objects, desk
<1>0. ThreadOK
    BY DEF IInv, TypeOK
<1>1. CASE UNCHANGED <<thread, live, deleting>>
    BY <1>0, <1>1 DEF ThreadOK
<1>2. ASSUME NEW t \in Threads, Create(t) \/ Detach(t)
      PROVE  ThreadOK'
    <2>1. CASE Create(t)
        BY <1>0, <2>1 DEF Create, ThreadOK
    <2>2. CASE Detach(t)
        <3> DEFINE new == [thread[t] EXCEPT !.link = NoItem, !.by = "nobody"]
        <3>1. new \in [state : {"none", "stored", "left"}, link : Links,
                       by : {"nobody", "take", "attach", "deleted"}]
            BY <1>0 DEF ThreadOK, Links
        <3>2. thread' = [thread EXCEPT ![t] = new] /\ UNCHANGED <<live, deleting>>
            BY <1>0, <2>2 DEF Detach, ThreadOK
        <3> HIDE DEF new
        <3> QED
            BY <1>0, <3>1, <3>2 DEF ThreadOK
    <2> QED
        BY <1>2, <2>1, <2>2
<1>3. ASSUME NEW t \in Threads, LoadThread(t) \/ Delete(t)
      PROVE  ThreadOK'
    BY <1>0, <1>3 DEF LoadThread, Delete, ThreadOK
<1>4. CASE Asked
    BY <1>1, <1>2, <1>3, <1>4 DEF Asked, World, SelectRole, OpenIssue, List, Attach, Refresh
<1>5. ASSUME NEW c \in Calls, Step(c)
      PROVE  ThreadOK'
    BY <1>1, <1>5, TakeTypes, AttachedTypes DEF Step, Continue, Consider, Probe, Fetch, Refreshed, Listed
<1>6. ASSUME NEW t \in Threads, Deleted(t)
      PROVE  ThreadOK'
    <2> DEFINE gone == [thread[t] EXCEPT !.state = "left", !.by = "deleted"]
    <2>1. gone \in [state : {"none", "stored", "left"}, link : Links,
                    by : {"nobody", "take", "attach", "deleted"}]
          /\ Free \in [state : {"none", "stored", "left"}, link : Links,
                       by : {"nobody", "take", "attach", "deleted"}]
        BY <1>0 DEF ThreadOK, Links, Free
    <2>2. (thread' = [thread EXCEPT ![t] = gone] \/ thread' = [thread EXCEPT ![t] = Free])
          /\ UNCHANGED live /\ deleting' \subseteq deleting
        BY <1>0, <1>6 DEF Deleted, ThreadOK
    <2> HIDE DEF gone
    <2> QED
        BY <1>0, <2>1, <2>2 DEF ThreadOK
<1> QED
    BY <1>1, <1>4, <1>5, <1>6, ExitTypes DEF Next, Answered, vars

LEMMA CallGoes ==
    ASSUME CallOK, NEW c \in Calls,
           NEW with \in {Idle} \cup Considering \cup Attaching \cup Refreshing \cup Listing, Goto(c, with),
           lock' \in Seq(Calls)
    PROVE  CallOK'
    BY DEF CallOK, Goto

\* The ways a step may change the chain keep it a chain of calls.
LEMMA ChainOfCalls ==
    ASSUME CallOK, NEW c \in Calls
    PROVE  /\ Append(lock, c) \in Seq(Calls)
           /\ lock # <<>> => Tail(lock) \in Seq(Calls) /\ Append(Tail(lock), c) \in Seq(Calls)
    BY DEF CallOK

LEMMA AskedCalls ==
    ASSUME IInv, Asked
    PROVE  CallOK'
<1> USE DEF desk
<1>0. CallOK /\ decl \in DOMAIN Decls /\ catalog.snapshot \in Answers
      /\ \A t \in Threads : thread[t].link \in Links
    BY DEF IInv, TypeOK, OutsideOK, MemoryOK, ThreadOK
<1>1. CASE UNCHANGED <<lock, call>>
    BY <1>0, <1>1 DEF CallOK
<1>2. ASSUME NEW c \in Calls, OpenIssue(c)
      PROVE  CallOK'
    <2>1. [pc |-> "continue"] \in Considering /\ [pc |-> "locked", decl |-> decl] \in Considering
        BY <1>0 DEF Considering
    <2>2. lock' \in Seq(Calls) /\ (Goto(c, [pc |-> "continue"]) \/ Goto(c, [pc |-> "locked", decl |-> decl]))
        BY <1>0, <1>2, ChainOfCalls DEF OpenIssue
    <2> QED
        BY <1>0, <2>1, <2>2, CallGoes
<1>3. ASSUME NEW c \in Calls, List(c)
      PROVE  CallOK'
    <2>1. [pc |-> "listing", had |-> catalog.snapshot, got |-> Nothing] \in Listing
        BY <1>0 DEF Listing, Answers
    <2>2. lock' \in Seq(Calls) /\ Goto(c, [pc |-> "listing", had |-> catalog.snapshot, got |-> Nothing])
        BY <1>0, <1>3 DEF List, CallOK
    <2> QED
        BY <1>0, <2>1, <2>2, CallGoes
<1>4. ASSUME NEW c \in Calls, NEW t \in Threads, Attach(c, t)
      PROVE  CallOK'
    <2>1. [pc |-> "attaching", thread |-> t, had |-> thread[t].link, got |-> Nothing] \in Attaching
        BY <1>0 DEF Attaching, Answers
    <2>2. lock' \in Seq(Calls) /\ Goto(c, [pc |-> "attaching", thread |-> t, had |-> thread[t].link, got |-> Nothing])
        BY <1>0, <1>4 DEF Attach, CallOK
    <2> QED
        BY <1>0, <2>1, <2>2, CallGoes
<1>5. ASSUME NEW c \in Calls, NEW t \in Threads, Refresh(c, t)
      PROVE  CallOK'
    <2>1. [pc |-> "refreshing", got |-> Nothing] \in Refreshing
        BY DEF Refreshing, Answers
    <2>2. lock' \in Seq(Calls) /\ Goto(c, [pc |-> "refreshing", got |-> Nothing])
        BY <1>0, <1>5 DEF Refresh, CallOK
    <2> QED
        BY <1>0, <2>1, <2>2, CallGoes
<1> QED
    BY <1>1, <1>2, <1>3, <1>4, <1>5 DEF Asked, World, SelectRole, Create, Detach, LoadThread, Delete

LEMMA StepCalls ==
    ASSUME IInv, NEW c \in Calls, Step(c)
    PROVE  CallOK'
<1>0. CallOK /\ decl \in DOMAIN Decls /\ catalog.snapshot \in Answers /\ host \in Answers
    BY DEF IInv, TypeOK, OutsideOK, MemoryOK, Answers
<1>1. Idle \in {Idle} \cup Considering \cup Attaching \cup Refreshing \cup Listing
    OBVIOUS
<1>2. ASSUME Goto(c, Idle), lock' \in {lock, Tail(lock)}, lock # <<>> \/ lock' = lock
      PROVE  CallOK'
    <2>1. lock' \in Seq(Calls)
        BY <1>0, <1>2, ChainOfCalls DEF CallOK
    <2> QED
        BY <1>0, <1>1, <1>2, <2>1, CallGoes
<1>3. CASE Continue(c)
    <2>1. lock # <<>> /\ \/ lock' = Tail(lock) /\ Goto(c, Idle)
                         \/ lock' = Append(Tail(lock), c) /\ Goto(c, [pc |-> "locked", decl |-> decl])
        BY <1>3 DEF Continue, Holds, Settle, Release
    <2>2. [pc |-> "locked", decl |-> decl] \in Considering
        BY <1>0 DEF Considering
    <2>3. CASE lock' = Append(Tail(lock), c) /\ Goto(c, [pc |-> "locked", decl |-> decl])
        BY <1>0, <2>1, <2>2, <2>3, ChainOfCalls, CallGoes
    <2> QED
        BY <1>2, <2>1, <2>3
<1>4. CASE Consider(c)
    <2>1. lock # <<>>
        BY <1>4 DEF Consider, Holds
    <2>2. CASE Settle(c)
        BY <1>2, <2>1, <2>2 DEF Settle, Release
    <2>3. CASE ~Settle(c)
        <3>1. /\ catalog.snapshot \notin {Nothing, Closed} /\ call[c].pc = "locked"
              /\ Goto(c, [pc |-> "probing", decl |-> call[c].decl, listed |-> catalog.snapshot])
              /\ UNCHANGED lock
            BY <1>4, <2>3 DEF Consider
        <3>2. [pc |-> "probing", decl |-> call[c].decl, listed |-> catalog.snapshot] \in Considering
            BY <1>0, <3>1, CallFields DEF Considering, Answers, Issue
        <3>3. lock' \in Seq(Calls)
            BY <1>0, <3>1 DEF CallOK
        <3> QED
            BY <1>0, <3>1, <3>2, <3>3, CallGoes
    <2> QED
        BY <2>2, <2>3
<1>5. CASE Probe(c)
    <2>1. lock # <<>> /\ call[c].pc = "probing"
        BY <1>5 DEF Probe, IInv, Chain, Inside, Holds
    <2>2. CASE Settle(c)
        BY <1>2, <2>1, <2>2 DEF Settle, Release
    <2>3. CASE ~Settle(c)
        <3>1. /\ Goto(c, [pc |-> "asking", decl |-> call[c].decl, listed |-> call[c].listed, got |-> Nothing])
              /\ UNCHANGED lock
            BY <1>5, <2>3 DEF Probe
        <3>2. [pc |-> "asking", decl |-> call[c].decl, listed |-> call[c].listed, got |-> Nothing] \in Considering
            BY <1>0, <2>1, CallFields DEF Considering, Answers
        <3>3. lock' \in Seq(Calls)
            BY <1>0, <3>1 DEF CallOK
        <3> QED
            BY <1>0, <3>1, <3>2, <3>3, CallGoes
    <2> QED
        BY <2>2, <2>3
<1>6. ASSUME NEW from, NEW to, Fetch(c, from, to), <<from, to>> \in Fetches
      PROVE  CallOK'
    <2>1. PICK answer \in Answers : Goto(c, Fetched(call[c], to, answer))
        BY <1>0, <1>6 DEF Fetch, Fetched, Answers
    <2>2. call[c].pc = from /\ UNCHANGED lock
        BY <1>6 DEF Fetch
    <2>3. Fetched(call[c], to, answer) \in Considering \cup Attaching \cup Refreshing \cup Listing
        BY <1>0, <1>6, <2>2, FetchFields
    <2>4. lock' \in Seq(Calls)
        BY <1>0, <2>2 DEF CallOK
    <2> QED
        BY <1>0, <2>1, <2>3, <2>4, CallGoes
<1>7. CASE Take(c)
    <2>1. Goto(c, Idle) /\ lock' = Tail(lock) /\ lock # <<>>
        BY <1>7 DEF Take, Settle, Release, IInv, Chain, Inside, Holds
    <2> QED
        BY <1>2, <2>1
<1>8. CASE Attached(c) \/ Refreshed(c) \/ Listed(c)
    BY <1>2, <1>8 DEF Attached, Refreshed, Listed
<1>9. CASE \/ Fetch(c, "asking", "fetched") \/ Fetch(c, "attaching", "attached")
           \/ Fetch(c, "refreshing", "refreshed") \/ Fetch(c, "listing", "listed")
    BY <1>6, <1>9 DEF Fetches
<1> QED
    BY <1>3, <1>4, <1>5, <1>7, <1>8, <1>9 DEF Step

LEMMA CallKept ==
    ASSUME IInv, [Next]_vars
    PROVE  CallOK'
<1>1. CASE UNCHANGED <<lock, call>>
    BY <1>1 DEF IInv, TypeOK, CallOK
<1> QED
    BY <1>1, AskedCalls, StepCalls, ExitTypes DEF Next, Answered, Deleted, desk, vars

LEMMA ExitsCounted ==
    ASSUME IInv, [Next]_vars
    PROVE  exits' \in Nat
<1>1. exits \in Nat
    BY DEF IInv, TypeOK
<1>2. CASE UNCHANGED exits
    BY <1>1, <1>2
<1>3. CASE Exit
    BY <1>1, <1>3 DEF Exit
<1>4. CASE Asked
    BY <1>2, <1>4 DEF Asked, World, SelectRole, OpenIssue, List, Attach, Refresh, Create, Detach, LoadThread, Delete
<1>5. CASE Answered
    BY <1>2, <1>3, <1>5 DEF Answered, Step, Continue, Consider, Probe, Fetch, Take, Attached, Refreshed, Listed, Deleted
<1> QED
    BY <1>2, <1>4, <1>5 DEF Next, vars

-----------------------------------------------------------------------------
(* The theorems.                                                             *)

LEMMA InitHolds == Init => IInv
<1> SUFFICES ASSUME Init PROVE IInv
    OBVIOUS
<1>1. host \in Labels /\ decl \in DOMAIN Decls
    BY ConstantsAssumption DEF Init
<1>2. OutsideOK
    BY <1>1 DEF Init, OutsideOK, Issue
<1>3. DiskOK /\ \A i \in Items : disk[i] = NoFile
    <2>1. PICK r \in {Nothing} \cup {Decls[decl].role[host]} :
             disk = [f \in Items \cup {"catalog", "role"} |->
                        IF f = "role" THEN [NoFile EXCEPT !.primary = r] ELSE NoFile]
        BY DEF Init
    <2>2. NoFile = File(Nothing, Nothing, Nothing) /\ [NoFile EXCEPT !.primary = r] = File(r, Nothing, Nothing)
        BY DEF NoFile, File
    <2>3. r \in Roles \cup {NoRole} \cup {Nothing}
        BY <1>1 DEF Roles
    <2> DEFINE roles == Roles \cup {NoRole}
    <2>4. File(r, Nothing, Nothing) \in Files(roles) /\ File(Nothing, Nothing, Nothing) \in Files(Issue)
        <3> HIDE DEF roles
        <3>1. r \in roles \cup {Nothing}
            BY <2>3 DEF roles
        <3> QED
            BY <3>1, FileIsIn
    <2> DEFINE role == [NoFile EXCEPT !.primary = r]
    <2>5. role \in Files(Roles \cup {NoRole}) /\ NoFile \in Files(Issue)
        BY <2>2, <2>4
    <2>6. disk = [f \in Items \cup {"catalog", "role"} |-> IF f = "role" THEN role ELSE NoFile]
        BY <2>1
    <2> HIDE DEF role, roles
    <2> QED
        BY <2>5, <2>6, ConstantsAssumption DEF DiskOK
<1>4. MemoryOK
    BY DEF Init, MemoryOK, Answers
<1>5. ThreadOK
    BY DEF Init, ThreadOK, Free, Links
<1>6. CallOK
    BY DEF Init, CallOK
<1>7. Chain
    BY DEF Init, Chain, Waiting, Inside, Idle
<1>8. Untaken /\ TakenOnce
    BY DEF Init, Untaken, TakenOnce, Taken, Stored, Free, Inside, Idle
<1>9. MemoryIsDisk /\ NoThreadOnGoingDirectory
    BY DEF Init, MemoryIsDisk, Agrees, NoThreadOnGoingDirectory
<1>10. exits \in Nat
    BY DEF Init
<1> QED
    BY <1>2, <1>3, <1>4, <1>5, <1>6, <1>7, <1>8, <1>9, <1>10 DEF IInv, TypeOK

LEMMA NextHolds == IInv /\ [Next]_vars => IInv'
<1> SUFFICES ASSUME IInv, [Next]_vars PROVE IInv'
    OBVIOUS
<1>1. Kinds
    BY NextKinds
<1>2. TypeOK'
    BY OutsideKept, DiskKept, ThreadKept, CallKept, ExitsCounted DEF TypeOK
<1> QED
    BY <1>1, <1>2, ChainKept, UntakenKept, TakenOnceKept, MemoryKept, ObjectsKept DEF IInv

LEMMA InvariantHolds == Spec => []IInv
    BY InitHolds, NextHolds, PTL DEF Spec

\* Every file of the stores holds a value of its kind in each of its names and
\* no temporary outlives a call; a call knows what its place in the code has
\* read (the types of #takeIssue, attachWorkItem and #persist).
THEOREM TypeCorrect == Spec => []TypeOK
<1>1. IInv => TypeOK
    BY DEF IInv
<1> QED
    BY <1>1, InvariantHolds, PTL

\* Whatever is taken at once, by however many calls, and whatever is attached,
\* detached, deleted, refreshed or lost meanwhile: an item has at most one
\* thread that was made by taking it (#withIssueLock around #takeIssue).
THEOREM IssueTakenOnce == Spec => []OneTakenThread
<1>1. ASSUME IInv
      PROVE  OneTakenThread
    <2> SUFFICES ASSUME NEW i \in Items
                 PROVE  Cardinality({t \in Threads : Stored(t)
                                       /\ thread[t].link = i /\ thread[t].by = "take"}) <= 1
        BY DEF OneTakenThread
    <2> DEFINE those == {t \in Threads : Stored(t) /\ thread[t].link = i /\ thread[t].by = "take"}
    <2>1. \A t, u \in those : t = u
        BY <1>1 DEF IInv, TakenOnce, Taken
    <2> HIDE DEF those
    <2>2. Cardinality(those) <= 1
        <3>1. CASE those = {}
            BY <3>1, FS_EmptySet
        <3>2. CASE those # {}
            <4>1. PICK t \in those : TRUE
                BY <3>2
            <4>2. those = {t}
                BY <2>1, <4>1
            <4>3. Cardinality({t}) = 1
                BY FS_Singleton
            <4> QED
                BY <4>2, <4>3
        <3> QED
            BY <3>1, <3>2
    <2> QED
        BY <2>2 DEF those
<1> QED
    BY <1>1, InvariantHolds, PTL

\* No Thread object lives on a directory that is going (#thread refuses a thread
\* whose deletion is registered).
THEOREM DirectoryIsFree == Spec => []NoThreadOnGoingDirectory
<1>1. IInv => NoThreadOnGoingDirectory
    BY DEF IInv
<1> QED
    BY <1>1, InvariantHolds, PTL

\* A step leaves every recorded item as it was or as it was being recorded, in
\* memory and on disk alike.
LEMMA ItemSurvives ==
    ASSUME IInv, [Next]_vars, NEW i \in Items, work[i] # Nothing, disk[i].primary # Nothing
    PROVE  /\ Durable(i)' \in {work[i]} \cup {call[c].got : c \in Writing}
           /\ exits' = exits => Durable(i)' = work'[i]
<1>1. disk[i].primary = work[i] /\ work[i] \in Issue
    BY DEF IInv, MemoryIsDisk, Agrees, TypeOK, MemoryOK, Answers
<1>2. ASSUME NEW v \in Issue, Says(disk'[i], v)
      PROVE  Durable(i)' = v
    BY <1>2, ConstantsAssumption DEF Says, Durable
<1>3. CASE Steady
    <2>1. disk'[i].primary = work[i] /\ work'[i] = work[i]
        BY <1>1, <1>3 DEF Steady
    <2> QED
        BY <1>1, <1>2, <2>1 DEF Says
<1>4. ASSUME NEW c \in Calls, NEW j \in Items, NEW e \in Persist(disk[j], call[c].got), Writes(c, j, e)
      PROVE  Durable(i)' = work'[i] /\ Durable(i)' \in {work[i]} \cup {call[d].got : d \in Writing}
    <2>1. call[c].got \in Issue /\ c \in Writing
        BY <1>4, ConstantsAssumption DEF Writes, Writing
    <2>2. CASE i # j
        <3>1. disk'[i] = disk[i] /\ work'[i] = work[i]
            BY <1>4, <2>2, WritesItem
        <3> QED
            BY <1>1, <1>2, <3>1 DEF Says
    <2>3. CASE i = j /\ e.how = "returned"
        <3>1. disk'[i].primary = call[c].got /\ work'[i] = call[c].got
            BY <1>4, <2>3, WritesItem
        <3> QED
            BY <1>2, <2>1, <3>1 DEF Says
    <2>4. CASE i = j /\ e.how # "returned"
        <3>1. Says(disk'[i], work[i]) /\ work'[i] = work[i]
            BY <1>1, <1>4, <2>4, WritesItem
        <3> QED
            BY <1>1, <1>2, <3>1
    <2> QED
        BY <2>2, <2>3, <2>4
<1>5. CASE Exit
    <2>1. \/ Says(disk'[i], work[i])
          \/ \E c \in Writing : call[c].got \in Issue /\ Says(disk'[i], call[c].got)
        BY <1>1, <1>5, ExitItems
    <2>2. Durable(i)' \in {work[i]} \cup {call[d].got : d \in Writing}
        BY <1>1, <1>2, <2>1
    <2>3. exits' # exits
        BY <1>5 DEF Exit, IInv, TypeOK
    <2> QED
        BY <2>2, <2>3
<1> QED
    BY <1>3, <1>4, <1>5, NextKinds DEF Kinds, ItemStep

\* A recorded item is never lost or torn: whatever fails, and wherever the
\* process ends, a start reads it as it was recorded or as it was being recorded
\* (#persist and #loadAll of work/store.ts).
THEOREM ItemsAreKept == Spec => ItemsSurvive
<1>1. ASSUME IInv, [Next]_vars
      PROVE  \A i \in Items : work[i] # Nothing /\ disk[i].primary # Nothing =>
          /\ Durable(i)' \in {work[i]} \cup {call[c].got : c \in Writing}
          /\ exits' = exits => Durable(i)' = work'[i]
    BY <1>1, ItemSurvives
<1> QED
    BY <1>1, InvariantHolds, PTL DEF Spec, ItemsSurvive
=============================================================================
