----------------------------- MODULE StoreFiles -----------------------------
(* How the small stores of the core keep one JSON file: WorkItemStore        *)
(* (work/store.ts), CatalogStore (work/catalog-store.ts) and                 *)
(* WorkspaceRoleSelectionStore (workspace/role-selection-store.ts).  A file  *)
(* is its primary, the temporary it is staged in and the backup the old one  *)
(* is moved to.  Each operator gives every way a synchronous call can end:   *)
(* it returns, it throws, or the process dies between two of its steps.      *)
EXTENDS Naturals, Sequences

CONSTANTS Nothing,   \* no file of that name
          Torn       \* a file the process died while writing

NoFile == [primary |-> Nothing, temp |-> Nothing, backup |-> Nothing]

End(file, how, faults) == [file |-> file, how |-> how, faults |-> faults]
Died(file, faults) == End(file, "died", faults)

Staged(f, v) == [f EXCEPT !.temp = v]
Unstaged(f)  == [f EXCEPT !.temp = Nothing]
NoBackup(f)  == [f EXCEPT !.backup = Nothing]
\* rename(primary, backup), when there is a primary
SetAside(f)  == IF f.primary = Nothing THEN f
                ELSE [f EXCEPT !.primary = Nothing, !.backup = f.primary]
\* rename(temp, primary)
Installed(f) == [f EXCEPT !.primary = f.temp, !.temp = Nothing]
\* rename(backup, primary), when only the backup is there
Restored(f)  == IF f.primary = Nothing /\ f.backup # Nothing
                THEN [f EXCEPT !.primary = f.backup, !.backup = Nothing] ELSE f

\* The catch: the temporary goes, a primary that was moved away comes back; the
\* rename back may fail as well.
GiveUp(f, faults) == {End(Restored(Unstaged(f)), "threw", faults), End(Unstaged(f), "threw", faults + 1)}

-----------------------------------------------------------------------------
(* WorkItemStore.#persist.                                                   *)

Persist(f, v) ==
    LET staged == Staged(f, v)
        ready  == NoBackup(staged)
        aside  == SetAside(ready)
        done   == Installed(aside)
    IN  UNION {
          \* it dies between two steps, or in the middle of the write
          {Died(g, 0) : g \in {Unstaged(f), Staged(f, Torn), staged, ready, aside, done}},
          \* the write fails; the rename to the backup fails; the install fails
          GiveUp(f, 1), GiveUp(ready, 1), GiveUp(aside, 1),
          \* the committed backup cannot be removed
          {End([done EXCEPT !.backup = aside.backup], "returned", 1)},
          {End(NoBackup(done), "returned", 0)}}

\* WorkItemStore.#loadAll, one item: temporaries go, a backup whose primary is
\* missing comes back, unless renaming it fails; then the item is not loaded.
LoadItem(f) ==
    LET clean == Unstaged(f)
        kept  == IF clean.primary # Nothing THEN NoBackup(clean) ELSE clean
    IN  {[file |-> Restored(kept), value |-> Restored(kept).primary, faults |-> 0]}
        \cup IF Restored(kept) = kept THEN {}
             ELSE {[file |-> kept, value |-> Nothing, faults |-> 1]}

-----------------------------------------------------------------------------
(* CatalogStore.#write and WorkspaceRoleSelectionStore.write: rename over the *)
(* primary, and only where that fails, as it does on Windows when there is a *)
(* primary, move it aside first.                                             *)

Install(f, v) ==
    LET staged == Staged(f, v)
        ready  == NoBackup(staged)
        aside  == SetAside(ready)
        done   == Installed(aside)
    IN  UNION {
          {Died(g, 0) : g \in {Staged(f, Torn), staged, Installed(staged)}},
          {End(Installed(staged), "returned", 0)},
          {End(Unstaged(f), "threw", 1)},
          \* the first rename fails
          {Died(g, 1) : g \in {ready, aside, done}},
          {End(NoBackup(done), "returned", 1)},
          GiveUp(ready, 2), GiveUp(aside, 2)}

\* CatalogStore.#load and WorkspaceRoleSelectionStore.read: the primary, or else
\* the backup, which is served even if it cannot be renamed back.
Load(f) ==
    LET value == IF f.primary # Nothing THEN f.primary ELSE f.backup
    IN  {[file |-> Restored(f), value |-> value, faults |-> 0],
         [file |-> f, value |-> value, faults |-> 1]}
\* The catalog sweeps its temporaries when the process starts.
SweepTemporaries(f) == Unstaged(f)

=============================================================================
