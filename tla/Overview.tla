------------------------------- MODULE Overview -------------------------------
(* The project overview: getProjectOverview and getProjectIssueDetail of      *)
(* orchestrator.ts with what they read before and after their awaits, the     *)
(* requests of useHarness.ts that keep the panel up to date, and the panel of *)
(* ProjectOverview.tsx with its detail and its actions.  One issue; the panel *)
(* shows the workspace, a directory without a declaration, or is closed.      *)
EXTENDS IssueRoute

CONSTANTS Decls,       \* name -> the files of the workspace: [shared, local]
          Declared,    \* the one to begin with
          Issues,      \* what GitHub may say of the issue: [labels, open]
          Workers,     \* what probes may find: worker -> [supported, busy, seen, old]
          Slots,       \* bound: overview requests in flight
          MaxMoves,    \* bound: moves of the person at the window
          MaxEdits,    \* bound: moves of the world outside
          MaxFaults    \* bound: requests that fail

VARIABLES world,    \* the workspace and what the server keeps for it
          changes,  \* how often world changed
          reads,    \* the project.overview requests in flight
          ui,       \* the refs and the state of useHarness, and the panel's directory
          detail,   \* the panel's detail: its request, or what it shows
          acting,   \* the issue.open in flight
          saving,   \* the workspace.role.set in flight: its directory
          pushed,   \* whether a push is on its way
          moves, edits, faults

vars == <<world, changes, reads, ui, detail, acting, saving, pushed, moves, edits, faults>>
bounds == <<moves, edits, faults>>

Dirs == {"workspace", "elsewhere"}
Resolutions == [d \in DOMAIN Decls |-> Resolve(Decls[d].shared, Decls[d].local)]
Resolution(dir) == IF dir = "workspace" THEN Resolutions[world.decl] ELSE None
Repository(resolution) == IF resolution.status = "ok" THEN resolution.workspace.github ELSE NoRepository
Repositories == {Repository(Resolutions[d]) : d \in DOMAIN Decls} \ {NoRepository}

\* WorkItemStore.find and the threads linked to what it finds.
Item(repository) == IF world.item # Nothing /\ world.item.repository = repository THEN world.item.issue ELSE Nothing
Linked(repository) == world.linked /\ Item(repository) # Nothing

\* CatalogStore.read.
Catalog(repository) == world.catalog[repository]

\* fetchIssue and fetchOpenIssueCatalog of github.ts, when they succeed: the
\* list has the open issues only.
FetchedIssue == world.host
FetchedCatalog == IF world.host.open THEN world.host ELSE Nothing

Selection(dir) == RoleSelection(Resolution(dir), world.role)
Usable == Dispatchable(world.workers)

Init ==
    /\ \E i \in {j \in Issues : j.open}, w \in Workers, freshness \in {"current", "cached", "not-fetched"},
          saved \in {Nothing} \cup Ids(Resolutions[Declared].workspace.roles) :
          world = [decl |-> Declared, role |-> saved, host |-> i @@ [revision |-> 0],
                   catalog |-> [r \in Repositories |-> [issue |-> IF freshness = "not-fetched" THEN Nothing ELSE i @@ [revision |-> 0],
                                                    current |-> freshness = "current", error |-> FALSE]],
                   item |-> Nothing, linked |-> FALSE, workers |-> w]
    /\ changes = 0
    /\ reads = [s \in Slots |-> Nothing]
    /\ ui = [panel |-> Nothing, wanted |-> Nothing, explicit |-> FALSE, again |-> FALSE, view |-> Nothing, excused |-> FALSE]
    /\ detail = Nothing /\ acting = Nothing /\ saving = Nothing /\ pushed = FALSE
    /\ moves = 0 /\ edits = 0 /\ faults = 0

-----------------------------------------------------------------------------
(* useHarness.  A client is the ui with the requests it has in flight.        *)

Client == [ui |-> ui, reads |-> reads]
Becomes(client) == ui' = client.ui /\ reads' = client.reads

\* A newer request makes the answers of older ones unwanted.  A plain one then
\* does nothing more; an explicit one still ends what it began.  Dropped is
\* whether the panel may then do without what it brings.
Supersede(old, dropped) ==
    [s \in Slots |-> IF old[s] # Nothing /\ old[s].explicit
                      THEN [old[s] EXCEPT !.latest = FALSE, !.dropped = @ \/ dropped] ELSE Nothing]

\* The request is sent: it counts, and what the view shows of another
\* directory goes.
Send(c, dir, explicit) ==
    LET others == Supersede(c.reads, explicit \/ ~c.ui.explicit)
        slot == CHOOSE s \in Slots : others[s] = Nothing
        same == c.ui.view # Nothing /\ c.ui.view.dir = dir
        before == IF explicit /\ Repository(Resolution(dir)) # NoRepository
                  THEN Catalog(Repository(Resolution(dir))) ELSE Nothing
    IN  [ui |-> [c.ui EXCEPT !.wanted = dir, !.explicit = @ \/ explicit, !.excused = @ /\ dir # c.ui.panel,
                             !.view = [dir |-> dir, busy |-> TRUE, row |-> IF same THEN @.row ELSE Nothing, error |-> same /\ @.error]],
         reads |-> [others EXCEPT ![slot] =
            [pc |-> IF before = Nothing THEN "get" ELSE "refresh", dir |-> dir, explicit |-> explicit,
             latest |-> TRUE, dropped |-> FALSE, decl |-> world.decl, catalog |-> before, row |-> Nothing, at |-> changes]]]

RefreshedAtOnce(c, dir, explicit) == Send(c, dir, explicit)

\* refreshProjectOverview: while an explicit refresh runs, others wait for it.
Refreshed(c, dir, explicit) ==
    IF ~explicit /\ c.ui.explicit THEN [c EXCEPT !.ui.again = TRUE] ELSE Send(c, dir, explicit)

\* Its finally.
Finished(c, read) ==
    IF ~read.explicit THEN c
    ELSE IF c.ui.again /\ c.ui.wanted = read.dir
         THEN Refreshed([c EXCEPT !.ui.explicit = FALSE, !.ui.again = FALSE], read.dir, FALSE)
         ELSE [c EXCEPT !.ui.explicit = FALSE]

\* closeProjectOverview.
Closed(c, dir) ==
    IF c.ui.wanted # dir THEN c
    ELSE [ui |-> [c.ui EXCEPT !.wanted = Nothing, !.explicit = FALSE, !.again = FALSE],
          reads |-> Supersede(c.reads, TRUE)]

\* Room for an explicit request and what may follow it.
Room == Cardinality({s \in Slots : reads[s] # Nothing /\ reads[s].explicit}) + 1 < Cardinality(Slots)

\* A change of the world that this window will not hear of is no fault of the
\* panel's until it reads again.
Unheard(unheard) == ui' = [ui EXCEPT !.excused = @ \/ unheard]

-----------------------------------------------------------------------------
(* The world outside.                                                         *)

Change(w) == world' = w /\ changes' = changes + 1

Redeclare == \E d \in DOMAIN Decls \ {world.decl} : Change([world EXCEPT !.decl = d])
EditIssue == \E i \in Issues : Change([world EXCEPT !.host = i @@ [revision |-> @.revision + 1]])
WorkersChange == \E w \in Workers \ {world.workers} : Change([world EXCEPT !.workers = w])

Outside ==
    /\ edits < MaxEdits /\ edits' = edits + 1
    /\ Redeclare \/ EditIssue \/ WorkersChange
    /\ UNCHANGED <<reads, ui, detail, acting, saving, pushed, moves, faults>>

\* The linked thread is deleted.  The push makes useHarness read again only
\* when the window has that thread open.
ThreadRemoved ==
    /\ edits < MaxEdits /\ edits' = edits + 1
    /\ world.linked
    /\ Change([world EXCEPT !.linked = FALSE])
    /\ \E active \in BOOLEAN : pushed' = (pushed \/ active) /\ Unheard(~active)
    /\ UNCHANGED <<reads, detail, acting, saving, moves, faults>>

PushArrives ==
    /\ pushed /\ pushed' = FALSE
    /\ Becomes(IF ui.wanted = Nothing THEN Client ELSE Refreshed(Client, ui.wanted, FALSE))
    /\ UNCHANGED <<world, changes, detail, acting, saving, bounds>>

-----------------------------------------------------------------------------
(* project.overview.get and catalog.refresh at the server.                    *)

\* CatalogStore.refresh: a failure puts back what it found when it began.
CatalogRefreshed(s) ==
    LET r == reads[s]
        repository == Repository(Resolutions[r.decl])
    IN  /\ r # Nothing /\ r.pc = "refresh"
        /\ \/ /\ Change([world EXCEPT !.catalog[repository] =
                            [issue |-> FetchedCatalog, current |-> TRUE, error |-> FALSE]])
              /\ UNCHANGED faults
           \/ /\ faults < MaxFaults /\ faults' = faults + 1
              /\ Change([world EXCEPT !.catalog[repository] = [r.catalog EXCEPT !.current = FALSE, !.error = TRUE]])
        /\ reads' = [reads EXCEPT ![s].pc = "get"]
        /\ Unheard(r.dropped)
        /\ UNCHANGED <<detail, acting, saving, pushed, moves, edits>>

\* Up to the probe: the declaration and the catalog.
ReadBefore(s) ==
    LET r == reads[s]
        repository == Repository(Resolution(r.dir))
    IN  /\ r # Nothing /\ r.pc = "get"
        /\ reads' = [reads EXCEPT ![s] =
              IF repository = NoRepository THEN [r EXCEPT !.pc = "answer", !.row = Nothing, !.at = changes]
              ELSE [r EXCEPT !.pc = "probe", !.decl = world.decl, !.catalog = Catalog(repository), !.at = changes]]
        /\ UNCHANGED <<world, changes, ui, detail, acting, saving, pushed, bounds>>

\* After it: the role, the work items and the threads.
Row(r) ==
    LET resolution == Resolutions[r.decl]
        repository == Repository(resolution)
        issue == IF r.catalog.issue # Nothing THEN r.catalog.issue ELSE Item(repository)
    IN  [linked |-> Linked(repository), role |-> world.role, catalog |-> r.catalog, repository |-> repository, at |-> r.at,
         action |-> IF r.catalog.issue = Nothing /\ ~Linked(repository) THEN "no row"
                    ELSE RowAction(resolution, issue, Linked(repository), r.catalog.current, Selection(r.dir), Usable)]

ReadAfter(s) ==
    /\ reads[s] # Nothing /\ reads[s].pc = "probe"
    /\ reads' = [reads EXCEPT ![s].pc = "answer", ![s].row = Row(reads[s])]
    /\ UNCHANGED <<world, changes, ui, detail, acting, saving, pushed, bounds>>

Shows(c, r, row, error) ==
    IF r.latest /\ c.ui.wanted = r.dir
    THEN [c EXCEPT !.ui.view = [dir |-> r.dir, busy |-> FALSE, row |-> row, error |-> error]]
    ELSE c

Settled(s) == [Client EXCEPT !.reads[s] = Nothing]

\* openDetail sends for the detail; a new row makes it do so again.
DetailRead(dir) == [pc |-> "get", dir |-> dir]

\* The answer arrives; the panel takes it up.
Answered(s) ==
    LET r == reads[s]
    IN  /\ r # Nothing /\ r.pc = "answer"
        /\ Becomes(Finished(Shows(Settled(s), r, r.row, r.row # Nothing /\ r.row.catalog.error), r))
        /\ detail' = IF detail # Nothing /\ r.latest /\ r.row # Nothing /\ ui.panel = r.dir THEN DetailRead(r.dir) ELSE detail
        /\ UNCHANGED <<world, changes, acting, saving, pushed, bounds>>

\* The request fails: the panel keeps what it had.
Failed(s) ==
    LET r == reads[s]
    IN  /\ r # Nothing /\ r.pc \in {"get", "probe", "answer"}
        /\ faults < MaxFaults /\ faults' = faults + 1
        /\ LET kept == IF ui.view.dir = r.dir THEN ui.view.row ELSE Nothing
               gone == [Settled(s) EXCEPT !.ui.excused = @ \/ r.latest]
           IN  Becomes(Finished(Shows(gone, r, kept, TRUE), r))
        /\ UNCHANGED <<world, changes, detail, acting, saving, pushed, moves, edits>>

-----------------------------------------------------------------------------
(* project.issue.get at the server.                                           *)

DetailBefore ==
    /\ detail # Nothing /\ detail.pc = "get"
    /\ LET repository == Repository(Resolution(detail.dir))
           d == [pc |-> "fetch", dir |-> detail.dir, decl |-> world.decl, catalog |-> Catalog(repository),
                 item |-> Item(repository), fetched |-> Nothing, failed |-> FALSE, at |-> changes]
       IN  detail' = IF repository = NoRepository \/ (Catalog(repository).issue = Nothing /\ Item(repository) = Nothing)
                     THEN [pc |-> "answer", dir |-> detail.dir, action |-> Nothing]
                     ELSE IF Catalog(repository).current THEN d ELSE [d EXCEPT !.pc = "probe"]
    /\ UNCHANGED <<world, changes, reads, ui, acting, saving, pushed, bounds>>

DetailFetched ==
    /\ detail # Nothing /\ detail.pc = "fetch"
    /\ \/ detail' = [detail EXCEPT !.pc = "probe", !.fetched = FetchedIssue] /\ UNCHANGED faults
       \/ faults < MaxFaults /\ faults' = faults + 1 /\ detail' = [detail EXCEPT !.pc = "probe", !.failed = TRUE]
    /\ UNCHANGED <<world, changes, reads, ui, acting, saving, pushed, moves, edits>>

DetailAfter ==
    /\ detail # Nothing /\ detail.pc = "probe"
    /\ LET resolution == Resolutions[detail.decl]
           linked == detail.item # Nothing /\ Linked(Repository(resolution))
       IN  detail' = [pc |-> "answer", dir |-> detail.dir, at |-> detail.at, linked |-> linked,
                      fetched |-> detail.fetched # Nothing, listed |-> detail.catalog.issue,
                      action |-> DetailAction(resolution, detail.fetched, detail.catalog.issue, detail.item, detail.failed,
                                              detail.catalog.current, linked, Selection(detail.dir), Usable)]
    /\ UNCHANGED <<world, changes, reads, ui, acting, saving, pushed, bounds>>

DetailAnswered ==
    /\ detail # Nothing /\ detail.pc = "answer"
    /\ detail' = [detail EXCEPT !.pc = "shown"]
    /\ UNCHANGED <<world, changes, reads, ui, acting, saving, pushed, bounds>>

DetailFailed ==
    /\ detail # Nothing /\ detail.pc # "shown"
    /\ faults < MaxFaults /\ faults' = faults + 1
    /\ detail' = [pc |-> "shown", dir |-> detail.dir, action |-> Nothing]
    /\ UNCHANGED <<world, changes, reads, ui, acting, saving, pushed, moves, edits>>

-----------------------------------------------------------------------------
(* The panel.                                                                 *)

Move == moves < MaxMoves /\ moves' = moves + 1

\* The row on show: of the panel's directory.
Shown == IF ui.view # Nothing /\ ui.view.dir = ui.panel THEN ui.view.row ELSE Nothing

\* The effects on cwd: the old directory is closed, the new one opened.
ShowPanel ==
    /\ Move
    /\ \E dir \in (Dirs \cup {Nothing}) \ {ui.panel} :
          LET left == IF ui.panel = Nothing THEN Client ELSE Closed(Client, ui.panel)
              there == [left EXCEPT !.ui.panel = dir]
          IN  Becomes(IF dir = Nothing THEN there ELSE Refreshed(there, dir, FALSE))
    /\ detail' = Nothing
    /\ UNCHANGED <<world, changes, acting, saving, pushed, edits, faults>>

\* "Refresh issues", disabled while busy, and the button of an error's notice,
\* which is not.
RefreshIssues ==
    /\ Move /\ Room
    /\ Shown # Nothing /\ (ui.view.busy => ui.view.error)
    /\ Becomes(Refreshed(Client, ui.panel, TRUE))
    /\ UNCHANGED <<world, changes, detail, acting, saving, pushed, edits, faults>>

\* "Read workspace again", where there is nothing to show.
ReadAgain ==
    /\ Move
    /\ ui.view # Nothing /\ ui.view.dir = ui.panel /\ ui.view.row = Nothing /\ ~ui.view.busy
    /\ Becomes(Refreshed(Client, ui.panel, FALSE))
    /\ UNCHANGED <<world, changes, detail, acting, saving, pushed, edits, faults>>

OpenDetail ==
    /\ Move
    /\ detail = Nothing /\ Shown # Nothing /\ Shown.action # "no row"
    /\ detail' = DetailRead(ui.panel)
    /\ UNCHANGED <<world, changes, reads, ui, acting, saving, pushed, edits, faults>>

CloseDetail ==
    /\ Move
    /\ detail # Nothing /\ detail' = Nothing
    /\ UNCHANGED <<world, changes, reads, ui, acting, saving, pushed, edits, faults>>

\* setWorkspaceRoleAt: the server saves the role, its answer makes the panel
\* read again if it still wants the directory.  A role the workspace does not
\* have any more is refused, and nothing happens.
SetRole ==
    /\ Move
    /\ saving = Nothing /\ Shown # Nothing /\ ui.wanted = ui.panel
    /\ Resolution(ui.panel).status = "ok"
    /\ \E role \in (Ids(Resolution(ui.panel).workspace.roles) \cup {Nothing}) \ {world.role} :
          Change([world EXCEPT !.role = role])
    /\ saving' = ui.panel
    /\ UNCHANGED <<reads, ui, detail, acting, pushed, edits, faults>>

RoleSaved ==
    /\ saving # Nothing /\ saving' = Nothing
    /\ Becomes(IF ui.wanted = saving THEN Refreshed(Client, saving, FALSE) ELSE Client)
    /\ UNCHANGED <<world, changes, detail, acting, pushed, bounds>>

\* runAction: from the row when it offers something, or from the detail.
Act ==
    /\ Move
    /\ acting = Nothing
    /\ \/ detail = Nothing /\ Shown # Nothing /\ Shown.action \in {"take", "continue"}
       \/ detail # Nothing /\ detail.pc = "shown" /\ detail.action \in {"take", "continue"}
    /\ acting' = [pc |-> "sent", dir |-> ui.panel]
    /\ UNCHANGED <<world, changes, reads, ui, detail, saving, pushed, edits, faults>>

Prepared(dir) ==
    LET r == Resolution(dir)
        catalog == IF Repository(r) = NoRepository THEN Nothing ELSE Catalog(Repository(r))
    IN  Prepare(r, catalog, world.host, world.linked, Selection(dir), Usable)

\* prepareIssue, whose own interleavings are Desk's: it may also refuse.
IssueOpened ==
    /\ acting # Nothing /\ acting.pc = "sent"
    /\ \E answer \in {Prepared(acting.dir), "none"} :
          /\ acting' = [acting EXCEPT !.pc = IF answer = "none" THEN "refused" ELSE "prepared"]
          /\ IF answer = "take"
             THEN /\ Change([world EXCEPT !.linked = TRUE,
                                !.item = [repository |-> Repository(Resolution(acting.dir)), issue |-> world.host]])
                  /\ pushed' = TRUE
             ELSE UNCHANGED <<world, changes, pushed>>
    /\ UNCHANGED <<reads, ui, detail, saving, bounds>>

\* The panel reads the directory of the action again, whichever it shows now.
ActionAnswered ==
    /\ acting # Nothing /\ acting.pc \in {"refused", "prepared"}
    /\ acting' = Nothing
    /\ LET c == Refreshed(Client, acting.dir, FALSE)
       IN  Becomes(IF acting.pc = "refused" THEN Client
                   ELSE [c EXCEPT !.ui.excused = @ \/ acting.dir # ui.panel])
    /\ UNCHANGED <<world, changes, detail, saving, pushed, bounds>>

-----------------------------------------------------------------------------
Reads == \E s \in Slots : CatalogRefreshed(s) \/ ReadBefore(s) \/ ReadAfter(s) \/ Answered(s)
DetailReads == DetailBefore \/ DetailFetched \/ DetailAfter \/ DetailAnswered
Panel == ShowPanel \/ RefreshIssues \/ ReadAgain \/ OpenDetail \/ CloseDetail \/ SetRole \/ Act

Next ==
    \/ Outside \/ ThreadRemoved \/ PushArrives
    \/ Reads \/ (\E s \in Slots : Failed(s))
    \/ DetailReads \/ DetailFailed
    \/ Panel \/ RoleSaved \/ IssueOpened \/ ActionAnswered

\* What was asked for is answered and what was sent arrives; nobody has to act.
Fairness ==
    /\ \A s \in Slots : WF_vars(CatalogRefreshed(s) \/ ReadBefore(s) \/ ReadAfter(s) \/ Answered(s))
    /\ WF_vars(DetailReads) /\ WF_vars(PushArrives)
    /\ WF_vars(RoleSaved) /\ WF_vars(IssueOpened) /\ WF_vars(ActionAnswered)

Spec == Init /\ [][Next]_vars
FairSpec == Spec /\ Fairness

-----------------------------------------------------------------------------
\* The panel and the server agree: while nothing has changed since a read began,
\* prepareIssue does just what a row says, and what a detail offers.  The
\* catalog, or the detail's fetch, must say what GitHub says.  Exceptions, see
\* the README: prepareIssue continues a thread of an issue of the same number in
\* another repository, and a detail may offer to take an issue the catalog lacks.
RowHonoured ==
    /\ Shown.action # "no row"
    /\ Shown.catalog.issue = world.host \/ Shown.linked
    /\ world.linked => Shown.linked
    => Prepared(ui.panel) = Shown.action

DetailHonoured ==
    /\ detail.listed # Nothing
    /\ detail.fetched \/ detail.listed = world.host \/ detail.linked
    /\ world.linked => detail.linked
    => detail.action = "none" \/ Prepared(detail.dir) = detail.action

OfferHonoured ==
    /\ Shown # Nothing /\ Shown.at = changes => RowHonoured
    /\ detail # Nothing /\ detail.pc = "shown" /\ detail.action # Nothing /\ detail.at = changes => DetailHonoured

\* Settings in force refer only to what is in force with them, and a local file
\* does not weaken the shared policy: what IssueRoute and Workspace say of all
\* files, whatever goes on, is looked at before anything has.
SettingsAreSound ==
    changes = 0 /\ moves = 0 /\ world.role = Nothing => EffectiveIsClosed /\ LocalCannotWeaken

\* In the end an open panel is not reading any more and shows the role, the
\* thread and the catalog the server has.  Excused until the next read: a
\* read that failed, and the disagreements the README lists.
UpToDate ==
    \/ ui.panel = Nothing \/ ui.excused
    \/ /\ ui.view # Nothing /\ ui.view.dir = ui.panel /\ ~ui.view.busy
       /\ Shown # Nothing =>
             /\ Shown.role = world.role /\ Shown.linked = Linked(Shown.repository)
             /\ Shown.catalog = Catalog(Shown.repository)

PanelCatchesUp == <>[]UpToDate
===============================================================================
