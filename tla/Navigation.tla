------------------------------ MODULE Navigation ------------------------------
(***************************************************************************)
(* What the window's main area shows (App.tsx): the selected process, the   *)
(* history that decides where a stop or a removal leads, the pool of        *)
(* terminals kept mounted, the removal dialog, and every surface that       *)
(* offers an action on a process or a project.                              *)
(*                                                                          *)
(* React commits what is set outside a user event later than what is set    *)
(* inside one: the list folded from core events and the selection made by a *)
(* late answer wait for the next Render, a click commits at once and sees   *)
(* the rows of the last commit.  Palettes and menus can be opened at any    *)
(* time, so whether one is open is not state here.  What the core makes of  *)
(* a start or a stop comes back as list changes.                            *)
(***************************************************************************)
EXTENDS WindowDomain

CONSTANTS
  NavId,          \* process ids, never reused
  NavProject,
  Shape,          \* the rows the list may hold: project, kind, status, trust, resumable
  Lead,           \* spawn lineage: the process that spawned one, or None; acyclic
  PoolCap,        \* TERMINAL_POOL_CAP
  MaxListChanges,
  MaxIntents

\* An id is one of finitely many numbers (ProcessId, a u64), a row is a row, and the
\* pool mounts at least the shown terminal.
ASSUME NavigationAssumption ==
  /\ IsFiniteSet(NavId)
  /\ None \notin NavId \cup NavProject
  /\ None \notin Shape
  /\ PoolCap \in Nat \ {0}

VARIABLES
  rows,           \* the process list of the last commit
  folded,         \* the list with the events folded in since
  nav,            \* selection, history and views
  pool,           \* useTerminalPool: the state of the last effect
  answers,        \* ids of launched agents and terminals, answers under way
  gone,           \* ids that left the list
  viewed,         \* history: processes shown while listed, newest first
  parted,         \* history: processes stopped or removed by the user and not reopened
  late,           \* history: those of them the late answer to their launch selected
  navSpent        \* bounds used up

navigationVars == <<rows, folded, nav, pool, answers, gone, viewed, parted, late,
                    navSpent>>

Row == [project : NavProject, kind : ProcessKind, status : ProcStatus, requires_trust : BOOLEAN,
        resumable : BOOLEAN]

Listed(list) == {id \in NavId : list[id] # None}

-------------------------------------------------------------------------------
(* What a surface offers: intents, each a handler and its target.            *)

Do(handler, target) == [do |-> handler, to |-> target]

\* runStateActions: a live process offers only what ends or cycles it, an
\* untrusted resting one only Trust.
RunStateActions(row) ==
  IF isActive(row.status)
  THEN {a \in {"stop", "restart"} : IF a = "stop" THEN canStop(row.status)
                                    ELSE canRestart(row.status) /\ ~row.requires_trust}
  ELSE IF row.requires_trust THEN {"trust"}
  ELSE {a \in {"resume", "start", "restart"} :
          CASE a = "resume" -> canStart(row.status) /\ row.resumable
            [] a = "start"  -> canStart(row.status)
            [] OTHER        -> canRestart(row.status)}

\* REMOVABLE: a command is declared elsewhere and would come back.
Removable(row) == row.kind # "Command" /\ canRemove(row.status)

\* processActions.
ProcessActions(row) == RunStateActions(row) \cup {a \in {"remove"} : Removable(row)}

\* runnableProcessActions: each action bound to its handler.
Runnable(list, id) == {Do(a, id) : a \in ProcessActions(list[id])}

\* presentProcessActions: the one a row shows first; the rest sit in its menu.
Primary(row) ==
  IF row.status = "Running" /\ row.kind = "Command" THEN {"restart"} \cap ProcessActions(row)
  ELSE LET order == <<"trust", "stop", "resume", "start", "restart", "remove">>
           offered == Keeping(order, ProcessActions(row))
       IN IF offered = <<>> THEN {} ELSE {offered[1]}

\* ActionButton and ActionMenuItem: both run the bound action.
ActionButton(list, id) == {Do(a, id) : a \in Primary(list[id])}
ActionMenu(list, id) == Runnable(list, id) \ ActionButton(list, id)

\* ProcessControls: a row with no primary action has no controls at all.
ControlIntents(list, id) ==
  IF Primary(list[id]) = {} THEN {} ELSE ActionButton(list, id) \cup ActionMenu(list, id)

\* ProcessRow: a click selects; the controls and the context menu act.
RowIntents(list, id) == {Do("select", id)} \cup ControlIntents(list, id) \cup Runnable(list, id)

\* groupByProject: the processes of one project.
Own(list, p) == {id \in Listed(list) : list[id].project = p}

\* groupByKind: those of one kind.
KindGroup(list, p, kind) == {id \in Own(list, p) : list[id].kind = kind}

\* nestByLineage: a row whose lead is not in the group is a root of it.
Root(group, id) == Lead[id] \notin group \ {id}
Workers(group, id) == {w \in group \ {id} : Lead[w] = id}

\* flatten: the rows a group shows, roots first and their workers below them.
Nested(group) ==
  LET below[n \in 0..Cardinality(group)] ==
        IF n = 0 THEN {id \in group : Root(group, id)}
        ELSE below[n - 1] \cup UNION {Workers(group, id) : id \in below[n - 1]}
  IN below[Cardinality(group)]

\* ProcessNode and ProcessGroup: every nested row, with its own intents.
ProcessNodeIntents(list, group, id) ==
  RowIntents(list, id) \cup UNION {RowIntents(list, w) : w \in Workers(group, id)}
ProcessGroupIntents(list, group) ==
  UNION {ProcessNodeIntents(list, group, id) : id \in Nested(group)}

\* projectActions, which the header's two menus share.
ProjectIntents(p) ==
  {Do(h, p) : h \in {"startAll", "restartRunning", "stopProject", "openOrchestration",
                     "openProjectSettings"}}

\* The menu's Remove only opens RemoveProjectDialog; its button removes.
RemoveProjectIntents(p) == {Do("removeProject", p)}

\* ProjectGroup: the header, its menus and dialog, and the groups below.
ProjectGroupIntents(list, p) ==
  ProjectIntents(p) \cup RemoveProjectIntents(p)
  \cup UNION {ProcessGroupIntents(list, KindGroup(list, p, kind)) : kind \in ProcessKind}

\* findSelectedTree: the project the selected row is in, if it is in one.
SelectedTree(list, n) == {p \in NavProject : n.shown \in Own(list, p)}

\* firstOfKind: the first root of a group; firstProcessInTree: of its first group.
FirstOfKind(list, p, kind) ==
  LET group == KindGroup(list, p, kind)
  IN {id \in group : Root(group, id) /\ \A o \in group : Root(group, o) => id <= o}
FirstInTree(list, p) ==
  LET kinds == Keeping(<<"Agent", "Terminal", "Command">>,
                       {k \in ProcessKind : KindGroup(list, p, k) # {}})
  IN IF kinds = <<>> THEN {} ELSE FirstOfKind(list, p, kinds[1])

\* useSidebarHotkeys: from the project of the selected row, the first row of a
\* kind or of another project; restart_selection takes the selected id as it is.
HotkeyTargets(list, tree) ==
  {id \in Listed(list) :
     \/ \E p \in tree, kind \in ProcessKind : id \in FirstOfKind(list, p, kind)
     \/ tree # {} /\ \E p \in NavProject : id \in FirstInTree(list, p)}
HotkeyIntents(list, n) ==
  {Do("restart", id) : id \in {n.shown} \ {None}}
  \cup {Do("select", id) : id \in HotkeyTargets(list, SelectedTree(list, n))}

\* Sidebar: the projects, their rows, Start and the keyboard.
SidebarIntents(list, n) ==
  (UNION {ProjectGroupIntents(list, p) : p \in NavProject})
  \cup HotkeyIntents(list, n)
  \cup {Do("openStart", None)}

\* useTerminalHotkeys: Ctrl+Up and Ctrl+Down go to the neighbours in the list.
PaneHotkeys(list, id) ==
  {Do("select", next) : next \in
     {o \in Listed(list) \ {id} :
        ~\E m \in Listed(list) : (id < m /\ m < o) \/ (o < m /\ m < id)}}

\* TerminalPane: the controls of the shown process and its keyboard.
PaneIntents(list, n) ==
  IF n.shown = None \/ n.shown \notin Listed(list) THEN {}
  ELSE ControlIntents(list, n.shown) \cup PaneHotkeys(list, n.shown)

\* StartSurface, when nothing else is open: of its cards only one is available.
StartCards == {[do |-> "openProject", available |-> TRUE], [do |-> "clone", available |-> FALSE],
               [do |-> "quickStart", available |-> FALSE]}
StartIntents(n) ==
  {Do(card.do, None) : card \in
     {c \in StartCards : c.available /\ {n.shown, n.settings, n.orchestration} = {None}}}

\* App: the project in view is the shown process's, else the opened page's.
ActiveProject(list, n) ==
  IF n.shown # None /\ list[n.shown] # None THEN list[n.shown].project
  ELSE IF n.settings # None THEN n.settings ELSE n.orchestration

\* QuickActionsPalette: the processes of the project in view.
QuickActionIntents(list, n) ==
  IF ActiveProject(list, n) = None THEN {}
  ELSE UNION {Runnable(list, id) : id \in Own(list, ActiveProject(list, n))}

\* QuickJumpPalette.
QuickJumpIntents(list) ==
  {Do("select", id) : id \in Listed(list)}
  \cup {Do("openProjectSettings", p) : p \in NavProject}

\* buildCommands: everything the app exposes, from one registry.
CommandIntents(list) ==
  (UNION {ProjectIntents(p) : p \in NavProject})
  \cup UNION {{Do("select", id)} \cup Runnable(list, id) : id \in Listed(list)}

\* LaunchPicker: the project first, unless there is only one; then an agent, an
\* agent with flags, or a terminal in it.
ProjectStep == NavProject
FlagsStep(p) == {Do("launchAgent", p)}
LaunchStep(p) == {Do("launchAgent", p), Do("createTerminal", p)}
LaunchIntents == UNION {LaunchStep(p) \cup FlagsStep(p) : p \in ProjectStep}

\* AttentionControl lists only processes the list holds; a toast selects only
\* one it still holds.
AttentionIntents(list) == {Do("select", id) : id \in Listed(list)}

\* App's hotkeys: close_agent_or_terminal stops the selected process.
GlobalHotkeyIntents(n) == {Do("stop", id) : id \in {n.selected} \ {None}}

\* RemoveProcessDialog is open while its process is still listed.
DialogIntents(list, n) ==
  IF n.pending = None \/ list[n.pending] = None THEN {}
  ELSE {Do("confirmRemoval", n.pending), Do("dismissRemoval", None)}

Offered ==
  SidebarIntents(rows, nav) \cup PaneIntents(rows, nav) \cup StartIntents(nav)
  \cup QuickActionIntents(rows, nav) \cup QuickJumpIntents(rows)
  \cup CommandIntents(rows) \cup LaunchIntents \cup AttentionIntents(rows)
  \cup GlobalHotkeyIntents(nav) \cup DialogIntents(rows, nav)

-------------------------------------------------------------------------------
(* Handlers: functions from the navigation state to the next one.            *)

\* processActivationHistory.
ActivateProcess(history, id) == <<id>> \o Keeping(history, NavId \ {id})
ForgetProcesses(history, ids) == Keeping(history, NavId \ ids)
MostRecentAvailable(history, ids) ==
  LET open == Keeping(history, ids)
  IN IF open = <<>> THEN None ELSE open[1]

\* A handler of an event: what it opens is shown in the same commit.
Showing(n, id, settings, orchestration) ==
  [n EXCEPT !.selected = id, !.shown = id, !.settings = settings,
            !.orchestration = orchestration, !.landing = FALSE]

SelectProcess(n, id) ==
  [Showing(n, id, None, None) EXCEPT !.visited = ActivateProcess(@, id)]

OpenStart(n) == Showing(n, None, None, None)
OpenProjectSettings(n, p) == Showing(n, None, p, None)
OpenOrchestration(n, p) == Showing(n, None, None, p)

\* The selection leaves a process that was stopped, removed or vanished, for
\* the most recently opened one that is left.
AfterForgetting(n, ids, list) ==
  LET next == MostRecentAvailable(n.visited, Listed(list))
  IN IF n.selected \notin ids THEN n
     ELSE IF next = None THEN OpenStart(n) ELSE SelectProcess(n, next)

\* Mutant: only the shown process is forgotten.
AfterLifecycleShownOnly(n, ids, list) ==
  IF n.selected \in ids
  THEN AfterForgetting([n EXCEPT !.visited = ForgetProcesses(@, ids)], ids, list)
  ELSE n

AfterLifecycle(n, ids, list) ==
  AfterForgetting([n EXCEPT !.visited = ForgetProcesses(@, ids)], ids, list)

\* projectStopped: the live processes of the project, as the last commit has them.
StopTargets(list, p) == {id \in Own(list, p) : isActive(list[id].status)}

\* useProcessRemoval: a live process waits for the dialog; anything else goes
\* to the core at once, and its pane is left.
RequestRemoval(n, id, list) ==
  IF list[id] # None /\ isActive(list[id].status)
  THEN [n EXCEPT !.pending = id]
  ELSE AfterLifecycle(n, {id}, list)

ConfirmRemoval(n, list) == AfterLifecycle([n EXCEPT !.pending = None], {n.pending}, list)

\* What a click makes of the navigation state.
Performed(n, list, intent) ==
  CASE intent.do \in {"select", "start", "restart", "resume"} -> SelectProcess(n, intent.to)
    [] intent.do = "stop" -> AfterLifecycle(n, {intent.to}, list)
    [] intent.do = "stopProject" -> AfterLifecycle(n, StopTargets(list, intent.to), list)
    [] intent.do = "remove" -> RequestRemoval(n, intent.to, list)
    [] intent.do = "confirmRemoval" -> ConfirmRemoval(n, list)
    [] intent.do = "dismissRemoval" -> [n EXCEPT !.pending = None]
    [] intent.do = "openStart" -> OpenStart(n)
    [] intent.do = "openProjectSettings" -> OpenProjectSettings(n, intent.to)
    [] intent.do = "openOrchestration" -> OpenOrchestration(n, intent.to)
    [] OTHER -> n

-------------------------------------------------------------------------------
(* The pool of mounted terminals.                                            *)

Capped(ids, cap) == IF Len(ids) > cap THEN SubSeq(ids, 1, cap) ELSE ids

\* Mutant: the shown process joins at the end.
NextPoolAppending(prev, id, ids) ==
  LET kept == Keeping(prev, ids)
  IN Capped(IF id \in ids THEN Keeping(kept, ids \ {id}) \o <<id>> ELSE kept, PoolCap)

\* nextPool: the listed ones of the pool, the shown one first, capped.
NextPool(prev, id, ids) ==
  LET kept == Keeping(prev, ids)
  IN Capped(IF id \in ids THEN <<id>> \o Keeping(kept, ids \ {id}) ELSE kept, PoolCap)

\* The effect of the last commit: it runs before the next one.
PoolNow == NextPool(pool, nav.shown, Listed(rows))

\* App: the terminals mounted in this commit.
Mounted ==
  Keeping(Capped(IF nav.shown # None /\ nav.shown \notin Range(pool)
                 THEN <<nav.shown>> \o pool ELSE pool, PoolCap),
          Listed(rows))

-------------------------------------------------------------------------------
(* Steps.                                                                    *)

\* A commit: the pool's effect of the last one has run.
Commit(n, list) ==
  /\ nav' = n
  /\ pool' = PoolNow
  /\ viewed' = IF n.shown # None /\ list[n.shown] # None
               THEN ActivateProcess(viewed, n.shown) ELSE viewed

\* History: what an intent stops or removes, and what it opens again.
Departed(intent) ==
  CASE intent.do \in {"stop", "confirmRemoval"} -> {intent.to}
    [] intent.do = "stopProject" -> StopTargets(rows, intent.to)
    [] intent.do = "remove" /\ ~isActive(rows[intent.to].status) -> {intent.to}
    [] OTHER -> {}
Reopened(intent) ==
  IF intent.do \in {"select", "start", "restart", "resume"} THEN {intent.to} ELSE {}

\* The user acts on a surface: the handler runs and commits in one event turn.
Act ==
  /\ navSpent.intents < MaxIntents
  /\ navSpent' = [navSpent EXCEPT !.intents = @ + 1]
  /\ \E intent \in Offered \ LaunchIntents :
       /\ Commit(Performed(nav, rows, intent), rows)
       /\ parted' = (parted \ Reopened(intent)) \cup Departed(intent)
       /\ late' = late \ (Reopened(intent) \cup Departed(intent))
  /\ UNCHANGED <<rows, folded, answers, gone>>

\* onLaunchAgent and onCreateTerminal: the core hands out an id; its row and
\* the answer travel independently.
Launch ==
  /\ LaunchIntents # {}
  /\ navSpent.intents < MaxIntents
  /\ navSpent' = [navSpent EXCEPT !.intents = @ + 1]
  /\ \E id \in NavId \ (answers \cup gone) :
       /\ folded[id] = None
       /\ answers' = answers \cup {id}
  /\ UNCHANGED <<rows, folded, nav, pool, gone, viewed, parted, late>>

\* The answer selects the new process, whatever the user opened meanwhile and
\* whatever became of the process; the selection is shown by the next Render.
LaunchAnswered ==
  \E id \in answers :
    /\ answers' = answers \ {id}
    /\ nav' = [nav EXCEPT !.visited = ActivateProcess(@, id), !.selected = id, !.landing = TRUE]
    /\ late' = late \cup ({id} \cap parted)
    /\ UNCHANGED <<rows, folded, pool, gone, viewed, parted, navSpent>>

\* Core events fold into the list: a row appears, changes or goes.
ListChange ==
  /\ navSpent.changes < MaxListChanges
  /\ navSpent' = [navSpent EXCEPT !.changes = @ + 1]
  /\ \E id \in NavId \ gone : \E row \in Shape \cup {None} :
       /\ row # folded[id]
       /\ row # None /\ folded[id] # None =>
            row.project = folded[id].project /\ row.kind = folded[id].kind
       /\ folded' = [folded EXCEPT ![id] = row]
       /\ gone' = IF row = None THEN gone \cup {id} ELSE gone
  /\ UNCHANGED <<rows, nav, pool, answers, viewed, parted, late>>

\* Mutant: the known ids are replaced before they are compared.
VanishedTooLate == Listed(folded) \ Listed(folded)

\* Listed by the last commit, gone from this one.
Vanished == Listed(rows) \ Listed(folded)

\* The list and the selection are committed; the layout effect then leaves a
\* process that vanished.
Render ==
  /\ rows # folded \/ nav.landing
  /\ rows' = folded
  /\ LET landed == IF nav.landing THEN Showing(nav, nav.selected, None, None) ELSE nav
     IN Commit(IF Vanished = {} THEN landed ELSE AfterLifecycle(landed, Vanished, folded), folded)
  /\ UNCHANGED <<folded, answers, gone, parted, late, navSpent>>

\* The pool's effect, when no commit comes first.
PoolEffect ==
  /\ pool # PoolNow
  /\ pool' = PoolNow
  /\ UNCHANGED <<rows, folded, nav, answers, gone, viewed, parted, late, navSpent>>

NavigationInit ==
  /\ rows = [id \in NavId |-> None]
  /\ folded = rows
  /\ nav = [selected |-> None, shown |-> None, visited |-> <<>>, settings |-> None,
            orchestration |-> None, pending |-> None, landing |-> FALSE]
  /\ pool = <<>>
  /\ answers = {}
  /\ gone = {}
  /\ viewed = <<>>
  /\ parted = {}
  /\ late = {}
  /\ navSpent = [intents |-> 0, changes |-> 0]

NavigationNext ==
  /\ surface = "navigation"
  /\ Act \/ Launch \/ LaunchAnswered \/ ListChange \/ Render \/ PoolEffect

-------------------------------------------------------------------------------
(* Properties.                                                               *)

NavigationTypeOK ==
  /\ rows \in [NavId -> Row \cup {None}]
  /\ folded \in [NavId -> Row \cup {None}]
  /\ nav.selected \in NavId \cup {None}
  /\ nav.shown \in NavId \cup {None}
  /\ Range(nav.visited) \subseteq NavId
  /\ IsInjective(nav.visited)
  /\ {nav.settings, nav.orchestration} \subseteq NavProject \cup {None}

\* The selection never falls back on a process the user stopped or removed and
\* has not opened since, whichever surface, vanished row or other process's
\* answer moved it (useProcessActivationNavigation.ts forgets every target of a
\* stop, the ones that are not shown too).  Excluded is a process that the
\* answer to its own launch selects after the user has stopped or removed it:
\* App.tsx:223 selects whatever id the answer brings.
NeverBackToParted == nav.selected \notin parted \ late

\* When a list update takes away the process the pane shows, the same commit
\* leaves it for one that is still listed, or for Start
\* (useProcessActivationNavigation.ts, the layout effect).
LeavesVanished ==
  [][nav.shown # None /\ rows[nav.shown] # None /\ rows'[nav.shown] = None =>
        /\ nav'.shown # nav.shown
        /\ nav'.shown = None \/ nav'.shown \in Listed(rows') \/ nav.landing
     ]_navigationVars

\* The shown terminal is mounted, the mounted ones fit the cap, and no listed
\* process viewed more recently than a mounted one was evicted before it
\* (useTerminalPool.ts and the fold in App.tsx, around the effect's lag).
PoolKeepsRecent ==
  /\ nav.shown # None /\ rows[nav.shown] # None => nav.shown \in Range(Mounted)
  /\ Len(Mounted) <= PoolCap
  /\ \A i, j \in DOMAIN viewed :
       i < j /\ viewed[j] \in Range(Mounted) /\ rows[viewed[i]] # None
         => viewed[i] \in Range(Mounted)

=============================================================================
