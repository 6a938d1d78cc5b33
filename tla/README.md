# Soloist: a TLA+ verification of the process supervisor and of the window

Soloist is a desktop application that runs the processes of a developer's
projects: the commands of a `solo.yml`, terminals, and coding agents. It starts
and stops them, restarts those that crash, refuses to run what the user has not
trusted, gives agents timers, leases, todos and messages to coordinate with,
and reaps everything on quit. The core is a Rust crate (`crates/core`) with no
I/O of its own; adapters for PTYs, SQLite, MCP, HTTP and a Tauri shell surround
it, and a React window (`crates/app/ui`) shows it and drives it.

This directory holds TLA+ modules that model both, TLC configurations that
check them on small instances, and TLAPS proofs for every instance. Two halves
are covered: the **process supervisor**, where threads race over a registry, and
the **window**, which keeps copies of the core's state, edits some of it, and
talks to it only through calls that answer late and events that may be dropped.
The coordination services between them are planned (section 5).

## 1. Inventory

### The supervisor and what surrounds it

| part (`crates/core/src/…`) | state | operations | what makes it correct |
|---|---|---|---|
| state machine `process.rs` | – | `transition`, `is_active` | only listed edges are taken |
| commands `supervisor/lifecycle.rs`, `bulk.rs` | – | start, resume, restart, stop, close, shutdown, update_command, deregister_if_resting, bulk loops | a stop is not lost, a close or a shutdown returns only when the child is gone |
| registry `supervisor/registry*.rs` | one entry per process: status, handle, pgid, launch spec | begin_launch, attach_join, take_handle, signal, set_status, set_pgid, remove_* | one launch wins; the handle is the live actor's; the pgid is the process's own child |
| actor `supervisor/actor.rs` | its child, mailbox, status mirror | spawn, run, graceful_stop, the panic boundary | at most one child; the child is reaped before the process rests |
| restart policy `supervisor/restart.rs` | a sliding window per process, a shutdown latch | auto_restart_after_crash, rescan_crashed, the reactor | a crash is healed, not too often, and never after a stop |
| event bus `events.rs` | a bounded broadcast ring | publish, subscribe | a slow subscriber is told that it lagged |
| trust `trust.rs`, `trust/requests.rs` | trusted variants (stored); pending requests with expiry | trust, untrust, is_trusted; record, status, peek, resolve | nothing untrusted runs; a grant is for what was shown |
| orphans `orphans.rs`, `supervisor/reconcile.rs`, `adopt.rs` | runtime-state file | record, forget, classify, adopt, kill | a crash of the app leaves nothing it cannot find again, and a reused pgid is not mistaken for it |

### The window

| part (`crates/app/ui/src/…`) | state | operations | what makes it correct |
|---|---|---|---|
| read models `store/` | the process list with its buffer of events, the badges, the snapshots re-read on an event, the disk cache | ask, answer, fold, replay, resync, refetch on focus, reorder | once all has settled the copy is the core's; an older answer never replaces a newer one |
| navigation `App.tsx`, `store/useProcessActivation*`, `store/useTerminalPool.ts` | selection, history, removal dialog, pool of mounted terminals | every surface that offers an action; stop, remove, vanish, late launches | the selection never falls back on what was stopped or is gone; the pool evicts what was viewed longest ago |
| trust prompts `store/useTrust*.ts` | the review on screen, the queue of requests | show, trust one or all, approve, deny | nothing is trusted that was not on screen |
| leftovers `store/useOrphans.ts`, `components/OrphanDialog.tsx` | the rows offered | kill, kill all, leave | a row goes only when its group has ended |
| document editors `components/editor/useAutosave.ts` and the editor hooks | pending text, save in flight, revision guard, conflict | edit, flush, save, conflict, reload, rename, unmount | no write is overwritten unseen, a refused one is not made again behind the user's back, "Saved" is true |
| diagrams `lib/mermaid/`, `components/mermaid/` | draft, per-surface render, engine queue, configuration, cache | debounce, draw, apply a palette, fullscreen, zoom | what rests on screen is the last source in the palette of the app |
| repository reads `store/git/useRepositoryRead.ts` and its hooks | newest answer, frame waiting | read, announce, switch project or path | an answer is shown only for what was asked; every announced change is read |
| git rail `components/git/`, `store/git/` | calls running, texts typed, confirmation, published cluster | commit, draft, fetch, pull, push, stop, stash, hunks, pull request | words written for one project stay there; a failure is told while the rail is there to tell it |
| terminal panes `components/terminal/` | stream, queue, retry timer, visibility | attach, flush, hide, resume, overflow, re-attach | no byte is skipped or repeated |
| settings `store/appearanceMutationQueue.ts`, `AppearanceProvider`, `persist.ts` | the queue of mutations, the document shown | coalesce, rebase, send, refuse, re-read | no write undoes another |
| project settings page `components/project-settings/` | pending edits per row, write queue, reloads | edit, add, delete, move, drain | edits made faster than the core takes them are merged |

### Coordination, projects, watching

| part | state | operations | what makes it correct |
|---|---|---|---|
| leases `coordination/lease.rs` | holder and expiry per name (stored) | acquire, release, release_all, reconcile | one holder; the dead do not hold |
| timers `coordination/timer.rs`, `scheduler.rs` | armed, paused timers (stored) | set, cancel, pause, resume; claim and deliver | fires once, not after a cancel, not for a removed owner |
| mailbox `coordination/mailbox/*` | bounded queues, reservations, wake state | enqueue, reserve, acknowledge, wake and retry, remove | order, bounds, no message acknowledged twice, a waiting recipient is woken |
| documents `coordination/{todo,scratchpad,diagram,kv,template}.rs` | revisioned rows | create, update, lock, complete | no update lost, blockers acyclic |
| file watch `filewatch/*`, `debounce.rs` | match rules, debouncers | trigger, fire, resync | one restart per burst, eventually, only of a running command |
| configuration `config/*`, `projects/config_watch.rs` | an index of projects and their files | load, diff, sync, reload | a reload never kills running work nor duplicates a command |
| watch set `watchset/*` | watched directories under a budget | plan, reconcile | within the budget |
| agents, idle, notifications, metrics, ports | read models and text | – | mostly data |

Adapters (`ipc`, `mcp`, `httpapi`, `cli`, the Tauri commands) are concurrent
callers of the facade; `pty`, `exec`, `sys`, `store`, `git`, `forge` are the
outside world.

### How they interact

A command is a method call on the supervisor from any thread. It reads the
registry under its lock, decides outside it, and returns to it: to *claim* a
resting process (`begin_launch`, which installs a mailbox with the new status)
or to *signal* an actor (`try_send`). A launch spawns a task per process; that
task alone touches the child, and writes status and pgid back to the registry.
Every change is published on the bus. The self-healing reactor, the scheduler,
the mailbox reactor and the file watcher are subscribers that call the
supervisor again. The runtime-state file is written after each spawn and after
each reap, the trust store is read at each launch. On quit the shell stops its
servers and then calls `shutdown`.

The shell is a subscriber too: it forwards each event to the window, in order,
and a resync signal in place of what its bus dropped. Everything else the
window knows it has asked for: an IPC call is served at some time after it was
sent and answered at some time after that, in any order with the others and
with the events. The window's own parts share next to nothing: each hook owns
its state, React commits it, and two surfaces meet only in the core. That is
why one specification can drive one part per behaviour (section 2).

### What is hard

In the supervisor: decisions made on state read under an earlier lock; the
window between a claim and the attachment of the join handle; a stop that meets
an actor before, during or after its child's life; events handled after the
state they report has moved on, or lost to a lag; a close that forgets before it
reaps; quitting while something is half-way; a spawn, a record or an actor that
fails; numbers that bound a queue, a window, a retry.

In the window: a snapshot that is older or newer than the events around it;
answers that arrive out of order, for a project that is no longer in view or an
editor that is gone; an event dropped between a snapshot and its subscription;
values read in a render and used in a later callback; a change shown before the
core has accepted it; a write queued behind one that is then refused; an agent
writing the same document; a queue at its cap while nobody looks.

`PROJECT.json` lists each at its line, with the property that would catch it,
or the reason none does yet.

## 2. Modules

| module | role |
|---|---|
| `ProcessFSM` | the states and edges of `process.rs` (constant module) |
| `Supervisor` | the detailed specification: registry, actors, callers, reactor, bus, shutdown |
| `ProcessLifecycle` | the abstract specification: what one process shows its observers |
| `SupervisorInvariant` | the inductive invariants `Ownership`, `Accounting` and `LaunchesTrusted` |
| `MCSupervisor` | symmetry sets for TLC |
| `MCSupervisorScenes` | several instances of `Supervisor` in one run: a behaviour plays one of them |
| `SupervisorProofs` | type correctness; `Ownership`, `Accounting` and the safety properties that follow; `Supervisor` implements `ProcessLifecycle`, step by step |
| `WindowDomain` | the wire types and status predicates the window modules share, and `surface`: the part a behaviour drives |
| `ReadModels` | the process list, the badges, the re-read stores, against the core's changes and the forwarder |
| `Navigation` | selection, history, pool, removal, and what each surface offers |
| `TrustPrompts` | the two trust dialogs against the core's gate and request queue |
| `Leftovers` | the runtime-state file, reconciliation and the dialog, across crashes and reused group ids |
| `Documents` | four editors over one autosave, against the revision guard and agents |
| `RepositoryReads`, `GitRail` | what the version-control surfaces read; what they do |
| `Terminal` | one pane: broadcast, forwarder, queue, emulator |
| `Settings`, `ProjectPage` | the settings documents and their queue; a project's page and its queue |
| `Diagrams` | drafts, surfaces, the shared engine and its cache |
| `MCWindowViews`, `MCWindowEditing` | compose the window modules into two specifications and instantiate them |
| `SequenceProofs` | lemmas: induction up to a bound, what the filter `Keeping` returns, the order of a sequence |
| `ViewProofs` | of the read models: `ShownNeverRegresses`, `SettledIsCore` |
| `DialogProofs` | `NeverBackToParted`, `LeavesVanished`, `PoolKeepsRecent`, `OnlyReviewedTrusted`, `PromptLeavesDecided`, `LeftoversHold` |
| `EditingProofs` | `ReadsFollow`, `SavesHold`, `SessionOverwritesNothing` |
| `PaneProofs` | `RailHolds`, `PageHolds`, `PaneHolds` |
| `SettingsProofs` | `SettingsKept` |
| `DiagramProofs` | `DiagramsHold` |

### How `Supervisor` corresponds to the code

*State.* `entry`, `status`, `handle`, `pgid` and `spec` are the fields of
`Managed`; a removed entry is `"closing"` until `close` has announced it, then
`"removed"`. `actor[a]` is a task: `pc` is its place in `run` or in the outer
task of `spawn`, `cmd` the spec it was handed (in-place restarts reuse it),
`child` the group it holds. `inbox[a]` is its mailbox, `live[p]` the groups of
the process that really run, `records` the runtime-state file. `events` is what
the bus retains for the reactor and `lagged` says that something was
overwritten. `window[p]` counts the restarts in the trailing window. `call[c]`
is what thread `c` has read and not yet acted on. `shut` is `shutdown`'s loop.

*Actions.* A step is what one thread does between two points at which another
can act. `Start`, `StartCandidate`, `Restart` end with a pending `claim` or
`signal`; `Claim` is `begin_launch` with the spawn of the task, `Attach` is
`attach_join`, `Signal` the `try_send`. `Close` and `FinishClose` are `close`
before and after its await. The actor is `QuitBeforeSpawn` / `GoSpawn` (the
check at the top of the loop), `Spawn` / `SpawnFails`, `Record`, `SetPgid`,
`Announce`, then one branch of the select (`ObserveExit`, `TakeStop`,
`TakeRestart`), `Reap`, `Forget`, and `Settle` or `Respawn`; `Finish` ends the
task; `Panic` and `HandlePanic` are the isolation boundary. `ReactCrashed`,
`ReactResting`, `ReactLagged` and `RescanOne` are the self-healing loop around
`AutoRestart`. `BeginShutdown` latches the policy, `ScanPass`, `ReapAttached`,
`ReapMidLaunch` and `EndPass` are the passes of `shutdown`. `PROJECT.json`
gives the lines of each.

*Details that carry weight.* The sender of a mailbox lives in the registry
entry alone, so an entry that goes, or whose handle is taken, disconnects the
actor (`Connected`). The status mirror an actor keeps is determined by its
`pc`, so it is not a variable. A handle is left behind when its actor ends:
`signal` to it is lost and its join resolves at once. `attach_join` writes to
whatever handle is there. If none is, it aborts the outer task: before that
task has run this ends the actor, later the inner task keeps going, detached.

*Left out.* Labels, ports, readiness, terminal output, input and resize;
`requires_trust`; the resume command's text (resume is `Start`); events nobody
here reads (they are `Overrun`); the leases an actor releases when it ends; the
adoption of orphans (in `Leftovers`). A process's spec version stands for its
launch spec, its trust variant and its `auto_restart`. `HandlePanic` is one step
although it awaits the orphan file.

*Bounds.* `MailboxCap`, `MaxRestarts`, `MaxIdle`, `BusCap` are the code's
constants, made small. `Allowed` says which commands and disturbances an
instance has; the disjuncts of `Next` for the others are disabled. Task and
group names are reused once free, so no run is cut off by their number, except
that a launch waits for a free name.

### The abstract specification

`ProcessLifecycle` keeps three facts per process: its status (or new, or gone),
whether an actor owns it, whether a child of it runs. Only a resting, unowned
process is launched; only an owner moves it between active states, along the
edges of `ProcessFSM`, and brings up a child, one at a time; it comes to rest
along an edge and only when the child is gone. One exception came out of the
model: a launch that has been abandoned (`Abandon`) shows as starting for ever.
This happens when a task's join is attached after `shutdown` has taken the
handle it belongs to, and so only when the app quits. `Supervisor` implements
it (`LifecycleImplemented`) under the mapping at the end of the module.

### How the window modules correspond to the code

*One part per behaviour.* The parts of the window own their state: no variable of
one module is read by another, in the code neither. `MCWindowViews` and
`MCWindowEditing` therefore put the modules side by side and let the constant
variable `surface` say which one a behaviour drives; the others keep an initial
state. The states explored are the sum of the parts' states, not their product,
and a projection of the specification to one part is exactly that part's
`Init`, `Next`.

*Calls.* An IPC call is a record in a set: the window adds it, a core step
serves it (the answer is computed from the core's state at that moment), a
window step takes the answer. Order is not kept between calls. Events are a
sequence, delivered from its head.

*What a surface offers.* The components of React decide what can be clicked
(`canStop`, a disabled button, a dialog that hides one): the operators ending in
`Offers` or `Intents` are their render conditions, and a user action is one of
what is offered.

*`ReadModels`.* `core` is the core's truth, `stream` the forwarded events,
`list` is `useProcesses` with its buffer and its generation, `store[s]` a
re-read store, `disk` the cache file. A change of the core publishes what its
events are (`Spawn`, `MoveStatus`, …); `Lag` puts a resync in the place of
events that the bus dropped. `ListAfter`, `LandSnapshot` are the fold, the
buffering and the replay; `Lands` is the guard that drops an answer that is not
the newest; `Reorder` shows an arrangement before the core has it. `missed` is a
history variable: the latest request when an event got past a store, which the
store cannot know of.

*`Navigation`.* `rows` is the list of the last commit, `folded` the list with
the events folded in since: React commits what a late answer or an event sets at
the next render (`Render`), what a click sets at once. `Act` performs any
offered intent, `AfterLifecycle` is the fall-back of a stop or a removal,
`Vanished` the layout effect, `NextPool` the pool's effect, a render later.
`parted`, `late` and `viewed` are history: what the user has stopped or removed,
which of that a late answer to a launch has selected all the same, and the order in
which processes were shown.

*`TrustPrompts`.* `Grants` is the gate of `trust_reviewed_command`, `Decides` the
lookup of a pending request; `announcing` holds what a thread has changed under
the lock and not yet published, so two publications may swap. `seen` is history:
every variant that was on screen.

*`Leftovers`.* `os[g]` says what runs under a group id, `runtime` is the file,
`entries` the registry of the current run, `fates` the reconciliation under way.
`ForceQuit` leaves only `os` and the file. The kernel counts ids up and may give
a dead one away (`Recycled`), but not while a launch or a reconciliation is
still working on it: the code has no defence in those milliseconds, and pid
counters do not come round in them. `recorded` is history.

*`Documents`.* `docs` is the core's side, `ed` the editor hook, `savers[n]` the
autosave of the n-th editor ever mounted, which may outlive it. A body is the
set of edits in it, so a lost edit is a missing element. `Pushed`, `Commits`,
`Drained`, `ConflictFound` are the states of `useAutosave.ts`; `ServeWrite`
compares revisions, `AgentWrite` is another writer. `Leaving` is the unmount with
its commit, whatever brought it about; `resent` is history: an editor which an
answer replaced has sent a refused edit once more.

*`RepositoryReads`.* Each reader's request is a function of where the user is
(`RequestIn`). A repository is its version; `Filed` keeps the request an answer
was captured for beside it. Reads of one request are not ordered, and what is
shown is what landed last; `landed` and `behind` are history: the latest of the
reads that came back, and whether an earlier one has been shown over it.

*`GitRail`.* `rail`, `pane` and `cluster` are the three places state is kept, with
the key by which React starts the rail over (`mount`); `calls` may outlive
them. `repos[p].gate` is the core's one change per repository at a time. A text
is the set of projects it was written for. `alerts` records a failure and
whether the user has been told; `departed` is history: the exchanges whose
rail was unmounted when they failed, of which nobody is told.

*`Terminal`.* A chunk is its number; the emulator is the last number written and
whether one was skipped or repeated (`torn`). `Records` is the PTY, `Forwards`
the forwarder with its bounded broadcast, `Queued` the pane's queue with its
cap, `Healed` the re-attach after an overflow.

*`Settings`.* `pending` and `running` are the mutation queue; `Sent` rebases the
next mutation on the last answer, `Reread` follows a refusal. `PatchOf` is what a
change of the whole document sends: what it sets, and the terminal's settings as
last rendered, since normalising makes a new object of them and the patch
compares identities. `wish` is history: the document the user asked for, gesture
by gesture; `astray` names why it may not be what is stored: `early`, `unreconciled`,
`unrendered`, `carried`, `overlapped` (see *Observations* below).

*`ProjectPage`.* `pendingEdits` maps a row, an object of one page load, to the
spec its unsettled edit sends; `Base` is what an edit starts from; `writeQueue`
replaces a waiting write of the same row. `edited`, `rejected`, `stale`,
`outdated` are history. A command is `stale` once it was edited on a page which
lacked an edit the core had accepted (`Lacks`, `BeingEdited`).

*`Diagrams`.* `shown[s]` is a surface with its own effect and its one render
under way, `engine` the promise queue, Mermaid's module-level configuration and
the cache. `MayDraw` is the queue's order; a drawing is its source and the
palette it was drawn in.

*Left out.* Text, layout, colours, keyboard handling within a field, scroll
positions, toasts, metrics, exports; each component of `PROJECT.json` says what
of it is.

## 3. Runs

| run | instance | checks |
|---|---|---|
| `SupervisorSafety` | 1 process, 2 tasks, 2 groups, 1 client + reactor; two scenes: `commands` (all commands; overrun, aging, failed spawns) and `reload` (2 spec versions, trusted or not) | `TypeOK`, `Accounting`, `OneLiveChild`, `NoChildAbandoned`, `RestingIsReaped`, `AnnouncedIsRecorded`, `OnlyTrustedRuns`, `LifecycleImplemented` |
| `SupervisorPair` | 2 processes, 3 tasks, 2 groups, 1 client; one scene, `pair` (start, stop, close, shutdown) | `PgidIsOwnChild`, `RemovedIsReaped`, `ShutdownReapsAll` |
| `SupervisorLive` | fair; 1 process, 2 tasks, 1 group, a mailbox of two, a bus of one slot; four scenes: `heal` (overruns, failed records), `quit` (a shutdown that meets the reactor's relaunch half-way), `stop` (start, restart, stop, close), `panic` (panics, trust revoked) | `CrashIsHealed`, `StopEndsActor`, `ClosedIsReaped`, `ShutdownReturns` |
| `WindowViews` | fair IPC; the four parts that follow the core (1.7 M states, 2 minutes) | `WindowTypeOK`, `SettledIsCore`, `ListCatchesUp`, `ShownNeverRegresses`; `NeverBackToParted`, `LeavesVanished`, `PoolKeepsRecent`; `OnlyReviewedTrusted`, `PromptLeavesDecided`; `LeftoversHold` |
| `WindowEditing` | the eight parts that change something (2.9 M states, 2 minutes) | `EditingTypeOK`, `SavesHold`, `SessionOverwritesNothing`, `ReadsFollow`, `RailHolds`, `PaneHolds`, `SettingsKept`, `PageHolds`, `DiagramsHold` |

*Scenes.* `MCSupervisorScenes` puts several instances of `Supervisor` into one run:
a behaviour plays one scene, which says what may happen in it and which launch
specs are dealt, and every step of it is a step of `Supervisor`. Where no spec
declares `auto_restart` the reactor only empties the bus, and it does so before
anything else goes on.

Why these bounds are enough for the supervisor: every race listed above is
between two launches of one process, or between one launch and one stop, close,
crash or shutdown. Two tasks and two groups let a process have an actor that is
going and one that is coming; a mailbox of one or two slots is full after one or
two messages, a window of one restart exhausts at the second crash, a bus of one
slot lags at the second event. Two processes matter only where they share
something: group ids and the passes of a shutdown (`SupervisorPair`). Two
versions are one trusted and one not.

For the window: a race is between one answer and one or two changes around it,
so three changes and three reads let a request be superseded while an event is
buffered and another is dropped. A buffer, a cache, a pool, a PTY queue of one
or two overflow at the second or third element, which their code meets at
thousands. Three processes, one spawned by another, in two projects are a
selection, what it falls back on and what takes the fall-back away. Two projects
are the one in view and the one whose call answers late. Three edits are one in
flight, one queued behind it and one by an agent; two mounts an editor that is
gone and one that shares its revision guard. Two runs of Soloist are a crash and
what finds its leftovers. In `WindowEditing` a behaviour of the rail uses one
set of `RailVerbs`: the calls that compete for a flag, a text or the gate.
Deadlock is not checked where the bounds on what is asked for end every
behaviour. One change of palette catches a drawing in the queue or on screen
between the two.

What the passing runs do **not** cover, on purpose:

* `RemovedIsReaped` and `ShutdownReapsAll` are checked with one client and no
  automatic restarts. With more the code does not keep them: `CloseInLaunch`,
  `QuitMidClose`, and a reactor that passed the shutdown latch and claims after the
  last pass. That `shutdown` *returns* is checked with that reactor (scene
  `quit`), which is what `mid_launch` and `MaxIdle` are for.
* In `OnlyTrustedRuns` trust is granted and not revoked: a running process is not
  stopped when its trust is revoked. A restart in place keeps the spec its task
  was handed (`Respawn` leaves `cmd` alone), so the scene `reload` leaves restarts to
  the scene `commands`.
* `AnnouncedIsRecorded` assumes the write succeeds, as the code's comment
  ("best-effort") concedes. Commands are over before shutdown begins, as the shell
  arranges.
* A property whose comment names a history variable leaves out what that records,
  and each of these is something the code does, told below: `NeverBackToParted` the
  `late` answers, `ReadsFollow` what is `behind`, `RailHolds` the exchanges that have
  `departed`, `PageHolds` the commands that are `stale`, `SettingsKept` what went
  `astray`. `ReloadRetries` and `StaleMergeBase` are the runs that look at two of them.
* `SavesHold` counts an unmount as asking for the save it commits; the one unmount
  that nobody asked for is `ReloadRetries`.
* `SessionOverwritesNothing` speaks of the first editor of a behaviour: one
  mounted later shares the revision guard of the one before, whose queued save may
  still drain. It says that the core loses nothing, not that every keystroke
  reaches it.

*Fairness.* In the supervisor, weak fairness of each actor, of each caller that
has begun a call, of the reactor, of the shutdown. The Tokio runtime polls every
ready task, and none of these steps waits for anything but a lock held for a few
statements, a bounded sleep, or the event in its guard. One step is not relied on:
once a shutdown is under way a launcher between its claim and `attach_join` may
never go on (`lifecycle.rs:236`), and the shutdown returns by its count of idle
passes. In the window, weak
fairness of answering a request, of attaching the listeners, of landing an
answer and of delivering events and resyncs (`ReadModelFairness`): the IPC
handler and the forwarder are Tokio tasks that only wait for their own queue. No
fairness is assumed of users, of children (which may ignore SIGTERM; SIGKILL is
assumed to work), of the trust store, or of time passing. An actor chooses
between a child that exits and a message; a stop behind one restart is found at
the next pass of the loop.

*Assumed.* Process ids and request ids are counted up and never reused;
the lineage of processes is acyclic; a group id is not given away during the
launch or the reconciliation that works on it; the observer of the palette runs
before the next palette is applied.

### What the code does not do

Seven runs state what a comment says and find a behaviour that contradicts it.

* `QuitMidClose`: `close` forgets the process and then waits for its child. A
  shutdown that begins meanwhile does not see it, does not wait, and returns
  with the child inside its stop grace.
* `StopDropped`: `stop` uses `try_send` and reports success whatever it
  returns. A mailbox full of restarts, or an actor that has just ended, loses
  the stop.
* `StaleCrash`: the reactor's relaunch never looks at the status. When it
  handles a crash late, after the user has started and stopped the process, it
  starts a process the user has stopped.
* `CloseInLaunch`: a close between the claim and `attach_join` finds no join to
  await and announces the removal; the actor may already have a child, which it
  then reaps, unawaited.
* `OpenSurfacesOwn`: opening a project reconciles again, over a file that by now
  lists what this run has launched. Nothing tells those records from an earlier
  run's, so the dialog offers to kill the user's running processes as leftovers
  "by a previous session".
* `ReloadRetries`: after a conflict an autosave pauses, and a reload is to discard
  the local edit. The reload replaces the editor, and the unmount of the old one
  commits its pending text: with the revision the reload has just read, so that it
  is accepted, over the agent's write the user chose to load.
* `StaleMergeBase`: on the project page the pending edit of a row is dropped when
  its write settles, and the page is read again when the queue has drained. An
  edit of another field in between starts from the row as it was loaded, and its
  write undoes the accepted one.

`PROJECT.json` also has three such divergences that no run looks at, because the
property beside them is stated without the case: two calls of one settings
document (`persist.ts`), an exchange that fails after its rail has gone
(`GitRail.tsx`), the last keystrokes of an editor that is replaced or collapsed
(`useAutosave.ts`).

### Observations

Met on the way and not given a run, since no text promises the contrary or the
property that would show it is stated with the exception:

* a reactor past the shutdown latch may claim after the last scan (the comment at
  `lifecycle.rs:201` covers only launches before it); a late `attach_join`
  overwrites the join of a newer task, so that a close or shutdown awaits the
  wrong one; a panic between the spawn and `set_pgid` leaves a child nobody
  kills; a process that crashes while untrusted is not healed when it is trusted
  again;
* the leftovers of an earlier run are published while the shell is set up; if the
  window's listener is not attached yet nobody is told of them;
* a readiness gate that the core has reset stays open in the window until the
  next snapshot, because no event says so (`projection.ts`);
* a control used before the first load of the appearance has answered writes the
  defaults back with its change (`early` in `Settings`); two quick saves of one
  of the other documents may be applied and shown in either order (`overlapped`);
* a mode or a size carries the terminal's settings as last rendered
  (`AppearanceProvider.tsx:38`, `:57`): chosen while a change of those is queued or
  out, it writes the old ones back (`carried`);
* nothing orders two reads of one version-control request: an older answer that
  lands after a newer one is shown until the next announcement (`behind` in
  `RepositoryReads`, `useRepositoryRead.ts:50`);
* the answer to a launch selects its process, also if the user has stopped or
  removed it meanwhile (`late` in `Navigation`);
* a commit on unmount is refused without a call when its document's handle has
  already been replaced, and the pending edit of a collapsed to-do is dropped
  (`useAutosave.ts:159` means neither);
* trust is granted by other routes than the two dialogs (`facade.rs:428`,
  `facade/commands.rs:119`), which `TrustPrompts` has no part in;
* a rejected import of Mermaid is kept as the loader, so that no diagram is drawn
  until the window is reloaded; jobs of surfaces that are gone, and
  exports, stay in the engine's queue until they have run, beyond the one per
  surface that `DiagramsHold` bounds;
* a preview of a template that was asked for before another one was opened is
  dropped only once a newer one has been stamped (`useTemplateRender.ts`).

## 4. Proofs

TLC shows a property on a small instance, the theorems show it for every value of
the constants. Each follows from an inductive invariant, kept by one lemma per
action (or group of actions that share an operator); the helpers several actions
share have lemmas of their own.

### Assumptions

What a theorem assumes of its constants is named and stated where they are
declared, and TLC evaluates it on every run.

* `SupervisorAssumption`: bounds positive, names distinct.
* `DocumentAssumption`, `ReadModelAssumption`, `RepositoryReadAssumption`: the
  kinds of editors, stores and reads are among those the code has; numbers are
  numbers; there is a repository (the hook is mounted for one).
* that `None`, the source's `null`, is none of the values it stands beside: part
  of those three, and all of `LeftoverAssumption` and `PageAssumption`; that it is
  no answer of a call, `TrustAssumption`. `DiagramAssumption` says so too, and that
  the blocks of a document are none of the editor's surfaces;
  `NavigationAssumption`, that the pool's cap is positive and the ids are finitely
  many as well; `TerminalAssumption`, that a pane's queue has room for a chunk.
  `ReadModelAssumption` also says that `None` is no process view and that the cap of
  the list's buffer is a number; it may be zero.
* `SettingsAssumption`: there is a theme to start from, ids of themes are numbers,
  the documents are among those `Settings` knows, and `None` is no call.

Three hypotheses restrict the environment, and each theorem that needs one
says so:

* `NoPanics` (`Ownership`, what follows from it, `Accounting` and the
  refinement): a panicked actor holds nothing until the outer task has answered,
  and a child it had not recorded yet is never reaped (`actor.rs:124`).
* `NoFailedWrites` (`Accounting`, `AnnouncedIsRecorded`): the record of a spawn is
  best-effort and an actor goes on without it, so a disk that fails breaks the
  property and the code means it to.
* `NoRevocation` (`OnlyTrustedRuns`): a process that runs is not stopped when its
  trust is revoked.

### The supervisor

`TypeCorrect` is by one lemma per group of actions; the operators that several
actions share (`TrySend`, `Publish`, `SetStatus`, `SetPgidOf`, `Remove`) have
lemmas of their own. The type of `actor` ties the phase to the child, which the
typing of `Record` and `SetPgid` needs.

`OwnershipHolds` is the central result. `OneLiveChild` is not inductive: from a
state with two actors in mid-launch for one process a second child could
follow. What excludes that state is that an owned process shows an active
status, so the claim refuses it (`OwnedIsActive`, `OneOwner`), and that every
running group is in the hands of its owner (`LiveIsHeld`). `TargetIsHeld` adds
the sampling target, which an actor gives up before it stops running the child.
`AwaitedIsGone` is needed because the end of a close writes the entry. Each step
either leaves all of this alone (`OwnershipFrame`), removes an entry
(`OwnershipRemove`), moves an owner (`OwnerMoves`) or ends a task
(`OwnershipSleep`); the claim, the spawn, the reap, a child's own exit and the
policy's exhaustion have their own arguments. `OneLiveChildHolds`,
`NoChildAbandonedHolds`, `RestingIsReapedHolds` and `PgidIsOwnChildHolds` follow
from it.

`AccountingHolds` adds what an observer outside needs: the status an actor shows
fits its phase (`PhaseShown`), two actors never hold the same group
(`ChildrenDiffer`: a record is dropped by group, so that one actor's `Forget` would
otherwise erase the other's), and a held child is on record from `Record` to
`Forget` (`HeldIsRecorded`). `AnnouncedIsRecordedHolds` follows.

`OnlyTrustedRunsHolds` needs only `LaunchesTrusted`: that a caller's pending claim
carries the version it has checked, whatever a reload has put into the registry
since.

`LifecycleImplementedHolds` is the refinement. From `TypeOK`, `Ownership`,
`PhaseShown` and `AbsentIsStopped` (no actor of an earlier entry writes the status
of a process that is not registered), every step of `Supervisor` is a step of one
process in `ProcessLifecycle`, or does not show in it. The proof goes by what a
step may do to the three facts the abstract specification keeps (`SeenMoves`,
`OwnedMoves`, `LivingMoves`): a claim is a `Launch`, the actor's spawn the birth of
the child, a reap or an exit its death, and an owner that ends either rests or, if
its task was aborted before it ran, abandons the launch.

### The window

Each theorem is about the module's own specification. A step of
`MCWindowViews!Next` or of `MCWindowEditing!Next` is one of that module or leaves
its variables alone, so it holds of the composition too.

*The order of a sequence.* The history, the pool and the list of what was viewed
are sequences out of which members are taken and to whose front others are
pushed. The model writes the window's filters as one recursive function,
`Keeping`, and `SequenceProofs` proves what it returns: the members that are kept,
in their order, no more often than before (`KeepingKeeps`). The induction is over a set,
that of the indices at which the fact holds (`UpTo`, from the least index at
which it fails), and so is the existence of the function (`Recursion`).

*`NeverBackToParted`*, *`LeavesVanished`*, *`PoolKeepsRecent`* follow from one
invariant, `NavInv`. A selection falls back on the history, so the history must
hold nothing that was left (`LeftBehind`) unless a late answer has brought it back
(`late`). An id that left the list does not come back (`GoneForGood`), which a
fallback to a listed process depends on. The pool is an order that is kept from
several sides: `PoolInOrder` relates it to the order in which processes were
viewed, with the one exception of what is shown and still on its way to the front,
and `ShownIsNewest` says that this one was viewed last. Without the exception the
invariant fails between a selection and the effect that follows it.

*`OnlyReviewedTrusted`.* A grant is not made from the screen but from a call that
carries what the screen showed when it was made, so the invariant adds that
every call under way was seen (`CallsWereSeen`) and that what is on screen has
been remembered (`DisplayedWasSeen`). No assumption.

*`PromptLeavesDecided`.* A request that was decided can stay in the prompts for two
reasons that a look at one state does not exclude: that its announcement is
still on its way and would file it again behind the decision, or that its number is used
anew. `PromptInv` adds that the ids of requests are spent once (`IdsSpent`), that an
announcement speaks of a request that was made and a decision's of one that is over
(`EventsTrue`), and that a call that was accepted ended its request (`CallsTrue`).
Each step is then one of the window, which only takes what the core said
(`StaysTrue`), or one of the core, which ends requests and starts new ones.

*`LeftoversHold`* speaks of steps. It needs that a record of a living group has
that group's identity (`RecordsTrue`), since only then is a living group never
pruned; that a reconciliation acts on what is still so (`FatesTrue`): a group it
prunes has no child, one it adopts is not somebody else's; that a launched
entry's group is no stranger's until it is recorded (`LaunchedLives`), since the
record takes the identity found then; and that a kill once confirmed has ended
its group (`KillsTrue`).

*`ShownNeverRegresses`.* A store's guard drops what was not asked for last; that
alone does not keep an old value from landing. `ReadsInv` adds that requests of a
store are told apart by their number (`NumbersDiffer`), that what is shown was
known to the core when it was read (`ShownIsKnown`), and that the answer of the
newest request is not older than what is shown (`LatestIsNewer`), which a value
from the disk cache must also meet.

*`SettledIsCore`, the process list.* While the list has missed nothing since its latest
request (`Covered`), three things end at the core's list once the events to come
have been replayed on top of them: the answer the core would give now, with what the
buffer holds (`BufferRepeats`); the latest answer, if it is on its way
(`AnswerLeads`); and what is shown, once that answer has landed (`RowsLead`). An
answer may be younger than the events replayed on it, so the proof needs that events
the core has behind it change nothing in its rows (`Resumes`): each sets a part of a
row to what it became (`RowRepeats`), a later change of another row or part
stays apart (`Carries`), and ids are never reused (`ListNews`). The gate that a
status change resets without an event is why `Agrees` is the most that can be said.

*`SettledIsCore`, the project list.* Once settled it is the core's, without an
arrangement of its own. Either the list is up to date or something is on its
way that will make it so: an event not yet delivered, a missed one followed by a
resync, a request not landed (`VersionCovered`); and an arrangement is shown
only while one of these, or the reorder's answer, is to come
(`ArrangementCovered`).

*`ReadsFollow`.* An answer is filed under the request it was captured for
(`SnapshotFiled`), a request under way names the project it was made in
(`AsksTrue`). Once the latest read has come back, what is on screen is its answer
or is marked as `behind` (`Settled`). A change the surface has not seen is covered by an
announcement not delivered, a frame waiting, or a read that will show it
(`ChangeCovered`, `Covers`). That disjunction is what a dropped frame would break.

*`SavesHold`* is about all savers, mounted or not: each has at most the one write
its phase admits, its pending text is what is on screen while it is the mounted
one (`DraftShown`), and what the hooks keep names documents the core knows
(`HandlesOK`). *`SessionOverwritesNothing`* says that no edit the core has leaves
a document until a second editor is mounted. It is not enough that the core
compares revisions: whatever is yet to be sent at a revision must contain what the
document held at it (`Safe`). `Mirrors` says so of what loads and the board have
read, `FirstSession` of the mounted editor, its queue and the write in flight,
across renames; `NoSession` is what holds before it.

*`RailHolds`.* A text on screen was written for the project in view (`TextsHome`),
what a call says was written for its project, and a call whose surface is still
mounted (its number is the current `mount`) is the project's in view; if it is an
exchange it knows of the stop that was asked for (`CallHome`). A switch of project
counts the mount up, which is why a late answer finds nobody. A failed exchange
that nobody was told of is one of those (`departed`). No assumption.

*`PageHolds`.* Reads of the page are told apart (`ReadsDiffer`) and the newest, or
the drain's reload still to come, shows what the core has (`NewestIsCore`). A key
of the queue is a row that was shown, and of the edits of a command those of the
row on screen come last (`QueueRows`): so replacing a waiting write where it
stands does not overtake a later one. Of a command that is not `stale`, the row's
unsettled edit (`PendingCarries`) and the last write of a command the core has yet
to serve (`LastCarries`) carry every edit made and not refused; the core has it if
there is none to serve.

*`SettingsKept`.* `wish` is the document as the user asked for it, gesture by
gesture. Before the document is known nothing has been asked (`Unasked`); with no
call out, stored, shown and wished for agree (`IdleAgrees`). While one is out, the
wish is what the queue makes of `Basis`, the document once that call has been
served (`BusyAgrees`): this is the part that is inductive. It rests on three facts
about the queue. What joins it at the tail is asked after all the rest (`Joins`);
the patches of an update write what its gestures ask, over whatever document they
are rebased on (`UpdateGrants`, `Rebased`), and a run of superseded opacity
settings ends with its last (`TaskGrants`); so draining the head over the latest
answer leaves the wish as it was (`Drains`). Since every change but the terminal's
own writes the terminal's settings too, every update in the queue is known to
leave those that were asked for, over the document on its way (`Right`, `Writes`);
a change that brings others is `carried`. `Projected`, `Together` and `Granted`
are folds, written as recursive functions that the provers can unfold by one
element. The documents without a queue have one call out at a time, and its effect
is the wish (`CallFits`).

*`PaneHolds`.* A pane has at most one stream that can still reach its emulator:
every other one is cancelled, or was refused and has nothing on its way (`Quiet`).
What that one has queued continues what is on screen, and what is on the wire
continues the queue, each chunk by the next number or by a snapshot, up to the
chunk its forwarder sends next (`Sound`, `Linked`); unless the queue has lost its
head, and then the flag says so and a flush starts over. An attached stream with a
queue in a visible pane has a frame to come, so an idle one has shown everything.
A pane between two streams waits for its timer (`Waiting`). `Written` says what a
batch makes of the emulator, by induction over its prefixes.

*`DiagramsHold`.* A render is followed from the request to the screen: the request
that waits in the surface, the job in the engine's queue, the outcome that has not
landed (`Waits`, `Answers`). Each is of the source asked for last, and was or will
be drawn in the palette of its signature if that is still the app's; or another
request waits behind it and it will be dropped. Only the job at the head of the
queue has read a palette, and it is the one Mermaid is configured with
(`QueueOK`), which is why a drawing may be filed under it (`EntryOK`). A palette
changes when every surface has heard of the last one and its effect has run, so
that what was asked for before is not of the new signature (`OtherPalette`).

### Only model-checked

* `RemovedIsReaped` and `ShutdownReapsAll` hold of the instance of
  `SupervisorPair`, where calls do not overlap. They are false of the specification
  in general, as `CloseInLaunch` and `QuitMidClose` show. There is nothing to prove
  without a hypothesis that says "the callers take turns".
* `WindowTypeOK` and `EditingTypeOK`. The theorems carry the parts of the two type
  invariants they need (`NavTypes`, `PromptTypes`, `StoresTyped`, `HookTyped`,
  `RailTyped`, `PageTyped`).
* Liveness (`CrashIsHealed`, `StopEndsActor`, `ClosedIsReaped`, `ShutdownReturns`,
  `ListCatchesUp`): outside this proof system's reach.

## 5. Plan

1. `Leases` and `Timers`: leases with expiry, release and reconciliation, over
   a store that survives a crash; timers that are claimed, delivered, paused and
   cancelled against the removal of their owner, with an abstract timer that
   fires at most once; composed in `Coordination` with the events the supervisor
   publishes.
2. `Mailbox`: bounded queues, reservations, acknowledgement, wake and retry. An
   abstract FIFO per recipient as its specification; bounds for safety, wake-up
   for liveness.
3. `FileWatch`: the debouncer with and without a ceiling, over a registry that
   changes; `config_watch` beside it.
4. The list and the preview of templates as two more readers; adoption as an
   `initial` child of `Supervisor`'s actor; the caps and the clock of the trust
   queue; `RestartWindow`, the sliding window with time stamps that the counter
   of `Supervisor` stands for.

### Not modelled

The coordination services, file watch and configuration reload are planned as
above. Terminal I/O of the supervisor, metrics, ports, idle detection and
notifications are read models guarded by state that is modelled, or text.
Persistence is atomic statements to its callers; wire formats, the facade's
forwarding and the operating-system adapters are modelled from their use. Of the
window, the rich-text editor, highlighting and the derivation of themes compute
text, colours and layout over libraries; orchestration panels, chrome and
primitives present a snapshot that `ReadModels` follows.

## 6. Running

    tlc -workers 2 -config SupervisorSafety.cfg MCSupervisorScenes.tla
    tlc -workers 2 -config WindowViews.cfg MCWindowViews.tla
    tlc -workers 2 -config WindowEditing.cfg MCWindowEditing.tla
    tlapm SupervisorProofs.tla
    tlapm SequenceProofs.tla
    tlapm ViewProofs.tla
    tlapm DialogProofs.tla
    tlapm EditingProofs.tla
    tlapm PaneProofs.tla
    tlapm SettingsProofs.tla
    tlapm DiagramProofs.tla

Each run of section 3 is the `.cfg` of its name, over the module `PROJECT.json`
gives it.
