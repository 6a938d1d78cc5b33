------------------------------ MODULE ReadModels ------------------------------
(***************************************************************************)
(* The read models of the window (crates/app/ui/src/store).  The core       *)
(* changes and publishes domain events; the shell forwards each event to    *)
(* the webview in order, or a resync signal in the place of events its bus  *)
(* dropped.  A store asks the core for a snapshot over IPC, and requests,   *)
(* answers and events travel independently: an answer may be older or newer *)
(* than the events delivered around it, and answers may arrive in any       *)
(* order.  Three kinds of store live on that:                               *)
(*   - the process list, a snapshot plus folded events (useProcesses.ts);   *)
(*   - the activity badges, folded events re-seeded from a snapshot         *)
(*     (SignalsProvider.tsx);                                               *)
(*   - the stores that keep no event and re-read a whole snapshot on one    *)
(*     (useAttention.ts, useLineage.ts, useOrchestration.ts, and            *)
(*     useProjects.ts over usePersistentSnapshot.ts).                       *)
(* A re-read store's value is the version of the core's snapshot it shows;  *)
(* what is in the snapshot does not matter here.                            *)
(***************************************************************************)
EXTENDS WindowDomain

CONSTANTS
  Id,             \* process ids, never reused
  Rereads,        \* the re-read stores of the run
  Order,          \* arrangements of the project list
  Mounts,         \* which stores a behaviour mounts together
  BufferCap,      \* MAX_BUFFERED_EVENTS
  MaxChanges,     \* core changes in a behaviour
  MaxReads,       \* snapshot requests per store
  MaxFaults       \* dropped bus events, failed requests and window focus together

\* domain.ts: a ProcessView, of which the projection tells these apart.
Status == {"Starting", "Running", "Stopped"}
ProcessView == [status : Status, ready : {"Ungated", "Waiting", "Ready"}]

\* The stores that re-read a whole snapshot on an event; null is neither a version nor
\* a process; the buffer's cap is a number.
ASSUME ReadModelAssumption ==
  /\ Rereads \subseteq {"attention", "lineage", "orchestration", "projects"}
  /\ Mounts \subseteq SUBSET ({"list", "badges"} \cup Rereads)
  /\ None \notin Nat \cup ProcessView
  /\ BufferCap \in Nat

VARIABLES
  core,           \* the core's truth: processes, activities, versions
  stream,         \* forwarded, undelivered events
  list,           \* useProcesses
  badges,         \* the activity map of the signal store
  store,          \* each re-read store
  arranged,       \* useProjects: the arrangement shown until the core answers
  reorders,       \* project_reorder calls the core has not answered
  disk,           \* ui-cache.json: the projects snapshot last written
  inflight,       \* snapshot requests and answers under way
  mounted,        \* the stores this behaviour mounts
  missed,         \* history: each store's latest request when an event got past it
  spent           \* bounds used up

readModelVars == <<core, stream, list, badges, store, arranged, reorders, disk,
                   inflight, mounted, missed, spent>>

Activity == {"Idle", "Working"}
Readers == {"list", "badges"} \cup Rereads

\* domain.ts: the events of DomainEvent that reach a store modelled here.
DomainEvent ==
  [type : {"ProcessSpawned"}, id : Id, status : Status]
  \cup [type : {"ProcessStatusChanged"}, id : Id, to : Status]
  \cup [type : {"ReadyStateChanged"}, id : Id, ready : BOOLEAN]
  \cup [type : {"ProcessRemoved"}, id : Id]
  \cup [type : {"AgentActivityChanged"}, id : Id, state : Activity]
  \cup [type : {"AttentionChanged", "TodoChanged", "ProjectOpened",
                "ProjectsReordered"}]
Resync == [type |-> "Resync"]

\* The events a store takes: those it folds in, or re-reads its snapshot after.
SignalsOf(s) ==
  CASE s = "list"          -> {"ProcessSpawned", "ProcessStatusChanged", "ReadyStateChanged",
                               "ProcessRemoved"}
    [] s = "badges"        -> {"AgentActivityChanged", "ProcessStatusChanged", "ProcessRemoved"}
    [] s = "attention"     -> {"AttentionChanged"}
    [] s = "lineage"       -> {"ProcessSpawned", "ProcessStatusChanged", "ProcessRemoved"}
    [] s = "orchestration" -> {"ProcessSpawned", "ProcessStatusChanged", "ProcessRemoved",
                               "AgentActivityChanged", "TodoChanged"}
    [] s = "projects"      -> {"ProjectOpened", "ProjectsReordered"}

\* useAttention and usePersistentSnapshot let only the answer to their latest
\* request land; useLineage and useOrchestration take every answer.
Guarded(s) == s \in {"attention", "projects"}
\* useLineage and useOrchestration put at most one re-read in a frame.
Coalesced(s) == s \in {"lineage", "orchestration"}
\* useAttention never subscribes to the resync signal.
Reconciles(s) == s # "attention"

-------------------------------------------------------------------------------
(* Folds.                                                                    *)

\* applyEvent (projection.ts): one core event folded into the list.
ApplyEvent(rows, e) ==
  CASE e.type = "ProcessSpawned" ->
         IF rows[e.id] # None THEN rows
         ELSE [rows EXCEPT ![e.id] = [status |-> e.status, ready |-> "Ungated"]]
    [] e.type = "ProcessStatusChanged" /\ rows[e.id] # None ->
         [rows EXCEPT ![e.id].status = e.to]
    [] e.type = "ReadyStateChanged" /\ rows[e.id] # None ->
         [rows EXCEPT ![e.id].ready = IF e.ready THEN "Ready" ELSE "Waiting"]
    [] e.type = "ProcessRemoved" -> [rows EXCEPT ![e.id] = None]
    [] OTHER -> rows

ReplayAll(rows, events) ==
  LET replayed[i \in 0..Len(events)] ==
        IF i = 0 THEN rows ELSE ApplyEvent(replayed[i - 1], events[i])
  IN replayed[Len(events)]

\* applySignal (signals.ts), the activity part.
ApplySignal(map, e) ==
  CASE e.type = "AgentActivityChanged" -> [map EXCEPT ![e.id] = e.state]
    [] e.type = "ProcessStatusChanged" /\ e.to # "Running" -> [map EXCEPT ![e.id] = None]
    [] e.type = "ProcessRemoved" -> [map EXCEPT ![e.id] = None]
    [] OTHER -> map

-------------------------------------------------------------------------------
(* IPC.                                                                      *)

Mine(s) == {r \in inflight : r.store = s}

\* A snapshot request leaves; the store's counter names it the latest.
Ask(s, gen) ==
  inflight' = inflight \cup {[store |-> s, gen |-> gen, answer |-> None]}

\* What the core answers to a request of s made now.
Snapshot(s) ==
  CASE s = "list"   -> core.procs
    [] s = "badges" -> core.activity
    [] OTHER        -> core.version[s]

\* The latest request of a store.
Latest(s) == IF s = "list" THEN list.gen
             ELSE IF s = "badges" THEN badges.asked
             ELSE store[s].latest
MayAsk(s) == Latest(s) < MaxReads

Faulty == spent.faults < MaxFaults

\* The core reads its state for one request.
Answer ==
  \E r \in inflight :
    /\ r.answer = None
    /\ inflight' = (inflight \ {r}) \cup {[r EXCEPT !.answer = <<Snapshot(r.store)>>]}
    /\ UNCHANGED <<core, stream, list, badges, store, arranged, reorders, disk, mounted, missed, spent>>

-------------------------------------------------------------------------------
(* The core changes and publishes.                                           *)

Publish(events) == stream' = stream \o events

\* Changes that no mounted store listens to are left out of a behaviour.
Observed(type) == \E s \in mounted : type \in SignalsOf(s)

\* A change moves the version of every re-read snapshot the event stands for.
Changed(procs, activity, e) ==
  /\ Observed(e.type)
  /\ spent.changes < MaxChanges
  /\ spent' = [spent EXCEPT !.changes = @ + 1]
  /\ core' = [core EXCEPT !.procs = procs, !.activity = activity,
                !.version = [s \in Rereads |->
                   IF e.type \in SignalsOf(s) THEN @[s] + 1 ELSE @[s]]]
  /\ Publish(<<e>>)
  /\ UNCHANGED <<list, badges, store, arranged, reorders, disk, inflight, mounted, missed>>

Spawn(p) ==
  /\ p \notin core.used
  /\ mounted \cap {"list", "badges", "lineage"} # {}
  /\ spent.changes < MaxChanges
  /\ spent' = [spent EXCEPT !.changes = @ + 1]
  /\ core' = [core EXCEPT !.used = @ \cup {p},
                !.procs[p] = [status |-> "Starting", ready |-> "Ungated"],
                !.version = [s \in Rereads |->
                   IF "ProcessSpawned" \in SignalsOf(s) THEN @[s] + 1 ELSE @[s]]]
  /\ Publish(<<[type |-> "ProcessSpawned", id |-> p, status |-> "Starting"]>>)
  /\ UNCHANGED <<list, badges, store, arranged, reorders, disk, inflight, mounted, missed>>

\* Leaving Running also resets the readiness gate, which no event announces.
MoveStatus(p) ==
  \E to \in Status :
    /\ core.procs[p] # None
    /\ to # core.procs[p].status
    /\ Changed([core.procs EXCEPT ![p].status = to,
                                  ![p].ready = IF to = "Running" THEN @ ELSE "Ungated"],
               [core.activity EXCEPT ![p] = IF to = "Running" THEN @ ELSE None],
               [type |-> "ProcessStatusChanged", id |-> p, to |-> to])

MoveReady(p) ==
  \E ready \in BOOLEAN :
    /\ core.procs[p] # None
    /\ core.procs[p].status = "Running"
    /\ Changed([core.procs EXCEPT ![p].ready = IF ready THEN "Ready" ELSE "Waiting"],
               core.activity,
               [type |-> "ReadyStateChanged", id |-> p, ready |-> ready])

RemoveProcess(p) ==
  /\ core.procs[p] # None
  /\ Changed([core.procs EXCEPT ![p] = None], [core.activity EXCEPT ![p] = None],
             [type |-> "ProcessRemoved", id |-> p])

MoveActivity(p) ==
  \E a \in Activity :
    /\ core.procs[p] # None
    /\ core.procs[p].status = "Running"
    /\ core.activity[p] # a
    /\ Changed(core.procs, [core.activity EXCEPT ![p] = a],
               [type |-> "AgentActivityChanged", id |-> p, state |-> a])

\* Changes whose event carries nothing a store here folds in.
Announce(type) ==
  /\ Changed(core.procs, core.activity, [type |-> type])

\* The bus drops an event the forwarder had not read: the forwarder emits the
\* resync signal in its place.
Lag ==
  /\ Faulty
  /\ \E i \in DOMAIN stream :
       /\ stream[i] # Resync
       /\ stream' = [stream EXCEPT ![i] = Resync]
  /\ spent' = [spent EXCEPT !.faults = @ + 1]
  /\ UNCHANGED <<core, list, badges, store, arranged, reorders, disk, inflight, mounted, missed>>

-------------------------------------------------------------------------------
(* The process list.                                                         *)

\* refresh (useProcesses.ts): a new generation, and an empty buffer.
Refreshed(l) == [l EXCEPT !.gen = @ + 1, !.fetching = TRUE, !.buffer = <<>>]

\* onDomainEvent resolves: the listener is attached, then the first snapshot is
\* asked for.
AttachList ==
  /\ "list" \in mounted
  /\ ~list.attached
  /\ MayAsk("list")
  /\ list' = [Refreshed(list) EXCEPT !.attached = TRUE]
  /\ Ask("list", list.gen + 1)
  /\ UNCHANGED <<core, stream, badges, store, arranged, reorders, disk, mounted, missed, spent>>

\* Mutant: an event during a fetch is folded into the list the answer replaces.
ListAfterFolding(e) ==
  IF list.attached THEN [list EXCEPT !.rows = ApplyEvent(@, e)] ELSE list

\* Mutant: the buffer grows with every event.
ListAfterUncapped(e) ==
  IF ~list.attached THEN list
  ELSE IF ~list.fetching THEN [list EXCEPT !.rows = ApplyEvent(@, e)]
  ELSE [list EXCEPT !.buffer = Append(@, e)]

\* onEvent: buffered while a fetch is in flight, folded in otherwise.
ListAfter(e) ==
  IF ~list.attached THEN list
  ELSE IF ~list.fetching THEN [list EXCEPT !.rows = ApplyEvent(@, e)]
  ELSE LET longer == Append(list.buffer, e)
       IN [list EXCEPT !.buffer = IF Len(longer) > BufferCap THEN Tail(longer) ELSE longer]

\* The buffer is full and drops its oldest event.
ListOverflows == list.attached /\ list.fetching /\ Len(list.buffer) = BufferCap

\* Mutant: what arrived during the fetch is dropped.
LandSnapshotBare(answer) ==
  [list EXCEPT !.rows = answer, !.buffer = <<>>, !.fetching = FALSE, !.landed = list.gen]

\* The snapshot lands: what was buffered is replayed on top of it.
LandSnapshot(answer) ==
  [list EXCEPT !.rows = ReplayAll(answer, list.buffer), !.buffer = <<>>,
               !.fetching = FALSE, !.landed = list.gen]

\* An answer of a superseded generation is dropped.
ListAnswered ==
  \E r \in Mine("list") :
    /\ r.answer # None
    /\ inflight' = inflight \ {r}
    /\ list' = IF r.gen # list.gen THEN list ELSE LandSnapshot(r.answer[1])
    /\ UNCHANGED <<core, stream, badges, store, arranged, reorders, disk, mounted, missed, spent>>

\* The request fails: the banner shows it, and the buffer is not replayed.
ListFailed ==
  \E r \in Mine("list") :
    /\ Faulty
    /\ inflight' = inflight \ {r}
    /\ spent' = [spent EXCEPT !.faults = @ + 1]
    /\ list' = IF r.gen # list.gen THEN list
               ELSE [list EXCEPT !.fetching = FALSE, !.error = TRUE]
    /\ UNCHANGED <<core, stream, badges, store, arranged, reorders, disk, mounted, missed>>

-------------------------------------------------------------------------------
(* The activity badges.                                                      *)

AttachBadges ==
  /\ "badges" \in mounted
  /\ ~badges.attached
  /\ MayAsk("badges")
  /\ badges' = [badges EXCEPT !.attached = TRUE, !.asked = @ + 1]
  /\ Ask("badges", badges.asked + 1)
  /\ UNCHANGED <<core, stream, list, store, arranged, reorders, disk, mounted, missed, spent>>

\* seedActivity: the snapshot replaces the map, whatever was folded meanwhile.
BadgesSeeded ==
  \E r \in Mine("badges") :
    /\ r.answer # None
    /\ inflight' = inflight \ {r}
    /\ badges' = [badges EXCEPT !.map = r.answer[1]]
    /\ UNCHANGED <<core, stream, list, store, arranged, reorders, disk, mounted, missed, spent>>

BadgesAfter(e) ==
  IF badges.attached THEN [badges EXCEPT !.map = ApplySignal(@, e)] ELSE badges

-------------------------------------------------------------------------------
(* The re-read stores.                                                       *)

\* usePersistentSnapshot's seed: the cached value, unless one is already shown.
SeededValue(value) == IF value = None THEN disk ELSE value

\* useLineage and useOrchestration read once their listener is attached;
\* useAttention and useProjects do not wait for theirs.  The projects store
\* seeds from the cached snapshot first.
ReadOnMount(s) ==
  /\ s \in mounted
  /\ ~store[s].read
  /\ Coalesced(s) => store[s].attached
  /\ MayAsk(s)
  /\ store' = [store EXCEPT ![s].read = TRUE, ![s].latest = @ + 1,
                 ![s].value = IF s = "projects" THEN SeededValue(@) ELSE @]
  /\ Ask(s, store[s].latest + 1)
  /\ UNCHANGED <<core, stream, list, badges, arranged, reorders, disk, mounted, missed, spent>>

\* onDomainEvent resolves for a re-read store.
Attach(s) ==
  /\ s \in mounted
  /\ ~store[s].attached
  /\ store' = [store EXCEPT ![s].attached = TRUE]
  /\ UNCHANGED <<core, stream, list, badges, arranged, reorders, disk, inflight, mounted, missed, spent>>

\* The animation frame a coalesced re-read waited for.
Frame(s) ==
  /\ store[s].frame
  /\ MayAsk(s)
  /\ store' = [store EXCEPT ![s].frame = FALSE, ![s].latest = @ + 1]
  /\ Ask(s, store[s].latest + 1)
  /\ UNCHANGED <<core, stream, list, badges, arranged, reorders, disk, mounted, missed, spent>>

\* Mutant: every answer lands.
LandsAlways(s, gen) == gen > 0

\* An answer lands, unless a newer request superseded it.  The projects store
\* writes it through to disk and drops the arrangement.
Lands(s, gen) == Guarded(s) => gen = store[s].latest

\* Mutant: the arrangement outlives the answer.
ShownArranged(s, gen, version) ==
  /\ store' = [store EXCEPT ![s].value = version, ![s].landed = gen]
  /\ disk' = IF s = "projects" THEN version ELSE disk
  /\ UNCHANGED arranged

Shown(s, gen, version) ==
  /\ store' = [store EXCEPT ![s].value = version, ![s].landed = gen]
  /\ IF s = "projects"
     THEN /\ disk' = version
          /\ arranged' = None
     ELSE UNCHANGED <<disk, arranged>>

StoreAnswered(s) ==
  \E r \in Mine(s) :
    /\ r.answer # None
    /\ inflight' = inflight \ {r}
    /\ IF Lands(s, r.gen)
       THEN Shown(s, r.gen, r.answer[1])
       ELSE UNCHANGED <<store, disk, arranged>>
    /\ UNCHANGED <<core, stream, list, badges, reorders, mounted, missed, spent>>

\* A failed read, or a failed seed, leaves the last value standing; lineage is emptied.
StoreFailed(s) ==
  \E r \in Mine(s) :
    /\ Faulty
    /\ inflight' = inflight \ {r}
    /\ spent' = [spent EXCEPT !.faults = @ + 1]
    /\ store' = [x \in Rereads |->
                   IF x = s /\ s = "lineage" THEN [store[x] EXCEPT !.value = None] ELSE store[x]]
    /\ UNCHANGED <<core, stream, list, badges, arranged, reorders, disk, mounted, missed>>

\* useProjects.reorder: the arrangement is shown at once and sent to the core.
Reorder ==
  /\ "projects" \in mounted
  /\ store["projects"].value # None
  /\ spent.changes < MaxChanges
  /\ spent' = [spent EXCEPT !.changes = @ + 1]
  /\ \E o \in Order \ reorders :
       /\ arranged' = o
       /\ reorders' = reorders \cup {o}
  /\ UNCHANGED <<core, stream, list, badges, store, disk, inflight, mounted, missed>>

ReorderApplied ==
  \E o \in reorders :
    /\ reorders' = reorders \ {o}
    /\ core' = [core EXCEPT !.version["projects"] = @ + 1]
    /\ Publish(<<[type |-> "ProjectsReordered"]>>)
    /\ UNCHANGED <<list, badges, store, arranged, disk, inflight, mounted, missed, spent>>

\* Refused: the arrangement never reached the core.
ReorderRefused ==
  \E o \in reorders :
    /\ Faulty
    /\ reorders' = reorders \ {o}
    /\ arranged' = None
    /\ spent' = [spent EXCEPT !.faults = @ + 1]
    /\ UNCHANGED <<core, stream, list, badges, store, disk, inflight, mounted, missed>>

-------------------------------------------------------------------------------
(* Delivery: one forwarded event reaches every attached listener.            *)

\* The re-read stores that ask again on this delivery.
Reasking(e) ==
  IF e = Resync
  THEN {s \in Rereads : s \in mounted /\ Reconciles(s)}
  ELSE {s \in Rereads : store[s].attached /\ ~Coalesced(s) /\ e.type \in SignalsOf(s)}

AskAll(ss) ==
  {[store |-> s, gen |-> Latest(s) + 1, answer |-> None] : s \in ss}

StoresAfter(e) ==
  [s \in Rereads |->
     IF s \in Reasking(e) THEN [store[s] EXCEPT !.latest = @ + 1]
     ELSE IF store[s].attached /\ Coalesced(s) /\ e # Resync /\ e.type \in SignalsOf(s)
     THEN [store[s] EXCEPT !.frame = TRUE]
     ELSE store[s]]

\* An event that reaches no listener of s, or that its full buffer drops, is
\* covered only by a request made later.
Miss(ss) == missed' = [s \in Readers |-> IF s \in ss THEN Latest(s) ELSE missed[s]]

\* domain-event, to each listener.
DeliverEvent ==
  /\ stream # <<>>
  /\ Head(stream) # Resync
  /\ LET e == Head(stream) IN
       /\ \A s \in Reasking(e) : MayAsk(s)
       /\ list' = ListAfter(e)
       /\ badges' = BadgesAfter(e)
       /\ store' = StoresAfter(e)
       /\ inflight' = inflight \cup AskAll(Reasking(e))
       /\ Miss((IF ListOverflows THEN {"list"} ELSE {})
               \cup {s \in Rereads : ~store[s].attached /\ e.type \in SignalsOf(s)})
  /\ stream' = Tail(stream)
  /\ UNCHANGED <<core, arranged, reorders, disk, mounted, spent>>

\* useReconcile: the subscriptions to the resync signal resolve, together here.
AttachResync ==
  /\ ~list.reconciling
  /\ list' = [list EXCEPT !.reconciling = TRUE]
  /\ UNCHANGED <<core, stream, badges, store, arranged, reorders, disk, inflight, mounted, missed, spent>>

\* Every mounted store that reconciles asks for its snapshot again.
RefreshAll ==
  LET folding == {"list", "badges"} \cap mounted IN
  /\ \A s \in folding \cup Reasking(Resync) : MayAsk(s)
  /\ list' = IF "list" \in mounted THEN Refreshed(list) ELSE list
  /\ badges' = IF "badges" \in mounted THEN [badges EXCEPT !.asked = @ + 1] ELSE badges
  /\ store' = StoresAfter(Resync)
  /\ inflight' = inflight \cup AskAll(folding \cup Reasking(Resync))
  /\ UNCHANGED <<core, arranged, reorders, disk, mounted>>

\* domain-resync.  A store that does not reconcile misses what was dropped.
DeliverResync ==
  /\ stream # <<>>
  /\ Head(stream) = Resync
  /\ stream' = Tail(stream)
  /\ IF list.reconciling
     THEN /\ RefreshAll
          /\ Miss({"attention"} \cap Rereads)
     ELSE /\ Miss(Readers)
          /\ UNCHANGED <<core, list, badges, store, arranged, reorders, disk, inflight, mounted>>
  /\ UNCHANGED spent

\* The window regains focus.
Focus ==
  /\ Faulty
  /\ RefreshAll
  /\ spent' = [spent EXCEPT !.faults = @ + 1]
  /\ UNCHANGED <<stream, missed>>

-------------------------------------------------------------------------------

ReadModelInit ==
  /\ core = [procs |-> [p \in Id |-> None], used |-> {},
             activity |-> [p \in Id |-> None],
             version |-> [s \in Rereads |-> 1]]
  /\ stream = <<>>
  /\ list = [rows |-> [p \in Id |-> None], buffer |-> <<>>, fetching |-> FALSE, gen |-> 0,
             attached |-> FALSE, reconciling |-> FALSE, error |-> FALSE, landed |-> 0]
  /\ badges = [map |-> [p \in Id |-> None], attached |-> FALSE, asked |-> 0]
  /\ store = [s \in Rereads |-> [value |-> None, latest |-> 0, landed |-> 0,
                                 attached |-> FALSE, read |-> FALSE, frame |-> FALSE]]
  /\ arranged = None
  /\ reorders = {}
  /\ disk \in {None, 0}
  /\ inflight = {}
  /\ mounted \in Mounts
  /\ missed = [s \in Readers |-> 0]
  /\ spent = [changes |-> 0, faults |-> 0]

CoreStep ==
  \/ \E p \in Id : Spawn(p) \/ MoveStatus(p) \/ MoveReady(p) \/ RemoveProcess(p)
                   \/ MoveActivity(p)
  \/ \E type \in {"AttentionChanged", "TodoChanged"} : Announce(type)
  \/ Lag

WindowStep ==
  \/ Answer
  \/ AttachList \/ ListAnswered \/ ListFailed
  \/ AttachBadges \/ BadgesSeeded
  \/ AttachResync
  \/ \E s \in Rereads : Attach(s) \/ ReadOnMount(s) \/ Frame(s) \/ StoreAnswered(s)
  \/ \E s \in Rereads \cup {"badges"} : StoreFailed(s)
  \/ Reorder \/ ReorderApplied \/ ReorderRefused
  \/ DeliverEvent \/ DeliverResync \/ Focus

ReadModelNext == surface = "reads" /\ (CoreStep \/ WindowStep)

-------------------------------------------------------------------------------
(* Properties.                                                               *)

ReadModelTypeOK ==
  /\ core.procs \in [Id -> ProcessView \cup {None}]
  /\ core.activity \in [Id -> Activity \cup {None}]
  /\ \A i \in DOMAIN stream : stream[i] \in DomainEvent \cup {Resync}
  /\ list.rows \in [Id -> ProcessView \cup {None}]
  /\ Len(list.buffer) <= BufferCap
  /\ \A r \in inflight : r.store \in Readers /\ r.gen \in 1..Latest(r.store)
  /\ arranged \in Order \cup {None}
  /\ reorders \subseteq Order

\* Nothing a store waits for is under way, and its latest request answered for
\* every event that got past it.
Settled(s, landed) ==
  /\ stream = <<>>
  /\ Mine(s) = {}
  /\ landed = Latest(s)
  /\ landed > missed[s]

\* The same processes in the same status, and a readiness gate that is open in the
\* core is shown as it is; a gate the core has reset may still be shown.
Agrees(shown, procs) ==
  \A p \in Id :
    IF shown[p] = None \/ procs[p] = None THEN shown[p] = procs[p]
    ELSE /\ shown[p].status = procs[p].status
         /\ procs[p].ready \in {shown[p].ready, "Ungated"}

\* Once its latest snapshot landed and nothing is under way, the process list is
\* the core's, however events, answers, dropped events and superseded requests
\* were interleaved: useProcesses.ts buffers what arrives during a fetch,
\* replays it, and drops an answer that is not the latest.
SettledListIsCore ==
  list.attached /\ Settled("list", list.landed) => Agrees(list.rows, core.procs)

\* What a guarded store shows never goes back to an older snapshot: answers that
\* arrive out of order, and the cached value read from disk, never replace a
\* newer one (useAttention.ts, usePersistentSnapshot.ts).
ShownNeverRegresses ==
  [][\A s \in Rereads : Guarded(s) /\ store[s].value # None =>
        store'[s].value # None /\ store'[s].value >= store[s].value]_readModelVars

\* Once reads and reorders settle, what is shown is the core's snapshot: the
\* arrangement shown ahead of the core's answer never outlives it, whatever was
\* refused, dropped or answered late (useProjects.ts).
SettledOrderIsCore ==
  "projects" \in mounted /\ Settled("projects", store["projects"].landed) /\ reorders = {} =>
     /\ store["projects"].value = core.version["projects"]
     /\ arranged = None

\* What has settled is the core's: the process list with the deltas it replays, and
\* the order of the projects with the arrangement it shows ahead of the answer
\* (useProcesses.ts, useProjects.ts).
SettledIsCore == SettledListIsCore /\ SettledOrderIsCore

\* A list that lost nothing it cannot see ends up agreeing with the core's for good
\* (useProcesses.ts, the snapshot and the deltas after it).
ListCatchesUp ==
  <>[](\/ Agrees(list.rows, core.procs)
       \/ list.landed < list.gen \/ list.landed <= missed["list"])

\* IPC answers and event delivery keep coming; nothing else is assumed.
ReadModelFairness ==
  \A step \in {"answer", "attach", "reconcile", "land", "event", "resync"} :
    WF_readModelVars(
      /\ surface = "reads"
      /\ \/ step = "answer" /\ Answer
         \/ step = "attach" /\ AttachList
         \/ step = "reconcile" /\ AttachResync
         \/ step = "land" /\ ListAnswered
         \/ step = "event" /\ DeliverEvent
         \/ step = "resync" /\ DeliverResync)

=============================================================================
