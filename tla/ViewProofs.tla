------------------------------ MODULE ViewProofs ------------------------------
(***************************************************************************)
(* About the parts of the window that follow the core, for any processes,   *)
(* stores, requests and changes: no answer or cached value takes a guarded  *)
(* store back to an older snapshot, and the process list and the project    *)
(* list come to rest at what the core has.                                  *)
(***************************************************************************)
EXTENDS ReadModels, SequenceProofs

ReadModelSpec == ReadModelInit /\ [][ReadModelNext]_readModelVars

Reread == [value : Nat \cup {None}, latest : Nat, landed : Nat,
           attached : BOOLEAN, read : BOOLEAN, frame : BOOLEAN]

\* Version v of s's snapshot is one the core has had.
Known(s, v) == v \in Nat /\ v <= core.version[s]

StoresTyped == /\ "version" \in DOMAIN core /\ core.version \in [Rereads -> Nat]
               /\ store \in [Rereads -> Reread]

\* A request of a re-read store was numbered by it, and its answer is a version
\* of the core's.
RequestsTyped ==
  \A r \in inflight :
    /\ r = [store |-> r.store, gen |-> r.gen, answer |-> r.answer]
    /\ r.store \in Rereads =>
         /\ r.gen \in Nat /\ r.gen <= store[r.store].latest
         /\ r.answer # None => Known(r.store, r.answer[1])

\* A store never numbers two requests alike.
NumbersDiffer ==
  \A q, r \in inflight : q.store \in Rereads /\ q.store = r.store /\ q.gen = r.gen => q = r

\* What a guarded store shows, and what it cached, is a version the core has had.
ShownIsKnown ==
  /\ \A s \in Rereads : Guarded(s) /\ store[s].value # None => Known(s, store[s].value)
  /\ disk # None => disk \in Nat /\ ("projects" \in Rereads => Known("projects", disk))

\* The answer to the latest request is no older than what the store shows.
LatestIsNewer ==
  \A r \in inflight :
    /\ r.store \in Rereads /\ Guarded(r.store) /\ r.answer # None
    /\ r.gen = store[r.store].latest /\ store[r.store].value # None
    => store[r.store].value <= r.answer[1]

ReadsInv == /\ StoresTyped /\ RequestsTyped /\ NumbersDiffer
            /\ ShownIsKnown /\ LatestIsNewer

-----------------------------------------------------------------------------

\* The stores and their requests stay as they are while the core moves on.
LEMMA CoreMoves ==
  ASSUME ReadsInv, UNCHANGED <<store, inflight, disk>>,
         "version" \in DOMAIN core', core'.version \in [Rereads -> Nat],
         \A s \in Rereads : core'.version[s] >= core.version[s]
  PROVE  ReadsInv'
<1>1. \A s \in Rereads, v \in Nat : v <= core.version[s] => v <= core'.version[s]
  BY DEF ReadsInv, StoresTyped
<1>2. \A s \in Rereads : \A v : Known(s, v) => Known(s, v)'
  BY <1>1 DEF Known
<1>3. StoresTyped'
  BY DEF ReadsInv, StoresTyped
<1>4. RequestsTyped'
  BY <1>2 DEF ReadsInv, RequestsTyped
<1>5. ShownIsKnown'
  BY <1>2 DEF ReadsInv, ShownIsKnown
<1>6. NumbersDiffer' /\ LatestIsNewer'
  BY DEF ReadsInv, NumbersDiffer, LatestIsNewer
<1> QED
  BY <1>3, <1>4, <1>5, <1>6 DEF ReadsInv

\* Some requests end, and no store changes.
LEMMA RequestsEnd ==
  ASSUME ReadsInv, UNCHANGED <<core, store, disk>>, inflight' \subseteq inflight
  PROVE  ReadsInv'
<1>1. StoresTyped'
  BY DEF ReadsInv, StoresTyped
<1>2. RequestsTyped'
  BY DEF ReadsInv, RequestsTyped, Known
<1>3. NumbersDiffer'
  BY DEF ReadsInv, NumbersDiffer
<1>4. ShownIsKnown'
  BY DEF ReadsInv, ShownIsKnown, Known
<1>5. LatestIsNewer'
  BY DEF ReadsInv, LatestIsNewer
<1> QED
  BY <1>1, <1>2, <1>3, <1>4, <1>5 DEF ReadsInv

LEMMA AnswerKeeps == ASSUME ReadsInv, Answer PROVE ReadsInv'
<1>1. PICK r \in inflight :
        /\ r.answer = None
        /\ inflight' = (inflight \ {r}) \cup {[r EXCEPT !.answer = <<Snapshot(r.store)>>]}
  BY DEF Answer
<1>2. UNCHANGED <<core, store, disk>>
  BY DEF Answer
<1> DEFINE t == [r EXCEPT !.answer = <<Snapshot(r.store)>>]
<1>3. r = [store |-> r.store, gen |-> r.gen, answer |-> r.answer]
  BY DEF ReadsInv, RequestsTyped
<1>4. t = [store |-> r.store, gen |-> r.gen, answer |-> <<Snapshot(r.store)>>]
  BY <1>3
<1>5. t.store = r.store /\ t.gen = r.gen /\ t.answer = <<Snapshot(r.store)>>
      /\ t = [store |-> t.store, gen |-> t.gen, answer |-> t.answer]
  BY <1>4
<1>6. r.store \in Rereads => t.answer[1] = core.version[r.store]
  BY <1>5, ReadModelAssumption DEF Snapshot
<1>t. inflight' = (inflight \ {r}) \cup {t}
  BY <1>1
<1> HIDE DEF t
<1>7. StoresTyped'
  BY <1>2 DEF ReadsInv, StoresTyped
<1>8. RequestsTyped'
  BY <1>t, <1>2, <1>5, <1>6 DEF ReadsInv, RequestsTyped, StoresTyped, Known
<1>9. NumbersDiffer'
  BY <1>t, <1>5 DEF ReadsInv, NumbersDiffer
<1>10. ShownIsKnown'
  BY <1>2 DEF ReadsInv, ShownIsKnown, Known
<1>11. LatestIsNewer'
  BY <1>t, <1>2, <1>5, <1>6 DEF ReadsInv, LatestIsNewer, ShownIsKnown, Known
<1> QED
  BY <1>7, <1>8, <1>9, <1>10, <1>11 DEF ReadsInv

\* What asking makes of a store.
LEMMA RereadAsks ==
  ASSUME NEW x \in Reread, NEW v \in Nat \cup {None}
  PROVE  /\ x.latest \in Nat
         /\ [x EXCEPT !.latest = x.latest + 1] \in Reread
         /\ [x EXCEPT !.frame = TRUE] \in Reread
         /\ [x EXCEPT !.attached = TRUE] \in Reread
         /\ [x EXCEPT !.frame = FALSE, !.latest = x.latest + 1] \in Reread
         /\ [x EXCEPT !.read = TRUE, !.latest = x.latest + 1, !.value = v] \in Reread
<1>1. x.latest \in Nat /\ x.latest + 1 \in Nat
  BY DEF Reread
<1> DEFINE n == x.latest + 1
<1> HIDE DEF n
<1>2. ASSUME NEW m \in Nat
      PROVE  /\ [x EXCEPT !.latest = m] \in Reread
             /\ [x EXCEPT !.frame = TRUE] \in Reread
             /\ [x EXCEPT !.attached = TRUE] \in Reread
             /\ [x EXCEPT !.frame = FALSE, !.latest = m] \in Reread
             /\ [x EXCEPT !.read = TRUE, !.latest = m, !.value = v] \in Reread
  <2>1. [x EXCEPT !.latest = m] \in Reread /\ [x EXCEPT !.frame = TRUE] \in Reread
    BY DEF Reread
  <2>2. [x EXCEPT !.attached = TRUE] \in Reread
    BY DEF Reread
  <2>3. [x EXCEPT !.frame = FALSE, !.latest = m] \in Reread
    BY DEF Reread
  <2>4. [x EXCEPT !.read = TRUE, !.latest = m, !.value = v] \in Reread
    BY DEF Reread
  <2> QED
    BY <2>1, <2>2, <2>3, <2>4
<1> QED
  BY <1>1, <1>2

\* Stores ask: each numbers its request past all of its earlier ones, and may take
\* the cached value if it shows none.
LEMMA AsksKeep ==
  ASSUME ReadsInv, UNCHANGED <<core, disk>>, NEW asked,
         \A r \in inflight' \ inflight : r \in asked,
         \A r \in asked :
           /\ r = [store |-> r.store, gen |-> r.gen, answer |-> r.answer]
           /\ r.store \in Rereads =>
                /\ r.answer = None /\ r.gen = store'[r.store].latest
                /\ r.gen > store[r.store].latest
                /\ \A q \in asked : q.store = r.store => q = r,
         store' \in [Rereads -> Reread],
         \A s \in Rereads :
           /\ store'[s].latest >= store[s].latest
           /\ \/ store'[s].value = store[s].value
              \/ /\ s = "projects" /\ store[s].value = None /\ store'[s].value = disk
                 /\ store'[s].latest > store[s].latest
  PROVE  ReadsInv'
<1> USE DEF StoresTyped, Reread, Known
<1>0. \A r \in inflight' : r \in inflight \/ r \in asked
  OBVIOUS
<1>1. StoresTyped'
  BY DEF ReadsInv
<1>2. RequestsTyped'
  <2> SUFFICES ASSUME NEW r \in inflight'
               PROVE  (/\ r = [store |-> r.store, gen |-> r.gen, answer |-> r.answer]
                       /\ r.store \in Rereads =>
                            /\ r.gen \in Nat /\ r.gen <= store[r.store].latest
                            /\ r.answer # None => Known(r.store, r.answer[1]))'
    BY DEF RequestsTyped
  <2>1. CASE r \in asked
    BY <2>1
  <2>2. CASE r \in inflight
    BY <2>2 DEF ReadsInv, RequestsTyped
  <2> QED
    BY <1>0, <2>1, <2>2
<1>3. NumbersDiffer'
  <2> SUFFICES ASSUME NEW q \in inflight', NEW r \in inflight', q.store \in Rereads,
                      q.store = r.store, q.gen = r.gen
               PROVE  q = r
    BY DEF NumbersDiffer
  <2>1. CASE q \in inflight /\ r \in inflight
    BY <2>1 DEF ReadsInv, NumbersDiffer
  <2>2. CASE q \in asked /\ r \in asked
    BY <2>2
  <2>3. CASE q \in inflight /\ r \in asked
    <3>1. q.gen <= store[q.store].latest /\ q.gen \in Nat
      BY <2>3 DEF ReadsInv, RequestsTyped
    <3> QED
      BY <2>3, <3>1 DEF ReadsInv
  <2>4. CASE q \in asked /\ r \in inflight
    <3>1. r.gen <= store[r.store].latest /\ r.gen \in Nat
      BY <2>4 DEF ReadsInv, RequestsTyped
    <3> QED
      BY <2>4, <3>1 DEF ReadsInv
  <2> QED
    BY <1>0, <2>1, <2>2, <2>3, <2>4
<1>4. ShownIsKnown'
  BY DEF ReadsInv, ShownIsKnown
<1>5. LatestIsNewer'
  <2> SUFFICES ASSUME NEW r \in inflight', r.store \in Rereads, Guarded(r.store),
                      r.answer # None, r.gen = store'[r.store].latest,
                      store'[r.store].value # None
               PROVE  store'[r.store].value <= r.answer[1]
    BY DEF LatestIsNewer
  <2>1. r \in inflight
    BY <1>0
  <2>2. r.gen <= store[r.store].latest /\ r.gen \in Nat
    BY <2>1 DEF ReadsInv, RequestsTyped
  <2>3. store'[r.store].latest = store[r.store].latest
    <3>1. store'[r.store].latest \in Nat /\ store[r.store].latest \in Nat
      BY DEF ReadsInv
    <3>2. store'[r.store].latest >= store[r.store].latest
      OBVIOUS
    <3> QED
      BY <2>2, <3>1, <3>2
  <2>4. store'[r.store].value = store[r.store].value
    BY <2>3 DEF ReadsInv
  <2> QED
    BY <2>1, <2>3, <2>4 DEF ReadsInv, LatestIsNewer
<1> QED
  BY <1>1, <1>2, <1>3, <1>4, <1>5 DEF ReadsInv

\* An answer lands and is the latest, or is dropped.
LEMMA AnsweredKeeps == ASSUME ReadsInv, NEW s \in Rereads, StoreAnswered(s) PROVE ReadsInv'
<1>1. PICK r \in inflight :
        /\ r.store = s /\ r.answer # None /\ inflight' = inflight \ {r}
        /\ IF Lands(s, r.gen) THEN Shown(s, r.gen, r.answer[1])
                              ELSE UNCHANGED <<store, disk, arranged>>
  BY DEF StoreAnswered, Mine
<1>2. core' = core
  BY DEF StoreAnswered
<1>3. CASE ~Lands(s, r.gen)
  BY <1>1, <1>2, <1>3, RequestsEnd
<1>4. CASE Lands(s, r.gen)
  <2> DEFINE v == r.answer[1]
  <2>1. v \in Nat /\ v <= core.version[s] /\ r.gen \in Nat
    BY <1>1 DEF ReadsInv, RequestsTyped, Known
  <2>2. /\ store' = [store EXCEPT ![s].value = v, ![s].landed = r.gen]
        /\ IF s = "projects" THEN disk' = v ELSE disk' = disk
    BY <1>1, <1>4 DEF Shown
  <2> HIDE DEF v
  <2>3. /\ store'[s] = [store[s] EXCEPT !.value = v, !.landed = r.gen]
        /\ \A t \in Rereads \ {s} : store'[t] = store[t]
        /\ store' = [t \in Rereads |-> store'[t]]
    BY <2>2 DEF ReadsInv, StoresTyped
  <2>4. /\ store'[s].value = v /\ store'[s].latest = store[s].latest
        /\ store'[s] \in Reread
    BY <2>1, <2>3 DEF ReadsInv, StoresTyped, Reread
  <2>5. StoresTyped'
    BY <1>2, <2>3, <2>4 DEF ReadsInv, StoresTyped
  <2>6. RequestsTyped'
    BY <1>1, <1>2, <2>3, <2>4 DEF ReadsInv, RequestsTyped, Known
  <2>7. NumbersDiffer'
    BY <1>1 DEF ReadsInv, NumbersDiffer
  <2>8. ShownIsKnown'
    BY <1>2, <2>1, <2>2, <2>3, <2>4 DEF ReadsInv, ShownIsKnown, Known
  <2>9. LatestIsNewer'
    <3> SUFFICES ASSUME NEW q \in inflight', q.store \in Rereads, Guarded(q.store),
                        q.answer # None, q.gen = store'[q.store].latest,
                        store'[q.store].value # None
                 PROVE  store'[q.store].value <= q.answer[1]
      BY DEF LatestIsNewer
    <3>1. CASE q.store = s
      <4>1. r.gen = store[s].latest
        BY <1>4, <3>1 DEF Lands
      <4>2. q = r
        BY <1>1, <2>4, <3>1, <4>1 DEF ReadsInv, NumbersDiffer
      <4> QED
        BY <1>1, <4>2
    <3>2. CASE q.store # s
      BY <1>1, <2>3, <3>2 DEF ReadsInv, LatestIsNewer
    <3> QED
      BY <3>1, <3>2
  <2> QED
    BY <2>5, <2>6, <2>7, <2>8, <2>9 DEF ReadsInv
<1> QED
  BY <1>3, <1>4

\* One re-read store asks, on mount or in its animation frame.
LEMMA StoreAsks ==
  ASSUME ReadsInv, NEW s \in Rereads, ReadOnMount(s) \/ Frame(s) \/ Attach(s)
  PROVE  ReadsInv'
<1>1. UNCHANGED <<core, disk>>
  BY DEF ReadOnMount, Frame, Attach
<1> DEFINE r == [store |-> s, gen |-> store[s].latest + 1, answer |-> None]
<1>2. /\ store' \in [Rereads -> Reread]
      /\ \A t \in Rereads \ {s} : store'[t] = store[t]
      /\ store'[s].latest \in {store[s].latest, store[s].latest + 1}
      /\ store[s].latest \in Nat
  <2>1. store[s] \in Reread /\ disk \in Nat \cup {None} /\ store \in [Rereads -> Reread]
    BY DEF ReadsInv, StoresTyped, ShownIsKnown
  <2>2. \E t \in Reread : store' = [store EXCEPT ![s] = t]
                        /\ t.latest \in {store[s].latest, store[s].latest + 1}
    <3>1. CASE ReadOnMount(s)
      <4>1. PICK v \in Nat \cup {None} : store' = [store EXCEPT ![s] =
              [store[s] EXCEPT !.read = TRUE, !.latest = store[s].latest + 1, !.value = v]]
        BY <2>1, <3>1 DEF ReadOnMount, SeededValue, Reread
      <4> DEFINE t == [store[s] EXCEPT !.read = TRUE, !.latest = store[s].latest + 1, !.value = v]
      <4>2. t \in Reread /\ t.latest = store[s].latest + 1
        BY <2>1, RereadAsks DEF Reread
      <4> QED
        BY <4>1, <4>2
    <3>2. CASE Frame(s)
      <4> DEFINE t == [store[s] EXCEPT !.frame = FALSE, !.latest = store[s].latest + 1]
      <4>1. store' = [store EXCEPT ![s] = t]
        BY <2>1, <3>2 DEF Frame
      <4>2. t \in Reread /\ t.latest = store[s].latest + 1
        BY <2>1, RereadAsks DEF Reread
      <4> QED
        BY <4>1, <4>2
    <3>3. CASE Attach(s)
      <4> DEFINE t == [store[s] EXCEPT !.attached = TRUE]
      <4>1. store' = [store EXCEPT ![s] = t]
        BY <2>1, <3>3 DEF Attach
      <4>2. t \in Reread /\ t.latest = store[s].latest
        BY <2>1, RereadAsks DEF Reread
      <4> QED
        BY <4>1, <4>2
    <3> QED
      BY <3>1, <3>2, <3>3
  <2>3. store[s].latest \in Nat
    BY <2>1 DEF Reread
  <2> QED
    BY <2>1, <2>2, <2>3
<1>3. \/ store'[s].value = store[s].value
      \/ /\ s = "projects" /\ store[s].value = None /\ store'[s].value = disk
         /\ store'[s].latest = store[s].latest + 1
  BY DEF ReadsInv, StoresTyped, Reread, SeededValue, ReadOnMount, Frame, Attach
<1>4. \/ inflight' = inflight
      \/ /\ inflight' = inflight \cup {r}
         /\ store'[s].latest = store[s].latest + 1
  BY DEF ReadsInv, StoresTyped, Reread, Ask, ReadOnMount, Frame, Attach
<1>5. r.store = s /\ r.gen = store[s].latest + 1 /\ r.answer = None
      /\ r = [store |-> r.store, gen |-> r.gen, answer |-> r.answer]
  OBVIOUS
<1>6. \A t \in Rereads : store[t].latest \in Nat
  BY DEF ReadsInv, StoresTyped, Reread
<1>7. \A t \in Rereads :
           /\ store'[t].latest >= store[t].latest
           /\ \/ store'[t].value = store[t].value
              \/ /\ t = "projects" /\ store[t].value = None /\ store'[t].value = disk
                 /\ store'[t].latest > store[t].latest
  BY <1>2, <1>3, <1>6
<1> HIDE DEF r
<1>8. CASE inflight' = inflight
  <2> DEFINE asked == {}
  <2>1. (\A q \in inflight' \ inflight : q \in asked) /\ ~\E q \in asked : TRUE
    BY <1>8
  <2> HIDE DEF asked
  <2> QED
    BY <1>1, <1>2, <1>7, <2>1, AsksKeep
<1>9. CASE inflight' = inflight \cup {r} /\ store'[s].latest = store[s].latest + 1
  <2> DEFINE asked == {r}
  <2>1. \A q \in inflight' \ inflight : q \in asked
    BY <1>9
  <2>2. \A q \in asked :
           /\ q = [store |-> q.store, gen |-> q.gen, answer |-> q.answer]
           /\ q.store \in Rereads =>
                /\ q.answer = None /\ q.gen = store'[q.store].latest
                /\ q.gen > store[q.store].latest
                /\ \A o \in asked : o.store = q.store => o = q
    BY <1>2, <1>5, <1>9
  <2> HIDE DEF asked
  <2> QED
    BY <1>1, <1>2, <1>7, <2>1, <2>2, AsksKeep
<1> QED
  BY <1>4, <1>8, <1>9

\* Every store that hears of a change, or of a resync, asks.
LEMMA AllAsk ==
  ASSUME ReadsInv, UNCHANGED <<core, disk>>, NEW e, NEW folding, folding \cap Rereads = {},
         store' = StoresAfter(e),
         inflight' = inflight \cup AskAll(folding \cup Reasking(e))
  PROVE  ReadsInv'
<1> DEFINE asked == AskAll(folding \cup Reasking(e))
<1>1. /\ store' \in [Rereads -> Reread]
      /\ \A s \in Rereads : /\ store[s].latest \in Nat
                            /\ store'[s].value = store[s].value
                            /\ store'[s].latest \in {store[s].latest, store[s].latest + 1}
                            /\ s \in Reasking(e) => store'[s].latest = store[s].latest + 1
  <2>1. \A s \in Rereads : store[s] \in Reread
    BY DEF ReadsInv, StoresTyped
  <2>2. ASSUME NEW s \in Rereads
        PROVE  /\ store'[s] \in Reread /\ store[s].latest \in Nat
               /\ store'[s].value = store[s].value
               /\ store'[s].latest \in {store[s].latest, store[s].latest + 1}
               /\ s \in Reasking(e) => store'[s].latest = store[s].latest + 1
    <3>1. \/ /\ s \in Reasking(e)
             /\ store'[s] = [store[s] EXCEPT !.latest = store[s].latest + 1]
          \/ /\ s \notin Reasking(e)
             /\ store'[s] \in {[store[s] EXCEPT !.frame = TRUE], store[s]}
      BY DEF StoresAfter
    <3>2. store'[s] \in Reread /\ store[s].latest \in Nat
      BY <2>1, <3>1, RereadAsks
    <3> QED
      BY <2>1, <3>1, <3>2 DEF Reread
  <2>3. store' = [s \in Rereads |-> store'[s]]
    BY DEF StoresAfter
  <2> QED
    BY <2>2, <2>3
<1>2. \A q \in asked : \E s \in folding \cup Reasking(e) :
         /\ q = [store |-> s, gen |-> Latest(s) + 1, answer |-> None]
  BY DEF AskAll
<1>3. \A s \in Rereads : Latest(s) = store[s].latest
  BY ReadModelAssumption DEF Latest
<1>4. \A q \in asked :
           /\ q = [store |-> q.store, gen |-> q.gen, answer |-> q.answer]
           /\ q.store \in folding \cup Reasking(e)
           /\ q.gen = Latest(q.store) + 1 /\ q.answer = None
  BY <1>2
<1>5. \A q \in inflight' \ inflight : q \in asked
  OBVIOUS
<1> HIDE DEF asked
<1>6. \A q \in asked :
           /\ q = [store |-> q.store, gen |-> q.gen, answer |-> q.answer]
           /\ q.store \in Rereads =>
                /\ q.answer = None /\ q.gen = store'[q.store].latest
                /\ q.gen > store[q.store].latest
                /\ \A o \in asked : o.store = q.store => o = q
  BY <1>1, <1>3, <1>4
<1>7. \A s \in Rereads : store'[s].latest >= store[s].latest
  BY <1>1
<1> QED
  BY <1>1, <1>5, <1>6, <1>7, AsksKeep

LEMMA FailedKeeps ==
  ASSUME ReadsInv, NEW s \in Rereads \cup {"badges"}, StoreFailed(s)
  PROVE  ReadsInv'
<1>1. /\ UNCHANGED <<core, disk>> /\ inflight' \subseteq inflight
      /\ store' = [x \in Rereads |->
           IF x = s /\ s = "lineage" THEN [store[x] EXCEPT !.value = None] ELSE store[x]]
  BY DEF StoreFailed
<1>2. /\ store' \in [Rereads -> Reread]
      /\ \A t \in Rereads : /\ store'[t].latest = store[t].latest
                            /\ Guarded(t) => store'[t] = store[t]
  BY <1>1 DEF ReadsInv, StoresTyped, Reread, Guarded
<1>3. StoresTyped'
  BY <1>1, <1>2 DEF ReadsInv, StoresTyped
<1>4. RequestsTyped'
  BY <1>1, <1>2 DEF ReadsInv, RequestsTyped, Known
<1>5. NumbersDiffer'
  BY <1>1 DEF ReadsInv, NumbersDiffer
<1>6. ShownIsKnown'
  BY <1>1, <1>2 DEF ReadsInv, ShownIsKnown, Known, Guarded
<1>7. LatestIsNewer'
  BY <1>1, <1>2 DEF ReadsInv, LatestIsNewer, Guarded
<1> QED
  BY <1>3, <1>4, <1>5, <1>6, <1>7 DEF ReadsInv

\* The core changes: the versions of what the event stands for move on.
LEMMA CoreKeeps == ASSUME ReadsInv, CoreStep \/ ReorderApplied PROVE ReadsInv'
<1> USE DEF ReadsInv, StoresTyped
<1>0. \A s \in Rereads : core.version[s] \in Nat
  OBVIOUS
<1>a. ASSUME NEW procs, NEW activity, NEW e, Changed(procs, activity, e) PROVE ReadsInv'
  <2>1. /\ "version" \in DOMAIN core' /\ UNCHANGED <<store, inflight, disk>>
        /\ core'.version = [s \in Rereads |->
             IF e.type \in SignalsOf(s) THEN core.version[s] + 1 ELSE core.version[s]]
    BY <1>a DEF Changed
  <2> QED
    BY <1>0, <2>1, CoreMoves
<1>1. ASSUME NEW p \in Id, Spawn(p) PROVE ReadsInv'
  <2>1. /\ "version" \in DOMAIN core' /\ UNCHANGED <<store, inflight, disk>>
        /\ core'.version = [s \in Rereads |->
             IF "ProcessSpawned" \in SignalsOf(s) THEN core.version[s] + 1 ELSE core.version[s]]
    BY <1>1 DEF Spawn
  <2> QED
    BY <1>0, <2>1, CoreMoves
<1>2. ASSUME NEW p \in Id,
             MoveStatus(p) \/ MoveReady(p) \/ RemoveProcess(p) \/ MoveActivity(p)
      PROVE  ReadsInv'
  BY <1>a, <1>2 DEF MoveStatus, MoveReady, RemoveProcess, MoveActivity
<1>3. ASSUME NEW type, Announce(type) PROVE ReadsInv'
  BY <1>a, <1>3 DEF Announce
<1>4. CASE Lag
  BY <1>4, RequestsEnd DEF Lag
<1>5. CASE ReorderApplied
  <2>1. /\ "version" \in DOMAIN core' /\ UNCHANGED <<store, inflight, disk>>
        /\ core'.version = [core.version EXCEPT !["projects"] = core.version["projects"] + 1]
    BY <1>5 DEF ReorderApplied
  <2>2. core'.version \in [Rereads -> Nat] /\ \A s \in Rereads : core'.version[s] >= core.version[s]
    <3> DEFINE next == core.version["projects"] + 1
    <3>1. \A s \in Rereads : core'.version[s] = IF s = "projects" THEN next ELSE core.version[s]
      BY <2>1
    <3>2. core'.version = [s \in Rereads |-> core'.version[s]]
      BY <2>1
    <3>3. "projects" \in Rereads => next \in Nat /\ next >= core.version["projects"]
      BY <1>0
    <3> HIDE DEF next
    <3> QED
      BY <1>0, <3>1, <3>2, <3>3
  <2> QED
    BY <2>1, <2>2, CoreMoves
<1> QED
  BY <1>1, <1>2, <1>3, <1>4, <1>5 DEF CoreStep

\* The stores that fold events in ask, are answered or fail: the others stand.
LEMMA FoldingKeeps ==
  ASSUME ReadsInv, AttachList \/ AttachBadges \/ ListAnswered \/ ListFailed \/ BadgesSeeded
  PROVE  ReadsInv'
<1>1. CASE ListAnswered \/ ListFailed \/ BadgesSeeded
  BY <1>1, RequestsEnd DEF ListAnswered, ListFailed, BadgesSeeded
<1>2. CASE AttachList \/ AttachBadges
  <2>1. PICK f, n : /\ f \in {"list", "badges"}
                    /\ inflight' = inflight \cup {[store |-> f, gen |-> n, answer |-> None]}
                    /\ UNCHANGED <<core, store, disk>>
    <3>1. CASE AttachList
      <4>1. /\ inflight' = inflight \cup {[store |-> "list", gen |-> list.gen + 1, answer |-> None]}
            /\ UNCHANGED <<core, store, disk>>
        BY <3>1 DEF AttachList, Ask
      <4> QED
        BY <4>1
    <3>2. CASE AttachBadges
      <4>1. /\ inflight' = inflight \cup
                 {[store |-> "badges", gen |-> badges.asked + 1, answer |-> None]}
            /\ UNCHANGED <<core, store, disk>>
        BY <3>2 DEF AttachBadges, Ask
      <4> QED
        BY <4>1
    <3> QED
      BY <1>2, <3>1, <3>2
  <2> DEFINE asked == {[store |-> f, gen |-> n, answer |-> None]}
  <2>2. \A q \in inflight' \ inflight : q \in asked
    BY <2>1
  <2>3. \A q \in asked : /\ q = [store |-> q.store, gen |-> q.gen, answer |-> q.answer]
                        /\ q.store \notin Rereads
    BY <2>1, ReadModelAssumption
  <2> HIDE DEF asked
  <2>4. \A s \in Rereads : store'[s].latest >= store[s].latest
    BY <2>1 DEF ReadsInv, StoresTyped, Reread
  <2>5. store' \in [Rereads -> Reread]
    BY <2>1 DEF ReadsInv, StoresTyped
  <2> QED
    BY <2>1, <2>2, <2>3, <2>4, <2>5, AsksKeep
<1> QED
  BY <1>1, <1>2

LEMMA DeliveryKeeps == ASSUME ReadsInv, DeliverEvent \/ DeliverResync \/ Focus PROVE ReadsInv'
<1>1. CASE DeliverEvent
  <2> SUFFICES ASSUME NEW e, e = Head(stream), NEW folding, folding = {}
               PROVE  ReadsInv'
    OBVIOUS
  <2>1. /\ store' = StoresAfter(e) /\ UNCHANGED <<core, disk>>
        /\ inflight' = inflight \cup AskAll(folding \cup Reasking(e))
    <3>1. folding \cup Reasking(e) = Reasking(e)
      OBVIOUS
    <3> QED
      BY <1>1, <3>1 DEF DeliverEvent
  <2> QED
    BY <2>1, AllAsk
<1>2. CASE RefreshAll
  <2> SUFFICES ASSUME NEW e, e = Resync,
                      NEW folding, folding = {"list", "badges"} \cap mounted PROVE ReadsInv'
    OBVIOUS
  <2>1. /\ store' = StoresAfter(e) /\ UNCHANGED <<core, disk>>
        /\ inflight' = inflight \cup AskAll(folding \cup Reasking(e))
    BY <1>2 DEF RefreshAll
  <2>2. folding \cap Rereads = {}
    BY ReadModelAssumption
  <2> QED
    BY <2>1, <2>2, AllAsk
<1>3. CASE UNCHANGED <<core, store, disk, inflight>>
  BY <1>3, RequestsEnd
<1> QED
  BY <1>1, <1>2, <1>3 DEF DeliverResync, Focus

LEMMA ReadsStep == ReadsInv /\ [ReadModelNext]_readModelVars => ReadsInv'
<1> SUFFICES ASSUME ReadsInv, [ReadModelNext]_readModelVars PROVE ReadsInv'
  OBVIOUS
<1>1. CASE AttachResync \/ UNCHANGED readModelVars
  BY <1>1, RequestsEnd DEF AttachResync, readModelVars
<1>2. CASE Reorder \/ ReorderRefused
  BY <1>2, RequestsEnd DEF Reorder, ReorderRefused
<1>3. ASSUME NEW s \in Rereads, ReadOnMount(s) \/ Frame(s) \/ Attach(s) \/ StoreAnswered(s)
      PROVE  ReadsInv'
  BY <1>3, StoreAsks, AnsweredKeeps
<1> QED
  BY <1>1, <1>2, <1>3, AnswerKeeps, FailedKeeps, CoreKeeps, FoldingKeeps, DeliveryKeeps
     DEF ReadModelNext, WindowStep

LEMMA ReadsInit == ReadModelInit => ReadsInv
<1> SUFFICES ASSUME ReadModelInit PROVE ReadsInv
  OBVIOUS
<1>1. /\ core.version = [s \in Rereads |-> 1] /\ "version" \in DOMAIN core
      /\ inflight = {} /\ disk \in {None, 0}
      /\ store = [s \in Rereads |-> [value |-> None, latest |-> 0, landed |-> 0,
                                     attached |-> FALSE, read |-> FALSE, frame |-> FALSE]]
  BY DEF ReadModelInit
<1>2. StoresTyped
  BY <1>1 DEF StoresTyped, Reread
<1> QED
  BY <1>1, <1>2 DEF ReadsInv, RequestsTyped, NumbersDiffer, ShownIsKnown, LatestIsNewer, Known

-----------------------------------------------------------------------------

\* An answer that lands on a guarded store is the one to its latest request.
LEMMA ShownAdvances ==
  ASSUME ReadsInv, ReadModelNext, NEW s \in Rereads, Guarded(s), store[s].value # None
  PROVE  store'[s].value # None /\ store'[s].value >= store[s].value
<1>0. store[s].value \in Nat
  BY DEF ReadsInv, ShownIsKnown, Known
<1>a. ASSUME store'[s].value = store[s].value
      PROVE  store'[s].value # None /\ store'[s].value >= store[s].value
  BY <1>0, <1>a
<1>b. ASSUME UNCHANGED store PROVE store'[s].value = store[s].value
  BY <1>b
<1>t. /\ store \in [Rereads -> Reread] /\ store[s] \in Reread
  BY DEF ReadsInv, StoresTyped
<1>1. CASE CoreStep
  BY <1>1, <1>a DEF CoreStep, Spawn, MoveStatus, MoveReady, RemoveProcess, MoveActivity,
                    Announce, Lag, Changed
<1>2. CASE \/ Answer \/ AttachList \/ ListAnswered \/ ListFailed \/ AttachBadges
           \/ BadgesSeeded \/ AttachResync \/ Reorder \/ ReorderApplied \/ ReorderRefused
  BY <1>2, <1>a DEF Answer, AttachList, ListAnswered, ListFailed, AttachBadges,
                    BadgesSeeded, AttachResync, Reorder, ReorderApplied, ReorderRefused
<1>3. ASSUME NEW t \in Rereads, Attach(t) \/ ReadOnMount(t) \/ Frame(t)
      PROVE  store'[s].value = store[s].value
  <2>1. CASE t = s
    BY <1>3, <1>t, <2>1 DEF Attach, ReadOnMount, Frame, SeededValue, Reread
  <2>2. CASE t # s
    BY <1>3, <1>t, <2>2 DEF Attach, ReadOnMount, Frame
  <2> QED
    BY <2>1, <2>2
<1>4. ASSUME NEW t \in Rereads, StoreAnswered(t)
      PROVE  store'[s].value # None /\ store'[s].value >= store[s].value
  <2>1. PICK r \in inflight :
          /\ r.store = t /\ r.answer # None
          /\ IF Lands(t, r.gen) THEN Shown(t, r.gen, r.answer[1]) ELSE UNCHANGED store
    BY <1>4 DEF StoreAnswered, Mine
  <2>2. CASE t = s /\ Lands(t, r.gen)
    <3>1. r.gen = store[s].latest /\ store'[s].value = r.answer[1]
      BY <1>t, <2>1, <2>2 DEF Lands, Shown, Reread
    <3>2. r.answer[1] \in Nat /\ store[s].value <= r.answer[1]
      BY <2>1, <2>2, <3>1 DEF ReadsInv, RequestsTyped, Known, LatestIsNewer
    <3> QED
      BY <1>0, <3>1, <3>2, ReadModelAssumption
  <2>3. CASE t # s \/ ~Lands(t, r.gen)
    BY <1>a, <1>t, <2>1, <2>3 DEF Shown
  <2> QED
    BY <2>2, <2>3
<1>5. ASSUME NEW t, StoreFailed(t) PROVE store'[s].value = store[s].value
  BY <1>5 DEF StoreFailed, Guarded
<1>6. ASSUME NEW e, store' = StoresAfter(e) PROVE store'[s].value = store[s].value
  <2>1. store'[s] \in {[store[s] EXCEPT !.latest = @ + 1], [store[s] EXCEPT !.frame = TRUE],
                       store[s]}
    BY <1>6 DEF StoresAfter
  <2> QED
    BY <1>t, <2>1 DEF Reread
<1>7. CASE DeliverEvent \/ DeliverResync \/ Focus
  BY <1>7, <1>a, <1>6 DEF DeliverEvent, DeliverResync, Focus, RefreshAll
<1> QED
  BY <1>1, <1>2, <1>3, <1>4, <1>5, <1>7, <1>a DEF ReadModelNext, WindowStep

\* What the attention and the projects stores show never goes back to an older
\* snapshot, for any number of overlapping requests and any cached value: an answer
\* lands only if no request was made after its own (usePersistentSnapshot.ts,
\* useAttention.ts).
THEOREM ShownNeverRegressesHolds == ReadModelSpec => ShownNeverRegresses
<1>1. ReadsInv /\ [ReadModelNext]_readModelVars
        => [\A s \in Rereads : Guarded(s) /\ store[s].value # None =>
              store'[s].value # None /\ store'[s].value >= store[s].value]_readModelVars
  BY ShownAdvances
<1>2. ReadModelSpec => []ReadsInv
  BY ReadsInit, ReadsStep, PTL DEF ReadModelSpec
<1> QED
  BY <1>1, <1>2, PTL DEF ReadModelSpec, ShownNeverRegresses

-----------------------------------------------------------------------------
(* The projects store: what settles is the core's.                         *)

Wire == DomainEvent \cup {Resync}

\* Something is on its way that the projects store will read again for.
Pending(q) ==
  \E i \in DOMAIN q : q[i].type \in {"ProjectOpened", "ProjectsReordered", "Resync"}

projects == store["projects"]

\* An event or a resync got past the store since its latest request.
Missed == projects.latest <= missed["projects"]

\* What the latest request brings, or has brought, is the core's snapshot, unless
\* something is on its way or was missed.
VersionCovered ==
  \/ Pending(stream)
  \/ Missed
  \/ /\ projects.landed = projects.latest => projects.value = core.version["projects"]
     /\ \A r \in inflight :
          r.store = "projects" /\ r.gen = projects.latest /\ r.answer # None
          => r.answer[1] = core.version["projects"]

\* An arrangement is shown ahead of the core only while an answer is to come.
ArrangementCovered ==
  \/ arranged = None \/ reorders # {} \/ Pending(stream) \/ Missed
  \/ projects.landed # projects.latest

OrderInv ==
  /\ mounted \in Mounts /\ stream \in Seq(Wire)
  /\ "projects" \in mounted =>
       /\ missed["projects"] \in Nat /\ projects.landed <= projects.latest
       /\ VersionCovered /\ ArrangementCovered

LEMMA ProjectsTyped ==
  ASSUME ReadsInv, OrderInv, "projects" \in mounted
  PROVE  /\ "projects" \in Rereads /\ projects \in Reread
         /\ projects.latest \in Nat /\ projects.landed \in Nat
         /\ core.version["projects"] \in Nat
<1>1. "projects" \in Rereads
  BY ReadModelAssumption DEF OrderInv
<1> QED
  BY <1>1 DEF ReadsInv, StoresTyped, projects, Reread

\* The store shows what it did, and waits for the answer it did.
Stands == /\ projects'.latest = projects.latest /\ projects'.landed = projects.landed
          /\ projects'.value = projects.value

LEMMA OrderStands ==
  ASSUME OrderInv, UNCHANGED mounted, stream' \in Seq(Wire),
         "projects" \in mounted =>
           /\ Stands /\ missed'["projects"] = missed["projects"]
           /\ Pending(stream) => Pending(stream')
           /\ \/ core'.version["projects"] = core.version["projects"]
              \/ Pending(stream')
           /\ \A r \in inflight' :
                r.store = "projects" /\ r.gen = projects.latest /\ r.answer # None
                => r \in inflight \/ r.answer[1] = core.version["projects"]
           /\ \/ arranged' = None \/ reorders' # {} \/ Pending(stream')
              \/ arranged' = arranged /\ reorders' = reorders
  PROVE  OrderInv'
BY DEF OrderInv, VersionCovered, ArrangementCovered, Missed, Stands

\* The store asks again: its latest request is under way.
LEMMA OrderAsks ==
  ASSUME ReadsInv, OrderInv, UNCHANGED mounted, stream' \in Seq(Wire),
         "projects" \in mounted =>
           /\ missed'["projects"] \in Nat
           /\ projects'.latest = projects.latest + 1 /\ projects'.landed = projects.landed
           /\ \A r \in inflight' : r.store = "projects" /\ r.answer # None => r \in inflight
  PROVE  OrderInv'
<1> SUFFICES ASSUME "projects" \in mounted
             PROVE  /\ projects'.landed <= projects'.latest
                    /\ VersionCovered' /\ ArrangementCovered'
  BY DEF OrderInv
<1>1. /\ projects.latest \in Nat /\ projects.landed \in Nat
      /\ projects.landed <= projects.latest /\ "projects" \in Rereads
  BY ProjectsTyped DEF OrderInv
<1>2. projects'.landed <= projects'.latest /\ projects'.landed # projects'.latest
  BY <1>1
<1>3. ASSUME NEW r \in inflight', r.store = "projects", r.gen = projects'.latest,
             r.answer # None
      PROVE  FALSE
  <2>1. r \in inflight
    BY <1>3
  <2>2. r.gen \in Nat /\ r.gen <= projects.latest
    BY <1>1, <1>3, <2>1 DEF ReadsInv, RequestsTyped, projects
  <2> QED
    BY <1>1, <1>3, <2>2
<1>4. VersionCovered'
  BY <1>2, <1>3 DEF VersionCovered
<1>5. ArrangementCovered'
  BY <1>2 DEF ArrangementCovered
<1> QED
  BY <1>2, <1>4, <1>5

\* An event or a resync gets past the store.
LEMMA OrderMisses ==
  ASSUME ReadsInv, OrderInv, UNCHANGED mounted, stream' \in Seq(Wire),
         "projects" \in mounted =>
           /\ missed'["projects"] = projects.latest /\ Stands
  PROVE  OrderInv'
<1> SUFFICES ASSUME "projects" \in mounted
             PROVE  /\ missed'["projects"] \in Nat /\ projects'.landed <= projects'.latest
                    /\ Missed'
  BY DEF OrderInv, VersionCovered, ArrangementCovered
<1>1. projects.latest \in Nat /\ Stands
  BY ProjectsTyped
<1> QED
  BY <1>1 DEF Missed, OrderInv, Stands

Awaited(e) == e.type \in {"ProjectOpened", "ProjectsReordered", "Resync"}

LEMMA PublishPends ==
  ASSUME NEW q \in Seq(Wire), NEW e \in Wire
  PROVE  /\ q \o <<e>> \in Seq(Wire)
         /\ Pending(q) \/ Awaited(e) => Pending(q \o <<e>>)
<1>1. q \o <<e>> \in Seq(Wire)
  OBVIOUS
<1>2. /\ \A i \in DOMAIN q : i \in DOMAIN (q \o <<e>>) /\ (q \o <<e>>)[i] = q[i]
      /\ Len(q) + 1 \in DOMAIN (q \o <<e>>) /\ (q \o <<e>>)[Len(q) + 1] = e
  OBVIOUS
<1> QED
  BY <1>1, <1>2 DEF Pending, Awaited

LEMMA DeliveryPends ==
  ASSUME NEW q \in Seq(Wire), q # <<>>
  PROVE  /\ Head(q) \in Wire /\ Tail(q) \in Seq(Wire)
         /\ Pending(q) /\ ~Awaited(Head(q)) => Pending(Tail(q))
<1>1. Head(q) \in Wire /\ Tail(q) \in Seq(Wire) /\ Head(q) = q[1]
  OBVIOUS
<1>2. ASSUME NEW i \in DOMAIN q, i # 1
      PROVE  i - 1 \in DOMAIN Tail(q) /\ Tail(q)[i - 1] = q[i]
  BY <1>2
<1>3. ASSUME Pending(q), ~Awaited(Head(q)) PROVE Pending(Tail(q))
  <2>1. PICK i \in DOMAIN q : Awaited(q[i])
    BY <1>3 DEF Pending, Awaited
  <2>2. i # 1
    BY <1>1, <1>3, <2>1
  <2>3. i - 1 \in DOMAIN Tail(q) /\ Awaited(Tail(q)[i - 1])
    BY <1>2, <2>1, <2>2
  <2> QED
    BY <2>3 DEF Pending, Awaited
<1> QED
  BY <1>1, <1>3

LEMMA DomainEvents ==
  /\ \A p \in Id : [type |-> "ProcessSpawned", id |-> p, status |-> "Starting"] \in DomainEvent
  /\ \A p \in Id, to \in Status :
       [type |-> "ProcessStatusChanged", id |-> p, to |-> to] \in DomainEvent
  /\ \A p \in Id, b \in BOOLEAN :
       [type |-> "ReadyStateChanged", id |-> p, ready |-> b] \in DomainEvent
  /\ \A p \in Id : [type |-> "ProcessRemoved", id |-> p] \in DomainEvent
  /\ \A p \in Id, a \in Activity :
       [type |-> "AgentActivityChanged", id |-> p, state |-> a] \in DomainEvent
  /\ \A t \in {"AttentionChanged", "TodoChanged", "ProjectsReordered"} :
       [type |-> t] \in DomainEvent
  /\ Resync \in Wire /\ Awaited(Resync) /\ DomainEvent \subseteq Wire
  /\ \A e \in DomainEvent : e.type # "Resync"
<1>1. \A p \in Id : [type |-> "ProcessSpawned", id |-> p, status |-> "Starting"] \in DomainEvent
  BY DEF DomainEvent, Status
<1>2. \A p \in Id, to \in Status :
       [type |-> "ProcessStatusChanged", id |-> p, to |-> to] \in DomainEvent
  BY DEF DomainEvent
<1>3. \A p \in Id, b \in BOOLEAN :
       [type |-> "ReadyStateChanged", id |-> p, ready |-> b] \in DomainEvent
  BY DEF DomainEvent
<1>4. \A p \in Id : [type |-> "ProcessRemoved", id |-> p] \in DomainEvent
  BY DEF DomainEvent
<1>5. \A p \in Id, a \in Activity :
       [type |-> "AgentActivityChanged", id |-> p, state |-> a] \in DomainEvent
  BY DEF DomainEvent
<1>6. \A t \in {"AttentionChanged", "TodoChanged", "ProjectsReordered"} :
       [type |-> t] \in DomainEvent
  BY DEF DomainEvent
<1>7. Resync \in Wire /\ Awaited(Resync) /\ DomainEvent \subseteq Wire
  BY DEF Resync, Wire, Awaited
<1>8. \A e \in DomainEvent : e.type # "Resync"
  BY DEF DomainEvent
<1> QED
  BY <1>1, <1>2, <1>3, <1>4, <1>5, <1>6, <1>7, <1>8

LEMMA OrderCore == ASSUME ReadsInv, OrderInv, CoreStep PROVE OrderInv'
<1>0. /\ "projects" \in mounted => "projects" \in Rereads
      /\ stream \in Seq(Wire)
  BY ProjectsTyped DEF OrderInv
<1>a. ASSUME NEW e \in DomainEvent,
             UNCHANGED <<store, mounted, missed, arranged, reorders, inflight>>,
             stream' = stream \o <<e>>,
             core'.version = [s \in Rereads |->
               IF e.type \in SignalsOf(s) THEN core.version[s] + 1 ELSE core.version[s]]
      PROVE  OrderInv'
  <2>1. e \in Wire
    BY <1>a DEF Wire
  <2>2. stream' \in Seq(Wire) /\ (Pending(stream) \/ Awaited(e) => Pending(stream'))
    BY <1>0, <1>a, <2>1, PublishPends
  <2>3. "projects" \in mounted /\ ~Awaited(e) =>
          core'.version["projects"] = core.version["projects"]
    BY <1>0, <1>a DEF SignalsOf, Awaited
  <2>4. Stands
    BY <1>a DEF Stands, projects
  <2> QED
    BY <1>a, <2>2, <2>3, <2>4, OrderStands
<1>1. ASSUME NEW procs, NEW activity, NEW e \in DomainEvent, Changed(procs, activity, e)
      PROVE  OrderInv'
  <2>1. core'.version = [s \in Rereads |->
               IF e.type \in SignalsOf(s) THEN core.version[s] + 1 ELSE core.version[s]]
    BY <1>1 DEF Changed, ReadsInv, StoresTyped
  <2> QED
    BY <1>a, <1>1, <2>1 DEF Changed, Publish
<1>2. ASSUME NEW p \in Id, Spawn(p) PROVE OrderInv'
  <2> SUFFICES ASSUME NEW e, e = [type |-> "ProcessSpawned", id |-> p, status |-> "Starting"]
               PROVE  OrderInv'
    OBVIOUS
  <2>1. e \in DomainEvent /\ e.type = "ProcessSpawned"
    BY DomainEvents
  <2>2. core'.version = [s \in Rereads |->
               IF e.type \in SignalsOf(s) THEN core.version[s] + 1 ELSE core.version[s]]
    BY <1>2, <2>1 DEF Spawn, ReadsInv, StoresTyped
  <2> QED
    BY <1>a, <1>2, <2>1, <2>2 DEF Spawn, Publish
<1>3. ASSUME NEW p \in Id, MoveStatus(p) PROVE OrderInv'
  BY <1>1, <1>3, DomainEvents DEF MoveStatus
<1>4. ASSUME NEW p \in Id, MoveReady(p) PROVE OrderInv'
  BY <1>1, <1>4, DomainEvents DEF MoveReady
<1>5. ASSUME NEW p \in Id, RemoveProcess(p) PROVE OrderInv'
  BY <1>1, <1>5, DomainEvents DEF RemoveProcess
<1>6. ASSUME NEW p \in Id, MoveActivity(p) PROVE OrderInv'
  BY <1>1, <1>6, DomainEvents DEF MoveActivity
<1>7. ASSUME NEW type \in {"AttentionChanged", "TodoChanged"}, Announce(type) PROVE OrderInv'
  BY <1>1, <1>7, DomainEvents DEF Announce
<1>8. CASE Lag
  <2>1. PICK i \in DOMAIN stream : stream' = [stream EXCEPT ![i] = Resync]
    BY <1>8 DEF Lag
  <2>2. stream' \in Seq(Wire) /\ i \in DOMAIN stream' /\ stream'[i] = Resync
    BY <1>0, <2>1, DomainEvents
  <2>3. Pending(stream')
    BY <2>2 DEF Pending, Resync
  <2>4. Stands /\ UNCHANGED <<missed, mounted, core, inflight>>
    BY <1>8 DEF Lag, Stands, projects
  <2> QED
    BY <2>2, <2>3, <2>4, OrderStands
<1> QED
  BY <1>2, <1>3, <1>4, <1>5, <1>6, <1>7, <1>8 DEF CoreStep

LEMMA OrderAnswer == ASSUME ReadsInv, OrderInv, Answer PROVE OrderInv'
<1>1. PICK r \in inflight :
        /\ r.answer = None
        /\ inflight' = (inflight \ {r}) \cup {[r EXCEPT !.answer = <<Snapshot(r.store)>>]}
  BY DEF Answer
<1>2. UNCHANGED <<core, store, stream, mounted, missed, arranged, reorders>>
  BY DEF Answer
<1> SUFFICES ASSUME NEW t, t = [r EXCEPT !.answer = <<Snapshot(r.store)>>]
             PROVE  OrderInv'
  OBVIOUS
<1>3. t = [store |-> r.store, gen |-> r.gen, answer |-> <<Snapshot(r.store)>>]
  BY DEF ReadsInv, RequestsTyped
<1>4. t.store = "projects" => t.answer[1] = core.version["projects"]
  BY <1>3 DEF Snapshot
<1>5. Stands /\ stream' \in Seq(Wire)
  BY <1>2 DEF Stands, projects, OrderInv
<1> QED
  BY <1>1, <1>2, <1>4, <1>5, OrderStands

\* The steps of the other stores.
LEMMA OrderOthers ==
  ASSUME ReadsInv, OrderInv,
         \/ AttachList \/ AttachBadges \/ ListAnswered \/ ListFailed \/ BadgesSeeded
         \/ AttachResync \/ UNCHANGED readModelVars
         \/ \E s \in Rereads : Attach(s) \/ StoreFailed(s)
         \/ StoreFailed("badges")
         \/ \E s \in Rereads \ {"projects"} : ReadOnMount(s) \/ Frame(s) \/ StoreAnswered(s)
  PROVE  OrderInv'
<1>1. UNCHANGED <<core, stream, mounted, missed, reorders>>
  BY DEF AttachList, AttachBadges, ListAnswered, ListFailed, BadgesSeeded, AttachResync,
         Attach, StoreFailed, ReadOnMount, Frame, StoreAnswered, readModelVars
<1>2. UNCHANGED arranged
  BY DEF AttachList, AttachBadges, ListAnswered, ListFailed, BadgesSeeded, AttachResync,
         Attach, StoreFailed, ReadOnMount, Frame, StoreAnswered, Shown, readModelVars
<1>3. \A r \in inflight' \ inflight : r.answer = None
  <2>1. ASSUME NEW s, NEW gen, Ask(s, gen) PROVE \A r \in inflight' \ inflight : r.answer = None
    BY <2>1 DEF Ask
  <2>2. (\E s, gen : Ask(s, gen)) \/ inflight' \subseteq inflight
    BY DEF AttachList, AttachBadges, ListAnswered, ListFailed, BadgesSeeded, AttachResync,
           Attach, StoreFailed, ReadOnMount, Frame, StoreAnswered, readModelVars
  <2> QED
    BY <2>1, <2>2
<1>4. "projects" \in mounted => Stands
  <2> SUFFICES ASSUME "projects" \in mounted PROVE Stands
    OBVIOUS
  <2>1. "projects" \in Rereads /\ store["projects"] \in Reread /\ store \in [Rereads -> Reread]
    BY ProjectsTyped DEF projects, ReadsInv, StoresTyped
  <2>2. \/ store'["projects"] = store["projects"]
        \/ store'["projects"] = [store["projects"] EXCEPT !.attached = TRUE]
    BY <2>1 DEF AttachList, AttachBadges, ListAnswered, ListFailed, BadgesSeeded,
         AttachResync, Attach, StoreFailed, ReadOnMount, Frame, StoreAnswered, Shown, readModelVars
  <2> QED
    BY <2>1, <2>2 DEF Stands, projects, Reread
<1>5. stream' \in Seq(Wire)
  BY <1>1 DEF OrderInv
<1> QED
  BY <1>1, <1>2, <1>3, <1>4, <1>5, OrderStands

\* The projects store asks on mount, and an answer lands or is dropped.
LEMMA OrderProjects ==
  ASSUME ReadsInv, OrderInv, "projects" \in Rereads,
         ReadOnMount("projects") \/ Frame("projects") \/ StoreAnswered("projects")
  PROVE  OrderInv'
<1>1. UNCHANGED <<core, stream, mounted, missed, reorders>> /\ stream' \in Seq(Wire)
  BY DEF ReadOnMount, Frame, StoreAnswered, OrderInv
<1>2. projects \in Reread /\ store \in [Rereads -> Reread]
  BY DEF ReadsInv, StoresTyped, projects
<1>3. CASE ReadOnMount("projects") \/ Frame("projects")
  <2>1. projects'.latest = projects.latest + 1 /\ projects'.landed = projects.landed
    BY <1>2, <1>3 DEF ReadOnMount, Frame, projects, Reread
  <2>2. \A r \in inflight' : r.answer # None => r \in inflight
    BY <1>3 DEF ReadOnMount, Frame, Ask
  <2>3. "projects" \in mounted => missed'["projects"] \in Nat
    BY <1>1 DEF OrderInv
  <2> QED
    BY <1>1, <2>1, <2>2, <2>3, OrderAsks
<1>4. CASE StoreAnswered("projects")
  <2>1. PICK r \in inflight :
          /\ r.store = "projects" /\ r.answer # None /\ inflight' = inflight \ {r}
          /\ IF Lands("projects", r.gen) THEN Shown("projects", r.gen, r.answer[1])
             ELSE UNCHANGED <<store, disk, arranged>>
    BY <1>4 DEF StoreAnswered, Mine
  <2>2. CASE ~Lands("projects", r.gen)
    BY <1>1, <2>1, <2>2, OrderStands DEF Stands, projects
  <2>3. CASE Lands("projects", r.gen)
    <3>1. r.gen = projects.latest
      BY <2>3 DEF Lands, Guarded, projects
    <3>2. /\ projects'.value = r.answer[1] /\ projects'.landed = projects.latest
          /\ projects'.latest = projects.latest /\ arranged' = None
      BY <1>2, <2>1, <2>3, <3>1 DEF Shown, projects, Reread
    <3>3. projects.latest \in Nat
      BY <1>2 DEF Reread
    <3> SUFFICES ASSUME "projects" \in mounted PROVE VersionCovered'
      BY <1>1, <3>2, <3>3 DEF OrderInv, ArrangementCovered
    <3>4. CASE Pending(stream) \/ Missed
      BY <1>1, <3>2, <3>4 DEF VersionCovered, Missed
    <3>5. CASE r.answer[1] = core.version["projects"]
      <4>1. ASSUME NEW q \in inflight', q.store = "projects", q.gen = projects'.latest
            PROVE  FALSE
        BY <2>1, <3>1, <3>2, <4>1 DEF ReadsInv, NumbersDiffer
      <4> QED
        BY <1>1, <3>2, <3>5, <4>1 DEF VersionCovered
    <3> QED
      BY <2>1, <3>1, <3>4, <3>5 DEF OrderInv, VersionCovered
  <2> QED
    BY <2>2, <2>3
<1> QED
  BY <1>3, <1>4

\* The arrangement is sent to the core, which applies or refuses it.
LEMMA OrderReorders ==
  ASSUME ReadsInv, OrderInv, Reorder \/ ReorderApplied \/ ReorderRefused
  PROVE  OrderInv'
<1>1. Stands /\ UNCHANGED <<inflight, mounted, missed>>
  BY DEF Reorder, ReorderApplied, ReorderRefused, Stands, projects
<1>2. stream \in Seq(Wire)
  BY DEF OrderInv
<1>3. CASE Reorder
  BY <1>1, <1>2, <1>3, OrderStands DEF Reorder
<1>4. CASE ReorderApplied
  <2> SUFFICES ASSUME NEW e, e = [type |-> "ProjectsReordered"] PROVE OrderInv'
    OBVIOUS
  <2>1. stream' = stream \o <<e>>
    BY <1>4 DEF ReorderApplied, Publish
  <2>2. e \in Wire /\ Awaited(e)
    BY DomainEvents DEF Awaited
  <2>3. stream' \in Seq(Wire) /\ Pending(stream')
    BY <1>2, <2>1, <2>2, PublishPends
  <2> QED
    BY <1>1, <2>3, OrderStands
<1>5. CASE ReorderRefused
  BY <1>1, <1>2, <1>5, OrderStands DEF ReorderRefused
<1> QED
  BY <1>3, <1>4, <1>5

\* An event that the store takes makes it ask, or gets past it.
LEMMA OrderEvent == ASSUME ReadsInv, OrderInv, DeliverEvent PROVE OrderInv'
<1> SUFFICES ASSUME NEW e, e = Head(stream) PROVE OrderInv'
  OBVIOUS
<1>1. /\ stream # <<>> /\ stream \in Seq(Wire) /\ e # Resync /\ stream' = Tail(stream)
      /\ UNCHANGED <<core, arranged, reorders, mounted>>
      /\ store' = StoresAfter(e) /\ inflight' = inflight \cup AskAll(Reasking(e))
  BY DEF DeliverEvent, OrderInv
<1>2. e \in Wire /\ stream' \in Seq(Wire) /\ (Pending(stream) /\ ~Awaited(e) => Pending(stream'))
  BY <1>1, DeliveryPends
<1>3. \A r \in inflight' : r.answer # None => r \in inflight
  BY <1>1 DEF AskAll
<1> SUFFICES ASSUME "projects" \in mounted PROVE OrderInv'
  BY <1>1, <1>2 DEF OrderInv
<1>4. /\ "projects" \in Rereads /\ projects \in Reread
      /\ missed["projects"] \in Nat
  BY ProjectsTyped DEF OrderInv
<1>5. "projects" \in Reasking(e) <=> projects.attached /\ e.type \in SignalsOf("projects")
  BY <1>1, <1>4 DEF Reasking, Coalesced, projects
<1>6. e.type \in SignalsOf("projects") <=> Awaited(e)
  BY <1>1, <1>2, DomainEvents DEF SignalsOf, Awaited, Wire
<1>7. missed'["projects"] = IF ~projects.attached /\ Awaited(e) THEN projects.latest
                            ELSE missed["projects"]
  BY <1>1, <1>4, <1>6 DEF DeliverEvent, Miss, Latest, Readers, projects
<1>8. CASE Awaited(e) /\ projects.attached
  <2>1. projects' = [projects EXCEPT !.latest = projects.latest + 1]
    BY <1>1, <1>4, <1>5, <1>6, <1>8 DEF StoresAfter, projects
  <2>2. projects'.latest = projects.latest + 1 /\ projects'.landed = projects.landed
    BY <1>4, <2>1 DEF Reread
  <2> QED
    BY <1>1, <1>2, <1>3, <1>4, <1>7, <1>8, <2>2, OrderAsks
<1>9. CASE ~(Awaited(e) /\ projects.attached)
  <2>1. Stands
    BY <1>1, <1>4, <1>5, <1>6, <1>9 DEF StoresAfter, projects, Stands, Coalesced
  <2>2. CASE Awaited(e)
    BY <1>1, <1>2, <1>7, <1>9, <2>1, <2>2, OrderMisses
  <2>3. CASE ~Awaited(e)
    BY <1>1, <1>2, <1>3, <1>7, <1>9, <2>1, <2>3, OrderStands
  <2> QED
    BY <2>2, <2>3
<1> QED
  BY <1>8, <1>9

\* A resync, or focus, makes it ask; a resync nobody listens for gets past it.
LEMMA OrderResync == ASSUME ReadsInv, OrderInv, DeliverResync \/ Focus PROVE OrderInv'
<1>1. stream' \in Seq(Wire) /\ UNCHANGED <<core, arranged, reorders, mounted>>
  <2>1. CASE DeliverResync
    BY <2>1, DeliveryPends DEF DeliverResync, RefreshAll, OrderInv
  <2>2. CASE Focus
    BY <2>2 DEF Focus, RefreshAll, OrderInv
  <2> QED
    BY <2>1, <2>2
<1> SUFFICES ASSUME "projects" \in mounted PROVE OrderInv'
  BY <1>1 DEF OrderInv
<1>2. /\ "projects" \in Rereads /\ projects \in Reread
      /\ missed["projects"] \in Nat
  BY ProjectsTyped DEF OrderInv
<1>3. CASE RefreshAll /\ missed'["projects"] = missed["projects"]
  <2>1. "projects" \in Reasking(Resync)
    BY <1>2 DEF Reasking, Reconciles
  <2>2. store' = StoresAfter(Resync)
    BY <1>3 DEF RefreshAll
  <2>3. projects' = [projects EXCEPT !.latest = projects.latest + 1]
    BY <1>2, <2>1, <2>2 DEF StoresAfter, projects
  <2>4. projects'.latest = projects.latest + 1 /\ projects'.landed = projects.landed
    BY <1>2, <2>3 DEF Reread
  <2>5. \A r \in inflight' : r.answer # None => r \in inflight
    BY <1>3 DEF RefreshAll, AskAll
  <2> QED
    BY <1>1, <1>2, <1>3, <2>4, <2>5, OrderAsks
<1>4. CASE UNCHANGED <<store, inflight>> /\ Miss(Readers)
  <2>1. missed'["projects"] = projects.latest
    BY <1>2, <1>4 DEF Miss, Latest, Readers, projects
  <2>2. Stands
    BY <1>4 DEF Stands, projects
  <2> QED
    BY <1>1, <2>1, <2>2, OrderMisses
<1>5. CASE Focus
  BY <1>3, <1>5 DEF Focus
<1>6. CASE DeliverResync
  <2>1. CASE list.reconciling
    <3>1. RefreshAll /\ Miss({"attention"} \cap Rereads)
      BY <1>6, <2>1 DEF DeliverResync
    <3>2. missed'["projects"] = missed["projects"]
      BY <1>2, <3>1 DEF Miss, Readers
    <3> QED
      BY <1>3, <3>1, <3>2
  <2>2. CASE ~list.reconciling
    BY <1>4, <1>6, <2>2 DEF DeliverResync
  <2> QED
    BY <2>1, <2>2
<1> QED
  BY <1>5, <1>6

LEMMA OrderStep == ReadsInv /\ OrderInv /\ [ReadModelNext]_readModelVars => OrderInv'
<1> SUFFICES ASSUME ReadsInv, OrderInv, [ReadModelNext]_readModelVars PROVE OrderInv'
  OBVIOUS
<1>1. ASSUME NEW s \in Rereads, ReadOnMount(s) \/ Frame(s) \/ StoreAnswered(s) PROVE OrderInv'
  <2>1. CASE s = "projects"
    BY <1>1, <2>1, OrderProjects
  <2>2. CASE s # "projects"
    BY <1>1, <2>2, OrderOthers
  <2> QED
    BY <2>1, <2>2
<1>2. ASSUME NEW s \in Rereads, Attach(s) PROVE OrderInv'
  BY <1>2, OrderOthers
<1>3. ASSUME NEW s \in Rereads \cup {"badges"}, StoreFailed(s) PROVE OrderInv'
  BY <1>3, OrderOthers
<1>4. CASE \/ AttachList \/ AttachBadges \/ ListAnswered \/ ListFailed \/ BadgesSeeded
           \/ AttachResync \/ UNCHANGED readModelVars
  BY <1>4, OrderOthers
<1> QED
  BY <1>1, <1>2, <1>3, <1>4, OrderCore, OrderAnswer, OrderReorders, OrderEvent, OrderResync
     DEF ReadModelNext, WindowStep

LEMMA OrderInit == ReadModelInit => OrderInv
<1> SUFFICES ASSUME ReadModelInit PROVE OrderInv
  OBVIOUS
<1>1. mounted \in Mounts /\ stream = <<>> /\ arranged = None
  BY DEF ReadModelInit
<1> SUFFICES ASSUME "projects" \in mounted
             PROVE  /\ missed["projects"] \in Nat /\ projects.landed <= projects.latest /\ Missed
  BY <1>1 DEF OrderInv, VersionCovered, ArrangementCovered
<1>2. "projects" \in Rereads
  BY <1>1, ReadModelAssumption
<1>3. projects.latest = 0 /\ projects.landed = 0 /\ missed["projects"] = 0
  BY <1>2 DEF ReadModelInit, projects, Readers
<1> QED
  BY <1>3 DEF Missed

\* Once its reads and its reorders have settled, the project list is the core's and
\* shows no arrangement of its own, however events were dropped or missed and answers
\* and refusals interleaved: whatever changes the core's order is followed by a read
\* that clears the arrangement (useProjects.ts, usePersistentSnapshot.ts).
THEOREM SettledOrderIsCoreHolds == ReadModelSpec => []SettledOrderIsCore
<1>1. ReadsInv /\ OrderInv => SettledOrderIsCore
  <2> SUFFICES ASSUME ReadsInv, OrderInv, "projects" \in mounted, reorders = {},
                      Settled("projects", store["projects"].landed)
               PROVE  store["projects"].value = core.version["projects"] /\ arranged = None
    BY DEF SettledOrderIsCore
  <2>1. /\ "projects" \in Rereads /\ projects.latest \in Nat /\ missed["projects"] \in Nat
    BY ProjectsTyped DEF OrderInv
  <2>2. projects.landed = projects.latest /\ projects.landed > missed["projects"]
    BY DEF Settled, Latest, projects
  <2>3. ~Pending(stream) /\ ~Missed
    BY <2>1, <2>2 DEF Settled, Pending, Missed
  <2> QED
    BY <2>2, <2>3 DEF OrderInv, VersionCovered, ArrangementCovered, projects
<1>2. ReadModelSpec => []ReadsInv
  BY ReadsInit, ReadsStep, PTL DEF ReadModelSpec
<1>3. ReadModelSpec => []OrderInv
  BY <1>2, OrderInit, OrderStep, PTL DEF ReadModelSpec
<1> QED
  BY <1>1, <1>2, <1>3, PTL

-----------------------------------------------------------------------------
(* The process list: what replaying events makes of its rows.              *)

Rows == [Id -> ProcessView \cup {None}]

\* The event changes the row of p.
Touches(e, p) == e.type \in SignalsOf("list") /\ e.id = p

\* What an event makes of one row.
RowAfter(b, e, p) ==
  IF ~Touches(e, p) THEN b
  ELSE IF e.type = "ProcessRemoved" THEN None
  ELSE IF b = None
  THEN IF e.type = "ProcessSpawned" THEN [status |-> e.status, ready |-> "Ungated"] ELSE None
  ELSE IF e.type = "ProcessStatusChanged" THEN [status |-> e.to, ready |-> b.ready]
  ELSE IF e.type = "ReadyStateChanged"
  THEN [status |-> b.status, ready |-> IF e.ready THEN "Ready" ELSE "Waiting"]
  ELSE b

\* The events of the list are typed by their names.
LEMMA EventTypes ==
  ASSUME NEW e \in Wire
  PROVE  /\ e.type = "ProcessSpawned" => e.id \in Id /\ e.status \in Status
         /\ e.type = "ProcessStatusChanged" => e.id \in Id /\ e.to \in Status
         /\ e.type = "ReadyStateChanged" => e.id \in Id /\ e.ready \in BOOLEAN
         /\ e.type = "ProcessRemoved" => e.id \in Id
<1>1. CASE e = Resync
  BY <1>1 DEF Resync
<1>2. CASE e \in DomainEvent
  BY <1>2 DEF DomainEvent
<1> QED
  BY <1>1, <1>2 DEF Wire

LEMMA Applied ==
  ASSUME NEW x \in Rows, NEW e \in Wire
  PROVE  /\ ApplyEvent(x, e) \in Rows
         /\ \A p \in Id : ApplyEvent(x, e)[p] = RowAfter(x[p], e, p)
<1>0. \A p : Touches(e, p) <=>
        /\ e.type \in {"ProcessSpawned", "ProcessStatusChanged", "ReadyStateChanged",
                       "ProcessRemoved"}
        /\ e.id = p
  BY DEF Touches, SignalsOf
<1>a. \A p \in Id : x[p] # None => /\ x[p] = [status |-> x[p].status, ready |-> x[p].ready]
                                  /\ x[p].status \in Status
                                  /\ x[p].ready \in {"Ungated", "Waiting", "Ready"}
  BY DEF Rows, ProcessView
<1>b. \A s \in Status, r \in {"Ungated", "Waiting", "Ready"} :
        [status |-> s, ready |-> r] \in ProcessView
  BY DEF ProcessView
<1>1. CASE e.type = "ProcessSpawned"
  <2>1. e.id \in Id /\ e.status \in Status
    BY <1>1, EventTypes
  <2>2. ApplyEvent(x, e) = IF x[e.id] # None THEN x
          ELSE [x EXCEPT ![e.id] = [status |-> e.status, ready |-> "Ungated"]]
    BY <1>1 DEF ApplyEvent
  <2> QED
    BY <1>0, <1>1, <1>b, <2>1, <2>2 DEF Rows, RowAfter
<1>2. CASE e.type = "ProcessStatusChanged"
  <2>1. e.id \in Id /\ e.to \in Status
    BY <1>2, EventTypes
  <2>2. CASE x[e.id] # None
    <3>1. ApplyEvent(x, e) = [x EXCEPT ![e.id].status = e.to]
      BY <1>2, <2>2 DEF ApplyEvent
    <3>2. ApplyEvent(x, e) = [x EXCEPT ![e.id] = [status |-> e.to, ready |-> x[e.id].ready]]
      BY <1>a, <2>1, <2>2, <3>1 DEF Rows
    <3>3. PICK t : t = [status |-> e.to, ready |-> x[e.id].ready]
      OBVIOUS
    <3>4. t \in ProcessView
      BY <1>a, <1>b, <2>1, <2>2, <3>3
    <3>5. ApplyEvent(x, e) \in Rows
      BY <2>1, <3>2, <3>3, <3>4 DEF Rows
    <3>6. ASSUME NEW p \in Id PROVE ApplyEvent(x, e)[p] = RowAfter(x[p], e, p)
      <4>1. ApplyEvent(x, e)[p] = IF p = e.id THEN t ELSE x[p]
        BY <3>2, <3>3 DEF Rows
      <4>2. RowAfter(x[e.id], e, e.id) = t
        BY <1>0, <1>2, <2>2, <3>3 DEF RowAfter
      <4>3. p # e.id => RowAfter(x[p], e, p) = x[p]
        BY <1>0 DEF RowAfter
      <4> QED
        BY <4>1, <4>2, <4>3
    <3> QED
      BY <3>5, <3>6
  <2>3. CASE x[e.id] = None
    <3>1. ApplyEvent(x, e) = x
      BY <1>2, <2>3 DEF ApplyEvent
    <3> QED
      BY <1>0, <1>2, <2>1, <2>3, <3>1 DEF Rows, RowAfter
  <2> QED
    BY <2>2, <2>3
<1>3. CASE e.type = "ReadyStateChanged"
  <2>1. e.id \in Id /\ e.ready \in BOOLEAN
    BY <1>3, EventTypes
  <2>2. CASE x[e.id] # None
    <3> SUFFICES ASSUME NEW v, v = IF e.ready THEN "Ready" ELSE "Waiting"
                 PROVE  /\ ApplyEvent(x, e) \in Rows
                        /\ \A p \in Id : ApplyEvent(x, e)[p] = RowAfter(x[p], e, p)
      OBVIOUS
    <3>1. ApplyEvent(x, e) = [x EXCEPT ![e.id].ready = v]
      BY <1>3, <2>2 DEF ApplyEvent
    <3>2. ApplyEvent(x, e) = [x EXCEPT ![e.id] = [status |-> x[e.id].status, ready |-> v]]
      BY <1>a, <2>1, <2>2, <3>1 DEF Rows
    <3>3. v \in {"Ungated", "Waiting", "Ready"}
      OBVIOUS
    <3>4. PICK t : t = [status |-> x[e.id].status, ready |-> v]
      OBVIOUS
    <3>5. t \in ProcessView
      BY <1>a, <1>b, <2>1, <2>2, <3>3, <3>4
    <3>6. ApplyEvent(x, e) \in Rows
      BY <2>1, <3>2, <3>4, <3>5 DEF Rows
    <3>7. ASSUME NEW p \in Id PROVE ApplyEvent(x, e)[p] = RowAfter(x[p], e, p)
      <4>1. ApplyEvent(x, e)[p] = IF p = e.id THEN t ELSE x[p]
        BY <3>2, <3>4 DEF Rows
      <4>2. RowAfter(x[e.id], e, e.id) = t
        BY <1>0, <1>3, <2>2, <3>4 DEF RowAfter
      <4>3. p # e.id => RowAfter(x[p], e, p) = x[p]
        BY <1>0 DEF RowAfter
      <4> QED
        BY <4>1, <4>2, <4>3
    <3> QED
      BY <3>6, <3>7
  <2>3. CASE x[e.id] = None
    <3>1. ApplyEvent(x, e) = x
      BY <1>3, <2>3 DEF ApplyEvent
    <3> QED
      BY <1>0, <1>3, <2>1, <2>3, <3>1 DEF Rows, RowAfter
  <2> QED
    BY <2>2, <2>3
<1>4. CASE e.type = "ProcessRemoved"
  <2>1. e.id \in Id /\ ApplyEvent(x, e) = [x EXCEPT ![e.id] = None]
    BY <1>4, EventTypes DEF ApplyEvent
  <2> QED
    BY <1>0, <1>4, <2>1 DEF Rows, RowAfter
<1>5. CASE e.type \notin {"ProcessSpawned", "ProcessStatusChanged", "ReadyStateChanged",
                          "ProcessRemoved"}
  <2>1. ApplyEvent(x, e) = x
    BY <1>5 DEF ApplyEvent
  <2> QED
    BY <1>0, <1>5, <2>1 DEF RowAfter
<1> QED
  BY <1>1, <1>2, <1>3, <1>4, <1>5

\* The rows after each of the events.
LEMMA ReplayStages ==
  ASSUME NEW x \in Rows, NEW es \in Seq(Wire)
  PROVE  \E f : /\ ReplayAll(x, es) = f[Len(es)]
                /\ f[0] = x
                /\ \A i \in 1..Len(es) : f[i] = ApplyEvent(f[i - 1], es[i])
                /\ \A i \in 0..Len(es) : f[i] \in Rows
<1>0. Len(es) \in Nat /\ \A i \in 1..Len(es) : es[i] \in Wire
  OBVIOUS
<1>1. PICK step : step = [i \in 1..Len(es) |-> [y \in Rows |-> ApplyEvent(y, es[i])]]
  OBVIOUS
<1>2. step \in [1..Len(es) -> [Rows -> Rows]]
  <2>1. \A i \in 1..Len(es) : \A y \in Rows : ApplyEvent(y, es[i]) \in Rows
    BY <1>0, Applied
  <2> QED
    BY <1>1, <2>1
<1>3. PICK f : Unfolds(f, Len(es), x, step) /\ \A i \in 0..Len(es) : f[i] \in Rows
  BY <1>0, <1>2, Recursion
<1> DEFINE Stages(g) ==
      g = [i \in 0..Len(es) |-> IF i = 0 THEN x ELSE ApplyEvent(g[i - 1], es[i])]
<1>4. Stages(f)
  <2>1. \A i \in 0..Len(es) : i # 0 => step[i][f[i - 1]] = ApplyEvent(f[i - 1], es[i])
    <3>1. \A i \in 0..Len(es) : i # 0 => i \in 1..Len(es) /\ f[i - 1] \in Rows
      BY <1>0, <1>3
    <3> QED
      BY <1>1, <3>1
  <2> QED
    BY <1>0, <1>3, <2>1 DEF Unfolds
<1>5. PICK g : g = CHOOSE h : Stages(h)
  OBVIOUS
<1>6. Stages(g) /\ ReplayAll(x, es) = g[Len(es)]
  <2>1. Stages(g)
    BY <1>4, <1>5
  <2>2. ReplayAll(x, es) = g[Len(es)]
    BY <1>5 DEF ReplayAll
  <2> QED
    BY <2>1, <2>2
<1>7. /\ g[0] = x
      /\ \A i \in 1..Len(es) : g[i] = ApplyEvent(g[i - 1], es[i])
  <2>1. 0 \in 0..Len(es) /\ \A i \in 1..Len(es) : i \in 0..Len(es) /\ i # 0
    BY <1>0
  <2>2. \A i \in 0..Len(es) : g[i] = IF i = 0 THEN x ELSE ApplyEvent(g[i - 1], es[i])
    BY <1>6, Zenon
  <2> QED
    BY <2>1, <2>2
<1> HIDE DEF Stages
<1>8. \A i \in 0..Len(es) : g[i] \in Rows
  <2> DEFINE T == {i \in 0..Len(es) : g[i] \in Rows}
  <2>1. 0 \in T
    BY <1>0, <1>7
  <2>2. ASSUME NEW i \in 1..Len(es), i - 1 \in T PROVE i \in T
    <3>1. g[i - 1] \in Rows /\ es[i] \in Wire /\ i \in 0..Len(es)
      BY <1>0, <2>2
    <3> QED
      BY <1>7, <3>1, Applied
  <2>3. \A i \in 0..Len(es) : i \in T
    <3> HIDE DEF T
    <3>1. \A i \in 1..Len(es) : i - 1 \in T => i \in T
      BY <2>2
    <3> QED
      BY <1>0, <2>1, <3>1, UpTo
  <2> QED
    BY <2>3
<1> QED
  BY <1>6, <1>7, <1>8

\* Replaying nothing; one event more at the end.
LEMMA ReplayEnds ==
  ASSUME NEW x \in Rows, NEW es \in Seq(Wire)
  PROVE  /\ ReplayAll(x, <<>>) = x
         /\ ReplayAll(x, es) \in Rows
         /\ \A e \in Wire : ReplayAll(x, Append(es, e)) = ApplyEvent(ReplayAll(x, es), e)
<1>0. Len(es) \in Nat /\ <<>> \in Seq(Wire)
  OBVIOUS
<1>1. PICK f : /\ ReplayAll(x, es) = f[Len(es)]
               /\ f[0] = x
               /\ \A i \in 1..Len(es) : f[i] = ApplyEvent(f[i - 1], es[i])
               /\ \A i \in 0..Len(es) : f[i] \in Rows
  BY ReplayStages
<1>2. ReplayAll(x, <<>>) = x
  <2>1. PICK b : b = <<>>
    OBVIOUS
  <2>2. b \in Seq(Wire) /\ Len(b) = 0
    BY <2>1
  <2>3. PICK g : /\ ReplayAll(x, b) = g[Len(b)]
                 /\ g[0] = x
                 /\ \A i \in 1..Len(b) : g[i] = ApplyEvent(g[i - 1], b[i])
                 /\ \A i \in 0..Len(b) : g[i] \in Rows
    BY <2>2, ReplayStages
  <2>4. ReplayAll(x, b) = x
    BY <2>2, <2>3
  <2> QED
    BY <2>1, <2>4
<1>3. ReplayAll(x, es) \in Rows
  BY <1>0, <1>1
<1>4. ASSUME NEW e \in Wire
      PROVE  ReplayAll(x, Append(es, e)) = ApplyEvent(ReplayAll(x, es), e)
  <2>1. PICK t : t = Append(es, e)
    OBVIOUS
  <2>2. /\ t \in Seq(Wire) /\ Len(t) = Len(es) + 1 /\ t[Len(es) + 1] = e
        /\ \A i \in 1..Len(es) : t[i] = es[i]
    BY <2>1
  <2>3. PICK g : /\ ReplayAll(x, t) = g[Len(t)]
                 /\ g[0] = x
                 /\ \A i \in 1..Len(t) : g[i] = ApplyEvent(g[i - 1], t[i])
                 /\ \A i \in 0..Len(t) : g[i] \in Rows
    BY <2>2, ReplayStages
  <2> DEFINE T == {i \in 0..Len(es) : g[i] = f[i]}
  <2>4. 0 \in T
    BY <1>0, <1>1, <2>3
  <2>5. ASSUME NEW i \in 1..Len(es), i - 1 \in T PROVE i \in T
    <3>1. i \in 1..Len(t) /\ i \in 0..Len(es) /\ g[i - 1] = f[i - 1]
      BY <1>0, <2>2, <2>5
    <3> QED
      BY <1>1, <2>2, <2>3, <3>1
  <2>6. Len(es) \in T
    <3> HIDE DEF T
    <3>1. \A i \in 1..Len(es) : i - 1 \in T => i \in T
      BY <2>5
    <3>2. \A i \in 0..Len(es) : i \in T
      BY <1>0, <2>4, <3>1, UpTo
    <3> QED
      BY <1>0, <3>2
  <2>7. PICK n : n = Len(es)
    OBVIOUS
  <2>8. n + 1 \in 1..Len(t) /\ (n + 1) - 1 = n /\ g[n] = f[n]
    BY <1>0, <2>2, <2>6, <2>7
  <2>9. g[n + 1] = ApplyEvent(g[n], e)
    BY <2>2, <2>3, <2>7, <2>8
  <2> QED
    BY <1>1, <2>1, <2>2, <2>3, <2>7, <2>8, <2>9
<1> QED
  BY <1>2, <1>3, <1>4

\* The first event is applied first.
LEMMA ReplayHead ==
  ASSUME NEW x \in Rows, NEW es \in Seq(Wire), es # <<>>
  PROVE  ReplayAll(x, es) = ReplayAll(ApplyEvent(x, Head(es)), Tail(es))
<1>1. PICK t : t = Tail(es)
  OBVIOUS
<1>2. /\ t \in Seq(Wire) /\ Len(t) \in Nat /\ Len(es) = Len(t) + 1
      /\ Head(es) = es[1] /\ es[1] \in Wire
      /\ \A i \in 1..Len(t) : t[i] = es[i + 1]
  BY <1>1
<1>3. PICK y : y = ApplyEvent(x, es[1])
  OBVIOUS
<1>4. y \in Rows
  BY <1>2, <1>3, Applied
<1>5. PICK f : /\ ReplayAll(x, es) = f[Len(es)]
               /\ f[0] = x
               /\ \A i \in 1..Len(es) : f[i] = ApplyEvent(f[i - 1], es[i])
  BY ReplayStages
<1>6. PICK g : /\ ReplayAll(y, t) = g[Len(t)]
               /\ g[0] = y
               /\ \A i \in 1..Len(t) : g[i] = ApplyEvent(g[i - 1], t[i])
  BY <1>2, <1>4, ReplayStages
<1> DEFINE T == {i \in 0..Len(t) : g[i] = f[i + 1]}
<1>7. 0 \in T
  <2>1. 1 \in 1..Len(es) /\ 1 - 1 = 0 /\ 0 + 1 = 1 /\ 0 \in 0..Len(t)
    BY <1>2
  <2>2. f[1] = ApplyEvent(f[0], es[1])
    BY <1>5, <2>1
  <2> QED
    BY <1>3, <1>5, <1>6, <2>1, <2>2
<1>8. ASSUME NEW i \in 1..Len(t), i - 1 \in T PROVE i \in T
  <2>1. i + 1 \in 1..Len(es) /\ (i + 1) - 1 = i /\ (i - 1) + 1 = i /\ i \in 0..Len(t)
    BY <1>2
  <2>2. g[i - 1] = f[i]
    BY <1>8, <2>1
  <2>3. f[i + 1] = ApplyEvent(f[i], es[i + 1])
    BY <1>5, <2>1
  <2>4. g[i] = ApplyEvent(g[i - 1], es[i + 1])
    BY <1>2, <1>6
  <2> QED
    BY <2>1, <2>2, <2>3, <2>4
<1>9. Len(t) \in T
  <2> HIDE DEF T
  <2>1. \A i \in 1..Len(t) : i - 1 \in T => i \in T
    BY <1>8
  <2>2. \A i \in 0..Len(t) : i \in T
    BY <1>2, <1>7, <2>1, UpTo
  <2> QED
    BY <1>2, <2>2
<1> QED
  BY <1>1, <1>2, <1>3, <1>5, <1>6, <1>9

\* Two rows are alike: both there or not, and the same in what is looked at.
Kind == {"there", "status", "ready", "whole"}
Alike(b, d, k) ==
  /\ b = None <=> d = None
  /\ k = "status" /\ b # None => b.status = d.status
  /\ k = "ready" /\ b # None => b.ready = d.ready
  /\ k = "whole" => b = d

LEMMA RowAlike ==
  ASSUME NEW b \in ProcessView \cup {None}, NEW d \in ProcessView \cup {None}, NEW k \in Kind,
         NEW e \in Wire, NEW p \in Id, Alike(b, d, k)
  PROVE  Alike(RowAfter(b, e, p), RowAfter(d, e, p), k)
<1>0. \A s, r : [status |-> s, ready |-> r].status = s /\ [status |-> s, ready |-> r].ready = r
  OBVIOUS
<1>1. CASE ~Touches(e, p) \/ e.type = "ProcessRemoved"
  BY <1>1 DEF RowAfter, Alike
<1>n. None \notin ProcessView
  BY ReadModelAssumption
<1>v. \A s \in Status, r \in {"Ungated", "Waiting", "Ready"} : [status |-> s, ready |-> r] # None
  BY <1>n DEF ProcessView
<1>2. CASE Touches(e, p) /\ e.type = "ProcessSpawned"
  BY <1>2, <1>v, EventTypes DEF RowAfter, Alike
<1>3. CASE Touches(e, p) /\ e.type = "ProcessStatusChanged"
  <2>1. CASE b = None
    BY <1>3, <2>1 DEF RowAfter, Alike
  <2>2. CASE b # None
    <3>1. d # None /\ b.ready \in {"Ungated", "Waiting", "Ready"}
          /\ d.ready \in {"Ungated", "Waiting", "Ready"} /\ e.to \in Status
      BY <1>3, <2>2, EventTypes DEF Alike, ProcessView
    <3>2. PICK v, w : v = [status |-> e.to, ready |-> b.ready] /\ w = [status |-> e.to, ready |-> d.ready]
      OBVIOUS
    <3>3. v # None /\ w # None /\ v.status = w.status
      BY <1>v, <3>1, <3>2
    <3>4. RowAfter(b, e, p) = v /\ RowAfter(d, e, p) = w
      BY <1>3, <2>2, <3>1, <3>2 DEF RowAfter
    <3>5. k \in {"ready", "whole"} => b.ready = d.ready
      BY <2>2 DEF Alike
    <3> QED
      BY <3>2, <3>3, <3>4, <3>5 DEF Alike
  <2> QED
    BY <2>1, <2>2
<1>4. CASE Touches(e, p) /\ e.type = "ReadyStateChanged"
  <2>1. CASE b = None
    BY <1>4, <2>1 DEF RowAfter, Alike
  <2>2. CASE b # None
    <3>0. PICK r : r = IF e.ready THEN "Ready" ELSE "Waiting"
      OBVIOUS
    <3>1. d # None /\ b.status \in Status /\ d.status \in Status
          /\ r \in {"Ungated", "Waiting", "Ready"}
      BY <2>2, <3>0 DEF Alike, ProcessView
    <3>2. PICK v, w : v = [status |-> b.status, ready |-> r] /\ w = [status |-> d.status, ready |-> r]
      OBVIOUS
    <3>3. v # None /\ w # None /\ v.ready = w.ready
      BY <1>v, <3>1, <3>2
    <3>4. RowAfter(b, e, p) = v /\ RowAfter(d, e, p) = w
      BY <1>4, <2>2, <3>0, <3>1, <3>2 DEF RowAfter
    <3>5. k \in {"status", "whole"} => b.status = d.status
      BY <2>2 DEF Alike
    <3> QED
      BY <3>2, <3>3, <3>4, <3>5 DEF Alike
  <2> QED
    BY <2>1, <2>2
<1> QED
  BY <1>1, <1>2, <1>3, <1>4 DEF Touches, SignalsOf

\* Rows that start out alike end alike.
Carries(x, y, v, w) ==
  \A p \in Id, k \in Kind : Alike(x[p], y[p], k) => Alike(v[p], w[p], k)

LEMMA ReplayCarries ==
  ASSUME NEW x \in Rows, NEW y \in Rows, NEW es \in Seq(Wire)
  PROVE  Carries(x, y, ReplayAll(x, es), ReplayAll(y, es))
<1>0. Len(es) \in Nat /\ \A i \in 1..Len(es) : es[i] \in Wire
  OBVIOUS
<1>1. PICK f : /\ ReplayAll(x, es) = f[Len(es)]
               /\ f[0] = x
               /\ \A i \in 1..Len(es) : f[i] = ApplyEvent(f[i - 1], es[i])
               /\ \A i \in 0..Len(es) : f[i] \in Rows
  BY ReplayStages
<1>2. PICK g : /\ ReplayAll(y, es) = g[Len(es)]
               /\ g[0] = y
               /\ \A i \in 1..Len(es) : g[i] = ApplyEvent(g[i - 1], es[i])
               /\ \A i \in 0..Len(es) : g[i] \in Rows
  BY ReplayStages
<1> DEFINE T == {i \in 0..Len(es) : Carries(x, y, f[i], g[i])}
<1>3. 0 \in T
  BY <1>0, <1>1, <1>2 DEF Carries
<1>4. ASSUME NEW i \in 1..Len(es), i - 1 \in T PROVE i \in T
  <2>1. PICK v, w : v = f[i - 1] /\ w = g[i - 1]
    OBVIOUS
  <2>2. /\ v \in Rows /\ w \in Rows /\ es[i] \in Wire /\ i \in 0..Len(es)
        /\ f[i] = ApplyEvent(v, es[i]) /\ g[i] = ApplyEvent(w, es[i])
        /\ Carries(x, y, v, w)
    <3>1. i - 1 \in 0..Len(es) /\ i \in 0..Len(es)
      BY <1>0
    <3> QED
      BY <1>0, <1>1, <1>2, <1>4, <2>1, <3>1
  <2>3. ASSUME NEW p \in Id, NEW k \in Kind, Alike(x[p], y[p], k) PROVE Alike(f[i][p], g[i][p], k)
    <3>1. v[p] \in ProcessView \cup {None} /\ w[p] \in ProcessView \cup {None}
      BY <2>2 DEF Rows
    <3>2. Alike(v[p], w[p], k)
      BY <2>2, <2>3 DEF Carries
    <3>3. f[i][p] = RowAfter(v[p], es[i], p) /\ g[i][p] = RowAfter(w[p], es[i], p)
      BY <2>2, Applied
    <3> QED
      BY <2>2, <3>1, <3>2, <3>3, RowAlike
  <2> QED
    BY <2>2, <2>3 DEF Carries
<1>5. Len(es) \in T
  <2> HIDE DEF T
  <2>1. \A i \in 1..Len(es) : i - 1 \in T => i \in T
    BY <1>4
  <2>2. \A i \in 0..Len(es) : i \in T
    BY <1>0, <1>3, <2>1, UpTo
  <2> QED
    BY <1>0, <2>2
<1> QED
  BY <1>1, <1>2, <1>5

\* No event is about the process.
Untouched(s, p) == \A i \in DOMAIN s : ~Touches(s[i], p)

LEMMA ReplayUntouched ==
  ASSUME NEW x \in Rows, NEW es \in Seq(Wire), NEW p \in Id, Untouched(es, p)
  PROVE  ReplayAll(x, es)[p] = x[p]
<1>0. Len(es) \in Nat /\ \A i \in 1..Len(es) : es[i] \in Wire /\ ~Touches(es[i], p)
  BY DEF Untouched
<1>1. PICK f : /\ ReplayAll(x, es) = f[Len(es)]
               /\ f[0] = x
               /\ \A i \in 1..Len(es) : f[i] = ApplyEvent(f[i - 1], es[i])
               /\ \A i \in 0..Len(es) : f[i] \in Rows
  BY ReplayStages
<1> DEFINE T == {i \in 0..Len(es) : f[i][p] = x[p]}
<1>3. 0 \in T
  BY <1>0, <1>1
<1>4. ASSUME NEW i \in 1..Len(es), i - 1 \in T PROVE i \in T
  <2>1. PICK v : v = f[i - 1]
    OBVIOUS
  <2>2. /\ v \in Rows /\ es[i] \in Wire /\ i \in 0..Len(es) /\ ~Touches(es[i], p)
        /\ f[i] = ApplyEvent(v, es[i]) /\ v[p] = x[p]
    <3>1. i - 1 \in 0..Len(es) /\ i \in 0..Len(es)
      BY <1>0
    <3> QED
      BY <1>0, <1>1, <1>4, <2>1, <3>1
  <2>3. f[i][p] = RowAfter(v[p], es[i], p)
    BY <2>2, Applied
  <2> QED
    BY <2>2, <2>3 DEF RowAfter
<1>5. Len(es) \in T
  <2> HIDE DEF T
  <2>1. \A i \in 1..Len(es) : i - 1 \in T => i \in T
    BY <1>4
  <2>2. \A i \in 0..Len(es) : i \in T
    BY <1>0, <1>3, <2>1, UpTo
  <2> QED
    BY <1>0, <2>2
<1> QED
  BY <1>1, <1>5

\* Agrees, of one row.
RowAgrees(b, c) ==
  IF b = None \/ c = None THEN b = c
  ELSE b.status = c.status /\ c.ready \in {b.ready, "Ungated"}

\* The core moves a row on and publishes the event.
RowMoves(b, c, e, p) ==
  IF ~Touches(e, p) THEN c = b
  ELSE \/ /\ e.type = "ProcessSpawned"
          /\ b = None /\ c = [status |-> e.status, ready |-> "Ungated"]
       \/ /\ e.type = "ProcessStatusChanged" /\ b # None
          /\ c = [status |-> e.to, ready |-> IF e.to = "Running" THEN b.ready ELSE "Ungated"]
       \/ /\ e.type = "ReadyStateChanged" /\ b # None
          /\ c = [status |-> b.status, ready |-> IF e.ready THEN "Ready" ELSE "Waiting"]
       \/ e.type = "ProcessRemoved" /\ c = None
Moves(c, d, e) == \A p \in Id : RowMoves(c[p], d[p], e, p)

LEMMA RowTyped ==
  /\ None \notin ProcessView
  /\ \A b \in ProcessView : b.status \in Status /\ b.ready \in {"Ungated", "Waiting", "Ready"}
  /\ \A s, r : [status |-> s, ready |-> r].status = s /\ [status |-> s, ready |-> r].ready = r
  /\ \A s \in Status, r \in {"Ungated", "Waiting", "Ready"} :
       [status |-> s, ready |-> r] \in ProcessView /\ [status |-> s, ready |-> r] # None
BY ReadModelAssumption DEF ProcessView

\* What agreed with the core agrees with it once the event is folded in, too.
LEMMA RowFollows ==
  ASSUME NEW b \in ProcessView \cup {None}, NEW c \in ProcessView \cup {None}, NEW d,
         NEW e \in Wire, NEW p \in Id, RowAgrees(b, c), RowMoves(c, d, e, p)
  PROVE  RowAgrees(RowAfter(b, e, p), d)
<1>0. PICK a : a = RowAfter(b, e, p)
  OBVIOUS
<1>1. CASE ~Touches(e, p)
  BY <1>1 DEF RowMoves, RowAfter
<1>2. CASE Touches(e, p) /\ e.type = "ProcessSpawned"
  <2>1. b = None /\ a = d
    BY <1>0, <1>2 DEF RowMoves, RowAfter, RowAgrees
  <2> QED
    BY <1>0, <2>1, <1>2, EventTypes, RowTyped DEF RowAgrees, RowMoves
<1>3. CASE Touches(e, p) /\ e.type = "ProcessStatusChanged"
  <2>1. b # None /\ c # None /\ e.to \in Status /\ c.ready \in {b.ready, "Ungated"}
    BY <1>3, EventTypes DEF RowMoves, RowAgrees
  <2>2. /\ a = [status |-> e.to, ready |-> b.ready]
        /\ d = [status |-> e.to, ready |-> IF e.to = "Running" THEN c.ready ELSE "Ungated"]
    BY <1>0, <1>3, <2>1 DEF RowMoves, RowAfter
  <2>3. /\ a.status = e.to /\ d.status = e.to /\ a.ready = b.ready
        /\ d.ready \in {b.ready, "Ungated"}
    BY <2>1, <2>2
  <2>4. a # None /\ d # None
    BY <2>1, <2>2, RowTyped
  <2> QED
    BY <1>0, <2>3, <2>4 DEF RowAgrees
<1>4. CASE Touches(e, p) /\ e.type = "ReadyStateChanged"
  <2>0. PICK r : r = IF e.ready THEN "Ready" ELSE "Waiting"
    OBVIOUS
  <2>1. b # None /\ c # None /\ b.status = c.status /\ r \in {"Ungated", "Waiting", "Ready"}
        /\ b.status \in Status
    BY <1>4, <2>0, RowTyped DEF RowMoves, RowAgrees
  <2>2. a = [status |-> b.status, ready |-> r] /\ d = [status |-> b.status, ready |-> r]
    BY <1>0, <1>4, <2>0, <2>1 DEF RowMoves, RowAfter
  <2>3. a # None /\ a = d /\ a.ready = r
    BY <2>1, <2>2, RowTyped
  <2> QED
    BY <1>0, <2>3 DEF RowAgrees
<1>5. CASE Touches(e, p) /\ e.type = "ProcessRemoved"
  BY <1>5 DEF RowMoves, RowAfter, RowAgrees
<1> QED
  BY <1>1, <1>2, <1>3, <1>4, <1>5 DEF Touches, SignalsOf

\* So does what is replayed on top of the moved row, if it agreed on top of the row.
RowCarries(b, c, v, w) == \A k \in Kind : Alike(b, c, k) => Alike(v, w, k)

LEMMA RowRepeats ==
  ASSUME NEW b \in ProcessView \cup {None}, NEW c \in ProcessView \cup {None},
         NEW v \in ProcessView \cup {None}, NEW w \in ProcessView \cup {None},
         NEW e \in Wire, NEW p \in Id,
         RowMoves(b, c, e, p), RowAgrees(v, b), RowCarries(b, c, v, w),
         Touches(e, p) /\ e.type = "ProcessSpawned" => w = c
  PROVE  RowAgrees(RowAfter(w, e, p), c)
<1>k. {"there", "status", "ready", "whole"} = Kind
  BY DEF Kind
<1>0. PICK a : a = RowAfter(w, e, p)
  OBVIOUS
<1>1. CASE ~Touches(e, p)
  <2>1. c = b /\ a = w
    BY <1>0, <1>1 DEF RowMoves, RowAfter
  <2>2. v = w
    BY <1>k, <2>1 DEF RowCarries, Alike
  <2> QED
    BY <1>0, <2>1, <2>2
<1>2. CASE Touches(e, p) /\ e.type = "ProcessSpawned"
  <2>1. w = c /\ c = [status |-> e.status, ready |-> "Ungated"] /\ e.status \in Status
    BY <1>2, EventTypes DEF RowMoves
  <2>2. c # None
    BY <2>1, RowTyped
  <2>3. a = c
    BY <1>0, <1>2, <2>1, <2>2 DEF RowAfter
  <2> QED
    BY <1>0, <2>1, <2>2, <2>3 DEF RowAgrees
<1>3. CASE Touches(e, p) /\ e.type = "ProcessStatusChanged"
  <2>1. b # None /\ v # None /\ e.to \in Status /\ b.ready \in {v.ready, "Ungated"}
    BY <1>3, EventTypes DEF RowMoves, RowAgrees
  <2>2. c = [status |-> e.to, ready |-> IF e.to = "Running" THEN b.ready ELSE "Ungated"]
    BY <1>3, <2>1 DEF RowMoves
  <2>3. c # None /\ c.status = e.to
        /\ c.ready = IF e.to = "Running" THEN b.ready ELSE "Ungated"
    BY <2>1, <2>2, RowTyped
  <2>4. w # None
    BY <1>k, <2>1, <2>3 DEF RowCarries, Alike
  <2>5. a = [status |-> e.to, ready |-> w.ready]
    BY <1>0, <1>3, <2>4 DEF RowAfter
  <2>6. a # None /\ a.status = e.to /\ a.ready = w.ready
    BY <2>1, <2>4, <2>5, RowTyped
  <2>7. e.to = "Running" => v.ready = w.ready
    <3>1. e.to = "Running" => Alike(b, c, "ready")
      BY <2>1, <2>3 DEF Alike
    <3>2. e.to = "Running" => Alike(v, w, "ready")
      BY <1>k, <3>1 DEF RowCarries
    <3> QED
      BY <2>1, <3>2 DEF Alike
  <2> QED
    BY <1>0, <2>1, <2>3, <2>6, <2>7 DEF RowAgrees
<1>4. CASE Touches(e, p) /\ e.type = "ReadyStateChanged"
  <2>0. PICK r : r = IF e.ready THEN "Ready" ELSE "Waiting"
    OBVIOUS
  <2>1. b # None /\ v # None /\ v.status = b.status /\ r \in {"Ungated", "Waiting", "Ready"}
        /\ b.status \in Status
    BY <1>4, <2>0, RowTyped DEF RowMoves, RowAgrees
  <2>2. c = [status |-> b.status, ready |-> r]
    BY <1>4, <2>0, <2>1 DEF RowMoves
  <2>3. c # None /\ c.status = b.status /\ c.ready = r
    BY <2>1, <2>2, RowTyped
  <2>4. Alike(b, c, "status")
    BY <2>1, <2>3 DEF Alike
  <2>5. Alike(v, w, "status")
    BY <1>k, <2>4 DEF RowCarries
  <2>6. w # None /\ w.status = b.status
    BY <2>1, <2>5 DEF Alike
  <2>7. a = [status |-> b.status, ready |-> r]
    BY <1>0, <1>4, <2>0, <2>6 DEF RowAfter
  <2> QED
    BY <1>0, <2>2, <2>3, <2>7 DEF RowAgrees
<1>5. CASE Touches(e, p) /\ e.type = "ProcessRemoved"
  BY <1>5 DEF RowMoves, RowAfter, RowAgrees
<1> QED
  BY <1>1, <1>2, <1>3, <1>4, <1>5 DEF Touches, SignalsOf

LEMMA FollowsMove ==
  ASSUME NEW x \in Rows, NEW c \in Rows, NEW d \in Rows, NEW e \in Wire,
         Agrees(x, c), Moves(c, d, e)
  PROVE  Agrees(ApplyEvent(x, e), d)
<1>1. ASSUME NEW p \in Id PROVE RowAgrees(ApplyEvent(x, e)[p], d[p])
  <2>1. PICK rx, rc, rd : rx = x[p] /\ rc = c[p] /\ rd = d[p]
    OBVIOUS
  <2>2. rx \in ProcessView \cup {None} /\ rc \in ProcessView \cup {None}
    BY <2>1 DEF Rows
  <2>3. RowAgrees(rx, rc)
    BY <2>1 DEF Agrees, RowAgrees
  <2>4. RowMoves(rc, rd, e, p)
    BY <2>1 DEF Moves
  <2>5. RowAgrees(RowAfter(rx, e, p), rd)
    BY <2>2, <2>3, <2>4, RowFollows
  <2>6. ApplyEvent(x, e)[p] = RowAfter(rx, e, p)
    BY <2>1, Applied
  <2> QED
    BY <2>1, <2>5, <2>6
<1> QED
  BY <1>1 DEF Agrees, RowAgrees

LEMMA RepeatsMove ==
  ASSUME NEW v \in Rows, NEW w \in Rows, NEW c \in Rows, NEW d \in Rows, NEW e \in Wire,
         Agrees(v, c), Moves(c, d, e), Carries(c, d, v, w),
         \A p \in Id : Touches(e, p) /\ e.type = "ProcessSpawned" => w[p] = d[p]
  PROVE  Agrees(ApplyEvent(w, e), d)
<1>1. ASSUME NEW p \in Id PROVE RowAgrees(ApplyEvent(w, e)[p], d[p])
  <2>1. PICK rv, rw, rc, rd : rv = v[p] /\ rw = w[p] /\ rc = c[p] /\ rd = d[p]
    OBVIOUS
  <2>2. /\ rv \in ProcessView \cup {None} /\ rc \in ProcessView \cup {None}
        /\ rw \in ProcessView \cup {None} /\ rd \in ProcessView \cup {None}
    BY <2>1 DEF Rows
  <2>3. RowAgrees(rv, rc)
    BY <2>1 DEF Agrees, RowAgrees
  <2>4. RowMoves(rc, rd, e, p)
    BY <2>1 DEF Moves
  <2>5. RowCarries(rc, rd, rv, rw)
    BY <2>1 DEF Carries, RowCarries
  <2>6. Touches(e, p) /\ e.type = "ProcessSpawned" => rw = rd
    BY <2>1
  <2>7. RowAgrees(RowAfter(rw, e, p), rd)
    BY <2>2, <2>3, <2>4, <2>5, <2>6, RowRepeats
  <2>8. ApplyEvent(w, e)[p] = RowAfter(rw, e, p)
    BY <2>1, Applied
  <2> QED
    BY <2>1, <2>7, <2>8
<1> QED
  BY <1>1 DEF Agrees, RowAgrees

LEMMA AgreesItself == ASSUME NEW c \in Rows PROVE Agrees(c, c)
BY DEF Agrees

\* What is left of a sequence behind its k-th element.
From(s, k) == [i \in 1..(Len(s) - k) |-> s[k + i]]

\* No dropped event is among them.
Unbroken(s) == \A i \in DOMAIN s : s[i] # Resync

\* Replaying what is left of the stream on top of the core changes nothing, wherever
\* one starts: the core has those events behind it.
Resumes(c, s) ==
  \A k \in 0..Len(s) : Unbroken(From(s, k)) => Agrees(ReplayAll(c, From(s, k)), c)

LEMMA SameSequence ==
  ASSUME NEW q \in Seq(Wire), NEW r \in Seq(Wire), NEW n, Len(q) = n, Len(r) = n,
         \A i \in 1..n : q[i] = r[i]
  PROVE  q = r
OBVIOUS

LEMMA FromTyped ==
  ASSUME NEW s \in Seq(Wire), NEW k \in 0..Len(s)
  PROVE  /\ From(s, k) \in Seq(Wire) /\ Len(From(s, k)) = Len(s) - k
         /\ \A i \in 1..(Len(s) - k) : From(s, k)[i] = s[k + i]
         /\ k = 0 => From(s, k) = s
<1>1. Len(s) \in Nat /\ Len(s) - k \in Nat /\ \A i \in 1..(Len(s) - k) : k + i \in 1..Len(s)
  OBVIOUS
<1>2. From(s, k) \in [1..(Len(s) - k) -> Wire]
  BY <1>1 DEF From
<1>3. From(s, k) \in Seq(Wire) /\ Len(From(s, k)) = Len(s) - k
  BY <1>1, <1>2
<1>4. \A i \in 1..(Len(s) - k) : From(s, k)[i] = s[k + i]
  BY DEF From
<1>5. k = 0 => From(s, k) = s
  <2> SUFFICES ASSUME k = 0 PROVE From(s, k) = s
    OBVIOUS
  <2>1. Len(From(s, k)) = Len(s) /\ \A i \in 1..Len(s) : From(s, k)[i] = s[i]
    BY <1>1, <1>3, <1>4
  <2>2. PICK q : q = From(s, k)
    OBVIOUS
  <2>3. q \in Seq(Wire) /\ Len(q) = Len(s) /\ \A i \in 1..Len(s) : q[i] = s[i]
    BY <1>3, <2>1, <2>2
  <2> QED
    BY <2>2, <2>3
<1> QED
  BY <1>3, <1>4, <1>5

LEMMA ResumesWhole ==
  ASSUME NEW c \in Rows, NEW s \in Seq(Wire), Resumes(c, s), Unbroken(s)
  PROVE  Agrees(ReplayAll(c, s), c)
<1>1. 0 \in 0..Len(s)
  OBVIOUS
<1>2. From(s, 0) = s
  BY <1>1, FromTyped
<1> QED
  BY <1>1, <1>2 DEF Resumes

LEMMA ResumesTail ==
  ASSUME NEW c \in Rows, NEW s \in Seq(Wire), s # <<>>, Resumes(c, s)
  PROVE  /\ Tail(s) \in Seq(Wire) /\ Head(s) \in Wire
         /\ Resumes(c, Tail(s))
         /\ Unbroken(Tail(s)) /\ Head(s) # Resync => Unbroken(s)
<1>1. PICK t : t = Tail(s)
  OBVIOUS
<1>2. /\ t \in Seq(Wire) /\ Len(t) \in Nat /\ Len(s) = Len(t) + 1 /\ Head(s) \in Wire
      /\ Head(s) = s[1] /\ \A i \in 1..Len(t) : t[i] = s[i + 1]
  BY <1>1
<1>3. ASSUME NEW k \in 0..Len(t), Unbroken(From(t, k)) PROVE Agrees(ReplayAll(c, From(t, k)), c)
  <2>1. k + 1 \in 0..Len(s) /\ Len(s) - (k + 1) = Len(t) - k
    BY <1>2
  <2>2. PICK q : q = From(s, k + 1)
    OBVIOUS
  <2>3. PICK r : r = From(t, k)
    OBVIOUS
  <2>4. r \in Seq(Wire) /\ Len(r) = Len(t) - k /\ \A i \in 1..(Len(t) - k) : r[i] = t[k + i]
    BY <1>2, <2>3, FromTyped
  <2>5. q \in Seq(Wire) /\ Len(q) = Len(t) - k /\ \A i \in 1..(Len(t) - k) : q[i] = s[(k + 1) + i]
    <3>1. q \in Seq(Wire) /\ Len(q) = Len(s) - (k + 1)
      BY <2>1, <2>2, FromTyped
    <3>2. \A i \in 1..(Len(s) - (k + 1)) : q[i] = s[(k + 1) + i]
      BY <2>1, <2>2, FromTyped
    <3> QED
      BY <2>1, <3>1, <3>2
  <2>6. \A i \in 1..(Len(t) - k) : q[i] = r[i]
    <3> TAKE i \in 1..(Len(t) - k)
    <3>1. k + i \in 1..Len(t) /\ (k + i) + 1 = (k + 1) + i
      BY <1>2
    <3> QED
      BY <1>2, <2>4, <2>5, <3>1
  <2>7. q = r
    BY <2>4, <2>5, <2>6, SameSequence
  <2> QED
    BY <1>3, <2>1, <2>2, <2>3, <2>7 DEF Resumes
<1>4. ASSUME Unbroken(t), Head(s) # Resync PROVE Unbroken(s)
  <2>1. ASSUME NEW i \in DOMAIN s PROVE s[i] # Resync
    <3>1. i = 1 \/ (i - 1 \in 1..Len(t) /\ s[i] = t[i - 1])
      BY <1>2
    <3> QED
      BY <1>2, <1>4, <3>1 DEF Unbroken
  <2> QED
    BY <2>1 DEF Unbroken
<1> QED
  BY <1>1, <1>2, <1>3, <1>4 DEF Resumes

\* The bus drops an event: only what is behind it can still be resumed from.
LEMMA ResumesBroken ==
  ASSUME NEW c \in Rows, NEW s \in Seq(Wire), Resumes(c, s), NEW j \in DOMAIN s,
         NEW t, t = [s EXCEPT ![j] = Resync]
  PROVE  t \in Seq(Wire) /\ Resumes(c, t) /\ ~Unbroken(t) /\ DOMAIN t = DOMAIN s
<1>1. /\ t \in Seq(Wire) /\ Len(t) = Len(s) /\ DOMAIN t = DOMAIN s
      /\ t[j] = Resync /\ \A i \in 1..Len(s) : i # j => t[i] = s[i]
  BY DEF Wire
<1>2. ~Unbroken(t)
  BY <1>1 DEF Unbroken
<1>3. ASSUME NEW k \in 0..Len(t), Unbroken(From(t, k)) PROVE Agrees(ReplayAll(c, From(t, k)), c)
  <2>1. PICK q, r : q = From(s, k) /\ r = From(t, k)
    OBVIOUS
  <2>a. k \in 0..Len(s)
    BY <1>1
  <2>2. q \in Seq(Wire) /\ Len(q) = Len(s) - k /\ \A i \in 1..(Len(s) - k) : q[i] = s[k + i]
    BY <2>a, <2>1, FromTyped
  <2>3. r \in Seq(Wire) /\ Len(r) = Len(s) - k /\ \A i \in 1..(Len(s) - k) : r[i] = t[k + i]
    <3>1. t \in Seq(Wire) /\ Len(t) = Len(s)
      BY <1>1
    <3>2. /\ From(t, k) \in Seq(Wire) /\ Len(From(t, k)) = Len(t) - k
          /\ \A i \in 1..(Len(t) - k) : From(t, k)[i] = t[k + i]
      BY <3>1, FromTyped
    <3> QED
      BY <2>1, <3>1, <3>2
  <2>4. \A i \in 1..(Len(s) - k) : k + i \in 1..Len(s) /\ k + i # j
    <3> TAKE i \in 1..(Len(s) - k)
    <3>1. k + i \in 1..Len(s)
      BY <1>1
    <3>2. i \in DOMAIN r
      BY <2>3
    <3>3. r[i] # Resync
      BY <1>3, <2>1, <3>2 DEF Unbroken
    <3> QED
      BY <1>1, <2>3, <3>1, <3>3
  <2>5. q = r
    <3>1. PICK m : m = Len(s) - k
      OBVIOUS
    <3>2. Len(q) = m /\ Len(r) = m /\ \A i \in 1..m : q[i] = r[i]
      BY <1>1, <2>2, <2>3, <2>4, <3>1
    <3> QED
      BY <2>2, <2>3, <3>2, SameSequence
  <2> QED
    BY <1>1, <1>3, <2>1, <2>5 DEF Resumes
<1> QED
  BY <1>1, <1>2, <1>3 DEF Resumes

\* The core moves on; the process of a spawn is a new one.
IsNews(e, s) == \A p \in Id : Touches(e, p) /\ e.type = "ProcessSpawned" => Untouched(s, p)

LEMMA AppendTyped ==
  ASSUME NEW s \in Seq(Wire), NEW e \in Wire, NEW t, t = Append(s, e)
  PROVE  /\ t \in Seq(Wire) /\ Len(t) = Len(s) + 1 /\ t[Len(s) + 1] = e
         /\ \A i \in 1..Len(s) : t[i] = s[i]
         /\ Unbroken(t) => Unbroken(s)
         /\ \A p : Untouched(t, p) <=> Untouched(s, p) /\ ~Touches(e, p)
<1>1. /\ t \in Seq(Wire) /\ Len(s) \in Nat /\ Len(t) = Len(s) + 1 /\ t[Len(s) + 1] = e
      /\ \A i \in 1..Len(s) : t[i] = s[i]
      /\ DOMAIN s = 1..Len(s) /\ DOMAIN t = 1..(Len(s) + 1)
  OBVIOUS
<1>2. \A i \in DOMAIN t : i = Len(s) + 1 \/ i \in DOMAIN s
  BY <1>1
<1>3. \A i \in DOMAIN s : i \in DOMAIN t /\ t[i] = s[i]
  BY <1>1
<1>4. Len(s) + 1 \in DOMAIN t
  BY <1>1
<1>5. Unbroken(t) => Unbroken(s)
  BY <1>3 DEF Unbroken
<1>6. ASSUME NEW p PROVE Untouched(t, p) <=> Untouched(s, p) /\ ~Touches(e, p)
  BY <1>1, <1>2, <1>3, <1>4 DEF Untouched
<1> QED
  BY <1>1, <1>5, <1>6

LEMMA ReplayMoves ==
  ASSUME NEW c \in Rows, NEW d \in Rows, NEW v \in Rows, NEW w \in Rows, NEW q \in Seq(Wire),
         NEW e \in Wire, Moves(c, d, e), Carries(c, d, v, w), IsNews(e, q),
         Agrees(ReplayAll(v, q), c),
         \A p \in Id : Touches(e, p) /\ e.type = "ProcessSpawned" => w[p] = d[p]
  PROVE  Agrees(ReplayAll(w, Append(q, e)), d)
<1>1. PICK y, z : y = ReplayAll(v, q) /\ z = ReplayAll(w, q)
  OBVIOUS
<1>2. /\ y \in Rows /\ z \in Rows /\ Carries(v, w, y, z)
      /\ ReplayAll(w, Append(q, e)) = ApplyEvent(z, e)
  BY <1>1, ReplayEnds, ReplayCarries
<1>3. Carries(c, d, y, z)
  BY <1>2 DEF Carries
<1>4. \A p \in Id : Touches(e, p) /\ e.type = "ProcessSpawned" => z[p] = d[p]
  BY <1>1, ReplayUntouched DEF IsNews
<1> QED
  BY <1>1, <1>2, <1>3, <1>4, RepeatsMove

LEMMA ResumesMove ==
  ASSUME NEW c \in Rows, NEW d \in Rows, NEW s \in Seq(Wire), NEW e \in Wire,
         Resumes(c, s), Moves(c, d, e), IsNews(e, s)
  PROVE  Resumes(d, Append(s, e))
<1>1. PICK t : t = Append(s, e)
  OBVIOUS
<1>2. PICK n : n = Len(s)
  OBVIOUS
<1>3. /\ t \in Seq(Wire) /\ n \in Nat /\ Len(t) = n + 1 /\ t[n + 1] = e
      /\ \A i \in 1..n : t[i] = s[i]
  BY <1>1, <1>2, AppendTyped
<1>4. ASSUME NEW k \in 0..(n + 1), Unbroken(From(t, k)) PROVE Agrees(ReplayAll(d, From(t, k)), d)
  <2>1. PICK r : r = From(t, k)
    OBVIOUS
  <2>2. r \in Seq(Wire) /\ Len(r) = (n + 1) - k /\ \A i \in 1..((n + 1) - k) : r[i] = t[k + i]
    <3>1. k \in 0..Len(t) /\ (n + 1) - k = Len(t) - k
      BY <1>3
    <3>2. r \in Seq(Wire) /\ Len(r) = Len(t) - k /\ \A i \in 1..(Len(t) - k) : r[i] = t[k + i]
      BY <1>3, <2>1, <3>1, FromTyped
    <3> QED
      BY <3>1, <3>2
  <2>3. CASE k = n + 1
    <3>1. r = <<>>
      BY <1>3, <2>2, <2>3
    <3> QED
      BY <2>1, <2>2, <3>1, ReplayEnds, AgreesItself
  <2>4. CASE k \in 0..n
    <3>1. PICK q : q = From(s, k)
      OBVIOUS
    <3>2. q \in Seq(Wire) /\ Len(q) = n - k /\ \A i \in 1..(n - k) : q[i] = s[k + i]
      BY <1>2, <2>4, <3>1, FromTyped
    <3>3. PICK u : u = Append(q, e)
      OBVIOUS
    <3>4. /\ u \in Seq(Wire) /\ Len(u) = (n - k) + 1 /\ u[(n - k) + 1] = e
          /\ \A i \in 1..(n - k) : u[i] = q[i]
      BY <3>2, <3>3, AppendTyped
    <3>5. (n - k) + 1 = (n + 1) - k /\ n - k \in Nat /\ k + ((n - k) + 1) = n + 1
      BY <1>3, <2>4
    <3>6. \A i \in 1..((n + 1) - k) : u[i] = r[i]
      <4> TAKE i \in 1..((n + 1) - k)
      <4>1. CASE i = (n - k) + 1
        <5>1. u[i] = e
          BY <3>4, <4>1
        <5>2. r[i] = t[n + 1]
          <6>1. r[i] = t[k + i] /\ k + i = n + 1
            BY <2>2, <3>5, <4>1
          <6> QED
            BY <6>1
        <5> QED
          BY <1>3, <5>1, <5>2
      <4>2. CASE i \in 1..(n - k)
        <5>1. k + i \in 1..n
          BY <1>3, <2>4, <4>2
        <5> QED
          BY <1>3, <2>2, <3>2, <3>4, <4>2, <5>1
      <4> QED
        BY <1>3, <2>4, <4>1, <4>2
    <3>7. r = u
      <4>1. PICK m : m = (n + 1) - k
        OBVIOUS
      <4>2. Len(r) = m /\ Len(u) = m /\ \A i \in 1..m : u[i] = r[i]
        BY <2>2, <3>4, <3>5, <3>6, <4>1
      <4>3. r \in Seq(Wire) /\ u \in Seq(Wire)
        BY <2>2, <3>4
      <4> QED
        BY <4>2, <4>3, SameSequence
    <3>8. Unbroken(q)
      BY <1>4, <2>1, <3>2, <3>3, <3>7, AppendTyped
    <3>9. Agrees(ReplayAll(c, q), c)
      BY <1>2, <2>4, <3>1, <3>8 DEF Resumes
    <3>10. IsNews(e, q)
      <4>1. ASSUME NEW p, Untouched(s, p) PROVE Untouched(q, p)
        <5>1. ASSUME NEW i \in DOMAIN q PROVE ~Touches(q[i], p)
          <6>1. i \in 1..(n - k) /\ k + i \in DOMAIN s
            BY <1>2, <1>3, <2>4, <3>2, <5>1
          <6> QED
            BY <3>2, <4>1, <6>1 DEF Untouched
        <5> QED
          BY <5>1 DEF Untouched
      <4> QED
        BY <4>1 DEF IsNews
    <3>11. Carries(c, d, c, d)
      BY DEF Carries
    <3>12. Agrees(ReplayAll(d, Append(q, e)), d)
      BY <3>2, <3>9, <3>10, <3>11, ReplayMoves
    <3> QED
      BY <2>1, <3>3, <3>7, <3>12
  <2>5. k = n + 1 \/ k \in 0..n
    BY <1>3
  <2> QED
    BY <2>3, <2>4, <2>5
<1> QED
  BY <1>1, <1>3, <1>4 DEF Resumes

-----------------------------------------------------------------------------
(* The process list: what settles is the core's.                           *)

ListRecord == [rows : Rows, buffer : Seq(Wire), fetching : BOOLEAN, gen : Nat,
               attached : BOOLEAN, reconciling : BOOLEAN, error : BOOLEAN, landed : Nat]

ListTypes ==
  /\ core = [procs |-> core.procs, used |-> core.used, activity |-> core.activity,
             version |-> core.version]
  /\ core.procs \in Rows
  /\ list \in ListRecord /\ Len(list.buffer) <= BufferCap
  /\ stream \in Seq(Wire)
  /\ missed["list"] \in Nat

\* The list's requests are told apart by their generation; the latest is under way
\* only while the list is fetching, and then it has not landed.
ListNumbers ==
  /\ list.attached => "list" \in mounted
  /\ list.landed <= list.gen /\ missed["list"] <= list.gen
  /\ list.fetching => list.landed < list.gen
  /\ \A r \in inflight : r.store = "list" =>
       /\ r = [store |-> r.store, gen |-> r.gen, answer |-> r.answer]
       /\ r.gen \in Nat /\ r.gen <= list.gen
       /\ r.gen = list.gen => list.fetching
       /\ r.answer # None => r.answer[1] \in Rows
  /\ \A q, r \in inflight : q.store = "list" /\ r.store = "list" /\ q.gen = r.gen => q = r

\* A process that was never spawned is in no row of the core's and in no event.
ListNews ==
  \A p \in Id \ core.used :
    core.procs[p] = None /\ Untouched(stream, p) /\ Untouched(list.buffer, p)

\* Every event since the latest request is in the buffer, in the rows or on its way.
Covered == list.attached /\ list.gen > missed["list"] /\ Unbroken(stream)

\* With the events to come, what an answer given now would show is the core's...
BufferRepeats ==
  Covered /\ list.fetching =>
    Agrees(ReplayAll(ReplayAll(core.procs, list.buffer), stream), core.procs)

\* ...so is what the latest answer will show...
AnswerLeads ==
  \A r \in inflight :
    Covered /\ r.store = "list" /\ r.gen = list.gen /\ r.answer # None =>
      Agrees(ReplayAll(ReplayAll(r.answer[1], list.buffer), stream), core.procs)

\* ...and what is shown since it landed.
RowsLead ==
  Covered /\ list.landed = list.gen => Agrees(ReplayAll(list.rows, stream), core.procs)

ListInv ==
  /\ ListTypes /\ ListNumbers /\ ListNews /\ Resumes(core.procs, stream)
  /\ BufferRepeats /\ AnswerLeads /\ RowsLead

LEMMA ListTyped ==
  ASSUME list \in ListRecord
  PROVE  /\ list.rows \in Rows /\ list.buffer \in Seq(Wire) /\ list.fetching \in BOOLEAN
         /\ list.gen \in Nat /\ list.attached \in BOOLEAN /\ list.landed \in Nat
BY DEF ListRecord

\* The list and what is on its way to it stay as they are, and its requests may end.
LEMMA ListStands ==
  ASSUME ListInv, UNCHANGED <<core, stream>>, missed'["list"] = missed["list"],
         list' \in ListRecord,
         list'.rows = list.rows, list'.buffer = list.buffer, list'.fetching = list.fetching,
         list'.gen = list.gen, list'.attached = list.attached, list'.landed = list.landed,
         "list" \in mounted => "list" \in mounted',
         \A r \in inflight' : r.store = "list" => r \in inflight
  PROVE  ListInv'
<1>1. ListTypes'
  BY DEF ListInv, ListTypes
<1>2. ListNumbers'
  BY DEF ListInv, ListNumbers
<1>3. ListNews'
  BY DEF ListInv, ListNews
<1>4. Resumes(core.procs, stream)'
  BY DEF ListInv
<1>5. BufferRepeats'
  BY DEF ListInv, BufferRepeats, Covered
<1>6. AnswerLeads'
  BY DEF ListInv, AnswerLeads, Covered
<1>7. RowsLead'
  BY DEF ListInv, RowsLead, Covered
<1> QED
  BY <1>1, <1>2, <1>3, <1>4, <1>5, <1>6, <1>7 DEF ListInv

\* The core moves on and publishes the event.
LEMMA ListCore ==
  ASSUME ListInv, NEW e \in Wire, UNCHANGED <<list, inflight, mounted, missed>>,
         core' = [procs |-> core'.procs, used |-> core'.used, activity |-> core'.activity,
                  version |-> core'.version],
         core'.procs \in Rows, core.used \subseteq core'.used,
         Moves(core.procs, core'.procs, e), stream' = Append(stream, e),
         \A p \in Id : Touches(e, p) => p \in core'.used,
         \A p \in Id : Touches(e, p) /\ e.type = "ProcessSpawned" => p \notin core.used
  PROVE  ListInv'
<1>1. /\ core.procs \in Rows /\ stream \in Seq(Wire) /\ list.buffer \in Seq(Wire)
      /\ list.rows \in Rows /\ list \in ListRecord
  BY ListTyped DEF ListInv, ListTypes
<1>2. /\ stream' \in Seq(Wire)
      /\ Unbroken(stream') => Unbroken(stream)
      /\ \A p : Untouched(stream', p) <=> Untouched(stream, p) /\ ~Touches(e, p)
  BY <1>1, AppendTyped
<1>3. IsNews(e, stream) /\ IsNews(e, list.buffer)
  BY DEF ListInv, ListNews, IsNews
<1>4. ListTypes' /\ ListNumbers'
  BY <1>2 DEF ListInv, ListTypes, ListNumbers
<1>5. ListNews'
  <2>1. \A p \in Id \ core'.used : ~Touches(e, p) /\ core'.procs[p] = core.procs[p]
    BY DEF Moves, RowMoves
  <2> QED
    BY <1>2, <2>1 DEF ListInv, ListNews
<1>6. Resumes(core.procs, stream)'
  BY <1>1, <1>3, ResumesMove DEF ListInv
<1>7. Covered' => Covered
  <2>1. list' = list /\ missed' = missed
    OBVIOUS
  <2> QED
    BY <1>2, <2>1 DEF Covered
<1>8. BufferRepeats'
  <2> SUFFICES ASSUME Covered, list.fetching
               PROVE  Agrees(ReplayAll(ReplayAll(core'.procs, list.buffer), stream'), core'.procs)
    BY <1>7 DEF BufferRepeats
  <2>1. PICK v, w : v = ReplayAll(core.procs, list.buffer) /\ w = ReplayAll(core'.procs, list.buffer)
    OBVIOUS
  <2>2. v \in Rows /\ w \in Rows /\ Carries(core.procs, core'.procs, v, w)
    BY <1>1, <2>1, ReplayEnds, ReplayCarries
  <2>3. Agrees(ReplayAll(v, stream), core.procs)
    BY <2>1 DEF ListInv, BufferRepeats
  <2>4. \A p \in Id : Touches(e, p) /\ e.type = "ProcessSpawned" => w[p] = core'.procs[p]
    BY <1>1, <1>3, <2>1, ReplayUntouched DEF IsNews
  <2> QED
    BY <1>1, <1>3, <2>1, <2>2, <2>3, <2>4, ReplayMoves
<1>9. ASSUME NEW x \in Rows, Agrees(ReplayAll(x, stream), core.procs)
      PROVE  Agrees(ReplayAll(x, stream'), core'.procs)
  <2>1. PICK y : y = ReplayAll(x, stream)
    OBVIOUS
  <2>2. y \in Rows /\ ReplayAll(x, stream') = ApplyEvent(y, e)
    BY <1>1, <2>1, ReplayEnds
  <2> QED
    BY <1>1, <1>9, <2>1, <2>2, FollowsMove
<1>10. AnswerLeads'
  <2> SUFFICES ASSUME NEW r \in inflight, Covered, r.store = "list", r.gen = list.gen,
                      r.answer # None
               PROVE  Agrees(ReplayAll(ReplayAll(r.answer[1], list.buffer), stream'), core'.procs)
    BY <1>7 DEF AnswerLeads
  <2>1. PICK x : x = ReplayAll(r.answer[1], list.buffer)
    OBVIOUS
  <2>2. x \in Rows /\ Agrees(ReplayAll(x, stream), core.procs)
    BY <1>1, <2>1, ReplayEnds DEF ListInv, ListNumbers, AnswerLeads
  <2> QED
    BY <1>9, <2>1, <2>2
<1>11. RowsLead'
  BY <1>1, <1>7, <1>9 DEF ListInv, RowsLead
<1> QED
  BY <1>4, <1>5, <1>6, <1>8, <1>10, <1>11 DEF ListInv

\* The list is not covered: it shows what it shows until it asks again.
LEMMA ListMisses ==
  ASSUME ListInv, UNCHANGED core, ListTypes', ListNumbers', ~Covered',
         Resumes(core.procs, stream'),
         \A p : Untouched(stream, p) => Untouched(stream', p),
         \A p : Untouched(stream, p) /\ Untouched(list.buffer, p) => Untouched(list'.buffer, p)
  PROVE  ListInv'
<1>1. ListNews'
  BY DEF ListInv, ListNews
<1>2. BufferRepeats' /\ AnswerLeads' /\ RowsLead'
  BY DEF BufferRepeats, AnswerLeads, RowsLead
<1> QED
  BY <1>1, <1>2 DEF ListInv

\* The list asks again: nothing that comes after the answer is lost.
LEMMA ListAsks ==
  ASSUME ListInv, UNCHANGED core, missed'["list"] = missed["list"],
         list' \in ListRecord, list'.gen = list.gen + 1, list'.fetching, list'.buffer = <<>>,
         list'.landed = list.landed, list'.attached => "list" \in mounted',
         stream' \in Seq(Wire), Resumes(core.procs, stream'),
         \A p : Untouched(stream, p) => Untouched(stream', p),
         \A r \in inflight' : r.store = "list" =>
           r \in inflight \/ r = [store |-> "list", gen |-> list.gen + 1, answer |-> None]
  PROVE  ListInv'
<1>1. /\ list.gen \in Nat /\ list.landed \in Nat /\ missed["list"] \in Nat
      /\ list.landed <= list.gen /\ missed["list"] <= list.gen /\ core.procs \in Rows
  BY ListTyped DEF ListInv, ListTypes, ListNumbers
<1>2. PICK n : n = list.gen + 1
  OBVIOUS
<1>3. n \in Nat /\ n > list.gen /\ list'.gen = n /\ list'.landed < n
  BY <1>1, <1>2
<1>4. ListTypes'
  <2>1. Len(<<>>) <= BufferCap
    BY ReadModelAssumption
  <2> QED
    BY <1>1, <2>1 DEF ListInv, ListTypes
<1>5. \A r \in inflight' : r.store = "list" =>
        \/ r \in inflight /\ r.gen \in Nat /\ r.gen < n
        \/ r = [store |-> "list", gen |-> n, answer |-> None]
  BY <1>1, <1>2, <1>3 DEF ListInv, ListNumbers
<1>6. ASSUME NEW r \in inflight', r.store = "list"
      PROVE  /\ r = [store |-> r.store, gen |-> r.gen, answer |-> r.answer]
             /\ r.gen \in Nat /\ r.gen <= n /\ (r.answer # None => r.gen < n /\ r.answer[1] \in Rows)
  <2>1. CASE r \in inflight /\ r.gen \in Nat /\ r.gen < n
    BY <1>3, <1>6, <2>1 DEF ListInv, ListNumbers
  <2>2. CASE r = [store |-> "list", gen |-> n, answer |-> None]
    BY <1>3, <2>2
  <2> QED
    BY <1>5, <1>6, <2>1, <2>2
<1>7. ASSUME NEW q \in inflight', NEW r \in inflight', q.store = "list", r.store = "list",
             q.gen = r.gen
      PROVE  q = r
  <2>1. CASE q \in inflight /\ r \in inflight
    BY <1>7, <2>1 DEF ListInv, ListNumbers
  <2>2. CASE ~(q \in inflight /\ r \in inflight)
    <3>1. q.gen = n /\ r.gen = n
      BY <1>3, <1>5, <1>7, <2>2
    <3> QED
      BY <1>3, <1>5, <1>7, <3>1
  <2> QED
    BY <2>1, <2>2
<1>8. ListNumbers'
  <2>1. list'.landed <= n /\ missed'["list"] <= n
    BY <1>1, <1>3
  <2> QED
    BY <1>3, <1>6, <1>7, <2>1 DEF ListNumbers
<1>9. ListNews'
  <2>1. \A p : Untouched(<<>>, p)
    BY DEF Untouched
  <2> QED
    BY <2>1 DEF ListInv, ListNews
<1>10. BufferRepeats'
  <2>1. <<>> \in Seq(Wire)
    OBVIOUS
  <2>2. ReplayAll(core.procs, <<>>) = core.procs
    BY <1>1, <2>1, ReplayEnds
  <2> QED
    BY <1>1, <2>2, ResumesWhole DEF BufferRepeats, Covered
<1>11. AnswerLeads'
  <2>1. \A r \in inflight' : r.store = "list" /\ r.gen = n => r.answer = None
    BY <1>3, <1>6
  <2> QED
    BY <1>3, <2>1 DEF AnswerLeads
<1>12. RowsLead'
  <2>1. list'.landed # list'.gen
    BY <1>1, <1>3
  <2> QED
    BY <2>1 DEF RowsLead
<1> QED
  BY <1>4, <1>8, <1>9, <1>10, <1>11, <1>12 DEF ListInv

LEMMA TailTyped ==
  ASSUME NEW s \in Seq(Wire), s # <<>>, NEW t, t = Tail(s)
  PROVE  /\ t \in Seq(Wire) /\ Head(s) \in Wire /\ Len(t) = Len(s) - 1
         /\ \A p : Untouched(s, p) => Untouched(t, p) /\ ~Touches(Head(s), p)
<1>1. /\ t \in Seq(Wire) /\ Len(t) \in Nat /\ Len(s) = Len(t) + 1
      /\ Head(s) = s[1] /\ s[1] \in Wire /\ \A i \in 1..Len(t) : t[i] = s[i + 1]
  OBVIOUS
<1>2. 1 \in DOMAIN s /\ \A i \in DOMAIN t : i + 1 \in DOMAIN s /\ t[i] = s[i + 1]
  BY <1>1
<1>3. ASSUME NEW p, Untouched(s, p) PROVE Untouched(t, p) /\ ~Touches(Head(s), p)
  BY <1>1, <1>2, <1>3 DEF Untouched
<1> QED
  BY <1>1, <1>3

\* A change the core makes to a process it has, or to none.
LEMMA ListChanges ==
  ASSUME ListInv, NEW procs \in Rows, NEW activity, NEW e \in Wire,
         Changed(procs, activity, e), Moves(core.procs, procs, e),
         \A p \in Id : Touches(e, p) => core.procs[p] # None /\ e.type # "ProcessSpawned"
  PROVE  ListInv'
<1>1. stream \in Seq(Wire)
      /\ core = [procs |-> core.procs, used |-> core.used, activity |-> core.activity,
                 version |-> core.version]
  BY DEF ListInv, ListTypes
<1>2. stream' = Append(stream, e)
  BY <1>1 DEF Changed, Publish
<1>3. PICK v : core' = [core EXCEPT !.procs = procs, !.activity = activity, !.version = v]
  BY DEF Changed
<1>4. /\ core'.procs = procs /\ core'.used = core.used
      /\ core' = [procs |-> core'.procs, used |-> core'.used, activity |-> core'.activity,
                  version |-> core'.version]
  BY <1>1, <1>3
<1>5. UNCHANGED <<list, inflight, mounted, missed>>
  BY DEF Changed
<1>6. \A p \in Id : Touches(e, p) => p \in core.used
  BY DEF ListInv, ListNews
<1> QED
  BY <1>2, <1>4, <1>5, <1>6, ListCore

LEMMA ListSpawn == ASSUME ListInv, NEW p \in Id, Spawn(p) PROVE ListInv'
<1>1. stream \in Seq(Wire) /\ core.procs \in Rows
      /\ core = [procs |-> core.procs, used |-> core.used, activity |-> core.activity,
                 version |-> core.version]
  BY DEF ListInv, ListTypes
<1>2. PICK e : e = [type |-> "ProcessSpawned", id |-> p, status |-> "Starting"]
  OBVIOUS
<1>3. /\ e \in Wire /\ e.type = "ProcessSpawned" /\ e.id = p /\ e.status = "Starting"
      /\ \A q : Touches(e, q) <=> q = p
  BY <1>2, DomainEvents DEF Wire, Touches, SignalsOf
<1>4. stream' = Append(stream, e)
  BY <1>1, <1>2 DEF Spawn, Publish
<1>5. PICK b : b = [status |-> "Starting", ready |-> "Ungated"]
  OBVIOUS
<1>6. PICK v : core' = [core EXCEPT !.used = core.used \cup {p},
                                    !.procs = [core.procs EXCEPT ![p] = b], !.version = v]
  BY <1>1, <1>5 DEF Spawn
<1>7. /\ core'.procs = [core.procs EXCEPT ![p] = b] /\ core'.used = core.used \cup {p}
      /\ core' = [procs |-> core'.procs, used |-> core'.used, activity |-> core'.activity,
                  version |-> core'.version]
  BY <1>1, <1>6
<1>8. UNCHANGED <<list, inflight, mounted, missed>> /\ p \notin core.used
  BY DEF Spawn
<1>9. core.procs[p] = None
  BY <1>8 DEF ListInv, ListNews
<1>10. b \in ProcessView
  BY <1>5 DEF ProcessView, Status
<1>11. core'.procs \in Rows
  BY <1>1, <1>7, <1>10 DEF Rows
<1>12. Moves(core.procs, core'.procs, e)
  <2> SUFFICES ASSUME NEW q \in Id PROVE RowMoves(core.procs[q], core'.procs[q], e, q)
    BY DEF Moves
  <2>1. core'.procs[q] = IF q = p THEN b ELSE core.procs[q]
    BY <1>1, <1>7 DEF Rows
  <2> QED
    BY <1>3, <1>5, <1>9, <2>1 DEF RowMoves
<1> QED
  BY <1>3, <1>4, <1>7, <1>8, <1>11, <1>12, ListCore

LEMMA ListMoveStatus == ASSUME ListInv, NEW p \in Id, MoveStatus(p) PROVE ListInv'
<1>1. core.procs \in Rows /\ core.procs[p] # None
  BY DEF ListInv, ListTypes, MoveStatus
<1>2. PICK to \in Status :
        Changed([core.procs EXCEPT ![p].status = to,
                                   ![p].ready = IF to = "Running" THEN @ ELSE "Ungated"],
                [core.activity EXCEPT ![p] = IF to = "Running" THEN @ ELSE None],
                [type |-> "ProcessStatusChanged", id |-> p, to |-> to])
  BY DEF MoveStatus
<1>3. PICK e : e = [type |-> "ProcessStatusChanged", id |-> p, to |-> to]
  OBVIOUS
<1>a. PICK procs :
        procs = [core.procs EXCEPT ![p].status = to,
                                   ![p].ready = IF to = "Running" THEN @ ELSE "Ungated"]
  OBVIOUS
<1>b. PICK activity :
        activity = [core.activity EXCEPT ![p] = IF to = "Running" THEN @ ELSE None]
  OBVIOUS
<1>c. Changed(procs, activity, e)
  BY <1>2, <1>3, <1>a, <1>b
<1>4. /\ e \in Wire /\ e.type = "ProcessStatusChanged" /\ e.id = p /\ e.to = to
      /\ \A q : Touches(e, q) <=> q = p
  BY <1>3, DomainEvents DEF Wire, Touches, SignalsOf
<1>5. PICK b : b = core.procs[p]
  OBVIOUS
<1>6. PICK c : c = [status |-> to, ready |-> IF to = "Running" THEN b.ready ELSE "Ungated"]
  OBVIOUS
<1>7. b \in ProcessView
  BY <1>1, <1>5 DEF Rows
<1>8. c \in ProcessView
  BY <1>6, <1>7 DEF ProcessView
<1>9. procs = [core.procs EXCEPT ![p] = c]
  <2>1. b = [status |-> b.status, ready |-> b.ready]
    BY <1>7 DEF ProcessView
  <2> QED
    BY <1>1, <1>5, <1>6, <1>a, <2>1 DEF Rows
<1>10. procs \in Rows
  BY <1>1, <1>8, <1>9 DEF Rows
<1>11. Moves(core.procs, procs, e)
  <2> SUFFICES ASSUME NEW q \in Id PROVE RowMoves(core.procs[q], procs[q], e, q)
    BY DEF Moves
  <2>1. procs[q] = IF q = p THEN c ELSE core.procs[q]
    BY <1>1, <1>9 DEF Rows
  <2> QED
    BY <1>1, <1>4, <1>5, <1>6, <2>1 DEF RowMoves
<1> QED
  BY <1>1, <1>4, <1>10, <1>11, <1>c, ListChanges

LEMMA ListMoveReady == ASSUME ListInv, NEW p \in Id, MoveReady(p) PROVE ListInv'
<1>1. core.procs \in Rows /\ core.procs[p] # None
  BY DEF ListInv, ListTypes, MoveReady
<1>2. PICK ready \in BOOLEAN :
        Changed([core.procs EXCEPT ![p].ready = IF ready THEN "Ready" ELSE "Waiting"],
                core.activity, [type |-> "ReadyStateChanged", id |-> p, ready |-> ready])
  BY DEF MoveReady
<1>3. PICK e : e = [type |-> "ReadyStateChanged", id |-> p, ready |-> ready]
  OBVIOUS
<1>4. /\ e \in Wire /\ e.type = "ReadyStateChanged" /\ e.id = p /\ e.ready = ready
      /\ \A q : Touches(e, q) <=> q = p
  BY <1>3, DomainEvents DEF Wire, Touches, SignalsOf
<1>5. PICK procs : procs = [core.procs EXCEPT ![p].ready = IF ready THEN "Ready" ELSE "Waiting"]
  OBVIOUS
<1>6. PICK b, r : b = core.procs[p] /\ r = IF ready THEN "Ready" ELSE "Waiting"
  OBVIOUS
<1>7. PICK c : c = [status |-> b.status, ready |-> r]
  OBVIOUS
<1>8. b \in ProcessView
  BY <1>1, <1>6 DEF Rows
<1>9. c \in ProcessView
  BY <1>6, <1>7, <1>8 DEF ProcessView
<1>10. procs = [core.procs EXCEPT ![p] = c]
  <2>1. b = [status |-> b.status, ready |-> b.ready]
    BY <1>8 DEF ProcessView
  <2>2. procs = [core.procs EXCEPT ![p].ready = r]
    BY <1>5, <1>6
  <2> QED
    BY <1>1, <1>6, <1>7, <2>1, <2>2 DEF Rows
<1>11. procs \in Rows
  BY <1>1, <1>9, <1>10 DEF Rows
<1>12. Moves(core.procs, procs, e)
  <2> SUFFICES ASSUME NEW q \in Id PROVE RowMoves(core.procs[q], procs[q], e, q)
    BY DEF Moves
  <2>1. procs[q] = IF q = p THEN c ELSE core.procs[q]
    BY <1>1, <1>10 DEF Rows
  <2> QED
    BY <1>1, <1>4, <1>6, <1>7, <2>1 DEF RowMoves
<1> QED
  BY <1>1, <1>2, <1>3, <1>4, <1>5, <1>11, <1>12, ListChanges

LEMMA ListRemove == ASSUME ListInv, NEW p \in Id, RemoveProcess(p) PROVE ListInv'
<1>1. core.procs \in Rows /\ core.procs[p] # None
  BY DEF ListInv, ListTypes, RemoveProcess
<1>2. PICK e : e = [type |-> "ProcessRemoved", id |-> p]
  OBVIOUS
<1>3. e \in Wire /\ e.type = "ProcessRemoved" /\ e.id = p /\ \A q : Touches(e, q) <=> q = p
  BY <1>2, DomainEvents DEF Wire, Touches, SignalsOf
<1>4. PICK procs, activity : procs = [core.procs EXCEPT ![p] = None] /\ Changed(procs, activity, e)
  BY <1>2 DEF RemoveProcess
<1>5. procs \in Rows /\ \A q \in Id : procs[q] = IF q = p THEN None ELSE core.procs[q]
  BY <1>1, <1>4 DEF Rows
<1>6. Moves(core.procs, procs, e)
  BY <1>3, <1>5 DEF Moves, RowMoves
<1> QED
  BY <1>1, <1>3, <1>4, <1>5, <1>6, ListChanges

\* Changes the list has no part in.
LEMMA ListApart ==
  ASSUME ListInv, NEW e \in Wire, e.type \notin SignalsOf("list"), NEW activity,
         Changed(core.procs, activity, e)
  PROVE  ListInv'
<1>1. core.procs \in Rows
  BY DEF ListInv, ListTypes
<1>2. \A p : ~Touches(e, p)
  BY DEF Touches
<1>3. Moves(core.procs, core.procs, e)
  BY <1>2 DEF Moves, RowMoves
<1> QED
  BY <1>1, <1>2, <1>3, ListChanges

LEMMA ListReorderApplied == ASSUME ListInv, ReorderApplied PROVE ListInv'
<1>1. stream \in Seq(Wire) /\ core.procs \in Rows
      /\ core = [procs |-> core.procs, used |-> core.used, activity |-> core.activity,
                 version |-> core.version]
  BY DEF ListInv, ListTypes
<1>2. PICK e : e = [type |-> "ProjectsReordered"]
  OBVIOUS
<1>3. e \in Wire /\ \A p : ~Touches(e, p)
  BY <1>2, DomainEvents DEF Wire, Touches, SignalsOf
<1>4. stream' = Append(stream, e)
  BY <1>1, <1>2 DEF ReorderApplied, Publish
<1>5. PICK v : core' = [core EXCEPT !.version = v]
  BY <1>1 DEF ReorderApplied
<1>6. /\ core'.procs = core.procs /\ core'.used = core.used
      /\ core' = [procs |-> core'.procs, used |-> core'.used, activity |-> core'.activity,
                  version |-> core'.version]
  BY <1>1, <1>5
<1>7. UNCHANGED <<list, inflight, mounted, missed>>
  BY DEF ReorderApplied
<1>8. Moves(core.procs, core'.procs, e)
  BY <1>3, <1>6 DEF Moves, RowMoves
<1> QED
  BY <1>1, <1>3, <1>4, <1>6, <1>7, <1>8, ListCore

LEMMA ListLag == ASSUME ListInv, Lag PROVE ListInv'
<1>1. PICK j \in DOMAIN stream : stream' = [stream EXCEPT ![j] = Resync]
  BY DEF Lag
<1>2. stream \in Seq(Wire) /\ core.procs \in Rows /\ Resumes(core.procs, stream)
  BY DEF ListInv, ListTypes
<1>3. /\ stream' \in Seq(Wire) /\ Resumes(core.procs, stream') /\ ~Unbroken(stream')
      /\ DOMAIN stream' = DOMAIN stream
  BY <1>1, <1>2, ResumesBroken
<1>4. UNCHANGED <<core, list, inflight, mounted, missed>>
  BY DEF Lag
<1>5. \A p : Untouched(stream, p) => Untouched(stream', p)
  <2>1. \A p : ~Touches(Resync, p)
    BY DEF Touches, Resync, SignalsOf
  <2>2. \A i \in DOMAIN stream' : stream'[i] = Resync \/ stream'[i] = stream[i]
    BY <1>1, <1>2, <1>3
  <2> QED
    BY <1>3, <2>1, <2>2 DEF Untouched
<1>6. ListTypes' /\ ListNumbers' /\ ~Covered'
  BY <1>3, <1>4 DEF ListInv, ListTypes, ListNumbers, Covered
<1> QED
  BY <1>3, <1>4, <1>5, <1>6, ListMisses

\* What the steps of the list make of its record.
Fetches(m, l, n, b) == m = [l EXCEPT !.gen = n, !.fetching = TRUE, !.buffer = b]
Shows(m, l, x, b, n) ==
  m = [l EXCEPT !.rows = x, !.buffer = b, !.fetching = FALSE, !.landed = n]
GoesOn(m, l) ==
  m.gen = l.gen /\ m.fetching = l.fetching /\ m.landed = l.landed /\ m.attached = l.attached
Folds(m, l, x) == m = [l EXCEPT !.rows = x]
Buffers(m, l, b) == m = [l EXCEPT !.buffer = b]

LEMMA Fetched ==
  ASSUME NEW l \in ListRecord, NEW n \in Nat, NEW b \in Seq(Wire), NEW m, Fetches(m, l, n, b)
  PROVE  /\ m \in ListRecord /\ m.gen = n /\ m.fetching /\ m.buffer = b
         /\ m.landed = l.landed
BY DEF ListRecord, Fetches

LEMMA Showed ==
  ASSUME NEW l \in ListRecord, NEW x \in Rows, NEW b \in Seq(Wire), NEW n \in Nat, NEW m,
         Shows(m, l, x, b, n)
  PROVE  /\ m \in ListRecord /\ m.rows = x /\ m.buffer = b /\ ~m.fetching
         /\ m.landed = n /\ m.gen = l.gen /\ m.attached = l.attached
BY DEF ListRecord, Shows

LEMMA Folded ==
  ASSUME NEW l \in ListRecord, NEW x \in Rows, NEW m, Folds(m, l, x)
  PROVE  /\ m \in ListRecord /\ m.rows = x /\ m.buffer = l.buffer /\ GoesOn(m, l)
BY DEF ListRecord, Folds, GoesOn

LEMMA Buffered ==
  ASSUME NEW l \in ListRecord, NEW b \in Seq(Wire), NEW m, Buffers(m, l, b)
  PROVE  /\ m \in ListRecord /\ m.rows = l.rows /\ m.buffer = b /\ GoesOn(m, l)
BY DEF ListRecord, Buffers, GoesOn

\* Steps of the other stores: they may ask, be answered or fail.
LEMMA ListOthers ==
  ASSUME ListInv,
         \/ AttachBadges \/ BadgesSeeded \/ AttachResync \/ Reorder \/ ReorderRefused
         \/ UNCHANGED readModelVars
         \/ \E s \in Rereads : Attach(s) \/ ReadOnMount(s) \/ Frame(s) \/ StoreAnswered(s)
         \/ \E s \in Rereads \cup {"badges"} : StoreFailed(s)
  PROVE  ListInv'
<1>1. UNCHANGED <<core, stream, mounted, missed>>
  BY DEF AttachBadges, BadgesSeeded, AttachResync, Reorder, ReorderRefused, readModelVars,
         Attach, ReadOnMount, Frame, StoreAnswered, StoreFailed
<1>2. list' = list \/ list' = [list EXCEPT !.reconciling = TRUE]
  BY DEF AttachBadges, BadgesSeeded, AttachResync, Reorder, ReorderRefused, readModelVars,
         Attach, ReadOnMount, Frame, StoreAnswered, StoreFailed
<1>3. ASSUME NEW r \in inflight', r.store = "list" PROVE r \in inflight
  <2>1. ASSUME NEW s, NEW n, s # "list", Ask(s, n) PROVE r \in inflight
    BY <1>3, <2>1 DEF Ask
  <2>2. "list" \notin Rereads
    BY ReadModelAssumption
  <2>3. CASE AttachBadges
    BY <2>1, <2>3 DEF AttachBadges
  <2>4. ASSUME NEW s \in Rereads, ReadOnMount(s) \/ Frame(s) PROVE r \in inflight
    BY <2>1, <2>2, <2>4 DEF ReadOnMount, Frame
  <2>5. ASSUME inflight' \subseteq inflight PROVE r \in inflight
    BY <2>5
  <2>6. ASSUME NEW s, Attach(s) \/ StoreAnswered(s) \/ StoreFailed(s) PROVE r \in inflight
    BY <2>5, <2>6 DEF Attach, StoreAnswered, StoreFailed
  <2>7. CASE BadgesSeeded \/ AttachResync \/ Reorder \/ ReorderRefused \/ UNCHANGED readModelVars
    BY <2>5, <2>7 DEF BadgesSeeded, AttachResync, Reorder, ReorderRefused, readModelVars
  <2> QED
    BY <2>3, <2>4, <2>6, <2>7
<1>4. list \in ListRecord
  BY DEF ListInv, ListTypes
<1>5. /\ list' \in ListRecord
      /\ list'.rows = list.rows /\ list'.buffer = list.buffer /\ list'.fetching = list.fetching
      /\ list'.gen = list.gen /\ list'.attached = list.attached /\ list'.landed = list.landed
  BY <1>2, <1>4 DEF ListRecord
<1> QED
  BY <1>1, <1>3, <1>5, ListStands

\* The core reads its state for a request.
LEMMA ListAnswer == ASSUME ReadsInv, ListInv, Answer PROVE ListInv'
<1>1. PICK r \in inflight :
        /\ r.answer = None
        /\ inflight' = (inflight \ {r}) \cup {[r EXCEPT !.answer = <<Snapshot(r.store)>>]}
  BY DEF Answer
<1>2. UNCHANGED <<core, stream, list, mounted, missed>>
  BY DEF Answer
<1>3. PICK t : t = [r EXCEPT !.answer = <<Snapshot(r.store)>>]
  OBVIOUS
<1>4. r = [store |-> r.store, gen |-> r.gen, answer |-> r.answer]
  BY DEF ReadsInv, RequestsTyped
<1>5. /\ t.store = r.store /\ t.gen = r.gen
      /\ t = [store |-> t.store, gen |-> t.gen, answer |-> t.answer]
      /\ t.answer = <<Snapshot(r.store)>>
  BY <1>3, <1>4
<1>6. inflight' = (inflight \ {r}) \cup {t}
  BY <1>1, <1>3
<1>7. list \in ListRecord
  BY DEF ListInv, ListTypes
<1>8. CASE r.store # "list"
  <2>1. \A q \in inflight' : q.store = "list" => q \in inflight
    BY <1>5, <1>6, <1>8
  <2> QED
    BY <1>2, <1>7, <2>1, ListStands
<1>9. CASE r.store = "list"
  <2>1. t.answer # None => t.answer[1] = core.procs
    BY <1>5, <1>9 DEF Snapshot
  <2>2. core.procs \in Rows
    BY DEF ListInv, ListTypes
  <2>3. /\ r.gen \in Nat /\ r.gen <= list.gen
        /\ r.gen = list.gen => list.fetching
    BY <1>9 DEF ListInv, ListNumbers
  <2>4. ListTypes' /\ ListNews' /\ Resumes(core.procs, stream)' /\ BufferRepeats' /\ RowsLead'
    BY <1>2 DEF ListInv, ListTypes, ListNews, BufferRepeats, RowsLead, Covered
  <2>5. ASSUME NEW p \in inflight', NEW q \in inflight', p.store = "list", q.store = "list",
               p.gen = q.gen
        PROVE  p = q
    <3>1. \A o \in inflight : o.store = "list" /\ o.gen = r.gen => o = r
      BY <1>9 DEF ListInv, ListNumbers
    <3>2. CASE p \in inflight \ {r} /\ q \in inflight \ {r}
      BY <2>5, <3>2 DEF ListInv, ListNumbers
    <3>3. CASE p = t \/ q = t
      BY <1>5, <1>6, <2>5, <3>1, <3>3
    <3> QED
      BY <1>6, <3>2, <3>3
  <2>6. \A q \in inflight' : q.store = "list" =>
          /\ q = [store |-> q.store, gen |-> q.gen, answer |-> q.answer]
          /\ q.gen \in Nat /\ q.gen <= list.gen
          /\ q.gen = list.gen => list.fetching
          /\ q.answer # None => q.answer[1] \in Rows
    <3> SUFFICES ASSUME NEW q \in inflight', q.store = "list"
                 PROVE  /\ q = [store |-> q.store, gen |-> q.gen, answer |-> q.answer]
                        /\ q.gen \in Nat /\ q.gen <= list.gen
                        /\ q.gen = list.gen => list.fetching
                        /\ q.answer # None => q.answer[1] \in Rows
      OBVIOUS
    <3>1. CASE q \in inflight
      BY <3>1 DEF ListInv, ListNumbers
    <3>2. CASE q = t
      BY <1>5, <2>1, <2>2, <2>3, <3>2
    <3> QED
      BY <1>6, <3>1, <3>2
  <2>7. ListNumbers'
    BY <1>2, <2>5, <2>6 DEF ListInv, ListNumbers
  <2>8. AnswerLeads'
    <3> SUFFICES ASSUME NEW q \in inflight', Covered, q.store = "list", q.gen = list.gen,
                        q.answer # None
                 PROVE  Agrees(ReplayAll(ReplayAll(q.answer[1], list.buffer), stream), core.procs)
      BY <1>2 DEF AnswerLeads, Covered
    <3>1. CASE q \in inflight
      BY <3>1 DEF ListInv, AnswerLeads
    <3>2. CASE q = t
      BY <1>5, <2>1, <2>3, <3>2 DEF ListInv, BufferRepeats
    <3> QED
      BY <1>6, <3>1, <3>2
  <2> QED
    BY <2>4, <2>7, <2>8 DEF ListInv
<1> QED
  BY <1>8, <1>9

\* An answer lands and what was buffered is replayed on top of it, or is dropped.
LEMMA ListAnsweredKeeps == ASSUME ListInv, ListAnswered PROVE ListInv'
<1>1. PICK r \in inflight :
        /\ r.store = "list" /\ r.answer # None /\ inflight' = inflight \ {r}
        /\ list' = IF r.gen # list.gen THEN list ELSE LandSnapshot(r.answer[1])
  BY DEF ListAnswered, Mine
<1>2. UNCHANGED <<core, stream, mounted, missed>>
  BY DEF ListAnswered
<1>3. list \in ListRecord /\ core.procs \in Rows /\ stream \in Seq(Wire)
  BY DEF ListInv, ListTypes
<1>4. CASE r.gen # list.gen
  BY <1>1, <1>2, <1>3, <1>4, ListStands
<1>5. CASE r.gen = list.gen
  <2>1. PICK x : x = ReplayAll(r.answer[1], list.buffer)
    OBVIOUS
  <2>2. list' = [list EXCEPT !.rows = x, !.buffer = <<>>, !.fetching = FALSE, !.landed = list.gen]
    BY <1>1, <1>5, <2>1 DEF LandSnapshot
  <2>3. x \in Rows
    <3>1. r.answer[1] \in Rows /\ list.buffer \in Seq(Wire)
      BY <1>1, <1>3, ListTyped DEF ListInv, ListNumbers
    <3> QED
      BY <2>1, <3>1, ReplayEnds
  <2>4. /\ list'.rows = x /\ list'.buffer = <<>> /\ ~list'.fetching
        /\ list'.landed = list.gen /\ list'.gen = list.gen /\ list'.attached = list.attached
        /\ list' \in ListRecord /\ list.gen \in Nat
    <3>1. PICK b, n : b = <<>> /\ n = list.gen
      OBVIOUS
    <3>2. b \in Seq(Wire) /\ n \in Nat
      BY <1>3, <3>1, ListTyped
    <3>3. Shows(list', list, x, b, n)
      BY <2>2, <3>1 DEF Shows
    <3>4. /\ list' \in ListRecord /\ list'.rows = x /\ list'.buffer = b /\ ~list'.fetching
          /\ list'.landed = n /\ list'.gen = list.gen /\ list'.attached = list.attached
      BY <1>3, <2>3, <3>2, <3>3, Showed
    <3> QED
      BY <3>1, <3>2, <3>4
  <2>5. ListTypes'
    <3>1. Len(<<>>) <= BufferCap
      BY ReadModelAssumption
    <3> QED
      BY <1>2, <2>4, <3>1 DEF ListInv, ListTypes
  <2>6. \A q \in inflight' : q.store = "list" => q.gen # list.gen
    BY <1>1, <1>5 DEF ListInv, ListNumbers
  <2>7. ListNumbers'
    BY <1>1, <1>2, <2>4, <2>6 DEF ListInv, ListNumbers
  <2>8. ListNews'
    <3>1. \A p : Untouched(<<>>, p)
      BY DEF Untouched
    <3> QED
      BY <1>2, <2>4, <3>1 DEF ListInv, ListNews
  <2>9. Resumes(core.procs, stream)'
    BY <1>2 DEF ListInv
  <2>10. BufferRepeats' /\ AnswerLeads'
    BY <2>4, <2>6 DEF BufferRepeats, AnswerLeads
  <2>11. RowsLead'
    <3>1. Covered => Agrees(ReplayAll(x, stream), core.procs)
      BY <1>1, <1>5, <2>1 DEF ListInv, AnswerLeads
    <3> QED
      BY <1>2, <2>4, <3>1 DEF RowsLead, Covered
  <2> QED
    BY <2>5, <2>7, <2>8, <2>9, <2>10, <2>11 DEF ListInv
<1> QED
  BY <1>4, <1>5

\* A request fails: the list goes on showing what it did, and no request is the latest.
LEMMA ListFailedKeeps == ASSUME ListInv, ListFailed PROVE ListInv'
<1>1. PICK r \in inflight :
        /\ r.store = "list" /\ inflight' = inflight \ {r}
        /\ list' = IF r.gen # list.gen THEN list
                   ELSE [list EXCEPT !.fetching = FALSE, !.error = TRUE]
  BY DEF ListFailed, Mine
<1>2. UNCHANGED <<core, stream, mounted, missed>>
  BY DEF ListFailed
<1>3. list \in ListRecord
  BY DEF ListInv, ListTypes
<1>4. CASE r.gen # list.gen
  BY <1>1, <1>2, <1>3, <1>4, ListStands
<1>5. CASE r.gen = list.gen
  <2>1. list' = [list EXCEPT !.fetching = FALSE, !.error = TRUE]
    BY <1>1, <1>5
  <2>2. /\ list'.rows = list.rows /\ list'.buffer = list.buffer /\ list'.fetching = FALSE
        /\ list'.landed = list.landed /\ list'.gen = list.gen /\ list'.attached = list.attached
        /\ list' \in ListRecord /\ list.gen \in Nat /\ list.landed \in Nat
    BY <1>3, <2>1 DEF ListRecord
  <2>3. list.landed < list.gen
    BY <1>1, <1>5 DEF ListInv, ListNumbers
  <2>4. \A q \in inflight' : q.store = "list" => q.gen # list.gen
    BY <1>1, <1>5 DEF ListInv, ListNumbers
  <2>5. ListTypes' /\ ListNews' /\ Resumes(core.procs, stream)'
    BY <1>2, <2>2 DEF ListInv, ListTypes, ListNews
  <2>6. ListNumbers'
    BY <1>1, <1>2, <2>2, <2>4 DEF ListInv, ListNumbers
  <2>7. BufferRepeats' /\ AnswerLeads'
    BY <2>2, <2>4 DEF BufferRepeats, AnswerLeads
  <2>8. RowsLead'
    BY <2>2, <2>3 DEF RowsLead
  <2> QED
    BY <2>5, <2>6, <2>7, <2>8 DEF ListInv
<1> QED
  BY <1>4, <1>5

LEMMA ListAttach == ASSUME ListInv, AttachList PROVE ListInv'
<1>1. /\ "list" \in mounted /\ UNCHANGED <<core, stream, mounted, missed>>
      /\ list' = [Refreshed(list) EXCEPT !.attached = TRUE]
      /\ inflight' = inflight \cup {[store |-> "list", gen |-> list.gen + 1, answer |-> None]}
  BY DEF AttachList, Ask
<1>2. list \in ListRecord /\ list.gen \in Nat /\ stream \in Seq(Wire)
      /\ Resumes(core.procs, stream)
  BY ListTyped DEF ListInv, ListTypes
<1>3. PICK n : n = list.gen + 1
  OBVIOUS
<1>4. n \in Nat
  BY <1>2, <1>3
<1>5. PICK m : m = [list EXCEPT !.gen = n, !.fetching = TRUE, !.buffer = <<>>]
  OBVIOUS
<1>6. m = Refreshed(list)
  BY <1>2, <1>3, <1>5 DEF Refreshed, ListRecord
<1>7. m \in ListRecord /\ m.gen = n /\ m.fetching /\ m.buffer = <<>> /\ m.landed = list.landed
  <2>1. PICK b : b = <<>>
    OBVIOUS
  <2>2. b \in Seq(Wire)
    BY <2>1
  <2>3. Fetches(m, list, n, b)
    BY <1>5, <2>1 DEF Fetches
  <2>4. /\ m \in ListRecord /\ m.gen = n /\ m.fetching /\ m.buffer = b
        /\ m.landed = list.landed
    BY <1>2, <1>4, <2>2, <2>3, Fetched
  <2> QED
    BY <2>1, <2>4
<1>8. list' = [m EXCEPT !.attached = TRUE]
  BY <1>1, <1>6
<1>9. /\ list' \in ListRecord /\ list'.gen = n /\ list'.fetching /\ list'.buffer = <<>>
      /\ list'.landed = list.landed
  BY <1>7, <1>8 DEF ListRecord
<1> QED
  BY <1>1, <1>2, <1>3, <1>9, ListAsks

\* Every store that is mounted asks.
LEMMA ListRefreshes ==
  ASSUME ListInv, RefreshAll, missed'["list"] = missed["list"],
         stream' \in Seq(Wire), Resumes(core.procs, stream'),
         \A p : Untouched(stream, p) => Untouched(stream', p)
  PROVE  ListInv'
<1>1. UNCHANGED <<core, mounted>>
  BY DEF RefreshAll
<1>2. list \in ListRecord /\ list.gen \in Nat
  BY ListTyped DEF ListInv, ListTypes
<1>3. ASSUME NEW r \in inflight', r.store = "list"
      PROVE  \/ r \in inflight
             \/ "list" \in mounted /\ r = [store |-> "list", gen |-> list.gen + 1, answer |-> None]
  <2>1. "list" \notin Reasking(Resync)
    BY ReadModelAssumption DEF Reasking
  <2>2. r \in inflight \/ r \in AskAll(({"list", "badges"} \cap mounted) \cup Reasking(Resync))
    BY DEF RefreshAll
  <2>3. ASSUME NEW s \in ({"list", "badges"} \cap mounted) \cup Reasking(Resync),
               r = [store |-> s, gen |-> Latest(s) + 1, answer |-> None]
        PROVE  s = "list" /\ "list" \in mounted
    BY <1>3, <2>1, <2>3
  <2>4. Latest("list") = list.gen
    BY DEF Latest
  <2> QED
    BY <2>2, <2>3, <2>4 DEF AskAll
<1>4. CASE "list" \in mounted
  <2>1. list' = Refreshed(list)
    BY <1>4 DEF RefreshAll
  <2>2. PICK n : n = list.gen + 1
    OBVIOUS
  <2>3. n \in Nat
    BY <1>2, <2>2
  <2>4. list' = [list EXCEPT !.gen = n, !.fetching = TRUE, !.buffer = <<>>]
    BY <1>2, <2>1, <2>2 DEF Refreshed, ListRecord
  <2>5. /\ list' \in ListRecord /\ list'.gen = n /\ list'.fetching /\ list'.buffer = <<>>
        /\ list'.landed = list.landed
    <3>1. PICK b : b = <<>>
      OBVIOUS
    <3>2. b \in Seq(Wire)
      BY <3>1
    <3>3. Fetches(list', list, n, b)
      BY <2>4, <3>1 DEF Fetches
    <3>4. /\ list' \in ListRecord /\ list'.gen = n /\ list'.fetching /\ list'.buffer = b
          /\ list'.landed = list.landed
      BY <1>2, <2>3, <3>2, <3>3, Fetched
    <3> QED
      BY <3>1, <3>4
  <2> QED
    BY <1>1, <1>3, <1>4, <2>2, <2>5, ListAsks
<1>5. CASE "list" \notin mounted
  <2>1. list' = list
    BY <1>5 DEF RefreshAll
  <2>2. ~list.attached
    BY <1>5 DEF ListInv, ListNumbers
  <2>3. \A r \in inflight' : r.store = "list" => r \in inflight
    BY <1>3, <1>5
  <2>4. ListTypes' /\ ListNumbers' /\ ~Covered'
    BY <1>1, <2>1, <2>2, <2>3 DEF ListInv, ListTypes, ListNumbers, Covered
  <2> QED
    BY <1>1, <2>1, <2>4, ListMisses
<1> QED
  BY <1>4, <1>5

LEMMA ListResync == ASSUME ListInv, DeliverResync \/ Focus PROVE ListInv'
<1>1. stream \in Seq(Wire) /\ core.procs \in Rows /\ Resumes(core.procs, stream)
  BY DEF ListInv, ListTypes
<1>2. CASE Focus
  BY <1>1, <1>2, ListRefreshes DEF Focus
<1>3. CASE DeliverResync
  <2>1. PICK t : t = Tail(stream)
    OBVIOUS
  <2>2. stream # <<>> /\ stream' = t
    BY <1>3, <2>1 DEF DeliverResync
  <2>3. t \in Seq(Wire) /\ Resumes(core.procs, t) /\ \A p : Untouched(stream, p) => Untouched(t, p)
    BY <1>1, <2>1, <2>2, ResumesTail, TailTyped
  <2>4. CASE list.reconciling
    <3>1. RefreshAll /\ Miss({"attention"} \cap Rereads)
      BY <1>3, <2>4 DEF DeliverResync
    <3>2. missed'["list"] = missed["list"]
      BY <3>1 DEF Miss, Readers
    <3> QED
      BY <2>2, <2>3, <3>1, <3>2, ListRefreshes
  <2>5. CASE ~list.reconciling
    <3>1. Miss(Readers) /\ UNCHANGED <<core, list, inflight, mounted>>
      BY <1>3, <2>5 DEF DeliverResync
    <3>2. missed'["list"] = list.gen /\ list.gen \in Nat
      BY <3>1, ListTyped DEF Miss, Readers, Latest, ListInv, ListTypes
    <3>3. ListTypes' /\ ListNumbers' /\ ~Covered'
      BY <2>2, <2>3, <3>1, <3>2 DEF ListInv, ListTypes, ListNumbers, Covered
    <3> QED
      BY <2>2, <2>3, <3>1, <3>3, ListMisses
  <2> QED
    BY <2>4, <2>5
<1> QED
  BY <1>2, <1>3

\* An event reaches the list: folded in, or buffered behind the answer under way.
LEMMA ListFolds ==
  ASSUME ListInv, NEW e \in Wire, stream # <<>>, e = Head(stream), e # Resync,
         stream' = Tail(stream), UNCHANGED <<core, mounted>>,
         missed'["list"] = missed["list"], list.attached, ~list.fetching,
         list' = [list EXCEPT !.rows = ApplyEvent(list.rows, e)],
         \A r \in inflight' : r.store = "list" => r \in inflight
  PROVE  ListInv'
<1>1. /\ core.procs \in Rows /\ stream \in Seq(Wire) /\ list \in ListRecord
      /\ list.rows \in Rows /\ Resumes(core.procs, stream)
  BY ListTyped DEF ListInv, ListTypes
<1>2. PICK x : x = ApplyEvent(list.rows, e)
  OBVIOUS
<1>3. x \in Rows
  BY <1>1, <1>2, Applied
<1>4. Folds(list', list, x)
  BY <1>2 DEF Folds
<1>5. /\ list' \in ListRecord /\ list'.rows = x /\ list'.buffer = list.buffer
      /\ list'.gen = list.gen /\ list'.fetching = list.fetching
      /\ list'.landed = list.landed /\ list'.attached = list.attached
  <2>1. PICK l, m : l = list /\ m = list'
    OBVIOUS
  <2>2. l \in ListRecord /\ Folds(m, l, x)
    BY <1>1, <1>3, <1>4, <2>1
  <2>3. m \in ListRecord /\ m.rows = x /\ m.buffer = l.buffer /\ GoesOn(m, l)
    BY <1>3, <2>2, Folded
  <2> QED
    BY <2>1, <2>3 DEF GoesOn
<1>6. PICK t : t = Tail(stream)
  OBVIOUS
<1>7. /\ stream' = t /\ t \in Seq(Wire) /\ Resumes(core.procs, t)
      /\ Unbroken(t) => Unbroken(stream)
  BY <1>1, <1>6, ResumesTail
<1>8. \A p : Untouched(stream, p) => Untouched(t, p)
  BY <1>1, <1>6, TailTyped
<1>9. ListTypes' /\ ListNumbers'
  <2>1. ListTypes'
    BY <1>5, <1>7 DEF ListInv, ListTypes
  <2>2. ListNumbers'
    BY <1>5 DEF ListInv, ListNumbers
  <2> QED
    BY <2>1, <2>2
<1>10. ListNews' /\ Resumes(core.procs, stream)'
  BY <1>5, <1>7, <1>8 DEF ListInv, ListNews
<1>11. BufferRepeats'
  BY <1>5 DEF BufferRepeats
<1>12. AnswerLeads'
  BY <1>5 DEF ListInv, ListNumbers, AnswerLeads
<1>13. RowsLead'
  <2> SUFFICES ASSUME Covered', list.landed = list.gen PROVE Agrees(ReplayAll(x, t), core.procs)
    BY <1>5, <1>7 DEF RowsLead
  <2>1. Covered
    BY <1>5, <1>7 DEF Covered
  <2>2. Agrees(ReplayAll(list.rows, stream), core.procs)
    BY <2>1 DEF ListInv, RowsLead
  <2>3. ReplayAll(list.rows, stream) = ReplayAll(x, t)
    BY <1>1, <1>2, <1>6, ReplayHead
  <2> QED
    BY <2>2, <2>3
<1> QED
  BY <1>9, <1>10, <1>11, <1>12, <1>13 DEF ListInv

LEMMA ListBuffers ==
  ASSUME ListInv, NEW e \in Wire, stream # <<>>, e = Head(stream), e # Resync,
         stream' = Tail(stream), UNCHANGED <<core, mounted>>,
         missed'["list"] = missed["list"], list.attached, list.fetching,
         NEW b \in Seq(Wire), b = Append(list.buffer, e), Len(b) <= BufferCap,
         \A p : Untouched(b, p) <=> Untouched(list.buffer, p) /\ ~Touches(e, p),
         list' = [list EXCEPT !.buffer = b],
         \A r \in inflight' : r.store = "list" => r \in inflight
  PROVE  ListInv'
<1>1. /\ core.procs \in Rows /\ stream \in Seq(Wire) /\ list \in ListRecord
      /\ list.buffer \in Seq(Wire) /\ Resumes(core.procs, stream)
  BY ListTyped DEF ListInv, ListTypes
<1>2. Buffers(list', list, b)
  BY DEF Buffers
<1>3. /\ list' \in ListRecord /\ list'.rows = list.rows /\ list'.buffer = b
      /\ list'.gen = list.gen /\ list'.fetching = list.fetching
      /\ list'.landed = list.landed /\ list'.attached = list.attached
  <2>1. PICK l, m : l = list /\ m = list'
    OBVIOUS
  <2>2. l \in ListRecord /\ Buffers(m, l, b)
    BY <1>1, <1>2, <2>1
  <2>3. m \in ListRecord /\ m.rows = l.rows /\ m.buffer = b /\ GoesOn(m, l)
    BY <2>2, Buffered
  <2> QED
    BY <2>1, <2>3 DEF GoesOn
<1>4. PICK t : t = Tail(stream)
  OBVIOUS
<1>5. /\ stream' = t /\ t \in Seq(Wire) /\ Resumes(core.procs, t)
      /\ Unbroken(t) => Unbroken(stream)
  BY <1>1, <1>4, ResumesTail
<1>6. \A p : Untouched(stream, p) => Untouched(t, p) /\ ~Touches(e, p)
  BY <1>1, <1>4, TailTyped
<1>7. ListTypes'
  BY <1>3, <1>5 DEF ListInv, ListTypes
<1>8. ListNumbers'
  BY <1>3 DEF ListInv, ListNumbers
<1>9. ListNews' /\ Resumes(core.procs, stream)'
  BY <1>3, <1>5, <1>6 DEF ListInv, ListNews
<1>10. ASSUME NEW x \in Rows
       PROVE  ReplayAll(ReplayAll(x, b), t) = ReplayAll(ReplayAll(x, list.buffer), stream)
  <2>1. PICK y : y = ReplayAll(x, list.buffer)
    OBVIOUS
  <2>2. y \in Rows /\ ReplayAll(x, b) = ApplyEvent(y, e)
    BY <1>1, <2>1, ReplayEnds
  <2>3. ReplayAll(y, stream) = ReplayAll(ApplyEvent(y, e), t)
    BY <1>1, <1>4, <2>2, ReplayHead
  <2> QED
    BY <2>1, <2>2, <2>3
<1>11. Covered' => Covered
  BY <1>3, <1>5 DEF Covered
<1>12. BufferRepeats'
  <2> SUFFICES ASSUME Covered
               PROVE  Agrees(ReplayAll(ReplayAll(core.procs, b), t), core.procs)
    BY <1>3, <1>5, <1>11 DEF BufferRepeats
  <2>1. Agrees(ReplayAll(ReplayAll(core.procs, list.buffer), stream), core.procs)
    BY DEF ListInv, BufferRepeats
  <2>2. ReplayAll(ReplayAll(core.procs, b), t)
          = ReplayAll(ReplayAll(core.procs, list.buffer), stream)
    BY <1>1, <1>10
  <2> QED
    BY <2>1, <2>2
<1>13. AnswerLeads'
  <2> SUFFICES ASSUME NEW r \in inflight, Covered, r.store = "list", r.gen = list.gen,
                      r.answer # None
               PROVE  Agrees(ReplayAll(ReplayAll(r.answer[1], b), t), core.procs)
    BY <1>3, <1>5, <1>11 DEF AnswerLeads
  <2>1. r.answer[1] \in Rows
    BY DEF ListInv, ListNumbers
  <2>2. Agrees(ReplayAll(ReplayAll(r.answer[1], list.buffer), stream), core.procs)
    BY DEF ListInv, AnswerLeads
  <2>3. ReplayAll(ReplayAll(r.answer[1], b), t)
          = ReplayAll(ReplayAll(r.answer[1], list.buffer), stream)
    BY <1>10, <2>1
  <2> QED
    BY <2>2, <2>3
<1>14. RowsLead'
  <2>1. list.landed # list.gen
    BY ListTyped, <1>1 DEF ListInv, ListNumbers
  <2> QED
    BY <1>3, <2>1 DEF RowsLead
<1> QED
  BY <1>7, <1>8, <1>9, <1>12, <1>13, <1>14 DEF ListInv

\* The event gets past the list, or pushes an older one out of its buffer.
LEMMA ListLoses ==
  ASSUME ListInv, stream # <<>>, stream' = Tail(stream), UNCHANGED <<core, mounted>>,
         missed'["list"] \in {missed["list"], list.gen},
         ~list.attached \/ missed'["list"] = list.gen,
         NEW b \in Seq(Wire), Len(b) <= BufferCap,
         \A p : Untouched(stream, p) /\ Untouched(list.buffer, p) => Untouched(b, p),
         list' = [list EXCEPT !.buffer = b],
         \A r \in inflight' : r.store = "list" => r \in inflight
  PROVE  ListInv'
<1>1. /\ core.procs \in Rows /\ stream \in Seq(Wire) /\ list \in ListRecord
      /\ list.gen \in Nat /\ missed["list"] \in Nat /\ missed["list"] <= list.gen
      /\ Resumes(core.procs, stream)
  BY ListTyped DEF ListInv, ListTypes, ListNumbers
<1>2. Buffers(list', list, b)
  BY DEF Buffers
<1>3. /\ list' \in ListRecord /\ list'.rows = list.rows /\ list'.buffer = b
      /\ list'.gen = list.gen /\ list'.fetching = list.fetching
      /\ list'.landed = list.landed /\ list'.attached = list.attached
  <2>1. PICK l, m : l = list /\ m = list'
    OBVIOUS
  <2>2. l \in ListRecord /\ Buffers(m, l, b)
    BY <1>1, <1>2, <2>1
  <2>3. m \in ListRecord /\ m.rows = l.rows /\ m.buffer = b /\ GoesOn(m, l)
    BY <2>2, Buffered
  <2> QED
    BY <2>1, <2>3 DEF GoesOn
<1>4. PICK t : t = Tail(stream)
  OBVIOUS
<1>5. /\ stream' = t /\ t \in Seq(Wire) /\ Resumes(core.procs, t)
      /\ \A p : Untouched(stream, p) => Untouched(t, p)
  BY <1>1, <1>4, ResumesTail, TailTyped
<1>6. ListTypes'
  BY <1>1, <1>3, <1>5 DEF ListInv, ListTypes
<1>7. ListNumbers'
  BY <1>1, <1>3 DEF ListInv, ListNumbers
<1>8. ~Covered'
  BY <1>1, <1>3 DEF Covered
<1> QED
  BY <1>3, <1>5, <1>6, <1>7, <1>8, ListMisses

LEMMA ListDeliver == ASSUME ListInv, DeliverEvent PROVE ListInv'
<1>1. PICK e : e = Head(stream)
  OBVIOUS
<1>2. /\ stream # <<>> /\ e # Resync /\ stream' = Tail(stream) /\ UNCHANGED <<core, mounted>>
      /\ list' = ListAfter(e) /\ inflight' = inflight \cup AskAll(Reasking(e))
  BY <1>1 DEF DeliverEvent
<1>3. /\ stream \in Seq(Wire) /\ list \in ListRecord /\ list.buffer \in Seq(Wire)
      /\ Len(list.buffer) <= BufferCap /\ list.gen \in Nat
  BY ListTyped DEF ListInv, ListTypes
<1>4. e \in Wire /\ \A p : Untouched(stream, p) => ~Touches(e, p)
  BY <1>1, <1>2, <1>3, TailTyped
<1>5. "list" \notin Rereads
  BY ReadModelAssumption
<1>6. \A r \in inflight' : r.store = "list" => r \in inflight
  BY <1>2, <1>5 DEF AskAll, Reasking
<1>7. missed'["list"] = IF ListOverflows THEN list.gen ELSE missed["list"]
  BY <1>5 DEF DeliverEvent, Miss, Readers, Latest
<1>8. CASE ~list.attached
  <2>1. list' = [list EXCEPT !.buffer = list.buffer]
    BY <1>2, <1>3, <1>8 DEF ListAfter, ListRecord
  <2>2. missed'["list"] \in {missed["list"], list.gen}
    BY <1>7
  <2> QED
    BY <1>2, <1>3, <1>6, <1>8, <2>1, <2>2, ListLoses
<1>9. CASE list.attached /\ ~list.fetching
  <2>1. list' = [list EXCEPT !.rows = ApplyEvent(list.rows, e)]
    BY <1>2, <1>9 DEF ListAfter
  <2>2. missed'["list"] = missed["list"]
    BY <1>7, <1>9 DEF ListOverflows
  <2> QED
    BY <1>1, <1>2, <1>4, <1>6, <1>9, <2>1, <2>2, ListFolds
<1>10. CASE list.attached /\ list.fetching
  <2>1. PICK longer : longer = Append(list.buffer, e)
    OBVIOUS
  <2>2. PICK n : n = Len(list.buffer)
    OBVIOUS
  <2>3. /\ longer \in Seq(Wire) /\ Len(longer) = n + 1 /\ n \in Nat /\ n <= BufferCap
        /\ \A p : Untouched(longer, p) <=> Untouched(list.buffer, p) /\ ~Touches(e, p)
    <3>1. PICK s : s = list.buffer
      OBVIOUS
    <3>2. s \in Seq(Wire) /\ longer = Append(s, e)
      BY <1>3, <2>1, <3>1
    <3>3. /\ longer \in Seq(Wire) /\ Len(longer) = Len(s) + 1
          /\ \A p : Untouched(longer, p) <=> Untouched(s, p) /\ ~Touches(e, p)
      BY <1>4, <3>2, AppendTyped
    <3>4. Len(s) = n /\ n \in Nat /\ n <= BufferCap
      BY <1>3, <2>2, <3>1, <3>2
    <3> QED
      BY <3>1, <3>3, <3>4
  <2>4. list' = [list EXCEPT !.buffer = IF Len(longer) > BufferCap THEN Tail(longer) ELSE longer]
    BY <1>2, <1>10, <2>1 DEF ListAfter
  <2>5. CASE n = BufferCap
    <3>1. PICK b : b = Tail(longer)
      OBVIOUS
    <3>2. Len(longer) > BufferCap /\ longer # <<>>
      BY <2>3, <2>5
    <3>3. list' = [list EXCEPT !.buffer = b]
      BY <2>4, <3>1, <3>2
    <3>4. b \in Seq(Wire) /\ Len(b) = Len(longer) - 1
          /\ \A p : Untouched(longer, p) => Untouched(b, p)
      BY <2>3, <3>1, <3>2, TailTyped
    <3>5. Len(b) <= BufferCap
      BY <2>3, <2>5, <3>4
    <3>6. \A p : Untouched(stream, p) /\ Untouched(list.buffer, p) => Untouched(b, p)
      BY <1>4, <2>3, <3>4
    <3>7. missed'["list"] = list.gen
      BY <1>7, <1>10, <2>2, <2>5 DEF ListOverflows
    <3> QED
      BY <1>2, <1>6, <3>3, <3>4, <3>5, <3>6, <3>7, ListLoses
  <2>6. CASE n # BufferCap
    <3>1. Len(longer) <= BufferCap /\ ~(Len(longer) > BufferCap)
      BY <2>3, <2>6, ReadModelAssumption
    <3>2. list' = [list EXCEPT !.buffer = longer]
      BY <2>4, <3>1
    <3>3. missed'["list"] = missed["list"]
      BY <1>7, <2>2, <2>6 DEF ListOverflows
    <3> QED
      BY <1>1, <1>2, <1>4, <1>6, <1>10, <2>1, <2>3, <3>1, <3>2, <3>3, ListBuffers
  <2> QED
    BY <2>5, <2>6
<1> QED
  BY <1>8, <1>9, <1>10

LEMMA ListCoreStep == ASSUME ListInv, CoreStep PROVE ListInv'
<1>1. ASSUME NEW p \in Id, MoveActivity(p) PROVE ListInv'
  <2>1. PICK a \in Activity :
          Changed(core.procs, [core.activity EXCEPT ![p] = a],
                  [type |-> "AgentActivityChanged", id |-> p, state |-> a])
    BY <1>1 DEF MoveActivity
  <2>2. PICK e : e = [type |-> "AgentActivityChanged", id |-> p, state |-> a]
    OBVIOUS
  <2>3. e \in Wire /\ e.type \notin SignalsOf("list")
    BY <2>2, DomainEvents DEF Wire, SignalsOf
  <2>4. PICK activity : activity = [core.activity EXCEPT ![p] = a]
    OBVIOUS
  <2>5. Changed(core.procs, activity, e)
    BY <2>1, <2>2, <2>4
  <2> QED
    BY <2>3, <2>5, ListApart
<1>2. ASSUME NEW type \in {"AttentionChanged", "TodoChanged"}, Announce(type) PROVE ListInv'
  <2>1. PICK e : e = [type |-> type]
    OBVIOUS
  <2>2. e \in Wire /\ e.type \notin SignalsOf("list")
    BY <2>1, DomainEvents DEF Wire, SignalsOf
  <2>3. Changed(core.procs, core.activity, e)
    BY <1>2, <2>1 DEF Announce
  <2> QED
    BY <2>2, <2>3, ListApart
<1> QED
  BY <1>1, <1>2, ListSpawn, ListMoveStatus, ListMoveReady, ListRemove, ListLag DEF CoreStep

LEMMA ListStep == ReadsInv /\ ListInv /\ [ReadModelNext]_readModelVars => ListInv'
<1> SUFFICES ASSUME ReadsInv, ListInv, [ReadModelNext]_readModelVars PROVE ListInv'
  OBVIOUS
<1>1. ASSUME NEW s \in Rereads, Attach(s) \/ ReadOnMount(s) \/ Frame(s) \/ StoreAnswered(s)
      PROVE  ListInv'
  BY <1>1, ListOthers
<1>2. ASSUME NEW s \in Rereads \cup {"badges"}, StoreFailed(s) PROVE ListInv'
  BY <1>2, ListOthers
<1>3. CASE \/ AttachBadges \/ BadgesSeeded \/ AttachResync \/ Reorder \/ ReorderRefused
           \/ UNCHANGED readModelVars
  BY <1>3, ListOthers
<1>4. CASE AttachList \/ ListAnswered \/ ListFailed
  BY <1>4, ListAttach, ListAnsweredKeeps, ListFailedKeeps
<1>5. CASE DeliverEvent \/ DeliverResync \/ Focus
  BY <1>5, ListDeliver, ListResync
<1> QED
  BY <1>1, <1>2, <1>3, <1>4, <1>5, ListCoreStep, ListAnswer, ListReorderApplied
     DEF ReadModelNext, WindowStep

LEMMA ListInit == ReadModelInit => ListInv
<1> SUFFICES ASSUME ReadModelInit PROVE ListInv
  OBVIOUS
<1>1. /\ stream = <<>> /\ inflight = {} /\ missed["list"] = 0
      /\ core = [procs |-> [p \in Id |-> None], used |-> {},
                 activity |-> [p \in Id |-> None], version |-> [s \in Rereads |-> 1]]
      /\ list = [rows |-> [p \in Id |-> None], buffer |-> <<>>, fetching |-> FALSE, gen |-> 0,
                 attached |-> FALSE, reconciling |-> FALSE, error |-> FALSE, landed |-> 0]
  BY DEF ReadModelInit, Readers
<1>2. PICK x : x = [p \in Id |-> None]
  OBVIOUS
<1>3. x \in Rows /\ \A p \in Id : x[p] = None
  BY <1>2 DEF Rows
<1>4. core.procs = x /\ core.used = {}
      /\ core = [procs |-> core.procs, used |-> core.used, activity |-> core.activity,
                 version |-> core.version]
  BY <1>1, <1>2
<1>5. /\ list.rows = x /\ list.buffer = <<>> /\ ~list.fetching /\ list.gen = 0
      /\ ~list.attached /\ list.landed = 0
  BY <1>1, <1>2
<1>6. list \in ListRecord
  <2>1. PICK b : b = <<>>
    OBVIOUS
  <2>2. b \in Seq(Wire)
    BY <2>1
  <2>3. list = [rows |-> x, buffer |-> b, fetching |-> FALSE, gen |-> 0,
                attached |-> FALSE, reconciling |-> FALSE, error |-> FALSE, landed |-> 0]
    BY <1>1, <1>2, <2>1
  <2> QED
    BY <1>3, <2>2, <2>3 DEF ListRecord
<1>7. stream \in Seq(Wire) /\ Len(list.buffer) <= BufferCap
  BY <1>1, <1>5, ReadModelAssumption
<1>8. ListTypes /\ ListNumbers
  BY <1>1, <1>3, <1>4, <1>5, <1>6, <1>7 DEF ListTypes, ListNumbers
<1>9. ListNews
  BY <1>1, <1>3, <1>4, <1>5 DEF ListNews, Untouched
<1>10. Resumes(core.procs, stream)
  <2> SUFFICES ASSUME NEW k \in 0..Len(stream)
               PROVE  Agrees(ReplayAll(x, From(stream, k)), x)
    BY <1>4 DEF Resumes
  <2>1. PICK q : q = From(stream, k)
    OBVIOUS
  <2>2. q \in Seq(Wire) /\ Len(q) = Len(stream) - k
    BY <1>7, <2>1, FromTyped
  <2>3. q = <<>>
    BY <1>1, <2>2
  <2> QED
    BY <1>3, <2>1, <2>2, <2>3, ReplayEnds, AgreesItself
<1>11. BufferRepeats /\ AnswerLeads /\ RowsLead
  BY <1>5 DEF BufferRepeats, AnswerLeads, RowsLead, Covered
<1> QED
  BY <1>8, <1>9, <1>10, <1>11 DEF ListInv

\* Once its latest snapshot has landed and nothing is under way, the process list is
\* the core's, but for a gate the core has reset, and so is the order of the projects:
\* whatever events came during a fetch, were dropped by the bus or by a full buffer,
\* and whichever answers were late, lost or superseded (useProcesses.ts,
\* useProjects.ts).
THEOREM SettledIsCoreHolds == ReadModelSpec => []SettledIsCore
<1>1. ListInv => SettledListIsCore
  <2> SUFFICES ASSUME ListInv, list.attached, Settled("list", list.landed)
               PROVE  Agrees(list.rows, core.procs)
    BY DEF SettledListIsCore
  <2>1. stream = <<>> /\ list.landed = list.gen /\ list.gen > missed["list"]
    BY DEF Settled, Latest
  <2>2. Covered
    BY <2>1 DEF Covered, Unbroken
  <2>3. Agrees(ReplayAll(list.rows, stream), core.procs)
    BY <2>1, <2>2 DEF ListInv, RowsLead
  <2>4. list.rows \in Rows /\ stream \in Seq(Wire)
    BY ListTyped DEF ListInv, ListTypes
  <2>5. ReplayAll(list.rows, stream) = list.rows
    BY <2>1, <2>4, ReplayEnds
  <2> QED
    BY <2>3, <2>5
<1>2. ReadModelSpec => []ReadsInv
  BY ReadsInit, ReadsStep, PTL DEF ReadModelSpec
<1>3. ReadModelSpec => []ListInv
  BY <1>2, ListInit, ListStep, PTL DEF ReadModelSpec
<1>4. SettledListIsCore /\ SettledOrderIsCore => SettledIsCore
  BY DEF SettledIsCore
<1> QED
  BY <1>1, <1>3, <1>4, SettledOrderIsCoreHolds, PTL

=============================================================================
