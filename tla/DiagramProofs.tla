------------------------------ MODULE DiagramProofs ------------------------------
(***************************************************************************)
(* That what a drawing surface shows at rest is its source in the palette   *)
(* of the app, for any diagrams, blocks, palettes and size of the cache.    *)
(* The invariant follows one render from the request to the screen: the     *)
(* request waits in the surface, the job in the queue, the outcome for its  *)
(* surface, and each is of what was asked for last, or will be drawn again. *)
(***************************************************************************)
EXTENDS Diagrams, TLAPS, SequenceTheorems, FiniteSetTheorems

DiagramSpec == DiagramsInit /\ [][DiagramsNext]_diagramVars

Job == [who : Spot \cup {"export", None}, source : Source, signature : Palette \cup {None}]
Entry == [key : DiagramKey, svg : Svg]

\* The renders queued for a surface.
JobsOf(queue, s) == {queue[i] : i \in {j \in DOMAIN queue : queue[j].who = s}}

\* A cached drawing is its source's in its palette, and its source could be drawn.
EntryOK(e) ==
  /\ e \in Entry
  /\ e.svg = Drawing(e.key.source, e.key.signature) /\ e.key.source.body \notin Broken

CacheOK(cache) == cache \in Seq(Entry) /\ \A i \in DOMAIN cache : EntryOK(cache[i])

\* The queue: a surface has one render in it, and only the one at its head has read a
\* palette, which is the one Mermaid is configured with.
QueueOK(e) ==
  /\ \A i, j \in DOMAIN e.queue :
       e.queue[i].who \in Spot /\ e.queue[j].who = e.queue[i].who => i = j
  /\ \A i \in DOMAIN e.queue :
       e.queue[i].signature # None
         => i = 1 /\ e.library = "loaded" /\ e.config = e.queue[i].signature

EngineOK(e) ==
  /\ e \in [queue : Seq(Job), config : Palette \cup {None}, library : {None, "loaded", "failed"},
            cache : Seq(Entry)]
  /\ QueueOK(e)
  /\ CacheOK(e.cache)
  /\ e.cache # <<>> => e.library = "loaded"

\* What the engine makes of a source in a palette.
Result(library, source, palette) ==
  IF library = "failed" \/ source.body \in Broken THEN Failed ELSE Drawn(Drawing(source, palette))

\* An outcome is that of what was asked for: in the app's palette, if that was asked for.
Answers(library, asked, outcome, palette) ==
  /\ library # None
  /\ \E p \in Palette : /\ outcome = Result(library, asked.source, p)
                        /\ asked.signature = palette => p = palette

\* A surface, the renders queued for it, the library and the palette of the app.
Waits(d, jobs, palette) ==
  /\ d.outcome # None => jobs = {}
  /\ d.next # None => d.next = d.asked.source
  /\ d.next = None =>
       \A j \in jobs : /\ j.source = d.asked.source
                       /\ j.signature # None /\ d.asked.signature = palette => j.signature = palette

Rests(d, library, palette) ==
  d.asked # None =>
    \E result \in RenderResult :
      /\ Answers(library, d.asked, result, palette)
      /\ d.valid = result.ok
      /\ d.render.status = (IF result.ok THEN "drawn" ELSE "error")
      /\ result.ok => d.render.drawn = result.svg

Fits(d) == ~d.adjusted /\ d.laid # None => d.view = Fit(d.laid)

SurfaceOK(d, jobs, library, palette) ==
  /\ d \in Surface
  /\ Fits(d)
  /\ IF d.drawing
     THEN /\ d.asked # None /\ d.render.status # "drawn"
          /\ Waits(d, jobs, palette)
          /\ d.next = None /\ d.outcome # None => Answers(library, d.asked, d.outcome, palette)
     ELSE /\ jobs = {} /\ d.next = None /\ d.outcome = None
          /\ d.asked = None => d.render.status # "drawn"
          /\ Rests(d, library, palette)

\* Only a mounted surface has a render queued, and the text of a block is a source.
DiagramsTyped ==
  /\ root \in Palette
  /\ "source" \in DOMAIN draft /\ "timer" \in DOMAIN draft
  /\ draft.source \in Source \cup {None}
  /\ draft.timer => shown["panel"] # None
  /\ shown["panel"] # None => draft.source \in Source
  /\ DOMAIN blocks = Block
  /\ \A b \in Block : "text" \in DOMAIN blocks[b] /\ blocks[b].text \in Source \cup {None}
  /\ DOMAIN shown = Spot

DiagramInv ==
  /\ DiagramsTyped
  /\ EngineOK(engine)
  /\ \A s \in Spot :
       IF shown[s] = None THEN JobsOf(engine.queue, s) = {}
       ELSE SurfaceOK(shown[s], JobsOf(engine.queue, s), engine.library, root)

-------------------------------------------------------------------------------
(* The cache.                                                                *)

\* What is left of a sequence when an element is taken out.
LEMMA Removed ==
  ASSUME NEW S, NEW q \in Seq(S), NEW i \in DOMAIN q
  PROVE  /\ RemoveAt(q, i) \in Seq(S)
         /\ DOMAIN RemoveAt(q, i) = 1 .. Len(q) - 1
         /\ \A j \in 1 .. Len(q) - 1 : RemoveAt(q, i)[j] = IF j < i THEN q[j] ELSE q[j + 1]
<1>1. i \in 1 .. Len(q) /\ Len(q) \in Nat /\ \A j \in 1 .. Len(q) : q[j] \in S
  OBVIOUS
<1>2. PICK a, b : a = SubSeq(q, 1, i - 1) /\ b = SubSeq(q, i + 1, Len(q))
  OBVIOUS
<1>3. a \in Seq(S) /\ Len(a) = i - 1 /\ \A j \in 1 .. i - 1 : a[j] = q[j]
  <2>1. /\ SubSeq(q, 1, i - 1) \in Seq(S)
        /\ Len(SubSeq(q, 1, i - 1)) = IF 1 <= i - 1 THEN i - 1 - 1 + 1 ELSE 0
        /\ \A j \in 1 .. i - 1 - 1 + 1 : SubSeq(q, 1, i - 1)[j] = q[1 + j - 1]
    BY <1>1, SubSeqProperties
  <2> QED
    BY <1>1, <1>2, <2>1
<1>4. b \in Seq(S) /\ Len(b) = Len(q) - i /\ \A j \in 1 .. Len(q) - i : b[j] = q[j + i]
  <2>1. /\ SubSeq(q, i + 1, Len(q)) \in Seq(S)
        /\ Len(SubSeq(q, i + 1, Len(q))) = IF i + 1 <= Len(q) THEN Len(q) - (i + 1) + 1 ELSE 0
        /\ \A j \in 1 .. Len(q) - (i + 1) + 1 : SubSeq(q, i + 1, Len(q))[j] = q[i + 1 + j - 1]
    BY <1>1, SubSeqProperties
  <2> QED
    BY <1>1, <1>2, <2>1
<1>5. /\ a \o b \in Seq(S) /\ Len(a \o b) = Len(q) - 1
      /\ \A j \in 1 .. Len(q) - 1 : (a \o b)[j] = IF j <= i - 1 THEN a[j] ELSE b[j - (i - 1)]
  <2>1. Len(a) + Len(b) = Len(q) - 1
    BY <1>1, <1>3, <1>4
  <2>2. /\ a \o b \in Seq(S)
        /\ Len(a \o b) = Len(a) + Len(b)
        /\ \A j \in 1 .. Len(a) + Len(b) : (a \o b)[j] = IF j <= Len(a) THEN a[j] ELSE b[j - Len(a)]
    BY <1>3, <1>4, ConcatProperties
  <2> QED
    BY <1>3, <2>1, <2>2
<1>6. RemoveAt(q, i) = a \o b
  BY <1>2 DEF RemoveAt
<1>7. \A j \in 1 .. Len(q) - 1 : (a \o b)[j] = IF j < i THEN q[j] ELSE q[j + 1]
  <2> SUFFICES ASSUME NEW j \in 1 .. Len(q) - 1
               PROVE  (a \o b)[j] = IF j < i THEN q[j] ELSE q[j + 1]
    OBVIOUS
  <2>1. (a \o b)[j] = IF j <= i - 1 THEN a[j] ELSE b[j - (i - 1)]
    BY <1>5
  <2>2. j < i => j \in 1 .. i - 1 /\ j <= i - 1
    BY <1>1
  <2>3. ~(j < i) => /\ j - (i - 1) \in 1 .. Len(q) - i /\ ~(j <= i - 1)
                    /\ j - (i - 1) + i = j + 1
    BY <1>1
  <2>4. j < i => (a \o b)[j] = q[j]
    BY <1>3, <2>1, <2>2
  <2>5. ~(j < i) => (a \o b)[j] = q[j + 1]
    <3>1. ~(j < i) => b[j - (i - 1)] = q[j - (i - 1) + i]
      BY <1>4, <2>3
    <3> QED
      BY <2>1, <2>3, <3>1
  <2> QED
    BY <2>4, <2>5
<1>8. DOMAIN (a \o b) = 1 .. Len(q) - 1
  BY <1>5
<1>9. a \o b \in Seq(S)
  BY <1>5
<1> QED
  BY <1>6, <1>7, <1>8, <1>9, Zenon

LEMMA WithoutOK ==
  ASSUME NEW cache, CacheOK(cache), NEW key
  PROVE  CacheOK(Without(cache, key))
<1>1. CASE Hits(cache, key) = {}
  BY <1>1 DEF Without
<1>2. CASE Hits(cache, key) # {}
  <2>1. PICK i : i = CHOOSE x \in Hits(cache, key) : TRUE
    OBVIOUS
  <2>2. i \in DOMAIN cache /\ cache \in Seq(Entry)
    BY <1>2, <2>1 DEF Hits, CacheOK
  <2>3. Without(cache, key) = RemoveAt(cache, i)
    BY <1>2, <2>1 DEF Without
  <2>4. /\ RemoveAt(cache, i) \in Seq(Entry)
        /\ DOMAIN RemoveAt(cache, i) = 1 .. Len(cache) - 1
        /\ \A j \in 1 .. Len(cache) - 1 :
             RemoveAt(cache, i)[j] = IF j < i THEN cache[j] ELSE cache[j + 1]
    BY <2>2, Removed
  <2>5. \A j \in 1 .. Len(cache) - 1 : j \in DOMAIN cache /\ j + 1 \in DOMAIN cache
    BY <2>2
  <2> QED
    BY <2>3, <2>4, <2>5 DEF CacheOK
<1> QED
  BY <1>1, <1>2

LEMMA AppendedOK ==
  ASSUME NEW cache, CacheOK(cache), NEW e, EntryOK(e)
  PROVE  CacheOK(Append(cache, e)) /\ Append(cache, e) # <<>>
<1>1. cache \in Seq(Entry) /\ e \in Entry
  BY DEF CacheOK, EntryOK
<1>2. /\ Append(cache, e) \in Seq(Entry) /\ Append(cache, e) # <<>>
      /\ \A i \in DOMAIN Append(cache, e) :
           \/ i \in DOMAIN cache /\ Append(cache, e)[i] = cache[i]
           \/ Append(cache, e)[i] = e
  BY <1>1
<1> QED
  BY <1>2 DEF CacheOK

LEMMA CacheRenderOK ==
  ASSUME NEW cache, CacheOK(cache), NEW key, NEW svg, EntryOK([key |-> key, svg |-> svg])
  PROVE  CacheOK(CacheRender(cache, key, svg))
<1>1. PICK kept : kept = Append(Without(cache, key), [key |-> key, svg |-> svg])
  OBVIOUS
<1>2. CacheOK(kept) /\ kept # <<>>
  BY <1>1, WithoutOK, AppendedOK
<1>3. CacheOK(Tail(kept))
  <2>1. kept \in Seq(Entry)
    BY <1>2 DEF CacheOK
  <2>2. /\ Tail(kept) \in Seq(Entry)
        /\ \A i \in DOMAIN Tail(kept) : i + 1 \in DOMAIN kept /\ Tail(kept)[i] = kept[i + 1]
    BY <1>2, <2>1
  <2> QED
    BY <1>2, <2>2 DEF CacheOK
<1>4. CacheRender(cache, key, svg) = IF Len(kept) > CacheSize THEN Tail(kept) ELSE kept
  BY <1>1 DEF CacheRender
<1> QED
  BY <1>2, <1>3, <1>4

\* A hit is a drawing of what was asked for, and it is still cached.
LEMMA CachedOK ==
  ASSUME NEW cache, CacheOK(cache), NEW key, Hits(cache, key) # {}
  PROVE  /\ key \in DiagramKey /\ key.source.body \notin Broken
         /\ Cached(cache, key) = Drawing(key.source, key.signature)
         /\ Cached(cache, key) \in Svg
         /\ CacheOK(CachedRender(cache, key))
<1>1. PICK i : i = CHOOSE x \in Hits(cache, key) : TRUE
  OBVIOUS
<1>2. i \in DOMAIN cache /\ cache[i].key = key
  BY <1>1 DEF Hits
<1>3. EntryOK(cache[i]) /\ Cached(cache, key) = cache[i].svg
  BY <1>1, <1>2 DEF CacheOK, Cached
<1>4. /\ key \in DiagramKey /\ key.source.body \notin Broken
      /\ Cached(cache, key) = Drawing(key.source, key.signature)
      /\ Cached(cache, key) \in Svg
  BY <1>2, <1>3 DEF EntryOK, Entry
<1>5. EntryOK([key |-> key, svg |-> Cached(cache, key)])
  BY <1>4 DEF EntryOK, Entry
<1> QED
  BY <1>4, <1>5, WithoutOK, AppendedOK DEF CachedRender

-------------------------------------------------------------------------------
(* The queue.                                                                *)

\* The engine with a render more in its queue.
Joined(e, f, job) ==
  /\ EngineOK(f) /\ f.library = e.library
  /\ \A s : s # job.who => JobsOf(f.queue, s) = JobsOf(e.queue, s)
  /\ JobsOf(f.queue, job.who) \subseteq JobsOf(e.queue, job.who) \cup {job}

\* A render joins the queue.
LEMMA Enqueued ==
  ASSUME NEW e, EngineOK(e), NEW job \in Job, job.signature = None,
         job.who \in Spot => JobsOf(e.queue, job.who) = {},
         NEW f, f = [e EXCEPT !.queue = Append(@, job)]
  PROVE  Joined(e, f, job)
<1>1. e.queue \in Seq(Job)
  BY DEF EngineOK
<1>2. /\ f.queue = Append(e.queue, job) /\ f.library = e.library /\ f.config = e.config
      /\ f.cache = e.cache
      /\ f = [queue |-> Append(e.queue, job), config |-> e.config, library |-> e.library,
              cache |-> e.cache]
  BY DEF EngineOK
<1>3. /\ f.queue \in Seq(Job) /\ DOMAIN f.queue = 1 .. Len(e.queue) + 1
      /\ DOMAIN e.queue = 1 .. Len(e.queue) /\ Len(e.queue) \in Nat
      /\ f.queue[Len(e.queue) + 1] = job
      /\ \A i \in DOMAIN e.queue : f.queue[i] = e.queue[i] /\ i \in DOMAIN f.queue
      /\ \A i \in DOMAIN f.queue : i \in DOMAIN e.queue \/ i = Len(e.queue) + 1
  BY <1>1, <1>2
<1>4. \A i \in DOMAIN f.queue :
        \/ i \in DOMAIN e.queue /\ f.queue[i] = e.queue[i]
        \/ i = Len(e.queue) + 1 /\ f.queue[i] = job
  BY <1>3
<1>5. \A i \in DOMAIN e.queue : job.who \in Spot => e.queue[i].who # job.who
  BY DEF JobsOf
<1>6. QueueOK(f)
  <2>1. \A i, j \in DOMAIN f.queue :
          f.queue[i].who \in Spot /\ f.queue[j].who = f.queue[i].who => i = j
    BY <1>4, <1>5 DEF EngineOK, QueueOK
  <2>2. \A i \in DOMAIN f.queue :
          f.queue[i].signature # None
            => i = 1 /\ f.library = "loaded" /\ f.config = f.queue[i].signature
    BY <1>2, <1>4 DEF EngineOK, QueueOK
  <2> QED
    BY <2>1, <2>2 DEF QueueOK
<1>7. EngineOK(f)
  BY <1>2, <1>3, <1>6 DEF EngineOK
<1>8. ASSUME NEW s, s # job.who PROVE JobsOf(f.queue, s) = JobsOf(e.queue, s)
  <2>1. \A x : x \in JobsOf(f.queue, s) => x \in JobsOf(e.queue, s)
    BY <1>4, <1>8 DEF JobsOf
  <2>2. \A x : x \in JobsOf(e.queue, s) => x \in JobsOf(f.queue, s)
    BY <1>3 DEF JobsOf
  <2> QED
    BY <2>1, <2>2
<1>9. JobsOf(f.queue, job.who) \subseteq JobsOf(e.queue, job.who) \cup {job}
  BY <1>4 DEF JobsOf
<1> QED
  BY <1>2, <1>7, <1>8, <1>9 DEF Joined

\* A hit leaves the queue alone.
LEMMA HitKeeps ==
  ASSUME NEW e, EngineOK(e), NEW key, Hits(e.cache, key) # {},
         NEW f, f = [e EXCEPT !.cache = CachedRender(@, key)]
  PROVE  /\ EngineOK(f) /\ f.library = "loaded" /\ e.library = "loaded" /\ f.queue = e.queue
<1>1. f = [queue |-> e.queue, config |-> e.config, library |-> e.library,
           cache |-> CachedRender(e.cache, key)]
  BY DEF EngineOK
<1>2. CacheOK(CachedRender(e.cache, key)) /\ CachedRender(e.cache, key) \in Seq(Entry)
  BY CachedOK DEF EngineOK, CacheOK
<1>3. e.library = "loaded"
  BY DEF EngineOK, Hits
<1> QED
  BY <1>1, <1>2, <1>3 DEF EngineOK, QueueOK

\* Whoever is gone from the screen has no render queued.
LEMMA OrphanedKeeps ==
  ASSUME NEW e, EngineOK(e), NEW spots, NEW f, f = Orphaned(e, spots)
  PROVE  /\ EngineOK(f) /\ f.library = e.library
         /\ \A s \in Spot : /\ JobsOf(f.queue, s) \subseteq JobsOf(e.queue, s)
                            /\ s \in spots => JobsOf(f.queue, s) = {}
<1>1. None \notin Spot
  BY DiagramAssumption DEF Spot
<1>2. PICK q : q = [i \in DOMAIN e.queue |-> IF e.queue[i].who \in spots
                                             THEN [e.queue[i] EXCEPT !.who = None] ELSE e.queue[i]]
  OBVIOUS
<1>3. f = [queue |-> q, config |-> e.config, library |-> e.library, cache |-> e.cache]
  BY <1>2 DEF Orphaned, EngineOK
<1>4. e.queue \in Seq(Job)
  BY DEF EngineOK
<1>5. \A i \in DOMAIN e.queue :
        /\ e.queue[i] \in Job /\ q[i] \in Job
        /\ q[i].signature = e.queue[i].signature /\ q[i].source = e.queue[i].source
        /\ \/ q[i] = e.queue[i] /\ q[i].who \notin spots
           \/ q[i].who = None
  <2> SUFFICES ASSUME NEW i \in DOMAIN e.queue
               PROVE  /\ e.queue[i] \in Job /\ q[i] \in Job
                      /\ q[i].signature = e.queue[i].signature /\ q[i].source = e.queue[i].source
                      /\ \/ q[i] = e.queue[i] /\ q[i].who \notin spots
                         \/ q[i].who = None
    OBVIOUS
  <2>1. e.queue[i] \in Job
    BY <1>4
  <2>2. q[i] = IF e.queue[i].who \in spots THEN [e.queue[i] EXCEPT !.who = None] ELSE e.queue[i]
    BY <1>2
  <2> QED
    BY <2>1, <2>2 DEF Job
<1>6. DOMAIN q = DOMAIN e.queue /\ q \in Seq(Job)
  <2>1. PICK n \in Nat : DOMAIN e.queue = 1 .. n
    BY <1>4
  <2>2. q \in [1 .. n -> Job]
    BY <1>2, <1>5, <2>1
  <2> QED
    BY <1>2, <2>2, SeqDef
<1>7. QueueOK(f)
  <2>1. f.queue = q /\ f.library = e.library /\ f.config = e.config
    BY <1>3
  <2>2. \A i, j \in DOMAIN q : q[i].who \in Spot /\ q[j].who = q[i].who => i = j
    <3>1. \A i \in DOMAIN q : q[i].who \in Spot => q[i].who = e.queue[i].who
      BY <1>1, <1>5, <1>6
    <3> QED
      BY <1>6, <3>1 DEF EngineOK, QueueOK
  <2>3. \A i \in DOMAIN q :
          q[i].signature # None
            => i = 1 /\ e.library = "loaded" /\ e.config = q[i].signature
    BY <1>5, <1>6 DEF EngineOK, QueueOK
  <2> QED
    BY <2>1, <2>2, <2>3 DEF QueueOK
<1>8. EngineOK(f)
  BY <1>3, <1>6, <1>7 DEF EngineOK
<1>9. \A s \in Spot : /\ JobsOf(q, s) \subseteq JobsOf(e.queue, s)
                      /\ s \in spots => JobsOf(q, s) = {}
  BY <1>1, <1>5, <1>6 DEF JobsOf
<1> QED
  BY <1>3, <1>8, <1>9

\* The queue without its head.
Beheaded(e, i, q) ==
  /\ q \in Seq(Job)
  /\ \A j \in DOMAIN q : j + 1 \in DOMAIN e.queue /\ q[j] = e.queue[j + 1] /\ j \in Nat \ {0}
  /\ \A s \in Spot : /\ JobsOf(q, s) \subseteq JobsOf(e.queue, s)
                     /\ s = e.queue[i].who => JobsOf(q, s) = {}

\* The render at the head is over.
LEMMA HeadKeeps ==
  ASSUME NEW e, EngineOK(e), NEW i \in DOMAIN e.queue, i = 1, NEW q, q = RemoveAt(e.queue, i)
  PROVE  Beheaded(e, i, q)
<1>1. e.queue \in Seq(Job)
  BY DEF EngineOK
<1>2. /\ q \in Seq(Job)
      /\ DOMAIN q = 1 .. Len(e.queue) - 1
      /\ \A j \in 1 .. Len(e.queue) - 1 : q[j] = IF j < i THEN e.queue[j] ELSE e.queue[j + 1]
  BY <1>1, Removed
<1>3. \A j \in DOMAIN q : j + 1 \in DOMAIN e.queue /\ q[j] = e.queue[j + 1] /\ j \in Nat \ {0}
  BY <1>1, <1>2
<1>4. \A j \in DOMAIN q : j + 1 # i
  BY <1>3
<1>5. \A s \in Spot : /\ JobsOf(q, s) \subseteq JobsOf(e.queue, s)
                      /\ s = e.queue[i].who => JobsOf(q, s) = {}
  <2>1. \A s : JobsOf(q, s) \subseteq JobsOf(e.queue, s)
    BY <1>3 DEF JobsOf
  <2>2. ASSUME NEW s \in Spot, s = e.queue[i].who, NEW j \in DOMAIN q, q[j].who = s PROVE FALSE
    <3>1. j + 1 \in DOMAIN e.queue /\ e.queue[j + 1].who = e.queue[i].who
      BY <1>3, <2>2
    <3> QED
      BY <1>4, <2>2, <3>1 DEF EngineOK, QueueOK
  <2> QED
    BY <2>1, <2>2 DEF JobsOf
<1> QED
  BY <1>2, <1>3, <1>5 DEF Beheaded

-------------------------------------------------------------------------------
(* One surface.                                                              *)

\* Fewer renders queued for it, and the same palette: a surface is as right as before.
LEMMA SurfaceKept ==
  ASSUME NEW d, NEW jobs, NEW fewer, NEW library, NEW palette,
         SurfaceOK(d, jobs, library, palette), fewer \subseteq jobs
  PROVE  SurfaceOK(d, fewer, library, palette)
BY DEF SurfaceOK, Waits

LEMMA ResultTyped ==
  ASSUME NEW library, NEW source \in Source, NEW palette \in Palette
  PROVE  Result(library, source, palette) \in RenderResult
<1>1. Drawing(source, palette) \in Svg
  BY DEF Drawing, Svg
<1> QED
  BY <1>1 DEF Result, RenderResult, Failed, Drawn

\* A mounted surface is not null.
LEMMA SurfaceIsThere == ASSUME NEW d \in Surface PROVE d # None
BY DiagramAssumption

LEMMA MountOK ==
  ASSUME NEW source \in Source, root \in Palette, NEW library
  PROVE  Mount(source) # None /\ SurfaceOK(Mount(source), {}, library, root)
<1>1. Mount(source) \in Surface
  BY DEF Mount, Surface, FIRST_RENDER, Identity
<1> QED
  BY <1>1, SurfaceIsThere DEF Mount, SurfaceOK, Rests, Fits, FIRST_RENDER

\* renderDiagram answers at once or queues the one render the surface then waits for.
LEMMA Renders ==
  ASSUME DiagramInv, NEW s \in Spot, NEW d \in Surface, Fits(d), d.drawing, d.asked # None,
         d.next = None, d.outcome = None, d.render.status # "drawn", JobsOf(engine.queue, s) = {},
         Rendering(s, d, d.asked.source)
  PROVE  /\ EngineOK(engine') /\ engine'.library = engine.library
         /\ \A t \in Spot : t # s => JobsOf(engine'.queue, t) = JobsOf(engine.queue, t)
         /\ \E x : /\ shown' = [shown EXCEPT ![s] = x] /\ x # None
                   /\ SurfaceOK(x, JobsOf(engine'.queue, s), engine'.library, root)
<1>1. EngineOK(engine) /\ root \in Palette
  BY DEF DiagramInv, DiagramsTyped
<1>2. d.asked \in DiagramKey /\ d.asked.source \in Source
  BY DEF Surface, DiagramKey
<1>3. PICK source : source = d.asked.source
  OBVIOUS
<1>4. PICK key : key = Keyed(root, source)
  OBVIOUS
<1>5. key.signature = root /\ key.source = source /\ source \in Source
  BY <1>2, <1>3, <1>4 DEF Keyed
<1>6. CASE Hits(engine.cache, key) # {}
  <2>1. PICK x : x = [d EXCEPT !.outcome = Drawn(Cached(engine.cache, key))]
    OBVIOUS
  <2>2. shown' = [shown EXCEPT ![s] = x] /\ engine' = [engine EXCEPT !.cache = CachedRender(@, key)]
    BY <1>3, <1>4, <1>6, <2>1 DEF Rendering
  <2>3. EngineOK(engine') /\ engine'.library = "loaded" /\ engine.library = "loaded"
        /\ engine'.queue = engine.queue
    BY <1>1, <1>6, <2>2, HitKeeps
  <2>4. Drawn(Cached(engine.cache, key)) = Result("loaded", source, root)
    BY <1>1, <1>5, <1>6, CachedOK DEF EngineOK, Result
  <2>5. PICK result : result = Result("loaded", source, root)
    OBVIOUS
  <2>6. result \in RenderResult
    BY <1>1, <1>5, <2>5, ResultTyped
  <2>7. x = [d EXCEPT !.outcome = result]
    BY <2>1, <2>4, <2>5
  <2>8. x \in Surface /\ x.outcome = result /\ x.asked = d.asked /\ x.next = None /\ x.drawing
        /\ x.render = d.render /\ Fits(x)
    BY <2>6, <2>7 DEF Surface, Fits
  <2>9. Answers("loaded", x.asked, x.outcome, root)
    <3>1. "loaded" # None /\ root \in Palette /\ x.asked.source = source
      BY <1>1, <1>3, <2>8, DiagramAssumption
    <3> QED
      BY <2>5, <2>8, <3>1 DEF Answers
  <2>10. SurfaceOK(x, {}, "loaded", root)
    BY <2>8, <2>9 DEF SurfaceOK, Waits
  <2> QED
    BY <2>2, <2>3, <2>8, <2>10, SurfaceIsThere
<1>7. CASE Hits(engine.cache, key) = {}
  <2>1. PICK job : job = [who |-> s, source |-> source, signature |-> None]
    OBVIOUS
  <2>2. shown' = [shown EXCEPT ![s] = d] /\ engine' = [engine EXCEPT !.queue = Append(@, job)]
    BY <1>3, <1>4, <1>7, <2>1 DEF Rendering
  <2>3. job \in Job /\ job.signature = None /\ job.who = s /\ job.source = source
    BY <1>5, <2>1 DEF Job
  <2>4. /\ EngineOK(engine') /\ engine'.library = engine.library
        /\ \A t \in Spot : t # s => JobsOf(engine'.queue, t) = JobsOf(engine.queue, t)
        /\ JobsOf(engine'.queue, s) \subseteq {job}
    <3>1. PICK f : f = engine' /\ f = [engine EXCEPT !.queue = Append(@, job)]
      BY <2>2
    <3>2. JobsOf(engine.queue, job.who) = {}
      BY <2>3
    <3>3. Joined(engine, f, job)
      BY <1>1, <2>3, <3>1, <3>2, Enqueued
    <3> QED
      BY <2>3, <3>1, <3>3 DEF Joined
  <2>5. SurfaceOK(d, {job}, engine.library, root)
    BY <1>3, <2>3 DEF SurfaceOK, Waits
  <2>6. SurfaceOK(d, JobsOf(engine'.queue, s), engine'.library, root)
    BY <2>4, <2>5, SurfaceKept
  <2> QED
    BY <2>2, <2>4, <2>6, SurfaceIsThere
<1> QED
  BY <1>6, <1>7

\* What each action has to show of a surface.
Right(s) ==
  IF shown[s] = None THEN JobsOf(engine.queue, s) = {}
  ELSE SurfaceOK(shown[s], JobsOf(engine.queue, s), engine.library, root)

LEMMA OthersKept ==
  ASSUME DiagramInv, root' = root, engine'.library = engine.library, NEW s \in Spot,
         shown'[s] = shown[s], JobsOf(engine'.queue, s) \subseteq JobsOf(engine.queue, s)
  PROVE  Right(s)'
<1>1. CASE shown[s] = None
  BY <1>1 DEF DiagramInv, Right
<1>2. CASE shown[s] # None
  <2>1. SurfaceOK(shown[s], JobsOf(engine.queue, s), engine.library, root)
    BY <1>2 DEF DiagramInv
  <2>2. SurfaceOK(shown'[s], JobsOf(engine'.queue, s), engine'.library, root')
    BY <2>1, SurfaceKept
  <2> QED
    BY <1>2, <2>2 DEF Right
<1> QED
  BY <1>1, <1>2

LEMMA AllRight ==
  ASSUME DiagramsTyped', EngineOK(engine'), \A s \in Spot : Right(s)'
  PROVE  DiagramInv'
BY DEF DiagramInv, Right

\* One surface changes, and those that do not lose no more than renders.
LEMMA OneChanges ==
  ASSUME DiagramInv, DiagramsTyped', NEW s \in Spot, NEW x, shown' = [shown EXCEPT ![s] = x],
         root' = root, EngineOK(engine'), engine'.library = engine.library,
         \A t \in Spot : t # s => JobsOf(engine'.queue, t) \subseteq JobsOf(engine.queue, t),
         IF x = None THEN JobsOf(engine'.queue, s) = {}
         ELSE SurfaceOK(x, JobsOf(engine'.queue, s), engine'.library, root)
  PROVE  DiagramInv'
<1>1. DOMAIN shown = Spot
  BY DEF DiagramInv, DiagramsTyped
<1>2. \A t \in Spot : t # s => Right(t)'
  BY <1>1, OthersKept
<1>3. Right(s)'
  <2>1. shown'[s] = x
    BY <1>1
  <2> QED
    BY <2>1 DEF Right
<1> QED
  BY <1>2, <1>3, AllRight

\* What the window types stays typed while neither a text nor the panel comes or goes.
LEMMA TypedKept ==
  ASSUME DiagramInv, UNCHANGED <<draft, blocks>>, root' \in Palette, DOMAIN shown' = Spot,
         shown'["panel"] = None <=> shown["panel"] = None
  PROVE  DiagramsTyped'
BY DEF DiagramInv, DiagramsTyped

LEMMA EffectRunsKeeps == ASSUME DiagramInv, EffectRuns PROVE DiagramInv'
<1>1. PICK s, d :
        /\ s \in Spot /\ shown[s] # None /\ ~Flushed(shown[s])
        /\ d = [shown[s] EXCEPT !.asked = Keyed(shown[s].heard, shown[s].source),
                                !.render.status = "pending"]
        /\ IF d.drawing
           THEN shown' = [shown EXCEPT ![s] = [d EXCEPT !.next = d.source]] /\ engine' = engine
           ELSE Rendering(s, [d EXCEPT !.drawing = TRUE], d.source)
        /\ UNCHANGED <<root, draft, blocks, diagramTurns>>
  BY DEF EffectRuns
<1>2. /\ SurfaceOK(shown[s], JobsOf(engine.queue, s), engine.library, root)
      /\ EngineOK(engine) /\ root \in Palette /\ DOMAIN shown = Spot
  BY <1>1 DEF DiagramInv, DiagramsTyped
<1>3. shown[s] \in Surface
  BY <1>2 DEF SurfaceOK
<1>4. PICK key : key = Keyed(shown[s].heard, shown[s].source)
  OBVIOUS
<1>5. key \in DiagramKey /\ key.source = shown[s].source /\ shown[s].source \in Source
  BY <1>3, <1>4 DEF Surface, DiagramKey, Keyed
<1>6. PICK render : render = [shown[s].render EXCEPT !.status = "pending"]
  OBVIOUS
<1>7. /\ render \in [status : {"pending", "drawn", "error"}, drawn : Svg \cup {None}]
      /\ render.status = "pending"
  BY <1>3, <1>6 DEF Surface
<1>8. d = [shown[s] EXCEPT !.asked = key, !.render = render]
  BY <1>1, <1>3, <1>4, <1>6 DEF Surface
<1>9. /\ d \in Surface /\ d.asked = key /\ d.source = key.source /\ d.render = render
      /\ d.next = shown[s].next /\ d.outcome = shown[s].outcome /\ d.drawing = shown[s].drawing
      /\ d.view = shown[s].view /\ d.laid = shown[s].laid /\ d.adjusted = shown[s].adjusted
  BY <1>3, <1>5, <1>7, <1>8 DEF Surface
<1>10. key # None /\ key.source # None
  BY <1>5, DiagramAssumption
<1>11. CASE d.drawing
  <2>1. PICK x : x = [d EXCEPT !.next = d.source]
    OBVIOUS
  <2>2. /\ x \in Surface /\ x.next = key.source /\ x.asked = key /\ x.outcome = d.outcome
        /\ x.render = render /\ x.drawing /\ Fits(x)
    BY <1>2, <1>5, <1>9, <1>11, <2>1 DEF Surface, SurfaceOK, Fits
  <2>3. SurfaceOK(x, JobsOf(engine.queue, s), engine.library, root)
    BY <1>2, <1>7, <1>9, <1>10, <1>11, <2>2 DEF SurfaceOK, Waits
  <2>4. shown' = [shown EXCEPT ![s] = x] /\ engine' = engine /\ x # None /\ root' = root
    BY <1>1, <1>11, <2>1, <2>2, SurfaceIsThere
  <2>5. DiagramsTyped'
    BY <1>1, <1>2, <2>4, TypedKept
  <2> QED
    BY <1>1, <1>2, <2>3, <2>4, <2>5, OneChanges
<1>12. CASE ~d.drawing
  <2>1. PICK x : x = [d EXCEPT !.drawing = TRUE]
    OBVIOUS
  <2>2. /\ x \in Surface /\ x.next = d.next /\ x.asked = key /\ x.outcome = d.outcome
        /\ x.render = render /\ x.drawing /\ Fits(x)
    BY <1>2, <1>9, <2>1 DEF Surface, SurfaceOK, Fits
  <2>3. JobsOf(engine.queue, s) = {} /\ x.next = None /\ x.outcome = None
    BY <1>2, <1>9, <1>12, <2>2 DEF SurfaceOK
  <2>4. Rendering(s, x, x.asked.source)
    BY <1>1, <1>9, <1>12, <2>1, <2>2
  <2>5. /\ EngineOK(engine') /\ engine'.library = engine.library
        /\ \A t \in Spot : t # s => JobsOf(engine'.queue, t) = JobsOf(engine.queue, t)
        /\ \E y : /\ shown' = [shown EXCEPT ![s] = y] /\ y # None
                  /\ SurfaceOK(y, JobsOf(engine'.queue, s), engine'.library, root)
    BY <1>1, <1>7, <1>10, <2>2, <2>3, <2>4, Renders
  <2>6. PICK y : /\ shown' = [shown EXCEPT ![s] = y] /\ y # None
                 /\ SurfaceOK(y, JobsOf(engine'.queue, s), engine'.library, root)
    BY <2>5
  <2>7. DiagramsTyped'
    BY <1>1, <1>2, <2>6, TypedKept
  <2> QED
    BY <1>1, <2>5, <2>6, <2>7, OneChanges
<1> QED
  BY <1>11, <1>12

LEMMA LandsKeeps == ASSUME DiagramInv, Lands PROVE DiagramInv'
<1>1. PICK s, d :
        /\ s \in Spot /\ d = shown[s] /\ d # None /\ d.outcome # None
        /\ IF d.next # None
           THEN /\ Rendering(s, [d EXCEPT !.next = None, !.outcome = None], d.next)
                /\ blocks' = blocks
           ELSE LET opens == s \in Block /\ ~d.outcome.ok /\ ~blocks[s].pinned IN
                /\ shown' = [shown EXCEPT ![s] = IF opens THEN None ELSE Settled(d)]
                /\ blocks' = IF opens THEN [blocks EXCEPT ![s].mode = "source"] ELSE blocks
                /\ engine' = engine
        /\ UNCHANGED <<root, draft, diagramTurns>>
  BY DEF Lands
<1>2. /\ SurfaceOK(d, JobsOf(engine.queue, s), engine.library, root)
      /\ EngineOK(engine) /\ root \in Palette /\ DOMAIN shown = Spot
  BY <1>1 DEF DiagramInv, DiagramsTyped
<1>3. d \in Surface
  BY <1>2 DEF SurfaceOK
<1>4. /\ d.drawing /\ d.asked # None /\ d.render.status # "drawn" /\ Fits(d)
      /\ Waits(d, JobsOf(engine.queue, s), root)
      /\ d.next = None => Answers(engine.library, d.asked, d.outcome, root)
  BY <1>1, <1>2 DEF SurfaceOK
<1>5. JobsOf(engine.queue, s) = {}
  BY <1>1, <1>4 DEF Waits
<1>6. CASE d.next # None
  <2>1. PICK x : x = [d EXCEPT !.next = None, !.outcome = None]
    OBVIOUS
  <2>2. /\ x \in Surface /\ x.next = None /\ x.asked = d.asked /\ x.outcome = None
        /\ x.render = d.render /\ x.drawing /\ Fits(x)
    BY <1>3, <1>4, <2>1 DEF Surface, Fits
  <2>3. Rendering(s, x, x.asked.source) /\ blocks' = blocks
    BY <1>1, <1>4, <1>6, <2>1, <2>2 DEF Waits
  <2>4. /\ EngineOK(engine') /\ engine'.library = engine.library
        /\ \A t \in Spot : t # s => JobsOf(engine'.queue, t) = JobsOf(engine.queue, t)
        /\ \E y : /\ shown' = [shown EXCEPT ![s] = y] /\ y # None
                  /\ SurfaceOK(y, JobsOf(engine'.queue, s), engine'.library, root)
    BY <1>1, <1>4, <1>5, <2>2, <2>3, Renders
  <2>5. PICK y : /\ shown' = [shown EXCEPT ![s] = y] /\ y # None
                 /\ SurfaceOK(y, JobsOf(engine'.queue, s), engine'.library, root)
    BY <2>4
  <2>6. DiagramsTyped'
    BY <1>1, <1>2, <2>3, <2>5, TypedKept
  <2> QED
    BY <1>1, <2>4, <2>5, <2>6, OneChanges
<1>7. CASE d.next = None
  <2>1. PICK opens \in BOOLEAN :
          /\ opens = (s \in Block /\ ~d.outcome.ok /\ ~blocks[s].pinned)
          /\ shown' = [shown EXCEPT ![s] = IF opens THEN None ELSE Settled(d)]
          /\ blocks' = IF opens THEN [blocks EXCEPT ![s].mode = "source"] ELSE blocks
          /\ engine' = engine /\ root' = root /\ draft' = draft
    BY <1>1, <1>7
  <2>2. PICK render :
          render = IF d.outcome.ok THEN [status |-> "drawn", drawn |-> d.outcome.svg]
                   ELSE [d.render EXCEPT !.status = "error"]
    OBVIOUS
  <2>3. PICK x : x = [d EXCEPT !.drawing = FALSE, !.outcome = None, !.valid = d.outcome.ok,
                               !.render = render]
    OBVIOUS
  <2>4. d.outcome \in RenderResult /\ d.outcome.ok \in BOOLEAN
    BY <1>1, <1>3 DEF Surface, RenderResult
  <2>5. /\ render \in [status : {"pending", "drawn", "error"}, drawn : Svg \cup {None}]
        /\ render.status = (IF d.outcome.ok THEN "drawn" ELSE "error")
        /\ d.outcome.ok => render.drawn = d.outcome.svg
    BY <1>3, <2>2, <2>4 DEF Surface, RenderResult
  <2>6. Settled(d) = x
    BY <2>2, <2>3 DEF Settled
  <2>7. /\ x \in Surface /\ ~x.drawing /\ x.outcome = None /\ x.next = None /\ x.asked = d.asked
        /\ x.valid = d.outcome.ok /\ x.render = render /\ Fits(x)
    <3>1. x \in Surface
      BY <1>3, <2>3, <2>4, <2>5 DEF Surface
    <3>2. /\ ~x.drawing /\ x.outcome = None /\ x.next = None /\ x.asked = d.asked
          /\ x.valid = d.outcome.ok /\ x.render = render
          /\ x.laid = d.laid /\ x.view = d.view /\ x.adjusted = d.adjusted
      BY <1>3, <1>7, <2>3 DEF Surface
    <3> QED
      BY <1>4, <3>1, <3>2 DEF Fits
  <2>8. SurfaceOK(x, JobsOf(engine.queue, s), engine.library, root)
    BY <1>4, <1>5, <1>7, <2>4, <2>5, <2>7 DEF SurfaceOK, Rests
  <2>9. s = "panel" => ~opens
    BY <2>1, DiagramAssumption
  <2>10. DOMAIN shown' = Spot /\ (shown'["panel"] = None <=> shown["panel"] = None)
    BY <1>1, <1>2, <2>1, <2>6, <2>7, <2>9, SurfaceIsThere
  <2>11. DiagramsTyped'
    <3>1. DOMAIN blocks' = DOMAIN blocks /\ \A b \in Block : b \in DOMAIN blocks =>
            (DOMAIN blocks'[b] = DOMAIN blocks[b] /\ blocks'[b].text = blocks[b].text)
      BY <2>1
    <3> QED
      BY <1>2, <2>1, <2>10, <3>1 DEF DiagramInv, DiagramsTyped
  <2>12. PICK y : y = (IF opens THEN None ELSE x) /\ shown' = [shown EXCEPT ![s] = y]
    BY <2>1, <2>6
  <2>13. IF y = None THEN JobsOf(engine'.queue, s) = {}
         ELSE SurfaceOK(y, JobsOf(engine'.queue, s), engine'.library, root)
    BY <1>5, <2>1, <2>8, <2>12
  <2> QED
    BY <1>1, <1>2, <2>1, <2>11, <2>12, <2>13, OneChanges
<1> QED
  BY <1>6, <1>7

\* What is on the canvas, the props and the palette heard do not decide what is drawn.
LEMMA SameRender ==
  ASSUME NEW d, NEW jobs, NEW library, NEW palette, SurfaceOK(d, jobs, library, palette),
         NEW x \in Surface, Fits(x), x.asked = d.asked, x.next = d.next, x.drawing = d.drawing,
         x.outcome = d.outcome, x.render = d.render, x.valid = d.valid
  PROVE  SurfaceOK(x, jobs, library, palette)
BY DEF SurfaceOK, Waits, Rests

\* A surface that stays is given another view, other props or the palette.
LEMMA ViewChanges ==
  ASSUME DiagramInv, NEW s \in Spot, shown[s] # None, NEW x \in Surface, Fits(x),
         x.asked = shown[s].asked, x.next = shown[s].next, x.drawing = shown[s].drawing,
         x.outcome = shown[s].outcome, x.render = shown[s].render, x.valid = shown[s].valid,
         shown' = [shown EXCEPT ![s] = x], UNCHANGED <<root, engine>>, DiagramsTyped'
  PROVE  DiagramInv'
<1>1. SurfaceOK(shown[s], JobsOf(engine.queue, s), engine.library, root)
  BY DEF DiagramInv
<1>2. SurfaceOK(x, JobsOf(engine.queue, s), engine.library, root)
  BY <1>1, SameRender
<1>3. EngineOK(engine') /\ x # None
  BY SurfaceIsThere DEF DiagramInv
<1> QED
  BY <1>2, <1>3, OneChanges

LEMMA MountedTyped ==
  ASSUME DiagramInv, NEW s \in Spot, shown[s] # None
  PROVE  shown[s] \in Surface /\ Fits(shown[s]) /\ DOMAIN shown = Spot /\ root \in Palette
BY DEF DiagramInv, SurfaceOK, DiagramsTyped

LEMMA HearsPaletteKeeps == ASSUME DiagramInv, HearsPalette PROVE DiagramInv'
<1>1. PICK s \in Spot : /\ shown[s] # None
                        /\ shown' = [shown EXCEPT ![s].heard = root]
                        /\ UNCHANGED <<root, draft, blocks, engine>>
  BY DEF HearsPalette
<1>2. shown[s] \in Surface /\ Fits(shown[s]) /\ DOMAIN shown = Spot /\ root \in Palette
  BY <1>1, MountedTyped
<1>3. PICK x : x = [shown[s] EXCEPT !.heard = root]
  OBVIOUS
<1>4. shown' = [shown EXCEPT ![s] = x]
  BY <1>1, <1>3
<1>5. /\ x \in Surface /\ Fits(x) /\ x.asked = shown[s].asked /\ x.next = shown[s].next
      /\ x.drawing = shown[s].drawing /\ x.outcome = shown[s].outcome
      /\ x.render = shown[s].render /\ x.valid = shown[s].valid
  BY <1>2, <1>3 DEF Surface, Fits
<1>6. DiagramsTyped'
  BY <1>1, <1>2, <1>4, <1>5, SurfaceIsThere, TypedKept
<1> QED
  BY <1>1, <1>4, <1>5, <1>6, ViewChanges

LEMMA LaidOutKeeps == ASSUME DiagramInv, LaidOut PROVE DiagramInv'
<1>1. PICK s : /\ s \in {"panel", "full"} /\ shown[s] # None
               /\ shown' = [shown EXCEPT ![s].laid = Size(shown[s].render),
                                         ![s].view = IF shown[s].adjusted THEN @
                                                     ELSE Fit(Size(shown[s].render))]
               /\ UNCHANGED <<root, draft, blocks, engine>>
  BY DEF LaidOut
<1>2. s \in Spot
  BY <1>1 DEF Spot
<1>3. shown[s] \in Surface /\ Fits(shown[s]) /\ DOMAIN shown = Spot /\ root \in Palette
  BY <1>1, <1>2, MountedTyped
<1>4. PICK size : size = Size(shown[s].render)
  OBVIOUS
<1>5. size \in Layout
  BY <1>3, <1>4 DEF Surface, Size, Layout, Svg
<1>6. PICK view : view = IF shown[s].adjusted THEN shown[s].view ELSE Fit(size)
  OBVIOUS
<1>7. view \in [kind : {"identity", "moved", "fit"}, of : Layout \cup {None}]
  BY <1>3, <1>5, <1>6 DEF Surface, Fit
<1>8. PICK x : x = [shown[s] EXCEPT !.laid = size, !.view = view]
  OBVIOUS
<1>9. shown' = [shown EXCEPT ![s] = x]
  <2>1. shown' = [[shown EXCEPT ![s].laid = size] EXCEPT
                    ![s].view = IF shown[s].adjusted THEN @ ELSE Fit(size)]
    BY <1>1, <1>4
  <2>2. shown' = [shown EXCEPT ![s] = [[shown[s] EXCEPT !.laid = size] EXCEPT !.view = view]]
    BY <1>2, <1>3, <1>6, <2>1 DEF Surface
  <2> QED
    BY <1>8, <2>2
<1>10. /\ x \in Surface /\ Fits(x) /\ x.asked = shown[s].asked /\ x.next = shown[s].next
       /\ x.drawing = shown[s].drawing /\ x.outcome = shown[s].outcome
       /\ x.render = shown[s].render /\ x.valid = shown[s].valid
  <2>1. /\ x.laid = size /\ x.view = view /\ x.adjusted = shown[s].adjusted
        /\ x.asked = shown[s].asked /\ x.next = shown[s].next
        /\ x.drawing = shown[s].drawing /\ x.outcome = shown[s].outcome
        /\ x.render = shown[s].render /\ x.valid = shown[s].valid
    BY <1>3, <1>8 DEF Surface
  <2>2. x \in Surface
    BY <1>3, <1>5, <1>7, <1>8 DEF Surface
  <2>3. Fits(x)
    BY <1>6, <2>1 DEF Fits
  <2> QED
    BY <2>1, <2>2, <2>3
<1>11. DiagramsTyped'
  <2>1. shown[s] # None /\ x # None
    BY <1>1, <1>10, SurfaceIsThere
  <2>2. DOMAIN shown' = Spot /\ (shown'["panel"] = None <=> shown["panel"] = None)
    BY <1>2, <1>3, <1>9, <2>1
  <2>3. UNCHANGED <<draft, blocks>> /\ root' \in Palette
    BY <1>1, <1>3
  <2> QED
    BY <2>2, <2>3, TypedKept
<1> QED
  BY <1>1, <1>2, <1>9, <1>10, <1>11, ViewChanges

\* A surface that differs from d in its view, its props or its palette.
SameDrawing(x, d) ==
  /\ x \in Surface /\ Fits(x) /\ x.asked = d.asked /\ x.next = d.next
  /\ x.drawing = d.drawing /\ x.outcome = d.outcome
  /\ x.render = d.render /\ x.valid = d.valid

\* The view is taken over, or fitted to what is laid out.
LEMMA Viewed ==
  ASSUME NEW d \in Surface, NEW view \in {MovedView, Identity, Fit(d.laid)},
         NEW adjusted \in BOOLEAN, adjusted \/ view = Fit(d.laid),
         NEW x, x = [d EXCEPT !.view = view, !.adjusted = adjusted]
  PROVE  SameDrawing(x, d)
<1>1. {MovedView, Identity, Fit(d.laid)}
        \subseteq [kind : {"identity", "moved", "fit"}, of : Layout \cup {None}]
  BY DEF Surface, Fit, MovedView, Identity
<1>2. view \in [kind : {"identity", "moved", "fit"}, of : Layout \cup {None}]
  BY <1>1
<1>3. x \in Surface
  BY <1>2 DEF Surface
<1>4. /\ x.asked = d.asked /\ x.next = d.next /\ x.drawing = d.drawing
      /\ x.outcome = d.outcome /\ x.render = d.render /\ x.valid = d.valid
      /\ x.laid = d.laid /\ x.view = view /\ x.adjusted = adjusted
  BY DEF Surface
<1> QED
  BY <1>3, <1>4 DEF Fits, SameDrawing

LEMMA MoveViewKeeps == ASSUME DiagramInv, MoveView PROVE DiagramInv'
<1>1. PICK s, x : /\ s \in {"panel", "full"} /\ shown[s] # None
                  /\ shown[s].laid = Size(shown[s].render)
                  /\ x \in {Zoomed(shown[s]), Panned(shown[s]), Reset(shown[s]), Fitted(shown[s])}
                  /\ shown' = [shown EXCEPT ![s] = x]
                  /\ UNCHANGED <<root, draft, blocks, engine>>
  BY DEF MoveView
<1>2. s \in Spot
  BY <1>1 DEF Spot
<1>3. shown[s] \in Surface /\ Fits(shown[s]) /\ DOMAIN shown = Spot /\ root \in Palette
  BY <1>1, <1>2, MountedTyped
<1>4. /\ x \in Surface /\ Fits(x) /\ x.asked = shown[s].asked /\ x.next = shown[s].next
      /\ x.drawing = shown[s].drawing /\ x.outcome = shown[s].outcome
      /\ x.render = shown[s].render /\ x.valid = shown[s].valid
  <2>1. PICK d, moved, fit : d = shown[s] /\ moved = MovedView /\ fit = Fit(d.laid)
    OBVIOUS
  <2>2. d \in Surface
    BY <1>3, <2>1
  <2>3. CASE x = [d EXCEPT !.view = moved, !.adjusted = TRUE]
    <3>1. SameDrawing(x, d)
      BY <2>1, <2>2, <2>3, Viewed
    <3> QED
      BY <2>1, <3>1 DEF SameDrawing
  <2>4. CASE x = [d EXCEPT !.view = Identity, !.adjusted = TRUE]
    <3>1. PICK identity : identity = Identity
      OBVIOUS
    <3>2. x = [d EXCEPT !.view = identity, !.adjusted = TRUE]
      BY <2>4, <3>1
    <3>3. SameDrawing(x, d)
      BY <2>1, <2>2, <3>1, <3>2, Viewed
    <3> QED
      BY <2>1, <3>3 DEF SameDrawing
  <2>5. CASE x = [d EXCEPT !.view = fit]
    <3>1. d.adjusted \in BOOLEAN
      BY <2>2 DEF Surface
    <3>2. x = [d EXCEPT !.view = fit, !.adjusted = d.adjusted]
      BY <2>2, <2>5 DEF Surface
    <3>3. SameDrawing(x, d)
      BY <2>1, <2>2, <3>1, <3>2, Viewed
    <3> QED
      BY <2>1, <3>3 DEF SameDrawing
  <2>6. \/ x = [d EXCEPT !.view = moved, !.adjusted = TRUE]
        \/ x = [d EXCEPT !.view = Identity, !.adjusted = TRUE]
        \/ x = [d EXCEPT !.view = fit]
    BY <1>1, <2>1 DEF Zoomed, Panned, Reset, Fitted
  <2> QED
    BY <2>3, <2>4, <2>5, <2>6
<1>5. DiagramsTyped'
  BY <1>1, <1>2, <1>3, <1>4, SurfaceIsThere, TypedKept
<1> QED
  BY <1>1, <1>2, <1>4, <1>5, ViewChanges

\* Another source for a surface that is mounted.
LEMMA Sourced ==
  ASSUME DiagramInv, NEW s \in Spot, shown[s] # None, NEW source \in Source,
         shown' = [shown EXCEPT ![s].source = source], UNCHANGED <<root, engine>>, DiagramsTyped'
  PROVE  DiagramInv'
<1>1. shown[s] \in Surface /\ Fits(shown[s]) /\ DOMAIN shown = Spot /\ root \in Palette
  BY MountedTyped
<1>2. PICK x : x = [shown[s] EXCEPT !.source = source]
  OBVIOUS
<1>3. shown' = [shown EXCEPT ![s] = x]
  BY <1>2
<1>4. /\ x \in Surface /\ Fits(x) /\ x.asked = shown[s].asked /\ x.next = shown[s].next
      /\ x.drawing = shown[s].drawing /\ x.outcome = shown[s].outcome
      /\ x.render = shown[s].render /\ x.valid = shown[s].valid
  BY <1>1, <1>2 DEF Surface, Fits
<1> QED
  BY <1>3, <1>4, ViewChanges

-------------------------------------------------------------------------------
(* The engine's steps.                                                       *)

\* Nothing was answered before the library came.
LEMMA LibraryLoads ==
  ASSUME NEW d, NEW jobs, NEW palette, SurfaceOK(d, jobs, None, palette), NEW library
  PROVE  SurfaceOK(d, jobs, library, palette)
BY DEF SurfaceOK, Rests, Answers

LEMMA LoadMermaidKeeps == ASSUME DiagramInv, LoadMermaid PROVE DiagramInv'
<1>1. PICK library \in {"loaded", "failed"} :
        /\ engine.library = None /\ engine' = [engine EXCEPT !.library = library]
        /\ UNCHANGED <<root, draft, blocks, shown>>
  BY DEF LoadMermaid
<1>2. EngineOK(engine) /\ root \in Palette
  BY DEF DiagramInv, DiagramsTyped
<1>3. /\ engine'.queue = engine.queue /\ engine'.library = library
      /\ engine' = [queue |-> engine.queue, config |-> engine.config, library |-> library,
                    cache |-> engine.cache]
  BY <1>1, <1>2 DEF EngineOK
<1>4. EngineOK(engine')
  <2>1. "loaded" # None
    BY DiagramAssumption
  <2>2. \A i \in DOMAIN engine.queue : engine.queue[i].signature = None
    BY <1>1, <1>2, <2>1 DEF EngineOK, QueueOK
  <2>3. engine.cache = <<>>
    BY <1>1, <1>2, <2>1 DEF EngineOK
  <2>4. QueueOK(engine')
    BY <1>2, <1>3, <2>2 DEF EngineOK, QueueOK
  <2> QED
    BY <1>2, <1>3, <2>3, <2>4 DEF EngineOK
<1>5. ASSUME NEW s \in Spot PROVE Right(s)'
  <2>1. CASE shown[s] = None
    BY <1>1, <1>3, <2>1 DEF DiagramInv, Right
  <2>2. CASE shown[s] # None
    <3>1. SurfaceOK(shown[s], JobsOf(engine.queue, s), None, root)
      BY <1>1, <2>2 DEF DiagramInv
    <3>2. SurfaceOK(shown[s], JobsOf(engine.queue, s), library, root)
      BY <3>1, LibraryLoads
    <3> QED
      BY <1>1, <1>3, <2>2, <3>2 DEF Right
  <2> QED
    BY <2>1, <2>2
<1>6. DiagramsTyped'
  BY <1>1, <1>2, TypedKept DEF DiagramInv, DiagramsTyped
<1> QED
  BY <1>4, <1>5, <1>6, AllRight

\* The render at the head reads the app's palette.
LEMMA PaletteRead ==
  ASSUME NEW d, NEW jobs, NEW now, NEW library, NEW palette,
         SurfaceOK(d, jobs, library, palette),
         \A j \in now : \E k \in jobs : /\ j.source = k.source
                                        /\ j.signature = k.signature \/ j.signature = palette
  PROVE  SurfaceOK(d, now, library, palette)
<1>1. jobs = {} => now = {}
  OBVIOUS
<1>2. Waits(d, jobs, palette) => Waits(d, now, palette)
  BY <1>1 DEF Waits
<1> QED
  BY <1>1, <1>2 DEF SurfaceOK

LEMMA ConfigureKeeps == ASSUME DiagramInv, Configure PROVE DiagramInv'
<1>1. PICK i \in DOMAIN engine.queue :
        /\ engine.library = "loaded" /\ i = 1 /\ engine.queue[i].signature = None
        /\ engine' = [engine EXCEPT !.queue[i].signature = root, !.config = root]
        /\ UNCHANGED <<root, draft, blocks, shown>>
  BY DEF Configure, MayDraw
<1>2. EngineOK(engine) /\ root \in Palette
  BY DEF DiagramInv, DiagramsTyped
<1>3. engine.queue \in Seq(Job)
  BY <1>2 DEF EngineOK
<1>4. PICK job : job = [engine.queue[i] EXCEPT !.signature = root]
  OBVIOUS
<1>5. /\ job \in Job /\ job.who = engine.queue[i].who /\ job.source = engine.queue[i].source
      /\ job.signature = root
  <2>1. engine.queue[i] \in Job
    BY <1>3
  <2> QED
    BY <1>2, <1>4, <2>1 DEF Job
<1>6. PICK q : q = [engine.queue EXCEPT ![i] = job]
  OBVIOUS
<1>7. engine' = [queue |-> q, config |-> root, library |-> "loaded", cache |-> engine.cache]
  <2>1. engine' = [[engine EXCEPT !.queue[i].signature = root] EXCEPT !.config = root]
    BY <1>1
  <2>2. engine' = [[engine EXCEPT !.queue = q] EXCEPT !.config = root]
    BY <1>2, <1>4, <1>6, <2>1 DEF EngineOK
  <2> QED
    BY <1>1, <1>2, <2>2 DEF EngineOK
<1>8. /\ q \in Seq(Job) /\ DOMAIN q = DOMAIN engine.queue /\ q[i] = job
      /\ \A j \in DOMAIN q : j # i => q[j] = engine.queue[j]
  BY <1>3, <1>5, <1>6
<1>9. root # None
  BY <1>2, DiagramAssumption
<1>10. QueueOK(engine')
  <2>1. \A j \in DOMAIN q : q[j].who = engine.queue[j].who
    BY <1>5, <1>8
  <2>2. \A j, k \in DOMAIN q : q[j].who \in Spot /\ q[k].who = q[j].who => j = k
    BY <1>2, <1>8, <2>1 DEF EngineOK, QueueOK
  <2>3. \A j \in DOMAIN q : q[j].signature # None => j = 1 /\ root = q[j].signature
    BY <1>1, <1>2, <1>5, <1>8 DEF EngineOK, QueueOK
  <2> QED
    BY <1>7, <2>2, <2>3 DEF QueueOK
<1>11. EngineOK(engine')
  BY <1>2, <1>7, <1>8, <1>10 DEF EngineOK
<1>12. ASSUME NEW s \in Spot PROVE Right(s)'
  <2>0. /\ engine'.queue = q /\ engine'.library = "loaded" /\ engine.library = "loaded"
        /\ shown' = shown /\ root' = root
    <3>1. engine'.queue = q /\ engine'.library = "loaded"
      BY <1>7
    <3>2. engine.library = "loaded" /\ shown' = shown /\ root' = root
      BY <1>1, Zenon
    <3> QED
      BY <3>1, <3>2
  <2>1. \A j \in JobsOf(q, s) : \E k \in JobsOf(engine.queue, s) :
           /\ j.source = k.source
           /\ j.signature = k.signature \/ j.signature = root
    <3>1. ASSUME NEW n \in DOMAIN q, q[n].who = s
          PROVE  \E k \in JobsOf(engine.queue, s) :
                   /\ q[n].source = k.source
                   /\ q[n].signature = k.signature \/ q[n].signature = root
      <4>1. engine.queue[n] \in JobsOf(engine.queue, s)
        BY <1>5, <1>8, <3>1 DEF JobsOf
      <4> QED
        BY <1>5, <1>8, <4>1
    <3> QED
      BY <3>1 DEF JobsOf
  <2>2. CASE shown[s] = None
    <3>1. JobsOf(engine.queue, s) = {}
      BY <2>2 DEF DiagramInv
    <3> QED
      BY <2>0, <2>1, <2>2, <3>1 DEF Right
  <2>3. CASE shown[s] # None
    <3>1. SurfaceOK(shown[s], JobsOf(engine.queue, s), engine.library, root)
      BY <2>3 DEF DiagramInv
    <3>2. SurfaceOK(shown[s], JobsOf(q, s), "loaded", root)
      BY <1>1, <2>1, <3>1, PaletteRead
    <3> QED
      BY <2>0, <2>3, <3>2 DEF Right
  <2> QED
    BY <2>2, <2>3
<1>13. DiagramsTyped'
  BY <1>1, <1>2, TypedKept DEF DiagramInv, DiagramsTyped
<1> QED
  BY <1>11, <1>12, <1>13, AllRight

\* The palette a render is over in; one that never read any is a failure in every palette.
ReadBy(job, palette) == IF job.signature = None THEN palette ELSE job.signature

\* A render that can be over is the one at the head, and it has read a palette unless the
\* library is lost.
LEMMA DrawsHead ==
  ASSUME NEW e, EngineOK(e), NEW palette \in Palette, NEW i \in DOMAIN e.queue,
         NEW lost \in BOOLEAN, lost <=> (e.library = "failed" /\ i = 1),
         lost \/ e.queue[i].signature # None,
         NEW svg, svg = Drawing(e.queue[i].source, e.config), NEW outcome,
         outcome = IF lost \/ e.queue[i].source.body \in Broken THEN Failed ELSE Drawn(svg)
  PROVE  /\ i = 1 /\ e.queue[i] \in Job /\ e.library # None
         /\ outcome.ok => /\ EntryOK([key |-> Keyed(e.queue[i].signature, e.queue[i].source),
                                      svg |-> svg])
                          /\ e.library = "loaded"
         /\ \E p \in Palette : /\ outcome = Result(e.library, e.queue[i].source, p)
                               /\ p = ReadBy(e.queue[i], palette)
<1>1. e.queue \in Seq(Job)
  BY DEF EngineOK
<1>2. PICK job : job = e.queue[i]
  OBVIOUS
<1>3. job \in Job
  BY <1>1, <1>2
<1>4. job.signature # None => i = 1 /\ e.library = "loaded" /\ e.config = job.signature
  BY <1>2 DEF EngineOK, QueueOK
<1>5. i = 1 /\ e.library # None
  BY <1>2, <1>4, DiagramAssumption
<1>6. ~lost => job.signature # None /\ job.signature \in Palette
  BY <1>2, <1>3 DEF Job
<1>7. outcome.ok => /\ EntryOK([key |-> Keyed(job.signature, job.source), svg |-> svg])
                    /\ e.library = "loaded"
  <2>1. SUFFICES ASSUME outcome.ok
                 PROVE  /\ EntryOK([key |-> Keyed(job.signature, job.source), svg |-> svg])
                        /\ e.library = "loaded"
    OBVIOUS
  <2>2. ~lost /\ job.source.body \notin Broken
    BY <1>2, <2>1 DEF Failed
  <2>3. /\ job.signature \in Palette /\ job.source \in Source
        /\ svg = Drawing(job.source, job.signature) /\ e.library = "loaded"
    BY <1>2, <1>3, <1>4, <1>6, <2>2 DEF Job
  <2>4. svg \in Svg
    BY <2>3 DEF Drawing, Svg
  <2>5. Keyed(job.signature, job.source) \in DiagramKey
    BY <2>3 DEF Keyed, DiagramKey
  <2> QED
    BY <2>2, <2>3, <2>4, <2>5 DEF EntryOK, Entry, Keyed
<1>8. \E p \in Palette : /\ outcome = Result(e.library, job.source, p)
                         /\ p = ReadBy(job, palette)
  <2>1. CASE lost
    <3>1. e.library = "failed" /\ outcome = Failed /\ job.signature = None
      BY <1>4, <2>1
    <3> QED
      BY <3>1 DEF Result, ReadBy
  <2>2. CASE ~lost
    <3>1. /\ job.signature \in Palette /\ e.library = "loaded" /\ svg = Drawing(job.source, job.signature)
          /\ outcome = IF job.source.body \in Broken THEN Failed ELSE Drawn(svg)
      BY <1>2, <1>4, <1>6, <2>2
    <3> QED
      BY <1>6, <2>2, <3>1 DEF Result, ReadBy
  <2> QED
    BY <2>1, <2>2
<1> QED
  BY <1>2, <1>3, <1>5, <1>7, <1>8

\* What it leaves of the engine.
LEMMA DrawsEngine ==
  ASSUME NEW e, EngineOK(e), NEW i \in DOMAIN e.queue, i = 1, NEW q, q = RemoveAt(e.queue, i),
         NEW cache, CacheOK(cache), cache # <<>> => e.library = "loaded",
         NEW f, f = [queue |-> q, config |-> e.config, library |-> e.library, cache |-> cache]
  PROVE  EngineOK(f) /\ Beheaded(e, i, q)
<1>3. f.queue = q /\ f.config = e.config /\ f.library = e.library /\ f.cache = cache
  OBVIOUS
<1>4. /\ q \in Seq(Job)
      /\ \A j \in DOMAIN q : j + 1 \in DOMAIN e.queue /\ q[j] = e.queue[j + 1] /\ j \in Nat \ {0}
      /\ \A s \in Spot : /\ JobsOf(q, s) \subseteq JobsOf(e.queue, s)
                         /\ s = e.queue[i].who => JobsOf(q, s) = {}
  <2>1. Beheaded(e, i, q)
    BY HeadKeeps
  <2> QED
    BY <2>1 DEF Beheaded
<1>5. cache \in Seq(Entry)
  BY DEF CacheOK
<1>7. QueueOK(f)
  <2>1. \A j, k \in DOMAIN q : q[j].who \in Spot /\ q[k].who = q[j].who => j = k
    <3>1. ASSUME NEW j \in DOMAIN q, NEW k \in DOMAIN q, q[j].who \in Spot, q[k].who = q[j].who
          PROVE  j = k
      <4>1. j + 1 = k + 1 /\ j \in Nat /\ k \in Nat
        BY <1>4, <3>1 DEF EngineOK, QueueOK
      <4> QED
        BY <4>1
    <3> QED
      BY <3>1
  <2>2. \A j \in DOMAIN q : q[j].signature = None
    <3>1. ASSUME NEW j \in DOMAIN q, q[j].signature # None PROVE FALSE
      <4>1. j + 1 = 1 /\ j \in Nat \ {0}
        BY <1>4, <3>1 DEF EngineOK, QueueOK
      <4> QED
        BY <4>1
    <3> QED
      BY <3>1
  <2> QED
    BY <1>3, <2>1, <2>2 DEF QueueOK
<1>8. EngineOK(f)
  BY <1>3, <1>4, <1>5, <1>7 DEF EngineOK
<1> QED
  BY <1>8, HeadKeeps

\* The outcome is what its surface waits for.
LEMMA Outcome ==
  ASSUME NEW d, NEW jobs, NEW job \in jobs, job \in Job, NEW library, library # None,
         NEW palette \in Palette, SurfaceOK(d, jobs, library, palette),
         NEW outcome, NEW p \in Palette, outcome = Result(library, job.source, p),
         p = ReadBy(job, palette),
         NEW x, x = [d EXCEPT !.outcome = outcome]
  PROVE  x # None /\ SurfaceOK(x, {}, library, palette)
<1>1. d \in Surface /\ d.drawing /\ Fits(d)
  BY DEF SurfaceOK
<1>2. outcome \in RenderResult
  BY ResultTyped DEF Job
<1>3. /\ x \in Surface /\ x.outcome = outcome /\ x.asked = d.asked /\ x.next = d.next
      /\ x.render = d.render /\ x.drawing /\ Fits(x)
  BY <1>1, <1>2 DEF Surface, Fits
<1>4. d.asked # None /\ d.render.status # "drawn" /\ Waits(d, jobs, palette)
  BY <1>1 DEF SurfaceOK
<1>5. d.next = None => /\ job.source = d.asked.source
                       /\ d.asked.signature = palette => p = palette
  BY <1>4 DEF Waits, ReadBy
<1>6. d.next = None => Answers(library, d.asked, outcome, palette)
  BY <1>5 DEF Answers
<1>7. Waits(x, {}, palette)
  BY <1>3, <1>4 DEF Waits
<1> QED
  BY <1>3, <1>4, <1>6, <1>7, SurfaceIsThere DEF SurfaceOK

LEMMA DrawsKeeps == ASSUME DiagramInv, Draws PROVE DiagramInv'
<1> DEFINE Lost(i) == engine.library = "failed" /\ i = 1
           SvgOf(i) == Drawing(engine.queue[i].source, engine.config)
           OutcomeOf(i) == IF Lost(i) \/ engine.queue[i].source.body \in Broken THEN Failed
                          ELSE Drawn(SvgOf(i))
<1>0. PICK i \in DOMAIN engine.queue :
        /\ Lost(i) \/ engine.queue[i].signature # None
        /\ engine' = [engine EXCEPT !.queue = RemoveAt(@, i),
                        !.cache = IF OutcomeOf(i).ok
                                  THEN CacheRender(@, Keyed(engine.queue[i].signature,
                                                            engine.queue[i].source), SvgOf(i))
                                  ELSE @]
        /\ shown' = IF engine.queue[i].who \in Spot
                    THEN [shown EXCEPT ![engine.queue[i].who].outcome = OutcomeOf(i)]
                    ELSE shown
        /\ UNCHANGED <<root, draft, blocks, diagramTurns>>
  BY Zenon DEF Draws
<1>a. PICK lost \in BOOLEAN : lost <=> Lost(i)
  OBVIOUS
<1>b. PICK job, svg, outcome :
        job = engine.queue[i] /\ svg = SvgOf(i) /\ outcome = OutcomeOf(i)
  OBVIOUS
<1>1. /\ i \in DOMAIN engine.queue /\ job = engine.queue[i]
      /\ lost <=> (engine.library = "failed" /\ i = 1)
      /\ svg = Drawing(job.source, engine.config)
      /\ outcome = IF lost \/ job.source.body \in Broken THEN Failed ELSE Drawn(svg)
      /\ lost \/ job.signature # None
      /\ engine' = [engine EXCEPT !.queue = RemoveAt(@, i),
                      !.cache = IF outcome.ok
                                THEN CacheRender(@, Keyed(job.signature, job.source), svg)
                                ELSE @]
      /\ shown' = IF job.who \in Spot THEN [shown EXCEPT ![job.who].outcome = outcome]
                  ELSE shown
      /\ UNCHANGED <<root, draft, blocks, diagramTurns>>
  BY <1>0, <1>a, <1>b
<1> HIDE DEF Lost, SvgOf, OutcomeOf
<1>2. EngineOK(engine) /\ root \in Palette /\ DOMAIN shown = Spot
  BY DEF DiagramInv, DiagramsTyped
<1>3. PICK key : key = Keyed(job.signature, job.source)
  OBVIOUS
<1>4. /\ i = 1 /\ job \in Job /\ engine.library # None
      /\ outcome.ok => EntryOK([key |-> key, svg |-> svg]) /\ engine.library = "loaded"
      /\ \E p \in Palette : outcome = Result(engine.library, job.source, p) /\ p = ReadBy(job, root)
  <2>1. PICK e : e = engine
    OBVIOUS
  <2>2. /\ EngineOK(e) /\ i \in DOMAIN e.queue /\ lost \in BOOLEAN
        /\ lost <=> (e.library = "failed" /\ i = 1)
        /\ lost \/ e.queue[i].signature # None
        /\ svg = Drawing(e.queue[i].source, e.config)
        /\ outcome = IF lost \/ e.queue[i].source.body \in Broken THEN Failed ELSE Drawn(svg)
    BY <1>1, <1>2, <2>1
  <2>3. /\ i = 1 /\ e.queue[i] \in Job /\ e.library # None
        /\ outcome.ok => /\ EntryOK([key |-> Keyed(e.queue[i].signature, e.queue[i].source),
                                     svg |-> svg])
                         /\ e.library = "loaded"
        /\ \E p \in Palette : /\ outcome = Result(e.library, e.queue[i].source, p)
                              /\ p = ReadBy(e.queue[i], root)
    BY <1>2, <2>2, DrawsHead
  <2> QED
    BY <1>1, <1>3, <2>1, <2>3
<1>5. PICK p \in Palette : outcome = Result(engine.library, job.source, p) /\ p = ReadBy(job, root)
  BY <1>4
<1>6. outcome \in RenderResult /\ outcome.ok \in BOOLEAN
  <2>1. outcome \in RenderResult
    BY <1>4, <1>5, ResultTyped DEF Job
  <2> QED
    BY <2>1 DEF RenderResult
<1>7. PICK q : q = RemoveAt(engine.queue, i)
  OBVIOUS
<1>8. PICK cache :
        cache = IF outcome.ok THEN CacheRender(engine.cache, key, svg) ELSE engine.cache
  OBVIOUS
<1>9. engine' = [queue |-> q, config |-> engine.config, library |-> engine.library,
                 cache |-> cache]
  BY <1>1, <1>2, <1>3, <1>7, <1>8 DEF EngineOK
<1>10. CacheOK(cache) /\ (cache # <<>> => engine.library = "loaded")
  BY <1>2, <1>4, <1>8, CacheRenderOK DEF EngineOK
<1>11. /\ EngineOK(engine') /\ engine'.library = engine.library
       /\ \A s \in Spot : /\ JobsOf(engine'.queue, s) \subseteq JobsOf(engine.queue, s)
                          /\ s = job.who => JobsOf(engine'.queue, s) = {}
  <2>1. PICK f : f = [queue |-> q, config |-> engine.config, library |-> engine.library,
                      cache |-> cache]
    OBVIOUS
  <2>2. EngineOK(f) /\ Beheaded(engine, i, q)
    BY <1>1, <1>2, <1>4, <1>7, <1>10, <2>1, DrawsEngine
  <2>3. f.queue = q /\ f.library = engine.library /\ engine' = f
    BY <1>9, <2>1
  <2> QED
    BY <1>1, <2>2, <2>3 DEF Beheaded
<1>12. CASE job.who \in Spot
  <2>1. PICK s \in Spot : s = job.who
    BY <1>12
  <2>2. job \in JobsOf(engine.queue, s)
    BY <1>1, <2>1 DEF JobsOf
  <2>3. shown[s] # None /\ SurfaceOK(shown[s], JobsOf(engine.queue, s), engine.library, root)
    BY <2>2 DEF DiagramInv
  <2>4. PICK x : x = [shown[s] EXCEPT !.outcome = outcome]
    OBVIOUS
  <2>5. x # None /\ SurfaceOK(x, {}, engine.library, root)
    BY <1>2, <1>4, <1>5, <2>2, <2>3, <2>4, Outcome
  <2>6. shown' = [shown EXCEPT ![s] = x] /\ root' = root
    BY <1>1, <2>1, <2>4
  <2>7. DiagramsTyped'
    <3>1. DOMAIN shown' = Spot /\ (shown'["panel"] = None <=> shown["panel"] = None)
      BY <1>2, <2>3, <2>5, <2>6
    <3>2. UNCHANGED <<draft, blocks>> /\ root' \in Palette
      BY <1>1, <1>2
    <3> QED
      BY <3>1, <3>2, TypedKept
  <2>8. JobsOf(engine'.queue, s) = {}
    BY <1>11, <2>1
  <2> QED
    BY <1>11, <2>5, <2>6, <2>7, <2>8, OneChanges
<1>13. CASE job.who \notin Spot
  <2>1. shown' = shown /\ root' = root /\ UNCHANGED <<draft, blocks>>
    BY <1>1, <1>13
  <2>2. \A s \in Spot : Right(s)'
    BY <1>11, <2>1, OthersKept
  <2>3. DiagramsTyped'
    BY <1>2, <2>1, TypedKept
  <2> QED
    BY <1>11, <2>2, <2>3, AllRight
<1> QED
  BY <1>12, <1>13

-------------------------------------------------------------------------------
(* What the user does.                                                       *)

\* Whatever was asked for is not the other palette's.
LEMMA OtherPalette ==
  ASSUME NEW d, NEW jobs, NEW library, NEW palette, NEW other,
         SurfaceOK(d, jobs, library, palette), d.asked # None, d.asked.signature # other
  PROVE  SurfaceOK(d, jobs, library, other)
<1>1. Waits(d, jobs, palette) => Waits(d, jobs, other)
  BY DEF Waits
<1>2. ASSUME NEW outcome, Answers(library, d.asked, outcome, palette)
      PROVE  Answers(library, d.asked, outcome, other)
  BY <1>2 DEF Answers
<1>3. Rests(d, library, palette) => Rests(d, library, other)
  BY <1>2 DEF Rests
<1> QED
  BY <1>1, <1>2, <1>3 DEF SurfaceOK

LEMMA ApplyThemeKeeps == ASSUME DiagramInv, ApplyTheme PROVE DiagramInv'
<1>1. PICK palette \in Palette \ {root} :
        /\ root' = palette
        /\ \A s \in Spot : shown[s] # None => Flushed(shown[s]) /\ shown[s].heard = root
        /\ UNCHANGED <<draft, blocks, shown, engine>>
  BY DEF ApplyTheme
<1>2. EngineOK(engine') /\ DOMAIN shown = Spot
  BY <1>1 DEF DiagramInv, DiagramsTyped
<1>3. ASSUME NEW s \in Spot PROVE Right(s)'
  <2>1. CASE shown[s] = None
    BY <1>1, <2>1 DEF DiagramInv, Right
  <2>2. CASE shown[s] # None
    <3>1. SurfaceOK(shown[s], JobsOf(engine.queue, s), engine.library, root)
      BY <2>2 DEF DiagramInv
    <3>2. shown[s].asked = Keyed(root, shown[s].source) /\ shown[s].source \in Source
      BY <1>1, <2>2, <3>1 DEF Flushed, SurfaceOK, Surface
    <3>3. shown[s].asked \in DiagramKey /\ shown[s].asked.signature = root
      BY <3>2 DEF Keyed, DiagramKey, DiagramInv, DiagramsTyped
    <3>4. shown[s].asked # None
      BY <3>3, DiagramAssumption
    <3>5. SurfaceOK(shown[s], JobsOf(engine.queue, s), engine.library, palette)
      BY <1>1, <3>1, <3>3, <3>4, OtherPalette
    <3> QED
      BY <1>1, <2>2, <3>5 DEF Right
  <2> QED
    BY <2>1, <2>2
<1>4. DiagramsTyped'
  BY <1>1, <1>2, TypedKept
<1> QED
  BY <1>2, <1>3, <1>4, AllRight

\* Nothing of the surfaces, the palette or the engine changes.
LEMMA RestIsKept ==
  ASSUME DiagramInv, UNCHANGED <<root, shown, engine>>, DiagramsTyped'
  PROVE  DiagramInv'
BY DEF DiagramInv

LEMMA EditDraftKeeps == ASSUME DiagramInv, EditDraft PROVE DiagramInv'
<1>1. PICK body \in DiagramBody :
        /\ shown["panel"] # None
        /\ draft' = [source |-> [draft.source EXCEPT !.body = body],
                     typed |-> [draft.source EXCEPT !.body = body], timer |-> TRUE]
        /\ UNCHANGED <<root, blocks, shown, engine>>
  BY DEF EditDraft, Editing
<1>2. draft.source \in Source
  BY <1>1 DEF DiagramInv, DiagramsTyped
<1>3. PICK source : source = [draft.source EXCEPT !.body = body]
  OBVIOUS
<1>4. source \in Source
  BY <1>2, <1>3 DEF Source
<1>5. draft' = [source |-> source, typed |-> source, timer |-> TRUE]
  BY <1>1, <1>3
<1>6. DiagramsTyped'
  BY <1>1, <1>4, <1>5 DEF DiagramInv, DiagramsTyped
<1> QED
  BY <1>1, <1>6, RestIsKept

LEMMA DebounceFiresKeeps == ASSUME DiagramInv, DebounceFires PROVE DiagramInv'
<1>1. /\ draft.timer
      /\ draft' = [draft EXCEPT !.timer = FALSE]
      /\ shown' = [shown EXCEPT !["panel"].source = draft.source]
      /\ UNCHANGED <<root, blocks, engine>>
  BY DEF DebounceFires
<1>2. /\ shown["panel"] # None /\ draft.source \in Source /\ "panel" \in Spot
      /\ "source" \in DOMAIN draft /\ "timer" \in DOMAIN draft
  BY <1>1 DEF DiagramInv, DiagramsTyped, Spot
<1>3. shown["panel"] \in Surface /\ DOMAIN shown = Spot
  BY <1>2, MountedTyped
<1>4. DOMAIN draft' = DOMAIN draft /\ draft'.source = draft.source /\ ~draft'.timer
  BY <1>1, <1>2
<1>5. DOMAIN shown' = Spot
  BY <1>1, <1>3
<1>6. DiagramsTyped'
  BY <1>1, <1>2, <1>4, <1>5 DEF DiagramInv, DiagramsTyped
<1> QED
  BY <1>1, <1>2, <1>6, Sourced

LEMMA PickThemeKeeps == ASSUME DiagramInv, PickTheme PROVE DiagramInv'
<1>1. PICK theme, source :
        /\ theme \in Override /\ shown["panel"] # None
        /\ source = [draft.source EXCEPT !.theme = theme]
        /\ draft' = [source |-> source, typed |-> None, timer |-> FALSE]
        /\ shown' = [shown EXCEPT !["panel"].source = source]
        /\ UNCHANGED <<root, blocks, engine>>
  BY DEF PickTheme, Editing, SetDiagramTheme
<1>2. source \in Source /\ "panel" \in Spot
  <2>1. draft.source \in Source
    BY <1>1 DEF DiagramInv, DiagramsTyped
  <2>2. source = [draft.source EXCEPT !.theme = theme] /\ theme \in Override
    BY <1>1
  <2> QED
    BY <2>1, <2>2 DEF Source, Spot
<1>3. shown["panel"] \in Surface /\ DOMAIN shown = Spot
  BY <1>1, <1>2, MountedTyped
<1>4. DOMAIN shown' = Spot /\ draft'.source = source /\ ~draft'.timer
      /\ "source" \in DOMAIN draft' /\ "timer" \in DOMAIN draft'
  BY <1>1, <1>3
<1>5. DiagramsTyped'
  BY <1>1, <1>2, <1>4 DEF DiagramInv, DiagramsTyped
<1> QED
  BY <1>1, <1>2, <1>5, Sourced

LEMMA OpenDiagramKeeps == ASSUME DiagramInv, OpenDiagram PROVE DiagramInv'
<1>1. PICK source \in Source :
        /\ shown["panel"] # None
        /\ draft' = [source |-> source, typed |-> None, timer |-> FALSE]
        /\ shown' = [shown EXCEPT !["panel"] = Mount(source), !["full"] = None]
        /\ engine' = Orphaned(engine, {"panel", "full"})
        /\ UNCHANGED <<root, blocks>>
  BY DEF OpenDiagram
<1>2. EngineOK(engine) /\ root \in Palette /\ DOMAIN shown = Spot
      /\ "panel" \in Spot /\ "full" \in Spot
  BY DEF DiagramInv, DiagramsTyped, Spot
<1>3. /\ EngineOK(engine') /\ engine'.library = engine.library
      /\ \A s \in Spot : /\ JobsOf(engine'.queue, s) \subseteq JobsOf(engine.queue, s)
                         /\ s \in {"panel", "full"} => JobsOf(engine'.queue, s) = {}
  <2>1. PICK f : f = engine' /\ f = Orphaned(engine, {"panel", "full"})
    BY <1>1
  <2>2. /\ EngineOK(f) /\ f.library = engine.library
        /\ \A s \in Spot : /\ JobsOf(f.queue, s) \subseteq JobsOf(engine.queue, s)
                           /\ s \in {"panel", "full"} => JobsOf(f.queue, s) = {}
    BY <1>2, <2>1, OrphanedKeeps
  <2> QED
    BY <2>1, <2>2
<1>4. PICK x : x = Mount(source)
  OBVIOUS
<1>5. x # None /\ SurfaceOK(x, {}, engine.library, root)
  BY <1>2, <1>4, MountOK
<1>6. /\ DOMAIN shown' = Spot /\ shown'["full"] = None /\ shown'["panel"] = x
      /\ \A s \in Spot \ {"panel", "full"} : shown'[s] = shown[s]
  BY <1>1, <1>2, <1>4
<1>7. Right("full")'
  BY <1>2, <1>3, <1>6 DEF Right
<1>8. Right("panel")'
  <2>1. JobsOf(engine'.queue, "panel") = {} /\ root' = root
    BY <1>1, <1>2, <1>3
  <2> QED
    BY <1>3, <1>5, <1>6, <2>1 DEF Right
<1>9. \A s \in Spot \ {"panel", "full"} : Right(s)'
  BY <1>1, <1>3, <1>6, OthersKept
<1>10. DiagramsTyped'
  <2>1. draft'.source = source /\ ~draft'.timer /\ "source" \in DOMAIN draft'
        /\ "timer" \in DOMAIN draft'
    BY <1>1
  <2> QED
    BY <1>1, <1>2, <1>6, <2>1 DEF DiagramInv, DiagramsTyped
<1>11. \A s \in Spot : Right(s)'
  BY <1>7, <1>8, <1>9
<1> QED
  BY <1>3, <1>10, <1>11, AllRight

\* A surface is mounted where there was none.
LEMMA Mounts ==
  ASSUME DiagramInv, NEW s \in Spot, shown[s] = None, NEW source \in Source,
         shown' = [shown EXCEPT ![s] = Mount(source)], UNCHANGED <<root, engine>>, DiagramsTyped'
  PROVE  DiagramInv'
<1>1. EngineOK(engine) /\ root \in Palette /\ JobsOf(engine.queue, s) = {}
  BY DEF DiagramInv, DiagramsTyped
<1>2. PICK x : x = Mount(source)
  OBVIOUS
<1>3. x # None /\ SurfaceOK(x, {}, engine.library, root)
  BY <1>1, <1>2, MountOK
<1> QED
  BY <1>1, <1>2, <1>3, OneChanges

\* A surface goes, and its render is left to nobody.
LEMMA Unmounts ==
  ASSUME DiagramInv, NEW s \in Spot, shown' = [shown EXCEPT ![s] = None],
         engine' = Orphaned(engine, {s}), root' = root, DiagramsTyped'
  PROVE  DiagramInv'
<1>1. EngineOK(engine)
  BY DEF DiagramInv
<1>2. PICK f : f = engine' /\ f = Orphaned(engine, {s})
  OBVIOUS
<1>3. /\ EngineOK(f) /\ f.library = engine.library
      /\ \A t \in Spot : /\ JobsOf(f.queue, t) \subseteq JobsOf(engine.queue, t)
                         /\ t \in {s} => JobsOf(f.queue, t) = {}
  BY <1>1, <1>2, OrphanedKeeps
<1>4. /\ EngineOK(engine') /\ engine'.library = engine.library
      /\ \A t \in Spot : JobsOf(engine'.queue, t) \subseteq JobsOf(engine.queue, t)
      /\ JobsOf(engine'.queue, s) = {}
  BY <1>2, <1>3
<1> QED
  BY <1>4, OneChanges

LEMMA FullscreenKeeps == ASSUME DiagramInv, Fullscreen PROVE DiagramInv'
<1>1. /\ shown["panel"] # None /\ shown["full"] = None
      /\ shown' = [shown EXCEPT !["full"] = Mount(draft.source)]
      /\ UNCHANGED <<root, draft, blocks, engine>>
  BY DEF Fullscreen, Editing
<1>2. draft.source \in Source /\ "full" \in Spot /\ DOMAIN shown = Spot /\ root \in Palette
  BY <1>1 DEF DiagramInv, DiagramsTyped, Spot
<1>3. DOMAIN shown' = Spot /\ shown'["panel"] = shown["panel"]
  BY <1>1, <1>2
<1>4. DiagramsTyped'
  BY <1>1, <1>2, <1>3, TypedKept
<1> QED
  BY <1>1, <1>2, <1>4, Mounts

LEMMA CloseFullscreenKeeps == ASSUME DiagramInv, CloseFullscreen PROVE DiagramInv'
<1>1. /\ shown' = [shown EXCEPT !["full"] = None]
      /\ engine' = Orphaned(engine, {"full"})
      /\ UNCHANGED <<root, draft, blocks>>
  BY DEF CloseFullscreen
<1>2. "full" \in Spot /\ DOMAIN shown = Spot /\ root \in Palette
  BY DEF DiagramInv, DiagramsTyped, Spot
<1>3. DOMAIN shown' = Spot /\ shown'["panel"] = shown["panel"]
  BY <1>1, <1>2
<1>4. DiagramsTyped'
  BY <1>1, <1>2, <1>3, TypedKept
<1> QED
  BY <1>1, <1>2, <1>4, Unmounts

\* What is written into a block, or how it is looked at, leaves the window typed.
LEMMA BlockTyped ==
  ASSUME DiagramInv, UNCHANGED <<root, draft>>, DOMAIN shown' = Spot,
         shown'["panel"] = shown["panel"], DOMAIN blocks' = Block,
         \A b \in Block : "text" \in DOMAIN blocks'[b] /\ blocks'[b].text \in Source \cup {None}
  PROVE  DiagramsTyped'
BY DEF DiagramInv, DiagramsTyped

LEMMA ChooseModeKeeps == ASSUME DiagramInv, ChooseMode PROVE DiagramInv'
<1>1. PICK b \in Block, mode \in {"preview", "source"} :
        /\ blocks[b].text # None
        /\ blocks' = [blocks EXCEPT ![b].mode = mode, ![b].pinned = TRUE]
        /\ shown' = [shown EXCEPT ![b] = IF mode = "source" THEN None
                                         ELSE IF @ = None THEN Mount(blocks[b].text) ELSE @]
        /\ engine' = IF mode = "source" THEN Orphaned(engine, {b}) ELSE engine
        /\ UNCHANGED <<root, draft>>
  BY DEF ChooseMode
<1>2. /\ b \in Spot /\ b # "panel" /\ DOMAIN shown = Spot /\ EngineOK(engine)
      /\ DOMAIN blocks = Block /\ blocks[b].text \in Source
      /\ \A c \in Block : "text" \in DOMAIN blocks[c] /\ blocks[c].text \in Source \cup {None}
  BY <1>1, DiagramAssumption DEF DiagramInv, DiagramsTyped, Spot
<1>3. DiagramsTyped'
  <2>1. DOMAIN shown' = Spot /\ shown'["panel"] = shown["panel"]
    BY <1>1, <1>2
  <2>2. blocks' = [[blocks EXCEPT ![b].mode = mode] EXCEPT ![b].pinned = TRUE]
    BY <1>1
  <2>3. DOMAIN blocks' = Block /\ \A c \in Block : "text" \in DOMAIN blocks[c]
          => DOMAIN blocks'[c] = DOMAIN blocks[c] /\ blocks'[c].text = blocks[c].text
    BY <1>2, <2>2
  <2>4. \A c \in Block : "text" \in DOMAIN blocks'[c] /\ blocks'[c].text \in Source \cup {None}
    BY <1>2, <2>3
  <2> QED
    BY <1>1, <2>1, <2>3, <2>4, BlockTyped
<1>4. CASE mode = "source"
  <2>1. shown' = [shown EXCEPT ![b] = None] /\ engine' = Orphaned(engine, {b}) /\ root' = root
    BY <1>1, <1>4
  <2> QED
    BY <1>2, <1>3, <2>1, Unmounts
<1>5. CASE mode = "preview" /\ shown[b] = None
  <2>1. /\ shown' = [shown EXCEPT ![b] = Mount(blocks[b].text)]
        /\ UNCHANGED <<root, engine>>
    BY <1>1, <1>5
  <2> QED
    BY <1>2, <1>3, <1>5, <2>1, Mounts
<1>6. CASE mode = "preview" /\ shown[b] # None
  <2>1. shown' = [shown EXCEPT ![b] = shown[b]] /\ UNCHANGED <<root, engine>>
    BY <1>1, <1>6
  <2>2. shown[b] \in Surface /\ Fits(shown[b])
    BY <1>2, <1>6, MountedTyped
  <2>3. PICK x : x = shown[b]
    OBVIOUS
  <2>4. shown' = [shown EXCEPT ![b] = x]
    BY <2>1, <2>3
  <2> QED
    BY <1>2, <1>3, <1>6, <2>1, <2>2, <2>3, <2>4, ViewChanges
<1> QED
  BY <1>1, <1>4, <1>5, <1>6

LEMMA RenderSvgKeeps == ASSUME DiagramInv, RenderSvg PROVE DiagramInv'
<1>1. PICK key, job :
        /\ shown["panel"] # None
        /\ job = [who |-> "export", source |-> draft.source, signature |-> None]
        /\ engine' = IF Hits(engine.cache, key) # {}
                     THEN [engine EXCEPT !.cache = CachedRender(@, key)]
                     ELSE [engine EXCEPT !.queue = Append(@, job)]
        /\ UNCHANGED <<root, draft, blocks, shown>>
  BY DEF RenderSvg, Editing
<1>2. EngineOK(engine) /\ root \in Palette /\ draft.source \in Source /\ DOMAIN shown = Spot
  BY <1>1 DEF DiagramInv, DiagramsTyped
<1>3. job \in Job /\ job.signature = None /\ job.who \notin Spot
  BY <1>1, <1>2, DiagramAssumption DEF Job, Spot
<1>4. DiagramsTyped'
  BY <1>1, <1>2, TypedKept
<1>5. /\ EngineOK(engine') /\ engine'.library = engine.library
      /\ \A s \in Spot : JobsOf(engine'.queue, s) \subseteq JobsOf(engine.queue, s)
  <2>1. PICK f : f = engine'
    OBVIOUS
  <2>2. CASE Hits(engine.cache, key) # {}
    <3>1. f = [engine EXCEPT !.cache = CachedRender(@, key)]
      BY <1>1, <2>1, <2>2
    <3>2. EngineOK(f) /\ f.library = "loaded" /\ engine.library = "loaded" /\ f.queue = engine.queue
      BY <1>2, <2>2, <3>1, HitKeeps
    <3> QED
      BY <2>1, <3>2
  <2>3. CASE Hits(engine.cache, key) = {}
    <3>1. f = [engine EXCEPT !.queue = Append(@, job)]
      BY <1>1, <2>1, <2>3
    <3>2. job.who \in Spot => JobsOf(engine.queue, job.who) = {}
      BY <1>3
    <3>3. Joined(engine, f, job)
      BY <1>2, <1>3, <3>1, <3>2, Enqueued
    <3> QED
      BY <1>3, <2>1, <3>3 DEF Joined
  <2> QED
    BY <2>2, <2>3
<1>6. \A s \in Spot : Right(s)'
  BY <1>1, <1>5, OthersKept
<1> QED
  BY <1>4, <1>5, <1>6, AllRight

LEMMA EditBlockKeeps == ASSUME DiagramInv, EditBlock PROVE DiagramInv'
<1>1. PICK b \in Block, source \in Source :
        /\ blocks' = [blocks EXCEPT ![b].text = source]
        /\ shown' = IF shown[b] = None THEN shown ELSE [shown EXCEPT ![b].source = source]
        /\ UNCHANGED <<root, draft, engine>>
  BY DEF EditBlock
<1>2. /\ b \in Spot /\ b # "panel" /\ DOMAIN shown = Spot /\ DOMAIN blocks = Block
      /\ \A c \in Block : "text" \in DOMAIN blocks[c] /\ blocks[c].text \in Source \cup {None}
  BY DiagramAssumption DEF DiagramInv, DiagramsTyped, Spot
<1>3. DiagramsTyped'
  <2>1. DOMAIN shown' = Spot /\ shown'["panel"] = shown["panel"]
    BY <1>1, <1>2
  <2>2. DOMAIN blocks' = Block
        /\ \A c \in Block : "text" \in DOMAIN blocks'[c] /\ blocks'[c].text \in Source \cup {None}
    BY <1>1, <1>2
  <2> QED
    BY <1>1, <2>1, <2>2, BlockTyped
<1>4. CASE shown[b] = None
  BY <1>1, <1>3, <1>4, RestIsKept
<1>5. CASE shown[b] # None
  <2>1. shown' = [shown EXCEPT ![b].source = source] /\ UNCHANGED <<root, engine>>
    BY <1>1, <1>5
  <2> QED
    BY <1>2, <1>3, <1>5, <2>1, Sourced
<1> QED
  BY <1>4, <1>5

-------------------------------------------------------------------------------
(* The specification.                                                        *)

LEMMA DiagramStart == DiagramsInit => DiagramInv
<1> SUFFICES ASSUME DiagramsInit PROVE DiagramInv
  OBVIOUS
<1>1. /\ root \in Palette
      /\ engine = [queue |-> <<>>, config |-> None, library |-> None, cache |-> <<>>]
  BY DEF DiagramsInit
<1>2. EngineOK(engine)
  BY <1>1 DEF EngineOK, QueueOK, CacheOK
<1>3. \A s \in Spot : JobsOf(engine.queue, s) = {}
  BY <1>1 DEF JobsOf
<1>4. CASE \E source \in Source :
             /\ draft = [NoDraft EXCEPT !.source = source]
             /\ blocks = [b \in Block |-> NoBlock]
             /\ shown = [s \in Spot |-> IF s = "panel" THEN Mount(source) ELSE None]
  <2>1. PICK source \in Source :
             /\ draft = [NoDraft EXCEPT !.source = source]
             /\ blocks = [b \in Block |-> NoBlock]
             /\ shown = [s \in Spot |-> IF s = "panel" THEN Mount(source) ELSE None]
    BY <1>4
  <2>2. Mount(source) # None /\ SurfaceOK(Mount(source), {}, engine.library, root)
    BY <1>1, MountOK
  <2>3. \A s \in Spot : IF shown[s] = None THEN JobsOf(engine.queue, s) = {}
                        ELSE SurfaceOK(shown[s], JobsOf(engine.queue, s), engine.library, root)
    BY <1>3, <2>1, <2>2
  <2>4. DiagramsTyped
    BY <1>1, <2>1 DEF DiagramsTyped, NoDraft, NoBlock
  <2> QED
    BY <1>2, <2>3, <2>4 DEF DiagramInv
<1>5. CASE \E texts \in [Block -> Source] :
             /\ draft = NoDraft
             /\ blocks = [b \in Block |-> [text |-> texts[b], mode |-> "preview",
                                           pinned |-> FALSE]]
             /\ shown = [s \in Spot |-> IF s \in Block THEN Mount(texts[s]) ELSE None]
  <2>1. PICK texts \in [Block -> Source] :
             /\ draft = NoDraft
             /\ blocks = [b \in Block |-> [text |-> texts[b], mode |-> "preview",
                                           pinned |-> FALSE]]
             /\ shown = [s \in Spot |-> IF s \in Block THEN Mount(texts[s]) ELSE None]
    BY <1>5
  <2>2. \A b \in Block : Mount(texts[b]) # None
                         /\ SurfaceOK(Mount(texts[b]), {}, engine.library, root)
    BY <1>1, MountOK
  <2>3. \A s \in Spot : IF shown[s] = None THEN JobsOf(engine.queue, s) = {}
                        ELSE SurfaceOK(shown[s], JobsOf(engine.queue, s), engine.library, root)
    BY <1>3, <2>1, <2>2
  <2>4. DiagramsTyped
    <3>1. "panel" \in Spot /\ "panel" \notin Block
      BY DiagramAssumption DEF Spot
    <3>2. shown["panel"] = None /\ DOMAIN shown = Spot
      BY <2>1, <3>1
    <3>3. draft.source = None /\ ~draft.timer /\ "source" \in DOMAIN draft /\ "timer" \in DOMAIN draft
      BY <2>1 DEF NoDraft
    <3>4. DOMAIN blocks = Block
          /\ \A b \in Block : "text" \in DOMAIN blocks[b] /\ blocks[b].text \in Source
      BY <2>1
    <3> QED
      BY <1>1, <3>2, <3>3, <3>4 DEF DiagramsTyped
  <2> QED
    BY <1>2, <2>3, <2>4 DEF DiagramInv
<1> QED
  BY <1>4, <1>5 DEF DiagramsInit

LEMMA DiagramStep == DiagramInv /\ [DiagramsNext]_diagramVars => DiagramInv'
<1> SUFFICES ASSUME DiagramInv, [DiagramsNext]_diagramVars PROVE DiagramInv'
  OBVIOUS
<1>1. CASE UNCHANGED diagramVars
  BY <1>1 DEF diagramVars, DiagramInv, DiagramsTyped
<1>2. CASE EffectRuns \/ Lands \/ HearsPalette \/ LaidOut
  BY <1>2, EffectRunsKeeps, LandsKeeps, HearsPaletteKeeps, LaidOutKeeps
<1>3. CASE LoadMermaid \/ Configure \/ Draws
  BY <1>3, LoadMermaidKeeps, ConfigureKeeps, DrawsKeeps
<1>4. CASE ApplyTheme \/ EditDraft \/ DebounceFires \/ PickTheme \/ OpenDiagram
  BY <1>4, ApplyThemeKeeps, EditDraftKeeps, DebounceFiresKeeps, PickThemeKeeps, OpenDiagramKeeps
<1>5. CASE Fullscreen \/ CloseFullscreen \/ RenderSvg \/ MoveView
  BY <1>5, FullscreenKeeps, CloseFullscreenKeeps, RenderSvgKeeps, MoveViewKeeps
<1>6. CASE ChooseMode \/ EditBlock
  BY <1>6, ChooseModeKeeps, EditBlockKeeps
<1> QED
  BY <1>1, <1>2, <1>3, <1>4, <1>5, <1>6, Zenon DEF DiagramsNext

\* At rest and undimmed, one surface.
LEMMA ShowsSource ==
  ASSUME NEW d, NEW jobs, SurfaceOK(d, jobs, engine.library, root), root \in Palette, AtRest(d)
  PROVE  /\ d.valid = Expected(d).ok
         /\ Expected(d).ok => d.render = [status |-> "drawn", drawn |-> Expected(d).svg]
<1>1. /\ d \in Surface /\ ~d.drawing /\ d.asked = Keyed(root, d.source)
      /\ Rests(d, engine.library, root)
  BY DEF AtRest, Flushed, SurfaceOK
<1>2. d.source \in Source /\ d.asked \in DiagramKey
      /\ d.asked.source = d.source /\ d.asked.signature = root
  BY <1>1 DEF Surface, Keyed, DiagramKey
<1>3. PICK result \in RenderResult :
        /\ Answers(engine.library, d.asked, result, root)
        /\ d.valid = result.ok
        /\ d.render.status = (IF result.ok THEN "drawn" ELSE "error")
        /\ result.ok => d.render.drawn = result.svg
  BY <1>1, <1>2, DiagramAssumption DEF Rests
<1>4. result = Result(engine.library, d.source, root)
  BY <1>2, <1>3 DEF Answers
<1>5. result = Expected(d)
  BY <1>4 DEF Result, Expected
<1>6. result.ok => d.render = [status |-> "drawn", drawn |-> result.svg]
  <2>1. d.render \in [status : {"pending", "drawn", "error"}, drawn : Svg \cup {None}]
    BY <1>1 DEF Surface
  <2> QED
    BY <1>3, <2>1
<1> QED
  BY <1>3, <1>5, <1>6

LEMMA DrawnIsCurrent ==
  ASSUME NEW d, NEW jobs, NEW library, SurfaceOK(d, jobs, library, root),
         d.render.status = "drawn"
  PROVE  d.render.drawn.source = d.asked.source
<1>1. d.asked # None /\ Rests(d, library, root)
  BY DEF SurfaceOK
<1>2. PICK result \in RenderResult :
        /\ Answers(library, d.asked, result, root)
        /\ d.render.status = (IF result.ok THEN "drawn" ELSE "error")
        /\ result.ok => d.render.drawn = result.svg
  BY <1>1 DEF Rests
<1>3. result.ok /\ d.render.drawn = result.svg
  BY <1>2
<1>4. PICK p \in Palette : result = Result(library, d.asked.source, p)
  BY <1>2 DEF Answers
<1>5. result = Drawn(Drawing(d.asked.source, p))
  BY <1>3, <1>4 DEF Result, Failed
<1> QED
  BY <1>3, <1>5 DEF Drawn, Drawing

LEMMA Outstanding ==
  ASSUME DiagramInv, NEW s \in Spot
  PROVE  Cardinality({i \in DOMAIN engine.queue : engine.queue[i].who = s})
           <= IF shown[s] # None /\ shown[s].drawing THEN 1 ELSE 0
<1>1. PICK on : on = {i \in DOMAIN engine.queue : engine.queue[i].who = s}
  OBVIOUS
<1>2. \A i, j \in on : i = j
  BY <1>1 DEF DiagramInv, EngineOK, QueueOK
<1>3. CASE on = {}
  <2>1. Cardinality(on) = 0
    BY <1>3, FS_EmptySet
  <2> QED
    BY <1>1, <2>1
<1>4. CASE on # {}
  <2>1. PICK i \in on : TRUE
    BY <1>4
  <2>2. on = {i}
    BY <1>2, <2>1
  <2>3. Cardinality(on) = 1
    BY <2>2, FS_Singleton
  <2>4. JobsOf(engine.queue, s) # {}
    BY <1>1, <2>1 DEF JobsOf
  <2>5. shown[s] # None /\ shown[s].drawing
    BY <2>4 DEF DiagramInv, SurfaceOK
  <2> QED
    BY <1>1, <2>3, <2>5
<1> QED
  BY <1>3, <1>4

\* From the keystroke to the screen, whatever the diagrams, blocks, palettes and the size of
\* the cache: a surface at rest shows its source in the app's palette, a drawing that is not
\* dimmed is the one asked for last, the cache serves a drawing only for the palette it was
\* drawn in, a surface has one render outstanding, and a view nobody took over is fitted
\* (engine.ts enqueue and draw, renderCache.ts, useDiagramRender.ts drain, DiagramCanvas.tsx).
THEOREM DiagramsHoldAlways == DiagramSpec => []DiagramsHold
<1>1. DiagramInv => DiagramsHold
  <2> SUFFICES ASSUME DiagramInv PROVE DiagramsHold
    OBVIOUS
  <2>1. root \in Palette /\ \A s \in Spot : shown[s] # None =>
          SurfaceOK(shown[s], JobsOf(engine.queue, s), engine.library, root)
    BY DEF DiagramInv, DiagramsTyped
  <2>2. RestingShowsSource
    BY <2>1, ShowsSource DEF RestingShowsSource
  <2>3. UndimmedIsCurrent
    BY <2>1, DrawnIsCurrent DEF UndimmedIsCurrent
  <2>4. CacheServesTruly
    BY DEF DiagramInv, EngineOK, CacheOK, EntryOK, CacheServesTruly
  <2>5. OneOutstanding
    BY Outstanding DEF OneOutstanding
  <2>6. UntouchedIsFitted
    BY <2>1 DEF SurfaceOK, Fits, UntouchedIsFitted, Spot
  <2> QED
    BY <2>2, <2>3, <2>4, <2>5, <2>6 DEF DiagramsHold
<1> QED
  BY <1>1, DiagramStart, DiagramStep, PTL DEF DiagramSpec

=============================================================================
