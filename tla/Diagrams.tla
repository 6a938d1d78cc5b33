-------------------------------- MODULE Diagrams --------------------------------
(***************************************************************************)
(* How a diagram's source becomes the drawing on screen (lib/mermaid,       *)
(* components/mermaid): the debounced draft of the diagram editor, the      *)
(* hook every surface draws through (useDiagramRender.ts), the one engine   *)
(* with its queue, its module-level configuration and its cache (engine.ts, *)
(* renderCache.ts), the pan-zoom canvas, and the mermaid blocks of a        *)
(* document.                                                                *)
(*                                                                          *)
(* A source is its body and the theme its frontmatter names; a drawing is   *)
(* the source and the app palette it was drawn in, if it took one.  The     *)
(* observer of the palette runs in a microtask and React flushes the        *)
(* effects of a commit before it renders again, so a surface hears of a     *)
(* palette, and its effect has run, before the next change reaches it.      *)
(***************************************************************************)
EXTENDS WindowDomain

CONSTANTS
  DiagramBody,      \* what a source draws
  Broken,           \* bodies that do not parse
  Override,         \* themes a frontmatter may name, None to follow the app
  Palette,          \* signatures of applied palettes
  Block,            \* the mermaid blocks of a document
  CacheSize,        \* MERMAID_RENDER_CACHE_SIZE
  MaxDiagramTurns,  \* what the user does
  MaxPaletteTurns   \* palettes applied

VARIABLES
  root,             \* the palette on the document root
  draft,            \* DiagramEditor's draft and useDebouncedPreview's refs
  blocks,           \* MermaidCodeBlockView: text, view mode, whether the reader chose it
  shown,            \* per surface: a mounted diagram, or None
  engine,           \* the engine: its queue, Mermaid's configuration, the library, the cache
  diagramTurns      \* bounds used up

diagramVars == <<root, draft, blocks, shown, engine, diagramTurns>>

Source == [body : DiagramBody, theme : Override]
DiagramKey == [signature : Palette, source : Source]
Svg == [source : Source, palette : Palette \cup {None}]
RenderResult == [ok : BOOLEAN, svg : Svg \cup {None}]

\* The editor's preview, its fullscreen dialog, and a document's blocks.
Spot == {"panel", "full"} \cup Block

\* setDiagramTheme and readDiagramTheme: the frontmatter, whatever the body.
SetDiagramTheme(source, theme) == [source EXCEPT !.theme = theme]
ReadDiagramTheme(source) == source.theme

\* draw: the app's tokens go in when the source follows the app or names base.
AppTokened(source) == ReadDiagramTheme(source) \in {None, "base"}

\* What Mermaid makes of a source under a configuration.
Drawing(source, palette) ==
  [source |-> source, palette |-> IF AppTokened(source) THEN palette ELSE None]
Drawn(svg) == [ok |-> TRUE, svg |-> svg]
Failed == [ok |-> FALSE, svg |-> None]

-------------------------------------------------------------------------------
(* The cache.                                                                *)

Keyed(signature, source) == [signature |-> signature, source |-> source]

\* Where the cache has the key: a Map has it once at most.
Hits(cache, key) == {i \in DOMAIN cache : cache[i].key = key}
Without(cache, key) ==
  IF Hits(cache, key) = {} THEN cache ELSE RemoveAt(cache, CHOOSE i \in Hits(cache, key) : TRUE)

\* What it has there.
Cached(cache, key) == cache[CHOOSE i \in Hits(cache, key) : TRUE].svg

\* cacheRender: the newest last, the oldest out.
CacheRender(cache, key, svg) ==
  LET kept == Append(Without(cache, key), [key |-> key, svg |-> svg])
  IN IF Len(kept) > CacheSize THEN Tail(kept) ELSE kept

\* cachedRender: a hit becomes the newest.
CachedRender(cache, key) ==
  Append(Without(cache, key), [key |-> key, svg |-> Cached(cache, key)])

-------------------------------------------------------------------------------
(* One surface: MermaidDiagram and the canvas around it.                     *)

Identity == [kind |-> "identity", of |-> None]
MovedView == [kind |-> "moved", of |-> None]
Fit(size) == [kind |-> "fit", of |-> size]

\* What is laid out: the drawing's extent, and the error above it.
Size(render) ==
  [of |-> IF render.drawn = None THEN None ELSE render.drawn.source,
   error |-> render.status = "error"]

FIRST_RENDER == [status |-> "pending", drawn |-> None]

\* A mounted surface: its props, the hook's refs and state, the canvas around it.
Layout == [of : Source \cup {None}, error : BOOLEAN]
Surface ==
  [source : Source, heard : Palette, asked : DiagramKey \cup {None}, next : Source \cup {None},
   drawing : BOOLEAN, outcome : RenderResult \cup {None},
   render : [status : {"pending", "drawn", "error"}, drawn : Svg \cup {None}],
   valid : BOOLEAN \cup {None}, laid : Layout \cup {None},
   view : [kind : {"identity", "moved", "fit"}, of : Layout \cup {None}], adjusted : BOOLEAN]

\* The surfaces and the export are told apart, and null is none of them.
ASSUME DiagramAssumption ==
  /\ Block \cap {"panel", "full", "export", None} = {}
  /\ None \notin {"panel", "full", "export", "loaded", "failed"}
  /\ None \notin Source \cup DiagramKey \cup Svg \cup RenderResult \cup Layout \cup Surface
  /\ None \notin Palette

Mount(source) ==
  [source |-> source, heard |-> root, asked |-> None, next |-> None, drawing |-> FALSE,
   outcome |-> None, render |-> FIRST_RENDER, valid |-> None,
   laid |-> None, view |-> Identity, adjusted |-> FALSE]

\* The effect of the last commit has run.
Flushed(d) == d.asked = Keyed(d.heard, d.source)

\* What unmounts leaves its render in the queue, with nobody to take it.
Orphaned(e, spots) ==
  [e EXCEPT !.queue = [i \in DOMAIN @ |-> IF @[i].who \in spots THEN [@[i] EXCEPT !.who = None]
                                          ELSE @[i]]]

\* renderDiagram: a hit resolves at once, a miss joins the queue.
Rendering(s, d, source) ==
  LET key  == Keyed(root, source)
      job  == [who |-> s, source |-> source, signature |-> None]
  IN IF Hits(engine.cache, key) # {}
     THEN /\ shown' = [shown EXCEPT ![s] = [d EXCEPT !.outcome = Drawn(Cached(engine.cache, key))]]
          /\ engine' = [engine EXCEPT !.cache = CachedRender(@, key)]
     ELSE /\ shown' = [shown EXCEPT ![s] = d]
          /\ engine' = [engine EXCEPT !.queue = Append(@, job)]

\* The hook's effect on a new source or palette: the request replaces the one that
\* waits, and a drain starts if none is under way.
EffectRuns ==
  /\ \E s \in Spot :
       /\ shown[s] # None /\ ~Flushed(shown[s])
       /\ LET d == [shown[s] EXCEPT !.asked = Keyed(shown[s].heard, shown[s].source),
                                    !.render.status = "pending"]
          IN IF d.drawing
             THEN shown' = [shown EXCEPT ![s] = [d EXCEPT !.next = d.source]] /\ engine' = engine
             ELSE Rendering(s, [d EXCEPT !.drawing = TRUE], d.source)
  /\ UNCHANGED <<root, draft, blocks, diagramTurns>>

\* What an outcome makes of the surface.
Settled(d) ==
  [d EXCEPT !.drawing = FALSE, !.outcome = None, !.valid = d.outcome.ok,
            !.render = IF d.outcome.ok THEN [status |-> "drawn", drawn |-> d.outcome.svg]
                       ELSE [@ EXCEPT !.status = "error"]]

\* drain: a request that came meanwhile is drawn instead; otherwise the outcome is
\* shown and reported. A block nobody pinned goes to its source when it is broken.
Lands ==
  /\ \E s \in Spot :
       /\ shown[s] # None /\ shown[s].outcome # None
       /\ LET d == shown[s] IN
          IF d.next # None
          THEN /\ Rendering(s, [d EXCEPT !.next = None, !.outcome = None], d.next)
               /\ blocks' = blocks
          ELSE LET opens == s \in Block /\ ~d.outcome.ok /\ ~blocks[s].pinned IN
               /\ shown' = [shown EXCEPT ![s] = IF opens THEN None ELSE Settled(d)]
               /\ blocks' = IF opens THEN [blocks EXCEPT ![s].mode = "source"] ELSE blocks
               /\ engine' = engine
  /\ UNCHANGED <<root, draft, diagramTurns>>

\* useMermaidTheme's observer.
HearsPalette ==
  /\ \E s \in Spot :
       /\ shown[s] # None /\ Flushed(shown[s]) /\ shown[s].heard # root
       /\ shown' = [shown EXCEPT ![s].heard = root]
  /\ UNCHANGED <<root, draft, blocks, engine, diagramTurns>>

\* The canvas's ResizeObserver: a view nobody touched is fitted again.
LaidOut ==
  /\ \E s \in {"panel", "full"} :
       /\ shown[s] # None /\ shown[s].laid # Size(shown[s].render)
       /\ shown' = [shown EXCEPT ![s].laid = Size(shown[s].render),
                                 ![s].view = IF shown[s].adjusted THEN @
                                             ELSE Fit(Size(shown[s].render))]
  /\ UNCHANGED <<root, draft, blocks, engine, diagramTurns>>

-------------------------------------------------------------------------------
(* The engine.                                                               *)

\* loadMermaid: the chunk is fetched once; a failure is kept like a success.
LoadMermaid ==
  /\ engine.library = None /\ engine.queue # <<>>
  /\ \E library \in {"loaded", "failed"} : engine' = [engine EXCEPT !.library = library]
  /\ UNCHANGED <<root, draft, blocks, shown, diagramTurns>>

\* Mutant: every render starts as soon as it is asked for.
MayDrawAtOnce(i) == engine.queue[i].signature = None

\* enqueue: work runs after every render already queued.
MayDraw(i) == i = 1 /\ engine.queue[i].signature = None

\* draw: the palette and its signature are read, and Mermaid configured, once it is
\* this render's turn.
Configure ==
  /\ engine.library = "loaded"
  /\ \E i \in DOMAIN engine.queue :
       /\ MayDraw(i)
       /\ engine' = [engine EXCEPT !.queue[i].signature = root, !.config = root]
  /\ UNCHANGED <<root, draft, blocks, shown, diagramTurns>>

\* Mermaid draws in whatever it is configured with by then; a drawing is filed under
\* the signature read beside the palette. A body that does not parse, or a library
\* that did not load, is a failure.
Draws ==
  /\ \E i \in DOMAIN engine.queue :
       LET job     == engine.queue[i]
           lost    == engine.library = "failed" /\ i = 1
           svg     == Drawing(job.source, engine.config)
           outcome == IF lost \/ job.source.body \in Broken THEN Failed ELSE Drawn(svg)
       IN /\ lost \/ job.signature # None
          /\ engine' = [engine EXCEPT !.queue = RemoveAt(@, i),
                          !.cache = IF outcome.ok
                                    THEN CacheRender(@, Keyed(job.signature, job.source), svg)
                                    ELSE @]
          /\ shown' = IF job.who \in Spot THEN [shown EXCEPT ![job.who].outcome = outcome]
                      ELSE shown
  /\ UNCHANGED <<root, draft, blocks, diagramTurns>>

-------------------------------------------------------------------------------
(* What the user does.                                                       *)

Turn ==
  /\ diagramTurns.user < MaxDiagramTurns
  /\ diagramTurns' = [diagramTurns EXCEPT !.user = @ + 1]

\* A setting, or the system, applies another palette.
ApplyTheme ==
  /\ diagramTurns.palette < MaxPaletteTurns
  /\ diagramTurns' = [diagramTurns EXCEPT !.palette = @ + 1]
  /\ \A s \in Spot : shown[s] # None => Flushed(shown[s]) /\ shown[s].heard = root
  /\ \E palette \in Palette \ {root} : root' = palette
  /\ UNCHANGED <<draft, blocks, shown, engine>>

Editing == shown["panel"] # None /\ Flushed(shown["panel"]) /\ shown["full"] = None

\* edit: the preview waits for the debounce.
EditDraft ==
  /\ Turn /\ Editing
  /\ \E body \in DiagramBody \ {draft.source.body} :
       LET source == [draft.source EXCEPT !.body = body]
       IN draft' = [source |-> source, typed |-> source, timer |-> TRUE]
  /\ UNCHANGED <<root, blocks, shown, engine>>

DebounceFires ==
  /\ draft.timer /\ Flushed(shown["panel"])
  /\ draft' = [draft EXCEPT !.timer = FALSE]
  /\ shown' = [shown EXCEPT !["panel"].source = draft.source]
  /\ UNCHANGED <<root, blocks, engine, diagramTurns>>

\* onThemeChange: not what was typed, so it is previewed at once and the wait ends.
PickTheme ==
  /\ Turn /\ Editing
  /\ \E theme \in Override \ {ReadDiagramTheme(draft.source)} :
       LET source == SetDiagramTheme(draft.source, theme) IN
       /\ draft' = [source |-> source, typed |-> None, timer |-> FALSE]
       /\ shown' = [shown EXCEPT !["panel"].source = source]
  /\ UNCHANGED <<root, blocks, engine>>

\* The editor is remounted per document and per reload.
OpenDiagram ==
  /\ Turn /\ shown["panel"] # None
  /\ \E source \in Source :
       /\ draft' = [source |-> source, typed |-> None, timer |-> FALSE]
       /\ shown' = [shown EXCEPT !["panel"] = Mount(source), !["full"] = None]
  /\ engine' = Orphaned(engine, {"panel", "full"})
  /\ UNCHANGED <<root, blocks>>

\* The fullscreen dialog draws the draft itself.
Fullscreen ==
  /\ Turn /\ Editing
  /\ shown' = [shown EXCEPT !["full"] = Mount(draft.source)]
  /\ UNCHANGED <<root, draft, blocks, engine>>

CloseFullscreen ==
  /\ shown["full"] # None
  /\ shown' = [shown EXCEPT !["full"] = None]
  /\ engine' = Orphaned(engine, {"full"})
  /\ UNCHANGED <<root, draft, blocks, diagramTurns>>

\* Copy SVG and the exports render the draft, whatever else waits.
RenderSvg ==
  /\ Turn /\ Editing
  /\ LET key == Keyed(root, draft.source)
         job == [who |-> "export", source |-> draft.source, signature |-> None]
     IN engine' = IF Hits(engine.cache, key) # {}
                  THEN [engine EXCEPT !.cache = CachedRender(@, key)]
                  ELSE [engine EXCEPT !.queue = Append(@, job)]
  /\ UNCHANGED <<root, draft, blocks, shown>>

\* The wheel, the zoom buttons, a drag and reset take the view over; Fit does not.
Zoomed(d) == [d EXCEPT !.view = MovedView, !.adjusted = TRUE]
Panned(d) == [d EXCEPT !.view = MovedView, !.adjusted = TRUE]
Reset(d) == [d EXCEPT !.view = Identity, !.adjusted = TRUE]
Fitted(d) == [d EXCEPT !.view = Fit(d.laid)]

\* The user acts on a painted frame: the observer has run for its layout.
MoveView ==
  /\ Turn
  /\ \E s \in {"panel", "full"} :
       /\ shown[s] # None /\ shown[s].laid = Size(shown[s].render)
       /\ \E d \in {Zoomed(shown[s]), Panned(shown[s]), Reset(shown[s]), Fitted(shown[s])} :
            shown' = [shown EXCEPT ![s] = d]
  /\ UNCHANGED <<root, draft, blocks, engine>>

\* chooseMode and editSource: the reader takes the view over.
ChooseMode ==
  /\ Turn
  /\ \E b \in Block, mode \in {"preview", "source"} :
       /\ blocks[b].text # None
       /\ blocks' = [blocks EXCEPT ![b].mode = mode, ![b].pinned = TRUE]
       /\ shown' = [shown EXCEPT ![b] = IF mode = "source" THEN None
                                        ELSE IF @ = None THEN Mount(blocks[b].text) ELSE @]
       /\ engine' = IF mode = "source" THEN Orphaned(engine, {b}) ELSE engine
  /\ UNCHANGED <<root, draft>>

\* The text of a block is typed in its source view; a document change from elsewhere
\* (an undo) reaches a previewed one too.
EditBlock ==
  /\ Turn
  /\ \E b \in Block, source \in Source :
       /\ blocks[b].text # None /\ blocks[b].text # source
       /\ shown[b] # None => Flushed(shown[b])
       /\ blocks' = [blocks EXCEPT ![b].text = source]
       /\ shown' = IF shown[b] = None THEN shown ELSE [shown EXCEPT ![b].source = source]
  /\ UNCHANGED <<root, draft, engine>>

-------------------------------------------------------------------------------
NoDraft == [source |-> None, typed |-> None, timer |-> FALSE]
NoBlock == [text |-> None, mode |-> "source", pinned |-> FALSE]

DiagramsInit ==
  /\ root \in Palette
  /\ diagramTurns = [user |-> 0, palette |-> 0]
  /\ engine = [queue |-> <<>>, config |-> None, library |-> None, cache |-> <<>>]
  /\ \/ \E source \in Source :
          /\ draft = [NoDraft EXCEPT !.source = source]
          /\ blocks = [b \in Block |-> NoBlock]
          /\ shown = [s \in Spot |-> IF s = "panel" THEN Mount(source) ELSE None]
     \/ \E texts \in [Block -> Source] :
          /\ draft = NoDraft
          /\ blocks = [b \in Block |-> [text |-> texts[b], mode |-> "preview", pinned |-> FALSE]]
          /\ shown = [s \in Spot |-> IF s \in Block THEN Mount(texts[s]) ELSE None]

DiagramsNext ==
  /\ surface = "diagrams"
  /\ \/ EffectRuns \/ Lands \/ HearsPalette \/ LaidOut
     \/ LoadMermaid \/ Configure \/ Draws
     \/ ApplyTheme \/ EditDraft \/ DebounceFires \/ PickTheme \/ OpenDiagram \/ Fullscreen
     \/ CloseFullscreen \/ RenderSvg \/ MoveView \/ ChooseMode \/ EditBlock

-------------------------------------------------------------------------------
(* Properties.                                                               *)

DiagramsTypeOK ==
  /\ root \in Palette
  /\ draft.source \in Source \cup {None}
  /\ \A b \in Block : blocks[b].mode \in {"preview", "source"}
  /\ \A s \in Spot : shown[s] # None => shown[s].source \in Source /\ shown[s].heard \in Palette
  /\ Len(engine.cache) <= CacheSize

\* Nothing is under way for a surface: the palette was heard and its effect ran.
AtRest(d) == Flushed(d) /\ d.heard = root /\ ~d.drawing

\* What a surface at rest has to show.
Expected(d) ==
  IF engine.library = "failed" \/ d.source.body \in Broken THEN Failed
  ELSE Drawn(Drawing(d.source, root))

\* At rest, every surface shows its source in the palette of the app, or that it
\* cannot be drawn.
RestingShowsSource ==
  \A s \in Spot : shown[s] # None /\ AtRest(shown[s]) =>
    LET d == shown[s] IN
    /\ d.valid = Expected(d).ok
    /\ Expected(d).ok => d.render = [status |-> "drawn", drawn |-> Expected(d).svg]

\* A drawing that is not dimmed is the source's that was asked for last.
UndimmedIsCurrent ==
  \A s \in Spot : shown[s] # None /\ shown[s].render.status = "drawn" =>
    shown[s].render.drawn.source = shown[s].asked.source

\* The cache serves a drawing only for the palette it was drawn in.
CacheServesTruly ==
  \A i \in DOMAIN engine.cache :
    LET e == engine.cache[i] IN e.svg = Drawing(e.key.source, e.key.signature)

\* A surface has one render outstanding, however often it was asked to draw.
OneOutstanding ==
  \A s \in Spot : Cardinality({i \in DOMAIN engine.queue : engine.queue[i].who = s})
                    <= IF shown[s] # None /\ shown[s].drawing THEN 1 ELSE 0

\* A view nobody took over shows the whole of what is laid out.
UntouchedIsFitted ==
  \A s \in {"panel", "full"} :
    shown[s] # None /\ ~shown[s].adjusted /\ shown[s].laid # None
      /\ shown[s].laid = Size(shown[s].render) => shown[s].view = Fit(shown[s].laid)

\* From the keystroke to the screen: what rests is right, what is stale says so, and
\* neither the queue, the configuration two renders share nor the cache mixes two
\* palettes up (engine.ts enqueue and draw, useDiagramRender.ts drain, DiagramCanvas.tsx).
DiagramsHold ==
  /\ RestingShowsSource /\ UndimmedIsCurrent /\ CacheServesTruly
  /\ OneOutstanding /\ UntouchedIsFitted
=============================================================================
