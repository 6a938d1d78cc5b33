---------------------------- MODULE RepositoryReads ----------------------------
(***************************************************************************)
(* What the version-control surfaces read (store/git over                   *)
(* useRepositoryRead.ts): every surface asks the core for one thing, named  *)
(* by its request, asks again when version control announces a change, and  *)
(* shows an answer only for the request it was read for.  What is asked for *)
(* follows from where the user is: the project in view, the rail's tab, the *)
(* path open in the split, the comparison.  Answers arrive in any order,    *)
(* after the surface asks for something else or is gone.                    *)
(*                                                                          *)
(* A behaviour follows one reader (`readKind`).  A change of a repository is*)
(* its version; dropped announcements are in ReadModels.                    *)
(***************************************************************************)
EXTENDS WindowDomain

CONSTANTS
  Repo,           \* projects with a repository
  GitPath,        \* paths in each
  ReadKinds,      \* the readers of the run
  MaxRepoChanges,
  MaxMoves,       \* moves of the user
  MaxAsks         \* reads sent

VARIABLES
  readKind,       \* the reader a behaviour follows
  tree,           \* the version of each repository
  announced,      \* GitStatusChanged events under way
  view,           \* where the user is
  reader,         \* useRepositoryRead
  asked,          \* reads under way
  readSpent       \* bounds used up

ASSUME RepositoryReadAssumption ==
  /\ Repo # {}
  /\ ReadKinds \subseteq {"status", "files", "branches", "template", "diff", "preview",
                         "pull_request", "review"}
  /\ None \notin Nat

repositoryReadVars == <<readKind, tree, announced, view, reader, asked, readSpent>>

\* domain.ts: DiffTarget; an untracked path has no other comparison.
DiffTarget == {"unstaged", "staged"}

\* useDiffSelection.ts: what the split shows.
SplitView == [kind : {"change", "file"}, path : GitPath]
             \cup [kind : {"pull_request"}, path : {None}]

-------------------------------------------------------------------------------
(* What each hook asks for, in a view; None while nothing is to be read.     *)

\* useDiffSelection: a selection belongs to the project it was made in.
Split(v) == IF v.held # None /\ v.held.project = v.project THEN v.held.shows ELSE None
SplitShows(v, kinds) == Split(v) # None /\ Split(v).kind \in kinds

StatusRequest(v) == [project |-> v.project]
FilesRequest(v) == IF ~v.collapsed /\ v.tab = "files" THEN [project |-> v.project] ELSE None
BranchesRequest(v) == IF v.switcher THEN [project |-> v.project] ELSE None
TemplateRequest(v) == IF v.trusted THEN [project |-> v.project] ELSE None

\* useGitDiff: all of a diff is asked for once, for one path and comparison.
DiffOf(v) == [project |-> v.project, target |-> v.target, path |-> Split(v).path]
DiffRequest(v) ==
  IF ~SplitShows(v, {"change"}) THEN None
  ELSE [of |-> DiffOf(v), extent |-> IF v.full = DiffOf(v) THEN "full" ELSE "capped"]
PreviewRequest(v) ==
  IF ~SplitShows(v, {"file"}) THEN None ELSE [project |-> v.project, path |-> Split(v).path]

PullRequestRequest(v) == [project |-> v.project]
ReviewRequest(v) == [project |-> v.project]

InRail == {"status", "files", "branches", "template"}
InDiffPane == {"diff", "preview"}
InPullRequestPane == {"pull_request", "review"}

\* The component a reader lives in: the rail is keyed by the project in view,
\* the panes by nothing.
Home(v) ==
  IF v.project = None THEN None
  ELSE CASE readKind \in InRail -> v.project
         [] readKind \in InDiffPane -> IF SplitShows(v, {"change", "file"}) THEN "pane" ELSE None
         [] readKind \in InPullRequestPane -> IF SplitShows(v, {"pull_request"}) THEN "pane" ELSE None

RequestIn(v) ==
  IF Home(v) = None THEN None
  ELSE CASE readKind = "status" -> StatusRequest(v)
         [] readKind = "files" -> FilesRequest(v)
         [] readKind = "branches" -> BranchesRequest(v)
         [] readKind = "template" -> TemplateRequest(v)
         [] readKind = "diff" -> DiffRequest(v)
         [] readKind = "preview" -> PreviewRequest(v)
         [] readKind = "pull_request" -> PullRequestRequest(v)
         [] readKind = "review" -> ReviewRequest(v)

Wanted == RequestIn(view)

-------------------------------------------------------------------------------
(* Where each surface can take the user.                                     *)

\* DiffPane starts over whenever it mounts.
FreshPane(v) == [v EXCEPT !.target = "unstaged", !.full = None]
Showing(v, split) ==
  LET shown == [v EXCEPT !.held = [project |-> v.project, shows |-> split]]
  IN IF SplitShows(v, {"change", "file"}) THEN shown ELSE FreshPane(shown)

\* GitRail: its tabs, and hiding it.
RailMoves(v) ==
  {[v EXCEPT !.tab = t] : t \in {t \in {"changes", "files"} : ~v.collapsed}}
  \cup {[v EXCEPT !.collapsed = ~@]}
ChangesTreeMoves(v) ==
  {Showing(v, [kind |-> "change", path |-> p]) : p \in {p \in GitPath : v.tab = "changes"}}
FilesTreeMoves(v) ==
  {Showing(v, [kind |-> "file", path |-> p]) : p \in {p \in GitPath : v.tab = "files"}}

\* BranchCluster: the switcher and the pull request, once the project is trusted.
BranchClusterMoves(v) ==
  IF ~v.trusted THEN {}
  ELSE {[v EXCEPT !.switcher = ~@], Showing(v, [kind |-> "pull_request", path |-> None])}

\* DiffPane: the comparison, and the whole of a truncated diff.
DiffPaneMoves(v) ==
  IF ~SplitShows(v, {"change"}) THEN {}
  ELSE {[v EXCEPT !.target = t] : t \in DiffTarget} \cup {[v EXCEPT !.full = DiffOf(v)]}
\* SplitSurface: its cross, and Escape.
SplitMoves(v) == IF Split(v) = None THEN {} ELSE {[v EXCEPT !.held = None]}

\* Another project comes into view, or none; the rail and the panes mount anew.
ProjectMoves(v) ==
  {FreshPane([v EXCEPT !.project = p, !.tab = "changes", !.trusted = FALSE])
     : p \in (Repo \cup {None}) \ {v.project}}
\* The trust the rail waits for was read, or was just given.
TrustMoves(v) == {[v EXCEPT !.trusted = TRUE]}

Moves(v) ==
  ProjectMoves(v)
  \cup (IF v.project = None THEN {}
        ELSE RailMoves(v) \cup ChangesTreeMoves(v) \cup FilesTreeMoves(v)
             \cup BranchClusterMoves(v) \cup DiffPaneMoves(v) \cup SplitMoves(v)
             \cup TrustMoves(v))

-------------------------------------------------------------------------------
(* useRepositoryRead.                                                        *)

NoReader == [mount |-> 0, attached |-> FALSE, frame |-> FALSE,
             snapshot |-> [request |-> None, value |-> None],
             inFlight |-> FALSE, landed |-> 0, behind |-> FALSE]

\* What the surface shows: the answer to its own request, or, while nothing is
\* asked for, the last one.
Answered == reader.snapshot.request = Wanted
Shown == IF Answered \/ Wanted = None THEN reader.snapshot.value ELSE None

Out == {r \in asked : r.mount = reader.mount}

\* refresh: one more read of what is wanted.
Send(r, spending) ==
  /\ Wanted # None
  /\ readSpent.asks < MaxAsks
  /\ readSpent' = [spending EXCEPT !.asks = @ + 1]
  /\ asked' = asked \cup {[n |-> readSpent.asks + 1, mount |-> reader.mount, request |-> Wanted,
                           project |-> view.project, version |-> None]}
  /\ reader' = [r EXCEPT !.inFlight = TRUE]

\* The listener attaches, then the first read is sent.
FirstRead ==
  /\ Wanted # None /\ ~reader.attached
  /\ Send([reader EXCEPT !.attached = TRUE], readSpent)

AttachReader ==
  /\ FirstRead
  /\ UNCHANGED <<readKind, tree, announced, view>>

\* GitStatusChanged, of whichever project: a re-read waits for the next frame.
HearChange ==
  /\ announced > 0
  /\ announced' = announced - 1
  /\ reader' = [reader EXCEPT !.frame = @ \/ (reader.attached /\ Wanted # None)]
  /\ UNCHANGED <<readKind, tree, view, asked, readSpent>>

RereadFrame ==
  /\ reader.frame
  /\ Send([reader EXCEPT !.frame = FALSE], readSpent)
  /\ UNCHANGED <<readKind, tree, announced, view>>

\* The window's focus, the review's own refresh, and its poll, which holds back
\* while the flag of usePullRequestReview says that a read is out.
AskAgain ==
  /\ reader.attached
  /\ \/ readSpent.focus < 1 /\ Send(reader, [readSpent EXCEPT !.focus = 1])
     \/ readKind = "review" /\ ~reader.inFlight /\ Send(reader, readSpent)
  /\ UNCHANGED <<readKind, tree, announced, view>>

\* The core reads the repository for one request.
ServeAsk ==
  \E r \in asked :
    /\ r.version = None
    /\ asked' = (asked \ {r}) \cup {[r EXCEPT !.version = tree[r.project]]}
    /\ UNCHANGED <<readKind, tree, announced, view, reader, readSpent>>

\* Mutant: an answer is filed under what is wanted when it lands.
FiledUnderWanted(r) == [request |-> Wanted, value |-> [of |-> r.request, version |-> r.version]]

\* An answer is filed under the request that asked for it.
Filed(r) == [request |-> r.request, value |-> [of |-> r.request, version |-> r.version]]

\* It lands while its component is mounted, whatever that asks for by now, and
\* whatever has landed before: reads are not ordered.  History: `landed` is the
\* latest read that came back, `behind` that what is filed is an earlier one's.
AskAnswered ==
  \E r \in asked :
    /\ r.version # None
    /\ asked' = asked \ {r}
    /\ reader' = IF r.mount # reader.mount THEN reader
                 ELSE [reader EXCEPT !.snapshot = Filed(r), !.inFlight = FALSE,
                         !.landed = IF r.n > @ THEN r.n ELSE @,
                         !.behind = r.n <= reader.landed]
    /\ UNCHANGED <<readKind, tree, announced, view, readSpent>>

\* A failed read is stated, and the last answer stands.
AskFailed ==
  \E r \in asked :
    /\ readSpent.faults < 1
    /\ readSpent' = [readSpent EXCEPT !.faults = 1]
    /\ asked' = asked \ {r}
    /\ reader' = IF r.mount # reader.mount THEN reader
                 ELSE [reader EXCEPT !.inFlight = FALSE,
                         !.landed = IF r.n > @ THEN r.n ELSE @,
                         !.behind = @ \/ r.n >= reader.landed]
    /\ UNCHANGED <<readKind, tree, announced, view>>

\* Version control changes a repository, and the core announces it.
RepositoryChanges ==
  /\ readSpent.changes < MaxRepoChanges
  /\ readSpent' = [readSpent EXCEPT !.changes = @ + 1]
  /\ \E p \in Repo : tree' = [tree EXCEPT ![p] = @ + 1]
  /\ announced' = announced + 1
  /\ UNCHANGED <<readKind, view, reader, asked>>

\* A move: a new component reads anew, a new request attaches its own listener.
ReaderAfter(v) ==
  IF Home(v) # Home(view)
  THEN [NoReader EXCEPT !.mount = reader.mount + 1]
  ELSE IF RequestIn(v) # Wanted
  THEN [reader EXCEPT !.attached = FALSE, !.frame = FALSE]
  ELSE reader

Move ==
  /\ readSpent.moves < MaxMoves
  /\ readSpent' = [readSpent EXCEPT !.moves = @ + 1]
  /\ \E v \in Moves(view) \ {view} :
       /\ view' = v
       /\ reader' = ReaderAfter(v)
  /\ UNCHANGED <<readKind, tree, announced, asked>>

RepositoryReadInit ==
  /\ readKind \in ReadKinds
  /\ tree = [p \in Repo |-> 1]
  /\ announced = 0
  /\ view \in [project : {CHOOSE p \in Repo : TRUE}, tab : {"changes"}, collapsed : {FALSE}, switcher : {FALSE},
               trusted : {TRUE}, held : {None}, target : {"unstaged"}, full : {None}]
  /\ reader = NoReader
  /\ asked = {}
  /\ readSpent = [moves |-> 0, changes |-> 0, asks |-> 0, focus |-> 0, faults |-> 0]

RepositoryReadNext ==
  /\ surface = "repository"
  /\ \/ Move \/ AttachReader \/ HearChange \/ RereadFrame \/ AskAgain
     \/ ServeAsk \/ AskAnswered \/ AskFailed \/ RepositoryChanges

-------------------------------------------------------------------------------
(* Properties.                                                               *)

RepositoryReadTypeOK ==
  /\ \A p \in Repo : tree[p] \in 1..(MaxRepoChanges + 1)
  /\ Split(view) \in SplitView \cup {None}
  /\ view.target \in DiffTarget
  /\ reader.landed \in 0..readSpent.asks
  /\ \A r \in asked : r.request # None /\ r.mount <= reader.mount

\* An answer captured for one request is never shown for another, however late
\* it lands and wherever the user went meanwhile (useRepositoryRead.ts).
ShownIsAsked == Wanted # None /\ Shown # None => Shown.of = Wanted

\* Once nothing is under way, the surface shows what the change announced last
\* left: one that falls between a snapshot and its subscription, into a frame already
\* waiting or under another project's request is not lost (useRepositoryRead.ts:72).
\* Excluded is `behind`, where the reads came back in another order than they were
\* sent in, or the latest failed: useRepositoryRead.ts:50-54 files whichever answer
\* lands last, so an older one is shown, or one to another request hides it, until
\* the next read.
NoChangeMissed ==
  /\ reader.attached /\ ~reader.frame /\ ~reader.behind
  /\ Wanted # None /\ Out = {} /\ announced = 0
  => Answered /\ Shown.version = tree[view.project]

ReadsFollow == ShownIsAsked /\ NoChangeMissed

=============================================================================
