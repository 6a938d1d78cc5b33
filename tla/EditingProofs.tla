----------------------------- MODULE EditingProofs -----------------------------
(***************************************************************************)
(* What holds of the editing surfaces for any repositories, documents,     *)
(* editors, number of moves, edits, reads and faults.  A repository read is *)
(* shown only for what was asked, and what it shows is the newest it was   *)
(* told of unless an answer of the same request overtook another.  What an *)
(* autosave calls saved was accepted, and no timer or queue of its own     *)
(* repeats a refused save.  One editing session overwrites nothing the core *)
(* holds, whoever else writes the document.                                *)
(***************************************************************************)
EXTENDS RepositoryReads, Documents, TLAPS

-------------------------------------------------------------------------------
(* Repository reads.                                                         *)

RepositoryReadSpec == RepositoryReadInit /\ [][RepositoryReadNext]_repositoryReadVars

\* The project a request is about.
ProjectOf(request) == IF readKind = "diff" THEN request.of.project ELSE request.project

IsView(v) == "project" \in DOMAIN v /\ v.project \in Repo \cup {None}

IsReader(r) ==
  /\ {"mount", "attached", "frame", "snapshot", "inFlight", "landed", "behind"} \subseteq DOMAIN r
  /\ {r.attached, r.frame, r.behind} \subseteq BOOLEAN
  /\ r.landed \in Nat /\ r.landed <= readSpent.asks

IsAsk(r) ==
  /\ {"n", "mount", "request", "project", "version"} \subseteq DOMAIN r
  /\ r.version \in Nat \cup {None}
  /\ r.n \in Nat /\ r.n <= readSpent.asks

FollowTyped ==
  /\ readKind \in ReadKinds
  /\ tree \in [Repo -> Nat]
  /\ announced \in Nat
  /\ IsView(view)
  /\ "asks" \in DOMAIN readSpent /\ readSpent.asks \in Nat
  /\ IsReader(reader)
  /\ \A r \in asked : IsAsk(r)

\* An answer is filed under the request it answers.
SnapshotFiled ==
  reader.snapshot.request # None => reader.snapshot.value.of = reader.snapshot.request

\* A read is of its request's project, and finds no version that is not there yet.
AskTrue(r) ==
  /\ r.project \in Repo
  /\ r.project = ProjectOf(r.request)
  /\ r.version # None => r.version <= tree[r.project]
AsksTrue == \A r \in asked : AskTrue(r)

\* The latest read is under way and will show what the repository is now.
Covers(r) ==
  /\ r.mount = reader.mount /\ r.n = readSpent.asks /\ r.request = Wanted
  /\ r.version = None \/ r.version = tree[view.project]

\* The latest read came back, and what it found is filed.
Current ==
  /\ Answered
  /\ reader.snapshot.value.version = tree[view.project]
Settled == reader.landed = readSpent.asks /\ (reader.behind \/ Current)

\* What the core has and the surface does not show is on its way to be read.
ChangeCovered ==
  reader.attached /\ Wanted # None
  => \/ announced > 0
     \/ reader.frame
     \/ \E r \in asked : Covers(r)
     \/ Settled

FollowInv ==
  FollowTyped /\ SnapshotFiled /\ AsksTrue /\ ChangeCovered

\* What is asked for names the project in view.
LEMMA RequestNamesProject ==
  ASSUME NEW v, IsView(v), readKind \in ReadKinds, RequestIn(v) # None
  PROVE  ProjectOf(RequestIn(v)) = v.project /\ v.project \in Repo
<1>1. v.project # None
  BY DEF RequestIn, Home
<1>2. v.project \in Repo
  BY <1>1 DEF IsView
<1>3. CASE readKind = "diff"
  <2>1. RequestIn(v) = DiffRequest(v)
    BY <1>3 DEF RequestIn
  <2>2. DiffRequest(v).of = DiffOf(v)
    BY <2>1 DEF DiffRequest
  <2> QED
    BY <1>2, <1>3, <2>1, <2>2 DEF ProjectOf, DiffOf
<1>4. CASE readKind # "diff"
  <2>1. readKind \in {"status", "files", "branches", "template", "preview", "pull_request", "review"}
    BY <1>4, RepositoryReadAssumption DEF InRail, InDiffPane, InPullRequestPane
  <2>2. RequestIn(v).project = v.project
    BY <2>1 DEF RequestIn, StatusRequest, FilesRequest, BranchesRequest, TemplateRequest,
       PreviewRequest, PullRequestRequest, ReviewRequest
  <2> QED
    BY <1>2, <1>4, <2>2 DEF ProjectOf
<1> QED
  BY <1>3, <1>4

\* Wherever the user goes, the project in view is one of the repositories, or none.
LEMMA MovesKeepViews ==
  ASSUME NEW v, IsView(v), NEW w \in Moves(v)
  PROVE  IsView(w)
<1>1. \A p \in Repo \cup {None} :
        IsView(FreshPane([v EXCEPT !.project = p, !.tab = "changes", !.trusted = FALSE]))
  <2>1. \A u : IsView(u) => IsView(FreshPane(u))
    BY DEF IsView, FreshPane
  <2>2. \A p \in Repo \cup {None} :
          IsView([v EXCEPT !.project = p, !.tab = "changes", !.trusted = FALSE])
    BY DEF IsView
  <2> QED
    BY <2>1, <2>2
<1>2. \A split : IsView(Showing(v, split))
  BY DEF IsView, Showing, FreshPane
<1>3. CASE w \in ProjectMoves(v)
  BY <1>1, <1>3 DEF ProjectMoves
<1>4. CASE w \in ChangesTreeMoves(v) \cup FilesTreeMoves(v)
  BY <1>2, <1>4 DEF ChangesTreeMoves, FilesTreeMoves
<1>5. CASE w \in RailMoves(v)
  BY <1>5 DEF RailMoves, IsView
<1>6. CASE w \in BranchClusterMoves(v)
  <2>1. w = [v EXCEPT !.switcher = ~@] \/ w = Showing(v, [kind |-> "pull_request", path |-> None])
    BY <1>6 DEF BranchClusterMoves
  <2>2. IsView([v EXCEPT !.switcher = ~@])
    BY DEF IsView
  <2> QED
    BY <1>2, <2>1, <2>2
<1>7. CASE w \in DiffPaneMoves(v)
  BY <1>7 DEF DiffPaneMoves, IsView
<1>8. CASE w \in SplitMoves(v) \cup TrustMoves(v)
  BY <1>8 DEF SplitMoves, TrustMoves, IsView
<1> QED
  BY <1>3, <1>4, <1>5, <1>6, <1>7, <1>8 DEF Moves

\* What is wanted depends on the view alone.
LEMMA SameWanted ==
  ASSUME UNCHANGED <<readKind, view>>
  PROVE  Wanted' = Wanted /\ \A request : ProjectOf(request)' = ProjectOf(request)
BY DEF Wanted, RequestIn, Home, ProjectOf, StatusRequest, FilesRequest, BranchesRequest,
       TemplateRequest, PreviewRequest, PullRequestRequest, ReviewRequest, DiffRequest

\* A read that is sent asks for what is wanted, of the project in view.
LEMMA SendFollows ==
  ASSUME FollowInv, NEW r, NEW spending, Send(r, spending), IsReader(r), r.mount = reader.mount,
         r.snapshot = reader.snapshot, "asks" \in DOMAIN spending, spending.asks = readSpent.asks,
         UNCHANGED <<readKind, tree, announced, view>>
  PROVE  FollowInv'
<1> SUFFICES ASSUME NEW q, q = [n |-> readSpent.asks + 1, mount |-> reader.mount, request |-> Wanted,
                                project |-> view.project, version |-> None]
             PROVE  FollowInv'
  OBVIOUS
<1>1. asked' = asked \cup {q} /\ Wanted # None /\ reader' = [r EXCEPT !.inFlight = TRUE]
  BY DEF Send
<1>2. Wanted' = Wanted /\ \A x : ProjectOf(x)' = ProjectOf(x)
  BY SameWanted
<1>3. ProjectOf(Wanted) = view.project /\ view.project \in Repo
  BY <1>1, RequestNamesProject DEF FollowInv, FollowTyped, Wanted
<1>4. /\ readSpent.asks \in Nat /\ readSpent'.asks = readSpent.asks + 1
      /\ "asks" \in DOMAIN readSpent'
  BY DEF Send, FollowInv, FollowTyped
<1>5. IsReader(reader)' /\ reader'.mount = reader.mount /\ reader'.snapshot = reader.snapshot
  BY <1>1, <1>4 DEF IsReader
<1>6. IsAsk(q)' /\ AskTrue(q) /\ Covers(q)'
  BY <1>2, <1>3, <1>4, <1>5 DEF IsAsk, AskTrue, Covers
<1>7. \A x \in asked : IsAsk(x)'
  BY <1>4 DEF FollowInv, FollowTyped, IsAsk
<1>8. FollowTyped'
  BY <1>1, <1>4, <1>5, <1>6, <1>7 DEF FollowInv, FollowTyped
<1>9. SnapshotFiled'
  BY <1>2, <1>5 DEF FollowInv, SnapshotFiled
<1>10. AsksTrue'
  BY <1>1, <1>2, <1>6 DEF FollowInv, AsksTrue, AskTrue
<1>11. ChangeCovered'
  BY <1>1, <1>6 DEF ChangeCovered
<1> QED
  BY <1>8, <1>9, <1>10, <1>11 DEF FollowInv

LEMMA SendingFollows ==
  ASSUME FollowInv, AttachReader \/ RereadFrame \/ AskAgain
  PROVE  FollowInv'
<1>1. \A r \in {[reader EXCEPT !.attached = TRUE], [reader EXCEPT !.frame = FALSE], reader} :
        IsReader(r) /\ r.mount = reader.mount /\ r.snapshot = reader.snapshot
  BY DEF FollowInv, FollowTyped, IsReader
<1>2. \A s \in {readSpent, [readSpent EXCEPT !.focus = 1]} :
        "asks" \in DOMAIN s /\ s.asks = readSpent.asks
  BY DEF FollowInv, FollowTyped
<1>3. CASE AttachReader
  BY <1>1, <1>2, <1>3, SendFollows DEF AttachReader, FirstRead
<1>4. CASE RereadFrame
  BY <1>1, <1>2, <1>4, SendFollows DEF RereadFrame
<1>5. CASE AskAgain
  BY <1>1, <1>2, <1>5, SendFollows DEF AskAgain
<1> QED
  BY <1>3, <1>4, <1>5

\* An announcement that is heard makes the surface read, in the next frame.
LEMMA HearChangeFollows == ASSUME FollowInv, HearChange PROVE FollowInv'
<1>1. /\ announced > 0 /\ announced' = announced - 1 /\ UNCHANGED <<tree, asked, readSpent>>
      /\ reader' = [reader EXCEPT !.frame = @ \/ (reader.attached /\ Wanted # None)]
  BY DEF HearChange
<1>2. /\ UNCHANGED <<readKind, view>>
      /\ Wanted' = Wanted /\ \A request : ProjectOf(request)' = ProjectOf(request)
  BY SameWanted DEF HearChange
<1>3. /\ IsReader(reader)' /\ reader'.attached = reader.attached
      /\ reader'.snapshot = reader.snapshot
      /\ reader.attached /\ Wanted # None => reader'.frame
  BY <1>1 DEF FollowInv, FollowTyped, IsReader
<1>4. FollowTyped' /\ SnapshotFiled' /\ AsksTrue'
  BY <1>1, <1>2, <1>3 DEF FollowInv, FollowTyped, IsAsk, SnapshotFiled, AsksTrue, AskTrue
<1>5. ChangeCovered'
  BY <1>2, <1>3 DEF ChangeCovered
<1> QED
  BY <1>4, <1>5 DEF FollowInv

\* The core reads what the repository is at that moment.
LEMMA ServeAskFollows == ASSUME FollowInv, ServeAsk PROVE FollowInv'
<1>1. PICK r \in asked :
        r.version = None /\ asked' = (asked \ {r}) \cup {[r EXCEPT !.version = tree[r.project]]}
  BY DEF ServeAsk
<1> SUFFICES ASSUME NEW q, q = [r EXCEPT !.version = tree[r.project]]
             PROVE  FollowInv'
  OBVIOUS
<1>2. UNCHANGED <<readKind, tree, announced, view, reader, readSpent>>
  BY DEF ServeAsk
<1>3. Wanted' = Wanted /\ \A request : ProjectOf(request)' = ProjectOf(request)
  BY <1>2, SameWanted
<1>4. IsAsk(r) /\ AskTrue(r) /\ tree \in [Repo -> Nat]
  BY DEF FollowInv, FollowTyped, AsksTrue
<1>5. /\ IsAsk(q) /\ AskTrue(q) /\ q.mount = r.mount /\ q.n = r.n /\ q.request = r.request
      /\ q.version = tree[r.project]
  BY <1>4 DEF IsAsk, AskTrue
<1>6. FollowTyped' /\ SnapshotFiled'
  BY <1>1, <1>2, <1>3, <1>5 DEF FollowInv, FollowTyped, IsReader, IsAsk, SnapshotFiled
<1>7. AsksTrue'
  BY <1>1, <1>2, <1>3, <1>5 DEF FollowInv, AsksTrue, AskTrue
<1>8. Covers(r) => Wanted = None \/ Covers(q)
  <2> SUFFICES ASSUME Covers(r), Wanted # None PROVE q.version = tree[view.project]
    BY <1>5 DEF Covers
  <2>1. r.project = view.project
    BY <1>4, RequestNamesProject DEF FollowInv, FollowTyped, Covers, Wanted, AskTrue
  <2> QED
    BY <1>5, <2>1
<1>9. ChangeCovered'
  BY <1>1, <1>2, <1>3, <1>8 DEF FollowInv, ChangeCovered, Covers, Settled, Current, Answered
<1> QED
  BY <1>6, <1>7, <1>9 DEF FollowInv

\* The repository moves on, and says so.
LEMMA RepositoryChangesFollow == ASSUME FollowInv, RepositoryChanges PROVE FollowInv'
<1>1. /\ UNCHANGED <<readKind, view, reader, asked>> /\ announced' = announced + 1
      /\ \E p \in Repo : tree' = [tree EXCEPT ![p] = @ + 1]
      /\ readSpent'.asks = readSpent.asks /\ "asks" \in DOMAIN readSpent'
  BY DEF RepositoryChanges, FollowInv, FollowTyped
<1>2. tree' \in [Repo -> Nat] /\ \A p \in Repo : tree[p] <= tree'[p]
  BY <1>1 DEF FollowInv, FollowTyped
<1>3. Wanted' = Wanted /\ \A request : ProjectOf(request)' = ProjectOf(request)
  BY <1>1, SameWanted
<1>4. FollowTyped' /\ SnapshotFiled'
  BY <1>1, <1>2, <1>3 DEF FollowInv, FollowTyped, IsReader, IsAsk, SnapshotFiled
<1>5. AsksTrue'
  <2> SUFFICES ASSUME NEW r \in asked PROVE AskTrue(r)'
    BY <1>1 DEF AsksTrue
  <2>1. AskTrue(r) /\ r.version \in Nat \cup {None} /\ tree \in [Repo -> Nat]
    BY DEF FollowInv, FollowTyped, AsksTrue, IsAsk
  <2> QED
    BY <1>2, <1>3, <2>1 DEF AskTrue
<1>6. announced' > 0
  BY <1>1 DEF FollowInv, FollowTyped
<1> QED
  BY <1>4, <1>5, <1>6 DEF FollowInv, ChangeCovered

\* What comes back leaves what the surface does not show on its way to be read.
LEMMA StillCovered ==
  ASSUME FollowInv, NEW r \in asked, asked' = asked \ {r}, ChangeCovered,
         UNCHANGED <<readKind, tree, announced, view>>, readSpent'.asks = readSpent.asks,
         reader'.mount = reader.mount, reader'.attached = reader.attached,
         reader'.frame = reader.frame,
         Covers(r) /\ Wanted # None => Settled', Settled => Settled'
  PROVE  ChangeCovered'
<1>1. Wanted' = Wanted
  BY SameWanted
<1>2. \A x : Covers(x)' = Covers(x)
  BY <1>1 DEF Covers
<1> QED
  BY <1>1, <1>2 DEF ChangeCovered

\* A failure is remembered by the reader it belongs to.
LEMMA AskFailedFollows == ASSUME FollowInv, AskFailed PROVE FollowInv'
<1>1. PICK r \in asked :
        /\ asked' = asked \ {r}
        /\ reader' = IF r.mount # reader.mount THEN reader
                     ELSE [reader EXCEPT !.inFlight = FALSE,
                             !.landed = IF r.n > @ THEN r.n ELSE @,
                             !.behind = @ \/ r.n >= reader.landed]
  BY DEF AskFailed
<1>2. /\ UNCHANGED <<readKind, tree, announced, view>>
      /\ readSpent'.asks = readSpent.asks /\ "asks" \in DOMAIN readSpent'
  BY DEF AskFailed, FollowInv, FollowTyped
<1>3. Wanted' = Wanted /\ \A request : ProjectOf(request)' = ProjectOf(request)
  BY <1>2, SameWanted
<1>4. IsAsk(r) /\ IsReader(reader) /\ readSpent.asks \in Nat
  BY DEF FollowInv, FollowTyped
<1>5. /\ IsReader(reader)' /\ reader'.mount = reader.mount /\ reader'.snapshot = reader.snapshot
      /\ reader'.attached = reader.attached /\ reader'.frame = reader.frame
  <2>1. CASE r.mount # reader.mount
    BY <1>1, <1>2, <1>4, <2>1 DEF IsReader
  <2>2. CASE r.mount = reader.mount
    BY <1>1, <1>2, <1>4, <2>2 DEF IsReader, IsAsk
  <2> QED
    BY <2>1, <2>2
<1>6. FollowTyped' /\ SnapshotFiled' /\ AsksTrue'
  BY <1>1, <1>2, <1>3, <1>5
     DEF FollowInv, FollowTyped, IsAsk, SnapshotFiled, AsksTrue, AskTrue
<1>7. Covers(r) \/ Settled => Settled'
  <2>1. CASE r.mount # reader.mount
    BY <1>1, <1>2, <1>3, <2>1 DEF Covers, Settled, Current, Answered
  <2>2. CASE r.mount = reader.mount
    <3>1. /\ reader'.landed = IF r.n > reader.landed THEN r.n ELSE reader.landed
          /\ reader'.behind = (reader.behind \/ r.n >= reader.landed)
      BY <1>1, <1>4, <2>2 DEF IsReader
    <3>2. CASE r.n >= reader.landed
      <4>1. reader'.behind = TRUE
        BY <1>4, <3>1, <3>2 DEF IsReader
      <4>2. Covers(r) \/ Settled => reader'.landed = readSpent.asks
        BY <1>4, <3>1, <3>2 DEF IsAsk, IsReader, Covers, Settled
      <4> QED
        BY <1>2, <4>1, <4>2 DEF Settled
    <3>3. CASE r.n < reader.landed
      BY <1>2, <1>3, <1>4, <1>5, <3>1, <3>3 DEF IsAsk, IsReader, Covers, Settled, Current, Answered
    <3> QED
      BY <1>4, <3>2, <3>3 DEF IsAsk, IsReader
  <2> QED
    BY <2>1, <2>2
<1>8. ChangeCovered'
  BY <1>1, <1>2, <1>5, <1>7, StillCovered DEF FollowInv
<1> QED
  BY <1>6, <1>8 DEF FollowInv

\* The answer that lands is the latest read's, or what is filed is behind.
LEMMA AskAnsweredFollows == ASSUME FollowInv, AskAnswered PROVE FollowInv'
<1>1. PICK r \in asked :
        /\ r.version # None /\ asked' = asked \ {r}
        /\ reader' = IF r.mount # reader.mount THEN reader
             ELSE [reader EXCEPT !.snapshot = Filed(r), !.inFlight = FALSE,
                     !.landed = IF r.n > @ THEN r.n ELSE @,
                     !.behind = r.n <= reader.landed]
  BY DEF AskAnswered
<1>2. UNCHANGED <<readKind, tree, announced, view, readSpent>>
  BY DEF AskAnswered
<1>3. Wanted' = Wanted /\ \A request : ProjectOf(request)' = ProjectOf(request)
  BY <1>2, SameWanted
<1>4. IsAsk(r) /\ IsReader(reader) /\ readSpent.asks \in Nat
  BY DEF FollowInv, FollowTyped
<1>5. CASE r.mount # reader.mount
  <2>1. reader' = reader
    BY <1>1, <1>5
  <2>2. FollowTyped' /\ SnapshotFiled' /\ AsksTrue'
    BY <1>1, <1>2, <1>3, <2>1
       DEF FollowInv, FollowTyped, IsReader, IsAsk, SnapshotFiled, AsksTrue, AskTrue
  <2>3. ~Covers(r) /\ (Settled => Settled')
    BY <1>2, <1>3, <1>5, <2>1 DEF Covers, Settled, Current, Answered
  <2>4. ChangeCovered'
    BY <1>1, <1>2, <2>1, <2>3, StillCovered DEF FollowInv
  <2> QED
    BY <2>2, <2>4 DEF FollowInv
<1>6. CASE r.mount = reader.mount
  <2>1. /\ reader'.mount = reader.mount /\ reader'.frame = reader.frame
        /\ reader'.attached = reader.attached /\ reader'.snapshot = Filed(r)
        /\ reader'.landed = IF r.n > reader.landed THEN r.n ELSE reader.landed
        /\ reader'.behind = (r.n <= reader.landed)
    BY <1>1, <1>4, <1>6 DEF IsReader
  <2>2. IsReader(reader)'
    BY <1>1, <1>2, <1>4, <1>6, <2>1 DEF IsReader, IsAsk
  <2>3. FollowTyped' /\ AsksTrue'
    BY <1>1, <1>2, <1>3, <2>2 DEF FollowInv, FollowTyped, IsAsk, AsksTrue, AskTrue
  <2>4. SnapshotFiled'
    BY <2>1 DEF SnapshotFiled, Filed
  <2>5. Covers(r) \/ Settled => Settled'
    <3>1. CASE r.n <= reader.landed
      <4>1. reader'.behind = TRUE
        BY <1>4, <2>1, <3>1 DEF IsReader
      <4>2. Covers(r) \/ Settled => reader'.landed = readSpent.asks
        BY <1>4, <2>1, <3>1 DEF IsAsk, IsReader, Covers, Settled
      <4> QED
        BY <1>2, <4>1, <4>2 DEF Settled
    <3>2. CASE r.n > reader.landed
      <4>1. ~Settled
        BY <1>4, <3>2 DEF IsAsk, IsReader, Settled
      <4>2. Covers(r) => reader'.landed = readSpent.asks
        BY <1>4, <2>1, <3>2 DEF IsAsk, IsReader, Covers
      <4>3. Covers(r) => Current'
        BY <1>1, <1>2, <1>3, <2>1 DEF Covers, Current, Answered, Filed
      <4> QED
        BY <1>2, <4>1, <4>2, <4>3 DEF Settled
    <3> QED
      BY <1>4, <3>1, <3>2 DEF IsAsk, IsReader
  <2>6. ChangeCovered'
    BY <1>1, <1>2, <2>1, <2>5, StillCovered DEF FollowInv
  <2> QED
    BY <2>3, <2>4, <2>6 DEF FollowInv
<1> QED
  BY <1>5, <1>6

\* A move that changes what is asked for attaches the reader anew.
LEMMA MoveFollows == ASSUME FollowInv, Move PROVE FollowInv'
<1>1. PICK v \in Moves(view) \ {view} : view' = v /\ reader' = ReaderAfter(v)
  BY DEF Move
<1>2. /\ UNCHANGED <<readKind, tree, announced, asked>>
      /\ readSpent'.asks = readSpent.asks /\ "asks" \in DOMAIN readSpent'
  BY DEF Move, FollowInv, FollowTyped
<1>3. IsView(v)
  BY MovesKeepViews DEF FollowInv, FollowTyped
<1>4. /\ Wanted' = RequestIn(v) /\ Home(view)' = Home(v)
      /\ \A request : ProjectOf(request)' = ProjectOf(request)
  BY <1>1, <1>2 DEF Wanted, RequestIn, Home, ProjectOf, StatusRequest, FilesRequest,
     BranchesRequest, TemplateRequest, PreviewRequest, PullRequestRequest, ReviewRequest,
     DiffRequest
<1>5. AsksTrue'
  BY <1>2, <1>4 DEF FollowInv, AsksTrue, AskTrue
<1>6. readSpent.asks \in Nat /\ IsReader(reader)
  BY DEF FollowInv, FollowTyped
<1>7. CASE Home(v) # Home(view) \/ RequestIn(v) # Wanted
  <2>1. /\ IsReader(reader)' /\ reader'.attached = FALSE
        /\ reader'.snapshot \in {[request |-> None, value |-> None], reader.snapshot}
    <3>1. CASE Home(v) # Home(view)
      BY <1>1, <1>2, <1>6, <3>1 DEF ReaderAfter, NoReader, IsReader
    <3>2. CASE Home(v) = Home(view)
      <4>1. reader' = [reader EXCEPT !.attached = FALSE, !.frame = FALSE]
        BY <1>1, <1>7, <3>2 DEF ReaderAfter
      <4> QED
        BY <1>2, <1>6, <4>1 DEF IsReader
    <3> QED
      BY <3>1, <3>2
  <2>2. FollowTyped'
    BY <1>1, <1>2, <1>3, <2>1 DEF FollowInv, FollowTyped, IsAsk
  <2>3. SnapshotFiled' /\ ChangeCovered'
    BY <2>1 DEF FollowInv, SnapshotFiled, ChangeCovered
  <2> QED
    BY <1>5, <2>2, <2>3 DEF FollowInv
<1>8. CASE Home(v) = Home(view) /\ RequestIn(v) = Wanted
  <2>1. reader' = reader
    BY <1>1, <1>8 DEF ReaderAfter
  <2>2. Wanted' = Wanted /\ (Wanted # None => v.project = view.project)
    BY <1>3, <1>4, <1>8, RequestNamesProject DEF FollowInv, FollowTyped, Wanted
  <2>3. FollowTyped' /\ SnapshotFiled'
    BY <1>1, <1>2, <1>3, <2>1 DEF FollowInv, FollowTyped, IsReader, IsAsk, SnapshotFiled
  <2>4. ChangeCovered'
    <3> SUFFICES ASSUME Wanted # None PROVE ChangeCovered'
      BY <2>2 DEF ChangeCovered
    <3>1. view'.project = view.project
      BY <1>1, <2>2
    <3> QED
      BY <1>2, <2>1, <2>2, <3>1 DEF FollowInv, ChangeCovered, Covers, Settled, Current, Answered
  <2> QED
    BY <1>5, <2>3, <2>4 DEF FollowInv
<1> QED
  BY <1>7, <1>8

LEMMA FollowInit == RepositoryReadInit => FollowInv
<1> SUFFICES ASSUME RepositoryReadInit PROVE FollowInv
  OBVIOUS
<1>1. /\ reader.attached = FALSE /\ reader.snapshot.request = None
      /\ readSpent.asks = 0 /\ "asks" \in DOMAIN readSpent
      /\ IsReader(reader) /\ asked = {}
  BY DEF RepositoryReadInit, NoReader, IsReader
<1>2. IsView(view)
  <2>1. (CHOOSE p \in Repo : TRUE) \in Repo
    BY RepositoryReadAssumption
  <2>2. view.project = CHOOSE p \in Repo : TRUE
    BY DEF RepositoryReadInit
  <2>3. "project" \in DOMAIN view
    BY DEF RepositoryReadInit
  <2> QED
    BY <2>1, <2>2, <2>3 DEF IsView
<1>3. FollowTyped
  BY <1>1, <1>2 DEF RepositoryReadInit, FollowTyped
<1> QED
  BY <1>1, <1>3 DEF FollowInv, SnapshotFiled, AsksTrue, ChangeCovered

LEMMA FollowStep ==
  FollowInv /\ [RepositoryReadNext]_repositoryReadVars => FollowInv'
<1> SUFFICES ASSUME FollowInv, [RepositoryReadNext]_repositoryReadVars PROVE FollowInv'
  OBVIOUS
<1>1. CASE UNCHANGED repositoryReadVars
  <2>1. UNCHANGED <<readKind, tree, announced, view, reader, asked, readSpent>>
    BY <1>1 DEF repositoryReadVars
  <2>2. Wanted' = Wanted /\ \A request : ProjectOf(request)' = ProjectOf(request)
    BY <2>1, SameWanted
  <2> QED
    BY <2>1, <2>2 DEF FollowInv, FollowTyped, IsReader, IsAsk, SnapshotFiled, ChangeCovered,
       Covers, Settled, Current, Answered, AsksTrue, AskTrue
<1> QED
  BY <1>1, SendingFollows, HearChangeFollows, ServeAskFollows, RepositoryChangesFollow,
     AskFailedFollows, AskAnsweredFollows, MoveFollows DEF RepositoryReadNext

\* A surface never shows the answer to another request, however late it lands and
\* wherever the user went meanwhile; and once nothing is under way it shows what the
\* change announced last left, wherever that fell: before its listener was attached, into
\* a frame already waiting, around a read already sent (useRepositoryRead.ts).  Excluded
\* are reads that came back in another order than they were sent in, and a latest read
\* that failed.
THEOREM ReadsFollowHolds == RepositoryReadSpec => []ReadsFollow
<1>1. FollowInv => ShownIsAsked
  BY DEF FollowInv, SnapshotFiled, ShownIsAsked, Shown, Answered
<1>2. FollowInv => NoChangeMissed
  <2> SUFFICES ASSUME FollowInv, reader.attached, ~reader.frame, ~reader.behind,
                      Wanted # None, Out = {}, announced = 0
               PROVE  Answered /\ Shown.version = tree[view.project]
    BY DEF NoChangeMissed
  <2>1. \A r \in asked : ~Covers(r)
    BY DEF Out, Covers
  <2>2. Current
    BY <2>1 DEF FollowInv, ChangeCovered, Settled
  <2> QED
    BY <2>2 DEF Current, Answered, Shown
<1> QED
  BY <1>1, <1>2, FollowInit, FollowStep, PTL DEF RepositoryReadSpec, ReadsFollow

-------------------------------------------------------------------------------
(* Autosave.                                                                 *)

DocumentSpec == DocumentInit /\ [][DocumentNext]_documentVars

\* What a saver may be: an edit waits only behind a save, and whatever is armed or
\* queued was asked for.
SaverOK(sv) ==
  /\ {"phase", "pending", "queued", "armed", "asked", "unasked", "kept", "frozen"} \subseteq DOMAIN sv
  /\ sv.phase \in {"clean", "dirty", "saving"}
  /\ sv.phase # "clean" => sv.pending \in Body
  /\ sv.queued # None => sv.phase = "saving" /\ sv.queued \in Body /\ sv.asked
  /\ sv.armed => sv.asked
  /\ ~sv.unasked

\* The newest text a saver has is the one on screen.
ShowsBody(sv, body) ==
  CASE sv.phase = "clean"  -> sv.kept = body
    [] sv.phase = "dirty"  -> sv.pending = body
    [] sv.phase = "saving" -> IF sv.queued = None THEN sv.pending = body ELSE sv.queued = body

HookFields == {"kind", "open", "initial", "base", "draft", "conflict", "load", "mounts",
               "mounted", "left"}

HookTyped ==
  /\ HookFields \subseteq DOMAIN ed
  /\ ed.kind \in EditorKinds
  /\ ed.mounts \in 0..MaxMounts
  /\ ed.mounted \in 0..ed.mounts
  /\ ed.mounted # 0 => ed.initial \in Body /\ ed.draft \in Body
  /\ ed.kind = "todo" /\ ed.open # None => ed.initial \in Body

SaversOK ==
  /\ DOMAIN savers = 1..MaxMounts
  /\ \A s \in 1..MaxMounts : SaverOK(savers[s])

\* A saver has one save under way at a time, and only while it says so.
WritesOK ==
  /\ \A w \in writes :
       /\ {"saver", "body", "stage", "rev"} \subseteq DOMAIN w
       /\ w.saver \in 1..ed.mounts
       /\ w.body \in Body
       /\ savers[w.saver].phase = "saving"
  /\ \A v, w \in writes : v.saver = w.saver => v = w

\* What saver s sends as it becomes sv: one save at most, and none behind another.
OneSave(s, sv, sent) ==
  \A w \in sent :
    /\ sent = {w}
    /\ {"saver", "body", "stage", "rev"} \subseteq DOMAIN w
    /\ w.saver = s /\ w.body \in Body /\ sv.phase = "saving"

SendsAtMostOne(s, sv, sent) ==
  /\ savers[s].phase = "saving" => sv.phase = "saving" /\ sent = {}
  /\ OneSave(s, sv, sent)

DraftShown == ed.mounted # 0 => ShowsBody(savers[ed.mounted], ed.draft)

EditorInv == HookTyped /\ SaversOK /\ WritesOK /\ DraftShown

\* What the core, the board and the answers hold are bodies.
StoredTyped ==
  /\ DOMAIN docs = Doc /\ DOMAIN live = Doc
  /\ \A d \in Doc : /\ {"rev", "body", "name"} \subseteq DOMAIN docs[d]
                    /\ docs[d].body \in Body
                    /\ live[d].body \in Body
  /\ \A r \in reads :
       /\ "answer" \in DOMAIN r
       /\ r.answer # None /\ r.answer.rev # None => r.answer.body \in Body
  /\ ed.kind = "todo" => reads = {} /\ renames = {}
  /\ {"acts", "edits"} \subseteq DOMAIN docSpent
  /\ docSpent.edits \in Nat

\* Whatever is opened, read or renamed is a document the core knows, and the newest load is
\* of what is open.
HandleOK(h) == h.doc \in Doc

HandlesOK ==
  /\ ed.load \in Nat
  /\ ed.kind # "todo" /\ ed.mounted # 0 => HandleOK(ed.open)
  /\ \A r \in reads : /\ {"req", "to", "answer"} \subseteq DOMAIN r
                      /\ HandleOK(r.to)
                      /\ r.req \in 0..ed.load
                      /\ r.req = ed.load => HandleOK(ed.open)
  /\ \A h \in renames : HandleOK(h)

\* A hook about to change: its editor is the one mounted.
HookOf(e) ==
  /\ HookFields \subseteq DOMAIN e
  /\ e.kind = ed.kind /\ e.mounts = ed.mounts /\ e.mounted = ed.mounted
  /\ e.kind = "todo" /\ e.open # None => e.initial \in Body

\* A commit that was asked for sends what is pending, or leaves it pending.
LEMMA CommittedKeeps ==
  ASSUME NEW s \in 1..MaxMounts, SaverOK(savers[s]), NEW sv, SaverOK(sv), NEW e,
         sv.phase = savers[s].phase, sv.pending = savers[s].pending,
         Commits(s) => sv.asked
  PROVE  /\ SaverOK(Committed(s, sv, e))
         /\ \A body : ShowsBody(sv, body) => ShowsBody(Committed(s, sv, e), body)
         /\ SendsAtMostOne(s, Committed(s, sv, e), Committing(s, e))
<1> SUFFICES ASSUME NEW tv, tv = [sv EXCEPT !.armed = FALSE],
                    NEW c, c = Committed(s, sv, e)
             PROVE  /\ SaverOK(c)
                    /\ \A body : ShowsBody(sv, body) => ShowsBody(c, body)
                    /\ SendsAtMostOne(s, c, Committing(s, e))
  OBVIOUS
<1>1. /\ SaverOK(tv) /\ tv.phase = sv.phase /\ tv.pending = sv.pending /\ tv.queued = sv.queued
      /\ tv.kept = sv.kept /\ tv.asked = sv.asked /\ tv.armed = FALSE
  BY DEF SaverOK
<1>2. CASE ~Commits(s)
  <2>1. c = tv /\ Committing(s, e) = {}
    BY <1>2 DEF Committed, Committing
  <2> QED
    BY <1>1, <2>1 DEF ShowsBody, SaverOK, SendsAtMostOne, OneSave
<1>3. CASE Commits(s)
  <2>1. sv.phase = "dirty" /\ sv.queued = None /\ sv.asked /\ sv.pending \in Body
    BY <1>3 DEF Commits, SaverOK
  <2>2. c = Sending(tv, e) /\ Committing(s, e) = Sends(s, savers[s], e)
    BY <1>3 DEF Committed, Committing
  <2>3. CASE Sendable(e)
    <3>1. c = [tv EXCEPT !.phase = "saving", !.armed = FALSE, !.asked = FALSE,
                         !.unasked = @ \/ ~tv.asked]
      BY <2>2, <2>3 DEF Sending
    <3>2. /\ SaverOK(c) /\ c.phase = "saving" /\ c.queued = None /\ c.pending = sv.pending
      BY <1>1, <2>1, <3>1 DEF SaverOK
    <3>3. Committing(s, e) = {SaveOf(s, savers[s].pending, e)}
      BY <2>2, <2>3 DEF Sends
    <3>4. /\ {"saver", "body", "stage", "rev"} \subseteq DOMAIN SaveOf(s, savers[s].pending, e)
          /\ SaveOf(s, savers[s].pending, e).saver = s
          /\ SaveOf(s, savers[s].pending, e).body = sv.pending
      BY DEF SaveOf
    <3> QED
      BY <2>1, <3>2, <3>3, <3>4 DEF ShowsBody, SendsAtMostOne, OneSave
  <2>4. CASE ~Sendable(e)
    <3>1. c = Refused(tv) /\ Committing(s, e) = {}
      BY <2>2, <2>4 DEF Sending, Sends
    <3>2. SaverOK(c) /\ c.phase = "dirty" /\ c.pending = sv.pending
      BY <1>1, <2>1, <3>1 DEF SaverOK, Refused
    <3> QED
      BY <2>1, <3>1, <3>2 DEF ShowsBody, SendsAtMostOne, OneSave
  <2> QED
    BY <2>3, <2>4
<1> QED
  BY <1>2, <1>3

\* The editor that leaves asks for what it sends.
LEMMA LeavingKeeps ==
  ASSUME NEW s \in 1..MaxMounts, SaverOK(savers[s]), NEW e
  PROVE  SaverOK(Leaving(s, e)) /\ SendsAtMostOne(s, Leaving(s, e), Committing(s, e))
<1> SUFFICES ASSUME NEW sv, sv = [savers[s] EXCEPT !.asked = TRUE, !.frozen = Conflict]
             PROVE  /\ SaverOK(Committed(s, sv, e))
                    /\ SendsAtMostOne(s, Committed(s, sv, e), Committing(s, e))
  BY DEF Leaving
<1>1. /\ SaverOK(sv) /\ sv.phase = savers[s].phase /\ sv.pending = savers[s].pending /\ sv.asked
  BY DEF SaverOK
<1> QED
  BY <1>1, CommittedKeeps

\* One saver sends what it had pending; the others are as they were.
LEMMA OneSends ==
  ASSUME SaversOK, WritesOK, ed'.mounts = ed.mounts, ed.mounts \in 0..MaxMounts,
         NEW s \in 1..ed.mounts, NEW c, NEW sent,
         SaverOK(c), savers' = [savers EXCEPT ![s] = c], writes' = writes \cup sent,
         SendsAtMostOne(s, c, sent)
  PROVE  SaversOK' /\ WritesOK'
<1>1. SaversOK'
  <2>1. \A i \in 1..MaxMounts : SaverOK(savers'[i])
    BY DocumentAssumption DEF SaversOK
  <2> QED
    BY <2>1 DEF SaversOK, SaverOK, Body
<1>2. s \in DOMAIN savers
  BY DocumentAssumption DEF SaversOK
<1>3. \A w \in writes : w.saver = s => sent = {} /\ c.phase = "saving"
  BY DEF WritesOK, SendsAtMostOne, OneSave
<1>4. \A w \in writes' :
       /\ {"saver", "body", "stage", "rev"} \subseteq DOMAIN w
       /\ w.saver \in 1..ed'.mounts
       /\ w.body \in Body
       /\ savers'[w.saver].phase = "saving"
  BY <1>2, <1>3 DEF WritesOK, SendsAtMostOne, OneSave
<1>5. \A v, w \in writes' : v.saver = w.saver => v = w
  BY <1>3 DEF WritesOK, SendsAtMostOne, OneSave
<1> QED
  BY <1>4, <1>5, <1>1 DEF WritesOK, Body

\* The editor on screen leaves; none takes its place.
LEMMA UnmountKeeps ==
  ASSUME EditorInv, NEW e, HookOf(e), Unmount(e)
  PROVE  EditorInv'
<1>1. ed' = [e EXCEPT !.mounted = 0, !.draft = None]
  BY DEF Unmount
<1>2. HookTyped' /\ DraftShown' /\ ed'.mounts = ed.mounts
  BY <1>1, DocumentAssumption DEF EditorInv, HookTyped, HookOf, HookFields, DraftShown
<1>3. e.mounted = ed.mounted
  BY DEF HookOf
<1>4. CASE ed.mounted = 0
  <2>1. savers' = savers /\ writes' = writes
    BY <1>3, <1>4 DEF Unmount, Committing, Commits
  <2> QED
    BY <1>2, <2>1 DEF EditorInv, SaversOK, WritesOK
<1>5. CASE ed.mounted # 0
  <2> SUFFICES ASSUME NEW s, s = ed.mounted PROVE EditorInv'
    OBVIOUS
  <2>1. /\ savers' = [savers EXCEPT ![s] = Leaving(s, e)]
        /\ writes' = writes \cup Committing(s, e)
    BY <1>3, <1>5 DEF Unmount
  <2>2. s \in 1..ed.mounts /\ ed.mounts \in 0..MaxMounts /\ s \in 1..MaxMounts
    BY <1>5, DocumentAssumption DEF EditorInv, HookTyped
  <2>3. SaverOK(savers[s])
    BY <2>2 DEF EditorInv, SaversOK
  <2>4. SaversOK' /\ WritesOK'
    BY <1>2, <2>1, <2>2, <2>3, LeavingKeeps, OneSends DEF EditorInv
  <2> QED
    BY <1>2, <2>4 DEF EditorInv
<1> QED
  BY <1>4, <1>5

\* A fresh editor shows what it was seeded with, and has nothing under way.
LEMMA RemountKeeps ==
  ASSUME EditorInv, NEW e, HookOf(e), NEW body \in Body, e.initial \in Body, Remount(e, body)
  PROVE  EditorInv'
<1> SUFFICES ASSUME NEW n, n = ed.mounts + 1, NEW s, s = ed.mounted,
                    NEW fresh, fresh = [NoSaver EXCEPT !.handle = e.open, !.kept = body]
             PROVE  EditorInv'
  OBVIOUS
<1>1. /\ e.mounts = ed.mounts /\ e.mounted = s
      /\ ed.mounts \in 0..MaxMounts /\ s \in 0..ed.mounts /\ MaxMounts \in Nat
  BY DocumentAssumption DEF HookOf, EditorInv, HookTyped
<1>2. /\ n <= MaxMounts
      /\ ed' = [e EXCEPT !.mounts = n, !.mounted = n, !.draft = body]
      /\ savers' = [i \in 1..MaxMounts |->
                     IF i = n THEN fresh ELSE IF i = s THEN Leaving(s, e) ELSE savers[i]]
      /\ writes' = writes \cup Committing(s, e)
  BY <1>1 DEF Remount
<1>3. n \in 1..MaxMounts /\ n # s
  BY <1>1, <1>2
<1>4. HookTyped' /\ ed'.mounts = n /\ ed'.mounted = n /\ ed'.draft = body
  BY <1>1, <1>2, <1>3 DEF HookTyped, HookOf, HookFields, EditorInv
<1>5. SaverOK(fresh) /\ ShowsBody(fresh, body) /\ savers'[n] = fresh
  BY <1>2, <1>3 DEF NoSaver, SaverOK, ShowsBody
<1>6. DraftShown'
  BY <1>4, <1>5 DEF DraftShown, ShowsBody
<1>7. s \in 1..MaxMounts =>
        /\ SaverOK(Leaving(s, e)) /\ savers'[s] = Leaving(s, e)
        /\ SendsAtMostOne(s, Leaving(s, e), Committing(s, e))
  BY <1>2, <1>3, LeavingKeeps DEF EditorInv, SaversOK
<1>8. s = 0 => Committing(s, e) = {}
  BY DEF Committing, Commits
<1>9. \A i \in 1..MaxMounts : i # n /\ i # s => savers'[i] = savers[i]
  BY <1>2
<1>10. SaversOK'
  <2>1. \A i \in 1..MaxMounts : SaverOK(savers'[i])
    BY <1>5, <1>7, <1>9 DEF EditorInv, SaversOK
  <2>2. DOMAIN savers' = 1..MaxMounts
    BY <1>2
  <2> QED
    BY <2>1, <2>2 DEF SaversOK, SaverOK, Body
<1>11. \A w \in writes : w.saver = s => Committing(s, e) = {} /\ savers'[w.saver].phase = "saving"
  BY <1>1, <1>7 DEF EditorInv, WritesOK, SendsAtMostOne, OneSave
<1>12. \A w \in writes : w.saver # n /\ w.saver \in 1..MaxMounts /\ w.saver \in 1..n
  BY <1>1, <1>2 DEF EditorInv, WritesOK
<1>13. \A w \in Committing(s, e) : s \in 1..MaxMounts /\ s \in 1..n
  BY <1>1, <1>8
<1>14. \A w \in writes' :
        /\ {"saver", "body", "stage", "rev"} \subseteq DOMAIN w
        /\ w.saver \in 1..ed'.mounts
        /\ w.body \in Body
        /\ savers'[w.saver].phase = "saving"
  BY <1>2, <1>4, <1>7, <1>9, <1>11, <1>12, <1>13 DEF EditorInv, WritesOK, SendsAtMostOne, OneSave
<1>15. \A v, w \in writes' : v.saver = w.saver => v = w
  BY <1>2, <1>7, <1>11, <1>13 DEF EditorInv, WritesOK, SendsAtMostOne, OneSave
<1> QED
  BY <1>4, <1>6, <1>10, <1>14, <1>15 DEF EditorInv, WritesOK, Body

\* An answered save is followed by the text queued behind it, or leaves it pending.
LEMMA AnsweredKeeps ==
  ASSUME NEW s \in 1..MaxMounts, SaverOK(savers[s]), savers[s].phase = "saving", NEW e, NEW sv,
         NEW sent,
         \/ sv = Accepted(s, e) /\ sent = Drained(s, e)
         \/ sv = Refused(savers[s]) /\ sent = {}
  PROVE  /\ SaverOK(sv)
         /\ \A body : ShowsBody(savers[s], body) => ShowsBody(sv, body)
         /\ OneSave(s, sv, sent)
<1> SUFFICES ASSUME NEW old, old = savers[s],
                    NEW kept, kept = [old EXCEPT !.kept = old.pending],
                    NEW next, next = [kept EXCEPT !.pending = kept.queued, !.queued = None]
             PROVE  /\ SaverOK(sv)
                    /\ \A body : ShowsBody(old, body) => ShowsBody(sv, body)
                    /\ OneSave(s, sv, sent)
  OBVIOUS
<1>1. SaverOK(old) /\ old.phase = "saving"
  OBVIOUS
<1>2. CASE sv = Refused(old) /\ sent = {}
  BY <1>1, <1>2 DEF Refused, SaverOK, ShowsBody, OneSave
<1>3. CASE sv = Accepted(s, e) /\ sent = Drained(s, e)
  <2>1. CASE old.queued = None
    <3>1. sv = [kept EXCEPT !.phase = "clean"] /\ sent = {}
      BY <1>3, <2>1 DEF Accepted, Drained, SaverOK
    <3> QED
      BY <1>1, <2>1, <3>1 DEF SaverOK, ShowsBody, OneSave
  <2>2. CASE old.queued # None
    <3>1. /\ old.queued \in Body /\ old.asked
          /\ \A body : ShowsBody(old, body) => old.queued = body
      BY <1>1, <2>2 DEF SaverOK, ShowsBody, OneSave
    <3>2. /\ {"phase", "pending", "queued", "armed", "asked", "unasked", "kept", "frozen"}
               \subseteq DOMAIN next
          /\ next.pending = old.queued /\ next.queued = None /\ next.asked /\ ~next.unasked
          /\ next.phase = "saving"
      BY <1>1, <3>1 DEF SaverOK
    <3>3. CASE Paused(s)
      <4>1. sv = [next EXCEPT !.phase = "dirty"] /\ sent = {}
        BY <1>1, <1>3, <2>2, <3>3 DEF Accepted, Drained, SaverOK
      <4> QED
        BY <3>1, <3>2, <4>1 DEF SaverOK, ShowsBody, OneSave
    <3>4. CASE ~Paused(s)
      <4>1. /\ sv = Sending(next, e)
            /\ sent = Sends(s, [old EXCEPT !.pending = old.queued], e)
        BY <1>1, <1>3, <2>2, <3>4 DEF Accepted, Drained, SaverOK
      <4>2. CASE ~Sendable(e)
        <5>1. sv = Refused(next) /\ sent = {}
          BY <4>1, <4>2 DEF Sending, Sends
        <5> QED
          BY <3>1, <3>2, <5>1 DEF Refused, SaverOK, ShowsBody, OneSave
      <4>3. CASE Sendable(e)
        <5>1. sv = [next EXCEPT !.phase = "saving", !.armed = FALSE, !.asked = FALSE,
                                !.unasked = @ \/ ~next.asked]
          BY <4>1, <4>3 DEF Sending
        <5>2. SaverOK(sv) /\ sv.phase = "saving" /\ sv.pending = old.queued /\ sv.queued = None
          BY <3>1, <3>2, <5>1 DEF SaverOK
        <5>3. [old EXCEPT !.pending = old.queued].pending = old.queued
          BY <1>1 DEF SaverOK
        <5>4. sent = {SaveOf(s, old.queued, e)}
          BY <4>1, <4>3, <5>3 DEF Sends
        <5>5. /\ {"saver", "body", "stage", "rev"} \subseteq DOMAIN SaveOf(s, old.queued, e)
              /\ SaveOf(s, old.queued, e).saver = s /\ SaveOf(s, old.queued, e).body = old.queued
          BY DEF SaveOf
        <5> QED
          BY <3>1, <5>2, <5>4, <5>5 DEF ShowsBody, OneSave
      <4> QED
        BY <4>2, <4>3
    <3> QED
      BY <3>3, <3>4
  <2> QED
    BY <2>1, <2>2
<1> QED
  BY <1>2, <1>3

\* The outcome of a save, with the editor still mounted, or just closed.
LEMMA OutcomeKeeps ==
  ASSUME EditorInv, NEW w \in writes, NEW ok \in BOOLEAN, NEW e, Outcome(w, ok, e), HookTyped',
         ed'.mounts = ed.mounts,
         ed'.mounted = 0 \/ (ed'.mounted = ed.mounted /\ ed'.draft = ed.draft)
  PROVE  EditorInv'
<1> SUFFICES ASSUME NEW s, s = w.saver,
                    NEW sv, sv = IF ok THEN Accepted(s, e) ELSE Refused(savers[s]),
                    NEW sent, sent = IF ok THEN Drained(s, e) ELSE {}
             PROVE  EditorInv'
  OBVIOUS
<1>1. savers' = [savers EXCEPT ![s] = sv] /\ writes' = (writes \ {w}) \cup sent
  BY DEF Outcome
<1>2. /\ s \in 1..ed.mounts /\ s \in 1..MaxMounts /\ s \in DOMAIN savers
      /\ SaverOK(savers[s]) /\ savers[s].phase = "saving"
  BY DocumentAssumption DEF EditorInv, HookTyped, WritesOK, SaversOK
<1>3. /\ SaverOK(sv)
      /\ \A body : ShowsBody(savers[s], body) => ShowsBody(sv, body)
      /\ OneSave(s, sv, sent)
  BY <1>2, AnsweredKeeps
<1>4. SaversOK'
  <2>1. \A i \in 1..MaxMounts : SaverOK(savers'[i])
    BY <1>1, <1>2, <1>3 DEF EditorInv, SaversOK
  <2>2. DOMAIN savers' = 1..MaxMounts
    BY <1>1 DEF EditorInv, SaversOK
  <2> QED
    BY <2>1, <2>2 DEF SaversOK, SaverOK, Body
<1>5. \A v \in writes \ {w} : v.saver # s
  BY DEF EditorInv, WritesOK
<1>6. \A v \in writes' :
       /\ {"saver", "body", "stage", "rev"} \subseteq DOMAIN v
       /\ v.saver \in 1..ed'.mounts
       /\ v.body \in Body
       /\ savers'[v.saver].phase = "saving"
  BY <1>1, <1>2, <1>3, <1>5 DEF EditorInv, WritesOK, OneSave
<1>7. \A v, u \in writes' : v.saver = u.saver => v = u
  BY <1>1, <1>3, <1>5 DEF EditorInv, WritesOK, OneSave
<1>8. DraftShown'
  <2> SUFFICES ASSUME ed'.mounted # 0 PROVE ShowsBody(savers'[ed.mounted], ed.draft)
    BY DEF DraftShown, ShowsBody
  <2>1. ed.mounted \in DOMAIN savers /\ ShowsBody(savers[ed.mounted], ed.draft)
    BY DocumentAssumption DEF EditorInv, HookTyped, SaversOK, DraftShown
  <2> QED
    BY <1>1, <1>3, <2>1
<1> QED
  BY <1>4, <1>6, <1>7, <1>8 DEF EditorInv, WritesOK, Body

\* A save that is served or refused stays the save it was.
LEMMA ServedKeeps ==
  ASSUME EditorInv, NEW w \in writes, NEW stage, NEW rev, Served(w, stage, rev),
         UNCHANGED <<ed, savers>>
  PROVE  EditorInv'
<1> SUFFICES ASSUME NEW v, v = [w EXCEPT !.stage = stage, !.rev = rev] PROVE EditorInv'
  OBVIOUS
<1>1. writes' = (writes \ {w}) \cup {v}
  BY DEF Served
<1>2. /\ {"saver", "body", "stage", "rev"} \subseteq DOMAIN v
      /\ v.saver = w.saver /\ v.body = w.body
  BY DEF EditorInv, WritesOK
<1>3. \A u \in writes' :
       /\ {"saver", "body", "stage", "rev"} \subseteq DOMAIN u
       /\ u.saver \in 1..ed'.mounts
       /\ u.body \in Body
       /\ savers'[u.saver].phase = "saving"
  BY <1>1, <1>2 DEF EditorInv, WritesOK
<1>4. \A u \in writes \ {w} : u.saver # v.saver
  BY <1>2 DEF EditorInv, WritesOK
<1>5. \A t, u \in writes' : t.saver = u.saver => t = u
  BY <1>1, <1>4 DEF EditorInv, WritesOK
<1>6. WritesOK'
  BY <1>3, <1>5 DEF WritesOK, Body
<1> QED
  BY <1>6 DEF EditorInv, HookTyped, SaversOK, SaverOK, DraftShown, ShowsBody, Body

\* Only opening, and expanding a row, is offered without an editor; a to-do is not renamed.
LEMMA OffersNeedEditor ==
  ASSUME HookTyped, NEW o \in Offers
  PROVE  /\ o \notin {"open", "expand"} => ed.mounted # 0
         /\ o = "rename" => ed.kind # "todo"
         /\ o = "expand" => ed.kind = "todo" /\ ed.open # None
<1>1. ed.kind \in {"scratchpad", "diagram", "todo", "template"}
  BY DocumentAssumption DEF HookTyped
<1> DEFINE editors == {"edit", "flush", "rename", "reload", "close", "delete", "done", "collapse"}
<1>2. NoticeOffers \subseteq {"reload"} /\ TodoBoardOffers \cap {"collapse"} \subseteq {"collapse"}
      /\ \A x \in TodoBoardOffers \cap {"expand"} : x = "expand" /\ ed.open # None
  BY DEF NoticeOffers, TodoBoardOffers
<1>3. TemplatesPanelOffers \subseteq {"open"} /\ TodoItemOffers \subseteq {"open"}
  BY DEF TemplatesPanelOffers, TodoItemOffers, TemplateKindSectionOffers
<1>4. CASE ed.kind \in {"scratchpad", "diagram"}
  <2>1. ~Is({"template"}) /\ ~Is({"todo"}) /\ Is({"scratchpad"}) = (ed.kind = "scratchpad")
        /\ Is({"diagram"}) = (ed.kind = "diagram")
    BY <1>4 DEF Is
  <2>2. o \in {"open"} \/ (~Idle /\ o \in {"edit", "flush", "rename", "reload"})
    BY <1>2, <1>4, <2>1 DEF Offers, ScratchpadPanelOffers, DiagramPanelOffers,
       DocumentRosterOffers, ScratchpadEditorOffers, ScratchpadBodyOffers, DocumentTitleOffers,
       DiagramEditorOffers, DiagramBodyOffers, DiagramToolbarOffers
  <2> QED
    BY <1>4, <2>2 DEF Idle
<1>5. CASE ed.kind = "template"
  <2>1. Is({"template"}) /\ ~Is({"todo"}) /\ ~Is({"scratchpad"}) /\ ~Is({"diagram"})
    BY <1>5 DEF Is
  <2>2. o \in {"open"} \/ (~Idle /\ o \in {"edit", "flush", "close", "delete", "reload"})
    BY <1>2, <1>3, <2>1 DEF Offers, TemplateEditorOffers, TemplateBodyOffers
  <2> QED
    BY <2>2 DEF Idle
<1>6. CASE ed.kind = "todo"
  <2>1. Is({"todo"}) /\ ~Is({"template"}) /\ ~Is({"scratchpad"}) /\ ~Is({"diagram"})
    BY <1>6 DEF Is
  <2>2. \/ o \in {"open"}
        \/ o = "expand" /\ ed.open # None
        \/ ~Idle /\ o \in {"edit", "flush", "close", "done", "reload", "collapse"}
    BY <1>2, <1>3, <2>1 DEF Offers, TodoEditorOffers, TodoDocFieldsOffers
  <2> QED
    BY <1>6, <2>2 DEF Idle
<1> QED
  BY <1>1, <1>4, <1>5, <1>6

SaveInv == EditorInv /\ StoredTyped /\ HandlesOK

\* The hook moves on, and the editor on screen with it or not at all.
LEMMA HookMoves ==
  ASSUME SaveInv
  PROVE  /\ HookOf(ed)
         /\ HookOf(Closed(ed))
         /\ HookOf([ed EXCEPT !.left = TRUE])
         /\ HookOf([ed EXCEPT !.initial = None]) \/ ed.kind = "todo"
         /\ \A handle : HookOf([ed EXCEPT !.open = handle]) \/ ed.kind = "todo"
         /\ \A handle : \/ HookOf(Loading([ed EXCEPT !.open = handle, !.initial = None, !.base = None]))
                        \/ ed.kind = "todo"
         /\ \A handle, rev : \A body \in Body :
              HookOf([ed EXCEPT !.open = handle, !.base = rev, !.initial = body])
         /\ \A rev : \A body \in Body : HookOf([ed EXCEPT !.base = rev, !.initial = body])
<1>1. HookFields \subseteq DOMAIN ed /\ (ed.kind = "todo" /\ ed.open # None => ed.initial \in Body)
  BY DEF SaveInv, EditorInv, HookTyped
<1>2. HookOf(ed) /\ HookOf([ed EXCEPT !.left = TRUE])
  BY <1>1 DEF HookOf, HookFields
<1>3. HookOf(Closed(ed))
  BY <1>1 DEF HookOf, HookFields, Closed
<1>4. /\ HookOf([ed EXCEPT !.initial = None]) \/ ed.kind = "todo"
      /\ \A handle : HookOf([ed EXCEPT !.open = handle]) \/ ed.kind = "todo"
  BY <1>1 DEF HookOf, HookFields
<1>5. \A handle : \/ HookOf(Loading([ed EXCEPT !.open = handle, !.initial = None, !.base = None]))
                  \/ ed.kind = "todo"
  BY <1>1 DEF HookOf, HookFields, Loading
<1>6. \A handle, rev : \A body \in Body :
        HookOf([ed EXCEPT !.open = handle, !.base = rev, !.initial = body])
  BY <1>1 DEF HookOf, HookFields
<1>7. \A rev : \A body \in Body : HookOf([ed EXCEPT !.base = rev, !.initial = body])
  BY <1>1 DEF HookOf, HookFields
<1> QED
  BY <1>2, <1>3, <1>4, <1>5, <1>6, <1>7

\* The editor's steps that mount, unmount or close it.
LEMMA MountingKeepsEditor ==
  ASSUME SaveInv,
         Open \/ SeedEdit \/ CollapseByOther \/ Expand \/ Close \/ Delete \/ Leave \/ ReadAnswered
  PROVE  EditorInv'
<1>1. EditorInv /\ HookTyped /\ StoredTyped
  BY DEF SaveInv, EditorInv
<1>2. CASE Open
  <2>1. ed.kind # "todo"
    BY <1>2 DEF Open, Is
  <2>2. PICK d \in Doc :
          Unmount(Loading([ed EXCEPT !.open = HandleOf(d), !.initial = None, !.base = None]))
    BY <1>2 DEF Open
  <2> QED
    BY <1>1, <2>1, <2>2, HookMoves, UnmountKeeps
<1>3. CASE SeedEdit
  <2>1. PICK d \in Doc :
          Remount([ed EXCEPT !.open = HandleOf(d), !.base = live[d].rev,
                             !.initial = live[d].body], live[d].body)
    BY <1>3 DEF SeedEdit
  <2> SUFFICES ASSUME NEW body, body = live[d].body,
                      NEW e, e = [ed EXCEPT !.open = HandleOf(d), !.base = live[d].rev,
                                            !.initial = body]
               PROVE  EditorInv'
    OBVIOUS
  <2>2. body \in Body
    BY <1>1 DEF StoredTyped
  <2>3. HookOf(e) /\ e.initial \in Body
    BY <1>1, <2>2, HookMoves DEF HookTyped, HookFields
  <2> QED
    BY <1>1, <2>1, <2>2, <2>3, RemountKeeps
<1>4. CASE CollapseByOther
  BY <1>1, <1>4, HookMoves, UnmountKeeps DEF CollapseByOther
<1>5. CASE Expand
  <2>1. ed.initial \in Body
    BY <1>1, <1>5, OffersNeedEditor DEF Expand, HookTyped
  <2> QED
    BY <1>1, <1>5, <2>1, HookMoves, RemountKeeps DEF Expand
<1>6. CASE Close
  BY <1>1, <1>6, HookMoves, UnmountKeeps DEF Close
<1>7. CASE Delete
  BY <1>1, <1>7, HookMoves, UnmountKeeps DEF Delete
<1>8. CASE Leave
  BY <1>1, <1>8, HookMoves, UnmountKeeps DEF Leave
<1>9. CASE ReadAnswered
  <2>1. PICK r \in reads :
          /\ r.answer # None
          /\ IF r.req # ed.load \/ ed.left THEN UNCHANGED <<ed, savers, writes>>
             ELSE IF r.answer.rev = None THEN Unmount([ed EXCEPT !.initial = None])
             ELSE Remount([ed EXCEPT !.base = r.answer.rev, !.initial = r.answer.body],
                          r.answer.body)
    BY <1>9 DEF ReadAnswered
  <2>2. ed.kind # "todo"
    BY <1>1 DEF StoredTyped
  <2>3. CASE r.req # ed.load \/ ed.left
    BY <1>1, <2>1, <2>3 DEF EditorInv, HookTyped, SaversOK, SaverOK, WritesOK, DraftShown,
       ShowsBody, Body
  <2>4. CASE ~(r.req # ed.load \/ ed.left) /\ r.answer.rev = None
    BY <1>1, <2>1, <2>2, <2>4, HookMoves, UnmountKeeps
  <2>5. CASE ~(r.req # ed.load \/ ed.left) /\ r.answer.rev # None
    <3> SUFFICES ASSUME NEW body, body = r.answer.body,
                        NEW e, e = [ed EXCEPT !.base = r.answer.rev, !.initial = body]
                 PROVE  EditorInv'
      OBVIOUS
    <3>1. body \in Body
      BY <1>1, <2>1, <2>5 DEF StoredTyped
    <3>2. HookOf(e) /\ e.initial \in Body
      BY <1>1, <3>1, HookMoves DEF HookTyped, HookFields
    <3> QED
      BY <1>1, <2>1, <2>5, <3>1, <3>2, RemountKeeps
  <2> QED
    BY <2>3, <2>4, <2>5
<1> QED
  BY <1>2, <1>3, <1>4, <1>5, <1>6, <1>7, <1>8, <1>9

\* What is typed is shown, and pending or queued.
LEMMA EditKeepsEditor == ASSUME SaveInv, Edit PROVE EditorInv'
<1> SUFFICES ASSUME NEW body, body = ed.draft \cup {docSpent.edits + 1},
                    NEW s, s = ed.mounted, NEW sv, sv = Pushed(savers[s], body)
             PROVE  EditorInv'
  OBVIOUS
<1>1. /\ docSpent.edits < MaxEdits /\ ed' = [ed EXCEPT !.draft = body]
      /\ savers' = [savers EXCEPT ![s] = sv] /\ writes' = writes
  BY DEF Edit
<1>2. s \in 1..MaxMounts /\ s \in 1..ed.mounts /\ ed.draft \in Body
  BY OffersNeedEditor, DocumentAssumption DEF Edit, SaveInv, EditorInv, HookTyped
<1>3. body \in Body
  BY <1>1, <1>2, DocumentAssumption DEF SaveInv, StoredTyped, Body
<1>4. SaverOK(savers[s]) /\ DOMAIN savers = 1..MaxMounts
  BY <1>2 DEF SaveInv, EditorInv, SaversOK
<1>5. /\ SaverOK(sv) /\ ShowsBody(sv, body)
      /\ savers[s].phase = "saving" => sv.phase = "saving"
  BY <1>3, <1>4, DocumentAssumption DEF Pushed, SaverOK, ShowsBody, Body
<1>6. HookTyped' /\ ed'.mounted = s /\ ed'.draft = body /\ ed'.mounts = ed.mounts
  BY <1>1, <1>3 DEF SaveInv, EditorInv, HookTyped, HookFields, Body
<1>7. SaversOK' /\ WritesOK'
  <2>1. OneSave(s, sv, {})
    BY DEF OneSave
  <2>2. \A i \in 1..MaxMounts : SaverOK(savers'[i])
    BY <1>1, <1>2, <1>4, <1>5 DEF SaveInv, EditorInv, SaversOK
  <2>3. SaversOK'
    BY <1>1, <1>4, <2>2 DEF SaversOK, SaverOK, Body
  <2>4. WritesOK'
    BY <1>1, <1>2, <1>4, <1>5, <1>6 DEF SaveInv, EditorInv, WritesOK, Body
  <2> QED
    BY <2>3, <2>4
<1>8. DraftShown'
  BY <1>1, <1>2, <1>4, <1>5, <1>6 DEF DraftShown, ShowsBody
<1> QED
  BY <1>6, <1>7, <1>8 DEF EditorInv

\* A commit of the editor on screen, by the user, or by a timer the user's edit armed.
LEMMA CommitKeepsEditor ==
  ASSUME SaveInv, UNCHANGED ed, ed.mounted # 0, NEW byUser \in BOOLEAN,
         Commit(ed.mounted, byUser), byUser \/ savers[ed.mounted].armed
  PROVE  EditorInv'
<1> SUFFICES ASSUME NEW s, s = ed.mounted,
                    NEW old, old = [savers[s] EXCEPT !.asked = @ \/ byUser],
                    NEW sv, sv = Committed(s, old, ed), NEW sent, sent = Committing(s, ed)
             PROVE  EditorInv'
  OBVIOUS
<1>1. s \in 1..MaxMounts /\ s \in 1..ed.mounts /\ ed.mounts \in 0..MaxMounts
  BY DocumentAssumption DEF SaveInv, EditorInv, HookTyped
<1>2. SaverOK(savers[s]) /\ DOMAIN savers = 1..MaxMounts /\ ShowsBody(savers[s], ed.draft)
  BY <1>1 DEF SaveInv, EditorInv, SaversOK, DraftShown
<1>3. /\ SaverOK(old) /\ old.phase = savers[s].phase /\ old.pending = savers[s].pending
      /\ old.asked /\ ShowsBody(old, ed.draft)
  BY <1>2 DEF SaverOK, ShowsBody
<1>4. savers' = [savers EXCEPT ![s] = sv] /\ writes' = writes \cup sent
  BY DEF Commit
<1>5. SaverOK(sv) /\ ShowsBody(sv, ed.draft) /\ SendsAtMostOne(s, sv, sent)
  BY <1>1, <1>2, <1>3, CommittedKeeps
<1>6. SaversOK' /\ WritesOK'
  BY <1>1, <1>4, <1>5, OneSends DEF SaveInv, EditorInv
<1>7. DraftShown'
  BY <1>1, <1>2, <1>4, <1>5 DEF DraftShown, ShowsBody
<1> QED
  BY <1>6, <1>7 DEF EditorInv, HookTyped, SaveInv, Body

LEMMA FlushingKeepsEditor == ASSUME SaveInv, Flush \/ AutosaveTimer PROVE EditorInv'
<1>1. CASE Flush
  <2>1. ed.mounted # 0
    BY <1>1, OffersNeedEditor DEF Flush, SaveInv, EditorInv
  <2> QED
    BY <1>1, <2>1, CommitKeepsEditor DEF Flush
<1>2. CASE AutosaveTimer
  BY <1>2, CommitKeepsEditor DEF AutosaveTimer
<1> QED
  BY <1>1, <1>2

\* Done sends what is pending, and closes.
LEMMA DoneKeepsEditor == ASSUME SaveInv, Done PROVE EditorInv'
<1> SUFFICES ASSUME NEW s, s = ed.mounted,
                    NEW sv, sv = Leaving(s, ed), NEW sent, sent = Committing(s, ed)
             PROVE  EditorInv'
  OBVIOUS
<1>1. /\ savers' = [savers EXCEPT ![s] = sv] /\ writes' = writes \cup sent
      /\ ed' = [Closed(ed) EXCEPT !.mounted = 0, !.draft = None]
  BY DEF Done
<1>2. s \in 1..MaxMounts /\ s \in 1..ed.mounts /\ ed.mounts \in 0..MaxMounts
  BY OffersNeedEditor, DocumentAssumption DEF Done, Does, SaveInv, EditorInv, HookTyped
<1>3. SaverOK(savers[s])
  BY <1>2 DEF SaveInv, EditorInv, SaversOK
<1>4. SaverOK(sv) /\ SendsAtMostOne(s, sv, sent)
  BY <1>2, <1>3, LeavingKeeps
<1>5. HookTyped' /\ ed'.mounts = ed.mounts /\ ed'.mounted = 0
  <2> SUFFICES ASSUME NEW e, e = Closed(ed), ed' = [e EXCEPT !.mounted = 0, !.draft = None]
               PROVE  HookTyped' /\ ed'.mounts = ed.mounts /\ ed'.mounted = 0
    BY <1>1
  <2>1. HookOf(e) /\ e.open = None
    BY HookMoves DEF SaveInv, EditorInv, HookTyped, HookFields, Closed
  <2> QED
    BY <2>1, DocumentAssumption DEF SaveInv, EditorInv, HookTyped, HookOf, HookFields
<1> QED
  BY <1>1, <1>2, <1>4, <1>5, OneSends DEF SaveInv, EditorInv, DraftShown

\* The answer to a save.
LEMMA AnswersKeepEditor == ASSUME SaveInv, SaveAnswered \/ SaveRefused PROVE EditorInv'
<1>1. EditorInv /\ HookTyped
  BY DEF SaveInv, EditorInv
<1>2. CASE SaveAnswered
  <2>1. PICK w, e :
          /\ w \in writes
          /\ e = IF w.stage = "created" /\ Is({"todo"})
                 THEN [Closed(ed) EXCEPT !.mounted = 0, !.draft = None]
                 ELSE [ed EXCEPT !.base = w.rev]
          /\ ed' = e /\ Outcome(w, TRUE, e)
    BY <1>2 DEF SaveAnswered
  <2>2. CASE w.stage = "created" /\ Is({"todo"})
    <3> SUFFICES ASSUME NEW closed, closed = Closed(ed),
                        ed' = [closed EXCEPT !.mounted = 0, !.draft = None]
                 PROVE  HookTyped' /\ ed'.mounts = ed.mounts /\ ed'.mounted = 0
      BY <1>1, <2>1, <2>2, OutcomeKeeps
    <3>1. HookOf(closed) /\ closed.open = None
      BY <1>1, HookMoves DEF HookTyped, HookFields, Closed
    <3> QED
      BY <1>1, <3>1, DocumentAssumption DEF HookTyped, HookOf, HookFields
  <2>3. CASE ~(w.stage = "created" /\ Is({"todo"}))
    <3>1. ed' = [ed EXCEPT !.base = w.rev]
      BY <2>1, <2>3
    <3>2. /\ HookTyped' /\ ed'.mounts = ed.mounts /\ ed'.mounted = ed.mounted
          /\ ed'.draft = ed.draft
      BY <1>1, <3>1 DEF HookTyped, HookFields, Body
    <3> QED
      BY <1>1, <2>1, <3>2, OutcomeKeeps
  <2> QED
    BY <2>2, <2>3
<1>3. CASE SaveRefused
  <2>1. PICK w \in writes : (ed' = ConflictFound(w) \/ ed' = ed) /\ Outcome(w, FALSE, ed)
    BY <1>3 DEF SaveRefused
  <2>2. /\ HookTyped' /\ ed'.mounts = ed.mounts /\ ed'.mounted = ed.mounted
        /\ ed'.draft = ed.draft
    BY <1>1, <2>1 DEF HookTyped, HookFields, ConflictFound, Body
  <2> QED
    BY <1>1, <2>1, <2>2, OutcomeKeeps
<1> QED
  BY <1>2, <1>3

\* The name follows; a scratchpad's editor starts over from what was loaded.
LEMMA RenameKeepsEditor == ASSUME SaveInv, RenameAnswered PROVE EditorInv'
<1>1. EditorInv /\ HookTyped /\ SaversOK /\ WritesOK /\ DraftShown
  BY DEF SaveInv, EditorInv
<1>2. PICK h, e :
        /\ h \in renames
        /\ e = [ed EXCEPT !.open = h]
        /\ IF Idle \/ ed.left
           THEN ed' = (IF ed.left THEN ed ELSE e) /\ UNCHANGED <<savers, writes>>
           ELSE IF Is({"scratchpad"}) THEN Remount(e, ed.initial)
           ELSE /\ ed' = e
                /\ savers' = [savers EXCEPT ![ed.mounted].handle = h]
                /\ UNCHANGED writes
  BY DEF RenameAnswered
<1>3. ed.kind # "todo"
  BY <1>2 DEF SaveInv, StoredTyped
<1>4. HookOf(e)
  BY <1>2, <1>3, HookMoves
<1>5. ed' \in {ed, e} => /\ HookTyped' /\ ed'.mounted = ed.mounted /\ ed'.draft = ed.draft
                         /\ ed'.mounts = ed.mounts
  BY <1>1, <1>2, <1>3 DEF HookTyped, HookFields, Body
<1>6. CASE Idle \/ ed.left
  <2>1. ed' \in {ed, e} /\ savers' = savers /\ writes' = writes
    BY <1>2, <1>6
  <2> QED
    BY <1>1, <1>5, <2>1 DEF EditorInv, SaversOK, SaverOK, WritesOK, DraftShown, ShowsBody, Body
<1>7. CASE ~(Idle \/ ed.left) /\ Is({"scratchpad"})
  <2>1. ed.initial \in Body /\ e.initial = ed.initial
    BY <1>1, <1>2, <1>7 DEF Idle, HookTyped, HookFields
  <2> QED
    BY <1>1, <1>2, <1>4, <1>7, <2>1, RemountKeeps
<1>8. CASE ~(Idle \/ ed.left) /\ ~Is({"scratchpad"})
  <2> SUFFICES ASSUME NEW s, s = ed.mounted,
                      NEW sv, sv = [savers[s] EXCEPT !.handle = h]
               PROVE  EditorInv'
    OBVIOUS
  <2>1. ed' = e /\ savers' = [savers EXCEPT ![s] = sv] /\ writes' = writes
    BY <1>2, <1>8
  <2>2. s \in 1..MaxMounts /\ s \in 1..ed.mounts
    BY <1>1, <1>8, DocumentAssumption DEF Idle, HookTyped
  <2>3. SaverOK(savers[s]) /\ DOMAIN savers = 1..MaxMounts
    BY <1>1, <2>2 DEF SaversOK
  <2>4. /\ SaverOK(sv) /\ sv.phase = savers[s].phase
        /\ \A body : ShowsBody(savers[s], body) => ShowsBody(sv, body)
    BY <2>3 DEF SaverOK, ShowsBody
  <2>5. HookTyped' /\ ed'.mounted = s /\ ed'.draft = ed.draft /\ ed'.mounts = ed.mounts
    BY <1>5, <2>1
  <2>6. \A i \in 1..MaxMounts : SaverOK(savers'[i]) /\ savers'[i].phase = savers[i].phase
    BY <1>1, <2>1, <2>2, <2>3, <2>4 DEF SaversOK
  <2>7. SaversOK'
    BY <2>1, <2>3, <2>6 DEF SaversOK, SaverOK, Body
  <2>8. WritesOK'
    <3>1. \A w \in writes : w.saver \in 1..MaxMounts
      BY <1>1, DocumentAssumption DEF WritesOK, HookTyped
    <3>2. \A w \in writes' :
           /\ {"saver", "body", "stage", "rev"} \subseteq DOMAIN w
           /\ w.saver \in 1..ed'.mounts
           /\ w.body \in Body
           /\ savers'[w.saver].phase = "saving"
      BY <1>1, <2>1, <2>5, <2>6, <3>1 DEF WritesOK
    <3>3. \A v, w \in writes' : v.saver = w.saver => v = w
      BY <1>1, <2>1 DEF WritesOK
    <3> QED
      BY <3>2, <3>3 DEF WritesOK, Body
  <2>9. DraftShown'
    <3>1. savers'[s] = sv /\ ShowsBody(sv, ed.draft)
      BY <1>1, <2>1, <2>2, <2>3, <2>4 DEF DraftShown
    <3> QED
      BY <2>5, <3>1 DEF DraftShown, ShowsBody
  <2> QED
    BY <2>5, <2>7, <2>8, <2>9 DEF EditorInv
<1> QED
  BY <1>6, <1>7, <1>8

\* The core serves saves, and does what else it does.
LEMMA CoreKeepsEditor ==
  ASSUME SaveInv,
         \/ Reload \/ Rename \/ ServeWrite \/ RefuseWrite \/ ServeReread \/ ServeRead
         \/ AgentWrite \/ RefreshBoard \/ UNCHANGED documentVars
  PROVE  EditorInv'
<1>1. EditorInv
  BY DEF SaveInv
<1>2. CASE UNCHANGED <<ed, savers, writes>>
  BY <1>1, <1>2 DEF EditorInv, HookTyped, SaversOK, SaverOK, WritesOK, DraftShown, ShowsBody, Body
<1>3. CASE Rename \/ ServeRead \/ AgentWrite \/ RefreshBoard \/ UNCHANGED documentVars
  BY <1>2, <1>3 DEF Rename, ServeRead, AgentWrite, RefreshBoard, documentVars
<1>4. CASE Reload
  <2>1. ed' = Loading(ed) /\ UNCHANGED <<savers, writes>>
    BY <1>4 DEF Reload
  <2>2. HookTyped' /\ ed'.mounted = ed.mounted /\ ed'.draft = ed.draft /\ ed'.mounts = ed.mounts
    BY <1>1, <2>1 DEF EditorInv, HookTyped, HookFields, Loading, Body
  <2> QED
    BY <1>1, <2>1, <2>2 DEF EditorInv, SaversOK, SaverOK, WritesOK, DraftShown, ShowsBody, Body
<1>5. CASE ServeWrite \/ RefuseWrite \/ ServeReread
  <2>1. PICK w, stage, rev :
             /\ w \in writes /\ Served(w, stage, rev) /\ UNCHANGED <<ed, savers>>
    <3>1. CASE ServeWrite
      BY <3>1 DEF ServeWrite
    <3>2. CASE RefuseWrite
      BY <3>2 DEF RefuseWrite
    <3>3. CASE ServeReread
      BY <3>3 DEF ServeReread
    <3> QED
      BY <1>5, <3>1, <3>2, <3>3
  <2> QED
    BY <1>1, <2>1, ServedKeeps
<1> QED
  BY <1>3, <1>4, <1>5

\* No step changes what kind of editor this is.
LEMMA KindStays ==
  ASSUME HookTyped, [DocumentNext]_documentVars
  PROVE  ed'.kind = ed.kind
<1>1. ASSUME NEW e, HookFields \subseteq DOMAIN e, e.kind = ed.kind, Unmount(e)
      PROVE  ed'.kind = ed.kind
  BY <1>1 DEF Unmount, HookFields
<1>2. ASSUME NEW e, NEW body, HookFields \subseteq DOMAIN e, e.kind = ed.kind, Remount(e, body)
      PROVE  ed'.kind = ed.kind
  BY <1>2 DEF Remount, HookFields
<1>3. HookFields \subseteq DOMAIN ed
  BY DEF HookTyped
<1>4. CASE Open
  BY <1>1, <1>3, <1>4 DEF Open, Loading, HookFields
<1>5. CASE SeedEdit
  <2>1. PICK d \in Doc :
          Remount([ed EXCEPT !.open = HandleOf(d), !.base = live[d].rev,
                             !.initial = live[d].body], live[d].body)
    BY <1>5 DEF SeedEdit
  <2> SUFFICES ASSUME NEW body, NEW e, e = [ed EXCEPT !.open = HandleOf(d), !.base = live[d].rev,
                                                      !.initial = live[d].body],
                      Remount(e, body)
               PROVE  ed'.kind = ed.kind
    BY <2>1
  <2>2. HookFields \subseteq DOMAIN e /\ e.kind = ed.kind
    BY <1>3 DEF HookFields
  <2> QED
    BY <1>2, <2>2
<1>6. HookFields \subseteq DOMAIN Closed(ed) /\ Closed(ed).kind = ed.kind
  BY <1>3 DEF Closed, HookFields
<1>7. CASE Close \/ Delete
  BY <1>1, <1>6, <1>7 DEF Close, Delete
<1>8. CASE Done
  BY <1>6, <1>8 DEF Done, HookFields
<1>9. CASE CollapseByOther
  BY <1>1, <1>3, <1>9 DEF CollapseByOther
<1>10. CASE Expand
  BY <1>2, <1>3, <1>10 DEF Expand
<1>11. CASE Leave
  BY <1>1, <1>3, <1>11 DEF Leave, HookFields
<1>12. CASE Reload \/ Edit
  BY <1>3, <1>12 DEF Reload, Edit, Loading, HookFields
<1>13. CASE ReadAnswered
  <2>1. PICK r \in reads :
          \/ UNCHANGED ed
          \/ Unmount([ed EXCEPT !.initial = None])
          \/ Remount([ed EXCEPT !.base = r.answer.rev, !.initial = r.answer.body], r.answer.body)
    BY <1>13 DEF ReadAnswered
  <2> SUFFICES ASSUME NEW e, NEW u, NEW body, u = [ed EXCEPT !.initial = None],
                      e = [ed EXCEPT !.base = r.answer.rev, !.initial = r.answer.body],
                      UNCHANGED ed \/ Unmount(u) \/ Remount(e, body)
               PROVE  ed'.kind = ed.kind
    BY <2>1
  <2>2. /\ HookFields \subseteq DOMAIN e /\ e.kind = ed.kind
        /\ HookFields \subseteq DOMAIN u /\ u.kind = ed.kind
    BY <1>3 DEF HookFields
  <2> QED
    BY <1>1, <1>2, <2>2
<1>14. CASE SaveAnswered \/ SaveRefused
  <2>1. \/ ed' = [Closed(ed) EXCEPT !.mounted = 0, !.draft = None]
        \/ \E rev : ed' = [ed EXCEPT !.base = rev]
        \/ ed' = ed
        \/ \E w : ed' = ConflictFound(w)
    <3>1. CASE SaveAnswered
      BY <3>1 DEF SaveAnswered
    <3>2. CASE SaveRefused
      BY <3>2 DEF SaveRefused
    <3> QED
      BY <1>14, <3>1, <3>2
  <2> QED
    BY <1>3, <1>6, <2>1 DEF ConflictFound, HookFields
<1>15. CASE RenameAnswered
  <2>1. PICK h, e :
          /\ h \in renames
          /\ e = [ed EXCEPT !.open = h]
          /\ ed' = ed \/ ed' = e \/ Remount(e, ed.initial)
    BY <1>15 DEF RenameAnswered
  <2>2. HookFields \subseteq DOMAIN e /\ e.kind = ed.kind
    BY <1>3, <2>1 DEF HookFields
  <2> QED
    BY <1>2, <2>1, <2>2
<1>16. CASE UNCHANGED ed
  BY <1>16
<1>17. CASE \/ Rename \/ Flush \/ AutosaveTimer \/ ServeWrite \/ RefuseWrite \/ ServeReread
            \/ ServeRead \/ AgentWrite \/ RefreshBoard \/ UNCHANGED documentVars
  BY <1>16, <1>17 DEF Rename, Flush, AutosaveTimer, ServeWrite, RefuseWrite, ServeReread,
     ServeRead, AgentWrite, RefreshBoard, documentVars
<1> QED
  BY <1>4, <1>5, <1>7, <1>8, <1>9, <1>10, <1>11, <1>12, <1>13, <1>14, <1>15, <1>17
     DEF DocumentNext

\* A write moves the revision of one document on.
LEMMA OneWritten ==
  ASSUME StoredTyped, NEW x, NEW body,
         docs' = [docs EXCEPT ![x].rev = @ + 1, ![x].body = body]
  PROVE  /\ DOMAIN docs' = Doc
         /\ \A d \in Doc : d # x => docs'[d] = docs[d]
         /\ x \in Doc => /\ DOMAIN docs'[x] = DOMAIN docs[x]
                         /\ docs'[x].rev = docs[x].rev + 1 /\ docs'[x].body = body
                         /\ docs'[x].name = docs[x].name
<1> SUFFICES ASSUME NEW old, old = docs[x],
                    NEW new, new = [old EXCEPT !.rev = @ + 1, !.body = body]
             PROVE  /\ DOMAIN docs' = Doc
                    /\ \A d \in Doc : d # x => docs'[d] = docs[d]
                    /\ x \in Doc => docs'[x] = new /\ DOMAIN new = DOMAIN old
                                    /\ new.rev = old.rev + 1 /\ new.body = body
                                    /\ new.name = old.name
  OBVIOUS
<1>1. DOMAIN docs = Doc /\ (x \in Doc => {"rev", "body", "name"} \subseteq DOMAIN old)
  BY DEF StoredTyped
<1>2. DOMAIN docs' = Doc /\ \A d \in Doc : d # x => docs'[d] = docs[d]
  BY <1>1
<1>3. x \in Doc => docs'[x] = new
  BY <1>1
<1>4. x \in Doc => DOMAIN new = DOMAIN old /\ new.rev = old.rev + 1 /\ new.body = body
                   /\ new.name = old.name
  BY <1>1
<1> QED
  BY <1>2, <1>3, <1>4

\* Whatever is stored or read is a body, and only the editors that read have reads.
LEMMA StoredStays ==
  ASSUME SaveInv, [DocumentNext]_documentVars
  PROVE  StoredTyped'
<1>1. StoredTyped /\ ed'.kind = ed.kind
  BY KindStays DEF SaveInv, EditorInv
<1>2. {"acts", "edits"} \subseteq DOMAIN docSpent' /\ docSpent'.edits \in Nat
  <2>1. \/ docSpent' = docSpent
        \/ docSpent' = [docSpent EXCEPT !.acts = @ + 1]
        \/ docSpent' = [docSpent EXCEPT !.edits = @ + 1]
    BY DEF DocumentNext, documentVars, Does, Open, Reload, SeedEdit, CollapseByOther, Expand,
       Close, Done, Delete, Rename, Leave, Edit, Flush, AutosaveTimer, ServeWrite, RefuseWrite,
       ServeReread, ServeRead, AgentWrite, RefreshBoard, ReadAnswered, SaveAnswered,
       SaveRefused, RenameAnswered
  <2> QED
    BY <1>1, <2>1 DEF StoredTyped
<1>3. /\ DOMAIN docs' = Doc
      /\ \A d \in Doc : {"rev", "body", "name"} \subseteq DOMAIN docs'[d] /\ docs'[d].body \in Body
  <2>1. CASE docs' = docs
    BY <1>1, <2>1 DEF StoredTyped
  <2>2. CASE Delete \/ Rename
    <3>1. \E d, name : docs' = [docs EXCEPT ![d].name = name]
      BY <2>2 DEF Delete, Rename
    <3> QED
      BY <1>1, <3>1 DEF StoredTyped
  <2>3. CASE ServeWrite
    <3>1. \/ docs' = docs
          \/ \E w \in writes :
               docs' = [docs EXCEPT ![w.to.doc].rev = @ + 1, ![w.to.doc].body = w.body]
      BY <2>3 DEF ServeWrite
    <3>2. \A w \in writes : w.body \in Body
      BY DEF SaveInv, EditorInv, WritesOK
    <3>3. CASE docs' # docs
      <4>1. PICK w, x :
              /\ w \in writes /\ x = w.to.doc
              /\ docs' = [docs EXCEPT ![x].rev = @ + 1, ![x].body = w.body]
        BY <3>1, <3>3
      <4>2. /\ DOMAIN docs' = Doc
            /\ \A d \in Doc : d # x => docs'[d] = docs[d]
            /\ x \in Doc => DOMAIN docs'[x] = DOMAIN docs[x] /\ docs'[x].body = w.body
        BY <1>1, <4>1, OneWritten
      <4>3. w.body \in Body
        BY <3>2, <4>1
      <4> QED
        BY <1>1, <4>2, <4>3 DEF StoredTyped
    <3> QED
      BY <2>1, <3>3
  <2>4. CASE AgentWrite
    <3>1. PICK d \in Doc :
            docs' = [docs EXCEPT ![d].rev = @ + 1, ![d].body = @ \cup {docSpent.edits + 1}]
      BY <2>4 DEF AgentWrite
    <3>2. docs[d].body \cup {docSpent.edits + 1} \in Body
      BY <1>1, <2>4, DocumentAssumption DEF AgentWrite, StoredTyped, Body
    <3>3. docs' = [docs EXCEPT ![d].rev = @ + 1, ![d].body = docs[d].body \cup {docSpent.edits + 1}]
      BY <1>1, <3>1 DEF StoredTyped
    <3> QED
      BY <1>1, <3>2, <3>3, OneWritten DEF StoredTyped
  <2>5. docs' = docs \/ Delete \/ Rename \/ ServeWrite \/ AgentWrite
    BY DEF DocumentNext, documentVars, Open, Reload, SeedEdit, CollapseByOther, Expand,
       Close, Done, Leave, Edit, Flush, AutosaveTimer, RefuseWrite,
       ServeReread, ServeRead, RefreshBoard, ReadAnswered, SaveAnswered,
       SaveRefused, RenameAnswered
  <2> QED
    BY <2>1, <2>2, <2>3, <2>4, <2>5
<1>4. DOMAIN live' = Doc /\ \A d \in Doc : live'[d].body \in Body
  <2>1. CASE live' = live
    BY <1>1, <2>1 DEF StoredTyped
  <2>2. CASE RefreshBoard
    <3>1. PICK d \in Doc :
            live' = [live EXCEPT ![d] = [rev |-> docs[d].rev, body |-> docs[d].body]]
      BY <2>2 DEF RefreshBoard
    <3> QED
      BY <1>1, <3>1 DEF StoredTyped
  <2>3. live' = live \/ RefreshBoard
    BY DEF DocumentNext, documentVars, Open, Reload, SeedEdit, CollapseByOther, Expand,
       Close, Done, Delete, Rename, Leave, Edit, Flush, AutosaveTimer, ServeWrite, RefuseWrite,
       ServeReread, ServeRead, AgentWrite, ReadAnswered, SaveAnswered,
       SaveRefused, RenameAnswered
  <2> QED
    BY <2>1, <2>2, <2>3
<1>5. /\ \A r \in reads' :
           /\ "answer" \in DOMAIN r
           /\ r.answer # None /\ r.answer.rev # None => r.answer.body \in Body
      /\ ed.kind = "todo" => reads' = {}
  <2>1. CASE reads' \subseteq reads
    BY <1>1, <2>1 DEF StoredTyped
  <2>2. CASE Open \/ Reload
    <3>1. \E req, to : reads' = reads \cup {[req |-> req, to |-> to, answer |-> None]}
      BY <2>2 DEF Open, Reload, Load
    <3>2. ed.kind # "todo"
      BY <2>2 DEF Open, Reload, Is
    <3>3. PICK req, to : reads' = reads \cup {[req |-> req, to |-> to, answer |-> None]}
      BY <3>1
    <3>4. \A r : r = [req |-> req, to |-> to, answer |-> None]
                 => "answer" \in DOMAIN r /\ r.answer = None
      OBVIOUS
    <3> QED
      BY <1>1, <3>2, <3>3, <3>4 DEF StoredTyped
  <2>3. CASE ServeRead
    <3>1. PICK r, answer :
            /\ r \in reads
            /\ answer = IF Exists(r.to)
                        THEN [rev |-> docs[r.to.doc].rev, body |-> docs[r.to.doc].body]
                        ELSE [rev |-> None, body |-> None]
            /\ reads' = (reads \ {r}) \cup {[r EXCEPT !.answer = answer]}
      BY <2>3 DEF ServeRead
    <3>2. answer.rev # None => answer.body \in Body
      BY <1>1, <3>1 DEF StoredTyped, SaveInv, HandlesOK, HandleOK
    <3>3. "answer" \in DOMAIN [r EXCEPT !.answer = answer] /\ [r EXCEPT !.answer = answer].answer = answer
      BY <1>1, <3>1 DEF StoredTyped
    <3> QED
      BY <1>1, <3>1, <3>2, <3>3 DEF StoredTyped
  <2>4. reads' \subseteq reads \/ Open \/ Reload \/ ServeRead
    BY DEF DocumentNext, documentVars, SeedEdit, CollapseByOther, Expand,
       Close, Done, Delete, Rename, Leave, Edit, Flush, AutosaveTimer, ServeWrite, RefuseWrite,
       ServeReread, AgentWrite, RefreshBoard, ReadAnswered, SaveAnswered,
       SaveRefused, RenameAnswered
  <2> QED
    BY <2>1, <2>2, <2>3, <2>4
<1>6. ed.kind = "todo" => renames' = {}
  <2>1. CASE renames' \subseteq renames
    BY <1>1, <2>1 DEF StoredTyped
  <2>2. CASE Rename
    BY <2>2, OffersNeedEditor DEF Rename, Does, SaveInv, EditorInv
  <2>3. renames' \subseteq renames \/ Rename
    BY DEF DocumentNext, documentVars, Open, Reload, SeedEdit, CollapseByOther, Expand,
       Close, Done, Delete, Leave, Edit, Flush, AutosaveTimer, ServeWrite, RefuseWrite,
       ServeReread, ServeRead, AgentWrite, RefreshBoard, ReadAnswered, SaveAnswered,
       SaveRefused, RenameAnswered
  <2> QED
    BY <2>1, <2>2, <2>3
<1> QED
  BY <1>1, <1>2, <1>3, <1>4, <1>5, <1>6 DEF StoredTyped, Body

\* How a step moves the hook's handle: it stays, or follows a rename, or a load is begun.
LEMMA HandleMoves ==
  ASSUME SaveInv, [DocumentNext]_documentVars
  PROVE  \/ /\ ed'.load = ed.load /\ ed'.open = ed.open
            /\ ed'.mounted # 0 => ed.mounted # 0 \/ \E r \in reads : r.req = ed.load
         \/ ed'.load = ed.load /\ ed'.open \in renames
         \/ ed'.load = ed.load /\ ed.kind = "todo"
         \/ ed'.load = ed.load + 1 /\ ed'.mounted = 0
         \/ ed'.load = ed.load + 1 /\ ed'.open = ed.open /\ ed.mounted # 0
<1>1. HookTyped /\ HookFields \subseteq DOMAIN ed
  BY DEF SaveInv, EditorInv, HookTyped
<1>2. ASSUME NEW e, HookFields \subseteq DOMAIN e, Unmount(e)
      PROVE  ed'.load = e.load /\ ed'.open = e.open /\ ed'.mounted = 0
  BY <1>2 DEF Unmount, HookFields
<1>3. ASSUME NEW e, NEW body, HookFields \subseteq DOMAIN e, Remount(e, body)
      PROVE  ed'.load = e.load /\ ed'.open = e.open
  BY <1>3 DEF Remount, HookFields
<1>4. CASE Open
  <2>1. PICK d, e :
          /\ d \in Doc
          /\ e = Loading([ed EXCEPT !.open = HandleOf(d), !.initial = None, !.base = None])
          /\ Unmount(e)
    BY <1>4 DEF Open
  <2>2. HookFields \subseteq DOMAIN e /\ e.load = ed.load + 1
    BY <1>1, <2>1 DEF Loading, HookFields
  <2> QED
    BY <1>2, <2>1, <2>2
<1>5. CASE SeedEdit
  <2>1. PICK d \in Doc :
          Remount([ed EXCEPT !.open = HandleOf(d), !.base = live[d].rev,
                             !.initial = live[d].body], live[d].body)
    BY <1>5 DEF SeedEdit
  <2> SUFFICES ASSUME NEW body, NEW e, e = [ed EXCEPT !.open = HandleOf(d), !.base = live[d].rev,
                                                      !.initial = body],
                      Remount(e, body)
               PROVE  ed'.load = ed.load /\ ed.kind = "todo"
    BY <2>1
  <2>2. HookFields \subseteq DOMAIN e /\ e.load = ed.load
    BY <1>1 DEF HookFields
  <2> QED
    BY <1>3, <1>5, <2>2 DEF SeedEdit, Is
<1>6. HookFields \subseteq DOMAIN Closed(ed) /\ Closed(ed).load = ed.load + 1
  BY <1>1 DEF Closed, HookFields
<1>7. CASE Close \/ Delete
  BY <1>2, <1>6, <1>7 DEF Close, Delete
<1>8. CASE Done
  BY <1>6, <1>8 DEF Done, HookFields
<1>9. CASE CollapseByOther
  BY <1>1, <1>2, <1>9 DEF CollapseByOther
<1>10. CASE Expand
  BY <1>1, <1>3, <1>10, OffersNeedEditor DEF Expand
<1>11. CASE Leave
  BY <1>1, <1>2, <1>11 DEF Leave, HookFields
<1>12. CASE Reload
  <2>1. ed.mounted # 0
    BY <1>1, <1>12, OffersNeedEditor DEF Reload, Does
  <2> QED
    BY <1>1, <1>12, <2>1 DEF Reload, Loading, HookFields
<1>13. CASE Edit
  BY <1>1, <1>13 DEF Edit, HookFields
<1>14. CASE ReadAnswered
  <2>1. PICK r \in reads :
          \/ UNCHANGED ed
          \/ Unmount([ed EXCEPT !.initial = None])
          \/ /\ r.req = ed.load
             /\ Remount([ed EXCEPT !.base = r.answer.rev, !.initial = r.answer.body], r.answer.body)
    BY <1>14 DEF ReadAnswered
  <2> SUFFICES ASSUME NEW e, NEW u, NEW body, u = [ed EXCEPT !.initial = None],
                      e = [ed EXCEPT !.base = r.answer.rev, !.initial = r.answer.body],
                      UNCHANGED ed \/ Unmount(u) \/ (r.req = ed.load /\ Remount(e, body))
               PROVE  /\ ed'.load = ed.load /\ ed'.open = ed.open
                      /\ ed'.mounted # 0 => ed.mounted # 0 \/ \E q \in reads : q.req = ed.load
    BY <2>1
  <2>2. /\ HookFields \subseteq DOMAIN e /\ e.load = ed.load /\ e.open = ed.open
        /\ HookFields \subseteq DOMAIN u /\ u.load = ed.load /\ u.open = ed.open
    BY <1>1 DEF HookFields
  <2> QED
    BY <1>2, <1>3, <2>2
<1>15. CASE SaveAnswered \/ SaveRefused
  <2>1. \/ ed' = [Closed(ed) EXCEPT !.mounted = 0, !.draft = None]
        \/ \E rev : ed' = [ed EXCEPT !.base = rev]
        \/ ed' = ed
        \/ \E w : ed' = ConflictFound(w)
    <3>1. CASE SaveAnswered
      BY <3>1 DEF SaveAnswered
    <3>2. CASE SaveRefused
      BY <3>2 DEF SaveRefused
    <3> QED
      BY <1>15, <3>1, <3>2
  <2> QED
    BY <1>1, <1>6, <2>1 DEF ConflictFound, HookFields
<1>16. CASE RenameAnswered
  <2>1. PICK h, e :
          /\ h \in renames
          /\ e = [ed EXCEPT !.open = h]
          /\ ed' = ed \/ ed' = e \/ Remount(e, ed.initial)
    BY <1>16 DEF RenameAnswered
  <2>2. HookFields \subseteq DOMAIN e /\ e.load = ed.load /\ e.open = h
    BY <1>1, <2>1 DEF HookFields
  <2> QED
    BY <1>3, <2>1, <2>2
<1>17. CASE \/ Rename \/ Flush \/ AutosaveTimer \/ ServeWrite \/ RefuseWrite \/ ServeReread
            \/ ServeRead \/ AgentWrite \/ RefreshBoard \/ UNCHANGED documentVars
  BY <1>17 DEF Rename, Flush, AutosaveTimer, ServeWrite, RefuseWrite, ServeReread,
     ServeRead, AgentWrite, RefreshBoard, documentVars
<1> QED
  BY <1>4, <1>5, <1>7, <1>8, <1>9, <1>10, <1>11, <1>12, <1>13, <1>14, <1>15, <1>16, <1>17
     DEF DocumentNext

\* The core is asked for documents it knows.
LEMMA HandlesStay ==
  ASSUME SaveInv, [DocumentNext]_documentVars
  PROVE  HandlesOK'
<1>1. /\ HandlesOK /\ StoredTyped /\ HookTyped /\ HookFields \subseteq DOMAIN ed
      /\ ed'.kind = ed.kind
  BY KindStays DEF SaveInv, EditorInv, HookTyped
<1>2. ed.load \in Nat /\ ed'.load \in {ed.load, ed.load + 1}
  BY <1>1, HandleMoves DEF HandlesOK
<1>3. CASE ed.kind = "todo"
  <2>1. reads' = {} /\ renames' = {}
    BY <1>1, <1>3, StoredStays DEF StoredTyped
  <2> QED
    BY <1>1, <1>2, <1>3, <2>1 DEF HandlesOK
<1>4. CASE ed.kind # "todo"
  <2>1. ed'.mounted # 0 => HandleOK(ed'.open)
    BY <1>1, <1>4, HandleMoves DEF HandlesOK
  <2>2. ed'.load = ed.load /\ (\E r \in reads : r.req = ed.load) => HandleOK(ed'.open)
    BY <1>1, <1>2, <1>4, HandleMoves DEF HandlesOK
  <2>3. \A h \in renames' : HandleOK(h)
    <3>1. CASE renames' \subseteq renames
      BY <1>1, <3>1 DEF HandlesOK
    <3>2. CASE Rename
      <4>1. HandleOK(ed.open)
        BY <1>1, <1>4, <3>2, OffersNeedEditor DEF Rename, Does, HandlesOK
      <4>2. PICK name : renames' = renames \cup {[doc |-> ed.open.doc, name |-> name]}
        BY <3>2 DEF Rename
      <4> QED
        BY <1>1, <4>1, <4>2 DEF HandlesOK, HandleOK
    <3>3. renames' \subseteq renames \/ Rename
      BY DEF DocumentNext, documentVars, Open, Reload, SeedEdit, CollapseByOther, Expand,
         Close, Done, Delete, Leave, Edit, Flush, AutosaveTimer, ServeWrite, RefuseWrite,
         ServeReread, ServeRead, AgentWrite, RefreshBoard, ReadAnswered, SaveAnswered,
         SaveRefused, RenameAnswered
    <3> QED
      BY <3>1, <3>2, <3>3
  <2>4. \A r \in reads' : /\ {"req", "to", "answer"} \subseteq DOMAIN r
                          /\ HandleOK(r.to)
                          /\ r.req \in 0..ed'.load
                          /\ r.req = ed'.load => HandleOK(ed'.open)
    <3>1. \A r \in reads : /\ {"req", "to", "answer"} \subseteq DOMAIN r
                           /\ HandleOK(r.to)
                           /\ r.req \in 0..ed'.load
                           /\ r.req = ed'.load => HandleOK(ed'.open)
      BY <1>1, <1>2, <2>2 DEF HandlesOK
    <3>2. CASE reads' \subseteq reads
      BY <3>1, <3>2
    <3>3. CASE Open \/ Reload
      <4>1. HandleOK(ed'.open)
        <5>1. CASE Open
          <6>1. PICK d, e :
                  /\ d \in Doc
                  /\ e = Loading([ed EXCEPT !.open = HandleOf(d), !.initial = None, !.base = None])
                  /\ Unmount(e)
            BY <5>1 DEF Open
          <6>2. ed'.open = HandleOf(d)
            BY <1>1, <6>1 DEF Loading, Unmount, HookFields
          <6> QED
            BY <6>1, <6>2 DEF HandleOf, HandleOK
        <5>2. CASE Reload
          <6>1. HandleOK(ed.open)
            BY <1>1, <1>4, <5>2, OffersNeedEditor DEF Reload, Does, HandlesOK
          <6>2. ed'.open = ed.open
            BY <1>1, <5>2 DEF Reload, Loading, HookFields
          <6> QED
            BY <6>1, <6>2
        <5> QED
          BY <3>3, <5>1, <5>2
      <4>2. PICK q : /\ q = [req |-> ed'.load, to |-> ed'.open, answer |-> None]
                     /\ reads' = reads \cup {q}
        <5>1. CASE Open
          <6>1. PICK e : /\ {"load", "open"} \subseteq DOMAIN e /\ Unmount(e) /\ Load(e)
            BY <1>1, <5>1 DEF Open, Loading, HookFields
          <6>2. ed'.load = e.load /\ ed'.open = e.open
            BY <6>1 DEF Unmount
          <6> QED
            BY <6>1, <6>2 DEF Load
        <5>2. CASE Reload
          BY <5>2 DEF Reload, Load
        <5> QED
          BY <3>3, <5>1, <5>2
      <4>3. /\ {"req", "to", "answer"} \subseteq DOMAIN q /\ q.to = ed'.open /\ q.req = ed'.load
        BY <4>2
      <4> QED
        BY <1>2, <3>1, <4>1, <4>2, <4>3
    <3>4. CASE ServeRead
      <4>1. PICK r, answer :
                 /\ r \in reads /\ reads' = (reads \ {r}) \cup {[r EXCEPT !.answer = answer]}
        BY <3>4 DEF ServeRead
      <4>2. PICK q : q = [r EXCEPT !.answer = answer]
        OBVIOUS
      <4>3. {"req", "to", "answer"} \subseteq DOMAIN q /\ q.to = r.to /\ q.req = r.req
        BY <3>1, <4>1, <4>2
      <4> QED
        BY <3>1, <4>1, <4>2, <4>3
    <3>5. reads' \subseteq reads \/ Open \/ Reload \/ ServeRead
      BY DEF DocumentNext, documentVars, SeedEdit, CollapseByOther, Expand,
         Close, Done, Delete, Rename, Leave, Edit, Flush, AutosaveTimer, ServeWrite, RefuseWrite,
         ServeReread, AgentWrite, RefreshBoard, ReadAnswered, SaveAnswered,
         SaveRefused, RenameAnswered
    <3> QED
      BY <3>2, <3>3, <3>4, <3>5
  <2> QED
    BY <1>1, <1>2, <2>1, <2>3, <2>4 DEF HandlesOK, HandleOK
<1> QED
  BY <1>3, <1>4

LEMMA SaveStep == SaveInv /\ [DocumentNext]_documentVars => SaveInv'
<1> SUFFICES ASSUME SaveInv, [DocumentNext]_documentVars PROVE SaveInv'
  OBVIOUS
<1>1. EditorInv'
  BY MountingKeepsEditor, EditKeepsEditor, FlushingKeepsEditor, DoneKeepsEditor,
     AnswersKeepEditor, RenameKeepsEditor, CoreKeepsEditor DEF DocumentNext
<1> QED
  BY <1>1, StoredStays, HandlesStay DEF SaveInv

LEMMA SaveInit == DocumentInit => SaveInv
<1> SUFFICES ASSUME DocumentInit PROVE SaveInv
  OBVIOUS
<1>1. HookTyped
  BY DocumentAssumption DEF DocumentInit, HookTyped, HookFields
<1>2. SaversOK
  BY DEF DocumentInit, SaversOK, SaverOK, NoSaver
<1>3. ed.mounted = 0 /\ writes = {} /\ reads = {} /\ renames = {}
  BY DEF DocumentInit
<1>4. {} \in Body
  BY DEF Body
<1>5. StoredTyped
  BY <1>3, <1>4 DEF DocumentInit, StoredTyped
<1>6. HandlesOK
  BY <1>3 DEF DocumentInit, HandlesOK
<1> QED
  BY <1>1, <1>2, <1>3, <1>5, <1>6 DEF SaveInv, EditorInv, WritesOK, DraftShown

\* What useAutosave.ts says is saved was accepted, and neither its timer, nor the drain
\* of its queue, nor the late answer of another save repeats what was refused: for any
\* documents, editors, edits, agents and answers.  The commit of an unmount counts as a
\* flush, also when an answer replaced the editor: that retry is NeverBehindTheBack's.
THEOREM SavesHoldHolds == DocumentSpec => []SavesHold
<1>1. SaveInv => SavedIsAccepted
  BY DEF SaveInv, EditorInv, DraftShown, ShowsBody, SavedIsAccepted
<1>2. SaveInv => RefusedIsNotRetried
  BY DEF SaveInv, EditorInv, SaversOK, SaverOK, RefusedIsNotRetried
<1> QED
  BY <1>1, <1>2, SaveInit, SaveStep, PTL DEF DocumentSpec, SavesHold

-------------------------------------------------------------------------------
(* One editing session.                                                      *)

\* A text b that names revision g of d has in it what a store of documents holds at g.
Safe(store, d, g, b) ==
  g # None => /\ g \in Nat /\ g <= store[d].rev
              /\ g = store[d].rev => store[d].body \subseteq b

\* What a load or the board has read is what the document held at that revision.
Mirrors ==
  /\ \A d \in Doc : /\ docs[d].rev \in Nat \ {0}
                    /\ docs[d].rev = 1 => docs[d].body = {}
                    /\ {"rev", "body"} \subseteq DOMAIN live[d]
                    /\ live[d].rev # None /\ Safe(docs, d, live[d].rev, live[d].body)
  /\ \A r \in reads : r.answer # None => Safe(docs, r.to.doc, r.answer.rev, r.answer.body)

\* Whatever a saver of d has yet to send names a revision it holds all of, the text on
\* screen too; what is queued is later than what is in flight.
SaverSafe(store, sv, d, base, text) ==
  /\ "handle" \in DOMAIN sv /\ sv.handle.doc = d
  /\ sv.queued # None => sv.pending \subseteq sv.queued
  /\ sv.phase # "clean" => Safe(store, d, base, sv.pending)
  /\ sv.phase = "clean" /\ text # None => Safe(store, d, base, text)

\* So does what it has sent; an answer names the revision the save made.
WriteSafe(store, w, d, text) ==
  /\ {"to", "guard"} \subseteq DOMAIN w
  /\ w.to # None => w.to.doc = d
  /\ w.body = text
  /\ w.stage = "sent" => Safe(store, d, w.guard, w.body)
  /\ w.stage = "saved" => w.rev # None /\ Safe(store, d, w.rev, w.body)
  /\ w.stage = "created" => w.rev = 1

\* The document of the first editor: what it is renamed to is still this document.
SessionDoc == savers[1].handle.doc

FirstSession ==
  /\ SessionDoc \in Doc
  /\ ed.mounted = 0 => ed.draft = None
  /\ ed.mounted # 0 => ed.open.doc = SessionDoc
  /\ ed.kind = "todo" /\ ed.open # None => ed.open.doc = SessionDoc
  /\ \A h \in renames : h.doc = SessionDoc
  /\ SaverSafe(docs, savers[1], SessionDoc, ed.base, ed.draft)
  /\ \A w \in writes : WriteSafe(docs, w, SessionDoc, savers[1].pending)

\* Before it, nothing is renamed and the newest load is of what is open.
NoSession ==
  /\ renames = {}
  /\ ed.kind = "todo" => ed.open = None
  /\ \A r \in reads : r.req = ed.load => r.to = ed.open

SessionInv ==
  /\ Mirrors
  /\ ed.mounts = 0 => NoSession
  /\ ed.mounts = 1 => FirstSession

LEMMA SafeGrows ==
  ASSUME NEW store, NEW d, NEW g, NEW b, NEW c, Safe(store, d, g, b), b \subseteq c
  PROVE  Safe(store, d, g, c)
BY DEF Safe

\* A body changes only as its revision moves on.
LEMMA DocsMove ==
  ASSUME SaveInv, [DocumentNext]_documentVars, NEW d \in Doc
  PROVE  \/ docs'[d].rev = docs[d].rev /\ docs'[d].body = docs[d].body
         \/ docs'[d].rev = docs[d].rev + 1
<1>1. StoredTyped
  BY DEF SaveInv
<1>2. CASE Delete \/ Rename
  <2>1. \E x, name : docs' = [docs EXCEPT ![x].name = name]
    BY <1>2 DEF Delete, Rename
  <2> QED
    BY <1>1, <2>1 DEF StoredTyped
<1>3. CASE ServeWrite
  <2>1. \/ docs' = docs
        \/ \E x, body : docs' = [docs EXCEPT ![x].rev = @ + 1, ![x].body = body]
    BY <1>3 DEF ServeWrite
  <2>2. ASSUME NEW x, NEW body, docs' = [docs EXCEPT ![x].rev = @ + 1, ![x].body = body]
        PROVE  \/ docs'[d].rev = docs[d].rev /\ docs'[d].body = docs[d].body
               \/ docs'[d].rev = docs[d].rev + 1
    BY <1>1, <2>2, OneWritten
  <2> QED
    BY <2>1, <2>2
<1>4. CASE AgentWrite
  <2>1. PICK x \in Doc :
          docs' = [docs EXCEPT ![x].rev = @ + 1, ![x].body = @ \cup {docSpent.edits + 1}]
    BY <1>4 DEF AgentWrite
  <2>2. docs' = [docs EXCEPT ![x].rev = @ + 1, ![x].body = docs[x].body \cup {docSpent.edits + 1}]
    BY <1>1, <2>1 DEF StoredTyped
  <2> QED
    BY <1>1, <2>2, OneWritten
<1>5. docs' = docs \/ Delete \/ Rename \/ ServeWrite \/ AgentWrite
  BY DEF DocumentNext, documentVars, Open, Reload, SeedEdit, CollapseByOther, Expand,
     Close, Done, Leave, Edit, Flush, AutosaveTimer, RefuseWrite,
     ServeReread, ServeRead, RefreshBoard, ReadAnswered, SaveAnswered,
     SaveRefused, RenameAnswered
<1> QED
  BY <1>2, <1>3, <1>4, <1>5

\* What names a revision safely goes on doing so, whoever writes.
LEMMA SafeStays ==
  ASSUME SaveInv, Mirrors, [DocumentNext]_documentVars, NEW d \in Doc, NEW g, NEW b,
         Safe(docs, d, g, b)
  PROVE  Safe(docs', d, g, b)
<1>1. docs[d].rev \in Nat
  BY DEF Mirrors
<1> QED
  BY <1>1, DocsMove DEF Safe

LEMMA MirrorsStay ==
  ASSUME SaveInv, Mirrors, [DocumentNext]_documentVars
  PROVE  Mirrors'
<1>1. StoredTyped /\ HandlesOK
  BY DEF SaveInv
<1>2. \A d \in Doc : docs'[d].rev \in Nat \ {0} /\ (docs'[d].rev = 1 => docs'[d].body = {})
  <2> SUFFICES ASSUME NEW d \in Doc
               PROVE  docs'[d].rev \in Nat \ {0} /\ (docs'[d].rev = 1 => docs'[d].body = {})
    OBVIOUS
  <2>1. docs[d].rev \in Nat \ {0} /\ (docs[d].rev = 1 => docs[d].body = {})
    BY DEF Mirrors
  <2> QED
    BY <2>1, DocsMove
<1>3. \A d \in Doc : /\ {"rev", "body"} \subseteq DOMAIN live'[d]
                     /\ live'[d].rev # None /\ Safe(docs', d, live'[d].rev, live'[d].body)
  <2>1. CASE live' = live
    BY <2>1, SafeStays DEF Mirrors
  <2>2. CASE RefreshBoard
    <3>1. PICK x \in Doc :
            /\ live' = [live EXCEPT ![x] = [rev |-> docs[x].rev, body |-> docs[x].body]]
            /\ docs' = docs
      BY <2>2 DEF RefreshBoard
    <3> SUFFICES ASSUME NEW d \in Doc
                 PROVE  /\ {"rev", "body"} \subseteq DOMAIN live'[d]
                        /\ live'[d].rev # None
                        /\ Safe(docs, d, live'[d].rev, live'[d].body)
      BY <3>1
    <3>2. CASE d # x
      BY <1>1, <3>1, <3>2 DEF StoredTyped, Mirrors
    <3>3. CASE d = x
      <4>1. live'[d] = [rev |-> docs[d].rev, body |-> docs[d].body]
        BY <1>1, <3>1, <3>3 DEF StoredTyped
      <4>2. docs[d].rev \in Nat
        BY DEF Mirrors
      <4> QED
        BY <4>1, <4>2, DocumentAssumption DEF Safe
    <3> QED
      BY <3>2, <3>3
  <2>3. live' = live \/ RefreshBoard
    BY DEF DocumentNext, documentVars, Open, Reload, SeedEdit, CollapseByOther, Expand,
       Close, Done, Delete, Rename, Leave, Edit, Flush, AutosaveTimer, ServeWrite, RefuseWrite,
       ServeReread, ServeRead, AgentWrite, ReadAnswered, SaveAnswered,
       SaveRefused, RenameAnswered
  <2> QED
    BY <2>1, <2>2, <2>3
<1>4. \A r \in reads' : r.answer # None => Safe(docs', r.to.doc, r.answer.rev, r.answer.body)
  <2>1. \A r \in reads : r.answer # None => Safe(docs', r.to.doc, r.answer.rev, r.answer.body)
    BY <1>1, SafeStays DEF Mirrors, HandlesOK, HandleOK
  <2>2. CASE reads' \subseteq reads
    BY <2>1, <2>2
  <2>3. CASE Open \/ Reload
    <3>1. PICK req, to : reads' = reads \cup {[req |-> req, to |-> to, answer |-> None]}
      BY <2>3 DEF Open, Reload, Load
    <3>2. \A r \in reads' : r \in reads \/ r.answer = None
      BY <3>1
    <3> QED
      BY <2>1, <3>2
  <2>4. CASE ServeRead
    <3>1. PICK r, answer :
            /\ r \in reads
            /\ answer = IF Exists(r.to)
                        THEN [rev |-> docs[r.to.doc].rev, body |-> docs[r.to.doc].body]
                        ELSE [rev |-> None, body |-> None]
            /\ reads' = (reads \ {r}) \cup {[r EXCEPT !.answer = answer]}
            /\ docs' = docs
      BY <2>4 DEF ServeRead
    <3>2. r.to.doc \in Doc /\ {"req", "to", "answer"} \subseteq DOMAIN r
      BY <1>1, <3>1 DEF HandlesOK, HandleOK
    <3>3. Safe(docs, r.to.doc, answer.rev, answer.body)
      BY <3>1, <3>2, DocumentAssumption DEF Safe, Mirrors
    <3>4. PICK q : q = [r EXCEPT !.answer = answer]
      OBVIOUS
    <3>5. q.answer = answer /\ q.to = r.to
      BY <3>2, <3>4
    <3> QED
      BY <2>1, <3>1, <3>3, <3>4, <3>5
  <2>5. reads' \subseteq reads \/ Open \/ Reload \/ ServeRead
    BY DEF DocumentNext, documentVars, SeedEdit, CollapseByOther, Expand,
       Close, Done, Delete, Rename, Leave, Edit, Flush, AutosaveTimer, ServeWrite, RefuseWrite,
       ServeReread, AgentWrite, RefreshBoard, ReadAnswered, SaveAnswered,
       SaveRefused, RenameAnswered
  <2> QED
    BY <2>2, <2>3, <2>4, <2>5
<1> QED
  BY <1>2, <1>3, <1>4 DEF Mirrors, Safe

\* Saver s, which was as sv, commits with the hook in state e and becomes c: what it sends
\* is what was pending, at the revision the hook names.
CommitsAs(s, sv, e, c) ==
  /\ "handle" \in DOMAIN c /\ c.handle = sv.handle
  /\ c.pending = sv.pending /\ c.queued = sv.queued
  /\ (c.phase = "clean") <=> (sv.phase = "clean")
  /\ \A w \in Committing(s, e) :
       /\ {"to", "guard"} \subseteq DOMAIN w
       /\ w.to = Target(s, e) /\ w.guard = e.base /\ w.body = sv.pending
       /\ w.stage = "sent" /\ sv.phase = "dirty"

LEMMA CommitSends ==
  ASSUME NEW s, SaverOK(savers[s]), NEW sv, SaverOK(sv), NEW e, "handle" \in DOMAIN sv,
         sv.phase = savers[s].phase, sv.pending = savers[s].pending
  PROVE  CommitsAs(s, sv, e, Committed(s, sv, e))
<1>1. /\ {"phase", "pending", "queued", "armed", "asked", "unasked", "kept", "frozen", "handle"}
           \subseteq DOMAIN sv
      /\ sv.queued # None => sv.phase = "saving"
  BY DEF SaverOK
<1> SUFFICES ASSUME NEW tv, tv = [sv EXCEPT !.armed = FALSE], NEW c, c = Committed(s, sv, e)
             PROVE  CommitsAs(s, sv, e, c)
  OBVIOUS
<1>2. CASE ~Commits(s)
  BY <1>1, <1>2 DEF Committed, Committing, CommitsAs
<1>3. CASE Commits(s)
  <2>1. sv.phase = "dirty" /\ sv.queued = None
    BY <1>1, <1>3 DEF Commits
  <2>2. c = Sending(tv, e) /\ Committing(s, e) = Sends(s, savers[s], e)
    BY <1>3 DEF Committed, Committing
  <2>3. CASE Sendable(e)
    <3>1. c = [tv EXCEPT !.phase = "saving", !.armed = FALSE, !.asked = FALSE,
                         !.unasked = @ \/ ~tv.asked]
      BY <2>2, <2>3 DEF Sending
    <3>2. Committing(s, e) = {SaveOf(s, sv.pending, e)}
      BY <2>2, <2>3 DEF Sends
    <3> QED
      BY <1>1, <2>1, <3>1, <3>2 DEF SaveOf, CommitsAs
  <2>4. CASE ~Sendable(e)
    <3>1. c = Refused(tv) /\ Committing(s, e) = {}
      BY <2>2, <2>4 DEF Sending, Sends
    <3> QED
      BY <1>1, <2>1, <3>1 DEF Refused, CommitsAs
  <2> QED
    BY <2>3, <2>4
<1> QED
  BY <1>2, <1>3

\* A first editor that leaves, and a hook that keeps its revision or forgets it.
LEMMA SessionUnmounts ==
  ASSUME SaveInv, Mirrors, FirstSession, ed.mounts = 1, [DocumentNext]_documentVars,
         NEW e, HookOf(e), Unmount(e), e.base \in {None, ed.base},
         e.kind = "todo" => e.open \in {None, ed.open},
         UNCHANGED renames
  PROVE  FirstSession'
<1> SUFFICES ASSUME NEW d, d = SessionDoc, NEW sv, sv = savers[1], NEW s, s = ed.mounted,
                    NEW base, base = e.base
             PROVE  FirstSession'
  OBVIOUS
<1>1. /\ HookTyped /\ SaverOK(sv) /\ 1 \in DOMAIN savers /\ s \in {0, 1} /\ d \in Doc
  BY DocumentAssumption DEF SaveInv, EditorInv, HookTyped, SaversOK, FirstSession
<1>2. /\ HookFields \subseteq DOMAIN e /\ e.kind = ed.kind /\ e.mounted = s
      /\ ed' = [e EXCEPT !.mounted = 0, !.draft = None]
      /\ writes' = writes \cup Committing(s, e)
      /\ savers' = IF s = 0 THEN savers ELSE [savers EXCEPT ![s] = Leaving(s, e)]
  BY DEF HookOf, Unmount
<1>3. ed'.mounted = 0 /\ ed'.draft = None /\ ed'.base = base /\ ed'.open = e.open /\ ed'.kind = e.kind
  BY <1>2 DEF HookFields
<1>4. /\ SaverSafe(docs, sv, d, ed.base, ed.draft)
      /\ \A w \in writes : WriteSafe(docs, w, d, sv.pending)
      /\ e.kind = "todo" /\ e.open # None => e.open.doc = d
  BY <1>2 DEF FirstSession
<1>5. sv.phase # "clean" => Safe(docs', d, base, sv.pending)
  <2>1. sv.phase # "clean" => Safe(docs, d, base, sv.pending)
    BY <1>4 DEF SaverSafe, Safe
  <2> QED
    BY <1>1, <2>1, SafeStays
<1>6. \A w \in writes : WriteSafe(docs', w, d, sv.pending)
  BY <1>1, <1>4, SafeStays DEF WriteSafe
<1>7. CASE s = 0
  <2>1. savers' = savers /\ writes' = writes
    BY <1>2, <1>7 DEF Committing, Commits
  <2>2. SaverSafe(docs', sv, d, base, None)
    BY <1>4, <1>5 DEF SaverSafe
  <2> QED
    BY <1>1, <1>3, <1>4, <1>6, <2>1, <2>2 DEF FirstSession, SessionDoc
<1>8. CASE s = 1
  <2> SUFFICES ASSUME NEW lv, lv = [sv EXCEPT !.asked = TRUE, !.frozen = Conflict],
                      NEW c, c = Committed(1, lv, e)
               PROVE  FirstSession'
    OBVIOUS
  <2>1. /\ SaverOK(lv) /\ "handle" \in DOMAIN lv /\ lv.handle = sv.handle
        /\ lv.phase = sv.phase /\ lv.pending = sv.pending /\ lv.queued = sv.queued
    BY <1>1, <1>4 DEF SaverOK, SaverSafe
  <2>2. CommitsAs(1, sv, e, c)
    <3>1. CommitsAs(1, lv, e, c)
      BY <1>1, <2>1, CommitSends
    <3> QED
      BY <2>1, <3>1 DEF CommitsAs
  <2>3. savers'[1] = c /\ writes' = writes \cup Committing(1, e)
    BY <1>1, <1>2, <1>8 DEF Leaving
  <2>4. SaverSafe(docs', c, d, base, None)
    BY <1>4, <1>5, <2>2 DEF SaverSafe, CommitsAs
  <2>5. Target(1, e) # None => Target(1, e).doc = d
    BY <1>2, <1>4 DEF Target, Is, SaverSafe
  <2>6. \A w \in Committing(1, e) : WriteSafe(docs', w, d, sv.pending)
    BY <1>5, <2>2, <2>5 DEF WriteSafe, CommitsAs
  <2> QED
    BY <1>1, <1>3, <1>4, <1>6, <2>2, <2>3, <2>4, <2>6 DEF FirstSession, SessionDoc, SaverSafe, CommitsAs
<1> QED
  BY <1>1, <1>7, <1>8

\* The hook's revision stays, or its editor is closed and forgets it.
LEMMA SessionCloses ==
  ASSUME SaveInv, Mirrors, FirstSession, ed.mounts = 1, [DocumentNext]_documentVars,
         ed'.mounts = 1,
         Open \/ CollapseByOther \/ Close \/ Delete \/ Leave
  PROVE  FirstSession'
<1>1. HookFields \subseteq DOMAIN ed
  BY DEF SaveInv, EditorInv, HookTyped
<1>2. CASE Open
  <2>1. PICK x, e :
          /\ x \in Doc
          /\ e = Loading([ed EXCEPT !.open = HandleOf(x), !.initial = None, !.base = None])
          /\ Unmount(e) /\ UNCHANGED renames
    BY <1>2 DEF Open
  <2>2. HookOf(e) /\ e.base = None /\ e.kind = ed.kind /\ ed.kind # "todo"
    BY <1>1, <1>2, <2>1, HookMoves DEF Loading, HookFields, Open, Is
  <2> QED
    BY <2>1, <2>2, SessionUnmounts
<1>3. CASE Leave
  <2>1. PICK e : e = [ed EXCEPT !.left = TRUE] /\ Unmount(e) /\ UNCHANGED renames
    BY <1>3 DEF Leave
  <2>2. HookOf(e) /\ e.base = ed.base /\ e.open = ed.open
    BY <1>1, <2>1, HookMoves DEF HookFields
  <2> QED
    BY <2>1, <2>2, SessionUnmounts
<1>4. CASE CollapseByOther
  BY <1>4, HookMoves, SessionUnmounts DEF CollapseByOther
<1>5. CASE Close \/ Delete
  <2>1. PICK e : e = Closed(ed) /\ Unmount(e) /\ UNCHANGED renames
    BY <1>5 DEF Close, Delete
  <2>2. HookOf(e) /\ e.base \in {None, ed.base} /\ e.open = None
    BY <1>1, <2>1, HookMoves DEF HookFields, Closed
  <2> QED
    BY <2>1, <2>2, SessionUnmounts
<1> QED
  BY <1>2, <1>3, <1>4, <1>5

\* The first editor commits and stays, or is closed by its Done.
LEMMA SessionCommits ==
  ASSUME SaveInv, Mirrors, FirstSession, ed.mounts = 1, [DocumentNext]_documentVars,
         Flush \/ AutosaveTimer \/ Done
  PROVE  FirstSession'
<1> SUFFICES ASSUME NEW d, d = SessionDoc, NEW sv, sv = savers[1]
             PROVE  FirstSession'
  OBVIOUS
<1>1. HookTyped /\ HookFields \subseteq DOMAIN ed /\ SaverOK(sv) /\ 1 \in DOMAIN savers /\ d \in Doc
  BY DocumentAssumption DEF SaveInv, EditorInv, HookTyped, SaversOK, FirstSession
<1>2. ed.mounted = 1
  <2>1. CASE AutosaveTimer
    BY <1>1, <2>1 DEF AutosaveTimer, HookTyped
  <2>2. CASE Flush \/ Done
    <3>1. "flush" \in Offers \/ "done" \in Offers
      BY <2>2 DEF Flush, Done, Does
    <3> QED
      BY <1>1, <3>1, OffersNeedEditor DEF HookTyped
  <2> QED
    BY <2>1, <2>2
<1>3. /\ SaverSafe(docs, sv, d, ed.base, ed.draft)
      /\ \A w \in writes : WriteSafe(docs, w, d, sv.pending)
      /\ ed.open.doc = d
  BY <1>2 DEF FirstSession
<1>4. /\ SaverSafe(docs', sv, d, ed.base, ed.draft)
      /\ \A w \in writes : WriteSafe(docs', w, d, sv.pending)
  BY <1>1, <1>3, SafeStays DEF WriteSafe, SaverSafe
<1>5. PICK lv : /\ SaverOK(lv) /\ "handle" \in DOMAIN lv /\ lv.handle = sv.handle
                /\ lv.phase = sv.phase /\ lv.pending = sv.pending /\ lv.queued = sv.queued
                /\ savers' = [savers EXCEPT ![1] = Committed(1, lv, ed)]
                /\ writes' = writes \cup Committing(1, ed)
  <2>1. ASSUME NEW lv, \/ \E b \in BOOLEAN : lv = [sv EXCEPT !.asked = @ \/ b]
                       \/ \E b : lv = [sv EXCEPT !.asked = TRUE, !.frozen = b]
        PROVE  /\ SaverOK(lv) /\ "handle" \in DOMAIN lv /\ lv.handle = sv.handle
               /\ lv.phase = sv.phase /\ lv.pending = sv.pending /\ lv.queued = sv.queued
    BY <1>1, <1>3, <2>1 DEF SaverOK, SaverSafe
  <2>2. CASE Flush \/ AutosaveTimer
    <3>1. PICK b, lv :
            /\ b \in BOOLEAN /\ lv = [sv EXCEPT !.asked = @ \/ b]
            /\ savers' = [savers EXCEPT ![1] = Committed(1, lv, ed)]
            /\ writes' = writes \cup Committing(1, ed)
      BY <1>2, <2>2 DEF Flush, AutosaveTimer, Commit
    <3> QED
      BY <2>1, <3>1
  <2>3. CASE Done
    <3>1. PICK lv : /\ lv = [sv EXCEPT !.asked = TRUE, !.frozen = Conflict]
                    /\ savers' = [savers EXCEPT ![1] = Committed(1, lv, ed)]
                    /\ writes' = writes \cup Committing(1, ed)
      BY <1>2, <2>3 DEF Done, Leaving
    <3> QED
      BY <2>1, <3>1
  <2> QED
    BY <2>2, <2>3
<1> SUFFICES ASSUME NEW c, c = Committed(1, lv, ed) PROVE FirstSession'
  OBVIOUS
<1>6. CommitsAs(1, sv, ed, c)
  <2>1. CommitsAs(1, lv, ed, c)
    BY <1>1, <1>5, CommitSends
  <2> QED
    BY <1>5, <2>1 DEF CommitsAs
<1>7. savers'[1] = c
  BY <1>1, <1>5
<1>8. \A w \in writes' : WriteSafe(docs', w, d, sv.pending)
  <2>1. Target(1, ed).doc = d
    BY <1>3 DEF Target, SaverSafe
  <2> QED
    BY <1>4, <1>5, <1>6, <2>1 DEF WriteSafe, SaverSafe, CommitsAs
<1>9. CASE Flush \/ AutosaveTimer
  <2>1. ed' = ed /\ renames' = renames
    BY <1>9 DEF Flush, AutosaveTimer
  <2>2. SaverSafe(docs', c, d, ed.base, ed.draft)
    BY <1>4, <1>6 DEF SaverSafe, CommitsAs
  <2> QED
    BY <1>1, <1>2, <1>3, <1>6, <1>7, <1>8, <2>1, <2>2 DEF FirstSession, SessionDoc, SaverSafe, CommitsAs
<1>10. CASE Done
  <2>1. PICK e : e = Closed(ed) /\ ed' = [e EXCEPT !.mounted = 0, !.draft = None]
    BY <1>10 DEF Done
  <2>2. /\ ed'.mounted = 0 /\ ed'.draft = None /\ ed'.open = None /\ ed'.base \in {None, ed.base}
        /\ renames' = renames
    BY <1>1, <1>10, <2>1 DEF Closed, HookFields, Done
  <2>3. SaverSafe(docs', c, d, ed'.base, None)
    BY <1>4, <1>6, <2>2 DEF SaverSafe, Safe, CommitsAs
  <2> QED
    BY <1>1, <1>3, <1>6, <1>7, <1>8, <2>2, <2>3 DEF FirstSession, SessionDoc, SaverSafe, CommitsAs
<1> QED
  BY <1>9, <1>10

\* What is typed is added to what the last text held.
LEMMA SessionEdits ==
  ASSUME SaveInv, Mirrors, FirstSession, ed.mounts = 1, [DocumentNext]_documentVars, Edit
  PROVE  FirstSession'
<1> SUFFICES ASSUME NEW d, d = SessionDoc, NEW sv, sv = savers[1],
                    NEW body, body = ed.draft \cup {docSpent.edits + 1},
                    NEW pv, pv = Pushed(sv, body)
             PROVE  FirstSession'
  OBVIOUS
<1>1. HookTyped /\ HookFields \subseteq DOMAIN ed /\ SaverOK(sv) /\ 1 \in DOMAIN savers /\ d \in Doc
  BY DocumentAssumption DEF SaveInv, EditorInv, HookTyped, SaversOK, FirstSession
<1>2. ed.mounted = 1
  <2>1. "edit" \in Offers
    BY DEF Edit
  <2> QED
    BY <1>1, <2>1, OffersNeedEditor DEF HookTyped
<1>3. /\ ed' = [ed EXCEPT !.draft = body] /\ savers' = [savers EXCEPT ![1] = pv]
      /\ writes' = writes /\ renames' = renames
  BY <1>2 DEF Edit
<1>4. /\ savers'[1] = pv /\ ed'.mounted = 1 /\ ed'.draft = body /\ ed'.base = ed.base
      /\ ed'.open = ed.open /\ ed'.kind = ed.kind
  BY <1>1, <1>2, <1>3 DEF HookFields
<1>5. /\ SaverSafe(docs', sv, d, ed.base, ed.draft)
      /\ \A w \in writes : WriteSafe(docs', w, d, sv.pending)
  BY <1>1, SafeStays DEF WriteSafe, SaverSafe, FirstSession
<1>6. ShowsBody(sv, ed.draft) /\ ed.draft \in Body
  BY <1>1, <1>2 DEF SaveInv, EditorInv, DraftShown, HookTyped
<1>7. \A w \in writes : sv.phase = "saving"
  BY <1>1 DEF SaveInv, EditorInv, WritesOK, HookTyped
<1>8. ASSUME SaverSafe(docs', pv, d, ed.base, body),
             \A w \in writes' : WriteSafe(docs', w, d, pv.pending),
             pv.handle = sv.handle
      PROVE  FirstSession'
  <2>1. SessionDoc' = d
    BY <1>4, <1>8 DEF SessionDoc
  <2>2. ed.open.doc = d /\ \A h \in renames' : h.doc = d
    BY <1>2, <1>3 DEF FirstSession
  <2>3. /\ SessionDoc' \in Doc
        /\ ed'.mounted = 0 => ed'.draft = None
        /\ ed'.mounted # 0 => ed'.open.doc = SessionDoc'
        /\ ed'.kind = "todo" /\ ed'.open # None => ed'.open.doc = SessionDoc'
        /\ \A h \in renames' : h.doc = SessionDoc'
    BY <1>1, <1>4, <2>1, <2>2
  <2>4. /\ SaverSafe(docs', savers'[1], SessionDoc', ed'.base, ed'.draft)
        /\ \A w \in writes' : WriteSafe(docs', w, SessionDoc', savers'[1].pending)
    BY <1>4, <1>8, <2>1
  <2> QED
    BY <2>3, <2>4 DEF FirstSession
<1>9. CASE sv.phase = "saving"
  <2>1. /\ pv.handle = sv.handle /\ pv.pending = sv.pending /\ pv.queued = body
        /\ pv.phase = "saving" /\ "handle" \in DOMAIN pv
    BY <1>1, <1>5, <1>9 DEF Pushed, SaverOK, SaverSafe
  <2>2. sv.pending \subseteq body
    BY <1>5, <1>6, <1>9 DEF ShowsBody, SaverSafe
  <2>3. SaverSafe(docs', pv, d, ed.base, body)
    BY <1>5, <1>9, <2>1, <2>2 DEF SaverSafe
  <2>4. \A w \in writes' : WriteSafe(docs', w, d, pv.pending)
    BY <1>3, <1>5, <2>1
  <2> QED
    BY <1>8, <2>1, <2>3, <2>4
<1>10. CASE sv.phase # "saving"
  <2>1. /\ pv.handle = sv.handle /\ pv.pending = body /\ pv.queued = None
        /\ pv.phase = "dirty" /\ "handle" \in DOMAIN pv
    BY <1>1, <1>5, <1>10 DEF Pushed, SaverOK, SaverSafe
  <2>2. Safe(docs', d, ed.base, ed.draft)
    BY <1>1, <1>5, <1>6, <1>10, DocumentAssumption DEF ShowsBody, SaverSafe, SaverOK, Body
  <2>3. Safe(docs', d, ed.base, body)
    BY <2>2, SafeGrows
  <2>4. SaverSafe(docs', pv, d, ed.base, body)
    BY <1>5, <2>1, <2>3 DEF SaverSafe
  <2>5. writes' = {}
    BY <1>3, <1>7, <1>10
  <2>6. \A w \in writes' : WriteSafe(docs', w, d, pv.pending)
    BY <2>5
  <2> QED
    BY <1>8, <2>1, <2>4, <2>6
<1> QED
  BY <1>9, <1>10

\* The save of the first editor is answered, with the hook at revision base: what was
\* queued behind it is later.
LEMMA SessionOutcome ==
  ASSUME SaveInv, Mirrors, FirstSession, ed.mounts = 1, [DocumentNext]_documentVars,
         NEW w \in writes, NEW ok \in BOOLEAN, NEW e, Outcome(w, ok, e),
         NEW d, d = SessionDoc,
         Safe(docs', d, e.base, savers[1].pending),
         e.kind = ed.kind,
         e.kind = "todo" => e.open \in {None, ed.open}
  PROVE  /\ \A text : text # None => (ShowsBody(savers[1], text) => SaverSafe(docs', savers'[1], d, e.base, text))
         /\ SaverSafe(docs', savers'[1], d, e.base, None)
         /\ \A v \in writes' : WriteSafe(docs', v, d, savers'[1].pending)
<1> SUFFICES ASSUME NEW sv, sv = savers[1], NEW base, base = e.base,
                    NEW av, av = IF ok THEN Accepted(1, e) ELSE Refused(sv),
                    NEW sent, sent = IF ok THEN Drained(1, e) ELSE {}
             PROVE  /\ \A text : text # None => (ShowsBody(sv, text) => SaverSafe(docs', savers'[1], d, base, text))
                    /\ SaverSafe(docs', savers'[1], d, base, None)
                    /\ \A v \in writes' : WriteSafe(docs', v, d, savers'[1].pending)
  OBVIOUS
<1>1. HookTyped /\ SaverOK(sv) /\ 1 \in DOMAIN savers /\ d \in Doc
  BY DocumentAssumption DEF SaveInv, EditorInv, HookTyped, SaversOK, FirstSession
<1>2. w.saver = 1 /\ sv.phase = "saving" /\ \A v \in writes : v = w
  BY <1>1 DEF SaveInv, EditorInv, WritesOK, HookTyped
<1>3. savers'[1] = av /\ writes' = sent
  BY <1>1, <1>2 DEF Outcome
<1>4. /\ "handle" \in DOMAIN sv /\ sv.handle.doc = d
      /\ sv.queued # None => sv.pending \subseteq sv.queued
      /\ Safe(docs', d, base, sv.pending)
  BY DEF FirstSession, SaverSafe
<1>5. Target(1, e) # None => Target(1, e).doc = d
  BY <1>4 DEF Target, Is, FirstSession
<1>6. sv.queued # None => Safe(docs', d, base, sv.queued)
  BY <1>4, SafeGrows
<1>7. CASE ~ok
  <2>1. /\ "handle" \in DOMAIN av /\ av.handle = sv.handle /\ av.phase = "dirty" /\ av.queued = None
        /\ av.pending = IF sv.queued # None THEN sv.queued ELSE sv.pending
    BY <1>1, <1>4, <1>7 DEF Refused, SaverOK
  <2>2. \A text : SaverSafe(docs', av, d, base, text)
    BY <1>4, <1>6, <2>1 DEF SaverSafe
  <2> QED
    BY <1>3, <1>7, <2>2
<1>8. CASE ok /\ sv.queued = None
  <2>1. /\ "handle" \in DOMAIN av /\ av.handle = sv.handle /\ av.phase = "clean" /\ av.queued = None
    BY <1>1, <1>4, <1>8 DEF Accepted, SaverOK
  <2>2. sent = {}
    BY <1>8 DEF Drained
  <2>3. \A text : ShowsBody(sv, text) => text = sv.pending
    BY <1>2, <1>8 DEF ShowsBody
  <2> QED
    BY <1>3, <1>4, <2>1, <2>2, <2>3 DEF SaverSafe
<1>9. CASE ok /\ sv.queued # None
  <2> SUFFICES ASSUME NEW kept, kept = [sv EXCEPT !.kept = sv.pending],
                      NEW next, next = [kept EXCEPT !.pending = kept.queued, !.queued = None]
               PROVE  /\ \A text : SaverSafe(docs', av, d, base, text)
                      /\ \A v \in sent : WriteSafe(docs', v, d, av.pending)
    BY <1>3
  <2>1. /\ {"phase", "pending", "queued", "armed", "asked", "unasked", "handle"} \subseteq DOMAIN next
        /\ next.handle = sv.handle /\ next.pending = sv.queued /\ next.queued = None
    BY <1>1, <1>4 DEF SaverOK
  <2>2. CASE Paused(1)
    <3>1. av = [next EXCEPT !.phase = "dirty"] /\ sent = {}
      BY <1>1, <1>9, <2>2 DEF Accepted, Drained, SaverOK
    <3> QED
      BY <1>4, <1>6, <1>9, <2>1, <3>1 DEF SaverSafe
  <2>3. CASE ~Paused(1) /\ ~Sendable(e)
    <3>1. av = Refused(next) /\ sent = {}
      BY <1>1, <1>9, <2>3 DEF Accepted, Drained, SaverOK, Sending, Sends
    <3> QED
      BY <1>4, <1>6, <1>9, <2>1, <3>1 DEF SaverSafe, Refused
  <2>4. CASE ~Paused(1) /\ Sendable(e)
    <3>1. av = [next EXCEPT !.phase = "saving", !.armed = FALSE, !.asked = FALSE,
                            !.unasked = @ \/ ~next.asked]
      BY <1>1, <1>9, <2>4 DEF Accepted, SaverOK, Sending
    <3>2. [sv EXCEPT !.pending = sv.queued].pending = sv.queued
      BY <1>1 DEF SaverOK
    <3>3. sent = {SaveOf(1, sv.queued, e)}
      BY <1>9, <2>4, <3>2 DEF Drained, Sends
    <3>4. PICK v : v = SaveOf(1, sv.queued, e)
      OBVIOUS
    <3>5. WriteSafe(docs', v, d, sv.queued)
      BY <1>5, <1>6, <1>9, <3>4 DEF SaveOf, WriteSafe
    <3> QED
      BY <1>4, <1>6, <1>9, <2>1, <3>1, <3>3, <3>4, <3>5 DEF SaverSafe
  <2> QED
    BY <2>2, <2>3, <2>4
<1> QED
  BY <1>7, <1>8, <1>9

\* A save that is answered leaves the hook at the revision it made, or where it was.
LEMMA SessionAnswered ==
  ASSUME SaveInv, Mirrors, FirstSession, ed.mounts = 1, [DocumentNext]_documentVars,
         SaveAnswered \/ SaveRefused
  PROVE  FirstSession'
<1> SUFFICES ASSUME NEW d, d = SessionDoc, NEW sv, sv = savers[1]
             PROVE  FirstSession'
  OBVIOUS
<1>1. /\ HookTyped /\ HookFields \subseteq DOMAIN ed /\ SaverOK(sv) /\ 1 \in DOMAIN savers /\ d \in Doc
      /\ ed.mounted \in {0, 1}
  BY DocumentAssumption DEF SaveInv, EditorInv, HookTyped, SaversOK, FirstSession
<1>2. /\ SaverSafe(docs', sv, d, ed.base, ed.draft)
      /\ \A w \in writes : WriteSafe(docs', w, d, sv.pending) /\ sv.phase = "saving"
  <2>1. \A w \in writes : sv.phase = "saving"
    BY <1>1 DEF SaveInv, EditorInv, WritesOK, HookTyped
  <2> QED
    BY <1>1, <2>1, SafeStays DEF WriteSafe, SaverSafe, FirstSession
<1>3. ed.mounted # 0 => ShowsBody(sv, ed.draft) /\ ed.draft \in Body
  BY <1>1 DEF SaveInv, EditorInv, DraftShown, HookTyped
<1>4. /\ ed.mounted = 0 => ed.draft = None
      /\ ed.mounted # 0 => ed.open.doc = d
      /\ ed.kind = "todo" /\ ed.open # None => ed.open.doc = d
      /\ \A h \in renames : h.doc = d
  BY DEF FirstSession
<1>5. ASSUME NEW w \in writes, NEW ok \in BOOLEAN, NEW e, Outcome(w, ok, e),
             Safe(docs', d, e.base, sv.pending), e.kind = ed.kind, e.open = ed.open,
             ed'.base = e.base, UNCHANGED renames,
             ed'.mounted = ed.mounted /\ ed'.draft = ed.draft /\ ed'.open = ed.open
             /\ ed'.kind = ed.kind
      PROVE  FirstSession'
  <2>1. /\ SaverSafe(docs', savers'[1], d, e.base, ed.draft)
        /\ \A v \in writes' : WriteSafe(docs', v, d, savers'[1].pending)
    BY <1>1, <1>3, <1>4, <1>5, SessionOutcome
  <2> QED
    BY <1>1, <1>4, <1>5, <2>1 DEF FirstSession, SessionDoc, SaverSafe
<1>6. CASE SaveRefused
  <2>1. PICK w \in writes : /\ ed' = ConflictFound(w) \/ ed' = ed
                            /\ Outcome(w, FALSE, ed) /\ UNCHANGED renames
    BY <1>6 DEF SaveRefused
  <2>2. /\ ed'.mounted = ed.mounted /\ ed'.draft = ed.draft /\ ed'.open = ed.open
        /\ ed'.kind = ed.kind /\ ed'.base = ed.base
    BY <1>1, <2>1 DEF ConflictFound, HookFields
  <2>3. Safe(docs', d, ed.base, sv.pending)
    BY <1>2, <2>1 DEF SaverSafe
  <2> QED
    BY <1>5, <2>1, <2>2, <2>3
<1>7. CASE SaveAnswered
  <2>1. PICK w, e :
          /\ w \in writes /\ w.stage \in {"saved", "created"}
          /\ e = IF w.stage = "created" /\ Is({"todo"})
                 THEN [Closed(ed) EXCEPT !.mounted = 0, !.draft = None]
                 ELSE [ed EXCEPT !.base = w.rev]
          /\ ed' = e /\ Outcome(w, TRUE, e) /\ UNCHANGED renames
    BY <1>7 DEF SaveAnswered
  <2>2. CASE w.stage = "created" /\ Is({"todo"})
    <3>1. PICK cd : cd = Closed(ed) /\ e = [cd EXCEPT !.mounted = 0, !.draft = None]
      BY <2>1, <2>2
    <3>2. HookFields \subseteq DOMAIN cd /\ cd.base = None /\ cd.open = None /\ cd.kind = ed.kind
      BY <1>1, <2>2, <3>1 DEF Closed, HookFields, Is
    <3>3. /\ ed'.mounted = 0 /\ ed'.draft = None /\ e.base = None /\ e.open = None
          /\ e.kind = ed.kind
      BY <2>1, <3>1, <3>2 DEF HookFields
    <3>4. Safe(docs', d, e.base, sv.pending)
      BY <3>3 DEF Safe
    <3>5. /\ SaverSafe(docs', savers'[1], d, e.base, None)
          /\ \A v \in writes' : WriteSafe(docs', v, d, savers'[1].pending)
      BY <2>1, <3>3, <3>4, SessionOutcome
    <3> QED
      BY <1>1, <1>4, <2>1, <3>3, <3>5 DEF FirstSession, SessionDoc, SaverSafe
  <2>3. CASE ~(w.stage = "created" /\ Is({"todo"}))
    <3>1. e = [ed EXCEPT !.base = w.rev]
      BY <2>1, <2>3
    <3>2. /\ e.mounted = ed.mounted /\ e.draft = ed.draft /\ e.open = ed.open
          /\ e.kind = ed.kind /\ e.base = w.rev
      BY <1>1, <3>1 DEF HookFields
    <3>3. Safe(docs', d, w.rev, sv.pending)
      <4>1. CASE w.stage = "saved"
        BY <1>2, <2>1, <4>1 DEF WriteSafe
      <4>2. CASE w.stage = "created"
        <5>1. docs'[d].rev \in Nat \ {0} /\ (docs'[d].rev = 1 => docs'[d].body = {})
          BY <1>1, MirrorsStay DEF Mirrors
        <5> QED
          BY <1>2, <2>1, <4>2, <5>1 DEF WriteSafe, Safe
      <4> QED
        BY <2>1, <4>1, <4>2
    <3> QED
      BY <1>5, <2>1, <3>2, <3>3
  <2> QED
    BY <2>2, <2>3
<1> QED
  BY <1>6, <1>7


\* A step that leaves the hook's revision and the editor's text alone.
LEMMA SessionStays ==
  ASSUME SaveInv, Mirrors, FirstSession, [DocumentNext]_documentVars,
         NEW d, d = SessionDoc,
         ed'.mounted = ed.mounted, ed'.draft = ed.draft, ed'.kind = ed.kind, ed'.base = ed.base,
         ed'.open = ed.open \/ ed'.open.doc = d,
         NEW sv, sv = savers[1], NEW tv, savers'[1] = tv,
         "handle" \in DOMAIN tv, tv.handle.doc = d,
         tv.phase = sv.phase, tv.pending = sv.pending, tv.queued = sv.queued,
         \A h \in renames' : h.doc = d,
         \A w \in writes' : w \in writes \/ WriteSafe(docs', w, d, sv.pending)
  PROVE  FirstSession'
<1>1. SessionDoc' = d /\ d \in Doc
  BY DEF SessionDoc, FirstSession
<1>2. SaverSafe(docs', tv, d, ed.base, ed.draft)
  BY <1>1, SafeStays DEF SaverSafe, FirstSession
<1>3. \A w \in writes' : WriteSafe(docs', w, d, sv.pending)
  <2>1. \A w \in writes : WriteSafe(docs', w, d, sv.pending)
    BY <1>1, SafeStays DEF WriteSafe, FirstSession
  <2> QED
    BY <2>1
<1>4. /\ SessionDoc' \in Doc
      /\ ed'.mounted = 0 => ed'.draft = None
      /\ ed'.mounted # 0 => ed'.open.doc = SessionDoc'
      /\ ed'.kind = "todo" /\ ed'.open # None => ed'.open.doc = SessionDoc'
      /\ \A h \in renames' : h.doc = SessionDoc'
  BY <1>1 DEF FirstSession
<1>5. /\ SaverSafe(docs', savers'[1], SessionDoc', ed'.base, ed'.draft)
      /\ \A w \in writes' : WriteSafe(docs', w, SessionDoc', savers'[1].pending)
  BY <1>1, <1>2, <1>3
<1> QED
  BY <1>4, <1>5 DEF FirstSession

\* The editor of a renamed document goes on under its new name.
LEMMA SessionRenamed ==
  ASSUME SaveInv, Mirrors, FirstSession, ed.mounts = 1, [DocumentNext]_documentVars,
         ed'.mounts = 1, Rename \/ RenameAnswered
  PROVE  FirstSession'
<1> SUFFICES ASSUME NEW d, d = SessionDoc, NEW sv, sv = savers[1]
             PROVE  FirstSession'
  OBVIOUS
<1>1. /\ HookTyped /\ HookFields \subseteq DOMAIN ed /\ SaverOK(sv) /\ 1 \in DOMAIN savers
      /\ ed.mounted \in {0, 1}
      /\ "handle" \in DOMAIN sv /\ sv.handle.doc = d
      /\ ed.mounted # 0 => ed.open.doc = d
      /\ \A h \in renames : h.doc = d
  BY DocumentAssumption DEF SaveInv, EditorInv, HookTyped, SaversOK, FirstSession, SaverSafe
<1>2. CASE Rename
  <2>1. ed.open.doc = d
    <3>1. "rename" \in Offers
      BY <1>2 DEF Rename, Does
    <3> QED
      BY <1>1, <3>1, OffersNeedEditor
  <2>2. PICK name : renames' = renames \cup {[doc |-> ed.open.doc, name |-> name]}
    BY <1>2 DEF Rename
  <2>3. \A h \in renames' : h.doc = d
    BY <1>1, <2>1, <2>2
  <2>4. ed' = ed /\ savers' = savers /\ writes' = writes
    BY <1>2 DEF Rename
  <2> QED
    BY <1>1, <2>3, <2>4, SessionStays
<1>3. CASE RenameAnswered
  <2>1. PICK h, e :
          /\ h \in renames /\ renames' = renames \ {h} /\ e = [ed EXCEPT !.open = h]
          /\ \/ ed' = ed /\ savers' = savers /\ writes' = writes
             \/ ed' = e /\ savers' = savers /\ writes' = writes
             \/ Remount(e, ed.initial)
             \/ ed' = e /\ savers' = [savers EXCEPT ![ed.mounted].handle = h] /\ writes' = writes
                /\ ed.mounted # 0
    BY <1>3 DEF RenameAnswered, Idle
  <2>2. /\ e.mounted = ed.mounted /\ e.draft = ed.draft /\ e.kind = ed.kind /\ e.base = ed.base
        /\ e.open.doc = d /\ e.mounts = 1 /\ HookFields \subseteq DOMAIN e
    BY <1>1, <2>1 DEF HookFields
  <2>3. \A k \in renames' : k.doc = d
    BY <1>1, <2>1
  <2>4. CASE (ed' = ed \/ ed' = e) /\ savers' = savers /\ writes' = writes
    BY <1>1, <2>2, <2>3, <2>4, SessionStays
  <2>5. CASE Remount(e, ed.initial)
    <3>1. ed' = [e EXCEPT !.mounts = 2, !.mounted = 2, !.draft = ed.initial]
      BY <2>5 DEF Remount
    <3> QED
      BY <2>2, <3>1 DEF HookFields
  <2>6. CASE /\ ed' = e /\ savers' = [savers EXCEPT ![ed.mounted].handle = h]
             /\ writes' = writes /\ ed.mounted # 0
    <3>1. PICK tv : tv = [sv EXCEPT !.handle = h]
      OBVIOUS
    <3>2. /\ savers'[1] = tv /\ "handle" \in DOMAIN tv /\ tv.handle.doc = d
          /\ tv.phase = sv.phase /\ tv.pending = sv.pending /\ tv.queued = sv.queued
      BY <1>1, <2>1, <2>6, <3>1 DEF SaverOK
    <3> QED
      BY <2>2, <2>3, <2>6, <3>2, SessionStays
  <2> QED
    BY <2>1, <2>4, <2>5, <2>6
<1> QED
  BY <1>2, <1>3

\* A save that applies leaves in the document the text it sent, at the next revision.
LEMMA SessionServes ==
  ASSUME SaveInv, Mirrors, FirstSession, ed.mounts = 1, [DocumentNext]_documentVars,
         ServeWrite \/ RefuseWrite \/ ServeReread
  PROVE  FirstSession'
<1> SUFFICES ASSUME NEW d, d = SessionDoc, NEW sv, sv = savers[1]
             PROVE  FirstSession'
  OBVIOUS
<1>1. /\ StoredTyped /\ d \in Doc
      /\ "handle" \in DOMAIN sv /\ sv.handle.doc = d
      /\ \A h \in renames : h.doc = d
      /\ \A w \in writes : WriteSafe(docs, w, d, sv.pending)
                           /\ {"saver", "body", "stage", "rev"} \subseteq DOMAIN w
  BY DEF SaveInv, EditorInv, WritesOK, FirstSession, SaverSafe
<1>2. ed' = ed /\ savers' = savers /\ renames' = renames
  BY DEF ServeWrite, RefuseWrite, ServeReread
<1>3. ASSUME NEW w \in writes, NEW stage, NEW rev, Served(w, stage, rev),
             \/ stage \in {"refused", "reread"}
             \/ stage = "created" /\ rev = 1
             \/ stage = "saved" /\ rev # None /\ Safe(docs', d, rev, w.body)
      PROVE  FirstSession'
  <2>1. PICK v : v = [w EXCEPT !.stage = stage, !.rev = rev]
    OBVIOUS
  <2>2. /\ {"to", "guard"} \subseteq DOMAIN v /\ v.to = w.to /\ v.guard = w.guard
        /\ v.body = w.body /\ v.stage = stage /\ v.rev = rev
    BY <1>1, <2>1 DEF WriteSafe
  <2>3. WriteSafe(docs', v, d, sv.pending)
    BY <1>1, <1>3, <2>2 DEF WriteSafe
  <2>4. \A u \in writes' : u \in writes \/ WriteSafe(docs', u, d, sv.pending)
    BY <1>3, <2>1, <2>3 DEF Served
  <2> QED
    BY <1>1, <1>2, <2>4, SessionStays
<1>4. CASE RefuseWrite \/ ServeReread
  BY <1>3, <1>4 DEF RefuseWrite, ServeReread
<1>5. CASE ServeWrite
  <2>1. PICK w \in writes :
          /\ w.stage = "sent"
          /\ \/ /\ w.to # None /\ WriteApplies(w)
                /\ docs' = [docs EXCEPT ![w.to.doc].rev = @ + 1, ![w.to.doc].body = w.body]
                /\ Served(w, "saved", w.guard + 1)
             \/ Served(w, "created", 1)
             \/ Served(w, "refused", None)
    BY <1>5 DEF ServeWrite
  <2>2. CASE /\ w.to # None /\ WriteApplies(w)
             /\ docs' = [docs EXCEPT ![w.to.doc].rev = @ + 1, ![w.to.doc].body = w.body]
             /\ Served(w, "saved", w.guard + 1)
    <3>1. w.to.doc = d
      BY <1>1, <2>2 DEF WriteSafe
    <3>2. w.guard = docs[d].rev /\ docs[d].rev \in Nat
      BY <1>1, <2>2, <3>1 DEF WriteApplies, Mirrors
    <3>3. docs'[d].rev = docs[d].rev + 1 /\ docs'[d].body = w.body
      BY <1>1, <2>2, <3>1, OneWritten
    <3>4. w.guard + 1 # None /\ Safe(docs', d, w.guard + 1, w.body)
      BY <3>2, <3>3, DocumentAssumption DEF Safe
    <3> QED
      BY <1>3, <2>2, <3>4
  <2> QED
    BY <1>3, <2>1, <2>2
<1> QED
  BY <1>4, <1>5


\* One more editor is mounted, or none.
LEMMA MountsMove ==
  ASSUME SaveInv, [DocumentNext]_documentVars
  PROVE  \/ ed'.mounts = ed.mounts
         \/ /\ ed'.mounts = ed.mounts + 1
            /\ SeedEdit \/ Expand \/ ReadAnswered \/ RenameAnswered
<1>1. HookFields \subseteq DOMAIN ed
  BY DEF SaveInv, EditorInv, HookTyped
<1>2. ASSUME NEW e, HookFields \subseteq DOMAIN e, e.mounts = ed.mounts, Unmount(e)
      PROVE  ed'.mounts = ed.mounts
  BY <1>2 DEF Unmount, HookFields
<1>3. ASSUME NEW e, NEW body, HookFields \subseteq DOMAIN e, Remount(e, body)
      PROVE  ed'.mounts = ed.mounts + 1
  BY <1>3 DEF Remount, HookFields
<1>4. CASE Open
  <2>1. PICK x, e :
          /\ e = Loading([ed EXCEPT !.open = HandleOf(x), !.initial = None, !.base = None])
          /\ Unmount(e)
    BY <1>4 DEF Open
  <2>2. HookFields \subseteq DOMAIN e /\ e.mounts = ed.mounts
    BY <1>1, <2>1 DEF Loading, HookFields
  <2> QED
    BY <1>2, <2>1, <2>2
<1>5. HookFields \subseteq DOMAIN Closed(ed) /\ Closed(ed).mounts = ed.mounts
  BY <1>1 DEF Closed, HookFields
<1>6. CASE Close \/ Delete \/ CollapseByOther
  BY <1>1, <1>2, <1>5, <1>6 DEF Close, Delete, CollapseByOther
<1>7. CASE Done
  BY <1>5, <1>7 DEF Done, HookFields
<1>8. CASE Leave
  <2>1. PICK e : e = [ed EXCEPT !.left = TRUE] /\ Unmount(e)
    BY <1>8 DEF Leave
  <2>2. HookFields \subseteq DOMAIN e /\ e.mounts = ed.mounts
    BY <1>1, <2>1 DEF HookFields
  <2> QED
    BY <1>2, <2>1, <2>2
<1>9. CASE Reload \/ Edit
  BY <1>1, <1>9 DEF Reload, Edit, Loading, HookFields
<1>10. CASE SeedEdit
  <2>1. PICK e, body : HookFields \subseteq DOMAIN e /\ Remount(e, body)
    BY <1>1, <1>10 DEF SeedEdit, HookFields
  <2> QED
    BY <1>3, <1>10, <2>1
<1>11. CASE Expand
  BY <1>1, <1>3, <1>11 DEF Expand
<1>12. CASE ReadAnswered
  <2>1. \/ UNCHANGED ed
        \/ \E e : /\ HookFields \subseteq DOMAIN e /\ e.mounts = ed.mounts /\ Unmount(e)
        \/ \E e, body : /\ HookFields \subseteq DOMAIN e /\ Remount(e, body)
    BY <1>1, <1>12 DEF ReadAnswered, HookFields
  <2> QED
    BY <1>2, <1>3, <1>12, <2>1
<1>13. CASE SaveAnswered
  <2>1. PICK cd, e :
          /\ cd = Closed(ed)
          /\ e = [cd EXCEPT !.mounted = 0, !.draft = None] \/ \E rev : e = [ed EXCEPT !.base = rev]
          /\ ed' = e
    BY <1>13 DEF SaveAnswered
  <2> QED
    BY <1>1, <1>5, <2>1 DEF HookFields
<1>14. CASE SaveRefused
  BY <1>1, <1>14 DEF SaveRefused, ConflictFound, HookFields
<1>15. CASE RenameAnswered
  <2>1. PICK h, e :
          /\ e = [ed EXCEPT !.open = h]
          /\ ed' = ed \/ ed' = e \/ Remount(e, ed.initial)
    BY <1>15 DEF RenameAnswered
  <2>2. HookFields \subseteq DOMAIN e /\ e.mounts = ed.mounts
    BY <1>1, <2>1 DEF HookFields
  <2> QED
    BY <1>3, <1>15, <2>1, <2>2
<1>16. CASE \/ Rename \/ Flush \/ AutosaveTimer \/ ServeWrite \/ RefuseWrite \/ ServeReread
            \/ ServeRead \/ AgentWrite \/ RefreshBoard \/ UNCHANGED documentVars
  BY <1>16 DEF Rename, Flush, AutosaveTimer, ServeWrite, RefuseWrite, ServeReread,
     ServeRead, AgentWrite, RefreshBoard, documentVars
<1> QED
  BY <1>4, <1>6, <1>7, <1>8, <1>9, <1>10, <1>11, <1>12, <1>13, <1>14, <1>15, <1>16
     DEF DocumentNext

\* The first editor shows what a load or the board had read of its document.
LEMMA SessionStarts ==
  ASSUME SaveInv, Mirrors, NoSession, ed.mounts = 0, [DocumentNext]_documentVars, ed'.mounts = 1
  PROVE  FirstSession'
<1>1. /\ HookTyped /\ HookFields \subseteq DOMAIN ed /\ StoredTyped /\ HandlesOK
      /\ renames = {} /\ ed.mounted = 0 /\ writes = {}
  <2>1. HookTyped /\ HookFields \subseteq DOMAIN ed /\ StoredTyped /\ HandlesOK /\ renames = {}
    BY DEF SaveInv, EditorInv, HookTyped, NoSession
  <2>2. ed.mounted = 0
    BY <2>1 DEF HookTyped
  <2>3. \A w \in writes : w.saver \in 1..0
    BY DEF SaveInv, EditorInv, WritesOK
  <2> QED
    BY <2>1, <2>2, <2>3
<1>2. ASSUME NEW e, NEW body, Remount(e, body), HookFields \subseteq DOMAIN e,
             e.mounts = 0, e.mounted = 0, e.open.doc \in Doc,
             Safe(docs, e.open.doc, e.base, body), UNCHANGED <<docs, renames>>
      PROVE  FirstSession'
  <2>1. PICK fresh : fresh = [NoSaver EXCEPT !.handle = e.open, !.kept = body]
    OBVIOUS
  <2>2. /\ ed' = [e EXCEPT !.mounts = 1, !.mounted = 1, !.draft = body]
        /\ 1 \in 1..MaxMounts
        /\ savers' = [i \in 1..MaxMounts |->
                       IF i = 1 THEN fresh ELSE IF i = 0 THEN Leaving(0, e) ELSE savers[i]]
        /\ writes' = writes \cup Committing(0, e)
    BY <1>1, <1>2, <2>1, DocumentAssumption DEF Remount
  <2>3. /\ ed'.mounted = 1 /\ ed'.draft = body /\ ed'.open = e.open /\ ed'.base = e.base
        /\ savers'[1] = fresh
    BY <1>2, <2>2 DEF HookFields
  <2>4. writes' = {} /\ renames' = {}
    BY <1>1, <1>2, <2>2 DEF Committing, Commits
  <2>5. /\ "handle" \in DOMAIN fresh /\ fresh.handle = e.open /\ fresh.phase = "clean"
        /\ fresh.queued = None
    BY <2>1 DEF NoSaver
  <2>6. SaverSafe(docs', fresh, e.open.doc, e.base, body)
    BY <1>2, <2>5 DEF SaverSafe
  <2>7. SessionDoc' = e.open.doc
    BY <2>3, <2>5 DEF SessionDoc
  <2>8. SaverSafe(docs', savers'[1], SessionDoc', ed'.base, ed'.draft)
    BY <2>3, <2>6, <2>7
  <2> QED
    BY <1>2, <2>3, <2>4, <2>7, <2>8 DEF FirstSession
<1>3. CASE SeedEdit
  <2>1. PICK x, e :
          /\ x \in Doc
          /\ e = [ed EXCEPT !.open = HandleOf(x), !.base = live[x].rev, !.initial = live[x].body]
          /\ Remount(e, live[x].body) /\ UNCHANGED <<docs, renames>>
    BY <1>3 DEF SeedEdit
  <2>2. /\ HookFields \subseteq DOMAIN e /\ e.mounts = 0 /\ e.mounted = 0
        /\ e.open.doc = x /\ e.base = live[x].rev
    BY <1>1, <2>1 DEF HookFields, HandleOf
  <2>3. e.open.doc \in Doc /\ Safe(docs, e.open.doc, e.base, live[x].body)
    BY <2>1, <2>2 DEF Mirrors
  <2> QED
    BY <1>2, <2>1, <2>2, <2>3
<1>4. CASE ReadAnswered
  <2>1. PICK r \in reads :
          /\ r.answer # None /\ UNCHANGED <<docs, renames>>
          /\ \/ UNCHANGED ed
             \/ Unmount([ed EXCEPT !.initial = None])
             \/ /\ r.req = ed.load
                /\ Remount([ed EXCEPT !.base = r.answer.rev, !.initial = r.answer.body], r.answer.body)
    BY <1>4 DEF ReadAnswered
  <2>2. CASE UNCHANGED ed
    BY <2>2
  <2>3. CASE Unmount([ed EXCEPT !.initial = None])
    <3>1. PICK e : e = [ed EXCEPT !.initial = None] /\ Unmount(e)
      BY <2>3
    <3>2. e.mounts = 0 /\ HookFields \subseteq DOMAIN e
      BY <1>1, <3>1 DEF HookFields
    <3> QED
      BY <3>1, <3>2 DEF Unmount, HookFields
  <2>4. CASE /\ r.req = ed.load
             /\ Remount([ed EXCEPT !.base = r.answer.rev, !.initial = r.answer.body], r.answer.body)
    <3>1. PICK e, body : /\ e = [ed EXCEPT !.base = r.answer.rev, !.initial = r.answer.body]
                         /\ body = r.answer.body /\ Remount(e, body)
      BY <2>4
    <3>2. /\ HookFields \subseteq DOMAIN e /\ e.mounts = 0 /\ e.mounted = 0
          /\ e.open = ed.open /\ e.base = r.answer.rev
      BY <1>1, <3>1 DEF HookFields
    <3>3. r.to = ed.open /\ r.to.doc \in Doc
      BY <1>1, <2>4 DEF NoSession, HandlesOK, HandleOK
    <3>4. e.open.doc \in Doc /\ Safe(docs, e.open.doc, e.base, body)
      BY <2>1, <3>1, <3>2, <3>3 DEF Mirrors
    <3> QED
      BY <1>2, <2>1, <3>1, <3>2, <3>4
  <2> QED
    BY <2>1, <2>2, <2>3, <2>4
<1>5. CASE RenameAnswered
  BY <1>1, <1>5 DEF RenameAnswered
<1>6. CASE Expand
  <2>1. ed.kind = "todo" /\ ed.open # None
    BY <1>1, <1>6, OffersNeedEditor DEF Expand
  <2> QED
    BY <2>1 DEF NoSession
<1> QED
  BY <1>3, <1>4, <1>5, <1>6, MountsMove


\* Until the first editor is mounted nothing is renamed, and each load is of what is open.
LEMMA NoSessionYet ==
  ASSUME SaveInv, NoSession, ed.mounts = 0, [DocumentNext]_documentVars, ed'.mounts = 0
  PROVE  NoSession'
<1>1. /\ HookTyped /\ HookFields \subseteq DOMAIN ed /\ StoredTyped /\ HandlesOK
      /\ renames = {} /\ ed.mounted = 0
      /\ \A r \in reads : r.req = ed.load => r.to = ed.open
  <2>1. HookTyped /\ HookFields \subseteq DOMAIN ed /\ StoredTyped /\ HandlesOK
    BY DEF SaveInv, EditorInv, HookTyped
  <2>2. ed.mounted = 0
    BY <2>1 DEF HookTyped
  <2> QED
    BY <2>1, <2>2 DEF NoSession
<1>2. ~Rename /\ ~Reload
  <2>1. ~("rename" \in Offers) /\ ~("reload" \in Offers)
    BY <1>1, OffersNeedEditor
  <2> QED
    BY <2>1 DEF Rename, Reload, Does
<1>3. renames' = {}
  <2>1. renames' \subseteq renames \/ Rename
    BY DEF DocumentNext, documentVars, Open, Reload, SeedEdit, CollapseByOther, Expand,
       Close, Done, Delete, Leave, Edit, Flush, AutosaveTimer, ServeWrite, RefuseWrite,
       ServeReread, ServeRead, AgentWrite, RefreshBoard, ReadAnswered, SaveAnswered,
       SaveRefused, RenameAnswered
  <2> QED
    BY <1>1, <1>2, <2>1
<1>4. CASE Open
  <2>1. PICK x, e :
          /\ e = Loading([ed EXCEPT !.open = HandleOf(x), !.initial = None, !.base = None])
          /\ Unmount(e) /\ Load(e)
    BY <1>4 DEF Open
  <2>2. /\ HookFields \subseteq DOMAIN e /\ e.load = ed.load + 1 /\ e.kind = ed.kind
        /\ ed.kind # "todo"
    BY <1>1, <1>4, <2>1 DEF Loading, HookFields, Open, Is
  <2>3. ed'.load = ed.load + 1 /\ ed'.open = e.open /\ ed'.kind # "todo"
    BY <2>1, <2>2 DEF Unmount, HookFields
  <2>4. PICK q : q = [req |-> e.load, to |-> e.open, answer |-> None] /\ reads' = reads \cup {q}
    BY <2>1 DEF Load
  <2>5. \A r \in reads : r.req # ed'.load
    BY <1>1, <2>3 DEF HandlesOK
  <2>6. q.to = e.open
    BY <2>4
  <2>7. \A r \in reads' : r.req = ed'.load => r.to = ed'.open
    BY <2>3, <2>4, <2>5, <2>6
  <2> QED
    BY <1>3, <2>3, <2>7 DEF NoSession
<1>5. CASE ~Open
  <2>1. (ed'.load = ed.load /\ ed'.open = ed.open) \/ ed'.load = ed.load + 1 \/ ed.kind = "todo"
    BY <1>1, HandleMoves
  <2>2. \A r \in reads' : \E q \in reads : r.req = q.req /\ r.to = q.to
    <3>1. CASE reads' \subseteq reads
      BY <3>1
    <3>2. CASE ServeRead
      <4>1. PICK r, answer :
              /\ r \in reads /\ reads' = (reads \ {r}) \cup {[r EXCEPT !.answer = answer]}
        BY <3>2 DEF ServeRead
      <4>2. PICK q : q = [r EXCEPT !.answer = answer]
        OBVIOUS
      <4>3. q.req = r.req /\ q.to = r.to
        BY <1>1, <4>1, <4>2 DEF HandlesOK
      <4> QED
        BY <4>1, <4>2, <4>3
    <3>3. reads' \subseteq reads \/ Open \/ Reload \/ ServeRead
      BY DEF DocumentNext, documentVars, SeedEdit, CollapseByOther, Expand,
         Close, Done, Delete, Rename, Leave, Edit, Flush, AutosaveTimer, ServeWrite, RefuseWrite,
         ServeReread, AgentWrite, RefreshBoard, ReadAnswered, SaveAnswered,
         SaveRefused, RenameAnswered
    <3> QED
      BY <1>2, <1>5, <3>1, <3>2, <3>3
  <2>3. ed.kind # "todo" => \A r \in reads' : r.req = ed'.load => r.to = ed'.open
    BY <1>1, <2>1, <2>2 DEF HandlesOK
  <2>4. ed.kind = "todo" => reads' = {}
    BY <1>1, <2>2 DEF StoredTyped
  <2>5. ed'.kind = ed.kind
    BY KindStays DEF SaveInv, EditorInv
  <2>6. ed.kind = "todo" => ed'.open = None
    <3>1. ASSUME ed.kind = "todo", NEW e, HookFields \subseteq DOMAIN e, e.open = None,
                 \/ Unmount(e) \/ ed' = e \/ ed' = [e EXCEPT !.mounted = 0, !.draft = None]
          PROVE  ed'.open = None
      BY <3>1 DEF Unmount, HookFields
    <3>2. /\ HookFields \subseteq DOMAIN Closed(ed) /\ Closed(ed).open = None
          /\ ed.kind = "todo" => ed.open = None
      BY <1>1 DEF Closed, HookFields, NoSession
    <3>3. CASE SeedEdit \/ Expand \/ ReadAnswered \/ RenameAnswered
      <4>1. ~SeedEdit
        <5> SUFFICES ASSUME SeedEdit PROVE FALSE
          OBVIOUS
        <5>1. PICK e, body : HookFields \subseteq DOMAIN e /\ Remount(e, body)
          BY <1>1 DEF SeedEdit, HookFields
        <5>2. ed'.mounts = 1
          BY <1>1, <5>1 DEF Remount, HookFields
        <5> QED
          BY <5>2
      <4>2. ~Expand
        BY <3>2, <1>1, OffersNeedEditor DEF Expand
      <4>3. ~RenameAnswered
        BY <1>1 DEF RenameAnswered
      <4>4. ed.kind = "todo" => ~ReadAnswered
        BY <1>1 DEF ReadAnswered, StoredTyped
      <4> QED
        BY <3>3, <4>1, <4>2, <4>3, <4>4
    <3>4. CASE CollapseByOther \/ Close \/ Done \/ Delete
      BY <1>1, <3>1, <3>2, <3>4 DEF CollapseByOther, Close, Done, Delete
    <3>5. CASE Leave
      <4>1. PICK e : e = [ed EXCEPT !.left = TRUE] /\ Unmount(e)
        BY <3>5 DEF Leave
      <4>2. HookFields \subseteq DOMAIN e /\ e.open = ed.open
        BY <1>1, <4>1 DEF HookFields
      <4> QED
        BY <3>1, <3>2, <4>1, <4>2
    <3>6. CASE SaveAnswered \/ SaveRefused
      <4>1. writes = {}
        BY DEF SaveInv, EditorInv, WritesOK
      <4> QED
        BY <3>6, <4>1 DEF SaveAnswered, SaveRefused
    <3>7. CASE Edit
      BY <1>1, <3>2, <3>7 DEF Edit, HookFields
    <3>8. CASE \/ Flush \/ AutosaveTimer \/ ServeWrite \/ RefuseWrite \/ ServeReread
               \/ ServeRead \/ AgentWrite \/ RefreshBoard \/ UNCHANGED documentVars
      BY <3>2, <3>8 DEF Flush, AutosaveTimer, ServeWrite, RefuseWrite, ServeReread,
         ServeRead, AgentWrite, RefreshBoard, documentVars
    <3> QED
      BY <1>2, <1>5, <3>3, <3>4, <3>5, <3>6, <3>7, <3>8 DEF DocumentNext
  <2> QED
    BY <1>3, <2>3, <2>4, <2>5, <2>6 DEF NoSession
<1> QED
  BY <1>4, <1>5

\* The first editing session goes on until another editor is mounted.
LEMMA SessionGoesOn ==
  ASSUME SaveInv, Mirrors, FirstSession, ed.mounts = 1, [DocumentNext]_documentVars, ed'.mounts = 1
  PROVE  FirstSession'
<1> SUFFICES ASSUME NEW d, d = SessionDoc, NEW sv, sv = savers[1]
             PROVE  FirstSession'
  OBVIOUS
<1>1. /\ HookFields \subseteq DOMAIN ed /\ StoredTyped
      /\ "handle" \in DOMAIN sv /\ sv.handle.doc = d /\ \A h \in renames : h.doc = d
  BY DEF SaveInv, EditorInv, HookTyped, FirstSession, SaverSafe
<1>2. CASE Reload
  <2>1. PICK e : e = Loading(ed) /\ ed' = e
    BY <1>2 DEF Reload
  <2>2. /\ e.mounted = ed.mounted /\ e.draft = ed.draft /\ e.kind = ed.kind
        /\ e.base = ed.base /\ e.open = ed.open
    BY <1>1, <2>1 DEF Loading, HookFields
  <2> QED
    BY <1>1, <1>2, <2>1, <2>2, SessionStays DEF Reload
<1>3. CASE ServeRead \/ AgentWrite \/ RefreshBoard \/ UNCHANGED documentVars
  <2>1. ed' = ed /\ savers' = savers /\ writes' = writes /\ renames' = renames
    BY <1>3 DEF ServeRead, AgentWrite, RefreshBoard, documentVars
  <2> QED
    BY <1>1, <2>1, SessionStays
<1>4. CASE ReadAnswered
  <2>1. PICK r \in reads :
          /\ UNCHANGED renames
          /\ \/ UNCHANGED <<ed, savers, writes>>
             \/ Unmount([ed EXCEPT !.initial = None])
             \/ Remount([ed EXCEPT !.base = r.answer.rev, !.initial = r.answer.body], r.answer.body)
    BY <1>4 DEF ReadAnswered
  <2>2. CASE UNCHANGED <<ed, savers, writes>>
    BY <1>1, <2>1, <2>2, SessionStays
  <2>3. CASE Unmount([ed EXCEPT !.initial = None])
    <3>1. PICK e : e = [ed EXCEPT !.initial = None] /\ Unmount(e)
      BY <2>3
    <3>2. ed.kind # "todo"
      BY <1>1, <2>1 DEF StoredTyped
    <3>3. HookOf(e) /\ e.base = ed.base /\ e.open = ed.open /\ e.kind = ed.kind
      BY <1>1, <3>1, <3>2 DEF HookOf, HookFields
    <3> QED
      BY <2>1, <3>1, <3>3, SessionUnmounts
  <2>4. CASE Remount([ed EXCEPT !.base = r.answer.rev, !.initial = r.answer.body], r.answer.body)
    <3>1. PICK e, body : HookFields \subseteq DOMAIN e /\ e.mounts = 1 /\ Remount(e, body)
      BY <1>1, <2>4 DEF HookFields
    <3> QED
      BY <3>1 DEF Remount, HookFields
  <2> QED
    BY <2>1, <2>2, <2>3, <2>4
<1>5. CASE SeedEdit \/ Expand
  <2>1. PICK e, body : HookFields \subseteq DOMAIN e /\ e.mounts = 1 /\ Remount(e, body)
    BY <1>1, <1>5 DEF SeedEdit, Expand, HookFields
  <2> QED
    BY <2>1 DEF Remount, HookFields
<1> QED
  BY <1>2, <1>3, <1>4, <1>5, SessionCloses, SessionCommits, SessionEdits, SessionAnswered,
     SessionRenamed, SessionServes DEF DocumentNext

LEMMA SessionStep ==
  SaveInv /\ SessionInv /\ [DocumentNext]_documentVars => SessionInv'
<1> SUFFICES ASSUME SaveInv, SessionInv, [DocumentNext]_documentVars PROVE SessionInv'
  OBVIOUS
<1>1. ed.mounts \in Nat
  BY DEF SaveInv, EditorInv, HookTyped
<1>2. Mirrors'
  BY MirrorsStay DEF SessionInv
<1>3. ed'.mounts = 0 => NoSession'
  BY <1>1, MountsMove, NoSessionYet DEF SessionInv
<1>4. ed'.mounts = 1 => FirstSession'
  BY <1>1, MountsMove, SessionStarts, SessionGoesOn DEF SessionInv
<1> QED
  BY <1>2, <1>3, <1>4 DEF SessionInv

LEMMA SessionInit == DocumentInit => SessionInv
<1> SUFFICES ASSUME DocumentInit PROVE SessionInv
  OBVIOUS
<1>1. /\ docs = [d \in Doc |-> [rev |-> 1, body |-> {}, name |-> 0]]
      /\ live = [d \in Doc |-> [rev |-> 1, body |-> {}]]
      /\ reads = {} /\ renames = {} /\ ed.mounts = 0 /\ ed.open = None
  BY DEF DocumentInit
<1>2. \A d \in Doc : Safe(docs, d, live[d].rev, live[d].body)
  BY <1>1 DEF Safe
<1>3. Mirrors
  <2>1. \A d \in Doc : /\ docs[d].rev = 1 /\ docs[d].body = {} /\ live[d].rev = 1
                       /\ {"rev", "body"} \subseteq DOMAIN live[d]
    BY <1>1
  <2>2. 1 # None /\ 1 \in Nat \ {0}
    BY DocumentAssumption
  <2>3. \A d \in Doc : /\ docs[d].rev \in Nat \ {0}
                       /\ docs[d].rev = 1 => docs[d].body = {}
                       /\ {"rev", "body"} \subseteq DOMAIN live[d]
                       /\ live[d].rev # None /\ Safe(docs, d, live[d].rev, live[d].body)
    BY <1>2, <2>1, <2>2
  <2> QED
    BY <1>1, <2>3 DEF Mirrors
<1>4. NoSession
  BY <1>1 DEF NoSession
<1> QED
  BY <1>1, <1>3, <1>4 DEF SessionInv

\* No edit is lost in a session: of the steps that change a text, an agent adds to it, and
\* a save that applies names the revision there is, all of which its text has.
LEMMA SessionKeeps ==
  ASSUME SaveInv, SessionInv, [DocumentNext]_documentVars, ed.mounts <= 1, NEW d \in Doc
  PROVE  docs[d].body \subseteq docs'[d].body
<1>1. StoredTyped /\ ed.mounts \in {0, 1}
  BY DocumentAssumption DEF SaveInv, EditorInv, HookTyped
<1>2. CASE ServeWrite
  <2>1. PICK w \in writes :
          /\ w.stage = "sent"
          /\ \/ docs' = docs
             \/ /\ w.to # None /\ WriteApplies(w)
                /\ docs' = [docs EXCEPT ![w.to.doc].rev = @ + 1, ![w.to.doc].body = w.body]
    BY <1>2 DEF ServeWrite
  <2>2. CASE docs' = docs
    BY <2>2
  <2>3. CASE /\ w.to # None /\ WriteApplies(w)
             /\ docs' = [docs EXCEPT ![w.to.doc].rev = @ + 1, ![w.to.doc].body = w.body]
    <3>1. ed.mounts = 1
      BY <1>1 DEF SaveInv, EditorInv, WritesOK
    <3>2. WriteSafe(docs, w, SessionDoc, savers[1].pending) /\ SessionDoc \in Doc
      BY <3>1 DEF SessionInv, FirstSession
    <3>3. w.to.doc = SessionDoc /\ Safe(docs, SessionDoc, w.guard, w.body)
      BY <2>1, <2>3, <3>2 DEF WriteSafe
    <3>4. docs[w.to.doc].body \subseteq w.body
      BY <2>3, <3>3 DEF WriteApplies, Safe
    <3> QED
      BY <1>1, <2>3, <3>2, <3>3, <3>4, OneWritten
  <2> QED
    BY <2>1, <2>2, <2>3
<1>3. CASE AgentWrite
  <2>1. PICK x \in Doc :
          docs' = [docs EXCEPT ![x].rev = @ + 1, ![x].body = @ \cup {docSpent.edits + 1}]
    BY <1>3 DEF AgentWrite
  <2>2. docs' = [docs EXCEPT ![x].rev = @ + 1, ![x].body = docs[x].body \cup {docSpent.edits + 1}]
    BY <1>1, <2>1 DEF StoredTyped
  <2>3. /\ d # x => docs'[d] = docs[d]
        /\ docs'[x].body = docs[x].body \cup {docSpent.edits + 1}
    BY <1>1, <2>2, OneWritten
  <2> QED
    BY <2>3
<1>4. CASE Delete \/ Rename
  <2>1. \E x, name : docs' = [docs EXCEPT ![x].name = name]
    BY <1>4 DEF Delete, Rename
  <2> QED
    BY <1>1, <2>1 DEF StoredTyped
<1>5. docs' = docs \/ Delete \/ Rename \/ ServeWrite \/ AgentWrite
  BY DEF DocumentNext, documentVars, Open, Reload, SeedEdit, CollapseByOther, Expand,
     Close, Done, Leave, Edit, Flush, AutosaveTimer, RefuseWrite,
     ServeReread, ServeRead, RefreshBoard, ReadAnswered, SaveAnswered,
     SaveRefused, RenameAnswered
<1> QED
  BY <1>2, <1>3, <1>4, <1>5

\* No edit the core holds, of the user or of an agent, is dropped by a write until a
\* second editor is mounted: useAutosave.ts' single write in flight, its queue and its
\* pause, and the revision guard of the core, for any documents, edits, renames and agents.
THEOREM SessionOverwritesNothingHolds == DocumentSpec => SessionOverwritesNothing
<1>1. SaveInv /\ SessionInv /\ [DocumentNext]_documentVars
      => [ed.mounts <= 1 => \A d \in Doc : docs[d].body \subseteq docs'[d].body]_documentVars
  BY SessionKeeps
<1> QED
  BY <1>1, SaveInit, SaveStep, SessionInit, SessionStep, PTL DEF DocumentSpec, SessionOverwritesNothing

=============================================================================
