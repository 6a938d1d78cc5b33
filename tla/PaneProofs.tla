------------------------------- MODULE PaneProofs -------------------------------
(***************************************************************************)
(* What holds of the panes that change a repository or a project, for any   *)
(* projects, calls, switches and faults, and of the one that shows a        *)
(* terminal, whatever is lost, hidden or attached anew on the way.          *)
(***************************************************************************)
EXTENDS GitRail, ProjectPage, Terminal, SequenceProofs

-------------------------------------------------------------------------------
(* The git rail.                                                             *)

RailSpec == RailInit /\ [][RailNext]_railVars

RailFields == {"mount", "status", "trusted", "running", "stopped", "typed", "amend"}
PaneFields == {"mount", "trusted", "running", "editing", "typed"}
RepoFields == {"trusted", "staged", "merging", "gate", "recorded"}
CallFields == {"n", "verb", "project", "mount", "words", "amend", "stage", "stopAsked", "halted"}

\* What a confirmation asks for.
Asking == {"discard", "abortMerge", "deleteBranch", "discardHunk", "mergePullRequest"}

RailTyped ==
  /\ "project" \in DOMAIN inView
  /\ RailFields \subseteq DOMAIN rail /\ rail.mount \in Nat
  /\ PaneFields \subseteq DOMAIN pane /\ pane.mount \in Nat
  /\ DOMAIN repos = RailProject
  /\ \A p \in RailProject : RepoFields \subseteq DOMAIN repos[p]
  /\ {"raised", "unheard", "departed"} \subseteq DOMAIN alerts
  /\ question # None => question.verb \in Asking

\* A text on screen was written for the project in view.
TextsHome ==
  /\ rail.typed # None => rail.typed \subseteq {inView.project}
  /\ pane.typed # None => pane.typed \subseteq {inView.project}

\* What a call says was written for its project; if the surface that sent it is still
\* mounted, that is the project in view; and an exchange under way knows of its stop.
CallHome(c) ==
  /\ CallFields \subseteq DOMAIN c
  /\ c.words \subseteq {c.project}
  /\ IF c.verb \in PaneVerbs
     THEN c.mount \in 0..pane.mount /\ (c.mount = pane.mount => c.project = inView.project)
     ELSE /\ c.mount \in 0..rail.mount
          /\ c.mount = rail.mount => /\ c.project = inView.project
                                     /\ (rail.stopped /\ c.verb \in Exchanges => c.stopAsked)

RailInv ==
  /\ RailTyped
  /\ TextsHome
  /\ \A c \in calls : CallHome(c)
  /\ RailHolds

\* Only the surfaces on screen tell which calls are theirs.
LEMMA CallsKeepHome ==
  ASSUME NEW c, CallHome(c), rail'.mount = rail.mount, pane'.mount = pane.mount,
         inView'.project = inView.project, rail'.stopped => rail.stopped
  PROVE  CallHome(c)'
BY DEF CallHome

\* The core's part of a call's life.
LEMMA ServedKeepsHome ==
  ASSUME NEW c, CallHome(c), NEW stage
  PROVE  CallHome([c EXCEPT !.stage = stage]) /\ CallHome([c EXCEPT !.halted = TRUE])
<1>1. ASSUME NEW x, CallFields \subseteq DOMAIN x, x.verb = c.verb, x.project = c.project,
             x.mount = c.mount, x.words = c.words, x.stopAsked = c.stopAsked
      PROVE  CallHome(x)
  BY <1>1 DEF CallHome
<1>2. CallFields \subseteq DOMAIN c
  BY DEF CallHome
<1>3. PICK x, y : x = [c EXCEPT !.stage = stage] /\ y = [c EXCEPT !.halted = TRUE]
  OBVIOUS
<1>4. /\ CallFields \subseteq DOMAIN x /\ x.verb = c.verb /\ x.project = c.project
      /\ x.mount = c.mount /\ x.words = c.words /\ x.stopAsked = c.stopAsked
  BY <1>2, <1>3 DEF CallFields
<1>5. /\ CallFields \subseteq DOMAIN y /\ y.verb = c.verb /\ y.project = c.project
      /\ y.mount = c.mount /\ y.words = c.words /\ y.stopAsked = c.stopAsked
  BY <1>2, <1>3 DEF CallFields
<1> QED
  BY <1>1, <1>3, <1>4, <1>5

\* What a rail publishes is about the project in view.
LEMMA PublishedInView ==
  ASSUME NEW r
  PROVE  Published(r) # None => Published(r).project = inView.project
BY DEF Published

\* The rail changes what it shows and publishes it, or leaves the chrome alone.
LEMMA RailKeeps ==
  ASSUME RailInv, NEW r, RailFields \subseteq DOMAIN r, r.mount = rail.mount,
         r.typed # None => r.typed \subseteq {inView.project},
         r.stopped => rail.stopped,
         Publish(r) \/ (rail' = r /\ UNCHANGED cluster),
         UNCHANGED <<inView, pane, question, calls, repos, alerts>>
  PROVE  RailInv'
<1>1. rail' = r /\ ChromeIsInView'
  BY PublishedInView DEF RailInv, RailHolds, ChromeIsInView, Publish
<1>2. RailTyped' /\ TextsHome'
  BY <1>1 DEF RailInv, RailTyped, TextsHome
<1>3. \A c \in calls' : CallHome(c)'
  BY <1>1, CallsKeepHome DEF RailInv
<1> QED
  BY <1>1, <1>2, <1>3 DEF RailInv, RailHolds, WordsStayHome, FailureIsSaid

\* A call is sent: with the words on screen, for the project in view.
LEMMA RunKeeps ==
  ASSUME RailInv, NEW verb, Run(verb), verb = "commit" => rail.typed # None,
         question' = question \/ question' = None, UNCHANGED <<inView, repos, alerts>>
  PROVE  RailInv'
<1>1. RailTyped /\ TextsHome /\ RailHolds
  BY DEF RailInv
<1>2. PICK c :
        /\ c = [n |-> railSpent.calls, verb |-> verb, project |-> inView.project,
                mount |-> IF verb \in PaneVerbs THEN pane.mount ELSE rail.mount,
                words |-> WordsOf(verb), amend |-> rail.amend,
                stage |-> "sent", stopAsked |-> FALSE, halted |-> FALSE]
        /\ calls' = calls \cup {c}
        /\ \/ /\ pane' = [pane EXCEPT !.running = @ \cup {KeyOf(verb)}]
              /\ UNCHANGED <<rail, cluster>> /\ verb \in PaneVerbs
           \/ Publish(RailRunning(verb)) /\ UNCHANGED pane /\ verb \notin PaneVerbs
  BY DEF Run
<1>3. /\ CallFields \subseteq DOMAIN c /\ c.verb = verb /\ c.project = inView.project
      /\ c.mount = IF verb \in PaneVerbs THEN pane.mount ELSE rail.mount
      /\ c.words = WordsOf(verb)
  BY <1>2 DEF CallFields
<1>4. WordsOf(verb) \subseteq {inView.project}
  BY <1>1 DEF WordsOf, TextsHome
<1>5. /\ RailFields \subseteq DOMAIN rail' /\ rail'.mount = rail.mount /\ rail'.typed = rail.typed
      /\ rail'.stopped => rail.stopped /\ (verb \in PaneVerbs \/ verb \notin Exchanges)
      /\ PaneFields \subseteq DOMAIN pane' /\ pane'.mount = pane.mount /\ pane'.typed = pane.typed
  <2>1. CASE verb \in PaneVerbs
    BY <1>1, <1>2, <2>1 DEF RailTyped, RailFields, PaneFields
  <2>2. CASE verb \notin PaneVerbs
    <3>1. rail' = [rail EXCEPT !.running = rail.running \cup {KeyOf(verb)},
                               !.stopped = rail.stopped /\ verb \notin Exchanges]
      BY <1>2, <2>2 DEF Publish, RailRunning
    <3> QED
      BY <1>1, <1>2, <2>2, <3>1 DEF RailTyped, RailFields, PaneFields
  <2> QED
    BY <2>1, <2>2
<1>6. CallHome(c)'
  BY <1>1, <1>3, <1>4, <1>5 DEF CallHome, RailTyped
<1>7. \A x \in calls' : CallHome(x)'
  BY <1>2, <1>5, <1>6, CallsKeepHome DEF RailInv
<1>8. ChromeIsInView'
  BY <1>1, <1>2, PublishedInView DEF RailHolds, ChromeIsInView, Publish
<1>9. RailTyped' /\ TextsHome'
  BY <1>1, <1>5 DEF RailTyped, TextsHome
<1> QED
  BY <1>1, <1>7, <1>8, <1>9 DEF RailInv, RailHolds, WordsStayHome, FailureIsSaid

\* The commit box offers a commit of a message only.
LEMMA CommitHasWords == "commit" \in Offered => rail.typed # None
<1>1. "commit" \in CommitBoxOffers => rail.typed # None
  BY DEF CommitBoxOffers, Ready
<1>2. "commit" \notin TrustNoticeOffers \cup ChangesTreeOffers
  BY DEF TrustNoticeOffers, ChangesTreeOffers
<1>3. "commit" \notin BranchMenuOffers \cup SyncActionsOffers
  BY DEF BranchMenuOffers, SyncActionsOffers, Stashing, Exchanges
<1>4. "commit" \notin HunkActionsOffers \cup PullRequestOffers
  BY DEF HunkActionsOffers, PullRequestOffers, PullRequestBodyOffers, PullRequestReviewOffers,
     ProposalOffers, FormOffers, CheckListOffers, ReviewThreadListOffers
<1> QED
  BY <1>1, <1>2, <1>3, <1>4 DEF Offered

LEMMA QuestionsAsk == Questions \subseteq Asking
BY DEF Questions, Asking, DiscardQuestion, ConflictQuestion, BranchQuestion, HunkQuestion,
   MergeQuestion

LEMMA PressKeeps == ASSUME RailInv, Press PROVE RailInv'
<1>1. PICK verb \in Offered \ {"stop"} : Run(verb)
  BY DEF Press
<1> QED
  BY <1>1, CommitHasWords, RunKeeps DEF Press

LEMMA AnswerKeeps == ASSUME RailInv, Answer PROVE RailInv'
<1>1. question.verb # "commit"
  BY DEF RailInv, RailTyped, Answer, Asking
<1>2. CASE Run(question.verb)
  BY <1>1, <1>2, RunKeeps DEF Answer
<1>3. CASE UNCHANGED <<rail, pane, cluster, calls, railSpent>>
  BY <1>3 DEF Answer, RailInv, RailTyped, TextsHome, CallHome, RailHolds, WordsStayHome,
     ChromeIsInView, FailureIsSaid
<1> QED
  BY <1>2, <1>3 DEF Answer

LEMMA QuestionKeeps == ASSUME RailInv, Question PROVE RailInv'
<1>1. PICK verb \in Questions : question' = [verb |-> verb, project |-> inView.project]
  BY DEF Question
<1>2. question'.verb \in Asking
  BY <1>1, QuestionsAsk
<1> QED
  BY <1>2 DEF Question, RailInv, RailTyped, TextsHome, CallHome, RailHolds, WordsStayHome,
     ChromeIsInView, FailureIsSaid

\* Whatever exchange of this rail is under way is asked to stop.
LEMMA PressStopKeeps == ASSUME RailInv, PressStop PROVE RailInv'
<1>1. RailTyped /\ TextsHome /\ RailHolds /\ \A c \in calls : CallHome(c)
  BY DEF RailInv
<1>2. PICK mine, stop :
        /\ mine = {c \in calls : c.verb \in Exchanges /\ c.mount = rail.mount}
        /\ stop = [n |-> MaxCalls, verb |-> "stop", project |-> inView.project,
                   mount |-> rail.mount, words |-> {}, amend |-> FALSE, stage |-> "sent",
                   stopAsked |-> FALSE, halted |-> FALSE]
        /\ calls' = (calls \ mine) \cup {[c EXCEPT !.stopAsked = TRUE] : c \in mine} \cup {stop}
  BY DEF PressStop
<1>3. /\ RailFields \subseteq DOMAIN rail' /\ rail'.mount = rail.mount /\ rail'.typed = rail.typed
      /\ UNCHANGED <<inView, pane, cluster, question, repos, alerts>>
  BY <1>1 DEF PressStop, RailTyped, RailFields
<1>4. CallHome(stop)'
  <2>1. /\ CallFields \subseteq DOMAIN stop /\ stop.verb = "stop" /\ stop.words = {}
        /\ stop.project = inView.project /\ stop.mount = rail.mount
    BY <1>2 DEF CallFields
  <2>2. "stop" \notin PaneVerbs /\ "stop" \notin Exchanges
    BY DEF PaneVerbs, HunkVerbs, Exchanges
  <2> QED
    BY <1>1, <1>3, <2>1, <2>2 DEF CallHome, RailTyped
<1>5. ASSUME NEW c \in mine PROVE CallHome([c EXCEPT !.stopAsked = TRUE])'
  <2>1. PICK x : x = [c EXCEPT !.stopAsked = TRUE]
    OBVIOUS
  <2>2. CallHome(c)
    BY <1>1, <1>2, <1>5
  <2>3. /\ CallFields \subseteq DOMAIN x /\ x.verb = c.verb /\ x.project = c.project
        /\ x.mount = c.mount /\ x.words = c.words /\ x.stopAsked
    BY <2>1, <2>2 DEF CallHome, CallFields
  <2>4. CallHome(x)'
    BY <1>3, <2>2, <2>3 DEF CallHome
  <2> QED
    BY <2>1, <2>4
<1>6. ASSUME NEW c \in calls \ mine PROVE CallHome(c)'
  <2>1. CallHome(c) /\ ~(c.verb \in Exchanges /\ c.mount = rail.mount)
    BY <1>1, <1>2, <1>6
  <2> QED
    BY <1>3, <2>1 DEF CallHome
<1>7. \A c \in calls' : CallHome(c)'
  BY <1>2, <1>4, <1>5, <1>6
<1> QED
  BY <1>1, <1>3, <1>7 DEF RailInv, RailTyped, TextsHome, RailHolds, WordsStayHome,
     ChromeIsInView, FailureIsSaid

LEMMA TypeKeeps == ASSUME RailInv, Type PROVE RailInv'
<1>1. RailTyped /\ TextsHome
  BY DEF RailInv
<1>2. CASE ~UNCHANGED rail
  <2>1. PICK r : /\ r = [rail EXCEPT !.typed = {inView.project}] \/ r = [rail EXCEPT !.amend = ~@]
                 /\ rail' = r /\ UNCHANGED pane
    BY <1>2 DEF Type
  <2> QED
    BY <1>1, <1>2, <2>1, RailKeeps DEF Type, RailTyped, RailFields, TextsHome
<1>3. CASE UNCHANGED rail
  <2>1. /\ PaneFields \subseteq DOMAIN pane' /\ pane'.mount = pane.mount
        /\ pane'.typed # None => pane'.typed \subseteq {inView.project}
    BY <1>1, <1>3 DEF Type, RailTyped, PaneFields, TextsHome
  <2>2. \A c \in calls' : CallHome(c)'
    BY <1>3, <2>1, CallsKeepHome DEF Type, RailInv
  <2> QED
    BY <1>3, <2>1, <2>2 DEF Type, RailInv, RailTyped, TextsHome, RailHolds, WordsStayHome,
       ChromeIsInView, FailureIsSaid
<1> QED
  BY <1>2, <1>3 DEF Type

\* Another project in view: a rail and a pane of its own, and nothing published.
LEMMA SwitchKeeps == ASSUME RailInv, Switch PROVE RailInv'
<1>1. RailTyped /\ TextsHome /\ RailHolds /\ \A c \in calls : CallHome(c)
  BY DEF RailInv
<1>2. PICK p, held :
        /\ inView' = [project |-> p, held |-> held]
        /\ pane' = PaneFor(p, held)
        /\ rail' = RailFor(p)
        /\ cluster' = ClusterFor(p)
        /\ question' = QuestionFor(p)
        /\ UNCHANGED <<calls, repos, alerts>>
  BY DEF Switch
<1>3. inView'.project = p /\ "project" \in DOMAIN inView'
  BY <1>2
<1>4. \/ rail' = rail /\ p = inView.project
      \/ rail' = NewRail(rail.mount + 1)
  BY <1>2 DEF RailFor
<1>5. \/ pane' = pane /\ p = inView.project
      \/ pane' = NewPane(pane.mount + 1)
  BY <1>2 DEF PaneFor
<1>6. RailFields \subseteq DOMAIN rail' /\ rail'.mount \in Nat
      /\ (rail'.typed # None => rail'.typed \subseteq {p})
  BY <1>1, <1>4 DEF NewRail, RailTyped, RailFields, TextsHome
<1>7. PaneFields \subseteq DOMAIN pane' /\ pane'.mount \in Nat
      /\ (pane'.typed # None => pane'.typed \subseteq {p})
  BY <1>1, <1>5 DEF NewPane, RailTyped, PaneFields, TextsHome
<1>8. ASSUME NEW c \in calls' PROVE CallHome(c)'
  <2>1. CallHome(c)
    BY <1>1, <1>2, <1>8
  <2>2. \/ rail'.mount = rail.mount /\ rail'.stopped = rail.stopped /\ p = inView.project
        \/ rail'.mount = rail.mount + 1
    BY <1>4 DEF NewRail
  <2>3. \/ pane'.mount = pane.mount /\ p = inView.project
        \/ pane'.mount = pane.mount + 1
    BY <1>5 DEF NewPane
  <2> QED
    BY <1>1, <1>3, <2>1, <2>2, <2>3 DEF CallHome, RailTyped
<1>9. ChromeIsInView'
  BY <1>1, <1>2, <1>3 DEF ClusterFor, RailHolds, ChromeIsInView
<1>10. question' # None => question'.verb \in Asking
  BY <1>1, <1>2 DEF QuestionFor, RailTyped
<1>11. RailTyped' /\ TextsHome'
  BY <1>1, <1>2, <1>3, <1>6, <1>7, <1>10 DEF RailTyped, TextsHome
<1> QED
  BY <1>1, <1>2, <1>8, <1>9, <1>11 DEF RailInv, RailHolds, WordsStayHome, FailureIsSaid

LEMMA ReadsKeep == ASSUME RailInv, Reads PROVE RailInv'
<1>1. RailTyped /\ TextsHome
  BY DEF RailInv
<1>2. CASE ~UNCHANGED <<rail, cluster>>
  <2>1. PICK r : /\ (\E s : r = [rail EXCEPT !.status = s]) \/ (\E t : r = [rail EXCEPT !.trusted = t])
                 /\ Publish(r) /\ UNCHANGED pane
    BY <1>2 DEF Reads
  <2>2. /\ RailFields \subseteq DOMAIN r /\ r.mount = rail.mount /\ r.typed = rail.typed
        /\ r.stopped = rail.stopped
    BY <1>1, <2>1 DEF RailTyped, RailFields
  <2> QED
    BY <1>1, <1>2, <2>1, <2>2, RailKeeps DEF Reads, TextsHome
<1>3. CASE UNCHANGED <<rail, cluster>>
  <2>1. /\ PaneFields \subseteq DOMAIN pane' /\ pane'.mount = pane.mount /\ pane'.typed = pane.typed
    BY <1>1, <1>3 DEF Reads, RailTyped, PaneFields
  <2>2. \A c \in calls' : CallHome(c)'
    BY <1>3, <2>1, CallsKeepHome DEF Reads, RailInv
  <2> QED
    BY <1>3, <2>1, <2>2 DEF Reads, RailInv, RailTyped, TextsHome, RailHolds, WordsStayHome,
       ChromeIsInView, FailureIsSaid
<1> QED
  BY <1>2, <1>3 DEF Reads


\* A step of the core on the calls and repositories.
LEMMA CoreKeeps ==
  ASSUME RailInv, \A c \in calls' : CallHome(c),
         DOMAIN repos' = RailProject,
         \A p \in RailProject : RepoFields \subseteq DOMAIN repos'[p]
                                /\ repos'[p].recorded \subseteq {p},
         UNCHANGED <<inView, rail, pane, cluster, question, alerts>>
  PROVE  RailInv'
<1>1. \A c \in calls' : CallHome(c)'
  BY DEF CallHome
<1> QED
  BY <1>1 DEF RailInv, RailTyped, TextsHome, RailHolds, WordsStayHome, ChromeIsInView, FailureIsSaid

LEMMA MovedKeepsHome ==
  ASSUME RailInv, NEW c \in calls, NEW stage
  PROVE  \A x \in Moved(c, stage) : CallHome(x)
<1>1. \A x \in calls : CallHome(x)
  BY DEF RailInv
<1> QED
  BY <1>1, ServedKeepsHome DEF Moved

LEMMA CoreServesKeep == ASSUME RailInv, CoreRefuses \/ CoreStarts PROVE RailInv'
<1>1. PICK c, stage : c \in calls /\ calls' = Moved(c, stage)
  BY DEF CoreRefuses, CoreStarts
<1>2. \A x \in calls' : CallHome(x)
  BY <1>1, MovedKeepsHome
<1>3. /\ DOMAIN repos' = RailProject
      /\ \A p \in RailProject : RepoFields \subseteq DOMAIN repos'[p]
                                /\ repos'[p].recorded = repos[p].recorded
  <2>1. \/ repos' = repos
        \/ \E p, gate : repos' = [repos EXCEPT ![p].gate = gate]
    BY DEF CoreRefuses, CoreStarts
  <2> QED
    BY <2>1 DEF RailInv, RailTyped, RepoFields
<1> QED
  BY <1>2, <1>3, CoreKeeps DEF RailInv, RailHolds, WordsStayHome, CoreRefuses, CoreStarts

LEMMA CoreStopsKeeps == ASSUME RailInv, CoreStops PROVE RailInv'
<1>1. PICK c \in calls :
        calls' = {IF x.verb \in Exchanges /\ x.stage = "running" /\ x.project = c.project
                  THEN [x EXCEPT !.halted = TRUE] ELSE x : x \in calls \ {c}}
  BY DEF CoreStops
<1>2. \A x \in calls' : CallHome(x)
  BY <1>1, ServedKeepsHome DEF RailInv
<1> QED
  BY <1>2, CoreKeeps DEF CoreStops, RailInv, RailTyped, RailHolds, WordsStayHome

\* What a call records is what it says.
LEMMA AfterHome ==
  ASSUME NEW c, NEW repo, RepoFields \subseteq DOMAIN repo
  PROVE  RepoFields \subseteq DOMAIN After(c, repo)
         /\ After(c, repo).recorded \subseteq repo.recorded \cup c.words
<1>1. \/ After(c, repo) = repo
      \/ After(c, repo) = [repo EXCEPT !.trusted = TRUE]
      \/ After(c, repo) = [repo EXCEPT !.recorded = repo.recorded \cup c.words, !.staged = FALSE]
      \/ After(c, repo) = [repo EXCEPT !.recorded = repo.recorded \cup c.words]
      \/ \E b : After(c, repo) = [repo EXCEPT !.staged = b]
      \/ After(c, repo) = [repo EXCEPT !.merging = FALSE]
  BY DEF After
<1> SUFFICES ASSUME NEW a, a = After(c, repo)
             PROVE  RepoFields \subseteq DOMAIN a /\ a.recorded \subseteq repo.recorded \cup c.words
  OBVIOUS
<1> QED
  BY <1>1 DEF RepoFields

LEMMA CoreEndsKeeps == ASSUME RailInv, CoreEnds PROVE RailInv'
<1>1. PICK c \in calls, stage \in {"done", "refused"} :
        /\ calls' = Moved(c, stage)
        /\ LET ended == CASE stage = "done" -> After(c, repos[c.project])
                          [] stage = "refused" /\ c.verb = "pull" -> [repos[c.project] EXCEPT !.merging = TRUE]
                          [] OTHER -> repos[c.project]
           IN repos' = [repos EXCEPT ![c.project] =
                          [ended EXCEPT !.gate = IF c.verb \in Ungated THEN @ ELSE None]]
  BY DEF CoreEnds
<1>2. PICK ended :
        /\ ended = CASE stage = "done" -> After(c, repos[c.project])
                     [] stage = "refused" /\ c.verb = "pull" -> [repos[c.project] EXCEPT !.merging = TRUE]
                     [] OTHER -> repos[c.project]
        /\ repos' = [repos EXCEPT ![c.project] =
                       [ended EXCEPT !.gate = IF c.verb \in Ungated THEN @ ELSE None]]
  BY <1>1
<1>3. PICK gate : gate = IF c.verb \in Ungated THEN ended.gate ELSE None
  OBVIOUS
<1>4. repos' = [repos EXCEPT ![c.project] = [ended EXCEPT !.gate = gate]]
  BY <1>2, <1>3
<1>5. \/ ended = After(c, repos[c.project])
      \/ ended = [repos[c.project] EXCEPT !.merging = TRUE]
      \/ ended = repos[c.project]
  BY <1>2
<1>6. c \in calls /\ calls' = Moved(c, stage)
  BY <1>1
<1>7. \A x \in calls' : CallHome(x)
  BY <1>6, MovedKeepsHome
<1>8. ASSUME NEW p \in RailProject
      PROVE  RepoFields \subseteq DOMAIN repos'[p] /\ repos'[p].recorded \subseteq {p}
  <2>1. RepoFields \subseteq DOMAIN repos[p] /\ repos[p].recorded \subseteq {p}
    BY DEF RailInv, RailTyped, RailHolds, WordsStayHome
  <2>2. CASE p # c.project
    BY <1>4, <2>1, <2>2 DEF RailInv, RailTyped
  <2>3. CASE p = c.project
    <3>1. c.words \subseteq {p}
      BY <1>6, <2>3 DEF RailInv, CallHome
    <3>2. RepoFields \subseteq DOMAIN ended /\ ended.recorded \subseteq {p}
      BY <1>5, <2>1, <2>3, <3>1, AfterHome DEF RepoFields
    <3>3. repos'[p] = [ended EXCEPT !.gate = gate]
      BY <1>4, <2>3 DEF RailInv, RailTyped
    <3> QED
      BY <3>2, <3>3 DEF RepoFields
  <2> QED
    BY <2>2, <2>3
<1>9. DOMAIN repos' = RailProject
  BY <1>4 DEF RailInv, RailTyped
<1> QED
  BY <1>7, <1>8, <1>9, CoreKeeps DEF CoreEnds

\* An answer lands in the surface that sent the call, if it is still there.
LEMMA CallAnsweredKeeps == ASSUME RailInv, CallAnswered PROVE RailInv'
<1>1. RailTyped /\ TextsHome /\ RailHolds /\ \A c \in calls : CallHome(c)
  BY DEF RailInv
<1>2. PICK c \in calls :
        /\ calls' = calls \ {c}
        /\ IF c.verb \in PaneVerbs
           THEN /\ pane' = IF c.mount = pane.mount THEN PaneAfter(c) ELSE pane
                /\ UNCHANGED <<rail, cluster, alerts>>
           ELSE /\ alerts' = Reported(c)
                /\ IF c.mount = rail.mount THEN Publish(RailAfter(c)) ELSE UNCHANGED <<rail, cluster>>
                /\ UNCHANGED pane
        /\ UNCHANGED <<works, inView, question, repos, railSpent>>
  BY DEF CallAnswered
<1>3. CallHome(c)
  BY <1>1
<1>4. ASSUME NEW r, RailFields \subseteq DOMAIN r, r.mount = rail.mount, r.stopped = rail.stopped,
             r.typed # None => r.typed \subseteq {inView.project},
             rail' = r, pane'.mount = pane.mount, PaneFields \subseteq DOMAIN pane',
             pane'.typed # None => pane'.typed \subseteq {inView.project},
             ChromeIsInView', {"raised", "unheard", "departed"} \subseteq DOMAIN alerts',
             alerts'.unheard \subseteq alerts'.departed
      PROVE  RailInv'
  <2>1. \A x \in calls' : CallHome(x)'
    BY <1>1, <1>2, <1>4, CallsKeepHome
  <2> QED
    BY <1>1, <1>2, <1>4, <2>1 DEF RailInv, RailTyped, TextsHome, RailHolds, WordsStayHome, FailureIsSaid
<1>5. /\ ChromeIsInView /\ alerts.unheard \subseteq alerts.departed
      /\ {"raised", "unheard", "departed"} \subseteq DOMAIN alerts
      /\ RailFields \subseteq DOMAIN rail /\ PaneFields \subseteq DOMAIN pane
  BY <1>1 DEF RailHolds, FailureIsSaid, RailTyped
<1>6. CASE c.verb \in PaneVerbs
  <2>1. UNCHANGED <<rail, cluster, alerts, inView>> /\ ChromeIsInView'
    BY <1>2, <1>5, <1>6 DEF ChromeIsInView
  <2>2. /\ pane'.mount = pane.mount /\ PaneFields \subseteq DOMAIN pane'
        /\ pane'.typed # None => pane'.typed \subseteq {inView.project}
    <3>1. CASE c.mount # pane.mount
      BY <1>1, <1>2, <1>5, <1>6, <3>1 DEF TextsHome
    <3>2. CASE c.mount = pane.mount
      <4>1. c.project = inView.project
        BY <1>3, <1>6, <3>2 DEF CallHome
      <4>2. PICK q : /\ q = PaneSettled(c)
                     /\ \/ pane' = q
                        \/ pane' = [q EXCEPT !.typed = None, !.editing = FALSE]
                        \/ pane' = [q EXCEPT !.typed = {c.project}]
        BY <1>2, <1>6, <3>2 DEF PaneAfter
      <4>3. PaneFields \subseteq DOMAIN q /\ q.mount = pane.mount /\ q.typed = pane.typed
        BY <1>5, <4>2 DEF PaneSettled, PaneFields
      <4> QED
        BY <1>1, <4>1, <4>2, <4>3 DEF PaneFields, TextsHome
    <3> QED
      BY <3>1, <3>2
  <2> QED
    BY <1>1, <1>4, <1>5, <2>1, <2>2 DEF TextsHome
<1>7. CASE c.verb \notin PaneVerbs /\ c.mount # rail.mount
  <2>1. {"raised", "unheard", "departed"} \subseteq DOMAIN alerts' /\ alerts'.unheard \subseteq alerts'.departed
    BY <1>2, <1>5, <1>7 DEF Reported
  <2> QED
    BY <1>1, <1>2, <1>4, <1>5, <1>7, <2>1 DEF TextsHome, ChromeIsInView
<1>8. CASE c.verb \notin PaneVerbs /\ c.mount = rail.mount
  <2>1. /\ c.project = inView.project
        /\ rail.stopped /\ c.verb \in Exchanges => c.stopAsked
    BY <1>3, <1>8 DEF CallHome
  <2>2. Publish(RailAfter(c)) /\ alerts' = Reported(c) /\ UNCHANGED pane
    BY <1>2, <1>8
  <2>3. PICK q : /\ q = RailSettled(c)
                 /\ \/ rail' = q
                    \/ rail' = [q EXCEPT !.typed = None, !.amend = FALSE]
                    \/ rail' = [q EXCEPT !.typed = {c.project}]
    BY <2>2 DEF RailAfter, Publish
  <2>4. /\ RailFields \subseteq DOMAIN q /\ q.mount = rail.mount /\ q.typed = rail.typed
        /\ q.stopped = rail.stopped
    BY <1>5, <2>3 DEF RailSettled, RailFields
  <2>5. /\ RailFields \subseteq DOMAIN rail' /\ rail'.mount = rail.mount /\ rail'.stopped = rail.stopped
        /\ rail'.typed # None => rail'.typed \subseteq {inView.project}
    BY <1>1, <2>1, <2>3, <2>4 DEF RailFields, TextsHome
  <2>6. ChromeIsInView'
    BY <1>2, <2>2, PublishedInView DEF Publish, ChromeIsInView
  <2>7. {"raised", "unheard", "departed"} \subseteq DOMAIN alerts' /\ alerts'.unheard \subseteq alerts'.departed
    BY <1>5, <1>8, <2>1, <2>2 DEF Reported
  <2> QED
    BY <1>1, <1>4, <1>5, <2>2, <2>5, <2>6, <2>7 DEF TextsHome
<1> QED
  BY <1>6, <1>7, <1>8

LEMMA RailStep == RailInv /\ [RailNext]_railVars => RailInv'
<1> SUFFICES ASSUME RailInv, [RailNext]_railVars PROVE RailInv'
  OBVIOUS
<1>1. CASE UNCHANGED railVars
  BY <1>1 DEF railVars, RailInv, RailTyped, TextsHome, CallHome, RailHolds, WordsStayHome,
     ChromeIsInView, FailureIsSaid
<1> QED
  BY <1>1, PressKeeps, PressStopKeeps, QuestionKeeps, AnswerKeeps, TypeKeeps, SwitchKeeps,
     ReadsKeep, CoreServesKeep, CoreStopsKeeps, CoreEndsKeeps, CallAnsweredKeeps DEF RailNext

LEMMA RailStart == RailInit => RailInv
<1> SUFFICES ASSUME RailInit PROVE RailInv
  OBVIOUS
<1>1. rail = NewRail(0) /\ pane = NewPane(0) /\ cluster = None /\ question = None /\ calls = {}
  BY DEF RailInit
<1>2. RailTyped
  BY <1>1 DEF RailInit, RailTyped, RailFields, PaneFields, RepoFields, NewRail, NewPane
<1>3. TextsHome
  BY <1>1 DEF TextsHome, NewRail, NewPane
<1>4. RailHolds
  BY <1>1 DEF RailInit, RailHolds, WordsStayHome, ChromeIsInView, FailureIsSaid
<1> QED
  BY <1>1, <1>2, <1>3, <1>4 DEF RailInv

\* Words written for one project are never recorded in another, the chrome never acts on a
\* repository that is not in view, and an exchange that failed by itself while its rail is
\* still mounted is said to have, not taken for one that was stopped (GitRail's key,
\* branchCluster.ts, useGitSync.ts): for any projects, switches, calls answered late and
\* stops.  What fails after its rail left with its project is told by nobody.
THEOREM RailHoldsAlways == RailSpec => []RailHolds
<1>1. RailInv => RailHolds
  BY DEF RailInv
<1> QED
  BY <1>1, RailStart, RailStep, PTL DEF RailSpec

-------------------------------------------------------------------------------
(* The project settings page.                                                *)

PageSpec == PageInit /\ [][PageNext]_pageVars

\* What a call names, as its kind requires.
CallTyped(c) ==
  /\ c \in WireCall
  /\ c.op \notin {"set", "setIcon"} => c.name \in CommandName
  /\ c.op = "rename" => c.to \in CommandName
  /\ c.op \in {"edit", "add"} => c.spec \in ProcessSpec
  /\ c.op = "add" => c.visibility \in Visibility

PageTyped ==
  /\ project \in ProjectSettingsPage
  /\ page \in [view : ProjectSettingsPage \cup {None}, read : Nat]
  /\ DOMAIN pendingEdits \subseteq CommandName \X Nat
  /\ \A k \in DOMAIN pendingEdits : pendingEdits[k] \in ProcessSpec
  /\ writeQueue \in [flying : PageWrite \cup {None}, queue : Seq(PageWrite)]
  /\ direct \subseteq [key : Nat, call : WireCall, outcome : WriteOutcome]
  /\ reloads \subseteq [read : Nat, answer : ProjectSettingsPage \cup {None}]
  /\ edited \in [CommandName -> ProcessSpec]
  /\ outdated \in BOOLEAN
  /\ pageSpent \in [acts : Nat, reads : Nat, faults : Nat]

CallsTyped ==
  /\ writeQueue.flying # None => CallTyped(writeQueue.flying.call)
  /\ \A i \in DOMAIN writeQueue.queue : CallTyped(writeQueue.queue[i].call)
  /\ \A c \in direct : CallTyped(c.call) /\ c.call.op # "edit"

\* The reads of the page are told apart, and the one shown is not among those to come.
ReadsDiffer ==
  /\ \A r \in reloads : r.read \in 1..pageSpent.reads /\ r.read # page.read
  /\ \A r, s \in reloads : r.read = s.read => r = s
  /\ page.read <= pageSpent.reads

\* The core changes and the page will be asked for again.
Changing == writeQueue.flying # None \/ \E c \in direct : c.outcome = "ok"

\* Otherwise the newest read brings what the core has.
NewestIsCore ==
  \/ Changing \/ outdated
  \/ /\ page.read = pageSpent.reads => page.view = project
     /\ \A r \in reloads : r.read = pageSpent.reads /\ r.answer # None => r.answer = project

EditOf(w, n) == w.call.op = "edit" /\ w.call.name = n

\* A row belongs to a page that has been shown.
Shown(key) == key[2] <= pageSpent.reads /\ \A r \in reloads : r.read # key[2]

\* A key is the row of the command edited; of the edits of a command, those of the row on
\* screen are the last.
QueueRows ==
  /\ writeQueue.flying = None => writeQueue.queue = <<>>
  /\ \A i \in DOMAIN writeQueue.queue :
       LET w == writeQueue.queue[i] IN
       /\ w.outcome = None
       /\ w.key # None => EditOf(w, w.key[1]) /\ Shown(w.key)
  /\ \A k \in DOMAIN pendingEdits : Shown(k)
  /\ \A i, j \in DOMAIN writeQueue.queue :
       LET w == writeQueue.queue[i] IN
       i < j /\ w.key # None /\ w.key[2] = page.read => ~EditOf(writeQueue.queue[j], w.key[1])

\* The commands the page promises something of.
Claimed == CommandName \ (rejected \cup stale)

\* A spec has the user's last edit of every field.
Carries(n, spec) == \A f \in Field : edited[n][f] \in {0, spec[f]}

NoneAfter(i, n) ==
  \A j \in DOMAIN writeQueue.queue : j > i => ~EditOf(writeQueue.queue[j], n)
Flying(n) ==
  writeQueue.flying # None /\ writeQueue.flying.outcome = None /\ EditOf(writeQueue.flying, n)

\* The row on screen pends with every edit, and so goes the last write the core has yet to
\* serve; when there is none, the core has them.
PendingCarries ==
  \A n \in Claimed : RowKey(n) \in DOMAIN pendingEdits => Carries(n, pendingEdits[RowKey(n)])
LastCarries ==
  \A n \in Claimed :
    /\ \A i \in DOMAIN writeQueue.queue :
         EditOf(writeQueue.queue[i], n) /\ NoneAfter(i, n) => Carries(n, writeQueue.queue[i].call.spec)
    /\ NoneAfter(0, n) /\ Flying(n) => Carries(n, writeQueue.flying.call.spec)
    /\ NoneAfter(0, n) /\ ~Flying(n) /\ project.commands[n] # None
         => Carries(n, project.commands[n].spec)

PageInv ==
  /\ PageTyped /\ CallsTyped /\ ReadsDiffer /\ NewestIsCore /\ QueueRows
  /\ PendingCarries /\ LastCarries

-------------------------------------------------------------------------------

\* What the page raises is about a command it lists.
LEMMA OffersTyped ==
  ASSUME NEW o \in PageOffers
  PROVE  /\ page.view # None
         /\ o.op \in {"edit", "rename", "toggleStorage", "remove"} => o.on \in Roster(page.view)
         /\ o.op = "edit" => o.field \in Field
         /\ o.op = "rename" => o.to \in CommandName
         /\ o.op = "add" => o.on \in CommandName /\ o.to \in Visibility
         /\ o.op # "add" => o.on \in Roster(page.view) \cup {None}
                            /\ o.to \in CommandName \cup {None}
<1>1. page.view # None
  BY DEF PageOffers
<1>2. \/ o \in OverviewOffers \cup SectionOffers \cup NotificationsOffers \cup AddCommandOffers
      \/ \E n \in Roster(page.view) : o \in CommandEditorOffers(n)
  BY <1>1 DEF PageOffers, CommandListOffers
<1>3. CASE o \in OverviewOffers \cup SectionOffers \cup NotificationsOffers
  BY <1>1, <1>3 DEF OverviewOffers, SectionOffers, NotificationsOffers, Raise
<1>4. CASE o \in AddCommandOffers
  BY <1>1, <1>4 DEF AddCommandOffers, Raise
<1>5. ASSUME NEW n \in Roster(page.view), o \in CommandEditorOffers(n)
      PROVE  /\ o.on = n /\ o.op # "add"
             /\ o.op = "edit" => o.field \in Field
             /\ o.op = "rename" => o.to \in CommandName
             /\ o.to \in CommandName \cup {None}
  BY <1>5 DEF CommandEditorOffers, Raise
<1> QED
  BY <1>1, <1>2, <1>3, <1>4, <1>5

LEMMA IconRaised == ASSUME NEW o \in PageOffers, o.op = "setIcon" PROVE o.to = None
<1>1. o \notin AddCommandOffers /\ \A n \in Roster(page.view) : o \notin CommandEditorOffers(n)
  BY DEF AddCommandOffers, CommandEditorOffers, Raise
<1>2. o \in OverviewOffers \cup SectionOffers \cup NotificationsOffers
  BY <1>1 DEF PageOffers, CommandListOffers
<1> QED
  BY <1>2 DEF OverviewOffers, SectionOffers, NotificationsOffers, Raise

LEMMA CommandTyped ==
  ASSUME NEW p \in ProjectSettingsPage, NEW n \in CommandName, p.commands[n] # None
  PROVE  p.commands[n] \in ProjectCommandView
BY DEF ProjectSettingsPage

\* What the core makes of a command when it serves a call.
LEMMA EffectTyped ==
  ASSUME NEW p \in ProjectSettingsPage, NEW call, CallTyped(call), ~Rejects(p, call)
  PROVE  Effect(p, call) \in ProjectSettingsPage
<1>1. call.op \in PageCall
  BY DEF CallTyped, WireCall
<1>2. CASE call.op = "edit"
  <2>1. p.commands[call.name] \in ProjectCommandView
    BY <1>2, CommandTyped DEF Rejects, Holds, CallTyped
  <2>2. PICK view : view = [p.commands[call.name] EXCEPT !.spec = call.spec]
    OBVIOUS
  <2>3. view \in ProjectCommandView
    BY <1>2, <2>1, <2>2 DEF ProjectCommandView, CallTyped
  <2>4. Effect(p, call) = [p EXCEPT !.commands = [p.commands EXCEPT ![call.name] = view]]
    BY <1>2, <2>2 DEF Effect
  <2> QED
    BY <2>3, <2>4 DEF ProjectSettingsPage
<1>3. CASE call.op = "toggleStorage"
  <2>1. p.commands[call.name] \in ProjectCommandView
    BY <1>3, CommandTyped DEF Rejects, Holds, CallTyped
  <2>2. PICK other : other = OtherStore(p.commands[call.name].visibility)
    OBVIOUS
  <2>3. other \in Visibility
    BY <2>1, <2>2 DEF OtherStore, ProjectCommandView, Visibility
  <2>4. PICK view : view = [p.commands[call.name] EXCEPT !.visibility = other]
    OBVIOUS
  <2>5. view \in ProjectCommandView
    BY <2>1, <2>3, <2>4 DEF ProjectCommandView
  <2>6. Effect(p, call) = [p EXCEPT !.commands = [p.commands EXCEPT ![call.name] = view]]
    BY <1>3, <2>2, <2>4 DEF Effect
  <2> QED
    BY <2>5, <2>6 DEF ProjectSettingsPage
<1>4. CASE call.op = "rename"
  <2>1. p.commands[call.name] \in ProjectCommandView
    BY <1>4, CommandTyped DEF Rejects, Holds, CallTyped
  <2> QED
    BY <1>4, <2>1 DEF Effect, ProjectSettingsPage
<1>5. CASE call.op = "remove"
  BY <1>5 DEF Effect, ProjectSettingsPage
<1>6. CASE call.op = "add"
  <2>1. [spec |-> call.spec, visibility |-> call.visibility] \in ProjectCommandView
    BY <1>6 DEF CallTyped, ProjectCommandView
  <2> QED
    BY <1>6, <2>1 DEF Effect, ProjectSettingsPage
<1>7. CASE call.op \in {"set", "setIcon"}
  BY <1>7 DEF Effect, ProjectSettingsPage
<1> QED
  BY <1>1, <1>2, <1>3, <1>4, <1>5, <1>6, <1>7 DEF PageCall


\* Field by field: a command keeps its spec but for an edit of it, or its name is given away.
LEMMA EffectOnSpec ==
  ASSUME NEW p \in ProjectSettingsPage, NEW call, CallTyped(call), ~Rejects(p, call),
         NEW n \in CommandName, ~(call.op \in {"rename", "remove", "add"} /\ n \in {call.name, call.to}),
         Effect(p, call).commands[n] # None
  PROVE  /\ p.commands[n] # None
         /\ Effect(p, call).commands[n].spec =
              IF call.op = "edit" /\ call.name = n THEN call.spec ELSE p.commands[n].spec
<1>1. call.op \in PageCall
  BY DEF CallTyped, WireCall
<1>2. CASE call.op = "edit"
  <2>1. p.commands[call.name] \in ProjectCommandView /\ p.commands[call.name] # None
    BY <1>2, CommandTyped DEF Rejects, Holds, CallTyped
  <2>2. PICK view : view = [p.commands[call.name] EXCEPT !.spec = call.spec]
    OBVIOUS
  <2>3. view.spec = call.spec
    BY <2>1, <2>2 DEF ProjectCommandView
  <2>4. Effect(p, call) = [p EXCEPT !.commands = [p.commands EXCEPT ![call.name] = view]]
    BY <1>2, <2>2 DEF Effect
  <2> QED
    BY <1>2, <2>1, <2>3, <2>4 DEF ProjectSettingsPage
<1>3. CASE call.op = "toggleStorage"
  <2>1. p.commands[call.name] \in ProjectCommandView /\ p.commands[call.name] # None
    BY <1>3, CommandTyped DEF Rejects, Holds, CallTyped
  <2>2. PICK view, other : other = OtherStore(p.commands[call.name].visibility)
                           /\ view = [p.commands[call.name] EXCEPT !.visibility = other]
    OBVIOUS
  <2>3. view.spec = p.commands[call.name].spec
    BY <2>1, <2>2 DEF ProjectCommandView
  <2>4. Effect(p, call) = [p EXCEPT !.commands = [p.commands EXCEPT ![call.name] = view]]
    BY <1>3, <2>2 DEF Effect
  <2> QED
    BY <1>3, <2>1, <2>3, <2>4 DEF ProjectSettingsPage
<1>4. CASE call.op \in {"rename", "remove", "add"}
  BY <1>4 DEF Effect, ProjectSettingsPage
<1>5. CASE call.op \in {"set", "setIcon"}
  BY <1>5 DEF Effect, ProjectSettingsPage
<1> QED
  BY <1>1, <1>2, <1>3, <1>4, <1>5 DEF PageCall

\* A call served: what is claimed of a command stays as it was, but for an edit of it that
\* went through.
LEMMA ServedClaims ==
  ASSUME PageTyped, NEW call, CallTyped(call), NEW outcome, CallServed(call, outcome)
  PROVE  /\ project' \in ProjectSettingsPage
         /\ edited' \in [CommandName -> ProcessSpec]
         /\ pageSpent' \in [acts : Nat, reads : Nat, faults : Nat]
         /\ pageSpent'.reads = pageSpent.reads
         /\ outcome \in {"ok", "failed"}
         /\ outcome = "failed" => project' = project
         /\ rejected \subseteq rejected'
         /\ \A n \in CommandName \ rejected' :
              \/ edited'[n] = NewSpec
              \/ /\ edited'[n] = edited[n]
                 /\ project'.commands[n] # None =>
                      /\ project.commands[n] # None
                      /\ project'.commands[n].spec =
                           IF call.op = "edit" /\ call.name = n THEN call.spec
                           ELSE project.commands[n].spec
<1>1. NewSpec \in ProcessSpec
  BY DEF NewSpec, ProcessSpec
<1>2. CASE ~Rejects(project, call) /\ outcome = "ok" /\ project' = Effect(project, call)
           /\ edited' = AskedAfter(call) /\ UNCHANGED <<rejected, pageSpent>>
  <2>1. project' \in ProjectSettingsPage
    BY <1>2, EffectTyped DEF PageTyped
  <2>2. edited' \in [CommandName -> ProcessSpec]
    BY <1>1, <1>2 DEF AskedAfter, PageTyped
  <2>3. ASSUME NEW n \in CommandName, edited'[n] # NewSpec
        PROVE  /\ edited'[n] = edited[n]
               /\ ~(call.op \in {"rename", "remove", "add"} /\ n \in {call.name, call.to})
    BY <1>2, <2>3 DEF AskedAfter
  <2>4. ASSUME NEW n \in CommandName, edited'[n] # NewSpec, project'.commands[n] # None
        PROVE  /\ project.commands[n] # None
               /\ project'.commands[n].spec =
                    IF call.op = "edit" /\ call.name = n THEN call.spec ELSE project.commands[n].spec
    BY <1>2, <2>3, <2>4, EffectOnSpec DEF PageTyped
  <2> QED
    BY <1>2, <2>1, <2>2, <2>3, <2>4 DEF PageTyped
<1>3. CASE /\ outcome = "failed"
           /\ IF Rejects(project, call) THEN UNCHANGED pageSpent
              ELSE /\ pageSpent.faults < MaxPageFaults
                   /\ pageSpent' = [pageSpent EXCEPT !.faults = @ + 1]
           /\ rejected' = IF call.op = "edit" THEN rejected \cup {call.name} ELSE rejected
           /\ UNCHANGED <<project, edited>>
  BY <1>3 DEF PageTyped
<1> QED
  BY <1>2, <1>3 DEF CallServed


\* A served call asks nothing of the page.
LEMMA CoreServesPageKeeps == ASSUME PageInv, CoreServesPage PROVE PageInv'
<1>1. PICK r \in reloads : /\ r.answer = None
                           /\ reloads' = (reloads \ {r}) \cup {[r EXCEPT !.answer = project]}
  BY DEF CoreServesPage
<1>2. PICK s : s = [r EXCEPT !.answer = project]
  OBVIOUS
<1>3. UNCHANGED <<project, page, pendingEdits, writeQueue, direct, edited, rejected, stale, outdated, pageSpent>>
  BY DEF CoreServesPage
<1>4. PageTyped /\ CallsTyped /\ ReadsDiffer /\ NewestIsCore /\ QueueRows /\ PendingCarries /\ LastCarries
  BY DEF PageInv
<1>5. s \in [read : Nat, answer : ProjectSettingsPage \cup {None}] /\ s.read = r.read /\ s.answer = project
  BY <1>1, <1>2, <1>4 DEF PageTyped
<1>6. reloads' = (reloads \ {r}) \cup {s}
  BY <1>1, <1>2
<1>7. PageTyped' /\ CallsTyped'
  BY <1>3, <1>4, <1>5, <1>6 DEF PageTyped, CallsTyped
<1>8. ReadsDiffer'
  BY <1>3, <1>4, <1>5, <1>6 DEF ReadsDiffer
<1>9. NewestIsCore'
  BY <1>3, <1>4, <1>5, <1>6 DEF NewestIsCore, Changing
<1>10. ASSUME NEW k, Shown(k) PROVE Shown(k)'
  BY <1>3, <1>5, <1>6, <1>10 DEF Shown
<1>11. QueueRows'
  BY <1>3, <1>4, <1>10 DEF QueueRows, EditOf
<1>12. PendingCarries' /\ LastCarries'
  BY <1>3, <1>4 DEF PendingCarries, LastCarries, Claimed, Carries, RowKey, NoneAfter, Flying, EditOf
<1> QED
  BY <1>7, <1>8, <1>9, <1>11, <1>12 DEF PageInv

LEMMA PageReadFailsKeeps == ASSUME PageInv, PageReadFails PROVE PageInv'
<1>1. PICK r \in reloads : reloads' = reloads \ {r}
  BY DEF PageReadFails
<1>2. pageSpent' = [pageSpent EXCEPT !.faults = @ + 1]
  BY DEF PageReadFails
<1>3. UNCHANGED <<project, page, pendingEdits, writeQueue, direct, edited, rejected, stale, outdated>>
  BY DEF PageReadFails
<1>4. PageTyped /\ CallsTyped /\ ReadsDiffer /\ NewestIsCore /\ QueueRows /\ PendingCarries /\ LastCarries
  BY DEF PageInv
<1>5. pageSpent' \in [acts : Nat, reads : Nat, faults : Nat] /\ pageSpent'.reads = pageSpent.reads
  BY <1>2, <1>4 DEF PageTyped
<1>6. reloads' \subseteq reloads
  BY <1>1
<1>7. PageTyped' /\ CallsTyped'
  BY <1>3, <1>4, <1>5, <1>6 DEF PageTyped, CallsTyped
<1>8. ReadsDiffer' /\ NewestIsCore'
  BY <1>3, <1>4, <1>5, <1>6 DEF ReadsDiffer, NewestIsCore, Changing
<1>9. ASSUME NEW k, Shown(k) PROVE Shown(k)'
  BY <1>3, <1>5, <1>6, <1>9 DEF Shown
<1>10. QueueRows'
  BY <1>3, <1>4, <1>9 DEF QueueRows, EditOf
<1>11. PendingCarries' /\ LastCarries'
  BY <1>3, <1>4 DEF PendingCarries, LastCarries, Claimed, Carries, RowKey, NoneAfter, Flying, EditOf
<1> QED
  BY <1>7, <1>8, <1>10, <1>11 DEF PageInv

\* A page that lands gives every command a new row, which nothing pends for yet.
LEMMA PageLandsKeeps == ASSUME PageInv, PageLands PROVE PageInv'
<1>1. PICK r \in reloads : /\ r.answer # None /\ reloads' = reloads \ {r}
                           /\ page' = [view |-> r.answer, read |-> r.read]
  BY DEF PageLands
<1>2. UNCHANGED <<project, pendingEdits, writeQueue, direct, edited, rejected, stale, outdated, pageSpent>>
  BY DEF PageLands
<1>3. PageTyped /\ CallsTyped /\ ReadsDiffer /\ NewestIsCore /\ QueueRows /\ PendingCarries /\ LastCarries
  BY DEF PageInv
<1>4. r \in [read : Nat, answer : ProjectSettingsPage \cup {None}] /\ reloads' \subseteq reloads
      /\ page'.read = r.read /\ page'.view = r.answer
  BY <1>1, <1>3 DEF PageTyped
<1>5. PageTyped' /\ CallsTyped'
  BY <1>1, <1>2, <1>3, <1>4 DEF PageTyped, CallsTyped
<1>6. ReadsDiffer'
  BY <1>1, <1>2, <1>3, <1>4 DEF ReadsDiffer, PageTyped
<1>7. NewestIsCore'
  BY <1>1, <1>2, <1>3, <1>4 DEF NewestIsCore, Changing
<1>8. ASSUME NEW k, Shown(k) PROVE Shown(k)' /\ k[2] # page'.read
  BY <1>1, <1>2, <1>4, <1>8 DEF Shown
<1>9. QueueRows'
  BY <1>2, <1>3, <1>8 DEF QueueRows, EditOf
<1>10. \A k \in DOMAIN pendingEdits : k[2] # page'.read
  BY <1>3, <1>8 DEF QueueRows
<1>11. PendingCarries'
  BY <1>2, <1>10 DEF PendingCarries, RowKey
<1>12. LastCarries'
  BY <1>2, <1>3 DEF LastCarries, Claimed, Carries, NoneAfter, Flying, EditOf
<1> QED
  BY <1>5, <1>6, <1>7, <1>9, <1>11, <1>12 DEF PageInv

LEMMA QueueTyped ==
  ASSUME PageTyped
  PROVE  /\ writeQueue.flying \in PageWrite \cup {None}
         /\ writeQueue.queue \in Seq(PageWrite)
         /\ \A i \in DOMAIN writeQueue.queue :
              /\ writeQueue.queue[i] \in PageWrite
              /\ writeQueue.queue[i].key \in (CommandName \X Nat) \cup {None}
<1>1. writeQueue.flying \in PageWrite \cup {None} /\ writeQueue.queue \in Seq(PageWrite)
  BY DEF PageTyped
<1>2. \A i \in DOMAIN writeQueue.queue : writeQueue.queue[i] \in PageWrite
  BY <1>1
<1> QED
  BY <1>1, <1>2 DEF PageWrite

\* A page asked for will be the newest, and has nothing to show yet.
LEMMA ReloadReads ==
  ASSUME PageTyped, ReadsDiffer, ReloadPage, UNCHANGED page
  PROVE  /\ reloads' \subseteq [read : Nat, answer : ProjectSettingsPage \cup {None}]
         /\ pageSpent' \in [acts : Nat, reads : Nat, faults : Nat]
         /\ outdated' \in BOOLEAN
         /\ ReadsDiffer'
         /\ page'.read # pageSpent'.reads
         /\ \A r \in reloads' : r.read = pageSpent'.reads => r.answer = None
         /\ \A k \in (CommandName \X Nat) : Shown(k) => Shown(k)'
<1>1. PICK new : new = [read |-> pageSpent.reads + 1, answer |-> None]
  OBVIOUS
<1>2. reloads' = reloads \cup {new} /\ outdated' = FALSE
      /\ pageSpent' = [pageSpent EXCEPT !.reads = @ + 1]
  BY <1>1 DEF ReloadPage
<1>3. pageSpent' \in [acts : Nat, reads : Nat, faults : Nat]
      /\ pageSpent'.reads = pageSpent.reads + 1 /\ pageSpent.reads \in Nat
  BY <1>2 DEF PageTyped
<1>4. new \in [read : Nat, answer : ProjectSettingsPage \cup {None}]
      /\ new.read = pageSpent.reads + 1 /\ new.answer = None
  BY <1>1, <1>3
<1>5. page.read \in Nat /\ \A r \in reloads : r.read \in Nat
  BY DEF PageTyped
<1>6. ReadsDiffer' /\ page'.read # pageSpent'.reads
  BY <1>2, <1>3, <1>4, <1>5 DEF ReadsDiffer
<1>7. \A r \in reloads' : r.read = pageSpent'.reads => r.answer = None
  BY <1>2, <1>3, <1>4, <1>5 DEF ReadsDiffer
<1>8. ASSUME NEW k \in (CommandName \X Nat), Shown(k) PROVE Shown(k)'
  BY <1>2, <1>3, <1>4, <1>8 DEF Shown
<1> QED
  BY <1>2, <1>3, <1>4, <1>6, <1>7, <1>8 DEF PageTyped

LEMMA ReloadRows ==
  ASSUME PageTyped, ReadsDiffer, QueueRows, ReloadPage, UNCHANGED <<page, pendingEdits, writeQueue>>
  PROVE  QueueRows'
<1>1. \A k \in (CommandName \X Nat) : Shown(k) => Shown(k)'
  BY ReloadReads
<1>2. \A i \in DOMAIN writeQueue.queue : writeQueue.queue[i].key \in (CommandName \X Nat) \cup {None}
  BY QueueTyped
<1> QED
  BY <1>1, <1>2 DEF QueueRows, EditOf, PageTyped

LEMMA RefreshKeeps == ASSUME PageInv, Refresh PROVE PageInv'
<1>1. ReloadPage /\ UNCHANGED <<project, page, pendingEdits, writeQueue, direct, edited, rejected, stale>>
  BY DEF Refresh
<1>2. PageTyped /\ CallsTyped /\ ReadsDiffer /\ QueueRows /\ PendingCarries /\ LastCarries
  BY DEF PageInv
<1>3. ReadsDiffer' /\ NewestIsCore'
  BY <1>1, <1>2, ReloadReads DEF NewestIsCore
<1>4. PageTyped' /\ CallsTyped'
  BY <1>1, <1>2, ReloadReads DEF PageTyped, CallsTyped
<1>5. QueueRows'
  BY <1>1, <1>2, ReloadRows
<1>6. PendingCarries' /\ LastCarries'
  BY <1>1, <1>2 DEF PendingCarries, LastCarries, Claimed, Carries, RowKey, NoneAfter, Flying, EditOf
<1> QED
  BY <1>3, <1>4, <1>5, <1>6 DEF PageInv


\* solo.yml changes: the page owes nothing for that field any more.
LEMMA EditedOutsideKeeps == ASSUME PageInv, EditedOutside PROVE PageInv'
<1>1. PageTyped /\ CallsTyped /\ ReadsDiffer /\ QueueRows /\ PendingCarries /\ LastCarries
  BY DEF PageInv
<1>2. PICK n \in Roster(project), f \in Field :
        /\ project' = [project EXCEPT !.commands[n].spec[f] = pageSpent.acts + 1]
        /\ edited' = [edited EXCEPT ![n][f] = 0]
  BY DEF EditedOutside
<1>3. /\ pageSpent' = [pageSpent EXCEPT !.acts = @ + 1, !.faults = @ + 1]
      /\ outdated' = TRUE
      /\ UNCHANGED <<page, pendingEdits, writeQueue, direct, reloads, rejected, stale>>
  BY DEF EditedOutside
<1>4. pageSpent' \in [acts : Nat, reads : Nat, faults : Nat] /\ pageSpent'.reads = pageSpent.reads
  <2>1. pageSpent \in [acts : Nat, reads : Nat, faults : Nat]
    BY <1>1 DEF PageTyped
  <2>2. pageSpent.acts + 1 \in Nat /\ pageSpent.faults + 1 \in Nat
    BY <2>1
  <2> QED
    BY <1>3, <2>1, <2>2
<1>5. n \in CommandName /\ project.commands[n] \in ProjectCommandView
  BY <1>1, CommandTyped DEF Roster, PageTyped
<1>6. PICK spec, view :
        /\ spec = [project.commands[n].spec EXCEPT ![f] = pageSpent.acts + 1]
        /\ view = [project.commands[n] EXCEPT !.spec = spec]
  OBVIOUS
<1>7. project' = [project EXCEPT !.commands = [project.commands EXCEPT ![n] = view]]
  BY <1>2, <1>6
<1>8. spec \in ProcessSpec /\ \A g \in Field \ {f} : spec[g] = project.commands[n].spec[g]
  BY <1>1, <1>5, <1>6 DEF ProcessSpec, ProjectCommandView, PageTyped
<1>9. view \in ProjectCommandView /\ view.spec = spec
  BY <1>5, <1>6, <1>8 DEF ProjectCommandView
<1>10. /\ project' \in ProjectSettingsPage
       /\ project'.commands[n] = view
       /\ \A m \in CommandName \ {n} : project'.commands[m] = project.commands[m]
  BY <1>1, <1>5, <1>7, <1>9 DEF ProjectSettingsPage, PageTyped
<1>11. /\ edited' \in [CommandName -> ProcessSpec]
       /\ edited'[n][f] = 0
       /\ \A g \in Field \ {f} : edited'[n][g] = edited[n][g]
       /\ \A m \in CommandName \ {n} : edited'[m] = edited[m]
  BY <1>1, <1>2, <1>5 DEF PageTyped, ProcessSpec
<1>12. PageTyped' /\ CallsTyped'
  BY <1>1, <1>3, <1>4, <1>10, <1>11 DEF PageTyped, CallsTyped
<1>13. ReadsDiffer' /\ NewestIsCore'
  BY <1>1, <1>3, <1>4 DEF ReadsDiffer, NewestIsCore
<1>14. QueueRows'
  BY <1>1, <1>3, <1>4 DEF QueueRows, EditOf, Shown
<1>15. ASSUME NEW m \in CommandName, NEW s, Carries(m, s) PROVE Carries(m, s)'
  BY <1>11, <1>15 DEF Carries
<1>16. PendingCarries'
  BY <1>1, <1>3, <1>15 DEF PendingCarries, Claimed, RowKey
<1>17. LastCarries'
  <2> SUFFICES ASSUME NEW m \in Claimed'
               PROVE  /\ \A i \in DOMAIN writeQueue.queue :
                           EditOf(writeQueue.queue[i], m) /\ NoneAfter(i, m)
                             => Carries(m, writeQueue.queue[i].call.spec)'
                      /\ NoneAfter(0, m) /\ Flying(m) => Carries(m, writeQueue.flying.call.spec)'
                      /\ NoneAfter(0, m) /\ ~Flying(m) /\ project'.commands[m] # None
                           => Carries(m, project.commands[m].spec)'
    BY <1>3 DEF LastCarries, NoneAfter, Flying, EditOf
  <2>1. m \in Claimed /\ m \in CommandName
    BY <1>3 DEF Claimed
  <2>2. /\ \A i \in DOMAIN writeQueue.queue :
             EditOf(writeQueue.queue[i], m) /\ NoneAfter(i, m)
               => Carries(m, writeQueue.queue[i].call.spec)
        /\ NoneAfter(0, m) /\ Flying(m) => Carries(m, writeQueue.flying.call.spec)
        /\ NoneAfter(0, m) /\ ~Flying(m) /\ project.commands[m] # None
             => Carries(m, project.commands[m].spec)
    BY <1>1, <2>1 DEF LastCarries
  <2>3. project.commands[m] # None /\ Carries(m, project.commands[m].spec)
          => Carries(m, project.commands[m].spec)'
    <3>1. CASE m = n
      BY <1>8, <1>9, <1>10, <1>11, <3>1 DEF Carries
    <3>2. CASE m # n
      BY <1>10, <1>11, <2>1, <3>2 DEF Carries
    <3> QED
      BY <3>1, <3>2
  <2>4. project'.commands[m] # None => project.commands[m] # None
    BY <1>5, <1>10, <2>1 DEF Roster
  <2> QED
    BY <1>3, <1>15, <2>1, <2>2, <2>3, <2>4
<1> QED
  BY <1>12, <1>13, <1>14, <1>16, <1>17 DEF PageInv

\* The form's calls.
LEMMA CallDirectlyKeeps == ASSUME PageInv, CallDirectly PROVE PageInv'
<1>1. PageTyped /\ CallsTyped /\ ReadsDiffer /\ NewestIsCore /\ QueueRows /\ PendingCarries /\ LastCarries
  BY DEF PageInv
<1>2. /\ pageSpent' = [pageSpent EXCEPT !.acts = @ + 1]
      /\ UNCHANGED <<project, page, pendingEdits, writeQueue, reloads, edited, rejected, stale, outdated>>
  BY DEF CallDirectly, Acted
<1>3. PICK o \in PageOffers :
        /\ o.op \in {"add", "setIcon"}
        /\ direct' = direct \cup {QueuedWrite(pageSpent.acts + 1,
              [op |-> o.op, name |-> o.on, to |-> None, spec |-> NewSpec, visibility |-> o.to])}
  BY DEF CallDirectly
<1>4. pageSpent' \in [acts : Nat, reads : Nat, faults : Nat] /\ pageSpent'.reads = pageSpent.reads
      /\ pageSpent.acts \in Nat
  BY <1>1, <1>2 DEF PageTyped
<1>5. PICK call : call = [op |-> o.op, name |-> o.on, to |-> None, spec |-> NewSpec, visibility |-> o.to]
  OBVIOUS
<1>6. CallTyped(call) /\ call.op # "edit"
  <2>1. NewSpec \in ProcessSpec
    BY DEF NewSpec, ProcessSpec
  <2>2. CASE o.op = "add"
    <3>1. o.on \in CommandName /\ o.to \in Visibility
      BY <2>2, OffersTyped
    <3> QED
      BY <1>5, <2>1, <2>2, <3>1 DEF CallTyped, WireCall, PageCall
  <2>3. CASE o.op = "setIcon"
    <3>1. o.on \in CommandName \cup {None} /\ o.to = None
      BY <2>3, OffersTyped, IconRaised DEF Roster
    <3> QED
      BY <1>5, <2>1, <2>3, <3>1 DEF CallTyped, WireCall, PageCall
  <2> QED
    BY <1>3, <2>2, <2>3
<1>7. PICK write : write = QueuedWrite(pageSpent.acts + 1, call)
  OBVIOUS
<1>8. /\ write \in [key : Nat, call : WireCall, outcome : WriteOutcome]
      /\ write.call = call /\ write.outcome = None
  BY <1>4, <1>6, <1>7 DEF QueuedWrite, CallTyped, WriteOutcome
<1>9. direct' = direct \cup {write}
  BY <1>3, <1>5, <1>7
<1>10. PageTyped' /\ CallsTyped'
  BY <1>1, <1>2, <1>4, <1>6, <1>8, <1>9 DEF PageTyped, CallsTyped
<1>11. ReadsDiffer' /\ NewestIsCore'
  BY <1>1, <1>2, <1>4, <1>8, <1>9 DEF ReadsDiffer, NewestIsCore, Changing
<1>12. QueueRows'
  BY <1>1, <1>2, <1>4 DEF QueueRows, EditOf, Shown
<1>13. PendingCarries' /\ LastCarries'
  BY <1>1, <1>2 DEF PendingCarries, LastCarries, Claimed, Carries, RowKey, NoneAfter, Flying, EditOf
<1> QED
  BY <1>10, <1>11, <1>12, <1>13 DEF PageInv


\* What a served call leaves of what the page claims: an edit is the write in flight.
LEMMA ServedKeepsClaims ==
  ASSUME PageTyped, QueueRows, PendingCarries, LastCarries,
         NEW call, CallTyped(call), NEW outcome, CallServed(call, outcome),
         UNCHANGED <<page, pendingEdits, stale>>,
         writeQueue'.queue = writeQueue.queue,
         \A n : Flying(n)' => Flying(n) /\ writeQueue'.flying = writeQueue.flying,
         \A n : Flying(n) /\ ~Flying(n)' => call = writeQueue.flying.call,
         \A n : call.op = "edit" /\ call.name = n => Flying(n) /\ ~Flying(n)'
  PROVE  PendingCarries' /\ LastCarries'
<1>1. ASSUME NEW n \in Claimed'
      PROVE  /\ n \in Claimed /\ n \in CommandName
             /\ \/ edited'[n] = NewSpec
                \/ /\ edited'[n] = edited[n]
                   /\ project'.commands[n] # None =>
                        /\ project.commands[n] # None
                        /\ project'.commands[n].spec =
                             IF call.op = "edit" /\ call.name = n THEN call.spec
                             ELSE project.commands[n].spec
  BY ServedClaims DEF Claimed
<1>2. ASSUME NEW n \in Claimed', NEW s, edited'[n] = NewSpec \/ Carries(n, s)
      PROVE  Carries(n, s)'
  BY <1>1, <1>2 DEF Carries, NewSpec
<1>3. PendingCarries'
  <2> SUFFICES ASSUME NEW n \in Claimed', RowKey(n) \in DOMAIN pendingEdits
               PROVE  Carries(n, pendingEdits[RowKey(n)])'
    BY DEF PendingCarries, RowKey
  <2>1. Carries(n, pendingEdits[RowKey(n)])
    BY <1>1 DEF PendingCarries
  <2>2. pendingEdits'[RowKey(n)'] = pendingEdits[RowKey(n)]
    BY DEF RowKey
  <2> QED
    BY <1>1, <2>1, <2>2 DEF Carries, NewSpec
<1>4. ASSUME NEW n \in Claimed'
      PROVE  /\ \A i \in DOMAIN writeQueue.queue :
                  EditOf(writeQueue.queue[i], n) /\ NoneAfter(i, n)
                    => Carries(n, writeQueue.queue[i].call.spec)'
             /\ NoneAfter(0, n) /\ Flying(n)' => Carries(n, writeQueue.flying.call.spec)'
             /\ NoneAfter(0, n) /\ ~Flying(n)' /\ project'.commands[n] # None
                  => Carries(n, project.commands[n].spec)'
  <2>1. /\ \A i \in DOMAIN writeQueue.queue :
             EditOf(writeQueue.queue[i], n) /\ NoneAfter(i, n)
               => Carries(n, writeQueue.queue[i].call.spec)
        /\ NoneAfter(0, n) /\ Flying(n) => Carries(n, writeQueue.flying.call.spec)
        /\ NoneAfter(0, n) /\ ~Flying(n) /\ project.commands[n] # None
             => Carries(n, project.commands[n].spec)
    BY <1>1 DEF LastCarries
  <2>2. CASE edited'[n] = NewSpec
    BY <1>2, <2>2
  <2>3. CASE edited'[n] = edited[n] /\ edited'[n] # NewSpec
    <3>1. \A s : Carries(n, s) => Carries(n, s)'
      BY <1>2
    <3>2. \A i \in DOMAIN writeQueue.queue :
            EditOf(writeQueue.queue[i], n) /\ NoneAfter(i, n)
              => Carries(n, writeQueue.queue[i].call.spec)'
      BY <2>1, <2>3 DEF Carries
    <3>3. NoneAfter(0, n) /\ Flying(n)' => Carries(n, writeQueue.flying.call.spec)'
      BY <1>1, <2>1, <2>3 DEF Carries
    <3>4. ASSUME NoneAfter(0, n), ~Flying(n)', project'.commands[n] # None
          PROVE  Carries(n, project.commands[n].spec)'
      <4>1. CASE call.op = "edit" /\ call.name = n
        <5>1. call = writeQueue.flying.call /\ Flying(n)
          BY <1>1, <3>4, <4>1
        <5>2. Carries(n, call.spec) /\ project'.commands[n].spec = call.spec
          BY <1>1, <2>1, <2>3, <3>4, <4>1, <5>1
        <5> QED
          BY <2>3, <5>2 DEF Carries
      <4>2. CASE ~(call.op = "edit" /\ call.name = n)
        <5>1. ~Flying(n)
          BY <1>1, <3>4, <4>2 DEF Flying, EditOf
        <5>2. Carries(n, project.commands[n].spec) /\ project'.commands[n].spec = project.commands[n].spec
          BY <1>1, <2>1, <2>3, <3>4, <4>2, <5>1
        <5> QED
          BY <2>3, <5>2 DEF Carries
      <4> QED
        BY <4>1, <4>2
    <3> QED
      BY <3>2, <3>3, <3>4
  <2> QED
    BY <1>1, <2>2, <2>3
<1>5. \A i, n : NoneAfter(i, n)' <=> NoneAfter(i, n)
  BY DEF NoneAfter, EditOf
<1>6. LastCarries'
  BY <1>4, <1>5 DEF LastCarries, EditOf
<1> QED
  BY <1>3, <1>6

\* Served, the page's own write or call is still under way, so the page will be read again.
LEMMA CoreServesWriteKeeps == ASSUME PageInv, CoreServesWrite PROVE PageInv'
<1>1. PageTyped /\ CallsTyped /\ ReadsDiffer /\ QueueRows /\ PendingCarries /\ LastCarries
  BY DEF PageInv
<1>2. /\ writeQueue.flying # None /\ writeQueue.flying.outcome = None
      /\ UNCHANGED <<page, pendingEdits, direct, reloads, stale, outdated>>
  BY DEF CoreServesWrite
<1>3. PICK outcome \in {"ok", "failed"} :
        /\ CallServed(writeQueue.flying.call, outcome)
        /\ writeQueue' = [writeQueue EXCEPT !.flying.outcome = outcome]
  BY DEF CoreServesWrite
<1>4. PICK write : write = [writeQueue.flying EXCEPT !.outcome = outcome]
  OBVIOUS
<1>5. write \in PageWrite /\ write.call = writeQueue.flying.call /\ write.outcome = outcome
  BY <1>1, <1>2, <1>3, <1>4, QueueTyped DEF PageWrite, WriteOutcome
<1>6. write # None /\ outcome # None
  BY <1>3, <1>5, PageAssumption
<1>7. writeQueue' = [writeQueue EXCEPT !.flying = write]
  BY <1>3, <1>4
<1>8. /\ writeQueue' \in [flying : PageWrite \cup {None}, queue : Seq(PageWrite)]
      /\ writeQueue'.flying = write /\ writeQueue'.queue = writeQueue.queue
  BY <1>1, <1>5, <1>7 DEF PageTyped
<1>9. CallTyped(writeQueue.flying.call)
  BY <1>1, <1>2 DEF CallsTyped
<1>10. PageTyped' /\ CallsTyped'
  BY <1>1, <1>2, <1>3, <1>5, <1>8, <1>9, ServedClaims DEF PageTyped, CallsTyped
<1>11. pageSpent'.reads = pageSpent.reads
  BY <1>1, <1>3, <1>9, ServedClaims
<1>12. ReadsDiffer' /\ NewestIsCore'
  BY <1>1, <1>2, <1>6, <1>8, <1>11 DEF ReadsDiffer, NewestIsCore, Changing
<1>13. QueueRows'
  BY <1>1, <1>2, <1>6, <1>8, <1>11 DEF QueueRows, EditOf, Shown
<1>14. PendingCarries' /\ LastCarries'
  <2>1. \A n : ~Flying(n)'
    BY <1>5, <1>6, <1>8 DEF Flying
  <2>2. \A n : writeQueue.flying.call.op = "edit" /\ writeQueue.flying.call.name = n => Flying(n)
    BY <1>2 DEF Flying, EditOf
  <2> QED
    BY <1>1, <1>2, <1>3, <1>8, <1>9, <2>1, <2>2, ServedKeepsClaims
<1> QED
  BY <1>10, <1>12, <1>13, <1>14 DEF PageInv

LEMMA CoreServesCallKeeps == ASSUME PageInv, CoreServesCall PROVE PageInv'
<1>1. PageTyped /\ CallsTyped /\ ReadsDiffer /\ NewestIsCore /\ QueueRows /\ PendingCarries /\ LastCarries
  BY DEF PageInv
<1>2. PICK c \in direct, outcome \in {"ok", "failed"} :
        /\ c.outcome = None
        /\ CallServed(c.call, outcome)
        /\ direct' = (direct \ {c}) \cup {[c EXCEPT !.outcome = outcome]}
  BY DEF CoreServesCall
<1>3. UNCHANGED <<page, pendingEdits, writeQueue, reloads, stale, outdated>>
  BY DEF CoreServesCall
<1>4. CallTyped(c.call) /\ c.call.op # "edit"
  BY <1>1 DEF CallsTyped
<1>5. PICK d : d = [c EXCEPT !.outcome = outcome]
  OBVIOUS
<1>6. d \in [key : Nat, call : WireCall, outcome : WriteOutcome] /\ d.call = c.call /\ d.outcome = outcome
  BY <1>1, <1>5 DEF PageTyped, WriteOutcome
<1>7. direct' = (direct \ {c}) \cup {d}
  BY <1>2, <1>5
<1>8. /\ pageSpent'.reads = pageSpent.reads
      /\ outcome = "failed" => project' = project
  BY <1>1, <1>2, <1>4, ServedClaims
<1>9. PageTyped' /\ CallsTyped'
  BY <1>1, <1>2, <1>3, <1>4, <1>6, <1>7, ServedClaims DEF PageTyped, CallsTyped
<1>10. ReadsDiffer'
  BY <1>1, <1>3, <1>8 DEF ReadsDiffer
<1>11. NewestIsCore'
  <2>1. CASE outcome = "ok"
    BY <1>6, <1>7, <2>1 DEF NewestIsCore, Changing
  <2>2. CASE outcome = "failed"
    <3>1. c.outcome # "ok"
      BY <1>2, PageAssumption
    <3>2. Changing => Changing'
      BY <1>3, <1>7, <3>1 DEF Changing
    <3> QED
      BY <1>1, <1>3, <1>8, <2>2, <3>2 DEF NewestIsCore
  <2> QED
    BY <2>1, <2>2
<1>12. QueueRows'
  BY <1>1, <1>3, <1>8 DEF QueueRows, EditOf, Shown
<1>13. PendingCarries' /\ LastCarries'
  <2>1. \A n : Flying(n)' <=> Flying(n)
    BY <1>3 DEF Flying, EditOf
  <2> QED
    BY <1>1, <1>2, <1>3, <1>4, <2>1, ServedKeepsClaims
<1> QED
  BY <1>9, <1>10, <1>11, <1>12, <1>13 DEF PageInv


\* A call that has settled: done, the page is asked for again.
LEMMA CallSettlesKeeps == ASSUME PageInv, CallSettles PROVE PageInv'
<1>1. PageTyped /\ CallsTyped /\ ReadsDiffer /\ NewestIsCore /\ QueueRows /\ PendingCarries /\ LastCarries
  BY DEF PageInv
<1>2. PICK c \in direct :
        /\ c.outcome # None
        /\ direct' = direct \ {c}
        /\ IF c.outcome = "ok" THEN ReloadPage ELSE UNCHANGED <<reloads, outdated, pageSpent>>
  BY DEF CallSettles
<1>3. UNCHANGED <<project, page, pendingEdits, writeQueue, edited, rejected, stale>>
  BY DEF CallSettles
<1>4. PendingCarries' /\ LastCarries'
  BY <1>1, <1>3 DEF PendingCarries, LastCarries, Claimed, Carries, RowKey, NoneAfter, Flying, EditOf
<1>5. direct' \subseteq direct
  BY <1>2
<1>6. CASE c.outcome = "ok"
  <2>1. ReloadPage /\ UNCHANGED page
    BY <1>2, <1>3, <1>6
  <2>2. PageTyped' /\ CallsTyped'
    BY <1>1, <1>3, <1>5, <2>1, ReloadReads DEF PageTyped, CallsTyped
  <2>3. ReadsDiffer' /\ NewestIsCore'
    BY <1>1, <2>1, ReloadReads DEF NewestIsCore
  <2>4. QueueRows'
    BY <1>1, <1>3, <2>1, ReloadRows
  <2> QED
    BY <1>4, <2>2, <2>3, <2>4 DEF PageInv
<1>7. CASE c.outcome # "ok"
  <2>1. UNCHANGED <<reloads, outdated, pageSpent>>
    BY <1>2, <1>7
  <2>2. PageTyped' /\ CallsTyped'
    BY <1>1, <1>3, <1>5, <2>1 DEF PageTyped, CallsTyped
  <2>3. Changing => Changing'
    BY <1>2, <1>3, <1>7 DEF Changing
  <2>4. ReadsDiffer' /\ NewestIsCore'
    BY <1>1, <1>3, <2>1, <2>3 DEF ReadsDiffer, NewestIsCore
  <2>5. QueueRows'
    BY <1>1, <1>3, <2>1 DEF QueueRows, EditOf, Shown
  <2> QED
    BY <1>4, <2>2, <2>4, <2>5 DEF PageInv
<1> QED
  BY <1>6, <1>7

\* The write in flight has settled, and its edit no longer pends: the next one flies, or the
\* page is asked for.
LEMMA WriteSettlesKeeps == ASSUME PageInv, WriteSettles PROVE PageInv'
<1>1. PageTyped /\ CallsTyped /\ ReadsDiffer /\ QueueRows /\ PendingCarries /\ LastCarries
  BY DEF PageInv
<1>2. /\ writeQueue.flying # None /\ writeQueue.flying.outcome # None
      /\ pendingEdits' = PendingAfter(writeQueue.flying)
      /\ UNCHANGED <<project, page, direct, edited, rejected, stale>>
  BY DEF WriteSettles
<1>3. /\ DOMAIN pendingEdits' \subseteq DOMAIN pendingEdits
      /\ \A k \in DOMAIN pendingEdits' : pendingEdits'[k] = pendingEdits[k]
  BY <1>2 DEF PendingAfter
<1>4. PendingCarries'
  BY <1>1, <1>2, <1>3 DEF PendingCarries, Claimed, Carries, RowKey
<1>5. \A n : ~Flying(n)
  BY <1>2 DEF Flying
<1>6. CASE writeQueue.queue = <<>>
  <2>1. writeQueue' = [writeQueue EXCEPT !.flying = None] /\ ReloadPage /\ UNCHANGED page
    BY <1>6 DEF WriteSettles
  <2>2. /\ writeQueue' \in [flying : PageWrite \cup {None}, queue : Seq(PageWrite)]
        /\ writeQueue'.flying = None /\ writeQueue'.queue = <<>>
    BY <1>1, <1>6, <2>1 DEF PageTyped
  <2>3. PageTyped' /\ CallsTyped'
    BY <1>1, <1>2, <1>3, <2>1, <2>2, ReloadReads DEF PageTyped, CallsTyped
  <2>4. ReadsDiffer' /\ NewestIsCore'
    BY <1>1, <2>1, ReloadReads DEF NewestIsCore
  <2>5. QueueRows'
    <3>1. \A k \in (CommandName \X Nat) : Shown(k) => Shown(k)'
      BY <1>1, <2>1, ReloadReads
    <3> QED
      BY <1>1, <1>3, <2>2, <3>1 DEF QueueRows, PageTyped
  <2>6. LastCarries'
    <3>1. \A n : NoneAfter(0, n) /\ ~Flying(n)'
      BY <1>6, <2>2 DEF NoneAfter, Flying
    <3> QED
      BY <1>1, <1>2, <1>5, <2>2, <3>1 DEF LastCarries, Claimed, Carries
  <2> QED
    BY <1>4, <2>3, <2>4, <2>5, <2>6 DEF PageInv
<1>7. CASE writeQueue.queue # <<>>
  <2>1. /\ writeQueue' = [flying |-> Head(writeQueue.queue), queue |-> Tail(writeQueue.queue)]
        /\ UNCHANGED <<reloads, outdated, pageSpent>>
    BY <1>7 DEF WriteSettles
  <2>2. PICK q : q = writeQueue.queue
    OBVIOUS
  <2>3. q \in Seq(PageWrite) /\ q # <<>>
    BY <1>1, <1>7, <2>2, QueueTyped
  <2>4. /\ writeQueue'.flying = q[1] /\ writeQueue'.queue = Tail(q) /\ 1 \in DOMAIN q
        /\ \A i \in DOMAIN Tail(q) : i + 1 \in DOMAIN q /\ Tail(q)[i] = q[i + 1] /\ i \in Nat
        /\ \A i \in DOMAIN q : i \in Nat /\ i > 0 /\ (i > 1 => i - 1 \in DOMAIN Tail(q))
        /\ Tail(q) \in Seq(PageWrite)
    BY <2>1, <2>2, <2>3
  <2>5. q[1] \in PageWrite /\ q[1] # None /\ q[1].outcome = None
    BY <1>1, <2>2, <2>3, <2>4, PageAssumption DEF QueueRows
  <2>6. PageTyped'
    BY <1>1, <1>2, <1>3, <2>1, <2>2, <2>4, <2>5 DEF PageTyped
  <2>7. CallsTyped'
    BY <1>1, <1>2, <2>2, <2>4 DEF CallsTyped
  <2>8. ReadsDiffer' /\ NewestIsCore'
    BY <1>1, <1>2, <2>1, <2>4, <2>5 DEF ReadsDiffer, NewestIsCore, Changing
  <2>9. QueueRows'
    <3>1. \A k : Shown(k)' <=> Shown(k)
      BY <2>1 DEF Shown
    <3>2. \A i \in DOMAIN Tail(q) :
            LET w == Tail(q)[i] IN
            /\ w.outcome = None
            /\ w.key # None => EditOf(w, w.key[1]) /\ Shown(w.key)
      BY <1>1, <2>2, <2>4 DEF QueueRows
    <3>3. \A i, j \in DOMAIN Tail(q) :
            LET w == Tail(q)[i] IN
            i < j /\ w.key # None /\ w.key[2] = page.read => ~EditOf(Tail(q)[j], w.key[1])
      <4> SUFFICES ASSUME NEW i \in DOMAIN Tail(q), NEW j \in DOMAIN Tail(q), i < j,
                          Tail(q)[i].key # None, Tail(q)[i].key[2] = page.read
                   PROVE  ~EditOf(Tail(q)[j], Tail(q)[i].key[1])
        OBVIOUS
      <4>1. i + 1 \in DOMAIN q /\ j + 1 \in DOMAIN q /\ i + 1 < j + 1
            /\ Tail(q)[i] = q[i + 1] /\ Tail(q)[j] = q[j + 1]
        BY <2>4
      <4>2. \A a, b \in DOMAIN q :
              a < b /\ q[a].key # None /\ q[a].key[2] = page.read => ~EditOf(q[b], q[a].key[1])
        BY <1>1, <2>2 DEF QueueRows
      <4> QED
        BY <4>1, <4>2
    <3>4. \A k \in DOMAIN pendingEdits' : Shown(k)'
      BY <1>1, <1>3, <3>1 DEF QueueRows
    <3>5. writeQueue'.flying # None /\ page' = page
      BY <1>2, <2>4, <2>5
    <3> QED
      BY <2>4, <3>1, <3>2, <3>3, <3>4, <3>5 DEF QueueRows, EditOf
  <2>10. LastCarries'
    <3> SUFFICES ASSUME NEW n \in Claimed
                 PROVE  /\ \A i \in DOMAIN Tail(q) :
                             EditOf(Tail(q)[i], n) /\ NoneAfter(i, n)' => Carries(n, Tail(q)[i].call.spec)
                        /\ NoneAfter(0, n)' /\ EditOf(q[1], n) => Carries(n, q[1].call.spec)
                        /\ NoneAfter(0, n)' /\ ~EditOf(q[1], n) /\ project.commands[n] # None
                             => Carries(n, project.commands[n].spec)
      BY <1>2, <2>4, <2>5 DEF LastCarries, Claimed, Carries, Flying, EditOf
    <3>1. /\ \A i \in DOMAIN q : EditOf(q[i], n) /\ NoneAfter(i, n) => Carries(n, q[i].call.spec)
          /\ NoneAfter(0, n) /\ project.commands[n] # None => Carries(n, project.commands[n].spec)
      BY <1>1, <1>5, <2>2 DEF LastCarries
    <3>2. ASSUME NEW i \in Nat, NoneAfter(i, n)' PROVE NoneAfter(i + 1, n)
      <4> SUFFICES ASSUME NEW j \in DOMAIN q, j > i + 1 PROVE ~EditOf(q[j], n)
        BY <2>2 DEF NoneAfter
      <4>1. j - 1 \in DOMAIN Tail(q) /\ j - 1 > i /\ Tail(q)[j - 1] = q[j]
        BY <2>4
      <4> QED
        <5>1. \A x \in DOMAIN Tail(q) : x > i => ~EditOf(Tail(q)[x], n)
          BY <2>4, <3>2 DEF NoneAfter, EditOf
        <5> QED
          BY <4>1, <5>1
    <3>3. ASSUME NEW i \in DOMAIN Tail(q), EditOf(Tail(q)[i], n), NoneAfter(i, n)'
          PROVE  Carries(n, Tail(q)[i].call.spec)
      BY <2>4, <3>1, <3>2, <3>3
    <3>4. ASSUME NoneAfter(0, n)' PROVE NoneAfter(1, n)
      BY <3>2, <3>4
    <3>5. NoneAfter(1, n) /\ ~EditOf(q[1], n) => NoneAfter(0, n)
      BY <2>2, <2>4 DEF NoneAfter
    <3> QED
      BY <2>4, <3>1, <3>3, <3>4, <3>5
  <2> QED
    BY <1>4, <2>6, <2>7, <2>8, <2>9, <2>10 DEF PageInv
<1> QED
  BY <1>6, <1>7


\* A write of the queue is typed.
LEMMA CallOfTyped ==
  ASSUME PageTyped, NEW o \in PageOffers, o.op \in PageCall \ {"add", "setIcon"},
         NEW spec \in ProcessSpec \cup {None}, o.op = "edit" => spec \in ProcessSpec,
         NEW to, to = o.to \/ (to = None /\ o.op # "rename")
  PROVE  /\ CallTyped(CallOf(o.op, o.on, to, spec))
         /\ CallOf(o.op, o.on, to, spec).op = o.op
         /\ CallOf(o.op, o.on, to, spec).name = o.on
         /\ CallOf(o.op, o.on, to, spec).spec = spec
<1>1. page.view \in ProjectSettingsPage
  BY OffersTyped DEF PageTyped
<1>2. /\ o.on \in Roster(page.view) \cup {None} /\ to \in CommandName \cup {None}
      /\ o.op \in {"edit", "rename", "toggleStorage", "remove"} => o.on \in CommandName
      /\ o.op = "rename" => to \in CommandName
  BY OffersTyped DEF Roster
<1>3. PICK v : v = IF o.on = None THEN None ELSE page.view.commands[o.on].visibility
  OBVIOUS
<1>4. v \in Visibility \cup {None}
  <2>1. CASE o.on = None
    BY <1>3, <2>1
  <2>2. CASE o.on # None
    <3>1. o.on \in CommandName /\ page.view.commands[o.on] # None
      BY <1>2, <2>2 DEF Roster
    <3>2. page.view.commands[o.on] \in ProjectCommandView
      BY <1>1, <3>1, CommandTyped
    <3> QED
      BY <1>3, <2>2, <3>2 DEF ProjectCommandView
  <2> QED
    BY <2>1, <2>2
<1>5. CallOf(o.op, o.on, to, spec) =
        [op |-> o.op, name |-> o.on, to |-> to, spec |-> spec, visibility |-> v]
  BY <1>3 DEF CallOf
<1>6. o.on \in CommandName \cup {None}
  BY <1>2 DEF Roster
<1> QED
  BY <1>2, <1>4, <1>5, <1>6 DEF CallTyped, WireCall, PageCall


\* A write starts, takes the place of the waiting writes of its row, or waits behind them all.
LEMMA MutatedQueue ==
  ASSUME PageTyped, QueueRows, NEW write \in PageWrite, writeQueue' = Mutated(write)
  PROVE  /\ writeQueue' \in [flying : PageWrite \cup {None}, queue : Seq(PageWrite)]
         /\ writeQueue'.flying # None
         /\ \/ /\ writeQueue.flying = None /\ writeQueue'.flying = write
               /\ writeQueue.queue = <<>> /\ writeQueue'.queue = <<>>
            \/ /\ writeQueue.flying # None /\ writeQueue'.flying = writeQueue.flying
               /\ write.key # None /\ \E i \in DOMAIN writeQueue.queue : writeQueue.queue[i].key = write.key
               /\ DOMAIN writeQueue'.queue = DOMAIN writeQueue.queue
               /\ \A i \in DOMAIN writeQueue.queue :
                    writeQueue'.queue[i] = IF writeQueue.queue[i].key = write.key THEN write
                                           ELSE writeQueue.queue[i]
            \/ /\ writeQueue.flying # None /\ writeQueue'.flying = writeQueue.flying
               /\ write.key = None \/ \A i \in DOMAIN writeQueue.queue : writeQueue.queue[i].key # write.key
               /\ writeQueue'.queue = Append(writeQueue.queue, write)
<1>1. writeQueue \in [flying : PageWrite \cup {None}, queue : Seq(PageWrite)] /\ write # None
  BY PageAssumption DEF PageTyped
<1>2. CASE writeQueue.flying = None
  <2>1. writeQueue' = [writeQueue EXCEPT !.flying = write]
    BY <1>2 DEF Mutated
  <2> QED
    BY <1>1, <1>2, <2>1 DEF QueueRows
<1>3. CASE writeQueue.flying # None
  <2>1. PICK same : same = {i \in DOMAIN writeQueue.queue :
                              write.key # None /\ writeQueue.queue[i].key = write.key}
    OBVIOUS
  <2>2. CASE same # {}
    <3>1. PICK q : q = [i \in DOMAIN writeQueue.queue |->
                          IF i \in same THEN write ELSE writeQueue.queue[i]]
      OBVIOUS
    <3>2. writeQueue' = [writeQueue EXCEPT !.queue = q]
      BY <1>3, <2>1, <2>2, <3>1 DEF Mutated
    <3>3. q \in Seq(PageWrite)
      BY <1>1, <3>1
    <3>4. /\ writeQueue'.queue = q /\ writeQueue'.flying = writeQueue.flying
          /\ writeQueue' \in [flying : PageWrite \cup {None}, queue : Seq(PageWrite)]
      BY <1>1, <3>2, <3>3
    <3>5. write.key # None /\ \E i \in DOMAIN writeQueue.queue : writeQueue.queue[i].key = write.key
      BY <2>1, <2>2
    <3>6. /\ DOMAIN q = DOMAIN writeQueue.queue
          /\ \A i \in DOMAIN writeQueue.queue :
               q[i] = IF writeQueue.queue[i].key = write.key THEN write ELSE writeQueue.queue[i]
      BY <2>1, <3>1, <3>5
    <3> QED
      BY <1>3, <3>4, <3>5, <3>6
  <2>3. CASE same = {}
    <3>1. writeQueue' = [writeQueue EXCEPT !.queue = Append(writeQueue.queue, write)]
      BY <1>3, <2>1, <2>3 DEF Mutated
    <3>2. Append(writeQueue.queue, write) \in Seq(PageWrite)
      BY <1>1
    <3>3. /\ writeQueue'.queue = Append(writeQueue.queue, write)
          /\ writeQueue'.flying = writeQueue.flying
          /\ writeQueue' \in [flying : PageWrite \cup {None}, queue : Seq(PageWrite)]
      BY <1>1, <3>1, <3>2
    <3>4. write.key = None \/ \A i \in DOMAIN writeQueue.queue : writeQueue.queue[i].key # write.key
      BY <2>1, <2>3
    <3> QED
      BY <1>3, <3>3, <3>4
  <2> QED
    BY <2>2, <2>3
<1> QED
  BY <1>2, <1>3

LEMMA AppendedAt ==
  ASSUME NEW S, NEW q \in Seq(S), NEW w \in S
  PROVE  /\ DOMAIN Append(q, w) = DOMAIN q \cup {Len(q) + 1}
         /\ Append(q, w)[Len(q) + 1] = w
         /\ \A i \in DOMAIN q : Append(q, w)[i] = q[i] /\ i \in Nat /\ i < Len(q) + 1
         /\ Len(q) + 1 \in Nat \ {0}
OBVIOUS

\* A write that is no edit concerns none.
LEMMA MutateKeeps == ASSUME PageInv, Mutate PROVE PageInv'
<1>1. PageTyped /\ CallsTyped /\ ReadsDiffer /\ QueueRows /\ PendingCarries /\ LastCarries
  BY DEF PageInv
<1>2. /\ pageSpent' = [pageSpent EXCEPT !.acts = @ + 1]
      /\ UNCHANGED <<project, page, pendingEdits, direct, reloads, edited, rejected, stale, outdated>>
  BY DEF Mutate, Acted
<1>3. PICK o \in PageOffers :
        /\ o.op \in PageCall \ {"edit", "add", "setIcon"}
        /\ writeQueue' = Mutated(QueuedWrite(None, CallOf(o.op, o.on, o.to, None)))
  BY DEF Mutate
<1>4. pageSpent' \in [acts : Nat, reads : Nat, faults : Nat] /\ pageSpent'.reads = pageSpent.reads
  BY <1>1, <1>2 DEF PageTyped
<1>5. PICK call : call = CallOf(o.op, o.on, o.to, None)
  OBVIOUS
<1>6. CallTyped(call) /\ call.op # "edit"
  BY <1>1, <1>3, <1>5, CallOfTyped
<1>7. PICK write : write = QueuedWrite(None, call)
  OBVIOUS
<1>8. write \in PageWrite /\ write.call = call /\ write.outcome = None /\ write.key = None
  BY <1>6, <1>7 DEF QueuedWrite, PageWrite, CallTyped, WriteOutcome
<1>9. writeQueue' = Mutated(write)
  BY <1>3, <1>5, <1>7
<1>10. \A n : ~EditOf(write, n)
  BY <1>6, <1>8 DEF EditOf
<1>11. /\ writeQueue' \in [flying : PageWrite \cup {None}, queue : Seq(PageWrite)]
       /\ writeQueue'.flying # None
       /\ \/ /\ writeQueue.flying = None /\ writeQueue'.flying = write
             /\ writeQueue.queue = <<>> /\ writeQueue'.queue = <<>>
          \/ /\ writeQueue.flying # None /\ writeQueue'.flying = writeQueue.flying
             /\ writeQueue'.queue = Append(writeQueue.queue, write)
  BY <1>1, <1>8, <1>9, MutatedQueue
<1>12. PageTyped'
  BY <1>1, <1>2, <1>4, <1>11 DEF PageTyped
<1>13. writeQueue.queue \in Seq(PageWrite)
  BY <1>1, QueueTyped
<1>14. PICK last : last = Len(writeQueue.queue) + 1
  OBVIOUS
<1>15. \/ /\ writeQueue.flying = None /\ writeQueue'.flying = write
          /\ writeQueue.queue = <<>> /\ writeQueue'.queue = <<>>
       \/ /\ writeQueue.flying # None /\ writeQueue'.flying = writeQueue.flying
          /\ DOMAIN writeQueue'.queue = DOMAIN writeQueue.queue \cup {last}
          /\ writeQueue'.queue[last] = write /\ last \in Nat \ {0}
          /\ \A i \in DOMAIN writeQueue.queue :
               writeQueue'.queue[i] = writeQueue.queue[i] /\ i \in Nat /\ i < last
  BY <1>8, <1>11, <1>13, <1>14, AppendedAt
<1>16. CallsTyped'
  BY <1>1, <1>2, <1>6, <1>8, <1>15 DEF CallsTyped
<1>17. ReadsDiffer' /\ NewestIsCore'
  BY <1>1, <1>2, <1>4, <1>11 DEF ReadsDiffer, NewestIsCore, Changing
<1>18. QueueRows'
  <2>1. \A k : Shown(k)' <=> Shown(k)
    BY <1>2, <1>4 DEF Shown
  <2>2. ASSUME NEW i \in DOMAIN writeQueue'.queue, writeQueue'.queue[i].key # None
        PROVE  i \in DOMAIN writeQueue.queue /\ writeQueue'.queue[i] = writeQueue.queue[i]
    BY <1>8, <1>15, <2>2
  <2>3. \A i \in DOMAIN writeQueue'.queue : writeQueue'.queue[i].outcome = None
    BY <1>1, <1>8, <1>15 DEF QueueRows
  <2>4. \A i \in DOMAIN writeQueue'.queue :
          LET w == writeQueue'.queue[i] IN
          w.key # None => EditOf(w, w.key[1]) /\ Shown(w.key)
    BY <1>1, <2>2 DEF QueueRows
  <2>5. \A i, j \in DOMAIN writeQueue'.queue :
          LET w == writeQueue'.queue[i] IN
          i < j /\ w.key # None /\ w.key[2] = page.read => ~EditOf(writeQueue'.queue[j], w.key[1])
    <3> SUFFICES ASSUME NEW i \in DOMAIN writeQueue'.queue, NEW j \in DOMAIN writeQueue'.queue, i < j,
                        writeQueue'.queue[i].key # None, writeQueue'.queue[i].key[2] = page.read
                 PROVE  ~EditOf(writeQueue'.queue[j], writeQueue'.queue[i].key[1])
      OBVIOUS
    <3>1. i \in DOMAIN writeQueue.queue /\ writeQueue'.queue[i] = writeQueue.queue[i]
      BY <2>2
    <3>2. CASE j \in DOMAIN writeQueue.queue /\ writeQueue'.queue[j] = writeQueue.queue[j]
      BY <1>1, <3>1, <3>2 DEF QueueRows
    <3>3. CASE writeQueue'.queue[j] = write
      BY <1>10, <3>3
    <3> QED
      BY <1>15, <3>2, <3>3
  <2>6. \A k \in DOMAIN pendingEdits : Shown(k)
    BY <1>1 DEF QueueRows
  <2> QED
    BY <1>2, <1>11, <2>1, <2>3, <2>4, <2>5, <2>6 DEF QueueRows, EditOf
<1>19. PendingCarries'
  BY <1>1, <1>2 DEF PendingCarries, Claimed, Carries, RowKey
<1>20. LastCarries'
  <2>1. \A n : Flying(n)' <=> Flying(n)
    BY <1>10, <1>15 DEF Flying, EditOf
  <2>2. \A n : \A i \in DOMAIN writeQueue.queue \cup {0} : NoneAfter(i, n)' => NoneAfter(i, n)
    BY <1>15 DEF NoneAfter, EditOf
  <2>3. ASSUME NEW n \in Claimed', NEW i \in DOMAIN writeQueue'.queue, EditOf(writeQueue'.queue[i], n)
        PROVE  i \in DOMAIN writeQueue.queue /\ writeQueue'.queue[i] = writeQueue.queue[i]
    BY <1>10, <1>15, <2>3
  <2>4. \A n, s : Carries(n, s)' <=> Carries(n, s)
    BY <1>2 DEF Carries
  <2> SUFFICES ASSUME NEW n \in Claimed'
               PROVE  /\ \A i \in DOMAIN writeQueue'.queue :
                           EditOf(writeQueue'.queue[i], n) /\ NoneAfter(i, n)'
                             => Carries(n, writeQueue'.queue[i].call.spec)
                      /\ NoneAfter(0, n)' /\ Flying(n)' => Carries(n, writeQueue'.flying.call.spec)
                      /\ NoneAfter(0, n)' /\ ~Flying(n)' /\ project'.commands[n] # None
                           => Carries(n, project'.commands[n].spec)
    BY <2>4, ZenonT(40) DEF LastCarries, EditOf, Carries
  <2>5. n \in Claimed
    BY <1>2 DEF Claimed
  <2>6. Flying(n) => writeQueue'.flying = writeQueue.flying
    BY <1>15 DEF Flying
  <2> QED
    BY <1>1, <1>2, <2>1, <2>2, <2>3, <2>5, <2>6 DEF LastCarries
<1> QED
  BY <1>12, <1>16, <1>17, <1>18, <1>19, <1>20 DEF PageInv


\* An edit pends and goes out with every other edit of its command, if the page shows or
\* pends them; and no edit of that command is served after it.
LEMMA EditCommandKeeps == ASSUME PageInv, EditCommand PROVE PageInv'
<1>1. PageTyped /\ CallsTyped /\ ReadsDiffer /\ QueueRows /\ PendingCarries /\ LastCarries
  BY DEF PageInv
<1>2. /\ pageSpent' = [pageSpent EXCEPT !.acts = @ + 1]
      /\ UNCHANGED <<project, page, direct, reloads, rejected, outdated>>
  BY DEF EditCommand, Acted
<1>3. PICK o \in PageOffers :
        /\ o.op = "edit"
        /\ LET stamp == pageSpent.acts + 1
               spec == [Base(o.on) EXCEPT ![o.field] = stamp]
           IN /\ pendingEdits' = PendingWith(RowKey(o.on), spec)
              /\ writeQueue' = Mutated(QueuedWrite(RowKey(o.on), CallOf("edit", o.on, None, spec)))
              /\ edited' = [edited EXCEPT ![o.on][o.field] = stamp]
              /\ stale' = IF Lacks(o.on) THEN stale \cup {o.on} ELSE stale
  BY DEF EditCommand
<1>4. PICK n, f, stamp, row : n = o.on /\ f = o.field /\ stamp = pageSpent.acts + 1 /\ row = RowKey(n)
  OBVIOUS
<1>5. PICK spec : spec = [Base(n) EXCEPT ![f] = stamp]
  OBVIOUS
<1>6. PICK call, write : call = CallOf("edit", n, None, spec) /\ write = QueuedWrite(row, call)
  OBVIOUS
<1>7. /\ pendingEdits' = PendingWith(row, spec)
      /\ writeQueue' = Mutated(write)
      /\ edited' = [edited EXCEPT ![n][f] = stamp]
      /\ stale' = IF Lacks(n) THEN stale \cup {n} ELSE stale
  BY <1>3, <1>4, <1>5, <1>6
<1>8. pageSpent' \in [acts : Nat, reads : Nat, faults : Nat] /\ pageSpent'.reads = pageSpent.reads
      /\ stamp \in Nat
  BY <1>1, <1>2, <1>4 DEF PageTyped
<1>9. n \in CommandName /\ f \in Field /\ page.view.commands[n] # None
      /\ page.view \in ProjectSettingsPage /\ page.read \in Nat
  BY <1>1, <1>3, <1>4, OffersTyped DEF Roster, PageTyped
<1>10. row = <<n, page.read>> /\ row \in CommandName \X Nat
  BY <1>4, <1>9 DEF RowKey
<1>11. Base(n) \in ProcessSpec
  <2>1. page.view.commands[n].spec \in ProcessSpec
    BY <1>9, CommandTyped DEF ProjectCommandView
  <2> QED
    BY <1>1, <2>1 DEF Base, PageTyped
<1>12. /\ spec \in ProcessSpec /\ spec[f] = stamp
       /\ \A g \in Field \ {f} : spec[g] = Base(n)[g]
  BY <1>5, <1>8, <1>9, <1>11 DEF ProcessSpec
<1>13. CallTyped(call) /\ call.op = "edit" /\ call.name = n /\ call.spec = spec
  BY <1>1, <1>3, <1>4, <1>6, <1>12, CallOfTyped DEF PageCall
<1>14. write \in PageWrite /\ write.call = call /\ write.outcome = None /\ write.key = row
       /\ \A m : EditOf(write, m) <=> m = n
  BY <1>6, <1>10, <1>13 DEF QueuedWrite, PageWrite, CallTyped, WriteOutcome, EditOf
<1>15. /\ edited' \in [CommandName -> ProcessSpec]
       /\ edited'[n][f] = stamp
       /\ \A g \in Field \ {f} : edited'[n][g] = edited[n][g]
       /\ \A m \in CommandName \ {n} : edited'[m] = edited[m]
  BY <1>1, <1>7, <1>8, <1>9 DEF PageTyped, ProcessSpec
<1>16. /\ DOMAIN pendingEdits' = DOMAIN pendingEdits \cup {row}
       /\ pendingEdits'[row] = spec
       /\ \A k \in DOMAIN pendingEdits \ {row} : pendingEdits'[k] = pendingEdits[k]
  BY <1>7 DEF PendingWith
<1>17. Claimed' \subseteq Claimed /\ (n \in Claimed' => ~Lacks(n))
  BY <1>2, <1>7 DEF Claimed
\* the row's spec has the user's edits, this one included
<1>18. ASSUME n \in Claimed' PROVE Carries(n, spec)'
  <2>1. Carries(n, Base(n))
    <3>1. CASE RowKey(n) \in DOMAIN pendingEdits
      BY <1>1, <1>17, <1>18, <3>1 DEF Base, PendingCarries
    <3>2. CASE RowKey(n) \notin DOMAIN pendingEdits
      BY <1>17, <1>18, <3>2 DEF Base, Lacks, Carries
    <3> QED
      BY <3>1, <3>2
  <2> QED
    BY <1>12, <1>15, <2>1 DEF Carries
<1>19. ASSUME NEW m \in CommandName \ {n}, NEW s PROVE Carries(m, s)' <=> Carries(m, s)
  BY <1>15 DEF Carries
<1>20. /\ writeQueue' \in [flying : PageWrite \cup {None}, queue : Seq(PageWrite)]
       /\ writeQueue'.flying # None
       /\ \/ /\ writeQueue.flying = None /\ writeQueue'.flying = write
             /\ writeQueue.queue = <<>> /\ writeQueue'.queue = <<>>
          \/ /\ writeQueue.flying # None /\ writeQueue'.flying = writeQueue.flying
             /\ \E i \in DOMAIN writeQueue.queue : writeQueue.queue[i].key = row
             /\ DOMAIN writeQueue'.queue = DOMAIN writeQueue.queue
             /\ \A i \in DOMAIN writeQueue.queue :
                  writeQueue'.queue[i] = IF writeQueue.queue[i].key = row THEN write
                                         ELSE writeQueue.queue[i]
          \/ /\ writeQueue.flying # None /\ writeQueue'.flying = writeQueue.flying
             /\ row = None \/ \A i \in DOMAIN writeQueue.queue : writeQueue.queue[i].key # row
             /\ writeQueue'.queue = Append(writeQueue.queue, write)
  BY <1>1, <1>7, <1>14, MutatedQueue
<1>21. PageTyped'
  BY <1>1, <1>2, <1>8, <1>10, <1>12, <1>15, <1>16, <1>20 DEF PageTyped
<1>22. row # None
  BY <1>10, PageAssumption
<1>23. \A k : Shown(k)' <=> Shown(k)
  BY <1>2, <1>8 DEF Shown
<1>24. writeQueue.queue \in Seq(PageWrite) /\ \A i \in DOMAIN writeQueue.queue : i \in Nat \ {0}
  BY <1>1, QueueTyped
\* where the edit is, and what it leaves of the queue
<1>25. \A i \in DOMAIN writeQueue'.queue :
         /\ i \in Nat \ {0}
         /\ \/ writeQueue'.queue[i] = write
            \/ /\ i \in DOMAIN writeQueue.queue /\ writeQueue'.queue[i] = writeQueue.queue[i]
               /\ writeQueue.queue[i].key # row
  <2>1. CASE writeQueue'.queue = Append(writeQueue.queue, write)
             /\ \A i \in DOMAIN writeQueue.queue : writeQueue.queue[i].key # row
    BY <1>14, <1>24, <2>1, AppendedAt
  <2> QED
    BY <1>20, <1>22, <1>24, <2>1
<1>26. writeQueue.flying # None => \E i \in DOMAIN writeQueue'.queue : writeQueue'.queue[i] = write
  <2>1. CASE writeQueue'.queue = Append(writeQueue.queue, write)
    BY <1>14, <1>24, <2>1, AppendedAt
  <2> QED
    BY <1>20, <2>1
<1>27. ASSUME NEW m \in CommandName \ {n}, NEW i \in DOMAIN writeQueue.queue, EditOf(writeQueue.queue[i], m)
       PROVE  i \in DOMAIN writeQueue'.queue /\ writeQueue'.queue[i] = writeQueue.queue[i]
  <2>1. writeQueue.queue[i].key # row
    BY <1>1, <1>10, <1>22, <1>27 DEF QueueRows, EditOf
  <2>2. CASE writeQueue'.queue = Append(writeQueue.queue, write)
    BY <1>14, <1>24, <2>2, AppendedAt
  <2>3. writeQueue.queue # <<>>
    BY <1>24, <1>27
  <2> QED
    BY <1>20, <2>1, <2>2, <2>3
<1>28. ASSUME NEW i \in DOMAIN writeQueue'.queue, NEW j \in DOMAIN writeQueue'.queue, i < j,
              writeQueue'.queue[i] = write
       PROVE  ~EditOf(writeQueue'.queue[j], n)
  <2>1. CASE writeQueue'.queue = <<>>
    BY <2>1
  <2>2. CASE /\ DOMAIN writeQueue'.queue = DOMAIN writeQueue.queue
             /\ \E k \in DOMAIN writeQueue.queue : writeQueue.queue[k].key = row
             /\ \A k \in DOMAIN writeQueue.queue :
                  writeQueue'.queue[k] = IF writeQueue.queue[k].key = row THEN write
                                         ELSE writeQueue.queue[k]
    <3>1. \A a, b \in DOMAIN writeQueue.queue :
            a < b /\ writeQueue.queue[a].key = row => ~EditOf(writeQueue.queue[b], n)
      BY <1>1, <1>10, <1>22 DEF QueueRows
    <3>2. \A a \in DOMAIN writeQueue.queue : writeQueue.queue[a].key = row => EditOf(writeQueue.queue[a], n)
      BY <1>1, <1>10, <1>22 DEF QueueRows
    <3>3. writeQueue.queue[i].key = row
      BY <1>14, <1>28, <2>2
    <3>4. ~EditOf(writeQueue.queue[j], n)
      BY <1>28, <2>2, <3>1, <3>3
    <3> QED
      BY <1>28, <2>2, <3>2, <3>4
  <2>3. CASE /\ \A k \in DOMAIN writeQueue.queue : writeQueue.queue[k].key # row
             /\ writeQueue'.queue = Append(writeQueue.queue, write)
    <3>1. i \in DOMAIN writeQueue.queue /\ writeQueue'.queue[i] = writeQueue.queue[i]
      BY <1>14, <1>24, <1>28, <2>3, AppendedAt
    <3> QED
      BY <1>14, <1>28, <2>3, <3>1
  <2> QED
    BY <1>20, <1>22, <2>1, <2>2, <2>3
<1>29. CallsTyped'
  BY <1>1, <1>2, <1>13, <1>14, <1>20, <1>25 DEF CallsTyped
<1>30. ReadsDiffer' /\ NewestIsCore'
  BY <1>1, <1>2, <1>8, <1>20 DEF ReadsDiffer, NewestIsCore, Changing
<1>31. QueueRows'
  <2>1. Shown(row)
    BY <1>1, <1>10 DEF Shown, ReadsDiffer
  <2>2. \A i \in DOMAIN writeQueue'.queue :
          LET w == writeQueue'.queue[i] IN
          w.outcome = None /\ (w.key # None => EditOf(w, w.key[1]) /\ Shown(w.key))
    BY <1>1, <1>10, <1>14, <1>25, <2>1 DEF QueueRows
  <2>3. \A i, j \in DOMAIN writeQueue'.queue :
          LET w == writeQueue'.queue[i] IN
          i < j /\ w.key # None /\ w.key[2] = page.read => ~EditOf(writeQueue'.queue[j], w.key[1])
    <3> SUFFICES ASSUME NEW i \in DOMAIN writeQueue'.queue, NEW j \in DOMAIN writeQueue'.queue, i < j,
                        writeQueue'.queue[i].key # None, writeQueue'.queue[i].key[2] = page.read
                 PROVE  ~EditOf(writeQueue'.queue[j], writeQueue'.queue[i].key[1])
      OBVIOUS
    <3>1. CASE writeQueue'.queue[i] = write
      BY <1>10, <1>14, <1>28, <3>1
    <3>2. CASE /\ i \in DOMAIN writeQueue.queue /\ writeQueue'.queue[i] = writeQueue.queue[i]
               /\ writeQueue.queue[i].key # row
      <4>1. writeQueue.queue[i].key \in CommandName \X Nat
        BY <1>1, <3>2, QueueTyped
      <4>2. writeQueue.queue[i].key[1] # n
        BY <1>10, <3>2, <4>1
      <4>3. CASE writeQueue'.queue[j] = write
        BY <1>14, <3>2, <4>2, <4>3
      <4>4. CASE j \in DOMAIN writeQueue.queue /\ writeQueue'.queue[j] = writeQueue.queue[j]
        BY <1>1, <3>2, <4>4 DEF QueueRows
      <4> QED
        BY <1>25, <4>3, <4>4
    <3> QED
      BY <1>25, <3>1, <3>2
  <2>4. \A k \in DOMAIN pendingEdits' : Shown(k)
    BY <1>1, <1>16, <2>1 DEF QueueRows
  <2> QED
    BY <1>2, <1>20, <1>23, <2>2, <2>3, <2>4 DEF QueueRows, EditOf
<1>32. PendingCarries'
  <2> SUFFICES ASSUME NEW m \in Claimed', <<m, page.read>> \in DOMAIN pendingEdits'
               PROVE  Carries(m, pendingEdits[<<m, page.read>>])'
    BY <1>2 DEF PendingCarries, RowKey
  <2>1. CASE m = n
    BY <1>2, <1>10, <1>16, <1>18, <2>1 DEF Carries
  <2>2. CASE m # n
    <3>1. m \in Claimed /\ m \in CommandName \ {n}
      BY <1>17, <2>2 DEF Claimed
    <3>2. <<m, page.read>> # row
      BY <1>10, <2>2
    <3>3. <<m, page.read>> \in DOMAIN pendingEdits
          /\ pendingEdits'[<<m, page.read>>] = pendingEdits[<<m, page.read>>]
      BY <1>16, <3>2
    <3>4. Carries(m, pendingEdits[<<m, page.read>>])
      BY <1>1, <3>1, <3>3 DEF PendingCarries, RowKey
    <3> QED
      BY <1>2, <1>15, <3>1, <3>3, <3>4 DEF Carries
  <2> QED
    BY <2>1, <2>2
<1>33. LastCarries'
  <2> SUFFICES ASSUME NEW m \in Claimed'
               PROVE  /\ \A i \in DOMAIN writeQueue'.queue :
                           EditOf(writeQueue'.queue[i], m) /\ NoneAfter(i, m)'
                             => Carries(m, writeQueue.queue[i].call.spec)'
                      /\ NoneAfter(0, m)' /\ Flying(m)' => Carries(m, writeQueue.flying.call.spec)'
                      /\ NoneAfter(0, m)' /\ ~Flying(m)' /\ project'.commands[m] # None
                           => Carries(m, project.commands[m].spec)'
    BY DEF LastCarries, EditOf
  <2>1. CASE m = n
    <3>1. ASSUME NEW i \in DOMAIN writeQueue'.queue, EditOf(writeQueue'.queue[i], n), NoneAfter(i, n)'
          PROVE  writeQueue'.queue[i] = write
      <4>1. writeQueue.flying # None
        BY <1>20, <3>1
      <4>2. PICK p \in DOMAIN writeQueue'.queue : writeQueue'.queue[p] = write
        BY <1>26, <4>1
      <4>3. ~(p > i)
        BY <1>14, <3>1, <4>2 DEF NoneAfter, EditOf
      <4>4. ~(p < i)
        BY <1>28, <3>1, <4>2
      <4> QED
        BY <1>25, <4>2, <4>3, <4>4
    <3>2. NoneAfter(0, n)' => writeQueue'.flying = write
      <4>1. CASE writeQueue.flying = None
        BY <1>20, <4>1
      <4>2. CASE writeQueue.flying # None
        BY <1>14, <1>25, <1>26, <4>2 DEF NoneAfter, EditOf
      <4> QED
        BY <4>1, <4>2
    <3>3. NoneAfter(0, n)' => Flying(n)'
      BY <1>14, <1>20, <3>2 DEF Flying, EditOf
    <3> QED
      BY <1>13, <1>14, <1>18, <2>1, <3>1, <3>2, <3>3 DEF Carries
  <2>2. CASE m # n
    <3>1. m \in Claimed /\ m \in CommandName \ {n}
      BY <1>17, <2>2 DEF Claimed
    <3>2. /\ \A i \in DOMAIN writeQueue.queue :
               EditOf(writeQueue.queue[i], m) /\ NoneAfter(i, m) => Carries(m, writeQueue.queue[i].call.spec)
          /\ NoneAfter(0, m) /\ Flying(m) => Carries(m, writeQueue.flying.call.spec)
          /\ NoneAfter(0, m) /\ ~Flying(m) /\ project.commands[m] # None
               => Carries(m, project.commands[m].spec)
      BY <1>1, <3>1 DEF LastCarries
    <3>3. \A i : NoneAfter(i, m)' => NoneAfter(i, m)
      BY <1>27, <3>1 DEF NoneAfter, EditOf
    <3>4. /\ Flying(m)' <=> Flying(m)
          /\ Flying(m) => writeQueue'.flying = writeQueue.flying
      BY <1>14, <1>20, <2>2 DEF Flying, EditOf
    <3>5. ASSUME NEW i \in DOMAIN writeQueue'.queue, EditOf(writeQueue'.queue[i], m)
          PROVE  i \in DOMAIN writeQueue.queue /\ writeQueue'.queue[i] = writeQueue.queue[i]
      BY <1>14, <1>25, <2>2, <3>5
    <3>6. \A s : Carries(m, s) => \A g \in Field : edited'[m][g] \in {0, s[g]}
      BY <1>15, <3>1 DEF Carries
    <3> QED
      BY <1>2, <3>2, <3>3, <3>4, <3>5, <3>6 DEF Carries
  <2> QED
    BY <2>1, <2>2
<1> QED
  BY <1>21, <1>29, <1>30, <1>31, <1>32, <1>33 DEF PageInv


LEMMA PageStep == PageInv /\ [PageNext]_pageVars => PageInv'
<1> SUFFICES ASSUME PageInv, [PageNext]_pageVars PROVE PageInv'
  OBVIOUS
<1>1. CASE UNCHANGED pageVars
  BY <1>1 DEF pageVars, PageInv, PageTyped, CallsTyped, ReadsDiffer, NewestIsCore, Changing, QueueRows,
     Shown, EditOf, PendingCarries, LastCarries, Claimed, Carries, NoneAfter, Flying, RowKey
<1> QED
  BY <1>1, EditCommandKeeps, MutateKeeps, CoreServesWriteKeeps, WriteSettlesKeeps, CallDirectlyKeeps,
     CoreServesCallKeeps, CallSettlesKeeps, RefreshKeeps, CoreServesPageKeeps, PageLandsKeeps,
     PageReadFailsKeeps, EditedOutsideKeeps DEF PageNext

LEMMA PageStart == PageInit => PageInv
<1> SUFFICES ASSUME PageInit PROVE PageInv
  OBVIOUS
<1>1. /\ page = [view |-> None, read |-> 0] /\ pendingEdits = << >> /\ direct = {} /\ outdated = FALSE
      /\ writeQueue = [flying |-> None, queue |-> <<>>]
      /\ edited = [n \in CommandName |-> NewSpec]
      /\ pageSpent = [acts |-> 0, reads |-> 1, faults |-> 0]
  BY DEF PageInit
<1>2. PICK r : r = [read |-> 1, answer |-> None] /\ reloads = {r}
  BY DEF PageInit
<1>3. r \in [read : Nat, answer : ProjectSettingsPage \cup {None}] /\ r.read = 1 /\ r.answer = None
  BY <1>2
<1>4. NewSpec \in ProcessSpec /\ \A f \in Field : NewSpec[f] = 0
  BY DEF NewSpec, ProcessSpec
<1>5. project \in ProjectSettingsPage
  <2>1. PICK first : project = [commands |-> [n \in CommandName |->
                                  IF n = first THEN [spec |-> NewSpec, visibility |-> "shared"]
                                  ELSE None],
                                settings |-> 0]
    BY DEF PageInit
  <2>2. [spec |-> NewSpec, visibility |-> "shared"] \in ProjectCommandView
    BY <1>4 DEF ProjectCommandView, Visibility
  <2> QED
    BY <2>1, <2>2 DEF ProjectSettingsPage
<1>6. DOMAIN pendingEdits = {} /\ DOMAIN writeQueue.queue = {}
  BY <1>1
<1>7. PageTyped
  <2>1. page \in [view : ProjectSettingsPage \cup {None}, read : Nat]
    BY <1>1
  <2>2. DOMAIN pendingEdits \subseteq CommandName \X Nat
        /\ \A k \in DOMAIN pendingEdits : pendingEdits[k] \in ProcessSpec
    BY <1>6
  <2>3. << >> \in Seq(PageWrite)
    OBVIOUS
  <2>4. writeQueue \in [flying : PageWrite \cup {None}, queue : Seq(PageWrite)]
    BY <1>1, <2>3
  <2>5. direct \subseteq [key : Nat, call : WireCall, outcome : WriteOutcome]
    BY <1>1
  <2>6. reloads \subseteq [read : Nat, answer : ProjectSettingsPage \cup {None}]
    BY <1>2, <1>3
  <2>7. edited \in [CommandName -> ProcessSpec]
    BY <1>1, <1>4
  <2>8. outdated \in BOOLEAN /\ pageSpent \in [acts : Nat, reads : Nat, faults : Nat]
    BY <1>1
  <2> QED
    BY <1>5, <2>1, <2>2, <2>4, <2>5, <2>6, <2>7, <2>8 DEF PageTyped
<1>8. CallsTyped /\ QueueRows /\ PendingCarries
  BY <1>1, <1>6 DEF CallsTyped, QueueRows, PendingCarries
<1>9. ReadsDiffer /\ NewestIsCore
  BY <1>1, <1>2, <1>3 DEF ReadsDiffer, NewestIsCore
<1>10. LastCarries
  BY <1>1, <1>4, <1>6 DEF LastCarries, Claimed, Carries
<1> QED
  BY <1>7, <1>8, <1>9, <1>10 DEF PageInv

\* Edits of one row made faster than the core takes them are merged, and once the queue has
\* drained and the read sent last is the one that landed last, the page shows what the core
\* has (ProjectSettingsPane.tsx, ops.edit, settle and drain): for any commands and fields,
\* whatever was queued, replaced, re-read, renamed or removed meanwhile.  Excluded are the
\* commands with a refused edit, and those edited on a page that lacked an earlier edit,
\* which is undone then.
THEOREM PageHoldsAlways == PageSpec => []PageHolds
<1>1. PageInv => PageHolds
  <2> SUFFICES ASSUME PageInv PROVE PageHolds
    OBVIOUS
  <2>1. OverlappingEditsMerge
    BY DEF OverlappingEditsMerge, PageIdle, PageInv, QueueRows, LastCarries, NoneAfter, Flying,
       Claimed, Kept, Carries
  <2>2. DrainedPageIsCore
    BY DEF DrainedPageIsCore, PageIdle, PageInv, NewestIsCore, Changing
  <2> QED
    BY <2>1, <2>2 DEF PageHolds
<1> QED
  BY <1>1, PageStart, PageStep, PTL DEF PageSpec

-------------------------------------------------------------------------------
(* The terminal pane.                                                        *)

TerminalSpec == TerminalInit /\ [][TerminalNext]_terminalVars

Frame == [resync : BOOLEAN, n : Nat]
Stream ==
  [stage : {"asked", "attached", "refused"}, settled : BOOLEAN, cancelled : BOOLEAN, next : Nat,
   wire : Seq(Frame), pending : Seq(Frame), frame : BOOLEAN, desynced : BOOLEAN]
Slot ==
  [mounted : BOOLEAN, visible : BOOLEAN, state : {"attaching", "live", "not-started"},
   active : BOOLEAN, timer : BOOLEAN, stream : Nat \cup {None}]
Pty == [started : BOOLEAN, active : BOOLEAN, out : Nat]
Screen == [upto : Nat \cup {None}, torn : BOOLEAN]

\* What may be written after the chunk of a number, or on a blank screen.
Follows(f, from) == f.resync \/ (from # None /\ f.n = from + 1)

\* The number of the last chunk once all of these have been written.
LastOf(s, from) == IF s = <<>> THEN from ELSE s[Len(s)].n

\* Each of these follows the one before it.
Linked(s, from) == \A i \in 1..Len(s) : Follows(s[i], IF i = 1 THEN from ELSE s[i - 1].n)

\* What is on its way continues what is queued, and that what is on screen; nothing
\* the forwarder has sent is missing at the end; a pane in view drains its queue.
Sound(s, upto, visible) ==
  IF s.stage = "attached"
  THEN /\ Linked(s.wire, LastOf(s.pending, upto))
       /\ LastOf(s.wire, LastOf(s.pending, upto)) \in Nat
       /\ s.next = LastOf(s.wire, LastOf(s.pending, upto)) + 1
       /\ ~s.desynced => Linked(s.pending, upto)
       /\ visible /\ s.pending # <<>> => s.frame
  ELSE s.wire = <<>> /\ s.pending = <<>> /\ ~s.frame /\ ~s.desynced

\* A stream that nobody awaits and that says nothing.
Quiet(s) == s.cancelled \/ (s.stage = "refused" /\ s.wire = <<>>)

OneCurrent(all, n) ==
  /\ n # None => n \in DOMAIN all /\ ~all[n].cancelled
  /\ \A m \in DOMAIN all : m # n => Quiet(all[m])

\* Between two streams a pane of an active process waits for its retry.
Waiting(v) ==
  /\ ~v.mounted => v.stream = None
  /\ v.timer => v.mounted /\ v.stream = None
  /\ v.mounted /\ v.active /\ v.stream = None => v.timer

Whole(all, v, x) ==
  /\ all \in Seq(Stream) /\ v \in Slot /\ x \in Screen
  /\ OneCurrent(all, v.stream)
  /\ Waiting(v)
  /\ ~x.torn
  /\ v.stream # None => Sound(all[v.stream], x.upto, v.visible)

TermInv ==
  /\ pty \in Pty
  /\ Whole(streams, slot, xterm)

\* What the head of a linked sequence leaves behind.
LEMMA LinkedTail ==
  ASSUME NEW s \in Seq(Frame), NEW from, s # <<>>
  PROVE  /\ Head(s) \in Frame /\ Tail(s) \in Seq(Frame)
         /\ Tail(s) = <<>> => Len(s) = 1
         /\ LastOf(Tail(s), Head(s).n) = LastOf(s, from)
         /\ Linked(s, from) => Follows(Head(s), from) /\ Linked(Tail(s), Head(s).n)
<1>0. Len(s) \in Nat \ {0} /\ \A i \in 1..Len(s) : s[i] \in Frame
  OBVIOUS
<1>1. PICK t : t = Tail(s)
  OBVIOUS
<1>2. /\ t \in Seq(Frame) /\ Len(t) = Len(s) - 1 /\ Head(s) = s[1]
      /\ \A i \in 1..Len(t) : t[i] = s[i + 1]
  BY <1>0, <1>1
<1>3. t = <<>> <=> Len(s) = 1
  BY <1>0, <1>2
<1>4. LastOf(t, Head(s).n) = LastOf(s, from)
  BY <1>0, <1>2, <1>3 DEF LastOf
<1>5. ASSUME Linked(s, from) PROVE Follows(Head(s), from) /\ Linked(t, Head(s).n)
  <2>1. Follows(s[1], from)
    BY <1>0, <1>5 DEF Linked
  <2>2. ASSUME NEW i \in 1..Len(t)
        PROVE  Follows(t[i], IF i = 1 THEN s[1].n ELSE t[i - 1].n)
    <3>1. i + 1 \in 1..Len(s) /\ i + 1 # 1 /\ (i + 1) - 1 = i
      BY <1>0, <1>2
    <3>2. Follows(s[i + 1], s[i].n)
      BY <1>5, <3>1 DEF Linked
    <3>3. s[i] = IF i = 1 THEN s[1] ELSE t[i - 1]
      BY <1>0, <1>2
    <3> QED
      BY <1>2, <3>2, <3>3
  <2> QED
    BY <1>2, <2>1, <2>2 DEF Linked
<1> QED
  BY <1>0, <1>1, <1>2, <1>3, <1>4, <1>5

\* A frame that follows the last one joins the sequence.
LEMMA LinkedAppend ==
  ASSUME NEW s \in Seq(Frame), NEW from, NEW f \in Frame
  PROVE  /\ Append(s, f) \in Seq(Frame) /\ Append(s, f) # <<>>
         /\ LastOf(Append(s, f), from) = f.n
         /\ Linked(s, from) /\ Follows(f, LastOf(s, from)) => Linked(Append(s, f), from)
<1>0. Len(s) \in Nat /\ (s = <<>> <=> Len(s) = 0)
  OBVIOUS
<1>1. PICK t : t = Append(s, f)
  OBVIOUS
<1>2. /\ t \in Seq(Frame) /\ Len(t) = Len(s) + 1 /\ t # <<>>
      /\ t[Len(s) + 1] = f /\ \A i \in 1..Len(s) : t[i] = s[i]
  BY <1>1
<1>3. LastOf(t, from) = f.n
  BY <1>2 DEF LastOf
<1>4. ASSUME Linked(s, from), Follows(f, LastOf(s, from)) PROVE Linked(t, from)
  <2>1. ASSUME NEW i \in 1..Len(t)
        PROVE  Follows(t[i], IF i = 1 THEN from ELSE t[i - 1].n)
    <3>1. CASE i \in 1..Len(s)
      <4>1. Follows(s[i], IF i = 1 THEN from ELSE s[i - 1].n)
        BY <1>4, <3>1 DEF Linked
      <4>2. t[i] = s[i] /\ (i # 1 => t[i - 1] = s[i - 1])
        BY <1>0, <1>2, <3>1
      <4> QED
        BY <4>1, <4>2
    <3>2. CASE i = Len(s) + 1
      <4>1. t[i] = f /\ (i # 1 => t[i - 1] = s[Len(s)]) /\ (i = 1 <=> s = <<>>)
        BY <1>0, <1>2, <3>2
      <4> QED
        BY <1>4, <4>1 DEF LastOf
    <3> QED
      BY <1>0, <1>2, <3>1, <3>2
  <2> QED
    BY <2>1 DEF Linked
<1> QED
  BY <1>1, <1>2, <1>3, <1>4

\* Alone or none at all.
LEMMA LinkedOne ==
  ASSUME NEW f \in Frame, NEW from
  PROVE  /\ Linked(<<>>, from) /\ LastOf(<<>>, from) = from
         /\ <<f>> \in Seq(Frame) /\ <<f>> # <<>> /\ LastOf(<<f>>, from) = f.n
         /\ f.resync => Linked(<<f>>, from)
BY DEF Linked, LastOf, Follows

\* The number of the last one is a number, unless there is none.
LEMMA LastTyped ==
  ASSUME NEW s \in Seq(Frame), NEW from
  PROVE  s # <<>> => LastOf(s, from) \in Nat
<1>1. s # <<>> => s[Len(s)] \in Frame
  OBVIOUS
<1> QED
  BY <1>1 DEF LastOf, Frame

LEMMA WriteScreen ==
  ASSUME NEW x \in Screen, NEW f \in Frame
  PROVE  /\ Write(x, f) \in Screen
         /\ Write(x, f).upto = f.n
         /\ ~x.torn /\ Follows(f, x.upto) => ~Write(x, f).torn
<1>1. f.n \in Nat /\ f.resync \in BOOLEAN /\ x.torn \in BOOLEAN
  BY DEF Frame, Screen
<1>2. PICK b : b = (x.torn \/ (~f.resync /\ (x.upto = None \/ f.n # x.upto + 1)))
  OBVIOUS
<1>3. b \in BOOLEAN
  BY <1>2
<1>4. Write(x, f) = [upto |-> f.n, torn |-> b]
  BY <1>2 DEF Write
<1>5. ~x.torn /\ Follows(f, x.upto) => ~b
  BY <1>2 DEF Follows
<1> QED
  BY <1>1, <1>3, <1>4, <1>5 DEF Screen

\* The emulator stage by stage.
LEMMA WrittenStages ==
  ASSUME NEW x \in Screen, NEW batch \in Seq(Frame)
  PROVE  \E f : /\ WriteAll(x, batch) = f[Len(batch)]
                /\ f[0] = x
                /\ \A i \in 1..Len(batch) : f[i] = Write(f[i - 1], batch[i])
<1>0. Len(batch) \in Nat /\ \A i \in 1..Len(batch) : batch[i] \in Frame
  OBVIOUS
<1>1. PICK step : step = [i \in 1..Len(batch) |-> [y \in Screen |-> Write(y, batch[i])]]
  OBVIOUS
<1>2. step \in [1..Len(batch) -> [Screen -> Screen]]
  <2>1. \A i \in 1..Len(batch) : \A y \in Screen : Write(y, batch[i]) \in Screen
    BY <1>0, WriteScreen
  <2> QED
    BY <1>1, <2>1
<1>3. PICK f : Unfolds(f, Len(batch), x, step) /\ \A i \in 0..Len(batch) : f[i] \in Screen
  BY <1>0, <1>2, Recursion
<1> DEFINE Stages(g) ==
      g = [i \in 0..Len(batch) |-> IF i = 0 THEN x ELSE Write(g[i - 1], batch[i])]
<1>4. Stages(f)
  <2>1. \A i \in 0..Len(batch) : i # 0 => step[i][f[i - 1]] = Write(f[i - 1], batch[i])
    <3>1. \A i \in 0..Len(batch) : i # 0 => i \in 1..Len(batch) /\ f[i - 1] \in Screen
      BY <1>0, <1>3
    <3> QED
      BY <1>1, <3>1
  <2> QED
    BY <1>0, <1>3, <2>1 DEF Unfolds
<1>5. PICK g : g = CHOOSE h : Stages(h)
  OBVIOUS
<1>6. Stages(g) /\ WriteAll(x, batch) = g[Len(batch)]
  <2>1. Stages(g)
    BY <1>4, <1>5
  <2>2. WriteAll(x, batch) = g[Len(batch)]
    BY <1>5 DEF WriteAll
  <2> QED
    BY <2>1, <2>2
<1>7. /\ g[0] = x
      /\ \A i \in 1..Len(batch) : g[i] = Write(g[i - 1], batch[i])
  <2>1. 0 \in 0..Len(batch) /\ \A i \in 1..Len(batch) : i \in 0..Len(batch) /\ i # 0
    BY <1>0
  <2>2. \A i \in 0..Len(batch) : g[i] = IF i = 0 THEN x ELSE Write(g[i - 1], batch[i])
    BY <1>6, Zenon
  <2> QED
    BY <2>1, <2>2
<1> QED
  BY <1>6, <1>7

\* What a batch makes of the emulator.
Showed(y, x, batch) ==
  /\ y \in Screen
  /\ y.upto = LastOf(batch, x.upto)
  /\ ~x.torn /\ Linked(batch, x.upto) => ~y.torn

LEMMA Written ==
  ASSUME NEW x \in Screen, NEW batch \in Seq(Frame)
  PROVE  Showed(WriteAll(x, batch), x, batch)
<1>0. Len(batch) \in Nat /\ \A i \in 1..Len(batch) : batch[i] \in Frame
  OBVIOUS
<1>1. PICK f : /\ WriteAll(x, batch) = f[Len(batch)]
               /\ f[0] = x
               /\ \A i \in 1..Len(batch) : f[i] = Write(f[i - 1], batch[i])
  BY WrittenStages
<1> DEFINE N == Len(batch)
           Upto(i) == IF i = 0 THEN x.upto ELSE batch[i].n
           T == {i \in 0..N : /\ f[i] \in Screen /\ f[i].upto = Upto(i)
                              /\ ~x.torn /\ Linked(batch, x.upto) => ~f[i].torn}
<1>2. 0 \in T
  BY <1>0, <1>1
<1>3. ASSUME NEW i \in 1..N, i - 1 \in T PROVE i \in T
  <2>1. PICK y : y = f[i - 1]
    OBVIOUS
  <2>2. /\ y \in Screen /\ y.upto = Upto(i - 1)
        /\ ~x.torn /\ Linked(batch, x.upto) => ~y.torn
    BY <1>3, <2>1
  <2>3. batch[i] \in Frame /\ f[i] = Write(y, batch[i]) /\ i \in 0..N /\ i # 0
    BY <1>0, <1>1, <2>1
  <2>4. Linked(batch, x.upto) => Follows(batch[i], y.upto)
    <3>1. Upto(i - 1) = IF i = 1 THEN x.upto ELSE batch[i - 1].n
      BY <1>0
    <3> QED
      BY <1>0, <2>2, <3>1 DEF Linked
  <2>5. /\ f[i] \in Screen /\ f[i].upto = batch[i].n
        /\ ~y.torn /\ Follows(batch[i], y.upto) => ~f[i].torn
    BY <2>2, <2>3, WriteScreen
  <2> QED
    BY <2>2, <2>3, <2>4, <2>5
<1>4. N \in T
  <2> HIDE DEF T
  <2>1. \A i \in 1..N : i - 1 \in T => i \in T
    BY <1>3
  <2>2. \A i \in 0..N : i \in T
    BY <1>0, <1>2, <2>1, UpTo
  <2> QED
    BY <1>0, <2>2
<1>5. Upto(N) = LastOf(batch, x.upto)
  <2>1. N = 0 <=> batch = <<>>
    OBVIOUS
  <2> QED
    BY <2>1 DEF LastOf
<1>6. /\ f[N] \in Screen /\ f[N].upto = Upto(N)
      /\ ~x.torn /\ Linked(batch, x.upto) => ~f[N].torn
  BY <1>4
<1> QED
  BY <1>1, <1>5, <1>6 DEF Showed

-------------------------------------------------------------------------------
(* Streams come and go.                                                      *)

AllQuiet(all) == \A m \in DOMAIN all : Quiet(all[m])

LEMMA NewIsSound ==
  ASSUME NEW upto, NEW visible \in BOOLEAN
  PROVE  NewStream \in Stream /\ ~NewStream.cancelled /\ Sound(NewStream, upto, visible)
<1>1. <<>> \in Seq(Frame)
  OBVIOUS
<1> QED
  BY <1>1 DEF NewStream, Stream, Sound

\* A cancelled stream is quiet, so that all are.
LEMMA CancelQuiets ==
  ASSUME NEW all \in Seq(Stream), NEW n \in Nat \cup {None}, OneCurrent(all, n)
  PROVE  CancelOld(all, n) \in Seq(Stream) /\ AllQuiet(CancelOld(all, n))
<1>1. CASE n = None
  <2>1. CancelOld(all, n) = all
    BY <1>1 DEF CancelOld
  <2>2. \A m \in DOMAIN all : Quiet(all[m])
    <3>1. \A m \in DOMAIN all : m # None
      BY TerminalAssumption
    <3> QED
      BY <1>1, <3>1 DEF OneCurrent
  <2> QED
    BY <2>1, <2>2 DEF AllQuiet
<1>2. CASE n # None
  <2>1. n \in DOMAIN all /\ all[n] \in Stream /\ n \in 1..Len(all)
    BY <1>2 DEF OneCurrent
  <2>2. PICK t : t = [all[n] EXCEPT !.cancelled = TRUE, !.pending = <<>>, !.frame = FALSE]
    OBVIOUS
  <2>3. t \in Stream /\ t.cancelled
    <3>1. <<>> \in Seq(Frame)
      OBVIOUS
    <3> QED
      BY <2>1, <2>2, <3>1 DEF Stream
  <2>4. PICK new : new = [all EXCEPT ![n] = t]
    OBVIOUS
  <2>5. CancelOld(all, n) = new
    BY <1>2, <2>2, <2>4 DEF CancelOld
  <2>6. new \in Seq(Stream)
    BY <2>1, <2>3, <2>4
  <2>7. \A m \in DOMAIN new : m \in DOMAIN all /\ new[m] = IF m = n THEN t ELSE all[m]
    BY <2>4
  <2>8. AllQuiet(new)
    BY <2>3, <2>7 DEF AllQuiet, Quiet, OneCurrent
  <2> QED
    BY <2>5, <2>6, <2>8
<1> QED
  BY <1>1, <1>2

\* A pane attaches when all that came before is quiet.
LEMMA AttachKeeps ==
  ASSUME NEW all \in Seq(Stream), AllQuiet(all), NEW v \in Slot, v.mounted,
         NEW x \in Screen, ~x.torn, Attach(v, all)
  PROVE  Whole(streams', slot', x)
<1>0. Len(all) \in Nat
  OBVIOUS
<1>1. PICK n : n = Len(all) + 1
  OBVIOUS
<1>2. n \in Nat /\ n # None
  BY <1>0, <1>1, TerminalAssumption
<1>3. PICK w : w = [v EXCEPT !.state = "attaching", !.stream = n, !.timer = FALSE]
  OBVIOUS
<1>4. slot' = w
  BY <1>1, <1>3 DEF Attach
<1>5. /\ w \in Slot /\ w.stream = n /\ ~w.timer /\ w.mounted = v.mounted
      /\ w.visible \in BOOLEAN
  BY <1>2, <1>3 DEF Slot
<1>6. PICK new : new = Append(all, NewStream)
  OBVIOUS
<1>7. streams' = new
  BY <1>6 DEF Attach
<1>8. NewStream \in Stream /\ ~NewStream.cancelled /\ Sound(NewStream, x.upto, w.visible)
  BY <1>5, NewIsSound
<1>9. /\ new \in Seq(Stream) /\ n \in DOMAIN new /\ new[n] = NewStream
      /\ \A m \in DOMAIN new : m # n => m \in DOMAIN all /\ new[m] = all[m]
  BY <1>0, <1>1, <1>6, <1>8
<1>10. OneCurrent(new, n)
  BY <1>8, <1>9 DEF OneCurrent, AllQuiet
<1>11. Waiting(w)
  BY <1>2, <1>5 DEF Waiting
<1> QED
  BY <1>4, <1>5, <1>7, <1>8, <1>9, <1>10, <1>11 DEF Whole

\* A stream moves on, and with it the pane and the emulator if it is theirs.
LEMMA StreamKeeps ==
  ASSUME NEW all, NEW v, NEW x, Whole(all, v, x),
         NEW n \in DOMAIN all, NEW t \in Stream, t.cancelled = all[n].cancelled,
         n # v.stream /\ Quiet(all[n]) => Quiet(t),
         NEW w \in Slot, Waiting(w), w.stream = v.stream, NEW y \in Screen, ~y.torn,
         n # v.stream => w = v /\ y = x,
         n = v.stream => Sound(t, y.upto, w.visible)
  PROVE  Whole([all EXCEPT ![n] = t], w, y)
<1>1. PICK new : new = [all EXCEPT ![n] = t]
  OBVIOUS
<1>2. all \in Seq(Stream)
  BY DEF Whole
<1>3. /\ new \in Seq(Stream) /\ DOMAIN new = DOMAIN all
      /\ \A m \in DOMAIN new : new[m] = IF m = n THEN t ELSE all[m]
  BY <1>1, <1>2
<1>4. OneCurrent(new, v.stream)
  BY <1>3 DEF Whole, OneCurrent
<1>5. ASSUME v.stream # None PROVE Sound(new[v.stream], y.upto, w.visible)
  <2>1. v.stream \in DOMAIN all
    BY <1>5 DEF Whole, OneCurrent
  <2>2. CASE v.stream = n
    BY <1>3, <2>1, <2>2
  <2>3. CASE v.stream # n
    <3>1. y = x /\ w = v /\ new[v.stream] = all[v.stream]
      BY <1>3, <2>1, <2>3
    <3> QED
      BY <1>5, <3>1 DEF Whole
  <2> QED
    BY <2>2, <2>3
<1> QED
  BY <1>1, <1>3, <1>4, <1>5 DEF Whole

\* The pane changes, of its stream only whether a frame is asked for.
LEMMA SlotKeeps ==
  ASSUME NEW all, NEW v, NEW x, Whole(all, v, x), NEW w \in Slot, Waiting(w),
         w.stream = v.stream, w.visible => v.visible
  PROVE  Whole(all, w, x)
<1>1. ASSUME NEW s, Sound(s, x.upto, v.visible) PROVE Sound(s, x.upto, w.visible)
  BY <1>1 DEF Sound
<1> QED
  BY <1>1 DEF Whole

\* Without a stream of its own, a pane is whole when all are quiet.
LEMMA NoneIsWhole ==
  ASSUME NEW all \in Seq(Stream), NEW v \in Slot, v.stream = None, NEW x \in Screen, ~x.torn
  PROVE  /\ OneCurrent(all, None) => AllQuiet(all)
         /\ AllQuiet(all) /\ Waiting(v) => Whole(all, v, x)
<1>1. \A m \in DOMAIN all : m # None
  BY TerminalAssumption
<1>2. OneCurrent(all, None) <=> AllQuiet(all)
  BY <1>1 DEF OneCurrent, AllQuiet
<1> QED
  BY <1>2 DEF Whole

LEMMA BlankScreen == Blank \in Screen /\ ~Blank.torn
BY DEF Blank, Screen

-------------------------------------------------------------------------------
(* The actions.                                                              *)

\* What the facts say of the parts.
LEMMA WholeParts ==
  ASSUME NEW all, NEW v, NEW x, Whole(all, v, x)
  PROVE  /\ all \in Seq(Stream) /\ v \in Slot /\ x \in Screen /\ ~x.torn
         /\ \A n \in DOMAIN all : all[n] \in Stream
         /\ Waiting(v)
         /\ v.stream # None => /\ v.stream \in DOMAIN all /\ v.mounted
                               /\ ~all[v.stream].cancelled
                               /\ Sound(all[v.stream], x.upto, v.visible)
         /\ v.stream = None => AllQuiet(all)
<1>1. /\ all \in Seq(Stream) /\ v \in Slot /\ x \in Screen /\ ~x.torn
      /\ Waiting(v) /\ OneCurrent(all, v.stream)
      /\ v.stream # None => Sound(all[v.stream], x.upto, v.visible)
  BY DEF Whole
<1>2. \A n \in DOMAIN all : all[n] \in Stream
  BY <1>1
<1>3. v.mounted \in BOOLEAN
  BY <1>1 DEF Slot
<1>4. v.stream # None => v.stream \in DOMAIN all /\ v.mounted /\ ~all[v.stream].cancelled
  BY <1>1, <1>3 DEF OneCurrent, Waiting
<1>5. v.stream = None => AllQuiet(all)
  BY <1>1, NoneIsWhole
<1> QED
  BY <1>1, <1>2, <1>4, <1>5

\* A pane is attached anew.
LEMMA ReattachKeeps ==
  ASSUME NEW x, Whole(streams, slot, x), NEW v \in Slot, v.mounted, v.stream = slot.stream,
         Reattach(v)
  PROVE  Whole(streams', slot', xterm')
<1>1. PICK old : old = CancelOld(streams, v.stream)
  OBVIOUS
<1>2. v.stream \in Nat \cup {None}
  BY DEF Slot
<1>3. streams \in Seq(Stream) /\ OneCurrent(streams, v.stream)
  BY DEF Whole
<1>4. old \in Seq(Stream) /\ AllQuiet(old)
  BY <1>1, <1>2, <1>3, CancelQuiets
<1>5. Attach(v, old) /\ xterm' = Blank
  BY <1>1 DEF Reattach
<1>6. Whole(streams', slot', Blank)
  BY <1>4, <1>5, BlankScreen, AttachKeeps
<1> QED
  BY <1>5, <1>6

\* What is on its way continues the frame that has arrived, and that the backlog.
Continued(s, f) ==
  /\ Linked(s.wire, f.n)
  /\ LastOf(s.wire, f.n) \in Nat
  /\ s.next = LastOf(s.wire, f.n) + 1

Continues(s, f, upto) ==
  /\ ~f.resync /\ Follows(f, LastOf(s.pending, upto))
  /\ ~s.desynced => Linked(s.pending, upto)

\* A pane in view asks for a frame.
Asks(t, queued, visible) == t = [queued EXCEPT !.frame = @ \/ visible]

\* A chunk or a snapshot joins the backlog.
LEMMA QueuedIsSound ==
  ASSUME NEW s \in Stream, NEW f \in Frame, NEW upto, NEW visible \in BOOLEAN,
         s.stage = "attached", Continues(s, f, upto), Continued(s, f),
         NEW t, Asks(t, Queued(s, f), visible)
  PROVE  t \in Stream /\ t.cancelled = s.cancelled /\ Sound(t, upto, visible)
<1>1. /\ s.pending \in Seq(Frame) /\ s.wire \in Seq(Frame)
      /\ s.desynced \in BOOLEAN /\ s.frame \in BOOLEAN
  BY DEF Stream
<1>2. PICK longer : longer = Append(s.pending, f)
  OBVIOUS
<1>3. /\ longer \in Seq(Frame) /\ longer # <<>> /\ LastOf(longer, upto) = f.n
      /\ ~s.desynced => Linked(longer, upto)
  BY <1>1, <1>2, LinkedAppend DEF Continues
<1>4. PICK over : over = (Len(longer) > PendingCap)
  OBVIOUS
<1>5. over \in BOOLEAN
  BY <1>4
<1>6. PICK kept : kept = IF over THEN Tail(longer) ELSE longer
  OBVIOUS
<1>7. kept \in Seq(Frame) /\ LastOf(kept, upto) = f.n /\ (~over => kept = longer)
  <2>1. CASE over
    <3>1. Tail(longer) \in Seq(Frame) /\ LastOf(Tail(longer), Head(longer).n) = f.n
      BY <1>3, LinkedTail
    <3>2. Tail(longer) # <<>>
      <4>1. PICK k : k = Len(longer)
        OBVIOUS
      <4>2. k > PendingCap
        BY <1>4, <2>1, <4>1, Zenon
      <4>3. k \in Nat
        BY <1>3, <4>1
      <4>4. k > 1
        BY <4>2, <4>3, TerminalAssumption
      <4>5. ASSUME Tail(longer) = <<>> PROVE k = 1
        BY <1>3, <4>1, <4>5, LinkedTail
      <4> QED
        BY <4>4, <4>5
    <3> QED
      BY <1>6, <2>1, <3>1, <3>2 DEF LastOf
  <2>2. CASE ~over
    BY <1>3, <1>6, <2>2
  <2> QED
    BY <2>1, <2>2
<1>8. Queued(s, f) = [s EXCEPT !.pending = kept, !.desynced = @ \/ over]
  BY <1>2, <1>4, <1>6 DEF Queued
<1>9. PICK d : d = (s.desynced \/ over)
  OBVIOUS
<1>10. PICK b : b = (s.frame \/ visible)
  OBVIOUS
<1>11. d \in BOOLEAN /\ b \in BOOLEAN /\ (~d => ~s.desynced /\ ~over) /\ (visible => b)
  BY <1>1, <1>5, <1>9, <1>10
<1>12. t = [s EXCEPT !.pending = kept, !.desynced = d, !.frame = b]
  BY <1>8, <1>9, <1>10 DEF Stream, Asks
<1>13. /\ t \in Stream /\ t.cancelled = s.cancelled /\ t.stage = "attached" /\ t.wire = s.wire
       /\ t.pending = kept /\ t.desynced = d /\ t.frame = b /\ t.next = s.next
  BY <1>7, <1>11, <1>12 DEF Stream
<1>14. ~d => Linked(kept, upto)
  BY <1>3, <1>7, <1>11
<1> QED
  BY <1>7, <1>11, <1>13, <1>14 DEF Sound, Continued

LEMMA HealedIsSound ==
  ASSUME NEW s \in Stream, NEW f \in Frame, NEW upto, NEW visible \in BOOLEAN,
         s.stage = "attached", f.resync,
         Continued(s, f),
         NEW t, Asks(t, Healed(s, f), visible)
  PROVE  t \in Stream /\ t.cancelled = s.cancelled /\ Sound(t, upto, visible)
<1>1. s.wire \in Seq(Frame) /\ s.next \in Nat
  BY DEF Stream
<1>2. PICK q : q = <<f>>
  OBVIOUS
<1>3. q \in Seq(Frame) /\ q # <<>> /\ LastOf(q, upto) = f.n /\ Linked(q, upto)
  BY <1>2, LinkedOne
<1>4. t = [s EXCEPT !.pending = q, !.frame = visible, !.desynced = FALSE]
  <2>1. Healed(s, f) = [s EXCEPT !.pending = q, !.frame = FALSE, !.desynced = FALSE]
    BY <1>2 DEF Healed
  <2> QED
    BY <2>1 DEF Stream, Asks
<1>5. /\ t \in Stream /\ t.cancelled = s.cancelled /\ t.stage = "attached" /\ t.wire = s.wire
      /\ t.pending = q /\ ~t.desynced /\ t.frame = visible /\ t.next = s.next
  BY <1>3, <1>4 DEF Stream
<1> QED
  BY <1>3, <1>5 DEF Sound, Continued

\* A frame arrives: what is shown, queued and on its way stays one sequence.
LEMMA ArrivesKeeps ==
  ASSUME TermInv, Arrives
  PROVE  Whole(streams', slot', xterm')
<1>0. /\ Whole(streams, slot, xterm) /\ slot \in Slot /\ xterm \in Screen /\ ~xterm.torn
      /\ Waiting(slot)
  BY WholeParts DEF TermInv
<1> DEFINE Heard(s) == [s EXCEPT !.wire = Tail(@)]
           Taken(s, f) == [(IF f.resync THEN Healed(Heard(s), f) ELSE Queued(Heard(s), f))
                             EXCEPT !.frame = @ \/ slot.visible]
<1>1. PICK n \in DOMAIN streams :
        /\ streams[n].wire # <<>>
        /\ streams' = [streams EXCEPT ![n] =
                         IF streams[n].cancelled THEN Heard(streams[n])
                         ELSE Taken(streams[n], Head(streams[n].wire))]
        /\ xterm' = IF ~streams[n].cancelled /\ Head(streams[n].wire).resync THEN Blank ELSE xterm
        /\ slot' = slot
  BY DEF Arrives
<1>2. PICK s : s = streams[n]
  OBVIOUS
<1>3. s \in Stream
  BY <1>0, <1>2, WholeParts
<1>4. s.wire \in Seq(Frame) /\ s.wire # <<>> /\ s.cancelled \in BOOLEAN
  BY <1>1, <1>2, <1>3 DEF Stream
<1>5. PICK f : f = Head(s.wire)
  OBVIOUS
<1>6. PICK r : r = Heard(s)
  OBVIOUS
<1>7. /\ f \in Frame /\ Tail(s.wire) \in Seq(Frame)
      /\ \A from : LastOf(Tail(s.wire), f.n) = LastOf(s.wire, from)
      /\ \A from : Linked(s.wire, from) => Follows(f, from) /\ Linked(Tail(s.wire), f.n)
  BY <1>4, <1>5, LinkedTail
<1>8. /\ r \in Stream /\ r.wire = Tail(s.wire) /\ r.cancelled = s.cancelled /\ r.stage = s.stage
      /\ r.pending = s.pending /\ r.next = s.next /\ r.desynced = s.desynced
  BY <1>3, <1>6, <1>7 DEF Stream
<1>11. n # None
  BY <1>0, TerminalAssumption, WholeParts
<1>9. CASE s.cancelled
  <2>1. Quiet(r)
    BY <1>8, <1>9 DEF Quiet
  <2>2. n # slot.stream
    BY <1>0, <1>2, <1>9, <1>11, WholeParts
  <2>3. Whole([streams EXCEPT ![n] = r], slot, xterm)
    BY <1>0, <1>2, <1>8, <2>1, <2>2, StreamKeeps
  <2>4. streams' = [streams EXCEPT ![n] = r] /\ xterm' = xterm
    BY <1>1, <1>2, <1>6, <1>9
  <2> QED
    BY <1>1, <2>3, <2>4
<1>10. CASE ~s.cancelled
  <2>1. n = slot.stream
    <3>1. n # slot.stream => Quiet(s)
      BY <1>0, <1>2 DEF Whole, OneCurrent
    <3> QED
      BY <1>4, <1>10, <3>1 DEF Quiet
  <2>2. slot.stream # None /\ Sound(s, xterm.upto, slot.visible)
    BY <1>0, <1>2, <1>11, <2>1, WholeParts
  <2>3. s.stage = "attached"
    BY <1>4, <2>2 DEF Sound
  <2>4. PICK from : from = LastOf(s.pending, xterm.upto)
    OBVIOUS
  <2>5. /\ Linked(s.wire, from) /\ LastOf(s.wire, from) \in Nat
        /\ s.next = LastOf(s.wire, from) + 1
        /\ ~s.desynced => Linked(s.pending, xterm.upto)
    BY <2>2, <2>3, <2>4 DEF Sound
  <2>6. Follows(f, from) /\ Continued(r, f)
    BY <1>7, <1>8, <2>5 DEF Continued
  <2>7. slot.visible \in BOOLEAN
    BY <1>0 DEF Slot
  <2>8. PICK t : t = Taken(s, f)
    OBVIOUS
  <2>9. streams' = [streams EXCEPT ![n] = t]
    BY <1>1, <1>2, <1>5, <1>10, <2>8
  <2>10. CASE f.resync
    <3>1. Asks(t, Healed(r, f), slot.visible)
      BY <1>6, <2>8, <2>10 DEF Asks
    <3>2. t \in Stream /\ t.cancelled = r.cancelled /\ Sound(t, Blank.upto, slot.visible)
      BY <1>7, <1>8, <2>3, <2>6, <2>7, <2>10, <3>1, HealedIsSound
    <3>3. Whole([streams EXCEPT ![n] = t], slot, Blank)
      BY <1>0, <1>2, <1>8, <2>1, <3>2, BlankScreen, StreamKeeps
    <3>4. xterm' = Blank
      BY <1>1, <1>2, <1>5, <1>10, <2>10
    <3> QED
      BY <1>1, <2>9, <3>3, <3>4
  <2>11. CASE ~f.resync
    <3>1. Asks(t, Queued(r, f), slot.visible)
      BY <1>6, <2>8, <2>11 DEF Asks
    <3>2. PICK upto : upto = xterm.upto
      OBVIOUS
    <3>6. Continues(r, f, upto)
      BY <1>8, <2>4, <2>5, <2>6, <2>11, <3>2 DEF Continues
    <3>3. t \in Stream /\ t.cancelled = r.cancelled /\ Sound(t, upto, slot.visible)
      BY <1>7, <1>8, <2>3, <2>6, <2>7, <2>11, <3>1, <3>6, QueuedIsSound
    <3>4. Whole([streams EXCEPT ![n] = t], slot, xterm)
      BY <1>0, <1>2, <1>8, <2>1, <3>2, <3>3, StreamKeeps
    <3>5. xterm' = xterm
      BY <1>1, <1>2, <1>5, <2>11
    <3> QED
      BY <1>1, <2>9, <3>4, <3>5
  <2> QED
    BY <2>10, <2>11
<1> QED
  BY <1>4, <1>9, <1>10

\* The backlog is written out, or replayed if it has a hole.
LEMMA FlushKeeps ==
  ASSUME TermInv, FlushFrame
  PROVE  Whole(streams', slot', xterm')
<1>0. /\ Whole(streams, slot, xterm) /\ slot \in Slot /\ xterm \in Screen /\ ~xterm.torn
      /\ Waiting(slot)
  BY WholeParts DEF TermInv
<1>1. PICK n : n = slot.stream
  OBVIOUS
<1>2. PICK s : s = streams[n]
  OBVIOUS
<1>3. n # None /\ s.frame
  BY <1>1, <1>2 DEF FlushFrame, Current
<1>4. /\ n \in DOMAIN streams /\ s \in Stream /\ slot.mounted
      /\ Sound(s, xterm.upto, slot.visible)
  BY <1>0, <1>1, <1>2, <1>3, WholeParts
<1>5. CASE s.desynced
  <2>1. Reattach(slot)
    BY <1>1, <1>2, <1>5 DEF FlushFrame, Current
  <2> QED
    BY <1>0, <1>4, <2>1, ReattachKeeps
<1>6. CASE ~s.desynced
  <2>1. PICK y : y = WriteAll(xterm, s.pending)
    OBVIOUS
  <2>2. PICK t : t = [s EXCEPT !.pending = <<>>, !.frame = FALSE]
    OBVIOUS
  <2>3. xterm' = y /\ slot' = slot /\ streams' = [streams EXCEPT ![n] = t]
    BY <1>1, <1>2, <1>6, <2>1, <2>2 DEF FlushFrame, Current
  <2>4. s.pending \in Seq(Frame) /\ <<>> \in Seq(Frame)
    BY <1>4 DEF Stream
  <2>5. Showed(y, xterm, s.pending)
    BY <1>0, <2>1, <2>4, Written
  <2>6. s.stage = "attached"
    BY <1>3, <1>4 DEF Sound
  <2>7. Linked(s.pending, xterm.upto)
    BY <1>4, <1>6, <2>6 DEF Sound
  <2>8. y \in Screen /\ ~y.torn /\ y.upto = LastOf(s.pending, xterm.upto)
    BY <1>0, <2>5, <2>7 DEF Showed
  <2>9. /\ t \in Stream /\ t.cancelled = s.cancelled /\ t.stage = "attached" /\ t.wire = s.wire
        /\ t.pending = <<>> /\ t.next = s.next
    BY <1>4, <2>2, <2>4, <2>6 DEF Stream
  <2>10. LastOf(<<>>, y.upto) = y.upto /\ Linked(<<>>, y.upto)
    BY DEF LastOf, Linked
  <2>11. Sound(t, y.upto, slot.visible)
    BY <1>4, <2>6, <2>8, <2>9, <2>10 DEF Sound
  <2>12. Whole([streams EXCEPT ![n] = t], slot, y)
    BY <1>0, <1>1, <1>2, <1>4, <2>8, <2>9, <2>11, StreamKeeps
  <2> QED
    BY <2>3, <2>12
<1> QED
  BY <1>4, <1>5, <1>6 DEF Stream

\* An attachment resolves: a refused one leaves the pane to its retry.
LEMMA SettlesKeep ==
  ASSUME TermInv, Settles
  PROVE  Whole(streams', slot', xterm')
<1>0. /\ Whole(streams, slot, xterm) /\ slot \in Slot /\ xterm \in Screen /\ ~xterm.torn
      /\ Waiting(slot)
  BY WholeParts DEF TermInv
<1>1. PICK n \in DOMAIN streams :
        /\ streams[n].stage # "asked"
        /\ streams' = [streams EXCEPT ![n].settled = TRUE]
        /\ slot' = IF n # slot.stream THEN slot
                   ELSE IF streams[n].stage = "refused"
                   THEN [slot EXCEPT !.state = "not-started", !.stream = None,
                                     !.timer = slot.active]
                   ELSE [slot EXCEPT !.state = "live"]
        /\ xterm' = xterm
  BY DEF Settles, Current
<1>2. PICK s : s = streams[n]
  OBVIOUS
<1>3. s \in Stream /\ n # None
  BY <1>0, <1>2, TerminalAssumption, WholeParts
<1>4. PICK t : t = [s EXCEPT !.settled = TRUE]
  OBVIOUS
<1>5. /\ t \in Stream /\ t.cancelled = s.cancelled /\ t.stage = s.stage /\ t.wire = s.wire
      /\ t.pending = s.pending /\ t.next = s.next /\ t.desynced = s.desynced /\ t.frame = s.frame
  BY <1>3, <1>4 DEF Stream
<1>6. Quiet(s) => Quiet(t)
  BY <1>5 DEF Quiet
<1>7. \A visible : Sound(s, xterm.upto, visible) => Sound(t, xterm.upto, visible)
  BY <1>5 DEF Sound
<1>8. PICK new : new = [streams EXCEPT ![n] = t]
  OBVIOUS
<1>9. streams' = new
  BY <1>1, <1>2, <1>4, <1>8
<1>10. Whole(new, slot, xterm)
  <2>1. n = slot.stream => Sound(t, xterm.upto, slot.visible)
    BY <1>0, <1>2, <1>3, <1>7, WholeParts
  <2> QED
    BY <1>0, <1>2, <1>5, <1>6, <1>8, <2>1, StreamKeeps
<1>11. CASE n # slot.stream
  BY <1>1, <1>9, <1>10, <1>11
<1>12. CASE n = slot.stream /\ s.stage = "refused"
  <2>1. PICK w : w = [slot EXCEPT !.state = "not-started", !.stream = None, !.timer = slot.active]
    OBVIOUS
  <2>2. /\ w \in Slot /\ w.stream = None /\ w.mounted = slot.mounted /\ w.active = slot.active
        /\ w.timer = slot.active
    BY <1>0, <2>1 DEF Slot
  <2>3. slot.mounted /\ Sound(t, xterm.upto, slot.visible)
    BY <1>0, <1>2, <1>3, <1>7, <1>12, WholeParts
  <2>4. Waiting(w)
    BY <2>2, <2>3 DEF Waiting
  <2>5. Quiet(t)
    BY <1>5, <1>12, <2>3 DEF Quiet, Sound
  <2>6. AllQuiet(new)
    <3>1. streams \in Seq(Stream) /\ OneCurrent(streams, n)
      BY <1>0, <1>12 DEF Whole
    <3>2. \A m \in DOMAIN new : m \in DOMAIN streams /\ new[m] = IF m = n THEN t ELSE streams[m]
      BY <1>8, <3>1
    <3> QED
      BY <2>5, <3>1, <3>2 DEF AllQuiet, OneCurrent
  <2>7. new \in Seq(Stream)
    BY <1>10 DEF Whole
  <2>8. Whole(new, w, xterm)
    BY <1>0, <2>2, <2>4, <2>6, <2>7, NoneIsWhole
  <2>9. slot' = w
    BY <1>1, <1>2, <1>12, <2>1
  <2> QED
    BY <1>1, <1>9, <2>8, <2>9
<1>13. CASE n = slot.stream /\ s.stage # "refused"
  <2>1. PICK w : w = [slot EXCEPT !.state = "live"]
    OBVIOUS
  <2>2. /\ w \in Slot /\ w.stream = slot.stream /\ w.mounted = slot.mounted
        /\ w.active = slot.active /\ w.timer = slot.timer /\ w.visible = slot.visible
    BY <1>0, <2>1 DEF Slot
  <2>3. Waiting(w)
    BY <1>0, <2>2 DEF Waiting
  <2>4. Whole(new, w, xterm)
    BY <1>10, <2>2, <2>3, SlotKeeps
  <2>5. slot' = w
    BY <1>1, <1>2, <1>13, <2>1
  <2> QED
    BY <1>1, <1>9, <2>4, <2>5
<1> QED
  BY <1>11, <1>12, <1>13

LEMMA MountKeeps ==
  ASSUME TermInv, MountPane
  PROVE  Whole(streams', slot', xterm')
<1>1. /\ Whole(streams, slot, xterm) /\ Waiting(slot) /\ streams \in Seq(Stream)
      /\ slot.stream = None => AllQuiet(streams)
  BY WholeParts DEF TermInv
<1>2. AllQuiet(streams)
  BY <1>1 DEF MountPane, Waiting
<1>3. PICK v : v = OpenPane
  OBVIOUS
<1>4. v \in Slot /\ v.mounted
  <2>1. pty.active \in BOOLEAN
    BY DEF TermInv, Pty
  <2> QED
    BY <1>3, <2>1 DEF OpenPane, Slot
<1>5. Attach(v, streams) /\ xterm' = Blank
  BY <1>3 DEF MountPane
<1> QED
  BY <1>1, <1>2, <1>4, <1>5, BlankScreen, AttachKeeps

LEMMA UnmountKeeps ==
  ASSUME TermInv, UnmountPane
  PROVE  Whole(streams', slot', xterm')
<1>1. slot \in Slot /\ streams \in Seq(Stream) /\ OneCurrent(streams, slot.stream)
  BY DEF TermInv, Whole
<1>2. PICK new : new = CancelOld(streams, slot.stream)
  OBVIOUS
<1>3. new \in Seq(Stream) /\ AllQuiet(new)
  <2>1. slot.stream \in Nat \cup {None}
    BY <1>1 DEF Slot
  <2> QED
    BY <1>1, <1>2, <2>1, CancelQuiets
<1>4. PICK w : w = [slot EXCEPT !.mounted = FALSE, !.visible = FALSE, !.stream = None, !.timer = FALSE]
  OBVIOUS
<1>5. w \in Slot /\ w.stream = None /\ ~w.mounted /\ ~w.timer
  BY <1>1, <1>4 DEF Slot
<1>6. Whole(new, w, Blank)
  BY <1>3, <1>5, BlankScreen, NoneIsWhole DEF Waiting
<1>7. streams' = new /\ slot' = w /\ xterm' = Blank
  BY <1>2, <1>4 DEF UnmountPane, Current
<1> QED
  BY <1>6, <1>7

LEMMA HideKeeps ==
  ASSUME TermInv, HidePane
  PROVE  Whole(streams', slot', xterm')
<1>1. Whole(streams, slot, xterm) /\ slot \in Slot /\ Waiting(slot)
  BY WholeParts DEF TermInv
<1>2. PICK w : w = [slot EXCEPT !.visible = FALSE]
  OBVIOUS
<1>3. /\ w \in Slot /\ w.stream = slot.stream /\ w.mounted = slot.mounted
      /\ w.active = slot.active /\ w.timer = slot.timer /\ ~w.visible
  BY <1>1, <1>2 DEF Slot
<1>4. Waiting(w)
  BY <1>1, <1>3 DEF Waiting
<1>5. Whole(streams, w, xterm)
  BY <1>1, <1>3, <1>4, SlotKeeps
<1>6. streams' = streams /\ slot' = w /\ xterm' = xterm
  BY <1>2 DEF HidePane
<1> QED
  BY <1>5, <1>6

\* Shown again, a pane asks for a frame for what accrued while it was hidden.
LEMMA ShowKeeps ==
  ASSUME TermInv, ShowPane
  PROVE  Whole(streams', slot', xterm')
<1>0. /\ Whole(streams, slot, xterm) /\ slot \in Slot /\ xterm \in Screen /\ ~xterm.torn
      /\ Waiting(slot) /\ streams \in Seq(Stream)
  BY WholeParts DEF TermInv
<1>1. PICK w : w = [slot EXCEPT !.visible = TRUE]
  OBVIOUS
<1>2. /\ w \in Slot /\ w.stream = slot.stream /\ w.mounted = slot.mounted
      /\ w.active = slot.active /\ w.timer = slot.timer /\ w.visible
  BY <1>0, <1>1 DEF Slot
<1>3. Waiting(w)
  BY <1>0, <1>2 DEF Waiting
<1>4. CASE slot.stream # None /\ streams[slot.stream].desynced
  <2>1. Reattach(w)
    BY <1>1, <1>4 DEF ShowPane, Current
  <2>2. w.mounted
    BY <1>2 DEF ShowPane
  <2> QED
    BY <1>0, <1>2, <2>1, <2>2, ReattachKeeps
<1>5. CASE ~(slot.stream # None /\ streams[slot.stream].desynced)
  <2>1. slot' = w /\ streams' = Resumed(streams) /\ xterm' = xterm
    BY <1>1, <1>5 DEF ShowPane, Current
  <2>2. CASE slot.stream = None
    <3>1. streams' = streams
      BY <2>1, <2>2 DEF Resumed, Current
    <3>2. AllQuiet(streams)
      BY <1>0, <2>2, WholeParts
    <3>3. Whole(streams, w, xterm)
      BY <1>0, <1>2, <1>3, <2>2, <3>2, NoneIsWhole
    <3> QED
      BY <2>1, <3>1, <3>3
  <2>3. CASE slot.stream # None
    <3>1. PICK n : n = slot.stream
      OBVIOUS
    <3>2. PICK s : s = streams[n]
      OBVIOUS
    <3>3. PICK b : b = (s.frame \/ s.pending # <<>>)
      OBVIOUS
    <3>4. PICK t : t = [s EXCEPT !.frame = @ \/ s.pending # <<>>]
      OBVIOUS
    <3>5. streams' = [streams EXCEPT ![n] = t]
      <4>1. Resumed(streams) =
              [streams EXCEPT ![n].frame = @ \/ streams[n].pending # <<>>]
        BY <2>3, <3>1 DEF Resumed, Current
      <4> QED
        BY <2>1, <3>1, <3>2, <3>4, <4>1, Zenon
    <3>12. t = [s EXCEPT !.frame = b]
      BY <3>3, <3>4
    <3>6. n \in DOMAIN streams /\ s \in Stream /\ Sound(s, xterm.upto, slot.visible)
      BY <1>0, <2>3, <3>1, <3>2, WholeParts
    <3>7. b \in BOOLEAN /\ (s.pending # <<>> => b) /\ (s.frame = FALSE /\ s.pending = <<>> => ~b)
      BY <3>3
    <3>8. /\ t \in Stream /\ t.cancelled = s.cancelled /\ t.stage = s.stage /\ t.wire = s.wire
          /\ t.pending = s.pending /\ t.next = s.next /\ t.desynced = s.desynced /\ t.frame = b
      BY <3>6, <3>7, <3>12 DEF Stream
    <3>9. s.frame \in BOOLEAN
      BY <3>6 DEF Stream
    <3>10. Sound(t, xterm.upto, w.visible)
      BY <3>6, <3>7, <3>8, <3>9 DEF Sound
    <3>11. Whole([streams EXCEPT ![n] = t], w, xterm)
      BY <1>0, <1>2, <1>3, <3>1, <3>2, <3>6, <3>8, <3>10, StreamKeeps
    <3> QED
      BY <2>1, <3>5, <3>11
  <2> QED
    BY <2>2, <2>3
<1> QED
  BY <1>4, <1>5

\* An active process is attached to at once; a pane that has a stream keeps it.
LEMMA HearsKeeps ==
  ASSUME TermInv, HearsStatus
  PROVE  Whole(streams', slot', xterm')
<1>0. /\ Whole(streams, slot, xterm) /\ slot \in Slot /\ xterm \in Screen /\ ~xterm.torn
      /\ Waiting(slot) /\ streams \in Seq(Stream) /\ pty.active \in BOOLEAN
      /\ slot.stream = None => AllQuiet(streams)
  BY WholeParts DEF TermInv, Pty
<1>1. PICK w : w = [slot EXCEPT !.active = pty.active, !.timer = FALSE]
  OBVIOUS
<1>2. /\ w \in Slot /\ w.stream = slot.stream /\ w.mounted = slot.mounted
      /\ w.active = pty.active /\ ~w.timer /\ w.visible = slot.visible
  BY <1>0, <1>1 DEF Slot
<1>3. xterm' = xterm /\ slot.mounted
  BY DEF HearsStatus
<1>4. CASE w.active /\ slot.stream = None
  <2>1. Attach(w, streams)
    BY <1>1, <1>4 DEF HearsStatus, Current
  <2> QED
    BY <1>0, <1>2, <1>3, <1>4, <2>1, AttachKeeps
<1>5. CASE ~(w.active /\ slot.stream = None)
  <2>1. slot' = w /\ streams' = streams
    BY <1>1, <1>5 DEF HearsStatus, Current
  <2>2. Waiting(w)
    BY <1>0, <1>2, <1>3, <1>5 DEF Waiting
  <2>3. Whole(streams, w, xterm)
    BY <1>0, <1>2, <2>2, SlotKeeps
  <2> QED
    BY <1>3, <2>1, <2>3
<1> QED
  BY <1>4, <1>5

LEMMA RetryKeeps ==
  ASSUME TermInv, RetryTimer
  PROVE  Whole(streams', slot', xterm')
<1>1. /\ Whole(streams, slot, xterm) /\ slot \in Slot /\ xterm \in Screen /\ ~xterm.torn
      /\ Waiting(slot) /\ streams \in Seq(Stream)
      /\ slot.stream = None => AllQuiet(streams)
  BY WholeParts DEF TermInv
<1>2. AllQuiet(streams) /\ slot.mounted
  BY <1>1 DEF RetryTimer, Waiting
<1>3. Attach(slot, streams) /\ xterm' = xterm
  BY DEF RetryTimer
<1> QED
  BY <1>1, <1>2, <1>3, AttachKeeps

\* The scrollback comes first, and the number of its last chunk is the next one's.
LEMMA ServeKeeps ==
  ASSUME TermInv, ServeAttach
  PROVE  Whole(streams', slot', xterm')
<1>0. /\ Whole(streams, slot, xterm) /\ slot \in Slot /\ xterm \in Screen /\ ~xterm.torn
      /\ Waiting(slot) /\ pty.out \in Nat
  BY WholeParts DEF TermInv, Pty
<1>1. PICK n \in DOMAIN streams :
        /\ streams[n].stage = "asked"
        /\ streams' = [streams EXCEPT ![n] =
             IF pty.started
             THEN [streams[n] EXCEPT !.stage = "attached", !.wire = <<Snapshot>>, !.next = pty.out + 1]
             ELSE [streams[n] EXCEPT !.stage = "refused"]]
        /\ slot' = slot /\ xterm' = xterm
  BY DEF ServeAttach
<1>2. PICK s : s = streams[n]
  OBVIOUS
<1>3. s \in Stream /\ n # None
  BY <1>0, <1>2, TerminalAssumption, WholeParts
<1>4. n = slot.stream => Sound(s, xterm.upto, slot.visible)
  BY <1>0, <1>2, <1>3, WholeParts
<1>5. s.stage = "asked"
  BY <1>1, <1>2
<1>6. \E t \in Stream :
        /\ streams' = [streams EXCEPT ![n] = t]
        /\ t.cancelled = s.cancelled /\ (Quiet(s) => Quiet(t))
        /\ n = slot.stream => Sound(t, xterm.upto, slot.visible)
  <2>1. CASE pty.started
    <3>1. PICK f : f = Snapshot
      OBVIOUS
    <3>2. f \in Frame /\ f.resync /\ f.n = pty.out
      BY <1>0, <3>1 DEF Snapshot, Frame
    <3>3. PICK q : q = <<f>>
      OBVIOUS
    <3>4. q \in Seq(Frame) /\ \A from : LastOf(q, from) = pty.out /\ Linked(q, from)
      BY <3>2, <3>3, LinkedOne
    <3>5. PICK next : next = pty.out + 1
      OBVIOUS
    <3>6. PICK t : t = [s EXCEPT !.stage = "attached", !.wire = q, !.next = next]
      OBVIOUS
    <3>7. /\ t \in Stream /\ t.cancelled = s.cancelled /\ t.stage = "attached" /\ t.wire = q
          /\ t.pending = s.pending /\ t.next = next
      <4>1. q \in Seq(Frame) /\ next \in Nat
        BY <1>0, <3>4, <3>5
      <4> QED
        BY <1>3, <3>6, <4>1 DEF Stream
    <3>8. streams' = [streams EXCEPT ![n] = t]
      BY <1>1, <1>2, <2>1, <3>1, <3>3, <3>5, <3>6
    <3>9. Quiet(s) => Quiet(t)
      BY <1>5, <3>7 DEF Quiet
    <3>10. n = slot.stream => Sound(t, xterm.upto, slot.visible)
      <4>1. ASSUME n = slot.stream PROVE s.pending = <<>>
        BY <1>4, <1>5, <4>1 DEF Sound
      <4>2. Linked(<<>>, xterm.upto)
        BY DEF Linked
      <4> QED
        BY <1>0, <3>4, <3>5, <3>7, <4>1, <4>2 DEF Sound
    <3> QED
      BY <3>7, <3>8, <3>9, <3>10
  <2>2. CASE ~pty.started
    <3>1. PICK t : t = [s EXCEPT !.stage = "refused"]
      OBVIOUS
    <3>2. /\ t \in Stream /\ t.cancelled = s.cancelled /\ t.stage = "refused" /\ t.wire = s.wire
          /\ t.pending = s.pending /\ t.frame = s.frame /\ t.desynced = s.desynced
      BY <1>3, <3>1 DEF Stream
    <3>3. streams' = [streams EXCEPT ![n] = t]
      BY <1>1, <1>2, <2>2, <3>1
    <3>4. Quiet(s) => Quiet(t)
      BY <1>5, <3>2 DEF Quiet
    <3>5. n = slot.stream => Sound(t, xterm.upto, slot.visible)
      BY <1>4, <1>5, <3>2 DEF Sound
    <3> QED
      BY <3>2, <3>3, <3>4, <3>5
  <2> QED
    BY <2>1, <2>2
<1>7. PICK t \in Stream :
        /\ streams' = [streams EXCEPT ![n] = t]
        /\ t.cancelled = s.cancelled /\ (Quiet(s) => Quiet(t))
        /\ n = slot.stream => Sound(t, xterm.upto, slot.visible)
  BY <1>6
<1>8. Whole([streams EXCEPT ![n] = t], slot, xterm)
  BY <1>0, <1>2, <1>7, StreamKeeps
<1> QED
  BY <1>1, <1>7, <1>8

\* The forwarder sends a frame, and has a next one to send.
Sends(t, s, f, next) ==
  /\ t = [s EXCEPT !.wire = Append(s.wire, f), !.next = next]
  /\ next = f.n + 1
  /\ f.resync \/ f.n = s.next

\* The next chunk follows the last one sent; after a gap the scrollback is sent.
LEMMA ForwardsKeep ==
  ASSUME TermInv, Forwards
  PROVE  Whole(streams', slot', xterm')
<1>0. /\ Whole(streams, slot, xterm) /\ slot \in Slot /\ xterm \in Screen /\ ~xterm.torn
      /\ Waiting(slot) /\ pty.out \in Nat
  BY WholeParts DEF TermInv, Pty
<1>1. PICK n \in DOMAIN streams :
        /\ streams[n].stage = "attached"
        /\ streams' = [streams EXCEPT ![n] = Forwarded(streams[n])]
        /\ slot' = slot /\ xterm' = xterm
  BY DEF Forwards
<1>2. PICK s : s = streams[n]
  OBVIOUS
<1>3. s \in Stream /\ n # None
  BY <1>0, <1>2, TerminalAssumption, WholeParts
<1>4. n = slot.stream => Sound(s, xterm.upto, slot.visible)
  BY <1>0, <1>2, <1>3, WholeParts
<1>5. s.stage = "attached" /\ s.wire \in Seq(Frame) /\ s.next \in Nat
  BY <1>1, <1>2, <1>3 DEF Stream
<1>6. PICK t : t = Forwarded(s)
  OBVIOUS
<1>7. PICK f \in Frame, next \in Nat : Sends(t, s, f, next)
  <2>1. CASE pty.out - s.next + 1 > LiveCapacity
    <3>1. PICK f : f = Snapshot
      OBVIOUS
    <3>2. f \in Frame /\ f.resync /\ f.n = pty.out
      BY <1>0, <3>1 DEF Snapshot, Frame
    <3>3. t = [s EXCEPT !.wire = Append(s.wire, f), !.next = pty.out + 1]
      BY <1>6, <2>1, <3>1 DEF Forwarded
    <3>4. pty.out + 1 \in Nat /\ Sends(t, s, f, pty.out + 1)
      BY <1>0, <3>2, <3>3 DEF Sends
    <3> QED
      BY <3>2, <3>4
  <2>2. CASE ~(pty.out - s.next + 1 > LiveCapacity)
    <3>1. PICK f : f = Chunk(s.next)
      OBVIOUS
    <3>2. f \in Frame /\ f.n = s.next
      BY <1>5, <3>1 DEF Chunk, Frame
    <3>3. t = [s EXCEPT !.wire = Append(s.wire, f), !.next = s.next + 1]
      BY <1>6, <2>2, <3>1 DEF Forwarded
    <3>4. s.next + 1 \in Nat /\ Sends(t, s, f, s.next + 1)
      BY <1>5, <3>2, <3>3 DEF Sends
    <3> QED
      BY <3>2, <3>4
  <2> QED
    BY <2>1, <2>2
<1>8. PICK q : q = Append(s.wire, f)
  OBVIOUS
<1>9. /\ q \in Seq(Frame) /\ \A from : LastOf(q, from) = f.n
      /\ \A from : Linked(s.wire, from) /\ Follows(f, LastOf(s.wire, from)) => Linked(q, from)
  BY <1>5, <1>8, LinkedAppend
<1>10. /\ t \in Stream /\ t.cancelled = s.cancelled /\ t.stage = "attached" /\ t.wire = q
       /\ t.pending = s.pending /\ t.frame = s.frame /\ t.desynced = s.desynced /\ t.next = next
  <2>1. t = [s EXCEPT !.wire = q, !.next = next] /\ q \in Seq(Frame)
    BY <1>7, <1>8, <1>9 DEF Sends
  <2> QED
    BY <1>3, <1>5, <1>7, <2>1 DEF Stream
<1>11. Quiet(s) => Quiet(t)
  BY <1>5, <1>10 DEF Quiet
<1>12. ASSUME n = slot.stream PROVE Sound(t, xterm.upto, slot.visible)
  <2>1. Sound(s, xterm.upto, slot.visible)
    BY <1>4, <1>12
  <2>2. PICK from : from = LastOf(s.pending, xterm.upto)
    OBVIOUS
  <2>3. /\ Linked(s.wire, from) /\ LastOf(s.wire, from) \in Nat
        /\ s.next = LastOf(s.wire, from) + 1
    BY <1>5, <2>1, <2>2 DEF Sound
  <2>4. Follows(f, LastOf(s.wire, from))
    BY <1>7, <2>3, TerminalAssumption DEF Follows, Sends
  <2>5. Linked(q, from) /\ LastOf(q, from) = f.n /\ f.n \in Nat /\ next = f.n + 1
    BY <1>7, <1>9, <2>3, <2>4 DEF Frame, Sends
  <2> QED
    BY <1>5, <1>10, <2>1, <2>2, <2>5 DEF Sound
<1>13. Whole([streams EXCEPT ![n] = t], slot, xterm)
  BY <1>0, <1>2, <1>10, <1>11, <1>12, StreamKeeps
<1> QED
  BY <1>1, <1>2, <1>6, <1>13

-------------------------------------------------------------------------------
(* The theorem.                                                              *)

LEMMA TermStart == TerminalInit => TermInv
<1> SUFFICES ASSUME TerminalInit PROVE TermInv
  OBVIOUS
<1>1. pty \in Pty
  <2>1. pty \in [started : BOOLEAN, active : {FALSE}, out : {0}]
    BY DEF TerminalInit
  <2>2. \A b \in BOOLEAN : [started |-> b, active |-> FALSE, out |-> 0] \in Pty
    BY DEF Pty
  <2>3. PICK b \in BOOLEAN : pty = [started |-> b, active |-> FALSE, out |-> 0]
    BY <2>1
  <2> QED
    BY <2>2, <2>3
<1>2. slot \in Slot /\ slot.stream = None /\ Waiting(slot)
  BY DEF TerminalInit, Slot, Waiting
<1>3. streams \in Seq(Stream) /\ AllQuiet(streams)
  BY DEF TerminalInit, AllQuiet
<1>4. xterm \in Screen /\ ~xterm.torn
  BY BlankScreen DEF TerminalInit
<1> QED
  BY <1>1, <1>2, <1>3, <1>4, NoneIsWhole DEF TermInv

LEMMA ProcessKeeps ==
  ASSUME pty \in Pty, [TerminalNext]_terminalVars
  PROVE  pty' \in Pty
<1>1. pty' = pty \/ ProcessTurns \/ Records
  BY DEF TerminalNext, terminalVars, UserTurns, Gesture, MountPane, UnmountPane, HidePane, ShowPane,
         Arrives, FlushFrame, Settles, HearsStatus, RetryTimer, ServeAttach, Forwards
<1>2. CASE ProcessTurns
  BY <1>2 DEF ProcessTurns, Gesture, Launches, Ends, Pty
<1>3. CASE Records
  BY <1>3 DEF Records, Pty
<1> QED
  BY <1>1, <1>2, <1>3

LEMMA TermStep == TermInv /\ [TerminalNext]_terminalVars => TermInv'
<1> SUFFICES ASSUME TermInv, [TerminalNext]_terminalVars PROVE TermInv'
  OBVIOUS
<1>1. pty' \in Pty
  BY ProcessKeeps DEF TermInv
<1>2. Whole(streams', slot', xterm')
  <2>1. CASE UserTurns
    <3>1. MountPane \/ UnmountPane \/ HidePane \/ ShowPane
      BY <2>1 DEF UserTurns, Gesture
    <3> QED
      BY <3>1, MountKeeps, UnmountKeeps, HideKeeps, ShowKeeps
  <2>2. CASE ProcessTurns \/ Records \/ UNCHANGED terminalVars
    <3>1. streams' = streams /\ slot' = slot /\ xterm' = xterm
      BY <2>2 DEF ProcessTurns, Records, terminalVars
    <3> QED
      BY <3>1 DEF TermInv
  <2>3. CASE Arrives
    BY <2>3, ArrivesKeeps
  <2>4. CASE FlushFrame
    BY <2>4, FlushKeeps
  <2>5. CASE Settles
    BY <2>5, SettlesKeep
  <2>6. CASE HearsStatus \/ RetryTimer
    BY <2>6, HearsKeeps, RetryKeeps
  <2>7. CASE ServeAttach \/ Forwards
    BY <2>7, ServeKeeps, ForwardsKeep
  <2> QED
    BY <2>1, <2>2, <2>3, <2>4, <2>5, <2>6, <2>7 DEF TerminalNext
<1> QED
  BY <1>1, <1>2 DEF TermInv

LEMMA TermShows == TermInv => PaneHolds
<1> SUFFICES ASSUME TermInv PROVE PaneHolds
  OBVIOUS
<1>1. /\ Waiting(slot) /\ ~xterm.torn /\ pty.out \in Nat /\ xterm \in Screen
      /\ slot.stream # None => Sound(streams[slot.stream], xterm.upto, slot.visible)
      /\ slot.stream # None => streams[slot.stream] \in Stream
  BY WholeParts DEF TermInv, Pty
<1>2. NoGap /\ NotStranded
  BY <1>1 DEF NoGap, NotStranded, Waiting, Current
<1>3. ShowsAll
  <2> SUFFICES ASSUME slot.visible, slot.stream # None,
                      streams[slot.stream].stage = "attached",
                      streams[slot.stream].wire = <<>>, ~streams[slot.stream].frame,
                      streams[slot.stream].next = pty.out + 1
               PROVE  xterm.upto = pty.out
    BY DEF ShowsAll, Current
  <2>1. PICK s : s = streams[slot.stream]
    OBVIOUS
  <2>2. s.pending = <<>>
    BY <1>1, <2>1 DEF Sound
  <2>3. LastOf(s.wire, LastOf(s.pending, xterm.upto)) = xterm.upto
    BY <2>1, <2>2 DEF LastOf
  <2>4. xterm.upto \in Nat /\ s.next = xterm.upto + 1
    BY <1>1, <2>1, <2>3 DEF Sound
  <2> QED
    BY <1>1, <2>1, <2>4
<1> QED
  BY <1>2, <1>3 DEF PaneHolds

\* No chunk is lost, torn or doubled on its way into the emulator, a pane in view with
\* nothing more to come shows all of the output, and one without a stream retries
\* (terminalStream.ts, useTerminal.ts).
THEOREM PaneHoldsAlways == TerminalSpec => []PaneHolds
<1>1. TerminalSpec => []TermInv
  BY TermStart, TermStep, PTL DEF TerminalSpec
<1> QED
  BY <1>1, TermShows, PTL

=============================================================================
