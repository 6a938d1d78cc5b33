-------------------------------- MODULE GitRail --------------------------------
(***************************************************************************)
(* What the window can do to a repository (components/git and store/git):   *)
(* the rail with its commit box, the branch cluster it publishes to the     *)
(* window chrome, the hunks of the diff, and the pull-request pane.  The    *)
(* rail is keyed by the project in view, so it and its box start over when  *)
(* that changes, while calls it sent are still under way and land in it     *)
(* only if it is still mounted.  An exchange with the remote can be stopped; *)
(* the core runs one change of a repository at a time and arms the stop of  *)
(* the one that is running.                                                 *)
(*                                                                          *)
(* A text is the projects it was written for.  What git does to a working   *)
(* tree is left out, but for what is staged and whether a merge is under    *)
(* way, which decide what is offered.                                       *)
(***************************************************************************)
EXTENDS WindowDomain

CONSTANTS
  RailProject,    \* projects with a repository
  RailVerbs,      \* sets of calls; a behaviour uses one of them
  MaxSwitches,    \* changes of the project in view, and of its split
  MaxCalls,       \* calls sent
  MaxWords        \* edits of a text

VARIABLES
  works,          \* the calls a behaviour uses
  inView,         \* activeProjectId, and what the split holds
  rail,           \* GitRail, its hooks and the commit box; `mount` counts its keys
  pane,           \* the split's pane, and its hooks
  cluster,        \* what branchCluster.ts has published
  question,       \* the confirmation open, and the project it was asked about
  calls,          \* calls under way
  repos,          \* the core: each repository, and the holder of its gate
  alerts,         \* exchanges refused: those raised, those the user never heard of, and
                  \* those whose rail was gone
  railSpent       \* bounds used up

railVars == <<works, inView, rail, pane, cluster, question, calls, repos, alerts, railSpent>>

-------------------------------------------------------------------------------
(* Calls, and the key useGitActions tracks each under.                       *)

Exchanges == {"fetch", "pull", "push"}
BranchVerbs == {"createBranch", "switchBranch", "deleteBranch"}
Stashing == {"stash", "popStash"}
HunkVerbs == {"stageHunk", "unstageHunk", "discardHunk"}
PaneVerbs == HunkVerbs \cup {"propose", "draftBody", "mergePullRequest", "handOff"}

\* Drafts and hand-offs run an agent, not git: they wait for no gate.
Ungated == {"draftMessage", "draftBody", "handOff", "trust"}

KeyOf(verb) ==
  CASE verb \in Exchanges                       -> "exchange"
    [] verb \in BranchVerbs                     -> "branch"
    [] verb \in Stashing                        -> "stash"
    [] verb \in {"stage", "unstage", "discard"} -> "path"
    [] verb \in HunkVerbs                       -> "hunk"
    [] OTHER                                    -> verb

RailBusy(keys) == rail.running \cap keys # {}
PaneBusy(keys) == pane.running \cap keys # {}

-------------------------------------------------------------------------------
(* What each surface offers, from the last status it has read.               *)

PaneShown ==
  IF inView.held # None /\ inView.held.project = inView.project THEN inView.held.kind ELSE None

TrustNoticeOffers == {v \in {"trust"} : rail.trusted = FALSE}
ChangesTreeOffers == {v \in {"stage", "unstage"} : rail.trusted = TRUE /\ ~RailBusy({"path"})}

\* CommitBox: a message, and something staged or the last commit to replace.
Ready == rail.typed # None /\ (rail.amend \/ rail.status.staged)
CommitBoxOffers ==
  IF rail.status = None \/ rail.trusted # TRUE \/ RailBusy({"commit", "draftMessage"}) THEN {}
  ELSE {v \in {"commit"} : Ready} \cup {v \in {"draftMessage"} : rail.status.staged}

\* BranchCluster acts through what was published, whatever the rail is by now.
ClusterTrusted == cluster # None /\ cluster.trusted
BranchMenuOffers ==
  {v \in {"createBranch", "switchBranch"} \cup Stashing : ClusterTrusted /\ ~cluster.busy}
SyncActionsOffers ==
  IF ~ClusterTrusted THEN {} ELSE IF cluster.exchanging THEN {"stop"} ELSE Exchanges

\* DiffPane, with a trust read of its own.
HunkActionsOffers ==
  {v \in {"stageHunk", "unstageHunk"} :
     PaneShown = "change" /\ pane.trusted = TRUE /\ ~PaneBusy({"hunk"})}

\* PullRequestPane: the proposal as it stands, or the form once it is opened;
\* whether the branch has one open already is left out.
ProposalOffers == {v \in {"propose"} : ~PaneBusy({"propose"})}
FormOffers == {v \in {"propose", "draftBody"} : ~PaneBusy({"propose", "draftBody"})}
PullRequestBodyOffers == IF pane.editing THEN FormOffers ELSE ProposalOffers
CheckListOffers == {"handOff"}
ReviewThreadListOffers == {"handOff"}
PullRequestReviewOffers == CheckListOffers \cup ReviewThreadListOffers
PullRequestOffers ==
  IF PaneShown # "pull_request" THEN {} ELSE PullRequestBodyOffers \cup PullRequestReviewOffers

Offered == works \cap
  (TrustNoticeOffers \cup ChangesTreeOffers \cup CommitBoxOffers \cup BranchMenuOffers
   \cup SyncActionsOffers \cup HunkActionsOffers \cup PullRequestOffers)

\* What asks before it acts, wherever its dialog is kept.
DiscardQuestion == {v \in {"discard"} : rail.trusted = TRUE /\ ~RailBusy({"path"})}
ConflictQuestion ==
  {v \in {"abortMerge"} : rail.status # None /\ rail.status.merging /\ ~RailBusy({"abortMerge"})}
BranchQuestion == {v \in {"deleteBranch"} : ClusterTrusted}
HunkQuestion == {v \in {"discardHunk"} : "stageHunk" \in HunkActionsOffers}
MergeQuestion ==
  {v \in {"mergePullRequest"} :
     PaneShown = "pull_request" /\ ~PaneBusy({"mergePullRequest"})}

Questions == works \cap
  (DiscardQuestion \cup ConflictQuestion \cup BranchQuestion \cup HunkQuestion \cup MergeQuestion)

-------------------------------------------------------------------------------
(* GitRail's effect: the cluster it publishes from what it has read.         *)

Published(r) ==
  IF r.status = None THEN None
  ELSE [project |-> inView.project, trusted |-> r.trusted = TRUE,
        exchanging |-> "exchange" \in r.running,
        busy |-> r.running \cap {"exchange", "branch", "stash"} # {}]

Publish(r) == rail' = r /\ cluster' = Published(r)

-------------------------------------------------------------------------------
(* The user.                                                                 *)

\* What a call says: the message, the form's description, or the suggestion,
\* which is computed from the project's own commits.
WordsOf(verb) ==
  CASE verb = "commit"  -> rail.typed
    [] verb = "propose" -> IF pane.editing /\ pane.typed # None THEN pane.typed
                           ELSE {inView.project}
    [] OTHER            -> {}

\* Mutant: an exchange starts with the stop of the one before.
RailRunningStale(verb) == [rail EXCEPT !.running = @ \cup {KeyOf(verb)}]

\* run, and exchange, which has not been asked to stop.
RailRunning(verb) ==
  [rail EXCEPT !.running = @ \cup {KeyOf(verb)}, !.stopped = @ /\ verb \notin Exchanges]

\* A call, for the project its surface was rendered with.
Run(verb) ==
  /\ railSpent.calls < MaxCalls
  /\ railSpent' = [railSpent EXCEPT !.calls = @ + 1]
  /\ calls' = calls \cup
       {[n |-> railSpent.calls, verb |-> verb, project |-> inView.project,
         mount |-> IF verb \in PaneVerbs THEN pane.mount ELSE rail.mount,
         words |-> WordsOf(verb), amend |-> rail.amend,
         stage |-> "sent", stopAsked |-> FALSE, halted |-> FALSE]}
  /\ IF verb \in PaneVerbs
     THEN pane' = [pane EXCEPT !.running = @ \cup {KeyOf(verb)}] /\ UNCHANGED <<rail, cluster>>
     ELSE Publish(RailRunning(verb)) /\ UNCHANGED pane

Press ==
  /\ question = None
  /\ \E verb \in Offered \ {"stop"} : Run(verb)
  /\ UNCHANGED <<works, inView, question, repos, alerts>>

\* stopExchange: what comes back is not to be reported, and the core is told.
PressStop ==
  /\ question = None /\ "stop" \in Offered
  /\ rail' = [rail EXCEPT !.stopped = TRUE]
  /\ LET mine == {c \in calls : c.verb \in Exchanges /\ c.mount = rail.mount}
     IN calls' = (calls \ mine) \cup {[c EXCEPT !.stopAsked = TRUE] : c \in mine}
                 \cup {[n |-> MaxCalls, verb |-> "stop", project |-> inView.project,
                        mount |-> rail.mount, words |-> {}, amend |-> FALSE, stage |-> "sent",
                        stopAsked |-> FALSE, halted |-> FALSE]}
  /\ UNCHANGED <<works, inView, pane, cluster, question, repos, alerts, railSpent>>

Question ==
  /\ question = None
  /\ \E verb \in Questions : question' = [verb |-> verb, project |-> inView.project]
  /\ UNCHANGED <<works, inView, rail, pane, cluster, calls, repos, alerts, railSpent>>

\* Confirmed, it acts on the repository now in view; a branch is not removed
\* while nothing is published to remove it through.
Answer ==
  /\ question # None
  /\ question' = None
  /\ \/ (question.verb = "deleteBranch" => ClusterTrusted) /\ Run(question.verb)
     \/ UNCHANGED <<rail, pane, cluster, calls, railSpent>>
  /\ UNCHANGED <<works, inView, repos, alerts>>

\* The commit box and the form.
Type ==
  /\ question = None
  /\ railSpent.words < MaxWords
  /\ railSpent' = [railSpent EXCEPT !.words = @ + 1]
  /\ \/ /\ rail.status # None /\ rail.trusted = TRUE /\ "commit" \in works
        /\ \/ rail' = [rail EXCEPT !.typed = {inView.project}]
           \/ rail' = [rail EXCEPT !.amend = ~@]
        /\ UNCHANGED pane
     \/ /\ PaneShown = "pull_request" /\ "propose" \in works
        /\ pane' = IF pane.editing THEN [pane EXCEPT !.typed = {inView.project}]
                   ELSE [pane EXCEPT !.editing = TRUE]
        /\ UNCHANGED rail
  /\ UNCHANGED <<works, inView, cluster, question, calls, repos, alerts>>

NewRail(mount) == [mount |-> mount, status |-> None, trusted |-> None, running |-> {},
                   stopped |-> FALSE, typed |-> None, amend |-> FALSE]
NewPane(mount) == [mount |-> mount, trusted |-> None, running |-> {}, editing |-> FALSE,
                   typed |-> None]

\* Another project in view: a rail of its own.
RailFor(project) == IF project = inView.project THEN rail ELSE NewRail(rail.mount + 1)

\* The rail that leaves takes its cluster with it, and the new one has read
\* nothing yet.
ClusterFor(project) == IF project = inView.project THEN cluster ELSE None

\* The split belongs to its project, and its pane starts over when it mounts.
PaneFor(project, held) ==
  IF held # None /\ held.project = project /\ PaneShown = held.kind /\ project = inView.project
  THEN pane ELSE NewPane(pane.mount + 1)

\* The rail's and the pane's dialogs go with them; the chrome's stays.
QuestionFor(project) ==
  IF project = inView.project \/ question = None \/ question.verb = "deleteBranch"
  THEN question ELSE None

\* The process in view changes, by the user or because one ends; or the split.
Switch ==
  /\ railSpent.switches < MaxSwitches
  /\ railSpent' = [railSpent EXCEPT !.switches = @ + 1]
  /\ \E project \in RailProject, kind \in {"keep", "none", "change", "pull_request"} :
       /\ IF kind = "keep" THEN project # inView.project
          ELSE project = inView.project /\ question = None
       /\ kind = "pull_request" => ClusterTrusted
       /\ LET held == CASE kind = "keep" -> inView.held
                        [] kind = "none" -> None
                        [] OTHER -> [project |-> project, kind |-> kind]
          IN /\ inView' = [project |-> project, held |-> held]
             /\ pane' = PaneFor(project, held)
       /\ rail' = RailFor(project)
       /\ cluster' = ClusterFor(project)
       /\ question' = QuestionFor(project)
  /\ UNCHANGED <<works, calls, repos, alerts>>

\* A read of the status and of the trust lands (RepositoryReads has the reads).
Reads ==
  LET now == repos[inView.project]
  IN /\ \/ /\ Publish([rail EXCEPT !.status = [staged |-> now.staged, merging |-> now.merging]])
           /\ UNCHANGED pane
        \/ Publish([rail EXCEPT !.trusted = now.trusted]) /\ UNCHANGED pane
        \/ pane' = [pane EXCEPT !.trusted = now.trusted] /\ UNCHANGED <<rail, cluster>>
     /\ UNCHANGED <<works, inView, question, calls, repos, alerts, railSpent>>

-------------------------------------------------------------------------------
(* The core: git/status.rs, git/sync.rs, git/commit.rs.                      *)

Moved(c, stage) == (calls \ {c}) \cup {[c EXCEPT !.stage = stage]}

\* Trust is asked for and a commit's index is looked at before the gate.
Refuses(c) ==
  /\ c.verb \notin {"trust"}
  /\ \/ ~repos[c.project].trusted
     \/ c.verb = "commit" /\ ~c.amend /\ ~repos[c.project].staged

CoreRefuses ==
  \E c \in calls :
    /\ c.stage = "sent" /\ c.verb # "stop" /\ Refuses(c)
    /\ calls' = Moved(c, "refused")
    /\ UNCHANGED <<works, inView, rail, pane, cluster, question, repos, alerts, railSpent>>

\* mutating: one change of a repository at a time.
CoreStarts ==
  \E c \in calls :
    /\ c.stage = "sent" /\ c.verb # "stop" /\ ~Refuses(c)
    /\ c.verb \notin Ungated => repos[c.project].gate = None
    /\ calls' = Moved(c, "running")
    /\ repos' = IF c.verb \in Ungated THEN repos
                ELSE [repos EXCEPT ![c.project].gate = c.n]
    /\ UNCHANGED <<works, inView, rail, pane, cluster, question, alerts, railSpent>>

\* stop_exchange: the signal armed by the exchange that runs, if one does.
CoreStops ==
  \E c \in calls :
    /\ c.verb = "stop"
    /\ calls' = {IF x.verb \in Exchanges /\ x.stage = "running" /\ x.project = c.project
                 THEN [x EXCEPT !.halted = TRUE] ELSE x : x \in calls \ {c}}
    /\ UNCHANGED <<works, inView, rail, pane, cluster, question, repos, alerts, railSpent>>

\* What a call that went through leaves of the repository.
After(c, repo) ==
  CASE c.verb = "trust"   -> [repo EXCEPT !.trusted = TRUE]
    [] c.verb = "commit"  -> [repo EXCEPT !.recorded = @ \cup c.words, !.staged = FALSE]
    [] c.verb = "propose" -> [repo EXCEPT !.recorded = @ \cup c.words]
    [] c.verb \in {"stage", "stageHunk"} -> [repo EXCEPT !.staged = TRUE]
    [] c.verb \in {"unstage", "unstageHunk", "stash"} -> [repo EXCEPT !.staged = FALSE]
    [] c.verb = "abortMerge" -> [repo EXCEPT !.merging = FALSE]
    [] OTHER -> repo

\* It ends, one way or the other; a pull that conflicts leaves a merge behind.
CoreEnds ==
  \E c \in calls, stage \in {"done", "refused"} :
    /\ c.stage = "running"
    /\ c.halted => stage = "refused"
    /\ calls' = Moved(c, stage)
    /\ LET ended == CASE stage = "done" -> After(c, repos[c.project])
                      [] stage = "refused" /\ c.verb = "pull" -> [repos[c.project] EXCEPT !.merging = TRUE]
                      [] OTHER -> repos[c.project]
       IN repos' = [repos EXCEPT ![c.project] =
                      [ended EXCEPT !.gate = IF c.verb \in Ungated THEN @ ELSE None]]
    /\ UNCHANGED <<works, inView, rail, pane, cluster, question, alerts, railSpent>>

-------------------------------------------------------------------------------
(* Answers, in the hooks that are still mounted.                             *)

RailSettled(c) == [rail EXCEPT !.running = @ \ {KeyOf(c.verb)}]

\* What was recorded leaves the box; a draft replaces what is in it.
RailAfter(c) ==
  IF c.stage # "done" THEN RailSettled(c)
  ELSE CASE c.verb = "commit" -> [RailSettled(c) EXCEPT !.typed = None, !.amend = FALSE]
         [] c.verb = "draftMessage" -> [RailSettled(c) EXCEPT !.typed = {c.project}]
         [] OTHER -> RailSettled(c)

PaneSettled(c) == [pane EXCEPT !.running = @ \ {KeyOf(c.verb)}]

PaneAfter(c) ==
  IF c.stage # "done" THEN PaneSettled(c)
  ELSE CASE c.verb = "propose" -> [PaneSettled(c) EXCEPT !.typed = None, !.editing = FALSE]
         [] c.verb = "draftBody" -> [PaneSettled(c) EXCEPT !.typed = {c.project}]
         [] OTHER -> PaneSettled(c)

\* An exchange that came back refused is raised as an alert by the rail it was sent
\* from, unless it was asked to stop: the hook tells by `stopped`, the user by what
\* he pressed.  A rail that is gone raises nothing.
Reported(c) ==
  IF c.verb \notin Exchanges \/ c.stage # "refused" THEN alerts
  ELSE IF c.mount = rail.mount /\ ~rail.stopped THEN [alerts EXCEPT !.raised = @ \cup {c.n}]
  ELSE IF c.stopAsked THEN alerts
  ELSE [alerts EXCEPT !.unheard = @ \cup {c.n},
                      !.departed = IF c.mount = rail.mount THEN @ ELSE @ \cup {c.n}]

CallAnswered ==
  \E c \in calls :
    /\ c.stage \in {"done", "refused"}
    /\ calls' = calls \ {c}
    /\ IF c.verb \in PaneVerbs
       THEN /\ pane' = IF c.mount = pane.mount THEN PaneAfter(c) ELSE pane
            /\ UNCHANGED <<rail, cluster, alerts>>
       ELSE /\ alerts' = Reported(c)
            /\ IF c.mount = rail.mount THEN Publish(RailAfter(c)) ELSE UNCHANGED <<rail, cluster>>
            /\ UNCHANGED pane
    /\ UNCHANGED <<works, inView, question, repos, railSpent>>

RailInit ==
  /\ works \in RailVerbs
  /\ inView = [project |-> CHOOSE p \in RailProject : TRUE, held |-> None]
  /\ rail = NewRail(0) /\ pane = NewPane(0)
  /\ cluster = None /\ question = None /\ calls = {}
  /\ repos = [p \in RailProject |-> [trusted |-> "trust" \notin works, staged |-> TRUE,
                                     merging |-> FALSE, gate |-> None, recorded |-> {}]]
  /\ alerts = [raised |-> {}, unheard |-> {}, departed |-> {}]
  /\ railSpent = [switches |-> 0, calls |-> 0, words |-> 0]

RailNext ==
  /\ surface = "rail"
  /\ \/ Press \/ PressStop \/ Question \/ Answer \/ Type \/ Switch \/ Reads
     \/ CoreRefuses \/ CoreStarts \/ CoreStops \/ CoreEnds \/ CallAnswered

-------------------------------------------------------------------------------
(* Properties.                                                               *)

RailTypeOK ==
  /\ inView.project \in RailProject
  /\ rail.running \subseteq {KeyOf(v) : v \in works \ PaneVerbs}
  /\ pane.running \subseteq {KeyOf(v) : v \in works \cap PaneVerbs}
  /\ \A p \in RailProject :
       repos[p].gate # None => \E c \in calls : c.n = repos[p].gate /\ c.stage = "running"

\* Words written for one project are never recorded in, or proposed for,
\* another: neither by a box or a form that outlives a switch nor by a draft
\* that answers after it (GitRail's key, useDiffSelection.ts).
WordsStayHome == \A p \in RailProject : repos[p].recorded \subseteq {p}

\* The window chrome never acts on a repository that is not in view
\* (branchCluster.ts).
ChromeIsInView == cluster # None => cluster.project = inView.project

\* An exchange that failed by itself is told to the user, even when the one
\* before it was stopped on purpose: "a real failure of the same action still has
\* to be said" (useGitActions.ts:41).  Excluded is the exchange of a rail that left
\* with its project: the effect that raises the alert is gone with it
\* (GitRail.tsx:181-186), and nobody is told.
FailureIsSaid == alerts.unheard \subseteq alerts.departed

RailHolds == WordsStayHome /\ ChromeIsInView /\ FailureIsSaid

=============================================================================
