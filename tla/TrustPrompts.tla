----------------------------- MODULE TrustPrompts -----------------------------
(***************************************************************************)
(* How a command comes to be trusted: the review of a changed solo.yml      *)
(* (useTrust.ts, TrustDialog.tsx) and the queue of requests processes make  *)
(* (useTrustRequests.ts, TrustRequestDialog.tsx, core/src/trust), against   *)
(* the core's gate (facade.rs, facade/trustrequest.rs).  A dialog shows one *)
(* variant of a command while the file, the queue and other answers move.   *)
(* The core changes its queue under a lock and publishes after releasing    *)
(* it, so two publications may leave in the other order.                    *)
(***************************************************************************)
EXTENDS WindowDomain

CONSTANTS
  TProject,
  Name,           \* command names
  Variant,        \* what a command would run: line, directory and environment
  Request,        \* trust request ids, never reused
  MaxEdits,       \* edits of a solo.yml
  MaxCalls        \* trust calls the user makes

\* No answer is no answer.
ASSUME TrustAssumption == None \notin {"ok", "refused", "granting"}

VARIABLES
  config,         \* the last-synced solo.yml of each project: name -> variant
  trusted,        \* the trust store: <<project, variant>>
  pending,        \* the core's open requests
  announcing,     \* publications between the unlock and the bus
  delivery,       \* published, undelivered events
  review,         \* useTrust: the open review
  prompts,        \* useTrustRequests: the queue, oldest first
  calls,          \* trust calls under way
  reading,        \* config_command_review calls under way
  seen,           \* history: <<project, variant>> that were on screen
  trustSpent      \* bounds used up

trustVars == <<config, trusted, pending, announcing, delivery, review, prompts, calls, reading,
               seen, trustSpent>>

Command == [name : Name, variant : Variant]

\* useTrust.ts: the open review.
TrustReview == [project : TProject, commands : SUBSET Command]

\* domain.ts: what a request shows.
TrustRequest == [id : Request, project : TProject, variant : Variant]

\* What is on screen: every command of the review, and the first prompt.
Displayed(r, queue) ==
  (IF r = None THEN {} ELSE {<<r.project, c.variant>> : c \in r.commands})
  \cup (IF queue = <<>> THEN {} ELSE {<<queue[1].project, queue[1].variant>>})

Screen(r, queue) ==
  /\ review' = r
  /\ prompts' = queue
  /\ seen' = seen \cup Displayed(r, queue)

SameScreen == UNCHANGED <<review, prompts, seen>>

-------------------------------------------------------------------------------
(* The core.                                                                 *)

\* sync.rs: the commands of a change that need trust, in the event.
PendingTrust(p, names, spec) ==
  {[name |-> n, variant |-> spec[n]] : n \in {m \in names : <<p, spec[m]>> \notin trusted}}

\* ConfigSync.sync: a project's file changed on disk.
EditConfig ==
  /\ trustSpent.edits < MaxEdits
  /\ trustSpent' = [trustSpent EXCEPT !.edits = @ + 1]
  /\ \E p \in TProject : \E spec \in [Name -> Variant] :
       LET changed == {n \in Name : spec[n] # config[p][n]} IN
       /\ changed # {}
       /\ config' = [config EXCEPT ![p] = spec]
       /\ delivery' = Append(delivery, [type |-> "ConfigChanged", project |-> p,
                                        commands |-> PendingTrust(p, changed, spec)])
  /\ SameScreen
  /\ UNCHANGED <<trusted, pending, announcing, calls, reading>>

\* TrustRequests.record: deduplicated on project and variant; announced once
\* the lock is released.
RecordRequest ==
  \E r \in TrustRequest :
    /\ r.id \notin trustSpent.ids
    /\ \A held \in pending : <<held.project, held.variant>> # <<r.project, r.variant>>
    /\ pending' = pending \cup {r}
    /\ announcing' = announcing \cup {[type |-> "TrustRequested", request |-> r]}
    /\ trustSpent' = [trustSpent EXCEPT !.ids = @ \cup {r.id}]
    /\ SameScreen
    /\ UNCHANGED <<config, trusted, delivery, calls, reading>>

\* prune_expired and withdraw_requests_of: the request ends without a decision.
EndRequest ==
  \E r \in pending :
    /\ pending' = pending \ {r}
    /\ announcing' = announcing \cup {[type |-> "TrustRequestResolved", id |-> r.id]}
    /\ SameScreen
    /\ UNCHANGED <<config, trusted, delivery, calls, reading, trustSpent>>

\* bus.publish, after the unlock.
PublishTrust ==
  \E e \in announcing :
    /\ announcing' = announcing \ {e}
    /\ delivery' = Append(delivery, e)
    /\ SameScreen
    /\ UNCHANGED <<config, trusted, pending, calls, reading, trustSpent>>

\* Mutant: the grant resolves the command by name, whatever was reviewed.
GrantsByName(call) == <<call.project, config[call.project][call.name]>>

\* trust_reviewed_command: the current variant, if it is the one reviewed.
Grants(call) ==
  IF config[call.project][call.name] = call.variant THEN <<call.project, call.variant>> ELSE None

\* approve_trust_request and deny_trust_request find the request still pending.
Decides(call) == \E r \in pending : r.id = call.id

Outcome(call, ok) == (calls \ {call}) \cup {[call EXCEPT !.answer = IF ok THEN "ok" ELSE "refused"]}

\* The core serves a config_trust call.
ServeTrust ==
  \E call \in calls :
    /\ call.kind = "trust" /\ call.answer = None
    /\ trusted' = IF Grants(call) = None THEN trusted ELSE trusted \cup {Grants(call)}
    /\ calls' = Outcome(call, Grants(call) # None)
    /\ SameScreen
    /\ UNCHANGED <<config, pending, announcing, delivery, reading, trustSpent>>

\* The trust store cannot write the grant: nothing is trusted, the call is
\* refused, and a request stays pending.
GrantFails ==
  \E call \in calls :
    /\ call.kind \in {"trust", "approve"} /\ call.answer = None
    /\ calls' = Outcome(call, FALSE)
    /\ SameScreen
    /\ UNCHANGED <<config, trusted, pending, announcing, delivery, reading, trustSpent>>

\* approve_trust_request peeks, grants the pinned spec, then resolves; a request
\* that ended in between was granted all the same.
ServePeek ==
  \E call \in calls :
    /\ call.kind = "approve" /\ call.answer = None
    /\ calls' = IF Decides(call) THEN (calls \ {call}) \cup {[call EXCEPT !.answer = "granting"]}
                ELSE Outcome(call, FALSE)
    /\ trusted' = IF Decides(call) THEN trusted \cup {<<call.project, call.variant>>} ELSE trusted
    /\ SameScreen
    /\ UNCHANGED <<config, pending, announcing, delivery, reading, trustSpent>>

\* resolve: out of the queue, announced once the lock is released.
Resolve(call) ==
  /\ pending' = {r \in pending : r.id # call.id}
  /\ announcing' = IF Decides(call)
                   THEN announcing \cup {[type |-> "TrustRequestResolved", id |-> call.id]}
                   ELSE announcing

ServeDecision ==
  \E call \in calls :
    /\ \/ call.kind = "approve" /\ call.answer = "granting" /\ calls' = Outcome(call, TRUE)
       \/ call.kind = "deny" /\ call.answer = None /\ calls' = Outcome(call, Decides(call))
    /\ Resolve(call)
    /\ SameScreen
    /\ UNCHANGED <<config, trusted, delivery, reading, trustSpent>>

\* revoke_command_trust, from TrustedCommandsSection.
Revoke ==
  \E t \in trusted :
    /\ trustSpent.calls < MaxCalls
    /\ trustSpent' = [trustSpent EXCEPT !.calls = @ + 1]
    /\ trusted' = trusted \ {t}
    /\ SameScreen
    /\ UNCHANGED <<config, pending, announcing, delivery, calls, reading>>

-------------------------------------------------------------------------------
(* The window.                                                               *)

\* The queue without a request that is over.
WithoutRequest(queue, id) == Keeping(queue, {r \in Range(queue) : r.id # id})

\* The listeners of both stores take the next event.
DeliverTrust ==
  /\ delivery # <<>>
  /\ delivery' = Tail(delivery)
  /\ LET e == Head(delivery) IN
     CASE e.type = "ConfigChanged" ->
            Screen(IF e.commands = {} THEN review
                   ELSE [project |-> e.project, commands |-> e.commands], prompts)
       [] e.type = "TrustRequested" ->
            Screen(review, IF \E i \in DOMAIN prompts : prompts[i].id = e.request.id
                           THEN prompts ELSE Append(prompts, e.request))
       [] OTHER -> Screen(review, WithoutRequest(prompts, e.id))
  /\ UNCHANGED <<config, trusted, pending, announcing, calls, reading, trustSpent>>

Click ==
  /\ trustSpent.calls < MaxCalls
  /\ trustSpent' = [trustSpent EXCEPT !.calls = @ + 1]

\* requestReview: what a grant would authorize now, read from the core.
RequestReview ==
  /\ Click
  /\ \E p \in TProject : \E n \in Name :
       reading' = reading \cup {[project |-> p, name |-> n, variant |-> config[p][n]]}
  /\ SameScreen
  /\ UNCHANGED <<config, trusted, pending, announcing, delivery, calls>>

\* The answer replaces whatever review is open.
ReviewRead ==
  \E r \in reading :
    /\ reading' = reading \ {r}
    /\ Screen([project |-> r.project, commands |-> {[name |-> r.name, variant |-> r.variant]}],
              prompts)
    /\ UNCHANGED <<config, trusted, pending, announcing, delivery, calls, trustSpent>>

TrustCall(c, all) ==
  [kind |-> "trust", project |-> review.project, name |-> c.name, variant |-> c.variant,
   all |-> all, answer |-> None]

\* TrustDialog: trust one command, trust them all, or not now.
ClickTrust ==
  /\ review # None
  /\ Click
  /\ \/ /\ \E c \in review.commands : calls' = calls \cup {TrustCall(c, {})}
        /\ SameScreen
     \/ /\ calls' = calls \cup {TrustCall(c, review.commands) : c \in review.commands}
        /\ SameScreen
     \/ /\ Screen(None, prompts)
        /\ UNCHANGED calls
  /\ UNCHANGED <<config, trusted, pending, announcing, delivery, reading>>

Without(r, commands) ==
  IF r = None \/ r.commands \subseteq commands THEN None
  ELSE [r EXCEPT !.commands = @ \ commands]

\* The other grants of the same Trust all.
Batch(call) == {c \in calls : c.kind = "trust" /\ c.all = call.all /\ c.project = call.project}

\* trust: a granted command leaves the open review, whichever project that is.
TrustAnswered ==
  \E call \in calls :
    /\ call.kind = "trust" /\ call.all = {} /\ call.answer \in {"ok", "refused"}
    /\ calls' = calls \ {call}
    /\ IF call.answer = "ok"
       THEN Screen(Without(review, {[name |-> call.name, variant |-> call.variant]}), prompts)
       ELSE SameScreen
    /\ UNCHANGED <<config, trusted, pending, announcing, delivery, reading, trustSpent>>

\* trustAll: once every grant resolved, if all were granted.
TrustAllAnswered ==
  \E call \in calls :
    /\ call.kind = "trust" /\ call.all # {}
    /\ \A c \in Batch(call) : c.answer \in {"ok", "refused"}
    /\ calls' = calls \ Batch(call)
    /\ IF review # None /\ review.project = call.project
          /\ \A c \in Batch(call) : c.answer = "ok"
       THEN Screen(Without(review, call.all), prompts)
       ELSE SameScreen
    /\ UNCHANGED <<config, trusted, pending, announcing, delivery, reading, trustSpent>>

\* TrustRequestDialog decides the oldest prompt; Escape denies it.
ClickDecision ==
  /\ prompts # <<>>
  /\ Click
  /\ \E kind \in {"approve", "deny"} :
       calls' = calls \cup {[kind |-> kind, id |-> prompts[1].id, project |-> prompts[1].project,
                             variant |-> prompts[1].variant, answer |-> None]}
  /\ SameScreen
  /\ UNCHANGED <<config, trusted, pending, announcing, delivery, reading>>

\* Mutant: the prompt goes when the call ends, however it ends.
LeavesAnyway(call) == call.answer \in {"ok", "refused"}

\* decide: a prompt leaves once the core accepted the decision.
Leaves(call) == call.answer = "ok"

DecisionAnswered ==
  \E call \in calls :
    /\ call.kind \in {"approve", "deny"} /\ call.answer \in {"ok", "refused"}
    /\ calls' = calls \ {call}
    /\ Screen(review, IF Leaves(call) THEN WithoutRequest(prompts, call.id) ELSE prompts)
    /\ UNCHANGED <<config, trusted, pending, announcing, delivery, reading, trustSpent>>

-------------------------------------------------------------------------------

TrustInit ==
  /\ config = [p \in TProject |-> [n \in Name |-> CHOOSE v \in Variant : TRUE]]
  /\ trusted = {}
  /\ pending = {}
  /\ announcing = {}
  /\ delivery = <<>>
  /\ review = None
  /\ prompts = <<>>
  /\ calls = {}
  /\ reading = {}
  /\ seen = {}
  /\ trustSpent = [edits |-> 0, calls |-> 0, ids |-> {}]

TrustNext ==
  /\ surface = "trust"
  /\ \/ EditConfig \/ RecordRequest \/ EndRequest \/ PublishTrust
     \/ ServeTrust \/ GrantFails \/ ServePeek \/ ServeDecision \/ Revoke
     \/ DeliverTrust \/ RequestReview \/ ReviewRead \/ ClickTrust \/ TrustAnswered
     \/ TrustAllAnswered \/ ClickDecision \/ DecisionAnswered

-------------------------------------------------------------------------------
(* Properties.                                                               *)

TrustTypeOK ==
  /\ config \in [TProject -> [Name -> Variant]]
  /\ trusted \subseteq TProject \X Variant
  /\ pending \subseteq TrustRequest
  /\ review \in TrustReview \cup {None}
  /\ Range(prompts) \subseteq TrustRequest

\* Whatever was trusted was on screen, in full and for that project, before:
\* a file edited between the review and the click, a review replaced by another
\* one and a request that ended meanwhile never widen a grant (facade.rs,
\* trust_reviewed_command; useTrust.ts sends the hash it displays).
OnlyReviewedTrusted == trusted \subseteq seen

\* A prompt leaves the queue only when its request is decided or has ended: a
\* refused approval stays on screen (useTrustRequests.ts, decide).
PromptLeavesDecided ==
  [][\A i \in DOMAIN prompts :
        prompts[i] \notin Range(prompts') => prompts[i] \notin pending]_trustVars

=============================================================================
