------------------------------ MODULE DialogProofs ------------------------------
(***************************************************************************)
(* What the window asks the user and where it takes them, for any projects, *)
(* commands, variants, groups, entries, processes and number of edits,      *)
(* calls and runs.  Nothing is trusted that was not on screen.  The         *)
(* runtime-state file names every living group that was recorded, and no    *)
(* stranger is signalled.  The selection never falls back on a process that *)
(* was left, a vanished one is left at once, and the pool of terminals      *)
(* keeps what was viewed last.                                              *)
(***************************************************************************)
EXTENDS TrustPrompts, Leftovers, Navigation, SequenceProofs

-------------------------------------------------------------------------------
(* Trust prompts.                                                            *)

TrustSpec == TrustInit /\ [][TrustNext]_trustVars

\* A call under way carries what was on screen when it was made.
CallsWereSeen ==
  \A call \in calls :
    /\ {"project", "variant", "answer"} \subseteq DOMAIN call
    /\ <<call.project, call.variant>> \in seen

DisplayedWasSeen == Displayed(review, prompts) \subseteq seen

TrustInv == OnlyReviewedTrusted /\ CallsWereSeen /\ DisplayedWasSeen

\* Whatever a step puts on screen is remembered, and nothing is forgotten.
LEMMA ScreenKeeps ==
  ASSUME NEW r, NEW queue, Screen(r, queue)
  PROVE  seen \subseteq seen' /\ DisplayedWasSeen'
BY DEF Screen, DisplayedWasSeen

\* A step that leaves the screen alone keeps what was on it.
LEMMA SameScreenKeeps ==
  ASSUME DisplayedWasSeen, SameScreen
  PROVE  seen \subseteq seen' /\ DisplayedWasSeen'
BY DEF SameScreen, DisplayedWasSeen

\* An answer changes nothing else of a call.
LEMMA AnswerKeeps ==
  ASSUME NEW call, NEW answer, {"project", "variant", "answer"} \subseteq DOMAIN call
  PROVE  LET answered == [call EXCEPT !.answer = answer] IN
         /\ {"project", "variant", "answer"} \subseteq DOMAIN answered
         /\ answered.project = call.project
         /\ answered.variant = call.variant
OBVIOUS

\* The core's answer to a call.
LEMMA OutcomeKeeps ==
  ASSUME CallsWereSeen, NEW call \in calls, NEW ok, seen \subseteq seen', calls' = Outcome(call, ok)
  PROVE  CallsWereSeen'
<1> DEFINE answer == IF ok THEN "ok" ELSE "refused"
<1>1. calls' = (calls \ {call}) \cup {[call EXCEPT !.answer = answer]}
  BY DEF Outcome
<1> HIDE DEF answer
<1> QED
  BY <1>1, AnswerKeeps DEF CallsWereSeen

\* A call whose answer was taken is gone.
LEMMA FewerCallsKeep ==
  ASSUME CallsWereSeen, calls' \subseteq calls, seen \subseteq seen'
  PROVE  CallsWereSeen'
BY DEF CallsWereSeen

\* The variant of every command of the review is on screen.
LEMMA ReviewedIsDisplayed ==
  ASSUME DisplayedWasSeen, review # None, NEW c \in review.commands
  PROVE  <<review.project, c.variant>> \in seen
BY DEF DisplayedWasSeen, Displayed

\* And so is the oldest prompt.
LEMMA PromptIsDisplayed ==
  ASSUME DisplayedWasSeen, prompts # <<>>
  PROVE  <<prompts[1].project, prompts[1].variant>> \in seen
BY DEF DisplayedWasSeen, Displayed

\* What is asked for is what is on screen.
LEMMA TrustCallWasSeen ==
  ASSUME DisplayedWasSeen, review # None, NEW c \in review.commands, NEW all
  PROVE  /\ {"project", "variant", "answer"} \subseteq DOMAIN TrustCall(c, all)
         /\ <<TrustCall(c, all).project, TrustCall(c, all).variant>> \in seen
<1>1. TrustCall(c, all).project = review.project /\ TrustCall(c, all).variant = c.variant
  BY DEF TrustCall
<1>2. DOMAIN TrustCall(c, all) = {"kind", "project", "name", "variant", "all", "answer"}
  BY DEF TrustCall
<1> QED
  BY <1>1, <1>2, ReviewedIsDisplayed

\* The steps of the core, which leave the screen alone: a grant is what a call carries.
LEMMA CoreStepKeeps ==
  ASSUME TrustInv,
         \/ EditConfig \/ RecordRequest \/ EndRequest \/ PublishTrust
         \/ ServeTrust \/ GrantFails \/ ServePeek \/ ServeDecision \/ Revoke
  PROVE  TrustInv'
<1> USE DEF TrustInv
<1>0. SameScreen
  BY DEF EditConfig, RecordRequest, EndRequest, PublishTrust, ServeTrust, GrantFails, ServePeek,
         ServeDecision, Revoke
<1>1. seen' = seen /\ DisplayedWasSeen'
  BY <1>0, SameScreenKeeps DEF SameScreen
<1>2. CASE EditConfig \/ RecordRequest \/ EndRequest \/ PublishTrust \/ Revoke
  <2>1. calls' = calls /\ trusted' \subseteq trusted
    BY <1>2 DEF EditConfig, RecordRequest, EndRequest, PublishTrust, Revoke
  <2> QED
    BY <1>1, <2>1, FewerCallsKeep DEF OnlyReviewedTrusted
<1>3. CASE ServeTrust
  <2>1. PICK call \in calls :
          /\ trusted' = IF Grants(call) = None THEN trusted ELSE trusted \cup {Grants(call)}
          /\ calls' = Outcome(call, Grants(call) # None)
    BY <1>3 DEF ServeTrust
  <2>2. CallsWereSeen'
    BY <1>1, <2>1, OutcomeKeeps
  <2>3. trusted' \subseteq trusted \cup {<<call.project, call.variant>>}
    BY <2>1 DEF Grants
  <2> QED
    BY <1>1, <2>2, <2>3 DEF OnlyReviewedTrusted, CallsWereSeen
<1>4. CASE GrantFails
  <2>1. PICK call \in calls : calls' = Outcome(call, FALSE) /\ trusted' = trusted
    BY <1>4 DEF GrantFails
  <2> QED
    BY <1>1, <2>1, OutcomeKeeps DEF OnlyReviewedTrusted
<1>5. CASE ServePeek
  <2>1. PICK call \in calls :
          /\ calls' = IF Decides(call)
                      THEN (calls \ {call}) \cup {[call EXCEPT !.answer = "granting"]}
                      ELSE Outcome(call, FALSE)
          /\ trusted' = IF Decides(call) THEN trusted \cup {<<call.project, call.variant>>}
                        ELSE trusted
    BY <1>5 DEF ServePeek
  <2>2. CASE Decides(call)
    BY <1>1, <2>1, <2>2, AnswerKeeps DEF CallsWereSeen, OnlyReviewedTrusted
  <2>3. CASE ~Decides(call)
    BY <1>1, <2>1, <2>3, OutcomeKeeps DEF OnlyReviewedTrusted
  <2> QED
    BY <2>2, <2>3
<1>6. CASE ServeDecision
  <2>1. PICK call \in calls :
          /\ calls' = Outcome(call, TRUE) \/ calls' = Outcome(call, Decides(call))
          /\ trusted' = trusted
    BY <1>6 DEF ServeDecision
  <2> QED
    BY <1>1, <2>1, OutcomeKeeps DEF OnlyReviewedTrusted
<1> QED
  BY <1>2, <1>3, <1>4, <1>5, <1>6

\* The steps of the window, which trust nothing: a call carries what is on screen.
LEMMA WindowStepKeeps ==
  ASSUME TrustInv,
         \/ DeliverTrust \/ RequestReview \/ ReviewRead \/ ClickTrust \/ TrustAnswered
         \/ TrustAllAnswered \/ ClickDecision \/ DecisionAnswered
  PROVE  TrustInv'
<1> USE DEF TrustInv
<1>0. trusted' = trusted
  BY DEF DeliverTrust, RequestReview, ReviewRead, ClickTrust, TrustAnswered, TrustAllAnswered,
         ClickDecision, DecisionAnswered
<1>1. SameScreen \/ \E r, queue : Screen(r, queue)
  BY DEF DeliverTrust, RequestReview, ReviewRead, ClickTrust, TrustAnswered, TrustAllAnswered,
         ClickDecision, DecisionAnswered
<1>2. seen \subseteq seen' /\ DisplayedWasSeen'
  BY <1>1, ScreenKeeps, SameScreenKeeps
<1>3. CallsWereSeen'
  <2>1. CASE DeliverTrust \/ RequestReview \/ ReviewRead \/ TrustAnswered \/ TrustAllAnswered
             \/ DecisionAnswered
    <3>1. calls' \subseteq calls
      BY <2>1 DEF DeliverTrust, RequestReview, ReviewRead, TrustAnswered, TrustAllAnswered,
                  DecisionAnswered
    <3> QED
      BY <1>2, <3>1, FewerCallsKeep
  <2>2. CASE ClickTrust
    <3>1. CASE calls' = calls
      BY <1>2, <3>1, FewerCallsKeep
    <3>2. ASSUME NEW c \in review.commands, review # None, NEW all
          PROVE  LET made == TrustCall(c, all) IN
                 /\ {"project", "variant", "answer"} \subseteq DOMAIN made
                 /\ <<made.project, made.variant>> \in seen'
      BY <1>2, <3>2, TrustCallWasSeen
    <3>3. ASSUME NEW c \in review.commands, review # None,
                 calls' = calls \cup {TrustCall(c, {})}
          PROVE  CallsWereSeen'
      BY <1>2, <3>2, <3>3 DEF CallsWereSeen
    <3>4. ASSUME review # None,
                 calls' = calls \cup {TrustCall(c, review.commands) : c \in review.commands}
          PROVE  CallsWereSeen'
      BY <1>2, <3>2, <3>4 DEF CallsWereSeen
    <3> QED
      BY <2>2, <3>1, <3>3, <3>4 DEF ClickTrust
  <2>3. CASE ClickDecision
    <3>1. PICK kind : calls' = calls \cup {[kind |-> kind, id |-> prompts[1].id,
                                            project |-> prompts[1].project,
                                            variant |-> prompts[1].variant, answer |-> None]}
      BY <2>3 DEF ClickDecision
    <3>2. prompts # <<>>
      BY <2>3 DEF ClickDecision
    <3> DEFINE call == [kind |-> kind, id |-> prompts[1].id, project |-> prompts[1].project,
                        variant |-> prompts[1].variant, answer |-> None]
    <3>3. /\ DOMAIN call = {"kind", "id", "project", "variant", "answer"}
          /\ <<call.project, call.variant>> \in seen
      BY <3>2, PromptIsDisplayed
    <3>4. calls' = calls \cup {call}
      BY <3>1
    <3> HIDE DEF call
    <3> QED
      BY <1>2, <3>3, <3>4 DEF CallsWereSeen
  <2> QED
    BY <2>1, <2>2, <2>3
<1> QED
  BY <1>0, <1>2, <1>3 DEF OnlyReviewedTrusted

\* Nothing is trusted that was not on screen, in full and for its project: neither a
\* file edited between the review and the click (facade.rs, trust_reviewed_command) nor
\* a request that ended meanwhile widens a grant (facade/trustrequest.rs).
THEOREM OnlyReviewedTrustedHolds == TrustSpec => []OnlyReviewedTrusted
<1>1. TrustInit => TrustInv
  BY DEF TrustInit, TrustInv, OnlyReviewedTrusted, CallsWereSeen, DisplayedWasSeen, Displayed
<1>2. TrustInv /\ [TrustNext]_trustVars => TrustInv'
  <2> SUFFICES ASSUME TrustInv, [TrustNext]_trustVars PROVE TrustInv'
    OBVIOUS
  <2>1. CASE UNCHANGED trustVars
    BY <2>1 DEF trustVars, TrustInv, OnlyReviewedTrusted, CallsWereSeen, DisplayedWasSeen
  <2>2. CASE TrustNext
    BY <2>2, CoreStepKeeps, WindowStepKeeps DEF TrustNext
  <2> QED
    BY <2>1, <2>2
<1>3. TrustInv => OnlyReviewedTrusted
  BY DEF TrustInv
<1> QED
  BY <1>1, <1>2, <1>3, PTL DEF TrustSpec

-------------------------------------------------------------------------------
(* Prompts and the requests they show.                                       *)

PendingIds == {r.id : r \in pending}

TrustEvent ==
  [type : {"ConfigChanged"}, project : TProject, commands : SUBSET Command]
  \cup [type : {"TrustRequested"}, request : TrustRequest]
  \cup [type : {"TrustRequestResolved"}, id : Request]

\* What an event says of its request stays true: it was made, and once it is over
\* it is not pending.
EventTrue(e, open, ids) ==
  \/ e.type = "ConfigChanged"
  \/ e.type = "TrustRequested" /\ e.request.id \in ids
  \/ e.type = "TrustRequestResolved" /\ e.id \in ids \ open

\* A decision is about a request that was made, and an accepted one is over.
CallTrue(call, open, ids) ==
  /\ {"kind", "answer"} \subseteq DOMAIN call
  /\ call.kind \in {"approve", "deny"} =>
       /\ "id" \in DOMAIN call
       /\ call.id \in ids
       /\ call.answer = "ok" => call.id \notin open

PromptTypes ==
  /\ pending \subseteq TrustRequest
  /\ prompts \in Seq(TrustRequest)
  /\ announcing \subseteq TrustEvent /\ delivery \in Seq(TrustEvent)
  /\ trustSpent \in [edits : Nat, calls : Nat, ids : SUBSET Request]

\* Ids are spent once.
IdsSpent ==
  /\ PendingIds \subseteq trustSpent.ids
  /\ \A r, q \in pending : r.id = q.id => r = q
  /\ \A r \in Range(prompts) : r.id \in trustSpent.ids

EventsTrue ==
  /\ \A e \in announcing : EventTrue(e, PendingIds, trustSpent.ids)
  /\ \A e \in Range(delivery) : EventTrue(e, PendingIds, trustSpent.ids)

CallsTrue == \A call \in calls : CallTrue(call, PendingIds, trustSpent.ids)

PromptInv == PromptTypes /\ IdsSpent /\ EventsTrue /\ CallsTrue

\* What was said stays true while more ids are spent and none of those comes back.
LEMMA StaysTrue ==
  ASSUME NEW open, NEW ids, NEW later, NEW more, ids \subseteq more, later \cap ids \subseteq open
  PROVE  /\ \A e : EventTrue(e, open, ids) => EventTrue(e, later, more)
         /\ \A call : CallTrue(call, open, ids) => CallTrue(call, later, more)
<1>1. \A id \in ids : id \in more /\ (id \notin open => id \notin later)
  OBVIOUS
<1>2. ASSUME NEW e, EventTrue(e, open, ids) PROVE EventTrue(e, later, more)
  BY <1>1, <1>2 DEF EventTrue
<1>3. ASSUME NEW call, CallTrue(call, open, ids) PROVE CallTrue(call, later, more)
  BY <1>1, <1>3 DEF CallTrue
<1> QED
  BY <1>2, <1>3

\* An answer is true of a call unless it accepts a decision on what is pending.
LEMMA AnsweredTrue ==
  ASSUME NEW call, NEW open, NEW ids, CallTrue(call, open, ids), NEW answer,
         answer = "ok" /\ call.kind \in {"approve", "deny"} => call.id \notin open
  PROVE  CallTrue([call EXCEPT !.answer = answer], open, ids)
<1>1. PICK made : made = [call EXCEPT !.answer = answer]
  OBVIOUS
<1>2. {"kind", "answer"} \subseteq DOMAIN call
  BY DEF CallTrue
<1>3. DOMAIN made = DOMAIN call /\ made.answer = answer /\ made.kind = call.kind
  BY <1>1, <1>2
<1>4. "id" \in DOMAIN call => made.id = call.id
  BY <1>1
<1> QED
  BY <1>1, <1>3, <1>4 DEF CallTrue

\* A step that leaves the requests, what is said of them and the prompts alone.
RequestsRest ==
  /\ pending' = pending /\ announcing' = announcing /\ delivery' = delivery
  /\ prompts' = prompts
  /\ trustSpent' \in [edits : Nat, calls : Nat, ids : SUBSET Request]
  /\ trustSpent'.ids = trustSpent.ids

LEMMA CallStep ==
  ASSUME PromptInv, RequestsRest,
         \A call \in calls' : CallTrue(call, PendingIds, trustSpent.ids)
  PROVE  PromptInv'
<1>1. PendingIds' = PendingIds
  BY DEF RequestsRest, PendingIds
<1>2. PromptTypes'
  BY DEF PromptInv, PromptTypes, RequestsRest
<1>3. IdsSpent'
  BY <1>1 DEF PromptInv, IdsSpent, RequestsRest
<1>4. EventsTrue'
  BY <1>1 DEF PromptInv, EventsTrue, RequestsRest
<1>5. CallsTrue'
  BY <1>1 DEF CallsTrue, RequestsRest
<1> QED
  BY <1>2, <1>3, <1>4, <1>5 DEF PromptInv

\* The core answers a call, or a grant is revoked.
LEMMA AnswerSteps ==
  ASSUME PromptInv, ServeTrust \/ GrantFails \/ ServePeek \/ Revoke
  PROVE  PromptInv'
<1>1. RequestsRest
  <2>1. trustSpent \in [edits : Nat, calls : Nat, ids : SUBSET Request]
    BY DEF PromptInv, PromptTypes
  <2>2. CASE ServeTrust \/ GrantFails \/ ServePeek
    BY <2>1, <2>2 DEF ServeTrust, GrantFails, ServePeek, SameScreen, RequestsRest
  <2>3. CASE Revoke
    BY <2>1, <2>3 DEF Revoke, SameScreen, RequestsRest
  <2> QED
    BY <2>2, <2>3
<1>2. PICK open, ids : open = PendingIds /\ ids = trustSpent.ids
  OBVIOUS
<1>3. \A call \in calls : CallTrue(call, open, ids)
  BY <1>2 DEF PromptInv, CallsTrue
<1>4. \A call \in calls' : CallTrue(call, open, ids)
  <2>1. CASE calls' = calls
    BY <1>3, <2>1
  <2>2. ASSUME NEW call \in calls, NEW answer,
               answer # "ok" \/ call.kind = "trust",
               calls' = (calls \ {call}) \cup {[call EXCEPT !.answer = answer]}
        PROVE  \A c \in calls' : CallTrue(c, open, ids)
    <3>1. CallTrue([call EXCEPT !.answer = answer], open, ids)
      BY <1>3, <2>2, AnsweredTrue
    <3> QED
      BY <1>3, <2>2, <3>1
  <2>3. CASE ServeTrust
    <3>1. PICK call \in calls : call.kind = "trust" /\ calls' = Outcome(call, Grants(call) # None)
      BY <2>3 DEF ServeTrust
    <3>2. PICK answer : answer = IF Grants(call) # None THEN "ok" ELSE "refused"
      OBVIOUS
    <3>3. calls' = (calls \ {call}) \cup {[call EXCEPT !.answer = answer]}
      BY <3>1, <3>2 DEF Outcome
    <3> QED
      BY <2>2, <3>1, <3>3
  <2>4. CASE GrantFails
    <3>1. PICK call \in calls : calls' = Outcome(call, FALSE)
      BY <2>4 DEF GrantFails
    <3>2. calls' = (calls \ {call}) \cup {[call EXCEPT !.answer = "refused"]}
      BY <3>1 DEF Outcome
    <3> QED
      BY <2>2, <3>2
  <2>5. CASE ServePeek
    <3>1. PICK call \in calls :
            calls' = IF Decides(call) THEN (calls \ {call}) \cup {[call EXCEPT !.answer = "granting"]}
                     ELSE Outcome(call, FALSE)
      BY <2>5 DEF ServePeek
    <3>2. \/ calls' = (calls \ {call}) \cup {[call EXCEPT !.answer = "granting"]}
          \/ calls' = (calls \ {call}) \cup {[call EXCEPT !.answer = "refused"]}
      BY <3>1 DEF Outcome
    <3> QED
      BY <2>2, <3>2
  <2>6. CASE Revoke
    BY <2>1, <2>6 DEF Revoke
  <2> QED
    BY <2>3, <2>4, <2>5, <2>6
<1> QED
  BY <1>1, <1>2, <1>4, CallStep

\* The user calls, and the answers are taken.
LEMMA CallerSteps ==
  ASSUME PromptInv,
         RequestReview \/ ReviewRead \/ ClickTrust \/ TrustAnswered \/ TrustAllAnswered
         \/ ClickDecision
  PROVE  PromptInv'
<1>0. trustSpent \in [edits : Nat, calls : Nat, ids : SUBSET Request]
  BY DEF PromptInv, PromptTypes
<1>1. Click => /\ trustSpent' \in [edits : Nat, calls : Nat, ids : SUBSET Request]
               /\ trustSpent'.ids = trustSpent.ids
  BY <1>0 DEF Click
<1>2. RequestsRest
  <2>1. CASE RequestReview \/ ClickDecision
    BY <1>1, <2>1 DEF RequestReview, ClickDecision, SameScreen, RequestsRest
  <2>2. CASE ReviewRead \/ TrustAnswered \/ TrustAllAnswered
    BY <1>0, <2>2 DEF ReviewRead, TrustAnswered, TrustAllAnswered, SameScreen, Screen, RequestsRest
  <2>3. CASE ClickTrust
    BY <1>1, <2>3 DEF ClickTrust, SameScreen, Screen, RequestsRest
  <2> QED
    BY <2>1, <2>2, <2>3
<1>3. PICK open, ids : open = PendingIds /\ ids = trustSpent.ids
  OBVIOUS
<1>4. \A call \in calls : CallTrue(call, open, ids)
  BY <1>3 DEF PromptInv, CallsTrue
<1>5. \A call \in calls' : CallTrue(call, open, ids)
  <2>1. CASE RequestReview \/ ReviewRead \/ TrustAnswered \/ TrustAllAnswered
    <3>1. calls' \subseteq calls
      BY <2>1 DEF RequestReview, ReviewRead, TrustAnswered, TrustAllAnswered
    <3> QED
      BY <1>4, <3>1
  <2>2. CASE ClickTrust
    <3>1. \A c, all : CallTrue(TrustCall(c, all), open, ids)
      <4> SUFFICES ASSUME NEW c, NEW all PROVE CallTrue(TrustCall(c, all), open, ids)
        OBVIOUS
      <4>1. PICK made : made = TrustCall(c, all)
        OBVIOUS
      <4>2. DOMAIN made = {"kind", "project", "name", "variant", "all", "answer"} /\ made.kind = "trust"
        BY <4>1 DEF TrustCall
      <4> QED
        BY <4>1, <4>2 DEF CallTrue
    <3>2. \A call \in calls' : call \in calls \/ \E c, all : call = TrustCall(c, all)
      BY <2>2 DEF ClickTrust
    <3> QED
      BY <1>4, <3>1, <3>2
  <2>3. CASE ClickDecision
    <3>1. prompts # <<>> /\ prompts \in Seq(TrustRequest)
      BY <2>3 DEF ClickDecision, PromptInv, PromptTypes
    <3>2. PICK kind \in {"approve", "deny"} :
            calls' = calls \cup {[kind |-> kind, id |-> prompts[1].id,
                                  project |-> prompts[1].project,
                                  variant |-> prompts[1].variant, answer |-> None]}
      BY <2>3 DEF ClickDecision
    <3>3. PICK made : made = [kind |-> kind, id |-> prompts[1].id, project |-> prompts[1].project,
                              variant |-> prompts[1].variant, answer |-> None]
      OBVIOUS
    <3>4. prompts[1] \in Range(prompts)
      BY <3>1 DEF Range
    <3>5. prompts[1].id \in ids
      BY <1>3, <3>4 DEF PromptInv, IdsSpent
    <3>6. /\ DOMAIN made = {"kind", "id", "project", "variant", "answer"}
          /\ made.id = prompts[1].id /\ made.answer = None
      BY <3>3
    <3>7. CallTrue(made, open, ids)
      BY <3>5, <3>6, TrustAssumption DEF CallTrue
    <3> QED
      BY <1>4, <3>2, <3>3, <3>7
  <2> QED
    BY <2>1, <2>2, <2>3
<1> QED
  BY <1>2, <1>3, <1>5, CallStep

\* An event joins the ones on their way.
LEMMA Announced ==
  ASSUME NEW e \in TrustEvent, delivery \in Seq(TrustEvent), delivery' = Append(delivery, e)
  PROVE  delivery' \in Seq(TrustEvent) /\ Range(delivery') = Range(delivery) \cup {e}
<1>1. \A x : x \in Range(Append(delivery, e)) <=> x \in Range(delivery) \/ x = e
  BY Appended
<1> QED
  BY <1>1

\* The requests are recorded, ended and decided under the core's lock, and announced
\* after it.
LEMMA QueueSteps ==
  ASSUME PromptInv, EditConfig \/ RecordRequest \/ EndRequest \/ PublishTrust \/ ServeDecision
  PROVE  PromptInv'
<1>0. PromptTypes /\ IdsSpent /\ EventsTrue /\ CallsTrue
  BY DEF PromptInv
<1>1. prompts' = prompts
  BY DEF EditConfig, RecordRequest, EndRequest, PublishTrust, ServeDecision, SameScreen
<1>2. PICK open, ids : open = PendingIds /\ ids = trustSpent.ids
  OBVIOUS
<1>3. /\ \A e \in announcing \cup Range(delivery) : EventTrue(e, open, ids)
      /\ \A call \in calls : CallTrue(call, open, ids)
      /\ open \subseteq ids
  BY <1>0, <1>2 DEF EventsTrue, CallsTrue, IdsSpent
<1>4. CASE EditConfig
  <2>1. /\ pending' = pending /\ announcing' = announcing /\ calls' = calls
        /\ trustSpent' = [trustSpent EXCEPT !.edits = trustSpent.edits + 1]
    BY <1>4 DEF EditConfig
  <2>2. PICK p \in TProject, commands \in SUBSET Command :
          delivery' = Append(delivery, [type |-> "ConfigChanged", project |-> p, commands |-> commands])
    <3>1. PICK p \in TProject, spec \in [Name -> Variant] :
            delivery' = Append(delivery,
              [type |-> "ConfigChanged", project |-> p,
               commands |-> PendingTrust(p, {n \in Name : spec[n] # config[p][n]}, spec)])
      BY <1>4 DEF EditConfig
    <3>2. PendingTrust(p, {n \in Name : spec[n] # config[p][n]}, spec) \in SUBSET Command
      <4>1. PICK names : names = {n \in Name : spec[n] # config[p][n]}
        OBVIOUS
      <4>2. PICK needed : needed = {m \in names : <<p, spec[m]>> \notin trusted}
        OBVIOUS
      <4>3. \A n \in needed : n \in Name /\ spec[n] \in Variant
        BY <4>1, <4>2
      <4>4. \A n \in needed : [name |-> n, variant |-> spec[n]] \in Command
        BY <4>3 DEF Command
      <4>5. PendingTrust(p, names, spec) = {[name |-> n, variant |-> spec[n]] : n \in needed}
        BY <4>2 DEF PendingTrust
      <4>6. {[name |-> n, variant |-> spec[n]] : n \in needed} \in SUBSET Command
        BY <4>4
      <4> QED
        BY <4>1, <4>5, <4>6
    <3> QED
      BY <3>1, <3>2
  <2>3. PICK e : e = [type |-> "ConfigChanged", project |-> p, commands |-> commands]
    OBVIOUS
  <2>4. e \in TrustEvent /\ e.type = "ConfigChanged" /\ delivery' = Append(delivery, e)
    BY <2>2, <2>3 DEF TrustEvent
  <2>5. delivery' \in Seq(TrustEvent) /\ Range(delivery') = Range(delivery) \cup {e}
    BY <1>0, <2>4, Announced DEF PromptTypes
  <2>6. trustSpent' \in [edits : Nat, calls : Nat, ids : SUBSET Request] /\ trustSpent'.ids = ids
    BY <1>0, <1>2, <2>1 DEF PromptTypes
  <2>7. PendingIds' = open
    BY <1>2, <2>1 DEF PendingIds
  <2>8. EventTrue(e, open, ids)
    BY <2>4 DEF EventTrue
  <2>9. PromptTypes'
    BY <1>0, <1>1, <2>1, <2>5, <2>6 DEF PromptTypes
  <2>10. IdsSpent'
    BY <1>0, <1>1, <1>2, <2>1, <2>6, <2>7 DEF IdsSpent
  <2>11. EventsTrue' /\ CallsTrue'
    BY <1>3, <2>1, <2>5, <2>6, <2>7, <2>8 DEF EventsTrue, CallsTrue
  <2> QED
    BY <2>9, <2>10, <2>11 DEF PromptInv
<1>5. CASE RecordRequest
  <2>1. PICK r \in TrustRequest :
          /\ r.id \notin ids
          /\ pending' = pending \cup {r}
          /\ announcing' = announcing \cup {[type |-> "TrustRequested", request |-> r]}
          /\ trustSpent' = [trustSpent EXCEPT !.ids = ids \cup {r.id}]
          /\ delivery' = delivery /\ calls' = calls
    BY <1>2, <1>5 DEF RecordRequest
  <2>2. r.id \in Request
    BY DEF TrustRequest
  <2>3. /\ trustSpent' \in [edits : Nat, calls : Nat, ids : SUBSET Request]
        /\ trustSpent'.ids = ids \cup {r.id}
    BY <1>0, <1>2, <2>1, <2>2 DEF PromptTypes
  <2>4. PICK more, later : more = ids \cup {r.id} /\ later = open \cup {r.id}
    OBVIOUS
  <2>5. PendingIds' = later /\ trustSpent'.ids = more
    BY <1>2, <2>1, <2>3, <2>4 DEF PendingIds
  <2>6. ids \subseteq more /\ later \cap ids \subseteq open
    BY <2>1, <2>4
  <2>7. PICK e : e = [type |-> "TrustRequested", request |-> r]
    OBVIOUS
  <2>8. e \in TrustEvent /\ EventTrue(e, later, more) /\ announcing' = announcing \cup {e}
    BY <2>1, <2>4, <2>7 DEF TrustEvent, EventTrue
  <2>9. /\ \A x : EventTrue(x, open, ids) => EventTrue(x, later, more)
        /\ \A x : CallTrue(x, open, ids) => CallTrue(x, later, more)
    BY <2>6, StaysTrue
  <2>10. PromptTypes'
    BY <1>0, <1>1, <2>1, <2>3, <2>8 DEF PromptTypes
  <2>11. IdsSpent'
    <3>1. later \subseteq more
      BY <1>3, <2>4
    <3>2. \A q \in pending : q.id # r.id
      BY <1>2, <1>3, <2>1 DEF PendingIds
    <3>3. \A q, o \in pending' : q.id = o.id => q = o
      BY <1>0, <2>1, <3>2 DEF IdsSpent
    <3>4. \A q \in Range(prompts') : q.id \in more
      BY <1>0, <1>1, <1>2, <2>6 DEF IdsSpent
    <3> QED
      BY <2>5, <3>1, <3>3, <3>4 DEF IdsSpent
  <2>12. EventsTrue' /\ CallsTrue'
    BY <1>3, <2>1, <2>5, <2>8, <2>9 DEF EventsTrue, CallsTrue
  <2> QED
    BY <2>10, <2>11, <2>12 DEF PromptInv
<1>6. ASSUME NEW id \in ids, id \in Request,
             pending' = {r \in pending : r.id # id},
             announcing' \subseteq announcing \cup {[type |-> "TrustRequestResolved", id |-> id]},
             delivery' = delivery, trustSpent' = trustSpent,
             \A call \in calls' : CallTrue(call, open \ {id}, ids)
      PROVE  PromptInv'
  <2>1. PICK later : later = open \ {id}
    OBVIOUS
  <2>2. PendingIds' = later /\ trustSpent'.ids = ids
    BY <1>2, <1>6, <2>1 DEF PendingIds
  <2>3. PICK e : e = [type |-> "TrustRequestResolved", id |-> id]
    OBVIOUS
  <2>4. e \in TrustEvent /\ EventTrue(e, later, ids) /\ announcing' \subseteq announcing \cup {e}
    BY <1>6, <2>1, <2>3 DEF TrustEvent, EventTrue
  <2>5. \A x : EventTrue(x, open, ids) => EventTrue(x, later, ids)
    BY <2>1, StaysTrue
  <2>6. PromptTypes'
    BY <1>0, <1>1, <1>6, <2>4 DEF PromptTypes
  <2>7. IdsSpent'
    BY <1>0, <1>1, <1>2, <1>6, <2>1, <2>2 DEF IdsSpent
  <2>8. EventsTrue' /\ CallsTrue'
    BY <1>3, <1>6, <2>1, <2>2, <2>4, <2>5 DEF EventsTrue, CallsTrue
  <2> QED
    BY <2>6, <2>7, <2>8 DEF PromptInv
<1>7. CASE EndRequest
  <2>1. PICK r \in pending :
          /\ pending' = pending \ {r}
          /\ announcing' = announcing \cup {[type |-> "TrustRequestResolved", id |-> r.id]}
          /\ delivery' = delivery /\ trustSpent' = trustSpent /\ calls' = calls
    BY <1>7 DEF EndRequest
  <2>2. PICK id : id = r.id
    OBVIOUS
  <2>3. id \in open /\ id \in ids /\ id \in Request
    BY <1>0, <1>2, <1>3, <2>2 DEF PendingIds, PromptTypes, TrustRequest
  <2>4. pending' = {q \in pending : q.id # id}
    BY <1>0, <2>1, <2>2 DEF IdsSpent
  <2>5. \A call \in calls' : CallTrue(call, open \ {id}, ids)
    <3>1. PICK later : later = open \ {id}
      OBVIOUS
    <3>2. \A x : CallTrue(x, open, ids) => CallTrue(x, later, ids)
      BY <3>1, StaysTrue
    <3> QED
      BY <1>3, <2>1, <3>1, <3>2
  <2> QED
    BY <1>6, <2>1, <2>2, <2>3, <2>4, <2>5
<1>8. CASE PublishTrust
  <2>1. PICK e \in announcing :
          announcing' = announcing \ {e} /\ delivery' = Append(delivery, e)
    BY <1>8 DEF PublishTrust
  <2>2. pending' = pending /\ calls' = calls /\ trustSpent' = trustSpent
    BY <1>8 DEF PublishTrust
  <2>3. e \in TrustEvent
    BY <1>0 DEF PromptTypes
  <2>4. delivery' \in Seq(TrustEvent) /\ Range(delivery') = Range(delivery) \cup {e}
    BY <1>0, <2>1, <2>3, Announced DEF PromptTypes
  <2>5. PendingIds' = open /\ trustSpent'.ids = ids
    BY <1>2, <2>2 DEF PendingIds
  <2>6. PromptTypes'
    BY <1>0, <1>1, <2>1, <2>2, <2>4 DEF PromptTypes
  <2>7. IdsSpent'
    BY <1>0, <1>1, <1>2, <2>2, <2>5 DEF IdsSpent
  <2>8. EventsTrue' /\ CallsTrue'
    BY <1>3, <2>1, <2>2, <2>4, <2>5 DEF EventsTrue, CallsTrue
  <2> QED
    BY <2>6, <2>7, <2>8 DEF PromptInv
<1>9. CASE ServeDecision
  <2>1. PICK call \in calls :
          /\ \/ call.kind = "approve" /\ calls' = Outcome(call, TRUE)
             \/ call.kind = "deny" /\ calls' = Outcome(call, Decides(call))
          /\ Resolve(call)
          /\ delivery' = delivery /\ trustSpent' = trustSpent
    BY <1>9 DEF ServeDecision
  <2>2. PICK answer : calls' = (calls \ {call}) \cup {[call EXCEPT !.answer = answer]}
    BY <2>1 DEF Outcome
  <2>3. PICK id : id = call.id
    OBVIOUS
  <2>4. id \in ids /\ id \in Request
    <3>1. id \in ids
      BY <1>3, <2>1, <2>3 DEF CallTrue
    <3> QED
      BY <1>0, <1>2, <3>1 DEF PromptTypes
  <2>5. /\ pending' = {r \in pending : r.id # id}
        /\ announcing' \subseteq announcing \cup {[type |-> "TrustRequestResolved", id |-> id]}
    BY <2>1, <2>3 DEF Resolve
  <2>6. \A c \in calls' : CallTrue(c, open \ {id}, ids)
    <3>1. PICK later : later = open \ {id}
      OBVIOUS
    <3>2. \A x : CallTrue(x, open, ids) => CallTrue(x, later, ids)
      BY <3>1, StaysTrue
    <3>3. CallTrue(call, later, ids) /\ call.id \notin later
      BY <1>3, <2>3, <3>1, <3>2
    <3>4. CallTrue([call EXCEPT !.answer = answer], later, ids)
      BY <3>3, AnsweredTrue
    <3> QED
      BY <1>3, <2>2, <3>1, <3>2, <3>4
  <2> QED
    BY <1>6, <2>1, <2>4, <2>5, <2>6
<1> QED
  BY <1>4, <1>5, <1>7, <1>8, <1>9

\* A request that is over leaves the queue; the others stay.
LEMMA WithoutKeeps ==
  ASSUME NEW queue \in Seq(TrustRequest), NEW id
  PROVE  /\ WithoutRequest(queue, id) \in Seq(TrustRequest)
         /\ Range(WithoutRequest(queue, id)) = {r \in Range(queue) : r.id # id}
<1>1. PICK keep : keep = {r \in Range(queue) : r.id # id}
  OBVIOUS
<1>2. Keeping(queue, keep) \in Seq(TrustRequest) /\ Range(Keeping(queue, keep)) = Range(queue) \cap keep
  BY KeepingKeeps
<1> QED
  BY <1>1, <1>2 DEF WithoutRequest

\* The queue of prompts changes, and what leaves it is over.
LEMMA PromptStep ==
  ASSUME PromptInv, pending' = pending, announcing' = announcing, trustSpent' = trustSpent,
         delivery' \in Seq(TrustEvent), Range(delivery') \subseteq Range(delivery),
         calls' \subseteq calls,
         prompts' \in Seq(TrustRequest), \A r \in Range(prompts') : r.id \in trustSpent.ids
  PROVE  PromptInv'
<1>1. PendingIds' = PendingIds
  BY DEF PendingIds
<1>2. PromptTypes'
  BY DEF PromptInv, PromptTypes
<1>3. IdsSpent'
  BY <1>1 DEF PromptInv, IdsSpent
<1>4. EventsTrue' /\ CallsTrue'
  BY <1>1 DEF PromptInv, EventsTrue, CallsTrue
<1> QED
  BY <1>2, <1>3, <1>4 DEF PromptInv

\* No prompt leaves whose request is pending.
PendingStays == \A r \in Range(prompts) : r \notin Range(prompts') => r \notin pending

\* A prompt that leaves for an id leaves nothing else out.
LEMMA OverLeaves ==
  ASSUME PromptInv, NEW id, id \notin PendingIds, prompts' = WithoutRequest(prompts, id)
  PROVE  /\ PendingStays
         /\ prompts' \in Seq(TrustRequest) /\ \A r \in Range(prompts') : r.id \in trustSpent.ids
<1>1. prompts \in Seq(TrustRequest)
  BY DEF PromptInv, PromptTypes
<1>2. prompts' \in Seq(TrustRequest) /\ Range(prompts') = {r \in Range(prompts) : r.id # id}
  BY <1>1, WithoutKeeps
<1>3. PendingStays
  BY <1>2 DEF PendingStays, PendingIds
<1> QED
  BY <1>2, <1>3 DEF PromptInv, IdsSpent

\* The window takes an event, or the answer of a decision.
LEMMA QueueShown ==
  ASSUME PromptInv, DeliverTrust \/ DecisionAnswered
  PROVE  PromptInv' /\ PendingStays
<1>0. PromptTypes /\ IdsSpent /\ EventsTrue /\ CallsTrue
  BY DEF PromptInv
<1>1. pending' = pending /\ announcing' = announcing /\ trustSpent' = trustSpent
  BY DEF DeliverTrust, DecisionAnswered
<1>2. prompts \in Seq(TrustRequest) /\ \A r \in Range(prompts) : r.id \in trustSpent.ids
  BY <1>0 DEF PromptTypes, IdsSpent
<1>3. CASE DeliverTrust
  <2>1. delivery # <<>> /\ delivery' = Tail(delivery) /\ delivery \in Seq(TrustEvent) /\ calls' = calls
    BY <1>0, <1>3 DEF DeliverTrust, PromptTypes
  <2>2. delivery' \in Seq(TrustEvent) /\ Range(delivery') \subseteq Range(delivery)
    <3>1. delivery' \in Seq(TrustEvent)
      BY <2>1
    <3>2. \A i \in DOMAIN delivery' : i + 1 \in DOMAIN delivery /\ delivery'[i] = delivery[i + 1]
      BY <2>1
    <3> QED
      BY <3>1, <3>2 DEF Range
  <2>3. PICK e : e = Head(delivery)
    OBVIOUS
  <2>4. e \in Range(delivery) /\ e \in TrustEvent
    <3>1. 1 \in DOMAIN delivery /\ e = delivery[1]
      BY <2>1, <2>3
    <3>2. delivery[1] \in TrustEvent
      BY <2>1, <3>1
    <3> QED
      BY <3>1, <3>2 DEF Range
  <2>5. EventTrue(e, PendingIds, trustSpent.ids)
    BY <1>0, <2>4 DEF EventsTrue
  <2>6. CASE prompts' = prompts
    <3>1. PendingStays
      BY <2>6 DEF PendingStays
    <3> QED
      BY <1>1, <1>2, <2>1, <2>2, <2>6, <3>1, PromptStep
  <2>7. CASE e.type = "TrustRequested" /\ prompts' = Append(prompts, e.request)
    <3>1. e.request \in TrustRequest
      BY <2>4, <2>7 DEF TrustEvent
    <3>2. e.request.id \in trustSpent.ids
      BY <2>5, <2>7 DEF EventTrue
    <3>3. \A x : x \in Range(Append(prompts, e.request)) <=> x \in Range(prompts) \/ x = e.request
      BY <1>2, <3>1, Appended
    <3>4. prompts' \in Seq(TrustRequest) /\ \A r \in Range(prompts') : r.id \in trustSpent.ids
      BY <1>2, <2>7, <3>1, <3>2, <3>3
    <3>5. PendingStays
      BY <2>7, <3>3 DEF PendingStays
    <3> QED
      BY <1>1, <2>1, <2>2, <3>4, <3>5, PromptStep
  <2>8. CASE e.type = "TrustRequestResolved" /\ prompts' = WithoutRequest(prompts, e.id)
    <3>1. e.id \notin PendingIds
      BY <2>5, <2>8 DEF EventTrue
    <3>2. /\ PendingStays
          /\ prompts' \in Seq(TrustRequest) /\ \A r \in Range(prompts') : r.id \in trustSpent.ids
      BY <2>8, <3>1, OverLeaves
    <3> QED
      BY <1>1, <2>1, <2>2, <3>2, PromptStep
  <2>9. \/ prompts' = prompts
        \/ e.type = "TrustRequested" /\ prompts' = Append(prompts, e.request)
        \/ e.type = "TrustRequestResolved" /\ prompts' = WithoutRequest(prompts, e.id)
    <3>1. CASE e.type = "ConfigChanged"
      BY <1>3, <2>3, <3>1 DEF DeliverTrust, Screen
    <3>2. CASE e.type = "TrustRequested"
      BY <1>3, <2>3, <3>2 DEF DeliverTrust, Screen
    <3>3. CASE e.type = "TrustRequestResolved"
      BY <1>3, <2>3, <3>3 DEF DeliverTrust, Screen
    <3> QED
      BY <2>5, <3>1, <3>2, <3>3 DEF EventTrue
  <2> QED
    BY <2>6, <2>7, <2>8, <2>9
<1>4. CASE DecisionAnswered
  <2>1. PICK call \in calls :
          /\ call.kind \in {"approve", "deny"}
          /\ calls' = calls \ {call}
          /\ prompts' = IF Leaves(call) THEN WithoutRequest(prompts, call.id) ELSE prompts
          /\ delivery' = delivery
    BY <1>4 DEF DecisionAnswered, Screen
  <2>2. delivery' \in Seq(TrustEvent) /\ Range(delivery') \subseteq Range(delivery)
    BY <1>0, <2>1 DEF PromptTypes
  <2>3. PendingStays /\ prompts' \in Seq(TrustRequest)
        /\ \A r \in Range(prompts') : r.id \in trustSpent.ids
    <3>1. CASE Leaves(call)
      <4>1. call.id \notin PendingIds
        BY <1>0, <2>1, <3>1 DEF CallsTrue, CallTrue, Leaves
      <4> QED
        BY <2>1, <3>1, <4>1, OverLeaves
    <3>2. CASE ~Leaves(call)
      BY <1>2, <2>1, <3>2 DEF PendingStays
    <3> QED
      BY <3>1, <3>2
  <2> QED
    BY <1>1, <2>1, <2>2, <2>3, PromptStep
<1> QED
  BY <1>3, <1>4

LEMMA PromptInit ==
  TrustInit => PromptInv
<1> SUFFICES ASSUME TrustInit PROVE PromptInv
  OBVIOUS
<1>1. /\ pending = {} /\ announcing = {} /\ delivery = <<>> /\ prompts = <<>> /\ calls = {}
      /\ trustSpent = [edits |-> 0, calls |-> 0, ids |-> {}]
  BY DEF TrustInit
<1>2. Range(<<>>) = {} /\ PendingIds = {}
  BY <1>1 DEF Range, PendingIds
<1> QED
  BY <1>1, <1>2 DEF PromptInv, PromptTypes, IdsSpent, EventsTrue, CallsTrue

\* A prompt leaves the queue only when its request was decided or has ended
\* (useTrustRequests.ts, decide): what says that a request is over, an event on its way
\* or an accepted decision, is said once it is no longer pending.
THEOREM PromptLeavesDecidedHolds == TrustSpec => PromptLeavesDecided
<1> DEFINE Decided ==
      \A i \in DOMAIN prompts : prompts[i] \notin Range(prompts') => prompts[i] \notin pending
<1>1. PendingStays => Decided
  BY DEF PendingStays, Range
<1>2. prompts' = prompts => PendingStays
  BY DEF PendingStays
<1>3. ASSUME PromptInv, TrustNext PROVE PromptInv' /\ Decided
  <2>1. CASE DeliverTrust \/ DecisionAnswered
    BY <1>1, <1>3, <2>1, QueueShown
  <2>2. CASE EditConfig \/ RecordRequest \/ EndRequest \/ PublishTrust \/ ServeDecision
    <3>1. prompts' = prompts
      BY <2>2 DEF EditConfig, RecordRequest, EndRequest, PublishTrust, ServeDecision, SameScreen
    <3> QED
      BY <1>1, <1>2, <1>3, <2>2, <3>1, QueueSteps
  <2>3. CASE ServeTrust \/ GrantFails \/ ServePeek \/ Revoke
    <3>1. prompts' = prompts
      BY <2>3 DEF ServeTrust, GrantFails, ServePeek, Revoke, SameScreen
    <3> QED
      BY <1>1, <1>2, <1>3, <2>3, <3>1, AnswerSteps
  <2>4. CASE RequestReview \/ ReviewRead \/ ClickTrust \/ TrustAnswered \/ TrustAllAnswered
             \/ ClickDecision
    <3>1. prompts' = prompts
      BY <2>4 DEF RequestReview, ReviewRead, ClickTrust, TrustAnswered, TrustAllAnswered,
                  ClickDecision, SameScreen, Screen
    <3> QED
      BY <1>1, <1>2, <1>3, <2>4, <3>1, CallerSteps
  <2> QED
    BY <1>3, <2>1, <2>2, <2>3, <2>4 DEF TrustNext
<1>4. ASSUME PromptInv, UNCHANGED trustVars PROVE PromptInv'
  BY <1>4 DEF trustVars, PromptInv, PromptTypes, IdsSpent, EventsTrue, CallsTrue, PendingIds
<1>5. PromptInv /\ [TrustNext]_trustVars => PromptInv' /\ [Decided]_trustVars
  BY <1>3, <1>4
<1>6. PromptLeavesDecided <=> [][Decided]_trustVars
  BY DEF PromptLeavesDecided
<1> QED
  BY <1>5, <1>6, PromptInit, PTL DEF TrustSpec

-------------------------------------------------------------------------------
(* The leftovers dialog.                                                     *)

LeftoverSpec == LeftoverInit /\ [][LeftoverNext]_leftoverVars

OsState == {"free", "child", "dead", "stranger"}
Record == [key : Key, identity : {"child", None}]
Process == [key : Key, group : Group \cup {None}, adopted : BOOLEAN,
            status : {"Stopped", "Starting", "Running", "Stopping", "Crashed"}]
Entries == {Absent} \cup Process

LeftoverTypes ==
  /\ os \in [Group -> OsState]
  /\ runtime \in [Group -> Record \cup {None}]
  /\ entries \in [Entry -> Entries]
  /\ recorded \subseteq Group
  /\ surfaced \subseteq recorded
  /\ wire \in Seq(SUBSET Group) /\ \A i \in 1..Len(wire) : wire[i] \subseteq recorded
  /\ dialog \in [listens : BOOLEAN, rows : SUBSET Group] /\ dialog.rows \subseteq recorded
  /\ kills \in [Group -> {None, "sent", "killed", "failed"}]
  /\ left \in [runs : Nat, reconciles : Nat]

\* An entry in action has a group; while it starts the group is not somebody else's.
LaunchedLives ==
  \A e \in Entry : entries[e].status \in {"Starting", "Running", "Stopping"} =>
    /\ entries[e].group \in Group /\ os[entries[e].group] # "free"
    /\ entries[e].status = "Starting" => os[entries[e].group] # "stranger"

\* What was recorded was started; while it lives its record has its identity.
RecordsTrue ==
  \A g \in Group :
    /\ runtime[g] # None => g \in recorded
    /\ g \in recorded => os[g] # "free"
    /\ g \in recorded /\ os[g] = "child" => runtime[g] # None /\ runtime[g].identity = "child"

\* What is to be pruned is dead, what is to be adopted is not somebody else's.
FatesTrue ==
  fates # None => \A g \in DOMAIN fates :
    /\ g \in recorded
    /\ fates[g].target \in Entry \cup {None}
    /\ fates[g].what = "prune" => os[g] # "child"
    /\ fates[g].target # None => os[g] # "stranger"

\* A kill was asked for of a recorded group; once confirmed it is dead.
KillsTrue ==
  \A g \in Group :
    /\ kills[g] # None => g \in recorded
    /\ kills[g] = "killed" => os[g] # "child"

LeftoverInv == LeftoverTypes /\ LaunchedLives /\ RecordsTrue /\ FatesTrue /\ KillsTrue

\* An entry with a status is a registered process.
LEMMA HasStatus ==
  ASSUME LeftoverTypes, NEW e \in Entry,
         entries[e].status \in {"Stopped", "Starting", "Running", "Stopping", "Crashed"}
  PROVE  entries[e] \in Process
BY LeftoverAssumption DEF LeftoverTypes, Entries, Absent

\* A process whose status moves is a process.
LEMMA StatusMoves ==
  ASSUME LeftoverTypes, NEW e \in Entry, entries[e] \in Process,
         NEW s \in {"Stopped", "Starting", "Running", "Stopping", "Crashed"},
         entries' = [entries EXCEPT ![e].status = s]
  PROVE  entries' \in [Entry -> Entries]
<1>1. [entries[e] EXCEPT !.status = s] \in Process
  BY DEF Process
<1>2. entries' = [entries EXCEPT ![e] = [entries[e] EXCEPT !.status = s]]
  OBVIOUS
<1> QED
  BY <1>1, <1>2 DEF LeftoverTypes, Entries

\* A registered process rests.
LEMMA RegisterKeeps == LeftoverInv /\ Register => LeftoverInv'
<1> SUFFICES ASSUME LeftoverInv, Register PROVE LeftoverInv'
  OBVIOUS
<1> USE DEF LeftoverInv, Register
<1>1. LeftoverTypes'
  <2>1. PICK e \in Entry, k \in Key :
          entries' = [entries EXCEPT ![e] = [Absent EXCEPT !.key = k, !.status = "Stopped"]]
    OBVIOUS
  <2>2. [Absent EXCEPT !.key = k, !.status = "Stopped"] \in Entries
    BY DEF Absent, Entries, Process
  <2>3. entries' \in [Entry -> Entries]
    BY <2>1, <2>2 DEF LeftoverTypes
  <2> QED
    BY <2>3 DEF LeftoverTypes
<1>2. LaunchedLives'
  BY DEF LeftoverTypes, LaunchedLives
<1>3. RecordsTrue' /\ FatesTrue' /\ KillsTrue'
  BY DEF RecordsTrue, FatesTrue, KillsTrue
<1> QED
  BY <1>1, <1>2, <1>3

\* A group that starts was free: no record, fate or kill names it.
LEMMA StartKeeps == LeftoverInv /\ Start => LeftoverInv'
<1> SUFFICES ASSUME LeftoverInv, Start PROVE LeftoverInv'
  OBVIOUS
<1> USE DEF LeftoverInv, Start
<1>1. LeftoverTypes'
  <2>1. PICK e \in Entry, g \in Group :
          /\ entries[e].status \in {"Stopped", "Crashed"}
          /\ os' = [os EXCEPT ![g] = "child"]
          /\ entries' = [entries EXCEPT ![e] = [@ EXCEPT !.status = "Starting", !.group = g,
                                                        !.adopted = FALSE]]
    OBVIOUS
  <2>2. [entries[e] EXCEPT !.status = "Starting", !.group = g, !.adopted = FALSE] \in Entries
    <3>1. entries[e] \in Process
      BY <2>1, HasStatus
    <3> QED
      BY <3>1 DEF Process, Entries
  <2>3. entries' \in [Entry -> Entries] /\ os' \in [Group -> OsState]
    BY <2>1, <2>2 DEF LeftoverTypes, OsState
  <2> QED
    BY <2>3 DEF LeftoverTypes
<1>2. LaunchedLives'
  BY DEF LeftoverTypes, LaunchedLives
<1>3. RecordsTrue'
  BY DEF LeftoverTypes, RecordsTrue
<1>4. FatesTrue'
  BY DEF LeftoverTypes, RecordsTrue, FatesTrue
<1>5. KillsTrue'
  BY LeftoverAssumption DEF LeftoverTypes, RecordsTrue, KillsTrue
<1> QED
  BY <1>1, <1>2, <1>3, <1>4, <1>5

\* The record that is written has the identity of the group as it is now.
LEMMA RecordedKeeps == LeftoverInv /\ Recorded => LeftoverInv'
<1> SUFFICES ASSUME LeftoverInv, Recorded PROVE LeftoverInv'
  OBVIOUS
<1> USE DEF LeftoverInv, Recorded
<1>1. LeftoverTypes'
  <2>1. PICK e \in Entry :
          /\ entries[e].status = "Starting"
          /\ entries' = [entries EXCEPT ![e].status = "Running"]
          /\ runtime' = [runtime EXCEPT ![entries[e].group]
                                          = RecordOf(entries[e].key, entries[e].group)]
          /\ recorded' = recorded \cup {entries[e].group}
    OBVIOUS
  <2>2. entries[e].group \in Group /\ os[entries[e].group] \in {"child", "dead"}
    BY <2>1 DEF LaunchedLives, LeftoverTypes, OsState
  <2>3. entries[e].key \in Key
    BY <2>1, HasStatus DEF LeftoverTypes, Entries, Process
  <2>4. RecordOf(entries[e].key, entries[e].group) \in Record
    BY <2>2, <2>3 DEF RecordOf, Identify, Record
  <2>5. entries' \in [Entry -> Entries]
    <3>1. entries[e] \in Process
      BY <2>1, HasStatus
    <3> QED
      BY <2>1, <3>1, StatusMoves
  <2>6. runtime' \in [Group -> Record \cup {None}]
    BY <2>1, <2>2, <2>4 DEF LeftoverTypes
  <2> QED
    BY <2>1, <2>2, <2>5, <2>6 DEF LeftoverTypes
<1>2. LaunchedLives'
  BY DEF LeftoverTypes, LaunchedLives
<1>3. RecordsTrue'
  <2>1. PICK e \in Entry :
          /\ entries[e].status = "Starting"
          /\ runtime' = [runtime EXCEPT ![entries[e].group]
                                          = RecordOf(entries[e].key, entries[e].group)]
          /\ recorded' = recorded \cup {entries[e].group}
    OBVIOUS
  <2> DEFINE g == entries[e].group
  <2>2. g \in Group /\ os[g] \in {"child", "dead"}
    BY <2>1 DEF LaunchedLives, LeftoverTypes, OsState
  <2>3. runtime'[g] = RecordOf(entries[e].key, g)
    BY <2>1, <2>2 DEF LeftoverTypes
  <2>4. entries[e].key \in Key
    BY <2>1, HasStatus DEF Process
  <2>5. RecordOf(entries[e].key, g) \in [key : Key, identity : {"child", "stranger", None}]
    BY <2>4 DEF RecordOf, Identify
  <2>7. os[g] = "child" => runtime'[g] # None /\ runtime'[g].identity = "child"
    BY LeftoverAssumption, <2>3, <2>5 DEF RecordOf, Identify
  <2>6. \A h \in Group \ {g} : runtime'[h] = runtime[h]
    BY <2>1 DEF LeftoverTypes
  <2> QED
    BY <2>1, <2>2, <2>7, <2>6 DEF RecordsTrue
<1>4. FatesTrue'
  BY DEF FatesTrue
<1>5. KillsTrue'
  BY DEF KillsTrue
<1> QED
  BY <1>1, <1>2, <1>3, <1>4, <1>5

\* A stop ends only a group that is a child.
LEMMA StoppedKeeps == LeftoverInv /\ Stopped => LeftoverInv'
<1> SUFFICES ASSUME LeftoverInv, Stopped PROVE LeftoverInv'
  OBVIOUS
<1> USE DEF LeftoverInv, Stopped
<1>1. LeftoverTypes'
  <2>1. PICK e \in Entry :
          /\ entries[e].status = "Running"
          /\ entries' = [entries EXCEPT ![e].status = "Stopping"]
          /\ os' = [os EXCEPT ![entries[e].group] = IF @ = "child" THEN "dead" ELSE @]
    OBVIOUS
  <2>2. entries' \in [Entry -> Entries]
    <3>1. entries[e] \in Process
      BY <2>1, HasStatus
    <3> QED
      BY <2>1, <3>1, StatusMoves
  <2>3. os' \in [Group -> OsState]
    BY <2>1 DEF LeftoverTypes, OsState
  <2> QED
    BY <2>2, <2>3 DEF LeftoverTypes
<1>2. LaunchedLives'
  BY DEF LeftoverTypes, LaunchedLives
<1>3. RecordsTrue'
  BY DEF LeftoverTypes, RecordsTrue
<1>4. FatesTrue'
  BY DEF LeftoverTypes, FatesTrue
<1>5. KillsTrue'
  BY DEF LeftoverTypes, KillsTrue
<1> QED
  BY <1>1, <1>2, <1>3, <1>4, <1>5

\* A child may end whoever still names it.
LEMMA ExitsKeeps == LeftoverInv /\ Exits => LeftoverInv'
<1> SUFFICES ASSUME LeftoverInv, Exits PROVE LeftoverInv'
  OBVIOUS
<1> USE DEF LeftoverInv, Exits
<1>1. LeftoverTypes'
  BY DEF LeftoverTypes, OsState
<1>2. LaunchedLives'
  BY DEF LeftoverTypes, LaunchedLives
<1>3. RecordsTrue'
  BY DEF LeftoverTypes, RecordsTrue
<1>4. FatesTrue'
  BY DEF LeftoverTypes, FatesTrue
<1>5. KillsTrue'
  BY DEF LeftoverTypes, KillsTrue
<1> QED
  BY <1>1, <1>2, <1>3, <1>4, <1>5

\* The record goes only when the group has ended.
LEMMA RestsKeeps == LeftoverInv /\ Rests => LeftoverInv'
<1> SUFFICES ASSUME LeftoverInv, Rests PROVE LeftoverInv'
  OBVIOUS
<1> USE DEF LeftoverInv, Rests
<1>1. LeftoverTypes'
  <2>1. PICK e \in Entry, status \in {"Stopped", "Crashed"} :
          /\ entries[e].status \in {"Running", "Stopping"}
          /\ runtime' = [runtime EXCEPT ![entries[e].group] = None]
          /\ entries' = [entries EXCEPT ![e] = [@ EXCEPT !.status = status, !.group = None,
                                                        !.adopted = FALSE]]
    OBVIOUS
  <2>2. [entries[e] EXCEPT !.status = status, !.group = None, !.adopted = FALSE] \in Entries
    <3>1. entries[e] \in Process
      BY <2>1, HasStatus
    <3> QED
      BY <3>1 DEF Process, Entries
  <2>3. entries' \in [Entry -> Entries]
    BY <2>1, <2>2 DEF LeftoverTypes
  <2>4. runtime' \in [Group -> Record \cup {None}]
    BY <2>1 DEF LeftoverTypes
  <2> QED
    BY <2>3, <2>4 DEF LeftoverTypes
<1>2. LaunchedLives'
  BY DEF LeftoverTypes, LaunchedLives
<1>3. RecordsTrue'
  BY DEF LeftoverTypes, RecordsTrue
<1>4. FatesTrue' /\ KillsTrue'
  BY DEF FatesTrue, KillsTrue
<1> QED
  BY <1>1, <1>2, <1>3, <1>4

\* An id that is taken over was dead, and neither starting nor to be adopted.
LEMMA RecycledKeeps == LeftoverInv /\ Recycled => LeftoverInv'
<1> SUFFICES ASSUME LeftoverInv, Recycled PROVE LeftoverInv'
  OBVIOUS
<1> USE DEF LeftoverInv, Recycled
<1>1. LeftoverTypes'
  BY DEF LeftoverTypes, OsState
<1>2. LaunchedLives'
  BY DEF LeftoverTypes, LaunchedLives
<1>3. RecordsTrue'
  BY DEF LeftoverTypes, RecordsTrue
<1>4. FatesTrue'
  BY DEF LeftoverTypes, FatesTrue
<1>5. KillsTrue'
  BY DEF LeftoverTypes, KillsTrue
<1> QED
  BY <1>1, <1>2, <1>3, <1>4, <1>5

\* A crash leaves the groups and their records.
LEMMA ForceQuitKeeps == LeftoverInv /\ ForceQuit => LeftoverInv'
<1> SUFFICES ASSUME LeftoverInv, ForceQuit PROVE LeftoverInv'
  OBVIOUS
<1> USE DEF LeftoverInv, ForceQuit
<1>1. LeftoverTypes'
  <2>1. Absent \in Entries
    BY DEF Absent, Entries, Process
  <2>2. entries' \in [Entry -> Entries]
    BY <2>1
  <2>3. /\ wire' \in Seq(SUBSET Group) /\ Len(wire') = 0
        /\ dialog' \in [listens : BOOLEAN, rows : SUBSET Group] /\ dialog'.rows = {}
        /\ kills' \in [Group -> {None, "sent", "killed", "failed"}]
    OBVIOUS
  <2>4. left' \in [runs : Nat, reconciles : Nat]
    BY DEF LeftoverTypes
  <2> QED
    BY <2>2, <2>3, <2>4 DEF LeftoverTypes
<1>2. LaunchedLives'
  <2>1. Absent.status = None
    BY DEF Absent
  <2>2. \A e \in Entry : entries'[e].status = None
    BY <2>1
  <2> QED
    BY LeftoverAssumption, <2>2 DEF LaunchedLives
<1>3. FatesTrue'
  BY DEF FatesTrue
<1>4. KillsTrue'
  BY LeftoverAssumption DEF KillsTrue
<1>5. RecordsTrue'
  BY DEF RecordsTrue
<1> QED
  BY <1>1, <1>2, <1>3, <1>4, <1>5

\* What is classified is recorded; a record whose identity no longer matches names no child.
LEMMA ClassifyKeeps == LeftoverInv /\ Classify => LeftoverInv'
<1> SUFFICES ASSUME LeftoverInv, Classify PROVE LeftoverInv'
  OBVIOUS
<1> USE DEF LeftoverInv, Classify
<1>1. LeftoverTypes'
  BY DEF LeftoverTypes
<1>2. FatesTrue'
  BY LeftoverAssumption DEF LeftoverTypes, RecordsTrue, FatesTrue, Record, Identify, RecordedAlive, Fate
<1>3. LaunchedLives' /\ RecordsTrue' /\ KillsTrue'
  BY DEF LaunchedLives, RecordsTrue, KillsTrue
<1> QED
  BY <1>1, <1>2, <1>3

\* A fate that is applied prunes a dead group or adopts one that is not a stranger's.
LEMMA ApplyKeeps == LeftoverInv /\ Apply => LeftoverInv'
<1> SUFFICES ASSUME LeftoverInv, Apply PROVE LeftoverInv'
  OBVIOUS
<1> USE DEF LeftoverInv, Apply
<1>1. LeftoverTypes'
  <2>1. PICK g \in DOMAIN fates :
          LET target  == fates[g].target
              prune   == fates[g].what = "prune"
              claimed == target # None /\ entries[target].status \in {"Stopped", "Crashed"}
          IN /\ entries' = IF claimed
                           THEN [entries EXCEPT ![target] = [@ EXCEPT !.status = "Starting",
                                                               !.group = g, !.adopted = TRUE]]
                           ELSE entries
             /\ runtime' = IF prune THEN [runtime EXCEPT ![g] = None] ELSE runtime
             /\ surfaced' = IF claimed \/ prune THEN surfaced ELSE surfaced \cup {g}
    OBVIOUS
  <2>2. g \in recorded /\ g \in Group /\ fates[g].target \in Entry \cup {None}
    BY DEF FatesTrue, LeftoverTypes
  <2>3. \A e \in Entry : entries[e].status \in {"Stopped", "Crashed"} =>
          [entries[e] EXCEPT !.status = "Starting", !.group = g, !.adopted = TRUE] \in Entries
    <3> SUFFICES ASSUME NEW e \in Entry, entries[e].status \in {"Stopped", "Crashed"}
                 PROVE  [entries[e] EXCEPT !.status = "Starting", !.group = g, !.adopted = TRUE]
                        \in Entries
      OBVIOUS
    <3>1. entries[e] \in Process
      BY HasStatus
    <3> QED
      BY <2>2, <3>1 DEF Process, Entries
  <2>4. entries' \in [Entry -> Entries]
    BY <2>1, <2>2, <2>3 DEF LeftoverTypes
  <2>5. runtime' \in [Group -> Record \cup {None}] /\ surfaced' \subseteq recorded
    BY <2>1, <2>2 DEF LeftoverTypes
  <2> QED
    BY <2>4, <2>5 DEF LeftoverTypes
<1>2. LaunchedLives'
  BY DEF LeftoverTypes, LaunchedLives, RecordsTrue, FatesTrue
<1>3. RecordsTrue'
  BY DEF LeftoverTypes, RecordsTrue, FatesTrue
<1>4. FatesTrue'
  BY DEF FatesTrue
<1>5. KillsTrue'
  BY DEF KillsTrue
<1> QED
  BY <1>1, <1>2, <1>3, <1>4, <1>5

\* Only recorded groups are announced.
LEMMA AnnounceLeftoversKeeps == LeftoverInv /\ AnnounceLeftovers => LeftoverInv'
<1> SUFFICES ASSUME LeftoverInv, AnnounceLeftovers PROVE LeftoverInv'
  OBVIOUS
<1> USE DEF LeftoverInv, AnnounceLeftovers
<1>1. LeftoverTypes'
  BY DEF LeftoverTypes
<1>2. FatesTrue'
  BY DEF FatesTrue
<1>3. LaunchedLives' /\ RecordsTrue' /\ KillsTrue'
  BY DEF LaunchedLives, RecordsTrue, KillsTrue
<1> QED
  BY <1>1, <1>2, <1>3

\* Listening shows nothing.
LEMMA ListenKeeps == LeftoverInv /\ Listen => LeftoverInv'
<1> SUFFICES ASSUME LeftoverInv, Listen PROVE LeftoverInv'
  OBVIOUS
<1> USE DEF LeftoverInv, Listen
<1>1. LeftoverTypes'
  BY DEF LeftoverTypes
<1>2. LaunchedLives' /\ RecordsTrue' /\ FatesTrue' /\ KillsTrue'
  BY DEF LaunchedLives, RecordsTrue, FatesTrue, KillsTrue
<1> QED
  BY <1>1, <1>2

\* Only recorded groups are shown.
LEMMA OrphansFoundKeeps == LeftoverInv /\ OrphansFound => LeftoverInv'
<1> SUFFICES ASSUME LeftoverInv, OrphansFound PROVE LeftoverInv'
  OBVIOUS
<1> USE DEF LeftoverInv, OrphansFound
<1>1. LeftoverTypes'
  <2> wire \in Seq(SUBSET Group) /\ wire # <<>> /\ wire' = Tail(wire)
    BY DEF LeftoverTypes
  <2>1. wire' \in Seq(SUBSET Group) /\ \A i \in 1..Len(wire') : wire'[i] \subseteq recorded
    <3>1. Len(Tail(wire)) = Len(wire) - 1 /\ Tail(wire) \in Seq(SUBSET Group)
      OBVIOUS
    <3>2. \A i \in 1..Len(Tail(wire)) : i + 1 \in 1..Len(wire) /\ Tail(wire)[i] = wire[i + 1]
      BY <3>1
    <3> QED
      BY <3>1, <3>2 DEF LeftoverTypes
  <2>2. Head(wire) \subseteq recorded
    <3>1. 1 \in 1..Len(wire) /\ Head(wire) = wire[1]
      OBVIOUS
    <3> QED
      BY <3>1 DEF LeftoverTypes
  <2>3. dialog' \in [listens : BOOLEAN, rows : SUBSET Group] /\ dialog'.rows \subseteq recorded
    BY <2>2 DEF LeftoverTypes
  <2> QED
    BY <2>1, <2>3 DEF LeftoverTypes
<1>2. LaunchedLives' /\ RecordsTrue' /\ FatesTrue' /\ KillsTrue'
  BY DEF LaunchedLives, RecordsTrue, FatesTrue, KillsTrue
<1> QED
  BY <1>1, <1>2

\* A kill is asked for of a row.
LEMMA KillKeeps == LeftoverInv /\ Kill => LeftoverInv'
<1> SUFFICES ASSUME LeftoverInv, Kill PROVE LeftoverInv'
  OBVIOUS
<1> USE DEF LeftoverInv, Kill
<1>1. LeftoverTypes'
  BY DEF LeftoverTypes, Asked
<1>2. KillsTrue'
  BY DEF LeftoverTypes, KillsTrue, Asked
<1>3. LaunchedLives' /\ RecordsTrue' /\ FatesTrue'
  BY DEF LaunchedLives, RecordsTrue, FatesTrue
<1> QED
  BY <1>1, <1>2, <1>3

\* The rows are gone, the groups are not.
LEMMA LeaveRunningKeeps == LeftoverInv /\ LeaveRunning => LeftoverInv'
<1> SUFFICES ASSUME LeftoverInv, LeaveRunning PROVE LeftoverInv'
  OBVIOUS
<1> USE DEF LeftoverInv, LeaveRunning
<1>1. LeftoverTypes'
  BY DEF LeftoverTypes
<1>2. LaunchedLives' /\ RecordsTrue' /\ FatesTrue' /\ KillsTrue'
  BY DEF LaunchedLives, RecordsTrue, FatesTrue, KillsTrue
<1> QED
  BY <1>1, <1>2

\* A confirmed kill leaves no child behind, a failed one leaves the record.
LEMMA ServeKillKeeps == LeftoverInv /\ ServeKill => LeftoverInv'
<1> SUFFICES ASSUME LeftoverInv, ServeKill PROVE LeftoverInv'
  OBVIOUS
<1> USE DEF LeftoverInv, ServeKill
<1>1. LeftoverTypes'
  BY DEF LeftoverTypes, OsState, KillOrphan
<1>2. LaunchedLives'
  BY DEF LeftoverTypes, LaunchedLives, KillOrphan
<1>3. RecordsTrue'
  BY LeftoverAssumption DEF LeftoverTypes, RecordsTrue, Identify, RecordedAlive, KillOrphan
<1>4. FatesTrue'
  BY DEF LeftoverTypes, FatesTrue, KillOrphan
<1>5. KillsTrue'
  BY LeftoverAssumption DEF LeftoverTypes, RecordsTrue, KillsTrue, Identify, RecordedAlive, KillOrphan
<1> QED
  BY <1>1, <1>2, <1>3, <1>4, <1>5

\* An answer that was taken is gone.
LEMMA KillAnsweredKeeps == LeftoverInv /\ KillAnswered => LeftoverInv'
<1> SUFFICES ASSUME LeftoverInv, KillAnswered PROVE LeftoverInv'
  OBVIOUS
<1> USE DEF LeftoverInv, KillAnswered
<1>1. LeftoverTypes'
  BY DEF LeftoverTypes
<1>2. KillsTrue'
  BY LeftoverAssumption DEF LeftoverTypes, KillsTrue
<1>3. LaunchedLives' /\ RecordsTrue' /\ FatesTrue'
  BY DEF LaunchedLives, RecordsTrue, FatesTrue
<1> QED
  BY <1>1, <1>2, <1>3

\* Nothing runs and nothing was recorded when Soloist is first launched.
LEMMA InitHolds == LeftoverInit => LeftoverInv
<1> SUFFICES ASSUME LeftoverInit PROVE LeftoverInv
  OBVIOUS
<1> USE LeftoverAssumption DEF LeftoverInit, LeftoverInv
<1>1. LeftoverTypes
  <2>1. entries \in [Entry -> Entries]
    BY DEF Entries
  <2>2. wire \in Seq(SUBSET Group) /\ Len(wire) = 0
    OBVIOUS
  <2> QED
    BY <2>1, <2>2 DEF LeftoverTypes, OsState
<1>2. LaunchedLives
  BY DEF LaunchedLives, Absent
<1>3. RecordsTrue /\ FatesTrue /\ KillsTrue
  BY DEF RecordsTrue, FatesTrue, KillsTrue
<1> QED
  BY <1>1, <1>2, <1>3

\* Every step keeps it, a stutter included.
LEMMA StepKeeps == LeftoverInv /\ [LeftoverNext]_leftoverVars => LeftoverInv'
<1> SUFFICES ASSUME LeftoverInv, [LeftoverNext]_leftoverVars PROVE LeftoverInv'
  OBVIOUS
<1>1. CASE LeftoverNext
  BY <1>1, RegisterKeeps, StartKeeps, RecordedKeeps, StoppedKeeps, ExitsKeeps, RestsKeeps,
     RecycledKeeps, ForceQuitKeeps, ClassifyKeeps, ApplyKeeps, AnnounceLeftoversKeeps,
     ListenKeeps, OrphansFoundKeeps, KillKeeps, LeaveRunningKeeps, ServeKillKeeps,
     KillAnsweredKeeps DEF LeftoverNext
<1>2. CASE UNCHANGED leftoverVars
  BY <1>2 DEF leftoverVars, LeftoverInv, LeftoverTypes, LaunchedLives, RecordsTrue, FatesTrue,
              KillsTrue
<1> QED
  BY <1>1, <1>2

\* The group of a record whose identity is still its leader's is a child.
LEMMA RecordedAliveIsChild ==
  ASSUME LeftoverTypes, NEW g \in Group, RecordedAlive(g)
  PROVE  os[g] = "child"
<1>1. runtime[g] \in Record
  BY DEF RecordedAlive, LeftoverTypes
<1> QED
  BY <1>1 DEF RecordedAlive, Identify, Record, LeftoverTypes, OsState

\* Only a child is ever signalled or ends.
LEMMA StrangersStay == LeftoverInv /\ LeftoverNext => StrangersLeftAlone
<1> SUFFICES ASSUME LeftoverInv, LeftoverNext PROVE StrangersLeftAlone
  OBVIOUS
<1> USE DEF LeftoverInv, StrangersLeftAlone
<1>1. CASE Start
  BY <1>1 DEF Start, LeftoverTypes
<1>2. CASE Stopped
  BY <1>2 DEF Stopped, LeftoverTypes
<1>3. CASE Exits
  BY <1>3 DEF Exits, LeftoverTypes
<1>4. CASE Recycled
  BY <1>4 DEF Recycled, LeftoverTypes
<1>5. CASE ServeKill
  <2>1. PICK g \in Group :
          \E outcome \in KillOrphan(g) : os' = [os EXCEPT ![g] = outcome.os]
    BY <1>5 DEF ServeKill
  <2>2. \A outcome \in KillOrphan(g) : outcome.os = os[g] \/ os[g] = "child"
    BY RecordedAliveIsChild DEF KillOrphan
  <2> QED
    BY <2>1, <2>2 DEF LeftoverTypes
<1>6. CASE \/ Register \/ Recorded \/ Rests \/ ForceQuit \/ Classify \/ Apply
           \/ AnnounceLeftovers \/ Listen \/ OrphansFound \/ Kill \/ LeaveRunning \/ KillAnswered
  BY <1>6 DEF Register, Recorded, Rests, ForceQuit, Classify, Apply, AnnounceLeftovers, Listen,
              OrphansFound, Kill, LeaveRunning, KillAnswered
<1> QED
  BY <1>1, <1>2, <1>3, <1>4, <1>5, <1>6 DEF LeftoverNext

\* Of the steps that touch the kills, only the answer to one touches the rows as well,
\* short of a crash.
LEMMA RowsDrop == LeftoverInv /\ LeftoverNext => RowsDropTruly
<1> SUFFICES ASSUME LeftoverInv, LeftoverNext, kills' # kills, left' = left,
                    NEW g \in dialog.rows \ dialog'.rows
             PROVE  os[g] # "child"
  BY DEF RowsDropTruly
<1>1. CASE KillAnswered
  <2>1. PICK h \in Group : dialog' = IF kills[h] = "killed"
                                     THEN [dialog EXCEPT !.rows = @ \ {h}] ELSE dialog
    BY <1>1 DEF KillAnswered
  <2>2. g = h /\ kills[h] = "killed"
    BY <2>1 DEF LeftoverInv, LeftoverTypes
  <2> QED
    BY <2>2 DEF LeftoverInv, KillsTrue
<1>2. CASE ForceQuit
  <2>1. left.runs \in Nat /\ left' = [left EXCEPT !.runs = left.runs + 1] /\ "runs" \in DOMAIN left
    BY <1>2 DEF ForceQuit, LeftoverInv, LeftoverTypes
  <2>2. left'.runs = left.runs + 1
    BY <2>1
  <2> QED
    BY <2>1, <2>2
<1>3. CASE Kill \/ ServeKill
  BY <1>3 DEF Kill, ServeKill
<1>4. CASE \/ Register \/ Start \/ Recorded \/ Stopped \/ Exits \/ Rests \/ Recycled
           \/ Classify \/ Apply \/ AnnounceLeftovers \/ Listen \/ OrphansFound \/ LeaveRunning
  BY <1>4 DEF Register, Start, Recorded, Stopped, Exits, Rests, Recycled, Classify, Apply,
              AnnounceLeftovers, Listen, OrphansFound, LeaveRunning
<1> QED
  BY <1>1, <1>2, <1>3, <1>4 DEF LeftoverNext

\* Whatever crashes, recycled ids or failed signals come between: a recorded group stays
\* recorded while it lives, no stranger is signalled, and an answer drops a row only when
\* its group has ended (reconcile.rs kill_orphan, adopt.rs GroupSignal, useOrphans.ts
\* killOne).
THEOREM LeftoversHoldHolds == LeftoverSpec => LeftoversHold
<1> DEFINE Step == LeftoversFound' /\ StrangersLeftAlone /\ RowsDropTruly
<1>1. LeftoverInv /\ LeftoverInv' /\ [LeftoverNext]_leftoverVars => [Step]_leftoverVars
  <2> SUFFICES ASSUME LeftoverInv, LeftoverInv', LeftoverNext PROVE Step
    OBVIOUS
  <2>1. LeftoversFound'
    BY DEF LeftoverInv, LeftoverTypes, RecordsTrue, LeftoversFound
  <2> QED
    BY <2>1, StrangersStay, RowsDrop
<1> QED
  BY <1>1, InitHolds, StepKeeps, PTL DEF LeftoverSpec, LeftoversHold

-------------------------------------------------------------------------------
(* Navigation and the pool of terminals.                                     *)

NavigationSpec == NavigationInit /\ [][NavigationNext]_navigationVars

NavState ==
  [selected : NavId \cup {None}, shown : NavId \cup {None}, visited : Seq(NavId),
   settings : NavProject \cup {None}, orchestration : NavProject \cup {None},
   pending : NavId \cup {None}, landing : BOOLEAN]

\* What the user left, and no late answer to its launch has selected since.
Left == parted \ late

NavTypes ==
  /\ DOMAIN rows = NavId /\ DOMAIN folded = NavId
  /\ nav \in NavState
  /\ pool \in Seq(NavId) /\ viewed \in Seq(NavId)
  /\ parted \subseteq NavId /\ answers \subseteq NavId

\* What was left is neither in the history nor selected, and what is selected is
\* shown, but for a late answer that has not landed.
LeftBehind ==
  /\ Range(nav.visited) \cap Left = {}
  /\ nav.selected \notin Left
  /\ ~nav.landing => nav.shown = nav.selected

\* An id that left the list does not come back.
GoneForGood ==
  /\ \A id \in gone : folded[id] = None
  /\ \A id \in NavId : rows[id] # None /\ folded[id] = None => id \in gone
  /\ \A id \in Range(viewed) : rows[id] = None => id \in gone

ShownRow == nav.shown # None /\ rows[nav.shown] # None

\* What is shown while it is listed was viewed last.
ShownIsNewest ==
  ShownRow => /\ nav.shown \in Range(viewed)
              /\ \A id \in Range(viewed) \ {nav.shown} : Before(viewed, nav.shown, id)

\* The pool holds what was viewed, in the order it was viewed, no more than the cap,
\* and nothing listed that is older than what it lacks; what is shown may still be on
\* its way to the front.
PoolInOrder ==
  /\ Distinct(viewed) /\ Distinct(pool)
  /\ Range(pool) \subseteq Range(viewed)
  /\ Len(pool) <= PoolCap
  /\ \A x, y \in NavId : Before(pool, x, y) => Before(viewed, x, y) \/ y = nav.shown
  /\ \A x, y \in NavId :
       Before(viewed, x, y) /\ y \in Range(pool) /\ rows[x] # None /\ rows[y] # None
         => x \in Range(pool) \/ x = nav.shown

NavInv == NavTypes /\ LeftBehind /\ GoneForGood /\ ShownIsNewest /\ PoolInOrder

-------------------------------------------------------------------------------
(* The history.                                                              *)

\* The order once a process is shown: it comes first, the others keep theirs.
ShownFirst(t, s, id) ==
  \A x, y \in NavId : Before(t, x, y) <=>
    \/ x = id /\ y \in Range(s) \ {id}
    \/ Before(s, x, y) /\ id \notin {x, y}

LEMMA Activated ==
  ASSUME NEW s \in Seq(NavId), NEW id \in NavId
  PROVE  /\ ActivateProcess(s, id) \in Seq(NavId)
         /\ Range(ActivateProcess(s, id)) = Range(s) \cup {id}
         /\ ShownFirst(ActivateProcess(s, id), s, id)
         /\ Distinct(s) => Distinct(ActivateProcess(s, id))
<1>1. PICK t : t = Keeping(s, NavId \ {id})
  OBVIOUS
<1>2. Range(s) \subseteq NavId
  BY DEF Range
<1>3. /\ t \in Seq(NavId) /\ Range(t) = Range(s) \ {id}
      /\ \A x, y \in NavId : Before(t, x, y) <=> Before(s, x, y) /\ id \notin {x, y}
  <2>1. /\ t \in Seq(NavId)
        /\ Range(t) = Range(s) \cap (NavId \ {id})
        /\ \A x, y : Before(t, x, y) => Before(s, x, y)
        /\ \A x, y : Before(s, x, y) /\ x \in NavId \ {id} /\ y \in NavId \ {id} => Before(t, x, y)
    BY <1>1, KeepingKeeps
  <2>2. \A x, y : Before(t, x, y) => x \in Range(t) /\ y \in Range(t)
    BY DEF Before, Range
  <2> QED
    BY <1>2, <2>1, <2>2
<1>4. PICK u : u = <<id>> \o t
  OBVIOUS
<1>5. /\ u \in Seq(NavId)
      /\ \A x : x \in Range(u) <=> x \in Range(t) \/ x = id
      /\ \A x, y : Before(u, x, y) <=> Before(t, x, y) \/ (x = id /\ y \in Range(t))
  BY <1>3, <1>4, Pushed
<1>6. ActivateProcess(s, id) = u
  BY <1>1, <1>4 DEF ActivateProcess
<1>7. Range(u) = Range(s) \cup {id}
  BY <1>3, <1>5
<1>8. ShownFirst(u, s, id)
  BY <1>3, <1>5 DEF ShownFirst
<1>9. ASSUME Distinct(s) PROVE Distinct(u)
  <2>1. \A x \in Range(u) : x \in NavId /\ (x # id => x \in Range(s))
    BY <1>2, <1>7
  <2> QED
    BY <1>8, <1>9, <2>1 DEF Distinct, ShownFirst
<1> QED
  BY <1>5, <1>6, <1>7, <1>8, <1>9

LEMMA Forgotten ==
  ASSUME NEW s \in Seq(NavId), NEW ids
  PROVE  /\ ForgetProcesses(s, ids) \in Seq(NavId)
         /\ Range(ForgetProcesses(s, ids)) = Range(s) \ ids
<1>1. Range(s) \subseteq NavId
  BY DEF Range
<1>2. /\ Keeping(s, NavId \ ids) \in Seq(NavId)
      /\ Range(Keeping(s, NavId \ ids)) = Range(s) \cap (NavId \ ids)
  BY KeepingKeeps
<1> QED
  BY <1>1, <1>2 DEF ForgetProcesses

LEMMA MostRecent ==
  ASSUME NEW s \in Seq(NavId), NEW ids
  PROVE  MostRecentAvailable(s, ids) \in (Range(s) \cap ids) \cup {None}
<1>1. PICK t : t = Keeping(s, ids)
  OBVIOUS
<1>2. t \in Seq(NavId) /\ Range(t) = Range(s) \cap ids
  BY <1>1, KeepingKeeps
<1>3. t # <<>> => t[1] \in Range(t)
  BY <1>2 DEF Range
<1> QED
  BY <1>1, <1>2, <1>3 DEF MostRecentAvailable

-------------------------------------------------------------------------------
(* The handlers.                                                             *)

\* A state of the navigation that fell back on nothing that was left.
Stands(n, departed) ==
  /\ n \in NavState
  /\ Range(n.visited) \cap departed = {}
  /\ n.selected \notin departed
  /\ ~n.landing => n.shown = n.selected

LEMMA ShowingStands ==
  ASSUME NEW n \in NavState, NEW departed, Range(n.visited) \cap departed = {},
         NEW id \in NavId \cup {None}, id \notin departed,
         NEW settings \in NavProject \cup {None}, NEW orchestration \in NavProject \cup {None}
  PROVE  /\ Stands(Showing(n, id, settings, orchestration), departed)
         /\ Showing(n, id, settings, orchestration).shown = id
         /\ Showing(n, id, settings, orchestration).visited = n.visited
<1>1. PICK m : m = Showing(n, id, settings, orchestration)
  OBVIOUS
<1>2. /\ m \in NavState
      /\ m.selected = id /\ m.shown = id /\ m.visited = n.visited
  BY <1>1 DEF Showing, NavState
<1> QED
  BY <1>1, <1>2 DEF Stands

LEMMA SelectStands ==
  ASSUME NEW n \in NavState, NEW departed, Range(n.visited) \cap departed = {}, NEW id \in NavId
  PROVE  /\ Stands(SelectProcess(n, id), departed \ {id})
         /\ SelectProcess(n, id).shown = id
<1>1. PICK shown : shown = Showing(n, id, None, None)
  OBVIOUS
<1>2. Stands(shown, departed \ {id}) /\ shown.shown = id /\ shown.visited = n.visited
  <2>1. PICK rest : rest = departed \ {id}
    OBVIOUS
  <2>2. /\ Range(n.visited) \cap rest = {} /\ id \notin rest /\ id \in NavId \cup {None}
        /\ None \in NavProject \cup {None}
    BY <2>1
  <2>3. Stands(Showing(n, id, None, None), rest)
        /\ Showing(n, id, None, None).shown = id
        /\ Showing(n, id, None, None).visited = n.visited
    BY <2>2, ShowingStands
  <2> QED
    BY <1>1, <2>1, <2>3
<1>3. PICK m : m = [shown EXCEPT !.visited = ActivateProcess(shown.visited, id)]
  OBVIOUS
<1>4. /\ n.visited \in Seq(NavId)
      /\ ActivateProcess(n.visited, id) \in Seq(NavId)
      /\ Range(ActivateProcess(n.visited, id)) = Range(n.visited) \cup {id}
  BY Activated DEF NavState
<1>5. /\ m \in NavState /\ m.shown = id /\ m.selected = shown.selected
      /\ m.visited = ActivateProcess(n.visited, id) /\ m.landing = shown.landing
  BY <1>2, <1>3, <1>4 DEF Stands, NavState
<1>6. SelectProcess(n, id) = m
  BY <1>1, <1>3 DEF SelectProcess
<1> QED
  BY <1>2, <1>4, <1>5, <1>6 DEF Stands

\* The selection leaves what is forgotten for a listed process that is not, or for
\* Start; if it is not on what is forgotten it stays.
Departs(n, m, ids, list) ==
  /\ n.selected \notin ids => m.shown = n.shown
  /\ n.selected \in ids => m.shown \in (Listed(list) \ ids) \cup {None}

LEMMA LifecycleStands ==
  ASSUME NEW n, NEW departed, Stands(n, departed), None \notin departed, NEW ids \in SUBSET NavId, NEW list
  PROVE  /\ Stands(AfterLifecycle(n, ids, list), departed \cup ids)
         /\ Departs(n, AfterLifecycle(n, ids, list), ids, list)
<1>1. PICK kept : kept = ForgetProcesses(n.visited, ids)
  OBVIOUS
<1>2. kept \in Seq(NavId) /\ Range(kept) = Range(n.visited) \ ids
  BY <1>1, Forgotten DEF Stands, NavState
<1>3. PICK m : m = [n EXCEPT !.visited = kept]
  OBVIOUS
<1>4. /\ m \in NavState /\ m.visited = kept /\ m.selected = n.selected /\ m.shown = n.shown
      /\ m.landing = n.landing
  BY <1>2, <1>3 DEF Stands, NavState
<1>5. Range(m.visited) \cap (departed \cup ids) = {}
  BY <1>2, <1>4 DEF Stands
<1>6. AfterLifecycle(n, ids, list) = AfterForgetting(m, ids, list)
  BY <1>1, <1>3 DEF AfterLifecycle
<1>7. CASE n.selected \notin ids
  <2>1. AfterForgetting(m, ids, list) = m
    BY <1>4, <1>7 DEF AfterForgetting
  <2> QED
    BY <1>4, <1>5, <1>6, <1>7, <2>1 DEF Stands, Departs
<1>8. CASE n.selected \in ids
  <2>1. PICK next : next = MostRecentAvailable(m.visited, Listed(list))
    OBVIOUS
  <2>2. next \in (Range(m.visited) \cap Listed(list)) \cup {None}
    BY <1>2, <1>4, <2>1, MostRecent
  <2>3. AfterForgetting(m, ids, list) = IF next = None THEN OpenStart(m) ELSE SelectProcess(m, next)
    BY <1>4, <1>8, <2>1 DEF AfterForgetting
  <2>4. CASE next = None
    <3>1. None \notin departed \cup ids
      BY NavigationAssumption
    <3>2. Stands(OpenStart(m), departed \cup ids) /\ OpenStart(m).shown = None
      <4>1. PICK all : all = departed \cup ids
        OBVIOUS
      <4>2. /\ Range(m.visited) \cap all = {} /\ None \notin all
            /\ None \in NavId \cup {None} /\ None \in NavProject \cup {None}
        BY <1>5, <3>1, <4>1
      <4> QED
        BY <1>4, <4>1, <4>2, ShowingStands DEF OpenStart
    <3> QED
      BY <1>6, <1>8, <2>3, <2>4, <3>2 DEF Departs
  <2>5. CASE next # None
    <3>1. next \in NavId /\ next \in Listed(list) /\ next \notin departed \cup ids
      BY <1>5, <2>2, <2>5 DEF Listed
    <3>2. PICK all : all = departed \cup ids
      OBVIOUS
    <3>4. Range(m.visited) \cap all = {} /\ all \ {next} = all
      BY <1>5, <3>1, <3>2
    <3>5. Stands(SelectProcess(m, next), all \ {next}) /\ SelectProcess(m, next).shown = next
      BY <1>4, <3>1, <3>4, SelectStands
    <3>3. Stands(SelectProcess(m, next), departed \cup ids) /\ SelectProcess(m, next).shown = next
      BY <3>2, <3>4, <3>5
    <3> QED
      BY <1>6, <1>8, <2>3, <2>5, <3>1, <3>3 DEF Departs
  <2> QED
    BY <2>4, <2>5
<1> QED
  BY <1>7, <1>8

-------------------------------------------------------------------------------
(* What is offered.                                                          *)

\* The rows a group shows are of the group.
LEMMA NestedIsGroup ==
  ASSUME NEW group \in SUBSET NavId
  PROVE  Nested(group) \subseteq group
<1>1. PICK N : N = Cardinality(group)
  OBVIOUS
<1>2. N \in Nat
  BY <1>1, NavigationAssumption, FS_Subset, FS_CardinalityType
<1>3. PICK base, step :
        /\ base = {id \in group : Root(group, id)}
        /\ step = [i \in 1..N |-> [t \in SUBSET group |->
                     t \cup UNION {Workers(group, id) : id \in t}]]
  OBVIOUS
<1>4. base \in SUBSET group /\ step \in [1..N -> [SUBSET group -> SUBSET group]]
  <2>1. \A t \in SUBSET group : t \cup UNION {Workers(group, id) : id \in t} \in SUBSET group
    BY DEF Workers
  <2> QED
    BY <1>3, <2>1
<1>5. PICK f : Unfolds(f, N, base, step) /\ \A i \in 0..N : f[i] \in SUBSET group
  BY <1>2, <1>4, Recursion
<1> DEFINE Below(g) ==
      g = [n \in 0..N |-> IF n = 0 THEN {id \in group : Root(group, id)}
                          ELSE g[n - 1] \cup UNION {Workers(group, id) : id \in g[n - 1]}]
<1>6. Below(f)
  <2>1. \A i \in 0..N : i # 0 =>
          step[i][f[i - 1]] = f[i - 1] \cup UNION {Workers(group, id) : id \in f[i - 1]}
    <3> SUFFICES ASSUME NEW i \in 0..N, i # 0
                 PROVE  step[i][f[i - 1]] = f[i - 1] \cup UNION {Workers(group, id) : id \in f[i - 1]}
      OBVIOUS
    <3>1. i \in 1..N /\ f[i - 1] \in SUBSET group
      BY <1>2, <1>5
    <3> QED
      BY <1>3, <3>1
  <2> QED
    BY <1>3, <1>5, <2>1 DEF Unfolds
<1>7. PICK g : g = CHOOSE h : Below(h)
  OBVIOUS
<1>8. Below(g) /\ Nested(group) = g[N]
  <2>1. Below(g)
    BY <1>6, <1>7
  <2>2. Nested(group) = g[N]
    BY <1>1, <1>7 DEF Nested
  <2> QED
    BY <2>1, <2>2
<1>9. \A n \in 0..N :
        g[n] = IF n = 0 THEN {id \in group : Root(group, id)}
               ELSE g[n - 1] \cup UNION {Workers(group, id) : id \in g[n - 1]}
  BY <1>8, Zenon
<1> HIDE DEF Below
<1> DEFINE T == {n \in 0..N : g[n] \subseteq group}
<1>10. 0 \in T
  <2>1. 0 \in 0..N
    BY <1>2
  <2> QED
    BY <1>9, <2>1
<1>11. ASSUME NEW n \in 1..N, n - 1 \in T PROVE n \in T
  <2>1. n \in 0..N /\ n # 0 /\ g[n - 1] \subseteq group
    BY <1>2, <1>11
  <2>2. g[n] = g[n - 1] \cup UNION {Workers(group, id) : id \in g[n - 1]}
    BY <1>9, <2>1
  <2>3. UNION {Workers(group, id) : id \in g[n - 1]} \subseteq group
    BY DEF Workers
  <2> QED
    BY <2>1, <2>2, <2>3
<1>12. N \in T
  <2> HIDE DEF T
  <2>1. \A n \in 1..N : n - 1 \in T => n \in T
    BY <1>11
  <2>2. \A n \in 0..N : n \in T
    BY <1>2, <1>10, <2>1, UpTo
  <2> QED
    BY <1>2, <2>2
<1> QED
  BY <1>8, <1>12

\* What an intent of the surfaces is about.
IntentOK(intent) ==
  \/ intent.do \in {"select", "stop", "restart", "start", "resume", "trust"} /\ intent.to \in NavId
  \/ intent.do = "remove" /\ intent.to \in Listed(rows)
  \/ intent.do = "confirmRemoval" /\ intent.to = nav.pending /\ nav.pending \in NavId
  \/ intent.do \in {"openProjectSettings", "openOrchestration", "stopProject"}
     /\ intent.to \in NavProject
  \/ intent.do \in {"startAll", "restartRunning", "removeProject", "openStart", "openProject",
                    "clone", "quickStart", "launchAgent", "createTerminal", "dismissRemoval"}

Handlers == {"select", "stop", "restart", "start", "resume", "trust", "remove"}

\* Intents about rows the list holds.
OfListed(intents, list) == \A i \in intents : i.do \in Handlers /\ i.to \in Listed(list)

LEMMA ActionsAreHandlers ==
  ASSUME NEW row
  PROVE  ProcessActions(row) \subseteq Handlers /\ Primary(row) \subseteq Handlers
<1>1. ProcessActions(row) \subseteq Handlers
  BY DEF ProcessActions, RunStateActions, Handlers
<1>2. PICK order, offered :
        /\ order = <<"trust", "stop", "resume", "start", "restart", "remove">>
        /\ offered = Keeping(order, ProcessActions(row))
  OBVIOUS
<1>3. order \in Seq(Handlers)
  BY <1>2 DEF Handlers
<1>4. offered \in Seq(Handlers)
  BY <1>2, <1>3, KeepingKeeps
<1>5. offered # <<>> => offered[1] \in Handlers
  BY <1>4
<1>6. Primary(row) = IF row.status = "Running" /\ row.kind = "Command"
                     THEN {"restart"} \cap ProcessActions(row)
                     ELSE IF offered = <<>> THEN {} ELSE {offered[1]}
  BY <1>2 DEF Primary
<1> QED
  BY <1>1, <1>5, <1>6

LEMMA RowIsListed ==
  ASSUME NEW list, NEW id \in Listed(list)
  PROVE  /\ OfListed(Runnable(list, id), list)
         /\ OfListed(ControlIntents(list, id), list)
         /\ OfListed(RowIntents(list, id), list)
<1>1. OfListed(Runnable(list, id), list)
  BY ActionsAreHandlers DEF OfListed, Runnable, Do
<1>2. OfListed(ActionButton(list, id), list)
  BY ActionsAreHandlers DEF OfListed, ActionButton, Do
<1>3. OfListed(ControlIntents(list, id), list)
  BY <1>1, <1>2 DEF OfListed, ControlIntents, ActionMenu
<1>4. OfListed({Do("select", id)}, list)
  BY DEF OfListed, Do, Handlers
<1> QED
  BY <1>1, <1>3, <1>4 DEF OfListed, RowIntents

LEMMA GroupIsListed ==
  ASSUME NEW list, NEW group \in SUBSET Listed(list)
  PROVE  OfListed(ProcessGroupIntents(list, group), list)
<1>1. Nested(group) \subseteq group
  BY NestedIsGroup DEF Listed
<1>2. ASSUME NEW id \in group PROVE OfListed(ProcessNodeIntents(list, group, id), list)
  <2>1. OfListed(RowIntents(list, id), list)
    BY RowIsListed
  <2>2. \A w \in Workers(group, id) : OfListed(RowIntents(list, w), list)
    BY RowIsListed DEF Workers
  <2> QED
    BY <2>1, <2>2 DEF OfListed, ProcessNodeIntents
<1> QED
  BY <1>1, <1>2 DEF OfListed, ProcessGroupIntents

\* Every intent is about what the state holds: a process the list has ever had, one it
\* still has where it is to be removed, or the one whose removal waits for an answer.
LEMMA OfferedIs ==
  ASSUME nav \in NavState, NEW intent \in Offered
  PROVE  IntentOK(intent)
<1>1. \A s : OfListed(s, rows) => \A i \in s : IntentOK(i)
  BY DEF OfListed, IntentOK, Handlers, Listed
<1>2. \A p \in NavProject : \A i \in ProjectIntents(p) : IntentOK(i)
  BY DEF ProjectIntents, Do, IntentOK
<1>3. \A id \in NavId : IntentOK(Do("select", id)) /\ IntentOK(Do("restart", id))
                        /\ IntentOK(Do("stop", id))
  BY DEF Do, IntentOK
<1>4. \A list, p, kind : KindGroup(list, p, kind) \subseteq Listed(list)
  BY DEF KindGroup, Own
<1>6. \A i \in SidebarIntents(rows, nav) : IntentOK(i)
  <2>1. ASSUME NEW p \in NavProject PROVE \A i \in ProjectGroupIntents(rows, p) : IntentOK(i)
    <3>1. \A kind \in ProcessKind : OfListed(ProcessGroupIntents(rows, KindGroup(rows, p, kind)), rows)
      BY <1>4, GroupIsListed
    <3>2. \A i \in RemoveProjectIntents(p) : IntentOK(i)
      BY DEF RemoveProjectIntents, Do, IntentOK
    <3>3. \A kind \in ProcessKind :
            \A i \in ProcessGroupIntents(rows, KindGroup(rows, p, kind)) : IntentOK(i)
      BY <1>1, <3>1
    <3> QED
      BY <1>2, <3>2, <3>3 DEF ProjectGroupIntents
  <2>2. \A i \in HotkeyIntents(rows, nav) : IntentOK(i)
    <3>1. nav.shown \in NavId \cup {None}
      BY DEF NavState
    <3>2. HotkeyTargets(rows, SelectedTree(rows, nav)) \subseteq NavId
      BY DEF HotkeyTargets, Listed
    <3> QED
      BY <1>3, <3>1, <3>2 DEF HotkeyIntents
  <2>3. IntentOK(Do("openStart", None))
    BY DEF Do, IntentOK
  <2>4. ASSUME NEW i \in UNION {ProjectGroupIntents(rows, p) : p \in NavProject} PROVE IntentOK(i)
    <3>1. PICK p \in NavProject : i \in ProjectGroupIntents(rows, p)
      OBVIOUS
    <3> QED
      BY <2>1, <3>1
  <2>5. PICK groups : groups = UNION {ProjectGroupIntents(rows, p) : p \in NavProject}
    OBVIOUS
  <2>6. SidebarIntents(rows, nav) = groups \cup HotkeyIntents(rows, nav) \cup {Do("openStart", None)}
    BY <2>5 DEF SidebarIntents
  <2>7. ASSUME NEW i \in groups PROVE IntentOK(i)
    BY <2>4, <2>5
  <2> QED
    BY <2>2, <2>3, <2>6, <2>7
<1>7. \A i \in PaneIntents(rows, nav) : IntentOK(i)
  <2>1. nav.shown \in Listed(rows) => OfListed(ControlIntents(rows, nav.shown), rows)
    BY RowIsListed
  <2>2. \A i \in PaneHotkeys(rows, nav.shown) : IntentOK(i)
    BY <1>3 DEF PaneHotkeys, Listed
  <2> QED
    BY <1>1, <2>1, <2>2 DEF PaneIntents
<1>8. \A i \in StartIntents(nav) : IntentOK(i)
  BY DEF StartIntents, StartCards, Do, IntentOK
<1>9. \A i \in QuickActionIntents(rows, nav) : IntentOK(i)
  <2>1. \A p : \A id \in Own(rows, p) : OfListed(Runnable(rows, id), rows)
    BY RowIsListed DEF Own
  <2> QED
    BY <1>1, <2>1 DEF QuickActionIntents
<1>10. \A i \in QuickJumpIntents(rows) : IntentOK(i)
  BY <1>3 DEF QuickJumpIntents, Listed, Do, IntentOK
<1>11. \A i \in CommandIntents(rows) : IntentOK(i)
  <2>1. \A id \in Listed(rows) : OfListed(Runnable(rows, id), rows) /\ id \in NavId
    BY RowIsListed DEF Listed
  <2>2. \A id \in Listed(rows) : \A i \in {Do("select", id)} \cup Runnable(rows, id) : IntentOK(i)
    BY <1>1, <1>3, <2>1
  <2>3. ASSUME NEW i \in UNION {{Do("select", id)} \cup Runnable(rows, id) : id \in Listed(rows)}
        PROVE  IntentOK(i)
    <3>1. PICK id \in Listed(rows) : i \in {Do("select", id)} \cup Runnable(rows, id)
      OBVIOUS
    <3> QED
      BY <2>2, <3>1
  <2>4. ASSUME NEW i \in UNION {ProjectIntents(p) : p \in NavProject} PROVE IntentOK(i)
    <3>1. PICK p \in NavProject : i \in ProjectIntents(p)
      OBVIOUS
    <3> QED
      BY <1>2, <3>1
  <2>5. PICK a, b :
          /\ a = UNION {ProjectIntents(p) : p \in NavProject}
          /\ b = UNION {{Do("select", id)} \cup Runnable(rows, id) : id \in Listed(rows)}
    OBVIOUS
  <2>6. ASSUME NEW i \in a \cup b PROVE IntentOK(i)
    BY <2>3, <2>4, <2>5
  <2>7. CommandIntents(rows) = a \cup b
    BY <2>5 DEF CommandIntents
  <2> QED
    BY <2>6, <2>7
<1>12. \A i \in LaunchIntents : IntentOK(i)
  BY DEF LaunchIntents, LaunchStep, FlagsStep, ProjectStep, Do, IntentOK
<1>13. \A i \in AttentionIntents(rows) : IntentOK(i)
  BY <1>3 DEF AttentionIntents, Listed
<1>14. \A i \in GlobalHotkeyIntents(nav) : IntentOK(i)
  <2>1. nav.selected \in NavId \cup {None}
    BY DEF NavState
  <2> QED
    BY <1>3, <2>1 DEF GlobalHotkeyIntents
<1>15. \A i \in DialogIntents(rows, nav) : IntentOK(i)
  <2>1. nav.pending \in NavId \cup {None}
    BY DEF NavState
  <2> QED
    BY <2>1 DEF DialogIntents, Do, IntentOK
<1> QED
  BY <1>6, <1>7, <1>8, <1>9, <1>10, <1>11, <1>12, <1>13, <1>14, <1>15 DEF Offered

LeftAfter(intent) == (Left \ Reopened(intent)) \cup Departed(intent)

\* What a click makes of the state falls back on nothing that was left before or is
\* left by it.
LEMMA PerformedStands ==
  ASSUME NavTypes, LeftBehind, NEW intent \in Offered
  PROVE  Stands(Performed(nav, rows, intent), LeftAfter(intent)) /\ LeftAfter(intent) \subseteq NavId
<1>1. IntentOK(intent) /\ nav \in NavState /\ Left \subseteq NavId
  BY OfferedIs DEF NavTypes, Left
<1>2. Stands(nav, Left)
  BY DEF NavTypes, LeftBehind, Stands
<1>3. None \notin Left /\ None \notin NavId
  BY <1>1, NavigationAssumption
<1>4. Range(nav.visited) \cap Left = {}
  BY DEF LeftBehind
<1>5. CASE intent.do \in {"select", "start", "restart", "resume"}
  <2>1. intent.to \in NavId
    BY <1>1, <1>5 DEF IntentOK
  <2>2. Stands(SelectProcess(nav, intent.to), Left \ {intent.to})
    BY <1>1, <1>4, <2>1, SelectStands
  <2>3. Performed(nav, rows, intent) = SelectProcess(nav, intent.to)
    BY <1>5 DEF Performed
  <2>4. LeftAfter(intent) = Left \ {intent.to}
    BY <1>5 DEF LeftAfter, Departed, Reopened
  <2> QED
    BY <1>1, <2>2, <2>3, <2>4
<1>6. CASE intent.do = "stop"
  <2>1. {intent.to} \in SUBSET NavId
    BY <1>1, <1>6 DEF IntentOK
  <2>2. Stands(AfterLifecycle(nav, {intent.to}, rows), Left \cup {intent.to})
    BY <1>2, <1>3, <2>1, LifecycleStands
  <2>3. Performed(nav, rows, intent) = AfterLifecycle(nav, {intent.to}, rows)
    BY <1>6 DEF Performed
  <2>4. LeftAfter(intent) = Left \cup {intent.to}
    BY <1>6 DEF LeftAfter, Departed, Reopened
  <2> QED
    BY <1>1, <2>1, <2>2, <2>3, <2>4
<1>7. CASE intent.do = "stopProject"
  <2>1. StopTargets(rows, intent.to) \in SUBSET NavId
    BY DEF StopTargets, Own, Listed
  <2>2. Stands(AfterLifecycle(nav, StopTargets(rows, intent.to), rows),
               Left \cup StopTargets(rows, intent.to))
    BY <1>2, <1>3, <2>1, LifecycleStands
  <2>3. Performed(nav, rows, intent) = AfterLifecycle(nav, StopTargets(rows, intent.to), rows)
    BY <1>7 DEF Performed
  <2>4. LeftAfter(intent) = Left \cup StopTargets(rows, intent.to)
    BY <1>7 DEF LeftAfter, Departed, Reopened
  <2> QED
    BY <1>1, <2>1, <2>2, <2>3, <2>4
<1>8. CASE intent.do = "remove"
  <2>1. intent.to \in NavId /\ rows[intent.to] # None
    BY <1>1, <1>8 DEF IntentOK, Listed
  <2>2. Performed(nav, rows, intent) = RequestRemoval(nav, intent.to, rows)
    BY <1>8 DEF Performed
  <2>3. LeftAfter(intent) = IF isActive(rows[intent.to].status) THEN Left
                              ELSE Left \cup {intent.to}
    BY <1>8 DEF LeftAfter, Departed, Reopened
  <2>4. CASE isActive(rows[intent.to].status)
    <3>1. PICK m : m = [nav EXCEPT !.pending = intent.to]
      OBVIOUS
    <3>2. /\ m \in NavState /\ m.visited = nav.visited /\ m.selected = nav.selected
          /\ m.landing = nav.landing /\ m.shown = nav.shown
      BY <1>1, <2>1, <3>1 DEF NavState
    <3>3. Performed(nav, rows, intent) = m /\ LeftAfter(intent) = Left
      BY <2>1, <2>2, <2>3, <2>4, <3>1 DEF RequestRemoval
    <3> QED
      BY <1>1, <1>2, <3>2, <3>3 DEF Stands
  <2>5. CASE ~isActive(rows[intent.to].status)
    <3>1. Stands(AfterLifecycle(nav, {intent.to}, rows), Left \cup {intent.to})
      BY <1>2, <1>3, <2>1, LifecycleStands
    <3>2. Performed(nav, rows, intent) = AfterLifecycle(nav, {intent.to}, rows)
      BY <2>2, <2>5 DEF RequestRemoval
    <3> QED
      BY <1>1, <2>1, <2>3, <2>5, <3>1, <3>2
  <2> QED
    BY <2>4, <2>5
<1>9. CASE intent.do = "confirmRemoval"
  <2>1. intent.to = nav.pending /\ nav.pending \in NavId
    BY <1>1, <1>9 DEF IntentOK
  <2>2. PICK m : m = [nav EXCEPT !.pending = None]
    OBVIOUS
  <2>3. Stands(m, Left)
    <3>1. /\ m \in NavState /\ m.visited = nav.visited /\ m.selected = nav.selected
          /\ m.landing = nav.landing /\ m.shown = nav.shown
      BY <1>1, <2>2 DEF NavState
    <3> QED
      BY <1>2, <3>1 DEF Stands
  <2>4. Stands(AfterLifecycle(m, {nav.pending}, rows), Left \cup {nav.pending})
    BY <1>3, <2>1, <2>3, LifecycleStands
  <2>5. Performed(nav, rows, intent) = AfterLifecycle(m, {nav.pending}, rows)
    BY <1>9, <2>2 DEF Performed, ConfirmRemoval
  <2>6. LeftAfter(intent) = Left \cup {nav.pending}
    BY <1>9, <2>1 DEF LeftAfter, Departed, Reopened
  <2> QED
    BY <1>1, <2>1, <2>4, <2>5, <2>6
<1>10. CASE intent.do \in {"openStart", "openProjectSettings", "openOrchestration"}
  <2>1. LeftAfter(intent) = Left
    BY <1>10 DEF LeftAfter, Departed, Reopened
  <2>2. intent.do # "openStart" => intent.to \in NavProject
    BY <1>1, <1>10 DEF IntentOK
  <2>3. \A s, o \in NavProject \cup {None} : Stands(Showing(nav, None, s, o), Left)
    BY <1>1, <1>3, <1>4, ShowingStands
  <2>4. \E s, o \in NavProject \cup {None} : Performed(nav, rows, intent) = Showing(nav, None, s, o)
    BY <1>10, <2>2 DEF Performed, OpenStart, OpenProjectSettings, OpenOrchestration
  <2> QED
    BY <1>1, <2>1, <2>3, <2>4
<1>11. CASE intent.do = "dismissRemoval"
  <2>1. PICK m : m = [nav EXCEPT !.pending = None]
    OBVIOUS
  <2>2. /\ m \in NavState /\ m.visited = nav.visited /\ m.selected = nav.selected
        /\ m.landing = nav.landing /\ m.shown = nav.shown
    BY <1>1, <2>1 DEF NavState
  <2>3. Performed(nav, rows, intent) = m /\ LeftAfter(intent) = Left
    BY <1>11, <2>1 DEF Performed, LeftAfter, Departed, Reopened
  <2> QED
    BY <1>1, <1>2, <2>2, <2>3 DEF Stands
<1>12. CASE intent.do \notin {"select", "start", "restart", "resume", "stop", "stopProject", "remove",
                              "confirmRemoval", "openStart", "openProjectSettings",
                              "openOrchestration", "dismissRemoval"}
  <2>1. Performed(nav, rows, intent) = nav /\ LeftAfter(intent) = Left
    BY <1>12 DEF Performed, LeftAfter, Departed, Reopened
  <2> QED
    BY <1>1, <1>2, <2>1
<1> QED
  BY <1>5, <1>6, <1>7, <1>8, <1>9, <1>10, <1>11, <1>12

-------------------------------------------------------------------------------
(* The pool.                                                                 *)

\* The cap cuts the end off.
LEMMA CappedKeeps ==
  ASSUME NEW s \in Seq(NavId)
  PROVE  /\ Capped(s, PoolCap) \in Seq(NavId) /\ Len(Capped(s, PoolCap)) <= PoolCap
         /\ Len(s) <= PoolCap => Capped(s, PoolCap) = s
         /\ Range(Capped(s, PoolCap)) \subseteq Range(s)
         /\ \A x, y : Before(Capped(s, PoolCap), x, y) => Before(s, x, y)
         /\ Distinct(s) => \A x, y : Before(s, x, y) /\ y \in Range(Capped(s, PoolCap))
                                       => x \in Range(Capped(s, PoolCap))
         /\ Len(s) > 0 => s[1] \in Range(Capped(s, PoolCap))
<1>1. PoolCap \in Nat /\ PoolCap > 0 /\ Len(s) \in Nat
  BY NavigationAssumption
<1>2. CASE Len(s) > PoolCap
  <2>1. Capped(s, PoolCap) = SubSeq(s, 1, PoolCap) /\ PoolCap <= Len(s)
    BY <1>1, <1>2 DEF Capped
  <2> QED
    BY <1>1, <1>2, <2>1, Beginning
<1>3. CASE ~(Len(s) > PoolCap)
  <2>1. Capped(s, PoolCap) = s /\ Len(s) <= PoolCap
    BY <1>1, <1>3 DEF Capped
  <2>2. \A x, y : Before(s, x, y) => x \in Range(s)
    BY DEF Before, Range
  <2>3. Len(s) > 0 => s[1] \in Range(s)
    <3>1. Len(s) > 0 => 1 \in DOMAIN s
      BY <1>1
    <3> QED
      BY <3>1 DEF Range
  <2> QED
    BY <2>1, <2>2, <2>3
<1> QED
  BY <1>2, <1>3

\* The pool before the cap: the listed ones of the old one, the shown one first.
Uncapped(full, p, id, ids) ==
  /\ NextPool(p, id, ids) = Capped(full, PoolCap)
  /\ Distinct(full)
  /\ Range(full) = (Range(p) \cup {id}) \cap ids
  /\ \A x, y \in NavId : Before(full, x, y) <=>
       \/ x = id /\ id \in ids /\ y \in (Range(p) \cap ids) \ {id}
       \/ Before(p, x, y) /\ {x, y} \subseteq ids \ {id}

LEMMA UncappedIs ==
  ASSUME NEW p \in Seq(NavId), Distinct(p), NEW id \in NavId \cup {None}, NEW ids \in SUBSET NavId
  PROVE  \E full \in Seq(NavId) : Uncapped(full, p, id, ids)
<1>1. PICK kept : kept = Keeping(p, ids)
  OBVIOUS
<1>2. \A x, y : Before(p, x, y) => x \in Range(p) /\ y \in Range(p)
  BY DEF Before, Range
<1>3. /\ kept \in Seq(NavId) /\ Range(kept) = Range(p) \cap ids
      /\ \A x, y : Before(kept, x, y) => Before(p, x, y)
      /\ \A x, y : Before(p, x, y) /\ x \in ids /\ y \in ids => Before(kept, x, y)
  BY <1>1, KeepingKeeps
<1>4. \A x, y : Before(kept, x, y) => x \in Range(kept) /\ y \in Range(kept)
  BY DEF Before, Range
<1>5. CASE id \in ids
  <2>1. PICK others : others = Keeping(kept, ids \ {id})
    OBVIOUS
  <2>2. /\ others \in Seq(NavId) /\ Range(others) = Range(kept) \cap (ids \ {id})
        /\ \A x, y : Before(others, x, y) => Before(kept, x, y)
        /\ \A x, y : Before(kept, x, y) /\ x \in ids \ {id} /\ y \in ids \ {id} => Before(others, x, y)
    BY <1>3, <2>1, KeepingKeeps
  <2>3. \A x, y : Before(others, x, y) => x \in Range(others) /\ y \in Range(others)
    BY DEF Before, Range
  <2>4. PICK full : full = <<id>> \o others
    OBVIOUS
  <2>5. /\ full \in Seq(NavId)
        /\ \A x : x \in Range(full) <=> x \in Range(others) \/ x = id
        /\ \A x, y : Before(full, x, y) <=> Before(others, x, y) \/ (x = id /\ y \in Range(others))
    BY <1>5, <2>2, <2>4, Pushed
  <2>6. NextPool(p, id, ids) = Capped(full, PoolCap)
    BY <1>1, <1>5, <2>1, <2>4 DEF NextPool
  <2>7. Range(full) = (Range(p) \cup {id}) \cap ids
    BY <1>3, <1>5, <2>2, <2>5
  <2>8. \A x, y : Before(others, x, y) <=> Before(p, x, y) /\ {x, y} \subseteq ids \ {id}
    <3>1. \A x, y : Before(others, x, y) => Before(p, x, y) /\ {x, y} \subseteq ids \ {id}
      BY <1>3, <2>2, <2>3
    <3>2. \A x, y : Before(p, x, y) /\ {x, y} \subseteq ids \ {id} => Before(others, x, y)
      BY <1>3, <2>2
    <3> QED
      BY <3>1, <3>2
  <2>9. Range(others) = (Range(p) \cap ids) \ {id}
    BY <1>3, <2>2
  <2>10. \A x, y \in NavId : Before(full, x, y) <=>
           \/ x = id /\ id \in ids /\ y \in (Range(p) \cap ids) \ {id}
           \/ Before(p, x, y) /\ {x, y} \subseteq ids \ {id}
    BY <1>5, <2>5, <2>8, <2>9
  <2>11. Distinct(full)
    <3> SUFFICES ASSUME NEW x \in Range(full), Before(full, x, x) PROVE FALSE
      BY DEF Distinct
    <3>1. x \in NavId
      BY <1>5, <2>7
    <3>2. Before(p, x, x)
      BY <2>10, <3>1
    <3> QED
      BY <1>2, <3>2 DEF Distinct
  <2> QED
    BY <2>5, <2>6, <2>7, <2>10, <2>11 DEF Uncapped
<1>6. CASE id \notin ids
  <2>1. NextPool(p, id, ids) = Capped(kept, PoolCap)
    BY <1>1, <1>6 DEF NextPool
  <2>2. Range(kept) = (Range(p) \cup {id}) \cap ids
    BY <1>3, <1>6
  <2>3. \A x, y \in NavId : Before(kept, x, y) <=>
           \/ x = id /\ id \in ids /\ y \in (Range(p) \cap ids) \ {id}
           \/ Before(p, x, y) /\ {x, y} \subseteq ids \ {id}
    <3>1. \A x, y : Before(kept, x, y) => Before(p, x, y) /\ {x, y} \subseteq ids \ {id}
      BY <1>3, <1>4, <1>6
    <3>2. \A x, y : Before(p, x, y) /\ {x, y} \subseteq ids \ {id} => Before(kept, x, y)
      BY <1>3
    <3> QED
      BY <1>6, <3>1, <3>2
  <2>4. Distinct(kept)
    BY <1>2, <1>3 DEF Distinct
  <2> QED
    BY <1>3, <2>1, <2>2, <2>3, <2>4 DEF Uncapped
<1> QED
  BY <1>5, <1>6

\* What the effect leaves in the pool was viewed and is listed, in the order it was
\* viewed, and lacks nothing listed that was viewed more recently.
LEMMA PoolNowInOrder ==
  ASSUME NavTypes, ShownIsNewest, PoolInOrder
  PROVE  /\ PoolNow \in Seq(NavId) /\ Distinct(PoolNow) /\ Len(PoolNow) <= PoolCap
         /\ Range(PoolNow) \subseteq Range(viewed) \cap Listed(rows)
         /\ \A x, y \in NavId : Before(PoolNow, x, y) => Before(viewed, x, y)
         /\ \A x, y \in NavId : Before(viewed, x, y) /\ y \in Range(PoolNow) /\ rows[x] # None
                                  => x \in Range(PoolNow)
<1>1. PICK ids : ids = Listed(rows)
  OBVIOUS
<1>2. PICK s : s = nav.shown
  OBVIOUS
<1>3. /\ ids \in SUBSET NavId /\ s \in NavId \cup {None} /\ None \notin NavId
      /\ pool \in Seq(NavId) /\ viewed \in Seq(NavId) /\ Distinct(pool) /\ Distinct(viewed)
      /\ \A x \in NavId : x \in ids <=> rows[x] # None
  BY <1>1, <1>2, NavigationAssumption DEF NavTypes, NavState, PoolInOrder, Listed
<1>4. s \in ids => /\ s \in Range(viewed)
                   /\ \A x \in Range(viewed) \ {s} : Before(viewed, s, x)
  BY <1>2, <1>3 DEF ShownIsNewest, ShownRow
<1>0. PICK full \in Seq(NavId) : Uncapped(full, pool, s, ids)
  BY <1>3, UncappedIs
<1>5. /\ NextPool(pool, s, ids) = Capped(full, PoolCap)
      /\ Distinct(full)
      /\ Range(full) = (Range(pool) \cup {s}) \cap ids
      /\ \A x, y \in NavId : Before(full, x, y) <=>
           \/ x = s /\ s \in ids /\ y \in (Range(pool) \cap ids) \ {s}
           \/ Before(pool, x, y) /\ {x, y} \subseteq ids \ {s}
  BY <1>0 DEF Uncapped
<1>6. PICK now : now = PoolNow
  OBVIOUS
<1>7. now = Capped(full, PoolCap)
  BY <1>1, <1>2, <1>5, <1>6 DEF PoolNow
<1>8. /\ now \in Seq(NavId) /\ Len(now) <= PoolCap /\ Range(now) \subseteq Range(full)
      /\ \A x, y : Before(now, x, y) => Before(full, x, y)
      /\ \A x, y : Before(full, x, y) /\ y \in Range(now) => x \in Range(now)
  <2>1. PICK cut : cut = Capped(full, PoolCap)
    OBVIOUS
  <2>2. /\ cut \in Seq(NavId) /\ Len(cut) <= PoolCap /\ Range(cut) \subseteq Range(full)
        /\ \A x, y : Before(cut, x, y) => Before(full, x, y)
        /\ Distinct(full) => \A x, y : Before(full, x, y) /\ y \in Range(cut) => x \in Range(cut)
    BY <2>1, CappedKeeps
  <2>3. now = cut /\ Distinct(full)
    BY <1>5, <1>7, <2>1
  <2> QED
    BY <2>2, <2>3
<1>9. Range(pool) \subseteq Range(viewed) /\ Range(viewed) \subseteq NavId
  <2>1. Range(pool) \subseteq Range(viewed)
    BY DEF PoolInOrder
  <2>2. Range(viewed) \subseteq NavId
    BY <1>3 DEF Range
  <2> QED
    BY <2>1, <2>2
<1>10. Range(full) \subseteq Range(viewed) \cap ids
  BY <1>4, <1>5, <1>9
<1>11. \A x, y \in NavId : Before(pool, x, y) => Before(viewed, x, y) \/ y = s
  BY <1>2 DEF PoolInOrder
<1>12. ASSUME NEW x \in NavId, NEW y \in NavId, Before(full, x, y) PROVE Before(viewed, x, y)
  <2>1. CASE x = s /\ s \in ids /\ y \in (Range(pool) \cap ids) \ {s}
    BY <1>4, <1>9, <2>1
  <2>2. CASE Before(pool, x, y) /\ {x, y} \subseteq ids \ {s}
    BY <1>11, <2>2
  <2> QED
    BY <1>5, <1>12, <2>1, <2>2
<1>13. Distinct(now)
  BY <1>5, <1>8 DEF Distinct
<1>14. ASSUME NEW x \in NavId, NEW y \in NavId,
              Before(viewed, x, y), y \in Range(now), rows[x] # None
       PROVE  x \in Range(now)
  <2>1. ~Before(viewed, y, x) /\ x # y /\ x \in Range(viewed) /\ y \in Range(viewed)
    BY <1>3, <1>14, BeforeIsStrict
  <2>2. x \in ids /\ y \in ids /\ y \in Range(pool) \cup {s}
    BY <1>3, <1>5, <1>8, <1>14
  <2>3. y # s
    BY <1>4, <2>1, <2>2
  <2>4. Before(full, x, y)
    <3>1. CASE x = s
      BY <1>5, <2>2, <2>3, <3>1
    <3>2. CASE x # s
      <4>1. \A u, v \in NavId :
              Before(viewed, u, v) /\ v \in Range(pool) /\ rows[u] # None /\ rows[v] # None
                => u \in Range(pool) \/ u = s
        BY <1>2 DEF PoolInOrder
      <4>2. y \in Range(pool) /\ rows[y] # None
        BY <1>3, <2>2, <2>3
      <4>3. x \in Range(pool)
        BY <1>14, <3>2, <4>1, <4>2
      <4>4. Before(pool, x, y) \/ Before(pool, y, x)
        BY <1>3, <2>1, <4>2, <4>3, BeforeIsTotal
      <4>5. Before(pool, x, y)
        BY <1>11, <2>1, <3>2, <4>4
      <4> QED
        BY <1>5, <2>2, <2>3, <3>2, <4>5
    <3> QED
      BY <3>1, <3>2
  <2> QED
    BY <1>8, <1>14, <2>4
<1>15. Range(now) \subseteq Range(viewed) \cap Listed(rows)
  BY <1>1, <1>8, <1>10
<1> QED
  BY <1>6, <1>8, <1>12, <1>13, <1>14, <1>15

\* A commit that shows what is listed views it; no viewed process comes back to the list.
LEMMA CommitKeepsOrder ==
  ASSUME NavTypes, ShownIsNewest, PoolInOrder,
         NEW n \in NavState, Commit(n, rows'), DOMAIN rows' = NavId,
         \A id \in Range(viewed) : rows[id] = None => rows'[id] = None
  PROVE  /\ ShownIsNewest' /\ PoolInOrder'
         /\ pool' \in Seq(NavId) /\ viewed' \in Seq(NavId)
         /\ \A id \in Range(viewed') : id \in Range(viewed) \/ rows'[id] # None
<1>1. /\ nav' = n /\ pool' = PoolNow
      /\ viewed' = IF n.shown # None /\ rows'[n.shown] # None
                   THEN ActivateProcess(viewed, n.shown) ELSE viewed
  BY DEF Commit
<1>2. PICK s : s = n.shown
  OBVIOUS
<1>3. /\ s \in NavId \cup {None} /\ viewed \in Seq(NavId) /\ Distinct(viewed)
      /\ Range(viewed) \subseteq NavId
  BY <1>2 DEF NavTypes, NavState, PoolInOrder, Range
<1>4. /\ pool' \in Seq(NavId) /\ Distinct(pool') /\ Len(pool') <= PoolCap
      /\ Range(pool') \subseteq Range(viewed) \cap Listed(rows)
      /\ \A x, y \in NavId : Before(pool', x, y) => Before(viewed, x, y)
      /\ \A x, y \in NavId : Before(viewed, x, y) /\ y \in Range(pool') /\ rows[x] # None
                               => x \in Range(pool')
  BY <1>1, PoolNowInOrder
<1>5. \A x, y \in NavId : Before(viewed, x, y) => x \in Range(viewed) /\ y \in Range(viewed) /\ x # y
  BY <1>3, BeforeIsStrict
<1>6. CASE s # None /\ rows'[s] # None
  <2>1. s \in NavId /\ viewed' = ActivateProcess(viewed, s)
    BY <1>1, <1>2, <1>3, <1>6
  <2>2. /\ viewed' \in Seq(NavId) /\ Range(viewed') = Range(viewed) \cup {s}
        /\ \A x, y \in NavId : Before(viewed', x, y) <=>
             \/ x = s /\ y \in Range(viewed) \ {s}
             \/ Before(viewed, x, y) /\ s \notin {x, y}
        /\ Distinct(viewed')
    <3>1. PICK now : now = ActivateProcess(viewed, s)
      OBVIOUS
    <3>2. /\ now \in Seq(NavId) /\ Range(now) = Range(viewed) \cup {s}
          /\ \A x, y \in NavId : Before(now, x, y) <=>
               \/ x = s /\ y \in Range(viewed) \ {s}
               \/ Before(viewed, x, y) /\ s \notin {x, y}
          /\ Distinct(now)
      <4>0. viewed \in Seq(NavId) /\ s \in NavId /\ Distinct(viewed)
        BY <1>3, <2>1
      <4>1. now \in Seq(NavId) /\ Range(now) = Range(viewed) \cup {s}
        BY <3>1, <4>0, Activated
      <4>2. ShownFirst(now, viewed, s)
        BY <3>1, <4>0, Activated
      <4>3. Distinct(now)
        BY <3>1, <4>0, Activated
      <4> QED
        BY <4>1, <4>2, <4>3 DEF ShownFirst
    <3>3. viewed' = now
      BY <2>1, <3>1
    <3> QED
      BY <3>2, <3>3
  <2>3. ShownIsNewest'
    <3>1. \A id \in Range(viewed') \ {s} : id \in Range(viewed) \ {s} /\ id \in NavId
      BY <1>3, <2>2
    <3>2. \A id \in Range(viewed') \ {s} : Before(viewed', s, id)
      BY <2>1, <2>2, <3>1
    <3> QED
      BY <1>1, <1>2, <2>2, <3>2 DEF ShownIsNewest
  <2>4. \A x, y \in NavId : Before(pool', x, y) => Before(viewed', x, y) \/ y = s
    BY <1>4, <1>5, <2>2
  <2>5. ASSUME NEW x \in NavId, NEW y \in NavId,
               Before(viewed', x, y), y \in Range(pool'), rows'[x] # None, rows'[y] # None
        PROVE  x \in Range(pool') \/ x = s
    <3>1. x # s => Before(viewed, x, y) /\ x \in Range(viewed)
      BY <1>5, <2>2, <2>5
    <3>2. x # s => rows[x] # None
      BY <2>5, <3>1
    <3> QED
      BY <1>4, <2>5, <3>1, <3>2
  <2>6. Range(pool') \subseteq Range(viewed')
    BY <1>4, <2>2
  <2>7. PoolInOrder'
    BY <1>1, <1>2, <1>4, <2>2, <2>4, <2>5, <2>6 DEF PoolInOrder
  <2> QED
    BY <1>4, <1>6, <2>2, <2>3, <2>7
<1>7. CASE ~(s # None /\ rows'[s] # None)
  <2>1. viewed' = viewed
    BY <1>1, <1>2, <1>7
  <2>2. ShownIsNewest'
    BY <1>1, <1>2, <1>7 DEF ShownIsNewest, ShownRow
  <2>3. ASSUME NEW x \in NavId, NEW y \in NavId,
               Before(viewed', x, y), y \in Range(pool'), rows'[x] # None, rows'[y] # None
        PROVE  x \in Range(pool')
    <3>1. Before(viewed, x, y) /\ x \in Range(viewed)
      BY <1>5, <2>1, <2>3
    <3>2. rows[x] # None
      BY <2>3, <3>1
    <3> QED
      BY <1>4, <2>3, <3>1, <3>2
  <2>4. PoolInOrder'
    BY <1>3, <1>4, <2>1, <2>3 DEF PoolInOrder
  <2> QED
    BY <1>3, <1>4, <2>1, <2>2, <2>4
<1> QED
  BY <1>6, <1>7

-------------------------------------------------------------------------------
(* The inductive invariant.                                                  *)

LEMMA NavInvInit ==
  NavigationInit => NavInv
<1> SUFFICES ASSUME NavigationInit PROVE NavInv
  OBVIOUS
<1>1. /\ rows = [id \in NavId |-> None] /\ folded = rows
      /\ nav = [selected |-> None, shown |-> None, visited |-> <<>>, settings |-> None,
                orchestration |-> None, pending |-> None, landing |-> FALSE]
      /\ pool = <<>> /\ answers = {} /\ gone = {} /\ viewed = <<>> /\ parted = {} /\ late = {}
  BY DEF NavigationInit
<1>2. Range(<<>>) = {} /\ \A x, y : ~Before(<<>>, x, y)
  BY DEF Range, Before
<1>3. NavTypes
  BY <1>1 DEF NavTypes, NavState
<1>4. LeftBehind
  BY <1>1, <1>2 DEF LeftBehind, Left
<1>5. GoneForGood
  BY <1>1, <1>2 DEF GoneForGood
<1>6. ShownIsNewest
  BY <1>1 DEF ShownIsNewest, ShownRow
<1>7. PoolInOrder
  BY <1>1, <1>2, NavigationAssumption DEF PoolInOrder, Distinct
<1> QED
  BY <1>3, <1>4, <1>5, <1>6, <1>7 DEF NavInv

LEMMA ActKeeps ==
  ASSUME NavInv, Act PROVE NavInv'
<1>0. NavTypes /\ LeftBehind /\ GoneForGood /\ ShownIsNewest /\ PoolInOrder
  BY DEF NavInv
<1>1. PICK intent \in Offered :
        /\ Commit(Performed(nav, rows, intent), rows)
        /\ parted' = (parted \ Reopened(intent)) \cup Departed(intent)
        /\ late' = late \ (Reopened(intent) \cup Departed(intent))
  BY DEF Act
<1>2. rows' = rows /\ folded' = folded /\ answers' = answers /\ gone' = gone
  BY DEF Act
<1>3. PICK n : n = Performed(nav, rows, intent)
  OBVIOUS
<1>4. Stands(n, Left') /\ parted' \subseteq NavId
  <2>1. Left' = LeftAfter(intent)
    BY <1>1 DEF Left, LeftAfter
  <2>2. parted' \subseteq parted \cup Left'
    BY <1>1 DEF Left
  <2> QED
    BY <1>0, <1>3, <2>1, <2>2, PerformedStands DEF NavTypes
<1>5. Commit(n, rows') /\ nav' = n /\ n \in NavState /\ DOMAIN rows' = NavId
  BY <1>0, <1>1, <1>2, <1>3, <1>4 DEF Commit, Stands, NavTypes
<1>6. /\ ShownIsNewest' /\ PoolInOrder'
      /\ pool' \in Seq(NavId) /\ viewed' \in Seq(NavId)
      /\ \A id \in Range(viewed') : id \in Range(viewed) \/ rows'[id] # None
  BY <1>0, <1>2, <1>5, CommitKeepsOrder
<1>7. NavTypes'
  BY <1>0, <1>2, <1>4, <1>5, <1>6 DEF NavTypes
<1>8. LeftBehind'
  BY <1>4, <1>5 DEF LeftBehind, Stands
<1>9. GoneForGood'
  BY <1>0, <1>2, <1>6 DEF GoneForGood
<1> QED
  BY <1>6, <1>7, <1>8, <1>9 DEF NavInv

\* What a commit of the list makes of the navigation state.
Landed == IF nav.landing THEN Showing(nav, nav.selected, None, None) ELSE nav
Rendered == IF Vanished = {} THEN Landed ELSE AfterLifecycle(Landed, Vanished, folded)

LEMMA RenderedStands ==
  ASSUME NavTypes, LeftBehind
  PROVE  /\ Stands(Landed, Left) /\ Landed.selected = nav.selected
         /\ Stands(Rendered, Left)
<1>1. nav \in NavState /\ Left \subseteq NavId /\ None \notin Left
  BY NavigationAssumption DEF NavTypes, Left
<1>2. Range(nav.visited) \cap Left = {} /\ nav.selected \notin Left
      /\ nav.selected \in NavId \cup {None}
  BY <1>1 DEF LeftBehind, NavState
<1>3. Stands(Landed, Left) /\ Landed.selected = nav.selected
  <2>1. CASE nav.landing
    <3>1. None \in NavProject \cup {None}
      OBVIOUS
    <3>2. /\ Stands(Showing(nav, nav.selected, None, None), Left)
          /\ Showing(nav, nav.selected, None, None).shown = nav.selected
      BY <1>1, <1>2, <3>1, ShowingStands
    <3>3. Showing(nav, nav.selected, None, None).selected = nav.selected
      BY <1>1 DEF Showing, NavState
    <3> QED
      BY <2>1, <3>2, <3>3 DEF Landed
  <2>2. CASE ~nav.landing
    <3>1. Landed = nav
      BY <2>2 DEF Landed
    <3> QED
      BY <1>1, <3>1 DEF Stands, LeftBehind
  <2> QED
    BY <2>1, <2>2
<1>4. Stands(Rendered, Left)
  <2>1. CASE Vanished = {}
    BY <1>3, <2>1 DEF Rendered
  <2>2. CASE Vanished # {}
    <3>1. Vanished \in SUBSET NavId
      BY DEF Vanished, Listed
    <3>2. Stands(AfterLifecycle(Landed, Vanished, folded), Left \cup Vanished)
      BY <1>1, <1>3, <3>1, LifecycleStands
    <3> QED
      BY <2>2, <3>2 DEF Rendered, Stands
  <2> QED
    BY <2>1, <2>2
<1> QED
  BY <1>3, <1>4

LEMMA RenderKeeps ==
  ASSUME NavInv, Render PROVE NavInv'
<1>0. NavTypes /\ LeftBehind /\ GoneForGood /\ ShownIsNewest /\ PoolInOrder
  BY DEF NavInv
<1>1. /\ rows' = folded /\ folded' = folded /\ answers' = answers /\ gone' = gone
      /\ parted' = parted /\ late' = late /\ Left' = Left
      /\ Commit(Rendered, folded)
  BY DEF Render, Rendered, Landed, Left
<1>2. PICK n : n = Rendered
  OBVIOUS
<1>3. Stands(n, Left)
  BY <1>0, <1>2, RenderedStands
<1>4. Commit(n, rows') /\ nav' = n /\ n \in NavState /\ DOMAIN rows' = NavId
  BY <1>0, <1>1, <1>2, <1>3 DEF Commit, Stands, NavTypes
<1>5. \A id \in Range(viewed) : rows[id] = None => rows'[id] = None
  BY <1>0, <1>1 DEF GoneForGood
<1>6. /\ ShownIsNewest' /\ PoolInOrder'
      /\ pool' \in Seq(NavId) /\ viewed' \in Seq(NavId)
      /\ \A id \in Range(viewed') : id \in Range(viewed) \/ rows'[id] # None
  BY <1>0, <1>4, <1>5, CommitKeepsOrder
<1>7. NavTypes'
  BY <1>0, <1>1, <1>4, <1>6 DEF NavTypes
<1>8. LeftBehind'
  BY <1>1, <1>3, <1>4 DEF LeftBehind, Stands
<1>9. GoneForGood'
  <2>1. Range(viewed) \subseteq NavId
    BY <1>0 DEF NavTypes, Range
  <2>2. \A id \in Range(viewed) : folded[id] = None => id \in gone
    BY <1>0, <2>1 DEF GoneForGood
  <2>3. \A id \in Range(viewed') : folded[id] = None => id \in gone
    BY <1>1, <1>6, <2>2
  <2> QED
    BY <1>0, <1>1, <2>3 DEF GoneForGood
<1> QED
  BY <1>6, <1>7, <1>8, <1>9 DEF NavInv

LEMMA LandedAnswerKeeps ==
  ASSUME NavInv, LaunchAnswered PROVE NavInv'
<1>0. NavTypes /\ LeftBehind /\ GoneForGood /\ ShownIsNewest /\ PoolInOrder
  BY DEF NavInv
<1>1. PICK id \in answers :
        /\ answers' = answers \ {id}
        /\ nav' = [nav EXCEPT !.visited = ActivateProcess(nav.visited, id), !.selected = id,
                              !.landing = TRUE]
        /\ late' = late \cup ({id} \cap parted)
        /\ UNCHANGED <<rows, folded, pool, gone, viewed, parted, navSpent>>
  BY DEF LaunchAnswered
<1>2. id \in NavId /\ nav \in NavState /\ nav.visited \in Seq(NavId)
  BY <1>0 DEF NavTypes, NavState
<1>3. /\ ActivateProcess(nav.visited, id) \in Seq(NavId)
      /\ Range(ActivateProcess(nav.visited, id)) = Range(nav.visited) \cup {id}
  BY <1>2, Activated
<1>4. /\ nav' \in NavState /\ nav'.visited = ActivateProcess(nav.visited, id)
      /\ nav'.selected = id /\ nav'.landing = TRUE /\ nav'.shown = nav.shown
  BY <1>1, <1>2, <1>3 DEF NavState
<1>5. NavTypes'
  BY <1>0, <1>1, <1>4 DEF NavTypes
<1>6. LeftBehind'
  <2>1. Left' = Left \ {id}
    BY <1>1 DEF Left
  <2> QED
    BY <1>0, <1>3, <1>4, <2>1 DEF LeftBehind
<1>7. GoneForGood'
  BY <1>0, <1>1 DEF GoneForGood
<1>8. ShownIsNewest'
  BY <1>0, <1>1, <1>4 DEF ShownIsNewest, ShownRow
<1>9. PoolInOrder'
  BY <1>0, <1>1, <1>4 DEF PoolInOrder
<1> QED
  BY <1>5, <1>6, <1>7, <1>8, <1>9 DEF NavInv

LEMMA LaunchKeeps ==
  ASSUME NavInv, Launch PROVE NavInv'
<1>0. NavTypes /\ LeftBehind /\ GoneForGood /\ ShownIsNewest /\ PoolInOrder
  BY DEF NavInv
<1>1. /\ answers' \subseteq NavId
      /\ UNCHANGED <<rows, folded, nav, pool, gone, viewed, parted, late>>
  BY <1>0 DEF Launch, NavTypes
<1>2. NavTypes'
  BY <1>0, <1>1 DEF NavTypes
<1>3. LeftBehind' /\ GoneForGood'
  BY <1>0, <1>1 DEF LeftBehind, Left, GoneForGood
<1>4. ShownIsNewest' /\ PoolInOrder'
  BY <1>0, <1>1 DEF ShownIsNewest, ShownRow, PoolInOrder
<1> QED
  BY <1>2, <1>3, <1>4 DEF NavInv

LEMMA ListChangeKeeps ==
  ASSUME NavInv, ListChange PROVE NavInv'
<1>0. NavTypes /\ LeftBehind /\ GoneForGood /\ ShownIsNewest /\ PoolInOrder
  BY DEF NavInv
<1>1. PICK id \in NavId \ gone, row \in Shape \cup {None} :
        /\ folded' = [folded EXCEPT ![id] = row]
        /\ gone' = IF row = None THEN gone \cup {id} ELSE gone
  BY DEF ListChange
<1>2. UNCHANGED <<rows, nav, pool, answers, viewed, parted, late>>
  BY DEF ListChange
<1>3. DOMAIN folded = NavId
  BY <1>0 DEF NavTypes
<1>4. NavTypes'
  BY <1>0, <1>1, <1>2 DEF NavTypes
<1>5. LeftBehind'
  BY <1>0, <1>2 DEF LeftBehind, Left
<1>6. GoneForGood'
  <2>1. \A o \in NavId : folded'[o] = IF o = id THEN row ELSE folded[o]
    BY <1>1, <1>3
  <2>2. gone \subseteq gone' /\ \A o \in gone' : o \in gone \/ (o = id /\ row = None)
    BY <1>1
  <2>3. \A o \in gone' : folded'[o] = None
    <3> SUFFICES ASSUME NEW o \in gone' PROVE folded'[o] = None
      OBVIOUS
    <3>1. CASE o = id /\ row = None
      BY <2>1, <3>1
    <3>2. CASE o \in gone
      <4>1. o # id /\ folded[o] = None
        BY <1>0, <1>1, <3>2 DEF GoneForGood
      <4> QED
        BY <1>1, <4>1
    <3> QED
      BY <2>2, <3>1, <3>2
  <2>4. \A o \in NavId : rows'[o] # None /\ folded'[o] = None => o \in gone'
    <3> SUFFICES ASSUME NEW o \in NavId, rows'[o] # None, folded'[o] = None PROVE o \in gone'
      OBVIOUS
    <3>1. CASE o = id
      BY <1>1, <2>1, <3>1
    <3>2. CASE o # id
      BY <1>0, <1>2, <2>1, <2>2, <3>2 DEF GoneForGood
    <3> QED
      BY <3>1, <3>2
  <2>5. \A o \in Range(viewed') : rows'[o] = None => o \in gone'
    BY <1>0, <1>2, <2>2 DEF GoneForGood
  <2> QED
    BY <2>3, <2>4, <2>5 DEF GoneForGood
<1>7. ShownIsNewest' /\ PoolInOrder'
  BY <1>0, <1>2 DEF ShownIsNewest, ShownRow, PoolInOrder
<1> QED
  BY <1>4, <1>5, <1>6, <1>7 DEF NavInv

LEMMA PoolEffectKeeps ==
  ASSUME NavInv, PoolEffect PROVE NavInv'
<1>0. NavTypes /\ LeftBehind /\ GoneForGood /\ ShownIsNewest /\ PoolInOrder
  BY DEF NavInv
<1>1. pool' = PoolNow /\ UNCHANGED <<rows, folded, nav, answers, gone, viewed, parted, late,
                                 navSpent>>
  BY DEF PoolEffect
<1>2. /\ pool' \in Seq(NavId) /\ Distinct(pool') /\ Len(pool') <= PoolCap
      /\ Range(pool') \subseteq Range(viewed)
      /\ \A x, y \in NavId : Before(pool', x, y) => Before(viewed, x, y)
      /\ \A x, y \in NavId : Before(viewed, x, y) /\ y \in Range(pool') /\ rows[x] # None
                               => x \in Range(pool')
  BY <1>0, <1>1, PoolNowInOrder
<1>3. NavTypes'
  BY <1>0, <1>1, <1>2 DEF NavTypes
<1>4. LeftBehind' /\ GoneForGood'
  BY <1>0, <1>1 DEF LeftBehind, Left, GoneForGood
<1>5. ShownIsNewest'
  BY <1>0, <1>1 DEF ShownIsNewest, ShownRow
<1>6. PoolInOrder'
  BY <1>0, <1>1, <1>2 DEF PoolInOrder
<1> QED
  BY <1>3, <1>4, <1>5, <1>6 DEF NavInv

LEMMA NavInvStep ==
  ASSUME NavInv, [NavigationNext]_navigationVars PROVE NavInv'
<1>1. ASSUME UNCHANGED navigationVars PROVE NavInv'
  <2>1. UNCHANGED <<rows, folded, nav, pool, answers, gone, viewed, parted, late>>
    BY <1>1 DEF navigationVars
  <2>2. NavTypes' /\ LeftBehind' /\ GoneForGood'
    BY <2>1 DEF NavInv, NavTypes, LeftBehind, Left, GoneForGood
  <2>3. ShownIsNewest' /\ PoolInOrder'
    BY <2>1 DEF NavInv, ShownIsNewest, ShownRow, PoolInOrder
  <2> QED
    BY <2>2, <2>3 DEF NavInv
<1> QED
  BY <1>1, ActKeeps, LaunchKeeps, LandedAnswerKeeps, ListChangeKeeps, RenderKeeps, PoolEffectKeeps
     DEF NavigationNext

LEMMA NavInvHolds == NavigationSpec => []NavInv
<1>1. NavInv /\ [NavigationNext]_navigationVars => NavInv'
  BY NavInvStep
<1> QED
  BY NavInvInit, <1>1, PTL DEF NavigationSpec

-------------------------------------------------------------------------------
(* What the runs check, for every instance.                                  *)

\* Whichever surface, vanished row or other process's answer moves the selection, it
\* never falls back on a process the user stopped or removed and has not opened since;
\* one that the late answer to its own launch selected is set aside
\* (useProcessActivationNavigation.ts, App.tsx:223).
THEOREM NeverBackToPartedHolds == NavigationSpec => []NeverBackToParted
<1>1. NavInv => NeverBackToParted
  BY DEF NavInv, LeftBehind, Left, NeverBackToParted
<1> QED
  BY <1>1, NavInvHolds, PTL

\* The commit that takes the shown process off the list leaves it for one that is still
\* listed, or for Start (useProcessActivationNavigation.ts, the layout effect).
THEOREM LeavesVanishedHolds == NavigationSpec => LeavesVanished
<1> DEFINE Moves ==
      nav.shown # None /\ rows[nav.shown] # None /\ rows'[nav.shown] = None =>
        /\ nav'.shown # nav.shown
        /\ nav'.shown = None \/ nav'.shown \in Listed(rows') \/ nav.landing
<1>1. ASSUME NavInv, [NavigationNext]_navigationVars PROVE [Moves]_navigationVars
  <2> SUFFICES ASSUME nav.shown # None, rows[nav.shown] # None, rows'[nav.shown] = None
               PROVE  /\ nav'.shown # nav.shown
                      /\ nav'.shown = None \/ nav'.shown \in Listed(rows') \/ nav.landing
    OBVIOUS
  <2>0. NavTypes /\ LeftBehind /\ nav \in NavState /\ nav.shown \in NavId /\ None \notin NavId
    BY <1>1, NavigationAssumption DEF NavInv, NavTypes, NavState
  <2>1. CASE Render
    <3>1. /\ rows' = folded /\ nav' = Rendered
      BY <2>1 DEF Render, Rendered, Landed, Commit
    <3>2. nav.shown \in Vanished /\ Vanished \in SUBSET NavId /\ None \notin Vanished
      BY <2>0, <3>1 DEF Vanished, Listed
    <3>3. PICK list, ids, m : list = folded /\ ids = Vanished /\ m = Landed
      OBVIOUS
    <3>4. nav' = AfterLifecycle(m, ids, list) /\ list = rows' /\ ids \in SUBSET NavId
      BY <3>1, <3>2, <3>3 DEF Rendered
    <3>5. Stands(m, Left) /\ m.selected = nav.selected /\ None \notin Left
      BY <2>0, <3>3, RenderedStands, NavigationAssumption DEF NavTypes, Left
    <3>6. /\ m.selected \notin ids => nav'.shown = m.shown
          /\ m.selected \in ids => nav'.shown \in (Listed(list) \ ids) \cup {None}
      <4>1. PICK all : all = Left
        OBVIOUS
      <4>2. Stands(m, all) /\ None \notin all
        BY <3>5, <4>1
      <4>3. Departs(m, AfterLifecycle(m, ids, list), ids, list)
        BY <3>4, <4>2, LifecycleStands
      <4> QED
        BY <3>4, <4>3 DEF Departs
    <3>7. CASE nav.landing
      <4>1. m.shown = nav.selected
        BY <2>0, <3>3, <3>7 DEF Landed, Showing, NavState
      <4>2. nav'.shown \notin ids
        BY <3>2, <3>3, <3>5, <3>6, <4>1
      <4> QED
        BY <3>2, <3>3, <3>7, <4>2
    <3>8. CASE ~nav.landing
      <4>1. nav.shown = nav.selected
        BY <2>0, <3>8 DEF LeftBehind
      <4> QED
        BY <3>2, <3>3, <3>4, <3>5, <3>6, <4>1
    <3> QED
      BY <3>7, <3>8
  <2>2. CASE ~Render
    <3>1. rows' = rows
      BY <1>1, <2>2 DEF NavigationNext, Act, Launch, LaunchAnswered, ListChange, PoolEffect,
                        navigationVars
    <3> QED
      BY <3>1
  <2> QED
    BY <2>1, <2>2
<1>2. LeavesVanished <=> [][Moves]_navigationVars
  BY DEF LeavesVanished
<1> QED
  BY <1>1, <1>2, NavInvHolds, PTL DEF NavigationSpec


\* Around the effect's lag the shown terminal is mounted, the mounted ones fit the cap,
\* and nothing listed that was viewed more recently than a mounted one was evicted before
\* it (useTerminalPool.ts and the fold in App.tsx).
THEOREM PoolKeepsRecentHolds == NavigationSpec => []PoolKeepsRecent
<1>1. ASSUME NavInv PROVE PoolKeepsRecent
  <2>1. PICK s, ids : s = nav.shown /\ ids = Listed(rows)
    OBVIOUS
  <2>2. /\ s \in NavId \cup {None} /\ None \notin NavId /\ ids \in SUBSET NavId
        /\ pool \in Seq(NavId) /\ viewed \in Seq(NavId) /\ Distinct(pool) /\ Distinct(viewed)
        /\ Len(pool) <= PoolCap
    BY <1>1, <2>1, NavigationAssumption
       DEF NavInv, NavTypes, NavState, PoolInOrder, Listed
  <2>3. \A x \in NavId : x \in ids <=> rows[x] # None
    BY <2>1 DEF Listed
  <2>4. s \in ids => /\ s \in Range(viewed)
                     /\ \A x \in Range(viewed) \ {s} : Before(viewed, s, x)
    BY <1>1, <2>1, <2>2, <2>3 DEF NavInv, ShownIsNewest, ShownRow
  <2>5. \A x, y \in NavId : Before(pool, x, y) => Before(viewed, x, y) \/ y = s
    BY <1>1, <2>1 DEF NavInv, PoolInOrder
  <2>6. \A x, y \in NavId :
          Before(viewed, x, y) /\ y \in Range(pool) /\ rows[x] # None /\ rows[y] # None
            => x \in Range(pool) \/ x = s
    BY <1>1, <2>1 DEF NavInv, PoolInOrder
  <2>7. PICK front : front = IF s # None /\ s \notin Range(pool) THEN <<s>> \o pool ELSE pool
    OBVIOUS
  <2>8. /\ front \in Seq(NavId) /\ Distinct(front)
        /\ \A x : x \in Range(front) <=> x \in Range(pool) \/ (x = s /\ s # None)
        /\ \A x, y : Before(front, x, y) <=>
             Before(pool, x, y) \/ (x = s /\ s # None /\ s \notin Range(pool) /\ y \in Range(pool))
    <3>1. CASE s # None /\ s \notin Range(pool)
      <4>1. s \in NavId /\ front = <<s>> \o pool
        BY <2>2, <2>7, <3>1
      <4>2. /\ front \in Seq(NavId)
            /\ \A x : x \in Range(front) <=> x \in Range(pool) \/ x = s
            /\ \A x, y : Before(front, x, y) <=> Before(pool, x, y) \/ (x = s /\ y \in Range(pool))
        BY <2>2, <4>1, Pushed
      <4>3. \A x, y : Before(pool, x, y) => x \in Range(pool)
        BY DEF Before, Range
      <4>4. Distinct(front)
        BY <2>2, <3>1, <4>2, <4>3 DEF Distinct
      <4> QED
        BY <3>1, <4>2, <4>4
    <3>2. CASE ~(s # None /\ s \notin Range(pool))
      BY <2>2, <2>7, <3>2
    <3> QED
      BY <3>1, <3>2
  <2>9. PICK cut : cut = Capped(front, PoolCap)
    OBVIOUS
  <2>10. /\ cut \in Seq(NavId) /\ Len(cut) <= PoolCap
         /\ Range(cut) \subseteq Range(front)
         /\ \A x, y : Before(front, x, y) /\ y \in Range(cut) => x \in Range(cut)
    <3>1. /\ cut \in Seq(NavId) /\ Len(cut) <= PoolCap
          /\ Range(cut) \subseteq Range(front)
          /\ Distinct(front) => \A x, y : Before(front, x, y) /\ y \in Range(cut) => x \in Range(cut)
      BY <2>8, <2>9, CappedKeeps
    <3> QED
      BY <2>8, <3>1
  <2>11. s \in ids => s \in Range(cut)
    <3> SUFFICES ASSUME s \in ids PROVE s \in Range(cut)
      OBVIOUS
    <3>1. s \in NavId /\ s # None
      BY <2>2
    <3>2. CASE s \in Range(pool)
      <4>1. front = pool
        BY <2>7, <3>2
      <4>2. Capped(pool, PoolCap) = pool
        BY <2>2, CappedKeeps
      <4> QED
        BY <2>9, <3>2, <4>1, <4>2
    <3>3. CASE s \notin Range(pool)
      <4>1. front = <<s>> \o pool
        BY <2>7, <3>1, <3>3
      <4>2. Len(front) = Len(pool) + 1 /\ front[1] = s
        BY <2>2, <3>1, <4>1, Pushed
      <4>3. Len(front) > 0
        BY <2>2, <4>2
      <4>4. front[1] \in Range(Capped(front, PoolCap))
        BY <2>8, <4>3, CappedKeeps
      <4> QED
        BY <2>9, <4>2, <4>4
    <3> QED
      BY <3>2, <3>3
  <2>12. PICK m : m = Mounted
    OBVIOUS
  <2>13. m = Keeping(cut, ids)
    BY <2>1, <2>7, <2>9, <2>12 DEF Mounted
  <2>14. Range(m) = Range(cut) \cap ids /\ Len(m) <= PoolCap
    <3>1. /\ Keeping(cut, ids) \in Seq(NavId)
          /\ Range(Keeping(cut, ids)) = Range(cut) \cap ids
          /\ Len(Keeping(cut, ids)) <= Len(cut)
      BY <2>10, KeepingKeeps
    <3>2. m \in Seq(NavId) /\ Len(m) <= Len(cut)
      BY <2>13, <3>1
    <3>3. Len(m) <= PoolCap
      BY <2>10, <3>2, NavigationAssumption
    <3> QED
      BY <2>13, <3>1, <3>3
  <2>15. ASSUME NEW x \in NavId, NEW y \in NavId, Before(viewed, x, y), y \in Range(m), x \in ids
         PROVE  x \in Range(m)
    <3>1. ~Before(viewed, y, x) /\ x # y /\ x \in Range(viewed) /\ y \in Range(viewed)
      BY <2>2, <2>15, BeforeIsStrict
    <3>2. y \in ids /\ y \in Range(cut)
      BY <2>14, <2>15
    <3>3. y # s /\ y \in Range(pool)
      BY <2>4, <2>8, <2>10, <3>1, <3>2
    <3>4. CASE x = s
      BY <2>11, <2>14, <2>15, <3>4
    <3>5. CASE x # s
      <4>1. rows[x] # None /\ rows[y] # None
        BY <2>3, <2>15, <3>2
      <4>2. x \in Range(pool)
        BY <2>6, <2>15, <3>3, <3>5, <4>1
      <4>3. Before(pool, x, y) \/ Before(pool, y, x)
        BY <2>2, <3>1, <3>3, <4>2, BeforeIsTotal
      <4>4. Before(pool, x, y)
        BY <2>5, <3>1, <3>5, <4>3
      <4>5. x \in Range(cut)
        BY <2>8, <2>10, <3>2, <4>4
      <4> QED
        BY <2>14, <2>15, <4>5
    <3> QED
      BY <3>4, <3>5
  <2>16. \A i, j \in DOMAIN viewed :
           i < j /\ viewed[j] \in Range(m) /\ rows[viewed[i]] # None => viewed[i] \in Range(m)
    <3> SUFFICES ASSUME NEW i \in DOMAIN viewed, NEW j \in DOMAIN viewed,
                        i < j, viewed[j] \in Range(m), rows[viewed[i]] # None
                 PROVE  viewed[i] \in Range(m)
      OBVIOUS
    <3>1. PICK x, y : x = viewed[i] /\ y = viewed[j]
      OBVIOUS
    <3>2. x \in NavId /\ y \in NavId
      BY <2>2, <3>1
    <3>3. Before(viewed, x, y)
      BY <3>1 DEF Before
    <3>4. x \in ids
      BY <2>3, <3>1, <3>2
    <3> QED
      BY <2>15, <3>1, <3>2, <3>3, <3>4
  <2>17. nav.shown # None /\ rows[nav.shown] # None => nav.shown \in Range(m)
    BY <2>1, <2>2, <2>3, <2>11, <2>14
  <2> QED
    BY <2>12, <2>14, <2>16, <2>17 DEF PoolKeepsRecent
<1> QED
  BY <1>1, NavInvHolds, PTL

=============================================================================
