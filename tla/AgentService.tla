---------------------------- MODULE AgentService ----------------------------
(***************************************************************************)
(* The app's side of the design agent: starting a run, following its       *)
(* events, and reviewing its proposal (ticking changes, previewing the     *)
(* variant, accepting or rejecting), while the user edits the document.    *)
(*                                                                         *)
(* A CadScript source is the set of what was changed in it: the user's     *)
(* edits and the changes <<run, change>> of proposals.  Its IR is the same *)
(* set, so rebasing accepted changes is a union.  The agent process keeps   *)
(* AgentPromise, as AgentHost does; the events told are drafts and ends.    *)
(***************************************************************************)
EXTENDS Integers, Sequences, FiniteSets

CONSTANTS Runs,          \* run ids
          Changes,       \* keys of the changes a proposal makes
          Edits,         \* edits the user makes and takes back
          None,          \* JavaScript's null
          Starts,        \* start calls in flight at once
          Accepts,       \* accept calls in flight at once
          Picks,         \* setAccepted calls in flight at once
          MaxDrafts,     \* bound: drafts per run
          EventBuffer,   \* early events kept per run (1000 in the code)
          MaxPreviews    \* bound: evaluations of variants in flight

ASSUME BoundsAssumption == {MaxDrafts, EventBuffer, MaxPreviews} \subseteq Nat
ASSUME BufferAssumption == EventBuffer > MaxDrafts

VARIABLES
    doc,        \* the document's source
    status,     \* [run -> its status in state.runs, or "unknown"]
    base,       \* #bases: [run -> the source it was started from]
    active,     \* state.activeRunId
    review,     \* state.review
    pending,    \* #pendingEvents
    prepares,   \* #prepareReview calls awaiting the CadScript service
    previews,   \* #evaluatePreview calls awaiting the engine
    start, accept, pick,  \* [call -> where its await is]; of an accept also whether the
                          \* document was edited during its last compile, and whether
                          \* the proposal was rejected meanwhile (history)
    used, run, last,  \* the agent process (AgentPromise)
    events      \* events on their way from it

appVars == <<status, base, active, review, pending, prepares>>
agentVars == <<used, run, last>>
hostVars == <<agentVars, events>>
vars == <<doc, appVars, previews, start, accept, pick, hostVars>>

Agent == INSTANCE AgentPromise

Sources == SUBSET (Edits \cup (Runs \X Changes))
Terminal == {"changed", "unchanged", "error"}

(* What compiles: neither proposal nor base, the proposal alone, or both. *)
Irs == {"none", "proposed", "both"}
Off == [at |-> "none"]

(* What state.review holds when it is not null. *)
Reviews ==
    [run : Runs, status : {"draft", "preparing", "ready", "error"}, irs : Irs,
     accepted : SUBSET Changes, variant : Sources, error : BOOLEAN,
     preview : [status : {"idle", "evaluating", "ready", "error"}, of : Sources \cup {None}],
     resolution : {None, "accepted", "partial", "rejected"}]
ASSUME NoneAssumption == None \notin Runs \cup Reviews \cup {"accepted", "partial", "rejected"}

Init ==
    /\ doc = {}
    /\ status = [r \in Runs |-> "unknown"] /\ base = [r \in Runs |-> None]
    /\ active = None /\ review = None
    /\ pending = [r \in Runs |-> <<>>]
    /\ prepares = {} /\ previews = {}
    /\ start = [c \in Starts |-> Off]
    /\ accept = [a \in Accepts |-> Off]
    /\ pick = [p \in Picks |-> Off]
    /\ Agent!Init /\ events = <<>>

-----------------------------------------------------------------------------
(* Reviews and variants. *)

NoPreview == [status |-> "idle", of |-> None]

(* The source of run r's proposal with its changes K ticked. *)
With(source, r, K) == source \cup ({r} \X K)

(* The review #onDraft and #prepareReview make of a run started from b. *)
FreshReview(b, r, st) ==
    [run |-> r, status |-> st, irs |-> "none", accepted |-> {},
     variant |-> With(b, r, Changes), error |-> FALSE,
     preview |-> NoPreview, resolution |-> None]

(* review.changes: diffProposal when both sides compile. *)
ChangesOf(irs) == IF irs = "both" THEN Changes ELSE {}

(* #variant: the whole proposal when everything is ticked. *)
Variant(r, irs, K) == With(base[r], r, IF irs = "both" THEN K ELSE Changes)

Unresolved(rv) == rv # None /\ rv.resolution = None

(* reviewPending *)
ReviewPending == Unresolved(review) /\ review.status # "draft"

(* #readyReview does not throw. *)
ReadyReview == Unresolved(review) /\ review.status \in {"ready", "error"}

(* The accepts that await something, and those that the document does not stop any more. *)
Accepting == {a \in Accepts : accept[a].at # "none"}
Compiling == {a \in Accepts : accept[a].at = "compile"}

-----------------------------------------------------------------------------
(* Events, from the host to the run and to its review. *)

(* What handleEvent reads and writes. *)
View == [status |-> status, base |-> base, active |-> active, review |-> review,
         pending |-> pending, prepares |-> prepares]

DropDraft(v, r) ==
    IF v.review # None /\ v.review.run = r /\ v.review.status = "draft"
    THEN [v EXCEPT !.review = None] ELSE v

(* Mutant: a draft replaces whatever review there is. *)
DraftHides(v, r) == [v EXCEPT !.review = FreshReview(v.base[r], r, "draft")]

OnDraft(v, r) ==
    IF Unresolved(v.review) /\ v.review.run # r /\ v.review.status # "draft"
    THEN v                                    \* never hide a pending review
    ELSE [v EXCEPT !.review = FreshReview(v.base[r], r, "draft")]

(* Starting #prepareReview makes the ones in flight outdated. *)
Prepare(v, r) ==
    [v EXCEPT !.review = FreshReview(v.base[r], r, "preparing"),
              !.prepares = {[p EXCEPT !.latest = FALSE] : p \in @}
                           \cup {[run |-> r, latest |-> TRUE]}]

Follow(v, e) ==
    CASE e.type = "draft" -> OnDraft(v, e.run)
      [] e.type = "changed" -> Prepare(v, e.run)
      [] e.type \in {"unchanged", "error"} -> DropDraft(v, e.run)

Reduce(v, e) ==
    IF e.type \notin Terminal THEN v
    ELSE [v EXCEPT !.status[e.run] = IF e.type = "error" THEN "failed" ELSE "done",
                   !.active = IF @ = e.run THEN None ELSE @]

(* Mutant: events of an unknown run are dropped. *)
HandleKnown(v, e) == IF v.status[e.run] = "unknown" THEN v ELSE Follow(Reduce(v, e), e)

HandleEvent(v, e) ==
    IF v.status[e.run] = "unknown"
    THEN IF Len(v.pending[e.run]) < EventBuffer
         THEN [v EXCEPT !.pending[e.run] = Append(@, e)] ELSE v
    ELSE Follow(Reduce(v, e), e)

(* Events handled one after the other. *)
Replay(v, evs) ==
    LET after[i \in 0..Len(evs)] ==
          IF i = 0 THEN v ELSE HandleEvent(after[i - 1], evs[i])
    IN  after[Len(evs)]

SetView(v) ==
    /\ status' = v.status /\ base' = v.base /\ active' = v.active
    /\ review' = v.review /\ pending' = v.pending /\ prepares' = v.prepares

Deliver ==
    /\ events # <<>>
    /\ SetView(HandleEvent(View, Head(events)))
    /\ events' = Tail(events)
    /\ UNCHANGED <<doc, previews, start, accept, pick, agentVars>>

(* #evaluatePreview(ir): the review shows an evaluation under way. *)
EvaluatePreview(rv, ir) ==
    /\ Cardinality(previews) < MaxPreviews
    /\ review' = [rv EXCEPT !.preview.status = "evaluating"]
    /\ previews' = {[p EXCEPT !.latest = FALSE] : p \in previews}
                   \cup {[of |-> ir, latest |-> TRUE]}

(* The compiles of #prepareReview answer.  Only the latest one counts. *)
PrepareDone(p, irs) ==
    /\ p \in prepares
    /\ prepares' = prepares \ {p}
    /\ LET rv == [FreshReview(base[p.run], p.run, "ready") EXCEPT
                    !.irs = irs, !.accepted = ChangesOf(irs), !.error = (irs = "none")]
       IN  IF ~p.latest THEN UNCHANGED <<review, previews>>
           ELSE IF irs # "none" THEN EvaluatePreview(rv, rv.variant)
           ELSE review' = rv /\ UNCHANGED previews
    /\ UNCHANGED <<doc, status, base, active, pending, start, accept, pick, hostVars>>

(* Mutant: a failed compile is not caught. *)
PrepareLost(p) ==
    /\ p \in prepares
    /\ prepares' = prepares \ {p}
    /\ UNCHANGED <<doc, status, base, active, review, pending, previews, start, accept, pick, hostVars>>

PrepareFails(p) ==
    /\ p \in prepares
    /\ prepares' = prepares \ {p}
    /\ review' = IF p.latest
                 THEN [FreshReview(base[p.run], p.run, "error") EXCEPT !.error = TRUE] ELSE review
    /\ UNCHANGED <<doc, status, base, active, pending, previews, start, accept, pick, hostVars>>

Shown(p, st) == [status |-> st, of |-> IF st = "ready" THEN p.of ELSE None]

(* Mutant: a late evaluation is shown too. *)
AnyPreviewDone(p, st) ==
    /\ p \in previews /\ st \in {"ready", "error"}
    /\ previews' = previews \ {p}
    /\ review' = IF review = None THEN review
                 ELSE [review EXCEPT !.preview = Shown(p, st)]
    /\ UNCHANGED <<doc, status, base, active, pending, prepares, start, accept, pick, hostVars>>

(* The engine answers (with bodies, or fails): the latest evaluation patches
   whatever review is current. *)
PreviewDone(p, st) ==
    /\ p \in previews /\ st \in {"ready", "error"}
    /\ previews' = previews \ {p}
    /\ review' = IF p.latest /\ review # None
                 THEN [review EXCEPT !.preview = Shown(p, st)] ELSE review
    /\ UNCHANGED <<doc, status, base, active, pending, prepares, start, accept, pick, hostVars>>

-----------------------------------------------------------------------------
(* start: refused while a run or a review is open, then two awaits. *)

Start(c) ==
    /\ start[c].at = "none"
    /\ active = None /\ ~ReviewPending
    /\ start' = [start EXCEPT ![c] = [at |-> "idle"]]
    /\ UNCHANGED <<doc, appVars, previews, accept, pick, hostVars>>

StartIdle(c) ==
    /\ start[c].at = "idle"
    /\ start' = [start EXCEPT ![c] = [at |-> "sent", source |-> doc]]
    /\ UNCHANGED <<doc, appVars, previews, accept, pick, hostVars>>

(* The host takes the request, or refuses: it has a run, or lacks a key. *)
HostStarts(c, r) ==
    /\ start[c].at = "sent"
    /\ Agent!Begin(r)
    /\ start' = [start EXCEPT ![c] = [at |-> "started", source |-> @.source, run |-> r]]
    /\ UNCHANGED <<doc, appVars, previews, accept, pick, events>>

HostRefuses(c) ==
    /\ start[c].at = "sent"
    /\ start' = [start EXCEPT ![c] = [at |-> "refused"]]
    /\ UNCHANGED <<doc, appVars, previews, accept, pick, hostVars>>

(* The reply registers the run, then replays the events that overtook it. *)
Registered(c) ==
    /\ start[c].at = "started"
    /\ LET r == start[c].run
           v == [View EXCEPT !.status[r] = "running", !.base[r] = start[c].source,
                             !.active = r, !.pending[r] = <<>>]
       IN  SetView(Replay(v, pending[r]))
    /\ start' = [start EXCEPT ![c] = Off]
    /\ UNCHANGED <<doc, previews, accept, pick, hostVars>>

Refused(c) ==
    /\ start[c].at = "refused"
    /\ start' = [start EXCEPT ![c] = Off]
    /\ UNCHANGED <<doc, appVars, previews, accept, pick, hostVars>>

HostSends(type) ==
    /\ type = "draft" => Agent!Count < MaxDrafts
    /\ Agent!Tell(Agent!Count + 1, type \in Terminal)
    /\ events' = Append(events, [run |-> run, type |-> type])
    /\ UNCHANGED <<doc, appVars, previews, start, accept, pick>>

-----------------------------------------------------------------------------
(* The user reviews the proposal, and edits the document. *)

(* setAccepted(K) *)
Pick(p, K) ==
    /\ pick[p].at = "none" /\ ReadyReview /\ K \subseteq ChangesOf(review.irs)
    /\ review' = [review EXCEPT !.accepted = K]
    /\ pick' = [pick EXCEPT ![p] =
                  [at |-> "merge", run |-> review.run, irs |-> review.irs, keys |-> K]]
    /\ UNCHANGED <<doc, status, base, active, pending, prepares, previews, start, accept, hostVars>>

(* Mutant: the ticks are not compared. *)
PickIsOfReview(p) == review # None /\ review.run = pick[p].run

PickIsCurrent(p) ==
    review # None /\ review.run = pick[p].run /\ review.accepted = pick[p].keys

PickDone(p) ==
    /\ pick[p].at = "merge"
    /\ LET v == Variant(pick[p].run, pick[p].irs, pick[p].keys)
           rv == [review EXCEPT !.variant = v, !.error = FALSE]
       IN  IF ~PickIsCurrent(p) THEN UNCHANGED <<review, previews>>
           ELSE IF pick[p].irs # "none" THEN EvaluatePreview(rv, v)
           ELSE review' = rv /\ UNCHANGED previews
    /\ pick' = [pick EXCEPT ![p] = Off]
    /\ UNCHANGED <<doc, status, base, active, pending, prepares, start, accept, hostVars>>

(* applyIrEdit throws: the error is shown on whatever review is current. *)
PickFails(p) ==
    /\ pick[p].at = "merge"
    /\ review' = IF review = None THEN review ELSE [review EXCEPT !.error = TRUE]
    /\ pick' = [pick EXCEPT ![p] = Off]
    /\ UNCHANGED <<doc, status, base, active, pending, prepares, previews, start, accept, hostVars>>

(* accept: a selection must not be empty; then it awaits doc.idle. *)
Accept(a, K) ==
    /\ accept[a].at = "none" /\ ReadyReview
    /\ K \subseteq ChangesOf(review.irs) /\ (K # {} \/ ChangesOf(review.irs) = {})
    /\ accept' = [accept EXCEPT ![a] =
                    [at |-> "idle", run |-> review.run, irs |-> review.irs, keys |-> K,
                     rejected |-> FALSE]]
    /\ UNCHANGED <<doc, appVars, previews, start, pick, hostVars>>

(* The document is idle.  On an edited document the changes are rebased,
   when both sides and the document compile. *)
AcceptIdle(a) ==
    /\ accept[a].at = "idle"
    /\ LET r == accept[a].run
           all == ChangesOf(accept[a].irs) \subseteq accept[a].keys
           same == doc = base[r]
       IN  /\ same \/ accept[a].irs = "both"
           /\ accept' = [accept EXCEPT ![a] =
                [at |-> IF same /\ all THEN "compile" ELSE "merge",
                 run |-> r, partial |-> ~all, seen |-> doc,
                 edited |-> FALSE, rejected |-> accept[a].rejected,
                 source |-> IF same THEN Variant(r, accept[a].irs, accept[a].keys)
                            ELSE With(doc, r, accept[a].keys)]]
    /\ UNCHANGED <<doc, appVars, previews, start, pick, hostVars>>

(* Mutant: the document is not looked at again. *)
AcceptBlindly(a) ==
    /\ accept[a].at = "merge"
    /\ accept' = [accept EXCEPT ![a].at = "compile"]
    /\ UNCHANGED <<doc, appVars, previews, start, pick, hostVars>>

(* The merged source is there: an edit made meanwhile is a conflict. *)
AcceptMerged(a) ==
    /\ accept[a].at = "merge"
    /\ doc = accept[a].seen
    /\ accept' = [accept EXCEPT ![a].at = "compile"]
    /\ UNCHANGED <<doc, appVars, previews, start, pick, hostVars>>

Edited == [a \in Accepts |-> IF a \in Compiling THEN [accept[a] EXCEPT !.edited = TRUE]
                                                ELSE accept[a]]

(* The merged source compiles, or force is set: it becomes the document, and
   whatever review is current is resolved. *)
AcceptDone(a) ==
    /\ accept[a].at = "compile"
    /\ doc' = accept[a].source
    /\ review' = IF review = None THEN review
                 ELSE [review EXCEPT !.resolution =
                        IF accept[a].partial THEN "partial" ELSE "accepted"]
    /\ accept' = [Edited EXCEPT ![a] = Off]
    /\ UNCHANGED <<status, base, active, pending, prepares, previews, start, pick, hostVars>>

(* DEPENDENCY, CONFLICT, INVALID, or the CadScript service throws. *)
AcceptFails(a) ==
    /\ accept[a].at # "none"
    /\ accept' = [accept EXCEPT ![a] = Off]
    /\ UNCHANGED <<doc, appVars, previews, start, pick, hostVars>>

Reject ==
    /\ ReadyReview
    /\ review' = [review EXCEPT !.resolution = "rejected"]
    /\ accept' = [a \in Accepts |-> IF a \in Accepting
                                    THEN [accept[a] EXCEPT !.rejected = TRUE] ELSE accept[a]]
    /\ UNCHANGED <<doc, status, base, active, pending, prepares, previews, start, pick, hostVars>>

(* The user makes an edit or takes it back. *)
Edit(e) ==
    /\ doc' = IF e \in doc THEN doc \ {e} ELSE doc \cup {e}
    /\ accept' = Edited
    /\ UNCHANGED <<appVars, previews, start, pick, hostVars>>

-----------------------------------------------------------------------------
StartStep(c) ==
    Start(c) \/ StartIdle(c) \/ (\E r \in Runs : HostStarts(c, r))
    \/ HostRefuses(c) \/ Registered(c) \/ Refused(c)

PrepareStep(p) == (\E irs \in Irs : PrepareDone(p, irs)) \/ PrepareFails(p)
PreviewStep(p) == \E st \in {"ready", "error"} : PreviewDone(p, st)
PickStep(p) == PickDone(p) \/ PickFails(p)
AcceptStep(a) == AcceptIdle(a) \/ AcceptMerged(a) \/ AcceptDone(a) \/ AcceptFails(a)

UserStep ==
    \/ \E p \in Picks, K \in SUBSET Changes : Pick(p, K)
    \/ \E a \in Accepts, K \in SUBSET Changes : Accept(a, K)
    \/ Reject
    \/ \E e \in Edits : Edit(e)

Next ==
    \/ \E c \in Starts : StartStep(c)
    \/ \E type \in {"draft", "changed", "unchanged", "error"} : HostSends(type)
    \/ Deliver
    \/ \E p \in prepares : PrepareStep(p)
    \/ \E p \in previews : PreviewStep(p)
    \/ \E p \in Picks : PickStep(p)
    \/ \E a \in Accepts : AcceptStep(a)
    \/ UserStep

Spec == Init /\ [][Next]_vars

(* Every call that waits is answered, and the agent process ends its run. *)
Answers ==
    /\ \A c \in Starts :
         WF_vars(StartIdle(c) \/ (\E r \in Runs : HostStarts(c, r))
                 \/ HostRefuses(c) \/ Registered(c) \/ Refused(c))
    /\ WF_vars(\E type \in Terminal : HostSends(type))
    /\ WF_vars(Deliver)
    /\ WF_vars(\E p \in prepares : PrepareStep(p))

FairSpec == Spec /\ Answers

-----------------------------------------------------------------------------
(* Properties. *)

EndOf(r) == \E i \in DOMAIN events : events[i].run = r /\ events[i].type \in Terminal

(* A run shown as working is working: the host still runs it, or its end is
   on the way.  Otherwise start answers BUSY for good.  The buffer of early
   events and its replay at registration keep this true when a run ends before
   the reply that names it (agent-service.ts, handleEvent and start). *)
ActiveRunIsAlive ==
    active # None => run = active \/ EndOf(active)

(* A proposal waits for its accept or reject: no draft hides it and no other
   run's end drops it ("never hide a pending review").  Only the finished proposal
   of another run may take its place, when two calls of start passed the check. *)
PendingReviewStays ==
    [][ReviewPending => /\ review' # None
                        /\ review'.run # review.run => review'.status = "preparing"]_vars

(* The variant is that of the ticks, once no answer for these ticks is awaited
   and no error is shown, in whatever order setAccepted's answers come. *)
VariantMatchesTicks ==
    (review # None /\ review.status = "ready" /\ ~review.error
     /\ \A p \in Picks : pick[p].at # "none" => ~PickIsCurrent(p))
    => review.variant = Variant(review.run, review.irs, review.accepted)

(* The ghost in the viewport is that of the variant under review, never the
   late evaluation of earlier ticks or of an earlier proposal. *)
PreviewShowsVariant ==
    (review # None /\ review.status = "ready" /\ review.irs # "none"
     /\ review.preview.status = "ready")
    => review.preview.of = review.variant

(* The document changes by one edit of the user, or by the ticked changes of a
   proposal, rebased on the document as it is, which that step resolves.  Only an
   edit during the last compile may be overwritten, and only after a reject
   meanwhile may the review that is resolved be another (agent-service.ts, accept). *)
DocumentChangesAreReviewed ==
    [][doc' # doc =>
        \/ \E e \in Edits : doc' \in {doc \cup {e}, doc \ {e}}
        \/ \E a \in Compiling, K \in SUBSET Changes :
             /\ doc' = With(accept[a].seen, accept[a].run, K)
             /\ accept[a].seen = doc \/ accept[a].edited
             /\ \/ /\ Unresolved(review) /\ review.run = accept[a].run
                   /\ review'.resolution = IF K = Changes THEN "accepted" ELSE "partial"
                \/ accept[a].rejected]_vars

(* Every run the app shows as working ends, and a proposal announced as being
   prepared becomes reviewable. *)
RunsEnd ==
    /\ \A r \in Runs : (status[r] = "running") ~> (status[r] # "running")
    /\ (review # None /\ review.status = "preparing")
       ~> (review = None \/ review.status # "preparing")
=============================================================================
