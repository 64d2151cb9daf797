---------------------------- MODULE EquationReview ----------------------------
(***************************************************************************)
(* The equation review of the control API (equation_review/): the          *)
(* repository and its owner adapter, over a document package and a review  *)
(* history that belong to another package, projectkoios applications.      *)
(*                                                                         *)
(* decide() reads the owner's queue, binds the request to the evidence it  *)
(* shows, has the owner append, and reads the queue again for the answer.  *)
(* The routes run in a pool of threads, Workers, without a lock of the     *)
(* API's own: other decisions, the assistance and a rebuild of the package *)
(* may come between any two of these accesses.                             *)
(*                                                                         *)
(* The owner's append is external.  Its outcomes are the ones owner.py     *)
(* tells apart and the adapter's tests exercise: it claims the position    *)
(* after the expected revision exclusively, writes it piece by piece, and  *)
(* answers an exact retry with the revision already there.                 *)
(***************************************************************************)
EXTENDS Naturals, Sequences, FiniteSets

CONSTANTS
  Workers,        \* threads that serve requests
  Candidates,     \* equation candidates a package may list
  Proposals,      \* hashes of assistance proposals
  NoProposal,     \* assistance NOT_STARTED, or a request that names none
  Packages,       \* the contents the package may have
  Requests,       \* the decision bodies reviewers send
  MaxRevisions,   \* MAX_EQUATION_REVIEW_REVISIONS
  MaxDecides      \* bound: decisions started

Dispositions == {"ACCEPT_TRANSCRIPTION", "REJECT_CANDIDATE", "REVISION_REQUIRED"}

DisplayModes == {"INLINE", "DISPLAY", "NONE"}

\* How the rendered hashes of an acceptance relate to its LaTeX.
Renders == {"NONE", "CURRENT", "STALE", "EDITED", "NONCANONICAL"}

\* What a package says of a candidate; evidence stands for the hashes of the
\* source, of the deterministic evidence and of the region's image.
Evidence ==
  [evidence : Nat, proposal : Proposals \union {NoProposal},
   mode : {"INLINE", "DISPLAY"}]

Request ==
  [disposition : Dispositions, proposal : Proposals \union {NoProposal},
   mode : DisplayModes, render : Renders, expected : Nat]

Conflicts ==
  {"PROPOSAL_STALE", "EVIDENCE_STALE", "REVISION_STALE", "RENDER_STALE",
   "EDIT_AFTER_RENDER", "REVIEWER_LATEX_NONCANONICAL", "CONCURRENT_DECISION"}

Statuses ==
  Conflicts \union
    {"OK", "INVALID", "NOT_FOUND", "PARTIAL_OUTPUT", "QUEUE_INCOMPLETE",
     "QUEUE_MALFORMED", "OWNER_UNAVAILABLE"}

\* A revision as an answer shows it.
Entry == Candidates \X (Nat \ {0}) \X Requests

\* What a worker holds while it serves a request.
Job ==
  [op : {"queue", "decide"}, candidate : Candidates, request : Requests,
   bound : Nat,            \* the evidence the request was bound to
   begun : BOOLEAN,        \* history: it has begun to append, or found its revision
   receipt : Nat,          \* the valid revision the owner's append returned, or 0
   status : Statuses,
   shown : SUBSET Entry]   \* the revisions in the answer

NoJob ==
  [op |-> "queue", candidate |-> CHOOSE c \in Candidates : TRUE,
   request |-> CHOOSE q \in Requests : TRUE, bound |-> 0, begun |-> FALSE, receipt |-> 0,
   status |-> "OK", shown |-> {}]

ASSUME ValuesAssumption == Candidates # {} /\ Requests # {}
ASSUME NoProposalAssumption == NoProposal \notin Proposals
ASSUME PackagesAssumption ==
  \A p \in Packages : \E C \in SUBSET Candidates : p \in [C -> Evidence]
ASSUME RequestsAssumption == Requests \subseteq Request
ASSUME BoundsAssumption == MaxRevisions \in Nat /\ MaxDecides \in Nat

VARIABLES
  package,   \* the content of the document package
  history,   \* history[c]: the whole revisions of c, oldest first
  partial,   \* candidates with a revision that is begun and not whole
  pc,        \* where each worker stands
  job,       \* what it holds
  issued,    \* decisions started so far
  told       \* history: the <<candidate, revision, decision>> answered with

owner == <<package, history, partial>>
vars == <<owner, pc, job, issued, told>>

Points == {"idle", "queue", "append", "publish", "refresh", "answer"}

-------------------------------------------------------------------------------
\* The rules of a request.

\* expected_previous_revision, so that the next revision has a number.
ExpectedInBound(q) == q.expected < MaxRevisions

\* Mutant: an acceptance needs no proposal hash.
ValidWithoutProposal(q) ==
  /\ ExpectedInBound(q)
  /\ IF q.disposition = "ACCEPT_TRANSCRIPTION"
     THEN q.mode # "NONE" /\ q.render # "NONE"
     ELSE q.mode = "NONE" /\ q.render = "NONE"

\* has_disposition_specific_representations; FastAPI answers 422 otherwise.
ValidRequest(q) ==
  /\ ExpectedInBound(q)
  /\ IF q.disposition = "ACCEPT_TRANSCRIPTION"
     THEN q.proposal # NoProposal /\ q.mode # "NONE" /\ q.render # "NONE"
     ELSE q.mode = "NONE" /\ q.render = "NONE"

\* The proposal a request names is the one the package has.
ProposalDisplayed(q, e) == q.proposal # NoProposal => q.proposal = e.proposal

\* _decision_binding, which looks for a proposal to accept as well.
ProposalBound(q, e) ==
  /\ ProposalDisplayed(q, e)
  /\ q.disposition = "ACCEPT_TRANSCRIPTION" => e.proposal # NoProposal

ModeDisplayed(q, e) == q.mode # "NONE" => q.mode = e.mode

RenderRefusal(q) ==
  CASE q.render = "NONCANONICAL" -> "REVIEWER_LATEX_NONCANONICAL"
    [] q.render = "EDITED"       -> "EDIT_AFTER_RENDER"
    [] q.render = "STALE"        -> "RENDER_STALE"
    [] OTHER                     -> "OK"

Latest(c) == <<c, Len(history[c]), history[c][Len(history[c])]>>

\* Mutant: a candidate nobody decided is shown as if it had a revision.
QueueShowsUndecided ==
  {IF history[c] = <<>> THEN <<c, 0, NoJob.request>> ELSE Latest(c) :
     c \in DOMAIN package}

\* The latest revision of every decided candidate the queue lists.
QueueShows == {Latest(c) : c \in {d \in DOMAIN package : history[d] # <<>>}}

-------------------------------------------------------------------------------
Init ==
  /\ package \in Packages
  /\ history = [c \in Candidates |-> <<>>]
  /\ partial = {}
  /\ pc = [w \in Workers |-> "idle"]
  /\ job = [w \in Workers |-> NoJob]
  /\ issued = 0
  /\ told = {}

At(w, point) == pc[w] = point

Goto(w, point) == pc' = [pc EXCEPT ![w] = point]

Answer(w, code, revisions) ==
  /\ Goto(w, "answer")
  /\ job' = [job EXCEPT ![w].status = code, ![w].shown = revisions]

Fail(w, code) == Answer(w, code, {})

\* The operator publishes assistance or rebuilds the package; what is reviewed,
\* or being reviewed, keeps its evidence.
ChangePackage ==
  \E p \in Packages :
    /\ \A c \in Candidates :
         history[c] # <<>> \/ c \in partial =>
           /\ c \in DOMAIN p /\ c \in DOMAIN package
           /\ p[c].evidence = package[c].evidence
           /\ p[c].mode = package[c].mode
           /\ p[c].proposal = package[c].proposal \/ package[c].proposal = NoProposal
    /\ package' = p
    /\ UNCHANGED <<history, partial, pc, job, issued, told>>

\* A request arrives; its body is validated before the handler runs.
Start(w) ==
  /\ At(w, "idle")
  /\ \/ /\ job' = [job EXCEPT ![w] = NoJob]
        /\ Goto(w, "queue")
        /\ UNCHANGED issued
     \/ /\ issued < MaxDecides
        /\ issued' = issued + 1
        /\ \E c \in Candidates, q \in Requests :
             /\ job' = [job EXCEPT ![w] =
                          [NoJob EXCEPT !.op = "decide", !.candidate = c,
                             !.request = q,
                             !.status = IF ValidRequest(q) THEN "OK" ELSE "INVALID"]]
             /\ Goto(w, IF ValidRequest(q) THEN "queue" ELSE "answer")
  /\ UNCHANGED <<owner, told>>

\* _owner_queue raises: the root or the package is not readable, or the review
\* tree holds a revision that is not whole.
QueueUnreadable(w) ==
  /\ At(w, "queue") \/ At(w, "refresh")
  /\ \/ Fail(w, "QUEUE_INCOMPLETE")
     \/ Fail(w, "OWNER_UNAVAILABLE")
     \/ partial # {} /\ Fail(w, "QUEUE_MALFORMED")
  /\ UNCHANGED <<owner, issued, told>>

\* queue(): the owner's projection is the answer.
AnswerQueue(w) ==
  /\ At(w, "queue")
  /\ job[w].op = "queue"
  /\ partial = {}
  /\ Answer(w, "OK", QueueShows)
  /\ UNCHANGED <<owner, issued, told>>

\* _candidate: not in the projection.
CandidateNotFound(w) ==
  /\ At(w, "queue") \/ At(w, "refresh")
  /\ job[w].op = "decide"
  /\ partial = {}
  /\ job[w].candidate \notin DOMAIN package
  /\ Fail(w, "NOT_FOUND")
  /\ UNCHANGED <<owner, issued, told>>

\* decide(): the first reading of the queue, and _decision_binding.
BindDecision(w) ==
  /\ At(w, "queue")
  /\ job[w].op = "decide"
  /\ partial = {}
  /\ job[w].candidate \in DOMAIN package
  /\ LET q == job[w].request
         e == package[job[w].candidate]
     IN  \/ ~ProposalBound(q, e) /\ Fail(w, "PROPOSAL_STALE")
         \/ /\ ProposalBound(q, e)
            /\ ~ModeDisplayed(q, e)
            /\ Fail(w, "RENDER_STALE")
         \/ /\ ProposalBound(q, e)
            /\ ModeDisplayed(q, e)
            /\ job' = [job EXCEPT ![w].bound = e.evidence]
            /\ Goto(w, "append")
  /\ UNCHANGED <<owner, issued, told>>

-------------------------------------------------------------------------------
\* The owner's append, through the adapter's.

\* _owner_request compares the rendered hashes with the LaTeX.
RenderRefused(w) ==
  /\ At(w, "append")
  /\ RenderRefusal(job[w].request) # "OK"
  /\ Fail(w, RenderRefusal(job[w].request))
  /\ UNCHANGED <<owner, issued, told>>

\* The evidence and the proposal are still those the request was bound to.
EvidenceCurrent(w) ==
  LET c == job[w].candidate
  IN  /\ c \in DOMAIN package
      /\ package[c].evidence = job[w].bound
      /\ ProposalDisplayed(job[w].request, package[c])

\* Mutant: the request's position is taken from the queue just read.
PositionFromQueue(w) == Len(history[job[w].candidate])

\* The owner appends after the revision the reviewer says to have seen.
ExpectedPosition(w) == job[w].request.expected

\* The decision a retry repeats is the one at its position already.
IsRetry(w) ==
  LET h == history[job[w].candidate]
  IN  /\ ExpectedPosition(w) < Len(h)
      /\ h[ExpectedPosition(w) + 1] = job[w].request

\* The typed refusals of append_human_equation_revision.
AppendRefused(w) ==
  /\ At(w, "append")
  /\ RenderRefusal(job[w].request) = "OK"
  /\ \/ ~EvidenceCurrent(w) /\ Fail(w, "EVIDENCE_STALE")
     \/ /\ ExpectedPosition(w) # Len(history[job[w].candidate])
        /\ ~IsRetry(w)
        /\ Fail(w, "REVISION_STALE")
     \/ /\ job[w].candidate \in partial
        /\ Fail(w, "CONCURRENT_DECISION") \/ Fail(w, "PARTIAL_OUTPUT")
     \/ Fail(w, "OWNER_UNAVAILABLE")
  /\ UNCHANGED <<owner, issued, told>>

\* What the owner's append returns passes _decision_from_revision and
\* _validate_append_response, or is refused although the revision is durable.
AppendReturns(w, n) ==
  \/ /\ job' = [job EXCEPT ![w].begun = TRUE, ![w].receipt = n]
     /\ Goto(w, "refresh")
  \/ /\ job' = [job EXCEPT ![w].begun = TRUE, ![w].status = "PARTIAL_OUTPUT"]
     /\ Goto(w, "answer")

\* An exact retry gets the immutable revision, whatever came after it.
AppendReplayed(w) ==
  /\ At(w, "append")
  /\ RenderRefusal(job[w].request) = "OK"
  /\ EvidenceCurrent(w)
  /\ IsRetry(w)
  /\ AppendReturns(w, ExpectedPosition(w) + 1)
  /\ UNCHANGED <<owner, issued, told>>

\* The position is free and becomes this writer's.
AppendBegun(w) ==
  /\ At(w, "append")
  /\ RenderRefusal(job[w].request) = "OK"
  /\ EvidenceCurrent(w)
  /\ job[w].candidate \notin partial
  /\ ExpectedPosition(w) = Len(history[job[w].candidate])
  /\ partial' = partial \union {job[w].candidate}
  /\ job' = [job EXCEPT ![w].begun = TRUE]
  /\ Goto(w, "publish")
  /\ UNCHANGED <<package, history, issued, told>>

\* The owner raises in the middle, a publication error or another.
AppendBroken(w) ==
  /\ At(w, "publish")
  /\ Fail(w, "PARTIAL_OUTPUT") \/ Fail(w, "OWNER_UNAVAILABLE")
  /\ UNCHANGED <<owner, issued, told>>

\* Mutant: the last revision is replaced by the new one.
AppendOverwriting(w) ==
  /\ At(w, "publish")
  /\ LET c == job[w].candidate
         n == IF history[c] = <<>> THEN 1 ELSE Len(history[c])
     IN  /\ history' = [history EXCEPT ![c] = SubSeq(@, 1, n - 1) \o <<job[w].request>>]
         /\ partial' = partial \ {c}
         /\ job' = [job EXCEPT ![w].receipt = n]
  /\ Goto(w, "refresh")
  /\ UNCHANGED <<package, issued, told>>

\* The revision is whole.
AppendDone(w) ==
  /\ At(w, "publish")
  /\ LET c == job[w].candidate
     IN  /\ history' = [history EXCEPT ![c] = Append(@, job[w].request)]
         /\ partial' = partial \ {c}
         /\ AppendReturns(w, Len(history[c]) + 1)
  /\ UNCHANGED <<package, issued, told>>

-------------------------------------------------------------------------------
\* Mutant: the refreshed decision is returned without the comparison.
RefreshUncompared(w) ==
  /\ At(w, "refresh")
  /\ partial = {}
  /\ job[w].candidate \in DOMAIN package
  /\ LET c == job[w].candidate
     IN  IF history[c] = <<>>
         THEN Fail(w, "PARTIAL_OUTPUT")
         ELSE Answer(w, "OK", {Latest(c)})
  /\ UNCHANGED <<owner, issued, told>>

\* Mutant: an overtaken receipt is reported as a stale revision.
RefreshStale(w) ==
  /\ At(w, "refresh")
  /\ partial = {}
  /\ job[w].candidate \in DOMAIN package
  /\ LET c == job[w].candidate
     IN  IF Len(history[c]) # job[w].receipt
         THEN Fail(w, "REVISION_STALE")
         ELSE Answer(w, "OK", {Latest(c)})
  /\ UNCHANGED <<owner, issued, told>>

\* decide(): the second reading of the queue; the answer is its decision when
\* that equals the receipt.
Refresh(w) ==
  /\ At(w, "refresh")
  /\ partial = {}
  /\ job[w].candidate \in DOMAIN package
  /\ LET c == job[w].candidate
     IN  IF Len(history[c]) # job[w].receipt
         THEN Fail(w, "PARTIAL_OUTPUT")
         ELSE Answer(w, "OK", {Latest(c)})
  /\ UNCHANGED <<owner, issued, told>>

\* The answer reaches the client.
Respond(w) ==
  /\ At(w, "answer")
  /\ told' = told \union job[w].shown
  /\ job' = [job EXCEPT ![w] = NoJob]
  /\ Goto(w, "idle")
  /\ UNCHANGED <<owner, issued>>

\* The process dies and starts again; a revision being written stays partial.
Crash ==
  /\ pc' = [w \in Workers |-> "idle"]
  /\ job' = [w \in Workers |-> NoJob]
  /\ UNCHANGED <<owner, issued, told>>

Serve(w) ==
  \/ QueueUnreadable(w)
  \/ AnswerQueue(w)
  \/ CandidateNotFound(w)
  \/ BindDecision(w)
  \/ RenderRefused(w)
  \/ AppendRefused(w)
  \/ AppendReplayed(w)
  \/ AppendBegun(w)
  \/ AppendBroken(w)
  \/ AppendDone(w)
  \/ Refresh(w)
  \/ Respond(w)

Next ==
  \/ ChangePackage
  \/ Crash
  \/ \E w \in Workers : Start(w) \/ Serve(w)

Spec == Init /\ [][Next]_vars

-------------------------------------------------------------------------------
\* Properties.

\* Every variable keeps its type.
TypeOK ==
  /\ package \in Packages
  /\ history \in [Candidates -> Seq(Requests)]
  /\ partial \subseteq Candidates
  /\ pc \in [Workers -> Points]
  /\ job \in [Workers -> Job]
  /\ issued \in Nat
  /\ told \subseteq Entry

\* No candidate gets more revisions than its models can number: one more and
\* every queue would be malformed, for the decision bound its revision.
HistoryWithinBound == \A c \in Candidates : Len(history[c]) <= MaxRevisions

\* No decision is recorded over one its reviewer had not seen: revision n of a
\* candidate is a decision sent as the successor of n - 1, although decide()
\* reads the queue, which may already be further, before it appends; and so the
\* bound of one request bounds the history.
DecisionsFollowWhatWasSeen ==
  /\ \A c \in Candidates : \A n \in 1 .. Len(history[c]) :
       history[c][n].expected = n - 1
  /\ HistoryWithinBound

\* A conflict means that nothing was recorded or begun by this request, so that
\* a reviewer may look again and decide anew; the answers that leave it open,
\* of a broken append, a refused receipt or a second reading, are not conflicts.
ConflictMeansNotRecorded ==
  \A w \in Workers :
    At(w, "answer") /\ job[w].status \in Conflicts => ~job[w].begun

\* An acceptance names a proposal, and it is the one the package displays: the
\* assistance published while decide() runs is never accepted unseen.
AcceptancesNameTheProposal ==
  \A c \in Candidates : \A n \in 1 .. Len(history[c]) :
    history[c][n].disposition = "ACCEPT_TRANSCRIPTION" =>
      /\ history[c][n].proposal # NoProposal
      /\ package[c].proposal = history[c][n].proposal

\* A reviewer whose decision is accepted is shown that decision, at the revision
\* after the one it named and never another reviewer's that was recorded between
\* the append and the second reading; and it is the latest one at that reading,
\* "returns only the refreshed latest revision".
DecideAnswersOwnLatest ==
  [][\A w \in Workers :
       LET c == job[w].candidate
           q == job[w].request
       IN  At(w, "refresh") /\ At(w, "answer")' /\ job'[w].status = "OK" =>
             /\ job'[w].shown = {<<c, q.expected + 1, q>>}
             /\ Latest(c) = <<c, q.expected + 1, q>>]_vars

Log == INSTANCE DecisionLog WITH
  Subjects <- Candidates, Decisions <- Requests, log <- history

\* The owner's history is an append-only log, and whatever a queue or a decide
\* answers is an entry of it, at its own revision, also when retries, broken
\* appends and crashes come between.
ImplementsDecisionLog == Log!Spec

\* What EquationReviewPartialOutput says, "Applications found partial or invalid
\* append output": a decision whose append returned a whole, valid revision is
\* not answered as partial output.
PartialOutputIsPartial ==
  \A w \in Workers :
    At(w, "answer") /\ job[w].status = "PARTIAL_OUTPUT" => job[w].receipt = 0

\* The histories as OptimisticDecisions has them: a decision names the length of its
\* own candidate's.  Refusals stay out of it, for a request has no key in the code: two
\* reviewers may send the same body, of which one is refused and one recorded.
Decided(c, q) == [what |-> q, saw |-> [d \in {c} |-> q.expected]]

DecidedStreams ==
  [c \in Candidates |-> [n \in 1 .. Len(history[c]) |-> Decided(c, history[c][n])]]

Succeeding ==
  {w \in Workers : At(w, "answer") /\ job[w].op = "decide" /\ job[w].status = "OK"}

Optimistic == INSTANCE OptimisticDecisions WITH
  Streams <- Candidates,
  streams <- DecidedStreams,
  receipts <- {<<job[w].candidate, job[w].request>> : w \in Succeeding},
  refused <- {}

\* Decisions about an equation are optimistic: each is recorded at most once and
\* directly after the revision its reviewer says to have seen, and who is answered
\* with success sent a decision that is recorded.
ImplementsOptimisticDecisions == Optimistic!Spec

==============================================================================
