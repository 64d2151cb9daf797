---------------------------- MODULE CitationReview ----------------------------
(***************************************************************************)
(* The citation review of the control API (citation_review.py and its      *)
(* router).  A private bundle file, which the operator replaces while the  *)
(* API runs, says which candidate citations each claim of a manuscript     *)
(* has; decisions are rows of a SQLite table of the API's own.             *)
(*                                                                         *)
(* The routes are plain functions, so the server runs each request in a    *)
(* thread of a pool: Workers.  One action is one access to the bundle file *)
(* or one critical section of SQLite; what a thread computes between two   *)
(* accesses belongs to the action of the first.  A process crash may come  *)
(* anywhere; SQLite then rolls an open transaction back.                   *)
(***************************************************************************)
EXTENDS Naturals, Sequences, FiniteSets

CONSTANTS
  Workers,        \* threads that serve requests
  Manuscripts,    \* manuscript_sha256 values
  Claims,         \* claim identifiers
  CitationKeys,   \* citation keys a candidate may carry
  Bundles,        \* the bundle contents the operator puts in place
  NoBundle,       \* the bundle file is absent, unreadable or invalid
  NoWorker,       \* nobody holds the write lock
  Requests,       \* decision bodies reviewers send
  MaxDecides      \* bound: decision requests started

Dispositions ==
  {"ACCEPT_CITATION", "REJECT_CANDIDATES", "PARTIAL_SUPPORT", "CORPUS_GAP",
   "NO_CITATION_REQUIRED"}

\* A bundle lists, for each of its claims, the keys of the candidates shown.
\* Claim identifiers are unique in it, hence a function.
BundleContents ==
  [manuscript : Manuscripts,
   candidates : UNION {[C -> SUBSET CitationKeys] : C \in SUBSET Claims}]

Request == [disposition : Dispositions, selected : Seq(CitationKeys)]

Row ==
  [manuscript : Manuscripts, claim : Claims, revision : Nat \ {0},
   disposition : Dispositions, selected : Seq(CitationKeys)]

Operations == {"queue", "detail", "decide"}

Statuses == {"200", "404", "409", "500", "503"}

\* What a worker holds while it serves one request.
Job ==
  [op : Operations, claim : Claims, request : Request,
   seen : BundleContents \union {NoBundle},  \* the bundle of queue()/detail()
   target : Manuscripts,   \* manuscript_sha256 of the bundle read again
   revision : Nat,         \* the revision computed in the open transaction
   status : Statuses,      \* the answer
   shown : SUBSET Row,     \* the decisions in the answer
   floor : SUBSET Row]     \* history: told, when the request arrived

NoJob ==
  [op |-> "queue", claim |-> CHOOSE c \in Claims : TRUE,
   request |-> CHOOSE q \in Requests : TRUE, seen |-> NoBundle,
   target |-> CHOOSE m \in Manuscripts : TRUE, revision |-> 0,
   status |-> "200", shown |-> {}, floor |-> {}]

ASSUME ValuesAssumption ==
  Claims # {} /\ Manuscripts # {} /\ Requests # {}
ASSUME BundlesAssumption == Bundles \subseteq BundleContents
ASSUME NoBundleAssumption == NoBundle \notin Bundles
ASSUME NoWorkerAssumption == NoWorker \notin Workers
ASSUME RequestsAssumption == Requests \subseteq Request
ASSUME MaxDecidesAssumption == MaxDecides \in Nat

VARIABLES
  bundle,       \* the content of the bundle file, or NoBundle
  storeExists,  \* the decision database file exists
  rows,         \* the committed rows of citation_decisions
  lock,         \* the worker inside BEGIN IMMEDIATE, or NoWorker
  pc,           \* where each worker stands
  job,          \* what it holds
  issued,       \* decision requests started so far
  published,    \* history: every bundle that was ever in place
  told,         \* history: the rows reviewers were answered with
  lost          \* history: rows whose answer a crash swallowed

store == <<storeExists, rows, lock>>
history == <<published, told, lost>>
vars == <<bundle, store, pc, job, issued, history>>

Points ==
  {"idle", "bundle", "decisions", "bundle again", "initialize", "begin",
   "commit", "answer"}

-------------------------------------------------------------------------------
\* The table and the rules.

Revisions(m, c) ==
  {r.revision : r \in {x \in rows : x.manuscript = m /\ x.claim = c}}

\* SELECT MAX(revision), and 0 where it is NULL.
LastRevision(m, c) ==
  IF Revisions(m, c) = {}
  THEN 0
  ELSE CHOOSE n \in Revisions(m, c) : \A k \in Revisions(m, c) : k <= n

\* Mutant: the revision of a new row is the largest one there is.
RevisionNotIncremented(m, c) == LastRevision(m, c)

\* The number of the revision a transaction inserts.
NextRevision(m, c) == LastRevision(m, c) + 1

\* Mutant: the rows come in descending order, so the oldest one stays.
OldestDecisions(m) == {r \in rows : r.manuscript = m /\ r.revision = 1}

\* _decisions: the rows of a claim overwrite each other in the order of their
\* revisions, so the last one stays.
LatestDecisions(m) ==
  {r \in rows : r.manuscript = m /\ r.revision = LastRevision(m, r.claim)}

Selected(q) == {q.selected[i] : i \in 1 .. Len(q.selected)}

NoDuplicates(q) ==
  \A i, j \in 1 .. Len(q.selected) : q.selected[i] = q.selected[j] => i = j

RequiresSelection(q) ==
  q.disposition \in {"ACCEPT_CITATION", "PARTIAL_SUPPORT"}

\* Mutant: the keys are not compared with the candidates.
AnyKeysAccepted(b, c, q) ==
  /\ NoDuplicates(q)
  /\ RequiresSelection(q) <=> Selected(q) # {}

AcceptableRequest(b, c, q) ==
  /\ NoDuplicates(q)
  /\ Selected(q) \subseteq b.candidates[c]
  /\ RequiresSelection(q) <=> Selected(q) # {}

-------------------------------------------------------------------------------
Init ==
  /\ bundle \in Bundles \union {NoBundle}
  /\ storeExists = FALSE
  /\ rows = {}
  /\ lock = NoWorker
  /\ pc = [w \in Workers |-> "idle"]
  /\ job = [w \in Workers |-> NoJob]
  /\ issued = 0
  /\ published = {bundle} \ {NoBundle}
  /\ told = {}
  /\ lost = {}

At(w, point) == pc[w] = point

Goto(w, point) == pc' = [pc EXCEPT ![w] = point]

\* The handler's return or exception, mapped by the router to a status.
Answer(w, code, decisions) ==
  /\ Goto(w, "answer")
  /\ job' = [job EXCEPT ![w].status = code, ![w].shown = decisions]

\* The operator puts another bundle in place, or takes it away.
ReplaceBundle ==
  \E b \in Bundles \union {NoBundle} :
    /\ bundle' = b
    /\ published' = (published \union {b}) \ {NoBundle}
    /\ UNCHANGED <<store, pc, job, issued, told, lost>>

\* A request arrives and a thread of the pool takes it.
Start(w) ==
  /\ At(w, "idle")
  /\ \E o \in Operations, c \in Claims, q \in Requests :
       /\ o = "decide" => issued < MaxDecides
       /\ o # "decide" => q = NoJob.request
       /\ o = "queue" => c = NoJob.claim
       /\ issued' = IF o = "decide" THEN issued + 1 ELSE issued
       /\ job' = [job EXCEPT ![w] = [NoJob EXCEPT !.op = o, !.claim = c,
                                                  !.request = q,
                    !.floor = IF o = "decide" THEN {} ELSE told]]
  /\ Goto(w, "bundle")
  /\ UNCHANGED <<bundle, store, history>>

\* _bundle() raises: CitationReviewUnavailable, or an error that is none of those
\* it maps, such as that of a file which is not UTF-8.
BundleFails(w) ==
  /\ bundle = NoBundle
  /\ Answer(w, "503", {}) \/ Answer(w, "500", {})

\* _bundle() and, but for the queue, the lookup of the claim.
ReadBundle(w) ==
  /\ At(w, "bundle")
  /\ \/ BundleFails(w)
     \/ /\ bundle # NoBundle
        /\ job[w].op # "queue"
        /\ job[w].claim \notin DOMAIN bundle.candidates
        /\ Answer(w, "404", {})
     \/ /\ bundle # NoBundle
        /\ job[w].op = "queue" \/ job[w].claim \in DOMAIN bundle.candidates
        /\ job' = [job EXCEPT ![w].seen = bundle]
        /\ Goto(w, "decisions")
  /\ UNCHANGED <<bundle, store, issued, history>>

\* The claims an answer of this job covers.
Covered(w) ==
  IF job[w].op = "queue" THEN DOMAIN job[w].seen.candidates ELSE {job[w].claim}

\* _decisions(manuscript_sha256): nothing where the file does not exist.
\* decide() drops what detail() returns but for the candidates.
ReadDecisions(w) ==
  /\ At(w, "decisions")
  /\ IF job[w].op = "decide"
     THEN Goto(w, "bundle again") /\ UNCHANGED job
     ELSE Answer(w, "200",
            {r \in LatestDecisions(job[w].seen.manuscript) :
               r.claim \in Covered(w)})
  /\ UNCHANGED <<bundle, store, issued, history>>

\* decide(): the bundle is read a second time for its manuscript_sha256, then
\* the request is checked against the candidates of the first reading.
ReadBundleAgain(w) ==
  /\ At(w, "bundle again")
  /\ \/ BundleFails(w)
     \/ /\ bundle # NoBundle
        /\ ~AcceptableRequest(job[w].seen, job[w].claim, job[w].request)
        /\ Answer(w, "409", {})
     \/ /\ bundle # NoBundle
        /\ AcceptableRequest(job[w].seen, job[w].claim, job[w].request)
        /\ job' = [job EXCEPT ![w].target = bundle.manuscript]
        /\ Goto(w, "initialize")
  /\ UNCHANGED <<bundle, store, issued, history>>

\* _initialize_decisions: the file and the table exist afterwards.
Initialize(w) ==
  /\ At(w, "initialize")
  /\ storeExists' = TRUE
  /\ Goto(w, "begin")
  /\ UNCHANGED <<bundle, rows, lock, job, issued, history>>

\* Mutant: a plain BEGIN, which takes no lock until the INSERT.
BeginDeferred(w) ==
  /\ At(w, "begin")
  /\ job' = [job EXCEPT ![w].revision =
                          NextRevision(job[w].target, job[w].claim)]
  /\ Goto(w, "commit")
  /\ UNCHANGED <<bundle, store, issued, history>>

\* BEGIN IMMEDIATE takes SQLite's write lock; the revision is computed under it.
Begin(w) ==
  /\ At(w, "begin")
  /\ lock = NoWorker
  /\ lock' = w
  /\ job' = [job EXCEPT ![w].revision =
                          NextRevision(job[w].target, job[w].claim)]
  /\ Goto(w, "commit")
  /\ UNCHANGED <<bundle, storeExists, rows, issued, history>>

NewRow(w) ==
  [manuscript |-> job[w].target, claim |-> job[w].claim,
   revision |-> job[w].revision,
   disposition |-> job[w].request.disposition,
   selected |-> job[w].request.selected]

\* Mutant: an UPDATE of the claim's row, once there is one, in place of INSERT.
CommitUpdating(w) ==
  LET new == [NewRow(w) EXCEPT !.revision = 1]
  IN  /\ At(w, "commit")
      /\ rows' = {r \in rows : r.claim # new.claim \/ r.manuscript # new.manuscript}
                   \union {new}
      /\ lock' = NoWorker
      /\ Answer(w, "200", {new})
      /\ UNCHANGED <<bundle, storeExists, issued, history>>

\* INSERT, and the commit at the end of `with connection`.
Commit(w) ==
  /\ At(w, "commit")
  /\ rows' = rows \union {NewRow(w)}
  /\ lock' = NoWorker
  /\ Answer(w, "200", {NewRow(w)})
  /\ UNCHANGED <<bundle, storeExists, issued, history>>

\* Mutant: the connection commits by itself, so a late failure undoes nothing.
FailsAfterAutocommit(w) ==
  /\ At(w, "commit")
  /\ rows' = rows \union {NewRow(w)}
  /\ lock' = NoWorker
  /\ Answer(w, "500", {})
  /\ UNCHANGED <<bundle, storeExists, issued, history>>

\* INSERT or commit raises: `with connection` rolls back, the finally clause
\* closes the connection, and the exception leaves the router unmapped.
CommitFails(w) ==
  /\ At(w, "commit")
  /\ lock' = NoWorker
  /\ Answer(w, "500", {})
  /\ UNCHANGED <<bundle, storeExists, rows, issued, history>>

\* Another worker's transaction outlasts SQLite's busy timeout: no statement maps
\* that error.
StoreLocked(w) ==
  /\ pc[w] \in {"decisions", "initialize", "begin"}
  /\ lock \notin {NoWorker, w}
  /\ Answer(w, "500", {})
  /\ UNCHANGED <<bundle, store, issued, history>>

\* A symlink, the directory or the connection: CitationReviewUnavailable.
StoreUnavailable(w) ==
  /\ \/ At(w, "decisions") /\ storeExists
     \/ At(w, "initialize")
     \/ At(w, "begin")
  /\ Answer(w, "503", {})
  /\ UNCHANGED <<bundle, store, issued, history>>

\* The answer reaches the client.
Respond(w) ==
  /\ At(w, "answer")
  /\ told' = told \union job[w].shown
  /\ job' = [job EXCEPT ![w] = NoJob]
  /\ Goto(w, "idle")
  /\ UNCHANGED <<bundle, store, issued, published, lost>>

\* The rows w has committed and not answered with.
Unanswered(w) ==
  IF At(w, "answer") /\ job[w].op = "decide" THEN job[w].shown ELSE {}

\* The process dies and starts again: the requests are gone, an open
\* transaction is rolled back when the database is next opened.
Crash ==
  /\ lock' = NoWorker
  /\ pc' = [w \in Workers |-> "idle"]
  /\ job' = [w \in Workers |-> NoJob]
  /\ lost' = lost \union UNION {Unanswered(w) : w \in Workers}
  /\ UNCHANGED <<bundle, storeExists, rows, issued, published, told>>

Serve(w) ==
  \/ ReadBundle(w)
  \/ ReadDecisions(w)
  \/ ReadBundleAgain(w)
  \/ Initialize(w)
  \/ Begin(w)
  \/ Commit(w)
  \/ CommitFails(w)
  \/ StoreLocked(w)
  \/ StoreUnavailable(w)
  \/ Respond(w)

Next ==
  \/ ReplaceBundle
  \/ Crash
  \/ \E w \in Workers : Start(w) \/ Serve(w)

Spec == Init /\ [][Next]_vars

-------------------------------------------------------------------------------
\* Properties.

\* Every variable keeps its type: the shapes of the rows, of the answers and of
\* what a thread holds are those the pydantic models and the table declare.
TypeOK ==
  /\ bundle \in Bundles \union {NoBundle}
  /\ storeExists \in BOOLEAN
  /\ rows \subseteq Row
  /\ lock \in Workers \union {NoWorker}
  /\ pc \in [Workers -> Points]
  /\ job \in [Workers -> Job]
  /\ issued \in Nat
  /\ published \subseteq Bundles
  /\ told \subseteq Row
  /\ lost \subseteq Row

SameClaim(r, x) == r.manuscript = x.manuscript /\ r.claim = x.claim

\* However decide() calls interleave, fail and crash, the revisions of a claim
\* of a manuscript are 1, 2, ... without a gap, and no number is given twice:
\* the SELECT MAX and the INSERT of decide() act as one.
RevisionsContiguous ==
  /\ \A r \in rows : \A k \in 1 .. r.revision :
       \E x \in rows : SameClaim(r, x) /\ x.revision = k
  /\ \A r, x \in rows : SameClaim(r, x) /\ r.revision = x.revision => r = x

\* A queue or a detail never goes back in time: it shows, for every claim it
\* covers, a decision at least as recent as any that some reviewer had been
\* told of, for the same manuscript, before the request arrived.
AnswersAreFresh ==
  \A w \in Workers :
    At(w, "answer") /\ job[w].status = "200" /\ job[w].op # "decide" =>
      \A t \in job[w].floor :
        t.manuscript = job[w].seen.manuscript /\ t.claim \in Covered(w) =>
          \E r \in job[w].shown :
            r.claim = t.claim /\ r.revision >= t.revision

\* Every stored decision names a citation exactly when its disposition needs
\* one, and its keys were, all together, candidates of its claim in a bundle
\* that was in place: decide() lets no other request reach the table.
StoredKeysWereCandidates ==
  \A r \in rows :
    /\ r.disposition \in {"ACCEPT_CITATION", "PARTIAL_SUPPORT"} <=> r.selected # <<>>
    /\ \E b \in published :
         /\ r.claim \in DOMAIN b.candidates
         /\ {r.selected[i] : i \in DOMAIN r.selected} \subseteq b.candidates[r.claim]

\* A decision is in the table exactly when its reviewer was told its revision,
\* is about to be told it, or lost the answer in a crash of the process: an
\* answer with an error never leaves a row behind, and it does not leave the
\* write transaction open either, which would end all decisions.
RowsAccountedFor ==
  /\ rows = told \union lost \union UNION {Unanswered(w) : w \in Workers}
  /\ lock # NoWorker => At(lock, "commit")

DecisionOf(r) == [disposition |-> r.disposition, selected |-> r.selected]

RowAt(m, c, n) ==
  CHOOSE r \in rows : r.manuscript = m /\ r.claim = c /\ r.revision = n

Log == INSTANCE DecisionLog WITH
  Subjects <- Manuscripts \X Claims,
  Decisions <- Requests,
  log <- [s \in Manuscripts \X Claims |->
            [n \in 1 .. LastRevision(s[1], s[2]) |->
               DecisionOf(RowAt(s[1], s[2], n))]],
  told <- {<<<<r.manuscript, r.claim>>, r.revision, DecisionOf(r)>> : r \in told}

\* The table is an append-only log per claim of a manuscript, and whatever a
\* queue, a detail or a decide answers is an entry of it, at its own revision.
ImplementsDecisionLog == Log!Spec

\* What decide() says of the keys it accepts, "selected citation keys must come
\* from the displayed candidates", for the manuscript the decision is stored
\* and later shown under.
KeysComeFromOwnManuscript ==
  \A r \in rows :
    \E b \in published :
      /\ b.manuscript = r.manuscript
      /\ r.claim \in DOMAIN b.candidates
      /\ {r.selected[i] : i \in DOMAIN r.selected} \subseteq b.candidates[r.claim]

==============================================================================
