# Verification of the Koios control API

This directory holds the TLA+ specifications of `projectkoios-api`, the FastAPI
service in `src/src/python/projectkoios/api`, the TLC configurations that check
them on small instances, and the TLAPS proofs of what matters most for every
instance. Paths below are relative to `src/src/python/projectkoios/api` unless
they begin with `src/`.

- [The system](#the-system)
- [Modules and how they correspond to the code](#modules-and-how-they-correspond-to-the-code)
- [Runs](#runs)
- [What is proved](#what-is-proved)
- [Disagreements found](#disagreements-found)
- [Assumptions about code outside the repository](#assumptions-about-code-outside-the-repository)
- [What is not modelled](#what-is-not-modelled)
- [Plan](#plan)
- [How to run](#how-to-run)

## The system

The API is one process with an event loop and a pool of threads. A route that is a
plain function runs in a thread of the pool; a coroutine runs in the event loop and
may be suspended at every `await`. The API keeps little state of its own: one SQLite
table, one bundle file it reads, and one fixed projection. Everything else belongs
to other packages (*applications*, *references*, *agent*) behind owner or provider
protocols, or to another program (the literature review) that writes the files the
API reads. There is almost no locking in the API. What makes it hard is therefore
always the same: a handler reads, checks, acts and reads again, and anything may
happen between two of these accesses, in another thread, in another process, or a
crash of this one.

| Component | Its state | Its operations | It interacts with | What is hard | What makes it correct |
| --- | --- | --- | --- | --- | --- |
| Citation review (`citation_review.py`) | bundle file (read), table `citation_decisions` (owned) | `queue`, `detail`, `decide`, source document | operator who replaces the bundle; SQLite | `decide` reads the bundle twice and the table once, then computes the revision in `BEGIN IMMEDIATE`; busy timeout; crash before or after commit | revisions are 1, 2, ... per claim; keys were candidates; an error leaves no row; answers do not go back in time |
| Equation review (`equation_review/`) | none; package and history of *applications* | `queue`, `decide`, region image | owner's queue and append | two queue readings around an append; optimistic revision; partial output; exact retry; assistance and rebuilds meanwhile | nobody decides over a decision they did not see; a conflict has recorded nothing; an answer is one's own decision and the latest |
| Citation documents and transcripts (`citation_document_owner.py`, `transcripts.py`, `transcript_owner.py`) | base projection (process lifetime); temporary files; custody, packages, registry of *applications* | catalog, upload, process, list of transcripts, transcript | custody, processing service, registry; the provider of one configured document | the registry is checked without a lock before a long action; competing results; partial publication; lost answers; a restart with another base projection; one provider of two that is malformed | an upload is judged by what was sent; nothing retried after a retained result; a retry is not its own conflict; competition never resolved by order; what the list offered opens |
| Organizer (`routers/organizer.py`) | cursors of open streams; catalog of *agent* | `status`, `control`, `events`, `events/stream` | the organizer, other controllers, browsers | limited batches while events pile up; disconnection at any await; reconnection with an old cursor | no event skipped; a control is answered by a status that knows it; streams of departed clients end |
| Project reference intake (`routers/project_reference_intake.py`) | temporary files; stores of *references* | list missing, upload and bind | receipt, then binding | bounded streaming with a length that may lie; receipt durable before binding fails; two uploads for one reference | only whole PDFs in custody; what was promised stays bound; a conflict is real |
| Course reference authority (`course_reference_authority.py`) | configuration; streams of *references* | queue, identity and asset preview and decision | owner's compare-and-set and request history | lost answers and repetition; evidence changing between display and decision | of two decisions one saw the other; a refusal was not recorded; a receipt is of the decision sent |
| Literature review (`literature_review.py`) | none; files of a run; store of *references* | progress, provide a reference, provided references | the review program; the reference store | a progress is a dozen separate file reads while files appear and the current output changes; two uploads of one PDF; the store's PDF and receipt are two writes, during which its coroutine blocks the event loop | one progress is of one output and not older than its request; a receipt stands and is the first only once |
| GitHub tasks (`github_tasks.py`) | none | dashboard | GitHub, through the program `gh` | up to four calls for each repository, which are no snapshot, may fail, and may hang until their timeout; pages | completeness flags do not lie; the failure of one repository hides no other |
| Server (uvicorn, starlette; `routers/`) | queue and threads of the pool; the event loop | runs plain routes in threads, coroutines in the loop | every component | a call that hangs holds a thread; a blocking coroutine holds everybody | every request is answered |
| Transcript review (`transcript_review.py`) | none | list, open | owner in *applications* | shape of foreign data | typed errors |
| Composition (`app.py`, `config.py`, `main.py`, `runtime/services.py`) | configuration, fixed at start | registers routers | environment | combinations of optional owners | a route exists exactly when it is configured |
| Public catalogs, core routes | none | read | static data | - | response models |
| Mypy plugin (`src/tools/`) | none | development tool | - | - | - |

The hazards, each at the line where it bites and with the property that would notice
it, are listed in `PROJECT.json`.

## Modules and how they correspond to the code

Every component that keeps or changes state has one module. In all of them the
actions of a request are its accesses to shared state, in the order the handler makes
them: what a handler computes between two accesses belongs to the action of the
earlier or later one. A variable `pc` says which access comes next and `job` what the
handler's local variables hold. Variables that are called *history* in a
declaration do not exist in the code; they record what has been shown or stored so
that a property can speak of it, and no guard of a handler reads them.
Definitions that begin with `\* Mutant:` are deliberate errors; the specifications do
not use them. Each of them replaces one definition to show that a
property notices it.

### DecisionLog

The abstract specification of a review store: per subject an append-only sequence of
decisions, and reviewers are told only entries of it at their own revision.
`CitationReview` and `EquationReview` implement it, both checked by TLC and proved.

### DocumentIntake

The abstract specification of an intake of documents: a document is kept before anything
is recorded of it, of two records that contradict each other the second is never made,
nothing is dropped, and clients are told only of what is recorded. Three components
implement it with different records:

| | `kept` | `records` | `Clashes` |
| --- | --- | --- | --- |
| `ProjectIntake` | whole PDFs in custody | bindings | two bindings of one reference or of one PDF |
| `CitationDocuments` | custody | terminal results | two results of one request |
| `ControlServer` (its `ProvidedReferences`) | `objects` | receipts | none |

All three are proved; the run `project_intake` checks the first.

### MonotonicReads

The abstract specification of what a client may rely on that is not told of every change
of a state: the state has one history, and what a client knows is a state of it, at its
own place, and never an earlier one than before. `OrganizerStream` implements it, checked
by TLC and proved: the history is the mode before the first event and after each.

### OptimisticDecisions

The abstract specification of decisions that are taken without a lock. A decision names the
lengths of the streams it follows, its own among them; it is recorded only while these are
their lengths, and at most once. Receipts are of recorded decisions; what was refused is not
recorded, neither before nor after. `CourseAuthority` implements it with decisions that follow
every stream of the course, `EquationReview` with decisions that follow the history of their
own candidate, and without refusals, because a request has no key there. An abstract entry is
the decision as its client sent it to the API.

### CitationReview

| Variable | Code |
| --- | --- |
| `bundle` | the JSON file `_bundle()` reads; `NoBundle` when it is absent, unreadable or invalid |
| `storeExists`, `rows` | the database file and the committed rows of `citation_decisions` |
| `lock` | SQLite's write lock, held from `BEGIN IMMEDIATE` to commit or rollback |
| `pc`, `job` | a pool thread inside `queue`, `detail` or `decide` |
| `issued` | the bound on decisions |
| `published`, `told`, `lost` | history |

`ReadBundle` and `ReadDecisions` are `queue()` and `detail()`; for `decide()` they are
the call `self.detail(claim_id)`, after which `ReadBundleAgain` is
`self._bundle().manuscript_sha256` with the validation of the request, `Initialize` is
`_initialize_decisions`, `Begin` is `BEGIN IMMEDIATE` with the `SELECT MAX`, and
`Commit`, `CommitFails` are the two ends of `with connection`. `StoreLocked` is the
busy timeout, which no handler maps; `StoreUnavailable` is the mapped 503.
`ReplaceBundle` and `Crash` may come between any two of them.

### EquationReview

| Variable | Code |
| --- | --- |
| `package` | evidence, mode and proposal of each candidate in the document package |
| `history`, `partial` | the whole revisions of each candidate, and those begun and not whole |
| `pc`, `job` | a thread inside `EquationReviewRepository.queue` or `.decide` |
| `told` | history |

`BindDecision` is the first queue reading with `_decision_binding`; `RenderRefused` is
`_owner_request`; `AppendRefused`, `AppendReplayed`, `AppendBegun`, `AppendBroken`,
`AppendDone` are the outcomes the adapter (`owner.py`) distinguishes; after the last two
`AppendReturns` accepts the receipt or refuses it, which is a `PARTIAL_OUTPUT` for a
revision that is durable and whole. `Refresh` is the second reading with the comparison. Hashes of a source, its evidence and its region are
one number, `evidence`; a LaTeX text and its rendered hashes are one of the five ways
`_owner_request` and the models tell them apart (`Renders`).

### CitationDocuments

| Variable | Code |
| --- | --- |
| `base` | the items of the base projection, read when the process starts |
| `custody`, `packages`, `results` | durable: PDFs in private custody, package directories whole or not, the registry of terminal results |
| `pc`, `job` | a request inside the upload route or a method of the owner |
| `uploads`, `issued` | the bounds on uploads and commands |
| `catalogs` | the projections clients were shown: a command names one of them |

A projection is identified by a hash of its content: what is merged into the base
projection after the process has started is a set of retained results, so a projection
identity *is* a base and such a set. An item belongs to one base snapshot, so after a
restart with another base a retained result may match no item of it.

`PostSource`, `ReadChunk`, `EndUpload`, `UploadFails` are `_receive_bounded_pdf`: content
type, declared length, one chunk per action counted before it is written, then the
observed length against the declared one and the PDF header. `CheckReceive`, `Receive` are
`receive_source`. `PostProcess`, `RefuseProcess`, `CheckProcess`, `ActionReplayed`,
`ActionRuns`, `Record` are `process_private` with the service's action, where `Record`
keeps the first result and answers with what is kept. `OwnerUnavailable` and `OwnerMalformed`
are the owner's failures with nothing new made durable; a receipt or a new result that the
response models refuse is a 502 after it became so (in `Receive`, `Record`). The 409 that
`process_private` answers to any other `TypeError` or `ValueError` needs values that a
projection or an intent refuses, and the model has none. `ReadCatalog` merges the registry
(`MatchesBase`, `ItemResponse`) and then lets the response model judge
(`HasConsistentOwnerStates`), which derives an item's state from statuses where the owner
derives it from identities. `ListConfigured`, `ListProcessed` and `ReadConfigured`,
`ReadTranscript` are the composite provider: the configured document first, then the
processed ones; a malformed configured document hides the rest, and one that both
have makes the list malformed.

### OrganizerStream

`mode` and `log` are the catalog; `Work` is everything the organizer and others do to
it. `Ask`, `SetMode`, `ReadStatus`, `Respond` are `GET /status` and `PUT /control`,
which sets the mode and then reads the status, as two calls of the provider.
`Poll`, `Send`, `Wake`, `Close` are the
generator of `GET /events/stream`: ask whether the client is there, read at most
`Limit` events after `sequence`, yield them one by one, sleep. `view` is what a
client that keeps to sequences makes of the answers; it is there to measure the routes
and is not code of the repository.

### ProjectIntake

`Post`, `ReadBlock`, `EndBody`, `CutOff` are the upload route: declared length, one
block of the body per action, counted before it is spooled, and the checks at its end
in their order. `Receive` and `Bind` are the two durable steps of the owner; `OwnerFails`
may come before either, so also between them; `Get` and `List` are
`missing_pdfs`. `SpoolFails` is an error of the temporary file, which nobody catches;
`BoundAnswers` are the answers to a durable binding: success, or an error of the owner's
result and its conversion. A block may bring any number of bytes; a file is its size and whether
it begins as a PDF does.

### CourseAuthority

A queue, item revision, projection, plan and preview are identified by hashes of what
they were made from, so a single `Snapshot` - the evidence and the length of every
stream - stands for all of them. `RequireBinding` is `_require_binding`, `Transport` the
transport requests, `Failure` the mapping of typed and untyped errors. `OwnReasons` are the
refusals that depend on data of the owner that is not modelled: an unknown course or item, an
inadmissible disposition; it may always answer one and has then recorded nothing. `Record` and
`Receipt` are two steps of one PUT, so that the owner or the process may fail between
them. What a client does with answers (`Respond`) follows from the contract: a preview
needs a queue, a decision needs a preview, and a decision without a receipt is
repeated with the same body and the same key.

### LiteratureProgress

One action per file that `progress()` reads: `CurrentOutput`, `LoadEvidence` and
`LoadAssessments` (one claim each), `LoadFrames`, `LoadManifest`; the rest of `progress` is
computed in the last. `Review` is the review program: it writes a claim's evidence
before its assessment, and a directory's modification time changes when a
file directly in it does, not in its subdirectories.

### GitHubTasks

`open`, `latest`, `jobs` are GitHub, and `Change` is whoever works there. `pc` is the call of
`gh` that is out: `ReadMetadata`, `ReadPulls`, `ReadLatestRun`, `ReadTasks` are the calls
`_read_repository` makes, in its order, each a snapshot of its own; a page is any
subset of at most `PageSize`. `CallFails` is every error `_read_repository_or_error`
turns into an entry of the dashboard, `TimesOut` is `TimeoutExpired`, and `CallRaises` is
an `OSError` other than a missing program, which nobody catches.

### ProvidedReferences

`objects` and `records` are the reference store. `Post`, `ReadChunk`, `EndBody` read the upload,
and `Close` closes its file, whether the body was read to its end or is too large;
`Refuse`, `Receive`, `KeepRecord` are `provide_reference`, which the coroutine calls
without awaiting, so from `Receive` to `KeepRecord` no other coroutine takes a step
(`LoopFree`), and this alone keeps two uploads of one PDF apart. `Get` and `List` are
`provided_references`, in a thread, which does run in between.

### ControlServer

The process: `queue` and `threads` are the pool starlette runs plain routes in, first come,
first served; `LoopFree` says when the event loop turns. It is composed of instances of
`GitHubTasks` (a plain route that holds its thread during every call of `gh`) and
`ProvidedReferences` (a coroutine that blocks the loop, and takes a thread for every
chunk of a spooled upload, the last empty one too, and for closing it: `NeedsThread`,
`UseFile`). Every action of the server is an action of one of them, with
what it does to the pool, or `TakeThread`. A crash ends both.

## Runs

`MC<module>.tla` gives the constants their values, in `MC<module>.cfg` or a variant of
it. No definition of a specification is replaced.

| Run | What it shows | Bounds, and why they suffice |
| --- | --- | --- |
| `citation_review` | `RevisionsContiguous`, `AnswersAreFresh`, `StoredKeysWereCandidates`, `RowsAccountedFor` (of every row and of the write lock), and refinement of `DecisionLog`, with bundle replacement, errors and crashes | 2 threads: all conflicts here are between a transaction and one other. 2 manuscripts that share a claim with other candidates, 2 decisions of 5 kinds. Threads are symmetric: nothing but `pc`, `job`, `lock` mentions them. |
| `citation_review_keys` | finding 1 | as `citation_review`, with fewer requests |
| `equation_review` | `DecisionsFollowWhatWasSeen`, `ConflictMeansNotRecorded`, `AcceptancesNameTheProposal`, the action property `DecideAnswersOwnLatest`, and refinement of `DecisionLog` | 2 threads, 1 candidate (candidates do not interact), 3 decisions with `MaxRevisions` 2, so that the bound of revisions is met; requests that compete, follow and are refused for each reason |
| `equation_review_partial` | finding 2 | two requests suffice |
| `citation_documents` | `UploadsJudged`, `ProcessedOnce`, `CatalogsFollowResults`, `OfferedTranscriptsOpen`, `CompetitionStands` | 2 symmetric threads; 2 items of which 1 is missing, each the base projection of some process; 2 PDFs that compete, one in custody already and one to upload; bodies at and beyond a limit of one chunk, one that is no PDF, and declared lengths absent, malformed, and from 0 to 2; 1 upload and 2 commands: two that compete, or one and its repetition. One PDF is both configured and processed. |
| `citation_documents_current` | finding 3 | both items missing, one base, 4 commands |
| `organizer_stream` | `NothingSkipped`, `ControlIsShown`, refinement of `MonotonicReads` (which contains `ViewIsExact`), and `EventsArrive`, `StreamsEnd` under fairness | one client (clients interact only through the catalog, and `Work` does there what others may), limit 2 and 3 events, so that more than a batch piles up |
| `project_intake` | `CustodyIsWhole`, `ConflictIsReal`, `ListsAreCurrent`, and refinement of `DocumentIntake` (which contains `PromisesKept`) | 2 requests; a required, an optional and an unknown reference; files below, at and beyond a limit of 2 bytes, in blocks of any size, and one that is no PDF |
| `literature_progress` | `ProgressIsOfOneOutput`, `ProgressIsNotBehind` | 1 reader (readers change nothing), 2 claims, 2 outputs: the smallest run in which outputs or claims can be mixed |
| `literature_progress_evidence` | finding 4 | one output is enough; two claims, because the loop makes room between readings |
| `control_server` | `DashboardIsTrue`, `ReceiptsStand`, and `RequestsAnswered` under fairness | 1 thread, so that one hanging call is the whole pool; a dashboard of 2 repositories, of which the second has never run a workflow; pages of 1, with 2 pull requests and 2 jobs, so that a page may be all, full or not all; 2 runs, 1 change on GitHub at any time; 2 requests about references for one claim, and 2 PDFs of which one is beyond the limit. A claim that is not one of the run's is not among the constants here, because with one the liveness check takes too long; `ReceiptsAlwaysStand` is proved with any claims. No symmetry, because of the liveness property. |
| `course_authority` | `DecisionsSeeEachOther`, `RefusedMeansNotRecorded`, `ReceiptsAreOfTheDecision` | 2 clients with one decision each and any number of repetitions, one item with both its streams, one change of evidence, one foreign course. Clients are symmetric and the properties do not tell them apart. |

Deadlock is checked in all runs.

Each run has `TypeOK` as well.

**Fairness.** Two runs have liveness properties.
`OrganizerStream!FairSpec` assumes that the event loop resumes a
coroutine that is ready (`WF` of `Step(c)`), and that a coroutine whose client has gone
finds that out at its next turn (`WF` of `~online[c] /\ Close(c)`).
`ControlServer!FairSpec` assumes that a free thread takes the first request that waits
(`WF` of `TakeThread`), and that whatever the process itself can do for a request it does
(`WF` of `ServeDashboard(r)` and `ServeReference(r)`): threads are scheduled, the loop
turns, and `subprocess.run` raises when its timeout is over, so that `TimesOut` comes if no
answer does. An upload of a reference is read from the file the framework has spooled it to
before the coroutine begins, so its end does not depend on the client. Nothing is assumed of `gh`'s answers, GitHub, reviewers,
operators, clients that come or go, the organizer, other packages or crashes: an error of
the owner may always come and never has to.

## What is proved

TLAPS proves the following for every value of the constants that satisfies the named
assumptions of the modules; the sets of workers, clients, claims, bundles and requests
may be infinite.

**CitationReviewProofs.** `RevisionsAreContiguous`: the revisions of a claim are
1, 2, ... without gap or repetition. That is not inductive: a row is inserted with a
revision computed in an earlier step. The inductive invariant `IInv` adds that whoever
stands before its commit holds the lock (`LockHolder`), and that its revision is
still the successor of the largest one (`RevisionIsNext`), which is so because nobody
inserts without the lock. `RevisionsContiguous` is kept as two halves,
`Complete` and `UniqueRows`. The existence of a largest revision is a lemma from the
contiguity itself, without finite sets.
`AnswersStayFresh`, `KeysWereCandidates` and `AllRowsAccountedFor` need a second invariant,
`HInv`, of what a worker holds against the history: the bundle it read was published, and
has the claim it is about; a request that was accepted was acceptable to that bundle
(`SeenInPlace`); what it answers are rows (`ShownAreRows`); and every row is about to be
answered, has been told, or is counted as lost (`Accounted`).
`Refinement`: the abstract log of a claim of a manuscript is the sequence whose r-th entry is
the row of revision r. That is a sequence at all because of `RevisionsAreContiguous`, and
`Commit` appends to it because of `RevisionIsNext` (`CommitRecords`); every other step leaves
the rows alone, and an answer tells only rows, by `ShownAreRows`.

**EquationReviewProofs.** All six properties of the run, among them the refinement of
`DecisionLog`. `IInv` says of each worker what holds where it stands
(`WorkerInv`): its request is valid from the first reading on; the position it has begun is
partial and is its own (`OneWriter`); a receipt names a whole revision with its own
decision; what it is about to answer is in the history. `HistoryInv` says of every
revision that it was sent after the one before it, is within the bound, and names the
displayed proposal. Exclusive claiming of a position makes `AppendDone` safe: between
`AppendBegun` and `AppendDone` nobody else appends for that candidate and no package
that would change its evidence is published. The refinement follows step by step:
`AppendDone` is `Record`, `Respond` is `Tell`, all else stutters.
`DecidesOptimistically` is the refinement of `OptimisticDecisions`: `AppendDone` is `Record`,
since the position was claimed when the revision was compared (`Claimed`), and success is
answered only of a decision in the history.

**OrganizerStreamProofs.** `NothingIsSkipped`, `ViewsAreExact`, `ControlsAreShown`. The
inductive invariant relates cursor, batch and view: a batch is the consecutive sequences
after the cursor and within the log, an online client's cursor is not ahead of its view,
and a view's mode is that of the log at its sequence. Lemmas state that `ModeAt` of a
prefix does not change when the log grows and how it changes by one event. `Refinement`:
an event appends one state to the history of modes (`HistoryGrows`), and what a client makes
of an answer, a page or an event of the stream is one abstract reading (`Learns`,
`LearningReads`).

**ProjectIntakeProofs.** All five properties of the run. The inductive invariant follows
an upload: while it is read, what was counted is what was spooled; what is handed to the
owner is whole; a document being bound is in custody. `OneToOne` says that
bindings clash nowhere. The key lemma is `RequestKept`: the stores only grow, by bindings
that clash with none (`StoresGrow`), and therefore the conflict a client is answered with
is still one when the answer arrives. `Conflict` itself, and not the weaker
`ConflictIsReal`, is what is inductive. `Refinement`: `Receive` is `Keep`, `Bind` is
`Record` where it binds, and what clients are told only grows by what is bound.

**CourseAuthorityProofs.** All four properties of the run. `OwnerInv` says that every
decision is kept as it was sent and where it belongs, and that of any two one saw the
other; a new one was sent from the present snapshot, so it saw all that are there.
`ClientInv` adds that the key of a command names its client, so that nobody else can
record what this client was refused.
`Refinement` is that of `OptimisticDecisions` (`RecordIsRecord`): when nothing is stale the
reviewer was shown every stream at its present length; a key not used yet is of a decision not
recorded yet; and it is not being refused, because that would be an answer to its own client,
whose call is still under way. `AnswersAreTrue` reads the answers off `IInv`.

**CitationDocumentsProofs.** All six properties of the run. `IInv` has what is durable
(`Shapes`, `Kept`: a result has its package, its PDF and no other result of its request; the
registry is finite, which cardinalities of competing results need), the bounds (`Within`),
what anybody has seen (`SeenInOrder`: any two readings of the registry are ordered by
inclusion), and what every worker holds where it stands (`Sound`: `Placed`, `Judged`,
`Processed`, `Shown`). A worker's part survives the steps of the others because custody,
packages and registry only grow (`Grows`). That no two catalogs offer different documents of
an item follows from the order: the sole verified document of a smaller reading is one of a
larger, and alone there or withdrawn. `Refinement`: `Receive` keeps, `Record` records where
its request has no result yet, and catalogs, lists and answers tell only what `IInv` knows to
be retained.

**LiteratureProgressProofs.** All three properties of the run. `LInv` says that what a reader
holds is of the one output it found current (`OfOutput`), that what was assessed at the time
of the request still is so (`Remembered`), and that a reader of the output of that time has
it of every claim it has passed (`CaughtUp`): files of an output once there stay, so a
reading may mix times but never outputs.

**ControlServerProofs.** `TypeCorrect`, `DashboardsAreTrue` and `ReceiptsAlwaysStand`. Lemmas
`TaskSteps` and `ReferenceSteps` show that every step of the server is a step of each
component or leaves it alone, so each has an invariant of its own. `GInv` says of every
repository of a dashboard being read whether it is done, partly read, or not yet begun, and
that what was read lies between what was open all the time (`steady`) and what was open at
some time (`ever`). `RInv` adds to the type invariant's "one call at most blocks the event
loop" that at `record` it is still known whether the receipt is new, and that of the requests
about to say it is new there is one at most and none once it was said (`FirstOnce`). `PInv` ties the pool to them: a request in a thread or the queue is at a point
where it needs one, and only once. `ServesDashboards` and `ServesReferences` say that the
server implements both components, so that whatever holds of them alone holds of them here;
`ReferencesAreAnIntake` composes the second with the refinement of `DocumentIntake`.
`NobodyIsForgotten` is the safety that `RequestsAnswered` rests on (`FInv`): a request under
way goes on by itself or waits in the queue, whoever has a thread goes on with it, and an
upload that blocks the event loop neither has nor awaits one, so threads and loop cannot
wait for each other. Its invariant says which points need the pool and which have left it
(`NeedsPool`, `LeftPool`).

Every theorem is about every instance. What it states is also checked by a run, except:
`ViewIsExact` and `PromisesKept`, which are parts of a refinement that a run checks; the
refinements of `DocumentIntake` by `CitationDocuments` and `ControlServer`, of
`OptimisticDecisions` by both its implementations, and of `GitHubTasks` and
`ProvidedReferences` by `ControlServer`; and `NobodyForgotten`. These TLC agreed with on the
instances of the runs before they were proved, and no run repeats it.

Only model-checked are the liveness properties (`EventsArrive`, `StreamsEnd`,
`RequestsAnswered`), which are out of the prover's reach.

## Disagreements found

Each is a run that TLC ends with a counterexample. None of them is about the model's
assumptions on other packages.

1. **A decision may be stored under a manuscript whose candidates were never its own**
   (`citation_review_keys`). `decide` takes candidates from `self.detail(claim_id)` and
   the manuscript from a second `self._bundle()` (`citation_review.py:143-144`). A bundle
   replaced in between gives a row under the new manuscript with keys of the old one.
   What does hold, and is checked, is the weaker `StoredKeysWereCandidates`.
2. **A whole append is answered as partial output** (`equation_review_partial`). When
   another reviewer's successor is recorded before the second reading, or an exact retry
   is of a revision that has a successor, `decide` raises `EquationReviewPartialOutput`
   (`equation_review/repository.py:122`), which `boundary.py:42` documents as a partial
   or invalid append.
3. **After the first retained result no other missing item can be processed**
   (`citation_documents_current`). The catalog answers with the identity of the merged
   projection; `process_private` compares with that of the base one
   (`citation_document_owner.py:209-211`). A command made from the current catalog is
   then a conflict.
4. **A healthy review is answered 503** (`literature_progress_evidence`). `progress`
   reads all evidence before the assessments; an evidence file and its assessment written
   in between make the assessment cite evidence the request has not seen.

## Assumptions about code outside the repository

The owners are modelled from how the API calls them and from its tests; `map` marks
those definitions external where no line of the repository stands for them.

- SQLite: `BEGIN IMMEDIATE` excludes other writers, readers see committed rows, an open
  transaction is rolled back after a crash.
- *applications*: an append claims its position exclusively, is whole or remains partial,
  and answers an exact retry with the existing revision; evidence of reviewed candidates
  does not change; custody is content-addressed; the registry retains the first terminal
  result of a request; there is one result of a request and a whole package with it if it
  succeeded.
- *references*: the store of provided references looks for the receipt, keeps the PDF and
  then the receipt; a binding is one to one; decisions are compare-and-set against the
  streams they name; the history of requests is looked at before anything is called
  stale; after it has recorded a decision the owner fails only with errors that are not
  typed.
- *agent*: every call of the catalog is one transaction; sequences have no gaps.
- `gh` and GitHub: one call sees one state; several do not. Runs and jobs are not deleted.
- The review program writes a file at once and whole, evidence before assessment.

## What is not modelled

- **Composition and configuration**: which routers a profile registers is decided once,
  sequentially, when the process starts; nothing changes or interleaves afterwards.
- **Server**: routes other than the dashboard and the provided references are modelled with
  a worker for each request and no pool. What `gh` prints beyond numbers, and the kind of
  an error (`error_kind`), are left out of `GitHubTasks`.
- **Transcript review, public catalogs, core routes**: reads without state of their own;
  their content is validation of shapes, which type checker and unit tests cover.
- **The mypy plugin**: not part of the running system.
- Throughout: wording, HTTP headers, OpenAPI decoration, hashing and canonical JSON
  (an identity stands for its content), authentication of the caller.

## Plan

Done, in this order: `DecisionLog`, `CitationReview`, `EquationReview`,
`CitationDocuments`, `OrganizerStream`, `ProjectIntake`, `LiteratureProgress`,
`CourseAuthority`; the upload, the transcripts and restarts of `CitationDocuments`;
`GitHubTasks` and `ProvidedReferences`, composed in `ControlServer`; proofs for all of them.

Every refinement of the abstract specifications `DecisionLog`, `DocumentIntake`,
`MonotonicReads` and `OptimisticDecisions` is proved.

Left:

1. More routes in `ControlServer`: the event stream and the upload of `CitationDocuments`,
   which take loop and threads from the same pool.
2. `BoundedUpload`: `ProjectIntake`, `CitationDocuments` and `ProvidedReferences` each bound an
   upload in their own way; one abstract upload that all three implement.
3. `AppComposition`: which routes each profile registers from which configuration.

## How to run

    tlc -workers 2 -config MCCitationReview.cfg MCCitationReview
    tlapm CitationReviewProofs.tla

The longest runs are `control_server` (whose liveness property takes most of two to three minutes),
`citation_review`, `citation_documents` and `course_authority` (one to two minutes each,
of up to 3 million distinct states); the others take about a minute at most.
