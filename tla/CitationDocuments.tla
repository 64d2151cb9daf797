--------------------------- MODULE CitationDocuments ---------------------------
(***************************************************************************)
(* The citation documents of the control API (citation_document_owner.py): *)
(* a catalog of cited works, of which some are missing; the upload of a    *)
(* PDF for a missing one into custody; its private processing, once; and   *)
(* the transcripts of what was processed, which CompositeTranscriptProvider*)
(* (transcripts.py) offers beside that of one configured document.         *)
(*                                                                         *)
(* Custody, packages and the registry of terminal results are durable and  *)
(* belong to another package, projectkoios applications.  The API checks   *)
(* the registry and then acts, in a thread of a pool and without a lock,   *)
(* so that two commands may pass the same check.                           *)
(*                                                                         *)
(* A process is started with a base projection, a set of items.  Each set  *)
(* of retained results merged into it makes another projection, and all    *)
(* are identified by their content.  An item is of one snapshot, so that   *)
(* another base projection may have none of the earlier one's items.       *)
(*                                                                         *)
(* A missing item has one resolved identity, and a document is named by    *)
(* the request that processes it, which the item and the PDF determine.    *)
(***************************************************************************)
EXTENDS Integers, FiniteSets

CONSTANTS
  Workers,      \* threads that serve requests
  Items,        \* items of base projections
  Missing,      \* those whose document was NOT_OBSERVED
  Bases,        \* the base projections a process may be started with
  Bodies,       \* the bodies an operator may upload
  Pdfs,         \* those that begin like a PDF
  Size,         \* the chunks of each
  Limit,        \* MAX_CITATION_DOCUMENT_PDF_BYTES, in chunks
  Held,         \* the PDFs in custody from earlier processes
  Declared,     \* the content lengths a request may declare
  Configured,   \* the document at the configured root, if there is one
  MaxUploads,   \* bound: uploads started
  MaxCommands   \* bound: process commands started

NoLength == -1   \* no content-length
BadLength == -2  \* one that is no natural number

Documents == Items \X Pdfs

ASSUME ValuesAssumption ==
  Items # {} /\ Pdfs # {} /\ Bases # {} /\ NoLength \in Declared
ASSUME ItemsAssumption == Missing \subseteq Items /\ Bases \subseteq SUBSET Items
ASSUME BodiesAssumption ==
  /\ Pdfs \subseteq Bodies
  /\ Size \in [Bodies -> Nat] /\ Limit \in Nat
  /\ Held \subseteq {p \in Pdfs : Size[p] <= Limit}
  /\ Declared \subseteq Nat \union {NoLength, BadLength}
ASSUME ConfiguredAssumption ==
  Configured = {} \/ \E d \in Documents : Configured = {d}
ASSUME BoundAssumption == MaxUploads \in Nat /\ MaxCommands \in Nat

Terminal == {"SUCCEEDED", "FAILED", "INDETERMINATE"}

\* A retained result of the registry.
Result == [item : Items, pdf : Pdfs, status : Terminal]

\* The projection of a base and the results merged into it; its own identity.
Projection == [base : SUBSET Items, results : SUBSET Result]

Operations == {"catalog", "receive", "process", "list", "transcript"}

Statuses ==
  Terminal \union {"OK", "INVALID", "NOT_FOUND", "CONFLICT", "TOO_LARGE",
                   "UNSUPPORTED", "FAILED", "MALFORMED", "UNAVAILABLE"}

\* What a worker holds while it serves a request.
Job ==
  [op : Operations, item : Items, pdf : Bodies,
   declared : Declared,
   read : Nat,                \* the chunks of the upload read so far
   expected : Projection,     \* expected_projection_id
   outcome : Terminal,        \* how the processing ended
   seen : SUBSET Result,      \* the results a catalog answers with
   listed : SUBSET Documents, \* the transcripts a list answers with
   status : Statuses,
   floor : SUBSET Result]     \* history: the results when the request arrived

NoJob ==
  [op |-> "catalog", item |-> CHOOSE i \in Items : TRUE,
   pdf |-> CHOOSE p \in Pdfs : TRUE, declared |-> NoLength, read |-> 0,
   expected |-> [base |-> {}, results |-> {}], outcome |-> "FAILED",
   seen |-> {}, listed |-> {}, status |-> "OK", floor |-> {}]

VARIABLES
  base,       \* the items of the base projection of this process
  custody,    \* the PDFs in private custody
  packages,   \* the <<item, pdf>> with a package directory, whole or not
  results,    \* the retained results of the registry
  pc,         \* where each worker stands
  job,        \* what it holds
  uploads,    \* uploads started so far
  issued,     \* process commands started so far
  catalogs    \* history: the projections clients were shown

durable == <<custody, packages, results>>
started == <<uploads, issued>>
vars == <<base, durable, pc, job, started, catalogs>>

Points ==
  {"idle", "catalog", "upload", "item", "custody", "process", "action",
   "record", "list", "collect", "transcript", "registry", "answer"}

-------------------------------------------------------------------------------
\* What a set R of retained results says of an item.

ResultsOf(R, i) == {r \in R : r.item = i}

Of(R, i, p) == {r \in R : r.item = i /\ r.pdf = p}

\* verified_successful_documents, and successful_document_ids of the registry.
Verified(R) == {<<r.item, r.pdf>> : r \in {s \in R : s.status = "SUCCEEDED"}}

\* The verified documents of an item, told by their identity.
VerifiedOf(R, i) == {<<r.item, r.pdf>> : r \in ResultsOf(R, i)} \intersect Verified(R)

\* _sole_verified_document_id
SoleVerified(R, i) == IF Cardinality(VerifiedOf(R, i)) = 1 THEN VerifiedOf(R, i) ELSE {}

\* allowed_actions has PROVIDE_PDF.
ProvidePdf(R, i) == i \in Missing /\ ResultsOf(R, i) = {}

\* technical_ingestion_status, null where results compete.
TechnicalStatus(R, i) ==
  IF ResultsOf(R, i) = {}
  THEN "NOT_REQUESTED"
  ELSE IF Cardinality(ResultsOf(R, i)) = 1
       THEN (CHOOSE r \in ResultsOf(R, i) : TRUE).status
       ELSE "null"

\* _item_response
ItemResponse(R, i) ==
  [technical |-> TechnicalStatus(R, i),
   transcript |-> VerifiedOf(R, i) # {},
   document |-> SoleVerified(R, i),
   actions |-> IF SoleVerified(R, i) # {} THEN {"OPEN_TRANSCRIPT"}
               ELSE IF ProvidePdf(R, i) THEN {"PROVIDE_PDF"} ELSE {}]

\* has_consistent_owner_states: the response model judges an item by the statuses
\* of its results.
HasConsistentOwnerStates(R, i, response) ==
  LET ok == {r \in ResultsOf(R, i) : r.status = "SUCCEEDED"}
  IN  /\ response.technical = TechnicalStatus(R, i)
      /\ response.transcript <=> ok # {}
      /\ response.document = IF Cardinality(ok) = 1
                             THEN {<<r.item, r.pdf>> : r \in ok} ELSE {}
      /\ response.actions = IF response.document # {} THEN {"OPEN_TRANSCRIPT"}
                            ELSE IF ProvidePdf(R, i) THEN {"PROVIDE_PDF"} ELSE {}

\* _base_item_for_result for every result: each is of an item of the base.
MatchesBase(R) == \A r \in R : r.item \in base

BaseProjection == [base |-> base, results |-> {}]

-------------------------------------------------------------------------------
Init ==
  /\ base \in Bases
  /\ custody = Held
  /\ packages = {}
  /\ results = {}
  /\ pc = [w \in Workers |-> "idle"]
  /\ job = [w \in Workers |-> NoJob]
  /\ uploads = 0
  /\ issued = 0
  /\ catalogs = {}

At(w, point) == pc[w] = point

Goto(w, point) == pc' = [pc EXCEPT ![w] = point]

Answer(w, code) ==
  /\ Goto(w, "answer")
  /\ job' = [job EXCEPT ![w].status = code]

Request(w, request) ==
  /\ At(w, "idle")
  /\ job' = [job EXCEPT ![w] = request]
  /\ UNCHANGED <<base, durable, catalogs>>

-------------------------------------------------------------------------------
\* Anything of the owner fails: OWNER_UNAVAILABLE, or unexpectedly OWNER_FAILURE.
OwnerUnavailable(w) ==
  /\ pc[w] \notin {"idle", "upload", "answer"}
  /\ Answer(w, "UNAVAILABLE")
  /\ UNCHANGED <<base, durable, started, catalogs>>

\* What the owner returns or reads is refused by a response model, with nothing
\* done yet; a catalog is judged where it is read.
OwnerMalformed(w) ==
  /\ pc[w] \in {"custody", "process", "action", "record", "collect", "registry"}
  /\ Answer(w, "MALFORMED")
  /\ UNCHANGED <<base, durable, started, catalogs>>

\* GET /citation-documents
GetCatalog(w) ==
  /\ Request(w, [NoJob EXCEPT !.floor = results])
  /\ Goto(w, "catalog")
  /\ UNCHANGED started

\* Mutant: the catalog is the projection the process started with.
ReadCatalogAsBuilt(w) ==
  /\ At(w, "catalog")
  /\ job' = [job EXCEPT ![w].seen = {}]
  /\ Goto(w, "answer")
  /\ UNCHANGED <<base, durable, started, catalogs>>

\* read_catalog: the registry's results are merged into a fresh projection, which
\* the response model accepts.
ReadCatalog(w) ==
  /\ At(w, "catalog")
  /\ job' = [job EXCEPT
       ![w].seen = results,
       ![w].status =
         IF /\ MatchesBase(results)
            /\ \A i \in base : HasConsistentOwnerStates(results, i, ItemResponse(results, i))
         THEN "OK" ELSE "MALFORMED"]
  /\ Goto(w, "answer")
  /\ UNCHANGED <<base, durable, started, catalogs>>

-------------------------------------------------------------------------------
\* POST /citation-documents/{item_id}/source, and _receive_bounded_pdf up to the
\* first chunk: the content type and the content-length.
PostSource(w) ==
  /\ uploads < MaxUploads
  /\ uploads' = uploads + 1
  /\ \E i \in Items, b \in Bodies, n \in Declared, code \in Statuses :
       /\ \/ code = "UNSUPPORTED"
          \/ code = "INVALID" /\ n = BadLength
          \/ code = "TOO_LARGE" /\ n > Limit
          \/ code = "OK" /\ n # BadLength /\ n <= Limit
       /\ Request(w, [NoJob EXCEPT !.op = "receive", !.item = i, !.pdf = b,
                                   !.declared = n, !.status = code])
       /\ Goto(w, IF code = "OK" THEN "upload" ELSE "answer")
  /\ UNCHANGED issued

\* Mutant: a body at the limit is too large.
ReadChunkBelowLimit(w) ==
  LET read == job[w].read + 1
  IN  /\ At(w, "upload")
      /\ job[w].read < Size[job[w].pdf]
      /\ job' = [job EXCEPT ![w].read = read,
                   ![w].status = IF read >= Limit THEN "TOO_LARGE" ELSE "OK"]
      /\ IF read >= Limit THEN Goto(w, "answer") ELSE UNCHANGED pc
      /\ UNCHANGED <<base, durable, started, catalogs>>

\* A chunk is counted and, within the limit, written to the temporary file.
ReadChunk(w) ==
  LET read == job[w].read + 1
  IN  /\ At(w, "upload")
      /\ job[w].read < Size[job[w].pdf]
      /\ job' = [job EXCEPT ![w].read = read,
                   ![w].status = IF read > Limit THEN "TOO_LARGE" ELSE "OK"]
      /\ IF read > Limit THEN Goto(w, "answer") ELSE UNCHANGED pc
      /\ UNCHANGED <<base, durable, started, catalogs>>

\* The body ends: it has the declared length and begins like a PDF.
EndUpload(w) ==
  /\ At(w, "upload")
  /\ job[w].read = Size[job[w].pdf]
  /\ IF job[w].declared \in {NoLength, job[w].read} /\ job[w].pdf \in Pdfs
     THEN Goto(w, "item") /\ UNCHANGED job
     ELSE Answer(w, "INVALID")
  /\ UNCHANGED <<base, durable, started, catalogs>>

\* The client disconnects or the temporary file cannot be written.
UploadFails(w) ==
  /\ At(w, "upload")
  /\ Answer(w, "FAILED")
  /\ UNCHANGED <<base, durable, started, catalogs>>

\* receive_source: a missing item without a retained result.
CheckReceive(w) ==
  /\ At(w, "item")
  /\ IF job[w].item \notin base
     THEN Answer(w, "NOT_FOUND")
     ELSE IF ProvidePdf(results, job[w].item)
          THEN Goto(w, "custody") /\ UNCHANGED job
          ELSE Answer(w, "CONFLICT")
  /\ UNCHANGED <<base, durable, started, catalogs>>

\* custody.receive, content-addressed; a failure leaves nothing behind.  Its limit
\* is that of the upload, as _require_owner_contracts makes sure.  _receipt_response
\* may refuse the receipt of a PDF that is in custody by now.
Receive(w) ==
  /\ At(w, "custody")
  /\ custody' = custody \union {job[w].pdf}
  /\ \E code \in {"OK", "MALFORMED"} : Answer(w, code)
  /\ UNCHANGED <<base, packages, results, started, catalogs>>

-------------------------------------------------------------------------------
\* POST /citation-documents/{item_id}/process-private, with the projection of a
\* catalog a client was shown.
PostProcess(w) ==
  /\ \E i \in Items, p \in Pdfs, e \in catalogs :
       Request(w, [NoJob EXCEPT !.op = "process", !.item = i, !.pdf = p, !.expected = e,
                               !.floor = results])
  /\ issued < MaxCommands
  /\ issued' = issued + 1
  /\ Goto(w, "process")
  /\ UNCHANGED uploads

\* _receive_process_request refuses the body, by any of its codes, or
\* _receipt_from_request the receipt.
RefuseProcess(w) ==
  /\ At(w, "process")
  /\ Answer(w, "INVALID")
  /\ UNCHANGED <<base, durable, started, catalogs>>

\* Mutant: a retained result does not matter.
NeverRelated(w) == FALSE

\* related_request_ids, without the id of this request among them.
RelatedConflict(w) ==
  /\ ResultsOf(results, job[w].item) # {}
  /\ Of(results, job[w].item, job[w].pdf) = {}

\* Mutant: an item whose document is at hand is processed as well.
CheckProcessAnyItem(w) ==
  /\ At(w, "process")
  /\ IF job[w].item \notin base
     THEN Answer(w, "NOT_FOUND")
     ELSE IF job[w].expected # BaseProjection \/ RelatedConflict(w)
          THEN Answer(w, "CONFLICT")
          ELSE Goto(w, "action") /\ UNCHANGED job
  /\ UNCHANGED <<base, durable, started, catalogs>>

\* process_private up to the service's action: a missing item, the identity of
\* the base projection, and no result of another request.
CheckProcess(w) ==
  /\ At(w, "process")
  /\ IF job[w].item \notin base
     THEN Answer(w, "NOT_FOUND")
     ELSE IF \/ job[w].item \notin Missing
             \/ job[w].expected # BaseProjection
             \/ RelatedConflict(w)
          THEN Answer(w, "CONFLICT")
          ELSE Goto(w, "action") /\ UNCHANGED job
  /\ UNCHANGED <<base, durable, started, catalogs>>

\* service.action finds the result of this very request.
ActionReplayed(w) ==
  /\ At(w, "action")
  /\ \E r \in Of(results, job[w].item, job[w].pdf) : Answer(w, r.status)
  /\ UNCHANGED <<base, durable, started, catalogs>>

\* service.action runs: extraction fails, or the package directory, claimed
\* exclusively, is published wholly, partly or by somebody else.
ActionRuns(w) ==
  LET d == <<job[w].item, job[w].pdf>>
  IN  /\ At(w, "action")
      /\ Of(results, job[w].item, job[w].pdf) = {}
      /\ job[w].pdf \in custody
      /\ \E o \in Terminal :
           /\ d \in packages => o # "SUCCEEDED"
           /\ packages' = IF o = "FAILED" THEN packages ELSE packages \union {d}
           /\ job' = [job EXCEPT ![w].outcome = o]
      /\ Goto(w, "record")
      /\ UNCHANGED <<base, custody, results, started, catalogs>>

Outcome(w) == [item |-> job[w].item, pdf |-> job[w].pdf, status |-> job[w].outcome]

\* Mutant: a new result of an item supersedes its others.
RecordLatest(w) ==
  /\ At(w, "record")
  /\ results' = (results \ ResultsOf(results, job[w].item)) \union {Outcome(w)}
  /\ Answer(w, job[w].outcome)
  /\ UNCHANGED <<base, custody, packages, started, catalogs>>

\* The registry retains the first result of a request, and it is the answer, unless
\* _process_response refuses it.
Record(w) ==
  /\ At(w, "record")
  /\ \/ /\ Of(results, job[w].item, job[w].pdf) = {}
        /\ results' = results \union {Outcome(w)}
        /\ \E code \in {job[w].outcome, "MALFORMED"} : Answer(w, code)
     \/ /\ UNCHANGED results
        /\ \E r \in Of(results, job[w].item, job[w].pdf) : Answer(w, r.status)
  /\ UNCHANGED <<base, custody, packages, started, catalogs>>

-------------------------------------------------------------------------------
\* GET /transcripts
GetList(w) ==
  /\ Request(w, [NoJob EXCEPT !.op = "list", !.floor = results])
  /\ Goto(w, "list")
  /\ UNCHANGED started

\* GET /transcripts/{document_id}
GetTranscript(w) ==
  /\ \E i \in Items, p \in Pdfs :
       Request(w, [NoJob EXCEPT !.op = "transcript", !.item = i, !.pdf = p,
                               !.floor = results])
  /\ Goto(w, "transcript")
  /\ UNCHANGED started

\* The package at the configured root is malformed: it hides what comes after it.
ConfiguredMalformed(w) ==
  /\ pc[w] \in {"list", "transcript"}
  /\ Configured # {}
  /\ Answer(w, "MALFORMED")
  /\ UNCHANGED <<base, durable, started, catalogs>>

\* TranscriptRepository.read_collection
ListConfigured(w) ==
  /\ At(w, "list")
  /\ job' = [job EXCEPT ![w].listed = Configured]
  /\ Goto(w, "collect")
  /\ UNCHANGED <<base, durable, started, catalogs>>

\* has_unique_documents of two collections, of which each has them.
Unique(collection, other) == collection \intersect other = {}

\* read_transcript_collection; both collections become one, if no document is twice.
ListProcessed(w) ==
  /\ At(w, "collect")
  /\ job' = [job EXCEPT
       ![w].listed = @ \union Verified(results),
       ![w].status = IF Unique(job[w].listed, Verified(results))
                     THEN "OK" ELSE "MALFORMED"]
  /\ Goto(w, "answer")
  /\ UNCHANGED <<base, durable, started, catalogs>>

\* TranscriptRepository.read_document; not found, the next provider is asked.
ReadConfigured(w) ==
  /\ At(w, "transcript")
  /\ IF <<job[w].item, job[w].pdf>> \in Configured
     THEN Answer(w, "OK")
     ELSE Goto(w, "registry") /\ UNCHANGED job
  /\ UNCHANGED <<base, durable, started, catalogs>>

\* Mutant: the transcript of any package there is.
ReadAnyPackage(w) ==
  /\ At(w, "registry")
  /\ Answer(w, IF <<job[w].item, job[w].pdf>> \in packages THEN "OK" ELSE "NOT_FOUND")
  /\ UNCHANGED <<base, durable, started, catalogs>>

\* read_transcript: a document the registry has as successful.
ReadTranscript(w) ==
  /\ At(w, "registry")
  /\ Answer(w, IF <<job[w].item, job[w].pdf>> \in Verified(results)
               THEN "OK" ELSE "NOT_FOUND")
  /\ UNCHANGED <<base, durable, started, catalogs>>

-------------------------------------------------------------------------------
\* The answer reaches the client.
Respond(w) ==
  /\ At(w, "answer")
  /\ catalogs' = IF job[w].op = "catalog" /\ job[w].status = "OK"
                 THEN catalogs \union {[base |-> base, results |-> job[w].seen]}
                 ELSE catalogs
  /\ job' = [job EXCEPT ![w] = NoJob]
  /\ Goto(w, "idle")
  /\ UNCHANGED <<base, durable, started>>

\* The process dies and is started again, perhaps with another base projection.
Crash ==
  /\ base' \in Bases
  /\ pc' = [w \in Workers |-> "idle"]
  /\ job' = [w \in Workers |-> NoJob]
  /\ UNCHANGED <<durable, started, catalogs>>

Ask(w) ==
  GetCatalog(w) \/ PostSource(w) \/ PostProcess(w) \/ GetList(w) \/ GetTranscript(w)

Upload(w) ==
  \/ ReadChunk(w) \/ EndUpload(w) \/ UploadFails(w)
  \/ CheckReceive(w) \/ Receive(w)

Process(w) ==
  RefuseProcess(w) \/ CheckProcess(w) \/ ActionReplayed(w) \/ ActionRuns(w) \/ Record(w)

Read(w) ==
  \/ ReadCatalog(w)
  \/ ConfiguredMalformed(w) \/ ListConfigured(w) \/ ListProcessed(w)
  \/ ReadConfigured(w) \/ ReadTranscript(w)

Next ==
  \/ Crash
  \/ \E w \in Workers :
       \/ Ask(w) \/ Upload(w) \/ Process(w) \/ Read(w)
       \/ OwnerUnavailable(w) \/ OwnerMalformed(w) \/ Respond(w)

Spec == Init /\ [][Next]_vars

-------------------------------------------------------------------------------
\* Properties.

\* Every variable keeps its type; and whatever was processed is a missing item
\* and a PDF in custody, has one result, and a package unless it failed.
TypeOK ==
  /\ base \in Bases
  /\ custody \subseteq Pdfs
  /\ packages \subseteq Documents
  /\ results \subseteq Result
  /\ pc \in [Workers -> Points]
  /\ job \in [Workers -> Job]
  /\ uploads \in 0 .. MaxUploads
  /\ issued \in 0 .. MaxCommands
  /\ catalogs \subseteq Projection
  /\ \A r \in results :
       /\ r.item \in Missing /\ r.pdf \in custody
       /\ Of(results, r.item, r.pdf) = {r}
       /\ r.status # "FAILED" => <<r.item, r.pdf>> \in packages

\* An upload is judged by what was sent: what is kept is a whole PDF within the
\* limit, as long as its request declared; and nothing else is refused as too
\* large or as invalid, up to the last chunk that fits.
UploadsJudged ==
  /\ \A p \in custody : Size[p] <= Limit
  /\ \A w \in Workers :
       LET size == Size[job[w].pdf]
           declared == job[w].declared
           short == declared \in {NoLength, size}
       IN  At(w, "answer") /\ job[w].op = "receive" =>
             CASE job[w].status = "OK" -> job[w].pdf \in custody /\ short
               [] job[w].status = "TOO_LARGE" -> size > Limit \/ declared > Limit
               [] job[w].status = "INVALID" -> job[w].pdf \notin Pdfs \/ ~short
               [] OTHER -> TRUE

\* Once an item has a retained result, no command that arrives later processes
\* another PDF for it, be the result a failure or indeterminate: nothing is
\* retried.  Commands that were under way already may still compete.  But a
\* client that lost the answer may send its command again: it is not refused for
\* the result it made itself.
ProcessedOnce ==
  \A w \in Workers :
    LET earlier == ResultsOf(job[w].floor, job[w].item)
        own == Of(job[w].floor, job[w].item, job[w].pdf)
    IN  /\ At(w, "record") => earlier = {}
        /\ /\ At(w, "answer") /\ job[w].op = "process"
           /\ job[w].expected = BaseProjection /\ own # {}
           => job[w].status # "CONFLICT"

\* What a client is told of a processing is what the registry retains, also when
\* the command ran twice at a time, and no catalog and no list of transcripts
\* asked for later misses it.  The catalog is refused as malformed by its own
\* model only when the process was started with a base projection that lacks the
\* item of a retained result.
CatalogsFollowResults ==
  \A w \in Workers :
    LET q == job[w]
        ok == q.status = "OK"
    IN  At(w, "answer") =>
          /\ q.op = "process" /\ q.status \in Terminal =>
               Of(results, q.item, q.pdf) = {[item |-> q.item, pdf |-> q.pdf, status |-> q.status]}
          /\ q.op = "catalog" /\ ok => q.floor \subseteq q.seen
          /\ q.op = "catalog" /\ q.status = "MALFORMED" => ~MatchesBase(results)
          /\ q.op = "list" /\ ok => Configured \union Verified(q.floor) \subseteq q.listed

\* The transcripts on offer, by the only successful result of an item in a catalog
\* or by a list, are there ever after, even when a competing result has since
\* taken the offer back; and no transcript is served of a processing that failed,
\* is indeterminate or never ended.
OfferedTranscriptsOpen ==
  /\ \A P \in catalogs : \A i \in Items : SoleVerified(P.results, i) \subseteq Verified(results)
  /\ \A w \in Workers :
       LET d == <<job[w].item, job[w].pdf>>
           open == Configured \union Verified(results)
       IN  At(w, "answer") =>
             /\ job[w].op = "list" /\ job[w].status = "OK" => job[w].listed \subseteq open
             /\ job[w].op = "transcript" /\ job[w].status = "OK" => d \in open
             /\ job[w].op = "transcript" /\ job[w].status = "NOT_FOUND" =>
                  d \notin Configured \union Verified(job[w].floor)

\* Competing results are never resolved by the order they came in: what a catalog
\* has shown is retained, and no two catalogs offer different transcripts of an
\* item.
CompetitionStands ==
  /\ \A P \in catalogs : P.results \subseteq results
  /\ \A P, Q \in catalogs : \A i \in Items :
       LET p == SoleVerified(P.results, i)
           q == SoleVerified(Q.results, i)
       IN  p # {} /\ q # {} => p = q

Retainable == [item : Missing, pdf : Pdfs, status : Terminal]

Intake == INSTANCE DocumentIntake WITH
  Documents <- {p \in Pdfs : Size[p] <= Limit},
  Records <- Retainable,
  DocumentOf <- [r \in Retainable |-> r.pdf],
  Clashes <- {c \in Retainable \X Retainable :
                c[1].item = c[2].item /\ c[1].pdf = c[2].pdf /\ c[1].status # c[2].status},
  kept <- custody,
  records <- results,
  told <- UNION {P.results : P \in catalogs}

\* Custody and the registry are one intake: a PDF is in custody before a result of
\* its processing is retained, no request is ever retained with two outcomes,
\* however commands for it race, and catalogs show what is retained.
ImplementsDocumentIntake == Intake!Spec

\* What the documentation says of process-private, "binds the current
\* projection", and of the catalog, "exact permitted actions": a command made
\* from a catalog that is still current, for an item it asks a PDF for, is not
\* refused as a conflict.
CurrentCatalogAccepted ==
  \A w \in Workers :
    /\ At(w, "answer")
    /\ job[w].op = "process"
    /\ job[w].expected = [base |-> base, results |-> results]
    /\ results = job[w].floor
    /\ ProvidePdf(results, job[w].item)
    => job[w].status # "CONFLICT"

==============================================================================
