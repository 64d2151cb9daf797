--------------------------- MODULE ProvidedReferences ---------------------------
(***************************************************************************)
(* The references a reader provides for a claim of a literature review     *)
(* (literature_review.py): a PDF is uploaded, and a receipt kept of it     *)
(* under the claim; the same PDF for the same claim is a duplicate.        *)
(*                                                                         *)
(* The upload is a coroutine.  It reads its body chunk by chunk and closes *)
(* the file, awaiting each, and then calls the store without awaiting      *)
(* anything: until that call returns the event loop runs nothing else, and *)
(* this is all that keeps two uploads apart.  The store, of the references *)
(* package, keeps the PDF first and then the receipt.  The list is read in *)
(* a thread.                                                               *)
(*                                                                         *)
(* The size of a PDF is the chunks it takes; a receipt is identified by    *)
(* its claim and its PDF.                                                  *)
(***************************************************************************)
EXTENDS Naturals, FiniteSets

CONSTANTS
  Requests,    \* requests the server can hold at a time
  Claims,      \* the claims a request may name
  RunClaims,   \* those of the configured run
  Pdfs,        \* the PDFs a reader may provide
  Size,        \* the chunks of each
  Limit,       \* _MAX_REFERENCE_BYTES, in chunks
  MaxReceipts  \* bound: uploads

Receipt == Claims \X Pdfs

Statuses == {"OK", "UNSUPPORTED", "TOO_LARGE", "INVALID", "UNAVAILABLE"}

\* What the server holds for a request.
Job ==
  [op : {"post", "list"},
   claim : Claims, pdf : Pdfs,
   read : Nat,               \* the chunks of the body read so far
   duplicate : BOOLEAN,
   seen : SUBSET Receipt,    \* the receipts a list answers with
   status : Statuses,
   floor : SUBSET Receipt]   \* history: what was told when the request arrived

NoJob ==
  [op |-> "list", claim |-> CHOOSE c \in Claims : TRUE, pdf |-> CHOOSE p \in Pdfs : TRUE,
   read |-> 0, duplicate |-> FALSE, seen |-> {}, status |-> "OK", floor |-> {}]

VARIABLES
  objects,   \* the PDFs in the store of the run
  records,   \* its receipts
  pc,        \* where each request stands
  job,       \* what it holds
  received,  \* uploads so far
  told,      \* history: the receipts clients were told
  firsts     \* history: how often one was told to be no duplicate

store == <<objects, records>>
history == <<told, firsts>>
vars == <<store, pc, job, received, history>>

Points == {"idle", "body", "close", "provide", "record", "list", "answer"}

Init ==
  /\ objects = {}
  /\ records = {}
  /\ pc = [r \in Requests |-> "idle"]
  /\ job = [r \in Requests |-> NoJob]
  /\ received = 0
  /\ told = {}
  /\ firsts = [x \in Receipt |-> 0]

At(r, point) == pc[r] = point

Goto(r, point) == pc' = [pc EXCEPT ![r] = point]

Answer(r, code) ==
  /\ job' = [job EXCEPT ![r].status = code]
  /\ Goto(r, "answer")

\* No coroutine is in the middle of the store's call, so another one may run.
LoopFree == \A r \in Requests : ~At(r, "record")

ReceiptOf(r) == <<job[r].claim, job[r].pdf>>

-------------------------------------------------------------------------------
\* POST /literature-review/references; another content type is refused.
Post(r) ==
  /\ At(r, "idle")
  /\ LoopFree
  /\ received < MaxReceipts
  /\ received' = received + 1
  /\ \E c \in Claims, p \in Pdfs, code \in {"OK", "UNSUPPORTED"} :
       /\ job' = [job EXCEPT ![r] = [NoJob EXCEPT !.op = "post", !.claim = c, !.pdf = p,
                                                  !.status = code, !.floor = told]]
       /\ Goto(r, IF code = "OK" THEN "body" ELSE "answer")
  /\ UNCHANGED <<store, history>>

\* A chunk of the body, counted and kept; beyond the limit the rest is not read.
ReadChunk(r) ==
  LET read == job[r].read + 1
  IN  /\ At(r, "body")
      /\ job[r].read < Size[job[r].pdf]
      /\ job' = [job EXCEPT ![r] =
                   [job[r] EXCEPT !.read = read,
                                  !.status = IF read > Limit THEN "TOO_LARGE" ELSE "OK"]]
      /\ IF read > Limit THEN Goto(r, "close") ELSE UNCHANGED pc
      /\ UNCHANGED <<store, received, history>>

\* An empty chunk ends the body.
EndBody(r) ==
  /\ At(r, "body")
  /\ job[r].read = Size[job[r].pdf]
  /\ Goto(r, "close")
  /\ UNCHANGED <<store, job, received, history>>

\* The file is closed, whether the body was read or refused.
Close(r) ==
  /\ At(r, "close")
  /\ Goto(r, IF job[r].status = "OK" THEN "provide" ELSE "answer")
  /\ UNCHANGED <<store, job, received, history>>

\* provide_reference fails before it has kept a receipt: the run or the store is not
\* available, or the claim, a label or the PDF is refused.
Refuse(r) ==
  /\ \/ At(r, "provide") /\ LoopFree
     \/ At(r, "record")
  /\ \/ Answer(r, "UNAVAILABLE")
     \/ At(r, "provide") /\ Answer(r, "INVALID")
  /\ UNCHANGED <<store, received, history>>

\* Mutant: the store is called in a thread of the pool, as elsewhere.
ReceiveInThread(r) ==
  /\ At(r, "provide")
  /\ job[r].claim \in RunClaims
  /\ objects' = objects \union {job[r].pdf}
  /\ job' = [job EXCEPT ![r].duplicate = ReceiptOf(r) \in records]
  /\ Goto(r, "record")
  /\ UNCHANGED <<records, received, history>>

\* provide_reference, for a claim of the run: ProvidedReferenceIntakeStore.receive
\* looks for the receipt and keeps the PDF.  The event loop is blocked from here on.
Receive(r) ==
  /\ At(r, "provide")
  /\ LoopFree
  /\ job[r].claim \in RunClaims
  /\ objects' = objects \union {job[r].pdf}
  /\ job' = [job EXCEPT ![r].duplicate = ReceiptOf(r) \in records]
  /\ Goto(r, "record")
  /\ UNCHANGED <<records, received, history>>

\* It keeps the receipt, and the call returns.
KeepRecord(r) ==
  /\ At(r, "record")
  /\ records' = records \union {ReceiptOf(r)}
  /\ Goto(r, "answer")
  /\ UNCHANGED <<objects, job, received, history>>

\* GET /literature-review/references
Get(r) ==
  /\ At(r, "idle")
  /\ LoopFree
  /\ job' = [job EXCEPT ![r] = [NoJob EXCEPT !.floor = told]]
  /\ Goto(r, "list")
  /\ UNCHANGED <<store, received, history>>

\* provided_references
List(r) ==
  /\ At(r, "list")
  /\ \/ job' = [job EXCEPT ![r].seen = records] /\ Goto(r, "answer")
     \/ Answer(r, "UNAVAILABLE")
  /\ UNCHANGED <<store, received, history>>

\* The event loop sends the answer.
Respond(r) ==
  LET new == At(r, "answer") /\ job[r].op = "post" /\ job[r].status = "OK"
  IN  /\ At(r, "answer")
      /\ LoopFree
      /\ told' = IF new THEN told \union {ReceiptOf(r)} ELSE told
      /\ firsts' = IF new /\ ~job[r].duplicate
                   THEN [firsts EXCEPT ![ReceiptOf(r)] = @ + 1] ELSE firsts
      /\ job' = [job EXCEPT ![r] = NoJob]
      /\ Goto(r, "idle")
      /\ UNCHANGED <<store, received>>

\* The server dies; the store stays as it is.
Crash ==
  /\ pc' = [r \in Requests |-> "idle"]
  /\ job' = [r \in Requests |-> NoJob]
  /\ UNCHANGED <<store, received, history>>

\* What a coroutine does between two chunks and the answer.
Provide(r) == EndBody(r) \/ Close(r) \/ Refuse(r) \/ Receive(r) \/ KeepRecord(r)

Next ==
  \/ Crash
  \/ \E r \in Requests :
       \/ Post(r) \/ ReadChunk(r) \/ Provide(r)
       \/ Get(r) \/ List(r) \/ Respond(r)

Spec == Init /\ [][Next]_vars

-------------------------------------------------------------------------------
\* Properties.

\* Every variable keeps its type, and one call at most blocks the event loop.
TypeOK ==
  /\ objects \subseteq Pdfs
  /\ records \subseteq Receipt
  /\ pc \in [Requests -> Points]
  /\ job \in [Requests -> Job]
  /\ received \in 0 .. MaxReceipts
  /\ told \subseteq Receipt
  /\ firsts \in [Receipt -> Nat]
  /\ \A r, s \in Requests : At(r, "record") /\ At(s, "record") => r = s

\* A receipt a client was told stands, for a claim of the run and a PDF that is kept
\* whole and within the limit, and every list asked for later has it.  Of all the
\* clients that provide one PDF for one claim, at a time or one after the other,
\* over any crashes, at most one is told that it is no duplicate.
ReceiptsStand ==
  /\ told \subseteq records
  /\ \A x \in records :
       x[1] \in RunClaims /\ x[2] \in objects /\ Size[x[2]] <= Limit
  /\ \A x \in Receipt : firsts[x] <= 1
  /\ \A r \in Requests :
       At(r, "answer") /\ job[r].op = "list" /\ job[r].status = "OK" =>
         job[r].floor \subseteq job[r].seen

=================================================================================
