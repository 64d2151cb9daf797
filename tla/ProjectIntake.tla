----------------------------- MODULE ProjectIntake -----------------------------
(***************************************************************************)
(* The intake of missing PDFs for the references of a project              *)
(* (routers/project_reference_intake.py, project_reference_intake_owner.py)*)
(*                                                                         *)
(* The body of an upload arrives in blocks, between which the event loop   *)
(* serves others.  It is spooled within a limit, checked, and given to the *)
(* owner in a thread of a pool, where the PDF is first received into       *)
(* custody and then bound to its reference: two durable steps, of another  *)
(* package, projectkoios references.  A binding is one to one.             *)
(***************************************************************************)
EXTENDS Naturals

CONSTANTS
  Requests,    \* requests the server can hold at a time
  Citekeys,    \* the citekeys clients ask about
  Required,    \* the references of the collection that need a PDF
  Optional,    \* those that need none
  Files,       \* what clients may send
  Pdfs,        \* the files that begin as a PDF does
  Size,        \* the size of each file
  MaxPdfBytes

ASSUME CollectionAssumption == Required \union Optional \subseteq Citekeys
ASSUME FilesAssumption == Pdfs \subseteq Files /\ Size \in [Files -> Nat]
ASSUME LimitAssumption == MaxPdfBytes \in Nat \ {0}
ASSUME ValuesAssumption == Citekeys # {} /\ Files # {}

\* What is spooled and kept: all of a file, or its first bytes.
Document == [file : Files, size : Nat]

Binding == [citekey : Citekeys, document : Document]

Statuses ==
  {"bound", "already-bound", "listed",   \* 200
   "received-unbound",                   \* 409
   "not_found", "too_large", "invalid_pdf", "invalid_length", "malformed", "unavailable",
   "failed"}                             \* 500

\* What the server holds for a request.
Job ==
  [citekey : Citekeys,
   file : Files,
   declared : SUBSET Nat,        \* the Content-Length, or nothing
   observed : Nat,               \* bytes counted
   spooled : Nat,                \* bytes in the temporary file
   status : Statuses,
   missing : SUBSET Citekeys,    \* what a list is answered with
   before : SUBSET Citekeys]     \* history: what was told bound when it was asked for

NoJob ==
  [citekey |-> CHOOSE k \in Citekeys : TRUE, file |-> CHOOSE f \in Files : TRUE,
   declared |-> {}, observed |-> 0, spooled |-> 0,
   status |-> "unavailable", missing |-> {}, before |-> {}]

VARIABLES
  custody,   \* documents received
  bindings,  \* documents bound to references
  pc,        \* where each request stands
  job,
  told       \* history: the bindings clients were told

durable == <<custody, bindings>>
vars == <<durable, pc, job, told>>

Points == {"idle", "reading", "receive", "bind", "list", "answer"}

-------------------------------------------------------------------------------
Init ==
  /\ custody = {}
  /\ bindings = {}
  /\ pc = [r \in Requests |-> "idle"]
  /\ job = [r \in Requests |-> NoJob]
  /\ told = {}

At(r, point) == pc[r] = point

Go(r, point) == pc' = [pc EXCEPT ![r] = point]

Answer(r, s) == Go(r, "answer") /\ job' = [job EXCEPT ![r].status = s]

\* The request is over and its temporary file is closed.
Forget(r) == Go(r, "idle") /\ job' = [job EXCEPT ![r] = NoJob]

Spooled(r) == [file |-> job[r].file, size |-> job[r].spooled]

Provision(r) == [citekey |-> job[r].citekey, document |-> Spooled(r)]

-------------------------------------------------------------------------------
\* provide_pdf: the body.

\* POST .../missing-pdfs/{citekey}/document, with the checks of _declared_size.  A
\* body of another media type has no effect and is left out.
Post(r) ==
  /\ At(r, "idle")
  /\ \E k \in Citekeys, f \in Files :
       LET asked == [NoJob EXCEPT !.citekey = k, !.file = f]
       IN  \/ \E n \in 1 .. MaxPdfBytes :
                /\ \E length \in {{}, {n}} :
                     job' = [job EXCEPT ![r] = [asked EXCEPT !.declared = length]]
                /\ Go(r, "reading")
           \/ /\ \E s \in {"too_large", "invalid_length"} :
                   job' = [job EXCEPT ![r] = [asked EXCEPT !.status = s]]
              /\ Go(r, "answer")
  /\ UNCHANGED <<durable, told>>

\* Mutant: a block is spooled before it is counted.
SpoolBlock(r) ==
  /\ At(r, "reading")
  /\ \E n \in job[r].observed + 1 .. Size[job[r].file] :
       /\ job' = [job EXCEPT ![r].observed = n, ![r].spooled = n,
                             ![r].status = IF n > MaxPdfBytes THEN "too_large" ELSE @]
       /\ IF n > MaxPdfBytes THEN Go(r, "answer") ELSE UNCHANGED pc
  /\ UNCHANGED <<durable, told>>

\* A block arrives, and is spooled if it is within the limit.
ReadBlock(r) ==
  /\ At(r, "reading")
  /\ \E n \in job[r].observed + 1 .. Size[job[r].file] :
       \/ /\ n > MaxPdfBytes
          /\ job' = [job EXCEPT ![r].observed = n, ![r].status = "too_large"]
          /\ Go(r, "answer")
       \/ /\ n <= MaxPdfBytes
          /\ job' = [job EXCEPT ![r].observed = n, ![r].spooled = n]
          /\ UNCHANGED pc
  /\ UNCHANGED <<durable, told>>

\* The checks of a body that is read to its end, in their order.
CheckBody(r) ==
  \/ /\ job[r].observed = 0
     /\ Answer(r, "invalid_pdf")
  \/ /\ job[r].observed # 0
     /\ ~(job[r].declared \subseteq {job[r].observed})
     /\ Answer(r, "invalid_length")
  \/ /\ job[r].observed # 0
     /\ job[r].declared \subseteq {job[r].observed}
     /\ job[r].file \notin Pdfs
     /\ Answer(r, "invalid_pdf")
  \/ /\ job[r].observed # 0
     /\ job[r].declared \subseteq {job[r].observed}
     /\ job[r].file \in Pdfs
     /\ Go(r, "receive")
     /\ UNCHANGED job

\* Mutant: what came before the client went away is taken for the body.
EndOrCutOff(r) ==
  /\ At(r, "reading")
  /\ CheckBody(r)
  /\ UNCHANGED <<durable, told>>

\* The body is complete.
EndBody(r) ==
  /\ At(r, "reading")
  /\ job[r].observed = Size[job[r].file]
  /\ CheckBody(r)
  /\ UNCHANGED <<durable, told>>

\* The client goes away: request.stream() raises, and nobody is answered.
CutOff(r) ==
  /\ At(r, "reading")
  /\ Forget(r)
  /\ UNCHANGED <<durable, told>>

\* Spooling raises an OSError, which nothing here catches.
SpoolFails(r) ==
  /\ At(r, "reading")
  /\ Answer(r, "failed")
  /\ UNCHANGED <<durable, told>>

-------------------------------------------------------------------------------
\* The owner, in a thread, which does not learn whether its client is still there.

Known(r) == job[r].citekey \in Required \union Optional

\* ReceivePdf; the owner may refuse a PDF for reasons of its own.
Receive(r) ==
  /\ At(r, "receive")
  /\ \/ ~Known(r) /\ Answer(r, "not_found") /\ UNCHANGED custody
     \/ Answer(r, "invalid_pdf") /\ UNCHANGED custody
     \/ custody' = custody \union {Spooled(r)} /\ Go(r, "bind") /\ UNCHANGED job
  /\ UNCHANGED <<bindings, told>>

\* Mutant: a binding that is there already is a conflict as well.
Occupied(r) ==
  \E b \in bindings :
    b.citekey = Provision(r).citekey \/ b.document = Provision(r).document

\* One-to-one: the reference has another document, or the document another one.
Conflict(r) ==
  \E b \in bindings :
    (b.citekey = Provision(r).citekey) # (b.document = Provision(r).document)

\* Mutant: a document that could not be bound is answered as one that is.
BindUntold(r) ==
  /\ At(r, "bind")
  /\ \/ ~Known(r) /\ Answer(r, "not_found") /\ UNCHANGED bindings
     \/ Known(r) /\ Conflict(r) /\ Answer(r, "already-bound") /\ UNCHANGED bindings
     \/ /\ Known(r)
        /\ ~Conflict(r)
        /\ Answer(r, IF Provision(r) \in bindings THEN "already-bound" ELSE "bound")
        /\ bindings' = bindings \union {Provision(r)}
  /\ UNCHANGED <<custody, told>>

\* What a bound document may be answered with: the store may yet raise, or the
\* owner's result be refused, after the binding is durable.
BoundAnswers(r) ==
  {IF Provision(r) \in bindings THEN "already-bound" ELSE "bound",
   "malformed", "unavailable"}

\* BindPdfToReference, and how its outcome is answered.
Bind(r) ==
  /\ At(r, "bind")
  /\ \/ ~Known(r) /\ Answer(r, "not_found") /\ UNCHANGED bindings
     \/ Known(r) /\ Conflict(r) /\ Answer(r, "received-unbound") /\ UNCHANGED bindings
     \/ /\ Known(r)
        /\ ~Conflict(r)
        /\ \E s \in BoundAnswers(r) : Answer(r, s)
        /\ bindings' = bindings \union {Provision(r)}
  /\ UNCHANGED <<custody, told>>

\* The stores of the owner raise, or do not have the collection; what is durable
\* by then stays.
OwnerFails(r) ==
  /\ At(r, "receive") \/ At(r, "bind") \/ At(r, "list")
  /\ \E s \in {"unavailable", "malformed", "not_found"} : Answer(r, s)
  /\ UNCHANGED <<durable, told>>

-------------------------------------------------------------------------------
\* GET .../missing-pdfs
Get(r) ==
  /\ At(r, "idle")
  /\ Go(r, "list")
  /\ job' = [job EXCEPT ![r].before = {b.citekey : b \in told}]
  /\ UNCHANGED <<durable, told>>

\* Mutant: the other way round.
Present(B) == {k \in Required : \E b \in B : b.citekey = k}

Missing(B) == {k \in Required : \A b \in B : b.citekey # k}

\* missing_pdfs, derived from membership, requirement and binding.
List(r) ==
  /\ At(r, "list")
  /\ job' = [job EXCEPT ![r].missing = Missing(bindings), ![r].status = "listed"]
  /\ Go(r, "answer")
  /\ UNCHANGED <<durable, told>>

Respond(r) ==
  /\ At(r, "answer")
  /\ told' = IF job[r].status \in {"bound", "already-bound"}
             THEN told \union {Provision(r)}
             ELSE told
  /\ Forget(r)
  /\ UNCHANGED durable

\* The server dies, and with it the temporary files.
Crash ==
  /\ pc' = [r \in Requests |-> "idle"]
  /\ job' = [r \in Requests |-> NoJob]
  /\ UNCHANGED <<durable, told>>

Provide(r) ==
  Post(r) \/ ReadBlock(r) \/ EndBody(r) \/ CutOff(r) \/ SpoolFails(r)
    \/ Receive(r) \/ Bind(r)

Next ==
  \/ Crash
  \/ \E r \in Requests : Provide(r) \/ OwnerFails(r) \/ Get(r) \/ List(r) \/ Respond(r)

Spec == Init /\ [][Next]_vars

-------------------------------------------------------------------------------
\* Properties.

\* Every variable keeps its type, and no temporary file is longer than the limit,
\* also when a body is, declared or not.
TypeOK ==
  /\ custody \subseteq Document
  /\ bindings \subseteq Binding
  /\ told \subseteq Binding
  /\ pc \in [Requests -> Points]
  /\ job \in [Requests -> Job]
  /\ \A r \in Requests : job[r].spooled <= MaxPdfBytes

\* Only whole files that begin as a PDF does and are within the limit come into
\* custody, whatever becomes of the connection while a body arrives, and only what
\* is in custody is bound.
CustodyIsWhole ==
  /\ \A d \in custody : d.file \in Pdfs /\ d.size = Size[d.file] /\ d.size \in 1 .. MaxPdfBytes
  /\ \A b \in bindings : b.document \in custody

\* What a client was told to be bound is bound, and stays so through other uploads
\* of the reference or the document, failures of the owner and crashes.
PromisesKept == told \subseteq bindings

\* A PDF as it may be kept: whole and within the limit.
WholePdfs ==
  {[file |-> f, size |-> Size[f]] : f \in {g \in Pdfs : Size[g] \in 1 .. MaxPdfBytes}}

Bindable == [citekey : Required \union Optional, document : WholePdfs]

Intake == INSTANCE DocumentIntake WITH
  Documents <- WholePdfs,
  Records <- Bindable,
  DocumentOf <- [b \in Bindable |-> b.document],
  Clashes <- {c \in Bindable \X Bindable :
                (c[1].citekey = c[2].citekey) # (c[1].document = c[2].document)},
  kept <- custody,
  records <- bindings

\* Receipt and binding are one intake: a PDF comes whole into custody before it is
\* bound, bindings stay one to one whichever requests compete, fail or crash, none
\* is ever undone, and a client is told "bound" only of what is.
ImplementsDocumentIntake == Intake!Spec

\* "PDF was received but could not be bound": the document is in custody and it is
\* not bound to the reference; repeating an upload that was bound is no conflict.
ConflictIsReal ==
  \A r \in Requests :
    At(r, "answer") /\ job[r].status = "received-unbound" =>
      Spooled(r) \in custody /\ Provision(r) \notin bindings

\* A list does not ask again for what its client was told to be bound before it
\* asked, and what it leaves out is bound.
ListsAreCurrent ==
  \A r \in Requests :
    At(r, "answer") /\ job[r].status = "listed" =>
      /\ job[r].missing \intersect job[r].before = {}
      /\ Required \ job[r].missing \subseteq {b.citekey : b \in bindings}

==============================================================================
