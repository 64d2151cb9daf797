-------------------------- MODULE ProjectIntakeProofs --------------------------
(***************************************************************************)
(* The safety of the intake for any number of requests, any collection,    *)
(* any files and any limit.                                                *)
(*                                                                         *)
(* The inductive invariant, IInv, follows an upload: while it is read, all *)
(* that was counted is spooled; what is handed to the owner is a whole PDF *)
(* within the limit; and what a request is answered with was true when its *)
(* owner answered and stays true, because bindings are one to one and only *)
(* grow.  With it the intake implements DocumentIntake.                    *)
(***************************************************************************)
EXTENDS ProjectIntake, TLAPS

\* A whole PDF within the limit.
Whole(d) == d.file \in Pdfs /\ d.size = Size[d.file] /\ d.size \in 1 .. MaxPdfBytes

OneToOne ==
  \A a, b \in bindings : a.citekey = b.citekey <=> a.document = b.document

BoundKeys == {b.citekey : b \in bindings}

UploadInv(r) ==
  /\ At(r, "reading") =>
       job[r].observed = job[r].spooled /\ job[r].spooled <= Size[job[r].file]
  /\ At(r, "receive") \/ At(r, "bind") => Whole(Spooled(r))
  /\ At(r, "bind") => Spooled(r) \in custody

AnswerInv(r) ==
  At(r, "answer") =>
    /\ job[r].status \in {"bound", "already-bound"} => Provision(r) \in bindings
    /\ job[r].status = "received-unbound" => Spooled(r) \in custody /\ Conflict(r)
    /\ job[r].status = "listed" =>
         /\ job[r].missing \intersect job[r].before = {}
         /\ Required \ job[r].missing \subseteq BoundKeys

RequestInv(r) == job[r].before \subseteq BoundKeys /\ UploadInv(r) /\ AnswerInv(r)

IInv ==
  /\ TypeOK
  /\ CustodyIsWhole
  /\ PromisesKept
  /\ OneToOne
  /\ \A r \in Requests : RequestInv(r)

-------------------------------------------------------------------------------
\* Types.

\* The idle job is well typed, and nothing is spooled for it.
LEMMA NoJobType ==
  /\ NoJob \in Job
  /\ NoJob.spooled = 0 /\ NoJob.observed = 0
  /\ NoJob.before = {} /\ NoJob.status = "unavailable"
<1>1. NoJob.citekey \in Citekeys /\ NoJob.file \in Files
  BY ValuesAssumption DEF NoJob
<1> QED
  BY <1>1 DEF NoJob, Job, Statuses

\* What is spooled for a request is a document, and its provision a binding.
LEMMA SpooledType ==
  ASSUME TypeOK, NEW r \in Requests
  PROVE  /\ job[r] \in Job
         /\ Spooled(r) \in Document
         /\ Provision(r) \in Binding
         /\ Provision(r).citekey = job[r].citekey
         /\ Provision(r).document = Spooled(r)
<1>1. job[r] \in Job
  BY DEF TypeOK
<1> QED
  BY <1>1 DEF Job, Spooled, Provision, Document, Binding

\* An answer leaves all but the status of a request as it is.
LEMMA AnswerType ==
  ASSUME TypeOK, NEW r \in Requests, NEW s \in Statuses, Answer(r, s)
  PROVE  /\ pc' \in [Requests -> Points]
         /\ job' \in [Requests -> Job]
         /\ pc'[r] = "answer"
         /\ job'[r].status = s /\ job'[r].before = job[r].before
         /\ Spooled(r)' = Spooled(r) /\ Provision(r)' = Provision(r)
         /\ \A q \in Requests \ {r} : pc'[q] = pc[q] /\ job'[q] = job[q]
         /\ \A q \in Requests : job'[q].spooled <= MaxPdfBytes
<1>1. job[r] \in Job /\ [job[r] EXCEPT !.status = s] \in Job
  BY DEF TypeOK, Job
<1>2. job' = [job EXCEPT ![r] = [job[r] EXCEPT !.status = s]]
  BY DEF Answer, TypeOK
<1>3. pc' = [pc EXCEPT ![r] = "answer"]
  BY DEF Answer, Go
<1>4. /\ pc' \in [Requests -> Points] /\ pc'[r] = "answer"
      /\ job' \in [Requests -> Job] /\ job'[r] = [job[r] EXCEPT !.status = s]
      /\ \A q \in Requests \ {r} : pc'[q] = pc[q] /\ job'[q] = job[q]
  BY <1>1, <1>2, <1>3 DEF TypeOK, Points
<1>5. /\ job'[r].status = s
      /\ job'[r].before = job[r].before /\ job'[r].spooled = job[r].spooled
      /\ job'[r].file = job[r].file /\ job'[r].citekey = job[r].citekey
  BY <1>1, <1>4 DEF Job
<1>6. Spooled(r)' = Spooled(r) /\ Provision(r)' = Provision(r)
  BY <1>5 DEF Spooled, Provision
<1> QED
  BY <1>4, <1>5, <1>6 DEF TypeOK

\* A request that is forgotten is idle and holds nothing.
LEMMA ForgetType ==
  ASSUME TypeOK, NEW r \in Requests, Forget(r)
  PROVE  /\ pc' \in [Requests -> Points]
         /\ job' \in [Requests -> Job]
         /\ pc'[r] = "idle" /\ job'[r] = NoJob
         /\ \A q \in Requests \ {r} : pc'[q] = pc[q] /\ job'[q] = job[q]
         /\ \A q \in Requests : job'[q].spooled <= MaxPdfBytes
  BY NoJobType, LimitAssumption DEF Forget, Go, TypeOK, Points

-------------------------------------------------------------------------------
\* What the steps of others cannot disturb.

\* The owner's stores only grow, and by bindings that clash with none.
StoresGrow ==
  /\ custody \subseteq custody'
  /\ bindings \subseteq bindings'
  /\ \A a \in bindings' \ bindings, b \in bindings :
       a.citekey # b.citekey /\ a.document # b.document

\* A request that does not move keeps its invariant while the stores grow.
LEMMA RequestKept ==
  ASSUME TypeOK, NEW r \in Requests, RequestInv(r), StoresGrow,
         pc'[r] = pc[r], job'[r] = job[r]
  PROVE  RequestInv(r)'
<1>1. BoundKeys \subseteq BoundKeys'
  BY DEF StoresGrow, BoundKeys
<1>2. Spooled(r)' = Spooled(r) /\ Provision(r)' = Provision(r)
  BY DEF Spooled, Provision
<1>3. Conflict(r) => Conflict(r)'
  BY <1>2 DEF Conflict, StoresGrow
<1>4. UploadInv(r)'
  BY <1>2 DEF RequestInv, UploadInv, At, Whole, StoresGrow
<1>5. AnswerInv(r)'
  BY <1>1, <1>2, <1>3 DEF RequestInv, AnswerInv, At, StoresGrow
<1> QED
  BY <1>1, <1>4, <1>5 DEF RequestInv

\* Steps that leave the stores and the told bindings alone.
LEMMA PassiveStep ==
  ASSUME IInv, NEW r \in Requests, UNCHANGED <<durable, told>>,
         pc' \in [Requests -> Points], job' \in [Requests -> Job],
         \A q \in Requests : job'[q].spooled <= MaxPdfBytes,
         \A q \in Requests \ {r} : pc'[q] = pc[q] /\ job'[q] = job[q],
         RequestInv(r)'
  PROVE  IInv'
<1>1. StoresGrow
  BY DEF StoresGrow, durable
<1>2. \A q \in Requests : RequestInv(q)'
  BY <1>1, RequestKept DEF IInv
<1> QED
  BY <1>2 DEF IInv, TypeOK, durable, CustodyIsWhole, PromisesKept, OneToOne

\* A refusal or an error of a request changes nothing else.
LEMMA RefusalStep ==
  ASSUME IInv, NEW r \in Requests, UNCHANGED <<durable, told>>,
         NEW s \in Statuses \ {"bound", "already-bound", "received-unbound", "listed"},
         Answer(r, s)
  PROVE  IInv'
<1>1. job'[r].status = s /\ job'[r].before = job[r].before /\ pc'[r] = "answer"
  BY AnswerType DEF IInv
<1>2. RequestInv(r)'
  BY <1>1 DEF IInv, RequestInv, UploadInv, AnswerInv, At, BoundKeys, durable
<1> QED
  BY <1>2, AnswerType, PassiveStep DEF IInv

\* A request that ends without being told anything.
LEMMA ForgetStep ==
  ASSUME IInv, NEW r \in Requests, UNCHANGED <<durable, told>>, Forget(r)
  PROVE  IInv'
<1>1. RequestInv(r)'
  BY ForgetType, NoJobType DEF IInv, RequestInv, UploadInv, AnswerInv, At
<1> QED
  BY <1>1, ForgetType, PassiveStep DEF IInv

-------------------------------------------------------------------------------
\* The body of an upload.
LEMMA PostStep == ASSUME IInv, NEW r \in Requests, Post(r) PROVE IInv'
<1>1. PICK k \in Citekeys, f \in Files :
        LET asked == [NoJob EXCEPT !.citekey = k, !.file = f]
        IN  \/ \E n \in 1 .. MaxPdfBytes :
                 /\ \E length \in {{}, {n}} :
                      job' = [job EXCEPT ![r] = [asked EXCEPT !.declared = length]]
                 /\ Go(r, "reading")
            \/ /\ \E s \in {"too_large", "invalid_length"} :
                    job' = [job EXCEPT ![r] = [asked EXCEPT !.status = s]]
               /\ Go(r, "answer")
  BY DEF Post
<1> DEFINE asked == [NoJob EXCEPT !.citekey = k, !.file = f]
<1>2. asked \in Job /\ asked.observed = 0 /\ asked.spooled = 0 /\ asked.before = {}
      /\ asked.file = f
  BY NoJobType DEF Job
<1>3. Size[f] \in Nat
  BY FilesAssumption
<1> HIDE DEF asked
<1>4. ASSUME NEW n \in 1 .. MaxPdfBytes, NEW length \in {{}, {n}},
             job' = [job EXCEPT ![r] = [asked EXCEPT !.declared = length]],
             Go(r, "reading")
      PROVE  IInv'
  <2> DEFINE j == [asked EXCEPT !.declared = length]
  <2>1. n \in Nat
    BY LimitAssumption
  <2>2. length \in SUBSET Nat
    BY <2>1
  <2>3. /\ j \in Job /\ j.observed = 0 /\ j.spooled = 0 /\ j.before = {}
        /\ j.file = f
    BY <1>2, <2>2 DEF Job
  <2> HIDE DEF j
  <2>4. job' = [job EXCEPT ![r] = j] /\ pc' = [pc EXCEPT ![r] = "reading"]
    BY <1>4 DEF j, Go
  <2>5. /\ pc' \in [Requests -> Points] /\ job' \in [Requests -> Job]
        /\ job'[r] = j /\ pc'[r] = "reading"
        /\ \A q \in Requests \ {r} : pc'[q] = pc[q] /\ job'[q] = job[q]
    BY <2>3, <2>4 DEF IInv, TypeOK, Points
  <2>6. \A q \in Requests : job'[q].spooled <= MaxPdfBytes
    BY <2>3, <2>5, LimitAssumption DEF IInv, TypeOK
  <2>7. RequestInv(r)'
    BY <2>3, <2>5, <1>3 DEF RequestInv, UploadInv, AnswerInv, At
  <2>8. UNCHANGED <<durable, told>>
    BY DEF Post
  <2> QED
    BY <2>5, <2>6, <2>7, <2>8, PassiveStep
<1>5. ASSUME NEW s \in {"too_large", "invalid_length"},
             job' = [job EXCEPT ![r] = [asked EXCEPT !.status = s]],
             Go(r, "answer")
      PROVE  IInv'
  <2> DEFINE j == [asked EXCEPT !.status = s]
  <2>1. /\ j \in Job /\ j.spooled = 0 /\ j.before = {} /\ j.status = s
    BY <1>2 DEF Job, Statuses
  <2> HIDE DEF j
  <2>2. job' = [job EXCEPT ![r] = j] /\ pc' = [pc EXCEPT ![r] = "answer"]
    BY <1>5 DEF j, Go
  <2>3. /\ pc' \in [Requests -> Points] /\ job' \in [Requests -> Job]
        /\ job'[r] = j /\ pc'[r] = "answer"
        /\ \A q \in Requests \ {r} : pc'[q] = pc[q] /\ job'[q] = job[q]
    BY <2>1, <2>2 DEF IInv, TypeOK, Points
  <2>4. \A q \in Requests : job'[q].spooled <= MaxPdfBytes
    BY <2>1, <2>3, LimitAssumption DEF IInv, TypeOK
  <2>5. RequestInv(r)'
    BY <2>1, <2>3 DEF RequestInv, UploadInv, AnswerInv, At
  <2>6. UNCHANGED <<durable, told>>
    BY DEF Post
  <2> QED
    BY <2>3, <2>4, <2>5, <2>6, PassiveStep
<1> QED
  BY <1>1, <1>4, <1>5 DEF asked

LEMMA ReadBlockStep == ASSUME IInv, NEW r \in Requests, ReadBlock(r) PROVE IInv'
<1>1. PICK n \in job[r].observed + 1 .. Size[job[r].file] :
        \/ /\ n > MaxPdfBytes
           /\ job' = [job EXCEPT ![r].observed = n, ![r].status = "too_large"]
           /\ Go(r, "answer")
        \/ /\ n <= MaxPdfBytes
           /\ job' = [job EXCEPT ![r].observed = n, ![r].spooled = n]
           /\ UNCHANGED pc
  BY DEF ReadBlock
<1>2. job[r] \in Job /\ job[r].observed \in Nat /\ Size[job[r].file] \in Nat
  BY FilesAssumption DEF IInv, TypeOK, Job
<1>3. n \in Nat /\ n <= Size[job[r].file]
  BY <1>1, <1>2
<1>4. UNCHANGED <<durable, told>> /\ At(r, "reading")
  BY DEF ReadBlock
<1>5. job[r].before \subseteq BoundKeys /\ BoundKeys' = BoundKeys
  BY <1>4 DEF IInv, RequestInv, BoundKeys, durable
<1>6. CASE /\ n > MaxPdfBytes
           /\ job' = [job EXCEPT ![r].observed = n, ![r].status = "too_large"]
           /\ Go(r, "answer")
  <2> DEFINE j == [job[r] EXCEPT !.observed = n, !.status = "too_large"]
  <2>1. /\ j \in Job /\ j.spooled = job[r].spooled /\ j.before = job[r].before
        /\ j.status = "too_large"
    BY <1>2, <1>3 DEF Job, Statuses
  <2>2. job' = [job EXCEPT ![r] = j]
    BY <1>6 DEF IInv, TypeOK
  <2> HIDE DEF j
  <2>3. /\ pc' \in [Requests -> Points] /\ job' \in [Requests -> Job]
        /\ job'[r] = j /\ pc'[r] = "answer"
        /\ \A q \in Requests \ {r} : pc'[q] = pc[q] /\ job'[q] = job[q]
    BY <2>1, <2>2, <1>6 DEF IInv, TypeOK, Points, Go
  <2>4. \A q \in Requests : job'[q].spooled <= MaxPdfBytes
    BY <2>1, <2>3 DEF IInv, TypeOK
  <2>5. RequestInv(r)'
    BY <2>1, <2>3, <1>5 DEF RequestInv, UploadInv, AnswerInv, At
  <2> QED
    BY <2>3, <2>4, <2>5, <1>4, PassiveStep
<1>7. CASE /\ n <= MaxPdfBytes
           /\ job' = [job EXCEPT ![r].observed = n, ![r].spooled = n]
           /\ UNCHANGED pc
  <2> DEFINE j == [job[r] EXCEPT !.observed = n, !.spooled = n]
  <2>1. /\ j \in Job /\ j.spooled = n /\ j.observed = n /\ j.before = job[r].before
        /\ j.file = job[r].file
    BY <1>2, <1>3 DEF Job
  <2>2. job' = [job EXCEPT ![r] = j]
    BY <1>7 DEF IInv, TypeOK
  <2> HIDE DEF j
  <2>3. /\ pc' \in [Requests -> Points] /\ job' \in [Requests -> Job]
        /\ job'[r] = j /\ pc'[r] = "reading"
        /\ \A q \in Requests \ {r} : pc'[q] = pc[q] /\ job'[q] = job[q]
    BY <2>1, <2>2, <1>4, <1>7 DEF IInv, TypeOK, Points, At
  <2>4. \A q \in Requests : job'[q].spooled <= MaxPdfBytes
    BY <2>1, <2>3, <1>7 DEF IInv, TypeOK
  <2>5. RequestInv(r)'
    BY <2>1, <2>3, <1>3, <1>5 DEF RequestInv, UploadInv, AnswerInv, At
  <2> QED
    BY <2>3, <2>4, <2>5, <1>4, PassiveStep
<1> QED
  BY <1>1, <1>6, <1>7

\* Only a whole PDF within the limit goes on to the owner.
LEMMA EndBodyStep == ASSUME IInv, NEW r \in Requests, EndBody(r) PROVE IInv'
<1>1. /\ UNCHANGED <<durable, told>> /\ At(r, "reading") /\ CheckBody(r)
      /\ job[r].observed = Size[job[r].file]
  BY DEF EndBody
<1>2. CASE Answer(r, "invalid_pdf") \/ Answer(r, "invalid_length")
  BY <1>1, <1>2, RefusalStep DEF Statuses
<1>3. CASE /\ job[r].observed # 0
           /\ job[r].file \in Pdfs
           /\ Go(r, "receive")
           /\ UNCHANGED job
  <2>1. job[r] \in Job /\ job[r].spooled \in Nat /\ job[r].spooled <= MaxPdfBytes
    BY DEF IInv, TypeOK, Job
  <2>2. job[r].spooled = job[r].observed
    BY <1>1 DEF IInv, RequestInv, UploadInv
  <2>3. Whole(Spooled(r))
    BY <1>1, <1>3, <2>1, <2>2, LimitAssumption DEF Whole, Spooled
  <2>4. /\ pc' \in [Requests -> Points] /\ pc'[r] = "receive" /\ job' = job
        /\ \A q \in Requests \ {r} : pc'[q] = pc[q]
    BY <1>3 DEF Go, IInv, TypeOK, Points
  <2>5. Whole(Spooled(r))'
    BY <2>3, <2>4 DEF Whole, Spooled
  <2>6. RequestInv(r)'
    BY <1>1, <2>4, <2>5 DEF IInv, RequestInv, UploadInv, AnswerInv, At, BoundKeys, durable
  <2> QED
    BY <1>1, <2>4, <2>6, PassiveStep DEF IInv, TypeOK
<1> QED
  BY <1>1, <1>2, <1>3 DEF CheckBody

-------------------------------------------------------------------------------
\* The owner.
LEMMA ReceiveStep == ASSUME IInv, NEW r \in Requests, Receive(r) PROVE IInv'
<1>1. CASE /\ Answer(r, "not_found") \/ Answer(r, "invalid_pdf")
           /\ UNCHANGED custody
  BY <1>1, RefusalStep DEF Receive, Statuses, durable
<1>2. CASE custody' = custody \union {Spooled(r)} /\ Go(r, "bind") /\ UNCHANGED job
  <2>1. /\ UNCHANGED <<bindings, told>> /\ At(r, "receive")
        /\ Whole(Spooled(r)) /\ Spooled(r) \in Document
    BY SpooledType DEF Receive, IInv, RequestInv, UploadInv
  <2>2. /\ pc' \in [Requests -> Points] /\ pc'[r] = "bind" /\ job' = job
        /\ \A q \in Requests \ {r} : pc'[q] = pc[q]
    BY <1>2 DEF Go, IInv, TypeOK, Points
  <2>3. StoresGrow
    BY <1>2, <2>1 DEF StoresGrow
  <2>4. Spooled(r)' = Spooled(r) /\ Spooled(r) \in custody'
    BY <1>2 DEF Spooled
  <2>5. RequestInv(r)'
    BY <2>1, <2>2, <2>4
       DEF IInv, RequestInv, UploadInv, AnswerInv, At, BoundKeys, Whole
  <2>6. \A q \in Requests : RequestInv(q)'
    BY <2>2, <2>3, <2>5, RequestKept DEF IInv
  <2>7. CustodyIsWhole'
    BY <1>2, <2>1 DEF IInv, CustodyIsWhole, Whole
  <2> QED
    BY <1>2, <2>1, <2>2, <2>6, <2>7 DEF IInv, TypeOK, PromisesKept, OneToOne
<1> QED
  BY <1>1, <1>2 DEF Receive

LEMMA BindStep == ASSUME IInv, NEW r \in Requests, Bind(r) PROVE IInv'
<1>1. CASE Answer(r, "not_found") /\ UNCHANGED bindings
  BY <1>1, RefusalStep DEF Bind, Statuses, durable
<1>2. /\ UNCHANGED <<custody, told>> /\ Spooled(r) \in custody
      /\ Provision(r) \in Binding /\ Provision(r).document = Spooled(r)
  BY SpooledType DEF Bind, IInv, RequestInv, UploadInv
<1>3. CASE Conflict(r) /\ Answer(r, "received-unbound") /\ UNCHANGED bindings
  <2>1. /\ pc'[r] = "answer" /\ job'[r].status = "received-unbound"
        /\ Spooled(r)' = Spooled(r) /\ Provision(r)' = Provision(r)
        /\ job'[r].before = job[r].before
    BY <1>3, AnswerType DEF IInv, Statuses
  <2>2. RequestInv(r)'
    BY <1>2, <1>3, <2>1
       DEF IInv, RequestInv, UploadInv, AnswerInv, At, Conflict, BoundKeys
  <2> QED
    BY <1>2, <1>3, <2>2, AnswerType, PassiveStep DEF IInv, Statuses, durable
<1>4. CASE /\ ~Conflict(r)
           /\ \E s \in BoundAnswers(r) : Answer(r, s)
           /\ bindings' = bindings \union {Provision(r)}
  <2>1. PICK s \in {"bound", "already-bound", "malformed", "unavailable"} : Answer(r, s)
    BY <1>4 DEF BoundAnswers
  <2>2. Answer(r, s) /\ s \in Statuses
    BY <2>1 DEF Statuses
  <2>3. /\ pc'[r] = "answer" /\ job'[r].status = s
        /\ Provision(r)' = Provision(r)
        /\ job'[r].before = job[r].before
    BY <2>1, <2>2, AnswerType DEF IInv
  <2>4. \A b \in bindings :
          b.citekey = Provision(r).citekey <=> b.document = Provision(r).document
    BY <1>4 DEF Conflict
  <2>5. OneToOne'
    BY <1>4, <2>4 DEF IInv, OneToOne
  <2>6. \A b \in bindings : b.citekey = Provision(r).citekey => b = Provision(r)
    <3> SUFFICES ASSUME NEW b \in bindings, b.citekey = Provision(r).citekey
                 PROVE  b = Provision(r)
      OBVIOUS
    <3>1. b \in Binding
      BY DEF IInv, TypeOK
    <3> QED
      BY <3>1, <2>4, <1>2 DEF Binding
  <2>7. StoresGrow
    BY <1>2, <1>4, <2>4, <2>6 DEF StoresGrow
  <2>8. RequestInv(r)'
    BY <1>4, <2>1, <2>3 DEF IInv, RequestInv, UploadInv, AnswerInv, At, BoundKeys
  <2>9. \A q \in Requests : RequestInv(q)'
    BY <2>1, <2>2, <2>7, <2>8, AnswerType, RequestKept DEF IInv
  <2>10. CustodyIsWhole'
    BY <1>2, <1>4 DEF IInv, CustodyIsWhole
  <2>11. TypeOK'
    BY <1>2, <1>4, <2>1, <2>2, AnswerType DEF IInv, TypeOK
  <2> QED
    BY <1>2, <1>4, <2>5, <2>9, <2>10, <2>11 DEF IInv, PromisesKept
<1> QED
  BY <1>1, <1>3, <1>4 DEF Bind

LEMMA OwnerFailsStep == ASSUME IInv, NEW r \in Requests, OwnerFails(r) PROVE IInv'
  BY RefusalStep DEF OwnerFails, Statuses

-------------------------------------------------------------------------------
\* The list.
LEMMA GetStep == ASSUME IInv, NEW r \in Requests, Get(r) PROVE IInv'
<1> DEFINE before == {b.citekey : b \in told}
           j == [job[r] EXCEPT !.before = before]
<1>1. before \subseteq BoundKeys /\ before \subseteq Citekeys
  BY DEF IInv, PromisesKept, BoundKeys, TypeOK, Binding
<1>2. job[r] \in Job /\ job[r].spooled <= MaxPdfBytes
  BY DEF IInv, TypeOK
<1>3. j \in Job /\ j.before = before /\ j.spooled = job[r].spooled
  BY <1>1, <1>2 DEF Job
<1>4. /\ UNCHANGED <<durable, told>>
      /\ job' = [job EXCEPT ![r] = j] /\ pc' = [pc EXCEPT ![r] = "list"]
  BY DEF Get, Go, IInv, TypeOK
<1> HIDE DEF before, j
<1>5. /\ pc' \in [Requests -> Points] /\ job' \in [Requests -> Job]
      /\ job'[r] = j /\ pc'[r] = "list"
      /\ \A q \in Requests \ {r} : pc'[q] = pc[q] /\ job'[q] = job[q]
  BY <1>3, <1>4 DEF IInv, TypeOK, Points
<1>6. \A q \in Requests : job'[q].spooled <= MaxPdfBytes
  BY <1>2, <1>3, <1>5 DEF IInv, TypeOK
<1>7. RequestInv(r)'
  BY <1>1, <1>3, <1>4, <1>5
     DEF RequestInv, UploadInv, AnswerInv, At, BoundKeys, durable
<1> QED
  BY <1>4, <1>5, <1>6, <1>7, PassiveStep

LEMMA ListStep == ASSUME IInv, NEW r \in Requests, List(r) PROVE IInv'
<1> DEFINE j == [job[r] EXCEPT !.missing = Missing(bindings), !.status = "listed"]
<1>1. Missing(bindings) \subseteq Citekeys
  BY CollectionAssumption DEF Missing
<1>2. job[r] \in Job /\ job[r].spooled <= MaxPdfBytes /\ job[r].before \subseteq BoundKeys
  BY DEF IInv, TypeOK, RequestInv
<1>3. /\ j \in Job /\ j.missing = Missing(bindings) /\ j.before = job[r].before
      /\ j.spooled = job[r].spooled /\ j.status = "listed"
  BY <1>1, <1>2 DEF Job, Statuses
<1>4. /\ UNCHANGED <<durable, told>>
      /\ job' = [job EXCEPT ![r] = j] /\ pc' = [pc EXCEPT ![r] = "answer"]
  BY DEF List, Go, IInv, TypeOK
<1> HIDE DEF j
<1>5. /\ pc' \in [Requests -> Points] /\ job' \in [Requests -> Job]
      /\ job'[r] = j /\ pc'[r] = "answer"
      /\ \A q \in Requests \ {r} : pc'[q] = pc[q] /\ job'[q] = job[q]
  BY <1>3, <1>4 DEF IInv, TypeOK, Points
<1>6. \A q \in Requests : job'[q].spooled <= MaxPdfBytes
  BY <1>2, <1>3, <1>5 DEF IInv, TypeOK
<1>7. /\ Missing(bindings) \intersect BoundKeys = {}
      /\ Required \ Missing(bindings) \subseteq BoundKeys
  BY DEF Missing, BoundKeys
<1>8. BoundKeys' = BoundKeys
  BY <1>4 DEF BoundKeys, durable
<1>9. RequestInv(r)'
  BY <1>2, <1>3, <1>5, <1>7, <1>8 DEF RequestInv, UploadInv, AnswerInv, At
<1> QED
  BY <1>4, <1>5, <1>6, <1>9, PassiveStep

-------------------------------------------------------------------------------
\* The end of a request.
LEMMA RespondStep == ASSUME IInv, NEW r \in Requests, Respond(r) PROVE IInv'
<1>1. UNCHANGED durable /\ Forget(r) /\ At(r, "answer")
  BY DEF Respond
<1>2. told' \subseteq bindings /\ told' \subseteq Binding
  BY DEF Respond, IInv, RequestInv, AnswerInv, PromisesKept, TypeOK
<1>3. StoresGrow
  BY <1>1 DEF StoresGrow, durable
<1>4. RequestInv(r)'
  BY <1>1, ForgetType, NoJobType DEF IInv, RequestInv, UploadInv, AnswerInv, At
<1>5. \A q \in Requests : RequestInv(q)'
  BY <1>1, <1>3, <1>4, ForgetType, RequestKept DEF IInv
<1>6. TypeOK'
  BY <1>1, <1>2, ForgetType DEF IInv, TypeOK, durable
<1> QED
  BY <1>1, <1>2, <1>5, <1>6 DEF IInv, durable, CustodyIsWhole, PromisesKept, OneToOne

\* A crash, and the beginning, find no request under way.
LEMMA NobodyServed ==
  ASSUME pc = [r \in Requests |-> "idle"], job = [r \in Requests |-> NoJob]
  PROVE  /\ pc \in [Requests -> Points] /\ job \in [Requests -> Job]
         /\ \A r \in Requests : job[r].spooled <= MaxPdfBytes
         /\ \A r \in Requests : RequestInv(r)
  BY NoJobType, LimitAssumption DEF Points, RequestInv, UploadInv, AnswerInv, At

LEMMA InitHolds == Init => IInv
  BY NobodyServed DEF Init, IInv, TypeOK, CustodyIsWhole, PromisesKept, OneToOne

LEMMA CrashStep == ASSUME IInv, Crash PROVE IInv'
<1>1. /\ pc' \in [Requests -> Points] /\ job' \in [Requests -> Job]
      /\ \A r \in Requests : job'[r].spooled <= MaxPdfBytes
      /\ \A r \in Requests : job'[r] = NoJob /\ pc'[r] = "idle"
  BY NoJobType, LimitAssumption DEF Crash, Points
<1>2. \A r \in Requests : RequestInv(r)'
  BY <1>1, NoJobType DEF RequestInv, UploadInv, AnswerInv, At
<1> QED
  BY <1>1, <1>2
     DEF Crash, IInv, TypeOK, durable, CustodyIsWhole, PromisesKept, OneToOne

LEMMA NextKeeps == IInv /\ [Next]_vars => IInv'
<1> SUFFICES ASSUME IInv, [Next]_vars PROVE IInv'
  OBVIOUS
<1>1. CASE Crash
  BY <1>1, CrashStep
<1>2. ASSUME NEW r \in Requests, Provide(r) PROVE IInv'
  <2>1. CASE CutOff(r)
    BY <2>1, ForgetStep DEF CutOff
  <2>2. CASE SpoolFails(r)
    BY <2>2, RefusalStep DEF SpoolFails, Statuses
  <2> QED
    BY <1>2, <2>1, <2>2, PostStep, ReadBlockStep, EndBodyStep, ReceiveStep, BindStep DEF Provide
<1>3. ASSUME NEW r \in Requests, OwnerFails(r) \/ Get(r) \/ List(r) \/ Respond(r)
      PROVE  IInv'
  BY <1>3, OwnerFailsStep, GetStep, ListStep, RespondStep
<1>4. CASE UNCHANGED vars
  <2>1. StoresGrow
    BY <1>4 DEF vars, durable, StoresGrow
  <2>2. \A r \in Requests : RequestInv(r)'
    BY <1>4, <2>1, RequestKept DEF IInv, vars
  <2> QED
    BY <1>4, <2>2
       DEF IInv, TypeOK, vars, durable, CustodyIsWhole, PromisesKept, OneToOne
<1> QED
  BY <1>1, <1>2, <1>3, <1>4 DEF Next

\* The invariant holds of every run of the intake.
THEOREM Invariance == Spec => []IInv
  BY InitHolds, NextKeeps, PTL DEF Spec

-------------------------------------------------------------------------------
\* Every variable of the intake keeps its type, and no temporary file outgrows the
\* limit (provide_pdf).
THEOREM TypeCorrect == Spec => []TypeOK
<1>1. IInv => TypeOK
  BY DEF IInv
<1> QED
  BY <1>1, Invariance, PTL

\* Only whole PDFs within the limit come into custody, and only what is there is
\* bound (provide_pdf and the owner's ReceivePdf, BindPdfToReference).
THEOREM CustodyStaysWhole == Spec => []CustodyIsWhole
<1>1. IInv => CustodyIsWhole
  BY DEF IInv
<1> QED
  BY <1>1, Invariance, PTL

\* What a client was told to be bound stays bound (provide_pdf).
THEOREM PromisesAreKept == Spec => []PromisesKept
<1>1. IInv => PromisesKept
  BY DEF IInv
<1> QED
  BY <1>1, Invariance, PTL

\* A document answered as received and unbound is in custody and not bound to the
\* reference it was sent for (the 409 of provide_pdf).
THEOREM ConflictsAreReal == Spec => []ConflictIsReal
<1>1. IInv => ConflictIsReal
  <2> SUFFICES ASSUME IInv, NEW r \in Requests, At(r, "answer"),
                      job[r].status = "received-unbound"
               PROVE  Spooled(r) \in custody /\ Provision(r) \notin bindings
    BY DEF ConflictIsReal
  <2>1. Spooled(r) \in custody /\ Conflict(r)
    BY DEF IInv, RequestInv, AnswerInv
  <2>2. Provision(r) \notin bindings
    BY <2>1 DEF Conflict, IInv, OneToOne
  <2> QED
    BY <2>1, <2>2
<1> QED
  BY <1>1, Invariance, PTL

\* A list leaves out what its client was told to be bound before it asked, and only
\* what is bound (missing_pdfs).
THEOREM ListsStayCurrent == Spec => []ListsAreCurrent
<1>1. IInv => ListsAreCurrent
  BY DEF IInv, RequestInv, AnswerInv, ListsAreCurrent, BoundKeys
<1> QED
  BY <1>1, Invariance, PTL

-------------------------------------------------------------------------------
\* The intake keeps the promise of DocumentIntake.

\* The document of a whole PDF within the limit may be kept.
LEMMA WholeKept ==
  ASSUME NEW d \in Document, Whole(d)
  PROVE  d \in WholePdfs
<1>1. d = [file |-> d.file, size |-> Size[d.file]]
  BY DEF Document, Whole
<1> QED
  BY <1>1 DEF Whole, WholePdfs

LEMMA ReceiptRefines ==
  ASSUME IInv, NEW r \in Requests, Receive(r)
  PROVE  Intake!Next \/ UNCHANGED <<custody, bindings, told>>
<1>1. CASE UNCHANGED custody
  BY <1>1 DEF Receive
<1>2. CASE custody' = custody \union {Spooled(r)}
  <2>1. PICK d : d = Spooled(r)
    OBVIOUS
  <2>2. d \in WholePdfs
    BY <2>1, SpooledType, WholeKept DEF Receive, IInv, RequestInv, UploadInv
  <2>3. Intake!Keep(d)
    BY <1>2, <2>1 DEF Receive, Intake!Keep
  <2> QED
    BY <2>2, <2>3 DEF Intake!Next
<1> QED
  BY <1>1, <1>2 DEF Receive

LEMMA BindingRefines ==
  ASSUME IInv, NEW r \in Requests, Bind(r)
  PROVE  Intake!Next \/ UNCHANGED <<custody, bindings, told>>
<1>1. CASE UNCHANGED bindings
  BY <1>1 DEF Bind
<1>2. CASE Known(r) /\ ~Conflict(r) /\ bindings' = bindings \union {Provision(r)}
  <2>1. PICK x : x = Provision(r)
    OBVIOUS
  <2>2. x.document = Spooled(r) /\ x.document \in WholePdfs /\ x.document \in custody
    BY <2>1, SpooledType, WholeKept DEF Provision, Bind, IInv, RequestInv, UploadInv
  <2>3. x \in Bindable
    BY <1>2, <2>1, <2>2 DEF Known, Provision, Bindable
  <2>4. \A b \in bindings : (b.citekey = x.citekey) = (b.document = x.document)
    BY <1>2, <2>1 DEF Conflict
  <2>5. Intake!Record(x)
    BY <1>2, <2>1, <2>2, <2>3, <2>4 DEF Bind, Intake!Record
  <2> QED
    BY <2>3, <2>5 DEF Intake!Next
<1> QED
  BY <1>1, <1>2 DEF Bind

\* An answer tells of the binding that is its own, if it says there is one.
LEMMA AnswerRefines ==
  ASSUME IInv, NEW r \in Requests, Respond(r)
  PROVE  Intake!Next
<1>1. job[r].status \in {"bound", "already-bound"} => Provision(r) \in bindings
  BY DEF Respond, IInv, RequestInv, AnswerInv
<1> QED
  BY <1>1 DEF Respond, durable, Intake!Next, Intake!Tell

LEMMA StepRefines == IInv /\ [Next]_vars => [Intake!Next]_(Intake!vars)
<1> SUFFICES ASSUME IInv, [Next]_vars
             PROVE  Intake!Next \/ UNCHANGED <<custody, bindings, told>>
  BY DEF Intake!vars
<1>1. CASE Crash \/ UNCHANGED vars
  BY <1>1 DEF Crash, vars, durable
<1>2. ASSUME NEW r \in Requests, Receive(r) \/ Bind(r) \/ Respond(r)
      PROVE  Intake!Next \/ UNCHANGED <<custody, bindings, told>>
  BY <1>2, ReceiptRefines, BindingRefines, AnswerRefines
<1>3. ASSUME NEW r \in Requests,
             Post(r) \/ ReadBlock(r) \/ EndBody(r) \/ CutOff(r) \/ SpoolFails(r)
               \/ OwnerFails(r) \/ Get(r) \/ List(r)
      PROVE  UNCHANGED <<custody, bindings, told>>
  BY <1>3 DEF Post, ReadBlock, EndBody, CutOff, SpoolFails, OwnerFails, Get, List, durable
<1> QED
  BY <1>1, <1>2, <1>3 DEF Next, Provide

\* The two durable steps of an upload, which another request, a failure or a crash
\* may separate, are an intake: only what is kept is bound, bindings stay one to
\* one, none is undone, and no client is told of one that is not there.
THEOREM Refinement == Spec => ImplementsDocumentIntake
<1>1. Init => Intake!Init
  BY DEF Init, Intake!Init
<1> QED
  BY <1>1, StepRefines, Invariance, PTL DEF Spec, ImplementsDocumentIntake, Intake!Spec

===============================================================================
