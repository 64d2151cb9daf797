------------------------ MODULE CitationDocumentsProofs ------------------------
(***************************************************************************)
(* What the run of CitationDocuments shows on two workers, two PDFs and    *)
(* two commands, proved for any number of them.                            *)
(*                                                                         *)
(* The inductive invariant is IInv: beside the types it says of the        *)
(* registry that it is finite, and of what clients and workers have seen   *)
(* of it that these are earlier states of it, one within the next; and of  *)
(* each worker (Sound) what it relies on from one point to the next.  A    *)
(* worker's part is lost by none of the others' steps, because registry,   *)
(* custody and packages only grow (Grows), and the base projection is      *)
(* another one only after a crash, when nobody is at work.  With it the    *)
(* documents implement DocumentIntake.                                     *)
(***************************************************************************)
EXTENDS CitationDocuments, FiniteSetTheorems, TLAPS

Shapes ==
  /\ base \in Bases
  /\ custody \subseteq Pdfs
  /\ packages \subseteq Documents
  /\ results \subseteq Result
  /\ pc \in [Workers -> Points]
  /\ job \in [Workers -> Job]
  /\ uploads \in 0 .. MaxUploads
  /\ issued \in 0 .. MaxCommands
  /\ catalogs \subseteq Projection

\* What was processed.
Kept ==
  \A r \in results :
    /\ r.item \in Missing /\ r.pdf \in custody
    /\ Of(results, r.item, r.pdf) = {r}
    /\ r.status # "FAILED" => <<r.item, r.pdf>> \in packages

\* The states of the registry that were seen.
Snapshots == {P.results : P \in catalogs} \union {job[w].seen : w \in Workers}

SeenInOrder ==
  /\ \A X \in Snapshots : X \subseteq results
  /\ \A X, Y \in Snapshots : X \subseteq Y \/ Y \subseteq X

-------------------------------------------------------------------------------
\* What holds of one worker.

\* The operation of each point.
Placed(w) ==
  /\ pc[w] \in {"upload", "item", "custody"} => job[w].op = "receive"
  /\ pc[w] \in {"process", "action", "record"} => job[w].op = "process"
  /\ pc[w] = "catalog" => job[w].op = "catalog"
  /\ pc[w] \in {"list", "collect"} => job[w].op = "list"
  /\ pc[w] \in {"transcript", "registry"} => job[w].op = "transcript"

Short(w) == job[w].declared \in {NoLength, Size[job[w].pdf]}

\* An upload.
Judged(w) ==
  /\ pc[w] = "upload" => job[w].read <= Size[job[w].pdf] /\ job[w].read <= Limit
  /\ pc[w] \in {"item", "custody"} =>
       job[w].pdf \in Pdfs /\ Size[job[w].pdf] <= Limit /\ Short(w)
  /\ pc[w] = "answer" /\ job[w].op = "receive" =>
       /\ job[w].status = "OK" => job[w].pdf \in custody /\ Short(w)
       /\ job[w].status = "TOO_LARGE" => Size[job[w].pdf] > Limit \/ job[w].declared > Limit
       /\ job[w].status = "INVALID" => job[w].pdf \notin Pdfs \/ ~Short(w)

\* The retained result of the document of a job.
RetainedOf(w) == Of(results, job[w].item, job[w].pdf)

Earlier(w) == ResultsOf(job[w].floor, job[w].item)

\* A command.
Processed(w) ==
  /\ pc[w] \in {"process", "action", "record"} => job[w].pdf \in Pdfs
  /\ pc[w] \in {"action", "record"} => job[w].item \in Missing
  /\ pc[w] = "action" => Earlier(w) = {} \/ RetainedOf(w) # {}
  /\ pc[w] = "record" =>
       /\ Earlier(w) = {}
       /\ job[w].pdf \in custody
       /\ job[w].outcome # "FAILED" => <<job[w].item, job[w].pdf>> \in packages
  /\ pc[w] = "answer" /\ job[w].op = "process" =>
       /\ /\ job[w].expected = BaseProjection
          /\ Of(job[w].floor, job[w].item, job[w].pdf) # {}
          => job[w].status # "CONFLICT"
       /\ job[w].status \in Terminal =>
            RetainedOf(w) =
              {[item |-> job[w].item, pdf |-> job[w].pdf, status |-> job[w].status]}

\* A reading.
Shown(w) ==
  /\ pc[w] = "answer" /\ job[w].op = "catalog" =>
       /\ job[w].status = "OK" => job[w].floor \subseteq job[w].seen
       /\ job[w].status = "MALFORMED" => ~MatchesBase(results)
  /\ pc[w] = "collect" => job[w].listed = Configured
  /\ pc[w] = "registry" => <<job[w].item, job[w].pdf>> \notin Configured
  /\ pc[w] = "answer" /\ job[w].op = "list" /\ job[w].status = "OK" =>
       /\ Configured \union Verified(job[w].floor) \subseteq job[w].listed
       /\ job[w].listed \subseteq Configured \union Verified(results)
  /\ pc[w] = "answer" /\ job[w].op = "transcript" =>
       /\ job[w].status = "OK" =>
            <<job[w].item, job[w].pdf>> \in Configured \union Verified(results)
       /\ job[w].status = "NOT_FOUND" =>
            <<job[w].item, job[w].pdf>> \notin Configured \union Verified(job[w].floor)

Sound(w) ==
  /\ job[w].floor \subseteq results
  /\ Placed(w) /\ Judged(w) /\ Processed(w) /\ Shown(w)

Within == \A p \in custody : Size[p] <= Limit

IInv ==
  /\ Shapes
  /\ Kept
  /\ Within
  /\ IsFiniteSet(results)
  /\ SeenInOrder
  /\ \A w \in Workers : Sound(w)

\* What every step but a crash does to what the workers share.
Grows ==
  /\ base' = base
  /\ results \subseteq results' /\ custody \subseteq custody' /\ packages \subseteq packages'

\* What a step of w does to the others.
Alone(w) == \A v \in Workers \ {w} : pc'[v] = pc[v] /\ job'[v] = job[v]

\* The request a worker serves stays what it was.
SameRequest(w) ==
  /\ job'[w].op = job[w].op /\ job'[w].item = job[w].item /\ job'[w].pdf = job[w].pdf
  /\ job'[w].declared = job[w].declared /\ job'[w].expected = job[w].expected
  /\ job'[w].floor = job[w].floor

-------------------------------------------------------------------------------
\* The operators.

LEMMA VerifiedGrows ==
  ASSUME NEW R, NEW S, R \subseteq S
  PROVE  /\ Verified(R) \subseteq Verified(S)
         /\ \A i : ResultsOf(R, i) \subseteq ResultsOf(S, i)
         /\ \A i, p : Of(R, i, p) \subseteq Of(S, i, p)
         /\ \A i : VerifiedOf(R, i) \subseteq VerifiedOf(S, i)
<1>1. Verified(R) \subseteq Verified(S)
  BY DEF Verified
<1>2. \A i : ResultsOf(R, i) \subseteq ResultsOf(S, i)
  BY DEF ResultsOf
<1>3. \A i : VerifiedOf(R, i) \subseteq VerifiedOf(S, i)
  BY <1>1, <1>2 DEF VerifiedOf
<1> QED
  BY <1>1, <1>2, <1>3 DEF Of

LEMMA VerifiedType ==
  ASSUME NEW R \in SUBSET Result
  PROVE  Verified(R) \subseteq Documents
  BY DEF Verified, Result, Documents

\* The documents of a finite set of results are finitely many.
LEMMA VerifiedFinite ==
  ASSUME NEW R, IsFiniteSet(R), NEW i
  PROVE  IsFiniteSet(VerifiedOf(R, i))
<1> DEFINE S == ResultsOf(R, i)
           T == {<<r.item, r.pdf>> : r \in S}
           f == [r \in S |-> <<r.item, r.pdf>>]
<1>1. IsFiniteSet(S)
  BY FS_Subset DEF ResultsOf
<1>2. f \in Surjection(S, T)
  BY DEF Surjection
<1>3. IsFiniteSet(T)
  BY <1>1, <1>2, FS_Surjection
<1>4. VerifiedOf(R, i) \in SUBSET T
  BY DEF VerifiedOf
<1> QED
  BY <1>3, <1>4, FS_Subset

LEMMA SoleIsOne ==
  ASSUME NEW R, IsFiniteSet(R), NEW i
  PROVE  /\ SoleVerified(R, i) # {} => SoleVerified(R, i) = VerifiedOf(R, i)
         /\ SoleVerified(R, i) # {} => \E d : VerifiedOf(R, i) = {d}
  BY VerifiedFinite, FS_Singleton DEF SoleVerified

\* The catalog's items are as the response model wants them, because a document
\* has one result.
LEMMA ItemsConsistent ==
  ASSUME NEW R \in SUBSET Result, IsFiniteSet(R),
         \A r \in R : Of(R, r.item, r.pdf) = {r},
         NEW i
  PROVE  HasConsistentOwnerStates(R, i, ItemResponse(R, i))
<1> DEFINE ok == {r \in ResultsOf(R, i) : r.status = "SUCCEEDED"}
           docs == {<<r.item, r.pdf>> : r \in ok}
<1>1. IsFiniteSet(ok)
  BY FS_Subset DEF ResultsOf
<1>2. \A r, s \in R : r.item = s.item /\ r.pdf = s.pdf => r = s
  BY DEF Of
<1>3. VerifiedOf(R, i) = docs
  BY <1>2 DEF VerifiedOf, Verified, ResultsOf
<1>4. VerifiedOf(R, i) # {} <=> ok # {}
  <2>1. ASSUME NEW r \in ok PROVE docs # {}
    <3>1. <<r.item, r.pdf>> \in docs
      OBVIOUS
    <3> QED
      BY <3>1
  <2>2. ASSUME NEW d \in docs PROVE ok # {}
    BY <2>2
  <2> HIDE DEF ok, docs
  <2> QED
    BY <1>3, <2>1, <2>2
<1>5. Cardinality(VerifiedOf(R, i)) = 1 <=> Cardinality(ok) = 1
  <2>1. ASSUME NEW r, ok = {r} PROVE \E d : docs = {d}
    <3>1. \A d : d \in docs <=> d = <<r.item, r.pdf>>
      BY <2>1
    <3>2. docs = {<<r.item, r.pdf>>}
      BY <3>1
    <3> HIDE DEF docs
    <3> QED
      BY <3>2
  <2>2. ASSUME NEW d, docs = {d} PROVE \E r : ok = {r}
    <3>1. \A r \in ok : <<r.item, r.pdf>> = d
      BY <2>2
    <3>2. \A r, s \in ok : r = s
      BY <3>1, <1>2 DEF ResultsOf
    <3>3. PICK r : r \in ok
      BY <2>2
    <3>4. ok = {r}
      BY <3>2, <3>3
    <3> QED
      BY <3>4
  <2> HIDE DEF ok, docs
  <2>3. IsFiniteSet(docs)
    BY <1>3, VerifiedFinite
  <2>4. Cardinality(docs) = 1 <=> \E d : docs = {d}
    BY <2>3, FS_Singleton
  <2>5. Cardinality(ok) = 1 <=> \E r : ok = {r}
    BY <1>1, FS_Singleton
  <2> QED
    BY <1>3, <2>1, <2>2, <2>4, <2>5
<1>6. SoleVerified(R, i) = IF Cardinality(ok) = 1 THEN docs ELSE {}
  BY <1>3, <1>5 DEF SoleVerified
<1> HIDE DEF ok, docs
<1>7. /\ ItemResponse(R, i).technical = TechnicalStatus(R, i)
      /\ ItemResponse(R, i).transcript = (VerifiedOf(R, i) # {})
      /\ ItemResponse(R, i).document = SoleVerified(R, i)
      /\ ItemResponse(R, i).actions =
           IF SoleVerified(R, i) # {} THEN {"OPEN_TRANSCRIPT"}
           ELSE IF ProvidePdf(R, i) THEN {"PROVIDE_PDF"} ELSE {}
  BY DEF ItemResponse
<1> QED
  BY <1>4, <1>6, <1>7 DEF HasConsistentOwnerStates, ok, docs

-------------------------------------------------------------------------------
\* Steps that leave a worker alone, and answers.

\* A worker that does nothing stays sound while the others work.
LEMMA StaysSound ==
  ASSUME Kept, Kept', Grows, NEW v \in Workers, Sound(v),
         pc'[v] = pc[v], job'[v] = job[v]
  PROVE  Sound(v)'
<1>1. /\ Verified(results) \subseteq Verified(results')
      /\ \A i, p : Of(results, i, p) \subseteq Of(results', i, p)
  BY VerifiedGrows DEF Grows
<1>2. Earlier(v)' = Earlier(v) /\ Short(v)' = Short(v) /\ BaseProjection' = BaseProjection
  BY DEF Earlier, Short, BaseProjection, Grows
<1>3. RetainedOf(v) \subseteq RetainedOf(v)'
  BY <1>1 DEF RetainedOf
<1>4. ASSUME NEW r, RetainedOf(v) = {r} PROVE RetainedOf(v)' = {r}
  <2>1. r \in results' /\ r.item = job[v].item /\ r.pdf = job[v].pdf
    BY <1>4, <1>3 DEF RetainedOf, Of, Grows
  <2>2. Of(results, r.item, r.pdf)' = {r}
    BY <2>1 DEF Kept
  <2> QED
    BY <2>1, <2>2 DEF RetainedOf
<1>5. ~MatchesBase(results) => ~MatchesBase(results)'
  BY DEF MatchesBase, Grows
<1>6. Judged(v)' /\ Placed(v)'
  BY <1>2 DEF Sound, Judged, Placed, Grows
<1>7. Processed(v)'
  BY <1>2, <1>3, <1>4 DEF Sound, Processed, Grows
<1>8. Shown(v)'
  BY <1>1, <1>5 DEF Sound, Shown
<1> QED
  BY <1>6, <1>7, <1>8 DEF Sound, Grows

\* What Goto and Answer do.
LEMMA GotoDoes ==
  ASSUME Shapes, NEW w \in Workers, NEW point \in Points, Goto(w, point)
  PROVE  /\ pc' \in [Workers -> Points] /\ pc'[w] = point
         /\ \A v \in Workers \ {w} : pc'[v] = pc[v]
  BY DEF Shapes, Goto

LEMMA AnswerDoes ==
  ASSUME Shapes, NEW w \in Workers, NEW code \in Statuses, Answer(w, code)
  PROVE  /\ pc' \in [Workers -> Points] /\ job' \in [Workers -> Job]
         /\ pc'[w] = "answer" /\ job'[w].status = code
         /\ SameRequest(w) /\ Alone(w)
         /\ \A v \in Workers : job'[v].seen = job[v].seen
<1>1. pc' \in [Workers -> Points] /\ pc'[w] = "answer" /\ \A v \in Workers \ {w} : pc'[v] = pc[v]
  BY GotoDoes DEF Answer, Points
<1>2. job' = [job EXCEPT ![w] = [job[w] EXCEPT !.status = code]]
  BY DEF Answer, Shapes
<1>3. job[w] \in Job /\ [job[w] EXCEPT !.status = code] \in Job
  BY DEF Shapes, Job
<1>4. /\ job' \in [Workers -> Job] /\ job'[w] = [job[w] EXCEPT !.status = code]
      /\ \A v \in Workers \ {w} : job'[v] = job[v]
  BY <1>2, <1>3 DEF Shapes
<1>5. job'[w].status = code /\ SameRequest(w) /\ job'[w].seen = job[w].seen
  BY <1>3, <1>4 DEF SameRequest, Job
<1> QED
  BY <1>1, <1>4, <1>5 DEF Alone

LEMMA SameSnapshots ==
  ASSUME NEW w \in Workers, Alone(w), catalogs' = catalogs,
         job'[w].seen \in {job[w].seen, {}, results}
  PROVE  Snapshots' \subseteq Snapshots \union {{}, results}
<1>1. \A v \in Workers : job'[v].seen \in Snapshots \union {{}, results}
  BY DEF Snapshots, Alone
<1> QED
  BY <1>1 DEF Snapshots

\* A step of w with which nothing becomes retained keeps IInv if w stays sound.
LEMMA QuietStep ==
  ASSUME IInv, Shapes', NEW w \in Workers, Alone(w), Grows, results' = results,
         Within', Snapshots' \subseteq Snapshots \union {{}, results}, Sound(w)'
  PROVE  IInv'
<1>1. Kept'
  BY DEF IInv, Kept, Grows
<1>2. \A v \in Workers : Sound(v)'
  BY <1>1, StaysSound DEF IInv, Alone
<1>3. SeenInOrder'
  <2>1. \A X \in Snapshots \union {{}, results} : X \subseteq results
    BY DEF IInv, SeenInOrder
  <2>2. \A X, Y \in Snapshots \union {{}, results} : X \subseteq Y \/ Y \subseteq X
    BY <2>1 DEF IInv, SeenInOrder
  <2> QED
    BY <2>1, <2>2 DEF SeenInOrder
<1> QED
  BY <1>1, <1>2, <1>3 DEF IInv

\* An answer with an error of w, at any point, is sound.
LEMMA ErrorStep ==
  ASSUME IInv, NEW w \in Workers, NEW code \in Statuses,
         Answer(w, code), UNCHANGED <<base, durable, started, catalogs>>,
         \/ code = "UNAVAILABLE"
         \/ code = "NOT_FOUND" /\ pc[w] \in {"item", "process"}
         \/ code = "CONFLICT" /\ pc[w] = "item"
         \/ code = "MALFORMED" /\ pc[w] \in Points \ {"idle", "upload", "catalog", "answer"}
         \/ code = "INVALID" /\ pc[w] = "process"
         \/ code = "FAILED" /\ pc[w] = "upload"
  PROVE  IInv'
<1>1. /\ Shapes /\ Sound(w)
  BY DEF IInv
<1>2. /\ pc' \in [Workers -> Points] /\ job' \in [Workers -> Job]
      /\ pc'[w] = "answer" /\ job'[w].status = code
      /\ SameRequest(w) /\ Alone(w) /\ job'[w].seen = job[w].seen
  BY <1>1, AnswerDoes
<1>3. Shapes'
  BY <1>1, <1>2 DEF Shapes, durable, started
<1>4. Sound(w)'
  <2>1. job[w].floor \subseteq results
    BY <1>1 DEF Sound
  <2>2. Placed(w)'
    BY <1>2 DEF Placed
  <2>3. Judged(w)'
    BY <1>1, <1>2 DEF Sound, Placed, Judged, SameRequest
  <2>4. Processed(w)'
    BY <1>1, <1>2 DEF Sound, Placed, Processed, SameRequest, Terminal
  <2>a. code = "MALFORMED" => job[w].op # "catalog"
    BY <1>1 DEF Sound, Placed, Points
  <2>5. Shown(w)'
    <3>1. code \notin {"OK", "NOT_FOUND"} \/ job[w].op \notin {"list", "transcript", "catalog"}
      BY <1>1 DEF Sound, Placed
    <3> QED
      BY <1>2, <2>a, <3>1 DEF Shown, SameRequest
  <2> QED
    BY <1>2, <2>1, <2>2, <2>3, <2>4, <2>5 DEF Sound, SameRequest, durable
<1>5. Grows /\ results' = results /\ Within'
  BY DEF Grows, durable, IInv, Within
<1>6. Snapshots' \subseteq Snapshots \union {{}, results}
  BY <1>2, SameSnapshots
<1> QED
  BY <1>2, <1>3, <1>4, <1>5, <1>6, QuietStep

\* A step of w that changes nothing but its place and its job.
LEMMA PrivateStep ==
  ASSUME IInv, NEW w \in Workers, Alone(w), pc' \in [Workers -> Points],
         job' \in [Workers -> Job], UNCHANGED <<base, durable, catalogs>>,
         uploads' \in 0 .. MaxUploads, issued' \in 0 .. MaxCommands,
         job'[w].seen \in {job[w].seen, {}, results},
         Sound(w)'
  PROVE  IInv'
<1>1. Shapes'
  BY DEF IInv, Shapes, durable
<1>2. Grows /\ results' = results /\ Within'
  BY DEF Grows, durable, IInv, Within
<1>3. Snapshots' \subseteq Snapshots \union {{}, results}
  BY SameSnapshots
<1> QED
  BY <1>1, <1>2, <1>3, QuietStep

-------------------------------------------------------------------------------
\* Requests arrive.

LEMMA NoJobType == NoJob \in Job
<1>1. /\ NoJob.item \in Items /\ NoJob.pdf \in Bodies
  BY ValuesAssumption, BodiesAssumption DEF NoJob
<1>2. NoJob.declared \in Declared
  BY ValuesAssumption DEF NoJob
<1>3. NoJob.expected \in Projection
  BY DEF NoJob, Projection
<1> QED
  BY <1>1, <1>2, <1>3 DEF NoJob, Job, Operations, Terminal, Statuses

\* A request takes an idle worker.
LEMMA RequestDoes ==
  ASSUME Shapes, NEW w \in Workers, NEW q \in Job, Request(w, q)
  PROVE  /\ job' \in [Workers -> Job] /\ job'[w] = q
         /\ \A v \in Workers \ {w} : job'[v] = job[v]
         /\ UNCHANGED <<base, durable, catalogs>>
  BY DEF Shapes, Request

LEMMA GetStep ==
  ASSUME IInv, NEW w \in Workers, GetCatalog(w) \/ GetList(w) \/ GetTranscript(w)
  PROVE  IInv'
<1>0. Shapes
  BY DEF IInv
<1>1. PICK q \in Job, point \in Points :
        /\ Request(w, q) /\ Goto(w, point)
        /\ q.floor = results /\ q.seen = {}
        /\ \/ q.op = "catalog" /\ point = "catalog"
           \/ q.op = "list" /\ point = "list"
           \/ q.op = "transcript" /\ point = "transcript"
  <2>1. CASE GetCatalog(w)
    <3> DEFINE q == [NoJob EXCEPT !.floor = results]
    <3>1. q \in Job /\ q.floor = results /\ q.seen = {} /\ q.op = "catalog"
      BY <1>0, NoJobType DEF Job, NoJob, Shapes
    <3> QED
      BY <2>1, <3>1 DEF GetCatalog, Points
  <2>2. CASE GetList(w)
    <3> DEFINE q == [NoJob EXCEPT !.op = "list", !.floor = results]
    <3>1. q \in Job /\ q.floor = results /\ q.seen = {} /\ q.op = "list"
      BY <1>0, NoJobType DEF Job, NoJob, Shapes, Operations
    <3> QED
      BY <2>2, <3>1 DEF GetList, Points
  <2>3. CASE GetTranscript(w)
    <3>1. PICK i \in Items, p \in Pdfs :
            Request(w, [NoJob EXCEPT !.op = "transcript", !.item = i, !.pdf = p,
                                     !.floor = results])
      BY <2>3 DEF GetTranscript
    <3> DEFINE q == [NoJob EXCEPT !.op = "transcript", !.item = i, !.pdf = p,
                                  !.floor = results]
    <3>2. q \in Job /\ q.floor = results /\ q.seen = {} /\ q.op = "transcript"
      BY <1>0, NoJobType, BodiesAssumption DEF Job, NoJob, Shapes, Operations
    <3> QED
      BY <2>3, <3>1, <3>2 DEF GetTranscript, Points
  <2> QED
    BY <2>1, <2>2, <2>3
<1>2. /\ job' \in [Workers -> Job] /\ job'[w] = q
      /\ \A v \in Workers \ {w} : job'[v] = job[v]
      /\ UNCHANGED <<base, durable, catalogs>>
  BY <1>0, <1>1, RequestDoes
<1>3. pc' \in [Workers -> Points] /\ pc'[w] = point /\ Alone(w)
  BY <1>0, <1>1, <1>2, GotoDoes DEF Alone
<1>4. Sound(w)'
  BY <1>1, <1>2, <1>3 DEF Sound, Placed, Judged, Processed, Shown, durable
<1>5. uploads' \in 0 .. MaxUploads /\ issued' \in 0 .. MaxCommands
  BY <1>0 DEF Shapes, GetCatalog, GetList, GetTranscript, started
<1> QED
  BY <1>1, <1>2, <1>3, <1>4, <1>5, PrivateStep

\* A length no natural number can be is neither missing nor right.
LEMMA BadLengthIsWrong ==
  ASSUME NEW b \in Bodies
  PROVE  BadLength \notin {NoLength, Size[b]} /\ Size[b] \in Nat /\ Limit \in Nat
  BY BodiesAssumption DEF BadLength, NoLength

LEMMA PostSourceStep ==
  ASSUME IInv, NEW w \in Workers, PostSource(w)
  PROVE  IInv'
<1>0. Shapes
  BY DEF IInv
<1>1. PICK i \in Items, b \in Bodies, n \in Declared, code \in Statuses :
        /\ \/ code = "UNSUPPORTED"
           \/ code = "INVALID" /\ n = BadLength
           \/ code = "TOO_LARGE" /\ n > Limit
           \/ code = "OK" /\ n # BadLength /\ n <= Limit
        /\ Request(w, [NoJob EXCEPT !.op = "receive", !.item = i, !.pdf = b,
                                    !.declared = n, !.status = code])
        /\ Goto(w, IF code = "OK" THEN "upload" ELSE "answer")
  BY DEF PostSource
<1> DEFINE q == [NoJob EXCEPT !.op = "receive", !.item = i, !.pdf = b,
                              !.declared = n, !.status = code]
           point == IF code = "OK" THEN "upload" ELSE "answer"
<1>2. /\ q \in Job /\ q.op = "receive" /\ q.pdf = b /\ q.declared = n
      /\ q.status = code /\ q.read = 0 /\ q.floor = {} /\ q.seen = {}
  BY NoJobType DEF Job, NoJob, Operations
<1>3. point \in Points
  BY DEF Points
<1>4. /\ job' \in [Workers -> Job] /\ job'[w] = q
      /\ \A v \in Workers \ {w} : job'[v] = job[v]
      /\ UNCHANGED <<base, durable, catalogs>>
  BY <1>0, <1>1, <1>2, RequestDoes
<1>5. pc' \in [Workers -> Points] /\ pc'[w] = point /\ Alone(w)
  BY <1>0, <1>1, <1>3, <1>4, GotoDoes DEF Alone
<1> HIDE DEF q
<1>6. Judged(w)'
  <2>1. CASE code = "OK"
    BY <1>2, <1>4, <1>5, <2>1, BadLengthIsWrong DEF Judged
  <2>2. CASE code # "OK"
    BY <1>1, <1>2, <1>4, <1>5, <2>2, BadLengthIsWrong DEF Judged, Short
  <2> QED
    BY <2>1, <2>2
<1>7. Sound(w)'
  BY <1>2, <1>4, <1>5, <1>6 DEF Sound, Placed, Processed, Shown
<1>8. uploads' \in 0 .. MaxUploads /\ issued' \in 0 .. MaxCommands
  BY <1>0, BoundAssumption DEF Shapes, PostSource
<1> QED
  BY <1>2, <1>4, <1>5, <1>7, <1>8, PrivateStep

LEMMA PostProcessStep ==
  ASSUME IInv, NEW w \in Workers, PostProcess(w)
  PROVE  IInv'
<1>0. Shapes
  BY DEF IInv
<1>1. PICK i \in Items, p \in Pdfs, e \in catalogs :
        Request(w, [NoJob EXCEPT !.op = "process", !.item = i, !.pdf = p, !.expected = e,
                                 !.floor = results])
  BY DEF PostProcess
<1> DEFINE q == [NoJob EXCEPT !.op = "process", !.item = i, !.pdf = p, !.expected = e,
                              !.floor = results]
<1>2. /\ q \in Job /\ q.op = "process" /\ q.pdf = p /\ q.floor = results /\ q.seen = {}
  BY <1>0, NoJobType, BodiesAssumption DEF Job, NoJob, Operations, Shapes
<1>4. /\ job' \in [Workers -> Job] /\ job'[w] = q
      /\ \A v \in Workers \ {w} : job'[v] = job[v]
      /\ UNCHANGED <<base, durable, catalogs>>
  BY <1>0, <1>1, <1>2, RequestDoes
<1>5. pc' \in [Workers -> Points] /\ pc'[w] = "process" /\ Alone(w)
  BY <1>0, <1>4, GotoDoes DEF Alone, PostProcess, Points
<1> HIDE DEF q
<1>6. Sound(w)'
  BY <1>2, <1>4, <1>5 DEF Sound, Placed, Judged, Processed, Shown, durable
<1>7. uploads' \in 0 .. MaxUploads /\ issued' \in 0 .. MaxCommands
  BY <1>0, BoundAssumption DEF Shapes, PostProcess
<1> QED
  BY <1>2, <1>4, <1>5, <1>6, <1>7, PrivateStep

-------------------------------------------------------------------------------
\* The upload.

\* A step of w that moves it on and leaves its job as it is.
LEMMA MoveStep ==
  ASSUME IInv, NEW w \in Workers, NEW point \in Points, Goto(w, point),
         UNCHANGED <<base, durable, job, started, catalogs>>, Sound(w)'
  PROVE  IInv'
<1>1. Shapes
  BY DEF IInv
<1>2. pc' \in [Workers -> Points] /\ Alone(w)
  BY <1>1, GotoDoes DEF Alone
<1>3. job' \in [Workers -> Job] /\ uploads' \in 0 .. MaxUploads /\ issued' \in 0 .. MaxCommands
  BY <1>1 DEF Shapes, started
<1> QED
  BY <1>2, <1>3, PrivateStep

\* An answer of w that changes nothing else.
LEMMA AnswerStep ==
  ASSUME IInv, NEW w \in Workers, NEW code \in Statuses, Answer(w, code),
         UNCHANGED <<base, durable, started, catalogs>>, Sound(w)'
  PROVE  IInv'
<1>1. Shapes
  BY DEF IInv
<1>2. /\ pc' \in [Workers -> Points] /\ job' \in [Workers -> Job]
      /\ Alone(w) /\ job'[w].seen = job[w].seen
  BY <1>1, AnswerDoes
<1>3. uploads' \in 0 .. MaxUploads /\ issued' \in 0 .. MaxCommands
  BY <1>1 DEF Shapes, started
<1> QED
  BY <1>2, <1>3, PrivateStep

\* The length counted so far never exceeds the limit where the upload goes on.
LEMMA ReadChunkStep ==
  ASSUME IInv, NEW w \in Workers, ReadChunk(w)
  PROVE  IInv'
<1> DEFINE read == job[w].read + 1
           code == IF read > Limit THEN "TOO_LARGE" ELSE "OK"
<1>0. Shapes /\ Sound(w) /\ pc[w] = "upload" /\ job[w] \in Job
  BY DEF IInv, ReadChunk, At, Shapes
<1>1. /\ job[w].read \in Nat /\ job[w].op = "receive" /\ job[w].floor \subseteq results
      /\ job[w].read < Size[job[w].pdf]
      /\ Size[job[w].pdf] \in Nat /\ Limit \in Nat /\ job[w].pdf \in Bodies
  BY <1>0, BadLengthIsWrong DEF Sound, Placed, Job, ReadChunk
<1>2. /\ job' \in [Workers -> Job] /\ job'[w].read = read /\ job'[w].status = code
      /\ SameRequest(w) /\ job'[w].seen = job[w].seen
      /\ \A v \in Workers \ {w} : job'[v] = job[v]
  <2> DEFINE q == [job[w] EXCEPT !.read = read, !.status = code]
  <2>1. job' = [job EXCEPT ![w] = q]
    BY <1>0 DEF ReadChunk, Shapes
  <2>a. read \in Nat /\ code \in Statuses
    BY <1>1 DEF Statuses
  <2> HIDE DEF read, code
  <2>2. /\ q \in Job /\ q.read = read /\ q.status = code /\ q.op = job[w].op
        /\ q.item = job[w].item /\ q.pdf = job[w].pdf /\ q.declared = job[w].declared
        /\ q.expected = job[w].expected /\ q.floor = job[w].floor /\ q.seen = job[w].seen
    BY <1>0, <2>a DEF Job
  <2> HIDE DEF q
  <2> QED
    BY <1>0, <2>1, <2>2 DEF Shapes, SameRequest
<1>3. /\ pc' \in [Workers -> Points]
      /\ \A v \in Workers \ {w} : pc'[v] = pc[v]
      /\ pc'[w] = IF read > Limit THEN "answer" ELSE "upload"
  <2>1. CASE read > Limit
    BY <1>0, <2>1, GotoDoes DEF ReadChunk, Points
  <2>2. CASE ~(read > Limit)
    BY <1>0, <2>2 DEF ReadChunk, Shapes
  <2> QED
    BY <2>1, <2>2
<1>4. UNCHANGED <<base, durable, started, catalogs>>
  BY DEF ReadChunk
<1>5. Judged(w)'
  <2>1. CASE read > Limit
    BY <1>1, <1>2, <1>3, <2>1 DEF Judged, SameRequest
  <2>2. CASE ~(read > Limit)
    BY <1>1, <1>2, <1>3, <2>2 DEF Judged, SameRequest
  <2> QED
    BY <2>1, <2>2
<1>6. Sound(w)'
  BY <1>1, <1>2, <1>3, <1>4, <1>5 DEF Sound, Placed, Processed, Shown, SameRequest, durable
<1>7. uploads' \in 0 .. MaxUploads /\ issued' \in 0 .. MaxCommands /\ Alone(w)
  BY <1>0, <1>2, <1>3, <1>4 DEF Shapes, started, Alone
<1> QED
  BY <1>2, <1>3, <1>4, <1>6, <1>7, PrivateStep

\* Only a whole PDF within the limit, as long as declared, goes on.
LEMMA EndUploadStep ==
  ASSUME IInv, NEW w \in Workers, EndUpload(w)
  PROVE  IInv'
<1>0. /\ Shapes /\ Sound(w) /\ pc[w] = "upload" /\ job[w].op = "receive"
      /\ job[w].read = Size[job[w].pdf] /\ job[w].read <= Limit
      /\ job[w].floor \subseteq results
      /\ UNCHANGED <<base, durable, started, catalogs>>
  BY DEF IInv, EndUpload, At, Sound, Placed, Judged
<1>1. CASE Short(w) /\ job[w].pdf \in Pdfs
  <2>1. Goto(w, "item") /\ UNCHANGED job
    BY <1>0, <1>1 DEF EndUpload, Short
  <2>2. pc'[w] = "item" /\ Short(w)'
    BY <1>0, <1>1, <2>1, GotoDoes DEF Points, Short
  <2>3. Sound(w)'
    BY <1>0, <1>1, <2>1, <2>2 DEF Sound, Placed, Judged, Processed, Shown, durable
  <2> QED
    BY <1>0, <2>1, <2>3, MoveStep DEF Points
<1>2. CASE ~(Short(w) /\ job[w].pdf \in Pdfs)
  <2>1. Answer(w, "INVALID")
    BY <1>0, <1>2 DEF EndUpload, Short
  <2>2. pc'[w] = "answer" /\ job'[w].status = "INVALID" /\ SameRequest(w)
    BY <1>0, <2>1, AnswerDoes DEF Statuses
  <2>3. Short(w)' = Short(w)
    BY <2>2 DEF Short, SameRequest
  <2>4. Sound(w)'
    BY <1>0, <1>2, <2>2, <2>3 DEF Sound, Placed, Judged, Processed, Shown, SameRequest, durable
  <2> QED
    BY <1>0, <2>1, <2>4, AnswerStep DEF Statuses
<1> QED
  BY <1>1, <1>2

LEMMA CheckReceiveStep ==
  ASSUME IInv, NEW w \in Workers, CheckReceive(w)
  PROVE  IInv'
<1>0. /\ Shapes /\ Sound(w) /\ pc[w] = "item"
      /\ UNCHANGED <<base, durable, started, catalogs>>
  BY DEF IInv, CheckReceive, At
<1>1. CASE Answer(w, "NOT_FOUND") \/ Answer(w, "CONFLICT")
  BY <1>0, <1>1, ErrorStep DEF Statuses
<1>2. CASE Goto(w, "custody") /\ UNCHANGED job
  <2>1. pc'[w] = "custody" /\ Short(w)' = Short(w)
    BY <1>0, <1>2, GotoDoes DEF Points, Short
  <2>2. Sound(w)'
    BY <1>0, <1>2, <2>1 DEF Sound, Placed, Judged, Processed, Shown, durable
  <2> QED
    BY <1>0, <1>2, <2>2, MoveStep DEF Points
<1> QED
  BY <1>1, <1>2 DEF CheckReceive

LEMMA ReceiveStep ==
  ASSUME IInv, NEW w \in Workers, Receive(w)
  PROVE  IInv'
<1>0. /\ Shapes /\ Sound(w) /\ pc[w] = "custody" /\ job[w].op = "receive"
      /\ job[w].pdf \in Pdfs /\ Size[job[w].pdf] <= Limit /\ Short(w)
      /\ job[w].floor \subseteq results
      /\ custody' = custody \union {job[w].pdf}
      /\ UNCHANGED <<base, packages, results, started, catalogs>>
  BY DEF IInv, Receive, At, Sound, Placed, Judged
<1>a. PICK code \in {"OK", "MALFORMED"} : Answer(w, code)
  BY DEF Receive
<1>1. /\ pc' \in [Workers -> Points] /\ job' \in [Workers -> Job]
      /\ pc'[w] = "answer" /\ job'[w].status = code /\ SameRequest(w) /\ Alone(w)
      /\ job'[w].seen = job[w].seen
  BY <1>0, <1>a, AnswerDoes DEF Statuses
<1>2. Short(w)' = Short(w)
  BY <1>1 DEF Short, SameRequest
<1>3. Sound(w)'
  BY <1>0, <1>1, <1>2 DEF Sound, Placed, Judged, Processed, Shown, SameRequest
<1>4. Grows /\ Within' /\ Shapes'
  BY <1>0, <1>1 DEF Grows, IInv, Within, Shapes, started
<1>5. Snapshots' \subseteq Snapshots \union {{}, results}
  BY <1>0, <1>1, SameSnapshots
<1> QED
  BY <1>0, <1>1, <1>3, <1>4, <1>5, QuietStep

-------------------------------------------------------------------------------
\* The command.

LEMMA CheckProcessStep ==
  ASSUME IInv, NEW w \in Workers, CheckProcess(w)
  PROVE  IInv'
<1>0. /\ Shapes /\ Sound(w) /\ pc[w] = "process" /\ job[w].op = "process"
      /\ job[w].pdf \in Pdfs /\ job[w].floor \subseteq results
      /\ UNCHANGED <<base, durable, started, catalogs>>
  BY DEF IInv, CheckProcess, At, Sound, Placed, Processed
<1>1. CASE Answer(w, "NOT_FOUND")
  BY <1>0, <1>1, ErrorStep DEF Statuses
<1>2. CASE /\ job[w].item \notin Missing \/ job[w].expected # BaseProjection \/ RelatedConflict(w)
           /\ Answer(w, "CONFLICT")
  <2>1. pc'[w] = "answer" /\ job'[w].status = "CONFLICT" /\ SameRequest(w)
    BY <1>0, <1>2, AnswerDoes DEF Statuses
  <2>2. BaseProjection' = BaseProjection
    BY <1>0 DEF BaseProjection
  <2>3. /\ Of(job[w].floor, job[w].item, job[w].pdf) # {} =>
             job[w].item \in Missing /\ ~RelatedConflict(w)
    BY <1>0, VerifiedGrows DEF RelatedConflict, Of, IInv, Kept
  <2>4. Sound(w)'
    BY <1>0, <1>2, <2>1, <2>2, <2>3
    DEF Sound, Placed, Judged, Processed, Shown, SameRequest, durable, Terminal
  <2> QED
    BY <1>0, <1>2, <2>4, AnswerStep DEF Statuses
<1>3. CASE /\ job[w].item \in Missing /\ ~RelatedConflict(w)
           /\ Goto(w, "action") /\ UNCHANGED job
  <2>1. pc'[w] = "action"
    BY <1>0, <1>3, GotoDoes DEF Points
  <2>2. Earlier(w)' = {} \/ RetainedOf(w)' # {}
    <3>1. Earlier(w) \subseteq ResultsOf(results, job[w].item)
      BY <1>0, VerifiedGrows DEF Earlier
    <3>2. Earlier(w) = {} \/ RetainedOf(w) # {}
      BY <1>3, <3>1 DEF RelatedConflict, RetainedOf
    <3> QED
      BY <1>0, <1>3, <3>2 DEF Earlier, RetainedOf, durable
  <2>3. Sound(w)'
    BY <1>0, <1>3, <2>1, <2>2 DEF Sound, Placed, Judged, Processed, Shown, durable
  <2> QED
    BY <1>0, <1>3, <2>3, MoveStep DEF Points
<1> QED
  BY <1>1, <1>2, <1>3 DEF CheckProcess

\* The result of a document is the answer to whoever asks for it.
LEMMA AnsweredByResult ==
  ASSUME IInv, NEW w \in Workers, job[w].op = "process",
         NEW r \in RetainedOf(w), Answer(w, r.status),
         UNCHANGED <<base, durable, started, catalogs>>
  PROVE  IInv'
<1>0. Shapes /\ job[w].floor \subseteq results
  BY DEF IInv, Sound
<1>1. /\ r \in results /\ r.item = job[w].item /\ r.pdf = job[w].pdf
      /\ r \in Result /\ r.status \in Terminal
  BY <1>0 DEF RetainedOf, Of, Shapes, Result
<1>2. RetainedOf(w) = {r}
  BY <1>1 DEF RetainedOf, IInv, Kept
<1>3. r = [item |-> job[w].item, pdf |-> job[w].pdf, status |-> r.status]
  BY <1>1 DEF Result
<1>4. r.status \in Statuses /\ r.status # "CONFLICT"
  BY <1>1 DEF Terminal, Statuses
<1>5. pc'[w] = "answer" /\ job'[w].status = r.status /\ SameRequest(w)
  BY <1>0, <1>4, AnswerDoes
<1>6. RetainedOf(w)' = RetainedOf(w)
  BY <1>5 DEF RetainedOf, SameRequest, durable
<1>7. Processed(w)'
  BY <1>2, <1>3, <1>4, <1>5, <1>6 DEF Processed, SameRequest
<1>8. Sound(w)'
  BY <1>0, <1>5, <1>7 DEF Sound, Placed, Judged, Shown, SameRequest, durable
<1> QED
  BY <1>4, <1>8, AnswerStep

LEMMA ActionReplayedStep ==
  ASSUME IInv, NEW w \in Workers, ActionReplayed(w)
  PROVE  IInv'
<1>1. PICK r \in RetainedOf(w) : Answer(w, r.status)
  BY DEF ActionReplayed, RetainedOf
<1>2. job[w].op = "process" /\ UNCHANGED <<base, durable, started, catalogs>>
  BY DEF ActionReplayed, IInv, Sound, Placed, At
<1> QED
  BY <1>1, <1>2, AnsweredByResult

LEMMA ActionRunsStep ==
  ASSUME IInv, NEW w \in Workers, ActionRuns(w)
  PROVE  IInv'
<1> DEFINE d == <<job[w].item, job[w].pdf>>
<1>0. /\ Shapes /\ Sound(w) /\ pc[w] = "action" /\ job[w].op = "process"
      /\ job[w].pdf \in Pdfs /\ job[w].item \in Missing /\ job[w].floor \subseteq results
      /\ RetainedOf(w) = {} /\ Earlier(w) = {}
      /\ job[w].pdf \in custody /\ job[w] \in Job
      /\ UNCHANGED <<base, custody, results, started, catalogs>>
  BY DEF IInv, ActionRuns, At, Sound, Placed, Processed, RetainedOf, Shapes
<1>1. PICK o \in Terminal :
        /\ packages' = IF o = "FAILED" THEN packages ELSE packages \union {d}
        /\ job' = [job EXCEPT ![w].outcome = o]
  BY DEF ActionRuns
<1>2. /\ job' \in [Workers -> Job] /\ job'[w].outcome = o
      /\ SameRequest(w) /\ job'[w].seen = job[w].seen
      /\ \A v \in Workers \ {w} : job'[v] = job[v]
  <2> DEFINE q == [job[w] EXCEPT !.outcome = o]
  <2>1. job' = [job EXCEPT ![w] = q]
    BY <1>0, <1>1 DEF Shapes
  <2>2. /\ q \in Job /\ q.outcome = o /\ q.op = job[w].op
        /\ q.item = job[w].item /\ q.pdf = job[w].pdf /\ q.declared = job[w].declared
        /\ q.expected = job[w].expected /\ q.floor = job[w].floor /\ q.seen = job[w].seen
    BY <1>0 DEF Job
  <2> HIDE DEF q
  <2> QED
    BY <1>0, <2>1, <2>2 DEF Shapes, SameRequest
<1>3. pc' \in [Workers -> Points] /\ pc'[w] = "record" /\ Alone(w)
  BY <1>0, <1>2, GotoDoes DEF ActionRuns, Points, Alone
<1>4. d \in Documents
  BY <1>0 DEF Documents, Job
<1>5. Shapes' /\ Grows /\ Within'
  BY <1>0, <1>1, <1>2, <1>3, <1>4 DEF Shapes, Grows, started, IInv, Within
<1>6. Earlier(w)' = Earlier(w)
  BY <1>2 DEF Earlier, SameRequest
<1>7. Processed(w)'
  BY <1>0, <1>1, <1>2, <1>3, <1>6 DEF Processed, SameRequest
<1>8. Sound(w)'
  BY <1>0, <1>2, <1>3, <1>7 DEF Sound, Placed, Judged, Shown, SameRequest
<1>9. Snapshots' \subseteq Snapshots \union {{}, results}
  BY <1>0, <1>2, <1>3, SameSnapshots
<1> QED
  BY <1>0, <1>3, <1>5, <1>8, <1>9, QuietStep

\* What is retained is the first result of its document, so nothing retained is
\* lost, and what was seen is within it.
LEMMA RecordStep ==
  ASSUME IInv, NEW w \in Workers, Record(w)
  PROVE  IInv'
<1> DEFINE new == Outcome(w)
<1>0. /\ Shapes /\ Kept /\ Sound(w) /\ pc[w] = "record" /\ job[w].op = "process"
      /\ job[w].pdf \in Pdfs /\ job[w].item \in Missing /\ job[w].floor \subseteq results
      /\ job[w].pdf \in custody /\ Earlier(w) = {} /\ job[w] \in Job
      /\ job[w].outcome # "FAILED" => <<job[w].item, job[w].pdf>> \in packages
      /\ UNCHANGED <<base, custody, packages, started, catalogs>>
  BY DEF IInv, Record, At, Sound, Placed, Processed, Shapes
<1>1. CASE UNCHANGED results /\ \E r \in RetainedOf(w) : Answer(w, r.status)
  BY <1>0, <1>1, AnsweredByResult DEF durable
<1>2. CASE /\ RetainedOf(w) = {} /\ results' = results \union {new}
           /\ \E code \in {job[w].outcome, "MALFORMED"} : Answer(w, code)
  <2>1. /\ new \in Result /\ new.item = job[w].item /\ new.pdf = job[w].pdf
        /\ new.status = job[w].outcome /\ job[w].outcome \in Terminal
        /\ new = [item |-> job[w].item, pdf |-> job[w].pdf, status |-> job[w].outcome]
    BY <1>0, ItemsAssumption DEF Outcome, Result, Job
  <2>a. PICK code \in {job[w].outcome, "MALFORMED"} : Answer(w, code)
    BY <1>2
  <2>2. /\ code \in Statuses /\ code # "CONFLICT"
        /\ code \in Terminal => code = job[w].outcome
    BY <2>1, <2>a DEF Terminal, Statuses
  <2>3. /\ pc' \in [Workers -> Points] /\ job' \in [Workers -> Job]
        /\ pc'[w] = "answer" /\ job'[w].status = code /\ SameRequest(w) /\ Alone(w)
        /\ \A v \in Workers : job'[v].seen = job[v].seen
    BY <1>0, <2>a, <2>2, AnswerDoes
  <2>4. Shapes' /\ Grows
    BY <1>0, <1>2, <2>1, <2>3 DEF Shapes, Grows, started
  <2>5. Kept'
    <3> SUFFICES ASSUME NEW r \in results'
                 PROVE  /\ r.item \in Missing /\ r.pdf \in custody'
                        /\ Of(results', r.item, r.pdf) = {r}
                        /\ r.status # "FAILED" => <<r.item, r.pdf>> \in packages'
      BY DEF Kept
    <3>1. \A s \in results : s.item # new.item \/ s.pdf # new.pdf
      BY <1>2, <2>1 DEF RetainedOf, Of
    <3>2. CASE r \in results
      <4>1. Of(results, r.item, r.pdf) = {r}
        BY <1>0, <3>2 DEF Kept
      <4>2. Of(results', r.item, r.pdf) = {r}
        BY <4>1, <1>2, <3>1, <3>2 DEF Of
      <4> QED
        BY <1>0, <3>2, <4>2 DEF Kept
    <3>3. CASE r = new
      <4>1. Of(results', r.item, r.pdf) = {r}
        BY <1>2, <3>1, <3>3 DEF Of
      <4> QED
        BY <1>0, <2>1, <3>3, <4>1
    <3> QED
      BY <1>2, <3>2, <3>3
  <2>6. RetainedOf(w)' = {new}
    <3>1. RetainedOf(w)' = Of(results', job[w].item, job[w].pdf)
      BY <2>3 DEF RetainedOf, SameRequest
    <3>2. new \in results'
      BY <1>2
    <3> QED
      BY <3>1, <3>2, <2>1, <2>5 DEF Kept
  <2>7. Processed(w)'
    BY <2>1, <2>2, <2>3, <2>6 DEF Processed, SameRequest
  <2>8. Sound(w)'
    BY <1>0, <2>3, <2>4, <2>7 DEF Sound, Placed, Judged, Shown, SameRequest, Grows
  <2>9. \A v \in Workers : Sound(v)'
    BY <1>0, <2>3, <2>4, <2>5, <2>8, StaysSound DEF IInv, Alone
  <2>10. IsFiniteSet(results')
    BY <1>2, FS_AddElement DEF IInv
  <2>11. SeenInOrder'
    <3>1. Snapshots' = Snapshots
      BY <1>0, <2>3 DEF Snapshots
    <3> QED
      BY <3>1, <2>4 DEF IInv, SeenInOrder, Grows
  <2>12. Within'
    BY <1>0 DEF IInv, Within
  <2> QED
    BY <2>4, <2>5, <2>9, <2>10, <2>11, <2>12 DEF IInv
<1> QED
  BY <1>1, <1>2 DEF Record, RetainedOf

-------------------------------------------------------------------------------
\* The readings.

LEMMA ReadCatalogStep ==
  ASSUME IInv, NEW w \in Workers, ReadCatalog(w)
  PROVE  IInv'
<1> DEFINE good == /\ MatchesBase(results)
                   /\ \A i \in base : HasConsistentOwnerStates(results, i, ItemResponse(results, i))
           code == IF good THEN "OK" ELSE "MALFORMED"
<1>0. /\ Shapes /\ Sound(w) /\ pc[w] = "catalog" /\ job[w].op = "catalog"
      /\ job[w].floor \subseteq results /\ job[w] \in Job /\ results \in SUBSET Result
      /\ UNCHANGED <<base, durable, started, catalogs>>
  BY DEF IInv, ReadCatalog, At, Sound, Placed, Shapes
<1>1. \A i \in base : HasConsistentOwnerStates(results, i, ItemResponse(results, i))
  BY <1>0, ItemsConsistent DEF IInv, Kept
<1>2. code \in Statuses /\ (code = "MALFORMED" <=> ~MatchesBase(results))
  BY <1>1 DEF Statuses
<1>a. job' = [job EXCEPT ![w].seen = results, ![w].status = code]
  BY DEF ReadCatalog
<1> HIDE DEF code
<1>3. /\ job' \in [Workers -> Job] /\ job'[w].seen = results /\ job'[w].status = code
      /\ SameRequest(w)
      /\ \A v \in Workers \ {w} : job'[v] = job[v]
  <2> DEFINE q == [job[w] EXCEPT !.seen = results, !.status = code]
  <2>1. job' = [job EXCEPT ![w] = q]
    BY <1>0, <1>a DEF Shapes
  <2>2. /\ q \in Job /\ q.seen = results /\ q.status = code /\ q.op = job[w].op
        /\ q.item = job[w].item /\ q.pdf = job[w].pdf /\ q.declared = job[w].declared
        /\ q.expected = job[w].expected /\ q.floor = job[w].floor
    BY <1>0, <1>2 DEF Job
  <2> HIDE DEF q
  <2> QED
    BY <1>0, <2>1, <2>2 DEF Shapes, SameRequest
<1>4. pc' \in [Workers -> Points] /\ pc'[w] = "answer" /\ Alone(w)
  BY <1>0, <1>3, GotoDoes DEF ReadCatalog, Points, Alone
<1>5. MatchesBase(results)' = MatchesBase(results)
  BY <1>0 DEF MatchesBase, durable
<1>6. Sound(w)'
  BY <1>0, <1>2, <1>3, <1>4, <1>5 DEF Sound, Placed, Judged, Processed, Shown, SameRequest, durable
<1>7. uploads' \in 0 .. MaxUploads /\ issued' \in 0 .. MaxCommands
  BY <1>0 DEF Shapes, started
<1> QED
  BY <1>0, <1>3, <1>4, <1>6, <1>7, PrivateStep

\* The documents of a job's list become L, and its status code.
LEMMA ListedDoes ==
  ASSUME Shapes, NEW w \in Workers, NEW L \in SUBSET Documents, NEW code \in Statuses,
         job' = [job EXCEPT ![w].listed = L, ![w].status = code]
  PROVE  /\ job' \in [Workers -> Job] /\ job'[w].listed = L /\ job'[w].status = code
         /\ SameRequest(w) /\ job'[w].seen = job[w].seen
         /\ \A v \in Workers \ {w} : job'[v] = job[v]
<1> DEFINE q == [job[w] EXCEPT !.listed = L, !.status = code]
<1>0. job[w] \in Job
  BY DEF Shapes
<1>1. job' = [job EXCEPT ![w] = q]
  BY DEF Shapes
<1>2. /\ q \in Job /\ q.listed = L /\ q.status = code /\ q.op = job[w].op
      /\ q.item = job[w].item /\ q.pdf = job[w].pdf /\ q.declared = job[w].declared
      /\ q.expected = job[w].expected /\ q.floor = job[w].floor /\ q.seen = job[w].seen
  BY <1>0 DEF Job
<1> HIDE DEF q
<1> QED
  BY <1>1, <1>2 DEF Shapes, SameRequest

LEMMA ListStep ==
  ASSUME IInv, NEW w \in Workers, ListConfigured(w) \/ ListProcessed(w)
  PROVE  IInv'
<1>0. /\ Shapes /\ Sound(w) /\ job[w].op = "list" /\ job[w].floor \subseteq results
      /\ pc[w] \in {"list", "collect"} /\ job[w] \in Job
      /\ UNCHANGED <<base, durable, started, catalogs>>
  BY DEF IInv, ListConfigured, ListProcessed, At, Sound, Placed, Shapes
<1>1. Configured \in SUBSET Documents
  BY ConfiguredAssumption
<1>2. uploads' \in 0 .. MaxUploads /\ issued' \in 0 .. MaxCommands
  BY <1>0 DEF Shapes, started
<1>3. CASE ListConfigured(w)
  <2>1. job' = [job EXCEPT ![w].listed = Configured, ![w].status = job[w].status]
    BY <1>0, <1>3 DEF ListConfigured, Shapes, Job
  <2>2. job[w].status \in Statuses
    BY <1>0 DEF Job
  <2>3. /\ job' \in [Workers -> Job] /\ job'[w].listed = Configured
        /\ SameRequest(w) /\ job'[w].seen = job[w].seen
        /\ \A v \in Workers \ {w} : job'[v] = job[v]
    BY <1>0, <1>1, <2>1, <2>2, ListedDoes
  <2>4. pc' \in [Workers -> Points] /\ pc'[w] = "collect" /\ Alone(w)
    BY <1>0, <1>3, <2>3, GotoDoes DEF ListConfigured, Points, Alone
  <2>5. Sound(w)'
    BY <1>0, <2>3, <2>4 DEF Sound, Placed, Judged, Processed, Shown, SameRequest, durable
  <2> QED
    BY <1>0, <1>2, <2>3, <2>4, <2>5, PrivateStep
<1>4. CASE ListProcessed(w)
  <2> DEFINE code == IF Unique(job[w].listed, Verified(results)) THEN "OK" ELSE "MALFORMED"
             L == job[w].listed \union Verified(results)
  <2>1. job' = [job EXCEPT ![w].listed = L, ![w].status = code]
    BY <1>0, <1>4 DEF ListProcessed, Shapes
  <2>2. code \in Statuses /\ L \in SUBSET Documents
    BY <1>0, VerifiedType DEF Statuses, Job, Shapes
  <2> HIDE DEF code
  <2>3. /\ job' \in [Workers -> Job] /\ job'[w].listed = L /\ job'[w].status = code
        /\ SameRequest(w) /\ job'[w].seen = job[w].seen
        /\ \A v \in Workers \ {w} : job'[v] = job[v]
    BY <1>0, <2>1, <2>2, ListedDoes
  <2>4. pc' \in [Workers -> Points] /\ pc'[w] = "answer" /\ Alone(w)
    BY <1>0, <1>4, <2>3, GotoDoes DEF ListProcessed, Points, Alone
  <2>5. job[w].listed = Configured /\ Verified(job[w].floor) \subseteq Verified(results)
    BY <1>0, <1>4, VerifiedGrows DEF ListProcessed, Sound, Shown, At
  <2>6. Sound(w)'
    BY <1>0, <2>3, <2>4, <2>5 DEF Sound, Placed, Judged, Processed, Shown, SameRequest, durable
  <2> QED
    BY <1>0, <1>2, <2>3, <2>4, <2>6, PrivateStep
<1> QED
  BY <1>3, <1>4

LEMMA TranscriptStep ==
  ASSUME IInv, NEW w \in Workers, ReadConfigured(w) \/ ReadTranscript(w)
  PROVE  IInv'
<1> DEFINE d == <<job[w].item, job[w].pdf>>
<1>0. /\ Shapes /\ Sound(w) /\ job[w].op = "transcript"
      /\ pc[w] \in {"transcript", "registry"} /\ job[w].floor \subseteq results
      /\ UNCHANGED <<base, durable, started, catalogs>>
  BY DEF IInv, ReadConfigured, ReadTranscript, At, Sound, Placed
<1>1. Verified(job[w].floor) \subseteq Verified(results)
  BY <1>0, VerifiedGrows
<1>2. CASE Goto(w, "registry") /\ UNCHANGED job /\ d \notin Configured
  <2>1. pc'[w] = "registry"
    BY <1>0, <1>2, GotoDoes DEF Points
  <2>2. Sound(w)'
    BY <1>0, <1>2, <2>1 DEF Sound, Placed, Judged, Processed, Shown, durable
  <2> QED
    BY <1>0, <1>2, <2>2, MoveStep DEF Points
<1>3. CASE Answer(w, "OK") /\ d \in Configured \union Verified(results)
  <2>1. pc'[w] = "answer" /\ job'[w].status = "OK" /\ SameRequest(w)
    BY <1>0, <1>3, AnswerDoes DEF Statuses
  <2>2. Sound(w)'
    BY <1>0, <1>3, <2>1 DEF Sound, Placed, Judged, Processed, Shown, SameRequest, durable
  <2> QED
    BY <1>0, <1>3, <2>2, AnswerStep DEF Statuses
<1>4. CASE Answer(w, "NOT_FOUND") /\ d \notin Configured \union Verified(results)
  <2>1. pc'[w] = "answer" /\ job'[w].status = "NOT_FOUND" /\ SameRequest(w)
    BY <1>0, <1>4, AnswerDoes DEF Statuses
  <2>2. Sound(w)'
    BY <1>0, <1>1, <1>4, <2>1 DEF Sound, Placed, Judged, Processed, Shown, SameRequest, durable
  <2> QED
    BY <1>0, <1>4, <2>2, AnswerStep DEF Statuses
<1>5. CASE ReadConfigured(w)
  BY <1>2, <1>3, <1>5 DEF ReadConfigured
<1>6. CASE ReadTranscript(w)
  <2>1. d \notin Configured
    BY <1>6 DEF ReadTranscript, At, IInv, Sound, Shown
  <2> QED
    BY <1>3, <1>4, <1>6, <2>1 DEF ReadTranscript
<1> QED
  BY <1>5, <1>6

-------------------------------------------------------------------------------
\* The end of a request, and of the process.

\* A worker without work is sound.
LEMMA IdleSound ==
  ASSUME NEW w \in Workers, pc'[w] = "idle", job'[w] = NoJob
  PROVE  Sound(w)'
<1>1. job'[w].floor = {}
  BY DEF NoJob
<1> QED
  BY <1>1 DEF Sound, Placed, Judged, Processed, Shown

LEMMA RespondStep ==
  ASSUME IInv, NEW w \in Workers, Respond(w)
  PROVE  IInv'
<1>0. /\ Shapes /\ job[w] \in Job /\ pc[w] = "answer"
      /\ UNCHANGED <<base, durable, started>>
  BY DEF IInv, Respond, Shapes, At
<1>1. /\ job' \in [Workers -> Job] /\ job'[w] = NoJob
      /\ \A v \in Workers \ {w} : job'[v] = job[v]
  BY <1>0, NoJobType DEF Respond, Shapes
<1>2. pc' \in [Workers -> Points] /\ pc'[w] = "idle" /\ Alone(w)
  BY <1>0, <1>1, GotoDoes DEF Respond, Points, Alone
<1> DEFINE P == [base |-> base, results |-> job[w].seen]
<1>3. catalogs' \subseteq catalogs \union {P}
  BY DEF Respond
<1>4. P \in Projection /\ P.results = job[w].seen
  BY <1>0, ItemsAssumption DEF Projection, Job, Shapes
<1>5. Shapes'
  BY <1>0, <1>1, <1>2, <1>3, <1>4 DEF Shapes, durable, started
<1>6. Snapshots' \subseteq Snapshots \union {{}, results}
  <2>1. job'[w].seen = {}
    BY <1>1 DEF NoJob
  <2>2. \A v \in Workers : job'[v].seen \in Snapshots \union {{}, results}
    BY <1>1, <2>1 DEF Snapshots
  <2>3. \A Q \in catalogs' : Q.results \in Snapshots
    BY <1>3, <1>4 DEF Snapshots
  <2> QED
    BY <2>2, <2>3 DEF Snapshots
<1>7. Sound(w)'
  BY <1>1, <1>2, IdleSound
<1>8. Grows /\ results' = results /\ Within'
  BY <1>0 DEF Grows, durable, IInv, Within
<1> QED
  BY <1>2, <1>5, <1>6, <1>7, <1>8, QuietStep

LEMMA CrashStep ==
  ASSUME IInv, Crash
  PROVE  IInv'
<1>0. /\ Shapes /\ UNCHANGED <<durable, started, catalogs>> /\ base' \in Bases
      /\ pc' = [w \in Workers |-> "idle"] /\ job' = [w \in Workers |-> NoJob]
  BY DEF IInv, Crash
<1>1. Shapes'
  BY <1>0, NoJobType DEF Shapes, durable, started, Points
<1>2. Kept' /\ Within' /\ IsFiniteSet(results)'
  BY <1>0 DEF IInv, Kept, Within, durable
<1>3. \A w \in Workers : Sound(w)'
  BY <1>0, IdleSound
<1>4. SeenInOrder'
  <2>1. \A w \in Workers : job'[w].seen = {}
    BY <1>0 DEF NoJob
  <2>2. Snapshots' \subseteq Snapshots \union {{}}
    BY <1>0, <2>1 DEF Snapshots
  <2>3. results' = results
    BY <1>0 DEF durable
  <2> QED
    BY <2>2, <2>3 DEF IInv, SeenInOrder
<1> QED
  BY <1>1, <1>2, <1>3, <1>4 DEF IInv

LEMMA InitInv == Init => IInv
<1> SUFFICES ASSUME Init PROVE IInv
  OBVIOUS
<1>1. /\ results = {} /\ catalogs = {} /\ packages = {} /\ custody = Held
      /\ pc = [w \in Workers |-> "idle"] /\ job = [w \in Workers |-> NoJob]
  BY DEF Init
<1>2. Shapes
  BY <1>1, NoJobType, BodiesAssumption, BoundAssumption DEF Init, Shapes, Points
<1>3. Kept /\ Within
  BY <1>1, BodiesAssumption DEF Kept, Within
<1>4. IsFiniteSet(results)
  BY <1>1, FS_EmptySet
<1>5. \A w \in Workers : job[w].seen = {} /\ job[w].floor = {} /\ pc[w] = "idle"
  BY <1>1 DEF NoJob
<1>6. SeenInOrder
  <2>1. Snapshots \subseteq {{}}
    BY <1>1, <1>5 DEF Snapshots
  <2> QED
    BY <2>1 DEF SeenInOrder
<1>7. \A w \in Workers : Sound(w)
  BY <1>5 DEF Sound, Placed, Judged, Processed, Shown
<1> QED
  BY <1>2, <1>3, <1>4, <1>6, <1>7 DEF IInv

LEMMA NextInv == IInv /\ [Next]_vars => IInv'
<1> SUFFICES ASSUME IInv, [Next]_vars PROVE IInv'
  OBVIOUS
<1>1. CASE Crash
  BY <1>1, CrashStep
<1>2. ASSUME NEW w \in Workers, Ask(w) PROVE IInv'
  BY <1>2, GetStep, PostSourceStep, PostProcessStep DEF Ask
<1>3. ASSUME NEW w \in Workers, Upload(w) PROVE IInv'
  <2>1. CASE UploadFails(w)
    BY <2>1, ErrorStep DEF UploadFails, Statuses, At
  <2> QED
    BY <1>3, <2>1, ReadChunkStep, EndUploadStep, CheckReceiveStep, ReceiveStep DEF Upload
<1>4. ASSUME NEW w \in Workers, Process(w) PROVE IInv'
  <2>1. CASE RefuseProcess(w)
    BY <2>1, ErrorStep DEF RefuseProcess, Statuses, At
  <2> QED
    BY <1>4, <2>1, CheckProcessStep, ActionReplayedStep, ActionRunsStep, RecordStep DEF Process
<1>5. ASSUME NEW w \in Workers, Read(w) PROVE IInv'
  <2>1. CASE ConfiguredMalformed(w)
    BY <2>1, ErrorStep DEF ConfiguredMalformed, Statuses, Points
  <2> QED
    BY <1>5, <2>1, ReadCatalogStep, ListStep, TranscriptStep DEF Read
<1>6. ASSUME NEW w \in Workers, OwnerUnavailable(w) \/ OwnerMalformed(w) PROVE IInv'
  BY <1>6, ErrorStep DEF OwnerUnavailable, OwnerMalformed, Statuses, Points
<1>7. ASSUME NEW w \in Workers, Respond(w) PROVE IInv'
  BY <1>7, RespondStep
<1>8. CASE UNCHANGED vars
  <2>0. UNCHANGED <<base, durable, pc, job, uploads, issued, catalogs>>
    BY <1>8 DEF vars, started
  <2>1. Shapes' /\ Kept' /\ Within' /\ IsFiniteSet(results)'
    BY <2>0 DEF IInv, Shapes, Kept, Within, durable
  <2>2. Snapshots' = Snapshots
    BY <2>0 DEF Snapshots
  <2>3. Grows /\ results' = results
    BY <2>0 DEF Grows, durable
  <2>4. SeenInOrder'
    BY <2>2, <2>3 DEF IInv, SeenInOrder
  <2>5. \A w \in Workers : Sound(w)'
    BY <2>0, <2>1, <2>3, StaysSound DEF IInv
  <2> QED
    BY <2>1, <2>4, <2>5 DEF IInv
<1> QED
  BY <1>1, <1>2, <1>3, <1>4, <1>5, <1>6, <1>7, <1>8 DEF Next

\* Every behaviour satisfies the inductive invariant.
THEOREM Invariance == Spec => []IInv
  BY InitInv, NextInv, PTL DEF Spec

\* Types are kept for any number of workers, items, PDFs and commands; a document
\* has one result, of a PDF in custody, and a package unless it failed.
THEOREM TypeCorrect == Spec => []TypeOK
<1>1. IInv => TypeOK
  BY DEF IInv, Shapes, Kept, TypeOK
<1> QED
  BY <1>1, Invariance, PTL

\* _receive_bounded_pdf judges an upload by what was sent, at any limit.
THEOREM UploadsAreJudged == Spec => []UploadsJudged
<1>1. IInv => UploadsJudged
  <2> SUFFICES ASSUME IInv, NEW w \in Workers, At(w, "answer"), job[w].op = "receive"
               PROVE  CASE job[w].status = "OK" -> job[w].pdf \in custody /\ Short(w)
                        [] job[w].status = "TOO_LARGE" ->
                             Size[job[w].pdf] > Limit \/ job[w].declared > Limit
                        [] job[w].status = "INVALID" -> job[w].pdf \notin Pdfs \/ ~Short(w)
                        [] OTHER -> TRUE
    BY DEF UploadsJudged, IInv, Within, Short
  <2>1. Judged(w) /\ pc[w] = "answer"
    BY DEF IInv, Sound, At
  <2> QED
    BY <2>1 DEF Judged
<1> QED
  BY <1>1, Invariance, PTL

\* process_private processes no second PDF for an item that had a retained result
\* when the command arrived, and refuses no command for its own result.
THEOREM ItemsAreProcessedOnce == Spec => []ProcessedOnce
<1>1. IInv => ProcessedOnce
  BY DEF IInv, Sound, Processed, Earlier, ProcessedOnce, At
<1> QED
  BY <1>1, Invariance, PTL

\* Answers of process_private are what is retained, and catalogs and lists asked for
\* later show it; read_catalog fails its own response model only where a result is
\* of no item of the base projection.
THEOREM CatalogsFollow == Spec => []CatalogsFollowResults
<1>1. IInv => CatalogsFollowResults
  BY DEF IInv, Sound, Processed, RetainedOf, Shown, CatalogsFollowResults, At
<1> QED
  BY <1>1, Invariance, PTL

\* Transcripts on offer, by a catalog or a list, are there ever after.
THEOREM OffersStayOpen == Spec => []OfferedTranscriptsOpen
<1>1. IInv => OfferedTranscriptsOpen
  <2> SUFFICES ASSUME IInv PROVE OfferedTranscriptsOpen
    OBVIOUS
  <2>1. ASSUME NEW P \in catalogs, NEW i \in Items
        PROVE  SoleVerified(P.results, i) \subseteq Verified(results)
    <3>1. P.results \subseteq results
      BY DEF IInv, SeenInOrder, Snapshots
    <3>2. Verified(P.results) \subseteq Verified(results)
      BY <3>1, VerifiedGrows
    <3> QED
      BY <3>2 DEF SoleVerified, VerifiedOf
  <2> QED
    BY <2>1 DEF IInv, Sound, Shown, OfferedTranscriptsOpen, At
<1> QED
  BY <1>1, Invariance, PTL

\* No two catalogs offer different transcripts of an item, and none loses a result:
\* _sole_verified_document_id offers nothing where results compete.
THEOREM CompetitionIsLeftStanding == Spec => []CompetitionStands
<1>1. IInv => CompetitionStands
  <2> SUFFICES ASSUME IInv PROVE CompetitionStands
    OBVIOUS
  <2>1. \A P \in catalogs : P.results \in Snapshots /\ P.results \subseteq results
    BY DEF IInv, SeenInOrder, Snapshots
  <2>2. ASSUME NEW R, NEW S, IsFiniteSet(R), IsFiniteSet(S), R \subseteq S, NEW i,
               SoleVerified(R, i) # {}, SoleVerified(S, i) # {}
        PROVE  SoleVerified(R, i) = SoleVerified(S, i)
    <3>1. VerifiedOf(R, i) \subseteq VerifiedOf(S, i)
      BY <2>2, VerifiedGrows
    <3>2. PICK d : VerifiedOf(R, i) = {d}
      BY <2>2, SoleIsOne
    <3>3. PICK e : VerifiedOf(S, i) = {e}
      BY <2>2, SoleIsOne
    <3> QED
      BY <2>2, <3>1, <3>2, <3>3, SoleIsOne
  <2>3. ASSUME NEW P \in catalogs, NEW Q \in catalogs, NEW i \in Items,
               SoleVerified(P.results, i) # {}, SoleVerified(Q.results, i) # {}
        PROVE  SoleVerified(P.results, i) = SoleVerified(Q.results, i)
    <3>1. IsFiniteSet(P.results) /\ IsFiniteSet(Q.results)
      BY <2>1, FS_Subset DEF IInv
    <3>2. P.results \subseteq Q.results \/ Q.results \subseteq P.results
      BY <2>1 DEF IInv, SeenInOrder
    <3> QED
      BY <3>1, <3>2, <2>2, <2>3
  <2> QED
    BY <2>1, <2>3 DEF CompetitionStands
<1> QED
  BY <1>1, Invariance, PTL

-------------------------------------------------------------------------------
\* Custody and the registry keep the promise of DocumentIntake.

\* What the catalogs have told.
ToldResults == UNION {P.results : P \in catalogs}

LEMMA CustodyRefines ==
  ASSUME IInv, NEW w \in Workers, Receive(w)
  PROVE  Intake!Next
<1>1. PICK p : p = job[w].pdf
  OBVIOUS
<1>2. p \in {q \in Pdfs : Size[q] <= Limit}
  BY <1>1 DEF IInv, Sound, Judged, Receive, At
<1>3. Intake!Keep(p)
  BY <1>1 DEF Receive, Intake!Keep
<1> QED
  BY <1>2, <1>3 DEF Intake!Next

LEMMA RetentionRefines ==
  ASSUME IInv, NEW w \in Workers, Record(w), results' # results
  PROVE  Intake!Next
<1>1. PICK x : x = Outcome(w)
  OBVIOUS
<1>2. /\ results' = results \union {x} /\ UNCHANGED <<custody, catalogs>>
      /\ Of(results, job[w].item, job[w].pdf) = {}
      /\ job[w].item \in Missing /\ job[w].pdf \in Pdfs /\ job[w].pdf \in custody
  BY <1>1 DEF Record, At, IInv, Sound, Processed
<1>3. x \in Retainable /\ x.pdf \in custody
  BY <1>1, <1>2 DEF Outcome, Retainable, IInv, Shapes, Job
<1>4. \A y \in results : ~(x.item = y.item /\ x.pdf = y.pdf)
  BY <1>1, <1>2 DEF Outcome, Of
<1>5. Intake!Record(x)
  BY <1>2, <1>3, <1>4 DEF Intake!Record
<1> QED
  BY <1>3, <1>5 DEF Intake!Next

\* A catalog tells of results a worker has seen in the registry.
LEMMA CatalogRefines ==
  ASSUME IInv, NEW w \in Workers, Respond(w)
  PROVE  Intake!Next
<1>1. job[w].seen \subseteq results
  BY DEF IInv, SeenInOrder, Snapshots
<1>2. ToldResults \subseteq ToldResults' /\ ToldResults' \subseteq ToldResults \union job[w].seen
  <2>1. CASE catalogs' = catalogs
    BY <2>1 DEF ToldResults
  <2>2. CASE catalogs' = catalogs \union {[base |-> base, results |-> job[w].seen]}
    BY <2>2 DEF ToldResults
  <2> QED
    BY <2>1, <2>2 DEF Respond
<1> QED
  BY <1>1, <1>2 DEF Respond, durable, ToldResults, Intake!Next, Intake!Tell

LEMMA StepRefines == IInv /\ [Next]_vars => [Intake!Next]_(Intake!vars)
<1> SUFFICES ASSUME IInv, [Next]_vars
             PROVE  Intake!Next \/ UNCHANGED <<custody, results, catalogs>>
  BY DEF Intake!vars
<1>1. CASE Crash \/ UNCHANGED vars
  BY <1>1 DEF Crash, vars, durable
<1>2. ASSUME NEW w \in Workers, Receive(w) \/ Record(w) \/ Respond(w)
      PROVE  Intake!Next \/ UNCHANGED <<custody, results, catalogs>>
  <2>1. CASE Receive(w) \/ Respond(w)
    BY <2>1, CustodyRefines, CatalogRefines
  <2>2. CASE Record(w)
    BY <2>2, RetentionRefines DEF Record
  <2> QED
    BY <1>2, <2>1, <2>2
<1>3. ASSUME NEW w \in Workers, Ask(w)
      PROVE  UNCHANGED <<custody, results, catalogs>>
  BY <1>3 DEF Ask, GetCatalog, PostSource, PostProcess, GetList, GetTranscript, Request, durable
<1>4. ASSUME NEW w \in Workers, Upload(w), ~Receive(w)
      PROVE  UNCHANGED <<custody, results, catalogs>>
  BY <1>4 DEF Upload, ReadChunk, EndUpload, UploadFails, CheckReceive, durable
<1>5. ASSUME NEW w \in Workers, Process(w), ~Record(w)
      PROVE  UNCHANGED <<custody, results, catalogs>>
  BY <1>5 DEF Process, RefuseProcess, CheckProcess, ActionReplayed, ActionRuns, durable
<1>6. ASSUME NEW w \in Workers, Read(w) \/ OwnerUnavailable(w) \/ OwnerMalformed(w)
      PROVE  UNCHANGED <<custody, results, catalogs>>
  BY <1>6 DEF Read, ReadCatalog, ConfiguredMalformed, ListConfigured, ListProcessed,
              ReadConfigured, ReadTranscript, OwnerUnavailable, OwnerMalformed, durable
<1> QED
  BY <1>1, <1>2, <1>3, <1>4, <1>5, <1>6 DEF Next

\* Custody and the registry are an intake: what is processed is in custody, no
\* request is retained with two outcomes whichever commands race, nothing is ever
\* taken back, and the catalogs show what is retained.
THEOREM Refinement == Spec => ImplementsDocumentIntake
<1>1. Init => Intake!Init
  <2> SUFFICES ASSUME Init PROVE Intake!Init
    OBVIOUS
  <2>1. custody \subseteq {p \in Pdfs : Size[p] <= Limit} /\ results = {}
    BY BodiesAssumption DEF Init
  <2>2. UNION {P.results : P \in catalogs} = {}
    BY DEF Init
  <2> QED
    BY <2>1, <2>2 DEF Intake!Init
<1> QED
  BY <1>1, StepRefines, Invariance, PTL DEF Spec, ImplementsDocumentIntake, Intake!Spec

===============================================================================
