------------------------- MODULE CitationReviewProofs -------------------------
(***************************************************************************)
(* What the runs of CitationReview show on two workers and a few requests, *)
(* proved for any number of workers, requests, bundles and claims.         *)
(*                                                                         *)
(* The inductive invariant is IInv: beside the types it says that the      *)
(* revisions of each claim are an initial segment of the numbers, that the *)
(* worker inside the transaction is the holder of the write lock, and that *)
(* the revision it computed is still the next one.  HInv adds what a worker*)
(* relies on from one access to the next: that the bundle it has seen was  *)
(* in place, that the request was accepted on it, that what it is about to *)
(* show is in the table and that what was told before it arrived is, too.  *)
(* With both the table implements DecisionLog.                             *)
(***************************************************************************)
EXTENDS CitationReview, TLAPS

Complete ==
  \A m \in Manuscripts, c \in Claims :
    \E n \in Nat : Revisions(m, c) = 1 .. n

UniqueRows ==
  \A r, x \in rows : SameClaim(r, x) /\ r.revision = x.revision => r = x

LockHolder == \A w \in Workers : At(w, "commit") <=> lock = w

RevisionIsNext ==
  \A w \in Workers :
    At(w, "commit") =>
      job[w].revision = NextRevision(job[w].target, job[w].claim)

IInv ==
  /\ TypeOK
  /\ Complete
  /\ UniqueRows
  /\ LockHolder
  /\ RevisionIsNext

-------------------------------------------------------------------------------
\* The idle job is well typed.
LEMMA NoJobType == NoJob \in Job
<1>1. NoJob.claim \in Claims /\ NoJob.target \in Manuscripts
  BY ValuesAssumption DEF NoJob
<1>2. NoJob.request \in Request
  BY ValuesAssumption, RequestsAssumption DEF NoJob
<1> QED
  BY <1>1, <1>2 DEF NoJob, Job, Operations, Statuses

\* SELECT MAX returns the largest revision where the revisions are 1 .. n.
LEMMA LastOfSegment ==
  ASSUME NEW m, NEW c, NEW n \in Nat, Revisions(m, c) = 1 .. n
  PROVE  LastRevision(m, c) = n
<1>1. CASE n = 0
  BY <1>1 DEF LastRevision
<1>2. CASE n # 0
  <2>1. n \in 1 .. n /\ \A k \in 1 .. n : k <= n
    BY <1>2
  <2>2. \A k \in 1 .. n : (\A j \in 1 .. n : j <= k) => k = n
    BY <2>1
  <2> QED
    BY <2>1, <2>2 DEF LastRevision
<1> QED
  BY <1>1, <1>2

\* Rows are the only state the number of the next revision depends on.
LEMMA NextRevisionType ==
  ASSUME Complete, NEW m \in Manuscripts, NEW c \in Claims
  PROVE  NextRevision(m, c) \in Nat \ {0}
<1>1. PICK n \in Nat : Revisions(m, c) = 1 .. n
  BY DEF Complete
<1>2. LastRevision(m, c) = n
  BY <1>1, LastOfSegment
<1> QED
  BY <1>2 DEF NextRevision

-------------------------------------------------------------------------------
\* Types.

\* An answer keeps the worker's place and job well typed.
LEMMA AnswerType ==
  ASSUME TypeOK, NEW w \in Workers, NEW code \in Statuses,
         NEW R \in SUBSET Row, Answer(w, code, R)
  PROVE  pc' \in [Workers -> Points] /\ job' \in [Workers -> Job]
<1>1. pc' \in [Workers -> Points]
  BY DEF TypeOK, Answer, Goto, Points
<1>2. job' = [job EXCEPT ![w] = [job[w] EXCEPT !.status = code, !.shown = R]]
  BY DEF TypeOK, Answer
<1>3. [job[w] EXCEPT !.status = code, !.shown = R] \in Job
  BY DEF TypeOK, Job
<1> QED
  BY <1>1, <1>2, <1>3 DEF TypeOK

LEMMA GotoType ==
  ASSUME TypeOK, NEW w \in Workers, NEW point \in Points, Goto(w, point)
  PROVE  pc' \in [Workers -> Points]
  BY DEF TypeOK, Goto

LEMMA NewRowType ==
  ASSUME TypeOK, NEW w \in Workers, job[w].revision # 0
  PROVE  NewRow(w) \in Row
<1>1. job[w] \in Job
  BY DEF TypeOK
<1>2. /\ job[w].request.disposition \in Dispositions
      /\ job[w].request.selected \in Seq(CitationKeys)
  BY <1>1 DEF Job, Request
<1> QED
  BY <1>1, <1>2 DEF NewRow, Row, Job

LEMMA LatestDecisionsType ==
  ASSUME TypeOK, NEW m
  PROVE  LatestDecisions(m) \subseteq Row
  BY DEF TypeOK, LatestDecisions

\* An action that only answers with an error keeps the types.
LEMMA ErrorType ==
  ASSUME TypeOK, NEW w \in Workers, NEW code \in Statuses,
         Answer(w, code, {}), UNCHANGED <<bundle, store, issued, history>>
  PROVE  TypeOK'
<1>1. {} \in SUBSET Row
  OBVIOUS
<1>2. pc' \in [Workers -> Points] /\ job' \in [Workers -> Job]
  BY <1>1, AnswerType
<1> QED
  BY <1>2 DEF TypeOK, store, history

LEMMA InitType == Init => TypeOK
<1> SUFFICES ASSUME Init PROVE TypeOK
  OBVIOUS
<1>1. job \in [Workers -> Job]
  BY NoJobType DEF Init
<1>2. pc \in [Workers -> Points]
  BY DEF Init, Points
<1>3. published \subseteq Bundles
  BY DEF Init
<1> QED
  BY <1>1, <1>2, <1>3 DEF Init, TypeOK

LEMMA ServeType ==
  ASSUME IInv, NEW w \in Workers, Serve(w)
  PROVE  TypeOK'
<1> USE DEF IInv
<1>1. CASE ReadBundle(w)
  <2> USE <1>1 DEF ReadBundle, BundleFails
  <2>1. CASE Answer(w, "503", {}) \/ Answer(w, "500", {})
    BY <2>1, ErrorType DEF Statuses
  <2>2. CASE Answer(w, "404", {})
    BY <2>2, ErrorType DEF Statuses
  <2>3. CASE bundle # NoBundle /\ job' = [job EXCEPT ![w].seen = bundle] /\ Goto(w, "decisions")
    <3>1. job' \in [Workers -> Job]
      BY <2>3, BundlesAssumption DEF TypeOK, Job
    <3>2. pc' \in [Workers -> Points]
      BY <2>3, GotoType DEF Points
    <3> QED
      BY <3>1, <3>2 DEF TypeOK, store, history
  <2> QED
    BY <2>1, <2>2, <2>3
<1>2. CASE ReadDecisions(w)
  <2> USE <1>2 DEF ReadDecisions
  <2>1. CASE job[w].op = "decide"
    BY <2>1, GotoType DEF TypeOK, Points, store, history
  <2>2. CASE job[w].op # "decide"
    <3> DEFINE D == {r \in LatestDecisions(job[w].seen.manuscript) :
                       r.claim \in Covered(w)}
    <3>1. D \in SUBSET Row
      BY LatestDecisionsType
    <3>2. Answer(w, "200", D)
      BY <2>2
    <3> QED
      BY <3>1, <3>2, AnswerType DEF TypeOK, Statuses, store, history
  <2> QED
    BY <2>1, <2>2
<1>3. CASE ReadBundleAgain(w)
  <2> USE <1>3 DEF ReadBundleAgain, BundleFails
  <2>1. CASE Answer(w, "503", {}) \/ Answer(w, "500", {})
    BY <2>1, ErrorType DEF Statuses
  <2>2. CASE Answer(w, "409", {})
    BY <2>2, ErrorType DEF Statuses
  <2>3. CASE /\ bundle # NoBundle
             /\ job' = [job EXCEPT ![w].target = bundle.manuscript]
             /\ Goto(w, "initialize")
    <3>1. bundle.manuscript \in Manuscripts
      BY <2>3, BundlesAssumption DEF TypeOK, BundleContents
    <3>2. job' \in [Workers -> Job]
      BY <2>3, <3>1 DEF TypeOK, Job
    <3>3. pc' \in [Workers -> Points]
      BY <2>3, GotoType DEF Points
    <3> QED
      BY <3>2, <3>3 DEF TypeOK, store, history
  <2> QED
    BY <2>1, <2>2, <2>3
<1>4. CASE Initialize(w)
  BY <1>4, GotoType DEF Initialize, TypeOK, Points, history
<1>5. CASE Begin(w)
  <2>1. NextRevision(job[w].target, job[w].claim) \in Nat
    BY NextRevisionType DEF TypeOK, Job
  <2>2. job' \in [Workers -> Job]
    BY <1>5, <2>1 DEF Begin, TypeOK, Job
  <2>3. pc' \in [Workers -> Points]
    BY <1>5, GotoType DEF Begin, Points
  <2> QED
    BY <1>5, <2>2, <2>3 DEF Begin, TypeOK, history
<1>6. CASE Commit(w)
  <2>1. job[w].revision # 0
    BY <1>6, NextRevisionType DEF Commit, RevisionIsNext, TypeOK, Job
  <2>2. NewRow(w) \in Row
    BY <2>1, NewRowType
  <2>3. pc' \in [Workers -> Points] /\ job' \in [Workers -> Job]
    BY <1>6, <2>2, AnswerType DEF Commit, Statuses
  <2> QED
    BY <1>6, <2>2, <2>3 DEF Commit, TypeOK, history
<1>7. CASE CommitFails(w)
  BY <1>7, AnswerType DEF CommitFails, TypeOK, Statuses, history
<1>8. CASE StoreLocked(w)
  BY <1>8, ErrorType DEF StoreLocked, Statuses
<1>9. CASE StoreUnavailable(w)
  BY <1>9, ErrorType DEF StoreUnavailable, Statuses
<1>10. CASE Respond(w)
  <2>1. pc' \in [Workers -> Points]
    BY <1>10, GotoType DEF Respond, Points
  <2>2. job' \in [Workers -> Job] /\ job[w].shown \subseteq Row
    BY <1>10, NoJobType DEF Respond, TypeOK, Job
  <2> QED
    BY <1>10, <2>1, <2>2 DEF Respond, TypeOK, store
<1> QED
  BY <1>1, <1>2, <1>3, <1>4, <1>5, <1>6, <1>7, <1>8, <1>9, <1>10 DEF Serve

LEMMA NextType == IInv /\ [Next]_vars => TypeOK'
<1> SUFFICES ASSUME IInv, [Next]_vars PROVE TypeOK'
  OBVIOUS
<1> USE DEF IInv
<1>1. CASE ReplaceBundle
  BY <1>1 DEF ReplaceBundle, TypeOK, store
<1>2. CASE Crash
  <2>1. \A w \in Workers : Unanswered(w) \subseteq Row
    BY DEF Unanswered, TypeOK, Job
  <2>2. lost' \subseteq Row
    BY <1>2, <2>1 DEF Crash, TypeOK
  <2>3. job' \in [Workers -> Job] /\ pc' \in [Workers -> Points]
    BY <1>2, NoJobType DEF Crash, Points
  <2> QED
    BY <1>2, <2>2, <2>3 DEF Crash, TypeOK
<1>3. ASSUME NEW w \in Workers, Start(w) PROVE TypeOK'
  <2>1. job' \in [Workers -> Job]
    <3>1. PICK o \in Operations, c \in Claims, q \in Requests :
            job' = [job EXCEPT ![w] =
                      [NoJob EXCEPT !.op = o, !.claim = c, !.request = q,
                         !.floor = IF o = "decide" THEN {} ELSE told]]
      BY <1>3 DEF Start
    <3>2. [NoJob EXCEPT !.op = o, !.claim = c, !.request = q,
             !.floor = IF o = "decide" THEN {} ELSE told] \in Job
      BY NoJobType, RequestsAssumption DEF Job, TypeOK
    <3> QED
      BY <3>1, <3>2 DEF TypeOK
  <2>2. pc' \in [Workers -> Points]
    BY <1>3, GotoType DEF Start, Points
  <2>3. issued' \in Nat
    BY <1>3 DEF Start, TypeOK
  <2> QED
    BY <1>3, <2>1, <2>2, <2>3 DEF Start, TypeOK, store, history
<1>4. ASSUME NEW w \in Workers, Serve(w) PROVE TypeOK'
  BY <1>4, ServeType
<1>5. CASE UNCHANGED vars
  BY <1>5 DEF vars, store, history, TypeOK
<1> QED
  BY <1>1, <1>2, <1>3, <1>4, <1>5 DEF Next

-------------------------------------------------------------------------------
\* The revisions.

\* What every action does that neither enters nor leaves a transaction.
Quiet(w) ==
  /\ rows' = rows /\ lock' = lock
  /\ pc[w] # "commit" /\ pc'[w] # "commit"
  /\ \A v \in Workers \ {w} : pc'[v] = pc[v] /\ job'[v] = job[v]

LEMMA SameRows ==
  ASSUME rows' = rows
  PROVE  /\ Complete => Complete'
         /\ UniqueRows => UniqueRows'
         /\ \A m, c : NextRevision(m, c)' = NextRevision(m, c)
  BY DEF Complete, UniqueRows, SameClaim, NextRevision, LastRevision, Revisions

LEMMA QuietStep ==
  ASSUME IInv, NEW w \in Workers, Quiet(w)
  PROVE  Complete' /\ UniqueRows' /\ LockHolder' /\ RevisionIsNext'
<1> USE DEF IInv, Quiet
<1>1. Complete' /\ UniqueRows'
  BY SameRows
<1>2. LockHolder'
  BY DEF LockHolder, At
<1>3. RevisionIsNext'
  <2> SUFFICES ASSUME NEW v \in Workers, At(v, "commit")'
               PROVE  (job[v].revision = NextRevision(job[v].target, job[v].claim))'
    BY DEF RevisionIsNext
  <2>1. v # w /\ At(v, "commit") /\ job'[v] = job[v]
    BY DEF At
  <2> QED
    BY <2>1, SameRows DEF RevisionIsNext
<1> QED
  BY <1>1, <1>2, <1>3

\* The only rows of a transaction: the next revision of one claim.
LEMMA CommitStep ==
  ASSUME IInv, NEW w \in Workers, Commit(w)
  PROVE  Complete' /\ UniqueRows' /\ LockHolder' /\ RevisionIsNext'
<1> USE DEF IInv
<1> DEFINE m == job[w].target
           c == job[w].claim
<1>1. m \in Manuscripts /\ c \in Claims
  BY DEF TypeOK, Job
<1>2. PICK n \in Nat : Revisions(m, c) = 1 .. n
  BY <1>1 DEF Complete
<1>3. job[w].revision = n + 1
  BY <1>2, LastOfSegment DEF Commit, RevisionIsNext, NextRevision
<1>4. rows' = rows \union {NewRow(w)}
  BY DEF Commit
<1>5. /\ NewRow(w).manuscript = m /\ NewRow(w).claim = c
      /\ NewRow(w).revision = n + 1
  BY <1>3 DEF NewRow
<1>6. Complete'
  <2> SUFFICES ASSUME NEW a \in Manuscripts, NEW d \in Claims
               PROVE  \E k \in Nat : Revisions(a, d)' = 1 .. k
    BY DEF Complete
  <2>1. CASE a = m /\ d = c
    <3>1. Revisions(a, d)' = Revisions(a, d) \union {n + 1}
      BY <2>1, <1>4, <1>5 DEF Revisions
    <3>2. (1 .. n) \union {n + 1} = 1 .. (n + 1)
      OBVIOUS
    <3>3. Revisions(a, d)' = 1 .. (n + 1)
      BY <2>1, <3>1, <3>2, <1>2
    <3> QED
      BY <3>3
  <2>2. CASE a # m \/ d # c
    <3>1. Revisions(a, d)' = Revisions(a, d)
      BY <2>2, <1>4, <1>5 DEF Revisions
    <3> QED
      BY <3>1 DEF Complete
  <2> QED
    BY <2>1, <2>2
<1>7. UniqueRows'
  <2>1. \A r \in rows : SameClaim(r, NewRow(w)) => r.revision # n + 1
    <3> SUFFICES ASSUME NEW r \in rows, SameClaim(r, NewRow(w))
                 PROVE  r.revision # n + 1
      OBVIOUS
    <3>1. r.revision \in Revisions(m, c)
      BY <1>5 DEF SameClaim, Revisions
    <3> QED
      BY <3>1, <1>2
  <2> QED
    BY <2>1, <1>4, <1>5 DEF UniqueRows, SameClaim
<1>8. lock' = NoWorker /\ \A v \in Workers : ~At(v, "commit")'
  <2>1. \A v \in Workers : At(v, "commit") => v = w
    BY DEF Commit, LockHolder
  <2> QED
    BY <2>1 DEF Commit, Answer, Goto, At, TypeOK
<1> QED
  BY <1>6, <1>7, <1>8, NoWorkerAssumption DEF LockHolder, RevisionIsNext

\* Giving a transaction up, by an error or by a crash, leaves nobody inside.
LEMMA RollbackStep ==
  ASSUME IInv, Crash \/ \E w \in Workers : CommitFails(w)
  PROVE  Complete' /\ UniqueRows' /\ LockHolder' /\ RevisionIsNext'
<1> USE DEF IInv
<1>1. rows' = rows /\ lock' = NoWorker
  BY DEF Crash, CommitFails
<1>2. \A v \in Workers : ~At(v, "commit")'
  <2>1. CASE Crash
    BY <2>1 DEF Crash, At
  <2>2. ASSUME NEW w \in Workers, CommitFails(w)
        PROVE  \A v \in Workers : ~At(v, "commit")'
    <3>1. \A v \in Workers : At(v, "commit") => v = w
      BY <2>2 DEF CommitFails, LockHolder
    <3> QED
      BY <2>2, <3>1 DEF CommitFails, Answer, Goto, At, TypeOK
  <2> QED
    BY <2>1, <2>2
<1> QED
  BY <1>1, <1>2, SameRows, NoWorkerAssumption DEF LockHolder, RevisionIsNext

LEMMA BeginStep ==
  ASSUME IInv, NEW w \in Workers, Begin(w)
  PROVE  Complete' /\ UniqueRows' /\ LockHolder' /\ RevisionIsNext'
<1> USE DEF IInv
<1>1. rows' = rows
  BY DEF Begin
<1>2. \A v \in Workers : At(v, "commit")' <=> v = w
  BY NoWorkerAssumption DEF Begin, Goto, At, TypeOK, LockHolder
<1>3. /\ job'[w].revision = NextRevision(job[w].target, job[w].claim)
      /\ job'[w].target = job[w].target /\ job'[w].claim = job[w].claim
  BY DEF Begin, TypeOK, Job
<1>4. LockHolder'
  BY <1>2 DEF Begin, LockHolder
<1>5. RevisionIsNext'
  BY <1>1, <1>2, <1>3, SameRows DEF RevisionIsNext
<1> QED
  BY <1>1, <1>4, <1>5, SameRows

LEMMA NextInv == IInv /\ [Next]_vars => IInv'
<1> SUFFICES ASSUME IInv, [Next]_vars PROVE IInv'
  OBVIOUS
<1> DEFINE Parts == Complete /\ UniqueRows /\ LockHolder /\ RevisionIsNext
<1>1. TypeOK'
  BY NextType
<1>2. CASE ReplaceBundle \/ UNCHANGED vars
  <2>1. UNCHANGED <<rows, lock, pc, job>>
    BY <1>2 DEF ReplaceBundle, vars, store
  <2>2. LockHolder' /\ RevisionIsNext'
    BY <2>1, SameRows DEF IInv, LockHolder, RevisionIsNext, At
  <2> QED
    BY <2>1, <2>2, <1>1, SameRows DEF IInv
<1>3. CASE Crash
  BY <1>1, <1>3, RollbackStep DEF IInv
<1>4. ASSUME NEW w \in Workers, Start(w) PROVE IInv'
  <2>1. Quiet(w)
    BY <1>4 DEF Start, Quiet, Goto, At, store, IInv, TypeOK
  <2> QED
    BY <2>1, <1>1, QuietStep DEF IInv
<1>5. ASSUME NEW w \in Workers, Serve(w) PROVE IInv'
  <2>1. CASE Commit(w)
    BY <1>1, <2>1, CommitStep DEF IInv
  <2>2. CASE CommitFails(w)
    BY <1>1, <2>2, RollbackStep DEF IInv
  <2>3. CASE Begin(w)
    BY <1>1, <2>3, BeginStep DEF IInv
  <2>4. CASE ReadBundle(w)
    <3>1. Quiet(w)
      BY <2>4 DEF ReadBundle, BundleFails, Quiet, Answer, Goto, At, store, IInv, TypeOK
    <3> QED
      BY <3>1, <1>1, QuietStep DEF IInv
  <2>5. CASE ReadDecisions(w)
    <3>1. Quiet(w)
      BY <2>5 DEF ReadDecisions, Quiet, Answer, Goto, At, store, IInv, TypeOK
    <3> QED
      BY <3>1, <1>1, QuietStep DEF IInv
  <2>6. CASE ReadBundleAgain(w)
    <3>1. Quiet(w)
      BY <2>6 DEF ReadBundleAgain, BundleFails, Quiet, Answer, Goto, At, store, IInv, TypeOK
    <3> QED
      BY <3>1, <1>1, QuietStep DEF IInv
  <2>7. CASE Initialize(w) \/ StoreLocked(w) \/ StoreUnavailable(w) \/ Respond(w)
    <3>1. Quiet(w)
      BY <2>7 DEF Initialize, StoreLocked, StoreUnavailable, Respond, Quiet,
                  Answer, Goto, At, store, IInv, TypeOK
    <3> QED
      BY <3>1, <1>1, QuietStep DEF IInv
  <2> QED
    BY <1>5, <2>1, <2>2, <2>3, <2>4, <2>5, <2>6, <2>7 DEF Serve
<1> QED
  BY <1>2, <1>3, <1>4, <1>5 DEF Next

LEMMA InitInv == Init => IInv
<1> SUFFICES ASSUME Init PROVE IInv
  OBVIOUS
<1>1. \A m, c : Revisions(m, c) = 1 .. 0
  BY DEF Init, Revisions
<1>2. Complete
  BY <1>1 DEF Complete
<1>3. UniqueRows /\ LockHolder /\ RevisionIsNext
  BY NoWorkerAssumption DEF Init, UniqueRows, LockHolder, RevisionIsNext, At
<1> QED
  BY <1>2, <1>3, InitType DEF IInv

\* Every behaviour satisfies the inductive invariant.
THEOREM Invariance == Spec => []IInv
  BY InitInv, NextInv, PTL DEF Spec

\* Types are kept for any number of workers, claims, bundles and requests.
THEOREM TypeCorrect == Spec => []TypeOK
<1>1. IInv => TypeOK
  BY DEF IInv
<1> QED
  BY <1>1, Invariance, PTL

\* decide() numbers the revisions of a claim 1, 2, ... without a gap or a
\* repetition, however many workers run it and wherever it fails.
THEOREM RevisionsAreContiguous == Spec => []RevisionsContiguous
<1>1. IInv => RevisionsContiguous
  <2> SUFFICES ASSUME IInv, NEW r \in rows, NEW k \in 1 .. r.revision
               PROVE  \E x \in rows : SameClaim(r, x) /\ x.revision = k
    BY DEF RevisionsContiguous, IInv, UniqueRows
  <2>1. r \in Row
    BY DEF IInv, TypeOK
  <2>2. PICK n \in Nat : Revisions(r.manuscript, r.claim) = 1 .. n
    BY <2>1 DEF IInv, Complete, Row
  <2>3. r.revision \in 1 .. n
    BY <2>2 DEF Revisions
  <2>4. k \in Revisions(r.manuscript, r.claim)
    BY <2>2, <2>3
  <2> QED
    BY <2>4 DEF Revisions, SameClaim
<1> QED
  BY <1>1, Invariance, PTL

-------------------------------------------------------------------------------
\* What the answers rely on.

Reading == {"decisions", "bundle again", "initialize", "begin", "commit"}

Deciding == {"bundle again", "initialize", "begin", "commit"}

Accepted == {"initialize", "begin", "commit"}

\* A worker between two accesses to the bundle or the table.
SeenInPlace ==
  \A w \in Workers :
    /\ pc[w] \in Reading =>
         /\ job[w].seen \in published
         /\ job[w].op # "queue" => job[w].claim \in DOMAIN job[w].seen.candidates
    /\ pc[w] \in Deciding => job[w].op = "decide"
    /\ pc[w] \in Accepted =>
         AcceptableRequest(job[w].seen, job[w].claim, job[w].request)

ShownAreRows ==
  \A w \in Workers :
    /\ At(w, "answer") => job[w].shown \subseteq rows
    /\ job[w].floor \subseteq told

Accounted == rows = told \union lost \union UNION {Unanswered(w) : w \in Workers}

HInv ==
  /\ SeenInPlace
  /\ ShownAreRows
  /\ Accounted
  /\ StoredKeysWereCandidates
  /\ AnswersAreFresh

\* A row of an accepted request has keys exactly where its disposition needs them.
LEMMA AcceptedRow ==
  ASSUME TypeOK, SeenInPlace, NEW w \in Workers, At(w, "commit")
  PROVE  LET r == NewRow(w)
         IN  /\ r.disposition \in {"ACCEPT_CITATION", "PARTIAL_SUPPORT"} <=> r.selected # <<>>
             /\ \E b \in published :
                  /\ r.claim \in DOMAIN b.candidates
                  /\ {r.selected[i] : i \in DOMAIN r.selected} \subseteq b.candidates[r.claim]
<1> DEFINE q == job[w].request
<1>1. /\ job[w].seen \in published /\ job[w].claim \in DOMAIN job[w].seen.candidates
      /\ AcceptableRequest(job[w].seen, job[w].claim, q)
  BY DEF SeenInPlace, At, Reading, Deciding, Accepted
<1>2. q.selected \in Seq(CitationKeys)
  BY DEF TypeOK, Job, Request
<1>3. DOMAIN q.selected = 1 .. Len(q.selected) /\ (q.selected = <<>> <=> Len(q.selected) = 0)
  BY <1>2
<1>4. Selected(q) = {q.selected[i] : i \in DOMAIN q.selected}
  BY <1>3 DEF Selected
<1>5. Selected(q) # {} <=> q.selected # <<>>
  <2>1. CASE Len(q.selected) = 0
    BY <2>1, <1>3, <1>4
  <2>2. CASE Len(q.selected) # 0
    <3>1. 1 \in DOMAIN q.selected
      BY <2>2, <1>2, <1>3
    <3> QED
      BY <3>1, <2>2, <1>3, <1>4
  <2> QED
    BY <2>1, <2>2
<1>6. /\ NewRow(w).selected = q.selected /\ NewRow(w).claim = job[w].claim
      /\ NewRow(w).disposition = q.disposition
  BY DEF NewRow
<1>7. Selected(q) \subseteq job[w].seen.candidates[job[w].claim]
  BY <1>1 DEF AcceptableRequest
<1>8. q.disposition \in {"ACCEPT_CITATION", "PARTIAL_SUPPORT"} <=> q.selected # <<>>
  BY <1>1, <1>5 DEF AcceptableRequest, RequiresSelection
<1>9. {q.selected[i] : i \in DOMAIN q.selected} \subseteq job[w].seen.candidates[job[w].claim]
  BY <1>4, <1>7
<1> QED
  BY <1>1, <1>6, <1>8, <1>9

\* A row is not after the last one of its claim, and that one is in the table.
LEMMA LatestIsLatest ==
  ASSUME IInv, NEW t \in rows
  PROVE  \E r \in LatestDecisions(t.manuscript) :
           r.claim = t.claim /\ r.revision >= t.revision
<1>1. t \in Row
  BY DEF IInv, TypeOK
<1>2. PICK n \in Nat : Revisions(t.manuscript, t.claim) = 1 .. n
  BY <1>1 DEF IInv, Complete, Row
<1>3. LastRevision(t.manuscript, t.claim) = n
  BY <1>2, LastOfSegment
<1>4. t.revision \in 1 .. n
  BY <1>2 DEF Revisions
<1>5. n \in Revisions(t.manuscript, t.claim)
  BY <1>2, <1>4
<1>6. PICK r \in rows : r.manuscript = t.manuscript /\ r.claim = t.claim /\ r.revision = n
  BY <1>5 DEF Revisions
<1>7. r \in LatestDecisions(t.manuscript)
  BY <1>3, <1>6 DEF LatestDecisions
<1> QED
  BY <1>4, <1>6, <1>7

\* What every action but a commit does to the table, and an answer to its job.
Calm(w) ==
  /\ UNCHANGED <<rows, told, lost, published>>
  /\ \A v \in Workers \ {w} : pc'[v] = pc[v] /\ job'[v] = job[v]
  /\ job'[w].floor \subseteq told
  /\ Unanswered(w) = {} /\ Unanswered(w)' = {}

\* The part of HInv that is about one worker.
Sound(w) ==
  /\ pc[w] \in Reading =>
       /\ job[w].seen \in published
       /\ job[w].op # "queue" => job[w].claim \in DOMAIN job[w].seen.candidates
  /\ pc[w] \in Deciding => job[w].op = "decide"
  /\ pc[w] \in Accepted =>
       AcceptableRequest(job[w].seen, job[w].claim, job[w].request)
  /\ At(w, "answer") => job[w].shown \subseteq rows
  /\ At(w, "answer") /\ job[w].status = "200" /\ job[w].op # "decide" =>
       \A t \in job[w].floor :
         t.manuscript = job[w].seen.manuscript /\ t.claim \in Covered(w) =>
           \E r \in job[w].shown : r.claim = t.claim /\ r.revision >= t.revision

LEMMA SoundOf ==
  ASSUME HInv, NEW w \in Workers
  PROVE  Sound(w) /\ job[w].floor \subseteq told
  BY DEF HInv, Sound, SeenInPlace, ShownAreRows, AnswersAreFresh

\* A worker that does nothing stays sound while the table grows.
LEMMA StaysSound ==
  ASSUME NEW v \in Workers, Sound(v), pc'[v] = pc[v], job'[v] = job[v],
         rows \subseteq rows', published \subseteq published'
  PROVE  Sound(v)'
<1>1. Covered(v)' = Covered(v)
  BY DEF Covered
<1> QED
  BY <1>1 DEF Sound, At, AcceptableRequest, NoDuplicates, Selected, RequiresSelection

LEMMA CalmStep ==
  ASSUME HInv, NEW w \in Workers, Calm(w), Sound(w)'
  PROVE  HInv'
<1>1. \A v \in Workers : Sound(v)' /\ (job[v].floor \subseteq told)'
  <2> SUFFICES ASSUME NEW v \in Workers PROVE Sound(v)' /\ (job[v].floor \subseteq told)'
    OBVIOUS
  <2>1. CASE v = w
    BY <2>1 DEF Calm
  <2>2. CASE v # w
    BY <2>2, SoundOf, StaysSound DEF Calm
  <2> QED
    BY <2>1, <2>2
<1>2. SeenInPlace' /\ ShownAreRows' /\ AnswersAreFresh'
  BY <1>1 DEF Sound, SeenInPlace, ShownAreRows, AnswersAreFresh
<1>3. \A v \in Workers : Unanswered(v)' = Unanswered(v)
  BY DEF Calm, Unanswered, At
<1>4. Accounted'
  BY <1>3 DEF HInv, Accounted, Calm
<1>5. StoredKeysWereCandidates'
  BY DEF HInv, StoredKeysWereCandidates, Calm
<1> QED
  BY <1>2, <1>4, <1>5 DEF HInv

\* An action that answers with an error is calm and sound.
LEMMA ErrorStep ==
  ASSUME TypeOK, HInv, NEW w \in Workers, NEW code \in Statuses \ {"200"},
         Answer(w, code, {}), pc[w] # "answer", UNCHANGED <<rows, history>>
  PROVE  HInv'
<1>1. /\ pc' = [pc EXCEPT ![w] = "answer"]
      /\ job'[w].status = code /\ job'[w].shown = {} /\ job'[w].floor = job[w].floor
      /\ pc'[w] = "answer"
      /\ \A v \in Workers \ {w} : pc'[v] = pc[v] /\ job'[v] = job[v]
  BY DEF TypeOK, Answer, Goto, Job
<1>2. Calm(w)
  BY <1>1, SoundOf DEF Calm, Unanswered, At, history
<1>3. Sound(w)'
  BY <1>1 DEF Sound, At, Reading, Deciding, Accepted
<1> QED
  BY <1>2, <1>3, CalmStep

LEMMA InitHistory == Init => HInv
<1> SUFFICES ASSUME Init PROVE HInv
  OBVIOUS
<1>1. /\ rows = {} /\ told = {} /\ lost = {}
      /\ \A w \in Workers : pc[w] = "idle" /\ job[w] = NoJob
  BY DEF Init
<1>2. NoJob.floor = {}
  BY DEF NoJob
<1>3. Accounted
  BY <1>1 DEF Accounted, Unanswered, At
<1>4. SeenInPlace /\ ShownAreRows /\ AnswersAreFresh
  BY <1>1, <1>2 DEF SeenInPlace, ShownAreRows, AnswersAreFresh, At,
                    Reading, Deciding, Accepted
<1>5. StoredKeysWereCandidates
  BY <1>1 DEF StoredKeysWereCandidates
<1> QED
  BY <1>3, <1>4, <1>5 DEF HInv

\* A request keeps what was told when it arrived.
LEMMA StartHistory ==
  ASSUME TypeOK, HInv, NEW w \in Workers, Start(w)
  PROVE  HInv'
<1>1. PICK o \in Operations, c \in Claims, q \in Requests :
        job' = [job EXCEPT ![w] =
                  [NoJob EXCEPT !.op = o, !.claim = c, !.request = q,
                     !.floor = IF o = "decide" THEN {} ELSE told]]
  BY DEF Start
<1>2. /\ job'[w].floor \subseteq told
      /\ pc[w] = "idle" /\ pc'[w] = "bundle"
      /\ \A v \in Workers \ {w} : pc'[v] = pc[v] /\ job'[v] = job[v]
  BY <1>1 DEF Start, At, Goto, TypeOK, NoJob
<1>3. Calm(w)
  BY <1>2 DEF Calm, Start, Unanswered, At, store, history
<1>4. Sound(w)'
  BY <1>2 DEF Sound, At, Reading, Deciding, Accepted
<1> QED
  BY <1>3, <1>4, CalmStep

\* Every bundle in place is published.
Current == bundle # NoBundle => bundle \in published

LEMMA ReadBundleHistory ==
  ASSUME TypeOK, HInv, Current, NEW w \in Workers, ReadBundle(w)
  PROVE  HInv'
<1> USE DEF ReadBundle, BundleFails
<1>1. CASE Answer(w, "503", {}) \/ Answer(w, "500", {}) \/ Answer(w, "404", {})
  BY <1>1, ErrorStep DEF Statuses, At, store
<1>2. CASE /\ bundle # NoBundle
           /\ job[w].op = "queue" \/ job[w].claim \in DOMAIN bundle.candidates
           /\ job' = [job EXCEPT ![w].seen = bundle]
           /\ Goto(w, "decisions")
  <2>1. /\ job'[w].seen = bundle /\ job'[w].op = job[w].op
        /\ job'[w].claim = job[w].claim /\ job'[w].floor = job[w].floor
        /\ pc'[w] = "decisions" /\ pc[w] = "bundle"
        /\ \A v \in Workers \ {w} : pc'[v] = pc[v] /\ job'[v] = job[v]
    BY <1>2 DEF TypeOK, Goto, Job, At
  <2>2. Calm(w)
    BY <2>1, SoundOf DEF Calm, Unanswered, At, store, history
  <2>3. Sound(w)'
    BY <1>2, <2>1 DEF Sound, At, Reading, Deciding, Accepted, Current, history
  <2> QED
    BY <2>2, <2>3, CalmStep
<1> QED
  BY <1>1, <1>2

\* A queue or a detail shows the latest row of every claim it covers, so at least
\* what had been told.
LEMMA ReadDecisionsHistory ==
  ASSUME IInv, HInv, NEW w \in Workers, ReadDecisions(w)
  PROVE  HInv'
<1> USE DEF ReadDecisions
<1>0. TypeOK /\ Sound(w) /\ job[w].floor \subseteq told /\ told \subseteq rows /\ pc[w] = "decisions"
  BY SoundOf DEF IInv, HInv, Accounted, At
<1>1. CASE job[w].op = "decide"
  <2>1. /\ pc'[w] = "bundle again" /\ job'[w] = job[w]
        /\ \A v \in Workers \ {w} : pc'[v] = pc[v] /\ job'[v] = job[v]
    BY <1>0, <1>1 DEF TypeOK, Goto
  <2>2. Calm(w)
    BY <1>0, <2>1 DEF Calm, Unanswered, At, store, history
  <2>3. Sound(w)'
    BY <1>0, <1>1, <2>1 DEF Sound, At, Reading, Deciding, Accepted, history
  <2> QED
    BY <2>2, <2>3, CalmStep
<1>2. CASE job[w].op # "decide"
  <2> DEFINE m == job[w].seen.manuscript
             D == {r \in LatestDecisions(m) : r.claim \in Covered(w)}
  <2>1. /\ pc'[w] = "answer" /\ job'[w].shown = D
        /\ job'[w].op = job[w].op /\ job'[w].seen = job[w].seen
        /\ job'[w].claim = job[w].claim /\ job'[w].floor = job[w].floor
        /\ \A v \in Workers \ {w} : pc'[v] = pc[v] /\ job'[v] = job[v]
    BY <1>0, <1>2 DEF TypeOK, Answer, Goto, Job
  <2>2. Calm(w)
    BY <1>0, <1>2, <2>1 DEF Calm, Unanswered, At, store, history
  <2>3. Covered(w)' = Covered(w)
    BY <2>1 DEF Covered
  <2>4. D \subseteq rows
    BY DEF LatestDecisions
  <2>5. \A t \in job[w].floor :
          t.manuscript = m /\ t.claim \in Covered(w) =>
            \E r \in D : r.claim = t.claim /\ r.revision >= t.revision
    <3> SUFFICES ASSUME NEW t \in job[w].floor, t.manuscript = m, t.claim \in Covered(w)
                 PROVE  \E r \in D : r.claim = t.claim /\ r.revision >= t.revision
      OBVIOUS
    <3>1. PICK r \in LatestDecisions(t.manuscript) :
            r.claim = t.claim /\ r.revision >= t.revision
      BY <1>0, LatestIsLatest
    <3> QED
      BY <3>1
  <2>6. Sound(w)'
    BY <2>1, <2>3, <2>4, <2>5 DEF Sound, At, Reading, Deciding, Accepted, store
  <2> QED
    BY <2>2, <2>6, CalmStep
<1> QED
  BY <1>1, <1>2

\* Only a request its first bundle allows goes on.
LEMMA ReadBundleAgainHistory ==
  ASSUME TypeOK, HInv, NEW w \in Workers, ReadBundleAgain(w)
  PROVE  HInv'
<1> USE DEF ReadBundleAgain, BundleFails
<1>1. CASE Answer(w, "503", {}) \/ Answer(w, "500", {}) \/ Answer(w, "409", {})
  BY <1>1, ErrorStep DEF Statuses, At, store
<1>2. CASE /\ AcceptableRequest(job[w].seen, job[w].claim, job[w].request)
           /\ job' = [job EXCEPT ![w].target = bundle.manuscript]
           /\ Goto(w, "initialize")
  <2>0. Sound(w) /\ job[w].floor \subseteq told
    BY SoundOf
  <2>1. /\ job'[w].seen = job[w].seen /\ job'[w].op = job[w].op
        /\ job'[w].claim = job[w].claim /\ job'[w].floor = job[w].floor
        /\ job'[w].request = job[w].request
        /\ pc'[w] = "initialize" /\ pc[w] = "bundle again"
        /\ \A v \in Workers \ {w} : pc'[v] = pc[v] /\ job'[v] = job[v]
    BY <1>2 DEF TypeOK, Goto, Job, At
  <2>2. Calm(w)
    BY <2>0, <2>1 DEF Calm, Unanswered, At, store, history
  <2>3. AcceptableRequest(job[w].seen, job[w].claim, job[w].request)'
    BY <1>2, <2>1
  <2>4. Sound(w)'
    BY <2>0, <2>1, <2>3 DEF Sound, At, Reading, Deciding, Accepted, history
  <2> QED
    BY <2>2, <2>4, CalmStep
<1> QED
  BY <1>1, <1>2

\* The way to the transaction changes nothing these parts depend on.
LEMMA ApproachHistory ==
  ASSUME TypeOK, HInv, NEW w \in Workers, Initialize(w) \/ Begin(w)
  PROVE  HInv'
<1>0. Sound(w) /\ job[w].floor \subseteq told
  BY SoundOf
<1>1. /\ job'[w].seen = job[w].seen /\ job'[w].op = job[w].op
      /\ job'[w].claim = job[w].claim /\ job'[w].floor = job[w].floor
      /\ job'[w].request = job[w].request
      /\ pc'[w] \in {"begin", "commit"} /\ pc[w] \in {"initialize", "begin"}
      /\ \A v \in Workers \ {w} : pc'[v] = pc[v] /\ job'[v] = job[v]
      /\ UNCHANGED <<rows, history>>
  BY DEF Initialize, Begin, TypeOK, Goto, Job, At
<1>2. Calm(w)
  BY <1>0, <1>1 DEF Calm, Unanswered, At, history
<1>3. AcceptableRequest(job[w].seen, job[w].claim, job[w].request)'
  BY <1>0, <1>1 DEF Sound, Accepted
<1>4. Sound(w)'
  BY <1>0, <1>1, <1>3 DEF Sound, At, Reading, Deciding, Accepted, history
<1> QED
  BY <1>2, <1>4, CalmStep

\* The new row is of the accepted request, and is the answer.
LEMMA CommitHistory ==
  ASSUME IInv, HInv, NEW w \in Workers, Commit(w)
  PROVE  HInv'
<1> DEFINE new == NewRow(w)
<1>0. TypeOK /\ Sound(w) /\ job[w].floor \subseteq told /\ At(w, "commit")
  BY SoundOf DEF IInv, Commit
<1>1. /\ rows' = rows \union {new} /\ UNCHANGED history
      /\ pc'[w] = "answer" /\ job'[w].shown = {new}
      /\ job'[w].op = job[w].op /\ job'[w].floor = job[w].floor
      /\ \A v \in Workers \ {w} : pc'[v] = pc[v] /\ job'[v] = job[v]
  BY <1>0 DEF TypeOK, Commit, Answer, Goto, Job
<1>2. job[w].op = "decide"
  BY <1>0 DEF Sound, At, Deciding
<1>3. Unanswered(w) = {} /\ Unanswered(w)' = {new}
  BY <1>0, <1>1, <1>2 DEF Unanswered, At
<1>4. \A v \in Workers : Sound(v)' /\ (job[v].floor \subseteq told)'
  <2> SUFFICES ASSUME NEW v \in Workers PROVE Sound(v)' /\ (job[v].floor \subseteq told)'
    OBVIOUS
  <2>1. CASE v = w
    BY <2>1, <1>0, <1>1, <1>2 DEF Sound, At, Reading, Deciding, Accepted, history
  <2>2. CASE v # w
    BY <2>2, <1>1, SoundOf, StaysSound DEF history
  <2> QED
    BY <2>1, <2>2
<1>5. SeenInPlace' /\ ShownAreRows' /\ AnswersAreFresh'
  BY <1>4 DEF Sound, SeenInPlace, ShownAreRows, AnswersAreFresh
<1>6. \A v \in Workers \ {w} : Unanswered(v)' = Unanswered(v)
  BY <1>1 DEF Unanswered, At
<1>7. Accounted'
  <2>1. UNION {Unanswered(v)' : v \in Workers} = {new} \union UNION {Unanswered(v) : v \in Workers}
    BY <1>3, <1>6
  <2> QED
    BY <2>1, <1>1 DEF HInv, Accounted, history
<1>8. StoredKeysWereCandidates'
  <2> SUFFICES ASSUME NEW r \in rows'
               PROVE  /\ r.disposition \in {"ACCEPT_CITATION", "PARTIAL_SUPPORT"} <=> r.selected # <<>>
                      /\ \E b \in published' :
                           /\ r.claim \in DOMAIN b.candidates
                           /\ {r.selected[i] : i \in DOMAIN r.selected} \subseteq b.candidates[r.claim]
    BY DEF StoredKeysWereCandidates
  <2>1. published' = published
    BY <1>1 DEF history
  <2>2. CASE r \in rows
    BY <2>1, <2>2 DEF HInv, StoredKeysWereCandidates
  <2>3. CASE r = new
    BY <2>1, <2>3, <1>0, AcceptedRow DEF HInv
  <2> QED
    BY <2>2, <2>3, <1>1
<1> QED
  BY <1>5, <1>7, <1>8 DEF HInv

\* What was shown becomes what was told, so nothing goes missing from the account.
LEMMA RespondHistory ==
  ASSUME TypeOK, HInv, NEW w \in Workers, Respond(w)
  PROVE  HInv'
<1>0. Sound(w) /\ At(w, "answer") /\ job[w].shown \subseteq rows
  BY SoundOf DEF Respond, Sound
<1>1. /\ told' = told \union job[w].shown
      /\ UNCHANGED <<rows, published, lost>>
      /\ pc'[w] = "idle" /\ job'[w] = NoJob
      /\ \A v \in Workers \ {w} : pc'[v] = pc[v] /\ job'[v] = job[v]
  BY DEF TypeOK, Respond, Goto, store
<1>2. \A v \in Workers : Sound(v)' /\ (job[v].floor \subseteq told)'
  <2> SUFFICES ASSUME NEW v \in Workers PROVE Sound(v)' /\ (job[v].floor \subseteq told)'
    OBVIOUS
  <2>1. CASE v = w
    BY <2>1, <1>1 DEF Sound, At, Reading, Deciding, Accepted, NoJob
  <2>2. CASE v # w
    BY <2>2, <1>1, SoundOf, StaysSound
  <2> QED
    BY <2>1, <2>2
<1>3. SeenInPlace' /\ ShownAreRows' /\ AnswersAreFresh'
  BY <1>2 DEF Sound, SeenInPlace, ShownAreRows, AnswersAreFresh
<1>4. /\ \A v \in Workers \ {w} : Unanswered(v)' = Unanswered(v)
      /\ Unanswered(w)' = {} /\ Unanswered(w) \subseteq job[w].shown
  BY <1>0, <1>1 DEF Unanswered, At
<1>5. Accounted'
  <2>1. UNION {Unanswered(v) : v \in Workers} \subseteq
          job[w].shown \union UNION {Unanswered(v)' : v \in Workers}
    BY <1>4
  <2>2. UNION {Unanswered(v)' : v \in Workers} \subseteq UNION {Unanswered(v) : v \in Workers}
    BY <1>4
  <2> QED
    BY <2>1, <2>2, <1>0, <1>1 DEF HInv, Accounted
<1>6. StoredKeysWereCandidates'
  BY <1>1 DEF HInv, StoredKeysWereCandidates
<1> QED
  BY <1>3, <1>5, <1>6 DEF HInv

LEMMA CrashHistory ==
  ASSUME HInv, Crash
  PROVE  HInv'
<1>1. /\ lost' = lost \union UNION {Unanswered(w) : w \in Workers}
      /\ UNCHANGED <<rows, published, told>>
      /\ \A w \in Workers : pc'[w] = "idle" /\ job'[w].floor = {}
  BY DEF Crash, NoJob
<1>2. UNION {Unanswered(w)' : w \in Workers} = {}
  BY <1>1 DEF Unanswered, At
<1>3. Accounted'
  BY <1>1, <1>2 DEF HInv, Accounted
<1>4. SeenInPlace' /\ ShownAreRows' /\ AnswersAreFresh'
  BY <1>1 DEF SeenInPlace, ShownAreRows, AnswersAreFresh, At, Reading, Deciding,
              Accepted
<1>5. StoredKeysWereCandidates'
  BY <1>1 DEF HInv, StoredKeysWereCandidates
<1> QED
  BY <1>3, <1>4, <1>5 DEF HInv

\* Nothing of this depends on the bundle in place, but on those that were.
LEMMA StillHistory ==
  ASSUME HInv, UNCHANGED <<rows, pc, job, told, lost>>, published \subseteq published'
  PROVE  HInv'
<1>1. \A v \in Workers : Sound(v)' /\ (job[v].floor \subseteq told)'
  BY SoundOf, StaysSound
<1>2. SeenInPlace' /\ ShownAreRows' /\ AnswersAreFresh'
  BY <1>1 DEF Sound, SeenInPlace, ShownAreRows, AnswersAreFresh
<1>3. Accounted'
  BY DEF HInv, Accounted, Unanswered, At
<1>4. StoredKeysWereCandidates'
  BY DEF HInv, StoredKeysWereCandidates
<1> QED
  BY <1>2, <1>3, <1>4 DEF HInv

AllInv == IInv /\ Current /\ HInv

LEMMA NextHistory == AllInv /\ [Next]_vars => AllInv'
<1> SUFFICES ASSUME AllInv, [Next]_vars PROVE AllInv'
  OBVIOUS
<1> USE DEF AllInv
<1>0. IInv' /\ TypeOK
  BY NextInv DEF IInv
<1>1. CASE ReplaceBundle
  <2>1. Current' /\ published \subseteq published'
    BY <1>1, NoBundleAssumption, <1>0 DEF ReplaceBundle, Current, TypeOK
  <2> QED
    BY <1>0, <1>1, <2>1, StillHistory DEF ReplaceBundle, store
<1>2. CASE Crash
  <2>1. Current'
    BY <1>2 DEF Crash, Current
  <2> QED
    BY <1>0, <1>2, <2>1, CrashHistory
<1>3. ASSUME NEW w \in Workers, Start(w) PROVE AllInv'
  <2>1. Current'
    BY <1>3 DEF Start, Current, history
  <2> QED
    BY <1>0, <1>3, <2>1, StartHistory
<1>4. ASSUME NEW w \in Workers, Serve(w) PROVE AllInv'
  <2>0. Current'
    <3>1. UNCHANGED <<bundle, published>>
      <4>1. CASE ReadBundle(w) \/ ReadDecisions(w) \/ ReadBundleAgain(w) \/ Initialize(w)
        BY <4>1 DEF history, ReadBundle, ReadDecisions, ReadBundleAgain, Initialize
      <4>2. CASE Begin(w) \/ Commit(w) \/ CommitFails(w)
        BY <4>2 DEF history, Begin, Commit, CommitFails
      <4>3. CASE StoreLocked(w) \/ StoreUnavailable(w) \/ Respond(w)
        BY <4>3 DEF history, StoreLocked, StoreUnavailable, Respond
      <4> QED
        BY <1>4, <4>1, <4>2, <4>3 DEF Serve
    <3> QED
      BY <3>1 DEF Current
  <2>1. CASE ReadBundle(w)
    BY <1>0, <2>0, <2>1, ReadBundleHistory
  <2>2. CASE ReadDecisions(w)
    BY <1>0, <2>0, <2>2, ReadDecisionsHistory
  <2>3. CASE ReadBundleAgain(w)
    BY <1>0, <2>0, <2>3, ReadBundleAgainHistory
  <2>4. CASE Initialize(w) \/ Begin(w)
    BY <1>0, <2>0, <2>4, ApproachHistory
  <2>5. CASE Commit(w)
    BY <1>0, <2>0, <2>5, CommitHistory
  <2>6. CASE CommitFails(w)
    BY <1>0, <2>0, <2>6, ErrorStep DEF CommitFails, Statuses, At
  <2>7. CASE StoreLocked(w) \/ StoreUnavailable(w)
    BY <1>0, <2>0, <2>7, ErrorStep DEF StoreLocked, StoreUnavailable, Statuses, At, store
  <2>8. CASE Respond(w)
    BY <1>0, <2>0, <2>8, RespondHistory
  <2> QED
    BY <1>4, <2>1, <2>2, <2>3, <2>4, <2>5, <2>6, <2>7, <2>8 DEF Serve
<1>5. CASE UNCHANGED vars
  <2>1. Current'
    BY <1>5 DEF vars, history, Current
  <2> QED
    BY <1>0, <1>5, <2>1, StillHistory DEF vars, store, history
<1> QED
  BY <1>1, <1>2, <1>3, <1>4, <1>5 DEF Next

THEOREM HistoryInvariance == Spec => []AllInv
<1>1. Init => AllInv
  BY InitInv, InitHistory DEF AllInv, Init, Current
<1> QED
  BY <1>1, NextHistory, PTL DEF Spec

\* A queue or a detail never shows less than some reviewer was told before it was
\* asked for, however decisions and replacements of the bundle come between.
THEOREM AnswersStayFresh == Spec => []AnswersAreFresh
<1>1. AllInv => AnswersAreFresh
  BY DEF AllInv, HInv
<1> QED
  BY <1>1, HistoryInvariance, PTL

\* decide() stores only keys that were candidates of the claim in a bundle in place.
THEOREM KeysWereCandidates == Spec => []StoredKeysWereCandidates
<1>1. AllInv => StoredKeysWereCandidates
  BY DEF AllInv, HInv
<1> QED
  BY <1>1, HistoryInvariance, PTL

\* Every row was told, is about to be told or was lost in a crash, and the write
\* lock is held by nobody but the worker inside its transaction.
THEOREM AllRowsAccountedFor == Spec => []RowsAccountedFor
<1>1. AllInv => RowsAccountedFor
  BY NoWorkerAssumption DEF AllInv, HInv, Accounted, RowsAccountedFor, IInv, LockHolder, TypeOK
<1> QED
  BY <1>1, HistoryInvariance, PTL

-------------------------------------------------------------------------------
\* The table as a log.

\* The log and the answers DecisionLog sees in the state of the review.
RecordedLog ==
  [s \in Manuscripts \X Claims |->
     [n \in 1 .. LastRevision(s[1], s[2]) |-> DecisionOf(RowAt(s[1], s[2], n))]]

TellOf(r) == <<<<r.manuscript, r.claim>>, r.revision, DecisionOf(r)>>

ToldEntries == {TellOf(r) : r \in told}

\* A request is one of those reviewers send, so its decision can be recorded.
RequestsSent == \A w \in Workers : job[w].request \in Requests

LEMMA NoJobSent == NoJob.request \in Requests
  BY ValuesAssumption DEF NoJob

LEMMA NextSent == TypeOK /\ RequestsSent /\ [Next]_vars => RequestsSent'
<1> SUFFICES ASSUME TypeOK, RequestsSent, [Next]_vars, NEW v \in Workers
             PROVE  job'[v].request \in Requests
  BY DEF RequestsSent
<1>0. job[v].request \in Requests /\ job[v] \in Job
  BY DEF RequestsSent, TypeOK
<1>1. CASE ReplaceBundle \/ UNCHANGED vars
  BY <1>0, <1>1 DEF ReplaceBundle, vars
<1>2. CASE Crash
  BY <1>2, NoJobSent DEF Crash
<1>3. ASSUME NEW w \in Workers, Start(w) PROVE job'[v].request \in Requests
  <2>1. PICK o \in Operations, c \in Claims, q \in Requests :
          job' = [job EXCEPT ![w] =
                    [NoJob EXCEPT !.op = o, !.claim = c, !.request = q,
                       !.floor = IF o = "decide" THEN {} ELSE told]]
    BY <1>3 DEF Start
  <2> QED
    BY <1>0, <2>1, NoJobType DEF TypeOK, Job
<1>4. ASSUME NEW w \in Workers, Serve(w) PROVE job'[v].request \in Requests
  <2>1. CASE ReadBundle(w) \/ ReadDecisions(w) \/ ReadBundleAgain(w) \/ Initialize(w)
    <3>1. ASSUME NEW code, NEW R, Answer(w, code, R)
          PROVE  job'[v].request \in Requests
      BY <1>0, <3>1 DEF Answer, TypeOK, Job
    <3>2. CASE ReadBundle(w)
      BY <1>0, <3>1, <3>2 DEF ReadBundle, BundleFails, TypeOK, Job
    <3>3. CASE ReadDecisions(w)
      BY <1>0, <3>1, <3>3 DEF ReadDecisions
    <3>4. CASE ReadBundleAgain(w)
      <4>1. \/ \E code : Answer(w, code, {})
            \/ job' = [job EXCEPT ![w].target = bundle.manuscript]
        BY <3>4 DEF ReadBundleAgain, BundleFails
      <4> QED
        BY <1>0, <3>1, <4>1 DEF TypeOK, Job
    <3> QED
      BY <1>0, <2>1, <3>2, <3>3, <3>4 DEF Initialize
  <2>2. CASE Begin(w) \/ Commit(w) \/ CommitFails(w)
    BY <1>0, <2>2 DEF TypeOK, Job, Begin, Commit, CommitFails, Answer
  <2>3. CASE StoreLocked(w) \/ StoreUnavailable(w) \/ Respond(w)
    BY <1>0, <2>3, NoJobSent DEF TypeOK, Job, StoreLocked, StoreUnavailable, Respond, Answer
  <2> QED
    BY <1>4, <2>1, <2>2, <2>3 DEF Serve
<1> QED
  BY <1>1, <1>2, <1>3, <1>4 DEF Next

\* In a table without doubles the row of a claim and a revision is that row.
LEMMA TheRow ==
  ASSUME NEW R, NEW r \in R, NEW m, NEW c, NEW n,
         r.manuscript = m, r.claim = c, r.revision = n,
         \A x, y \in R : SameClaim(x, y) /\ x.revision = y.revision => x = y
  PROVE  (CHOOSE x \in R : x.manuscript = m /\ x.claim = c /\ x.revision = n) = r
  BY DEF SameClaim

\* The revisions of a claim run to the last one, and a row stands at each.
LEMMA RowsToLast ==
  ASSUME Complete, UniqueRows, NEW m \in Manuscripts, NEW c \in Claims
  PROVE  /\ LastRevision(m, c) \in Nat
         /\ Revisions(m, c) = 1 .. LastRevision(m, c)
         /\ \A n \in 1 .. LastRevision(m, c) :
              \E r \in rows : /\ r.manuscript = m /\ r.claim = c /\ r.revision = n
                              /\ RowAt(m, c, n) = r
<1>1. PICK n \in Nat : Revisions(m, c) = 1 .. n
  BY DEF Complete
<1>2. LastRevision(m, c) = n
  BY <1>1, LastOfSegment
<1>3. ASSUME NEW k \in 1 .. n
      PROVE  \E r \in rows : /\ r.manuscript = m /\ r.claim = c /\ r.revision = k
                             /\ RowAt(m, c, k) = r
  <2>1. PICK r \in rows : r.manuscript = m /\ r.claim = c /\ r.revision = k
    BY <1>1 DEF Revisions
  <2>2. RowAt(m, c, k) = r
    BY <2>1, TheRow DEF RowAt, UniqueRows
  <2> QED
    BY <2>1, <2>2
<1> QED
  BY <1>1, <1>2, <1>3

\* Each row is an entry of the log, at its own revision.
LEMMA RowsAreEntries ==
  ASSUME IInv, NEW r \in rows
  PROVE  TellOf(r) \in Log!Entries
<1> DEFINE m == r.manuscript
           c == r.claim
           n == r.revision
<1>1. m \in Manuscripts /\ c \in Claims
  BY DEF IInv, TypeOK, Row
<1>2. LastRevision(m, c) \in Nat /\ n \in 1 .. LastRevision(m, c)
  <2>1. n \in Revisions(m, c)
    BY DEF Revisions
  <2> QED
    BY <1>1, <2>1, RowsToLast DEF IInv
<1>3. RowAt(m, c, n) = r
  BY TheRow DEF IInv, UniqueRows, RowAt
<1>4. <<m, c>> \in Manuscripts \X Claims /\ <<m, c>>[1] = m /\ <<m, c>>[2] = c
  BY <1>1
<1>5. RecordedLog[<<m, c>>] = [k \in 1 .. LastRevision(m, c) |-> DecisionOf(RowAt(m, c, k))]
  BY <1>4 DEF RecordedLog
<1>6. /\ Len(RecordedLog[<<m, c>>]) = LastRevision(m, c)
      /\ RecordedLog[<<m, c>>][n] = DecisionOf(r)
  BY <1>2, <1>3, <1>5
<1> QED
  BY <1>2, <1>4, <1>6 DEF TellOf, Log!Entries, RecordedLog

\* A commit appends its request to the log of its claim, and to no other.
LEMMA CommitRecords ==
  ASSUME IInv, NEW w \in Workers, Commit(w),
         NEW m, NEW c, NEW q, m = job[w].target, c = job[w].claim, q = job[w].request
  PROVE  Log!Record(<<m, c>>, q)
<1>0. PICK last, new : last = LastRevision(m, c) /\ new = NewRow(w)
  OBVIOUS
<1>1. m \in Manuscripts /\ c \in Claims /\ q \in Request
  BY DEF IInv, TypeOK, Job
<1>2. /\ rows' = rows \union {new} /\ told' = told
      /\ new.manuscript = m /\ new.claim = c /\ new.revision = last + 1
      /\ DecisionOf(new) = q
  <2>1. new.revision = last + 1
    BY <1>0 DEF Commit, IInv, RevisionIsNext, NewRow, NextRevision
  <2>2. DecisionOf(new) = q
    BY <1>0, <1>1 DEF DecisionOf, NewRow, Request
  <2> QED
    BY <1>0, <2>1, <2>2 DEF Commit, history, NewRow
<1>3. Complete' /\ UniqueRows'
  BY CommitStep
<1>4. last \in Nat /\ Revisions(m, c) = 1 .. last
  BY <1>0, <1>1, RowsToLast DEF IInv
<1>5. Revisions(m, c)' = 1 .. (last + 1)
  <2>1. Revisions(m, c)' = Revisions(m, c) \union {last + 1}
    BY <1>2 DEF Revisions
  <2> QED
    BY <1>4, <2>1
<1>6. LastRevision(m, c)' = last + 1
  <2>1. \A k \in 1 .. (last + 1) : (\A j \in 1 .. (last + 1) : j <= k) => k = last + 1
    BY <1>4
  <2>2. last + 1 \in 1 .. (last + 1) /\ \A k \in 1 .. (last + 1) : k <= last + 1
    BY <1>4
  <2> QED
    BY <1>5, <2>1, <2>2 DEF LastRevision
<1>7. ASSUME NEW a \in Manuscripts, NEW d \in Claims, ~(a = m /\ d = c)
      PROVE  LastRevision(a, d)' = LastRevision(a, d)
  <2>1. Revisions(a, d)' = Revisions(a, d)
    BY <1>2, <1>7 DEF Revisions
  <2> QED
    BY <2>1 DEF LastRevision
<1>8. ASSUME NEW a \in Manuscripts, NEW d \in Claims, NEW n \in 1 .. LastRevision(a, d)
      PROVE  RowAt(a, d, n)' = RowAt(a, d, n)
  <2>1. PICK r \in rows : /\ r.manuscript = a /\ r.claim = d /\ r.revision = n
                          /\ RowAt(a, d, n) = r
    BY RowsToLast DEF IInv
  <2>2. r \in rows'
    BY <1>2
  <2>3. (CHOOSE x \in rows' : x.manuscript = a /\ x.claim = d /\ x.revision = n) = r
    BY <1>3, <2>1, <2>2, TheRow DEF UniqueRows
  <2> QED
    BY <2>1, <2>3 DEF RowAt
<1>9. RowAt(m, c, last + 1)' = new
  <2>1. new \in rows'
    BY <1>2
  <2>2. (CHOOSE x \in rows' : x.manuscript = m /\ x.claim = c /\ x.revision = last + 1) = new
    BY <1>2, <1>3, <2>1, TheRow DEF UniqueRows
  <2> QED
    BY <2>2 DEF RowAt
<1>10. RecordedLog' = [RecordedLog EXCEPT ![<<m, c>>] = Append(@, q)]
  <2> DEFINE S == Manuscripts \X Claims
             Old(s) == [n \in 1 .. LastRevision(s[1], s[2]) |-> DecisionOf(RowAt(s[1], s[2], n))]
             New(s) == [n \in 1 .. LastRevision(s[1], s[2])' |-> DecisionOf(RowAt(s[1], s[2], n)')]
  <2>1. RecordedLog = [s \in S |-> Old(s)] /\ RecordedLog' = [s \in S |-> New(s)]
    BY DEF RecordedLog, DecisionOf
  <2>2. ASSUME NEW s \in S, s # <<m, c>> PROVE New(s) = Old(s)
    <3>1. s[1] \in Manuscripts /\ s[2] \in Claims /\ ~(s[1] = m /\ s[2] = c)
      BY <2>2
    <3>2. LastRevision(s[1], s[2])' = LastRevision(s[1], s[2])
      BY <1>7, <3>1
    <3>3. \A n \in 1 .. LastRevision(s[1], s[2]) :
            DecisionOf(RowAt(s[1], s[2], n)') = DecisionOf(RowAt(s[1], s[2], n))
      BY <1>8, <3>1
    <3> QED
      BY <3>2, <3>3
  <2>3. New(<<m, c>>) = Append(Old(<<m, c>>), q)
    <3>1. \A n \in 1 .. last : DecisionOf(RowAt(m, c, n)') = DecisionOf(RowAt(m, c, n))
      BY <1>0, <1>1, <1>8
    <3>2. DecisionOf(RowAt(m, c, last + 1)') = q
      BY <1>2, <1>9
    <3> DEFINE F(n) == DecisionOf(RowAt(m, c, n))
               G(n) == DecisionOf(RowAt(m, c, n)')
    <3>3. /\ Old(<<m, c>>) = [n \in 1 .. last |-> F(n)]
          /\ New(<<m, c>>) = [n \in 1 .. (last + 1) |-> G(n)]
      BY <1>0, <1>6
    <3>4. (\A n \in 1 .. last : G(n) = F(n)) /\ G(last + 1) = q
      BY <3>1, <3>2
    <3> HIDE DEF F, G
    <3>5. [n \in 1 .. (last + 1) |-> G(n)] = Append([n \in 1 .. last |-> F(n)], q)
      BY <1>4, <3>4
    <3> QED
      BY <3>3, <3>5
  <2>4. <<m, c>> \in S
    BY <1>1
  <2> HIDE DEF Old, New
  <2> QED
    BY <2>1, <2>2, <2>3, <2>4
<1> QED
  BY <1>2, <1>10 DEF Log!Record, RecordedLog, ToldEntries

\* The two variables of the log are functions of the rows and of what was told.
LEMMA LogUntouched ==
  ASSUME rows' = rows, told' = told
  PROVE  UNCHANGED Log!vars
<1>1. \A m, c, n : LastRevision(m, c)' = LastRevision(m, c) /\ RowAt(m, c, n)' = RowAt(m, c, n)
  BY DEF LastRevision, Revisions, RowAt
<1> QED
  BY <1>1 DEF Log!vars, DecisionOf

\* Every step of the review records one decision, tells of entries, or leaves the
\* log and what was told alone.
LEMMA StepRefines == AllInv /\ RequestsSent /\ [Next]_vars => [Log!Next]_(Log!vars)
<1> SUFFICES ASSUME AllInv, RequestsSent, [Next]_vars
             PROVE  Log!Next \/ UNCHANGED Log!vars
  OBVIOUS
<1>0. IInv /\ TypeOK /\ HInv
  BY DEF AllInv, IInv
<1>1. CASE ReplaceBundle \/ Crash \/ UNCHANGED vars
  <2>1. rows' = rows /\ told' = told
    BY <1>1 DEF ReplaceBundle, Crash, vars, store, history
  <2> QED
    BY <2>1, LogUntouched
<1>2. ASSUME NEW w \in Workers, Start(w) PROVE UNCHANGED Log!vars
  BY <1>2, LogUntouched DEF Start, store, history
<1>3. ASSUME NEW w \in Workers, Commit(w) PROVE Log!Next
  <2>1. PICK m, c, q : m = job[w].target /\ c = job[w].claim /\ q = job[w].request
    OBVIOUS
  <2>2. <<m, c>> \in Manuscripts \X Claims /\ q \in Requests
    BY <1>0, <2>1 DEF TypeOK, Job, RequestsSent
  <2>3. Log!Record(<<m, c>>, q)
    BY <1>0, <1>3, <2>1, CommitRecords
  <2> QED
    BY <2>2, <2>3 DEF Log!Next
<1>4. ASSUME NEW w \in Workers, Respond(w) PROVE Log!Next
  <2>1. job[w].shown \subseteq rows /\ told' = told \union job[w].shown /\ rows' = rows
    BY <1>0, <1>4 DEF Respond, HInv, ShownAreRows, store
  <2>2. \A r \in job[w].shown : TellOf(r) \in Log!Entries
    BY <1>0, <2>1, RowsAreEntries
  <2>3. ToldEntries' = ToldEntries \union {TellOf(r) : r \in job[w].shown}
    BY <2>1 DEF ToldEntries, TellOf, DecisionOf
  <2>4. ToldEntries \subseteq ToldEntries' /\ ToldEntries' \subseteq ToldEntries \union Log!Entries
    BY <2>2, <2>3
  <2>5. RecordedLog' = RecordedLog
    BY <2>1 DEF RecordedLog, LastRevision, Revisions, RowAt, DecisionOf
  <2> QED
    BY <2>4, <2>5 DEF Log!Next, Log!Tell, ToldEntries, TellOf, RecordedLog
<1>5. ASSUME NEW w \in Workers, Serve(w), ~Commit(w), ~Respond(w)
      PROVE  UNCHANGED Log!vars
  <2>1. rows' = rows /\ told' = told
    BY <1>5 DEF Serve, ReadBundle, ReadDecisions, ReadBundleAgain, Initialize, Begin,
          CommitFails, StoreLocked, StoreUnavailable, store, history
  <2> QED
    BY <2>1, LogUntouched
<1> QED
  BY <1>1, <1>2, <1>3, <1>4, <1>5 DEF Next

\* The table is empty and so is its log.
LEMMA InitRefines == Init => Log!Init
<1> SUFFICES ASSUME Init PROVE Log!Init
  OBVIOUS
<1>1. \A m, c : LastRevision(m, c) = 0
  BY DEF Init, LastRevision, Revisions
<1>2. ASSUME NEW s \in Manuscripts \X Claims
      PROVE  [n \in 1 .. LastRevision(s[1], s[2]) |-> DecisionOf(RowAt(s[1], s[2], n))] = <<>>
  BY <1>1
<1> QED
  BY <1>2 DEF Init, Log!Init

\* The citation review implements the abstract decision log: its table is an
\* append-only log per claim of a manuscript, however decides interleave, fail and
\* crash, and every answer is an entry of it at its own revision.
THEOREM Refinement == Spec => ImplementsDecisionLog
<1>1. Init => RequestsSent
  BY NoJobSent DEF Init, RequestsSent
<1>2. AllInv => TypeOK
  BY DEF AllInv, IInv
<1> QED
  BY <1>1, <1>2, NextSent, InitRefines, StepRefines, HistoryInvariance, PTL
  DEF Spec, ImplementsDecisionLog, Log!Spec

==============================================================================
