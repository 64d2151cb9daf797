------------------------ MODULE LiteratureProgressProofs ------------------------
(***************************************************************************)
(* What the run of LiteratureProgress shows of one reader and two claims,  *)
(* proved for any number of readers, claims, outputs and labels.           *)
(*                                                                         *)
(* The files of an output only grow, so that whatever was read of one      *)
(* stays a part of it: LInv says this of the output a reader has picked,   *)
(* and of every claim it is past that it has the assessment that was there *)
(* when it asked.                                                          *)
(***************************************************************************)
EXTENDS LiteratureProgress, TLAPS

\* What was read of an output is of that output; without one nothing is read.
OfOutput(r) ==
  LET j == job[r]
  IN  /\ j.output \in Outputs =>
           /\ \A c \in Claims : /\ j.evidence[c] \subseteq UNION evidence[j.output][c]
                                /\ j.assessments[c] \subseteq assessments[j.output][c]
           /\ j.authorized => j.output \in manifests
      /\ j.output = NoOutput =>
           \A c \in Claims : j.evidence[c] = {} /\ j.assessments[c] = {}

\* What was assessed when the request arrived is so in the output of that time.
Remembered(r) ==
  LET j == job[r]
  IN  j.assessed \subseteq
        {c \in Claims : \E o \in Outputs : o = j.latest /\ assessments[o][c] # {}}

\* A reader of the output of that time has what was assessed of the claims it has
\* read, and in the end of all.
CaughtUp(r) ==
  LET j == job[r]
  IN  j.output = j.latest =>
        /\ pc[r] = "assessments" =>
             \A c \in j.assessed : c < j.next => j.assessments[c] # {}
        /\ pc[r] = "manifest" \/ (pc[r] = "answer" /\ j.status = "OK") =>
             \A c \in j.assessed : j.assessments[c] # {}

\* Where a reader stands.
Placed(r) ==
  LET j == job[r]
  IN  /\ pc[r] \in {"idle", "output"} => j.output = NoOutput /\ ~j.authorized
      /\ pc[r] \in {"output", "frames", "manifest"} => j.next = 1
      /\ pc[r] \in {"evidence", "assessments"} => j.output \in Outputs
      /\ pc[r] = "answer" /\ j.status = "OK" => j.phase = Phase(j)

Sound(r) == OfOutput(r) /\ Remembered(r) /\ CaughtUp(r) /\ Placed(r)

LInv == TypeOK /\ \A r \in Readers : Sound(r)

-------------------------------------------------------------------------------
\* Types.

LEMMA Bounds ==
  /\ ClaimCount \in Nat \ {0} /\ MaxOutputs \in Nat
  /\ 1 \in Claims
  /\ \A c \in Claims : c \in Nat /\ Following(c) \in Claims
  /\ \A o \in Outputs : o \in Nat /\ o # NoOutput
  BY ClaimAssumption, BoundAssumption DEF Claims, Outputs, Following, NoOutput

LEMMA EmptyJob ==
  /\ NoJob \in Job
  /\ NoJob.output = NoOutput /\ NoJob.next = 1 /\ NoJob.authorized = FALSE
  /\ NoJob.latest = NoOutput /\ NoJob.assessed = {}
  /\ \A c \in Claims : NoJob.evidence[c] = {} /\ NoJob.assessments[c] = {}
  BY Bounds DEF NoJob, Job, FileOf, Phases, Statuses

\* The review only adds to the files of an output.
Grows ==
  /\ \A o \in Outputs, c \in Claims :
       /\ evidence[o][c] \subseteq evidence'[o][c]
       /\ assessments[o][c] \subseteq assessments'[o][c]
  /\ manifests \subseteq manifests'

LEMMA ReviewTypes ==
  ASSUME TypeOK, Review
  PROVE  TypeOK' /\ Grows
<1>1. UNCHANGED <<pc, job>>
  BY DEF Review
<1>2. made \in Nat /\ made <= MaxOutputs /\ (made > 0 => made \in Outputs)
  BY Bounds DEF TypeOK, Outputs
<1>3. CASE MakeOutput
  <2>1. /\ made' = made + 1 /\ touched' = made + 1 /\ made < MaxOutputs
        /\ UNCHANGED <<evidence, assessments, manifests, frames>>
    BY <1>3 DEF MakeOutput
  <2>2. made' \in 0 .. MaxOutputs /\ touched' \in 0 .. made'
    BY <1>2, <2>1, Bounds
  <2>3. manifests \subseteq 1 .. made'
    BY <1>2, <2>1 DEF TypeOK
  <2> QED
    BY <1>1, <2>1, <2>2, <2>3 DEF TypeOK, Grows
<1>4. CASE WriteManifest
  <2>1. PICK o \in 1 .. made :
          manifests' \in {manifests, manifests \union {o}} /\ touched' = o
    BY <1>4 DEF WriteManifest
  <2>2. UNCHANGED <<made, evidence, assessments, frames>>
    BY <1>4 DEF WriteManifest
  <2>3. touched' \in 0 .. made /\ manifests' \subseteq 1 .. made /\ manifests \subseteq manifests'
    BY <1>2, <2>1 DEF TypeOK
  <2> QED
    BY <1>1, <2>2, <2>3 DEF TypeOK, Grows
<1>5. ASSUME NEW c \in Claims, WriteEvidence(c) PROVE TypeOK' /\ Grows
  <2>1. PICK S \in Bundles : evidence' = [evidence EXCEPT ![made][c] = {S}]
    BY <1>5 DEF WriteEvidence
  <2>2. /\ made \in Outputs /\ evidence[made][c] = {}
        /\ UNCHANGED <<made, touched, assessments, manifests, frames>>
    BY <1>2, <1>5 DEF WriteEvidence
  <2>3. {S} \in FileOf(SUBSET Labels)
    BY BundlesAssumption DEF FileOf
  <2>4. evidence' \in [Outputs -> [Claims -> FileOf(SUBSET Labels)]]
    BY <2>1, <2>2, <2>3 DEF TypeOK
  <2>5. \A o \in Outputs, d \in Claims : evidence[o][d] \subseteq evidence'[o][d]
    BY <2>1, <2>2 DEF TypeOK
  <2> QED
    BY <1>1, <2>2, <2>4, <2>5 DEF TypeOK, Grows
<1>6. ASSUME NEW c \in Claims, WriteAssessment(c) PROVE TypeOK' /\ Grows
  <2>1. PICK S \in SUBSET UNION evidence[made][c] :
          assessments' = [assessments EXCEPT ![made][c] = {S}]
    BY <1>6 DEF WriteAssessment
  <2>2. /\ made \in Outputs /\ assessments[made][c] = {}
        /\ UNCHANGED <<made, touched, evidence, manifests, frames>>
    BY <1>2, <1>6 DEF WriteAssessment
  <2>3. {S} \in FileOf(SUBSET Labels)
    <3>1. evidence[made][c] \in FileOf(SUBSET Labels)
      BY <2>2 DEF TypeOK
    <3>2. UNION evidence[made][c] \subseteq Labels
      BY <3>1 DEF FileOf
    <3> QED
      BY <3>2 DEF FileOf
  <2>4. assessments' \in [Outputs -> [Claims -> FileOf(SUBSET Labels)]]
    BY <2>1, <2>2, <2>3 DEF TypeOK
  <2>5. \A o \in Outputs, d \in Claims : assessments[o][d] \subseteq assessments'[o][d]
    BY <2>1, <2>2 DEF TypeOK
  <2> QED
    BY <1>1, <2>2, <2>4, <2>5 DEF TypeOK, Grows
<1>7. ASSUME NEW c \in Claims, WriteFrame(c) PROVE TypeOK' /\ Grows
  <2>1. /\ made \in Outputs /\ frames' = [frames EXCEPT ![c] = evidence[made][c]]
        /\ UNCHANGED <<made, touched, evidence, assessments, manifests>>
    BY <1>2, <1>7 DEF WriteFrame
  <2>2. frames' \in [Claims -> FileOf(SUBSET Labels)]
    BY <2>1 DEF TypeOK
  <2> QED
    BY <1>1, <2>1, <2>2 DEF TypeOK, Grows
<1> QED
  BY <1>3, <1>4, <1>5, <1>6, <1>7 DEF Review

-------------------------------------------------------------------------------
\* Steps of the others.

\* What a reader knows stays true while the review goes on.
LEMMA SoundKept ==
  ASSUME TypeOK, Grows, NEW r \in Readers, Sound(r),
         job'[r] = job[r], pc'[r] = pc[r]
  PROVE  Sound(r)'
<1>1. PICK j \in Job : j = job[r]
  BY DEF TypeOK
<1>2. j = job'[r]
  BY <1>1
<1>3. ASSUME NEW o \in Outputs, NEW c \in Claims
      PROVE  UNION evidence[o][c] \subseteq UNION evidence'[o][c]
  BY DEF Grows
<1>4. OfOutput(r)'
  BY <1>1, <1>2, <1>3 DEF Sound, OfOutput, Grows
<1>5. Remembered(r)'
  BY <1>1, <1>2 DEF Sound, Remembered, Grows
<1>6. CaughtUp(r)' /\ Placed(r)'
  BY <1>1, <1>2 DEF Sound, CaughtUp, Placed
<1> QED
  BY <1>4, <1>5, <1>6 DEF Sound

\* Reader r goes to a point with a job: what is left to show is that it is sound.
LEMMA ReaderMove ==
  ASSUME LInv, NEW r \in Readers, NEW q \in Job, NEW point \in Points,
         job' = [job EXCEPT ![r] = q], pc' = [pc EXCEPT ![r] = point],
         UNCHANGED review, Sound(r)'
  PROVE  LInv'
<1>1. /\ job' \in [Readers -> Job] /\ pc' \in [Readers -> Points]
      /\ \A s \in Readers : s # r => job'[s] = job[s] /\ pc'[s] = pc[s]
  BY DEF LInv, TypeOK
<1>2. TypeOK' /\ Grows
  BY <1>1 DEF LInv, TypeOK, Grows, review
<1>3. \A s \in Readers : Sound(s)'
  BY <1>1, <1>2, SoundKept DEF LInv
<1> QED
  BY <1>2, <1>3 DEF LInv

-------------------------------------------------------------------------------
\* The steps of a reader.

LEMMA ReaderAsks ==
  ASSUME LInv, NEW r \in Readers, Ask(r)
  PROVE  LInv'
<1>1. PICK A : A = {c \in Claims : \E o \in Outputs : o = touched /\ assessments[o][c] # {}}
  OBVIOUS
<1>2. PICK q : q = [NoJob EXCEPT !.latest = touched, !.assessed = A]
  OBVIOUS
<1>3. touched \in Outputs \union {NoOutput} /\ A \in SUBSET Claims
  <2>1. touched \in 0 .. made /\ made \in 0 .. MaxOutputs /\ MaxOutputs \in Nat
    BY Bounds DEF LInv, TypeOK
  <2> QED
    BY <2>1, <1>1 DEF Outputs, NoOutput
<1>4. /\ q \in Job /\ q.output = NoOutput /\ q.next = 1 /\ q.authorized = FALSE
      /\ q.latest = touched /\ q.assessed = A
      /\ \A c \in Claims : q.evidence[c] = {} /\ q.assessments[c] = {}
  BY <1>2, <1>3, EmptyJob DEF Job
<1>5. /\ job' = [job EXCEPT ![r] = q] /\ pc' = [pc EXCEPT ![r] = "output"]
      /\ "output" \in Points /\ UNCHANGED review
  BY <1>1, <1>2 DEF Ask, Go, Points
<1>6. job'[r] = q /\ pc'[r] = "output"
  BY <1>5 DEF LInv, TypeOK
<1>7. OfOutput(r)' /\ CaughtUp(r)' /\ Placed(r)'
  BY <1>4, <1>6, Bounds DEF OfOutput, CaughtUp, Placed
<1>8. Remembered(r)'
  BY <1>1, <1>4, <1>5, <1>6 DEF Remembered, review
<1> QED
  BY <1>4, <1>5, <1>7, <1>8, ReaderMove DEF Sound

LEMMA ReaderPicks ==
  ASSUME LInv, NEW r \in Readers, CurrentOutput(r)
  PROVE  LInv'
<1>1. PICK j \in Job : j = job[r]
  BY DEF LInv, TypeOK
<1>2. PICK q : q = [j EXCEPT !.output = touched]
  OBVIOUS
<1>3. touched \in Outputs \union {NoOutput}
  <2>1. touched \in 0 .. made /\ made \in 0 .. MaxOutputs /\ MaxOutputs \in Nat
    BY Bounds DEF LInv, TypeOK
  <2> QED
    BY <2>1 DEF Outputs, NoOutput
<1>4. /\ q \in Job /\ q.output = touched /\ q.next = j.next /\ q.authorized = j.authorized
      /\ q.latest = j.latest /\ q.assessed = j.assessed
      /\ q.evidence = j.evidence /\ q.assessments = j.assessments
  BY <1>1, <1>2, <1>3 DEF Job
<1>5. PICK point : /\ point = IF touched = NoOutput THEN "frames" ELSE "evidence"
                   /\ point \in Points
  BY DEF Points
<1>6. /\ job' = [job EXCEPT ![r] = q] /\ pc' = [pc EXCEPT ![r] = point] /\ UNCHANGED review
  BY <1>1, <1>2, <1>5 DEF CurrentOutput, Go, LInv, TypeOK
<1>7. job'[r] = q /\ pc'[r] = point
  BY <1>6 DEF LInv, TypeOK
<1>8. /\ j.output = NoOutput /\ ~j.authorized /\ j.next = 1
      /\ \A c \in Claims : j.evidence[c] = {} /\ j.assessments[c] = {}
  BY <1>1 DEF CurrentOutput, At, LInv, Sound, Placed, OfOutput
<1>9. OfOutput(r)' /\ CaughtUp(r)' /\ Placed(r)'
  BY <1>3, <1>4, <1>5, <1>7, <1>8 DEF OfOutput, CaughtUp, Placed
<1>10. Remembered(r)'
  BY <1>1, <1>4, <1>6, <1>7 DEF LInv, Sound, Remembered, review
<1> QED
  BY <1>4, <1>5, <1>6, <1>9, <1>10, ReaderMove DEF Sound

LEMMA ReaderLoadsEvidence ==
  ASSUME LInv, NEW r \in Readers, LoadEvidence(r)
  PROVE  LInv'
<1>1. PICK j \in Job : j = job[r]
  BY DEF LInv, TypeOK
<1>2. PICK o \in Outputs, c \in Claims : o = j.output /\ c = j.next /\ pc[r] = "evidence"
  BY <1>1 DEF LoadEvidence, At, LInv, Sound, Placed, Job
<1>3. PICK e : e = [j.evidence EXCEPT ![c] = UNION evidence[o][c]]
  OBVIOUS
<1>4. /\ e \in [Claims -> SUBSET Labels]
      /\ \A d \in Claims : e[d] \subseteq UNION evidence[o][d]
  <2>1. UNION evidence[o][c] \subseteq Labels
    <3>1. evidence[o][c] \in FileOf(SUBSET Labels)
      BY DEF LInv, TypeOK
    <3> QED
      BY <3>1 DEF FileOf
  <2>2. \A d \in Claims : j.evidence[d] \subseteq UNION evidence[o][d]
    BY <1>1, <1>2 DEF LInv, Sound, OfOutput
  <2> QED
    BY <2>1, <2>2, <1>3 DEF Job
<1>5. PICK q : q = [j EXCEPT !.evidence = e, !.next = Following(c)]
  OBVIOUS
<1>6. /\ q \in Job /\ q.output = o /\ q.next = Following(c) /\ q.authorized = j.authorized
      /\ q.latest = j.latest /\ q.assessed = j.assessed
      /\ q.evidence = e /\ q.assessments = j.assessments
  BY <1>2, <1>4, <1>5, Bounds DEF Job
<1>7. job' = [job EXCEPT ![r] = q] /\ UNCHANGED review
  BY <1>1, <1>2, <1>3, <1>5 DEF LoadEvidence
<1>8. PICK point \in Points : /\ pc' = [pc EXCEPT ![r] = point]
                             /\ point = IF c = ClaimCount THEN "frames" ELSE "evidence"
  <2>1. CASE c = ClaimCount
    BY <2>1, <1>1, <1>2 DEF LoadEvidence, NextClaim, Go, Points
  <2>2. CASE c # ClaimCount
    <3>1. pc' = [pc EXCEPT ![r] = "evidence"]
      BY <2>2, <1>1, <1>2 DEF LoadEvidence, NextClaim, LInv, TypeOK
    <3> QED
      BY <2>2, <3>1 DEF Points
  <2> QED
    BY <2>1, <2>2
<1>9. job'[r] = q /\ pc'[r] = point
  BY <1>7, <1>8 DEF LInv, TypeOK
<1>10. OfOutput(r)'
  BY <1>1, <1>2, <1>4, <1>6, <1>7, <1>9, Bounds DEF OfOutput, LInv, Sound, review
<1>11. CaughtUp(r)' /\ Placed(r)'
  BY <1>6, <1>8, <1>9 DEF CaughtUp, Placed, Following
<1>12. Remembered(r)'
  BY <1>1, <1>6, <1>7, <1>9 DEF LInv, Sound, Remembered, review
<1> QED
  BY <1>6, <1>7, <1>8, <1>10, <1>11, <1>12, ReaderMove DEF Sound

LEMMA ReaderLoadsAssessments ==
  ASSUME LInv, NEW r \in Readers, LoadAssessments(r)
  PROVE  LInv'
<1>1. PICK j \in Job : j = job[r]
  BY DEF LInv, TypeOK
<1>2. PICK o \in Outputs, c \in Claims : o = j.output /\ c = j.next /\ pc[r] = "assessments"
  BY <1>1 DEF LoadAssessments, At, LInv, Sound, Placed, Job
<1>3. PICK a : a = [j.assessments EXCEPT ![c] = assessments[o][c]]
  OBVIOUS
<1>4. /\ a \in [Claims -> FileOf(SUBSET Labels)] /\ a[c] = assessments[o][c]
      /\ \A d \in Claims : a[d] \subseteq assessments[o][d] /\ (d # c => a[d] = j.assessments[d])
  <2>1. assessments[o][c] \in FileOf(SUBSET Labels)
    BY DEF LInv, TypeOK
  <2>2. \A d \in Claims : j.assessments[d] \subseteq assessments[o][d]
    BY <1>1, <1>2 DEF LInv, Sound, OfOutput
  <2> QED
    BY <2>1, <2>2, <1>3 DEF Job
<1>5. PICK q : q = [j EXCEPT !.assessments = a, !.next = Following(c)]
  OBVIOUS
<1>6. /\ q \in Job /\ q.output = o /\ q.next = Following(c) /\ q.authorized = j.authorized
      /\ q.latest = j.latest /\ q.assessed = j.assessed
      /\ q.evidence = j.evidence /\ q.assessments = a
  BY <1>2, <1>4, <1>5, Bounds DEF Job
<1>7. job' = [job EXCEPT ![r] = q] /\ UNCHANGED review
  BY <1>1, <1>2, <1>3, <1>5 DEF LoadAssessments
<1>8. PICK point \in Points : /\ pc' = [pc EXCEPT ![r] = point]
                             /\ point = IF c = ClaimCount THEN "manifest" ELSE "assessments"
  <2>1. CASE c = ClaimCount
    BY <2>1, <1>1, <1>2 DEF LoadAssessments, NextClaim, Go, Points
  <2>2. CASE c # ClaimCount
    <3>1. pc' = [pc EXCEPT ![r] = "assessments"]
      BY <2>2, <1>1, <1>2 DEF LoadAssessments, NextClaim, LInv, TypeOK
    <3> QED
      BY <2>2, <3>1 DEF Points
  <2> QED
    BY <2>1, <2>2
<1>9. job'[r] = q /\ pc'[r] = point
  BY <1>7, <1>8 DEF LInv, TypeOK
<1>10. OfOutput(r)'
  BY <1>1, <1>2, <1>4, <1>6, <1>7, <1>9, Bounds DEF OfOutput, LInv, Sound, review
<1>11. Remembered(r)'
  BY <1>1, <1>6, <1>7, <1>9 DEF LInv, Sound, Remembered, review
<1>12. ASSUME o = j.latest, NEW d \in j.assessed, d <= c PROVE a[d] # {}
  <2>1. d \in Claims /\ assessments[o][d] # {}
    BY <1>1, <1>12 DEF LInv, Sound, Remembered
  <2>2. CASE d = c
    BY <1>4, <2>1, <2>2
  <2>3. CASE d # c
    <3>1. d < c
      BY <1>12, <2>1, <2>3, Bounds
    <3> QED
      BY <1>1, <1>2, <1>4, <1>12, <2>1, <2>3, <3>1 DEF LInv, Sound, CaughtUp
  <2> QED
    BY <2>2, <2>3
<1>13. \A d \in j.assessed : d \in Nat /\ d <= ClaimCount
  BY Bounds DEF Job, Claims
<1>14. CaughtUp(r)'
  <2>1. CASE c = ClaimCount
    BY <1>6, <1>8, <1>9, <1>12, <1>13, <2>1 DEF CaughtUp
  <2>2. CASE c # ClaimCount
    <3>1. \A d \in j.assessed : d < c + 1 => d <= c
      BY <1>13, Bounds
    <3> QED
      BY <1>6, <1>8, <1>9, <1>12, <2>2, <3>1 DEF CaughtUp, Following
  <2> QED
    BY <2>1, <2>2
<1>15. Placed(r)'
  BY <1>6, <1>8, <1>9 DEF Placed, Following
<1> QED
  BY <1>6, <1>7, <1>8, <1>10, <1>11, <1>14, <1>15, ReaderMove DEF Sound

LEMMA ReaderLoadsFrames ==
  ASSUME LInv, NEW r \in Readers, LoadFrames(r)
  PROVE  LInv'
<1>1. PICK j \in Job : j = job[r] /\ pc[r] = "frames" /\ j.next = 1
  BY DEF LoadFrames, At, LInv, TypeOK, Sound, Placed
<1>2. UNCHANGED review
  BY DEF LoadFrames
<1>3. CASE job' = [job EXCEPT ![r].status = "FRAME_UNAVAILABLE"] /\ Go(r, "answer")
  <2>1. PICK q : q = [j EXCEPT !.status = "FRAME_UNAVAILABLE"]
    OBVIOUS
  <2>2. /\ q \in Job /\ q.output = j.output /\ q.authorized = j.authorized
        /\ q.latest = j.latest /\ q.assessed = j.assessed /\ q.status # "OK"
        /\ q.evidence = j.evidence /\ q.assessments = j.assessments
    BY <2>1 DEF Job, Statuses
  <2>3. /\ job' = [job EXCEPT ![r] = q] /\ pc' = [pc EXCEPT ![r] = "answer"]
        /\ "answer" \in Points
    BY <1>1, <1>3, <2>1 DEF Go, Points, LInv, TypeOK
  <2>4. job'[r] = q /\ pc'[r] = "answer"
    BY <2>3 DEF LInv, TypeOK
  <2>5. Sound(r)'
    BY <1>1, <1>2, <2>2, <2>4
       DEF LInv, Sound, OfOutput, Remembered, CaughtUp, Placed, review
  <2> QED
    BY <1>2, <2>2, <2>3, <2>5, ReaderMove
<1>4. CASE Go(r, IF job[r].output = NoOutput THEN "manifest" ELSE "assessments")
           /\ UNCHANGED job
  <2>1. PICK point \in Points :
          /\ point = IF j.output = NoOutput THEN "manifest" ELSE "assessments"
          /\ pc' = [pc EXCEPT ![r] = point]
    BY <1>1, <1>4 DEF Go, Points
  <2>2. job' = [job EXCEPT ![r] = j]
    BY <1>1, <1>4 DEF LInv, TypeOK
  <2>3. job'[r] = j /\ pc'[r] = point
    BY <2>1, <2>2 DEF LInv, TypeOK
  <2>4. OfOutput(r)' /\ Remembered(r)'
    BY <1>1, <1>2, <2>3 DEF LInv, Sound, OfOutput, Remembered, review
  <2>5. j.output \in Outputs \union {NoOutput}
    BY DEF Job
  <2>6. CaughtUp(r)'
    <3>1. CASE j.output = NoOutput
      <4>1. j.latest = NoOutput => j.assessed = {}
        BY <1>1, Bounds DEF LInv, Sound, Remembered
      <4> QED
        BY <2>1, <2>3, <3>1, <4>1 DEF CaughtUp
    <3>2. CASE j.output # NoOutput
      <4>1. \A c \in j.assessed : ~(c < 1)
        BY DEF Job, Claims
      <4> QED
        BY <1>1, <2>1, <2>3, <3>2, <4>1 DEF CaughtUp
    <3> QED
      BY <3>1, <3>2
  <2>7. Placed(r)'
    BY <1>1, <2>1, <2>3, <2>5 DEF Placed
  <2> QED
    BY <1>2, <2>1, <2>2, <2>4, <2>6, <2>7, ReaderMove DEF Sound
<1> QED
  BY <1>3, <1>4 DEF LoadFrames

LEMMA ReaderLoadsManifest ==
  ASSUME LInv, NEW r \in Readers, LoadManifest(r)
  PROVE  LInv'
<1>1. PICK j \in Job : j = job[r] /\ pc[r] = "manifest"
  BY DEF LoadManifest, At, LInv, TypeOK
<1>2. PICK a, code, phase :
        /\ a = (j.output \in manifests) /\ phase = Phase(j)
        /\ code = IF CitationsKnown(j) THEN "OK" ELSE "EVIDENCE_UNAVAILABLE"
  OBVIOUS
<1>3. a \in BOOLEAN /\ code \in Statuses
  BY <1>2 DEF Statuses
<1>4. phase \in Phases
  <2>1. Phases = {"PENDING", "RETRIEVING", "ASSESSING", "COMPLETE"}
    BY DEF Phases
  <2>2. CASE Assessed(j) = Claims
    BY <1>2, <2>1, <2>2, Bounds DEF Phase
  <2>3. CASE Assessed(j) # {} /\ Assessed(j) # Claims
    BY <1>2, <2>1, <2>3 DEF Phase
  <2>4. CASE Assessed(j) = {} /\ (j.output # NoOutput \/ EvidenceReady(j) # {})
    BY <1>2, <2>1, <2>4, Bounds DEF Phase
  <2>5. CASE Assessed(j) = {} /\ ~(j.output # NoOutput \/ EvidenceReady(j) # {})
    BY <1>2, <2>1, <2>5, Bounds DEF Phase
  <2> QED
    BY <2>2, <2>3, <2>4, <2>5
<1>5. PICK q : q = [j EXCEPT !.authorized = a, !.phase = phase, !.status = code]
  OBVIOUS
<1>6. /\ q \in Job /\ q.output = j.output /\ q.authorized = a /\ q.phase = phase
      /\ q.latest = j.latest /\ q.assessed = j.assessed
      /\ q.evidence = j.evidence /\ q.assessments = j.assessments
  BY <1>3, <1>4, <1>5 DEF Job
<1>7. /\ job' = [job EXCEPT ![r] = q] /\ pc' = [pc EXCEPT ![r] = "answer"]
      /\ "answer" \in Points /\ UNCHANGED review
  BY <1>1, <1>2, <1>5 DEF LoadManifest, Go, Points
<1>8. job'[r] = q /\ pc'[r] = "answer"
  BY <1>7 DEF LInv, TypeOK
<1>9. OfOutput(r)' /\ Remembered(r)' /\ CaughtUp(r)'
  <2>1. q.authorized => q.output \in manifests
    BY <1>2, <1>6
  <2>2. OfOutput(r)'
    BY <1>1, <1>6, <1>7, <1>8, <2>1 DEF LInv, Sound, OfOutput, review
  <2>3. Remembered(r)'
    BY <1>1, <1>6, <1>7, <1>8 DEF LInv, Sound, Remembered, review
  <2>4. CaughtUp(r)'
    BY <1>1, <1>6, <1>8 DEF LInv, Sound, CaughtUp
  <2> QED
    BY <2>2, <2>3, <2>4
<1>10. Phase(q) = Phase(j)
  BY <1>6 DEF Phase, Assessed, EvidenceReady
<1>11. Placed(r)'
  BY <1>2, <1>6, <1>8, <1>10 DEF Placed
<1> QED
  BY <1>6, <1>7, <1>9, <1>11, ReaderMove DEF Sound

LEMMA ReaderEnds ==
  ASSUME LInv, NEW r \in Readers, ReadFails(r) \/ Respond(r)
  PROVE  LInv'
<1>1. PICK j \in Job : j = job[r]
  BY DEF LInv, TypeOK
<1>2. CASE ReadFails(r)
  <2>1. PICK q : q = [j EXCEPT !.status = "UNAVAILABLE"]
    OBVIOUS
  <2>2. /\ q \in Job /\ q.output = j.output /\ q.authorized = j.authorized
        /\ q.latest = j.latest /\ q.assessed = j.assessed /\ q.status # "OK"
        /\ q.evidence = j.evidence /\ q.assessments = j.assessments
    BY <2>1 DEF Job, Statuses
  <2>3. /\ job' = [job EXCEPT ![r] = q] /\ pc' = [pc EXCEPT ![r] = "answer"]
        /\ "answer" \in Points /\ UNCHANGED review
    BY <1>1, <1>2, <2>1 DEF ReadFails, Go, Points, LInv, TypeOK
  <2>4. job'[r] = q /\ pc'[r] = "answer"
    BY <2>3 DEF LInv, TypeOK
  <2>5. Sound(r)'
    BY <1>1, <2>2, <2>3, <2>4
       DEF LInv, Sound, OfOutput, Remembered, CaughtUp, Placed, review
  <2> QED
    BY <2>2, <2>3, <2>5, ReaderMove
<1>3. CASE Respond(r)
  <2>1. /\ job' = [job EXCEPT ![r] = NoJob] /\ pc' = [pc EXCEPT ![r] = "idle"]
        /\ "idle" \in Points /\ NoJob \in Job /\ UNCHANGED review
    BY <1>3, EmptyJob DEF Respond, Go, Points
  <2>2. job'[r] = NoJob /\ pc'[r] = "idle"
    BY <2>1 DEF LInv, TypeOK
  <2>3. Sound(r)'
    BY <2>2, EmptyJob, Bounds DEF Sound, OfOutput, Remembered, CaughtUp, Placed
  <2> QED
    BY <2>1, <2>3, ReaderMove
<1> QED
  BY <1>2, <1>3

-------------------------------------------------------------------------------
\* The theorems.

THEOREM Invariance == Spec => []LInv
<1>1. Init => LInv
  <2> SUFFICES ASSUME Init PROVE LInv
    OBVIOUS
  <2>1. TypeOK
    <3>1. {} \in FileOf(SUBSET Labels) /\ 0 \in 0 .. MaxOutputs /\ 0 \in 0 .. 0
      BY Bounds DEF FileOf
    <3> QED
      <4>1. evidence \in [Outputs -> [Claims -> FileOf(SUBSET Labels)]]
            /\ assessments \in [Outputs -> [Claims -> FileOf(SUBSET Labels)]]
            /\ frames \in [Claims -> FileOf(SUBSET Labels)]
        BY <3>1 DEF Init
      <4>2. made \in 0 .. MaxOutputs /\ touched \in 0 .. made /\ manifests \subseteq 1 .. made
        BY <3>1 DEF Init, NoOutput
      <4> QED
        BY <4>1, <4>2, EmptyJob DEF Init, TypeOK, Points
  <2>2. \A r \in Readers : job[r] = NoJob /\ pc[r] = "idle"
    BY DEF Init
  <2> QED
    BY <2>1, <2>2, EmptyJob, Bounds DEF LInv, Sound, OfOutput, Remembered, CaughtUp, Placed
<1>2. LInv /\ [Next]_vars => LInv'
  <2> SUFFICES ASSUME LInv, [Next]_vars PROVE LInv'
    OBVIOUS
  <2>1. CASE Review
    <3>1. TypeOK' /\ Grows /\ UNCHANGED <<pc, job>>
      BY <2>1, ReviewTypes DEF LInv, Review
    <3> QED
      BY <3>1, SoundKept DEF LInv
  <2>2. CASE UNCHANGED vars
    <3>1. TypeOK' /\ Grows /\ UNCHANGED <<pc, job>>
      BY <2>2 DEF vars, review, LInv, TypeOK, Grows
    <3> QED
      BY <3>1, SoundKept DEF LInv
  <2>3. ASSUME NEW r \in Readers, Progress(r) PROVE LInv'
    BY <2>3, ReaderAsks, ReaderPicks, ReaderLoadsEvidence, ReaderLoadsFrames,
       ReaderLoadsAssessments, ReaderLoadsManifest, ReaderEnds DEF Progress
  <2> QED
    BY <2>1, <2>2, <2>3 DEF Next
<1> QED
  BY <1>1, <1>2, PTL DEF Spec

\* Types are kept; in particular the loops over the claims stay within them.
THEOREM TypeCorrect == Spec => []TypeOK
<1>1. LInv => TypeOK
  BY DEF LInv
<1> QED
  BY <1>1, Invariance, PTL

\* Although progress reads file by file while outputs come and go, what it answers
\* is of the one it picked first (LiteratureReviewRepository._current_output).
THEOREM ProgressOfOneOutput == Spec => []ProgressIsOfOneOutput
<1>1. LInv => ProgressIsOfOneOutput
  <2> SUFFICES ASSUME LInv, NEW r \in Readers, NEW o \in Outputs,
                      Told(r), job[r].output = o
               PROVE  /\ \A c \in Claims :
                           /\ job[r].assessments[c] \subseteq assessments[o][c]
                           /\ job[r].evidence[c] \subseteq UNION evidence[o][c]
                      /\ job[r].authorized => o \in manifests
                      /\ job[r].phase = "COMPLETE" => \A c \in Claims : assessments[o][c] # {}
    BY DEF ProgressIsOfOneOutput
  <2>1. OfOutput(r) /\ job[r].phase = Phase(job[r])
    BY DEF LInv, Sound, Placed, Told, At
  <2>2. ASSUME job[r].phase = "COMPLETE", NEW c \in Claims PROVE assessments[o][c] # {}
    <3>1. Assessed(job[r]) = Claims
      BY <2>1, <2>2 DEF Phase
    <3>2. job[r].assessments[c] # {}
      BY <3>1 DEF Assessed
    <3> QED
      BY <2>1, <3>2 DEF OfOutput
  <2> QED
    BY <2>1, <2>2 DEF OfOutput
<1> QED
  BY <1>1, Invariance, PTL

\* A progress of the output that was current when it was asked for misses none of
\* the assessments of that time (LiteratureReviewRepository.progress).
THEOREM ProgressNotBehind == Spec => []ProgressIsNotBehind
<1>1. LInv => ProgressIsNotBehind
  <2> SUFFICES ASSUME LInv, NEW r \in Readers, Told(r), job[r].output = job[r].latest
               PROVE  /\ job[r].assessed \subseteq Assessed(job[r])
                      /\ job[r].assessed = Claims => job[r].phase = "COMPLETE"
    BY DEF ProgressIsNotBehind
  <2>1. job[r] \in Job /\ CaughtUp(r) /\ job[r].phase = Phase(job[r])
    BY DEF LInv, TypeOK, Sound, Placed, Told, At
  <2>2. job[r].assessed \subseteq Assessed(job[r])
    BY <2>1 DEF CaughtUp, Told, At, Assessed, Job
  <2>3. ASSUME job[r].assessed = Claims PROVE Phase(job[r]) = "COMPLETE"
    <3>1. Assessed(job[r]) = Claims
      BY <2>2, <2>3 DEF Assessed
    <3>2. Claims # {}
      BY Bounds
    <3> QED
      BY <3>1, <3>2 DEF Phase
  <2> QED
    BY <2>1, <2>2, <2>3
<1> QED
  BY <1>1, Invariance, PTL

===============================================================================
