-------------------------- MODULE LiteratureProgress --------------------------
(***************************************************************************)
(* The progress of a literature review (LiteratureReviewRepository of      *)
(* literature_review.py), read from the files of a run while the review    *)
(* writes them.                                                            *)
(*                                                                         *)
(* The review is another program.  It makes one output directory after     *)
(* another; in one it writes the evidence of a claim before its            *)
(* assessment, which cites that evidence, and a manifest; every file       *)
(* appears at once and whole, and evidence and assessments stay as they    *)
(* are.  A file is modelled by the set of what it contains, empty where    *)
(* there is none.                                                          *)
(***************************************************************************)
EXTENDS Naturals

CONSTANTS
  Readers,     \* threads that read a progress
  ClaimCount,  \* claims of the run
  MaxOutputs,  \* bound: output directories of the run
  Labels,      \* labels of evidence
  Bundles      \* the sets of labels the review may find for a claim

ASSUME ClaimAssumption == ClaimCount \in Nat \ {0}
ASSUME BoundAssumption == MaxOutputs \in Nat
ASSUME BundlesAssumption == Bundles \subseteq SUBSET Labels

Claims == 1 .. ClaimCount

Outputs == 1 .. MaxOutputs

NoOutput == 0

FileOf(S) == {{}} \union {{x} : x \in S}

Phases == {"PENDING", "RETRIEVING", "ASSESSING", "COMPLETE"}

Statuses == {"OK", "EVIDENCE_UNAVAILABLE", "FRAME_UNAVAILABLE", "UNAVAILABLE"}

\* What a thread has read.
Job ==
  [output : Outputs \union {NoOutput},
   next : Claims,                              \* the claim whose file is read next
   evidence : [Claims -> SUBSET Labels],
   assessments : [Claims -> FileOf(SUBSET Labels)],
   authorized : BOOLEAN,
   phase : Phases,
   status : Statuses,
   latest : Outputs \union {NoOutput},         \* history: when the request arrived,
   assessed : SUBSET Claims]                   \* the current output and its assessments

NoJob ==
  [output |-> NoOutput, next |-> 1, evidence |-> [c \in Claims |-> {}],
   assessments |-> [c \in Claims |-> {}], authorized |-> FALSE, phase |-> "PENDING",
   status |-> "OK", latest |-> NoOutput, assessed |-> {}]

VARIABLES
  made,         \* output directories so far
  touched,      \* the one that was modified last
  evidence,     \* evidence/<claim>.json of each output: the labels
  assessments,  \* assessments/<claim>.json of each output: the citations
  manifests,    \* the outputs whose manifest.json authorizes something
  frames,       \* claim-mathematics.json of the run: the evidence labels of a claim
  pc,           \* where each thread stands
  job

review == <<made, touched, evidence, assessments, manifests, frames>>
vars == <<review, pc, job>>

Points == {"idle", "output", "evidence", "frames", "assessments", "manifest", "answer"}

-------------------------------------------------------------------------------
Init ==
  /\ made = 0
  /\ touched = NoOutput
  /\ evidence = [o \in Outputs |-> [c \in Claims |-> {}]]
  /\ assessments = [o \in Outputs |-> [c \in Claims |-> {}]]
  /\ manifests = {}
  /\ frames = [c \in Claims |-> {}]
  /\ pc = [r \in Readers |-> "idle"]
  /\ job = [r \in Readers |-> NoJob]

-------------------------------------------------------------------------------
\* The review and its reviewer.

MakeOutput ==
  /\ made < MaxOutputs
  /\ made' = made + 1
  /\ touched' = made'
  /\ UNCHANGED <<evidence, assessments, manifests, frames>>

\* The directory of an output is not modified by files in its subdirectories.
WriteEvidence(c) ==
  /\ made > 0
  /\ evidence[made][c] = {}
  /\ \E S \in Bundles : evidence' = [evidence EXCEPT ![made][c] = {S}]
  /\ UNCHANGED <<made, touched, assessments, manifests, frames>>

WriteAssessment(c) ==
  /\ made > 0
  /\ evidence[made][c] # {} /\ assessments[made][c] = {}
  /\ \E S \in SUBSET UNION evidence[made][c] :
       assessments' = [assessments EXCEPT ![made][c] = {S}]
  /\ UNCHANGED <<made, touched, evidence, manifests, frames>>

\* Also by a reviewer, and of an earlier output; what is authorized stays so.
WriteManifest ==
  /\ \E o \in 1 .. made :
       /\ manifests' \in {manifests, manifests \union {o}}
       /\ touched' = o
  /\ UNCHANGED <<made, evidence, assessments, frames>>

WriteFrame(c) ==
  /\ made > 0
  /\ evidence[made][c] # {} /\ frames[c] = {}
  /\ frames' = [frames EXCEPT ![c] = evidence[made][c]]
  /\ UNCHANGED <<made, touched, evidence, assessments, manifests>>

Review ==
  /\ \/ MakeOutput \/ WriteManifest
     \/ \E c \in Claims : WriteEvidence(c) \/ WriteAssessment(c) \/ WriteFrame(c)
  /\ UNCHANGED <<pc, job>>

-------------------------------------------------------------------------------
At(r, point) == pc[r] = point

Go(r, point) == pc' = [pc EXCEPT ![r] = point]

\* GET /literature-review/progress
Ask(r) ==
  /\ At(r, "idle")
  /\ Go(r, "output")
  /\ job' = [job EXCEPT ![r] =
               [NoJob EXCEPT !.latest = touched,
                             !.assessed = {c \in Claims : \E o \in Outputs :
                                             o = touched /\ assessments[o][c] # {}}]]
  /\ UNCHANGED review

\* _current_output: the directory modified last; without one nothing is read there.
CurrentOutput(r) ==
  /\ At(r, "output")
  /\ job' = [job EXCEPT ![r].output = touched]
  /\ Go(r, IF touched = NoOutput THEN "frames" ELSE "evidence")
  /\ UNCHANGED review

\* A step of a loop over the claims, which ends at a point of the request.
NextClaim(r, after) ==
  IF job[r].next = ClaimCount THEN Go(r, after) ELSE UNCHANGED pc

Following(c) == IF c = ClaimCount THEN 1 ELSE c + 1

\* Mutant: the claim after the last one.
LoadEvidencePast(r) ==
  /\ At(r, "evidence")
  /\ job' = [job EXCEPT ![r] =
               [job[r] EXCEPT
                  !.evidence[job[r].next] = UNION evidence[job[r].output][job[r].next],
                  !.next = @ + 1]]
  /\ NextClaim(r, "frames")
  /\ UNCHANGED review

\* _load_evidence
LoadEvidence(r) ==
  /\ At(r, "evidence")
  /\ job' = [job EXCEPT ![r] =
               [job[r] EXCEPT
                  !.evidence[job[r].next] = UNION evidence[job[r].output][job[r].next],
                  !.next = Following(@)]]
  /\ NextClaim(r, "frames")
  /\ UNCHANGED review

\* _load_validation_frames: of the run, whichever output is current.
LoadFrames(r) ==
  /\ At(r, "frames")
  /\ \/ /\ \E c \in Claims : ~(UNION frames[c] \subseteq job[r].evidence[c])
        /\ job' = [job EXCEPT ![r].status = "FRAME_UNAVAILABLE"]
        /\ Go(r, "answer")
     \/ /\ \A c \in Claims : UNION frames[c] \subseteq job[r].evidence[c]
        /\ Go(r, IF job[r].output = NoOutput THEN "manifest" ELSE "assessments")
        /\ UNCHANGED job
  /\ UNCHANGED review

\* Mutant: of the output that is current by now.
LoadCurrentAssessments(r) ==
  /\ At(r, "assessments")
  /\ job' = [job EXCEPT ![r] =
               [job[r] EXCEPT !.assessments[job[r].next] = assessments[touched][job[r].next],
                              !.next = Following(@)]]
  /\ NextClaim(r, "manifest")
  /\ UNCHANGED review

\* _load_assessments
LoadAssessments(r) ==
  /\ At(r, "assessments")
  /\ job' = [job EXCEPT ![r] =
               [job[r] EXCEPT !.assessments[job[r].next] = assessments[job[r].output][job[r].next],
                              !.next = Following(@)]]
  /\ NextClaim(r, "manifest")
  /\ UNCHANGED review

Assessed(j) == {c \in Claims : j.assessments[c] # {}}

EvidenceReady(j) == {c \in Claims : j.evidence[c] # {}}

\* Mutant: the loop over the claims has one more to go.
PhaseButOne(j) ==
  CASE Assessed(j) # {} -> "ASSESSING"
    [] Assessed(j) = {} /\ (j.output # NoOutput \/ EvidenceReady(j) # {}) -> "RETRIEVING"
    [] OTHER -> "PENDING"

\* _phase
Phase(j) ==
  CASE Assessed(j) = Claims -> "COMPLETE"
    [] Assessed(j) # {} /\ Assessed(j) # Claims -> "ASSESSING"
    [] Assessed(j) = {} /\ (j.output # NoOutput \/ EvidenceReady(j) # {}) -> "RETRIEVING"
    [] OTHER -> "PENDING"

\* Every citation of an assessment is a label of the evidence of its claim.
CitationsKnown(j) == \A c \in Claims : UNION j.assessments[c] \subseteq j.evidence[c]

\* _load_manifest, and the rest of progress, which reads nothing more.
LoadManifest(r) ==
  /\ At(r, "manifest")
  /\ job' = [job EXCEPT ![r] =
               [job[r] EXCEPT
                  !.authorized = job[r].output \in manifests,
                  !.phase = Phase(job[r]),
                  !.status = IF CitationsKnown(job[r]) THEN "OK" ELSE "EVIDENCE_UNAVAILABLE"]]
  /\ Go(r, "answer")
  /\ UNCHANGED review

\* A file cannot be read.
ReadFails(r) ==
  /\ pc[r] \in Points \ {"idle", "answer"}
  /\ job' = [job EXCEPT ![r].status = "UNAVAILABLE"]
  /\ Go(r, "answer")
  /\ UNCHANGED review

Respond(r) ==
  /\ At(r, "answer")
  /\ Go(r, "idle")
  /\ job' = [job EXCEPT ![r] = NoJob]
  /\ UNCHANGED review

Progress(r) ==
  \/ Ask(r) \/ CurrentOutput(r) \/ LoadEvidence(r) \/ LoadFrames(r)
  \/ LoadAssessments(r) \/ LoadManifest(r) \/ ReadFails(r) \/ Respond(r)

Next == Review \/ \E r \in Readers : Progress(r)

Spec == Init /\ [][Next]_vars

-------------------------------------------------------------------------------
\* Properties.

\* Every variable keeps its type.
TypeOK ==
  /\ made \in 0 .. MaxOutputs
  /\ touched \in 0 .. made
  /\ evidence \in [Outputs -> [Claims -> FileOf(SUBSET Labels)]]
  /\ assessments \in [Outputs -> [Claims -> FileOf(SUBSET Labels)]]
  /\ manifests \subseteq 1 .. made
  /\ frames \in [Claims -> FileOf(SUBSET Labels)]
  /\ pc \in [Readers -> Points]
  /\ job \in [Readers -> Job]

Told(r) == At(r, "answer") /\ job[r].status = "OK"

\* A progress is of one output, whatever the review makes while it is read: what it
\* shows as assessed, cited and authorized is so there, and it is complete only when
\* all claims are assessed there.
ProgressIsOfOneOutput ==
  \A r \in Readers : \A o \in Outputs :
    Told(r) /\ job[r].output = o =>
      /\ \A c \in Claims :
           /\ job[r].assessments[c] \subseteq assessments[o][c]
           /\ job[r].evidence[c] \subseteq UNION evidence[o][c]
      /\ job[r].authorized => o \in manifests
      /\ job[r].phase = "COMPLETE" => \A c \in Claims : assessments[o][c] # {}

\* A progress is not behind the time it was asked for: where the output is still
\* the one of that time, it has every assessment there was, and a run whose claims
\* were all assessed is complete.
ProgressIsNotBehind ==
  \A r \in Readers :
    Told(r) /\ job[r].output = job[r].latest =>
      /\ job[r].assessed \subseteq Assessed(job[r])
      /\ job[r].assessed = Claims => job[r].phase = "COMPLETE"

\* "An assessment cites unavailable evidence" is answered only of a run where one
\* does.
UnavailableMeansUnavailable ==
  \A r \in Readers :
    At(r, "answer") /\ job[r].status = "EVIDENCE_UNAVAILABLE" =>
      \E o \in Outputs, c \in Claims :
        ~(UNION assessments[o][c] \subseteq UNION evidence[o][c])

===============================================================================
