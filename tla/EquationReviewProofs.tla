------------------------- MODULE EquationReviewProofs -------------------------
(***************************************************************************)
(* The safety properties of EquationReview, and that it implements         *)
(* DecisionLog and OptimisticDecisions, for any number of workers,         *)
(* candidates, packages, requests and revisions.                           *)
(*                                                                         *)
(* The inductive invariant IInv follows a request through decide():        *)
(* WorkerInv(w) says what is known of the request of w at each of its      *)
(* points, in terms of the owner's history, and OneWriter that a position  *)
(* is being written by one worker only.                                    *)
(***************************************************************************)
EXTENDS EquationReview, TLAPS

\* The request of w holds the position it is about to fill.
Claimed(w) ==
  LET c == job[w].candidate
      q == job[w].request
  IN  /\ c \in partial
      /\ c \in DOMAIN package
      /\ ProposalDisplayed(q, package[c])
      /\ q.expected = Len(history[c])

\* The request of w is in the history, at the revision it asked for.
Recorded(w) ==
  LET q == job[w].request
      h == history[job[w].candidate]
  IN  q.expected + 1 \in 1 .. Len(h) /\ h[q.expected + 1] = q

WorkerInv(w) ==
  /\ pc[w] \in {"append", "publish", "refresh"} => job[w].op = "decide"
  /\ pc[w] \in {"queue", "append", "publish", "refresh"} /\ job[w].op = "decide" =>
       ValidRequest(job[w].request)
  /\ pc[w] \in {"queue", "append"} => ~job[w].begun
  /\ At(w, "publish") => Claimed(w)
  /\ At(w, "refresh") =>
       Recorded(w) /\ job[w].receipt = job[w].request.expected + 1
  /\ At(w, "answer") /\ job[w].status \in Conflicts => ~job[w].begun
  /\ At(w, "answer") /\ job[w].op = "decide" /\ job[w].status = "OK" =>
       /\ Recorded(w)
       /\ job[w].shown =
            {<<job[w].candidate, job[w].request.expected + 1, job[w].request>>}
  /\ job[w].shown \subseteq Log!Entries

OneWriter ==
  \A v, w \in Workers :
    At(v, "publish") /\ At(w, "publish") /\ job[v].candidate = job[w].candidate =>
      v = w

HistoryInv ==
  /\ DecisionsFollowWhatWasSeen
  /\ AcceptancesNameTheProposal
  /\ \A c \in Candidates : history[c] # <<>> => c \in DOMAIN package

IInv ==
  /\ TypeOK
  /\ \A w \in Workers : WorkerInv(w)
  /\ OneWriter
  /\ HistoryInv

-------------------------------------------------------------------------------
\* Types.

LEMMA NoJobType == NoJob \in Job /\ ~NoJob.begun /\ NoJob.shown = {}
<1>1. NoJob.candidate \in Candidates
  BY ValuesAssumption DEF NoJob
<1>2. NoJob.request \in Requests
  BY ValuesAssumption DEF NoJob
<1> QED
  BY <1>1, <1>2 DEF NoJob, Job, Statuses

LEMMA StatusesType ==
  /\ Conflicts \subseteq Statuses
  /\ {"OK", "INVALID", "NOT_FOUND", "PARTIAL_OUTPUT", "QUEUE_INCOMPLETE",
      "QUEUE_MALFORMED", "OWNER_UNAVAILABLE"} \subseteq Statuses
  /\ \A q : RenderRefusal(q) # "OK" => RenderRefusal(q) \in Conflicts
  BY DEF Statuses, Conflicts, RenderRefusal

LEMMA LatestType ==
  ASSUME TypeOK, NEW c \in Candidates, history[c] # <<>>
  PROVE  Latest(c) \in Entry /\ Latest(c) \in Log!Entries
<1>1. history[c] \in Seq(Requests)
  BY DEF TypeOK
<1>2. Len(history[c]) \in 1 .. Len(history[c])
  BY <1>1
<1>3. history[c][Len(history[c])] \in Requests
  BY <1>1, <1>2
<1> QED
  BY <1>2, <1>3 DEF Latest, Entry, Log!Entries

LEMMA QueueShowsType ==
  ASSUME TypeOK
  PROVE  QueueShows \subseteq Entry /\ QueueShows \subseteq Log!Entries
<1>1. DOMAIN package \subseteq Candidates
  BY PackagesAssumption DEF TypeOK
<1> QED
  BY <1>1, LatestType DEF QueueShows

LEMMA AnswerType ==
  ASSUME TypeOK, NEW w \in Workers, NEW code \in Statuses,
         NEW R \in SUBSET Entry, Answer(w, code, R)
  PROVE  pc' \in [Workers -> Points] /\ job' \in [Workers -> Job]
<1>1. pc' \in [Workers -> Points]
  BY DEF TypeOK, Answer, Goto, Points
<1>2. [job[w] EXCEPT !.status = code, !.shown = R] \in Job
  BY DEF TypeOK, Job
<1>3. job' = [job EXCEPT ![w] = [job[w] EXCEPT !.status = code, !.shown = R]]
  BY DEF TypeOK, Answer
<1> QED
  BY <1>1, <1>2, <1>3 DEF TypeOK

LEMMA FailType ==
  ASSUME TypeOK, NEW w \in Workers, NEW code \in Statuses, Fail(w, code),
         UNCHANGED <<owner, issued, told>>
  PROVE  TypeOK'
<1>1. Answer(w, code, {}) /\ {} \in SUBSET Entry
  BY DEF Fail
<1> QED
  BY <1>1, AnswerType DEF TypeOK, owner

LEMMA GotoType ==
  ASSUME TypeOK, NEW w \in Workers, NEW point \in Points, Goto(w, point)
  PROVE  pc' \in [Workers -> Points]
  BY DEF TypeOK, Goto

LEMMA InitInv == Init => IInv
<1> SUFFICES ASSUME Init PROVE IInv
  OBVIOUS
<1>1. TypeOK
  BY NoJobType DEF Init, TypeOK, Points
<1>2. \A w \in Workers : WorkerInv(w)
  BY NoJobType DEF Init, WorkerInv, At
<1>3. OneWriter
  BY DEF Init, OneWriter, At
<1>4. \A c \in Candidates : history[c] = <<>> /\ Len(history[c]) = 0
  BY DEF Init
<1>5. HistoryInv
  BY <1>4, BoundsAssumption
     DEF HistoryInv, DecisionsFollowWhatWasSeen, HistoryWithinBound,
         AcceptancesNameTheProposal
<1> QED
  BY <1>1, <1>2, <1>3, <1>5 DEF IInv

-------------------------------------------------------------------------------
\* Steps.

\* A step of w that leaves the owner alone can only disturb what is known of w.
LEMMA PassiveStep ==
  ASSUME IInv, NEW w \in Workers, UNCHANGED owner, pc'[w] # "publish",
         \A v \in Workers \ {w} : pc'[v] = pc[v] /\ job'[v] = job[v],
         TypeOK', WorkerInv(w)'
  PROVE  IInv'
<1> USE DEF owner
<1>1. ASSUME NEW v \in Workers, v # w PROVE WorkerInv(v)'
  <2>1. WorkerInv(v) /\ pc'[v] = pc[v] /\ job'[v] = job[v]
    BY <1>1 DEF IInv
  <2> QED
    BY <2>1 DEF WorkerInv, At, Claimed, Recorded, Log!Entries
<1>2. OneWriter'
  BY DEF IInv, OneWriter, At
<1>3. HistoryInv'
  BY DEF IInv, HistoryInv, DecisionsFollowWhatWasSeen, HistoryWithinBound,
         AcceptancesNameTheProposal
<1> QED
  BY <1>1, <1>2, <1>3 DEF IInv

LEMMA FailStep ==
  ASSUME IInv, NEW w \in Workers, NEW code \in Statuses \ {"OK"},
         code \in Conflicts => ~job[w].begun,
         Fail(w, code), UNCHANGED <<owner, issued, told>>
  PROVE  IInv'
<1>1. TypeOK'
  BY FailType DEF IInv
<1>2. /\ pc'[w] = "answer" /\ job'[w].status = code /\ job'[w].shown = {}
      /\ job'[w].begun = job[w].begun
      /\ \A v \in Workers \ {w} : pc'[v] = pc[v] /\ job'[v] = job[v]
  BY DEF Fail, Answer, Goto, IInv, TypeOK, Job
<1>3. WorkerInv(w)'
  BY <1>2 DEF WorkerInv, At
<1> QED
  BY <1>1, <1>2, <1>3, PassiveStep DEF owner

LEMMA StartStep ==
  ASSUME IInv, NEW w \in Workers, Start(w)
  PROVE  IInv'
<1> DEFINE Begun(i, point) ==
             /\ job' = [job EXCEPT ![w] = i] /\ Goto(w, point)
             /\ ~i.begun /\ i.shown = {}
             /\ \/ point = "queue" /\ (i.op = "decide" => ValidRequest(i.request))
                \/ point = "answer" /\ i.status = "INVALID"
<1>1. \E i \in Job, point \in Points : Begun(i, point)
  <2>1. CASE job' = [job EXCEPT ![w] = NoJob] /\ Goto(w, "queue")
    <3>1. Begun(NoJob, "queue")
      BY <2>1, NoJobType DEF NoJob
    <3> QED
      BY <3>1, NoJobType DEF Points
  <2>2. ASSUME NEW c \in Candidates, NEW q \in Requests,
               job' = [job EXCEPT ![w] =
                         [NoJob EXCEPT !.op = "decide", !.candidate = c,
                            !.request = q,
                            !.status = IF ValidRequest(q) THEN "OK" ELSE "INVALID"]],
               Goto(w, IF ValidRequest(q) THEN "queue" ELSE "answer")
        PROVE  \E i \in Job, point \in Points : Begun(i, point)
    <3> DEFINE j == [NoJob EXCEPT !.op = "decide", !.candidate = c,
                       !.request = q,
                       !.status = IF ValidRequest(q) THEN "OK" ELSE "INVALID"]
    <3>1. j \in Job
      BY NoJobType, StatusesType DEF Job
    <3>2. /\ ~j.begun /\ j.shown = {} /\ j.request = q
          /\ j.status = IF ValidRequest(q) THEN "OK" ELSE "INVALID"
      BY NoJobType DEF NoJob, Job
    <3>3. job' = [job EXCEPT ![w] = j]
      BY <2>2
    <3> HIDE DEF j
    <3>4. CASE ValidRequest(q)
      <4>1. Begun(j, "queue")
        BY <2>2, <3>2, <3>3, <3>4
      <4> QED
        BY <3>1, <4>1 DEF Points
    <3>5. CASE ~ValidRequest(q)
      <4>1. Begun(j, "answer")
        BY <2>2, <3>2, <3>3, <3>5
      <4> QED
        BY <3>1, <4>1 DEF Points
    <3> QED
      BY <3>4, <3>5
  <2> HIDE DEF Begun
  <2> QED
    BY <2>1, <2>2 DEF Start
<1>2. PICK j \in Job, point \in Points : Begun(j, point)
  BY <1>1
<1>3. /\ pc'[w] = point /\ job'[w] = j
      /\ \A v \in Workers \ {w} : pc'[v] = pc[v] /\ job'[v] = job[v]
  BY <1>2 DEF Goto, IInv, TypeOK
<1>4. TypeOK'
  <2>1. job' \in [Workers -> Job]
    BY <1>2 DEF IInv, TypeOK
  <2>2. pc' \in [Workers -> Points]
    BY <1>2, GotoType DEF IInv
  <2>3. issued' \in Nat
    <3>1. issued' = issued \/ issued' = issued + 1
      BY Zenon DEF Start
    <3> QED
      BY <3>1 DEF IInv, TypeOK
  <2> HIDE DEF Begun
  <2> QED
    BY <2>1, <2>2, <2>3 DEF Start, IInv, TypeOK, owner
<1>5. WorkerInv(w)'
  BY <1>2, <1>3 DEF WorkerInv, At, Conflicts
<1> QED
  BY <1>2, <1>3, <1>4, <1>5, PassiveStep DEF Start

\* The answers that are errors, of any point.
LEMMA ErrorSteps ==
  ASSUME IInv, NEW w \in Workers,
         \/ QueueUnreadable(w) \/ CandidateNotFound(w) \/ RenderRefused(w)
         \/ AppendRefused(w) \/ AppendBroken(w)
  PROVE  IInv'
<1> USE StatusesType
<1>1. At(w, "append") => ~job[w].begun
  BY DEF IInv, WorkerInv, At
<1>2. CASE QueueUnreadable(w)
  BY <1>2, FailStep DEF QueueUnreadable, Conflicts
<1>3. CASE CandidateNotFound(w)
  BY <1>3, FailStep DEF CandidateNotFound, Conflicts
<1>4. CASE RenderRefused(w)
  BY <1>1, <1>4, FailStep DEF RenderRefused, Conflicts
<1>5. CASE AppendRefused(w)
  <2>1. PICK code \in {"EVIDENCE_STALE", "REVISION_STALE", "CONCURRENT_DECISION",
                       "PARTIAL_OUTPUT", "OWNER_UNAVAILABLE"} : Fail(w, code)
    BY <1>5 DEF AppendRefused
  <2>2. code \in Statuses \ {"OK"}
    BY DEF Statuses, Conflicts
  <2>3. ~job[w].begun /\ UNCHANGED <<owner, issued, told>>
    BY <1>1, <1>5 DEF AppendRefused
  <2> QED
    BY <2>1, <2>2, <2>3, FailStep
<1>6. CASE AppendBroken(w)
  BY <1>6, FailStep DEF AppendBroken, Conflicts
<1> QED
  BY <1>2, <1>3, <1>4, <1>5, <1>6

LEMMA AnswerQueueStep ==
  ASSUME IInv, NEW w \in Workers, AnswerQueue(w)
  PROVE  IInv'
<1>1. /\ QueueShows \in SUBSET Entry /\ QueueShows \subseteq Log!Entries
      /\ Answer(w, "OK", QueueShows) /\ job[w].op = "queue"
      /\ UNCHANGED <<owner, issued, told>>
  BY QueueShowsType DEF AnswerQueue, IInv
<1>2. TypeOK'
  BY <1>1, StatusesType, AnswerType DEF IInv, TypeOK, owner
<1>3. /\ pc'[w] = "answer" /\ job'[w].op = "queue" /\ job'[w].status = "OK"
      /\ job'[w].shown = QueueShows
      /\ \A v \in Workers \ {w} : pc'[v] = pc[v] /\ job'[v] = job[v]
  BY <1>1 DEF Answer, Goto, IInv, TypeOK, Job
<1>4. WorkerInv(w)'
  BY <1>1, <1>3 DEF WorkerInv, At, Conflicts, owner, Log!Entries
<1> QED
  BY <1>1, <1>2, <1>3, <1>4, PassiveStep

LEMMA BindDecisionStep ==
  ASSUME IInv, NEW w \in Workers, BindDecision(w)
  PROVE  IInv'
<1> DEFINE c == job[w].candidate
<1>1. ~job[w].begun /\ job[w].op = "decide" /\ ValidRequest(job[w].request)
  BY DEF BindDecision, At, IInv, WorkerInv
<1>2. CASE Fail(w, "PROPOSAL_STALE") \/ Fail(w, "RENDER_STALE")
  BY <1>1, <1>2, StatusesType, FailStep DEF BindDecision, Conflicts
<1>3. CASE job' = [job EXCEPT ![w].bound = package[c].evidence] /\ Goto(w, "append")
  <2>1. package[c].evidence \in Nat
    <3>1. c \in DOMAIN package /\ package \in Packages
      BY DEF BindDecision, IInv, TypeOK
    <3> QED
      BY <3>1, PackagesAssumption DEF Evidence
  <2>2. job' \in [Workers -> Job] /\ pc' \in [Workers -> Points]
    BY <1>3, <2>1, GotoType DEF IInv, TypeOK, Job, Points
  <2>3. TypeOK'
    BY <2>2 DEF BindDecision, IInv, TypeOK, owner
  <2>4. /\ pc'[w] = "append" /\ job'[w].op = "decide"
        /\ job'[w].request = job[w].request /\ ~job'[w].begun
        /\ job'[w].shown = job[w].shown
        /\ \A v \in Workers \ {w} : pc'[v] = pc[v] /\ job'[v] = job[v]
    BY <1>1, <1>3 DEF Goto, IInv, TypeOK, Job
  <2>5. ValidRequest(job'[w].request) /\ job'[w].shown \subseteq Log!Entries'
    BY <1>1, <2>4 DEF BindDecision, owner, IInv, WorkerInv, Log!Entries
  <2>6. WorkerInv(w)'
    BY <2>4, <2>5 DEF WorkerInv, At
  <2> QED
    BY <2>3, <2>4, <2>6, PassiveStep DEF BindDecision
<1> QED
  BY <1>2, <1>3 DEF BindDecision

\* With a receipt that is valid the queue is read again; with another it is an answer,
\* and no conflict.
LEMMA ReturnsDoes ==
  ASSUME TypeOK, NEW w \in Workers, NEW n \in Nat, AppendReturns(w, n)
  PROVE  /\ pc' \in [Workers -> Points] /\ job' \in [Workers -> Job]
         /\ \A v \in Workers \ {w} : pc'[v] = pc[v] /\ job'[v] = job[v]
         /\ job'[w].op = job[w].op /\ job'[w].request = job[w].request
         /\ job'[w].candidate = job[w].candidate /\ job'[w].shown = job[w].shown
         /\ \/ pc'[w] = "refresh" /\ job'[w].receipt = n
            \/ pc'[w] = "answer" /\ job'[w].status = "PARTIAL_OUTPUT"
         /\ \E point : pc' = [pc EXCEPT ![w] = point]
<1>1. job[w] \in Job
  BY DEF TypeOK
<1>2. CASE job' = [job EXCEPT ![w].begun = TRUE, ![w].receipt = n] /\ Goto(w, "refresh")
  <2>1. [job[w] EXCEPT !.begun = TRUE, !.receipt = n] \in Job
    BY <1>1 DEF Job
  <2>2. job' = [job EXCEPT ![w] = [job[w] EXCEPT !.begun = TRUE, !.receipt = n]]
    BY <1>2 DEF TypeOK
  <2>3. /\ pc' \in [Workers -> Points] /\ pc'[w] = "refresh"
        /\ \A v \in Workers \ {w} : pc'[v] = pc[v]
        /\ pc' = [pc EXCEPT ![w] = "refresh"]
    BY <1>2, GotoType DEF TypeOK, Goto, Points
  <2>4. /\ job' \in [Workers -> Job] /\ job'[w] = [job[w] EXCEPT !.begun = TRUE, !.receipt = n]
        /\ \A v \in Workers \ {w} : job'[v] = job[v]
    BY <2>1, <2>2 DEF TypeOK
  <2>5. /\ job'[w].op = job[w].op /\ job'[w].request = job[w].request
        /\ job'[w].candidate = job[w].candidate /\ job'[w].shown = job[w].shown
        /\ job'[w].receipt = n
    BY <1>1, <2>4 DEF Job
  <2> QED
    BY <2>3, <2>4, <2>5
<1>3. CASE /\ job' = [job EXCEPT ![w].begun = TRUE, ![w].status = "PARTIAL_OUTPUT"]
           /\ Goto(w, "answer")
  <2>1. [job[w] EXCEPT !.begun = TRUE, !.status = "PARTIAL_OUTPUT"] \in Job
    BY <1>1, StatusesType DEF Job
  <2>2. job' = [job EXCEPT ![w] = [job[w] EXCEPT !.begun = TRUE, !.status = "PARTIAL_OUTPUT"]]
    BY <1>3 DEF TypeOK
  <2>3. /\ pc' \in [Workers -> Points] /\ pc'[w] = "answer"
        /\ \A v \in Workers \ {w} : pc'[v] = pc[v]
        /\ pc' = [pc EXCEPT ![w] = "answer"]
    BY <1>3, GotoType DEF TypeOK, Goto, Points
  <2>4. /\ job' \in [Workers -> Job] /\ job'[w] = [job[w] EXCEPT !.begun = TRUE, !.status = "PARTIAL_OUTPUT"]
        /\ \A v \in Workers \ {w} : job'[v] = job[v]
    BY <2>1, <2>2 DEF TypeOK
  <2>5. /\ job'[w].op = job[w].op /\ job'[w].request = job[w].request
        /\ job'[w].candidate = job[w].candidate /\ job'[w].shown = job[w].shown
        /\ job'[w].status = "PARTIAL_OUTPUT"
    BY <1>1, <2>4 DEF Job
  <2> QED
    BY <2>3, <2>4, <2>5
<1> QED
  BY <1>2, <1>3 DEF AppendReturns

LEMMA AppendReplayedStep ==
  ASSUME IInv, NEW w \in Workers, AppendReplayed(w)
  PROVE  IInv'
<1> DEFINE q == job[w].request
<1>1. job[w].op = "decide" /\ ValidRequest(q) /\ job[w].shown \subseteq Log!Entries
  BY DEF AppendReplayed, At, IInv, WorkerInv
<1>2. q.expected \in Nat /\ history[job[w].candidate] \in Seq(Requests)
  BY RequestsAssumption DEF IInv, TypeOK, Job, Request
<1>3. Recorded(w)
  BY <1>2 DEF AppendReplayed, IsRetry, ExpectedPosition, Recorded
<1>4. q.expected + 1 \in Nat /\ AppendReturns(w, q.expected + 1) /\ TypeOK
  BY <1>2 DEF AppendReplayed, ExpectedPosition, IInv
<1>5. /\ pc' \in [Workers -> Points] /\ job' \in [Workers -> Job]
      /\ \A v \in Workers \ {w} : pc'[v] = pc[v] /\ job'[v] = job[v]
      /\ job'[w].op = "decide" /\ job'[w].request = q
      /\ job'[w].candidate = job[w].candidate /\ job'[w].shown = job[w].shown
      /\ \/ pc'[w] = "refresh" /\ job'[w].receipt = q.expected + 1
         \/ pc'[w] = "answer" /\ job'[w].status = "PARTIAL_OUTPUT"
  BY <1>1, <1>4, ReturnsDoes
<1>6. TypeOK'
  BY <1>5 DEF AppendReplayed, IInv, TypeOK, owner
<1>7. ValidRequest(job'[w].request) /\ job'[w].shown \subseteq Log!Entries'
  BY <1>1, <1>5 DEF AppendReplayed, owner, Log!Entries
<1>8. Recorded(w)'
  BY <1>3, <1>5 DEF Recorded, AppendReplayed, owner
<1>9. WorkerInv(w)'
  BY <1>5, <1>7, <1>8 DEF WorkerInv, At, Conflicts
<1> QED
  BY <1>5, <1>6, <1>9, PassiveStep DEF AppendReplayed

\* The position is claimed: nobody else was writing it, and what others have
\* claimed stays theirs.
LEMMA AppendBegunStep ==
  ASSUME IInv, NEW w \in Workers, AppendBegun(w)
  PROVE  IInv'
<1> DEFINE c == job[w].candidate
           q == job[w].request
<1>1. /\ job[w].op = "decide" /\ ValidRequest(q)
      /\ job[w].shown \subseteq Log!Entries
  BY DEF AppendBegun, At, IInv, WorkerInv
<1>2. c \in Candidates
  BY DEF IInv, TypeOK, Job
<1>3. TypeOK'
  <2>1. [job[w] EXCEPT !.begun = TRUE] \in Job
    BY DEF IInv, TypeOK, Job
  <2>2. job' \in [Workers -> Job] /\ pc' \in [Workers -> Points]
    BY <2>1, GotoType DEF AppendBegun, IInv, TypeOK, Points
  <2> QED
    BY <1>2, <2>2 DEF AppendBegun, IInv, TypeOK
<1>4. /\ pc'[w] = "publish" /\ history' = history
      /\ package' = package /\ partial' = partial \union {c}
      /\ job'[w].op = job[w].op /\ job'[w].request = q /\ job'[w].candidate = c
      /\ job'[w].shown = job[w].shown
      /\ \A v \in Workers \ {w} : pc'[v] = pc[v] /\ job'[v] = job[v]
  BY DEF AppendBegun, Goto, IInv, TypeOK, Job
<1>5. WorkerInv(w)'
  <2>1. Claimed(w)'
    BY <1>4 DEF Claimed, AppendBegun, EvidenceCurrent, ExpectedPosition,
                ProposalDisplayed
  <2>2. job'[w].shown \subseteq Log!Entries'
    BY <1>1, <1>4 DEF Log!Entries
  <2> QED
    BY <1>1, <1>4, <2>1, <2>2 DEF WorkerInv, At
<1>6. ASSUME NEW v \in Workers, v # w PROVE WorkerInv(v)'
  <2>1. WorkerInv(v) /\ pc'[v] = pc[v] /\ job'[v] = job[v]
    BY <1>4, <1>6 DEF IInv
  <2>2. Claimed(v) => Claimed(v)'
    BY <1>4, <2>1 DEF Claimed
  <2>3. Recorded(v) => Recorded(v)'
    BY <1>4, <2>1 DEF Recorded
  <2>4. job'[v].shown \subseteq Log!Entries'
    BY <1>4, <2>1 DEF WorkerInv, Log!Entries
  <2> QED
    BY <1>4, <2>1, <2>2, <2>3, <2>4 DEF WorkerInv, At
<1>7. OneWriter'
  <2>1. \A v \in Workers : At(v, "publish") => job[v].candidate # c
    BY DEF IInv, WorkerInv, Claimed, AppendBegun
  <2> QED
    BY <1>4, <2>1 DEF IInv, OneWriter, At
<1>8. HistoryInv'
  BY <1>4 DEF IInv, HistoryInv, DecisionsFollowWhatWasSeen, HistoryWithinBound,
              AcceptancesNameTheProposal
<1> QED
  BY <1>3, <1>5, <1>6, <1>7, <1>8 DEF IInv

\* What is in the history stays where it is.
LEMMA HistoryGrows ==
  ASSUME TypeOK, NEW w \in Workers, AppendDone(w)
  PROVE  LET c == job[w].candidate IN
         /\ c \in Candidates
         /\ history' = [history EXCEPT ![c] = Append(history[c], job[w].request)]
         /\ Len(history[c]) \in Nat
         /\ Len(history'[c]) = Len(history[c]) + 1
         /\ history'[c][Len(history[c]) + 1] = job[w].request
         /\ \A d \in Candidates : d # c => history'[d] = history[d]
         /\ \A d \in Candidates :
              /\ Len(history[d]) \in Nat
              /\ Len(history[d]) <= Len(history'[d])
              /\ \A n \in 1 .. Len(history[d]) : history'[d][n] = history[d][n]
         /\ Log!Entries \subseteq Log!Entries'
<1> DEFINE c == job[w].candidate
           q == job[w].request
<1>1. c \in Candidates /\ q \in Requests
  BY DEF TypeOK, Job
<1>2. history' = [history EXCEPT ![c] = Append(history[c], q)]
  BY DEF AppendDone
<1>3. \A d \in Candidates :
        /\ history[d] \in Seq(Requests) /\ Len(history[d]) \in Nat
        /\ d # c => history'[d] = history[d]
  BY <1>2 DEF TypeOK
<1>4. history'[c] = Append(history[c], q)
  BY <1>1, <1>2 DEF TypeOK
<1>5. history[c] \in Seq(Requests)
  BY <1>1, <1>3
<1>6. /\ Len(history'[c]) = Len(history[c]) + 1
      /\ history'[c][Len(history[c]) + 1] = q
      /\ \A n \in 1 .. Len(history[c]) : history'[c][n] = history[c][n]
  BY <1>1, <1>4, <1>5
<1>7. \A d \in Candidates :
        /\ Len(history[d]) <= Len(history'[d])
        /\ \A n \in 1 .. Len(history[d]) : history'[d][n] = history[d][n]
  BY <1>1, <1>3, <1>6
<1>8. Log!Entries \subseteq Log!Entries'
  <2> SUFFICES ASSUME NEW d \in Candidates, NEW n \in 1 .. Len(history[d])
               PROVE  <<d, n, history[d][n]>> \in Log!Entries'
    BY DEF Log!Entries
  <2>1. Len(history'[d]) \in Nat
    BY <1>3, <1>6
  <2>2. n \in 1 .. Len(history'[d]) /\ history'[d][n] = history[d][n]
    BY <1>3, <1>7, <2>1
  <2> QED
    BY <2>2 DEF Log!Entries
<1> QED
  BY <1>1, <1>2, <1>3, <1>6, <1>7, <1>8

LEMMA AppendDoneStep ==
  ASSUME IInv, NEW w \in Workers, AppendDone(w)
  PROVE  IInv'
<1> DEFINE c == job[w].candidate
           q == job[w].request
           n == Len(history[c]) + 1
<1>1. /\ c \in Candidates /\ q \in Requests /\ q.expected \in Nat
      /\ Len(history[c]) \in Nat
  BY HistoryGrows, RequestsAssumption DEF IInv, TypeOK, Job, Request
<1>2. /\ job[w].op = "decide" /\ ValidRequest(q)
      /\ job[w].shown \subseteq Log!Entries /\ Claimed(w) /\ q.expected + 1 = n
  BY DEF AppendDone, At, IInv, WorkerInv, Claimed
<1>3. package' = package /\ partial' = partial \ {c} /\ AppendReturns(w, n)
  BY DEF AppendDone
<1>4. /\ pc' \in [Workers -> Points] /\ job' \in [Workers -> Job]
      /\ \A v \in Workers \ {w} : pc'[v] = pc[v] /\ job'[v] = job[v]
      /\ job'[w].op = "decide" /\ job'[w].request = q /\ job'[w].candidate = c
      /\ job'[w].shown = job[w].shown
      /\ \/ pc'[w] = "refresh" /\ job'[w].receipt = n
         \/ pc'[w] = "answer" /\ job'[w].status = "PARTIAL_OUTPUT"
  BY <1>1, <1>2, <1>3, ReturnsDoes DEF IInv
<1>5. TypeOK'
  <2>1. history' \in [Candidates -> Seq(Requests)]
    <3>1. history[c] \in Seq(Requests)
      BY <1>1 DEF IInv, TypeOK
    <3>2. Append(history[c], q) \in Seq(Requests)
      BY <1>1, <3>1
    <3> QED
      BY <1>1, <3>2, HistoryGrows DEF IInv, TypeOK
  <2> QED
    BY <1>3, <1>4, <2>1 DEF AppendDone, IInv, TypeOK
<1>6. WorkerInv(w)'
  <2>1. Recorded(w)'
    BY <1>1, <1>2, <1>4, HistoryGrows DEF Recorded, IInv
  <2>2. job'[w].shown \subseteq Log!Entries'
    BY <1>2, <1>4, HistoryGrows DEF IInv
  <2>3. ValidRequest(job'[w].request)
    BY <1>2, <1>4
  <2> QED
    BY <1>2, <1>4, <2>1, <2>2, <2>3 DEF WorkerInv, At, Conflicts
<1>7. ASSUME NEW v \in Workers, v # w PROVE WorkerInv(v)'
  <2>1. WorkerInv(v) /\ pc'[v] = pc[v] /\ job'[v] = job[v]
    BY <1>4, <1>7 DEF IInv
  <2>2. At(v, "publish") => Claimed(v)'
    <3> SUFFICES ASSUME At(v, "publish") PROVE Claimed(v)'
      OBVIOUS
    <3>1. job[v].candidate # c
      BY <1>7 DEF AppendDone, IInv, OneWriter
    <3>2. Claimed(v) /\ job[v].candidate \in Candidates
      BY <2>1 DEF WorkerInv, IInv, TypeOK, Job
    <3> QED
      BY <1>3, <2>1, <3>1, <3>2, HistoryGrows DEF Claimed, IInv
  <2>3. Recorded(v) => Recorded(v)'
    <3> DEFINE d == job[v].candidate
               k == job[v].request.expected + 1
    <3>1. d \in Candidates /\ Len(history[d]) \in Nat /\ Len(history'[d]) \in Nat
      BY <1>5, HistoryGrows DEF IInv, TypeOK, Job
    <3>2. ASSUME k \in 1 .. Len(history[d]), history[d][k] = job[v].request
          PROVE  k \in 1 .. Len(history'[d]) /\ history'[d][k] = job[v].request
      BY <3>1, <3>2, HistoryGrows DEF IInv
    <3> QED
      BY <2>1, <3>2 DEF Recorded
  <2>4. job'[v].shown \subseteq Log!Entries'
    BY <2>1, HistoryGrows DEF WorkerInv, IInv
  <2> QED
    BY <2>1, <2>2, <2>3, <2>4 DEF WorkerInv, At
<1>8. OneWriter'
  BY <1>4 DEF IInv, OneWriter, At
<1>9. HistoryInv'
  <2>1. ASSUME NEW d \in Candidates, NEW k \in 1 .. Len(history'[d])
        PROVE  /\ history'[d][k].expected = k - 1
               /\ history'[d][k].disposition = "ACCEPT_TRANSCRIPTION" =>
                    /\ history'[d][k].proposal # NoProposal
                    /\ package[d].proposal = history'[d][k].proposal
    <3>1. CASE d = c /\ k = n
      <4>1. history'[d][k] = q
        BY <3>1, HistoryGrows DEF IInv
      <4>2. q.disposition = "ACCEPT_TRANSCRIPTION" =>
              q.proposal # NoProposal /\ package[c].proposal = q.proposal
        BY <1>2 DEF ValidRequest, Claimed, ProposalDisplayed
      <4> QED
        BY <1>1, <1>2, <3>1, <4>1, <4>2
    <3>2. CASE d # c \/ k # n
      <4>1. k \in 1 .. Len(history[d]) /\ history'[d][k] = history[d][k]
        BY <1>1, <3>2, HistoryGrows DEF IInv
      <4> QED
        BY <4>1 DEF IInv, HistoryInv, DecisionsFollowWhatWasSeen,
                    AcceptancesNameTheProposal
    <3> QED
      BY <3>1, <3>2
  <2>2. ASSUME NEW d \in Candidates
        PROVE  Len(history'[d]) <= MaxRevisions
    <3>1. q.expected < MaxRevisions
      BY <1>2 DEF ValidRequest, ExpectedInBound
    <3> QED
      BY <1>1, <1>2, <3>1, HistoryGrows, BoundsAssumption
         DEF IInv, HistoryInv, DecisionsFollowWhatWasSeen, HistoryWithinBound
  <2>3. ASSUME NEW d \in Candidates, history'[d] # <<>>
        PROVE  d \in DOMAIN package
    BY <1>2, <2>3, HistoryGrows DEF Claimed, IInv, HistoryInv
  <2> QED
    BY <1>3, <2>1, <2>2, <2>3
       DEF HistoryInv, DecisionsFollowWhatWasSeen, HistoryWithinBound,
           AcceptancesNameTheProposal
<1> QED
  BY <1>5, <1>6, <1>7, <1>8, <1>9 DEF IInv

LEMMA RefreshStep ==
  ASSUME IInv, NEW w \in Workers, Refresh(w)
  PROVE  IInv'
<1> DEFINE c == job[w].candidate
           q == job[w].request
<1>1. /\ Recorded(w) /\ job[w].receipt = q.expected + 1
      /\ job[w].op = "decide"
  BY DEF Refresh, At, IInv, WorkerInv
<1>2. CASE Len(history[c]) # job[w].receipt
  BY <1>2, StatusesType, FailStep DEF Refresh, Conflicts
<1>3. CASE Len(history[c]) = job[w].receipt
  <2>1. c \in Candidates /\ history[c] # <<>>
    BY <1>1 DEF Recorded, IInv, TypeOK, Job
  <2>2. Latest(c) \in Entry /\ Latest(c) \in Log!Entries
    BY <2>1, LatestType DEF IInv
  <2>3. Latest(c) = <<c, q.expected + 1, q>>
    BY <1>1, <1>3 DEF Latest, Recorded
  <2>4. Answer(w, "OK", {Latest(c)}) /\ UNCHANGED <<owner, issued, told>>
    BY <1>3 DEF Refresh
  <2>5. TypeOK'
    BY <2>2, <2>4, StatusesType, AnswerType DEF IInv, TypeOK, owner
  <2>6. /\ pc'[w] = "answer" /\ job'[w].op = job[w].op /\ job'[w].status = "OK"
        /\ job'[w].request = q /\ job'[w].candidate = c
        /\ job'[w].shown = {Latest(c)}
        /\ \A v \in Workers \ {w} : pc'[v] = pc[v] /\ job'[v] = job[v]
    BY <2>4 DEF Answer, Goto, IInv, TypeOK, Job
  <2>7. Recorded(w)' /\ job'[w].shown \subseteq Log!Entries'
    BY <1>1, <2>2, <2>4, <2>6 DEF Recorded, owner, Log!Entries
  <2>8. WorkerInv(w)'
    BY <2>3, <2>6, <2>7 DEF WorkerInv, At, Conflicts
  <2> QED
    BY <2>4, <2>5, <2>6, <2>8, PassiveStep
<1> QED
  BY <1>2, <1>3

LEMMA RespondStep ==
  ASSUME IInv, NEW w \in Workers, Respond(w)
  PROVE  IInv'
<1>1. /\ pc'[w] = "idle" /\ job'[w] = NoJob
      /\ \A v \in Workers \ {w} : pc'[v] = pc[v] /\ job'[v] = job[v]
  BY DEF Respond, Goto, IInv, TypeOK
<1>2. TypeOK'
  <2>1. job[w].shown \subseteq Entry
    BY DEF IInv, TypeOK, Job
  <2>2. job' \in [Workers -> Job] /\ pc' \in [Workers -> Points]
    BY NoJobType, GotoType DEF Respond, IInv, TypeOK, Points
  <2> QED
    BY <2>1, <2>2 DEF Respond, IInv, TypeOK, owner
<1>3. WorkerInv(w)'
  BY <1>1, NoJobType DEF WorkerInv, At
<1> QED
  BY <1>1, <1>2, <1>3, PassiveStep DEF Respond

LEMMA CrashStep == ASSUME IInv, Crash PROVE IInv'
<1>1. TypeOK'
  BY NoJobType DEF Crash, IInv, TypeOK, Points, owner
<1>2. \A w \in Workers : pc'[w] = "idle" /\ job'[w] = NoJob
  BY DEF Crash
<1>3. \A w \in Workers : WorkerInv(w)'
  BY <1>2, NoJobType DEF WorkerInv, At
<1>4. OneWriter'
  BY <1>2 DEF OneWriter, At
<1>5. HistoryInv'
  BY DEF Crash, owner, IInv, HistoryInv, DecisionsFollowWhatWasSeen,
         HistoryWithinBound, AcceptancesNameTheProposal
<1> QED
  BY <1>1, <1>3, <1>4, <1>5 DEF IInv

\* A package may only change in what is not yet reviewed, but for assistance
\* published where there was none.
LEMMA ChangePackageStep == ASSUME IInv, ChangePackage PROVE IInv'
<1>1. PICK p \in Packages :
        /\ \A c \in Candidates :
             history[c] # <<>> \/ c \in partial =>
               /\ c \in DOMAIN p /\ c \in DOMAIN package
               /\ p[c].proposal = package[c].proposal \/ package[c].proposal = NoProposal
        /\ package' = p
  BY DEF ChangePackage
<1>2. UNCHANGED <<history, partial, pc, job, issued, told>>
  BY DEF ChangePackage
<1>3. TypeOK'
  BY <1>1, <1>2 DEF IInv, TypeOK
<1>4. ASSUME NEW w \in Workers PROVE WorkerInv(w)'
  <2>1. WorkerInv(w) /\ job[w].candidate \in Candidates
    BY DEF IInv, TypeOK, Job
  <2>2. Claimed(w) => Claimed(w)'
    <3> SUFFICES ASSUME Claimed(w) PROVE Claimed(w)'
      OBVIOUS
    <3>1. ProposalDisplayed(job[w].request, p[job[w].candidate])
      BY <1>1, <2>1 DEF Claimed, ProposalDisplayed
    <3> QED
      BY <1>1, <1>2, <2>1, <3>1 DEF Claimed, ProposalDisplayed
  <2>3. Recorded(w) => Recorded(w)'
    BY <1>2 DEF Recorded
  <2>4. job'[w].shown \subseteq Log!Entries'
    BY <1>2, <2>1 DEF WorkerInv, Log!Entries
  <2> QED
    BY <1>2, <2>1, <2>2, <2>3, <2>4 DEF WorkerInv, At
<1>5. OneWriter'
  BY <1>2 DEF IInv, OneWriter, At
<1>6. HistoryInv'
  <2>1. DecisionsFollowWhatWasSeen' /\ HistoryWithinBound'
    BY <1>2 DEF IInv, HistoryInv, DecisionsFollowWhatWasSeen, HistoryWithinBound
  <2>2. ASSUME NEW c \in Candidates, history[c] # <<>>
        PROVE  c \in DOMAIN p
    BY <1>1, <2>2
  <2>3. ASSUME NEW c \in Candidates, NEW n \in 1 .. Len(history[c]),
               history[c][n].disposition = "ACCEPT_TRANSCRIPTION"
        PROVE  /\ history[c][n].proposal # NoProposal
               /\ p[c].proposal = history[c][n].proposal
    <3>1. /\ history[c][n].proposal # NoProposal
          /\ package[c].proposal = history[c][n].proposal
      BY <2>3 DEF IInv, HistoryInv, AcceptancesNameTheProposal
    <3>2. history[c] # <<>>
      BY DEF IInv, TypeOK
    <3> QED
      BY <1>1, <3>1, <3>2
  <2> QED
    BY <1>1, <1>2, <2>1, <2>2, <2>3 DEF HistoryInv, AcceptancesNameTheProposal
<1> QED
  BY <1>3, <1>4, <1>5, <1>6 DEF IInv

LEMMA NextInv == IInv /\ [Next]_vars => IInv'
<1> SUFFICES ASSUME IInv, [Next]_vars PROVE IInv'
  OBVIOUS
<1>1. CASE ChangePackage
  BY <1>1, ChangePackageStep
<1>2. CASE Crash
  BY <1>2, CrashStep
<1>3. ASSUME NEW w \in Workers, Start(w) PROVE IInv'
  BY <1>3, StartStep
<1>4. ASSUME NEW w \in Workers, Serve(w) PROVE IInv'
  BY <1>4, ErrorSteps, AnswerQueueStep, BindDecisionStep, AppendReplayedStep,
     AppendBegunStep, AppendDoneStep, RefreshStep, RespondStep DEF Serve
<1>5. CASE UNCHANGED vars
  <2>1. UNCHANGED <<package, history, partial, pc, job, issued, told>>
    BY <1>5 DEF vars, owner
  <2>2. TypeOK'
    BY <2>1 DEF IInv, TypeOK
  <2>3. \A w \in Workers : WorkerInv(w)'
    BY <2>1 DEF IInv, WorkerInv, At, Claimed, Recorded, Log!Entries
  <2>4. OneWriter' /\ HistoryInv'
    BY <2>1 DEF IInv, OneWriter, At, HistoryInv, DecisionsFollowWhatWasSeen,
                HistoryWithinBound, AcceptancesNameTheProposal
  <2> QED
    BY <2>2, <2>3, <2>4 DEF IInv
<1> QED
  BY <1>1, <1>2, <1>3, <1>4, <1>5 DEF Next

-------------------------------------------------------------------------------
\* Results.

\* Every behaviour satisfies the inductive invariant.
THEOREM Invariance == Spec => []IInv
  BY InitInv, NextInv, PTL DEF Spec

\* Types are kept for any number of workers, candidates and requests.
THEOREM TypeCorrect == Spec => []TypeOK
<1>1. IInv => TypeOK
  BY DEF IInv
<1> QED
  BY <1>1, Invariance, PTL

\* No decision is recorded over one its reviewer had not seen, however the
\* workers interleave and whatever the package does meanwhile; and the validation
\* of one request keeps every history inside the bound of the models that read it.
THEOREM NoDecisionOverAnUnseenOne == Spec => []DecisionsFollowWhatWasSeen
<1>1. IInv => DecisionsFollowWhatWasSeen
  BY DEF IInv, HistoryInv
<1> QED
  BY <1>1, Invariance, PTL

\* An acceptance names the proposal the package displays, also when assistance
\* is published while decide() runs.
THEOREM AcceptancesAreOfDisplayedProposals == Spec => []AcceptancesNameTheProposal
<1>1. IInv => AcceptancesNameTheProposal
  BY DEF IInv, HistoryInv
<1> QED
  BY <1>1, Invariance, PTL

\* A conflict is never answered to a request that recorded its decision.
THEOREM ConflictsAreClean == Spec => []ConflictMeansNotRecorded
<1>1. IInv => ConflictMeansNotRecorded
  BY DEF IInv, WorkerInv, ConflictMeansNotRecorded
<1> QED
  BY <1>1, Invariance, PTL

\* A step of the equation review is a step of the abstract log, or none.
LEMMA StepRefines == IInv /\ [Next]_vars => [Log!Next]_(Log!vars)
<1> SUFFICES ASSUME IInv, [Next]_vars
             PROVE  Log!Next \/ UNCHANGED <<history, told>>
  BY DEF Log!vars
<1>1. CASE ChangePackage \/ Crash \/ UNCHANGED vars
  BY <1>1 DEF ChangePackage, Crash, vars, owner
<1>2. ASSUME NEW w \in Workers, Start(w) PROVE UNCHANGED <<history, told>>
  BY <1>2 DEF Start, owner
<1>3. ASSUME NEW w \in Workers, AppendDone(w) PROVE Log!Next
  <2>1. job[w].candidate \in Candidates /\ job[w].request \in Requests
    BY DEF IInv, TypeOK, Job
  <2>2. Log!Record(job[w].candidate, job[w].request)
    BY <1>3 DEF AppendDone, Log!Record
  <2> QED
    BY <2>1, <2>2 DEF Log!Next
<1>4. ASSUME NEW w \in Workers, Respond(w) PROVE Log!Next
  <2>1. job[w].shown \subseteq Log!Entries
    BY DEF IInv, WorkerInv
  <2>2. Log!Tell
    BY <1>4, <2>1 DEF Respond, owner, Log!Tell
  <2> QED
    BY <2>2 DEF Log!Next
<1>5. ASSUME NEW w \in Workers, Serve(w), ~AppendDone(w), ~Respond(w)
      PROVE  UNCHANGED <<history, told>>
  BY <1>5 DEF Serve, QueueUnreadable, AnswerQueue, CandidateNotFound, BindDecision,
              RenderRefused, AppendRefused, AppendReplayed, AppendBegun,
              AppendBroken, Refresh, owner
<1> QED
  BY <1>1, <1>2, <1>3, <1>4, <1>5 DEF Next

\* The equation review implements the abstract decision log: nothing recorded
\* is changed or renumbered, and every answer is an entry at its own revision.
THEOREM Refinement == Spec => ImplementsDecisionLog
<1>1. Init => Log!Init
  BY DEF Init, Log!Init
<1> QED
  BY <1>1, StepRefines, Invariance, PTL DEF Spec, ImplementsDecisionLog, Log!Spec

\* An accepted decision is answered with itself, at the revision it asked for, and
\* never when another revision has followed it already.
THEOREM AnswersAreOwnAndLatest == Spec => DecideAnswersOwnLatest
<1> DEFINE Latests ==
             \A w \in Workers :
               LET c == job[w].candidate
                   q == job[w].request
               IN  At(w, "refresh") /\ At(w, "answer")' /\ job'[w].status = "OK" =>
                     /\ job'[w].shown = {<<c, q.expected + 1, q>>}
                     /\ Latest(c) = <<c, q.expected + 1, q>>
<1>1. IInv /\ [Next]_vars => [Latests]_vars
  <2> SUFFICES ASSUME IInv, Next, NEW w \in Workers,
                      At(w, "refresh"), At(w, "answer")', job'[w].status = "OK"
               PROVE  LET c == job[w].candidate
                          q == job[w].request
                      IN  /\ job'[w].shown = {<<c, q.expected + 1, q>>}
                          /\ Latest(c) = <<c, q.expected + 1, q>>
    OBVIOUS
  <2>1. ~ChangePackage /\ ~Crash
    BY DEF ChangePackage, Crash, At
  <2>2. PICK v \in Workers : Start(v) \/ Serve(v)
    BY <2>1 DEF Next
  <2>3. v = w
    <3>1. pc'[w] # pc[w]
      BY DEF At
    <3>2. \E point : pc' = [pc EXCEPT ![v] = point]
      BY <2>2, <3>1 DEF Start, Serve, QueueUnreadable, AnswerQueue, CandidateNotFound,
            BindDecision, RenderRefused, AppendRefused, AppendReplayed, AppendBegun,
            AppendReturns, AppendBroken, AppendDone, Refresh, Respond, Fail, Answer, Goto
    <3> QED
      BY <3>1, <3>2 DEF IInv, TypeOK
  <2>4. Refresh(w) \/ QueueUnreadable(w) \/ CandidateNotFound(w)
    BY <2>2, <2>3 DEF At, Start, Serve, AnswerQueue, BindDecision, RenderRefused,
          AppendRefused, AppendReplayed, AppendBegun, AppendBroken, AppendDone, Respond
  <2>5. ASSUME NEW code, Fail(w, code) PROVE code = "OK"
    BY <2>5 DEF Fail, Answer, IInv, TypeOK, Job
  <2>6. /\ Answer(w, "OK", {Latest(job[w].candidate)})
        /\ Len(history[job[w].candidate]) = job[w].receipt
    BY <2>4, <2>5 DEF Refresh, QueueUnreadable, CandidateNotFound
  <2>7. Recorded(w) /\ job[w].receipt = job[w].request.expected + 1
    BY DEF IInv, WorkerInv
  <2>8. Latest(job[w].candidate) =
          <<job[w].candidate, job[w].request.expected + 1, job[w].request>>
    BY <2>6, <2>7 DEF Recorded, Latest
  <2>9. job'[w].shown = {Latest(job[w].candidate)}
    BY <2>6 DEF Answer, IInv, TypeOK, Job
  <2> QED
    BY <2>8, <2>9
<1> QED
  BY <1>1, Invariance, PTL DEF Spec, DecideAnswersOwnLatest

-------------------------------------------------------------------------------
\* Decisions without a lock.

\* The abstract streams, place by place.
LEMMA DecidedStreamsType ==
  ASSUME TypeOK, NEW c \in Candidates
  PROVE  /\ DecidedStreams[c] \in Seq([what : Requests, saw : [{c} -> Nat]])
         /\ Len(DecidedStreams[c]) = Len(history[c])
         /\ \A n \in 1 .. Len(history[c]) :
              DecidedStreams[c][n] = Decided(c, history[c][n])
<1>1. history[c] \in Seq(Requests) /\ Len(history[c]) \in Nat
  BY DEF TypeOK
<1>2. \A q \in Requests : Decided(c, q) \in [what : Requests, saw : [{c} -> Nat]]
  BY RequestsAssumption DEF Decided, Request
<1>3. \A n \in 1 .. Len(history[c]) : history[c][n] \in Requests
  BY <1>1
<1>4. DecidedStreams[c] = [n \in 1 .. Len(history[c]) |-> Decided(c, history[c][n])]
  BY DEF DecidedStreams
<1>5. \A n \in 1 .. Len(history[c]) : DecidedStreams[c][n] = Decided(c, history[c][n])
  BY <1>4
<1> DEFINE R == [what : Requests, saw : [{c} -> Nat]]
<1>6. DecidedStreams[c] \in [1 .. Len(history[c]) -> R]
  BY <1>2, <1>3, <1>4
<1> HIDE DEF R
<1>7. DecidedStreams[c] \in Seq(R) /\ Len(DecidedStreams[c]) = Len(history[c])
  BY <1>1, <1>6
<1> QED
  BY <1>5, <1>7 DEF R

\* What the abstract specification takes for recorded is in the history.
LEMMA RecordedIsHistory ==
  ASSUME TypeOK, NEW c \in Candidates, NEW q
  PROVE  <<c, q>> \in Optimistic!Recorded
           <=> \E n \in 1 .. Len(history[c]) : history[c][n] = q
<1> DEFINE E(d) == {<<d, DecidedStreams[d][n].what>> : n \in 1 .. Len(DecidedStreams[d])}
<1>1. <<c, q>> \in Optimistic!Recorded <=> \E d \in Candidates : <<c, q>> \in E(d)
  BY DEF Optimistic!Recorded
<1>2. \A d \in Candidates : <<c, q>> \in E(d) => d = c
  OBVIOUS
<1>3. <<c, q>> \in E(c) <=> \E n \in 1 .. Len(DecidedStreams[c]) : DecidedStreams[c][n].what = q
  OBVIOUS
<1>4. \A n \in 1 .. Len(history[c]) : DecidedStreams[c][n].what = history[c][n]
  <2> SUFFICES ASSUME NEW n \in 1 .. Len(history[c])
               PROVE  DecidedStreams[c][n].what = history[c][n]
    OBVIOUS
  <2>1. DecidedStreams[c][n] = Decided(c, history[c][n])
    BY DecidedStreamsType
  <2>2. Decided(c, history[c][n]).what = history[c][n]
    BY DEF Decided
  <2> QED
    BY <2>1, <2>2
<1>5. Len(DecidedStreams[c]) = Len(history[c])
  BY DecidedStreamsType
<1> HIDE DEF E
<1> QED
  BY <1>1, <1>2, <1>3, <1>4, <1>5

\* Who is about to be answered with success sent what is in the history.
ReceiptsInv ==
  {<<job[w].candidate, job[w].request>> : w \in Succeeding} \subseteq Optimistic!Recorded

LEMMA ReceiptsRecorded == IInv => ReceiptsInv
<1> SUFFICES ASSUME IInv, NEW w \in Succeeding
             PROVE  <<job[w].candidate, job[w].request>> \in Optimistic!Recorded
  BY DEF ReceiptsInv
<1>1. TypeOK /\ job[w].candidate \in Candidates
  BY DEF IInv, TypeOK, Job, Succeeding
<1>2. Recorded(w)
  BY DEF IInv, WorkerInv, Succeeding
<1> QED
  BY <1>1, <1>2, RecordedIsHistory DEF Recorded

\* A whole revision is recorded in the abstract streams as well: its reviewer saw
\* the history at its present length, and did not record the same before.
LEMMA AppendIsRecord ==
  ASSUME IInv, NEW w \in Workers, AppendDone(w), TypeOK'
  PROVE  Optimistic!Next
<1> DEFINE c == job[w].candidate
           q == job[w].request
           d == Decided(c, q)
<1>1. /\ TypeOK /\ c \in Candidates /\ q \in Requests /\ q.expected = Len(history[c])
      /\ Len(history[c]) \in Nat /\ history[c] \in Seq(Requests)
  BY DEF IInv, TypeOK, Job, WorkerInv, Claimed, AppendDone
<1>2. /\ history' = [history EXCEPT ![c] = Append(@, q)]
      /\ pc[w] = "publish" /\ AppendReturns(w, Len(history[c]) + 1)
  BY DEF AppendDone, At
<1> HIDE DEF c, q
<1>3. history'[c] = Append(history[c], q) /\ \A e \in Candidates \ {c} : history'[e] = history[e]
  BY <1>1, <1>2 DEF TypeOK
<1>4. /\ Len(history'[c]) = Len(history[c]) + 1 /\ history'[c][Len(history[c]) + 1] = q
      /\ \A n \in 1 .. Len(history[c]) : history'[c][n] = history[c][n]
  BY <1>1, <1>3
<1>5. DecidedStreams' = [DecidedStreams EXCEPT ![c] = Append(@, d)]
  <2>1. ASSUME NEW e \in Candidates, e # c PROVE DecidedStreams'[e] = DecidedStreams[e]
    BY <1>3, <2>1 DEF DecidedStreams
  <2>2. DecidedStreams'[c] = Append(DecidedStreams[c], d)
    <3>1. /\ DecidedStreams[c] \in Seq([what : Requests, saw : [{c} -> Nat]])
          /\ Len(DecidedStreams[c]) = Len(history[c])
          /\ \A n \in 1 .. Len(history[c]) : DecidedStreams[c][n] = Decided(c, history[c][n])
      BY <1>1, DecidedStreamsType
    <3>2. DecidedStreams'[c] =
            [n \in 1 .. Len(history[c]) + 1 |-> Decided(c, history'[c][n])]
      BY <1>1, <1>4 DEF DecidedStreams
    <3>3. Append(DecidedStreams[c], d) =
            [n \in 1 .. Len(history[c]) + 1 |->
               IF n = Len(history[c]) + 1 THEN d ELSE DecidedStreams[c][n]]
      BY <1>1, <3>1
    <3>4. ASSUME NEW n \in 1 .. Len(history[c]) + 1
          PROVE  Decided(c, history'[c][n]) =
                   IF n = Len(history[c]) + 1 THEN d ELSE DecidedStreams[c][n]
      BY <1>1, <1>4, <3>1
    <3> QED
      BY <3>2, <3>3, <3>4
  <2> QED
    BY <2>1, <2>2 DEF DecidedStreams
<1>6. <<c, q>> \notin Optimistic!Recorded
  <2>1. \A n \in 1 .. Len(history[c]) : history[c][n].expected = n - 1
    BY <1>1 DEF IInv, HistoryInv, DecisionsFollowWhatWasSeen
  <2>2. \A n \in 1 .. Len(history[c]) : history[c][n] # q
    BY <1>1, <2>1
  <2> QED
    BY <1>1, <2>2, RecordedIsHistory
<1>7. d.what = q /\ d.saw = [e \in {c} |-> q.expected]
  BY DEF Decided
<1>8. Len(DecidedStreams[c]) = Len(history[c])
  BY <1>1, DecidedStreamsType
<1>9. {<<job[v].candidate, job[v].request>> : v \in Succeeding}' =
        {<<job[v].candidate, job[v].request>> : v \in Succeeding}
  <2>1. \A v \in Workers \ {w} : pc'[v] = pc[v] /\ job'[v] = job[v]
    BY <1>1, <1>2, ReturnsDoes
  <2>2. Succeeding' = Succeeding /\ w \notin Succeeding
    <3>1. ~(pc'[w] = "answer" /\ job'[w].status = "OK")
      BY <1>1, <1>2, ReturnsDoes
    <3> QED
      BY <1>2, <2>1, <3>1 DEF Succeeding, At
  <2> QED
    BY <2>1, <2>2 DEF Succeeding
<1>10. Optimistic!Record(c, d)
  BY <1>1, <1>5, <1>6, <1>7, <1>8, <1>9 DEF Optimistic!Record
<1>11. /\ Len(DecidedStreams'[c]) > Len(DecidedStreams[c])
       /\ DecidedStreams'[c][Len(DecidedStreams'[c])] = d
  <2>1. DecidedStreams'[c] = Append(DecidedStreams[c], d)
    BY <1>1, <1>5 DEF DecidedStreams
  <2>2. DecidedStreams[c] \in Seq([what : Requests, saw : [{c} -> Nat]])
    BY <1>1, DecidedStreamsType
  <2> QED
    BY <1>1, <1>8, <2>1, <2>2
<1> QED
  BY <1>1, <1>10, <1>11 DEF Optimistic!Next

LEMMA OptimisticStep == IInv /\ IInv' /\ [Next]_vars => [Optimistic!Next]_(Optimistic!vars)
<1> SUFFICES ASSUME IInv, IInv', [Next]_vars PROVE Optimistic!Next
  BY DEF Optimistic!vars
<1>1. ASSUME NEW w \in Workers, AppendDone(w) PROVE Optimistic!Next
  BY <1>1, AppendIsRecord DEF IInv
<1>2. ASSUME UNCHANGED history PROVE Optimistic!Next
  <2>1. DecidedStreams' = DecidedStreams
    BY <1>2 DEF DecidedStreams
  <2>2. Optimistic!Recorded' = Optimistic!Recorded
    BY <2>1 DEF Optimistic!Recorded
  <2>3. IInv' => ReceiptsInv'
    BY ReceiptsRecorded, PTL
  <2> QED
    BY <2>1, <2>2, <2>3 DEF ReceiptsInv, Optimistic!Next, Optimistic!Answer
<1>3. CASE ChangePackage \/ Crash \/ UNCHANGED vars
  BY <1>2, <1>3 DEF ChangePackage, Crash, vars, owner
<1>4. ASSUME NEW w \in Workers, Start(w) \/ (Serve(w) /\ ~AppendDone(w))
      PROVE  Optimistic!Next
  BY <1>2, <1>4 DEF Start, Serve, QueueUnreadable, AnswerQueue, CandidateNotFound,
       BindDecision, RenderRefused, AppendRefused, AppendReplayed, AppendBegun,
       AppendBroken, Refresh, Respond, owner
<1> QED
  BY <1>1, <1>3, <1>4 DEF Next

\* Decisions about an equation are recorded once and directly after the revision
\* their reviewer saw, and success is answered only to who sent a recorded one.
THEOREM DecidesOptimistically == Spec => ImplementsOptimisticDecisions
<1>1. Init => Optimistic!Init
  <2> SUFFICES ASSUME Init PROVE Optimistic!Init
    OBVIOUS
  <2>1. Succeeding = {}
    BY DEF Init, Succeeding, At
  <2>2. \A c \in Candidates : Len(history[c]) = 0
    BY DEF Init
  <2>3. DecidedStreams = [c \in Candidates |-> <<>>]
    BY <2>2 DEF DecidedStreams
  <2> QED
    BY <2>1, <2>3 DEF Optimistic!Init
<1> QED
  BY <1>1, OptimisticStep, Invariance, PTL
     DEF Spec, ImplementsOptimisticDecisions, Optimistic!Spec

==============================================================================
