----------------------------- MODULE ControlServer -----------------------------
(***************************************************************************)
(* The process that serves the control API: one event loop and a pool of   *)
(* threads.  A route that is a plain function waits for a thread, first    *)
(* come, first served, and keeps it until it returns; a coroutine runs in  *)
(* the event loop.  It is composed here of its two routes that put this to *)
(* the test: GitHubTasks, which holds a thread while gh may hang, and      *)
(* ProvidedReferences, which blocks the event loop while it stores a PDF   *)
(* and needs a thread for every chunk it reads of a spooled upload, and    *)
(* for closing it.                                                         *)
(***************************************************************************)
EXTENDS Naturals, FiniteSets, Sequences

CONSTANTS
  Dashboards,   \* requests of the GitHub dashboard held at a time
  References,   \* and of provided references
  PoolSize,     \* threads
  RepositoryCount, PageSize, Pulls, FirstPulls, FirstRun, MaxRuns, MaxJobs,
  FirstJobs, MaxChanges,   \* as in GitHubTasks
  Claims, RunClaims, Pdfs, Size, Limit, MaxReceipts \* as in ProvidedReferences

ASSUME RequestAssumption == Dashboards \intersect References = {}
ASSUME PoolAssumption == PoolSize \in Nat \ {0}
ASSUME GitHubAssumption ==
  /\ RepositoryCount \in Nat \ {0}
  /\ PageSize \in Nat \ {0}
  /\ MaxRuns \in Nat \ {0} /\ MaxJobs \in Nat /\ FirstJobs \in 0 .. MaxJobs
  /\ FirstRun \in [1 .. RepositoryCount -> 0 .. 1]
  /\ FirstPulls \subseteq Pulls /\ IsFiniteSet(Pulls)
ASSUME ReferenceAssumption ==
  /\ RunClaims \subseteq Claims
  /\ Claims # {} /\ Pdfs # {}
  /\ Size \in [Pdfs -> Nat] /\ Limit \in Nat
ASSUME BoundAssumption == MaxChanges \in Nat /\ MaxReceipts \in Nat

VARIABLES
  open, latest, jobs, changes, steady, ever, \* as in GitHubTasks
  dashboardPc, dashboardJob,
  objects, records, received, told, firsts,  \* as in ProvidedReferences
  referencePc, referenceJob,
  queue,    \* the requests that wait for a thread
  threads   \* those that have one

G == INSTANCE GitHubTasks WITH
       Requests <- Dashboards, pc <- dashboardPc, job <- dashboardJob

R == INSTANCE ProvidedReferences WITH
       Requests <- References, pc <- referencePc, job <- referenceJob

tasks == <<open, latest, jobs, changes, steady, ever, dashboardPc, dashboardJob>>
references ==
  <<objects, records, received, told, firsts, referencePc, referenceJob>>
pool == <<queue, threads>>
vars == <<tasks, references, pool>>

Init ==
  /\ G!Init
  /\ R!Init
  /\ queue = <<>>
  /\ threads = {}

-------------------------------------------------------------------------------
\* The event loop hands a request to a thread: run_in_threadpool.
Enqueue(r) == queue' = Append(queue, r) /\ UNCHANGED threads

\* A thread ends its work.
Release(r) == threads' = threads \ {r} /\ UNCHANGED queue

\* Mutant: a thread for everybody.
TakeThreadAlways ==
  /\ queue # <<>>
  /\ R!LoopFree
  /\ queue' = Tail(queue)
  /\ threads' = threads \union {Head(queue)}
  /\ UNCHANGED <<tasks, references>>

\* The request that has waited longest takes a thread that is free.
TakeThread ==
  /\ queue # <<>>
  /\ Cardinality(threads) < PoolSize
  /\ R!LoopFree
  /\ queue' = Tail(queue)
  /\ threads' = threads \union {Head(queue)}
  /\ UNCHANGED <<tasks, references>>

-------------------------------------------------------------------------------
\* GET /github/tasks

AskDashboard(r) ==
  /\ R!LoopFree
  /\ G!Ask(r)
  /\ Enqueue(r)
  /\ UNCHANGED references

\* A call of gh, which is started in the thread, ends.
CallReturns(r) ==
  /\ r \in threads
  /\ G!CallReturns(r)
  /\ UNCHANGED <<references, pool>>

TimesOut(r) ==
  /\ r \in threads
  /\ G!TimesOut(r)
  /\ UNCHANGED <<references, pool>>

AnswerDashboard(r) ==
  /\ R!LoopFree
  /\ G!Respond(r)
  /\ Release(r)
  /\ UNCHANGED references

-------------------------------------------------------------------------------
\* GET and POST /literature-review/references

AskList(r) ==
  /\ R!Get(r)
  /\ Enqueue(r)
  /\ UNCHANGED tasks

ReadList(r) ==
  /\ r \in threads
  /\ R!List(r)
  /\ UNCHANGED <<tasks, pool>>

\* A request that is not refused reads its first chunk.
PostReference(r) ==
  /\ R!Post(r)
  /\ IF R!At(r, "body")' THEN Enqueue(r) ELSE UNCHANGED pool
  /\ UNCHANGED tasks

\* What needs a thread of its own: the next chunk of an upload, and its end.
NeedsThread(r) == R!At(r, "body") \/ R!At(r, "close")

\* The thread reads a chunk or closes the file, and is given back.
UseFile(r) ==
  /\ r \in threads
  /\ R!ReadChunk(r) \/ R!EndBody(r) \/ R!Close(r)
  /\ threads' = threads \ {r}
  /\ queue' = IF NeedsThread(r)' THEN Append(queue, r) ELSE queue
  /\ UNCHANGED tasks

StoreReference(r) ==
  /\ R!Refuse(r) \/ R!Receive(r) \/ R!KeepRecord(r)
  /\ UNCHANGED <<tasks, pool>>

AnswerReference(r) ==
  /\ R!Respond(r)
  /\ Release(r)
  /\ UNCHANGED tasks

-------------------------------------------------------------------------------
Change == G!Change /\ UNCHANGED <<references, pool>>

\* The process dies, and with it every request.
Crash ==
  /\ G!Crash
  /\ R!Crash
  /\ queue' = <<>>
  /\ threads' = {}

\* What the process does of itself for a request it has; gh's answers are not it.
ServeDashboard(r) == TimesOut(r) \/ AnswerDashboard(r)

ServeReference(r) ==
  ReadList(r) \/ UseFile(r) \/ StoreReference(r) \/ AnswerReference(r)

Next ==
  \/ Change
  \/ Crash
  \/ TakeThread
  \/ \E r \in Dashboards : AskDashboard(r) \/ CallReturns(r) \/ ServeDashboard(r)
  \/ \E r \in References : AskList(r) \/ PostReference(r) \/ ServeReference(r)

Spec == Init /\ [][Next]_vars

\* The event loop and the threads go on where they can, and subprocess.run raises
\* when its time is over.  Nothing is assumed of gh, GitHub or the clients.
FairSpec ==
  /\ Spec
  /\ WF_vars(TakeThread)
  /\ \A r \in Dashboards : WF_vars(ServeDashboard(r))
  /\ \A r \in References : WF_vars(ServeReference(r))

-------------------------------------------------------------------------------
\* Properties.

\* Every variable keeps its type, and the pool does not grow.  Whoever waits for a
\* thread waits once and has none.
TypeOK ==
  /\ G!TypeOK
  /\ R!TypeOK
  /\ queue \in Seq(Dashboards \union References)
  /\ threads \subseteq Dashboards \union References
  /\ Cardinality(threads) <= PoolSize
  /\ \A i, j \in 1 .. Len(queue) : queue[i] = queue[j] => i = j
  /\ \A i \in 1 .. Len(queue) : queue[i] \notin threads

\* A dashboard is true of every repository it shows (GitHubTasks), also when its
\* request waits for a thread while GitHub changes.
DashboardIsTrue == G!DashboardIsTrue

\* Receipts stand and are first once (ReceiptsStand of ProvidedReferences), however
\* lists in threads and other uploads come between.
ReceiptsStand == R!ReceiptsStand

Providable == RunClaims \X Pdfs

Intake == INSTANCE DocumentIntake WITH
  Documents <- {p \in Pdfs : Size[p] <= Limit},
  Records <- Providable,
  DocumentOf <- [x \in Providable |-> x[2]],
  Clashes <- {},
  kept <- objects

\* The store of provided references is an intake as seen through the server: a PDF
\* is kept before its receipt, none is dropped, and clients are told what there is.
ImplementsDocumentIntake == Intake!Spec

Waiting(r) == \E i \in 1 .. Len(queue) : queue[i] = r

\* Request r is at a point from which the process itself takes it on, once the event
\* loop is free; without a thread or with the one it has.
GoesOn(r) ==
  \/ r \in Dashboards /\ ~G!At(r, "idle") /\ r \in threads
  \/ r \in References /\ referencePc[r] \in {"provide", "record", "answer"}
  \/ r \in References /\ referencePc[r] \in {"body", "close", "list"} /\ r \in threads

\* What RequestsAnswered rests on: a request that is under way goes on or waits in
\* the queue, none is left out between two chunks or before its file is closed;
\* whoever has a thread goes on with it, so that nobody waits for a thread whose
\* holder waits in turn; an upload has given its own back before it is stored or
\* answered, so that what blocks the event loop neither keeps nor needs one.
NobodyForgotten ==
  /\ \A r \in Dashboards : G!At(r, "idle") \/ GoesOn(r) \/ Waiting(r)
  /\ \A r \in References : R!At(r, "idle") \/ GoesOn(r) \/ Waiting(r)
  /\ \A r \in threads : GoesOn(r)
  /\ \A r \in References :
       r \in threads \/ Waiting(r) =>
         \/ referencePc[r] \in {"body", "close", "list"}
         \/ R!At(r, "answer") /\ referenceJob[r].op = "list"

\* Every request is answered, unless the process dies: not even a gh that never
\* returns, in every thread of the pool, keeps lists and uploads from theirs.
RequestsAnswered ==
  /\ \A r \in Dashboards : ~G!At(r, "idle") ~> G!At(r, "idle")
  /\ \A r \in References : ~R!At(r, "idle") ~> R!At(r, "idle")

================================================================================
