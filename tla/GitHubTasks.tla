------------------------------ MODULE GitHubTasks ------------------------------
(***************************************************************************)
(* The GitHub dashboard of the control API (github_tasks.py): for every    *)
(* configured repository, in order, its open pull requests and the tasks   *)
(* of its latest workflow run, read with up to four calls of the program   *)
(* gh.  A list is one page long and says whether it is all there is.       *)
(*                                                                         *)
(* GitHub changes while it is read, so the calls are no snapshot; each of  *)
(* them is one.  A call may fail, and it may hang until its time is over.  *)
(* A failure is an entry of the dashboard and not the end of it.           *)
(*                                                                         *)
(* A run is known by its number, a job by the run it belongs to and its    *)
(* number there, and a job has one task.  error_kind, which only tells an  *)
(* operator why a repository is not shown, is left out.                    *)
(***************************************************************************)
EXTENDS Naturals, FiniteSets

CONSTANTS
  Requests,         \* requests of a dashboard the server can hold at a time
  RepositoryCount,  \* repositories configured
  PageSize,         \* per_page
  Pulls,            \* pull requests of a repository
  FirstPulls,       \* those open when the server starts
  FirstRun,         \* whether each has run a workflow by then: 0 or 1
  MaxRuns,          \* workflow runs of a repository
  MaxJobs,          \* jobs of a run
  FirstJobs,        \* jobs of the first run by then
  MaxChanges        \* bound: changes on GitHub

Repositories == 1 .. RepositoryCount

Runs == 1 .. MaxRuns

NoRun == 0

Task == Runs \X (1 .. MaxJobs)

\* GitHubRepositoryTaskProjection, with what is read of it so far.
Projection ==
  [state : {"unread", "ok", "error"},
   pulls : SUBSET Pulls, pullsComplete : BOOLEAN,
   run : Runs \union {NoRun},
   tasks : SUBSET Task, tasksComplete : BOOLEAN]

Unread ==
  [state |-> "unread", pulls |-> {}, pullsComplete |-> TRUE,
   run |-> NoRun, tasks |-> {}, tasksComplete |-> TRUE]

Failed == [Unread EXCEPT !.state = "error"]

\* What the server holds for a request.
Job ==
  [next : Repositories,                          \* the repository being read
   dashboard : [Repositories -> Projection],
   status : {"OK", "FAILED"},
   latest : [Repositories -> Runs \union {NoRun}], \* history: when the request
   jobs : [Repositories -> [Runs -> 0 .. MaxJobs]], \* arrived
   failed : SUBSET Repositories]                 \* history: a call for it failed

VARIABLES
  open,     \* GitHub: the open pull requests of each repository
  latest,   \* its latest workflow run
  jobs,     \* how many jobs each of its runs has
  changes,  \* changes so far
  steady,   \* history: what has been open since a request arrived
  ever,     \* history: what has been open at some time since then
  pc,       \* where each request stands: the call that is out
  job       \* what it holds

github == <<open, latest, jobs, changes>>
vars == <<github, steady, ever, pc, job>>

Points == {"idle", "metadata", "pulls", "runs", "jobs", "answer"}

Calls == {"metadata", "pulls", "runs", "jobs"}

NoJob ==
  [next |-> 1, dashboard |-> [n \in Repositories |-> Unread], status |-> "OK",
   latest |-> [n \in Repositories |-> NoRun],
   jobs |-> [n \in Repositories |-> [k \in Runs |-> 0]], failed |-> {}]

Init ==
  /\ open = [n \in Repositories |-> FirstPulls]
  /\ latest = FirstRun
  /\ jobs = [n \in Repositories |->
               [k \in Runs |-> IF k = latest[n] THEN FirstJobs ELSE 0]]
  /\ changes = 0
  /\ steady = [r \in Requests |-> [n \in Repositories |-> {}]]
  /\ ever = [r \in Requests |-> [n \in Repositories |-> {}]]
  /\ pc = [r \in Requests |-> "idle"]
  /\ job = [r \in Requests |-> NoJob]

-------------------------------------------------------------------------------
\* GitHub.

OpenPull(n) ==
  /\ \E p \in Pulls \ open[n] :
       /\ open' = [open EXCEPT ![n] = @ \union {p}]
       /\ ever' = [r \in Requests |-> [ever[r] EXCEPT ![n] = @ \union {p}]]
  /\ UNCHANGED <<latest, jobs, steady>>

ClosePull(n) ==
  /\ \E p \in open[n] :
       /\ open' = [open EXCEPT ![n] = @ \ {p}]
       /\ steady' = [r \in Requests |-> [steady[r] EXCEPT ![n] = @ \ {p}]]
  /\ UNCHANGED <<latest, jobs, ever>>

StartRun(n) ==
  /\ latest[n] < MaxRuns
  /\ latest' = [latest EXCEPT ![n] = @ + 1]
  /\ UNCHANGED <<open, jobs, steady, ever>>

AddJob(n) ==
  /\ \E k \in 1 .. latest[n] :
       /\ jobs[n][k] < MaxJobs
       /\ jobs' = [jobs EXCEPT ![n][k] = @ + 1]
  /\ UNCHANGED <<open, latest, steady, ever>>

Change ==
  /\ changes < MaxChanges
  /\ changes' = changes + 1
  /\ \E n \in Repositories : OpenPull(n) \/ ClosePull(n) \/ StartRun(n) \/ AddJob(n)
  /\ UNCHANGED <<pc, job>>

-------------------------------------------------------------------------------
At(r, point) == pc[r] = point

Goto(r, point) == pc' = [pc EXCEPT ![r] = point]

Reads == UNCHANGED <<github, steady, ever>>

\* GitHub's pages of a list: what is on them is not said, but how much.
Pages(S) ==
  {P \in SUBSET S :
     Cardinality(P) = IF Cardinality(S) < PageSize THEN Cardinality(S) ELSE PageSize}

\* Mutant: a full page is taken for everything.
FullPageComplete(page) == Cardinality(page) <= PageSize

\* open_pull_requests_complete: only a page that is not full is known to be all.
PullsComplete(page) == Cardinality(page) < PageSize

\* tasks_complete: GitHub says how many jobs there are.
TasksComplete(total, page) == total <= Cardinality(page)

\* GET /github/tasks
Ask(r) ==
  /\ At(r, "idle")
  /\ job' = [job EXCEPT ![r] = [NoJob EXCEPT !.latest = latest, !.jobs = jobs]]
  /\ steady' = [steady EXCEPT ![r] = open]
  /\ ever' = [ever EXCEPT ![r] = open]
  /\ Goto(r, "metadata")
  /\ UNCHANGED github

\* The projection of the repository being read becomes p.
Project(r, p) == job' = [job EXCEPT ![r].dashboard[job[r].next] = p]

Current(r) == job[r].dashboard[job[r].next]

\* The repository being read is done with projection p: read_dashboard goes on to
\* the next one, or answers.
Finish(r, p, failed) ==
  LET n == job[r].next
  IN  /\ Goto(r, IF n = RepositoryCount THEN "answer" ELSE "metadata")
      /\ job' = [job EXCEPT ![r] =
                   [job[r] EXCEPT !.dashboard[n] = p,
                                  !.next = IF n = RepositoryCount THEN n ELSE n + 1,
                                  !.failed = @ \union failed]]

\* repos/{repository}: the default branch.
ReadMetadata(r) ==
  /\ At(r, "metadata")
  /\ Goto(r, "pulls")
  /\ UNCHANGED job
  /\ Reads

\* _pull_requests
ReadPulls(r) ==
  /\ At(r, "pulls")
  /\ \E page \in Pages(open[job[r].next]) :
       Project(r, [Current(r) EXCEPT !.pulls = page,
                                     !.pullsComplete = PullsComplete(page)])
  /\ Goto(r, "runs")
  /\ Reads

\* _latest_sequence: without a run there is nothing more to read.
ReadLatestRun(r) ==
  LET run == latest[job[r].next]
  IN  /\ At(r, "runs")
      /\ IF run = NoRun
         THEN Finish(r, [Current(r) EXCEPT !.state = "ok"], {})
         ELSE Project(r, [Current(r) EXCEPT !.run = run]) /\ Goto(r, "jobs")
      /\ Reads

\* _tasks: the jobs of the run that was read, as of now.
ReadTasks(r) ==
  LET n == job[r].next
      run == Current(r).run
  IN  /\ At(r, "jobs")
      /\ \E page \in Pages({run} \X (1 .. jobs[n][run])) :
           Finish(r, [Current(r) EXCEPT
                        !.state = "ok", !.tasks = page,
                        !.tasksComplete = TasksComplete(jobs[n][run], page)], {})
      /\ Reads

\* _read_repository_or_error: what was read of the repository is dropped.
CallFails(r) ==
  /\ pc[r] \in Calls
  /\ Finish(r, Failed, {job[r].next})
  /\ Reads

\* Mutant: subprocess.run without a timeout.
NeverTimesOut(r) == FALSE

\* TimeoutExpired: the program is killed after timeout_seconds.
TimesOut(r) == CallFails(r)

\* Another OSError of subprocess.run is not caught, and the request fails.
CallRaises(r) ==
  /\ pc[r] \in Calls
  /\ job' = [job EXCEPT ![r].status = "FAILED"]
  /\ Goto(r, "answer")
  /\ Reads

\* The answer reaches the client.
Respond(r) ==
  /\ At(r, "answer")
  /\ job' = [job EXCEPT ![r] = NoJob]
  /\ steady' = [steady EXCEPT ![r] = [n \in Repositories |-> {}]]
  /\ ever' = [ever EXCEPT ![r] = [n \in Repositories |-> {}]]
  /\ Goto(r, "idle")
  /\ UNCHANGED github

\* The server dies, and gh with it.
Crash ==
  /\ pc' = [r \in Requests |-> "idle"]
  /\ job' = [r \in Requests |-> NoJob]
  /\ steady' = [r \in Requests |-> [n \in Repositories |-> {}]]
  /\ ever' = [r \in Requests |-> [n \in Repositories |-> {}]]
  /\ UNCHANGED github

\* The end of the call of gh that is out, other than by the timeout.
CallReturns(r) ==
  \/ ReadMetadata(r) \/ ReadPulls(r) \/ ReadLatestRun(r) \/ ReadTasks(r)
  \/ CallFails(r) \/ CallRaises(r)

Next ==
  \/ Change
  \/ Crash
  \/ \E r \in Requests : Ask(r) \/ CallReturns(r) \/ TimesOut(r) \/ Respond(r)

Spec == Init /\ [][Next]_vars

-------------------------------------------------------------------------------
\* Properties.

\* Every variable keeps its type.
TypeOK ==
  /\ open \in [Repositories -> SUBSET Pulls]
  /\ latest \in [Repositories -> Runs \union {NoRun}]
  /\ jobs \in [Repositories -> [Runs -> 0 .. MaxJobs]]
  /\ changes \in 0 .. MaxChanges
  /\ steady \in [Requests -> [Repositories -> SUBSET Pulls]]
  /\ ever \in [Requests -> [Repositories -> SUBSET Pulls]]
  /\ pc \in [Requests -> Points]
  /\ job \in [Requests -> Job]

\* What a dashboard says of a repository holds of GitHub, although its calls are no
\* snapshot: a pull request was open at some time since the dashboard was asked
\* for, and where the list is said to be complete none is missing that has been open
\* all the time; the run is not older than the latest one then; and the tasks
\* are those of that run, where they are said to be complete all it had then.
ProjectionIsTrue(r, n) ==
  LET p == job[r].dashboard[n]
  IN  /\ p.pulls \subseteq ever[r][n]
      /\ p.pullsComplete => steady[r][n] \subseteq p.pulls
      /\ p.run \in job[r].latest[n] .. latest[n]
      /\ p.run # NoRun =>
           /\ p.tasks \subseteq {p.run} \X (1 .. jobs[n][p.run])
           /\ p.tasksComplete => {p.run} \X (1 .. job[r].jobs[n][p.run]) \subseteq p.tasks

\* An answered dashboard is true of every repository it shows, and it shows all of
\* them but those one of whose own calls failed: an error of one repository
\* hides no other and leaves nothing half read.
DashboardIsTrue ==
  \A r \in Requests :
    At(r, "answer") /\ job[r].status = "OK" =>
      \A n \in Repositories :
        IF n \in job[r].failed
        THEN job[r].dashboard[n] = Failed
        ELSE job[r].dashboard[n].state = "ok" /\ ProjectionIsTrue(r, n)

================================================================================
