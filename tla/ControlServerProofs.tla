-------------------------- MODULE ControlServerProofs --------------------------
(***************************************************************************)
(* What the run of ControlServer shows on one thread, one dashboard and    *)
(* two requests about references, proved for any number of each, any pool, *)
(* and any repositories, pages and PDFs.  That every request is answered   *)
(* is a liveness property and stays with the run; that nobody is forgotten *)
(* (FInv), which is what it rests on, is proved.                           *)
(*                                                                         *)
(* Every step of the server is a step of GitHubTasks or none of its        *)
(* business, and likewise of ProvidedReferences.  Each of the two has an   *)
(* inductive invariant of its own, GInv and RInv, which hold whatever the  *)
(* pool does; PInv is that of the pool, and says at which points a request *)
(* may wait for a thread or have one.                                      *)
(***************************************************************************)
EXTENDS ControlServer, FiniteSetTheorems, TLAPS

-------------------------------------------------------------------------------
\* The composition.

\* A step of the server is one of the dashboards or leaves them alone.
LEMMA TaskSteps ==
  ASSUME [Next]_vars
  PROVE  G!Next \/ UNCHANGED tasks
<1>1. CASE Change \/ Crash
  BY <1>1 DEF Change, Crash, G!Next
<1>2. CASE TakeThread \/ UNCHANGED vars
  BY <1>2 DEF TakeThread, vars
<1>3. ASSUME NEW r \in Dashboards, AskDashboard(r) \/ CallReturns(r) \/ ServeDashboard(r)
      PROVE  G!Next
  BY <1>3 DEF AskDashboard, CallReturns, ServeDashboard, TimesOut, AnswerDashboard, G!Next
<1>4. ASSUME NEW r \in References, AskList(r) \/ PostReference(r) \/ ServeReference(r)
      PROVE  UNCHANGED tasks
  BY <1>4 DEF AskList, PostReference, ServeReference, ReadList, UseFile, StoreReference,
              AnswerReference
<1> QED
  BY <1>1, <1>2, <1>3, <1>4 DEF Next

\* A step of the server is one of the references or leaves them alone.
LEMMA ReferenceSteps ==
  ASSUME [Next]_vars
  PROVE  R!Next \/ UNCHANGED references
<1>1. CASE Change \/ Crash
  BY <1>1 DEF Change, Crash, R!Next
<1>2. CASE TakeThread \/ UNCHANGED vars
  BY <1>2 DEF TakeThread, vars
<1>3. ASSUME NEW r \in Dashboards, AskDashboard(r) \/ CallReturns(r) \/ ServeDashboard(r)
      PROVE  UNCHANGED references
  BY <1>3 DEF AskDashboard, CallReturns, ServeDashboard, TimesOut, AnswerDashboard
<1>4. ASSUME NEW r \in References, AskList(r) \/ PostReference(r) \/ ServeReference(r)
      PROVE  R!Next
  BY <1>4 DEF AskList, PostReference, ServeReference, ReadList, UseFile, StoreReference,
              AnswerReference, R!Next, R!Provide
<1> QED
  BY <1>1, <1>2, <1>3, <1>4 DEF Next

-------------------------------------------------------------------------------
\* The dashboards: what a projection says of its repository.

PullsHold(p, E, S) == p.pulls \subseteq E /\ (p.pullsComplete => S \subseteq p.pulls)

RunHolds(p, first, last) == p.run \in first .. last

TasksHold(p, before, now) ==
  p.run # G!NoRun =>
    /\ p.tasks \subseteq {p.run} \X (1 .. now[p.run])
    /\ p.tasksComplete => {p.run} \X (1 .. before[p.run]) \subseteq p.tasks

\* What is shown of a repository a request is done with.
Done(r, n) ==
  IF n \in dashboardJob[r].failed
  THEN dashboardJob[r].dashboard[n] = G!Failed
  ELSE dashboardJob[r].dashboard[n].state = "ok" /\ G!ProjectionIsTrue(r, n)

\* What is known of the repository a request is reading.
Partial(r) ==
  LET n == dashboardJob[r].next
      p == dashboardJob[r].dashboard[n]
  IN  /\ n \notin dashboardJob[r].failed
      /\ dashboardPc[r] \in {"metadata", "pulls", "runs"} => p.run = G!NoRun
      /\ dashboardPc[r] \in {"runs", "jobs"} => PullsHold(p, ever[r][n], steady[r][n])
      /\ dashboardPc[r] = "jobs" =>
           p.run \in G!Runs /\ RunHolds(p, dashboardJob[r].latest[n], latest[n])

\* A request, repository by repository.
Sound(r) ==
  /\ dashboardPc[r] \in G!Calls =>
       /\ \A n \in G!Repositories : n < dashboardJob[r].next => Done(r, n)
       /\ \A n \in G!Repositories : n > dashboardJob[r].next =>
            /\ n \notin dashboardJob[r].failed
            /\ dashboardJob[r].dashboard[n].run = G!NoRun
       /\ Partial(r)
  /\ dashboardPc[r] = "answer" /\ dashboardJob[r].status = "OK" =>
       \A n \in G!Repositories : Done(r, n)

\* The history variables of a request are what they are meant to be.
Tracked(r) ==
  \A n \in G!Repositories :
    /\ steady[r][n] \subseteq open[n] /\ open[n] \subseteq ever[r][n]
    /\ dashboardJob[r].latest[n] <= latest[n]
    /\ \A k \in G!Runs : dashboardJob[r].jobs[n][k] <= jobs[n][k]

GInv ==
  /\ G!TypeOK
  /\ \A r \in Dashboards : dashboardPc[r] # "idle" => Tracked(r)
  /\ \A r \in Dashboards : Sound(r)

LEMMA ProjectionHolds ==
  ASSUME NEW r, NEW n
  PROVE  G!ProjectionIsTrue(r, n) <=>
           /\ PullsHold(dashboardJob[r].dashboard[n], ever[r][n], steady[r][n])
           /\ RunHolds(dashboardJob[r].dashboard[n], dashboardJob[r].latest[n], latest[n])
           /\ TasksHold(dashboardJob[r].dashboard[n], dashboardJob[r].jobs[n], jobs[n])
  BY DEF G!ProjectionIsTrue, PullsHold, RunHolds, TasksHold

\* The instance has its own name for the library's operator.
LEMMA SameCardinality ==
  ASSUME NEW S
  PROVE  G!Cardinality(S) = Cardinality(S)
  BY DEF G!Cardinality, Cardinality

\* A full page may not be all there is, any other is: what is open all the time
\* is then on it.
LEMMA PullsPage ==
  ASSUME NEW S \in SUBSET Pulls, NEW page \in G!Pages(S)
  PROVE  page \subseteq S /\ (G!PullsComplete(page) => page = S)
<1>1. IsFiniteSet(S) /\ IsFiniteSet(page) /\ page \subseteq S
  BY GitHubAssumption, FS_Subset DEF G!Pages
<1>2. Cardinality(S) \in Nat /\ Cardinality(page) \in Nat /\ PageSize \in Nat
  BY <1>1, GitHubAssumption, FS_CardinalityType
<1>3. ASSUME Cardinality(page) < PageSize PROVE Cardinality(page) = Cardinality(S)
  BY <1>2, <1>3, SameCardinality DEF G!Pages
<1>4. Cardinality(page) = Cardinality(S) => page = S
  BY <1>1, FS_Subset
<1> QED
  BY <1>1, <1>3, <1>4, SameCardinality DEF G!PullsComplete

\* A page with as many jobs as GitHub counts has all of them.
LEMMA TasksPage ==
  ASSUME NEW run, NEW k \in Nat, NEW page \in G!Pages({run} \X (1 .. k))
  PROVE  /\ page \subseteq {run} \X (1 .. k)
         /\ G!TasksComplete(k, page) => page = {run} \X (1 .. k)
<1> DEFINE S == {run} \X (1 .. k)
<1>1. IsFiniteSet(S) /\ Cardinality(S) = k
  <2>1. IsFiniteSet(1 .. k) /\ Cardinality(1 .. k) = k
    BY FS_Interval
  <2>2. IsFiniteSet({run}) /\ Cardinality({run}) = 1
    BY FS_Singleton
  <2>3. IsFiniteSet(S) /\ Cardinality(S) = 1 * k
    BY <2>1, <2>2, FS_Product
  <2> QED
    BY <2>3
<1>2. page \in SUBSET S
  BY DEF G!Pages
<1> HIDE DEF S
<1>3. Cardinality(page) \in Nat /\ Cardinality(page) <= k
       /\ (Cardinality(S) = Cardinality(page) => S = page)
  BY <1>1, <1>2, FS_Subset, FS_CardinalityType
<1>4. k <= Cardinality(page) => page = S
  BY <1>1, <1>3
<1> QED
  BY <1>2, <1>4, SameCardinality DEF S, G!TasksComplete

-------------------------------------------------------------------------------
\* The dashboards: types.

LEMMA DashboardRecords ==
  /\ G!Unread \in G!Projection /\ G!Failed \in G!Projection
  /\ G!Failed.run = G!NoRun
  /\ \A L \in [G!Repositories -> G!Runs \union {G!NoRun}],
        J \in [G!Repositories -> [G!Runs -> 0 .. MaxJobs]] :
       [G!NoJob EXCEPT !.latest = L, !.jobs = J] \in G!Job
  /\ G!NoJob \in G!Job
<1>1. G!Unread \in G!Projection /\ G!Failed \in G!Projection /\ G!Failed.run = G!NoRun
  BY DEF G!Unread, G!Failed, G!Projection
<1>2. 1 \in G!Repositories
  BY GitHubAssumption DEF G!Repositories
<1>3. \A n \in G!Repositories : [k \in G!Runs |-> 0] \in [G!Runs -> 0 .. MaxJobs]
  BY GitHubAssumption
<1>4. G!NoJob \in G!Job
  BY <1>1, <1>2, <1>3 DEF G!NoJob, G!Job
<1> QED
  BY <1>1, <1>4 DEF G!Job

\* What Finish does, to the request it is about and to no other.
LEMMA FinishEffect ==
  ASSUME G!TypeOK, NEW r \in Dashboards, NEW p \in G!Projection,
         NEW F \in SUBSET G!Repositories, G!Finish(r, p, F)
  PROVE  /\ dashboardJob' \in [Dashboards -> G!Job]
         /\ dashboardPc' \in [Dashboards -> G!Points]
         /\ \A s \in Dashboards : s # r =>
              dashboardJob'[s] = dashboardJob[s] /\ dashboardPc'[s] = dashboardPc[s]
         /\ dashboardJob'[r].dashboard =
              [dashboardJob[r].dashboard EXCEPT ![dashboardJob[r].next] = p]
         /\ dashboardJob'[r].failed = dashboardJob[r].failed \union F
         /\ dashboardJob'[r].status = dashboardJob[r].status
         /\ dashboardJob'[r].latest = dashboardJob[r].latest
         /\ dashboardJob'[r].jobs = dashboardJob[r].jobs
         /\ IF dashboardJob[r].next = RepositoryCount
            THEN dashboardPc'[r] = "answer" /\ dashboardJob'[r].next = dashboardJob[r].next
            ELSE dashboardPc'[r] = "metadata"
                 /\ dashboardJob'[r].next = dashboardJob[r].next + 1
<1>1. PICK j \in G!Job : j = dashboardJob[r]
  BY DEF G!TypeOK
<1>2. PICK m : m = IF j.next = RepositoryCount THEN j.next ELSE j.next + 1
  OBVIOUS
<1>3. m \in G!Repositories
  <2>1. j.next \in 1 .. RepositoryCount
    BY <1>1 DEF G!Job, G!Repositories
  <2>2. RepositoryCount \in Nat
    BY GitHubAssumption
  <2> QED
    BY <2>1, <2>2, <1>2 DEF G!Repositories
<1>4. PICK q : q = [j EXCEPT !.dashboard = [j.dashboard EXCEPT ![j.next] = p],
                            !.next = m, !.failed = @ \union F]
  OBVIOUS
<1>5. q \in G!Job
  BY <1>1, <1>3, <1>4 DEF G!Job
<1>6. /\ q.dashboard = [j.dashboard EXCEPT ![j.next] = p] /\ q.next = m
      /\ q.failed = j.failed \union F /\ q.status = j.status
      /\ q.latest = j.latest /\ q.jobs = j.jobs
  BY <1>1, <1>4 DEF G!Job
<1>7. dashboardJob' = [dashboardJob EXCEPT ![r] = q]
  <2>1. q = [j EXCEPT !.dashboard[j.next] = p, !.next = m, !.failed = @ \union F]
    BY <1>1, <1>4 DEF G!Job
  <2> QED
    BY <2>1, <1>1, <1>2 DEF G!Finish, G!TypeOK
<1>8. dashboardJob'[r] = q /\ dashboardJob' \in [Dashboards -> G!Job]
      /\ \A s \in Dashboards : s # r => dashboardJob'[s] = dashboardJob[s]
  BY <1>5, <1>7 DEF G!TypeOK
<1>9. /\ dashboardPc' \in [Dashboards -> G!Points]
      /\ \A s \in Dashboards : s # r => dashboardPc'[s] = dashboardPc[s]
      /\ dashboardPc'[r] = IF j.next = RepositoryCount THEN "answer" ELSE "metadata"
  BY <1>1 DEF G!Finish, G!Goto, G!TypeOK, G!Points
<1> QED
  BY <1>1, <1>2, <1>6, <1>8, <1>9

\* What Project and the call after it do.
LEMMA ProjectEffect ==
  ASSUME G!TypeOK, NEW r \in Dashboards, NEW p \in G!Projection, G!Project(r, p),
         NEW point \in G!Points, G!Goto(r, point)
  PROVE  /\ dashboardJob' \in [Dashboards -> G!Job]
         /\ dashboardPc' \in [Dashboards -> G!Points]
         /\ \A s \in Dashboards : s # r =>
              dashboardJob'[s] = dashboardJob[s] /\ dashboardPc'[s] = dashboardPc[s]
         /\ dashboardJob'[r].dashboard =
              [dashboardJob[r].dashboard EXCEPT ![dashboardJob[r].next] = p]
         /\ dashboardJob'[r].failed = dashboardJob[r].failed
         /\ dashboardJob'[r].status = dashboardJob[r].status
         /\ dashboardJob'[r].latest = dashboardJob[r].latest
         /\ dashboardJob'[r].jobs = dashboardJob[r].jobs
         /\ dashboardJob'[r].next = dashboardJob[r].next
         /\ dashboardPc'[r] = point
<1>1. PICK j \in G!Job : j = dashboardJob[r]
  BY DEF G!TypeOK
<1>2. PICK q : q = [j EXCEPT !.dashboard = [j.dashboard EXCEPT ![j.next] = p]]
  OBVIOUS
<1>3. q \in G!Job
  BY <1>1, <1>2 DEF G!Job
<1>4. /\ q.dashboard = [j.dashboard EXCEPT ![j.next] = p] /\ q.next = j.next
      /\ q.failed = j.failed /\ q.status = j.status
      /\ q.latest = j.latest /\ q.jobs = j.jobs
  BY <1>1, <1>2 DEF G!Job
<1>5. dashboardJob' = [dashboardJob EXCEPT ![r] = q]
  BY <1>1, <1>2 DEF G!Project, G!TypeOK, G!Job
<1>6. dashboardJob'[r] = q /\ dashboardJob' \in [Dashboards -> G!Job]
      /\ \A s \in Dashboards : s # r => dashboardJob'[s] = dashboardJob[s]
  BY <1>3, <1>5 DEF G!TypeOK
<1>7. /\ dashboardPc' \in [Dashboards -> G!Points]
      /\ \A s \in Dashboards : s # r => dashboardPc'[s] = dashboardPc[s]
      /\ dashboardPc'[r] = point
  BY DEF G!Goto, G!TypeOK
<1> QED
  BY <1>1, <1>4, <1>6, <1>7

LEMMA DashboardTypesInit ==
  ASSUME G!Init
  PROVE  G!TypeOK
<1>1. open \in [G!Repositories -> SUBSET Pulls] /\ changes \in 0 .. MaxChanges
  BY GitHubAssumption, BoundAssumption DEF G!Init
<1>2. latest \in [G!Repositories -> G!Runs \union {G!NoRun}]
  <2>1. latest \in [G!Repositories -> 0 .. 1]
    BY GitHubAssumption DEF G!Init, G!Repositories
  <2>2. \A x \in 0 .. 1 : x \in G!Runs \union {G!NoRun}
    BY GitHubAssumption DEF G!Runs, G!NoRun
  <2> QED
    BY <2>1, <2>2
<1>3. jobs \in [G!Repositories -> [G!Runs -> 0 .. MaxJobs]]
  BY GitHubAssumption DEF G!Init
<1> QED
  BY <1>1, <1>2, <1>3, DashboardRecords DEF G!Init, G!TypeOK, G!Points

\* What each answer of gh adds to the projection.
LEMMA PullsRead ==
  ASSUME G!TypeOK, NEW r \in Dashboards, G!ReadPulls(r)
  PROVE  \E p \in G!Projection :
           /\ G!Project(r, p) /\ G!Goto(r, "runs")
           /\ PullsHold(p, open[dashboardJob[r].next], open[dashboardJob[r].next])
           /\ p.run = G!Current(r).run
<1>1. PICK page \in G!Pages(open[dashboardJob[r].next]) :
        G!Project(r, [G!Current(r) EXCEPT !.pulls = page,
                                          !.pullsComplete = G!PullsComplete(page)])
  BY DEF G!ReadPulls
<1>2. G!Current(r) \in G!Projection /\ open[dashboardJob[r].next] \in SUBSET Pulls
  BY DEF G!TypeOK, G!Job, G!Current
<1>3. /\ page \subseteq open[dashboardJob[r].next]
      /\ G!PullsComplete(page) => page = open[dashboardJob[r].next]
  BY <1>2, PullsPage
<1>4. PICK p : p = [G!Current(r) EXCEPT !.pulls = page,
                                        !.pullsComplete = G!PullsComplete(page)]
  OBVIOUS
<1>5. page \in SUBSET Pulls /\ G!PullsComplete(page) \in BOOLEAN
  BY <1>2, <1>3 DEF G!PullsComplete
<1>6. p \in G!Projection
  BY <1>2, <1>4, <1>5 DEF G!Projection
<1>7. p.pulls = page /\ p.pullsComplete = G!PullsComplete(page) /\ p.run = G!Current(r).run
  BY <1>2, <1>4 DEF G!Projection
<1> QED
  BY <1>1, <1>3, <1>4, <1>6, <1>7 DEF PullsHold, G!ReadPulls

LEMMA RunRead ==
  ASSUME G!TypeOK, NEW r \in Dashboards, G!ReadLatestRun(r)
  PROVE  \E p \in G!Projection :
           /\ p.pulls = G!Current(r).pulls
           /\ p.pullsComplete = G!Current(r).pullsComplete
           /\ IF latest[dashboardJob[r].next] = G!NoRun
              THEN G!Finish(r, p, {}) /\ p.state = "ok" /\ p.run = G!Current(r).run
              ELSE /\ G!Project(r, p) /\ G!Goto(r, "jobs")
                   /\ p.run = latest[dashboardJob[r].next]
<1>1. G!Current(r) \in G!Projection
  BY DEF G!TypeOK, G!Job, G!Current
<1>2. latest[dashboardJob[r].next] \in G!Runs \union {G!NoRun}
  BY DEF G!TypeOK, G!Job
<1>3. CASE latest[dashboardJob[r].next] = G!NoRun
  <2>1. PICK p : p = [G!Current(r) EXCEPT !.state = "ok"]
    OBVIOUS
  <2>2. /\ p \in G!Projection /\ p.state = "ok" /\ p.run = G!Current(r).run
        /\ p.pulls = G!Current(r).pulls /\ p.pullsComplete = G!Current(r).pullsComplete
    BY <1>1, <2>1 DEF G!Projection
  <2> QED
    BY <1>3, <2>1, <2>2 DEF G!ReadLatestRun
<1>4. CASE latest[dashboardJob[r].next] # G!NoRun
  <2>1. PICK p : p = [G!Current(r) EXCEPT !.run = latest[dashboardJob[r].next]]
    OBVIOUS
  <2>2. /\ p \in G!Projection /\ p.run = latest[dashboardJob[r].next]
        /\ p.pulls = G!Current(r).pulls /\ p.pullsComplete = G!Current(r).pullsComplete
    BY <1>1, <1>2, <2>1 DEF G!Projection
  <2> QED
    BY <1>4, <2>1, <2>2 DEF G!ReadLatestRun
<1> QED
  BY <1>3, <1>4

LEMMA TasksRead ==
  ASSUME G!TypeOK, NEW r \in Dashboards, G!ReadTasks(r), G!Current(r).run \in G!Runs
  PROVE  \E p \in G!Projection :
           /\ G!Finish(r, p, {})
           /\ p.state = "ok" /\ p.run = G!Current(r).run
           /\ p.pulls = G!Current(r).pulls
           /\ p.pullsComplete = G!Current(r).pullsComplete
           /\ TasksHold(p, jobs[dashboardJob[r].next], jobs[dashboardJob[r].next])
<1>1. PICK run, k : run = G!Current(r).run /\ k = jobs[dashboardJob[r].next][run]
  OBVIOUS
<1>2. G!Current(r) \in G!Projection /\ run \in G!Runs /\ k \in 0 .. MaxJobs
  BY <1>1 DEF G!TypeOK, G!Job, G!Current
<1>3. PICK page \in G!Pages({run} \X (1 .. k)) :
        G!Finish(r, [G!Current(r) EXCEPT !.state = "ok", !.tasks = page,
                                         !.tasksComplete = G!TasksComplete(k, page)], {})
  BY <1>1 DEF G!ReadTasks
<1>4. /\ page \subseteq {run} \X (1 .. k)
      /\ G!TasksComplete(k, page) => page = {run} \X (1 .. k)
  <2>1. k \in Nat
    BY <1>2, GitHubAssumption
  <2> QED
    BY <2>1, TasksPage
<1>5. page \in SUBSET G!Task /\ G!TasksComplete(k, page) \in BOOLEAN
  <2>1. \A x \in 1 .. k : x \in 1 .. MaxJobs
    BY <1>2, GitHubAssumption
  <2>2. {run} \X (1 .. k) \subseteq G!Task
    BY <1>2, <2>1 DEF G!Task
  <2> QED
    BY <1>4, <2>2 DEF G!TasksComplete
<1>6. PICK p : p = [G!Current(r) EXCEPT !.state = "ok", !.tasks = page,
                                        !.tasksComplete = G!TasksComplete(k, page)]
  OBVIOUS
<1>7. p \in G!Projection
  BY <1>2, <1>5, <1>6 DEF G!Projection
<1>8. /\ p.state = "ok" /\ p.run = run /\ p.tasks = page
      /\ p.tasksComplete = G!TasksComplete(k, page)
      /\ p.pulls = G!Current(r).pulls /\ p.pullsComplete = G!Current(r).pullsComplete
  BY <1>1, <1>2, <1>6 DEF G!Projection
<1>9. TasksHold(p, jobs[dashboardJob[r].next], jobs[dashboardJob[r].next])
  BY <1>1, <1>4, <1>8 DEF TasksHold
<1> QED
  BY <1>1, <1>3, <1>6, <1>7, <1>8, <1>9

\* GitHub, and a server that serves it badly or not at all, keep the types.
LEMMA DashboardTypesKept ==
  ASSUME GInv, G!Next
  PROVE  G!TypeOK'
<1> USE DEF GInv
<1>1. CASE G!Change
  <2>1. changes' \in 0 .. MaxChanges /\ UNCHANGED <<dashboardPc, dashboardJob>>
    BY <1>1, BoundAssumption DEF G!Change, G!TypeOK
  <2>2. ASSUME NEW n \in G!Repositories,
               G!OpenPull(n) \/ G!ClosePull(n) \/ G!StartRun(n) \/ G!AddJob(n)
        PROVE  G!TypeOK'
    <3>1. CASE G!OpenPull(n)
      <4>1. PICK p \in Pulls :
              /\ open' = [open EXCEPT ![n] = @ \union {p}]
              /\ ever' = [r \in Dashboards |-> [ever[r] EXCEPT ![n] = @ \union {p}]]
        BY <3>1 DEF G!OpenPull
      <4>2. open' \in [G!Repositories -> SUBSET Pulls]
        BY <4>1 DEF G!TypeOK
      <4>3. ever' \in [Dashboards -> [G!Repositories -> SUBSET Pulls]]
        BY <4>1 DEF G!TypeOK
      <4> QED
        BY <4>2, <4>3, <3>1, <2>1 DEF G!OpenPull, G!TypeOK
    <3>2. CASE G!ClosePull(n)
      <4>1. PICK p \in Pulls :
              /\ open' = [open EXCEPT ![n] = @ \ {p}]
              /\ steady' = [r \in Dashboards |-> [steady[r] EXCEPT ![n] = @ \ {p}]]
        BY <3>2 DEF G!ClosePull, G!TypeOK
      <4>2. open' \in [G!Repositories -> SUBSET Pulls]
        BY <4>1 DEF G!TypeOK
      <4>3. steady' \in [Dashboards -> [G!Repositories -> SUBSET Pulls]]
        BY <4>1 DEF G!TypeOK
      <4> QED
        BY <4>2, <4>3, <3>2, <2>1 DEF G!ClosePull, G!TypeOK
    <3>3. CASE G!StartRun(n)
      <4>1. latest[n] + 1 \in G!Runs
        <5>1. latest[n] \in (1 .. MaxRuns) \union {0} /\ latest[n] < MaxRuns
          BY <3>3 DEF G!StartRun, G!TypeOK, G!Runs, G!NoRun
        <5>2. MaxRuns \in Nat
          BY GitHubAssumption
        <5> QED
          BY <5>1, <5>2 DEF G!Runs
      <4>2. latest' \in [G!Repositories -> G!Runs \union {G!NoRun}]
        BY <3>3, <4>1 DEF G!StartRun, G!TypeOK
      <4> QED
        BY <4>2, <3>3, <2>1 DEF G!StartRun, G!TypeOK
    <3>4. CASE G!AddJob(n)
      <4>1. PICK k \in 1 .. latest[n] :
              jobs[n][k] < MaxJobs /\ jobs' = [jobs EXCEPT ![n][k] = @ + 1]
        BY <3>4 DEF G!AddJob
      <4>2. k \in G!Runs
        <5>1. latest[n] \in (1 .. MaxRuns) \union {0} /\ k \in 1 .. latest[n]
          BY <4>1 DEF G!TypeOK, G!Runs, G!NoRun
        <5>2. MaxRuns \in Nat
          BY GitHubAssumption
        <5> QED
          BY <5>1, <5>2 DEF G!Runs
      <4>3. jobs[n][k] + 1 \in 0 .. MaxJobs
        BY <4>1, <4>2, GitHubAssumption DEF G!TypeOK
      <4>4. jobs' \in [G!Repositories -> [G!Runs -> 0 .. MaxJobs]]
        BY <4>1, <4>3 DEF G!TypeOK
      <4> QED
        BY <4>4, <3>4, <2>1 DEF G!AddJob, G!TypeOK
    <3> QED
      BY <2>2, <3>1, <3>2, <3>3, <3>4
  <2> QED
    BY <1>1, <2>2 DEF G!Change
<1>2. CASE G!Crash
  BY <1>2, DashboardRecords DEF G!Crash, G!TypeOK, G!github, G!Points
<1>3. ASSUME NEW r \in Dashboards,
             G!Ask(r) \/ G!CallReturns(r) \/ G!TimesOut(r) \/ G!Respond(r)
      PROVE  G!TypeOK'
  <2>1. CASE G!Ask(r)
    BY <2>1, DashboardRecords DEF G!Ask, G!TypeOK, G!Goto, G!Points, G!github
  <2>2. CASE G!ReadMetadata(r)
    BY <2>2 DEF G!ReadMetadata, G!TypeOK, G!Goto, G!Points, G!github, G!Reads
  <2>3. CASE G!ReadPulls(r)
    <3>1. dashboardJob' \in [Dashboards -> G!Job] /\ dashboardPc' \in [Dashboards -> G!Points]
      BY <2>3, PullsRead, ProjectEffect DEF G!Points
    <3> QED
      BY <3>1, <2>3 DEF G!ReadPulls, G!Reads, G!github, G!TypeOK
  <2>4. CASE G!ReadLatestRun(r)
    <3>1. dashboardJob' \in [Dashboards -> G!Job] /\ dashboardPc' \in [Dashboards -> G!Points]
      BY <2>4, RunRead, ProjectEffect, FinishEffect DEF G!Points
    <3> QED
      BY <3>1, <2>4 DEF G!ReadLatestRun, G!Reads, G!github, G!TypeOK
  <2>5. CASE G!ReadTasks(r)
    <3>1. G!Current(r).run \in G!Runs
      BY <2>5 DEF G!ReadTasks, G!At, GInv, Sound, Partial, G!Calls, G!Current
    <3>2. dashboardJob' \in [Dashboards -> G!Job] /\ dashboardPc' \in [Dashboards -> G!Points]
      BY <2>5, <3>1, TasksRead, FinishEffect
    <3> QED
      BY <3>2, <2>5 DEF G!ReadTasks, G!Reads, G!github, G!TypeOK
  <2>6. CASE G!CallFails(r) \/ G!TimesOut(r)
    <3>1. G!CallFails(r)
      BY <2>6 DEF G!TimesOut
    <3>2. dashboardJob' \in [Dashboards -> G!Job] /\ dashboardPc' \in [Dashboards -> G!Points]
      <4>1. {dashboardJob[r].next} \in SUBSET G!Repositories
        BY DEF G!TypeOK, G!Job
      <4> QED
        BY <3>1, <4>1, FinishEffect, DashboardRecords DEF G!CallFails
    <3> QED
      BY <3>1, <3>2 DEF G!CallFails, G!Reads, G!github, G!TypeOK
  <2>7. CASE G!CallRaises(r)
    <3>1. dashboardJob' \in [Dashboards -> G!Job]
      <4>1. PICK q : q = [dashboardJob[r] EXCEPT !.status = "FAILED"]
        OBVIOUS
      <4>2. q \in G!Job
        BY <4>1 DEF G!TypeOK, G!Job
      <4>3. dashboardJob' = [dashboardJob EXCEPT ![r] = q]
        BY <2>7, <4>1 DEF G!CallRaises, G!TypeOK
      <4> QED
        BY <4>2, <4>3 DEF G!TypeOK
    <3> QED
      BY <3>1, <2>7 DEF G!CallRaises, G!TypeOK, G!Goto, G!Points, G!github, G!Reads
  <2>8. CASE G!Respond(r)
    BY <2>8, DashboardRecords DEF G!Respond, G!TypeOK, G!Goto, G!Points, G!github
  <2> QED
    BY <1>3, <2>1, <2>2, <2>3, <2>4, <2>5, <2>6, <2>7, <2>8 DEF G!CallReturns
<1> QED
  BY <1>1, <1>2, <1>3 DEF G!Next

-------------------------------------------------------------------------------
\* The dashboards: soundness.

\* What is shown of a repository stays true while GitHub changes.
LEMMA DoneKept ==
  ASSUME G!TypeOK, G!TypeOK', NEW r \in Dashboards, NEW n \in G!Repositories,
         Done(r, n),
         dashboardJob'[r].dashboard[n] = dashboardJob[r].dashboard[n],
         n \in dashboardJob'[r].failed <=> n \in dashboardJob[r].failed,
         dashboardJob'[r].latest[n] = dashboardJob[r].latest[n],
         dashboardJob'[r].jobs[n] = dashboardJob[r].jobs[n],
         ever[r][n] \subseteq ever'[r][n], steady'[r][n] \subseteq steady[r][n],
         latest[n] <= latest'[n],
         \A k \in G!Runs : jobs[n][k] <= jobs'[n][k]
  PROVE  Done(r, n)'
<1>1. CASE n \in dashboardJob[r].failed
  BY <1>1 DEF Done
<1>2. CASE n \notin dashboardJob[r].failed
  <2>1. PICK p \in G!Projection : p = dashboardJob[r].dashboard[n]
    BY DEF G!TypeOK, G!Job
  <2>2. /\ p.state = "ok" /\ PullsHold(p, ever[r][n], steady[r][n])
        /\ RunHolds(p, dashboardJob[r].latest[n], latest[n])
        /\ TasksHold(p, dashboardJob[r].jobs[n], jobs[n])
    BY <1>2, <2>1, ProjectionHolds DEF Done
  <2>3. PullsHold(p, ever'[r][n], steady'[r][n])
    BY <2>2 DEF PullsHold
  <2>4. RunHolds(p, dashboardJob'[r].latest[n], latest'[n])
    <3>1. /\ latest[n] \in Nat /\ latest'[n] \in Nat
          /\ dashboardJob[r].latest[n] \in Nat
      <4>1. /\ latest[n] \in G!Runs \union {G!NoRun} /\ latest'[n] \in G!Runs \union {G!NoRun}
            /\ dashboardJob[r].latest[n] \in G!Runs \union {G!NoRun}
        BY DEF G!TypeOK, G!Job
      <4> QED
        BY <4>1 DEF G!Runs, G!NoRun
    <3> QED
      BY <2>2, <3>1 DEF RunHolds
  <2>5. TasksHold(p, dashboardJob'[r].jobs[n], jobs'[n])
    <3>1. ASSUME p.run # G!NoRun
          PROVE  {p.run} \X (1 .. jobs[n][p.run]) \subseteq {p.run} \X (1 .. jobs'[n][p.run])
      <4>1. p.run \in G!Runs
        BY <3>1, <2>1 DEF G!Projection
      <4>2. /\ jobs[n][p.run] \in 0 .. MaxJobs /\ jobs'[n][p.run] \in 0 .. MaxJobs
            /\ jobs[n][p.run] <= jobs'[n][p.run]
        BY <4>1 DEF G!TypeOK
      <4>3. MaxJobs \in Nat
        BY GitHubAssumption
      <4>4. \A x \in 1 .. jobs[n][p.run] : x \in 1 .. jobs'[n][p.run]
        BY <4>2, <4>3
      <4> QED
        BY <4>4
    <3> QED
      BY <2>2, <3>1 DEF TasksHold
  <2>6. p = dashboardJob'[r].dashboard[n]
    BY <2>1
  <2>7. G!ProjectionIsTrue(r, n)'
    BY <2>3, <2>4, <2>5, <2>6 DEF G!ProjectionIsTrue, PullsHold, RunHolds, TasksHold
  <2> QED
    BY <1>2, <2>2, <2>6, <2>7 DEF Done
<1> QED
  BY <1>1, <1>2

\* GitHub only adds to what was open at some time, to its runs and to their jobs,
\* and only takes from what has been open all the time.
Moves(r) ==
  \A n \in G!Repositories :
    /\ ever[r][n] \subseteq ever'[r][n] /\ steady'[r][n] \subseteq steady[r][n]
    /\ latest[n] <= latest'[n]
    /\ \A k \in G!Runs : jobs[n][k] <= jobs'[n][k]

LEMMA StandsStill ==
  ASSUME G!TypeOK, NEW r \in Dashboards, G!Reads
  PROVE  Moves(r)
<1>1. \A n \in G!Repositories : latest[n] \in Nat
  <2>1. \A n \in G!Repositories : latest[n] \in G!Runs \union {G!NoRun}
    BY DEF G!TypeOK
  <2> QED
    BY <2>1 DEF G!Runs, G!NoRun
<1>2. \A n \in G!Repositories, k \in G!Runs : jobs[n][k] \in Nat
  <2>1. \A n \in G!Repositories, k \in G!Runs : jobs[n][k] \in 0 .. MaxJobs
    BY DEF G!TypeOK
  <2> QED
    BY <2>1, GitHubAssumption
<1>3. UNCHANGED <<latest, jobs, steady, ever>>
  BY DEF G!Reads, G!github
<1> QED
  BY <1>1, <1>2, <1>3 DEF Moves

\* A request of which nothing is done stays sound, whatever GitHub does.
LEMMA SoundKept ==
  ASSUME G!TypeOK, G!TypeOK', NEW r \in Dashboards, Sound(r), Moves(r),
         dashboardJob'[r] = dashboardJob[r], dashboardPc'[r] = dashboardPc[r]
  PROVE  Sound(r)'
<1>1. \A n \in G!Repositories : Done(r, n) => Done(r, n)'
  BY DoneKept DEF Moves
<1>2. ASSUME Partial(r), dashboardPc[r] \in G!Calls PROVE Partial(r)'
  <2>1. PICK n \in G!Repositories : n = dashboardJob[r].next
    BY DEF G!TypeOK, G!Job
  <2>2. PICK p \in G!Projection : p = dashboardJob[r].dashboard[n]
    BY DEF G!TypeOK, G!Job
  <2>3. ASSUME PullsHold(p, ever[r][n], steady[r][n])
        PROVE  PullsHold(p, ever'[r][n], steady'[r][n])
    BY <2>3 DEF PullsHold, Moves
  <2>4. ASSUME p.run \in G!Runs, RunHolds(p, dashboardJob[r].latest[n], latest[n])
        PROVE  RunHolds(p, dashboardJob[r].latest[n], latest'[n])
    <3>1. latest[n] \in G!Runs \union {G!NoRun} /\ latest'[n] \in G!Runs \union {G!NoRun}
          /\ dashboardJob[r].latest[n] \in G!Runs \union {G!NoRun}
      BY DEF G!TypeOK, G!Job
    <3> QED
      BY <3>1, <2>4 DEF RunHolds, Moves, G!Runs, G!NoRun
  <2>5. n = dashboardJob'[r].next /\ p = dashboardJob'[r].dashboard[n]
    BY <2>1, <2>2
  <2> QED
    BY <1>2, <2>1, <2>2, <2>3, <2>4, <2>5 DEF Partial
<1> QED
  BY <1>1, <1>2 DEF Sound

\* The repository being read is done with projection p.
LEMMA SoundFinish ==
  ASSUME G!TypeOK, G!TypeOK', NEW r \in Dashboards, Sound(r), Moves(r),
         dashboardPc[r] \in G!Calls,
         NEW p \in G!Projection, NEW n \in G!Repositories, n = dashboardJob[r].next,
         NEW F \in {{}, {n}}, G!Finish(r, p, F), Done(r, n)'
  PROVE  Sound(r)'
<1>1. /\ dashboardJob'[r].dashboard = [dashboardJob[r].dashboard EXCEPT ![n] = p]
      /\ dashboardJob'[r].failed = dashboardJob[r].failed \union F
      /\ dashboardJob'[r].latest = dashboardJob[r].latest
      /\ dashboardJob'[r].jobs = dashboardJob[r].jobs
      /\ IF n = RepositoryCount
         THEN dashboardPc'[r] = "answer" /\ dashboardJob'[r].next = n
         ELSE dashboardPc'[r] = "metadata" /\ dashboardJob'[r].next = n + 1
  BY FinishEffect
<1>2. dashboardJob[r].dashboard \in [G!Repositories -> G!Projection]
  BY DEF G!TypeOK, G!Job
<1>3. ASSUME NEW m \in G!Repositories, m < n PROVE Done(r, m)'
  <2>1. Done(r, m)
    BY <1>3 DEF Sound
  <2>2. m # n
    BY <1>3, GitHubAssumption DEF G!Repositories
  <2>3. dashboardJob'[r].dashboard[m] = dashboardJob[r].dashboard[m]
    BY <1>1, <1>2, <2>2
  <2>4. m \in dashboardJob'[r].failed <=> m \in dashboardJob[r].failed
    BY <1>1, <2>2
  <2> QED
    BY <2>1, <2>3, <2>4, <1>1, DoneKept DEF Moves
<1>4. RepositoryCount \in Nat /\ \A m \in G!Repositories : m \in Nat /\ m <= RepositoryCount
  <2>1. RepositoryCount \in Nat
    BY GitHubAssumption
  <2> QED
    BY <2>1 DEF G!Repositories
<1>5. CASE n = RepositoryCount
  <2>1. \A m \in G!Repositories : Done(r, m)'
    BY <1>3, <1>4, <1>5
  <2>2. dashboardPc'[r] = "answer"
    BY <1>1, <1>5
  <2> QED
    BY <2>1, <2>2 DEF Sound, G!Calls
<1>6. CASE n # RepositoryCount
  <2>1. dashboardPc'[r] = "metadata" /\ dashboardJob'[r].next = n + 1
    BY <1>1, <1>6
  <2>2. \A m \in G!Repositories : m < n + 1 => Done(r, m)'
    BY <1>3, <1>4
  <2>3. ASSUME NEW m \in G!Repositories, m > n
        PROVE  m \notin dashboardJob'[r].failed /\ dashboardJob'[r].dashboard[m].run = G!NoRun
    <3>1. m \notin dashboardJob[r].failed /\ dashboardJob[r].dashboard[m].run = G!NoRun
      BY <2>3 DEF Sound
    <3>2. m # n
      BY <2>3, <1>4
    <3> QED
      BY <3>1, <3>2, <1>1, <1>2
  <2>4. n + 1 \in G!Repositories /\ n + 1 > n
    BY <1>4, <1>6 DEF G!Repositories
  <2>5. Partial(r)'
    BY <2>1, <2>3, <2>4 DEF Partial
  <2>6. \A m \in G!Repositories : m > n + 1 => m > n
    BY <1>4
  <2> QED
    BY <2>1, <2>2, <2>3, <2>5, <2>6 DEF Sound, G!Calls
<1> QED
  BY <1>5, <1>6

\* One more part of the repository being read is known: the projection is p.
LEMMA SoundProject ==
  ASSUME G!TypeOK, G!TypeOK', NEW r \in Dashboards, Sound(r), Moves(r), dashboardPc[r] \in G!Calls,
         NEW n \in G!Repositories, n = dashboardJob[r].next,
         NEW p \in G!Projection, NEW point \in {"runs", "jobs"},
         G!Project(r, p), G!Goto(r, point),
         PullsHold(p, ever[r][n], steady[r][n]),
         \/ point = "runs" /\ p.run = G!NoRun
         \/ /\ point = "jobs" /\ p.run \in G!Runs
            /\ RunHolds(p, dashboardJob'[r].latest[n], latest'[n])
  PROVE  Sound(r)'
<1>1. /\ dashboardJob'[r].dashboard = [dashboardJob[r].dashboard EXCEPT ![n] = p]
      /\ dashboardJob'[r].failed = dashboardJob[r].failed
      /\ dashboardJob'[r].latest = dashboardJob[r].latest
      /\ dashboardJob'[r].jobs = dashboardJob[r].jobs
      /\ dashboardJob'[r].next = n /\ dashboardPc'[r] = point
  BY ProjectEffect DEF G!Points
<1>2. dashboardJob[r].dashboard \in [G!Repositories -> G!Projection]
  BY DEF G!TypeOK, G!Job
<1>3. ASSUME NEW m \in G!Repositories, m # n
      PROVE  dashboardJob'[r].dashboard[m] = dashboardJob[r].dashboard[m]
  BY <1>1, <1>2, <1>3
<1>4. \A m \in G!Repositories : m \in Nat
  BY DEF G!Repositories
<1>5. ASSUME NEW m \in G!Repositories, m < n PROVE Done(r, m)'
  <2>1. Done(r, m) /\ m # n
    BY <1>4, <1>5 DEF Sound
  <2> QED
    BY <2>1, <1>1, <1>3, DoneKept DEF Moves
<1>6. ASSUME NEW m \in G!Repositories, m > n
      PROVE  m \notin dashboardJob'[r].failed /\ dashboardJob'[r].dashboard[m].run = G!NoRun
  BY <1>1, <1>3, <1>4, <1>6 DEF Sound
<1>7. Partial(r)'
  <2>1. dashboardJob'[r].dashboard[n] = p
    BY <1>1, <1>2
  <2>2. n \notin dashboardJob[r].failed
    BY DEF Sound, Partial
  <2>3. PullsHold(p, ever'[r][n], steady'[r][n])
    BY DEF PullsHold, Moves
  <2> QED
    BY <1>1, <2>1, <2>2, <2>3 DEF Partial
<1> QED
  BY <1>1, <1>5, <1>6, <1>7 DEF Sound

-------------------------------------------------------------------------------
\* The dashboards: GInv is inductive.

LEMMA DashboardInit ==
  ASSUME G!Init
  PROVE  GInv
<1>1. G!TypeOK
  BY DashboardTypesInit
<1>2. \A r \in Dashboards : dashboardPc[r] = "idle"
  BY DEF G!Init
<1> QED
  BY <1>1, <1>2 DEF GInv, Sound, G!Calls

\* GitHub changes.
LEMMA DashboardChange ==
  ASSUME GInv, G!TypeOK', G!Change
  PROVE  GInv'
<1>1. UNCHANGED <<dashboardPc, dashboardJob>>
  BY DEF G!Change
<1>2. \A n \in G!Repositories : latest[n] \in Nat
  <2>1. \A n \in G!Repositories : latest[n] \in G!Runs \union {G!NoRun}
    BY DEF GInv, G!TypeOK
  <2> QED
    BY <2>1 DEF G!Runs, G!NoRun
<1>3. \A n \in G!Repositories, k \in G!Runs : jobs[n][k] \in Nat
  <2>1. \A n \in G!Repositories, k \in G!Runs : jobs[n][k] \in 0 .. MaxJobs
    BY DEF GInv, G!TypeOK
  <2> QED
    BY <2>1, GitHubAssumption
<1>4. ASSUME NEW r \in Dashboards
      PROVE  /\ Moves(r)
             /\ \A m \in G!Repositories :
                  steady[r][m] \subseteq open[m] /\ open[m] \subseteq ever[r][m] =>
                    steady'[r][m] \subseteq open'[m] /\ open'[m] \subseteq ever'[r][m]
  <2>1. PICK n \in G!Repositories :
          G!OpenPull(n) \/ G!ClosePull(n) \/ G!StartRun(n) \/ G!AddJob(n)
    BY DEF G!Change
  <2>2. CASE G!OpenPull(n)
    <3>1. PICK p \in Pulls :
            /\ open' = [open EXCEPT ![n] = @ \union {p}]
            /\ ever' = [q \in Dashboards |-> [ever[q] EXCEPT ![n] = @ \union {p}]]
      BY <2>2 DEF G!OpenPull
    <3>2. \A m \in G!Repositories :
            /\ open'[m] = IF m = n THEN open[m] \union {p} ELSE open[m]
            /\ ever'[r][m] = IF m = n THEN ever[r][m] \union {p} ELSE ever[r][m]
      BY <3>1 DEF GInv, G!TypeOK
    <3>3. UNCHANGED <<latest, jobs, steady>>
      BY <2>2 DEF G!OpenPull
    <3>4. Moves(r)
      <4>1. ASSUME NEW m \in G!Repositories
            PROVE  ever[r][m] \subseteq ever'[r][m] /\ steady'[r][m] \subseteq steady[r][m]
        BY <3>2, <3>3
      <4> QED
        BY <4>1, <3>3, <1>2, <1>3 DEF Moves
    <3> QED
      BY <3>2, <3>3, <3>4
  <2>3. CASE G!ClosePull(n)
    <3>1. PICK p \in open[n] :
            /\ open' = [open EXCEPT ![n] = @ \ {p}]
            /\ steady' = [q \in Dashboards |-> [steady[q] EXCEPT ![n] = @ \ {p}]]
      BY <2>3 DEF G!ClosePull
    <3>2. \A m \in G!Repositories :
            /\ open'[m] = IF m = n THEN open[m] \ {p} ELSE open[m]
            /\ steady'[r][m] = IF m = n THEN steady[r][m] \ {p} ELSE steady[r][m]
      BY <3>1 DEF GInv, G!TypeOK
    <3>3. UNCHANGED <<latest, jobs, ever>>
      BY <2>3 DEF G!ClosePull
    <3>4. Moves(r)
      <4>1. ASSUME NEW m \in G!Repositories
            PROVE  ever[r][m] \subseteq ever'[r][m] /\ steady'[r][m] \subseteq steady[r][m]
        BY <3>2, <3>3
      <4> QED
        BY <4>1, <3>3, <1>2, <1>3 DEF Moves
    <3> QED
      BY <3>2, <3>3, <3>4
  <2>4. CASE G!StartRun(n)
    <3>1. \A m \in G!Repositories : latest'[m] = IF m = n THEN latest[m] + 1 ELSE latest[m]
      BY <2>4 DEF G!StartRun, GInv, G!TypeOK
    <3>2. UNCHANGED <<open, jobs, steady, ever>>
      BY <2>4 DEF G!StartRun
    <3> QED
      BY <3>1, <3>2, <1>2, <1>3 DEF Moves
  <2>5. CASE G!AddJob(n)
    <3>1. PICK k : jobs' = [jobs EXCEPT ![n][k] = @ + 1]
      BY <2>5 DEF G!AddJob
    <3>2. \A m \in G!Repositories, i \in G!Runs :
            jobs'[m][i] = IF m = n /\ i = k THEN jobs[m][i] + 1 ELSE jobs[m][i]
      BY <3>1 DEF GInv, G!TypeOK
    <3>3. UNCHANGED <<open, latest, steady, ever>>
      BY <2>5 DEF G!AddJob
    <3> QED
      BY <3>2, <3>3, <1>2, <1>3 DEF Moves
  <2> QED
    BY <2>1, <2>2, <2>3, <2>4, <2>5
<1>5. ASSUME NEW r \in Dashboards, Tracked(r) PROVE Tracked(r)'
  <2>1. \A n \in G!Repositories : latest'[n] \in Nat /\ dashboardJob[r].latest[n] \in Nat
    <3>1. \A n \in G!Repositories :
            latest'[n] \in G!Runs \union {G!NoRun}
            /\ dashboardJob[r].latest[n] \in G!Runs \union {G!NoRun}
      BY DEF GInv, G!TypeOK, G!Job
    <3> QED
      BY <3>1 DEF G!Runs, G!NoRun
  <2>2. \A n \in G!Repositories, k \in G!Runs :
          jobs'[n][k] \in Nat /\ dashboardJob[r].jobs[n][k] \in Nat
    <3>1. \A n \in G!Repositories, k \in G!Runs :
            jobs'[n][k] \in 0 .. MaxJobs /\ dashboardJob[r].jobs[n][k] \in 0 .. MaxJobs
      BY DEF GInv, G!TypeOK, G!Job
    <3> QED
      BY <3>1, GitHubAssumption
  <2> QED
    BY <1>1, <1>2, <1>3, <1>4, <1>5, <2>1, <2>2 DEF Tracked, Moves
<1>6. ASSUME NEW r \in Dashboards PROVE Sound(r)'
  BY <1>1, <1>4, SoundKept DEF GInv
<1> QED
  BY <1>1, <1>5, <1>6 DEF GInv

\* A request whose turn it is not.
LEMMA OtherDashboard ==
  ASSUME GInv, G!TypeOK', NEW r \in Dashboards,
         UNCHANGED <<open, latest, jobs>>, ever'[r] = ever[r], steady'[r] = steady[r],
         dashboardJob'[r] = dashboardJob[r], dashboardPc'[r] = dashboardPc[r]
  PROVE  Sound(r)' /\ (dashboardPc'[r] # "idle" => Tracked(r)')
<1>1. Moves(r)
  <2>1. \A n \in G!Repositories : latest[n] <= latest[n]
    <3>1. \A n \in G!Repositories : latest[n] \in G!Runs \union {G!NoRun}
      BY DEF GInv, G!TypeOK
    <3> QED
      BY <3>1 DEF G!Runs, G!NoRun
  <2>2. \A n \in G!Repositories, k \in G!Runs : jobs[n][k] <= jobs[n][k]
    <3>1. \A n \in G!Repositories, k \in G!Runs : jobs[n][k] \in 0 .. MaxJobs
      BY DEF GInv, G!TypeOK
    <3> QED
      BY <3>1, GitHubAssumption
  <2> QED
    BY <2>1, <2>2 DEF Moves
<1>2. Sound(r)'
  BY <1>1, SoundKept DEF GInv
<1> QED
  BY <1>2 DEF GInv, Tracked

\* A call of gh ends.
LEMMA DashboardCall ==
  ASSUME GInv, G!TypeOK', NEW r \in Dashboards, G!CallReturns(r) \/ G!TimesOut(r)
  PROVE  GInv'
<1>1. PICK n \in G!Repositories : n = dashboardJob[r].next
  BY DEF GInv, G!TypeOK, G!Job
<1>2. PICK c \in G!Projection : c = dashboardJob[r].dashboard[n] /\ c = G!Current(r)
  BY <1>1 DEF GInv, G!TypeOK, G!Job, G!Current
<1>3. G!Reads /\ dashboardPc[r] \in G!Calls
  BY DEF G!CallReturns, G!TimesOut, G!ReadMetadata, G!ReadPulls, G!ReadLatestRun,
         G!ReadTasks, G!CallFails, G!CallRaises, G!At, G!Calls
<1>4. Moves(r) /\ Tracked(r) /\ Sound(r) /\ G!TypeOK
  BY <1>3, StandsStill DEF GInv, G!Calls
<1>5. UNCHANGED <<open, latest, jobs, steady, ever>>
  BY <1>3 DEF G!Reads, G!github
<1>6. latest[n] \in Nat /\ dashboardJob[r].latest[n] \in Nat
  <2>1. latest[n] \in G!Runs \union {G!NoRun}
        /\ dashboardJob[r].latest[n] \in G!Runs \union {G!NoRun}
    BY DEF GInv, G!TypeOK, G!Job
  <2> QED
    BY <2>1 DEF G!Runs, G!NoRun
<1> DEFINE Rest == /\ Sound(r)'
                   /\ dashboardJob'[r].latest = dashboardJob[r].latest
                   /\ dashboardJob'[r].jobs = dashboardJob[r].jobs
                   /\ \A s \in Dashboards : s # r =>
                        dashboardJob'[s] = dashboardJob[s] /\ dashboardPc'[s] = dashboardPc[s]
<1>7. SUFFICES Rest
  <2>1. ASSUME NEW s \in Dashboards, s # r
        PROVE  Sound(s)' /\ (dashboardPc'[s] # "idle" => Tracked(s)')
    BY <1>5, <1>7, <2>1, OtherDashboard
  <2>2. Tracked(r)'
    BY <1>4, <1>5, <1>7 DEF Tracked
  <2> QED
    BY <1>7, <2>1, <2>2 DEF GInv
<1>8. CASE G!ReadMetadata(r)
  <2>1. /\ dashboardJob' = dashboardJob /\ dashboardPc'[r] = "pulls"
        /\ dashboardPc[r] = "metadata"
        /\ \A s \in Dashboards : s # r => dashboardPc'[s] = dashboardPc[s]
    BY <1>8, <1>4 DEF G!ReadMetadata, G!Goto, G!At, G!TypeOK
  <2>2. \A m \in G!Repositories : Done(r, m) => Done(r, m)'
    BY <2>1, <1>4, DoneKept DEF Moves
  <2>3. Partial(r)'
    BY <2>1, <1>4 DEF Partial, Sound, G!Calls
  <2> QED
    BY <2>1, <2>2, <2>3, <1>4 DEF Sound, G!Calls
<1>9. CASE G!ReadPulls(r)
  <2>1. PICK p \in G!Projection :
          /\ G!Project(r, p) /\ G!Goto(r, "runs")
          /\ PullsHold(p, open[n], open[n]) /\ p.run = c.run
    BY <1>1, <1>2, <1>4, <1>9, PullsRead
  <2>2. PullsHold(p, ever[r][n], steady[r][n])
    BY <2>1, <1>4 DEF PullsHold, Tracked
  <2>3. p.run = G!NoRun
    <3>1. dashboardPc[r] = "pulls"
      BY <1>9 DEF G!ReadPulls, G!At
    <3> QED
      BY <2>1, <3>1, <1>1, <1>2, <1>4 DEF Sound, Partial, G!Calls
  <2>4. Sound(r)'
    BY <1>1, <1>3, <1>4, <2>1, <2>2, <2>3, SoundProject
  <2> QED
    BY <2>1, <2>4, <1>4, ProjectEffect DEF G!Points
<1>10. CASE G!ReadLatestRun(r)
  <2>1. PICK p \in G!Projection :
          /\ p.pulls = c.pulls /\ p.pullsComplete = c.pullsComplete
          /\ IF latest[n] = G!NoRun
             THEN G!Finish(r, p, {}) /\ p.state = "ok" /\ p.run = c.run
             ELSE G!Project(r, p) /\ G!Goto(r, "jobs") /\ p.run = latest[n]
    BY <1>1, <1>2, <1>4, <1>10, RunRead
  <2>2. dashboardPc[r] = "runs"
    BY <1>10 DEF G!ReadLatestRun, G!At
  <2>3. PullsHold(p, ever[r][n], steady[r][n]) /\ c.run = G!NoRun
        /\ n \notin dashboardJob[r].failed
    BY <2>1, <2>2, <1>1, <1>2, <1>4 DEF Sound, Partial, PullsHold, G!Calls
  <2>4. dashboardJob[r].latest[n] <= latest[n]
    BY <1>4 DEF Tracked
  <2>5. CASE latest[n] = G!NoRun
    <3>1. G!Finish(r, p, {}) /\ p.state = "ok" /\ p.run = G!NoRun
      BY <2>1, <2>3, <2>5
    <3>2. /\ dashboardJob'[r].dashboard[n] = p /\ dashboardJob'[r].failed = dashboardJob[r].failed
          /\ dashboardJob'[r].latest = dashboardJob[r].latest
          /\ dashboardJob'[r].jobs = dashboardJob[r].jobs
          /\ \A s \in Dashboards : s # r =>
               dashboardJob'[s] = dashboardJob[s] /\ dashboardPc'[s] = dashboardPc[s]
      <4>1. dashboardJob[r].dashboard \in [G!Repositories -> G!Projection]
        BY <1>4 DEF G!TypeOK, G!Job
      <4>2. /\ dashboardJob'[r].dashboard = [dashboardJob[r].dashboard EXCEPT ![n] = p]
            /\ dashboardJob'[r].failed = dashboardJob[r].failed \union {}
            /\ dashboardJob'[r].latest = dashboardJob[r].latest
            /\ dashboardJob'[r].jobs = dashboardJob[r].jobs
            /\ \A s \in Dashboards : s # r =>
                 dashboardJob'[s] = dashboardJob[s] /\ dashboardPc'[s] = dashboardPc[s]
        BY <3>1, <1>1, <1>4, FinishEffect
      <4> QED
        BY <4>1, <4>2, <1>1
    <3>3. RunHolds(p, dashboardJob[r].latest[n], latest[n])
      BY <3>1, <2>4, <2>5, <1>6 DEF RunHolds, G!NoRun
    <3>4. Done(r, n)'
      BY <3>1, <3>2, <3>3, <2>3, <1>5
         DEF Done, G!ProjectionIsTrue, PullsHold, RunHolds
    <3>5. Sound(r)'
      BY <1>1, <1>3, <1>4, <3>1, <3>4, SoundFinish
    <3> QED
      BY <3>2, <3>5
  <2>6. CASE latest[n] # G!NoRun
    <3>1. G!Project(r, p) /\ G!Goto(r, "jobs") /\ p.run = latest[n]
      BY <2>1, <2>6
    <3>2. p.run \in G!Runs
      BY <3>1, <2>6, <1>4 DEF G!TypeOK
    <3>3. RunHolds(p, dashboardJob[r].latest[n], latest[n])
      BY <3>1, <2>4, <1>6 DEF RunHolds
    <3>4. /\ dashboardJob'[r].latest = dashboardJob[r].latest
          /\ dashboardJob'[r].jobs = dashboardJob[r].jobs
          /\ \A s \in Dashboards : s # r =>
               dashboardJob'[s] = dashboardJob[s] /\ dashboardPc'[s] = dashboardPc[s]
      BY <3>1, <1>4, ProjectEffect DEF G!Points
    <3>5. RunHolds(p, dashboardJob'[r].latest[n], latest'[n])
      BY <3>3, <3>4, <1>5 DEF RunHolds
    <3>6. Sound(r)'
      BY <1>1, <1>3, <1>4, <2>3, <3>1, <3>2, <3>5, SoundProject
    <3> QED
      BY <3>4, <3>6
  <2> QED
    BY <2>5, <2>6
<1>11. CASE G!ReadTasks(r)
  <2>1. dashboardPc[r] = "jobs"
    BY <1>11 DEF G!ReadTasks, G!At
  <2>2. /\ PullsHold(c, ever[r][n], steady[r][n]) /\ c.run \in G!Runs
        /\ RunHolds(c, dashboardJob[r].latest[n], latest[n])
        /\ n \notin dashboardJob[r].failed
    BY <2>1, <1>1, <1>2, <1>4 DEF Sound, Partial, G!Calls
  <2>3. PICK p \in G!Projection :
          /\ G!Finish(r, p, {}) /\ p.state = "ok" /\ p.run = c.run
          /\ p.pulls = c.pulls /\ p.pullsComplete = c.pullsComplete
          /\ TasksHold(p, jobs[n], jobs[n])
    BY <1>1, <1>2, <1>4, <1>11, <2>2, TasksRead
  <2>4. /\ dashboardJob'[r].dashboard[n] = p /\ dashboardJob'[r].failed = dashboardJob[r].failed
        /\ dashboardJob'[r].latest = dashboardJob[r].latest
        /\ dashboardJob'[r].jobs = dashboardJob[r].jobs
        /\ \A s \in Dashboards : s # r =>
             dashboardJob'[s] = dashboardJob[s] /\ dashboardPc'[s] = dashboardPc[s]
    <3>1. dashboardJob[r].dashboard \in [G!Repositories -> G!Projection]
      BY <1>4 DEF G!TypeOK, G!Job
    <3>2. /\ dashboardJob'[r].dashboard = [dashboardJob[r].dashboard EXCEPT ![n] = p]
          /\ dashboardJob'[r].failed = dashboardJob[r].failed \union {}
          /\ dashboardJob'[r].latest = dashboardJob[r].latest
          /\ dashboardJob'[r].jobs = dashboardJob[r].jobs
          /\ \A s \in Dashboards : s # r =>
               dashboardJob'[s] = dashboardJob[s] /\ dashboardPc'[s] = dashboardPc[s]
      BY <2>3, <1>1, <1>4, FinishEffect
    <3> QED
      BY <3>1, <3>2, <1>1
  <2>5. TasksHold(p, dashboardJob[r].jobs[n], jobs[n])
    <3>1. {p.run} \X (1 .. dashboardJob[r].jobs[n][p.run]) \subseteq {p.run} \X (1 .. jobs[n][p.run])
      <4>1. /\ dashboardJob[r].jobs[n][p.run] \in 0 .. MaxJobs /\ jobs[n][p.run] \in 0 .. MaxJobs
            /\ dashboardJob[r].jobs[n][p.run] <= jobs[n][p.run]
        BY <2>2, <2>3, <1>4 DEF G!TypeOK, G!Job, Tracked
      <4>2. MaxJobs \in Nat
        BY GitHubAssumption
      <4>3. \A x \in 1 .. dashboardJob[r].jobs[n][p.run] : x \in 1 .. jobs[n][p.run]
        BY <4>1, <4>2
      <4> QED
        BY <4>3
    <3> QED
      BY <2>3, <3>1 DEF TasksHold
  <2>6. Done(r, n)'
    BY <2>2, <2>3, <2>4, <2>5, <1>5
       DEF Done, G!ProjectionIsTrue, PullsHold, RunHolds, TasksHold
  <2>7. Sound(r)'
    BY <1>1, <1>3, <1>4, <2>3, <2>6, SoundFinish
  <2> QED
    BY <2>4, <2>7
<1>12. CASE G!CallFails(r) \/ G!TimesOut(r)
  <2>1. G!Finish(r, G!Failed, {n})
    BY <1>1, <1>12 DEF G!TimesOut, G!CallFails
  <2>2. /\ dashboardJob'[r].dashboard[n] = G!Failed
        /\ n \in dashboardJob'[r].failed
        /\ dashboardJob'[r].latest = dashboardJob[r].latest
        /\ dashboardJob'[r].jobs = dashboardJob[r].jobs
        /\ \A s \in Dashboards : s # r =>
             dashboardJob'[s] = dashboardJob[s] /\ dashboardPc'[s] = dashboardPc[s]
    <3>1. dashboardJob[r].dashboard \in [G!Repositories -> G!Projection]
      BY <1>4 DEF G!TypeOK, G!Job
    <3>2. /\ dashboardJob'[r].dashboard = [dashboardJob[r].dashboard EXCEPT ![n] = G!Failed]
          /\ dashboardJob'[r].failed = dashboardJob[r].failed \union {n}
          /\ dashboardJob'[r].latest = dashboardJob[r].latest
          /\ dashboardJob'[r].jobs = dashboardJob[r].jobs
          /\ \A s \in Dashboards : s # r =>
               dashboardJob'[s] = dashboardJob[s] /\ dashboardPc'[s] = dashboardPc[s]
      BY <2>1, <1>1, <1>4, FinishEffect, DashboardRecords
    <3> QED
      BY <3>1, <3>2, <1>1
  <2>3. Done(r, n)'
    BY <2>2 DEF Done, G!Failed, G!Unread
  <2>4. Sound(r)'
    BY <1>1, <1>3, <1>4, <2>1, <2>3, SoundFinish, DashboardRecords
  <2> QED
    BY <2>2, <2>4
<1>13. CASE G!CallRaises(r)
  <2>1. dashboardJob' = [dashboardJob EXCEPT ![r].status = "FAILED"]
    BY <1>13 DEF G!CallRaises
  <2>2. /\ dashboardJob'[r].status = "FAILED"
        /\ dashboardJob'[r].latest = dashboardJob[r].latest
        /\ dashboardJob'[r].jobs = dashboardJob[r].jobs
        /\ \A s \in Dashboards : s # r => dashboardJob'[s] = dashboardJob[s]
    BY <2>1, <1>4 DEF G!TypeOK, G!Job
  <2>3. dashboardPc'[r] = "answer" /\ \A s \in Dashboards : s # r => dashboardPc'[s] = dashboardPc[s]
    BY <1>13, <1>4 DEF G!CallRaises, G!Goto, G!TypeOK
  <2> QED
    BY <2>2, <2>3 DEF Sound, G!Calls
<1> QED
  BY <1>8, <1>9, <1>10, <1>11, <1>12, <1>13 DEF G!CallReturns

\* The steps in which nothing is read.
LEMMA DashboardArrival ==
  ASSUME GInv, G!TypeOK', NEW r \in Dashboards, G!Ask(r) \/ G!Respond(r)
  PROVE  GInv'
<1>1. UNCHANGED <<open, latest, jobs>>
  BY DEF G!Ask, G!Respond, G!github
<1>2. G!NoJob \in G!Job
  BY DashboardRecords
<1>3. ASSUME NEW s \in Dashboards, s # r
      PROVE  Sound(s)' /\ (dashboardPc'[s] # "idle" => Tracked(s)')
  <2>1. /\ dashboardJob'[s] = dashboardJob[s] /\ dashboardPc'[s] = dashboardPc[s]
        /\ steady'[s] = steady[s] /\ ever'[s] = ever[s]
    BY <1>3 DEF G!Ask, G!Respond, G!Goto, GInv, G!TypeOK
  <2> QED
    BY <1>1, <2>1, OtherDashboard
<1>4. CASE G!Respond(r)
  <2>1. dashboardPc'[r] = "idle"
    BY <1>4 DEF G!Respond, G!Goto, GInv, G!TypeOK
  <2> QED
    BY <1>3, <2>1 DEF GInv, Sound, G!Calls
<1>5. CASE G!Ask(r)
  <2>1. /\ dashboardPc'[r] = "metadata" /\ steady'[r] = open /\ ever'[r] = open
        /\ dashboardJob'[r] = [G!NoJob EXCEPT !.latest = latest, !.jobs = jobs]
    BY <1>5 DEF G!Ask, G!Goto, GInv, G!TypeOK
  <2>2. /\ dashboardJob'[r].latest = latest /\ dashboardJob'[r].jobs = jobs
        /\ dashboardJob'[r].next = 1 /\ dashboardJob'[r].failed = {}
        /\ \A n \in G!Repositories : dashboardJob'[r].dashboard[n].run = G!NoRun
    BY <2>1 DEF G!NoJob, G!Unread
  <2>3. \A n \in G!Repositories : latest[n] <= latest[n]
    <3>1. \A n \in G!Repositories : latest[n] \in G!Runs \union {G!NoRun}
      BY DEF GInv, G!TypeOK
    <3> QED
      BY <3>1 DEF G!Runs, G!NoRun
  <2>4. \A n \in G!Repositories, k \in G!Runs : jobs[n][k] <= jobs[n][k]
    <3>1. \A n \in G!Repositories, k \in G!Runs : jobs[n][k] \in 0 .. MaxJobs
      BY DEF GInv, G!TypeOK
    <3> QED
      BY <3>1, GitHubAssumption
  <2>5. Tracked(r)'
    BY <1>1, <2>1, <2>2, <2>3, <2>4 DEF Tracked
  <2>6. 1 \in G!Repositories /\ \A n \in G!Repositories : ~(n < 1)
    BY GitHubAssumption DEF G!Repositories
  <2>7. Partial(r)'
    BY <2>1, <2>2, <2>6 DEF Partial
  <2>8. Sound(r)'
    BY <2>1, <2>2, <2>6, <2>7 DEF Sound, G!Calls
  <2> QED
    BY <1>3, <2>5, <2>8 DEF GInv
<1> QED
  BY <1>4, <1>5

LEMMA DashboardStep ==
  ASSUME GInv, G!Next \/ UNCHANGED tasks
  PROVE  GInv'
<1>1. CASE UNCHANGED tasks
  BY <1>1 DEF tasks, GInv, G!TypeOK, Tracked, Sound, Done, Partial, G!ProjectionIsTrue
<1>2. CASE G!Next
  <2>1. G!TypeOK'
    BY <1>2, DashboardTypesKept
  <2>2. CASE G!Change
    BY <2>1, <2>2, DashboardChange
  <2>3. CASE G!Crash
    <3>1. \A r \in Dashboards : dashboardPc'[r] = "idle"
      BY <2>3 DEF G!Crash
    <3> QED
      BY <2>1, <3>1 DEF GInv, Sound, G!Calls
  <2>4. ASSUME NEW r \in Dashboards,
               G!Ask(r) \/ G!CallReturns(r) \/ G!TimesOut(r) \/ G!Respond(r)
        PROVE  GInv'
    BY <2>1, <2>4, DashboardCall, DashboardArrival
  <2> QED
    BY <1>2, <2>2, <2>3, <2>4 DEF G!Next
<1> QED
  BY <1>1, <1>2

THEOREM DashboardInvariance == Spec => []GInv
<1>1. Init => GInv
  BY DashboardInit DEF Init
<1>2. GInv /\ [Next]_vars => GInv'
  BY TaskSteps, DashboardStep
<1> QED
  BY <1>1, <1>2, PTL DEF Spec

\* An answered dashboard shows every repository but those one of whose own calls
\* failed, and what it says of each holds of GitHub, although up to four calls
\* were made for it while GitHub changed (GitHubTaskReader.read_dashboard).
THEOREM DashboardsAreTrue == Spec => []DashboardIsTrue
<1>1. GInv => DashboardIsTrue
  BY DEF GInv, Sound, Done, DashboardIsTrue, G!DashboardIsTrue, G!At
<1> QED
  BY <1>1, DashboardInvariance, PTL

-------------------------------------------------------------------------------
\* The references.  The store's call is in two steps, which nothing of another
\* request comes between: at "record" it is still known whether the receipt is new.

Upload(r) ==
  LET j == referenceJob[r]
  IN  /\ referencePc[r] \in {"body", "provide", "record"} =>
           j.op = "post" /\ j.status = "OK" /\ j.read <= Limit
      /\ referencePc[r] = "close" =>
           j.op = "post" /\ (j.status = "OK" => j.read <= Limit /\ j.read = Size[j.pdf])
      /\ referencePc[r] \in {"provide", "record"} => j.read = Size[j.pdf]
      /\ referencePc[r] = "record" =>
           /\ j.claim \in RunClaims /\ j.pdf \in objects
           /\ j.duplicate <=> R!ReceiptOf(r) \in records
      /\ referencePc[r] = "answer" /\ j.op = "post" /\ j.status = "OK" =>
           R!ReceiptOf(r) \in records

Listing(r) ==
  LET j == referenceJob[r]
  IN  /\ j.floor \subseteq told
      /\ referencePc[r] = "list" => j.op = "list"
      /\ referencePc[r] = "answer" /\ j.op = "list" /\ j.status = "OK" =>
           j.floor \subseteq j.seen

\* Request r is about to tell its client that receipt x is no duplicate.
Fresh(r, x) ==
  /\ referencePc[r] = "answer"
  /\ referenceJob[r].op = "post" /\ referenceJob[r].status = "OK"
  /\ ~referenceJob[r].duplicate
  /\ R!ReceiptOf(r) = x

FirstOnce ==
  \A x \in R!Receipt :
    /\ firsts[x] <= 1 /\ (firsts[x] = 1 => x \in records)
    /\ \A r \in References : Fresh(r, x) =>
         firsts[x] = 0 /\ \A s \in References : Fresh(s, x) => r = s

StoreHolds ==
  /\ told \subseteq records
  /\ \A x \in records : x[1] \in RunClaims /\ x[2] \in objects /\ Size[x[2]] <= Limit

RInv ==
  /\ R!TypeOK
  /\ StoreHolds
  /\ FirstOnce
  /\ \A r \in References : Upload(r) /\ Listing(r)

LEMMA EmptyJob ==
  /\ R!NoJob \in R!Job
  /\ R!NoJob.floor = {} /\ R!NoJob.op = "list" /\ R!NoJob.read = 0
  BY ReferenceAssumption DEF R!NoJob, R!Job, R!Statuses

LEMMA ReferenceInit ==
  ASSUME R!Init
  PROVE  RInv
<1>1. R!TypeOK
  BY EmptyJob, BoundAssumption DEF R!Init, R!TypeOK, R!Points, R!At
<1>2. \A r \in References : referencePc[r] = "idle" /\ referenceJob[r] = R!NoJob
  BY DEF R!Init
<1>3. StoreHolds
  BY DEF R!Init, StoreHolds
<1>4. FirstOnce
  BY <1>2 DEF R!Init, FirstOnce, Fresh
<1> QED
  BY <1>1, <1>2, <1>3, <1>4, EmptyJob DEF RInv, Upload, Listing

\* Request r goes to a point with a job.  What is left to show of it is what it
\* does to the store, to r and to the count of first answers.
LEMMA ReferenceMove ==
  ASSUME RInv, NEW r \in References, NEW q \in R!Job, NEW point \in R!Points,
         referenceJob' = [referenceJob EXCEPT ![r] = q],
         referencePc' = [referencePc EXCEPT ![r] = point],
         objects' \subseteq Pdfs, records' \subseteq R!Receipt,
         objects \subseteq objects', records \subseteq records', told \subseteq told',
         received' \in 0 .. MaxReceipts, firsts' \in [R!Receipt -> Nat],
         StoreHolds',
         records' = records
           \/ \A s \in References : s # r => referencePc[s] # "record",
         point = "record" => \A s \in References : s # r => referencePc[s] # "record",
         Upload(r)', Listing(r)', FirstOnce'
  PROVE  RInv'
<1>1. /\ referenceJob' \in [References -> R!Job] /\ referencePc' \in [References -> R!Points]
      /\ referenceJob'[r] = q /\ referencePc'[r] = point
      /\ \A s \in References : s # r =>
           referenceJob'[s] = referenceJob[s] /\ referencePc'[s] = referencePc[s]
  BY DEF RInv, R!TypeOK
<1>2. told' \subseteq R!Receipt
  BY DEF StoreHolds
<1>3. ASSUME NEW s \in References, NEW u \in References,
             referencePc'[s] = "record", referencePc'[u] = "record"
      PROVE  s = u
  BY <1>1, <1>3 DEF RInv, R!TypeOK, R!At
<1>4. R!TypeOK'
  BY <1>1, <1>2, <1>3 DEF R!TypeOK, R!At
<1>5. ASSUME NEW s \in References, s # r PROVE Upload(s)' /\ Listing(s)'
  <2>1. Upload(s) /\ Listing(s)
    BY DEF RInv
  <2>2. referenceJob'[s] = referenceJob[s] /\ referencePc'[s] = referencePc[s]
    BY <1>1, <1>5
  <2>3. referencePc[s] = "record" => records' = records
    BY <1>5
  <2>4. R!ReceiptOf(s)' = R!ReceiptOf(s)
    BY <2>2 DEF R!ReceiptOf
  <2> QED
    BY <2>1, <2>2, <2>3, <2>4 DEF Upload, Listing
<1> QED
  BY <1>4, <1>5 DEF RInv

\* No request comes to tell of a receipt.
LEMMA NoNewFirst ==
  ASSUME RInv, NEW r \in References, NEW q \in R!Job, NEW point \in R!Points,
         referenceJob' = [referenceJob EXCEPT ![r] = q],
         referencePc' = [referencePc EXCEPT ![r] = point],
         ~(point = "answer" /\ q.op = "post" /\ q.status = "OK"),
         records \subseteq records', firsts' = firsts
  PROVE  FirstOnce'
<1>1. ASSUME NEW s \in References, NEW x, Fresh(s, x)' PROVE Fresh(s, x)
  <2>1. referenceJob'[r] = q /\ referencePc'[r] = point
        /\ \A u \in References : u # r =>
             referenceJob'[u] = referenceJob[u] /\ referencePc'[u] = referencePc[u]
    BY DEF RInv, R!TypeOK
  <2>2. s # r
    BY <1>1, <2>1 DEF Fresh
  <2> QED
    BY <1>1, <2>1, <2>2 DEF Fresh, R!ReceiptOf
<1> QED
  BY <1>1 DEF RInv, FirstOnce

\* A request arrives.
LEMMA ReferenceArrives ==
  ASSUME RInv, NEW r \in References, R!Post(r) \/ R!Get(r)
  PROVE  RInv'
<1>1. UNCHANGED <<objects, records, told, firsts>> /\ received' \in 0 .. MaxReceipts
  <2>1. UNCHANGED <<objects, records, told, firsts>>
    BY DEF R!Post, R!Get, R!store, R!history
  <2>2. received' = received \/ (received < MaxReceipts /\ received' = received + 1)
    <3>1. CASE R!Post(r)
      BY <3>1 DEF R!Post
    <3>2. CASE R!Get(r)
      BY <3>2 DEF R!Get, R!store, R!history
    <3> QED
      BY <3>1, <3>2
  <2>3. received \in 0 .. MaxReceipts /\ MaxReceipts \in Nat
    BY BoundAssumption DEF RInv, R!TypeOK
  <2> QED
    BY <2>1, <2>2, <2>3
<1>2. told \in SUBSET R!Receipt
  BY DEF RInv, R!TypeOK
<1>3. PICK q, point :
        /\ q \in R!Job /\ point \in R!Points
        /\ referenceJob' = [referenceJob EXCEPT ![r] = q]
        /\ referencePc' = [referencePc EXCEPT ![r] = point]
        /\ q.floor = told /\ q.read = 0
        /\ \/ point = "body" /\ q.op = "post" /\ q.status = "OK"
           \/ point = "answer" /\ q.op = "post" /\ q.status # "OK"
           \/ point = "list" /\ q.op = "list"
  <2>1. CASE R!Post(r)
    <3>1. PICK c \in Claims, p \in Pdfs, code \in {"OK", "UNSUPPORTED"} :
            /\ referenceJob' = [referenceJob EXCEPT ![r] =
                 [R!NoJob EXCEPT !.op = "post", !.claim = c, !.pdf = p,
                                 !.status = code, !.floor = told]]
            /\ R!Goto(r, IF code = "OK" THEN "body" ELSE "answer")
      BY <2>1 DEF R!Post
    <3>2. PICK q : q = [R!NoJob EXCEPT !.op = "post", !.claim = c, !.pdf = p,
                                       !.status = code, !.floor = told]
      OBVIOUS
    <3>3. q \in R!Job /\ q.op = "post" /\ q.status = code /\ q.floor = told /\ q.read = 0
      BY <3>2, <1>2, EmptyJob DEF R!Job, R!Statuses
    <3> QED
      BY <3>1, <3>2, <3>3 DEF R!Goto, R!Points
  <2>2. CASE R!Get(r)
    <3>1. PICK q : q = [R!NoJob EXCEPT !.floor = told]
      OBVIOUS
    <3>2. q \in R!Job /\ q.op = "list" /\ q.floor = told /\ q.read = 0
      BY <3>1, <1>2, EmptyJob DEF R!Job
    <3> QED
      BY <2>2, <3>1, <3>2 DEF R!Get, R!Goto, R!Points
  <2> QED
    BY <2>1, <2>2
<1>4. referenceJob'[r] = q /\ referencePc'[r] = point
  BY <1>3 DEF RInv, R!TypeOK
<1>5. Upload(r)' /\ Listing(r)'
  <2>1. 0 <= Limit
    BY ReferenceAssumption
  <2> QED
    BY <1>1, <1>3, <1>4, <2>1 DEF Upload, Listing
<1>6. FirstOnce'
  BY <1>1, <1>3, NoNewFirst
<1>7. /\ objects \subseteq Pdfs /\ records \subseteq R!Receipt
      /\ firsts \in [R!Receipt -> Nat] /\ StoreHolds'
  BY <1>1 DEF RInv, R!TypeOK, StoreHolds
<1> QED
  BY <1>1, <1>3, <1>5, <1>6, <1>7, ReferenceMove

\* A request reads its body, or is refused, or reads the receipts: the store stays
\* as it is.
LEMMA ReferenceReads ==
  ASSUME RInv, NEW r \in References,
         R!ReadChunk(r) \/ R!EndBody(r) \/ R!Close(r) \/ R!Refuse(r) \/ R!List(r)
  PROVE  RInv'
<1>1. UNCHANGED <<objects, records, told, firsts, received>>
  BY DEF R!ReadChunk, R!EndBody, R!Close, R!Refuse, R!List, R!store, R!history
<1>2. PICK j \in R!Job : j = referenceJob[r]
  BY DEF RInv, R!TypeOK
<1>3. Upload(r) /\ Listing(r)
  BY DEF RInv
<1>4. records \in SUBSET R!Receipt
  BY DEF RInv, R!TypeOK
<1>5. PICK q, point :
        /\ q \in R!Job /\ point \in R!Points
        /\ referenceJob' = [referenceJob EXCEPT ![r] = q]
        /\ referencePc' = [referencePc EXCEPT ![r] = point]
        /\ q.floor = j.floor /\ q.op = j.op /\ q.pdf = j.pdf
        /\ \/ point = "body" /\ j.op = "post" /\ q.status = "OK" /\ q.read <= Limit
           \/ /\ point = "close" /\ j.op = "post"
              /\ q.status = "OK" => q.read <= Limit /\ q.read = Size[q.pdf]
           \/ /\ point = "provide" /\ j.op = "post" /\ q.status = "OK"
              /\ q.read <= Limit /\ q.read = Size[q.pdf]
           \/ point = "answer" /\ j.op = "list" /\ (q.status = "OK" => q.seen = records)
           \/ point = "answer" /\ q.status # "OK"
  <2>1. CASE R!ReadChunk(r)
    <3> PICK read, code : /\ read = j.read + 1
                          /\ code = IF read > Limit THEN "TOO_LARGE" ELSE "OK"
      OBVIOUS
    <3> PICK q : q = [j EXCEPT !.read = read, !.status = code]
      OBVIOUS
    <3>1. read \in Nat /\ code \in R!Statuses
      BY DEF R!Job, R!Statuses
    <3>2. /\ q \in R!Job /\ q.floor = j.floor /\ q.op = j.op /\ q.pdf = j.pdf
          /\ q.read = j.read + 1
          /\ q.status = IF j.read + 1 > Limit THEN "TOO_LARGE" ELSE "OK"
      BY <3>1 DEF R!Job
    <3>3. referenceJob' = [referenceJob EXCEPT ![r] = q]
      BY <2>1, <1>2 DEF R!ReadChunk
    <3>4. referencePc[r] = "body" /\ j.op = "post"
      BY <2>1, <1>2, <1>3 DEF R!ReadChunk, R!At, Upload
    <3>5. CASE j.read + 1 > Limit
      <4>1. referencePc' = [referencePc EXCEPT ![r] = "close"] /\ "close" \in R!Points
        BY <2>1, <1>2, <3>5 DEF R!ReadChunk, R!Goto, R!Points
      <4>2. q.status # "OK"
        BY <3>2, <3>5
      <4> QED
        BY <3>2, <3>3, <3>4, <4>1, <4>2
    <3>6. CASE ~(j.read + 1 > Limit)
      <4>1. referencePc' = [referencePc EXCEPT ![r] = "body"]
        BY <2>1, <1>2, <3>4, <3>6 DEF R!ReadChunk, RInv, R!TypeOK
      <4>2. j.read + 1 <= Limit
        BY <3>6, ReferenceAssumption DEF R!Job
      <4> QED
        BY <4>1, <4>2, <3>2, <3>3, <3>4, <3>6 DEF R!Points
    <3> QED
      BY <3>5, <3>6
  <2>2. CASE R!EndBody(r)
    <3>1. referenceJob' = [referenceJob EXCEPT ![r] = j]
      BY <2>2, <1>2 DEF R!EndBody, RInv, R!TypeOK
    <3>2. /\ referencePc[r] = "body" /\ j.read = Size[j.pdf]
          /\ referencePc' = [referencePc EXCEPT ![r] = "close"]
      BY <2>2, <1>2 DEF R!EndBody, R!At, R!Goto
    <3>3. j.op = "post" /\ j.status = "OK" /\ j.read <= Limit
      BY <3>2, <1>2, <1>3 DEF Upload
    <3> QED
      BY <3>1, <3>2, <3>3, <1>2 DEF R!Points
  <2>5. CASE R!Close(r)
    <3>1. referenceJob' = [referenceJob EXCEPT ![r] = j]
      BY <2>5, <1>2 DEF R!Close, RInv, R!TypeOK
    <3>2. /\ j.op = "post" /\ (j.status = "OK" => j.read <= Limit /\ j.read = Size[j.pdf])
          /\ referencePc' = [referencePc EXCEPT
                                ![r] = IF j.status = "OK" THEN "provide" ELSE "answer"]
      BY <2>5, <1>2, <1>3 DEF R!Close, R!At, R!Goto, Upload
    <3> QED
      BY <3>1, <3>2, <1>2 DEF R!Points
  <2>3. CASE R!Refuse(r)
    <3>1. PICK code \in {"UNAVAILABLE", "INVALID"} : R!Answer(r, code)
      BY <2>3 DEF R!Refuse
    <3>2. PICK q : q = [j EXCEPT !.status = code]
      OBVIOUS
    <3>3. q \in R!Job /\ q.floor = j.floor /\ q.op = j.op /\ q.pdf = j.pdf /\ q.status # "OK"
      BY <3>2 DEF R!Job, R!Statuses
    <3>4. referenceJob' = [referenceJob EXCEPT ![r] = q]
      BY <3>1, <3>2, <1>2 DEF R!Answer, RInv, R!TypeOK
    <3>5. referencePc' = [referencePc EXCEPT ![r] = "answer"] /\ "answer" \in R!Points
      BY <3>1 DEF R!Answer, R!Goto, R!Points
    <3> QED
      BY <3>3, <3>4, <3>5
  <2>4. CASE R!List(r)
    <3>1. referencePc[r] = "list" /\ j.op = "list"
      BY <2>4, <1>2, <1>3 DEF R!List, R!At, Listing
    <3>2. CASE R!Answer(r, "UNAVAILABLE")
      <4>1. PICK q : q = [j EXCEPT !.status = "UNAVAILABLE"]
        OBVIOUS
      <4>2. q \in R!Job /\ q.floor = j.floor /\ q.op = j.op /\ q.pdf = j.pdf
            /\ q.status # "OK"
        BY <4>1 DEF R!Job, R!Statuses
      <4> QED
        BY <3>2, <4>1, <4>2, <1>2 DEF R!Answer, R!Goto, R!Points, RInv, R!TypeOK
    <3>3. CASE referenceJob' = [referenceJob EXCEPT ![r].seen = records] /\ R!Goto(r, "answer")
      <4>1. PICK q : q = [j EXCEPT !.seen = records]
        OBVIOUS
      <4>2. q \in R!Job /\ q.floor = j.floor /\ q.op = j.op /\ q.pdf = j.pdf
            /\ q.seen = records
        BY <4>1, <1>4 DEF R!Job
      <4> QED
        BY <3>1, <3>3, <4>1, <4>2, <1>2 DEF R!Goto, R!Points, RInv, R!TypeOK
    <3> QED
      BY <2>4, <3>2, <3>3 DEF R!List
  <2> QED
    BY <2>1, <2>2, <2>3, <2>4, <2>5
<1>6. referenceJob'[r] = q /\ referencePc'[r] = point
  BY <1>5 DEF RInv, R!TypeOK
<1>7. Upload(r)'
  BY <1>1, <1>5, <1>6 DEF Upload
<1>8. Listing(r)'
  BY <1>1, <1>2, <1>3, <1>5, <1>6 DEF Listing, RInv, StoreHolds
<1>9. FirstOnce'
  BY <1>1, <1>5, NoNewFirst
<1>10. /\ objects \subseteq Pdfs /\ records \subseteq R!Receipt
       /\ firsts \in [R!Receipt -> Nat] /\ received \in 0 .. MaxReceipts /\ StoreHolds'
  BY <1>1 DEF RInv, R!TypeOK, StoreHolds
<1> QED
  BY <1>1, <1>5, <1>7, <1>8, <1>9, <1>10, ReferenceMove

\* The store looks for the receipt and keeps the PDF.
LEMMA ReferenceReceived ==
  ASSUME RInv, NEW r \in References, R!Receive(r)
  PROVE  RInv'
<1>1. PICK j \in R!Job : j = referenceJob[r]
  BY DEF RInv, R!TypeOK
<1>2. UNCHANGED <<records, told, firsts, received>> /\ objects' = objects \union {j.pdf}
  BY <1>1 DEF R!Receive, R!history
<1>3. referencePc[r] = "provide" /\ j.claim \in RunClaims
      /\ \A s \in References : referencePc[s] # "record"
  BY <1>1 DEF R!Receive, R!At, R!LoopFree
<1>4. j.op = "post" /\ j.status = "OK" /\ j.read <= Limit /\ j.read = Size[j.pdf]
  BY <1>1, <1>3 DEF RInv, Upload
<1> PICK b : b = (<<j.claim, j.pdf>> \in records)
  OBVIOUS
<1> b \in BOOLEAN
  OBVIOUS
<1>5. PICK q : q = [j EXCEPT !.duplicate = b]
  OBVIOUS
<1>6. /\ q \in R!Job /\ q.floor = j.floor /\ q.op = j.op /\ q.pdf = j.pdf
      /\ q.read = j.read /\ q.status = j.status /\ q.claim = j.claim
      /\ q.duplicate <=> <<j.claim, j.pdf>> \in records
  BY <1>5 DEF R!Job
<1>7. referenceJob' = [referenceJob EXCEPT ![r] = q]
  BY <1>1, <1>5 DEF R!Receive, R!ReceiptOf, RInv, R!TypeOK
<1>8. referencePc' = [referencePc EXCEPT ![r] = "record"] /\ "record" \in R!Points
  BY DEF R!Receive, R!Goto, R!Points
<1>9. referenceJob'[r] = q /\ referencePc'[r] = "record"
  BY <1>7, <1>8 DEF RInv, R!TypeOK
<1>10. R!ReceiptOf(r)' = <<j.claim, j.pdf>>
  BY <1>6, <1>9 DEF R!ReceiptOf
<1>11. Upload(r)'
  BY <1>2, <1>3, <1>4, <1>6, <1>9, <1>10 DEF Upload
<1>12. Listing(r)'
  BY <1>1, <1>2, <1>6, <1>9 DEF Listing, RInv
<1>13. FirstOnce'
  BY <1>2, <1>6, <1>7, <1>8, NoNewFirst
<1>14. /\ objects' \subseteq Pdfs /\ records \subseteq R!Receipt
       /\ firsts \in [R!Receipt -> Nat] /\ received \in 0 .. MaxReceipts
  BY <1>2 DEF RInv, R!TypeOK, R!Job
<1>15. StoreHolds'
  BY <1>2 DEF RInv, StoreHolds
<1> QED
  BY <1>2, <1>3, <1>6, <1>7, <1>8, <1>11, <1>12, <1>13, <1>14, <1>15, ReferenceMove

\* It keeps the receipt; a new one has been told to nobody, and nobody is about
\* to tell of it.
LEMMA ReferenceKept ==
  ASSUME RInv, NEW r \in References, R!KeepRecord(r)
  PROVE  RInv'
<1>1. PICK j \in R!Job : j = referenceJob[r]
  BY DEF RInv, R!TypeOK
<1>2. PICK x \in R!Receipt : x = R!ReceiptOf(r) /\ x = <<j.claim, j.pdf>>
  BY <1>1 DEF R!ReceiptOf, R!Receipt, R!Job
<1>3. /\ UNCHANGED <<objects, told, firsts, received, referenceJob>>
      /\ records' = records \union {x}
  BY <1>2 DEF R!KeepRecord, R!history
<1>4. referencePc[r] = "record" /\ \A s \in References : s # r => referencePc[s] # "record"
  BY DEF R!KeepRecord, R!At, RInv, R!TypeOK
<1>5. /\ j.op = "post" /\ j.status = "OK" /\ Size[j.pdf] <= Limit
      /\ j.claim \in RunClaims /\ j.pdf \in objects
      /\ j.duplicate <=> x \in records
  BY <1>1, <1>2, <1>4 DEF RInv, Upload
<1>6. referenceJob' = [referenceJob EXCEPT ![r] = j]
  BY <1>1, <1>3 DEF RInv, R!TypeOK
<1>7. referencePc' = [referencePc EXCEPT ![r] = "answer"] /\ "answer" \in R!Points
  BY DEF R!KeepRecord, R!Goto, R!Points
<1>8. referenceJob'[r] = j /\ referencePc'[r] = "answer" /\ R!ReceiptOf(r)' = x
  BY <1>1, <1>2, <1>6, <1>7 DEF RInv, R!TypeOK, R!ReceiptOf
<1>9. Upload(r)'
  BY <1>3, <1>8 DEF Upload
<1>10. Listing(r)'
  BY <1>1, <1>3, <1>5, <1>8 DEF Listing, RInv
<1>11. FirstOnce'
  <2>1. ASSUME NEW s \in References, s # r, NEW y, Fresh(s, y)' PROVE Fresh(s, y) /\ y \in records
    <3>1. Fresh(s, y)
      BY <1>3, <1>7, <2>1 DEF Fresh, R!ReceiptOf, RInv, R!TypeOK
    <3> QED
      BY <3>1 DEF Fresh, RInv, Upload
  <2>2. ASSUME NEW y, Fresh(r, y)' PROVE y = x /\ x \notin records
    BY <1>5, <1>8, <2>2 DEF Fresh
  <2>3. x \notin records => firsts[x] = 0
    <3>1. firsts[x] \in Nat /\ firsts[x] <= 1 /\ (firsts[x] = 1 => x \in records)
      BY DEF RInv, FirstOnce, R!TypeOK
    <3> QED
      BY <3>1
  <2>4. ASSUME NEW y \in R!Receipt, NEW s \in References, Fresh(s, y)'
        PROVE  firsts[y] = 0 /\ \A u \in References : Fresh(u, y)' => s = u
    <3>1. CASE s = r
      BY <2>1, <2>2, <2>3, <2>4, <3>1
    <3>2. CASE s # r
      <4>1. Fresh(s, y) /\ y \in records
        BY <2>1, <2>4, <3>2
      <4>2. ASSUME NEW u \in References, Fresh(u, y)' PROVE s = u
        <5>1. u # r
          BY <2>2, <4>1, <4>2
        <5>2. Fresh(u, y)
          BY <2>1, <4>2, <5>1
        <5> QED
          BY <4>1, <5>2 DEF RInv, FirstOnce
      <4> QED
        BY <4>1, <4>2 DEF RInv, FirstOnce
    <3> QED
      BY <3>1, <3>2
  <2> QED
    BY <1>3, <2>4 DEF FirstOnce, RInv
<1>12. StoreHolds'
  BY <1>2, <1>3, <1>5 DEF RInv, StoreHolds
<1>13. /\ objects \subseteq Pdfs /\ records' \subseteq R!Receipt
       /\ firsts \in [R!Receipt -> Nat] /\ received \in 0 .. MaxReceipts
  BY <1>3 DEF RInv, R!TypeOK
<1> QED
  BY <1>3, <1>4, <1>6, <1>7, <1>9, <1>10, <1>11, <1>12, <1>13, ReferenceMove

\* A client is answered.
LEMMA ReferenceAnswered ==
  ASSUME RInv, NEW r \in References, R!Respond(r)
  PROVE  RInv'
<1>1. PICK j \in R!Job : j = referenceJob[r]
  BY DEF RInv, R!TypeOK
<1>2. PICK x \in R!Receipt : x = R!ReceiptOf(r)
  BY <1>1 DEF R!ReceiptOf, R!Receipt, R!Job
<1>3. UNCHANGED <<objects, records, received>> /\ referencePc[r] = "answer"
  BY DEF R!Respond, R!store, R!At
<1>4. /\ referenceJob' = [referenceJob EXCEPT ![r] = R!NoJob] /\ R!NoJob \in R!Job
      /\ referencePc' = [referencePc EXCEPT ![r] = "idle"] /\ "idle" \in R!Points
  BY EmptyJob DEF R!Respond, R!Goto, R!Points
<1>5. referenceJob'[r] = R!NoJob /\ referencePc'[r] = "idle"
  BY <1>4 DEF RInv, R!TypeOK
<1>6. SUFFICES (told' = told \/ (x \in records /\ told' = told \union {x}))
               /\ firsts' \in [R!Receipt -> Nat] /\ FirstOnce'
  <2>1. /\ objects' \subseteq Pdfs /\ records' \subseteq R!Receipt /\ told \subseteq told'
        /\ received' \in 0 .. MaxReceipts /\ StoreHolds'
    BY <1>3, <1>6 DEF RInv, R!TypeOK, StoreHolds
  <2>2. Upload(r)' /\ Listing(r)'
    BY <1>5, EmptyJob DEF Upload, Listing
  <2> QED
    BY <1>3, <1>4, <1>6, <2>1, <2>2, ReferenceMove
<1>7. CASE j.op = "post" /\ j.status = "OK"
  <2>1. x \in records
    BY <1>1, <1>2, <1>3, <1>7 DEF RInv, Upload
  <2>2. told' = told \union {x}
    BY <1>1, <1>2, <1>7 DEF R!Respond
  <2>3. CASE j.duplicate
    <3>1. firsts' = firsts
      BY <1>1, <1>7, <2>3 DEF R!Respond
    <3>2. FirstOnce'
      BY <1>3, <1>4, <3>1, NoNewFirst
    <3> QED
      BY <2>1, <2>2, <3>1, <3>2 DEF RInv, R!TypeOK
  <2>4. CASE ~j.duplicate
    <3>1. firsts' = [firsts EXCEPT ![x] = @ + 1]
      BY <1>1, <1>2, <1>3, <1>7, <2>4 DEF R!Respond, R!At
    <3>2. Fresh(r, x)
      BY <1>1, <1>2, <1>3, <1>7, <2>4 DEF Fresh
    <3>3. firsts[x] = 0 /\ firsts \in [R!Receipt -> Nat]
      BY <3>2 DEF RInv, FirstOnce, R!TypeOK
    <3>4. ASSUME NEW s \in References, NEW y \in R!Receipt, Fresh(s, y)'
          PROVE  Fresh(s, y) /\ y # x
      <4>1. s # r
        BY <1>5, <3>4 DEF Fresh
      <4>2. Fresh(s, y)
        BY <1>4, <3>4, <4>1 DEF Fresh, R!ReceiptOf, RInv, R!TypeOK
      <4> QED
        BY <3>2, <4>1, <4>2 DEF RInv, FirstOnce
    <3>5. firsts'[x] = 1 /\ firsts' \in [R!Receipt -> Nat]
          /\ \A y \in R!Receipt : y # x => firsts'[y] = firsts[y]
      BY <3>1, <3>3
    <3>6. FirstOnce'
      BY <1>3, <2>1, <3>4, <3>5 DEF RInv, FirstOnce
    <3> QED
      BY <2>1, <2>2, <3>5, <3>6
  <2> QED
    BY <2>3, <2>4
<1>8. CASE ~(j.op = "post" /\ j.status = "OK")
  <2>1. UNCHANGED <<told, firsts>>
    BY <1>1, <1>8 DEF R!Respond
  <2>2. FirstOnce'
    BY <1>3, <1>4, <2>1, EmptyJob, NoNewFirst
  <2> QED
    BY <2>1, <2>2 DEF RInv, R!TypeOK
<1> QED
  BY <1>7, <1>8

LEMMA ReferenceStep ==
  ASSUME RInv, R!Next \/ UNCHANGED references
  PROVE  RInv'
<1>1. CASE UNCHANGED references
  BY <1>1 DEF references, RInv, R!TypeOK, R!At, StoreHolds, FirstOnce, Fresh, R!ReceiptOf,
              Upload, Listing
<1>2. CASE R!Crash
  <2>1. UNCHANGED <<objects, records, received, told, firsts>>
    BY <1>2 DEF R!Crash, R!store, R!history
  <2>2. \A r \in References : referencePc'[r] = "idle" /\ referenceJob'[r] = R!NoJob
    BY <1>2 DEF R!Crash
  <2>3. R!TypeOK'
    BY <1>2, <2>1, <2>2, EmptyJob DEF RInv, R!TypeOK, R!Crash, R!Points, R!At
  <2>4. StoreHolds' /\ FirstOnce'
    BY <2>1, <2>2 DEF RInv, StoreHolds, FirstOnce, Fresh
  <2> QED
    BY <2>2, <2>3, <2>4, EmptyJob DEF RInv, Upload, Listing
<1>3. ASSUME NEW r \in References,
             \/ R!Post(r) \/ R!ReadChunk(r) \/ R!Provide(r)
             \/ R!Get(r) \/ R!List(r) \/ R!Respond(r)
      PROVE  RInv'
  BY <1>3, ReferenceArrives, ReferenceReads, ReferenceReceived, ReferenceKept,
     ReferenceAnswered DEF R!Provide
<1> QED
  BY <1>1, <1>2, <1>3 DEF R!Next

THEOREM ReferenceInvariance == Spec => []RInv
<1>1. Init => RInv
  BY ReferenceInit DEF Init
<1>2. RInv /\ [Next]_vars => RInv'
  BY ReferenceSteps, ReferenceStep
<1> QED
  BY <1>1, <1>2, PTL DEF Spec

\* A receipt a client was told stands, and of all who provide one PDF for one
\* claim at most one is told that it is new: what keeps two of them apart is that
\* provide_reference_file awaits nothing between looking for the receipt and
\* keeping it.
THEOREM ReceiptsAlwaysStand == Spec => []ReceiptsStand
<1>1. RInv => ReceiptsStand
  BY DEF RInv, StoreHolds, FirstOnce, Listing, ReceiptsStand, R!ReceiptsStand, R!At
<1> QED
  BY <1>1, ReferenceInvariance, PTL

-------------------------------------------------------------------------------
\* The pool.

Everyone == Dashboards \union References

\* Who waits for a thread is at a point where he needs one, and who has one is
\* not idle.
Waits(r) ==
  \/ r \in Dashboards /\ dashboardPc[r] = "metadata"
  \/ r \in References /\ referencePc[r] \in {"body", "close", "list"}

Works(r) ==
  \/ r \in Dashboards /\ dashboardPc[r] # "idle"
  \/ r \in References /\ referencePc[r] \in {"body", "close", "list", "answer"}

PInv ==
  /\ queue \in Seq(Everyone)
  /\ threads \subseteq Everyone /\ IsFiniteSet(threads) /\ Cardinality(threads) <= PoolSize
  /\ \A i, j \in 1 .. Len(queue) : queue[i] = queue[j] => i = j
  /\ \A i \in 1 .. Len(queue) : queue[i] \notin threads
  /\ \A r \in Everyone : Waiting(r) => Waits(r)
  /\ \A r \in threads : Works(r)

\* The step concerns no request but r.
Only(r) ==
  /\ \A s \in Dashboards : s # r => dashboardPc'[s] = dashboardPc[s]
  /\ \A s \in References : s # r => referencePc'[s] = referencePc[s]

LEMMA OthersStand ==
  ASSUME NEW r, Only(r), NEW s \in Everyone, s # r
  PROVE  (Waits(s)' <=> Waits(s)) /\ (Works(s)' <=> Works(s))
  BY DEF Only, Waits, Works

LEMMA WhoWaitsWorks ==
  ASSUME NEW r, Waits(r)
  PROVE  Works(r)
  BY DEF Waits, Works

\* Request r goes on where it is: in its thread, or in the event loop.
LEMMA PoolStands ==
  ASSUME PInv, NEW r \in Everyone, Only(r), UNCHANGED pool,
         (r \in threads /\ Works(r)') \/ ~Works(r)
  PROVE  PInv'
<1>1. queue' = queue /\ threads' = threads
  BY DEF pool
<1>2. ~Waiting(r)
  BY WhoWaitsWorks DEF PInv, Waiting
<1>3. ASSUME NEW s \in Everyone, Waiting(s) PROVE Waits(s)'
  BY <1>2, <1>3, OthersStand DEF PInv
<1>4. ASSUME NEW s \in threads PROVE Works(s)'
  BY <1>4, OthersStand DEF PInv
<1> QED
  BY <1>1, <1>3, <1>4 DEF PInv, Waiting

\* Request r, which has a thread or needs none, gives it back.
LEMMA PoolReleased ==
  ASSUME PInv, NEW r \in Everyone, Only(r), Release(r), r \in threads \/ ~Waits(r)
  PROVE  PInv'
<1>1. queue' = queue /\ threads' = threads \ {r}
  BY DEF Release
<1>2. ~Waiting(r)
  BY DEF PInv, Waiting
<1>3. IsFiniteSet(threads') /\ Cardinality(threads') <= PoolSize
  <2>1. IsFiniteSet(threads) /\ threads' \in SUBSET threads
    BY <1>1 DEF PInv
  <2>2. IsFiniteSet(threads') /\ Cardinality(threads') <= Cardinality(threads)
    BY <2>1, FS_Subset
  <2>3. Cardinality(threads) \in Nat /\ Cardinality(threads') \in Nat
    BY <2>1, <2>2, FS_CardinalityType
  <2>4. Cardinality(threads) <= PoolSize /\ PoolSize \in Nat
    BY PoolAssumption DEF PInv
  <2> QED
    BY <2>2, <2>3, <2>4
<1>4. ASSUME NEW s \in Everyone, Waiting(s) PROVE Waits(s)'
  BY <1>2, <1>4, OthersStand DEF PInv
<1>5. ASSUME NEW s \in threads' PROVE Works(s)'
  BY <1>1, <1>5, OthersStand DEF PInv
<1> QED
  BY <1>1, <1>3, <1>4, <1>5 DEF PInv, Waiting

\* Request r, which has a thread or has not been in the pool, waits for one.
LEMMA PoolEntered ==
  ASSUME PInv, NEW r \in Everyone, Only(r), Waits(r)', r \in threads \/ ~Works(r),
         queue' = Append(queue, r), threads' = threads \ {r}
  PROVE  PInv'
<1>1. ~Waiting(r)
  BY WhoWaitsWorks DEF PInv, Waiting
<1>2. /\ queue' \in Seq(Everyone) /\ Len(queue') = Len(queue) + 1 /\ Len(queue) \in Nat
      /\ \A i \in 1 .. Len(queue') :
           queue'[i] = IF i = Len(queue) + 1 THEN r ELSE queue[i]
  BY DEF PInv
<1>3. \A i \in 1 .. Len(queue') : i = Len(queue) + 1 \/ i \in 1 .. Len(queue)
  BY <1>2
<1>4. \A i, j \in 1 .. Len(queue') : queue'[i] = queue'[j] => i = j
  <2> SUFFICES ASSUME NEW i \in 1 .. Len(queue'), NEW j \in 1 .. Len(queue'),
                      queue'[i] = queue'[j]
               PROVE  i = j
    OBVIOUS
  <2>1. CASE i = Len(queue) + 1 /\ j = Len(queue) + 1
    BY <2>1
  <2>2. CASE i # Len(queue) + 1 /\ j # Len(queue) + 1
    BY <1>2, <1>3, <2>2 DEF PInv
  <2>3. CASE i = Len(queue) + 1 /\ j # Len(queue) + 1
    BY <1>1, <1>2, <1>3, <2>3 DEF Waiting
  <2>4. CASE i # Len(queue) + 1 /\ j = Len(queue) + 1
    BY <1>1, <1>2, <1>3, <2>4 DEF Waiting
  <2> QED
    BY <2>1, <2>2, <2>3, <2>4
<1>5. \A i \in 1 .. Len(queue') : queue'[i] \notin threads'
  BY <1>2, <1>3 DEF PInv
<1>6. threads' \subseteq Everyone /\ IsFiniteSet(threads') /\ Cardinality(threads') <= PoolSize
  <2>1. IsFiniteSet(threads) /\ threads' \in SUBSET threads
    BY DEF PInv
  <2>2. IsFiniteSet(threads') /\ Cardinality(threads') <= Cardinality(threads)
    BY <2>1, FS_Subset
  <2>3. Cardinality(threads) \in Nat /\ Cardinality(threads') \in Nat
    BY <2>1, <2>2, FS_CardinalityType
  <2>4. Cardinality(threads) <= PoolSize /\ PoolSize \in Nat /\ threads \subseteq Everyone
    BY PoolAssumption DEF PInv
  <2> QED
    BY <2>1, <2>2, <2>3, <2>4
<1>7. ASSUME NEW s \in Everyone, Waiting(s)' PROVE Waits(s)'
  <2>1. s = r \/ Waiting(s)
    BY <1>2, <1>3, <1>7 DEF Waiting
  <2>2. CASE s # r
    BY <2>1, <2>2, OthersStand DEF PInv
  <2> QED
    BY <2>2
<1>8. ASSUME NEW s \in threads' PROVE Works(s)'
  BY <1>8, OthersStand DEF PInv
<1> QED
  BY <1>2, <1>4, <1>5, <1>6, <1>7, <1>8 DEF PInv

\* The request that has waited longest gets a thread.
LEMMA PoolTaken ==
  ASSUME PInv, TakeThread
  PROVE  PInv'
<1>1. /\ queue # <<>> /\ queue' = Tail(queue) /\ threads' = threads \union {Head(queue)}
      /\ Cardinality(threads) < PoolSize /\ UNCHANGED <<dashboardPc, referencePc>>
  BY DEF TakeThread, tasks, references
<1>2. /\ queue' \in Seq(Everyone) /\ Len(queue') = Len(queue) - 1
      /\ Len(queue) \in Nat /\ Len(queue) > 0
      /\ \A i \in 1 .. Len(queue') : queue'[i] = queue[i + 1] /\ i + 1 \in 1 .. Len(queue)
      /\ Head(queue) = queue[1] /\ 1 \in 1 .. Len(queue) /\ Head(queue) \in Everyone
  BY <1>1 DEF PInv
<1>3. IsFiniteSet(threads') /\ Cardinality(threads') <= PoolSize /\ threads' \subseteq Everyone
  <2>1. IsFiniteSet(threads')
        /\ Cardinality(threads') = IF Head(queue) \in threads THEN Cardinality(threads)
                                   ELSE Cardinality(threads) + 1
    BY <1>1, FS_AddElement DEF PInv
  <2>2. Cardinality(threads) \in Nat /\ PoolSize \in Nat
    BY FS_CardinalityType, PoolAssumption DEF PInv
  <2> QED
    BY <1>1, <1>2, <2>1, <2>2 DEF PInv
<1>4. \A i, j \in 1 .. Len(queue') : queue'[i] = queue'[j] => i = j
  <2> SUFFICES ASSUME NEW i \in 1 .. Len(queue'), NEW j \in 1 .. Len(queue'),
                      queue'[i] = queue'[j]
               PROVE  i = j
    OBVIOUS
  <2>1. i + 1 = j + 1
    BY <1>2 DEF PInv
  <2> QED
    BY <2>1
<1>5. \A i \in 1 .. Len(queue') : queue'[i] \notin threads'
  <2> SUFFICES ASSUME NEW i \in 1 .. Len(queue'), queue'[i] \in threads'
               PROVE  FALSE
    OBVIOUS
  <2>1. queue[i + 1] \notin threads
    BY <1>2 DEF PInv
  <2>2. queue[i + 1] = queue[1]
    BY <1>1, <1>2, <2>1
  <2>3. i + 1 = 1
    BY <1>2, <2>2 DEF PInv
  <2> QED
    BY <2>3
<1>6. \A s : (Waits(s)' <=> Waits(s)) /\ (Works(s)' <=> Works(s))
  BY <1>1 DEF Waits, Works
<1>7. ASSUME NEW s \in Everyone, Waiting(s)' PROVE Waits(s)'
  <2>1. Waiting(s)
    BY <1>2, <1>7 DEF Waiting
  <2> QED
    BY <1>6, <2>1 DEF PInv
<1>8. ASSUME NEW s \in threads' PROVE Works(s)'
  <2>1. Waits(Head(queue))
    BY <1>2 DEF PInv, Waiting
  <2> QED
    BY <1>1, <1>6, <1>8, <2>1, WhoWaitsWorks DEF PInv
<1> QED
  BY <1>2, <1>3, <1>4, <1>5, <1>7, <1>8 DEF PInv

LEMMA PoolInit ==
  ASSUME Init
  PROVE  PInv
<1>1. queue = <<>> /\ threads = {} /\ Len(queue) = 0
  BY DEF Init
<1>2. IsFiniteSet({}) /\ Cardinality({}) = 0 /\ 0 <= PoolSize
  BY FS_EmptySet, PoolAssumption
<1> QED
  BY <1>1, <1>2 DEF PInv, Waiting

LEMMA PoolDashboards ==
  ASSUME GInv, PInv, NEW r \in Dashboards,
         AskDashboard(r) \/ CallReturns(r) \/ ServeDashboard(r)
  PROVE  PInv'
<1>1. r \in Everyone /\ r \notin References
  BY RequestAssumption DEF Everyone
<1>2. dashboardPc \in [Dashboards -> G!Points]
  BY DEF GInv, G!TypeOK
<1>3. UNCHANGED referencePc
  BY DEF AskDashboard, CallReturns, ServeDashboard, TimesOut, AnswerDashboard, references
<1>4. CASE AskDashboard(r)
  <2>1. dashboardPc[r] = "idle" /\ dashboardPc' = [dashboardPc EXCEPT ![r] = "metadata"]
    BY <1>4 DEF AskDashboard, G!Ask, G!At, G!Goto
  <2>2. Only(r) /\ Waits(r)' /\ ~Works(r)
    BY <1>1, <1>2, <1>3, <2>1 DEF Only, Waits, Works
  <2>3. queue' = Append(queue, r) /\ threads' = threads \ {r}
    BY <1>4, <2>2 DEF AskDashboard, Enqueue, PInv
  <2> QED
    BY <1>1, <2>2, <2>3, PoolEntered
<1>5. CASE CallReturns(r) \/ TimesOut(r)
  <2>1. r \in threads /\ UNCHANGED pool
    BY <1>5 DEF CallReturns, TimesOut
  <2>2. PICK point \in {"metadata", "pulls", "runs", "jobs", "answer"} : G!Goto(r, point)
    BY <1>5 DEF CallReturns, TimesOut, G!CallReturns, G!TimesOut, G!ReadMetadata, G!ReadPulls,
                G!ReadLatestRun, G!ReadTasks, G!CallFails, G!CallRaises, G!Finish
  <2>3. Only(r) /\ Works(r)'
    BY <1>2, <1>3, <2>2 DEF Only, Works, G!Goto
  <2> QED
    BY <1>1, <2>1, <2>3, PoolStands
<1>6. CASE AnswerDashboard(r)
  <2>1. dashboardPc[r] = "answer" /\ dashboardPc' = [dashboardPc EXCEPT ![r] = "idle"]
    BY <1>6 DEF AnswerDashboard, G!Respond, G!At, G!Goto
  <2>2. Only(r) /\ ~Waits(r) /\ Release(r)
    BY <1>1, <1>2, <1>3, <1>6, <2>1 DEF Only, Waits, AnswerDashboard
  <2> QED
    BY <1>1, <2>2, PoolReleased
<1> QED
  BY <1>4, <1>5, <1>6 DEF ServeDashboard

LEMMA PoolReferences ==
  ASSUME RInv, PInv, NEW r \in References,
         AskList(r) \/ PostReference(r) \/ ServeReference(r)
  PROVE  PInv'
<1>1. r \in Everyone /\ r \notin Dashboards
  BY RequestAssumption DEF Everyone
<1>2. referencePc \in [References -> R!Points]
  BY DEF RInv, R!TypeOK
<1>3. UNCHANGED dashboardPc
  BY DEF AskList, PostReference, ServeReference, ReadList, UseFile, StoreReference,
         AnswerReference, tasks
<1>4. ASSUME NEW point, referencePc' = [referencePc EXCEPT ![r] = point]
      PROVE  /\ Only(r) /\ referencePc'[r] = point
             /\ point \in {"body", "close", "list"} => Waits(r)'
             /\ point \in {"body", "close", "list", "answer"} => Works(r)'
  BY <1>2, <1>3, <1>4 DEF Only, Waits, Works
<1>5. CASE AskList(r)
  <2>1. referencePc[r] = "idle" /\ referencePc' = [referencePc EXCEPT ![r] = "list"]
    BY <1>5 DEF AskList, R!Get, R!At, R!Goto
  <2>2. Only(r) /\ Waits(r)' /\ ~Works(r)
    BY <1>1, <1>4, <2>1 DEF Works
  <2>3. queue' = Append(queue, r) /\ threads' = threads \ {r}
    BY <1>5, <2>2 DEF AskList, Enqueue, PInv
  <2> QED
    BY <1>1, <2>2, <2>3, PoolEntered
<1>6. CASE PostReference(r)
  <2>1. PICK point \in {"body", "answer"} :
          referencePc' = [referencePc EXCEPT ![r] = point]
    BY <1>6 DEF PostReference, R!Post, R!Goto
  <2>2. referencePc[r] = "idle" /\ Only(r) /\ ~Works(r) /\ referencePc'[r] = point
    BY <1>1, <1>4, <1>6, <2>1 DEF PostReference, R!Post, R!At, Works
  <2>3. CASE point = "body"
    <3>1. queue' = Append(queue, r) /\ threads' = threads \ {r}
      BY <1>6, <2>2, <2>3 DEF PostReference, Enqueue, PInv, R!At
    <3> QED
      BY <1>1, <1>4, <2>1, <2>2, <2>3, <3>1, PoolEntered
  <2>4. CASE point = "answer"
    <3>1. UNCHANGED pool
      BY <1>6, <2>2, <2>4 DEF PostReference, R!At
    <3> QED
      BY <1>1, <2>2, <3>1, PoolStands
  <2> QED
    BY <2>3, <2>4
<1>7. CASE ReadList(r)
  <2>1. r \in threads /\ UNCHANGED pool
        /\ referencePc' = [referencePc EXCEPT ![r] = "answer"]
    BY <1>7 DEF ReadList, R!List, R!Answer, R!Goto
  <2> QED
    BY <1>1, <1>4, <2>1, PoolStands
<1>8. CASE UseFile(r)
  <2>1. PICK point \in {"body", "close", "provide", "answer"} :
          /\ referencePc' = [referencePc EXCEPT ![r] = point]
          /\ point = "answer" => referenceJob'[r].op = "post"
    <3>1. CASE R!ReadChunk(r)
      <4>1. referencePc' = [referencePc EXCEPT ![r] = "body"]
              \/ referencePc' = [referencePc EXCEPT ![r] = "close"]
        BY <1>2, <3>1 DEF R!ReadChunk, R!At, R!Goto
      <4> QED
        BY <4>1
    <3>2. CASE R!EndBody(r)
      BY <3>2 DEF R!EndBody, R!Goto
    <3>3. CASE R!Close(r)
      BY <3>3 DEF R!Close, R!Goto, R!At, RInv, Upload
    <3> QED
      BY <1>8, <3>1, <3>2, <3>3 DEF UseFile
  <2>2. Only(r) /\ referencePc'[r] = point /\ r \in threads /\ threads' = threads \ {r}
        /\ queue' = IF point \in {"body", "close"} THEN Append(queue, r) ELSE queue
    BY <1>4, <1>8, <2>1 DEF UseFile, NeedsThread, R!At
  <2>3. CASE point \in {"body", "close"}
    BY <1>1, <1>4, <2>1, <2>2, <2>3, PoolEntered
  <2>4. CASE point \notin {"body", "close"}
    BY <1>1, <2>2, <2>4, PoolReleased DEF Release
  <2> QED
    BY <2>3, <2>4
<1>9. CASE StoreReference(r)
  <2>1. referencePc[r] \in {"provide", "record"} /\ UNCHANGED pool
    BY <1>9 DEF StoreReference, R!Refuse, R!Receive, R!KeepRecord, R!At
  <2>2. PICK point : referencePc' = [referencePc EXCEPT ![r] = point]
    BY <1>9 DEF StoreReference, R!Refuse, R!Receive, R!KeepRecord, R!Answer, R!Goto
  <2>3. Only(r) /\ ~Works(r)
    BY <1>1, <1>4, <2>1, <2>2 DEF Works
  <2> QED
    BY <1>1, <2>1, <2>3, PoolStands
<1>10. CASE AnswerReference(r)
  <2>1. referencePc[r] = "answer" /\ referencePc' = [referencePc EXCEPT ![r] = "idle"]
    BY <1>10 DEF AnswerReference, R!Respond, R!At, R!Goto
  <2>2. Only(r) /\ ~Waits(r) /\ Release(r)
    BY <1>1, <1>4, <1>10, <2>1 DEF Waits, AnswerReference
  <2> QED
    BY <1>1, <2>2, PoolReleased
<1> QED
  BY <1>5, <1>6, <1>7, <1>8, <1>9, <1>10 DEF ServeReference

LEMMA PoolStep ==
  ASSUME GInv, RInv, PInv, [Next]_vars
  PROVE  PInv'
<1>1. CASE Change \/ UNCHANGED vars
  <2>1. UNCHANGED <<dashboardPc, referencePc, queue, threads>>
    BY <1>1 DEF Change, G!Change, references, tasks, pool, vars
  <2> QED
    BY <2>1 DEF PInv, Waiting, Waits, Works
<1>2. CASE Crash
  <2>1. queue' = <<>> /\ threads' = {} /\ Len(queue') = 0
    BY <1>2 DEF Crash
  <2>2. IsFiniteSet({}) /\ Cardinality({}) = 0 /\ 0 <= PoolSize
    BY FS_EmptySet, PoolAssumption
  <2> QED
    BY <2>1, <2>2 DEF PInv, Waiting
<1>3. CASE TakeThread
  BY <1>3, PoolTaken
<1> QED
  BY <1>1, <1>2, <1>3, PoolDashboards, PoolReferences DEF Next

\* Types are kept, the pool never has more threads than it may, and no request
\* waits for a second one.
THEOREM TypeCorrect == Spec => []TypeOK
<1>1. Init => PInv
  BY PoolInit
<1>2. GInv /\ RInv /\ PInv /\ [Next]_vars => PInv'
  BY PoolStep
<1>3. GInv /\ RInv /\ PInv => TypeOK
  BY DEF GInv, RInv, PInv, TypeOK, Everyone
<1> QED
  BY <1>1, <1>2, <1>3, DashboardInvariance, ReferenceInvariance, PTL DEF Spec

-------------------------------------------------------------------------------
\* Nobody is forgotten.

\* Request r is known to the pool.
Has(r) == r \in threads \/ Waiting(r)

\* Which requests the pool has to know, and which it must not.
NeedsPool(r) ==
  \/ r \in Dashboards /\ dashboardPc[r] # "idle"
  \/ r \in References /\ referencePc[r] \in {"body", "close", "list"}

LeftPool(r) ==
  /\ r \in References
  /\ \/ referencePc[r] \in {"idle", "provide", "record"}
     \/ referencePc[r] = "answer" /\ referenceJob[r].op = "post"

FInv ==
  /\ \A r \in Everyone : NeedsPool(r) => Has(r)
  /\ \A r \in Everyone : LeftPool(r) => ~Has(r)

\* A request that is added to the queue waits, and so do those before it.
LEMMA AppendWaits ==
  ASSUME queue \in Seq(Everyone), NEW r \in Everyone, queue' = Append(queue, r)
  PROVE  Waiting(r)' /\ \A s : s # r => (Waiting(s)' <=> Waiting(s))
<1>1. /\ Len(queue') = Len(queue) + 1 /\ Len(queue) \in Nat
      /\ \A i \in 1 .. Len(queue) : queue'[i] = queue[i]
      /\ queue'[Len(queue) + 1] = r
  OBVIOUS
<1>2. Waiting(r)'
  BY <1>1 DEF Waiting
<1>3. ASSUME NEW s, s # r PROVE Waiting(s)' <=> Waiting(s)
  <2>1. Waiting(s) => Waiting(s)'
    BY <1>1 DEF Waiting
  <2>2. ASSUME NEW i \in 1 .. Len(queue'), queue'[i] = s PROVE Waiting(s)
    <3>1. i \in 1 .. Len(queue)
      BY <1>1, <1>3, <2>2
    <3> QED
      BY <1>1, <2>2, <3>1 DEF Waiting
  <2> QED
    BY <2>1, <2>2 DEF Waiting
<1> QED
  BY <1>2, <1>3

\* Taking a thread, a request only changes its place in the pool.
LEMMA TakenHas ==
  ASSUME PInv, TakeThread, NEW s
  PROVE  Has(s)' <=> Has(s)
<1>1. /\ queue # <<>> /\ queue' = Tail(queue) /\ threads' = threads \union {Head(queue)}
      /\ queue \in Seq(Everyone)
  BY DEF TakeThread, PInv
<1>2. /\ Len(queue') = Len(queue) - 1 /\ Len(queue) \in Nat /\ Len(queue) > 0
      /\ \A i \in 1 .. Len(queue') : queue'[i] = queue[i + 1]
      /\ Head(queue) = queue[1]
  BY <1>1
<1>3. Waiting(s) => s = Head(queue) \/ Waiting(s)'
  <2> SUFFICES ASSUME NEW i \in 1 .. Len(queue), queue[i] = s, i # 1 PROVE Waiting(s)'
    BY <1>2 DEF Waiting
  <2>1. i - 1 \in 1 .. Len(queue') /\ (i - 1) + 1 = i
    BY <1>2
  <2> QED
    BY <1>2, <2>1 DEF Waiting
<1>4. Waiting(s)' => Waiting(s)
  <2> SUFFICES ASSUME NEW i \in 1 .. Len(queue'), queue'[i] = s PROVE Waiting(s)
    BY DEF Waiting
  <2>1. i + 1 \in 1 .. Len(queue)
    BY <1>2
  <2> QED
    BY <1>2, <2>1 DEF Waiting
<1>5. Waiting(Head(queue))
  <2>1. 1 \in 1 .. Len(queue)
    BY <1>2
  <2> QED
    BY <1>2, <2>1 DEF Waiting
<1> QED
  BY <1>1, <1>3, <1>4, <1>5 DEF Has

\* The step is of request r alone, and the pool knows the others as before.
Alone(r) ==
  /\ Only(r)
  /\ \A s \in References : s # r => referenceJob'[s] = referenceJob[s]
  /\ \A s \in Everyone : s # r => (Has(s)' <=> Has(s))

LEMMA AloneKeeps ==
  ASSUME FInv, NEW r \in Everyone, Alone(r),
         NeedsPool(r)' => Has(r)', LeftPool(r)' => ~Has(r)'
  PROVE  FInv'
<1>1. ASSUME NEW s \in Everyone, s # r
      PROVE  (NeedsPool(s)' <=> NeedsPool(s)) /\ (LeftPool(s)' <=> LeftPool(s))
  BY <1>1 DEF Alone, Only, NeedsPool, LeftPool
<1> QED
  BY <1>1 DEF FInv, Alone

\* What the steps do to the queue and the threads.
LEMMA PoolSame ==
  ASSUME UNCHANGED pool
  PROVE  \A s : Has(s)' <=> Has(s)
  BY DEF pool, Has, Waiting

LEMMA EnqueueHas ==
  ASSUME PInv, NEW r \in Everyone, queue' = Append(queue, r),
         threads' = threads \/ threads' = threads \ {r}
  PROVE  Has(r)' /\ \A s : s # r => (Has(s)' <=> Has(s))
  BY AppendWaits DEF PInv, Has

LEMMA ReleaseHas ==
  ASSUME NEW r, Release(r)
  PROVE  /\ \A s : s # r => (Has(s)' <=> Has(s))
         /\ ~Waiting(r) => ~Has(r)'
  BY DEF Release, Has, Waiting

LEMMA ForgottenDashboards ==
  ASSUME GInv, PInv, FInv, NEW r \in Dashboards,
         AskDashboard(r) \/ CallReturns(r) \/ ServeDashboard(r)
  PROVE  FInv'
<1>1. r \in Everyone /\ r \notin References
  BY RequestAssumption DEF Everyone
<1>2. dashboardPc \in [Dashboards -> G!Points]
  BY DEF GInv, G!TypeOK
<1>3. UNCHANGED <<referencePc, referenceJob>>
  BY DEF AskDashboard, CallReturns, ServeDashboard, TimesOut, AnswerDashboard, references
<1>4. ~LeftPool(r)'
  BY <1>1 DEF LeftPool
<1>5. CASE AskDashboard(r)
  <2>1. dashboardPc' = [dashboardPc EXCEPT ![r] = "metadata"]
        /\ queue' = Append(queue, r) /\ threads' = threads
    BY <1>5 DEF AskDashboard, G!Ask, G!Goto, Enqueue
  <2>2. Has(r)' /\ Alone(r)
    BY <1>1, <1>2, <1>3, <2>1, EnqueueHas DEF Alone, Only
  <2> QED
    BY <1>1, <1>4, <2>2, AloneKeeps
<1>6. CASE CallReturns(r) \/ TimesOut(r)
  <2>1. r \in threads /\ UNCHANGED pool
    BY <1>6 DEF CallReturns, TimesOut
  <2>2. PICK point : G!Goto(r, point)
    BY <1>6 DEF CallReturns, TimesOut, G!CallReturns, G!TimesOut, G!ReadMetadata, G!ReadPulls,
                G!ReadLatestRun, G!ReadTasks, G!CallFails, G!CallRaises, G!Finish
  <2>3. Has(r)' /\ Alone(r)
    BY <1>2, <1>3, <2>1, <2>2, PoolSame DEF Alone, Only, Has, G!Goto
  <2> QED
    BY <1>1, <1>4, <2>3, AloneKeeps
<1>7. CASE AnswerDashboard(r)
  <2>1. dashboardPc' = [dashboardPc EXCEPT ![r] = "idle"] /\ Release(r)
    BY <1>7 DEF AnswerDashboard, G!Respond, G!Goto
  <2>2. Alone(r) /\ ~NeedsPool(r)'
    BY <1>1, <1>2, <1>3, <2>1, ReleaseHas DEF Alone, Only, NeedsPool
  <2> QED
    BY <1>1, <1>4, <2>2, AloneKeeps
<1> QED
  BY <1>5, <1>6, <1>7 DEF ServeDashboard

LEMMA ForgottenReferences ==
  ASSUME RInv, PInv, FInv, NEW r \in References,
         AskList(r) \/ PostReference(r) \/ ServeReference(r)
  PROVE  FInv'
<1>1. r \in Everyone /\ r \notin Dashboards
  BY RequestAssumption DEF Everyone
<1>2. referencePc \in [References -> R!Points] /\ referenceJob \in [References -> R!Job]
  BY DEF RInv, R!TypeOK
<1>3. UNCHANGED dashboardPc
  BY DEF AskList, PostReference, ServeReference, ReadList, UseFile, StoreReference,
         AnswerReference, tasks
<1>4. ASSUME NEW point, referencePc' = [referencePc EXCEPT ![r] = point],
             \A s \in References : s # r => referenceJob'[s] = referenceJob[s],
             \A s \in Everyone : s # r => (Has(s)' <=> Has(s))
      PROVE  /\ Alone(r) /\ referencePc'[r] = point
             /\ NeedsPool(r)' <=> point \in {"body", "close", "list"}
             /\ LeftPool(r)' <=> \/ point \in {"idle", "provide", "record"}
                                 \/ point = "answer" /\ referenceJob'[r].op = "post"
  BY <1>1, <1>2, <1>3, <1>4 DEF Alone, Only, NeedsPool, LeftPool
<1>5. CASE AskList(r)
  <2>1. /\ referencePc' = [referencePc EXCEPT ![r] = "list"]
        /\ \A s \in References : s # r => referenceJob'[s] = referenceJob[s]
        /\ queue' = Append(queue, r) /\ threads' = threads
    BY <1>2, <1>5 DEF AskList, R!Get, R!Goto, Enqueue
  <2>2. Has(r)' /\ \A s : s # r => (Has(s)' <=> Has(s))
    BY <1>1, <2>1, EnqueueHas
  <2> QED
    BY <1>1, <1>4, <2>1, <2>2, AloneKeeps
<1>6. CASE PostReference(r)
  <2>1. PICK point \in {"body", "answer"} :
          referencePc' = [referencePc EXCEPT ![r] = point]
    BY <1>6 DEF PostReference, R!Post, R!Goto
  <2>2. /\ \A s \in References : s # r => referenceJob'[s] = referenceJob[s]
        /\ referencePc[r] = "idle" /\ referencePc'[r] = point
    BY <1>2, <1>6, <2>1 DEF PostReference, R!Post, R!At
  <2>3. CASE point = "body"
    <3>1. queue' = Append(queue, r) /\ threads' = threads
      BY <1>6, <2>2, <2>3 DEF PostReference, Enqueue, R!At
    <3>2. Has(r)' /\ \A s : s # r => (Has(s)' <=> Has(s))
      BY <1>1, <3>1, EnqueueHas
    <3> QED
      BY <1>1, <1>4, <2>1, <2>2, <2>3, <3>2, AloneKeeps
  <2>4. CASE point = "answer"
    <3>1. UNCHANGED pool
      BY <1>6, <2>2, <2>4 DEF PostReference, R!At
    <3>2. ~Has(r) /\ \A s : Has(s)' <=> Has(s)
      BY <1>1, <2>2, <3>1, PoolSame DEF FInv, LeftPool
    <3> QED
      BY <1>1, <1>4, <2>1, <2>2, <2>4, <3>2, AloneKeeps
  <2> QED
    BY <2>3, <2>4
<1>7. CASE ReadList(r)
  <2>1. /\ r \in threads /\ UNCHANGED pool /\ referencePc[r] = "list"
        /\ referencePc' = [referencePc EXCEPT ![r] = "answer"]
        /\ \A s \in References : s # r => referenceJob'[s] = referenceJob[s]
        /\ referenceJob'[r].op = referenceJob[r].op
    BY <1>2, <1>7 DEF ReadList, R!List, R!Answer, R!Goto, R!At, R!Job
  <2>2. referenceJob[r].op = "list"
    BY <2>1 DEF RInv, Listing
  <2> QED
    BY <1>1, <1>4, <2>1, <2>2, PoolSame, AloneKeeps
<1>8. CASE UseFile(r)
  <2>1. PICK point \in {"body", "close", "provide", "answer"} :
          /\ referencePc' = [referencePc EXCEPT ![r] = point]
          /\ point = "answer" => referenceJob'[r].op = "post"
    <3>1. CASE R!ReadChunk(r)
      <4>1. referencePc' = [referencePc EXCEPT ![r] = "body"]
              \/ referencePc' = [referencePc EXCEPT ![r] = "close"]
        BY <1>2, <3>1 DEF R!ReadChunk, R!At, R!Goto
      <4> QED
        BY <4>1
    <3>2. CASE R!EndBody(r)
      BY <3>2 DEF R!EndBody, R!Goto
    <3>3. CASE R!Close(r)
      BY <3>3 DEF R!Close, R!Goto, R!At, RInv, Upload
    <3> QED
      BY <1>8, <3>1, <3>2, <3>3 DEF UseFile
  <2>2. /\ \A s \in References : s # r => referenceJob'[s] = referenceJob[s]
        /\ referencePc'[r] = point /\ r \in threads /\ threads' = threads \ {r}
    BY <1>2, <1>8, <2>1 DEF UseFile, R!ReadChunk, R!EndBody, R!Close
  <2>3. queue' = IF point \in {"body", "close"} THEN Append(queue, r) ELSE queue
    BY <1>8, <2>2 DEF UseFile, NeedsThread, R!At
  <2>4. CASE point \in {"body", "close"}
    <3>1. Has(r)' /\ \A s : s # r => (Has(s)' <=> Has(s))
      BY <1>1, <2>2, <2>3, <2>4, EnqueueHas
    <3> QED
      BY <1>1, <1>4, <2>1, <2>2, <2>4, <3>1, AloneKeeps
  <2>5. CASE point \notin {"body", "close"}
    <3>1. ~Waiting(r)
      BY <2>2 DEF PInv, Waiting
    <3>2. ~Has(r)' /\ \A s : s # r => (Has(s)' <=> Has(s))
      BY <2>2, <2>3, <2>5, <3>1, ReleaseHas DEF Release
    <3> QED
      BY <1>1, <1>4, <2>1, <2>2, <2>5, <3>2, AloneKeeps
  <2> QED
    BY <2>4, <2>5
<1>9. CASE StoreReference(r)
  <2>1. referencePc[r] \in {"provide", "record"} /\ UNCHANGED pool
    BY <1>9 DEF StoreReference, R!Refuse, R!Receive, R!KeepRecord, R!At
  <2>2. PICK point \in {"record", "answer"} :
          referencePc' = [referencePc EXCEPT ![r] = point]
    BY <1>9 DEF StoreReference, R!Refuse, R!Receive, R!KeepRecord, R!Answer, R!Goto
  <2>3. \A s \in References : s # r => referenceJob'[s] = referenceJob[s]
    BY <1>2, <1>9 DEF StoreReference, R!Refuse, R!Receive, R!KeepRecord, R!Answer
  <2>4. ~Has(r) /\ \A s : Has(s)' <=> Has(s)
    BY <1>1, <2>1, PoolSame DEF FInv, LeftPool
  <2> QED
    BY <1>1, <1>4, <2>2, <2>3, <2>4, AloneKeeps
<1>10. CASE AnswerReference(r)
  <2>1. /\ referencePc[r] = "answer" /\ Release(r)
        /\ referencePc' = [referencePc EXCEPT ![r] = "idle"]
        /\ \A s \in References : s # r => referenceJob'[s] = referenceJob[s]
    BY <1>2, <1>10 DEF AnswerReference, R!Respond, R!At, R!Goto
  <2>2. ~Waiting(r)
    BY <1>1, <2>1 DEF PInv, Waits
  <2>3. ~Has(r)' /\ \A s : s # r => (Has(s)' <=> Has(s))
    BY <2>1, <2>2, ReleaseHas
  <2> QED
    BY <1>1, <1>4, <2>1, <2>3, AloneKeeps
<1> QED
  BY <1>5, <1>6, <1>7, <1>8, <1>9, <1>10 DEF ServeReference

LEMMA ForgottenStep ==
  ASSUME GInv, RInv, PInv, FInv, [Next]_vars
  PROVE  FInv'
<1>1. CASE Change \/ UNCHANGED vars
  <2>1. UNCHANGED <<dashboardPc, referencePc, referenceJob, pool>>
    BY <1>1 DEF Change, G!Change, references, tasks, pool, vars
  <2>2. \A s : Has(s)' <=> Has(s)
    BY <2>1, PoolSame
  <2> QED
    BY <2>1, <2>2 DEF FInv, NeedsPool, LeftPool
<1>2. CASE Crash
  <2>1. queue' = <<>> /\ threads' = {} /\ Len(queue') = 0
    BY <1>2 DEF Crash
  <2>2. /\ \A r \in Dashboards : dashboardPc'[r] = "idle"
        /\ \A r \in References : referencePc'[r] = "idle"
    BY <1>2 DEF Crash, G!Crash, R!Crash
  <2> QED
    BY <2>1, <2>2 DEF FInv, NeedsPool, LeftPool, Has, Waiting
<1>3. CASE TakeThread
  <2>1. UNCHANGED <<dashboardPc, referencePc, referenceJob>>
    BY <1>3 DEF TakeThread, tasks, references
  <2>2. \A s : Has(s)' <=> Has(s)
    BY <1>3, TakenHas
  <2> QED
    BY <2>1, <2>2 DEF FInv, NeedsPool, LeftPool
<1> QED
  BY <1>1, <1>2, <1>3, ForgottenDashboards, ForgottenReferences DEF Next

LEMMA ForgottenInit ==
  ASSUME Init
  PROVE  FInv
<1>1. queue = <<>> /\ threads = {} /\ Len(queue) = 0
  BY DEF Init
<1>2. /\ \A r \in Dashboards : dashboardPc[r] = "idle"
      /\ \A r \in References : referencePc[r] = "idle"
  BY DEF Init, G!Init, R!Init
<1> QED
  BY <1>1, <1>2 DEF FInv, NeedsPool, LeftPool, Has, Waiting

LEMMA ForgottenNone ==
  ASSUME GInv, RInv, PInv, FInv
  PROVE  NobodyForgotten
<1>1. ASSUME NEW r \in Dashboards
      PROVE  G!At(r, "idle") \/ GoesOn(r) \/ Waiting(r)
  BY DEF FInv, NeedsPool, Has, Everyone, GoesOn, G!At
<1>2. ASSUME NEW r \in References
      PROVE  R!At(r, "idle") \/ GoesOn(r) \/ Waiting(r)
  <2>1. referencePc[r] \in R!Points
    BY DEF RInv, R!TypeOK
  <2> QED
    BY <2>1 DEF FInv, NeedsPool, Has, Everyone, GoesOn, R!At, R!Points
<1>3. ASSUME NEW r \in threads PROVE GoesOn(r)
  BY DEF PInv, Works, GoesOn, G!At
<1>4. ASSUME NEW r \in References, r \in threads \/ Waiting(r)
      PROVE  \/ referencePc[r] \in {"body", "close", "list"}
             \/ R!At(r, "answer") /\ referenceJob[r].op = "list"
  <2>1. ~LeftPool(r)
    BY <1>4 DEF FInv, Has, Everyone
  <2>2. referencePc[r] \in R!Points /\ referenceJob[r].op \in {"post", "list"}
    BY DEF RInv, R!TypeOK, R!Job
  <2> QED
    BY <2>1, <2>2 DEF LeftPool, R!Points, R!At
<1> QED
  BY <1>1, <1>2, <1>3, <1>4 DEF NobodyForgotten

\* No request is forgotten, however threads are taken, given back and taken again:
\* each goes on or waits in the queue, a thread is held only by one that goes on,
\* and never by one that blocks the event loop (run_in_threadpool, which the plain
\* routes, every chunk of an upload and its close pass through).
THEOREM NobodyIsForgotten == Spec => []NobodyForgotten
<1>1. Init => PInv /\ FInv
  BY PoolInit, ForgottenInit
<1>2. GInv /\ RInv /\ PInv /\ [Next]_vars => PInv'
  BY PoolStep
<1>3. GInv /\ RInv /\ PInv /\ FInv /\ [Next]_vars => FInv'
  BY ForgottenStep
<1>4. GInv /\ RInv /\ PInv /\ FInv => NobodyForgotten
  BY ForgottenNone
<1> QED
  BY <1>1, <1>2, <1>3, <1>4, DashboardInvariance, ReferenceInvariance, PTL DEF Spec

-------------------------------------------------------------------------------
\* Refinement.

\* The server, whatever it does with its event loop and its threads, is a dashboard
\* of GitHubTasks: no behaviour of it is one that the component does not have.
THEOREM ServesDashboards == Spec => G!Spec
<1>1. Init => G!Init
  BY DEF Init
<1>2. [Next]_vars => [G!Next]_(G!vars)
  BY TaskSteps DEF tasks, G!vars, G!github
<1> QED
  BY <1>1, <1>2, PTL DEF Spec, G!Spec

\* And it is a store of ProvidedReferences.
THEOREM ServesReferences == Spec => R!Spec
<1>1. Init => R!Init
  BY DEF Init
<1>2. [Next]_vars => [R!Next]_(R!vars)
  BY ReferenceSteps DEF references, R!vars, R!store, R!history
<1> QED
  BY <1>1, <1>2, PTL DEF Spec, R!Spec

\* A receipt is about a PDF that is kept, and an answer about a receipt.
LEMMA ReferenceIntake ==
  ASSUME RInv, R!Next
  PROVE  Intake!Next \/ UNCHANGED <<objects, records, told>>
<1>1. CASE R!Crash
  BY <1>1 DEF R!Crash, R!store, R!history
<1>2. ASSUME NEW r \in References, R!Receive(r) PROVE Intake!Next
  <2>1. PICK p : p = referenceJob[r].pdf
    OBVIOUS
  <2>2. /\ objects' = objects \union {p} /\ UNCHANGED <<records, told>>
        /\ referencePc[r] = "provide"
    BY <1>2, <2>1 DEF R!Receive, R!At, R!history
  <2>3. p \in Pdfs /\ Size[p] <= Limit
    BY <2>1, <2>2 DEF RInv, Upload, R!TypeOK, R!Job
  <2>4. Intake!Keep(p)
    BY <2>2 DEF Intake!Keep
  <2> QED
    BY <2>3, <2>4 DEF Intake!Next
<1>3. ASSUME NEW r \in References, R!KeepRecord(r) PROVE Intake!Next
  <2>1. PICK x : x = R!ReceiptOf(r)
    OBVIOUS
  <2>2. /\ records' = records \union {x} /\ UNCHANGED <<objects, told>>
        /\ referencePc[r] = "record"
    BY <1>3, <2>1 DEF R!KeepRecord, R!At, R!history
  <2>3. /\ x = <<referenceJob[r].claim, referenceJob[r].pdf>>
        /\ referenceJob[r].claim \in RunClaims
        /\ referenceJob[r].pdf \in Pdfs /\ referenceJob[r].pdf \in objects
    BY <2>1, <2>2 DEF RInv, Upload, R!TypeOK, R!Job, R!ReceiptOf
  <2>4. x \in Providable /\ x[2] \in objects
    BY <2>3 DEF Providable
  <2>5. Intake!Record(x)
    BY <2>2, <2>4 DEF Intake!Record
  <2> QED
    BY <2>4, <2>5 DEF Intake!Next
<1>4. ASSUME NEW r \in References, R!Respond(r) PROVE Intake!Next
  <2>1. referencePc[r] = "answer" /\ UNCHANGED <<objects, records>>
        /\ (told' = told \/ (told' = told \union {R!ReceiptOf(r)}
                             /\ referenceJob[r].op = "post" /\ referenceJob[r].status = "OK"))
    BY <1>4 DEF R!Respond, R!At, R!store
  <2>2. told \subseteq told' /\ told' \subseteq told \union records
    BY <2>1 DEF RInv, Upload
  <2> QED
    BY <2>1, <2>2 DEF Intake!Next, Intake!Tell
<1>5. ASSUME NEW r \in References,
             \/ R!Post(r) \/ R!ReadChunk(r) \/ R!EndBody(r) \/ R!Close(r)
             \/ R!Refuse(r) \/ R!Get(r) \/ R!List(r)
      PROVE  UNCHANGED <<objects, records, told>>
  BY <1>5 DEF R!Post, R!ReadChunk, R!EndBody, R!Close, R!Refuse, R!Get, R!List, R!store, R!history
<1> QED
  BY <1>1, <1>2, <1>3, <1>4, <1>5 DEF R!Next, R!Provide

\* The references provided through the server are an intake: a PDF is kept before
\* its receipt, neither is dropped by a crash between the two or by another upload,
\* and whoever is told of a receipt finds it.
THEOREM ReferencesAreAnIntake == Spec => ImplementsDocumentIntake
<1>1. Init => Intake!Init
  BY DEF Init, R!Init, Intake!Init
<1>2. RInv /\ [Next]_vars => [Intake!Next]_(Intake!vars)
  BY ReferenceSteps, ReferenceIntake DEF references, Intake!vars
<1> QED
  BY <1>1, <1>2, ReferenceInvariance, PTL DEF Spec, ImplementsDocumentIntake, Intake!Spec

===============================================================================
