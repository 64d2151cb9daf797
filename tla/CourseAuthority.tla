---------------------------- MODULE CourseAuthority ----------------------------
(***************************************************************************)
(* The course reference authority (course_reference_authority.py): queue,  *)
(* identity and asset previews, identity and asset decisions of one course *)
(* over HTTP, which the references owner keeps.                            *)
(*                                                                         *)
(* The owner is another package.  It keeps, for each reference of the      *)
(* course, a stream of identity decisions and one of asset decisions, and  *)
(* reads evidence that others change.  A queue, item revision, projection, *)
(* plan or preview is identified by what it was made from, so they are one *)
(* snapshot here: the evidence and the length of every stream.             *)
(***************************************************************************)
EXTENDS Naturals, Sequences

CONSTANTS
  Clients,      \* browsers of reviewers
  Items,        \* references of the course
  Courses,      \* what a path may name
  Course,       \* the course that is configured
  MaxEvidence,  \* bound: changes of evidence
  MaxCommands   \* bound: decisions a client sends, repetitions not counted

ASSUME CourseAssumption == Course \in Courses
ASSUME BoundAssumption == MaxEvidence \in Nat /\ MaxCommands \in Nat

Kinds == {"identity", "asset"}

Operations == {"none", "queue", "preview", "put"}

\* What the owner answers or raises: typed reasons, and errors of other types.
StaleReasons == {"EVIDENCE_STALE", "REVISION_STALE", "TARGET_STALE", "CONCURRENT_DECISION"}

Refusals == StaleReasons \union
  {"COURSE_NOT_FOUND", "ITEM_NOT_FOUND", "IDEMPOTENCY_CONFLICT", "INVALID_DISPOSITION"}

\* Those that are not about the age of what a client saw: an item or a disposition
\* the owner does not accept.
OwnReasons == {"COURSE_NOT_FOUND", "ITEM_NOT_FOUND", "INVALID_DISPOSITION"}

Outcomes == Refusals \union {"RESULT", "VALUE_ERROR", "OS_ERROR"}

Statuses == Refusals \union {"OK", "OWNER_MALFORMED", "OWNER_UNAVAILABLE"}

VARIABLES
  configured,  \* whether this process was given scope, runtime and actor
  evidence,    \* the revision of the owner's evidence
  decisions,   \* the owner's streams of each item and kind
  sent,        \* how many decisions each client has sent
  shown,       \* the snapshot of the queue each client looks at
  preview,     \* the preview it looks at, if any
  command,     \* the decision it sent and has no receipt of, if any
  call         \* its request that is being served

owner == <<evidence, decisions>>
client == <<sent, shown, preview, command>>
vars == <<configured, owner, client, call>>

Snapshots ==
  [evidence : 0 .. MaxEvidence, heads : [Items -> [Kinds -> Nat]]]

Now ==
  [evidence |-> evidence,
   heads |-> [i \in Items |-> [k \in Kinds |-> Len(decisions[i][k])]]]

Keys == Clients \X (1 .. MaxCommands)

\* The body of a PUT, and of a preview, which has no key.
Body == [item : Items, kind : Kinds, seen : Snapshots]

Command == [body : Body, key : Keys]

\* A recorded decision, with (history) what its client sent to the API.
Decision == [command : Command, asked : Command]

None == <<>>

Option(S) == {s \in Seq(S) : Len(s) <= 1}

IdleCall ==
  [op |-> "none", course |-> Course, body |-> None, command |-> None,
   answered |-> FALSE, status |-> "OK", result |-> None]

Call ==
  [op : Operations, course : Courses, body : Option(Body), command : Option(Command),
   answered : BOOLEAN, status : Statuses, result : Option(Snapshots)]

-------------------------------------------------------------------------------
Init ==
  /\ configured \in BOOLEAN
  /\ evidence = 0
  /\ decisions = [i \in Items |-> [k \in Kinds |-> <<>>]]
  /\ sent = [c \in Clients |-> 0]
  /\ shown = [c \in Clients |-> None]
  /\ preview = [c \in Clients |-> None]
  /\ command = [c \in Clients |-> None]
  /\ call = [c \in Clients |-> IdleCall]

Idle(c) == call[c].op = "none"

Serving(c, op) == call[c].op = op /\ ~call[c].answered

-------------------------------------------------------------------------------
\* Requests.

AskQueue(c) ==
  /\ Idle(c)
  /\ \E course \in Courses :
       call' = [call EXCEPT ![c].op = "queue", ![c].course = course]
  /\ UNCHANGED <<configured, owner, client>>

\* The preview names the queue the client looks at, and takes its place.
AskPreview(c) ==
  /\ Idle(c) /\ shown[c] # None
  /\ \E i \in Items, k \in Kinds :
       call' = [call EXCEPT ![c].op = "preview",
                  ![c].body = <<[item |-> i, kind |-> k, seen |-> shown[c][1]]>>]
  /\ shown' = [shown EXCEPT ![c] = None]
  /\ UNCHANGED <<configured, owner, sent, preview, command>>

\* A decision names the preview its client looks at, which is used up: whoever sends
\* the same twice repeats.  It has a key of its own, or one the client has used.
Decide(c) ==
  /\ Idle(c) /\ preview[c] # None
  /\ \E n \in 1 .. MaxCommands :
       /\ n <= sent[c] + 1
       /\ sent' = [sent EXCEPT ![c] = IF n > sent[c] THEN n ELSE @]
       /\ command' = [command EXCEPT ![c] = <<[body |-> preview[c][1], key |-> <<c, n>>]>>]
  /\ preview' = [preview EXCEPT ![c] = None]
  /\ call' = [call EXCEPT ![c].op = "put", ![c].command = command'[c]]
  /\ UNCHANGED <<configured, owner, shown>>

\* The client has no receipt and sends the same once more.
Repeat(c) ==
  /\ Idle(c) /\ command[c] # None
  /\ call' = [call EXCEPT ![c].op = "put", ![c].command = command[c]]
  /\ UNCHANGED <<configured, owner, client>>

-------------------------------------------------------------------------------
\* The five actions of the API.

Answer(c, status, result) ==
  call' = [call EXCEPT ![c].answered = TRUE, ![c].status = status, ![c].result = result]

\* _require_binding, and the owner and the actor that are not there without one.
RequireBinding(c) == configured /\ call[c].course = Course

Refuse(c) ==
  /\ ~Idle(c) /\ ~call[c].answered /\ ~RequireBinding(c)
  /\ Answer(c, IF configured THEN "COURSE_NOT_FOUND" ELSE "OWNER_UNAVAILABLE", None)
  /\ UNCHANGED <<configured, owner, client>>

\* Mutant: an error without a typed reason is not caught.
FailureOfReasons(outcome) == outcome

\* Mutant: a value the owner's answer may not have is blamed on the request.
FailureOfRequest(outcome) ==
  CASE outcome = "VALUE_ERROR" -> "INVALID_DISPOSITION"
    [] outcome = "OS_ERROR" -> "OWNER_UNAVAILABLE"
    [] OTHER -> outcome

\* _owner_failure and the other handlers of an action.
Failure(outcome) ==
  CASE outcome = "VALUE_ERROR" -> "OWNER_MALFORMED"
    [] outcome = "OS_ERROR" -> "OWNER_UNAVAILABLE"
    [] OTHER -> outcome

\* Mutant: the expectations are those of the moment.
TransportRefreshed(m) == [m EXCEPT !.body.seen = Now]

\* The transport request: what the client sent, to the owner of that kind.
Transport(m) ==
  [body |-> [item |-> m.body.item, kind |-> m.body.kind, seen |-> m.body.seen],
   key |-> m.key]

-------------------------------------------------------------------------------
\* The owner.

\* Every reason to call a snapshot stale for a decision or a preview of one.
Stale(body) ==
  LET seen == body.seen
  IN {r \in StaleReasons :
        \/ r = "EVIDENCE_STALE" /\ seen.evidence # evidence
        \/ r = "REVISION_STALE" /\ seen # Now
        \/ r = "CONCURRENT_DECISION"
             /\ seen.heads[body.item][body.kind] # Now.heads[body.item][body.kind]
        \/ r = "TARGET_STALE"
             /\ body.kind = "asset"
             /\ seen.heads[body.item]["identity"] # Now.heads[body.item]["identity"]}

\* An asset decision is bound to the projection of an identity decision.
Possible(body) == body.kind = "asset" => Now.heads[body.item]["identity"] > 0

Recorded(m) ==
  \E i \in Items, k \in Kinds :
    \E n \in 1 .. Len(decisions[i][k]) : decisions[i][k][n].command = m

KeyUsed(key) ==
  \E i \in Items, k \in Kinds :
    \E n \in 1 .. Len(decisions[i][k]) : decisions[i][k][n].command.key = key

\* A snapshot of the whole queue.
ReadQueue(c) ==
  /\ Serving(c, "queue") /\ RequireBinding(c)
  /\ Answer(c, "OK", <<Now>>)
  /\ UNCHANGED <<configured, owner, client>>

ReadPreview(c) ==
  /\ Serving(c, "preview") /\ RequireBinding(c)
  /\ LET body == call[c].body[1]
     IN \/ \E r \in Stale(body) \union OwnReasons :
             Answer(c, Failure(r), None)
        \/ Stale(body) = {} /\ Possible(body) /\ Answer(c, "OK", None)
  /\ UNCHANGED <<configured, owner, client>>

\* The history of requests is looked at before anything is called stale.
Refused(c) ==
  /\ Serving(c, "put") /\ RequireBinding(c)
  /\ LET m == Transport(call[c].command[1])
     IN /\ ~Recorded(m)
        /\ \/ KeyUsed(m.key) /\ Answer(c, Failure("IDEMPOTENCY_CONFLICT"), None)
           \/ /\ ~KeyUsed(m.key)
              /\ \E r \in Stale(m.body) \union OwnReasons : Answer(c, Failure(r), None)
  /\ UNCHANGED <<configured, owner, client>>

Record(c) ==
  /\ Serving(c, "put") /\ RequireBinding(c)
  /\ LET m == Transport(call[c].command[1])
     IN /\ ~KeyUsed(m.key) /\ Stale(m.body) = {} /\ Possible(m.body)
        /\ decisions' = [decisions EXCEPT ![m.body.item][m.body.kind] =
                           Append(@, [command |-> m, asked |-> call[c].command[1]])]
  /\ UNCHANGED <<configured, evidence, client, call>>

\* Mutant: a receipt is kept for the key, whatever is sent with it.
ReceiptOfKey(c) ==
  /\ Serving(c, "put") /\ RequireBinding(c)
  /\ KeyUsed(call[c].command[1].key)
  /\ Answer(c, "OK", <<Now>>)
  /\ UNCHANGED <<configured, owner, client>>

\* The receipt of a recorded decision: read again from the streams.
Receipt(c) ==
  /\ Serving(c, "put") /\ RequireBinding(c)
  /\ Recorded(Transport(call[c].command[1]))
  /\ Answer(c, "OK", <<Now>>)
  /\ UNCHANGED <<configured, owner, client>>

\* At any point, the answer that the API's models refuse included.
OwnerFails(c) ==
  /\ ~Idle(c) /\ ~call[c].answered /\ RequireBinding(c)
  /\ \E e \in {"VALUE_ERROR", "OS_ERROR"} : Answer(c, Failure(e), None)
  /\ UNCHANGED <<configured, owner, client>>

ChangeEvidence ==
  /\ evidence < MaxEvidence
  /\ evidence' = evidence + 1
  /\ UNCHANGED <<configured, decisions, client, call>>

-------------------------------------------------------------------------------
\* The client takes the answer in; what it looked at before is gone.  A receipt or a
\* refusal ends the decision, an error of the owner does not.
Respond(c) ==
  /\ ~Idle(c) /\ call[c].answered
  /\ LET told == call[c].status = "OK"
         op == call[c].op
     IN /\ shown' = [shown EXCEPT ![c] = IF op = "queue" THEN call[c].result ELSE None]
        /\ preview' = [preview EXCEPT ![c] =
                         IF op = "preview" /\ told THEN call[c].body ELSE None]
        /\ command' = [command EXCEPT ![c] =
                         IF op = "put" /\ call[c].status \in Refusals \union {"OK"}
                           THEN None ELSE @]
  /\ call' = [call EXCEPT ![c] = IdleCall]
  /\ UNCHANGED <<configured, owner, sent>>

\* The process ends, and the next one is started with the same configuration.
Crash ==
  /\ call' = [c \in Clients |-> IdleCall]
  /\ UNCHANGED <<configured, owner, client>>

Next ==
  \/ ChangeEvidence \/ Crash
  \/ \E c \in Clients :
       \/ AskQueue(c) \/ AskPreview(c) \/ Decide(c) \/ Repeat(c)
       \/ Refuse(c) \/ ReadQueue(c) \/ ReadPreview(c) \/ Refused(c) \/ Record(c)
       \/ Receipt(c) \/ OwnerFails(c) \/ Respond(c)

Spec == Init /\ [][Next]_vars

-------------------------------------------------------------------------------
\* Properties.

\* Every variable keeps its type.
TypeOK ==
  /\ configured \in BOOLEAN
  /\ evidence \in 0 .. MaxEvidence
  /\ decisions \in [Items -> [Kinds -> Seq(Decision)]]
  /\ sent \in [Clients -> 0 .. MaxCommands]
  /\ shown \in [Clients -> Option(Snapshots)]
  /\ preview \in [Clients -> Option(Body)]
  /\ command \in [Clients -> Option(Command)]
  /\ call \in [Clients -> Call]

Places ==
  UNION {{<<i, k, n>> : n \in 1 .. Len(decisions[i][k])} : i \in Items, k \in Kinds}

At(p) == decisions[p[1]][p[2]][p[3]]

\* Of any two decisions about the course, of whichever items, one was sent by a
\* reviewer who was shown the other; and who decided about an asset was shown an
\* identity decision of its item.
DecisionsSeeEachOther ==
  \A p \in Places :
    LET heads == At(p).asked.body.seen.heads
    IN /\ \A q \in Places \ {p} :
            \/ q[3] <= heads[q[1]][q[2]]
            \/ p[3] <= At(q).asked.body.seen.heads[p[1]][p[2]]
       /\ p[2] = "asset" => heads[p[1]]["identity"] > 0

\* A decision answered with a refusal has not been recorded, not by an earlier
\* attempt of it either: its reviewer may decide anew.
RefusedMeansNotRecorded ==
  \A c \in Clients :
    call[c].op = "put" /\ call[c].answered /\ call[c].status \in Refusals =>
      \A p \in Places : At(p).asked # call[c].command[1]

\* A receipt is of the decision its reviewer sent, recorded about that item and in
\* that dimension, and it shows a queue that has it.
ReceiptsAreOfTheDecision ==
  \A c \in Clients :
    call[c].op = "put" /\ call[c].answered /\ call[c].status = "OK" =>
      \E p \in Places :
        /\ At(p).asked = call[c].command[1]
        /\ p[1] = At(p).asked.body.item /\ p[2] = At(p).asked.body.kind
        /\ p[3] <= call[c].result[1].heads[p[1]][p[2]]

\* The streams as OptimisticDecisions has them: of every decision what its client
\* sent, and the lengths of all streams of the course that it was shown.
Streams == Items \X Kinds

Decided(d) ==
  [what |-> d.asked,
   saw |-> [s \in Streams |-> d.asked.body.seen.heads[s[1]][s[2]]]]

DecidedStreams ==
  [s \in Streams |->
     [n \in 1 .. Len(decisions[s[1]][s[2]]) |-> Decided(decisions[s[1]][s[2]][n])]]

\* The stream and the command of the decision that client c has sent.
Sent(c) ==
  LET m == call[c].command[1]
  IN  <<<<m.body.item, m.body.kind>>, m>>

Answering(codes) ==
  {c \in Clients : call[c].op = "put" /\ call[c].answered /\ call[c].status \in codes}

Optimistic == INSTANCE OptimisticDecisions WITH
  streams <- DecidedStreams,
  receipts <- {Sent(c) : c \in Answering({"OK"})},
  refused <- {Sent(c) : c \in Answering(Refusals)}

\* Identity and asset decisions of one course are optimistic: each is recorded at
\* most once, as its client sent it, only while no stream of the course is longer
\* than its client was shown, and never when it was refused, whatever is repeated.
ImplementsOptimisticDecisions == Optimistic!Spec

===============================================================================
