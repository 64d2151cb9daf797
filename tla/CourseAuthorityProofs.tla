------------------------- MODULE CourseAuthorityProofs -------------------------
(***************************************************************************)
(* The safety of the course reference authority for any number of          *)
(* reviewers, items, decisions, repetitions and changes of evidence.       *)
(*                                                                         *)
(* The inductive invariant, IInv, has two parts: what is known of the      *)
(* streams of the owner, and what is known of the request of each client.  *)
(* The keys of different clients differ, so nobody else can record what a  *)
(* client was refused; streams only grow, so a receipt stays true.  Hence  *)
(* the authority implements OptimisticDecisions.                           *)
(***************************************************************************)
EXTENDS CourseAuthority, TLAPS

\* Every decision is kept as its client sent it, where it belongs.
DecidedInv ==
  \A p \in Places :
    /\ At(p).command = At(p).asked
    /\ At(p).asked.body.item = p[1] /\ At(p).asked.body.kind = p[2]

OwnerInv == DecidedInv /\ DecisionsSeeEachOther

\* What a client sends bears its own key, and names the course; an idle client has
\* sent nothing.
OwnKeys(c) ==
  /\ Idle(c) => call[c] = IdleCall
  /\ command[c] # None => command[c][1].key[1] = c
  /\ call[c].op = "put" =>
       /\ call[c].command # None /\ call[c].command[1].key[1] = c
       /\ call[c].course = Course

Refusal(c) ==
  call[c].op = "put" /\ call[c].answered /\ call[c].status \in Refusals =>
    \A p \in Places : At(p).asked # call[c].command[1]

ReceiptInv(c) ==
  call[c].op = "put" /\ call[c].answered /\ call[c].status = "OK" =>
    \E p \in Places :
      /\ At(p).asked = call[c].command[1]
      /\ p[1] = At(p).asked.body.item /\ p[2] = At(p).asked.body.kind
      /\ p[3] <= call[c].result[1].heads[p[1]][p[2]]

ClientInv(c) == OwnKeys(c) /\ Refusal(c) /\ ReceiptInv(c)

IInv == TypeOK /\ OwnerInv /\ \A c \in Clients : ClientInv(c)

-------------------------------------------------------------------------------
\* Options, snapshots and what is sent.

\* A sequence of one element at the most.
LEMMA OptionType ==
  ASSUME NEW S
  PROVE  /\ None \in Option(S)
         /\ \A x \in S : <<x>> \in Option(S) /\ <<x>> # None
         /\ \A s \in Option(S) : s # None => s[1] \in S
<1>1. <<>> \in Seq(S) /\ Len(<<>>) = 0
  OBVIOUS
<1>2. \A x \in S : <<x>> \in Seq(S) /\ Len(<<x>>) = 1
  OBVIOUS
<1>3. \A s \in Seq(S) : s # <<>> => s[1] \in S
  OBVIOUS
<1> QED
  BY <1>1, <1>2, <1>3 DEF Option, None

\* The owner's state at a time is a snapshot.
LEMMA NowType ==
  ASSUME TypeOK
  PROVE  /\ Now \in Snapshots
         /\ \A i \in Items, k \in Kinds : Now.heads[i][k] = Len(decisions[i][k])
  BY DEF TypeOK, Now, Snapshots

\* The transport request is what the client sent.
LEMMA TransportIsCommand ==
  ASSUME NEW m \in Command
  PROVE  Transport(m) = m
<1>1. m.body \in Body /\ m = [body |-> m.body, key |-> m.key]
  BY DEF Command
<1>2. [item |-> m.body.item, kind |-> m.body.kind, seen |-> m.body.seen] = m.body
  BY <1>1 DEF Body
<1> QED
  BY <1>1, <1>2 DEF Transport

\* A typed reason is answered as it is, an error of another type as the owner's.
LEMMA FailureType ==
  /\ \A r \in Refusals : Failure(r) = r
  /\ Failure("VALUE_ERROR") = "OWNER_MALFORMED"
  /\ Failure("OS_ERROR") = "OWNER_UNAVAILABLE"
  BY DEF Failure, Refusals, StaleReasons

LEMMA StatusesType ==
  /\ Refusals \subseteq Statuses
  /\ {"OK", "OWNER_MALFORMED", "OWNER_UNAVAILABLE"} \subseteq Statuses \ Refusals
  /\ StaleReasons \subseteq Refusals
  BY DEF Statuses, Refusals, StaleReasons

LEMMA IdleType == IdleCall \in Call /\ IdleCall.op = "none"
<1>1. None \in Option(Body) /\ None \in Option(Command) /\ None \in Option(Snapshots)
  BY OptionType
<1> QED
  BY <1>1, CourseAssumption DEF IdleCall, Call, Operations, Statuses

\* An answer leaves all but the answer of a request as it is.
LEMMA AnswerType ==
  ASSUME TypeOK, NEW c \in Clients, NEW s \in Statuses, NEW x \in Option(Snapshots),
         Answer(c, s, x)
  PROVE  /\ call' \in [Clients -> Call]
         /\ call'[c].op = call[c].op /\ call'[c].course = call[c].course
         /\ call'[c].body = call[c].body /\ call'[c].command = call[c].command
         /\ call'[c].answered /\ call'[c].status = s /\ call'[c].result = x
         /\ \A d \in Clients \ {c} : call'[d] = call[d]
<1> DEFINE j == [call[c] EXCEPT !.answered = TRUE, !.status = s, !.result = x]
<1>1. call[c] \in Call
  BY DEF TypeOK
<1>2. /\ j \in Call
      /\ j.op = call[c].op /\ j.course = call[c].course
      /\ j.body = call[c].body /\ j.command = call[c].command
      /\ j.answered /\ j.status = s /\ j.result = x
  BY <1>1 DEF Call
<1>3. call' = [call EXCEPT ![c] = j]
  BY DEF Answer, TypeOK
<1> HIDE DEF j
<1>4. call'[c] = j /\ \A d \in Clients \ {c} : call'[d] = call[d]
  BY <1>3 DEF TypeOK
<1>5. call' \in [Clients -> Call]
  BY <1>2, <1>3 DEF TypeOK
<1> QED
  BY <1>2, <1>4, <1>5

-------------------------------------------------------------------------------
\* Places of decisions.
LEMMA PlacesOf ==
  ASSUME NEW f, NEW p
  PROVE  p \in UNION {{<<i, k, n>> : n \in 1 .. Len(f[i][k])} : i \in Items, k \in Kinds}
           <=> \E i \in Items, k \in Kinds : \E n \in 1 .. Len(f[i][k]) : p = <<i, k, n>>
<1> DEFINE P(x, y) == {<<x, y, z>> : z \in 1 .. Len(f[x][y])}
<1>1. \A i \in Items, k \in Kinds : p \in P(i, k) <=> \E n \in 1 .. Len(f[i][k]) : p = <<i, k, n>>
  OBVIOUS
<1> HIDE DEF P
<1>2. p \in UNION {P(i, k) : i \in Items, k \in Kinds} <=> \E i \in Items, k \in Kinds : p \in P(i, k)
  OBVIOUS
<1>3. p \in UNION {P(i, k) : i \in Items, k \in Kinds}
        <=> \E i \in Items, k \in Kinds : \E n \in 1 .. Len(f[i][k]) : p = <<i, k, n>>
  BY <1>1, <1>2
<1> QED
  BY <1>3 DEF P

LEMMA PlaceType ==
  ASSUME TypeOK
  PROVE  /\ \A p \in Places :
              /\ p[1] \in Items /\ p[2] \in Kinds
              /\ p[3] \in 1 .. Len(decisions[p[1]][p[2]])
              /\ p = <<p[1], p[2], p[3]>>
              /\ At(p) \in Decision
         /\ \A i \in Items, k \in Kinds : \A n \in 1 .. Len(decisions[i][k]) :
              <<i, k, n>> \in Places
<1>1. \A i \in Items, k \in Kinds : \A n \in 1 .. Len(decisions[i][k]) :
        <<i, k, n>> \in Places
  BY PlacesOf DEF Places
<1>2. ASSUME NEW p \in Places
      PROVE  /\ p[1] \in Items /\ p[2] \in Kinds
             /\ p[3] \in 1 .. Len(decisions[p[1]][p[2]])
             /\ p = <<p[1], p[2], p[3]>>
             /\ At(p) \in Decision
  <2>1. PICK i \in Items, k \in Kinds :
          \E n \in 1 .. Len(decisions[i][k]) : p = <<i, k, n>>
    BY PlacesOf DEF Places
  <2>2. PICK n \in 1 .. Len(decisions[i][k]) : p = <<i, k, n>>
    BY <2>1
  <2>3. decisions[i][k] \in Seq(Decision)
    BY DEF TypeOK
  <2>4. decisions[i][k][n] \in Decision
    BY <2>3
  <2> QED
    BY <2>2, <2>4 DEF At
<1> QED
  BY <1>1, <1>2

\* A recorded command is at some place.
LEMMA RecordedAtPlace ==
  ASSUME TypeOK, NEW m, Recorded(m)
  PROVE  \E p \in Places : At(p).command = m
<1>1. PICK i \in Items, k \in Kinds : \E n \in 1 .. Len(decisions[i][k]) :
        decisions[i][k][n].command = m
  BY DEF Recorded
<1>2. PICK n \in 1 .. Len(decisions[i][k]) : decisions[i][k][n].command = m
  BY <1>1
<1>3. <<i, k, n>> \in Places
  BY PlaceType
<1>4. At(<<i, k, n>>) = decisions[i][k][n]
  BY DEF At
<1> QED
  BY <1>2, <1>3, <1>4

LEMMA PlaceIsRecorded ==
  ASSUME TypeOK, NEW p \in Places
  PROVE  Recorded(At(p).command)
  BY PlaceType DEF Recorded, At

\* A step that leaves the streams alone leaves what is known of them.
LEMMA OwnerKept ==
  ASSUME OwnerInv, UNCHANGED decisions
  PROVE  OwnerInv' /\ Places' = Places /\ \A p \in Places : At(p)' = At(p)
<1>1. Places' = Places
  BY DEF Places
<1>2. \A p : At(p)' = At(p)
  BY DEF At
<1> QED
  BY <1>1, <1>2 DEF OwnerInv, DecidedInv, DecisionsSeeEachOther

\* A client that neither sends nor is answered.
LEMMA ClientKept ==
  ASSUME OwnerInv, UNCHANGED decisions, NEW c \in Clients, ClientInv(c),
         command'[c] = command[c], call'[c] = call[c]
  PROVE  ClientInv(c)'
  BY OwnerKept DEF ClientInv, OwnKeys, Refusal, ReceiptInv, Idle

\* A step of one client that leaves the streams alone.
LEMMA ClientStep ==
  ASSUME IInv, UNCHANGED decisions, TypeOK', NEW c \in Clients,
         \A d \in Clients \ {c} : command'[d] = command[d] /\ call'[d] = call[d],
         ClientInv(c)'
  PROVE  IInv'
  BY OwnerKept, ClientKept DEF IInv

-------------------------------------------------------------------------------
\* Requests.

\* A request that is sent has no answer yet.
LEMMA SendingStep ==
  ASSUME IInv, NEW c \in Clients, NEW j \in Call,
         call' = [call EXCEPT ![c] = j], ~j.answered, j.op # "none",
         UNCHANGED decisions, TypeOK',
         \A d \in Clients \ {c} : command'[d] = command[d],
         command'[c] # None => command'[c][1].key[1] = c,
         j.op = "put" =>
           j.command # None /\ j.command[1].key[1] = c /\ j.course = Course
  PROVE  IInv'
<1>1. call'[c] = j /\ \A d \in Clients \ {c} : call'[d] = call[d]
  BY DEF IInv, TypeOK
<1>2. ClientInv(c)'
  BY <1>1 DEF ClientInv, OwnKeys, Refusal, ReceiptInv, Idle
<1> QED
  BY <1>1, <1>2, ClientStep

LEMMA AskQueueStep == ASSUME IInv, NEW c \in Clients, AskQueue(c) PROVE IInv'
<1>1. PICK course \in Courses :
        call' = [call EXCEPT ![c].op = "queue", ![c].course = course]
  BY DEF AskQueue
<1> DEFINE j == [IdleCall EXCEPT !.op = "queue", !.course = course]
<1>2. UNCHANGED <<configured, owner, client>> /\ call[c] = IdleCall
  BY DEF AskQueue, IInv, ClientInv, OwnKeys
<1>3. j \in Call /\ ~j.answered /\ j.op = "queue"
  BY IdleType DEF Call, Operations, IdleCall
<1>4. call' = [call EXCEPT ![c] = j]
  BY <1>1, <1>2 DEF IInv, TypeOK
<1> HIDE DEF j
<1>5. TypeOK'
  BY <1>2, <1>3, <1>4 DEF IInv, TypeOK, owner, client
<1> QED
  BY <1>2, <1>3, <1>4, <1>5, SendingStep DEF owner, client, IInv, ClientInv, OwnKeys

LEMMA AskPreviewStep == ASSUME IInv, NEW c \in Clients, AskPreview(c) PROVE IInv'
<1>1. PICK i \in Items, k \in Kinds :
        call' = [call EXCEPT ![c].op = "preview",
                   ![c].body = <<[item |-> i, kind |-> k, seen |-> shown[c][1]]>>]
  BY DEF AskPreview
<1> DEFINE b == [item |-> i, kind |-> k, seen |-> shown[c][1]]
           j == [IdleCall EXCEPT !.op = "preview", !.body = <<b>>]
<1>2. /\ UNCHANGED <<configured, owner, sent, preview, command>>
      /\ call[c] = IdleCall
      /\ shown' = [shown EXCEPT ![c] = None]
  BY DEF AskPreview, IInv, ClientInv, OwnKeys
<1>3. shown[c][1] \in Snapshots
  BY OptionType DEF AskPreview, IInv, TypeOK
<1>4. <<b>> \in Option(Body)
  BY <1>3, OptionType DEF Body
<1> HIDE DEF b
<1>5. j \in Call /\ ~j.answered /\ j.op = "preview"
  BY <1>4, IdleType DEF Call, Operations, IdleCall
<1>6. call' = [call EXCEPT ![c] = j]
  BY <1>1, <1>2 DEF IInv, TypeOK, b
<1> HIDE DEF j
<1>7. shown' \in [Clients -> Option(Snapshots)]
  BY <1>2, OptionType DEF IInv, TypeOK
<1>8. TypeOK'
  BY <1>2, <1>5, <1>6, <1>7 DEF IInv, TypeOK, owner
<1> QED
  BY <1>2, <1>5, <1>6, <1>8, SendingStep DEF owner, IInv, ClientInv, OwnKeys

\* A decision is put in the words of the preview, with a key of its client.
LEMMA DecideStep == ASSUME IInv, NEW c \in Clients, Decide(c) PROVE IInv'
<1>1. PICK n \in 1 .. MaxCommands :
        /\ n <= sent[c] + 1
        /\ sent' = [sent EXCEPT ![c] = IF n > sent[c] THEN n ELSE @]
        /\ command' = [command EXCEPT ![c] = <<[body |-> preview[c][1], key |-> <<c, n>>]>>]
  BY DEF Decide
<1> DEFINE m == [body |-> preview[c][1], key |-> <<c, n>>]
           j == [IdleCall EXCEPT !.op = "put", !.command = <<m>>]
<1>2. /\ UNCHANGED <<configured, owner, shown>>
      /\ call[c] = IdleCall
      /\ preview' = [preview EXCEPT ![c] = None]
      /\ call' = [call EXCEPT ![c].op = "put", ![c].command = command'[c]]
  BY DEF Decide, IInv, ClientInv, OwnKeys
<1>3. preview[c][1] \in Body
  BY OptionType DEF Decide, IInv, TypeOK
<1>4. m \in Command /\ m.key[1] = c
  BY <1>3 DEF Command, Keys
<1> HIDE DEF m
<1>5. /\ <<m>> \in Option(Command) /\ <<m>> # None
      /\ command' = [command EXCEPT ![c] = <<m>>] /\ <<m>>[1] = m
  BY <1>1, <1>4, OptionType DEF m
<1>6. /\ j \in Call /\ ~j.answered /\ j.op = "put" /\ j.command = <<m>>
      /\ j.course = Course
  BY <1>5, IdleType DEF Call, Operations, IdleCall
<1>7. command'[c] = <<m>> /\ \A d \in Clients \ {c} : command'[d] = command[d]
  BY <1>5 DEF IInv, TypeOK
<1>8. call' = [call EXCEPT ![c] = j]
  BY <1>2, <1>7 DEF IInv, TypeOK
<1> HIDE DEF j
<1>9. sent' \in [Clients -> 0 .. MaxCommands]
  BY <1>1, BoundAssumption DEF IInv, TypeOK
<1>10. preview' \in [Clients -> Option(Body)]
  BY <1>2, OptionType DEF IInv, TypeOK
<1>11. TypeOK'
  <2>1. command' \in [Clients -> Option(Command)] /\ call' \in [Clients -> Call]
    BY <1>5, <1>6, <1>8 DEF IInv, TypeOK
  <2>2. UNCHANGED <<configured, owner, shown>>
    BY <1>2
  <2> QED
    BY <2>1, <2>2, <1>9, <1>10 DEF IInv, TypeOK, owner
<1> QED
  BY <1>2, <1>4, <1>5, <1>6, <1>7, <1>8, <1>11, SendingStep DEF owner

LEMMA RepeatStep == ASSUME IInv, NEW c \in Clients, Repeat(c) PROVE IInv'
<1> DEFINE j == [IdleCall EXCEPT !.op = "put", !.command = command[c]]
<1>1. /\ UNCHANGED <<configured, owner, client>>
      /\ call[c] = IdleCall /\ command[c] # None
      /\ call' = [call EXCEPT ![c].op = "put", ![c].command = command[c]]
      /\ command[c][1].key[1] = c
  BY DEF Repeat, IInv, ClientInv, OwnKeys
<1>2. /\ j \in Call /\ ~j.answered /\ j.op = "put" /\ j.command = command[c]
      /\ j.course = Course
  BY IdleType DEF Call, Operations, IdleCall, IInv, TypeOK
<1>3. call' = [call EXCEPT ![c] = j]
  BY <1>1 DEF IInv, TypeOK
<1> HIDE DEF j
<1>4. TypeOK'
  BY <1>1, <1>2, <1>3 DEF IInv, TypeOK, owner, client
<1> QED
  BY <1>1, <1>2, <1>3, <1>4, SendingStep DEF owner, client

-------------------------------------------------------------------------------
\* Answers.

\* An answer that is neither a refusal of a decision nor a receipt.
LEMMA AnsweringStep ==
  ASSUME IInv, NEW c \in Clients, ~Idle(c),
         NEW s \in Statuses, NEW x \in Option(Snapshots), Answer(c, s, x),
         UNCHANGED <<configured, owner, client>>,
         call[c].op = "put" /\ s \in Refusals =>
           \A p \in Places : At(p).asked # call[c].command[1],
         call[c].op = "put" /\ s = "OK" =>
           \E p \in Places :
             /\ At(p).asked = call[c].command[1]
             /\ p[1] = At(p).asked.body.item /\ p[2] = At(p).asked.body.kind
             /\ p[3] <= x[1].heads[p[1]][p[2]]
  PROVE  IInv'
<1>1. /\ call' \in [Clients -> Call]
      /\ call'[c].op = call[c].op /\ call'[c].course = call[c].course
      /\ call'[c].command = call[c].command
      /\ call'[c].status = s /\ call'[c].result = x
      /\ \A d \in Clients \ {c} : call'[d] = call[d]
  BY AnswerType DEF IInv
<1>2. TypeOK'
  BY <1>1 DEF IInv, TypeOK, owner, client
<1>3. OwnKeys(c)'
  BY <1>1 DEF IInv, ClientInv, OwnKeys, Idle, client
<1>4. Places' = Places /\ \A p \in Places : At(p)' = At(p)
  BY OwnerKept DEF IInv, owner
<1>5. Refusal(c)'
  BY <1>1, <1>4 DEF Refusal
<1>6. ReceiptInv(c)'
  BY <1>1, <1>4 DEF ReceiptInv
<1> QED
  BY <1>1, <1>2, <1>3, <1>5, <1>6, ClientStep DEF ClientInv, owner, client

LEMMA RefuseStep == ASSUME IInv, NEW c \in Clients, Refuse(c) PROVE IInv'
<1> DEFINE s == IF configured THEN "COURSE_NOT_FOUND" ELSE "OWNER_UNAVAILABLE"
<1>1. /\ ~Idle(c) /\ ~RequireBinding(c) /\ Answer(c, s, None)
      /\ UNCHANGED <<configured, owner, client>>
  BY DEF Refuse
<1>2. s \in Statuses /\ s # "OK" /\ None \in Option(Snapshots)
  BY OptionType DEF Statuses, Refusals
<1>3. call[c].op = "put" => s \notin Refusals
  BY <1>1, StatusesType DEF IInv, ClientInv, OwnKeys, RequireBinding
<1> HIDE DEF s
<1> QED
  BY <1>1, <1>2, <1>3, AnsweringStep

LEMMA ReadQueueStep == ASSUME IInv, NEW c \in Clients, ReadQueue(c) PROVE IInv'
<1>1. <<Now>> \in Option(Snapshots)
  BY NowType, OptionType DEF IInv
<1> QED
  BY <1>1, AnsweringStep DEF ReadQueue, Serving, Idle, Statuses

LEMMA ReadPreviewStep == ASSUME IInv, NEW c \in Clients, ReadPreview(c) PROVE IInv'
<1>1. /\ ~Idle(c) /\ call[c].op # "put"
      /\ UNCHANGED <<configured, owner, client>>
      /\ \/ \E r \in Stale(call[c].body[1]) \union OwnReasons :
              Answer(c, Failure(r), None)
         \/ Answer(c, "OK", None)
  BY DEF ReadPreview, Serving, Idle
<1>2. Stale(call[c].body[1]) \union OwnReasons \subseteq Refusals
  BY DEF Stale, Refusals, OwnReasons
<1>3. \E s \in Statuses : Answer(c, s, None)
  BY <1>1, <1>2, FailureType, StatusesType
<1> QED
  BY <1>1, <1>3, OptionType, AnsweringStep

\* What is being put is a command, and goes to the owner as it is.
LEMMA CommandOfPut ==
  ASSUME IInv, NEW c \in Clients, call[c].op = "put"
  PROVE  /\ call[c].command[1] \in Command
         /\ Transport(call[c].command[1]) = call[c].command[1]
         /\ call[c].command[1].key[1] = c
<1>1. call[c].command \in Option(Command) /\ call[c].command # None
  BY DEF IInv, TypeOK, Call, ClientInv, OwnKeys
<1>2. call[c].command[1] \in Command
  BY <1>1, OptionType
<1> QED
  BY <1>2, TransportIsCommand DEF IInv, ClientInv, OwnKeys

LEMMA RefusedStep == ASSUME IInv, NEW c \in Clients, Refused(c) PROVE IInv'
<1> DEFINE m == call[c].command[1]
<1>1. ~Idle(c) /\ call[c].op = "put" /\ UNCHANGED <<configured, owner, client>>
  BY DEF Refused, Serving, Idle
<1>2. Transport(m) = m
  BY <1>1, CommandOfPut
<1>3. /\ ~Recorded(m)
      /\ \/ Answer(c, Failure("IDEMPOTENCY_CONFLICT"), None)
         \/ \E r \in Stale(m.body) \union OwnReasons : Answer(c, Failure(r), None)
  BY <1>2 DEF Refused
<1>4. Stale(m.body) \union OwnReasons \subseteq Refusals /\ "IDEMPOTENCY_CONFLICT" \in Refusals
  BY DEF Stale, Refusals, OwnReasons
<1>5. \E s \in Refusals : Answer(c, s, None)
  BY <1>3, <1>4, FailureType
<1>6. \A p \in Places : At(p).asked # m
  BY <1>3, PlaceIsRecorded DEF IInv, OwnerInv, DecidedInv
<1> QED
  BY <1>1, <1>5, <1>6, OptionType, StatusesType, AnsweringStep

LEMMA ReceiptStep == ASSUME IInv, NEW c \in Clients, Receipt(c) PROVE IInv'
<1> DEFINE m == call[c].command[1]
<1>1. /\ ~Idle(c) /\ call[c].op = "put" /\ UNCHANGED <<configured, owner, client>>
      /\ Answer(c, "OK", <<Now>>)
  BY DEF Receipt, Serving, Idle
<1>2. Recorded(m)
  BY <1>1, CommandOfPut DEF Receipt
<1>3. PICK p \in Places : At(p).command = m
  BY <1>2, RecordedAtPlace DEF IInv
<1>4. /\ At(p).asked = m
      /\ p[1] = At(p).asked.body.item /\ p[2] = At(p).asked.body.kind
  BY <1>3 DEF IInv, OwnerInv, DecidedInv
<1>5. p[3] <= Now.heads[p[1]][p[2]]
  <2>1. p[1] \in Items /\ p[2] \in Kinds /\ p[3] \in 1 .. Len(decisions[p[1]][p[2]])
    BY PlaceType DEF IInv
  <2>2. Now.heads[p[1]][p[2]] = Len(decisions[p[1]][p[2]])
    BY <2>1, NowType DEF IInv
  <2>3. Len(decisions[p[1]][p[2]]) \in Nat
    BY <2>1 DEF IInv, TypeOK
  <2> QED
    BY <2>1, <2>2, <2>3
<1>6. <<Now>> \in Option(Snapshots) /\ <<Now>>[1] = Now /\ "OK" \in Statuses \ Refusals
  BY NowType, OptionType, StatusesType DEF IInv
<1> QED
  BY <1>1, <1>4, <1>5, <1>6, AnsweringStep

LEMMA OwnerFailsStep == ASSUME IInv, NEW c \in Clients, OwnerFails(c) PROVE IInv'
<1>1. PICK e \in {"VALUE_ERROR", "OS_ERROR"} : Answer(c, Failure(e), None)
  BY DEF OwnerFails
<1>2. Failure(e) \in Statuses \ Refusals /\ Failure(e) # "OK"
  BY FailureType, StatusesType
<1> QED
  BY <1>1, <1>2, OptionType, AnsweringStep DEF OwnerFails

-------------------------------------------------------------------------------
\* A decision is recorded.

Appended(x, y, d) == decisions' = [decisions EXCEPT ![x][y] = Append(@, d)]

NewPlace(x, y) == <<x, y, Len(decisions[x][y]) + 1>>

\* A stream that is appended to has one place more.
LEMMA AppendPlaces ==
  ASSUME TypeOK, NEW x \in Items, NEW y \in Kinds, NEW d \in Decision,
         Appended(x, y, d), NEW new, new = NewPlace(x, y)
  PROVE  /\ decisions' \in [Items -> [Kinds -> Seq(Decision)]]
         /\ Places' = Places \union {new}
         /\ \A p \in Places : At(p)' = At(p)
         /\ At(new)' = d
<1> DEFINE s == decisions[x][y]
<1> USE DEF Appended, NewPlace
<1>1. /\ s \in Seq(Decision) /\ Len(s) \in Nat
      /\ Append(s, d) \in Seq(Decision) /\ Len(Append(s, d)) = Len(s) + 1
      /\ \A n \in 1 .. Len(s) : Append(s, d)[n] = s[n]
      /\ Append(s, d)[Len(s) + 1] = d
  BY DEF TypeOK
<1>2. /\ decisions' \in [Items -> [Kinds -> Seq(Decision)]]
      /\ decisions'[x][y] = Append(s, d)
      /\ \A i \in Items, k \in Kinds : i # x \/ k # y => decisions'[i][k] = decisions[i][k]
  BY <1>1 DEF TypeOK
<1>3. ASSUME NEW p \in Places
      PROVE  p \in Places' /\ At(p)' = At(p)
  <2>1. PICK i \in Items, k \in Kinds : \E n \in 1 .. Len(decisions[i][k]) : p = <<i, k, n>>
    BY PlacesOf DEF Places
  <2>2. PICK n \in 1 .. Len(decisions[i][k]) : p = <<i, k, n>>
    BY <2>1
  <2>3. n \in 1 .. Len(decisions'[i][k]) /\ decisions'[i][k][n] = decisions[i][k][n]
    BY <1>1, <1>2, <2>2
  <2>4. p \in Places'
    BY <2>2, <2>3, PlacesOf DEF Places
  <2> QED
    BY <2>2, <2>3, <2>4 DEF At
<1>4. new \in Places' /\ At(new)' = d
  <2>1. Len(s) + 1 \in 1 .. Len(decisions'[x][y]) /\ decisions'[x][y][Len(s) + 1] = d
    BY <1>1, <1>2
  <2>2. new \in Places'
    BY <2>1, PlacesOf DEF Places
  <2> QED
    BY <2>1, <2>2 DEF At
<1>5. ASSUME NEW p \in Places'
      PROVE  p \in Places \union {new}
  <2>1. PICK i \in Items, k \in Kinds : \E n \in 1 .. Len(decisions'[i][k]) : p = <<i, k, n>>
    BY PlacesOf DEF Places
  <2>2. PICK n \in 1 .. Len(decisions'[i][k]) : p = <<i, k, n>>
    BY <2>1
  <2>3. n \in 1 .. Len(decisions[i][k]) \/ (i = x /\ k = y /\ n = Len(s) + 1)
    BY <1>1, <1>2, <2>2
  <2>4. n \in 1 .. Len(decisions[i][k]) => p \in Places
    BY <2>2, PlaceType
  <2> QED
    BY <2>2, <2>3, <2>4
<1> QED
  BY <1>2, <1>3, <1>4, <1>5

\* What is recorded was sent by somebody who had seen all there was.
LEMMA RecordStep == ASSUME IInv, NEW c \in Clients, Record(c) PROVE IInv'
<1>0. PICK m \in Command : m = call[c].command[1]
  BY CommandOfPut DEF Record, Serving
<1> DEFINE x == m.body.item
           y == m.body.kind
           d == [command |-> m, asked |-> m]
<1>1. /\ Serving(c, "put") /\ UNCHANGED <<configured, evidence, client, call>>
      /\ Transport(m) = m /\ m.key[1] = c
  BY <1>0, CommandOfPut DEF Record, Serving
<1>2. /\ Stale(m.body) = {} /\ Possible(m.body)
      /\ decisions' = [decisions EXCEPT ![x][y] = Append(@, d)]
  BY <1>0, <1>1 DEF Record
<1>3. x \in Items /\ y \in Kinds /\ d \in Decision
  BY DEF Command, Body, Decision
<1>4. m.body.seen = Now
  BY <1>2 DEF Stale, StaleReasons
<1>5. d.command = m /\ d.asked = m
  OBVIOUS
<1>place. PICK new : new = NewPlace(x, y)
  OBVIOUS
<1>type. TypeOK
  BY DEF IInv
<1> HIDE DEF d, x, y
<1>6. /\ decisions' \in [Items -> [Kinds -> Seq(Decision)]]
      /\ Places' = Places \union {new}
      /\ \A p \in Places : At(p)' = At(p)
      /\ At(new)' = d
  <2>1. Appended(x, y, d)
    BY <1>2 DEF Appended
  <2>2. x \in Items /\ y \in Kinds /\ d \in Decision
    BY <1>3
  <2> QED
    BY <2>1, <2>2, <1>place, <1>type, AppendPlaces
<1>7. TypeOK'
  BY <1>1, <1>6, <1>type DEF TypeOK, client
<1>8. DecidedInv'
  BY <1>5, <1>6, <1>place DEF IInv, OwnerInv, DecidedInv, NewPlace, x, y
<1>9. \A p \in Places : p[3] <= m.body.seen.heads[p[1]][p[2]]
  <2> SUFFICES ASSUME NEW p \in Places
               PROVE  p[3] <= Now.heads[p[1]][p[2]]
    BY <1>4
  <2>1. p[1] \in Items /\ p[2] \in Kinds /\ p[3] \in 1 .. Len(decisions[p[1]][p[2]])
    BY PlaceType DEF IInv
  <2>2. Len(decisions[p[1]][p[2]]) \in Nat
    BY <2>1 DEF IInv, TypeOK
  <2> QED
    BY <2>1, <2>2, NowType DEF IInv
<1>10. y = "asset" => m.body.seen.heads[x]["identity"] > 0
  BY <1>2, <1>4 DEF Possible, x, y
<1>11. DecisionsSeeEachOther'
  <2> DEFINE Heads(p) == At(p)'.asked.body.seen.heads
  <2>1. \A p \in Places : At(p)' = At(p)
    BY <1>6
  <2>2. At(new)'.asked = m /\ new[1] = x /\ new[2] = y
    BY <1>5, <1>6, <1>place DEF NewPlace
  <2>3. ASSUME NEW p \in Places', NEW q \in Places', p # q
        PROVE  q[3] <= Heads(p)[q[1]][q[2]] \/ p[3] <= Heads(q)[p[1]][p[2]]
    <3>1. CASE p \in Places /\ q \in Places
      BY <2>1, <2>3, <3>1 DEF IInv, OwnerInv, DecisionsSeeEachOther
    <3>2. CASE p = new /\ q \in Places
      BY <2>2, <3>2, <1>9
    <3>3. CASE p \in Places /\ q = new
      BY <2>2, <3>3, <1>9
    <3> QED
      BY <2>3, <3>1, <3>2, <3>3, <1>6
  <2>4. ASSUME NEW p \in Places', p[2] = "asset"
        PROVE  Heads(p)[p[1]]["identity"] > 0
    <3>1. CASE p \in Places
      BY <2>1, <2>4, <3>1 DEF IInv, OwnerInv, DecisionsSeeEachOther
    <3>2. CASE p = new
      BY <2>2, <2>4, <3>2, <1>10
    <3> QED
      BY <3>1, <3>2, <1>6
  <2> QED
    BY <2>3, <2>4 DEF DecisionsSeeEachOther
<1>12. ASSUME NEW e \in Clients PROVE ClientInv(e)'
  <2>1. call' = call /\ command' = command
    BY <1>1 DEF client
  <2>2. OwnKeys(e)'
    BY <2>1 DEF IInv, ClientInv, OwnKeys, Idle
  <2>3. CASE e = c
    BY <2>1, <2>2, <2>3, <1>1 DEF ClientInv, Refusal, ReceiptInv, Serving
  <2>4. CASE e # c
    <3>1. call[e].op = "put" => call[e].command[1] # m
      BY <2>4, <1>1, CommandOfPut
    <3>2. Refusal(e)'
      BY <2>1, <3>1, <1>5, <1>6 DEF IInv, ClientInv, Refusal
    <3>3. ReceiptInv(e)'
      BY <2>1, <1>6 DEF IInv, ClientInv, ReceiptInv
    <3> QED
      BY <2>2, <3>2, <3>3 DEF ClientInv
  <2> QED
    BY <2>3, <2>4
<1> QED
  BY <1>7, <1>8, <1>11, <1>12 DEF IInv, OwnerInv

-------------------------------------------------------------------------------
\* The rest.
LEMMA ChangeEvidenceStep == ASSUME IInv, ChangeEvidence PROVE IInv'
<1>1. /\ UNCHANGED <<configured, decisions, client, call>>
      /\ evidence' \in 0 .. MaxEvidence
  BY BoundAssumption DEF ChangeEvidence, IInv, TypeOK
<1>2. TypeOK'
  BY <1>1 DEF IInv, TypeOK, client
<1> QED
  BY <1>1, <1>2, OwnerKept, ClientKept DEF IInv, client

LEMMA RespondStep == ASSUME IInv, NEW c \in Clients, Respond(c) PROVE IInv'
<1>1. /\ UNCHANGED <<configured, owner, sent>>
      /\ call' = [call EXCEPT ![c] = IdleCall]
      /\ \E v \in Option(Snapshots) : shown' = [shown EXCEPT ![c] = v]
      /\ \E v \in Option(Body) : preview' = [preview EXCEPT ![c] = v]
      /\ \E v \in {None, command[c]} : command' = [command EXCEPT ![c] = v]
  <2>1. /\ call[c].result \in Option(Snapshots) /\ None \in Option(Snapshots)
        /\ call[c].body \in Option(Body) /\ None \in Option(Body)
    BY OptionType DEF IInv, TypeOK, Call
  <2> QED
    BY <2>1 DEF Respond
<1>2. /\ call' \in [Clients -> Call] /\ call'[c] = IdleCall
      /\ \A e \in Clients \ {c} : call'[e] = call[e]
  BY <1>1, IdleType DEF IInv, TypeOK
<1>3. /\ command' \in [Clients -> Option(Command)] /\ command'[c] \in {None, command[c]}
      /\ \A e \in Clients \ {c} : command'[e] = command[e]
  BY <1>1, OptionType DEF IInv, TypeOK
<1>4. shown' \in [Clients -> Option(Snapshots)] /\ preview' \in [Clients -> Option(Body)]
  BY <1>1 DEF IInv, TypeOK
<1>5. TypeOK'
  BY <1>1, <1>2, <1>3, <1>4 DEF IInv, TypeOK, owner
<1>6. ClientInv(c)'
  BY <1>2, <1>3, IdleType DEF IInv, ClientInv, OwnKeys, Refusal, ReceiptInv, Idle
<1> QED
  BY <1>1, <1>2, <1>3, <1>5, <1>6, ClientStep DEF owner

LEMMA CrashStep == ASSUME IInv, Crash PROVE IInv'
<1>1. /\ UNCHANGED <<configured, owner, client>>
      /\ call' \in [Clients -> Call] /\ \A c \in Clients : call'[c] = IdleCall
  BY IdleType DEF Crash
<1>2. TypeOK'
  BY <1>1 DEF IInv, TypeOK, owner, client
<1>3. \A c \in Clients : ClientInv(c)'
  BY <1>1, IdleType DEF IInv, ClientInv, OwnKeys, Refusal, ReceiptInv, Idle, client
<1> QED
  BY <1>1, <1>2, <1>3, OwnerKept DEF IInv, owner

LEMMA InitHolds == Init => IInv
<1> SUFFICES ASSUME Init PROVE IInv
  OBVIOUS
<1>1. decisions \in [Items -> [Kinds -> Seq(Decision)]]
  BY DEF Init
<1>2. \A i \in Items, k \in Kinds : Len(decisions[i][k]) = 0
  BY DEF Init
<1>3. Places = {}
  <2> SUFFICES ASSUME NEW p \in Places PROVE FALSE
    OBVIOUS
  <2> QED
    BY <1>2, PlacesOf DEF Places
<1>4. TypeOK
  BY <1>1, BoundAssumption, OptionType, IdleType DEF Init, TypeOK
<1>5. \A c \in Clients : ClientInv(c)
  BY IdleType DEF Init, ClientInv, OwnKeys, Refusal, ReceiptInv, Idle
<1> QED
  BY <1>3, <1>4, <1>5 DEF IInv, OwnerInv, DecidedInv, DecisionsSeeEachOther

LEMMA NextKeeps == IInv /\ [Next]_vars => IInv'
<1> SUFFICES ASSUME IInv, [Next]_vars PROVE IInv'
  OBVIOUS
<1>1. CASE ChangeEvidence \/ Crash
  BY <1>1, ChangeEvidenceStep, CrashStep
<1>2. ASSUME NEW c \in Clients, AskQueue(c) \/ AskPreview(c) \/ Decide(c) \/ Repeat(c)
      PROVE  IInv'
  BY <1>2, AskQueueStep, AskPreviewStep, DecideStep, RepeatStep
<1>3. ASSUME NEW c \in Clients,
             \/ Refuse(c) \/ ReadQueue(c) \/ ReadPreview(c) \/ Refused(c) \/ Record(c)
             \/ Receipt(c) \/ OwnerFails(c) \/ Respond(c)
      PROVE  IInv'
  BY <1>3, RefuseStep, ReadQueueStep, ReadPreviewStep, RefusedStep, RecordStep,
     ReceiptStep, OwnerFailsStep, RespondStep
<1>4. CASE UNCHANGED vars
  <2>1. TypeOK'
    BY <1>4 DEF IInv, TypeOK, vars, owner, client
  <2> QED
    BY <1>4, <2>1, OwnerKept, ClientKept DEF IInv, vars, owner, client
<1> QED
  BY <1>1, <1>2, <1>3, <1>4 DEF Next

\* The invariant holds of every run of the authority.
THEOREM Invariance == Spec => []IInv
  BY InitHolds, NextKeeps, PTL DEF Spec

-------------------------------------------------------------------------------
\* Every variable of the authority, of its owner and of its clients keeps its type.
THEOREM TypeCorrect == Spec => []TypeOK
<1>1. IInv => TypeOK
  BY DEF IInv
<1> QED
  BY <1>1, Invariance, PTL

\* Of two decisions about the course one was sent by somebody who was shown the
\* other, and asset decisions follow an identity decision (the expectations that
\* decide_identity and decide_asset transport).
THEOREM NobodyDecidesBlindly == Spec => []DecisionsSeeEachOther
<1>1. IInv => DecisionsSeeEachOther
  BY DEF IInv, OwnerInv
<1> QED
  BY <1>1, Invariance, PTL

\* A decision that is refused was never recorded (_owner_failure).
THEOREM RefusalsAreClean == Spec => []RefusedMeansNotRecorded
<1>1. IInv => RefusedMeansNotRecorded
  BY DEF IInv, ClientInv, Refusal, RefusedMeansNotRecorded
<1> QED
  BY <1>1, Invariance, PTL

\* A receipt is of the decision that was sent (decide_identity, decide_asset).
THEOREM ReceiptsAreOwn == Spec => []ReceiptsAreOfTheDecision
<1>1. IInv => ReceiptsAreOfTheDecision
  BY DEF IInv, ClientInv, ReceiptInv, ReceiptsAreOfTheDecision
<1> QED
  BY <1>1, Invariance, PTL

-------------------------------------------------------------------------------
\* Decisions without a lock.

\* A sequence with one more element, as a function.
LEMMA AppendIsFunction ==
  ASSUME NEW S, NEW f \in Seq(S), NEW d \in S
  PROVE  Append(f, d) = [n \in 1 .. Len(f) + 1 |-> IF n = Len(f) + 1 THEN d ELSE f[n]]
<1> DEFINE g == Append(f, d)
           h == [n \in 1 .. Len(f) + 1 |-> IF n = Len(f) + 1 THEN d ELSE f[n]]
<1>1. /\ g \in Seq(S) /\ Len(g) = Len(f) + 1 /\ Len(f) \in Nat
      /\ \A n \in 1 .. Len(f) : g[n] = f[n] /\ f[n] \in S
      /\ g[Len(f) + 1] = d
  OBVIOUS
<1>2. \A n \in 1 .. Len(f) + 1 : h[n] = IF n = Len(f) + 1 THEN d ELSE f[n]
  OBVIOUS
<1>3. h \in [1 .. Len(f) + 1 -> S]
  BY <1>1
<1> HIDE DEF g, h
<1>4. h \in Seq(S) /\ Len(h) = Len(f) + 1
  BY <1>1, <1>3
<1>5. \A n \in 1 .. Len(g) : g[n] = h[n]
  BY <1>1, <1>2
<1>6. g = h
  BY <1>1, <1>4, <1>5
<1> QED
  BY <1>6 DEF g, h

\* The abstract streams, place by place, and with one decision more.
LEMMA DecidedStreamsType ==
  ASSUME TypeOK, NEW i \in Items, NEW k \in Kinds
  PROVE  /\ Len(DecidedStreams[<<i, k>>]) = Len(decisions[i][k])
         /\ \A n \in 1 .. Len(decisions[i][k]) :
              DecidedStreams[<<i, k>>][n] = Decided(decisions[i][k][n])
         /\ \A d : Append(DecidedStreams[<<i, k>>], d) =
                    [n \in 1 .. Len(decisions[i][k]) + 1 |->
                       IF n = Len(decisions[i][k]) + 1 THEN d ELSE Decided(decisions[i][k][n])]
<1> DEFINE f == [n \in 1 .. Len(decisions[i][k]) |-> Decided(decisions[i][k][n])]
<1>1. decisions[i][k] \in Seq(Decision) /\ Len(decisions[i][k]) \in Nat
  BY DEF TypeOK
<1>2. DecidedStreams[<<i, k>>] = f
  BY DEF DecidedStreams, Streams
<1>3. \A n \in 1 .. Len(decisions[i][k]) : f[n] = Decided(decisions[i][k][n])
  OBVIOUS
<1> DEFINE R == {Decided(d) : d \in Decision}
<1>4. \A n \in 1 .. Len(decisions[i][k]) : Decided(decisions[i][k][n]) \in R
  <2>1. \A n \in 1 .. Len(decisions[i][k]) : decisions[i][k][n] \in Decision
    BY <1>1
  <2> QED
    BY <2>1
<1> HIDE DEF R
<1>5. f \in [1 .. Len(decisions[i][k]) -> R]
  BY <1>4
<1> HIDE DEF f
<1>6. Len(f) = Len(decisions[i][k])
  BY <1>1, <1>5
<1>7. ASSUME NEW d
      PROVE  Append(f, d) =
               [n \in 1 .. Len(decisions[i][k]) + 1 |->
                  IF n = Len(decisions[i][k]) + 1 THEN d ELSE f[n]]
  <2>1. f \in [1 .. Len(decisions[i][k]) -> R \union {d}]
    BY <1>5
  <2> DEFINE Q == R \union {d}
  <2>2. f \in [1 .. Len(decisions[i][k]) -> Q] /\ d \in Q
    BY <2>1
  <2> HIDE DEF Q
  <2>3. f \in Seq(Q)
    BY <1>1, <2>2
  <2> QED
    BY <1>6, <2>2, <2>3, AppendIsFunction
<1>8. ASSUME NEW d
      PROVE  Append(f, d) =
               [n \in 1 .. Len(decisions[i][k]) + 1 |->
                  IF n = Len(decisions[i][k]) + 1 THEN d ELSE Decided(decisions[i][k][n])]
  BY <1>1, <1>3, <1>7
<1> QED
  BY <1>2, <1>3, <1>6, <1>8

\* What the abstract specification takes for recorded is what the streams have.
LEMMA RecordedIsDecided ==
  ASSUME TypeOK, NEW i \in Items, NEW k \in Kinds, NEW m
  PROVE  <<<<i, k>>, m>> \in Optimistic!Recorded
           <=> \E n \in 1 .. Len(decisions[i][k]) : decisions[i][k][n].asked = m
<1> DEFINE E(s) == {<<s, DecidedStreams[s][n].what>> : n \in 1 .. Len(DecidedStreams[s])}
<1>1. <<<<i, k>>, m>> \in Optimistic!Recorded <=> \E s \in Streams : <<<<i, k>>, m>> \in E(s)
  BY DEF Optimistic!Recorded
<1>2. \A s \in Streams : <<<<i, k>>, m>> \in E(s) => s = <<i, k>>
  OBVIOUS
<1>3. <<<<i, k>>, m>> \in E(<<i, k>>)
        <=> \E n \in 1 .. Len(DecidedStreams[<<i, k>>]) : DecidedStreams[<<i, k>>][n].what = m
  OBVIOUS
<1>4. ASSUME NEW n \in 1 .. Len(decisions[i][k])
      PROVE  DecidedStreams[<<i, k>>][n].what = decisions[i][k][n].asked
  <2>1. DecidedStreams[<<i, k>>][n] = Decided(decisions[i][k][n])
    BY DecidedStreamsType
  <2>2. Decided(decisions[i][k][n]).what = decisions[i][k][n].asked
    BY DEF Decided
  <2> QED
    BY <2>1, <2>2
<1>5. Len(DecidedStreams[<<i, k>>]) = Len(decisions[i][k])
  BY DecidedStreamsType
<1>6. <<i, k>> \in Streams
  BY DEF Streams
<1> HIDE DEF E
<1> QED
  BY <1>1, <1>2, <1>3, <1>4, <1>5, <1>6

\* A command is recorded in its own stream wherever it is recorded at all.
LEMMA RecordedWhereSent ==
  ASSUME IInv, NEW m \in Command
  PROVE  <<<<m.body.item, m.body.kind>>, m>> \in Optimistic!Recorded
           <=> \E p \in Places : At(p).asked = m
<1>1. m.body.item \in Items /\ m.body.kind \in Kinds
  BY DEF Command, Body
<1>2. TypeOK /\ DecidedInv
  BY DEF IInv, OwnerInv
<1>3. ASSUME NEW n \in 1 .. Len(decisions[m.body.item][m.body.kind]),
             decisions[m.body.item][m.body.kind][n].asked = m
      PROVE  \E p \in Places : At(p).asked = m
  <2>1. <<m.body.item, m.body.kind, n>> \in Places
    BY <1>1, <1>2, PlaceType
  <2>2. At(<<m.body.item, m.body.kind, n>>).asked = m
    BY <1>3 DEF At
  <2> QED
    BY <2>1, <2>2
<1>4. ASSUME NEW p \in Places, At(p).asked = m
      PROVE  \E n \in 1 .. Len(decisions[m.body.item][m.body.kind]) :
               decisions[m.body.item][m.body.kind][n].asked = m
  <2>1. p[1] = m.body.item /\ p[2] = m.body.kind
    BY <1>2, <1>4 DEF DecidedInv
  <2>2. p[3] \in 1 .. Len(decisions[p[1]][p[2]])
    BY <1>2, PlaceType
  <2> QED
    BY <1>4, <2>1, <2>2 DEF At
<1> QED
  BY <1>1, <1>2, <1>3, <1>4, RecordedIsDecided

\* Receipts are of what is recorded, and refusals of what is not.
AnswersInv ==
  /\ {Sent(c) : c \in Answering({"OK"})} \subseteq Optimistic!Recorded
  /\ {Sent(c) : c \in Answering(Refusals)} \intersect Optimistic!Recorded = {}

LEMMA AnswersAreTrue == IInv => AnswersInv
<1> SUFFICES ASSUME IInv PROVE AnswersInv
  OBVIOUS
<1>1. ASSUME NEW c \in Clients, call[c].op = "put"
      PROVE  Sent(c) \in Optimistic!Recorded
               <=> \E p \in Places : At(p).asked = call[c].command[1]
  <2>1. call[c].command[1] \in Command
    BY <1>1, CommandOfPut
  <2> QED
    BY <2>1, RecordedWhereSent DEF Sent
<1>2. ASSUME NEW c \in Answering({"OK"}) PROVE Sent(c) \in Optimistic!Recorded
  <2>1. c \in Clients /\ call[c].op = "put" /\ call[c].answered /\ call[c].status = "OK"
    BY DEF Answering
  <2>2. ReceiptInv(c)
    BY <2>1 DEF IInv, ClientInv
  <2> QED
    BY <1>1, <2>1, <2>2 DEF ReceiptInv
<1>3. ASSUME NEW c \in Answering(Refusals) PROVE Sent(c) \notin Optimistic!Recorded
  <2>1. c \in Clients /\ call[c].op = "put" /\ call[c].answered /\ call[c].status \in Refusals
    BY DEF Answering
  <2>2. Refusal(c)
    BY <2>1 DEF IInv, ClientInv
  <2> QED
    BY <1>1, <2>1, <2>2 DEF Refusal
<1> QED
  BY <1>2, <1>3 DEF AnswersInv

\* The owner records in the abstract streams as well: the client was shown all streams
\* as they are, and its command has neither been recorded nor is it being refused.
LEMMA RecordIsRecord ==
  ASSUME IInv, NEW c \in Clients, Record(c)
  PROVE  Optimistic!Next
<1>0. PICK m \in Command : m = call[c].command[1]
  BY CommandOfPut DEF Record, Serving
<1> DEFINE x == m.body.item
           y == m.body.kind
           d == [command |-> m, asked |-> m]
<1>1. /\ Serving(c, "put") /\ UNCHANGED <<configured, evidence, client, call>>
      /\ Transport(m) = m /\ m.key[1] = c
  BY <1>0, CommandOfPut DEF Record, Serving
<1>2. /\ ~KeyUsed(m.key) /\ Stale(m.body) = {}
      /\ decisions' = [decisions EXCEPT ![x][y] = Append(@, d)]
  BY <1>0, <1>1 DEF Record
<1>3. x \in Items /\ y \in Kinds /\ <<x, y>> \in Streams /\ d \in Decision
  BY DEF Command, Body, Streams, Decision
<1>4. m.body.seen = Now
  BY <1>2 DEF Stale, StaleReasons
<1>type. TypeOK /\ DecidedInv
  BY DEF IInv, OwnerInv
<1>5. Decided(d).what = m /\ d.asked = m
  BY DEF Decided
<1>6. Decided(d).saw = [s \in Streams |-> Len(decisions[s[1]][s[2]])]
  <2>1. Decided(d).saw = [s \in Streams |-> m.body.seen.heads[s[1]][s[2]]]
    BY <1>5 DEF Decided
  <2>2. \A s \in Streams : s[1] \in Items /\ s[2] \in Kinds
    BY DEF Streams
  <2>3. \A s \in Streams : m.body.seen.heads[s[1]][s[2]] = Len(decisions[s[1]][s[2]])
    BY <1>4, <1>type, <2>2, NowType
  <2> QED
    BY <2>1, <2>3
<1>7. \A s \in Streams : Decided(d).saw[s] = Len(DecidedStreams[s])
  <2> SUFFICES ASSUME NEW s \in Streams PROVE Decided(d).saw[s] = Len(DecidedStreams[s])
    OBVIOUS
  <2>1. PICK i \in Items, k \in Kinds : s = <<i, k>>
    BY DEF Streams
  <2>2. Len(DecidedStreams[s]) = Len(decisions[i][k])
    BY <1>type, <2>1, DecidedStreamsType
  <2> QED
    BY <1>6, <2>1, <2>2
<1> DEFINE e == Decided(d)
<1>8. DOMAIN e.saw = Streams /\ e.what = m
  BY <1>5, <1>6
<1> HIDE DEF d, x, y, e
<1>9. <<<<x, y>>, m>> \notin Optimistic!Recorded
  <2> SUFFICES ASSUME NEW p \in Places, At(p).asked = m PROVE FALSE
    BY RecordedWhereSent DEF x, y
  <2>1. At(p).command = m
    BY <1>type DEF DecidedInv
  <2>2. /\ p[1] \in Items /\ p[2] \in Kinds /\ p[3] \in 1 .. Len(decisions[p[1]][p[2]])
        /\ decisions[p[1]][p[2]][p[3]].command.key = m.key
    BY <1>type, <2>1, PlaceType DEF At
  <2> QED
    BY <1>2, <2>2 DEF KeyUsed
<1>10. <<<<x, y>>, m>> \notin {Sent(b) : b \in Answering(Refusals)}
  <2> SUFFICES ASSUME NEW b \in Answering(Refusals), Sent(b) = <<<<x, y>>, m>> PROVE FALSE
    OBVIOUS
  <2>1. b \in Clients /\ call[b].op = "put" /\ call[b].answered
    BY DEF Answering
  <2>2. call[b].command[1] = m
    BY DEF Sent
  <2>3. b = c
    BY <1>1, <2>1, <2>2, CommandOfPut
  <2> QED
    BY <1>1, <2>1, <2>3 DEF Serving
<1>11. DecidedStreams' = [DecidedStreams EXCEPT ![<<x, y>>] = Append(@, e)]
  <2>1. /\ decisions'[x][y] = Append(decisions[x][y], d)
        /\ \A i \in Items, k \in Kinds : i # x \/ k # y => decisions'[i][k] = decisions[i][k]
    BY <1>2, <1>3, <1>type DEF TypeOK
  <2>2. decisions[x][y] \in Seq(Decision) /\ Len(decisions[x][y]) \in Nat /\ d \in Decision
    BY <1>3, <1>type DEF TypeOK
  <2>3. /\ Len(decisions'[x][y]) = Len(decisions[x][y]) + 1
        /\ decisions'[x][y][Len(decisions[x][y]) + 1] = d
        /\ \A n \in 1 .. Len(decisions[x][y]) : decisions'[x][y][n] = decisions[x][y][n]
    BY <2>1, <2>2
  <2>4. ASSUME NEW s \in Streams, s # <<x, y>>
        PROVE  DecidedStreams'[s] = DecidedStreams[s]
    <3>1. s[1] \in Items /\ s[2] \in Kinds /\ (s[1] # x \/ s[2] # y)
      BY <2>4 DEF Streams
    <3>2. decisions'[s[1]][s[2]] = decisions[s[1]][s[2]]
      BY <2>1, <3>1
    <3> QED
      BY <3>2 DEF DecidedStreams
  <2>5. DecidedStreams'[<<x, y>>] = Append(DecidedStreams[<<x, y>>], e)
    <3>1. DecidedStreams'[<<x, y>>] =
            [n \in 1 .. Len(decisions[x][y]) + 1 |-> Decided(decisions'[x][y][n])]
      BY <1>3, <2>3 DEF DecidedStreams
    <3>2. Append(DecidedStreams[<<x, y>>], e) =
            [n \in 1 .. Len(decisions[x][y]) + 1 |->
               IF n = Len(decisions[x][y]) + 1 THEN e ELSE Decided(decisions[x][y][n])]
      BY <1>3, <1>type, DecidedStreamsType
    <3>3. ASSUME NEW n \in 1 .. Len(decisions[x][y]) + 1
          PROVE  Decided(decisions'[x][y][n]) =
                   IF n = Len(decisions[x][y]) + 1 THEN e ELSE Decided(decisions[x][y][n])
      <4>1. CASE n = Len(decisions[x][y]) + 1
        BY <2>3, <4>1 DEF e
      <4>2. CASE n # Len(decisions[x][y]) + 1
        BY <2>2, <2>3, <4>2
      <4> QED
        BY <4>1, <4>2
    <3> QED
      BY <3>1, <3>2, <3>3
  <2> QED
    BY <2>4, <2>5 DEF DecidedStreams
<1>12. /\ {Sent(b) : b \in Answering({"OK"})}' = {Sent(b) : b \in Answering({"OK"})}
       /\ {Sent(b) : b \in Answering(Refusals)}' = {Sent(b) : b \in Answering(Refusals)}
  BY <1>1 DEF Answering, Sent
<1>13. Optimistic!Record(<<x, y>>, e)
  BY <1>3, <1>7, <1>8, <1>9, <1>10, <1>11, <1>12 DEF Optimistic!Record, e
<1>14. /\ Len(DecidedStreams'[<<x, y>>]) > Len(DecidedStreams[<<x, y>>])
       /\ DecidedStreams'[<<x, y>>][Len(DecidedStreams'[<<x, y>>])] = e
  <2>1. DecidedStreams'[<<x, y>>] = Append(DecidedStreams[<<x, y>>], e)
    BY <1>3, <1>11 DEF DecidedStreams
  <2>2. Append(DecidedStreams[<<x, y>>], e) =
          [n \in 1 .. Len(decisions[x][y]) + 1 |->
             IF n = Len(decisions[x][y]) + 1 THEN e ELSE Decided(decisions[x][y][n])]
    BY <1>3, <1>type, DecidedStreamsType
  <2>3. Len(decisions[x][y]) \in Nat /\ Len(DecidedStreams[<<x, y>>]) = Len(decisions[x][y])
    BY <1>3, <1>type, DecidedStreamsType DEF TypeOK
  <2>4. Len(DecidedStreams'[<<x, y>>]) = Len(decisions[x][y]) + 1
    BY <2>1, <2>2, <2>3
  <2> QED
    BY <2>1, <2>2, <2>3, <2>4
<1> QED
  BY <1>3, <1>13, <1>14 DEF Optimistic!Next

LEMMA StepRefines == IInv /\ IInv' /\ [Next]_vars => [Optimistic!Next]_(Optimistic!vars)
<1> SUFFICES ASSUME IInv, IInv', [Next]_vars PROVE Optimistic!Next
  BY DEF Optimistic!vars
<1>1. ASSUME NEW c \in Clients, Record(c) PROVE Optimistic!Next
  BY <1>1, RecordIsRecord
<1>2. ASSUME UNCHANGED decisions PROVE Optimistic!Next
  <2>1. DecidedStreams' = DecidedStreams
    BY <1>2 DEF DecidedStreams
  <2>2. Optimistic!Recorded' = Optimistic!Recorded
    BY <2>1 DEF Optimistic!Recorded
  <2>3. IInv' => AnswersInv'
    BY AnswersAreTrue, PTL
  <2> QED
    BY <2>1, <2>2, <2>3 DEF AnswersInv, Optimistic!Next, Optimistic!Answer
<1>3. CASE ChangeEvidence \/ Crash \/ UNCHANGED vars
  BY <1>2, <1>3 DEF ChangeEvidence, Crash, vars, owner
<1>4. ASSUME NEW c \in Clients,
             \/ AskQueue(c) \/ AskPreview(c) \/ Decide(c) \/ Repeat(c)
             \/ Refuse(c) \/ ReadQueue(c) \/ ReadPreview(c) \/ Refused(c)
             \/ Receipt(c) \/ OwnerFails(c) \/ Respond(c)
      PROVE  Optimistic!Next
  BY <1>2, <1>4 DEF AskQueue, AskPreview, Decide, Repeat, Refuse, ReadQueue, ReadPreview,
       Refused, Receipt, OwnerFails, Respond, owner
<1> QED
  BY <1>1, <1>3, <1>4 DEF Next

\* Decisions about the course, identity and asset, are recorded once, only by who was
\* shown every stream as it is, and never when they were refused, for any number of
\* reviewers, items, repetitions and crashes.
THEOREM Refinement == Spec => ImplementsOptimisticDecisions
<1>1. Init => Optimistic!Init
  <2> SUFFICES ASSUME Init PROVE Optimistic!Init
    OBVIOUS
  <2>1. \A codes : Answering(codes) = {}
    BY DEF Init, Answering, IdleCall
  <2>2. \A s \in Streams : Len(decisions[s[1]][s[2]]) = 0
    BY DEF Init, Streams
  <2>3. DecidedStreams = [s \in Streams |-> <<>>]
    BY <2>2 DEF DecidedStreams
  <2> QED
    BY <2>1, <2>3 DEF Optimistic!Init
<1> QED
  BY <1>1, StepRefines, Invariance, PTL
     DEF Spec, ImplementsOptimisticDecisions, Optimistic!Spec

===============================================================================
