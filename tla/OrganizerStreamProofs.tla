------------------------- MODULE OrganizerStreamProofs -------------------------
(***************************************************************************)
(* The safety of the organizer's stream for any number of clients, any     *)
(* limit and any number of events.                                         *)
(*                                                                         *)
(* The inductive invariant, IInv, ties what a coroutine has read to the    *)
(* catalog: a batch is a run of sequences that begins after the cursor and *)
(* ends at an event there is; and the mode of the catalog is the one its   *)
(* events leave.  With it every step of a client's view is a reading of    *)
(* MonotonicReads.                                                         *)
(***************************************************************************)
EXTENDS OrganizerStream, TLAPS

\* There is a latest control wherever there is a control, and the mode of the
\* catalog is the one its events leave.
CatalogInv ==
  /\ \A n \in 0 .. Last :
       Controls(log, n) # {} => \E k \in 1 .. n : IsLatest(k, Controls(log, n))
  /\ mode = ModeAt(Last)

\* A status is of events there are, and has the mode they leave.
Exact(v, s) ==
  /\ v.upto <= Len(s)
  /\ v.mode = ModeAfter(s, v.upto)

\* Nobody knows more than there is.
ViewInv(c) == Exact(view[c], log)

AnswerInv(c) ==
  /\ Exact(answer[c], log)
  /\ own[c] <= Last
  /\ At(c, "answer") => own[c] <= answer[c].upto

\* A batch continues the cursor, and its events exist.
BatchInv(c) ==
  /\ start[c] <= view[c].upto
  /\ online[c] => sequence[c] <= view[c].upto
  /\ \A k \in 1 .. Len(batch[c]) : batch[c][k] = sequence[c] + k
  /\ sequence[c] + Len(batch[c]) <= Last
  /\ stream[c] = "send" <=> batch[c] # <<>>
  /\ stream[c] = "closed" => ~online[c]

ClientInv(c) == ViewInv(c) /\ AnswerInv(c) /\ BatchInv(c)

IInv ==
  /\ TypeOK
  /\ CatalogInv
  /\ \A c \in Clients : ClientInv(c)

-------------------------------------------------------------------------------
\* The latest of some events is unique.
LEMMA LatestIsChosen ==
  ASSUME NEW S \in SUBSET Nat, NEW k, IsLatest(k, S)
  PROVE  Latest(S) = k
<1>1. k \in S /\ \A j \in S : IsLatest(j, S) => j = k
  BY DEF IsLatest
<1>2. Latest(S) \in S /\ IsLatest(Latest(S), S)
  BY <1>1 DEF Latest
<1> QED
  BY <1>1, <1>2

\* A control is the latest one when it comes.
LEMMA ControlIsLatest ==
  ASSUME NEW s, NEW n \in Nat, s[n + 1] # "work"
  PROVE  IsLatest(n + 1, Controls(s, n + 1))
BY DEF IsLatest, Controls

\* Another event leaves the controls as they are.
LEMMA WorkIsNoControl ==
  ASSUME NEW s, NEW n \in Nat, s[n + 1] = "work"
  PROVE  Controls(s, n + 1) = Controls(s, n)
<1>1. \A k \in 1 .. n + 1 : s[k] # "work" => k \in 1 .. n
  OBVIOUS
<1>2. \A k \in 1 .. n : k \in 1 .. n + 1
  OBVIOUS
<1> QED
  BY <1>1, <1>2 DEF Controls

\* One more event leaves its own mode, or the one before where it is "work".
LEMMA ModeAfterNext ==
  ASSUME NEW s, NEW n \in Nat
  PROVE  ModeAfter(s, n + 1) =
           IF s[n + 1] = "work" THEN ModeAfter(s, n) ELSE s[n + 1]
<1>1. CASE s[n + 1] = "work"
  BY <1>1, WorkIsNoControl DEF ModeAfter
<1>2. CASE s[n + 1] # "work"
  <2>1. IsLatest(n + 1, Controls(s, n + 1))
    BY <1>2, ControlIsLatest
  <2>2. Controls(s, n + 1) \in SUBSET Nat
    BY DEF Controls
  <2>3. Latest(Controls(s, n + 1)) = n + 1
    BY <2>1, <2>2, LatestIsChosen
  <2>4. Controls(s, n + 1) # {}
    BY <2>1 DEF IsLatest
  <2> QED
    BY <1>2, <2>3, <2>4 DEF ModeAfter
<1> QED
  BY <1>1, <1>2

\* What the events of a longer log leave at a point of a shorter one.
LEMMA ModeAfterPrefix ==
  ASSUME NEW s, NEW t, NEW n \in Nat,
         \A k \in 1 .. n : s[k] = t[k],
         Controls(s, n) # {} => \E k \in 1 .. n : IsLatest(k, Controls(s, n))
  PROVE  /\ Controls(s, n) = Controls(t, n)
         /\ ModeAfter(s, n) = ModeAfter(t, n)
<1>1. Controls(s, n) = Controls(t, n)
  BY DEF Controls
<1>2. CASE Controls(s, n) = {}
  BY <1>1, <1>2 DEF ModeAfter
<1>3. CASE Controls(s, n) # {}
  <2>1. PICK k \in 1 .. n : IsLatest(k, Controls(s, n))
    BY <1>3
  <2>2. Controls(s, n) \in SUBSET Nat
    BY DEF Controls
  <2>3. Latest(Controls(s, n)) = k
    BY <2>1, <2>2, LatestIsChosen
  <2> QED
    BY <1>1, <1>3, <2>1, <2>3 DEF ModeAfter
<1> QED
  BY <1>2, <1>3

\* The mode the events leave is a mode.
LEMMA ModeAtType ==
  ASSUME TypeOK, CatalogInv, NEW n \in 0 .. Last
  PROVE  ModeAt(n) \in Modes
<1> USE ModesAssumption
<1>1. log \in Seq(Event) /\ Last \in Nat /\ n \in Nat
  BY DEF TypeOK, Last
<1>2. CASE Controls(log, n) = {}
  BY <1>2 DEF ModeAt, ModeAfter
<1>3. CASE Controls(log, n) # {}
  <2>1. PICK k \in 1 .. n : IsLatest(k, Controls(log, n))
    BY <1>3 DEF CatalogInv
  <2>2. Controls(log, n) \in SUBSET Nat
    BY DEF Controls
  <2>3. Latest(Controls(log, n)) = k
    BY <2>1, <2>2, LatestIsChosen
  <2>4. log[k] \in Event /\ log[k] # "work"
    BY <1>1, <2>1 DEF IsLatest, Controls, Last
  <2> QED
    BY <1>3, <2>3, <2>4 DEF ModeAt, ModeAfter, Event
<1> QED
  BY <1>2, <1>3

\* What a step may do to the catalog: nothing, or append an event and follow it.
CatalogStep ==
  \/ UNCHANGED catalog
  \/ \E e \in Event :
       /\ log' = Append(log, e)
       /\ mode' = IF e \in Modes THEN e ELSE mode

\* What is known of the catalog stays true.
CatalogGrows ==
  /\ mode' \in Modes
  /\ log' \in Seq(Event)
  /\ Last' \in Nat
  /\ Last <= Last'
  /\ \A n \in 0 .. Last : ModeAfter(log', n) = ModeAfter(log, n)

\* The catalog stays exact when an event is appended or nothing is.
LEMMA CatalogKept ==
  ASSUME TypeOK, CatalogInv, CatalogStep
  PROVE  CatalogInv' /\ CatalogGrows
<1> USE ModesAssumption
<1>0. log \in Seq(Event) /\ Last \in Nat /\ mode \in Modes
  BY DEF TypeOK, Last
<1>1. CASE UNCHANGED catalog
  BY <1>0, <1>1 DEF catalog, Last, ModeAt, CatalogInv, CatalogGrows
<1>2. ASSUME NEW e \in Event,
             log' = Append(log, e),
             mode' = IF e \in Modes THEN e ELSE mode
      PROVE  CatalogInv' /\ CatalogGrows
  <2>1. /\ log' \in Seq(Event) /\ Last' = Last + 1
        /\ log'[Last + 1] = e /\ \A k \in 1 .. Last : log[k] = log'[k]
    BY <1>0, <1>2 DEF Last
  <2>2. \A n \in 0 .. Last :
          /\ Controls(log, n) = Controls(log', n)
          /\ ModeAfter(log, n) = ModeAfter(log', n)
    <3> SUFFICES ASSUME NEW n \in 0 .. Last
                 PROVE  /\ Controls(log, n) = Controls(log', n)
                        /\ ModeAfter(log, n) = ModeAfter(log', n)
      OBVIOUS
    <3>1. n \in Nat /\ \A k \in 1 .. n : log[k] = log'[k]
      BY <1>0, <2>1
    <3>2. Controls(log, n) # {} => \E k \in 1 .. n : IsLatest(k, Controls(log, n))
      BY DEF CatalogInv
    <3> QED
      BY <3>1, <3>2, ModeAfterPrefix
  <2>3. ModeAfter(log', Last + 1) = IF e = "work" THEN ModeAfter(log', Last) ELSE e
    BY <1>0, <2>1, ModeAfterNext
  <2>4. mode' = ModeAfter(log', Last + 1)
    BY <1>0, <1>2, <2>2, <2>3 DEF CatalogInv, ModeAt, Event
  <2>5. \A n \in 0 .. Last + 1 :
          Controls(log', n) # {} => \E k \in 1 .. n : IsLatest(k, Controls(log', n))
    <3> SUFFICES ASSUME NEW n \in 0 .. Last + 1, Controls(log', n) # {}
                 PROVE  \E k \in 1 .. n : IsLatest(k, Controls(log', n))
      OBVIOUS
    <3>1. CASE n \in 0 .. Last
      BY <2>2, <3>1 DEF CatalogInv
    <3>2. CASE n = Last + 1 /\ e = "work"
      <4>1. Controls(log', n) = Controls(log', Last)
        BY <1>0, <2>1, <3>2, WorkIsNoControl
      <4>2. Controls(log, Last) = Controls(log', Last)
        BY <1>0, <2>2
      <4>3. PICK k \in 1 .. Last : IsLatest(k, Controls(log, Last))
        BY <1>0, <4>1, <4>2 DEF CatalogInv
      <4> QED
        BY <1>0, <3>2, <4>1, <4>2, <4>3
    <3>3. CASE n = Last + 1 /\ e # "work"
      <4>1. IsLatest(Last + 1, Controls(log', Last + 1))
        BY <1>0, <2>1, <3>3, ControlIsLatest
      <4> QED
        BY <1>0, <3>3, <4>1
    <3> QED
      BY <1>0, <3>1, <3>2, <3>3
  <2>6. CatalogInv'
    BY <2>1, <2>4, <2>5 DEF CatalogInv, ModeAt
  <2>7. mode' \in Modes
    BY <1>0, <1>2
  <2> QED
    BY <1>0, <2>1, <2>2, <2>6, <2>7 DEF CatalogGrows, ModeAt
<1> QED
  BY <1>1, <1>2 DEF CatalogStep

-------------------------------------------------------------------------------
\* Every step is a step of the catalog.
LEMMA StepsTheCatalog ==
  ASSUME TypeOK, [Next]_vars
  PROVE  CatalogStep
<1>1. CASE Work
  BY <1>1 DEF Work, CatalogStep
<1>2. ASSUME NEW c \in Clients, SetMode(c)
      PROVE  CatalogStep
  <2>1. request[c] \in Modes
    BY DEF TypeOK
  <2> QED
    BY <1>2, <2>1 DEF SetMode, CatalogStep, Event, catalog
<1>3. CASE UNCHANGED catalog
  BY <1>3 DEF CatalogStep
<1>4. ASSUME NEW c \in Clients,
             \/ Ask(c) \/ ReadStatus(c) \/ RequestFails(c) \/ Respond(c)
             \/ ReadEvents(c) \/ Open(c) \/ Leave(c) \/ Close(c) \/ Step(c)
      PROVE  UNCHANGED catalog
  BY <1>4 DEF Ask, ReadStatus, RequestFails, Respond, ReadEvents, Open, Leave, Close,
              Step, Poll, Send, Wake, catalog
<1>5. ASSUME Crash \/ UNCHANGED vars PROVE UNCHANGED catalog
  BY <1>5 DEF Crash, vars, catalog
<1> QED
  BY <1>1, <1>2, <1>3, <1>4, <1>5 DEF Next, Page

\* A page has the events after n in their order, and no more than there are.
LEMMA EventsAfterPage ==
  ASSUME TypeOK, NEW n \in Nat, n <= Last
  PROVE  /\ EventsAfter(n) \in Seq(Nat \ {0})
         /\ Len(EventsAfter(n)) <= Limit
         /\ n + Len(EventsAfter(n)) <= Last
         /\ \A k \in 1 .. Len(EventsAfter(n)) : EventsAfter(n)[k] = n + k
<1> DEFINE m == IF Last - n < Limit THEN Last - n ELSE Limit
<1>1. m \in Nat /\ m <= Limit /\ n + m <= Last
  BY LimitAssumption DEF TypeOK, Last
<1>2. EventsAfter(n) = [k \in 1 .. m |-> n + k]
  BY DEF EventsAfter
<1> HIDE DEF m
<1>3. [k \in 1 .. m |-> n + k] \in [1 .. m -> Nat \ {0}]
  BY <1>1
<1>4. EventsAfter(n) \in Seq(Nat \ {0}) /\ Len(EventsAfter(n)) = m
  BY <1>1, <1>2, <1>3
<1> QED
  BY <1>1, <1>2, <1>4

\* Who knows the events up to a point knows the mode of the next one as well.
LEMMA TakeInExact ==
  ASSUME TypeOK, NEW v \in Status, Exact(v, log), NEW n \in 1 .. Last
  PROVE  /\ TakeIn(v, n) \in Status
         /\ Exact(TakeIn(v, n), log)
         /\ v.upto <= TakeIn(v, n).upto
         /\ n <= v.upto + 1 => n <= TakeIn(v, n).upto
<1>1. log \in Seq(Event) /\ Last \in Nat /\ log[n] \in Event
  BY DEF TypeOK, Last
<1>2. CASE n = v.upto + 1
  <2>1. v.upto \in Nat /\ v.mode \in Modes
    BY DEF Status
  <2>2. ModeAfter(log, n) = IF log[n] = "work" THEN ModeAfter(log, v.upto) ELSE log[n]
    BY <1>2, <2>1, ModeAfterNext
  <2>3. TakeIn(v, n) = [mode |-> IF log[n] = "work" THEN v.mode ELSE log[n], upto |-> n]
    BY <1>2 DEF TakeIn
  <2> QED
    BY <1>1, <1>2, <2>1, <2>2, <2>3 DEF Status, Event, Exact, Last
<1>3. CASE n # v.upto + 1
  BY <1>3 DEF TakeIn, Status
<1> QED
  BY <1>2, <1>3

\* The head of a batch is the event after the cursor.
LEMMA HeadIsNext ==
  ASSUME TypeOK, NEW c \in Clients, BatchInv(c), stream[c] = "send"
  PROVE  /\ Head(batch[c]) = sequence[c] + 1
         /\ Head(batch[c]) \in 1 .. Last
         /\ Tail(batch[c]) \in Seq(Nat \ {0})
         /\ Len(Tail(batch[c])) = Len(batch[c]) - 1
         /\ \A k \in 1 .. Len(Tail(batch[c])) : Tail(batch[c])[k] = sequence[c] + 1 + k
<1>1. batch[c] \in Seq(Nat \ {0}) /\ batch[c] # <<>> /\ sequence[c] \in Nat /\ Last \in Nat
  BY DEF TypeOK, BatchInv, Last
<1>2. Len(batch[c]) \in Nat /\ Len(batch[c]) >= 1
  BY <1>1
<1>3. Head(batch[c]) = batch[c][1]
  BY <1>1
<1>4. \A k \in 1 .. Len(batch[c]) : batch[c][k] = sequence[c] + k
  BY DEF BatchInv
<1>5. \A k \in 1 .. Len(batch[c]) - 1 : Tail(batch[c])[k] = batch[c][k + 1]
  BY <1>1
<1>6. Len(Tail(batch[c])) = Len(batch[c]) - 1 /\ Tail(batch[c]) \in Seq(Nat \ {0})
  BY <1>1
<1>7. \A k \in 1 .. Len(Tail(batch[c])) : Tail(batch[c])[k] = sequence[c] + 1 + k
  <2> SUFFICES ASSUME NEW k \in 1 .. Len(batch[c]) - 1
               PROVE  Tail(batch[c])[k] = sequence[c] + 1 + k
    BY <1>6
  <2>1. k + 1 \in 1 .. Len(batch[c])
    BY <1>2
  <2>2. Tail(batch[c])[k] = batch[c][k + 1] /\ batch[c][k + 1] = sequence[c] + (k + 1)
    BY <1>4, <1>5, <2>1
  <2> QED
    BY <1>1, <2>2
<1>8. Head(batch[c]) = sequence[c] + 1
  BY <1>2, <1>3, <1>4
<1>9. Head(batch[c]) \in 1 .. Last
  BY <1>1, <1>2, <1>8 DEF BatchInv
<1> QED
  BY <1>6, <1>7, <1>8, <1>9

-------------------------------------------------------------------------------
\* A status that is exact stays exact: the events it is of do not change.
LEMMA ExactKept ==
  ASSUME TypeOK, CatalogGrows, NEW v \in Status, Exact(v, log)
  PROVE  Exact(v, log')
<1>1. v.upto \in 0 .. Last /\ Last \in Nat /\ Last' \in Nat /\ Last <= Last'
  BY DEF TypeOK, CatalogGrows, Status, Exact, Last
<1>2. ModeAfter(log', v.upto) = ModeAfter(log, v.upto)
  BY <1>1 DEF CatalogGrows
<1> QED
  BY <1>1, <1>2 DEF Exact, Last

\* A new client, and a request that is over, have the status of an empty catalog.
LEMMA UnknownExact ==
  ASSUME NEW s \in Seq(Event)
  PROVE  Unknown \in Status /\ Exact(Unknown, s)
<1>1. Controls(s, 0) = {}
  BY DEF Controls
<1> QED
  BY <1>1, ModesAssumption DEF Unknown, Status, Exact, ModeAfter

\* The catalog's own status is exact.
LEMMA CatalogExact ==
  ASSUME TypeOK, CatalogInv
  PROVE  /\ [mode |-> mode, upto |-> Last] \in Status
         /\ Exact([mode |-> mode, upto |-> Last], log)
BY DEF TypeOK, CatalogInv, Status, Exact, ModeAt, Last

\* Steps that leave a client's own state alone keep what is known of it.
LEMMA ClientKept ==
  ASSUME IInv, CatalogGrows, NEW c \in Clients
  PROVE  /\ view'[c] = view[c] => ViewInv(c)'
         /\ /\ pc'[c] = pc[c] /\ own'[c] = own[c] /\ answer'[c] = answer[c]
            => AnswerInv(c)'
         /\ /\ view[c].upto <= view'[c].upto /\ view'[c].upto \in Nat
            /\ online'[c] = online[c] /\ stream'[c] = stream[c]
            /\ start'[c] = start[c] /\ sequence'[c] = sequence[c] /\ batch'[c] = batch[c]
            => BatchInv(c)'
<1>1. /\ view[c] \in Status /\ answer[c] \in Status /\ own[c] \in Nat
      /\ start[c] \in Nat /\ sequence[c] \in Nat /\ Len(batch[c]) \in Nat
      /\ Last \in Nat /\ Last' \in Nat /\ Last <= Last'
  BY DEF IInv, TypeOK, CatalogGrows, Last
<1>2. ViewInv(c) /\ AnswerInv(c) /\ BatchInv(c) /\ TypeOK
  BY DEF IInv, ClientInv
<1>3. Exact(view[c], log') /\ Exact(answer[c], log')
  BY <1>1, <1>2, ExactKept DEF ViewInv, AnswerInv
<1>4. view'[c] = view[c] => ViewInv(c)'
  BY <1>3 DEF ViewInv
<1>5. /\ pc'[c] = pc[c] /\ own'[c] = own[c] /\ answer'[c] = answer[c]
      => AnswerInv(c)'
  BY <1>1, <1>2, <1>3 DEF AnswerInv, At
<1>6. /\ view[c].upto <= view'[c].upto /\ view'[c].upto \in Nat
      /\ online'[c] = online[c] /\ stream'[c] = stream[c]
      /\ start'[c] = start[c] /\ sequence'[c] = sequence[c] /\ batch'[c] = batch[c]
      => BatchInv(c)'
  <2>1. view[c].upto \in Nat
    BY <1>1 DEF Status
  <2> QED
    BY <1>1, <1>2, <2>1 DEF BatchInv
<1> QED
  BY <1>4, <1>5, <1>6

-------------------------------------------------------------------------------
\* The organizer's own work, and a control whose catalog says so.
LEMMA WorkKeeps ==
  ASSUME IInv, CatalogGrows, Work
  PROVE  TypeOK' /\ \A c \in Clients : ClientInv(c)'
<1>1. TypeOK'
  BY DEF IInv, Work, TypeOK, CatalogGrows, requests, streams
<1>2. ASSUME NEW c \in Clients PROVE ClientInv(c)'
  <2>1. view[c].upto \in Nat
    BY DEF IInv, TypeOK, Status
  <2> QED
    BY <2>1, ClientKept DEF Work, requests, streams, ClientInv
<1> QED
  BY <1>1, <1>2

\* The requests of a client touch neither a view nor a stream before their answer.
LEMMA RequestKeeps ==
  ASSUME IInv, CatalogGrows, NEW d \in Clients,
         Ask(d) \/ SetMode(d) \/ ReadStatus(d) \/ RequestFails(d)
  PROVE  TypeOK' /\ \A c \in Clients : ClientInv(c)'
<1>1. TypeOK /\ CatalogInv /\ AnswerInv(d) /\ log \in Seq(Event) /\ log' \in Seq(Event)
  BY DEF IInv, ClientInv, CatalogGrows, TypeOK
<1>2. UNCHANGED <<view, streams>>
  BY DEF Ask, SetMode, ReadStatus, RequestFails
<1>3. \A c \in Clients \ {d} : pc'[c] = pc[c] /\ own'[c] = own[c] /\ answer'[c] = answer[c]
  BY <1>1 DEF Ask, SetMode, ReadStatus, RequestFails, Forget, TypeOK
<1>4. ASSUME NEW c \in Clients
      PROVE  ViewInv(c)' /\ BatchInv(c)' /\ (c # d => AnswerInv(c)')
  <2>1. view[c].upto \in Nat
    BY <1>1 DEF TypeOK, Status
  <2> QED
    BY <1>2, <1>3, <2>1, ClientKept DEF streams
<1>5. /\ answer[d] \in Status /\ Exact(answer[d], log') /\ own[d] <= Last'
      /\ own[d] \in Nat /\ Last \in Nat /\ Last' \in Nat
  BY <1>1, ExactKept DEF TypeOK, AnswerInv, CatalogGrows, Last
<1>6. CASE Ask(d)
  <2>1. pc' \in [Clients -> Points] /\ request' \in [Clients -> Modes] /\ pc'[d] # "answer"
    BY <1>1, <1>6 DEF Ask, TypeOK, Points
  <2>2. TypeOK'
    BY <1>1, <1>6, <2>1 DEF Ask, TypeOK, catalog, streams
  <2>3. AnswerInv(d)'
    BY <1>5, <1>6, <2>1 DEF Ask, AnswerInv, At
  <2> QED
    BY <1>4, <2>2, <2>3 DEF ClientInv
<1>7. CASE SetMode(d)
  <2>1. pc' \in [Clients -> Points] /\ own' \in [Clients -> Nat] /\ pc'[d] # "answer" /\ own'[d] = Last'
    BY <1>1, <1>5, <1>7 DEF SetMode, TypeOK, Points, Last
  <2>2. TypeOK'
    BY <1>1, <1>7, <2>1 DEF SetMode, TypeOK, CatalogGrows, streams
  <2>3. AnswerInv(d)'
    BY <1>5, <1>7, <2>1 DEF SetMode, AnswerInv, At
  <2> QED
    BY <1>4, <2>2, <2>3 DEF ClientInv
<1>8. CASE ReadStatus(d)
  <2> DEFINE now == [mode |-> mode, upto |-> Last]
  <2>1. now \in Status /\ Exact(now, log) /\ now.upto = Last
    BY <1>1, CatalogExact
  <2> HIDE DEF now
  <2>2. answer' = [answer EXCEPT ![d] = now] /\ pc' = [pc EXCEPT ![d] = "answer"]
    BY <1>8 DEF ReadStatus, now
  <2>3. TypeOK'
    BY <1>1, <1>8, <2>1, <2>2 DEF ReadStatus, TypeOK, Points, catalog, streams
  <2>4. answer'[d] = now /\ log' = log /\ own' = own
    BY <1>1, <1>8, <2>2 DEF ReadStatus, TypeOK, catalog
  <2>5. AnswerInv(d)'
    BY <1>1, <2>1, <2>4 DEF AnswerInv, Last
  <2> QED
    BY <1>4, <2>3, <2>5 DEF ClientInv
<1>9. CASE RequestFails(d)
  <2>1. Unknown \in Status /\ Exact(Unknown, log')
    BY <1>1, UnknownExact
  <2>2. TypeOK'
    BY <1>1, <1>9, <2>1, ModesAssumption
       DEF RequestFails, Forget, TypeOK, Points, catalog, streams
  <2>3. answer'[d] = Unknown /\ own'[d] = 0 /\ pc'[d] = "idle"
    BY <1>1, <1>9 DEF RequestFails, Forget, TypeOK
  <2>4. AnswerInv(d)'
    BY <1>5, <2>1, <2>3 DEF AnswerInv, At
  <2> QED
    BY <1>4, <2>2, <2>4 DEF ClientInv
<1> QED
  BY <1>6, <1>7, <1>8, <1>9

\* What a client comes to know is more, or the same, and nothing wrong.
Learned(d, v) ==
  /\ view' = [view EXCEPT ![d] = v]
  /\ Exact(v, log)
  /\ view[d].upto <= v.upto

\* An answer, a page and an event of the stream make a client learn.
LEMMA Learns ==
  ASSUME IInv, NEW d \in Clients, Respond(d) \/ ReadEvents(d) \/ Send(d)
  PROVE  \E v \in Status : Learned(d, v)
<1>1. /\ TypeOK /\ CatalogInv /\ ViewInv(d) /\ AnswerInv(d) /\ BatchInv(d)
      /\ log \in Seq(Event) /\ Last \in Nat
  BY DEF IInv, ClientInv, TypeOK, Last
<1>2. view[d] \in Status /\ answer[d] \in Status /\ view[d].upto \in Nat /\ answer[d].upto \in Nat
  BY <1>1 DEF TypeOK, Status
<1>3. CASE Respond(d)
  <2> DEFINE w == IF view[d].upto <= answer[d].upto THEN answer[d] ELSE view[d]
  <2>1. w \in Status /\ Exact(w, log) /\ view[d].upto <= w.upto
    BY <1>1, <1>2 DEF ViewInv, AnswerInv
  <2>2. view' = [view EXCEPT ![d] = w]
    BY <1>1, <1>3 DEF Respond, TypeOK
  <2> HIDE DEF w
  <2> QED
    BY <2>1, <2>2 DEF Learned
<1>4. CASE ReadEvents(d)
  <2> DEFINE n == view[d].upto + Len(EventsAfter(view[d].upto))
             v == [mode |-> ModeAt(n), upto |-> n]
  <2>1. view[d].upto <= Last
    BY <1>1 DEF ViewInv, Exact, Last
  <2>2. n \in 0 .. Last /\ view[d].upto <= n
    <3>1. /\ EventsAfter(view[d].upto) \in Seq(Nat \ {0})
          /\ view[d].upto + Len(EventsAfter(view[d].upto)) <= Last
      BY <1>1, <1>2, <2>1, EventsAfterPage
    <3>2. Len(EventsAfter(view[d].upto)) \in Nat
      BY <3>1
    <3> QED
      BY <1>1, <1>2, <3>1, <3>2
  <2>3. view' = [view EXCEPT ![d] = v]
    BY <1>4 DEF ReadEvents
  <2> HIDE DEF n
  <2>4. v \in Status /\ Exact(v, log) /\ v.upto = n
    BY <1>1, <2>2, ModeAtType DEF Status, Exact, ModeAt, Last
  <2> QED
    BY <2>2, <2>3, <2>4 DEF Learned
<1>5. CASE Send(d)
  <2> DEFINE h == Head(batch[d])
             v == IF online[d] THEN TakeIn(view[d], h) ELSE view[d]
  <2>1. h \in 1 .. Last
    BY <1>1, <1>5, HeadIsNext DEF Send
  <2>2. view' = [view EXCEPT ![d] = v]
    BY <1>1, <1>5 DEF Send, TypeOK
  <2>3. v \in Status /\ Exact(v, log) /\ view[d].upto <= v.upto
    <3>1. Exact(view[d], log)
      BY <1>1 DEF ViewInv
    <3> HIDE DEF h
    <3>2. CASE online[d]
      BY <1>1, <1>2, <2>1, <3>1, <3>2, TakeInExact
    <3>3. CASE ~online[d]
      BY <1>2, <3>1, <3>3
    <3> QED
      BY <3>2, <3>3
  <2> HIDE DEF v
  <2> QED
    BY <2>2, <2>3 DEF Learned
<1> QED
  BY <1>3, <1>4, <1>5

\* An answer and a page of events make a client know more, and nothing wrong.
LEMMA LearningKeeps ==
  ASSUME IInv, CatalogGrows, NEW d \in Clients, Respond(d) \/ ReadEvents(d)
  PROVE  TypeOK' /\ \A c \in Clients : ClientInv(c)'
<1>1. /\ TypeOK /\ CatalogInv /\ ViewInv(d) /\ AnswerInv(d)
      /\ log \in Seq(Event) /\ log' = log /\ Last \in Nat /\ UNCHANGED streams
  BY DEF IInv, ClientInv, TypeOK, Last, Respond, ReadEvents, catalog
<1>2. view[d] \in Status /\ answer[d] \in Status /\ view[d].upto \in Nat /\ answer[d].upto \in Nat
  BY <1>1 DEF TypeOK, Status
<1>3. PICK v \in Status : Learned(d, v)
  BY Learns
<1>4. view' \in [Clients -> Status] /\ view'[d] = v
      /\ \A c \in Clients \ {d} : view'[c] = view[c]
  BY <1>1, <1>3 DEF Learned, TypeOK
<1>5. ASSUME NEW c \in Clients PROVE ViewInv(c)' /\ BatchInv(c)'
  <2>1. view[c].upto \in Nat /\ view'[c].upto \in Nat
    BY <1>1, <1>4 DEF TypeOK, Status
  <2>2. view[c].upto <= view'[c].upto
    BY <1>3, <1>4, <2>1 DEF Learned
  <2>3. BatchInv(c)'
    BY <1>1, <2>1, <2>2, ClientKept DEF streams
  <2>4. ViewInv(c)'
    BY <1>1, <1>3, <1>4, ClientKept DEF Learned, ViewInv
  <2> QED
    BY <2>3, <2>4
<1>6. CASE Respond(d)
  <2>1. Unknown \in Status /\ Exact(Unknown, log')
    BY <1>1, UnknownExact
  <2>2. TypeOK'
    BY <1>1, <1>4, <1>6, <2>1, ModesAssumption
       DEF Respond, Forget, TypeOK, Points, catalog, streams
  <2>3. answer'[d] = Unknown /\ own'[d] = 0 /\ pc'[d] = "idle" /\ Last' = Last
        /\ \A c \in Clients \ {d} :
              pc'[c] = pc[c] /\ own'[c] = own[c] /\ answer'[c] = answer[c]
    BY <1>1, <1>6 DEF Respond, Forget, TypeOK, Last
  <2>4. AnswerInv(d)'
    BY <1>1, <2>1, <2>3 DEF AnswerInv, At
  <2>5. \A c \in Clients : AnswerInv(c)'
    BY <2>3, <2>4, ClientKept
  <2> QED
    BY <1>5, <2>2, <2>5 DEF ClientInv
<1>7. CASE ReadEvents(d)
  <2>1. UNCHANGED <<catalog, requests, streams>>
    BY <1>7 DEF ReadEvents
  <2>2. TypeOK'
    BY <1>1, <1>4, <2>1 DEF TypeOK, catalog, requests, streams
  <2>3. \A c \in Clients : AnswerInv(c)'
    BY <2>1, ClientKept DEF requests
  <2> QED
    BY <1>5, <2>2, <2>3 DEF ClientInv
<1> QED
  BY <1>6, <1>7

\* A stream takes its cursor from what its client knows or has known, and its
\* batches from the catalog, one after the other.
LEMMA StreamKeeps ==
  ASSUME IInv, CatalogGrows, NEW d \in Clients,
         Open(d) \/ Leave(d) \/ Close(d) \/ Step(d)
  PROVE  TypeOK' /\ \A c \in Clients : ClientInv(c)'
<1>1. /\ TypeOK /\ CatalogInv /\ ViewInv(d) /\ BatchInv(d)
      /\ UNCHANGED <<catalog, requests>> /\ log' = log /\ Last' = Last /\ Last \in Nat
  BY DEF IInv, ClientInv, TypeOK, Open, Leave, Close, Step, Poll, Send, Wake, catalog, Last
<1>2. /\ view[d] \in Status /\ view[d].upto \in Nat /\ sequence[d] \in Nat /\ start[d] \in Nat
      /\ Len(batch[d]) \in Nat /\ batch[d] \in Seq(Nat \ {0})
  BY <1>1 DEF TypeOK, Status
<1>3. \A c \in Clients : AnswerInv(c)'
  BY <1>1, ClientKept DEF requests
<1>4. view[d].upto <= Last
  BY <1>1 DEF ViewInv, Exact, Last
<1>5. ASSUME NEW c \in Clients, c # d
      PROVE  ViewInv(c)' /\ BatchInv(c)'
  <2>1. view[c].upto \in Nat
    BY <1>1 DEF TypeOK, Status
  <2>2. /\ view'[c] = view[c] /\ online'[c] = online[c] /\ stream'[c] = stream[c]
        /\ start'[c] = start[c] /\ sequence'[c] = sequence[c] /\ batch'[c] = batch[c]
    BY <1>1, <1>5 DEF TypeOK, Open, Leave, Close, Step, Poll, Send, Wake
  <2> QED
    BY <2>1, <2>2, ClientKept
<1>6. ASSUME UNCHANGED view PROVE ViewInv(d)'
  BY <1>6, ClientKept
<1>7. CASE Open(d)
  <2>1. PICK n \in {view[d].upto, start[d]} :
          /\ start' = [start EXCEPT ![d] = n]
          /\ sequence' = [sequence EXCEPT ![d] = n]
    BY <1>7 DEF Open
  <2>2. n \in Nat /\ n <= view[d].upto
    BY <1>1, <1>2 DEF BatchInv
  <2>3. batch[d] = <<>>
    BY <1>1, <1>7 DEF Open, BatchInv
  <2>4. TypeOK'
    BY <1>1, <1>7, <2>1, <2>2 DEF Open, TypeOK, StreamPoints, catalog, requests
  <2>5. start'[d] = n /\ sequence'[d] = n /\ stream'[d] = "poll" /\ batch'[d] = <<>> /\ view' = view
    BY <1>1, <1>7, <2>1, <2>3 DEF Open, TypeOK
  <2>6. BatchInv(d)'
    BY <1>1, <1>2, <1>4, <2>2, <2>5 DEF BatchInv
  <2> QED
    BY <1>3, <1>5, <1>6, <2>4, <2>5, <2>6 DEF ClientInv
<1>8. CASE Leave(d)
  <2>1. TypeOK' /\ view' = view
    BY <1>1, <1>8 DEF Leave, TypeOK, catalog, requests
  <2>2. BatchInv(d)'
    BY <1>1, <1>8 DEF Leave, TypeOK, BatchInv
  <2> QED
    BY <1>3, <1>5, <1>6, <2>1, <2>2 DEF ClientInv
<1>9. CASE Close(d)
  <2>1. TypeOK' /\ view' = view
    BY <1>1, <1>9 DEF Close, TypeOK, StreamPoints, catalog, requests
  <2>2. batch'[d] = <<>> /\ sequence'[d] = 0 /\ stream'[d] = "closed" /\ ~online'[d] /\ start' = start
    BY <1>1, <1>9 DEF Close, TypeOK, BatchInv
  <2>3. BatchInv(d)'
    BY <1>1, <2>1, <2>2 DEF BatchInv
  <2> QED
    BY <1>3, <1>5, <1>6, <2>1, <2>3 DEF ClientInv
<1>10. CASE Poll(d)
  <2> DEFINE page == EventsAfter(sequence[d])
  <2>1. sequence[d] <= Last
    BY <1>1, <1>2 DEF BatchInv
  <2>2. /\ page \in Seq(Nat \ {0}) /\ Len(page) <= Limit /\ sequence[d] + Len(page) <= Last
        /\ \A k \in 1 .. Len(page) : page[k] = sequence[d] + k
    BY <1>1, <1>2, <2>1, EventsAfterPage
  <2>3. /\ batch' = [batch EXCEPT ![d] = page]
        /\ stream' = [stream EXCEPT ![d] = IF page = <<>> THEN "sleep" ELSE "send"]
        /\ UNCHANGED <<view, online, start, sequence>>
    BY <1>10 DEF Poll
  <2> HIDE DEF page
  <2>4. TypeOK'
    BY <1>1, <2>2, <2>3 DEF TypeOK, StreamPoints, catalog, requests
  <2>5. BatchInv(d)'
    BY <1>1, <2>2, <2>3 DEF TypeOK, BatchInv
  <2> QED
    BY <1>3, <1>5, <1>6, <2>3, <2>4, <2>5 DEF ClientInv
<1>11. CASE Send(d)
  <2> DEFINE h == Head(batch[d])
             t == Tail(batch[d])
             v == IF online[d] THEN TakeIn(view[d], h) ELSE view[d]
  <2>1. /\ h = sequence[d] + 1 /\ h \in 1 .. Last /\ t \in Seq(Nat \ {0})
        /\ Len(t) = Len(batch[d]) - 1
        /\ \A k \in 1 .. Len(t) : t[k] = sequence[d] + 1 + k
    BY <1>1, <1>11, HeadIsNext DEF Send
  <2>2. /\ v \in Status /\ Exact(v, log) /\ view[d].upto <= v.upto
        /\ online[d] /\ h <= view[d].upto + 1 => h <= v.upto
    <3>1. CASE online[d]
      <4>1. v = TakeIn(view[d], h)
        BY <3>1
      <4>2. Exact(view[d], log)
        BY <1>1 DEF ViewInv
      <4> HIDE DEF v, h
      <4> QED
        BY <1>1, <1>2, <2>1, <4>1, <4>2, TakeInExact
    <3>2. CASE ~online[d]
      BY <1>1, <1>2, <3>2 DEF ViewInv
    <3> QED
      BY <3>1, <3>2
  <2>3. /\ sequence' = [sequence EXCEPT ![d] = h]
        /\ batch' = [batch EXCEPT ![d] = t]
        /\ stream' = [stream EXCEPT ![d] = IF t = <<>> THEN "sleep" ELSE "send"]
        /\ view' = [view EXCEPT ![d] = v]
        /\ UNCHANGED <<online, start>>
    BY <1>1, <1>11 DEF Send, TypeOK
  <2> HIDE DEF h, t, v
  <2>4. Len(t) <= Limit /\ h \in Nat
    BY <1>1, <1>2, <2>1, LimitAssumption DEF TypeOK
  <2>5. TypeOK'
    BY <1>1, <2>1, <2>2, <2>3, <2>4 DEF TypeOK, StreamPoints, catalog, requests
  <2>6. /\ sequence'[d] = h /\ batch'[d] = t /\ view'[d] = v
        /\ stream'[d] = IF t = <<>> THEN "sleep" ELSE "send"
    BY <1>1, <2>3 DEF TypeOK
  <2>7. online[d] => h <= v.upto
    BY <1>1, <1>2, <2>1, <2>2 DEF BatchInv
  <2>8. start[d] <= v.upto /\ v.upto \in Nat
    BY <1>1, <1>2, <2>2 DEF BatchInv, Status
  <2>9. h + Len(t) <= Last
    BY <1>1, <1>2, <2>1 DEF BatchInv
  <2>10. BatchInv(d)'
    <3>1. online'[d] = online[d] /\ start'[d] = start[d] /\ view'[d].upto = v.upto
      BY <2>3, <2>6
    <3>2. \A k \in 1 .. Len(batch'[d]) : batch'[d][k] = sequence'[d] + k
      BY <2>1, <2>6
    <3>3. sequence'[d] + Len(batch'[d]) <= Last'
      BY <1>1, <2>6, <2>9
    <3>4. (stream'[d] = "send" <=> batch'[d] # <<>>) /\ stream'[d] # "closed"
      BY <2>6
    <3> QED
      BY <2>6, <2>7, <2>8, <3>1, <3>2, <3>3, <3>4 DEF BatchInv
  <2>11. ViewInv(d)'
    BY <1>1, <2>2, <2>6 DEF ViewInv
  <2> QED
    BY <1>3, <1>5, <2>5, <2>10, <2>11 DEF ClientInv
<1>12. CASE Wake(d)
  <2>1. TypeOK' /\ view' = view
    BY <1>1, <1>12 DEF Wake, TypeOK, StreamPoints, catalog, requests
  <2>2. BatchInv(d)'
    BY <1>1, <1>12 DEF Wake, TypeOK, BatchInv
  <2> QED
    BY <1>3, <1>5, <1>6, <2>1, <2>2 DEF ClientInv
<1> QED
  BY <1>7, <1>8, <1>9, <1>10, <1>11, <1>12 DEF Step

\* A crash ends every request and every stream, and takes nothing from a client.
LEMMA CrashKeeps ==
  ASSUME IInv, CatalogGrows, Crash
  PROVE  TypeOK' /\ \A c \in Clients : ClientInv(c)'
<1>1. TypeOK /\ log \in Seq(Event) /\ log' = log /\ Last' = Last /\ Last \in Nat
  BY DEF IInv, TypeOK, Crash, catalog, Last
<1>2. Unknown \in Status /\ Exact(Unknown, log')
  BY <1>1, UnknownExact
<1>3. TypeOK'
  BY <1>1, <1>2, ModesAssumption, LimitAssumption
     DEF Crash, TypeOK, Points, StreamPoints, catalog
<1>4. ASSUME NEW c \in Clients PROVE ClientInv(c)'
  <2>1. BatchInv(c)
    BY DEF IInv, ClientInv
  <2>2. ViewInv(c)'
    BY ClientKept DEF Crash
  <2>3. AnswerInv(c)'
    BY <1>1, <1>2 DEF Crash, AnswerInv, At
  <2>4. BatchInv(c)'
    BY <1>1, <2>1 DEF Crash, BatchInv
  <2> QED
    BY <2>2, <2>3, <2>4 DEF ClientInv
<1> QED
  BY <1>3, <1>4

-------------------------------------------------------------------------------
LEMMA InitHolds == Init => IInv
<1> SUFFICES ASSUME Init PROVE IInv
  OBVIOUS
<1>1. log = <<>> /\ log \in Seq(Event) /\ Last = 0
  BY DEF Init, Last
<1>2. Unknown \in Status /\ Exact(Unknown, log)
  BY <1>1, UnknownExact
<1>3. TypeOK
  BY <1>1, <1>2, ModesAssumption, LimitAssumption DEF Init, TypeOK, Points, StreamPoints
<1>4. \A n \in 0 .. Last : Controls(log, n) = {}
  BY <1>1 DEF Controls
<1>5. CatalogInv
  BY <1>1, <1>4 DEF CatalogInv, ModeAt, ModeAfter, Init
<1>6. ASSUME NEW c \in Clients PROVE ClientInv(c)
  BY <1>1, <1>2 DEF Init, ClientInv, ViewInv, AnswerInv, BatchInv, At, Unknown
<1> QED
  BY <1>3, <1>5, <1>6 DEF IInv

LEMMA NextKeeps == IInv /\ [Next]_vars => IInv'
<1> SUFFICES ASSUME IInv, [Next]_vars PROVE IInv'
  OBVIOUS
<1>1. CatalogInv' /\ CatalogGrows
  BY CatalogKept, StepsTheCatalog DEF IInv
<1>2. CASE Work
  BY <1>1, <1>2, WorkKeeps DEF IInv
<1>3. CASE Crash
  BY <1>1, <1>3, CrashKeeps DEF IInv
<1>4. ASSUME NEW d \in Clients, Page(d)
      PROVE  IInv'
  BY <1>1, <1>4, RequestKeeps, LearningKeeps DEF IInv, Page
<1>5. ASSUME NEW d \in Clients, Open(d) \/ Leave(d) \/ Close(d) \/ Step(d)
      PROVE  IInv'
  BY <1>1, <1>5, StreamKeeps DEF IInv
<1>6. CASE UNCHANGED vars
  <2>1. UNCHANGED <<catalog, requests, view, streams>>
    BY <1>6 DEF vars
  <2>2. TypeOK'
    BY <2>1 DEF IInv, TypeOK, catalog, requests, streams
  <2>3. ASSUME NEW c \in Clients PROVE ClientInv(c)'
    BY <2>1 DEF IInv, ClientInv, ViewInv, AnswerInv, BatchInv, Exact, At, Last,
                catalog, requests, streams
  <2> QED
    BY <1>1, <2>2, <2>3 DEF IInv
<1> QED
  BY <1>2, <1>3, <1>4, <1>5, <1>6 DEF Next

LEMMA Invariance == Spec => []IInv
BY InitHolds, NextKeeps, PTL DEF Spec

\* Every variable keeps its type, and no batch is longer than the limit, for any
\* number of clients, modes and events.
THEOREM TypeCorrect == Spec => []TypeOK
<1>1. IInv => TypeOK
  BY DEF IInv
<1> QED
  BY <1>1, Invariance, PTL

\* No event is passed over by a stream whose client is there: its cursor is at
\* what the client knows, or before it.
THEOREM NothingIsSkipped == Spec => []NothingSkipped
<1>1. IInv => NothingSkipped
  BY DEF IInv, ClientInv, BatchInv, NothingSkipped
<1> QED
  BY <1>1, Invariance, PTL

\* What a client takes for the mode is the mode as of the last event it knows.
THEOREM ViewsAreExact == Spec => []ViewIsExact
<1>1. IInv => ViewIsExact
  BY DEF IInv, ClientInv, ViewInv, Exact, ViewIsExact, ModeAt
<1> QED
  BY <1>1, Invariance, PTL

\* The answer of a control is a status that is not older than the control.
THEOREM ControlsAreShown == Spec => []ControlIsShown
<1>1. IInv => ControlIsShown
  BY DEF IInv, ClientInv, AnswerInv, Exact, ControlIsShown, ModeAt
<1> QED
  BY <1>1, Invariance, PTL

-------------------------------------------------------------------------------
(***************************************************************************)
(* The mode as a history.                                                  *)
(***************************************************************************)

\* The history of the mode has a state for every event, and begins with the first.
HistoryInv ==
  /\ History \in Seq(Modes)
  /\ Len(History) = Last + 1
  /\ \A n \in 0 .. Last : History[n + 1] = ModeAt(n)

LEMMA HistoryType == IInv => HistoryInv
<1> SUFFICES ASSUME IInv PROVE HistoryInv
  OBVIOUS
<1>1. Last \in Nat /\ TypeOK /\ CatalogInv
  BY DEF IInv, TypeOK, Last
<1>2. \A n \in 1 .. Last + 1 : ModeAt(n - 1) \in Modes
  <2> SUFFICES ASSUME NEW n \in 1 .. Last + 1 PROVE ModeAt(n - 1) \in Modes
    OBVIOUS
  <2>1. n - 1 \in 0 .. Last
    BY <1>1
  <2> QED
    BY <1>1, <2>1, ModeAtType
<1>3. History \in [1 .. Last + 1 -> Modes]
  BY <1>2 DEF History
<1>4. \A n \in 0 .. Last : n + 1 \in 1 .. Last + 1 /\ (n + 1) - 1 = n
  BY <1>1
<1>5. \A n \in 0 .. Last : History[n + 1] = ModeAt(n)
  BY <1>4 DEF History
<1> QED
  BY <1>1, <1>3, <1>5 DEF HistoryInv

\* An event adds a state to the history, and nothing else changes it.
LEMMA HistoryGrows ==
  ASSUME IInv, IInv', CatalogStep
  PROVE  \/ History' = History /\ log' = log
         \/ \E s \in Modes : History' = Append(History, s)
<1>1. CASE UNCHANGED catalog
  BY <1>1 DEF catalog, History, ModeAt, Last
<1>2. ASSUME NEW e \in Event, log' = Append(log, e)
      PROVE  \E s \in Modes : History' = Append(History, s)
  <2>1. CatalogGrows
    BY CatalogKept DEF IInv
  <2>2. log \in Seq(Event) /\ Last \in Nat /\ Last' = Last + 1
    BY <1>2 DEF IInv, TypeOK, Last
  <2>3. /\ History \in Seq(Modes) /\ Len(History) = Last + 1
        /\ \A n \in 0 .. Last : History[n + 1] = ModeAt(n)
    BY HistoryType DEF HistoryInv
  <2>4. /\ History' \in Seq(Modes) /\ Len(History') = Last + 2
        /\ \A n \in 0 .. Last + 1 : History'[n + 1] = ModeAfter(log', n)
    <3>1. IInv' => HistoryInv'
      BY HistoryType, PTL
    <3> QED
      BY <2>2, <3>1 DEF HistoryInv, ModeAt
  <2> DEFINE s == History'[Last + 2]
  <2>5. s \in Modes
    BY <2>2, <2>4
  <2>6. ASSUME NEW k \in 1 .. Last + 1 PROVE History'[k] = History[k]
    <3>1. k - 1 \in 0 .. Last /\ k - 1 \in 0 .. Last + 1 /\ (k - 1) + 1 = k
      BY <2>2
    <3>2. History[k] = ModeAfter(log, k - 1)
      BY <2>3, <3>1 DEF ModeAt
    <3>3. History'[k] = ModeAfter(log', k - 1)
      BY <2>4, <3>1
    <3> QED
      BY <2>1, <3>1, <3>2, <3>3 DEF CatalogGrows
  <2>7. History' = Append(History, s)
    BY <2>2, <2>3, <2>4, <2>5, <2>6
  <2> QED
    BY <2>5, <2>7
<1> QED
  BY <1>1, <1>2 DEF CatalogStep

\* Who learns reads the history at the place it then knows.
LEMMA LearningReads ==
  ASSUME IInv, NEW d \in Clients, NEW v \in Status, Learned(d, v), log' = log
  PROVE  Reads!Read(d)
<1>1. TypeOK /\ Last \in Nat /\ view \in [Clients -> Status]
  BY DEF IInv, TypeOK, Last
<1>2. v.upto \in 0 .. Last /\ v.mode = ModeAt(v.upto) /\ view[d].upto \in Nat
  BY <1>1 DEF Learned, Exact, Status, ModeAt, Last
<1>3. /\ Len(History) = Last + 1
      /\ \A n \in 0 .. Last : History[n + 1] = ModeAt(n)
  BY HistoryType DEF HistoryInv
<1> DEFINE n == v.upto + 1
<1>4. n \in Known[d].at .. Len(History)
  BY <1>1, <1>2, <1>3 DEF Learned, Known
<1>5. Known' = [Known EXCEPT ![d] = [at |-> n, state |-> History[n]]]
  BY <1>1, <1>2, <1>3 DEF Learned, Known
<1>6. History' = History
  BY DEF History, ModeAt, Last
<1> HIDE DEF n
<1> QED
  BY <1>4, <1>5, <1>6 DEF Reads!Read

\* Every step changes the history, is one reading, or neither.
LEMMA StepRefines ==
  ASSUME IInv, IInv', [Next]_vars
  PROVE  [Reads!Next]_Reads!vars
<1>1. CatalogStep
  BY StepsTheCatalog DEF IInv
<1>2. ASSUME UNCHANGED view PROVE [Reads!Next]_Reads!vars
  <2>1. Known' = Known
    BY <1>2 DEF Known
  <2>2. \/ History' = History
        \/ \E s \in Modes : History' = Append(History, s)
    BY <1>1, HistoryGrows
  <2> QED
    BY <2>1, <2>2 DEF Reads!Next, Reads!Change, Reads!vars
<1>3. ASSUME NEW d \in Clients, Respond(d) \/ ReadEvents(d) \/ Send(d)
      PROVE  Reads!Next
  <2>1. PICK v \in Status : Learned(d, v)
    BY <1>3, Learns
  <2>2. log' = log
    BY <1>3 DEF Respond, ReadEvents, Send, catalog
  <2>3. Reads!Read(d)
    BY <2>1, <2>2, LearningReads
  <2> QED
    BY <2>3 DEF Reads!Next
<1>4. CASE Work \/ Crash \/ UNCHANGED vars
  BY <1>2, <1>4 DEF Work, Crash, vars
<1>5. ASSUME NEW d \in Clients,
             \/ Ask(d) \/ SetMode(d) \/ ReadStatus(d) \/ RequestFails(d)
             \/ Open(d) \/ Leave(d) \/ Close(d) \/ Poll(d) \/ Wake(d)
      PROVE  [Reads!Next]_Reads!vars
  BY <1>2, <1>5 DEF Ask, SetMode, ReadStatus, RequestFails, Open, Leave, Close, Poll, Wake
<1> QED
  BY <1>3, <1>4, <1>5 DEF Next, Page, Step

LEMMA InitRefines == Init => Reads!Init
<1> SUFFICES ASSUME Init PROVE Reads!Init
  OBVIOUS
<1>1. IInv /\ Last = 0
  BY InitHolds DEF Init, Last
<1>2. /\ History \in Seq(Modes) /\ Len(History) = 1
      /\ History[1] = ModeAt(0)
  <2>1. 0 \in 0 .. Last /\ 0 + 1 = 1
    BY <1>1
  <2> QED
    BY <1>1, <2>1, HistoryType DEF HistoryInv
<1>3. ModeAt(0) = Off
  BY <1>1 DEF IInv, CatalogInv, Init
<1>4. History = <<Off>>
  BY <1>2, <1>3
<1>5. Known = [c \in Clients |-> [at |-> 1, state |-> Off]]
  BY DEF Init, Known, Unknown
<1> QED
  BY <1>4, <1>5 DEF Reads!Init

\* The statuses, answered controls, pages and streams of the organizer give every
\* client monotonic reads of one history of modes, for any number of clients.
THEOREM Refinement == Spec => ImplementsMonotonicReads
BY InitRefines, StepRefines, Invariance, PTL DEF Spec, ImplementsMonotonicReads, Reads!Spec

==============================================================================
