---------------------------- MODULE OrganizerStream ----------------------------
(***************************************************************************)
(* The organizer routes of the control API (routers/organizer.py): status, *)
(* control, event pages and the stream of server-sent events.              *)
(*                                                                         *)
(* The catalog with the mode and the events belongs to another package,    *)
(* projectkoios agent; each call of it is one transaction.  A stream is a  *)
(* coroutine of the event loop that polls the catalog with a cursor of its *)
(* own; whatever happens at an await may come between two of its steps.    *)
(*                                                                         *)
(* What a client makes of the answers is modelled, as the measure of them: *)
(* it knows the events up to some sequence, and the mode they leave, and   *)
(* takes an event in only if it is the next one.                           *)
(***************************************************************************)
EXTENDS Naturals, Sequences

CONSTANTS
  Clients,     \* browsers, each with a page and at most one stream
  Modes,       \* on, pause and off
  Off,         \* the mode of a new catalog
  Limit,       \* the limit of events_after
  MaxEvents    \* bound: events the catalog gets

ASSUME ModesAssumption == Off \in Modes /\ "work" \notin Modes
ASSUME LimitAssumption == Limit \in Nat \ {0}
ASSUME MaxEventsAssumption == MaxEvents \in Nat

\* An event is what a control set, or one of the organizer's own.
Event == Modes \union {"work"}

Status == [mode : Modes, upto : Nat]

Unknown == [mode |-> Off, upto |-> 0]

VARIABLES
  mode,     \* desired_mode of the catalog
  log,      \* its events; the sequence of an event is its index
  pc,       \* where the status or control request of a client stands
  request,  \* the mode it asks for
  own,      \* history: the last sequence when its set_mode was done
  answer,   \* the status its request is answered with
  view,     \* what each client knows
  online,   \* the client holds its stream open
  stream,   \* where the coroutine of the stream stands
  start,    \* the query parameter `after` of the stream
  sequence, \* the cursor of the coroutine
  batch     \* the events it has read and not yielded yet

catalog == <<mode, log>>
requests == <<pc, request, own, answer>>
streams == <<online, stream, start, sequence, batch>>
vars == <<catalog, requests, view, streams>>

Points == {"idle", "control", "status", "answer"}

StreamPoints == {"closed", "poll", "send", "sleep"}

-------------------------------------------------------------------------------
Last == Len(log)

Controls(s, n) == {k \in 1 .. n : s[k] # "work"}

IsLatest(k, S) == k \in S /\ \A j \in S : j <= k

Latest(S) == CHOOSE k \in S : IsLatest(k, S)

\* The mode the first n events of s leave.
ModeAfter(s, n) ==
  IF Controls(s, n) = {} THEN Off ELSE s[Latest(Controls(s, n))]

ModeAt(n) == ModeAfter(log, n)

\* Mutant: the cursor is inclusive.
EventsFrom(n) == [k \in 1 .. (IF Last - n < Limit THEN Last - n ELSE Limit) |-> n + k - 1]

\* events_after(n): the sequences of the events after n, at most Limit of them.
EventsAfter(n) == [k \in 1 .. (IF Last - n < Limit THEN Last - n ELSE Limit) |-> n + k]

-------------------------------------------------------------------------------
Init ==
  /\ mode = Off
  /\ log = <<>>
  /\ pc = [c \in Clients |-> "idle"]
  /\ request = [c \in Clients |-> Off]
  /\ own = [c \in Clients |-> 0]
  /\ answer = [c \in Clients |-> Unknown]
  /\ view = [c \in Clients |-> Unknown]
  /\ online = [c \in Clients |-> FALSE]
  /\ stream = [c \in Clients |-> "closed"]
  /\ start = [c \in Clients |-> 0]
  /\ sequence = [c \in Clients |-> 0]
  /\ batch = [c \in Clients |-> <<>>]

\* The organizer does something and says so, or its mode is set by other means
\* than this API.
Work ==
  /\ Last < MaxEvents
  /\ \E e \in Event :
       /\ log' = Append(log, e)
       /\ mode' = IF e \in Modes THEN e ELSE mode
  /\ UNCHANGED <<requests, view, streams>>

-------------------------------------------------------------------------------
\* Requests.

At(c, point) == pc[c] = point

\* GET /status, or PUT /control with a mode.
Ask(c) ==
  /\ At(c, "idle")
  /\ \/ pc' = [pc EXCEPT ![c] = "status"] /\ UNCHANGED request
     \/ /\ pc' = [pc EXCEPT ![c] = "control"]
        /\ \E m \in Modes : request' = [request EXCEPT ![c] = m]
  /\ UNCHANGED <<catalog, own, answer, view, streams>>

\* Mutant: the status is read before the mode is set.
SetModeAfterStatus(c) ==
  /\ At(c, "control")
  /\ mode' = request[c]
  /\ \/ Last < MaxEvents /\ log' = Append(log, request[c])
     \/ mode = request[c] /\ UNCHANGED log
  /\ own' = [own EXCEPT ![c] = Len(log')]
  /\ answer' = [answer EXCEPT ![c] = [mode |-> mode, upto |-> Last]]
  /\ pc' = [pc EXCEPT ![c] = "answer"]
  /\ UNCHANGED <<request, view, streams>>

\* update_control: set_mode, which says so unless nothing changes.
SetMode(c) ==
  /\ At(c, "control")
  /\ mode' = request[c]
  /\ \/ Last < MaxEvents /\ log' = Append(log, request[c])
     \/ mode = request[c] /\ UNCHANGED log
  /\ own' = [own EXCEPT ![c] = Len(log')]
  /\ pc' = [pc EXCEPT ![c] = "status"]
  /\ UNCHANGED <<request, answer, view, streams>>

\* Mutant: a control is answered with the mode asked for.
ReadStatusAsAsked(c) ==
  /\ At(c, "status")
  /\ answer' = [answer EXCEPT ![c] =
                  [mode |-> IF own[c] > 0 THEN request[c] ELSE mode, upto |-> Last]]
  /\ pc' = [pc EXCEPT ![c] = "answer"]
  /\ UNCHANGED <<catalog, request, own, view, streams>>

\* provider.status(), one snapshot of the catalog.
ReadStatus(c) ==
  /\ At(c, "status")
  /\ answer' = [answer EXCEPT ![c] = [mode |-> mode, upto |-> Last]]
  /\ pc' = [pc EXCEPT ![c] = "answer"]
  /\ UNCHANGED <<catalog, request, own, view, streams>>

\* The request of c is over.
Forget(c) ==
  /\ pc' = [pc EXCEPT ![c] = "idle"]
  /\ request' = [request EXCEPT ![c] = Off]
  /\ own' = [own EXCEPT ![c] = 0]
  /\ answer' = [answer EXCEPT ![c] = Unknown]

\* The catalog raises, which no handler maps: 500.
RequestFails(c) ==
  /\ At(c, "control") \/ At(c, "status")
  /\ Forget(c)
  /\ UNCHANGED <<catalog, view, streams>>

\* The answer reaches the client, which may know more by then.
Respond(c) ==
  /\ At(c, "answer")
  /\ Forget(c)
  /\ view' = [view EXCEPT ![c] = IF @.upto <= answer[c].upto THEN answer[c] ELSE @]
  /\ UNCHANGED <<catalog, streams>>

\* A client takes in event n if it is the next one.
TakeIn(v, n) ==
  IF n = v.upto + 1
  THEN [mode |-> IF log[n] = "work" THEN v.mode ELSE log[n], upto |-> n]
  ELSE v

\* GET /events?after=, asked by a client for what it does not know; a page is
\* taken in at its end.
ReadEvents(c) ==
  LET page == EventsAfter(view[c].upto)
      n == view[c].upto + Len(page)
  IN  /\ page # <<>>
      /\ view' = [view EXCEPT ![c] = [mode |-> ModeAt(n), upto |-> n]]
      /\ UNCHANGED <<catalog, requests, streams>>

-------------------------------------------------------------------------------
\* The stream.

\* GET /events/stream: after what the client knows, or, where the browser
\* reconnects by itself, with the `after` of its first request.
Open(c) ==
  /\ stream[c] = "closed"
  /\ online' = [online EXCEPT ![c] = TRUE]
  /\ stream' = [stream EXCEPT ![c] = "poll"]
  /\ \E n \in {view[c].upto, start[c]} :
       /\ start' = [start EXCEPT ![c] = n]
       /\ sequence' = [sequence EXCEPT ![c] = n]
  /\ UNCHANGED <<catalog, requests, view, batch>>

\* The client goes away; the coroutine learns of it later.
Leave(c) ==
  /\ online[c]
  /\ online' = [online EXCEPT ![c] = FALSE]
  /\ UNCHANGED <<catalog, requests, view, stream, start, sequence, batch>>

\* The coroutine ends, because its client is gone or because the catalog raises.
Close(c) ==
  /\ stream[c] = "poll"
  /\ stream' = [stream EXCEPT ![c] = "closed"]
  /\ online' = [online EXCEPT ![c] = FALSE]
  /\ sequence' = [sequence EXCEPT ![c] = 0]
  /\ UNCHANGED <<catalog, requests, view, start, batch>>

\* Mutant: the loop does not ask whether its client is there.
PollForever(c) ==
  /\ stream[c] = "poll"
  /\ batch' = [batch EXCEPT ![c] = EventsAfter(sequence[c])]
  /\ stream' = [stream EXCEPT ![c] =
                  IF EventsAfter(sequence[c]) = <<>> THEN "sleep" ELSE "send"]
  /\ UNCHANGED <<catalog, requests, view, online, start, sequence>>

\* The loop reads the next events; without any, it yields a keep-alive.
Poll(c) ==
  /\ stream[c] = "poll"
  /\ online[c]
  /\ batch' = [batch EXCEPT ![c] = EventsAfter(sequence[c])]
  /\ stream' = [stream EXCEPT ![c] =
                  IF EventsAfter(sequence[c]) = <<>> THEN "sleep" ELSE "send"]
  /\ UNCHANGED <<catalog, requests, view, online, start, sequence>>

\* Mutant: the cursor is moved to the end of the catalog, not of the batch.
SendToEnd(c) ==
  /\ stream[c] = "send"
  /\ sequence' = [sequence EXCEPT ![c] = Last]
  /\ batch' = [batch EXCEPT ![c] = Tail(@)]
  /\ view' = IF online[c]
             THEN [view EXCEPT ![c] = TakeIn(@, Head(batch[c]))]
             ELSE view
  /\ stream' = [stream EXCEPT ![c] = IF Tail(batch[c]) = <<>> THEN "sleep" ELSE "send"]
  /\ UNCHANGED <<catalog, requests, online, start>>

\* Mutant: the cursor stays where the stream began.
SendWithoutCursor(c) ==
  /\ stream[c] = "send"
  /\ batch' = [batch EXCEPT ![c] = Tail(@)]
  /\ view' = IF online[c]
             THEN [view EXCEPT ![c] = TakeIn(@, Head(batch[c]))]
             ELSE view
  /\ stream' = [stream EXCEPT ![c] = IF Tail(batch[c]) = <<>> THEN "sleep" ELSE "send"]
  /\ UNCHANGED <<catalog, requests, online, start, sequence>>

\* The loop yields an event; it is lost where the client is gone.
Send(c) ==
  /\ stream[c] = "send"
  /\ sequence' = [sequence EXCEPT ![c] = Head(batch[c])]
  /\ batch' = [batch EXCEPT ![c] = Tail(@)]
  /\ view' = IF online[c]
             THEN [view EXCEPT ![c] = TakeIn(@, Head(batch[c]))]
             ELSE view
  /\ stream' = [stream EXCEPT ![c] = IF Tail(batch[c]) = <<>> THEN "sleep" ELSE "send"]
  /\ UNCHANGED <<catalog, requests, online, start>>

\* asyncio.sleep(1.0) is over.
Wake(c) ==
  /\ stream[c] = "sleep"
  /\ stream' = [stream EXCEPT ![c] = "poll"]
  /\ UNCHANGED <<catalog, requests, view, online, start, sequence, batch>>

\* The server dies and starts again; the catalog stays.
Crash ==
  /\ pc' = [c \in Clients |-> "idle"]
  /\ request' = [c \in Clients |-> Off]
  /\ own' = [c \in Clients |-> 0]
  /\ answer' = [c \in Clients |-> Unknown]
  /\ online' = [c \in Clients |-> FALSE]
  /\ stream' = [c \in Clients |-> "closed"]
  /\ sequence' = [c \in Clients |-> 0]
  /\ batch' = [c \in Clients |-> <<>>]
  /\ UNCHANGED <<catalog, view, start>>

Page(c) ==
  Ask(c) \/ SetMode(c) \/ ReadStatus(c) \/ RequestFails(c) \/ Respond(c) \/ ReadEvents(c)

Step(c) == Poll(c) \/ Send(c) \/ Wake(c)

Next ==
  \/ Work
  \/ Crash
  \/ \E c \in Clients : Page(c) \/ Open(c) \/ Leave(c) \/ Close(c) \/ Step(c)

Spec == Init /\ [][Next]_vars

\* The event loop resumes every coroutine, which closes when it finds its client
\* gone; nothing makes clients come or go, the organizer work or the catalog raise.
FairSpec ==
  /\ Spec
  /\ \A c \in Clients : WF_vars(Step(c)) /\ WF_vars(~online[c] /\ Close(c))

-------------------------------------------------------------------------------
\* Properties.

\* Every variable keeps its type; the sequences of events are positive, and no
\* batch is longer than the limit.
TypeOK ==
  /\ mode \in Modes
  /\ log \in Seq(Event)
  /\ pc \in [Clients -> Points]
  /\ request \in [Clients -> Modes]
  /\ own \in [Clients -> Nat]
  /\ answer \in [Clients -> Status]
  /\ view \in [Clients -> Status]
  /\ online \in [Clients -> BOOLEAN]
  /\ stream \in [Clients -> StreamPoints]
  /\ start \in [Clients -> Nat]
  /\ sequence \in [Clients -> Nat]
  /\ batch \in [Clients -> Seq(Nat \ {0})]
  /\ \A c \in Clients : Len(batch[c]) <= Limit

\* While its client is there, a stream's cursor is never ahead of what the client
\* knows: no event is passed over between batches, by the limit, by what is
\* appended meanwhile, or when a stream is opened again.
NothingSkipped ==
  \A c \in Clients : online[c] => sequence[c] <= view[c].upto

\* What a client that has a status and follows the events takes for the mode is
\* the mode as of the last event it knows, however statuses, pages, streams and
\* the controls of others come together.
ViewIsExact == \A c \in Clients : view[c].mode = ModeAt(view[c].upto)

\* The mode before the first event and after each.
History == [n \in 1 .. Last + 1 |-> ModeAt(n - 1)]

Known == [c \in Clients |-> [at |-> view[c].upto + 1, state |-> view[c].mode]]

Reads == INSTANCE MonotonicReads
  WITH States <- Modes, First <- Off, states <- History, view <- Known

\* Statuses, answered controls, pages and streams together give every client
\* monotonic reads of the mode: a status that was overtaken by the stream does not
\* take its client back, and no mix of them shows a mode the organizer never had.
ImplementsMonotonicReads == Reads!Spec

\* The answer of a control is a status not older than the control: it shows the
\* mode asked for, or one set by somebody after it.
ControlIsShown ==
  \A c \in Clients :
    At(c, "answer") =>
      /\ own[c] <= answer[c].upto
      /\ answer[c].mode = ModeAt(answer[c].upto)

\* "The streaming route emits events": a client that keeps its stream open gets
\* every event there is, also when more than a batch has piled up.
EventsArrive ==
  \A c \in Clients : \A n \in 1 .. MaxEvents :
    online[c] /\ n <= Last ~> view[c].upto >= n \/ ~online[c]

\* "Ends after client disconnection": no coroutine polls for ever for nobody.
StreamsEnd == \A c \in Clients : ~online[c] ~> stream[c] = "closed"

==============================================================================
