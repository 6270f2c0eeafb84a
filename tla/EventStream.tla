---------------------------- MODULE EventStream -----------------------------
(* The event stream of one deployment, from the rows of deployment_events   *)
(* to the page that shows them: the server-sent events of the API           *)
(* (deployments/event_stream.py, event_sse.py) and the hook that consumes   *)
(* them (frontend entities/deployment/useDeploymentEvents.ts).              *)
(*                                                                          *)
(* The rows of the deployment are numbered 1..last in the order of their    *)
(* ids; the transactions that insert them hold the row of the job or of the *)
(* deployment, so they commit in that order. An action is one read or write *)
(* of the database, one message, or one effect of the hook. NOTIFY is only  *)
(* a wake-up and may be lost or late: the wait for it just ends, as the     *)
(* heartbeat guarantees.                                                    *)
EXTENDS Naturals, Sequences, FiniteSets, FiniteSetsExt

CONSTANTS
    Client,             \* the open pages
    Sub,                \* the subscriptions the API process can have at work
    None,
    MaxSubscriptions,   \* max_subscriptions of the gateway, 4 in the code
    PageSize,           \* limit of list_events_after, 100 in the code
    Window,             \* the events a page keeps, and limit of list_events, 100
    MaxEvents,          \* bound: events of the deployment
    MaxFaults           \* bound: lost connections, failed reads, restarts, remounts

ASSUME StreamAssumption ==
    /\ None \notin Client \cup Sub
    /\ IsFiniteSet(Sub)
    /\ {MaxSubscriptions, PageSize, Window} \subseteq Nat \ {0}
    /\ {MaxEvents, MaxFaults} \subseteq Nat

VARIABLES
    last,       \* the newest row of deployment_events
    outcome,    \* the row written with the terminal status, 0 while it runs
    permits,    \* the value of the BoundedSemaphore
    pc,         \* where a subscription is in open(), receive() or close()
    cursor,     \* its _cursor
    buffer,     \* its _buffer
    wire,       \* the messages it sent and its page has not read
    conn,       \* the subscription that serves a page's EventSource
    source,     \* the EventSource: connecting, open, closed or (503) failed
    after,      \* the query parameter of its URL
    lastId,     \* its last event id
    fetch,      \* the query of list_events: asked, read, applied (idle) or failed
    fetched,    \* the rows in its response
    loaded,     \* isSuccess
    snapshot,   \* data.items
    live,       \* live.items
    seen,       \* the status of the deployment as the page last polled it
    ended,      \* endedRef.current.ended
    faults

rows == <<last, outcome>>
server == <<permits, pc, cursor, buffer>>
link == <<wire, conn, source, after, lastId>>
query == <<fetch, fetched, loaded, snapshot>>
page == <<query, live, seen, ended>>
vars == <<rows, server, link, page, faults>>

Receiving == {"next", "status", "wait", "nextAgain", "statusAgain"}
Holding == Receiving \cup {"listen", "closing"}

Event(n) == [kind |-> "event", id |-> n]
End == [kind |-> "end", id |-> 0]
StreamError == [kind |-> "stream-error", id |-> 0]
Message == [kind : {"event", "end", "stream-error"}, id : Nat]

TypeOK ==
    /\ last \in 0..MaxEvents /\ outcome \in 0..MaxEvents
    /\ permits \in 0..MaxSubscriptions
    /\ pc \in [Sub -> Holding \cup {"free"}]
    /\ cursor \in [Sub -> Nat]
    /\ buffer \in [Sub -> Seq(Nat)]
    /\ wire \in [Sub -> Seq(Message)]
    /\ conn \in [Client -> Sub \cup {None}]
    /\ source \in [Client -> {"connecting", "open", "closed", "failed"}]
    /\ after \in [Client -> Nat] /\ lastId \in [Client -> Nat]
    /\ fetch \in [Client -> {"idle", "asked", "read", "error"}]
    /\ fetched \in [Client -> SUBSET (1..MaxEvents)]
    /\ loaded \in [Client -> BOOLEAN]
    /\ snapshot \in [Client -> SUBSET (1..MaxEvents)]
    /\ live \in [Client -> Seq(1..MaxEvents)]
    /\ seen \in [Client -> {"unknown", "running", "terminal"}]
    /\ ended \in [Client -> BOOLEAN]
    /\ faults \in 0..MaxFaults

Init ==
    /\ last = 0 /\ outcome = 0
    /\ permits = MaxSubscriptions
    /\ pc = [s \in Sub |-> "free"]
    /\ cursor = [s \in Sub |-> 0]
    /\ buffer = [s \in Sub |-> <<>>]
    /\ wire = [s \in Sub |-> <<>>]
    /\ conn = [c \in Client |-> None]
    /\ source = [c \in Client |-> "closed"]
    /\ after = [c \in Client |-> 0] /\ lastId = [c \in Client |-> 0]
    /\ fetch = [c \in Client |-> "asked"]
    /\ fetched = [c \in Client |-> {}]
    /\ loaded = [c \in Client |-> FALSE]
    /\ snapshot = [c \in Client |-> {}]
    /\ live = [c \in Client |-> <<>>]
    /\ seen = [c \in Client |-> "unknown"]
    /\ ended = [c \in Client |-> FALSE]
    /\ faults = 0

Fault == faults < MaxFaults /\ faults' = faults + 1

-----------------------------------------------------------------------------
\* The rows.

\* The newest rows of S, as many as a page keeps.
Latest(S) == {n \in S : Cardinality({k \in S : k > n}) < Window}

Newest(S) == Max(S \cup {0})

\* _insert_event in claim_next, advance, retry and record_diagnostics; and,
\* once the deployment has failed, in the reconciliation.
InsertEvent ==
    /\ last < MaxEvents
    /\ last' = last + 1
    /\ UNCHANGED <<outcome, server, link, page, faults>>

\* succeed or fail: the event and the status in one transaction.
Settle ==
    /\ outcome = 0 /\ last < MaxEvents
    /\ last' = last + 1
    /\ outcome' = last + 1
    /\ UNCHANGED <<server, link, page, faults>>

-----------------------------------------------------------------------------
\* The API.

Served(s) == {c \in Client : conn[c] = s}

Send(s, m) ==
    wire' = IF Served(s) = {} THEN wire ELSE [wire EXCEPT ![s] = Append(@, m)]

Goto(s, label) == pc' = [pc EXCEPT ![s] = label]

\* The subscription object is gone.
Discard(s) ==
    /\ Goto(s, "free")
    /\ cursor' = [cursor EXCEPT ![s] = 0]
    /\ buffer' = [buffer EXCEPT ![s] = <<>>]

\* Mutant: Last-Event-ID is ignored.
StartFromQuery(c) == after[c]

\* The cursor a connection starts from: the larger of the query parameter and
\* of the Last-Event-ID the browser adds when it reconnects.
Start(c) == Newest({after[c], lastId[c]})

\* open() takes a permit.
Open(c, s) ==
    /\ source[c] = "connecting" /\ conn[c] = None
    /\ pc[s] = "free" /\ Served(s) = {}
    /\ permits > 0
    /\ permits' = permits - 1
    /\ Goto(s, "listen")
    /\ cursor' = [cursor EXCEPT ![s] = Start(c)]
    /\ buffer' = [buffer EXCEPT ![s] = <<>>]
    /\ wire' = [wire EXCEPT ![s] = <<>>]
    /\ conn' = [conn EXCEPT ![c] = s]
    /\ UNCHANGED <<rows, source, after, lastId, page, faults>>

\* open() finds no permit. An EventSource does not retry after a 503.
OpenBusy(c) ==
    /\ source[c] = "connecting" /\ conn[c] = None
    /\ permits = 0
    /\ source' = [source EXCEPT ![c] = "failed"]
    /\ UNCHANGED <<rows, server, wire, conn, after, lastId, page, faults>>

\* The connection of the subscription listens; the response starts.
Listen(s) ==
    /\ pc[s] = "listen"
    /\ Goto(s, "next")
    /\ source' = [c \in Client |-> IF conn[c] = s THEN "open" ELSE source[c]]
    /\ UNCHANGED <<rows, permits, cursor, buffer, wire, conn, after, lastId, page, faults>>

\* Mutant: the permit is kept.
ListenFailsHoldingPermit(s) ==
    /\ pc[s] = "listen" /\ Fault
    /\ Discard(s)
    /\ source' = [c \in Client |-> IF conn[c] = s THEN "failed" ELSE source[c]]
    /\ conn' = [c \in Client |-> IF conn[c] = s THEN None ELSE conn[c]]
    /\ UNCHANGED <<rows, permits, wire, after, lastId, page>>

\* No connection, or LISTEN fails: the permit is returned, the answer is 503.
ListenFails(s) ==
    /\ pc[s] = "listen" /\ Fault
    /\ Discard(s)
    /\ permits' = permits + 1
    /\ source' = [c \in Client |-> IF conn[c] = s THEN "failed" ELSE source[c]]
    /\ conn' = [c \in Client |-> IF conn[c] = s THEN None ELSE conn[c]]
    /\ UNCHANGED <<rows, wire, after, lastId, page>>

\* _next_event: the buffer, refilled from list_events_after when it is empty.
Refill(s) ==
    IF buffer[s] # <<>> THEN buffer[s]
    ELSE [i \in 1..Min({PageSize, Newest({last, cursor[s]}) - cursor[s]}) |-> cursor[s] + i]

NextEvent(s) ==
    /\ pc[s] \in {"next", "nextAgain"}
    /\ \/ /\ Refill(s) # <<>>
          /\ Send(s, Event(Head(Refill(s))))
          /\ cursor' = [cursor EXCEPT ![s] = Head(Refill(s))]
          /\ buffer' = [buffer EXCEPT ![s] = Tail(Refill(s))]
          /\ Goto(s, "next")
       \/ /\ Refill(s) = <<>>
          /\ Goto(s, IF pc[s] = "next" THEN "status" ELSE "statusAgain")
          /\ UNCHANGED <<cursor, buffer, wire>>
    /\ UNCHANGED <<rows, permits, conn, source, after, lastId, page, faults>>

\* _terminal, a read of its own after the read of the events. Without an
\* outcome receive() waits, or has waited and returns for a keepalive.
CheckStatus(s) ==
    /\ pc[s] \in {"status", "statusAgain"}
    /\ \/ outcome # 0 /\ Send(s, End) /\ Goto(s, "closing")
       \/ outcome = 0 /\ pc[s] = "status" /\ Goto(s, "wait") /\ UNCHANGED wire
       \/ outcome = 0 /\ pc[s] = "statusAgain" /\ Goto(s, "next") /\ UNCHANGED wire
    /\ UNCHANGED <<rows, permits, cursor, buffer, conn, source, after, lastId, page, faults>>

\* Mutant: only the notification of the outcome ends the wait.
WaitForOutcome(s) ==
    /\ pc[s] = "wait" /\ outcome # 0
    /\ Goto(s, "nextAgain")
    /\ UNCHANGED <<rows, permits, cursor, buffer, link, page, faults>>

\* notifies() ends: a notification of any deployment, or the heartbeat.
Wait(s) ==
    /\ pc[s] = "wait"
    /\ Goto(s, "nextAgain")
    /\ UNCHANGED <<rows, permits, cursor, buffer, link, page, faults>>

\* A read or the listening connection fails: stream-error, then close().
ReceiveFails(s) ==
    /\ pc[s] \in Receiving /\ Fault
    /\ Send(s, StreamError)
    /\ Goto(s, "closing")
    /\ UNCHANGED <<rows, permits, cursor, buffer, conn, source, after, lastId, page>>

\* The generator is cancelled once its client is gone. close() waits for the
\* lock, so for the receive() under way, whose result is dropped.
Disconnected(s) ==
    /\ pc[s] \in Receiving /\ Served(s) = {}
    /\ Goto(s, "closing")
    /\ UNCHANGED <<rows, permits, cursor, buffer, link, page, faults>>

\* close(): whatever fails in it, the permit is released.
Close(s) ==
    /\ pc[s] = "closing"
    /\ Discard(s)
    /\ permits' = permits + 1
    /\ UNCHANGED <<rows, link, page, faults>>

\* The API process is restarted, with a new semaphore.
Restart ==
    /\ Fault
    /\ permits' = MaxSubscriptions
    /\ pc' = [s \in Sub |-> "free"]
    /\ cursor' = [s \in Sub |-> 0]
    /\ buffer' = [s \in Sub |-> <<>>]
    /\ wire' = [s \in Sub |-> <<>>]
    /\ conn' = [c \in Client |-> None]
    /\ source' = [c \in Client |-> IF conn[c] = None THEN source[c] ELSE "connecting"]
    /\ UNCHANGED <<rows, after, lastId, page>>

-----------------------------------------------------------------------------
\* The page.

\* mergeEvents: what the page shows.
Displayed(c) == Latest(snapshot[c] \cup {live[c][i] : i \in DOMAIN live[c]})

\* The page is done with its subscription, whose unread messages are lost.
Hangup(c) ==
    /\ conn' = [conn EXCEPT ![c] = None]
    /\ wire' = IF conn[c] = None THEN wire ELSE [wire EXCEPT ![conn[c]] = <<>>]

\* useEffect: the old source is closed; while the page takes the deployment for
\* running, and saw no end, a new one starts after the newest row of the data.
Effect(c, status, items, over) ==
    /\ Hangup(c)
    /\ source' = [source EXCEPT ![c] =
                    IF status = "running" /\ ~over THEN "connecting" ELSE "closed"]
    /\ after' = [after EXCEPT ![c] = Newest(items)]
    /\ lastId' = [lastId EXCEPT ![c] = 0]

ReadEvents(c) ==
    /\ fetch[c] = "asked"
    /\ fetch' = [fetch EXCEPT ![c] = "read"]
    /\ fetched' = [fetched EXCEPT ![c] = Latest(1..last)]
    /\ UNCHANGED <<rows, server, link, loaded, snapshot, live, seen, ended, faults>>

\* The response arrives. The effect depends on data, and runs when it changed.
ApplyEvents(c) ==
    /\ fetch[c] = "read"
    /\ fetch' = [fetch EXCEPT ![c] = "idle"]
    /\ loaded' = [loaded EXCEPT ![c] = TRUE]
    /\ snapshot' = [snapshot EXCEPT ![c] = fetched[c]]
    /\ fetched' = [fetched EXCEPT ![c] = {}]
    /\ IF loaded[c] /\ fetched[c] = snapshot[c] THEN UNCHANGED link
       ELSE Effect(c, seen[c], fetched[c], ended[c])
    /\ UNCHANGED <<rows, server, live, seen, ended, faults>>

FetchFails(c) ==
    /\ fetch[c] \in {"asked", "read"} /\ Fault
    /\ fetch' = [fetch EXCEPT ![c] = "error"]
    /\ UNCHANGED <<rows, server, link, fetched, loaded, snapshot, live, seen, ended>>

\* The status is polled every second until it is terminal; the effect depends on it.
PollStatus(c) ==
    /\ seen[c] # "terminal"
    /\ LET status == IF outcome = 0 THEN "running" ELSE "terminal"
       IN  /\ status # seen[c]
           /\ seen' = [seen EXCEPT ![c] = status]
           /\ IF loaded[c] THEN Effect(c, status, snapshot[c], ended[c])
              ELSE UNCHANGED link
    /\ UNCHANGED <<rows, server, query, live, ended, faults>>

\* onEvent: a known id is ignored, else appended; slice(-100).
LiveItems(items, n) ==
    IF \E i \in DOMAIN items : items[i] = n THEN items
    ELSE LET new == Append(items, n)
         IN  SubSeq(new, Newest({Len(new), Window}) - Window + 1, Len(new))

\* Whether a page has an unread message of this kind.
Unread(c, kind) ==
    /\ conn[c] # None
    /\ wire[conn[c]] # <<>>
    /\ Head(wire[conn[c]]).kind = kind

OnEvent(c) ==
    /\ Unread(c, "event")
    /\ LET n == Head(wire[conn[c]]).id
       IN  /\ live' = [live EXCEPT ![c] = LiveItems(@, n)]
           /\ lastId' = [lastId EXCEPT ![c] = n]
    /\ wire' = [wire EXCEPT ![conn[c]] = Tail(@)]
    /\ UNCHANGED <<rows, server, conn, source, after, query, seen, ended, faults>>

\* Mutant: without the final refetch.
OnEndWithoutRefetch(c) ==
    /\ Unread(c, "end")
    /\ source' = [source EXCEPT ![c] = "closed"]
    /\ Hangup(c)
    /\ ended' = [ended EXCEPT ![c] = TRUE]
    /\ UNCHANGED <<rows, server, after, lastId, query, live, seen, faults>>

\* onEnd: the source is closed for good and the rows are fetched once more,
\* instead of a fetch under way.
OnEnd(c) ==
    /\ Unread(c, "end")
    /\ source' = [source EXCEPT ![c] = "closed"]
    /\ Hangup(c)
    /\ ended' = [ended EXCEPT ![c] = TRUE]
    /\ fetch' = [fetch EXCEPT ![c] = "asked"]
    /\ UNCHANGED <<rows, server, after, lastId, fetched, loaded, snapshot, live, seen, faults>>

OnStreamError(c) ==
    /\ Unread(c, "stream-error")
    /\ source' = [source EXCEPT ![c] = "failed"]
    /\ Hangup(c)
    /\ UNCHANGED <<rows, server, after, lastId, page, faults>>

\* The connection is lost with the messages on it; the EventSource reconnects.
Drop(c) ==
    /\ conn[c] # None /\ Fault
    /\ Hangup(c)
    /\ source' = [source EXCEPT ![c] = "connecting"]
    /\ UNCHANGED <<rows, server, after, lastId, page>>

\* The user leaves the page and comes back: the state of the hook is new, the
\* data are still cached, and fetched anew when they are stale.
Remount(c) ==
    /\ loaded[c] /\ Fault
    /\ live' = [live EXCEPT ![c] = <<>>]
    /\ ended' = [ended EXCEPT ![c] = FALSE]
    /\ Effect(c, seen[c], snapshot[c], FALSE)
    /\ \/ fetch' = [fetch EXCEPT ![c] = IF @ = "read" THEN @ ELSE "asked"]
       \/ UNCHANGED fetch
    /\ UNCHANGED <<rows, server, fetched, loaded, snapshot, seen>>

-----------------------------------------------------------------------------
SubStep(s) ==
    \/ Listen(s) \/ NextEvent(s) \/ CheckStatus(s) \/ Wait(s)
    \/ Disconnected(s) \/ Close(s)
Connect(c) == (\E s \in Sub : Open(c, s)) \/ OpenBusy(c)
PageStep(c) ==
    ReadEvents(c) \/ ApplyEvents(c) \/ OnEvent(c) \/ OnEnd(c) \/ OnStreamError(c)
Faulty ==
    \/ \E s \in Sub : ListenFails(s) \/ ReceiveFails(s)
    \/ \E c \in Client : FetchFails(c) \/ Drop(c) \/ Remount(c)
    \/ Restart

Next ==
    \/ InsertEvent \/ Settle
    \/ \E s \in Sub : SubStep(s)
    \/ \E c \in Client : Connect(c) \/ PageStep(c) \/ PollStatus(c)
    \/ Faulty

Spec == Init /\ [][Next]_vars

\* The threads of the API run, an EventSource keeps trying and reads what
\* arrives, a query gets its answer. Nothing obliges the deployment to go on,
\* the status to be polled in time, or a fault to happen.
Fairness ==
    /\ \A s \in Sub : WF_vars(SubStep(s))
    /\ \A c \in Client : WF_vars(Connect(c)) /\ WF_vars(PageStep(c))

FairSpec == Spec /\ Fairness

-----------------------------------------------------------------------------
\* Properties.

Events(messages) == {i \in DOMAIN messages : messages[i].kind = "event"}

\* What a page has not read yet, on the wire and then in the buffer, are the
\* rows right after the last one it read, each once, in order and before any
\* other message: lost connections and reconnections neither skip nor repeat a
\* row.
StreamIsContiguous ==
    \A c \in Client : conn[c] # None =>
        LET s    == conn[c]
            read == Newest({after[c], lastId[c]})
        IN  \E sent \in 0..Len(wire[s]) :
                /\ Events(wire[s]) = 1..sent
                /\ \A i \in 1..sent : wire[s][i].id = read + i
                /\ \A i \in DOMAIN buffer[s] : buffer[s][i] = read + sent + i
                /\ pc[s] # "free" => cursor[s] = read + sent

\* The variables have their types, and every permit is in the semaphore or held by
\* a subscription that will close: no path through open(), receive() and close()
\* loses one or frees it twice.
PermitsConserved ==
    /\ TypeOK
    /\ permits + Cardinality({s \in Sub : pc[s] \in Holding}) = MaxSubscriptions

ShowsOutcome(c) == outcome \in Displayed(c) \/ outcome \notin Latest(1..last)

\* A page whose subscription sent it every row, and which read all of them,
\* shows the newest rows, whatever it fetched, received twice or cut off before;
\* and one that was told the end shows the row of the outcome once its final
\* refetch is done, also when the stream ended without sending that row.
PageConverges ==
    \A c \in Client :
        /\ (/\ conn[c] # None /\ source[c] = "open"
            /\ wire[conn[c]] = <<>> /\ cursor[conn[c]] = last)
           => Displayed(c) = Latest(1..last)
        /\ ended[c] /\ fetch[c] = "idle" => ShowsOutcome(c)

\* A row is shown, or pushed out by newer ones, by every page whose stream
\* neither ended nor failed nor was closed by the page.
EveryRowIsShown ==
    \A c \in Client, n \in 1..MaxEvents :
        (n <= last /\ source[c] = "open")
        ~> (\/ n \in Displayed(c) \/ n \notin Latest(1..last)
            \/ source[c] \in {"closed", "failed"})
=============================================================================
