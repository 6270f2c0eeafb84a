------------------------------ MODULE LogStream ------------------------------
(* The live log of a service, from the container to the browser:            *)
(*   `docker logs --follow`, a child process with two pipes, the threads    *)
(*   that read them and the queue they share (runtime/process_stream.py,    *)
(*   runtime/docker_logs.py);                                               *)
(*   the broker in the worker process, a thread that accepts connections    *)
(*   and a pool of handlers with a permit each                              *)
(*   (runtime/log_stream_broker.py);                                        *)
(*   the subscription of the API and the generator that sends its events    *)
(*   to the browser (deployments/log_stream.py).                            *)
(*                                                                          *)
(* A connection is used once; a browser that reconnects has another one. A  *)
(* line is the pipe it came from and its number. Framing, redaction and     *)
(* truncation act on one line and are left out.                             *)
EXTENDS Naturals, Sequences, FiniteSets

CONSTANTS
    MaxConnections, \* bound: connections, numbered in the order they are made
    MaxStreams,     \* permits
    QueueCapacity,  \* _STREAM_QUEUE_CAPACITY
    WireCapacity,   \* frames that a socket holds
    MaxLines,       \* bound: lines that a child writes
    MaxFaults       \* bound: failing commands, timeouts, a failing accept

ASSUME LogStreamAssumption ==
    /\ {MaxConnections, MaxStreams, QueueCapacity, WireCapacity} \subseteq Nat \ {0}
    /\ MaxLines \in Nat /\ MaxFaults \in Nat

Connection == 1..MaxConnections
Output == {"STDOUT", "STDERR"}
Line == [kind : {"log"}, from : Output, number : 1..MaxLines]
LineOf(o, n) == [kind |-> "log", from |-> o, number |-> n]
Mark(kind) == [kind |-> kind]
Nothing == Mark("nothing")
Frame == Line \cup {Mark(k) : k \in {"ready", "heartbeat", "end", "stream-error", "error"}}
ReaderDone(o) == [kind |-> "done", from |-> o]

VARIABLES
    phase,      \* the broker is up, stop() runs, or it has returned
    accepting,  \* the accept thread runs
    free,       \* permits that are left
    server,     \* where the handler of a connection is
    event,      \* the frame that it is sending
    child,      \* the docker logs process
    written,    \* lines that it has written to each pipe
    read,       \* lines that a reader thread has read from its pipe
    reader,     \* where a reader thread is
    queue,      \* what the readers have queued
    done,       \* the pipes whose end was taken from the queue
    wire,       \* frames sent and not received
    client,     \* where the subscription of the API is
    got,        \* the lines that the browser was sent on an open connection
    faults

childVars == <<child, written>>
readerVars == <<read, reader>>
sourceVars == <<childVars, readerVars, queue, done>>
clientVars == <<client, got>>
brokerVars == <<phase, accepting>>
vars == <<brokerVars, free, server, event, sourceVars, wire, clientVars, faults>>

TypeOK ==
    /\ phase \in {"up", "stopping", "down"} /\ accepting \in BOOLEAN
    /\ free \in 0..MaxStreams
    /\ server \in [Connection -> {"none", "backlog", "submitted", "receive", "send",
                                  "closing", "joining", "cancelled", "done"}]
    /\ event \in [Connection -> Frame \cup {Nothing}]
    /\ \A c \in Connection : event[c] = Nothing <=> server[c] # "send"
    /\ child \in [Connection -> {"none", "running", "exited", "failed", "killed"}]
    /\ written \in [Connection -> [Output -> 0..MaxLines]]
    /\ read \in [Connection -> [Output -> 0..MaxLines]]
    /\ reader \in [Connection -> [Output -> {"none", "reading", "gone"}]]
    /\ queue \in [Connection -> Seq(Line \cup {ReaderDone(o) : o \in Output})]
    /\ done \in [Connection -> SUBSET Output]
    /\ wire \in [Connection -> Seq(Frame)]
    /\ \A c \in Connection :
        /\ Len(queue[c]) <= QueueCapacity /\ Len(wire[c]) <= WireCapacity
        /\ \A o \in Output : read[c][o] <= written[c][o]
    /\ client \in [Connection -> {"away", "opening", "reading", "stalled", "ended",
                                  "error", "left"}]
    /\ got \in [Connection -> Seq(Line)]
    /\ faults \in 0..MaxFaults

Init ==
    /\ phase = "up" /\ accepting = TRUE
    /\ free = MaxStreams
    /\ server = [c \in Connection |-> "none"]
    /\ event = [c \in Connection |-> Nothing]
    /\ child = [c \in Connection |-> "none"]
    /\ written = [c \in Connection |-> [o \in Output |-> 0]]
    /\ read = written
    /\ reader = [c \in Connection |-> [o \in Output |-> "none"]]
    /\ queue = [c \in Connection |-> <<>>]
    /\ done = [c \in Connection |-> {}]
    /\ wire = queue
    /\ client = [c \in Connection |-> "away"]
    /\ got = queue
    /\ faults = 0

Fault == faults < MaxFaults /\ faults' = faults + 1
At(c, label) == server' = [server EXCEPT ![c] = label]

(* The socket as each end sees the other one. *)
ClientOpen(c) == client[c] \in {"opening", "reading", "stalled"}
Reads(c) == ClientOpen(c) /\ client[c] # "stalled"
ServerOpen(c) == server[c] \notin {"none", "done"}

-----------------------------------------------------------------------------
(* The browser and the API *)

(* Nothing more is received; the subscription is closed, whatever the       *)
(* reason.                                                                  *)
Discard(c) == wire' = [wire EXCEPT ![c] = <<>>] /\ got' = [got EXCEPT ![c] = <<>>]
CloseClient(c, outcome) == client' = [client EXCEPT ![c] = outcome] /\ Discard(c)

(* connect and the request; refused when nothing listens *)
Connect(c) ==
    /\ client[c] = "away" /\ \A d \in Connection : d < c => client[d] # "away"
    /\ IF phase = "up" THEN /\ client' = [client EXCEPT ![c] = "opening"]
                            /\ At(c, "backlog")
                       ELSE client' = [client EXCEPT ![c] = "error"] /\ UNCHANGED server
    /\ UNCHANGED <<brokerVars, free, event, sourceVars, wire, got, faults>>

(* open() decodes the first frame, receive() the others. *)
Outcome(c, frame) ==
    CASE frame.kind = "ready" -> "reading"
      [] frame.kind = "end" -> "ended"
      [] frame.kind \in {"error", "stream-error"} -> "error"
      [] OTHER -> client[c]

ReceiveFrame(c) ==
    /\ Reads(c) /\ wire[c] # <<>>
    /\ LET frame == Head(wire[c])
           outcome == Outcome(c, frame)
       IN IF outcome \in {"ended", "error"}
          THEN CloseClient(c, outcome)
          ELSE /\ client' = [client EXCEPT ![c] = outcome]
               /\ wire' = [wire EXCEPT ![c] = Tail(@)]
               /\ got' = IF frame.kind = "log" THEN [got EXCEPT ![c] = Append(@, frame)] ELSE got
    /\ UNCHANGED <<brokerVars, free, server, event, sourceVars, faults>>

(* "stream broker frame ended before newline" *)
ReceiveEof(c) ==
    /\ Reads(c) /\ wire[c] = <<>> /\ ~ServerOpen(c)
    /\ CloseClient(c, "error")
    /\ UNCHANGED <<brokerVars, free, server, event, sourceVars, faults>>

(* Nobody answers, or the answer comes too late. *)
HandshakeTimeout(c) ==
    /\ client[c] = "opening"
    /\ \/ server[c] \in {"backlog", "cancelled"} /\ ~accepting /\ UNCHANGED faults
       \/ Fault
    /\ CloseClient(c, "error")
    /\ UNCHANGED <<brokerVars, free, server, event, sourceVars>>

(* The generator reads the next frame only when the browser has taken what  *)
(* it yielded last. A browser that takes nothing any more, and stays, is    *)
(* like a slow one until the handler has a frame for a full socket; one     *)
(* that goes on in time, or goes away, is a slow one.                       *)
Stall(c) ==
    /\ client[c] = "reading"
    /\ server[c] = "send" /\ Len(wire[c]) = WireCapacity
    /\ client' = [client EXCEPT ![c] = "stalled"]
    /\ UNCHANGED <<brokerVars, free, server, event, sourceVars, wire, got, faults>>

(* The browser goes away, which cancels the generator, or no frame came in *)
(* time for the subscription.                                               *)
Leave(c) ==
    /\ client[c] = "reading"
    /\ Fault
    /\ CloseClient(c, "left")
    /\ UNCHANGED <<brokerVars, free, server, event, sourceVars>>

-----------------------------------------------------------------------------
(* The accept thread and the permits *)

(* _serve: a permit and a handler, or RUNTIME_LOG_STREAM_BUSY *)
AcceptIgnoringCapacity(c) ==
    /\ server[c] = "backlog" /\ accepting
    /\ free' = IF free > 0 THEN free - 1 ELSE free
    /\ At(c, "submitted")
    /\ UNCHANGED <<brokerVars, event, sourceVars, wire, clientVars, faults>>
Accept(c) ==
    /\ server[c] = "backlog" /\ accepting
    /\ \A d \in Connection : d < c => server[d] # "backlog"
    /\ IF free > 0
       THEN /\ free' = free - 1
            /\ At(c, "submitted")
            /\ UNCHANGED wire
       ELSE /\ At(c, "done")
            /\ wire' = IF ClientOpen(c) THEN [wire EXCEPT ![c] = <<Mark("error")>>] ELSE wire
            /\ UNCHANGED free
    /\ UNCHANGED <<brokerVars, event, sourceVars, clientVars, faults>>

(* accept() fails (no descriptor is left): the thread ends for good. *)
AcceptFails ==
    /\ accepting /\ Fault
    /\ accepting' = FALSE
    /\ UNCHANGED <<phase, free, server, event, sourceVars, wire, clientVars>>

(* stop(): the event, and the listener with the connections that nobody has *)
(* accepted; then the pool, without the handlers that have not begun.       *)
Stop ==
    /\ phase = "up"
    /\ phase' = "stopping" /\ accepting' = FALSE
    /\ server' = [c \in Connection |-> IF server[c] = "backlog" THEN "done" ELSE server[c]]
    /\ UNCHANGED <<free, event, sourceVars, wire, clientVars, faults>>

CancelFuture(c) ==
    /\ phase = "stopping" /\ server[c] = "submitted"
    /\ At(c, "cancelled")
    /\ UNCHANGED <<brokerVars, free, event, sourceVars, wire, clientVars, faults>>

(* The executor has waited for all of them. The process ends. *)
Stopped ==
    /\ phase = "stopping"
    /\ \A c \in Connection : server[c] \in {"none", "done", "cancelled"}
    /\ phase' = "down"
    /\ server' = [c \in Connection |-> IF server[c] = "cancelled" THEN "done" ELSE server[c]]
    /\ UNCHANGED <<accepting, free, event, sourceVars, wire, clientVars, faults>>

-----------------------------------------------------------------------------
(* The handler of a connection *)

(* The request is read and the log is opened: containers are looked up, the *)
(* child is started.                                                        *)
Open(c) ==
    /\ server[c] = "submitted"
    /\ At(c, "send")
    /\ \/ /\ child' = [child EXCEPT ![c] = "running"]
          /\ reader' = [reader EXCEPT ![c] = [o \in Output |-> "reading"]]
          /\ event' = [event EXCEPT ![c] = Mark("ready")]
          /\ UNCHANGED faults
       \/ /\ Fault
          /\ event' = [event EXCEPT ![c] = Mark("error")]
          /\ UNCHANGED <<child, reader>>
    /\ UNCHANGED <<brokerVars, free, written, read, queue, done, wire, clientVars>>

(* The loop of the handler ends when stop() was called. *)
Continue == IF phase = "up" THEN "receive" ELSE "closing"

(* sendall: the peer is gone, or the frame is sent *)
Last(frame) == frame.kind \in {"end", "error", "stream-error"}
Send(c) ==
    /\ server[c] = "send"
    /\ IF ClientOpen(c)
       THEN /\ Len(wire[c]) < WireCapacity
            /\ wire' = [wire EXCEPT ![c] = Append(@, event[c])]
            /\ At(c, IF Last(event[c]) THEN "closing" ELSE Continue)
       ELSE At(c, "closing") /\ UNCHANGED wire
    /\ event' = [event EXCEPT ![c] = Nothing]
    /\ UNCHANGED <<brokerVars, free, sourceVars, clientVars, faults>>

(* The write timeout of the socket runs out: the browser has stalled, or it *)
(* was too slow.                                                            *)
SendWithoutTimeout(c) == FALSE /\ UNCHANGED vars
SendTimeout(c) ==
    /\ server[c] = "send" /\ Len(wire[c]) = WireCapacity
    /\ IF client[c] = "stalled" THEN Discard(c) /\ UNCHANGED faults
                                ELSE Fault /\ UNCHANGED <<wire, got>>
    /\ At(c, "closing")
    /\ event' = [event EXCEPT ![c] = Nothing]
    /\ UNCHANGED <<brokerVars, free, sourceVars, client>>

(* _SubprocessCommandLineStream.receive and DockerServiceLogSubscription.receive *)
OneReaderDone(c) == done[c] # {}
ReadersDone(c) == done[c] = Output

ReceiveEnd(c) ==
    /\ server[c] = "receive" /\ queue[c] = <<>> /\ ReadersDone(c)
    /\ event' = [event EXCEPT ![c] = Mark(IF child[c] = "failed" THEN "stream-error" ELSE "end")]
    /\ At(c, "send")
    /\ UNCHANGED <<brokerVars, free, sourceVars, wire, clientVars, faults>>

ReceiveItem(c) ==
    /\ server[c] = "receive" /\ queue[c] # <<>>
    /\ queue' = [queue EXCEPT ![c] = Tail(@)]
    /\ LET item == Head(queue[c]) IN
        IF item.kind = "done"
        THEN /\ done' = [done EXCEPT ![c] = @ \cup {item.from}]
             /\ UNCHANGED <<server, event>>
        ELSE /\ event' = [event EXCEPT ![c] = item]
             /\ At(c, "send")
             /\ UNCHANGED done
    /\ UNCHANGED <<brokerVars, free, childVars, readerVars, wire, clientVars, faults>>

(* Nothing came for a while. *)
ReceiveNothingWaits(c) == FALSE /\ UNCHANGED vars
ReceiveNothing(c) ==
    /\ server[c] = "receive" /\ queue[c] = <<>> /\ ~ReadersDone(c)
    /\ event' = [event EXCEPT ![c] = Mark("heartbeat")]
    /\ At(c, "send")
    /\ UNCHANGED <<brokerVars, free, sourceVars, wire, clientVars, faults>>

(* source.close(): the stop event, SIGTERM and SIGKILL *)
Close(c) ==
    /\ server[c] = "closing"
    /\ child' = [child EXCEPT ![c] = IF @ = "running" THEN "killed" ELSE @]
    /\ At(c, "joining")
    /\ UNCHANGED <<brokerVars, free, event, written, readerVars, queue, done, wire, clientVars, faults>>

(* The readers, for a second; then the socket and the permit. The source is *)
(* forgotten.                                                               *)
JoinAndRelease(c) ==
    /\ server[c] = "joining"
    /\ \/ (\A o \in Output : reader[c][o] # "reading") /\ UNCHANGED faults
       \/ (\E o \in Output : reader[c][o] = "reading") /\ Fault
    /\ free' = free + 1
    /\ child' = [child EXCEPT ![c] = "none"]
    /\ queue' = [queue EXCEPT ![c] = <<>>] /\ done' = [done EXCEPT ![c] = {}]
    /\ written' = [written EXCEPT ![c] = [o \in Output |-> 0]] /\ read' = [read EXCEPT ![c] = written'[c]]
    /\ At(c, "done")
    /\ UNCHANGED <<brokerVars, event, reader, wire, clientVars>>

-----------------------------------------------------------------------------
(* The child and the threads that read its pipes *)

Write(c, o) ==
    /\ child[c] = "running" /\ written[c]["STDOUT"] + written[c]["STDERR"] < MaxLines
    /\ written' = [written EXCEPT ![c][o] = @ + 1]
    /\ UNCHANGED <<brokerVars, free, server, event, child, readerVars, queue, done, wire,
                   clientVars, faults>>

ChildExits(c) ==
    /\ child[c] = "running"
    /\ \/ child' = [child EXCEPT ![c] = "exited"] /\ UNCHANGED faults
       \/ child' = [child EXCEPT ![c] = "failed"] /\ Fault
    /\ UNCHANGED <<brokerVars, free, server, event, written, readerVars, queue, done, wire, clientVars>>

SourceStopped(c) == server[c] \in {"joining", "done"}
Reader(c, o, label) == reader' = [reader EXCEPT ![c][o] = label]

(* readline and _offer, which waits for room in the queue: a line that a    *)
(* reader holds meanwhile is as good as in the pipe.                        *)
Unread(c, o) == reader[c][o] = "reading" /\ ~SourceStopped(c) /\ read[c][o] < written[c][o]
Room(c) == Len(queue[c]) < QueueCapacity
Enqueue(c, item) == queue' = [queue EXCEPT ![c] = Append(@, item)]
Take(c, o) == read' = [read EXCEPT ![c][o] = @ + 1]
NextLine(c, o) == LineOf(o, read[c][o] + 1)

ReadLineOnce(c, o) ==
    /\ Unread(c, o)
    /\ IF Room(c) THEN Take(c, o) /\ Enqueue(c, NextLine(c, o)) /\ UNCHANGED reader
                  ELSE Reader(c, o, "gone") /\ UNCHANGED <<read, queue>>
    /\ UNCHANGED <<brokerVars, free, server, event, childVars, done, wire, clientVars, faults>>
ReadLine(c, o) ==
    /\ Unread(c, o) /\ Room(c)
    /\ Take(c, o)
    /\ Enqueue(c, NextLine(c, o))
    /\ UNCHANGED <<brokerVars, free, server, event, childVars, reader, done, wire, clientVars, faults>>

(* The pipe is at its end. *)
OfferDone(c, o) ==
    /\ reader[c][o] = "reading" /\ ~SourceStopped(c) /\ Room(c)
    /\ read[c][o] = written[c][o] /\ child[c] # "running"
    /\ Enqueue(c, ReaderDone(o))
    /\ Reader(c, o, "gone")
    /\ UNCHANGED <<brokerVars, free, server, event, childVars, read, done, wire, clientVars, faults>>

ReaderStops(c, o) ==
    /\ reader[c][o] = "reading" /\ SourceStopped(c)
    /\ Reader(c, o, "gone")
    /\ UNCHANGED <<brokerVars, free, server, event, childVars, read, queue, done, wire, clientVars, faults>>

-----------------------------------------------------------------------------
HandlerStep(c) ==
    \/ Open(c) \/ Send(c) \/ ReceiveEnd(c) \/ ReceiveItem(c) \/ ReceiveNothing(c)
    \/ Close(c) \/ JoinAndRelease(c)
    \/ client[c] = "stalled" /\ SendTimeout(c)
ReaderStep(c, o) == ReadLine(c, o) \/ OfferDone(c, o) \/ ReaderStops(c, o)
ClientStep(c) == ReceiveFrame(c) \/ ReceiveEof(c) \/ HandshakeTimeout(c)

Next ==
    \/ \E c \in Connection :
        \/ Connect(c) \/ ClientStep(c) \/ Stall(c) \/ Leave(c)
        \/ Accept(c) \/ CancelFuture(c) \/ HandlerStep(c) \/ SendTimeout(c)
        \/ ChildExits(c)
        \/ \E o \in Output : Write(c, o) \/ ReaderStep(c, o)
    \/ AcceptFails \/ Stop \/ Stopped

Spec == Init /\ [][Next]_vars

(* Threads run, timeouts pass, and the event loop of the API reads what is  *)
(* sent unless its browser has stalled. Nothing obliges the browser to take *)
(* what it is sent or to stay, the container to write or to end, or the     *)
(* worker process to stop. One condition for both readers of a connection   *)
(* suffices, since each of them takes finitely many steps.                  *)
FairSpec ==
    /\ Spec
    /\ \A c \in Connection :
        /\ WF_vars(ClientStep(c)) /\ WF_vars(HandlerStep(c))
        /\ WF_vars(\E o \in Output : ReaderStep(c, o))
    /\ WF_vars(\E c \in Connection : Accept(c))
    /\ WF_vars(Stopped \/ \E c \in Connection : CancelFuture(c))

-----------------------------------------------------------------------------
(* The lines of a pipe among some frames are those after the first n, up to *)
(* the m-th, each once and in order.                                        *)
IsFrom(o, frame) == frame.kind = "log" /\ frame.from = o
Lines(frames, o, n, m) ==
    LET at == {i \in DOMAIN frames : IsFrom(o, frames[i])}
    IN  /\ n <= m
        /\ \A i \in at : n < frames[i].number /\ frames[i].number <= m
        /\ \A k \in (n + 1)..m : \E i \in at : frames[i].number = k
        /\ \A i, j \in at : i < j => frames[i].number < frames[j].number

(* What the browser is sent of a pipe is what the child wrote to it, from   *)
(* the first line on and in order, however the two readers, the full queue, *)
(* the full socket and the end of the child interleave. And "end" says that *)
(* the container's log has ended: when it is sent, the child has exited by  *)
(* itself, without an error, and all it wrote to either pipe was sent.      *)
LogIsFaithful ==
    \A c \in Connection :
        LET sent == got[c] \o wire[c]
        IN  /\ \A o \in Output : \E n \in 0..MaxLines : Lines(sent, o, 0, n)
            /\ event[c].kind = "end" =>
                 /\ child[c] = "exited"
                 /\ ClientOpen(c) => \A o \in Output : Lines(sent, o, 0, written[c][o])

(* The variables have their types, and with them queues and sockets their   *)
(* bounds. And permits are neither doubled nor lost, whichever way a        *)
(* connection ends: until the process ends, those that are out are those of *)
(* the connections that have a handler or had one cancelled. So children of *)
(* browsers that come and go do not pile up.                                *)
PermitHolder ==
    {c \in Connection : server[c] \in {"submitted", "receive", "send", "closing", "joining", "cancelled"}}
WithinBounds ==
    /\ TypeOK
    /\ phase # "down" => free + Cardinality(PermitHolder) = MaxStreams
    /\ Cardinality({c \in Connection : child[c] = "running"}) <= MaxStreams

(* When the API has closed a subscription, for whatever reason, the broker  *)
(* notices: the child is gone, its readers end and the permit is back.      *)
Released(c) ==
    /\ server[c] \in {"none", "backlog", "cancelled", "done"} /\ child[c] # "running"
    /\ \A o \in Output : reader[c][o] \in {"none", "gone"}
Unreleased(c) == client[c] # "away" /\ ~ClientOpen(c) /\ ~Released(c)
ClosedIsReleased == (\E c \in Connection : Unreleased(c)) ~> (\A c \in Connection : ~Unreleased(c))

(* stop() returns, whatever the browsers and the containers do: the handler *)
(* of a browser that has stalled is freed by its write timeout alone.       *)
StopReturns == phase = "stopping" ~> phase = "down"

(* A line that the container writes is sent to a browser that takes what it *)
(* is sent, unless the stream is over: no reader is stuck with it.          *)
Behind(c) ==
    /\ client[c] = "reading"
    /\ \E o \in Output : \E n \in 1..written[c][o] :
          \A i \in DOMAIN got[c] : got[c][i] # LineOf(o, n)
LinesArrive == (\E c \in Connection : Behind(c)) ~> (\A c \in Connection : ~Behind(c))
=============================================================================
