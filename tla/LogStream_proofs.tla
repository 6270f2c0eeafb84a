-------------------------- MODULE LogStream_proofs ---------------------------
(* The live log of a service, for any number of connections, permits, lines *)
(* and faults and any capacity of the queue and the socket: no line of a    *)
(* pipe is lost, doubled or out of order between the container and the      *)
(* browser, the end comes last, and children are bounded by permits.        *)
EXTENDS LogStream, SequenceTheorems, FiniteSetTheorems, TLAPS

-----------------------------------------------------------------------------
(* The inductive invariant *)

\* The handler has a source, and nobody has stopped it.
Streaming == {"send", "receive", "closing"}

\* Permits are taken while the broker is up; when it is down nobody has one.
PermitInv ==
    /\ accepting => phase = "up"
    /\ IF phase = "down" THEN PermitHolder = {} ELSE free + Cardinality(PermitHolder) = MaxStreams

Holding == Streaming \cup {"submitted", "joining", "cancelled"}

Unserved == {"none", "backlog", "submitted", "cancelled"}
Zero == [o \in Output |-> 0]

\* A connection has a child, a queue and readers from Open on, and keeps none of
\* the first two. Nothing was sent before.
PlaceOf(c) ==
    /\ server[c] = "none" => ~ClientOpen(c)
    /\ client[c] = "away" => server[c] = "none"
    /\ server[c] \in Unserved => /\ \A o \in Output : reader[c][o] = "none"
                                 /\ got[c] = <<>> /\ wire[c] = <<>>
    /\ server[c] \in Unserved \cup {"done"} =>
          child[c] = "none" /\ queue[c] = <<>> /\ done[c] = {} /\ written[c] = Zero /\ read[c] = Zero
    /\ child[c] = "running" => server[c] \in Streaming
    /\ ~ClientOpen(c) => got[c] = <<>> /\ wire[c] = <<>>

Queued(c) == {queue[c][i] : i \in DOMAIN queue[c]}

\* The readers have a child, which nobody has killed. A reader is gone when the child
\* is, and it has read all; it says so last.
EndOf(c) ==
    server[c] \in Streaming =>
        /\ \A o \in Output : reader[c][o] = "none" \/ child[c] \in {"running", "exited", "failed"}
        /\ \A o \in Output : reader[c][o] = "gone" =>
              child[c] \in {"exited", "failed"} /\ read[c][o] = written[c][o]
        /\ \A o \in Output : ReaderDone(o) \in Queued(c) => reader[c][o] = "gone"
        /\ \A o \in done[c] : reader[c][o] = "gone"
        /\ event[c].kind = "end" =>
              child[c] = "exited" /\ queue[c] = <<>> /\ \A o \in Output : reader[c][o] = "gone"

\* Of a pipe, the lines up to the a-th arrived, those up to the b-th are sent.
Sent(c, o, a, b) == Lines(got[c], o, 0, a) /\ Lines(wire[c], o, a, b)

\* The next one is in the handler's hands, the others wait in the queue.
Ahead(c, o, b) ==
    IF IsFrom(o, event[c])
    THEN event[c].number = b + 1 /\ Lines(queue[c], o, b + 1, read[c][o])
    ELSE Lines(queue[c], o, b, read[c][o])

\* As long as the handler takes from the queue and there is somebody to send to,
\* no line is lost between the reader and the browser.
FlowOf(c) ==
    \A o \in Output : \E a, b \in 0..MaxLines :
        /\ Sent(c, o, a, b)
        /\ ClientOpen(c) /\ server[c] \in {"send", "receive"} => Ahead(c, o, b)

ConnectionInv(c) == PlaceOf(c) /\ EndOf(c) /\ FlowOf(c)

Inv == TypeOK /\ PermitInv /\ \A c \in Connection : ConnectionInv(c)

-----------------------------------------------------------------------------
(* The lines of a pipe in a sequence of frames *)

Item == Frame \cup Line \cup {ReaderDone(o) : o \in Output}

LEMMA ItemNumber ==
    ASSUME NEW f \in Item, NEW o, IsFrom(o, f)
    PROVE  f \in Line /\ f.number \in Nat /\ f.number >= 1 /\ f.number <= MaxLines
<1>1. f \in Line
  BY DEF Item, Frame, IsFrom, Mark, ReaderDone
<1> QED BY <1>1, LogStreamAssumption DEF Line, LogStreamAssumption

LEMMA LinesNone == ASSUME NEW o, NEW n \in Nat PROVE Lines(<<>>, o, n, n)
BY DEF Lines

LEMMA LinesEmpty ==
    ASSUME NEW o, NEW n \in Nat, NEW m \in Nat, Lines(<<>>, o, n, m) PROVE n = m
<1>1. n <= m /\ \A k \in (n + 1)..m : FALSE
  BY DEF Lines
<1>2. CASE n < m
  <2>1. m \in (n + 1)..m
    BY <1>2
  <2> QED BY <1>1, <2>1
<1> QED BY <1>1, <1>2

\* The frame that is appended is the next line, or none of this pipe.
LEMMA AppendLine ==
    ASSUME NEW o, NEW n \in Nat, NEW m \in Nat, NEW s \in Seq(Item), NEW f \in Item,
           Lines(s, o, n, m), IsFrom(o, f), f.number = m + 1
    PROVE  Lines(Append(s, f), o, n, m + 1)
<1> DEFINE t == Append(s, f)
           l == Len(s)
<1>1. l \in Nat /\ DOMAIN s = 1..l /\ DOMAIN t = 1..(l + 1) /\ t[l + 1] = f
      /\ \A i \in 1..l : t[i] = s[i] /\ s[i] \in Item
  OBVIOUS
<1> HIDE DEF t, l
<1>2. n <= m + 1
  BY DEF Lines
<1>3. ASSUME NEW i \in DOMAIN t, IsFrom(o, t[i])
      PROVE  n < t[i].number /\ t[i].number <= m + 1
  <2>1. CASE i \in 1..l
    <3>1. n < s[i].number /\ s[i].number <= m
      BY <1>1, <1>3, <2>1 DEF Lines
    <3>2. s[i].number \in Nat
      BY <1>1, <1>3, <2>1, ItemNumber
    <3> QED BY <1>1, <2>1, <3>1, <3>2
  <2>2. CASE i = l + 1
    <3>1. n <= m
      BY DEF Lines
    <3> QED BY <1>1, <2>2, <3>1
  <2> QED BY <1>1, <2>1, <2>2
<1>4. ASSUME NEW k \in (n + 1)..(m + 1)
      PROVE  \E i \in DOMAIN t : IsFrom(o, t[i]) /\ t[i].number = k
  <2>1. CASE k \in (n + 1)..m
    <3>1. PICK i \in 1..l : IsFrom(o, s[i]) /\ s[i].number = k
      BY <1>1, <2>1 DEF Lines
    <3>2. i \in DOMAIN t /\ t[i] = s[i]
      BY <1>1
    <3> QED BY <3>1, <3>2
  <2>2. CASE k = m + 1
    <3>1. l + 1 \in DOMAIN t
      BY <1>1
    <3> QED BY <1>1, <2>2, <3>1
  <2> QED BY <2>1, <2>2
<1>5. ASSUME NEW i \in DOMAIN t, NEW j \in DOMAIN t, IsFrom(o, t[i]), IsFrom(o, t[j]), i < j
      PROVE  t[i].number < t[j].number
  <2>1. i \in 1..l
    BY <1>1, <1>5
  <2>2. CASE j \in 1..l
    BY <1>1, <1>5, <2>1, <2>2 DEF Lines
  <2>3. CASE j = l + 1
    <3>1. s[i].number <= m /\ s[i].number \in Nat
      BY <1>1, <1>5, <2>1, ItemNumber DEF Lines
    <3> QED BY <1>1, <2>1, <2>3, <3>1
  <2> QED BY <1>1, <2>2, <2>3
<1> QED BY <1>2, <1>3, <1>4, <1>5 DEF Lines, t

LEMMA AppendOther ==
    ASSUME NEW o, NEW n \in Nat, NEW m \in Nat, NEW s \in Seq(Item), NEW f \in Item,
           Lines(s, o, n, m), ~IsFrom(o, f)
    PROVE  Lines(Append(s, f), o, n, m)
<1> DEFINE t == Append(s, f)
           l == Len(s)
<1>1. l \in Nat /\ DOMAIN s = 1..l /\ DOMAIN t = 1..(l + 1) /\ t[l + 1] = f
      /\ \A i \in 1..l : t[i] = s[i] /\ s[i] \in Item
  OBVIOUS
<1> HIDE DEF t, l
<1>2. \A i \in DOMAIN t : IsFrom(o, t[i]) => i \in DOMAIN s /\ t[i] = s[i]
  BY <1>1
<1>3. \A i \in DOMAIN s : i \in DOMAIN t /\ t[i] = s[i]
  BY <1>1
<1> QED BY <1>2, <1>3 DEF Lines, t

\* The frame at the head is the first line, or none of this pipe.
LEMMA HeadLine ==
    ASSUME NEW o, NEW n \in Nat, NEW m \in Nat, NEW s \in Seq(Item), s # <<>>,
           Lines(s, o, n, m), IsFrom(o, Head(s))
    PROVE  Head(s).number = n + 1 /\ n + 1 <= m /\ Lines(Tail(s), o, n + 1, m)
<1> DEFINE t == Tail(s)
           l == Len(s) - 1
           f == Head(s)
<1>1. /\ l \in Nat /\ DOMAIN s = 1..(l + 1) /\ DOMAIN t = 1..l /\ s[1] = f
      /\ \A i \in 1..l : t[i] = s[i + 1]
      /\ \A i \in 1..(l + 1) : s[i] \in Item
  OBVIOUS
<1> HIDE DEF t, l, f
<1>2. 1 \in DOMAIN s /\ n < s[1].number /\ s[1].number <= m /\ s[1].number \in Nat
  <2>1. 1 \in 1..(l + 1)
    BY <1>1
  <2>2. s[1] \in Item /\ IsFrom(o, s[1])
    BY <1>1, <2>1 DEF f
  <2>3. s[1].number \in Nat
    BY <2>2, ItemNumber
  <2> QED BY <1>1, <2>1, <2>2, <2>3 DEF Lines
<1>3. f.number = n + 1 /\ n + 1 <= m
  <2>1. PICK i \in DOMAIN s : IsFrom(o, s[i]) /\ s[i].number = n + 1
    BY <1>2 DEF Lines
  <2>2. i > 1 => s[1].number < s[i].number
    BY <1>1, <1>2, <2>1 DEF Lines, f
  <2> QED BY <1>1, <1>2, <2>1, <2>2
<1>4. ASSUME NEW i \in DOMAIN t, IsFrom(o, t[i])
      PROVE  n + 1 < t[i].number /\ t[i].number <= m
  <2>1. i + 1 \in DOMAIN s /\ 1 < i + 1 /\ t[i] = s[i + 1]
    BY <1>1
  <2>2. s[1].number < s[i + 1].number /\ s[i + 1].number <= m
    BY <1>2, <1>4, <2>1, <1>1 DEF Lines, f
  <2>3. s[i + 1].number \in Nat
    BY <1>1, <1>4, <2>1, ItemNumber
  <2> QED BY <1>1, <1>3, <2>1, <2>2, <2>3
<1>5. ASSUME NEW k \in (n + 1 + 1)..m
      PROVE  \E i \in DOMAIN t : IsFrom(o, t[i]) /\ t[i].number = k
  <2>1. PICK i \in DOMAIN s : IsFrom(o, s[i]) /\ s[i].number = k
    BY DEF Lines
  <2>2. i # 1
    BY <1>1, <1>3, <2>1
  <2>3. i - 1 \in DOMAIN t /\ t[i - 1] = s[i]
    <3>1. i - 1 \in 1..l /\ (i - 1) + 1 = i
      BY <1>1, <2>2
    <3> QED BY <1>1, <3>1
  <2> QED BY <2>1, <2>3
<1>6. ASSUME NEW i \in DOMAIN t, NEW j \in DOMAIN t, IsFrom(o, t[i]), IsFrom(o, t[j]), i < j
      PROVE  t[i].number < t[j].number
  <2>1. i + 1 \in DOMAIN s /\ j + 1 \in DOMAIN s /\ i + 1 < j + 1 /\ t[i] = s[i + 1] /\ t[j] = s[j + 1]
    BY <1>1, <1>6
  <2> QED BY <1>6, <2>1 DEF Lines
<1> QED BY <1>3, <1>4, <1>5, <1>6 DEF Lines, t, f

LEMMA HeadOther ==
    ASSUME NEW o, NEW n \in Nat, NEW m \in Nat, NEW s \in Seq(Item), s # <<>>,
           Lines(s, o, n, m), ~IsFrom(o, Head(s))
    PROVE  Lines(Tail(s), o, n, m)
<1> DEFINE t == Tail(s)
           l == Len(s) - 1
<1>1. l \in Nat /\ DOMAIN s = 1..(l + 1) /\ DOMAIN t = 1..l /\ ~IsFrom(o, s[1])
      /\ \A i \in 1..l : t[i] = s[i + 1]
  OBVIOUS
<1> HIDE DEF t, l
<1>2. \A i \in DOMAIN t : i + 1 \in DOMAIN s /\ t[i] = s[i + 1]
  BY <1>1
<1>3. ASSUME NEW i \in DOMAIN s, IsFrom(o, s[i])
      PROVE  i - 1 \in DOMAIN t /\ t[i - 1] = s[i]
  <2>1. i - 1 \in 1..l /\ (i - 1) + 1 = i
    BY <1>1, <1>3
  <2> QED BY <1>1, <2>1
<1>4. \A i, j \in DOMAIN t : i < j => i + 1 < j + 1
  BY <1>1
<1>5. \A i \in DOMAIN t : IsFrom(o, t[i]) => n < t[i].number /\ t[i].number <= m
  BY <1>2 DEF Lines
<1>6. \A k \in (n + 1)..m : \E i \in DOMAIN t : IsFrom(o, t[i]) /\ t[i].number = k
  BY <1>3 DEF Lines
<1>7. \A i, j \in DOMAIN t : i < j /\ IsFrom(o, t[i]) /\ IsFrom(o, t[j]) => t[i].number < t[j].number
  BY <1>2, <1>4 DEF Lines
<1>8. n <= m
  BY DEF Lines
<1> QED BY <1>5, <1>6, <1>7, <1>8 DEF Lines, t

\* What arrived and what is on the way make one stretch.
LEMMA Concatenated ==
    ASSUME NEW o, NEW n \in Nat, NEW m \in Nat, NEW k \in Nat,
           NEW s \in Seq(Item), NEW t \in Seq(Item), Lines(s, o, n, m), Lines(t, o, m, k)
    PROVE  Lines(s \o t, o, n, k)
<1> DEFINE u == s \o t
           l == Len(s)
           r == Len(t)
<1>1. l \in Nat /\ r \in Nat /\ DOMAIN s = 1..l /\ DOMAIN t = 1..r /\ DOMAIN u = 1..(l + r)
      /\ (\A i \in 1..l : u[i] = s[i] /\ s[i] \in Item)
      /\ (\A i \in 1..(l + r) : i > l => u[i] = t[i - l] /\ i - l \in 1..r)
      /\ (\A i \in 1..r : t[i] \in Item)
  <2>1. l \in Nat /\ r \in Nat /\ DOMAIN s = 1..l /\ DOMAIN t = 1..r
        /\ (\A i \in 1..l : s[i] \in Item) /\ (\A i \in 1..r : t[i] \in Item)
    OBVIOUS
  <2>2. u \in Seq(Item) /\ Len(u) = l + r
        /\ \A i \in 1..(l + r) : u[i] = IF i <= l THEN s[i] ELSE t[i - l]
    BY ConcatProperties
  <2>3. DOMAIN u = 1..(l + r)
    BY <2>2
  <2> HIDE DEF u, l, r
  <2>4. \A i \in 1..l : i \in 1..(l + r) /\ i <= l
    BY <2>1
  <2>5. \A i \in 1..(l + r) : i > l => ~(i <= l) /\ i - l \in 1..r
    BY <2>1
  <2> QED BY <2>1, <2>2, <2>3, <2>4, <2>5
<1> HIDE DEF u, l, r
<1>2. n <= m /\ m <= k
  BY DEF Lines
<1>3. ASSUME NEW i \in DOMAIN u, IsFrom(o, u[i])
      PROVE  /\ u[i].number \in Nat
             /\ i \in 1..l => u[i] = s[i] /\ n < u[i].number /\ u[i].number <= m
             /\ i \notin 1..l => /\ i > l /\ i - l \in DOMAIN t /\ u[i] = t[i - l]
                                 /\ m < u[i].number /\ u[i].number <= k
  <2>1. CASE i \in 1..l
    BY <1>1, <1>3, <2>1, ItemNumber DEF Lines
  <2>2. CASE i \notin 1..l
    <3>1. i > l /\ i - l \in DOMAIN t /\ u[i] = t[i - l]
      BY <1>1, <2>2
    <3> QED BY <1>1, <1>3, <2>2, <3>1, ItemNumber DEF Lines
  <2> QED BY <2>1, <2>2
<1>4. \A i \in DOMAIN u : IsFrom(o, u[i]) => n < u[i].number /\ u[i].number <= k
  BY <1>2, <1>3
<1>5. ASSUME NEW x \in (n + 1)..k
      PROVE  \E i \in DOMAIN u : IsFrom(o, u[i]) /\ u[i].number = x
  <2>1. CASE x \in (n + 1)..m
    <3>1. PICK i \in DOMAIN s : IsFrom(o, s[i]) /\ s[i].number = x
      BY <2>1 DEF Lines
    <3>2. i \in DOMAIN u /\ u[i] = s[i]
      BY <1>1
    <3> QED BY <3>1, <3>2
  <2>2. CASE x \in (m + 1)..k
    <3>1. PICK i \in DOMAIN t : IsFrom(o, t[i]) /\ t[i].number = x
      BY <2>2 DEF Lines
    <3>2. l + i \in DOMAIN u /\ u[l + i] = t[i]
      <4>1. l + i \in 1..(l + r) /\ l + i > l /\ (l + i) - l = i
        BY <1>1
      <4> QED BY <1>1, <4>1
    <3> QED BY <3>1, <3>2
  <2> QED BY <1>2, <2>1, <2>2
<1>6. ASSUME NEW i \in DOMAIN u, NEW j \in DOMAIN u, IsFrom(o, u[i]), IsFrom(o, u[j]), i < j
      PROVE  u[i].number < u[j].number
  <2>1. CASE i \in 1..l /\ j \in 1..l
    BY <1>1, <1>6, <2>1 DEF Lines
  <2>2. CASE i \in 1..l /\ j \notin 1..l
    BY <1>3, <1>6, <2>2
  <2>3. CASE i \notin 1..l /\ j \notin 1..l
    <3>1. i - l < j - l
      BY <1>1, <1>6
    <3> QED BY <1>3, <1>6, <2>3, <3>1 DEF Lines
  <2>4. CASE i \notin 1..l /\ j \in 1..l
    BY <1>1, <1>6, <2>4
  <2> QED BY <2>1, <2>2, <2>3, <2>4
<1>7. n <= k
  BY <1>2
<1>8. Lines(u, o, n, k)
  BY <1>4, <1>5, <1>6, <1>7 DEF Lines
<1> QED BY <1>8 DEF u

-----------------------------------------------------------------------------
(* A step at one connection *)

HandlerTypes ==
    /\ phase \in {"up", "stopping", "down"} /\ accepting \in BOOLEAN
    /\ free \in 0..MaxStreams
    /\ server \in [Connection -> {"none", "backlog", "submitted", "receive", "send",
                                  "closing", "joining", "cancelled", "done"}]
    /\ event \in [Connection -> Frame \cup {Nothing}]
    /\ \A c \in Connection : event[c] = Nothing <=> server[c] # "send"
    /\ faults \in 0..MaxFaults

SourceTypes ==
    /\ child \in [Connection -> {"none", "running", "exited", "failed", "killed"}]
    /\ written \in [Connection -> [Output -> 0..MaxLines]]
    /\ read \in [Connection -> [Output -> 0..MaxLines]]
    /\ reader \in [Connection -> [Output -> {"none", "reading", "gone"}]]
    /\ queue \in [Connection -> Seq(Line \cup {ReaderDone(o) : o \in Output})]
    /\ done \in [Connection -> SUBSET Output]
    /\ \A c \in Connection : /\ Len(queue[c]) <= QueueCapacity
                             /\ \A o \in Output : read[c][o] <= written[c][o]

Places == {"away", "opening", "reading", "stalled", "ended", "error", "left"}
ClientTypes ==
    /\ wire \in [Connection -> Seq(Frame)]
    /\ \A c \in Connection : Len(wire[c]) <= WireCapacity
    /\ client \in [Connection -> Places]
    /\ got \in [Connection -> Seq(Line)]

LEMMA TypeParts == TypeOK <=> HandlerTypes /\ SourceTypes /\ ClientTypes
BY DEF TypeOK, HandlerTypes, SourceTypes, ClientTypes, Places

State(c) == <<server[c], event[c], child[c], written[c], read[c], reader[c], queue[c], done[c],
              wire[c], client[c], got[c]>>
OnlyAt(c) == \A d \in Connection \ {c} : State(d)' = State(d)

LEMMA Untouched ==
    ASSUME NEW d \in Connection, ConnectionInv(d), State(d)' = State(d) PROVE ConnectionInv(d)'
<1>1. UNCHANGED <<server[d], event[d], child[d], written[d], read[d], reader[d], queue[d], done[d],
                  wire[d], client[d], got[d]>>
  BY DEF State
<1>2. PlaceOf(d)'
  BY <1>1 DEF ConnectionInv, PlaceOf, ClientOpen
<1>3. EndOf(d)'
  BY <1>1 DEF ConnectionInv, EndOf, Queued
<1>4. FlowOf(d)'
  BY <1>1 DEF ConnectionInv, FlowOf, Sent, Ahead, ClientOpen
<1> QED BY <1>2, <1>3, <1>4 DEF ConnectionInv

LEMMA OneConnection ==
    ASSUME Inv, NEW c \in Connection, OnlyAt(c), HandlerTypes', SourceTypes', ClientTypes',
           PermitInv', PlaceOf(c)', EndOf(c)', FlowOf(c)'
    PROVE  Inv'
<1>1. ASSUME NEW d \in Connection PROVE ConnectionInv(d)'
  <2>1. CASE d = c
    BY <2>1 DEF ConnectionInv
  <2>2. CASE d # c
    BY <2>2, Untouched DEF Inv, OnlyAt
  <2> QED BY <2>1, <2>2
<1>2. TypeOK'
  BY DEF TypeOK, HandlerTypes, SourceTypes, ClientTypes, Places
<1> QED BY <1>1, <1>2 DEF Inv

LEMMA Known ==
    ASSUME Inv, NEW c \in Connection
    PROVE  HandlerTypes /\ SourceTypes /\ ClientTypes /\ PlaceOf(c) /\ EndOf(c) /\ FlowOf(c)
BY TypeParts DEF Inv, ConnectionInv

-----------------------------------------------------------------------------
(* The permits *)

LEMMA HoldersAreFinite ==
    /\ IsFiniteSet(PermitHolder) /\ Cardinality(PermitHolder) \in Nat
    /\ \A c \in Connection : c \in PermitHolder <=> server[c] \in Holding
<1>1. IsFiniteSet(Connection)
  BY LogStreamAssumption, FS_Interval DEF Connection, LogStreamAssumption
<1> QED BY <1>1, FS_Subset, FS_CardinalityType DEF PermitHolder, Holding, Streaming

LEMMA PermitsKept ==
    ASSUME Inv, PermitHolder' = PermitHolder, free' = free, phase' = phase, accepting' => accepting
    PROVE  PermitInv'
BY DEF Inv, PermitInv

LEMMA PermitTaken ==
    ASSUME Inv, NEW c \in Connection, accepting, free > 0, free' = free - 1, UNCHANGED brokerVars,
           server[c] \notin Holding, server'[c] \in Holding, OnlyAt(c)
    PROVE  PermitInv' /\ free' \in 0..MaxStreams
<1>1. PermitHolder' = PermitHolder \cup {c} /\ c \notin PermitHolder
  BY DEF PermitHolder, Holding, Streaming, OnlyAt, State
<1>2. Cardinality(PermitHolder') = Cardinality(PermitHolder) + 1
  BY <1>1, HoldersAreFinite, FS_AddElement
<1> QED BY <1>2, HoldersAreFinite, LogStreamAssumption
        DEF Inv, PermitInv, TypeOK, LogStreamAssumption, brokerVars

LEMMA PermitReturned ==
    ASSUME Inv, NEW c \in Connection, free' = free + 1, UNCHANGED brokerVars,
           server[c] \in Holding, server'[c] \notin Holding, OnlyAt(c)
    PROVE  PermitInv' /\ free' \in 0..MaxStreams
<1>1. PermitHolder' = PermitHolder \ {c} /\ c \in PermitHolder
  BY DEF PermitHolder, Holding, Streaming, OnlyAt, State
<1>2. Cardinality(PermitHolder') = Cardinality(PermitHolder) - 1
  BY <1>1, HoldersAreFinite, FS_RemoveElement
<1>3. Cardinality(PermitHolder') \in Nat /\ phase # "down"
  BY <1>1, HoldersAreFinite, FS_RemoveElement, FS_CardinalityType DEF Inv, PermitInv
<1> QED BY <1>2, <1>3, HoldersAreFinite, LogStreamAssumption
        DEF Inv, PermitInv, TypeOK, LogStreamAssumption, brokerVars

LEMMA PlaceKept ==
    ASSUME Inv, NEW c \in Connection, OnlyAt(c), free' = free, UNCHANGED brokerVars,
           server[c] \in Holding => server'[c] \in Holding,
           server'[c] \in Holding => server[c] \in Holding
    PROVE  PermitInv'
<1>1. PermitHolder' = PermitHolder
  BY DEF PermitHolder, Holding, Streaming, OnlyAt, State
<1> QED BY <1>1, PermitsKept DEF brokerVars

-----------------------------------------------------------------------------
(* The flow of the lines *)

LEMMA FlowKept ==
    ASSUME NEW c \in Connection, FlowOf(c), UNCHANGED <<got[c], wire[c]>>,
           ClientOpen(c)' /\ server'[c] \in {"send", "receive"} =>
               ClientOpen(c) /\ server[c] \in {"send", "receive"} /\ UNCHANGED <<event[c], queue[c], read[c]>>
    PROVE  FlowOf(c)'
<1> SUFFICES ASSUME NEW o \in Output
             PROVE  \E a, b \in 0..MaxLines :
                       /\ Sent(c, o, a, b)'
                       /\ ClientOpen(c)' /\ server'[c] \in {"send", "receive"} => Ahead(c, o, b)'
  BY DEF FlowOf
<1>1. PICK a \in 0..MaxLines, b \in 0..MaxLines :
         /\ Sent(c, o, a, b)
         /\ ClientOpen(c) /\ server[c] \in {"send", "receive"} => Ahead(c, o, b)
  BY DEF FlowOf
<1>2. Sent(c, o, a, b)'
  BY <1>1 DEF Sent
<1>3. ClientOpen(c)' /\ server'[c] \in {"send", "receive"} => Ahead(c, o, b)'
  BY <1>1 DEF Ahead
<1> QED BY <1>2, <1>3

LEMMA FlowOver ==
    ASSUME NEW c \in Connection, got'[c] = <<>>, wire'[c] = <<>>,
           ~(ClientOpen(c)' /\ server'[c] \in {"send", "receive"})
    PROVE  FlowOf(c)'
<1>1. ASSUME NEW o \in Output PROVE Sent(c, o, 0, 0)' /\ 0 \in 0..MaxLines
  BY LinesNone, LogStreamAssumption DEF Sent, LogStreamAssumption
<1> QED BY <1>1 DEF FlowOf

-----------------------------------------------------------------------------
(* The browser and the API *)

LEMMA ConnectInv == ASSUME Inv, NEW c \in Connection, Connect(c) PROVE Inv'
<1> USE Known
<1>1. OnlyAt(c)
  BY DEF Connect, At, OnlyAt, State, brokerVars, sourceVars, childVars, readerVars, HandlerTypes, ClientTypes
<1>2. HandlerTypes'
  BY DEF Connect, At, HandlerTypes, brokerVars, PlaceOf
<1>3. SourceTypes'
  BY DEF Connect, SourceTypes, sourceVars, childVars, readerVars
<1>4. ClientTypes'
  BY DEF Connect, ClientTypes, Places
<1>5. server[c] = "none" /\ server'[c] \in {"none", "backlog"}
  BY DEF Connect, At, PlaceOf, HandlerTypes
<1>6. PermitInv'
  BY <1>1, <1>5, PlaceKept DEF Connect, Holding, Streaming, brokerVars
<1>7. PlaceOf(c)'
  BY <1>5 DEF Connect, At, PlaceOf, Unserved, Streaming, ClientOpen, HandlerTypes, ClientTypes, sourceVars,
              childVars, readerVars, brokerVars
<1>8. EndOf(c)'
  BY <1>5 DEF EndOf, Streaming
<1>9. FlowOf(c)'
  BY <1>5, FlowKept DEF Connect
<1> QED BY <1>1, <1>2, <1>3, <1>4, <1>6, <1>7, <1>8, <1>9, OneConnection

\* The subscription is closed. The broker does not know yet.
LEMMA CloseClientInv ==
    ASSUME Inv, NEW c \in Connection, NEW outcome \in {"ended", "error", "left"},
           CloseClient(c, outcome), faults' \in 0..MaxFaults, client[c] # "away",
           UNCHANGED <<brokerVars, free, server, event, sourceVars>>
    PROVE  Inv'
<1> USE Known
<1>1. OnlyAt(c)
  BY DEF CloseClient, Discard, OnlyAt, State, sourceVars, childVars, readerVars, ClientTypes
<1>2. HandlerTypes'
  BY DEF HandlerTypes, brokerVars
<1>3. SourceTypes'
  BY DEF SourceTypes, sourceVars, childVars, readerVars
<1>4. wire'[c] = <<>> /\ got'[c] = <<>> /\ client'[c] = outcome
  BY DEF CloseClient, Discard, ClientTypes
<1>5. ClientTypes'
  <2>1. wire' \in [Connection -> Seq(Frame)] /\ got' \in [Connection -> Seq(Line)]
    BY EmptySeq DEF CloseClient, Discard, ClientTypes
  <2>2. client' \in [Connection -> Places]
    BY DEF CloseClient, Discard, ClientTypes, Places
  <2>3. ASSUME NEW d \in Connection PROVE Len(wire'[d]) <= WireCapacity
    <3>1. CASE d = c
      BY <1>4, <3>1, LogStreamAssumption DEF LogStreamAssumption
    <3>2. CASE d # c
      BY <3>2 DEF CloseClient, Discard, ClientTypes
    <3> QED BY <3>1, <3>2
  <2> QED BY <2>1, <2>2, <2>3 DEF ClientTypes
<1>6. PermitInv'
  BY <1>1, PlaceKept
<1>7. PlaceOf(c)'
  BY <1>4 DEF PlaceOf, ClientOpen, sourceVars, childVars, readerVars
<1>8. EndOf(c)'
  BY DEF EndOf, Queued, sourceVars, childVars, readerVars
<1>9. FlowOf(c)'
  BY <1>4, FlowOver DEF ClientOpen
<1> QED BY <1>1, <1>2, <1>3, <1>5, <1>6, <1>7, <1>8, <1>9, OneConnection

\* The frame at the head of the wire goes to the browser, if it is a line.
LEMMA FrameArrives ==
    ASSUME NEW c \in Connection, FlowOf(c), ClientOpen(c),
           wire[c] \in Seq(Item), wire[c] # <<>>, got[c] \in Seq(Item), Head(wire[c]) \in Item,
           wire'[c] = Tail(wire[c]),
           got'[c] = IF Head(wire[c]).kind = "log" THEN Append(got[c], Head(wire[c])) ELSE got[c],
           UNCHANGED <<server[c], event[c], queue[c], read[c]>>
    PROVE  FlowOf(c)'
<1> SUFFICES ASSUME NEW o \in Output
             PROVE  \E a, b \in 0..MaxLines :
                       /\ Sent(c, o, a, b)'
                       /\ server'[c] \in {"send", "receive"} => Ahead(c, o, b)'
  BY DEF FlowOf
<1>1. PICK a \in 0..MaxLines, b \in 0..MaxLines :
         Sent(c, o, a, b) /\ (server[c] \in {"send", "receive"} => Ahead(c, o, b))
  BY DEF FlowOf
<1>2. server'[c] \in {"send", "receive"} => Ahead(c, o, b)'
  BY <1>1 DEF Ahead
<1>3. MaxLines \in Nat /\ a \in Nat /\ b \in Nat
  BY LogStreamAssumption DEF LogStreamAssumption
<1>4. CASE IsFrom(o, Head(wire[c]))
  <2>1. got'[c] = Append(got[c], Head(wire[c]))
    BY <1>4 DEF IsFrom
  <2>2. Head(wire[c]).number = a + 1 /\ a + 1 <= b /\ Lines(Tail(wire[c]), o, a + 1, b)
    BY <1>1, <1>3, <1>4, HeadLine DEF Sent
  <2>3. Lines(Append(got[c], Head(wire[c])), o, 0, a + 1)
    BY <1>1, <1>3, <1>4, <2>2, AppendLine DEF Sent
  <2>4. Sent(c, o, a + 1, b)'
    BY <2>1, <2>2, <2>3 DEF Sent
  <2>5. a + 1 \in 0..MaxLines
    BY <1>3, <2>2
  <2> QED BY <1>2, <2>4, <2>5
<1>5. CASE ~IsFrom(o, Head(wire[c]))
  <2>1. Lines(Tail(wire[c]), o, a, b)
    BY <1>1, <1>3, <1>5, HeadOther DEF Sent
  <2>2. Lines(Append(got[c], Head(wire[c])), o, 0, a)
    BY <1>1, <1>3, <1>5, AppendOther DEF Sent
  <2>3. Lines(got'[c], o, 0, a)
    BY <1>1, <2>2 DEF Sent
  <2>4. Sent(c, o, a, b)'
    BY <2>1, <2>3 DEF Sent
  <2> QED BY <1>2, <2>4
<1> QED BY <1>4, <1>5

LEMMA Items ==
    /\ Frame \subseteq Item /\ Line \subseteq Frame /\ Line \subseteq Item
    /\ \A s : s \in Seq(Frame) \/ s \in Seq(Line) => s \in Seq(Item)
    /\ \A s : s \in Seq(Line \cup {ReaderDone(o) : o \in Output}) => s \in Seq(Item)
<1>1. Frame \subseteq Item /\ Line \subseteq Frame /\ Line \subseteq Item
  BY DEF Item, Frame
<1>2. Line \cup {ReaderDone(o) : o \in Output} \subseteq Item
  BY DEF Item
<1> QED BY <1>1, <1>2, SeqMonotonic

LEMMA ReceiveFrameInv == ASSUME Inv, NEW c \in Connection, ReceiveFrame(c) PROVE Inv'
<1> USE Known
<1> DEFINE frame == Head(wire[c])
           outcome == Outcome(c, frame)
<1>1. wire[c] \in Seq(Frame) /\ wire[c] # <<>> /\ frame \in Frame /\ got[c] \in Seq(Line)
  <2>1. wire[c] \in Seq(Frame) /\ wire[c] # <<>> /\ got[c] \in Seq(Line)
    BY DEF ReceiveFrame, ClientTypes
  <2> QED BY <2>1, HeadTailProperties
<1>2. client[c] \in {"opening", "reading"} /\ UNCHANGED <<brokerVars, free, server, event, sourceVars, faults>>
  BY DEF ReceiveFrame, Reads, ClientOpen
<1>3. outcome \in {"ended", "error", "opening", "reading"}
  BY <1>2 DEF Outcome
<1> HIDE DEF frame, outcome
<1>4. CASE outcome \in {"ended", "error"}
  <2>1. CloseClient(c, outcome)
    BY <1>4 DEF ReceiveFrame, frame, outcome
  <2>2. faults' \in 0..MaxFaults
    BY <1>2 DEF HandlerTypes
  <2> QED BY <1>2, <1>4, <2>1, <2>2, CloseClientInv
<1>5. CASE outcome \notin {"ended", "error"}
  <2>1. /\ client' = [client EXCEPT ![c] = outcome]
        /\ wire' = [wire EXCEPT ![c] = Tail(@)]
        /\ got' = IF frame.kind = "log" THEN [got EXCEPT ![c] = Append(@, frame)] ELSE got
    BY <1>5 DEF ReceiveFrame, frame, outcome
  <2>2. client'[c] = outcome /\ outcome \in {"opening", "reading"} /\ wire'[c] = Tail(wire[c])
        /\ got'[c] = IF frame.kind = "log" THEN Append(got[c], frame) ELSE got[c]
    BY <1>3, <1>5, <2>1 DEF ClientTypes
  <2>3. OnlyAt(c)
    BY <1>2, <2>1 DEF OnlyAt, State, sourceVars, childVars, readerVars, ClientTypes
  <2>4. HandlerTypes' /\ SourceTypes'
    BY <1>2 DEF HandlerTypes, SourceTypes, brokerVars, sourceVars, childVars, readerVars
  <2>5. ClientTypes'
    <3>1. Tail(wire[c]) \in Seq(Frame) /\ Len(Tail(wire[c])) = Len(wire[c]) - 1 /\ Len(wire[c]) \in Nat
      BY <1>1, HeadTailProperties, LenProperties
    <3>2. frame.kind = "log" => frame \in Line
      BY <1>1 DEF Frame, Mark
    <3>3. got' \in [Connection -> Seq(Line)]
      <4>1. frame.kind = "log" => Append(got[c], frame) \in Seq(Line)
        BY <1>1, <3>2, AppendProperties
      <4> QED BY <2>1, <4>1 DEF ClientTypes
    <3>4. wire' \in [Connection -> Seq(Frame)]
      BY <2>1, <3>1 DEF ClientTypes
    <3>5. \A d \in Connection : Len(wire'[d]) <= WireCapacity
      BY <2>1, <2>2, <3>1, LogStreamAssumption DEF ClientTypes, LogStreamAssumption
    <3>6. client' \in [Connection -> Places]
      BY <2>1, <2>2 DEF ClientTypes, Places
    <3> QED BY <3>3, <3>4, <3>5, <3>6 DEF ClientTypes
  <2>6. PermitInv'
    BY <1>2, <2>3, PlaceKept
  <2>7. PlaceOf(c)'
    BY <1>1, <1>2, <2>2 DEF PlaceOf, ClientOpen, sourceVars, childVars, readerVars
  <2>8. EndOf(c)'
    BY <1>2 DEF EndOf, Queued, sourceVars, childVars, readerVars
  <2>9. FlowOf(c)'
    <3>1. wire[c] \in Seq(Item) /\ got[c] \in Seq(Item) /\ frame \in Item
      BY <1>1, Items
    <3>2. ClientOpen(c) /\ UNCHANGED <<server[c], event[c], queue[c], read[c]>>
      BY <1>2 DEF ClientOpen, sourceVars, childVars, readerVars
    <3> QED BY <1>1, <2>2, <3>1, <3>2, FrameArrives DEF frame
  <2> QED BY <2>3, <2>4, <2>5, <2>6, <2>7, <2>8, <2>9, OneConnection
<1> QED BY <1>4, <1>5

LEMMA ClientLeavesInv ==
    ASSUME Inv, NEW c \in Connection, ReceiveEof(c) \/ HandshakeTimeout(c) \/ Leave(c) PROVE Inv'
<1>1. faults' \in 0..MaxFaults
  BY Known, LogStreamAssumption
  DEF ReceiveEof, HandshakeTimeout, Leave, Fault, HandlerTypes, LogStreamAssumption
<1>2. client[c] # "away" /\ UNCHANGED <<brokerVars, free, server, event, sourceVars>>
  BY DEF ReceiveEof, HandshakeTimeout, Leave, Reads, ClientOpen
<1>3. CloseClient(c, "error") \/ CloseClient(c, "left")
  BY DEF ReceiveEof, HandshakeTimeout, Leave
<1> QED BY <1>1, <1>2, <1>3, CloseClientInv

\* The socket stays open, and the broker does not see a difference.
LEMMA StallInv == ASSUME Inv, NEW c \in Connection, Stall(c) PROVE Inv'
<1> USE Known
<1>1. /\ client' = [client EXCEPT ![c] = "stalled"] /\ client[c] = "reading"
      /\ UNCHANGED <<brokerVars, free, server, event, sourceVars, wire, got, faults>>
  BY DEF Stall
<1>2. client'[c] = "stalled" /\ OnlyAt(c)
  BY <1>1 DEF OnlyAt, State, sourceVars, childVars, readerVars, ClientTypes
<1>3. HandlerTypes' /\ SourceTypes'
  BY <1>1 DEF HandlerTypes, SourceTypes, brokerVars, sourceVars, childVars, readerVars
<1>4. ClientTypes'
  BY <1>1 DEF ClientTypes, Places
<1>5. PermitInv'
  BY <1>1, <1>2, PlaceKept
<1>6. PlaceOf(c)'
  BY <1>1, <1>2 DEF PlaceOf, ClientOpen, Stall, sourceVars, childVars, readerVars
<1>7. EndOf(c)'
  BY <1>1 DEF EndOf, Queued, sourceVars, childVars, readerVars
<1>8. FlowOf(c)'
  BY <1>1, FlowKept DEF ClientOpen, sourceVars, readerVars
<1> QED BY <1>2, <1>3, <1>4, <1>5, <1>6, <1>7, <1>8, OneConnection

-----------------------------------------------------------------------------
(* The accept thread and stop() *)

LEMMA AcceptInv == ASSUME Inv, NEW c \in Connection, Accept(c) PROVE Inv'
<1> USE Known
<1>1. server[c] = "backlog" /\ UNCHANGED <<brokerVars, event, sourceVars, clientVars, faults>>
  BY DEF Accept
<1>2. got[c] = <<>> /\ wire[c] = <<>> /\ queue[c] = <<>> /\ \A o \in Output : reader[c][o] = "none"
  BY <1>1 DEF PlaceOf, Unserved
<1>3. OnlyAt(c)
  BY DEF Accept, At, OnlyAt, State, sourceVars, childVars, readerVars, clientVars, HandlerTypes, ClientTypes
<1>4. SourceTypes'
  BY <1>1 DEF SourceTypes, sourceVars, childVars, readerVars
<1>5. CASE free > 0
  <2>1. free' = free - 1 /\ At(c, "submitted") /\ wire' = wire
    BY <1>5 DEF Accept
  <2>2. server'[c] = "submitted"
    BY <2>1 DEF At, HandlerTypes
  <2>3. PermitInv' /\ free' \in 0..MaxStreams
    BY <1>1, <1>3, <1>5, <2>1, <2>2, PermitTaken DEF Accept, Holding, Streaming
  <2>4. HandlerTypes'
    BY <1>1, <2>1, <2>3 DEF HandlerTypes, At, brokerVars
  <2>5. ClientTypes'
    BY <1>1, <2>1 DEF ClientTypes, clientVars
  <2>6. PlaceOf(c)'
    BY <1>1, <1>2, <2>1, <2>2 DEF PlaceOf, Unserved, Streaming, ClientOpen, sourceVars, childVars, readerVars,
                                  clientVars
  <2>7. EndOf(c)'
    BY <2>2 DEF EndOf, Streaming
  <2>8. FlowOf(c)'
    BY <1>1, <2>1, <2>2, FlowKept DEF clientVars
  <2> QED BY <1>3, <1>4, <2>3, <2>4, <2>5, <2>6, <2>7, <2>8, OneConnection
<1>6. CASE ~(free > 0)
  <2>1. /\ free' = free /\ At(c, "done")
        /\ wire' = IF ClientOpen(c) THEN [wire EXCEPT ![c] = <<Mark("error")>>] ELSE wire
    BY <1>6 DEF Accept
  <2>2. server'[c] = "done" /\ wire'[c] = IF ClientOpen(c) THEN <<Mark("error")>> ELSE wire[c]
    BY <2>1 DEF At, HandlerTypes, ClientTypes
  <2>3. PermitInv'
    BY <1>1, <1>3, <2>1, <2>2, PlaceKept DEF Holding, Streaming
  <2>4. HandlerTypes'
    BY <1>1, <2>1 DEF HandlerTypes, At, brokerVars
  <2>5. Mark("error") \in Frame /\ <<Mark("error")>> \in Seq(Frame) /\ Len(<<Mark("error")>>) = 1
    BY DEF Frame
  <2>6. ClientTypes'
    <3>1. wire' \in [Connection -> Seq(Frame)]
      BY <2>1, <2>5 DEF ClientTypes
    <3>2. \A d \in Connection : Len(wire'[d]) <= WireCapacity
      BY <2>1, <2>5, LogStreamAssumption DEF ClientTypes, LogStreamAssumption
    <3> QED BY <1>1, <3>1, <3>2 DEF ClientTypes, clientVars
  <2>7. PlaceOf(c)'
    BY <1>1, <1>2, <2>2 DEF PlaceOf, Unserved, Streaming, ClientOpen, sourceVars, childVars, readerVars,
                            clientVars
  <2>8. EndOf(c)'
    BY <2>2 DEF EndOf, Streaming
  <2>9. FlowOf(c)'
    <3>1. CASE wire'[c] = wire[c]
      BY <1>1, <2>2, <3>1, FlowKept DEF clientVars
    <3>2. CASE wire'[c] = <<Mark("error")>>
      <4>1. ASSUME NEW o \in Output PROVE Lines(<<Mark("error")>>, o, 0, 0) /\ Lines(<<>>, o, 0, 0)
        <5>1. <<Mark("error")>> = Append(<<>>, Mark("error")) /\ <<>> \in Seq(Item)
          OBVIOUS
        <5>2. Mark("error") \in Item /\ ~IsFrom(o, Mark("error"))
          BY <2>5 DEF Item, IsFrom, Mark
        <5> QED BY <5>1, <5>2, LinesNone, AppendOther
      <4>2. got'[c] = <<>> /\ 0 \in 0..MaxLines
        BY <1>1, <1>2, LogStreamAssumption DEF clientVars, LogStreamAssumption
      <4> QED BY <2>2, <3>2, <4>1, <4>2 DEF FlowOf, Sent
    <3> QED BY <2>2, <3>1, <3>2
  <2> QED BY <1>3, <1>4, <2>3, <2>4, <2>6, <2>7, <2>8, <2>9, OneConnection
<1> QED BY <1>5, <1>6

\* Connections that nobody serves move on together, or none does.
LEMMA UnservedMove ==
    ASSUME Inv, server' \in [Connection -> {"none", "backlog", "submitted", "receive", "send",
                                            "closing", "joining", "cancelled", "done"}],
           \A c \in Connection : \/ server'[c] = server[c]
                                 \/ server[c] \in {"backlog", "submitted", "cancelled"}
                                    /\ server'[c] \in {"cancelled", "done"},
           phase' \in {"up", "stopping", "down"}, accepting' \in BOOLEAN, faults' \in 0..MaxFaults,
           UNCHANGED <<free, event, sourceVars, wire, clientVars>>, PermitInv'
    PROVE  Inv'
<1>1. HandlerTypes'
  BY TypeParts DEF Inv, HandlerTypes
<1>2. SourceTypes' /\ ClientTypes'
  BY TypeParts DEF Inv, SourceTypes, ClientTypes, sourceVars, childVars, readerVars, clientVars
<1>3. TypeOK'
  BY <1>1, <1>2 DEF TypeOK, HandlerTypes, SourceTypes, ClientTypes, Places
<1>4. ASSUME NEW c \in Connection PROVE ConnectionInv(c)'
  <2>1. PlaceOf(c)'
    BY Known DEF PlaceOf, Unserved, Streaming, ClientOpen, sourceVars, childVars, readerVars, clientVars
  <2>2. EndOf(c)'
    BY Known DEF EndOf, Queued, Streaming, sourceVars, childVars, readerVars
  <2>3. FlowOf(c)'
    BY Known, FlowKept DEF ClientOpen, sourceVars, childVars, readerVars, clientVars
  <2> QED BY <2>1, <2>2, <2>3 DEF ConnectionInv
<1> QED BY <1>3, <1>4 DEF Inv

LEMMA BrokerInv ==
    ASSUME Inv, AcceptFails \/ Stop \/ Stopped \/ \E c \in Connection : CancelFuture(c) PROVE Inv'
<1>1. HandlerTypes /\ PermitInv
  BY TypeParts DEF Inv
<1>2. CASE AcceptFails
  <2>1. faults' \in 0..MaxFaults
    BY <1>1, <1>2, LogStreamAssumption DEF AcceptFails, Fault, HandlerTypes, LogStreamAssumption
  <2>2. PermitInv'
    BY <1>2, PermitsKept DEF AcceptFails, PermitHolder
  <2> QED BY <1>1, <1>2, <2>1, <2>2, UnservedMove DEF AcceptFails, HandlerTypes
<1>3. CASE Stop
  <2>1. PermitHolder' = PermitHolder
    BY <1>3 DEF Stop, PermitHolder
  <2>2. PermitInv'
    BY <1>1, <1>3, <2>1 DEF Stop, PermitInv
  <2> QED BY <1>1, <1>3, <2>2, UnservedMove DEF Stop, HandlerTypes
<1>4. CASE Stopped
  <2>1. PermitHolder' = {}
    BY <1>4 DEF Stopped, PermitHolder
  <2>2. PermitInv'
    BY <1>1, <1>4, <2>1 DEF Stopped, PermitInv
  <2> QED BY <1>1, <1>4, <2>2, UnservedMove DEF Stopped, HandlerTypes
<1>5. ASSUME NEW c \in Connection, CancelFuture(c) PROVE Inv'
  <2>1. PermitHolder' = PermitHolder
    BY <1>1, <1>5 DEF CancelFuture, At, PermitHolder, HandlerTypes
  <2>2. PermitInv'
    BY <1>5, <2>1, PermitsKept DEF CancelFuture, brokerVars
  <2> QED BY <1>1, <1>5, <2>2, UnservedMove DEF CancelFuture, At, HandlerTypes, brokerVars
<1> QED BY <1>2, <1>3, <1>4, <1>5

-----------------------------------------------------------------------------
(* The handler of a connection *)

LEMMA OpenInv == ASSUME Inv, NEW c \in Connection, Open(c) PROVE Inv'
<1> USE Known
<1>1. server[c] = "submitted" /\ server'[c] = "send"
      /\ UNCHANGED <<brokerVars, free, written, read, queue, done, wire, clientVars>>
  BY DEF Open, At, HandlerTypes
<1>2. /\ got[c] = <<>> /\ wire[c] = <<>> /\ queue[c] = <<>> /\ done[c] = {} /\ read[c] = Zero
      /\ \A o \in Output : reader[c][o] = "none"
  BY <1>1 DEF PlaceOf, Unserved
<1>3. event'[c] \in {Mark("ready"), Mark("error")}
  BY DEF Open, HandlerTypes
<1>4. OnlyAt(c)
  BY DEF Open, At, OnlyAt, State, clientVars, HandlerTypes, SourceTypes
<1>5. HandlerTypes'
  <2>1. faults' \in 0..MaxFaults
    BY LogStreamAssumption DEF Open, Fault, HandlerTypes, LogStreamAssumption
  <2>2. {Mark("ready"), Mark("error")} \subseteq Frame
    BY DEF Frame
  <2>3. Nothing \notin {Mark("ready"), Mark("error")}
    BY DEF Nothing, Mark
  <2>4. \E e \in {Mark("ready"), Mark("error")} : event' = [event EXCEPT ![c] = e]
    BY DEF Open
  <2>5. event' \in [Connection -> Frame \cup {Nothing}]
    BY <2>2, <2>4 DEF HandlerTypes
  <2>6. server' = [server EXCEPT ![c] = "send"]
    BY DEF Open, At
  <2>7. \A d \in Connection : event'[d] = Nothing <=> server'[d] # "send"
    BY <2>3, <2>4, <2>6 DEF HandlerTypes
  <2> QED BY <1>1, <2>1, <2>5, <2>6, <2>7 DEF HandlerTypes, brokerVars
<1>6. SourceTypes'
  <2>1. child' \in [Connection -> {"none", "running", "exited", "failed", "killed"}]
    BY DEF Open, SourceTypes
  <2>2. reader' \in [Connection -> [Output -> {"none", "reading", "gone"}]]
    <3> DEFINE started == [o \in Output |-> "reading"]
    <3>1. started \in [Output -> {"none", "reading", "gone"}]
      OBVIOUS
    <3>2. reader' = reader \/ reader' = [reader EXCEPT ![c] = started]
      BY DEF Open
    <3> HIDE DEF started
    <3> QED BY <3>1, <3>2 DEF SourceTypes
  <2> QED BY <1>1, <2>1, <2>2 DEF SourceTypes
<1>7. ClientTypes'
  BY <1>1 DEF ClientTypes, clientVars
<1>8. PermitInv'
  BY <1>1, <1>4, PlaceKept DEF Holding, Streaming
<1>9. \/ reader'[c] = reader[c]
      \/ child'[c] = "running" /\ \A o \in Output : reader'[c][o] = "reading"
  BY DEF Open, SourceTypes
<1>10. PlaceOf(c)'
  BY <1>1 DEF PlaceOf, Unserved, Streaming, ClientOpen, clientVars
<1>11. EndOf(c)'
  <2>1. event'[c].kind # "end"
    BY <1>3 DEF Mark
  <2>2. \A o \in Output : reader'[c][o] # "gone"
    BY <1>2, <1>9
  <2>3. \A o \in Output : reader'[c][o] = "none" \/ child'[c] \in {"running", "exited", "failed"}
    BY <1>2, <1>9
  <2> QED BY <1>1, <1>2, <2>1, <2>2, <2>3 DEF EndOf, Queued
<1>12. FlowOf(c)'
  <2>1. ASSUME NEW o \in Output
        PROVE  Sent(c, o, 0, 0)' /\ Ahead(c, o, 0)' /\ 0 \in 0..MaxLines
    <3>1. read[c][o] = 0
      BY <1>2, <2>1 DEF Zero
    <3>2. ~IsFrom(o, event'[c])
      BY <1>3 DEF IsFrom, Mark
    <3> QED BY <1>1, <1>2, <3>1, <3>2, LinesNone, LogStreamAssumption
            DEF Sent, Ahead, clientVars, LogStreamAssumption
  <2> QED BY <2>1 DEF FlowOf
<1> QED BY <1>4, <1>5, <1>6, <1>7, <1>8, <1>10, <1>11, <1>12, OneConnection

\* The handler lets go of the frame in its hands and sends nothing any more.
LEMMA ToClosingInv ==
    ASSUME Inv, NEW c \in Connection, server[c] = "send", At(c, "closing"),
           event' = [event EXCEPT ![c] = Nothing], faults' \in 0..MaxFaults,
           UNCHANGED <<wire, got>> \/ Discard(c),
           UNCHANGED <<brokerVars, free, sourceVars, client>>
    PROVE  Inv'
<1> USE Known
<1>1. server'[c] = "closing" /\ event'[c] = Nothing
  BY DEF At, HandlerTypes
<1>2. OnlyAt(c)
  BY DEF At, Discard, OnlyAt, State, sourceVars, childVars, readerVars, HandlerTypes, ClientTypes
<1>3. HandlerTypes'
  BY DEF HandlerTypes, At, brokerVars
<1>4. SourceTypes' /\ ClientTypes'
  <2>1. SourceTypes'
    BY DEF SourceTypes, sourceVars, childVars, readerVars
  <2>2. CASE UNCHANGED <<wire, got>>
    BY <2>1, <2>2 DEF ClientTypes
  <2>3. CASE Discard(c)
    <3>1. wire' \in [Connection -> Seq(Frame)] /\ got' \in [Connection -> Seq(Line)]
      BY <2>3, EmptySeq DEF Discard, ClientTypes
    <3>2. \A d \in Connection : wire'[d] = <<>> \/ wire'[d] = wire[d]
      BY <2>3 DEF Discard, ClientTypes
    <3>3. \A d \in Connection : Len(wire'[d]) <= WireCapacity
      BY <3>2, LogStreamAssumption DEF ClientTypes, LogStreamAssumption
    <3> QED BY <2>1, <3>1, <3>3 DEF ClientTypes
  <2> QED BY <2>2, <2>3
<1>5. PermitInv'
  BY <1>1, <1>2, PlaceKept DEF Holding, Streaming
<1>6. UNCHANGED <<wire[c], got[c]>> \/ (wire'[c] = <<>> /\ got'[c] = <<>>)
  BY DEF Discard, ClientTypes
<1>7. PlaceOf(c)'
  BY <1>1, <1>6 DEF PlaceOf, Unserved, Streaming, ClientOpen, sourceVars, childVars, readerVars
<1>8. EndOf(c)'
  BY <1>1 DEF EndOf, Queued, Streaming, Nothing, Mark, sourceVars, childVars, readerVars
<1>9. FlowOf(c)'
  BY <1>1, <1>6, FlowKept, FlowOver DEF sourceVars, readerVars
<1> QED BY <1>2, <1>3, <1>4, <1>5, <1>7, <1>8, <1>9, OneConnection

\* The frame in the handler's hands goes onto the wire.
LEMMA FrameSent ==
    ASSUME NEW c \in Connection, FlowOf(c), ClientOpen(c), server[c] = "send",
           wire[c] \in Seq(Item), event[c] \in Item, wire'[c] = Append(wire[c], event[c]),
           event'[c] = Nothing, UNCHANGED <<got[c], queue[c], read[c]>>
    PROVE  FlowOf(c)'
<1> SUFFICES ASSUME NEW o \in Output
             PROVE  \E a, b \in 0..MaxLines : Sent(c, o, a, b)' /\ Ahead(c, o, b)'
  BY DEF FlowOf
<1>1. PICK a \in 0..MaxLines, b \in 0..MaxLines : Sent(c, o, a, b) /\ Ahead(c, o, b)
  BY DEF FlowOf
<1>2. MaxLines \in Nat /\ a \in Nat /\ b \in Nat
  BY LogStreamAssumption DEF LogStreamAssumption
<1>3. ~IsFrom(o, event'[c])
  BY DEF IsFrom, Nothing, Mark
<1>4. CASE IsFrom(o, event[c])
  <2>1. event[c].number = b + 1 /\ Lines(queue[c], o, b + 1, read[c][o])
    BY <1>1, <1>4 DEF Ahead
  <2>2. b + 1 \in 0..MaxLines
    BY <1>2, <1>4, <2>1, ItemNumber
  <2>3. Lines(wire'[c], o, a, b + 1)
    BY <1>1, <1>2, <1>4, <2>1, AppendLine DEF Sent
  <2>4. Sent(c, o, a, b + 1)' /\ Ahead(c, o, b + 1)'
    BY <1>1, <1>3, <2>1, <2>3 DEF Sent, Ahead
  <2> QED BY <2>2, <2>4
<1>5. CASE ~IsFrom(o, event[c])
  <2>1. Lines(wire'[c], o, a, b)
    BY <1>1, <1>2, <1>5, AppendOther DEF Sent
  <2>2. Sent(c, o, a, b)' /\ Ahead(c, o, b)'
    BY <1>1, <1>3, <1>5, <2>1 DEF Sent, Ahead
  <2> QED BY <2>2
<1> QED BY <1>4, <1>5

LEMMA SendInv == ASSUME Inv, NEW c \in Connection, Send(c) PROVE Inv'
<1> USE Known
<1>1. server[c] = "send" /\ event' = [event EXCEPT ![c] = Nothing] /\ faults' = faults
      /\ UNCHANGED <<brokerVars, free, sourceVars, clientVars>>
  BY DEF Send
<1>2. CASE ~ClientOpen(c)
  <2>1. faults' \in 0..MaxFaults
    BY <1>1 DEF HandlerTypes
  <2> QED BY <1>1, <1>2, <2>1, ToClosingInv DEF Send, clientVars
<1>3. CASE ClientOpen(c)
  <2>1. Len(wire[c]) < WireCapacity /\ wire' = [wire EXCEPT ![c] = Append(@, event[c])]
        /\ \E label \in {"closing", "receive"} : At(c, label)
    BY <1>3 DEF Send, Continue
  <2>2. PICK label \in {"closing", "receive"} : At(c, label)
    BY <2>1
  <2>3. server'[c] = label /\ event'[c] = Nothing /\ wire'[c] = Append(wire[c], event[c])
    BY <1>1, <2>1, <2>2 DEF At, HandlerTypes, ClientTypes
  <2>4. event[c] \in Frame /\ wire[c] \in Seq(Frame)
    BY <1>1 DEF HandlerTypes, ClientTypes
  <2>5. OnlyAt(c)
    BY <1>1, <2>1, <2>2 DEF At, OnlyAt, State, sourceVars, childVars, readerVars, clientVars, HandlerTypes, ClientTypes
  <2>6. HandlerTypes'
    BY <1>1, <2>2 DEF HandlerTypes, At, brokerVars
  <2>7. SourceTypes'
    BY <1>1 DEF SourceTypes, sourceVars, childVars, readerVars
  <2>8. ClientTypes'
    <3>1. Append(wire[c], event[c]) \in Seq(Frame) /\ Len(Append(wire[c], event[c])) = Len(wire[c]) + 1
          /\ Len(wire[c]) \in Nat
      BY <2>4, AppendProperties, LenProperties
    <3>2. wire' \in [Connection -> Seq(Frame)]
      BY <2>1, <3>1 DEF ClientTypes
    <3>3. \A d \in Connection : Len(wire'[d]) <= WireCapacity
      BY <2>1, <2>3, <3>1, LogStreamAssumption DEF ClientTypes, LogStreamAssumption
    <3> QED BY <1>1, <3>2, <3>3 DEF ClientTypes, clientVars
  <2>9. PermitInv'
    BY <1>1, <2>3, <2>5, PlaceKept DEF Holding, Streaming
  <2>10. PlaceOf(c)'
    BY <1>1, <1>3, <2>3 DEF PlaceOf, Unserved, Streaming, ClientOpen, sourceVars, childVars, readerVars, clientVars
  <2>11. EndOf(c)'
    BY <1>1, <2>3 DEF EndOf, Queued, Streaming, Nothing, Mark, sourceVars, childVars, readerVars
  <2>12. FlowOf(c)'
    <3>1. wire[c] \in Seq(Item) /\ event[c] \in Item
      BY <2>4, Items
    <3>2. UNCHANGED <<got[c], queue[c], read[c]>>
      BY <1>1 DEF clientVars, sourceVars, readerVars
    <3> QED BY <1>1, <1>3, <2>3, <3>1, <3>2, FrameSent
  <2> QED BY <2>5, <2>6, <2>7, <2>8, <2>9, <2>10, <2>11, <2>12, OneConnection
<1> QED BY <1>2, <1>3

LEMMA SendTimeoutInv == ASSUME Inv, NEW c \in Connection, SendTimeout(c) PROVE Inv'
<1>1. faults' \in 0..MaxFaults
  BY Known, LogStreamAssumption DEF SendTimeout, Fault, HandlerTypes, LogStreamAssumption
<1> QED BY <1>1, ToClosingInv DEF SendTimeout

\* The handler takes up a frame that is no line.
LEMMA TakesUpMark ==
    ASSUME Inv, NEW c \in Connection, server[c] = "receive",
           NEW kind \in {"heartbeat", "end", "stream-error"},
           event' = [event EXCEPT ![c] = Mark(kind)], At(c, "send"),
           kind = "end" => child[c] = "exited" /\ queue[c] = <<>> /\ ReadersDone(c),
           UNCHANGED <<brokerVars, free, sourceVars, wire, clientVars, faults>>
    PROVE  Inv'
<1> USE Known
<1>1. server'[c] = "send" /\ event'[c] = Mark(kind)
  BY DEF At, HandlerTypes
<1>2. OnlyAt(c)
  BY DEF At, OnlyAt, State, sourceVars, childVars, readerVars, clientVars, HandlerTypes
<1>3. HandlerTypes'
  <2>1. Mark(kind) \in Frame /\ Mark(kind) # Nothing
    BY DEF Frame, Mark, Nothing
  <2> QED BY <2>1 DEF HandlerTypes, At, brokerVars
<1>4. SourceTypes' /\ ClientTypes'
  BY DEF SourceTypes, ClientTypes, sourceVars, childVars, readerVars, clientVars
<1>5. PermitInv'
  BY <1>1, <1>2, PlaceKept DEF Holding, Streaming
<1>6. PlaceOf(c)'
  BY <1>1 DEF PlaceOf, Unserved, Streaming, ClientOpen, sourceVars, childVars, readerVars, clientVars
<1>7. EndOf(c)'
  <2>1. event'[c].kind = kind
    BY <1>1 DEF Mark
  <2> QED BY <1>1, <2>1 DEF EndOf, Queued, Streaming, ReadersDone, sourceVars, childVars, readerVars
<1>8. FlowOf(c)'
  <2>1. event[c] = Nothing
    BY DEF HandlerTypes
  <2>2. ASSUME NEW o \in Output PROVE ~IsFrom(o, event[c]) /\ ~IsFrom(o, event'[c])
    BY <1>1, <2>1 DEF IsFrom, Mark, Nothing
  <2> SUFFICES ASSUME NEW o \in Output
               PROVE  \E a, b \in 0..MaxLines :
                         Sent(c, o, a, b)' /\ (ClientOpen(c)' => Ahead(c, o, b)')
    BY DEF FlowOf
  <2>3. PICK a \in 0..MaxLines, b \in 0..MaxLines :
           Sent(c, o, a, b) /\ (ClientOpen(c) => Ahead(c, o, b))
    BY DEF FlowOf
  <2>4. Sent(c, o, a, b)' /\ (ClientOpen(c)' => Ahead(c, o, b)')
    BY <2>2, <2>3 DEF Sent, Ahead, ClientOpen, sourceVars, readerVars, clientVars
  <2> QED BY <2>4
<1> QED BY <1>2, <1>3, <1>4, <1>5, <1>6, <1>7, <1>8, OneConnection

LEMMA ReceiveNothingInv ==
    ASSUME Inv, NEW c \in Connection, ReceiveEnd(c) \/ ReceiveNothing(c) PROVE Inv'
<1>1. CASE ReceiveNothing(c)
  BY <1>1, TakesUpMark DEF ReceiveNothing
<1>2. CASE ReceiveEnd(c)
  <2>1. server[c] = "receive" /\ queue[c] = <<>> /\ ReadersDone(c)
    BY <1>2 DEF ReceiveEnd
  <2>2. child[c] \in {"exited", "failed"}
    <3>1. "STDOUT" \in Output /\ "STDOUT" \in done[c]
      BY <2>1 DEF ReadersDone, Output
    <3> QED BY <2>1, <3>1, Known DEF EndOf, Streaming
  <2>3. CASE child[c] = "failed"
    BY <1>2, <2>1, <2>3, TakesUpMark DEF ReceiveEnd
  <2>4. CASE child[c] = "exited"
    BY <1>2, <2>1, <2>4, TakesUpMark DEF ReceiveEnd
  <2> QED BY <2>2, <2>3, <2>4
<1> QED BY <1>1, <1>2

\* The item at the head of the queue is taken; a line goes into the hands.
LEMMA ItemTaken ==
    ASSUME NEW c \in Connection, FlowOf(c), server[c] = "receive", event[c] = Nothing,
           queue[c] \in Seq(Item), queue[c] # <<>>, queue'[c] = Tail(queue[c]),
           event'[c] = IF Head(queue[c]).kind = "done" THEN Nothing ELSE Head(queue[c]),
           UNCHANGED <<got[c], wire[c], client[c], read[c]>>, \A o \in Output : read[c][o] \in Nat
    PROVE  FlowOf(c)'
<1> DEFINE item == Head(queue[c])
<1> SUFFICES ASSUME NEW o \in Output
             PROVE  \E a, b \in 0..MaxLines :
                       Sent(c, o, a, b)' /\ (ClientOpen(c)' => Ahead(c, o, b)')
  BY DEF FlowOf
<1>1. PICK a \in 0..MaxLines, b \in 0..MaxLines :
         Sent(c, o, a, b) /\ (ClientOpen(c) => Ahead(c, o, b))
  BY DEF FlowOf
<1>2. Sent(c, o, a, b)' /\ ClientOpen(c)' = ClientOpen(c)
  BY <1>1 DEF Sent, ClientOpen
<1>3. MaxLines \in Nat /\ b \in Nat
  BY LogStreamAssumption DEF LogStreamAssumption
<1>4. ~IsFrom(o, Nothing)
  BY DEF IsFrom, Nothing, Mark
<1>5. ASSUME ClientOpen(c) PROVE Ahead(c, o, b)'
  <2>1. Lines(queue[c], o, b, read[c][o])
    BY <1>1, <1>4, <1>5 DEF Ahead
  <2>2. read[c][o] \in Nat
    OBVIOUS
  <2>3. CASE IsFrom(o, item)
    <3>1. event'[c] = item
      BY <2>3 DEF IsFrom
    <3>2. item.number = b + 1 /\ Lines(Tail(queue[c]), o, b + 1, read[c][o])
      BY <1>3, <2>1, <2>2, <2>3, HeadLine
    <3> QED BY <2>3, <3>1, <3>2 DEF Ahead
  <2>4. CASE ~IsFrom(o, item)
    <3>1. Lines(Tail(queue[c]), o, b, read[c][o])
      BY <1>3, <2>1, <2>2, <2>4, HeadOther
    <3>2. ~IsFrom(o, event'[c])
      BY <1>4, <2>4
    <3> QED BY <3>1, <3>2 DEF Ahead
  <2> QED BY <2>3, <2>4
<1> QED BY <1>2, <1>5

LEMMA QueueItem ==
    ASSUME SourceTypes, NEW c \in Connection, queue[c] # <<>>
    PROVE  /\ queue[c] \in Seq(Item) /\ Tail(queue[c]) \in Seq(Line \cup {ReaderDone(o) : o \in Output})
           /\ Len(Tail(queue[c])) <= QueueCapacity
           /\ \A i \in DOMAIN Tail(queue[c]) : Tail(queue[c])[i] \in Queued(c)
           /\ 1 \in DOMAIN queue[c] /\ Head(queue[c]) = queue[c][1]
           /\ \/ Head(queue[c]) \in Line /\ Head(queue[c]).kind = "log"
              \/ \E o \in Output : Head(queue[c]) = ReaderDone(o)
<1> DEFINE T == Line \cup {ReaderDone(o) : o \in Output}
           q == queue[c]
<1>1. q \in Seq(T) /\ q # <<>> /\ Len(q) <= QueueCapacity
  BY DEF SourceTypes
<1>2. q \in Seq(Item)
  BY <1>1, Items
<1>3. Len(q) \in Nat /\ Len(q) >= 1 /\ DOMAIN q = 1..Len(q) /\ Head(q) = q[1] /\ Head(q) \in T
  <2> HIDE DEF T, q
  <2> QED BY <1>1
<1>4. /\ Tail(q) \in Seq(T) /\ Len(Tail(q)) = Len(q) - 1 /\ DOMAIN Tail(q) = 1..(Len(q) - 1)
      /\ \A i \in 1..(Len(q) - 1) : Tail(q)[i] = q[i + 1]
  <2> HIDE DEF T, q
  <2> QED BY <1>1
<1>5. Len(Tail(q)) <= QueueCapacity
  BY <1>1, <1>3, <1>4, LogStreamAssumption DEF LogStreamAssumption
<1>6. \A i \in DOMAIN Tail(q) : i + 1 \in DOMAIN q
  BY <1>3, <1>4
<1>7. Head(q) \in Line => Head(q).kind = "log"
  BY DEF Line
<1> QED BY <1>1, <1>2, <1>3, <1>4, <1>5, <1>6, <1>7 DEF Queued

LEMMA ReceiveItemInv == ASSUME Inv, NEW c \in Connection, ReceiveItem(c) PROVE Inv'
<1> USE Known
<1> DEFINE item == Head(queue[c])
<1>1. /\ server[c] = "receive" /\ queue[c] # <<>> /\ queue' = [queue EXCEPT ![c] = Tail(@)]
      /\ IF item.kind = "done"
         THEN done' = [done EXCEPT ![c] = @ \cup {item.from}] /\ UNCHANGED <<server, event>>
         ELSE event' = [event EXCEPT ![c] = item] /\ At(c, "send") /\ UNCHANGED done
      /\ UNCHANGED <<brokerVars, free, childVars, readerVars, wire, clientVars, faults>>
  BY DEF ReceiveItem
<1> HIDE DEF item
<1>2. /\ queue[c] \in Seq(Item) /\ Tail(queue[c]) \in Seq(Line \cup {ReaderDone(o) : o \in Output})
      /\ Len(Tail(queue[c])) <= QueueCapacity
      /\ \A i \in DOMAIN Tail(queue[c]) : Tail(queue[c])[i] \in Queued(c)
      /\ item \in Queued(c)
      /\ (item \in Line /\ item.kind = "log") \/ \E o \in Output : item = ReaderDone(o)
  BY <1>1, QueueItem DEF item, Queued
<1>3. event[c] = Nothing /\ queue'[c] = Tail(queue[c])
  BY <1>1 DEF HandlerTypes, SourceTypes
<1>4. OnlyAt(c)
  BY <1>1 DEF At, OnlyAt, State, childVars, readerVars, clientVars, HandlerTypes, SourceTypes
<1>5. ClientTypes'
  BY <1>1 DEF ClientTypes, clientVars
<1>6. queue' \in [Connection -> Seq(Line \cup {ReaderDone(o) : o \in Output})]
      /\ \A d \in Connection : Len(queue'[d]) <= QueueCapacity
  <2>1. queue' \in [Connection -> Seq(Line \cup {ReaderDone(o) : o \in Output})]
    BY <1>1, <1>2 DEF SourceTypes
  <2>2. \A d \in Connection : d # c => queue'[d] = queue[d]
    BY <1>1 DEF SourceTypes
  <2> QED BY <1>2, <1>3, <2>1, <2>2 DEF SourceTypes
<1>7. PlaceOf(c)' /\ PermitInv' /\ FlowOf(c)' /\ HandlerTypes' /\ SourceTypes' /\ EndOf(c)'
  <2>1. CASE item.kind = "done"
    <3>1. PICK o \in Output : item = ReaderDone(o)
      BY <1>2, <2>1
    <3>2. done' = [done EXCEPT ![c] = @ \cup {o}] /\ UNCHANGED <<server, event>>
      BY <1>1, <2>1, <3>1 DEF ReaderDone
    <3>3. HandlerTypes'
      BY <1>1, <3>2 DEF HandlerTypes, brokerVars
    <3>4. SourceTypes'
      <4>1. done' \in [Connection -> SUBSET Output]
        BY <3>2 DEF SourceTypes
      <4> QED BY <1>1, <1>6, <4>1 DEF SourceTypes, childVars, readerVars
    <3>5. PermitInv'
      BY <1>1, <1>4, <3>2, PlaceKept
    <3>6. PlaceOf(c)'
      BY <1>1, <3>2 DEF PlaceOf, Unserved, Streaming, ClientOpen, childVars, readerVars, clientVars
    <3>7. EndOf(c)'
      <4>1. reader[c][o] = "gone"
        BY <1>1, <1>2, <3>1 DEF EndOf, Streaming
      <4>2. done'[c] = done[c] \cup {o}
        BY <3>2 DEF SourceTypes
      <4>3. event'[c].kind # "end"
        BY <1>3, <3>2 DEF Nothing, Mark
      <4>4. Queued(c)' \subseteq Queued(c)
        BY <1>2, <1>3 DEF Queued
      <4> QED BY <1>1, <3>2, <4>1, <4>2, <4>3, <4>4 DEF EndOf, Streaming, childVars, readerVars
    <3>8. FlowOf(c)'
      <4>1. event'[c] = IF item.kind = "done" THEN Nothing ELSE item
        BY <1>3, <2>1, <3>2
      <4>2. \A p \in Output : read[c][p] \in Nat
        BY LogStreamAssumption DEF SourceTypes, LogStreamAssumption
      <4>3. UNCHANGED <<got[c], wire[c], client[c], read[c]>>
        BY <1>1 DEF readerVars, clientVars
      <4> QED BY <1>1, <1>2, <1>3, <4>1, <4>2, <4>3, ItemTaken DEF item
    <3> QED BY <3>3, <3>4, <3>5, <3>6, <3>7, <3>8
  <2>2. CASE item.kind # "done"
    <3>1. event' = [event EXCEPT ![c] = item] /\ At(c, "send") /\ UNCHANGED done
      BY <1>1, <2>2
    <3>2. item \in Line /\ item.kind = "log" /\ item \in Frame
      BY <1>2, <2>2, Items DEF ReaderDone
    <3>3. server'[c] = "send" /\ event'[c] = item
      BY <3>1 DEF At, HandlerTypes
    <3>4. HandlerTypes'
      <4>1. item # Nothing
        BY <3>2 DEF Nothing, Mark
      <4> QED BY <1>1, <3>1, <3>2, <4>1 DEF HandlerTypes, At, brokerVars
    <3>5. SourceTypes'
      BY <1>1, <1>6, <3>1 DEF SourceTypes, childVars, readerVars
    <3>6. PermitInv'
      BY <1>1, <1>4, <3>3, PlaceKept DEF Holding, Streaming
    <3>7. PlaceOf(c)'
      BY <1>1, <3>3 DEF PlaceOf, Unserved, Streaming, ClientOpen, childVars, readerVars, clientVars
    <3>8. EndOf(c)'
      <4>1. Queued(c)' \subseteq Queued(c)
        BY <1>2, <1>3 DEF Queued
      <4> QED BY <1>1, <3>1, <3>2, <3>3, <4>1 DEF EndOf, Streaming, childVars, readerVars
    <3>9. FlowOf(c)'
      <4>1. \A p \in Output : read[c][p] \in Nat
        BY LogStreamAssumption DEF SourceTypes, LogStreamAssumption
      <4>2. UNCHANGED <<got[c], wire[c], client[c], read[c]>>
        BY <1>1 DEF readerVars, clientVars
      <4> QED BY <1>1, <1>2, <1>3, <2>2, <3>3, <4>1, <4>2, ItemTaken DEF item
    <3> QED BY <3>4, <3>5, <3>6, <3>7, <3>8, <3>9
  <2> QED BY <2>1, <2>2
<1> QED BY <1>4, <1>5, <1>7, OneConnection

LEMMA CloseInv == ASSUME Inv, NEW c \in Connection, Close(c) PROVE Inv'
<1> USE Known
<1>1. server[c] = "closing" /\ At(c, "joining")
      /\ UNCHANGED <<brokerVars, free, event, written, readerVars, queue, done, wire, clientVars, faults>>
  BY DEF Close
<1>2. server'[c] = "joining" /\ child'[c] # "running"
  BY <1>1 DEF Close, At, HandlerTypes, SourceTypes
<1>3. OnlyAt(c)
  BY <1>1 DEF Close, At, OnlyAt, State, readerVars, clientVars, HandlerTypes, SourceTypes
<1>4. HandlerTypes'
  BY <1>1 DEF HandlerTypes, At, brokerVars
<1>5. SourceTypes'
  <2>1. child' \in [Connection -> {"none", "running", "exited", "failed", "killed"}]
    BY DEF Close, SourceTypes
  <2> QED BY <1>1, <2>1 DEF SourceTypes, readerVars
<1>6. ClientTypes'
  BY <1>1 DEF ClientTypes, clientVars
<1>7. PermitInv'
  BY <1>1, <1>2, <1>3, PlaceKept DEF Holding, Streaming
<1>8. PlaceOf(c)'
  BY <1>1, <1>2 DEF PlaceOf, Unserved, Streaming, ClientOpen, readerVars, clientVars
<1>9. EndOf(c)'
  BY <1>2 DEF EndOf, Streaming
<1>10. FlowOf(c)'
  BY <1>1, <1>2, FlowKept DEF clientVars
<1> QED BY <1>3, <1>4, <1>5, <1>6, <1>7, <1>8, <1>9, <1>10, OneConnection

LEMMA JoinAndReleaseInv == ASSUME Inv, NEW c \in Connection, JoinAndRelease(c) PROVE Inv'
<1> USE Known
<1>1. /\ server[c] = "joining" /\ At(c, "done") /\ free' = free + 1
      /\ child' = [child EXCEPT ![c] = "none"]
      /\ queue' = [queue EXCEPT ![c] = <<>>] /\ done' = [done EXCEPT ![c] = {}]
      /\ written' = [written EXCEPT ![c] = Zero] /\ read' = [read EXCEPT ![c] = written'[c]]
      /\ UNCHANGED <<brokerVars, event, reader, wire, clientVars>>
  BY DEF JoinAndRelease, Zero
<1>2. server'[c] = "done" /\ child'[c] = "none" /\ queue'[c] = <<>> /\ done'[c] = {}
      /\ written'[c] = Zero /\ read'[c] = Zero
  BY <1>1 DEF At, HandlerTypes, SourceTypes
<1>3. OnlyAt(c)
  BY <1>1 DEF At, OnlyAt, State, clientVars, HandlerTypes, SourceTypes
<1>4. PermitInv' /\ free' \in 0..MaxStreams
  BY <1>1, <1>2, <1>3, PermitReturned DEF Holding, Streaming
<1>5. HandlerTypes'
  <2>1. faults' \in 0..MaxFaults
    BY LogStreamAssumption DEF JoinAndRelease, Fault, HandlerTypes, LogStreamAssumption
  <2> QED BY <1>1, <1>4, <2>1 DEF HandlerTypes, At, brokerVars
<1>6. SourceTypes'
  <2>1. Zero \in [Output -> 0..MaxLines]
    BY LogStreamAssumption DEF Zero, LogStreamAssumption
  <2>2. written' \in [Connection -> [Output -> 0..MaxLines]]
    BY <1>1, <2>1 DEF SourceTypes
  <2>3. read' \in [Connection -> [Output -> 0..MaxLines]]
    BY <1>1, <1>2, <2>1 DEF SourceTypes
  <2>4. queue' \in [Connection -> Seq(Line \cup {ReaderDone(o) : o \in Output})]
    BY <1>1, EmptySeq DEF SourceTypes
  <2>5. ASSUME NEW d \in Connection
        PROVE  Len(queue'[d]) <= QueueCapacity /\ \A o \in Output : read'[d][o] <= written'[d][o]
    <3>1. CASE d = c
      <4>1. Len(queue'[d]) = 0
        BY <1>2, <3>1
      <4>2. \A o \in Output : Zero[o] = 0
        BY DEF Zero
      <4> QED BY <1>2, <3>1, <4>1, <4>2, LogStreamAssumption DEF LogStreamAssumption
    <3>2. CASE d # c
      BY <1>1, <3>2 DEF SourceTypes
    <3> QED BY <3>1, <3>2
  <2>6. child' \in [Connection -> {"none", "running", "exited", "failed", "killed"}]
        /\ done' \in [Connection -> SUBSET Output]
    BY <1>1 DEF SourceTypes
  <2> QED BY <1>1, <2>2, <2>3, <2>4, <2>5, <2>6 DEF SourceTypes
<1>7. ClientTypes'
  BY <1>1 DEF ClientTypes, clientVars
<1>8. PlaceOf(c)'
  BY <1>1, <1>2 DEF PlaceOf, Unserved, Streaming, ClientOpen, clientVars
<1>9. EndOf(c)'
  BY <1>2 DEF EndOf, Streaming
<1>10. FlowOf(c)'
  BY <1>1, <1>2, FlowKept DEF clientVars
<1> QED BY <1>3, <1>4, <1>5, <1>6, <1>7, <1>8, <1>9, <1>10, OneConnection

-----------------------------------------------------------------------------
(* The child and its readers *)

LEMMA ChildInv ==
    ASSUME Inv, NEW c \in Connection, ChildExits(c) \/ \E o \in Output : Write(c, o) PROVE Inv'
<1> USE Known
<1>1. child[c] = "running" /\ server[c] \in Streaming /\ faults' \in 0..MaxFaults
      /\ UNCHANGED <<brokerVars, free, server, event, readerVars, queue, done, wire, clientVars>>
  BY LogStreamAssumption DEF ChildExits, Write, Fault, PlaceOf, HandlerTypes, LogStreamAssumption
<1>2. \A o \in Output : reader[c][o] # "gone"
  BY <1>1 DEF EndOf
<1>3. event[c].kind # "end"
  BY <1>1 DEF EndOf
<1>4. OnlyAt(c)
  BY <1>1 DEF ChildExits, Write, OnlyAt, State, readerVars, clientVars, SourceTypes
<1>5. HandlerTypes'
  BY <1>1 DEF HandlerTypes, brokerVars
<1>6. ClientTypes'
  BY <1>1 DEF ClientTypes, clientVars
<1>7. SourceTypes'
  <2>1. CASE ChildExits(c)
    BY <1>1, <2>1 DEF ChildExits, SourceTypes, readerVars
  <2>2. ASSUME NEW o \in Output, Write(c, o) PROVE SourceTypes'
    <3>1. written' = [written EXCEPT ![c][o] = @ + 1] /\ child' = child
      BY <2>2 DEF Write
    <3>2. written[c]["STDOUT"] \in Nat /\ written[c]["STDERR"] \in Nat /\ written[c][o] \in Nat
          /\ o \in {"STDOUT", "STDERR"} /\ written[c]["STDOUT"] + written[c]["STDERR"] < MaxLines
      BY <2>2, LogStreamAssumption DEF Write, SourceTypes, Output, LogStreamAssumption
    <3>3. written[c][o] + 1 \in 0..MaxLines
      BY <3>2, LogStreamAssumption DEF LogStreamAssumption
    <3>4. written' \in [Connection -> [Output -> 0..MaxLines]]
      BY <3>1, <3>3 DEF SourceTypes
    <3>5. \A d \in Connection, p \in Output : read[d][p] <= written'[d][p]
      <4> TAKE d \in Connection, p \in Output
      <4>1. read[d][p] \in Nat /\ written[d][p] \in Nat /\ read[d][p] <= written[d][p]
        BY LogStreamAssumption DEF SourceTypes, LogStreamAssumption
      <4>2. written'[d][p] = written[d][p] \/ written'[d][p] = written[d][p] + 1
        BY <3>1 DEF SourceTypes
      <4> QED BY <4>1, <4>2
    <3> QED BY <1>1, <3>1, <3>4, <3>5 DEF SourceTypes, readerVars
  <2> QED BY <2>1, <2>2 DEF ChildExits, Write
<1>8. PermitInv'
  BY <1>1, <1>4, PlaceKept
<1>9. PlaceOf(c)'
  BY <1>1 DEF PlaceOf, Unserved, Streaming, ClientOpen, readerVars, clientVars
<1>10. EndOf(c)'
  <2>1. reader'[c] = reader[c] /\ event'[c] = event[c] /\ done'[c] = done[c] /\ Queued(c)' = Queued(c)
    BY <1>1 DEF readerVars, Queued
  <2>2. child'[c] \in {"running", "exited", "failed"}
    BY <1>1 DEF ChildExits, Write, SourceTypes
  <2> QED BY <1>1, <1>2, <1>3, <2>1, <2>2 DEF EndOf
<1>11. FlowOf(c)'
  BY <1>1, FlowKept DEF ClientOpen, readerVars, clientVars
<1> QED BY <1>4, <1>5, <1>6, <1>7, <1>8, <1>9, <1>10, <1>11, OneConnection

\* An item that a reader queues goes behind the others.
LEMMA QueuePushed ==
    ASSUME SourceTypes, NEW c \in Connection, NEW item \in Line \cup {ReaderDone(o) : o \in Output},
           Room(c), Enqueue(c, item)
    PROVE  /\ queue' \in [Connection -> Seq(Line \cup {ReaderDone(o) : o \in Output})]
           /\ \A d \in Connection : Len(queue'[d]) <= QueueCapacity
           /\ \A d \in Connection \ {c} : queue'[d] = queue[d]
           /\ queue'[c] = Append(queue[c], item) /\ queue'[c] # <<>>
           /\ queue[c] \in Seq(Item) /\ item \in Item
           /\ Queued(c)' = Queued(c) \cup {item}
<1> DEFINE T == Line \cup {ReaderDone(o) : o \in Output}
<1>1. queue' = [queue EXCEPT ![c] = Append(@, item)] /\ Len(queue[c]) < QueueCapacity
  BY DEF Enqueue, Room
<1>2. queue \in [Connection -> Seq(T)] /\ item \in T
  BY DEF SourceTypes
<1> HIDE DEF T
<1>3. queue'[c] = Append(queue[c], item) /\ \A d \in Connection \ {c} : queue'[d] = queue[d]
  BY <1>1, <1>2
<1>4. queue[c] \in Seq(T)
  BY <1>2
<1>5. /\ Append(queue[c], item) \in Seq(T) /\ Append(queue[c], item) # <<>>
      /\ Len(Append(queue[c], item)) = Len(queue[c]) + 1
      /\ \A i \in 1..Len(queue[c]) : Append(queue[c], item)[i] = queue[c][i]
      /\ Append(queue[c], item)[Len(queue[c]) + 1] = item
  BY <1>2, <1>4, AppendProperties
<1>6. Len(queue[c]) \in Nat /\ DOMAIN queue[c] = 1..Len(queue[c])
      /\ DOMAIN Append(queue[c], item) = 1..(Len(queue[c]) + 1)
  BY <1>4, <1>5, LenProperties
<1>7. queue' \in [Connection -> Seq(T)]
  BY <1>1, <1>2, <1>5
<1>8. \A d \in Connection : Len(queue'[d]) <= QueueCapacity
  <2>1. Len(queue'[c]) <= QueueCapacity
    BY <1>1, <1>3, <1>5, <1>6, LogStreamAssumption DEF LogStreamAssumption
  <2>2. \A d \in Connection \ {c} : Len(queue'[d]) <= QueueCapacity
    BY <1>3 DEF SourceTypes
  <2> QED BY <2>1, <2>2
<1>9. Queued(c)' = Queued(c) \cup {item}
  <2> DEFINE q == queue[c]
             r == Append(queue[c], item)
             l == Len(queue[c])
  <2>1. l \in Nat /\ DOMAIN q = 1..l /\ DOMAIN r = 1..(l + 1) /\ r[l + 1] = item
        /\ \A i \in 1..l : r[i] = q[i]
    BY <1>5, <1>6
  <2> HIDE DEF q, r, l
  <2>2. {r[i] : i \in DOMAIN r} = {q[i] : i \in DOMAIN q} \cup {item}
    <3>1. 1..(l + 1) = (1..l) \cup {l + 1}
      BY <2>1
    <3> QED BY <2>1, <3>1
  <2> QED BY <1>3, <2>2 DEF Queued, q, r
<1>10. queue[c] \in Seq(Item) /\ item \in Item
  BY <1>2, <1>4, Items DEF T, Item
<1> QED BY <1>3, <1>5, <1>7, <1>8, <1>9, <1>10 DEF T

\* A reader at work has a handler that has not stopped it.
LEMMA ReaderAtWork ==
    ASSUME Inv, NEW c \in Connection, NEW o \in Output, reader[c][o] = "reading", ~SourceStopped(c)
    PROVE  server[c] \in Streaming
BY Known DEF PlaceOf, SourceStopped, Unserved, Streaming, HandlerTypes

LEMMA ReadLineInv ==
    ASSUME Inv, NEW c \in Connection, NEW o \in Output, ReadLine(c, o) PROVE Inv'
<1> USE Known
<1> DEFINE line == NextLine(c, o)
<1>1. /\ reader[c][o] = "reading" /\ read[c][o] < written[c][o] /\ Room(c) /\ server[c] \in Streaming
      /\ read' = [read EXCEPT ![c][o] = @ + 1] /\ Enqueue(c, line)
      /\ UNCHANGED <<brokerVars, free, server, event, childVars, reader, done, wire, clientVars, faults>>
  BY ReaderAtWork DEF ReadLine, Unread, Take
<1>2. read[c][o] \in Nat /\ written[c][o] \in Nat /\ written[c][o] <= MaxLines /\ MaxLines \in Nat
  BY LogStreamAssumption DEF SourceTypes, LogStreamAssumption
<1>3. read[c][o] + 1 \in 1..MaxLines /\ read[c][o] + 1 \in 0..MaxLines
  BY <1>1, <1>2
<1>4. line \in Line /\ line.kind = "log" /\ line.from = o /\ line.number = read[c][o] + 1
  BY <1>3 DEF NextLine, LineOf, Line
<1> HIDE DEF line
<1>5. /\ queue' \in [Connection -> Seq(Line \cup {ReaderDone(p) : p \in Output})]
      /\ \A d \in Connection : Len(queue'[d]) <= QueueCapacity
      /\ \A d \in Connection \ {c} : queue'[d] = queue[d]
      /\ queue'[c] = Append(queue[c], line) /\ queue[c] \in Seq(Item) /\ line \in Item
      /\ Queued(c)' = Queued(c) \cup {line}
  BY <1>1, <1>4, QueuePushed
<1>6. /\ read'[c][o] = read[c][o] + 1 /\ \A p \in Output : p # o => read'[c][p] = read[c][p]
      /\ \A d \in Connection \ {c} : read'[d] = read[d]
  BY <1>1 DEF SourceTypes
<1>7. OnlyAt(c)
  BY <1>1, <1>5, <1>6 DEF OnlyAt, State, childVars, clientVars
<1>8. HandlerTypes' /\ ClientTypes'
  BY <1>1 DEF HandlerTypes, ClientTypes, brokerVars, clientVars
<1>9. SourceTypes'
  <2>1. read' \in [Connection -> [Output -> 0..MaxLines]]
    BY <1>1, <1>3 DEF SourceTypes
  <2>2. \A d \in Connection, p \in Output : read'[d][p] <= written[d][p]
    <3> TAKE d \in Connection, p \in Output
    <3>1. CASE d = c /\ p = o
      BY <1>1, <1>2, <1>6, <3>1
    <3>2. CASE ~(d = c /\ p = o)
      BY <1>6, <3>2 DEF SourceTypes
    <3> QED BY <3>1, <3>2
  <2> QED BY <1>1, <1>5, <2>1, <2>2 DEF SourceTypes, childVars
<1>10. PermitInv'
  BY <1>1, <1>7, PlaceKept
<1>11. PlaceOf(c)'
  BY <1>1 DEF PlaceOf, Unserved, Streaming, ClientOpen, childVars, clientVars
<1>12. EndOf(c)'
  <2>1. \A p \in Output : ReaderDone(p) # line
    BY <1>4 DEF ReaderDone
  <2>2. \A p \in Output : reader[c][p] = "gone" => read'[c][p] = read[c][p]
    BY <1>1, <1>6
  <2>3. event[c].kind # "end"
    BY <1>1 DEF EndOf
  <2> QED BY <1>1, <1>5, <2>1, <2>2, <2>3 DEF EndOf, childVars
<1>13. FlowOf(c)'
  <2> SUFFICES ASSUME NEW p \in Output
               PROVE  \E a, b \in 0..MaxLines :
                         /\ Sent(c, p, a, b)'
                         /\ ClientOpen(c)' /\ server'[c] \in {"send", "receive"} => Ahead(c, p, b)'
    BY DEF FlowOf
  <2>1. PICK a \in 0..MaxLines, b \in 0..MaxLines :
           /\ Sent(c, p, a, b)
           /\ ClientOpen(c) /\ server[c] \in {"send", "receive"} => Ahead(c, p, b)
    BY DEF FlowOf
  <2>2. Sent(c, p, a, b)' /\ ClientOpen(c)' = ClientOpen(c) /\ server'[c] = server[c]
    BY <1>1, <2>1 DEF Sent, ClientOpen, clientVars
  <2>3. b \in Nat /\ read[c][p] \in Nat
    BY LogStreamAssumption DEF SourceTypes, LogStreamAssumption
  <2>4. ASSUME NEW n \in Nat, Lines(queue[c], p, n, read[c][p]) PROVE Lines(queue'[c], p, n, read'[c][p])
    <3>1. CASE p = o
      BY <1>4, <1>5, <1>6, <2>3, <2>4, <3>1, AppendLine DEF IsFrom
    <3>2. CASE p # o
      <4>1. ~IsFrom(p, line)
        BY <1>4, <3>2 DEF IsFrom
      <4> QED BY <1>5, <1>6, <2>3, <2>4, <3>2, <4>1, AppendOther
    <3> QED BY <3>1, <3>2
  <2>5. Ahead(c, p, b) => Ahead(c, p, b)'
    BY <1>1, <2>3, <2>4 DEF Ahead
  <2> QED BY <2>1, <2>2, <2>5
<1> QED BY <1>7, <1>8, <1>9, <1>10, <1>11, <1>12, <1>13, OneConnection

LEMMA OfferDoneInv ==
    ASSUME Inv, NEW c \in Connection, NEW o \in Output, OfferDone(c, o) PROVE Inv'
<1> USE Known
<1>1. /\ reader[c][o] = "reading" /\ Room(c) /\ server[c] \in Streaming
      /\ read[c][o] = written[c][o] /\ child[c] # "running"
      /\ Enqueue(c, ReaderDone(o)) /\ reader' = [reader EXCEPT ![c][o] = "gone"]
      /\ UNCHANGED <<brokerVars, free, server, event, childVars, read, done, wire, clientVars, faults>>
  BY ReaderAtWork DEF OfferDone, Reader
<1>2. /\ queue' \in [Connection -> Seq(Line \cup {ReaderDone(p) : p \in Output})]
      /\ \A d \in Connection : Len(queue'[d]) <= QueueCapacity
      /\ \A d \in Connection \ {c} : queue'[d] = queue[d]
      /\ queue'[c] = Append(queue[c], ReaderDone(o)) /\ queue[c] \in Seq(Item) /\ ReaderDone(o) \in Item
      /\ Queued(c)' = Queued(c) \cup {ReaderDone(o)}
  BY <1>1, QueuePushed
<1>3. /\ reader'[c][o] = "gone" /\ \A p \in Output : p # o => reader'[c][p] = reader[c][p]
      /\ \A d \in Connection \ {c} : reader'[d] = reader[d]
  BY <1>1 DEF SourceTypes
<1>4. OnlyAt(c)
  BY <1>1, <1>2, <1>3 DEF OnlyAt, State, childVars, clientVars
<1>5. HandlerTypes' /\ ClientTypes'
  BY <1>1 DEF HandlerTypes, ClientTypes, brokerVars, clientVars
<1>6. SourceTypes'
  <2>1. reader' \in [Connection -> [Output -> {"none", "reading", "gone"}]]
    BY <1>1 DEF SourceTypes
  <2> QED BY <1>1, <1>2, <2>1 DEF SourceTypes, childVars
<1>7. PermitInv'
  BY <1>1, <1>4, PlaceKept
<1>8. PlaceOf(c)'
  BY <1>1 DEF PlaceOf, Unserved, Streaming, ClientOpen, childVars, clientVars
<1>9. EndOf(c)'
  <2>1. child[c] \in {"exited", "failed"}
    BY <1>1 DEF EndOf
  <2>2. \A p \in Output : ReaderDone(p) = ReaderDone(o) => p = o
    BY DEF ReaderDone
  <2>3. event[c].kind # "end"
    BY <1>1 DEF EndOf
  <2> QED BY <1>1, <1>2, <1>3, <2>1, <2>2, <2>3 DEF EndOf, childVars
<1>10. FlowOf(c)'
  <2> SUFFICES ASSUME NEW p \in Output
               PROVE  \E a, b \in 0..MaxLines :
                         /\ Sent(c, p, a, b)'
                         /\ ClientOpen(c)' /\ server'[c] \in {"send", "receive"} => Ahead(c, p, b)'
    BY DEF FlowOf
  <2>1. PICK a \in 0..MaxLines, b \in 0..MaxLines :
           /\ Sent(c, p, a, b)
           /\ ClientOpen(c) /\ server[c] \in {"send", "receive"} => Ahead(c, p, b)
    BY DEF FlowOf
  <2>2. Sent(c, p, a, b)' /\ ClientOpen(c)' = ClientOpen(c) /\ server'[c] = server[c]
    BY <1>1, <2>1 DEF Sent, ClientOpen, clientVars
  <2>3. b \in Nat /\ read[c][p] \in Nat /\ ~IsFrom(p, ReaderDone(o))
    BY LogStreamAssumption DEF SourceTypes, LogStreamAssumption, IsFrom, ReaderDone
  <2>4. ASSUME NEW n \in Nat, Lines(queue[c], p, n, read[c][p]) PROVE Lines(queue'[c], p, n, read[c][p])
    BY <1>2, <2>3, <2>4, AppendOther
  <2>5. Ahead(c, p, b) => Ahead(c, p, b)'
    BY <1>1, <2>3, <2>4 DEF Ahead
  <2> QED BY <2>1, <2>2, <2>5
<1> QED BY <1>4, <1>5, <1>6, <1>7, <1>8, <1>9, <1>10, OneConnection

LEMMA ReaderStopsInv ==
    ASSUME Inv, NEW c \in Connection, NEW o \in Output, ReaderStops(c, o) PROVE Inv'
<1> USE Known
<1>1. /\ reader[c][o] = "reading" /\ server[c] \in {"joining", "done"}
      /\ reader' = [reader EXCEPT ![c][o] = "gone"]
      /\ UNCHANGED <<brokerVars, free, server, event, childVars, read, queue, done, wire, clientVars, faults>>
  BY DEF ReaderStops, Reader, SourceStopped
<1>2. OnlyAt(c)
  BY <1>1 DEF OnlyAt, State, childVars, clientVars, SourceTypes
<1>3. HandlerTypes' /\ ClientTypes'
  BY <1>1 DEF HandlerTypes, ClientTypes, brokerVars, clientVars
<1>4. SourceTypes'
  <2>1. reader' \in [Connection -> [Output -> {"none", "reading", "gone"}]]
    BY <1>1 DEF SourceTypes
  <2> QED BY <1>1, <2>1 DEF SourceTypes, childVars
<1>5. PermitInv'
  BY <1>1, <1>2, PlaceKept
<1>6. PlaceOf(c)'
  BY <1>1 DEF PlaceOf, Unserved, Streaming, ClientOpen, childVars, clientVars
<1>7. EndOf(c)'
  BY <1>1 DEF EndOf, Streaming
<1>8. FlowOf(c)'
  BY <1>1, FlowKept DEF ClientOpen, clientVars
<1> QED BY <1>2, <1>3, <1>4, <1>5, <1>6, <1>7, <1>8, OneConnection

-----------------------------------------------------------------------------
(* The invariant and what follows from it *)

LEMMA InitInv == Init => Inv
<1> SUFFICES ASSUME Init PROVE Inv
  OBVIOUS
<1> USE DEF LogStreamAssumption
<1>1. HandlerTypes
  BY LogStreamAssumption DEF Init, HandlerTypes
<1>2. SourceTypes
  <2>1. written \in [Connection -> [Output -> 0..MaxLines]]
    BY LogStreamAssumption DEF Init
  <2>2. \A c \in Connection : queue[c] = <<>> /\ Len(queue[c]) = 0
    BY DEF Init
  <2>3. queue \in [Connection -> Seq(Line \cup {ReaderDone(o) : o \in Output})]
    BY EmptySeq DEF Init
  <2>4. \A c \in Connection, o \in Output : read[c][o] = 0 /\ written[c][o] = 0
    BY DEF Init
  <2> QED BY <2>1, <2>2, <2>3, <2>4, LogStreamAssumption DEF Init, SourceTypes
<1>3. ClientTypes
  <2>1. \A c \in Connection : wire[c] = <<>> /\ Len(wire[c]) = 0
    BY DEF Init
  <2>2. wire \in [Connection -> Seq(Frame)] /\ got \in [Connection -> Seq(Line)]
    BY EmptySeq DEF Init
  <2> QED BY <2>1, <2>2, LogStreamAssumption DEF Init, ClientTypes, Places
<1>4. PermitInv
  <2>1. PermitHolder = {}
    BY DEF Init, PermitHolder
  <2> QED BY <2>1, FS_EmptySet, LogStreamAssumption DEF Init, PermitInv
<1>5. ASSUME NEW c \in Connection PROVE ConnectionInv(c)
  <2>1. PlaceOf(c)
    BY DEF Init, PlaceOf, Zero, ClientOpen, Unserved, Streaming
  <2>2. EndOf(c)
    BY DEF Init, EndOf, Streaming
  <2>3. FlowOf(c)
    <3>1. got[c] = <<>> /\ wire[c] = <<>> /\ ~ClientOpen(c)
      BY DEF Init, ClientOpen
    <3>2. \A o \in Output : Sent(c, o, 0, 0)
      BY <3>1, LinesNone DEF Sent
    <3> QED BY <3>1, <3>2, LogStreamAssumption DEF FlowOf
  <2> QED BY <2>1, <2>2, <2>3 DEF ConnectionInv
<1> QED BY <1>1, <1>2, <1>3, <1>4, <1>5, TypeParts DEF Inv

LEMMA StepInv == ASSUME Inv, Next PROVE Inv'
<1>1. ASSUME NEW c \in Connection, NEW o \in Output, ReaderStep(c, o) PROVE Inv'
  BY <1>1, ReadLineInv, OfferDoneInv, ReaderStopsInv DEF ReaderStep
<1>2. ASSUME NEW c \in Connection, Connect(c) \/ ClientStep(c) \/ Stall(c) \/ Leave(c) PROVE Inv'
  BY <1>2, ConnectInv, ReceiveFrameInv, StallInv, ClientLeavesInv DEF ClientStep
<1>3. ASSUME NEW c \in Connection, HandlerStep(c) \/ SendTimeout(c) PROVE Inv'
  BY <1>3, OpenInv, SendInv, SendTimeoutInv, ReceiveNothingInv, ReceiveItemInv, CloseInv,
     JoinAndReleaseInv DEF HandlerStep
<1>4. ASSUME NEW c \in Connection, Accept(c) \/ CancelFuture(c) PROVE Inv'
  BY <1>4, AcceptInv, BrokerInv
<1>5. ASSUME NEW c \in Connection, ChildExits(c) \/ \E o \in Output : Write(c, o) PROVE Inv'
  BY <1>5, ChildInv
<1>6. ASSUME AcceptFails \/ Stop \/ Stopped PROVE Inv'
  BY <1>6, BrokerInv
<1> QED BY <1>1, <1>2, <1>3, <1>4, <1>5, <1>6 DEF Next

LEMMA SameInv == ASSUME Inv, UNCHANGED vars PROVE Inv'
<1>1. HandlerTypes' /\ SourceTypes' /\ ClientTypes'
  BY TypeParts DEF Inv, HandlerTypes, SourceTypes, ClientTypes, vars, brokerVars, sourceVars, childVars,
     readerVars, clientVars
<1>2. PermitInv'
  BY PermitsKept DEF vars, brokerVars, PermitHolder
<1>3. \A c \in Connection : ConnectionInv(c)'
  BY Untouched DEF Inv, State, vars, brokerVars, sourceVars, childVars, readerVars, clientVars
<1> QED BY <1>1, <1>2, <1>3 DEF Inv, TypeOK, HandlerTypes, SourceTypes, ClientTypes, Places

LEMMA AlwaysInv == Spec => []Inv
<1>1. Inv /\ [Next]_vars => Inv'
  BY StepInv, SameInv
<1> QED BY InitInv, <1>1, PTL DEF Spec

\* What the browser is sent of each pipe of a container is what the container wrote to
\* it, in order and from the first line on, and the end only after the last line
\* (process_stream.py, DockerServiceLogSubscription.receive, _handle): for any number
\* of connections, permits, lines and faults and any capacity of queue and socket.
THEOREM Faithful == Spec => []LogIsFaithful
<1>1. ASSUME Inv PROVE LogIsFaithful
  <2> SUFFICES ASSUME NEW c \in Connection
               PROVE  /\ \A o \in Output : \E n \in 0..MaxLines : Lines(got[c] \o wire[c], o, 0, n)
                      /\ event[c].kind = "end" =>
                           /\ child[c] = "exited"
                           /\ ClientOpen(c) => \A o \in Output : Lines(got[c] \o wire[c], o, 0, written[c][o])
    BY DEF LogIsFaithful
  <2> USE <1>1, Known
  <2>1. got[c] \in Seq(Item) /\ wire[c] \in Seq(Item)
    BY Items DEF ClientTypes
  <2>2. ASSUME NEW o \in Output, NEW a \in 0..MaxLines, NEW b \in 0..MaxLines, Sent(c, o, a, b)
        PROVE  Lines(got[c] \o wire[c], o, 0, b)
    BY <2>1, <2>2, Concatenated, LogStreamAssumption DEF Sent, LogStreamAssumption
  <2>3. \A o \in Output : \E n \in 0..MaxLines : Lines(got[c] \o wire[c], o, 0, n)
    BY <2>2 DEF FlowOf
  <2>4. ASSUME event[c].kind = "end"
        PROVE  server[c] = "send" /\ child[c] = "exited" /\ queue[c] = <<>>
               /\ \A o \in Output : reader[c][o] = "gone" /\ read[c][o] = written[c][o]
    <3>1. event[c] # Nothing
      BY <2>4 DEF Nothing, Mark
    <3>2. server[c] = "send"
      BY <3>1 DEF HandlerTypes
    <3> QED BY <2>4, <3>2 DEF EndOf, Streaming
  <2>5. ASSUME event[c].kind = "end", ClientOpen(c), NEW o \in Output
        PROVE  Lines(got[c] \o wire[c], o, 0, written[c][o])
    <3>1. PICK a \in 0..MaxLines, b \in 0..MaxLines : Sent(c, o, a, b) /\ Ahead(c, o, b)
      BY <2>4, <2>5 DEF FlowOf
    <3>2. ~IsFrom(o, event[c])
      BY <2>5 DEF IsFrom
    <3>3. Lines(<<>>, o, b, written[c][o])
      BY <2>4, <2>5, <3>1, <3>2 DEF Ahead
    <3>4. b \in Nat /\ written[c][o] \in Nat
      BY LogStreamAssumption DEF SourceTypes, LogStreamAssumption
    <3>5. b = written[c][o]
      BY <3>3, <3>4, LinesEmpty
    <3> QED BY <2>2, <3>1, <3>5
  <2> QED BY <2>3, <2>4, <2>5
<1> QED BY AlwaysInv, <1>1, PTL

\* Every variable keeps its type, the queue and the socket of a connection their
\* capacity, no permit is doubled or lost, and there are never more children than
\* permits (_serve, _handle_with_capacity, _terminate_process), however connections
\* come, go, time out or are cancelled.
THEOREM Bounded == Spec => []WithinBounds
<1>1. ASSUME Inv PROVE WithinBounds
  <2> DEFINE running == {c \in Connection : child[c] = "running"}
  <2>1. running \subseteq PermitHolder
    BY <1>1, Known DEF PlaceOf, PermitHolder, Streaming
  <2>2. Cardinality(running) <= Cardinality(PermitHolder) /\ Cardinality(running) \in Nat
    BY <2>1, HoldersAreFinite, FS_Subset, FS_CardinalityType
  <2>3. PermitHolder = {} => Cardinality(PermitHolder) = 0
    BY FS_EmptySet
  <2>4. Cardinality(running) <= MaxStreams
    <3> HIDE DEF running
    <3> QED BY <1>1, <2>2, <2>3, HoldersAreFinite, LogStreamAssumption
            DEF Inv, PermitInv, TypeOK, LogStreamAssumption
  <2> QED BY <1>1, <2>4 DEF Inv, PermitInv, WithinBounds
<1> QED BY AlwaysInv, <1>1, PTL
=============================================================================
