------------------------ MODULE EventStream_proofs --------------------------
(* The permits of the event streams are conserved, no row is skipped or       *)
(* repeated between the cursor of a subscription and what its page has read,  *)
(* and a page that read every row shows the newest ones: for any numbers of   *)
(* pages, subscriptions, permits and events, any page size and window, and    *)
(* any number of lost connections, failed reads, restarts and remounts.       *)
(*                                                                            *)
(* The inductive invariant says what is on the wire (OnWire), what the        *)
(* queries returned (QueryOf), and how the live items of a page relate to the *)
(* rows it read (LiveOf). The last is not simply "the last Window rows": the  *)
(* page may fetch data older than what it has received, reconnect after them  *)
(* and read rows it has pushed out of its window once more (Rotated).         *)
EXTENDS EventStream, FiniteSetTheorems, TLAPS

-----------------------------------------------------------------------------
(* The inductive invariant *)

\* The last row a page has read, from which it reconnects.
Read(c) == IF after[c] >= lastId[c] THEN after[c] ELSE lastId[c]

\* What list_events returned when the newest row was n.
Rows(n) == {k \in 1..n : k + Window > n}

Items(q) == {q[i] : i \in DOMAIN q}

Pending(c) == fetch[c] \in {"asked", "read"}

\* The effect of the page keeps a subscription.
Active(c) == seen[c] = "running" /\ loaded[c] /\ ~ended[c]

Holders == {s \in Sub : pc[s] \in Holding}

PermitInv == permits + Cardinality(Holders) = MaxSubscriptions

\* A subscription reads ahead without a gap.
SubInv ==
    \A s \in Sub :
        /\ pc[s] = "free" => cursor[s] = 0 /\ buffer[s] = <<>>
        /\ cursor[s] + Len(buffer[s]) <= last
        /\ \A i \in DOMAIN buffer[s] : buffer[s][i] = cursor[s] + i

\* A subscription serves one page, and only a page whose effect wants it.
LinkInv ==
    /\ \A c, d \in Client : conn[c] # None /\ conn[c] = conn[d] => c = d
    /\ \A c \in Client :
        /\ after[c] <= last /\ lastId[c] <= last
        /\ conn[c] # None => source[c] \in {"connecting", "open"}
        /\ ~Active(c) => conn[c] = None /\ source[c] = "closed"

\* The first messages on the wire, sent of them, are the rows after the one
\* that was read; until the subscription closes there are no others.
OnWire(c, sent) ==
    LET s == conn[c]
    IN  /\ \A i \in DOMAIN wire[s] : wire[s][i].kind = "event" <=> i <= sent
        /\ \A i \in 1..sent : wire[s][i].id = Read(c) + i
        /\ Read(c) + sent <= last
        /\ pc[s] # "free" => cursor[s] = Read(c) + sent
        /\ pc[s] \in Receiving \cup {"listen"} => sent = Len(wire[s])
        /\ \A i \in DOMAIN wire[s] : wire[s][i].kind = "end" => outcome # 0

WireOf(c) == conn[c] # None => \E sent \in 0..Len(wire[conn[c]]) : OnWire(c, sent)

WireInv == \A c \in Client : WireOf(c)

\* The data of a page are the newest rows of some moment, of a later one than
\* the outcome if the page fetched them because it was told the end.
QueryOf(c) ==
    /\ snapshot[c] = Rows(after[c])
    /\ fetch[c] = "read" => \E f \in after[c]..last :
                                fetched[c] = Rows(f) /\ (ended[c] => outcome <= f)
    /\ ended[c] => outcome # 0
    /\ ended[c] /\ fetch[c] = "idle" => outcome <= after[c]

QueryInv ==
    outcome <= last /\ \A c \in Client : QueryOf(c)

\* The live items while the first fetch of the hook is under way: the last rows
\* up to the one that was read, all since the data or a full window.
Fresh(items, data, read) ==
    /\ \A i \in DOMAIN items : items[i] + Len(items) = read + i
    /\ Len(items) < Window => data + Len(items) = read

\* Afterwards they increase; the page may have gone back in them, to data
\* fetched before they arrived, but then it has what follows.
Ordered(items, read) ==
    /\ \A i, j \in DOMAIN items : i <= j => items[j] + i >= items[i] + j
    /\ \A i \in DOMAIN items : (read + 1)..items[i] \subseteq Items(items)

\* Or the page went back behind a full window: it reads the rows between once
\* more, which push the items it had out of the window before it gets to them.
Rotated(items, data, read) ==
    LET left == data + Window - read
    IN  /\ Len(items) = Window
        /\ left >= 1
        /\ \E m \in (read + 1)..MaxEvents : \A i \in 1..Window :
                items[i] = IF i <= left THEN m + i ELSE data + (i - left)

Shape(c) ==
    IF Pending(c) THEN Fresh(live[c], after[c], Read(c))
    ELSE Ordered(live[c], Read(c)) \/ Rotated(live[c], after[c], Read(c))

LiveOf(c) ==
    /\ ~loaded[c] \/ seen[c] = "unknown" => live[c] = <<>>
    /\ Len(live[c]) <= Window
    /\ \A i \in DOMAIN live[c] : live[c][i] <= last
    /\ Active(c) => Rows(Read(c)) \subseteq snapshot[c] \cup Items(live[c])
    /\ Active(c) => Shape(c)

LiveInv == \A c \in Client : LiveOf(c)

-----------------------------------------------------------------------------
(* Sequences to which an item is appended. *)

\* n is appended to items, k of which are dropped at the front.
Pushed(new, items, len, k, n) ==
    /\ len \in Nat /\ k \in {0, 1} /\ k <= len
    /\ DOMAIN items = 1..len /\ DOMAIN new = 1..(len + 1 - k)
    /\ \A i \in 1..len : items[i] \in Nat
    /\ \A i \in 1..(len - k) : new[i] = items[i + k]
    /\ new[len + 1 - k] = n

LEMMA PushedCases ==
    ASSUME NEW new, NEW items, NEW len, NEW k, NEW n \in Nat, Pushed(new, items, len, k, n),
           NEW i \in DOMAIN new
    PROVE  /\ i \in Nat /\ i >= 1 /\ i <= len + 1 - k
           /\ \/ i <= len - k /\ i + k \in DOMAIN items /\ new[i] = items[i + k]
              \/ i = len + 1 - k /\ new[i] = n
<1>1. len \in Nat /\ k \in {0, 1} /\ i \in 1..(len + 1 - k) /\ DOMAIN items = 1..len /\ k <= len
    BY DEF Pushed
<1>2. i \in 1..(len - k) \/ i = len + 1 - k
    BY <1>1
<1>3. i \in 1..(len - k) => i + k \in 1..len /\ i <= len - k
    BY <1>1
<1>4. i \in Nat /\ i >= 1 /\ i <= len + 1 - k
    BY <1>1
<1> QED BY <1>1, <1>2, <1>3, <1>4 DEF Pushed

LEMMA PushedItems ==
    ASSUME NEW new, NEW items, NEW len, NEW k, NEW n \in Nat, Pushed(new, items, len, k, n)
    PROVE  /\ Items(new) \subseteq Items(items) \cup {n}
           /\ n \in Items(new)
           /\ \A j \in DOMAIN items : j > k => items[j] \in Items(new)
<1>0. len \in Nat /\ k \in {0, 1} /\ k <= len /\ DOMAIN items = 1..len /\ DOMAIN new = 1..(len + 1 - k)
    BY DEF Pushed
<1>1. Items(new) \subseteq Items(items) \cup {n}
    BY PushedCases DEF Items
<1>2. n \in Items(new)
    <2>1. len + 1 - k \in DOMAIN new
        BY <1>0
    <2> QED BY <2>1 DEF Items, Pushed
<1>3. ASSUME NEW j \in DOMAIN items, j > k
      PROVE  items[j] \in Items(new)
    <2>1. j - k \in 1..(len - k) /\ j - k \in DOMAIN new /\ (j - k) + k = j
        BY <1>0, <1>3
    <2>2. new[j - k] = items[j]
        BY <2>1 DEF Pushed
    <2> QED BY <2>1, <2>2 DEF Items
<1> QED BY <1>1, <1>2, <1>3

LEMMA PushedOrder ==
    ASSUME NEW new, NEW items, NEW len, NEW k, NEW n \in Nat, Pushed(new, items, len, k, n),
           \A i, j \in DOMAIN items : i <= j => items[j] + i >= items[i] + j,
           \A i \in DOMAIN items : items[i] < n
    PROVE  \A i, j \in DOMAIN new : i <= j => new[j] + i >= new[i] + j
<1> SUFFICES ASSUME NEW i \in DOMAIN new, NEW j \in DOMAIN new, i <= j
             PROVE  new[j] + i >= new[i] + j
    OBVIOUS
<1>0. /\ len \in Nat /\ k \in {0, 1} /\ DOMAIN items = 1..len /\ k <= len
      /\ \A h \in DOMAIN items : items[h] \in Nat
    BY DEF Pushed
<1>1. ASSUME NEW h \in DOMAIN new
      PROVE  /\ h \in Nat /\ h <= len + 1 - k
             /\ \/ h <= len - k /\ h + k \in DOMAIN items /\ new[h] = items[h + k]
                \/ h = len + 1 - k /\ new[h] = n
    BY PushedCases
<1>2. CASE j <= len - k
    <2>1. j + k \in DOMAIN items /\ new[j] = items[j + k]
        BY <1>0, <1>1, <1>2
    <2>2. i + k \in DOMAIN items /\ new[i] = items[i + k]
        BY <1>0, <1>1, <1>2
    <2>3. items[j + k] + (i + k) >= items[i + k] + (j + k)
        BY <1>0, <1>1, <2>1, <2>2
    <2> QED BY <1>0, <1>1, <2>1, <2>2, <2>3
<1>3. CASE j = len + 1 - k
    <2>1. new[j] = n
        BY <1>0, <1>1, <1>3
    <2>2. CASE i = j
        BY <1>1, <2>1, <2>2
    <2>3. CASE i # j
        <3>1. i + k \in DOMAIN items /\ new[i] = items[i + k] /\ i <= len - k
            BY <1>0, <1>1, <1>3, <2>3
        <3>2. len \in DOMAIN items /\ i + k <= len
            BY <1>0, <1>1, <3>1
        <3>3. items[len] + (i + k) >= items[i + k] + len
            BY <3>1, <3>2
        <3>4. items[len] < n
            BY <3>2
        <3>5. items[len] \in Nat /\ items[i + k] \in Nat
            BY <1>0, <3>1, <3>2
        <3>6. n + i >= items[i + k] + (len + 1 - k)
            BY <1>0, <1>1, <3>3, <3>4, <3>5
        <3> QED BY <1>3, <2>1, <3>1, <3>6
    <2> QED BY <2>2, <2>3
<1> QED BY <1>0, <1>1, <1>2, <1>3

\* The last len rows up to the one that was read.
Consecutive(items, len, read) == \A i \in DOMAIN items : items[i] + len = read + i

LEMMA PushedConsecutive ==
    ASSUME NEW new, NEW items, NEW len, NEW k, NEW read \in Nat,
           NEW n \in Nat, n = read + 1, Pushed(new, items, len, k, n),
           Consecutive(items, len, read)
    PROVE  Consecutive(new, len + 1 - k, n)
<1> SUFFICES ASSUME NEW i \in DOMAIN new
             PROVE  new[i] + (len + 1 - k) = n + i
    BY DEF Consecutive
<1>0. /\ len \in Nat /\ k \in {0, 1} /\ DOMAIN items = 1..len
      /\ \A h \in DOMAIN items : items[h] \in Nat
    BY DEF Pushed
<1>1. /\ i \in Nat
      /\ \/ i + k \in DOMAIN items /\ new[i] = items[i + k]
         \/ i = len + 1 - k /\ new[i] = n
    <2>1. /\ i \in Nat
          /\ \/ i <= len - k /\ i + k \in DOMAIN items /\ new[i] = items[i + k]
             \/ i = len + 1 - k /\ new[i] = n
        BY PushedCases
    <2> QED BY <2>1
<1>2. CASE i + k \in DOMAIN items /\ new[i] = items[i + k]
    <2>1. items[i + k] + len = read + (i + k) /\ items[i + k] \in Nat
        BY <1>0, <1>2 DEF Consecutive
    <2>2. PICK x \in Nat : x = new[i]
        BY <1>2, <2>1
    <2>3. x + len = read + (i + k) /\ k \in Nat
        BY <1>0, <1>2, <2>1, <2>2
    <2>4. len \in Nat /\ i \in Nat
        BY <1>0, <1>1
    <2>5. x + (len + 1 - k) = n + i
        BY <2>3, <2>4
    <2> QED BY <2>2, <2>5
<1>3. CASE i = len + 1 - k /\ new[i] = n
    <2>1. new[i] + (len + 1 - k) = n + (len + 1 - k)
        BY <1>3
    <2>2. n + (len + 1 - k) = n + i
        BY <1>3
    <2> QED BY <2>1, <2>2
<1> QED BY <1>1, <1>2, <1>3

\* The items after m that are left, followed by those after data.
Turned(items, left, m, data) ==
    \A i \in DOMAIN items : items[i] = IF i <= left THEN m + i ELSE data + (i - left)

LEMMA PushedRotation ==
    ASSUME NEW new, NEW items, NEW len, NEW left, NEW m \in Nat, NEW data \in Nat,
           left \in 1..len, NEW n \in Nat, n = data + len - left + 1,
           Pushed(new, items, len, 1, n), Turned(items, left, m, data)
    PROVE  Turned(new, left - 1, m + 1, data)
<1> SUFFICES ASSUME NEW i \in DOMAIN new
             PROVE  new[i] = IF i <= left - 1 THEN (m + 1) + i ELSE data + (i - (left - 1))
    BY DEF Turned
<1>0. len \in Nat /\ left \in Nat /\ left <= len /\ DOMAIN items = 1..len
    BY DEF Pushed
<1>2. /\ i \in Nat
      /\ \/ i + 1 \in DOMAIN items /\ new[i] = items[i + 1]
         \/ i = len + 1 - 1 /\ new[i] = n
    <2>1. /\ i \in Nat
          /\ \/ i <= len - 1 /\ i + 1 \in DOMAIN items /\ new[i] = items[i + 1]
             \/ i = len + 1 - 1 /\ new[i] = n
        BY PushedCases
    <2> QED BY <2>1
<1>3. CASE i + 1 \in DOMAIN items /\ new[i] = items[i + 1]
    <2>1. new[i] = IF i + 1 <= left THEN m + (i + 1) ELSE data + ((i + 1) - left)
        BY <1>3 DEF Turned
    <2> QED BY <1>0, <1>2, <2>1
<1>4. CASE i = len + 1 - 1 /\ new[i] = n
    BY <1>0, <1>2, <1>4
<1> QED BY <1>2, <1>3, <1>4

-----------------------------------------------------------------------------
(* Numbers, rows and the items of a page. *)

USE StreamAssumption DEF StreamAssumption

LEMMA NewestOfTwo ==
    ASSUME NEW a \in Nat, NEW b \in Nat
    PROVE  Newest({a, b}) = IF a >= b THEN a ELSE b
<1> DEFINE m == IF a >= b THEN a ELSE b
<1>1. m \in {a, b} \cup {0} /\ \A y \in {a, b} \cup {0} : m >= y
    OBVIOUS
<1>2. \A x \in {a, b} \cup {0} : (\A y \in {a, b} \cup {0} : x >= y) => x = m
    OBVIOUS
<1> QED BY <1>1, <1>2 DEF Newest, Max

LEMMA NewestOfRows ==
    ASSUME NEW n \in Nat
    PROVE  Newest(Rows(n)) = n
<1> DEFINE S == Rows(n) \cup {0}
<1>1. n \in S /\ \A y \in S : n >= y
    BY DEF Rows
<1>2. \A x \in S : (\A y \in S : x >= y) => x = n
    BY <1>1 DEF Rows
<1> QED BY <1>1, <1>2 DEF Newest, Max

LEMMA LeastOfTwo ==
    ASSUME NEW a \in Nat, NEW b \in Nat
    PROVE  Min({a, b}) = IF a <= b THEN a ELSE b
<1> DEFINE m == IF a <= b THEN a ELSE b
<1>1. m \in {a, b} /\ \A y \in {a, b} : m <= y
    OBVIOUS
<1>2. \A x \in {a, b} : (\A y \in {a, b} : x <= y) => x = m
    OBVIOUS
<1> QED BY <1>1, <1>2 DEF Min

LEMMA IntervalSize ==
    ASSUME NEW a \in Int, NEW b \in Int, a <= b + 1
    PROVE  IsFiniteSet(a..b) /\ Cardinality(a..b) = b - a + 1
<1>1. IsFiniteSet(a..b)
    BY FS_Interval
<1>2. Cardinality(a..b) = IF a > b THEN 0 ELSE b - a + 1
    BY FS_Interval
<1> QED BY <1>1, <1>2

\* At most n - x rows of S are newer than x, and exactly so many of all the rows.
LEMMA NewerRows ==
    ASSUME NEW n \in Nat, NEW S \in SUBSET (1..n), NEW x \in S
    PROVE  /\ Cardinality({k \in S : k > x}) \in Nat
           /\ Cardinality({k \in S : k > x}) <= n - x
           /\ \A m \in x..n : (m+1)..n \subseteq S => n - m <= Cardinality({k \in S : k > x})
<1> DEFINE above == {k \in S : k > x}
<1>1. x \in Nat /\ x + 1 \in Int /\ n \in Int /\ x + 1 <= n + 1 /\ \A k \in S : k \in Nat /\ k <= n
    OBVIOUS
<1>2. IsFiniteSet((x + 1)..n) /\ Cardinality((x + 1)..n) = n - x
    <2>1. n - (x + 1) + 1 = n - x
        BY <1>1
    <2> QED BY <1>1, <2>1, IntervalSize
<1>3. above \in SUBSET ((x + 1)..n)
    <2>1. \A k \in above : k \in (x + 1)..n
        BY <1>1
    <2> QED BY <2>1
<1>4. IsFiniteSet(above) /\ Cardinality(above) <= n - x
    BY <1>2, <1>3, FS_Subset
<1>5. ASSUME NEW m \in x..n, (m+1)..n \subseteq S
      PROVE  n - m <= Cardinality(above)
    <2>1. m \in Nat /\ x <= m /\ m + 1 \in Int /\ m + 1 <= n + 1 /\ n - (m + 1) + 1 = n - m
        BY <1>1
    <2>2. Cardinality((m + 1)..n) = n - m
        BY <1>1, <2>1, IntervalSize
    <2>3. (m + 1)..n \in SUBSET above
        BY <1>1, <1>5, <2>1
    <2> QED BY <1>4, <2>2, <2>3, FS_Subset
<1> QED BY <1>4, <1>5, FS_CardinalityType

LEMMA LatestOfMore ==
    ASSUME NEW n \in Nat, NEW S \in SUBSET (1..n), NEW x \in S, x \in Rows(n)
    PROVE  x \in Latest(S)
<1>1. x \in 1..n /\ n - x < Window
    BY DEF Rows
<1>2. /\ Cardinality({k \in S : k > x}) \in Nat
      /\ Cardinality({k \in S : k > x}) <= n - x
    BY NewerRows
<1>3. Cardinality({k \in S : k > x}) < Window
    BY <1>1, <1>2
<1> QED BY <1>3 DEF Latest

LEMMA LatestOfCovering ==
    ASSUME NEW n \in Nat, NEW S \in SUBSET (1..n), Rows(n) \subseteq S
    PROVE  Latest(S) = Rows(n)
<1>1. ASSUME NEW x \in Latest(S)
      PROVE  x \in Rows(n)
    <2>1. x \in S /\ x \in 1..n /\ Cardinality({k \in S : k > x}) < Window
        BY DEF Latest
    <2>2. SUFFICES ASSUME x + Window <= n
                   PROVE  FALSE
        BY <2>1 DEF Rows
    <2>3. n - Window \in x..n /\ (n - Window + 1)..n \subseteq S
        BY <2>1, <2>2 DEF Rows
    <2>4. n - (n - Window) <= Cardinality({k \in S : k > x})
        BY <2>1, <2>3, NewerRows
    <2>5. Cardinality({k \in S : k > x}) \in Nat
        BY <2>1, NewerRows
    <2> QED BY <2>1, <2>4, <2>5
<1>2. Rows(n) \subseteq Latest(S)
    BY LatestOfMore
<1> QED BY <1>1, <1>2

LEMMA LatestOfAll ==
    ASSUME NEW n \in Nat
    PROVE  Latest(1..n) = Rows(n)
BY LatestOfCovering DEF Rows

LEMMA LiveItemsKnown ==
    ASSUME NEW q, NEW n \in Items(q)
    PROVE  LiveItems(q, n) = q
BY DEF LiveItems, Items

LEMMA LiveItemsNew ==
    ASSUME NEW q \in Seq(1..MaxEvents), Len(q) <= Window,
           NEW n \in 1..MaxEvents, n \notin Items(q)
    PROVE  LET k == IF Len(q) = Window THEN 1 ELSE 0
           IN  /\ LiveItems(q, n) \in Seq(1..MaxEvents)
               /\ Len(LiveItems(q, n)) = Len(q) + 1 - k
               /\ \A i \in 1..Len(q) - k : LiveItems(q, n)[i] = q[i + k]
               /\ LiveItems(q, n)[Len(q) + 1 - k] = n
<1> DEFINE new == Append(q, n)
           k == IF Len(q) = Window THEN 1 ELSE 0
<1>1. /\ new \in Seq(1..MaxEvents) /\ Len(new) = Len(q) + 1
      /\ \A i \in 1..Len(q) : new[i] = q[i]
      /\ new[Len(q) + 1] = n
    OBVIOUS
<1>2. LiveItems(q, n) = SubSeq(new, Newest({Len(new), Window}) - Window + 1, Len(new))
    BY DEF LiveItems, Items
<1>3. Newest({Len(new), Window}) - Window + 1 = k + 1
    BY <1>1, NewestOfTwo
<1>4. LiveItems(q, n) = SubSeq(new, k + 1, Len(q) + 1)
    BY <1>1, <1>2, <1>3
<1> HIDE DEF new
<1>5. /\ SubSeq(new, k + 1, Len(q) + 1) \in Seq(1..MaxEvents)
      /\ Len(SubSeq(new, k + 1, Len(q) + 1)) = Len(q) + 1 - k
      /\ \A i \in 1..Len(q) + 1 - k : SubSeq(new, k + 1, Len(q) + 1)[i] = new[i + k]
    <2>0. Len(q) \in Nat /\ k \in {0, 1} /\ k <= Len(q)
        OBVIOUS
    <2> HIDE DEF k
    <2>1. SubSeq(new, k + 1, Len(q) + 1) \in Seq(1..MaxEvents)
        BY <1>1, <2>0
    <2>2. Len(SubSeq(new, k + 1, Len(q) + 1)) = Len(q) + 1 - k
        BY <1>1, <2>0
    <2>3. ASSUME NEW i \in 1..Len(q) + 1 - k
          PROVE  SubSeq(new, k + 1, Len(q) + 1)[i] = new[i + k]
        BY <1>1, <2>0, SMTT(30)
    <2> QED BY <2>1, <2>2, <2>3
<1>6. /\ \A i \in 1..Len(q) - k : new[i + k] = q[i + k]
      /\ new[Len(q) + 1 - k + k] = n
    BY <1>1
<1>7. /\ \A i \in 1..Len(q) - k : LiveItems(q, n)[i] = q[i + k]
      /\ LiveItems(q, n)[Len(q) + 1 - k] = n
    <2>0. Len(q) \in Nat /\ k \in {0, 1} /\ k <= Len(q)
        OBVIOUS
    <2> HIDE DEF k
    <2>1. ASSUME NEW i \in 1..Len(q) - k
          PROVE  LiveItems(q, n)[i] = q[i + k]
        <3>1. i \in 1..Len(q) + 1 - k
            BY <2>0
        <3> QED BY <1>4, <1>5, <1>6, <3>1
    <2>2. LiveItems(q, n)[Len(q) + 1 - k] = n
        <3>1. Len(q) + 1 - k \in 1..Len(q) + 1 - k
            BY <2>0
        <3> QED BY <1>4, <1>5, <1>6, <3>1
    <2> QED BY <2>1, <2>2
<1> QED BY <1>4, <1>5, <1>7

-----------------------------------------------------------------------------
Inv ==
    /\ TypeOK
    /\ PermitInv
    /\ SubInv
    /\ LinkInv
    /\ WireInv
    /\ QueryInv
    /\ LiveInv

LEMMA InitInv == Init => Inv
<1> SUFFICES ASSUME Init
             PROVE  Inv
    OBVIOUS
<1> USE DEF Init
<1>1. TypeOK
    BY DEF TypeOK, Holding, Receiving
<1>2. PermitInv
    <2>1. Holders = {}
        BY DEF Holders, Holding, Receiving
    <2> QED BY <2>1, FS_EmptySet DEF PermitInv
<1>3. SubInv
    BY DEF SubInv
<1>4. LinkInv
    BY DEF LinkInv, Active
<1>5. WireInv
    BY DEF WireInv, WireOf
<1>6. QueryInv
    BY DEF QueryInv, QueryOf, Rows
<1>7. LiveInv
    BY DEF LiveInv, LiveOf, Active
<1> QED BY <1>1, <1>2, <1>3, <1>4, <1>5, <1>6, <1>7 DEF Inv

LEMMA RefillReadsOn ==
    ASSUME TypeOK, SubInv, NEW s \in Sub
    PROVE  /\ Refill(s) \in Seq(Nat)
           /\ cursor[s] + Len(Refill(s)) <= last
           /\ \A i \in DOMAIN Refill(s) : Refill(s)[i] = cursor[s] + i
<1>1. /\ last \in Nat /\ cursor[s] \in Nat /\ buffer[s] \in Seq(Nat)
      /\ cursor[s] + Len(buffer[s]) <= last
    BY DEF TypeOK, SubInv
<1>2. CASE buffer[s] # <<>>
    BY <1>1, <1>2 DEF Refill, SubInv
<1>3. CASE buffer[s] = <<>>
    <2> DEFINE n == Min({PageSize, Newest({last, cursor[s]}) - cursor[s]})
    <2>1. cursor[s] <= last
        BY <1>1, <1>3
    <2>2. n \in Nat /\ cursor[s] + n <= last
        <3>1. Newest({last, cursor[s]}) = last
            BY <1>1, <2>1, NewestOfTwo
        <3>2. last - cursor[s] \in Nat
            BY <1>1, <2>1
        <3>3. n = IF PageSize <= last - cursor[s] THEN PageSize ELSE last - cursor[s]
            BY <3>1, <3>2, LeastOfTwo
        <3> QED BY <1>1, <2>1, <3>3
    <2>3. Refill(s) = [i \in 1..n |-> cursor[s] + i]
        BY <1>3 DEF Refill
    <2> HIDE DEF n
    <2> QED BY <1>1, <2>2, <2>3
<1> QED BY <1>2, <1>3

LEMMA StartIsRead ==
    ASSUME TypeOK, NEW c \in Client
    PROVE  Start(c) = Read(c) /\ Read(c) \in Nat
<1>1. after[c] \in Nat /\ lastId[c] \in Nat
    BY DEF TypeOK
<1> QED BY <1>1, NewestOfTwo DEF Start, Read
-----------------------------------------------------------------------------
(* Every permit is in the semaphore or held. *)

LEMMA HoldersAreCounted ==
    /\ IsFiniteSet(Holders) /\ Cardinality(Holders) \in Nat
    /\ \A s \in Holders : Cardinality(Holders) >= 1
<1>1. IsFiniteSet(Holders)
    <2>1. Holders \in SUBSET Sub
        BY DEF Holders
    <2> QED BY <2>1, FS_Subset
<1>2. Cardinality(Holders) \in Nat
    BY <1>1, FS_CardinalityType
<1>3. ASSUME NEW s \in Holders
      PROVE  Cardinality(Holders) # 0
    BY <1>1, <1>3, FS_EmptySet
<1> QED BY <1>1, <1>2, <1>3

LEMMA StepWithinHolding ==
    ASSUME Inv, NEW s \in Sub,
           \/ Listen(s) \/ NextEvent(s) \/ CheckStatus(s) \/ Wait(s)
           \/ ReceiveFails(s) \/ Disconnected(s)
    PROVE  permits' = permits /\ Holders' = Holders
<1>1. pc \in [Sub -> Holding \cup {"free"}]
    BY DEF Inv, TypeOK
<1>2. /\ pc[s] \in Holding
      /\ \E l \in Holding : pc' = [pc EXCEPT ![s] = l]
      /\ permits' = permits
    BY DEF Listen, NextEvent, CheckStatus, Wait, ReceiveFails, Disconnected, Goto,
           Holding, Receiving, server
<1> QED BY <1>1, <1>2 DEF Holders

LEMMA StepTakesPermit ==
    ASSUME Inv, NEW c \in Client, NEW s \in Sub, Open(c, s)
    PROVE  permits > 0 /\ permits' = permits - 1 /\ s \notin Holders /\ Holders' = Holders \cup {s}
<1>1. pc \in [Sub -> Holding \cup {"free"}]
    BY DEF Inv, TypeOK
<1>2. pc[s] = "free" /\ pc' = [pc EXCEPT ![s] = "listen"] /\ permits > 0 /\ permits' = permits - 1
    BY DEF Open, Goto
<1>3. "listen" \in Holding /\ "free" \notin Holding
    BY DEF Holding, Receiving
<1> QED BY <1>1, <1>2, <1>3 DEF Holders

LEMMA StepReturnsPermit ==
    ASSUME Inv, NEW s \in Sub, Close(s) \/ ListenFails(s)
    PROVE  permits' = permits + 1 /\ s \in Holders /\ Holders' = Holders \ {s}
<1>1. pc \in [Sub -> Holding \cup {"free"}]
    BY DEF Inv, TypeOK
<1>2. pc[s] \in Holding /\ pc' = [pc EXCEPT ![s] = "free"] /\ permits' = permits + 1
    BY DEF Close, ListenFails, Discard, Goto, Holding
<1>3. "free" \notin Holding
    BY DEF Holding, Receiving
<1> QED BY <1>1, <1>2, <1>3 DEF Holders

LEMMA NextPermits ==
    ASSUME Inv, Next
    PROVE  PermitInv' /\ permits' \in 0..MaxSubscriptions
<1>0. /\ permits \in 0..MaxSubscriptions
      /\ permits + Cardinality(Holders) = MaxSubscriptions
    BY DEF Inv, TypeOK, PermitInv
<1>1. ASSUME permits' = permits, Holders' = Holders
      PROVE  PermitInv' /\ permits' \in 0..MaxSubscriptions
    BY <1>0, <1>1 DEF PermitInv
<1>2. ASSUME permits' = permits, pc' = pc
      PROVE  PermitInv' /\ permits' \in 0..MaxSubscriptions
    <2>1. Holders' = Holders
        BY <1>2 DEF Holders
    <2> QED BY <1>1, <1>2, <2>1
<1>3. ASSUME NEW c \in Client, NEW s \in Sub, Open(c, s)
      PROVE  PermitInv' /\ permits' \in 0..MaxSubscriptions
    <2>1. permits > 0 /\ permits' = permits - 1 /\ s \notin Holders /\ Holders' = Holders \cup {s}
        BY <1>3, StepTakesPermit
    <2>2. Cardinality(Holders') = Cardinality(Holders) + 1
        BY <2>1, HoldersAreCounted, FS_AddElement
    <2> QED BY <1>0, <2>1, <2>2, HoldersAreCounted DEF PermitInv
<1>4. ASSUME NEW s \in Sub, Close(s) \/ ListenFails(s)
      PROVE  PermitInv' /\ permits' \in 0..MaxSubscriptions
    <2>1. permits' = permits + 1 /\ s \in Holders /\ Holders' = Holders \ {s}
        BY <1>4, StepReturnsPermit
    <2>2. Cardinality(Holders') = Cardinality(Holders) - 1
        BY <2>1, HoldersAreCounted, FS_RemoveElement
    <2> QED BY <1>0, <2>1, <2>2, HoldersAreCounted DEF PermitInv
<1>5. CASE Restart
    <2>1. permits' = MaxSubscriptions /\ Holders' = {}
        BY <1>5 DEF Restart, Holders, Holding, Receiving
    <2> QED BY <1>0, <2>1, FS_EmptySet DEF PermitInv
<1>6. CASE InsertEvent \/ Settle
    BY <1>2, <1>6 DEF InsertEvent, Settle, server
<1>7. ASSUME NEW c \in Client,
             \/ OpenBusy(c) \/ PageStep(c) \/ PollStatus(c)
             \/ FetchFails(c) \/ Drop(c) \/ Remount(c)
      PROVE  PermitInv' /\ permits' \in 0..MaxSubscriptions
    <2>1. permits' = permits /\ pc' = pc
        BY <1>7 DEF OpenBusy, PageStep, ReadEvents, ApplyEvents, OnEvent, OnEnd, OnStreamError,
                    PollStatus, FetchFails, Drop, Remount, server
    <2> QED BY <1>2, <2>1
<1>8. ASSUME NEW s \in Sub,
             \/ Listen(s) \/ NextEvent(s) \/ CheckStatus(s) \/ Wait(s)
             \/ ReceiveFails(s) \/ Disconnected(s)
      PROVE  PermitInv' /\ permits' \in 0..MaxSubscriptions
    <2>1. permits' = permits /\ Holders' = Holders
        BY <1>8, StepWithinHolding
    <2> QED BY <1>1, <2>1
<1> QED BY <1>3, <1>4, <1>5, <1>6, <1>7, <1>8 DEF Next, SubStep, Connect, Faulty

-----------------------------------------------------------------------------
(* The types. *)

ServerTypes ==
    /\ pc \in [Sub -> Holding \cup {"free"}]
    /\ cursor \in [Sub -> Nat]
    /\ buffer \in [Sub -> Seq(Nat)]

LinkTypes ==
    /\ wire \in [Sub -> Seq(Message)]
    /\ conn \in [Client -> Sub \cup {None}]
    /\ source \in [Client -> {"connecting", "open", "closed", "failed"}]
    /\ after \in [Client -> Nat] /\ lastId \in [Client -> Nat]

PageTypes ==
    /\ fetch \in [Client -> {"idle", "asked", "read", "error"}]
    /\ fetched \in [Client -> SUBSET (1..MaxEvents)]
    /\ loaded \in [Client -> BOOLEAN]
    /\ snapshot \in [Client -> SUBSET (1..MaxEvents)]
    /\ live \in [Client -> Seq(1..MaxEvents)]
    /\ seen \in [Client -> {"unknown", "running", "terminal"}]
    /\ ended \in [Client -> BOOLEAN]

LEMMA TypeParts ==
    TypeOK <=> /\ last \in 0..MaxEvents /\ outcome \in 0..MaxEvents
               /\ permits \in 0..MaxSubscriptions
               /\ ServerTypes /\ LinkTypes /\ PageTypes
               /\ faults \in 0..MaxFaults
BY DEF TypeOK, ServerTypes, LinkTypes, PageTypes

LEMMA MessageTypes ==
    /\ \A n \in Nat : Event(n) \in Message
    /\ End \in Message /\ StreamError \in Message
BY DEF Message, Event, End, StreamError

LEMMA ServerKeepsTypes ==
    ASSUME Inv, NEW s \in Sub,
           \/ Listen(s) \/ NextEvent(s) \/ CheckStatus(s) \/ Wait(s)
           \/ ReceiveFails(s) \/ Disconnected(s) \/ Close(s) \/ ListenFails(s)
           \/ \E c \in Client : Open(c, s)
    PROVE  ServerTypes'
<1>1. ServerTypes
    BY TypeParts DEF Inv
<1>2. PICK l : l \in Holding \cup {"free"} /\ pc' = [pc EXCEPT ![s] = l]
    BY DEF Listen, NextEvent, CheckStatus, Wait, ReceiveFails, Disconnected, Close, ListenFails,
           Open, Discard, Goto, Holding, Receiving
<1>3. pc' \in [Sub -> Holding \cup {"free"}]
    BY <1>1, <1>2 DEF ServerTypes
<1>4. cursor' \in [Sub -> Nat] /\ buffer' \in [Sub -> Seq(Nat)]
    <2>1. CASE NextEvent(s) /\ Refill(s) # <<>>
        <3>1. Refill(s) \in Seq(Nat) /\ Refill(s) # <<>>
            BY <2>1, RefillReadsOn DEF Inv
        <3>2. Head(Refill(s)) \in Nat /\ Tail(Refill(s)) \in Seq(Nat)
            BY <3>1
        <3>3. /\ cursor' = [cursor EXCEPT ![s] = Head(Refill(s))]
              /\ buffer' = [buffer EXCEPT ![s] = Tail(Refill(s))]
            BY <2>1 DEF NextEvent
        <3> QED BY <1>1, <3>2, <3>3 DEF ServerTypes
    <2>2. CASE \E c \in Client : Open(c, s)
        <3>1. PICK c \in Client : Open(c, s)
            BY <2>2
        <3>2. Start(c) \in Nat
            BY StartIsRead DEF Inv
        <3>3. cursor' = [cursor EXCEPT ![s] = Start(c)] /\ buffer' = [buffer EXCEPT ![s] = <<>>]
            BY <3>1 DEF Open
        <3> QED BY <1>1, <3>2, <3>3 DEF ServerTypes
    <2>3. CASE Close(s) \/ ListenFails(s)
        <3>1. cursor' = [cursor EXCEPT ![s] = 0] /\ buffer' = [buffer EXCEPT ![s] = <<>>]
            BY <2>3 DEF Close, ListenFails, Discard
        <3>2. <<>> \in Seq(Nat) /\ 0 \in Nat
            OBVIOUS
        <3> QED BY <1>1, <3>1, <3>2 DEF ServerTypes
    <2>4. CASE cursor' = cursor /\ buffer' = buffer
        BY <1>1, <2>4 DEF ServerTypes
    <2> QED BY <2>1, <2>2, <2>3, <2>4
            DEF Listen, NextEvent, CheckStatus, Wait, ReceiveFails, Disconnected
<1> QED BY <1>3, <1>4 DEF ServerTypes

LEMMA SendTypes ==
    ASSUME LinkTypes, NEW s \in Sub, NEW m \in Message, Send(s, m)
    PROVE  wire' \in [Sub -> Seq(Message)]
BY DEF Send, LinkTypes

LEMMA ServerKeepsLinkTypes ==
    ASSUME Inv, NEW s \in Sub,
           \/ Listen(s) \/ NextEvent(s) \/ CheckStatus(s) \/ Wait(s)
           \/ ReceiveFails(s) \/ Disconnected(s) \/ Close(s) \/ ListenFails(s)
           \/ \E c \in Client : Open(c, s)
    PROVE  LinkTypes'
<1>1. LinkTypes
    BY TypeParts DEF Inv
<1>2. CASE NextEvent(s) /\ Refill(s) # <<>>
    <2>1. Refill(s) \in Seq(Nat) /\ Refill(s) # <<>>
        BY <1>2, RefillReadsOn DEF Inv
    <2>2. Event(Head(Refill(s))) \in Message
        BY <2>1, MessageTypes
    <2>3. Send(s, Event(Head(Refill(s))))
        BY <1>2 DEF NextEvent
    <2>4. wire' \in [Sub -> Seq(Message)]
        BY <1>1, <2>2, <2>3, SendTypes
    <2> QED BY <1>1, <1>2, <2>4 DEF NextEvent, LinkTypes
<1>3. CASE CheckStatus(s) \/ ReceiveFails(s)
    <2>1. Send(s, End) \/ Send(s, StreamError) \/ wire' = wire
        BY <1>3 DEF CheckStatus, ReceiveFails
    <2>2. wire' \in [Sub -> Seq(Message)]
        <3>1. CASE wire' = wire
            BY <1>1, <3>1 DEF LinkTypes
        <3>2. CASE Send(s, End) \/ Send(s, StreamError)
            BY <1>1, <3>2, MessageTypes, SendTypes
        <3> QED BY <2>1, <3>1, <3>2
    <2>3. UNCHANGED <<conn, source, after, lastId>>
        BY <1>3 DEF CheckStatus, ReceiveFails
    <2> QED BY <1>1, <2>2, <2>3 DEF LinkTypes
<1>4. CASE \E c \in Client : Open(c, s)
    BY <1>1, <1>4 DEF Open, LinkTypes
<1>5. CASE Listen(s) \/ ListenFails(s)
    BY <1>1, <1>5 DEF Listen, ListenFails, LinkTypes
<1>6. CASE UNCHANGED link
    BY <1>1, <1>6 DEF link, LinkTypes
<1> QED BY <1>2, <1>3, <1>4, <1>5, <1>6
        DEF NextEvent, CheckStatus, Wait, ReceiveFails, Disconnected, Close, link

-----------------------------------------------------------------------------
(* What the steps of a page find. *)

LEMMA PageFacts ==
    ASSUME Inv, NEW c \in Client
    PROVE  /\ after[c] \in 0..last /\ lastId[c] \in 0..last /\ Read(c) \in 0..last
           /\ after[c] <= Read(c)
           /\ last \in Nat /\ last <= MaxEvents
           /\ snapshot[c] = Rows(after[c]) /\ Newest(snapshot[c]) = after[c]
<1>1. after[c] \in Nat /\ lastId[c] \in Nat /\ last \in Nat /\ last <= MaxEvents
    BY DEF Inv, TypeOK
<1>2. after[c] <= last /\ lastId[c] <= last
    BY DEF Inv, LinkInv
<1>3. snapshot[c] = Rows(after[c])
    BY DEF Inv, QueryInv, QueryOf
<1> QED BY <1>1, <1>2, <1>3, NewestOfRows DEF Read

LEMMA FetchedIsRows ==
    ASSUME Inv, NEW c \in Client, fetch[c] = "read"
    PROVE  /\ Newest(fetched[c]) \in after[c]..last
           /\ fetched[c] = Rows(Newest(fetched[c]))
           /\ ended[c] => outcome <= Newest(fetched[c])
<1>1. PICK f \in after[c]..last : fetched[c] = Rows(f) /\ (ended[c] => outcome <= f)
    BY DEF Inv, QueryInv, QueryOf
<1>2. f \in Nat
    BY PageFacts
<1>3. Newest(fetched[c]) = f
    BY <1>1, <1>2, NewestOfRows
<1> QED BY <1>1, <1>3

LEMMA NextOnWire ==
    ASSUME Inv, NEW c \in Client, Unread(c, "event")
    PROVE  /\ conn[c] \in Sub /\ wire[conn[c]] \in Seq(Message) /\ wire[conn[c]] # <<>>
           /\ Head(wire[conn[c]]).id = Read(c) + 1
           /\ Read(c) + 1 \in 1..last
           /\ Active(c)
<1> DEFINE s == conn[c]
<1>1. conn[c] \in Sub /\ wire[s] \in Seq(Message) /\ wire[s] # <<>> /\ Head(wire[s]).kind = "event"
    BY DEF Unread, Inv, TypeOK
<1>2. PICK sent \in 0..Len(wire[s]) : OnWire(c, sent)
    BY <1>1 DEF Unread, Inv, WireInv, WireOf
<1>3. 1 \in DOMAIN wire[s] /\ wire[s][1] = Head(wire[s])
    BY <1>1
<1>4. 1 <= sent
    BY <1>1, <1>2, <1>3 DEF OnWire
<1>5. 1 \in 1..sent
    BY <1>2, <1>4
<1>6. wire[s][1].id = Read(c) + 1 /\ Read(c) + sent <= last
    BY <1>2, <1>5 DEF OnWire
<1>7. Active(c)
    BY DEF Unread, Inv, LinkInv
<1>8. Read(c) \in Nat /\ last \in Nat
    BY PageFacts
<1>9. Read(c) + 1 \in 1..last
    BY <1>2, <1>4, <1>6, <1>8
<1> QED BY <1>1, <1>3, <1>6, <1>7, <1>9

\* A hangup, in the effect or without it.
LEMMA HangupTypes ==
    ASSUME LinkTypes, NEW c \in Client, Hangup(c)
    PROVE  /\ wire' \in [Sub -> Seq(Message)] /\ conn' \in [Client -> Sub \cup {None}]
           /\ conn' = [conn EXCEPT ![c] = None]
           /\ \A s \in Sub : s # conn[c] => wire'[s] = wire[s]
<1>1. conn' = [conn EXCEPT ![c] = None]
    BY DEF Hangup
<1>2. CASE conn[c] = None
    BY <1>1, <1>2 DEF Hangup, LinkTypes
<1>3. CASE conn[c] # None
    <2>1. conn[c] \in Sub /\ wire' = [wire EXCEPT ![conn[c]] = <<>>]
        BY <1>3 DEF Hangup, LinkTypes
    <2>2. <<>> \in Seq(Message)
        OBVIOUS
    <2> QED BY <1>1, <2>1, <2>2 DEF LinkTypes
<1> QED BY <1>2, <1>3

LEMMA EffectTypes ==
    ASSUME LinkTypes, NEW c \in Client, NEW status, NEW items, NEW over,
           Newest(items) \in Nat, Effect(c, status, items, over)
    PROVE  LinkTypes'
<1>1. Hangup(c)
    BY DEF Effect
<1>2. wire' \in [Sub -> Seq(Message)] /\ conn' \in [Client -> Sub \cup {None}]
    BY <1>1, HangupTypes
<1>3. /\ source' \in [Client -> {"connecting", "open", "closed", "failed"}]
      /\ after' \in [Client -> Nat] /\ lastId' \in [Client -> Nat]
    BY DEF Effect, LinkTypes
<1> QED BY <1>2, <1>3 DEF LinkTypes

LEMMA LiveItemsTypes ==
    ASSUME Inv, NEW c \in Client, NEW n \in 1..MaxEvents
    PROVE  LiveItems(live[c], n) \in Seq(1..MaxEvents)
<1>1. live[c] \in Seq(1..MaxEvents) /\ Len(live[c]) <= Window
    BY DEF Inv, TypeOK, LiveInv, LiveOf
<1> QED BY <1>1, LiveItemsKnown, LiveItemsNew

LEMMA PageKeepsTypes ==
    ASSUME Inv, NEW c \in Client,
           \/ OpenBusy(c) \/ PageStep(c) \/ PollStatus(c)
           \/ FetchFails(c) \/ Drop(c) \/ Remount(c)
    PROVE  LinkTypes' /\ PageTypes'
<1>0. LinkTypes /\ PageTypes /\ last \in 0..MaxEvents
    BY TypeParts DEF Inv
<1>1. CASE OpenBusy(c)
    BY <1>0, <1>1 DEF OpenBusy, LinkTypes, PageTypes, page, query
<1>2. CASE ReadEvents(c)
    <2>1. Latest(1..last) \in SUBSET (1..MaxEvents)
        BY <1>0 DEF Latest
    <2> QED BY <1>0, <1>2, <2>1 DEF ReadEvents, LinkTypes, PageTypes, link
<1>3. CASE ApplyEvents(c)
    <2>1. LinkTypes'
        <3>1. CASE UNCHANGED link
            BY <1>0, <3>1 DEF link, LinkTypes
        <3>2. CASE Effect(c, seen[c], fetched[c], ended[c])
            <4>1. Newest(fetched[c]) \in Nat
                BY <1>3, FetchedIsRows, PageFacts DEF ApplyEvents
            <4> QED BY <1>0, <3>2, <4>1, EffectTypes
        <3> QED BY <1>3, <3>1, <3>2 DEF ApplyEvents
    <2>2. fetched[c] \in SUBSET (1..MaxEvents) /\ {} \in SUBSET (1..MaxEvents)
        BY <1>0 DEF PageTypes
    <2>3. PageTypes'
        BY <1>0, <1>3, <2>2 DEF ApplyEvents, PageTypes
    <2> QED BY <2>1, <2>3
<1>4. CASE OnEvent(c)
    <2>1. /\ conn[c] \in Sub /\ wire[conn[c]] \in Seq(Message) /\ wire[conn[c]] # <<>>
          /\ Head(wire[conn[c]]).id \in 1..last
        BY <1>4, NextOnWire DEF OnEvent
    <2>2. Tail(wire[conn[c]]) \in Seq(Message)
        BY <2>1
    <2>3. Head(wire[conn[c]]).id \in 1..MaxEvents
        BY <1>0, <2>1
    <2>4. LiveItems(live[c], Head(wire[conn[c]]).id) \in Seq(1..MaxEvents)
        BY <2>3, LiveItemsTypes
    <2>5. LinkTypes'
        BY <1>0, <1>4, <2>1, <2>2 DEF OnEvent, LinkTypes
    <2>6. PageTypes'
        BY <1>0, <1>4, <2>4 DEF OnEvent, PageTypes, query
    <2> QED BY <2>5, <2>6
<1>5. CASE OnEnd(c) \/ OnStreamError(c) \/ Drop(c)
    <2>1. Hangup(c) /\ after' = after /\ lastId' = lastId
        BY <1>5 DEF OnEnd, OnStreamError, Drop
    <2>2. wire' \in [Sub -> Seq(Message)] /\ conn' \in [Client -> Sub \cup {None}]
        BY <1>0, <2>1, HangupTypes
    <2>3. source' \in [Client -> {"connecting", "open", "closed", "failed"}]
        BY <1>0, <1>5 DEF OnEnd, OnStreamError, Drop, LinkTypes
    <2>4. LinkTypes'
        BY <1>0, <2>1, <2>2, <2>3 DEF LinkTypes
    <2>5. PageTypes'
        BY <1>0, <1>5 DEF OnEnd, OnStreamError, Drop, PageTypes, page, query
    <2> QED BY <2>4, <2>5
<1>6. CASE PollStatus(c)
    <2>1. LinkTypes'
        <3>1. CASE UNCHANGED link
            BY <1>0, <3>1 DEF link, LinkTypes
        <3>2. ASSUME NEW status, Effect(c, status, snapshot[c], ended[c])
              PROVE  LinkTypes'
            BY <1>0, <3>2, EffectTypes, PageFacts
        <3> QED BY <1>6, <3>1, <3>2 DEF PollStatus
    <2>2. PageTypes'
        BY <1>0, <1>6 DEF PollStatus, PageTypes, query
    <2> QED BY <2>1, <2>2
<1>7. CASE FetchFails(c)
    BY <1>0, <1>7 DEF FetchFails, LinkTypes, PageTypes, link
<1>8. CASE Remount(c)
    <2>1. Effect(c, seen[c], snapshot[c], FALSE)
        BY <1>8 DEF Remount
    <2>2. LinkTypes'
        <3>1. Newest(snapshot[c]) \in Nat
            BY PageFacts
        <3>2. PICK over : over = FALSE
            OBVIOUS
        <3>3. Effect(c, seen[c], snapshot[c], over)
            BY <2>1, <3>2
        <3> QED BY <1>0, <3>1, <3>3, EffectTypes
    <2>3. <<>> \in Seq(1..MaxEvents)
        OBVIOUS
    <2>4. PageTypes'
        BY <1>0, <1>8, <2>3 DEF Remount, PageTypes
    <2> QED BY <2>2, <2>4
<1> QED BY <1>1, <1>2, <1>3, <1>4, <1>5, <1>6, <1>7, <1>8 DEF PageStep

LEMMA NextTypes ==
    ASSUME Inv, Next
    PROVE  TypeOK'
<1>0. /\ last \in 0..MaxEvents /\ outcome \in 0..MaxEvents /\ faults \in 0..MaxFaults
      /\ ServerTypes /\ LinkTypes /\ PageTypes
    BY TypeParts DEF Inv
<1>1. permits' \in 0..MaxSubscriptions
    BY NextPermits
<1>2. /\ last' \in 0..MaxEvents /\ outcome' \in 0..MaxEvents /\ faults' \in 0..MaxFaults
    <2>1. CASE InsertEvent \/ Settle
        BY <1>0, <2>1 DEF InsertEvent, Settle
    <2>2. ASSUME UNCHANGED rows, faults' = faults \/ Fault
          PROVE  /\ last' \in 0..MaxEvents /\ outcome' \in 0..MaxEvents
                 /\ faults' \in 0..MaxFaults
        BY <1>0, <2>2 DEF rows, Fault
    <2>3. ASSUME NEW s \in Sub,
                 \/ SubStep(s) \/ ReceiveFails(s) \/ ListenFails(s) \/ \E c \in Client : Open(c, s)
          PROVE  UNCHANGED rows /\ (faults' = faults \/ Fault)
        BY <2>3 DEF SubStep, Listen, NextEvent, CheckStatus, Wait, Disconnected, Close,
                    ReceiveFails, ListenFails, Open
    <2>4. ASSUME NEW c \in Client,
                 \/ OpenBusy(c) \/ PageStep(c) \/ PollStatus(c)
                 \/ FetchFails(c) \/ Drop(c) \/ Remount(c)
          PROVE  UNCHANGED rows /\ (faults' = faults \/ Fault)
        BY <2>4 DEF OpenBusy, PageStep, ReadEvents, ApplyEvents, OnEvent, OnEnd, OnStreamError,
                    PollStatus, FetchFails, Drop, Remount
    <2>5. CASE Restart
        BY <2>2, <2>5 DEF Restart
    <2> QED BY <2>1, <2>2, <2>3, <2>4, <2>5 DEF Next, Connect, Faulty
<1>3. ServerTypes' /\ LinkTypes' /\ PageTypes'
    <2>1. ASSUME NEW s \in Sub,
                 \/ SubStep(s) \/ ReceiveFails(s) \/ ListenFails(s) \/ \E c \in Client : Open(c, s)
          PROVE  ServerTypes' /\ LinkTypes' /\ PageTypes'
        <3>1. UNCHANGED page
            BY <2>1 DEF SubStep, Listen, NextEvent, CheckStatus, Wait, Disconnected, Close,
                        ReceiveFails, ListenFails, Open, link
        <3>2. PageTypes'
            BY <1>0, <3>1 DEF PageTypes, page, query
        <3> QED BY <2>1, <3>2, ServerKeepsTypes, ServerKeepsLinkTypes DEF SubStep
    <2>2. ASSUME NEW c \in Client,
                 \/ OpenBusy(c) \/ PageStep(c) \/ PollStatus(c)
                 \/ FetchFails(c) \/ Drop(c) \/ Remount(c)
          PROVE  ServerTypes' /\ LinkTypes' /\ PageTypes'
        <3>1. UNCHANGED server
            BY <2>2 DEF OpenBusy, PageStep, ReadEvents, ApplyEvents, OnEvent, OnEnd,
                        OnStreamError, PollStatus, FetchFails, Drop, Remount
        <3>2. ServerTypes'
            BY <1>0, <3>1 DEF ServerTypes, server
        <3> QED BY <2>2, <3>2, PageKeepsTypes
    <2>3. CASE InsertEvent \/ Settle
        BY <1>0, <2>3 DEF InsertEvent, Settle, server, link, page, query,
                          ServerTypes, LinkTypes, PageTypes
    <2>4. CASE Restart
        <3>1. <<>> \in Seq(Message) /\ <<>> \in Seq(Nat)
            OBVIOUS
        <3>2. ServerTypes'
            BY <1>0, <2>4, <3>1 DEF Restart, ServerTypes
        <3>3. LinkTypes'
            BY <1>0, <2>4, <3>1 DEF Restart, LinkTypes
        <3>4. PageTypes'
            BY <1>0, <2>4 DEF Restart, PageTypes, page, query
        <3> QED BY <3>2, <3>3, <3>4
    <2> QED BY <2>1, <2>2, <2>3, <2>4 DEF Next, Connect, Faulty
<1> QED BY <1>1, <1>2, <1>3 DEF TypeOK, ServerTypes, LinkTypes, PageTypes

-----------------------------------------------------------------------------
(* What the actors leave alone. *)

LEMMA RowsGrow ==
    ASSUME Inv, InsertEvent \/ Settle
    PROVE  /\ last' = last + 1 /\ last \in Nat
           /\ outcome' <= last' /\ (outcome # 0 => outcome' = outcome)
           /\ UNCHANGED <<server, link, page>>
BY DEF InsertEvent, Settle, Inv, TypeOK, QueryInv

LEMMA ServerFrame ==
    ASSUME NEW s \in Sub,
           \/ SubStep(s) \/ ReceiveFails(s) \/ ListenFails(s) \/ \E c \in Client : Open(c, s)
    PROVE  UNCHANGED <<rows, after, lastId, page>>
BY DEF SubStep, Listen, NextEvent, CheckStatus, Wait, Disconnected, Close, ReceiveFails,
       ListenFails, Open, link

LEMMA PageFrame ==
    ASSUME NEW c \in Client,
           \/ OpenBusy(c) \/ PageStep(c) \/ PollStatus(c)
           \/ FetchFails(c) \/ Drop(c) \/ Remount(c)
    PROVE  UNCHANGED <<rows, server>>
BY DEF OpenBusy, PageStep, ReadEvents, ApplyEvents, OnEvent, OnEnd, OnStreamError, PollStatus,
       FetchFails, Drop, Remount

LEMMA NextCases ==
    ASSUME Next
    PROVE  \/ InsertEvent \/ Settle \/ Restart
           \/ \E s \in Sub :
                SubStep(s) \/ ReceiveFails(s) \/ ListenFails(s) \/ \E c \in Client : Open(c, s)
           \/ \E c \in Client :
                \/ OpenBusy(c) \/ PageStep(c) \/ PollStatus(c)
                \/ FetchFails(c) \/ Drop(c) \/ Remount(c)
BY DEF Next, Connect, Faulty

-----------------------------------------------------------------------------
(* The subscriptions. *)

LEMMA NextSub ==
    ASSUME Inv, Next
    PROVE  SubInv'
<1>0. TypeOK /\ SubInv
    BY DEF Inv
<1>1. CASE InsertEvent \/ Settle
    <2>1. last' = last + 1 /\ UNCHANGED server
        BY <1>1, RowsGrow
    <2>2. last \in Nat /\ cursor \in [Sub -> Nat] /\ \A s \in Sub : Len(buffer[s]) \in Nat
        BY <1>0 DEF TypeOK
    <2> QED BY <1>0, <2>1, <2>2 DEF SubInv, server
<1>2. ASSUME NEW c \in Client,
             \/ OpenBusy(c) \/ PageStep(c) \/ PollStatus(c)
             \/ FetchFails(c) \/ Drop(c) \/ Remount(c)
      PROVE  SubInv'
    BY <1>0, <1>2, PageFrame DEF SubInv, server, rows
<1>3. CASE Restart
    <2>1. last' = last /\ last \in Nat
        BY <1>0, <1>3 DEF Restart, rows, TypeOK
    <2> QED BY <1>3, <2>1 DEF Restart, SubInv
<1>4. ASSUME NEW s \in Sub,
             \/ SubStep(s) \/ ReceiveFails(s) \/ ListenFails(s) \/ \E c \in Client : Open(c, s)
      PROVE  SubInv'
    <2>0. last' = last
        BY <1>4, ServerFrame DEF rows
    <2>1. /\ pc \in [Sub -> Holding \cup {"free"}] /\ cursor \in [Sub -> Nat]
          /\ buffer \in [Sub -> Seq(Nat)] /\ last \in Nat
        BY <1>0 DEF TypeOK
    <2>2. CASE NextEvent(s) /\ Refill(s) # <<>>
        <3> DEFINE ahead == Refill(s)
        <3>1. /\ ahead \in Seq(Nat) /\ cursor[s] + Len(ahead) <= last /\ ahead # <<>>
              /\ \A i \in DOMAIN ahead : ahead[i] = cursor[s] + i
            BY <1>0, <2>2, RefillReadsOn
        <3>2. /\ pc' = [pc EXCEPT ![s] = "next"]
              /\ cursor' = [cursor EXCEPT ![s] = Head(ahead)]
              /\ buffer' = [buffer EXCEPT ![s] = Tail(ahead)]
            BY <2>2 DEF NextEvent, Goto
        <3> HIDE DEF ahead
        <3>3. /\ Head(ahead) = cursor[s] + 1 /\ Len(Tail(ahead)) = Len(ahead) - 1
              /\ \A i \in DOMAIN Tail(ahead) : Tail(ahead)[i] = Head(ahead) + i
            <4>1. 1 \in DOMAIN ahead /\ Head(ahead) = ahead[1] /\ cursor[s] \in Nat
                BY <2>1, <3>1
            <4>2. Len(Tail(ahead)) = Len(ahead) - 1
                BY <3>1
            <4>3. ASSUME NEW i \in DOMAIN Tail(ahead)
                  PROVE  Tail(ahead)[i] = ahead[i + 1] /\ i + 1 \in DOMAIN ahead /\ i \in Nat
                BY <3>1, <4>3
            <4>4. Head(ahead) = cursor[s] + 1
                BY <3>1, <4>1
            <4>5. ASSUME NEW i \in DOMAIN Tail(ahead)
                  PROVE  Tail(ahead)[i] = Head(ahead) + i
                <5>1. Tail(ahead)[i] = cursor[s] + (i + 1) /\ i \in Nat
                    BY <3>1, <4>3
                <5> QED BY <4>1, <4>4, <5>1
            <4> QED BY <4>2, <4>4, <4>5
        <3>4. cursor'[s] + Len(buffer'[s]) <= last
            BY <2>1, <3>1, <3>2, <3>3
        <3>5. \A i \in DOMAIN buffer'[s] : buffer'[s][i] = cursor'[s] + i
            BY <2>1, <3>2, <3>3
        <3>6. pc'[s] # "free"
            BY <2>1, <3>2
        <3>7. \A r \in Sub : r # s => pc'[r] = pc[r] /\ cursor'[r] = cursor[r] /\ buffer'[r] = buffer[r]
            BY <2>1, <3>2
        <3> QED BY <1>0, <2>0, <3>4, <3>5, <3>6, <3>7 DEF SubInv
    <2>3. CASE \E c \in Client : Open(c, s)
        <3>1. PICK c \in Client : Open(c, s)
            BY <2>3
        <3>2. Start(c) \in Nat /\ Start(c) <= last
            BY <1>0, StartIsRead, PageFacts
        <3>3. /\ pc' = [pc EXCEPT ![s] = "listen"]
              /\ cursor' = [cursor EXCEPT ![s] = Start(c)] /\ buffer' = [buffer EXCEPT ![s] = <<>>]
            BY <3>1 DEF Open, Goto
        <3> QED BY <1>0, <2>0, <2>1, <3>2, <3>3 DEF SubInv
    <2>4. CASE Close(s) \/ ListenFails(s)
        <3>1. /\ pc' = [pc EXCEPT ![s] = "free"]
              /\ cursor' = [cursor EXCEPT ![s] = 0] /\ buffer' = [buffer EXCEPT ![s] = <<>>]
            BY <2>4 DEF Close, ListenFails, Discard, Goto
        <3> QED BY <1>0, <2>0, <2>1, <3>1 DEF SubInv
    <2>5. ASSUME cursor' = cursor, buffer' = buffer, NEW l, l # "free", pc' = [pc EXCEPT ![s] = l]
          PROVE  SubInv'
        BY <1>0, <2>0, <2>1, <2>5 DEF SubInv
    <2>6. CASE NextEvent(s) /\ Refill(s) = <<>>
        BY <2>5, <2>6 DEF NextEvent, Goto
    <2>7. CASE Listen(s) \/ CheckStatus(s) \/ Wait(s) \/ Disconnected(s) \/ ReceiveFails(s)
        BY <2>5, <2>7 DEF Listen, CheckStatus, Wait, Disconnected, ReceiveFails, Goto
    <2> QED BY <1>4, <2>2, <2>3, <2>4, <2>6, <2>7 DEF SubStep
<1> QED BY <1>1, <1>2, <1>3, <1>4, NextCases

-----------------------------------------------------------------------------
(* The links. *)

\* The effect, when the data are the rows up to n.
LEMMA EffectIs ==
    ASSUME Inv, NEW c \in Client, NEW status, NEW items, NEW over \in BOOLEAN,
           Newest(items) \in Nat, Effect(c, status, items, over)
    PROVE  /\ conn' = [conn EXCEPT ![c] = None]
           /\ \A s \in Sub : s # conn[c] => wire'[s] = wire[s]
           /\ after' = [after EXCEPT ![c] = Newest(items)]
           /\ lastId' = [lastId EXCEPT ![c] = 0]
           /\ source' = [source EXCEPT ![c] =
                            IF status = "running" /\ ~over THEN "connecting" ELSE "closed"]
           /\ Read(c)' = Newest(items)
<1>1. LinkTypes
    BY TypeParts DEF Inv
<1>2. Hangup(c)
    BY DEF Effect
<1>3. /\ conn' = [conn EXCEPT ![c] = None]
      /\ \A s \in Sub : s # conn[c] => wire'[s] = wire[s]
    BY <1>1, <1>2, HangupTypes
<1>4. /\ after' = [after EXCEPT ![c] = Newest(items)]
      /\ lastId' = [lastId EXCEPT ![c] = 0]
      /\ source' = [source EXCEPT ![c] =
                       IF status = "running" /\ ~over THEN "connecting" ELSE "closed"]
    BY DEF Effect
<1>5. after'[c] = Newest(items) /\ lastId'[c] = 0
    BY <1>1, <1>4 DEF LinkTypes
<1>6. Read(c)' = Newest(items)
    BY <1>5 DEF Read
<1> QED BY <1>3, <1>4, <1>6

LEMMA NextLink ==
    ASSUME Inv, Next
    PROVE  LinkInv'
<1>0. TypeOK /\ LinkInv
    BY DEF Inv
<1>1. CASE InsertEvent \/ Settle
    <2>1. last' = last + 1 /\ last \in Nat /\ UNCHANGED <<link, page>>
        BY <1>1, RowsGrow
    <2>2. after \in [Client -> Nat] /\ lastId \in [Client -> Nat]
        BY <1>0 DEF TypeOK
    <2> QED BY <1>0, <2>1, <2>2 DEF LinkInv, Active, link, page, query
<1>2. CASE Restart
    <2>1. conn \in [Client -> Sub \cup {None}] /\ source \in [Client -> {"connecting", "open", "closed", "failed"}]
        BY <1>0 DEF TypeOK
    <2> QED BY <1>0, <1>2, <2>1 DEF Restart, LinkInv, Active, page, query, rows
<1>3. ASSUME NEW s \in Sub,
             \/ SubStep(s) \/ ReceiveFails(s) \/ ListenFails(s) \/ \E c \in Client : Open(c, s)
      PROVE  LinkInv'
    <2>0. last' = last /\ after' = after /\ lastId' = lastId /\ \A c \in Client : Active(c)' = Active(c)
        BY <1>3, ServerFrame DEF rows, page, query, Active
    <2>1. /\ conn \in [Client -> Sub \cup {None}]
          /\ source \in [Client -> {"connecting", "open", "closed", "failed"}]
        BY <1>0 DEF TypeOK
    <2>2. CASE \E c \in Client : Open(c, s)
        BY <1>0, <2>0, <2>1, <2>2 DEF Open, Served, LinkInv
    <2>3. CASE Listen(s) \/ ListenFails(s)
        BY <1>0, <2>0, <2>1, <2>3 DEF Listen, ListenFails, LinkInv
    <2>4. CASE UNCHANGED <<conn, source>>
        BY <1>0, <2>0, <2>4 DEF LinkInv
    <2> QED BY <1>3, <2>2, <2>3, <2>4
            DEF SubStep, NextEvent, CheckStatus, Wait, Disconnected, Close, ReceiveFails, link
<1>4. ASSUME NEW c \in Client,
             \/ OpenBusy(c) \/ PageStep(c) \/ PollStatus(c)
             \/ FetchFails(c) \/ Drop(c) \/ Remount(c)
      PROVE  LinkInv'
    <2>0. last' = last /\ last \in Nat
        BY <1>0, <1>4, PageFrame DEF rows, TypeOK
    <2>1. LinkTypes /\ PageTypes
        BY <1>0, TypeParts
    <2>2. ASSUME UNCHANGED link, \A d \in Client : Active(d)' = Active(d)
          PROVE  LinkInv'
        BY <1>0, <2>0, <2>2 DEF LinkInv, link
    <2>3. ASSUME NEW status, NEW items, NEW over \in BOOLEAN,
                 Newest(items) \in 0..last, Effect(c, status, items, over),
                 Active(c)' <=> (status = "running" /\ ~over),
                 \A d \in Client : d # c => Active(d)' = Active(d)
          PROVE  LinkInv'
        <3>1. /\ conn' = [conn EXCEPT ![c] = None]
              /\ after' = [after EXCEPT ![c] = Newest(items)]
              /\ lastId' = [lastId EXCEPT ![c] = 0]
              /\ source' = [source EXCEPT ![c] =
                            IF status = "running" /\ ~over THEN "connecting" ELSE "closed"]
            BY <2>0, <2>3, EffectIs
        <3>2. \A d \in Client : d # c => /\ conn'[d] = conn[d] /\ after'[d] = after[d]
                                         /\ lastId'[d] = lastId[d] /\ source'[d] = source[d]
            BY <2>1, <3>1 DEF LinkTypes
        <3>3. /\ conn'[c] = None /\ after'[c] <= last /\ lastId'[c] <= last
              /\ ~Active(c)' => source'[c] = "closed"
            <4>1. conn'[c] = None /\ after'[c] = Newest(items) /\ lastId'[c] = 0
                BY <2>1, <3>1 DEF LinkTypes
            <4>2. source'[c] = IF status = "running" /\ ~over THEN "connecting" ELSE "closed"
                BY <2>1, <3>1 DEF LinkTypes
            <4>3. after'[c] <= last /\ lastId'[c] <= last
                BY <2>0, <2>3, <4>1
            <4>4. ~Active(c)' => source'[c] = "closed"
                BY <2>3, <4>2, Zenon
            <4> QED BY <4>1, <4>3, <4>4
        <3> QED BY <1>0, <2>0, <2>3, <3>2, <3>3 DEF LinkInv
    <2>4. CASE OpenBusy(c)
        BY <1>0, <2>0, <2>1, <2>4 DEF OpenBusy, LinkInv, Active, page, query, LinkTypes
    <2>5. CASE ReadEvents(c) \/ FetchFails(c)
        BY <2>2, <2>5 DEF ReadEvents, FetchFails, Active
    <2>6. CASE ApplyEvents(c)
        <3>1. \A d \in Client : d # c => Active(d)' = Active(d)
            BY <2>1, <2>6 DEF ApplyEvents, Active, PageTypes
        <3>2. CASE loaded[c] /\ fetched[c] = snapshot[c]
            <4>1. Active(c)' = Active(c)
                BY <2>1, <2>6, <3>2 DEF ApplyEvents, Active, PageTypes
            <4> QED BY <2>2, <2>6, <3>1, <3>2, <4>1 DEF ApplyEvents
        <3>3. CASE ~(loaded[c] /\ fetched[c] = snapshot[c])
            <4>1. Effect(c, seen[c], fetched[c], ended[c])
                BY <2>6, <3>3 DEF ApplyEvents
            <4>2. Active(c)' <=> (seen[c] = "running" /\ ~ended[c])
                BY <2>1, <2>6 DEF ApplyEvents, Active, PageTypes
            <4>3. Newest(fetched[c]) \in 0..last
                BY <2>6, FetchedIsRows, PageFacts DEF ApplyEvents
            <4>4. ended[c] \in BOOLEAN
                BY <2>1 DEF PageTypes
            <4> QED BY <2>3, <3>1, <4>1, <4>2, <4>3, <4>4
        <3> QED BY <3>2, <3>3
    <2>7. CASE OnEvent(c)
        <3>1. Head(wire[conn[c]]).id \in 0..last
            BY <2>0, <2>7, NextOnWire DEF OnEvent
        <3>2. /\ lastId' = [lastId EXCEPT ![c] = Head(wire[conn[c]]).id]
              /\ UNCHANGED <<conn, source, after>> /\ \A d \in Client : Active(d)' = Active(d)
            BY <2>7 DEF OnEvent, Active, query
        <3> QED BY <1>0, <2>0, <2>1, <3>1, <3>2 DEF LinkInv, LinkTypes
    <2>8. CASE OnEnd(c) \/ OnStreamError(c) \/ Drop(c)
        <3>1. conn[c] # None
            BY <2>8 DEF OnEnd, OnStreamError, Drop, Unread
        <3>2. conn' = [conn EXCEPT ![c] = None] /\ after' = after /\ lastId' = lastId
            BY <2>8 DEF OnEnd, OnStreamError, Drop, Hangup
        <3>3. \A d \in Client : d # c => source'[d] = source[d] /\ Active(d)' = Active(d)
            BY <2>1, <2>8 DEF OnEnd, OnStreamError, Drop, Active, LinkTypes, PageTypes, page, query
        <3>4. ~Active(c)' => source'[c] = "closed"
            BY <1>0, <2>1, <2>8, <3>1
               DEF OnEnd, OnStreamError, Drop, Active, LinkTypes, PageTypes, LinkInv, page, query
        <3> QED BY <1>0, <2>0, <2>1, <3>2, <3>3, <3>4 DEF LinkInv, LinkTypes
    <2>9. CASE PollStatus(c)
        <3> DEFINE status == IF outcome = 0 THEN "running" ELSE "terminal"
        <3>1. /\ seen' = [seen EXCEPT ![c] = status] /\ UNCHANGED <<query, ended>>
              /\ status # seen[c] /\ seen[c] # "terminal"
              /\ IF loaded[c] THEN Effect(c, status, snapshot[c], ended[c]) ELSE UNCHANGED link
            BY <2>9 DEF PollStatus
        <3> HIDE DEF status
        <3>2. \A d \in Client : d # c => Active(d)' = Active(d)
            BY <2>1, <3>1 DEF Active, PageTypes, query
        <3>3. CASE ~loaded[c]
            <4>1. Active(c)' = Active(c)
                BY <2>1, <3>1, <3>3 DEF Active, PageTypes, query
            <4> QED BY <2>2, <3>1, <3>2, <3>3, <4>1
        <3>4. CASE loaded[c]
            <4>1. Active(c)' <=> (status = "running" /\ ~ended[c])
                BY <2>1, <3>1, <3>4 DEF Active, PageTypes, query
            <4>2. Newest(snapshot[c]) \in 0..last /\ ended[c] \in BOOLEAN
                BY <2>1, PageFacts DEF PageTypes
            <4> QED BY <2>3, <3>1, <3>2, <3>4, <4>1, <4>2
        <3> QED BY <3>3, <3>4
    <2>10. CASE Remount(c)
        <3>1. /\ loaded[c] /\ ended' = [ended EXCEPT ![c] = FALSE] /\ UNCHANGED <<loaded, seen>>
              /\ Effect(c, seen[c], snapshot[c], FALSE)
            BY <2>10 DEF Remount
        <3>2. \A d \in Client : d # c => Active(d)' = Active(d)
            BY <2>1, <3>1 DEF Active, PageTypes
        <3>3. PICK over \in BOOLEAN : over = FALSE
            OBVIOUS
        <3>4. Active(c)' <=> (seen[c] = "running" /\ ~over)
            BY <2>1, <3>1, <3>3 DEF Active, PageTypes
        <3>5. Newest(snapshot[c]) \in 0..last
            BY PageFacts
        <3>6. Effect(c, seen[c], snapshot[c], over)
            BY <3>1, <3>3
        <3> QED BY <2>3, <3>2, <3>4, <3>5, <3>6
    <2> QED BY <1>4, <2>4, <2>5, <2>6, <2>7, <2>8, <2>9, <2>10 DEF PageStep
<1> QED BY <1>1, <1>2, <1>3, <1>4, NextCases

-----------------------------------------------------------------------------
(* The queries. *)

LEMMA EndIsTold ==
    ASSUME Inv, NEW c \in Client, Unread(c, "end")
    PROVE  outcome # 0
<1> DEFINE s == conn[c]
<1>1. conn[c] # None /\ wire[s] \in Seq(Message) /\ wire[s] # <<>> /\ Head(wire[s]).kind = "end"
    BY DEF Unread, Inv, TypeOK
<1>2. PICK sent \in 0..Len(wire[s]) : OnWire(c, sent)
    BY <1>1 DEF Inv, WireInv, WireOf
<1>3. 1 \in DOMAIN wire[s] /\ wire[s][1].kind = "end"
    BY <1>1
<1> QED BY <1>2, <1>3 DEF OnWire

LEMMA NextQuery ==
    ASSUME Inv, Next
    PROVE  QueryInv'
<1>0. TypeOK /\ QueryInv /\ PageTypes /\ LinkTypes
    BY TypeParts DEF Inv
<1>1. last \in Nat /\ outcome \in Nat /\ outcome <= last /\ \A c \in Client : QueryOf(c)
    BY <1>0 DEF QueryInv, TypeOK
<1>2. SUFFICES outcome' <= last' /\ \A c \in Client : QueryOf(c)'
    BY DEF QueryInv
<1>3. CASE InsertEvent \/ Settle
    <2>1. /\ last' = last + 1 /\ outcome' <= last' /\ (outcome # 0 => outcome' = outcome)
          /\ UNCHANGED <<link, page>>
        BY <1>3, RowsGrow
    <2>2. ASSUME NEW c \in Client
          PROVE  QueryOf(c)'
        <3>0. QueryOf(c) /\ after[c] \in Nat /\ ended[c] \in BOOLEAN
            BY <1>0, <1>1 DEF LinkTypes, PageTypes
        <3>1. UNCHANGED <<snapshot[c], after[c], fetch[c], fetched[c], ended[c]>>
            BY <2>1 DEF link, page, query
        <3>2. fetch[c] = "read" => \E f \in after[c]..last' :
                                fetched[c] = Rows(f) /\ (ended[c] => outcome' <= f)
            <4>1. CASE ~ended[c]
                BY <1>1, <2>1, <3>0, <4>1 DEF QueryOf
            <4>2. CASE ended[c]
                BY <1>1, <2>1, <3>0, <4>2 DEF QueryOf
            <4> QED BY <3>0, <4>1, <4>2
        <3>3. ended[c] => outcome' # 0
            BY <2>1, <3>0 DEF QueryOf
        <3>4. ended[c] /\ fetch[c] = "idle" => outcome' <= after[c]
            BY <2>1, <3>0 DEF QueryOf
        <3>5. Rows(after[c])' = Rows(after[c])
            BY <3>1 DEF Rows
        <3>6. snapshot'[c] = Rows(after[c])'
            BY <3>0, <3>1, <3>5 DEF QueryOf
        <3> QED BY <3>1, <3>2, <3>3, <3>4, <3>6 DEF QueryOf, Rows
    <2> QED BY <2>1, <2>2
<1>4. ASSUME UNCHANGED <<rows, after, page>>
      PROVE  outcome' <= last' /\ \A c \in Client : QueryOf(c)'
    BY <1>1, <1>4 DEF rows, page, query, QueryOf, Rows
<1>5. CASE Restart
    BY <1>4, <1>5 DEF Restart
<1>6. ASSUME NEW s \in Sub,
             \/ SubStep(s) \/ ReceiveFails(s) \/ ListenFails(s) \/ \E c \in Client : Open(c, s)
      PROVE  outcome' <= last' /\ \A c \in Client : QueryOf(c)'
    BY <1>4, <1>6, ServerFrame
<1>7. ASSUME NEW c \in Client,
             \/ OpenBusy(c) \/ PageStep(c) \/ PollStatus(c)
             \/ FetchFails(c) \/ Drop(c) \/ Remount(c)
      PROVE  outcome' <= last' /\ \A d \in Client : QueryOf(d)'
    <2>0. last' = last /\ outcome' = outcome
        BY <1>7, PageFrame DEF rows
    <2>1. ASSUME NEW d \in Client, UNCHANGED <<snapshot[d], after[d], fetch[d], fetched[d], ended[d]>>
          PROVE  QueryOf(d)'
        BY <1>1, <2>0, <2>1 DEF QueryOf, Rows
    <2>2. ASSUME NEW d \in Client, d # c
          PROVE  UNCHANGED <<snapshot[d], after[d], fetch[d], fetched[d], ended[d]>>
        BY <1>0, <1>7, <2>2 DEF OpenBusy, PageStep, ReadEvents, ApplyEvents, OnEvent, OnEnd,
            OnStreamError, PollStatus, FetchFails, Drop, Remount, Effect, link, page, query,
            LinkTypes, PageTypes
    <2>3. QueryOf(c) /\ after[c] \in 0..last /\ Newest(snapshot[c]) = after[c]
        BY <1>1, PageFacts
    <2>4. ASSUME OpenBusy(c) \/ OnEvent(c) \/ OnStreamError(c) \/ Drop(c)
          PROVE  QueryOf(c)'
        BY <2>1, <2>4 DEF OpenBusy, OnEvent, OnStreamError, Drop, page, query
    <2>5. ASSUME ReadEvents(c)
          PROVE  QueryOf(c)'
        <3>1. /\ fetch'[c] = "read" /\ fetched'[c] = Rows(last)
              /\ UNCHANGED <<snapshot[c], after[c], ended[c]>>
            BY <1>0, <1>1, <2>5, LatestOfAll DEF ReadEvents, PageTypes, link
        <3>2. last \in after[c]..last /\ outcome <= last
            BY <1>1, <2>3
        <3> QED BY <2>0, <2>3, <3>1, <3>2 DEF QueryOf, Rows
    <2>6. ASSUME ApplyEvents(c)
          PROVE  QueryOf(c)'
        <3>1. /\ fetch'[c] = "idle" /\ snapshot'[c] = fetched[c] /\ ended'[c] = ended[c]
            BY <1>0, <2>6 DEF ApplyEvents, PageTypes
        <3>2. /\ Newest(fetched[c]) \in after[c]..last
              /\ fetched[c] = Rows(Newest(fetched[c]))
              /\ ended[c] => outcome <= Newest(fetched[c])
            BY <2>6, FetchedIsRows DEF ApplyEvents
        <3>3. after'[c] = Newest(fetched[c])
            <4>1. CASE loaded[c] /\ fetched[c] = snapshot[c]
                BY <2>3, <2>6, <4>1 DEF ApplyEvents, link
            <4>2. CASE ~(loaded[c] /\ fetched[c] = snapshot[c])
                BY <1>0, <2>6, <4>2 DEF ApplyEvents, Effect, LinkTypes
            <4> QED BY <4>1, <4>2
        <3> QED BY <2>0, <2>3, <3>1, <3>2, <3>3 DEF QueryOf, Rows
    <2>7. ASSUME OnEnd(c)
          PROVE  QueryOf(c)'
        <3>1. /\ fetch'[c] = "asked" /\ UNCHANGED <<snapshot[c], after[c]>> /\ outcome # 0
            BY <1>0, <2>7, EndIsTold DEF OnEnd, PageTypes
        <3> QED BY <2>0, <2>3, <3>1 DEF QueryOf, Rows
    <2>8. ASSUME PollStatus(c)
          PROVE  QueryOf(c)'
        <3>1. after'[c] = after[c]
            BY <1>0, <2>3, <2>8 DEF PollStatus, Effect, link, LinkTypes
        <3> QED BY <2>1, <2>8, <3>1 DEF PollStatus, query
    <2>9. ASSUME FetchFails(c)
          PROVE  QueryOf(c)'
        <3>1. fetch'[c] = "error" /\ UNCHANGED <<snapshot[c], after[c], ended[c]>>
            BY <1>0, <2>9 DEF FetchFails, PageTypes, link
        <3> QED BY <2>0, <2>3, <3>1 DEF QueryOf, Rows
    <2>10. ASSUME Remount(c)
          PROVE  QueryOf(c)'
        <3>1. after'[c] = after[c]
            BY <1>0, <2>3, <2>10 DEF Remount, Effect, LinkTypes
        <3>2. /\ ended'[c] = FALSE /\ UNCHANGED <<snapshot[c], fetched[c]>>
              /\ fetch'[c] = fetch[c] \/ fetch'[c] = "asked"
            BY <1>0, <2>10 DEF Remount, PageTypes
        <3> QED BY <2>0, <2>3, <3>1, <3>2 DEF QueryOf, Rows
    <2>11. QueryOf(c)'
        BY <1>7, <2>4, <2>5, <2>6, <2>7, <2>8, <2>9, <2>10 DEF PageStep
    <2> QED BY <1>1, <2>0, <2>1, <2>2, <2>11
<1> QED BY <1>3, <1>5, <1>6, <1>7, NextCases

-----------------------------------------------------------------------------
(* The wire. *)

LEMMA WireStays ==
    ASSUME Inv, NEW c \in Client, conn'[c] = conn[c],
           conn[c] # None =>
             LET s == conn[c]
             IN  /\ wire'[s] = wire[s] /\ Read(c)' = Read(c)
                 /\ pc'[s] # "free" => pc[s] # "free" /\ cursor'[s] = cursor[s]
                 /\ pc'[s] \in Receiving \cup {"listen"} => pc[s] \in Receiving \cup {"listen"},
           last' >= last, last' \in Nat, outcome # 0 => outcome' # 0
    PROVE  WireOf(c)'
<1>1. CASE conn[c] = None
    BY <1>1 DEF WireOf
<1>2. CASE conn[c] # None
    <2> DEFINE s == conn[c]
    <2>1. PICK sent \in 0..Len(wire[s]) : OnWire(c, sent)
        BY <1>2 DEF Inv, WireInv, WireOf
    <2>2. /\ wire'[s] = wire[s] /\ Read(c)' = Read(c) /\ conn'[c] = s
          /\ pc'[s] # "free" => pc[s] # "free" /\ cursor'[s] = cursor[s]
          /\ pc'[s] \in Receiving \cup {"listen"} => pc[s] \in Receiving \cup {"listen"}
        BY <1>2
    <2>3. Len(wire[s]) \in Nat /\ Read(c) \in Nat /\ last \in Nat
        <3>1. conn[c] \in Sub /\ wire \in [Sub -> Seq(Message)] /\ last \in Nat
            BY <1>2 DEF Inv, TypeOK
        <3>2. Read(c) \in Nat
            BY <3>1, PageFacts
        <3> QED BY <3>1, <3>2
    <2>4. Read(c) + sent <= last'
        BY <2>1, <2>3 DEF OnWire
    <2>5. OnWire(c, sent)'
        BY <2>1, <2>2, <2>4 DEF OnWire
    <2>6. sent \in 0..Len(wire'[s])
        BY <2>1, <2>2
    <2> QED BY <2>2, <2>5, <2>6 DEF WireOf
<1> QED BY <1>1, <1>2

\* One more row is sent, and is the next one.
LEMMA RowIsSent ==
    ASSUME Inv, NEW s \in Sub, NEW c \in Client, conn[c] = s,
           NextEvent(s), Refill(s) # <<>>
    PROVE  WireOf(c)'
<1> DEFINE ahead == Refill(s)
<1>0. conn[c] # None /\ TypeOK /\ SubInv
    BY DEF Inv, TypeOK
<1>1. PICK sent \in 0..Len(wire[s]) : OnWire(c, sent)
    BY <1>0 DEF Inv, WireInv, WireOf
<1>2. /\ wire[s] \in Seq(Message) /\ Read(c) \in Nat /\ last \in Nat /\ cursor[s] \in Nat
      /\ pc \in [Sub -> Holding \cup {"free"}] /\ cursor \in [Sub -> Nat]
      /\ wire \in [Sub -> Seq(Message)]
    BY <1>0, PageFacts DEF TypeOK
<1>3. pc[s] \in Receiving /\ pc[s] # "free"
    BY DEF NextEvent, Receiving
<1>4. sent = Len(wire[s]) /\ cursor[s] = Read(c) + sent
    BY <1>1, <1>3 DEF OnWire
<1>5. ahead \in Seq(Nat) /\ ahead # <<>> /\ cursor[s] + Len(ahead) <= last /\ Head(ahead) = cursor[s] + 1
    BY <1>0, RefillReadsOn
<1>6. cursor[s] + 1 <= last
    BY <1>2, <1>5
<1>7. /\ wire' = [wire EXCEPT ![s] = Append(@, Event(Head(ahead)))]
      /\ cursor' = [cursor EXCEPT ![s] = Head(ahead)]
      /\ pc' = [pc EXCEPT ![s] = "next"]
      /\ UNCHANGED <<rows, conn, after, lastId>>
    BY <1>0 DEF NextEvent, Send, Served, Goto
<1> HIDE DEF ahead
<1>8. /\ wire'[s] = Append(wire[s], Event(cursor[s] + 1)) /\ cursor'[s] = cursor[s] + 1
      /\ pc'[s] = "next" /\ conn'[c] = s /\ Read(c)' = Read(c) /\ last' = last /\ outcome' = outcome
    BY <1>2, <1>5, <1>7 DEF rows, Read
<1>9. /\ Event(cursor[s] + 1) \in Message
      /\ Event(cursor[s] + 1).kind = "event" /\ Event(cursor[s] + 1).id = cursor[s] + 1
    <2>1. cursor[s] + 1 \in Nat
        BY <1>2
    <2> QED BY <2>1, MessageTypes DEF Event
<1>10. /\ Len(wire'[s]) = sent + 1
       /\ \A i \in 1..sent : wire'[s][i] = wire[s][i]
       /\ wire'[s][sent + 1] = Event(cursor[s] + 1)
       /\ DOMAIN wire'[s] = 1..sent + 1
    BY <1>2, <1>4, <1>8, <1>9
<1>11. ASSUME NEW i \in 1..sent + 1
       PROVE  wire'[s][i].kind = "event" /\ wire'[s][i].id = Read(c) + i
    <2>1. CASE i \in 1..sent
        <3>1. i \in DOMAIN wire[s]
            BY <1>1, <1>2, <2>1
        <3> QED BY <1>1, <1>10, <2>1, <3>1 DEF OnWire
    <2>2. CASE i = sent + 1
        BY <1>1, <1>2, <1>4, <1>9, <1>10, <2>2
    <2> QED BY <1>1, <2>1, <2>2
<1>12. Read(c) + (sent + 1) <= last /\ cursor'[s] = Read(c) + (sent + 1)
    BY <1>1, <1>2, <1>4, <1>6, <1>8
<1>13. \A i \in DOMAIN wire'[s] : wire'[s][i].kind = "event" <=> i <= sent + 1
    BY <1>1, <1>10, <1>11
<1>14. \A i \in DOMAIN wire'[s] : wire'[s][i].kind # "end"
    BY <1>10, <1>11
<1>15. OnWire(c, sent + 1)'
    BY <1>8, <1>10, <1>11, <1>12, <1>13, <1>14 DEF OnWire
<1>16. sent + 1 \in 0..Len(wire'[s])
    BY <1>1, <1>10
<1> QED BY <1>8, <1>15, <1>16 DEF WireOf

\* The last message is sent, which is not a row.
LEMMA LastIsSent ==
    ASSUME Inv, NEW s \in Sub, NEW c \in Client, conn[c] = s, pc[s] \in Receiving,
           NEW m \in Message, m.kind # "event", m.kind = "end" => outcome # 0,
           Send(s, m), Goto(s, "closing"), UNCHANGED <<rows, cursor, conn, after, lastId>>
    PROVE  WireOf(c)'
<1>0. conn[c] # None /\ TypeOK
    BY DEF Inv, TypeOK
<1>1. PICK sent \in 0..Len(wire[s]) : OnWire(c, sent)
    BY <1>0 DEF Inv, WireInv, WireOf
<1>2. /\ wire[s] \in Seq(Message) /\ pc \in [Sub -> Holding \cup {"free"}]
      /\ wire \in [Sub -> Seq(Message)]
    BY <1>0 DEF TypeOK
<1>3. pc[s] # "free"
    BY DEF Receiving
<1>4. sent = Len(wire[s]) /\ cursor[s] = Read(c) + sent
    BY <1>1, <1>3 DEF OnWire
<1>5. /\ wire'[s] = Append(wire[s], m) /\ pc'[s] = "closing"
      /\ conn'[c] = s /\ Read(c)' = Read(c) /\ last' = last /\ outcome' = outcome
    BY <1>0, <1>2 DEF Send, Served, Goto, rows, Read
<1>6. /\ Len(wire'[s]) = sent + 1
      /\ \A i \in 1..sent : wire'[s][i] = wire[s][i]
      /\ wire'[s][sent + 1] = m
      /\ DOMAIN wire'[s] = 1..sent + 1 /\ DOMAIN wire[s] = 1..sent
    BY <1>2, <1>4, <1>5
<1>7. \A i \in DOMAIN wire'[s] : wire'[s][i].kind = "event" <=> i <= sent
    <2>1. \A i \in 1..sent + 1 : i \in 1..sent \/ (i = sent + 1 /\ ~(i <= sent))
        BY <1>1
    <2>2. \A i \in 1..sent : wire'[s][i].kind = "event" /\ i <= sent
        <3>1. \A i \in DOMAIN wire[s] : wire[s][i].kind = "event" <=> i <= sent
            BY <1>1 DEF OnWire
        <3>2. \A i \in 1..sent : i <= sent
            BY <1>1
        <3> QED BY <1>6, <3>1, <3>2
    <2> QED BY <1>6, <2>1, <2>2
<1>8. \A i \in DOMAIN wire'[s] : wire'[s][i].kind = "end" => outcome' # 0
    <2>1. \A i \in 1..sent + 1 : i \in 1..sent \/ i = sent + 1
        BY <1>1
    <2> QED BY <1>1, <1>5, <1>6, <2>1 DEF OnWire
<1>9. "closing" # "free" /\ "closing" \notin Receiving \cup {"listen"}
    BY DEF Receiving
<1>10. OnWire(c, sent)'
    <2>1. \A i \in 1..sent : wire'[s][i].id = Read(c)' + i
        BY <1>1, <1>5, <1>6 DEF OnWire
    <2>2. Read(c)' + sent <= last' /\ cursor'[s] = Read(c)' + sent
        BY <1>1, <1>4, <1>5 DEF OnWire
    <2> QED BY <1>5, <1>7, <1>8, <1>9, <2>1, <2>2 DEF OnWire
<1>11. sent \in 0..Len(wire'[s])
    BY <1>1, <1>6
<1> QED BY <1>5, <1>10, <1>11 DEF WireOf

\* The next row is read.
LEMMA RowIsRead ==
    ASSUME Inv, NEW c \in Client, OnEvent(c)
    PROVE  WireOf(c)'
<1> DEFINE s == conn[c]
<1>0. TypeOK /\ Unread(c, "event") /\ conn[c] # None
    BY DEF Inv, OnEvent, Unread
<1>1. /\ s \in Sub /\ wire[s] \in Seq(Message) /\ wire[s] # <<>>
      /\ Head(wire[s]).id = Read(c) + 1
    BY <1>0, NextOnWire
<1>2. PICK sent \in 0..Len(wire[s]) : OnWire(c, sent)
    BY <1>0 DEF Inv, WireInv, WireOf
<1>3. /\ Read(c) \in Nat /\ after[c] \in Nat /\ after[c] <= Read(c)
      /\ wire \in [Sub -> Seq(Message)] /\ lastId \in [Client -> Nat]
    BY <1>0, PageFacts DEF TypeOK
<1>4. /\ wire' = [wire EXCEPT ![s] = Tail(@)] /\ lastId' = [lastId EXCEPT ![c] = Head(wire[s]).id]
      /\ UNCHANGED <<rows, server, conn, after>>
    BY DEF OnEvent
<1>5. /\ wire'[s] = Tail(wire[s]) /\ lastId'[c] = Read(c) + 1 /\ after'[c] = after[c]
      /\ conn'[c] = s /\ pc' = pc /\ cursor' = cursor /\ last' = last /\ outcome' = outcome
    BY <1>1, <1>3, <1>4 DEF rows, server
<1>6. Read(c)' = Read(c) + 1
    BY <1>3, <1>5 DEF Read
<1>7. Head(wire[s]) = wire[s][1] /\ 1 \in DOMAIN wire[s]
    BY <1>1
<1>8. sent >= 1
    BY <1>0, <1>2, <1>7 DEF Unread, OnWire
<1> HIDE DEF s
<1>9. /\ Len(wire'[s]) = Len(wire[s]) - 1 /\ Len(wire[s]) \in Nat
      /\ DOMAIN wire'[s] = 1..(Len(wire[s]) - 1)
    BY <1>1, <1>5
<1>10. ASSUME NEW i \in DOMAIN wire'[s]
       PROVE  wire'[s][i] = wire[s][i + 1] /\ i + 1 \in DOMAIN wire[s] /\ i \in Nat /\ i >= 1
    BY <1>1, <1>5, <1>9, <1>10
<1>11. /\ \A i \in DOMAIN wire[s] : wire[s][i].kind = "event" <=> i <= sent
       /\ \A i \in 1..sent : wire[s][i].id = Read(c) + i
       /\ Read(c) + sent <= last
       /\ pc[s] # "free" => cursor[s] = Read(c) + sent
       /\ pc[s] \in Receiving \cup {"listen"} => sent = Len(wire[s])
       /\ \A i \in DOMAIN wire[s] : wire[s][i].kind = "end" => outcome # 0
    BY <1>2 DEF OnWire, s
<1>12. /\ \A i \in DOMAIN wire'[s] : wire'[s][i].kind = "event" <=> i <= sent - 1
       /\ \A i \in DOMAIN wire'[s] : wire'[s][i].kind = "end" => outcome # 0
    <2> SUFFICES ASSUME NEW i \in DOMAIN wire'[s]
                 PROVE  /\ wire'[s][i].kind = "event" <=> i <= sent - 1
                        /\ wire'[s][i].kind = "end" => outcome # 0
        OBVIOUS
    <2>1. wire'[s][i] = wire[s][i + 1] /\ i + 1 \in DOMAIN wire[s] /\ i \in Nat
        BY <1>10
    <2>2. wire'[s][i].kind = "event" <=> i + 1 <= sent
        BY <1>11, <2>1
    <2>3. i + 1 <= sent <=> i <= sent - 1
        BY <1>2, <2>1
    <2> QED BY <1>11, <2>1, <2>2, <2>3
<1>13. \A i \in 1..(sent - 1) : wire'[s][i].id = Read(c)' + i
    <2> SUFFICES ASSUME NEW i \in 1..(sent - 1)
                 PROVE  wire'[s][i].id = Read(c)' + i
        OBVIOUS
    <2>1. i \in DOMAIN wire'[s] /\ i + 1 \in 1..sent
        BY <1>2, <1>9
    <2>2. wire'[s][i].id = Read(c) + (i + 1)
        BY <1>10, <1>11, <2>1
    <2> QED BY <1>3, <1>6, <2>2
<1>14. /\ Read(c)' + (sent - 1) <= last'
       /\ pc'[s] # "free" => cursor'[s] = Read(c)' + (sent - 1)
       /\ pc'[s] \in Receiving \cup {"listen"} => sent - 1 = Len(wire'[s])
    BY <1>2, <1>3, <1>5, <1>6, <1>9, <1>11
<1>15. OnWire(c, sent - 1)'
    BY <1>5, <1>12, <1>13, <1>14 DEF OnWire
<1>16. sent - 1 \in 0..Len(wire'[s])
    BY <1>2, <1>8, <1>9 DEF s
<1> QED BY <1>5, <1>15, <1>16 DEF WireOf

LEMMA NextWire ==
    ASSUME Inv, Next
    PROVE  WireInv'
<1>0. TypeOK /\ LinkTypes /\ ServerTypes
    BY TypeParts DEF Inv
<1>00. last \in Nat /\ outcome \in Nat
    BY <1>0 DEF TypeOK
<1> SUFFICES ASSUME NEW c \in Client
             PROVE  WireOf(c)'
    BY DEF WireInv
<1>1. CASE InsertEvent \/ Settle
    <2>1. /\ last' = last + 1 /\ (outcome # 0 => outcome' = outcome) /\ UNCHANGED <<server, link>>
        BY <1>1, RowsGrow
    <2>2. Read(c)' = Read(c) /\ UNCHANGED <<wire, pc, cursor, conn>>
        BY <2>1 DEF Read, link, server
    <2>3. last' >= last /\ last' \in Nat
        BY <1>00, <2>1
    <2> QED BY <2>1, <2>2, <2>3, WireStays
<1>2. CASE Restart
    BY <1>0, <1>2 DEF Restart, WireOf
<1>3. ASSUME NEW s \in Sub,
             \/ SubStep(s) \/ ReceiveFails(s) \/ ListenFails(s) \/ \E d \in Client : Open(d, s)
      PROVE  WireOf(c)'
    <2>0. /\ UNCHANGED <<rows, after, lastId, page>> /\ Read(c)' = Read(c)
          /\ last' >= last /\ last' \in Nat /\ outcome' = outcome
        BY <1>3, <1>00, ServerFrame DEF Read, rows
    <2>1. CASE conn[c] # s /\ conn'[c] # s
        <3>1. conn'[c] = conn[c]
            BY <1>0, <1>3, <2>1 DEF SubStep, Listen, NextEvent, CheckStatus, Wait, Disconnected,
                Close, ReceiveFails, ListenFails, Open, link, LinkTypes
        <3>2. \A r \in Sub : r # s => wire'[r] = wire[r] /\ pc'[r] = pc[r] /\ cursor'[r] = cursor[r]
            BY <1>0, <1>3 DEF SubStep, Listen, NextEvent, CheckStatus, Wait, Disconnected,
                Close, ReceiveFails, ListenFails, Open, Discard, Goto, Send, link,
                LinkTypes, ServerTypes
        <3>3. conn[c] # None => conn[c] \in Sub
            BY <1>0 DEF LinkTypes
        <3> QED BY <2>0, <2>1, <3>1, <3>2, <3>3, WireStays
    <2>2. CASE (conn[c] = s \/ conn'[c] = s) /\ (\E d \in Client : Open(d, s))
        <3>1. PICK d \in Client : Open(d, s)
            BY <2>2
        <3>2. c = d
            BY <1>0, <2>2, <3>1 DEF Open, Served, LinkTypes
        <3>3. /\ conn'[c] = s /\ wire'[s] = <<>> /\ pc'[s] = "listen" /\ cursor'[s] = Read(c)
            BY <1>0, <3>1, <3>2, StartIsRead DEF Open, Goto, LinkTypes, ServerTypes
        <3>4. Read(c) \in 0..last /\ last' = last
            BY <2>0, PageFacts DEF rows
        <3>5. OnWire(c, 0)'
            <4>1. DOMAIN <<>> = {} /\ Len(<<>>) = 0 /\ 1..0 = {}
                OBVIOUS
            <4>2. Read(c) + 0 = Read(c) /\ Read(c) + 0 <= last
                BY <1>00, <3>4
            <4> QED BY <2>0, <3>3, <3>4, <4>1, <4>2 DEF OnWire
        <3>6. 0 \in 0..Len(wire'[s])
            BY <3>3
        <3> QED BY <3>3, <3>5, <3>6 DEF WireOf
    <2>3. CASE conn[c] = s /\ NextEvent(s) /\ Refill(s) # <<>>
        BY <2>3, RowIsSent
    <2>4. CASE conn[c] = s /\ ReceiveFails(s)
        <3>1. StreamError \in Message /\ StreamError.kind = "stream-error"
            BY MessageTypes DEF StreamError
        <3>2. /\ pc[s] \in Receiving /\ Send(s, StreamError) /\ Goto(s, "closing")
              /\ UNCHANGED <<rows, cursor, conn, after, lastId>>
            BY <2>4 DEF ReceiveFails
        <3>3. StreamError.kind # "event" /\ StreamError.kind # "end"
            BY <3>1
        <3> QED BY <2>4, <3>1, <3>2, <3>3, LastIsSent
    <2>5. CASE conn[c] = s /\ CheckStatus(s) /\ outcome # 0
        <3>1. End \in Message /\ End.kind = "end"
            BY MessageTypes DEF End
        <3>2. /\ pc[s] \in Receiving /\ Send(s, End) /\ Goto(s, "closing")
              /\ UNCHANGED <<rows, cursor, conn, after, lastId>>
            BY <2>5 DEF CheckStatus, Receiving
        <3>3. End.kind # "event"
            BY <3>1
        <3> QED BY <2>5, <3>1, <3>2, <3>3, LastIsSent
    <2>6. CASE /\ conn[c] = s
               /\ \/ Listen(s) \/ (NextEvent(s) /\ Refill(s) = <<>>) \/ Wait(s)
                  \/ (CheckStatus(s) /\ outcome = 0) \/ Disconnected(s) \/ Close(s)
        <3>1. conn'[c] = conn[c] /\ wire' = wire
            BY <2>6 DEF Listen, NextEvent, Wait, CheckStatus, Disconnected, Close, link
        <3>2. CASE Close(s)
            <4>1. pc'[s] = "free" /\ "free" \notin Receiving \cup {"listen"}
                BY <1>0, <3>2 DEF Close, Discard, Goto, ServerTypes, Receiving
            <4> QED BY <2>0, <2>6, <3>1, <4>1, WireStays
        <3>3. CASE ~Close(s)
            <4>1. cursor' = cursor /\ pc[s] # "free"
                BY <2>6, <3>3 DEF Listen, NextEvent, Wait, CheckStatus, Disconnected, Receiving
            <4>2. pc'[s] \in Receiving \cup {"listen"} => pc[s] \in Receiving \cup {"listen"}
                BY <1>0, <2>6, <3>3
                   DEF Listen, NextEvent, Wait, CheckStatus, Disconnected, Goto, Receiving, ServerTypes
            <4> QED BY <2>0, <2>6, <3>1, <4>1, <4>2, WireStays
        <3> QED BY <3>2, <3>3
    <2>7. CASE conn[c] = s /\ ListenFails(s)
        <3>1. conn'[c] = None
            BY <2>7 DEF ListenFails
        <3> QED BY <3>1 DEF WireOf
    <2>8. conn'[c] = s => conn[c] = s \/ \E d \in Client : Open(d, s)
        BY <1>3 DEF SubStep, Listen, NextEvent, CheckStatus, Wait, Disconnected, Close,
            ReceiveFails, ListenFails, link
    <2> QED BY <1>3, <2>1, <2>2, <2>3, <2>4, <2>5, <2>6, <2>7, <2>8 DEF SubStep
<1>4. ASSUME NEW d \in Client,
             \/ OpenBusy(d) \/ PageStep(d) \/ PollStatus(d)
             \/ FetchFails(d) \/ Drop(d) \/ Remount(d)
      PROVE  WireOf(c)'
    <2>0. /\ UNCHANGED <<rows, server>> /\ last' >= last /\ last' \in Nat /\ outcome' = outcome
          /\ pc' = pc /\ cursor' = cursor
        BY <1>4, <1>00, PageFrame DEF rows, server
    <2>1. CASE conn'[c] = None
        BY <2>1 DEF WireOf
    <2>2. CASE conn'[c] # None /\ OnEvent(d)
        <3>1. CASE c = d
            BY <2>2, <3>1, RowIsRead
        <3>2. CASE c # d
            <4>1. /\ conn' = conn /\ after' = after /\ lastId'[c] = lastId[c]
                  /\ \A r \in Sub : r # conn[d] => wire'[r] = wire[r]
                BY <1>0, <2>2, <3>2 DEF OnEvent, LinkTypes
            <4>2. conn[c] # None => conn[c] # conn[d] /\ conn[c] \in Sub
                BY <1>0, <3>2 DEF Inv, LinkInv, LinkTypes
            <4>3. Read(c)' = Read(c)
                BY <4>1 DEF Read
            <4> QED BY <2>0, <4>1, <4>2, <4>3, WireStays
        <3> QED BY <3>1, <3>2
    <2>3. CASE conn'[c] # None /\ ~OnEvent(d)
        <3>1. CASE UNCHANGED <<wire, conn, after, lastId>>
            <4>1. Read(c)' = Read(c)
                BY <3>1 DEF Read
            <4> QED BY <2>0, <3>1, <4>1, WireStays
        <3>2. CASE ~UNCHANGED <<wire, conn, after, lastId>>
            <4>1. Hangup(d) /\ \A r \in Client : r # d => after'[r] = after[r] /\ lastId'[r] = lastId[r]
                BY <1>0, <1>4, <2>3, <3>2 DEF OpenBusy, PageStep, ReadEvents, ApplyEvents, OnEnd,
                    OnStreamError, PollStatus, FetchFails, Drop, Remount, Effect, link, LinkTypes
            <4>2. /\ conn' = [conn EXCEPT ![d] = None]
                  /\ \A r \in Sub : r # conn[d] => wire'[r] = wire[r]
                BY <1>0, <4>1, HangupTypes
            <4>3. c # d /\ conn'[c] = conn[c] /\ conn[c] \in Sub
                BY <1>0, <2>3, <4>2 DEF LinkTypes
            <4>4. conn[c] # conn[d]
                BY <2>3, <4>3 DEF Inv, LinkInv
            <4>5. Read(c)' = Read(c)
                BY <4>1, <4>3 DEF Read
            <4> QED BY <2>0, <4>2, <4>3, <4>4, <4>5, WireStays
        <3> QED BY <3>1, <3>2
    <2> QED BY <2>1, <2>2, <2>3
<1> QED BY <1>1, <1>2, <1>3, <1>4, NextCases

-----------------------------------------------------------------------------
(* The live items. *)

LEMMA ConstantTypes ==
    Window \in Nat /\ Window >= 1 /\ MaxEvents \in Nat
OBVIOUS

HIDE StreamAssumption
USE ConstantTypes

LEMMA WindowCases ==
    ASSUME NEW len \in Nat, len <= Window
    PROVE  LET k == IF len = Window THEN 1 ELSE 0
           IN  (k = 0 /\ len < Window) \/ (k = 1 /\ len = Window)
<1>1. len < Window \/ len = Window
    OBVIOUS
<1> QED BY <1>1

LEMMA ItemsAreNaturals ==
    ASSUME NEW items \in Seq(1..MaxEvents)
    PROVE  /\ Len(items) \in Nat /\ DOMAIN items = 1..Len(items)
           /\ \A i \in DOMAIN items : items[i] \in Nat /\ items[i] \in 1..MaxEvents
OBVIOUS

LEMMA LiveItemsPush ==
    ASSUME NEW items \in Seq(1..MaxEvents), Len(items) <= Window,
           NEW n \in 1..MaxEvents, n \notin Items(items)
    PROVE  LET k   == IF Len(items) = Window THEN 1 ELSE 0
               new == LiveItems(items, n)
           IN  /\ new \in Seq(1..MaxEvents)
               /\ Len(new) = Len(items) + 1 - k
               /\ Pushed(new, items, Len(items), k, n)
<1> DEFINE k == IF Len(items) = Window THEN 1 ELSE 0
           new == LiveItems(items, n)
<1>1. /\ new \in Seq(1..MaxEvents)
      /\ Len(new) = Len(items) + 1 - k
      /\ \A i \in 1..(Len(items) - k) : new[i] = items[i + k]
      /\ new[Len(items) + 1 - k] = n
    BY LiveItemsNew
<1>2. Len(items) \in Nat /\ k \in {0, 1} /\ k <= Len(items)
    BY ConstantTypes
<1>3. DOMAIN items = 1..Len(items) /\ DOMAIN new = 1..Len(new) /\ \A i \in 1..Len(items) : items[i] \in Nat
    BY <1>1, ItemsAreNaturals
<1>4. DOMAIN new = 1..(Len(items) + 1 - k)
    BY <1>1, <1>3
<1> HIDE DEF new, k
<1>5. Pushed(new, items, Len(items), k, n)
    BY <1>1, <1>2, <1>3, <1>4 DEF Pushed
<1> QED BY <1>1, <1>5 DEF new, k

LEMMA FreshIsOrdered ==
    ASSUME NEW items, NEW data \in Nat, NEW read \in Nat, items \in Seq(1..MaxEvents),
           Fresh(items, data, read)
    PROVE  Ordered(items, read)
<1> DEFINE len == Len(items)
<1>0. /\ len \in Nat /\ DOMAIN items = 1..len
      /\ \A i \in DOMAIN items : items[i] \in Nat /\ items[i] + len = read + i
    BY ItemsAreNaturals DEF Fresh
<1> HIDE DEF len
<1>1. \A i, j \in DOMAIN items : i <= j => items[j] + i >= items[i] + j
    BY <1>0
<1>2. \A i \in DOMAIN items : (read + 1)..items[i] = {}
    <2> SUFFICES ASSUME NEW i \in DOMAIN items
                 PROVE  items[i] < read + 1
        BY <1>0
    <2> QED BY <1>0
<1> QED BY <1>1, <1>2 DEF Ordered

LEMMA FreshGoesBack ==
    ASSUME NEW items, NEW data \in Nat, NEW read \in Nat, items \in Seq(1..MaxEvents),
           Len(items) <= Window, Fresh(items, data, read),
           NEW f \in Nat, data <= f
    PROVE  Ordered(items, f) \/ Rotated(items, f, f)
<1> DEFINE len == Len(items)
<1>0. /\ len \in Nat /\ DOMAIN items = 1..len /\ len <= Window
      /\ \A i \in DOMAIN items : /\ items[i] \in Nat /\ items[i] <= MaxEvents
                                 /\ items[i] + len = read + i
      /\ len < Window => data + len = read
    BY ItemsAreNaturals DEF Fresh
<1>3. CASE f + len >= read
    <2> HIDE DEF len
    <2>1. \A i, j \in DOMAIN items : i <= j => items[j] + i >= items[i] + j
        BY <1>0
    <2>2. ASSUME NEW i \in DOMAIN items, NEW m \in (f + 1)..items[i]
          PROVE  m \in Items(items)
        <3>0. i \in 1..len /\ items[i] \in Nat /\ items[i] + len = read + i
            BY <1>0
        <3>1. m + len - read \in 1..len
            BY <1>0, <1>3, <3>0
        <3>2. PICK j \in 1..len : j = m + len - read
            BY <3>1
        <3>3. items[j] \in Nat /\ items[j] + len = read + j
            BY <1>0
        <3>4. items[j] = m
            BY <1>0, <3>2, <3>3
        <3> QED BY <1>0, <3>4 DEF Items
    <2> QED BY <2>1, <2>2 DEF Ordered
<1>4. CASE f + len < read
    <2> HIDE DEF len
    <2>1. len = Window
        BY <1>0, <1>4
    <2>2. ASSUME NEW i \in 1..Window
          PROVE  items[i] = (read - Window) + i
        <3>1. items[i] \in Nat /\ items[i] + Window = read + i
            BY <1>0, <2>1
        <3> QED BY <3>1
    <2>3. 1 \in DOMAIN items
        BY <1>0, <2>1
    <2>4. items[1] \in Nat /\ items[1] <= MaxEvents /\ items[1] = (read - Window) + 1
        BY <1>0, <2>1, <2>2, <2>3
    <2>5. read - Window \in (f + 1)..MaxEvents
        BY <1>4, <2>1, <2>4
    <2>6. f + Window - f = Window
        OBVIOUS
    <2>7. \A i \in 1..Window :
                items[i] = IF i <= f + Window - f THEN (read - Window) + i
                           ELSE f + (i - (f + Window - f))
        BY <2>2, <2>6
    <2>8. f + Window - f >= 1 /\ Len(items) = Window
        BY <2>1, <2>6 DEF len
    <2> QED BY <2>5, <2>7, <2>8, Zenon DEF Rotated
<1> QED BY <1>0, <1>3, <1>4

LEMMA FreshGrows ==
    ASSUME NEW items \in Seq(1..MaxEvents), Len(items) <= Window,
           NEW data \in Nat, NEW read \in Nat, Fresh(items, data, read),
           NEW n \in 1..MaxEvents, n = read + 1
    PROVE  Fresh(LiveItems(items, n), data, n)
<1> DEFINE len == Len(items)
           new == LiveItems(items, n)
           k == IF Len(items) = Window THEN 1 ELSE 0
<1>0. /\ len \in Nat /\ DOMAIN items = 1..len
      /\ \A i \in DOMAIN items : items[i] \in Nat /\ items[i] + len = read + i
    BY ItemsAreNaturals DEF Fresh
<1>1. n \notin Items(items)
    <2> HIDE DEF len
    <2>1. \A i \in DOMAIN items : items[i] # n
        BY <1>0
    <2> QED BY <2>1 DEF Items
<1>2. Len(new) = len + 1 - k /\ Pushed(new, items, len, k, n)
    BY <1>1, LiveItemsPush
<1>3. \A i \in DOMAIN new : new[i] + (len + 1 - k) = n + i
    <2>1. n \in Nat /\ Consecutive(items, len, read)
        BY <1>0 DEF Consecutive
    <2> HIDE DEF len, new, k
    <2>2. Consecutive(new, len + 1 - k, n)
        BY <1>2, <2>1, PushedConsecutive, Zenon
    <2> QED BY <2>2 DEF Consecutive
<1>4. Len(new) < Window => data + Len(new) = n
    <2>1. (k = 0 /\ len < Window) \/ (k = 1 /\ len = Window)
        BY <1>0, WindowCases
    <2>2. len < Window => data + len = read
        BY DEF Fresh
    <2> HIDE DEF len, new, k
    <2> QED BY <1>0, <1>2, <2>1, <2>2
<1> HIDE DEF new, k, len
<1> QED BY <1>2, <1>3, <1>4 DEF Fresh, new

LEMMA OrderedIsRead ==
    ASSUME NEW items \in Seq(1..MaxEvents), NEW read \in Nat, Ordered(items, read),
           NEW n, n = read + 1, n \notin Items(items)
    PROVE  \A i \in DOMAIN items : items[i] < n
<1>1. \A i \in DOMAIN items : items[i] \in Nat /\ (read + 1)..items[i] \subseteq Items(items)
    BY ItemsAreNaturals DEF Ordered
<1>2. ASSUME NEW i \in DOMAIN items, items[i] >= n
      PROVE  FALSE
    <2>1. n \in (read + 1)..items[i]
        BY <1>1, <1>2
    <2> QED BY <1>1, <2>1
<1> QED BY <1>1, <1>2

LEMMA OrderedGrows ==
    ASSUME NEW items \in Seq(1..MaxEvents), Len(items) <= Window,
           NEW read \in Nat, Ordered(items, read), NEW n \in 1..MaxEvents, n = read + 1
    PROVE  Ordered(LiveItems(items, n), n)
<1>1. DOMAIN items = 1..Len(items) /\ \A i \in DOMAIN items : items[i] \in Nat
    BY ItemsAreNaturals
<1>2. CASE n \in Items(items)
    <2>1. LiveItems(items, n) = items
        BY <1>2, LiveItemsKnown
    <2>2. \A i \in DOMAIN items : (n + 1)..items[i] \subseteq (read + 1)..items[i]
        BY <1>1
    <2> QED BY <2>1, <2>2 DEF Ordered
<1>3. CASE n \notin Items(items)
    <2> DEFINE new == LiveItems(items, n)
               k == IF Len(items) = Window THEN 1 ELSE 0
    <2>1. new \in Seq(1..MaxEvents) /\ Pushed(new, items, Len(items), k, n)
        BY <1>3, LiveItemsPush
    <2>2. \A i \in DOMAIN items : items[i] < n
        BY <1>3, OrderedIsRead
    <2>3. \A i \in DOMAIN new : new[i] \in Nat
        BY <2>1, ItemsAreNaturals
    <2> HIDE DEF new, k
    <2>4. \A i, j \in DOMAIN new : i <= j => new[j] + i >= new[i] + j
        <3>1. \A i, j \in DOMAIN items : i <= j => items[j] + i >= items[i] + j
            BY <1>3 DEF Ordered
        <3>2. n \in Nat
            OBVIOUS
        <3> QED BY <2>1, <2>2, <3>1, <3>2, PushedOrder, Zenon
    <2>5. \A i \in DOMAIN new : new[i] <= n
        <3>1. \A i \in DOMAIN new : new[i] \in Items(items) \cup {n}
            <4>1. n \in Nat
                OBVIOUS
            <4>2. Items(new) \subseteq Items(items) \cup {n}
                BY <2>1, <4>1, PushedItems, Zenon
            <4> QED BY <4>2 DEF Items
        <3> QED BY <1>1, <2>2, <3>1 DEF Items
    <2>6. \A i \in DOMAIN new : (n + 1)..new[i] = {}
        BY <2>3, <2>5
    <2> QED BY <2>4, <2>6 DEF Ordered, new
<1> QED BY <1>2, <1>3

LEMMA RotatedGrows ==
    ASSUME NEW items \in Seq(1..MaxEvents),
           NEW data \in Nat, NEW read \in Nat, data <= read, Rotated(items, data, read),
           NEW n \in 1..MaxEvents, n = read + 1
    PROVE  /\ n \notin Items(items)
           /\ \/ Ordered(LiveItems(items, n), n)
              \/ Rotated(LiveItems(items, n), data, n)
<1> DEFINE left == data + Window - read
           new == LiveItems(items, n)
<1>1. Len(items) = Window /\ left \in 1..Window
    BY DEF Rotated
<1>2. PICK m \in (read + 1)..MaxEvents : \A i \in 1..Window :
                items[i] = IF i <= left THEN m + i ELSE data + (i - left)
    BY DEF Rotated
<1>3. read = data + Window - left
    OBVIOUS
<1>4. DOMAIN items = 1..Window /\ \A i \in DOMAIN items : items[i] \in Nat /\ items[i] <= MaxEvents
    BY <1>1, ItemsAreNaturals
<1>5. n \notin Items(items)
    <2> SUFFICES ASSUME NEW i \in 1..Window
                 PROVE  items[i] # n
        BY <1>4 DEF Items
    <2> HIDE DEF left
    <2>1. i <= left => items[i] = m + i /\ m + i > n
        BY <1>2
    <2>2. ~(i <= left) => items[i] = data + (i - left) /\ data + (i - left) <= read
        BY <1>1, <1>2, <1>3
    <2> QED BY <1>1, <2>1, <2>2
<1>6. /\ new \in Seq(1..MaxEvents) /\ Len(new) = Window + 1 - 1
      /\ Pushed(new, items, Window, 1, n)
    BY <1>1, <1>5, LiveItemsPush
<1>7. DOMAIN new = 1..Window /\ Len(new) = Window /\ \A i \in DOMAIN new : new[i] \in Nat
    BY <1>6, ItemsAreNaturals
<1>8. \A i \in DOMAIN new :
            new[i] = IF i <= left - 1 THEN (m + 1) + i ELSE data + (i - (left - 1))
    <2>1. n = data + Window - left + 1 /\ m \in Nat /\ n \in Nat
        BY <1>2
    <2>2. Turned(items, left, m, data)
        BY <1>2, <1>4 DEF Turned
    <2> HIDE DEF left, new
    <2>3. Turned(new, left - 1, m + 1, data)
        BY <1>1, <1>6, <2>1, <2>2, PushedRotation, Zenon
    <2> QED BY <2>3 DEF Turned
<1> HIDE DEF new
<1>9. CASE left = 1
    <2>1. \A i \in 1..Window : new[i] = data + i
        <3> HIDE DEF left
        <3> QED BY <1>7, <1>8, <1>9
    <2>2. \A i, j \in DOMAIN new : i <= j => new[j] + i >= new[i] + j
        BY <1>7, <2>1
    <2>3. \A i \in DOMAIN new : (n + 1)..new[i] = {}
        BY <1>7, <1>9, <2>1
    <2> QED BY <1>5, <2>2, <2>3 DEF Ordered, new
<1>10. CASE left # 1
    <2>1. data + Window - n = left - 1 /\ left - 1 >= 1
        BY <1>1, <1>10
    <2>2. 1 \in 1..Window /\ 1 <= left
        BY <1>1
    <2>3. items[1] = m + 1 /\ items[1] <= MaxEvents
        BY <1>2, <1>4, <2>2
    <2>4. m + 1 \in (n + 1)..MaxEvents
        BY <1>2, <2>3
    <2>5. m + 1 \in Nat
        BY <2>4
    <2>6. \A i \in 1..Window :
                new[i] = IF i <= data + Window - n THEN (m + 1) + i
                         ELSE data + (i - (data + Window - n))
        <3> HIDE DEF left
        <3> QED BY <1>7, <1>8, <2>1
    <2>7. data + Window - n >= 1
        <3> HIDE DEF left
        <3> QED BY <2>1
    <2>8. Rotated(new, data, n)
        BY <1>7, <2>4, <2>6, <2>7, Zenon DEF Rotated
    <2> QED BY <1>5, <2>8 DEF new
<1> QED BY <1>9, <1>10

\* What is pushed out of a full window is older than the window.
LEMMA OldestIsPushedOut ==
    ASSUME NEW items \in Seq(1..MaxEvents), Len(items) = Window,
           NEW data \in Nat, NEW read \in Nat, data <= read,
           Ordered(items, read) \/ Rotated(items, data, read),
           NEW n, n = read + 1, n \notin Items(items)
    PROVE  items[1] \notin Rows(n)
<1>1. DOMAIN items = 1..Window /\ \A i \in DOMAIN items : items[i] \in Nat
    BY ItemsAreNaturals
<1>0. 1 \in DOMAIN items /\ Window \in DOMAIN items /\ 1 <= Window
    BY <1>1
<1>2. CASE Ordered(items, read)
    <2>1. items[Window] < n
        BY <1>0, <1>2, OrderedIsRead
    <2>2. items[Window] + 1 >= items[1] + Window
        BY <1>0, <1>2 DEF Ordered
    <2>3. items[1] \in Nat /\ items[Window] \in Nat
        BY <1>0, <1>1
    <2> QED BY <2>1, <2>2, <2>3 DEF Rows
<1>3. CASE Rotated(items, data, read)
    <2>1. PICK m \in (read + 1)..MaxEvents : \A i \in 1..Window :
              items[i] = IF i <= data + Window - read THEN m + i
                         ELSE data + (i - (data + Window - read))
        BY <1>3 DEF Rotated
    <2>2. 1 <= data + Window - read
        BY <1>3 DEF Rotated
    <2>3. items[1] = m + 1
        BY <1>0, <1>1, <2>1, <2>2
    <2> QED BY <2>1, <2>3 DEF Rows
<1> QED BY <1>2, <1>3

LEMMA ItemsGrow ==
    ASSUME NEW items \in Seq(1..MaxEvents), Len(items) <= Window,
           NEW data \in Nat, NEW read \in Nat, data <= read,
           Ordered(items, read) \/ Rotated(items, data, read),
           NEW n \in 1..MaxEvents, n = read + 1, NEW S, Rows(read) \subseteq S \cup Items(items)
    PROVE  LET new == LiveItems(items, n)
           IN  /\ Len(new) <= Window
               /\ Items(new) \subseteq Items(items) \cup {n}
               /\ Rows(n) \subseteq S \cup Items(new)
<1> DEFINE new == LiveItems(items, n)
           k == IF Len(items) = Window THEN 1 ELSE 0
<1>1. \A x \in Rows(n) : x \in Rows(read) \/ x = n
    BY DEF Rows
<1>2. CASE n \in Items(items)
    BY <1>1, <1>2, LiveItemsKnown
<1>3. CASE n \notin Items(items)
    <2>0. Len(items) \in Nat /\ DOMAIN items = 1..Len(items)
        BY ItemsAreNaturals
    <2>1. Len(new) = Len(items) + 1 - k /\ Pushed(new, items, Len(items), k, n)
        BY <1>3, LiveItemsPush
    <2>2. /\ Len(items) + 1 - k <= Window
          /\ k = 0 \/ (k = 1 /\ Len(items) = Window)
        <3>1. (k = 0 /\ Len(items) < Window) \/ (k = 1 /\ Len(items) = Window)
            BY <2>0, WindowCases
        <3> HIDE DEF k
        <3>2. CASE k = 0 /\ Len(items) < Window
            <4>1. Len(items) + 1 - k = Len(items) + 1
                BY <2>0, <3>2
            <4> QED BY <2>0, <3>2, <4>1
        <3>3. CASE k = 1 /\ Len(items) = Window
            <4>1. Len(items) + 1 - k = Window
                BY <2>0, <3>3
            <4> QED BY <3>3, <4>1
        <3> QED BY <3>1, <3>2, <3>3
    <2> HIDE DEF new, k
    <2>3. /\ Items(new) \subseteq Items(items) \cup {n} /\ n \in Items(new)
          /\ \A j \in DOMAIN items : j > k => items[j] \in Items(new)
        <3>1. n \in Nat
            OBVIOUS
        <3> QED BY <2>1, <3>1, PushedItems, Zenon
    <2>4. ASSUME NEW x \in Rows(n), x \in Items(items)
          PROVE  x \in Items(new)
        <3>1. PICK j \in DOMAIN items : items[j] = x
            BY <2>4 DEF Items
        <3>2. CASE k = 0
            BY <2>0, <2>3, <3>1, <3>2
        <3>3. CASE k = 1 /\ Len(items) = Window
            <4>1. items[1] # x
                BY <1>3, <3>3, OldestIsPushedOut
            <4>2. j # 1 /\ j > k
                BY <2>0, <3>1, <3>3, <4>1
            <4> QED BY <2>3, <3>1, <4>2
        <3> QED BY <2>2, <3>2, <3>3
    <2> QED BY <1>1, <2>1, <2>2, <2>3, <2>4 DEF new
<1> QED BY <1>2, <1>3

-----------------------------------------------------------------------------
(* The live items of a page follow the rows it reads. *)

LEMMA LiveStays ==
    ASSUME Inv, NEW c \in Client, live'[c] = live[c], last' \in Nat, last' >= last,
           ~loaded'[c] \/ seen'[c] = "unknown" => ~loaded[c] \/ seen[c] = "unknown",
           Active(c)' => /\ Active(c)
                         /\ Pending(c)' => Pending(c)
                         /\ after'[c] = after[c] /\ Read(c)' = Read(c)
                         /\ snapshot'[c] = snapshot[c]
    PROVE  LiveOf(c)'
<1>0. /\ LiveOf(c) /\ live[c] \in Seq(1..MaxEvents) /\ last \in Nat
      /\ after[c] \in Nat /\ Read(c) \in Nat
    BY PageFacts DEF Inv, LiveInv, TypeOK
<1>1. ~loaded'[c] \/ seen'[c] = "unknown" => live'[c] = <<>>
    BY <1>0 DEF LiveOf
<1>2. Len(live'[c]) <= Window
    BY <1>0 DEF LiveOf
<1>3. \A i \in DOMAIN live'[c] : live'[c][i] <= last'
    BY <1>0, ItemsAreNaturals DEF LiveOf
<1>4. ASSUME Active(c)'
      PROVE  /\ Rows(Read(c))' \subseteq snapshot'[c] \cup Items(live[c])'
             /\ Shape(c)'
    <2>1. Shape(c) /\ Rows(Read(c)) \subseteq snapshot[c] \cup Items(live[c])
        BY <1>0, <1>4 DEF LiveOf
    <2>2. /\ after'[c] = after[c] /\ Read(c)' = Read(c) /\ snapshot'[c] = snapshot[c]
          /\ Pending(c)' => Pending(c)
        BY <1>4
    <2>3. Rows(Read(c))' \subseteq snapshot'[c] \cup Items(live[c])'
        BY <2>1, <2>2 DEF Rows, Items
    <2>4. CASE Pending(c)' <=> Pending(c)
        <3>1. CASE Pending(c)
            BY <2>1, <2>2, <2>4, <3>1 DEF Shape, Fresh
        <3>2. CASE ~Pending(c)
            <4>1. Ordered(live[c], Read(c)) => Ordered(live[c], Read(c))'
                BY <2>2 DEF Ordered, Items
            <4>2. Rotated(live[c], after[c], Read(c)) => Rotated(live[c], after[c], Read(c))'
                BY <2>2 DEF Rotated
            <4> QED BY <2>1, <2>3, <2>4, <3>2, <4>1, <4>2 DEF Shape
        <3> QED BY <3>1, <3>2, <2>3
    <2>5. CASE Pending(c) /\ ~Pending(c)'
        <3>1. Ordered(live[c], Read(c))
            BY <1>0, <2>1, <2>5, FreshIsOrdered DEF Shape
        <3>2. Ordered(live[c], Read(c))'
            BY <2>2, <3>1 DEF Ordered, Items
        <3> QED BY <2>3, <2>5, <3>2 DEF Shape
    <2> QED BY <2>2, <2>3, <2>4, <2>5
<1> QED BY <1>1, <1>2, <1>3, <1>4 DEF LiveOf

LEMMA LiveStarts ==
    ASSUME NEW c \in Client, live'[c] = <<>>, after'[c] \in Nat, Read(c)' = after'[c],
           snapshot'[c] = Rows(after'[c])
    PROVE  LiveOf(c)'
<1>1. Len(<<>>) = 0 /\ DOMAIN <<>> = {}
    OBVIOUS
<1>2. Rows(Read(c))' \subseteq snapshot'[c] \cup Items(live[c])'
    BY DEF Rows
<1>3. Fresh(live[c], after[c], Read(c))'
    BY <1>1 DEF Fresh
<1>4. Ordered(live[c], Read(c))'
    BY <1>1 DEF Ordered
<1>5. Shape(c)'
    BY <1>3, <1>4 DEF Shape
<1>6. Len(live'[c]) <= Window /\ \A i \in DOMAIN live'[c] : live'[c][i] <= last'
    BY <1>1
<1> QED BY <1>2, <1>5, <1>6 DEF LiveOf

\* The data are replaced by the rows up to f while the page is live.
LEMMA LiveGoesBack ==
    ASSUME Inv, NEW c \in Client, Active(c), Pending(c), NEW f \in Nat, after[c] <= f,
           live'[c] = live[c], last' = last, loaded'[c], seen'[c] = seen[c],
           after'[c] = f, Read(c)' = f, snapshot'[c] = Rows(f), ~Pending(c)'
    PROVE  LiveOf(c)'
<1>0. /\ LiveOf(c) /\ live[c] \in Seq(1..MaxEvents)
      /\ after[c] \in Nat /\ Read(c) \in Nat
    BY PageFacts DEF Inv, LiveInv, TypeOK
<1>1. Fresh(live[c], after[c], Read(c)) /\ Len(live[c]) <= Window
    BY <1>0 DEF LiveOf, Shape
<1>2. Ordered(live[c], f) \/ Rotated(live[c], f, f)
    BY <1>0, <1>1, FreshGoesBack
<1>3. Shape(c)'
    BY <1>2 DEF Shape, Ordered, Rotated, Items
<1>4. Rows(Read(c))' \subseteq snapshot'[c] \cup Items(live[c])'
    BY DEF Rows
<1>5. ~loaded'[c] \/ seen'[c] = "unknown" => live'[c] = <<>>
    BY <1>0 DEF Active
<1> QED BY <1>0, <1>3, <1>4, <1>5 DEF LiveOf

LEMMA LiveGrows ==
    ASSUME Inv, NEW c \in Client, OnEvent(c)
    PROVE  LiveOf(c)'
<1>1. PICK n \in Nat : n = Read(c) + 1
    BY PageFacts
<1>2. /\ Head(wire[conn[c]]).id = n /\ n \in 1..last /\ Active(c) /\ n \in 1..MaxEvents
    BY <1>1, NextOnWire, PageFacts DEF OnEvent
<1>3. /\ LiveOf(c) /\ live[c] \in Seq(1..MaxEvents) /\ lastId \in [Client -> Nat]
      /\ live \in [Client -> Seq(1..MaxEvents)]
      /\ after[c] \in Nat /\ Read(c) \in Nat /\ after[c] <= Read(c) /\ last \in Nat
    BY PageFacts DEF Inv, LiveInv, TypeOK
<1>4. /\ live'[c] = LiveItems(live[c], n) /\ lastId'[c] = n
      /\ UNCHANGED <<last, after, fetch, snapshot, loaded, seen, ended>>
    BY <1>2, <1>3 DEF OnEvent, rows, query
<1>5. Read(c)' = n /\ after'[c] = after[c] /\ (Pending(c)' <=> Pending(c)) /\ Active(c)'
    BY <1>1, <1>2, <1>3, <1>4 DEF Read, Pending, Active
<1>6. /\ Shape(c) /\ Len(live[c]) <= Window
      /\ Rows(Read(c)) \subseteq snapshot[c] \cup Items(live[c])
      /\ \A i \in DOMAIN live[c] : live[c][i] <= last
    BY <1>2, <1>3 DEF LiveOf
<1>7. Ordered(live[c], Read(c)) \/ Rotated(live[c], after[c], Read(c))
    BY <1>3, <1>6, FreshIsOrdered DEF Shape
<1>8. /\ Len(live'[c]) <= Window
      /\ Items(live'[c]) \subseteq Items(live[c]) \cup {n}
      /\ Rows(n) \subseteq snapshot[c] \cup Items(live'[c])
    <2> DEFINE new == LiveItems(live[c], n)
    <2>1. /\ Len(new) <= Window
          /\ Items(new) \subseteq Items(live[c]) \cup {n}
          /\ Rows(n) \subseteq snapshot[c] \cup Items(new)
        BY <1>1, <1>2, <1>3, <1>6, <1>7, ItemsGrow
    <2> QED BY <1>4, <2>1
<1>9. \A i \in DOMAIN live'[c] : live'[c][i] <= last'
    BY <1>2, <1>4, <1>6, <1>8 DEF Items
<1>10. CASE Pending(c)
    <2>1. Fresh(live[c], after[c], Read(c))
        BY <1>6, <1>10 DEF Shape
    <2>2. Fresh(LiveItems(live[c], n), after[c], n)
        BY <1>1, <1>2, <1>3, <1>6, <2>1, FreshGrows
    <2> QED BY <1>4, <1>5, <1>8, <1>9, <1>10, <2>2 DEF LiveOf, Shape, Fresh, Rows, Items, Active
<1>11. CASE ~Pending(c)
    <2>1. Ordered(LiveItems(live[c], n), n) \/ Rotated(LiveItems(live[c], n), after[c], n)
        BY <1>1, <1>2, <1>3, <1>6, <1>7, OrderedGrows, RotatedGrows
    <2>2. Shape(c)'
        BY <1>4, <1>5, <1>11, <2>1 DEF Shape, Ordered, Rotated, Items
    <2> QED BY <1>4, <1>5, <1>8, <1>9, <2>2 DEF LiveOf, Rows, Items, Active
<1> QED BY <1>10, <1>11

\* The steps of the page itself.
LEMMA PageLive ==
    ASSUME Inv, NEW c \in Client,
           \/ OpenBusy(c) \/ PageStep(c) \/ PollStatus(c)
           \/ FetchFails(c) \/ Drop(c) \/ Remount(c)
    PROVE  LiveOf(c)'
<1>0. LinkTypes /\ PageTypes
    BY TypeParts DEF Inv
<1>1. /\ last' = last /\ last' \in Nat /\ last' >= last /\ LiveOf(c)
      /\ after[c] \in Nat /\ Newest(snapshot[c]) = after[c] /\ snapshot[c] = Rows(after[c])
    BY PageFrame, PageFacts DEF rows, Inv, LiveInv
<1>2. CASE OpenBusy(c) \/ ReadEvents(c) \/ FetchFails(c) \/ OnEnd(c) \/ OnStreamError(c) \/ Drop(c)
    <2>1. /\ UNCHANGED <<after, lastId, loaded, snapshot, live, seen>>
          /\ ended'[c] = ended[c] \/ ended'[c]
        BY <1>0, <1>2 DEF OpenBusy, ReadEvents, FetchFails, OnEnd, OnStreamError, Drop, link,
            page, query, PageTypes
    <2>2. Read(c)' = Read(c) /\ (Active(c)' => Active(c) /\ ended'[c] = ended[c])
        BY <2>1 DEF Read, Active
    <2>3. Active(c)' => (Pending(c)' => Pending(c))
        BY <1>0, <1>2 DEF OpenBusy, ReadEvents, FetchFails, OnEnd, OnStreamError, Drop,
            page, query, Pending, Active, PageTypes
    <2> QED BY <1>1, <2>1, <2>2, <2>3, LiveStays
<1>3. CASE ApplyEvents(c)
    <2>1. /\ loaded'[c] /\ snapshot'[c] = fetched[c] /\ fetch[c] = "read" /\ fetch'[c] = "idle"
          /\ UNCHANGED <<live, seen, ended>>
        BY <1>0, <1>3 DEF ApplyEvents, PageTypes
    <2>2. /\ Newest(fetched[c]) \in Nat /\ Newest(fetched[c]) >= after[c]
          /\ fetched[c] = Rows(Newest(fetched[c]))
        BY <1>1, <2>1, FetchedIsRows, PageFacts
    <2>3. CASE loaded[c] /\ fetched[c] = snapshot[c]
        <3>1. UNCHANGED link
            BY <1>3, <2>3 DEF ApplyEvents
        <3>2. Read(c)' = Read(c) /\ after'[c] = after[c] /\ (Active(c)' => Active(c)) /\ ~Pending(c)'
            BY <2>1, <2>3, <3>1 DEF link, Read, Active, Pending
        <3> QED BY <1>1, <2>1, <2>3, <3>2, LiveStays
    <2>4. CASE ~(loaded[c] /\ fetched[c] = snapshot[c])
        <3>1. Effect(c, seen[c], fetched[c], ended[c]) /\ ended[c] \in BOOLEAN
            BY <1>0, <1>3, <2>4 DEF ApplyEvents, PageTypes
        <3>2. after'[c] = Newest(fetched[c]) /\ Read(c)' = Newest(fetched[c])
            BY <1>0, <2>2, <3>1, EffectIs DEF LinkTypes
        <3>3. CASE live[c] = <<>>
            BY <2>1, <2>2, <3>2, <3>3, LiveStarts
        <3>4. CASE live[c] # <<>>
            <4>1. loaded[c] /\ seen[c] # "unknown"
                BY <1>1, <3>4 DEF LiveOf
            <4>2. CASE ~Active(c)'
                BY <1>1, <2>1, <4>1, <4>2, LiveStays
            <4>3. CASE Active(c)'
                <5>1. Active(c) /\ Pending(c) /\ ~Pending(c)'
                    BY <2>1, <4>1, <4>3 DEF Active, Pending
                <5> QED BY <1>1, <2>1, <2>2, <3>2, <5>1, LiveGoesBack
            <4> QED BY <4>2, <4>3
        <3> QED BY <3>3, <3>4
    <2> QED BY <2>3, <2>4
<1>4. CASE OnEvent(c)
    BY <1>4, LiveGrows
<1>5. CASE PollStatus(c)
    <2>1. /\ UNCHANGED <<loaded, snapshot, live, ended, fetch>>
          /\ seen[c] # "terminal" /\ seen'[c] # seen[c] /\ seen'[c] \in {"running", "terminal"}
          /\ seen[c] \in {"unknown", "running", "terminal"}
        BY <1>0, <1>5 DEF PollStatus, query, PageTypes
    <2>2. CASE ~Active(c)'
        <3>1. ~loaded'[c] \/ seen'[c] = "unknown" => ~loaded[c] \/ seen[c] = "unknown"
            BY <2>1
        <3> QED BY <1>1, <2>1, <2>2, <3>1, LiveStays
    <2>3. CASE Active(c)'
        <3>1. loaded[c] /\ seen[c] = "unknown"
            BY <2>1, <2>3 DEF Active
        <3>2. live'[c] = <<>> /\ snapshot'[c] = Rows(after[c])
            BY <1>1, <2>1, <3>1 DEF LiveOf
        <3>3. PICK status : Effect(c, status, snapshot[c], ended[c])
            BY <1>5, <3>1 DEF PollStatus
        <3>4. after'[c] = after[c] /\ Read(c)' = after[c]
            BY <1>0, <1>1, <3>3, EffectIs DEF LinkTypes, PageTypes
        <3> QED BY <1>1, <3>2, <3>4, LiveStarts
    <2> QED BY <2>2, <2>3
<1>6. CASE Remount(c)
    <2>1. live'[c] = <<>> /\ snapshot'[c] = Rows(after[c]) /\ Effect(c, seen[c], snapshot[c], FALSE)
        BY <1>0, <1>1, <1>6 DEF Remount, PageTypes
    <2>2. PICK over \in BOOLEAN : over = FALSE
        OBVIOUS
    <2>3. Effect(c, seen[c], snapshot[c], over)
        BY <2>1, <2>2
    <2>4. after'[c] = after[c] /\ Read(c)' = after[c]
        BY <1>0, <1>1, <2>3, EffectIs DEF LinkTypes
    <2> QED BY <1>1, <2>1, <2>4, LiveStarts
<1> QED BY <1>2, <1>3, <1>4, <1>5, <1>6 DEF PageStep

LEMMA NextLive ==
    ASSUME Inv, Next
    PROVE  LiveInv'
<1> SUFFICES ASSUME NEW c \in Client
             PROVE  LiveOf(c)'
    BY DEF LiveInv
<1>0. last \in Nat /\ LinkTypes /\ PageTypes
    BY PageFacts, TypeParts DEF Inv
<1>1. ASSUME last' \in Nat, last' >= last, UNCHANGED <<after, lastId, page>>
      PROVE  LiveOf(c)'
    <2>1. /\ Read(c)' = Read(c) /\ (Active(c)' <=> Active(c)) /\ (Pending(c)' <=> Pending(c))
          /\ UNCHANGED <<live, after, snapshot, loaded, seen>>
        BY <1>1 DEF page, query, Read, Active, Pending
    <2> QED BY <1>1, <2>1, LiveStays
<1>2. CASE InsertEvent \/ Settle
    BY <1>0, <1>1, <1>2, RowsGrow DEF link
<1>3. CASE Restart
    BY <1>0, <1>1, <1>3 DEF Restart, rows
<1>4. ASSUME NEW s \in Sub,
             \/ SubStep(s) \/ ReceiveFails(s) \/ ListenFails(s) \/ \E d \in Client : Open(d, s)
      PROVE  LiveOf(c)'
    BY <1>0, <1>1, <1>4, ServerFrame DEF rows
<1>5. ASSUME NEW d \in Client,
             \/ OpenBusy(d) \/ PageStep(d) \/ PollStatus(d)
             \/ FetchFails(d) \/ Drop(d) \/ Remount(d)
      PROVE  LiveOf(c)'
    <2>1. CASE c = d
        BY <1>5, <2>1, PageLive
    <2>2. CASE c # d
        <3>1. UNCHANGED <<after[c], lastId[c], fetch[c], loaded[c], snapshot[c], live[c], seen[c], ended[c]>>
            BY <1>0, <1>5, <2>2 DEF OpenBusy, PageStep, ReadEvents, ApplyEvents, OnEvent, OnEnd,
                OnStreamError, PollStatus, FetchFails, Drop, Remount, Effect, link, page, query,
                LinkTypes, PageTypes
        <3>2. Read(c)' = Read(c) /\ (Active(c)' <=> Active(c)) /\ (Pending(c)' <=> Pending(c))
            BY <3>1 DEF Read, Active, Pending
        <3>3. last' = last
            BY <1>5, PageFrame DEF rows
        <3> QED BY <1>0, <3>1, <3>2, <3>3, LiveStays
    <2> QED BY <2>1, <2>2
<1> QED BY <1>2, <1>3, <1>4, <1>5, NextCases

LEMMA NextInv == Inv /\ [Next]_vars => Inv'
<1> SUFFICES ASSUME Inv, [Next]_vars
             PROVE  Inv'
    OBVIOUS
<1>1. CASE Next
    <2>1. TypeOK' /\ PermitInv' /\ SubInv' /\ LinkInv'
        BY <1>1, NextTypes, NextPermits, NextSub, NextLink
    <2>2. WireInv' /\ QueryInv' /\ LiveInv'
        BY <1>1, NextWire, NextQuery, NextLive
    <2> QED BY <2>1, <2>2 DEF Inv
<1>2. CASE UNCHANGED vars
    <2>1. UNCHANGED <<last, outcome, permits, pc, cursor, buffer, wire, conn, source, after, lastId>>
        BY <1>2 DEF vars, rows, server, link
    <2>2. UNCHANGED <<fetch, fetched, loaded, snapshot, live, seen, ended, faults>>
        BY <1>2 DEF vars, page, query
    <2>3. TypeOK' /\ PermitInv' /\ SubInv' /\ LinkInv'
        BY <2>1, <2>2 DEF Inv, TypeOK, PermitInv, Holders, SubInv, LinkInv, Active
    <2>4. WireInv' /\ QueryInv'
        BY <2>1, <2>2 DEF Inv, WireInv, WireOf, OnWire, Read, QueryInv, QueryOf, Rows
    <2>5. LiveInv'
        BY <2>1, <2>2 DEF Inv, LiveInv, LiveOf, Active, Shape, Pending, Read, Rows, Items,
                          Fresh, Ordered, Rotated
    <2> QED BY <2>3, <2>4, <2>5 DEF Inv
<1> QED BY <1>1, <1>2

\* The invariant is inductive, and holds of every state of the stream and its pages.
THEOREM Invariance == Spec => []Inv
BY InitInv, NextInv, PTL DEF Spec

\* Every permit is in the semaphore or held by a subscription that will close,
\* whatever happened in open(), receive() and close() (PermitsConserved, with the
\* types of the variables).
THEOREM Permits == Spec => []PermitsConserved
<1>1. Inv => PermitsConserved
    BY DEF Inv, PermitInv, Holders, PermitsConserved
<1> QED BY Invariance, <1>1, PTL

\* What a page has not read, on the wire and in the buffer, are the rows after the
\* one it read last: no lost connection and no reconnection skips or repeats a row
\* (StreamIsContiguous).
THEOREM Contiguous == Spec => []StreamIsContiguous
<1>1. Inv => StreamIsContiguous
    <2> SUFFICES ASSUME Inv, NEW c \in Client, conn[c] # None
                 PROVE  \E sent \in 0..Len(wire[conn[c]]) :
                            /\ Events(wire[conn[c]]) = 1..sent
                            /\ \A i \in 1..sent : wire[conn[c]][i].id = Start(c) + i
                            /\ \A i \in DOMAIN buffer[conn[c]] :
                                    buffer[conn[c]][i] = Start(c) + sent + i
                            /\ pc[conn[c]] # "free" => cursor[conn[c]] = Start(c) + sent
        BY DEF StreamIsContiguous, Start
    <2> DEFINE s == conn[c]
    <2>1. PICK sent \in 0..Len(wire[s]) : OnWire(c, sent)
        BY DEF Inv, WireInv, WireOf
    <2>2. s \in Sub /\ wire[s] \in Seq(Message) /\ buffer[s] \in Seq(Nat) /\ Read(c) \in Nat
        BY PageFacts DEF Inv, TypeOK
    <2>3. Start(c) = Read(c)
        BY StartIsRead DEF Inv
    <2>4. Events(wire[s]) = 1..sent
        <3>1. DOMAIN wire[s] = 1..Len(wire[s]) /\ Len(wire[s]) \in Nat
            BY <2>2
        <3>2. \A i \in DOMAIN wire[s] : wire[s][i].kind = "event" <=> i <= sent
            BY <2>1 DEF OnWire
        <3>3. \A i \in 1..Len(wire[s]) : i <= sent <=> i \in 1..sent
            BY <2>1
        <3>4. 1..sent \subseteq 1..Len(wire[s])
            BY <2>1, <3>1
        <3> QED BY <3>1, <3>2, <3>3, <3>4 DEF Events
    <2>5. \A i \in 1..sent : wire[s][i].id = Start(c) + i
        BY <2>1, <2>3 DEF OnWire
    <2>6. pc[s] # "free" => cursor[s] = Start(c) + sent
        BY <2>1, <2>3 DEF OnWire
    <2>7. ASSUME NEW i \in DOMAIN buffer[s]
          PROVE  buffer[s][i] = Start(c) + sent + i
        <3>1. pc[s] # "free" /\ buffer[s][i] = cursor[s] + i
            BY <2>2, <2>7 DEF Inv, SubInv
        <3> QED BY <2>6, <3>1
    <2> QED BY <2>1, <2>4, <2>5, <2>6, <2>7
<1> QED BY Invariance, <1>1, PTL

LEMMA DisplayedKnown ==
    ASSUME Inv, NEW c \in Client
    PROVE  snapshot[c] \cup Items(live[c]) \in SUBSET (1..last)
<1>1. last \in Nat /\ after[c] \in 0..last /\ snapshot[c] = Rows(after[c])
    BY PageFacts
<1>2. live[c] \in Seq(1..MaxEvents) /\ \A i \in DOMAIN live[c] : live[c][i] <= last
    BY DEF Inv, TypeOK, LiveInv, LiveOf
<1>3. \A i \in DOMAIN live[c] : live[c][i] \in 1..last
    BY <1>1, <1>2, ItemsAreNaturals
<1> QED BY <1>1, <1>3 DEF Rows, Items

\* A page that read every row shows the newest rows, and one that was told the
\* end shows the row of the outcome once its refetch is done (PageConverges).
THEOREM Converges == Spec => []PageConverges
<1>1. ASSUME Inv, NEW c \in Client, conn[c] # None,
             wire[conn[c]] = <<>>, cursor[conn[c]] = last
      PROVE  Displayed(c) = Latest(1..last)
    <2> DEFINE s == conn[c]
    <2>1. PICK sent \in 0..Len(wire[s]) : OnWire(c, sent)
        BY <1>1 DEF Inv, WireInv, WireOf
    <2>2. last \in Nat /\ Read(c) \in 0..last /\ s \in Sub
        BY <1>1, PageFacts DEF Inv, TypeOK
    <2>3. sent = 0
        BY <1>1, <2>1
    <2>4. Read(c) = last
        <3>1. CASE pc[s] = "free"
            BY <1>1, <2>2, <3>1 DEF Inv, SubInv
        <3>2. CASE pc[s] # "free"
            BY <1>1, <2>1, <2>2, <2>3, <3>2 DEF OnWire
        <3> QED BY <3>1, <3>2
    <2>5. Active(c)
        BY <1>1 DEF Inv, LinkInv
    <2>6. Rows(last) \subseteq snapshot[c] \cup Items(live[c])
        BY <1>1, <2>4, <2>5 DEF Inv, LiveInv, LiveOf
    <2>7. Latest(snapshot[c] \cup Items(live[c])) = Latest(1..last)
        BY <1>1, <2>2, <2>6, DisplayedKnown, LatestOfCovering, LatestOfAll
    <2> QED BY <2>7 DEF Displayed, Items
<1>2. ASSUME Inv, NEW c \in Client, ended[c], fetch[c] = "idle"
      PROVE  ShowsOutcome(c)
    <2> SUFFICES ASSUME outcome \in Latest(1..last)
                 PROVE  outcome \in Displayed(c)
        BY DEF ShowsOutcome
    <2>1. last \in Nat /\ after[c] \in 0..last /\ snapshot[c] = Rows(after[c])
        BY <1>2, PageFacts
    <2>2. outcome \in Rows(last)
        BY <2>1, LatestOfAll
    <2>3. outcome <= after[c]
        BY <1>2 DEF Inv, QueryInv, QueryOf
    <2>4. outcome \in Rows(after[c])
        BY <2>1, <2>2, <2>3 DEF Rows
    <2>5. outcome \in Latest(snapshot[c] \cup Items(live[c]))
        BY <1>2, <2>1, <2>2, <2>4, DisplayedKnown, LatestOfMore
    <2> QED BY <2>5 DEF Displayed, Items
<1>3. Inv => PageConverges
    BY <1>1, <1>2 DEF PageConverges
<1> QED BY Invariance, <1>3, PTL
=============================================================================
