--------------------------- MODULE SdkCommonProofs ---------------------------
(***************************************************************************)
(* Theorems about speech/src/common, for any ids, payloads, bounds and     *)
(* faults.                                                                 *)
(*                                                                         *)
(* StreamQueue: the list with tags implements the FIFO of streams, every   *)
(* method one step of it.  The inductive invariant gives the tags places g *)
(* in the list; between g[k - 1] and g[k] are the data of stream k.        *)
(*                                                                         *)
(* SpeechConnection: it never dials while it has a socket: in one session  *)
(* whenever it is released, and in any number of sessions that are         *)
(* released only when ready and quiet.  A release while the socket         *)
(* connects leaves it to the next session (conn_departs.cfg).              *)
(***************************************************************************)
EXTENDS SpeechConnection, StreamQueue, SequenceTheorems, FiniteSetTheorems, FunctionTheorems, TLAPS

-----------------------------------------------------------------------------
(* StreamQueue: the list read as streams.                                  *)

(* After(g, k) is the place the items of stream k begin behind. *)
After(g, k) == IF k = 1 THEN 0 ELSE g[k - 1]

(* The layout of the list q, for some places g: tag k of tag_queue_ stands *)
(* at g[k], in order; every tag of the list is one of them, no two have    *)
(* the same id, and the last item is a tag (pending_queue.h:452-454).      *)
Laid(q, tq, g) ==
  /\ g \in [1 .. Len(tq) -> 1 .. Len(q)]
  /\ \A j, k \in 1 .. Len(tq) : j < k => g[j] < g[k]
  /\ \A i \in 1 .. Len(q) : q[i].type # "data" => \E k \in 1 .. Len(tq) : g[k] = i
  /\ \A k \in 1 .. Len(tq) : q[g[k]].type # "data" /\ q[g[k]].id = tq[k]
  /\ \A j, k \in 1 .. Len(tq) : tq[j] = tq[k] => j = k
  /\ q # <<>> => tq # <<>> /\ g[Len(tq)] = Len(q)

(* What the items of q between a and b hold. *)
DataIn(q, a, b) == [j \in 1 .. b - (a + 1) |-> q[a + j].content]

(* The stream whose tag is at b and whose data begin behind a. *)
StreamAt(q, a, b) ==
  [id |-> q[b].id, type |-> q[b].type, polling |-> q[b].polling, data |-> DataIn(q, a, b),
   content |-> q[b].content, err |-> q[b].err]

(* The first n streams of a list laid out by g. *)
Read(q, g, n) == [k \in 1 .. n |-> StreamAt(q, After(g, k), g[k])]

(* TagPos, FirstData and streamsOf of any list: a lemma about them holds  *)
(* before a call and after it.                                             *)
PosIn(q, id) == CHOOSE i \in 1 .. Len(q) : q[i].type # "data" /\ q[i].id = id
FirstIn(q, p) == Max({0} \cup {i \in 1 .. p - 1 : q[i].type # "data"}) + 1
StreamsIn(q, tq) ==
  [k \in 1 .. Len(tq) |->
     LET p == PosIn(q, tq[k]) IN
     [id |-> tq[k], type |-> q[p].type, polling |-> q[p].polling,
      data |-> [j \in 1 .. p - FirstIn(q, p) |-> q[FirstIn(q, p) + j - 1].content],
      content |-> q[p].content, err |-> q[p].err]]

(* The items of s between a and c replaced by x. *)
Splice(s, a, c, x) == SubSeq(s, 1, a) \o <<x>> \o SubSeq(s, c, Len(s))

(* What t is made of when it is s with x in the place of the items between. *)
IsSplice(t, s, a, c, x) ==
  /\ Len(t) = Len(s) - (c - (a + 2))
  /\ \A j \in 1 .. a : t[j] = s[j]
  /\ t[a + 1] = x
  /\ \A j \in c .. Len(s) : t[j - (c - (a + 2))] = s[j]

(* What InsertAt and erase() build: the items before a, x, and those from c. *)
LEMMA Spliced ==
  ASSUME NEW S, NEW s \in Seq(S), NEW a \in Nat, NEW c \in a + 1 .. Len(s) + 1, NEW x \in S
  PROVE  Splice(s, a, c, x) \in Seq(S) /\ IsSplice(Splice(s, a, c, x), s, a, c, x)
  <1> DEFINE l == SubSeq(s, 1, a)
             m == l \o <<x>>
             e == SubSeq(s, c, Len(s))
             t == Splice(s, a, c, x)
  <1>0. Len(s) \in Nat /\ c \in Nat
    OBVIOUS
  <1>1. l \in Seq(S) /\ Len(l) = a /\ \A j \in 1 .. a : l[j] = s[j]
    OBVIOUS
  <1>2. e \in Seq(S) /\ Len(e) = (Len(s) - c) + 1
        /\ \A j \in 1 .. (Len(s) - c) + 1 : e[j] = s[(c + j) - 1]
    OBVIOUS
  <1> HIDE DEF l, e
  <1>3. m \in Seq(S) /\ Len(m) = a + 1 /\ m[a + 1] = x /\ \A j \in 1 .. a : m[j] = s[j]
    BY <1>1
  <1>4. t = m \o e
    BY DEF m, l, e, Splice
  <1> HIDE DEF m, t
  <1>4a. m \in Seq(S) /\ e \in Seq(S)
    BY <1>2, <1>3
  <1>4b. /\ t \in Seq(S) /\ Len(t) = Len(m) + Len(e)
        /\ \A i \in 1 .. Len(m) + Len(e) : t[i] = IF i <= Len(m) THEN m[i] ELSE e[i - Len(m)]
    BY <1>4, <1>4a, ConcatProperties
  <1>5. Len(t) = (a + 1) + ((Len(s) - c) + 1)
    BY <1>2, <1>3, <1>4b
  <1>6. \A j \in 1 .. a + 1 : t[j] = m[j]
    BY <1>0, <1>2, <1>3, <1>4b
  <1>7. \A j \in 1 .. Len(e) : t[(a + 1) + j] = e[j]
    <2> TAKE j \in 1 .. Len(e)
    <2>1. (a + 1) + j \in 1 .. Len(m) + Len(e) /\ ~((a + 1) + j <= Len(m))
          /\ ((a + 1) + j) - Len(m) = j
      BY <1>0, <1>2, <1>3
    <2> QED
      BY <1>4b, <2>1
  <1>8. \A j \in c .. Len(s) : t[j - (c - (a + 2))] = s[j]
    <2> TAKE j \in c .. Len(s)
    <2> DEFINE i == (j - c) + 1
    <2>1. i \in 1 .. (Len(s) - c) + 1 /\ (c + i) - 1 = j /\ (a + 1) + i = j - (c - (a + 2))
      BY <1>0
    <2> HIDE DEF i
    <2> QED
      BY <1>2, <1>7, <2>1
  <1>9. Len(t) = Len(s) - (c - (a + 2))
    BY <1>0, <1>5
  <1>10. t[a + 1] = x /\ \A j \in 1 .. a : t[j] = s[j]
    BY <1>3, <1>6
  <1> QED
    BY <1>4b, <1>8, <1>9, <1>10 DEF t, IsSplice

(* The refinement mapping reads the list with the operators above. *)
LEMMA StreamsAre == /\ streamsOf = StreamsIn(queue_, tag_queue_)
                    /\ streamsOf' = StreamsIn(queue_', tag_queue_')
  BY DEF streamsOf, StreamsIn, PosIn, FirstIn, TagPos, FirstData, DataBefore, IsTag

(* The iterator in item_tags_ points to the tag of its id. *)
LEMMA TagFound ==
  ASSUME NEW q \in Seq(Item), NEW tq \in Seq(Ids), NEW g, Laid(q, tq, g), NEW k \in 1 .. Len(tq)
  PROVE  PosIn(q, tq[k]) = g[k]
  <1> DEFINE P(i) == q[i].type # "data" /\ q[i].id = tq[k]
  <1>1. g[k] \in 1 .. Len(q) /\ P(g[k])
    BY DEF Laid
  <1>2. ASSUME NEW i \in 1 .. Len(q), P(i) PROVE i = g[k]
    BY <1>2 DEF Laid
  <1> QED
    BY <1>1, <1>2 DEF PosIn

(* The places of two tags are ordered as the tags are. *)
LEMMA Ordered ==
  ASSUME NEW q \in Seq(Item), NEW tq \in Seq(Ids), NEW g, Laid(q, tq, g),
         NEW j \in 1 .. Len(tq), NEW k \in 1 .. Len(tq)
  PROVE  /\ g[j] \in 1 .. Len(q) /\ g[k] \in 1 .. Len(q)
         /\ j < k <=> g[j] < g[k]
         /\ j <= k => g[j] <= g[k]
         /\ j = k <=> g[j] = g[k]
  <1>1. g[j] \in 1 .. Len(q) /\ g[k] \in 1 .. Len(q)
    BY DEF Laid
  <1>2. (j < k => g[j] < g[k]) /\ (k < j => g[k] < g[j])
    BY DEF Laid
  <1>3. Len(q) \in Nat /\ Len(tq) \in Nat
    OBVIOUS
  <1> QED
    BY <1>1, <1>2, <1>3

(* The walk back from a tag in erase() ends behind the tag before it (296-305). *)
LEMMA FirstFound ==
  ASSUME NEW q \in Seq(Item), NEW tq \in Seq(Ids), NEW g, Laid(q, tq, g), NEW k \in 1 .. Len(tq)
  PROVE  FirstIn(q, g[k]) = After(g, k) + 1
  <1> DEFINE T == {0} \cup {i \in 1 .. g[k] - 1 : q[i].type # "data"}
             a == After(g, k)
  <1>1. a \in T /\ T \subseteq Int
    <2>1. k = 1 => a = 0
      BY DEF After
    <2>2. k # 1 => k - 1 \in 1 .. Len(tq) /\ a = g[k - 1]
      BY DEF After
    <2>3. ASSUME k # 1
          PROVE  /\ g[k - 1] < g[k] /\ g[k - 1] \in 1 .. Len(q) /\ g[k] \in 1 .. Len(q)
                 /\ q[g[k - 1]].type # "data"
      BY <2>2, <2>3 DEF Laid
    <2>4. g[k] \in 1 .. Len(q)
      BY DEF Laid
    <2> QED
      BY <2>1, <2>2, <2>3, <2>4
  <1>2. ASSUME NEW i \in T PROVE a >= i
    <2>1. CASE i = 0
      BY <1>1, <2>1
    <2>2. CASE i # 0
      <3>1. i \in 1 .. Len(q) /\ i < g[k] /\ q[i].type # "data"
        BY <2>2 DEF Laid
      <3>2. PICK j \in 1 .. Len(tq) : g[j] = i
        BY <3>1 DEF Laid
      <3>3. j < k
        BY <3>1, <3>2, Ordered
      <3>4. k # 1 /\ a = g[k - 1] /\ k - 1 \in 1 .. Len(tq)
        BY <3>3 DEF After
      <3>5. g[j] <= g[k - 1]
        <4>1. j < k - 1 \/ j = k - 1
          BY <3>3
        <4> QED
          BY <3>4, <4>1, Ordered
      <3>6. g[j] \in 1 .. Len(q) /\ g[k - 1] \in 1 .. Len(q)
        BY <3>4 DEF Laid
      <3> QED
        BY <3>2, <3>4, <3>5, <3>6
    <2> QED
      BY <2>1, <2>2
  <1>3. Max(T) = a
    <2> HIDE DEF T, a
    <2>1. Max(T) \in T /\ \A y \in T : Max(T) >= y
      BY <1>1, <1>2 DEF Max
    <2>2. a >= Max(T) /\ Max(T) >= a /\ a \in Int /\ Max(T) \in Int
      BY <1>1, <1>2, <2>1
    <2> QED
      BY <2>2
  <1> QED
    BY <1>3 DEF FirstIn

(* Where the items of the k-th stream begin. *)
LEMMA AfterIs ==
  ASSUME NEW q \in Seq(Item), NEW tq \in Seq(Ids), NEW g, Laid(q, tq, g), NEW k \in 1 .. Len(tq)
  PROVE  /\ g[k] \in 1 .. Len(q) /\ After(g, k) \in Nat /\ After(g, k) < g[k]
         /\ k = 1 => After(g, k) = 0
         /\ k # 1 => k - 1 \in 1 .. Len(tq) /\ After(g, k) = g[k - 1]
  <1>1. g[k] \in 1 .. Len(q)
    BY DEF Laid
  <1>2. k # 1 => k - 1 \in 1 .. Len(tq) /\ After(g, k) = g[k - 1]
    BY DEF After
  <1>3. k # 1 => g[k - 1] < g[k] /\ g[k - 1] \in 1 .. Len(q)
    BY <1>2 DEF Laid
  <1> QED
    BY <1>1, <1>2, <1>3 DEF After

(* The streams of a list are those between its tags. *)
LEMMA ReadIs ==
  ASSUME NEW q \in Seq(Item), NEW tq \in Seq(Ids), NEW g, Laid(q, tq, g)
  PROVE  StreamsIn(q, tq) = Read(q, g, Len(tq))
  <1> SUFFICES ASSUME NEW k \in 1 .. Len(tq)
               PROVE  StreamsIn(q, tq)[k] = Read(q, g, Len(tq))[k]
    BY DEF StreamsIn, Read
  <1> DEFINE a == After(g, k)
             b == g[k]
  <1>1. PosIn(q, tq[k]) = b /\ FirstIn(q, b) = a + 1 /\ a \in Nat /\ b \in Nat
    BY TagFound, FirstFound, AfterIs
  <1>2. q[b].id = tq[k]
    BY DEF Laid
  <1> HIDE DEF a, b
  <1>3. [j \in 1 .. b - (a + 1) |-> q[(a + 1) + j - 1].content] =
        [j \in 1 .. b - (a + 1) |-> q[a + j].content]
    BY <1>1
  <1>4. StreamsIn(q, tq)[k] = StreamAt(q, a, b)
    BY <1>1, <1>2, <1>3 DEF StreamsIn, StreamAt, DataIn
  <1> QED
    BY <1>4 DEF Read, a, b

-----------------------------------------------------------------------------
(* A tag changes its state where it is. *)
Same(q, g, r, h, n, m) ==
  \A k \in 1 .. n : k # m => StreamAt(r, After(h, k), h[k]) = StreamAt(q, After(g, k), g[k])

(* An item of the list is a record with the fields of an item. *)
LEMMA ElementIs ==
  ASSUME NEW q \in Seq(Item), NEW i \in 1 .. Len(q)
  PROVE  q[i] \in Item
  OBVIOUS

Retag(q, p, x) == [q EXCEPT ![p] = x]

(* A tag replaced where it is: end() and the first pop() of a stream. *)
LEMMA Retagged ==
  ASSUME NEW q \in Seq(Item), NEW tq \in Seq(Ids), NEW g, Laid(q, tq, g), NEW m \in 1 .. Len(tq),
         NEW x \in Item, x.type # "data", x.id = tq[m],
         NEW r, r = Retag(q, g[m], x)
  PROVE  /\ r \in Seq(Item) /\ Len(r) = Len(q) /\ Laid(r, tq, g)
         /\ r[g[m]] = x
         /\ \A i \in 1 .. Len(q) : i # g[m] => r[i] = q[i]
         /\ Same(q, g, r, g, Len(tq), m)
         /\ StreamAt(r, After(g, m), g[m]).data = StreamAt(q, After(g, m), g[m]).data
  <1>1. g[m] \in 1 .. Len(q)
    BY Ordered
  <1>2. r \in Seq(Item) /\ Len(r) = Len(q) /\ r[g[m]] = x
        /\ \A i \in 1 .. Len(q) : i # g[m] => r[i] = q[i]
    BY <1>1 DEF Retag
  <1>3. \A k \in 1 .. Len(tq) : k # m => g[k] # g[m] /\ g[k] \in 1 .. Len(q)
    BY Ordered
  <1>4. Laid(r, tq, g)
    <2>1. \A i \in 1 .. Len(r) : r[i].type # "data" => \E k \in 1 .. Len(tq) : g[k] = i
      BY <1>2 DEF Laid
    <2>2. \A k \in 1 .. Len(tq) : r[g[k]].type # "data" /\ r[g[k]].id = tq[k]
      BY <1>2, <1>3 DEF Laid
    <2>3. r # <<>> => q # <<>>
      BY <1>2
    <2> QED
      BY <1>2, <2>1, <2>2, <2>3 DEF Laid
  <1>5. ASSUME NEW k \in 1 .. Len(tq)
        PROVE  DataIn(r, After(g, k), g[k]) = DataIn(q, After(g, k), g[k])
    <2>1. After(g, k) \in Nat /\ g[k] \in 1 .. Len(q)
      BY AfterIs
    <2> SUFFICES ASSUME NEW j \in 1 .. g[k] - (After(g, k) + 1)
                 PROVE  r[After(g, k) + j] = q[After(g, k) + j]
      BY DEF DataIn
    <2>2. After(g, k) + j \in 1 .. Len(q) /\ After(g, k) < After(g, k) + j /\ After(g, k) + j < g[k]
      BY <2>1
    <2>3. After(g, k) + j # g[m]
      <3>1. CASE m < k
        <4>1. k # 1 /\ k - 1 \in 1 .. Len(tq) /\ m <= k - 1
          BY <3>1
        <4>2. g[m] <= g[k - 1]
          BY <4>1, Ordered
        <4>3. After(g, k) = g[k - 1]
          BY <4>1, AfterIs
        <4> QED
          BY <1>1, <2>1, <2>2, <4>2, <4>3
      <3>2. CASE ~(m < k)
        <4>1. g[k] <= g[m]
          BY <3>2, Ordered
        <4> QED
          BY <1>1, <2>1, <2>2, <4>1
      <3> QED
        BY <3>1, <3>2
    <2> QED
      BY <1>2, <2>2, <2>3
  <1>6. Same(q, g, r, g, Len(tq), m)
    BY <1>2, <1>3, <1>5 DEF Same, StreamAt
  <1>7. StreamAt(r, After(g, m), g[m]).data = StreamAt(q, After(g, m), g[m]).data
    BY <1>5 DEF StreamAt
  <1> QED
    BY <1>2, <1>4, <1>6, <1>7

Content == Data \cup {NoData}

(* The data of a stream are a sequence as long as its place. *)
LEMMA DataType ==
  ASSUME NEW q \in Seq(Item), NEW b \in 1 .. Len(q), NEW a \in Nat, a < b
  PROVE  /\ DataIn(q, a, b) \in [1 .. b - (a + 1) -> Content] /\ b - (a + 1) \in Nat
         /\ DataIn(q, a, b) \in Seq(Content) /\ Len(DataIn(q, a, b)) = b - (a + 1)
  <1>1. ASSUME NEW j \in 1 .. b - (a + 1) PROVE q[a + j].content \in Content
    <2>1. a + j \in 1 .. Len(q)
      OBVIOUS
    <2>2. q[a + j] \in Item
      BY <2>1, ElementIs
    <2> QED
      BY <2>2 DEF Item, Content
  <1>2. DataIn(q, a, b) \in [1 .. b - (a + 1) -> Content] /\ b - (a + 1) \in Nat
    <2>1. b - (a + 1) \in Nat
      OBVIOUS
    <2>2. DataIn(q, a, b) \in [1 .. b - (a + 1) -> Content]
      BY <1>1, Zenon DEF DataIn
    <2> QED
      BY <2>1, <2>2
  <1> QED
    BY <1>2

(* The items of a stream move d places. *)
Moved(q, r, a, b, d) == \A i \in a + 1 .. b : r[i + d] = q[i]

(* A stream whose items have moved together is the same stream. *)
LEMMA SameStream ==
  ASSUME NEW q, NEW r, NEW a \in Int, NEW b \in Int, a < b, NEW d \in Int,
         Moved(q, r, a, b, d)
  PROVE  StreamAt(r, a + d, b + d) = StreamAt(q, a, b)
  <1>1. r[b + d] = q[b]
    BY DEF Moved
  <1>2. DataIn(r, a + d, b + d) = DataIn(q, a, b)
    <2>1. (b + d) - ((a + d) + 1) = b - (a + 1)
      OBVIOUS
    <2>2. ASSUME NEW j \in 1 .. b - (a + 1) PROVE r[(a + d) + j] = q[a + j]
      <3>1. a + j \in a + 1 .. b /\ (a + j) + d = (a + d) + j
        OBVIOUS
      <3> QED
        BY <3>1 DEF Moved
    <2> QED
      BY <2>1, <2>2 DEF DataIn
  <1> QED
    BY <1>1, <1>2 DEF StreamAt

(* An item more at the end of a sequence, and one less at its front. *)
Longer(f, n, x) == [j \in 1 .. n + 1 |-> IF j = n + 1 THEN x ELSE f[j]]

(* The data of a stream with one more are Append (stream(), 234-239). *)
LEMMA AppendIs ==
  ASSUME NEW C, NEW n \in Nat, NEW f \in [1 .. n -> C], NEW x \in C
  PROVE  Longer(f, n, x) = Append(f, x)
  <1>1. f \in Seq(C) /\ Len(f) = n
    OBVIOUS
  <1>2. Append(f, x) \in Seq(C) /\ Len(Append(f, x)) = n + 1
    BY <1>1
  <1>3. Append(f, x) \in [1 .. n + 1 -> C]
    BY <1>2, LenProperties
  <1>4. \A j \in 1 .. n + 1 : Append(f, x)[j] = IF j = n + 1 THEN x ELSE f[j]
    BY <1>1
  <1> QED
    BY <1>3, <1>4 DEF Longer

Shorter(f, n) == [j \in 1 .. n - 1 |-> f[j + 1]]

(* The data of the first stream without the first are Tail (pop(), 423-431). *)
LEMMA TailIs ==
  ASSUME NEW C, NEW n \in Nat \ {0}, NEW f \in [1 .. n -> C]
  PROVE  Shorter(f, n) = Tail(f)
  <1>1. f \in Seq(C) /\ Len(f) = n /\ f # <<>>
    OBVIOUS
  <1>2. Tail(f) \in Seq(C) /\ Len(Tail(f)) = n - 1
    BY <1>1
  <1>3. Tail(f) \in [1 .. n - 1 -> C]
    BY <1>2, LenProperties
  <1>4. \A j \in 1 .. n - 1 : Tail(f)[j] = f[j + 1]
    BY <1>1
  <1> QED
    BY <1>3, <1>4 DEF Shorter

(* The places of the tags when an item is put before the m-th one. *)
Later(g, n, m) == [k \in 1 .. n |-> IF k < m THEN g[k] ELSE g[k] + 1]

(* A stream with the data d put at the end of its data. *)
Gained(s, d) == [s EXCEPT !.data = Append(@, d)]

(* stream(): a data item put directly before the m-th tag is the last of   *)
(* the m-th stream and of no other (pending_queue.h:234-239).              *)
LEMMA Inserted ==
  ASSUME NEW q \in Seq(Item), NEW tq \in Seq(Ids), NEW g, Laid(q, tq, g), NEW m \in 1 .. Len(tq),
         NEW x \in Item, x.type = "data", NEW r, r = Splice(q, g[m] - 1, g[m], x),
         NEW h, h = Later(g, Len(tq), m)
  PROVE  /\ r \in Seq(Item) /\ Laid(r, tq, h) /\ Same(q, g, r, h, Len(tq), m)
         /\ StreamAt(r, After(h, m), h[m]) = Gained(StreamAt(q, After(g, m), g[m]), x.content)
  <1> DEFINE n == Len(tq)
  <1>0. h = [k \in 1 .. n |-> IF k < m THEN g[k] ELSE g[k] + 1]
    BY DEF Later
  <1>1. g[m] \in 1 .. Len(q) /\ Len(q) \in Nat /\ n \in Nat
    BY Ordered
  <1>2. /\ r \in Seq(Item) /\ Len(r) = Len(q) + 1
        /\ r[g[m]] = x
        /\ \A j \in 1 .. g[m] - 1 : r[j] = q[j]
        /\ \A j \in g[m] .. Len(q) : r[j + 1] = q[j]
    <2> DEFINE b == g[m]
               a == b - 1
    <2>1. r = Splice(q, a, b, x)
      OBVIOUS
    <2>2. a \in Nat /\ b \in a + 1 .. Len(q) + 1 /\ a + 1 = b /\ b - (a + 2) = -1 /\ b \in Nat
      BY <1>1
    <2> HIDE DEF a, b
    <2>2a. r \in Seq(Item) /\ IsSplice(r, q, a, b, x)
      BY <2>1, <2>2, Spliced
    <2>3. /\ r \in Seq(Item) /\ Len(r) = Len(q) - (b - (a + 2))
          /\ \A j \in 1 .. a : r[j] = q[j]
          /\ r[a + 1] = x
          /\ \A j \in b .. Len(q) : r[j - (b - (a + 2))] = q[j]
      BY <2>2a DEF IsSplice
    <2>4. \A j \in b .. Len(q) : r[j + 1] = q[j]
      BY <1>1, <2>2, <2>3
    <2>5. Len(r) = Len(q) + 1
      BY <1>1, <2>2, <2>3
    <2> QED
      BY <2>2, <2>3, <2>4, <2>5 DEF a, b
  <1>3. /\ r[g[m]] = x
        /\ \A j \in 1 .. g[m] - 1 : r[j] = q[j]
        /\ \A j \in g[m] .. Len(q) : r[j + 1] = q[j]
    BY <1>2
  <1>4. \A k \in 1 .. n : h[k] = IF k < m THEN g[k] ELSE g[k] + 1
    BY <1>0
  <1>5. \A k \in 1 .. n : g[k] \in 1 .. Len(q) /\ (k < m <=> g[k] < g[m])
    BY Ordered
  <1>6. \A k \in 1 .. n : h[k] \in 1 .. Len(r) /\ r[h[k]] = q[g[k]]
    <2> TAKE k \in 1 .. n
    <2>1. CASE k < m
      <3>1. h[k] = g[k] /\ g[k] \in 1 .. g[m] - 1
        BY <1>1, <1>4, <1>5, <2>1
      <3> QED
        BY <1>1, <1>2, <1>5, <3>1
    <2>2. CASE ~(k < m)
      <3>1. h[k] = g[k] + 1 /\ g[k] \in g[m] .. Len(q)
        BY <1>1, <1>4, <1>5, <2>2
      <3> QED
        BY <1>1, <1>2, <1>5, <3>1
    <2> QED
      BY <2>1, <2>2
  <1>7. Laid(r, tq, h)
    <2>1. h \in [1 .. n -> 1 .. Len(r)]
      BY <1>0, <1>6
    <2>2. \A j, k \in 1 .. n : j < k => h[j] < h[k]
      <3> SUFFICES ASSUME NEW j \in 1 .. n, NEW k \in 1 .. n, j < k PROVE h[j] < h[k]
        OBVIOUS
      <3>1. g[j] < g[k] /\ g[j] \in Nat /\ g[k] \in Nat
        BY <1>5, Ordered
      <3> QED
        BY <1>4, <3>1
    <2>3. \A i \in 1 .. Len(r) : r[i].type # "data" => \E k \in 1 .. n : h[k] = i
      <3> SUFFICES ASSUME NEW i \in 1 .. Len(r), r[i].type # "data" PROVE \E k \in 1 .. n : h[k] = i
        OBVIOUS
      <3>1. i # g[m]
        BY <1>3
      <3>2. CASE i < g[m]
        <4>1. i \in 1 .. Len(q) /\ q[i].type # "data"
          BY <1>1, <1>3, <3>2
        <4>2. PICK k \in 1 .. n : g[k] = i
          BY <4>1 DEF Laid
        <4>3. h[k] = i
          BY <1>4, <1>5, <3>2, <4>2
        <4> QED
          BY <4>3
      <3>3. CASE i > g[m]
        <4>1. i - 1 \in g[m] .. Len(q) /\ i - 1 \in 1 .. Len(q) /\ (i - 1) + 1 = i
          BY <1>1, <1>2, <3>3
        <4>2. q[i - 1].type # "data"
          BY <1>3, <4>1
        <4>3. PICK k \in 1 .. n : g[k] = i - 1
          BY <4>1, <4>2 DEF Laid
        <4>4. ~(k < m)
          BY <1>1, <1>5, <4>1, <4>3
        <4>5. h[k] = i
          BY <1>4, <4>1, <4>3, <4>4
        <4> QED
          BY <4>5
      <3> QED
        BY <1>1, <1>2, <3>1, <3>2, <3>3
    <2>4. \A k \in 1 .. n : r[h[k]].type # "data" /\ r[h[k]].id = tq[k]
      BY <1>6 DEF Laid
    <2>5. tq # <<>> /\ h[n] = Len(r)
      <3>1. n \in 1 .. n /\ ~(n < m) /\ tq # <<>> /\ q # <<>>
        BY <1>1
      <3>2. g[n] = Len(q)
        BY <3>1 DEF Laid
      <3> QED
        BY <1>2, <1>4, <3>1, <3>2
    <2> QED
      BY <2>1, <2>2, <2>3, <2>4, <2>5 DEF Laid
  <1>8. \A k \in 1 .. n :
          /\ After(g, k) \in Nat /\ After(g, k) < g[k]
          /\ After(h, k) = IF k <= m THEN After(g, k) ELSE After(g, k) + 1
    <2> TAKE k \in 1 .. n
    <2>1. /\ After(g, k) \in Nat /\ After(g, k) < g[k]
          /\ k = 1 => After(g, k) = 0
          /\ k # 1 => k - 1 \in 1 .. n /\ After(g, k) = g[k - 1]
      BY AfterIs
    <2>2. k # 1 => After(h, k) = h[k - 1] /\ (k - 1 < m <=> k <= m)
      BY DEF After
    <2>3. k = 1 => After(h, k) = 0 /\ k <= m
      BY DEF After
    <2> QED
      BY <1>4, <2>1, <2>2, <2>3
  <1>9. Same(q, g, r, h, n, m)
    <2> SUFFICES ASSUME NEW k \in 1 .. n, k # m
                 PROVE  StreamAt(r, After(h, k), h[k]) = StreamAt(q, After(g, k), g[k])
      BY DEF Same
    <2> DEFINE a == After(g, k)
               b == g[k]
    <2>1. a \in Nat /\ b \in 1 .. Len(q) /\ a < b
      BY <1>5, <1>8
    <2>2. CASE k < m
      <3>1. h[k] = b /\ After(h, k) = a /\ b < g[m]
        BY <1>4, <1>5, <1>8, <2>2
      <3> HIDE DEF a, b
      <3>2. Moved(q, r, a, b, 0)
        BY <1>1, <1>3, <2>1, <3>1 DEF Moved
      <3>3. StreamAt(r, a + 0, b + 0) = StreamAt(q, a, b) /\ a + 0 = a /\ b + 0 = b
        BY <2>1, <3>2, SameStream
      <3> QED
        BY <3>1, <3>3 DEF a, b
    <2>3. CASE k > m
      <3>1. h[k] = b + 1 /\ After(h, k) = a + 1
        BY <1>4, <1>8, <2>3
      <3>2. a >= g[m]
        <4>1. k # 1 /\ k - 1 \in 1 .. n /\ m <= k - 1
          BY <2>3
        <4>2. a = g[k - 1]
          BY <4>1 DEF After
        <4>3. g[m] <= g[k - 1]
          BY <4>1, Ordered
        <4> QED
          BY <4>2, <4>3
      <3> HIDE DEF a, b
      <3>3. Moved(q, r, a, b, 1)
        BY <1>1, <1>3, <2>1, <3>2 DEF Moved
      <3>4. StreamAt(r, a + 1, b + 1) = StreamAt(q, a, b)
        BY <2>1, <3>3, SameStream
      <3> QED
        BY <3>1, <3>4 DEF a, b
    <2> QED
      BY <2>2, <2>3
  <1>10. StreamAt(r, After(h, m), h[m]) =
              [StreamAt(q, After(g, m), g[m]) EXCEPT !.data = Append(@, x.content)]
    <2> DEFINE a == After(g, m)
               b == g[m]
    <2>1. a \in Nat /\ b \in 1 .. Len(q) /\ a < b /\ After(h, m) = a /\ h[m] = b + 1
      <3>1. m <= m /\ ~(m < m)
        OBVIOUS
      <3> QED
        BY <1>1, <1>4, <1>8, <3>1
    <2>2. r[b + 1] = q[b]
      BY <1>3, <2>1
    <2>3. \A j \in 1 .. b - (a + 1) : r[a + j] = q[a + j]
      <3> TAKE j \in 1 .. b - (a + 1)
      <3>1. a + j \in 1 .. g[m] - 1
        BY <2>1
      <3> QED
        BY <1>3, <3>1
    <2>4. r[a + ((b - (a + 1)) + 1)] = x
      <3>1. a + ((b - (a + 1)) + 1) = b
        <4>1. a \in Int /\ b \in Int
          BY <2>1
        <4> HIDE DEF a, b
        <4> QED
          BY <4>1
      <3> QED
        BY <1>3, <3>1
    <2> HIDE DEF a, b
    <2>5. DataIn(r, a, b + 1) = Longer(DataIn(q, a, b), b - (a + 1), x.content)
      <3>1. (b + 1) - (a + 1) = (b - (a + 1)) + 1 /\ b - (a + 1) \in Nat
        BY <2>1
      <3>2. \A j \in 1 .. (b - (a + 1)) + 1 : j # (b - (a + 1)) + 1 => j \in 1 .. b - (a + 1)
        BY <3>1
      <3> QED
        BY <2>3, <2>4, <3>1, <3>2 DEF DataIn, Longer
    <2>6. x.content \in Content
      BY DEF Item, Content
    <2>7. DataIn(r, a, b + 1) = Append(DataIn(q, a, b), x.content)
      <3>1. DataIn(q, a, b) \in [1 .. b - (a + 1) -> Content] /\ b - (a + 1) \in Nat
        BY <2>1, DataType
      <3> DEFINE c == b - (a + 1)
                 f == DataIn(q, a, b)
                 v == x.content
      <3>2. c \in Nat /\ f \in [1 .. c -> Content] /\ v \in Content
        BY <2>6, <3>1
      <3> HIDE DEF c, f, v
      <3>3. Longer(f, c, v) = Append(f, v)
        BY <3>2, AppendIs
      <3> QED
        BY <2>5, <3>3 DEF c, f, v
    <2>8. StreamAt(r, a, b + 1) = [StreamAt(q, a, b) EXCEPT !.data = Append(@, x.content)]
      <3> DEFINE e == Append(DataIn(q, a, b), x.content)
      <3>1. StreamAt(q, a, b).data = DataIn(q, a, b)
        BY DEF StreamAt
      <3>2. StreamAt(r, a, b + 1) = [StreamAt(q, a, b) EXCEPT !.data = e]
        <4> HIDE DEF e
        <4> SUFFICES ASSUME DataIn(r, a, b + 1) = e
                     PROVE  StreamAt(r, a, b + 1) = [StreamAt(q, a, b) EXCEPT !.data = e]
          BY <2>7 DEF e
        <4> QED
          BY <2>2 DEF StreamAt
      <3> QED
        BY <3>1, <3>2
    <2> QED
      BY <2>1, <2>8 DEF a, b
  <1> QED
    BY <1>2, <1>7, <1>9, <1>10 DEF Gained

(* The places of the tags when the items of the m-th stream are cut out. *)
Earlier(g, n, m) ==
  [k \in 1 .. n |-> IF k < m THEN g[k] ELSE g[k] - (g[m] - (After(g, m) + 1))]

(* erase(): the data before the m-th tag go and the tag is replaced; the    *)
(* other streams keep theirs (pending_queue.h:296-324).                    *)
LEMMA CutOut ==
  ASSUME NEW q \in Seq(Item), NEW tq \in Seq(Ids), NEW g, Laid(q, tq, g), NEW m \in 1 .. Len(tq),
         NEW x \in Item, x.type # "data", x.id = tq[m],
         NEW r, r = Splice(q, After(g, m), g[m] + 1, x),
         NEW h, h = Earlier(g, Len(tq), m)
  PROVE  /\ r \in Seq(Item) /\ Laid(r, tq, h) /\ Same(q, g, r, h, Len(tq), m)
         /\ r[h[m]] = x /\ DataIn(r, After(h, m), h[m]) = <<>>
  <1> DEFINE n == Len(tq)
             a == After(g, m)
             b == g[m]
             d == b - (a + 1)
  <1>0. h = [k \in 1 .. n |-> IF k < m THEN g[k] ELSE g[k] - d]
    BY DEF Earlier
  <1>1. /\ b \in 1 .. Len(q) /\ Len(q) \in Nat /\ n \in Nat /\ a \in Nat /\ a < b /\ a \in Int
        /\ d \in Nat /\ b - d = a + 1 /\ (b + 1) - (a + 2) = d /\ b + 1 \in a + 1 .. Len(q) + 1
    BY AfterIs
  <1>2. r = Splice(q, a, b + 1, x)
    OBVIOUS
  <1>3. \A k \in 1 .. n : h[k] = IF k < m THEN g[k] ELSE g[k] - d
    BY <1>0
  <1>4. \A k \in 1 .. n : g[k] \in 1 .. Len(q) /\ (k < m <=> g[k] < b)
    BY Ordered
  <1>5. \A k \in 1 .. n : k < m => g[k] <= a
    <2> SUFFICES ASSUME NEW k \in 1 .. n, k < m PROVE g[k] <= a
      OBVIOUS
    <2>1. m # 1 /\ m - 1 \in 1 .. n /\ k <= m - 1
      OBVIOUS
    <2>2. a = g[m - 1]
      BY <2>1, AfterIs
    <2> QED
      BY <2>1, <2>2, Ordered
  <1>6. \A k \in 1 .. n : g[k] = b => k = m
    BY Ordered
  <1>7. \A k \in 1 .. n :
          /\ After(g, k) \in Nat /\ After(g, k) < g[k]
          /\ k = 1 => After(g, k) = 0
          /\ k # 1 => k - 1 \in 1 .. n /\ After(g, k) = g[k - 1]
    BY AfterIs
  <1> HIDE DEF a, b, d
  <1>8. r \in Seq(Item) /\ IsSplice(r, q, a, b + 1, x)
    BY <1>1, <1>2, Spliced
  <1>9. /\ Len(r) = Len(q) - d
        /\ \A j \in 1 .. a : r[j] = q[j]
        /\ r[a + 1] = x
        /\ \A j \in b + 1 .. Len(q) : r[j - d] = q[j]
    BY <1>1, <1>8 DEF IsSplice
  <1>10. h[m] = a + 1
    <2>1. m \in 1 .. n /\ ~(m < m)
      OBVIOUS
    <2>2. h[m] = b - d
      BY <1>3, <2>1 DEF b
    <2> QED
      BY <1>1, <2>2
  <1>11. \A k \in 1 .. n : k # m => h[k] \in 1 .. Len(r) /\ r[h[k]] = q[g[k]]
    <2> SUFFICES ASSUME NEW k \in 1 .. n, k # m PROVE h[k] \in 1 .. Len(r) /\ r[h[k]] = q[g[k]]
      OBVIOUS
    <2>1. CASE k < m
      <3>1. h[k] = g[k] /\ g[k] \in 1 .. a
        BY <1>1, <1>3, <1>4, <1>5, <2>1
      <3> QED
        BY <1>1, <1>9, <3>1
    <2>2. CASE ~(k < m)
      <3>1. g[k] # b /\ ~(g[k] < b) /\ g[k] \in 1 .. Len(q)
        BY <1>4, <1>6, <2>2
      <3>2. h[k] = g[k] - d
        BY <1>3, <2>2
      <3>3. g[k] \in b + 1 .. Len(q)
        BY <1>1, <3>1
      <3>4. h[k] \in 1 .. Len(r)
        BY <1>1, <1>9, <3>2, <3>3
      <3> QED
        BY <1>9, <3>2, <3>3, <3>4
    <2> QED
      BY <2>1, <2>2
  <1>12. h[m] \in 1 .. Len(r) /\ r[h[m]] = x
    BY <1>1, <1>9, <1>10
  <1>13. Laid(r, tq, h)
    <2>1. h \in [1 .. n -> 1 .. Len(r)]
      BY <1>0, <1>11, <1>12
    <2>2. \A j, k \in 1 .. n : j < k => h[j] < h[k]
      <3> SUFFICES ASSUME NEW j \in 1 .. n, NEW k \in 1 .. n, j < k PROVE h[j] < h[k]
        OBVIOUS
      <3>1. g[j] < g[k] /\ g[j] \in Nat /\ g[k] \in Nat
        BY <1>4, Ordered
      <3>2. CASE j < m /\ ~(k < m)
        <4>1. g[j] <= a /\ h[j] = g[j] /\ h[k] = g[k] - d /\ g[k] >= b
          BY <1>1, <1>3, <1>4, <1>5, <3>2
        <4> QED
          BY <1>1, <3>1, <4>1
      <3>3. CASE k < m
        <4>1. h[j] = g[j] /\ h[k] = g[k]
          BY <1>3, <3>3
        <4> QED
          BY <3>1, <4>1
      <3>4. CASE ~(j < m)
        <4>1. h[j] = g[j] - d /\ h[k] = g[k] - d
          BY <1>3, <3>4
        <4> QED
          BY <1>1, <3>1, <4>1
      <3> QED
        BY <3>2, <3>3, <3>4
    <2>3. \A i \in 1 .. Len(r) : r[i].type # "data" => \E k \in 1 .. n : h[k] = i
      <3> SUFFICES ASSUME NEW i \in 1 .. Len(r), r[i].type # "data" PROVE \E k \in 1 .. n : h[k] = i
        OBVIOUS
      <3>1. CASE i <= a
        <4>1. i \in 1 .. a /\ i \in 1 .. Len(q) /\ i < b
          BY <1>1, <3>1
        <4>2. q[i].type # "data"
          BY <1>9, <4>1
        <4>3. PICK k \in 1 .. n : g[k] = i
          BY <4>1, <4>2 DEF Laid
        <4>4. h[k] = i
          BY <1>3, <1>4, <4>1, <4>3
        <4> QED
          BY <4>4
      <3>2. CASE i = a + 1
        BY <1>10, <3>2
      <3>3. CASE i > a + 1
        <4>1. i + d \in b + 1 .. Len(q) /\ i + d \in 1 .. Len(q) /\ (i + d) - d = i
          BY <1>1, <1>9, <3>3
        <4>2. q[i + d].type # "data"
          BY <1>9, <4>1
        <4>3. PICK k \in 1 .. n : g[k] = i + d
          BY <4>1, <4>2 DEF Laid
        <4>4. ~(k < m)
          <5>1. ~(g[k] < b)
            BY <1>1, <4>1, <4>3
          <5> QED
            BY <1>4, <5>1
        <4>5. h[k] = i
          BY <1>3, <4>1, <4>3, <4>4
        <4> QED
          BY <4>5
      <3> QED
        BY <1>1, <3>1, <3>2, <3>3
    <2>4. \A k \in 1 .. n : r[h[k]].type # "data" /\ r[h[k]].id = tq[k]
      BY <1>11, <1>12 DEF Laid
    <2>5. tq # <<>> /\ h[n] = Len(r)
      <3>1. n \in 1 .. n /\ ~(n < m) /\ tq # <<>> /\ q # <<>>
        BY <1>1
      <3>2. g[n] = Len(q)
        BY <3>1 DEF Laid
      <3> QED
        BY <1>3, <1>9, <3>1, <3>2
    <2> QED
      BY <2>1, <2>2, <2>3, <2>4, <2>5 DEF Laid
  <1>14. \A k \in 1 .. n : After(h, k) = IF k <= m THEN After(g, k) ELSE After(g, k) - d
    <2> TAKE k \in 1 .. n
    <2>1. k # 1 => After(h, k) = h[k - 1] /\ (k - 1 < m <=> k <= m)
      BY DEF After
    <2>2. k = 1 => After(h, k) = 0 /\ k <= m
      BY DEF After
    <2> QED
      BY <1>3, <1>7, <2>1, <2>2
  <1>15. Same(q, g, r, h, n, m)
    <2> SUFFICES ASSUME NEW k \in 1 .. n, k # m
                 PROVE  StreamAt(r, After(h, k), h[k]) = StreamAt(q, After(g, k), g[k])
      BY DEF Same
    <2> DEFINE u == After(g, k)
               v == g[k]
    <2>1. u \in Nat /\ v \in 1 .. Len(q) /\ u < v
      BY <1>4, <1>7
    <2>2. CASE k < m
      <3>1. h[k] = v /\ After(h, k) = u /\ v <= a
        BY <1>3, <1>5, <1>14, <2>2
      <3> HIDE DEF u, v
      <3>2. Moved(q, r, u, v, 0)
        <4> SUFFICES ASSUME NEW i \in u + 1 .. v PROVE r[i + 0] = q[i]
          BY DEF Moved
        <4>1. i \in Int /\ a \in Int /\ u \in Nat /\ v \in Int /\ u < i /\ i <= v /\ v <= a
          BY <1>1, <2>1, <3>1
        <4>2. i \in 1 .. a /\ i + 0 = i
          BY <4>1
        <4> QED
          BY <1>9, <4>2
      <3>3. StreamAt(r, u + 0, v + 0) = StreamAt(q, u, v) /\ u + 0 = u /\ v + 0 = v
        BY <2>1, <3>2, SameStream
      <3> QED
        BY <3>1, <3>3 DEF u, v
    <2>3. CASE k > m
      <3>1. h[k] = v - d /\ After(h, k) = u - d
        BY <1>3, <1>14, <2>3
      <3>2. u >= b
        <4>1. k # 1 /\ k - 1 \in 1 .. n /\ m <= k - 1
          BY <2>3
        <4>2. u = g[k - 1]
          BY <4>1 DEF After
        <4>3. g[m] <= g[k - 1]
          BY <4>1, Ordered
        <4> QED
          BY <4>2, <4>3 DEF b
      <3> HIDE DEF u, v
      <3>3. Moved(q, r, u, v, -d)
        <4> SUFFICES ASSUME NEW i \in u + 1 .. v PROVE r[i + (-d)] = q[i]
          BY DEF Moved
        <4>1. i \in b + 1 .. Len(q) /\ i + (-d) = i - d
          BY <1>1, <2>1, <3>2
        <4> QED
          BY <1>9, <4>1
      <3>4. StreamAt(r, u + (-d), v + (-d)) = StreamAt(q, u, v)
            /\ u + (-d) = u - d /\ v + (-d) = v - d
        BY <1>1, <2>1, <3>3, SameStream
      <3> QED
        BY <3>1, <3>4 DEF u, v
    <2> QED
      BY <2>2, <2>3
  <1>16. DataIn(r, After(h, m), h[m]) = <<>>
    <2>1. After(h, m) = a /\ m <= m
      BY <1>14 DEF a
    <2>2. a < h[m] /\ h[m] - (a + 1) = 0
      BY <1>1, <1>10
    <2>3. DataIn(r, a, h[m]) \in Seq(Content) /\ Len(DataIn(r, a, h[m])) = 0
      BY <1>1, <1>8, <1>12, <2>2, DataType
    <2>4. DataIn(r, a, h[m]) = <<>>
      BY <2>3, EmptySeq
    <2> QED
      BY <2>1, <2>4
  <1> QED
    BY <1>8, <1>12, <1>13, <1>15, <1>16

(* The places when a tag is put at the end of a list of l items. *)
Extended(g, n, l) == [k \in 1 .. n + 1 |-> IF k = n + 1 THEN l + 1 ELSE g[k]]

(* The list r and the tags t are q and tq with the tag x at the end, the   *)
(* places h; x ends a stream without data.                                 *)
IsAppended(r, t, q, tq, g, h, x) ==
  /\ r \in Seq(Item) /\ t \in Seq(Ids)
  /\ Laid(r, t, h)
  /\ Same(q, g, r, h, Len(tq), 0)
  /\ Len(t) = Len(tq) + 1
  /\ r[h[Len(tq) + 1]] = x
  /\ DataIn(r, After(h, Len(tq) + 1), h[Len(tq) + 1]) = <<>>

(* start(): a tag of its own at the end of the list is a stream without   *)
(* data (pending_queue.h:206-215).                                         *)
LEMMA Appended ==
  ASSUME NEW q \in Seq(Item), NEW tq \in Seq(Ids), NEW g, Laid(q, tq, g),
         NEW x \in Item, x.type # "data", x.id \in Ids, \A k \in 1 .. Len(tq) : tq[k] # x.id,
         NEW h, h = Extended(g, Len(tq), Len(q))
  PROVE  IsAppended(Append(q, x), Append(tq, x.id), q, tq, g, h, x)
  <1> DEFINE n == Len(tq)
             r == Append(q, x)
             t == Append(tq, x.id)
  <1>1. /\ r \in Seq(Item) /\ Len(r) = Len(q) + 1 /\ r[Len(q) + 1] = x /\ r # <<>>
        /\ \A i \in 1 .. Len(q) : r[i] = q[i]
    BY AppendProperties
  <1>2. /\ t \in Seq(Ids) /\ Len(t) = n + 1 /\ t[n + 1] = x.id /\ t # <<>>
        /\ \A k \in 1 .. n : t[k] = tq[k]
    BY AppendProperties
  <1>3. n \in Nat /\ Len(q) \in Nat
    OBVIOUS
  <1>4. h[n + 1] = Len(q) + 1 /\ \A k \in 1 .. n : h[k] = g[k]
    BY <1>3 DEF Extended
  <1>5. \A k \in 1 .. n :
          /\ g[k] \in 1 .. Len(q)
          /\ After(g, k) \in Nat /\ After(g, k) < g[k]
          /\ k = 1 => After(g, k) = 0
          /\ k # 1 => k - 1 \in 1 .. n /\ After(g, k) = g[k - 1]
    BY AfterIs
  <1>6. \A k \in 1 .. n + 1 : k \in 1 .. n \/ k = n + 1
    BY <1>3
  <1>7. After(h, n + 1) = Len(q)
    <2>1. CASE n = 0
      <3>1. q = <<>>
        BY <2>1 DEF Laid
      <3> QED
        BY <2>1, <3>1 DEF After
    <2>2. CASE n # 0
      <3>1. n \in 1 .. n /\ n + 1 # 1 /\ (n + 1) - 1 = n /\ tq # <<>>
        BY <1>3, <2>2
      <3>2. q # <<>>
        BY <1>5, <3>1
      <3>3. g[n] = Len(q)
        BY <3>2 DEF Laid
      <3> QED
        BY <1>4, <3>1, <3>3 DEF After
    <2> QED
      BY <2>1, <2>2
  <1>8. \A k \in 1 .. n : After(h, k) = After(g, k)
    <2> TAKE k \in 1 .. n
    <2>1. k # 1 => After(h, k) = h[k - 1]
      BY DEF After
    <2>2. k = 1 => After(h, k) = 0
      BY DEF After
    <2> QED
      BY <1>4, <1>5, <2>1, <2>2
  <1> HIDE DEF n, r, t
  <1>9. Laid(r, t, h)
    <2>1. h \in [1 .. n + 1 -> 1 .. Len(q) + 1]
      <3>1. ASSUME NEW k \in 1 .. n + 1 PROVE h[k] \in 1 .. Len(q) + 1
        <4>1. CASE k \in 1 .. n
          <5>1. h[k] = g[k] /\ g[k] \in 1 .. Len(q)
            BY <1>4, <1>5, <4>1
          <5> QED
            BY <1>3, <5>1
        <4>2. CASE k = n + 1
          <5>1. h[k] = Len(q) + 1
            BY <1>4, <4>2
          <5> QED
            BY <1>3, <5>1
        <4> QED
          BY <1>6, <4>1, <4>2
      <3> QED
        BY <3>1 DEF n, Extended
    <2>2. \A j, k \in 1 .. n + 1 : j < k => h[j] < h[k]
      <3> SUFFICES ASSUME NEW j \in 1 .. n + 1, NEW k \in 1 .. n + 1, j < k PROVE h[j] < h[k]
        OBVIOUS
      <3>1. j \in 1 .. n
        BY <1>3
      <3>2. h[j] = g[j] /\ g[j] \in 1 .. Len(q)
        BY <1>4, <1>5, <3>1
      <3>3. CASE k \in 1 .. n
        <4>1. g[j] < g[k] /\ h[k] = g[k]
          BY <1>4, <3>1, <3>3 DEF Laid, n
        <4> QED
          BY <3>2, <4>1
      <3>4. CASE k = n + 1
        <4>1. h[k] = Len(q) + 1
          BY <1>4, <3>4
        <4> QED
          BY <1>3, <3>2, <4>1
      <3> QED
        BY <1>6, <3>3, <3>4
    <2>3. \A i \in 1 .. Len(q) + 1 : r[i].type # "data" => \E k \in 1 .. n + 1 : h[k] = i
      <3> SUFFICES ASSUME NEW i \in 1 .. Len(q) + 1, r[i].type # "data"
                   PROVE  \E k \in 1 .. n + 1 : h[k] = i
        OBVIOUS
      <3>1. CASE i = Len(q) + 1
        BY <1>3, <1>4, <3>1
      <3>2. CASE i # Len(q) + 1
        <4>1. i \in 1 .. Len(q) /\ q[i].type # "data"
          BY <1>1, <1>3, <3>2
        <4>2. PICK k \in 1 .. n : g[k] = i
          BY <4>1 DEF Laid, n
        <4>3. k \in 1 .. n + 1
          BY <1>3
        <4>4. h[k] = i
          BY <1>4, <4>2
        <4> QED
          BY <4>3, <4>4
      <3> QED
        BY <3>1, <3>2
    <2>4. \A k \in 1 .. n + 1 : r[h[k]].type # "data" /\ r[h[k]].id = t[k]
      <3> TAKE k \in 1 .. n + 1
      <3>1. CASE k \in 1 .. n
        <4>1. q[g[k]].type # "data" /\ q[g[k]].id = tq[k]
          BY <3>1 DEF Laid, n
        <4> QED
          BY <1>1, <1>2, <1>4, <1>5, <3>1, <4>1
      <3>2. CASE k = n + 1
        BY <1>1, <1>2, <1>4, <3>2
      <3> QED
        BY <1>6, <3>1, <3>2
    <2>5. \A j, k \in 1 .. n + 1 : t[j] = t[k] => j = k
      <3>1. \A j, k \in 1 .. n : tq[j] = tq[k] => j = k
        BY DEF Laid, n
      <3>2. \A j \in 1 .. n : tq[j] # x.id
        BY DEF n
      <3> QED
        BY <1>2, <1>6, <3>1, <3>2
    <2> QED
      BY <1>1, <1>2, <1>4, <2>1, <2>2, <2>3, <2>4, <2>5 DEF Laid
  <1>10. Same(q, g, r, h, n, 0)
    <2> SUFFICES ASSUME NEW k \in 1 .. n
                 PROVE  StreamAt(r, After(h, k), h[k]) = StreamAt(q, After(g, k), g[k])
      BY DEF Same
    <2> DEFINE u == After(g, k)
               v == g[k]
    <2>1. u \in Nat /\ v \in 1 .. Len(q) /\ u < v /\ h[k] = v /\ After(h, k) = u
      BY <1>4, <1>5, <1>8
    <2> HIDE DEF u, v
    <2>2. Moved(q, r, u, v, 0)
      <3> SUFFICES ASSUME NEW i \in u + 1 .. v PROVE r[i + 0] = q[i]
        BY DEF Moved
      <3>1. i \in 1 .. Len(q) /\ i + 0 = i
        BY <1>3, <2>1
      <3> QED
        BY <1>1, <3>1
    <2>3. StreamAt(r, u + 0, v + 0) = StreamAt(q, u, v) /\ u + 0 = u /\ v + 0 = v
      BY <2>1, <2>2, SameStream
    <2> QED
      BY <2>1, <2>3 DEF u, v
  <1>11. DataIn(r, After(h, n + 1), h[n + 1]) = <<>>
    <2>1. (Len(q) + 1) - (Len(q) + 1) = 0 /\ Len(q) < Len(q) + 1 /\ Len(q) + 1 \in 1 .. Len(r)
      BY <1>1, <1>3
    <2>2. /\ DataIn(r, Len(q), Len(q) + 1) \in Seq(Content)
          /\ Len(DataIn(r, Len(q), Len(q) + 1)) = 0
      BY <1>1, <1>3, <2>1, DataType
    <2> QED
      BY <1>4, <1>7, <2>2, EmptySeq
  <1> QED
    BY <1>1, <1>2, <1>4, <1>9, <1>10, <1>11 DEF n, r, t, IsAppended

(* Two places with the same tag differ in the data before them only. *)
LEMMA OtherData ==
  ASSUME NEW q, NEW r, NEW a, NEW b, NEW u, NEW v, NEW e, r[v] = q[b], DataIn(r, u, v) = e
  PROVE  StreamAt(r, u, v) = [StreamAt(q, a, b) EXCEPT !.data = e]
  BY DEF StreamAt

(* The places of the tags when the first item is taken and is no tag, and *)
(* the first stream then. *)
Sooner(g, n) == [k \in 1 .. n |-> g[k] - 1]
Lost(s) == [s EXCEPT !.data = Tail(@)]

(* The first item of the list is taken: it is data of the oldest stream. *)
LEMMA DataTaken ==
  ASSUME NEW q \in Seq(Item), NEW tq \in Seq(Ids), NEW g, Laid(q, tq, g),
         tq # <<>>, g[1] # 1,
         NEW h, h = Sooner(g, Len(tq))
  PROVE  /\ Tail(q) \in Seq(Item) /\ Laid(Tail(q), tq, h) /\ Same(q, g, Tail(q), h, Len(tq), 1)
         /\ StreamAt(q, 0, g[1]).data # <<>>
         /\ StreamAt(q, 0, g[1]).data[1] = Head(q).content
         /\ StreamAt(Tail(q), 0, h[1]) = Lost(StreamAt(q, 0, g[1]))
  <1> DEFINE n == Len(tq)
             r == Tail(q)
             b == g[1]
  <1>1. /\ n \in Nat /\ 1 \in 1 .. n /\ Len(q) \in Nat /\ b \in 2 .. Len(q) /\ b \in Nat
    <2>1. n \in Nat /\ 1 \in 1 .. n
      OBVIOUS
    <2> QED
      BY <2>1, Ordered
  <1>2. q # <<>>
    BY <1>1
  <1>3. /\ r \in Seq(Item) /\ Len(r) = Len(q) - 1 /\ Head(q) = q[1]
        /\ \A i \in 1 .. Len(q) - 1 : r[i] = q[i + 1]
    BY <1>2, HeadTailProperties
  <1>4. h = [k \in 1 .. n |-> g[k] - 1] /\ \A k \in 1 .. n : h[k] = g[k] - 1
    BY DEF Sooner
  <1>5. \A k \in 1 .. n : g[k] \in 2 .. Len(q) /\ (k # 1 => g[k] > b)
    <2> TAKE k \in 1 .. n
    <2>1. k # 1 => 1 < k
      BY <1>1
    <2>2. g[k] \in 1 .. Len(q) /\ (1 < k => b < g[k])
      BY <1>1, Ordered
    <2> QED
      BY <1>1, <2>1, <2>2
  <1>6. \A k \in 1 .. n :
          /\ After(g, k) \in Nat /\ After(g, k) < g[k]
          /\ k = 1 => After(g, k) = 0
          /\ k # 1 => k - 1 \in 1 .. n /\ After(g, k) = g[k - 1]
    BY AfterIs
  <1> HIDE DEF r, b
  <1>7. \A k \in 1 .. n : h[k] \in 1 .. Len(r) /\ r[h[k]] = q[g[k]]
    <2> TAKE k \in 1 .. n
    <2>1. h[k] \in 1 .. Len(q) - 1 /\ h[k] + 1 = g[k]
      BY <1>1, <1>4, <1>5
    <2> QED
      BY <1>3, <2>1
  <1>8. Laid(r, tq, h)
    <2>1. h \in [1 .. n -> 1 .. Len(r)]
      BY <1>4, <1>7
    <2>2. \A j, k \in 1 .. n : j < k => h[j] < h[k]
      <3> SUFFICES ASSUME NEW j \in 1 .. n, NEW k \in 1 .. n, j < k PROVE h[j] < h[k]
        OBVIOUS
      <3>1. g[j] < g[k] /\ g[j] \in Nat /\ g[k] \in Nat
        BY <1>5, Ordered
      <3> QED
        BY <1>4, <3>1
    <2>3. \A i \in 1 .. Len(r) : r[i].type # "data" => \E k \in 1 .. n : h[k] = i
      <3> SUFFICES ASSUME NEW i \in 1 .. Len(r), r[i].type # "data" PROVE \E k \in 1 .. n : h[k] = i
        OBVIOUS
      <3>1. i + 1 \in 1 .. Len(q) /\ i \in 1 .. Len(q) - 1 /\ (i + 1) - 1 = i
        BY <1>1, <1>3
      <3>2. q[i + 1].type # "data"
        BY <1>3, <3>1
      <3>3. PICK k \in 1 .. n : g[k] = i + 1
        BY <3>1, <3>2 DEF Laid
      <3>4. h[k] = i
        BY <1>4, <3>1, <3>3
      <3> QED
        BY <3>4
    <2>4. \A k \in 1 .. n : r[h[k]].type # "data" /\ r[h[k]].id = tq[k]
      BY <1>7 DEF Laid
    <2>5. tq # <<>> /\ h[n] = Len(r)
      <3>1. g[n] = Len(q)
        BY <1>2 DEF Laid
      <3>2. n \in 1 .. n
        BY <1>1
      <3> QED
        BY <1>3, <1>4, <3>1, <3>2
    <2> QED
      BY <2>1, <2>2, <2>3, <2>4, <2>5 DEF Laid
  <1>9. Same(q, g, r, h, n, 1)
    <2> SUFFICES ASSUME NEW k \in 1 .. n, k # 1
                 PROVE  StreamAt(r, After(h, k), h[k]) = StreamAt(q, After(g, k), g[k])
      BY DEF Same
    <2> DEFINE u == After(g, k)
               v == g[k]
    <2>1. k - 1 \in 1 .. n /\ u = g[k - 1] /\ After(h, k) = h[k - 1]
      BY <1>6 DEF After
    <2>2. u \in Nat /\ v \in 1 .. Len(q) /\ u < v /\ 1 <= u /\ h[k] = v - 1 /\ After(h, k) = u - 1
      BY <1>4, <1>5, <1>6, <2>1
    <2> HIDE DEF u, v
    <2>3. Moved(q, r, u, v, -1)
      <3> SUFFICES ASSUME NEW i \in u + 1 .. v PROVE r[i + (-1)] = q[i]
        BY DEF Moved
      <3>1. i + (-1) \in 1 .. Len(q) - 1 /\ (i + (-1)) + 1 = i
        BY <1>1, <2>2
      <3> QED
        BY <1>3, <3>1
    <2>4. /\ StreamAt(r, u + (-1), v + (-1)) = StreamAt(q, u, v)
          /\ u + (-1) = u - 1 /\ v + (-1) = v - 1
      BY <2>2, <2>3, SameStream
    <2> QED
      BY <2>2, <2>4 DEF u, v
  <1> DEFINE f == DataIn(q, 0, b)
             e == DataIn(r, 0, b - 1)
  <1>10. /\ f \in [1 .. b - 1 -> Content] /\ b - 1 \in Nat \ {0}
         /\ f \in Seq(Content) /\ Len(f) = b - 1
    <2>1. b \in 1 .. Len(q) /\ 0 < b /\ b - (0 + 1) = b - 1 /\ b - 1 \in Nat \ {0}
      BY <1>1
    <2>2. /\ f \in [1 .. b - (0 + 1) -> Content] /\ f \in Seq(Content) /\ Len(f) = b - (0 + 1)
      BY <2>1, DataType
    <2> QED
      BY <2>1, <2>2
  <1>11. e = Shorter(f, b - 1)
    <2>1. (b - 1) - (0 + 1) = (b - 1) - 1 /\ b - (0 + 1) = b - 1
      BY <1>1
    <2>2. ASSUME NEW j \in 1 .. (b - 1) - 1 PROVE r[0 + j].content = f[j + 1]
      <3>1. j \in 1 .. Len(q) - 1 /\ j + 1 \in 1 .. b - 1 /\ 0 + j = j /\ 0 + (j + 1) = j + 1
        BY <1>1
      <3>2. f[j + 1] = q[j + 1].content
        BY <2>1, <3>1 DEF DataIn
      <3> QED
        BY <1>3, <3>1, <3>2
    <2> HIDE DEF f
    <2> QED
      BY <2>1, <2>2 DEF DataIn, Shorter
  <1>12. f[1] = Head(q).content
    <2>1. 1 \in 1 .. b - (0 + 1) /\ 0 + 1 = 1
      BY <1>1
    <2>2. f[1] = q[0 + 1].content
      BY <2>1 DEF DataIn
    <2> QED
      BY <1>3, <2>1, <2>2
  <1>13. StreamAt(q, 0, b).data = f
    BY DEF StreamAt
  <1> HIDE DEF f, e
  <1>14. e = Tail(f) /\ f # <<>>
    BY <1>10, <1>11, TailIs
  <1>15. h[1] = b - 1 /\ r[b - 1] = q[b]
    <2>1. b - 1 \in 1 .. Len(q) - 1 /\ (b - 1) + 1 = b
      BY <1>1
    <2> QED
      BY <1>1, <1>3, <1>4, <2>1 DEF b
  <1>16. StreamAt(r, 0, b - 1) = [StreamAt(q, 0, b) EXCEPT !.data = e]
    <2>1. DataIn(r, 0, b - 1) = e
      BY DEF e
    <2> QED
      BY <1>15, <2>1, OtherData
  <1>17. StreamAt(r, 0, h[1]) = [StreamAt(q, 0, b) EXCEPT !.data = Tail(@)]
    BY <1>13, <1>14, <1>15, <1>16
  <1> QED
    BY <1>3, <1>8, <1>9, <1>12, <1>13, <1>14, <1>17 DEF r, b, Lost

(* The places of the tags that are left when the first item is a tag. *)
Rest(g, n) == [k \in 1 .. n - 1 |-> g[k + 1] - 1]

(* The first item of the list is taken: it is the tag of the oldest stream. *)
LEMMA TagTaken ==
  ASSUME NEW q \in Seq(Item), NEW tq \in Seq(Ids), NEW g, Laid(q, tq, g),
         tq # <<>>, g[1] = 1,
         NEW h, h = Rest(g, Len(tq))
  PROVE  /\ Tail(q) \in Seq(Item) /\ Tail(tq) \in Seq(Ids) /\ Len(Tail(tq)) = Len(tq) - 1
         /\ Laid(Tail(q), Tail(tq), h)
         /\ \A k \in 1 .. Len(tq) - 1 :
              StreamAt(Tail(q), After(h, k), h[k]) = StreamAt(q, After(g, k + 1), g[k + 1])
  <1> DEFINE n == Len(tq)
             r == Tail(q)
             t == Tail(tq)
  <1>1. n \in Nat /\ n >= 1 /\ 1 \in 1 .. n /\ n \in 1 .. n /\ Len(q) \in Nat
    OBVIOUS
  <1>2. q # <<>>
    BY <1>1 DEF Laid
  <1>3. /\ r \in Seq(Item) /\ Len(r) = Len(q) - 1
        /\ \A i \in 1 .. Len(q) - 1 : r[i] = q[i + 1]
    BY <1>2, HeadTailProperties
  <1>4. /\ t \in Seq(Ids) /\ Len(t) = n - 1
        /\ \A k \in 1 .. n - 1 : t[k] = tq[k + 1]
    BY HeadTailProperties
  <1>0. h = [k \in 1 .. n - 1 |-> g[k + 1] - 1]
    BY DEF Rest
  <1>5. \A k \in 1 .. n - 1 : h[k] = g[k + 1] - 1 /\ k + 1 \in 1 .. n
    BY <1>0, <1>1
  <1>6. \A k \in 1 .. n - 1 : g[k + 1] \in 2 .. Len(q)
    <2> TAKE k \in 1 .. n - 1
    <2>1. 1 < k + 1 /\ k + 1 \in 1 .. n
      BY <1>1
    <2>2. g[k + 1] \in 1 .. Len(q) /\ g[1] < g[k + 1]
      BY <1>1, <2>1, Ordered
    <2> QED
      BY <2>2
  <1>7. \A k \in 1 .. n - 1 : After(g, k + 1) = g[k] /\ g[k] < g[k + 1] /\ g[k] \in 1 .. Len(q)
    <2> TAKE k \in 1 .. n - 1
    <2>1. k + 1 # 1 /\ (k + 1) - 1 = k /\ k \in 1 .. n /\ k + 1 \in 1 .. n /\ k < k + 1
      BY <1>1
    <2> QED
      BY <2>1, Ordered DEF After
  <1>8. \A k \in 1 .. n - 1 : After(h, k) = g[k] - 1
    <2> TAKE k \in 1 .. n - 1
    <2>1. CASE k = 1
      BY <2>1 DEF After
    <2>2. CASE k # 1
      <3>1. k - 1 \in 1 .. n - 1 /\ (k - 1) + 1 = k
        BY <1>1, <2>2
      <3> QED
        BY <1>5, <2>2, <3>1 DEF After
    <2> QED
      BY <2>1, <2>2
  <1> HIDE DEF r, t
  <1>9. \A k \in 1 .. n - 1 : h[k] \in 1 .. Len(r) /\ r[h[k]] = q[g[k + 1]]
    <2> TAKE k \in 1 .. n - 1
    <2>1. h[k] \in 1 .. Len(q) - 1 /\ h[k] + 1 = g[k + 1]
      BY <1>1, <1>5, <1>6
    <2> QED
      BY <1>3, <2>1
  <1>10. Laid(r, t, h)
    <2>1. h \in [1 .. n - 1 -> 1 .. Len(r)]
      BY <1>0, <1>9
    <2>2. \A j, k \in 1 .. n - 1 : j < k => h[j] < h[k]
      <3> SUFFICES ASSUME NEW j \in 1 .. n - 1, NEW k \in 1 .. n - 1, j < k PROVE h[j] < h[k]
        OBVIOUS
      <3>1. j + 1 \in 1 .. n /\ k + 1 \in 1 .. n /\ j + 1 < k + 1
        BY <1>1
      <3>2. g[j + 1] < g[k + 1] /\ g[j + 1] \in Nat /\ g[k + 1] \in Nat
        BY <1>6, <3>1, Ordered
      <3>3. h[j] = g[j + 1] - 1 /\ h[k] = g[k + 1] - 1
        BY <1>5
      <3> QED
        BY <3>2, <3>3
    <2>3. \A i \in 1 .. Len(r) : r[i].type # "data" => \E k \in 1 .. n - 1 : h[k] = i
      <3> SUFFICES ASSUME NEW i \in 1 .. Len(r), r[i].type # "data"
                   PROVE  \E k \in 1 .. n - 1 : h[k] = i
        OBVIOUS
      <3>1. i + 1 \in 1 .. Len(q) /\ i \in 1 .. Len(q) - 1 /\ (i + 1) - 1 = i
        BY <1>1, <1>3
      <3>2. q[i + 1].type # "data"
        BY <1>3, <3>1
      <3>3. PICK k \in 1 .. n : g[k] = i + 1
        BY <3>1, <3>2 DEF Laid
      <3>4. k # 1
        BY <3>1, <3>3
      <3>5. k - 1 \in 1 .. n - 1 /\ (k - 1) + 1 = k
        BY <1>1, <3>4
      <3>6. h[k - 1] = i
        BY <1>5, <3>1, <3>3, <3>5
      <3> QED
        BY <3>5, <3>6
    <2>4. \A k \in 1 .. n - 1 : r[h[k]].type # "data" /\ r[h[k]].id = t[k]
      BY <1>4, <1>5, <1>9 DEF Laid
    <2>5. \A j, k \in 1 .. n - 1 : t[j] = t[k] => j = k
      <3> SUFFICES ASSUME NEW j \in 1 .. n - 1, NEW k \in 1 .. n - 1, t[j] = t[k] PROVE j = k
        OBVIOUS
      <3>1. tq[j + 1] = tq[k + 1] /\ j + 1 \in 1 .. n /\ k + 1 \in 1 .. n
        BY <1>4, <1>5
      <3>2. j + 1 = k + 1
        BY <3>1 DEF Laid
      <3> QED
        BY <3>2
    <2>6. ASSUME r # <<>> PROVE t # <<>> /\ h[n - 1] = Len(r)
      <3>1. g[n] = Len(q)
        BY <1>2 DEF Laid
      <3>2. Len(r) # 0 /\ Len(r) \in Nat
        BY <1>3, <2>6, EmptySeq
      <3>3. n # 1
        <4> SUFFICES ASSUME n = 1 PROVE FALSE
          OBVIOUS
        <4>1. Len(q) = 1
          BY <3>1
        <4> HIDE DEF n
        <4> QED
          BY <1>3, <3>2, <4>1
      <3>4. n - 1 \in 1 .. n - 1 /\ (n - 1) + 1 = n
        <4> HIDE DEF n
        <4> QED
          BY <1>1, <3>3
      <3>5. h[n - 1] = Len(r)
        BY <1>3, <1>5, <3>1, <3>4
      <3>6. t # <<>>
        BY <1>4, <3>4
      <3> QED
        BY <3>5, <3>6
    <2> QED
      BY <1>4, <2>1, <2>2, <2>3, <2>4, <2>5, <2>6 DEF Laid
  <1>11. ASSUME NEW k \in 1 .. n - 1
         PROVE  StreamAt(r, After(h, k), h[k]) = StreamAt(q, After(g, k + 1), g[k + 1])
    <2> DEFINE u == g[k]
               v == g[k + 1]
    <2>1. u \in 1 .. Len(q) /\ v \in 2 .. Len(q) /\ u < v /\ h[k] = v - 1
          /\ After(h, k) = u - 1 /\ After(g, k + 1) = u
      BY <1>5, <1>6, <1>7, <1>8
    <2> HIDE DEF u, v
    <2>2. Moved(q, r, u, v, -1)
      <3> SUFFICES ASSUME NEW i \in u + 1 .. v PROVE r[i + (-1)] = q[i]
        BY DEF Moved
      <3>1. i + (-1) \in 1 .. Len(q) - 1 /\ (i + (-1)) + 1 = i
        BY <1>1, <2>1
      <3> QED
        BY <1>3, <3>1
    <2>3. /\ StreamAt(r, u + (-1), v + (-1)) = StreamAt(q, u, v)
          /\ u + (-1) = u - 1 /\ v + (-1) = v - 1
      BY <2>1, <2>2, SameStream
    <2> QED
      BY <2>1, <2>3 DEF v
  <1> QED
    BY <1>3, <1>4, <1>10, <1>11 DEF r, t

(* The tags among the first n items of q. *)
TagSet(q, n) == {i \in 1 .. n : q[i].type # "data"}

(* As many tags stand up to the k-th as there are numbers up to k. *)
LEMMA Counted ==
  ASSUME NEW q \in Seq(Item), NEW tq \in Seq(Ids), NEW g, Laid(q, tq, g), NEW k \in 1 .. Len(tq)
  PROVE  IsFiniteSet(TagSet(q, g[k])) /\ Cardinality(TagSet(q, g[k])) = k
  <1> DEFINE f == [j \in 1 .. k |-> g[j]]
             S == TagSet(q, g[k])
  <1>1. k \in Nat /\ Len(tq) \in Nat /\ Len(q) \in Nat /\ g[k] \in 1 .. Len(q)
    BY Ordered
  <1>2. \A j \in 1 .. k : j \in 1 .. Len(tq)
    BY <1>1
  <1>3. \A j \in 1 .. k : f[j] \in S
    <2> SUFFICES ASSUME NEW j \in 1 .. k PROVE g[j] \in S
      OBVIOUS
    <2>1. g[j] \in 1 .. Len(q) /\ g[j] <= g[k]
      <3>1. j \in 1 .. Len(tq) /\ j <= k
        BY <1>1, <1>2
      <3> QED
        BY <3>1, Ordered
    <2>2. q[g[j]].type # "data"
      BY <1>2 DEF Laid
    <2> QED
      BY <1>1, <2>1, <2>2 DEF TagSet
  <1>4. \A i, j \in 1 .. k : f[i] = f[j] => i = j
    BY <1>2, Ordered
  <1>5. \A i \in S : \E j \in 1 .. k : f[j] = i
    <2> SUFFICES ASSUME NEW i \in S PROVE \E j \in 1 .. k : g[j] = i
      OBVIOUS
    <2>1. i \in 1 .. Len(q) /\ q[i].type # "data" /\ i <= g[k]
      BY <1>1 DEF TagSet
    <2>2. PICK j \in 1 .. Len(tq) : g[j] = i
      BY <2>1 DEF Laid
    <2>3. ~(k < j)
      <3>1. (k < j) => g[k] < g[j]
        BY Ordered
      <3> QED
        BY <1>1, <2>1, <2>2, <3>1
    <2>4. j \in 1 .. k
      BY <1>1, <2>3
    <2> QED
      BY <2>2, <2>4
  <1>6. f \in Bijection(1 .. k, S)
    <2> HIDE DEF S
    <2>1. f \in [1 .. k -> S]
      BY <1>3
    <2> HIDE DEF f
    <2> QED
      BY <1>4, <1>5, <2>1, Fun_IsBij
  <1> HIDE DEF S, f
  <1>7. ExistsBijection(1 .. k, S)
    BY <1>6 DEF ExistsBijection
  <1> QED
    BY <1>1, <1>7, FS_CountingElements, FS_NatBijection DEF S

(* The list holds as many tags as tag_queue_. *)
LEMMA CountedAll ==
  ASSUME NEW q \in Seq(Item), NEW tq \in Seq(Ids), NEW g, Laid(q, tq, g)
  PROVE  Cardinality(TagSet(q, Len(q))) = Len(tq)
  <1>1. CASE tq = <<>>
    <2>1. q = <<>> /\ Len(q) = 0 /\ Len(tq) = 0
      BY <1>1 DEF Laid
    <2>2. TagSet(q, Len(q)) = {}
      BY <2>1 DEF TagSet
    <2> QED
      BY <2>1, <2>2, FS_EmptySet
  <1>2. CASE tq # <<>>
    <2>1. Len(tq) \in 1 .. Len(tq)
      BY <1>2, EmptySeq, LenProperties
    <2>2. q # <<>>
      <3>1. g[Len(tq)] \in 1 .. Len(q)
        BY <2>1, Ordered
      <3> QED
        BY <3>1
    <2>3. g[Len(tq)] = Len(q)
      BY <2>2 DEF Laid
    <2> QED
      BY <2>1, <2>3, Counted
  <1> QED
    BY <1>1, <1>2

(* The k-th tag clear() meets is the k-th of tag_queue_. *)
LEMMA KthTag ==
  ASSUME NEW q \in Seq(Item), NEW tq \in Seq(Ids), NEW g, Laid(q, tq, g), NEW k \in 1 .. Len(tq)
  PROVE  (CHOOSE i \in TagSet(q, Len(q)) : Cardinality(TagSet(q, i)) = k) = g[k]
  <1> DEFINE T == TagSet(q, Len(q))
             P(i) == Cardinality(TagSet(q, i)) = k
  <1>1. g[k] \in T /\ P(g[k])
    <2>1. g[k] \in 1 .. Len(q) /\ q[g[k]].type # "data"
      BY DEF Laid
    <2>2. g[k] \in T
      BY <2>1 DEF TagSet
    <2> QED
      BY <2>2, Counted
  <1>2. ASSUME NEW i \in T, P(i) PROVE i = g[k]
    <2>1. i \in 1 .. Len(q) /\ q[i].type # "data"
      BY DEF TagSet
    <2>2. PICK j \in 1 .. Len(tq) : g[j] = i
      BY <2>1 DEF Laid
    <2>3. Cardinality(TagSet(q, g[j])) = j
      BY Counted
    <2> QED
      BY <1>2, <2>2, <2>3
  <1> HIDE DEF P, T
  <1>3. (CHOOSE i \in T : P(i)) = g[k]
    BY <1>1, <1>2
  <1> QED
    BY <1>3 DEF T, P

(* Only the tags stay, each of them deleted. *)
MarkedTag(x) == [x EXCEPT !.type = "deleted", !.content = NoData]

Marked(q, g, n) == [k \in 1 .. n |-> MarkedTag(q[g[k]])]

(* Tags only: the k-th is at k. *)
Plain(n) == [k \in 1 .. n |-> k]

(* clear() keeps the tags, in their order, and no data (pending_queue.h:328-360). *)
LEMMA Cleared ==
  ASSUME NEW q \in Seq(Item), NEW tq \in Seq(Ids), NEW g, Laid(q, tq, g),
         NEW r, r = Marked(q, g, Len(tq)),
         NEW h, h = Plain(Len(tq))
  PROVE  /\ r \in Seq(Item) /\ Laid(r, tq, h)
         /\ \A k \in 1 .. Len(tq) :
              /\ r[h[k]] = MarkedTag(q[g[k]])
              /\ DataIn(r, After(h, k), h[k]) = <<>>
  <1> DEFINE n == Len(tq)
             x(k) == MarkedTag(q[g[k]])
  <1>1. n \in Nat
    OBVIOUS
  <1>2. \A k \in 1 .. n : x(k) \in Item /\ x(k).type # "data" /\ x(k).id = tq[k]
    <2> TAKE k \in 1 .. n
    <2>1. g[k] \in 1 .. Len(q) /\ q[g[k]].id = tq[k]
      BY DEF Laid
    <2>2. q[g[k]] \in Item
      BY <2>1, ElementIs
    <2> QED
      BY <2>1, <2>2 DEF Item, TagTypes, MarkedTag
  <1>3. r = [k \in 1 .. n |-> x(k)]
    BY DEF Marked
  <1> HIDE DEF x
  <1>4. r \in Seq(Item) /\ Len(r) = n /\ \A k \in 1 .. n : r[k] = x(k)
    BY <1>1, <1>2, <1>3
  <1>5. h = [k \in 1 .. n |-> k] /\ \A k \in 1 .. n : h[k] = k
    BY DEF Plain
  <1>6. Laid(r, tq, h)
    <2>1. h \in [1 .. n -> 1 .. Len(r)]
      BY <1>4, <1>5
    <2>2. \A k \in 1 .. n : r[h[k]].type # "data" /\ r[h[k]].id = tq[k]
      BY <1>2, <1>4, <1>5
    <2>3. \A i \in 1 .. Len(r) : \E k \in 1 .. n : h[k] = i
      BY <1>4, <1>5
    <2>4. r # <<>> => tq # <<>> /\ h[n] = Len(r)
      <3> SUFFICES ASSUME r # <<>> PROVE tq # <<>> /\ h[n] = Len(r)
        OBVIOUS
      <3>1. n # 0
        BY <1>4, EmptySeq
      <3> QED
        BY <1>1, <1>4, <1>5, <3>1
    <2>5. \A j, k \in 1 .. n : j < k => h[j] < h[k]
      BY <1>5
    <2> QED
      BY <2>1, <2>2, <2>3, <2>4, <2>5 DEF Laid
  <1>7. ASSUME NEW k \in 1 .. n
        PROVE  r[h[k]] = x(k) /\ DataIn(r, After(h, k), h[k]) = <<>>
    <2>1. h[k] = k /\ After(h, k) = k - 1
      <3>1. k # 1 => k - 1 \in 1 .. n
        BY <1>1
      <3> QED
        BY <1>5, <3>1 DEF After
    <2>2. k - 1 \in Nat /\ k - 1 < k /\ k - ((k - 1) + 1) = 0 /\ k \in 1 .. Len(r)
      BY <1>1, <1>4
    <2>3. DataIn(r, k - 1, k) \in Seq(Content) /\ Len(DataIn(r, k - 1, k)) = 0
      BY <1>4, <2>2, DataType
    <2> QED
      BY <1>4, <2>1, <2>3, EmptySeq
  <1> QED
    BY <1>4, <1>6, <1>7 DEF x

(* An erased stream has no data left in the list (pending_queue.h:296-316). *)
Vacant(q, g, n) ==
  \A k \in 1 .. n : LET s == StreamAt(q, After(g, k), g[k]) IN
                    s.type \in {"deleted", "error"} => s.data = <<>>

(* The three containers as every call leaves them: the list is laid out by *)
(* g, item_tags_ names the tags, and erased streams are empty.             *)
Kept(q, tq, it, g) ==
  /\ q \in Seq(Item) /\ tq \in Seq(Ids)
  /\ it = ToSet(tq)
  /\ Laid(q, tq, g)
  /\ Vacant(q, g, Len(tq))

(* The inductive invariant of StreamQueue.  ContainersAgree counts tags;   *)
(* the layout says where each of them is, and so what the data before it   *)
(* are.                                                                    *)
QInv == \E g : Kept(queue_, tag_queue_, item_tags_, g)

(* What the list means in a state, and in the next one. *)
LEMMA NowRead ==
  ASSUME NEW g, Kept(queue_, tag_queue_, item_tags_, g)
  PROVE  streamsOf = Read(queue_, g, Len(tag_queue_))
  BY ReadIs, StreamsAre DEF Kept

(* The streams of the next state. *)
LEMMA NextRead ==
  ASSUME NEW g, Kept(queue_', tag_queue_', item_tags_', g)
  PROVE  streamsOf' = Read(queue_', g, Len(tag_queue_'))
  BY ReadIs, StreamsAre DEF Kept

(* The streams of the list, one by one. *)
LEMMA Reads ==
  ASSUME NEW q, NEW tq, NEW it, NEW g, Kept(q, tq, it, g), NEW s, s = Read(q, g, Len(tq))
  PROVE  /\ Len(s) = Len(tq) /\ Len(tq) \in Nat
         /\ s = [k \in 1 .. Len(tq) |-> s[k]]
         /\ s = <<>> <=> tq = <<>>
         /\ \A k \in 1 .. Len(tq) :
              /\ s[k] = StreamAt(q, After(g, k), g[k])
              /\ s[k].id = tq[k] /\ s[k].type = q[g[k]].type /\ s[k].polling = q[g[k]].polling
              /\ s[k].content = q[g[k]].content /\ s[k].err = q[g[k]].err
              /\ s[k].data = DataIn(q, After(g, k), g[k])
              /\ g[k] \in 1 .. Len(q) /\ q[g[k]] \in Item /\ q[g[k]].type \in TagTypes
              /\ PosIn(q, tq[k]) = g[k]
         /\ \A j, k \in 1 .. Len(tq) : s[j].id = s[k].id => j = k
  <1>1. Len(tq) \in Nat /\ tq \in Seq(Ids) /\ q \in Seq(Item) /\ Laid(q, tq, g)
    BY DEF Kept
  <1>2. s = [k \in 1 .. Len(tq) |-> StreamAt(q, After(g, k), g[k])]
    BY DEF Read
  <1>3. s = [k \in 1 .. Len(tq) |-> s[k]]
    BY <1>2
  <1>4. \A k \in 1 .. Len(tq) : s[k] = StreamAt(q, After(g, k), g[k])
    BY <1>2
  <1>5. Len(s) = Len(tq)
    <2>1. /\ s \in Seq({StreamAt(q, After(g, k), g[k]) : k \in 1 .. Len(tq)})
          /\ DOMAIN s = 1 .. Len(tq)
      BY <1>1, <1>2
    <2> QED
      BY <1>1, <2>1, LenProperties
  <1>6. s = <<>> <=> tq = <<>>
    <2>1. tq = <<>> => s = <<>>
      BY <1>2
    <2>2. s = <<>> => Len(tq) = 0
      BY <1>5
    <2> QED
      BY <1>1, <2>1, <2>2, EmptySeq
  <1>7. \A k \in 1 .. Len(tq) :
          /\ g[k] \in 1 .. Len(q) /\ q[g[k]] \in Item /\ q[g[k]].type # "data"
          /\ q[g[k]].id = tq[k]
    <2> TAKE k \in 1 .. Len(tq)
    <2>1. g[k] \in 1 .. Len(q) /\ q[g[k]].type # "data" /\ q[g[k]].id = tq[k]
      BY <1>1 DEF Laid
    <2> QED
      BY <1>1, <2>1, ElementIs
  <1>8. \A k \in 1 .. Len(tq) : q[g[k]].type \in TagTypes
    BY <1>7 DEF Item
  <1>9. \A k \in 1 .. Len(tq) :
              /\ s[k].id = tq[k] /\ s[k].type = q[g[k]].type /\ s[k].polling = q[g[k]].polling
              /\ s[k].content = q[g[k]].content /\ s[k].err = q[g[k]].err
              /\ s[k].data = DataIn(q, After(g, k), g[k])
    <2> TAKE k \in 1 .. Len(tq)
    <2>1. s[k] = StreamAt(q, After(g, k), g[k]) /\ q[g[k]].id = tq[k]
      BY <1>4, <1>7
    <2> HIDE <1>2
    <2> QED
      BY <2>1 DEF StreamAt
  <1>10. \A j, k \in 1 .. Len(tq) : s[j].id = s[k].id => j = k
    BY <1>1, <1>9 DEF Laid
  <1>11. \A k \in 1 .. Len(tq) : PosIn(q, tq[k]) = g[k]
    BY <1>1, TagFound
  <1> HIDE <1>2
  <1> QED
    BY <1>1, <1>3, <1>4, <1>5, <1>6, <1>7, <1>8, <1>9, <1>10, <1>11

(* item_tags_ has an id when tag_queue_ has it. *)
LEMMA Member ==
  ASSUME NEW q, NEW tq, NEW it, NEW g, Kept(q, tq, it, g), NEW id
  PROVE  id \in it <=> \E k \in 1 .. Len(tq) : tq[k] = id
  BY LenProperties DEF Kept, ToSet

(* item_tags_.find() finds the ids of the FIFO's streams. *)
LEMMA Has ==
  ASSUME NEW g, Kept(queue_, tag_queue_, item_tags_, g), NEW id
  PROVE  Fifo!HasStream(streamsOf, id) <=> id \in item_tags_
  BY NowRead, Reads, Member DEF Fifo!HasStream

(* Only the m-th stream changes. *)
LEMMA OneChanged ==
  ASSUME NEW q, NEW r, NEW g, NEW h, NEW n, NEW m, NEW y, Same(q, g, r, h, n, m),
         StreamAt(r, After(h, m), h[m]) = y
  PROVE  Read(r, h, n) = [k \in 1 .. n |-> IF k = m THEN y ELSE Read(q, g, n)[k]]
  BY DEF Same, Read

(* A call that changes one stream leaves no data before an erased tag. *)
LEMMA VacantKept ==
  ASSUME NEW q, NEW r, NEW g, NEW h, NEW n, NEW m, NEW y, Same(q, g, r, h, n, m),
         StreamAt(r, After(h, m), h[m]) = y,
         Vacant(q, g, n), y.type \in {"deleted", "error"} => y.data = <<>>
  PROVE  Vacant(r, h, n)
  BY DEF Same, Vacant

(* A stream more: the FIFO of start(). *)
LEMMA OneMore ==
  ASSUME NEW n \in Nat, NEW s, s = [k \in 1 .. n |-> s[k]], NEW y
  PROVE  Longer(s, n, y) = Append(s, y)
  <1> DEFINE C == {s[k] : k \in 1 .. n} \cup {y}
  <1>1. s \in [1 .. n -> C] /\ y \in C
    OBVIOUS
  <1> HIDE DEF C
  <1> QED
    BY <1>1, AppendIs

(* start() is Start (pending_queue.h:198-216). *)
LEMMA StartStep ==
  ASSUME QueueAssumption, NEW g, Kept(queue_, tag_queue_, item_tags_, g), NEW id \in Ids, start(id)
  PROVE  QInv' /\ Fifo!FifoStart(id)
  <1> DEFINE q == queue_
             tq == tag_queue_
             n == Len(tq)
             s == streamsOf
  <1>1. CASE id \in item_tags_
    <2>1. UNCHANGED <<queue_, tag_queue_, item_tags_>> /\ ret' = Answer(FALSE)
      BY <1>1 DEF start
    <2>2. QInv' /\ streamsOf' = streamsOf
      BY <2>1, StreamsAre DEF QInv
    <2> QED
      BY <1>1, <2>1, <2>2, Has
         DEF Fifo!FifoStart, Fifo!Start, Fifo!Answer, Answer, Fifo!NoItem, NoItem
  <1>2. CASE id \notin item_tags_
    <2> DEFINE x == NewTag(id)
               h == Extended(g, n, Len(q))
               r == queue_'
               t == tag_queue_'
    <2>1. r = Append(q, x) /\ t = Append(tq, id) /\ item_tags_' = item_tags_ \cup {id}
          /\ ret' = Answer(TRUE)
      BY <1>2 DEF start
    <2>2. x \in Item /\ x.type # "data" /\ x.id = id
      BY DEF NewTag, Item, TagTypes
    <2>3. q \in Seq(Item) /\ tq \in Seq(Ids) /\ Laid(q, tq, g) /\ Vacant(q, g, n) /\ n \in Nat
      BY DEF Kept
    <2>4. \A k \in 1 .. n : tq[k] # x.id
      BY <1>2, <2>2, Member
    <2> HIDE DEF x, h
    <2>5. /\ r \in Seq(Item) /\ t \in Seq(Ids)
          /\ Laid(r, t, h) /\ Same(q, g, r, h, n, 0)
          /\ Len(t) = n + 1 /\ r[h[n + 1]] = x
          /\ DataIn(r, After(h, n + 1), h[n + 1]) = <<>>
      <3>1. h = Extended(g, Len(tq), Len(q))
        BY DEF h
      <3>2. r = Append(q, x) /\ t = Append(tq, x.id) /\ x.id \in Ids
        BY <2>1, <2>2
      <3> HIDE DEF r, t
      <3>3. IsAppended(Append(q, x), Append(tq, x.id), q, tq, g, h, x)
        <4>1. \A k \in 1 .. Len(tq) : tq[k] # x.id
          BY <2>4
        <4>2. /\ q \in Seq(Item) /\ tq \in Seq(Ids) /\ Laid(q, tq, g)
              /\ x \in Item /\ x.type # "data" /\ x.id \in Ids
          BY <2>2, <2>3, <3>2
        <4> HIDE DEF q, tq, n, s
        <4> QED
          BY <3>1, <4>1, <4>2, Appended
      <3> QED
        BY <3>2, <3>3 DEF IsAppended
    <2>6. StreamAt(r, After(h, n + 1), h[n + 1]) = Fifo!NewStream(id)
      <3>1. /\ x.id = id /\ x.type = "uncompleted" /\ x.polling = FALSE
            /\ x.content = NoData /\ x.err = 0
        BY DEF x, NewTag
      <3> QED
        BY <2>5, <3>1 DEF StreamAt, Fifo!NewStream
    <2>7. \A k \in 1 .. n + 1 : k \in 1 .. n \/ k = n + 1
      BY <2>3
    <2>8. Vacant(r, h, n + 1)
      <3> SUFFICES ASSUME NEW k \in 1 .. n + 1,
                          StreamAt(r, After(h, k), h[k]).type \in {"deleted", "error"}
                   PROVE  StreamAt(r, After(h, k), h[k]).data = <<>>
        BY DEF Vacant
      <3>1. CASE k = n + 1
        BY <2>6, <3>1 DEF Fifo!NewStream
      <3>2. CASE k \in 1 .. n
        <4>1. k # 0
          BY <3>2
        <4>2. StreamAt(r, After(h, k), h[k]) = StreamAt(q, After(g, k), g[k])
          BY <2>5, <3>2, <4>1 DEF Same
        <4> QED
          BY <2>3, <3>2, <4>2 DEF Vacant
      <3> QED
        BY <2>7, <3>1, <3>2
    <2>9. item_tags_' = ToSet(t)
      <3>1. t \in Seq(Ids) /\ Len(t) = n + 1 /\ t[n + 1] = id /\ \A k \in 1 .. n : t[k] = tq[k]
        BY <2>1, <2>3, AppendProperties
      <3>2. ToSet(t) = {t[k] : k \in 1 .. n + 1} /\ ToSet(tq) = {tq[k] : k \in 1 .. n}
        BY <2>3, <3>1, LenProperties DEF ToSet
      <3>3. n + 1 \in 1 .. n + 1 /\ \A k \in 1 .. n : k \in 1 .. n + 1
        BY <2>3
      <3>4. item_tags_ = ToSet(tq)
        BY DEF Kept
      <3>5. {t[k] : k \in 1 .. n + 1} = {tq[k] : k \in 1 .. n} \cup {id}
        BY <2>7, <3>1, <3>3
      <3> QED
        BY <2>1, <3>2, <3>4, <3>5
    <2>10. Kept(r, t, item_tags_', h)
      BY <2>5, <2>8, <2>9 DEF Kept
    <2>11. streamsOf' = Append(s, Fifo!NewStream(id))
      <3> DEFINE y == Fifo!NewStream(id)
      <3>1. streamsOf' = Read(r, h, n + 1)
        BY <2>5, <2>10, NextRead
      <3>2. s = Read(q, g, n) /\ s = [k \in 1 .. n |-> s[k]]
            /\ \A k \in 1 .. n : s[k] = StreamAt(q, After(g, k), g[k])
        BY NowRead, Reads
      <3>3. \A k \in 1 .. n + 1 : StreamAt(r, After(h, k), h[k]) = IF k = n + 1 THEN y ELSE s[k]
        <4> TAKE k \in 1 .. n + 1
        <4>1. CASE k = n + 1
          BY <2>6, <4>1
        <4>2. CASE k # n + 1
          <5>1. k \in 1 .. n /\ k # 0
            BY <2>7, <4>2
          <5> QED
            BY <2>5, <3>2, <4>2, <5>1 DEF Same
        <4> QED
          BY <4>1, <4>2
      <3> HIDE DEF s, n
      <3>4. streamsOf' = [k \in 1 .. n + 1 |-> IF k = n + 1 THEN y ELSE s[k]]
        BY <3>1, <3>3 DEF Read
      <3>5. s = [k \in 1 .. n |-> s[k]]
        BY <3>2
      <3>6. streamsOf' = Longer(s, n, y)
        BY <3>4 DEF Longer
      <3> HIDE DEF y
      <3>7. Longer(s, n, y) = Append(s, y)
        BY <2>3, <3>5, OneMore
      <3> QED
        BY <3>6, <3>7 DEF y
    <2>12. ret' = Fifo!Answer(~Fifo!HasStream(s, id))
      BY <1>2, <2>1, Has DEF Answer, Fifo!Answer, NoItem, Fifo!NoItem
    <2>13. ~Fifo!HasStream(s, id)
      BY <1>2, Has
    <2> HIDE DEF s
    <2>14. Fifo!FifoStart(id)
      BY <2>11, <2>12, <2>13 DEF Fifo!FifoStart, Fifo!Start, s
    <2> QED
      BY <2>10, <2>14 DEF QInv
  <1> QED
    BY <1>1, <1>2

(* The tag of id is that of the m-th stream. *)
LEMMA TagAt ==
  ASSUME NEW g, Kept(queue_, tag_queue_, item_tags_, g), NEW id, id \in item_tags_
  PROVE  \E m \in 1 .. Len(tag_queue_) :
           /\ tag_queue_[m] = id /\ TagPos(id) = g[m]
           /\ \A k \in 1 .. Len(tag_queue_) : streamsOf[k].id = id <=> k = m
  <1>1. PICK m \in 1 .. Len(tag_queue_) : tag_queue_[m] = id
    BY Member
  <1>2. TagPos(id) = PosIn(queue_, id)
    BY DEF TagPos, PosIn, IsTag
  <1>3. PosIn(queue_, id) = g[m]
    BY <1>1, TagFound DEF Kept
  <1>4. \A k \in 1 .. Len(tag_queue_) : streamsOf[k].id = id <=> k = m
    BY <1>1, NowRead, Reads
  <1> QED
    BY <1>1, <1>2, <1>3, <1>4

(* A call that changes one stream keeps the layout of the list. *)
LEMMA ChangesOne ==
  ASSUME NEW g, Kept(queue_, tag_queue_, item_tags_, g), NEW h, NEW m, NEW y,
         queue_' \in Seq(Item), UNCHANGED <<tag_queue_, item_tags_>>,
         Laid(queue_', tag_queue_, h), Same(queue_, g, queue_', h, Len(tag_queue_), m),
         StreamAt(queue_', After(h, m), h[m]) = y,
         y.type \in {"deleted", "error"} => y.data = <<>>
  PROVE  /\ QInv'
         /\ streamsOf' = [k \in 1 .. Len(tag_queue_) |-> IF k = m THEN y ELSE streamsOf[k]]
  <1>1. /\ Vacant(queue_, g, Len(tag_queue_)) /\ tag_queue_ \in Seq(Ids)
        /\ item_tags_ = ToSet(tag_queue_)
    BY DEF Kept
  <1>2. Vacant(queue_', h, Len(tag_queue_))
    BY <1>1, VacantKept
  <1>3. Kept(queue_', tag_queue_', item_tags_', h)
    BY <1>1, <1>2 DEF Kept
  <1>4. streamsOf' = Read(queue_', h, Len(tag_queue_))
    BY <1>3, NextRead
  <1>5. streamsOf = Read(queue_, g, Len(tag_queue_))
    BY NowRead
  <1>6. Read(queue_', h, Len(tag_queue_)) =
          [k \in 1 .. Len(tag_queue_) |-> IF k = m THEN y ELSE Read(queue_, g, Len(tag_queue_))[k]]
    BY OneChanged
  <1> QED
    BY <1>3, <1>4, <1>5, <1>6 DEF QInv

(* The layout stays when nothing changes. *)
LEMMA ChangesNone ==
  ASSUME QInv, UNCHANGED <<queue_, tag_queue_, item_tags_>>
  PROVE  QInv' /\ streamsOf' = streamsOf
  BY StreamsAre DEF QInv

(* stream() is Put (pending_queue.h:218-241). *)
LEMMA StreamStep ==
  ASSUME QueueAssumption, NEW g, Kept(queue_, tag_queue_, item_tags_, g),
         NEW id \in Ids, NEW d \in Data, stream(id, d)
  PROVE  QInv' /\ Fifo!FifoStream(id, d)
  <1> DEFINE q == queue_
             tq == tag_queue_
             n == Len(tq)
             s == streamsOf
  <1>1. /\ Len(s) = n /\ n \in Nat /\ s = [k \in 1 .. n |-> s[k]]
        /\ \A k \in 1 .. n : s[k] = StreamAt(q, After(g, k), g[k]) /\ s[k].id = tq[k]
                             /\ s[k].type = q[g[k]].type
    BY NowRead, Reads
  <1>2. /\ Fifo!Put(s, id, d) = [i \in 1 .. Len(s) |->
             IF s[i].id = id /\ s[i].type = "uncompleted"
             THEN [s[i] EXCEPT !.data = Append(@, d)] ELSE s[i]]
        /\ Fifo!AcceptsData(s, id) <=>
             \E i \in 1 .. Len(s) : s[i].id = id /\ s[i].type = "uncompleted"
    BY DEF Fifo!Put, Fifo!AcceptsData
  <1> DEFINE refused == id \notin item_tags_ \/ q[TagPos(id)].type # "uncompleted"
  <1>3. CASE refused
    <2>1. UNCHANGED <<queue_, tag_queue_, item_tags_>> /\ ret' = Answer(FALSE)
      BY <1>3 DEF stream
    <2>2. QInv' /\ streamsOf' = s
      BY <2>1, ChangesNone DEF QInv
    <2>3. \A i \in 1 .. n : ~(s[i].id = id /\ s[i].type = "uncompleted")
      <3> SUFFICES ASSUME NEW i \in 1 .. n, s[i].id = id PROVE s[i].type # "uncompleted"
        OBVIOUS
      <3>1. id \in item_tags_
        BY <1>1, Member
      <3>2. q[TagPos(id)].type # "uncompleted"
        BY <1>3, <3>1
      <3>3. TagPos(id) = g[i]
        BY <3>1, TagAt
      <3> QED
        BY <1>1, <3>2, <3>3
    <2> HIDE DEF s, n
    <2>4. Fifo!Put(s, id, d) = s /\ ~Fifo!AcceptsData(s, id)
      BY <1>1, <1>2, <2>3
    <2>5. ret' = Fifo!Answer(Fifo!AcceptsData(s, id))
      BY <2>1, <2>4 DEF Answer, Fifo!Answer, NoItem, Fifo!NoItem
    <2> QED
      BY <2>2, <2>4, <2>5 DEF Fifo!FifoStream, s
  <1>4. CASE ~refused
    <2> DEFINE r == queue_'
               x == DataItem(d)
    <2>1. PICK m \in 1 .. n : /\ tq[m] = id /\ TagPos(id) = g[m]
                              /\ \A k \in 1 .. n : s[k].id = id <=> k = m
      BY <1>4, TagAt
    <2> DEFINE h == Later(g, n, m)
               y == [s[m] EXCEPT !.data = Append(@, d)]
    <2>2. UNCHANGED <<tag_queue_, item_tags_>> /\ ret' = Answer(TRUE)
          /\ r = InsertAt(q, g[m], x)
      BY <1>4, <2>1 DEF stream
    <2>3. r = Splice(q, g[m] - 1, g[m], x)
      BY <2>2 DEF InsertAt, Splice
    <2>4. x \in Item /\ x.type = "data" /\ x.content = d
      BY DEF DataItem, Item
    <2>5. q \in Seq(Item) /\ tq \in Seq(Ids) /\ Laid(q, tq, g)
      BY DEF Kept
    <2>6. q[g[m]].type = "uncompleted"
      BY <1>4, <2>1
    <2>7. h = Later(g, Len(tq), m)
      OBVIOUS
    <2> HIDE DEF r, x, h
    <2>8. r \in Seq(Item) /\ Laid(r, tq, h) /\ Same(q, g, r, h, n, m)
          /\ StreamAt(r, After(h, m), h[m]) = Gained(StreamAt(q, After(g, m), g[m]), x.content)
      <3>1. r \in Seq(Item) /\ Laid(r, tq, h) /\ Same(q, g, r, h, Len(tq), m)
        BY <2>1, <2>3, <2>4, <2>5, <2>7, Inserted
      <3>2. StreamAt(r, After(h, m), h[m]) = Gained(StreamAt(q, After(g, m), g[m]), x.content)
        BY <2>1, <2>3, <2>4, <2>5, <2>7, Inserted
      <3> QED
        BY <3>1, <3>2
    <2>9. StreamAt(r, After(h, m), h[m]) = y
      BY <1>1, <2>4, <2>8 DEF Gained
    <2>10. y.type = "uncompleted"
      <3>1. s[m] = StreamAt(q, After(g, m), g[m])
        BY <1>1
      <3> QED
        BY <2>6, <3>1 DEF StreamAt
    <2> HIDE DEF y
    <2>11. QInv' /\ streamsOf' = [k \in 1 .. n |-> IF k = m THEN y ELSE s[k]]
      BY <2>2, <2>8, <2>9, <2>10, ChangesOne DEF r
    <2>12. s[m].type = "uncompleted" /\ s[m].id = id
      BY <1>1, <2>1, <2>6
    <2> HIDE DEF s, n
    <2>13. Fifo!AcceptsData(s, id)
      BY <1>1, <1>2, <2>12
    <2>14. Fifo!Put(s, id, d) = [k \in 1 .. n |-> IF k = m THEN y ELSE s[k]]
      <3>1. \A k \in 1 .. n : (s[k].id = id /\ s[k].type = "uncompleted") <=> k = m
        BY <2>1, <2>12
      <3> QED
        BY <1>1, <1>2, <3>1 DEF y
    <2>15. ret' = Fifo!Answer(Fifo!AcceptsData(s, id))
      BY <2>2, <2>13 DEF Answer, Fifo!Answer, NoItem, Fifo!NoItem
    <2> QED
      BY <2>11, <2>14, <2>15 DEF Fifo!FifoStream, s
  <1> QED
    BY <1>3, <1>4

(* What end() makes of a tag, and of a stream. *)
Completed(x, d) ==
  [x EXCEPT !.type = "completed", !.content = IF d = NoData THEN @ ELSE d]

(* What end() makes of a tag (pending_queue.h:250-255). *)
LEMMA CompletedIs ==
  ASSUME NEW x \in Item, NEW d \in Data \cup {NoData}
  PROVE  /\ Completed(x, d) \in Item
         /\ Completed(x, d).type = "completed" /\ Completed(x, d).id = x.id
         /\ Completed(x, d).polling = x.polling /\ Completed(x, d).err = x.err
         /\ Completed(x, d).content = IF d = NoData THEN x.content ELSE d
  BY DEF Completed, Item, TagTypes

(* What end() does to the list. *)
EndAt(q, p, d) ==
  [q EXCEPT ![p].type = "completed", ![p].content = IF d = NoData THEN @ ELSE d]

(* end() replaces the tag where it stands (pending_queue.h:250-255). *)
LEMMA EndWrites ==
  ASSUME NEW q \in Seq(Item), NEW p \in 1 .. Len(q), NEW d
  PROVE  EndAt(q, p, d) = Retag(q, p, Completed(q[p], d))
  BY DEF EndAt, Retag, Completed, Item

(* The stream of a completed tag is the stream completed. *)
LEMMA StreamCompleted ==
  ASSUME NEW q, NEW r, NEW a, NEW b, NEW u, NEW v, NEW d,
         r[v].type = "completed",
         r[v].id = q[b].id, r[v].polling = q[b].polling, r[v].err = q[b].err,
         r[v].content = IF d = NoData THEN q[b].content ELSE d,
         DataIn(r, u, v) = DataIn(q, a, b)
  PROVE  StreamAt(r, u, v) = Completed(StreamAt(q, a, b), d)
  <1> DEFINE z == StreamAt(q, a, b)
             w == DataIn(q, a, b)
             c == [z EXCEPT !.type = "completed"]
  <1>1. z = [id |-> q[b].id, type |-> q[b].type, polling |-> q[b].polling, data |-> w,
             content |-> q[b].content, err |-> q[b].err]
    BY DEF StreamAt
  <1>2. StreamAt(r, u, v) = [id |-> q[b].id, type |-> "completed", polling |-> q[b].polling,
          data |-> w, content |-> IF d = NoData THEN q[b].content ELSE d, err |-> q[b].err]
    BY DEF StreamAt
  <1>3. Completed(z, d) = [c EXCEPT !.content = IF d = NoData THEN c.content ELSE d]
    <2> HIDE DEF z
    <2> QED
      BY <1>1 DEF Completed
  <1> HIDE DEF z, w
  <1>4. c = [id |-> q[b].id, type |-> "completed", polling |-> q[b].polling, data |-> w,
             content |-> q[b].content, err |-> q[b].err]
    BY <1>1
  <1> HIDE DEF c
  <1>5. Completed(z, d) = [id |-> q[b].id, type |-> "completed", polling |-> q[b].polling,
          data |-> w, content |-> IF d = NoData THEN q[b].content ELSE d, err |-> q[b].err]
    BY <1>3, <1>4
  <1> QED
    BY <1>2, <1>5 DEF z

(* end() is End (pending_queue.h:243-258). *)
LEMMA EndStep ==
  ASSUME QueueAssumption, NEW g, Kept(queue_, tag_queue_, item_tags_, g),
         NEW id \in Ids, NEW d \in Data \cup {NoData}, end(id, d)
  PROVE  QInv' /\ Fifo!FifoEnd(id, d)
  <1> DEFINE q == queue_
             tq == tag_queue_
             n == Len(tq)
             s == streamsOf
  <1>1. /\ Len(s) = n /\ n \in Nat /\ s = [k \in 1 .. n |-> s[k]]
        /\ \A k \in 1 .. n :
             /\ s[k] = StreamAt(q, After(g, k), g[k]) /\ s[k].id = tq[k]
             /\ g[k] \in 1 .. Len(q) /\ q[g[k]] \in Item
    BY NowRead, Reads
  <1>2. Fifo!End(s, id, d) =
          [i \in 1 .. Len(s) |-> IF s[i].id = id THEN Completed(s[i], d) ELSE s[i]]
    BY DEF Fifo!End, Completed
  <1>3. UNCHANGED <<tag_queue_, item_tags_>> /\ ret' = Fifo!Answer(Fifo!HasStream(s, id))
    BY Has DEF end, Answer, Fifo!Answer, NoItem, Fifo!NoItem
  <1>4. CASE id \notin item_tags_
    <2>1. UNCHANGED queue_
      BY <1>4 DEF end
    <2>2. QInv' /\ streamsOf' = s
      BY <1>3, <2>1, ChangesNone DEF QInv
    <2>3. \A i \in 1 .. n : s[i].id # id
      BY <1>1, <1>4, Member
    <2> HIDE DEF s, n
    <2>4. Fifo!End(s, id, d) = s
      BY <1>1, <1>2, <2>3
    <2> QED
      BY <1>3, <2>2, <2>4 DEF Fifo!FifoEnd, s
  <1>5. CASE id \in item_tags_
    <2>1. PICK m \in 1 .. n : /\ tq[m] = id /\ TagPos(id) = g[m]
                              /\ \A k \in 1 .. n : s[k].id = id <=> k = m
      BY <1>5, TagAt
    <2> DEFINE r == queue_'
               x == Completed(q[g[m]], d)
               y == Completed(s[m], d)
    <2>2. q \in Seq(Item) /\ tq \in Seq(Ids) /\ Laid(q, tq, g)
      BY DEF Kept
    <2>3. r = Retag(q, g[m], x)
      <3>1. r = EndAt(q, g[m], d)
        BY <1>5, <2>1 DEF end, EndAt
      <3> QED
        BY <1>1, <2>1, <2>2, <3>1, EndWrites
    <2>4. /\ x \in Item /\ x.type = "completed" /\ x.id = tq[m] /\ x.id = q[g[m]].id
          /\ x.polling = q[g[m]].polling /\ x.err = q[g[m]].err
          /\ x.content = IF d = NoData THEN q[g[m]].content ELSE d
      <3>1. q[g[m]].id = tq[m] /\ q[g[m]] \in Item
        BY <1>1, <2>1, <2>2 DEF Laid
      <3> QED
        BY <3>1, CompletedIs
    <2> HIDE DEF r, x, y
    <2>5. /\ r \in Seq(Item) /\ Laid(r, tq, g) /\ Same(q, g, r, g, n, m)
          /\ r[g[m]] = x
          /\ StreamAt(r, After(g, m), g[m]).data = StreamAt(q, After(g, m), g[m]).data
      BY <2>1, <2>2, <2>3, <2>4, Retagged
    <2>6. StreamAt(r, After(g, m), g[m]) = y
      <3>1. s[m] = StreamAt(q, After(g, m), g[m])
        BY <1>1, <2>1
      <3>2. DataIn(r, After(g, m), g[m]) = DataIn(q, After(g, m), g[m])
        BY <2>5 DEF StreamAt
      <3> HIDE DEF s, n
      <3> QED
        BY <2>4, <2>5, <3>1, <3>2, StreamCompleted DEF y
    <2>7. y.type = "completed"
      <3>1. StreamAt(r, After(g, m), g[m]).type = x.type
        BY <2>5 DEF StreamAt
      <3> QED
        BY <2>4, <2>6, <3>1
    <2>8. QInv' /\ streamsOf' = [k \in 1 .. n |-> IF k = m THEN y ELSE s[k]]
      BY <1>3, <2>5, <2>6, <2>7, ChangesOne DEF r
    <2> HIDE DEF s, n
    <2>9. Fifo!End(s, id, d) = [k \in 1 .. n |-> IF k = m THEN y ELSE s[k]]
      BY <1>1, <1>2, <2>1 DEF y
    <2> QED
      BY <1>3, <2>8, <2>9 DEF Fifo!FifoEnd, s
  <1> QED
    BY <1>4, <1>5

(* What erase() makes of a tag. *)
ErasedTag(x, e) ==
  [x EXCEPT !.content = NoData, !.type = IF e # 0 THEN "error" ELSE "deleted",
            !.err = IF e # 0 THEN e ELSE @]

(* What erase() makes of a tag (pending_queue.h:306-322). *)
LEMMA ErasedIs ==
  ASSUME NEW x \in Item, NEW e \in Errors \cup {0}
  PROVE  /\ ErasedTag(x, e) \in Item
         /\ ErasedTag(x, e).type = IF e # 0 THEN "error" ELSE "deleted"
         /\ ErasedTag(x, e).id = x.id /\ ErasedTag(x, e).polling = x.polling
         /\ ErasedTag(x, e).content = NoData
         /\ ErasedTag(x, e).err = IF e # 0 THEN e ELSE x.err
  BY DEF ErasedTag, Item, TagTypes

(* The stream of an erased tag is the stream erased. *)
LEMMA StreamErased ==
  ASSUME NEW q, NEW r, NEW a, NEW b, NEW u, NEW v, NEW e,
         r[v].type = IF e # 0 THEN "error" ELSE "deleted",
         r[v].id = q[b].id, r[v].polling = q[b].polling, r[v].content = NoData,
         r[v].err = IF e # 0 THEN e ELSE q[b].err,
         DataIn(r, u, v) = <<>>
  PROVE  StreamAt(r, u, v) = Fifo!Erased(StreamAt(q, a, b), e)
  BY DEF StreamAt, Fifo!Erased, Fifo!Emptied

(* erase() is Erase (pending_queue.h:288-326). *)
LEMMA EraseStep ==
  ASSUME QueueAssumption, NEW g, Kept(queue_, tag_queue_, item_tags_, g),
         NEW id \in Ids, NEW e \in Errors \cup {0}, erase(id, e)
  PROVE  QInv' /\ Fifo!FifoErase(id, e)
  <1> DEFINE q == queue_
             tq == tag_queue_
             n == Len(tq)
             s == streamsOf
  <1>1. /\ Len(s) = n /\ n \in Nat /\ s = [k \in 1 .. n |-> s[k]]
        /\ \A k \in 1 .. n :
             /\ s[k] = StreamAt(q, After(g, k), g[k]) /\ s[k].id = tq[k]
             /\ g[k] \in 1 .. Len(q) /\ q[g[k]] \in Item
    BY NowRead, Reads
  <1>2. Fifo!Erase(s, id, e) =
          [i \in 1 .. Len(s) |-> IF s[i].id = id THEN Fifo!Erased(s[i], e) ELSE s[i]]
    BY DEF Fifo!Erase
  <1>3. UNCHANGED <<tag_queue_, item_tags_>> /\ ret' = Fifo!Answer(Fifo!HasStream(s, id))
    BY Has DEF erase, Answer, Fifo!Answer, NoItem, Fifo!NoItem
  <1>4. CASE id \notin item_tags_
    <2>1. UNCHANGED queue_
      BY <1>4 DEF erase
    <2>2. QInv' /\ streamsOf' = s
      BY <1>3, <2>1, ChangesNone DEF QInv
    <2>3. \A i \in 1 .. n : s[i].id # id
      BY <1>1, <1>4, Member
    <2> HIDE DEF s, n
    <2>4. Fifo!Erase(s, id, e) = s
      BY <1>1, <1>2, <2>3
    <2> QED
      BY <1>3, <2>2, <2>4 DEF Fifo!FifoErase, s
  <1>5. CASE id \in item_tags_
    <2>1. PICK m \in 1 .. n : /\ tq[m] = id /\ TagPos(id) = g[m]
                              /\ \A k \in 1 .. n : s[k].id = id <=> k = m
      BY <1>5, TagAt
    <2> DEFINE r == queue_'
               b == g[m]
               x == ErasedTag(q[b], e)
               h == Earlier(g, n, m)
               y == Fifo!Erased(s[m], e)
    <2>2. q \in Seq(Item) /\ tq \in Seq(Ids) /\ Laid(q, tq, g)
      BY DEF Kept
    <2>3. FirstData(b) - 1 = After(g, m)
      <3>1. FirstData(b) = FirstIn(q, b)
        BY DEF FirstData, FirstIn, IsTag
      <3>2. FirstIn(q, b) = After(g, m) + 1 /\ After(g, m) \in Nat
        BY <2>1, <2>2, FirstFound, AfterIs
      <3> QED
        BY <3>1, <3>2
    <2>4. r = Splice(q, After(g, m), b + 1, x)
      <3>1. r = SubSeq(q, 1, FirstData(b) - 1) \o <<x>> \o SubSeq(q, b + 1, Len(q))
        BY <1>5, <2>1 DEF erase, ErasedTag
      <3> QED
        BY <2>3, <3>1 DEF Splice
    <2>5. /\ x \in Item /\ x.type = (IF e # 0 THEN "error" ELSE "deleted") /\ x.type # "data"
          /\ x.id = tq[m] /\ x.id = q[b].id /\ x.polling = q[b].polling
          /\ x.err = (IF e # 0 THEN e ELSE q[b].err) /\ x.content = NoData
      <3>1. q[b].id = tq[m] /\ q[b] \in Item
        BY <1>1, <2>1, <2>2 DEF Laid
      <3> QED
        BY <3>1, ErasedIs
    <2>6. h = Earlier(g, Len(tq), m)
      OBVIOUS
    <2> HIDE DEF r, x, y, h
    <2>7. /\ r \in Seq(Item) /\ Laid(r, tq, h) /\ Same(q, g, r, h, n, m)
          /\ r[h[m]] = x /\ DataIn(r, After(h, m), h[m]) = <<>>
      BY <2>1, <2>2, <2>4, <2>5, <2>6, CutOut
    <2>8. StreamAt(r, After(h, m), h[m]) = y
      <3>1. s[m] = StreamAt(q, After(g, m), b)
        BY <1>1, <2>1
      <3> HIDE DEF s, n, b
      <3> QED
        BY <2>5, <2>7, <3>1, StreamErased DEF y
    <2>9. y.data = <<>>
      <3>1. StreamAt(r, After(h, m), h[m]).data = <<>>
        BY <2>7 DEF StreamAt
      <3> QED
        BY <2>8, <3>1
    <2>10. QInv' /\ streamsOf' = [k \in 1 .. n |-> IF k = m THEN y ELSE s[k]]
      BY <1>3, <2>7, <2>8, <2>9, ChangesOne DEF r
    <2> HIDE DEF s, n
    <2>11. Fifo!Erase(s, id, e) = [k \in 1 .. n |-> IF k = m THEN y ELSE s[k]]
      BY <1>1, <1>2, <2>1 DEF y
    <2> QED
      BY <1>3, <2>10, <2>11 DEF Fifo!FifoErase, s
  <1> QED
    BY <1>4, <1>5

(* A stream less: the FIFO when a tag leaves. *)
LEMMA OneLess ==
  ASSUME NEW n \in Nat \ {0}, NEW s, s = [k \in 1 .. n |-> s[k]]
  PROVE  Shorter(s, n) = Tail(s)
  <1> DEFINE C == {s[k] : k \in 1 .. n}
  <1>1. s \in [1 .. n -> C]
    OBVIOUS
  <1> HIDE DEF C
  <1> QED
    BY <1>1, TailIs

(* clear() is Clear (pending_queue.h:328-360). *)
LEMMA ClearStep ==
  ASSUME QueueAssumption, NEW g, Kept(queue_, tag_queue_, item_tags_, g), clear
  PROVE  QInv' /\ Fifo!FifoClear
  <1> DEFINE q == queue_
             tq == tag_queue_
             n == Len(tq)
             s == streamsOf
             r == queue_'
             h == Plain(n)
  <1>1. /\ Len(s) = n /\ n \in Nat /\ s = [k \in 1 .. n |-> s[k]] /\ (s = <<>> <=> tq = <<>>)
        /\ \A k \in 1 .. n :
             /\ s[k] = StreamAt(q, After(g, k), g[k]) /\ s[k].id = tq[k]
             /\ g[k] \in 1 .. Len(q) /\ q[g[k]] \in Item
    BY NowRead, Reads
  <1>2. q \in Seq(Item) /\ tq \in Seq(Ids) /\ Laid(q, tq, g) /\ item_tags_ = ToSet(tq)
    BY DEF Kept
  <1>3. Tags = TagSet(q, Len(q)) /\ \A i : TagsUpTo(i) = Cardinality(TagSet(q, i))
    BY DEF Tags, TagsUpTo, TagSet, IsTag
  <1>4. TagsUpTo(Len(q)) = n
    BY <1>2, <1>3, CountedAll
  <1>5. \A k \in 1 .. n : (CHOOSE i \in Tags : TagsUpTo(i) = k) = g[k]
    <2> TAKE k \in 1 .. n
    <2>1. (CHOOSE i \in TagSet(q, Len(q)) : Cardinality(TagSet(q, i)) = k) = g[k]
      BY <1>2, KthTag
    <2>2. (CHOOSE i \in Tags : TagsUpTo(i) = k) =
          (CHOOSE i \in TagSet(q, Len(q)) : Cardinality(TagSet(q, i)) = k)
      BY <1>3
    <2> QED
      BY <2>1, <2>2
  <1>6. /\ r = Marked(q, g, n) /\ UNCHANGED <<tag_queue_, item_tags_>>
        /\ ret' = [NoItem EXCEPT !.id = IF tq = <<>> THEN 0 ELSE Head(tq)]
    <2>1. UNCHANGED <<tag_queue_, item_tags_>>
          /\ ret' = [NoItem EXCEPT !.id = IF tq = <<>> THEN 0 ELSE Head(tq)]
      BY DEF clear
    <2> DEFINE kth(k) == CHOOSE i \in Tags : TagsUpTo(i) = k
    <2>2. r = [k \in 1 .. TagsUpTo(Len(q)) |-> MarkedTag(q[kth(k)])]
      BY DEF clear, MarkedTag
    <2>2a. \A k \in 1 .. n : kth(k) = g[k]
      BY <1>5
    <2> HIDE DEF r, kth
    <2>3. r = Marked(q, g, n)
      BY <1>4, <2>2a, <2>2 DEF Marked
    <2> QED
      BY <2>1, <2>3
  <1>7. h = Plain(Len(tq))
    OBVIOUS
  <1> HIDE DEF r, h
  <1>8. /\ r \in Seq(Item) /\ Laid(r, tq, h)
        /\ \A k \in 1 .. n :
             /\ r[h[k]] = MarkedTag(q[g[k]])
             /\ DataIn(r, After(h, k), h[k]) = <<>>
    BY <1>2, <1>6, <1>7, Cleared
  <1>9. \A k \in 1 .. n : StreamAt(r, After(h, k), h[k]) = Fifo!Erased(s[k], 0)
    <2> TAKE k \in 1 .. n
    <2> DEFINE x == q[g[k]]
               y == r[h[k]]
    <2>1. y.type = "deleted" /\ y.content = NoData /\ y.id = x.id /\ y.polling = x.polling
          /\ y.err = x.err
      <3>1. x \in Item /\ y = MarkedTag(x)
        BY <1>1, <1>8
      <3> HIDE DEF x, y
      <3> QED
        BY <3>1 DEF MarkedTag, Item
    <2>2. s[k] = StreamAt(q, After(g, k), g[k]) /\ DataIn(r, After(h, k), h[k]) = <<>>
      BY <1>1, <1>8
    <2> HIDE DEF s, n
    <2> QED
      BY <2>1, <2>2, StreamErased
  <1>10. \A k \in 1 .. n : StreamAt(r, After(h, k), h[k]).data = <<>>
    BY <1>8 DEF StreamAt
  <1>11. Kept(r, tag_queue_', item_tags_', h)
    BY <1>2, <1>6, <1>8, <1>10 DEF Kept, Vacant
  <1>12. streamsOf' = Read(r, h, n)
    BY <1>6, <1>11, NextRead DEF r
  <1> HIDE DEF s, n
  <1>13. streamsOf' = Fifo!Clear(s)
    BY <1>1, <1>9, <1>12 DEF Fifo!Clear, Read
  <1>14. ret' = [Fifo!NoItem EXCEPT !.id = Fifo!ClearMin(s)]
    <2>1. Fifo!ClearMin(s) = IF tq = <<>> THEN 0 ELSE Head(tq)
      <3>1. CASE tq = <<>>
        BY <1>1, <3>1 DEF Fifo!ClearMin
      <3>2. CASE tq # <<>>
        <4>1. 1 \in 1 .. n /\ Head(tq) = tq[1]
          BY <1>2, <3>2 DEF n
        <4> QED
          BY <1>1, <3>2, <4>1 DEF Fifo!ClearMin
      <3> QED
        BY <3>1, <3>2
    <2> QED
      BY <1>6, <2>1 DEF NoItem, Fifo!NoItem
  <1> QED
    BY <1>11, <1>13, <1>14 DEF QInv, Fifo!FifoClear, s, r

(* Three empty containers agree. *)
LEMMA KeptEmpty ==
  ASSUME QueueAssumption
  PROVE  Kept(<<>>, <<>>, {}, <<>>) /\ Read(<<>>, <<>>, 0) = <<>>
  <1>1. Len(<<>>) = 0 /\ <<>> \in Seq(Item) /\ <<>> \in Seq(Ids)
    OBVIOUS
  <1>2. ToSet(<<>>) = {}
    BY DEF ToSet
  <1>3. Laid(<<>>, <<>>, <<>>) /\ Vacant(<<>>, <<>>, 0)
    BY <1>1 DEF Laid, Vacant
  <1> QED
    BY <1>1, <1>2, <1>3 DEF Kept, Read

(* close() leaves no stream (pending_queue.h:362-366). *)
LEMMA CloseStep ==
  ASSUME QueueAssumption, close
  PROVE  QInv' /\ Fifo!FifoClose
  <1>1. Kept(queue_', tag_queue_', item_tags_', <<>>)
    BY KeptEmpty DEF close
  <1>2. streamsOf' = Read(<<>>, <<>>, Len(<<>>))
    BY <1>1, NextRead DEF close
  <1>3. streamsOf' = <<>>
    BY <1>2, KeptEmpty
  <1> QED
    BY <1>1, <1>3 DEF QInv, close, Fifo!FifoClose, NoItem, Fifo!NoItem

(* The oldest stream and its tag. *)
LEMMA FrontIs ==
  ASSUME NEW g, Kept(queue_, tag_queue_, item_tags_, g), tag_queue_ # <<>>
  PROVE  /\ TagPos(Head(tag_queue_)) = g[1] /\ g[1] \in 1 .. Len(queue_)
         /\ 1 \in 1 .. Len(tag_queue_) /\ After(g, 1) = 0
         /\ streamsOf # <<>> /\ streamsOf[1] = StreamAt(queue_, 0, g[1])
         /\ streamsOf[1].id = queue_[g[1]].id /\ streamsOf[1].type = queue_[g[1]].type
         /\ streamsOf[1].polling = queue_[g[1]].polling
         /\ streamsOf[1].content = queue_[g[1]].content
         /\ streamsOf[1].err = queue_[g[1]].err
         /\ streamsOf[1].data = <<>> <=> g[1] = 1
         /\ queue_[g[1]].type \in {"deleted", "error"} => g[1] = 1
         /\ queue_[g[1]].type \in TagTypes /\ queue_[g[1]] \in Item
         /\ queue_[g[1]].id = tag_queue_[1]
  <1> DEFINE q == queue_
             tq == tag_queue_
             b == g[1]
             s == streamsOf
  <1>1. q \in Seq(Item) /\ tq \in Seq(Ids) /\ Laid(q, tq, g) /\ Vacant(q, g, Len(tq))
    BY DEF Kept
  <1>2. 1 \in 1 .. Len(tq) /\ Head(tq) = tq[1] /\ After(g, 1) = 0
    BY <1>1 DEF After
  <1>3. /\ s # <<>> /\ s[1] = StreamAt(q, 0, b)
        /\ s[1].id = tq[1] /\ s[1].type = q[b].type /\ s[1].polling = q[b].polling
        /\ s[1].content = q[b].content /\ s[1].err = q[b].err
        /\ s[1].data = DataIn(q, 0, b)
        /\ b \in 1 .. Len(q) /\ q[b] \in Item /\ q[b].type \in TagTypes
        /\ PosIn(q, tq[1]) = b
    BY <1>2, NowRead, Reads
  <1>4. q[b].id = tq[1]
    BY <1>1, <1>2 DEF Laid
  <1>5. TagPos(Head(tq)) = b
    BY <1>2, <1>3 DEF TagPos, PosIn, IsTag
  <1>6. s[1].data = <<>> <=> b = 1
    <2>1. 0 < b /\ b \in Nat /\ b - (0 + 1) = b - 1
      BY <1>3
    <2>2. s[1].data \in Seq(Content) /\ Len(s[1].data) = b - 1
      BY <1>1, <1>3, <2>1, DataType
    <2>3. s[1].data = <<>> <=> Len(s[1].data) = 0
      BY <2>2, EmptySeq
    <2> HIDE DEF s
    <2> QED
      BY <2>1, <2>2, <2>3
  <1>7. q[b].type \in {"deleted", "error"} => b = 1
    <2>1. s[1].type \in {"deleted", "error"} => s[1].data = <<>>
      BY <1>1, <1>2, <1>3 DEF Vacant
    <2> QED
      BY <1>3, <1>6, <2>1
  <1>8. s[1].id = q[b].id
    BY <1>3, <1>4
  <1>9. /\ TagPos(Head(tq)) = b /\ b \in 1 .. Len(q) /\ 1 \in 1 .. Len(tq) /\ After(g, 1) = 0
        /\ s # <<>> /\ s[1] = StreamAt(q, 0, b)
    BY <1>2, <1>3, <1>5
  <1>10. /\ s[1].id = q[b].id /\ s[1].type = q[b].type /\ s[1].polling = q[b].polling
         /\ s[1].content = q[b].content /\ s[1].err = q[b].err
    BY <1>3, <1>8
  <1>11. q[b].type \in TagTypes /\ q[b] \in Item /\ q[b].id = tq[1]
    BY <1>3, <1>4
  <1> QED
    BY <1>6, <1>7, <1>9, <1>10, <1>11

(* Which disjunct of pop() the oldest tag calls for. *)
LEMMA PopTypeIs ==
  ASSUME NEW g, Kept(queue_, tag_queue_, item_tags_, g)
  PROVE  /\ tag_queue_ = <<>> => Fifo!PopType(streamsOf) = "EMPTY"
         /\ tag_queue_ # <<>> =>
              LET x == queue_[g[1]] IN
              Fifo!PopType(streamsOf) =
                IF x.type = "deleted" THEN "REMOVED"
                ELSE IF x.type = "error" THEN "ERROR"
                ELSE IF ~x.polling THEN "START"
                ELSE IF g[1] # 1 THEN "DATA"
                ELSE IF x.type = "completed" THEN "END" ELSE "EMPTY"
  <1> DEFINE s == streamsOf
  <1>1. ASSUME tag_queue_ = <<>> PROVE Fifo!PopType(s) = "EMPTY"
    <2>1. s = <<>>
      BY <1>1, NowRead, Reads
    <2> QED
      BY <2>1 DEF Fifo!PopType
  <1>2. ASSUME tag_queue_ # <<>>
        PROVE  Fifo!PopType(s) =
                IF queue_[g[1]].type = "deleted" THEN "REMOVED"
                ELSE IF queue_[g[1]].type = "error" THEN "ERROR"
                ELSE IF ~queue_[g[1]].polling THEN "START"
                ELSE IF g[1] # 1 THEN "DATA"
                ELSE IF queue_[g[1]].type = "completed" THEN "END" ELSE "EMPTY"
    <2> DEFINE z == s[1]
    <2>1. /\ s # <<>> /\ z.type = queue_[g[1]].type /\ z.polling = queue_[g[1]].polling
          /\ z.data = <<>> <=> g[1] = 1
      BY <1>2, FrontIs
    <2>2. Fifo!PopType(s) = Fifo!FrontType(z)
      BY <2>1 DEF Fifo!PopType
    <2> HIDE DEF s, z
    <2>3. Fifo!FrontType(z) =
            IF z.type = "deleted" THEN "REMOVED"
            ELSE IF z.type = "error" THEN "ERROR"
            ELSE IF ~z.polling THEN "START"
            ELSE IF z.data # <<>> THEN "DATA"
            ELSE IF z.type = "completed" THEN "END" ELSE "EMPTY"
      BY DEF Fifo!FrontType
    <2> QED
      BY <2>1, <2>2, <2>3
  <1> QED
    BY <1>1, <1>2

(* pop() finds nothing (pending_queue.h:385-411). *)
LEMMA PopEmptyStep ==
  ASSUME NEW g, Kept(queue_, tag_queue_, item_tags_, g), popEmpty
  PROVE  QInv' /\ Fifo!FifoPop
  <1>1. UNCHANGED <<queue_, tag_queue_, item_tags_>> /\ ret' = NoItem
    BY DEF popEmpty
  <1>2. QInv' /\ streamsOf' = streamsOf
    BY <1>1, ChangesNone DEF QInv
  <1>3. Fifo!PopType(streamsOf) = "EMPTY"
    <2>1. CASE tag_queue_ = <<>>
      BY <2>1, PopTypeIs
    <2>2. CASE tag_queue_ # <<>>
      <3>1. queue_[g[1]].type = "uncompleted" /\ queue_[g[1]].polling /\ g[1] = 1
        BY <2>2, FrontIs DEF popEmpty
      <3> QED
        BY <2>2, <3>1, PopTypeIs
    <2> QED
      BY <2>1, <2>2
  <1>4. Fifo!PopRest(streamsOf) = streamsOf /\ Fifo!PopItem(streamsOf) = Fifo!NoItem
    BY <1>3 DEF Fifo!PopRest, Fifo!PopItem
  <1> QED
    BY <1>1, <1>2, <1>4 DEF Fifo!FifoPop, NoItem, Fifo!NoItem

(* available() says whether pop() would return something (368-383). *)
LEMMA AvailableStep ==
  ASSUME NEW g, Kept(queue_, tag_queue_, item_tags_, g), available
  PROVE  QInv' /\ Fifo!FifoAvailable
  <1> DEFINE A == /\ tag_queue_ # <<>>
                  /\ LET ip == TagPos(Head(tag_queue_)) IN
                     queue_[ip].type = "uncompleted" /\ queue_[ip].polling => ip # 1
  <1>1. UNCHANGED <<queue_, tag_queue_, item_tags_>> /\ ret' = Answer(A)
    BY DEF available
  <1>2. QInv' /\ streamsOf' = streamsOf
    BY <1>1, ChangesNone DEF QInv
  <1>3. A <=> Fifo!PopType(streamsOf) # "EMPTY"
    <2>1. CASE tag_queue_ = <<>>
      BY <2>1, PopTypeIs
    <2>2. CASE tag_queue_ # <<>>
      <3> DEFINE b == g[1]
                 x == queue_[b]
      <3>1. A <=> (x.type = "uncompleted" /\ x.polling => b # 1)
        BY <2>2, FrontIs
      <3>2. x.type \in TagTypes /\ (x.type \in {"deleted", "error"} => b = 1)
        BY <2>2, FrontIs
      <3>3. Fifo!PopType(streamsOf) =
                IF x.type = "deleted" THEN "REMOVED"
                ELSE IF x.type = "error" THEN "ERROR"
                ELSE IF ~x.polling THEN "START"
                ELSE IF b # 1 THEN "DATA"
                ELSE IF x.type = "completed" THEN "END" ELSE "EMPTY"
        BY <2>2, PopTypeIs
      <3> HIDE DEF A, x, b
      <3> QED
        BY <3>1, <3>2, <3>3 DEF TagTypes
    <2> QED
      BY <2>1, <2>2
  <1> HIDE DEF A
  <1>4. Answer(A) = Fifo!Answer(Fifo!Available(streamsOf))
    BY <1>3 DEF Answer, Fifo!Answer, NoItem, Fifo!NoItem, Fifo!Available
  <1> QED
    BY <1>1, <1>2, <1>4 DEF Fifo!FifoAvailable

(* What the first pop() of a stream makes of it. *)
Polled(z, p) == [z EXCEPT !.polling = p]

(* The first pop() of a stream changes polling only (pending_queue.h:391-401). *)
LEMMA StreamPolled ==
  ASSUME NEW q, NEW r, NEW a, NEW b, NEW u, NEW v, NEW p,
         r[v].type = q[b].type, r[v].id = q[b].id, r[v].polling = p,
         r[v].content = q[b].content, r[v].err = q[b].err,
         DataIn(r, u, v) = DataIn(q, a, b)
  PROVE  StreamAt(r, u, v) = Polled(StreamAt(q, a, b), p)
  <1> DEFINE z == StreamAt(q, a, b)
             w == DataIn(q, a, b)
  <1>1. z = [id |-> q[b].id, type |-> q[b].type, polling |-> q[b].polling, data |-> w,
             content |-> q[b].content, err |-> q[b].err]
    BY DEF StreamAt
  <1>2. StreamAt(r, u, v) = [id |-> q[b].id, type |-> q[b].type, polling |-> p,
          data |-> w, content |-> q[b].content, err |-> q[b].err]
    BY DEF StreamAt
  <1> HIDE DEF z, w
  <1>3. Polled(z, p) = [id |-> q[b].id, type |-> q[b].type, polling |-> p,
          data |-> w, content |-> q[b].content, err |-> q[b].err]
    BY <1>1 DEF Polled
  <1> QED
    BY <1>2, <1>3 DEF z

(* pop() hands out START (pending_queue.h:391-401). *)
LEMMA PopStartStep ==
  ASSUME NEW g, Kept(queue_, tag_queue_, item_tags_, g), popStart
  PROVE  QInv' /\ Fifo!FifoPop
  <1> DEFINE q == queue_
             tq == tag_queue_
             n == Len(tq)
             s == streamsOf
             r == queue_'
             b == g[1]
             x == [q[b] EXCEPT !.polling = TRUE]
             y == Polled(s[1], TRUE)
  <1>1. /\ tq # <<>> /\ q[b].type \in {"uncompleted", "completed"} /\ ~q[b].polling
        /\ r = [q EXCEPT ![b].polling = TRUE]
        /\ ret' = [NoItem EXCEPT !.type = "START", !.id = q[b].id]
        /\ UNCHANGED <<tag_queue_, item_tags_>>
    BY FrontIs DEF popStart
  <1>2. /\ Len(s) = n /\ n \in Nat /\ s = [k \in 1 .. n |-> s[k]]
    BY NowRead, Reads
  <1>3. /\ b \in 1 .. Len(q) /\ q[b] \in Item /\ 1 \in 1 .. n /\ After(g, 1) = 0
        /\ s # <<>> /\ s[1] = StreamAt(q, 0, b) /\ s[1].id = q[b].id /\ q[b].id = tq[1]
    BY <1>1, FrontIs
  <1>4. q \in Seq(Item) /\ tq \in Seq(Ids) /\ Laid(q, tq, g)
    BY DEF Kept
  <1>5. r = Retag(q, b, x)
    BY <1>1, <1>3, <1>4 DEF Retag
  <1>6. /\ x \in Item /\ x.type = q[b].type /\ x.type # "data" /\ x.id = tq[1] /\ x.id = q[b].id
        /\ x.polling = TRUE /\ x.content = q[b].content /\ x.err = q[b].err
    <2>1. q[b] \in Item /\ q[b].id = tq[1] /\ q[b].type \in {"uncompleted", "completed"}
      BY <1>1, <1>3
    <2> QED
      BY <2>1 DEF Item
  <1> HIDE DEF r, x
  <1>7. /\ r \in Seq(Item) /\ Laid(r, tq, g) /\ Same(q, g, r, g, n, 1)
        /\ r[b] = x
        /\ StreamAt(r, After(g, 1), b).data = StreamAt(q, After(g, 1), b).data
    BY <1>3, <1>4, <1>5, <1>6, Retagged
  <1>8. StreamAt(r, 0, b) = y
    <2>1. DataIn(r, 0, b) = DataIn(q, 0, b)
      BY <1>3, <1>7 DEF StreamAt
    <2> DEFINE p == TRUE
    <2>2. /\ r[b].type = q[b].type /\ r[b].id = q[b].id /\ r[b].polling = p
          /\ r[b].content = q[b].content /\ r[b].err = q[b].err
      BY <1>6, <1>7
    <2> HIDE DEF b, p
    <2>3. StreamAt(r, 0, b) = Polled(StreamAt(q, 0, b), p)
      BY <2>1, <2>2, StreamPolled
    <2> QED
      BY <1>3, <2>3 DEF p
  <1>9. y.type \notin {"deleted", "error"}
    <2>1. StreamAt(r, 0, b).type = x.type
      BY <1>7 DEF StreamAt
    <2> HIDE DEF y
    <2> QED
      BY <1>1, <1>6, <1>8, <2>1
  <1> HIDE DEF y
  <1>10. QInv' /\ streamsOf' = [k \in 1 .. n |-> IF k = 1 THEN y ELSE s[k]]
    <2>1. StreamAt(queue_', After(g, 1), g[1]) = y
      BY <1>3, <1>8 DEF r
    <2>2. queue_' \in Seq(Item) /\ Laid(queue_', tq, g) /\ Same(q, g, queue_', g, n, 1)
      BY <1>7 DEF r
    <2> QED
      BY <1>1, <1>9, <2>1, <2>2, ChangesOne
  <1>11. Fifo!PopType(s) = "START"
    BY <1>1, PopTypeIs
  <1> HIDE DEF s, n
  <1>12. Fifo!PopRest(s) = [k \in 1 .. n |-> IF k = 1 THEN y ELSE s[k]]
    <2>1. Fifo!PopRest(s) = [s EXCEPT ![1].polling = TRUE]
      BY <1>11 DEF Fifo!PopRest
    <2> QED
      BY <1>2, <1>3, <2>1 DEF y, Polled
  <1>13. ret' = Fifo!PopItem(s)
    BY <1>1, <1>3, <1>11 DEF Fifo!PopItem, NoItem, Fifo!NoItem
  <1> QED
    BY <1>10, <1>12, <1>13 DEF Fifo!FifoPop, s

(* pop() hands out the first data of the oldest stream (423-431). *)
LEMMA PopDataStep ==
  ASSUME NEW g, Kept(queue_, tag_queue_, item_tags_, g), popData
  PROVE  QInv' /\ Fifo!FifoPop
  <1> DEFINE q == queue_
             tq == tag_queue_
             n == Len(tq)
             s == streamsOf
             r == queue_'
             b == g[1]
             h == Sooner(g, n)
             y == [s[1] EXCEPT !.data = Tail(@)]
  <1>1. /\ tq # <<>> /\ q[b].type \in {"uncompleted", "completed"} /\ q[b].polling /\ b # 1
        /\ r = Tail(q)
        /\ ret' = [NoItem EXCEPT !.type = "DATA", !.id = q[b].id, !.res = Head(q).content]
        /\ UNCHANGED <<tag_queue_, item_tags_>>
    BY FrontIs DEF popData
  <1>2. /\ Len(s) = n /\ n \in Nat /\ s = [k \in 1 .. n |-> s[k]]
    BY NowRead, Reads
  <1>3. /\ b \in 1 .. Len(q) /\ q[b] \in Item /\ 1 \in 1 .. n /\ After(g, 1) = 0
        /\ s # <<>> /\ s[1] = StreamAt(q, 0, b) /\ s[1].id = q[b].id /\ s[1].type = q[b].type
    BY <1>1, FrontIs
  <1>4. q \in Seq(Item) /\ tq \in Seq(Ids) /\ Laid(q, tq, g)
    BY DEF Kept
  <1>5. h = Sooner(g, Len(tq))
    OBVIOUS
  <1> HIDE DEF h
  <1>6. /\ Tail(q) \in Seq(Item) /\ Laid(Tail(q), tq, h) /\ Same(q, g, Tail(q), h, n, 1)
        /\ StreamAt(q, 0, b).data[1] = Head(q).content
        /\ StreamAt(Tail(q), 0, h[1]) = Lost(StreamAt(q, 0, b))
    BY <1>1, <1>4, <1>5, DataTaken
  <1>7. After(h, 1) = 0 /\ StreamAt(r, 0, h[1]) = y
    BY <1>1, <1>3, <1>6 DEF After, Lost
  <1>8. y.type \notin {"deleted", "error"}
    <2>1. y.type = s[1].type
      BY <1>3 DEF StreamAt
    <2> HIDE DEF y, s
    <2> QED
      BY <1>1, <1>3, <2>1
  <1> HIDE DEF y
  <1>9. QInv' /\ streamsOf' = [k \in 1 .. n |-> IF k = 1 THEN y ELSE s[k]]
    BY <1>1, <1>6, <1>7, <1>8, ChangesOne
  <1>10. Fifo!PopType(s) = "DATA"
    BY <1>1, PopTypeIs
  <1>11. s[1].data[1] = Head(q).content
    BY <1>3, <1>6
  <1> HIDE DEF s, n
  <1>12. Fifo!PopRest(s) = [k \in 1 .. n |-> IF k = 1 THEN y ELSE s[k]]
    <2>1. Fifo!PopRest(s) = [s EXCEPT ![1].data = Tail(@)]
      BY <1>10 DEF Fifo!PopRest
    <2> QED
      BY <1>2, <1>3, <2>1 DEF y
  <1>13. ret' = Fifo!PopItem(s)
    BY <1>1, <1>3, <1>10, <1>11 DEF Fifo!PopItem, NoItem, Fifo!NoItem
  <1> QED
    BY <1>9, <1>12, <1>13 DEF Fifo!FifoPop, s

(* The oldest stream goes with its tag, which is the front of the list. *)
LEMMA Dropped ==
  ASSUME NEW g, Kept(queue_, tag_queue_, item_tags_, g), tag_queue_ # <<>>, g[1] = 1,
         DropTag(queue_[1])
  PROVE  QInv' /\ streamsOf' = Tail(streamsOf)
  <1> DEFINE q == queue_
             tq == tag_queue_
             n == Len(tq)
             s == streamsOf
             r == queue_'
             t == tag_queue_'
             h == Rest(g, n)
  <1>1. r = Tail(q) /\ t = Tail(tq) /\ item_tags_' = item_tags_ \ {q[1].id}
    BY DEF DropTag
  <1>2. q \in Seq(Item) /\ tq \in Seq(Ids) /\ Laid(q, tq, g) /\ item_tags_ = ToSet(tq)
        /\ Vacant(q, g, n)
    BY DEF Kept
  <1>3. n \in Nat \ {0} /\ q[1].id = tq[1] /\ 1 \in 1 .. n
    BY <1>2, FrontIs, EmptySeq, LenProperties
  <1>4. h = Rest(g, Len(tq))
    OBVIOUS
  <1> HIDE DEF r, t, h
  <1>5. /\ r \in Seq(Item) /\ t \in Seq(Ids) /\ Len(t) = n - 1 /\ Laid(r, t, h)
        /\ \A k \in 1 .. n - 1 :
             StreamAt(r, After(h, k), h[k]) = StreamAt(q, After(g, k + 1), g[k + 1])
    BY <1>1, <1>2, <1>4, TagTaken
  <1>6. \A k \in 1 .. n - 1 : k + 1 \in 1 .. n
    BY <1>3
  <1>7. Vacant(r, h, n - 1)
    BY <1>2, <1>5, <1>6 DEF Vacant
  <1>8. item_tags_' = ToSet(t)
    <2>1. \A k \in 1 .. n - 1 : t[k] = tq[k + 1]
      BY <1>1, <1>2, <1>3, HeadTailProperties
    <2>2. ToSet(t) = {t[k] : k \in 1 .. n - 1} /\ ToSet(tq) = {tq[k] : k \in 1 .. n}
      BY <1>2, <1>5, LenProperties DEF ToSet
    <2>3. \A j, k \in 1 .. n : tq[j] = tq[k] => j = k
      BY <1>2 DEF Laid
    <2>4. \A k \in 1 .. n : k = 1 \/ (k - 1 \in 1 .. n - 1 /\ (k - 1) + 1 = k)
      BY <1>3
    <2>5. \A k \in 1 .. n - 1 : k + 1 # 1
      BY <1>3
    <2> HIDE DEF n
    <2>6. {t[k] : k \in 1 .. n - 1} = {tq[k] : k \in 1 .. n} \ {tq[1]}
      <3>1. ASSUME NEW k \in 1 .. n - 1 PROVE t[k] \in {tq[i] : i \in 1 .. n} \ {tq[1]}
        <4>1. t[k] = tq[k + 1] /\ k + 1 \in 1 .. n /\ k + 1 # 1
          BY <1>6, <2>1, <2>5
        <4>2. tq[k + 1] # tq[1]
          BY <1>3, <2>3, <4>1
        <4> QED
          BY <4>1, <4>2
      <3>2. ASSUME NEW k \in 1 .. n, tq[k] # tq[1] PROVE tq[k] \in {t[i] : i \in 1 .. n - 1}
        <4>1. k - 1 \in 1 .. n - 1 /\ (k - 1) + 1 = k
          BY <2>4, <3>2
        <4>2. t[k - 1] = tq[k]
          BY <2>1, <4>1
        <4> QED
          BY <4>1, <4>2
      <3> QED
        BY <3>1, <3>2
    <2> QED
      BY <1>1, <1>2, <1>3, <2>2, <2>6
  <1>9. Kept(r, t, item_tags_', h)
    BY <1>5, <1>7, <1>8 DEF Kept
  <1>10. streamsOf' = Read(r, h, n - 1)
    BY <1>5, <1>9, NextRead DEF r, t
  <1>11. s = [k \in 1 .. n |-> s[k]] /\ \A k \in 1 .. n : s[k] = StreamAt(q, After(g, k), g[k])
    BY NowRead, Reads
  <1> HIDE DEF s, n
  <1>12. streamsOf' = Shorter(s, n)
    BY <1>5, <1>6, <1>10, <1>11 DEF Read, Shorter
  <1>13. Shorter(s, n) = Tail(s)
    BY <1>3, <1>11, OneLess
  <1> QED
    BY <1>9, <1>12, <1>13 DEF QInv, r, t, s

(* pop() hands out END: the tag is the front of the list (412-421). *)
LEMMA PopEndStep ==
  ASSUME NEW g, Kept(queue_, tag_queue_, item_tags_, g), popEnd
  PROVE  QInv' /\ Fifo!FifoPop
  <1> DEFINE s == streamsOf
  <1>1. /\ tag_queue_ # <<>> /\ g[1] = 1
        /\ queue_[1].type = "completed" /\ queue_[1].polling
        /\ ret' = [NoItem EXCEPT !.type = "END", !.id = queue_[1].id, !.res = queue_[1].content]
        /\ DropTag(queue_[1])
    <2>1. tag_queue_ # <<>>
      BY DEF popEnd
    <2>2. TagPos(Head(tag_queue_)) = g[1]
      BY <2>1, FrontIs
    <2> QED
      BY <2>1, <2>2 DEF popEnd
  <1>2. QInv' /\ streamsOf' = Tail(s)
    BY <1>1, Dropped
  <1>3. Fifo!PopType(s) = "END"
    BY <1>1, PopTypeIs
  <1>4. s[1].id = queue_[1].id /\ s[1].content = queue_[1].content
    BY <1>1, FrontIs
  <1> HIDE DEF s
  <1>5. Fifo!PopRest(s) = Tail(s)
    BY <1>3 DEF Fifo!PopRest
  <1>6. ret' = Fifo!PopItem(s)
    BY <1>1, <1>3, <1>4 DEF Fifo!PopItem, NoItem, Fifo!NoItem
  <1> QED
    BY <1>2, <1>5, <1>6 DEF Fifo!FifoPop, s

(* pop() hands out REMOVED: an erased tag that is oldest is the front (432-440). *)
LEMMA PopRemovedStep ==
  ASSUME NEW g, Kept(queue_, tag_queue_, item_tags_, g), popRemoved
  PROVE  QInv' /\ Fifo!FifoPop
  <1> DEFINE s == streamsOf
  <1>1. /\ tag_queue_ # <<>> /\ g[1] = 1
        /\ queue_[1].type = "deleted"
        /\ ret' = [NoItem EXCEPT !.type = "REMOVED", !.id = queue_[1].id]
        /\ DropTag(queue_[1])
    <2>1. tag_queue_ # <<>>
      BY DEF popRemoved
    <2>2. TagPos(Head(tag_queue_)) = g[1]
      BY <2>1, FrontIs
    <2>3. queue_[g[1]].type = "deleted"
      BY <2>2 DEF popRemoved
    <2>4. g[1] = 1
      BY <2>1, <2>3, FrontIs
    <2> QED
      BY <2>1, <2>2, <2>4 DEF popRemoved
  <1>2. QInv' /\ streamsOf' = Tail(s)
    BY <1>1, Dropped
  <1>3. Fifo!PopType(s) = "REMOVED"
    BY <1>1, PopTypeIs
  <1>4. s[1].id = queue_[1].id
    BY <1>1, FrontIs
  <1> HIDE DEF s
  <1>5. Fifo!PopRest(s) = Tail(s)
    BY <1>3 DEF Fifo!PopRest
  <1>6. ret' = Fifo!PopItem(s)
    BY <1>1, <1>3, <1>4 DEF Fifo!PopItem, NoItem, Fifo!NoItem
  <1> QED
    BY <1>2, <1>5, <1>6 DEF Fifo!FifoPop, s

(* pop() hands out ERROR, likewise (441-448). *)
LEMMA PopErrorStep ==
  ASSUME NEW g, Kept(queue_, tag_queue_, item_tags_, g), popError
  PROVE  QInv' /\ Fifo!FifoPop
  <1> DEFINE s == streamsOf
  <1>1. /\ tag_queue_ # <<>> /\ g[1] = 1
        /\ queue_[1].type = "error"
        /\ ret' = [NoItem EXCEPT !.type = "ERROR", !.id = queue_[1].id, !.err = queue_[1].err]
        /\ DropTag(queue_[1])
    <2>1. tag_queue_ # <<>>
      BY DEF popError
    <2>2. TagPos(Head(tag_queue_)) = g[1]
      BY <2>1, FrontIs
    <2>3. queue_[g[1]].type = "error"
      BY <2>2 DEF popError
    <2>4. g[1] = 1
      BY <2>1, <2>3, FrontIs
    <2> QED
      BY <2>1, <2>2, <2>4 DEF popError
  <1>2. QInv' /\ streamsOf' = Tail(s)
    BY <1>1, Dropped
  <1>3. Fifo!PopType(s) = "ERROR"
    BY <1>1, PopTypeIs
  <1>4. s[1].id = queue_[1].id /\ s[1].err = queue_[1].err
    BY <1>1, FrontIs
  <1> HIDE DEF s
  <1>5. Fifo!PopRest(s) = Tail(s)
    BY <1>3 DEF Fifo!PopRest
  <1>6. ret' = Fifo!PopItem(s)
    BY <1>1, <1>3, <1>4 DEF Fifo!PopItem, NoItem, Fifo!NoItem
  <1> QED
    BY <1>2, <1>5, <1>6 DEF Fifo!FifoPop, s

(* Every call keeps the layout and is a call of the FIFO. *)
LEMMA QStep ==
  ASSUME QueueAssumption, QInv, QueueNext
  PROVE  QInv' /\ Fifo!FifoNext
  <1>1. PICK g : Kept(queue_, tag_queue_, item_tags_, g)
    BY DEF QInv
  <1>2. ASSUME NEW id \in Ids, start(id) PROVE QInv' /\ Fifo!FifoNext
    BY <1>1, <1>2, StartStep DEF Fifo!FifoNext
  <1>3. ASSUME NEW id \in Ids, NEW d \in Data, stream(id, d) PROVE QInv' /\ Fifo!FifoNext
    BY <1>1, <1>3, StreamStep DEF Fifo!FifoNext
  <1>4. ASSUME NEW id \in Ids, NEW d \in Data \cup {NoData}, end(id, d)
        PROVE  QInv' /\ Fifo!FifoNext
    BY <1>1, <1>4, EndStep DEF Fifo!FifoNext
  <1>5. ASSUME NEW id \in Ids, NEW e \in Errors \cup {0}, erase(id, e)
        PROVE  QInv' /\ Fifo!FifoNext
    BY <1>1, <1>5, EraseStep DEF Fifo!FifoNext
  <1>6. CASE clear
    BY <1>1, <1>6, ClearStep DEF Fifo!FifoNext
  <1>7. CASE close
    BY <1>7, CloseStep DEF Fifo!FifoNext
  <1>8. CASE available
    BY <1>1, <1>8, AvailableStep DEF Fifo!FifoNext
  <1>9. CASE pop
    <2>1. QInv' /\ Fifo!FifoPop
      BY <1>1, <1>9, PopEmptyStep, PopStartStep, PopDataStep, PopEndStep, PopRemovedStep,
         PopErrorStep DEF pop
    <2> QED
      BY <2>1 DEF Fifo!FifoNext
  <1> QED
    BY <1>2, <1>3, <1>4, <1>5, <1>6, <1>7, <1>8, <1>9 DEF QueueNext

(* At first the list is empty, and so is the FIFO. *)
LEMMA QStart ==
  ASSUME QueueAssumption, QueueInit
  PROVE  QInv /\ Fifo!FifoInit
  <1>1. Kept(queue_, tag_queue_, item_tags_, <<>>)
    BY KeptEmpty DEF QueueInit
  <1>2. streamsOf = Read(<<>>, <<>>, Len(<<>>))
    BY <1>1, NowRead DEF QueueInit
  <1>3. streamsOf = <<>>
    BY <1>2, KeptEmpty
  <1> QED
    BY <1>1, <1>3 DEF QInv, QueueInit, Fifo!FifoInit, NoItem, Fifo!NoItem

(* The layout exists in every state StreamQueue reaches. *)
LEMMA QAlways == QueueSpec => []QInv
  <1>1. QueueInit => QInv
    BY QStart, QueueAssumption
  <1>2. QInv /\ [QueueNext]_queueVars => QInv'
    <2> SUFFICES ASSUME QInv, [QueueNext]_queueVars PROVE QInv'
      OBVIOUS
    <2>1. CASE QueueNext
      BY <2>1, QStep, QueueAssumption
    <2>2. CASE UNCHANGED queueVars
      BY <2>2, ChangesNone DEF queueVars
    <2> QED
      BY <2>1, <2>2
  <1> QED
    BY <1>1, <1>2, PTL DEF QueueSpec

(* A list that is laid out has the tags of tag_queue_, counted and in order. *)
LEMMA Agreement == ASSUME QInv PROVE ContainersAgree
  <1> DEFINE q == queue_
             tq == tag_queue_
             n == Len(tq)
  <1>1. PICK g : Kept(q, tq, item_tags_, g)
    BY DEF QInv
  <1>2. q \in Seq(Item) /\ tq \in Seq(Ids) /\ Laid(q, tq, g) /\ item_tags_ = ToSet(tq)
    BY <1>1 DEF Kept
  <1>3. Tags = TagSet(q, Len(q)) /\ \A i : TagsUpTo(i) = Cardinality(TagSet(q, i))
    BY DEF Tags, TagsUpTo, TagSet, IsTag
  <1>4. n = Cardinality(Tags)
    BY <1>2, <1>3, CountedAll
  <1>5. ASSUME NEW i \in Tags PROVE q[i].id = tq[TagsUpTo(i)]
    <2>1. i \in 1 .. Len(q) /\ q[i].type # "data"
      BY <1>3 DEF TagSet
    <2>2. PICK k \in 1 .. n : g[k] = i
      BY <1>2, <2>1 DEF Laid
    <2>3. TagsUpTo(i) = k
      BY <1>2, <1>3, <2>2, Counted
    <2> QED
      BY <1>2, <2>2, <2>3 DEF Laid
  <1>6. Cardinality(item_tags_) = n
    <2>1. tq \in [1 .. n -> ToSet(tq)]
      BY <1>2, LenProperties DEF ToSet
    <2>2. \A j, k \in 1 .. n : tq[j] = tq[k] => j = k
      BY <1>2 DEF Laid
    <2>3. \A x \in ToSet(tq) : \E k \in 1 .. n : tq[k] = x
      BY <1>2, LenProperties DEF ToSet
    <2>4. tq \in Bijection(1 .. n, ToSet(tq))
      BY <2>1, <2>2, <2>3, Fun_IsBij
    <2>5. ExistsBijection(1 .. n, ToSet(tq)) /\ n \in Nat
      BY <1>2, <2>4 DEF ExistsBijection
    <2> QED
      BY <1>2, <2>5, FS_CountingElements
  <1>7. q # <<>> => IsTag(Len(q))
    <2> SUFFICES ASSUME q # <<>> PROVE IsTag(Len(q))
      OBVIOUS
    <2>1. tq # <<>> /\ g[n] = Len(q)
      BY <1>2 DEF Laid
    <2>2. n \in 1 .. n
      BY <1>2, <2>1, EmptySeq, LenProperties
    <2>3. q[g[n]].type # "data"
      BY <1>2, <2>2 DEF Laid
    <2> QED
      BY <2>1, <2>3 DEF IsTag
  <1> QED
    BY <1>2, <1>4, <1>5, <1>6, <1>7 DEF ContainersAgree

(* The list, tag_queue_ and item_tags_ always name the same tags, in the   *)
(* same order, and the last item of the list is a tag: pop_front() takes   *)
(* what pop() has looked at (pending_queue.h:412-448, 452-454).            *)
THEOREM QueueContainers == QueueSpec => []ContainersAgree
  BY QAlways, Agreement, PTL

(* An erased tag that is the oldest is the front of the list, which is     *)
(* where pop() unlinks it without looking (pending_queue.h:436, 445).      *)
THEOREM QueueFront == QueueSpec => []ErasedTagAtFront
  <1>1. ASSUME QInv PROVE ErasedTagAtFront
    <2>1. PICK g : Kept(queue_, tag_queue_, item_tags_, g)
      BY <1>1 DEF QInv
    <2> QED
      BY <2>1, FrontIs DEF ErasedTagAtFront
  <1> QED
    BY <1>1, QAlways, PTL

(* The list with tags is a FIFO of streams, for any ids, payloads, errors  *)
(* and length and any order of calls: every method changes the FIFO and    *)
(* answers as StreamFifoSpec says (pending_queue.h:198-449).               *)
THEOREM QueueImplements == QueueSpec => ImplementsFifo
  <1>1. QueueInit => Fifo!FifoInit
    BY QStart, QueueAssumption
  <1>2. QInv /\ [QueueNext]_queueVars => [Fifo!FifoNext]_(Fifo!fifoVars)
    <2> SUFFICES ASSUME QInv, [QueueNext]_queueVars PROVE [Fifo!FifoNext]_(Fifo!fifoVars)
      OBVIOUS
    <2>1. CASE QueueNext
      BY <2>1, QStep, QueueAssumption
    <2>2. CASE UNCHANGED queueVars
      <3>1. streamsOf' = streamsOf /\ ret' = ret
        BY <2>2, ChangesNone DEF queueVars
      <3> QED
        BY <3>1 DEF Fifo!fifoVars
    <2> QED
      BY <2>1, <2>2
  <1> QED
    BY <1>1, <1>2, QAlways, PTL DEF QueueSpec, ImplementsFifo, Fifo!FifoSpec

(* An item of the list is always an item, tag_queue_ and item_tags_ hold   *)
(* ids that were started (pending_queue.h:452-454).                        *)
THEOREM QueueTypes == QueueSpec => []QueueTypeOK
  <1>1. ASSUME QInv PROVE QueueTypeOK
    <2>1. PICK g : Kept(queue_, tag_queue_, item_tags_, g)
      BY <1>1 DEF QInv
    <2>2. queue_ \in Seq(Item) /\ tag_queue_ \in Seq(Ids) /\ item_tags_ = ToSet(tag_queue_)
      BY <2>1 DEF Kept
    <2>3. ToSet(tag_queue_) \subseteq Ids
      BY <2>2 DEF ToSet
    <2> QED
      BY <2>2, <2>3 DEF QueueTypeOK
  <1> QED
    BY <1>1, QAlways, PTL

-----------------------------------------------------------------------------
(* SpeechConnection: one socket at a time.                                 *)

(* The sessions do not inherit a socket. *)
Tidy == MaxSessions <= 1 \/ Releases # "any"

Closing == {"null", "test", "init", "push"}
Failing == {"errTest", "errInit"}

Types ==
  /\ stage \in Stages
  /\ sock \in {"none", "connecting", "open", "mute", "closing"}
  /\ workPc \in {"dead", "loop", "connect", "dial", "sleep", "asleep", "hub", "auth", "publish"}
  /\ ctlPc \in {"none", "running", "close", "notify", "join"}
  /\ hand \in [Threads -> {"none"} \cup Closing \cup Failing]
  /\ session \in Nat

(* onDisconnection runs for a socket that is still there, onError for none *)
(* that is, and in the work thread only.                                   *)
HandInv ==
  /\ \A t \in Threads : hand[t] \in Closing => sock = "closing"
  /\ \A t \in Threads :
       hand[t] \in Failing => t = "work" /\ sock = "none" /\ workPc \in {"loop", "hub"}

(* The work thread comes back from the hub when no socket is left; only    *)
(* one it has just asked for may be there, and the stage tells.            *)
DialInv ==
  /\ workPc \in {"connect", "dial", "sleep", "asleep"} => sock = "none"
  /\ workPc = "dial" => stage \in {"CONNECTING", "RELEASED"}
  /\ workPc = "loop" /\ sock # "none" => sock = "connecting" /\ stage \in {"CONNECTING", "RELEASED"}

(* Before the first session there is nothing; after one that was released  *)
(* when ready, nothing is left.                                            *)
SessionInv ==
  session = 0 =>
    /\ ctlPc = "none" /\ workPc = "dead" /\ sock = "none"
    /\ \A t \in Threads : hand[t] = "none"

ReadyInv ==
  /\ ctlPc = "none" => workPc = "dead" /\ sock = "none" /\ \A t \in Threads : hand[t] = "none"
  /\ ctlPc \in {"close", "notify", "join"} =>
       /\ stage = "RELEASED" /\ workPc \in {"hub", "loop", "dead"} /\ sock # "connecting"
       /\ workPc \in {"loop", "dead"} => sock = "none"
       /\ \A t \in Threads : hand[t] \in {"none", "null", "test"}

Inv == Types /\ HandInv /\ DialInv /\ SessionInv /\ (Releases # "any" => ReadyInv)
---------------------------------------------------------------------------
(* At first there is neither a socket nor a thread. *)
LEMMA InitInv == Init => Inv
BY DEF Init, Inv, Types, HandInv, DialInv, SessionInv, ReadyInv, Closing, Failing, Stages, Threads

(* initialize() and release() (speech_connection.cc:46-89). *)
LEMMA OwnerInv ==
  ASSUME Tidy, Inv, initialize \/ releaseMark \/ releaseClose \/ releaseNotify \/ releaseJoin
  PROVE  Inv'
<1> USE ConnAssumption
    DEF Tidy, Inv, Types, HandInv, DialInv, SessionInv, ReadyInv, Closing, Failing, Stages, Threads,
       linkVars, callVars, ctlVars
<1>1. CASE initialize
  BY <1>1 DEF initialize
<1>2. CASE releaseMark
  BY <1>2 DEF releaseMark, MayRelease
<1>3. CASE releaseClose
  BY <1>3 DEF releaseClose
<1>4. CASE releaseNotify
  BY <1>4 DEF releaseNotify
<1>5. CASE releaseJoin
  BY <1>5 DEF releaseJoin
<1> QED
  BY <1>1, <1>2, <1>3, <1>4, <1>5

(* onDisconnection and onError (speech_connection.cc:278-316, 441-452). *)
LEMMA CallbackInv == ASSUME Tidy, Inv, NEW t \in Threads, callback(t) PROVE Inv'
<1> USE ConnAssumption
    DEF Tidy, Inv, Types, HandInv, DialInv, SessionInv, ReadyInv, Closing, Failing, Stages, Threads,
       linkVars, callVars, ctlVars
<1>1. CASE handlerNull(t)
  BY <1>1 DEF handlerNull, Handle
<1>2. CASE handlerTest(t)
  BY <1>2 DEF handlerTest, Handle
<1>3. CASE handlerInit(t)
  BY <1>3 DEF handlerInit, Handle
<1>4. CASE handlerPush(t)
  BY <1>4 DEF handlerPush, Handle
<1>5. CASE t = "work" /\ errorTest
  BY <1>5 DEF errorTest, Handle
<1>6. CASE t = "work" /\ errorInit
  BY <1>6 DEF errorInit, Handle
<1> QED
  BY <1>1, <1>2, <1>3, <1>4, <1>5, <1>6 DEF callback

(* The work thread (speech_connection.cc:121-155). *)
LEMMA RunInv == ASSUME Tidy, Inv, run PROVE Inv'
<1> USE ConnAssumption
    DEF Tidy, Inv, Types, HandInv, DialInv, SessionInv, ReadyInv, Closing, Failing, Stages, Threads,
       linkVars, callVars, ctlVars
<1>1. CASE workLoop
  BY <1>1 DEF workLoop, WorkAt
<1>2. CASE workConnect
  BY <1>2 DEF workConnect, WorkAt
<1>3. CASE workDial
  BY <1>3 DEF workDial, WorkAt
<1>4. CASE workDialFails
  BY <1>4 DEF workDialFails, WorkAt
<1>5. CASE workSleep
  BY <1>5 DEF workSleep, WorkAt
<1>6. CASE workWake
  BY <1>6 DEF workWake, WorkAt
<1> QED
  BY <1>1, <1>2, <1>3, <1>4, <1>5, <1>6 DEF run

(* The callbacks of the hub (speech_connection.cc:272-304, 403-424). *)
LEMMA HubInv == ASSUME Tidy, Inv, hub PROVE Inv'
<1> USE ConnAssumption
    DEF Tidy, Inv, Types, HandInv, DialInv, SessionInv, ReadyInv, Closing, Failing, Stages, Threads,
       linkVars, callVars, ctlVars
<1>1. CASE hubReturns
  BY <1>1 DEF hubReturns, WorkAt
<1>2. CASE hubConnected
  BY <1>2 DEF hubConnected, WorkAt
<1>3. CASE hubConnectFails
  BY <1>3 DEF hubConnectFails, WorkAt
<1>4. CASE hubDropped
  BY <1>4 DEF hubDropped, WorkAt
<1>5. CASE hubClosed
  BY <1>5 DEF hubClosed, WorkAt
<1>6. CASE hubAuthOk
  BY <1>6 DEF hubAuthOk, WorkAt
<1>7. CASE hubAuthRefused
  BY <1>7 DEF hubAuthRefused, WorkAt
<1>8. CASE authReady
  BY <1>8 DEF authReady, WorkAt
<1>9. CASE authPublish
  BY <1>9 DEF authPublish, WorkAt
<1>10. CASE \E p \in {"DATA", "BAD"} : hubPacket(p)
  BY <1>10 DEF hubPacket, WorkAt
<1> QED
  BY <1>1, <1>2, <1>3, <1>4, <1>5, <1>6, <1>7, <1>8, <1>9, <1>10 DEF hub

(* The keepalive thread (speech_connection.cc:157-197). *)
LEMMA KeepInv == ASSUME Tidy, Inv, keepalive_run PROVE Inv'
<1> USE ConnAssumption
    DEF Tidy, Inv, Types, HandInv, DialInv, SessionInv, ReadyInv, Closing, Failing, Stages, Threads,
       linkVars, callVars, ctlVars
<1>1. CASE keepLoop
  BY <1>1 DEF keepLoop, KeepAt
<1>2. CASE keepLive
  BY <1>2 DEF keepLive, KeepAt
<1>3. CASE keepTerm
  BY <1>3 DEF keepTerm, KeepAt
<1>4. CASE keepSleep
  BY <1>4 DEF keepSleep, KeepAt
<1>5. CASE keepWake
  BY <1>5 DEF keepWake, KeepAt
<1> QED
  BY <1>1, <1>2, <1>3, <1>4, <1>5 DEF keepalive_run

(* The peer, the clock, and the calls of send() and recv(). *)
LEMMA OtherInv ==
  ASSUME Tidy, Inv, peerMute \/ silence \/ send \/ recv \/ UNCHANGED vars
  PROVE  Inv'
<1> USE ConnAssumption
    DEF Tidy, Inv, Types, HandInv, DialInv, SessionInv, ReadyInv, Closing, Failing, Stages, Threads,
       linkVars, callVars, ctlVars
<1>1. CASE peerMute
  BY <1>1 DEF peerMute
<1>2. CASE silence \/ send \/ recv \/ UNCHANGED vars
  BY <1>2 DEF silence, vars, send, sendTest, sendTimer, sendAgain, sendWrite, recv, recvCall,
              recvTimer, recvReturn
<1> QED
  BY <1>1, <1>2

---------------------------------------------------------------------------
(* Every step keeps the invariant. *)
LEMMA StepInv == Tidy /\ Inv /\ [Next]_vars => Inv'
BY OwnerInv, CallbackInv, RunInv, HubInv, KeepInv, OtherInv DEF Next

(* connect() is called only when the last socket is gone, whichever of the *)
(* three threads closed it and however their writes of stage_ interleave   *)
(* (speech_connection.cc:68, 133, 179, 423).                               *)
THEOREM OneSocketAtATime == Tidy => (Spec => []OneLink)
<1>1. Inv => OneLink
  BY DEF Inv, DialInv, OneLink
<1>2. SUFFICES ASSUME Tidy PROVE Spec => []OneLink
  OBVIOUS
<1>3. Inv /\ [Next]_vars => Inv'
  BY <1>2, StepInv
<1> QED
  BY <1>1, <1>3, InitInv, PTL DEF Spec

---------------------------------------------------------------------------
(* NobodySleepsOnWork is inductive with the few types it needs: a sender   *)
(* goes to sleep only where the stage cannot become READY before it does,  *)
(* and the thread that makes it READY wakes it (speech_connection.cc:411-  *)
(* 419, 427-435).                                                          *)
Awake == responses \in Seq(Packet) /\ NobodySleepsOnWork

LEMMA AwakeStep == Awake /\ [Next]_vars => Awake'
<1> SUFFICES ASSUME Awake, [Next]_vars PROVE Awake'
  OBVIOUS
<1> USE DEF Awake, NobodySleepsOnWork, Packet, linkVars, callVars, ctlVars
<1>1. CASE initialize \/ releaseMark \/ releaseClose \/ releaseNotify \/ releaseJoin
  BY <1>1 DEF initialize, releaseMark, releaseClose, releaseNotify, releaseJoin
<1>2. CASE \E t \in Threads : callback(t)
  <2> PICK t \in Threads : callback(t)
    BY <1>2
  <2>1. CASE handlerPush(t)
    BY <2>1 DEF handlerPush, Handle
  <2>2. CASE handlerNull(t) \/ handlerTest(t) \/ handlerInit(t) \/ errorTest \/ errorInit
    BY <2>2 DEF handlerNull, handlerTest, handlerInit, errorTest, errorInit, Handle
  <2> QED
    BY <2>1, <2>2 DEF callback
<1>3. CASE run
  BY <1>3 DEF run, workLoop, workConnect, workDial, workDialFails, workSleep, workWake, WorkAt
<1>4. CASE hub
  <2>1. CASE \E p \in {"DATA", "BAD"} : hubPacket(p)
    BY <2>1 DEF hubPacket, WorkAt
  <2>2. CASE authReady \/ authPublish
    BY <2>2 DEF authReady, authPublish, WorkAt
  <2>3. CASE hubReturns \/ hubConnected \/ hubConnectFails \/ hubDropped \/ hubClosed
             \/ hubAuthOk \/ hubAuthRefused
    BY <2>3 DEF hubReturns, hubConnected, hubConnectFails, hubDropped, hubClosed, hubAuthOk,
                hubAuthRefused, WorkAt
  <2> QED
    BY <1>4, <2>1, <2>2, <2>3 DEF hub
<1>5. CASE keepalive_run \/ peerMute \/ silence \/ UNCHANGED vars
  BY <1>5 DEF keepalive_run, keepLoop, keepLive, keepTerm, keepSleep, keepWake, KeepAt, peerMute,
              silence, vars
<1>6. CASE send
  BY <1>6 DEF send, sendTest, sendTimer, sendAgain, sendWrite, ReqMutexFree
<1>7. CASE recv
  BY <1>7 DEF recv, recvCall, recvTimer, recvReturn, Take
<1> QED
  BY <1>1, <1>2, <1>3, <1>4, <1>5, <1>6, <1>7 DEF Next

(* send() never sleeps on a ready connection, nor recv() on a packet       *)
(* (speech_connection.cc:418, 450; .h:93-100).                             *)
THEOREM NoLostWakeup == Spec => []NobodySleepsOnWork
<1>1. Init => Awake
  BY DEF Init, Awake, NobodySleepsOnWork
<1>2. Awake => NobodySleepsOnWork
  BY DEF Awake
<1> QED
  BY <1>1, <1>2, AwakeStep, PTL DEF Spec
==============================================================================
