----------------------------- MODULE SdkLemmas -----------------------------
(***************************************************************************)
(* The lemmas the proofs about the two classes of the speech SDK share.    *)
(* Facts about sequences: what Append, Tail, EXCEPT and a function on      *)
(* 1 .. n give.  Facts about StreamFifo: what its operators keep of the    *)
(* type of the queue, the ids of its streams and their order.  Facts about *)
(* OpCtl: each method of OperationController keeps the type of the list    *)
(* and touches only the operations it is about.                            *)
(***************************************************************************)
EXTENDS OpCtl, StreamFifo, TLAPS

LEMMA EmptySeq == \A S : <<>> \in Seq(S) /\ Len(<<>>) = 0
  OBVIOUS

(* A function on 1 .. n is a sequence. *)
LEMMA FunIsSeq ==
  ASSUME NEW S, NEW n \in Nat, NEW f \in [1 .. n -> S]
  PROVE  f \in Seq(S) /\ Len(f) = n
  OBVIOUS

LEMMA SeqElement ==
  ASSUME NEW S, NEW s \in Seq(S)
  PROVE  /\ s \in [1 .. Len(s) -> S] /\ Len(s) \in Nat
         /\ DOMAIN s = 1 .. Len(s)
         /\ \A i \in 1 .. Len(s) : s[i] \in S
  OBVIOUS

(* One element of a sequence replaced. *)
LEMMA SeqExcept ==
  ASSUME NEW S, NEW s \in Seq(S), NEW i \in 1 .. Len(s), NEW x \in S
  PROVE  /\ [s EXCEPT ![i] = x] \in Seq(S)
         /\ Len([s EXCEPT ![i] = x]) = Len(s)
         /\ [s EXCEPT ![i] = x][i] = x
         /\ \A j \in 1 .. Len(s) : j # i => [s EXCEPT ![i] = x][j] = s[j]
  <1>1. [s EXCEPT ![i] = x] \in [1 .. Len(s) -> S]
    BY SeqElement
  <1> QED
    BY <1>1, FunIsSeq, SeqElement

(* One element appended. *)
LEMMA SeqAppend ==
  ASSUME NEW S, NEW s \in Seq(S), NEW x \in S
  PROVE  /\ Append(s, x) \in Seq(S)
         /\ Len(Append(s, x)) = Len(s) + 1
         /\ Append(s, x)[Len(s) + 1] = x
         /\ \A i \in 1 .. Len(s) : Append(s, x)[i] = s[i]
  OBVIOUS

(* The first element removed. *)
LEMMA SeqTail ==
  ASSUME NEW S, NEW s \in Seq(S), s # <<>>
  PROVE  /\ Tail(s) \in Seq(S)
         /\ Len(s) \in Nat \ {0} /\ Len(Tail(s)) = Len(s) - 1
         /\ \A i \in 1 .. Len(s) - 1 : Tail(s)[i] = s[i + 1]
         /\ s[1] \in S
  OBVIOUS

(* A sequence of certain numbers. *)
LEMMA SeqOfNat ==
  ASSUME NEW S, S \subseteq Nat, NEW s \in Seq(S)
  PROVE  s \in Seq(Nat)
  <1>1. PICK n \in Nat : s \in [1 .. n -> S]
    BY SeqElement
  <1>2. s \in [1 .. n -> Nat]
    BY <1>1
  <1> QED
    BY <1>2, FunIsSeq

(* Two sequences joined. *)
LEMMA SeqJoin ==
  ASSUME NEW S, NEW a \in Seq(S), NEW b \in Seq(S), NEW c \in Seq(S)
  PROVE  /\ a \o b \in Seq(S) /\ (a \o b) \o c = a \o (b \o c)
         /\ a \o <<>> = a /\ <<>> \o a = a
  <1>1. a \o b \in Seq(S) /\ b \o c \in Seq(S)
    OBVIOUS
  <1>2. (a \o b) \o c \in Seq(S) /\ a \o (b \o c) \in Seq(S)
    BY <1>1
  <1> DEFINE l == (a \o b) \o c
             r == a \o (b \o c)
  <1>3. Len(l) = Len(r) /\ Len(l) \in Nat
    OBVIOUS
  <1>4. \A i \in 1 .. Len(l) : l[i] = r[i]
    OBVIOUS
  <1>5. l = r
    <2>1. l \in [1 .. Len(l) -> S] /\ r \in [1 .. Len(l) -> S]
      BY <1>2, <1>3, SeqElement
    <2> HIDE DEF l, r
    <2> QED
      BY <1>4, <2>1
  <1>6. a \o <<>> = a /\ <<>> \o a = a
    OBVIOUS
  <1> QED
    BY <1>1, <1>5, <1>6

(* The first of b moves to the end of a. *)
LEMMA SeqShift ==
  ASSUME NEW S, NEW a \in Seq(S), NEW b \in Seq(S), b # <<>>
  PROVE  /\ Append(a, b[1]) \in Seq(S) /\ Append(a, b[1]) \o Tail(b) = a \o b
         /\ Append(a, b[1]) = a \o <<b[1]>>
  <1>1. b[1] \in S /\ Tail(b) \in Seq(S) /\ Len(b) \in Nat \ {0} /\ Len(Tail(b)) = Len(b) - 1
        /\ \A i \in 1 .. Len(b) - 1 : Tail(b)[i] = b[i + 1]
    BY SeqTail
  <1>2. /\ Append(a, b[1]) \in Seq(S) /\ Len(Append(a, b[1])) = Len(a) + 1
        /\ Append(a, b[1])[Len(a) + 1] = b[1]
        /\ \A i \in 1 .. Len(a) : Append(a, b[1])[i] = a[i]
        /\ Len(a) \in Nat
    BY <1>1, SeqAppend, SeqElement
  <1> DEFINE l == Append(a, b[1]) \o Tail(b)
             r == a \o b
  <1>3. l \in Seq(S) /\ r \in Seq(S)
    BY <1>1, <1>2
  <1>4. Len(l) = Len(r) /\ Len(r) = Len(a) + Len(b)
    BY <1>1, <1>2
  <1>5. ASSUME NEW i \in 1 .. Len(r) PROVE l[i] = r[i]
    BY <1>1, <1>2, <1>4, <1>5
  <1>6. l = r
    <2>1. l \in [1 .. Len(l) -> S] /\ r \in [1 .. Len(l) -> S]
      BY <1>3, <1>4, SeqElement
    <2> HIDE DEF l, r
    <2> QED
      BY <1>4, <1>5, <2>1
  <1> QED
    BY <1>1, <1>2, <1>6

(* Three sequences are joined in either order; a predicate of its own for  *)
(* the provers to match.                                                   *)
Joins(a, b, c) == (a \o b) \o c = a \o (b \o c)

LEMMA Associative ==
  ASSUME NEW S, NEW a \in Seq(S), NEW b \in Seq(S), NEW c \in Seq(S)
  PROVE  Joins(a, b, c)
  BY SeqJoin DEF Joins

-----------------------------------------------------------------------------
(* The operators of StreamFifo.                                            *)

(* s and t have the same streams, as far as ids go. *)
SameIds(s, t) == Len(t) = Len(s) /\ \A i \in 1 .. Len(s) : t[i].id = s[i].id

LEMMA StartKeeps ==
  ASSUME NEW I, NEW D, NEW E, NEW s \in Seq(Stream(I, D, E)), NEW id \in I
  PROVE  /\ Start(s, id) \in Seq(Stream(I, D, E))
         /\ HasStream(s, id) => Start(s, id) = s
         /\ ~HasStream(s, id) => Start(s, id) = Append(s, NewStream(id))
  <1>1. NewStream(id) \in Stream(I, D, E)
    BY DEF NewStream, Stream, TagType
  <1> QED
    BY <1>1, SeqAppend DEF Start

LEMMA PutKeeps ==
  ASSUME NEW I, NEW D, NEW E, NEW s \in Seq(Stream(I, D, E)), NEW id, NEW d \in D
  PROVE  /\ Put(s, id, d) \in Seq(Stream(I, D, E))
         /\ SameIds(s, Put(s, id, d))
         /\ \A i \in 1 .. Len(s) : Put(s, id, d)[i].type = s[i].type
  <1> DEFINE f == Put(s, id, d)
  <1>1. ASSUME NEW i \in 1 .. Len(s)
        PROVE  f[i] \in Stream(I, D, E) /\ f[i].id = s[i].id /\ f[i].type = s[i].type
    <2>1. s[i] \in Stream(I, D, E)
      BY SeqElement
    <2>2. f[i] = IF s[i].id = id /\ s[i].type = "uncompleted"
                 THEN [s[i] EXCEPT !.data = Append(@, d)] ELSE s[i]
      BY DEF Put
    <2>3. Append(s[i].data, d) \in Seq(D)
      BY <2>1, SeqAppend DEF Stream
    <2> QED
      BY <2>1, <2>2, <2>3 DEF Stream
  <1>2. f \in [1 .. Len(s) -> Stream(I, D, E)]
    BY <1>1 DEF Put
  <1> QED
    BY <1>1, <1>2, FunIsSeq, SeqElement DEF SameIds

LEMMA EndKeeps ==
  ASSUME NEW I, NEW D, NEW E, NEW s \in Seq(Stream(I, D, E)), NEW id,
         NEW d \in D \cup {NoData}
  PROVE  /\ End(s, id, d) \in Seq(Stream(I, D, E))
         /\ SameIds(s, End(s, id, d))
         /\ \A i \in 1 .. Len(s) :
              End(s, id, d)[i].type = IF s[i].id = id THEN "completed" ELSE s[i].type
  <1> DEFINE f == End(s, id, d)
  <1>1. ASSUME NEW i \in 1 .. Len(s)
        PROVE  /\ f[i] \in Stream(I, D, E) /\ f[i].id = s[i].id
               /\ f[i].type = IF s[i].id = id THEN "completed" ELSE s[i].type
    <2>1. s[i] \in Stream(I, D, E)
      BY SeqElement
    <2>2. f[i] = IF s[i].id = id
                 THEN [s[i] EXCEPT !.type = "completed",
                                   !.content = IF d = NoData THEN @ ELSE d]
                 ELSE s[i]
      BY DEF End
    <2> DEFINE x == [s[i] EXCEPT !.type = "completed"]
               c == IF d = NoData THEN s[i].content ELSE d
    <2>3. x \in Stream(I, D, E) /\ x.id = s[i].id /\ x.type = "completed"
      BY <2>1 DEF Stream, TagType
    <2>4. c \in D \cup {NoData}
      BY <2>1 DEF Stream
    <2>5. s[i].id = id => f[i] = [x EXCEPT !.content = c]
      BY <2>1, <2>2 DEF Stream
    <2> HIDE DEF f, x, c
    <2>6. [x EXCEPT !.content = c] \in Stream(I, D, E)
      BY <2>3, <2>4 DEF Stream
    <2>7. /\ [x EXCEPT !.content = c].id = x.id
          /\ [x EXCEPT !.content = c].type = x.type
      BY <2>3 DEF Stream
    <2> QED
      BY <2>1, <2>2, <2>3, <2>5, <2>6, <2>7
  <1>2. f \in [1 .. Len(s) -> Stream(I, D, E)]
    BY <1>1 DEF End
  <1> QED
    BY <1>1, <1>2, FunIsSeq, SeqElement DEF SameIds

LEMMA EraseKeeps ==
  ASSUME NEW I, NEW D, NEW E, NEW s \in Seq(Stream(I, D, E)), NEW id,
         NEW e \in E \cup {0}
  PROVE  /\ Erase(s, id, e) \in Seq(Stream(I, D, E))
         /\ SameIds(s, Erase(s, id, e))
         /\ \A i \in 1 .. Len(s) :
              IF s[i].id = id THEN Erase(s, id, e)[i].type \in {"deleted", "error"}
                              ELSE Erase(s, id, e)[i] = s[i]
  <1> DEFINE f == Erase(s, id, e)
  <1>1. ASSUME NEW i \in 1 .. Len(s)
        PROVE  /\ f[i] \in Stream(I, D, E) /\ f[i].id = s[i].id
               /\ IF s[i].id = id THEN f[i].type \in {"deleted", "error"}
                                  ELSE f[i] = s[i]
    <2>1. s[i] \in Stream(I, D, E)
      BY SeqElement
    <2>2. f[i] = IF s[i].id = id THEN Erased(s[i], e) ELSE s[i]
      BY DEF Erase
    <2> DEFINE x == Emptied(s[i])
    <2>3. x \in Stream(I, D, E) /\ x.id = s[i].id
      <3>1. <<>> \in Seq(D)
        OBVIOUS
      <3> QED
        BY <2>1, <3>1 DEF Stream, Emptied
    <2>4. Erased(s[i], e) = IF e = 0 THEN [x EXCEPT !.type = "deleted"]
                            ELSE [x EXCEPT !.type = "error", !.err = e]
      BY DEF Erased
    <2> DEFINE y == [x EXCEPT !.type = "error"]
    <2> HIDE DEF x
    <2>5. y \in Stream(I, D, E) /\ y.id = x.id /\ y.type = "error"
      BY <2>3 DEF Stream, TagType
    <2>6. [x EXCEPT !.type = "error", !.err = e] = [y EXCEPT !.err = e]
      OBVIOUS
    <2> HIDE DEF y, f
    <2>7. e # 0 => /\ [y EXCEPT !.err = e] \in Stream(I, D, E)
                   /\ [y EXCEPT !.err = e].id = y.id
                   /\ [y EXCEPT !.err = e].type = "error"
      BY <2>5 DEF Stream
    <2>8. /\ [x EXCEPT !.type = "deleted"] \in Stream(I, D, E)
          /\ [x EXCEPT !.type = "deleted"].id = x.id
          /\ [x EXCEPT !.type = "deleted"].type = "deleted"
      BY <2>3 DEF Stream, TagType
    <2> QED
      BY <2>1, <2>2, <2>3, <2>4, <2>5, <2>6, <2>7, <2>8
  <1>2. f \in [1 .. Len(s) -> Stream(I, D, E)]
    BY <1>1 DEF Erase
  <1> QED
    BY <1>1, <1>2, FunIsSeq, SeqElement DEF SameIds

(* pop() changes at most the first stream, and removes at most that one. *)
LEMMA PopRestKeeps ==
  ASSUME NEW I, NEW D, NEW E, NEW s \in Seq(Stream(I, D, E))
  PROVE  /\ PopRest(s) \in Seq(Stream(I, D, E))
         /\ PopType(s) \in {"EMPTY", "START", "DATA"} =>
              /\ SameIds(s, PopRest(s))
              /\ \A i \in 1 .. Len(s) : PopRest(s)[i].type = s[i].type
         /\ PopType(s) \in {"END", "REMOVED", "ERROR"} =>
              s # <<>> /\ PopRest(s) = Tail(s)
         /\ PopType(s) \in {"EMPTY", "START", "DATA", "END", "REMOVED", "ERROR"}
  <1> DEFINE T == Stream(I, D, E)
  <1>1. CASE s = <<>>
    BY <1>1, SeqElement DEF PopRest, PopType, SameIds
  <1>2. CASE s # <<>>
    <2>1. s[1] \in T /\ 1 \in 1 .. Len(s) /\ Tail(s) \in Seq(T)
      BY <1>2, SeqTail
    <2>2. PopType(s) = FrontType(s[1])
      BY <1>2 DEF PopType
    <2>3. CASE PopType(s) = "EMPTY"
      BY <2>3 DEF PopRest, SameIds
    <2>4. CASE PopType(s) = "START"
      <3> DEFINE x == [s[1] EXCEPT !.polling = TRUE]
      <3>1. x \in T /\ x.id = s[1].id /\ x.type = s[1].type
        BY <2>1 DEF Stream
      <3>2. PopRest(s) = [s EXCEPT ![1] = x]
        BY <2>4, <2>1 DEF PopRest
      <3> QED
        BY <3>1, <3>2, <2>1, <2>4, SeqExcept DEF SameIds
    <2>5. CASE PopType(s) = "DATA"
      <3> DEFINE x == [s[1] EXCEPT !.data = Tail(@)]
      <3>1. s[1].data \in Seq(D) /\ s[1].data # <<>>
        BY <2>1, <2>2, <2>5 DEF FrontType, Stream
      <3>2. x \in T /\ x.id = s[1].id /\ x.type = s[1].type
        BY <2>1, <3>1, SeqTail DEF Stream
      <3>3. PopRest(s) = [s EXCEPT ![1] = x]
        BY <2>5, <2>1 DEF PopRest
      <3> QED
        BY <3>2, <3>3, <2>1, <2>5, SeqExcept DEF SameIds
    <2>6. CASE PopType(s) \in {"END", "REMOVED", "ERROR"}
      BY <2>6, <1>2, <2>1 DEF PopRest
    <2>7. PopType(s) \in {"EMPTY", "START", "DATA", "END", "REMOVED", "ERROR"}
      BY <2>2 DEF FrontType
    <2> QED
      BY <2>3, <2>4, <2>5, <2>6, <2>7
  <1> QED
    BY <1>1, <1>2

(* START and DATA leave the stream in front, one item shorter. *)
LEMMA PopFront ==
  ASSUME NEW I, NEW D, NEW E, NEW s \in Seq(Stream(I, D, E)),
         PopType(s) \in {"START", "DATA"}
  PROVE  /\ 1 \in 1 .. Len(s) /\ Len(PopRest(s)) = Len(s)
         /\ \A i \in 1 .. Len(s) : i # 1 => PopRest(s)[i] = s[i]
         /\ PopRest(s)[1] \in Stream(I, D, E) /\ PopRest(s)[1].id = s[1].id
         /\ PopType(s) = "START" => /\ ~s[1].polling /\ PopRest(s)[1].polling
                                    /\ PopRest(s)[1].data = s[1].data
         /\ PopType(s) = "DATA" => /\ s[1].polling /\ PopRest(s)[1].polling
                                   /\ s[1].data # <<>> /\ PopRest(s)[1].data = Tail(s[1].data)
  <1> DEFINE T == Stream(I, D, E)
  <1>1. s # <<>> /\ PopType(s) = FrontType(s[1])
    BY DEF PopType
  <1>2. s[1] \in T /\ 1 \in 1 .. Len(s)
    BY <1>1, SeqTail
  <1>3. CASE PopType(s) = "START"
    <2> DEFINE x == [s[1] EXCEPT !.polling = TRUE]
    <2>1. x \in T /\ x.id = s[1].id /\ x.data = s[1].data /\ x.polling
      BY <1>2 DEF Stream
    <2>2. PopRest(s) = [s EXCEPT ![1] = x]
      BY <1>2, <1>3 DEF PopRest
    <2>3. ~s[1].polling
      BY <1>1, <1>3 DEF FrontType
    <2> HIDE DEF x
    <2>4. /\ Len(PopRest(s)) = Len(s) /\ PopRest(s)[1] = x
          /\ \A i \in 1 .. Len(s) : i # 1 => PopRest(s)[i] = s[i]
      BY <1>2, <2>1, <2>2, SeqExcept
    <2> QED
      BY <1>2, <1>3, <2>1, <2>3, <2>4
  <1>4. CASE PopType(s) = "DATA"
    <2> DEFINE x == [s[1] EXCEPT !.data = Tail(@)]
    <2>1. s[1].data \in Seq(D) /\ s[1].data # <<>> /\ s[1].polling
      BY <1>1, <1>2, <1>4 DEF FrontType, Stream
    <2>2. x \in T /\ x.id = s[1].id /\ x.data = Tail(s[1].data) /\ x.polling = s[1].polling
      BY <1>2, <2>1, SeqTail DEF Stream
    <2>3. PopRest(s) = [s EXCEPT ![1] = x]
      BY <1>2, <1>4 DEF PopRest
    <2> HIDE DEF x
    <2>4. /\ Len(PopRest(s)) = Len(s) /\ PopRest(s)[1] = x
          /\ \A i \in 1 .. Len(s) : i # 1 => PopRest(s)[i] = s[i]
      BY <1>2, <2>2, <2>3, SeqExcept
    <2> QED
      BY <1>2, <1>4, <2>1, <2>2, <2>4
  <1> QED
    BY <1>3, <1>4

(* put() adds to the stream it names, if that one is not completed. *)
LEMMA PutFills ==
  ASSUME NEW I, NEW D, NEW E, NEW s \in Seq(Stream(I, D, E)), NEW id, NEW d \in D,
         NEW i \in 1 .. Len(s)
  PROVE  /\ s[i].id # id => Put(s, id, d)[i] = s[i]
         /\ Put(s, id, d)[i].polling = s[i].polling
         /\ s[i].id = id /\ s[i].type = "uncompleted" =>
              Put(s, id, d)[i].data = Append(s[i].data, d)
  <1>1. s[i] \in Stream(I, D, E)
    BY SeqElement
  <1>2. Put(s, id, d)[i] = IF s[i].id = id /\ s[i].type = "uncompleted"
                           THEN [s[i] EXCEPT !.data = Append(@, d)] ELSE s[i]
    BY DEF Put
  <1> QED
    BY <1>1, <1>2 DEF Stream

(* end() completes the stream it names and leaves its data. *)
LEMMA EndLeaves ==
  ASSUME NEW I, NEW D, NEW E, NEW s \in Seq(Stream(I, D, E)), NEW id, NEW d \in D \cup {NoData},
         NEW i \in 1 .. Len(s)
  PROVE  /\ s[i].id # id => End(s, id, d)[i] = s[i]
         /\ End(s, id, d)[i].polling = s[i].polling /\ End(s, id, d)[i].data = s[i].data
  <1>1. s[i] \in Stream(I, D, E)
    BY SeqElement
  <1> DEFINE x == [s[i] EXCEPT !.type = "completed"]
             c == IF d = NoData THEN s[i].content ELSE d
  <1>2. x \in Stream(I, D, E) /\ x.polling = s[i].polling /\ x.data = s[i].data
    BY <1>1 DEF Stream, TagType
  <1>3. End(s, id, d)[i] = IF s[i].id = id THEN [x EXCEPT !.content = c] ELSE s[i]
    BY <1>1 DEF End, Stream
  <1> HIDE DEF x, c
  <1>4. [x EXCEPT !.content = c].polling = x.polling /\ [x EXCEPT !.content = c].data = x.data
    BY <1>2 DEF Stream
  <1> QED
    BY <1>2, <1>3, <1>4

LEMMA EndItem ==
  ASSUME NEW s, PopType(s) = "END"
  PROVE  PopItem(s).type = "END"
  <1> DEFINE x == [NoItem EXCEPT !.type = "END"]
             y == [x EXCEPT !.id = s[1].id]
             z == [y EXCEPT !.res = s[1].content]
  <1>1. PopItem(s) = z
    BY DEF PopItem
  <1>2. x.type = "END"
    BY DEF NoItem
  <1> HIDE DEF x
  <1>3. y.type = x.type
    BY DEF x, NoItem
  <1> HIDE DEF y
  <1>4. z.type = y.type
    BY DEF x, y, NoItem
  <1> QED
    BY <1>1, <1>2, <1>3, <1>4

-----------------------------------------------------------------------------
(* The methods of OpCtl.                                                   *)

OpType(I, E) ==
  /\ operations \in Seq(Operation(I, E))
  /\ current \in 0 .. Len(operations)
  /\ op_cond \in BOOLEAN

SameOpIds ==
  /\ Len(operations') = Len(operations)
  /\ \A i \in 1 .. Len(operations) : operations'[i].id = operations[i].id

(* The status of an operation is one of the five, its id one of I. *)
LEMMA OpElement ==
  ASSUME NEW I, NEW E, OpType(I, E), NEW i \in 1 .. Len(operations)
  PROVE  /\ operations[i] \in Operation(I, E)
         /\ operations[i].id \in I /\ operations[i].status \in Status
  <1>1. operations[i] \in Operation(I, E)
    BY SeqElement DEF OpType
  <1> QED
    BY <1>1 DEF Operation

LEMMA NewOpKeeps ==
  ASSUME NEW I, NEW E, OpType(I, E), NEW id \in I, NEW status \in Status,
         new_op(id, status)
  PROVE  /\ OpType(I, E)'
         /\ Len(operations') = Len(operations) + 1
         /\ \A i \in 1 .. Len(operations) : operations'[i] = operations[i]
         /\ operations'[Len(operations) + 1].id = id
         /\ operations'[Len(operations) + 1].status = status
         /\ current' = IF status = "START" THEN Len(operations) + 1 ELSE current
         /\ op_cond' = op_cond
  <1> DEFINE op == NewOp(id, status)
  <1>1. op \in Operation(I, E) /\ op.id = id /\ op.status = status
    BY DEF NewOp, Operation, NoError
  <1> HIDE DEF op
  <1>2. /\ Append(operations, op) \in Seq(Operation(I, E))
        /\ Len(Append(operations, op)) = Len(operations) + 1
        /\ Append(operations, op)[Len(operations) + 1] = op
        /\ \A i \in 1 .. Len(operations) : Append(operations, op)[i] = operations[i]
    BY <1>1, SeqAppend DEF OpType
  <1>3. /\ operations' = Append(operations, op)
        /\ current' = IF status = "START" THEN Len(operations) + 1 ELSE current
        /\ op_cond' = op_cond
    BY DEF new_op, op
  <1>4. Len(operations) \in Nat
    BY SeqElement DEF OpType
  <1> QED
    BY <1>1, <1>2, <1>3, <1>4 DEF OpType

(* Replacing the current operation by one that is still an operation. *)
LEMMA CurrentReplaced ==
  ASSUME NEW I, NEW E, OpType(I, E), current # 0, NEW op \in Operation(I, E),
         operations' = [operations EXCEPT ![current] = op]
  PROVE  /\ operations' \in Seq(Operation(I, E))
         /\ Len(operations') = Len(operations)
         /\ operations'[current] = op
         /\ \A i \in 1 .. Len(operations) : i # current => operations'[i] = operations[i]
  <1>1. current \in 1 .. Len(operations)
    BY SeqElement DEF OpType
  <1> QED
    BY <1>1, SeqExcept DEF OpType

(* The current operation ends as an error, or is over without being hit. *)
LEMMA SetErrorKeeps ==
  ASSUME NEW I, NEW E, OpType(I, E), NEW err \in E, set_op_error(err)
  PROVE  /\ OpType(I, E)' /\ SameOpIds /\ current' = 0
         /\ \A i \in 1 .. Len(operations) :
              operations'[i].status = IF i = current THEN "ERROR"
                                      ELSE operations[i].status
         /\ op_cond' = (op_cond /\ current = 0)
  <1>0. op_cond \in BOOLEAN /\ Len(operations) \in Nat
    BY SeqElement DEF OpType
  <1>1. CASE current = 0
    BY <1>0, <1>1 DEF set_op_error, ctlVars, OpType, SameOpIds
  <1>2. CASE current # 0
    <2> DEFINE op == Failed(operations[current], err)
    <2>1. current \in 1 .. Len(operations)
      BY <1>0, <1>2 DEF OpType
    <2>2. operations[current] \in Operation(I, E)
      BY <2>1, OpElement
    <2> DEFINE op1 == [operations[current] EXCEPT !.status = "ERROR"]
    <2>3. /\ op1 \in Operation(I, E) /\ op1.id = operations[current].id
          /\ op1.status = "ERROR"
      BY <2>2 DEF Operation, Status
    <2>4. op = [op1 EXCEPT !.error = err]
      BY DEF Failed
    <2> HIDE DEF op, op1
    <2>5. /\ op \in Operation(I, E) /\ op.id = operations[current].id
          /\ op.status = "ERROR"
      BY <2>3, <2>4 DEF Operation
    <2>6. operations' = [operations EXCEPT ![current] = op] /\ current' = 0 /\ op_cond' = FALSE
      BY <1>2 DEF set_op_error, op
    <2>7. /\ operations' \in Seq(Operation(I, E))
          /\ Len(operations') = Len(operations)
          /\ operations'[current] = op
          /\ \A i \in 1 .. Len(operations) : i # current => operations'[i] = operations[i]
      BY <1>2, <2>5, <2>6, CurrentReplaced
    <2>8. op_cond' = (op_cond /\ current = 0) /\ op_cond' \in BOOLEAN
      BY <1>2, <2>6
    <2>10. OpType(I, E)' /\ current' = 0
      BY <1>0, <2>6, <2>7, <2>8 DEF OpType
    <2>9. ASSUME NEW i \in 1 .. Len(operations)
          PROVE  /\ operations'[i].id = operations[i].id
                 /\ operations'[i].status = IF i = current THEN "ERROR"
                                            ELSE operations[i].status
      BY <2>1, <2>5, <2>7
    <2> QED
      BY <2>7, <2>8, <2>9, <2>10 DEF SameOpIds
  <1> QED
    BY <1>1, <1>2

LEMMA FinishKeeps ==
  ASSUME NEW I, NEW E, OpType(I, E), finish_op
  PROVE  /\ OpType(I, E)' /\ SameOpIds /\ current' = 0
         /\ \A i \in 1 .. Len(operations) :
              operations'[i].status = IF i = current THEN Finished(operations[i].status)
                                      ELSE operations[i].status
         /\ op_cond' = (op_cond /\ current = 0)
  <1>0. op_cond \in BOOLEAN /\ Len(operations) \in Nat
    BY SeqElement DEF OpType
  <1>1. CASE current = 0
    BY <1>0, <1>1 DEF finish_op, ctlVars, OpType, SameOpIds
  <1>2. CASE current # 0
    <2> DEFINE st == Finished(operations[current].status)
               op == [operations[current] EXCEPT !.status = st]
    <2>1. current \in 1 .. Len(operations)
      BY <1>0, <1>2 DEF OpType
    <2>2. operations[current] \in Operation(I, E)
      BY <2>1, OpElement
    <2>3. st \in Status
      BY <2>2 DEF Finished, Status
    <2>4. operations' = [operations EXCEPT ![current] = op] /\ current' = 0 /\ op_cond' = FALSE
      BY <1>2 DEF finish_op
    <2> HIDE DEF st
    <2>5. op \in Operation(I, E) /\ op.id = operations[current].id /\ op.status = st
      BY <2>2, <2>3 DEF Operation
    <2> HIDE DEF op
    <2>6. /\ operations' \in Seq(Operation(I, E))
          /\ Len(operations') = Len(operations)
          /\ operations'[current] = op
          /\ \A i \in 1 .. Len(operations) : i # current => operations'[i] = operations[i]
      BY <1>2, <2>4, <2>5, CurrentReplaced
    <2>7. op_cond' = (op_cond /\ current = 0) /\ op_cond' \in BOOLEAN
      BY <1>2, <2>4
    <2>9. OpType(I, E)' /\ current' = 0
      BY <1>0, <2>4, <2>6, <2>7 DEF OpType
    <2>8. ASSUME NEW i \in 1 .. Len(operations)
          PROVE  /\ operations'[i].id = operations[i].id
                 /\ operations'[i].status = IF i = current
                                            THEN Finished(operations[i].status)
                                            ELSE operations[i].status
      BY <2>1, <2>5, <2>6 DEF st
    <2> QED
      BY <2>6, <2>7, <2>8, <2>9 DEF SameOpIds
  <1> QED
    BY <1>1, <1>2

LEMMA CancelKeeps ==
  ASSUME NEW I, NEW E, OpType(I, E), NEW id, cancel_op(id)
  PROVE  /\ OpType(I, E)' /\ SameOpIds
         /\ \A i \in 1 .. Len(operations) :
              operations'[i] = IF Hit(id, i) THEN [operations[i] EXCEPT !.status = "CANCELLED"]
                               ELSE operations[i]
         /\ \A i \in 1 .. Len(operations) :
              operations'[i].status = IF Hit(id, i) THEN "CANCELLED" ELSE operations[i].status
         /\ current' = IF CancelsCurrent(id) THEN 0 ELSE current
         /\ op_cond' = (op_cond /\ ~CancelsCurrent(id))
  <1>0. op_cond \in BOOLEAN /\ Len(operations) \in Nat
    BY SeqElement DEF OpType
  <1>1. ASSUME NEW i \in 1 .. Len(operations)
        PROVE  /\ operations'[i] = IF Hit(id, i)
                                   THEN [operations[i] EXCEPT !.status = "CANCELLED"]
                                   ELSE operations[i]
               /\ operations'[i] \in Operation(I, E)
               /\ operations'[i].id = operations[i].id
               /\ operations'[i].status = IF Hit(id, i) THEN "CANCELLED"
                                          ELSE operations[i].status
    <2>1. operations[i] \in Operation(I, E)
      BY OpElement
    <2>2. operations'[i] = IF Hit(id, i) THEN [operations[i] EXCEPT !.status = "CANCELLED"]
                           ELSE operations[i]
      BY DEF cancel_op
    <2> QED
      BY <2>1, <2>2 DEF Operation, Status
  <1>2. operations' \in [1 .. Len(operations) -> Operation(I, E)]
    BY <1>1 DEF cancel_op
  <1>3. operations' \in Seq(Operation(I, E)) /\ Len(operations') = Len(operations)
    BY <1>0, <1>2, FunIsSeq
  <1>4. /\ current' = IF CancelsCurrent(id) THEN 0 ELSE current
        /\ op_cond' = (op_cond /\ ~CancelsCurrent(id))
    BY DEF cancel_op
  <1>5. op_cond' \in BOOLEAN
    BY <1>0, <1>4
  <1>6. current' \in 0 .. Len(operations')
    BY <1>0, <1>3, <1>4 DEF OpType
  <1>7. OpType(I, E)'
    BY <1>3, <1>5, <1>6 DEF OpType
  <1>8. SameOpIds
    BY <1>1, <1>3 DEF SameOpIds
  <1> QED
    BY <1>1, <1>4, <1>7, <1>8

LEMMA RemoveFrontKeeps ==
  ASSUME NEW I, NEW E, OpType(I, E), operations # <<>>, remove_front_op
  PROVE  /\ OpType(I, E)'
         /\ Len(operations) \in Nat \ {0} /\ Len(operations') = Len(operations) - 1
         /\ \A i \in 1 .. Len(operations) - 1 : operations'[i] = operations[i + 1]
         /\ current' = IF current = 0 THEN 0 ELSE current - 1
         /\ op_cond' = op_cond
  <1>1. /\ Tail(operations) \in Seq(Operation(I, E))
        /\ Len(operations) \in Nat \ {0} /\ Len(Tail(operations)) = Len(operations) - 1
        /\ \A i \in 1 .. Len(operations) - 1 : Tail(operations)[i] = operations[i + 1]
    BY SeqTail DEF OpType
  <1>2. /\ operations' = Tail(operations) /\ op_cond' = op_cond
        /\ current' = IF current = 0 THEN 0 ELSE current - 1
    BY DEF remove_front_op
  <1> QED
    BY <1>1, <1>2 DEF OpType

(* Time passes, or a packet counts as a sign of life: statuses stay. *)
LEMMA RefreshedIsOp ==
  ASSUME NEW I, NEW E, NEW op \in Operation(I, E), NEW recv \in BOOLEAN
  PROVE  /\ Refreshed(op, recv) \in Operation(I, E)
         /\ Refreshed(op, recv).id = op.id /\ Refreshed(op, recv).status = op.status
  <1> DEFINE op1 == [op EXCEPT !.calc = TRUE]
             op2 == [op1 EXCEPT !.idle = FALSE]
             s   == IF recv THEN FALSE ELSE op.silent
             op3 == [op2 EXCEPT !.silent = s]
  <1>1. op1 \in Operation(I, E) /\ op1.id = op.id /\ op1.status = op.status
        /\ op1.silent = op.silent
    BY DEF Operation
  <1> HIDE DEF op1
  <1>2. op2 \in Operation(I, E) /\ op2.id = op1.id /\ op2.status = op1.status
        /\ op2.silent = op1.silent
    BY <1>1 DEF Operation
  <1>3. s \in BOOLEAN
    BY DEF Operation
  <1> HIDE DEF op2, s
  <1>4. op3 \in Operation(I, E) /\ op3.id = op2.id /\ op3.status = op2.status
    BY <1>2, <1>3 DEF Operation
  <1>5. Refreshed(op, recv) = op3
    BY <1>1, <1>2 DEF Refreshed, op1, op2, s, Operation
  <1> QED
    BY <1>1, <1>2, <1>4, <1>5

LEMMA RefreshKeeps ==
  ASSUME NEW I, NEW E, OpType(I, E), NEW recv \in BOOLEAN, refresh_op_time(recv)
  PROVE  /\ OpType(I, E)' /\ SameOpIds /\ current' = current /\ op_cond' = op_cond
         /\ \A i \in 1 .. Len(operations) : operations'[i].status = operations[i].status
  <1>0. Len(operations) \in Nat
    BY SeqElement DEF OpType
  <1>1. CASE current = 0
    BY <1>0, <1>1 DEF refresh_op_time, OpType, SameOpIds
  <1>2. CASE current # 0
    <2> DEFINE op == Refreshed(operations[current], recv)
    <2>1. current \in 1 .. Len(operations)
      BY <1>0, <1>2 DEF OpType
    <2>2. operations[current] \in Operation(I, E)
      BY <2>1, OpElement
    <2>3. /\ op \in Operation(I, E) /\ op.id = operations[current].id
          /\ op.status = operations[current].status
      BY <2>2, RefreshedIsOp
    <2>4. /\ operations' = [operations EXCEPT ![current] = op]
          /\ current' = current /\ op_cond' = op_cond
      BY <1>2 DEF refresh_op_time
    <2> HIDE DEF op
    <2>5. /\ operations' \in Seq(Operation(I, E))
          /\ Len(operations') = Len(operations)
          /\ operations'[current] = op
          /\ \A i \in 1 .. Len(operations) : i # current => operations'[i] = operations[i]
      BY <1>2, <2>3, <2>4, CurrentReplaced
    <2> QED
      BY <1>0, <2>1, <2>3, <2>4, <2>5 DEF OpType, SameOpIds
  <1> QED
    BY <1>1, <1>2

LEMMA GrowsIdleKeeps ==
  ASSUME NEW I, NEW E, OpType(I, E), GrowsIdle
  PROVE  /\ OpType(I, E)' /\ SameOpIds /\ current' = current /\ op_cond' = op_cond
         /\ \A i \in 1 .. Len(operations) : operations'[i].status = operations[i].status
  <1> DEFINE op == [operations[current] EXCEPT !.idle = TRUE]
  <1>0. Len(operations) \in Nat /\ current # 0
    BY SeqElement DEF OpType, GrowsIdle
  <1>1. current \in 1 .. Len(operations)
    BY <1>0 DEF OpType
  <1>2. operations[current] \in Operation(I, E)
    BY <1>1, OpElement
  <1>3. /\ op \in Operation(I, E) /\ op.id = operations[current].id
        /\ op.status = operations[current].status
    BY <1>2 DEF Operation
  <1>4. /\ operations' = [operations EXCEPT ![current] = op]
        /\ current' = current /\ op_cond' = op_cond
    BY DEF GrowsIdle
  <1> HIDE DEF op
  <1>5. /\ operations' \in Seq(Operation(I, E))
        /\ Len(operations') = Len(operations)
        /\ operations'[current] = op
        /\ \A i \in 1 .. Len(operations) : i # current => operations'[i] = operations[i]
    BY <1>0, <1>3, <1>4, CurrentReplaced
  <1> QED
    BY <1>0, <1>1, <1>3, <1>4, <1>5 DEF OpType, SameOpIds

(* erase(): the stream it names is emptied, and deleted or failed. *)
LEMMA EraseLeaves ==
  ASSUME NEW I, NEW D, NEW E, NEW s \in Seq(Stream(I, D, E)), NEW id,
         NEW e \in E \cup {0}, NEW i \in 1 .. Len(s)
  PROVE  /\ Erase(s, id, e)[i].polling = s[i].polling
         /\ Erase(s, id, e)[i].type = IF s[i].id # id THEN s[i].type
                                      ELSE IF e = 0 THEN "deleted" ELSE "error"
         /\ s[i].id = id => Erase(s, id, e)[i].data = <<>>
  <1>1. s[i] \in Stream(I, D, E)
    BY SeqElement
  <1> DEFINE x == Emptied(s[i])
  <1>2. x \in Stream(I, D, E) /\ x.polling = s[i].polling /\ x.data = <<>>
    <2>1. <<>> \in Seq(D)
      OBVIOUS
    <2> QED
      BY <1>1, <2>1 DEF Stream, Emptied
  <1> DEFINE y == [x EXCEPT !.type = "error"]
             z == [y EXCEPT !.err = e]
             w == [x EXCEPT !.type = "deleted"]
  <1>3. Erase(s, id, e)[i] = IF s[i].id # id THEN s[i] ELSE IF e = 0 THEN w ELSE z
    BY DEF Erase, Erased
  <1> HIDE DEF x
  <1>4. w.polling = x.polling /\ w.data = x.data /\ w.type = "deleted"
    BY <1>2 DEF Stream
  <1>5. /\ y \in Stream(I, D, E) /\ y.polling = x.polling /\ y.data = x.data
        /\ y.type = "error"
    BY <1>2 DEF Stream, TagType
  <1> HIDE DEF y, w
  <1>6. z.polling = y.polling /\ z.data = y.data /\ z.type = "error"
    BY <1>5 DEF Stream
  <1> HIDE DEF z
  <1> QED
    BY <1>2, <1>3, <1>4, <1>5, <1>6

(* clear(): every stream is emptied and deleted. *)
LEMMA ClearKeeps ==
  ASSUME NEW I, NEW D, NEW E, NEW s \in Seq(Stream(I, D, E))
  PROVE  /\ Clear(s) \in Seq(Stream(I, D, E))
         /\ SameIds(s, Clear(s))
         /\ \A i \in 1 .. Len(s) :
              Clear(s)[i].polling = s[i].polling /\ Clear(s)[i].type = "deleted"
  <1> DEFINE f == Clear(s)
  <1>1. ASSUME NEW i \in 1 .. Len(s)
        PROVE  /\ f[i] \in Stream(I, D, E) /\ f[i].id = s[i].id
               /\ f[i].polling = s[i].polling /\ f[i].type = "deleted"
    <2>1. s[i] \in Stream(I, D, E)
      BY SeqElement
    <2> DEFINE x == Emptied(s[i])
    <2>2. x \in Stream(I, D, E) /\ x.id = s[i].id /\ x.polling = s[i].polling
      <3>1. <<>> \in Seq(D)
        OBVIOUS
      <3> QED
        BY <2>1, <3>1 DEF Stream, Emptied
    <2>3. f[i] = [x EXCEPT !.type = "deleted"]
      BY DEF Clear, Erased
    <2> HIDE DEF x, f
    <2> QED
      BY <2>2, <2>3 DEF Stream, TagType
  <1>2. f \in [1 .. Len(s) -> Stream(I, D, E)]
    BY <1>1 DEF Clear
  <1> QED
    BY <1>1, <1>2, FunIsSeq, SeqElement DEF SameIds

(* The server says nothing for as long as op_timeout() waits: statuses stay. *)
LEMMA GrowsSilentKeeps ==
  ASSUME NEW I, NEW E, OpType(I, E), GrowsSilent
  PROVE  /\ OpType(I, E)' /\ SameOpIds /\ current' = current /\ op_cond' = op_cond
         /\ \A i \in 1 .. Len(operations) : operations'[i].status = operations[i].status
  <1> DEFINE op == [operations[current] EXCEPT !.silent = TRUE]
  <1>0. Len(operations) \in Nat /\ current # 0
    BY SeqElement DEF OpType, GrowsSilent
  <1>1. current \in 1 .. Len(operations)
    BY <1>0 DEF OpType
  <1>2. operations[current] \in Operation(I, E)
    BY <1>1, OpElement
  <1>3. /\ op \in Operation(I, E) /\ op.id = operations[current].id
        /\ op.status = operations[current].status
    BY <1>2 DEF Operation
  <1>4. /\ operations' = [operations EXCEPT ![current] = op]
        /\ current' = current /\ op_cond' = op_cond
    BY DEF GrowsSilent
  <1> HIDE DEF op
  <1>5. /\ operations' \in Seq(Operation(I, E))
        /\ Len(operations') = Len(operations)
        /\ operations'[current] = op
        /\ \A i \in 1 .. Len(operations) : i # current => operations'[i] = operations[i]
    BY <1>0, <1>3, <1>4, CurrentReplaced
  <1> QED
    BY <1>0, <1>1, <1>3, <1>4, <1>5 DEF OpType, SameOpIds

=============================================================================
