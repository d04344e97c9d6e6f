----------------------------- MODULE StreamFifo -----------------------------
(***************************************************************************)
(* What a StreamQueue (common/pending_queue.h) promises its users: a FIFO  *)
(* of streams.  Each stream is opened, receives data, is completed or      *)
(* erased, and is handed out strictly after every stream opened before it: *)
(* first a START, then its data in the order they were put, then exactly   *)
(* one END, REMOVED or ERROR.                                              *)
(*                                                                         *)
(* The operators are pure, so that the modules of the SDK apply them to    *)
(* their own queues.  StreamFifoSpec.tla makes a state machine of them and *)
(* StreamQueue.tla, the linked list of the source, is checked to implement *)
(* it.  The type of a tag is QueueItem::ItemType; data_count is only       *)
(* logged by the source and is left out.                                   *)
(***************************************************************************)
EXTENDS Naturals, Sequences

CONSTANT NoData       (* the null content pointer *)

TagType == {"uncompleted", "completed", "deleted", "error"}

(* A stream of the queue with payloads in D and error codes in E. *)
Stream(I, D, E) == [id : I, type : TagType, polling : BOOLEAN, data : Seq(D),
                    content : D \cup {NoData}, err : E \cup {0}]

NewStream(id) == [id |-> id, type |-> "uncompleted", polling |-> FALSE,
                  data |-> <<>>, content |-> NoData, err |-> 0]

-----------------------------------------------------------------------------
(* The operations, on a sequence s of streams, oldest first.               *)

HasStream(s, id) == \E i \in 1 .. Len(s) : s[i].id = id

AcceptsData(s, id) ==
  \E i \in 1 .. Len(s) : s[i].id = id /\ s[i].type = "uncompleted"

Start(s, id) == IF HasStream(s, id) THEN s ELSE Append(s, NewStream(id))

Put(s, id, d) ==
  [i \in 1 .. Len(s) |-> IF s[i].id = id /\ s[i].type = "uncompleted"
                         THEN [s[i] EXCEPT !.data = Append(@, d)] ELSE s[i]]

End(s, id, d) ==
  [i \in 1 .. Len(s) |-> IF s[i].id = id
                         THEN [s[i] EXCEPT !.type = "completed",
                                           !.content = IF d = NoData THEN @ ELSE d]
                         ELSE s[i]]

Emptied(t) == [t EXCEPT !.data = <<>>, !.content = NoData]

Erased(t, e) ==
  IF e = 0 THEN [Emptied(t) EXCEPT !.type = "deleted"]
  ELSE [Emptied(t) EXCEPT !.type = "error", !.err = e]

Erase(s, id, e) ==
  [i \in 1 .. Len(s) |-> IF s[i].id = id THEN Erased(s[i], e) ELSE s[i]]

Clear(s) == [i \in 1 .. Len(s) |-> Erased(s[i], 0)]

(* Mutant: a completed stream ends before its data are handed out. *)
FrontTypeEndFirst(t) ==
  IF ~t.polling THEN "START"
  ELSE IF t.type = "completed" THEN "END"
  ELSE IF t.data # <<>> THEN "DATA" ELSE "EMPTY"

(* The kind of item pop() hands out for a front stream t: PopType. *)
FrontType(t) ==
  CASE t.type = "deleted" -> "REMOVED"
    [] t.type = "error"   -> "ERROR"
    [] OTHER -> IF ~t.polling THEN "START"
                ELSE IF t.data # <<>> THEN "DATA"
                ELSE IF t.type = "completed" THEN "END" ELSE "EMPTY"

PopType(s) == IF s = <<>> THEN "EMPTY" ELSE FrontType(s[1])

(* What is left in the queue once it is handed out. *)
PopRest(s) ==
  CASE PopType(s) = "EMPTY" -> s
    [] PopType(s) = "START" -> [s EXCEPT ![1].polling = TRUE]
    [] PopType(s) = "DATA"  -> [s EXCEPT ![1].data = Tail(@)]
    [] OTHER -> Tail(s)

NoItem == [type |-> "EMPTY", id |-> 0, res |-> NoData, err |-> 0]

(* pop() as the caller sees it: the type, the id and the value or error. *)
PopItem(s) ==
  LET k == PopType(s) IN
  CASE k = "EMPTY" -> NoItem
    [] k = "DATA"  -> [NoItem EXCEPT !.type = k, !.id = s[1].id, !.res = s[1].data[1]]
    [] k = "END"   -> [NoItem EXCEPT !.type = k, !.id = s[1].id, !.res = s[1].content]
    [] k = "ERROR" -> [NoItem EXCEPT !.type = k, !.id = s[1].id, !.err = s[1].err]
    [] OTHER       -> [NoItem EXCEPT !.type = k, !.id = s[1].id]

(* clear() reports the first id it found (its callers pass no max_id). *)
ClearMin(s) == IF s = <<>> THEN 0 ELSE s[1].id

(* available(): pop() would return something. *)
Available(s) == PopType(s) # "EMPTY"

=============================================================================
