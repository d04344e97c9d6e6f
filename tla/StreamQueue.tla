----------------------------- MODULE StreamQueue -----------------------------
(***************************************************************************)
(* StreamQueue (common/pending_queue.h) as it is written: one linked list  *)
(* queue_ in which the data of a stream precede the tag of that stream,    *)
(* tag_queue_ with the positions of the tags in the order of start(), and  *)
(* the map item_tags_ from an id to the position of its tag.  Data items   *)
(* do not know their stream: only their place in the list says whose they  *)
(* are.  A list iterator is named by the id of the tag it points to.       *)
(***************************************************************************)
EXTENDS Naturals, Sequences, SequencesExt, FiniteSets, FiniteSetsExt

CONSTANTS Ids, Data, Errors, NoData,
          MaxItems      (* bound on the length of queue_                   *)

ASSUME QueueAssumption ==
  /\ Ids \subseteq Nat \ {0}
  /\ Errors \subseteq Nat \ {0}
  /\ NoData \notin Data
  /\ MaxItems \in Nat \ {0}

VARIABLES
  queue_,      (* the list: data items and tags                            *)
  tag_queue_,  (* the ids of the tags, in the order of start()             *)
  item_tags_,  (* the ids that have a tag                                  *)
  ret          (* what the last call returned                              *)

queueVars == <<queue_, tag_queue_, item_tags_, ret>>

TagTypes == {"uncompleted", "completed", "deleted", "error"}

DataItem(d) == [type |-> "data", id |-> 0, polling |-> FALSE, content |-> d, err |-> 0]

NewTag(id)  == [type |-> "uncompleted", id |-> id, polling |-> FALSE,
                content |-> NoData, err |-> 0]

NoItem == [type |-> "EMPTY", id |-> 0, res |-> NoData, err |-> 0]
Answer(b) == [NoItem EXCEPT !.type = IF b THEN "TRUE" ELSE "FALSE"]

-----------------------------------------------------------------------------
IsTag(i) == queue_[i].type # "data"
Tags == {i \in 1 .. Len(queue_) : IsTag(i)}

(* The tags among the first n items of the list. *)
TagsUpTo(n) == Cardinality({i \in 1 .. n : IsTag(i)})

(* Where the iterator kept in item_tags_ for id points. *)
TagPos(id) == CHOOSE i \in 1 .. Len(queue_) : IsTag(i) /\ queue_[i].id = id

(* The first of the data items that stand directly before position p. *)
FirstData(p) == Max({0} \cup {i \in 1 .. p - 1 : IsTag(i)}) + 1

QueueInit ==
  /\ queue_ = <<>>
  /\ tag_queue_ = <<>>
  /\ item_tags_ = {}
  /\ ret = NoItem

start(id) ==
  IF id \in item_tags_
  THEN ret' = Answer(FALSE) /\ UNCHANGED <<queue_, tag_queue_, item_tags_>>
  ELSE /\ Len(queue_) < MaxItems
       /\ queue_' = Append(queue_, NewTag(id))
       /\ item_tags_' = item_tags_ \cup {id}
       /\ tag_queue_' = Append(tag_queue_, id)
       /\ ret' = Answer(TRUE)

(* Mutant: the data item goes to the end of the list. *)
streamLast(id, d) ==
  /\ id \in item_tags_ /\ Len(queue_) < MaxItems
  /\ queue_' = Append(queue_, DataItem(d))
  /\ ret' = Answer(TRUE)
  /\ UNCHANGED <<tag_queue_, item_tags_>>

stream(id, d) ==
  IF id \notin item_tags_ \/ queue_[TagPos(id)].type # "uncompleted"
  THEN ret' = Answer(FALSE) /\ UNCHANGED <<queue_, tag_queue_, item_tags_>>
  ELSE /\ Len(queue_) < MaxItems
       /\ queue_' = InsertAt(queue_, TagPos(id), DataItem(d))
       /\ ret' = Answer(TRUE)
       /\ UNCHANGED <<tag_queue_, item_tags_>>

end(id, d) ==
  /\ ret' = Answer(id \in item_tags_)
  /\ queue_' = IF id \in item_tags_
               THEN [queue_ EXCEPT ![TagPos(id)].type = "completed",
                                   ![TagPos(id)].content = IF d = NoData THEN @ ELSE d]
               ELSE queue_
  /\ UNCHANGED <<tag_queue_, item_tags_>>

erase(id, e) ==
  /\ ret' = Answer(id \in item_tags_)
  /\ queue_' =
       IF id \notin item_tags_ THEN queue_
       ELSE LET last_it  == TagPos(id)
                first_it == FirstData(last_it)
                tag      == [queue_[last_it] EXCEPT
                               !.content = NoData,
                               !.type = IF e # 0 THEN "error" ELSE "deleted",
                               !.err = IF e # 0 THEN e ELSE @]
            IN  SubSeq(queue_, 1, first_it - 1) \o <<tag>>
                  \o SubSeq(queue_, last_it + 1, Len(queue_))
  /\ UNCHANGED <<tag_queue_, item_tags_>>

clear ==
  LET kth(k) == queue_[CHOOSE i \in Tags : TagsUpTo(i) = k]
  IN  /\ queue_' = [k \in 1 .. TagsUpTo(Len(queue_)) |->
                      [kth(k) EXCEPT !.type = "deleted", !.content = NoData]]
      /\ ret' = [NoItem EXCEPT !.id = IF tag_queue_ = <<>> THEN 0 ELSE Head(tag_queue_)]
      /\ UNCHANGED <<tag_queue_, item_tags_>>

close ==
  /\ queue_' = <<>>
  /\ tag_queue_' = <<>>
  /\ item_tags_' = {}
  /\ ret' = NoItem

available ==
  /\ UNCHANGED <<queue_, tag_queue_, item_tags_>>
  /\ ret' = Answer(/\ tag_queue_ # <<>>
                   /\ LET ip == TagPos(Head(tag_queue_)) IN
                      queue_[ip].type = "uncompleted" /\ queue_[ip].polling => ip # 1)

-----------------------------------------------------------------------------
(* pop(), one disjunct per return statement; ip is tag_queue_.front().     *)

popEmpty ==
  /\ tag_queue_ # <<>> =>
       LET ip == TagPos(Head(tag_queue_)) IN
       queue_[ip].type = "uncompleted" /\ queue_[ip].polling /\ ip = 1
  /\ ret' = NoItem
  /\ UNCHANGED <<queue_, tag_queue_, item_tags_>>

popStart ==
  /\ tag_queue_ # <<>>
  /\ LET ip == TagPos(Head(tag_queue_)) IN
     /\ queue_[ip].type \in {"uncompleted", "completed"}
     /\ ~queue_[ip].polling
     /\ queue_' = [queue_ EXCEPT ![ip].polling = TRUE]
     /\ ret' = [NoItem EXCEPT !.type = "START", !.id = queue_[ip].id]
  /\ UNCHANGED <<tag_queue_, item_tags_>>

popData ==
  /\ tag_queue_ # <<>>
  /\ LET ip == TagPos(Head(tag_queue_)) IN
     /\ queue_[ip].type \in {"uncompleted", "completed"}
     /\ queue_[ip].polling
     /\ ip # 1
     /\ ret' = [NoItem EXCEPT !.type = "DATA", !.id = queue_[ip].id,
                              !.res = Head(queue_).content]
  /\ queue_' = Tail(queue_)
  /\ UNCHANGED <<tag_queue_, item_tags_>>

(* Mutant: item_tags_ keeps a tag that is gone. *)
DropTagNotMap(tag) ==
  /\ tag_queue_' = Tail(tag_queue_)
  /\ queue_' = Tail(queue_)
  /\ UNCHANGED item_tags_

(* The tag leaves the three containers: END, REMOVED and ERROR. *)
DropTag(tag) ==
  /\ item_tags_' = item_tags_ \ {tag.id}
  /\ tag_queue_' = Tail(tag_queue_)
  /\ queue_' = Tail(queue_)

popEnd ==
  /\ tag_queue_ # <<>>
  /\ LET ip == TagPos(Head(tag_queue_)) IN
     /\ queue_[ip].type = "completed" /\ queue_[ip].polling /\ ip = 1
     /\ ret' = [NoItem EXCEPT !.type = "END", !.id = queue_[ip].id,
                              !.res = queue_[ip].content]
     /\ DropTag(queue_[ip])

popRemoved ==
  /\ tag_queue_ # <<>>
  /\ LET tag == queue_[TagPos(Head(tag_queue_))] IN
     /\ tag.type = "deleted"
     /\ ret' = [NoItem EXCEPT !.type = "REMOVED", !.id = tag.id]
     /\ DropTag(tag)

popError ==
  /\ tag_queue_ # <<>>
  /\ LET tag == queue_[TagPos(Head(tag_queue_))] IN
     /\ tag.type = "error"
     /\ ret' = [NoItem EXCEPT !.type = "ERROR", !.id = tag.id, !.err = tag.err]
     /\ DropTag(tag)

pop == popEmpty \/ popStart \/ popData \/ popEnd \/ popRemoved \/ popError

QueueNext ==
  \/ \E id \in Ids : start(id)
  \/ \E id \in Ids, d \in Data : stream(id, d)
  \/ \E id \in Ids, d \in Data \cup {NoData} : end(id, d)
  \/ \E id \in Ids, e \in Errors \cup {0} : erase(id, e)
  \/ clear
  \/ close
  \/ available
  \/ pop

QueueSpec == QueueInit /\ [][QueueNext]_queueVars

-----------------------------------------------------------------------------
Item == [type : TagTypes \cup {"data"}, id : Ids \cup {0}, polling : BOOLEAN,
         content : Data \cup {NoData}, err : Errors \cup {0}]

QueueTypeOK ==
  /\ queue_ \in Seq(Item)
  /\ tag_queue_ \in Seq(Ids)
  /\ item_tags_ \subseteq Ids

(* The three containers agree (pending_queue.h:452-454): the tags stand in *)
(* the list in the order of tag_queue_, item_tags_ names exactly those,    *)
(* and no data item stands behind the last tag.  This is what makes        *)
(* queue_.pop_front() in pop() take the tag it has just looked at.         *)
ContainersAgree ==
  /\ Len(tag_queue_) = Cardinality(Tags)
  /\ \A i \in Tags : queue_[i].id = tag_queue_[TagsUpTo(i)]
  /\ item_tags_ = ToSet(tag_queue_)
  /\ Cardinality(item_tags_) = Len(tag_queue_)
  /\ queue_ # <<>> => IsTag(Len(queue_))

(* A deleted or failed stream that is not the oldest keeps no data in the  *)
(* list (erase and clear remove it), so that pop() may unlink the front of *)
(* the list for REMOVED and ERROR without looking (pending_queue.h:436,445)*)
(* : when such a tag is the oldest, it is the front.                       *)
ErasedTagAtFront ==
  tag_queue_ # <<>> =>
    LET p == TagPos(Head(tag_queue_)) IN
    queue_[p].type \in {"deleted", "error"} => p = 1

(* The data of the stream whose tag is at p, in the order of the list. *)
DataBefore(p) == [k \in 1 .. p - FirstData(p) |-> queue_[FirstData(p) + k - 1].content]

(* The list read as a FIFO of streams. *)
streamsOf ==
  [k \in 1 .. Len(tag_queue_) |->
     LET p == TagPos(tag_queue_[k]) IN
     [id |-> tag_queue_[k], type |-> queue_[p].type, polling |-> queue_[p].polling,
      data |-> DataBefore(p), content |-> queue_[p].content, err |-> queue_[p].err]]

Fifo == INSTANCE StreamFifoSpec WITH streams <- streamsOf

(* Every call on the list changes the FIFO of streams, and answers, as     *)
(* StreamFifoSpec says the same call does (pending_queue.h:198-449): the   *)
(* list never mixes the data of two streams, loses or reorders an item, or *)
(* hands out a stream before an older one is finished.                     *)
ImplementsFifo == Fifo!FifoSpec

=============================================================================
