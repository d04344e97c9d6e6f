--------------------------- MODULE StreamFifoSpec ---------------------------
(***************************************************************************)
(* The promise of StreamFifo.tla as a state machine: one action per public *)
(* method of StreamQueue, with the value each call returns.                *)
(***************************************************************************)
EXTENDS StreamFifo

CONSTANTS
  Ids,      (* request ids, positive integers (next_id)                    *)
  Data,     (* payloads of stream() and of end()                           *)
  Errors    (* non-zero error codes given to erase()                       *)

VARIABLES
  streams,  (* the open or unread streams, oldest first                    *)
  ret       (* what the last call returned                                 *)

fifoVars == <<streams, ret>>

Answer(b) == [NoItem EXCEPT !.type = IF b THEN "TRUE" ELSE "FALSE"]

FifoInit == streams = <<>> /\ ret = NoItem

FifoStart(id) ==
  /\ streams' = Start(streams, id)
  /\ ret' = Answer(~HasStream(streams, id))

FifoStream(id, d) ==
  /\ streams' = Put(streams, id, d)
  /\ ret' = Answer(AcceptsData(streams, id))

FifoEnd(id, d) ==
  /\ streams' = End(streams, id, d)
  /\ ret' = Answer(HasStream(streams, id))

FifoErase(id, e) ==
  /\ streams' = Erase(streams, id, e)
  /\ ret' = Answer(HasStream(streams, id))

FifoClear ==
  /\ streams' = Clear(streams)
  /\ ret' = [NoItem EXCEPT !.id = ClearMin(streams)]

FifoClose == streams' = <<>> /\ ret' = NoItem

FifoPop == streams' = PopRest(streams) /\ ret' = PopItem(streams)

FifoAvailable == UNCHANGED streams /\ ret' = Answer(Available(streams))

FifoNext ==
  \/ \E id \in Ids : FifoStart(id)
  \/ \E id \in Ids, d \in Data : FifoStream(id, d)
  \/ \E id \in Ids, d \in Data \cup {NoData} : FifoEnd(id, d)
  \/ \E id \in Ids, e \in Errors \cup {0} : FifoErase(id, e)
  \/ FifoClear
  \/ FifoClose
  \/ FifoPop
  \/ FifoAvailable

FifoSpec == FifoInit /\ [][FifoNext]_fifoVars

=============================================================================
