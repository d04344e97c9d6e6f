---------------------------- MODULE TtsImplProofs ----------------------------
(***************************************************************************)
(* Theorems about TtsImpl, for any number of requests, voice packets,      *)
(* callers and faults, in the first session and without spurious wakeups   *)
(* of op_cond_ (each of these assumptions is needed: tts_departs.cfg).     *)
(***************************************************************************)
EXTENDS TtsImpl, SdkLemmas, FiniteSetTheorems

(* The sending thread and the current operation agree. *)
SenderInv ==
  /\ initialized => ctlPc = "idle" /\ session >= 1
  /\ ~initialized /\ ctlPc \in {"idle", "joinResp"} => reqPc = "dead"
  /\ op_cond => reqPc = "inOp"
  /\ reqPc = "inOp" /\ ~op_cond => current = 0
  /\ current # 0 => /\ reqPc \in {"send", "sent", "waitOp", "inOp"}
                    /\ operations[current].id = req
                    /\ current = Len(operations)

(* Before the first prepare() nothing has happened. *)
FreshInv ==
  session = 0 => /\ operations = <<>> /\ requests = <<>> /\ responses = <<>>
                 /\ current = 0 /\ speaking = {} /\ ctlPc = "idle" /\ reqPc = "dead"

(* From prepare() to the second half of release(). *)
Live == initialized \/ ctlPc \in {"closing", "joinReq"}

(* Requests, operations and streams are all in the order of their ids. *)
OrderInv ==
  /\ \A i \in 1 .. Len(requests) :
       /\ requests[i].id <= next_id
       /\ \A j \in 1 .. i - 1 : requests[j].id < requests[i].id
  /\ \A i \in 1 .. Len(operations) :
       /\ operations[i].id <= next_id
       /\ \A j \in 1 .. i - 1 : operations[j].id < operations[i].id
       /\ \A j \in 1 .. Len(requests) : operations[i].id < requests[j].id
  /\ \A i \in 1 .. Len(responses) :
       /\ \A j \in 1 .. i - 1 : responses[j].id < responses[i].id
       /\ \E k \in 1 .. Len(operations) : operations[k].id = responses[i].id

(* An operation has a stream once its first answer came, completed with    *)
(* its last one.                                                           *)
StreamInv ==
  /\ \A i \in 1 .. Len(operations) :
       /\ operations[i].status = "START" => ~HasStream(responses, operations[i].id)
       /\ operations[i].status \in {"STREAMING", "END"} =>
            HasStream(responses, operations[i].id)
  /\ \A k \in 1 .. Len(responses) :
       /\ responses[k].type \in {"uncompleted", "completed"}
       /\ \A i \in 1 .. Len(operations) :
            operations[i].id = responses[k].id =>
              /\ operations[i].status = "STREAMING" => responses[k].type = "uncompleted"
              /\ operations[i].status = "END" => responses[k].type = "completed"

IInv ==
  /\ TypeOK
  /\ OneInFlight
  /\ SenderInv
  /\ FreshInv
  /\ Live => OrderInv /\ StreamInv

-----------------------------------------------------------------------------
(* TypeOK in three parts: what OpCtl owns, the queues and the scalars. *)
Voices == 1 .. MaxChunks
QueueType ==
  /\ requests \in Seq([id : TtsId, deleted : BOOLEAN])
  /\ responses \in Seq(Stream(TtsId, Voices, {}))
  /\ inbox \in Seq(Response)
AnswerType ==
  /\ DOMAIN answered \subseteq TtsId
  /\ \A i \in DOMAIN answered : answered[i] \in [sent : 0 .. MaxChunks, done : BOOLEAN]
ScalarType ==
  /\ initialized \in BOOLEAN /\ next_id \in Nat
  /\ req \in TtsId \cup {0}
  /\ reqPc \in {"dead", "top", "asleep", "send", "sent", "waitOp", "inOp"}
  /\ reqPc \in {"send", "sent", "waitOp", "inOp"} => req # 0
  /\ respPc \in {"dead", "timeout", "recv", "asleep", "awake", "handle"}
  /\ pollPc \in {"stopped", "running", "asleep"}
  /\ ctlPc \in {"idle", "closing", "joinReq", "joinResp"}
  /\ respTimed \in BOOLEAN /\ rx \in Response /\ speaking \subseteq Callers
  /\ linkUp \in BOOLEAN
  /\ session \in 0 .. MaxSessions /\ dropped \subseteq TtsId

(* TypeOK is the four parts, ... *)
LEMMA TypeParts ==
  TypeOK <=> OpType(TtsId, Errors) /\ QueueType /\ AnswerType /\ ScalarType
  BY DEF TypeOK, OpType, QueueType, AnswerType, ScalarType, Voices

(* ... and so it is of the next state. *)
LEMMA TypePartsNext ==
  TypeOK' <=> OpType(TtsId, Errors)' /\ QueueType' /\ AnswerType' /\ ScalarType'
  BY DEF TypeOK, OpType, QueueType, AnswerType, ScalarType, Voices

(* Nothing is queued before the first prepare(). *)
LEMMA InitType == Init => TypeOK
  <1> SUFFICES ASSUME Init PROVE TypeOK
    OBVIOUS
  <1>1. OpType(TtsId, Errors)
    <2>1. operations = <<>> /\ current = 0 /\ op_cond = FALSE
      BY DEF Init, CtlInit
    <2>2. operations \in Seq(Operation(TtsId, Errors)) /\ Len(operations) = 0
      BY <2>1, EmptySeq
    <2>3. op_cond \in BOOLEAN
      BY <2>1
    <2> QED
      BY <2>1, <2>2, <2>3 DEF OpType
  <1>2. QueueType
    BY DEF Init, QueueType
  <1>3. AnswerType
    BY DEF Init, AnswerType
  <1>4. ScalarType
    <2>1. rx \in Response
      BY TtsAssumption DEF Init, NoResponse, Response, NoVoice
    <2>2. initialized \in BOOLEAN /\ respTimed \in BOOLEAN /\ linkUp \in BOOLEAN
      BY DEF Init
    <2>3. session \in 0 .. MaxSessions /\ next_id \in Nat
      BY TtsAssumption DEF Init
    <2> QED
      BY <2>1, <2>2, <2>3 DEF Init, ScalarType
  <1> QED
    BY <1>1, <1>2, <1>3, <1>4, TypeParts


(* cancel() marks queued requests; it neither moves nor removes them. *)
LEMMA CancelRequests ==
  ASSUME TypeOK, NEW id, cancel(id)
  PROVE  /\ requests' \in Seq([id : TtsId, deleted : BOOLEAN])
         /\ Len(requests') = Len(requests)
         /\ \A i \in 1 .. Len(requests) : requests'[i].id = requests[i].id
  <1>0. requests \in Seq([id : TtsId, deleted : BOOLEAN])
    BY DEF TypeOK
  <1>1. requests' = [i \in 1 .. Len(requests) |->
                       IF id = 0 \/ requests[i].id = id
                       THEN [requests[i] EXCEPT !.deleted = TRUE] ELSE requests[i]]
    BY DEF cancel
  <1>2. ASSUME NEW i \in 1 .. Len(requests)
        PROVE  /\ requests'[i] \in [id : TtsId, deleted : BOOLEAN]
               /\ requests'[i].id = requests[i].id
    <2>1. requests[i] \in [id : TtsId, deleted : BOOLEAN]
      BY <1>0, SeqElement
    <2> QED
      BY <1>1, <2>1
  <1>3. requests' \in [1 .. Len(requests) -> [id : TtsId, deleted : BOOLEAN]]
    BY <1>1, <1>2
  <1>4. Len(requests) \in Nat
    BY <1>0, SeqElement
  <1> QED
    BY <1>2, <1>3, <1>4, FunIsSeq

(* The ids of the queued requests. *)
LEMMA RequestElement ==
  ASSUME TypeOK, NEW i \in 1 .. Len(requests)
  PROVE  requests[i] \in [id : TtsId, deleted : BOOLEAN] /\ requests[i].id \in TtsId
  <1>1. requests[i] \in [id : TtsId, deleted : BOOLEAN]
    BY SeqElement DEF TypeOK
  <1> QED
    BY <1>1

(* The calls of the application: prepare, speak, cancel and release. *)
LEMMA AppType ==
  ASSUME TypeOK,
         \/ prepare
         \/ \E c \in Callers : speakTest(c) \/ speakQueue(c)
         \/ \E id \in TtsId \cup {0} : cancel(id)
         \/ releaseBegin \/ releaseClose \/ releaseJoinReq \/ releaseJoinResp
  PROVE  TypeOK'
  <1> USE TypeParts, TypePartsNext
  <1>1. CASE prepare
    <2>1. OpType(TtsId, Errors)'
      BY <1>1 DEF prepare, ctlVars, OpType
    <2>2. QueueType'
      BY <1>1 DEF prepare, QueueType
    <2>3. AnswerType'
      BY <1>1 DEF prepare, AnswerType
    <2>4. session' \in 0 .. MaxSessions
      BY <1>1, TtsAssumption DEF prepare, ScalarType
    <2>5. ScalarType'
      BY <1>1, <2>4 DEF prepare, ScalarType
    <2> QED
      BY <2>1, <2>2, <2>3, <2>5
  <1>2. ASSUME NEW c \in Callers, speakTest(c) PROVE TypeOK'
    <2>1. OpType(TtsId, Errors)'
      BY <1>2 DEF speakTest, ctlVars, OpType
    <2>2. QueueType' /\ AnswerType'
      BY <1>2 DEF speakTest, netVars, QueueType, AnswerType
    <2>3. ScalarType'
      BY <1>2 DEF speakTest, reqVars, respVars, pollVars, netVars, ScalarType
    <2> QED
      BY <2>1, <2>2, <2>3
  <1>3. ASSUME NEW c \in Callers, speakQueue(c) PROVE TypeOK'
    <2>1. OpType(TtsId, Errors)'
      BY <1>3 DEF speakQueue, ctlVars, OpType
    <2>2. next_id' \in Nat /\ next_id + 1 \in TtsId
      BY <1>3, TtsAssumption DEF speakQueue, ScalarType, TtsId
    <2>3. QueueType'
      <3>1. [id |-> next_id + 1, deleted |-> FALSE] \in [id : TtsId, deleted : BOOLEAN]
        BY <2>2
      <3>2. requests' \in Seq([id : TtsId, deleted : BOOLEAN])
        BY <1>3, <3>1, SeqAppend DEF speakQueue, QueueType
      <3> QED
        BY <1>3, <3>2 DEF speakQueue, netVars, QueueType
    <2>4. AnswerType'
      BY <1>3 DEF speakQueue, netVars, AnswerType
    <2>5. ScalarType'
      BY <1>3, <2>2 DEF speakQueue, WakeReq, respVars, pollVars, netVars, ScalarType
    <2> QED
      BY <2>1, <2>3, <2>4, <2>5
  <1>4. ASSUME NEW id \in TtsId \cup {0}, cancel(id) PROVE TypeOK'
    <2>1. OpType(TtsId, Errors)'
      <3>1. cancel_op(id) \/ UNCHANGED ctlVars
        BY <1>4 DEF cancel
      <3>2. CASE cancel_op(id)
        BY <3>2, CancelKeeps
      <3>3. CASE UNCHANGED ctlVars
        BY <3>3 DEF ctlVars, OpType
      <3> QED
        BY <3>1, <3>2, <3>3
    <2>2. QueueType'
      BY <1>4, CancelRequests DEF cancel, netVars, QueueType
    <2>3. AnswerType'
      BY <1>4 DEF cancel, netVars, AnswerType
    <2>4. dropped' \subseteq TtsId
      <3>1. QueuedIds \subseteq TtsId
        BY RequestElement DEF QueuedIds
      <3>2. OpIds \subseteq TtsId
        BY OpElement DEF OpIds
      <3> QED
        BY <1>4, <3>1, <3>2 DEF cancel, ScalarType
    <2>5. pollPc' \in {"stopped", "running", "asleep"}
      BY <1>4 DEF cancel, ScalarType, WakePoll
    <2>6. ScalarType'
      BY <1>4, <2>4, <2>5 DEF cancel, reqVars, respVars, netVars, ScalarType
    <2> QED
      BY <2>1, <2>2, <2>3, <2>6
  <1>5. CASE releaseBegin
    <2>1. OpType(TtsId, Errors)' /\ QueueType' /\ AnswerType'
      BY <1>5 DEF releaseBegin, ctlVars, netVars, OpType, QueueType, AnswerType
    <2>2. ScalarType'
      BY <1>5 DEF releaseBegin, reqVars, respVars, pollVars, netVars, ScalarType
    <2> QED
      BY <2>1, <2>2
  <1>6. CASE releaseClose
    <2>1. OpType(TtsId, Errors)' /\ AnswerType'
      BY <1>6 DEF releaseClose, ctlVars, OpType, AnswerType
    <2>2. QueueType'
      BY <1>6, EmptySeq DEF releaseClose, QueueType
    <2>3. ScalarType'
      BY <1>6 DEF releaseClose, WakeRecv, WakeReq, pollVars, ScalarType
    <2> QED
      BY <2>1, <2>2, <2>3
  <1>7. CASE releaseJoinReq
    <2>1. OpType(TtsId, Errors)'
      BY <1>7, FinishKeeps DEF releaseJoinReq
    <2>2. QueueType' /\ AnswerType'
      BY <1>7, EmptySeq DEF releaseJoinReq, appVars, netVars, QueueType, AnswerType
    <2>3. ScalarType'
      BY <1>7 DEF releaseJoinReq, appVars, reqVars, respVars, netVars, WakePoll, ScalarType
    <2> QED
      BY <2>1, <2>2, <2>3
  <1>8. CASE releaseJoinResp
    <2>1. OpType(TtsId, Errors)' /\ QueueType' /\ AnswerType'
      BY <1>8 DEF releaseJoinResp, ctlVars, appVars, netVars, OpType, QueueType, AnswerType
    <2>2. ScalarType'
      BY <1>8 DEF releaseJoinResp, appVars, reqVars, respVars, pollVars, netVars, ScalarType
    <2> QED
      BY <2>1, <2>2
  <1> QED
    BY <1>1, <1>2, <1>3, <1>4, <1>5, <1>6, <1>7, <1>8

(* The front of the responses and what pop() leaves of them. *)
LEMMA PollType ==
  ASSUME TypeOK, poll PROVE TypeOK'
  <1> USE TypeParts, TypePartsNext
  <1>1. CASE pollReleased \/ pollWait
    <2>1. /\ UNCHANGED <<ctlVars, appVars, responses, reqVars, respVars, ctlPc, netVars, heard>>
          /\ pollPc' \in {"stopped", "asleep"}
      BY <1>1 DEF pollReleased, pollWait
    <2>2. OpType(TtsId, Errors)' /\ QueueType' /\ AnswerType'
      BY <2>1 DEF ctlVars, appVars, netVars, OpType, QueueType, AnswerType
    <2>3. ScalarType'
      BY <2>1 DEF appVars, reqVars, respVars, netVars, ScalarType
    <2> QED
      BY <2>2, <2>3
  <1>2. responses \in Seq(Stream(TtsId, Voices, {}))
    BY DEF QueueType
  <1>3. CASE pollDead
    <2>1. OpType(TtsId, Errors)'
      BY <1>3, RemoveFrontKeeps DEF pollDead
    <2>2. responses' \in Seq(Stream(TtsId, Voices, {}))
      <3> DEFINE e == Erase(responses, operations[1].id, 0)
      <3>1. e \in Seq(Stream(TtsId, Voices, {}))
        BY <1>2, EraseKeeps
      <3>2. PopRest(e) \in Seq(Stream(TtsId, Voices, {}))
        BY <3>1, PopRestKeeps
      <3> QED
        BY <1>2, <1>3, <3>2 DEF pollDead, DeadRest
    <2>3. QueueType' /\ AnswerType'
      BY <1>3, <2>2 DEF pollDead, netVars, QueueType, AnswerType
    <2>4. ScalarType'
      BY <1>3 DEF pollDead, reqVars, respVars, netVars, ScalarType
    <2> QED
      BY <2>1, <2>3, <2>4
  <1>4. CASE pollItem
    <2>1. OpType(TtsId, Errors)'
      <3>1. remove_front_op \/ UNCHANGED ctlVars
        BY <1>4 DEF pollItem
      <3>2. operations # <<>>
        BY <1>4 DEF pollItem
      <3>3. CASE remove_front_op
        BY <3>2, <3>3, RemoveFrontKeeps
      <3>4. CASE UNCHANGED ctlVars
        BY <3>4 DEF ctlVars, OpType
      <3> QED
        BY <3>1, <3>3, <3>4
    <2>2. responses' \in Seq(Stream(TtsId, Voices, {}))
      BY <1>2, <1>4, PopRestKeeps DEF pollItem
    <2>3. QueueType' /\ AnswerType'
      BY <1>4, <2>2 DEF pollItem, netVars, QueueType, AnswerType
    <2>4. dropped' \subseteq TtsId
      BY <1>4 DEF pollItem, ScalarType
    <2>5. ScalarType'
      BY <1>4, <2>4 DEF pollItem, reqVars, respVars, netVars, ScalarType
    <2> QED
      BY <2>1, <2>3, <2>5
  <1> QED
    BY <1>1, <1>3, <1>4 DEF poll

(* The sending thread, send_reqs(). *)
LEMMA SendType ==
  ASSUME TypeOK, send_reqs PROVE TypeOK'
  <1> USE TypeParts, TypePartsNext
  <1>1. CASE sendQuit \/ sendWait \/ sendLost
    <2>1. /\ UNCHANGED <<ctlVars, appVars, responses, req, respVars, pollVars, ctlPc, netVars>>
          /\ reqPc' \in {"dead", "asleep", "sent"}
          /\ reqPc' = "sent" => req # 0
      BY <1>1 DEF sendQuit, sendWait, sendLost, ScalarType
    <2>2. OpType(TtsId, Errors)' /\ QueueType' /\ AnswerType'
      BY <2>1 DEF ctlVars, appVars, netVars, OpType, QueueType, AnswerType
    <2>3. ScalarType'
      BY <2>1 DEF appVars, respVars, pollVars, netVars, ScalarType
    <2> QED
      BY <2>2, <2>3
  <1>2. CASE sendTake
    <2>1. /\ Tail(requests) \in Seq([id : TtsId, deleted : BOOLEAN])
          /\ requests[1] \in [id : TtsId, deleted : BOOLEAN]
      BY <1>2, SeqTail DEF sendTake, QueueType
    <2>2. requests[1].id \in TtsId
      BY <2>1
    <2>3. OpType(TtsId, Errors)'
      <3>1. new_op(requests[1].id, "CANCELLED") \/ new_op(requests[1].id, "START")
        BY <1>2 DEF sendTake
      <3> QED
        BY <2>2, <3>1, NewOpKeeps DEF Status
    <2>4. QueueType' /\ AnswerType'
      BY <1>2, <2>1 DEF sendTake, netVars, QueueType, AnswerType
    <2>5. /\ req' \in TtsId \cup {0}
          /\ reqPc' \in {"dead", "top", "asleep", "send", "sent", "waitOp", "inOp"}
          /\ reqPc' \in {"send", "sent", "waitOp", "inOp"} => req' # 0
          /\ pollPc' \in {"stopped", "running", "asleep"}
      BY <1>2, <2>2, TtsAssumption DEF sendTake, reqVars, WakePoll, ScalarType, TtsId
    <2>6. ScalarType'
      BY <1>2, <2>5 DEF sendTake, respVars, netVars, ScalarType
    <2> QED
      BY <2>3, <2>4, <2>6
  <1>3. CASE sendDone
    <2>1. OpType(TtsId, Errors)' /\ QueueType'
      BY <1>3 DEF sendDone, ctlVars, appVars, OpType, QueueType
    <2>2. AnswerType'
      <3>1. req \in TtsId
        BY <1>3 DEF sendDone, ScalarType
      <3>2. [sent |-> 0, done |-> FALSE] \in [sent : 0 .. MaxChunks, done : BOOLEAN]
        BY TtsAssumption
      <3> QED
        BY <1>3, <3>1, <3>2 DEF sendDone, AnswerType
    <2>3. ScalarType'
      BY <1>3 DEF sendDone, appVars, respVars, pollVars, ScalarType
    <2> QED
      BY <2>1, <2>2, <2>3
  <1>4. CASE sendFails
    <2>1. OpType(TtsId, Errors)'
      BY <1>4, SetErrorKeeps DEF sendFails, Errors
    <2>2. QueueType' /\ AnswerType'
      BY <1>4 DEF sendFails, appVars, netVars, QueueType, AnswerType
    <2>3. ScalarType'
      BY <1>4 DEF sendFails, appVars, respVars, netVars, WakePoll, ScalarType
    <2> QED
      BY <2>1, <2>2, <2>3
  <1>5. CASE sendRefresh
    <2>1. OpType(TtsId, Errors)'
      BY <1>5, RefreshKeeps DEF sendRefresh
    <2>2. QueueType' /\ AnswerType'
      BY <1>5 DEF sendRefresh, appVars, netVars, QueueType, AnswerType
    <2>3. ScalarType'
      BY <1>5 DEF sendRefresh, appVars, respVars, pollVars, netVars, ScalarType
    <2> QED
      BY <2>1, <2>2, <2>3
  <1>6. CASE sendWaitOp \/ sendAwake
    <2>1. UNCHANGED <<operations, current, appVars, responses, respVars, pollVars, ctlPc,
                      netVars>>
      BY <1>6 DEF sendWaitOp, sendAwake
    <2>2. op_cond' \in BOOLEAN
      BY <1>6 DEF sendWaitOp, sendAwake, OpType
    <2>3. OpType(TtsId, Errors)' /\ QueueType' /\ AnswerType'
      BY <2>1, <2>2 DEF appVars, netVars, OpType, QueueType, AnswerType
    <2>4. /\ req' \in TtsId \cup {0}
          /\ reqPc' \in {"top", "inOp"} /\ (reqPc' = "inOp" => req' # 0)
      BY <1>6 DEF sendWaitOp, sendAwake, ScalarType
    <2>5. ScalarType'
      BY <2>1, <2>4 DEF appVars, respVars, pollVars, netVars, ScalarType
    <2> QED
      BY <2>3, <2>5
  <1> QED
    BY <1>1, <1>2, <1>3, <1>4, <1>5, <1>6 DEF send_reqs

(* What recv() reports as an error is a response too. *)
LEMMA ErrorIsResponse ==
  /\ NoResponse \in Response
  /\ \A k \in {"broken", "badData", "timeout"} : Error(k) \in Response
  <1>1. NoResponse \in Response
    BY TtsAssumption DEF NoResponse, Response, NoVoice
  <1> QED
    BY <1>1 DEF Error, Response

(* gen_result_by_resp: what an answer to the current operation does. *)
LEMMA AnswerKeeps ==
  ASSUME TypeOK, rx.id \in TtsId \cup {0}, IsCurrent(rx.id), Answer(rx)
  PROVE  /\ OpType(TtsId, Errors)' /\ responses' \in Seq(Stream(TtsId, Voices, {}))
         /\ SameOpIds
         /\ \A i \in 1 .. Len(operations) : i # current => operations'[i] = operations[i]
         /\ operations'[current].status =
              IF rx.finish THEN Finished("END")
              ELSE IF operations[current].status = "START" THEN "STREAMING"
              ELSE operations[current].status
         /\ current' = IF rx.finish THEN 0 ELSE current
         /\ op_cond' = (op_cond /\ ~rx.finish)
  <1> USE TypeParts
  <1> DEFINE op      == operations[current]
             started == IF op.status = "START" THEN Start(responses, rx.id) ELSE responses
             voiced  == IF rx.voice # NoVoice THEN Put(started, rx.id, rx.voice)
                        ELSE started
             opened  == IF op.status = "START" THEN "STREAMING" ELSE op.status
             status  == IF rx.finish THEN Finished("END") ELSE opened
             fresh   == Refreshed(op, TRUE)
             op1     == [fresh EXCEPT !.status = status]
  <1>1. current # 0 /\ current \in 1 .. Len(operations) /\ op.id = rx.id /\ op.id \in TtsId
        /\ op \in Operation(TtsId, Errors) /\ Len(operations) \in Nat
    <2>1. current # 0 /\ op.id = rx.id
      BY DEF IsCurrent
    <2>2. current \in 1 .. Len(operations) /\ Len(operations) \in Nat
      BY <2>1, SeqElement DEF OpType
    <2> QED
      BY <2>1, <2>2, OpElement
  <1>2. rx \in Response /\ rx.finish \in BOOLEAN /\ (rx.voice # NoVoice => rx.voice \in Voices)
    BY TtsAssumption DEF ScalarType, Response, NoVoice, Voices
  <1>3. started \in Seq(Stream(TtsId, Voices, {}))
    BY <1>1, StartKeeps DEF QueueType
  <1>4. voiced \in Seq(Stream(TtsId, Voices, {}))
    BY <1>2, <1>3, PutKeeps
  <1>5. End(voiced, rx.id, NoData) \in Seq(Stream(TtsId, Voices, {}))
    BY <1>4, EndKeeps
  <1>6. status \in Status
    BY <1>1 DEF Operation, Status, Finished
  <1>7. fresh \in Operation(TtsId, Errors) /\ fresh.id = op.id /\ fresh.status = op.status
    <2>1. \A x \in Operation(TtsId, Errors) :
            /\ Refreshed(x, TRUE) \in Operation(TtsId, Errors)
            /\ Refreshed(x, TRUE).id = x.id /\ Refreshed(x, TRUE).status = x.status
      BY RefreshedIsOp
    <2> QED
      BY <1>1, <2>1
  <1>8. /\ responses' = IF rx.finish THEN End(voiced, rx.id, NoData) ELSE voiced
        /\ operations' = [operations EXCEPT ![current] = op1]
        /\ current' = IF rx.finish THEN 0 ELSE current
        /\ op_cond' = (op_cond /\ ~rx.finish)
    BY DEF Answer, Voiced
  <1> HIDE DEF started, voiced, fresh, status
  <1>9. op1 \in Operation(TtsId, Errors) /\ op1.id = op.id /\ op1.status = status
    BY <1>6, <1>7 DEF Operation
  <1> HIDE DEF op1
  <1>10. /\ operations' \in Seq(Operation(TtsId, Errors))
         /\ Len(operations') = Len(operations)
         /\ operations'[current] = op1
         /\ \A i \in 1 .. Len(operations) : i # current => operations'[i] = operations[i]
    BY <1>1, <1>8, <1>9, CurrentReplaced
  <1>11. responses' \in Seq(Stream(TtsId, Voices, {}))
    BY <1>4, <1>5, <1>8
  <1>12. op_cond' \in BOOLEAN
    BY <1>2, <1>8 DEF OpType
  <1>13. OpType(TtsId, Errors)'
    BY <1>1, <1>8, <1>10, <1>12 DEF OpType
  <1>14. SameOpIds
    BY <1>1, <1>9, <1>10 DEF SameOpIds
  <1> QED
    BY <1>8, <1>9, <1>10, <1>11, <1>13, <1>14 DEF status

(* The receiving thread, gen_results(). *)
LEMMA RecvType ==
  ASSUME TypeOK, gen_results PROVE TypeOK'
  <1> USE TypeParts, TypePartsNext
  <1>1. CASE genTimeout \/ recvWait \/ recvTimer \/ recvNothing
    <2>1. UNCHANGED <<ctlVars, appVars, responses, reqVars, pollVars, ctlPc, netVars>>
      BY <1>1 DEF genTimeout, recvWait, recvTimer, recvNothing
    <2>2. OpType(TtsId, Errors)' /\ QueueType' /\ AnswerType'
      BY <2>1 DEF ctlVars, appVars, netVars, OpType, QueueType, AnswerType
    <2>3. Error("timeout") \in Response
      BY ErrorIsResponse
    <2>4. rx' \in Response /\ respTimed' \in BOOLEAN
      BY <1>1, <2>3 DEF genTimeout, recvWait, recvTimer, recvNothing, Expired, ScalarType
    <2>5. respPc' \in {"dead", "timeout", "recv", "asleep", "awake", "handle"}
      BY <1>1 DEF genTimeout, recvWait, recvTimer, recvNothing
    <2>6. ScalarType'
      BY <2>1, <2>4, <2>5 DEF appVars, reqVars, pollVars, netVars, ScalarType
    <2> QED
      BY <2>2, <2>6
  <1>2. CASE recvPacket
    <2>1. Head(inbox) \in Response /\ Tail(inbox) \in Seq(Response)
      BY <1>2, SeqTail DEF recvPacket, QueueType
    <2>2. OpType(TtsId, Errors)' /\ QueueType' /\ AnswerType'
      BY <1>2, <2>1 DEF recvPacket, ctlVars, appVars, OpType, QueueType, AnswerType
    <2>3. ScalarType'
      BY <1>2, <2>1 DEF recvPacket, appVars, reqVars, pollVars, ScalarType
    <2> QED
      BY <2>2, <2>3
  <1>3. NoResponse \in Response
    BY ErrorIsResponse
  <1>4. CASE genNothing \/ genError
    <2>1. UNCHANGED <<appVars, responses, reqVars, respTimed, heard, ctlPc, netVars>>
          /\ respPc' = "timeout" /\ rx' = NoResponse
      BY <1>4 DEF genNothing, genError
    <2>2. OpType(TtsId, Errors)'
      <3>1. \/ UNCHANGED ctlVars
            \/ \E err \in Errors : set_op_error(err)
        BY <1>4 DEF genNothing, genError, Errors
      <3>2. CASE UNCHANGED ctlVars
        BY <3>2 DEF ctlVars, OpType
      <3> QED
        BY <3>1, <3>2, SetErrorKeeps
    <2>3. QueueType' /\ AnswerType'
      BY <2>1 DEF appVars, netVars, QueueType, AnswerType
    <2>4. pollPc' \in {"stopped", "running", "asleep"}
      BY <1>4 DEF genNothing, genError, WakePoll, ScalarType
    <2>5. ScalarType'
      BY <2>1, <2>4, <1>3 DEF appVars, reqVars, netVars, ScalarType
    <2> QED
      BY <2>2, <2>3, <2>5
  <1>5. CASE genAnswer
    <2>1. UNCHANGED <<appVars, reqVars, respTimed, heard, ctlPc, netVars>>
          /\ respPc' = "timeout" /\ rx' = NoResponse
      BY <1>5 DEF genAnswer
    <2>2. pollPc' \in {"stopped", "running", "asleep"}
      BY <1>5 DEF genAnswer, Answer, WakePoll, ScalarType
    <2>3. ScalarType'
      BY <2>1, <2>2, <1>3 DEF appVars, reqVars, netVars, ScalarType
    <2>4. AnswerType'
      BY <2>1 DEF netVars, AnswerType
    <2>5. OpType(TtsId, Errors)' /\ responses' \in Seq(Stream(TtsId, Voices, {}))
      <3>1. CASE IsCurrent(rx.id)
        <4>1. Answer(rx) /\ rx.id \in TtsId \cup {0}
          BY <1>5, <3>1 DEF genAnswer, ScalarType, Response
        <4> QED
          BY <3>1, <4>1, AnswerKeeps
      <3>2. CASE ~IsCurrent(rx.id)
        <4>1. refresh_op_time(TRUE) /\ responses' = responses
          BY <1>5, <3>2 DEF genAnswer
        <4> QED
          BY <4>1, RefreshKeeps DEF QueueType
      <3> QED
        BY <3>1, <3>2
    <2>6. QueueType'
      BY <2>1, <2>5 DEF appVars, netVars, QueueType
    <2> QED
      BY <2>3, <2>4, <2>5, <2>6
  <1> QED
    BY <1>1, <1>2, <1>4, <1>5 DEF gen_results

(* The server, the connection and the clock. *)
LEMMA ServerType ==
  ASSUME TypeOK,
         \/ \E i \in TtsId : serverAnswers(i)
         \/ \E k \in {"broken", "badData"} : linkError(k)
         \/ clock
  PROVE  TypeOK'
  <1> USE TypeParts, TypePartsNext
  <1>1. ASSUME NEW i \in TtsId, serverAnswers(i) PROVE TypeOK'
    <2>1. PICK more \in BOOLEAN, finish \in BOOLEAN :
            /\ more => answered[i].sent < MaxChunks
            /\ LET sent == IF more THEN answered[i].sent + 1 ELSE answered[i].sent IN
               /\ Deliver([kind |-> "data", id |-> i, finish |-> finish,
                           voice |-> IF more THEN sent ELSE NoVoice])
               /\ answered' = [answered EXCEPT ![i] = [sent |-> sent, done |-> finish]]
      BY <1>1 DEF serverAnswers
    <2> DEFINE sent == IF more THEN answered[i].sent + 1 ELSE answered[i].sent
               voice == IF more THEN sent ELSE NoVoice
               p == [kind |-> "data", id |-> i, finish |-> finish, voice |-> voice]
    <2>2. i \in DOMAIN answered /\ answered[i] \in [sent : 0 .. MaxChunks, done : BOOLEAN]
      BY <1>1 DEF serverAnswers, AnswerType
    <2>3. sent \in 0 .. MaxChunks /\ voice \in 0 .. MaxChunks
      BY <2>1, <2>2, TtsAssumption DEF NoVoice
    <2>4. p \in Response
      BY <2>3 DEF Response
    <2>5. Deliver(p) /\ answered' = [answered EXCEPT ![i] = [sent |-> sent, done |-> finish]]
      BY <2>1
    <2> HIDE DEF sent, voice, p
    <2>6. inbox' \in Seq(Response)
      BY <2>4, <2>5, SeqAppend DEF Deliver, QueueType
    <2>7. AnswerType'
      BY <2>2, <2>3, <2>5 DEF AnswerType
    <2>8. OpType(TtsId, Errors)' /\ QueueType'
      BY <1>1, <2>6 DEF serverAnswers, ctlVars, appVars, OpType, QueueType
    <2>9. ScalarType'
      BY <1>1, <2>5 DEF serverAnswers, Deliver, WakeRecv, appVars, reqVars, pollVars,
                        ScalarType
    <2> QED
      BY <2>7, <2>8, <2>9
  <1>2. ASSUME NEW k \in {"broken", "badData"}, linkError(k) PROVE TypeOK'
    <2>1. Error(k) \in Response
      BY <1>2, ErrorIsResponse
    <2>2. inbox' \in Seq(Response)
      BY <1>2, <2>1, SeqAppend DEF linkError, Deliver, QueueType
    <2>3. OpType(TtsId, Errors)' /\ QueueType' /\ AnswerType'
      BY <1>2, <2>2 DEF linkError, ctlVars, appVars, OpType, QueueType, AnswerType
    <2>4. ScalarType'
      BY <1>2 DEF linkError, Deliver, WakeRecv, appVars, reqVars, pollVars, ScalarType
    <2> QED
      BY <2>3, <2>4
  <1>3. CASE clock
    <2>1. OpType(TtsId, Errors)'
      BY <1>3, GrowsIdleKeeps DEF clock
    <2>2. QueueType' /\ AnswerType'
      BY <1>3 DEF clock, appVars, netVars, QueueType, AnswerType
    <2>3. ScalarType'
      BY <1>3 DEF clock, appVars, reqVars, respVars, pollVars, netVars, ScalarType
    <2> QED
      BY <2>1, <2>2, <2>3
  <1> QED
    BY <1>1, <1>2, <1>3

(* Every step keeps the types. *)
LEMMA NextType == TypeOK /\ [Next]_vars => TypeOK'
  <1> SUFFICES ASSUME TypeOK, [Next]_vars PROVE TypeOK'
    OBVIOUS
  <1>1. CASE UNCHANGED vars
    BY <1>1 DEF vars, TypeOK
  <1>2. CASE Next
    BY <1>2, AppType, PollType, SendType, RecvType, ServerType DEF Next
  <1> QED
    BY <1>1, <1>2

(* The type invariant: every list of operations, requests, results and     *)
(* packets the three threads share stays well formed (tts_impl.cc,         *)
(* op_ctl.h, pending_queue.h), whatever the interleaving and the faults.   *)
THEOREM TypeCorrect == Spec => []TypeOK
  <1>1. Init => TypeOK
    BY InitType
  <1>2. TypeOK /\ [Next]_vars => TypeOK'
    BY NextType
  <1> QED
    BY <1>1, <1>2, PTL DEF Spec

-----------------------------------------------------------------------------
(* Steps that move no request, operation or stream, and change statuses    *)
(* only to CANCELLED or ERROR.                                             *)
SameRequestIds ==
  /\ Len(requests') = Len(requests)
  /\ \A i \in 1 .. Len(requests) : requests'[i].id = requests[i].id

(* Order and streams survive a cancel, a failure and a mark on a request. *)
LEMMA Statuses ==
  ASSUME OrderInv, StreamInv, SameOpIds, SameRequestIds,
         responses' = responses, next_id' = next_id,
         \A i \in 1 .. Len(operations) :
           operations'[i].status \in {operations[i].status, "CANCELLED", "ERROR"}
  PROVE  OrderInv' /\ StreamInv'
  <1>1. OrderInv'
    <2>1. \A i \in 1 .. Len(requests') :
            /\ requests'[i].id <= next_id'
            /\ \A j \in 1 .. i - 1 : requests'[j].id < requests'[i].id
      <3> TAKE i \in 1 .. Len(requests')
      <3>1. \A j \in 1 .. i - 1 : j \in 1 .. Len(requests)
        BY DEF SameRequestIds
      <3> QED
        BY <3>1 DEF OrderInv, SameRequestIds
    <2>2. \A i \in 1 .. Len(operations') :
            /\ operations'[i].id <= next_id'
            /\ \A j \in 1 .. i - 1 : operations'[j].id < operations'[i].id
            /\ \A j \in 1 .. Len(requests') : operations'[i].id < requests'[j].id
      <3> TAKE i \in 1 .. Len(operations')
      <3>1. \A j \in 1 .. i - 1 : j \in 1 .. Len(operations)
        BY DEF SameOpIds
      <3> QED
        BY <3>1 DEF OrderInv, SameOpIds, SameRequestIds
    <2>3. \A i \in 1 .. Len(responses') :
            /\ \A j \in 1 .. i - 1 : responses'[j].id < responses'[i].id
            /\ \E k \in 1 .. Len(operations') : operations'[k].id = responses'[i].id
      BY DEF OrderInv, SameOpIds
    <2> QED
      BY <2>1, <2>2, <2>3 DEF OrderInv
  <1>2. ASSUME NEW i \in 1 .. Len(operations)
        PROVE  /\ operations'[i].status = "START" => ~HasStream(responses, operations[i].id)
               /\ operations'[i].status \in {"STREAMING", "END"} =>
                    HasStream(responses, operations[i].id)
    BY DEF StreamInv
  <1>3. ASSUME NEW k \in 1 .. Len(responses), NEW i \in 1 .. Len(operations),
               operations[i].id = responses[k].id
        PROVE  /\ operations'[i].status = "STREAMING" => responses[k].type = "uncompleted"
               /\ operations'[i].status = "END" => responses[k].type = "completed"
    BY <1>3 DEF StreamInv
  <1>4. StreamInv'
    BY <1>2, <1>3 DEF StreamInv, SameOpIds, HasStream
  <1> QED
    BY <1>1, <1>4

(* The id and the status of an operation. *)
LEMMA OperationElement ==
  ASSUME TypeOK, NEW i \in 1 .. Len(operations)
  PROVE  /\ operations[i].id \in TtsId /\ operations[i].id \in Nat
         /\ operations[i].status \in Status
  <1>1. operations[i].id \in TtsId /\ operations[i].status \in Status
    BY TypeParts, OpElement
  <1>2. TtsId \subseteq Nat
    BY TtsAssumption DEF TtsId
  <1> QED
    BY <1>1, <1>2

(* In OrderInv no two operations have the same id. *)
LEMMA DistinctIds ==
  ASSUME TypeOK, OrderInv, NEW i \in 1 .. Len(operations), NEW j \in 1 .. Len(operations),
         operations[i].id = operations[j].id
  PROVE  i = j
  <1>1. operations[i].id \in Nat /\ operations[j].id \in Nat
    BY OperationElement
  <1>2. i < j => operations[i].id < operations[j].id
    BY DEF OrderInv
  <1>3. j < i => operations[j].id < operations[i].id
    BY DEF OrderInv
  <1> QED
    BY <1>1, <1>2, <1>3

(* Of two streams, or a stream and an operation, the older has the smaller *)
(* id: when the front operation has a stream, it is the front one.         *)
LEMMA FrontStream ==
  ASSUME TypeOK, OrderInv, operations # <<>>, HasStream(responses, operations[1].id)
  PROVE  responses # <<>> /\ responses[1].id = operations[1].id
  <1>0. responses \in Seq(Stream(TtsId, Voices, {})) /\ OpType(TtsId, Errors)
    BY TypeParts DEF QueueType
  <1>1. PICK k \in 1 .. Len(responses) : responses[k].id = operations[1].id
    BY DEF HasStream
  <1>2. Len(responses) \in Nat /\ 1 \in 1 .. Len(responses) /\ responses # <<>>
    BY <1>0, <1>1, SeqElement, EmptySeq
  <1>3. Len(operations) \in Nat /\ 1 \in 1 .. Len(operations)
    BY <1>0, SeqTail DEF OpType
  <1>4. PICK m \in 1 .. Len(operations) : operations[m].id = responses[1].id
    BY <1>2 DEF OrderInv
  <1>5. operations[1].id \in Nat /\ operations[m].id \in Nat
    BY <1>3, OperationElement
  <1>6. k # 1 => responses[1].id < operations[1].id
    BY <1>1, <1>2 DEF OrderInv
  <1>7. m # 1 => operations[1].id < responses[1].id
    BY <1>3, <1>4 DEF OrderInv
  <1> QED
    BY <1>1, <1>2, <1>4, <1>5, <1>6, <1>7

(* What PollAsserts needs of a front operation that is not dead. *)
LEMMA FrontItem ==
  ASSUME IInv, Live, operations # <<>>,
         operations[1].status \notin {"CANCELLED", "ERROR"}, responses # <<>>
  PROVE  /\ responses[1].id = operations[1].id
         /\ responses[1].type \in {"uncompleted", "completed"}
         /\ operations[1].status \in {"STREAMING", "END"}
  <1>0. /\ TypeOK /\ OpType(TtsId, Errors) /\ OrderInv /\ StreamInv
        /\ responses \in Seq(Stream(TtsId, Voices, {}))
    BY TypeParts DEF IInv, QueueType
  <1>1. Len(responses) \in Nat /\ 1 \in 1 .. Len(responses)
    BY <1>0, SeqTail
  <1>2. Len(operations) \in Nat /\ 1 \in 1 .. Len(operations)
    BY <1>0, SeqTail DEF OpType
  <1>3. operations[1].status \in Status
    BY <1>0, <1>2, OpElement
  <1>4. operations[1].status # "START"
    <2> SUFFICES ASSUME operations[1].status = "START" PROVE FALSE
      OBVIOUS
    <2>1. Len(operations) = 1
      <3>1. current = 1
        BY <1>2 DEF IInv, OneInFlight
      <3>2. current = Len(operations)
        BY <3>1 DEF IInv, SenderInv
      <3> QED
        BY <3>1, <3>2
    <2>2. PICK m \in 1 .. Len(operations) : operations[m].id = responses[1].id
      BY <1>0, <1>1 DEF OrderInv
    <2>3. m = 1
      BY <2>1, <2>2
    <2>4. HasStream(responses, operations[1].id)
      BY <1>1, <2>2, <2>3 DEF HasStream
    <2>5. ~HasStream(responses, operations[1].id)
      <3>1. \A i \in 1 .. Len(operations) :
              operations[i].status = "START" => ~HasStream(responses, operations[i].id)
        BY <1>0 DEF StreamInv
      <3> QED
        BY <1>2, <3>1
    <2> QED
      BY <2>4, <2>5
  <1>5. HasStream(responses, operations[1].id)
    BY <1>0, <1>2, <1>3, <1>4 DEF StreamInv, Status
  <1> QED
    BY <1>0, <1>1, <1>3, <1>4, <1>5, FrontStream DEF StreamInv, Status

-----------------------------------------------------------------------------
(* The inductive step, one lemma per thread.                               *)

(* Steps that leave operations, streams and requests as they are, but for  *)
(* the mark cancel() leaves on a request.                                  *)
LEMMA QuietStep ==
  ASSUME IInv, UNCHANGED <<ctlVars, responses, next_id>>, SameRequestIds, Live' => Live
  PROVE  OneInFlight' /\ (Live' => OrderInv' /\ StreamInv')
  <1>1. SameOpIds /\ \A i \in 1 .. Len(operations) : operations'[i].status = operations[i].status
    BY DEF ctlVars, SameOpIds
  <1>2. OneInFlight'
    BY DEF IInv, OneInFlight, ctlVars
  <1>3. responses' = responses /\ next_id' = next_id
    OBVIOUS
  <1> QED
    BY <1>1, <1>2, <1>3, Statuses DEF IInv

(* Only prepare() makes the SDK live. *)
LEMMA LiveStep ==
  ASSUME UNCHANGED <<initialized, ctlPc>> PROVE Live' => Live
  BY DEF Live

(* prepare() finds the queues empty: it is the first. *)
LEMMA PrepareInv ==
  ASSUME IInv, MaxSessions <= 1, prepare, TypeOK' PROVE IInv'
  <1>1. session = 0 /\ session' = 1
    BY TtsAssumption DEF IInv, TypeOK, prepare
  <1>2. /\ operations = <<>> /\ requests = <<>> /\ responses = <<>> /\ current = 0
        /\ speaking = {} /\ ctlPc = "idle" /\ reqPc = "dead"
    BY <1>1 DEF IInv, FreshInv
  <1>3. /\ operations' = <<>> /\ requests' = <<>> /\ responses' = <<>> /\ current' = 0
        /\ op_cond' = op_cond /\ initialized' /\ ctlPc' = "idle" /\ reqPc' = "top"
    BY <1>2 DEF prepare, ctlVars
  <1>4. op_cond = FALSE
    BY <1>2 DEF IInv, SenderInv, TypeOK
  <1>5. Len(operations') = 0 /\ Len(requests') = 0 /\ Len(responses') = 0
    BY <1>3, EmptySeq
  <1>6. OneInFlight'
    BY <1>5 DEF OneInFlight
  <1>7. SenderInv'
    BY <1>1, <1>3, <1>4 DEF SenderInv
  <1>8. FreshInv'
    BY <1>1 DEF FreshInv
  <1>9. OrderInv' /\ StreamInv'
    BY <1>5 DEF OrderInv, StreamInv
  <1> QED
    BY <1>6, <1>7, <1>8, <1>9 DEF IInv

(* speak() numbers a request after all the others (tts_impl.cc:103-111). *)
LEMMA SpeakInv ==
  ASSUME IInv, NEW c \in Callers, speakTest(c) \/ speakQueue(c), TypeOK'
  PROVE  IInv'
  <1>1. CASE speakTest(c)
    <2>1. /\ UNCHANGED <<ctlVars, responses, next_id, requests, initialized, ctlPc, req, reqPc,
                         session>>
          /\ initialized
      BY <1>1 DEF speakTest, reqVars
    <2>2. OneInFlight' /\ (Live' => OrderInv' /\ StreamInv')
      BY <2>1, QuietStep, LiveStep DEF SameRequestIds
    <2>3. SenderInv' /\ FreshInv'
      BY <2>1 DEF IInv, SenderInv, FreshInv, ctlVars
    <2> QED
      BY <2>2, <2>3 DEF IInv
  <1>2. CASE speakQueue(c)
    <2>1. /\ UNCHANGED <<ctlVars, initialized, responses, req, ctlPc, session>>
          /\ next_id' = next_id + 1
          /\ requests' = Append(requests, [id |-> next_id + 1, deleted |-> FALSE])
          /\ c \in speaking /\ WakeReq
      BY <1>2 DEF speakQueue
    <2>2. session # 0
      BY <2>1 DEF IInv, FreshInv
    <2>3. FreshInv'
      BY <2>1, <2>2 DEF FreshInv
    <2>4. SenderInv'
      BY <2>1 DEF IInv, SenderInv, WakeReq, ctlVars
    <2>5. OneInFlight'
      BY <2>1 DEF IInv, OneInFlight, ctlVars
    <2>6. ASSUME Live' PROVE OrderInv' /\ StreamInv'
      <3>1. Live /\ OrderInv /\ StreamInv /\ TypeOK /\ next_id \in Nat
        BY <2>1, <2>6 DEF IInv, Live, TypeOK
      <3> DEFINE new == [id |-> next_id + 1, deleted |-> FALSE]
      <3>2. /\ Len(requests) \in Nat /\ Len(requests') = Len(requests) + 1
            /\ requests'[Len(requests) + 1].id = next_id + 1
            /\ \A i \in 1 .. Len(requests) : requests'[i] = requests[i]
        <4>1. requests \in Seq([id : TtsId, deleted : BOOLEAN])
          BY <3>1 DEF TypeOK
        <4>2. requests' \in Seq([id : TtsId, deleted : BOOLEAN])
          BY DEF TypeOK
        <4> QED
          BY <2>1, <4>1, <4>2
      <3>3. \A i \in 1 .. Len(requests) : requests[i].id \in Nat /\ requests[i].id <= next_id
        BY <3>1, RequestElement, TtsAssumption DEF OrderInv, TtsId
      <3>4. \A i \in 1 .. Len(operations) : operations[i].id \in Nat /\ operations[i].id <= next_id
        BY <3>1, OperationElement DEF OrderInv
      <3>5. \A i \in 1 .. Len(requests') :
              /\ requests'[i].id <= next_id'
              /\ \A j \in 1 .. i - 1 : requests'[j].id < requests'[i].id
        BY <2>1, <3>1, <3>2, <3>3 DEF OrderInv
      <3>6. \A i \in 1 .. Len(operations') :
              /\ operations'[i].id <= next_id'
              /\ \A j \in 1 .. i - 1 : operations'[j].id < operations'[i].id
              /\ \A j \in 1 .. Len(requests') : operations'[i].id < requests'[j].id
        BY <2>1, <3>1, <3>2, <3>4 DEF OrderInv, ctlVars
      <3>7. OrderInv'
        BY <2>1, <3>1, <3>5, <3>6 DEF OrderInv, ctlVars
      <3>8. StreamInv'
        BY <2>1, <3>1 DEF StreamInv, ctlVars
      <3> QED
        BY <3>7, <3>8
    <2> QED
      BY <2>3, <2>4, <2>5, <2>6 DEF IInv
  <1> QED
    BY <1>1, <1>2

(* cancel() removes nothing, it only marks. *)
LEMMA CancelInv ==
  ASSUME IInv, NEW id, cancel(id), TypeOK'
  PROVE  IInv'
  <1>1. /\ initialized /\ (cancel_op(id) \/ UNCHANGED ctlVars)
        /\ UNCHANGED <<initialized, next_id, responses, req, reqPc, ctlPc, speaking, session>>
    BY DEF cancel, reqVars
  <1>2. Live /\ OrderInv /\ StreamInv /\ TypeOK /\ OpType(TtsId, Errors)
    BY <1>1, TypeParts DEF IInv, Live, cancel
  <1>3. SameRequestIds
    BY <1>2, CancelRequests DEF SameRequestIds
  <1>4. FreshInv'
    BY <1>1 DEF IInv, SenderInv, FreshInv, cancel
  <1>5. CASE UNCHANGED ctlVars
    <2>1. OneInFlight' /\ (Live' => OrderInv' /\ StreamInv')
      BY <1>1, <1>2, <1>3, <1>5, QuietStep
    <2>2. SenderInv'
      BY <1>1, <1>5 DEF IInv, SenderInv, ctlVars
    <2> QED
      BY <1>4, <2>1, <2>2 DEF IInv
  <1>6. CASE cancel_op(id)
    <2>1. /\ SameOpIds
          /\ \A i \in 1 .. Len(operations) :
               operations'[i].status = IF Hit(id, i) THEN "CANCELLED" ELSE operations[i].status
          /\ current' = IF CancelsCurrent(id) THEN 0 ELSE current
          /\ op_cond' = (op_cond /\ ~CancelsCurrent(id))
      BY <1>2, <1>6, CancelKeeps
    <2>2. OrderInv' /\ StreamInv'
      <3>1. \A i \in 1 .. Len(operations) :
              operations'[i].status \in {operations[i].status, "CANCELLED", "ERROR"}
        BY <2>1
      <3>2. responses' = responses /\ next_id' = next_id
        BY <1>1
      <3> QED
        BY <1>2, <1>3, <2>1, <3>1, <3>2, Statuses
    <2>3. CancelsCurrent(id) <=> current # 0 /\ Hit(id, current)
      <3>1. current # 0 => current \in 1 .. Len(operations)
        BY <1>2 DEF OpType
      <3>2. ASSUME CancelsCurrent(id) PROVE current # 0 /\ Hit(id, current)
        <4>1. current # 0
          BY <3>2 DEF CancelsCurrent
        <4>2. PICK i \in 1 .. Len(operations) :
                Hit(id, i) /\ operations[i].id = operations[current].id
          BY <3>2 DEF CancelsCurrent
        <4>3. i = current
          BY <1>2, <3>1, <4>1, <4>2, DistinctIds
        <4> QED
          BY <4>1, <4>2, <4>3
      <3>3. ASSUME current # 0, Hit(id, current) PROVE CancelsCurrent(id)
        BY <3>1, <3>3 DEF CancelsCurrent
      <3> QED
        BY <3>2, <3>3
    <2>4. OneInFlight'
      <3>1. ASSUME NEW i \in 1 .. Len(operations)
            PROVE  operations'[i].status \in {"START", "STREAMING"} <=> current' = i
        <4>1. operations[i].status \in {"START", "STREAMING"} <=> current = i
          BY DEF IInv, OneInFlight
        <4>2. CASE Hit(id, i)
          BY <2>1, <2>3, <4>1, <4>2
        <4>3. CASE ~Hit(id, i)
          BY <2>1, <2>3, <4>1, <4>3
        <4> QED
          BY <4>2, <4>3
      <3> QED
        BY <2>1, <3>1 DEF OneInFlight, SameOpIds
    <2>5. SenderInv'
      BY <1>1, <2>1 DEF IInv, SenderInv, SameOpIds, CancelsCurrent, TypeOK
    <2> QED
      BY <1>4, <2>2, <2>4, <2>5 DEF IInv
  <1> QED
    BY <1>1, <1>5, <1>6

(* release() ends the current operation once the sending thread is gone. *)
LEMMA ReleaseInv ==
  ASSUME IInv, TypeOK',
         releaseBegin \/ releaseClose \/ releaseJoinReq \/ releaseJoinResp
  PROVE  IInv'
  <1>1. CASE releaseBegin
    <2>1. /\ UNCHANGED <<ctlVars, responses, next_id, requests, req, reqPc, session, speaking>>
          /\ initialized /\ ~initialized' /\ ctlPc' = "closing"
      BY <1>1 DEF releaseBegin, reqVars
    <2>2. OneInFlight' /\ (Live' => OrderInv' /\ StreamInv')
      BY <2>1, QuietStep DEF SameRequestIds, Live
    <2>3. SenderInv' /\ FreshInv'
      BY <2>1 DEF IInv, SenderInv, FreshInv, ctlVars
    <2> QED
      BY <2>2, <2>3 DEF IInv
  <1>2. CASE releaseClose
    <2>1. /\ UNCHANGED <<ctlVars, responses, next_id, initialized, req, session, speaking>>
          /\ requests' = <<>> /\ ctlPc = "closing" /\ ctlPc' = "joinReq" /\ WakeReq
      BY <1>2 DEF releaseClose
    <2>2. Live /\ OrderInv /\ StreamInv
      BY <2>1 DEF IInv, Live
    <2>3. OneInFlight'
      BY <2>1 DEF IInv, OneInFlight, ctlVars
    <2>4. Len(requests') = 0
      BY <2>1, EmptySeq
    <2>5. OrderInv' /\ StreamInv'
      BY <2>1, <2>2, <2>4 DEF OrderInv, StreamInv, ctlVars
    <2>6. SenderInv' /\ FreshInv'
      BY <2>1 DEF IInv, SenderInv, FreshInv, WakeReq, ctlVars
    <2> QED
      BY <2>3, <2>5, <2>6 DEF IInv
  <1>3. CASE releaseJoinReq
    <2>1. /\ UNCHANGED <<appVars, reqVars>> /\ finish_op
          /\ reqPc = "dead" /\ ctlPc = "joinReq" /\ ctlPc' = "joinResp"
      BY <1>3 DEF releaseJoinReq
    <2>2. current = 0 /\ ~initialized
      BY <2>1 DEF IInv, SenderInv
    <2>3. UNCHANGED ctlVars
      BY <2>1, <2>2 DEF finish_op
    <2>4. OneInFlight'
      BY <2>3 DEF IInv, OneInFlight, ctlVars
    <2>5. SenderInv' /\ FreshInv'
      BY <2>1, <2>2, <2>3 DEF IInv, SenderInv, FreshInv, ctlVars, appVars, reqVars
    <2>6. ~Live'
      BY <2>1, <2>2 DEF Live, appVars
    <2> QED
      BY <2>4, <2>5, <2>6 DEF IInv
  <1>4. CASE releaseJoinResp
    <2>1. /\ UNCHANGED <<ctlVars, appVars, responses, reqVars>>
          /\ ctlPc = "joinResp" /\ ctlPc' = "idle"
      BY <1>4 DEF releaseJoinResp
    <2>2. ~initialized /\ reqPc = "dead"
      BY <2>1 DEF IInv, SenderInv
    <2>3. OneInFlight'
      BY <2>1 DEF IInv, OneInFlight, ctlVars
    <2>4. SenderInv' /\ FreshInv'
      BY <2>1, <2>2 DEF IInv, SenderInv, FreshInv, ctlVars, appVars, reqVars
    <2>5. ~Live'
      BY <2>1, <2>2 DEF Live, appVars
    <2> QED
      BY <2>3, <2>4, <2>5 DEF IInv
  <1> QED
    BY <1>1, <1>2, <1>3, <1>4

(* Removing the front operation, when it is not the current one, together  *)
(* with its stream if it has one.                                          *)
LEMMA FrontRemoved ==
  ASSUME IInv, Live, TypeOK', operations # <<>>, remove_front_op,
         operations[1].status \notin {"START", "STREAMING"},
         UNCHANGED <<requests, next_id, req, reqPc, initialized, ctlPc, session, speaking>>,
         HasStream(responses, operations[1].id) =>
           /\ Len(responses') = Len(responses) - 1
           /\ \A i \in 1 .. Len(responses) - 1 :
                /\ responses'[i].id = responses[i + 1].id
                /\ responses'[i].type = responses[i + 1].type,
         ~HasStream(responses, operations[1].id) => responses' = responses
  PROVE  IInv'
  <1>0. TypeOK /\ OpType(TtsId, Errors) /\ OrderInv /\ StreamInv
    BY TypeParts DEF IInv
  <1>1. /\ Len(operations) \in Nat \ {0} /\ Len(operations') = Len(operations) - 1
        /\ \A i \in 1 .. Len(operations) - 1 : operations'[i] = operations[i + 1]
        /\ current' = IF current = 0 THEN 0 ELSE current - 1
        /\ op_cond' = op_cond
    BY <1>0, RemoveFrontKeeps
  <1>2. current # 1 /\ current \in 0 .. Len(operations)
    <2>1. 1 \in 1 .. Len(operations)
      BY <1>1
    <2> QED
      BY <1>0, <2>1 DEF IInv, OneInFlight, OpType
  <1>3. OneInFlight'
    <2>1. ASSUME NEW i \in 1 .. Len(operations')
          PROVE  operations'[i].status \in {"START", "STREAMING"} <=> current' = i
      <3>1. i + 1 \in 1 .. Len(operations) /\ operations'[i] = operations[i + 1]
        BY <1>1
      <3>2. operations[i + 1].status \in {"START", "STREAMING"} <=> current = i + 1
        BY <3>1 DEF IInv, OneInFlight
      <3>3. current' = i <=> current = i + 1
        BY <1>1, <1>2
      <3> QED
        BY <3>1, <3>2, <3>3
    <2> QED
      BY <2>1 DEF OneInFlight
  <1>4. SenderInv'
    <2>1. ASSUME current' # 0
          PROVE  /\ current # 0 /\ current' = current - 1 /\ current' \in 1 .. Len(operations) - 1
                 /\ operations'[current'].id = operations[current].id
      <3>1. current # 0 /\ current' = current - 1
        BY <1>1, <2>1
      <3>2. current' \in 1 .. Len(operations) - 1 /\ current' + 1 = current
        BY <1>1, <1>2, <3>1
      <3> QED
        BY <1>1, <3>1, <3>2
    <2>2. current' # 0 => /\ reqPc' \in {"send", "sent", "waitOp", "inOp"}
                          /\ operations'[current'].id = req' /\ current' = Len(operations')
      BY <1>1, <2>1 DEF IInv, SenderInv
    <2>3. reqPc' = "inOp" /\ ~op_cond' => current' = 0
      BY <1>1 DEF IInv, SenderInv
    <2> QED
      BY <1>1, <2>2, <2>3 DEF IInv, SenderInv
  <1>5. FreshInv'
    <2>1. session # 0
      BY DEF IInv, FreshInv
    <2> QED
      BY <2>1 DEF FreshInv
  <1>6. HasStream(responses, operations[1].id) =>
          responses # <<>> /\ responses[1].id = operations[1].id
    BY <1>0, FrontStream
  <1>7. Len(responses) \in Nat /\ Len(responses') \in Nat
    BY <1>0, SeqElement DEF TypeOK
  (* Each stream left is one of the old ones, at the same place or one     *)
  (* before, and not the front operation's.                                *)
  <1>8. PICK d \in {0, 1} :
          /\ Len(responses') = Len(responses) - d
          /\ \A i \in 1 .. Len(responses') :
               /\ i + d \in 1 .. Len(responses)
               /\ responses'[i].id = responses[i + d].id
               /\ responses'[i].type = responses[i + d].type
               /\ responses'[i].id # operations[1].id
    <2>1. CASE HasStream(responses, operations[1].id)
      <3>1. ASSUME NEW i \in 1 .. Len(responses')
            PROVE  /\ i + 1 \in 1 .. Len(responses)
                   /\ responses'[i].id = responses[i + 1].id
                   /\ responses'[i].type = responses[i + 1].type
                   /\ responses'[i].id # operations[1].id
        <4>1. i + 1 \in 1 .. Len(responses) /\ i \in 1 .. Len(responses) - 1
              /\ 1 \in 1 .. (i + 1) - 1
          BY <2>1, <1>7
        <4>2. responses[1].id < responses[i + 1].id
          BY <1>0, <4>1 DEF OrderInv
        <4>3. operations[1].id \in Nat
          BY <1>0, <1>1, OperationElement
        <4> QED
          BY <2>1, <1>6, <4>1, <4>2, <4>3
      <3> QED
        BY <2>1, <3>1
    <2>2. CASE ~HasStream(responses, operations[1].id)
      BY <1>7, <2>2 DEF HasStream
    <2> QED
      BY <2>1, <2>2
  <1>9. OrderInv'
    <2>1. \A i \in 1 .. Len(operations') :
            /\ operations'[i].id <= next_id'
            /\ \A j \in 1 .. i - 1 : operations'[j].id < operations'[i].id
            /\ \A j \in 1 .. Len(requests') : operations'[i].id < requests'[j].id
      <3> TAKE i \in 1 .. Len(operations')
      <3>1. i + 1 \in 1 .. Len(operations) /\ operations'[i] = operations[i + 1]
        BY <1>1
      <3>2. \A j \in 1 .. i - 1 : /\ operations'[j] = operations[j + 1]
                                  /\ j + 1 \in 1 .. (i + 1) - 1
        BY <1>1
      <3> QED
        BY <1>0, <3>1, <3>2 DEF OrderInv
    <2>2. \A i \in 1 .. Len(responses') :
            /\ \A j \in 1 .. i - 1 : responses'[j].id < responses'[i].id
            /\ \E k \in 1 .. Len(operations') : operations'[k].id = responses'[i].id
      <3> TAKE i \in 1 .. Len(responses')
      <3>1. /\ i + d \in 1 .. Len(responses) /\ responses'[i].id = responses[i + d].id
            /\ responses'[i].id # operations[1].id
        BY <1>8
      <3>2. \A j \in 1 .. i - 1 : /\ responses'[j].id = responses[j + d].id
                                  /\ j + d \in 1 .. (i + d) - 1
        BY <1>8, <1>7
      <3>3. PICK k \in 1 .. Len(operations) : operations[k].id = responses[i + d].id
        BY <1>0, <3>1 DEF OrderInv
      <3>4. k # 1
        BY <3>1, <3>3
      <3>5. k - 1 \in 1 .. Len(operations') /\ operations'[k - 1] = operations[(k - 1) + 1]
            /\ (k - 1) + 1 = k
        BY <1>1, <3>4
      <3>6. operations'[k - 1].id = responses'[i].id
        BY <3>1, <3>3, <3>5
      <3>7. \A j \in 1 .. (i + d) - 1 : responses[j].id < responses[i + d].id
        BY <1>0, <3>1 DEF OrderInv
      <3>8. \A j \in 1 .. i - 1 : responses'[j].id < responses'[i].id
        BY <3>1, <3>2, <3>7
      <3> QED
        BY <3>5, <3>6, <3>8
    <2> QED
      BY <1>0, <2>1, <2>2 DEF OrderInv
  <1>10. StreamInv'
    <2>1. ASSUME NEW i \in 1 .. Len(operations')
          PROVE  /\ HasStream(responses', operations'[i].id)
                      <=> HasStream(responses, operations'[i].id)
                 /\ i + 1 \in 1 .. Len(operations) /\ operations'[i] = operations[i + 1]
      <3>1. i + 1 \in 1 .. Len(operations) /\ operations'[i] = operations[i + 1]
        BY <1>1
      <3>2. operations[i + 1].id # operations[1].id
        <4>1. 1 \in 1 .. Len(operations) /\ i + 1 # 1
          BY <1>1
        <4> QED
          BY <1>0, <3>1, <4>1, DistinctIds
      <3>3. ASSUME HasStream(responses', operations'[i].id)
            PROVE  HasStream(responses, operations'[i].id)
        BY <1>8, <3>3 DEF HasStream
      <3>4. ASSUME HasStream(responses, operations'[i].id)
            PROVE  HasStream(responses', operations'[i].id)
        <4>1. PICK k \in 1 .. Len(responses) : responses[k].id = operations[i + 1].id
          BY <3>1, <3>4 DEF HasStream
        <4>2. d = 1 => HasStream(responses, operations[1].id)
          BY <1>7, <1>8
        <4>3. d = 1 => k # 1
          BY <1>6, <3>2, <4>1, <4>2
        <4>4. k - d \in 1 .. Len(responses') /\ (k - d) + d = k
          BY <1>7, <1>8, <4>3
        <4>5. responses'[k - d].id = operations'[i].id
          BY <1>8, <3>1, <4>1, <4>4
        <4> QED
          BY <4>4, <4>5 DEF HasStream
      <3> QED
        BY <3>1, <3>3, <3>4
    <2>2. \A i \in 1 .. Len(operations') :
            /\ operations'[i].status = "START" => ~HasStream(responses', operations'[i].id)
            /\ operations'[i].status \in {"STREAMING", "END"} =>
                 HasStream(responses', operations'[i].id)
      BY <1>0, <2>1 DEF StreamInv
    <2>3. ASSUME NEW k \in 1 .. Len(responses')
          PROVE  /\ responses'[k].type \in {"uncompleted", "completed"}
                 /\ \A i \in 1 .. Len(operations') :
                      operations'[i].id = responses'[k].id =>
                        /\ operations'[i].status = "STREAMING" =>
                             responses'[k].type = "uncompleted"
                        /\ operations'[i].status = "END" => responses'[k].type = "completed"
      <3>1. /\ k + d \in 1 .. Len(responses) /\ responses'[k].id = responses[k + d].id
            /\ responses'[k].type = responses[k + d].type
        BY <1>8
      <3> QED
        BY <1>0, <2>1, <3>1 DEF StreamInv
    <2> QED
      BY <2>2, <2>3 DEF StreamInv
  <1> QED
    BY <1>3, <1>4, <1>5, <1>9, <1>10 DEF IInv

(* poll() removes a front operation that is over, with its stream. *)
LEMMA PollInv ==
  ASSUME IInv, poll, TypeOK' PROVE IInv'
  <1>1. CASE pollReleased \/ pollWait
    <2>1. UNCHANGED <<ctlVars, appVars, responses, reqVars, ctlPc>>
      BY <1>1 DEF pollReleased, pollWait
    <2>2. OneInFlight' /\ (Live' => OrderInv' /\ StreamInv')
      BY <2>1, QuietStep, LiveStep DEF SameRequestIds, appVars
    <2>3. SenderInv' /\ FreshInv'
      BY <2>1 DEF IInv, SenderInv, FreshInv, ctlVars, appVars, reqVars
    <2> QED
      BY <2>2, <2>3 DEF IInv
  <1>2. CASE pollDead
    <2>1. /\ initialized /\ operations # <<>> /\ operations[1].status \in {"CANCELLED", "ERROR"}
          /\ responses' = IF HasStream(responses, operations[1].id)
                          THEN PopRest(Erase(responses, operations[1].id, 0)) ELSE responses
          /\ remove_front_op
          /\ UNCHANGED <<requests, next_id, req, reqPc, initialized, ctlPc, session, speaking>>
      BY <1>2 DEF pollDead, DeadRest, reqVars
    <2>2. TypeOK /\ Live /\ OrderInv /\ responses \in Seq(Stream(TtsId, Voices, {}))
      BY <2>1, TypeParts DEF IInv, Live, QueueType
    <2>3. ASSUME HasStream(responses, operations[1].id)
          PROVE  /\ Len(responses') = Len(responses) - 1
                 /\ \A i \in 1 .. Len(responses) - 1 :
                      /\ responses'[i].id = responses[i + 1].id
                      /\ responses'[i].type = responses[i + 1].type
      <3> DEFINE id == operations[1].id
                 e == Erase(responses, id, 0)
      <3>1. responses # <<>> /\ responses[1].id = id
        BY <2>1, <2>2, <2>3, FrontStream
      <3>2. /\ e \in Seq(Stream(TtsId, Voices, {})) /\ SameIds(responses, e)
            /\ \A i \in 1 .. Len(responses) :
                 IF responses[i].id = id THEN e[i].type \in {"deleted", "error"}
                                         ELSE e[i] = responses[i]
        BY <2>2, EraseKeeps
      <3>3. Len(responses) \in Nat /\ 1 \in 1 .. Len(responses)
        BY <2>2, <3>1, SeqTail
      <3>4. e # <<>> /\ e[1].type \in {"deleted", "error"}
        BY <3>1, <3>2, <3>3, EmptySeq DEF SameIds
      <3>5. PopType(e) \in {"REMOVED", "ERROR"}
        BY <3>4 DEF PopType, FrontType
      <3>6. PopRest(e) = Tail(e)
        BY <3>2, <3>5, PopRestKeeps
      <3>7. /\ Len(Tail(e)) = Len(e) - 1
            /\ \A i \in 1 .. Len(e) - 1 : Tail(e)[i] = e[i + 1]
        BY <3>2, <3>4, SeqTail
      <3>8. responses' = Tail(e)
        BY <2>1, <2>3, <3>6
      <3> HIDE DEF e
      <3>9. ASSUME NEW i \in 1 .. Len(responses) - 1
            PROVE  /\ responses'[i].id = responses[i + 1].id
                   /\ responses'[i].type = responses[i + 1].type
        <4>1. i + 1 \in 1 .. Len(responses) /\ 1 \in 1 .. (i + 1) - 1
          BY <3>3
        <4>2. responses[1].id < responses[i + 1].id /\ id \in Nat
          <5>1. 1 \in 1 .. Len(operations)
            BY <2>1, <2>2, SeqTail DEF TypeOK
          <5> QED
            BY <2>2, <4>1, <5>1, OperationElement DEF OrderInv
        <4>3. e[i + 1] = responses[i + 1]
          BY <3>1, <3>2, <4>1, <4>2
        <4> QED
          BY <3>2, <3>7, <3>8, <4>1, <4>3 DEF SameIds
      <3> QED
        BY <3>2, <3>7, <3>8, <3>9 DEF SameIds
    <2> QED
      BY <2>1, <2>2, <2>3, FrontRemoved
  <1>3. CASE pollItem
    <2>1. /\ initialized /\ operations # <<>>
          /\ operations[1].status \notin {"CANCELLED", "ERROR"}
          /\ PopType(responses) # "EMPTY" /\ responses' = PopRest(responses)
          /\ UNCHANGED <<requests, next_id, req, reqPc, initialized, ctlPc, session, speaking>>
      BY <1>3 DEF pollItem, reqVars
    <2>2. TypeOK /\ Live /\ OrderInv /\ StreamInv /\ responses \in Seq(Stream(TtsId, Voices, {}))
      BY <2>1, TypeParts DEF IInv, Live, QueueType
    <2>3. responses # <<>> /\ PopType(responses) = FrontType(responses[1])
      BY <2>1 DEF PopType
    <2>4. /\ responses[1].id = operations[1].id
          /\ responses[1].type \in {"uncompleted", "completed"}
          /\ operations[1].status \in {"STREAMING", "END"}
      BY <2>1, <2>2, <2>3, FrontItem
    <2>5. /\ PopType(responses) \in {"START", "DATA", "END"}
          /\ PopType(responses) = "END" => responses[1].type = "completed"
      BY <2>1, <2>3, <2>4 DEF FrontType
    <2>6. CASE PopType(responses) = "END"
      <3>1. 1 \in 1 .. Len(operations) /\ 1 \in 1 .. Len(responses)
        BY <2>1, <2>2, <2>3, SeqTail DEF TypeOK
      <3>2. operations[1].status # "STREAMING"
        <4>1. operations[1].status = "STREAMING" => responses[1].type = "uncompleted"
          BY <2>2, <2>4, <3>1 DEF StreamInv
        <4> QED
          BY <2>5, <2>6, <4>1
      <3>3. remove_front_op
        BY <1>3, <2>6, EndItem DEF pollItem
      <3>4. responses' = Tail(responses)
        BY <2>1, <2>2, <2>6, PopRestKeeps
      <3>5. /\ Len(responses') = Len(responses) - 1
            /\ \A i \in 1 .. Len(responses) - 1 : responses'[i] = responses[i + 1]
        BY <2>2, <2>3, <3>4, SeqTail
      <3>6. HasStream(responses, operations[1].id)
        BY <2>4, <3>1 DEF HasStream
      <3> QED
        BY <2>1, <2>2, <2>4, <3>2, <3>3, <3>5, <3>6, FrontRemoved
    <2>7. CASE PopType(responses) # "END"
      <3>1. UNCHANGED ctlVars
        BY <1>3, <2>5, <2>7 DEF pollItem, PopItem
      <3>2. SameIds(responses, responses')
            /\ \A i \in 1 .. Len(responses) : responses'[i].type = responses[i].type
        BY <2>1, <2>2, <2>5, <2>7, PopRestKeeps
      <3>3. OneInFlight'
        BY <3>1 DEF IInv, OneInFlight, ctlVars
      <3>4. SenderInv' /\ FreshInv'
        BY <2>1, <3>1 DEF IInv, SenderInv, FreshInv, ctlVars
      <3>5. OrderInv'
        <4>1. \A i \in 1 .. Len(responses) : \A j \in 1 .. i - 1 : j \in 1 .. Len(responses)
          BY <2>2, SeqElement
        <4> QED
          BY <2>1, <2>2, <3>1, <3>2, <4>1 DEF OrderInv, SameIds, ctlVars
      <3>6. \A id : HasStream(responses', id) <=> HasStream(responses, id)
        BY <3>2 DEF HasStream, SameIds
      <3>7. StreamInv'
        <4>1. operations' = operations /\ Len(responses') = Len(responses)
          BY <3>1, <3>2 DEF ctlVars, SameIds
        <4>2. \A i \in 1 .. Len(operations) :
                /\ operations[i].status = "START" => ~HasStream(responses', operations[i].id)
                /\ operations[i].status \in {"STREAMING", "END"} =>
                     HasStream(responses', operations[i].id)
          BY <2>2, <3>6 DEF StreamInv
        <4>3. ASSUME NEW k \in 1 .. Len(responses)
              PROVE  /\ responses'[k].type \in {"uncompleted", "completed"}
                     /\ \A i \in 1 .. Len(operations) :
                          operations[i].id = responses'[k].id =>
                            /\ operations[i].status = "STREAMING" =>
                                 responses'[k].type = "uncompleted"
                            /\ operations[i].status = "END" => responses'[k].type = "completed"
          BY <2>2, <3>2 DEF StreamInv, SameIds
        <4> QED
          BY <4>1, <4>2, <4>3 DEF StreamInv
      <3> QED
        BY <3>3, <3>4, <3>5, <3>7 DEF IInv
    <2> QED
      BY <2>6, <2>7
  <1> QED
    BY <1>1, <1>2, <1>3 DEF poll

(* Nothing but a refresh or the clock touched the operations. *)
LEMMA SameStatuses ==
  ASSUME IInv, SameOpIds, current' = current,
         \A i \in 1 .. Len(operations) : operations'[i].status = operations[i].status,
         UNCHANGED <<requests, responses, next_id>>, Live' => Live
  PROVE  OneInFlight' /\ (Live' => OrderInv' /\ StreamInv')
  <1>1. OneInFlight'
    BY DEF IInv, OneInFlight, SameOpIds
  <1>2. SameRequestIds /\ responses' = responses /\ next_id' = next_id
    BY DEF SameRequestIds
  <1> QED
    BY <1>1, <1>2, Statuses DEF IInv

(* The current operation fails. *)
LEMMA ErrorStep ==
  ASSUME IInv, NEW err \in Errors, set_op_error(err),
         UNCHANGED <<requests, responses, next_id>>, Live' => Live
  PROVE  /\ OneInFlight' /\ (Live' => OrderInv' /\ StreamInv')
         /\ current' = 0 /\ op_cond' = (op_cond /\ current = 0)
  <1>1. OpType(TtsId, Errors)
    BY TypeParts DEF IInv
  <1>2. /\ SameOpIds /\ current' = 0
        /\ \A i \in 1 .. Len(operations) :
             operations'[i].status = IF i = current THEN "ERROR" ELSE operations[i].status
        /\ op_cond' = (op_cond /\ current = 0)
    BY <1>1, SetErrorKeeps
  <1>3. OneInFlight'
    <2>1. ASSUME NEW i \in 1 .. Len(operations)
          PROVE  ~(operations'[i].status \in {"START", "STREAMING"})
      <3>1. operations[i].status \in {"START", "STREAMING"} <=> current = i
        BY DEF IInv, OneInFlight
      <3>2. CASE i = current
        BY <1>2, <3>2
      <3>3. CASE i # current
        BY <1>2, <3>1, <3>3
      <3> QED
        BY <3>2, <3>3
    <2> QED
      BY <1>2, <2>1 DEF OneInFlight, SameOpIds
  <1>4. SameRequestIds /\ responses' = responses /\ next_id' = next_id
    BY DEF SameRequestIds
  <1>5. \A i \in 1 .. Len(operations) :
          operations'[i].status \in {operations[i].status, "CANCELLED", "ERROR"}
    BY <1>2
  <1> QED
    BY <1>2, <1>3, <1>4, <1>5, Statuses DEF IInv

(* The sending thread; a spurious wakeup of op_cond_ would break it.       *)
LEMMA SendInv ==
  ASSUME IInv, "spurious" \notin Faults, send_reqs, TypeOK' PROVE IInv'
  <1>0. session # 0
    BY DEF IInv, FreshInv, send_reqs, sendQuit, sendWait, sendTake, sendDone, sendLost,
           sendFails, sendRefresh, sendWaitOp, sendAwake
  <1>1. session' = session /\ UNCHANGED <<initialized, ctlPc, next_id, speaking>>
    BY DEF send_reqs, sendQuit, sendWait, sendTake, sendDone, sendLost, sendFails,
           sendRefresh, sendWaitOp, sendAwake, appVars
  <1>2. FreshInv'
    BY <1>0, <1>1 DEF FreshInv
  <1>3. (Live' => Live) /\ TypeOK /\ OpType(TtsId, Errors)
    BY <1>1, LiveStep, TypeParts DEF IInv
  <1>4. CASE sendQuit \/ sendWait \/ sendDone \/ sendLost \/ sendWaitOp \/ sendAwake
    <2>1. UNCHANGED <<operations, current, appVars, responses>>
      BY <1>4 DEF sendQuit, sendWait, sendDone, sendLost, sendWaitOp, sendAwake, ctlVars
    <2>2. OneInFlight'
      BY <2>1 DEF IInv, OneInFlight
    <2>3. Live' => OrderInv' /\ StreamInv'
      <3>1. /\ SameOpIds /\ SameRequestIds /\ responses' = responses /\ next_id' = next_id
            /\ \A i \in 1 .. Len(operations) : operations'[i].status = operations[i].status
        BY <2>1 DEF SameOpIds, SameRequestIds, appVars
      <3> QED
        BY <1>3, <3>1, Statuses DEF IInv
    <2>4. SenderInv'
      <3>1. CASE sendQuit \/ sendWait \/ sendDone \/ sendLost
        BY <1>1, <2>1, <3>1 DEF IInv, SenderInv, sendQuit, sendWait, sendDone, sendLost, ctlVars
      <3>2. CASE sendWaitOp
        <4>1. ~IsCurrent(req) => current = 0
          BY <3>2 DEF IInv, SenderInv, IsCurrent
        <4> QED
          BY <1>1, <2>1, <3>2, <4>1 DEF IInv, SenderInv, sendWaitOp, IsCurrent
      <3>3. CASE sendAwake
        <4>1. current = 0
          BY <3>3 DEF IInv, SenderInv, sendAwake
        <4> QED
          BY <1>1, <2>1, <3>3, <4>1 DEF IInv, SenderInv, sendAwake
      <3> QED
        BY <1>4, <3>1, <3>2, <3>3
    <2> QED
      BY <1>2, <2>2, <2>3, <2>4 DEF IInv
  <1>5. CASE sendFails
    <2>1. /\ set_op_error("SERVICE_UNAVAILABLE") /\ reqPc = "send" /\ reqPc' = "top"
          /\ UNCHANGED <<appVars, responses>>
      BY <1>5 DEF sendFails
    <2>2. OneInFlight' /\ (Live' => OrderInv' /\ StreamInv') /\ current' = 0
          /\ op_cond' = (op_cond /\ current = 0)
      BY <1>3, <2>1, ErrorStep DEF Errors, appVars
    <2>3. SenderInv'
      BY <1>1, <2>1, <2>2 DEF IInv, SenderInv, TypeOK
    <2> QED
      BY <1>2, <2>2, <2>3 DEF IInv
  <1>6. CASE sendRefresh
    <2>1. /\ SameOpIds /\ current' = current /\ op_cond' = op_cond
          /\ \A i \in 1 .. Len(operations) : operations'[i].status = operations[i].status
      BY <1>3, <1>6, RefreshKeeps DEF sendRefresh
    <2>2. UNCHANGED <<appVars, responses, req>> /\ reqPc = "sent" /\ reqPc' = "waitOp"
      BY <1>6 DEF sendRefresh
    <2>3. OneInFlight' /\ (Live' => OrderInv' /\ StreamInv')
      BY <1>3, <2>1, <2>2, SameStatuses DEF appVars
    <2>4. SenderInv'
      BY <1>1, <1>3, <2>1, <2>2 DEF IInv, SenderInv, SameOpIds, OpType
    <2> QED
      BY <1>2, <2>3, <2>4 DEF IInv
  <1>7. CASE sendTake
    <2> DEFINE r == requests[1]
               status == IF r.deleted THEN "CANCELLED" ELSE "START"
               n == Len(operations)
    <2>1. /\ initialized /\ reqPc = "top" /\ requests # <<>> /\ requests' = Tail(requests)
          /\ new_op(r.id, status) /\ responses' = responses
      BY <1>7 DEF sendTake
    <2>2. current = 0 /\ op_cond = FALSE
      BY <1>3, <2>1 DEF IInv, SenderInv, OpType
    <2>3. Live /\ OrderInv /\ StreamInv
      BY <2>1 DEF IInv, Live
    <2>4. /\ Len(requests) \in Nat \ {0} /\ Len(requests') = Len(requests) - 1
          /\ \A i \in 1 .. Len(requests) - 1 : requests'[i] = requests[i + 1]
          /\ r.id \in TtsId /\ 1 \in 1 .. Len(requests)
      <3>1. requests \in Seq([id : TtsId, deleted : BOOLEAN])
        BY <1>3 DEF TypeOK
      <3>2. 1 \in 1 .. Len(requests)
        BY <2>1, <3>1, SeqTail
      <3> QED
        BY <1>3, <2>1, <3>1, <3>2, SeqTail, RequestElement
    <2>5. /\ n \in Nat /\ Len(operations') = n + 1
          /\ \A i \in 1 .. n : operations'[i] = operations[i]
          /\ operations'[n + 1].id = r.id /\ operations'[n + 1].status = status
          /\ current' = IF status = "START" THEN n + 1 ELSE 0
          /\ op_cond' = FALSE
      <3>1. status \in Status
        BY DEF Status
      <3>2. n \in Nat
        BY <1>3, SeqElement DEF OpType
      <3> QED
        BY <1>3, <2>1, <2>2, <2>4, <3>1, <3>2, NewOpKeeps
    <2>6. status \in {"CANCELLED", "START"}
      OBVIOUS
    <2>7. reqPc' = IF status = "START" THEN "send" ELSE "top"
      BY <1>7 DEF sendTake, reqVars
    <2>8. status = "START" => req' = r.id
      BY <1>7 DEF sendTake
    <2> HIDE DEF status
    <2>9. OneInFlight'
      <3>1. ASSUME NEW i \in 1 .. n
            PROVE  operations'[i].status \in {"START", "STREAMING"} <=> current' = i
        <4>1. ~(operations[i].status \in {"START", "STREAMING"})
          BY <2>2 DEF IInv, OneInFlight
        <4> QED
          BY <2>5, <4>1
      <3>2. operations'[n + 1].status \in {"START", "STREAMING"} <=> current' = n + 1
        BY <2>5, <2>6
      <3> QED
        BY <2>5, <3>1, <3>2 DEF OneInFlight
    <2>10. SenderInv'
      BY <1>1, <2>1, <2>5, <2>7, <2>8 DEF IInv, SenderInv
    <2>11. \A i \in 1 .. n : operations[i].id < r.id
      BY <2>3, <2>4 DEF OrderInv
    <2>12. OrderInv'
      <3>1. \A i \in 1 .. Len(requests') :
              /\ requests'[i].id <= next_id' /\ r.id < requests'[i].id
              /\ \A j \in 1 .. i - 1 : requests'[j].id < requests'[i].id
        <4> TAKE i \in 1 .. Len(requests')
        <4>1. i + 1 \in 1 .. Len(requests) /\ requests'[i] = requests[i + 1]
              /\ 1 \in 1 .. (i + 1) - 1
          BY <2>4
        <4>2. \A j \in 1 .. i - 1 : requests'[j] = requests[j + 1] /\ j + 1 \in 1 .. (i + 1) - 1
          BY <2>4
        <4> QED
          BY <1>1, <2>3, <4>1, <4>2 DEF OrderInv
      <3>2. \A i \in 1 .. Len(operations') :
              /\ operations'[i].id <= next_id'
              /\ \A j \in 1 .. i - 1 : operations'[j].id < operations'[i].id
              /\ \A j \in 1 .. Len(requests') : operations'[i].id < requests'[j].id
        <4> TAKE i \in 1 .. Len(operations')
        <4>1. CASE i = n + 1
          <5>1. r.id <= next_id
            BY <2>3, <2>4 DEF OrderInv
          <5> QED
            BY <1>1, <2>5, <2>11, <3>1, <4>1, <5>1
        <4>2. CASE i \in 1 .. n
          <5>1. \A j \in 1 .. Len(requests') :
                  j + 1 \in 1 .. Len(requests) /\ requests'[j] = requests[j + 1]
            BY <2>4
          <5>2. \A j \in 1 .. i - 1 : operations'[j] = operations[j]
            BY <2>5, <4>2
          <5>3. operations'[i] = operations[i]
            BY <2>5, <4>2
          <5> QED
            BY <1>1, <2>3, <4>2, <5>1, <5>2, <5>3 DEF OrderInv
        <4> QED
          BY <2>5, <4>1, <4>2
      <3>3. \A i \in 1 .. Len(responses') :
              /\ \A j \in 1 .. i - 1 : responses'[j].id < responses'[i].id
              /\ \E k \in 1 .. Len(operations') : operations'[k].id = responses'[i].id
        <4> TAKE i \in 1 .. Len(responses')
        <4>1. PICK k \in 1 .. n : operations[k].id = responses[i].id
          BY <2>1, <2>3 DEF OrderInv
        <4>2. k \in 1 .. Len(operations') /\ operations'[k].id = responses'[i].id
          BY <2>1, <2>5, <4>1
        <4> QED
          BY <2>1, <2>3, <4>2 DEF OrderInv
      <3> QED
        BY <3>1, <3>2, <3>3 DEF OrderInv
    <2>13. ~HasStream(responses, r.id)
      <3> SUFFICES ASSUME NEW k \in 1 .. Len(responses), responses[k].id = r.id PROVE FALSE
        BY DEF HasStream
      <3>1. PICK m \in 1 .. n : operations[m].id = responses[k].id
        BY <2>3 DEF OrderInv
      <3>2. r.id \in Nat
        BY <2>4, TtsAssumption DEF TtsId
      <3> QED
        BY <2>11, <3>1, <3>2
    <2>14. StreamInv'
      <3>1. \A i \in 1 .. Len(operations') :
              /\ operations'[i].status = "START" => ~HasStream(responses', operations'[i].id)
              /\ operations'[i].status \in {"STREAMING", "END"} =>
                   HasStream(responses', operations'[i].id)
        <4> TAKE i \in 1 .. Len(operations')
        <4>1. CASE i = n + 1
          BY <2>1, <2>5, <2>6, <2>13, <4>1
        <4>2. CASE i \in 1 .. n
          BY <2>1, <2>3, <2>5, <4>2 DEF StreamInv
        <4> QED
          BY <2>5, <4>1, <4>2
      <3>2. ASSUME NEW k \in 1 .. Len(responses')
            PROVE  /\ responses'[k].type \in {"uncompleted", "completed"}
                   /\ \A i \in 1 .. Len(operations') :
                        operations'[i].id = responses'[k].id =>
                          /\ operations'[i].status = "STREAMING" =>
                               responses'[k].type = "uncompleted"
                          /\ operations'[i].status = "END" => responses'[k].type = "completed"
        <4>1. responses' = responses /\ k \in 1 .. Len(responses)
          BY <2>1
        <4>2. responses[k].id # r.id
          BY <2>13, <4>1 DEF HasStream
        <4>3. ASSUME NEW i \in 1 .. Len(operations'), operations'[i].id = responses'[k].id
              PROVE  i \in 1 .. n /\ operations'[i] = operations[i]
          BY <2>5, <4>1, <4>2, <4>3
        <4> QED
          BY <2>3, <4>1, <4>3 DEF StreamInv
      <3> QED
        BY <3>1, <3>2 DEF StreamInv
    <2> QED
      BY <1>2, <2>9, <2>10, <2>12, <2>14 DEF IInv
  <1> QED
    BY <1>4, <1>5, <1>6, <1>7 DEF send_reqs

(* An answer opens, fills and completes the stream of the last operation,  *)
(* so that the streams stay in the order of the operations.                *)
LEMMA AnswerInv ==
  ASSUME IInv, rx.kind = "data", IsCurrent(rx.id), Answer(rx), TypeOK',
         UNCHANGED <<appVars, reqVars, ctlPc>>
  PROVE  IInv'
  <1> DEFINE id      == rx.id
             op      == operations[current]
             started == IF op.status = "START" THEN Start(responses, id) ELSE responses
             voiced  == IF rx.voice # NoVoice THEN Put(started, id, rx.voice) ELSE started
             T       == Seq(Stream(TtsId, Voices, {}))
             n       == Len(responses)
  <1>0. TypeOK /\ OpType(TtsId, Errors) /\ responses \in T /\ n \in Nat /\ Len(operations) \in Nat
    BY TypeParts, SeqElement DEF IInv, QueueType, OpType
  <1>1. /\ current # 0 /\ op.id = id /\ current \in 1 .. Len(operations)
        /\ current = Len(operations) /\ req = id
        /\ reqPc \in {"send", "sent", "waitOp", "inOp"}
    BY <1>0 DEF IInv, SenderInv, IsCurrent, OpType
  <1>2. id \in TtsId /\ id \in Nat /\ op.status \in {"START", "STREAMING"}
    BY <1>0, <1>1, OperationElement DEF IInv, OneInFlight
  <1>3. Live /\ session # 0
    <2>1. session # 0
      BY <1>1 DEF IInv, FreshInv
    <2>2. ~(~initialized /\ ctlPc \in {"idle", "joinResp"})
      BY <1>1 DEF IInv, SenderInv
    <2> QED
      BY <1>0, <2>1, <2>2 DEF Live, TypeOK
  <1>4. OrderInv /\ StreamInv
    BY <1>3 DEF IInv
  <1>5. rx.finish \in BOOLEAN /\ (rx.voice # NoVoice => rx.voice \in Voices)
    BY <1>0, TtsAssumption DEF TypeOK, Response, NoVoice, Voices
  <1>6. /\ SameOpIds
        /\ \A i \in 1 .. Len(operations) : i # current => operations'[i] = operations[i]
        /\ operations'[current].status =
             IF rx.finish THEN Finished("END")
             ELSE IF operations[current].status = "START" THEN "STREAMING"
             ELSE operations[current].status
        /\ current' = IF rx.finish THEN 0 ELSE current
        /\ op_cond' = (op_cond /\ ~rx.finish)
    BY <1>0, <1>2, AnswerKeeps
  <1>7. /\ operations'[current].status = IF rx.finish THEN "END" ELSE "STREAMING"
        /\ Len(operations') = Len(operations)
        /\ \A i \in 1 .. Len(operations) : operations'[i].id = operations[i].id
    BY <1>2, <1>6 DEF Finished, SameOpIds
  <1>8. OneInFlight'
    <2>1. ASSUME NEW i \in 1 .. Len(operations)
          PROVE  operations'[i].status \in {"START", "STREAMING"} <=> current' = i
      <3>1. operations[i].status \in {"START", "STREAMING"} <=> current = i
        BY DEF IInv, OneInFlight
      <3>2. CASE i = current
        BY <1>6, <1>7, <3>2
      <3>3. CASE i # current
        BY <1>6, <3>1, <3>3
      <3> QED
        BY <3>2, <3>3
    <2> QED
      BY <1>7, <2>1 DEF OneInFlight
  <1>9. SenderInv'
    <2>1. UNCHANGED <<initialized, ctlPc, session, req, reqPc>>
      BY DEF appVars, reqVars
    <2>2. /\ op_cond' => reqPc' = "inOp"
          /\ reqPc' = "inOp" /\ ~op_cond' => current' = 0
      BY <1>5, <1>6, <2>1 DEF IInv, SenderInv
    <2>3. current' # 0 => /\ reqPc' \in {"send", "sent", "waitOp", "inOp"}
                          /\ operations'[current'].id = req' /\ current' = Len(operations')
      BY <1>1, <1>6, <1>7, <2>1
    <2> QED
      BY <2>1, <2>2, <2>3 DEF IInv, SenderInv
  <1>10. FreshInv'
    BY <1>3 DEF FreshInv, appVars
  (* The streams: those there were, and the current operation's, last.     *)
  <1>11. ASSUME NEW i \in 1 .. n PROVE responses[i].id \in Nat /\ responses[i].id <= id
    <2>1. PICK k \in 1 .. Len(operations) : operations[k].id = responses[i].id
      BY <1>4 DEF OrderInv
    <2>2. operations[k].id \in Nat
      BY <1>0, OperationElement
    <2>3. k # current => operations[k].id < operations[current].id
      BY <1>1, <1>4 DEF OrderInv
    <2> QED
      BY <1>1, <1>2, <2>1, <2>2, <2>3
  <1>12. /\ started \in T /\ HasStream(started, id)
         /\ Len(started) \in {n, n + 1}
         /\ \A i \in 1 .. n : started[i].id = responses[i].id /\ started[i].type = responses[i].type
         /\ Len(started) = n + 1 => /\ started[n + 1].id = id
                                    /\ \A i \in 1 .. n : responses[i].id < id
         /\ \A i \in 1 .. Len(started) : started[i].id = id => started[i].type = "uncompleted"
    <2>1. CASE op.status = "START"
      <3>1. ~HasStream(responses, id)
        BY <1>1, <1>4, <2>1 DEF StreamInv
      <3>2. started = Append(responses, NewStream(id)) /\ started \in T
        BY <1>0, <1>2, <2>1, <3>1, StartKeeps
      <3>3. NewStream(id).id = id /\ NewStream(id).type = "uncompleted"
        BY DEF NewStream
      <3>4. /\ Len(started) = n + 1 /\ started[n + 1] = NewStream(id)
            /\ \A i \in 1 .. n : started[i] = responses[i]
        BY <1>0, <3>2
      <3>5. \A i \in 1 .. n : responses[i].id < id
        BY <1>2, <1>11, <3>1 DEF HasStream
      <3>6. HasStream(started, id)
        BY <1>0, <3>3, <3>4 DEF HasStream
      <3> HIDE DEF started
      <3> QED
        BY <1>0, <3>2, <3>3, <3>4, <3>5, <3>6, <1>2
    <2>2. CASE op.status = "STREAMING"
      <3>1. HasStream(responses, id)
        BY <1>1, <1>4, <2>2 DEF StreamInv
      <3>2. \A i \in 1 .. n : responses[i].id = id => responses[i].type = "uncompleted"
        BY <1>1, <1>4, <2>2 DEF StreamInv
      <3>3. started = responses
        BY <2>2
      <3> QED
        BY <1>0, <3>1, <3>2, <3>3
    <2> QED
      BY <1>2, <2>1, <2>2
  <1> HIDE DEF started
  <1>13. /\ voiced \in T /\ SameIds(started, voiced)
         /\ \A i \in 1 .. Len(started) : voiced[i].type = started[i].type
    BY <1>5, <1>12, PutKeeps DEF SameIds
  <1> HIDE DEF voiced
  <1>14. responses' = IF rx.finish THEN End(voiced, id, NoData) ELSE voiced
    BY DEF Answer, Voiced, voiced, started
  <1>15. /\ Len(responses') = Len(started)
         /\ \A i \in 1 .. Len(started) :
              /\ responses'[i].id = started[i].id
              /\ responses'[i].type = IF rx.finish /\ started[i].id = id THEN "completed"
                                      ELSE started[i].type
    <2>1. CASE rx.finish
      <3>1. /\ SameIds(voiced, End(voiced, id, NoData))
            /\ \A i \in 1 .. Len(voiced) :
                 End(voiced, id, NoData)[i].type = IF voiced[i].id = id THEN "completed"
                                                   ELSE voiced[i].type
        BY <1>13, EndKeeps
      <3> QED
        BY <1>13, <1>14, <2>1, <3>1 DEF SameIds
    <2>2. CASE ~rx.finish
      BY <1>13, <1>14, <2>2 DEF SameIds
    <2> QED
      BY <2>1, <2>2
  <1>16. OrderInv'
    <2>1. \A i \in 1 .. Len(responses') :
            /\ \A j \in 1 .. i - 1 : responses'[j].id < responses'[i].id
            /\ \E k \in 1 .. Len(operations') : operations'[k].id = responses'[i].id
      <3> TAKE i \in 1 .. Len(responses')
      <3>1. responses'[i].id = started[i].id
            /\ \A j \in 1 .. i - 1 : j \in 1 .. n /\ responses'[j].id = responses[j].id
        BY <1>0, <1>12, <1>15
      <3>2. CASE i \in 1 .. n
        <4>1. started[i].id = responses[i].id
          BY <1>12, <3>2
        <4>2. \A j \in 1 .. i - 1 : responses[j].id < responses[i].id
          BY <1>4, <3>2 DEF OrderInv
        <4>3. PICK k \in 1 .. Len(operations) : operations[k].id = responses[i].id
          BY <1>4, <3>2 DEF OrderInv
        <4>4. k \in 1 .. Len(operations') /\ operations'[k].id = responses'[i].id
          BY <1>7, <3>1, <4>1, <4>3
        <4> QED
          BY <3>1, <4>1, <4>2, <4>4
      <3>3. CASE i = n + 1
        <4>1. started[i].id = id /\ \A j \in 1 .. n : responses[j].id < id
          BY <1>0, <1>12, <1>15, <3>3
        <4>2. current \in 1 .. Len(operations') /\ operations'[current].id = id
          BY <1>1, <1>7
        <4> QED
          BY <3>1, <4>1, <4>2
      <3> QED
        BY <1>0, <1>12, <1>15, <3>2, <3>3
    <2>2. UNCHANGED <<requests, next_id>>
      BY DEF appVars
    <2>3. \A i \in 1 .. Len(operations') :
            /\ operations'[i].id <= next_id'
            /\ \A j \in 1 .. i - 1 : operations'[j].id < operations'[i].id
            /\ \A j \in 1 .. Len(requests') : operations'[i].id < requests'[j].id
      <3> TAKE i \in 1 .. Len(operations')
      <3>1. \A j \in 1 .. i - 1 : j \in 1 .. Len(operations)
        BY <1>0, <1>7
      <3> QED
        BY <1>4, <1>7, <2>2, <3>1 DEF OrderInv
    <2>4. \A i \in 1 .. Len(requests') :
            /\ requests'[i].id <= next_id'
            /\ \A j \in 1 .. i - 1 : requests'[j].id < requests'[i].id
      BY <1>4, <2>2 DEF OrderInv
    <2> QED
      BY <2>1, <2>3, <2>4 DEF OrderInv
  <1>17. StreamInv'
    <2>1. ASSUME NEW i \in 1 .. Len(operations), i # current
          PROVE  /\ operations'[i] = operations[i] /\ operations[i].id # id
                 /\ HasStream(responses', operations[i].id) <=>
                      HasStream(responses, operations[i].id)
      <3>1. operations'[i] = operations[i]
        BY <1>6, <2>1
      <3>2. operations[i].id # id
        BY <1>0, <1>1, <1>4, <2>1, DistinctIds
      <3>3. ASSUME NEW k \in 1 .. Len(responses'), responses'[k].id = operations[i].id
            PROVE  HasStream(responses, operations[i].id)
        <4>1. k \in 1 .. n /\ responses[k].id = operations[i].id
          BY <1>0, <1>12, <1>15, <3>2, <3>3
        <4> QED
          BY <4>1 DEF HasStream
      <3>4. ASSUME NEW k \in 1 .. n, responses[k].id = operations[i].id
            PROVE  HasStream(responses', operations[i].id)
        <4>1. k \in 1 .. Len(responses') /\ responses'[k].id = operations[i].id
          BY <1>0, <1>12, <1>15, <3>4
        <4> QED
          BY <4>1 DEF HasStream
      <3> QED
        BY <3>1, <3>2, <3>3, <3>4 DEF HasStream
    <2>2. HasStream(responses', id)
      BY <1>12, <1>15 DEF HasStream
    <2>3. \A i \in 1 .. Len(operations') :
            /\ operations'[i].status = "START" => ~HasStream(responses', operations'[i].id)
            /\ operations'[i].status \in {"STREAMING", "END"} =>
                 HasStream(responses', operations'[i].id)
      <3> TAKE i \in 1 .. Len(operations')
      <3>1. CASE i = current
        BY <1>1, <1>7, <2>2, <3>1
      <3>2. CASE i # current
        <4>1. i \in 1 .. Len(operations)
          BY <1>7
        <4> QED
          BY <1>4, <2>1, <3>2, <4>1 DEF StreamInv
      <3> QED
        BY <3>1, <3>2
    <2>4. ASSUME NEW k \in 1 .. Len(responses')
          PROVE  /\ responses'[k].type \in {"uncompleted", "completed"}
                 /\ \A i \in 1 .. Len(operations') :
                      operations'[i].id = responses'[k].id =>
                        /\ operations'[i].status = "STREAMING" =>
                             responses'[k].type = "uncompleted"
                        /\ operations'[i].status = "END" => responses'[k].type = "completed"
      <3>1. CASE responses'[k].id = id
        <4>1. responses'[k].type = IF rx.finish THEN "completed" ELSE "uncompleted"
          BY <1>12, <1>15, <3>1
        <4>2. ASSUME NEW i \in 1 .. Len(operations'), operations'[i].id = id
              PROVE  operations'[i].status = IF rx.finish THEN "END" ELSE "STREAMING"
          <5>1. i = current
            BY <1>7, <2>1, <4>2
          <5> QED
            BY <1>7, <5>1
        <4> QED
          BY <3>1, <4>1, <4>2
      <3>2. CASE responses'[k].id # id
        <4>1. /\ k \in 1 .. n /\ responses'[k].id = responses[k].id
              /\ responses'[k].type = responses[k].type
          BY <1>0, <1>12, <1>15, <3>2
        <4>2. ASSUME NEW i \in 1 .. Len(operations'), operations'[i].id = responses'[k].id
              PROVE  i \in 1 .. Len(operations) /\ operations'[i] = operations[i]
          BY <1>1, <1>7, <2>1, <3>2, <4>2
        <4> QED
          BY <1>4, <4>1, <4>2 DEF StreamInv
      <3> QED
        BY <3>1, <3>2
    <2> QED
      BY <2>3, <2>4 DEF StreamInv
  <1> QED
    BY <1>8, <1>9, <1>10, <1>16, <1>17 DEF IInv

(* Steps that change nothing the invariant speaks of. *)
LEMMA IdleStep ==
  ASSUME IInv, TypeOK', UNCHANGED <<ctlVars, appVars, responses, reqVars, ctlPc>>
  PROVE  IInv'
  <1>1. OneInFlight' /\ (Live' => OrderInv' /\ StreamInv')
    BY QuietStep, LiveStep DEF SameRequestIds, appVars
  <1>2. SenderInv' /\ FreshInv'
    BY DEF IInv, SenderInv, FreshInv, ctlVars, appVars, reqVars
  <1> QED
    BY <1>1, <1>2 DEF IInv

(* An error of the connection, or of the operation's own time. *)
LEMMA FailedInv ==
  ASSUME IInv, TypeOK', NEW err \in Errors, set_op_error(err),
         UNCHANGED <<appVars, responses, reqVars, ctlPc>>
  PROVE  IInv'
  <1>1. /\ OneInFlight' /\ (Live' => OrderInv' /\ StreamInv')
        /\ current' = 0 /\ op_cond' = (op_cond /\ current = 0)
    BY ErrorStep, LiveStep DEF appVars
  <1>2. session = 0 => operations' = <<>>
    BY DEF IInv, FreshInv, set_op_error, ctlVars
  <1>3. SenderInv' /\ FreshInv'
    BY <1>1, <1>2 DEF IInv, SenderInv, FreshInv, appVars, reqVars
  <1> QED
    BY <1>1, <1>3 DEF IInv

(* The current operation is refreshed, or has been idle for too long. *)
LEMMA TouchedInv ==
  ASSUME IInv, TypeOK', UNCHANGED <<appVars, responses, reqVars, ctlPc>>,
         refresh_op_time(TRUE) \/ GrowsIdle
  PROVE  IInv'
  <1>1. /\ SameOpIds /\ current' = current /\ op_cond' = op_cond
        /\ \A i \in 1 .. Len(operations) : operations'[i].status = operations[i].status
    BY TypeParts, RefreshKeeps, GrowsIdleKeeps DEF IInv
  <1>2. OneInFlight' /\ (Live' => OrderInv' /\ StreamInv')
    BY <1>1, SameStatuses, LiveStep DEF appVars
  <1>3. session = 0 => operations' = <<>>
    BY DEF IInv, FreshInv, refresh_op_time, GrowsIdle
  <1>4. FreshInv'
    BY <1>1, <1>3 DEF IInv, FreshInv, appVars, reqVars
  <1>5. current \in 0 .. Len(operations) /\ Len(operations) \in Nat
    BY TypeParts, SeqElement DEF IInv, OpType
  <1>6. SenderInv'
    BY <1>1, <1>5 DEF IInv, SenderInv, SameOpIds, appVars, reqVars
  <1> QED
    BY <1>2, <1>4, <1>6 DEF IInv

(* The receiving thread, all its steps. *)
LEMMA RecvInv ==
  ASSUME IInv, gen_results, TypeOK' PROVE IInv'
  <1>1. CASE genTimeout \/ recvPacket \/ recvWait \/ recvTimer \/ recvNothing
    BY <1>1, IdleStep DEF genTimeout, recvPacket, recvWait, recvTimer, recvNothing
  <1>2. CASE genNothing \/ genError
    <2>1. /\ UNCHANGED <<appVars, responses, reqVars, ctlPc>>
          /\ UNCHANGED ctlVars \/ \E err \in Errors : set_op_error(err)
      BY <1>2 DEF genNothing, genError, Errors
    <2> QED
      BY <2>1, IdleStep, FailedInv
  <1>3. CASE genAnswer
    <2>1. UNCHANGED <<appVars, reqVars, ctlPc>> /\ rx.kind = "data"
      BY <1>3 DEF genAnswer
    <2>2. CASE IsCurrent(rx.id)
      BY <1>3, <2>1, <2>2, AnswerInv DEF genAnswer
    <2>3. CASE ~IsCurrent(rx.id)
      BY <1>3, <2>1, <2>3, TouchedInv DEF genAnswer
    <2> QED
      BY <2>2, <2>3
  <1> QED
    BY <1>1, <1>2, <1>3 DEF gen_results

(* All the steps. *)
LEMMA NextInv ==
  ASSUME MaxSessions <= 1, "spurious" \notin Faults, IInv, [Next]_vars PROVE IInv'
  <1>1. TypeOK'
    BY NextType DEF IInv
  <1>2. CASE UNCHANGED vars
    BY <1>1, <1>2, IdleStep DEF vars, ctlVars, appVars, reqVars
  <1>3. CASE \E i \in TtsId : serverAnswers(i)
    BY <1>1, <1>3, IdleStep DEF serverAnswers
  <1>4. CASE \E k \in {"broken", "badData"} : linkError(k)
    BY <1>1, <1>4, IdleStep DEF linkError
  <1>5. CASE clock
    BY <1>1, <1>5, TouchedInv DEF clock
  <1>6. CASE prepare
    BY <1>1, <1>6, PrepareInv
  <1>7. CASE releaseBegin \/ releaseClose \/ releaseJoinReq \/ releaseJoinResp
    BY <1>1, <1>7, ReleaseInv
  <1>8. CASE \E c \in Callers : speakTest(c) \/ speakQueue(c)
    BY <1>1, <1>8, SpeakInv
  <1>9. CASE \E id \in TtsId \cup {0} : cancel(id)
    BY <1>1, <1>9, CancelInv
  <1>10. CASE poll
    BY <1>1, <1>10, PollInv
  <1>11. CASE send_reqs
    BY <1>1, <1>11, SendInv
  <1>12. CASE gen_results
    BY <1>1, <1>12, RecvInv
  <1> QED
    BY <1>2, <1>3, <1>4, <1>5, <1>6, <1>7, <1>8, <1>9, <1>10, <1>11, <1>12 DEF Next

(* Before the first prepare(). *)
LEMMA InitInv == Init => IInv
  <1> SUFFICES ASSUME Init PROVE IInv
    OBVIOUS
  <1>1. TypeOK
    BY InitType
  <1>2. /\ operations = <<>> /\ current = 0 /\ op_cond = FALSE /\ requests = <<>>
        /\ responses = <<>> /\ initialized = FALSE /\ ctlPc = "idle" /\ reqPc = "dead"
        /\ speaking = {}
    BY DEF Init, CtlInit
  <1>3. Len(operations) = 0
    BY <1>2, EmptySeq
  <1>4. OneInFlight
    BY <1>3 DEF OneInFlight
  <1>5. SenderInv /\ FreshInv /\ ~Live
    BY <1>2 DEF SenderInv, FreshInv, Live
  <1> QED
    BY <1>1, <1>4, <1>5 DEF IInv

(* In one session without spurious wakeups the state keeps the invariant:  *)
(* the operations are numbered in order, only the last may be unfinished,  *)
(* and the streams are those of the operations that have one               *)
(* (tts_impl.cc, op_ctl.h).                                                *)
THEOREM Invariance ==
  ASSUME MaxSessions <= 1, "spurious" \notin Faults
  PROVE  Spec => []IInv
  <1>1. Init => IInv
    BY InitInv
  <1>2. IInv /\ [Next]_vars => IInv'
    BY NextInv
  <1> QED
    BY <1>1, <1>2, PTL DEF Spec

(* The sending thread never starts a request while another is unfinished   *)
(* (op_ctl.h:59-66, tts_impl.cc:270-289): what IInv adds is that the       *)
(* current operation is the last one, and the one the thread waits for.    *)
THEOREM OneAtATime ==
  ASSUME MaxSessions <= 1, "spurious" \notin Faults
  PROVE  Spec => []OneInFlight
  <1>1. IInv => OneInFlight
    BY DEF IInv
  <1> QED
    BY <1>1, Invariance, PTL

(* The asserts of poll() (tts_impl.cc:154,197,210,221) never fail: the     *)
(* ids of requests, operations and streams increase, each stream belongs   *)
(* to an operation, and each operation that got an answer has its stream.  *)
THEOREM PollNeverAsserts ==
  ASSUME MaxSessions <= 1, "spurious" \notin Faults
  PROVE  Spec => []PollAsserts
  <1>1. IInv => PollAsserts
    <2> SUFFICES ASSUME IInv, initialized, operations # <<>> PROVE PollAsserts
      BY DEF PollAsserts
    <2>1. Live /\ TypeOK /\ OrderInv
      BY DEF IInv, Live
    <2>2. CASE operations[1].status \in {"CANCELLED", "ERROR"}
      BY <2>1, <2>2, FrontStream DEF PollAsserts
    <2>3. CASE operations[1].status \notin {"CANCELLED", "ERROR"}
      <3>1. ASSUME PopType(responses) # "EMPTY"
            PROVE  /\ responses[1].id = operations[1].id
                   /\ PopType(responses) \in {"START", "DATA", "END"}
        <4>1. responses # <<>> /\ PopType(responses) = FrontType(responses[1])
          BY <3>1 DEF PopType
        <4>2. /\ responses[1].id = operations[1].id
              /\ responses[1].type \in {"uncompleted", "completed"}
          BY <2>1, <2>3, <4>1, FrontItem
        <4> QED
          BY <3>1, <4>1, <4>2 DEF FrontType
      <3> QED
        BY <2>3, <3>1 DEF PollAsserts
    <2> QED
      BY <2>2, <2>3
  <1> QED
    BY <1>1, Invariance, PTL

-----------------------------------------------------------------------------
(* What becomes of a request: the invariants about heard, dropped and the  *)
(* packets on their way.                                                   *)

(* Requests that may still be heard of. *)
Waiting == QueuedIds \cup OpIds

(* A request is over when it is neither queued nor an operation any more,  *)
(* and only the front operation has been heard of without being over.      *)
LedgerInv ==
  /\ \A i \in TtsId : HasEnded(heard[i]) <=> i <= next_id /\ i \notin Waiting
  /\ \A i \in TtsId : heard[i] # <<>> /\ ~HasEnded(heard[i]) =>
       Len(operations) > 0 /\ operations[1].id = i /\ operations[1].status # "START"

HeardType == heard \in [TtsId -> Seq(Promise!Results)]

(* Steps after which the queues hold the same requests, and operations may *)
(* have been cancelled or failed.                                          *)
Quiet ==
  /\ SameOpIds /\ SameRequestIds /\ UNCHANGED <<responses, heard, next_id>>
  /\ \A i \in 1 .. Len(operations) :
       operations'[i].status \in {operations[i].status, "CANCELLED", "ERROR"}

(* Steps of the threads on other variables. *)
LEMMA QuietIfSame ==
  ASSUME UNCHANGED <<operations, requests, responses, heard, next_id>>
  PROVE  Quiet
  BY DEF Quiet, SameOpIds, SameRequestIds

(* The steps that are not quiet, as long as the SDK is in use. *)
LEMMA QuietSteps ==
  ASSUME IInv, initialized', [Next]_vars
  PROVE  \/ Quiet
         \/ prepare
         \/ \E c \in Callers : speakQueue(c)
         \/ sendTake \/ pollDead \/ pollItem
         \/ genAnswer /\ IsCurrent(rx.id)
  <1>0. TypeOK /\ OpType(TtsId, Errors)
    BY TypeParts DEF IInv
  <1>1. CASE UNCHANGED vars
    BY <1>1, QuietIfSame DEF vars
  <1>2. CASE (\E i \in TtsId : serverAnswers(i)) \/ (\E k \in {"broken", "badData"} : linkError(k))
    <2>1. UNCHANGED <<ctlVars, appVars, responses, pollVars>>
      BY <1>2 DEF serverAnswers, linkError
    <2> QED
      BY <2>1, QuietIfSame DEF ctlVars, appVars, pollVars
  <1>3. CASE clock
    <2>1. SameOpIds /\ \A i \in 1 .. Len(operations) : operations'[i].status = operations[i].status
      BY <1>0, <1>3, GrowsIdleKeeps DEF clock
    <2>2. UNCHANGED <<requests, responses, heard, next_id>>
      BY <1>3 DEF clock, appVars, pollVars
    <2> QED
      BY <2>1, <2>2 DEF Quiet, SameRequestIds
  <1>4. CASE releaseBegin \/ releaseClose \/ releaseJoinReq \/ releaseJoinResp
    <2>1. ~initialized'
      <3>1. ctlPc # "idle" => ~initialized
        BY DEF IInv, SenderInv
      <3> QED
        BY <1>4, <3>1 DEF releaseBegin, releaseClose, releaseJoinReq, releaseJoinResp, appVars
    <2> QED
      BY <2>1
  <1>5. CASE \E c \in Callers : speakTest(c)
    BY <1>5, QuietIfSame DEF speakTest, ctlVars, pollVars
  <1>6. CASE \E id \in TtsId \cup {0} : cancel(id)
    <2> PICK id \in TtsId \cup {0} : cancel(id)
      BY <1>6
    <2>1. SameRequestIds
      BY <1>0, CancelRequests DEF SameRequestIds
    <2>2. UNCHANGED <<responses, heard, next_id>>
      BY DEF cancel
    <2>3. CASE cancel_op(id)
      BY <1>0, <2>1, <2>2, <2>3, CancelKeeps DEF Quiet
    <2>4. CASE UNCHANGED ctlVars
      BY <2>1, <2>2, <2>4 DEF Quiet, ctlVars, SameOpIds
    <2> QED
      BY <2>3, <2>4 DEF cancel
  <1>7. CASE poll
    <2>1. CASE pollReleased \/ pollWait
      BY <2>1, QuietIfSame DEF pollReleased, pollWait, ctlVars, appVars
    <2> QED
      BY <1>7, <2>1 DEF poll
  <1>8. CASE send_reqs
    <2>1. CASE sendQuit \/ sendWait \/ sendDone \/ sendLost \/ sendWaitOp \/ sendAwake
      BY <2>1, QuietIfSame DEF sendQuit, sendWait, sendDone, sendLost, sendWaitOp, sendAwake,
                               ctlVars, appVars, pollVars
    <2>2. CASE sendFails
      <3>1. set_op_error("SERVICE_UNAVAILABLE") /\ UNCHANGED <<requests, responses, heard, next_id>>
        BY <2>2 DEF sendFails, appVars
      <3> QED
        BY <1>0, <3>1, SetErrorKeeps DEF Quiet, Errors, SameRequestIds
    <2>3. CASE sendRefresh
      <3>1. UNCHANGED <<requests, responses, heard, next_id>>
        BY <2>3 DEF sendRefresh, appVars, pollVars
      <3> QED
        BY <1>0, <2>3, <3>1, RefreshKeeps DEF sendRefresh, Quiet, SameRequestIds
    <2> QED
      BY <1>8, <2>1, <2>2, <2>3 DEF send_reqs
  <1>9. CASE gen_results
    <2>1. CASE genTimeout \/ recvPacket \/ recvWait \/ recvTimer \/ recvNothing
      BY <2>1, QuietIfSame DEF genTimeout, recvPacket, recvWait, recvTimer, recvNothing,
                               ctlVars, appVars, pollVars
    <2>2. CASE genNothing \/ genError
      <3>1. /\ UNCHANGED <<requests, responses, heard, next_id>>
            /\ UNCHANGED ctlVars \/ \E err \in Errors : set_op_error(err)
        BY <2>2 DEF genNothing, genError, Errors, appVars
      <3>2. CASE UNCHANGED ctlVars
        BY <3>1, <3>2, QuietIfSame DEF ctlVars
      <3>3. CASE \E err \in Errors : set_op_error(err)
        BY <1>0, <3>1, <3>3, SetErrorKeeps DEF Quiet, SameRequestIds
      <3> QED
        BY <3>1, <3>2, <3>3
    <2>3. CASE genAnswer /\ ~IsCurrent(rx.id)
      <3>1. refresh_op_time(TRUE) /\ UNCHANGED <<requests, responses, heard, next_id>>
        BY <2>3 DEF genAnswer, appVars
      <3> QED
        BY <1>0, <3>1, RefreshKeeps DEF Quiet, SameRequestIds
    <2> QED
      BY <1>9, <2>1, <2>2, <2>3 DEF gen_results
  <1> QED
    BY <1>1, <1>2, <1>3, <1>4, <1>5, <1>6, <1>7, <1>8, <1>9 DEF Next

(* A result returned by poll() is added to what is known of its request. *)
LEMMA HearKeeps ==
  ASSUME HeardType, NEW id \in TtsId, NEW r \in Promise!Results, Hear(id, r)
  PROVE  /\ HeardType'
         /\ heard'[id] = Append(heard[id], r)
         /\ \A i \in TtsId \ {id} : heard'[i] = heard[i]
         /\ Len(heard[id]) \in Nat /\ Len(heard'[id]) = Len(heard[id]) + 1
         /\ heard'[id] # <<>> /\ heard'[id][Len(heard'[id])] = r
         /\ HasEnded(heard'[id]) <=> r.type \in Terminal
  <1>1. heard[id] \in Seq(Promise!Results)
    BY DEF HeardType
  <1>2. heard' = [i \in TtsId |-> IF i = id THEN Append(heard[i], r) ELSE heard[i]]
    BY DEF Hear
  <1>3. /\ Append(heard[id], r) \in Seq(Promise!Results)
        /\ Len(heard[id]) \in Nat /\ Len(Append(heard[id], r)) = Len(heard[id]) + 1
        /\ Append(heard[id], r)[Len(heard[id]) + 1] = r
    BY <1>1, SeqAppend, SeqElement
  <1>4. heard' \in [TtsId -> Seq(Promise!Results)]
    BY <1>2, <1>3 DEF HeardType
  <1>5. heard'[id] = Append(heard[id], r) /\ \A i \in TtsId \ {id} : heard'[i] = heard[i]
    BY <1>2
  <1>6. heard'[id] # <<>>
    BY <1>3, <1>5, EmptySeq
  <1> QED
    BY <1>3, <1>4, <1>5, <1>6 DEF HeardType, HasEnded

(* remove_front_op: the ids of the other operations stay. *)
LEMMA FrontIds ==
  ASSUME TypeOK, OrderInv, operations # <<>>, remove_front_op
  PROVE  /\ OpIds' = OpIds \ {operations[1].id}
         /\ operations[1].id \in OpIds /\ operations[1].id \notin QueuedIds
  <1>0. OpType(TtsId, Errors)
    BY TypeParts
  <1>1. /\ Len(operations) \in Nat \ {0} /\ Len(operations') = Len(operations) - 1
        /\ \A i \in 1 .. Len(operations) - 1 : operations'[i] = operations[i + 1]
    BY <1>0, RemoveFrontKeeps
  <1>2. 1 \in 1 .. Len(operations)
    BY <1>1
  <1>3. ASSUME NEW i \in 2 .. Len(operations) PROVE operations[i].id # operations[1].id
    <2>1. i \in 1 .. Len(operations) /\ i # 1
      BY <1>1
    <2> QED
      BY <1>2, <2>1, DistinctIds
  <1>4. OpIds' \subseteq OpIds \ {operations[1].id}
    <2>1. ASSUME NEW i \in 1 .. Len(operations')
          PROVE  operations'[i].id \in OpIds \ {operations[1].id}
      <3>1. i + 1 \in 2 .. Len(operations) /\ operations'[i] = operations[i + 1]
            /\ i + 1 \in 1 .. Len(operations)
        BY <1>1
      <3> QED
        BY <1>3, <3>1 DEF OpIds
    <2> QED
      BY <2>1 DEF OpIds
  <1>5. OpIds \ {operations[1].id} \subseteq OpIds'
    <2>1. ASSUME NEW i \in 1 .. Len(operations), i # 1
          PROVE  operations[i].id \in OpIds'
      <3>1. i - 1 \in 1 .. Len(operations') /\ i - 1 \in 1 .. Len(operations) - 1
            /\ (i - 1) + 1 = i
        BY <1>1, <2>1
      <3>2. operations'[i - 1] = operations[i]
        BY <1>1, <3>1
      <3> QED
        BY <3>1, <3>2 DEF OpIds
    <2> QED
      BY <2>1 DEF OpIds
  <1>6. operations[1].id \notin QueuedIds
    <2>1. operations[1].id \in Nat
      BY <1>2, OperationElement
    <2> QED
      BY <1>2, <2>1 DEF OrderInv, QueuedIds
  <1> QED
    BY <1>2, <1>4, <1>5, <1>6 DEF OpIds

(* poll() found the front operation's stream at the front of responses_. *)
LEMMA ItemStep ==
  ASSUME IInv, pollItem
  PROVE  /\ initialized /\ Live /\ TypeOK /\ OrderInv /\ StreamInv /\ responses # <<>>
         /\ operations # <<>> /\ 1 \in 1 .. Len(operations) /\ 1 \in 1 .. Len(responses)
         /\ responses[1].id = operations[1].id /\ operations[1].id \in TtsId
         /\ responses[1] \in Stream(TtsId, Voices, {})
         /\ operations[1].status \in {"STREAMING", "END"}
         /\ PopType(responses) = FrontType(responses[1])
         /\ responses' = PopRest(responses)
         /\ PopType(responses) \in {"START", "DATA", "END"}
         /\ operations[1].status = "STREAMING" => responses[1].type = "uncompleted"
         /\ operations[1].status = "END" => responses[1].type = "completed"
         /\ PopType(responses) = "END" => operations[1].status = "END"
         /\ PopType(responses) = "DATA" =>
              responses[1].data # <<>> /\ responses[1].data[1] \in Voices
         /\ Hear(operations[1].id,
                 Result(PopType(responses),
                        IF PopType(responses) = "DATA" THEN responses[1].data[1] ELSE NoVoice,
                        NoError))
         /\ PopType(responses) = "END" =>
              remove_front_op /\ dropped' = dropped \ {operations[1].id}
         /\ PopType(responses) # "END" => UNCHANGED <<ctlVars, dropped>>
         /\ UNCHANGED <<requests, next_id, reqVars, respVars, netVars, session, initialized>>
  <1>1. /\ initialized /\ operations # <<>>
        /\ operations[1].status \notin {"CANCELLED", "ERROR"}
        /\ PopType(responses) # "EMPTY" /\ responses' = PopRest(responses)
        /\ UNCHANGED <<requests, next_id, reqVars, respVars, netVars, session, initialized>>
    BY DEF pollItem
  <1>2. TypeOK /\ Live /\ OrderInv /\ StreamInv /\ responses \in Seq(Stream(TtsId, Voices, {}))
    BY <1>1, TypeParts DEF IInv, Live, QueueType
  <1>3. responses # <<>> /\ PopType(responses) = FrontType(responses[1])
    BY <1>1 DEF PopType
  <1>4. /\ responses[1].id = operations[1].id
        /\ responses[1].type \in {"uncompleted", "completed"}
        /\ operations[1].status \in {"STREAMING", "END"}
    BY <1>1, <1>2, <1>3, FrontItem
  <1>5. /\ 1 \in 1 .. Len(operations) /\ 1 \in 1 .. Len(responses)
        /\ responses[1] \in Stream(TtsId, Voices, {})
    BY <1>1, <1>2, <1>3, SeqTail DEF TypeOK
  <1>6. operations[1].id \in TtsId
    BY <1>2, <1>5, OperationElement
  <1>7. /\ operations[1].status = "STREAMING" => responses[1].type = "uncompleted"
        /\ operations[1].status = "END" => responses[1].type = "completed"
    BY <1>2, <1>4, <1>5 DEF StreamInv
  <1>8. /\ PopType(responses) \in {"START", "DATA", "END"}
        /\ PopType(responses) = "END" => responses[1].type = "completed"
        /\ PopType(responses) = "DATA" => responses[1].data # <<>>
    BY <1>1, <1>3, <1>4 DEF FrontType
  <1>9. responses[1].data # <<>> => responses[1].data[1] \in Voices
    <2>1. responses[1].data \in Seq(Voices)
      BY <1>5 DEF Stream
    <2> QED
      BY <2>1, SeqTail
  <1>10. /\ PopItem(responses).id = operations[1].id /\ PopItem(responses).type = PopType(responses)
         /\ PopType(responses) = "DATA" => PopItem(responses).res = responses[1].data[1]
    BY <1>4, <1>8 DEF PopItem, NoItem
  <1>11. /\ Hear(operations[1].id,
                 Result(PopType(responses),
                        IF PopType(responses) = "DATA" THEN responses[1].data[1] ELSE NoVoice,
                        NoError))
    BY <1>10 DEF pollItem
  <1>12. /\ PopType(responses) = "END" =>
              remove_front_op /\ dropped' = dropped \ {operations[1].id}
         /\ PopType(responses) # "END" => UNCHANGED <<ctlVars, dropped>>
    BY <1>10 DEF pollItem
  <1> QED
    BY <1>1, <1>2, <1>3, <1>4, <1>5, <1>6, <1>7, <1>8, <1>9, <1>11, <1>12

(* What poll() returns is a result of the promise. *)
LEMMA ItemIsResult ==
  ASSUME IInv, pollItem
  PROVE  Result(PopType(responses),
                IF PopType(responses) = "DATA" THEN responses[1].data[1] ELSE NoVoice,
                NoError) \in Promise!Results
  BY ItemStep, TtsAssumption DEF Result, Promise!Results, Voices, NoVoice

(* The front operation was cancelled or failed: poll() says so once. *)
LEMMA DeadStep ==
  ASSUME IInv, pollDead
  PROVE  /\ initialized /\ Live /\ TypeOK /\ OrderInv /\ StreamInv
         /\ operations # <<>> /\ 1 \in 1 .. Len(operations)
         /\ operations[1].status \in {"CANCELLED", "ERROR"} /\ operations[1].id \in TtsId
         /\ \E err \in Errors \cup {NoError} :
              /\ operations[1].status = "CANCELLED" => err = NoError
              /\ Result(operations[1].status, NoVoice, err) \in Promise!Results
              /\ Hear(operations[1].id, Result(operations[1].status, NoVoice, err))
         /\ dropped' = dropped \ {operations[1].id} /\ remove_front_op
         /\ UNCHANGED <<requests, next_id, reqVars, respVars, netVars, session, initialized>>
  <1>1. /\ initialized /\ operations # <<>> /\ operations[1].status \in {"CANCELLED", "ERROR"}
        /\ dropped' = dropped \ {operations[1].id} /\ remove_front_op
        /\ UNCHANGED <<requests, next_id, reqVars, respVars, netVars, session, initialized>>
    BY DEF pollDead
  <1>2. TypeOK /\ Live /\ OrderInv /\ StreamInv /\ OpType(TtsId, Errors)
    BY <1>1, TypeParts DEF IInv, Live
  <1>3. 1 \in 1 .. Len(operations)
    BY <1>1, <1>2, SeqTail DEF TypeOK
  <1>4. operations[1].id \in TtsId /\ operations[1].error \in Errors \cup {NoError}
    <2>1. operations[1] \in Operation(TtsId, Errors)
      BY <1>2, <1>3, OpElement
    <2> QED
      BY <2>1 DEF Operation
  <1>5. \E err \in Errors \cup {NoError} :
              /\ operations[1].status = "CANCELLED" => err = NoError
              /\ Result(operations[1].status, NoVoice, err) \in Promise!Results
              /\ Hear(operations[1].id, Result(operations[1].status, NoVoice, err))
    <2> DEFINE err == IF operations[1].status = "ERROR" THEN operations[1].error ELSE NoError
    <2>1. err \in Errors \cup {NoError}
      BY <1>4
    <2>2. Result(operations[1].status, NoVoice, err) \in Promise!Results
      BY <1>1, <2>1, TtsAssumption DEF Result, Promise!Results, NoVoice
    <2>3. Hear(operations[1].id, Result(operations[1].status, NoVoice, err))
      BY DEF pollDead
    <2> QED
      BY <1>1, <2>1, <2>2, <2>3
  <1> QED
    BY <1>1, <1>2, <1>3, <1>4, <1>5

(* Only speak() and poll() are seen by the application once it has called  *)
(* prepare().                                                              *)
LEMMA SilentSteps ==
  ASSUME [Next]_vars
  PROVE  \/ UNCHANGED <<next_id, heard, session>> /\ (initialized' => initialized)
         \/ prepare
         \/ \E c \in Callers : speakQueue(c)
         \/ pollDead \/ pollItem
  <1> USE DEF appVars, pollVars
  <1>1. CASE UNCHANGED vars
    BY <1>1 DEF vars
  <1>2. CASE (\E i \in TtsId : serverAnswers(i)) \/ (\E k \in {"broken", "badData"} : linkError(k))
               \/ clock
    BY <1>2 DEF serverAnswers, linkError, clock
  <1>3. CASE releaseBegin \/ releaseClose \/ releaseJoinReq \/ releaseJoinResp
    BY <1>3 DEF releaseBegin, releaseClose, releaseJoinReq, releaseJoinResp
  <1>4. CASE \E c \in Callers : speakTest(c)
    BY <1>4 DEF speakTest
  <1>5. CASE \E id \in TtsId \cup {0} : cancel(id)
    BY <1>5 DEF cancel
  <1>6. CASE pollReleased \/ pollWait
    BY <1>6 DEF pollReleased, pollWait
  <1>7. CASE send_reqs
    BY <1>7 DEF send_reqs, sendQuit, sendWait, sendTake, sendDone, sendLost, sendFails,
                sendRefresh, sendWaitOp, sendAwake
  <1>8. CASE gen_results
    BY <1>8 DEF gen_results, genTimeout, recvPacket, recvWait, recvTimer, recvNothing,
                genAnswer, genNothing, genError
  <1> QED
    BY <1>1, <1>2, <1>3, <1>4, <1>5, <1>6, <1>7, <1>8 DEF Next, poll

HeardInv ==
  /\ HeardType
  /\ next_id <= MaxId
  /\ session = 0 => next_id = 0 /\ heard = [i \in TtsId |-> <<>>]
  /\ initialized => LedgerInv

(* Nothing was returned before the first prepare(). *)
LEMMA InitHeard == Init => HeardInv
  <1> SUFFICES ASSUME Init PROVE HeardInv
    OBVIOUS
  <1>1. heard = [i \in TtsId |-> <<>>] /\ next_id = 0 /\ initialized = FALSE
    BY DEF Init
  <1> QED
    BY <1>1, EmptySeq, TtsAssumption DEF HeardInv, HeardType

(* The type of heard, and what it is before the first prepare(). *)
LEMMA HeardTypeStep ==
  ASSUME MaxSessions <= 1, IInv, HeardInv, [Next]_vars
  PROVE  /\ HeardType' /\ next_id' <= MaxId
         /\ session' = 0 => next_id' = 0 /\ heard' = [i \in TtsId |-> <<>>]
  <1>0. TypeOK /\ session \in Nat /\ (initialized => session # 0) /\ next_id \in Nat
    BY TtsAssumption DEF IInv, SenderInv, TypeOK
  <1>1. CASE UNCHANGED <<next_id, heard, session>>
    BY <1>1 DEF HeardInv, HeardType
  <1>2. CASE prepare
    BY <1>0, <1>2, EmptySeq, TtsAssumption DEF prepare, HeardType
  <1>3. CASE \E c \in Callers : speakQueue(c)
    <2>1. /\ heard' = heard /\ session' = session /\ session # 0
          /\ next_id < MaxId /\ next_id' = next_id + 1
      BY <1>3 DEF speakQueue, pollVars, IInv, FreshInv
    <2>2. next_id' <= MaxId
      BY <1>0, <2>1, TtsAssumption
    <2> QED
      BY <2>1, <2>2 DEF HeardInv, HeardType
  <1>4. CASE pollDead
    <2>1. HeardType' /\ session' # 0
      BY <1>0, <1>4, DeadStep, HearKeeps DEF HeardInv
    <2>2. next_id' = next_id
      BY <1>4, DeadStep
    <2> QED
      BY <2>1, <2>2 DEF HeardInv
  <1>5. CASE pollItem
    <2>1. HeardType' /\ session' # 0
      BY <1>0, <1>5, ItemStep, ItemIsResult, HearKeeps DEF HeardInv
    <2>2. next_id' = next_id
      BY <1>5, ItemStep
    <2> QED
      BY <2>1, <2>2 DEF HeardInv
  <1> QED
    BY <1>1, <1>2, <1>3, <1>4, <1>5, SilentSteps

(* No step but these two returns a result, or removes an operation. *)
LEMMA LedgerPoll ==
  ASSUME IInv, HeardInv, pollDead \/ pollItem
  PROVE  LedgerInv'
  <1> DEFINE id == operations[1].id
  <1>0. TypeOK /\ OrderInv /\ LedgerInv /\ HeardType /\ next_id' = next_id
        /\ requests' = requests /\ operations # <<>> /\ id \in TtsId
        /\ 1 \in 1 .. Len(operations)
    BY DeadStep, ItemStep DEF HeardInv
  <1>1. QueuedIds' = QueuedIds
    BY <1>0 DEF QueuedIds
  <1>2. id \in OpIds /\ id <= next_id
    BY <1>0 DEF OpIds, OrderInv
  <1>3. \A i \in TtsId \ {id} : heard[i] # <<>> => HasEnded(heard[i])
    BY <1>0 DEF LedgerInv
  <1>4. ASSUME remove_front_op,
               HasEnded(heard'[id]), \A i \in TtsId \ {id} : heard'[i] = heard[i]
        PROVE  LedgerInv'
    <2>1. Waiting' = Waiting \ {id} /\ id \in Waiting
      BY <1>0, <1>1, <1>4, FrontIds DEF Waiting
    <2>2. \A i \in TtsId : HasEnded(heard'[i]) <=> i <= next_id /\ i \notin Waiting'
      BY <1>0, <1>2, <1>4, <2>1 DEF LedgerInv
    <2>3. \A i \in TtsId : heard'[i] # <<>> => HasEnded(heard'[i])
      BY <1>3, <1>4
    <2> QED
      BY <1>0, <2>2, <2>3 DEF LedgerInv
  <1>5. CASE pollDead
    <2>1. remove_front_op /\ operations[1].status \in Terminal
      BY <1>5, DeadStep DEF Terminal
    <2>2. PICK err \in Errors \cup {NoError} :
            /\ Result(operations[1].status, NoVoice, err) \in Promise!Results
            /\ Hear(id, Result(operations[1].status, NoVoice, err))
      BY <1>5, DeadStep
    <2>3. HasEnded(heard'[id]) /\ \A i \in TtsId \ {id} : heard'[i] = heard[i]
      BY <1>0, <2>1, <2>2, HearKeeps DEF Result
    <2> QED
      BY <1>4, <2>1, <2>3
  <1>6. CASE pollItem
    <2> DEFINE r == Result(PopType(responses),
                           IF PopType(responses) = "DATA" THEN responses[1].data[1] ELSE NoVoice,
                           NoError)
    <2>1. r \in Promise!Results /\ Hear(id, r)
      BY <1>6, ItemStep, ItemIsResult
    <2>2. r.type = PopType(responses)
      BY DEF Result
    <2> HIDE DEF r
    <2>3. /\ HasEnded(heard'[id]) <=> r.type \in Terminal
          /\ \A i \in TtsId \ {id} : heard'[i] = heard[i]
      BY <1>0, <2>1, HearKeeps
    <2>4. CASE PopType(responses) = "END"
      BY <1>4, <1>6, <2>2, <2>3, <2>4, ItemStep DEF Terminal
    <2>5. CASE PopType(responses) # "END"
      <3>1. operations' = operations /\ ~HasEnded(heard'[id])
            /\ operations[1].status # "START"
        BY <1>6, <2>2, <2>3, <2>5, ItemStep DEF Terminal, ctlVars
      <3>2. Waiting' = Waiting /\ id \in Waiting
        BY <1>1, <1>2, <3>1 DEF Waiting, OpIds
      <3>3. \A i \in TtsId : HasEnded(heard'[i]) <=> i <= next_id /\ i \notin Waiting'
        BY <1>0, <2>3, <3>1, <3>2 DEF LedgerInv
      <3>4. \A i \in TtsId : heard'[i] # <<>> /\ ~HasEnded(heard'[i]) => i = id
        BY <1>3, <2>3
      <3> QED
        BY <1>0, <3>1, <3>3, <3>4 DEF LedgerInv
    <2> QED
      BY <2>4, <2>5
  <1> QED
    BY <1>5, <1>6

(* The current operation has its next answer; no id changes. *)
LEMMA AnswerStatuses ==
  ASSUME IInv, genAnswer, IsCurrent(rx.id)
  PROVE  /\ SameOpIds /\ UNCHANGED <<requests, heard, next_id>>
         /\ \A i \in 1 .. Len(operations) : i # current => operations'[i] = operations[i]
         /\ operations[current].status \in {"START", "STREAMING"}
         /\ operations'[current].status = IF rx.finish THEN "END" ELSE "STREAMING"
         /\ current \in 1 .. Len(operations) /\ operations[current].id = rx.id
  <1>1. TypeOK /\ rx.kind = "data" /\ Answer(rx) /\ UNCHANGED <<requests, heard, next_id>>
    BY DEF IInv, genAnswer, appVars
  <1>2. current # 0 /\ current \in 1 .. Len(operations) /\ operations[current].id = rx.id
    BY <1>1, SeqElement DEF IsCurrent, TypeOK
  <1>3. operations[current].status \in {"START", "STREAMING"} /\ rx.id \in TtsId \cup {0}
    BY <1>1, <1>2 DEF IInv, OneInFlight, TypeOK, Response
  <1>4. /\ SameOpIds
        /\ \A i \in 1 .. Len(operations) : i # current => operations'[i] = operations[i]
        /\ operations'[current].status =
             IF rx.finish THEN Finished("END")
             ELSE IF operations[current].status = "START" THEN "STREAMING"
             ELSE operations[current].status
    BY <1>1, <1>2, <1>3, AnswerKeeps
  <1> QED
    BY <1>1, <1>2, <1>3, <1>4 DEF Finished

(* Nothing returned, and the same requests under way. *)
LEMMA LedgerSame ==
  ASSUME IInv, LedgerInv, SameOpIds, UNCHANGED <<heard, next_id>>, QueuedIds' = QueuedIds,
         Len(operations) > 0 => (operations'[1].status = "START" => operations[1].status = "START")
  PROVE  LedgerInv'
  <1>1. Len(operations) \in Nat
    BY SeqElement DEF IInv, TypeOK
  <1>2. OpIds' = OpIds
    BY DEF SameOpIds, OpIds
  <1>3. Waiting' = Waiting
    BY <1>2 DEF Waiting
  <1>4. \A i \in TtsId : heard'[i] # <<>> /\ ~HasEnded(heard'[i]) =>
          Len(operations') > 0 /\ operations'[1].id = i /\ operations'[1].status # "START"
    BY <1>1 DEF SameOpIds, LedgerInv
  <1> QED
    BY <1>3, <1>4 DEF LedgerInv

(* Every request stays accounted for. *)
LEMMA LedgerStep ==
  ASSUME MaxSessions <= 1, IInv, HeardInv, [Next]_vars, initialized'
  PROVE  LedgerInv'
  <1>0. TypeOK /\ Len(operations) \in Nat /\ Len(requests) \in Nat
        /\ (initialized => LedgerInv /\ OrderInv)
    BY SeqElement DEF IInv, TypeOK, HeardInv, Live
  <1>1. CASE prepare
    <2>1. session = 0
      BY <1>0, <1>1, TtsAssumption DEF prepare, TypeOK
    <2>2. /\ operations' = <<>> /\ requests' = <<>> /\ next_id' = 0
          /\ heard' = [i \in TtsId |-> <<>>]
      BY <1>1, <2>1 DEF prepare, ctlVars, IInv, FreshInv
    <2>3. \A i \in TtsId : heard'[i] = <<>> /\ ~HasEnded(heard'[i]) /\ ~(i <= next_id')
      BY <2>2, TtsAssumption DEF HasEnded, TtsId
    <2> QED
      BY <2>3 DEF LedgerInv
  <1>2. initialized \/ prepare
    BY SilentSteps DEF speakQueue, pollDead, pollItem
  <1>3. CASE initialized /\ Quiet
    <2>1. QueuedIds' = QueuedIds
      BY <1>3 DEF Quiet, SameRequestIds, QueuedIds
    <2>2. Len(operations) > 0 =>
            (operations'[1].status = "START" => operations[1].status = "START")
      BY <1>0, <1>3 DEF Quiet
    <2> QED
      BY <1>0, <1>3, <2>1, <2>2, LedgerSame DEF Quiet
  <1>4. CASE initialized /\ \E c \in Callers : speakQueue(c)
    <2>1. /\ requests' = Append(requests, [id |-> next_id + 1, deleted |-> FALSE])
          /\ next_id' = next_id + 1 /\ heard' = heard /\ operations' = operations
      BY <1>4 DEF speakQueue, pollVars, ctlVars
    <2>2. next_id \in Nat /\ requests \in Seq([id : TtsId, deleted : BOOLEAN])
      BY <1>0 DEF TypeOK
    <2>3. [id |-> next_id + 1, deleted |-> FALSE] \in [id : TtsId, deleted : BOOLEAN]
      BY <1>4, <2>2, TtsAssumption DEF speakQueue, TtsId
    <2>4. /\ Len(requests') = Len(requests) + 1
          /\ requests'[Len(requests) + 1].id = next_id + 1
          /\ \A i \in 1 .. Len(requests) : requests'[i] = requests[i]
      BY <2>1, <2>2, <2>3, SeqAppend
    <2>5. QueuedIds' = QueuedIds \cup {next_id + 1}
      BY <1>0, <2>4 DEF QueuedIds
    <2>6. Waiting' = Waiting \cup {next_id + 1}
      BY <2>1, <2>5 DEF Waiting, OpIds
    <2>7. \A i \in TtsId : i <= next_id' /\ i \notin Waiting' <=> i <= next_id /\ i \notin Waiting
      BY <2>1, <2>2, <2>6 DEF TtsId
    <2> QED
      BY <1>0, <1>4, <2>1, <2>7 DEF LedgerInv
  <1>5. CASE initialized /\ sendTake
    <2>1. /\ requests \in Seq([id : TtsId, deleted : BOOLEAN]) /\ requests # <<>>
          /\ requests' = Tail(requests) /\ UNCHANGED <<heard, next_id>>
          /\ new_op(requests[1].id, "CANCELLED") \/ new_op(requests[1].id, "START")
      BY <1>0, <1>5 DEF sendTake, TypeOK
    <2>2. /\ Len(requests) \in Nat \ {0} /\ Len(requests') = Len(requests) - 1
          /\ \A i \in 1 .. Len(requests) - 1 : requests'[i] = requests[i + 1]
          /\ requests[1] \in [id : TtsId, deleted : BOOLEAN]
      BY <2>1, SeqTail
    <2>3. /\ Len(operations') = Len(operations) + 1
          /\ \A i \in 1 .. Len(operations) : operations'[i] = operations[i]
          /\ operations'[Len(operations) + 1].id = requests[1].id
      BY <1>0, <2>1, <2>2, TypeParts, NewOpKeeps DEF Status
    <2>4. OpIds' = OpIds \cup {requests[1].id}
      BY <1>0, <2>3 DEF OpIds
    <2>5. QueuedIds = QueuedIds' \cup {requests[1].id}
      <3>1. \A i \in 1 .. Len(requests) :
              i = 1 \/ (i - 1 \in 1 .. Len(requests') /\ requests'[i - 1] = requests[i])
        BY <2>2
      <3>2. QueuedIds \subseteq QueuedIds' \cup {requests[1].id}
        BY <3>1 DEF QueuedIds
      <3>3. \A i \in 1 .. Len(requests') :
              i + 1 \in 1 .. Len(requests) /\ requests'[i] = requests[i + 1]
        BY <2>2
      <3>4. QueuedIds' \subseteq QueuedIds
        BY <3>3 DEF QueuedIds
      <3>5. requests[1].id \in QueuedIds
        BY <2>2 DEF QueuedIds
      <3> QED
        BY <3>2, <3>4, <3>5
    <2>6. Waiting' = Waiting
      BY <2>4, <2>5 DEF Waiting
    <2>7. Len(operations) > 0 => Len(operations') > 0 /\ operations'[1] = operations[1]
      BY <1>0, <2>3
    <2> QED
      BY <1>0, <1>5, <2>1, <2>6, <2>7 DEF LedgerInv
  <1>6. CASE pollDead \/ pollItem
    BY <1>6, LedgerPoll
  <1>7. CASE initialized /\ genAnswer /\ IsCurrent(rx.id)
    <2>1. QueuedIds' = QueuedIds
      BY <1>7, AnswerStatuses DEF QueuedIds
    <2>2. Len(operations) > 0 =>
            (operations'[1].status = "START" => operations[1].status = "START")
      BY <1>0, <1>7, AnswerStatuses
    <2> QED
      BY <1>0, <1>7, <2>1, <2>2, AnswerStatuses, LedgerSame
  <1> QED
    BY <1>1, <1>2, <1>3, <1>4, <1>5, <1>6, <1>7, QuietSteps

(* HeardInv is inductive, given IInv. *)
LEMMA HeardStep ==
  ASSUME MaxSessions <= 1, IInv, HeardInv, [Next]_vars
  PROVE  HeardInv'
  BY HeardTypeStep, LedgerStep DEF HeardInv

(* Nothing is in two places: the ids of a queue name its elements. *)
LEMMA OneOrNone ==
  ASSUME NEW n \in Nat, NEW s, NEW i,
         \A j, k \in 1 .. n : s[j].id = s[k].id => j = k
  PROVE  Cardinality({j \in 1 .. n : s[j].id = i}) =
           IF i \in {s[j].id : j \in 1 .. n} THEN 1 ELSE 0
  <1>1. CASE i \in {s[j].id : j \in 1 .. n}
    <2>1. PICK j \in 1 .. n : s[j].id = i
      BY <1>1
    <2>2. {k \in 1 .. n : s[k].id = i} = {j}
      BY <2>1
    <2> QED
      BY <1>1, <2>2, FS_Singleton
  <1>2. CASE i \notin {s[j].id : j \in 1 .. n}
    <2>1. {k \in 1 .. n : s[k].id = i} = {}
      BY <1>2
    <2> QED
      BY <1>2, <2>1, FS_EmptySet
  <1> QED
    BY <1>1, <1>2

(* Requests are queued under different ids. *)
LEMMA DistinctRequests ==
  ASSUME TypeOK, OrderInv, NEW i \in 1 .. Len(requests), NEW j \in 1 .. Len(requests),
         requests[i].id = requests[j].id
  PROVE  i = j
  <1>1. requests[i].id \in Nat /\ requests[j].id \in Nat
    BY RequestElement DEF TtsId
  <1>2. i < j => requests[i].id < requests[j].id
    BY DEF OrderInv
  <1>3. j < i => requests[j].id < requests[i].id
    BY DEF OrderInv
  <1> QED
    BY <1>1, <1>2, <1>3

(* Distinct ids and the ledger leave one place for each request. *)
LEMMA LedgerGives == IInv /\ HeardInv => NoRequestLost
  <1> SUFFICES ASSUME IInv, HeardInv, initialized, NEW i \in 1 .. next_id
               PROVE  Cardinality({j \in 1 .. Len(requests) : requests[j].id = i})
                        + Cardinality({j \in 1 .. Len(operations) : operations[j].id = i})
                        + (IF HasEnded(heard[i]) THEN 1 ELSE 0) = 1
    BY DEF NoRequestLost
  <1>1. TypeOK /\ OrderInv /\ LedgerInv /\ i \in TtsId /\ i <= next_id
    BY TtsAssumption DEF IInv, Live, HeardInv, TypeOK, TtsId
  <1>2. Len(requests) \in Nat /\ Len(operations) \in Nat
    BY <1>1, SeqElement DEF TypeOK
  <1>3. Cardinality({j \in 1 .. Len(requests) : requests[j].id = i}) =
          IF i \in QueuedIds THEN 1 ELSE 0
    BY <1>1, <1>2, DistinctRequests, OneOrNone DEF QueuedIds
  <1>4. Cardinality({j \in 1 .. Len(operations) : operations[j].id = i}) =
          IF i \in OpIds THEN 1 ELSE 0
    BY <1>1, <1>2, DistinctIds, OneOrNone DEF OpIds
  <1>5. ~(i \in QueuedIds /\ i \in OpIds)
    <2> SUFFICES ASSUME NEW j \in 1 .. Len(requests), NEW k \in 1 .. Len(operations),
                        requests[j].id = operations[k].id
                 PROVE  FALSE
      BY DEF QueuedIds, OpIds
    <2>1. operations[k].id < requests[j].id /\ operations[k].id \in Nat
      BY <1>1, OperationElement DEF OrderInv
    <2> QED
      BY <2>1
  <1>6. HasEnded(heard[i]) <=> i \notin QueuedIds /\ i \notin OpIds
    BY <1>1 DEF LedgerInv, Waiting
  <1> QED
    BY <1>3, <1>4, <1>5, <1>6

(* A request accepted by speak() stays queued, or an operation, until its  *)
(* terminal result is polled, and is never in two of these places          *)
(* (tts_impl.cc:111,256,274,279,202,230): the invariant adds that only the *)
(* front operation may have been heard of without being over.              *)
THEOREM RequestsAreKept ==
  ASSUME MaxSessions <= 1, "spurious" \notin Faults
  PROVE  Spec => []NoRequestLost
  <1>1. Init => HeardInv
    BY InitHeard
  <1>2. IInv /\ HeardInv /\ [Next]_vars => HeardInv'
    BY HeardStep
  <1>3. IInv /\ HeardInv => NoRequestLost
    BY LedgerGives
  <1> QED
    BY <1>1, <1>2, <1>3, Invariance, PTL DEF Spec

(* A cancelled request that is not over yet is queued and marked, or an    *)
(* operation that is cancelled.                                            *)
DropInv ==
  \A i \in dropped :
    \/ \E j \in 1 .. Len(requests) : requests[j].id = i /\ requests[j].deleted
    \/ \E j \in 1 .. Len(operations) : operations[j].id = i /\ operations[j].status = "CANCELLED"

(* Marks and cancellations stay. *)
MarksStay ==
  /\ SameOpIds /\ SameRequestIds
  /\ \A i \in 1 .. Len(requests) : requests[i].deleted => requests'[i].deleted
  /\ \A i \in 1 .. Len(operations) :
       operations[i].status = "CANCELLED" => operations'[i].status = "CANCELLED"

(* Steps that keep the marks keep the invariant. *)
LEMMA DropKept ==
  ASSUME DropInv, MarksStay, dropped' = dropped PROVE DropInv'
  <1> SUFFICES ASSUME NEW i \in dropped
               PROVE  \/ \E j \in 1 .. Len(requests') : requests'[j].id = i /\ requests'[j].deleted
                      \/ \E j \in 1 .. Len(operations') :
                           operations'[j].id = i /\ operations'[j].status = "CANCELLED"
    BY DEF DropInv
  <1>1. CASE \E j \in 1 .. Len(requests) : requests[j].id = i /\ requests[j].deleted
    BY <1>1 DEF MarksStay, SameRequestIds
  <1>2. CASE \E j \in 1 .. Len(operations) :
               operations[j].id = i /\ operations[j].status = "CANCELLED"
    BY <1>2 DEF MarksStay, SameOpIds
  <1> QED
    BY <1>1, <1>2 DEF DropInv

(* Steps that touch neither queue. *)
LEMMA SameMarks ==
  ASSUME UNCHANGED <<operations, requests>> PROVE MarksStay
  BY DEF MarksStay, SameOpIds, SameRequestIds

(* The steps that may lose or move a mark. *)
LEMMA MarkSteps ==
  ASSUME IInv, initialized', [Next]_vars
  PROVE  \/ MarksStay /\ dropped' = dropped
         \/ prepare
         \/ \E c \in Callers : speakQueue(c)
         \/ \E id \in TtsId \cup {0} : cancel(id)
         \/ sendTake \/ pollDead \/ pollItem
  <1>0. TypeOK /\ OpType(TtsId, Errors)
    BY TypeParts DEF IInv
  <1>1. CASE UNCHANGED vars
    BY <1>1, SameMarks DEF vars
  <1>2. CASE (\E i \in TtsId : serverAnswers(i)) \/ (\E k \in {"broken", "badData"} : linkError(k))
    <2>1. UNCHANGED <<ctlVars, appVars>>
      BY <1>2 DEF serverAnswers, linkError
    <2> QED
      BY <2>1, SameMarks DEF ctlVars, appVars
  <1>3. ASSUME UNCHANGED appVars, refresh_op_time(TRUE) \/ refresh_op_time(FALSE) \/ GrowsIdle
        PROVE  MarksStay /\ dropped' = dropped
    <2>1. SameOpIds /\ \A i \in 1 .. Len(operations) : operations'[i].status = operations[i].status
      BY <1>0, <1>3, GrowsIdleKeeps, RefreshKeeps
    <2> QED
      BY <1>3, <2>1 DEF MarksStay, SameRequestIds, appVars
  <1>4. ASSUME UNCHANGED appVars, NEW err \in Errors, set_op_error(err)
        PROVE  MarksStay /\ dropped' = dropped
    <2>1. /\ SameOpIds
          /\ \A i \in 1 .. Len(operations) :
               operations'[i].status = IF i = current THEN "ERROR" ELSE operations[i].status
      BY <1>0, <1>4, SetErrorKeeps
    <2>2. \A i \in 1 .. Len(operations) : i = current => operations[i].status # "CANCELLED"
      BY DEF IInv, OneInFlight
    <2> QED
      BY <1>4, <2>1, <2>2 DEF MarksStay, SameRequestIds, appVars
  <1>5. CASE releaseBegin \/ releaseClose \/ releaseJoinReq \/ releaseJoinResp
    <2>1. ctlPc # "idle" => ~initialized
      BY DEF IInv, SenderInv
    <2> QED
      BY <1>5, <2>1 DEF releaseBegin, releaseClose, releaseJoinReq, releaseJoinResp, appVars
  <1>6. CASE \E c \in Callers : speakTest(c)
    BY <1>6, SameMarks DEF speakTest, ctlVars
  <1>7. CASE pollReleased \/ pollWait
    BY <1>7, SameMarks DEF pollReleased, pollWait, ctlVars, appVars
  <1>8. CASE send_reqs
    <2>1. CASE sendQuit \/ sendWait \/ sendDone \/ sendLost \/ sendWaitOp \/ sendAwake
      BY <2>1, SameMarks DEF sendQuit, sendWait, sendDone, sendLost, sendWaitOp, sendAwake,
                             ctlVars, appVars
    <2>2. CASE sendFails
      BY <1>4, <2>2 DEF sendFails, Errors
    <2>3. CASE sendRefresh
      BY <1>3, <2>3 DEF sendRefresh
    <2> QED
      BY <1>8, <2>1, <2>2, <2>3 DEF send_reqs
  <1>9. CASE gen_results
    <2>1. CASE genTimeout \/ recvPacket \/ recvWait \/ recvTimer \/ recvNothing
      BY <2>1, SameMarks DEF genTimeout, recvPacket, recvWait, recvTimer, recvNothing,
                             ctlVars, appVars
    <2>2. CASE genNothing \/ genError
      <3>1. /\ UNCHANGED appVars
            /\ UNCHANGED ctlVars \/ \E err \in Errors : set_op_error(err)
        BY <2>2 DEF genNothing, genError, Errors
      <3> QED
        BY <1>4, <3>1, SameMarks DEF ctlVars, appVars
    <2>3. CASE genAnswer /\ ~IsCurrent(rx.id)
      BY <1>3, <2>3 DEF genAnswer
    <2>4. CASE genAnswer /\ IsCurrent(rx.id)
      <3>1. \A i \in 1 .. Len(operations) :
              operations[i].status = "CANCELLED" => operations'[i].status = "CANCELLED"
        BY <2>4, AnswerStatuses
      <3>2. SameOpIds /\ UNCHANGED <<requests, dropped>>
        BY <2>4, AnswerStatuses DEF genAnswer, appVars
      <3> QED
        BY <3>1, <3>2 DEF MarksStay, SameRequestIds
    <2> QED
      BY <1>9, <2>1, <2>2, <2>3, <2>4 DEF gen_results
  <1>10. CASE clock
    BY <1>3, <1>10 DEF clock
  <1> QED
    BY <1>1, <1>2, <1>5, <1>6, <1>7, <1>8, <1>9, <1>10 DEF Next, poll

(* cancel() marks the queued requests it is about and cancels the others. *)
LEMMA CancelDrops ==
  ASSUME TypeOK, OrderInv, DropInv, NEW id \in TtsId \cup {0}, cancel(id)
  PROVE  DropInv'
  <1>0. OpType(TtsId, Errors) /\ Len(requests) \in Nat /\ Len(operations) \in Nat
    BY TypeParts, SeqElement DEF TypeOK
  <1>1. Len(requests') = Len(requests)
        /\ \A i \in 1 .. Len(requests) : requests'[i].id = requests[i].id
    BY CancelRequests
  <1>2. ASSUME NEW j \in 1 .. Len(requests),
               requests[j].deleted \/ id = 0 \/ requests[j].id = id
        PROVE  requests'[j].deleted
    <2>1. requests[j] \in [id : TtsId, deleted : BOOLEAN]
      BY RequestElement
    <2>2. requests'[j] = IF id = 0 \/ requests[j].id = id
                         THEN [requests[j] EXCEPT !.deleted = TRUE] ELSE requests[j]
      BY DEF cancel
    <2> QED
      BY <1>2, <2>1, <2>2
  <1>3. ASSUME NEW j \in 1 .. Len(operations), operations[j].status = "CANCELLED"
                 \/ ((id = 0 \/ id \notin QueuedIds) /\ (id = 0 \/ operations[j].id = id))
        PROVE  operations'[j].status = "CANCELLED"
    <2>1. CASE UNCHANGED ctlVars
      <3>1. operations' = operations
        BY <2>1 DEF ctlVars
      <3>2. CASE id = 0 \/ id \notin QueuedIds
        <4>1. cancel_op(id)
          BY <3>2 DEF cancel
        <4> QED
          BY <2>1, <3>1, <4>1, <1>3, <1>0, CancelKeeps, DistinctIds DEF Hit
      <3> QED
        BY <1>3, <3>1, <3>2
    <2>2. CASE cancel_op(id)
      <3>1. operations'[j].status = IF Hit(id, j) THEN "CANCELLED" ELSE operations[j].status
        BY <1>0, <2>2, CancelKeeps
      <3>2. ASSUME operations[j].id = id PROVE Hit(id, j)
        <4>1. \A k \in 1 .. j - 1 : k \in 1 .. Len(operations) /\ k # j
          BY <1>0
        <4> QED
          BY <3>2, <4>1, DistinctIds DEF Hit
      <3> QED
        BY <1>3, <3>1, <3>2 DEF Hit
    <2> QED
      BY <2>1, <2>2 DEF cancel
  <1>4. SameOpIds
    BY <1>0, CancelKeeps DEF cancel, ctlVars, SameOpIds
  <1>5. ASSUME NEW i \in dropped'
        PROVE  \/ \E j \in 1 .. Len(requests') : requests'[j].id = i /\ requests'[j].deleted
               \/ \E j \in 1 .. Len(operations') :
                    operations'[j].id = i /\ operations'[j].status = "CANCELLED"
    <2>1. i \in dropped \/ (i \in QueuedIds \cup OpIds /\ (id = 0 \/ i = id))
      BY DEF cancel
    <2>2. CASE \E j \in 1 .. Len(requests) :
                 requests[j].id = i /\ (requests[j].deleted \/ id = 0 \/ requests[j].id = id)
      BY <1>1, <1>2, <2>2
    <2>3. CASE \E j \in 1 .. Len(operations) :
                 /\ operations[j].id = i
                 /\ operations[j].status = "CANCELLED"
                      \/ ((id = 0 \/ id \notin QueuedIds) /\ (id = 0 \/ operations[j].id = id))
      BY <1>3, <1>4, <2>3 DEF SameOpIds
    <2>4. CASE i \in dropped
      BY <2>2, <2>3, <2>4 DEF DropInv
    <2>5. CASE i \in QueuedIds /\ (id = 0 \/ i = id)
      BY <2>2, <2>5 DEF QueuedIds
    <2>6. CASE i \in OpIds /\ i \notin QueuedIds /\ (id = 0 \/ i = id)
      BY <2>3, <2>6 DEF OpIds
    <2> QED
      BY <2>1, <2>4, <2>5, <2>6
  <1> QED
    BY <1>5 DEF DropInv

(* A cancelled request leaves when its result is returned, and only then. *)
LEMMA DropPoll ==
  ASSUME IInv, DropInv, pollDead \/ pollItem
  PROVE  DropInv'
  <1>0. TypeOK /\ OrderInv /\ operations # <<>> /\ requests' = requests
    BY DeadStep, ItemStep
  <1>1. CASE UNCHANGED <<ctlVars, dropped>>
    <2>1. MarksStay /\ dropped' = dropped
      BY <1>0, <1>1, SameMarks DEF ctlVars
    <2> QED
      BY <2>1, DropKept
  <1>2. CASE remove_front_op /\ dropped' = dropped \ {operations[1].id}
    <2>1. /\ Len(operations) \in Nat \ {0} /\ Len(operations') = Len(operations) - 1
          /\ \A i \in 1 .. Len(operations) - 1 : operations'[i] = operations[i + 1]
      BY <1>0, <1>2, TypeParts, RemoveFrontKeeps
    <2>2. ASSUME NEW j \in 1 .. Len(operations), operations[j].id \in dropped',
                 operations[j].status = "CANCELLED"
          PROVE  \E k \in 1 .. Len(operations') :
                   operations'[k].id = operations[j].id /\ operations'[k].status = "CANCELLED"
      <3>1. j # 1
        BY <1>2, <2>2
      <3>2. j - 1 \in 1 .. Len(operations') /\ j - 1 \in 1 .. Len(operations) - 1
            /\ (j - 1) + 1 = j
        BY <2>1, <3>1
      <3>3. operations'[j - 1] = operations[j]
        BY <2>1, <3>2
      <3> QED
        BY <2>2, <3>2, <3>3
    <2> QED
      BY <1>0, <1>2, <2>2 DEF DropInv
  <1> QED
    BY <1>1, <1>2, DeadStep, ItemStep

(* Every mark of cancel() is kept until its result is returned. *)
LEMMA DropStep ==
  ASSUME MaxSessions <= 1, IInv, initialized => DropInv, [Next]_vars, initialized'
  PROVE  DropInv'
  <1>0. TypeOK /\ (initialized => DropInv /\ OrderInv)
        /\ Len(operations) \in Nat /\ Len(requests) \in Nat
    BY SeqElement DEF IInv, Live, TypeOK
  <1>1. CASE prepare
    BY <1>1 DEF prepare, DropInv
  <1>2. initialized \/ prepare
    BY SilentSteps DEF speakQueue, pollDead, pollItem
  <1>3. CASE initialized /\ MarksStay /\ dropped' = dropped
    BY <1>0, <1>3, DropKept
  <1>4. CASE initialized /\ \E c \in Callers : speakQueue(c)
    <2>1. /\ requests' = Append(requests, [id |-> next_id + 1, deleted |-> FALSE])
          /\ next_id < MaxId
          /\ dropped' = dropped /\ operations' = operations
      BY <1>4 DEF speakQueue, ctlVars
    <2>2. next_id \in Nat /\ requests \in Seq([id : TtsId, deleted : BOOLEAN])
      BY <1>0 DEF TypeOK
    <2>3. [id |-> next_id + 1, deleted |-> FALSE] \in [id : TtsId, deleted : BOOLEAN]
      BY <2>1, <2>2, TtsAssumption DEF TtsId
    <2>4. /\ Len(requests') = Len(requests) + 1
          /\ \A i \in 1 .. Len(requests) : i \in 1 .. Len(requests') /\ requests'[i] = requests[i]
      BY <1>0, <2>1, <2>2, <2>3, SeqAppend
    <2> QED
      BY <1>0, <1>4, <2>1, <2>4 DEF DropInv
  <1>5. CASE initialized /\ \E id \in TtsId \cup {0} : cancel(id)
    BY <1>0, <1>5, CancelDrops
  <1>6. CASE initialized /\ sendTake
    <2>1. /\ requests \in Seq([id : TtsId, deleted : BOOLEAN]) /\ requests # <<>>
          /\ requests' = Tail(requests) /\ dropped' = dropped
          /\ new_op(requests[1].id, IF requests[1].deleted THEN "CANCELLED" ELSE "START")
      BY <1>0, <1>6 DEF sendTake, TypeOK
    <2>2. /\ Len(requests) \in Nat \ {0} /\ Len(requests') = Len(requests) - 1
          /\ \A i \in 1 .. Len(requests) - 1 : requests'[i] = requests[i + 1]
          /\ requests[1] \in [id : TtsId, deleted : BOOLEAN]
      BY <2>1, SeqTail
    <2>3. /\ Len(operations') = Len(operations) + 1
          /\ \A i \in 1 .. Len(operations) :
               i \in 1 .. Len(operations') /\ operations'[i] = operations[i]
          /\ Len(operations) + 1 \in 1 .. Len(operations')
          /\ operations'[Len(operations) + 1].id = requests[1].id
          /\ requests[1].deleted => operations'[Len(operations) + 1].status = "CANCELLED"
      BY <1>0, <2>1, <2>2, TypeParts, NewOpKeeps DEF Status
    <2>4. ASSUME NEW j \in 1 .. Len(requests), requests[j].deleted
          PROVE  \/ \E k \in 1 .. Len(requests') :
                      requests'[k].id = requests[j].id /\ requests'[k].deleted
                 \/ \E k \in 1 .. Len(operations') :
                      operations'[k].id = requests[j].id /\ operations'[k].status = "CANCELLED"
      <3>1. CASE j = 1
        BY <2>3, <2>4, <3>1
      <3>2. CASE j # 1
        <4>1. j - 1 \in 1 .. Len(requests') /\ requests'[j - 1] = requests[j]
          BY <2>2, <3>2
        <4> QED
          BY <2>4, <4>1
      <3> QED
        BY <3>1, <3>2
    <2> QED
      BY <1>0, <1>6, <2>1, <2>3, <2>4 DEF DropInv
  <1>7. CASE pollDead \/ pollItem
    BY <1>0, <1>7, DropPoll, DeadStep, ItemStep
  <1> QED
    BY <1>1, <1>2, <1>3, <1>4, <1>5, <1>6, <1>7, MarkSteps

(* What the step returns for a cancelled request. *)
LEMMA DropGives ==
  ASSUME IInv, HeardInv, initialized => DropInv, [Next]_vars, session' = session,
         NEW i \in dropped, heard'[i] # heard[i]
  PROVE  heard'[i] = Append(heard[i], Result("CANCELLED", NoVoice, NoError))
  <1>0. TypeOK /\ HeardType /\ i \in TtsId
    BY DEF IInv, TypeOK, HeardInv
  <1>1. ~prepare
    BY <1>0, TtsAssumption DEF prepare, TypeOK
  <1>2. pollDead \/ pollItem
    BY <1>1, SilentSteps DEF speakQueue, pollVars
  <1>3. initialized /\ OrderInv /\ 1 \in 1 .. Len(operations) /\ operations[1].id \in TtsId
    BY <1>2, DeadStep, ItemStep
  <1>4. ASSUME operations[1].id = i PROVE operations[1].status = "CANCELLED"
    <2>1. CASE \E j \in 1 .. Len(requests) : requests[j].id = i
      BY <1>0, <1>3, <1>4, <2>1, OperationElement DEF OrderInv
    <2>2. CASE \E j \in 1 .. Len(operations) :
                 operations[j].id = i /\ operations[j].status = "CANCELLED"
      BY <1>0, <1>3, <1>4, <2>2, DistinctIds
    <2> QED
      BY <1>3, <2>1, <2>2 DEF DropInv
  <1>5. CASE pollDead
    <2>1. PICK err \in Errors \cup {NoError} :
            /\ operations[1].status = "CANCELLED" => err = NoError
            /\ Result(operations[1].status, NoVoice, err) \in Promise!Results
            /\ Hear(operations[1].id, Result(operations[1].status, NoVoice, err))
      BY <1>5, DeadStep
    <2>2. operations[1].id = i
      BY <1>0, <1>3, <2>1, HearKeeps
    <2> QED
      BY <1>0, <1>4, <2>1, <2>2, HearKeeps
  <1>6. CASE pollItem
    <2> DEFINE r == Result(PopType(responses),
                           IF PopType(responses) = "DATA" THEN responses[1].data[1] ELSE NoVoice,
                           NoError)
    <2>1. r \in Promise!Results /\ Hear(operations[1].id, r)
          /\ operations[1].status \in {"STREAMING", "END"}
      BY <1>6, ItemStep, ItemIsResult
    <2> HIDE DEF r
    <2>2. operations[1].id = i
      BY <1>0, <1>3, <2>1, HearKeeps
    <2> QED
      BY <1>4, <2>1, <2>2
  <1> QED
    BY <1>2, <1>5, <1>6

(* Once cancel(id) has returned, poll() returns nothing but CANCELLED for  *)
(* that request (tts_impl.cc:116-138, op_ctl.h:49-57,68-85): until then it *)
(* is queued and marked, or an operation that is cancelled.                *)
THEOREM CancelsAreHonoured ==
  ASSUME MaxSessions <= 1, "spurious" \notin Faults
  PROVE  Spec => CancelHonoured
  <1> DEFINE Inv == IInv /\ HeardInv /\ (initialized => DropInv)
  <1>1. Init => Inv
    BY InitInv, InitHeard DEF Init
  <1>2. Inv /\ [Next]_vars => Inv'
    BY NextInv, HeardStep, DropStep
  <1>3. Inv /\ [Next]_vars =>
          [\A i \in dropped :
             heard'[i] # heard[i] /\ session' = session =>
               heard'[i] = Append(heard[i], Result("CANCELLED", NoVoice, NoError))]_vars
    BY DropGives
  <1> QED
    BY <1>1, <1>2, <1>3, PTL DEF Spec, CancelHonoured

(* The condition variables one by one. *)
SendSleeps == reqPc = "asleep" /\ ctlPc # "closing" => initialized /\ requests = <<>>
RecvSleeps == respPc = "asleep" => inbox = <<>>
PollSleeps == pollPc = "asleep" /\ initialized => NothingToReturn
CondHasOp  == op_cond => current # 0

SleepInv == SendSleeps /\ RecvSleeps /\ PollSleeps /\ CondHasOp

(* SleepersIdle, put together. *)
LEMMA SleepGives == IInv /\ SleepInv => SleepersIdle
  BY DEF IInv, SenderInv, SleepInv, SendSleeps, RecvSleeps, PollSleeps, CondHasOp,
         SleepersIdle, IsCurrent

(* No thread runs yet. *)
LEMMA InitSleep == Init => SleepInv
  BY DEF Init, CtlInit, SleepInv, SendSleeps, RecvSleeps, PollSleeps, CondHasOp

(* req_cond_: speak() and release() notify it. *)
LEMMA SendSleepsStep ==
  ASSUME IInv, SendSleeps, [Next]_vars PROVE SendSleeps'
  <1> USE DEF SendSleeps, appVars, reqVars
  <1>1. CASE UNCHANGED vars
    BY <1>1 DEF vars
  <1>2. CASE (\E i \in TtsId : serverAnswers(i)) \/ (\E k \in {"broken", "badData"} : linkError(k))
               \/ clock
    BY <1>2 DEF serverAnswers, linkError, clock
  <1>3. CASE prepare \/ releaseBegin \/ releaseJoinReq \/ releaseJoinResp
    BY <1>3 DEF prepare, releaseBegin, releaseJoinReq, releaseJoinResp, WakeReq
  <1>4. CASE releaseClose
    BY <1>4 DEF releaseClose, WakeReq
  <1>5. CASE \E c \in Callers : speakTest(c) \/ speakQueue(c)
    BY <1>5 DEF speakTest, speakQueue, WakeReq
  <1>6. CASE \E id \in TtsId \cup {0} : cancel(id)
    <2>1. Len(requests') = Len(requests) /\ requests' \in Seq([id : TtsId, deleted : BOOLEAN])
      BY <1>6, CancelRequests DEF IInv
    <2>2. requests = <<>> => requests' = <<>>
      BY <2>1
    <2> QED
      BY <1>6, <2>2 DEF cancel
  <1>7. CASE poll
    BY <1>7 DEF poll, pollReleased, pollWait, pollDead, pollItem
  <1>8. CASE send_reqs
    BY <1>8 DEF send_reqs, sendQuit, sendWait, sendTake, sendDone, sendLost, sendFails,
                sendRefresh, sendWaitOp, sendAwake
  <1>9. CASE gen_results
    BY <1>9 DEF gen_results, genTimeout, recvPacket, recvWait, recvTimer, recvNothing,
                genAnswer, genNothing, genError
  <1> QED
    BY <1>1, <1>2, <1>3, <1>4, <1>5, <1>6, <1>7, <1>8, <1>9 DEF Next

(* The connection's condition variable: every packet notifies it. *)
LEMMA RecvSleepsStep ==
  ASSUME RecvSleeps, [Next]_vars PROVE RecvSleeps'
  <1> USE DEF RecvSleeps, respVars, netVars
  <1>1. CASE UNCHANGED vars
    BY <1>1 DEF vars
  <1>2. CASE (\E i \in TtsId : serverAnswers(i)) \/ (\E k \in {"broken", "badData"} : linkError(k))
               \/ clock
    BY <1>2 DEF serverAnswers, linkError, clock, Deliver, WakeRecv
  <1>3. CASE prepare \/ releaseBegin \/ releaseClose \/ releaseJoinReq \/ releaseJoinResp
    BY <1>3 DEF prepare, releaseBegin, releaseClose, releaseJoinReq, releaseJoinResp, WakeRecv
  <1>4. CASE \E c \in Callers : speakTest(c) \/ speakQueue(c)
    BY <1>4 DEF speakTest, speakQueue
  <1>5. CASE \E id \in TtsId \cup {0} : cancel(id)
    BY <1>5 DEF cancel
  <1>6. CASE poll
    BY <1>6 DEF poll, pollReleased, pollWait, pollDead, pollItem
  <1>7. CASE send_reqs
    BY <1>7 DEF send_reqs, sendQuit, sendWait, sendTake, sendDone, sendLost, sendFails,
                sendRefresh, sendWaitOp, sendAwake
  <1>8. CASE gen_results
    BY <1>8 DEF gen_results, genTimeout, recvPacket, recvWait, recvTimer, recvNothing,
                genAnswer, genNothing, genError
  <1> QED
    BY <1>1, <1>2, <1>3, <1>4, <1>5, <1>6, <1>7, <1>8 DEF Next

(* notify_one of op_cond_: whatever ends the current operation wakes it. *)
LEMMA CondHasOpStep ==
  ASSUME IInv, CondHasOp, [Next]_vars PROVE CondHasOp'
  <1>0. OpType(TtsId, Errors) /\ current \in Nat /\ op_cond \in BOOLEAN
    BY TypeParts DEF IInv, OpType
  <1>1. CASE UNCHANGED ctlVars \/ refresh_op_time(TRUE) \/ refresh_op_time(FALSE) \/ GrowsIdle
    BY <1>1 DEF CondHasOp, ctlVars, refresh_op_time, GrowsIdle
  <1>2. CASE \E err \in Errors : set_op_error(err)
    BY <1>2 DEF CondHasOp, set_op_error, ctlVars
  <1>3. CASE finish_op
    BY <1>3 DEF CondHasOp, finish_op, ctlVars
  <1>4. CASE \E id \in TtsId \cup {0} : cancel_op(id)
    BY <1>4 DEF CondHasOp, cancel_op
  <1>5. CASE pollDead \/ pollItem
    <2>1. CASE UNCHANGED ctlVars
      BY <1>1, <2>1
    <2>2. CASE remove_front_op /\ operations[1].status \notin {"START", "STREAMING"}
      <3>1. 1 \in 1 .. Len(operations)
        BY <1>5, DeadStep, ItemStep
      <3>2. current # 1
        BY <2>2, <3>1 DEF IInv, OneInFlight
      <3> QED
        BY <1>0, <2>2, <3>2 DEF CondHasOp, remove_front_op
    <2>3. \/ UNCHANGED ctlVars
          \/ remove_front_op /\ operations[1].status \notin {"START", "STREAMING"}
      BY <1>5, DeadStep, ItemStep
    <2> QED
      BY <2>1, <2>2, <2>3
  <1>6. CASE sendTake
    <2>1. ~op_cond
      BY <1>6 DEF IInv, SenderInv, sendTake
    <2> QED
      BY <1>6, <2>1 DEF CondHasOp, sendTake, new_op
  <1>7. CASE sendWaitOp \/ sendAwake
    BY <1>7 DEF CondHasOp, sendWaitOp, sendAwake, IsCurrent
  <1>8. CASE genAnswer /\ IsCurrent(rx.id)
    BY <1>8 DEF CondHasOp, genAnswer, Answer
  <1>9. \/ UNCHANGED ctlVars \/ refresh_op_time(TRUE) \/ refresh_op_time(FALSE) \/ GrowsIdle
        \/ (\E err \in Errors : set_op_error(err)) \/ finish_op
        \/ (\E id \in TtsId \cup {0} : cancel_op(id)) \/ pollDead \/ pollItem \/ sendTake
        \/ sendWaitOp \/ sendAwake \/ (genAnswer /\ IsCurrent(rx.id))
    <2>1. CASE UNCHANGED vars
      BY <2>1 DEF vars, ctlVars
    <2>2. CASE (\E i \in TtsId : serverAnswers(i)) \/ clock
                 \/ (\E k \in {"broken", "badData"} : linkError(k))
      BY <2>2 DEF serverAnswers, linkError, clock
    <2>3. CASE prepare \/ releaseBegin \/ releaseClose \/ releaseJoinReq \/ releaseJoinResp
      BY <2>3 DEF prepare, releaseBegin, releaseClose, releaseJoinReq, releaseJoinResp
    <2>4. CASE \E c \in Callers : speakTest(c) \/ speakQueue(c)
      BY <2>4 DEF speakTest, speakQueue
    <2>5. CASE \E id \in TtsId \cup {0} : cancel(id)
      BY <2>5 DEF cancel
    <2>6. CASE poll
      BY <2>6 DEF poll, pollReleased, pollWait
    <2>7. CASE send_reqs
      <3>1. CASE sendFails
        BY <3>1 DEF sendFails, Errors
      <3>2. CASE sendQuit \/ sendWait \/ sendDone \/ sendLost
        BY <3>2 DEF sendQuit, sendWait, sendDone, sendLost
      <3>3. CASE sendRefresh
        BY <3>3 DEF sendRefresh
      <3>4. CASE sendTake \/ sendWaitOp \/ sendAwake
        BY <3>4
      <3>5. sendQuit \/ sendWait \/ sendDone \/ sendLost \/ sendFails \/ sendRefresh
              \/ sendTake \/ sendWaitOp \/ sendAwake
        BY <2>7 DEF send_reqs
      <3> QED
        BY <3>1, <3>2, <3>3, <3>4, <3>5
    <2>8. CASE gen_results
      BY <2>8 DEF gen_results, genTimeout, recvPacket, recvWait, recvTimer, recvNothing,
                  genAnswer, genNothing, genError, Errors
    <2> QED
      BY <2>1, <2>2, <2>3, <2>4, <2>5, <2>6, <2>7, <2>8 DEF Next
  <1> QED
    BY <1>1, <1>2, <1>3, <1>4, <1>5, <1>6, <1>7, <1>8, <1>9

(* A cancel that does not wake the polling thread changes nothing it sleeps *)
(* for: the front operation is current, or has its whole answer waiting.    *)
LEMMA CancelSleeps ==
  ASSUME IInv, Live, NothingToReturn, NEW id, cancel_op(id), ~CancelsCurrent(id),
         responses' = responses
  PROVE  NothingToReturn'
  <1>0. TypeOK /\ OrderInv /\ StreamInv /\ OpType(TtsId, Errors) /\ Len(operations) \in Nat
    BY TypeParts, SeqElement DEF IInv, OpType
  <1>1. SameOpIds /\ \A i \in 1 .. Len(operations) :
                       operations'[i].status = IF Hit(id, i) THEN "CANCELLED"
                                               ELSE operations[i].status
    BY <1>0, CancelKeeps
  <1>2. CASE operations = <<>>
    <2>1. Len(operations') = 0 /\ operations' \in Seq(Operation(TtsId, Errors))
      BY <1>0, <1>1, <1>2, CancelKeeps DEF SameOpIds, OpType
    <2> QED
      BY <2>1 DEF NothingToReturn
  <1>3. CASE operations # <<>>
    <2>1. 1 \in 1 .. Len(operations) /\ operations[1].status \in Status
          /\ PopType(responses) = "EMPTY"
          /\ operations[1].status \notin {"CANCELLED", "ERROR"}
      BY <1>0, <1>3, OperationElement, SeqTail DEF NothingToReturn, OpType
    <2>2. operations[1].status # "END"
      <3> SUFFICES ASSUME operations[1].status = "END" PROVE FALSE
        OBVIOUS
      <3>1. HasStream(responses, operations[1].id)
        BY <1>0, <2>1 DEF StreamInv
      <3>2. responses # <<>> /\ responses[1].id = operations[1].id
        BY <1>0, <1>3, <3>1, FrontStream
      <3>3. 1 \in 1 .. Len(responses)
        BY <1>0, <3>2, SeqTail DEF TypeOK
      <3>4. responses[1].type = "completed"
        BY <1>0, <2>1, <3>2, <3>3 DEF StreamInv
      <3> QED
        BY <2>1, <3>2, <3>4 DEF PopType, FrontType
    <2>3. current = 1
      BY <2>1, <2>2 DEF IInv, OneInFlight, Status
    <2>4. ~Hit(id, 1)
      BY <2>1, <2>3 DEF CancelsCurrent
    <2> QED
      BY <1>1, <2>1, <2>4 DEF NothingToReturn
  <1> QED
    BY <1>2, <1>3

(* resp_cond_: each step that gives poll() something to return notifies it. *)
LEMMA PollSleepsStep ==
  ASSUME MaxSessions <= 1, "spurious" \notin Faults, IInv, PollSleeps, [Next]_vars
  PROVE  PollSleeps'
  <1> SUFFICES ASSUME pollPc' = "asleep", initialized' PROVE NothingToReturn'
    BY DEF PollSleeps
  <1>0. TypeOK /\ OpType(TtsId, Errors) /\ Len(operations) \in Nat /\ IInv'
    BY TypeParts, SeqElement, NextInv DEF IInv, OpType
  <1>1. ASSUME UNCHANGED <<operations, responses, pollPc, initialized>>
        PROVE  NothingToReturn'
    BY <1>1 DEF PollSleeps, NothingToReturn
  <1>2. ASSUME UNCHANGED <<responses, pollPc, initialized>>, SameOpIds,
               \A i \in 1 .. Len(operations) : operations'[i].status = operations[i].status
        PROVE  NothingToReturn'
    <2>1. /\ operations' \in Seq(Operation(TtsId, Errors))
          /\ operations \in Seq(Operation(TtsId, Errors))
      BY <1>0 DEF IInv, TypeOK
    <2>2. operations' = <<>> <=> operations = <<>>
      BY <1>2, <2>1 DEF SameOpIds
    <2>3. operations # <<>> => 1 \in 1 .. Len(operations)
      BY <2>1, SeqTail
    <2> QED
      BY <1>2, <2>2, <2>3 DEF PollSleeps, NothingToReturn
  <1>3. ASSUME UNCHANGED <<responses, pollPc, initialized>>,
               refresh_op_time(TRUE) \/ refresh_op_time(FALSE) \/ GrowsIdle
        PROVE  NothingToReturn'
    <2>1. SameOpIds /\ \A i \in 1 .. Len(operations) : operations'[i].status = operations[i].status
      BY <1>0, <1>3, GrowsIdleKeeps, RefreshKeeps
    <2> QED
      BY <1>0, <1>2, <1>3, <2>1
  <1>4. CASE UNCHANGED vars
    BY <1>1, <1>4 DEF vars
  <1>5. CASE (\E i \in TtsId : serverAnswers(i)) \/ (\E k \in {"broken", "badData"} : linkError(k))
    BY <1>1, <1>5 DEF serverAnswers, linkError, appVars, ctlVars, pollVars
  <1>6. CASE clock
    BY <1>3, <1>6 DEF clock, appVars, pollVars
  <1>7. CASE prepare
    BY <1>7 DEF prepare
  <1>8. CASE releaseBegin \/ releaseClose \/ releaseJoinReq \/ releaseJoinResp
    <2>1. ctlPc # "idle" => ~initialized
      BY DEF IInv, SenderInv
    <2> QED
      BY <1>8, <2>1 DEF releaseBegin, releaseClose, releaseJoinReq, releaseJoinResp, appVars
  <1>9. CASE \E c \in Callers : speakTest(c) \/ speakQueue(c)
    BY <1>1, <1>9 DEF speakTest, speakQueue, ctlVars, pollVars
  <1>10. CASE \E id \in TtsId \cup {0} : cancel(id)
    <2> PICK id \in TtsId \cup {0} : cancel(id)
      BY <1>10
    <2>1. initialized /\ responses' = responses /\ Live
      BY DEF cancel, Live
    <2>2. CASE UNCHANGED <<ctlVars, pollPc>>
      BY <1>1, <2>1, <2>2 DEF ctlVars, cancel
    <2>3. CASE cancel_op(id) /\ CancelsCurrent(id) /\ WakePoll
      BY <2>3 DEF WakePoll
    <2>4. CASE cancel_op(id) /\ ~CancelsCurrent(id) /\ pollPc' = pollPc
      BY <2>1, <2>4, CancelSleeps DEF PollSleeps
    <2> QED
      BY <2>2, <2>3, <2>4 DEF cancel
  <1>11. CASE poll
    <2>1. CASE pollWait
      BY <2>1 DEF pollWait, NothingToReturn, ctlVars
    <2>2. CASE pollReleased \/ pollDead \/ pollItem
      BY <2>2 DEF pollReleased, pollDead, pollItem
    <2> QED
      BY <1>11, <2>1, <2>2 DEF poll
  <1>12. CASE send_reqs
    <2>1. CASE sendQuit \/ sendWait \/ sendDone \/ sendLost \/ sendWaitOp \/ sendAwake
      BY <1>1, <2>1 DEF sendQuit, sendWait, sendDone, sendLost, sendWaitOp, sendAwake,
                        ctlVars, appVars, pollVars
    <2>2. CASE sendFails
      BY <2>2 DEF sendFails, WakePoll
    <2>3. CASE sendRefresh
      BY <1>3, <2>3 DEF sendRefresh, appVars, pollVars
    <2>4. CASE sendTake
      <3>1. /\ requests \in Seq([id : TtsId, deleted : BOOLEAN]) /\ requests # <<>> /\ initialized
            /\ responses' = responses /\ pollPc' = pollPc /\ new_op(requests[1].id, "START")
        BY <1>0, <2>4 DEF sendTake, TypeOK, WakePoll
      <3>2. requests[1] \in [id : TtsId, deleted : BOOLEAN]
        BY <3>1, SeqTail
      <3>3. /\ Len(operations') = Len(operations) + 1
            /\ \A i \in 1 .. Len(operations) : operations'[i] = operations[i]
            /\ operations'[Len(operations) + 1].status = "START"
        BY <1>0, <3>1, <3>2, NewOpKeeps DEF Status
      <3>4. CASE operations = <<>>
        <4>1. operations'[1].status = "START" /\ Len(operations) = 0
          BY <3>3, <3>4, EmptySeq
        <4>2. responses = <<>>
          BY <1>0, <3>1, <4>1 DEF IInv, Live, OrderInv, TypeOK
        <4> QED
          BY <3>1, <4>1, <4>2 DEF NothingToReturn, PopType
      <3>5. CASE operations # <<>>
        <4>1. 1 \in 1 .. Len(operations)
          BY <1>0, <3>5, SeqTail DEF OpType
        <4>2. operations'[1] = operations[1]
          BY <3>3, <4>1
        <4> QED
          BY <3>1, <3>5, <4>2 DEF PollSleeps, NothingToReturn
      <3> QED
        BY <3>4, <3>5
    <2> QED
      BY <1>12, <2>1, <2>2, <2>3, <2>4 DEF send_reqs
  <1>13. CASE gen_results
    <2>1. CASE genTimeout \/ recvPacket \/ recvWait \/ recvTimer \/ recvNothing
      BY <1>1, <2>1 DEF genTimeout, recvPacket, recvWait, recvTimer, recvNothing,
                        ctlVars, appVars, pollVars
    <2>2. CASE genNothing \/ genError
      BY <1>1, <2>2 DEF genNothing, genError, WakePoll, ctlVars, appVars
    <2>3. CASE genAnswer /\ ~IsCurrent(rx.id)
      BY <1>3, <2>3 DEF genAnswer, appVars
    <2>4. CASE genAnswer /\ IsCurrent(rx.id)
      <3>1. Answer(rx) /\ initialized' = initialized
        BY <2>4 DEF genAnswer, appVars
      <3>2. /\ ~rx.finish /\ rx.voice = NoVoice /\ operations[current].status # "START"
            /\ pollPc' = pollPc
        BY <3>1 DEF Answer, WakePoll
      <3>3. responses' = responses
        BY <3>1, <3>2 DEF Answer, Voiced
      <3>4. /\ SameOpIds
            /\ \A i \in 1 .. Len(operations) : operations'[i].status = operations[i].status
        BY <2>4, <3>2, AnswerStatuses
      <3> QED
        BY <1>0, <1>2, <3>1, <3>2, <3>3, <3>4
    <2> QED
      BY <1>13, <2>1, <2>2, <2>3, <2>4 DEF gen_results
  <1> QED
    BY <1>4, <1>5, <1>6, <1>7, <1>8, <1>9, <1>10, <1>11, <1>12, <1>13 DEF Next

(* No lost wakeup in the SDK: a thread asleep in req_cond_, resp_cond_,    *)
(* op_cond_ or the connection's condition variable has nothing to do, on   *)
(* every path that notifies only sometimes (tts_impl.cc:130,281,404;       *)
(* op_ctl.h:49-57).                                                        *)
THEOREM NoThreadOversleeps ==
  ASSUME MaxSessions <= 1, "spurious" \notin Faults
  PROVE  Spec => []SleepersIdle
  <1>1. Init => SleepInv
    BY InitSleep
  <1>2. IInv /\ SleepInv /\ [Next]_vars => SleepInv'
    BY SendSleepsStep, RecvSleepsStep, CondHasOpStep, PollSleepsStep DEF SleepInv
  <1>3. IInv /\ SleepInv => SleepersIdle
    BY SleepGives
  <1> QED
    BY <1>1, <1>2, <1>3, Invariance, PTL DEF Spec

-----------------------------------------------------------------------------
(* The answers on their way: what gen_results has in hand, then what the   *)
(* connection has received.                                                *)
Packet(k) == IF k = 0 THEN rx ELSE inbox[k]
IsData(k) == Packet(k).kind = "data"
IsFor(k, i) == IsData(k) /\ Packet(k).id = i

RxInv == respPc # "handle" => rx = NoResponse

(* From prepare() to the connection's release. *)
LinkInv ==
  /\ linkUp <=> initialized \/ ctlPc = "closing"
  /\ session = 0 => inbox = <<>> /\ rx = NoResponse /\ respPc = "dead"
                      /\ DOMAIN answered = {} /\ ~linkUp

(* The server answers the requests it was sent, each once, with packets    *)
(* that arrive in the order they were sent.                                *)
PacketInv ==
  /\ \A k \in 0 .. Len(inbox) : IsData(k) =>
       /\ Packet(k).id \in DOMAIN answered
       /\ Packet(k).voice <= answered[Packet(k).id].sent
       /\ Packet(k).finish => answered[Packet(k).id].done
  /\ \A k, j \in 0 .. Len(inbox) : k < j /\ IsData(k) /\ IsData(j) /\ Packet(j).id = Packet(k).id =>
       /\ ~Packet(k).finish
       /\ Packet(j).voice # NoVoice => Packet(k).voice < Packet(j).voice

(* No request is sent twice. *)
SentInv ==
  /\ reqPc = "send" => req \notin QueuedIds \cup DOMAIN answered /\ req <= next_id
  /\ QueuedIds \cap DOMAIN answered = {}
  /\ \A i \in DOMAIN answered : i <= next_id

NetInv == RxInv /\ LinkInv /\ PacketInv /\ (linkUp => SentInv)

(* The connection is not there yet. *)
LEMMA InitNet == Init => NetInv
  <1> SUFFICES ASSUME Init PROVE NetInv
    OBVIOUS
  <1>1. /\ rx = NoResponse /\ inbox = <<>> /\ respPc = "dead" /\ linkUp = FALSE
        /\ initialized = FALSE /\ answered = [i \in {} |-> 0] /\ ctlPc = "idle"
    BY DEF Init
  <1>2. Len(inbox) = 0 /\ DOMAIN answered = {}
    BY <1>1, EmptySeq
  <1>3. \A k \in 0 .. Len(inbox) : ~IsData(k)
    BY <1>1, <1>2 DEF IsData, Packet, NoResponse
  <1> QED
    BY <1>1, <1>2, <1>3 DEF NetInv, RxInv, LinkInv, PacketInv

(* gen_results() forgets a packet once it is handled. *)
LEMMA RxInvStep ==
  ASSUME LinkInv, RxInv, TypeOK, MaxSessions <= 1, [Next]_vars PROVE RxInv'
  <1> USE DEF RxInv, respVars
  <1>1. CASE UNCHANGED vars
    BY <1>1 DEF vars
  <1>2. CASE (\E i \in TtsId : serverAnswers(i)) \/ (\E k \in {"broken", "badData"} : linkError(k))
               \/ clock
    BY <1>2 DEF serverAnswers, linkError, clock, Deliver, WakeRecv
  <1>3. CASE prepare
    <2>1. session = 0
      BY <1>3, TtsAssumption DEF prepare, TypeOK
    <2> QED
      BY <1>3, <2>1 DEF prepare, LinkInv
  <1>4. CASE releaseBegin \/ releaseClose \/ releaseJoinReq \/ releaseJoinResp
    BY <1>4 DEF releaseBegin, releaseClose, releaseJoinReq, releaseJoinResp, WakeRecv
  <1>5. CASE \E c \in Callers : speakTest(c) \/ speakQueue(c)
    BY <1>5 DEF speakTest, speakQueue
  <1>6. CASE \E id \in TtsId \cup {0} : cancel(id)
    BY <1>6 DEF cancel
  <1>7. CASE poll
    BY <1>7 DEF poll, pollReleased, pollWait, pollDead, pollItem
  <1>8. CASE send_reqs
    BY <1>8 DEF send_reqs, sendQuit, sendWait, sendTake, sendDone, sendLost, sendFails,
                sendRefresh, sendWaitOp, sendAwake
  <1>9. CASE gen_results
    BY <1>9 DEF gen_results, genTimeout, recvPacket, recvWait, recvTimer, recvNothing,
                genAnswer, genNothing, genError
  <1> QED
    BY <1>1, <1>2, <1>3, <1>4, <1>5, <1>6, <1>7, <1>8, <1>9 DEF Next

(* Only prepare() and release() open and close the connection. *)
LEMMA LinkInvStep ==
  ASSUME IInv, LinkInv, TypeOK', [Next]_vars, MaxSessions <= 1 PROVE LinkInv'
  <1> USE DEF LinkInv, appVars, respVars, netVars
  <1>0. session \in Nat /\ session' \in Nat
    BY TtsAssumption DEF IInv, TypeOK
  <1>1. CASE UNCHANGED vars
    BY <1>1 DEF vars
  <1>2. CASE (\E i \in TtsId : serverAnswers(i)) \/ (\E k \in {"broken", "badData"} : linkError(k))
               \/ clock
    BY <1>2 DEF serverAnswers, linkError, clock, Deliver, WakeRecv
  <1>3. CASE prepare
    BY <1>0, <1>3 DEF prepare
  <1>4. CASE releaseBegin \/ releaseClose \/ releaseJoinReq \/ releaseJoinResp
    BY <1>4 DEF releaseBegin, releaseClose, releaseJoinReq, releaseJoinResp, WakeRecv,
                 IInv, SenderInv
  <1>5. CASE \E c \in Callers : speakTest(c) \/ speakQueue(c)
    BY <1>5 DEF speakTest, speakQueue
  <1>6. CASE \E id \in TtsId \cup {0} : cancel(id)
    BY <1>6 DEF cancel
  <1>7. CASE poll
    BY <1>7 DEF poll, pollReleased, pollWait, pollDead, pollItem
  <1>8. CASE send_reqs
    <2>1. UNCHANGED <<respVars, linkUp, inbox, initialized, ctlPc, session>>
          /\ (DOMAIN answered' = DOMAIN answered \/ linkUp)
      BY <1>8 DEF send_reqs, sendQuit, sendWait, sendTake, sendDone, sendLost, sendFails,
                  sendRefresh, sendWaitOp, sendAwake
    <2> QED
      BY <2>1
  <1>9. CASE gen_results
    <2>1. /\ UNCHANGED <<linkUp, answered, initialized, ctlPc, session>>
          /\ respPc # "dead"
      BY <1>9 DEF gen_results, genTimeout, recvPacket, recvWait, recvTimer, recvNothing,
                  genAnswer, genNothing, genError
    <2> QED
      BY <2>1
  <1> QED
    BY <1>1, <1>2, <1>3, <1>4, <1>5, <1>6, <1>7, <1>8, <1>9 DEF Next

(* SentInv: cancel() and the others leave the ids of the queued requests,  *)
(* the sent ones and the one in hand alone.                                *)
LEMMA SentInvStep ==
  ASSUME IInv, LinkInv, linkUp => SentInv, MaxSessions <= 1, [Next]_vars, linkUp'
  PROVE  SentInv'
  <1> USE DEF SentInv, appVars, reqVars, netVars
  <1>0. TypeOK /\ (linkUp => OrderInv)
    BY DEF IInv, LinkInv, Live
  <1>1. CASE UNCHANGED vars
    <2>1. UNCHANGED <<requests, req, reqPc, answered, next_id, linkUp>>
      BY <1>1 DEF vars
    <2> QED
      BY <2>1 DEF QueuedIds
  <1>2. CASE \/ (\E k \in {"broken", "badData"} : linkError(k)) \/ clock \/ releaseBegin
             \/ releaseJoinReq \/ releaseJoinResp \/ (\E c \in Callers : speakTest(c))
    <2>1. UNCHANGED <<requests, req, reqPc, answered, next_id, linkUp>>
      BY <1>2 DEF linkError, clock, releaseBegin, releaseJoinReq, releaseJoinResp, speakTest
    <2> QED
      BY <2>1 DEF QueuedIds
  <1>3. CASE \E i \in TtsId : serverAnswers(i)
    <2>1. UNCHANGED <<requests, req, reqPc, next_id, linkUp>>
          /\ DOMAIN answered' = DOMAIN answered
      BY <1>3 DEF serverAnswers
    <2> QED
      BY <2>1 DEF QueuedIds
  <1>4. CASE prepare
    <2>1. session = 0
      BY <1>0, <1>4, TtsAssumption DEF prepare, TypeOK
    <2>2. /\ requests' = <<>> /\ answered' = [i \in {} |-> 0] /\ reqPc' = "top"
      BY <1>4, <2>1 DEF prepare, IInv, FreshInv
    <2> QED
      BY <2>2 DEF QueuedIds
  <1>5. CASE releaseClose
    BY <1>5 DEF releaseClose
  <1>6. CASE \E c \in Callers : speakQueue(c)
    <2>1. /\ requests' = Append(requests, [id |-> next_id + 1, deleted |-> FALSE])
          /\ next_id' = next_id + 1 /\ next_id < MaxId /\ UNCHANGED <<req, answered, linkUp>>
          /\ reqPc' = "send" => reqPc = "send"
      BY <1>6 DEF speakQueue, WakeReq
    <2>2. next_id \in Nat /\ requests \in Seq([id : TtsId, deleted : BOOLEAN])
      BY <1>0 DEF TypeOK
    <2>3. [id |-> next_id + 1, deleted |-> FALSE] \in [id : TtsId, deleted : BOOLEAN]
      BY <2>1, <2>2, TtsAssumption DEF TtsId
    <2>4. /\ Len(requests) \in Nat /\ Len(requests') = Len(requests) + 1
          /\ requests'[Len(requests) + 1].id = next_id + 1
          /\ \A i \in 1 .. Len(requests) : requests'[i] = requests[i]
      BY <2>1, <2>2, <2>3, SeqAppend, SeqElement
    <2>5. QueuedIds' = QueuedIds \cup {next_id + 1}
      BY <2>4 DEF QueuedIds
    <2>6. \A i \in DOMAIN answered : i \in Nat
      BY <1>0 DEF TypeOK, TtsId
    <2>7. req \in Nat
      BY <1>0 DEF TypeOK, TtsId
    <2> QED
      BY <2>1, <2>2, <2>5, <2>6, <2>7
  <1>7. CASE \E id \in TtsId \cup {0} : cancel(id)
    <2>1. QueuedIds' = QueuedIds
      BY <1>0, <1>7, CancelRequests DEF QueuedIds
    <2> QED
      BY <1>7, <2>1 DEF cancel
  <1>8. CASE poll
    <2>1. UNCHANGED <<requests, req, reqPc, answered, next_id, linkUp>>
      BY <1>8 DEF poll, pollReleased, pollWait, pollDead, pollItem
    <2> QED
      BY <2>1 DEF QueuedIds
  <1>9. CASE sendTake
    <2>1. /\ requests \in Seq([id : TtsId, deleted : BOOLEAN]) /\ requests # <<>>
          /\ requests' = Tail(requests) /\ UNCHANGED <<answered, next_id, linkUp>>
          /\ reqPc' = "send" => req' = requests[1].id
      BY <1>0, <1>9 DEF sendTake, TypeOK
    <2>2. /\ Len(requests) \in Nat \ {0} /\ Len(requests') = Len(requests) - 1
          /\ \A i \in 1 .. Len(requests) - 1 : requests'[i] = requests[i + 1]
      BY <2>1, SeqTail
    <2>3. ASSUME NEW i \in 1 .. Len(requests')
          PROVE  requests'[i].id \in QueuedIds \ {requests[1].id}
      <3>1. /\ i + 1 \in 1 .. Len(requests) /\ requests'[i] = requests[i + 1]
            /\ 1 \in 1 .. Len(requests)
            /\ i + 1 # 1
        BY <2>2
      <3> QED
        BY <1>0, <2>1, <3>1, DistinctRequests DEF QueuedIds
    <2>4. /\ QueuedIds' \subseteq QueuedIds \ {requests[1].id} /\ requests[1].id \in QueuedIds
          /\ linkUp => requests[1].id <= next_id
      BY <1>0, <2>2, <2>3 DEF QueuedIds, OrderInv
    <2> QED
      BY <2>1, <2>4
  <1>10. CASE sendDone
    <2>1. /\ UNCHANGED <<requests, next_id, linkUp>> /\ reqPc = "send" /\ reqPc' = "sent"
          /\ DOMAIN answered' = DOMAIN answered \cup {req}
      BY <1>10 DEF sendDone
    <2> QED
      BY <2>1 DEF QueuedIds
  <1>11. CASE \/ sendQuit \/ sendWait \/ sendLost \/ sendFails
              \/ sendRefresh \/ sendWaitOp \/ sendAwake
    <2>1. UNCHANGED <<requests, answered, next_id, linkUp>> /\ reqPc' # "send"
      BY <1>11 DEF sendQuit, sendWait, sendLost, sendFails, sendRefresh, sendWaitOp, sendAwake
    <2> QED
      BY <2>1 DEF QueuedIds
  <1>12. CASE gen_results
    <2>1. UNCHANGED <<requests, req, reqPc, answered, next_id, linkUp>>
      BY <1>12 DEF gen_results, genTimeout, recvPacket, recvWait, recvTimer, recvNothing,
                  genAnswer, genNothing, genError
    <2> QED
      BY <2>1 DEF QueuedIds
  <1> QED
    BY <1>1, <1>2, <1>3, <1>4, <1>5, <1>6, <1>7, <1>8, <1>9, <1>10, <1>11, <1>12
       DEF Next, send_reqs

(* The data packets are those there were, in their order; the first may be *)
(* gone, for gen_results dealt with it.                                    *)
Shift(d) ==
  /\ \A k \in 0 .. Len(inbox') : IsData(k)' =>
       k + d \in 0 .. Len(inbox) /\ Packet(k)' = Packet(k + d)
  /\ \A k \in 0 .. Len(inbox) : IsData(k) /\ (genAnswer => k # 0) =>
       k - d \in 0 .. Len(inbox') /\ Packet(k - d)' = Packet(k)

(* Steps that do not touch the packets. *)
LEMMA ShiftNone ==
  ASSUME TypeOK, UNCHANGED <<rx, inbox>> PROVE Shift(0)
  <1>1. Len(inbox) \in Nat
    BY SeqElement DEF TypeOK
  <1> QED
    BY <1>1 DEF Shift, Packet, IsData

(* Every step but an answer of the server only takes a packet away. *)
LEMMA ShiftSteps ==
  ASSUME TypeOK, RxInv, [Next]_vars
  PROVE  \/ prepare
         \/ \E i \in TtsId : serverAnswers(i)
         \/ (UNCHANGED answered \/ sendDone) /\ \E d \in {0, 1} : Shift(d)
  <1> USE DEF respVars, netVars
  <1>0. inbox \in Seq(Response) /\ Len(inbox) \in Nat
    BY SeqElement DEF TypeOK
  <1>1. CASE UNCHANGED vars
    BY <1>1, ShiftNone DEF vars
  <1>2. CASE \E k \in {"broken", "badData"} : linkError(k)
    <2>1. PICK k \in {"broken", "badData"} : linkError(k)
      BY <1>2
    <2>2. inbox' = Append(inbox, Error(k)) /\ UNCHANGED <<rx, answered>>
      BY <2>1 DEF linkError, Deliver
    <2>3. Error(k) \in Response /\ Error(k).kind = k
      BY ErrorIsResponse DEF Error, NoResponse
    <2>4. /\ Len(inbox') = Len(inbox) + 1
          /\ \A j \in 1 .. Len(inbox) : inbox'[j] = inbox[j]
          /\ inbox'[Len(inbox) + 1].kind # "data"
      BY <1>0, <2>2, <2>3, SeqAppend
    <2>5. Shift(0)
      BY <1>0, <2>2, <2>4 DEF Shift, Packet, IsData
    <2> QED
      BY <2>2, <2>5
  <1>3. CASE clock \/ releaseBegin \/ releaseClose \/ releaseJoinReq \/ releaseJoinResp
    BY <1>3, ShiftNone DEF clock, releaseBegin, releaseClose, releaseJoinReq, releaseJoinResp
  <1>4. CASE \E c \in Callers : speakTest(c) \/ speakQueue(c)
    BY <1>4, ShiftNone DEF speakTest, speakQueue
  <1>5. CASE \E id \in TtsId \cup {0} : cancel(id)
    BY <1>5, ShiftNone DEF cancel
  <1>6. CASE poll
    BY <1>6, ShiftNone DEF poll, pollReleased, pollWait, pollDead, pollItem
  <1>7. CASE send_reqs
    <2>1. UNCHANGED <<rx, inbox>> /\ (UNCHANGED answered \/ sendDone)
      BY <1>7 DEF send_reqs, sendQuit, sendWait, sendTake, sendDone, sendLost, sendFails,
                  sendRefresh, sendWaitOp, sendAwake
    <2> QED
      BY <2>1, ShiftNone
  <1>8. CASE genTimeout \/ recvWait \/ recvTimer
    BY <1>8, ShiftNone DEF genTimeout, recvWait, recvTimer
  <1>9. CASE recvPacket
    <2>1. /\ inbox # <<>> /\ rx' = inbox[1] /\ inbox' = Tail(inbox) /\ UNCHANGED answered
          /\ rx.kind # "data"
      BY <1>0, <1>9 DEF recvPacket, RxInv, NoResponse
    <2>2. /\ Len(inbox) \in Nat \ {0} /\ Len(inbox') = Len(inbox) - 1
          /\ \A i \in 1 .. Len(inbox) - 1 : inbox'[i] = inbox[i + 1]
      BY <1>0, <2>1, SeqTail
    <2>3. Shift(1)
      <3>1. ASSUME NEW k \in 0 .. Len(inbox') PROVE Packet(k)' = Packet(k + 1)
        <4>1. CASE k = 0
          BY <2>1, <4>1 DEF Packet
        <4>2. CASE k # 0
          BY <2>2, <4>2 DEF Packet
        <4> QED
          BY <4>1, <4>2
      <3>2. ASSUME NEW k \in 0 .. Len(inbox), IsData(k)
            PROVE  k - 1 \in 0 .. Len(inbox') /\ Packet(k - 1)' = Packet(k)
        <4>1. k # 0
          BY <2>1, <3>2 DEF IsData, Packet
        <4>2. k - 1 \in 0 .. Len(inbox') /\ (k - 1) + 1 = k
          BY <2>2, <4>1
        <4>3. Packet(k - 1)' = Packet((k - 1) + 1)
          BY <3>1, <4>2
        <4> QED
          BY <4>2, <4>3
      <3> QED
        BY <2>2, <3>1, <3>2 DEF Shift
    <2> QED
      BY <2>1, <2>3
  <1>10. CASE recvNothing
    <2>1. rx.kind # "data" /\ rx'.kind # "data" /\ UNCHANGED <<inbox, answered>>
      BY <1>10 DEF recvNothing, RxInv, NoResponse, Error
    <2>2. Shift(0)
      BY <1>0, <2>1 DEF Shift, Packet, IsData
    <2> QED
      BY <2>1, <2>2
  <1>11. CASE genAnswer \/ genNothing \/ genError
    <2>1. /\ rx' = NoResponse /\ UNCHANGED <<inbox, answered>>
          /\ ~genAnswer => rx.kind # "data"
      BY <1>11 DEF genAnswer, genNothing, genError
    <2>2. rx'.kind # "data"
      BY <2>1 DEF NoResponse
    <2>3. Shift(0)
      BY <1>0, <2>1, <2>2 DEF Shift, Packet, IsData
    <2> QED
      BY <2>1, <2>3
  <1> QED
    BY <1>1, <1>2, <1>3, <1>4, <1>5, <1>6, <1>7, <1>8, <1>9, <1>10, <1>11 DEF Next, gen_results

(* A packet is a Response. *)
LEMMA PacketType ==
  ASSUME TypeOK, NEW k \in 0 .. Len(inbox)
  PROVE  /\ Packet(k) \in Response /\ Packet(k).id \in TtsId \cup {0}
         /\ Packet(k).voice \in Nat /\ Packet(k).finish \in BOOLEAN
  <1>1. Packet(k) \in Response
    <2>1. inbox \in Seq(Response) /\ rx \in Response /\ Len(inbox) \in Nat
      BY SeqElement DEF TypeOK
    <2>2. k # 0 => inbox[k] \in Response
      BY <2>1, SeqElement
    <2> QED
      BY <2>1, <2>2 DEF Packet
  <1> QED
    BY <1>1, TtsAssumption DEF Response

(* sendDone: the server hears of a new request, and of no other. *)
LEMMA AnsweredKept ==
  ASSUME SentInv, UNCHANGED answered \/ sendDone
  PROVE  /\ DOMAIN answered \subseteq DOMAIN answered'
         /\ \A i \in DOMAIN answered : answered'[i] = answered[i]
  BY DEF SentInv, sendDone

(* The server sends the next packet for i. *)
LEMMA ServerStep ==
  ASSUME TypeOK, NEW i \in TtsId, serverAnswers(i), NEW n, n = Len(inbox) + 1
  PROVE  /\ Len(inbox) \in Nat /\ Len(inbox') = n
         /\ \A k \in 0 .. Len(inbox) : Packet(k)' = Packet(k)
         /\ IsFor(n, i)'
         /\ i \in DOMAIN answered /\ ~answered[i].done /\ answered[i].sent \in Nat
         /\ DOMAIN answered' = DOMAIN answered
         /\ \A j \in DOMAIN answered \ {i} : answered'[j] = answered[j]
         /\ Packet(n)'.finish => answered'[i].done
         /\ \/ /\ Packet(n)'.voice = NoVoice
               /\ answered'[i].sent = answered[i].sent
            \/ /\ Packet(n)'.voice = answered[i].sent + 1
               /\ answered'[i].sent = answered[i].sent + 1
  <1>1. i \in DOMAIN answered /\ ~answered[i].done
    BY DEF serverAnswers
  <1>2. answered[i].sent \in Nat /\ inbox \in Seq(Response) /\ Len(inbox) \in Nat
    <2>1. answered[i] \in [sent : 0 .. MaxChunks, done : BOOLEAN]
      BY <1>1 DEF TypeOK
    <2> QED
      BY <2>1, SeqElement, TtsAssumption DEF TypeOK
  <1>3. PICK more \in BOOLEAN, finish \in BOOLEAN :
          /\ more => answered[i].sent < MaxChunks
          /\ LET sent == IF more THEN answered[i].sent + 1 ELSE answered[i].sent IN
             /\ Deliver([kind |-> "data", id |-> i, finish |-> finish,
                         voice |-> IF more THEN sent ELSE NoVoice])
             /\ answered' = [answered EXCEPT ![i] = [sent |-> sent, done |-> finish]]
    BY DEF serverAnswers
  <1> DEFINE sent == IF more THEN answered[i].sent + 1 ELSE answered[i].sent
             p == [kind |-> "data", id |-> i, finish |-> finish,
                   voice |-> IF more THEN sent ELSE NoVoice]
  <1>4. p \in Response
    <2>1. sent \in 0 .. MaxChunks
      <3>1. answered[i] \in [sent : 0 .. MaxChunks, done : BOOLEAN]
        BY <1>1 DEF TypeOK
      <3> QED
        BY <1>3, <3>1, TtsAssumption
    <2> QED
      BY <2>1, TtsAssumption DEF Response, NoVoice
  <1>5. /\ p.kind = "data" /\ p.id = i /\ p.finish = finish
        /\ p.voice = IF more THEN answered[i].sent + 1 ELSE NoVoice
    OBVIOUS
  <1>6. inbox' = Append(inbox, p)
        /\ answered' = [answered EXCEPT ![i] = [sent |-> sent, done |-> finish]]
    BY <1>3 DEF Deliver
  <1>7. /\ answered'[i].sent = sent /\ answered'[i].done = finish
        /\ DOMAIN answered' = DOMAIN answered
        /\ \A j \in DOMAIN answered \ {i} : answered'[j] = answered[j]
    BY <1>1, <1>6
  <1> HIDE DEF p
  <1>8. /\ Len(inbox') = Len(inbox) + 1 /\ inbox'[Len(inbox) + 1] = p
        /\ \A j \in 1 .. Len(inbox) : inbox'[j] = inbox[j]
    BY <1>2, <1>4, <1>6, SeqAppend
  <1>9. rx' = rx
    BY DEF serverAnswers
  <1>10. Packet(n)' = p /\ \A k \in 0 .. Len(inbox) : Packet(k)' = Packet(k)
    BY <1>2, <1>8, <1>9 DEF Packet
  <1> QED
    BY <1>1, <1>2, <1>5, <1>7, <1>8, <1>10 DEF IsFor, IsData

(* The order of the packets is that of the server. *)
LEMMA PacketInvStep ==
  ASSUME TypeOK, RxInv, LinkInv, PacketInv, linkUp => SentInv, MaxSessions <= 1, [Next]_vars
  PROVE  PacketInv'
  <1>0. Len(inbox) \in Nat
    BY SeqElement DEF TypeOK
  <1>1. CASE prepare
    <2>1. session = 0
      BY <1>1, TtsAssumption DEF prepare, TypeOK
    <2>2. inbox' = <<>> /\ rx' = NoResponse
      BY <1>1, <2>1 DEF prepare, LinkInv
    <2>3. Len(inbox') = 0 /\ rx'.kind # "data"
      BY <2>2, EmptySeq DEF NoResponse
    <2> QED
      BY <2>3 DEF PacketInv, IsData, Packet
  <1>2. ASSUME NEW i \in TtsId, serverAnswers(i) PROVE PacketInv'
    <2> PICK n \in Nat : n = Len(inbox) + 1
      BY <1>0
    <2>0. /\ Len(inbox') = n /\ \A k \in 0 .. Len(inbox) : Packet(k)' = Packet(k)
          /\ IsData(n)' /\ Packet(n)'.id = i
          /\ i \in DOMAIN answered /\ ~answered[i].done /\ answered[i].sent \in Nat
          /\ DOMAIN answered' = DOMAIN answered
          /\ \A j \in DOMAIN answered \ {i} : answered'[j] = answered[j]
          /\ Packet(n)'.finish => answered'[i].done
          /\ \/ /\ Packet(n)'.voice = NoVoice
                /\ answered'[i].sent = answered[i].sent
             \/ /\ Packet(n)'.voice = answered[i].sent + 1
                /\ answered'[i].sent = answered[i].sent + 1
      BY <1>2, ServerStep DEF IsFor
    <2>1. \A k \in 0 .. Len(inbox) : (IsData(k)' <=> IsData(k))
      BY <2>0 DEF IsData
    <2>2. ASSUME NEW k \in 0 .. n, IsData(k)'
          PROVE  /\ Packet(k)'.id \in DOMAIN answered'
                 /\ Packet(k)'.voice <= answered'[Packet(k)'.id].sent
                 /\ Packet(k)'.finish => answered'[Packet(k)'.id].done
      <3>1. CASE k = n
        BY <2>0, <3>1, TtsAssumption DEF NoVoice
      <3>2. CASE k # n
        <4>1. k \in 0 .. Len(inbox) /\ IsData(k) /\ Packet(k)' = Packet(k)
          BY <1>0, <2>0, <2>1, <2>2, <3>2
        <4>2. /\ Packet(k).id \in DOMAIN answered /\ Packet(k).voice \in Nat
              /\ Packet(k).voice <= answered[Packet(k).id].sent
              /\ Packet(k).finish => answered[Packet(k).id].done
          BY <4>1, PacketType DEF PacketInv
        <4>3. CASE Packet(k).id = i
          BY <2>0, <4>1, <4>2, <4>3
        <4>4. CASE Packet(k).id # i
          BY <2>0, <4>1, <4>2, <4>4
        <4> QED
          BY <4>3, <4>4
      <3> QED
        BY <3>1, <3>2
    <2>3. ASSUME NEW k \in 0 .. n, NEW j \in 0 .. n, k < j, IsData(k)', IsData(j)',
                 Packet(j)'.id = Packet(k)'.id
          PROVE  /\ ~Packet(k)'.finish
                 /\ Packet(j)'.voice # NoVoice => Packet(k)'.voice < Packet(j)'.voice
      <3>1. k \in 0 .. Len(inbox) /\ IsData(k) /\ Packet(k)' = Packet(k)
        BY <1>0, <2>0, <2>1, <2>3
      <3>2. CASE j = n
        <4>1. /\ Packet(k).id = i /\ Packet(k).voice <= answered[i].sent
              /\ Packet(k).voice \in Nat /\ ~Packet(k).finish
          BY <2>0, <2>3, <3>1, <3>2, PacketType DEF PacketInv
        <4> QED
          BY <2>0, <3>1, <3>2, <4>1
      <3>3. CASE j # n
        <4>1. j \in 0 .. Len(inbox) /\ IsData(j) /\ Packet(j)' = Packet(j)
          BY <1>0, <2>0, <2>1, <2>3, <3>3
        <4> QED
          BY <2>3, <3>1, <4>1 DEF PacketInv
      <3> QED
        BY <3>2, <3>3
    <2> QED
      BY <2>0, <2>2, <2>3 DEF PacketInv
  <1>3. ASSUME UNCHANGED answered \/ sendDone, NEW d \in {0, 1}, Shift(d) PROVE PacketInv'
    <2>1. /\ DOMAIN answered \subseteq DOMAIN answered'
          /\ \A i \in DOMAIN answered : answered'[i] = answered[i]
      BY <1>3, AnsweredKept DEF sendDone
    <2>2. ASSUME NEW k \in 0 .. Len(inbox'), IsData(k)'
          PROVE  k + d \in 0 .. Len(inbox) /\ Packet(k)' = Packet(k + d) /\ IsData(k + d)
      BY <1>3, <2>2 DEF Shift, IsData
    <2>3. ASSUME NEW k \in 0 .. Len(inbox'), IsData(k)'
          PROVE  /\ Packet(k)'.id \in DOMAIN answered'
                 /\ Packet(k)'.voice <= answered'[Packet(k)'.id].sent
                 /\ Packet(k)'.finish => answered'[Packet(k)'.id].done
      <3>1. k + d \in 0 .. Len(inbox) /\ Packet(k)' = Packet(k + d) /\ IsData(k + d)
        BY <2>2, <2>3
      <3> QED
        BY <2>1, <3>1 DEF PacketInv
    <2>4. ASSUME NEW k \in 0 .. Len(inbox'), NEW j \in 0 .. Len(inbox'), k < j,
                 IsData(k)', IsData(j)', Packet(j)'.id = Packet(k)'.id
          PROVE  /\ ~Packet(k)'.finish
                 /\ Packet(j)'.voice # NoVoice => Packet(k)'.voice < Packet(j)'.voice
      <3>1. k + d \in 0 .. Len(inbox) /\ Packet(k)' = Packet(k + d) /\ IsData(k + d)
        BY <2>2, <2>4
      <3>2. j + d \in 0 .. Len(inbox) /\ Packet(j)' = Packet(j + d) /\ IsData(j + d)
        BY <2>2, <2>4
      <3>3. k + d < j + d
        BY <2>4
      <3> QED
        BY <2>4, <3>1, <3>2, <3>3 DEF PacketInv
    <2> QED
      BY <2>3, <2>4 DEF PacketInv
  <1> QED
    BY <1>1, <1>2, <1>3, ShiftSteps

(* NetInv is inductive, given IInv. *)
LEMMA NetStep ==
  ASSUME IInv, TypeOK', NetInv, MaxSessions <= 1, [Next]_vars PROVE NetInv'
  BY RxInvStep, LinkInvStep, PacketInvStep, SentInvStep DEF NetInv, IInv

(* The client has, in its hands or in heard, the first n packets the       *)
(* server sent for i; the others are on their way, and only these.         *)
Awaits(i, n) ==
  i \in DOMAIN answered =>
    /\ n <= answered[i].sent
    /\ \A v \in n + 1 .. answered[i].sent :
         \E k \in 0 .. Len(inbox) : IsFor(k, i) /\ Packet(k).voice = v
    /\ \A k \in 0 .. Len(inbox) : IsFor(k, i) /\ Packet(k).voice # NoVoice => n < Packet(k).voice

(* Whoever waits for packets still does, unless it was handed one. *)
LEMMA AwaitsKept ==
  ASSUME TypeOK, NetInv, [Next]_vars, ~prepare, NEW i \in TtsId, NEW n \in Nat, Awaits(i, n),
         genAnswer => rx.id # i, sendDone /\ req = i => n = 0
  PROVE  Awaits(i, n)'
  <1>0. Len(inbox) \in Nat /\ RxInv /\ PacketInv /\ (linkUp => SentInv)
    BY SeqElement DEF TypeOK, NetInv
  <1>1. ASSUME NEW j \in TtsId, serverAnswers(j) PROVE Awaits(i, n)'
    <2> PICK m \in Nat : m = Len(inbox) + 1
      BY <1>0
    <2>0. /\ Len(inbox') = m /\ \A k \in 0 .. Len(inbox) : Packet(k)' = Packet(k)
          /\ IsFor(m, j)'
          /\ j \in DOMAIN answered /\ answered[j].sent \in Nat
          /\ DOMAIN answered' = DOMAIN answered
          /\ \A l \in DOMAIN answered \ {j} : answered'[l] = answered[l]
          /\ \/ /\ Packet(m)'.voice = NoVoice
                /\ answered'[j].sent = answered[j].sent
             \/ /\ Packet(m)'.voice = answered[j].sent + 1
                /\ answered'[j].sent = answered[j].sent + 1
      BY <1>1, ServerStep
    <2> SUFFICES ASSUME i \in DOMAIN answered
                 PROVE  /\ n <= answered'[i].sent
                        /\ \A v \in n + 1 .. answered'[i].sent :
                             \E k \in 0 .. m : IsFor(k, i)' /\ Packet(k)'.voice = v
                        /\ \A k \in 0 .. m :
                             IsFor(k, i)' /\ Packet(k)'.voice # NoVoice => n < Packet(k)'.voice
      BY <2>0 DEF Awaits
    <2>1. \A k \in 0 .. Len(inbox) : k \in 0 .. m /\ (IsFor(k, i)' <=> IsFor(k, i))
      BY <1>0, <2>0 DEF IsFor, IsData
    <2>2. ASSUME NEW v \in n + 1 .. answered'[i].sent
          PROVE  \E k \in 0 .. m : IsFor(k, i)' /\ Packet(k)'.voice = v
      <3>1. CASE v \in n + 1 .. answered[i].sent
        BY <2>0, <2>1, <3>1 DEF Awaits
      <3>2. CASE v \notin n + 1 .. answered[i].sent
        <4>1. i = j
          BY <2>0, <3>2
        <4>2. v = answered[j].sent + 1 /\ Packet(m)'.voice = v
          BY <2>0, <3>2, <4>1
        <4> QED
          BY <2>0, <4>1, <4>2
      <3> QED
        BY <3>1, <3>2
    <2>3. ASSUME NEW k \in 0 .. m, IsFor(k, i)', Packet(k)'.voice # NoVoice
          PROVE  n < Packet(k)'.voice
      <3>1. CASE k \in 0 .. Len(inbox)
        BY <2>0, <2>1, <2>3, <3>1 DEF Awaits
      <3>2. CASE k \notin 0 .. Len(inbox)
        <4>1. k = m
          BY <1>0, <3>2
        <4>2. i = j
          BY <2>0, <2>3, <4>1 DEF IsFor
        <4> QED
          BY <2>0, <2>3, <4>1, <4>2 DEF Awaits
      <3> QED
        BY <3>1, <3>2
    <2>4. n <= answered'[i].sent
      <3>1. n <= answered[i].sent
        BY DEF Awaits
      <3> QED
        BY <2>0, <3>1
    <2> QED
      BY <2>2, <2>3, <2>4
  <1>2. ASSUME UNCHANGED answered \/ sendDone, NEW d \in {0, 1}, Shift(d) PROVE Awaits(i, n)'
    <2>1. ASSUME NEW k \in 0 .. Len(inbox'), IsFor(k, i)'
          PROVE  /\ k + d \in 0 .. Len(inbox) /\ IsFor(k + d, i)
                 /\ Packet(k)' = Packet(k + d)
      BY <1>2, <2>1 DEF Shift, IsFor, IsData
    <2>2. CASE i \in DOMAIN answered
      <3>1. i \in DOMAIN answered' /\ answered'[i] = answered[i]
        BY <1>0, <1>2, <2>2, AnsweredKept DEF sendDone
      <3>2. ASSUME NEW v \in n + 1 .. answered[i].sent
            PROVE  \E k \in 0 .. Len(inbox') : IsFor(k, i)' /\ Packet(k)'.voice = v
        <4>1. PICK k \in 0 .. Len(inbox) : IsFor(k, i) /\ Packet(k).voice = v
          BY <2>2 DEF Awaits
        <4>2. genAnswer => k # 0
          BY <4>1 DEF IsFor, Packet
        <4>3. k - d \in 0 .. Len(inbox') /\ Packet(k - d)' = Packet(k)
          BY <1>2, <4>1, <4>2 DEF Shift, IsFor
        <4> QED
          BY <4>1, <4>3 DEF IsFor, IsData
      <3>3. \A k \in 0 .. Len(inbox') :
              IsFor(k, i)' /\ Packet(k)'.voice # NoVoice => n < Packet(k)'.voice
        BY <2>1, <2>2 DEF Awaits
      <3> QED
        BY <2>2, <3>1, <3>2, <3>3 DEF Awaits
    <2>3. CASE i \notin DOMAIN answered
      <3>1. \A k \in 0 .. Len(inbox') : ~IsFor(k, i)'
        BY <1>0, <2>1, <2>3 DEF PacketInv, IsFor
      <3>2. i \in DOMAIN answered' => n = 0 /\ answered'[i].sent = 0
        BY <1>2, <2>3 DEF sendDone
      <3> QED
        BY <3>1, <3>2 DEF Awaits
    <2> QED
      BY <2>2, <2>3
  <1> QED
    BY <1>0, <1>1, <1>2, ShiftSteps

(* Voice packets returned by poll(), after the START. *)
Told(i) == IF heard[i] = <<>> THEN 0 ELSE Len(heard[i]) - 1

(* The stream s of an operation of status st: what it holds follows what   *)
(* was returned, and with what is on its way it is all the server sent.    *)
Fits(s, st) ==
  /\ s.polling <=> heard[s.id] # <<>>
  /\ s.id \in DOMAIN answered
  /\ \A j \in 1 .. Len(s.data) : s.data[j] = Told(s.id) + j
  /\ st = "END" => answered[s.id].done /\ answered[s.id].sent = Told(s.id) + Len(s.data)
  /\ st = "STREAMING" => Awaits(s.id, Told(s.id) + Len(s.data))

DataInv ==
  /\ \A i \in 1 .. Len(operations) :
       operations[i].status = "START" => Awaits(operations[i].id, 0)
  /\ \A k \in 1 .. Len(responses), i \in 1 .. Len(operations) :
       responses[k].id = operations[i].id /\ operations[i].status \in {"STREAMING", "END"} =>
         Fits(responses[k], operations[i].status)

(* Told is a number. *)
LEMMA ToldType ==
  ASSUME HeardType, NEW i \in TtsId
  PROVE  Told(i) \in Nat /\ Len(heard[i]) \in Nat /\ (heard[i] # <<>> => Len(heard[i]) > 0)
  <1>1. heard[i] \in Seq(Promise!Results)
    BY DEF HeardType
  <1>2. Len(heard[i]) \in Nat /\ (heard[i] # <<>> => Len(heard[i]) > 0)
    BY <1>1
  <1> QED
    BY <1>2 DEF Told

(* The server goes on, but not with a request whose answer is complete. *)
LEMMA DoneKept ==
  ASSUME TypeOK, NetInv, [Next]_vars, ~prepare, NEW i \in DOMAIN answered
  PROVE  /\ i \in DOMAIN answered'
         /\ answered[i].done => answered'[i] = answered[i]
         /\ sendDone => req # i
  <1>1. (linkUp => SentInv) /\ RxInv
    BY DEF NetInv
  <1>2. ASSUME NEW j \in TtsId, serverAnswers(j)
        PROVE  i \in DOMAIN answered' /\ (answered[i].done => answered'[i] = answered[i])
    <2>1. PICK m \in Nat : m = Len(inbox) + 1
      BY SeqElement DEF TypeOK
    <2>2. /\ ~answered[j].done /\ DOMAIN answered' = DOMAIN answered
          /\ \A l \in DOMAIN answered \ {j} : answered'[l] = answered[l]
      BY <1>2, <2>1, ServerStep
    <2> QED
      BY <2>2
  <1>3. ASSUME UNCHANGED answered \/ sendDone
        PROVE  i \in DOMAIN answered' /\ answered'[i] = answered[i]
    BY <1>1, <1>3, AnsweredKept DEF sendDone
  <1>4. sendDone => req # i
    BY <1>1 DEF sendDone, SentInv
  <1>5. i \in DOMAIN answered' /\ (answered[i].done => answered'[i] = answered[i])
    BY <1>1, <1>2, <1>3, ShiftSteps
  <1> QED
    BY <1>4, <1>5

(* A stream that nobody touched still fits. *)
LEMMA FitsKept ==
  ASSUME TypeOK, NetInv, HeardType, [Next]_vars, ~prepare,
         NEW s \in Stream(TtsId, Voices, {}), NEW st \in {"STREAMING", "END"}, Fits(s, st),
         heard'[s.id] = heard[s.id], genAnswer /\ rx.id = s.id => st = "END"
  PROVE  Fits(s, st)'
  <1>1. s.id \in TtsId /\ Len(s.data) \in Nat
    BY SeqElement DEF Stream
  <1>2. PICK n \in Nat : n = Told(s.id) + Len(s.data)
    BY <1>1, ToldType
  <1>3. Told(s.id)' = Told(s.id)
    BY DEF Told
  <1>4. /\ s.id \in DOMAIN answered'
        /\ answered[s.id].done => answered'[s.id] = answered[s.id]
        /\ sendDone => req # s.id
    BY DoneKept DEF Fits
  <1>5. st = "STREAMING" => Awaits(s.id, n)'
    <2> SUFFICES ASSUME st = "STREAMING" PROVE Awaits(s.id, n)'
      OBVIOUS
    <2>1. Awaits(s.id, n)
      BY <1>2 DEF Fits
    <2> QED
      BY <1>1, <1>4, <2>1, AwaitsKept
  <1>6. st = "STREAMING" => Awaits(s.id, Told(s.id) + Len(s.data))'
    BY <1>2, <1>3, <1>5
  <1> QED
    BY <1>3, <1>4, <1>6 DEF Fits

(* Operations are cancelled or fail; nothing is returned or received. *)
LEMMA DataQuiet ==
  ASSUME IInv, NetInv, HeardType, DataInv, [Next]_vars, ~prepare, SameOpIds,
         UNCHANGED <<responses, heard>>, ~(genAnswer /\ IsCurrent(rx.id)),
         \A i \in 1 .. Len(operations) :
           operations'[i].status \in {operations[i].status, "CANCELLED", "ERROR"}
  PROVE  DataInv'
  <1>0. TypeOK /\ responses \in Seq(Stream(TtsId, Voices, {}))
    BY TypeParts DEF IInv, QueueType
  <1>1. ASSUME NEW i \in 1 .. Len(operations), operations[i].status \in {"START", "STREAMING"},
               genAnswer
        PROVE  rx.id # operations[i].id
    <2>1. current = i /\ i # 0
      BY <1>0, <1>1, SeqElement DEF IInv, OneInFlight, TypeOK
    <2> QED
      BY <1>1, <2>1 DEF IsCurrent
  <1>2. ASSUME NEW i \in 1 .. Len(operations'), operations'[i].status = "START"
        PROVE  Awaits(operations[i].id, 0)'
    <2>1. i \in 1 .. Len(operations) /\ operations[i].status = "START"
          /\ operations'[i].id = operations[i].id
      BY <1>2 DEF SameOpIds
    <2> PICK id \in TtsId : id = operations[i].id
      BY <1>0, <2>1, OperationElement
    <2>2. Awaits(id, 0) /\ (genAnswer => rx.id # id)
      BY <1>1, <2>1 DEF DataInv
    <2>3. Awaits(id, 0)'
      BY <1>0, <2>2, AwaitsKept
    <2> QED
      BY <2>1, <2>3
  <1>3. ASSUME NEW k \in 1 .. Len(responses'), NEW i \in 1 .. Len(operations'),
               responses'[k].id = operations'[i].id,
               operations'[i].status \in {"STREAMING", "END"}
        PROVE  Fits(responses[k], operations[i].status)'
    <2>1. /\ i \in 1 .. Len(operations) /\ operations[i].id = operations'[i].id
          /\ operations[i].status = operations'[i].status
      BY <1>3 DEF SameOpIds
    <2> PICK s \in Stream(TtsId, Voices, {}), st \in {"STREAMING", "END"} :
               s = responses[k] /\ st = operations[i].status
      BY <1>0, <1>3, <2>1, SeqElement
    <2>2. Fits(s, st) /\ s.id = operations[i].id
      BY <1>3, <2>1 DEF DataInv
    <2>3. Fits(s, st)'
      BY <1>0, <1>1, <2>1, <2>2, FitsKept
    <2> QED
      BY <2>1, <2>3
  <1> QED
    BY <1>2, <1>3 DEF DataInv

(* A request becomes an operation before the server knows it. *)
LEMMA DataTake ==
  ASSUME IInv, NetInv, HeardType, DataInv, sendTake PROVE DataInv'
  <1>0. /\ TypeOK /\ OpType(TtsId, Errors) /\ initialized /\ OrderInv /\ SentInv
        /\ [Next]_vars /\ ~prepare /\ ~genAnswer /\ ~sendDone
        /\ UNCHANGED <<responses, heard, answered>>
        /\ responses \in Seq(Stream(TtsId, Voices, {}))
    <2>1. initialized /\ reqPc = "top" /\ UNCHANGED <<responses, heard, answered, rx, session>>
      BY DEF sendTake, netVars, respVars
    <2>2. /\ TypeOK /\ OpType(TtsId, Errors) /\ OrderInv
          /\ responses \in Seq(Stream(TtsId, Voices, {}))
      BY <2>1, TypeParts DEF IInv, Live, QueueType
    <2>3. SentInv
      BY <2>1 DEF NetInv, LinkInv
    <2>4. [Next]_vars /\ ~sendDone
      BY <2>1 DEF Next, send_reqs, sendDone
    <2>5. ~prepare
      BY <2>1, <2>2, TtsAssumption DEF prepare, TypeOK
    <2>6. ~genAnswer
      <3>1. genAnswer => rx.kind = "data" /\ rx' = NoResponse
        BY DEF genAnswer
      <3> QED
        BY <2>1, <3>1 DEF NoResponse
    <2> QED
      BY <2>1, <2>2, <2>3, <2>4, <2>5, <2>6
  <1>1. /\ requests \in Seq([id : TtsId, deleted : BOOLEAN]) /\ requests # <<>>
        /\ new_op(requests[1].id, IF requests[1].deleted THEN "CANCELLED" ELSE "START")
    BY <1>0 DEF sendTake, TypeOK
  <1>2. 1 \in 1 .. Len(requests) /\ requests[1].id \in TtsId /\ Len(operations) \in Nat
    BY <1>0, <1>1, SeqTail, RequestElement DEF OpType
  <1>3. /\ Len(operations') = Len(operations) + 1
        /\ \A i \in 1 .. Len(operations) : operations'[i] = operations[i]
        /\ operations'[Len(operations) + 1].id = requests[1].id
        /\ operations'[Len(operations) + 1].status \in {"START", "CANCELLED"}
    BY <1>0, <1>1, <1>2, NewOpKeeps DEF Status
  <1>4. ASSUME NEW i \in 1 .. Len(operations'), operations'[i].status = "START"
        PROVE  Awaits(operations[i].id, 0)'
    <2>1. CASE i \in 1 .. Len(operations)
      <3> PICK id \in TtsId : id = operations[i].id
        BY <1>0, <2>1, OperationElement
      <3>1. Awaits(id, 0)
        BY <1>3, <1>4, <2>1 DEF DataInv
      <3>2. Awaits(id, 0)'
        BY <1>0, <3>1, AwaitsKept
      <3> QED
        BY <1>3, <2>1, <3>2
    <2>2. CASE i = Len(operations) + 1
      <3>1. requests[1].id \notin DOMAIN answered
        BY <1>0, <1>2 DEF SentInv, QueuedIds
      <3> QED
        BY <1>0, <1>3, <2>2, <3>1 DEF Awaits
    <2> QED
      BY <1>2, <1>3, <2>1, <2>2
  <1>5. ASSUME NEW k \in 1 .. Len(responses'), NEW i \in 1 .. Len(operations'),
               responses'[k].id = operations'[i].id,
               operations'[i].status \in {"STREAMING", "END"}
        PROVE  Fits(responses[k], operations[i].status)'
    <2>1. i \in 1 .. Len(operations) /\ operations'[i] = operations[i]
      BY <1>2, <1>3, <1>5
    <2> PICK s \in Stream(TtsId, Voices, {}), st \in {"STREAMING", "END"} :
               s = responses[k] /\ st = operations[i].status
      BY <1>0, <1>5, <2>1, SeqElement
    <2>2. Fits(s, st)
      BY <1>0, <1>5, <2>1 DEF DataInv
    <2>3. Fits(s, st)'
      BY <1>0, <2>2, FitsKept
    <2> QED
      BY <1>0, <2>1, <2>3
  <1> QED
    BY <1>4, <1>5 DEF DataInv

(* The front operation goes, and its stream with it; the other streams are *)
(* untouched.                                                              *)
LEMMA PollRest ==
  ASSUME IInv, pollDead \/ (pollItem /\ PopType(responses) = "END")
  PROVE  \E d \in {0, 1} :
           \A k \in 1 .. Len(responses') :
             /\ k + d \in 1 .. Len(responses) /\ responses'[k] = responses[k + d]
             /\ responses'[k].id # operations[1].id
  <1> DEFINE id == operations[1].id
             T  == Seq(Stream(TtsId, Voices, {}))
  <1>0. /\ TypeOK /\ OrderInv /\ responses \in T /\ Len(responses) \in Nat /\ id \in Nat
        /\ operations # <<>>
    <2>1. TypeOK /\ OrderInv /\ 1 \in 1 .. Len(operations) /\ operations # <<>>
      BY DeadStep, ItemStep
    <2>2. id \in Nat
      BY <2>1, OperationElement
    <2> QED
      BY <2>1, <2>2, TypeParts, SeqElement DEF QueueType
  (* The others' ids are greater. *)
  <1>1. ASSUME responses[1].id = id, NEW k \in 2 .. Len(responses)
        PROVE  responses[k].id # id
    <2>1. k \in 1 .. Len(responses) /\ 1 \in 1 .. k - 1
      BY <1>0
    <2>2. responses[1].id < responses[k].id
      BY <1>0, <2>1 DEF OrderInv
    <2> QED
      BY <1>0, <1>1, <2>2
  <1>2. ASSUME responses # <<>>, responses[1].id = id, Len(responses') = Len(responses) - 1,
               \A k \in 1 .. Len(responses) - 1 : responses'[k] = responses[k + 1]
        PROVE  \A k \in 1 .. Len(responses') :
                 /\ k + 1 \in 1 .. Len(responses) /\ responses'[k] = responses[k + 1]
                 /\ responses'[k].id # id
    <2> TAKE k \in 1 .. Len(responses')
    <2>1. k + 1 \in 2 .. Len(responses) /\ k + 1 \in 1 .. Len(responses)
      BY <1>0, <1>2
    <2> QED
      BY <1>0, <1>1, <1>2, <2>1
  <1>3. CASE pollItem /\ PopType(responses) = "END"
    <2>1. responses # <<>> /\ responses[1].id = id /\ responses' = PopRest(responses)
      BY <1>3, ItemStep
    <2>2. responses' = Tail(responses)
      BY <1>0, <1>3, <2>1, PopRestKeeps
    <2>3. /\ Len(responses') = Len(responses) - 1
          /\ \A k \in 1 .. Len(responses) - 1 : responses'[k] = responses[k + 1]
      BY <1>0, <2>1, <2>2, SeqTail
    <2> QED
      BY <1>2, <2>1, <2>3
  <1>4. CASE pollDead /\ ~HasStream(responses, id)
    <2>1. responses' = responses
      BY <1>4 DEF pollDead, DeadRest
    <2> QED
      BY <1>0, <1>4, <2>1 DEF HasStream
  <1>5. CASE pollDead /\ HasStream(responses, id)
    <2> DEFINE e == Erase(responses, id, 0)
    <2>1. responses # <<>> /\ responses[1].id = id
      BY <1>0, <1>5, FrontStream
    <2>2. /\ e \in T /\ SameIds(responses, e)
          /\ \A i \in 1 .. Len(responses) :
               IF responses[i].id = id THEN e[i].type \in {"deleted", "error"}
                                       ELSE e[i] = responses[i]
      BY <1>0, EraseKeeps
    <2>3. 1 \in 1 .. Len(responses)
      BY <1>0, <2>1, SeqTail
    <2>4. e # <<>> /\ e[1].type \in {"deleted", "error"}
      BY <2>1, <2>2, <2>3, EmptySeq DEF SameIds
    <2>5. PopType(e) \in {"REMOVED", "ERROR"}
      BY <2>4 DEF PopType, FrontType
    <2>6. responses' = PopRest(e)
      BY <1>5 DEF pollDead, DeadRest
    <2> HIDE DEF e
    <2>7. responses' = Tail(e)
      BY <2>2, <2>5, <2>6, PopRestKeeps
    <2>8. /\ Len(responses') = Len(responses) - 1
          /\ \A i \in 1 .. Len(responses) - 1 : responses'[i] = e[i + 1]
      BY <2>2, <2>4, <2>7, SeqTail DEF SameIds
    <2>9. \A i \in 1 .. Len(responses) - 1 : responses'[i] = responses[i + 1]
      <3> TAKE i \in 1 .. Len(responses) - 1
      <3>1. i + 1 \in 2 .. Len(responses) /\ i + 1 \in 1 .. Len(responses)
        BY <1>0
      <3> QED
        BY <1>1, <2>1, <2>2, <2>8, <3>1
    <2> QED
      BY <1>2, <2>1, <2>8, <2>9
  <1> QED
    BY <1>3, <1>4, <1>5

(* poll() touches neither the packets nor what the server knows. *)
LEMMA PollIsNext ==
  ASSUME IInv, pollDead \/ pollItem
  PROVE  /\ TypeOK /\ OpType(TtsId, Errors) /\ responses \in Seq(Stream(TtsId, Voices, {}))
         /\ OrderInv /\ operations # <<>> /\ 1 \in 1 .. Len(operations)
         /\ operations[1].id \in TtsId /\ initialized
         /\ [Next]_vars /\ ~prepare /\ ~genAnswer /\ ~sendDone /\ answered' = answered
  <1>1. /\ TypeOK /\ OrderInv /\ operations # <<>> /\ 1 \in 1 .. Len(operations)
        /\ operations[1].id \in TtsId /\ initialized /\ UNCHANGED <<reqVars, respVars, netVars>>
    BY DeadStep, ItemStep
  <1>2. OpType(TtsId, Errors) /\ responses \in Seq(Stream(TtsId, Voices, {}))
    BY <1>1, TypeParts DEF QueueType
  <1>3. [Next]_vars /\ ~prepare
    BY <1>1 DEF Next, poll, prepare
  <1>4. ~genAnswer
    <2>1. genAnswer => respPc = "handle" /\ respPc' = "timeout"
      BY DEF genAnswer
    <2> QED
      BY <1>1, <2>1 DEF respVars
  <1>5. ~sendDone
    <2>1. sendDone => reqPc = "send" /\ reqPc' = "sent"
      BY DEF sendDone
    <2> QED
      BY <1>1, <2>1 DEF reqVars
  <1> QED
    BY <1>1, <1>2, <1>3, <1>4, <1>5 DEF netVars

(* What poll() returns is about the front operation alone. *)
LEMMA PollHears ==
  ASSUME IInv, HeardType, pollDead \/ pollItem
  PROVE  \A i \in TtsId \ {operations[1].id} : heard'[i] = heard[i]
  <1>1. CASE pollDead
    <2> PICK err \in Errors \cup {NoError} :
              /\ Result(operations[1].status, NoVoice, err) \in Promise!Results
              /\ Hear(operations[1].id, Result(operations[1].status, NoVoice, err))
      BY <1>1, DeadStep
    <2> QED
      BY <1>1, DeadStep, HearKeeps
  <1>2. CASE pollItem
    BY <1>2, ItemStep, ItemIsResult, HearKeeps
  <1> QED
    BY <1>1, <1>2

(* The front operation is over: the streams of the others are untouched. *)
LEMMA DataPollGone ==
  ASSUME IInv, NetInv, HeardType, DataInv,
         pollDead \/ (pollItem /\ PopType(responses) = "END")
  PROVE  DataInv'
  <1>0. /\ TypeOK /\ OpType(TtsId, Errors) /\ responses \in Seq(Stream(TtsId, Voices, {}))
        /\ OrderInv /\ operations # <<>> /\ 1 \in 1 .. Len(operations)
        /\ operations[1].id \in TtsId
        /\ [Next]_vars /\ ~prepare /\ ~genAnswer /\ ~sendDone
    BY PollIsNext
  <1>1. remove_front_op
    BY DeadStep, ItemStep
  <1>2. /\ Len(operations) \in Nat \ {0} /\ Len(operations') = Len(operations) - 1
        /\ \A i \in 1 .. Len(operations) - 1 : operations'[i] = operations[i + 1]
    BY <1>0, <1>1, RemoveFrontKeeps
  <1>3. PICK d \in {0, 1} :
          \A k \in 1 .. Len(responses') :
             /\ k + d \in 1 .. Len(responses) /\ responses'[k] = responses[k + d]
             /\ responses'[k].id # operations[1].id
    BY PollRest
  <1>4. \A i \in 1 .. Len(operations') :
          i + 1 \in 1 .. Len(operations) /\ operations'[i] = operations[i + 1]
    BY <1>2
  <1>5. ASSUME NEW i \in 1 .. Len(operations'), operations'[i].status = "START"
        PROVE  Awaits(operations[i].id, 0)'
    <2> PICK id \in TtsId : id = operations[i + 1].id
      BY <1>0, <1>4, OperationElement
    <2>1. Awaits(id, 0)
      BY <1>4, <1>5 DEF DataInv
    <2>2. Awaits(id, 0)'
      BY <1>0, <2>1, AwaitsKept
    <2> QED
      BY <1>4, <2>2
  <1>6. ASSUME NEW k \in 1 .. Len(responses'), NEW i \in 1 .. Len(operations'),
               responses'[k].id = operations'[i].id,
               operations'[i].status \in {"STREAMING", "END"}
        PROVE  Fits(responses[k], operations[i].status)'
    <2>1. i + 1 \in 1 .. Len(operations) /\ k + d \in 1 .. Len(responses)
      BY <1>3, <1>4
    <2> PICK s \in Stream(TtsId, Voices, {}), st \in {"STREAMING", "END"} :
               s = responses[k + d] /\ st = operations[i + 1].status
      BY <1>0, <1>4, <1>6, <2>1, SeqElement
    <2>2. Fits(s, st)
      BY <1>3, <1>4, <1>6, <2>1 DEF DataInv
    <2>3. s.id \in TtsId \ {operations[1].id}
      BY <1>3 DEF Stream
    <2>4. heard'[s.id] = heard[s.id]
      BY <2>3, PollHears
    <2>5. Fits(s, st)'
      BY <1>0, <2>2, <2>4, FitsKept
    <2>6. responses'[k] = s /\ operations'[i].status = st
      BY <1>3, <1>4
    <2> QED
      BY <2>5, <2>6
  <1> QED
    BY <1>5, <1>6 DEF DataInv

(* START and DATA: one item goes from the stream to the application. *)
LEMMA DataPollItem ==
  ASSUME IInv, NetInv, HeardType, DataInv, pollItem, PopType(responses) # "END"
  PROVE  DataInv'
  <1> DEFINE front == operations[1].id
  <1>0. /\ TypeOK /\ OpType(TtsId, Errors) /\ responses \in Seq(Stream(TtsId, Voices, {}))
        /\ OrderInv /\ operations # <<>> /\ 1 \in 1 .. Len(operations)
        /\ front \in TtsId /\ UNCHANGED <<answered, operations>>
        /\ [Next]_vars /\ ~prepare /\ ~genAnswer /\ ~sendDone
    BY PollIsNext, ItemStep DEF ctlVars
  <1>1. /\ responses[1].id = front /\ responses' = PopRest(responses)
        /\ PopType(responses) \in {"START", "DATA"}
        /\ operations[1].status \in {"STREAMING", "END"}
        /\ 1 \in 1 .. Len(responses) /\ responses[1] \in Stream(TtsId, Voices, {})
    BY ItemStep
  <1>2. /\ Len(responses') = Len(responses)
        /\ \A k \in 1 .. Len(responses) : k # 1 => responses'[k] = responses[k]
        /\ responses'[1] \in Stream(TtsId, Voices, {}) /\ responses'[1].id = front
        /\ PopType(responses) = "START" => /\ ~responses[1].polling /\ responses'[1].polling
                                           /\ responses'[1].data = responses[1].data
        /\ PopType(responses) = "DATA" => /\ responses[1].polling /\ responses'[1].polling
                                          /\ responses[1].data # <<>>
                                          /\ responses'[1].data = Tail(responses[1].data)
    BY <1>0, <1>1, PopFront
  <1>3. ASSUME NEW i \in 1 .. Len(operations'), operations'[i].status = "START"
        PROVE  Awaits(operations[i].id, 0)'
    <2> PICK id \in TtsId : id = operations[i].id
      BY <1>0, OperationElement
    <2>1. Awaits(id, 0)
      BY <1>0, <1>3 DEF DataInv
    <2>2. Awaits(id, 0)'
      BY <1>0, <2>1, AwaitsKept
    <2> QED
      BY <1>0, <2>2
  <1>4. ASSUME NEW k \in 2 .. Len(responses'), NEW i \in 1 .. Len(operations'),
               responses'[k].id = operations'[i].id,
               operations'[i].status \in {"STREAMING", "END"}
        PROVE  Fits(responses[k], operations[i].status)'
    <2>1. k \in 1 .. Len(responses) /\ k # 1 /\ Len(responses) \in Nat
      BY <1>0, <1>2, SeqElement
    <2> PICK s \in Stream(TtsId, Voices, {}), st \in {"STREAMING", "END"} :
               s = responses[k] /\ st = operations[i].status
      BY <1>0, <1>4, <2>1, SeqElement
    <2>2. Fits(s, st)
      BY <1>0, <1>2, <1>4, <2>1 DEF DataInv
    <2>3. s.id \in TtsId \ {front}
      <3>1. front < s.id
        BY <1>0, <1>1, <2>1 DEF OrderInv
      <3>2. s.id \in TtsId
        BY DEF Stream
      <3> QED
        BY <1>0, <3>1, <3>2 DEF TtsId
    <2>4. heard'[s.id] = heard[s.id]
      BY <2>3, PollHears
    <2>5. Fits(s, st)'
      BY <1>0, <2>2, <2>4, FitsKept
    <2> QED
      BY <1>0, <1>2, <2>1, <2>5
  <1>5. Fits(responses[1], operations[1].status)'
    <2> PICK s \in Stream(TtsId, Voices, {}), t \in Stream(TtsId, Voices, {}),
             st \in {"STREAMING", "END"} :
               s = responses[1] /\ t = responses'[1] /\ st = operations[1].status
      BY <1>1, <1>2
    <2>0. s.id = front /\ t.id = front /\ t.polling
      BY <1>1, <1>2
    <2> PICK id \in TtsId : id = front
      BY <1>0
    <2>1. Fits(s, st)
      BY <1>0, <1>1 DEF DataInv
    <2>2. Len(heard'[id]) = Len(heard[id]) + 1 /\ heard'[id] # <<>> /\ Len(heard[id]) \in Nat
      BY ItemStep, ItemIsResult, HearKeeps
    <2>3. Told(id) \in Nat /\ Told(id)' = Len(heard[id]) /\ (heard[id] = <<>> => Told(id) = 0)
          /\ (heard[id] # <<>> => Told(id) = Len(heard[id]) - 1)
      <3>1. Told(id)' = Len(heard'[id]) - 1
        BY <2>2 DEF Told
      <3>2. Told(id) \in Nat
        BY ToldType
      <3>3. Told(id)' = Len(heard[id])
        BY <2>2, <3>1
      <3> QED
        BY <3>2, <3>3 DEF Told
    <2>4. heard[id] = <<>> => Len(heard[id]) = 0
      BY EmptySeq
    <2>5. s.data \in Seq(Voices) /\ Len(s.data) \in Nat
      BY SeqElement DEF Stream
    <2>6. /\ Len(t.data) \in Nat /\ Told(id)' + Len(t.data) = Told(id) + Len(s.data)
          /\ \A j \in 1 .. Len(t.data) : t.data[j] = Told(id)' + j
      <3>1. CASE PopType(responses) = "START"
        <4>1. heard[id] = <<>> /\ t.data = s.data
          BY <1>2, <2>0, <2>1, <3>1 DEF Fits
        <4>2. Told(id) = 0 /\ Told(id)' = 0
          BY <2>3, <2>4, <4>1
        <4>3. \A j \in 1 .. Len(s.data) : s.data[j] = Told(id) + j
          BY <2>0, <2>1 DEF Fits
        <4> QED
          BY <2>5, <4>1, <4>2, <4>3
      <3>2. CASE PopType(responses) = "DATA"
        <4>1. heard[id] # <<>> /\ s.data # <<>> /\ t.data = Tail(s.data)
          BY <1>2, <2>0, <2>1, <3>2 DEF Fits
        <4>2. Told(id)' = Told(id) + 1
          BY <2>2, <2>3, <4>1
        <4>3. \A j \in 1 .. Len(s.data) : s.data[j] = Told(id) + j
          BY <2>0, <2>1 DEF Fits
        <4>4. /\ Len(s.data) \in Nat \ {0} /\ Len(t.data) = Len(s.data) - 1
              /\ \A j \in 1 .. Len(s.data) - 1 : t.data[j] = s.data[j + 1]
          BY <2>5, <4>1, SeqTail
        <4>5. ASSUME NEW j \in 1 .. Len(t.data) PROVE t.data[j] = Told(id)' + j
          <5>1. j \in 1 .. Len(s.data) - 1 /\ j + 1 \in 1 .. Len(s.data)
            BY <4>4
          <5>2. t.data[j] = Told(id) + (j + 1)
            BY <4>3, <4>4, <5>1
          <5> QED
            BY <2>3, <4>2, <5>1, <5>2
        <4> QED
          BY <2>3, <4>2, <4>4, <4>5
      <3> QED
        BY <1>1, <3>1, <3>2
    <2> PICK n \in Nat : n = Told(id) + Len(s.data)
      BY <2>3, <2>5
    <2>7. st = "STREAMING" => Awaits(id, n)'
      <3>1. st = "STREAMING" => Awaits(id, n)
        BY <2>0, <2>1 DEF Fits
      <3> QED
        BY <1>0, <3>1, AwaitsKept
    <2>8. st = "END" => answered[id].done /\ answered[id].sent = n
      BY <2>0, <2>1 DEF Fits
    <2>9. id \in DOMAIN answered
      BY <2>0, <2>1 DEF Fits
    <2>10. Fits(t, st)'
      BY <1>0, <2>0, <2>2, <2>6, <2>7, <2>8, <2>9 DEF Fits
    <2> QED
      BY <1>0, <2>10
  <1>6. ASSUME NEW i \in 1 .. Len(operations), responses'[1].id = operations[i].id PROVE i = 1
    BY <1>0, <1>2, <1>6, DistinctIds
  <1>7. ASSUME NEW k \in 1 .. Len(responses'), NEW i \in 1 .. Len(operations'),
               responses'[k].id = operations'[i].id,
               operations'[i].status \in {"STREAMING", "END"}
        PROVE  Fits(responses[k], operations[i].status)'
    <2>1. CASE k = 1
      <3>1. i = 1
        BY <1>0, <1>6, <1>7, <2>1
      <3> QED
        BY <1>5, <2>1, <3>1
    <2>2. CASE k # 1
      <3>1. k \in 2 .. Len(responses')
        BY <2>2
      <3> QED
        BY <1>4, <1>7, <3>1
    <2> QED
      BY <2>1, <2>2
  <1> QED
    BY <1>3, <1>7 DEF DataInv

(* The packet in hand is the next one of its request, and the last one only *)
(* if it says so.                                                          *)
LEMMA AnswerAwaits ==
  ASSUME TypeOK, NetInv, genAnswer, NEW id \in TtsId, rx.id = id,
         NEW n \in Nat, Awaits(id, n),
         NEW m \in Nat, m = IF rx.voice # NoVoice THEN n + 1 ELSE n
  PROVE  /\ rx.voice # NoVoice => rx.voice = m
         /\ id \in DOMAIN answered /\ answered' = answered
         /\ rx.finish => answered[id].done /\ answered[id].sent = m
         /\ Awaits(id, m)'
  <1>0. /\ Len(inbox) \in Nat /\ PacketInv /\ answered' = answered /\ inbox' = inbox
        /\ rx' = NoResponse /\ rx.kind = "data"
    BY SeqElement DEF TypeOK, NetInv, genAnswer, netVars
  <1>1. Packet(0) = rx /\ IsFor(0, id) /\ 0 \in 0 .. Len(inbox)
    BY <1>0 DEF Packet, IsFor, IsData
  <1>2. rx.voice \in Nat /\ \A k \in 0 .. Len(inbox) : Packet(k).voice \in Nat
    BY <1>1, PacketType
  <1>3. /\ id \in DOMAIN answered /\ rx.voice <= answered[id].sent
        /\ rx.finish => answered[id].done
    BY <1>0, <1>1 DEF PacketInv, IsFor
  <1>4. answered[id].sent \in Nat
    BY <1>3 DEF TypeOK
  <1>5. /\ n <= answered[id].sent
        /\ \A v \in n + 1 .. answered[id].sent :
             \E k \in 0 .. Len(inbox) : IsFor(k, id) /\ Packet(k).voice = v
        /\ \A k \in 0 .. Len(inbox) : IsFor(k, id) /\ Packet(k).voice # NoVoice =>
             n < Packet(k).voice
    BY <1>3 DEF Awaits
  <1>6. ASSUME NEW k \in 1 .. Len(inbox), IsFor(k, id)
        PROVE  ~rx.finish /\ (Packet(k).voice # NoVoice => rx.voice < Packet(k).voice)
    <2>1. k \in 0 .. Len(inbox) /\ 0 < k
      BY <1>6
    <2> QED
      BY <1>0, <1>1, <1>6, <2>1 DEF PacketInv, IsFor
  <1>7. rx.voice # NoVoice => rx.voice = m
    <2> SUFFICES ASSUME rx.voice # NoVoice, rx.voice # n + 1 PROVE FALSE
      OBVIOUS
    <2>1. n + 1 < rx.voice
      BY <1>1, <1>2, <1>5
    <2>2. n + 1 \in n + 1 .. answered[id].sent
      BY <1>2, <1>3, <1>4, <2>1
    <2>3. PICK k \in 0 .. Len(inbox) : IsFor(k, id) /\ Packet(k).voice = n + 1
      BY <1>5, <2>2
    <2>4. k \in 1 .. Len(inbox)
      BY <1>0, <1>1, <2>1, <2>3
    <2>5. rx.voice < n + 1
      BY <1>6, <2>3, <2>4 DEF NoVoice
    <2> QED
      BY <1>2, <2>1, <2>5
  <1>8. ASSUME NEW v \in m + 1 .. answered[id].sent
        PROVE  \E k \in 1 .. Len(inbox) : IsFor(k, id) /\ Packet(k).voice = v
    <2>1. v \in n + 1 .. answered[id].sent
      BY <1>4
    <2>2. PICK k \in 0 .. Len(inbox) : IsFor(k, id) /\ Packet(k).voice = v
      BY <1>5, <2>1
    <2>3. k # 0
      BY <1>1, <1>2, <1>7, <2>2 DEF NoVoice
    <2> QED
      BY <1>0, <2>2, <2>3
  <1>9. m <= answered[id].sent
    BY <1>2, <1>3, <1>4, <1>5, <1>7
  <1>10. rx.finish => answered[id].done /\ answered[id].sent = m
    <2> SUFFICES ASSUME rx.finish, answered[id].sent # m PROVE FALSE
      BY <1>3
    <2>1. m + 1 \in m + 1 .. answered[id].sent
      BY <1>4, <1>9
    <2> QED
      BY <1>6, <1>8, <2>1
  <1>11. /\ ~IsFor(0, id)'
         /\ \A k \in 1 .. Len(inbox) : Packet(k)' = Packet(k) /\ (IsFor(k, id)' <=> IsFor(k, id))
    BY <1>0 DEF IsFor, IsData, Packet, NoResponse
  <1>12. \A k \in 0 .. Len(inbox) :
           IsFor(k, id)' /\ Packet(k)'.voice # NoVoice => m < Packet(k)'.voice
    <2> TAKE k \in 0 .. Len(inbox)
    <2> HAVE IsFor(k, id)' /\ Packet(k)'.voice # NoVoice
    <2>1. k \in 1 .. Len(inbox)
      BY <1>0, <1>11
    <2>2. IsFor(k, id) /\ Packet(k)' = Packet(k)
      BY <1>11, <2>1
    <2>3. n < Packet(k).voice /\ rx.voice < Packet(k).voice
      BY <1>5, <1>6, <2>1, <2>2
    <2> QED
      BY <1>7, <2>2, <2>3
  <1>13. \A v \in m + 1 .. answered[id].sent :
           \E k \in 0 .. Len(inbox) : IsFor(k, id)' /\ Packet(k)'.voice = v
    BY <1>8, <1>11
  <1> QED
    BY <1>0, <1>3, <1>7, <1>9, <1>10, <1>12, <1>13 DEF Awaits

(* What an answer to the current operation does to the streams. *)
LEMMA AnswerStreams ==
  ASSUME IInv, genAnswer, IsCurrent(rx.id)
  PROVE  /\ Live /\ OrderInv /\ StreamInv /\ rx.id \in TtsId
         /\ rx.voice # NoVoice => rx.voice \in Voices
         /\ \A k \in 1 .. Len(responses') : responses'[k].id # rx.id =>
              k \in 1 .. Len(responses) /\ responses'[k] = responses[k]
         /\ \A k \in 1 .. Len(responses') : responses'[k].id = rx.id =>
              \E data \in Seq(Voices) :
                /\ responses'[k].data = IF rx.voice # NoVoice THEN Append(data, rx.voice) ELSE data
                /\ operations[current].status = "START" =>
                     data = <<>> /\ ~responses'[k].polling
                /\ operations[current].status = "STREAMING" =>
                     /\ k \in 1 .. Len(responses) /\ responses[k].id = rx.id
                     /\ data = responses[k].data /\ responses'[k].polling = responses[k].polling
  <1> DEFINE id      == rx.id
             op      == operations[current]
             started == IF op.status = "START" THEN Start(responses, id) ELSE responses
             voiced  == IF rx.voice # NoVoice THEN Put(started, id, rx.voice) ELSE started
             T       == Seq(Stream(TtsId, Voices, {}))
             n       == Len(responses)
  <1>0. TypeOK /\ OpType(TtsId, Errors) /\ responses \in T /\ n \in Nat /\ Len(operations) \in Nat
    BY TypeParts, SeqElement DEF IInv, QueueType, OpType
  <1>1. /\ current # 0 /\ op.id = id /\ current \in 1 .. Len(operations)
        /\ reqPc \in {"send", "sent", "waitOp", "inOp"}
    BY <1>0 DEF IInv, SenderInv, IsCurrent, OpType
  <1>2. id \in TtsId /\ op.status \in {"START", "STREAMING"}
    BY <1>0, <1>1, OperationElement DEF IInv, OneInFlight
  <1>3. Live
    <2>1. session # 0
      BY <1>1 DEF IInv, FreshInv
    <2>2. ~(~initialized /\ ctlPc \in {"idle", "joinResp"})
      BY <1>1 DEF IInv, SenderInv
    <2> QED
      BY <1>0, <2>1, <2>2 DEF Live, TypeOK
  <1>4. OrderInv /\ StreamInv
    BY <1>3 DEF IInv
  <1>5. rx.finish \in BOOLEAN /\ (rx.voice # NoVoice => rx.voice \in Voices)
    BY <1>0, TtsAssumption DEF TypeOK, Response, NoVoice, Voices
  <1>6. /\ started \in T /\ Len(started) \in Nat
        /\ \A k \in 1 .. Len(started) : started[k].id # id =>
             k \in 1 .. n /\ started[k] = responses[k]
        /\ \A k \in 1 .. Len(started) : started[k].id = id =>
             /\ started[k].type = "uncompleted"
             /\ op.status = "START" => started[k].data = <<>> /\ ~started[k].polling
             /\ op.status = "STREAMING" => k \in 1 .. n /\ started[k] = responses[k]
    <2>1. CASE op.status = "START"
      <3>1. ~HasStream(responses, id)
        BY <1>1, <1>4, <2>1 DEF StreamInv
      <3>2. started = Append(responses, NewStream(id)) /\ started \in T
        BY <1>0, <1>2, <2>1, <3>1, StartKeeps
      <3>3. NewStream(id).id = id /\ NewStream(id).type = "uncompleted"
            /\ NewStream(id).data = <<>> /\ ~NewStream(id).polling
        BY DEF NewStream
      <3>4. /\ Len(started) = n + 1 /\ started[n + 1] = NewStream(id)
            /\ \A i \in 1 .. n : started[i] = responses[i]
        BY <1>0, <3>2
      <3>5. \A i \in 1 .. n : responses[i].id # id
        BY <3>1 DEF HasStream
      <3> HIDE DEF started
      <3>6. ASSUME NEW k \in 1 .. Len(started), started[k].id # id
            PROVE  k \in 1 .. n /\ started[k] = responses[k]
        BY <1>0, <3>3, <3>4, <3>6
      <3>7. ASSUME NEW k \in 1 .. Len(started), started[k].id = id
            PROVE  started[k] = NewStream(id)
        BY <1>0, <3>4, <3>5, <3>7
      <3> QED
        BY <1>0, <2>1, <3>2, <3>3, <3>4, <3>6, <3>7
    <2>2. CASE op.status = "STREAMING"
      <3>1. \A i \in 1 .. n : responses[i].id = id => responses[i].type = "uncompleted"
        BY <1>1, <1>4, <2>2 DEF StreamInv
      <3>2. started = responses
        BY <2>2
      <3> QED
        BY <1>0, <2>2, <3>1, <3>2
    <2> QED
      BY <1>2, <2>1, <2>2
  <1> HIDE DEF started
  <1>7. /\ voiced \in T /\ SameIds(started, voiced)
        /\ \A k \in 1 .. Len(started) :
             /\ started[k].id # id => voiced[k] = started[k]
             /\ voiced[k].polling = started[k].polling
             /\ started[k].id = id =>
                  voiced[k].data = IF rx.voice # NoVoice THEN Append(started[k].data, rx.voice)
                                   ELSE started[k].data
    <2>1. CASE rx.voice # NoVoice
      BY <1>5, <1>6, <2>1, PutKeeps, PutFills
    <2>2. CASE rx.voice = NoVoice
      BY <1>6, <2>2 DEF SameIds
    <2> QED
      BY <2>1, <2>2
  <1>8. responses' = IF rx.finish THEN End(voiced, id, NoData) ELSE voiced
    BY DEF genAnswer, Answer, Voiced, voiced, started
  <1> HIDE DEF voiced
  <1>9. /\ Len(responses') = Len(started)
        /\ \A k \in 1 .. Len(started) :
             /\ responses'[k].id = started[k].id
             /\ started[k].id # id => responses'[k] = started[k]
             /\ responses'[k].polling = started[k].polling
             /\ started[k].id = id =>
                  responses'[k].data = IF rx.voice # NoVoice
                                       THEN Append(started[k].data, rx.voice)
                                       ELSE started[k].data
    <2>1. CASE rx.finish
      <3>1. /\ SameIds(voiced, End(voiced, id, NoData))
            /\ \A k \in 1 .. Len(voiced) :
                 /\ voiced[k].id # id => responses'[k] = voiced[k]
                 /\ responses'[k].polling = voiced[k].polling /\ responses'[k].data = voiced[k].data
        BY <1>7, <1>8, <2>1, EndKeeps, EndLeaves
      <3> QED
        BY <1>7, <1>8, <2>1, <3>1 DEF SameIds
    <2>2. CASE ~rx.finish
      BY <1>7, <1>8, <2>2 DEF SameIds
    <2> QED
      BY <2>1, <2>2
  <1>10. ASSUME NEW k \in 1 .. Len(responses'), responses'[k].id # id
         PROVE  k \in 1 .. n /\ responses'[k] = responses[k]
    BY <1>6, <1>9, <1>10
  <1>11. ASSUME NEW k \in 1 .. Len(responses'), responses'[k].id = id
         PROVE  \E data \in Seq(Voices) :
                  /\ responses'[k].data = IF rx.voice # NoVoice THEN Append(data, rx.voice)
                                          ELSE data
                  /\ op.status = "START" => data = <<>> /\ ~responses'[k].polling
                  /\ op.status = "STREAMING" =>
                       /\ k \in 1 .. n /\ responses[k].id = id
                       /\ data = responses[k].data /\ responses'[k].polling = responses[k].polling
    <2>1. k \in 1 .. Len(started) /\ started[k].id = id
      BY <1>9, <1>11
    <2>2. started[k].data \in Seq(Voices)
      <3>1. started[k] \in Stream(TtsId, Voices, {})
        BY <1>6, <2>1, SeqElement
      <3> QED
        BY <3>1 DEF Stream
    <2> PICK data \in Seq(Voices) : data = started[k].data
      BY <2>2
    <2>3. /\ responses'[k].data = IF rx.voice # NoVoice THEN Append(data, rx.voice) ELSE data
          /\ responses'[k].polling = started[k].polling
      BY <1>9, <2>1
    <2>4. op.status = "START" => data = <<>> /\ ~responses'[k].polling
      BY <1>6, <2>1, <2>3
    <2>5. op.status = "STREAMING" =>
            /\ k \in 1 .. n /\ responses[k].id = id
            /\ data = responses[k].data /\ responses'[k].polling = responses[k].polling
      BY <1>6, <2>1, <2>3
    <2> QED
      BY <2>3, <2>4, <2>5
  <1> QED
    BY <1>2, <1>3, <1>4, <1>5, <1>10, <1>11

(* What is known of the current operation before its next answer. *)
LEMMA CurrentFits ==
  ASSUME IInv, HeardInv, DataInv, initialized, genAnswer, IsCurrent(rx.id),
         NEW k \in 1 .. Len(responses'), responses'[k].id = rx.id
  PROVE  \E n \in Nat, data \in Seq(Voices) :
           /\ n = Told(rx.id) + Len(data) /\ Awaits(rx.id, n)
           /\ \A j \in 1 .. Len(data) : data[j] = Told(rx.id) + j
           /\ responses'[k].data = IF rx.voice # NoVoice THEN Append(data, rx.voice) ELSE data
           /\ responses'[k].polling <=> heard[rx.id] # <<>>
  <1> DEFINE id == rx.id
             op == operations[current]
  <1>0. /\ TypeOK /\ OrderInv /\ id \in TtsId /\ op.status \in {"START", "STREAMING"}
        /\ current \in 1 .. Len(operations) /\ op.id = id
        /\ responses \in Seq(Stream(TtsId, Voices, {}))
    BY AnswerStreams, AnswerStatuses, TypeParts DEF IInv, QueueType
  <1>1. PICK data \in Seq(Voices) :
          /\ responses'[k].data = IF rx.voice # NoVoice THEN Append(data, rx.voice) ELSE data
          /\ op.status = "START" => data = <<>> /\ ~responses'[k].polling
          /\ op.status = "STREAMING" =>
               /\ k \in 1 .. Len(responses) /\ responses[k].id = id
               /\ data = responses[k].data /\ responses'[k].polling = responses[k].polling
    BY AnswerStreams
  <1>2. PICK n : n = Told(id) + Len(data)
    OBVIOUS
  <1>3. n \in Nat /\ Told(id) \in Nat /\ Len(data) \in Nat
    BY <1>0, <1>2, ToldType DEF HeardInv
  <1>4. CASE op.status = "START"
    <2>1. heard[id] = <<>>
      <3>1. id \in OpIds
        BY <1>0 DEF OpIds
      <3>2. LedgerInv
        BY DEF HeardInv
      <3>3. ~HasEnded(heard[id])
        BY <1>0, <3>1, <3>2 DEF LedgerInv, Waiting
      <3> SUFFICES ASSUME heard[id] # <<>> PROVE FALSE
        OBVIOUS
      <3>4. Len(operations) > 0 /\ operations[1].id = id /\ operations[1].status # "START"
        BY <1>0, <3>2, <3>3 DEF LedgerInv
      <3>5. Len(operations) \in Nat
        BY <1>0, SeqElement DEF TypeOK
      <3>6. 1 \in 1 .. Len(operations)
        BY <3>4, <3>5
      <3>7. current = 1
        BY <1>0, <3>4, <3>6, DistinctIds
      <3> QED
        BY <1>4, <3>4, <3>7
    <2>2. Told(id) = 0 /\ data = <<>> /\ Len(data) = 0
      BY <1>1, <1>4, <2>1, EmptySeq DEF Told
    <2>3. Awaits(id, 0)
      BY <1>0, <1>4 DEF DataInv
    <2>4. n = 0
      BY <1>2, <2>2
    <2>5. ~responses'[k].polling
      BY <1>1, <1>4
    <2>6. Awaits(id, n)
      BY <2>3, <2>4
    <2>7. \A j \in 1 .. Len(data) : data[j] = Told(id) + j
      BY <2>2
    <2> HIDE DEF id, op
    <2> QED
      BY <1>1, <1>2, <1>3, <2>1, <2>5, <2>6, <2>7 DEF id
  <1>5. CASE op.status = "STREAMING"
    <2>1. /\ k \in 1 .. Len(responses) /\ responses[k].id = id
          /\ data = responses[k].data /\ responses'[k].polling = responses[k].polling
      BY <1>1, <1>5
    <2>2. Fits(responses[k], "STREAMING")
      BY <1>0, <1>5, <2>1 DEF DataInv
    <2>3. /\ responses[k].polling <=> heard[id] # <<>>
          /\ \A j \in 1 .. Len(data) : data[j] = Told(id) + j
          /\ Awaits(id, n)
      BY <1>2, <2>1, <2>2 DEF Fits
    <2> QED
      BY <1>1, <1>2, <1>3, <2>1, <2>3
  <1> QED
    BY <1>0, <1>4, <1>5

(* gen_result_by_resp puts the next packet into the stream of its request. *)
LEMMA DataAnswer ==
  ASSUME IInv, HeardInv, NetInv, DataInv, initialized, genAnswer, IsCurrent(rx.id)
  PROVE  DataInv'
  <1>0. /\ TypeOK /\ OrderInv /\ responses \in Seq(Stream(TtsId, Voices, {})) /\ HeardType
        /\ [Next]_vars /\ ~prepare /\ ~sendDone /\ rx.id \in TtsId
        /\ UNCHANGED <<answered, heard>>
    <2>1. ~sendDone
      <3>1. sendDone => reqPc = "send" /\ reqPc' = "sent"
        BY DEF sendDone
      <3> QED
        BY <3>1 DEF genAnswer, reqVars
    <2>2. [Next]_vars /\ ~prepare
      BY DEF Next, gen_results, prepare
    <2>3. TypeOK /\ OrderInv /\ responses \in Seq(Stream(TtsId, Voices, {})) /\ rx.id \in TtsId
      BY AnswerStreams, TypeParts DEF IInv, QueueType
    <2> QED
      BY <2>1, <2>2, <2>3 DEF HeardInv, genAnswer, netVars
  <1> PICK id \in TtsId : id = rx.id
    BY <1>0
  <1>1. /\ SameOpIds
        /\ \A i \in 1 .. Len(operations) : i # current => operations'[i] = operations[i]
        /\ operations'[current].status = IF rx.finish THEN "END" ELSE "STREAMING"
        /\ current \in 1 .. Len(operations) /\ operations[current].id = id
    BY AnswerStatuses
  <1> PICK c \in 1 .. Len(operations) : c = current
    BY <1>1
  <1>2. ASSUME NEW i \in 1 .. Len(operations), i # current PROVE operations[i].id # id
    BY <1>0, <1>1, <1>2, DistinctIds
  <1>3. ASSUME NEW i \in 1 .. Len(operations'), operations'[i].status = "START"
        PROVE  Awaits(operations[i].id, 0)'
    <2>1. i # current /\ i \in 1 .. Len(operations) /\ operations'[i] = operations[i]
      BY <1>1, <1>3 DEF SameOpIds
    <2> PICK j \in TtsId : j = operations[i].id
      BY <1>0, <2>1, OperationElement
    <2>2. Awaits(j, 0) /\ j # id
      BY <1>2, <1>3, <2>1 DEF DataInv
    <2>3. Awaits(j, 0)'
      BY <1>0, <2>2, AwaitsKept
    <2> QED
      BY <2>1, <2>3
  <1>4. ASSUME NEW k \in 1 .. Len(responses'), responses'[k].id # id,
               NEW i \in 1 .. Len(operations'), responses'[k].id = operations'[i].id,
               operations'[i].status \in {"STREAMING", "END"}
        PROVE  Fits(responses[k], operations[i].status)'
    <2>1. k \in 1 .. Len(responses) /\ responses'[k] = responses[k]
      BY <1>4, AnswerStreams
    <2>2. i \in 1 .. Len(operations) /\ operations[i].id = responses[k].id /\ i # current
          /\ operations'[i] = operations[i]
      BY <1>1, <1>4, <2>1 DEF SameOpIds
    <2> PICK s \in Stream(TtsId, Voices, {}), st \in {"STREAMING", "END"} :
               s = responses[k] /\ st = operations[i].status
      BY <1>0, <1>4, <2>1, <2>2, SeqElement
    <2>3. Fits(s, st)
      BY <1>4, <2>1, <2>2 DEF DataInv
    <2>4. Fits(s, st)'
      BY <1>0, <1>4, <2>1, <2>3, FitsKept
    <2> QED
      BY <2>1, <2>2, <2>4
  <1>5. ASSUME NEW k \in 1 .. Len(responses'), responses'[k].id = id
        PROVE  Fits(responses[k], operations[c].status)'
    <2>1. PICK n \in Nat, data \in Seq(Voices) :
            /\ n = Told(id) + Len(data) /\ Awaits(id, n)
            /\ \A j \in 1 .. Len(data) : data[j] = Told(id) + j
            /\ responses'[k].data = IF rx.voice # NoVoice THEN Append(data, rx.voice) ELSE data
            /\ responses'[k].polling <=> heard[id] # <<>>
      BY <1>5, CurrentFits
    <2> PICK m \in Nat : m = IF rx.voice # NoVoice THEN n + 1 ELSE n
      OBVIOUS
    <2>2. /\ rx.voice # NoVoice => rx.voice = m
          /\ id \in DOMAIN answered /\ answered' = answered
          /\ rx.finish => answered[id].done /\ answered[id].sent = m
          /\ Awaits(id, m)'
      BY <1>0, <2>1, AnswerAwaits
    <2> PICK q : q = responses'[k].data
      OBVIOUS
    <2>3. Told(id) \in Nat /\ Len(data) \in Nat /\ Told(id)' = Told(id)
      BY <1>0, ToldType DEF Told
    <2>4. m = Told(id) + Len(q) /\ \A j \in 1 .. Len(q) : q[j] = Told(id) + j
      <3>1. CASE rx.voice # NoVoice
        <4>1. rx.voice \in Voices /\ q = Append(data, rx.voice)
          BY <2>1, <3>1, AnswerStreams
        <4>2. /\ Len(q) = Len(data) + 1 /\ q[Len(data) + 1] = rx.voice
              /\ \A j \in 1 .. Len(data) : q[j] = data[j]
          BY <4>1, SeqAppend
        <4> QED
          BY <2>1, <2>2, <2>3, <3>1, <4>2
      <3>2. CASE rx.voice = NoVoice
        BY <2>1, <3>2
      <3> QED
        BY <3>1, <3>2
    <2> PICK s, st : s = responses'[k] /\ st = operations'[c].status
      OBVIOUS
    <2>5. s.id = id /\ s.data = q /\ (s.polling <=> heard'[id] # <<>>)
      BY <1>0, <1>5, <2>1
    <2>6. st = IF rx.finish THEN "END" ELSE "STREAMING"
      BY <1>1
    <2>7. Fits(s, st)'
      BY <2>2, <2>3, <2>4, <2>5, <2>6 DEF Fits
    <2> QED
      BY <2>7
  <1>6. ASSUME NEW k \in 1 .. Len(responses'), NEW i \in 1 .. Len(operations'),
               responses'[k].id = operations'[i].id,
               operations'[i].status \in {"STREAMING", "END"}
        PROVE  Fits(responses[k], operations[i].status)'
    <2>1. CASE responses'[k].id = id
      <3>1. i = current
        BY <1>1, <1>2, <1>6, <2>1 DEF SameOpIds
      <3> QED
        BY <1>5, <2>1, <3>1
    <2>2. CASE responses'[k].id # id
      BY <1>4, <1>6, <2>2
    <2> QED
      BY <2>1, <2>2
  <1> QED
    BY <1>3, <1>6 DEF DataInv

(* Every step keeps the streams in accord with the server. *)
LEMMA DataStep ==
  ASSUME MaxSessions <= 1, IInv, HeardInv, NetInv, initialized => DataInv, [Next]_vars,
         initialized'
  PROVE  DataInv'
  <1>1. CASE prepare
    <2>1. session = 0
      BY <1>1, TtsAssumption DEF prepare, IInv, TypeOK
    <2>2. operations' = <<>> /\ responses' = <<>>
      BY <1>1, <2>1 DEF prepare, ctlVars, IInv, FreshInv
    <2>3. Len(operations') = 0 /\ Len(responses') = 0
      BY <2>2, EmptySeq
    <2> QED
      BY <2>3 DEF DataInv
  <1>2. CASE ~prepare
    <2>1. initialized
      <3>1. ASSUME NEW c \in Callers, speakQueue(c) PROVE initialized' = initialized
        BY <3>1 DEF speakQueue
      <3> QED
        BY <1>2, <3>1, SilentSteps, DeadStep, ItemStep
    <2>2. DataInv /\ HeardType
      BY <2>1 DEF HeardInv
    <2>3. CASE genAnswer /\ IsCurrent(rx.id)
      BY <2>1, <2>2, <2>3, DataAnswer
    <2>4. CASE ~(genAnswer /\ IsCurrent(rx.id))
      <3>1. CASE Quiet
        BY <1>2, <2>2, <2>4, <3>1, DataQuiet DEF Quiet
      <3>2. ASSUME NEW c \in Callers, speakQueue(c) PROVE DataInv'
        <4>1. UNCHANGED <<operations, responses, heard>>
          BY <3>2 DEF speakQueue, ctlVars, pollVars
        <4>2. SameOpIds
          BY <4>1 DEF SameOpIds
        <4> QED
          BY <1>2, <2>2, <2>4, <4>1, <4>2, DataQuiet
      <3>3. CASE sendTake
        BY <2>2, <3>3, DataTake
      <3>4. CASE pollDead
        BY <2>2, <3>4, DataPollGone
      <3>5. CASE pollItem
        BY <2>2, <3>5, DataPollGone, DataPollItem
      <3> QED
        BY <1>2, <2>4, <3>1, <3>2, <3>3, <3>4, <3>5, QuietSteps
    <2> QED
      BY <2>3, <2>4
  <1> QED
    BY <1>1, <1>2

(* All that has been said: the threads, the results returned, the packets  *)
(* on their way and the contents of the streams.                           *)
FullInv ==
  /\ IInv /\ HeardInv /\ NetInv
  /\ initialized => DataInv

(* The invariant holds initially ... *)
LEMMA InitFull == Init => FullInv
  BY InitInv, InitHeard, InitNet DEF FullInv, Init

(* ... and every step keeps it. *)
LEMMA FullStep ==
  ASSUME MaxSessions <= 1, "spurious" \notin Faults, FullInv, [Next]_vars PROVE FullInv'
  <1>1. IInv'
    BY NextInv DEF FullInv
  <1>2. HeardInv'
    BY HeardStep DEF FullInv
  <1>3. TypeOK'
    BY <1>1 DEF IInv
  <1>4. NetInv'
    BY <1>3, NetStep DEF FullInv
  <1>5. initialized' => DataInv'
    BY DataStep DEF FullInv
  <1> QED
    BY <1>1, <1>2, <1>4, <1>5 DEF FullInv

-----------------------------------------------------------------------------
(* The last result of an answer that is complete. *)
LEMMA NoVoiceLostPoll ==
  ASSUME FullInv, pollDead \/ pollItem, NoVoiceLost PROVE NoVoiceLost'
  <1> DEFINE front == operations[1].id
  <1>0. /\ TypeOK /\ front \in TtsId /\ HeardType /\ answered' = answered /\ DataInv
        /\ 1 \in 1 .. Len(operations)
    BY PollIsNext DEF FullInv, HeardInv
  <1>1. \A i \in TtsId \ {front} : heard'[i] = heard[i]
    BY <1>0, PollHears DEF FullInv
  <1>2. ASSUME HasEnded(heard'[front]), heard'[front][Len(heard'[front])].type = "END"
        PROVE  /\ front \in DOMAIN answered /\ answered[front].done
               /\ Len(heard'[front]) = answered[front].sent + 2
    <2>1. CASE pollDead
      <3>1. PICK err \in Errors \cup {NoError} :
              /\ operations[1].status = "CANCELLED" => err = NoError
              /\ Result(operations[1].status, NoVoice, err) \in Promise!Results
              /\ Hear(operations[1].id, Result(operations[1].status, NoVoice, err))
        BY <2>1, DeadStep DEF FullInv
      <3>2. heard'[front][Len(heard'[front])] = Result(operations[1].status, NoVoice, err)
        BY <1>0, <3>1, HearKeeps
      <3>3. operations[1].status \in {"CANCELLED", "ERROR"}
        BY <2>1, DeadStep DEF FullInv
      <3> QED
        BY <1>2, <3>2, <3>3 DEF Result
    <2>2. CASE pollItem
      <3> PICK r : r = Result(PopType(responses),
                              IF PopType(responses) = "DATA" THEN responses[1].data[1] ELSE NoVoice,
                              NoError)
        OBVIOUS
      <3>1. Hear(front, r) /\ r \in Promise!Results /\ r.type = PopType(responses)
        BY <2>2, ItemStep, ItemIsResult DEF FullInv, Result
      <3>2. /\ heard'[front][Len(heard'[front])] = r
            /\ Len(heard[front]) \in Nat /\ Len(heard'[front]) = Len(heard[front]) + 1
        BY <1>0, <3>1, HearKeeps
      <3>3. PopType(responses) = "END"
        BY <1>2, <3>1, <3>2
      <3>4. /\ operations[1].status = "END" /\ 1 \in 1 .. Len(responses)
            /\ responses[1].id = front /\ responses[1] \in Stream(TtsId, Voices, {})
            /\ PopType(responses) = FrontType(responses[1])
        BY <2>2, <3>3, ItemStep DEF FullInv
      <3>5. responses[1].polling /\ responses[1].data = <<>>
        <4>1. responses[1].type # "deleted" /\ responses[1].type # "error"
          BY <3>3, <3>4 DEF FrontType
        <4> QED
          BY <3>3, <3>4, <4>1 DEF FrontType
      <3>6. Fits(responses[1], "END")
        BY <1>0, <3>4 DEF DataInv
      <3>7. /\ front \in DOMAIN answered /\ answered[front].done
            /\ answered[front].sent = Told(front) + Len(responses[1].data)
            /\ heard[front] # <<>>
        BY <3>4, <3>5, <3>6 DEF Fits
      <3>8. Told(front) = Len(heard[front]) - 1 /\ Len(responses[1].data) = 0
        BY <3>5, <3>7, EmptySeq DEF Told
      <3> QED
        BY <3>2, <3>7, <3>8
    <2> QED
      BY <2>1, <2>2
  <1> QED
    BY <1>0, <1>1, <1>2 DEF NoVoiceLost

(* No other step returns a result, nor takes back what the server said. *)
LEMMA NoVoiceLostStep ==
  ASSUME MaxSessions <= 1, FullInv, [Next]_vars, NoVoiceLost PROVE NoVoiceLost'
  <1>1. CASE prepare
    <2>1. heard' = [i \in TtsId |-> <<>>]
      BY <1>1 DEF prepare
    <2> QED
      BY <2>1 DEF NoVoiceLost, HasEnded
  <1>2. CASE pollDead \/ pollItem
    BY <1>2, NoVoiceLostPoll
  <1>3. CASE ~prepare /\ heard' = heard
    <2>1. ASSUME NEW i \in DOMAIN answered, answered[i].done
          PROVE  i \in DOMAIN answered' /\ answered'[i] = answered[i]
      BY <1>3, <2>1, DoneKept DEF FullInv, IInv
    <2> QED
      BY <1>3, <2>1 DEF NoVoiceLost
  <1> QED
    <2>1. ASSUME NEW c \in Callers, speakQueue(c) PROVE heard' = heard /\ ~prepare
      <3>1. next_id \in Nat
        BY DEF FullInv, IInv, TypeOK
      <3>2. prepare => next_id' = 0
        BY DEF prepare
      <3> QED
        BY <2>1, <3>1, <3>2 DEF speakQueue, pollVars
    <2>2. UNCHANGED heard \/ prepare \/ pollDead \/ pollItem
      BY <2>1, SilentSteps
    <2> QED
      BY <1>1, <1>2, <1>3, <2>2

(* END is returned only after every voice packet the server sent for the   *)
(* request (tts_impl.cc:391-413): what is in the request's stream and what *)
(* was returned are the first packets sent, in order, and the others are   *)
(* on their way until the answer is complete.                              *)
THEOREM NoVoiceIsLost ==
  ASSUME MaxSessions <= 1, "spurious" \notin Faults
  PROVE  Spec => []NoVoiceLost
  <1>1. Init => NoVoiceLost
    BY DEF Init, NoVoiceLost, HasEnded
  <1>2. FullInv /\ [Next]_vars => FullInv'
    BY FullStep
  <1>3. FullInv /\ NoVoiceLost /\ [Next]_vars => NoVoiceLost'
    BY NoVoiceLostStep
  <1> QED
    BY InitFull, <1>1, <1>2, <1>3, PTL DEF Spec

(* TtsPromise calls over what TtsImpl calls ended. *)
LEMMA OverIsEnded == \A h : Promise!Over(h) <=> HasEnded(h)
  BY DEF Promise!Over, HasEnded, Terminal

(* The requests before the front operation are over, and it is not. *)
LEMMA FrontIsNext ==
  ASSUME FullInv, initialized, operations # <<>>
  PROVE  /\ operations[1].id \in TtsId /\ operations[1].id <= next_id
         /\ ~HasEnded(heard[operations[1].id])
         /\ \A j \in 1 .. operations[1].id - 1 : HasEnded(heard[j])
  <1> DEFINE front == operations[1].id
  <1>0. TypeOK /\ OrderInv /\ LedgerInv
    BY DEF FullInv, HeardInv, IInv, Live
  <1>1. Len(operations) \in Nat /\ 1 \in 1 .. Len(operations)
    BY <1>0, SeqTail DEF TypeOK
  <1>2. front \in TtsId /\ front <= next_id /\ front \in OpIds
    BY <1>0, <1>1, OperationElement DEF OrderInv, OpIds
  <1>3. ASSUME NEW i \in OpIds \cup QueuedIds PROVE i \in Nat /\ front <= i
    <2>1. ASSUME NEW k \in 1 .. Len(operations), i = operations[k].id
          PROVE  i \in Nat /\ front <= i
      <3>1. k # 1 => front < operations[k].id
        <4>1. k # 1 => 1 \in 1 .. k - 1
          BY <1>1
        <4> QED
          BY <1>0, <4>1 DEF OrderInv
      <3>2. operations[k].id \in Nat
        BY <1>0, OperationElement
      <3> QED
        BY <1>2, <2>1, <3>1, <3>2 DEF TtsId
    <2>2. ASSUME NEW k \in 1 .. Len(requests), i = requests[k].id
          PROVE  i \in Nat /\ front <= i
      <3>1. requests[k].id \in TtsId
        BY <1>0, RequestElement
      <3>2. front < requests[k].id
        BY <1>0, <1>1 DEF OrderInv
      <3> QED
        BY <1>2, <2>2, <3>1, <3>2 DEF TtsId
    <2> QED
      BY <2>1, <2>2 DEF OpIds, QueuedIds
  <1>4. ~HasEnded(heard[front])
    BY <1>0, <1>2 DEF LedgerInv, Waiting
  <1>5. ASSUME NEW j \in 1 .. front - 1 PROVE HasEnded(heard[j])
    <2>1. j \in TtsId /\ j \in Nat /\ j < front /\ j <= next_id
      <3>1. next_id \in Nat /\ MaxId \in Nat
        BY <1>0, TtsAssumption DEF TypeOK
      <3>2. front \in 1 .. MaxId /\ front <= next_id
        BY <1>2 DEF TtsId
      <3> HIDE DEF front
      <3> QED
        BY <3>1, <3>2 DEF TtsId
    <2>2. j \notin OpIds \cup QueuedIds
      <3> SUFFICES ASSUME j \in OpIds \cup QueuedIds PROVE FALSE
        OBVIOUS
      <3>1. front <= j /\ front \in Nat
        BY <1>2, <1>3 DEF TtsId
      <3> HIDE DEF front
      <3> QED
        BY <2>1, <3>1
    <2>3. j \notin Waiting
      BY <2>2 DEF Waiting
    <2> QED
      BY <1>0, <2>1, <2>3 DEF LedgerInv
  <1> QED
    BY <1>2, <1>4, <1>5

(* A result of the front operation that may follow is told. *)
LEMMA PollTells ==
  ASSUME FullInv, initialized, operations # <<>>, NEW r \in Promise!Results,
         Hear(operations[1].id, r), next_id' = next_id,
         \/ r.type \in {"CANCELLED", "ERROR"}
         \/ heard[operations[1].id] = <<>> /\ r.type = "START"
         \/ heard[operations[1].id] # <<>> /\ r.type = "END"
         \/ /\ heard[operations[1].id] # <<>> /\ r.type = "DATA"
            /\ r.voice = Len(heard[operations[1].id])
  PROVE  Promise!PromiseNext
  <1> PICK id \in TtsId : id = operations[1].id
    BY FrontIsNext
  <1>1. id <= next_id /\ \A j \in 1 .. id - 1 : Promise!Over(heard[j])
    BY FrontIsNext, OverIsEnded
  <1>2. Promise!MayFollow(heard[id], r)
    BY FrontIsNext, OverIsEnded DEF Promise!MayFollow
  <1>3. heard' = [heard EXCEPT ![id] = Append(@, r)]
    BY DEF Hear, FullInv, HeardInv, HeardType
  <1>4. Promise!Tell(id, r)
    BY <1>1, <1>2, <1>3 DEF Promise!Tell
  <1> QED
    BY <1>4 DEF Promise!PromiseNext, TtsId

(* START, DATA and END follow what was returned. *)
LEMMA ItemTells ==
  ASSUME FullInv, pollItem
  PROVE  Promise!PromiseNext
  <1> PICK r : r = Result(PopType(responses),
                          IF PopType(responses) = "DATA" THEN responses[1].data[1] ELSE NoVoice,
                          NoError)
    OBVIOUS
  <1> PICK id \in TtsId : id = operations[1].id
    BY ItemStep DEF FullInv
  <1>1. /\ initialized /\ operations # <<>> /\ next_id' = next_id
        /\ Hear(operations[1].id, r) /\ r \in Promise!Results
        /\ r.type = PopType(responses)
        /\ PopType(responses) = "DATA" => r.voice = responses[1].data[1]
    BY ItemStep, ItemIsResult DEF FullInv, Result
  <1>2. /\ 1 \in 1 .. Len(operations) /\ 1 \in 1 .. Len(responses)
        /\ operations[1].status \in {"STREAMING", "END"} /\ responses[1].id = id
        /\ responses[1] \in Stream(TtsId, Voices, {})
        /\ responses[1].type \in {"uncompleted", "completed"}
        /\ PopType(responses) = FrontType(responses[1])
        /\ PopType(responses) \in {"START", "DATA", "END"}
    BY ItemStep DEF FullInv
  <1>3. Fits(responses[1], operations[1].status)
    BY <1>1, <1>2 DEF FullInv, DataInv
  <1>4. /\ responses[1].polling <=> heard[id] # <<>>
        /\ \A j \in 1 .. Len(responses[1].data) : responses[1].data[j] = Told(id) + j
    BY <1>2, <1>3 DEF Fits
  <1>5. CASE PopType(responses) = "START"
    <2>1. ~responses[1].polling
      BY <1>2, <1>5 DEF FrontType
    <2> QED
      BY <1>1, <1>4, <1>5, <2>1, PollTells
  <1>6. CASE PopType(responses) = "DATA"
    <2>1. responses[1].polling /\ responses[1].data # <<>>
      BY <1>2, <1>6 DEF FrontType
    <2>2. responses[1].data \in Seq(Voices)
      BY <1>2 DEF Stream
    <2>3. 1 \in 1 .. Len(responses[1].data)
      BY <2>1, <2>2, SeqTail
    <2>4. r.voice = Told(id) + 1
      BY <1>1, <1>4, <1>6, <2>3
    <2>5. Told(id) = Len(heard[id]) - 1 /\ Len(heard[id]) \in Nat
      BY <1>4, <2>1, ToldType DEF Told, FullInv, HeardInv
    <2>6. r.voice = Len(heard[id])
      BY <2>4, <2>5
    <2> QED
      BY <1>1, <1>4, <1>6, <2>1, <2>6, PollTells
  <1>7. CASE PopType(responses) = "END"
    <2>1. responses[1].polling
      BY <1>2, <1>7 DEF FrontType
    <2> QED
      BY <1>1, <1>4, <1>7, <2>1, PollTells
  <1> QED
    BY <1>2, <1>5, <1>6, <1>7

(* CANCELLED and ERROR may cut any answer short. *)
LEMMA DeadTells ==
  ASSUME FullInv, pollDead
  PROVE  Promise!PromiseNext
  <1>1. /\ initialized /\ operations # <<>> /\ next_id' = next_id
        /\ operations[1].status \in {"CANCELLED", "ERROR"}
    BY DeadStep DEF FullInv
  <1>2. PICK err \in Errors \cup {NoError} :
          /\ operations[1].status = "CANCELLED" => err = NoError
          /\ Result(operations[1].status, NoVoice, err) \in Promise!Results
          /\ Hear(operations[1].id, Result(operations[1].status, NoVoice, err))
    BY DeadStep DEF FullInv
  <1>3. Result(operations[1].status, NoVoice, err).type \in {"CANCELLED", "ERROR"}
    BY <1>1 DEF Result
  <1> QED
    BY <1>1, <1>2, <1>3, PollTells

(* Every step maps to a step of TtsPromise or to a stutter. *)
LEMMA PromiseStep ==
  ASSUME MaxSessions <= 1, FullInv, [Next]_vars
  PROVE  [Promise!PromiseNext]_(Promise!promiseVars)
  <1>1. CASE prepare
    <2>1. session = 0
      BY <1>1, TtsAssumption DEF prepare, FullInv, IInv, TypeOK
    <2>2. UNCHANGED <<next_id, heard>>
      BY <1>1, <2>1 DEF prepare, FullInv, HeardInv
    <2> QED
      BY <2>2 DEF Promise!promiseVars
  <1>2. ASSUME NEW c \in Callers, speakQueue(c)
        PROVE  Promise!PromiseNext
    <2>1. next_id < MaxId /\ next_id' = next_id + 1 /\ UNCHANGED heard
      BY <1>2 DEF speakQueue, pollVars
    <2> QED
      BY <2>1 DEF Promise!PromiseNext, Promise!Ask
  <1>3. CASE pollDead \/ pollItem
    BY <1>3, DeadTells, ItemTells
  <1>4. CASE UNCHANGED <<next_id, heard>>
    BY <1>4 DEF Promise!promiseVars
  <1> QED
    BY <1>1, <1>2, <1>3, <1>4, SilentSteps

(* The SDK keeps TtsPromise, in its first session: requests end in the     *)
(* order speak() numbered them, each is START, the packets 1, 2, ... and   *)
(* END, or is cut short by one CANCELLED or ERROR (tts_impl.cc:143-236);   *)
(* only speak() and poll() take a step of the promise.                     *)
THEOREM PromiseIsKept ==
  ASSUME MaxSessions <= 1, "spurious" \notin Faults
  PROVE  Spec => KeepsPromise
  <1>1. Init => Promise!PromiseInit
    BY DEF Init, Promise!PromiseInit, TtsId
  <1>2. FullInv /\ [Next]_vars => FullInv'
    BY FullStep
  <1>3. FullInv /\ [Next]_vars => [Promise!PromiseNext]_(Promise!promiseVars)
    BY PromiseStep
  <1> QED
    BY InitFull, <1>1, <1>2, <1>3, PTL DEF Spec, KeepsPromise, Promise!PromiseSpec

=============================================================================
