--------------------------- MODULE SpeechImplProofs ---------------------------
(***************************************************************************)
(* Theorems about SpeechImpl, for any number of requests, packets, parts,  *)
(* callers and faults. Types hold of every behaviour. The other theorems   *)
(* are about an application that makes requests of one kind (Orderly):     *)
(* texts and voices are in two queues, and send_reqs() may take a text     *)
(* between two packets of a voice; then the rest of the voice goes to the  *)
(* operation of the text (speech_departs.cfg).                             *)
(***************************************************************************)
EXTENDS SpeechImplInv, FiniteSetTheorems

(* What is proved inductive gives what the runs check. *)
LEMMA TypedGives == Typed => TypeOK
  BY DEF TypeOK, Typed, OpType, QueueType, HandType, RestType, Packets, Text, Voice, Result

(* Before prepare() nothing has happened, and nothing else can. *)
LEMMA InitType == Init => Typed
  <1> SUFFICES ASSUME Init PROVE Typed
    OBVIOUS
  <1>1. OpType(SpeechId, Errors)
    <2>1. operations = <<>> /\ current = 0 /\ op_cond = FALSE
      BY DEF Init, CtlInit
    <2>2. operations \in Seq(Operation(SpeechId, Errors)) /\ Len(operations) = 0
      BY <2>1, EmptySeq
    <2>3. op_cond \in BOOLEAN
      BY <2>1
    <2> QED
      BY <2>1, <2>2, <2>3 DEF OpType
  <1>2. QueueType
    BY EmptySeq DEF Init, QueueType
  <1>3. HandType
    BY DEF Init, HandType, NoRequest, Request, ReqType
  <1>4. RestType
    <2>1. initialized \in BOOLEAN /\ linkUp \in BOOLEAN
      BY DEF Init
    <2>2. next_id \in 0 .. MaxId
      BY SpeechAssumption DEF Init
    <2>3. spoken \in [SpeechId -> Nat]
      BY DEF Init
    <2> QED
      BY <2>1, <2>2, <2>3 DEF Init, RestType
  <1> QED
    BY <1>1, <1>2, <1>3, <1>4 DEF Typed

(* Nothing happens before prepare() (speech_impl.cc:106-116). *)
LEMMA FreshStep ==
  ASSUME FreshInv, [Next]_vars
  PROVE  FreshInv' /\ (ctlPc = "new" => prepare \/ UNCHANGED vars)
  <1>1. CASE ctlPc = "new"
    <2>1. Init
      BY <1>1 DEF FreshInv
    <2>2. /\ ctlPc = "new" /\ reqPc = "dead" /\ respPc = "dead" /\ pollPc = "stopped"
          /\ ~initialized /\ ~linkUp /\ current = 0 /\ entering = {} /\ cancelling = {}
          /\ voice_reqs = <<>>
      BY <1>1, <2>1 DEF Init, CtlInit
    <2>3. ~release
      BY <2>2 DEF release, releaseBegin, releaseClose, releaseJoinReq, releaseJoinResp
    <2>4. ~cancel
      BY <2>2 DEF cancel, cancelAll, cancelQueued, cancelOne, cancelOps
    <2>5. ~\E c \in Callers : textRead(c) \/ textStore(c) \/ textQueue(c)
      BY <2>2 DEF textRead, textStore, textQueue
    <2>6. ~start_voice /\ ~\E id \in SpeechId : put_voice(id) \/ end_voice(id) \/ serverAnswers(id)
      BY <2>2 DEF start_voice, put_voice, end_voice, serverAnswers
    <2>7. ~poll
      BY <2>2 DEF poll, pollReleased, pollLook, pollSleep, pollDead, pollItem
    <2>8. ~send_reqs
      BY <2>2 DEF send_reqs, sendQuit, sendWait, sendTake, do_ctl_change_op, changeStarts,
           changeContinues, changeCancels, do_request, sendDone, sendFails, sendErase,
           sendRefresh, sendWaitOp, sendAwake
    <2>9. ~gen_results
      BY <2>2 DEF gen_results, genTimeout, recvPacket, recvWait, recvTimer, recvNothing,
           genAnswer, genFinish, genStale, genError, genErase
    <2>10. ~clock /\ ~\E k \in {"broken", "badData"} : linkError(k)
      BY <2>2 DEF clock, linkError, GrowsIdle, GrowsSilent
    <2>11. prepare \/ UNCHANGED vars
      BY <2>3, <2>4, <2>5, <2>6, <2>7, <2>8, <2>9, <2>10 DEF Next
    <2>12. CASE prepare
      BY <2>12, <2>11 DEF FreshInv, prepare
    <2>13. CASE UNCHANGED vars
      <3>1. Init' = Init
        BY <2>13 DEF vars, Init, CtlInit
      <3> QED
        BY <3>1, <2>1, <2>13 DEF FreshInv
    <2> QED
      BY <2>11, <2>12, <2>13
  <1>2. CASE ctlPc # "new"
    <2>1. CASE UNCHANGED vars
      BY <1>2, <2>1 DEF vars, FreshInv
    <2>2. CASE ctlPc' = ctlPc
      BY <1>2, <2>2 DEF FreshInv
    <2>3. CASE prepare \/ release
      BY <1>2, <2>3 DEF prepare, release, releaseBegin, releaseClose, releaseJoinReq,
                        releaseJoinResp, FreshInv
    <2>4. CASE cancel
      BY <2>4, <2>2 DEF cancel, cancelAll, cancelQueued, cancelOne, cancelOps, runVars
    <2>5. CASE \/ \E c \in Callers : textRead(c) \/ textStore(c) \/ textQueue(c)
               \/ start_voice
               \/ \E id \in SpeechId : put_voice(id) \/ end_voice(id) \/ serverAnswers(id)
      BY <2>5, <2>2 DEF textRead, textStore, textQueue, start_voice, put_voice, end_voice,
                        serverAnswers, runVars
    <2>6. CASE poll
      BY <2>6, <2>2 DEF poll, pollReleased, pollLook, pollSleep, pollDead, pollItem, runVars
    <2>7. CASE send_reqs
      BY <2>7, <2>2 DEF send_reqs, sendQuit, sendWait, sendTake, do_ctl_change_op, changeStarts,
           changeContinues, changeCancels, do_request, sendDone, sendFails, sendErase,
           sendRefresh, sendWaitOp, sendAwake, runVars
    <2>8. CASE gen_results
      BY <2>8, <2>2 DEF gen_results, genTimeout, recvPacket, recvWait, recvTimer, recvNothing,
           genAnswer, genFinish, genStale, genError, genErase, runVars
    <2>9. CASE clock \/ \E k \in {"broken", "badData"} : linkError(k)
      BY <2>9, <2>2 DEF clock, linkError, runVars
    <2> QED
      BY <2>1, <2>3, <2>4, <2>5, <2>6, <2>7, <2>8, <2>9 DEF Next
  <1> QED
    BY <1>1, <1>2

(* No text is added or taken. *)
SameTextIds ==
  /\ Len(text_reqs') = Len(text_reqs)
  /\ \A i \in 1 .. Len(text_reqs) : text_reqs'[i].id = text_reqs[i].id

(* cancel() marks queued texts; it neither moves nor removes them. *)
LEMMA MarkKeeps ==
  ASSUME QueueType, NEW id, MarkTexts(id)
  PROVE  /\ text_reqs' \in Seq(Text) /\ SameTextIds
         /\ \A i \in 1 .. Len(text_reqs) :
              text_reqs'[i].type = IF id = 0 \/ text_reqs[i].id = id THEN "CANCELLED"
                                   ELSE text_reqs[i].type
  <1>0. text_reqs \in Seq(Text)
    BY DEF QueueType
  <1>1. text_reqs' = [i \in 1 .. Len(text_reqs) |->
                        IF id = 0 \/ text_reqs[i].id = id
                        THEN [text_reqs[i] EXCEPT !.type = "CANCELLED"] ELSE text_reqs[i]]
    BY DEF MarkTexts
  <1>2. ASSUME NEW i \in 1 .. Len(text_reqs)
        PROVE  /\ text_reqs'[i] \in Text
               /\ text_reqs'[i].id = text_reqs[i].id
               /\ text_reqs'[i].type = IF id = 0 \/ text_reqs[i].id = id THEN "CANCELLED"
                                       ELSE text_reqs[i].type
    <2>1. text_reqs[i] \in Text
      BY <1>0, SeqElement
    <2> QED
      BY <1>1, <2>1 DEF Text
  <1>3. text_reqs' \in [1 .. Len(text_reqs) -> Text]
    BY <1>1, <1>2
  <1>4. Len(text_reqs) \in Nat
    BY <1>0, SeqElement
  <1> QED
    BY <1>2, <1>3, <1>4, FunIsSeq DEF SameTextIds

(* The streams of the two queues and the queued texts. *)
LEMMA QueueElement ==
  ASSUME QueueType
  PROVE  /\ \A i \in 1 .. Len(text_reqs) :
              /\ text_reqs[i] \in Text /\ text_reqs[i].id \in SpeechId /\ text_reqs[i].data = NoData
              /\ text_reqs[i].type \in {"TEXT", "CANCELLED"}
         /\ \A i \in 1 .. Len(voice_reqs) : voice_reqs[i] \in Voice /\ voice_reqs[i].id \in SpeechId
         /\ \A i \in 1 .. Len(responses) : responses[i] \in Result /\ responses[i].id \in SpeechId
  <1>1. ASSUME NEW i \in 1 .. Len(text_reqs) PROVE text_reqs[i] \in Text
    BY SeqElement DEF QueueType
  <1>2. ASSUME NEW i \in 1 .. Len(voice_reqs) PROVE voice_reqs[i] \in Voice
    BY SeqElement DEF QueueType
  <1>3. ASSUME NEW i \in 1 .. Len(responses) PROVE responses[i] \in Result
    BY SeqElement DEF QueueType
  <1>4. \A t \in Text : t.id \in SpeechId /\ t.data = NoData /\ t.type \in {"TEXT", "CANCELLED"}
    BY DEF Text
  <1>5. (\A t \in Voice : t.id \in SpeechId) /\ \A t \in Result : t.id \in SpeechId
    BY DEF Voice, Result, Stream
  <1> QED
    BY <1>1, <1>2, <1>3, <1>4, <1>5

(* Within its bound a voice has no more packets than all voices together. *)
LEMMA PacketRoom ==
  ASSUME RestType, NEW id \in SpeechId, PacketsPut < MaxChunks
  PROVE  spoken[id] + 1 \in Packets
  <1> DEFINE S == {p \in SpeechId \X (1 .. MaxChunks) : p[2] <= spoken[p[1]]}
             T == {id} \X (1 .. MaxChunks)
  <1>1. spoken[id] \in Nat /\ MaxChunks \in Nat /\ MaxId \in Nat
    BY SpeechAssumption DEF RestType
  <1>2. /\ IsFiniteSet(SpeechId) /\ IsFiniteSet(1 .. MaxChunks)
        /\ Cardinality(1 .. MaxChunks) = MaxChunks
    <2>1. ASSUME NEW n \in Nat PROVE IsFiniteSet(1 .. n) /\ Cardinality(1 .. n) = n
      <3>1. /\ IsFiniteSet(1 .. n)
            /\ Cardinality(1 .. n) = IF 1 > n THEN 0 ELSE n - 1 + 1
        BY FS_Interval
      <3> QED
        BY <3>1
    <2> QED
      BY <1>1, <2>1 DEF SpeechId
  <1>3. IsFiniteSet(SpeechId \X (1 .. MaxChunks))
    BY <1>2, FS_Product
  <1>4. IsFiniteSet(S)
    <2>1. S \in SUBSET (SpeechId \X (1 .. MaxChunks))
      OBVIOUS
    <2> QED
      BY <1>3, <2>1, FS_Subset
  <1>5. Cardinality(T) = MaxChunks
    <2>1. IsFiniteSet({id}) /\ Cardinality({id}) = 1
      BY FS_Singleton
    <2>2. Cardinality(T) = 1 * MaxChunks
      BY <1>2, <2>1, FS_Product
    <2> QED
      BY <1>1, <2>2
  <1>6. CASE spoken[id] >= MaxChunks
    <2>1. T \in SUBSET S
      BY <1>1, <1>6 DEF SpeechId
    <2>2. Cardinality(T) <= Cardinality(S)
      BY <1>4, <2>1, FS_Subset
    <2>3. Cardinality(S) < MaxChunks
      BY DEF PacketsPut
    <2>4. Cardinality(S) \in Nat
      BY <1>4, FS_CardinalityType
    <2> HIDE DEF S, T
    <2> QED
      BY <1>1, <1>5, <2>2, <2>3, <2>4
  <1> QED
    BY <1>1, <1>6 DEF Packets

(* What send_reqs takes from the voices (sqtype_to_reqtype). *)
LEMMA VoiceItem ==
  ASSUME QueueType, PopType(voice_reqs) # "EMPTY"
  PROVE  LET r == VoiceReq(PopItem(voice_reqs)) IN
         /\ voice_reqs # <<>> /\ 1 \in 1 .. Len(voice_reqs)
         /\ r.id = voice_reqs[1].id /\ r.id \in SpeechId
         /\ r.type = CASE PopType(voice_reqs) = "DATA"    -> "VOICE_DATA"
                       [] PopType(voice_reqs) = "START"   -> "VOICE_START"
                       [] PopType(voice_reqs) = "REMOVED" -> "CANCELLED"
                       [] OTHER                           -> "VOICE_END"
  <1> DEFINE k == PopType(voice_reqs)
             s == voice_reqs
             item == PopItem(voice_reqs)
             a == [NoItem EXCEPT !.type = k]
             b == [a EXCEPT !.id = s[1].id]
  <1>1. s # <<>> /\ s \in Seq(Voice)
    BY DEF PopType, QueueType
  <1>2. 1 \in 1 .. Len(s) /\ s[1] \in Voice
    BY <1>1, SeqTail
  <1>3. s[1].id \in SpeechId
    BY <1>2 DEF Voice, Stream
  <1>4. \/ item = b
        \/ \E x : item = [b EXCEPT !.res = x]
        \/ \E x : item = [b EXCEPT !.err = x]
    BY DEF PopItem
  <1>5. a.type = k /\ DOMAIN a = {"type", "id", "res", "err"}
    BY DEF NoItem
  <1> HIDE DEF a
  <1>6. b.type = k /\ b.id = s[1].id /\ DOMAIN b = {"type", "id", "res", "err"}
    BY <1>5
  <1> HIDE DEF b, item
  <1>7. item.type = k /\ item.id = s[1].id
    BY <1>4, <1>6
  <1> HIDE DEF k, s
  <1>8. /\ VoiceReq(item).id = item.id
        /\ VoiceReq(item).type = CASE item.type = "DATA"    -> "VOICE_DATA"
                                   [] item.type = "START"   -> "VOICE_START"
                                   [] item.type = "REMOVED" -> "CANCELLED"
                                   [] OTHER                 -> "VOICE_END"
    BY DEF VoiceReq, Request
  <1> QED
    BY <1>1, <1>2, <1>3, <1>7, <1>8 DEF k, s, item

(* What gen_result_by_resp puts: more data for the stream that is open.    *)
LEMMA PutAllKeeps ==
  ASSUME NEW s \in Seq(Result), NEW id, NEW ds \in Seq(Part)
  PROVE  /\ PutAll(s, id, ds) \in Seq(Result)
         /\ SameIds(s, PutAll(s, id, ds))
         /\ \A i \in 1 .. Len(s) : /\ PutAll(s, id, ds)[i].type = s[i].type
                                   /\ PutAll(s, id, ds)[i].polling = s[i].polling
  <1> DEFINE f == PutAll(s, id, ds)
  <1>1. ASSUME NEW i \in 1 .. Len(s)
        PROVE  /\ f[i] \in Result /\ f[i].id = s[i].id /\ f[i].type = s[i].type
               /\ f[i].polling = s[i].polling
    <2>1. s[i] \in Result
      BY SeqElement
    <2>2. f[i] = IF s[i].id = id /\ s[i].type = "uncompleted"
                 THEN [s[i] EXCEPT !.data = @ \o ds] ELSE s[i]
      BY DEF PutAll
    <2>3. s[i].data \o ds \in Seq(Part)
      <3>1. s[i].data \in Seq(Part)
        BY <2>1 DEF Result, Stream
      <3> QED
        BY <3>1
    <2> QED
      BY <2>1, <2>2, <2>3 DEF Result, Stream
  <1>2. f \in [1 .. Len(s) -> Result]
    BY <1>1 DEF PutAll
  <1> QED
    BY <1>1, <1>2, FunIsSeq, SeqElement DEF SameIds

(* The parts of a response are parts (speech_impl.cc:640-662). *)
LEMMA PartsType == \A r : Parts(r) \in Seq(Part)
  <1> TAKE r
  <1> DEFINE a == IF r.extra THEN <<"extra">> ELSE <<>>
             b == CASE r.type = "INTERMEDIATE" -> <<"inter">>
                    [] r.type = "ASR_FINISH"   -> <<"asr">>
                    [] OTHER                   -> <<>>
  <1>1. a \in Seq(Part) /\ b \in Seq(Part)
    <2>1. \A p \in Part : <<p>> \in Seq(Part)
      OBVIOUS
    <2>2. "extra" \in Part /\ "inter" \in Part /\ "asr" \in Part
      BY DEF Part
    <2>3. <<"extra">> \in Seq(Part) /\ <<"inter">> \in Seq(Part) /\ <<"asr">> \in Seq(Part)
      BY <2>1, <2>2
    <2>4. <<>> \in Seq(Part)
      OBVIOUS
    <2> QED
      BY <2>3, <2>4
  <1>2. Parts(r) = a \o b
    BY DEF Parts
  <1> HIDE DEF a, b
  <1> QED
    BY <1>1, <1>2

(* A finished operation ends, any other is streaming; its stream is open   *)
(* until the last part, and then it is completed or failed.                *)
LEMMA AnswerKeeps ==
  ASSUME Typed, genAnswer
  PROVE  /\ OpType(SpeechId, Errors)' /\ SameOpIds
         /\ current \in 1 .. Len(operations) /\ rx.id = operations[current].id
         /\ operations[current].status \notin {"CANCELLED", "ERROR"}
         /\ \A i \in 1 .. Len(operations) : i # current => operations'[i] = operations[i]
         /\ operations'[current].status = IF Last(rx) THEN "END" ELSE "STREAMING"
         /\ current' = IF Last(rx) THEN 0 ELSE current
         /\ op_cond' = (op_cond /\ ~Last(rx))
  <1> USE DEF Typed
  <1> DEFINE op      == operations[current]
             status  == IF Last(rx) THEN "END" ELSE "STREAMING"
             fresh   == Refreshed(op, TRUE)
             op1     == [fresh EXCEPT !.status = status]
  <1>1. current # 0 /\ current \in 1 .. Len(operations) /\ op.id = rx.id /\ op.id \in SpeechId
        /\ op \in Operation(SpeechId, Errors) /\ Len(operations) \in Nat
    <2>1. current # 0 /\ op.id = rx.id
      BY DEF IsCurrent, genAnswer, Answers
    <2>2. current \in 1 .. Len(operations) /\ Len(operations) \in Nat
      BY <2>1, SeqElement DEF OpType
    <2> QED
      BY <2>1, <2>2, OpElement
  <1>2. status \in Status
    BY DEF Status
  <1>3. fresh \in Operation(SpeechId, Errors) /\ fresh.id = op.id
    <2>1. \A x \in Operation(SpeechId, Errors) :
            /\ Refreshed(x, TRUE) \in Operation(SpeechId, Errors)
            /\ Refreshed(x, TRUE).id = x.id
      BY RefreshedIsOp
    <2> QED
      BY <1>1, <2>1
  <1>4. /\ operations' = [operations EXCEPT ![current] = op1]
        /\ current' = IF Last(rx) THEN 0 ELSE current
        /\ op_cond' = (op_cond /\ ~Last(rx))
        /\ op.status \notin {"CANCELLED", "ERROR"}
    BY DEF genAnswer, Answers, Dead
  <1> HIDE DEF fresh, status
  <1>5. op1 \in Operation(SpeechId, Errors) /\ op1.id = op.id /\ op1.status = status
    BY <1>2, <1>3 DEF Operation
  <1> HIDE DEF op1
  <1>6. /\ operations' \in Seq(Operation(SpeechId, Errors))
        /\ Len(operations') = Len(operations)
        /\ operations'[current] = op1
        /\ \A i \in 1 .. Len(operations) : i # current => operations'[i] = operations[i]
    BY <1>1, <1>4, <1>5, CurrentReplaced
  <1>7. op_cond' \in BOOLEAN
    BY <1>4 DEF OpType
  <1>8. OpType(SpeechId, Errors)'
    BY <1>1, <1>4, <1>6, <1>7 DEF OpType
  <1>9. SameOpIds
    BY <1>1, <1>5, <1>6 DEF SameOpIds
  <1> QED
    BY <1>1, <1>4, <1>5, <1>6, <1>8, <1>9 DEF status

(* The streams after an answer. *)
LEMMA StreamedKeeps ==
  ASSUME Typed, genAnswer
  PROVE  LET started == IF operations[current].status = "START" THEN Start(responses, rx.id)
                        ELSE responses IN
         /\ started \in Seq(Result)
         /\ responses' \in Seq(Result) /\ SameIds(started, responses')
         /\ ~Last(rx) => \A i \in 1 .. Len(started) : responses'[i].type = started[i].type
         /\ \A i \in 1 .. Len(started) :
              started[i].id # rx.id => responses'[i].type = started[i].type
  <1> DEFINE started == IF operations[current].status = "START" THEN Start(responses, rx.id)
                        ELSE responses
             filled == PutAll(started, rx.id, Parts(rx))
  <1>0. rx.id \in SpeechId
    BY AnswerKeeps, OpElement DEF Typed
  <1>1. started \in Seq(Result)
    BY <1>0, StartKeeps DEF Typed, QueueType, Result
  <1>2. responses' = CASE rx.type = "FINISH" -> End(filled, rx.id, "nlp")
                       [] rx.type = "FAIL"   -> Erase(filled, rx.id, SPEECH_SERVER_INTERNAL)
                       [] OTHER              -> filled
    BY DEF genAnswer, Streamed
  <1> HIDE DEF started
  <1>3. /\ filled \in Seq(Result) /\ SameIds(started, filled)
        /\ \A i \in 1 .. Len(started) : filled[i].type = started[i].type
    BY <1>1, PutAllKeeps, PartsType
  <1> HIDE DEF filled
  <1>4. CASE rx.type = "FINISH"
    <2>1. "nlp" \in Part \cup {NoData}
      BY DEF Part
    <2>2. responses' = End(filled, rx.id, "nlp")
      BY <1>2, <1>4
    <2>3. /\ responses' \in Seq(Result) /\ SameIds(filled, responses')
          /\ \A i \in 1 .. Len(filled) :
               filled[i].id # rx.id => responses'[i].type = filled[i].type
      BY <1>3, <2>1, <2>2, EndKeeps DEF Result
    <2> QED
      BY <1>1, <1>3, <1>4, <2>3 DEF SameIds, Last, started
  <1>5. CASE rx.type = "FAIL"
    <2>1. responses' = Erase(filled, rx.id, SPEECH_SERVER_INTERNAL)
      BY <1>2, <1>5
    <2>2. /\ responses' \in Seq(Result) /\ SameIds(filled, responses')
          /\ \A i \in 1 .. Len(filled) :
               filled[i].id # rx.id => responses'[i] = filled[i]
      BY <1>3, <2>1, EraseKeeps DEF Result
    <2> QED
      BY <1>1, <1>3, <1>5, <2>2 DEF SameIds, Last, started
  <1>6. CASE rx.type \notin {"FINISH", "FAIL"}
    BY <1>1, <1>2, <1>3, <1>6 DEF started
  <1> QED
    BY <1>4, <1>5, <1>6

(* The calls of the application. *)
LEMMA AppType ==
  ASSUME Typed, FreshInv,
         \/ prepare \/ release \/ cancel
         \/ \E c \in Callers : textRead(c) \/ textStore(c) \/ textQueue(c)
         \/ start_voice
         \/ \E id \in SpeechId : put_voice(id) \/ end_voice(id)
  PROVE  Typed'
  <1> USE DEF Typed
  <1>1. CASE prepare
    <2>1. Init
      BY <1>1 DEF prepare, FreshInv
    <2>2. OpType(SpeechId, Errors)' /\ QueueType'
      BY <1>1 DEF prepare, ctlVars, queues, OpType, QueueType
    <2>3. HandType'
      BY <1>1, <2>1 DEF prepare, Init, HandType
    <2>4. next_id' \in 0 .. MaxId
      BY <1>1, SpeechAssumption DEF prepare
    <2>5. RestType'
      BY <1>1, <2>4 DEF prepare, RestType
    <2> QED
      BY <2>2, <2>3, <2>5
  <1>2. ASSUME NEW c \in Callers, textRead(c) PROVE Typed'
    <2>1. OpType(SpeechId, Errors)' /\ QueueType' /\ HandType'
      BY <1>2 DEF textRead, ctlVars, queues, sendVars, OpType, QueueType, HandType
    <2>2. next_id + 1 \in SpeechId
      BY <1>2, SpeechAssumption DEF textRead, RestType, SpeechId
    <2>3. entering' \subseteq [by : Callers, id : SpeechId, stored : BOOLEAN]
      <3>1. [by |-> c, id |-> next_id + 1, stored |-> FALSE]
              \in [by : Callers, id : SpeechId, stored : BOOLEAN]
        BY <1>2, <2>2
      <3> QED
        BY <1>2, <3>1 DEF textRead, RestType
    <2>4. RestType'
      BY <1>2, <2>3 DEF textRead, genVars, pollVars, runVars, netVars, RestType
    <2> QED
      BY <2>1, <2>4
  <1>3. ASSUME NEW c \in Callers, textStore(c) PROVE Typed'
    <2>1. OpType(SpeechId, Errors)' /\ QueueType' /\ HandType'
      BY <1>3 DEF textStore, ctlVars, queues, sendVars, OpType, QueueType, HandType
    <2>2. PICK e \in entering : /\ next_id' = e.id
                                /\ entering' = (entering \ {e}) \cup {[e EXCEPT !.stored = TRUE]}
      BY <1>3 DEF textStore
    <2>3. e.id \in SpeechId /\ next_id' \in 0 .. MaxId
      BY <2>2, SpeechAssumption DEF RestType, SpeechId
    <2>4. [e EXCEPT !.stored = TRUE] \in [by : Callers, id : SpeechId, stored : BOOLEAN]
      BY <2>3 DEF RestType
    <2>5. RestType'
      BY <1>3, <2>2, <2>3, <2>4 DEF textStore, genVars, pollVars, runVars, netVars, RestType
    <2> QED
      BY <2>1, <2>5
  <1>4. ASSUME NEW c \in Callers, textQueue(c) PROVE Typed'
    <2>1. PICK e \in entering : /\ entering' = entering \ {e}
                                /\ text_reqs' = Append(text_reqs, Request(e.id, "TEXT", NoData))
      BY <1>4 DEF textQueue
    <2>2. OpType(SpeechId, Errors)' /\ HandType'
      BY <1>4 DEF textQueue, WakeReq, ctlVars, OpType, HandType
    <2>3. QueueType'
      <3>1. Request(e.id, "TEXT", NoData) \in Text
        BY DEF RestType, Text, Request
      <3>2. text_reqs' \in Seq(Text)
        BY <2>1, <3>1, SeqAppend DEF QueueType
      <3> QED
        BY <1>4, <3>2 DEF textQueue, QueueType
    <2>4. RestType'
      BY <1>4, <2>1 DEF textQueue, genVars, pollVars, runVars, netVars, RestType
    <2> QED
      BY <2>2, <2>3, <2>4
  <1>5. CASE start_voice
    <2>1. next_id + 1 \in SpeechId
      BY <1>5, SpeechAssumption DEF start_voice, RestType, SpeechId
    <2>2. OpType(SpeechId, Errors)' /\ HandType'
      BY <1>5 DEF start_voice, WakeReq, ctlVars, OpType, HandType
    <2>3. QueueType'
      BY <1>5, <2>1, StartKeeps DEF start_voice, QueueType, Voice
    <2>4. RestType'
      BY <1>5, <2>1 DEF start_voice, genVars, pollVars, runVars, netVars, RestType, SpeechId
    <2> QED
      BY <2>2, <2>3, <2>4
  <1>6. ASSUME NEW id \in SpeechId, put_voice(id) PROVE Typed'
    <2>1. spoken[id] + 1 \in Packets
      BY <1>6, PacketRoom DEF put_voice
    <2>2. OpType(SpeechId, Errors)' /\ HandType'
      BY <1>6 DEF put_voice, WakeReq, ctlVars, OpType, HandType
    <2>3. QueueType'
      BY <1>6, <2>1, PutKeeps DEF put_voice, QueueType, Voice
    <2>4. RestType'
      BY <1>6 DEF put_voice, genVars, pollVars, runVars, netVars, RestType
    <2> QED
      BY <2>2, <2>3, <2>4
  <1>7. ASSUME NEW id \in SpeechId, end_voice(id) PROVE Typed'
    <2>2. OpType(SpeechId, Errors)' /\ HandType'
      BY <1>7 DEF end_voice, WakeReq, ctlVars, OpType, HandType
    <2>3. QueueType'
      BY <1>7, EndKeeps DEF end_voice, QueueType, Voice
    <2>4. RestType'
      BY <1>7 DEF end_voice, appVars, genVars, pollVars, runVars, netVars, RestType
    <2> QED
      BY <2>2, <2>3, <2>4
  <1>8. CASE cancel
    <2>1. ASSUME NEW id \in Cancels, cancelQueued(id) PROVE Typed'
      <3>1. OpType(SpeechId, Errors)' /\ HandType'
        BY <2>1 DEF cancelQueued, WakeReq, ctlVars, OpType, HandType
      <3>2. QueueType'
        <4>1. CASE HasStream(voice_reqs, id)
          BY <2>1, <4>1, EraseKeeps DEF cancelQueued, QueueType, Voice
        <4>2. CASE ~HasStream(voice_reqs, id)
          BY <2>1, <4>2, MarkKeeps DEF cancelQueued, QueueType
        <4> QED
          BY <4>1, <4>2
      <3>3. RestType'
        BY <2>1 DEF cancelQueued, appVars, genVars, runVars, netVars, RestType
      <3> QED
        BY <3>1, <3>2, <3>3
    <2>2. ASSUME NEW id \in Cancels, cancelOne(id) PROVE Typed'
      <3>1. OpType(SpeechId, Errors)' /\ HandType' /\ QueueType'
        BY <2>2 DEF cancelOne, queues, sendVars, ctlVars, OpType, HandType, QueueType
      <3>2. RestType'
        BY <2>2 DEF cancelOne, appVars, genVars, pollVars, netVars, RestType
      <3> QED
        BY <3>1, <3>2
    <2>3. CASE cancelAll
      <3>1. OpType(SpeechId, Errors)' /\ HandType'
        BY <2>3 DEF cancelAll, WakeReq, ctlVars, OpType, HandType
      <3>2. QueueType'
        BY <2>3, ClearKeeps, MarkKeeps DEF cancelAll, QueueType, Voice
      <3>3. RestType'
        BY <2>3 DEF cancelAll, appVars, genVars, pollVars, netVars, RestType
      <3> QED
        BY <3>1, <3>2, <3>3
    <2>4. CASE cancelOps
      <3>1. OpType(SpeechId, Errors)'
        BY <2>4, CancelKeeps DEF cancelOps
      <3>2. HandType' /\ QueueType'
        BY <2>4 DEF cancelOps, queues, sendVars, HandType, QueueType
      <3>3. RestType'
        BY <2>4 DEF cancelOps, WakePoll, appVars, genVars, netVars, RestType
      <3> QED
        BY <3>1, <3>2, <3>3
    <2> QED
      BY <1>8, <2>1, <2>2, <2>3, <2>4 DEF cancel
  <1>9. CASE release
    <2>1. CASE releaseBegin
      <3>1. OpType(SpeechId, Errors)' /\ HandType' /\ QueueType'
        BY <2>1 DEF releaseBegin, queues, sendVars, ctlVars, OpType, HandType, QueueType
      <3>2. RestType'
        BY <2>1 DEF releaseBegin, genVars, pollVars, netVars, RestType
      <3> QED
        BY <3>1, <3>2
    <2>2. CASE releaseClose
      <3>1. OpType(SpeechId, Errors)' /\ HandType'
        BY <2>2 DEF releaseClose, WakeReq, ctlVars, OpType, HandType
      <3>2. QueueType'
        BY <2>2, EmptySeq DEF releaseClose, QueueType
      <3>3. RestType'
        BY <2>2 DEF releaseClose, WakeRecv, appVars, pollVars, RestType
      <3> QED
        BY <3>1, <3>2, <3>3
    <2>3. CASE releaseJoinReq
      <3>1. OpType(SpeechId, Errors)'
        BY <2>3, FinishKeeps DEF releaseJoinReq
      <3>2. HandType' /\ QueueType'
        BY <2>3, EmptySeq DEF releaseJoinReq, queues, sendVars, HandType, QueueType
      <3>3. RestType'
        BY <2>3 DEF releaseJoinReq, WakePoll, appVars, genVars, netVars, RestType
      <3> QED
        BY <3>1, <3>2, <3>3
    <2>4. CASE releaseJoinResp
      <3>1. OpType(SpeechId, Errors)' /\ HandType' /\ QueueType'
        BY <2>4 DEF releaseJoinResp, queues, sendVars, ctlVars, OpType, HandType, QueueType
      <3>2. RestType'
        BY <2>4 DEF releaseJoinResp, appVars, genVars, pollVars, netVars, RestType
      <3> QED
        BY <3>1, <3>2
    <2> QED
      BY <1>9, <2>1, <2>2, <2>3, <2>4 DEF release
  <1> QED
    BY <1>1, <1>2, <1>3, <1>4, <1>5, <1>6, <1>7, <1>8, <1>9

(* poll(). *)
LEMMA PollType ==
  ASSUME Typed, poll PROVE Typed'
  <1> USE DEF Typed
  <1>1. CASE pollReleased \/ pollLook \/ pollSleep
    <2>1. /\ UNCHANGED <<ctlVars, appVars, queues, responses, sendVars, genVars, runVars, netVars>>
          /\ pollPc' \in {"stopped", "toSleep", "asleep"}
      BY <1>1 DEF pollReleased, pollLook, pollSleep
    <2>2. OpType(SpeechId, Errors)' /\ QueueType' /\ HandType'
      BY <2>1 DEF ctlVars, queues, sendVars, OpType, QueueType, HandType
    <2>3. RestType'
      BY <2>1 DEF appVars, genVars, runVars, netVars, RestType
    <2> QED
      BY <2>2, <2>3
  <1>2. responses \in Seq(Result)
    BY DEF QueueType
  <1>3. CASE pollDead \/ pollItem
    <2>1. OpType(SpeechId, Errors)'
      <3>1. (remove_front_op \/ UNCHANGED ctlVars) /\ operations # <<>>
        BY <1>3 DEF pollDead, pollItem
      <3>2. CASE remove_front_op
        BY <3>1, <3>2, RemoveFrontKeeps
      <3>3. CASE UNCHANGED ctlVars
        BY <3>3 DEF ctlVars, OpType
      <3> QED
        BY <3>1, <3>2, <3>3
    <2>2. responses' \in Seq(Result)
      <3>1. CASE pollDead
        <4> DEFINE e == Erase(responses, operations[1].id, 0)
        <4>1. e \in Seq(Result)
          BY <1>2, EraseKeeps DEF Result
        <4>2. PopRest(e) \in Seq(Result)
          BY <4>1, PopRestKeeps DEF Result
        <4> QED
          BY <1>2, <3>1, <4>2 DEF pollDead, DeadRest
      <3>2. CASE pollItem
        BY <1>2, <3>2, PopRestKeeps DEF pollItem, Result
      <3> QED
        BY <1>3, <3>1, <3>2
    <2>3. QueueType' /\ HandType'
      BY <1>3, <2>2 DEF pollDead, pollItem, queues, sendVars, QueueType, HandType
    <2>4. RestType'
      BY <1>3 DEF pollDead, pollItem, appVars, genVars, runVars, netVars, RestType
    <2> QED
      BY <2>1, <2>3, <2>4
  <1> QED
    BY <1>1, <1>3 DEF poll

(* The sending thread goes back to the top of its loop (send_reqs,         *)
(* speech_impl.cc:369).                                                    *)
LEMMA NextReqType == HandType /\ NextReq => HandType'
  BY DEF HandType, NextReq, NoRequest, Request, ReqType

(* send_reqs(). *)
LEMMA SendType ==
  ASSUME Typed, send_reqs PROVE Typed'
  <1> USE DEF Typed
  <1>1. CASE sendQuit \/ sendWait
    <2>1. /\ UNCHANGED <<ctlVars, appVars, queues, responses, req, seen, genVars, pollVars,
                         runVars, netVars>>
          /\ reqPc = "top" /\ reqPc' \in {"dead", "asleep"}
      BY <1>1 DEF sendQuit, sendWait
    <2>2. OpType(SpeechId, Errors)' /\ QueueType' /\ HandType'
      BY <2>1 DEF ctlVars, queues, OpType, QueueType, HandType
    <2>3. RestType'
      BY <2>1 DEF appVars, genVars, pollVars, runVars, netVars, RestType
    <2> QED
      BY <2>2, <2>3
  <1>2. CASE sendTake
    <2>1. UNCHANGED <<ctlVars, appVars, responses, genVars, pollVars, runVars, netVars>>
          /\ reqPc' = "change" /\ reqPc = "top"
      BY <1>2 DEF sendTake
    <2>2. voice_reqs' \in Seq(Voice)
      BY <1>2, PopRestKeeps DEF sendTake, QueueType, Voice
    <2>3. req'.id \in SpeechId /\ req'.type \in ReqType /\ text_reqs' \in Seq(Text)
      <3>1. CASE PopType(voice_reqs) # "EMPTY"
        <4>1. req' = VoiceReq(PopItem(voice_reqs)) /\ text_reqs' = text_reqs
          BY <1>2, <3>1 DEF sendTake
        <4> QED
          BY <3>1, <4>1, VoiceItem DEF QueueType, ReqType
      <3>2. CASE PopType(voice_reqs) = "EMPTY"
        <4>1. req' = Head(text_reqs) /\ text_reqs' = Tail(text_reqs) /\ text_reqs # <<>>
          BY <1>2, <3>2 DEF sendTake, Idle
        <4>2. text_reqs[1] \in Text /\ Tail(text_reqs) \in Seq(Text) /\ req' = text_reqs[1]
          BY <4>1, SeqTail DEF QueueType
        <4> QED
          BY <4>1, <4>2 DEF Text, ReqType
      <3> QED
        BY <3>1, <3>2
    <2>4. seen' \in SpeechId \cup {0}
      <3>1. CASE current # 0
        <4>1. current \in 1 .. Len(operations)
          BY <3>1, SeqElement DEF OpType
        <4> QED
          BY <1>2, <3>1, <4>1, OpElement DEF sendTake
      <3>2. CASE current = 0
        BY <1>2, <3>2 DEF sendTake
      <3> QED
        BY <3>1, <3>2
    <2>5. 0 \notin SpeechId
      BY SpeechAssumption DEF SpeechId
    <2>6. OpType(SpeechId, Errors)' /\ QueueType'
      BY <2>1, <2>2, <2>3 DEF ctlVars, OpType, QueueType
    <2>7. HandType'
      BY <2>1, <2>3, <2>4, <2>5 DEF HandType
    <2>8. RestType'
      BY <2>1 DEF appVars, genVars, pollVars, runVars, netVars, RestType
    <2> QED
      BY <2>6, <2>7, <2>8
  <1>3. CASE changeStarts
    <2>1. req.id \in SpeechId
      BY <1>3 DEF changeStarts, HandType
    <2>2. OpType(SpeechId, Errors)'
      BY <1>3, <2>1, NewOpKeeps DEF changeStarts, Status
    <2>3. QueueType' /\ HandType'
      BY <1>3 DEF changeStarts, queues, QueueType, HandType
    <2>4. RestType'
      BY <1>3 DEF changeStarts, appVars, genVars, pollVars, runVars, netVars, RestType
    <2> QED
      BY <2>2, <2>3, <2>4
  <1>4. CASE changeContinues
    <2>1. OpType(SpeechId, Errors)' /\ QueueType'
      BY <1>4 DEF changeContinues, ctlVars, queues, OpType, QueueType
    <2>2. HandType'
      <3>1. CASE seen = 0
        BY <1>4, <3>1, NextReqType DEF changeContinues
      <3>2. CASE seen # 0
        BY <1>4, <3>2 DEF changeContinues, HandType
      <3> QED
        BY <3>1, <3>2
    <2>3. RestType'
      BY <1>4 DEF changeContinues, appVars, genVars, pollVars, runVars, netVars, RestType
    <2> QED
      BY <2>1, <2>2, <2>3
  <1>5. CASE changeCancels
    <2>1. req.id \in SpeechId
      BY <1>5 DEF changeCancels, HandType
    <2>2. OpType(SpeechId, Errors)' /\ HandType'
      <3>1. CASE seen = 0
        <4>1. new_op(req.id, "CANCELLED") /\ NextReq
          BY <1>5, <3>1 DEF changeCancels
        <4> QED
          BY <2>1, <4>1, NewOpKeeps, NextReqType DEF Status
      <3>2. CASE seen # 0
        <4>1. /\ operations' = [i \in 1 .. Len(operations) |->
                                  IF Hit(seen, i) THEN [operations[i] EXCEPT !.status = "CANCELLED"]
                                  ELSE operations[i]]
              /\ current' = 0 /\ op_cond' = op_cond
              /\ reqPc' = "send" /\ UNCHANGED <<req, seen>>
          BY <1>5, <3>2 DEF changeCancels
        <4>2. operations' \in Seq(Operation(SpeechId, Errors)) /\ Len(operations') = Len(operations)
          <5>1. ASSUME NEW i \in 1 .. Len(operations)
                PROVE  operations'[i] \in Operation(SpeechId, Errors)
            <6>1. operations[i] \in Operation(SpeechId, Errors)
              BY OpElement
            <6> QED
              BY <4>1, <6>1 DEF Operation, Status
          <5>2. operations' \in [1 .. Len(operations) -> Operation(SpeechId, Errors)]
            BY <4>1, <5>1
          <5>3. Len(operations) \in Nat
            BY SeqElement DEF OpType
          <5> QED
            BY <5>2, <5>3, FunIsSeq
        <4>3. op_cond' \in BOOLEAN
          BY <4>1 DEF OpType
        <4>4. OpType(SpeechId, Errors)'
          BY <4>1, <4>2, <4>3 DEF OpType
        <4> QED
          BY <1>5, <4>1, <4>4 DEF changeCancels, HandType
      <3> QED
        BY <3>1, <3>2
    <2>3. QueueType'
      BY <1>5 DEF changeCancels, queues, QueueType
    <2>4. RestType'
      BY <1>5 DEF changeCancels, WakePoll, appVars, genVars, runVars, netVars, RestType
    <2> QED
      BY <2>2, <2>3, <2>4
  <1>6. ASSUME NEW lost \in BOOLEAN, sendDone(lost) PROVE Typed'
    <2>1. OpType(SpeechId, Errors)' /\ QueueType' /\ HandType'
      BY <1>6 DEF sendDone, ctlVars, queues, OpType, QueueType, HandType
    <2>2. RestType'
      BY <1>6 DEF sendDone, appVars, genVars, pollVars, runVars, RestType
    <2> QED
      BY <2>1, <2>2
  <1>7. CASE sendFails
    <2>1. OpType(SpeechId, Errors)'
      BY <1>7, SetErrorKeeps DEF sendFails, Errors
    <2>2. QueueType' /\ HandType'
      BY <1>7 DEF sendFails, queues, QueueType, HandType
    <2>3. RestType'
      BY <1>7 DEF sendFails, WakePoll, appVars, genVars, runVars, netVars, RestType
    <2> QED
      BY <2>1, <2>2, <2>3
  <1>8. CASE sendErase
    <2>1. QueueType'
      BY <1>8, EraseKeeps DEF sendErase, EraseReq, QueueType, Voice
    <2>2. HandType'
      BY <1>8, NextReqType DEF sendErase
    <2>3. OpType(SpeechId, Errors)'
      BY <1>8 DEF sendErase, ctlVars, OpType
    <2>4. RestType'
      BY <1>8 DEF sendErase, appVars, genVars, pollVars, runVars, netVars, RestType
    <2> QED
      BY <2>1, <2>2, <2>3, <2>4
  <1>9. CASE sendRefresh
    <2>1. OpType(SpeechId, Errors)'
      BY <1>9, RefreshKeeps DEF sendRefresh
    <2>2. HandType'
      <3>1. CASE req.type \in {"TEXT", "VOICE_END"}
        BY <1>9, <3>1 DEF sendRefresh, HandType
      <3>2. CASE req.type \notin {"TEXT", "VOICE_END"}
        BY <1>9, <3>2, NextReqType DEF sendRefresh
      <3> QED
        BY <3>1, <3>2
    <2>3. QueueType'
      BY <1>9 DEF sendRefresh, queues, QueueType
    <2>4. RestType'
      BY <1>9 DEF sendRefresh, appVars, genVars, pollVars, runVars, netVars, RestType
    <2> QED
      BY <2>1, <2>2, <2>3, <2>4
  <1>10. CASE sendWaitOp \/ sendAwake
    <2>1. UNCHANGED <<operations, current, appVars, queues, responses, genVars, pollVars,
                      runVars, netVars>>
      BY <1>10 DEF sendWaitOp, sendAwake, ctlVars
    <2>2. op_cond' \in BOOLEAN
      BY <1>10 DEF sendWaitOp, sendAwake, ctlVars, OpType
    <2>3. HandType'
      <3>1. \/ NextReq
            \/ reqPc = "waitOp" /\ reqPc' = "inOp" /\ UNCHANGED <<req, seen>>
        BY <1>10 DEF sendWaitOp, sendAwake
      <3>2. CASE NextReq
        BY <3>2, NextReqType
      <3> QED
        BY <3>1, <3>2 DEF HandType
    <2>4. OpType(SpeechId, Errors)' /\ QueueType'
      BY <2>1, <2>2 DEF queues, OpType, QueueType
    <2>5. RestType'
      BY <2>1 DEF appVars, genVars, pollVars, runVars, netVars, RestType
    <2> QED
      BY <2>3, <2>4, <2>5
  <1> QED
    BY <1>1, <1>2, <1>3, <1>4, <1>5, <1>6, <1>7, <1>8, <1>9, <1>10
    DEF send_reqs, do_ctl_change_op, do_request

(* gen_results(). *)
LEMMA RecvType ==
  ASSUME Typed, gen_results PROVE Typed'
  <1> USE DEF Typed
  <1>1. CASE genTimeout \/ recvPacket \/ recvWait \/ recvTimer \/ recvNothing
    <2>1. /\ UNCHANGED <<ctlVars, appVars, queues, responses, sendVars, pollVars, runVars, linkUp>>
          /\ respPc' \in {"dead", "recv", "asleep", "awake", "handle"}
      BY <1>1 DEF genTimeout, recvPacket, recvWait, recvTimer, recvNothing, netVars
    <2>2. OpType(SpeechId, Errors)' /\ QueueType' /\ HandType'
      BY <2>1 DEF ctlVars, queues, sendVars, OpType, QueueType, HandType
    <2>3. RestType'
      BY <2>1 DEF appVars, pollVars, runVars, RestType
    <2> QED
      BY <2>2, <2>3
  <1>2. CASE genAnswer
    <2>1. /\ OpType(SpeechId, Errors)' /\ current \in 1 .. Len(operations)
          /\ rx.id = operations[current].id
      BY <1>2, AnswerKeeps
    <2>2. rx.id \in SpeechId /\ rx.id # 0
      BY <2>1, OpElement, SpeechAssumption DEF SpeechId
    <2>3. QueueType' /\ HandType'
      BY <1>2, StreamedKeeps DEF genAnswer, queues, sendVars, QueueType, HandType
    <2>4. /\ pollPc' \in {"stopped", "running", "toSleep", "asleep"}
          /\ respPc' \in {"finish", "timeout"} /\ (respPc' = "finish" => rx'.id # 0)
      BY <1>2, <2>2 DEF genAnswer, WakePoll, NextResp, RestType
    <2>5. RestType'
      BY <1>2, <2>4 DEF genAnswer, appVars, runVars, netVars, RestType
    <2> QED
      BY <2>1, <2>3, <2>5
  <1>3. CASE genFinish \/ genErase
    <2>1. EraseReq(rx.id) /\ NextResp
          /\ UNCHANGED <<ctlVars, appVars, text_reqs, responses, req, seen, runVars, netVars>>
      BY <1>3 DEF genFinish, genErase
    <2>2. QueueType'
      BY <2>1, EraseKeeps DEF EraseReq, QueueType, Voice
    <2>3. OpType(SpeechId, Errors)'
      BY <2>1 DEF ctlVars, OpType
    <2>4. HandType'
      BY <1>3, <2>1 DEF genFinish, genErase, WakeReq, HandType
    <2>5. pollPc' \in {"stopped", "running", "toSleep", "asleep"}
      BY <1>3 DEF genFinish, genErase, WakePoll, pollVars, RestType
    <2>6. RestType'
      BY <2>1, <2>5 DEF NextResp, appVars, runVars, netVars, RestType
    <2> QED
      BY <2>2, <2>3, <2>4, <2>6
  <1>4. CASE genStale
    <2>1. OpType(SpeechId, Errors)'
      BY <1>4, RefreshKeeps DEF genStale
    <2>2. QueueType' /\ HandType'
      BY <1>4 DEF genStale, queues, sendVars, QueueType, HandType
    <2>3. RestType'
      BY <1>4 DEF genStale, NextResp, appVars, pollVars, runVars, netVars, RestType
    <2> QED
      BY <2>1, <2>2, <2>3
  <1>5. CASE genError
    <2>1. OpType(SpeechId, Errors)'
      <3>1. UNCHANGED ctlVars \/ set_op_error(ErrorOf(rx.kind))
        BY <1>5 DEF genError
      <3>2. ErrorOf(rx.kind) \in Errors
        BY DEF ErrorOf, Errors
      <3>3. CASE UNCHANGED ctlVars
        BY <3>3 DEF ctlVars, OpType
      <3> QED
        BY <3>1, <3>2, <3>3, SetErrorKeeps
    <2>2. QueueType' /\ HandType'
      BY <1>5 DEF genError, queues, sendVars, QueueType, HandType
    <2>3. /\ respPc' \in {"timeout", "erase"} /\ (respPc' = "erase" => rx'.id # 0)
      <3>1. CASE current = 0 \/ respPc' = "timeout"
        BY <1>5, <3>1 DEF genError, NextResp
      <3>2. CASE current # 0 /\ respPc' # "timeout"
        <4>1. current \in 1 .. Len(operations)
          BY <3>2, SeqElement DEF OpType
        <4>2. operations[current].id # 0
          BY <4>1, OpElement, SpeechAssumption DEF SpeechId
        <4>3. respPc' = "erase" /\ rx' = [NoResponse EXCEPT !.id = operations[current].id]
          BY <1>5, <3>2 DEF genError, NextResp
        <4> QED
          BY <4>2, <4>3 DEF NoResponse, Response
      <3> QED
        BY <3>1, <3>2
    <2>4. pollPc' \in {"stopped", "running", "toSleep", "asleep"}
      BY <1>5 DEF genError, WakePoll, RestType
    <2>5. RestType'
      BY <1>5, <2>3, <2>4 DEF genError, appVars, runVars, netVars, RestType
    <2> QED
      BY <2>1, <2>2, <2>5
  <1> QED
    BY <1>1, <1>2, <1>3, <1>4, <1>5 DEF gen_results

(* The server, the connection and the clock. *)
LEMMA ServerType ==
  ASSUME Typed,
         \/ \E i \in SpeechId : serverAnswers(i)
         \/ \E k \in {"broken", "badData"} : linkError(k)
         \/ clock
  PROVE  Typed'
  <1> USE DEF Typed
  <1>1. CASE \/ \E i \in SpeechId : serverAnswers(i)
             \/ \E k \in {"broken", "badData"} : linkError(k)
    <2>1. /\ UNCHANGED <<ctlVars, appVars, queues, responses, sendVars, rx, pollVars, runVars,
                         linkUp>>
          /\ WakeRecv
      BY <1>1 DEF serverAnswers, linkError, Deliver
    <2>2. OpType(SpeechId, Errors)' /\ QueueType' /\ HandType'
      BY <2>1 DEF ctlVars, queues, sendVars, OpType, QueueType, HandType
    <2>3. RestType'
      BY <2>1 DEF WakeRecv, appVars, pollVars, runVars, RestType
    <2> QED
      BY <2>2, <2>3
  <1>2. CASE clock
    <2>1. OpType(SpeechId, Errors)'
      BY <1>2, GrowsIdleKeeps, GrowsSilentKeeps DEF clock
    <2>2. QueueType' /\ HandType'
      BY <1>2 DEF clock, queues, sendVars, QueueType, HandType
    <2>3. RestType'
      BY <1>2 DEF clock, appVars, genVars, pollVars, runVars, netVars, RestType
    <2> QED
      BY <2>1, <2>2, <2>3
  <1> QED
    BY <1>1, <1>2

(* Every step keeps the types. *)
LEMMA NextType == Typed /\ FreshInv /\ [Next]_vars => Typed'
  <1> SUFFICES ASSUME Typed, FreshInv, [Next]_vars PROVE Typed'
    OBVIOUS
  <1>1. CASE UNCHANGED vars
    BY <1>1 DEF vars, Typed, OpType, QueueType, HandType, RestType
  <1>2. CASE Next
    BY <1>2, AppType, PollType, SendType, RecvType, ServerType DEF Next
  <1> QED
    BY <1>1, <1>2

(* The type invariant: the queues, the operations, the results and the     *)
(* request in hand stay well formed (speech_impl.h:47-98, op_ctl.h),       *)
(* whatever the interleaving, the faults and the mix of texts and voices.  *)
THEOREM TypeCorrect == Spec => []TypeOK
  <1>1. Init => Typed /\ FreshInv
    BY InitType DEF FreshInv
  <1>2. Typed /\ FreshInv /\ [Next]_vars => (Typed /\ FreshInv)'
    BY NextType, FreshStep
  <1>3. Typed => TypeOK
    BY TypedGives
  <1> QED
    BY <1>1, <1>2, <1>3, PTL DEF Spec

(* No voice is added or taken, and none is started. *)
VoiceKept ==
  /\ SameIds(voice_reqs, voice_reqs')
  /\ \A i \in 1 .. Len(voice_reqs) : voice_reqs'[i].polling = voice_reqs[i].polling

(* Steps that move no request of the queues. *)
Kept == VoiceKept /\ SameTextIds /\ next_id' = next_id /\ entering' = entering

(* The steps that move a request. *)
Moves ==
  \/ prepare \/ releaseClose \/ start_voice \/ sendTake
  \/ \E c \in Callers : textRead(c) \/ textStore(c) \/ textQueue(c)

(* A step that leaves the queues moves no request. *)
LEMMA KeptSame == UNCHANGED <<text_reqs, voice_reqs, next_id, entering>> => Kept
  BY DEF Kept, VoiceKept, SameIds, SameTextIds

(* erase() moves no request (stream_queue.h). *)
LEMMA ErasedKept ==
  ASSUME Typed, NEW id, NEW e \in {0, SPEECH_TIMEOUT}, voice_reqs' = Erase(voice_reqs, id, e)
  PROVE  VoiceKept
  <1>1. voice_reqs \in Seq(Stream(SpeechId, Packets, {SPEECH_TIMEOUT}))
    BY DEF Typed, QueueType, Voice
  <1>2. SameIds(voice_reqs, voice_reqs')
    BY <1>1, EraseKeeps
  <1>3. ASSUME NEW i \in 1 .. Len(voice_reqs) PROVE voice_reqs'[i].polling = voice_reqs[i].polling
    BY <1>1, EraseLeaves
  <1> QED
    BY <1>2, <1>3 DEF VoiceKept

(* A step that leaves the texts. *)
LEMMA SameText == UNCHANGED text_reqs => SameTextIds
  BY DEF SameTextIds

(* A step that leaves the voices. *)
LEMMA SameVoice == UNCHANGED voice_reqs => VoiceKept
  BY DEF VoiceKept, SameIds

(* Only the calls that make a request, the sending thread and the two      *)
(* ends of the library's life move one.                                    *)
LEMMA QueueSteps ==
  ASSUME Typed, [Next]_vars
  PROVE  Kept \/ Moves
  <1>0. voice_reqs \in Seq(Stream(SpeechId, Packets, {SPEECH_TIMEOUT}))
    BY DEF Typed, QueueType, Voice
  <1>1. CASE UNCHANGED vars
    BY <1>1, KeptSame DEF vars
  <1>2. CASE prepare \/ release
    BY <1>2, KeptSame DEF release, releaseBegin, releaseJoinReq, releaseJoinResp, Moves, appVars,
                          queues
  <1>3. CASE cancel
    <2>1. ASSUME NEW id \in Cancels, cancelQueued(id) PROVE Kept
      <3>1. UNCHANGED appVars
        BY <2>1 DEF cancelQueued
      <3>2. CASE HasStream(voice_reqs, id)
        BY <2>1, <3>1, <3>2, ErasedKept, SameText DEF cancelQueued, appVars, Kept
      <3>3. CASE ~HasStream(voice_reqs, id)
        BY <2>1, <3>1, <3>3, MarkKeeps, SameVoice DEF cancelQueued, appVars, Kept, Typed
      <3> QED
        BY <3>2, <3>3
    <2>2. CASE cancelOps \/ \E id \in Cancels : cancelOne(id)
      BY <2>2, KeptSame DEF cancelOps, cancelOne, appVars, queues
    <2>3. CASE cancelAll
      <3>1. VoiceKept
        BY <1>0, <2>3, ClearKeeps DEF cancelAll, VoiceKept
      <3>2. SameTextIds
        BY <2>3, MarkKeeps DEF cancelAll, Typed
      <3> QED
        BY <2>3, <3>1, <3>2 DEF cancelAll, appVars, Kept
    <2> QED
      BY <1>3, <2>1, <2>2, <2>3 DEF cancel
  <1>4. CASE start_voice \/ \E c \in Callers : textRead(c) \/ textStore(c) \/ textQueue(c)
    BY <1>4 DEF Moves
  <1>5. ASSUME NEW id \in SpeechId, put_voice(id) PROVE Kept
    <2>1. spoken[id] + 1 \in Packets
      BY <1>5, PacketRoom DEF put_voice, Typed
    <2>2. voice_reqs' = Put(voice_reqs, id, spoken[id] + 1)
      BY <1>5 DEF put_voice
    <2>3. SameIds(voice_reqs, voice_reqs')
      BY <1>0, <2>1, <2>2, PutKeeps
    <2>4. ASSUME NEW i \in 1 .. Len(voice_reqs)
          PROVE  voice_reqs'[i].polling = voice_reqs[i].polling
      BY <1>0, <2>1, <2>2, PutFills
    <2> QED
      BY <1>5, <2>3, <2>4, SameText DEF put_voice, VoiceKept, Kept
  <1>6. ASSUME NEW id \in SpeechId, end_voice(id) PROVE Kept
    <2>2. voice_reqs' = End(voice_reqs, id, NoData)
      BY <1>6 DEF end_voice
    <2>3. SameIds(voice_reqs, voice_reqs')
      BY <1>0, <2>2, EndKeeps
    <2>4. ASSUME NEW i \in 1 .. Len(voice_reqs)
          PROVE  voice_reqs'[i].polling = voice_reqs[i].polling
      BY <1>0, <2>2, EndLeaves
    <2> QED
      BY <1>6, <2>3, <2>4, SameText DEF end_voice, VoiceKept, Kept, appVars
  <1>7. CASE poll
    BY <1>7, KeptSame DEF poll, pollReleased, pollLook, pollSleep, pollDead, pollItem, appVars,
       queues
  <1>8. CASE send_reqs
    <2>1. CASE sendErase
      BY <2>1, ErasedKept, SameText DEF sendErase, EraseReq, appVars, Kept
    <2>2. CASE ~sendErase
      BY <1>8, <2>2, KeptSame DEF send_reqs, sendQuit, sendWait, do_ctl_change_op,
           changeStarts, changeContinues, changeCancels, do_request, sendDone, sendFails,
           sendRefresh, sendWaitOp, sendAwake, appVars, queues, Moves
    <2> QED
      BY <2>1, <2>2
  <1>9. CASE gen_results
    <2>1. CASE genFinish \/ genErase
      BY <2>1, ErasedKept, SameText DEF genFinish, genErase, EraseReq, appVars, Kept
    <2>2. CASE ~(genFinish \/ genErase)
      BY <1>9, <2>2, KeptSame DEF gen_results, genTimeout, recvPacket, recvWait, recvTimer,
           recvNothing, genAnswer, genStale, genError, appVars, queues
    <2> QED
      BY <2>1, <2>2
  <1>10. CASE \/ clock \/ \E k \in {"broken", "badData"} : linkError(k)
              \/ \E id \in SpeechId : serverAnswers(id)
    BY <1>10, KeptSame DEF clock, linkError, serverAnswers, appVars, queues
  <1> QED
    BY <1>1, <1>2, <1>3, <1>4, <1>5, <1>6, <1>7, <1>8, <1>9, <1>10 DEF Next

(* The request in hand changes when the next one is taken, and when it is  *)
(* done with.                                                              *)
Held == reqPc' = "change" => reqPc = "change" /\ UNCHANGED <<req, seen>>

(* Only send_reqs() takes a request into its hand                          *)
(* (speech_impl.cc:373-383).                                               *)
LEMMA HandSteps ==
  ASSUME [Next]_vars
  PROVE  Held \/ sendTake
  <1>1. CASE UNCHANGED vars
    BY <1>1 DEF vars, Held
  <1>2. CASE prepare \/ release
    BY <1>2 DEF prepare, release, releaseBegin, releaseClose, releaseJoinReq, releaseJoinResp,
                WakeReq, sendVars, Held
  <1>3. CASE cancel
    BY <1>3 DEF cancel, cancelQueued, cancelOne, cancelAll, cancelOps, WakeReq, sendVars, Held
  <1>4. CASE \/ start_voice \/ \E c \in Callers : textRead(c) \/ textStore(c) \/ textQueue(c)
             \/ \E id \in SpeechId : put_voice(id) \/ end_voice(id) \/ serverAnswers(id)
    BY <1>4 DEF start_voice, textRead, textStore, textQueue, put_voice, end_voice, serverAnswers,
                WakeReq, sendVars, Held
  <1>5. CASE poll
    BY <1>5 DEF poll, pollReleased, pollLook, pollSleep, pollDead, pollItem, sendVars, Held
  <1>6. CASE send_reqs
    BY <1>6 DEF send_reqs, sendQuit, sendWait, do_ctl_change_op,
           changeStarts, changeContinues, changeCancels, do_request, sendDone, sendFails,
           sendErase, sendRefresh, sendWaitOp, sendAwake, NextReq, Held
  <1>7. CASE gen_results
    BY <1>7 DEF gen_results, genTimeout, recvPacket, recvWait, recvTimer,
           recvNothing, genAnswer, genFinish, genStale, genError, genErase, WakeReq, sendVars, Held
  <1>8. CASE clock \/ \E k \in {"broken", "badData"} : linkError(k)
    BY <1>8 DEF clock, linkError, sendVars, Held
  <1> QED
    BY <1>1, <1>2, <1>3, <1>4, <1>5, <1>6, <1>7, <1>8 DEF Next

(* Ids are positive numbers. *)
LEMMA IdsAreNat == SpeechId \subseteq Nat /\ 0 \notin SpeechId
  BY SpeechAssumption DEF SpeechId

(* An application makes requests of one kind only. *)
LEMMA OneKind ==
  ASSUME Orderly, KindInv
  PROVE  \/ text_reqs = <<>> /\ entering = {} /\ "text" \notin Kinds
         \/ voice_reqs = <<>> /\ "voice" \notin Kinds
  BY DEF Orderly, KindInv

(* Nothing moves: order and what has passed stay. *)
LEMMA KeptQueues ==
  ASSUME Typed, QueueInv, Kept
  PROVE  QueueInv' /\ \A n \in Nat : Passed(n) => Passed(n)'
  <1>1. ASSUME NEW i \in 1 .. Len(text_reqs')
        PROVE  /\ text_reqs'[i].id <= next_id'
               /\ \A j \in 1 .. i - 1 : text_reqs'[j].id < text_reqs'[i].id
    <2>1. i \in 1 .. Len(text_reqs) /\ \A j \in 1 .. i - 1 : j \in 1 .. Len(text_reqs)
      <3>1. Len(text_reqs) \in Nat /\ Len(text_reqs') = Len(text_reqs)
        BY SeqElement DEF Typed, QueueType, Kept, SameTextIds
      <3> QED
        BY <3>1
    <2> QED
      BY <2>1 DEF QueueInv, Kept, SameTextIds
  <1>2. ASSUME NEW i \in 1 .. Len(voice_reqs')
        PROVE  /\ voice_reqs'[i].id <= next_id'
               /\ i # 1 => ~voice_reqs'[i].polling
               /\ \A j \in 1 .. i - 1 : voice_reqs'[j].id < voice_reqs'[i].id
    <2>1. i \in 1 .. Len(voice_reqs) /\ \A j \in 1 .. i - 1 : j \in 1 .. Len(voice_reqs)
      <3>1. Len(voice_reqs) \in Nat /\ Len(voice_reqs') = Len(voice_reqs)
        BY SeqElement DEF Typed, QueueType, Kept, VoiceKept, SameIds
      <3> QED
        BY <3>1
    <2> QED
      BY <2>1 DEF QueueInv, Kept, VoiceKept, SameIds
  <1>3. \A e \in entering' :
          /\ e.id = IF e.stored THEN next_id' ELSE next_id' + 1
          /\ \A i \in 1 .. Len(text_reqs') : text_reqs'[i].id < e.id
          /\ \A f \in entering' : e = f
    BY DEF QueueInv, Kept, SameTextIds
  <1>4. QueueInv'
    BY <1>1, <1>2, <1>3 DEF QueueInv
  <1>5. ASSUME NEW n \in Nat, Passed(n) PROVE Passed(n)'
    BY <1>5 DEF Passed, Kept, SameTextIds, VoiceKept, SameIds
  <1> QED
    BY <1>4, <1>5

(* The next request, the oldest one queued: whatever has passed is behind  *)
(* it, and now it has passed itself.                                       *)
LEMMA TakeQueues ==
  ASSUME Typed, Orderly, KindInv, QueueInv, sendTake
  PROVE  /\ QueueInv' /\ req'.id \in SpeechId
         /\ \A n \in Nat : Passed(n) => /\ Passed(n)' /\ n <= req'.id
                                        /\ req'.type \in Starts => n < req'.id
         /\ \A n \in Nat : n = req'.id => Passed(n)'
  <1> USE IdsAreNat
  <1>0. /\ next_id' = next_id /\ entering' = entering
        /\ voice_reqs' = PopRest(voice_reqs)
        /\ IF PopType(voice_reqs) # "EMPTY"
           THEN req' = VoiceReq(PopItem(voice_reqs)) /\ text_reqs' = text_reqs
           ELSE req' = Head(text_reqs) /\ text_reqs' = Tail(text_reqs)
    BY DEF sendTake, appVars
  <1>1. /\ next_id \in Nat /\ QueueType
        /\ voice_reqs \in Seq(Stream(SpeechId, Packets, {SPEECH_TIMEOUT}))
    BY SpeechAssumption DEF Typed, RestType, QueueType, Voice
  <1>2. \A i \in 1 .. Len(voice_reqs) : voice_reqs[i].id \in Nat
    BY <1>1, QueueElement
  <1>3. Len(voice_reqs) \in Nat /\ Len(text_reqs) \in Nat
    BY <1>1, SeqElement DEF QueueType
  <1>4. CASE PopType(voice_reqs) # "EMPTY"
    <2>1. voice_reqs # <<>> /\ 1 \in 1 .. Len(voice_reqs)
      BY <1>1, <1>4, VoiceItem
    <2>2. text_reqs = <<>> /\ entering = {} /\ text_reqs' = <<>> /\ entering' = {}
      BY <1>0, <1>4, <2>1, OneKind
    <2>3. /\ req'.id = voice_reqs[1].id /\ req'.id \in SpeechId
          /\ req'.type = CASE PopType(voice_reqs) = "DATA"    -> "VOICE_DATA"
                           [] PopType(voice_reqs) = "START"   -> "VOICE_START"
                           [] PopType(voice_reqs) = "REMOVED" -> "CANCELLED"
                           [] OTHER                           -> "VOICE_END"
      BY <1>0, <1>1, <1>4, VoiceItem
    <2>4. CASE PopType(voice_reqs) \in {"START", "DATA"}
      <3>1. /\ Len(voice_reqs') = Len(voice_reqs)
            /\ \A i \in 1 .. Len(voice_reqs) : i # 1 => voice_reqs'[i] = voice_reqs[i]
            /\ voice_reqs'[1].id = voice_reqs[1].id /\ voice_reqs'[1].polling
            /\ PopType(voice_reqs) = "START" => ~voice_reqs[1].polling
        BY <1>0, <1>1, <2>4, PopFront
      <3>2. \A i \in 1 .. Len(voice_reqs) : voice_reqs'[i].id = voice_reqs[i].id
        BY <3>1
      <3>3. ASSUME NEW i \in 1 .. Len(voice_reqs')
            PROVE  /\ voice_reqs'[i].id <= next_id'
                   /\ i # 1 => ~voice_reqs'[i].polling
                   /\ \A j \in 1 .. i - 1 : voice_reqs'[j].id < voice_reqs'[i].id
        <4>1. \A j \in 1 .. i - 1 : j \in 1 .. Len(voice_reqs)
          BY <1>3, <3>1
        <4> QED
          BY <1>0, <3>1, <3>2, <4>1 DEF QueueInv
      <3>4. QueueInv'
        BY <2>2, <3>3, EmptySeq DEF QueueInv
      <3>5. ASSUME NEW n \in Nat, Passed(n)
            PROVE  Passed(n)' /\ n <= req'.id /\ (req'.type \in Starts => n < req'.id)
        <4>1. n <= next_id'
          BY <1>0, <3>5 DEF Passed
        <4>2. ASSUME NEW i \in 1 .. Len(voice_reqs')
              PROVE  n < voice_reqs'[i].id \/ (n = voice_reqs'[i].id /\ voice_reqs'[i].polling)
          BY <3>1, <3>5 DEF Passed
        <4>3. Passed(n)'
          BY <2>2, <4>1, <4>2, EmptySeq DEF Passed
        <4>4. n <= req'.id
          BY <1>2, <2>1, <2>3, <3>5 DEF Passed
        <4>5. req'.type \in Starts => PopType(voice_reqs) = "START"
          BY <2>3, <2>4 DEF Starts
        <4>6. req'.type \in Starts => n < req'.id
          BY <2>1, <2>3, <3>1, <3>5, <4>5 DEF Passed
        <4> QED
          BY <4>3, <4>4, <4>6
      <3>6. ASSUME NEW n \in Nat, n = req'.id PROVE Passed(n)'
        <4>1. n = voice_reqs[1].id /\ n <= next_id'
          BY <1>0, <2>1, <2>3, <3>6 DEF QueueInv
        <4>2. ASSUME NEW i \in 1 .. Len(voice_reqs')
              PROVE  n < voice_reqs'[i].id \/ (n = voice_reqs'[i].id /\ voice_reqs'[i].polling)
          <5>1. i # 1 => 1 \in 1 .. i - 1
            BY <1>3
          <5> QED
            BY <3>1, <3>3, <4>1, <5>1
        <4> QED
          BY <2>2, <4>1, <4>2, EmptySeq DEF Passed
      <3> QED
        BY <2>3, <3>4, <3>5, <3>6
    <2>5. CASE PopType(voice_reqs) \in {"END", "REMOVED", "ERROR"}
      <3>1. /\ Len(voice_reqs') = Len(voice_reqs) - 1
            /\ \A i \in 1 .. Len(voice_reqs) - 1 : voice_reqs'[i] = voice_reqs[i + 1]
        BY <1>0, <1>1, <2>1, <2>5, PopRestKeeps, SeqTail
      <3>2. ASSUME NEW i \in 1 .. Len(voice_reqs')
            PROVE  /\ i + 1 \in 1 .. Len(voice_reqs) /\ i \in 1 .. Len(voice_reqs) - 1
                   /\ voice_reqs'[i].id <= next_id'
                   /\ ~voice_reqs'[i].polling
                   /\ voice_reqs[1].id < voice_reqs'[i].id
                   /\ \A j \in 1 .. i - 1 : voice_reqs'[j].id < voice_reqs'[i].id
        <4>1. /\ i + 1 \in 1 .. Len(voice_reqs) /\ i \in 1 .. Len(voice_reqs) - 1
              /\ 1 \in 1 .. (i + 1) - 1 /\ i + 1 # 1
          BY <1>3, <3>1
        <4>2. \A j \in 1 .. i - 1 : j \in 1 .. Len(voice_reqs) - 1 /\ j + 1 \in 1 .. (i + 1) - 1
          BY <1>3, <3>1
        <4> QED
          BY <1>0, <3>1, <4>1, <4>2 DEF QueueInv
      <3>3. QueueInv'
        BY <2>2, <3>2, EmptySeq DEF QueueInv
      <3>4. ASSUME NEW n \in Nat, Passed(n)
            PROVE  Passed(n)' /\ n <= req'.id /\ (req'.type \in Starts => n < req'.id)
        <4>1. n <= next_id'
          BY <1>0, <3>4 DEF Passed
        <4>2. ASSUME NEW i \in 1 .. Len(voice_reqs') PROVE n < voice_reqs'[i].id
          BY <3>1, <3>2, <3>4 DEF Passed
        <4>3. Passed(n)'
          BY <2>2, <4>1, <4>2, EmptySeq DEF Passed
        <4>4. n <= req'.id
          BY <1>2, <2>1, <2>3, <3>4 DEF Passed
        <4>5. req'.type \notin Starts
          BY <2>3, <2>5 DEF Starts
        <4> QED
          BY <4>3, <4>4, <4>5
      <3>5. ASSUME NEW n \in Nat, n = req'.id PROVE Passed(n)'
        <4>1. n = voice_reqs[1].id /\ n <= next_id'
          BY <1>0, <2>1, <2>3, <3>5 DEF QueueInv
        <4> QED
          BY <2>2, <3>2, <4>1, EmptySeq DEF Passed
      <3> QED
        BY <2>3, <3>3, <3>4, <3>5
    <2> QED
      BY <1>1, <1>4, <2>4, <2>5, PopRestKeeps
  <1>5. CASE PopType(voice_reqs) = "EMPTY"
    <2>1. /\ text_reqs # <<>> /\ text_reqs \in Seq(Text)
          /\ req' = Head(text_reqs) /\ text_reqs' = Tail(text_reqs)
      BY <1>0, <1>1, <1>5 DEF sendTake, Idle, QueueType
    <2>2. /\ Len(text_reqs') = Len(text_reqs) - 1 /\ 1 \in 1 .. Len(text_reqs)
          /\ \A i \in 1 .. Len(text_reqs) - 1 : text_reqs'[i] = text_reqs[i + 1]
          /\ req' = text_reqs[1]
      BY <1>3, <2>1, SeqTail
    <2>3. req'.id \in SpeechId /\ req'.id \in Nat
      BY <1>1, <2>2, QueueElement
    <2>4. voice_reqs = <<>> /\ voice_reqs' = <<>>
      <3>1. voice_reqs = <<>>
        BY <2>1, OneKind
      <3> QED
        BY <1>0, <1>5, <3>1 DEF PopRest
    <2>5. ASSUME NEW i \in 1 .. Len(text_reqs')
          PROVE  /\ i + 1 \in 1 .. Len(text_reqs) /\ text_reqs'[i] = text_reqs[i + 1]
                 /\ text_reqs'[i].id <= next_id'
                 /\ text_reqs[1].id < text_reqs'[i].id
                 /\ \A j \in 1 .. i - 1 : text_reqs'[j].id < text_reqs'[i].id
      <3>1. /\ i + 1 \in 1 .. Len(text_reqs) /\ i \in 1 .. Len(text_reqs) - 1
            /\ 1 \in 1 .. (i + 1) - 1
        BY <1>3, <2>2
      <3>2. \A j \in 1 .. i - 1 : j \in 1 .. Len(text_reqs) - 1 /\ j + 1 \in 1 .. (i + 1) - 1
        BY <1>3, <2>2
      <3> QED
        BY <1>0, <2>2, <3>1, <3>2 DEF QueueInv
    <2>6. \A e \in entering' :
            /\ e.id = IF e.stored THEN next_id' ELSE next_id' + 1
            /\ \A i \in 1 .. Len(text_reqs') : text_reqs'[i].id < e.id
            /\ \A f \in entering' : e = f
      BY <1>0, <2>5 DEF QueueInv
    <2>7. QueueInv'
      BY <2>4, <2>5, <2>6, EmptySeq DEF QueueInv
    <2>8. ASSUME NEW n \in Nat, Passed(n)
          PROVE  Passed(n)' /\ n <= req'.id /\ (req'.type \in Starts => n < req'.id)
      <3>1. n < req'.id
        BY <2>2, <2>8 DEF Passed
      <3>2. n <= next_id' /\ \A e \in entering' : n < e.id
        BY <1>0, <2>8 DEF Passed
      <3>4. ASSUME NEW i \in 1 .. Len(text_reqs') PROVE n < text_reqs'[i].id
        BY <2>5, <2>8 DEF Passed
      <3>3. Passed(n)'
        BY <2>4, <3>2, <3>4, EmptySeq DEF Passed
      <3> QED
        BY <2>3, <3>1, <3>3
    <2>9. ASSUME NEW n \in Nat, n = req'.id PROVE Passed(n)'
      <3>1. n = text_reqs[1].id /\ n <= next_id' /\ (\A e \in entering' : n < e.id)
        BY <1>0, <2>2, <2>9 DEF QueueInv
      <3> QED
        BY <2>4, <2>5, <3>1, EmptySeq DEF Passed
    <2> QED
      BY <2>3, <2>7, <2>8, <2>9
  <1> QED
    BY <1>4, <1>5

(* The calls that make a request: its id is next_id + 1, above all others. *)
LEMMA EnterQueues ==
  ASSUME Typed, Orderly, KindInv, QueueInv, FreshInv,
         \/ prepare \/ releaseClose \/ start_voice
         \/ \E c \in Callers : textRead(c) \/ textStore(c) \/ textQueue(c)
  PROVE  QueueInv' /\ \A n \in Nat : Passed(n) => Passed(n)'
  <1> USE IdsAreNat
  <1>0. next_id \in Nat /\ QueueType /\ Len(text_reqs) \in Nat /\ Len(voice_reqs) \in Nat
    BY SpeechAssumption, SeqElement DEF Typed, RestType, QueueType
  <1>1. CASE prepare
    <2>1. /\ next_id = 0 /\ next_id' = 0 /\ text_reqs' = <<>> /\ voice_reqs' = <<>>
          /\ entering' = {}
      BY <1>1 DEF prepare, FreshInv, Init, queues
    <2>2. QueueInv'
      BY <2>1, EmptySeq DEF QueueInv
    <2>3. ASSUME NEW n \in Nat, Passed(n) PROVE Passed(n)'
      BY <2>1, <2>3, EmptySeq DEF Passed
    <2> QED
      BY <2>2, <2>3
  <1>2. CASE releaseClose
    <2>1. next_id' = next_id /\ text_reqs' = <<>> /\ voice_reqs' = <<>> /\ entering' = entering
      BY <1>2 DEF releaseClose, appVars
    <2>2. QueueInv'
      BY <2>1, EmptySeq DEF QueueInv
    <2>3. ASSUME NEW n \in Nat, Passed(n) PROVE Passed(n)'
      BY <2>1, <2>3, EmptySeq DEF Passed
    <2> QED
      BY <2>2, <2>3
  <1>3. CASE start_voice
    <2>1. text_reqs = <<>> /\ text_reqs' = <<>> /\ entering = {} /\ entering' = {}
      BY <1>3, OneKind DEF start_voice
    <2>2. next_id' = next_id + 1 /\ next_id + 1 \in SpeechId
      BY <1>0, <1>3, SpeechAssumption DEF start_voice, SpeechId
    <2>3. ~HasStream(voice_reqs, next_id + 1)
      <3>1. ASSUME NEW i \in 1 .. Len(voice_reqs) PROVE voice_reqs[i].id # next_id + 1
        <4>1. voice_reqs[i].id \in Nat /\ voice_reqs[i].id <= next_id
          BY <1>0, QueueElement DEF QueueInv
        <4> QED
          BY <1>0, <4>1
      <3> QED
        BY <3>1 DEF HasStream
    <2> DEFINE v == NewStream(next_id + 1)
    <2>4. voice_reqs' = Append(voice_reqs, v)
      BY <1>3, <2>3 DEF start_voice, Start
    <2>5. v.id = next_id + 1 /\ ~v.polling /\ v \in Voice
      BY <2>2 DEF NewStream, Voice, Stream, TagType
    <2> HIDE DEF v
    <2>6. /\ Len(voice_reqs') = Len(voice_reqs) + 1
          /\ voice_reqs'[Len(voice_reqs) + 1] = v
          /\ \A i \in 1 .. Len(voice_reqs) : voice_reqs'[i] = voice_reqs[i]
      BY <1>0, <2>4, <2>5, SeqAppend DEF QueueType
    <2>7. ASSUME NEW i \in 1 .. Len(voice_reqs')
          PROVE  /\ voice_reqs'[i].id <= next_id'
                 /\ i # 1 => ~voice_reqs'[i].polling
                 /\ \A j \in 1 .. i - 1 : voice_reqs'[j].id < voice_reqs'[i].id
      <3>1. CASE i = Len(voice_reqs) + 1
        <4>1. ASSUME NEW j \in 1 .. i - 1 PROVE voice_reqs'[j].id < voice_reqs'[i].id
          <5>1. j \in 1 .. Len(voice_reqs)
            BY <1>0, <3>1
          <5>2. voice_reqs[j].id \in Nat /\ voice_reqs[j].id <= next_id
            BY <1>0, <5>1, QueueElement DEF QueueInv
          <5> QED
            BY <1>0, <2>5, <2>6, <3>1, <5>1, <5>2
        <4> QED
          BY <1>0, <2>2, <2>5, <2>6, <3>1, <4>1
      <3>2. CASE i # Len(voice_reqs) + 1
        <4>1. i \in 1 .. Len(voice_reqs) /\ \A j \in 1 .. i - 1 : j \in 1 .. Len(voice_reqs)
          BY <1>0, <2>6, <3>2
        <4>2. voice_reqs[i].id \in Nat
          BY <1>0, <4>1, QueueElement
        <4> QED
          BY <1>0, <2>2, <2>6, <4>1, <4>2 DEF QueueInv
      <3> QED
        BY <3>1, <3>2
    <2>8. QueueInv'
      BY <2>1, <2>7, EmptySeq DEF QueueInv
    <2>9. ASSUME NEW n \in Nat, Passed(n) PROVE Passed(n)'
      <3>1. n <= next_id /\ n <= next_id' /\ n < next_id + 1
        BY <1>0, <2>2, <2>9 DEF Passed
      <3>2. ASSUME NEW i \in 1 .. Len(voice_reqs')
            PROVE  n < voice_reqs'[i].id \/ (n = voice_reqs'[i].id /\ voice_reqs'[i].polling)
        <4>1. CASE i = Len(voice_reqs) + 1
          BY <2>5, <2>6, <3>1, <4>1
        <4>2. CASE i # Len(voice_reqs) + 1
          <5>1. i \in 1 .. Len(voice_reqs)
            BY <1>0, <2>6, <4>2
          <5> QED
            BY <2>6, <2>9, <5>1 DEF Passed
        <4> QED
          BY <4>1, <4>2
      <3> QED
        BY <2>1, <3>1, <3>2, EmptySeq DEF Passed
    <2> QED
      BY <2>8, <2>9
  <1>4. ASSUME NEW c \in Callers, textRead(c) \/ textStore(c) \/ textQueue(c)
        PROVE  QueueInv' /\ \A n \in Nat : Passed(n) => Passed(n)'
    <2>1. "text" \in Kinds
      BY <1>4 DEF textRead, textStore, textQueue, KindInv
    <2>2. \A d \in Callers : d = c
      BY <2>1 DEF Orderly
    <2>3. \A e \in entering :
            e.by = c /\ e.id \in SpeechId /\ e \in [by : Callers, id : SpeechId, stored : BOOLEAN]
      BY <2>2 DEF Typed, RestType
    <2>4. voice_reqs = <<>> /\ voice_reqs' = <<>>
      <3>1. voice_reqs = <<>>
        BY <2>1, OneKind
      <3> QED
        BY <1>4, <3>1 DEF textRead, textStore, textQueue, queues
    <2>5. \A i \in 1 .. Len(text_reqs) : text_reqs[i].id \in Nat /\ text_reqs[i].id <= next_id
      BY <1>0, QueueElement DEF QueueInv
    <2>6. CASE textRead(c)
      <3> DEFINE e == [by |-> c, id |-> next_id + 1, stored |-> FALSE]
      <3>1. entering = {}
        BY <2>3, <2>6 DEF textRead
      <3>2. entering' = {e} /\ text_reqs' = text_reqs /\ next_id' = next_id
        BY <2>6, <3>1 DEF textRead, queues
      <3>3. e.id = next_id + 1 /\ ~e.stored
        OBVIOUS
      <3> HIDE DEF e
      <3>4. \A f \in entering' :
              /\ f.id = IF f.stored THEN next_id' ELSE next_id' + 1
              /\ \A i \in 1 .. Len(text_reqs') : text_reqs'[i].id < f.id
              /\ \A g \in entering' : f = g
        BY <1>0, <2>5, <3>2, <3>3
      <3>5. QueueInv'
        BY <2>4, <3>2, <3>4, EmptySeq DEF QueueInv
      <3>6. ASSUME NEW n \in Nat, Passed(n) PROVE Passed(n)'
        <4>1. n < e.id
          BY <1>0, <3>3, <3>6 DEF Passed
        <4> QED
          BY <2>4, <3>2, <3>6, <4>1, EmptySeq DEF Passed
      <3> QED
        BY <3>5, <3>6
    <2>7. CASE textStore(c)
      <3>1. PICK e \in entering :
              /\ ~e.stored /\ next_id' = e.id
              /\ entering' = (entering \ {e}) \cup {[e EXCEPT !.stored = TRUE]}
        BY <2>7 DEF textStore
      <3> DEFINE f == [e EXCEPT !.stored = TRUE]
      <3>2. f.id = e.id /\ f.stored /\ e.id \in Nat
        BY <2>3
      <3>3. entering' = {f} /\ text_reqs' = text_reqs
        BY <2>7, <3>1 DEF QueueInv, textStore, queues
      <3>4. e.id = next_id + 1 /\ \A i \in 1 .. Len(text_reqs) : text_reqs[i].id < e.id
        BY <3>1 DEF QueueInv
      <3> HIDE DEF f
      <3>5. \A g \in entering' :
              /\ g.id = IF g.stored THEN next_id' ELSE next_id' + 1
              /\ \A i \in 1 .. Len(text_reqs') : text_reqs'[i].id < g.id
              /\ \A h \in entering' : g = h
        BY <3>1, <3>2, <3>3, <3>4
      <3>6. \A i \in 1 .. Len(text_reqs') :
              /\ text_reqs'[i].id <= next_id'
              /\ \A j \in 1 .. i - 1 : text_reqs'[j].id < text_reqs'[i].id
        BY <1>0, <2>5, <3>1, <3>3, <3>4 DEF QueueInv
      <3>7. QueueInv'
        BY <2>4, <3>5, <3>6, EmptySeq DEF QueueInv
      <3>8. ASSUME NEW n \in Nat, Passed(n) PROVE Passed(n)'
        <4>1. n < f.id /\ n <= next_id'
          BY <1>0, <3>1, <3>2, <3>4, <3>8 DEF Passed
        <4> QED
          BY <2>4, <3>3, <3>8, <4>1, EmptySeq DEF Passed
      <3> QED
        BY <3>7, <3>8
    <2>8. CASE textQueue(c)
      <3>1. PICK e \in entering :
              /\ e.stored /\ entering' = entering \ {e}
              /\ text_reqs' = Append(text_reqs, Request(e.id, "TEXT", NoData))
        BY <2>8 DEF textQueue
      <3> DEFINE t == Request(e.id, "TEXT", NoData)
      <3>2. t.id = e.id /\ t \in Text /\ e.id \in Nat
        BY <2>3 DEF Request, Text
      <3>3. entering' = {} /\ next_id' = next_id /\ e.id = next_id
        BY <2>8, <3>1 DEF QueueInv, textQueue
      <3>4. \A i \in 1 .. Len(text_reqs) : text_reqs[i].id < e.id
        BY DEF QueueInv
      <3>5. text_reqs' = Append(text_reqs, t)
        BY <3>1
      <3> HIDE DEF t
      <3>6. /\ Len(text_reqs') = Len(text_reqs) + 1
            /\ text_reqs'[Len(text_reqs) + 1] = t
            /\ \A i \in 1 .. Len(text_reqs) : text_reqs'[i] = text_reqs[i]
        BY <1>0, <3>2, <3>5, SeqAppend DEF QueueType
      <3>7. ASSUME NEW i \in 1 .. Len(text_reqs')
            PROVE  /\ text_reqs'[i].id <= next_id'
                   /\ \A j \in 1 .. i - 1 : text_reqs'[j].id < text_reqs'[i].id
        <4>1. CASE i = Len(text_reqs) + 1
          <5>1. \A j \in 1 .. i - 1 : j \in 1 .. Len(text_reqs)
            BY <1>0, <4>1
          <5> QED
            BY <3>2, <3>3, <3>4, <3>6, <4>1, <5>1
        <4>2. CASE i # Len(text_reqs) + 1
          <5>1. i \in 1 .. Len(text_reqs) /\ \A j \in 1 .. i - 1 : j \in 1 .. Len(text_reqs)
            BY <1>0, <3>6, <4>2
          <5> QED
            BY <3>3, <3>6, <5>1 DEF QueueInv
        <4> QED
          BY <4>1, <4>2
      <3>8. QueueInv'
        BY <2>4, <3>3, <3>7, EmptySeq DEF QueueInv
      <3>9. ASSUME NEW n \in Nat, Passed(n) PROVE Passed(n)'
        <4>1. n < e.id /\ n <= next_id'
          BY <3>3, <3>9 DEF Passed
        <4>2. ASSUME NEW i \in 1 .. Len(text_reqs') PROVE n < text_reqs'[i].id
          <5>1. CASE i = Len(text_reqs) + 1
            BY <3>2, <3>6, <4>1, <5>1
          <5>2. CASE i # Len(text_reqs) + 1
            <6>1. i \in 1 .. Len(text_reqs)
              BY <1>0, <3>6, <5>2
            <6> QED
              BY <3>6, <3>9, <6>1 DEF Passed
          <5> QED
            BY <5>1, <5>2
        <4> QED
          BY <2>4, <3>3, <4>1, <4>2, EmptySeq DEF Passed
      <3> QED
        BY <3>8, <3>9
    <2> QED
      BY <1>4, <2>6, <2>7, <2>8
  <1> QED
    BY <1>1, <1>2, <1>3, <1>4

(* The queues stay in the order of their ids, and what has passed, passed. *)
LEMMA QueueStep ==
  ASSUME Typed, Orderly, KindInv, QueueInv, FreshInv, [Next]_vars
  PROVE  QueueInv' /\ \A n \in Nat : Passed(n) => Passed(n)'
  <1>1. Kept \/ Moves
    BY QueueSteps
  <1>2. CASE Kept
    BY <1>2, KeptQueues
  <1>3. CASE sendTake
    BY <1>3, TakeQueues
  <1> QED
    BY <1>1, <1>2, <1>3, EnterQueues DEF Moves

(* What is behind every request to come stays behind (send_reqs,           *)
(* put_text, start_voice).                                                 *)
LEMMA BehindStep ==
  ASSUME Typed, Orderly, KindInv, QueueInv, FreshInv, [Next]_vars
  PROVE  \A n \in Nat : Behind(n) => Behind(n)'
  <1> TAKE n \in Nat
  <1> HAVE Behind(n)
  <1>1. Passed(n) /\ Passed(n)'
    BY QueueStep DEF Behind
  <1>2. CASE sendTake
    BY <1>1, <1>2, TakeQueues DEF Behind
  <1>3. CASE Held
    BY <1>1, <1>3 DEF Behind, Held
  <1> QED
    BY <1>2, <1>3, HandSteps

(* Until the thread is done with it, the request in hand stays. *)
LEMMA HandKept ==
  ASSUME [Next]_vars, ~sendTake, reqPc' \notin {"dead", "top", "asleep"}
  PROVE  reqPc \notin {"dead", "top", "asleep"} /\ req' = req
  <1>1. CASE UNCHANGED vars
    BY <1>1 DEF vars
  <1>2. CASE prepare \/ release
    BY <1>2 DEF prepare, release, releaseBegin, releaseClose, releaseJoinReq, releaseJoinResp,
                WakeReq, sendVars
  <1>3. CASE cancel
    BY <1>3 DEF cancel, cancelQueued, cancelOne, cancelAll, cancelOps, WakeReq, sendVars
  <1>4. CASE \/ start_voice \/ \E c \in Callers : textRead(c) \/ textStore(c) \/ textQueue(c)
             \/ \E id \in SpeechId : put_voice(id) \/ end_voice(id) \/ serverAnswers(id)
    BY <1>4 DEF start_voice, textRead, textStore, textQueue, put_voice, end_voice, serverAnswers,
                WakeReq, sendVars
  <1>5. CASE poll
    BY <1>5 DEF poll, pollReleased, pollLook, pollSleep, pollDead, pollItem, sendVars
  <1>6. CASE send_reqs
    BY <1>6 DEF send_reqs, sendQuit, sendWait, do_ctl_change_op,
           changeStarts, changeContinues, changeCancels, do_request, sendDone, sendFails,
           sendErase, sendRefresh, sendWaitOp, sendAwake, NextReq
  <1>7. CASE gen_results
    BY <1>7 DEF gen_results, genTimeout, recvPacket, recvWait, recvTimer,
           recvNothing, genAnswer, genFinish, genStale, genError, genErase, WakeReq, sendVars
  <1>8. CASE clock \/ \E k \in {"broken", "badData"} : linkError(k)
    BY <1>8 DEF clock, linkError, sendVars
  <1> QED
    BY <1>1, <1>2, <1>3, <1>4, <1>5, <1>6, <1>7, <1>8 DEF Next

(* Only the kinds of request the application makes are anywhere. *)
LEMMA KindStep ==
  ASSUME Typed, FreshInv, KindInv, [Next]_vars
  PROVE  KindInv'
  <1> DEFINE R == reqPc \notin {"dead", "top", "asleep"}
  <1>0. QueueType
    BY DEF Typed
  <1>1. CASE sendTake
    <2>0. /\ voice_reqs' = PopRest(voice_reqs) /\ reqPc' = "change"
          /\ entering' = entering
          /\ IF PopType(voice_reqs) # "EMPTY"
             THEN req' = VoiceReq(PopItem(voice_reqs)) /\ text_reqs' = text_reqs
             ELSE req' = Head(text_reqs) /\ text_reqs' = Tail(text_reqs) /\ text_reqs # <<>>
      BY <1>1 DEF sendTake, appVars, Idle
    <2>1. CASE PopType(voice_reqs) # "EMPTY"
      <3>1. /\ voice_reqs # <<>>
            /\ req'.type \in {"VOICE_DATA", "VOICE_START", "CANCELLED", "VOICE_END"}
        BY <1>0, <2>0, <2>1, VoiceItem
      <3> QED
        BY <2>0, <2>1, <3>1 DEF KindInv
    <2>2. CASE PopType(voice_reqs) = "EMPTY"
      <3>1. text_reqs # <<>> /\ req' = Head(text_reqs) /\ voice_reqs' = voice_reqs
        BY <2>0, <2>2 DEF PopRest
      <3>2. req' = text_reqs[1] /\ 1 \in 1 .. Len(text_reqs)
        BY <1>0, <3>1, SeqTail DEF QueueType
      <3>3. req'.type \in {"TEXT", "CANCELLED"}
        BY <1>0, <3>2, QueueElement
      <3> QED
        BY <2>0, <3>1, <3>3 DEF KindInv
    <2> QED
      BY <2>1, <2>2
  <1>2. CASE ~sendTake
    <2>1. /\ "text" \notin Kinds => text_reqs' = <<>> /\ entering' = {}
          /\ "voice" \notin Kinds => voice_reqs' = <<>>
      <3>1. Kept \/ Moves
        BY QueueSteps
      <3>2. CASE Kept
        <4>2. Typed'
          BY NextType
        <4>3. text_reqs = <<>> => text_reqs' = <<>>
          BY <3>2, <4>2, EmptySeq DEF Kept, SameTextIds, Typed, QueueType
        <4>4. voice_reqs = <<>> => voice_reqs' = <<>>
          BY <3>2, <4>2, EmptySeq DEF Kept, VoiceKept, SameIds, Typed, QueueType
        <4> QED
          BY <3>2, <4>3, <4>4 DEF KindInv, Kept
      <3>3. CASE prepare \/ releaseClose \/ start_voice
        BY <3>3 DEF prepare, releaseClose, start_voice, queues, appVars, KindInv
      <3>4. CASE \E c \in Callers : textRead(c) \/ textStore(c) \/ textQueue(c)
        BY <3>4 DEF textRead, textStore, textQueue, queues, KindInv
      <3> QED
        BY <1>2, <3>1, <3>2, <3>3, <3>4 DEF Moves
    <2>2. reqPc' \notin {"dead", "top", "asleep"} => R /\ req' = req
      BY <1>2, HandKept
    <2> QED
      BY <2>1, <2>2 DEF KindInv
  <1> QED
    BY <1>1, <1>2

(* The id and the status of an operation. *)
LEMMA OperationElement ==
  ASSUME Typed
  PROVE  /\ Len(operations) \in Nat
         /\ \A i \in 1 .. Len(operations) :
              /\ operations[i].id \in SpeechId /\ operations[i].id \in Nat
              /\ operations[i].status \in Status
         /\ current \in 0 .. Len(operations)
         /\ current # 0 => current \in 1 .. Len(operations)
  <1>1. OpType(SpeechId, Errors)
    BY DEF Typed
  <1>2. Len(operations) \in Nat /\ current \in 0 .. Len(operations)
    BY <1>1, SeqElement DEF OpType
  <1>3. current # 0 => current \in 1 .. Len(operations)
    BY <1>2
  <1> QED
    BY <1>1, <1>2, <1>3, OpElement, IdsAreNat

(* No operation before the current one has its id. *)
LEMMA CurrentFirst ==
  ASSUME Typed, OneInFlight, OpOrder, current # 0
  PROVE  /\ current \in 1 .. Len(operations)
         /\ operations[current].status \in {"START", "STREAMING"}
         /\ \A j \in 1 .. current - 1 : operations[j].id # CurrentId
         /\ \A id : Hit(id, current) <=> (id = 0 \/ id = CurrentId)
  <1>1. current \in 1 .. Len(operations)
    BY OperationElement
  <1>2. operations[current].status \in {"START", "STREAMING"}
    BY <1>1 DEF OneInFlight
  <1>3. \A j \in 1 .. current - 1 : operations[j].id # CurrentId
    BY <1>1, <1>2 DEF OpOrder, CurrentId
  <1> QED
    BY <1>1, <1>2, <1>3 DEF Hit, CurrentId

(* A stream the client can pop from gives its own id. *)
LEMMA ResultItem ==
  ASSUME QueueType, PopType(responses) # "EMPTY"
  PROVE  LET item == PopItem(responses) IN
         /\ responses # <<>> /\ 1 \in 1 .. Len(responses)
         /\ item.id = responses[1].id /\ item.id \in SpeechId
         /\ PopType(responses) = "START" => Label(item) = "START"
         /\ PopType(responses) = "DATA" => Label(item) = responses[1].data[1]
                                           /\ Label(item) \in Part
         /\ PopType(responses) = "REMOVED" => Label(item) = "CANCELLED"
         /\ PopType(responses) \in {"END", "ERROR"} => Label(item) = PopType(responses)
  <1> DEFINE k == PopType(responses)
             s == responses
             item == PopItem(responses)
             a == [NoItem EXCEPT !.type = k]
             b == [a EXCEPT !.id = s[1].id]
  <1>1. s # <<>> /\ s \in Seq(Result)
    BY DEF PopType, QueueType
  <1>2. 1 \in 1 .. Len(s) /\ s[1] \in Result
    BY <1>1, SeqTail
  <1>3. s[1].id \in SpeechId /\ s[1].data \in Seq(Part)
    BY <1>2 DEF Result, Stream
  <1>4. k = "DATA" => s[1].data # <<>>
    BY <1>1 DEF PopType, FrontType
  <1>5. k = "DATA" => s[1].data[1] \in Part
    BY <1>3, <1>4, SeqTail
  <1>6. /\ \/ item = b
           \/ \E x : item = [b EXCEPT !.res = x]
           \/ \E x : item = [b EXCEPT !.err = x]
        /\ k = "DATA" => item = [b EXCEPT !.res = s[1].data[1]]
    BY DEF PopItem
  <1>7. a.type = k /\ DOMAIN a = {"type", "id", "res", "err"}
    BY DEF NoItem
  <1> HIDE DEF a
  <1>8. b.type = k /\ b.id = s[1].id /\ DOMAIN b = {"type", "id", "res", "err"}
    BY <1>7
  <1> HIDE DEF b, item
  <1>9. item.type = k /\ item.id = s[1].id /\ (k = "DATA" => item.res = s[1].data[1])
    BY <1>6, <1>8
  <1> HIDE DEF k, s
  <1>10. Label(item) = CASE k = "DATA"    -> item.res
                         [] k = "REMOVED" -> "CANCELLED"
                         [] OTHER         -> k
    BY <1>9 DEF Label
  <1>11. /\ k = "DATA" => Label(item) = s[1].data[1] /\ Label(item) \in Part
         /\ k = "START" => Label(item) = "START"
         /\ k = "REMOVED" => Label(item) = "CANCELLED"
         /\ k \in {"END", "ERROR"} => Label(item) = k
    BY <1>5, <1>9, <1>10
  <1> QED
    BY <1>1, <1>2, <1>3, <1>9, <1>11 DEF k, s, item

(* The streams are in the order of the operations: when the front          *)
(* operation has a stream, it is the front one.                            *)
LEMMA FrontStream ==
  ASSUME Typed, OpOrder, ResponseOrder, operations # <<>>,
         HasStream(responses, operations[1].id)
  PROVE  responses # <<>> /\ responses[1].id = operations[1].id
  <1>1. PICK k \in 1 .. Len(responses) : responses[k].id = operations[1].id
    BY DEF HasStream
  <1>2. responses \in Seq(Result) /\ QueueType
    BY DEF Typed, QueueType
  <1>3. Len(responses) \in Nat /\ 1 \in 1 .. Len(responses) /\ responses # <<>>
    BY <1>1, <1>2, SeqElement, EmptySeq
  <1>4. 1 \in 1 .. Len(operations)
    BY SeqTail DEF Typed, OpType
  <1>5. PICK m \in 1 .. Len(operations) : operations[m].id = responses[1].id
    BY <1>3 DEF ResponseOrder
  <1>6. operations[1].id \in Nat /\ operations[m].id \in Nat
    BY <1>4, OperationElement
  <1>7. k # 1 => responses[1].id < operations[1].id
    <2>1. k # 1 => 1 \in 1 .. k - 1
      BY <1>3
    <2> QED
      BY <1>1, <2>1 DEF ResponseOrder
  <1>8. operations[1].id <= responses[1].id
    <2>1. m # 1 => 1 \in 1 .. m - 1
      BY <1>4
    <2> QED
      BY <1>5, <1>6, <2>1 DEF OpOrder
  <1> QED
    BY <1>1, <1>3, <1>5, <1>6, <1>7, <1>8

(* The asserts of poll(). *)
LEMMA FrontItem ==
  ASSUME Typed, OneInFlight, SenderInv, OpOrder, ResponseOrder, StreamInv,
         operations # <<>>, ~Dead(operations[1]), PopType(responses) # "EMPTY"
  PROVE  /\ responses # <<>> /\ responses[1].id = operations[1].id
         /\ operations[1].status \in {"STREAMING", "END"}
         /\ PopType(responses) \in {"END", "REMOVED", "ERROR"} => operations[1].status = "END"
  <1>1. 1 \in 1 .. Len(operations) /\ Len(operations) \in Nat
    BY SeqTail, OperationElement DEF Typed, OpType
  <1>2. responses # <<>> /\ 1 \in 1 .. Len(responses)
    BY ResultItem DEF Typed
  <1>3. operations[1].status # "START"
    <2>1. SUFFICES ASSUME operations[1].status = "START" PROVE FALSE
      OBVIOUS
    <2>2. current = 1
      BY <1>1, <2>1 DEF OneInFlight
    <2>5. Len(operations) = 1
      BY <2>2 DEF SenderInv
    <2>3. PICK m \in 1 .. Len(operations) : operations[m].id = responses[1].id
      BY <1>2 DEF ResponseOrder
    <2>4. m = 1
      BY <2>5
    <2> QED
      BY <1>1, <1>2, <2>1, <2>3, <2>4 DEF StreamInv, HasStream
  <1>4. operations[1].status \in {"STREAMING", "END"}
    BY <1>1, <1>3, OperationElement DEF Dead, Status
  <1>5. responses[1].id = operations[1].id
    <2>1. HasStream(responses, operations[1].id)
      BY <1>1, <1>4 DEF StreamInv
    <2> QED
      BY <2>1, FrontStream
  <1>6. operations[1].status = "STREAMING" => responses[1].type = "uncompleted"
    BY <1>1, <1>2, <1>5 DEF StreamInv
  <1>7. responses[1].type = "uncompleted" => PopType(responses) \notin {"END", "REMOVED", "ERROR"}
    BY <1>2 DEF PopType, FrontType
  <1> QED
    BY <1>2, <1>4, <1>5, <1>6, <1>7

(* Steps that neither add nor remove an operation. *)
Settles ==
  /\ SameOpIds
  /\ current' \in {current, 0}
  /\ \A i \in 1 .. Len(operations) :
       /\ operations[i].status = "CANCELLED" => operations'[i].status = "CANCELLED"
       /\ operations'[i].status \in {"START", "STREAMING"} <=> current' = i

(* Operations that only change elsewhere. *)
LEMMA SameSettles ==
  ASSUME OneInFlight, SameOpIds, current' = current,
         \A i \in 1 .. Len(operations) : operations'[i].status = operations[i].status
  PROVE  Settles
  BY DEF Settles, OneInFlight

(* Operations that do not change. *)
LEMMA StillSettles ==
  ASSUME OneInFlight, UNCHANGED <<operations, current>>
  PROVE  Settles
  BY DEF Settles, OneInFlight, SameOpIds

(* A failed or finished operation is over (op_ctl.h:31-47, 87-96). *)
LEMMA FailSettles ==
  ASSUME Typed, OneInFlight, (\E err \in Errors : set_op_error(err)) \/ finish_op
  PROVE  Settles
  <1>0. OpType(SpeechId, Errors)
    BY DEF Typed
  <1>1. ASSUME NEW err \in Errors, set_op_error(err) PROVE Settles
    BY <1>0, <1>1, SetErrorKeeps, OperationElement DEF Settles, OneInFlight
  <1>2. CASE finish_op
    BY <1>0, <1>2, FinishKeeps, OperationElement DEF Settles, OneInFlight, Finished
  <1> QED
    BY <1>1, <1>2

(* A cancelled operation is over (op_ctl.h:68-85). *)
LEMMA CancelSettles ==
  ASSUME Typed, OneInFlight, OpOrder, NEW id, cancel_op(id)
  PROVE  Settles
  <1>0. OpType(SpeechId, Errors)
    BY DEF Typed
  <1>1. /\ SameOpIds
        /\ \A i \in 1 .. Len(operations) :
             operations'[i].status = IF Hit(id, i) THEN "CANCELLED" ELSE operations[i].status
        /\ current' = IF CancelsCurrent(id) THEN 0 ELSE current
    BY <1>0, CancelKeeps
  <1>2. current # 0 => (CancelsCurrent(id) <=> Hit(id, current))
    <2> SUFFICES ASSUME current # 0 PROVE CancelsCurrent(id) <=> Hit(id, current)
      OBVIOUS
    <2>1. current \in 1 .. Len(operations) /\ (Hit(id, current) <=> (id = 0 \/ id = CurrentId))
      BY CurrentFirst
    <2>2. CancelsCurrent(id) => id = 0 \/ id = CurrentId
      BY DEF CancelsCurrent, Hit, CurrentId
    <2> QED
      BY <2>1, <2>2 DEF CancelsCurrent
  <1>3. CASE current = 0
    BY <1>1, <1>3 DEF Settles, OneInFlight, CancelsCurrent
  <1>4. CASE current # 0 /\ Hit(id, current)
    BY <1>1, <1>2, <1>4, OperationElement DEF Settles, OneInFlight
  <1>5. CASE current # 0 /\ ~Hit(id, current)
    BY <1>1, <1>2, <1>5 DEF Settles, OneInFlight
  <1> QED
    BY <1>3, <1>4, <1>5

(* An answer goes to the current operation, and ends it with the last      *)
(* part (gen_result_by_resp, speech_impl.cc:620-690).                      *)
LEMMA AnswerSettles ==
  ASSUME Typed, OneInFlight, genAnswer
  PROVE  Settles
  <1>1. /\ SameOpIds
        /\ current \in 1 .. Len(operations)
        /\ operations[current].status \notin {"CANCELLED", "ERROR"}
        /\ \A i \in 1 .. Len(operations) : i # current => operations'[i] = operations[i]
        /\ operations'[current].status = IF Last(rx) THEN "END" ELSE "STREAMING"
        /\ current' = IF Last(rx) THEN 0 ELSE current
    BY AnswerKeeps
  <1>2. Len(operations) \in Nat
    BY OperationElement
  <1>3. CASE Last(rx)
    BY <1>1, <1>2, <1>3 DEF Settles, OneInFlight
  <1>4. CASE ~Last(rx)
    BY <1>1, <1>2, <1>4 DEF Settles, OneInFlight
  <1> QED
    BY <1>3, <1>4

(* A cancel of the request in hand hits its own operation. *)
LEMMA HandSettles ==
  ASSUME Typed, OneInFlight, OpOrder, SenderInv, changeCancels, seen # 0
  PROVE  Settles /\ current' = 0
  <1>1. /\ operations' = [i \in 1 .. Len(operations) |->
                            IF Hit(seen, i) THEN [operations[i] EXCEPT !.status = "CANCELLED"]
                            ELSE operations[i]]
        /\ current' = 0 /\ reqPc = "change"
    BY DEF changeCancels
  <1>2. ASSUME NEW i \in 1 .. Len(operations)
        PROVE  /\ operations'[i].id = operations[i].id
               /\ operations'[i].status = IF Hit(seen, i) THEN "CANCELLED" ELSE operations[i].status
    <2>1. operations[i] \in Operation(SpeechId, Errors)
      BY OpElement DEF Typed
    <2> QED
      BY <1>1, <2>1 DEF Operation, Status
  <1>3. Len(operations') = Len(operations)
    BY <1>1, OperationElement
  <1>4. SameOpIds
    BY <1>2, <1>3 DEF SameOpIds
  <1>5. current # 0 => Hit(seen, current)
    BY <1>1, CurrentFirst DEF SenderInv
  <1> QED
    BY <1>1, <1>2, <1>4, <1>5, OperationElement DEF Settles, OneInFlight

(* do_ctl_change_op adds an operation when there is no current one. *)
Adds ==
  /\ reqPc = "change" /\ seen = 0 /\ current = 0 /\ reqPc' # "change"
  /\ \/ new_op(req.id, "START") /\ req.type \in Starts
     \/ new_op(req.id, "CANCELLED") /\ req.type = "CANCELLED"

(* poll() removes the front operation when it is over. *)
Removes == operations # <<>> /\ current # 1 /\ remove_front_op

(* Without an operation that it read, the sending thread has none to find. *)
LEMMA NothingSeen ==
  ASSUME Typed, SenderInv, reqPc = "change", seen = 0
  PROVE  current = 0
  <1> SUFFICES ASSUME current # 0 PROVE FALSE
    OBVIOUS
  <1>1. seen = CurrentId
    BY DEF SenderInv
  <1>2. CurrentId \in SpeechId
    BY OperationElement DEF CurrentId
  <1> QED
    BY <1>1, <1>2, IdsAreNat

(* poll() removes a cancelled or failed operation                          *)
(* (speech_impl.cc:284-309).                                               *)
LEMMA DeadRemoves ==
  ASSUME IInv, pollDead
  PROVE  Removes
  <1>1. 1 \in 1 .. Len(operations)
    BY SeqTail DEF IInv, Typed, OpType, pollDead
  <1>2. operations[1].status \notin {"START", "STREAMING"}
    BY DEF pollDead, Dead
  <1>3. current # 1
    BY <1>1, <1>2 DEF IInv, OneInFlight
  <1> QED
    BY <1>3 DEF pollDead, Removes

(* poll() removes an operation with its last result, which it only has     *)
(* when the operation is over (speech_impl.cc:310-336).                    *)
LEMMA ItemRemoves ==
  ASSUME IInv, pollItem
  PROVE  IF Label(PopItem(responses)) \in Terminal
         THEN /\ Removes /\ PopType(responses) \in {"END", "REMOVED", "ERROR"}
              /\ operations[1].status = "END"
         ELSE UNCHANGED ctlVars /\ PopType(responses) \in {"START", "DATA"}
  <1>1. /\ Typed /\ OneInFlight /\ SenderInv /\ OpOrder /\ ResponseOrder /\ StreamInv
        /\ operations # <<>> /\ ~Dead(operations[1]) /\ PopType(responses) # "EMPTY"
    BY DEF IInv, pollItem
  <1>2. /\ PopType(responses) \in {"END", "REMOVED", "ERROR"} => operations[1].status = "END"
    BY <1>1, FrontItem
  <1>3. PopType(responses) \in {"EMPTY", "START", "DATA", "END", "REMOVED", "ERROR"}
    BY DEF PopType, FrontType
  <1> DEFINE l == Label(PopItem(responses))
  <1>4. /\ PopType(responses) = "START" => l = "START"
        /\ PopType(responses) = "DATA" => l \in Part
        /\ PopType(responses) = "REMOVED" => l = "CANCELLED"
        /\ PopType(responses) \in {"END", "ERROR"} => l = PopType(responses)
    BY <1>1, ResultItem DEF Typed
  <1>5. IF l \in Terminal THEN remove_front_op ELSE UNCHANGED ctlVars
    BY DEF pollItem
  <1> HIDE DEF l
  <1>6. l \in Terminal <=> PopType(responses) \in {"END", "REMOVED", "ERROR"}
    BY <1>1, <1>3, <1>4 DEF Terminal, Part
  <1>7. 1 \in 1 .. Len(operations)
    BY <1>1, SeqTail DEF Typed, OpType
  <1>8. operations[1].status = "END" => current # 1
    BY <1>1, <1>7 DEF OneInFlight
  <1>9. CASE l \in Terminal
    BY <1>1, <1>2, <1>5, <1>6, <1>8, <1>9 DEF Removes, l
  <1>10. CASE l \notin Terminal
    BY <1>1, <1>3, <1>5, <1>6, <1>10 DEF l
  <1> QED
    BY <1>9, <1>10

(* What a step does to the operations. *)
LEMMA OpEffect ==
  ASSUME IInv, [Next]_vars
  PROVE  Settles \/ Adds \/ (Removes /\ (pollDead \/ pollItem))
  <1> USE DEF IInv
  <1>0. OpType(SpeechId, Errors)
    BY DEF Typed
  <1>1. CASE UNCHANGED ctlVars
    BY <1>1, StillSettles DEF ctlVars
  <1>2. CASE UNCHANGED vars
    BY <1>2, StillSettles DEF vars
  <1>3. CASE prepare \/ release
    BY <1>1, <1>3, FailSettles DEF prepare, release, releaseBegin, releaseClose, releaseJoinReq,
                                   releaseJoinResp
  <1>4. CASE cancel
    <2>1. CASE cancelOps
      BY <2>1, CancelSettles DEF cancelOps
    <2>2. CASE ~cancelOps
      BY <1>1, <1>4, <2>2 DEF cancel, cancelQueued, cancelOne, cancelAll
    <2> QED
      BY <2>1, <2>2
  <1>5. CASE \/ start_voice \/ \E c \in Callers : textRead(c) \/ textStore(c) \/ textQueue(c)
             \/ \E id \in SpeechId : put_voice(id) \/ end_voice(id) \/ serverAnswers(id)
             \/ \E k \in {"broken", "badData"} : linkError(k)
    BY <1>1, <1>5 DEF start_voice, textRead, textStore, textQueue, put_voice, end_voice,
                      serverAnswers, linkError
  <1>6. CASE poll
    <2>1. CASE pollDead
      BY <2>1, DeadRemoves
    <2>2. CASE pollItem
      BY <1>1, <2>2, ItemRemoves
    <2>3. CASE pollReleased \/ pollLook \/ pollSleep
      BY <1>1, <2>3 DEF pollReleased, pollLook, pollSleep
    <2> QED
      BY <1>6, <2>1, <2>2, <2>3 DEF poll
  <1>7. CASE send_reqs
    <2>1. CASE changeStarts
      BY <2>1, NothingSeen DEF changeStarts, Adds, Starts
    <2>2. CASE changeCancels
      <3>1. CASE seen = 0
        BY <2>2, <3>1, NothingSeen DEF changeCancels, Adds, NextReq
      <3>2. CASE seen # 0
        BY <2>2, <3>2, HandSettles
      <3> QED
        BY <3>1, <3>2
    <2>3. CASE sendFails
      <3>1. "SERVICE_UNAVAILABLE" \in Errors
        BY DEF Errors
      <3> QED
        BY <2>3, <3>1, FailSettles DEF sendFails
    <2>4. CASE sendRefresh
      <3>1. refresh_op_time(FALSE)
        BY <2>4 DEF sendRefresh
      <3> QED
        BY <1>0, <3>1, RefreshKeeps, SameSettles
    <2>5. CASE sendWaitOp
      BY <2>5, StillSettles DEF sendWaitOp
    <2>6. CASE \/ sendQuit \/ sendWait \/ sendTake \/ changeContinues \/ sendErase \/ sendAwake
               \/ \E lost \in BOOLEAN : sendDone(lost)
      BY <1>1, <2>6 DEF sendQuit, sendWait, sendTake, changeContinues, sendDone, sendErase,
                        sendAwake
    <2> QED
      BY <1>7, <2>1, <2>2, <2>3, <2>4, <2>5, <2>6 DEF send_reqs, do_ctl_change_op, do_request
  <1>8. CASE gen_results
    <2>1. CASE genAnswer
      BY <2>1, AnswerSettles
    <2>2. CASE genStale
      <3>1. refresh_op_time(TRUE)
        BY <2>2 DEF genStale
      <3> QED
        BY <1>0, <3>1, RefreshKeeps, SameSettles
    <2>3. CASE genError
      <3>1. ErrorOf(rx.kind) \in Errors
        BY DEF ErrorOf, Errors
      <3>2. UNCHANGED ctlVars \/ set_op_error(ErrorOf(rx.kind))
        BY <2>3 DEF genError
      <3> QED
        BY <1>1, <3>1, <3>2, FailSettles
    <2>4. CASE \/ genTimeout \/ recvPacket \/ recvWait \/ recvTimer \/ recvNothing
               \/ genFinish \/ genErase
      BY <1>1, <2>4 DEF genTimeout, recvPacket, recvWait, recvTimer, recvNothing, genFinish,
                        genErase
    <2> QED
      BY <1>8, <2>1, <2>2, <2>3, <2>4 DEF gen_results
  <1>9. CASE clock
    BY <1>0, <1>9, GrowsIdleKeeps, GrowsSilentKeeps, SameSettles DEF clock
  <1> QED
    BY <1>2, <1>3, <1>4, <1>5, <1>6, <1>7, <1>8, <1>9 DEF Next

(* What becomes of the operations when one is added ... *)
LEMMA AddKeeps ==
  ASSUME Typed, reqPc = "change", Adds
  PROVE  LET n == Len(operations) + 1 IN
         /\ n \in Nat /\ Len(operations') = n
         /\ \A i \in 1 .. Len(operations) : operations'[i] = operations[i]
         /\ operations'[n].id = req.id
         /\ \/ /\ operations'[n].status = "START" /\ current' = n /\ req.type \in Starts
            \/ /\ operations'[n].status = "CANCELLED" /\ current' = 0 /\ req.type = "CANCELLED"
         /\ op_cond' = op_cond
  <1>1. OpType(SpeechId, Errors) /\ req.id \in SpeechId /\ Len(operations) \in Nat
    BY OperationElement DEF Typed, HandType
  <1>2. "START" \in Status /\ "CANCELLED" \in Status
    BY DEF Status
  <1>3. CASE new_op(req.id, "START") /\ req.type \in Starts
    BY <1>1, <1>2, <1>3, NewOpKeeps
  <1>4. CASE new_op(req.id, "CANCELLED") /\ req.type = "CANCELLED"
    BY <1>1, <1>2, <1>4, NewOpKeeps DEF Adds
  <1> QED
    BY <1>3, <1>4 DEF Adds

(* ... and when the front one is removed. *)
LEMMA RemoveKeeps ==
  ASSUME Typed, Removes
  PROVE  /\ Len(operations) \in Nat \ {0} /\ Len(operations') = Len(operations) - 1
         /\ \A i \in 1 .. Len(operations') :
              operations'[i] = operations[i + 1] /\ i + 1 \in 1 .. Len(operations)
         /\ current' = IF current = 0 THEN 0 ELSE current - 1
         /\ op_cond' = op_cond
  <1>1. OpType(SpeechId, Errors)
    BY DEF Typed
  <1>2. /\ Len(operations) \in Nat \ {0} /\ Len(operations') = Len(operations) - 1
        /\ \A i \in 1 .. Len(operations) - 1 : operations'[i] = operations[i + 1]
        /\ current' = IF current = 0 THEN 0 ELSE current - 1
        /\ op_cond' = op_cond
    BY <1>1, RemoveFrontKeeps DEF Removes
  <1> QED
    BY <1>2

(* One unfinished operation at most, the current one. *)
LEMMA FlightStep ==
  ASSUME IInv, [Next]_vars
  PROVE  OneInFlight'
  <1> USE DEF IInv
  <1>1. CASE Settles
    BY <1>1 DEF Settles, SameOpIds, OneInFlight
  <1>2. CASE Adds
    <2> DEFINE n == Len(operations) + 1
    <2>1. /\ n \in Nat /\ Len(operations') = n
          /\ \A i \in 1 .. Len(operations) : operations'[i] = operations[i]
          /\ \/ operations'[n].status = "START" /\ current' = n
             \/ operations'[n].status = "CANCELLED" /\ current' = 0
          /\ Len(operations) \in Nat /\ current = 0
      BY <1>2, AddKeeps, OperationElement DEF Adds
    <2>2. ASSUME NEW i \in 1 .. Len(operations')
          PROVE  operations'[i].status \in {"START", "STREAMING"} <=> current' = i
      <3>1. CASE i = n
        BY <2>1, <3>1
      <3>2. CASE i # n
        <4>1. i \in 1 .. Len(operations)
          BY <2>1, <3>2
        <4>2. operations[i].status \notin {"START", "STREAMING"}
          BY <2>1, <4>1 DEF OneInFlight
        <4> QED
          BY <2>1, <3>2, <4>1, <4>2
      <3> QED
        BY <3>1, <3>2
    <2> QED
      BY <2>2 DEF OneInFlight
  <1>3. CASE Removes
    <2>1. ASSUME NEW i \in 1 .. Len(operations')
          PROVE  operations'[i].status \in {"START", "STREAMING"} <=> current' = i
      <3>1. /\ operations'[i] = operations[i + 1] /\ i + 1 \in 1 .. Len(operations)
            /\ current' = IF current = 0 THEN 0 ELSE current - 1
        BY <1>3, RemoveKeeps
      <3>2. operations[i + 1].status \in {"START", "STREAMING"} <=> current = i + 1
        BY <3>1 DEF OneInFlight
      <3>3. current \in Nat /\ Len(operations) \in Nat
        BY OperationElement
      <3> QED
        BY <3>1, <3>2, <3>3
    <2> QED
      BY <2>1 DEF OneInFlight
  <1> QED
    BY <1>1, <1>2, <1>3, OpEffect

(* The operations are in the order of their ids, behind the queues. *)
LEMMA OrderStep ==
  ASSUME Orderly, IInv, [Next]_vars
  PROVE  OpOrder'
  <1> USE DEF IInv
  <1>0. \A n \in Nat : (Behind(n) => Behind(n)') /\ (Passed(n) => Passed(n)')
    BY BehindStep, QueueStep
  <1>1. reqPc' = "change" => \A n \in Nat : n = req'.id => Passed(n)'
    <2>1. CASE sendTake
      BY <2>1, TakeQueues
    <2>2. CASE Held
      <3> SUFFICES ASSUME reqPc' = "change", NEW n \in Nat, n = req'.id PROVE Passed(n)'
        OBVIOUS
      <3>1. reqPc = "change" /\ req' = req
        BY <2>2 DEF Held
      <3>2. Passed(n)
        BY <3>1 DEF OpOrder
      <3> QED
        BY <1>0, <3>2
    <2> QED
      BY <2>1, <2>2, HandSteps
  <1>2. reqPc' = "change" => Passed(req.id)'
    <2> SUFFICES ASSUME reqPc' = "change" PROVE Passed(req.id)'
      OBVIOUS
    <2>1. req'.id \in Nat
      BY NextType, IdsAreNat DEF Typed, HandType
    <2>2. \A n \in Nat : n = req'.id => Passed(n)'
      BY <1>1
    <2>3. Passed(req.id)' <=> \E n \in Nat : n = req'.id /\ Passed(n)'
      BY <2>1 DEF Passed
    <2> QED
      BY <2>1, <2>2, <2>3
  <1>3. \A i \in 1 .. Len(operations) : operations[i].id \in Nat /\ Behind(operations[i].id)
    BY OperationElement DEF OpOrder
  <1> DEFINE Good(x, y) == /\ x.id <= y.id
                           /\ x.id = y.id => y.status = "CANCELLED"
             Fine(i) == /\ \E n \in Nat : n = operations'[i].id /\ Behind(n)'
                        /\ \A j \in 1 .. i - 1 : Good(operations'[j], operations'[i])
  <1>4. ASSUME NEW i \in 1 .. Len(operations') PROVE Fine(i)
    <2>1. CASE Settles
      <3>1. /\ i \in 1 .. Len(operations) /\ operations'[i].id = operations[i].id
            /\ operations[i].status = "CANCELLED" => operations'[i].status = "CANCELLED"
            /\ \A j \in 1 .. i - 1 : operations'[j].id = operations[j].id
        BY <2>1, OperationElement DEF Settles, SameOpIds
      <3>2. \A j \in 1 .. i - 1 : Good(operations'[j], operations'[i])
        BY <3>1 DEF OpOrder
      <3>3. \E n \in Nat : n = operations'[i].id /\ Behind(n)'
        BY <1>0, <1>3, <3>1
      <3> QED
        BY <3>2, <3>3
    <2>2. CASE Adds
      <3> DEFINE n == Len(operations) + 1
      <3>1. /\ n \in Nat /\ Len(operations') = n
            /\ \A j \in 1 .. Len(operations) : operations'[j] = operations[j]
            /\ operations'[n].id = req.id
            /\ \/ operations'[n].status = "START" /\ req.type \in Starts
               \/ operations'[n].status = "CANCELLED" /\ req.type = "CANCELLED"
            /\ Len(operations) \in Nat /\ reqPc = "change" /\ reqPc' # "change"
        BY <2>2, AddKeeps, OperationElement DEF Adds
      <3> HIDE DEF n
      <3>2. CASE i = n
        <4>1. Passed(req.id) /\ req.id \in Nat
          BY <3>1, IdsAreNat DEF OpOrder, Typed, HandType
        <4>2. \E m \in Nat : m = operations'[i].id /\ Behind(m)'
          <5>2. \A m \in Nat : m = req.id => Behind(m)'
            BY <1>0, <3>1, <4>1 DEF Behind
          <5> QED
            BY <3>1, <3>2, <4>1, <5>2
        <4>3. ASSUME NEW j \in 1 .. i - 1 PROVE Good(operations'[j], operations'[i])
          <5>1. j \in 1 .. Len(operations) /\ operations'[j] = operations[j]
            BY <3>1, <3>2 DEF n
          <5>2. /\ operations[j].id <= req.id
                /\ req.type \in Starts => operations[j].id < req.id
            BY <1>3, <3>1, <5>1 DEF Behind
          <5>3. operations[j].id \in Nat
            BY <1>3, <5>1
          <5> QED
            BY <3>1, <3>2, <4>1, <5>1, <5>2, <5>3
        <4> QED
          BY <4>2, <4>3
      <3>3. CASE i # n
        <4>1. i \in 1 .. Len(operations) /\ \A j \in 1 .. i - 1 : j \in 1 .. Len(operations)
          BY <3>1, <3>3 DEF n
        <4>2. \A j \in 1 .. i - 1 : Good(operations'[j], operations'[i])
          BY <3>1, <4>1 DEF OpOrder
        <4> QED
          BY <1>0, <1>3, <3>1, <4>1, <4>2
      <3> QED
        BY <3>2, <3>3
    <2>3. CASE Removes
      <3>1. /\ Len(operations) \in Nat
            /\ \A k \in 1 .. Len(operations') :
                 operations'[k] = operations[k + 1] /\ k + 1 \in 1 .. Len(operations)
            /\ Len(operations') = Len(operations) - 1
        BY <2>3, RemoveKeeps
      <3>2. \A j \in 1 .. i - 1 : Good(operations'[j], operations'[i])
        <4>1. ASSUME NEW j \in 1 .. i - 1 PROVE Good(operations'[j], operations'[i])
          <5>1. j \in 1 .. Len(operations') /\ j + 1 \in 1 .. (i + 1) - 1
            BY <3>1
          <5>2. operations'[j] = operations[j + 1] /\ operations'[i] = operations[i + 1]
                /\ i + 1 \in 1 .. Len(operations)
            BY <3>1, <5>1
          <5> QED
            BY <5>1, <5>2 DEF OpOrder
        <4> QED
          BY <4>1
      <3>3. operations'[i] = operations[i + 1] /\ i + 1 \in 1 .. Len(operations)
        BY <3>1
      <3> QED
        BY <1>0, <1>3, <3>2, <3>3
    <2> QED
      BY <2>1, <2>2, <2>3, OpEffect
  <1>5. ASSUME NEW i \in 1 .. Len(operations')
        PROVE  Behind(operations[i].id)'
    <2>1. PICK n \in Nat : n = operations'[i].id /\ Behind(n)'
      BY <1>4
    <2> QED
      BY <2>1 DEF Behind, Passed
  <1> QED
    BY <1>2, <1>4, <1>5 DEF OpOrder

(* Only prepare() makes the library ready, and release() ends that. *)
LEMMA ReadyStep ==
  ASSUME [Next]_vars, ~prepare
  PROVE  /\ initialized' => initialized
         /\ initialized' /\ ctlPc = "idle" => ctlPc' = "idle"
         /\ initialized' /\ reqPc # "dead" => reqPc' # "dead"
  <1>1. CASE UNCHANGED vars
    BY <1>1 DEF vars
  <1>2. CASE release
    BY <1>2 DEF release, releaseBegin, releaseClose, releaseJoinReq, releaseJoinResp,
                WakeReq, sendVars, appVars
  <1>3. CASE cancel
    BY <1>3 DEF cancel, cancelQueued, cancelOne, cancelAll, cancelOps, WakeReq, sendVars, appVars,
                runVars
  <1>4. CASE \/ start_voice \/ \E c \in Callers : textRead(c) \/ textStore(c) \/ textQueue(c)
             \/ \E id \in SpeechId : put_voice(id) \/ end_voice(id) \/ serverAnswers(id)
    BY <1>4 DEF start_voice, textRead, textStore, textQueue, put_voice, end_voice, serverAnswers,
                WakeReq, sendVars, appVars, runVars
  <1>5. CASE poll
    BY <1>5 DEF poll, pollReleased, pollLook, pollSleep, pollDead, pollItem, sendVars, appVars,
                runVars
  <1>6. CASE send_reqs
    <2>1. UNCHANGED <<initialized, ctlPc>>
      BY <1>6 DEF send_reqs, sendQuit, sendWait, sendTake, do_ctl_change_op,
           changeStarts, changeContinues, changeCancels, do_request, sendDone, sendFails,
           sendErase, sendRefresh, sendWaitOp, sendAwake, appVars, runVars
    <2>2. reqPc' = "dead" => ~initialized
      BY <1>6 DEF send_reqs, sendQuit, sendWait, sendTake, do_ctl_change_op,
           changeStarts, changeContinues, changeCancels, do_request, sendDone, sendFails,
           sendErase, sendRefresh, sendWaitOp, sendAwake, NextReq
    <2> QED
      BY <2>1, <2>2
  <1>7. CASE gen_results
    <2>1. UNCHANGED <<initialized, ctlPc>>
      BY <1>7 DEF gen_results, genTimeout, recvPacket, recvWait, recvTimer, recvNothing, genAnswer,
             genFinish, genStale, genError, genErase, appVars, runVars
    <2>2. reqPc' = "dead" => reqPc = "dead"
      BY <1>7 DEF gen_results, genTimeout, recvPacket, recvWait, recvTimer, recvNothing, genAnswer,
             genFinish, genStale, genError, genErase, WakeReq, sendVars
    <2> QED
      BY <2>1, <2>2
  <1>8. CASE clock \/ \E k \in {"broken", "badData"} : linkError(k)
    BY <1>8 DEF clock, linkError, sendVars, appVars, runVars
  <1> QED
    BY <1>1, <1>2, <1>3, <1>4, <1>5, <1>6, <1>7, <1>8 DEF Next

(* A library that is ready has its threads (prepare, release). *)
LEMMA LifeStep ==
  ASSUME LifeInv, [Next]_vars
  PROVE  LifeInv'
  <1>1. CASE prepare
    BY <1>1 DEF prepare, LifeInv
  <1>2. CASE ~prepare
    BY <1>2, ReadyStep DEF LifeInv
  <1> QED
    BY <1>1, <1>2

(* The voice whose start was sent stays at the front until it is sent. *)
LEMMA FrontStep ==
  ASSUME Typed, FreshInv, LifeInv, [Next]_vars, ~sendTake, ~prepare, initialized',
         NEW id, FrontIs(id)
  PROVE  FrontIs(id)'
  <1>0. voice_reqs \in Seq(Voice) /\ voice_reqs # <<>> /\ 1 \in 1 .. Len(voice_reqs)
    BY SeqTail DEF Typed, QueueType, FrontIs
  <1>1. CASE Kept
    <2>1. /\ voice_reqs'[1].polling = voice_reqs[1].polling
          /\ voice_reqs'[1].id = voice_reqs[1].id /\ Len(voice_reqs') = Len(voice_reqs)
      BY <1>0, <1>1 DEF Kept, VoiceKept, SameIds
    <2>2. Len(voice_reqs') # 0
      BY <1>0, <2>1, SeqTail
    <2>4. Typed'
      BY NextType
    <2>5. voice_reqs' \in Seq(Voice)
      BY <2>4 DEF Typed, QueueType
    <2>3. voice_reqs' # <<>>
      BY <2>2, <2>5, EmptySeq
    <2> QED
      BY <2>1, <2>3 DEF FrontIs
  <1>2. ~releaseClose
    BY ReadyStep DEF releaseClose, LifeInv
  <1>3. CASE start_voice
    <2>1. next_id + 1 \in SpeechId
      BY <1>3, SpeechAssumption DEF start_voice, SpeechId, Typed, RestType
    <2>2. /\ HasStream(voice_reqs, next_id + 1) => voice_reqs' = voice_reqs
          /\ ~HasStream(voice_reqs, next_id + 1) =>
               voice_reqs' = Append(voice_reqs, NewStream(next_id + 1))
      BY <1>3, <2>1, StartKeeps DEF start_voice, Typed, QueueType, Voice
    <2>3. voice_reqs'[1] = voice_reqs[1] /\ voice_reqs' # <<>>
      BY <1>0, <2>2
    <2> QED
      BY <2>3 DEF FrontIs
  <1>4. CASE \E c \in Callers : textRead(c) \/ textStore(c) \/ textQueue(c)
    <2>1. voice_reqs' = voice_reqs
      BY <1>4 DEF textRead, textStore, textQueue, queues
    <2> QED
      BY <2>1 DEF FrontIs
  <1> QED
    BY <1>1, <1>2, <1>3, <1>4, QueueSteps DEF Moves

(* The sending thread, seen from the steps of the others: they wake it at  *)
(* most, and a failure of its send puts it on the way to erase_req().      *)
HandStays ==
  /\ req' = req /\ seen' = seen
  /\ reqPc' = reqPc \/ (reqPc = "asleep" /\ reqPc' = "top") \/ reqPc' = "failed"
  /\ initialized' => initialized
  /\ initialized' => \A id : FrontIs(id) => FrontIs(id)'

(* The current operation stays ... *)
LEMMA SenderIdle ==
  ASSUME SenderInv, HandStays, reqPc' # "failed" \/ current = 0, op_cond' = op_cond,
         reqPc' = "failed" => reqPc = "failed",
         IF current = 0 THEN current' = 0
         ELSE current' # 0 /\ current' = Len(operations') /\ CurrentId' = CurrentId
  PROVE  SenderInv'
  <1>1. /\ op_cond' => reqPc' = "inOp" /\ current' # 0
        /\ reqPc' = "inOp" /\ ~op_cond' => current' = 0
    BY DEF SenderInv, HandStays
  <1>2. ASSUME current' # 0
        PROVE  /\ current' = Len(operations')
               /\ reqPc' # "failed"
               /\ reqPc' \in {"change", "send", "sent", "waitOp", "inOp"} => req'.id = CurrentId'
               /\ reqPc' \in {"top", "asleep"} /\ initialized' => FrontIs(CurrentId)'
               /\ reqPc' = "change" => seen' = CurrentId'
               /\ reqPc' \in {"send", "sent"} => req'.type # "CANCELLED"
    <2>1. current # 0 /\ CurrentId' = CurrentId /\ current' = Len(operations')
      BY <1>2
    <2>2. reqPc' \in {"top", "asleep"} /\ initialized' => FrontIs(CurrentId)'
      <3> SUFFICES ASSUME reqPc' \in {"top", "asleep"}, initialized' PROVE FrontIs(CurrentId)'
        OBVIOUS
      <3>1. FrontIs(CurrentId)
        BY <2>1 DEF SenderInv, HandStays
      <3> DEFINE c == CurrentId
      <3>2. voice_reqs' # <<>> /\ voice_reqs'[1].polling /\ voice_reqs'[1].id = c
        BY <3>1 DEF HandStays, FrontIs
      <3> QED
        BY <2>1, <3>2 DEF FrontIs
    <2> QED
      BY <2>1, <2>2 DEF SenderInv, HandStays
  <1>3. reqPc' \in {"change", "send", "sent"} /\ initialized'
          /\ req'.type \in {"VOICE_START", "VOICE_DATA"}
          => FrontIs(req.id)'
    <2> SUFFICES ASSUME reqPc' \in {"change", "send", "sent"}, initialized',
                        req'.type \in {"VOICE_START", "VOICE_DATA"}
                 PROVE  FrontIs(req.id)'
      OBVIOUS
    <2>1. FrontIs(req.id) /\ req' = req
      BY DEF SenderInv, HandStays
    <2>2. voice_reqs' # <<>> /\ voice_reqs'[1].polling /\ voice_reqs'[1].id = req.id
      BY <2>1 DEF HandStays, FrontIs
    <2> QED
      BY <2>1, <2>2 DEF FrontIs
  <1> QED
    BY <1>1, <1>2, <1>3 DEF SenderInv, HandStays

(* ... or it ends, and then nobody waits for it. *)
LEMMA SenderDrop ==
  ASSUME SenderInv, HandStays, current' = 0, ~op_cond'
  PROVE  SenderInv'
  <1>3. reqPc' \in {"change", "send", "sent"} /\ initialized'
          /\ req'.type \in {"VOICE_START", "VOICE_DATA"}
          => FrontIs(req.id)'
    <2> SUFFICES ASSUME reqPc' \in {"change", "send", "sent"}, initialized',
                        req'.type \in {"VOICE_START", "VOICE_DATA"}
                 PROVE  FrontIs(req.id)'
      OBVIOUS
    <2>1. FrontIs(req.id) /\ req' = req
      BY DEF SenderInv, HandStays
    <2>2. voice_reqs' # <<>> /\ voice_reqs'[1].polling /\ voice_reqs'[1].id = req.id
      BY <2>1 DEF HandStays, FrontIs
    <2> QED
      BY <2>1, <2>2 DEF FrontIs
  <1> QED
    BY <1>3 DEF SenderInv, HandStays

(* An operation that is only refreshed, or leaves the list in front of the *)
(* current one, leaves the current one where it is.                        *)
LEMMA SameCurrent ==
  ASSUME Typed, SenderInv, SameOpIds, current' = current
  PROVE  IF current = 0 THEN current' = 0
         ELSE current' # 0 /\ current' = Len(operations') /\ CurrentId' = CurrentId
  BY OperationElement DEF SameOpIds, CurrentId, SenderInv

(* The front operation leaves, and the current one is still the last. *)
LEMMA RemovedCurrent ==
  ASSUME Typed, SenderInv, Removes
  PROVE  IF current = 0 THEN current' = 0
         ELSE current' # 0 /\ current' = Len(operations') /\ CurrentId' = CurrentId
  <1>1. /\ Len(operations) \in Nat \ {0} /\ Len(operations') = Len(operations) - 1
        /\ \A i \in 1 .. Len(operations') : operations'[i] = operations[i + 1]
        /\ current' = IF current = 0 THEN 0 ELSE current - 1
    BY RemoveKeeps
  <1>2. CASE current # 0
    <2>1. current \in 1 .. Len(operations) /\ current # 1 /\ current = Len(operations)
      BY <1>2, OperationElement DEF Removes, SenderInv
    <2>2. /\ current' = current - 1 /\ current' \in 1 .. Len(operations')
          /\ current' = Len(operations')
      BY <1>1, <1>2, <2>1
    <2>3. operations'[current'] = operations[current' + 1]
      BY <1>1, <2>2
    <2>4. current' + 1 = current /\ current' # 0
      BY <1>1, <2>1, <2>2
    <2> QED
      BY <1>2, <2>2, <2>3, <2>4 DEF CurrentId
  <1> QED
    BY <1>1, <1>2

(* Whatever the others do, the sending thread is at most woken. *)
LEMMA OthersStay ==
  ASSUME Typed, FreshInv, LifeInv, [Next]_vars, ~prepare, ~send_reqs
  PROVE  HandStays /\ (reqPc' = "failed" => reqPc = "failed")
  <1>1. ~sendTake
    BY DEF send_reqs
  <1>2. /\ initialized' => initialized
        /\ initialized' => \A id : FrontIs(id) => FrontIs(id)'
    BY <1>1, ReadyStep, FrontStep
  <1>3. /\ req' = req /\ seen' = seen
        /\ reqPc' = reqPc \/ (reqPc = "asleep" /\ reqPc' = "top")
    <2>1. CASE UNCHANGED vars
      BY <2>1 DEF vars
    <2>2. CASE release
      BY <2>2 DEF release, releaseBegin, releaseClose, releaseJoinReq, releaseJoinResp,
                  WakeReq, sendVars
    <2>3. CASE cancel
      BY <2>3 DEF cancel, cancelQueued, cancelOne, cancelAll, cancelOps, WakeReq, sendVars
    <2>4. CASE \/ start_voice \/ \E c \in Callers : textRead(c) \/ textStore(c) \/ textQueue(c)
               \/ \E id \in SpeechId : put_voice(id) \/ end_voice(id) \/ serverAnswers(id)
      BY <2>4 DEF start_voice, textRead, textStore, textQueue, put_voice, end_voice,
                  serverAnswers, WakeReq, sendVars
    <2>5. CASE poll
      BY <2>5 DEF poll, pollReleased, pollLook, pollSleep, pollDead, pollItem, sendVars
    <2>6. CASE gen_results
      BY <2>6 DEF gen_results, genTimeout, recvPacket, recvWait, recvTimer, recvNothing,
                  genAnswer, genFinish, genStale, genError, genErase, WakeReq, sendVars
    <2>7. CASE clock \/ \E k \in {"broken", "badData"} : linkError(k)
      BY <2>7 DEF clock, linkError, sendVars
    <2> QED
      BY <2>1, <2>2, <2>3, <2>4, <2>5, <2>6, <2>7 DEF Next
  <1> QED
    BY <1>2, <1>3 DEF HandStays

(* ... and the operation it waits for ends with its wait, or goes on. *)
Continues == SameOpIds /\ current' = current /\ op_cond' = op_cond
(* ... or is over, and the thread is woken. *)
Drops == current' = 0 /\ ~op_cond'

(* set_op_error() and finish_op() wake the sending thread                  *)
(* (op_ctl.h:31-47, 87-96).                                                *)
LEMMA FailDrops ==
  ASSUME Typed, SenderInv, (\E err \in Errors : set_op_error(err)) \/ finish_op
  PROVE  Drops
  <1>0. OpType(SpeechId, Errors)
    BY DEF Typed
  <1>1. ASSUME NEW err \in Errors, set_op_error(err) PROVE Drops
    <2>1. current' = 0 /\ op_cond' = (op_cond /\ current = 0)
      BY <1>0, <1>1, SetErrorKeeps
    <2> QED
      BY <2>1 DEF Drops, SenderInv
  <1>2. CASE finish_op
    <2>1. current' = 0 /\ op_cond' = (op_cond /\ current = 0)
      BY <1>0, <1>2, FinishKeeps
    <2> QED
      BY <2>1 DEF Drops, SenderInv
  <1> QED
    BY <1>1, <1>2

(* What the other threads do to the operations. *)
LEMMA OthersEffect ==
  ASSUME IInv, [Next]_vars, ~send_reqs
  PROVE  Continues \/ Drops \/ Removes
  <1> USE DEF IInv
  <1>0. OpType(SpeechId, Errors)
    BY DEF Typed
  <1>1. CASE UNCHANGED ctlVars
    BY <1>1 DEF ctlVars, Continues, SameOpIds
  <1>2. CASE UNCHANGED vars
    BY <1>2 DEF vars, Continues, SameOpIds
  <1>3. CASE prepare \/ release
    BY <1>1, <1>3, FailDrops DEF prepare, release, releaseBegin, releaseClose, releaseJoinReq,
                                 releaseJoinResp
  <1>4. CASE cancel
    <2>1. CASE cancelOps
      <3>1. PICK id \in cancelling : cancel_op(id)
        BY <2>1 DEF cancelOps
      <3>2. /\ SameOpIds
            /\ current' = IF CancelsCurrent(id) THEN 0 ELSE current
            /\ op_cond' = (op_cond /\ ~CancelsCurrent(id))
        BY <1>0, <3>1, CancelKeeps
      <3>3. CASE CancelsCurrent(id)
        BY <3>2, <3>3 DEF Drops
      <3>4. CASE ~CancelsCurrent(id)
        <4>1. op_cond \in BOOLEAN
          BY <1>0 DEF OpType
        <4>2. op_cond' = op_cond
          BY <3>2, <3>4, <4>1
        <4> QED
          BY <3>2, <3>4, <4>2 DEF Continues
      <3> QED
        BY <3>3, <3>4
    <2>2. CASE ~cancelOps
      BY <1>1, <1>4, <2>2 DEF cancel, cancelQueued, cancelOne, cancelAll
    <2> QED
      BY <2>1, <2>2
  <1>5. CASE \/ start_voice \/ \E c \in Callers : textRead(c) \/ textStore(c) \/ textQueue(c)
             \/ \E id \in SpeechId : put_voice(id) \/ end_voice(id) \/ serverAnswers(id)
             \/ \E k \in {"broken", "badData"} : linkError(k)
    BY <1>1, <1>5 DEF start_voice, textRead, textStore, textQueue, put_voice, end_voice,
                      serverAnswers, linkError
  <1>6. CASE poll
    <2>1. CASE pollDead
      BY <2>1, DeadRemoves
    <2>2. CASE pollItem
      BY <1>1, <2>2, ItemRemoves
    <2>3. CASE pollReleased \/ pollLook \/ pollSleep
      BY <1>1, <2>3 DEF pollReleased, pollLook, pollSleep
    <2> QED
      BY <1>6, <2>1, <2>2, <2>3 DEF poll
  <1>7. CASE gen_results
    <2>1. CASE genAnswer
      <3>1. /\ SameOpIds /\ current' = IF Last(rx) THEN 0 ELSE current
            /\ op_cond' = (op_cond /\ ~Last(rx))
        BY <2>1, AnswerKeeps
      <3>2. op_cond \in BOOLEAN
        BY <1>0 DEF OpType
      <3>3. CASE Last(rx)
        BY <3>1, <3>3 DEF Drops
      <3>4. CASE ~Last(rx)
        <4>1. op_cond' = op_cond
          BY <3>1, <3>2, <3>4
        <4> QED
          BY <3>1, <3>4, <4>1 DEF Continues
      <3> QED
        BY <3>3, <3>4
    <2>2. CASE genStale
      <3>1. refresh_op_time(TRUE)
        BY <2>2 DEF genStale
      <3> QED
        BY <1>0, <3>1, RefreshKeeps DEF Continues
    <2>3. CASE genError
      <3>1. ErrorOf(rx.kind) \in Errors
        BY DEF ErrorOf, Errors
      <3>2. UNCHANGED ctlVars \/ set_op_error(ErrorOf(rx.kind))
        BY <2>3 DEF genError
      <3> QED
        BY <1>1, <3>1, <3>2, FailDrops
    <2>4. CASE \/ genTimeout \/ recvPacket \/ recvWait \/ recvTimer \/ recvNothing
               \/ genFinish \/ genErase
      BY <1>1, <2>4 DEF genTimeout, recvPacket, recvWait, recvTimer, recvNothing, genFinish,
                        genErase
    <2> QED
      BY <1>7, <2>1, <2>2, <2>3, <2>4 DEF gen_results
  <1>8. CASE clock
    BY <1>0, <1>8, GrowsIdleKeeps, GrowsSilentKeeps DEF clock, Continues
  <1> QED
    BY <1>2, <1>3, <1>4, <1>5, <1>6, <1>7, <1>8 DEF Next

(* The other threads leave the sending thread what it knows. *)
LEMMA OthersSender ==
  ASSUME IInv, [Next]_vars, ~prepare, ~send_reqs
  PROVE  SenderInv'
  <1> USE DEF IInv
  <1>1. HandStays /\ (reqPc' = "failed" => reqPc = "failed")
    BY OthersStay
  <1>2. reqPc' # "failed" \/ current = 0
    BY <1>1 DEF SenderInv
  <1>3. CASE Continues
    BY <1>1, <1>2, <1>3, SameCurrent, SenderIdle DEF Continues
  <1>4. CASE Drops
    BY <1>1, <1>4, SenderDrop DEF Drops
  <1>5. CASE Removes
    <2>1. op_cond' = op_cond
      BY <1>5, RemoveKeeps
    <2> QED
      BY <1>1, <1>2, <1>5, <2>1, RemovedCurrent, SenderIdle
  <1> QED
    BY <1>3, <1>4, <1>5, OthersEffect

(* The request taken is the rest of the voice that is being sent, if any. *)
LEMMA TakeSender ==
  ASSUME Orderly, IInv, sendTake
  PROVE  SenderInv'
  <1> USE DEF IInv
  <1>0. /\ voice_reqs' = PopRest(voice_reqs) /\ reqPc = "top" /\ reqPc' = "change"
        /\ initialized /\ ~Idle /\ UNCHANGED <<operations, current, op_cond, initialized>>
        /\ IF PopType(voice_reqs) # "EMPTY"
           THEN req' = VoiceReq(PopItem(voice_reqs))
           ELSE req' = Head(text_reqs)
        /\ seen' = IF current = 0 THEN 0 ELSE operations[current].id
    BY DEF sendTake, appVars, ctlVars
  <1>1. ~op_cond
    BY <1>0 DEF SenderInv
  <1>2. PopType(voice_reqs) # "EMPTY" =>
          /\ req'.id = voice_reqs[1].id /\ voice_reqs # <<>>
          /\ req'.type = CASE PopType(voice_reqs) = "DATA"    -> "VOICE_DATA"
                           [] PopType(voice_reqs) = "START"   -> "VOICE_START"
                           [] PopType(voice_reqs) = "REMOVED" -> "CANCELLED"
                           [] OTHER                           -> "VOICE_END"
    BY <1>0, VoiceItem DEF Typed
  <1>3. PopType(voice_reqs) = "EMPTY" => req'.type \in {"TEXT", "CANCELLED"}
    <2> SUFFICES ASSUME PopType(voice_reqs) = "EMPTY" PROVE req'.type \in {"TEXT", "CANCELLED"}
      OBVIOUS
    <2>1. text_reqs # <<>> /\ req' = Head(text_reqs)
      BY <1>0 DEF Idle
    <2>2. req' = text_reqs[1] /\ 1 \in 1 .. Len(text_reqs)
      BY <2>1, SeqTail DEF Typed, QueueType
    <2> QED
      BY <2>2, QueueElement DEF Typed
  <1>4. ASSUME current # 0
        PROVE  /\ current = Len(operations) /\ req'.id = CurrentId /\ req'.type \notin Starts
    <2>1. FrontIs(CurrentId) /\ current = Len(operations)
      BY <1>0, <1>4 DEF SenderInv
    <2>2. PopType(voice_reqs) # "EMPTY"
      BY <1>0, <2>1, OneKind DEF FrontIs, Idle
    <2>3. PopType(voice_reqs) # "START"
      BY <2>1 DEF PopType, FrontType, FrontIs
    <2> QED
      BY <1>2, <2>1, <2>2, <2>3 DEF FrontIs, Starts
  <1>5. req'.type \in {"VOICE_START", "VOICE_DATA"} => FrontIs(req.id)'
    <2> SUFFICES ASSUME req'.type \in {"VOICE_START", "VOICE_DATA"} PROVE FrontIs(req.id)'
      OBVIOUS
    <2>1. PopType(voice_reqs) \in {"START", "DATA"} /\ req'.id = voice_reqs[1].id
      BY <1>2, <1>3
    <2>2. /\ Len(voice_reqs') = Len(voice_reqs) /\ 1 \in 1 .. Len(voice_reqs)
          /\ voice_reqs'[1].id = voice_reqs[1].id /\ voice_reqs'[1].polling
      BY <1>0, <2>1, PopFront DEF Typed, QueueType, Voice
    <2>3. voice_reqs' # <<>>
      BY <2>2, EmptySeq
    <2> QED
      BY <2>1, <2>2, <2>3 DEF FrontIs
  <1>6. CurrentId' = CurrentId
    BY <1>0 DEF CurrentId
  <1>7. current # 0 => seen' = CurrentId
    BY <1>0 DEF CurrentId
  <1>8. ASSUME current' # 0
        PROVE  /\ current' = Len(operations') /\ req'.id = CurrentId' /\ seen' = CurrentId'
    BY <1>0, <1>4, <1>6, <1>7, <1>8
  <1>9. seen' # 0 => seen' = req'.id /\ req'.type \notin Starts
    BY <1>0, <1>4, <1>7
  <1> QED
    BY <1>0, <1>1, <1>5, <1>8, <1>9 DEF SenderInv

(* do_ctl_change_op. *)
LEMMA ChangeSender ==
  ASSUME IInv, do_ctl_change_op
  PROVE  SenderInv'
  <1> USE DEF IInv
  <1>1. reqPc = "change" /\ ~op_cond /\ UNCHANGED <<initialized, voice_reqs>>
    BY DEF do_ctl_change_op, changeStarts, changeContinues, changeCancels, SenderInv, appVars,
           queues
  <1>2. FrontIs(req.id) => FrontIs(req.id)' \/ req' # req
    BY <1>1 DEF FrontIs
  <1>3. CASE changeStarts
    <2>1. Adds /\ req.type \in Starts /\ reqPc' = "send" /\ req' = req /\ seen' = seen
      BY <1>3, NothingSeen DEF changeStarts, Adds, Starts
    <2>2. /\ current' = Len(operations') /\ operations'[current'].id = req.id /\ current' # 0
          /\ op_cond' = op_cond
      BY <1>1, <2>1, AddKeeps, OperationElement DEF Starts
    <2> QED
      BY <1>1, <1>2, <2>1, <2>2 DEF SenderInv, CurrentId, Starts
  <1>4. CASE changeContinues
    <2>1. UNCHANGED <<operations, current, op_cond>> /\ req.type \in {"VOICE_DATA", "VOICE_END"}
      BY <1>4 DEF changeContinues, ctlVars
    <2>2. CASE seen = 0
      <3>1. current = 0 /\ reqPc' = "top"
        BY <1>1, <1>4, <2>2, NothingSeen DEF changeContinues, NextReq
      <3> QED
        BY <1>1, <2>1, <3>1 DEF SenderInv
    <2>3. CASE seen # 0
      <3>1. reqPc' = "send" /\ req' = req /\ seen' = seen
        BY <1>4, <2>3 DEF changeContinues
      <3> QED
        BY <1>1, <1>2, <2>1, <3>1 DEF SenderInv, CurrentId
    <2> QED
      BY <2>2, <2>3
  <1>5. CASE changeCancels
    <2>1. CASE seen = 0
      <3>1. Adds /\ req.type = "CANCELLED" /\ reqPc' = "top"
        BY <1>5, <2>1, NothingSeen DEF changeCancels, Adds, NextReq
      <3>2. current' = 0 /\ op_cond' = op_cond
        BY <1>1, <3>1, AddKeeps DEF Starts
      <3> QED
        BY <1>1, <3>1, <3>2 DEF SenderInv
    <2>2. CASE seen # 0
      <3>1. /\ current' = 0 /\ op_cond' = op_cond /\ reqPc' = "send" /\ req' = req
            /\ req.type = "CANCELLED"
        BY <1>5, <2>2 DEF changeCancels
      <3> QED
        BY <1>1, <3>1 DEF SenderInv
    <2> QED
      BY <2>1, <2>2
  <1> QED
    BY <1>3, <1>4, <1>5 DEF do_ctl_change_op

(* The other steps of the sending thread. *)
LEMMA SendSender ==
  ASSUME Orderly, IInv, [Next]_vars, send_reqs
  PROVE  SenderInv'
  <1> USE DEF IInv
  <1>1. CASE sendTake
    BY <1>1, TakeSender
  <1>2. CASE do_ctl_change_op
    BY <1>2, ChangeSender
  <1>3. ~prepare
    BY DEF FreshInv, Init, prepare, send_reqs, sendQuit, sendWait, sendTake, do_ctl_change_op,
           changeStarts, changeContinues, changeCancels, do_request, sendDone, sendFails,
           sendErase, sendRefresh, sendWaitOp, sendAwake
  <1>4. /\ initialized' => initialized
        /\ ~sendTake => (initialized' => \A id : FrontIs(id) => FrontIs(id)')
    BY <1>3, ReadyStep, FrontStep
  <1>5. CASE sendQuit \/ sendWait
    <2>1. /\ UNCHANGED <<operations, current, op_cond, req, seen, initialized, voice_reqs>>
          /\ reqPc = "top" /\ reqPc' \in {"dead", "asleep"} /\ (reqPc' = "dead" => ~initialized)
      BY <1>5 DEF sendQuit, sendWait, ctlVars, appVars, queues
    <2>2. FrontIs(CurrentId) => FrontIs(CurrentId)'
      BY <2>1 DEF FrontIs, CurrentId
    <2>3. CurrentId' = CurrentId
      BY <2>1 DEF CurrentId
    <2> QED
      BY <2>1, <2>2, <2>3 DEF SenderInv
  <1>6. ASSUME NEW lost \in BOOLEAN, sendDone(lost) PROVE SenderInv'
    <2>1. /\ UNCHANGED <<operations, current, op_cond, req, seen, initialized, voice_reqs>>
          /\ reqPc = "send" /\ reqPc' = "sent"
      BY <1>6 DEF sendDone, ctlVars, appVars, queues
    <2>2. FrontIs(req.id) => FrontIs(req.id)'
      BY <2>1 DEF FrontIs
    <2>3. CurrentId' = CurrentId
      BY <2>1 DEF CurrentId
    <2> QED
      BY <2>1, <2>2, <2>3 DEF SenderInv
  <1>7. CASE sendFails
    <2>1. "SERVICE_UNAVAILABLE" \in Errors
      BY DEF Errors
    <2>2. Drops /\ reqPc' = "failed"
      BY <1>7, <2>1, FailDrops DEF sendFails
    <2> QED
      BY <2>2 DEF Drops, SenderInv
  <1>8. CASE sendErase
    <2>1. current = 0 /\ current' = 0 /\ op_cond' = op_cond /\ reqPc' = "top" /\ ~op_cond
      BY <1>8 DEF sendErase, SenderInv, ctlVars, NextReq
    <2> QED
      BY <2>1 DEF SenderInv
  <1>9. CASE sendRefresh
    <2>1. /\ SameOpIds /\ current' = current /\ op_cond' = op_cond
      <3>1. refresh_op_time(FALSE) /\ OpType(SpeechId, Errors)
        BY <1>9 DEF sendRefresh, Typed
      <3> QED
        BY <3>1, RefreshKeeps
    <2>2. IF current = 0 THEN current' = 0
          ELSE current' # 0 /\ current' = Len(operations') /\ CurrentId' = CurrentId
      BY <2>1, SameCurrent
    <2>3. /\ reqPc = "sent" /\ ~op_cond /\ UNCHANGED <<initialized, voice_reqs>>
          /\ IF req.type \in {"TEXT", "VOICE_END"} THEN reqPc' = "waitOp" /\ req' = req
                                                   ELSE reqPc' = "top"
          /\ seen' = seen \/ seen' = 0
      BY <1>9 DEF sendRefresh, SenderInv, appVars, queues, NextReq
    <2>4. current # 0 => req.id = CurrentId /\ req.type # "CANCELLED"
      BY <2>3 DEF SenderInv
    <2>5. CASE req.type \in {"TEXT", "VOICE_END"}
      BY <2>1, <2>2, <2>3, <2>4, <2>5 DEF SenderInv
    <2>6. CASE req.type \notin {"TEXT", "VOICE_END"}
      <3>1. ASSUME current' # 0, initialized' PROVE FrontIs(CurrentId)'
        <4>1. req.type \in {"VOICE_START", "VOICE_DATA"} /\ CurrentId' = req.id
          BY <2>2, <2>4, <2>6, <3>1 DEF Typed, HandType, ReqType
        <4>2. FrontIs(req.id)
          BY <2>3, <3>1, <4>1 DEF SenderInv
        <4> QED
          BY <2>3, <4>1, <4>2 DEF FrontIs
      <3> QED
        BY <2>1, <2>2, <2>3, <2>6, <3>1 DEF SenderInv
    <2> QED
      BY <2>5, <2>6
  <1>10. CASE sendWaitOp
    <2>1. /\ UNCHANGED <<operations, current, initialized, voice_reqs>> /\ reqPc = "waitOp"
          /\ ~op_cond
      BY <1>10 DEF sendWaitOp, appVars, queues, SenderInv
    <2>2. IsCurrent(req.id) <=> current # 0
      BY <2>1 DEF SenderInv, IsCurrent, CurrentId
    <2>3. CASE current # 0
      <3>1. op_cond' = TRUE /\ reqPc' = "inOp" /\ req' = req /\ seen' = seen
        BY <1>10, <2>2, <2>3 DEF sendWaitOp
      <3>2. CurrentId' = CurrentId
        BY <2>1 DEF CurrentId
      <3> QED
        BY <2>1, <2>3, <3>1, <3>2 DEF SenderInv
    <2>4. CASE current = 0
      <3>1. op_cond' = op_cond /\ reqPc' = "top"
        BY <1>10, <2>2, <2>4 DEF sendWaitOp, NextReq
      <3> QED
        BY <2>1, <2>4, <3>1 DEF SenderInv
    <2> QED
      BY <2>3, <2>4
  <1>11. CASE sendAwake
    <2>1. current = 0 /\ current' = 0 /\ ~op_cond /\ op_cond' = op_cond /\ reqPc' = "top"
      BY <1>11 DEF sendAwake, SenderInv, ctlVars, NextReq
    <2> QED
      BY <2>1 DEF SenderInv
  <1> QED
    BY <1>1, <1>2, <1>5, <1>6, <1>7, <1>8, <1>9, <1>10, <1>11 DEF send_reqs, do_request

(* The sending thread and the current operation agree after every step. *)
LEMMA SenderStep ==
  ASSUME Orderly, IInv, [Next]_vars
  PROVE  SenderInv'
  <1>1. CASE prepare
    <2>1. current = 0 /\ current' = 0 /\ ~op_cond /\ op_cond' = op_cond /\ reqPc' = "top"
      BY <1>1 DEF prepare, IInv, FreshInv, Init, CtlInit, ctlVars
    <2> QED
      BY <2>1 DEF SenderInv
  <1>2. CASE send_reqs
    BY <1>2, SendSender
  <1> QED
    BY <1>1, <1>2, OthersSender

(* An operation without an answer stays as it is, or dies. *)
Dies ==
  /\ SameOpIds
  /\ \A i \in 1 .. Len(operations) :
       operations'[i].status \in {operations[i].status, "CANCELLED", "ERROR"}

(* Operations that do not change. *)
LEMMA SameDies == UNCHANGED operations => Dies
  BY DEF Dies, SameOpIds

(* set_op_error() (op_ctl.h:31-40). *)
LEMMA FailDies ==
  ASSUME Typed, NEW err \in Errors, set_op_error(err)
  PROVE  Dies
  <1>1. OpType(SpeechId, Errors)
    BY DEF Typed
  <1> QED
    BY <1>1, SetErrorKeeps DEF Dies

(* What a step does to the operations, but for an answer, poll() and the   *)
(* end.                                                                    *)
LEMMA DiesStep ==
  ASSUME IInv, [Next]_vars, ~genAnswer, ~pollDead, ~pollItem, initialized'
  PROVE  Dies \/ Adds
  <1> USE DEF IInv
  <1>0. OpType(SpeechId, Errors)
    BY DEF Typed
  <1>1. CASE UNCHANGED ctlVars
    BY <1>1, SameDies DEF ctlVars
  <1>2. CASE UNCHANGED vars
    BY <1>2, SameDies DEF vars
  <1>3. CASE prepare \/ release
    <2>1. ~releaseJoinReq
      BY DEF releaseJoinReq, appVars, LifeInv
    <2> QED
      BY <1>1, <1>3, <2>1 DEF prepare, release, releaseBegin, releaseClose, releaseJoinResp
  <1>4. CASE cancel
    <2>1. CASE cancelOps
      <3>1. PICK id \in cancelling : cancel_op(id)
        BY <2>1 DEF cancelOps
      <3> QED
        BY <1>0, <3>1, CancelKeeps DEF Dies
    <2>2. CASE ~cancelOps
      BY <1>1, <1>4, <2>2 DEF cancel, cancelQueued, cancelOne, cancelAll
    <2> QED
      BY <2>1, <2>2
  <1>5. CASE \/ start_voice \/ \E c \in Callers : textRead(c) \/ textStore(c) \/ textQueue(c)
             \/ \E id \in SpeechId : put_voice(id) \/ end_voice(id) \/ serverAnswers(id)
             \/ \E k \in {"broken", "badData"} : linkError(k)
    BY <1>1, <1>5 DEF start_voice, textRead, textStore, textQueue, put_voice, end_voice,
                      serverAnswers, linkError
  <1>6. CASE poll
    <2>1. UNCHANGED ctlVars
      BY <1>6 DEF poll, pollReleased, pollLook, pollSleep
    <2> QED
      BY <1>1, <2>1
  <1>7. CASE send_reqs
    <2>1. CASE changeStarts
      BY <2>1, NothingSeen DEF changeStarts, Adds, Starts
    <2>2. CASE changeCancels
      <3>1. CASE seen = 0
        BY <2>2, <3>1, NothingSeen DEF changeCancels, Adds, NextReq
      <3>2. CASE seen # 0
        <4>1. /\ operations' = [i \in 1 .. Len(operations) |->
                            IF Hit(seen, i) THEN [operations[i] EXCEPT !.status = "CANCELLED"]
                            ELSE operations[i]]
          BY <2>2, <3>2 DEF changeCancels
        <4>2. ASSUME NEW i \in 1 .. Len(operations)
              PROVE  operations'[i].status \in {operations[i].status, "CANCELLED"}
          <5>1. operations[i] \in Operation(SpeechId, Errors)
            BY <1>0, OpElement
          <5> QED
            BY <4>1, <5>1 DEF Operation, Status
        <4>3. SameOpIds
          BY <2>2, <3>2, HandSettles DEF Settles
        <4> QED
          BY <4>2, <4>3 DEF Dies
      <3> QED
        BY <3>1, <3>2
    <2>3. CASE sendFails
      <3>1. "SERVICE_UNAVAILABLE" \in Errors
        BY DEF Errors
      <3> QED
        BY <2>3, <3>1, FailDies DEF sendFails
    <2>4. CASE sendRefresh
      <3>1. refresh_op_time(FALSE)
        BY <2>4 DEF sendRefresh
      <3> QED
        BY <1>0, <3>1, RefreshKeeps DEF Dies
    <2>5. CASE sendWaitOp
      BY <2>5, SameDies DEF sendWaitOp
    <2>6. CASE \/ sendQuit \/ sendWait \/ sendTake \/ changeContinues \/ sendErase \/ sendAwake
               \/ \E lost \in BOOLEAN : sendDone(lost)
      BY <1>1, <2>6 DEF sendQuit, sendWait, sendTake, changeContinues, sendDone, sendErase,
                        sendAwake
    <2> QED
      BY <1>7, <2>1, <2>2, <2>3, <2>4, <2>5, <2>6 DEF send_reqs, do_ctl_change_op, do_request
  <1>8. CASE gen_results
    <2>2. CASE genStale
      <3>1. refresh_op_time(TRUE)
        BY <2>2 DEF genStale
      <3> QED
        BY <1>0, <3>1, RefreshKeeps DEF Dies
    <2>3. CASE genError
      <3>1. ErrorOf(rx.kind) \in Errors
        BY DEF ErrorOf, Errors
      <3>2. UNCHANGED ctlVars \/ set_op_error(ErrorOf(rx.kind))
        BY <2>3 DEF genError
      <3> QED
        BY <1>1, <3>1, <3>2, FailDies
    <2>4. CASE \/ genTimeout \/ recvPacket \/ recvWait \/ recvTimer \/ recvNothing
               \/ genFinish \/ genErase
      BY <1>1, <2>4 DEF genTimeout, recvPacket, recvWait, recvTimer, recvNothing, genFinish,
                        genErase
    <2> QED
      BY <1>8, <2>2, <2>3, <2>4 DEF gen_results
  <1>9. CASE clock
    BY <1>0, <1>9, GrowsIdleKeeps, GrowsSilentKeeps DEF clock, Dies
  <1> QED
    BY <1>2, <1>3, <1>4, <1>5, <1>6, <1>7, <1>8, <1>9 DEF Next

(* Only poll(), an answer, prepare() and release() touch the streams. *)
LEMMA ResponsesKept ==
  ASSUME [Next]_vars, ~prepare, ~releaseJoinReq, ~pollDead, ~pollItem, ~genAnswer
  PROVE  responses' = responses
  <1>1. CASE UNCHANGED vars
    BY <1>1 DEF vars
  <1>2. CASE prepare \/ release
    BY <1>2 DEF release, releaseBegin, releaseClose, releaseJoinResp
  <1>3. CASE cancel
    BY <1>3 DEF cancel, cancelQueued, cancelOne, cancelAll, cancelOps
  <1>4. CASE \/ start_voice \/ \E c \in Callers : textRead(c) \/ textStore(c) \/ textQueue(c)
             \/ \E id \in SpeechId : put_voice(id) \/ end_voice(id) \/ serverAnswers(id)
    BY <1>4 DEF start_voice, textRead, textStore, textQueue, put_voice, end_voice, serverAnswers
  <1>5. CASE poll
    BY <1>5 DEF poll, pollReleased, pollLook, pollSleep
  <1>6. CASE send_reqs
    BY <1>6 DEF send_reqs, sendQuit, sendWait, sendTake, do_ctl_change_op,
           changeStarts, changeContinues, changeCancels, do_request, sendDone, sendFails,
           sendErase, sendRefresh, sendWaitOp, sendAwake
  <1>7. CASE gen_results
    BY <1>7 DEF gen_results, genTimeout, recvPacket, recvWait, recvTimer, recvNothing,
           genFinish, genStale, genError, genErase
  <1>8. CASE clock \/ \E k \in {"broken", "badData"} : linkError(k)
    BY <1>8 DEF clock, linkError
  <1> QED
    BY <1>1, <1>2, <1>3, <1>4, <1>5, <1>6, <1>7, <1>8 DEF Next

(* Ids of streams are numbers. *)
LEMMA ResponseElement ==
  ASSUME Typed
  PROVE  /\ Len(responses) \in Nat
         /\ \A k \in 1 .. Len(responses) : responses[k].id \in Nat
  <1>1. QueueType
    BY DEF Typed
  <1>2. Len(responses) \in Nat
    BY <1>1, SeqElement DEF QueueType
  <1> QED
    BY <1>1, <1>2, QueueElement, IdsAreNat

(* An operation dies: its stream is left for poll() to remove. *)
LEMMA DiesStreams ==
  ASSUME Typed, ResponseOrder, StreamInv, Dies, responses' = responses
  PROVE  ResponseOrder' /\ StreamInv'
  <1>1. ResponseOrder'
    BY DEF ResponseOrder, Dies, SameOpIds
  <1>2. ASSUME NEW i \in 1 .. Len(operations')
        PROVE  /\ operations'[i].status = "START" => ~HasStream(responses', operations'[i].id)
               /\ operations'[i].status \in {"STREAMING", "END"} =>
                    HasStream(responses', operations'[i].id)
               /\ operations'[i].status = "STREAMING" =>
                    \A k \in 1 .. Len(responses') :
                      responses'[k].id = operations'[i].id => responses'[k].type = "uncompleted"
    <2>1. /\ i \in 1 .. Len(operations) /\ operations'[i].id = operations[i].id
          /\ operations'[i].status \in {operations[i].status, "CANCELLED", "ERROR"}
      BY DEF Dies, SameOpIds
    <2> QED
      BY <2>1 DEF StreamInv
  <1> QED
    BY <1>1, <1>2 DEF StreamInv, HasStream

(* A new operation has no stream. *)
LEMMA AddStreams ==
  ASSUME IInv, initialized, Adds, responses' = responses
  PROVE  ResponseOrder' /\ StreamInv'
  <1> USE DEF IInv
  <1> DEFINE n == Len(operations) + 1
  <1>1. /\ n \in Nat /\ Len(operations') = n /\ Len(operations) \in Nat
        /\ \A i \in 1 .. Len(operations) : operations'[i] = operations[i]
        /\ operations'[n].id = req.id
        /\ \/ operations'[n].status = "START" /\ req.type \in Starts
           \/ operations'[n].status = "CANCELLED"
        /\ reqPc = "change"
    BY AddKeeps, OperationElement DEF Adds
  <1>2. req.type \in Starts => ~HasStream(responses, req.id)
    <2> SUFFICES ASSUME req.type \in Starts, NEW k \in 1 .. Len(responses), responses[k].id = req.id
                 PROVE  FALSE
      BY DEF HasStream
    <2>1. PICK m \in 1 .. Len(operations) : operations[m].id = req.id
      BY DEF ResponseOrder
    <2>2. operations[m].id < req.id /\ req.id \in Nat
      BY <1>1, <2>1, IdsAreNat DEF OpOrder, Behind, Typed, HandType
    <2> QED
      BY <2>1, <2>2
  <1>3. ResponseOrder'
    <2>1. ASSUME NEW i \in 1 .. Len(responses)
          PROVE  \E k \in 1 .. Len(operations') : operations'[k].id = responses[i].id
      <3>1. PICK k \in 1 .. Len(operations) : operations[k].id = responses[i].id
        BY DEF ResponseOrder
      <3>2. k \in 1 .. Len(operations')
        BY <1>1
      <3> QED
        BY <1>1, <3>1, <3>2
    <2> QED
      BY <2>1 DEF ResponseOrder
  <1>4. ASSUME NEW i \in 1 .. Len(operations')
        PROVE  /\ operations'[i].status = "START" => ~HasStream(responses', operations'[i].id)
               /\ operations'[i].status \in {"STREAMING", "END"} =>
                    HasStream(responses', operations'[i].id)
               /\ operations'[i].status = "STREAMING" =>
                    \A k \in 1 .. Len(responses') :
                      responses'[k].id = operations'[i].id => responses'[k].type = "uncompleted"
    <2>1. CASE i = n
      BY <1>1, <1>2, <2>1
    <2>2. CASE i # n
      <3>1. i \in 1 .. Len(operations)
        BY <1>1, <2>2
      <3> QED
        BY <1>1, <3>1 DEF StreamInv
    <2> QED
      BY <2>1, <2>2
  <1> QED
    BY <1>3, <1>4 DEF StreamInv, HasStream

(* The front operation leaves, with its stream when it has one (z = 1). *)
LEMMA LeaveStreams ==
  ASSUME Typed, OpOrder, ResponseOrder, StreamInv, Removes, NEW z \in {0, 1},
         IF z = 1 THEN responses # <<>> /\ responses[1].id = operations[1].id
                  ELSE ~HasStream(responses, operations[1].id),
         Len(responses') = Len(responses) - z,
         \A i \in 1 .. Len(responses') :
           responses'[i].id = responses[i + z].id /\ responses'[i].type = responses[i + z].type
  PROVE  ResponseOrder' /\ StreamInv'
  <1>1. /\ Len(operations) \in Nat \ {0} /\ Len(operations') = Len(operations) - 1
        /\ \A i \in 1 .. Len(operations') :
             operations'[i] = operations[i + 1] /\ i + 1 \in 1 .. Len(operations)
        /\ 1 \in 1 .. Len(operations)
    BY RemoveKeeps
  <1>2. /\ Len(responses) \in Nat
        /\ \A k \in 1 .. Len(responses) : responses[k].id \in Nat
    BY ResponseElement
  <1>3. \A i \in 1 .. Len(responses') : i + z \in 1 .. Len(responses)
    BY <1>2
  <1>4. ASSUME NEW i \in 1 .. Len(responses')
        PROVE  responses'[i].id # operations[1].id
    <2>1. CASE z = 0
      BY <1>3, <2>1 DEF HasStream
    <2>2. CASE z = 1
      <3>1. i + 1 \in 1 .. Len(responses) /\ 1 \in 1 .. (i + 1) - 1 /\ 1 \in 1 .. Len(responses)
        BY <1>2, <1>3, <2>2
      <3>2. responses[1].id < responses[i + 1].id
        BY <3>1 DEF ResponseOrder
      <3> QED
        BY <1>2, <2>2, <3>1, <3>2
    <2> QED
      BY <2>1, <2>2
  <1>5. ASSUME NEW i \in 1 .. Len(responses')
        PROVE  /\ \A j \in 1 .. i - 1 : responses'[j].id < responses'[i].id
               /\ \E k \in 1 .. Len(operations') : operations'[k].id = responses'[i].id
    <2>1. i + z \in 1 .. Len(responses) /\ responses'[i].id = responses[i + z].id
      BY <1>3
    <2>2. ASSUME NEW j \in 1 .. i - 1 PROVE responses'[j].id < responses'[i].id
      <3>1. j \in 1 .. Len(responses') /\ j + z \in 1 .. (i + z) - 1
        BY <1>2
      <3>2. responses'[j].id = responses[j + z].id
        BY <3>1
      <3> QED
        BY <2>1, <3>1, <3>2 DEF ResponseOrder
    <2>3. PICK k \in 1 .. Len(operations) : operations[k].id = responses[i + z].id
      BY <2>1 DEF ResponseOrder
    <2>4. k # 1
      BY <1>4, <2>1, <2>3
    <2>5. k - 1 \in 1 .. Len(operations') /\ (k - 1) + 1 = k
      BY <1>1, <2>4
    <2>6. operations'[k - 1].id = responses'[i].id
      BY <1>1, <2>1, <2>3, <2>5
    <2> QED
      BY <2>2, <2>5, <2>6
  <1>6. ASSUME NEW i \in 1 .. Len(operations')
        PROVE  /\ operations'[i].status = "START" => ~HasStream(responses', operations'[i].id)
               /\ operations'[i].status \in {"STREAMING", "END"} =>
                    HasStream(responses', operations'[i].id)
               /\ operations'[i].status = "STREAMING" =>
                    \A k \in 1 .. Len(responses') :
                      responses'[k].id = operations'[i].id => responses'[k].type = "uncompleted"
    <2> DEFINE op == operations[i + 1]
    <2>1. operations'[i] = op /\ i + 1 \in 1 .. Len(operations)
      BY <1>1
    <2>2. HasStream(responses', op.id) => HasStream(responses, op.id)
      BY <1>3 DEF HasStream
    <2>3. ASSUME op.status # "CANCELLED", HasStream(responses, op.id)
          PROVE  HasStream(responses', op.id)
      <3>1. PICK k \in 1 .. Len(responses) : responses[k].id = op.id
        BY <2>3 DEF HasStream
      <3>2. operations[1].id # op.id
        <4>1. 1 \in 1 .. (i + 1) - 1
          BY <1>1
        <4> QED
          BY <2>1, <2>3, <4>1 DEF OpOrder
      <3>3. z = 1 => k # 1
        BY <3>1, <3>2
      <3>4. k - z \in 1 .. Len(responses') /\ (k - z) + z = k
        BY <1>2, <3>3
      <3>5. responses'[k - z].id = op.id
        BY <3>1, <3>4
      <3> QED
        BY <3>4, <3>5 DEF HasStream
    <2>4. ASSUME op.status = "STREAMING", NEW k \in 1 .. Len(responses'), responses'[k].id = op.id
          PROVE  responses'[k].type = "uncompleted"
      <3>1. /\ k + z \in 1 .. Len(responses) /\ responses[k + z].id = op.id
            /\ responses'[k].type = responses[k + z].type
        BY <1>3, <2>4
      <3> QED
        BY <2>1, <2>4, <3>1 DEF StreamInv
    <2>5. /\ op.status = "START" => ~HasStream(responses, op.id)
          /\ op.status \in {"STREAMING", "END"} => HasStream(responses, op.id)
      BY <2>1 DEF StreamInv
    <2> HIDE DEF op
    <2> QED
      BY <2>1, <2>2, <2>3, <2>4, <2>5
  <1>7. ResponseOrder'
    BY <1>5 DEF ResponseOrder
  <1>8. StreamInv'
    BY <1>6 DEF StreamInv, HasStream
  <1> QED
    BY <1>7, <1>8

(* poll() removes a dead operation and what it has in responses_. *)
LEMMA DeadStreams ==
  ASSUME IInv, pollDead
  PROVE  ResponseOrder' /\ StreamInv'
  <1> USE DEF IInv
  <1>1. Removes /\ initialized /\ operations # <<>>
    BY DeadRemoves DEF pollDead
  <1> DEFINE id == operations[1].id
             e == Erase(responses, id, 0)
  <1>2. responses' = IF HasStream(responses, id) THEN PopRest(e) ELSE responses
    BY DEF pollDead, DeadRest
  <1>3. responses \in Seq(Result)
    BY DEF Typed, QueueType
  <1>4. CASE ~HasStream(responses, id)
    <2>1. Len(responses') = Len(responses) - 0 /\ Len(responses) \in Nat /\ responses' = responses
      BY <1>2, <1>4, ResponseElement
    <2>2. \A i \in 1 .. Len(responses') :
            responses'[i].id = responses[i + 0].id /\ responses'[i].type = responses[i + 0].type
      BY <2>1
    <2> QED
      BY <1>1, <1>4, <2>1, <2>2, LeaveStreams
  <1>5. CASE HasStream(responses, id)
    <2>1. responses # <<>> /\ responses[1].id = id
      BY <1>1, <1>5, FrontStream
    <2>2. /\ e \in Seq(Result) /\ SameIds(responses, e)
          /\ \A i \in 1 .. Len(responses) :
               IF responses[i].id = id THEN e[i].type \in {"deleted", "error"}
                                       ELSE e[i] = responses[i]
      BY <1>3, EraseKeeps DEF Result
    <2>3. 1 \in 1 .. Len(responses) /\ Len(responses) \in Nat
      BY <1>3, <2>1, SeqTail
    <2>4. e[1].type = "deleted"
      BY <1>3, <2>1, <2>3, EraseLeaves DEF Result
    <2> HIDE DEF e
    <2>5. Len(e) = Len(responses) /\ e # <<>>
      BY <2>2, <2>3, EmptySeq DEF SameIds
    <2>6. PopType(e) = "REMOVED"
      BY <2>4, <2>5 DEF PopType, FrontType
    <2>7. responses' = Tail(e)
      BY <1>2, <1>5, <2>6 DEF PopRest
    <2>8. /\ Len(responses') = Len(responses) - 1
          /\ \A i \in 1 .. Len(responses) - 1 : responses'[i] = e[i + 1]
      BY <2>2, <2>5, <2>7, SeqTail
    <2>9. ASSUME NEW i \in 1 .. Len(responses')
          PROVE  /\ responses'[i].id = responses[i + 1].id
                 /\ responses'[i].type = responses[i + 1].type
      <3>1. i + 1 \in 1 .. Len(responses) /\ 1 \in 1 .. (i + 1) - 1 /\ responses'[i] = e[i + 1]
        BY <2>3, <2>8
      <3>2. responses[1].id < responses[i + 1].id
        BY <1>1, <3>1 DEF ResponseOrder
      <3>3. responses[i + 1].id # id
        BY <2>1, <2>3, <3>1, <3>2, ResponseElement
      <3> QED
        BY <2>2, <3>1, <3>3
    <2> HIDE DEF id
    <2> QED
      BY <1>1, <2>1, <2>8, <2>9, LeaveStreams DEF id
  <1> QED
    BY <1>4, <1>5

(* poll() takes the next item of the front stream. *)
LEMMA ItemStreams ==
  ASSUME IInv, pollItem
  PROVE  ResponseOrder' /\ StreamInv'
  <1> USE DEF IInv
  <1>1. /\ initialized /\ operations # <<>> /\ ~Dead(operations[1])
        /\ PopType(responses) # "EMPTY" /\ responses' = PopRest(responses)
    BY DEF pollItem
  <1>2. responses # <<>> /\ responses[1].id = operations[1].id
    BY <1>1, FrontItem
  <1>3. responses \in Seq(Result)
    BY DEF Typed, QueueType
  <1>4. /\ PopType(responses) \in {"EMPTY", "START", "DATA"} =>
             /\ SameIds(responses, responses')
             /\ \A i \in 1 .. Len(responses) : responses'[i].type = responses[i].type
        /\ PopType(responses) \in {"END", "REMOVED", "ERROR"} => responses' = Tail(responses)
    BY <1>1, <1>3, PopRestKeeps DEF Result
  <1>5. CASE Label(PopItem(responses)) \in Terminal
    <2>1. Removes /\ responses' = Tail(responses)
      BY <1>4, <1>5, ItemRemoves
    <2>2. /\ Len(responses') = Len(responses) - 1
          /\ \A i \in 1 .. Len(responses) - 1 : responses'[i] = responses[i + 1]
      BY <1>2, <1>3, <2>1, SeqTail
    <2> QED
      BY <1>1, <1>2, <2>1, <2>2, LeaveStreams
  <1>6. CASE Label(PopItem(responses)) \notin Terminal
    <2>1. UNCHANGED operations /\ PopType(responses) \in {"START", "DATA"}
      BY <1>6, ItemRemoves DEF ctlVars
    <2>2. /\ Len(responses') = Len(responses)
          /\ \A i \in 1 .. Len(responses) :
               responses'[i].id = responses[i].id /\ responses'[i].type = responses[i].type
      BY <1>4, <2>1 DEF SameIds
    <2>3. Len(responses) \in Nat
      BY ResponseElement
    <2>4. ResponseOrder'
      BY <1>1, <2>1, <2>2, <2>3 DEF ResponseOrder
    <2>5. \A id : HasStream(responses, id) <=> HasStream(responses', id)
      BY <2>2 DEF HasStream
    <2>6. StreamInv'
      BY <1>1, <2>1, <2>2, <2>5 DEF StreamInv, HasStream
    <2> QED
      BY <2>4, <2>6
  <1> QED
    BY <1>5, <1>6

(* The first response to an operation opens its stream, at the end; the    *)
(* last one completes it or fails it.                                      *)
LEMMA AnswerStreams ==
  ASSUME IInv, initialized, genAnswer
  PROVE  ResponseOrder' /\ StreamInv'
  <1> USE DEF IInv
  <1>1. /\ SameOpIds /\ current \in 1 .. Len(operations) /\ rx.id = CurrentId
        /\ \A i \in 1 .. Len(operations) : i # current => operations'[i] = operations[i]
        /\ operations'[current].status = IF Last(rx) THEN "END" ELSE "STREAMING"
    BY AnswerKeeps DEF CurrentId
  <1> DEFINE st == operations[current].status
             started == IF st = "START" THEN Start(responses, rx.id) ELSE responses
  <1>2. /\ started \in Seq(Result) /\ SameIds(started, responses')
        /\ ~Last(rx) => \A i \in 1 .. Len(started) : responses'[i].type = started[i].type
        /\ \A i \in 1 .. Len(started) :
             started[i].id # rx.id => responses'[i].type = started[i].type
    BY StreamedKeeps
  <1>3. /\ responses \in Seq(Result) /\ rx.id \in SpeechId /\ rx.id \in Nat
        /\ Len(responses) \in Nat
    BY <1>1, OperationElement, ResponseElement DEF Typed, QueueType, CurrentId
  <1>4. st \in {"START", "STREAMING"} /\ current = Len(operations)
    <2>1. current # 0
      BY <1>1
    <2> QED
      BY <1>1, <2>1 DEF OneInFlight, SenderInv
  <1>5. st = "START" => /\ ~HasStream(responses, rx.id)
                        /\ started = Append(responses, NewStream(rx.id))
    <2> SUFFICES ASSUME st = "START"
                 PROVE  /\ ~HasStream(responses, rx.id)
                        /\ started = Append(responses, NewStream(rx.id))
      OBVIOUS
    <2>1. ~HasStream(responses, rx.id)
      BY <1>1 DEF StreamInv, CurrentId
    <2> QED
      BY <2>1 DEF Start
  <1>6. st = "START" =>
          /\ Len(started) = Len(responses) + 1
          /\ \A i \in 1 .. Len(responses) : started[i] = responses[i]
          /\ started[Len(responses) + 1].id = rx.id
          /\ started[Len(responses) + 1].type = "uncompleted"
    <2>1. NewStream(rx.id).id = rx.id /\ NewStream(rx.id).type = "uncompleted"
      BY DEF NewStream
    <2>2. NewStream(rx.id) \in Result
      <3>1. <<>> \in Seq(Part)
        OBVIOUS
      <3> QED
        BY <1>3, <3>1 DEF NewStream, Result, Stream, TagType
    <2> DEFINE v == NewStream(rx.id)
    <2> HIDE DEF v
    <2>3. /\ Len(Append(responses, v)) = Len(responses) + 1
          /\ Append(responses, v)[Len(responses) + 1] = v
          /\ \A i \in 1 .. Len(responses) : Append(responses, v)[i] = responses[i]
      BY <1>3, <2>2, SeqAppend DEF v
    <2> QED
      BY <1>5, <2>1, <2>3 DEF v
  <1>7. st # "START" => started = responses /\ HasStream(responses, rx.id)
    BY <1>1, <1>4 DEF StreamInv, CurrentId
  <1> HIDE DEF started
  <1>8. /\ Len(responses') = Len(started)
        /\ \A i \in 1 .. Len(started) : responses'[i].id = started[i].id
    BY <1>2 DEF SameIds
  <1>9. ASSUME NEW i \in 1 .. Len(responses')
        PROVE  /\ \A j \in 1 .. i - 1 : responses'[j].id < responses'[i].id
               /\ \E k \in 1 .. Len(operations') : operations'[k].id = responses'[i].id
    <2>0. Len(operations') = Len(operations)
          /\ \A k \in 1 .. Len(operations) : operations'[k].id = operations[k].id
      BY <1>1 DEF SameOpIds
    <2>1. CASE i \in 1 .. Len(responses)
      <3>1. \A j \in 1 .. i : j \in 1 .. Len(responses) /\ responses'[j].id = responses[j].id
        <4>1. ASSUME NEW j \in 1 .. i PROVE responses'[j].id = responses[j].id
          BY <1>3, <1>4, <1>6, <1>7, <1>8, <2>1
        <4> QED
          BY <1>3, <2>1, <4>1
      <3>2. i \in 1 .. i /\ \A j \in 1 .. i - 1 : j \in 1 .. i
        BY <1>3, <2>1
      <3> QED
        BY <2>0, <2>1, <3>1, <3>2 DEF ResponseOrder
    <2>2. CASE i \notin 1 .. Len(responses)
      <3>1. st = "START" /\ i = Len(responses) + 1 /\ responses'[i].id = rx.id
        BY <1>3, <1>4, <1>6, <1>7, <1>8, <2>2
      <3>2. ASSUME NEW j \in 1 .. i - 1 PROVE responses'[j].id < responses'[i].id
        <4>1. j \in 1 .. Len(responses) /\ responses'[j].id = responses[j].id
          BY <1>3, <1>6, <1>8, <3>1
        <4>2. responses[j].id # rx.id
          BY <1>5, <3>1, <4>1 DEF HasStream
        <4>3. PICK k \in 1 .. Len(operations) : operations[k].id = responses[j].id
          BY <4>1 DEF ResponseOrder
        <4>4. operations[k].id <= CurrentId
          <5>1. CASE k = current
            BY <1>1, <1>3, <5>1 DEF CurrentId
          <5>2. CASE k # current
            <6>1. k \in 1 .. current - 1
              BY <1>1, <1>4, <5>2, OperationElement
            <6> QED
              BY <1>1, <6>1 DEF OpOrder, CurrentId
          <5> QED
            BY <5>1, <5>2
        <4>5. responses[j].id \in Nat
          BY <4>1, ResponseElement
        <4> QED
          BY <1>1, <1>3, <3>1, <4>1, <4>2, <4>3, <4>4, <4>5
      <3> QED
        BY <1>1, <2>0, <3>1, <3>2 DEF CurrentId
    <2> QED
      BY <2>1, <2>2
  <1>10. HasStream(responses', rx.id)
    <2>1. CASE st = "START"
      <3>1. Len(responses) + 1 \in 1 .. Len(responses') /\ responses'[Len(responses) + 1].id = rx.id
        BY <1>3, <1>6, <1>8, <2>1
      <3> QED
        BY <3>1 DEF HasStream
    <2>2. CASE st # "START"
      BY <1>7, <1>8, <2>2 DEF HasStream
    <2> QED
      BY <2>1, <2>2
  <1>11. ASSUME NEW i \in 1 .. Len(operations')
         PROVE  /\ operations'[i].status = "START" => ~HasStream(responses', operations'[i].id)
                /\ operations'[i].status \in {"STREAMING", "END"} =>
                     HasStream(responses', operations'[i].id)
                /\ operations'[i].status = "STREAMING" =>
                     \A k \in 1 .. Len(responses') :
                       responses'[k].id = operations'[i].id => responses'[k].type = "uncompleted"
    <2>1. CASE i = current
      <3>1. /\ operations'[i].id = rx.id
            /\ operations'[i].status = IF Last(rx) THEN "END" ELSE "STREAMING"
        BY <1>1, <2>1 DEF SameOpIds, CurrentId
      <3>2. ASSUME ~Last(rx), NEW k \in 1 .. Len(responses'), responses'[k].id = rx.id
            PROVE  responses'[k].type = "uncompleted"
        <4>1. /\ responses'[k].type = started[k].type /\ started[k].id = rx.id
              /\ k \in 1 .. Len(started)
          BY <1>2, <1>8, <3>2
        <4>2. CASE st = "START"
          <5>1. k \notin 1 .. Len(responses)
            BY <1>5, <1>6, <4>1, <4>2 DEF HasStream
          <5>2. k = Len(responses) + 1
            BY <1>3, <1>6, <4>1, <4>2, <5>1
          <5> QED
            BY <1>6, <4>1, <4>2, <5>2
        <4>3. CASE st = "STREAMING"
          <5>1. k \in 1 .. Len(responses) /\ started = responses
            BY <1>7, <4>1, <4>3
          <5>2. responses[k].type = "uncompleted"
            BY <1>1, <4>1, <4>3, <5>1 DEF StreamInv, CurrentId
          <5> QED
            BY <4>1, <5>1, <5>2
        <4> QED
          BY <1>4, <4>2, <4>3
      <3> QED
        BY <1>10, <3>1, <3>2
    <2>2. CASE i # current
      <3>1. i \in 1 .. Len(operations) /\ operations'[i] = operations[i]
        BY <1>1, <2>2 DEF SameOpIds
      <3>2. operations[i].status \notin {"START", "STREAMING"}
        BY <2>2, <3>1 DEF OneInFlight
      <3>3. HasStream(responses, operations[i].id) => HasStream(responses', operations[i].id)
        <4> SUFFICES ASSUME NEW k \in 1 .. Len(responses), responses[k].id = operations[i].id
                     PROVE  HasStream(responses', operations[i].id)
          BY DEF HasStream
        <4>1. k \in 1 .. Len(responses') /\ responses'[k].id = responses[k].id
          BY <1>3, <1>4, <1>6, <1>7, <1>8
        <4> QED
          BY <4>1 DEF HasStream
      <3> QED
        BY <3>1, <3>2, <3>3 DEF StreamInv
    <2> QED
      BY <2>1, <2>2
  <1>12. ResponseOrder'
    BY <1>9 DEF ResponseOrder
  <1>13. StreamInv'
    BY <1>11 DEF StreamInv, HasStream
  <1> QED
    BY <1>12, <1>13

(* The streams of results follow the operations. *)
LEMMA StreamStep ==
  ASSUME IInv, [Next]_vars, initialized'
  PROVE  ResponseOrder' /\ StreamInv'
  <1>1. CASE prepare
    <2>1. responses' = <<>> /\ operations' = <<>>
      BY <1>1 DEF prepare, IInv, FreshInv, Init, CtlInit, ctlVars
    <2> QED
      BY <2>1, EmptySeq DEF ResponseOrder, StreamInv
  <1>2. CASE genAnswer
    <2>1. initialized
      BY <1>2 DEF genAnswer, appVars
    <2> QED
      BY <1>2, <2>1, AnswerStreams
  <1>3. CASE pollDead \/ pollItem
    BY <1>3, DeadStreams, ItemStreams
  <1>4. CASE ~prepare /\ ~genAnswer /\ ~pollDead /\ ~pollItem
    <2>1. initialized
      BY <1>4, ReadyStep
    <2>2. ~releaseJoinReq
      BY <2>1 DEF releaseJoinReq, IInv, LifeInv
    <2>3. responses' = responses
      BY <1>4, <2>2, ResponsesKept
    <2>4. Dies \/ Adds
      BY <1>4, DiesStep
    <2> QED
      BY <2>1, <2>3, <2>4, DiesStreams, AddStreams DEF IInv
  <1> QED
    BY <1>1, <1>2, <1>3, <1>4

(* Nothing has happened at the start. *)
LEMMA InitInv == Init => IInv
  <1> SUFFICES ASSUME Init PROVE IInv
    OBVIOUS
  <1>1. Typed
    BY InitType
  <1>2. /\ operations = <<>> /\ current = 0 /\ ~op_cond /\ text_reqs = <<>> /\ voice_reqs = <<>>
        /\ entering = {} /\ reqPc = "dead" /\ ~initialized /\ responses = <<>> /\ seen = 0
    BY DEF Init, CtlInit
  <1>3. FreshInv /\ KindInv /\ LifeInv /\ SenderInv
    BY <1>2 DEF FreshInv, KindInv, LifeInv, SenderInv
  <1>4. OneInFlight /\ QueueInv /\ OpOrder
    BY <1>2, EmptySeq DEF OneInFlight, QueueInv, OpOrder
  <1> QED
    BY <1>1, <1>2, <1>3, <1>4 DEF IInv

(* Every step keeps the invariant. *)
LEMMA NextInv ==
  ASSUME Orderly, IInv, [Next]_vars
  PROVE  IInv'
  <1>1. Typed' /\ FreshInv' /\ KindInv' /\ LifeInv'
    BY NextType, FreshStep, KindStep, LifeStep DEF IInv
  <1>2. SenderInv' /\ OneInFlight' /\ OpOrder'
    BY SenderStep, FlightStep, OrderStep
  <1>3. QueueInv'
    BY QueueStep DEF IInv
  <1>4. initialized' => ResponseOrder' /\ StreamInv'
    BY StreamStep
  <1> QED
    BY <1>1, <1>2, <1>3, <1>4 DEF IInv

(* With requests of one kind the library keeps the invariant: queues,      *)
(* operations and streams of results are in the order of the ids, the      *)
(* operation at work is the last one, and it is the one of the request     *)
(* the sending thread has in hand (speech_impl.cc:373-440, op_ctl.h).      *)
THEOREM Invariance ==
  ASSUME Orderly PROVE Spec => []IInv
  <1>1. Init => IInv
    BY InitInv
  <1>2. IInv /\ [Next]_vars => IInv'
    BY NextInv
  <1> QED
    BY <1>1, <1>2, PTL DEF Spec

(* The sending thread never starts a request while another is unfinished   *)
(* (op_ctl.h:59-66, speech_impl.cc:392-398): a voice is followed by its    *)
(* own rest, and the thread waits after its END.                           *)
THEOREM OneAtATime ==
  ASSUME Orderly PROVE Spec => []OneInFlight
  <1>1. IInv => OneInFlight
    BY DEF IInv
  <1> QED
    BY <1>1, Invariance, PTL

(* do_ctl_change_op() asserts that a request starts with no operation at   *)
(* work, and hands the rest of a voice, or its cancel, to the operation    *)
(* at work without a look at its id (speech_impl.cc:416,420-431): with     *)
(* requests of one kind both are right.                                    *)
THEOREM NoneIsMixed ==
  ASSUME Orderly PROVE Spec => [](StartsAlone /\ OwnOperation)
  <1>1. IInv => StartsAlone /\ OwnOperation
    BY DEF IInv, SenderInv, StartsAlone, OwnOperation, Starts
  <1> QED
    BY <1>1, Invariance, PTL

(* The asserts of poll() (speech_impl.cc:287,300,313) never fail: the      *)
(* streams are in the order of the operations, and each belongs to one.    *)
THEOREM PollNeverAsserts ==
  ASSUME Orderly PROVE Spec => []PollAsserts
  <1>1. IInv => PollAsserts
    <2> SUFFICES ASSUME IInv, initialized, operations # <<>>
                 PROVE  LET mine == responses # <<>> /\ responses[1].id = operations[1].id IN
                        IF Dead(operations[1]) THEN HasStream(responses, operations[1].id) => mine
                        ELSE PopType(responses) # "EMPTY" => mine
      BY DEF PollAsserts
    <2>1. /\ Typed /\ OneInFlight /\ SenderInv /\ OpOrder /\ ResponseOrder /\ StreamInv
      BY DEF IInv
    <2>2. CASE Dead(operations[1])
      BY <2>1, <2>2, FrontStream
    <2>3. CASE ~Dead(operations[1])
      BY <2>1, <2>3, FrontItem
    <2> QED
      BY <2>2, <2>3
  <1> QED
    BY <1>1, Invariance, PTL

(* Where a voice of the queue comes from, and what became of it. *)
Voiced(k, m) ==
  /\ voice_reqs'[k].id = voice_reqs[m].id
  /\ voice_reqs[m].polling => voice_reqs'[k].polling
  /\ \/ voice_reqs'[k].type \in {voice_reqs[m].type, "completed"}
     \/ voice_reqs'[k].type = "deleted" /\ MayCancel(voice_reqs[m].id)
     \/ /\ voice_reqs'[k].type = "error"
        /\ \/ reqPc = "failed" /\ voice_reqs[m].id = req.id
           \/ respPc \in {"finish", "erase"} /\ voice_reqs[m].id = rx.id

(* Every voice of the queue was there before the step, or is new. *)
VoiceMoves ==
  \A k \in 1 .. Len(voice_reqs') :
    voice_reqs'[k].type = "uncompleted" \/ \E m \in 1 .. Len(voice_reqs) : Voiced(k, m)

(* A step that leaves the voices. *)
LEMMA SameVoiced == UNCHANGED voice_reqs => VoiceMoves
  BY DEF VoiceMoves, Voiced

(* erase() of cancel() and of erase_req() (speech_impl.cc:210-214,         *)
(* 238-243).                                                               *)
LEMMA ErasedVoiced ==
  ASSUME Typed, NEW id, NEW e \in {0, SPEECH_TIMEOUT}, voice_reqs' = Erase(voice_reqs, id, e),
         e = 0 => MayCancel(id),
         e # 0 => \/ reqPc = "failed" /\ id = req.id
                  \/ respPc \in {"finish", "erase"} /\ id = rx.id
  PROVE  VoiceMoves
  <1>1. voice_reqs \in Seq(Stream(SpeechId, Packets, {SPEECH_TIMEOUT}))
    BY DEF Typed, QueueType, Voice
  <1>2. SameIds(voice_reqs, voice_reqs')
    BY <1>1, EraseKeeps
  <1>3. ASSUME NEW k \in 1 .. Len(voice_reqs) PROVE Voiced(k, k)
    <2>1. /\ voice_reqs'[k].polling = voice_reqs[k].polling
          /\ voice_reqs'[k].type = IF voice_reqs[k].id # id THEN voice_reqs[k].type
                                   ELSE IF e = 0 THEN "deleted" ELSE "error"
      BY <1>1, EraseLeaves
    <2>2. voice_reqs'[k].id = voice_reqs[k].id
      BY <1>2 DEF SameIds
    <2> QED
      BY <2>1, <2>2 DEF Voiced
  <1> QED
    BY <1>2, <1>3 DEF VoiceMoves, SameIds

(* clear() of cancel(0) (speech_impl.cc:224-233). *)
LEMMA ClearedVoiced ==
  ASSUME Typed, voice_reqs' = Clear(voice_reqs), 0 \in Cancels
  PROVE  VoiceMoves
  <1>1. voice_reqs \in Seq(Stream(SpeechId, Packets, {SPEECH_TIMEOUT}))
    BY DEF Typed, QueueType, Voice
  <1>2. /\ SameIds(voice_reqs, voice_reqs')
        /\ \A k \in 1 .. Len(voice_reqs) : /\ voice_reqs'[k].polling = voice_reqs[k].polling
                                           /\ voice_reqs'[k].type = "deleted"
    BY <1>1, ClearKeeps
  <1>3. \A id : MayCancel(id)
    BY DEF MayCancel
  <1> QED
    BY <1>2, <1>3 DEF VoiceMoves, SameIds, Voiced

(* pop() of send_reqs() (speech_impl.cc:373-383). *)
LEMMA PoppedVoiced ==
  ASSUME Typed, voice_reqs' = PopRest(voice_reqs)
  PROVE  VoiceMoves
  <1>1. voice_reqs \in Seq(Stream(SpeechId, Packets, {SPEECH_TIMEOUT}))
    BY DEF Typed, QueueType, Voice
  <1>2. /\ PopType(voice_reqs) \in {"EMPTY", "START", "DATA"} =>
             /\ SameIds(voice_reqs, voice_reqs')
             /\ \A i \in 1 .. Len(voice_reqs) : voice_reqs'[i].type = voice_reqs[i].type
        /\ PopType(voice_reqs) \in {"END", "REMOVED", "ERROR"} =>
             voice_reqs # <<>> /\ voice_reqs' = Tail(voice_reqs)
        /\ PopType(voice_reqs) \in {"EMPTY", "START", "DATA", "END", "REMOVED", "ERROR"}
    BY <1>1, PopRestKeeps
  <1>3. CASE PopType(voice_reqs) = "EMPTY"
    BY <1>3, SameVoiced DEF PopRest
  <1>4. CASE PopType(voice_reqs) \in {"START", "DATA"}
    <2>1. /\ \A i \in 1 .. Len(voice_reqs) : i # 1 => voice_reqs'[i] = voice_reqs[i]
          /\ voice_reqs'[1].polling
      BY <1>1, <1>4, PopFront
    <2>2. ASSUME NEW k \in 1 .. Len(voice_reqs) PROVE Voiced(k, k)
      BY <1>2, <1>4, <2>1 DEF Voiced, SameIds
    <2> QED
      BY <1>2, <1>4, <2>2 DEF VoiceMoves, SameIds
  <1>5. CASE PopType(voice_reqs) \in {"END", "REMOVED", "ERROR"}
    <2>1. /\ Len(voice_reqs) \in Nat \ {0} /\ Len(voice_reqs') = Len(voice_reqs) - 1
          /\ \A i \in 1 .. Len(voice_reqs) - 1 : voice_reqs'[i] = voice_reqs[i + 1]
      BY <1>1, <1>2, <1>5, SeqTail
    <2>2. ASSUME NEW k \in 1 .. Len(voice_reqs')
          PROVE  k + 1 \in 1 .. Len(voice_reqs) /\ Voiced(k, k + 1)
      BY <2>1 DEF Voiced
    <2> QED
      BY <2>2 DEF VoiceMoves
  <1> QED
    BY <1>2, <1>3, <1>4, <1>5

(* A voice is deleted by cancel() only, and fails in erase_req() only. *)
LEMMA VoiceStep ==
  ASSUME Typed, FreshInv, [Next]_vars
  PROVE  VoiceMoves
  <1>0. voice_reqs \in Seq(Stream(SpeechId, Packets, {SPEECH_TIMEOUT}))
    BY DEF Typed, QueueType, Voice
  <1>1. CASE UNCHANGED vars
    BY <1>1, SameVoiced DEF vars
  <1>2. CASE prepare \/ release
    <2>1. CASE releaseClose
      BY <2>1, EmptySeq DEF releaseClose, VoiceMoves
    <2> QED
      BY <1>2, <2>1, SameVoiced DEF prepare, release, releaseBegin, releaseJoinReq,
                                    releaseJoinResp, queues
  <1>3. CASE cancel
    <2>1. ASSUME NEW id \in Cancels, cancelQueued(id) PROVE VoiceMoves
      <3>1. MayCancel(id)
        BY DEF MayCancel
      <3>2. CASE HasStream(voice_reqs, id)
        BY <2>1, <3>1, <3>2, ErasedVoiced DEF cancelQueued
      <3>3. CASE ~HasStream(voice_reqs, id)
        BY <2>1, <3>3, SameVoiced DEF cancelQueued
      <3> QED
        BY <3>2, <3>3
    <2>2. CASE cancelOps \/ \E id \in Cancels : cancelOne(id)
      BY <2>2, SameVoiced DEF cancelOps, cancelOne, queues
    <2>3. CASE 0 \in Cancels /\ cancelAll
      BY <2>3, ClearedVoiced DEF cancelAll
    <2> QED
      BY <1>3, <2>1, <2>2, <2>3 DEF cancel
  <1>4. CASE \E c \in Callers : textRead(c) \/ textStore(c) \/ textQueue(c)
    BY <1>4, SameVoiced DEF textRead, textStore, textQueue, queues
  <1>5. CASE start_voice
    <2>1. next_id + 1 \in SpeechId
      BY <1>5, SpeechAssumption DEF start_voice, SpeechId, Typed, RestType
    <2> DEFINE v == NewStream(next_id + 1)
    <2>2. /\ HasStream(voice_reqs, next_id + 1) => voice_reqs' = voice_reqs
          /\ ~HasStream(voice_reqs, next_id + 1) => voice_reqs' = Append(voice_reqs, v)
      BY <1>0, <1>5, <2>1, StartKeeps DEF start_voice
    <2>3. v.type = "uncompleted" /\ v \in Stream(SpeechId, Packets, {SPEECH_TIMEOUT})
      <3>1. <<>> \in Seq(Packets)
        OBVIOUS
      <3> QED
        BY <2>1, <3>1 DEF NewStream, Stream, TagType
    <2> HIDE DEF v
    <2>4. CASE voice_reqs' = Append(voice_reqs, v)
      <3>1. /\ Len(voice_reqs') = Len(voice_reqs) + 1 /\ Len(voice_reqs) \in Nat
            /\ voice_reqs'[Len(voice_reqs) + 1] = v
            /\ \A i \in 1 .. Len(voice_reqs) : voice_reqs'[i] = voice_reqs[i]
        BY <1>0, <2>3, <2>4, SeqAppend, SeqElement
      <3>2. ASSUME NEW k \in 1 .. Len(voice_reqs')
            PROVE  voice_reqs'[k].type = "uncompleted" \/
                   \E m \in 1 .. Len(voice_reqs) : Voiced(k, m)
        <4>1. CASE k = Len(voice_reqs) + 1
          BY <2>3, <3>1, <4>1
        <4>2. CASE k # Len(voice_reqs) + 1
          <5>1. k \in 1 .. Len(voice_reqs) /\ Voiced(k, k)
            BY <3>1, <4>2 DEF Voiced
          <5> QED
            BY <5>1
        <4> QED
          BY <4>1, <4>2
      <3> QED
        BY <3>2 DEF VoiceMoves
    <2> QED
      BY <2>2, <2>4, SameVoiced
  <1>6. ASSUME NEW id \in SpeechId, put_voice(id) PROVE VoiceMoves
    <2>1. spoken[id] + 1 \in Packets
      BY <1>6, PacketRoom DEF put_voice, Typed
    <2>2. voice_reqs' = Put(voice_reqs, id, spoken[id] + 1)
      BY <1>6 DEF put_voice
    <2>3. SameIds(voice_reqs, voice_reqs')
          /\ \A i \in 1 .. Len(voice_reqs) : voice_reqs'[i].type = voice_reqs[i].type
      BY <1>0, <2>1, <2>2, PutKeeps
    <2>4. ASSUME NEW i \in 1 .. Len(voice_reqs)
          PROVE  voice_reqs'[i].polling = voice_reqs[i].polling
      BY <1>0, <2>1, <2>2, PutFills
    <2> QED
      BY <2>3, <2>4 DEF VoiceMoves, SameIds, Voiced
  <1>7. ASSUME NEW id \in SpeechId, end_voice(id) PROVE VoiceMoves
    <2>2. voice_reqs' = End(voice_reqs, id, NoData)
      BY <1>7 DEF end_voice
    <2>3. SameIds(voice_reqs, voice_reqs')
          /\ \A i \in 1 .. Len(voice_reqs) :
               voice_reqs'[i].type = IF voice_reqs[i].id = id THEN "completed"
                                     ELSE voice_reqs[i].type
      BY <1>0, <2>2, EndKeeps
    <2>4. ASSUME NEW i \in 1 .. Len(voice_reqs)
          PROVE  voice_reqs'[i].polling = voice_reqs[i].polling
      BY <1>0, <2>2, EndLeaves
    <2> QED
      BY <2>3, <2>4 DEF VoiceMoves, SameIds, Voiced
  <1>8. CASE poll
    BY <1>8, SameVoiced DEF poll, pollReleased, pollLook, pollSleep, pollDead, pollItem, queues
  <1>9. CASE send_reqs
    <2>1. CASE sendErase
      <3>1. voice_reqs' = Erase(voice_reqs, req.id, SPEECH_TIMEOUT) /\ reqPc = "failed"
        BY <2>1 DEF sendErase, EraseReq
      <3>2. SPEECH_TIMEOUT # 0
        BY DEF SPEECH_TIMEOUT
      <3> QED
        BY <3>1, <3>2, ErasedVoiced
    <2>2. CASE sendTake
      BY <2>2, PoppedVoiced DEF sendTake
    <2>3. CASE ~sendErase /\ ~sendTake
      BY <1>9, <2>3, SameVoiced DEF send_reqs, sendQuit, sendWait, do_ctl_change_op,
           changeStarts, changeContinues, changeCancels, do_request, sendDone, sendFails,
           sendRefresh, sendWaitOp, sendAwake, queues
    <2> QED
      BY <2>1, <2>2, <2>3
  <1>10. CASE gen_results
    <2>1. CASE genFinish \/ genErase
      BY <2>1, ErasedVoiced DEF genFinish, genErase, EraseReq, SPEECH_TIMEOUT
    <2>2. CASE ~(genFinish \/ genErase)
      BY <1>10, <2>2, SameVoiced DEF gen_results, genTimeout, recvPacket, recvWait, recvTimer,
           recvNothing, genAnswer, genStale, genError, queues
    <2> QED
      BY <2>1, <2>2
  <1>11. CASE \/ clock \/ \E k \in {"broken", "badData"} : linkError(k)
              \/ \E id \in SpeechId : serverAnswers(id)
    BY <1>11, SameVoiced DEF clock, linkError, serverAnswers, queues
  <1> QED
    BY <1>1, <1>2, <1>3, <1>4, <1>5, <1>6, <1>7, <1>8, <1>9, <1>10, <1>11 DEF Next

(* The answer in hand changes when the next one is taken. *)
Answering ==
  respPc' \in {"finish", "erase"} =>
    \/ respPc \in {"finish", "erase"} /\ rx' = rx
    \/ current # 0 /\ rx'.id = CurrentId /\ current' = 0

(* gen_results() takes an answer to the current operation, and keeps it    *)
(* until it has erased the request (speech_impl.cc:571-613).               *)
LEMMA AnswerInHand ==
  ASSUME Typed, [Next]_vars
  PROVE  Answering
  <1>1. CASE UNCHANGED vars
    BY <1>1 DEF vars, Answering
  <1>2. CASE prepare \/ release
    BY <1>2 DEF prepare, release, releaseBegin, releaseClose, releaseJoinReq, releaseJoinResp,
                WakeRecv, genVars, Answering
  <1>3. CASE cancel
    BY <1>3 DEF cancel, cancelQueued, cancelOne, cancelAll, cancelOps, genVars, Answering
  <1>4. CASE \/ start_voice \/ \E c \in Callers : textRead(c) \/ textStore(c) \/ textQueue(c)
             \/ \E id \in SpeechId : put_voice(id) \/ end_voice(id)
    BY <1>4 DEF start_voice, textRead, textStore, textQueue, put_voice, end_voice, genVars,
                Answering
  <1>5. CASE \/ \E id \in SpeechId : serverAnswers(id)
             \/ \E k \in {"broken", "badData"} : linkError(k)
    BY <1>5 DEF serverAnswers, linkError, Deliver, WakeRecv, Answering
  <1>6. CASE poll
    BY <1>6 DEF poll, pollReleased, pollLook, pollSleep, pollDead, pollItem, genVars, Answering
  <1>7. CASE send_reqs
    BY <1>7 DEF send_reqs, sendQuit, sendWait, sendTake, do_ctl_change_op,
           changeStarts, changeContinues, changeCancels, do_request, sendDone, sendFails,
           sendErase, sendRefresh, sendWaitOp, sendAwake, genVars, Answering
  <1>8. CASE gen_results
    <2>1. CASE genAnswer
      <3>1. respPc' \in {"finish", "erase"} => rx' = rx /\ current' = 0
        BY <2>1 DEF genAnswer, NextResp
      <3>2. current # 0 /\ rx.id = CurrentId
        BY <2>1 DEF genAnswer, Answers, IsCurrent, CurrentId
      <3> QED
        BY <3>1, <3>2 DEF Answering
    <2>2. CASE genError
      <3> DEFINE r == [NoResponse EXCEPT !.id = operations[current].id]
      <3>1. r.id = CurrentId
        BY DEF NoResponse, Response, CurrentId
      <3>2. respPc' \in {"finish", "erase"} => current # 0 /\ rx' = r
        BY <2>2 DEF genError, NextResp
      <3> HIDE DEF r
      <3>3. respPc' \in {"finish", "erase"} => current' = 0
        BY <2>2, <3>2 DEF genError, NextResp, set_op_error
      <3> QED
        BY <3>1, <3>2, <3>3 DEF Answering
    <2>3. CASE ~genAnswer /\ ~genError
      BY <1>8, <2>3 DEF gen_results, genTimeout, recvPacket, recvWait, recvTimer, recvNothing,
           genFinish, genStale, genErase, NextResp, Answering
    <2> QED
      BY <2>1, <2>2, <2>3
  <1>9. CASE clock
    BY <1>9 DEF clock, genVars, Answering
  <1> QED
    BY <1>1, <1>2, <1>3, <1>4, <1>5, <1>6, <1>7, <1>8, <1>9 DEF Next

(* What the sending thread has in hand while it sends has passed. *)
LEMMA HandPassed ==
  ASSUME Orderly, IInv, FailedInv, [Next]_vars, reqPc' \in {"send", "failed"}
  PROVE  /\ reqPc \in {"change", "send", "failed"} /\ req' = req
         /\ Passed(req.id)
  <1>1. ~sendTake
    BY DEF sendTake
  <1>2. req' = req /\ reqPc \notin {"dead", "top", "asleep"}
    BY <1>1, HandKept
  <1>3. reqPc \in {"change", "send", "failed"}
    <2>1. CASE send_reqs
      BY <2>1 DEF send_reqs, sendQuit, sendWait, sendTake, do_ctl_change_op,
           changeStarts, changeContinues, changeCancels, do_request, sendDone, sendFails,
           sendErase, sendRefresh, sendWaitOp, sendAwake, NextReq
    <2>2. CASE prepare
      BY <2>2 DEF prepare
    <2>3. CASE ~send_reqs /\ ~prepare
      BY <1>2, <2>3, OthersStay DEF HandStays, IInv
    <2> QED
      BY <2>1, <2>2, <2>3
  <1> QED
    BY <1>2, <1>3 DEF FailedInv

(* erase_req() fails voices whose start was sent only                      *)
(* (speech_impl.cc:238-243).                                               *)
LEMMA FailedStep ==
  ASSUME Orderly, IInv, FailedInv, [Next]_vars
  PROVE  FailedInv'
  <1> USE DEF IInv
  <1>0. IInv' /\ (\A n \in Nat : Passed(n) => Passed(n)') /\ VoiceMoves
    BY NextInv, QueueStep, VoiceStep
  <1>1. ASSUME NEW k \in 1 .. Len(voice_reqs'), voice_reqs'[k].type = "error"
        PROVE  voice_reqs'[k].polling
    <2>1. PICK m \in 1 .. Len(voice_reqs) : Voiced(k, m)
      BY <1>0, <1>1 DEF VoiceMoves
    <2>2. voice_reqs[m].type = "error" => voice_reqs[m].polling
      BY DEF FailedInv
    <2>3. voice_reqs[m].id \in Nat
      BY QueueElement, IdsAreNat DEF Typed
    <2>4. Passed(voice_reqs[m].id) => voice_reqs[m].polling
      BY <2>3 DEF Passed
    <2>5. reqPc = "failed" /\ voice_reqs[m].id = req.id => Passed(voice_reqs[m].id)
      BY DEF FailedInv
    <2>6. respPc \in {"finish", "erase"} /\ voice_reqs[m].id = rx.id => Passed(voice_reqs[m].id)
      BY DEF FailedInv
    <2> QED
      BY <1>1, <2>1, <2>2, <2>4, <2>5, <2>6 DEF Voiced
  <1>2. reqPc' \in {"change", "send", "failed"} => Passed(req.id)'
    <2> SUFFICES ASSUME reqPc' \in {"change", "send", "failed"} PROVE Passed(req.id)'
      OBVIOUS
    <2>1. CASE reqPc' = "change"
      BY <1>0, <2>1 DEF OpOrder
    <2>2. CASE reqPc' # "change"
      <3>1. req' = req /\ Passed(req.id) /\ reqPc \in {"change", "send", "failed"}
        BY <2>2, HandPassed
      <3>2. PICK m \in Nat : m = req.id
        BY <3>1, IdsAreNat DEF Typed, HandType
      <3>3. Passed(m)'
        BY <1>0, <3>1, <3>2
      <3> QED
        BY <3>1, <3>2, <3>3 DEF Passed
    <2> QED
      BY <2>1, <2>2
  <1>3. respPc' \in {"finish", "erase"} => rx'.id \in SpeechId /\ Passed(rx.id)'
    <2> SUFFICES ASSUME respPc' \in {"finish", "erase"}
                 PROVE  rx'.id \in SpeechId /\ Passed(rx.id)'
      OBVIOUS
    <2>1. rx'.id \in SpeechId /\ \E m \in Nat : m = rx'.id /\ Passed(m)
      <3>1. CASE respPc \in {"finish", "erase"} /\ rx' = rx
        BY <3>1, IdsAreNat DEF FailedInv
      <3>2. CASE current # 0 /\ rx'.id = CurrentId
        BY <3>2, OperationElement DEF OpOrder, Behind, CurrentId
      <3> QED
        BY <3>1, <3>2, AnswerInHand DEF Answering
    <2>2. PICK m \in Nat : m = rx'.id /\ Passed(m)
      BY <2>1
    <2>3. Passed(m)'
      BY <1>0, <2>2
    <2> QED
      BY <2>1, <2>2, <2>3 DEF Passed
  <1> QED
    BY <1>1, <1>2, <1>3 DEF FailedInv

(* What a result of poll() is about, and what is done with it. *)
Hears(label) ==
  /\ initialized /\ operations # <<>> /\ label \in Labels
  /\ Hear(operations[1].id, label)
  /\ UNCHANGED <<appVars, queues, sendVars, genVars, pollPc, runVars, netVars>>
  /\ IF label \in Terminal THEN Removes ELSE UNCHANGED ctlVars
  /\ operations[1].status = "CANCELLED" => label = "CANCELLED"
  /\ label = "CANCELLED" =>
       \/ operations[1].status = "CANCELLED"
       \/ PopType(responses) = "REMOVED"

(* poll() of a cancelled or failed operation (speech_impl.cc:284-309). *)
LEMMA DeadHears ==
  ASSUME IInv, pollDead
  PROVE  \E label \in Labels : Hears(label)
  <1>1. Removes
    BY DeadRemoves
  <1>2. operations[1].status \in Labels /\ operations[1].status \in Terminal
    BY DEF pollDead, Dead, Labels, Terminal
  <1> QED
    BY <1>1, <1>2 DEF pollDead, Hears

(* poll() of an item of the front stream (speech_impl.cc:310-336). *)
LEMMA ItemHears ==
  ASSUME IInv, pollItem
  PROVE  \E label \in Labels : Hears(label)
  <1> DEFINE l == Label(PopItem(responses))
  <1>1. IF l \in Terminal
        THEN Removes /\ PopType(responses) \in {"END", "REMOVED", "ERROR"}
        ELSE UNCHANGED ctlVars /\ PopType(responses) \in {"START", "DATA"}
    BY ItemRemoves
  <1>2. PopItem(responses).id = operations[1].id
    <2>1. /\ Typed /\ OneInFlight /\ SenderInv /\ OpOrder /\ ResponseOrder /\ StreamInv
          /\ operations # <<>> /\ ~Dead(operations[1]) /\ PopType(responses) # "EMPTY"
      BY DEF IInv, pollItem
    <2>2. responses[1].id = operations[1].id
      BY <2>1, FrontItem
    <2>3. PopItem(responses).id = responses[1].id
      BY <2>1, ResultItem DEF Typed
    <2> QED
      BY <2>2, <2>3
  <1>3. /\ l \in Labels
        /\ l = "CANCELLED" => PopType(responses) = "REMOVED"
    <2>1. QueueType /\ PopType(responses) # "EMPTY"
      BY DEF IInv, Typed, pollItem
    <2>2. /\ PopType(responses) = "START" => l = "START"
          /\ PopType(responses) = "DATA" => l \in Part
          /\ PopType(responses) = "REMOVED" => l = "CANCELLED"
          /\ PopType(responses) \in {"END", "ERROR"} => l = PopType(responses)
      BY <2>1, ResultItem
    <2>3. PopType(responses) \in {"START", "DATA", "END", "REMOVED", "ERROR"}
      BY <1>1
    <2> HIDE DEF l
    <2> QED
      BY <2>2, <2>3 DEF Labels, Part, Terminal
  <1>4. /\ initialized /\ operations # <<>> /\ operations[1].status # "CANCELLED"
        /\ Hear(operations[1].id, l)
        /\ UNCHANGED <<appVars, queues, sendVars, genVars, pollPc, runVars, netVars>>
    BY <1>2 DEF pollItem, Dead
  <1> HIDE DEF l
  <1>5. IF l \in Terminal THEN Removes ELSE UNCHANGED ctlVars
    BY <1>1 DEF l
  <1>6. Hears(l)
    BY <1>3, <1>4, <1>5 DEF Hears
  <1> QED
    BY <1>3, <1>6

(* Only poll() returns results. *)
LEMMA HeardKept ==
  ASSUME [Next]_vars, ~pollDead, ~pollItem
  PROVE  heard' = heard
  <1>1. CASE UNCHANGED vars
    BY <1>1 DEF vars
  <1>2. CASE prepare \/ release
    BY <1>2 DEF prepare, release, releaseBegin, releaseClose, releaseJoinReq, releaseJoinResp,
                pollVars
  <1>3. CASE cancel
    BY <1>3 DEF cancel, cancelQueued, cancelOne, cancelAll, cancelOps, pollVars
  <1>4. CASE \/ start_voice \/ \E c \in Callers : textRead(c) \/ textStore(c) \/ textQueue(c)
             \/ \E id \in SpeechId : put_voice(id) \/ end_voice(id) \/ serverAnswers(id)
    BY <1>4 DEF start_voice, textRead, textStore, textQueue, put_voice, end_voice, serverAnswers,
                pollVars
  <1>5. CASE poll
    BY <1>5 DEF poll, pollReleased, pollLook, pollSleep
  <1>6. CASE send_reqs
    BY <1>6 DEF send_reqs, sendQuit, sendWait, sendTake, do_ctl_change_op,
           changeStarts, changeContinues, changeCancels, do_request, sendDone, sendFails,
           sendErase, sendRefresh, sendWaitOp, sendAwake, pollVars
  <1>7. CASE gen_results
    BY <1>7 DEF gen_results, genTimeout, recvPacket, recvWait, recvTimer, recvNothing, genAnswer,
           genFinish, genStale, genError, genErase, pollVars
  <1>8. CASE clock \/ \E k \in {"broken", "badData"} : linkError(k)
    BY <1>8 DEF clock, linkError, pollVars
  <1> QED
    BY <1>1, <1>2, <1>3, <1>4, <1>5, <1>6, <1>7, <1>8 DEF Next

(* A result is about the front operation; the last one removes it. *)
LEMMA HeardSteps ==
  ASSUME IInv, [Next]_vars
  PROVE  \/ heard' = heard /\ (Settles \/ Adds)
         \/ \E label \in Labels : Hears(label)
  BY DeadHears, ItemHears, HeardKept, OpEffect

(* A result is added to those of the front operation. *)
LEMMA HeardGrows ==
  ASSUME Typed, HeardType, NEW label \in Labels, Hears(label)
  PROVE  /\ HeardType' /\ operations[1].id \in SpeechId
         /\ \A i \in SpeechId :
              /\ heard'[i] = IF i = operations[1].id THEN Append(heard[i], label) ELSE heard[i]
              /\ heard[i] \in Seq(Labels)
              /\ HasEnded(heard'[i]) <=>
                   HasEnded(heard[i]) \/ (i = operations[1].id /\ label \in Terminal)
  <1>1. 1 \in 1 .. Len(operations)
    BY SeqTail DEF Hears, Typed, OpType
  <1>2. operations[1].id \in SpeechId
    BY <1>1, OperationElement
  <1>3. \A i \in SpeechId :
          heard'[i] = IF i = operations[1].id THEN Append(heard[i], label) ELSE heard[i]
    BY DEF Hears, Hear
  <1>4. HeardType'
    BY <1>2 DEF HeardType, Hears, Hear
  <1>5. ASSUME NEW i \in SpeechId
        PROVE  /\ heard[i] \in Seq(Labels)
               /\ HasEnded(heard'[i]) <=>
                   HasEnded(heard[i]) \/ (i = operations[1].id /\ label \in Terminal)
    <2>1. heard[i] \in Seq(Labels)
      BY DEF HeardType
    <2>2. CASE i = operations[1].id
      <3> DEFINE h == heard[i]
                 g == Append(h, label)
      <3>1. /\ Len(g) = Len(h) + 1 /\ Len(h) \in Nat /\ g[Len(h) + 1] = label
            /\ \A k \in 1 .. Len(h) : g[k] = h[k]
        BY <2>1, SeqAppend, SeqElement
      <3> HIDE DEF g, h
      <3>2. HasEnded(g) <=> HasEnded(h) \/ label \in Terminal
        <4>1. ASSUME HasEnded(g) PROVE HasEnded(h) \/ label \in Terminal
          <5>1. PICK k \in 1 .. Len(g) : g[k] \in Terminal
            BY <4>1 DEF HasEnded
          <5>2. CASE k = Len(h) + 1
            BY <3>1, <5>1, <5>2
          <5>3. CASE k # Len(h) + 1
            <6>1. k \in 1 .. Len(h)
              BY <3>1, <5>3
            <6> QED
              BY <3>1, <5>1, <6>1 DEF HasEnded
          <5> QED
            BY <5>2, <5>3
        <4>2. ASSUME HasEnded(h) PROVE HasEnded(g)
          <5>1. PICK k \in 1 .. Len(h) : h[k] \in Terminal
            BY <4>2 DEF HasEnded
          <5>2. k \in 1 .. Len(g) /\ g[k] = h[k]
            BY <3>1
          <5> QED
            BY <5>1, <5>2 DEF HasEnded
        <4>3. ASSUME label \in Terminal PROVE HasEnded(g)
          <5>1. Len(h) + 1 \in 1 .. Len(g)
            BY <3>1
          <5> QED
            BY <3>1, <4>3, <5>1 DEF HasEnded
        <4> QED
          BY <4>1, <4>2, <4>3
      <3> QED
        BY <1>3, <2>1, <2>2, <3>2 DEF g, h
    <2>3. CASE i # operations[1].id
      BY <1>3, <2>1, <2>3
    <2> QED
      BY <2>2, <2>3
  <1> QED
    BY <1>2, <1>3, <1>4, <1>5

(* A request that was started is an operation until it has ended. *)
LEMMA StartedStep ==
  ASSUME IInv, HeardType, [Next]_vars
  PROVE  HeardType' /\ \A n \in SpeechId : Started(n) => Started(n)'
  <1> USE DEF IInv
  <1>1. CASE heard' = heard /\ (Settles \/ Adds)
    <2>1. \A n : n \in OpIds => n \in OpIds'
      <3>1. CASE Settles
        BY <3>1 DEF Settles, SameOpIds, OpIds
      <3>2. CASE Adds
        <4>1. reqPc = "change"
          BY <3>2 DEF Adds
        <4>2. /\ Len(operations') = Len(operations) + 1 /\ Len(operations) \in Nat
              /\ \A i \in 1 .. Len(operations) : operations'[i] = operations[i]
          BY <3>2, <4>1, AddKeeps, OperationElement
        <4>3. \A i \in 1 .. Len(operations) : i \in 1 .. Len(operations')
          BY <4>2
        <4> QED
          BY <4>2, <4>3 DEF OpIds
      <3> QED
        BY <1>1, <3>1, <3>2
    <2> QED
      BY <1>1, <2>1 DEF Started, HeardType
  <1>2. ASSUME NEW label \in Labels, Hears(label)
        PROVE  HeardType' /\ \A n \in SpeechId : Started(n) => Started(n)'
    <2>1. /\ HeardType'
          /\ \A i \in SpeechId :
               HasEnded(heard'[i]) <=>
                 HasEnded(heard[i]) \/ (i = operations[1].id /\ label \in Terminal)
      BY <1>2, HeardGrows
    <2>2. CASE label \in Terminal
      <3>1. Removes
        BY <1>2, <2>2 DEF Hears
      <3>2. ASSUME NEW n \in OpIds, n # operations[1].id PROVE n \in OpIds'
        <4>1. PICK k \in 1 .. Len(operations) : operations[k].id = n
          BY DEF OpIds
        <4>2. /\ Len(operations) \in Nat \ {0} /\ Len(operations') = Len(operations) - 1
              /\ \A i \in 1 .. Len(operations') : operations'[i] = operations[i + 1]
          BY <3>1, RemoveKeeps
        <4>3. k # 1
          BY <3>2, <4>1
        <4>4. k - 1 \in 1 .. Len(operations') /\ (k - 1) + 1 = k
          BY <4>2, <4>3
        <4>5. operations'[k - 1].id = n
          BY <4>1, <4>2, <4>4
        <4> QED
          BY <4>4, <4>5 DEF OpIds
      <3> QED
        BY <2>1, <2>2, <3>2 DEF Started
    <2>3. CASE label \notin Terminal
      <3>1. OpIds' = OpIds
        BY <1>2, <2>3 DEF Hears, OpIds, ctlVars
      <3> QED
        BY <2>1, <3>1 DEF Started
    <2> QED
      BY <2>2, <2>3
  <1> QED
    BY <1>1, <1>2, HeardSteps

(* What the sending thread is done with has been started. *)
LEMMA HandDone ==
  ASSUME IInv, HeardType, StartInv, [Next]_vars, initialized', reqPc = "change", reqPc' # "change",
         NEW n \in SpeechId, n = req.id
  PROVE  Started(n)'
  <1> USE DEF IInv
  <1>1. ~prepare
    BY DEF prepare, FreshInv, Init
  <1>2. initialized
    BY <1>1, ReadyStep
  <1>3. send_reqs
    BY <1>1, OthersStay DEF HandStays
  <1>4. do_ctl_change_op
    BY <1>3 DEF send_reqs, sendQuit, sendWait, sendTake, do_request, sendDone, sendFails,
                sendErase, sendRefresh, sendWaitOp, sendAwake
  <1>5. Started(n) => Started(n)'
    BY StartedStep
  <1>6. Adds => n \in OpIds'
    <2> SUFFICES ASSUME Adds PROVE n \in OpIds'
      OBVIOUS
    <2>1. /\ Len(operations') = Len(operations) + 1 /\ Len(operations) \in Nat
          /\ operations'[Len(operations) + 1].id = req.id
      BY AddKeeps, OperationElement
    <2>2. Len(operations) + 1 \in 1 .. Len(operations')
      BY <2>1
    <2> QED
      BY <2>1, <2>2 DEF OpIds
  <1>7. CASE changeStarts
    <2>1. Adds
      BY <1>7, NothingSeen DEF changeStarts, Adds, Starts
    <2> QED
      BY <1>6, <2>1 DEF Started
  <1>8. CASE changeContinues
    BY <1>2, <1>5, <1>8 DEF changeContinues, StartInv
  <1>9. CASE changeCancels
    <2>1. CASE seen = 0
      <3>1. Adds
        BY <1>9, <2>1, NothingSeen DEF changeCancels, Adds, NextReq
      <3> QED
        BY <1>6, <3>1 DEF Started
    <2>2. CASE seen # 0
      BY <1>2, <1>5, <2>2 DEF StartInv
    <2> QED
      BY <2>1, <2>2
  <1> QED
    BY <1>4, <1>7, <1>8, <1>9 DEF do_ctl_change_op

(* A voice is started when its first item is taken. *)
LEMMA TakeStarts ==
  ASSUME Orderly, IInv, FailedInv, HeardType, StartInv, sendTake, [Next]_vars
  PROVE  StartInv'
  <1> USE DEF IInv
  <1>0. /\ voice_reqs' = PopRest(voice_reqs) /\ reqPc = "top" /\ reqPc' = "change"
        /\ initialized /\ ~Idle /\ UNCHANGED <<operations, current, heard>>
        /\ PopType(voice_reqs) # "EMPTY" => req' = VoiceReq(PopItem(voice_reqs))
        /\ PopType(voice_reqs) = "EMPTY" => req' = Head(text_reqs)
        /\ seen' = IF current = 0 THEN 0 ELSE operations[current].id
    BY DEF sendTake, ctlVars, pollVars
  <1>1. \A n : Started(n)' <=> Started(n)
    BY <1>0 DEF Started, OpIds
  <1>2. \A m \in 1 .. Len(voice_reqs) : voice_reqs[m].polling => Started(voice_reqs[m].id)
    BY <1>0 DEF StartInv
  <1>3. voice_reqs \in Seq(Stream(SpeechId, Packets, {SPEECH_TIMEOUT})) /\ QueueType
    BY DEF Typed, QueueType, Voice
  <1>4. /\ PopType(voice_reqs) \in {"END", "REMOVED", "ERROR"} =>
             voice_reqs # <<>> /\ voice_reqs' = Tail(voice_reqs)
        /\ PopType(voice_reqs) \in {"EMPTY", "START", "DATA", "END", "REMOVED", "ERROR"}
    BY <1>0, <1>3, PopRestKeeps
  <1>5. PopType(voice_reqs) # "EMPTY" =>
          /\ voice_reqs # <<>> /\ 1 \in 1 .. Len(voice_reqs)
          /\ req'.id = voice_reqs[1].id
          /\ req'.type = CASE PopType(voice_reqs) = "DATA"    -> "VOICE_DATA"
                           [] PopType(voice_reqs) = "START"   -> "VOICE_START"
                           [] PopType(voice_reqs) = "REMOVED" -> "CANCELLED"
                           [] OTHER                           -> "VOICE_END"
    BY <1>0, <1>3, VoiceItem
  <1>6. PopType(voice_reqs) = "EMPTY" => req'.type \in {"TEXT", "CANCELLED"}
    <2> SUFFICES ASSUME PopType(voice_reqs) = "EMPTY" PROVE req'.type \in {"TEXT", "CANCELLED"}
      OBVIOUS
    <2>1. text_reqs # <<>> /\ req' = Head(text_reqs)
      BY <1>0 DEF Idle
    <2>2. req' = text_reqs[1] /\ 1 \in 1 .. Len(text_reqs)
      BY <1>3, <2>1, SeqTail DEF QueueType
    <2> QED
      BY <1>3, <2>2, QueueElement
  <1>7. PopType(voice_reqs) \in {"DATA", "END", "ERROR"} => voice_reqs[1].polling
    <2>1. PopType(voice_reqs) # "EMPTY" /\ voice_reqs[1].type = "error" => voice_reqs[1].polling
      BY <1>5 DEF FailedInv
    <2>2. PopType(voice_reqs) = "ERROR" => voice_reqs[1].type = "error"
      BY DEF PopType, FrontType
    <2>3. PopType(voice_reqs) \in {"DATA", "END"} => voice_reqs[1].polling
      BY DEF PopType, FrontType
    <2> QED
      BY <2>1, <2>2, <2>3
  <1>8. ASSUME NEW k \in 1 .. Len(voice_reqs'), voice_reqs'[k].polling
        PROVE  \/ \E m \in 1 .. Len(voice_reqs) :
                    voice_reqs[m].id = voice_reqs'[k].id /\ voice_reqs[m].polling
               \/ req'.id = voice_reqs'[k].id /\ req'.type = "VOICE_START"
    <2>1. CASE PopType(voice_reqs) = "EMPTY"
      BY <1>0, <1>8, <2>1 DEF PopRest
    <2>2. CASE PopType(voice_reqs) \in {"START", "DATA"}
      <3>1. /\ Len(voice_reqs') = Len(voice_reqs) /\ voice_reqs'[1].id = voice_reqs[1].id
            /\ \A i \in 1 .. Len(voice_reqs) : i # 1 => voice_reqs'[i] = voice_reqs[i]
            /\ PopType(voice_reqs) = "DATA" => voice_reqs[1].polling
        BY <1>0, <1>3, <2>2, PopFront
      <3>2. CASE k # 1
        BY <1>8, <3>1, <3>2
      <3>3. CASE k = 1
        BY <1>5, <2>2, <3>1, <3>3
      <3> QED
        BY <3>2, <3>3
    <2>3. CASE PopType(voice_reqs) \in {"END", "REMOVED", "ERROR"}
      <3>1. /\ Len(voice_reqs) \in Nat \ {0} /\ Len(voice_reqs') = Len(voice_reqs) - 1
            /\ \A i \in 1 .. Len(voice_reqs) - 1 : voice_reqs'[i] = voice_reqs[i + 1]
        BY <1>3, <1>4, <2>3, SeqTail
      <3>2. k + 1 \in 1 .. Len(voice_reqs) /\ voice_reqs'[k] = voice_reqs[k + 1]
        BY <3>1
      <3> QED
        BY <1>8, <3>2
    <2> QED
      BY <1>4, <2>1, <2>2, <2>3
  <1>9. ASSUME seen' # 0 \/ req'.type \in {"VOICE_DATA", "VOICE_END"}
        PROVE  Started(req.id)'
    <2>1. CASE seen' # 0
      <3>1. SenderInv'
        BY TakeSender
      <3>2. current # 0 /\ seen' = CurrentId
        BY <1>0, <2>1 DEF CurrentId
      <3>3. req'.id = CurrentId
        BY <1>0, <2>1, <3>1, <3>2 DEF SenderInv
      <3>4. CurrentId \in OpIds
        BY <3>2, OperationElement DEF CurrentId, OpIds
      <3> QED
        BY <1>0, <3>3, <3>4 DEF Started, OpIds
    <2>2. CASE req'.type \in {"VOICE_DATA", "VOICE_END"}
      <3>1. PopType(voice_reqs) \in {"DATA", "END", "ERROR"}
        BY <1>4, <1>5, <1>6, <2>2
      <3>2. Started(voice_reqs[1].id) /\ req'.id = voice_reqs[1].id
        BY <1>2, <1>5, <1>7, <3>1
      <3> QED
        BY <1>0, <3>2 DEF Started, OpIds
    <2> QED
      BY <1>9, <2>1, <2>2
  <1>10. ASSUME NEW k \in 1 .. Len(voice_reqs'), voice_reqs'[k].polling
         PROVE  \/ Started(voice_reqs[k].id)'
                \/ req'.id = voice_reqs'[k].id /\ req'.type = "VOICE_START"
    BY <1>0, <1>2, <1>8, <1>10 DEF Started, OpIds
  <1> QED
    BY <1>0, <1>9, <1>10 DEF StartInv

(* A voice that was started has an operation until it has ended, for its   *)
(* rest to go to (speech_impl.cc:420-431).                                 *)
LEMMA StartStep ==
  ASSUME Orderly, IInv, FailedInv, HeardType, StartInv, [Next]_vars
  PROVE  StartInv'
  <1> USE DEF IInv
  <1> SUFFICES ASSUME initialized' PROVE StartInv'
    BY DEF StartInv
  <1>0. (\A n \in SpeechId : Started(n) => Started(n)') /\ Typed'
    BY StartedStep, NextType
  <1>1. CASE prepare
    <2>1. voice_reqs' = <<>> /\ reqPc' = "top"
      BY <1>1 DEF prepare, FreshInv, Init, queues
    <2> QED
      BY <2>1, EmptySeq DEF StartInv
  <1>2. CASE sendTake
    BY <1>2, TakeStarts
  <1>3. CASE ~prepare /\ ~sendTake
    <2>1. initialized /\ Held
      BY <1>3, ReadyStep, HandSteps
    <2>2. ASSUME NEW n \in SpeechId, reqPc = "change", req.id = n
          PROVE  Started(n)' \/ (reqPc' = "change" /\ req' = req /\ seen' = seen)
      BY <2>1, <2>2, HandDone DEF Held
    <2>3. reqPc' = "change" /\ (seen' # 0 \/ req'.type \in {"VOICE_DATA", "VOICE_END"}) =>
            Started(req.id)'
      <3> SUFFICES ASSUME reqPc' = "change", seen' # 0 \/ req'.type \in {"VOICE_DATA", "VOICE_END"}
                   PROVE  Started(req.id)'
        OBVIOUS
      <3>1. reqPc = "change" /\ req' = req /\ seen' = seen
        BY <2>1 DEF Held
      <3>2. PICK n \in SpeechId : n = req.id
        BY <3>1 DEF Typed, HandType
      <3>3. Started(n)
        BY <2>1, <3>1, <3>2 DEF StartInv
      <3>4. Started(n)'
        BY <1>0, <3>3
      <3> QED
        BY <3>1, <3>2, <3>4 DEF Started
    <2>4. ASSUME NEW k \in 1 .. Len(voice_reqs'), voice_reqs'[k].polling
          PROVE  \E m \in 1 .. Len(voice_reqs) :
                   voice_reqs[m].id = voice_reqs'[k].id /\ voice_reqs[m].polling
      <3>1. CASE VoiceKept
        BY <2>4, <3>1 DEF VoiceKept, SameIds
      <3>2. CASE \E c \in Callers : textRead(c) \/ textStore(c) \/ textQueue(c)
        BY <2>4, <3>2 DEF textRead, textStore, textQueue, queues
      <3>3. CASE releaseClose
        BY <2>1, <3>3 DEF releaseClose, LifeInv
      <3>4. CASE start_voice
        <4> DEFINE v == NewStream(next_id + 1)
        <4>1. next_id + 1 \in SpeechId
          BY <3>4, SpeechAssumption DEF start_voice, SpeechId, Typed, RestType
        <4>2. voice_reqs' = voice_reqs \/ voice_reqs' = Append(voice_reqs, v)
          BY <3>4 DEF start_voice, Start
        <4>3. ~v.polling /\ v \in Voice
          <5>1. <<>> \in Seq(Packets)
            OBVIOUS
          <5> QED
            BY <4>1, <5>1 DEF NewStream, Stream, TagType, Voice
        <4> HIDE DEF v
        <4>4. CASE voice_reqs' = Append(voice_reqs, v)
          <5>1. /\ Len(voice_reqs') = Len(voice_reqs) + 1 /\ Len(voice_reqs) \in Nat
                /\ voice_reqs'[Len(voice_reqs) + 1] = v
                /\ \A i \in 1 .. Len(voice_reqs) : voice_reqs'[i] = voice_reqs[i]
            BY <4>3, <4>4, SeqAppend, SeqElement DEF Typed, QueueType
          <5>2. k # Len(voice_reqs) + 1
            BY <2>4, <4>3, <5>1
          <5>3. k \in 1 .. Len(voice_reqs)
            BY <5>1, <5>2
          <5> QED
            BY <2>4, <5>1, <5>3
        <4> QED
          BY <2>4, <4>2, <4>4
      <3> QED
        BY <1>3, <3>1, <3>2, <3>3, <3>4, QueueSteps DEF Moves, Kept
    <2>5. ASSUME NEW k \in 1 .. Len(voice_reqs'), voice_reqs'[k].polling
          PROVE  \/ Started(voice_reqs[k].id)'
                 \/ reqPc' = "change" /\ req'.id = voice_reqs'[k].id /\ req'.type = "VOICE_START"
      <3>1. PICK m \in 1 .. Len(voice_reqs) :
              voice_reqs[m].id = voice_reqs'[k].id /\ voice_reqs[m].polling
        BY <2>4, <2>5
      <3>2. PICK n \in SpeechId : n = voice_reqs[m].id
        BY QueueElement DEF Typed
      <3>3. Started(n) \/ (reqPc = "change" /\ req.id = n /\ req.type = "VOICE_START")
        BY <2>1, <3>1, <3>2 DEF StartInv
      <3>4. Started(n)' \/ (reqPc' = "change" /\ req'.id = n /\ req'.type = "VOICE_START")
        BY <1>0, <2>2, <3>3
      <3> QED
        BY <3>1, <3>2, <3>4 DEF Started
    <2> QED
      BY <2>3, <2>5 DEF StartInv
  <1> QED
    BY <1>1, <1>2, <1>3

(* put_text() and start_voice() put the request they make into a queue. *)
LEMMA EnterWaits ==
  ASSUME Typed, QueueInv, NEW n \in SpeechId, n \in 1 .. next_id',
         start_voice \/ \E c \in Callers : textRead(c) \/ textStore(c) \/ textQueue(c)
  PROVE  (Waits(n) => Waits(n)') /\ (n \notin 1 .. next_id => Waits(n)')
  <1> USE IdsAreNat
  <1>0. next_id \in Nat /\ QueueType /\ Len(text_reqs) \in Nat /\ Len(voice_reqs) \in Nat
    BY SpeechAssumption, SeqElement DEF Typed, RestType, QueueType
  <1>1. CASE start_voice
    <2>1. next_id' = next_id + 1 /\ UNCHANGED <<text_reqs, entering>> /\ next_id + 1 \in SpeechId
      BY <1>0, <1>1, SpeechAssumption DEF start_voice, SpeechId
    <2>2. /\ HasStream(voice_reqs, n) => HasStream(voice_reqs', n)
          /\ n = next_id + 1 => HasStream(voice_reqs', n)
      <3>1. CASE HasStream(voice_reqs, next_id + 1)
        <4>1. voice_reqs' = voice_reqs
          BY <1>1, <3>1 DEF start_voice, Start
        <4> QED
          BY <3>1, <4>1
      <3>2. CASE ~HasStream(voice_reqs, next_id + 1)
        <4> DEFINE v == NewStream(next_id + 1)
        <4>1. voice_reqs' = Append(voice_reqs, v)
          BY <1>1, <3>2 DEF start_voice, Start
        <4>2. v.id = next_id + 1 /\ v \in Voice
          BY <2>1 DEF NewStream, Voice, Stream, TagType
        <4> HIDE DEF v
        <4>3. /\ Len(voice_reqs') = Len(voice_reqs) + 1
              /\ voice_reqs'[Len(voice_reqs) + 1] = v
              /\ \A i \in 1 .. Len(voice_reqs) : voice_reqs'[i] = voice_reqs[i]
          BY <1>0, <4>1, <4>2, SeqAppend DEF QueueType
        <4>4. /\ Len(voice_reqs) + 1 \in 1 .. Len(voice_reqs')
              /\ \A i \in 1 .. Len(voice_reqs) : i \in 1 .. Len(voice_reqs')
          BY <1>0, <4>3
        <4> QED
          BY <4>2, <4>3, <4>4 DEF HasStream
      <3> QED
        BY <3>1, <3>2
    <2> QED
      BY <1>0, <2>1, <2>2 DEF Waits, QueuedTexts
  <1>2. ASSUME NEW c \in Callers, textRead(c) \/ textStore(c) \/ textQueue(c)
        PROVE  (Waits(n) => Waits(n)') /\ (n \notin 1 .. next_id => Waits(n)')
    <2>1. voice_reqs' = voice_reqs
      BY <1>2 DEF textRead, textStore, textQueue, queues
    <2>2. CASE textRead(c)
      <3>1. next_id' = next_id /\ text_reqs' = text_reqs /\ \A e \in entering : e \in entering'
        BY <2>2 DEF textRead, queues
      <3> QED
        BY <2>1, <3>1 DEF Waits, QueuedTexts
    <2>3. CASE textStore(c)
      <3>1. PICK e \in entering :
              /\ ~e.stored /\ next_id' = e.id
              /\ entering' = (entering \ {e}) \cup {[e EXCEPT !.stored = TRUE]}
        BY <2>3 DEF textStore
      <3> DEFINE f == [e EXCEPT !.stored = TRUE]
      <3>2. f.id = e.id
        BY DEF Typed, RestType
      <3>3. /\ f \in entering' /\ \A g \in entering : g = e \/ g \in entering'
            /\ text_reqs' = text_reqs
        BY <2>3, <3>1 DEF textStore, queues
      <3>4. e.id = next_id + 1
        BY <3>1 DEF QueueInv
      <3> HIDE DEF f
      <3>5. n \notin 1 .. next_id => n = e.id
        BY <1>0, <3>1, <3>4
      <3> QED
        BY <2>1, <3>2, <3>3, <3>5 DEF Waits, QueuedTexts
    <2>4. CASE textQueue(c)
      <3>1. PICK e \in entering :
              /\ entering' = entering \ {e}
              /\ text_reqs' = Append(text_reqs, Request(e.id, "TEXT", NoData))
        BY <2>4 DEF textQueue
      <3> DEFINE t == Request(e.id, "TEXT", NoData)
      <3>2. t.id = e.id /\ t \in Text
        BY DEF Request, Text, Typed, RestType
      <3>3. text_reqs' = Append(text_reqs, t) /\ next_id' = next_id
        BY <2>4, <3>1 DEF textQueue
      <3> HIDE DEF t
      <3>4. /\ Len(text_reqs') = Len(text_reqs) + 1
            /\ text_reqs'[Len(text_reqs) + 1] = t
            /\ \A i \in 1 .. Len(text_reqs) : text_reqs'[i] = text_reqs[i]
        BY <1>0, <3>2, <3>3, SeqAppend DEF QueueType
      <3>5. /\ Len(text_reqs) + 1 \in 1 .. Len(text_reqs')
            /\ \A i \in 1 .. Len(text_reqs) : i \in 1 .. Len(text_reqs')
        BY <1>0, <3>4
      <3>6. e.id \in QueuedTexts' /\ \A m \in QueuedTexts : m \in QueuedTexts'
        BY <3>2, <3>4, <3>5 DEF QueuedTexts
      <3>7. \A g \in entering : g = e \/ g \in entering'
        BY <3>1
      <3> QED
        BY <2>1, <3>3, <3>6, <3>7 DEF Waits
    <2> QED
      BY <1>2, <2>2, <2>3, <2>4
  <1> QED
    BY <1>1, <1>2

(* What leaves a queue goes into the hands of the sending thread. *)
LEMMA TakeWaits ==
  ASSUME Typed, NEW n, Waits(n), sendTake
  PROVE  Waits(n)' \/ req'.id = n
  <1>1. voice_reqs \in Seq(Stream(SpeechId, Packets, {SPEECH_TIMEOUT})) /\ QueueType
    BY DEF Typed, QueueType, Voice
  <1>2. /\ voice_reqs' = PopRest(voice_reqs) /\ entering' = entering
        /\ PopType(voice_reqs) # "EMPTY" =>
             req' = VoiceReq(PopItem(voice_reqs)) /\ text_reqs' = text_reqs
        /\ PopType(voice_reqs) = "EMPTY" =>
             text_reqs # <<>> /\ req' = Head(text_reqs) /\ text_reqs' = Tail(text_reqs)
    BY DEF sendTake, Idle, appVars
  <1>3. HasStream(voice_reqs, n) => HasStream(voice_reqs', n) \/ req'.id = n
    <2> SUFFICES ASSUME NEW k \in 1 .. Len(voice_reqs), voice_reqs[k].id = n
                 PROVE  HasStream(voice_reqs', n) \/ req'.id = n
      BY DEF HasStream
    <2>1. /\ PopType(voice_reqs) \in {"EMPTY", "START", "DATA"} =>
               SameIds(voice_reqs, voice_reqs')
          /\ PopType(voice_reqs) \in {"END", "REMOVED", "ERROR"} =>
               voice_reqs # <<>> /\ voice_reqs' = Tail(voice_reqs)
          /\ PopType(voice_reqs) \in {"EMPTY", "START", "DATA", "END", "REMOVED", "ERROR"}
      BY <1>1, <1>2, PopRestKeeps
    <2>2. CASE SameIds(voice_reqs, voice_reqs')
      BY <2>2 DEF SameIds, HasStream
    <2>3. CASE PopType(voice_reqs) \in {"END", "REMOVED", "ERROR"}
      <3>1. /\ Len(voice_reqs) \in Nat \ {0} /\ Len(voice_reqs') = Len(voice_reqs) - 1
            /\ \A i \in 1 .. Len(voice_reqs) - 1 : voice_reqs'[i] = voice_reqs[i + 1]
        BY <1>1, <2>1, <2>3, SeqTail
      <3>2. CASE k = 1
        BY <1>1, <1>2, <2>3, <3>2, VoiceItem
      <3>3. CASE k # 1
        <4>1. k - 1 \in 1 .. Len(voice_reqs') /\ (k - 1) + 1 = k
          BY <3>1, <3>3
        <4>2. voice_reqs'[k - 1].id = n
          BY <3>1, <4>1
        <4> QED
          BY <4>1, <4>2 DEF HasStream
      <3> QED
        BY <3>2, <3>3
    <2> QED
      BY <2>1, <2>2, <2>3
  <1>4. n \in QueuedTexts => n \in QueuedTexts' \/ req'.id = n
    <2> SUFFICES ASSUME NEW k \in 1 .. Len(text_reqs), text_reqs[k].id = n,
                        PopType(voice_reqs) = "EMPTY"
                 PROVE  n \in QueuedTexts' \/ req'.id = n
      BY <1>2 DEF QueuedTexts
    <2>1. /\ Len(text_reqs) \in Nat \ {0} /\ Len(text_reqs') = Len(text_reqs) - 1
          /\ \A i \in 1 .. Len(text_reqs) - 1 : text_reqs'[i] = text_reqs[i + 1]
      BY <1>1, <1>2, SeqTail DEF QueueType
    <2>2. CASE k = 1
      BY <1>2, <2>2
    <2>3. CASE k # 1
      <3>1. k - 1 \in 1 .. Len(text_reqs') /\ (k - 1) + 1 = k
        BY <2>1, <2>3
      <3>2. text_reqs'[k - 1].id = n
        BY <2>1, <3>1
      <3> QED
        BY <3>1, <3>2 DEF QueuedTexts
    <2> QED
      BY <2>2, <2>3
  <1> QED
    BY <1>2, <1>3, <1>4 DEF Waits

(* No step loses a request (send_reqs, do_ctl_change_op, poll). *)
LEMMA LostStep ==
  ASSUME Orderly, IInv, HeardType, StartInv, NoRequestLost, [Next]_vars
  PROVE  NoRequestLost'
  <1> USE DEF IInv
  <1> DEFINE Kn(n) == Waits(n) \/ (reqPc = "change" /\ req.id = n) \/ Started(n)
  <1>1. initialized => \A n \in 1 .. next_id : Kn(n)
    BY DEF NoRequestLost, Waits, Started
  <1>2. Typed'
    BY NextType
  <1>3. CASE prepare
    <2>1. next_id' = 0
      BY <1>3 DEF prepare
    <2>2. 1 .. next_id' = {}
      BY <2>1
    <2> QED
      BY <2>2 DEF NoRequestLost
  <1>4. CASE ~prepare
    <2> SUFFICES ASSUME initialized', NEW n \in 1 .. next_id' PROVE Kn(n)'
      BY DEF NoRequestLost, Waits, Started
    <2>1. initialized /\ ~releaseClose
      BY <1>4, ReadyStep DEF releaseClose, LifeInv
    <2>2. n \in SpeechId
      <3>1. next_id' \in 0 .. MaxId
        BY <1>2 DEF Typed, RestType
      <3> QED
        BY <3>1, SpeechAssumption DEF SpeechId
    <2>3. Started(n) => Started(n)'
      BY <2>2, StartedStep
    <2>4. reqPc = "change" /\ req.id = n => Kn(n)'
      <3> SUFFICES ASSUME reqPc = "change", req.id = n PROVE Kn(n)'
        OBVIOUS
      <3>1. CASE reqPc' = "change"
        <4>1. req' = req
          BY <3>1, HandSteps DEF Held, sendTake
        <4> QED
          BY <3>1, <4>1
      <3>2. CASE reqPc' # "change"
        BY <2>2, <3>2, HandDone
      <3> QED
        BY <3>1, <3>2
    <2>5. (Waits(n) => Kn(n)') /\ (n \notin 1 .. next_id => Kn(n)')
      <3>1. CASE Kept
        <4>1. Waits(n) => Waits(n)'
          BY <3>1 DEF Kept, VoiceKept, SameIds, SameTextIds, Waits, QueuedTexts, HasStream
        <4> QED
          BY <3>1, <4>1 DEF Kept
      <3>2. CASE start_voice \/ \E c \in Callers : textRead(c) \/ textStore(c) \/ textQueue(c)
        BY <2>2, <3>2, EnterWaits
      <3>3. CASE sendTake
        <4>1. next_id' = next_id /\ reqPc' = "change"
          BY <3>3 DEF sendTake, appVars
        <4> QED
          BY <3>3, <4>1, TakeWaits
      <3> QED
        BY <1>4, <2>1, <3>1, <3>2, <3>3, QueueSteps DEF Moves
    <2> QED
      BY <1>1, <2>1, <2>3, <2>4, <2>5
  <1> QED
    BY <1>3, <1>4

(* Nothing has happened at the start. *)
LEMMA InitStarted == Init => KInv
  <1> SUFFICES ASSUME Init PROVE KInv
    OBVIOUS
  <1>1. IInv
    BY InitInv
  <1>2. /\ voice_reqs = <<>> /\ reqPc = "dead" /\ respPc = "dead" /\ ~initialized
        /\ heard = [i \in SpeechId |-> <<>>]
    BY DEF Init
  <1>3. FailedInv
    BY <1>2, EmptySeq DEF FailedInv
  <1>4. HeardType
    BY <1>2, EmptySeq DEF HeardType
  <1> QED
    BY <1>1, <1>2, <1>3, <1>4 DEF KInv, StartInv, NoRequestLost

(* Every step keeps the invariant. *)
LEMMA NextStarted ==
  ASSUME Orderly, KInv, [Next]_vars
  PROVE  KInv'
  BY NextInv, FailedStep, StartedStep, StartStep, LostStep DEF KInv

(* A request that was accepted is queued, in the hands of the sending      *)
(* thread or an operation until it has ended                               *)
(* (speech_impl.cc:156,167,382,417,433,438), whatever fails or is          *)
(* cancelled on the way: a voice that was started keeps its operation, so  *)
(* that its rest is never dropped.                                         *)
THEOREM RequestsAreKept ==
  ASSUME Orderly PROVE Spec => []NoRequestLost
  <1>1. Init => KInv
    BY InitStarted
  <1>2. KInv /\ [Next]_vars => KInv'
    BY NextStarted
  <1>3. KInv => NoRequestLost
    BY DEF KInv
  <1> QED
    BY <1>1, <1>2, <1>3, PTL DEF Spec

(* Steps that cancel no operation. *)
NoneCancelled ==
  SameOpIds /\ \A i \in 1 .. Len(operations) :
                 operations'[i].status = "CANCELLED" => operations[i].status = "CANCELLED"

(* Operations that do not change. *)
LEMMA SameNone == UNCHANGED operations => NoneCancelled
  BY DEF NoneCancelled, SameOpIds

(* A failed or finished operation is not cancelled (op_ctl.h:31-47,        *)
(* 87-96).                                                                 *)
LEMMA FailNone ==
  ASSUME Typed, (\E err \in Errors : set_op_error(err)) \/ finish_op
  PROVE  NoneCancelled
  <1>0. OpType(SpeechId, Errors)
    BY DEF Typed
  <1>1. ASSUME NEW err \in Errors, set_op_error(err) PROVE NoneCancelled
    BY <1>0, <1>1, SetErrorKeeps DEF NoneCancelled
  <1>2. CASE finish_op
    BY <1>0, <1>2, FinishKeeps DEF NoneCancelled, Finished
  <1> QED
    BY <1>1, <1>2

(* Only cancel() and a cancelled request in hand cancel an operation. *)
LEMMA CancelsOnly ==
  ASSUME IInv, [Next]_vars, ~cancelOps, ~changeCancels
  PROVE  NoneCancelled \/ Adds \/ Removes
  <1> USE DEF IInv
  <1>0. OpType(SpeechId, Errors)
    BY DEF Typed
  <1>1. CASE UNCHANGED ctlVars
    BY <1>1, SameNone DEF ctlVars
  <1>2. CASE UNCHANGED vars
    BY <1>2, SameNone DEF vars
  <1>3. CASE prepare \/ release
    <2>1. CASE releaseJoinReq
      BY <2>1, FailNone DEF releaseJoinReq
    <2> QED
      BY <1>1, <1>3, <2>1 DEF prepare, release, releaseBegin, releaseClose, releaseJoinResp
  <1>4. CASE cancel
    BY <1>1, <1>4 DEF cancel, cancelQueued, cancelOne, cancelAll
  <1>5. CASE \/ start_voice \/ \E c \in Callers : textRead(c) \/ textStore(c) \/ textQueue(c)
             \/ \E id \in SpeechId : put_voice(id) \/ end_voice(id) \/ serverAnswers(id)
             \/ \E k \in {"broken", "badData"} : linkError(k)
    BY <1>1, <1>5 DEF start_voice, textRead, textStore, textQueue, put_voice, end_voice,
                      serverAnswers, linkError
  <1>6. CASE poll
    <2>1. CASE pollDead
      BY <2>1, DeadRemoves
    <2>2. CASE pollItem
      BY <1>1, <2>2, ItemRemoves
    <2>3. CASE pollReleased \/ pollLook \/ pollSleep
      BY <1>1, <2>3 DEF pollReleased, pollLook, pollSleep
    <2> QED
      BY <1>6, <2>1, <2>2, <2>3 DEF poll
  <1>7. CASE send_reqs
    <2>1. CASE changeStarts
      BY <2>1, NothingSeen DEF changeStarts, Adds, Starts
    <2>3. CASE sendFails
      <3>1. "SERVICE_UNAVAILABLE" \in Errors
        BY DEF Errors
      <3> QED
        BY <2>3, <3>1, FailNone DEF sendFails
    <2>4. CASE sendRefresh
      <3>1. refresh_op_time(FALSE)
        BY <2>4 DEF sendRefresh
      <3> QED
        BY <1>0, <3>1, RefreshKeeps DEF NoneCancelled
    <2>5. CASE sendWaitOp
      BY <2>5, SameNone DEF sendWaitOp
    <2>6. CASE \/ sendQuit \/ sendWait \/ sendTake \/ changeContinues \/ sendErase \/ sendAwake
               \/ \E lost \in BOOLEAN : sendDone(lost)
      BY <1>1, <2>6 DEF sendQuit, sendWait, sendTake, changeContinues, sendDone, sendErase,
                        sendAwake
    <2> QED
      BY <1>7, <2>1, <2>3, <2>4, <2>5, <2>6 DEF send_reqs, do_ctl_change_op, do_request
  <1>8. CASE gen_results
    <2>1. CASE genAnswer
      <3>1. /\ SameOpIds /\ current \in 1 .. Len(operations)
            /\ \A i \in 1 .. Len(operations) : i # current => operations'[i] = operations[i]
            /\ operations'[current].status # "CANCELLED"
        BY <2>1, AnswerKeeps
      <3> QED
        BY <3>1 DEF NoneCancelled
    <2>2. CASE genStale
      <3>1. refresh_op_time(TRUE)
        BY <2>2 DEF genStale
      <3> QED
        BY <1>0, <3>1, RefreshKeeps DEF NoneCancelled
    <2>3. CASE genError
      <3>1. ErrorOf(rx.kind) \in Errors
        BY DEF ErrorOf, Errors
      <3>2. UNCHANGED ctlVars \/ set_op_error(ErrorOf(rx.kind))
        BY <2>3 DEF genError
      <3> QED
        BY <1>1, <3>1, <3>2, FailNone
    <2>4. CASE \/ genTimeout \/ recvPacket \/ recvWait \/ recvTimer \/ recvNothing
               \/ genFinish \/ genErase
      BY <1>1, <2>4 DEF genTimeout, recvPacket, recvWait, recvTimer, recvNothing, genFinish,
                        genErase
    <2> QED
      BY <1>8, <2>1, <2>2, <2>3, <2>4 DEF gen_results
  <1>9. CASE clock
    BY <1>0, <1>9, GrowsIdleKeeps, GrowsSilentKeeps DEF clock, NoneCancelled
  <1> QED
    BY <1>2, <1>3, <1>4, <1>5, <1>6, <1>7, <1>8, <1>9 DEF Next

(* An operation is cancelled for a request the application cancels. *)
LEMMA OpsBlamed ==
  ASSUME IInv, BlameInv, [Next]_vars
  PROVE  \A k \in 1 .. Len(operations') :
           operations'[k].status = "CANCELLED" => MayCancel(operations'[k].id)
  <1> USE DEF IInv
  <1>0. OpType(SpeechId, Errors)
    BY DEF Typed
  <1>1. ASSUME SameOpIds,
               \A i \in 1 .. Len(operations) :
                 operations'[i].status = "CANCELLED" =>
                   operations[i].status = "CANCELLED" \/ MayCancel(operations[i].id)
        PROVE  \A k \in 1 .. Len(operations') :
                 operations'[k].status = "CANCELLED" => MayCancel(operations'[k].id)
    BY <1>1 DEF SameOpIds, BlameInv, MayCancel
  <1>2. CASE NoneCancelled
    BY <1>1, <1>2 DEF NoneCancelled
  <1>3. CASE Adds
    <2>1. reqPc = "change"
      BY <1>3 DEF Adds
    <2> DEFINE n == Len(operations) + 1
    <2>2. /\ Len(operations') = n /\ Len(operations) \in Nat
          /\ \A i \in 1 .. Len(operations) : operations'[i] = operations[i]
          /\ operations'[n].id = req.id
          /\ operations'[n].status = "CANCELLED" => req.type = "CANCELLED"
      BY <1>3, <2>1, AddKeeps, OperationElement DEF Starts
    <2>3. req.type = "CANCELLED" => MayCancel(req.id)
      BY <2>1 DEF BlameInv
    <2>4. ASSUME NEW k \in 1 .. Len(operations'), operations'[k].status = "CANCELLED"
          PROVE  MayCancel(operations'[k].id)
      <3>1. CASE k = n
        BY <2>2, <2>3, <2>4, <3>1 DEF MayCancel
      <3>2. CASE k # n
        <4>1. k \in 1 .. Len(operations) /\ operations'[k] = operations[k]
          BY <2>2, <3>2
        <4> QED
          BY <2>4, <4>1 DEF BlameInv, MayCancel
      <3> QED
        BY <3>1, <3>2
    <2> QED
      BY <2>4
  <1>4. CASE Removes
    <2>1. \A i \in 1 .. Len(operations') :
            operations'[i] = operations[i + 1] /\ i + 1 \in 1 .. Len(operations)
      BY <1>4, RemoveKeeps
    <2> QED
      BY <2>1 DEF BlameInv, MayCancel
  <1>5. CASE cancelOps
    <2>1. PICK id \in cancelling : cancel_op(id)
      BY <1>5 DEF cancelOps
    <2>2. id \in Cancels
      BY DEF BlameInv
    <2>3. \A i \in 1 .. Len(operations) : Hit(id, i) => MayCancel(operations[i].id)
      BY <2>2 DEF Hit, MayCancel
    <2> QED
      BY <1>0, <1>1, <2>1, <2>3, CancelKeeps
  <1>6. CASE changeCancels /\ seen # 0
    <2>1. /\ operations' = [i \in 1 .. Len(operations) |->
                        IF Hit(seen, i) THEN [operations[i] EXCEPT !.status = "CANCELLED"]
                        ELSE operations[i]]
          /\ reqPc = "change" /\ req.type = "CANCELLED"
      BY <1>6 DEF changeCancels
    <2>2. seen = req.id /\ MayCancel(seen)
      BY <1>6, <2>1 DEF SenderInv, BlameInv, MayCancel
    <2>3. \A i \in 1 .. Len(operations) : Hit(seen, i) => MayCancel(operations[i].id)
      BY <1>6, <2>2 DEF Hit, MayCancel
    <2>4. ASSUME NEW i \in 1 .. Len(operations), ~Hit(seen, i)
          PROVE  operations'[i].status = operations[i].status
      BY <2>1, <2>4
    <2>5. SameOpIds
      BY <1>6, HandSettles DEF Settles
    <2> QED
      BY <1>1, <2>3, <2>4, <2>5
  <1>7. CASE changeCancels /\ seen = 0
    <2>1. Adds
      BY <1>7, NothingSeen DEF changeCancels, Adds, NextReq
    <2> QED
      BY <1>3, <2>1
  <1> QED
    BY <1>2, <1>3, <1>4, <1>5, <1>6, <1>7, CancelsOnly

(* Where a text of the queue comes from, and who has marked it. *)
Texted(k, m) ==
  /\ text_reqs'[k].id = text_reqs[m].id
  /\ text_reqs[m].type = "CANCELLED" => text_reqs'[k].type = "CANCELLED"
  /\ text_reqs'[k].type = "CANCELLED" =>
       text_reqs[m].type = "CANCELLED" \/ MayCancel(text_reqs[m].id)

(* Every text of the queue was there before the step, or is new. *)
TextMoves ==
  \A k \in 1 .. Len(text_reqs') :
    \/ \E m \in 1 .. Len(text_reqs) : Texted(k, m)
    \/ /\ text_reqs'[k].type = "TEXT" /\ ReqMutexFree
       /\ \E e \in entering : e.id = text_reqs'[k].id

(* A step that leaves the texts. *)
LEMMA SameTexted == UNCHANGED text_reqs => TextMoves
  BY DEF TextMoves, Texted

(* A text is marked by cancel() only (speech_impl.cc:215-221). *)
LEMMA TextStep ==
  ASSUME Typed, [Next]_vars
  PROVE  TextMoves
  <1>0. QueueType
    BY DEF Typed
  <1>2. CASE UNCHANGED vars
    BY <1>2, SameTexted DEF vars
  <1>3. CASE prepare \/ release
    <2>1. CASE releaseClose
      BY <2>1, EmptySeq DEF releaseClose, TextMoves
    <2> QED
      BY <1>3, <2>1, SameTexted DEF prepare, release, releaseBegin, releaseJoinReq,
                                    releaseJoinResp, queues
  <1>4. ASSUME NEW id \in Cancels, MarkTexts(id)
        PROVE  TextMoves
    <2>1. /\ SameTextIds
          /\ \A i \in 1 .. Len(text_reqs) :
               text_reqs'[i].type = IF id = 0 \/ text_reqs[i].id = id THEN "CANCELLED"
                                    ELSE text_reqs[i].type
      BY <1>0, <1>4, MarkKeeps
    <2>2. \A i \in 1 .. Len(text_reqs) : Texted(i, i)
      BY <2>1 DEF SameTextIds, Texted, MayCancel
    <2> QED
      BY <2>1, <2>2 DEF SameTextIds, TextMoves
  <1>5. CASE cancel
    <2>1. CASE cancelOps \/ \E id \in Cancels : cancelOne(id)
      BY <2>1, SameTexted DEF cancelOps, cancelOne, queues
    <2>2. CASE 0 \in Cancels /\ cancelAll
      BY <1>4, <2>2 DEF cancelAll
    <2>3. ASSUME NEW id \in Cancels, cancelQueued(id)
          PROVE  UNCHANGED text_reqs \/ MarkTexts(id)
      BY <2>3 DEF cancelQueued
    <2> QED
      BY <1>4, <1>5, <2>1, <2>2, <2>3, SameTexted DEF cancel
  <1>6. CASE \E c \in Callers : textRead(c) \/ textStore(c)
    BY <1>6, SameTexted DEF textRead, textStore, queues
  <1>7. CASE \E c \in Callers : textQueue(c)
    <2>1. PICK e \in entering : text_reqs' = Append(text_reqs, Request(e.id, "TEXT", NoData))
      BY <1>7 DEF textQueue
    <2> DEFINE t == Request(e.id, "TEXT", NoData)
    <2>2. t.type = "TEXT" /\ t.id = e.id /\ t \in Text
      BY DEF Request, Text, Typed, RestType
    <2>3. text_reqs' = Append(text_reqs, t) /\ ReqMutexFree
      BY <1>7, <2>1 DEF textQueue
    <2> HIDE DEF t
    <2>4. /\ Len(text_reqs') = Len(text_reqs) + 1 /\ Len(text_reqs) \in Nat
          /\ text_reqs'[Len(text_reqs) + 1] = t
          /\ \A i \in 1 .. Len(text_reqs) : text_reqs'[i] = text_reqs[i]
      BY <1>0, <2>2, <2>3, SeqAppend, SeqElement DEF QueueType
    <2>5. ASSUME NEW k \in 1 .. Len(text_reqs'), k # Len(text_reqs) + 1
          PROVE  k \in 1 .. Len(text_reqs) /\ Texted(k, k)
      BY <2>4, <2>5 DEF Texted
    <2> QED
      BY <2>2, <2>3, <2>4, <2>5 DEF TextMoves
  <1>8. CASE \/ start_voice \/ clock \/ \E k \in {"broken", "badData"} : linkError(k)
             \/ \E id \in SpeechId : put_voice(id) \/ end_voice(id) \/ serverAnswers(id)
    BY <1>8, SameTexted DEF start_voice, clock, linkError, put_voice, end_voice, serverAnswers,
                            queues
  <1>9. CASE poll
    BY <1>9, SameTexted DEF poll, pollReleased, pollLook, pollSleep, pollDead, pollItem, queues
  <1>10. CASE send_reqs
    <2>1. CASE sendTake
      <3>1. text_reqs' = text_reqs \/ (text_reqs # <<>> /\ text_reqs' = Tail(text_reqs))
        BY <2>1 DEF sendTake, Idle
      <3>2. CASE text_reqs # <<>> /\ text_reqs' = Tail(text_reqs)
        <4>1. /\ Len(text_reqs) \in Nat \ {0} /\ Len(text_reqs') = Len(text_reqs) - 1
              /\ \A i \in 1 .. Len(text_reqs) - 1 : text_reqs'[i] = text_reqs[i + 1]
          BY <1>0, <3>2, SeqTail DEF QueueType
        <4>2. ASSUME NEW k \in 1 .. Len(text_reqs')
              PROVE  k + 1 \in 1 .. Len(text_reqs) /\ Texted(k, k + 1)
          BY <4>1 DEF Texted
        <4> QED
          BY <4>2 DEF TextMoves
      <3> QED
        BY <3>1, <3>2, SameTexted
    <2>2. CASE ~sendTake
      BY <1>10, <2>2, SameTexted DEF send_reqs, sendQuit, sendWait, do_ctl_change_op,
           changeStarts, changeContinues, changeCancels, do_request, sendDone, sendFails,
           sendErase, sendRefresh, sendWaitOp, sendAwake, queues
    <2> QED
      BY <2>1, <2>2
  <1>11. CASE gen_results
    BY <1>11, SameTexted DEF gen_results, genTimeout, recvPacket, recvWait, recvTimer,
           recvNothing, genAnswer, genFinish, genStale, genError, genErase, queues
  <1> QED
    BY <1>2, <1>3, <1>5, <1>6, <1>7, <1>8, <1>9, <1>10, <1>11 DEF Next

(* A queued text is marked by cancel(). *)
LEMMA TextsBlamed ==
  ASSUME Typed, BlameInv, [Next]_vars
  PROVE  \A k \in 1 .. Len(text_reqs') :
           text_reqs'[k].type = "CANCELLED" => MayCancel(text_reqs'[k].id)
  BY TextStep DEF TextMoves, Texted, BlameInv, MayCancel

(* cancel() keeps the id it was given, and forgets it when it is done. *)
LEMMA CancellingSteps ==
  ASSUME [Next]_vars
  PROVE  \/ cancelling' = cancelling \/ cancelling' = {}
         \/ \E id \in Cancels : cancelOne(id)
         \/ 0 \in Cancels /\ cancelAll
  <1>1. CASE UNCHANGED cancelling
    BY <1>1
  <1>2. CASE UNCHANGED vars
    BY <1>1, <1>2 DEF vars
  <1>3. CASE prepare \/ release
    BY <1>1, <1>3 DEF prepare, release, releaseBegin, releaseClose, releaseJoinReq,
                      releaseJoinResp
  <1>4. CASE cancel
    <2>1. CASE cancelOps
      BY <2>1 DEF cancelOps
    <2>2. ASSUME NEW id \in Cancels, cancelQueued(id) PROVE cancelling' = cancelling
      BY <2>2 DEF cancelQueued, runVars
    <2> QED
      BY <1>4, <2>1, <2>2 DEF cancel
  <1>5. CASE \/ start_voice \/ \E c \in Callers : textRead(c) \/ textStore(c) \/ textQueue(c)
             \/ \E id \in SpeechId : put_voice(id) \/ end_voice(id) \/ serverAnswers(id)
             \/ \E k \in {"broken", "badData"} : linkError(k)
    BY <1>1, <1>5 DEF start_voice, textRead, textStore, textQueue, put_voice, end_voice,
                      serverAnswers, linkError, runVars
  <1>6. CASE poll
    BY <1>1, <1>6 DEF poll, pollReleased, pollLook, pollSleep, pollDead, pollItem, runVars
  <1>7. CASE send_reqs
    BY <1>1, <1>7 DEF send_reqs, sendQuit, sendWait, sendTake, do_ctl_change_op,
           changeStarts, changeContinues, changeCancels, do_request, sendDone, sendFails,
           sendErase, sendRefresh, sendWaitOp, sendAwake, runVars
  <1>8. CASE gen_results
    BY <1>1, <1>8 DEF gen_results, genTimeout, recvPacket, recvWait, recvTimer, recvNothing,
           genAnswer, genFinish, genStale, genError, genErase, runVars
  <1>9. CASE clock
    BY <1>1, <1>9 DEF clock, runVars
  <1> QED
    BY <1>2, <1>3, <1>4, <1>5, <1>6, <1>7, <1>8, <1>9 DEF Next

(* cancel() is called for the ids of Cancels only. *)
LEMMA CancellingKept ==
  ASSUME cancelling \subseteq Cancels, [Next]_vars
  PROVE  cancelling' \subseteq Cancels
  <1>1. ASSUME NEW id \in Cancels, cancelOne(id) PROVE cancelling' \subseteq Cancels
    BY <1>1 DEF cancelOne
  <1>2. CASE 0 \in Cancels /\ cancelAll
    BY <1>2 DEF cancelAll
  <1> QED
    BY <1>1, <1>2, CancellingSteps

(* A cancelled request in hand comes from a marked text or voice. *)
LEMMA HandBlamed ==
  ASSUME Typed, BlameInv, [Next]_vars, reqPc' \notin {"dead", "top", "asleep"},
         req'.type = "CANCELLED"
  PROVE  MayCancel(req'.id)
  <1>1. CASE ~sendTake
    BY <1>1, HandKept DEF BlameInv, MayCancel
  <1>2. CASE sendTake
    <2>1. QueueType
      BY DEF Typed
    <2>2. CASE PopType(voice_reqs) # "EMPTY"
      <3>1. req' = VoiceReq(PopItem(voice_reqs))
        BY <1>2, <2>2 DEF sendTake
      <3>2. /\ 1 \in 1 .. Len(voice_reqs) /\ voice_reqs # <<>>
            /\ req'.id = voice_reqs[1].id
            /\ req'.type = CASE PopType(voice_reqs) = "DATA"    -> "VOICE_DATA"
                             [] PopType(voice_reqs) = "START"   -> "VOICE_START"
                             [] PopType(voice_reqs) = "REMOVED" -> "CANCELLED"
                             [] OTHER                           -> "VOICE_END"
        BY <2>1, <2>2, <3>1, VoiceItem
      <3>3. PopType(voice_reqs) = "REMOVED"
        BY <3>2
      <3>4. voice_reqs[1].type = "deleted"
        BY <3>2, <3>3 DEF PopType, FrontType
      <3> QED
        BY <3>2, <3>4 DEF BlameInv, MayCancel
    <2>3. CASE PopType(voice_reqs) = "EMPTY"
      <3>1. text_reqs # <<>> /\ req' = Head(text_reqs)
        BY <1>2, <2>3 DEF sendTake, Idle
      <3>2. req' = text_reqs[1] /\ 1 \in 1 .. Len(text_reqs)
        BY <2>1, <3>1, SeqTail DEF QueueType
      <3> QED
        BY <3>2 DEF BlameInv, MayCancel
    <2> QED
      BY <2>2, <2>3
  <1> QED
    BY <1>1, <1>2

(* Nothing is cancelled that the application does not cancel (cancel,      *)
(* do_ctl_change_op, poll).                                                *)
LEMMA BlameStep ==
  ASSUME IInv, BlameInv, [Next]_vars
  PROVE  BlameInv'
  <1> USE DEF IInv
  <1>1. \A k \in 1 .. Len(operations') :
          operations'[k].status = "CANCELLED" => MayCancel(operations'[k].id)
    BY OpsBlamed
  <1>2. \A k \in 1 .. Len(text_reqs') :
          text_reqs'[k].type = "CANCELLED" => MayCancel(text_reqs'[k].id)
    BY TextsBlamed
  <1>3. ASSUME NEW k \in 1 .. Len(voice_reqs'), voice_reqs'[k].type = "deleted"
        PROVE  MayCancel(voice_reqs'[k].id)
    <2>1. PICK m \in 1 .. Len(voice_reqs) : Voiced(k, m)
      BY <1>3, VoiceStep DEF VoiceMoves
    <2>2. MayCancel(voice_reqs[m].id)
      BY <1>3, <2>1 DEF Voiced, BlameInv
    <2> QED
      BY <2>1, <2>2 DEF Voiced, MayCancel
  <1>4. reqPc' \notin {"dead", "top", "asleep"} /\ req'.type = "CANCELLED" => MayCancel(req'.id)
    BY HandBlamed
  <1>5. cancelling' \subseteq Cancels
    BY CancellingKept DEF BlameInv
  <1> QED
    BY <1>1, <1>2, <1>3, <1>4, <1>5 DEF BlameInv, MayCancel

(* poll() returns results of operations, and these are behind the queues. *)
LEMMA HeardStep ==
  ASSUME Orderly, IInv, HeardType, HeardInv, [Next]_vars
  PROVE  HeardInv'
  <1> USE DEF IInv
  <1> SUFFICES ASSUME NEW i \in SpeechId, heard'[i] # <<>> PROVE Behind(i)'
    BY DEF HeardInv
  <1>1. Behind(i)
    <2>1. CASE heard' = heard
      BY <2>1 DEF HeardInv
    <2>2. ASSUME NEW label \in Labels, Hears(label) PROVE Behind(i)
      <3>1. i = operations[1].id \/ heard'[i] = heard[i]
        BY <2>2, HeardGrows
      <3>2. Behind(operations[1].id)
        <4>1. 1 \in 1 .. Len(operations)
          BY <2>2, SeqTail DEF Hears, Typed, OpType
        <4> QED
          BY <4>1 DEF OpOrder
      <3> QED
        BY <3>1, <3>2 DEF HeardInv
    <2> QED
      BY <2>1, <2>2, HeardSteps
  <1> QED
    BY <1>1, BehindStep, IdsAreNat

(* A request that has ended is over: it has no operation. *)
LEMMA EndStep ==
  ASSUME Orderly, IInv, HeardType, HeardInv, BlameInv, EndInv, [Next]_vars
  PROVE  EndInv'
  <1> USE DEF IInv
  <1> SUFFICES ASSUME NEW i \in SpeechId, ~MayCancel(i), HasEnded(heard'[i]), i \in OpIds'
               PROVE  FALSE
    BY DEF EndInv, MayCancel
  <1>0. PICK k \in 1 .. Len(operations') : operations'[k].id = i
    BY DEF OpIds
  <1>1. CASE heard' = heard /\ Settles
    BY <1>1 DEF EndInv, Settles, SameOpIds, OpIds
  <1>2. CASE heard' = heard /\ Adds
    <2>1. i \notin OpIds
      BY <1>2 DEF EndInv
    <2>2. reqPc = "change"
      BY <1>2 DEF Adds
    <2> DEFINE n == Len(operations) + 1
    <2>3. /\ Len(operations') = n /\ Len(operations) \in Nat
          /\ \A j \in 1 .. Len(operations) : operations'[j] = operations[j]
          /\ operations'[n].id = req.id
          /\ req.type \in Starts \/ req.type = "CANCELLED"
      BY <1>2, <2>2, AddKeeps, OperationElement
    <2>4. k = n
      <3>1. SUFFICES ASSUME k # n PROVE FALSE
        OBVIOUS
      <3>2. k \in 1 .. Len(operations) /\ operations[k].id = i
        BY <1>0, <2>3, <3>1
      <3> QED
        BY <2>1, <3>2 DEF OpIds
    <2>5. req.id = i
      BY <1>0, <2>3, <2>4
    <2>6. req.type \in Starts
      BY <2>2, <2>3, <2>5 DEF BlameInv
    <2>7. heard[i] # <<>>
      BY <1>2, EmptySeq DEF HasEnded
    <2>8. Behind(i) /\ i \in Nat
      BY <2>7, IdsAreNat DEF HeardInv
    <2> QED
      BY <2>2, <2>5, <2>6, <2>8 DEF Behind
  <1>3. ASSUME NEW label \in Labels, Hears(label) PROVE FALSE
    <2>1. HasEnded(heard[i]) \/ (i = operations[1].id /\ label \in Terminal)
      BY <1>3, HeardGrows
    <2>2. CASE label \notin Terminal
      <3>1. operations' = operations /\ HasEnded(heard[i])
        BY <1>3, <2>1, <2>2 DEF Hears, ctlVars
      <3> QED
        BY <3>1 DEF EndInv, OpIds
    <2>3. CASE label \in Terminal
      <3>1. Removes
        BY <1>3, <2>3 DEF Hears
      <3>2. operations'[k] = operations[k + 1] /\ k + 1 \in 1 .. Len(operations)
        BY <3>1, RemoveKeeps
      <3>3. operations[k + 1].id = i
        BY <1>0, <3>2
      <3>4. i \in OpIds
        BY <3>2, <3>3 DEF OpIds
      <3>5. i = operations[1].id
        BY <2>1, <3>4 DEF EndInv
      <3>6. 1 \in 1 .. (k + 1) - 1
        BY <3>2, OperationElement
      <3>7. operations[k + 1].status = "CANCELLED"
        BY <3>2, <3>3, <3>5, <3>6 DEF OpOrder
      <3> QED
        BY <3>2, <3>3, <3>7 DEF BlameInv
    <2> QED
      BY <2>2, <2>3
  <1> QED
    BY <1>1, <1>2, <1>3, HeardSteps

(* No result follows the last one (poll, speech_impl.cc:279-343). *)
LEMMA TerminalStep ==
  ASSUME IInv, HeardType, EndInv, OneTerminal, [Next]_vars
  PROVE  OneTerminal'
  <1> USE DEF IInv
  <1> SUFFICES ASSUME NEW i \in SpeechId, ~MayCancel(i), NEW j \in 1 .. Len(heard'[i]) - 1
               PROVE  heard'[i][j] \notin Terminal
    BY DEF OneTerminal, MayCancel
  <1>1. CASE heard'[i] = heard[i]
    BY <1>1 DEF OneTerminal
  <1>2. ASSUME NEW label \in Labels, Hears(label), heard'[i] # heard[i]
        PROVE  heard'[i][j] \notin Terminal
    <2>1. /\ i = operations[1].id /\ heard'[i] = Append(heard[i], label)
          /\ heard[i] \in Seq(Labels)
      BY <1>2, HeardGrows
    <2>2. i \in OpIds
      <3>1. 1 \in 1 .. Len(operations)
        BY <1>2, SeqTail DEF Hears, Typed, OpType
      <3> QED
        BY <2>1, <3>1 DEF OpIds
    <2>3. ~HasEnded(heard[i])
      BY <2>2 DEF EndInv
    <2>4. /\ Len(heard'[i]) = Len(heard[i]) + 1 /\ Len(heard[i]) \in Nat
          /\ \A k \in 1 .. Len(heard[i]) : heard'[i][k] = heard[i][k]
      BY <2>1, SeqAppend, SeqElement
    <2>5. j \in 1 .. Len(heard[i])
      BY <2>4
    <2> QED
      BY <2>3, <2>4, <2>5 DEF HasEnded
  <1> QED
    BY <1>1, <1>2, HeardSteps

(* Nothing has happened at the start. *)
LEMMA InitEnds == Init => EInv /\ OneTerminal
  <1> SUFFICES ASSUME Init PROVE EInv /\ OneTerminal
    OBVIOUS
  <1>1. KInv
    BY InitStarted
  <1>2. /\ voice_reqs = <<>> /\ text_reqs = <<>> /\ operations = <<>> /\ reqPc = "dead"
        /\ cancelling = {} /\ heard = [i \in SpeechId |-> <<>>]
    BY DEF Init, CtlInit
  <1>3. BlameInv
    BY <1>2, EmptySeq DEF BlameInv
  <1>4. \A i \in SpeechId : heard[i] = <<>>
    BY <1>2
  <1>5. HeardInv /\ EndInv
    BY <1>4, EmptySeq DEF HeardInv, EndInv, HasEnded
  <1>6. OneTerminal
    BY <1>4, EmptySeq DEF OneTerminal
  <1> QED
    BY <1>1, <1>3, <1>5, <1>6 DEF EInv

(* Every step keeps the invariant. *)
LEMMA NextEnds ==
  ASSUME Orderly, EInv, [Next]_vars
  PROVE  EInv'
  <1>1. KInv'
    BY NextStarted DEF EInv
  <1>2. HeardInv' /\ BlameInv' /\ EndInv'
    BY HeardStep, BlameStep, EndStep DEF EInv, KInv
  <1> QED
    BY <1>1, <1>2 DEF EInv

(* A request that nobody cancels has one last result, and none after it    *)
(* (speech_impl.cc:279-343): only cancel() cancels, and a request that     *)
(* has ended has neither an operation nor a place in a queue.              *)
THEOREM EndsOnce ==
  ASSUME Orderly PROVE Spec => []OneTerminal
  <1>1. Init => EInv /\ OneTerminal
    BY InitEnds
  <1>2. EInv /\ OneTerminal /\ [Next]_vars => EInv' /\ OneTerminal'
    BY NextEnds, TerminalStep DEF EInv, KInv
  <1> QED
    BY <1>1, <1>2, PTL DEF Spec

(* A request that is cancelled wherever it is, stays so (send_reqs,        *)
(* do_ctl_change_op, poll).                                                *)
LEMMA GoneStep ==
  ASSUME Orderly, "voice" \notin Kinds, IInv, [Next]_vars, NEW i \in Nat, Gone(i)
  PROVE  Gone(i)'
  <1> USE DEF IInv
  <1>0. QueueType /\ next_id \in Nat /\ ~start_voice /\ voice_reqs = <<>>
    BY SpeechAssumption DEF Typed, RestType, start_voice, KindInv
  <1>1. i <= next_id' /\ \A e \in entering' : e.id # i
    <2>1. CASE Kept
      BY <2>1 DEF Kept, Gone
    <2>2. CASE prepare
      BY <2>2 DEF prepare, FreshInv, Init, Gone
    <2>3. CASE releaseClose \/ sendTake
      BY <2>3 DEF releaseClose, sendTake, appVars, Gone
    <2>4. ASSUME NEW c \in Callers, textRead(c) PROVE i <= next_id' /\ \A e \in entering' : e.id # i
      <3> DEFINE f == [by |-> c, id |-> next_id + 1, stored |-> FALSE]
      <3>1. entering' = entering \cup {f} /\ next_id' = next_id
        BY <2>4 DEF textRead
      <3>2. f.id = next_id + 1
        OBVIOUS
      <3> HIDE DEF f
      <3> QED
        BY <1>0, <3>1, <3>2 DEF Gone
    <2>5. ASSUME NEW c \in Callers, textStore(c)
          PROVE  i <= next_id' /\ \A e \in entering' : e.id # i
      <3>1. PICK e \in entering :
              /\ ~e.stored /\ next_id' = e.id
              /\ entering' = (entering \ {e}) \cup {[e EXCEPT !.stored = TRUE]}
        BY <2>5 DEF textStore
      <3> DEFINE f == [e EXCEPT !.stored = TRUE]
      <3>2. f.id = e.id
        BY DEF Typed, RestType
      <3>3. entering' = (entering \ {e}) \cup {f}
        BY <3>1
      <3> HIDE DEF f
      <3>4. e.id = next_id + 1
        BY <3>1 DEF QueueInv
      <3> QED
        BY <1>0, <3>1, <3>2, <3>3, <3>4 DEF Gone
    <2>6. ASSUME NEW c \in Callers, textQueue(c)
          PROVE  i <= next_id' /\ \A e \in entering' : e.id # i
      BY <2>6 DEF textQueue, Gone
    <2> QED
      BY <1>0, <2>1, <2>2, <2>3, <2>4, <2>5, <2>6, QueueSteps DEF Moves
  <1>2. ASSUME NEW k \in 1 .. Len(text_reqs'), text_reqs'[k].id = i
        PROVE  text_reqs'[k].type = "CANCELLED"
    BY <1>2, TextStep DEF TextMoves, Texted, Gone
  <1>3. reqPc' = "change" /\ req'.id = i => req'.type = "CANCELLED"
    <2> SUFFICES ASSUME reqPc' = "change", req'.id = i PROVE req'.type = "CANCELLED"
      OBVIOUS
    <2>1. CASE Held
      BY <2>1 DEF Held, Gone
    <2>2. CASE sendTake
      <3>1. text_reqs # <<>> /\ req' = Head(text_reqs)
        BY <1>0, <2>2 DEF sendTake, Idle, PopType
      <3>2. req' = text_reqs[1] /\ 1 \in 1 .. Len(text_reqs)
        BY <1>0, <3>1, SeqTail DEF QueueType
      <3> QED
        BY <3>2 DEF Gone
    <2> QED
      BY <2>1, <2>2, HandSteps
  <1>4. ASSUME NEW k \in 1 .. Len(operations'), operations'[k].id = i
        PROVE  operations'[k].status = "CANCELLED"
    <2>1. CASE Settles
      BY <1>4, <2>1 DEF Settles, SameOpIds, Gone
    <2>2. CASE Adds
      <3>1. reqPc = "change"
        BY <2>2 DEF Adds
      <3>2. /\ Len(operations') = Len(operations) + 1 /\ Len(operations) \in Nat
            /\ \A j \in 1 .. Len(operations) : operations'[j] = operations[j]
            /\ operations'[Len(operations) + 1].id = req.id
            /\ \/ operations'[Len(operations) + 1].status = "CANCELLED"
               \/ req.type \in Starts
        BY <2>2, <3>1, AddKeeps, OperationElement
      <3>3. CASE k = Len(operations) + 1
        <4>1. req.type = "CANCELLED"
          BY <1>4, <3>1, <3>2, <3>3 DEF Gone
        <4> QED
          BY <3>2, <3>3, <4>1 DEF Starts
      <3>4. CASE k # Len(operations) + 1
        <4>1. k \in 1 .. Len(operations)
          BY <3>2, <3>4
        <4> QED
          BY <1>4, <3>2, <4>1 DEF Gone
      <3> QED
        BY <3>3, <3>4
    <2>3. CASE Removes
      <3>1. operations'[k] = operations[k + 1] /\ k + 1 \in 1 .. Len(operations)
        BY <2>3, RemoveKeeps
      <3> QED
        BY <1>4, <3>1 DEF Gone
    <2> QED
      BY <2>1, <2>2, <2>3, OpEffect
  <1> QED
    BY <1>1, <1>2, <1>3, <1>4 DEF Gone

(* cancel() returns for an id when nothing of it is left to answer. *)
LEMMA CancelGone ==
  ASSUME IInv, "voice" \notin Kinds, GoneInv, cancelOps, NEW i \in dropped', i \notin dropped
  PROVE  i \in SpeechId /\ Gone(i)'
  <1> USE DEF IInv
  <1>0. QueueType /\ next_id \in Nat /\ voice_reqs = <<>> /\ OpType(SpeechId, Errors)
    BY SpeechAssumption DEF Typed, RestType, KindInv
  <1>1. PICK id \in cancelling :
          /\ cancel_op(id)
          /\ dropped' = dropped \cup
               (IF id = 0 THEN OpIds \cup QueuedTexts \cup
                                 {voice_reqs[k].id : k \in 1 .. Len(voice_reqs)}
                ELSE {id} \cap OpIds)
    BY DEF cancelOps
  <1>2. UNCHANGED <<next_id, text_reqs, entering, req, reqPc>> /\ reqPc # "change"
    BY <1>1 DEF cancelOps, appVars, queues, sendVars, GoneInv
  <1>3. (id = 0 \/ i = id) /\ i \in OpIds \cup QueuedTexts /\ (id # 0 => i \in OpIds)
    BY <1>0, <1>1, EmptySeq
  <1>4. i \in OpIds => i \in SpeechId /\ Passed(i)
    <2> SUFFICES ASSUME NEW k \in 1 .. Len(operations), operations[k].id = i
                 PROVE  i \in SpeechId /\ Passed(i)
      BY DEF OpIds
    <2> QED
      BY OperationElement DEF OpOrder, Behind
  <1>5. i \in QueuedTexts =>
          i \in SpeechId /\ i \in Nat /\ i <= next_id /\ \A e \in entering : i < e.id
    <2> SUFFICES ASSUME NEW k \in 1 .. Len(text_reqs), text_reqs[k].id = i
                 PROVE  i \in SpeechId /\ i \in Nat /\ i <= next_id /\ \A e \in entering : i < e.id
      BY DEF QueuedTexts
    <2> QED
      BY <1>0, QueueElement, IdsAreNat DEF QueueInv
  <1>6. i \in SpeechId /\ i \in Nat /\ i <= next_id /\ \A e \in entering : e.id # i
    <2>1. i \in SpeechId /\ i \in Nat /\ i <= next_id /\ \A e \in entering : i < e.id
      BY <1>3, <1>4, <1>5, IdsAreNat DEF Passed
    <2> QED
      BY <2>1
  <1>7. ASSUME NEW k \in 1 .. Len(text_reqs), text_reqs[k].id = i
        PROVE  text_reqs[k].type = "CANCELLED"
    <2>1. CASE id = 0
      BY <1>1, <2>1 DEF GoneInv
    <2>2. CASE id # 0
      BY <1>3, <1>4, <1>6, <1>7, <2>2 DEF Passed
    <2> QED
      BY <2>1, <2>2
  <1>8. ASSUME NEW k \in 1 .. Len(operations), operations[k].id = i, ~Hit(id, k)
        PROVE  operations[k].status = "CANCELLED"
    <2>1. id = i
      BY <1>3, <1>8 DEF Hit
    <2>2. PICK j \in 1 .. k - 1 : operations[j].id = i
      BY <1>8, <2>1 DEF Hit
    <2> QED
      BY <1>8, <2>2 DEF OpOrder
  <1>9. /\ SameOpIds
        /\ \A k \in 1 .. Len(operations) :
             operations'[k].status = IF Hit(id, k) THEN "CANCELLED" ELSE operations[k].status
    BY <1>0, <1>1, CancelKeeps
  <1>10. \A k \in 1 .. Len(operations') :
           operations'[k].id = i => operations'[k].status = "CANCELLED"
    BY <1>8, <1>9 DEF SameOpIds
  <1> QED
    BY <1>2, <1>6, <1>7, <1>10 DEF Gone

(* cancel() of a queued text marks it (speech_impl.cc:215-221). *)
LEMMA QueuedGone ==
  ASSUME IInv, "voice" \notin Kinds, NEW i \in Cancels, cancelQueued(i)
  PROVE  i \in SpeechId /\ Gone(i)'
  <1> USE DEF IInv
  <1>0. QueueType /\ next_id \in Nat /\ voice_reqs = <<>>
    BY SpeechAssumption DEF Typed, RestType, KindInv
  <1>1. ~HasStream(voice_reqs, i)
    BY <1>0, EmptySeq DEF HasStream
  <1>2. /\ i \in QueuedTexts /\ MarkTexts(i) /\ reqPc # "change" /\ reqPc' = reqPc
        /\ UNCHANGED <<operations, next_id, entering>>
    BY <1>1 DEF cancelQueued, ReqMutexFree, appVars, ctlVars
  <1>3. PICK k \in 1 .. Len(text_reqs) : text_reqs[k].id = i
    BY <1>2 DEF QueuedTexts
  <1>4. i \in SpeechId /\ i \in Nat /\ i <= next_id /\ \A e \in entering : i < e.id
    BY <1>0, <1>3, QueueElement, IdsAreNat DEF QueueInv
  <1>5. ASSUME NEW m \in 1 .. Len(operations), operations[m].id = i PROVE FALSE
    <2>1. Passed(i)
      BY <1>5 DEF OpOrder, Behind
    <2> QED
      BY <1>3, <1>4, <2>1 DEF Passed
  <1>6. /\ SameTextIds
        /\ \A m \in 1 .. Len(text_reqs) : text_reqs[m].id = i => text_reqs'[m].type = "CANCELLED"
    BY <1>0, <1>2, MarkKeeps
  <1>7. i <= next_id' /\ \A e \in entering' : e.id # i
    BY <1>2, <1>4
  <1>8. \A m \in 1 .. Len(text_reqs') : text_reqs'[m].id = i => text_reqs'[m].type = "CANCELLED"
    BY <1>6 DEF SameTextIds
  <1> QED
    BY <1>2, <1>4, <1>5, <1>7, <1>8 DEF Gone

(* Only cancel() adds to the ids it has returned for. *)
LEMMA DroppedSteps ==
  ASSUME [Next]_vars
  PROVE  \/ dropped' \subseteq dropped \/ cancelOps
         \/ \E id \in Cancels : cancelQueued(id) /\ dropped' = dropped \cup {id}
  <1>1. CASE UNCHANGED dropped
    BY <1>1
  <1>2. CASE UNCHANGED vars
    BY <1>1, <1>2 DEF vars
  <1>3. CASE prepare \/ release
    BY <1>1, <1>3 DEF prepare, release, releaseBegin, releaseClose, releaseJoinReq,
                      releaseJoinResp, pollVars
  <1>4. CASE cancel
    <2>1. ASSUME NEW id \in Cancels, cancelQueued(id) PROVE dropped' = dropped \cup {id}
      BY <2>1 DEF cancelQueued
    <2>2. CASE cancelAll \/ \E id \in Cancels : cancelOne(id)
      BY <1>1, <2>2 DEF cancelAll, cancelOne, pollVars
    <2> QED
      BY <1>4, <2>1, <2>2 DEF cancel
  <1>5. CASE \/ start_voice \/ \E c \in Callers : textRead(c) \/ textStore(c) \/ textQueue(c)
             \/ \E id \in SpeechId : put_voice(id) \/ end_voice(id) \/ serverAnswers(id)
             \/ \E k \in {"broken", "badData"} : linkError(k)
    BY <1>1, <1>5 DEF start_voice, textRead, textStore, textQueue, put_voice, end_voice,
                      serverAnswers, linkError, pollVars
  <1>6. CASE poll
    <2>1. CASE pollItem
      <3>1. dropped' = dropped \ {PopItem(responses).id} \/ dropped' = dropped
        BY <2>1 DEF pollItem
      <3> QED
        BY <3>1
    <2>2. CASE pollReleased \/ pollLook \/ pollSleep \/ pollDead
      BY <2>2 DEF pollReleased, pollLook, pollSleep, pollDead
    <2> QED
      BY <1>6, <2>1, <2>2 DEF poll
  <1>7. CASE send_reqs
    BY <1>1, <1>7 DEF send_reqs, sendQuit, sendWait, sendTake, do_ctl_change_op,
           changeStarts, changeContinues, changeCancels, do_request, sendDone, sendFails,
           sendErase, sendRefresh, sendWaitOp, sendAwake, pollVars
  <1>8. CASE gen_results
    BY <1>1, <1>8 DEF gen_results, genTimeout, recvPacket, recvWait, recvTimer, recvNothing,
           genAnswer, genFinish, genStale, genError, genErase, pollVars
  <1>9. CASE clock
    BY <1>1, <1>9 DEF clock, pollVars
  <1> QED
    BY <1>2, <1>3, <1>4, <1>5, <1>6, <1>7, <1>8, <1>9 DEF Next

(* Every step keeps that. *)
LEMMA GoneInvStep ==
  ASSUME Orderly, "voice" \notin Kinds, IInv, GoneInv, [Next]_vars
  PROVE  GoneInv'
  <1> USE DEF IInv
  <1>1. ASSUME NEW i \in dropped' PROVE i \in SpeechId /\ Gone(i)'
    <2>1. CASE i \in dropped
      BY <2>1, GoneStep, IdsAreNat DEF GoneInv
    <2>2. CASE i \notin dropped
      BY <2>2, CancelGone, QueuedGone, DroppedSteps
    <2> QED
      BY <2>1, <2>2
  <1>2. cancelling' # {} => reqPc' # "change"
    <2>1. ASSUME cancelling' # {}, reqPc' = "change" PROVE FALSE
      <3>1. Held \/ (reqPc = "top" /\ ReqMutexFree /\ sendTake)
        BY HandSteps DEF sendTake
      <3>2. cancelling = {}
        BY <2>1, <3>1 DEF Held, GoneInv, ReqMutexFree
      <3>3. CASE \E id \in Cancels : cancelOne(id)
        BY <2>1, <3>3 DEF cancelOne, ReqMutexFree, sendVars
      <3>4. CASE cancelAll
        BY <2>1, <3>4 DEF cancelAll, ReqMutexFree, WakeReq
      <3> QED
        BY <2>1, <3>2, <3>3, <3>4, CancellingSteps
    <2> QED
      BY <2>1
  <1>3. ASSUME 0 \in cancelling', NEW k \in 1 .. Len(text_reqs')
        PROVE  text_reqs'[k].type = "CANCELLED"
    <2>1. CASE cancelling' = cancelling
      BY <1>3, <2>1, TextStep DEF TextMoves, Texted, GoneInv, ReqMutexFree
    <2>2. CASE cancelAll
      <3>1. MarkTexts(0) /\ QueueType
        BY <2>2 DEF cancelAll, Typed
      <3>2. /\ SameTextIds
            /\ \A m \in 1 .. Len(text_reqs) : text_reqs'[m].type = "CANCELLED"
        BY <3>1, MarkKeeps
      <3> QED
        BY <3>2 DEF SameTextIds
    <2>3. ASSUME NEW id \in Cancels, cancelOne(id) PROVE FALSE
      <3>1. id = 0 /\ id \in 1 .. next_id
        BY <1>3, <2>3 DEF cancelOne
      <3>2. next_id \in Nat
        BY SpeechAssumption DEF Typed, RestType
      <3> QED
        BY <3>1, <3>2
    <2> QED
      BY <1>3, <2>1, <2>2, <2>3, CancellingSteps
  <1>4. \A i \in dropped' : i \in SpeechId /\ Gone(i)'
    BY <1>1
  <1> QED
    BY <1>2, <1>3, <1>4 DEF GoneInv, Gone

(* After cancel() has returned, poll() only returns CANCELLED. *)
LEMMA HonourStep ==
  ASSUME IInv, HeardType, GoneInv, [Next]_vars, NEW i \in dropped, heard'[i] # heard[i]
  PROVE  heard'[i] = Append(heard[i], "CANCELLED")
  <1> USE DEF IInv
  <1>1. PICK label \in Labels : Hears(label)
    BY HeardSteps
  <1>3. 1 \in 1 .. Len(operations)
    BY <1>1, SeqTail DEF Hears, Typed, OpType
  <1>4. i \in SpeechId
    BY DEF GoneInv
  <1>5. i = operations[1].id /\ heard'[i] = Append(heard[i], label)
    BY <1>1, <1>4, HeardGrows
  <1>6. operations[1].status = "CANCELLED"
    BY <1>3, <1>5 DEF GoneInv, Gone
  <1> QED
    BY <1>1, <1>5, <1>6 DEF Hears

(* Once cancel(id) has returned, poll() returns nothing but CANCELLED for  *)
(* that text (speech_impl.cc:205-236, op_ctl.h:68-85): it is a marked      *)
(* text, or a cancelled operation. A voice is no such case: it goes on     *)
(* answering until send_reqs() takes its REMOVED.                          *)
THEOREM CancelsAreHonoured ==
  ASSUME Orderly, "voice" \notin Kinds PROVE Spec => CancelHonoured
  <1> DEFINE I == KInv /\ GoneInv
  <1>1. Init => I
    BY InitStarted, EmptySeq DEF Init, GoneInv
  <1>2. I /\ [Next]_vars => I'
    BY NextStarted, GoneInvStep DEF KInv
  <1>3. I /\ [Next]_vars =>
          [\A i \in dropped : heard'[i] # heard[i] =>
             heard'[i] = Append(heard[i], "CANCELLED")]_vars
    BY HonourStep DEF KInv
  <1> QED
    BY <1>1, <1>2, <1>3, PTL DEF Spec, CancelHonoured

(* A packet is received in recv() only. *)
LEMMA NetKept ==
  ASSUME NetInv, UNCHANGED inbox, UNCHANGED genVars
  PROVE  NetInv'
  BY DEF NetInv, genVars

(* The connection delivers a packet. *)
LEMMA NetGrows ==
  ASSUME NetInv, NEW p \in Packet, Deliver(p), rx' = rx
  PROVE  NetInv'
  <1>1. Append(inbox, p) \in Seq(Packet)
    BY SeqAppend DEF NetInv
  <1>2. respPc' # "asleep" /\ (respPc' = "handle" => respPc = "handle")
    BY DEF Deliver, WakeRecv
  <1> QED
    BY <1>1, <1>2 DEF NetInv, Deliver

(* What the receiving thread has in hand is a packet, and it only sleeps   *)
(* on an empty list (SpeechConnection::recv).                              *)
LEMMA NetStep ==
  ASSUME NetInv, [Next]_vars
  PROVE  NetInv'
  <1>1. CASE UNCHANGED vars
    BY <1>1, NetKept DEF vars, genVars
  <1>2. CASE prepare \/ release
    <2>1. CASE prepare
      BY <2>1 DEF prepare, NetInv
    <2>2. CASE releaseClose
      BY <2>2 DEF releaseClose, WakeRecv, NetInv
    <2>3. CASE releaseBegin \/ releaseJoinReq \/ releaseJoinResp
      BY <2>3, NetKept DEF releaseBegin, releaseJoinReq, releaseJoinResp, netVars
    <2> QED
      BY <1>2, <2>1, <2>2, <2>3 DEF release
  <1>3. CASE cancel
    BY <1>3, NetKept DEF cancel, cancelQueued, cancelOne, cancelAll, cancelOps, netVars
  <1>4. CASE \/ start_voice \/ \E c \in Callers : textRead(c) \/ textStore(c) \/ textQueue(c)
             \/ \E id \in SpeechId : put_voice(id) \/ end_voice(id)
    BY <1>4, NetKept DEF start_voice, textRead, textStore, textQueue, put_voice, end_voice, netVars
  <1>5. ASSUME NEW id \in SpeechId, serverAnswers(id) PROVE NetInv'
    <2>1. PICK type \in RespType, extra \in BOOLEAN :
            Deliver(Response("data", id, type, extra)) /\ (type = "OTHER" => type \in Faults)
      BY <1>5 DEF serverAnswers
    <2>2. Response("data", id, type, extra) \in Packet
      BY <2>1, IdsAreNat DEF Response, Packet
    <2>3. rx' = rx
      BY <1>5 DEF serverAnswers
    <2> QED
      BY <2>1, <2>2, <2>3, NetGrows
  <1>6. ASSUME NEW k \in {"broken", "badData"}, linkError(k) PROVE NetInv'
    <2> DEFINE p == [NoResponse EXCEPT !.kind = k]
    <2>1. p \in Packet
      BY DEF Packet, NoResponse, Response, RespType
    <2>2. Deliver(p) /\ rx' = rx
      BY <1>6 DEF linkError
    <2> HIDE DEF p
    <2> QED
      BY <2>1, <2>2, NetGrows
  <1>7. CASE poll
    BY <1>7, NetKept DEF poll, pollReleased, pollLook, pollSleep, pollDead, pollItem, netVars
  <1>8. CASE send_reqs
    BY <1>8, NetKept DEF send_reqs, sendQuit, sendWait, sendTake, do_ctl_change_op,
           changeStarts, changeContinues, changeCancels, do_request, sendDone, sendFails,
           sendErase, sendRefresh, sendWaitOp, sendAwake, netVars
  <1>9. CASE gen_results
    <2>1. CASE recvPacket
      <3>1. /\ inbox # <<>> /\ rx' = Head(inbox) /\ inbox' = Tail(inbox) /\ respPc' = "handle"
        BY <2>1 DEF recvPacket
      <3>2. inbox' \in Seq(Packet) /\ rx' \in Packet
        BY <3>1, SeqTail DEF NetInv
      <3> QED
        BY <3>1, <3>2 DEF NetInv
    <2>2. CASE recvNothing
      <3> DEFINE p == [NoResponse EXCEPT !.kind = "timeout"]
      <3>1. p \in Packet
        BY DEF Packet, NoResponse, Response, RespType
      <3>2. /\ inbox' = inbox /\ respPc' \in {"handle", "dead"}
            /\ respPc' = "handle" => rx' = p
        BY <2>2 DEF recvNothing, netVars
      <3> HIDE DEF p
      <3> QED
        BY <3>1, <3>2 DEF NetInv
    <2>3. CASE recvWait
      BY <2>3 DEF recvWait, netVars, NetInv
    <2>4. CASE \/ genTimeout \/ recvTimer \/ genAnswer \/ genFinish \/ genStale \/ genError
               \/ genErase
      BY <2>4 DEF genTimeout, recvTimer, genAnswer, genFinish, genStale, genError, genErase,
                  NextResp, netVars, NetInv
    <2> QED
      BY <1>9, <2>1, <2>2, <2>3, <2>4 DEF gen_results
  <1>10. CASE clock
    BY <1>10, NetKept DEF clock, netVars
  <1> QED
    BY <1>1, <1>2, <1>3, <1>4, <1>5, <1>6, <1>7, <1>8, <1>9, <1>10 DEF Next

(* A step that leaves the queues. *)
LEMMA ReqSleepsOn ==
  ASSUME ReqSleeps, UNCHANGED <<ctlPc, initialized>>, UNCHANGED queues,
         reqPc' = "asleep" => reqPc = "asleep"
  PROVE  ReqSleeps'
  BY DEF ReqSleeps, Idle, queues

(* erase_req() of a voice that is gone changes nothing. *)
LEMMA EraseNone ==
  ASSUME Typed, NEW id, ~HasStream(voice_reqs, id),
         voice_reqs' = Erase(voice_reqs, id, SPEECH_TIMEOUT)
  PROVE  voice_reqs' = voice_reqs
  <1>1. voice_reqs \in Seq(Stream(SpeechId, Packets, {SPEECH_TIMEOUT}))
    BY DEF Typed, QueueType, Voice
  <1>2. voice_reqs' = [i \in 1 .. Len(voice_reqs) |-> voice_reqs[i]]
    BY DEF Erase, HasStream
  <1> QED
    BY <1>1, <1>2

(* Whoever adds to the queues, marks a text or ends a voice wakes the      *)
(* sending thread (speech_impl.cc:151-158, 175, 187, 199, 213).            *)
LEMMA ReqSleepsStep ==
  ASSUME Typed, ReqSleeps, LifeInv, [Next]_vars
  PROVE  ReqSleeps'
  <1>0. QueueType
    BY DEF Typed
  <1>1. CASE UNCHANGED vars
    BY <1>1, ReqSleepsOn DEF vars, queues
  <1>2. CASE reqPc' # "asleep"
    BY <1>2 DEF ReqSleeps
  <1>3. CASE prepare \/ release
    <2>1. CASE prepare \/ releaseBegin \/ releaseClose
      BY <2>1 DEF prepare, releaseBegin, releaseClose, WakeReq, ReqSleeps
    <2>2. CASE releaseJoinReq \/ releaseJoinResp
      <3>1. initialized = FALSE /\ ctlPc # "closing"
        BY <2>2 DEF releaseJoinReq, releaseJoinResp, LifeInv, Typed, RestType
      <3>2. reqPc # "asleep" /\ reqPc' = reqPc
        BY <2>2, <3>1 DEF ReqSleeps, releaseJoinReq, releaseJoinResp, sendVars
      <3> QED
        BY <3>2 DEF ReqSleeps
    <2> QED
      BY <1>3, <2>1, <2>2 DEF release
  <1>4. CASE cancel
    <2>1. CASE cancelOps \/ \E id \in Cancels : cancelOne(id)
      BY <2>1, ReqSleepsOn DEF cancelOps, cancelOne, appVars, sendVars, runVars
    <2>2. ASSUME NEW id \in Cancels, cancelQueued(id) PROVE ReqSleeps'
      <3>1. CASE HasStream(voice_reqs, id)
        BY <1>2, <2>2, <3>1 DEF cancelQueued, WakeReq
      <3>2. CASE ~HasStream(voice_reqs, id)
        <4>1. id \in QueuedTexts /\ UNCHANGED <<reqPc, ctlPc>>
          BY <2>2, <3>2 DEF cancelQueued, runVars
        <4>2. text_reqs # <<>> /\ ctlPc # "closing"
          BY <2>2, <4>1, EmptySeq DEF QueuedTexts, cancelQueued, ReqMutexFree
        <4> QED
          BY <4>1, <4>2 DEF ReqSleeps, Idle
      <3> QED
        BY <3>1, <3>2
    <2>3. CASE cancelAll
      <3>1. CASE ClearMin(voice_reqs) > 0
        BY <1>2, <2>3, <3>1 DEF cancelAll, WakeReq
      <3>2. CASE ~(ClearMin(voice_reqs) > 0)
        <4>1. voice_reqs = <<>>
          <5>1. SUFFICES ASSUME voice_reqs # <<>> PROVE FALSE
            OBVIOUS
          <5>2. 1 \in 1 .. Len(voice_reqs)
            BY <1>0, <5>1, SeqTail DEF QueueType
          <5>3. voice_reqs[1].id \in Nat \ {0}
            BY <1>0, <5>2, QueueElement, IdsAreNat
          <5> QED
            BY <3>2, <5>1, <5>3 DEF ClearMin
        <4>2. /\ voice_reqs' = <<>>
              /\ UNCHANGED <<reqPc, ctlPc, initialized>> /\ ctlPc # "closing"
              /\ text_reqs = <<>> => text_reqs' = <<>>
          <5>1. voice_reqs' = <<>>
            BY <2>3, <4>1, EmptySeq DEF cancelAll, Clear
          <5>2. text_reqs = <<>> => text_reqs' = <<>>
            BY <2>3, EmptySeq DEF cancelAll, MarkTexts
          <5> QED
            BY <2>3, <3>2, <5>1, <5>2 DEF cancelAll, appVars, ReqMutexFree
        <4> QED
          BY <4>1, <4>2 DEF ReqSleeps, Idle
      <3> QED
        BY <3>1, <3>2
    <2> QED
      BY <1>4, <2>1, <2>2, <2>3 DEF cancel
  <1>5. CASE \E c \in Callers : textRead(c) \/ textStore(c)
    BY <1>5, ReqSleepsOn DEF textRead, textStore, sendVars, runVars
  <1>6. CASE \/ start_voice \/ \E c \in Callers : textQueue(c)
             \/ \E id \in SpeechId : put_voice(id) \/ end_voice(id)
    BY <1>2, <1>6 DEF start_voice, textQueue, put_voice, end_voice, WakeReq
  <1>7. CASE \/ \E id \in SpeechId : serverAnswers(id)
             \/ \E k \in {"broken", "badData"} : linkError(k)
    BY <1>7, ReqSleepsOn DEF serverAnswers, linkError, appVars, sendVars, runVars
  <1>8. CASE poll
    BY <1>8, ReqSleepsOn DEF poll, pollReleased, pollLook, pollSleep, pollDead, pollItem,
                             appVars, sendVars, runVars
  <1>9. CASE send_reqs
    <2>1. CASE sendWait
      BY <2>1 DEF sendWait, ReqSleeps, appVars, queues, Idle
    <2>2. CASE ~sendWait
      BY <1>2, <1>9, <2>2 DEF send_reqs, sendQuit, sendTake, do_ctl_change_op,
           changeStarts, changeContinues, changeCancels, do_request, sendDone, sendFails,
           sendErase, sendRefresh, sendWaitOp, sendAwake, NextReq
    <2> QED
      BY <2>1, <2>2
  <1>10. CASE gen_results
    <2>1. CASE genFinish \/ genErase
      <3>1. CASE HasStream(voice_reqs, rx.id)
        BY <1>2, <2>1, <3>1 DEF genFinish, genErase, WakeReq
      <3>2. CASE ~HasStream(voice_reqs, rx.id)
        <4>1. voice_reqs' = voice_reqs
          BY <2>1, <3>2, EraseNone DEF genFinish, genErase, EraseReq
        <4> QED
          BY <2>1, <3>2, <4>1, ReqSleepsOn DEF genFinish, genErase, appVars, runVars, queues
      <3> QED
        BY <3>1, <3>2
    <2>2. CASE ~(genFinish \/ genErase)
      BY <1>10, <2>2, ReqSleepsOn DEF gen_results, genTimeout, recvPacket, recvWait, recvTimer,
           recvNothing, genAnswer, genStale, genError, appVars, sendVars, runVars
    <2> QED
      BY <2>1, <2>2
  <1>11. CASE clock
    BY <1>11, ReqSleepsOn DEF clock, appVars, sendVars, runVars
  <1> QED
    BY <1>1, <1>3, <1>4, <1>5, <1>6, <1>7, <1>8, <1>9, <1>10, <1>11 DEF Next

(* The front operation stays, or is cancelled. *)
FrontStays ==
  /\ operations = <<>> => operations' = <<>>
  /\ operations # <<>> =>
       operations' # <<>> /\ operations'[1].status \in {operations[1].status, "CANCELLED"}

(* A sleeping poll() that is not concerned. *)
LEMMA SleepsOn ==
  ASSUME PollSleeps, FrontStays, responses' = responses, Slept' => Slept
  PROVE  PollSleeps'
  BY DEF PollSleeps, FrontStays, NothingToReturn, Dead

(* Operations that stay or are cancelled. *)
LEMMA SettledFront ==
  ASSUME Typed, Typed', SameOpIds,
         \A i \in 1 .. Len(operations) :
           operations'[i].status \in {operations[i].status, "CANCELLED"}
  PROVE  FrontStays
  <1>1. Len(operations') = Len(operations) /\ operations \in Seq(Operation(SpeechId, Errors))
    BY DEF SameOpIds, Typed, OpType
  <1>2. CASE operations = <<>>
    <2>1. operations' \in Seq(Operation(SpeechId, Errors)) /\ Len(operations') = 0
      BY <1>1, <1>2, EmptySeq DEF Typed, OpType
    <2>2. operations' = <<>>
      BY <2>1
    <2> QED
      BY <1>2, <2>2 DEF FrontStays
  <1>3. CASE operations # <<>>
    <2>1. 1 \in 1 .. Len(operations) /\ Len(operations) # 0
      BY <1>1, <1>3, SeqTail
    <2> QED
      BY <1>1, <1>3, <2>1, EmptySeq DEF FrontStays
  <1> QED
    BY <1>2, <1>3

(* Operations that do not change. *)
LEMMA SameFront == UNCHANGED operations => FrontStays
  BY DEF FrontStays

(* Steps that leave what poll() looks at. *)
LEMMA StillSleeps ==
  ASSUME PollSleeps, MutexInv, UNCHANGED <<operations, responses, pollPc, initialized>>,
         respPc' = "finish" <=> respPc = "finish", reqPc' = "failed" => reqPc = "failed"
  PROVE  PollSleeps' /\ MutexInv'
  <1>1. MutexInv'
    BY DEF MutexInv
  <1>2. Slept' => Slept
    BY DEF Slept
  <1> QED
    BY <1>1, <1>2, SameFront, SleepsOn

(* Steps after which poll() does not sleep. *)
LEMMA AwakeSleeps ==
  ASSUME pollPc' \notin {"toSleep", "asleep"}
  PROVE  PollSleeps' /\ MutexInv'
  BY DEF PollSleeps, MutexInv, Slept

(* What the sending thread adds comes last. *)
LEMMA AddSleeps ==
  ASSUME IInv, PollSleeps, Adds, responses' = responses, initialized' = initialized,
         respPc' = respPc, pollPc' = pollPc
  PROVE  PollSleeps'
  <1> USE DEF IInv
  <1>1. reqPc = "change"
    BY DEF Adds
  <1> DEFINE n == Len(operations) + 1
  <1>2. /\ Len(operations') = n /\ Len(operations) \in Nat
        /\ \A i \in 1 .. Len(operations) : operations'[i] = operations[i]
        /\ operations'[n].status \in {"START", "CANCELLED"}
    BY <1>1, AddKeeps, OperationElement
  <1>3. operations' # <<>>
    BY <1>2, EmptySeq
  <1>4. CASE operations = <<>>
    <2>1. operations'[1].status \in {"START", "CANCELLED"}
      BY <1>2, <1>4, EmptySeq
    <2>2. initialized => responses = <<>>
      <3>1. ASSUME initialized, responses # <<>> PROVE FALSE
        <4>1. 1 \in 1 .. Len(responses)
          BY <3>1, SeqTail DEF Typed, QueueType
        <4> QED
          BY <1>4, <3>1, <4>1, EmptySeq DEF ResponseOrder
      <3> QED
        BY <3>1
    <2>3. Slept' => operations'[1].status = "CANCELLED" \/ NothingToReturn'
      BY <1>3, <2>1, <2>2 DEF Slept, NothingToReturn, Dead, PopType
    <2> QED
      BY <1>3, <2>3 DEF PollSleeps
  <1>5. CASE operations # <<>>
    <2>1. 1 \in 1 .. Len(operations)
      BY <1>5, SeqTail DEF Typed, OpType
    <2>2. FrontStays
      BY <1>2, <1>3, <1>5, <2>1 DEF FrontStays
    <2>3. Slept' => Slept
      BY DEF Slept
    <2> QED
      BY <2>2, <2>3, SleepsOn
  <1> QED
    BY <1>4, <1>5

(* do_ctl_change_op() notifies poll() when it cancels                      *)
(* (speech_impl.cc:404-440).                                               *)
LEMMA ChangeSleeps ==
  ASSUME IInv, Typed', PollSleeps, MutexInv, do_ctl_change_op
  PROVE  PollSleeps' /\ MutexInv'
  <1> USE DEF IInv
  <1>1. /\ UNCHANGED <<responses, initialized, respPc>> /\ reqPc' # "failed" /\ reqPc = "change"
        /\ pollPc' = pollPc \/ WakePoll
    BY DEF do_ctl_change_op, changeStarts, changeContinues, changeCancels, NextReq, appVars,
           genVars, pollVars
  <1>2. MutexInv'
    BY <1>1 DEF MutexInv, WakePoll
  <1>3. CASE pollPc' # pollPc
    BY <1>1, <1>3, AwakeSleeps DEF WakePoll
  <1>4. CASE pollPc' = pollPc /\ Adds
    BY <1>1, <1>2, <1>4, AddSleeps
  <1>5. CASE pollPc' = pollPc /\ changeContinues
    BY <1>1, <1>5, StillSleeps DEF changeContinues, ctlVars
  <1>6. CASE pollPc' = pollPc /\ changeCancels /\ seen # 0
    <2>1. operations' = [i \in 1 .. Len(operations) |->
                        IF Hit(seen, i) THEN [operations[i] EXCEPT !.status = "CANCELLED"]
                        ELSE operations[i]]
      BY <1>6 DEF changeCancels
    <2>2. ASSUME NEW i \in 1 .. Len(operations)
          PROVE  operations'[i].status \in {operations[i].status, "CANCELLED"}
      <3>1. operations[i] \in Operation(SpeechId, Errors)
        BY OpElement DEF Typed
      <3> QED
        BY <2>1, <3>1 DEF Operation, Status
    <2>3. SameOpIds
      BY <1>6, HandSettles DEF Settles
    <2>4. FrontStays
      BY <2>2, <2>3, SettledFront
    <2>5. Slept' => Slept
      BY <1>1, <1>6 DEF Slept
    <2> QED
      BY <1>1, <1>2, <2>4, <2>5, SleepsOn
  <1>7. changeStarts \/ (changeCancels /\ seen = 0) => Adds
    BY NothingSeen DEF changeStarts, changeCancels, Adds, Starts, NextReq
  <1> QED
    BY <1>3, <1>4, <1>5, <1>6, <1>7 DEF do_ctl_change_op

(* cancel() wakes nobody: poll() may sleep on what it has cancelled, and   *)
(* on nothing else (speech_impl.cc:222-235).                               *)
LEMMA CancelSleeps ==
  ASSUME Typed, Typed', PollSleeps, MutexInv, cancelOps
  PROVE  PollSleeps' /\ MutexInv'
  <1>1. PICK id \in cancelling : cancel_op(id)
    BY DEF cancelOps
  <1>2. /\ UNCHANGED <<responses, initialized, respPc, reqPc>> /\ pollPc # "toSleep"
        /\ pollPc' = pollPc \/ WakePoll
    BY DEF cancelOps, appVars, genVars, sendVars, RespMutexFree
  <1>3. MutexInv'
    BY <1>2 DEF MutexInv, WakePoll
  <1>4. OpType(SpeechId, Errors)
    BY DEF Typed
  <1>5. FrontStays
    <2>1. SameOpIds /\ \A i \in 1 .. Len(operations) :
                         operations'[i].status = IF Hit(id, i) THEN "CANCELLED"
                                                 ELSE operations[i].status
      BY <1>1, <1>4, CancelKeeps
    <2> QED
      BY <2>1, SettledFront
  <1>6. Slept' => Slept
    BY <1>2 DEF Slept, WakePoll
  <1> QED
    BY <1>2, <1>3, <1>5, <1>6, SleepsOn

(* A sign of life of the server is no result. *)
LEMMA RefreshSleeps ==
  ASSUME Typed, Typed', PollSleeps, MutexInv,
         SameOpIds /\ \A i \in 1 .. Len(operations) : operations'[i].status = operations[i].status,
         UNCHANGED <<responses, pollPc, initialized>>,
         respPc' = "finish" <=> respPc = "finish", reqPc' = "failed" => reqPc = "failed"
  PROVE  PollSleeps' /\ MutexInv'
  <1>1. MutexInv'
    BY DEF MutexInv
  <1>2. Slept' => Slept
    BY DEF Slept
  <1>3. FrontStays
    BY SettledFront
  <1> QED
    BY <1>1, <1>2, <1>3, SleepsOn

(* An answer wakes poll() (speech_impl.cc:620-690). *)
LEMMA AnswerSleeps ==
  ASSUME "OTHER" \notin Faults, NetInv, genAnswer
  PROVE  PollSleeps' /\ MutexInv'
  <1>1. rx.type # "OTHER" /\ pollPc # "toSleep"
    BY DEF genAnswer, NetInv, Packet, RespMutexFree
  <1>2. CASE Last(rx)
    <2>1. respPc' = "finish" /\ pollPc' = pollPc
      BY <1>2 DEF genAnswer
    <2> QED
      BY <1>1, <2>1 DEF PollSleeps, Slept, MutexInv
  <1>3. CASE ~Last(rx)
    <2>1. pollPc' \notin {"toSleep", "asleep"}
      BY <1>1, <1>3 DEF genAnswer, WakePoll
    <2> QED
      BY <2>1, AwakeSleeps
  <1> QED
    BY <1>2, <1>3

(* poll() sleeps when there is nothing to return, and is woken for a       *)
(* result.                                                                 *)
LEMMA PollStep ==
  ASSUME "OTHER" \notin Faults, IInv, NetInv, PollSleeps, MutexInv, [Next]_vars, Typed'
  PROVE  PollSleeps' /\ MutexInv'
  <1> USE DEF IInv
  <1>0. OpType(SpeechId, Errors)
    BY DEF Typed
  <1>1. CASE UNCHANGED vars
    BY <1>1, StillSleeps DEF vars
  <1>2. CASE prepare \/ release
    <2>1. CASE prepare
      BY <2>1, AwakeSleeps DEF prepare
    <2>2. CASE releaseBegin
      BY <2>2 DEF releaseBegin, PollSleeps, Slept, MutexInv, sendVars, genVars, pollVars
    <2>3. CASE releaseClose
      BY <2>3, StillSleeps DEF releaseClose, WakeRecv, WakeReq, ctlVars, appVars, pollVars
    <2>4. CASE releaseJoinReq
      BY <2>4, AwakeSleeps DEF releaseJoinReq, WakePoll, RespMutexFree
    <2>5. CASE releaseJoinResp
      BY <2>5, StillSleeps DEF releaseJoinResp, ctlVars, appVars, sendVars, genVars, pollVars
    <2> QED
      BY <1>2, <2>1, <2>2, <2>3, <2>4, <2>5 DEF release
  <1>3. CASE cancel
    <2>1. CASE cancelOps
      BY <2>1, CancelSleeps
    <2>2. CASE ~cancelOps
      BY <1>3, <2>2, StillSleeps DEF cancel, cancelQueued, cancelOne, cancelAll, WakeReq, ctlVars,
                                     appVars, sendVars, genVars, pollVars
    <2> QED
      BY <2>1, <2>2
  <1>4. CASE \/ start_voice \/ \E c \in Callers : textRead(c) \/ textStore(c) \/ textQueue(c)
             \/ \E id \in SpeechId : put_voice(id) \/ end_voice(id)
    BY <1>4, StillSleeps DEF start_voice, textRead, textStore, textQueue, put_voice, end_voice,
                             WakeReq, ctlVars, appVars, sendVars, genVars, pollVars
  <1>5. CASE \/ \E id \in SpeechId : serverAnswers(id)
             \/ \E k \in {"broken", "badData"} : linkError(k)
    BY <1>5, StillSleeps DEF serverAnswers, linkError, Deliver, WakeRecv, ctlVars, appVars,
                             sendVars, pollVars
  <1>6. CASE poll
    <2>1. CASE pollLook
      <3>1. /\ respPc # "finish" /\ reqPc # "failed" /\ NothingToReturn
            /\ UNCHANGED <<operations, responses, respPc, reqPc>>
        BY <2>1 DEF pollLook, RespMutexFree, ctlVars, sendVars, genVars
      <3>2. NothingToReturn'
        BY <3>1 DEF NothingToReturn, Dead
      <3> QED
        BY <3>1, <3>2 DEF PollSleeps, MutexInv
    <2>2. CASE pollSleep
      <3>1. /\ pollPc = "toSleep" /\ pollPc' = "asleep"
            /\ UNCHANGED <<operations, responses, respPc, initialized>>
        BY <2>2 DEF pollSleep, ctlVars, genVars, appVars
      <3>2. Slept' => Slept
        BY <3>1 DEF Slept
      <3> QED
        BY <3>1, <3>2, SameFront, SleepsOn DEF MutexInv
    <2>3. CASE pollReleased \/ pollDead \/ pollItem
      BY <2>3, AwakeSleeps DEF pollReleased, pollDead, pollItem
    <2> QED
      BY <1>6, <2>1, <2>2, <2>3 DEF poll
  <1>7. CASE send_reqs
    <2>1. CASE do_ctl_change_op
      BY <2>1, ChangeSleeps
    <2>2. CASE sendFails
      BY <2>2, AwakeSleeps DEF sendFails, WakePoll, RespMutexFree
    <2>3. CASE sendRefresh
      <3>1. refresh_op_time(FALSE)
        BY <2>3 DEF sendRefresh
      <3>2. SameOpIds /\ \A i \in 1 .. Len(operations) :
                           operations'[i].status = operations[i].status
        BY <1>0, <3>1, RefreshKeeps
      <3>3. /\ UNCHANGED <<responses, pollPc, initialized>> /\ respPc' = respPc
            /\ reqPc' # "failed"
        BY <2>3 DEF sendRefresh, NextReq, appVars, genVars, pollVars
      <3> QED
        BY <3>2, <3>3, RefreshSleeps
    <2>4. CASE \/ sendQuit \/ sendWait \/ sendTake \/ sendErase \/ sendAwake \/ sendWaitOp
               \/ \E lost \in BOOLEAN : sendDone(lost)
      BY <2>4, StillSleeps DEF sendQuit, sendWait, sendTake, sendDone, sendErase, sendAwake,
           sendWaitOp, NextReq, ctlVars, appVars, genVars, pollVars
    <2> QED
      BY <1>7, <2>1, <2>2, <2>3, <2>4 DEF send_reqs, do_request
  <1>8. CASE gen_results
    <2>1. CASE genAnswer
      BY <2>1, AnswerSleeps
    <2>2. CASE genStale
      <3>1. refresh_op_time(TRUE)
        BY <2>2 DEF genStale
      <3>2. SameOpIds /\ \A i \in 1 .. Len(operations) :
                           operations'[i].status = operations[i].status
        BY <1>0, <3>1, RefreshKeeps
      <3>3. /\ UNCHANGED <<responses, pollPc, initialized>> /\ respPc = "handle"
            /\ respPc' = "timeout" /\ reqPc' = reqPc
        BY <2>2 DEF genStale, NextResp, appVars, sendVars, pollVars
      <3> QED
        BY <3>2, <3>3, RefreshSleeps
    <2>3. CASE genError
      <3>1. CASE rx.kind = "timeout" /\ ~Expired
        BY <2>3, <3>1, StillSleeps DEF genError, NextResp, ctlVars, appVars, sendVars
      <3>2. CASE ~(rx.kind = "timeout" /\ ~Expired)
        BY <2>3, <3>2, AwakeSleeps DEF genError, WakePoll, RespMutexFree
      <3> QED
        BY <3>1, <3>2
    <2>4. CASE genFinish
      BY <2>4, AwakeSleeps DEF genFinish, WakePoll, MutexInv
    <2>5. CASE genErase
      BY <2>5, StillSleeps DEF genErase, NextResp, WakeReq, ctlVars, appVars, pollVars
    <2>6. CASE genTimeout \/ recvPacket \/ recvWait \/ recvTimer \/ recvNothing
      BY <2>6, StillSleeps DEF genTimeout, recvPacket, recvWait, recvTimer, recvNothing, ctlVars,
           appVars, sendVars, pollVars
    <2> QED
      BY <1>8, <2>1, <2>2, <2>3, <2>4, <2>5, <2>6 DEF gen_results
  <1>9. CASE clock
    <2>1. SameOpIds /\ \A i \in 1 .. Len(operations) :
                         operations'[i].status = operations[i].status
      BY <1>0, <1>9, GrowsIdleKeeps, GrowsSilentKeeps DEF clock
    <2>2. UNCHANGED <<responses, pollPc, initialized, respPc, reqPc>>
      BY <1>9 DEF clock, appVars, sendVars, genVars, pollVars
    <2> QED
      BY <2>1, <2>2, RefreshSleeps
  <1> QED
    BY <1>1, <1>2, <1>3, <1>4, <1>5, <1>6, <1>7, <1>8, <1>9 DEF Next

(* No thread sleeps on work. *)
LEMMA SleepersAre ==
  ASSUME IInv, SleepInv
  PROVE  SleepersIdle
  <1>1. PollWoken \/ Head(operations).status = "CANCELLED"
    BY DEF SleepInv, PollSleeps, Slept, PollWoken
  <1>2. reqPc = "asleep" /\ ctlPc # "closing" => initialized /\ Idle
    BY DEF SleepInv, ReqSleeps
  <1>3. reqPc = "inOp" /\ op_cond => IsCurrent(req.id)
    BY DEF IInv, SenderInv, IsCurrent, CurrentId
  <1>4. respPc = "asleep" => inbox = <<>>
    BY DEF SleepInv, NetInv
  <1> QED
    BY <1>1, <1>2, <1>3, <1>4 DEF SleepersIdle

(* No wakeup is lost (speech_impl.cc:151-158,339,383-398,434-436,          *)
(* recv()), but for poll() on a cancelled request; a packet of an invalid  *)
(* type, after which gen_result_by_resp() returns without a notify         *)
(* (speech_impl.cc:622-633), is left out.                                  *)
THEOREM NoThreadOversleeps ==
  ASSUME Orderly, "OTHER" \notin Faults PROVE Spec => []SleepersIdle
  <1> DEFINE I == IInv /\ SleepInv
  <1>1. Init => I
    <2> SUFFICES ASSUME Init PROVE I
      OBVIOUS
    <2>1. IInv
      BY InitInv
    <2>2. NetInv /\ ReqSleeps /\ PollSleeps /\ MutexInv
      BY EmptySeq DEF Init, NetInv, ReqSleeps, PollSleeps, Slept, MutexInv
    <2> QED
      BY <2>1, <2>2 DEF SleepInv
  <1>2. I /\ [Next]_vars => I'
    <2> SUFFICES ASSUME I, [Next]_vars PROVE I'
      OBVIOUS
    <2>1. IInv' /\ Typed'
      BY NextInv DEF IInv
    <2>2. NetInv' /\ ReqSleeps' /\ PollSleeps' /\ MutexInv'
      BY <2>1, NetStep, ReqSleepsStep, PollStep DEF SleepInv, IInv
    <2> QED
      BY <2>1, <2>2 DEF SleepInv
  <1>3. I => SleepersIdle
    BY SleepersAre
  <1> QED
    BY <1>1, <1>2, <1>3, PTL DEF Spec

(* Only put_voice() puts packets (speech_impl.cc:180-191). *)
LEMMA SpokenSteps ==
  ASSUME [Next]_vars
  PROVE  UNCHANGED spoken \/ \E id \in SpeechId : put_voice(id)
  <1>1. CASE UNCHANGED vars
    BY <1>1 DEF vars
  <1>2. CASE prepare \/ release
    BY <1>2 DEF prepare, release, releaseBegin, releaseClose, releaseJoinReq, releaseJoinResp,
                appVars
  <1>3. CASE cancel
    BY <1>3 DEF cancel, cancelQueued, cancelOne, cancelAll, cancelOps, appVars
  <1>4. CASE \/ start_voice \/ \E c \in Callers : textRead(c) \/ textStore(c) \/ textQueue(c)
             \/ \E id \in SpeechId : end_voice(id) \/ serverAnswers(id)
    BY <1>4 DEF start_voice, textRead, textStore, textQueue, end_voice, serverAnswers, appVars
  <1>5. CASE poll
    BY <1>5 DEF poll, pollReleased, pollLook, pollSleep, pollDead, pollItem, appVars
  <1>6. CASE send_reqs
    BY <1>6 DEF send_reqs, sendQuit, sendWait, sendTake, do_ctl_change_op,
           changeStarts, changeContinues, changeCancels, do_request, sendDone, sendFails,
           sendErase, sendRefresh, sendWaitOp, sendAwake, appVars
  <1>7. CASE gen_results
    BY <1>7 DEF gen_results, genTimeout, recvPacket, recvWait, recvTimer,
           recvNothing, genAnswer, genFinish, genStale, genError, genErase, appVars
  <1>8. CASE clock \/ \E k \in {"broken", "badData"} : linkError(k)
    BY <1>8 DEF clock, linkError, appVars
  <1> QED
    BY <1>1, <1>2, <1>3, <1>4, <1>5, <1>6, <1>7, <1>8 DEF Next

(* Only do_request() sends (speech_impl.cc:535-552). *)
LEMMA WireSteps ==
  ASSUME [Next]_vars
  PROVE  wire' = wire \/ \E lost \in BOOLEAN : sendDone(lost)
  <1>1. CASE UNCHANGED vars
    BY <1>1 DEF vars
  <1>2. CASE prepare \/ release
    BY <1>2 DEF prepare, release, releaseBegin, releaseClose, releaseJoinReq, releaseJoinResp,
                netVars
  <1>3. CASE cancel
    BY <1>3 DEF cancel, cancelQueued, cancelOne, cancelAll, cancelOps, netVars
  <1>4. CASE \/ start_voice \/ \E c \in Callers : textRead(c) \/ textStore(c) \/ textQueue(c)
             \/ \E id \in SpeechId : put_voice(id) \/ end_voice(id) \/ serverAnswers(id)
    BY <1>4 DEF start_voice, textRead, textStore, textQueue, put_voice, end_voice, serverAnswers,
                netVars
  <1>5. CASE poll
    BY <1>5 DEF poll, pollReleased, pollLook, pollSleep, pollDead, pollItem, netVars
  <1>6. CASE send_reqs
    BY <1>6 DEF send_reqs, sendQuit, sendWait, sendTake, do_ctl_change_op,
           changeStarts, changeContinues, changeCancels, do_request, sendFails,
           sendErase, sendRefresh, sendWaitOp, sendAwake, netVars
  <1>7. CASE gen_results
    BY <1>7 DEF gen_results, genTimeout, recvPacket, recvWait, recvTimer,
           recvNothing, genAnswer, genFinish, genStale, genError, genErase, netVars
  <1>8. CASE clock \/ \E k \in {"broken", "badData"} : linkError(k)
    BY <1>8 DEF clock, linkError, netVars
  <1> QED
    BY <1>1, <1>2, <1>3, <1>4, <1>5, <1>6, <1>7, <1>8 DEF Next

(* Every call that makes a request gives it a higher id. *)
LEMMA NextIdGrows ==
  ASSUME Typed, QueueInv, FreshInv, [Next]_vars
  PROVE  next_id' \in Nat /\ next_id \in Nat /\ next_id <= next_id'
  <1>0. next_id \in Nat /\ next_id' \in Nat
    <2>1. Typed'
      BY NextType
    <2> QED
      BY <2>1, SpeechAssumption DEF Typed, RestType
  <1>1. CASE Kept
    BY <1>0, <1>1 DEF Kept
  <1>2. CASE prepare
    BY <1>0, <1>2 DEF prepare, FreshInv, Init
  <1>3. CASE start_voice
    BY <1>0, <1>3 DEF start_voice
  <1>4. ASSUME NEW c \in Callers, textRead(c) \/ textStore(c) \/ textQueue(c)
        PROVE  next_id <= next_id'
    <2>1. CASE textStore(c)
      <3>1. PICK e \in entering : ~e.stored /\ next_id' = e.id
        BY <2>1 DEF textStore
      <3>2. e.id = next_id + 1
        BY <3>1 DEF QueueInv
      <3> QED
        BY <1>0, <3>1, <3>2
    <2> QED
      BY <1>0, <1>4, <2>1 DEF textRead, textQueue
  <1>5. CASE releaseClose \/ sendTake
    BY <1>0, <1>5 DEF releaseClose, sendTake, appVars
  <1> QED
    BY <1>0, <1>1, <1>2, <1>3, <1>4, <1>5, QueueSteps DEF Moves

(* A voice that has left the queue does not come back, and nothing more is *)
(* put into it: start_voice() gives a new id.                              *)
LEMMA NoStreamStep ==
  ASSUME Typed, FreshInv, [Next]_vars, NEW i \in Nat, i <= next_id, ~HasStream(voice_reqs, i)
  PROVE  ~HasStream(voice_reqs', i) /\ (i \in SpeechId => spoken'[i] = spoken[i])
  <1>0. voice_reqs \in Seq(Voice) /\ voice_reqs \in Seq(Stream(SpeechId, Packets, {SPEECH_TIMEOUT}))
        /\ next_id \in Nat
    BY SpeechAssumption DEF Typed, QueueType, Voice, RestType
  <1>1. ASSUME NEW k \in 1 .. Len(voice_reqs'), voice_reqs'[k].id = i PROVE FALSE
    <2>1. CASE Kept
      <3>1. k \in 1 .. Len(voice_reqs) /\ voice_reqs[k].id = i
        BY <1>1, <2>1 DEF Kept, VoiceKept, SameIds
      <3> QED
        BY <3>1 DEF HasStream
    <2>2. CASE prepare \/ \E c \in Callers : textRead(c) \/ textStore(c) \/ textQueue(c)
      <3>1. voice_reqs' = voice_reqs
        BY <2>2 DEF prepare, textRead, textStore, textQueue, queues
      <3> QED
        BY <1>1, <3>1 DEF HasStream
    <2>3. CASE releaseClose
      BY <1>1, <2>3, EmptySeq DEF releaseClose
    <2>4. CASE start_voice
      <3>1. next_id + 1 \in SpeechId
        BY <2>4, SpeechAssumption DEF start_voice, SpeechId, Typed, RestType
      <3> DEFINE v == NewStream(next_id + 1)
      <3>2. voice_reqs' = voice_reqs \/ voice_reqs' = Append(voice_reqs, v)
        BY <1>0, <2>4, <3>1, StartKeeps DEF start_voice
      <3>3. v.id = next_id + 1 /\ v \in Stream(SpeechId, Packets, {SPEECH_TIMEOUT})
        <4>1. <<>> \in Seq(Packets)
          OBVIOUS
        <4> QED
          BY <3>1, <4>1 DEF NewStream, Stream, TagType
      <3> HIDE DEF v
      <3>4. CASE voice_reqs' = Append(voice_reqs, v)
        <4>1. /\ Len(voice_reqs') = Len(voice_reqs) + 1 /\ Len(voice_reqs) \in Nat
              /\ voice_reqs'[Len(voice_reqs) + 1] = v
              /\ \A j \in 1 .. Len(voice_reqs) : voice_reqs'[j] = voice_reqs[j]
          BY <1>0, <3>3, <3>4, SeqAppend, SeqElement
        <4>2. k # Len(voice_reqs) + 1
          BY <1>0, <1>1, <3>3, <4>1
        <4>3. k \in 1 .. Len(voice_reqs) /\ voice_reqs[k].id = i
          BY <1>1, <4>1, <4>2
        <4> QED
          BY <4>3 DEF HasStream
      <3> QED
        BY <1>1, <3>2, <3>4 DEF HasStream
    <2>5. CASE sendTake
      <3>1. /\ PopType(voice_reqs) \in {"EMPTY", "START", "DATA"} =>
                 SameIds(voice_reqs, voice_reqs')
            /\ PopType(voice_reqs) \in {"END", "REMOVED", "ERROR"} =>
                 voice_reqs # <<>> /\ voice_reqs' = Tail(voice_reqs)
            /\ PopType(voice_reqs) \in {"EMPTY", "START", "DATA", "END", "REMOVED", "ERROR"}
        BY <1>0, <2>5, PopRestKeeps DEF sendTake
      <3>2. CASE SameIds(voice_reqs, voice_reqs')
        <4>1. k \in 1 .. Len(voice_reqs) /\ voice_reqs[k].id = i
          BY <1>1, <3>2 DEF SameIds
        <4> QED
          BY <4>1 DEF HasStream
      <3>3. CASE voice_reqs # <<>> /\ voice_reqs' = Tail(voice_reqs)
        <4>1. /\ Len(voice_reqs) \in Nat \ {0} /\ Len(voice_reqs') = Len(voice_reqs) - 1
              /\ \A j \in 1 .. Len(voice_reqs) - 1 : voice_reqs'[j] = voice_reqs[j + 1]
          BY <1>0, <3>3, SeqTail
        <4>2. k + 1 \in 1 .. Len(voice_reqs) /\ voice_reqs[k + 1].id = i
          BY <1>1, <4>1
        <4> QED
          BY <4>2 DEF HasStream
      <3> QED
        BY <3>1, <3>2, <3>3
    <2> QED
      BY <2>1, <2>2, <2>3, <2>4, <2>5, QueueSteps DEF Moves
  <1>2. i \in SpeechId => spoken'[i] = spoken[i]
    <2>1. ASSUME NEW id \in SpeechId, put_voice(id), i \in SpeechId PROVE spoken'[i] = spoken[i]
      <3>1. id # i
        BY <2>1 DEF put_voice, AcceptsData, HasStream
      <3> QED
        BY <2>1, <3>1 DEF put_voice, Typed, RestType
    <2> QED
      BY <2>1, SpokenSteps
  <1> QED
    BY <1>1, <1>2 DEF HasStream

(* The data of what send_reqs takes from the voices. *)
LEMMA VoiceItemData ==
  ASSUME QueueType, PopType(voice_reqs) # "EMPTY"
  PROVE  LET r == VoiceReq(PopItem(voice_reqs)) IN
         /\ r.data \in Packets \cup {NoData}
         /\ PopType(voice_reqs) = "DATA" => r.data = voice_reqs[1].data[1] /\ r.data \in Packets
  <1> DEFINE k == PopType(voice_reqs)
             s == voice_reqs
             item == PopItem(voice_reqs)
             a == [NoItem EXCEPT !.type = k]
             b == [a EXCEPT !.id = s[1].id]
  <1>1. s # <<>> /\ s \in Seq(Voice)
    BY DEF PopType, QueueType
  <1>2. 1 \in 1 .. Len(s) /\ s[1] \in Voice
    BY <1>1, SeqTail
  <1>3. s[1].content \in Packets \cup {NoData} /\ s[1].data \in Seq(Packets)
    BY <1>2 DEF Voice, Stream
  <1>4. \/ k = "DATA" /\ item = [b EXCEPT !.res = s[1].data[1]]
        \/ k = "END" /\ item = [b EXCEPT !.res = s[1].content]
        \/ k # "DATA" /\ item = [b EXCEPT !.err = s[1].err]
        \/ k # "DATA" /\ item = b
    BY DEF PopItem
  <1>5. a.res = NoData /\ DOMAIN a = {"type", "id", "res", "err"}
    BY DEF NoItem
  <1> HIDE DEF a
  <1>6. b.res = NoData /\ DOMAIN b = {"type", "id", "res", "err"}
    BY <1>5
  <1> HIDE DEF b
  <1>7. k = "DATA" => s[1].data # <<>>
    BY <1>1 DEF PopType, FrontType
  <1>8. k = "DATA" => s[1].data[1] \in Packets
    BY <1>3, <1>7, SeqTail
  <1>9. VoiceReq(item).data = item.res
    BY DEF VoiceReq, Request
  <1> HIDE DEF k
  <1>10. /\ item.res \in Packets \cup {NoData}
         /\ k = "DATA" => item.res = s[1].data[1] /\ item.res \in Packets
    BY <1>3, <1>4, <1>6, <1>8
  <1> QED
    BY <1>9, <1>10 DEF k

(* What the sending thread takes is a message. *)
LEMMA HandDataStep ==
  ASSUME Typed, HandData, [Next]_vars
  PROVE  HandData'
  <1>1. CASE sendTake
    <2>1. CASE PopType(voice_reqs) # "EMPTY"
      <3> DEFINE r == VoiceReq(PopItem(voice_reqs))
      <3>1. /\ r.data \in Packets \cup {NoData}
            /\ PopType(voice_reqs) = "DATA" => r.data \in Packets
        BY <2>1, VoiceItemData DEF Typed
      <3>2. r.type = "VOICE_DATA" => PopType(voice_reqs) = "DATA"
        BY <2>1, VoiceItem DEF Typed
      <3>3. req' = r
        BY <1>1, <2>1 DEF sendTake
      <3> HIDE DEF r
      <3> QED
        BY <3>1, <3>2, <3>3 DEF HandData
    <2>2. CASE PopType(voice_reqs) = "EMPTY"
      <3>1. text_reqs # <<>> /\ req' = Head(text_reqs)
        BY <1>1, <2>2 DEF sendTake, Idle
      <3>2. req' = text_reqs[1] /\ 1 \in 1 .. Len(text_reqs)
        BY <3>1, SeqTail DEF Typed, QueueType
      <3>3. req'.data = NoData /\ req'.type \in {"TEXT", "CANCELLED"}
        BY <3>2, QueueElement DEF Typed
      <3> QED
        BY <3>3 DEF HandData
    <2> QED
      BY <2>1, <2>2
  <1>2. CASE ~sendTake
    <2> SUFFICES ASSUME reqPc' \in {"change", "send"} PROVE HandData'
      BY DEF HandData
    <2>1. req' = req
      BY <1>2, HandKept
    <2>2. reqPc \in {"change", "send"}
      <3>1. CASE Held /\ reqPc' = "change"
        BY <3>1 DEF Held
      <3>2. CASE reqPc' = "send"
        <4>1. CASE send_reqs
          BY <3>2, <4>1 DEF send_reqs, sendQuit, sendWait, sendTake, do_ctl_change_op,
               changeStarts, changeContinues, changeCancels, do_request, sendDone, sendFails,
               sendErase, sendRefresh, sendWaitOp, sendAwake, NextReq
        <4>2. CASE UNCHANGED vars
          BY <3>2, <4>2 DEF vars
        <4>3. CASE prepare \/ release \/ cancel
          BY <3>2, <4>3 DEF prepare, release, releaseBegin, releaseClose, releaseJoinReq,
               releaseJoinResp, cancel, cancelQueued, cancelOne, cancelAll, cancelOps, WakeReq,
               sendVars
        <4>4. CASE \/ start_voice \/ \E c \in Callers : textRead(c) \/ textStore(c) \/ textQueue(c)
                   \/ \E id \in SpeechId : put_voice(id) \/ end_voice(id) \/ serverAnswers(id)
          BY <3>2, <4>4 DEF start_voice, textRead, textStore, textQueue, put_voice, end_voice,
               serverAnswers, WakeReq, sendVars
        <4>5. CASE poll
          BY <3>2, <4>5 DEF poll, pollReleased, pollLook, pollSleep, pollDead, pollItem, sendVars
        <4>6. CASE gen_results
          BY <3>2, <4>6 DEF gen_results, genTimeout, recvPacket, recvWait, recvTimer, recvNothing,
               genAnswer, genFinish, genStale, genError, genErase, WakeReq, sendVars
        <4>7. CASE clock \/ \E k \in {"broken", "badData"} : linkError(k)
          BY <3>2, <4>7 DEF clock, linkError, sendVars
        <4> QED
          BY <4>1, <4>2, <4>3, <4>4, <4>5, <4>6, <4>7 DEF Next
      <3> QED
        BY <1>2, <3>1, <3>2, HandSteps
    <2> QED
      BY <2>1, <2>2 DEF HandData
  <1> QED
    BY <1>1, <1>2

(* What is sent is a message, and the server has one more or what it had. *)
LEMMA WireGrows ==
  ASSUME Typed, HandData, wire \in Seq(Msg), [Next]_vars
  PROVE  /\ wire' \in Seq(Msg)
         /\ \/ wire' = wire
            \/ /\ \E lost \in BOOLEAN : sendDone(lost)
               /\ Len(wire') = Len(wire) + 1 /\ wire'[Len(wire')] = Message /\ Message \in Msg
               /\ \A k \in 1 .. Len(wire) : wire'[k] = wire[k]
  <1>1. CASE wire' = wire
    BY <1>1
  <1>2. CASE wire' # wire
    <2>1. /\ wire' = Append(wire, Message) /\ reqPc = "send"
          /\ \E lost \in BOOLEAN : sendDone(lost)
      BY <1>2, WireSteps DEF sendDone
    <2>2. Message \in Msg
      <3>1. req.id \in SpeechId /\ req.type \in ReqType
        BY <2>1 DEF Typed, HandType
      <3> QED
        BY <2>1, <3>1 DEF Message, Msg, HandData, ReqType
    <2>3. /\ wire' \in Seq(Msg) /\ Len(wire') = Len(wire) + 1
          /\ wire'[Len(wire) + 1] = Message
          /\ \A k \in 1 .. Len(wire) : wire'[k] = wire[k]
      BY <2>1, <2>2, SeqAppend
    <2> QED
      BY <2>1, <2>2, <2>3
  <1> QED
    BY <1>1, <1>2

(* A voice that is over is not in the queue any more, and the request in   *)
(* hand has passed.                                                        *)
LEMMA HandEndsStep ==
  ASSUME Orderly, IInv, HandEnds, [Next]_vars
  PROVE  HandEnds'
  <1> USE DEF IInv
  <1>1. CASE sendTake
    <2>0. reqPc' = "change" /\ voice_reqs' = PopRest(voice_reqs) /\ voice_reqs \in Seq(Voice)
      BY <1>1 DEF sendTake, Typed, QueueType
    <2>1. Passed(req.id)'
      BY <2>0, NextInv DEF OpOrder
    <2>2. ASSUME req'.type \in {"VOICE_END", "CANCELLED"}, NEW j \in 1 .. Len(voice_reqs'),
                 voice_reqs'[j].id = req'.id
          PROVE  FALSE
      <3>1. CASE PopType(voice_reqs) # "EMPTY"
        <4>1. req' = VoiceReq(PopItem(voice_reqs))
          BY <1>1, <3>1 DEF sendTake
        <4>2. /\ req'.id = voice_reqs[1].id /\ 1 \in 1 .. Len(voice_reqs)
              /\ PopType(voice_reqs) \notin {"DATA", "START"}
          BY <2>2, <3>1, <4>1, VoiceItem DEF Typed
        <4>3. voice_reqs # <<>> /\ voice_reqs' = Tail(voice_reqs)
          BY <2>0, <3>1, <4>2, PopRestKeeps DEF Voice
        <4>4. j + 1 \in 1 .. Len(voice_reqs) /\ voice_reqs[j + 1].id = voice_reqs[1].id
              /\ 1 \in 1 .. (j + 1) - 1
          BY <2>0, <2>2, <4>2, <4>3, SeqTail
        <4>5. voice_reqs[1].id < voice_reqs[j + 1].id /\ voice_reqs[1].id \in Nat
          BY <4>2, <4>4, QueueElement, IdsAreNat DEF QueueInv, Typed
        <4> QED
          BY <4>4, <4>5
      <3>2. CASE PopType(voice_reqs) = "EMPTY"
        <4>1. text_reqs # <<>>
          BY <1>1, <3>2 DEF sendTake, Idle
        <4>2. voice_reqs = <<>> /\ voice_reqs' = voice_reqs
          BY <2>0, <3>2, <4>1, OneKind DEF PopRest
        <4> QED
          BY <2>2, <4>2, EmptySeq
      <3> QED
        BY <3>1, <3>2
    <2> QED
      BY <2>1, <2>2 DEF HandEnds, HasStream
  <1>2. CASE ~sendTake
    <2> SUFFICES ASSUME Busy' PROVE HandEnds'
      BY DEF HandEnds
    <2>1. Busy /\ req' = req
      BY <1>2, HandKept DEF Busy
    <2>2. PICK m \in Nat : m = req.id
      BY IdsAreNat DEF Typed, HandType
    <2>3. Passed(m)' /\ m <= next_id
      BY <2>1, <2>2, QueueStep DEF HandEnds, Passed
    <2>4. ~HasStream(voice_reqs, m) => ~HasStream(voice_reqs', m)
      BY <2>3, NoStreamStep
    <2> QED
      BY <2>1, <2>2, <2>3, <2>4 DEF HandEnds, Passed
  <1> QED
    BY <1>1, <1>2

(* What was sent stays behind. *)
LEMMA WirePassedStep ==
  ASSUME Orderly, IInv, HandData, HandEnds, wire \in Seq(Msg), WirePassed, [Next]_vars
  PROVE  WirePassed'
  <1> USE DEF IInv
  <1>1. ASSUME NEW m \in Nat, Behind(m)
        PROVE  Behind(m)' /\ (~HasStream(voice_reqs, m) => ~HasStream(voice_reqs', m))
    <2>1. Behind(m)'
      BY <1>1, BehindStep
    <2>2. m <= next_id
      BY <1>1 DEF Behind, Passed
    <2> QED
      BY <2>1, <2>2, NoStreamStep
  <1>2. ASSUME NEW k \in 1 .. Len(wire)
        PROVE  Behind(wire[k].id)' \/ wire'[k] # wire[k]
    <2>1. PICK m \in Nat : m = wire[k].id
      <3>1. wire[k] \in Msg
        BY SeqElement
      <3> QED
        BY <3>1, IdsAreNat DEF Msg
    <2>2. Behind(m)'
      BY <1>1, <2>1 DEF WirePassed
    <2>3. wire'[k] = wire[k] => (wire[k].id)' = m
      BY <2>1
    <2> QED
      BY <2>2, <2>3 DEF Behind, Passed
  <1>3. ASSUME NEW k \in 1 .. Len(wire), wire'[k] = wire[k], wire'[k].type = "VOICE_END"
        PROVE  ~HasStream(voice_reqs', wire'[k].id)
    <2>1. PICK m \in Nat : m = wire[k].id
      <3>1. wire[k] \in Msg
        BY SeqElement
      <3> QED
        BY <3>1, IdsAreNat DEF Msg
    <2>2. Behind(m) /\ ~HasStream(voice_reqs, m)
      BY <1>3, <2>1 DEF WirePassed
    <2>3. ~HasStream(voice_reqs', m)
      BY <1>1, <2>2
    <2> QED
      BY <1>3, <2>1, <2>3
  <1>4. CASE wire' = wire
    BY <1>2, <1>3, <1>4 DEF WirePassed
  <1>5. CASE wire' # wire
    <2>1. /\ \E lost \in BOOLEAN : sendDone(lost)
          /\ Len(wire') = Len(wire) + 1 /\ wire'[Len(wire')] = Message
          /\ \A k \in 1 .. Len(wire) : wire'[k] = wire[k]
      BY <1>5, WireGrows
    <2>2. /\ reqPc = "send" /\ reqPc' = "sent"
          /\ UNCHANGED <<voice_reqs, text_reqs, next_id, entering>>
      BY <2>1 DEF sendDone, queues, appVars
    <2>3. /\ Message.id = req.id
          /\ Message.type = "VOICE_END" => req.type \in {"VOICE_END", "CANCELLED"}
      BY DEF Message
    <2>4. Passed(req.id) /\ (Message.type = "VOICE_END" => ~HasStream(voice_reqs, req.id))
      BY <2>2, <2>3 DEF HandEnds, Busy
    <2>5. PICK m \in Nat : m = req.id
      BY IdsAreNat DEF Typed, HandType
    <2>6. Behind(m)' /\ (Message.type = "VOICE_END" => ~HasStream(voice_reqs', m))
      BY <2>2, <2>4, <2>5 DEF Behind, Passed
    <2>7. ASSUME NEW k \in 1 .. Len(wire')
          PROVE  Behind(wire[k].id)'
                 /\ (wire'[k].type = "VOICE_END" => ~HasStream(voice_reqs', wire'[k].id))
      <3>1. CASE k = Len(wire')
        <4>1. wire'[k].id = m /\ wire'[k].type = Message.type
          BY <2>1, <2>3, <2>5, <3>1
        <4> QED
          BY <2>6, <4>1 DEF Behind, Passed
      <3>2. CASE k # Len(wire')
        <4>1. k \in 1 .. Len(wire)
          BY <2>1, <3>2, SeqElement
        <4> QED
          BY <1>2, <1>3, <2>1, <4>1
      <3> QED
        BY <3>1, <3>2
    <2> QED
      BY <2>7 DEF WirePassed
  <1> QED
    BY <1>4, <1>5

(* The answer in hand is not to the operation at work. *)
LEMMA RxOverStep ==
  ASSUME Orderly, IInv, FailedInv, RxOver, [Next]_vars
  PROVE  RxOver'
  <1> USE DEF IInv
  <1> SUFFICES ASSUME respPc' \in {"finish", "erase"}
               PROVE  Behind(rx.id)' /\ (current' # 0 => CurrentId' # rx'.id)
    BY DEF RxOver
  <1>1. CASE respPc \in {"finish", "erase"} /\ rx' = rx
    <2>1. PICK m \in Nat : m = rx.id
      BY <1>1, IdsAreNat DEF FailedInv
    <2>2. Behind(m)
      BY <1>1, <2>1 DEF RxOver
    <2>3. Behind(m)'
      BY <2>2, BehindStep
    <2>4. Behind(rx.id)'
      BY <1>1, <2>1, <2>3 DEF Behind, Passed
    <2>5. ASSUME current' # 0 PROVE CurrentId' # m
      <3>1. CASE Settles
        <4>1. current # 0 /\ current' = current /\ current \in 1 .. Len(operations)
          BY <2>5, <3>1, OperationElement DEF Settles
        <4> QED
          BY <1>1, <2>1, <3>1, <4>1 DEF Settles, SameOpIds, CurrentId, RxOver
      <3>2. CASE Adds
        <4>1. req.type \in Starts /\ CurrentId' = req.id
          BY <2>5, <3>2, AddKeeps, OperationElement DEF Adds, CurrentId, Starts, new_op
        <4>2. m < req.id
          BY <2>2, <3>2, <4>1 DEF Behind, Adds
        <4> QED
          BY <4>1, <4>2
      <3>3. CASE Removes
        <4>1. current # 0 /\ CurrentId' = CurrentId
          BY <2>5, <3>3, RemovedCurrent
        <4> QED
          BY <1>1, <2>1, <4>1 DEF RxOver
      <3> QED
        BY <3>1, <3>2, <3>3, OpEffect
    <2> QED
      BY <1>1, <2>1, <2>4, <2>5
  <1>2. CASE current # 0 /\ rx'.id = CurrentId /\ current' = 0
    <2>1. PICK m \in Nat : m = CurrentId /\ Behind(m)
      BY <1>2, OperationElement DEF CurrentId, OpOrder
    <2>2. Behind(m)'
      BY <2>1, BehindStep
    <2> QED
      BY <1>2, <2>1, <2>2 DEF Behind, Passed
  <1> QED
    BY <1>1, <1>2, AnswerInHand DEF Answering

(* A voice that is put into was started. *)
LEMMA SilenceStep ==
  ASSUME IInv, Silence, [Next]_vars
  PROVE  Silence'
  <1> USE DEF IInv
  <1> SUFFICES ASSUME NEW i \in SpeechId, next_id' < i PROVE spoken'[i] = 0
    BY DEF Silence
  <1>1. next_id' \in Nat /\ next_id \in Nat /\ next_id <= next_id' /\ i \in Nat
    BY NextIdGrows, IdsAreNat
  <1>2. next_id < i
    BY <1>1
  <1>3. spoken[i] = 0
    BY <1>2 DEF Silence
  <1>4. ASSUME NEW id \in SpeechId, put_voice(id) PROVE spoken'[i] = spoken[i]
    <2>1. PICK j \in 1 .. Len(voice_reqs) : voice_reqs[j].id = id
      BY <1>4 DEF put_voice, AcceptsData
    <2>2. id <= next_id
      BY <2>1 DEF QueueInv
    <2>3. id # i
      BY <1>1, <1>2, <2>2
    <2> QED
      BY <1>4, <2>3 DEF put_voice, Typed, RestType
  <1> QED
    BY <1>3, <1>4, SpokenSteps

(* What the server has is of the operation at work, after the steps of the *)
(* other threads ...                                                       *)
LEMMA OthersCurSent ==
  ASSUME IInv, CurSent, [Next]_vars, ~prepare, ~send_reqs
  PROVE  CurSent'
  <1> USE DEF IInv
  <1> SUFFICES ASSUME current' # 0, ~(reqPc' = "send" /\ req'.type \in Starts)
               PROVE  /\ wire' # <<>> /\ WireEnd'.id = CurrentId'
                      /\ \/ WireEnd'.type \in {"VOICE_START", "VOICE_DATA"}
                         \/ /\ reqPc' \in {"sent", "waitOp", "inOp"}
                            /\ req'.type \in {"TEXT", "VOICE_END"}
    BY DEF CurSent
  <1>1. /\ req' = req /\ (reqPc' = "failed" => reqPc = "failed")
        /\ reqPc' = reqPc \/ (reqPc = "asleep" /\ reqPc' = "top")
    BY OthersStay DEF HandStays
  <1>2. wire' = wire
    <2>1. ASSUME NEW lost, sendDone(lost) PROVE FALSE
      BY <2>1 DEF send_reqs, do_request, sendDone
    <2> QED
      BY <2>1, WireSteps DEF send_reqs, do_request
  <1>3. current # 0 /\ CurrentId' = CurrentId
    <2>1. CASE Continues
      BY <2>1, SameCurrent DEF Continues
    <2>2. CASE Removes
      BY <2>2, RemovedCurrent
    <2> QED
      BY <2>1, <2>2, OthersEffect DEF Drops
  <1>4. reqPc' # reqPc => reqPc = "asleep"
    BY <1>1
  <1>5. /\ wire # <<>> /\ WireEnd.id = CurrentId
        /\ \/ WireEnd.type \in {"VOICE_START", "VOICE_DATA"}
           \/ reqPc \in {"sent", "waitOp", "inOp"} /\ req.type \in {"TEXT", "VOICE_END"}
    <2>1. ~(reqPc = "send" /\ req.type \in Starts)
      <3>1. reqPc = "send" => reqPc' = "send"
        BY <1>4
      <3> QED
        BY <1>1, <3>1 DEF HandStays
    <2> QED
      BY <1>3, <2>1 DEF CurSent
  <1>6. WireEnd' = WireEnd /\ req' = req
    BY <1>1, <1>2, OthersStay DEF WireEnd, HandStays
  <1>7. reqPc \in {"sent", "waitOp", "inOp"} => reqPc' = reqPc
    BY <1>4
  <1> QED
    BY <1>2, <1>3, <1>5, <1>6, <1>7

(* ... and after those of the sending thread, if no message is lost.       *)
LEMMA CurSentStep ==
  ASSUME Orderly, "lost" \notin Faults, IInv, HandData, wire \in Seq(Msg), CurSent, [Next]_vars
  PROVE  CurSent'
  <1> USE DEF IInv
  <1>1. CASE prepare
    BY <1>1 DEF prepare, FreshInv, Init, CtlInit, ctlVars, CurSent
  <1>2. CASE ~prepare /\ ~send_reqs
    BY <1>2, OthersCurSent
  <1>3. CASE send_reqs
    <2> SUFFICES ASSUME current' # 0, ~(reqPc' = "send" /\ req'.type \in Starts)
                 PROVE  /\ wire' # <<>> /\ WireEnd'.id = CurrentId'
                        /\ \/ WireEnd'.type \in {"VOICE_START", "VOICE_DATA"}
                           \/ /\ reqPc' \in {"sent", "waitOp", "inOp"}
                              /\ req'.type \in {"TEXT", "VOICE_END"}
      BY DEF CurSent
    <2>1. CASE sendQuit \/ sendWait \/ sendTake
      <3>1. /\ reqPc = "top" /\ UNCHANGED <<current, operations, wire>>
        BY <2>1 DEF sendQuit, sendWait, sendTake, ctlVars, netVars
      <3> QED
        BY <3>1 DEF CurSent, CurrentId, WireEnd
    <2>2. CASE changeStarts
      BY <2>2 DEF changeStarts, Starts
    <2>3. CASE changeContinues
      <3>1. /\ reqPc = "change" /\ UNCHANGED <<current, operations, wire>>
        BY <2>3 DEF changeContinues, ctlVars, netVars
      <3> QED
        BY <3>1 DEF CurSent, CurrentId, WireEnd
    <2>4. CASE changeCancels
      <3>1. seen = 0 => current = 0
        BY <2>4, NothingSeen DEF changeCancels
      <3> QED
        BY <2>4, <3>1 DEF changeCancels, new_op
    <2>5. ASSUME NEW lost \in BOOLEAN, sendDone(lost)
          PROVE  /\ wire' # <<>> /\ WireEnd'.id = CurrentId'
                 /\ \/ WireEnd'.type \in {"VOICE_START", "VOICE_DATA"}
                    \/ /\ reqPc' \in {"sent", "waitOp", "inOp"}
                       /\ req'.type \in {"TEXT", "VOICE_END"}
      <3>1. /\ reqPc = "send" /\ reqPc' = "sent" /\ req' = req
            /\ UNCHANGED <<current, operations>> /\ wire' = Append(wire, Message)
        BY <2>5 DEF sendDone, ctlVars
      <3>2. Message \in Msg
        <4>1. req.id \in SpeechId /\ req.type \in ReqType
          BY <3>1 DEF Typed, HandType
        <4> QED
          BY <3>1, <4>1 DEF Message, Msg, HandData, ReqType
      <3>3. wire' # <<>> /\ WireEnd' = Message
        <4>1. Len(wire') = Len(wire) + 1 /\ wire'[Len(wire) + 1] = Message /\ wire' \in Seq(Msg)
          BY <3>1, <3>2, SeqAppend
        <4> QED
          BY <4>1, SeqElement, EmptySeq DEF WireEnd
      <3>4. req.id = CurrentId /\ req.type # "CANCELLED" /\ CurrentId' = CurrentId
        BY <3>1 DEF SenderInv, CurrentId
      <3>5. Message.id = req.id /\ Message.type = req.type
        BY <3>4 DEF Message
      <3>6. req.type \in {"TEXT", "VOICE_START", "VOICE_DATA", "VOICE_END"}
        BY <3>4 DEF Typed, HandType, ReqType
      <3> QED
        BY <3>1, <3>3, <3>4, <3>5, <3>6
    <2>6. ~sendFails
      <3> SUFFICES ASSUME sendFails PROVE FALSE
        OBVIOUS
      <3>1. set_op_error("SERVICE_UNAVAILABLE") /\ "SERVICE_UNAVAILABLE" \in Errors
        BY DEF sendFails, Errors
      <3> QED
        BY <3>1, FailDrops DEF Drops
    <2>7. ~sendErase
      BY DEF sendErase, SenderInv, ctlVars
    <2>8. CASE sendRefresh
      <3>1. /\ reqPc = "sent" /\ wire' = wire
            /\ IF req.type \in {"TEXT", "VOICE_END"} THEN reqPc' = "waitOp" /\ req' = req
                                                     ELSE TRUE
        BY <2>8 DEF sendRefresh, netVars
      <3>2. SameOpIds /\ current' = current
        <4>1. OpType(SpeechId, Errors) /\ refresh_op_time(FALSE)
          BY <2>8 DEF sendRefresh, Typed
        <4> QED
          BY <4>1, RefreshKeeps
      <3>3. CurrentId' = CurrentId
        BY <3>2, SameCurrent
      <3> QED
        BY <3>1, <3>2, <3>3 DEF CurSent, WireEnd
    <2>9. CASE sendWaitOp
      <3>1. reqPc = "waitOp" /\ UNCHANGED <<operations, current, wire>>
        BY <2>9 DEF sendWaitOp, netVars
      <3>2. IsCurrent(req.id)
        BY <3>1 DEF SenderInv, IsCurrent, CurrentId
      <3>3. reqPc' = "inOp" /\ req' = req
        BY <2>9, <3>2 DEF sendWaitOp
      <3> QED
        BY <3>1, <3>3 DEF CurSent, CurrentId, WireEnd
    <2>10. ~sendAwake
      BY DEF sendAwake, SenderInv, ctlVars
    <2> QED
      BY <1>3, <2>1, <2>2, <2>3, <2>4, <2>5, <2>6, <2>7, <2>8, <2>9, <2>10
         DEF send_reqs, do_ctl_change_op, do_request
  <1> QED
    BY <1>1, <1>2, <1>3

(* What followed still does: nothing is put into a voice that has ended.   *)
LEMMA FollowsStays ==
  ASSUME NEW a, NEW b, Follows(a, b),
         b.type = "VOICE_END" /\ a.id = b.id => spoken'[b.id] = spoken[b.id]
  PROVE  Follows(a, b)'
  <1>1. CASE a.id # b.id
    BY <1>1 DEF Follows
  <1>2. CASE a.id = b.id /\ b.type = "VOICE_END"
    BY <1>2 DEF Follows, MayCancel, LastOf
  <1>3. CASE a.id = b.id /\ b.type # "VOICE_END"
    BY <1>3 DEF Follows, LastOf
  <1> QED
    BY <1>1, <1>2, <1>3

(* What the sending thread has in hand to send it keeps. *)
LEMMA ReadyKept ==
  ASSUME Typed, FreshInv, HandEnds, Ready, [Next]_vars, wire \in Seq(Msg), wire' = wire,
         req' = req, (reqPc = "change" /\ seen # 0) \/ reqPc = "send"
  PROVE  Ready'
  <1>1. Message' = Message /\ WireEnd' = WireEnd
    BY DEF Message, WireEnd
  <1>2. CASE wire = <<>>
    BY <1>2 DEF Ready
  <1>3. CASE wire # <<>>
    <2>1. Follows(WireEnd, Message)
      BY <1>3 DEF Ready
    <2> DEFINE a == WireEnd
               b == Message
    <2>2. b.id = req.id /\ (b.type = "VOICE_END" => req.type \in {"VOICE_END", "CANCELLED"})
      BY DEF Message
    <2>3. req.id \in SpeechId /\ req.id \in Nat /\ req.id <= next_id
      BY IdsAreNat DEF HandEnds, Busy, Passed, Typed, HandType
    <2>4. b.type = "VOICE_END" => spoken'[req.id] = spoken[req.id]
      BY <2>2, <2>3, NoStreamStep DEF HandEnds, Busy
    <2>5. PICK x, y : x = a /\ y = b
      OBVIOUS
    <2>6. Follows(x, y)'
      BY <2>1, <2>2, <2>4, <2>5, FollowsStays
    <2>7. Follows(WireEnd, Message)'
      BY <1>1, <2>5, <2>6 DEF Follows, LastOf
    <2> QED
      BY <1>3, <2>7 DEF Ready
  <1> QED
    BY <1>2, <1>3

(* Packets are counted from 1 on, the start is before them. *)
LEMMA LastIsNat ==
  ASSUME NEW m, \/ m.type = "VOICE_START"
                \/ m.type = "VOICE_DATA" /\ m.data \in Packets
  PROVE  LastOf(m) \in Nat
  BY SpeechAssumption DEF LastOf, Packets

(* So the last message of a voice tells how much of it was sent. *)
LEMMA EndIsNat ==
  ASSUME wire \in Seq(Msg), wire # <<>>, WireEnd.type \in {"VOICE_START", "VOICE_DATA"}
  PROVE  WireEnd \in Msg /\ LastOf(WireEnd) \in Nat
  <1>1. WireEnd \in Msg
    <2>1. Len(wire) \in 1 .. Len(wire)
      BY SeqTail
    <2> QED
      BY <2>1, SeqElement DEF WireEnd
  <1>2. WireEnd.type = "VOICE_DATA" => WireEnd.data \in Packets
    BY <1>1 DEF Msg
  <1> QED
    BY <1>1, <1>2, LastIsNat

(* The next item of the voice that is being sent follows what was sent of  *)
(* it (send_reqs, pop()).                                                  *)
LEMMA TakeReady ==
  ASSUME Orderly, IInv, BlameInv, CurSent, RestInv, wire \in Seq(Msg), sendTake
  PROVE  Ready'
  <1> USE DEF IInv
  <1>0. /\ reqPc = "top" /\ reqPc' = "change" /\ initialized /\ ~Idle
        /\ seen' = IF current = 0 THEN 0 ELSE CurrentId
        /\ UNCHANGED <<wire, spoken, operations, current>>
    BY DEF sendTake, appVars, netVars, ctlVars, CurrentId
  <1> SUFFICES ASSUME seen' # 0
               PROVE  wire' # <<>> /\ Follows(WireEnd, Message)'
    BY <1>0 DEF Ready
  <1>1. current # 0 /\ FrontIs(CurrentId)
    BY <1>0 DEF SenderInv
  <1>2. /\ wire # <<>> /\ WireEnd.id = CurrentId /\ WireEnd' = WireEnd
        /\ WireEnd.type \in {"VOICE_START", "VOICE_DATA"}
    BY <1>0, <1>1 DEF CurSent, WireEnd
  <1>3. PopType(voice_reqs) # "EMPTY"
    BY <1>0, <1>1, OneKind DEF FrontIs, Idle
  <1> DEFINE v == voice_reqs[1]
             r == VoiceReq(PopItem(voice_reqs))
  <1>4. /\ voice_reqs # <<>> /\ 1 \in 1 .. Len(voice_reqs)
        /\ r.id = v.id
        /\ r.type = CASE PopType(voice_reqs) = "DATA"    -> "VOICE_DATA"
                      [] PopType(voice_reqs) = "START"   -> "VOICE_START"
                      [] PopType(voice_reqs) = "REMOVED" -> "CANCELLED"
                      [] OTHER                           -> "VOICE_END"
        /\ PopType(voice_reqs) = "DATA" => r.data = v.data[1]
    BY <1>3, VoiceItem, VoiceItemData DEF Typed
  <1>5. req' = r
    BY <1>3 DEF sendTake
  <1> HIDE DEF r
  <1>6. v.polling /\ v.id = CurrentId
    BY <1>1 DEF FrontIs
  <1>7. Rest(v, LastOf(WireEnd))
    BY <1>0, <1>1, <1>4, <1>6 DEF RestInv, Going, Pos
  <1>8. v \in Voice
    BY <1>4, QueueElement DEF Typed
  <1>9. v.data \in Seq(Packets) /\ v.type \in TagType
    BY <1>8 DEF Voice, Stream
  <1>10. /\ PopType(voice_reqs) = FrontType(v)
         /\ FrontType(v) \in {"DATA", "END", "REMOVED"}
         /\ FrontType(v) = "DATA" => v.data # <<>>
         /\ FrontType(v) = "END" => v.data = <<>>
         /\ FrontType(v) = "REMOVED" => v.type = "deleted"
    <2>1. PopType(voice_reqs) = FrontType(v)
      BY <1>4 DEF PopType
    <2>2. v.type # "error"
      BY <1>7 DEF Rest
    <2> QED
      BY <1>3, <1>6, <2>1, <2>2 DEF FrontType
  <1>11. Message'.id = WireEnd.id
    BY <1>2, <1>4, <1>5, <1>6 DEF Message
  <1>12. CASE FrontType(v) = "DATA"
    <2>1. Message'.type = "VOICE_DATA" /\ Message'.data = v.data[1]
      BY <1>4, <1>5, <1>10, <1>12 DEF Message
    <2>2. Runs(v.data, LastOf(WireEnd), spoken[v.id]) /\ 1 \in 1 .. Len(v.data)
      BY <1>7, <1>9, <1>10, <1>12, SeqTail DEF Rest
    <2>3. v.data[1] = LastOf(WireEnd) + 1
      BY <2>2 DEF Runs
    <2> QED
      BY <1>2, <1>11, <2>1, <2>3, <1>0 DEF Follows, LastOf
  <1>13. CASE FrontType(v) \in {"END", "REMOVED"}
    <2>1. Message'.type = "VOICE_END"
      BY <1>4, <1>5, <1>10, <1>13 DEF Message
    <2>2. MayCancel(CurrentId) \/ Runs(v.data, LastOf(WireEnd), spoken[CurrentId])
      BY <1>6, <1>7 DEF Rest
    <2>3. CASE FrontType(v) = "REMOVED"
      <3>1. MayCancel(CurrentId)
        BY <1>4, <1>6, <1>10, <2>3 DEF BlameInv
      <3> QED
        BY <1>0, <1>2, <1>11, <2>1, <3>1 DEF Follows, MayCancel
    <2>4. CASE MayCancel(CurrentId)
      BY <1>0, <1>2, <1>11, <2>1, <2>4 DEF Follows, MayCancel
    <2>5. CASE FrontType(v) = "END" /\ Runs(v.data, LastOf(WireEnd), spoken[CurrentId])
      <3>1. LastOf(WireEnd) + 0 = spoken[CurrentId]
        BY <1>10, <2>5, EmptySeq DEF Runs
      <3>2. LastOf(WireEnd) \in Nat
        BY <1>2, EndIsNat
      <3>3. LastOf(WireEnd) = spoken[CurrentId]
        BY <3>1, <3>2
      <3> QED
        BY <1>0, <1>2, <1>11, <2>1, <3>3 DEF Follows, LastOf
    <2> QED
      BY <1>13, <2>2, <2>3, <2>4, <2>5
  <1> QED
    BY <1>10, <1>12, <1>13

(* What is sent next follows what was sent, after every step.              *)
LEMMA FollowStep ==
  ASSUME Orderly, IInv, BlameInv, HandData, HandEnds, WirePassed, CurSent, RestInv, Ready,
         wire \in Seq(Msg), [Next]_vars
  PROVE  Ready'
  <1> USE DEF IInv
  <1>1. CASE sendTake
    BY <1>1, TakeReady
  <1>2. CASE prepare
    BY <1>2 DEF prepare, Ready
  <1>3. CASE ~prepare /\ ~send_reqs
    <2> SUFFICES ASSUME (reqPc' = "change" /\ seen' # 0) \/ reqPc' = "send" PROVE Ready'
      BY DEF Ready
    <2>1. HandStays /\ (reqPc' = "failed" => reqPc = "failed")
      BY <1>3, OthersStay
    <2>2. reqPc' = reqPc /\ req' = req /\ seen' = seen
      BY <2>1 DEF HandStays
    <2>3. wire' = wire
      <3>1. ASSUME NEW lost, sendDone(lost) PROVE FALSE
        BY <1>3, <3>1 DEF send_reqs, do_request, sendDone
      <3> QED
        BY <1>3, <3>1, WireSteps DEF send_reqs, do_request
    <2> QED
      BY <2>2, <2>3, ReadyKept
  <1>4. CASE changeStarts
    <2>1. /\ reqPc = "change" /\ reqPc' = "send" /\ req.type \in Starts /\ seen = 0
          /\ UNCHANGED <<wire, req>>
      BY <1>4 DEF changeStarts, netVars, Starts
    <2>2. CASE wire = <<>>
      BY <2>1, <2>2 DEF Ready
    <2>3. CASE wire # <<>>
      <3>1. Len(wire) \in 1 .. Len(wire)
        BY <2>3, SeqTail
      <3>2. WireEnd.id < req.id
        BY <2>1, <3>1 DEF WirePassed, Behind, WireEnd
      <3>3. WireEnd.id \in Nat /\ req.id \in Nat
        <4>1. wire[Len(wire)] \in Msg
          BY <3>1, SeqElement
        <4>2. WireEnd.id \in SpeechId
          BY <4>1 DEF Msg, WireEnd
        <4>3. req.id \in SpeechId \cup {0}
          BY DEF Typed, HandType
        <4>4. \A i \in SpeechId \cup {0} : i \in Nat
          BY IdsAreNat
        <4> QED
          BY <4>2, <4>3, <4>4
      <3>4. WireEnd' = WireEnd /\ Message' = Message
        BY <2>1 DEF WireEnd, Message
      <3>5. Message.id = req.id /\ Message.type \in Starts
        BY <2>1 DEF Message, Starts
      <3>6. Follows(WireEnd, Message)'
        BY <3>2, <3>3, <3>4, <3>5 DEF Follows, Starts
      <3> QED
        BY <2>1, <2>3, <3>6 DEF Ready
    <2> QED
      BY <2>2, <2>3
  <1>5. CASE changeContinues \/ changeCancels
    <2> SUFFICES ASSUME (reqPc' = "change" /\ seen' # 0) \/ reqPc' = "send" PROVE Ready'
      BY DEF Ready
    <2>1. reqPc = "change" /\ seen # 0 /\ req' = req /\ wire' = wire
      BY <1>5 DEF changeContinues, changeCancels, NextReq, netVars
    <2> QED
      BY <2>1, ReadyKept
  <1>6. CASE \/ sendQuit \/ sendWait \/ do_request \/ sendWaitOp \/ sendAwake
    <2>1. reqPc' \notin {"change", "send"}
      BY <1>6 DEF sendQuit, sendWait, do_request, sendDone, sendFails, sendErase, sendRefresh,
                  sendWaitOp, sendAwake, NextReq
    <2> QED
      BY <2>1 DEF Ready
  <1> QED
    BY <1>1, <1>2, <1>3, <1>4, <1>5, <1>6 DEF send_reqs, do_ctl_change_op

(* Every message follows the one before it (speech_impl.cc:535-552).       *)
LEMMA UplinkStep ==
  ASSUME Orderly, IInv, HandData, WirePassed, Ready, wire \in Seq(Msg), UplinkOrder, [Next]_vars
  PROVE  UplinkOrder'
  <1> USE DEF IInv
  <1>1. ASSUME NEW a \in Msg, NEW b \in Msg, Follows(a, b),
               \E k \in 1 .. Len(wire) : b = wire[k]
        PROVE  Follows(a, b)'
    <2>1. Behind(b.id) /\ (b.type = "VOICE_END" => ~HasStream(voice_reqs, b.id))
      BY <1>1 DEF WirePassed
    <2>2. b.id \in SpeechId /\ b.id \in Nat /\ b.id <= next_id
      BY <2>1, IdsAreNat DEF Msg, Behind, Passed
    <2>3. b.type = "VOICE_END" => spoken'[b.id] = spoken[b.id]
      BY <2>1, <2>2, NoStreamStep
    <2> QED
      BY <1>1, <2>3, FollowsStays
  <1>2. ASSUME NEW i \in 1 .. Len(wire) - 1
        PROVE  \A a, b : a = wire[i] /\ b = wire[i + 1] => Follows(a, b)'
    <2>1. /\ i \in 1 .. Len(wire) /\ i + 1 \in 1 .. Len(wire)
          /\ wire[i] \in Msg /\ wire[i + 1] \in Msg
      BY SeqElement
    <2> QED
      BY <1>1, <2>1 DEF UplinkOrder
  <1>3. CASE wire' = wire
    <2>1. ASSUME NEW i \in 1 .. Len(wire') - 1 PROVE Follows(wire[i], wire[i + 1])'
      <3>1. PICK a, b : a = wire[i] /\ b = wire[i + 1]
        OBVIOUS
      <3>2. Follows(a, b)'
        BY <1>2, <1>3, <3>1
      <3> QED
        BY <1>3, <3>1, <3>2 DEF Follows, LastOf
    <2> QED
      BY <2>1 DEF UplinkOrder
  <1>4. CASE wire' # wire
    <2>1. /\ \E lost \in BOOLEAN : sendDone(lost)
          /\ Len(wire') = Len(wire) + 1 /\ wire'[Len(wire')] = Message /\ Message \in Msg
          /\ \A k \in 1 .. Len(wire) : wire'[k] = wire[k]
      BY <1>4, WireGrows
    <2>2. reqPc = "send" /\ spoken' = spoken /\ Len(wire) \in Nat
      BY <2>1, SeqElement DEF sendDone, appVars
    <2>3. ASSUME NEW i \in 1 .. Len(wire') - 1 PROVE Follows(wire[i], wire[i + 1])'
      <3>1. CASE i = Len(wire)
        <4>1. wire # <<>> /\ wire'[i] = WireEnd /\ wire'[i + 1] = Message
          BY <2>1, <2>2, <3>1, EmptySeq DEF WireEnd
        <4>2. Follows(WireEnd, Message)
          BY <2>2, <4>1 DEF Ready
        <4>3. PICK a, b : a = WireEnd /\ b = Message
          OBVIOUS
        <4>4. Follows(a, b)'
          BY <2>2, <4>2, <4>3, FollowsStays DEF Follows, LastOf
        <4> QED
          BY <4>1, <4>3, <4>4 DEF Follows, LastOf
      <3>2. CASE i # Len(wire)
        <4>1. i \in 1 .. Len(wire) - 1 /\ wire'[i] = wire[i] /\ wire'[i + 1] = wire[i + 1]
          BY <2>1, <2>2, <3>2
        <4>2. PICK a, b : a = wire[i] /\ b = wire[i + 1]
          OBVIOUS
        <4>3. Follows(a, b)'
          BY <1>2, <4>1, <4>2
        <4> QED
          BY <4>1, <4>2, <4>3 DEF Follows, LastOf
      <3> QED
        BY <3>1, <3>2
    <2> QED
      BY <2>3 DEF UplinkOrder
  <1> QED
    BY <1>3, <1>4

(* What a step other than a pop() does to the voice m of the queue, now    *)
(* the k-th: nothing, put_voice(), end_voice(), cancel(), erase_req().     *)
Turned(k, m) ==
  /\ voice_reqs'[k].id = voice_reqs[m].id /\ voice_reqs'[k].polling = voice_reqs[m].polling
  /\ \/ /\ voice_reqs'[k] = voice_reqs[m]
        /\ spoken'[voice_reqs[m].id] = spoken[voice_reqs[m].id]
     \/ /\ voice_reqs[m].type = "uncompleted" /\ voice_reqs'[k].type = "uncompleted"
        /\ voice_reqs'[k].data = Append(voice_reqs[m].data, spoken[voice_reqs[m].id] + 1)
        /\ spoken'[voice_reqs[m].id] = spoken[voice_reqs[m].id] + 1
     \/ /\ voice_reqs'[k].type = "completed" /\ voice_reqs'[k].data = voice_reqs[m].data
        /\ spoken'[voice_reqs[m].id] = spoken[voice_reqs[m].id]
     \/ /\ voice_reqs'[k].type = "deleted" /\ voice_reqs'[k].data = <<>>
        /\ MayCancel(voice_reqs[m].id)
     \/ /\ voice_reqs'[k].type = "error"
        /\ \/ reqPc = "failed" /\ voice_reqs[m].id = req.id
           \/ respPc \in {"finish", "erase"} /\ voice_reqs[m].id = rx.id

(* A voice that was just started. *)
Opened(k) ==
  /\ voice_reqs'[k].type = "uncompleted" /\ ~voice_reqs'[k].polling
  /\ voice_reqs'[k].data = <<>> /\ spoken'[voice_reqs'[k].id] = 0

(* Every voice of the queue was there before, or was just started. *)
VoiceTurns ==
  \A k \in 1 .. Len(voice_reqs') :
    Opened(k) \/ \E m \in 1 .. Len(voice_reqs) : Turned(k, m)

(* A step that leaves the voices. *)
LEMMA SameTurned == UNCHANGED <<voice_reqs, spoken>> => VoiceTurns
  BY DEF VoiceTurns, Turned

(* erase(), of cancel() or of erase_req() (stream_queue.h). *)
LEMMA ErasedTurned ==
  ASSUME Typed, NEW id, NEW e \in {0, SPEECH_TIMEOUT}, voice_reqs' = Erase(voice_reqs, id, e),
         spoken' = spoken,
         IF e = 0 THEN MayCancel(id)
         ELSE (reqPc = "failed" /\ id = req.id) \/ (respPc \in {"finish", "erase"} /\ id = rx.id)
  PROVE  VoiceTurns
  <1>1. voice_reqs \in Seq(Stream(SpeechId, Packets, {SPEECH_TIMEOUT}))
    BY DEF Typed, QueueType, Voice
  <1>2. /\ SameIds(voice_reqs, voice_reqs')
        /\ \A i \in 1 .. Len(voice_reqs) :
             voice_reqs[i].id # id => voice_reqs'[i] = voice_reqs[i]
    BY <1>1, EraseKeeps
  <1>3. ASSUME NEW k \in 1 .. Len(voice_reqs) PROVE Turned(k, k)
    <2>1. /\ voice_reqs'[k].polling = voice_reqs[k].polling
          /\ voice_reqs[k].id = id => /\ voice_reqs'[k].type = IF e = 0 THEN "deleted" ELSE "error"
                                      /\ voice_reqs'[k].data = <<>>
      BY <1>1, EraseLeaves
    <2>2. voice_reqs'[k].id = voice_reqs[k].id
      BY <1>2 DEF SameIds
    <2>3. CASE voice_reqs[k].id = id
      BY <2>1, <2>2, <2>3 DEF Turned
    <2>4. CASE voice_reqs[k].id # id
      BY <1>2, <2>1, <2>2, <2>4 DEF Turned
    <2> QED
      BY <2>3, <2>4
  <1> QED
    BY <1>2, <1>3 DEF VoiceTurns, SameIds

(* clear() empties every stream (stream_queue.h). *)
LEMMA ClearEmpties ==
  ASSUME NEW s \in Seq(Voice), NEW i \in 1 .. Len(s)
  PROVE  Clear(s)[i].data = <<>>
  <1>1. s[i] \in Voice
    BY SeqElement
  <1> DEFINE x == Emptied(s[i])
             y == [s[i] EXCEPT !.data = <<>>]
  <1>2. y.data = <<>> /\ DOMAIN y = DOMAIN s[i]
    BY <1>1 DEF Voice, Stream
  <1>3. x = [y EXCEPT !.content = NoData]
    BY <1>1 DEF Emptied, Voice, Stream
  <1> HIDE DEF y
  <1>4. x.data = y.data /\ DOMAIN x = DOMAIN y
    BY <1>3
  <1> HIDE DEF x
  <1>5. Clear(s)[i] = [x EXCEPT !.type = "deleted"]
    BY DEF Clear, Erased, x
  <1> QED
    BY <1>2, <1>4, <1>5

(* clear() of cancel(0) (speech_impl.cc:224-233). *)
LEMMA ClearedTurned ==
  ASSUME Typed, voice_reqs' = Clear(voice_reqs), spoken' = spoken, 0 \in Cancels
  PROVE  VoiceTurns
  <1>1. voice_reqs \in Seq(Voice) /\ voice_reqs \in Seq(Stream(SpeechId, Packets, {SPEECH_TIMEOUT}))
    BY DEF Typed, QueueType, Voice
  <1>2. /\ SameIds(voice_reqs, voice_reqs')
        /\ \A k \in 1 .. Len(voice_reqs) : /\ voice_reqs'[k].polling = voice_reqs[k].polling
                                           /\ voice_reqs'[k].type = "deleted"
    BY <1>1, ClearKeeps
  <1>3. \A k \in 1 .. Len(voice_reqs) : voice_reqs'[k].data = <<>>
    BY <1>1, ClearEmpties
  <1>4. \A id : MayCancel(id)
    BY DEF MayCancel
  <1> QED
    BY <1>2, <1>3, <1>4 DEF VoiceTurns, SameIds, Turned

(* put() of put_voice(): ids are unique, so only the voice it is for is    *)
(* given the packet (speech_impl.cc:180-191).                              *)
LEMMA PutTurned ==
  ASSUME Typed, QueueInv, NEW id \in SpeechId, put_voice(id)
  PROVE  VoiceTurns
  <1>0. voice_reqs \in Seq(Stream(SpeechId, Packets, {SPEECH_TIMEOUT})) /\ Len(voice_reqs) \in Nat
    BY SeqElement DEF Typed, QueueType, Voice
  <1>1. spoken[id] + 1 \in Packets
    BY PacketRoom DEF put_voice, Typed
  <1>2. voice_reqs' = Put(voice_reqs, id, spoken[id] + 1)
    BY DEF put_voice
  <1>3. /\ SameIds(voice_reqs, voice_reqs')
        /\ \A i \in 1 .. Len(voice_reqs) : voice_reqs'[i].type = voice_reqs[i].type
    BY <1>0, <1>1, <1>2, PutKeeps
  <1>4. PICK m \in 1 .. Len(voice_reqs) :
               voice_reqs[m].id = id /\ voice_reqs[m].type = "uncompleted"
    BY DEF put_voice, AcceptsData
  <1>5. spoken' = [spoken EXCEPT ![id] = @ + 1] /\ spoken \in [SpeechId -> Nat]
    BY DEF put_voice, Typed, RestType
  <1>6. ASSUME NEW k \in 1 .. Len(voice_reqs) PROVE Turned(k, k)
    <2>1. /\ voice_reqs[k].id # id => voice_reqs'[k] = voice_reqs[k]
          /\ voice_reqs'[k].polling = voice_reqs[k].polling
          /\ voice_reqs[k].id = id /\ voice_reqs[k].type = "uncompleted" =>
               voice_reqs'[k].data = Append(voice_reqs[k].data, spoken[id] + 1)
      BY <1>0, <1>1, <1>2, PutFills
    <2>2. voice_reqs'[k].id = voice_reqs[k].id /\ voice_reqs[k].id \in SpeechId
      BY <1>3, QueueElement DEF SameIds, Typed
    <2>3. CASE voice_reqs[k].id = id
      <3>1. k = m
        <4>1. \A i, j \in 1 .. Len(voice_reqs) : j < i => voice_reqs[j].id < voice_reqs[i].id
          BY <1>0 DEF QueueInv
        <4>2. ~(id < id)
          BY IdsAreNat
        <4> QED
          BY <1>0, <1>4, <2>3, <4>1, <4>2
      <3>2. voice_reqs[k].type = "uncompleted" /\ voice_reqs'[k].type = "uncompleted"
        BY <1>3, <1>4, <3>1
      <3>3. spoken'[id] = spoken[id] + 1
        BY <1>5
      <3> QED
        BY <2>1, <2>2, <2>3, <3>2, <3>3 DEF Turned
    <2>4. CASE voice_reqs[k].id # id
      <3>1. spoken'[voice_reqs[k].id] = spoken[voice_reqs[k].id]
        BY <1>5, <2>2, <2>4
      <3> QED
        BY <2>1, <2>2, <2>4, <3>1 DEF Turned
    <2> QED
      BY <2>3, <2>4
  <1> QED
    BY <1>3, <1>6 DEF VoiceTurns, SameIds

(* push() of start_voice(): nothing was put into the new voice yet. *)
LEMMA StartTurned ==
  ASSUME Typed, Silence, start_voice
  PROVE  VoiceTurns
  <1>0. voice_reqs \in Seq(Stream(SpeechId, Packets, {SPEECH_TIMEOUT}))
    BY DEF Typed, QueueType, Voice
  <1>1. next_id + 1 \in SpeechId /\ next_id < next_id + 1
    BY SpeechAssumption DEF start_voice, SpeechId, Typed, RestType
  <1> DEFINE v == NewStream(next_id + 1)
  <1>2. /\ HasStream(voice_reqs, next_id + 1) => voice_reqs' = voice_reqs
        /\ ~HasStream(voice_reqs, next_id + 1) => voice_reqs' = Append(voice_reqs, v)
    BY <1>0, <1>1, StartKeeps DEF start_voice
  <1>3. /\ v.type = "uncompleted" /\ ~v.polling /\ v.data = <<>> /\ v.id = next_id + 1
        /\ v \in Stream(SpeechId, Packets, {SPEECH_TIMEOUT})
    <2>1. <<>> \in Seq(Packets)
      OBVIOUS
    <2> QED
      BY <1>1, <2>1 DEF NewStream, Stream, TagType
  <1>4. spoken' = spoken
    BY DEF start_voice
  <1>5. spoken'[v.id] = 0
    BY <1>1, <1>3, <1>4 DEF Silence
  <1> HIDE DEF v
  <1>6. CASE voice_reqs' = Append(voice_reqs, v)
    <2>1. /\ Len(voice_reqs') = Len(voice_reqs) + 1 /\ Len(voice_reqs) \in Nat
          /\ voice_reqs'[Len(voice_reqs) + 1] = v
          /\ \A i \in 1 .. Len(voice_reqs) : voice_reqs'[i] = voice_reqs[i]
      BY <1>0, <1>3, <1>6, SeqAppend, SeqElement
    <2>2. ASSUME NEW k \in 1 .. Len(voice_reqs')
          PROVE  Opened(k) \/ \E m \in 1 .. Len(voice_reqs) : Turned(k, m)
      <3>1. CASE k = Len(voice_reqs) + 1
        BY <1>3, <1>5, <2>1, <3>1 DEF Opened
      <3>2. CASE k # Len(voice_reqs) + 1
        <4>1. k \in 1 .. Len(voice_reqs) /\ Turned(k, k)
          BY <1>4, <2>1, <3>2 DEF Turned
        <4> QED
          BY <4>1
      <3> QED
        BY <3>1, <3>2
    <2> QED
      BY <2>2 DEF VoiceTurns
  <1> QED
    BY <1>2, <1>4, <1>6, SameTurned

(* What becomes of the voices, but for what pop() takes of the first one.  *)
LEMMA TurnStep ==
  ASSUME Typed, QueueInv, Silence, [Next]_vars, ~sendTake
  PROVE  VoiceTurns
  <1>0. voice_reqs \in Seq(Stream(SpeechId, Packets, {SPEECH_TIMEOUT}))
    BY DEF Typed, QueueType, Voice
  <1>1. CASE UNCHANGED vars
    BY <1>1, SameTurned DEF vars
  <1>2. CASE prepare \/ release
    <2>1. CASE releaseClose
      BY <2>1, EmptySeq DEF releaseClose, VoiceTurns
    <2> QED
      BY <1>2, <2>1, SameTurned DEF prepare, release, releaseBegin, releaseJoinReq,
                                    releaseJoinResp, queues, appVars
  <1>3. CASE cancel
    <2>1. ASSUME NEW id \in Cancels, cancelQueued(id) PROVE VoiceTurns
      <3>1. MayCancel(id) /\ spoken' = spoken
        BY <2>1 DEF MayCancel, cancelQueued, appVars
      <3>2. CASE HasStream(voice_reqs, id)
        BY <2>1, <3>1, <3>2, ErasedTurned DEF cancelQueued
      <3>3. CASE ~HasStream(voice_reqs, id)
        BY <2>1, <3>1, <3>3, SameTurned DEF cancelQueued
      <3> QED
        BY <3>2, <3>3
    <2>2. CASE cancelOps \/ \E id \in Cancels : cancelOne(id)
      BY <2>2, SameTurned DEF cancelOps, cancelOne, queues, appVars
    <2>3. CASE 0 \in Cancels /\ cancelAll
      BY <2>3, ClearedTurned DEF cancelAll, appVars
    <2> QED
      BY <1>3, <2>1, <2>2, <2>3 DEF cancel
  <1>4. CASE \E c \in Callers : textRead(c) \/ textStore(c) \/ textQueue(c)
    BY <1>4, SameTurned DEF textRead, textStore, textQueue, queues
  <1>5. CASE start_voice
    BY <1>5, StartTurned
  <1>6. ASSUME NEW id \in SpeechId, put_voice(id) PROVE VoiceTurns
    BY <1>6, PutTurned
  <1>7. ASSUME NEW id \in SpeechId, end_voice(id) PROVE VoiceTurns
    <2>1. voice_reqs' = End(voice_reqs, id, NoData) /\ spoken' = spoken
      BY <1>7 DEF end_voice, appVars
    <2>2. /\ SameIds(voice_reqs, voice_reqs')
          /\ \A i \in 1 .. Len(voice_reqs) :
               voice_reqs'[i].type = IF voice_reqs[i].id = id THEN "completed"
                                     ELSE voice_reqs[i].type
      BY <1>0, <2>1, EndKeeps
    <2>3. ASSUME NEW i \in 1 .. Len(voice_reqs)
          PROVE  /\ voice_reqs'[i].polling = voice_reqs[i].polling
                 /\ voice_reqs'[i].data = voice_reqs[i].data
                 /\ voice_reqs[i].id # id => voice_reqs'[i] = voice_reqs[i]
      BY <1>0, <2>1, EndLeaves
    <2> QED
      BY <2>1, <2>2, <2>3 DEF VoiceTurns, SameIds, Turned
  <1>8. CASE poll
    BY <1>8, SameTurned DEF poll, pollReleased, pollLook, pollSleep, pollDead, pollItem, queues,
                            appVars
  <1>9. CASE send_reqs
    <2>1. CASE sendErase
      <3>1. /\ voice_reqs' = Erase(voice_reqs, req.id, SPEECH_TIMEOUT) /\ reqPc = "failed"
            /\ spoken' = spoken
        BY <2>1 DEF sendErase, EraseReq, appVars
      <3>2. SPEECH_TIMEOUT # 0
        BY DEF SPEECH_TIMEOUT
      <3> QED
        BY <3>1, <3>2, ErasedTurned
    <2>2. CASE ~sendErase
      BY <1>9, <2>2, SameTurned DEF send_reqs, sendQuit, sendWait, do_ctl_change_op,
           changeStarts, changeContinues, changeCancels, do_request, sendDone, sendFails,
           sendRefresh, sendWaitOp, sendAwake, queues, appVars
    <2> QED
      BY <2>1, <2>2
  <1>10. CASE gen_results
    <2>1. CASE genFinish \/ genErase
      <3>1. /\ voice_reqs' = Erase(voice_reqs, rx.id, SPEECH_TIMEOUT)
            /\ respPc \in {"finish", "erase"} /\ spoken' = spoken
        BY <2>1 DEF genFinish, genErase, EraseReq, appVars
      <3>2. SPEECH_TIMEOUT # 0
        BY DEF SPEECH_TIMEOUT
      <3> QED
        BY <3>1, <3>2, ErasedTurned
    <2>2. CASE ~(genFinish \/ genErase)
      BY <1>10, <2>2, SameTurned DEF gen_results, genTimeout, recvPacket, recvWait, recvTimer,
           recvNothing, genAnswer, genStale, genError, queues, appVars
    <2> QED
      BY <2>1, <2>2
  <1>11. CASE \/ clock \/ \E k \in {"broken", "badData"} : linkError(k)
              \/ \E id \in SpeechId : serverAnswers(id)
    BY <1>11, SameTurned DEF clock, linkError, serverAnswers, queues, appVars
  <1> QED
    BY <1>1, <1>2, <1>3, <1>4, <1>5, <1>6, <1>7, <1>8, <1>9, <1>10, <1>11 DEF Next

(* While a voice is queued no text is in hand. *)
LEMMA VoiceKind ==
  ASSUME Orderly, IInv, voice_reqs # <<>>, Busy
  PROVE  req.type # "TEXT"
  BY OneKind DEF IInv, KindInv, Busy

(* A voice that is being sent goes on with the next packet, or is no       *)
(* longer being sent.                                                      *)
LEMMA GoingStep ==
  ASSUME Orderly, "lost" \notin Faults, IInv, HandData, wire \in Seq(Msg), [Next]_vars, ~sendTake,
         voice_reqs' # <<>>, NEW i, Going(i)'
  PROVE  Going(i) /\ Pos' = Pos
  <1> USE DEF IInv
  <1>1. CASE prepare
    BY <1>1 DEF prepare, FreshInv, Init, CtlInit, ctlVars, Going
  <1>2. CASE ~prepare /\ ~send_reqs
    <2>1. HandStays /\ (reqPc' = "failed" => reqPc = "failed")
      BY <1>2, OthersStay
    <2>2. req' = req /\ (reqPc' = reqPc \/ (reqPc = "asleep" /\ reqPc' = "top"))
      BY <2>1 DEF HandStays
    <2>3. wire' = wire
      <3>1. ASSUME NEW lost, sendDone(lost) PROVE FALSE
        BY <1>2, <3>1 DEF send_reqs, do_request, sendDone
      <3> QED
        BY <1>2, <3>1, WireSteps DEF send_reqs, do_request
    <2>4. Pos' = Pos
      BY <2>2, <2>3 DEF Pos, WireEnd, LastOf
    <2>5. current' # 0 => current # 0 /\ CurrentId' = CurrentId
      <3>1. CASE Continues
        BY <3>1, SameCurrent DEF Continues
      <3>2. CASE Removes
        BY <3>2, RemovedCurrent
      <3> QED
        BY <1>2, <3>1, <3>2, OthersEffect DEF Drops
    <2>6. Going(i)
      BY <2>2, <2>5 DEF Going
    <2> QED
      BY <2>4, <2>6
  <1>3. CASE sendQuit \/ sendWait
    <2>1. /\ reqPc = "top" /\ reqPc' \notin {"change", "send"}
          /\ UNCHANGED <<current, operations, wire, req>>
      BY <1>3 DEF sendQuit, sendWait, ctlVars, netVars
    <2> QED
      BY <2>1 DEF Going, Pos, WireEnd, LastOf, CurrentId
  <1>4. CASE changeStarts
    <2>1. /\ reqPc = "change" /\ reqPc' = "send" /\ req' = req /\ voice_reqs' = voice_reqs
          /\ Adds /\ req.type \in Starts
      BY <1>4, NothingSeen DEF changeStarts, Adds, Starts, queues
    <2>2. CurrentId' = req.id
      BY <2>1, AddKeeps DEF CurrentId, Starts
    <2>3. req.type = "VOICE_START"
      BY <2>1, VoiceKind DEF Starts, Busy
    <2> QED
      BY <2>1, <2>2, <2>3 DEF Going, Pos, LastOf
  <1>5. CASE changeContinues
    <2>1. /\ reqPc = "change" /\ UNCHANGED <<current, operations>>
          /\ IF seen = 0 THEN reqPc' = "top" ELSE reqPc' = "send" /\ req' = req
      BY <1>5 DEF changeContinues, ctlVars, NextReq
    <2>2. seen = 0 => current = 0
      BY <2>1, NothingSeen
    <2>3. seen # 0 /\ current # 0 /\ CurrentId = i
      BY <2>1, <2>2 DEF Going, CurrentId
    <2> QED
      BY <2>1, <2>3 DEF Going, Pos, LastOf
  <1>6. ~changeCancels
    <2> SUFFICES ASSUME changeCancels PROVE FALSE
      OBVIOUS
    <2>1. seen = 0 => current = 0
      BY NothingSeen DEF changeCancels
    <2>2. current' = 0 /\ reqPc' # "change"
      BY <2>1 DEF changeCancels, new_op, NextReq
    <2> QED
      BY <2>2 DEF Going
  <1>7. ASSUME NEW lost \in BOOLEAN, sendDone(lost) PROVE Going(i) /\ Pos' = Pos
    <2>1. /\ reqPc = "send" /\ reqPc' = "sent" /\ req' = req
          /\ UNCHANGED <<current, operations>> /\ wire' = Append(wire, Message)
      BY <1>7 DEF sendDone, ctlVars
    <2>2. Message \in Msg
      <3>1. req.id \in SpeechId /\ req.type \in ReqType
        BY <2>1 DEF Typed, HandType
      <3> QED
        BY <2>1, <3>1 DEF Message, Msg, HandData, ReqType
    <2>3. WireEnd' = Message
      <3>1. Len(wire') = Len(wire) + 1 /\ wire'[Len(wire) + 1] = Message
        BY <2>1, <2>2, SeqAppend
      <3> QED
        BY <3>1 DEF WireEnd
    <2>4. LastOf(Message) = LastOf(req)
      BY DEF Message, LastOf
    <2>5. Pos' = LastOf(Message)
      BY <2>1, <2>3 DEF Pos, LastOf
    <2>6. Pos = LastOf(req)
      BY <2>1 DEF Pos
    <2>7. Going(i)
      BY <2>1 DEF Going, CurrentId
    <2> QED
      BY <2>4, <2>5, <2>6, <2>7
  <1>8. ~sendFails /\ ~sendErase /\ ~sendAwake
    <2>1. ASSUME sendFails PROVE FALSE
      <3>1. /\ set_op_error("SERVICE_UNAVAILABLE") /\ "SERVICE_UNAVAILABLE" \in Errors
            /\ reqPc' = "failed"
        BY <2>1 DEF sendFails, Errors
      <3> QED
        BY <3>1, FailDrops DEF Drops, Going
    <2>2. ASSUME sendErase \/ sendAwake PROVE FALSE
      <3>1. current = 0 /\ current' = current /\ reqPc' = "top"
        BY <2>2 DEF sendErase, sendAwake, SenderInv, ctlVars, NextReq
      <3> QED
        BY <3>1 DEF Going
    <2> QED
      BY <2>1, <2>2
  <1>9. CASE sendRefresh
    <2>1. reqPc = "sent" /\ wire' = wire /\ reqPc' \notin {"change", "send"}
      BY <1>9 DEF sendRefresh, netVars, NextReq
    <2>2. SameOpIds /\ current' = current
      <3>1. OpType(SpeechId, Errors) /\ refresh_op_time(FALSE)
        BY <1>9 DEF sendRefresh, Typed
      <3> QED
        BY <3>1, RefreshKeeps
    <2>3. current # 0 => CurrentId' = CurrentId
      BY <2>2, SameCurrent
    <2>4. Pos' = Pos
      BY <2>1 DEF Pos, WireEnd, LastOf
    <2> QED
      BY <2>1, <2>2, <2>3, <2>4 DEF Going
  <1>10. CASE sendWaitOp
    <2>1. /\ reqPc = "waitOp" /\ reqPc' \notin {"change", "send"}
          /\ UNCHANGED <<operations, current, wire>>
      BY <1>10 DEF sendWaitOp, netVars, NextReq
    <2>2. Pos' = Pos
      BY <2>1 DEF Pos, WireEnd, LastOf
    <2> QED
      BY <2>1, <2>2 DEF Going, CurrentId
  <1> QED
    BY <1>1, <1>2, <1>3, <1>4, <1>5, <1>6, <1>7, <1>8, <1>9, <1>10
       DEF send_reqs, do_ctl_change_op, do_request

(* The position in a voice that is being sent is a number of packets.      *)
LEMMA PosIsNat ==
  ASSUME Orderly, IInv, HandData, HandEnds, CurSent, wire \in Seq(Msg),
         NEW i, HasStream(voice_reqs, i), Going(i)
  PROVE  Pos \in Nat
  <1> USE DEF IInv
  <1>1. voice_reqs # <<>>
    BY EmptySeq DEF HasStream
  <1>2. CASE reqPc = "change" /\ req.type = "VOICE_START"
    BY <1>2 DEF Pos, LastOf
  <1>3. CASE current # 0 /\ CurrentId = i
    <2>1. reqPc \in {"change", "send", "sent", "waitOp", "inOp"} =>
            /\ req.id = i /\ req.type \notin {"TEXT", "VOICE_END", "CANCELLED"}
      BY <1>1, <1>3, VoiceKind DEF SenderInv, HandEnds, Busy
    <2>2. CASE reqPc \in {"change", "send"}
      <3>1. req.type \in {"VOICE_START", "VOICE_DATA"}
        BY <2>1, <2>2 DEF Typed, HandType, ReqType
      <3>2. req.type = "VOICE_DATA" => req.data \in Packets
        BY <2>2 DEF HandData
      <3>3. LastOf(req) \in Nat
        BY <3>1, <3>2, LastIsNat
      <3> QED
        BY <2>2, <3>3 DEF Pos
    <2>3. CASE reqPc \notin {"change", "send"}
      <3>1. wire # <<>> /\ WireEnd.type \in {"VOICE_START", "VOICE_DATA"}
        BY <1>3, <2>1, <2>3 DEF CurSent
      <3> QED
        BY <2>3, <3>1, EndIsNat DEF Pos
    <2> QED
      BY <2>2, <2>3
  <1> QED
    BY <1>2, <1>3 DEF Going

(* More packets are put at the end of a voice; the end of it, or its       *)
(* cancel, leaves the rest of it in the queue whole, or nothing.           *)
LEMMA RestTurned ==
  ASSUME Typed, NEW k \in 1 .. Len(voice_reqs'), NEW m \in 1 .. Len(voice_reqs), Turned(k, m),
         voice_reqs'[k].type # "error", NEW p \in Nat, Rest(voice_reqs[m], p)
  PROVE  Rest(voice_reqs[k], p)'
  <1> DEFINE v == voice_reqs[m]
             d == voice_reqs[m].data
             n == spoken[voice_reqs[m].id]
  <1>0. v \in Voice /\ v.id \in SpeechId
    BY QueueElement DEF Typed
  <1>1. d \in Seq(Packets) /\ n \in Nat
    BY <1>0 DEF Voice, Stream, Typed, RestType
  <1>2. voice_reqs'[k].id = v.id /\ voice_reqs'[k].type # "error"
    BY DEF Turned
  <1>3. CASE voice_reqs'[k] = v /\ spoken'[v.id] = n
    BY <1>3 DEF Rest, Runs, MayCancel
  <1>4. CASE /\ v.type = "uncompleted" /\ voice_reqs'[k].data = Append(d, n + 1)
             /\ spoken'[v.id] = n + 1
    <2>1. Runs(d, p, n)
      BY <1>4 DEF Rest
    <2>3. p + Len(d) = n /\ (\A j \in 1 .. Len(d) : d[j] = p + j) /\ Len(d) \in Nat
      BY <1>1, <2>1, SeqElement DEF Runs
    <2> DEFINE e == Append(d, n + 1)
    <2>4. /\ Len(e) = Len(d) + 1 /\ e[Len(d) + 1] = n + 1
          /\ \A j \in 1 .. Len(d) : e[j] = d[j]
      <3>1. d \in Seq(Nat) /\ n + 1 \in Nat
        <4>1. Packets \subseteq Nat
          BY SpeechAssumption DEF Packets
        <4>2. d \in Seq(Nat)
          BY <1>1, <4>1, SeqOfNat
        <4>3. n + 1 \in Nat
          BY <1>1
        <4> QED
          BY <4>2, <4>3
      <3> QED
        BY <3>1, SeqAppend
    <2> HIDE DEF e
    <2>5. p + Len(e) = n + 1
      BY <1>1, <2>3, <2>4
    <2>6. ASSUME NEW j \in 1 .. Len(e) PROVE e[j] = p + j
      <3>1. CASE j = Len(d) + 1
        <4>1. p + (Len(d) + 1) = n + 1
          BY <2>4, <2>5
        <4> QED
          BY <2>4, <3>1, <4>1
      <3>2. CASE j # Len(d) + 1
        <4>1. j \in 1 .. Len(d)
          BY <2>3, <2>4, <3>2
        <4> QED
          BY <2>3, <2>4, <4>1
      <3> QED
        BY <3>1, <3>2
    <2>7. Runs(e, p, n + 1)
      BY <2>5, <2>6 DEF Runs
    <2>8. voice_reqs'[k].data = e /\ spoken'[voice_reqs'[k].id] = n + 1
      BY <1>2, <1>4 DEF e
    <2> QED
      BY <1>2, <2>7, <2>8 DEF Rest, Runs
  <1>5. CASE /\ voice_reqs'[k].type = "completed" /\ voice_reqs'[k].data = d
             /\ spoken'[v.id] = n
    BY <1>2, <1>5 DEF Rest, Runs, MayCancel
  <1>6. CASE voice_reqs'[k].type = "deleted" /\ voice_reqs'[k].data = <<>> /\ MayCancel(v.id)
    BY <1>2, <1>6 DEF Rest, MayCancel
  <1> QED
    BY <1>3, <1>4, <1>5, <1>6 DEF Turned

(* Nothing but a pop() sends of a voice. *)
LEMMA RestKept ==
  ASSUME Orderly, "lost" \notin Faults, IInv, FailedInv, HandData, HandEnds, RxOver, Silence,
         CurSent, RestInv, wire \in Seq(Msg), [Next]_vars, ~sendTake
  PROVE  RestInv'
  <1> USE DEF IInv
  <1> SUFFICES ASSUME NEW k \in 1 .. Len(voice_reqs')
               PROVE  IF voice_reqs'[k].polling
                      THEN Going(voice_reqs[k].id)' => Rest(voice_reqs[k], Pos)'
                      ELSE Rest(voice_reqs[k], 0)'
    BY DEF RestInv
  <1>0. FailedInv' /\ VoiceTurns
    BY FailedStep, TurnStep
  <1>1. CASE Opened(k)
    <2>1. Runs(<<>>, 0, 0)
      BY EmptySeq DEF Runs
    <2> QED
      BY <1>1, <2>1 DEF Opened, Rest, Runs
  <1>2. ASSUME NEW m \in 1 .. Len(voice_reqs), Turned(k, m)
        PROVE  IF voice_reqs'[k].polling
               THEN Going(voice_reqs[k].id)' => Rest(voice_reqs[k], Pos)'
               ELSE Rest(voice_reqs[k], 0)'
    <2>1. voice_reqs'[k].id = voice_reqs[m].id /\ voice_reqs'[k].polling = voice_reqs[m].polling
      BY <1>2 DEF Turned
    <2>2. CASE ~voice_reqs'[k].polling
      <3>1. Rest(voice_reqs[m], 0)
        BY <2>1, <2>2 DEF RestInv
      <3>2. voice_reqs'[k].type # "error"
        BY <1>0, <2>2 DEF FailedInv
      <3> QED
        BY <1>2, <2>2, <3>1, <3>2, RestTurned
    <2>3. CASE voice_reqs'[k].polling
      <3> SUFFICES ASSUME Going(voice_reqs[k].id)' PROVE Rest(voice_reqs[k], Pos)'
        BY <2>3
      <3>1. PICK i : i = voice_reqs[m].id
        OBVIOUS
      <3>2. Going(i)' /\ voice_reqs' # <<>>
        BY <2>1, <3>1, EmptySeq DEF Going
      <3>3. Going(i) /\ Pos' = Pos
        BY <3>2, GoingStep
      <3>4. Rest(voice_reqs[m], Pos)
        BY <2>1, <2>3, <3>1, <3>3 DEF RestInv
      <3>5. HasStream(voice_reqs, i)
        BY <3>1 DEF HasStream
      <3>6. PICK p \in Nat : p = Pos
        BY <3>3, <3>5, PosIsNat
      <3>7. ~(reqPc = "failed" /\ i = req.id)
        BY <3>3 DEF Going, SenderInv
      <3>8. ~(respPc \in {"finish", "erase"} /\ i = rx.id)
        <4> SUFFICES ASSUME respPc \in {"finish", "erase"}, i = rx.id PROVE FALSE
          OBVIOUS
        <4>1. reqPc = "change" /\ req.type = "VOICE_START" /\ req.id = rx.id
          BY <3>3 DEF RxOver, Going
        <4>2. rx.id < req.id /\ rx.id \in Nat
          BY <4>1, IdsAreNat DEF RxOver, Behind, Starts, FailedInv
        <4> QED
          BY <4>1, <4>2
      <3>9. voice_reqs'[k].type # "error"
        BY <1>2, <3>1, <3>4, <3>7, <3>8 DEF Turned, Rest
      <3>10. Rest(voice_reqs[k], p)'
        BY <1>2, <3>4, <3>6, <3>9, RestTurned
      <3> QED
        BY <3>3, <3>6, <3>10 DEF Rest
    <2> QED
      BY <2>2, <2>3
  <1> QED
    BY <1>0, <1>1, <1>2 DEF VoiceTurns

(* pop() takes the next packet of the voice that is being sent, or starts  *)
(* the next voice (speech_impl.cc:373-383).                                *)
LEMMA RestTake ==
  ASSUME Orderly, IInv, HandData, HandEnds, CurSent, RestInv, wire \in Seq(Msg), sendTake
  PROVE  RestInv'
  <1> USE DEF IInv
  <1>0. /\ reqPc = "top" /\ reqPc' = "change" /\ voice_reqs' = PopRest(voice_reqs)
        /\ UNCHANGED <<wire, spoken, operations, current>> /\ ~Idle
        /\ voice_reqs \in Seq(Stream(SpeechId, Packets, {SPEECH_TIMEOUT}))
    BY DEF sendTake, appVars, netVars, ctlVars, Typed, QueueType, Voice
  <1> DEFINE s == voice_reqs
  <1>1. /\ PopType(s) \in {"EMPTY", "START", "DATA"} =>
             /\ SameIds(s, voice_reqs')
             /\ \A i \in 1 .. Len(s) : voice_reqs'[i].type = s[i].type
        /\ PopType(s) \in {"END", "REMOVED", "ERROR"} => s # <<>> /\ voice_reqs' = Tail(s)
        /\ PopType(s) \in {"EMPTY", "START", "DATA", "END", "REMOVED", "ERROR"}
    BY <1>0, PopRestKeeps
  <1> SUFFICES ASSUME NEW k \in 1 .. Len(voice_reqs')
               PROVE  IF voice_reqs'[k].polling
                      THEN Going(voice_reqs[k].id)' => Rest(voice_reqs[k], Pos)'
                      ELSE Rest(voice_reqs[k], 0)'
    BY DEF RestInv
  <1>2. ASSUME NEW m \in 1 .. Len(s), m # 1, voice_reqs'[k] = s[m]
        PROVE  ~voice_reqs'[k].polling /\ Rest(voice_reqs[k], 0)'
    <2>1. ~s[m].polling
      BY <1>2 DEF QueueInv
    <2>2. Rest(s[m], 0)
      BY <2>1 DEF RestInv
    <2> QED
      BY <1>0, <1>2, <2>1, <2>2 DEF Rest, Runs, MayCancel
  <1>3. CASE PopType(s) = "EMPTY"
    <2>1. voice_reqs' = s /\ text_reqs # <<>>
      BY <1>0, <1>3 DEF PopRest, Idle
    <2>2. s = <<>>
      BY <2>1, OneKind
    <2> QED
      BY <2>1, <2>2, EmptySeq
  <1>4. CASE PopType(s) \in {"END", "REMOVED", "ERROR"}
    <2>1. k + 1 \in 1 .. Len(s) /\ k + 1 # 1 /\ voice_reqs'[k] = s[k + 1]
      BY <1>0, <1>1, <1>4, SeqTail
    <2> QED
      BY <1>2, <2>1
  <1>5. CASE PopType(s) \in {"START", "DATA"}
    <2>0. /\ Len(voice_reqs') = Len(s) /\ 1 \in 1 .. Len(s)
          /\ \A i \in 1 .. Len(s) : i # 1 => voice_reqs'[i] = s[i]
          /\ voice_reqs'[1].id = s[1].id /\ voice_reqs'[1].type = s[1].type
          /\ PopType(s) = "START" => /\ ~s[1].polling /\ voice_reqs'[1].polling
                                     /\ voice_reqs'[1].data = s[1].data
          /\ PopType(s) = "DATA" => /\ s[1].polling /\ voice_reqs'[1].polling
                                    /\ s[1].data # <<>> /\ voice_reqs'[1].data = Tail(s[1].data)
      BY <1>0, <1>1, <1>5, PopFront
    <2>1. CASE k # 1
      <3>1. k \in 1 .. Len(s) /\ voice_reqs'[k] = s[k]
        BY <2>0, <2>1
      <3> QED
        BY <1>2, <2>1, <3>1
    <2> DEFINE r == VoiceReq(PopItem(voice_reqs))
    <2>2. /\ r.id = s[1].id
          /\ PopType(s) = "START" => r.type = "VOICE_START"
          /\ PopType(s) = "DATA" => r.type = "VOICE_DATA" /\ r.data = s[1].data[1]
      BY <1>5, VoiceItem, VoiceItemData DEF Typed
    <2>3. req' = r
      BY <1>5 DEF sendTake
    <2> HIDE DEF r
    <2>4. CASE k = 1 /\ PopType(s) = "START"
      <3>1. Rest(s[1], 0)
        BY <2>0, <2>4 DEF RestInv
      <3>2. Pos' = 0
        BY <1>0, <2>2, <2>3, <2>4 DEF Pos, LastOf
      <3>3. Rest(voice_reqs[1], 0)'
        BY <1>0, <2>0, <2>4, <3>1 DEF Rest, Runs, MayCancel
      <3> QED
        BY <2>0, <2>4, <3>2, <3>3 DEF Rest
    <2>5. CASE k = 1 /\ PopType(s) = "DATA"
      <3> SUFFICES ASSUME Going(voice_reqs[1].id)' PROVE Rest(voice_reqs[1], Pos)'
        BY <2>0, <2>5
      <3>1. Going(s[1].id)
        BY <1>0, <2>0, <2>2, <2>3, <2>5 DEF Going, CurrentId
      <3>2. Rest(s[1], Pos) /\ HasStream(s, s[1].id)
        BY <2>0, <2>5, <3>1 DEF RestInv, HasStream
      <3>3. PICK i : i = s[1].id
        OBVIOUS
      <3>4. PICK p \in Nat : p = Pos
        BY <3>1, <3>2, <3>3, PosIsNat
      <3> DEFINE d == s[1].data
                 e == Tail(d)
                 n == spoken[s[1].id]
      <3>5. s[1].type # "error" /\ Runs(d, p, n)
        BY <2>0, <2>5, <3>2, <3>4 DEF Rest
      <3>6. d \in Seq(Packets) /\ d # <<>>
        <4>1. s[1] \in Voice
          BY <2>0, QueueElement DEF Typed
        <4> QED
          BY <2>0, <2>5, <4>1 DEF Voice, Stream
      <3>7. /\ Len(d) \in Nat \ {0} /\ Len(e) = Len(d) - 1
            /\ \A j \in 1 .. Len(d) - 1 : e[j] = d[j + 1]
        BY <3>6, SeqTail
      <3>8. p + Len(d) = n /\ \A j \in 1 .. Len(d) : d[j] = p + j
        BY <3>5 DEF Runs
      <3> HIDE DEF e
      <3>9. d[1] = p + 1
        <4>1. 1 \in 1 .. Len(d)
          BY <3>7
        <4> QED
          BY <3>8, <4>1
      <3>10. Runs(e, p + 1, n)
        <4>1. (p + 1) + Len(e) = n
          <5>1. PICK l \in Nat : l = Len(e)
            BY <3>7
          <5>2. Len(d) = l + 1 /\ p + Len(d) = n
            BY <3>7, <3>8, <5>1
          <5>3. p + (l + 1) = n
            BY <5>2
          <5>4. (p + 1) + l = n
            BY <5>3
          <5> QED
            BY <5>1, <5>4
        <4>2. ASSUME NEW j \in 1 .. Len(e) PROVE e[j] = (p + 1) + j
          <5>1. j + 1 \in 1 .. Len(d) /\ j \in 1 .. Len(d) - 1
            BY <3>7
          <5>2. d[j + 1] = p + (j + 1)
            BY <3>8, <5>1
          <5> QED
            BY <3>7, <5>1, <5>2
        <4> QED
          BY <4>1, <4>2 DEF Runs
      <3>11. Pos' = p + 1
        BY <1>0, <2>2, <2>3, <2>5, <3>9 DEF Pos, LastOf
      <3>12. voice_reqs'[1].data = e /\ spoken'[voice_reqs'[1].id] = n
        BY <1>0, <2>0, <2>5 DEF e
      <3> QED
        BY <2>0, <3>5, <3>10, <3>11, <3>12 DEF Rest
    <2> QED
      BY <1>5, <2>1, <2>4, <2>5
  <1> QED
    BY <1>1, <1>3, <1>4, <1>5

(* Nothing has been sent at the start. *)
LEMMA InitWire == Init => WInv /\ UplinkOrder
  <1> SUFFICES ASSUME Init PROVE WInv /\ UplinkOrder
    OBVIOUS
  <1>1. /\ voice_reqs = <<>> /\ wire = <<>> /\ reqPc = "dead" /\ respPc = "dead" /\ current = 0
        /\ spoken = [i \in SpeechId |-> 0]
    BY DEF Init, CtlInit
  <1>2. wire \in Seq(Msg) /\ WirePassed /\ RestInv /\ UplinkOrder
    BY <1>1, EmptySeq DEF WirePassed, RestInv, UplinkOrder
  <1> QED
    BY <1>1, <1>2 DEF WInv, HandData, HandEnds, Busy, RxOver, Silence, CurSent, Ready

(* Every step keeps it. *)
LEMMA NextWire ==
  ASSUME Orderly, "lost" \notin Faults, EInv, WInv, [Next]_vars
  PROVE  WInv'
  <1> USE DEF WInv, EInv, KInv
  <1>1. wire' \in Seq(Msg)
    BY WireGrows DEF IInv
  <1>2. HandData' /\ HandEnds' /\ Silence'
    BY HandDataStep, HandEndsStep, SilenceStep DEF IInv
  <1>3. WirePassed' /\ RxOver'
    BY WirePassedStep, RxOverStep
  <1>4. CurSent' /\ Ready'
    BY CurSentStep, FollowStep
  <1>5. RestInv'
    BY RestKept, RestTake
  <1> QED
    BY <1>1, <1>2, <1>3, <1>4, <1>5

(* The server receives one request after the other and of a voice its      *)
(* start, its packets in the order they were put and one end, behind all   *)
(* of them unless the voice is cancelled, as long as no message is lost    *)
(* between connection_.send() and the server (speech_impl.cc:373-379, 397, *)
(* 420-439, 545, 582).                                                     *)
THEOREM UplinkInOrder ==
  ASSUME Orderly, "lost" \notin Faults PROVE Spec => []UplinkOrder
  <1>1. Init => EInv /\ WInv /\ UplinkOrder
    BY InitEnds, InitWire
  <1>2. EInv /\ WInv /\ UplinkOrder /\ [Next]_vars => EInv' /\ WInv' /\ UplinkOrder'
    BY NextEnds, NextWire, UplinkStep DEF EInv, KInv, WInv
  <1> QED
    BY <1>1, <1>2, PTL DEF Spec

-----------------------------------------------------------------------------
(* ResultsComplete: the answer is counted from the server to poll().       *)

(* The server and the link send, the receiving thread receives. *)
LEMMA NetSteps ==
  ASSUME [Next]_vars
  PROVE  \/ UNCHANGED <<inbox, answered>> /\ ~recvPacket
         \/ recvPacket
         \/ \E id \in SpeechId : serverAnswers(id)
         \/ \E k \in {"broken", "badData"} : linkError(k)
  <1> SUFFICES ASSUME ~recvPacket, ~\E id \in SpeechId : serverAnswers(id),
                      ~\E k \in {"broken", "badData"} : linkError(k)
               PROVE  UNCHANGED <<inbox, answered>>
    OBVIOUS
  <1>1. CASE UNCHANGED vars
    BY <1>1 DEF vars
  <1>2. CASE prepare \/ release
    BY <1>2 DEF prepare, release, releaseBegin, releaseClose, releaseJoinReq, releaseJoinResp,
                netVars
  <1>3. CASE cancel
    BY <1>3 DEF cancel, cancelQueued, cancelOne, cancelAll, cancelOps, netVars
  <1>4. CASE \/ start_voice \/ \E c \in Callers : textRead(c) \/ textStore(c) \/ textQueue(c)
             \/ \E id \in SpeechId : put_voice(id) \/ end_voice(id)
    BY <1>4 DEF start_voice, textRead, textStore, textQueue, put_voice, end_voice, netVars
  <1>5. CASE poll
    BY <1>5 DEF poll, pollReleased, pollLook, pollSleep, pollDead, pollItem, netVars
  <1>6. CASE send_reqs
    BY <1>6 DEF send_reqs, sendQuit, sendWait, sendTake, do_ctl_change_op,
           changeStarts, changeContinues, changeCancels, do_request, sendDone, sendFails,
           sendErase, sendRefresh, sendWaitOp, sendAwake, netVars
  <1>7. CASE gen_results
    BY <1>7 DEF gen_results, genTimeout, recvWait, recvTimer,
           recvNothing, genAnswer, genFinish, genStale, genError, genErase, netVars
  <1>8. CASE clock
    BY <1>8 DEF clock, netVars
  <1> QED
    BY <1>1, <1>2, <1>3, <1>4, <1>5, <1>6, <1>7, <1>8 DEF Next

(* The receiving thread has its packet in hand until it has handled it     *)
(* (gen_results, speech_impl.cc:555-620).                                  *)
LEMMA HandleSteps ==
  ASSUME FreshInv, [Next]_vars, ~recvPacket
  PROVE  /\ respPc' = "handle" => (respPc = "handle" /\ rx' = rx) \/ rx'.kind # "data"
         /\ respPc = "handle" => \/ respPc' = "handle" /\ rx' = rx
                                 \/ genAnswer \/ genStale \/ genError
  <1> DEFINE Goal == /\ respPc' = "handle" => (respPc = "handle" /\ rx' = rx) \/ rx'.kind # "data"
                     /\ respPc = "handle" => \/ respPc' = "handle" /\ rx' = rx
                                             \/ genAnswer \/ genStale \/ genError
  <1> SUFFICES Goal
    OBVIOUS
  <1>0. CASE UNCHANGED <<respPc, rx>>
    BY <1>0
  <1>1. CASE UNCHANGED vars
    BY <1>0, <1>1 DEF vars
  <1>2. CASE prepare \/ release
    <2>1. CASE prepare
      <3>1. respPc = "dead" /\ respPc' = "timeout"
        BY <2>1 DEF prepare, FreshInv, Init
      <3> QED
        BY <3>1
    <2>2. CASE releaseClose
      BY <2>2 DEF releaseClose, WakeRecv
    <2> QED
      BY <1>0, <1>2, <2>1, <2>2 DEF release, releaseBegin, releaseJoinReq, releaseJoinResp, genVars
  <1>3. CASE cancel
    BY <1>0, <1>3 DEF cancel, cancelQueued, cancelOne, cancelAll, cancelOps, genVars
  <1>4. CASE \/ start_voice \/ \E c \in Callers : textRead(c) \/ textStore(c) \/ textQueue(c)
             \/ \E id \in SpeechId : put_voice(id) \/ end_voice(id)
    BY <1>0, <1>4 DEF start_voice, textRead, textStore, textQueue, put_voice, end_voice, genVars
  <1>5. CASE poll
    BY <1>0, <1>5 DEF poll, pollReleased, pollLook, pollSleep, pollDead, pollItem, genVars
  <1>6. CASE send_reqs
    BY <1>0, <1>6 DEF send_reqs, sendQuit, sendWait, sendTake, do_ctl_change_op,
           changeStarts, changeContinues, changeCancels, do_request, sendDone, sendFails,
           sendErase, sendRefresh, sendWaitOp, sendAwake, genVars
  <1>7. CASE gen_results
    <2>1. CASE recvNothing
      <3>1. respPc = "awake" /\ (respPc' = "handle" => rx' = [NoResponse EXCEPT !.kind = "timeout"])
        BY <2>1 DEF recvNothing
      <3>2. [NoResponse EXCEPT !.kind = "timeout"].kind = "timeout"
        BY DEF NoResponse, Response
      <3> QED
        BY <3>1, <3>2
    <2>2. CASE genTimeout \/ recvWait \/ recvTimer \/ genFinish \/ genErase
      BY <2>2 DEF genTimeout, recvWait, recvTimer, genFinish, genErase, NextResp
    <2>3. CASE genAnswer \/ genStale \/ genError
      BY <2>3 DEF genAnswer, genStale, genError, NextResp
    <2> QED
      BY <1>7, <2>1, <2>2, <2>3 DEF gen_results
  <1>8. CASE \/ \E id \in SpeechId : serverAnswers(id)
             \/ \E k \in {"broken", "badData"} : linkError(k)
    BY <1>8 DEF serverAnswers, linkError, Deliver, WakeRecv
  <1>9. CASE clock
    BY <1>0, <1>9 DEF clock, genVars
  <1> QED
    BY <1>1, <1>2, <1>3, <1>4, <1>5, <1>6, <1>7, <1>8, <1>9 DEF Next

(* The packet that a step adds to the list. *)
Sends(p) ==
  /\ p \in Packet /\ inbox' = Append(inbox, p) /\ answered' \in AnswerSet
  /\ \A i \in SpeechId :
       IF For(i, p)
       THEN /\ Has(i, Starts) /\ ~answered[i].done
            /\ answered'[i].parts = answered[i].parts \o Parts(p)
            /\ Last(p) => answered'[i].done
       ELSE answered'[i] = answered[i]
  /\ rx' = rx

(* The server adds its parts to those it has answered, and no packet       *)
(* behind the last one.                                                    *)
LEMMA ServerSends ==
  ASSUME AnswerType, NEW id \in SpeechId, serverAnswers(id)
  PROVE  \E p \in Packet : Sends(p)
  <1>1. PICK type \in RespType, extra \in BOOLEAN :
          LET r == Response("data", id, type, extra)
              parts == answered[id].parts \o Parts(r) IN
          /\ type \in {"FAIL", "OTHER"} => type \in Faults
          /\ Deliver(r)
          /\ answered' = [answered EXCEPT ![id] = [parts |-> parts, done |-> Last(r)]]
    BY DEF serverAnswers
  <1> DEFINE r == Response("data", id, type, extra)
             parts == answered[id].parts \o Parts(r)
             a == [parts |-> parts, done |-> Last(r)]
  <1>2. r \in Packet /\ r.kind = "data" /\ r.id = id
    BY <1>1, IdsAreNat DEF Response, Packet
  <1>3. inbox' = Append(inbox, r) /\ rx' = rx /\ Has(id, Starts) /\ ~answered[id].done
    BY <1>1 DEF serverAnswers, Deliver, Starts
  <1>4. answered' = [answered EXCEPT ![id] = a]
    BY <1>1
  <1>5. parts \in Seq(Part) /\ Last(r) \in BOOLEAN
    <2>1. answered[id].parts \in Seq(Part) /\ Parts(r) \in Seq(Part)
      BY PartsType DEF AnswerType, AnswerSet
    <2> HIDE DEF r
    <2>2. parts \in Seq(Part)
      BY <2>1, SeqJoin
    <2> QED
      BY <2>2 DEF Last
  <1> HIDE DEF parts, r
  <1>6. a \in [parts : Seq(Part), done : BOOLEAN] /\ a.parts = parts /\ a.done = Last(r)
    BY <1>5
  <1> HIDE DEF a
  <1>7. /\ answered' \in AnswerSet
        /\ answered'[id] = a
        /\ \A i \in SpeechId : i # id => answered'[i] = answered[i]
    BY <1>4, <1>6 DEF AnswerType, AnswerSet
  <1>8. ASSUME NEW i \in SpeechId
        PROVE  IF For(i, r)
               THEN /\ Has(i, Starts) /\ ~answered[i].done
                    /\ answered'[i].parts = answered[i].parts \o Parts(r)
                    /\ Last(r) => answered'[i].done
               ELSE answered'[i] = answered[i]
    BY <1>2, <1>3, <1>6, <1>7 DEF For, parts
  <1>9. Sends(r)
    BY <1>2, <1>3, <1>7, <1>8 DEF Sends
  <1> QED
    BY <1>2, <1>9

(* An error of the link is no answer. *)
LEMMA LinkSends ==
  ASSUME AnswerType, NEW k \in {"broken", "badData"}, linkError(k)
  PROVE  \E p \in Packet : Sends(p) /\ p.kind # "data"
  <1> DEFINE p == [NoResponse EXCEPT !.kind = k]
  <1>1. p \in Packet /\ p.kind # "data"
    BY DEF Packet, NoResponse, Response, RespType
  <1>2. inbox' = Append(inbox, p) /\ rx' = rx /\ answered' = answered
    BY DEF linkError, Deliver
  <1> HIDE DEF p
  <1>3. \A i : ~For(i, p)
    BY <1>1 DEF For
  <1>4. Sends(p)
    BY <1>1, <1>2, <1>3 DEF Sends, AnswerType
  <1> QED
    BY <1>1, <1>4

(* The list of packets, and what is in hand, as they are needed below. *)
LEMMA InboxLength ==
  ASSUME NetInv
  PROVE  Len(inbox) \in Nat
  BY SeqElement DEF NetInv

(* The packet in hand stays there, until it is handled. *)
LEMMA TallySame ==
  ASSUME NEW i \in SpeechId, NEW g \in Seq(Part), Tally(i, g), UNCHANGED <<inbox, answered>>,
         Handles(i)' <=> Handles(i), Handles(i) => rx' = rx
  PROVE  Tally(i, g)'
  <1>1. PICK f \in [1 .. Len(inbox) + 1 -> Seq(Part)] : Counts(f, i, g)
    BY DEF Tally
  <1>2. Counts(f, i, g)'
    BY <1>1 DEF Counts, For, Given
  <1> QED
    BY <1>1, <1>2 DEF Tally

(* The receiving thread takes the next packet in hand. *)
LEMMA TallyTake ==
  ASSUME NetInv, NEW i \in SpeechId, NEW g \in Seq(Part), Tally(i, g), ~Handles(i), recvPacket
  PROVE  Tally(i, g)'
  <1>1. PICK f \in [1 .. Len(inbox) + 1 -> Seq(Part)] : Counts(f, i, g)
    BY DEF Tally
  <1>2. /\ inbox # <<>> /\ rx' = inbox[1] /\ inbox' = Tail(inbox) /\ respPc' = "handle"
        /\ answered' = answered
    BY DEF recvPacket
  <1>3. /\ Len(inbox) \in Nat \ {0} /\ Len(inbox') = Len(inbox) - 1
        /\ \A j \in 1 .. Len(inbox) - 1 : inbox'[j] = inbox[j + 1]
    BY <1>2, SeqTail DEF NetInv
  <1>4. PICK n \in Nat : Len(inbox) = n + 1
    BY <1>3
  <1>5. PICK h \in [1 .. n + 1 -> Seq(Part)] : \A j \in 1 .. n + 1 : h[j] = f[j + 1]
    <2> DEFINE h == [j \in 1 .. n + 1 |-> f[j + 1]]
    <2>1. h \in [1 .. n + 1 -> Seq(Part)] /\ \A j \in 1 .. n + 1 : h[j] = f[j + 1]
      BY <1>4
    <2> QED
      BY <2>1
  <1>6. f[1] = g /\ f[2] = Given(f[1], i, inbox[1])
    <2>1. 1 \in 1 .. Len(inbox) /\ 1 + 1 = 2
      BY <1>4
    <2> QED
      BY <1>1, <2>1 DEF Counts
  <1>7. Handles(i)' <=> For(i, inbox[1])
    BY <1>2 DEF Handles, For
  <1>8. 1 \in 1 .. n + 1 /\ h[1] = f[2] /\ 1 \in 1 .. Len(inbox)
    BY <1>4, <1>5
  <1>9. h[1] = IF Handles(i)' THEN g \o Parts(rx') ELSE g
    BY <1>2, <1>6, <1>7, <1>8 DEF Given
  <1>10. Handles(i)' /\ Last(rx') => answered'[i].done /\ h[1] = answered'[i].parts
    <2>1. For(i, inbox[1]) /\ Last(inbox[1]) => answered[i].done /\ f[1 + 1] = answered[i].parts
      BY <1>1, <1>8 DEF Counts
    <2>2. 1 + 1 = 2
      OBVIOUS
    <2> QED
      BY <1>2, <1>7, <1>8, <2>1, <2>2
  <1>11. ASSUME NEW j \in 1 .. Len(inbox')
         PROVE  /\ h[j + 1] = Given(h[j], i, inbox'[j])
                /\ For(i, inbox'[j]) /\ Last(inbox'[j]) =>
                     answered'[i].done /\ h[j + 1] = answered'[i].parts
    <2>1. j \in 1 .. n /\ j + 1 \in 1 .. Len(inbox) /\ inbox'[j] = inbox[j + 1]
      BY <1>3, <1>4
    <2>2. h[j] = f[j + 1] /\ h[j + 1] = f[(j + 1) + 1]
      BY <1>4, <1>5, <2>1
    <2>3. /\ f[(j + 1) + 1] = Given(f[j + 1], i, inbox[j + 1])
          /\ For(i, inbox[j + 1]) /\ Last(inbox[j + 1]) =>
               answered[i].done /\ f[(j + 1) + 1] = answered[i].parts
      BY <1>1, <2>1 DEF Counts
    <2> QED
      BY <1>2, <2>1, <2>2, <2>3
  <1>12. h[Len(inbox') + 1] = answered'[i].parts
    <2>1. Len(inbox') = n /\ n + 1 \in 1 .. n + 1
      BY <1>3, <1>4
    <2>2. h[n + 1] = f[(n + 1) + 1] /\ f[(n + 1) + 1] = answered[i].parts
      BY <1>1, <1>4, <1>5, <2>1 DEF Counts
    <2> QED
      BY <1>2, <2>1, <2>2
  <1>13. Counts(h, i, g)'
    BY <1>9, <1>10, <1>11, <1>12 DEF Counts, For, Given
  <1>14. h \in [1 .. Len(inbox') + 1 -> Seq(Part)]
    BY <1>3, <1>4, <1>5
  <1> QED
    BY <1>13, <1>14 DEF Tally

(* A packet is added to the list, and its parts to what is answered. *)
LEMMA TallyGrows ==
  ASSUME NetInv, NEW i \in SpeechId, NEW g \in Seq(Part), Tally(i, g), NEW p \in Packet, Sends(p),
         Handles(i)' <=> Handles(i)
  PROVE  Tally(i, g)'
  <1>1. PICK f \in [1 .. Len(inbox) + 1 -> Seq(Part)] : Counts(f, i, g)
    BY DEF Tally
  <1>2. PICK n \in Nat : n = Len(inbox)
    BY InboxLength
  <1>3. /\ Len(inbox') = n + 1 /\ inbox'[n + 1] = p
        /\ \A j \in 1 .. n : inbox'[j] = inbox[j]
    BY <1>2, SeqAppend DEF NetInv, Sends
  <1>4. f[n + 1] \in Seq(Part) /\ f[n + 1] = answered[i].parts
    BY <1>1, <1>2 DEF Counts
  <1>5. PICK x \in Seq(Part) : x = Given(f[n + 1], i, p)
    BY <1>4, PartsType, SeqJoin DEF Given
  <1>6. x = answered'[i].parts
    BY <1>4, <1>5 DEF Sends, Given
  <1>7. ~For(i, p) => answered'[i] = answered[i]
    BY DEF Sends
  <1>8. For(i, p) => ~answered[i].done /\ (Last(p) => answered'[i].done)
    BY DEF Sends
  <1>9. PICK h \in [1 .. n + 2 -> Seq(Part)] : h[n + 2] = x /\ \A j \in 1 .. n + 1 : h[j] = f[j]
    <2> DEFINE h == [j \in 1 .. n + 2 |-> IF j = n + 2 THEN x ELSE f[j]]
    <2>1. /\ h \in [1 .. n + 2 -> Seq(Part)] /\ h[n + 2] = x
          /\ \A j \in 1 .. n + 1 : h[j] = f[j]
      BY <1>2, <1>5
    <2> QED
      BY <2>1
  <1>10. h[1] = IF Handles(i)' THEN g \o Parts(rx') ELSE g
    <2>1. h[1] = f[1] /\ rx' = rx
      BY <1>9 DEF Sends
    <2> QED
      BY <1>1, <2>1 DEF Counts
  <1>11. ASSUME answered[i].done, NEW y, y = answered[i].parts
         PROVE  answered'[i].done /\ y = answered'[i].parts
    BY <1>7, <1>8, <1>11
  <1>12. Handles(i)' /\ Last(rx') => answered'[i].done /\ h[1] = answered'[i].parts
    <2>1. Handles(i)' /\ Last(rx') => answered[i].done /\ f[1] = answered[i].parts
      BY <1>1 DEF Counts, Sends
    <2> QED
      BY <1>9, <1>11, <2>1
  <1>13. ASSUME NEW j \in 1 .. Len(inbox')
         PROVE  /\ h[j + 1] = Given(h[j], i, inbox'[j])
                /\ For(i, inbox'[j]) /\ Last(inbox'[j]) =>
                     answered'[i].done /\ h[j + 1] = answered'[i].parts
    <2>1. CASE j = n + 1
      <3>1. h[j] = f[n + 1] /\ h[j + 1] = x /\ inbox'[j] = p
        <4>1. j + 1 = n + 2 /\ n + 1 \in 1 .. n + 1
          BY <1>2, <2>1
        <4> QED
          BY <1>3, <1>9, <2>1, <4>1
      <3> QED
        BY <1>5, <1>6, <1>8, <3>1
    <2>2. CASE j # n + 1
      <3>1. j \in 1 .. n /\ j + 1 \in 1 .. n + 1 /\ j \in 1 .. n + 1
        BY <1>3, <2>2
      <3>2. h[j] = f[j] /\ h[j + 1] = f[j + 1] /\ inbox'[j] = inbox[j]
        BY <1>3, <1>9, <3>1
      <3>3. /\ f[j + 1] = Given(f[j], i, inbox[j])
            /\ For(i, inbox[j]) /\ Last(inbox[j]) =>
                 answered[i].done /\ f[j + 1] = answered[i].parts
        BY <1>1, <1>2, <3>1 DEF Counts
      <3> QED
        BY <1>11, <3>2, <3>3
    <2> QED
      BY <2>1, <2>2
  <1>14. h[Len(inbox') + 1] = answered'[i].parts
    <2>1. Len(inbox') + 1 = n + 2
      BY <1>3
    <2> QED
      BY <1>6, <1>9, <2>1
  <1>15. Counts(h, i, g)'
    BY <1>10, <1>12, <1>13, <1>14 DEF Counts, For, Given
  <1>16. h \in [1 .. Len(inbox') + 1 -> Seq(Part)]
    <2>1. Len(inbox') + 1 = n + 2
      BY <1>3
    <2> QED
      BY <1>9, <2>1
  <1> QED
    BY <1>15, <1>16 DEF Tally

(* The packet in hand is turned into results (gen_result_by_resp,          *)
(* speech_impl.cc:620-690).                                                *)
LEMMA TallyAnswer ==
  ASSUME NetInv, NEW i \in SpeechId, NEW g \in Seq(Part), Tally(i, g), Handles(i), genAnswer
  PROVE  \E y \in Seq(Part) :
           /\ y = g \o Parts(rx) /\ Tally(i, y)'
           /\ Last(rx) => answered[i].done /\ y = answered[i].parts
  <1>1. PICK f \in [1 .. Len(inbox) + 1 -> Seq(Part)] : Counts(f, i, g)
    BY DEF Tally
  <1>2. PICK y \in Seq(Part) : y = g \o Parts(rx)
    BY PartsType, SeqJoin
  <1>3. respPc' # "handle" /\ inbox' = inbox /\ answered' = answered
    BY DEF genAnswer, NextResp, netVars
  <1>4. Counts(f, i, y)'
    BY <1>1, <1>2, <1>3 DEF Counts, For, Given, Handles
  <1>5. Tally(i, y)'
    BY <1>1, <1>3, <1>4 DEF Tally
  <1>6. Last(rx) => answered[i].done /\ y = answered[i].parts
    BY <1>1, <1>2 DEF Counts
  <1> QED
    BY <1>2, <1>5, <1>6

(* The server answers nothing twice, and what it has finished stays so. *)
LEMMA AnswerStep ==
  ASSUME AnswerType, [Next]_vars
  PROVE  /\ AnswerType'
         /\ \A i \in SpeechId : answered[i].done => answered'[i] = answered[i]
  <1>1. CASE answered' = answered
    BY <1>1 DEF AnswerType
  <1>2. ASSUME NEW p \in Packet, Sends(p)
        PROVE  AnswerType' /\ \A i \in SpeechId : answered[i].done => answered'[i] = answered[i]
    BY <1>2 DEF Sends, AnswerType, AnswerSet
  <1>3. CASE recvPacket
    BY <1>1, <1>3 DEF recvPacket
  <1> QED
    BY <1>1, <1>2, <1>3, NetSteps, ServerSends, LinkSends

(* The parts of an answer are counted as long as its packet is in hand. *)
LEMMA TallyKept ==
  ASSUME NetInv, AnswerType, FreshInv, NEW i \in SpeechId, NEW g \in Seq(Part), Tally(i, g),
         [Next]_vars, Handles(i) => ~genAnswer /\ ~genStale
  PROVE  Tally(i, g)'
  <1>1. ASSUME ~recvPacket
        PROVE  (Handles(i)' <=> Handles(i)) /\ (Handles(i) => rx' = rx)
    <2>1. /\ respPc' = "handle" => (respPc = "handle" /\ rx' = rx) \/ rx'.kind # "data"
          /\ respPc = "handle" => \/ respPc' = "handle" /\ rx' = rx
                                  \/ genAnswer \/ genStale \/ genError
      BY <1>1, HandleSteps
    <2>2. genError => ~Handles(i)
      BY DEF genError, Handles, For
    <2> QED
      BY <2>1, <2>2 DEF Handles, For
  <1>2. CASE recvPacket
    <2>1. ~Handles(i)
      BY <1>2 DEF recvPacket, Handles
    <2> QED
      BY <1>2, <2>1, TallyTake
  <1>3. CASE ~recvPacket
    <2>1. CASE UNCHANGED <<inbox, answered>>
      BY <1>1, <1>3, <2>1, TallySame
    <2>2. ASSUME NEW p \in Packet, Sends(p) PROVE Tally(i, g)'
      BY <1>1, <1>3, <2>2, TallyGrows
    <2> QED
      BY <1>3, <2>1, <2>2, NetSteps, ServerSends, LinkSends
  <1> QED
    BY <1>2, <1>3

(* Nothing is counted of an answer that has not begun. *)
LEMMA SilentTally ==
  ASSUME NetInv, NEW i \in SpeechId, Silent(i)
  PROVE  <<>> \in Seq(Part) /\ Tally(i, <<>>)
  <1>1. PICK n \in Nat : n = Len(inbox)
    BY InboxLength
  <1>2. PICK f \in [1 .. n + 1 -> Seq(Part)] : \A j \in 1 .. n + 1 : f[j] = <<>>
    <2> DEFINE f == [j \in 1 .. n + 1 |-> <<>>]
    <2>1. f \in [1 .. n + 1 -> Seq(Part)] /\ \A j \in 1 .. n + 1 : f[j] = <<>>
      BY EmptySeq
    <2> QED
      BY <2>1
  <1>3. \A j \in 1 .. n : j \in 1 .. n + 1 /\ j + 1 \in 1 .. n + 1
    OBVIOUS
  <1>4. 1 \in 1 .. n + 1 /\ n + 1 \in 1 .. n + 1
    OBVIOUS
  <1>5. Counts(f, i, <<>>)
    BY <1>1, <1>2, <1>3, <1>4 DEF Counts, Silent, Given
  <1> QED
    BY <1>1, <1>5, EmptySeq DEF Tally

(* The server answers what it has received, and that is behind all that is *)
(* to come.                                                                *)
LEMMA QuietStep ==
  ASSUME Orderly, IInv, WirePassed, NetInv, AnswerType, QuietInv, [Next]_vars
  PROVE  QuietInv'
  <1> USE DEF IInv
  <1> SUFFICES ASSUME NEW i \in SpeechId, ~Behind(i)' PROVE Silent(i)'
    BY DEF QuietInv
  <1>1. ~Behind(i) /\ Silent(i)
    <2>1. i \in Nat
      BY IdsAreNat
    <2>2. Behind(i) => Behind(i)'
      BY <2>1, BehindStep
    <2> QED
      BY <2>2 DEF QuietInv
  <1>2. ~Has(i, Starts)
    BY <1>1 DEF Has, WirePassed
  <1>3. CASE recvPacket
    <2>1. /\ inbox # <<>> /\ rx' = inbox[1] /\ inbox' = Tail(inbox) /\ answered' = answered
      BY <1>3 DEF recvPacket
    <2>2. /\ Len(inbox) \in Nat \ {0} /\ Len(inbox') = Len(inbox) - 1
          /\ \A j \in 1 .. Len(inbox) - 1 : inbox'[j] = inbox[j + 1]
      BY <2>1, SeqTail DEF NetInv
    <2>3. 1 \in 1 .. Len(inbox) /\ \A j \in 1 .. Len(inbox') : j + 1 \in 1 .. Len(inbox)
      BY <2>2
    <2>4. ~For(i, rx')
      BY <1>1, <2>1, <2>3 DEF Silent
    <2>5. ASSUME NEW j \in 1 .. Len(inbox') PROVE ~For(i, inbox'[j])
      <3>1. inbox'[j] = inbox[j + 1] /\ j + 1 \in 1 .. Len(inbox)
        BY <2>2, <2>3
      <3> QED
        BY <1>1, <3>1 DEF Silent
    <2> QED
      BY <1>1, <2>1, <2>4, <2>5 DEF Silent, Handles, For
  <1>4. CASE ~recvPacket
    <2>1. ~Handles(i)'
      <3>1. respPc' = "handle" => (respPc = "handle" /\ rx' = rx) \/ rx'.kind # "data"
        BY <1>4, HandleSteps
      <3> QED
        BY <1>1, <3>1 DEF Silent, Handles, For
    <2>2. CASE UNCHANGED <<inbox, answered>>
      BY <1>1, <2>1, <2>2 DEF Silent, For
    <2>3. ASSUME NEW p \in Packet, Sends(p) PROVE Silent(i)'
      <3>1. ~For(i, p) /\ answered'[i] = answered[i] /\ inbox' = Append(inbox, p)
        BY <1>2, <2>3 DEF Sends
      <3>2. PICK n \in Nat : n = Len(inbox)
        BY InboxLength
      <3>3. Len(inbox') = n + 1 /\ inbox'[n + 1] = p /\ \A j \in 1 .. n : inbox'[j] = inbox[j]
        BY <3>1, <3>2, SeqAppend DEF NetInv
      <3>4. ASSUME NEW j \in 1 .. Len(inbox') PROVE ~For(i, inbox'[j])
        <4>1. j = n + 1 \/ j \in 1 .. n
          BY <3>3
        <4> QED
          BY <1>1, <3>1, <3>2, <3>3, <4>1 DEF Silent
      <3> QED
        BY <1>1, <2>1, <3>1, <3>4 DEF Silent, For
    <2> QED
      BY <1>4, <2>2, <2>3, NetSteps, ServerSends, LinkSends
  <1> QED
    BY <1>3, <1>4

(* A step that neither returns a result of request i nor handles its       *)
(* packet.                                                                 *)
LEMMA CountedKept ==
  ASSUME NetInv, AnswerType, FreshInv, NEW i \in SpeechId, NEW status, Counted(i, status),
         [Next]_vars, heard'[i] = heard[i],
         \A m \in 1 .. Len(responses') :
           responses'[m].id = i => \E n \in 1 .. Len(responses) : responses'[m] = responses[n],
         status \in {"START", "STREAMING"} /\ Handles(i) => ~genAnswer /\ ~genStale
  PROVE  Counted(i, status)'
  <1>1. ASSUME status = "START" PROVE heard'[i] = <<>> /\ Tally(i, <<>>)'
    <2>1. heard[i] = <<>> /\ Tally(i, <<>>) /\ <<>> \in Seq(Part)
      BY <1>1, EmptySeq DEF Counted
    <2> QED
      BY <1>1, <2>1, TallyKept
  <1>2. ASSUME status = "STREAMING"
        PROVE  \E g \in Seq(Part) :
                 /\ Tally(i, g)'
                 /\ \A m \in 1 .. Len(responses') :
                      responses'[m].id = i => Shown(i, responses[m], g)'
    <2>1. PICK g \in Seq(Part) :
            /\ Tally(i, g)
            /\ \A m \in 1 .. Len(responses) : responses[m].id = i => Shown(i, responses[m], g)
      BY <1>2 DEF Counted
    <2>2. Tally(i, g)'
      BY <1>2, <2>1, TallyKept
    <2>3. ASSUME NEW m \in 1 .. Len(responses'), responses'[m].id = i
          PROVE  Shown(i, responses[m], g)'
      <3>1. PICK n \in 1 .. Len(responses) : responses'[m] = responses[n]
        BY <2>3
      <3>2. Shown(i, responses[n], g)
        BY <2>1, <2>3, <3>1
      <3> QED
        BY <3>1, <3>2 DEF Shown
    <2> QED
      BY <2>2, <2>3
  <1>3. ASSUME status = "END", NEW m \in 1 .. Len(responses'), responses'[m].id = i,
               responses'[m].type = "completed"
        PROVE  answered'[i].done /\ Shown(i, responses[m], answered[i].parts)'
    <2>1. PICK n \in 1 .. Len(responses) : responses'[m] = responses[n]
      BY <1>3
    <2>2. answered[i].done /\ Shown(i, responses[n], answered[i].parts)
      BY <1>3, <2>1 DEF Counted
    <2>3. answered'[i] = answered[i]
      BY <2>2, AnswerStep
    <2> QED
      BY <2>1, <2>2, <2>3 DEF Shown
  <1> QED
    BY <1>1, <1>2, <1>3 DEF Counted

(* An answer is expected by the current operation only. *)
LEMMA AnswersIt ==
  ASSUME IInv, NEW k \in 1 .. Len(operations), operations[k].status \in {"START", "STREAMING"},
         Handles(operations[k].id)
  PROVE  ~genStale
  <1>1. k = current /\ current # 0
    BY OperationElement DEF IInv, OneInFlight
  <1>2. Answers
    BY <1>1 DEF Handles, For, Answers, IsCurrent, Dead
  <1> QED
    BY <1>2 DEF genStale

(* A new operation has no answer yet. *)
LEMMA NewCounted ==
  ASSUME IInv, HeardInv, WirePassed, NetInv, AnswerType, QuietInv, [Next]_vars, heard' = heard,
         reqPc = "change", req.type \in Starts, NEW i \in SpeechId, i = req.id
  PROVE  Counted(i, "START")'
  <1>2. i \in Nat /\ ~(i < i)
    BY IdsAreNat
  <1>3. ~Behind(i)
    BY <1>2 DEF Behind
  <1>4. heard[i] = <<>> /\ Silent(i)
    BY <1>3 DEF HeardInv, QuietInv
  <1>5. Tally(i, <<>>) /\ <<>> \in Seq(Part) /\ ~Handles(i)
    BY <1>4, SilentTally DEF Silent
  <1>6. Tally(i, <<>>)'
    BY <1>5, TallyKept DEF IInv
  <1>7. Counted(i, "START")'
    BY <1>4, <1>6 DEF Counted
  <1> QED
    BY <1>7

(* Every other step than those of poll() and an answer. *)
LEMMA OthersCounted ==
  ASSUME IInv, initialized, HeardInv, WirePassed, NetInv, AnswerType, QuietInv, CountInv,
         [Next]_vars, responses' = responses, heard' = heard, ~genAnswer, Dies \/ Adds
  PROVE  CountInv'
  <1> SUFFICES ASSUME NEW k \in 1 .. Len(operations')
               PROVE  Counted(operations[k].id, operations[k].status)'
    BY DEF CountInv
  <1>1. PICK i, status : i = operations'[k].id /\ status = operations'[k].status
    OBVIOUS
  <1>2. SUFFICES Counted(i, status)'
    BY <1>1
  <1>3. CASE k \in 1 .. Len(operations) /\ i = operations[k].id /\ status = operations[k].status
    <2>1. i \in SpeechId /\ Counted(i, status)
      BY <1>3, OperationElement DEF CountInv, IInv
    <2>2. \A m \in 1 .. Len(responses') :
            responses'[m].id = i => \E n \in 1 .. Len(responses) : responses'[m] = responses[n]
      OBVIOUS
    <2>3. status \in {"START", "STREAMING"} /\ Handles(i) => ~genStale
      BY <1>3, AnswersIt
    <2> QED
      BY <2>1, <2>2, <2>3, CountedKept DEF IInv
  <1>4. CASE status \in {"CANCELLED", "ERROR"}
    BY <1>4 DEF Counted
  <1>5. CASE Dies
    <2>1. /\ k \in 1 .. Len(operations) /\ i = operations[k].id
          /\ status \in {operations[k].status, "CANCELLED", "ERROR"}
      BY <1>1, <1>5 DEF Dies, SameOpIds
    <2> QED
      BY <1>3, <1>4, <2>1
  <1>6. CASE Adds
    <2> DEFINE n == Len(operations) + 1
    <2>1. /\ Len(operations') = n /\ Len(operations) \in Nat
          /\ \A j \in 1 .. Len(operations) : operations'[j] = operations[j]
          /\ operations'[n].id = req.id
          /\ \/ operations'[n].status = "START" /\ req.type \in Starts
             \/ operations'[n].status = "CANCELLED"
          /\ reqPc = "change"
      BY <1>6, AddKeeps, OperationElement DEF Adds, IInv
    <2>2. CASE k = n
      <3>1. CASE status = "START"
        <4>1. i = req.id /\ req.type \in Starts
          BY <1>1, <2>1, <2>2, <3>1
        <4>2. i \in SpeechId
          BY <2>1, <4>1 DEF IInv, Typed, HandType
        <4>3. Counted(i, "START")'
          BY <2>1, <4>1, <4>2, NewCounted
        <4> QED
          BY <3>1, <4>3
      <3> QED
        BY <1>1, <1>4, <2>1, <2>2, <3>1
    <2>3. CASE k # n
      <3>1. k \in 1 .. Len(operations) /\ operations'[k] = operations[k]
        BY <2>1, <2>3
      <3> QED
        BY <1>1, <1>3, <3>1
    <2> QED
      BY <2>2, <2>3
  <1> QED
    BY <1>5, <1>6

(* An operation behind the front one is cancelled, or of another request. *)
LEMMA FrontAlone ==
  ASSUME IInv, NEW k \in 1 .. Len(operations), k # 1, operations[k].status # "CANCELLED"
  PROVE  operations[k].id # operations[1].id
  <1>1. 1 \in 1 .. k - 1
    BY OperationElement DEF IInv
  <1> QED
    BY <1>1 DEF IInv, OpOrder

(* poll() leaves the streams of the other requests alone. *)
LEMMA RestStays ==
  ASSUME IInv, pollDead \/ pollItem
  PROVE  \A m \in 1 .. Len(responses') :
           responses'[m].id # operations[1].id =>
             \E n \in 1 .. Len(responses) : responses'[m] = responses[n]
  <1> USE DEF IInv
  <1>1. PICK i : i = operations[1].id
    OBVIOUS
  <1> SUFFICES ASSUME NEW m \in 1 .. Len(responses'), responses'[m].id # i
               PROVE  \E n \in 1 .. Len(responses) : responses'[m] = responses[n]
    BY <1>1
  <1>2. responses \in Seq(Result) /\ initialized /\ operations # <<>>
    BY DEF Typed, QueueType, pollDead, pollItem
  <1>3. CASE pollDead
    <2>1. PICK e : e = Erase(responses, i, 0)
      OBVIOUS
    <2>2. /\ responses' = IF HasStream(responses, i) THEN PopRest(e) ELSE responses
          /\ e \in Seq(Result) /\ SameIds(responses, e)
          /\ \A n \in 1 .. Len(responses) : responses[n].id # i => e[n] = responses[n]
      <3>1. responses' = IF HasStream(responses, i) THEN PopRest(e) ELSE responses
        BY <1>1, <1>3, <2>1 DEF pollDead, DeadRest
      <3>2. /\ e \in Seq(Result) /\ SameIds(responses, e)
            /\ \A n \in 1 .. Len(responses) : responses[n].id # i => e[n] = responses[n]
        BY <1>2, <2>1, EraseKeeps DEF Result
      <3> QED
        BY <3>1, <3>2
    <2>3. CASE HasStream(responses, i)
      <3>1. responses # <<>> /\ responses[1].id = i
        BY <1>1, <1>2, <2>3, FrontStream
      <3>2. 1 \in 1 .. Len(responses) /\ Len(e) = Len(responses) /\ e # <<>>
        BY <1>2, <2>2, <3>1, SeqTail, EmptySeq DEF SameIds
      <3>3. e[1].type = "deleted"
        BY <1>2, <2>1, <3>1, <3>2, EraseLeaves DEF Result
      <3>4. responses' = Tail(e)
        <4>1. PopType(e) = "REMOVED"
          BY <3>2, <3>3 DEF PopType, FrontType
        <4> QED
          BY <2>2, <2>3, <4>1 DEF PopRest
      <3>5. m + 1 \in 1 .. Len(responses) /\ responses'[m] = e[m + 1]
        BY <2>2, <3>2, <3>4, SeqTail
      <3>6. e[m + 1].id = responses[m + 1].id
        BY <2>2, <3>5 DEF SameIds
      <3> QED
        BY <2>2, <3>5, <3>6
    <2> QED
      BY <2>2, <2>3
  <1>4. CASE pollItem
    <2>1. responses' = PopRest(responses) /\ PopType(responses) # "EMPTY" /\ responses # <<>>
      BY <1>4 DEF pollItem, PopType
    <2>2. responses[1].id = i
      BY <1>1, <1>2, <1>4, FrontItem DEF pollItem
    <2>3. CASE PopType(responses) \in {"START", "DATA"}
      <3>1. /\ Len(responses') = Len(responses) /\ responses'[1].id = i
            /\ \A n \in 1 .. Len(responses) : n # 1 => responses'[n] = responses[n]
        BY <1>2, <2>1, <2>2, <2>3, PopFront DEF Result
      <3> QED
        BY <3>1
    <2>4. CASE PopType(responses) \notin {"START", "DATA"}
      <3>1. responses' = Tail(responses)
        BY <1>2, <2>1, <2>4, PopRestKeeps DEF Result
      <3>2. m + 1 \in 1 .. Len(responses) /\ responses'[m] = responses[m + 1]
        BY <1>2, <2>1, <3>1, SeqTail
      <3> QED
        BY <3>2
    <2> QED
      BY <2>3, <2>4
  <1> QED
    BY <1>3, <1>4

(* poll() returns a result: what is counted for the other requests stays. *)
LEMMA RestCounted ==
  ASSUME IInv, HeardType, NetInv, AnswerType, [Next]_vars, pollDead \/ pollItem,
         NEW k \in 1 .. Len(operations), k # 1,
         Counted(operations[k].id, operations[k].status)
  PROVE  \A i, status : i = operations[k].id /\ status = operations[k].status => Counted(i, status)'
  <1> SUFFICES ASSUME NEW i, NEW status, i = operations[k].id, status = operations[k].status
               PROVE  Counted(i, status)'
    OBVIOUS
  <1>1. CASE status = "CANCELLED"
    BY <1>1 DEF Counted
  <1>2. CASE status # "CANCELLED"
    <2>1. i # operations[1].id /\ i \in SpeechId
      BY <1>2, FrontAlone, OperationElement DEF IInv
    <2>2. PICK label \in Labels : Hears(label)
      BY DeadHears, ItemHears
    <2>3. heard'[i] = heard[i]
      BY <2>1, <2>2, HeardGrows DEF IInv
    <2>4. \A m \in 1 .. Len(responses') :
            responses'[m].id = i => \E n \in 1 .. Len(responses) : responses'[m] = responses[n]
      BY <2>1, RestStays
    <2>5. ~genAnswer /\ ~genStale
      <3>1. respPc' = respPc
        BY <2>2 DEF Hears, genVars
      <3> QED
        BY <3>1 DEF genAnswer, genStale, NextResp
    <2>6. Counted(i, status)
      OBVIOUS
    <2> QED
      BY <2>1, <2>3, <2>4, <2>5, <2>6, CountedKept DEF IInv
  <1> QED
    BY <1>1, <1>2

(* The last result of a request takes its operation and its stream away. *)
LEMMA LeavesCounted ==
  ASSUME IInv, HeardType, NetInv, AnswerType, CountInv, [Next]_vars, pollDead \/ pollItem, Removes
  PROVE  CountInv'
  <1> SUFFICES ASSUME NEW k \in 1 .. Len(operations')
               PROVE  Counted(operations[k].id, operations[k].status)'
    BY DEF CountInv
  <1>1. initialized
    BY DEF pollDead, pollItem
  <1>2. operations'[k] = operations[k + 1] /\ k + 1 \in 1 .. Len(operations) /\ k + 1 # 1
    <2>1. operations'[k] = operations[k + 1] /\ k + 1 \in 1 .. Len(operations)
      BY RemoveKeeps DEF IInv
    <2> QED
      BY <2>1
  <1>3. PICK i, status : i = operations'[k].id /\ status = operations'[k].status
    OBVIOUS
  <1>4. Counted(operations[k + 1].id, operations[k + 1].status)
    BY <1>1, <1>2 DEF CountInv
  <1>5. Counted(i, status)'
    BY <1>2, <1>3, <1>4, RestCounted
  <1> QED
    BY <1>3, <1>5

(* A START, or the next part: the stream and what was returned of it show  *)
(* the same parts (pending_queue.h:69-120).                                *)
LEMMA ShownPops ==
  ASSUME Typed, HeardType, PopType(responses) \in {"START", "DATA"}, NEW i \in SpeechId,
         heard'[i] = Append(heard[i], Label(PopItem(responses))),
         responses' = PopRest(responses), NEW g \in Seq(Part), Shown(i, responses[1], g)
  PROVE  Shown(i, responses[1], g)'
  <1>1. PICK s, u : s = responses[1] /\ u = responses'[1]
    OBVIOUS
  <1>2. /\ u.polling
        /\ PopType(responses) = "START" => ~s.polling /\ u.data = s.data
        /\ PopType(responses) = "DATA" => s.polling /\ s.data # <<>> /\ u.data = Tail(s.data)
        /\ s \in Result
    <2>1. responses \in Seq(Result)
      BY DEF Typed, QueueType
    <2>2. 1 \in 1 .. Len(responses)
      BY <2>1, PopFront DEF Result
    <2> QED
      BY <1>1, <2>1, <2>2, PopFront, SeqElement DEF Result
  <1>3. PICK label : label = Label(PopItem(responses))
    OBVIOUS
  <1>4. /\ PopType(responses) = "START" => label = "START"
        /\ PopType(responses) = "DATA" => label = s.data[1]
    BY <1>1, <1>3, ResultItem DEF Typed
  <1>5. heard[i] \in Seq(Labels) /\ s.data \in Seq(Labels) /\ heard'[i] = Append(heard[i], label)
    <2>1. s.data \in Seq(Part) /\ Part \subseteq Labels
      BY <1>2 DEF Result, Stream, Labels
    <2>2. s.data \in Seq(Labels)
      BY <2>1, SeqElement, FunIsSeq
    <2> QED
      BY <1>3, <2>2 DEF HeardType
  <1>6. IF s.polling THEN heard[i] \o s.data = <<"START">> \o g
                     ELSE heard[i] = <<>> /\ s.data = g
    BY <1>1 DEF Shown
  <1>7. heard'[i] \o u.data = <<"START">> \o g
    <2>1. CASE PopType(responses) = "START"
      <3>1. Append(<<>>, "START") = <<"START">>
        OBVIOUS
      <3> QED
        BY <1>2, <1>4, <1>5, <1>6, <2>1, <3>1
    <2>2. CASE PopType(responses) = "DATA"
      <3>1. Append(heard[i], s.data[1]) \o Tail(s.data) = heard[i] \o s.data
        <4>1. s.data # <<>>
          BY <1>2, <2>2
        <4>2. PICK a \in Seq(Labels), b \in Seq(Labels) : a = heard[i] /\ b = s.data
          BY <1>5
        <4>3. Append(a, b[1]) \o Tail(b) = a \o b
          <5>1. b # <<>>
            BY <4>1, <4>2
          <5>2. /\ Append(a, b[1]) \in Seq(Labels) /\ Append(a, b[1]) \o Tail(b) = a \o b
                /\ Append(a, b[1]) = a \o <<b[1]>>
            BY <5>1, SeqShift, Zenon
          <5> QED
            BY <5>2
        <4> QED
          BY <4>2, <4>3
      <3> QED
        BY <1>2, <1>4, <1>5, <1>6, <2>2, <3>1
    <2> QED
      BY <2>1, <2>2
  <1> QED
    BY <1>1, <1>2, <1>7 DEF Shown

(* Every other result than the last one (poll, speech_impl.cc:310-336). *)
LEMMA ItemCounted ==
  ASSUME IInv, HeardType, NetInv, AnswerType, CountInv, [Next]_vars, pollItem,
         Label(PopItem(responses)) \notin Terminal
  PROVE  CountInv'
  <1> SUFFICES ASSUME NEW k \in 1 .. Len(operations')
               PROVE  Counted(operations[k].id, operations[k].status)'
    BY DEF CountInv
  <1>1. initialized /\ UNCHANGED operations /\ PopType(responses) \in {"START", "DATA"}
    BY ItemRemoves DEF pollItem, ctlVars
  <1>2. PICK i, status : i = operations[k].id /\ status = operations[k].status
    OBVIOUS
  <1>3. Counted(i, status) /\ k \in 1 .. Len(operations) /\ i \in SpeechId
    <2>1. k \in 1 .. Len(operations)
      BY <1>1
    <2> QED
      BY <1>1, <1>2, <2>1, OperationElement DEF CountInv, IInv
  <1>4. CASE k # 1
    <2>1. Counted(i, status)'
      BY <1>2, <1>3, <1>4, RestCounted
    <2> QED
      BY <1>1, <1>2, <2>1
  <1>5. CASE k = 1
    <2>1. /\ Typed /\ OneInFlight /\ SenderInv /\ OpOrder /\ ResponseOrder /\ StreamInv
          /\ operations # <<>> /\ ~Dead(operations[1]) /\ PopType(responses) # "EMPTY"
          /\ responses' = PopRest(responses)
      BY <1>1 DEF IInv, pollItem
    <2>2. /\ responses # <<>> /\ responses[1].id = i /\ status \in {"STREAMING", "END"}
      BY <1>2, <1>5, <2>1, FrontItem
    <2>3. heard'[i] = Append(heard[i], Label(PopItem(responses)))
      <3>1. PopItem(responses).id = i
        BY <2>1, <2>2, ResultItem DEF Typed
      <3> QED
        BY <1>3, <3>1 DEF pollItem, Hear
    <2>4. responses \in Seq(Result)
      BY <2>1 DEF Typed, QueueType
    <2>5. /\ 1 \in 1 .. Len(responses) /\ Len(responses') = Len(responses)
          /\ responses'[1].type = responses[1].type
          /\ \A m \in 1 .. Len(responses) : m # 1 => responses'[m] = responses[m]
      <3>1. /\ 1 \in 1 .. Len(responses) /\ Len(responses') = Len(responses)
            /\ \A m \in 1 .. Len(responses) : m # 1 => responses'[m] = responses[m]
        BY <1>1, <2>1, <2>4, PopFront DEF Result
      <3> QED
        BY <1>1, <2>1, <2>4, <3>1, PopRestKeeps DEF Result
    <2>6. ASSUME NEW m \in 1 .. Len(responses'), responses'[m].id = i PROVE m = 1
      <3>1. SUFFICES ASSUME m # 1 PROVE FALSE
        OBVIOUS
      <3>2. m \in 1 .. Len(responses) /\ responses[m].id = i /\ 1 \in 1 .. m - 1
        BY <2>5, <2>6, <3>1, ResponseElement
      <3>3. responses[1].id < responses[m].id
        BY <2>1, <3>2 DEF ResponseOrder
      <3> QED
        BY <1>3, <2>2, <3>2, <3>3, IdsAreNat
    <2>7. ASSUME NEW g \in Seq(Part), Shown(i, responses[1], g),
                 NEW m \in 1 .. Len(responses'), responses'[m].id = i
          PROVE  Shown(i, responses[m], g)'
      <3>1. Shown(i, responses[1], g)'
        BY <1>1, <1>3, <2>1, <2>3, <2>7, ShownPops
      <3> QED
        BY <2>6, <2>7, <3>1
    <2>8. CASE status = "STREAMING"
      <3>1. PICK g \in Seq(Part) : Tally(i, g) /\ Shown(i, responses[1], g)
        BY <1>3, <2>2, <2>5, <2>8 DEF Counted
      <3>2. ~genAnswer /\ ~genStale
        <4>1. respPc' = respPc
          BY DEF pollItem, genVars
        <4> QED
          BY <4>1 DEF genAnswer, genStale, NextResp
      <3>3. Tally(i, g)'
        BY <1>3, <3>1, <3>2, TallyKept DEF IInv
      <3>4. \A m \in 1 .. Len(responses') : responses'[m].id = i => Shown(i, responses[m], g)'
        BY <2>7, <3>1
      <3>5. Counted(i, status)'
        BY <2>8, <3>3, <3>4 DEF Counted
      <3> QED
        BY <1>1, <1>2, <3>5
    <2>9. CASE status = "END"
      <3>1. ASSUME NEW m \in 1 .. Len(responses'), responses'[m].id = i,
                   responses'[m].type = "completed"
            PROVE  answered'[i].done /\ Shown(i, responses[m], answered[i].parts)'
        <4>1. responses[1].type = "completed"
          BY <2>5, <2>6, <3>1
        <4>2. answered[i].done /\ Shown(i, responses[1], answered[i].parts)
          BY <1>3, <2>2, <2>5, <2>9, <4>1 DEF Counted
        <4>3. answered'[i] = answered[i]
          BY <1>3, <4>2, AnswerStep
        <4>4. PICK g \in Seq(Part) : g = answered[i].parts
          BY <1>3 DEF AnswerType, AnswerSet
        <4>5. Shown(i, responses[m], g)'
          BY <2>7, <3>1, <4>2, <4>4
        <4> QED
          BY <4>2, <4>3, <4>4, <4>5
      <3>2. Counted(i, status)'
        BY <2>9, <3>1 DEF Counted
      <3> QED
        BY <1>1, <1>2, <3>2
    <2> QED
      BY <2>2, <2>8, <2>9
  <1> QED
    BY <1>4, <1>5

(* The stream of an answer is the one that is open, or a new one: its data *)
(* are those it had and the parts of the packet, unless the server has     *)
(* failed (gen_result_by_resp, speech_impl.cc:620-690).                    *)
LEMMA PutAllFills ==
  ASSUME NEW s \in Seq(Result), NEW id, NEW ds \in Seq(Part), NEW m \in 1 .. Len(s)
  PROVE  IF s[m].id = id /\ s[m].type = "uncompleted"
         THEN PutAll(s, id, ds)[m].data = s[m].data \o ds
         ELSE PutAll(s, id, ds)[m] = s[m]
  <1>1. s[m] \in Result
    BY SeqElement
  <1>2. PutAll(s, id, ds)[m] = IF s[m].id = id /\ s[m].type = "uncompleted"
                               THEN [s[m] EXCEPT !.data = @ \o ds] ELSE s[m]
    BY DEF PutAll
  <1> QED
    BY <1>1, <1>2 DEF Result, Stream

LEMMA Fills ==
  ASSUME Typed, NEW s \in Seq(Result), NEW m \in 1 .. Len(s), NEW id, id = rx.id,
         s[m].id = id => s[m].type = "uncompleted",
         responses' = (LET filled == PutAll(s, rx.id, Parts(rx)) IN
                       CASE rx.type = "FINISH" -> End(filled, rx.id, "nlp")
                         [] rx.type = "FAIL"   -> Erase(filled, rx.id, SPEECH_SERVER_INTERNAL)
                         [] OTHER              -> filled)
  PROVE  IF s[m].id = id
         THEN IF rx.type = "FAIL" THEN responses'[m].type = "error"
              ELSE /\ responses'[m].data = s[m].data \o Parts(rx)
                   /\ responses'[m].polling = s[m].polling
         ELSE responses'[m] = s[m]
  <1>1. PICK f : f = PutAll(s, id, Parts(rx))
    OBVIOUS
  <1>2. /\ f \in Seq(Result) /\ m \in 1 .. Len(f) /\ f[m].id = s[m].id
        /\ f[m].polling = s[m].polling
        /\ IF s[m].id = id THEN f[m].data = s[m].data \o Parts(rx) ELSE f[m] = s[m]
    <2>1. /\ f \in Seq(Result) /\ m \in 1 .. Len(f) /\ f[m].id = s[m].id
          /\ f[m].polling = s[m].polling
      BY <1>1, PutAllKeeps, PartsType DEF SameIds
    <2>2. IF s[m].id = id /\ s[m].type = "uncompleted" THEN f[m].data = s[m].data \o Parts(rx)
                                                       ELSE f[m] = s[m]
      <3>1. PICK ds \in Seq(Part) : ds = Parts(rx)
        BY PartsType
      <3>2. IF s[m].id = id /\ s[m].type = "uncompleted"
            THEN PutAll(s, id, ds)[m].data = s[m].data \o ds
            ELSE PutAll(s, id, ds)[m] = s[m]
        BY PutAllFills
      <3> QED
        BY <1>1, <3>1, <3>2
    <2> QED
      BY <2>1, <2>2
  <1>3. responses' = CASE rx.type = "FINISH" -> End(f, id, "nlp")
                       [] rx.type = "FAIL"   -> Erase(f, id, SPEECH_SERVER_INTERNAL)
                       [] OTHER              -> f
    BY <1>1
  <1>4. CASE rx.type = "FINISH"
    <2>1. "nlp" \in Part
      BY DEF Part
    <2>2. responses' = End(f, id, "nlp")
      BY <1>3, <1>4
    <2>3. /\ responses'[m].data = f[m].data /\ responses'[m].polling = f[m].polling
          /\ f[m].id # id => responses'[m] = f[m]
      BY <1>2, <2>1, <2>2, EndLeaves DEF Result
    <2> QED
      BY <1>2, <1>4, <2>3
  <1>5. CASE rx.type = "FAIL"
    <2>1. responses' = Erase(f, id, SPEECH_SERVER_INTERNAL)
      BY <1>3, <1>5
    <2>2. /\ f[m].id = id => responses'[m].type = "error"
          /\ f[m].id # id => responses'[m] = f[m]
      <3>1. SPEECH_SERVER_INTERNAL \in {SPEECH_SERVER_INTERNAL} \cup {0}
             /\ SPEECH_SERVER_INTERNAL # 0
        BY DEF SPEECH_SERVER_INTERNAL
      <3> QED
        BY <1>2, <2>1, <3>1, EraseLeaves, EraseKeeps DEF Result
    <2> QED
      BY <1>2, <1>5, <2>2
  <1>6. CASE rx.type \notin {"FINISH", "FAIL"}
    BY <1>2, <1>3, <1>6
  <1> QED
    BY <1>4, <1>5, <1>6

(* What an answer leaves of every stream. *)
LEMMA AnswerFills ==
  ASSUME IInv, initialized, genAnswer
  PROVE  \A m \in 1 .. Len(responses') :
           IF responses'[m].id = rx.id
           THEN IF rx.type = "FAIL" THEN responses'[m].type = "error"
                ELSE \E t \in Result :
                       /\ responses'[m].data = t.data \o Parts(rx)
                       /\ responses'[m].polling = t.polling
                       /\ IF operations[current].status = "START"
                          THEN t.data = <<>> /\ ~t.polling
                          ELSE \E n \in 1 .. Len(responses) : t = responses[n] /\ t.id = rx.id
           ELSE \E n \in 1 .. Len(responses) : responses'[m] = responses[n]
  <1> USE DEF IInv
  <1>1. PICK id : id = rx.id
    OBVIOUS
  <1>2. /\ current \in 1 .. Len(operations) /\ current # 0 /\ operations[current].id = id
        /\ operations[current].status \in {"START", "STREAMING"} /\ id \in SpeechId
    <2>1. current \in 1 .. Len(operations) /\ rx.id = operations[current].id
      BY AnswerKeeps
    <2> QED
      BY <1>1, <2>1, OperationElement DEF OneInFlight
  <1>3. responses \in Seq(Result) /\ StreamInv /\ Len(responses) \in Nat
    BY ResponseElement DEF Typed, QueueType
  <1>4. PICK st : st = operations[current].status
    OBVIOUS
  <1>5. PICK s : s = IF st = "START" THEN Start(responses, id) ELSE responses
    OBVIOUS
  <1>6. /\ s \in Seq(Result) /\ SameIds(s, responses')
        /\ responses' = (LET filled == PutAll(s, rx.id, Parts(rx)) IN
                         CASE rx.type = "FINISH" -> End(filled, rx.id, "nlp")
                           [] rx.type = "FAIL"   -> Erase(filled, rx.id, SPEECH_SERVER_INTERNAL)
                           [] OTHER              -> filled)
    <2>1. s \in Seq(Result) /\ SameIds(s, responses')
      BY <1>1, <1>4, <1>5, StreamedKeeps
    <2>2. s = IF operations[current].status = "START" THEN Start(responses, rx.id) ELSE responses
      BY <1>1, <1>4, <1>5
    <2>3. responses' = (LET filled == PutAll(s, rx.id, Parts(rx)) IN
                         CASE rx.type = "FINISH" -> End(filled, rx.id, "nlp")
                           [] rx.type = "FAIL"   -> Erase(filled, rx.id, SPEECH_SERVER_INTERNAL)
                           [] OTHER              -> filled)
      BY <2>2 DEF genAnswer, Streamed
    <2> QED
      BY <2>1, <2>3
  <1>7. ASSUME NEW m \in 1 .. Len(s)
        PROVE  /\ s[m].id = id /\ st = "START" =>
                    s[m].type = "uncompleted" /\ s[m].data = <<>> /\ ~s[m].polling
               /\ s[m].id # id \/ st # "START" =>
                    \E n \in 1 .. Len(responses) : s[m] = responses[n]
               /\ s[m].id = id => s[m].type = "uncompleted"
    <2>1. CASE st = "START"
      <3>1. ~HasStream(responses, id)
        BY <1>2, <1>3, <1>4, <2>1 DEF StreamInv
      <3>2. s = Append(responses, NewStream(id))
        BY <1>5, <2>1, <3>1 DEF Start
      <3>3. /\ Len(s) = Len(responses) + 1 /\ s[Len(responses) + 1] = NewStream(id)
            /\ \A n \in 1 .. Len(responses) : s[n] = responses[n]
        <4>1. NewStream(id) \in Result
          BY <1>2, EmptySeq DEF NewStream, Result, Stream, TagType
        <4> QED
          BY <1>3, <3>2, <4>1, SeqAppend
      <3>4. CASE m \in 1 .. Len(responses)
        <4>1. s[m] = responses[m] /\ s[m].id # id
          BY <3>1, <3>3, <3>4 DEF HasStream
        <4> QED
          BY <3>4, <4>1
      <3>5. CASE m \notin 1 .. Len(responses)
        <4>1. m = Len(responses) + 1
          BY <1>3, <3>3, <3>5
        <4>2. /\ s[m].id = id /\ s[m].type = "uncompleted" /\ s[m].data = <<>>
              /\ s[m].polling = FALSE
          BY <3>3, <4>1 DEF NewStream
        <4> QED
          BY <2>1, <4>2
      <3> QED
        BY <3>4, <3>5
    <2>2. CASE st # "START"
      <3>1. st = "STREAMING" /\ s = responses
        BY <1>2, <1>4, <1>5, <2>2
      <3>2. s[m].id = id => s[m].type = "uncompleted"
        BY <1>2, <1>3, <1>4, <3>1 DEF StreamInv
      <3> QED
        BY <2>2, <3>1, <3>2
    <2> QED
      BY <2>1, <2>2
  <1> SUFFICES ASSUME NEW m \in 1 .. Len(responses')
               PROVE  IF responses'[m].id = id
                      THEN IF rx.type = "FAIL" THEN responses'[m].type = "error"
                           ELSE \E t \in Result :
                                  /\ responses'[m].data = t.data \o Parts(rx)
                                  /\ responses'[m].polling = t.polling
                                  /\ IF st = "START" THEN t.data = <<>> /\ ~t.polling
                                     ELSE \E n \in 1 .. Len(responses) :
                                            t = responses[n] /\ t.id = id
                      ELSE \E n \in 1 .. Len(responses) : responses'[m] = responses[n]
    BY <1>1, <1>4
  <1>8. m \in 1 .. Len(s) /\ responses'[m].id = s[m].id /\ s[m] \in Result
    BY <1>6, SeqElement DEF SameIds
  <1>9. IF s[m].id = id
        THEN IF rx.type = "FAIL" THEN responses'[m].type = "error"
             ELSE /\ responses'[m].data = s[m].data \o Parts(rx)
                  /\ responses'[m].polling = s[m].polling
        ELSE responses'[m] = s[m]
    <2>1. s[m].id = id => s[m].type = "uncompleted"
      BY <1>7, <1>8
    <2> QED
      BY <1>1, <1>6, <1>8, <2>1, Fills
  <1>10. CASE s[m].id # id
    BY <1>7, <1>8, <1>9, <1>10
  <1>11. CASE s[m].id = id
    BY <1>7, <1>8, <1>9, <1>11
  <1> QED
    BY <1>10, <1>11

(* The parts of a packet join those of the stream. *)
LEMMA AnswerShown ==
  ASSUME IInv, HeardType, initialized, genAnswer, NEW i \in SpeechId, i = rx.id,
         rx.type # "FAIL", NEW g \in Seq(Part), NEW y \in Seq(Part), y = g \o Parts(rx),
         IF operations[current].status = "START" THEN heard[i] = <<>> /\ g = <<>>
         ELSE \A n \in 1 .. Len(responses) : responses[n].id = i => Shown(i, responses[n], g),
         NEW m \in 1 .. Len(responses'), responses'[m].id = i
  PROVE  Shown(i, responses[m], y)'
  <1>1. PICK t \in Result :
          /\ responses'[m].data = t.data \o Parts(rx)
          /\ responses'[m].polling = t.polling
          /\ IF operations[current].status = "START" THEN t.data = <<>> /\ ~t.polling
             ELSE \E n \in 1 .. Len(responses) : t = responses[n] /\ t.id = rx.id
    BY AnswerFills
  <1>2. IF t.polling THEN heard[i] \o t.data = <<"START">> \o g
                     ELSE heard[i] = <<>> /\ t.data = g
    BY <1>1 DEF Shown
  <1>3. heard'[i] = heard[i]
    BY DEF genAnswer
  <1>4. PICK u : u = responses'[m]
    OBVIOUS
  <1>5. IF u.polling THEN heard[i] \o u.data = <<"START">> \o y
                     ELSE heard[i] = <<>> /\ u.data = y
    <2>1. PICK p \in Seq(Labels), d \in Seq(Labels), h \in Seq(Labels), q \in Seq(Labels) :
            p = Parts(rx) /\ d = t.data /\ h = heard[i] /\ q = g
      <3>1. t.data \in Seq(Part) /\ Parts(rx) \in Seq(Part) /\ Part \subseteq Labels
        BY PartsType DEF Result, Stream, Labels
      <3>2. t.data \in Seq(Labels) /\ Parts(rx) \in Seq(Labels) /\ g \in Seq(Labels)
        BY <3>1, SeqElement, FunIsSeq
      <3> QED
        BY <3>2 DEF HeardType
    <2>2. <<"START">> \in Seq(Labels)
      <3>1. "START" \in Labels
        BY DEF Labels
      <3> QED
        BY <3>1
    <2>3. (h \o d) \o p = h \o (d \o p) /\ (<<"START">> \o q) \o p = <<"START">> \o (q \o p)
      <3>1. PICK b : b = <<"START">>
        OBVIOUS
      <3>2. b \in Seq(Labels) /\ h \in Seq(Labels) /\ d \in Seq(Labels) /\ p \in Seq(Labels)
            /\ q \in Seq(Labels)
        BY <2>1, <2>2, <3>1
      <3>3. Joins(h, d, p) /\ Joins(b, q, p)
        BY <3>2, Associative
      <3> QED
        BY <3>1, <3>3 DEF Joins
    <2> QED
      BY <1>1, <1>2, <1>4, <2>1, <2>3
  <1> QED
    BY <1>3, <1>4, <1>5 DEF Shown

(* A packet of the server's is turned into results. *)
LEMMA AnswerCounted ==
  ASSUME IInv, HeardType, initialized, NetInv, AnswerType, CountInv, [Next]_vars, genAnswer
  PROVE  CountInv'
  <1> USE DEF IInv
  <1> SUFFICES ASSUME NEW k \in 1 .. Len(operations')
               PROVE  Counted(operations[k].id, operations[k].status)'
    BY DEF CountInv
  <1>1. /\ SameOpIds /\ current \in 1 .. Len(operations) /\ rx.id = operations[current].id
        /\ \A j \in 1 .. Len(operations) : j # current => operations'[j] = operations[j]
        /\ operations'[current].status = IF Last(rx) THEN "END" ELSE "STREAMING"
    BY AnswerKeeps
  <1>2. k \in 1 .. Len(operations) /\ operations'[k].id = operations[k].id
    BY <1>1 DEF SameOpIds
  <1>3. PICK i, status : i = operations[k].id /\ status = operations[k].status
    OBVIOUS
  <1>4. i \in SpeechId /\ Counted(i, status)
    BY <1>2, <1>3, OperationElement DEF CountInv
  <1>5. heard' = heard /\ respPc = "handle" /\ rx.kind = "data" /\ answered' = answered
    BY DEF genAnswer, netVars
  <1>6. CASE k # current
    <2>1. operations'[k] = operations[k] /\ status \notin {"START", "STREAMING"}
      BY <1>1, <1>2, <1>3, <1>6 DEF OneInFlight
    <2>2. i # rx.id
      <3>1. current # 0 /\ current = Len(operations) /\ k \in 1 .. current - 1
        BY <1>1, <1>2, <1>6, OperationElement DEF SenderInv
      <3> QED
        BY <1>1, <1>3, <3>1, CurrentFirst DEF CurrentId
    <2>3. \A m \in 1 .. Len(responses') :
            responses'[m].id = i => \E n \in 1 .. Len(responses) : responses'[m] = responses[n]
      BY <2>2, AnswerFills
    <2>4. heard'[i] = heard[i]
      BY <1>5
    <2>5. Counted(i, status)'
      BY <1>4, <2>1, <2>3, <2>4, CountedKept
    <2> QED
      BY <1>3, <2>1, <2>5
  <1>7. CASE k = current
    <2>1. i = rx.id /\ Handles(i) /\ status \in {"START", "STREAMING"}
      BY <1>1, <1>2, <1>3, <1>5, <1>7 DEF Handles, For, OneInFlight
    <2>2. PICK g \in Seq(Part) :
            /\ Tally(i, g)
            /\ IF status = "START" THEN heard[i] = <<>> /\ g = <<>>
               ELSE \A n \in 1 .. Len(responses) : responses[n].id = i => Shown(i, responses[n], g)
      BY <1>4, <2>1, EmptySeq DEF Counted
    <2>3. PICK y \in Seq(Part) : /\ y = g \o Parts(rx) /\ Tally(i, y)'
                                 /\ Last(rx) => answered[i].done /\ y = answered[i].parts
      BY <1>4, <2>1, <2>2, TallyAnswer
    <2>4. ASSUME rx.type # "FAIL", NEW m \in 1 .. Len(responses'), responses'[m].id = i
          PROVE  Shown(i, responses[m], y)'
      <3>1. IF operations[current].status = "START" THEN heard[i] = <<>> /\ g = <<>>
            ELSE \A n \in 1 .. Len(responses) : responses[n].id = i => Shown(i, responses[n], g)
        BY <1>3, <1>7, <2>2
      <3> QED
        BY <1>4, <2>1, <2>3, <2>4, <3>1, AnswerShown
    <2>5. CASE Last(rx)
      <3>1. ASSUME NEW m \in 1 .. Len(responses'), responses'[m].id = i,
                   responses'[m].type = "completed"
            PROVE  answered'[i].done /\ Shown(i, responses[m], answered[i].parts)'
        <4>1. rx.type # "FAIL"
          BY <2>1, <3>1, AnswerFills
        <4>2. Shown(i, responses[m], y)'
          BY <2>4, <3>1, <4>1
        <4>3. y = answered'[i].parts /\ answered'[i].done
          BY <1>5, <2>3, <2>5
        <4> QED
          BY <4>2, <4>3
      <3>2. Counted(i, "END")'
        BY <3>1 DEF Counted
      <3> QED
        BY <1>1, <1>2, <1>3, <1>7, <2>5, <3>2
    <2>6. CASE ~Last(rx)
      <3>1. rx.type # "FAIL"
        BY <2>6 DEF Last
      <3>2. \A m \in 1 .. Len(responses') : responses'[m].id = i => Shown(i, responses[m], y)'
        BY <2>4, <3>1
      <3>3. Counted(i, "STREAMING")'
        BY <2>3, <3>2 DEF Counted
      <3> QED
        BY <1>1, <1>2, <1>3, <1>7, <2>6, <3>3
    <2> QED
      BY <2>5, <2>6
  <1> QED
    BY <1>6, <1>7

(* What the client has turned into results is what the server answers. *)
LEMMA CountStep ==
  ASSUME IInv, HeardType, HeardInv, WirePassed, NetInv, AnswerType, QuietInv, CountInv,
         [Next]_vars
  PROVE  CountInv'
  <1> SUFFICES ASSUME initialized' PROVE CountInv'
    BY DEF CountInv
  <1>1. CASE prepare
    <2>1. operations' = <<>>
      BY <1>1 DEF prepare, IInv, FreshInv, Init, CtlInit, ctlVars
    <2> QED
      BY <2>1, EmptySeq DEF CountInv
  <1>2. CASE genAnswer
    <2>1. initialized
      BY <1>2 DEF genAnswer, appVars
    <2> QED
      BY <1>2, <2>1, AnswerCounted
  <1>3. CASE pollDead
    BY <1>3, DeadRemoves, LeavesCounted
  <1>4. CASE pollItem
    <2>1. CASE Label(PopItem(responses)) \in Terminal
      <3>1. Removes
        BY <1>4, <2>1, ItemRemoves
      <3> QED
        BY <1>4, <3>1, LeavesCounted
    <2>2. CASE Label(PopItem(responses)) \notin Terminal
      BY <1>4, <2>2, ItemCounted
    <2> QED
      BY <2>1, <2>2
  <1>5. CASE ~prepare /\ ~genAnswer /\ ~pollDead /\ ~pollItem
    <2>1. initialized
      BY <1>5, ReadyStep DEF IInv
    <2>2. ~releaseJoinReq
      BY <2>1 DEF releaseJoinReq, IInv, LifeInv
    <2>3. responses' = responses /\ heard' = heard
      BY <1>5, <2>2, ResponsesKept, HeardKept
    <2>4. Dies \/ Adds
      BY <1>5, DiesStep
    <2> QED
      BY <1>5, <2>1, <2>3, <2>4, OthersCounted
  <1> QED
    BY <1>1, <1>2, <1>3, <1>4, <1>5

(* poll() returns END behind all the parts of the answer                   *)
(* (speech_impl.cc:310-336).                                               *)
LEMMA EndIsWhole ==
  ASSUME IInv, HeardType, AnswerType, CountInv, pollItem, NEW i \in SpeechId,
         i = operations[1].id, Label(PopItem(responses)) = "END"
  PROVE  answered[i].done /\ heard'[i] = <<"START">> \o answered[i].parts \o <<"END">>
  <1> USE DEF IInv
  <1>1. /\ Typed /\ OneInFlight /\ SenderInv /\ OpOrder /\ ResponseOrder /\ StreamInv
        /\ operations # <<>> /\ ~Dead(operations[1]) /\ PopType(responses) # "EMPTY"
        /\ initialized /\ QueueType
    BY DEF pollItem, Typed
  <1>2. responses # <<>> /\ responses[1].id = i /\ 1 \in 1 .. Len(responses)
    BY <1>1, FrontItem, ResultItem
  <1>3. PopType(responses) = "END"
    <2> DEFINE l == Label(PopItem(responses))
    <2>1. /\ PopType(responses) = "START" => l = "START"
          /\ PopType(responses) = "DATA" => l \in Part
          /\ PopType(responses) = "REMOVED" => l = "CANCELLED"
          /\ PopType(responses) \in {"END", "ERROR"} => l = PopType(responses)
      BY <1>1, ResultItem
    <2>2. PopType(responses) \in {"START", "DATA", "END", "REMOVED", "ERROR"}
      BY <1>1, ItemRemoves
    <2>3. l = "END"
      OBVIOUS
    <2> HIDE DEF l
    <2> QED
      BY <2>1, <2>2, <2>3 DEF Part
  <1>4. operations[1].status = "END" /\ 1 \in 1 .. Len(operations)
    BY <1>1, <1>3, FrontItem, SeqTail DEF Typed, OpType
  <1>5. PICK s : s = responses[1]
    OBVIOUS
  <1>6. s.type = "completed" /\ s.polling /\ s.data = <<>>
    <2>1. FrontType(s) = "END"
      BY <1>2, <1>3, <1>5 DEF PopType
    <2> QED
      BY <2>1 DEF FrontType
  <1>7. answered[i].done /\ heard[i] \o <<>> = <<"START">> \o answered[i].parts
    <2>1. Counted(i, "END")
      BY <1>1, <1>4 DEF CountInv
    <2>2. answered[i].done /\ Shown(i, responses[1], answered[i].parts)
      BY <1>2, <1>5, <1>6, <2>1 DEF Counted
    <2> QED
      BY <1>5, <1>6, <2>2 DEF Shown
  <1>8. heard'[i] = Append(heard[i], "END") /\ heard[i] \in Seq(Labels)
    <2>1. PopItem(responses).id = i
      BY <1>1, <1>2, ResultItem
    <2> QED
      BY <2>1 DEF pollItem, Hear, HeardType
  <1>9. PICK h \in Seq(Labels) : h = heard[i]
    BY <1>8
  <1>10. Append(h, "END") = h \o <<"END">> /\ h \o <<>> = h
    OBVIOUS
  <1> QED
    BY <1>7, <1>8, <1>9, <1>10

(* What has ended with END is whole, and remains so. *)
LEMMA WholeStep ==
  ASSUME IInv, HeardType, AnswerType, CountInv, WholeInv, [Next]_vars
  PROVE  WholeInv'
  <1> SUFFICES ASSUME NEW i \in SpeechId, heard'[i] # <<>>, heard'[i][Len(heard'[i])] = "END"
               PROVE  /\ answered'[i].done
                      /\ heard'[i] = <<"START">> \o answered'[i].parts \o <<"END">>
    BY DEF WholeInv
  <1>1. answered[i].done => answered'[i] = answered[i]
    BY AnswerStep
  <1>2. CASE heard'[i] = heard[i]
    BY <1>1, <1>2 DEF WholeInv
  <1>3. CASE heard'[i] # heard[i]
    <2>1. pollDead \/ pollItem
      BY <1>3, HeardKept
    <2>2. PICK label \in Labels : Hears(label)
      BY <2>1, DeadHears, ItemHears
    <2>3. /\ i = operations[1].id /\ heard'[i] = Append(heard[i], label)
          /\ heard[i] \in Seq(Labels)
      BY <1>3, <2>2, HeardGrows DEF IInv
    <2>4. heard'[i][Len(heard'[i])] = label
      BY <2>3, SeqAppend, SeqElement
    <2>5. label = "END"
      BY <2>4
    <2>6. ASSUME NEW l, heard'[i] = Append(heard[i], l) PROVE l = "END"
      BY <2>3, <2>6
    <2>7. ~pollDead
      <3>1. pollDead => /\ heard'[i] = Append(heard[i], operations[1].status)
                        /\ operations[1].status \in {"CANCELLED", "ERROR"}
        BY <2>3 DEF pollDead, Hear, Dead
      <3> QED
        BY <2>6, <3>1
    <2>8. Label(PopItem(responses)) = "END"
      <3>1. PopItem(responses).id = i \/ heard'[i] = heard[i]
        BY <2>1, <2>7 DEF pollItem, Hear
      <3>2. heard'[i] = Append(heard[i], Label(PopItem(responses)))
        BY <1>3, <2>1, <2>7, <3>1 DEF pollItem, Hear
      <3> QED
        BY <2>6, <3>2
    <2>9. answered[i].done /\ heard'[i] = <<"START">> \o answered[i].parts \o <<"END">>
      BY <2>1, <2>3, <2>7, <2>8, EndIsWhole
    <2> QED
      BY <1>1, <2>9
  <1> QED
    BY <1>2, <1>3

(* Nothing is answered at the start. *)
LEMMA InitResults == Init => RInv
  <1> SUFFICES ASSUME Init PROVE RInv
    OBVIOUS
  <1>1. wire \in Seq(Msg) /\ HandData /\ HandEnds /\ WirePassed
    BY InitWire DEF WInv
  <1>2. /\ inbox = <<>> /\ respPc = "dead" /\ ~initialized
        /\ answered = [i \in SpeechId |-> [parts |-> <<>>, done |-> FALSE]]
        /\ heard = [i \in SpeechId |-> <<>>]
    BY DEF Init
  <1>3. NetInv /\ AnswerType
    BY <1>2, EmptySeq DEF NetInv, AnswerType, AnswerSet
  <1>4. QuietInv /\ CountInv /\ WholeInv
    BY <1>2, EmptySeq DEF QuietInv, Silent, Handles, CountInv, WholeInv
  <1> QED
    BY <1>1, <1>3, <1>4 DEF RInv

(* Every step keeps it. *)
LEMMA NextResults ==
  ASSUME Orderly, EInv, RInv, [Next]_vars
  PROVE  RInv'
  <1> USE DEF RInv, EInv, KInv
  <1>1. wire' \in Seq(Msg)
    BY WireGrows DEF IInv
  <1>2. HandData' /\ HandEnds' /\ WirePassed'
    BY HandDataStep, HandEndsStep, WirePassedStep DEF IInv
  <1>3. NetInv' /\ AnswerType'
    BY NetStep, AnswerStep
  <1>4. QuietInv' /\ CountInv' /\ WholeInv'
    BY QuietStep, CountStep, WholeStep
  <1> QED
    BY <1>1, <1>2, <1>3, <1>4

(* A result that ends with END has begun with START and has every part of  *)
(* the answer in between, in order (speech_impl.cc:279-343, 555-690):      *)
(* whatever is lost, late, cancelled or fails on the way. The server       *)
(* answers no request it has not received.                                 *)
THEOREM ResultsAreComplete ==
  ASSUME Orderly PROVE Spec => []ResultsComplete
  <1>1. Init => EInv /\ RInv
    BY InitEnds, InitResults
  <1>2. EInv /\ RInv /\ [Next]_vars => EInv' /\ RInv'
    BY NextEnds, NextResults
  <1>3. RInv => ResultsComplete
    <2> SUFFICES ASSUME RInv, NEW i \in SpeechId, HasEnded(heard[i]),
                        heard[i][Len(heard[i])] = "END"
                 PROVE  heard[i] = <<"START">> \o answered[i].parts \o <<"END">>
      BY DEF ResultsComplete
    <2>1. heard[i] # <<>>
      BY EmptySeq DEF HasEnded
    <2> QED
      BY <2>1 DEF RInv, WholeInv
  <1> QED
    BY <1>1, <1>2, <1>3, PTL DEF Spec

=============================================================================
