------------------------------ MODULE SpeechImpl ------------------------------
(***************************************************************************)
(* The speech recognition half of the speech SDK (src/speech/              *)
(* speech_impl.cc).  Texts and voices are queued by the application; a     *)
(* voice is sent while it is still being put.  One thread sends            *)
(* (send_reqs), one turns answers into results (gen_results), the polling  *)
(* thread of the application takes them (poll).                            *)
(*                                                                         *)
(* Unlike in TtsImpl the two mutexes are taken in both orders: cancel()    *)
(* takes resp_mutex_ under req_mutex_, and erase_req() takes req_mutex_,   *)
(* sometimes under resp_mutex_.  A section that waits for a second mutex   *)
(* is split there; any other section is one action.  do_ctl_change_op uses *)
(* the operations under req_mutex_ only: what it reads and what it does    *)
(* are two actions that interleave with the sections under resp_mutex_.    *)
(*                                                                         *)
(* One session is modelled, and SpeechConnection is external, as in        *)
(* TtsImpl.                                                                *)
(***************************************************************************)
EXTENDS OpCtl, StreamFifo, FiniteSets

CONSTANTS
  Callers,     (* application threads that call put_text()                 *)
  Kinds,       (* of text, voice: the requests the application makes       *)
  Cancels,     (* the ids it gives to cancel(), 0 for any id <= 0          *)
  Releases,    (* does it call release()?                                  *)
  MaxId,       (* bound on the requests                                    *)
  MaxChunks,   (* bound on the packets of all voices                       *)
  MaxItems,    (* bound on the results before the last of one answer       *)
  MaxInbox,    (* bound on the packets received and not handled            *)
  Faults       (* of sendFails, lost, broken, badData, FAIL, OTHER         *)

ASSUME SpeechAssumption ==
  /\ MaxId \in Nat /\ MaxChunks \in Nat /\ MaxItems \in Nat /\ MaxInbox \in Nat
  /\ Releases \in BOOLEAN /\ Cancels \subseteq Nat
  /\ NoData \notin Nat

VARIABLES
  initialized, next_id, text_reqs, voice_reqs, responses,
  entering,   (* put_text(): the ids computed, stored or not, by caller    *)
  spoken,     (* how many packets of each voice put_voice() has queued     *)
  req,        (* send_reqs: the request in hand                            *)
  seen,       (* do_ctl_change_op: the id of the operation it read, or 0   *)
  reqPc, respPc, pollPc, ctlPc,
  cancelling, (* cancel(): what it has yet to cancel under resp_mutex_     *)
  respTimed,  (* gen_results: recv() was given a non-zero timeout          *)
  rx,         (* gen_results: what recv() returned                         *)
  linkUp, inbox,
  wire,       (* the server: the messages it has received                  *)
  answered,   (* the server: what it has answered to each id               *)
  heard,      (* what poll() has returned for each id                      *)
  dropped     (* ids that cancel() has returned for, not yet terminated    *)

appVars  == <<initialized, next_id, entering, spoken>>
queues   == <<text_reqs, voice_reqs>>
sendVars == <<req, seen, reqPc>>
genVars  == <<respPc, respTimed, rx>>
netVars  == <<linkUp, inbox, wire, answered>>
pollVars == <<pollPc, heard, dropped>>
runVars  == <<ctlPc, cancelling>>

vars == <<operations, current, op_cond, initialized, next_id, text_reqs, voice_reqs,
          responses, entering, spoken, req, seen, reqPc, respPc, pollPc, ctlPc,
          cancelling, respTimed, rx, linkUp, inbox, wire, answered, heard, dropped>>

SpeechId == 1 .. MaxId
Errors == {"SERVICE_UNAVAILABLE", "TIMEOUT", "UNKNOWN"}
SPEECH_TIMEOUT == 103
SPEECH_SERVER_INTERNAL == 6
Terminal == {"END", "CANCELLED", "ERROR"}

(* A SpeechReqInfo; its data is the number of a voice packet.              *)
ReqType == {"TEXT", "VOICE_START", "VOICE_DATA", "VOICE_END", "CANCELLED"}
Request(id, type, data) == [id |-> id, type |-> type, data |-> data]
NoRequest == Request(0, "TEXT", NoData)

(* A SpeechResponse, or what recv() reports as an error.                   *)
RespType == {"INTERMEDIATE", "ASR_FINISH", "FINISH", "FAIL", "OTHER"}
Response(kind, id, type, extra) == [kind |-> kind, id |-> id, type |-> type, extra |-> extra]
NoResponse == Response("none", 0, "OTHER", FALSE)

(* The SpeechResultIn that a response puts into its stream.                *)
Part == {"extra", "inter", "asr", "nlp"}
Parts(r) ==
  (IF r.extra THEN <<"extra">> ELSE <<>>) \o
  CASE r.type = "INTERMEDIATE" -> <<"inter">>
    [] r.type = "ASR_FINISH"   -> <<"asr">>
    [] OTHER                   -> <<>>

-----------------------------------------------------------------------------
(* Who holds a mutex from one action to the next.                          *)
ReqMutexFree  == ctlPc # "closing" /\ cancelling = {} /\ reqPc # "change"
RespMutexFree == respPc # "finish" /\ reqPc # "failed" /\ pollPc # "toSleep"

(* Mutant: nobody notifies resp_cond_. *)
WakePollNever == UNCHANGED pollPc

WakeReq  == reqPc'  = IF reqPc = "asleep" THEN "top" ELSE reqPc
WakePoll == pollPc' = IF pollPc = "asleep" THEN "running" ELSE pollPc
WakeRecv == IF respPc = "asleep" THEN respPc' = "awake" /\ respTimed' = FALSE
            ELSE UNCHANGED <<respPc, respTimed>>

Init ==
  /\ CtlInit
  /\ initialized = FALSE /\ next_id = 0 /\ text_reqs = <<>> /\ voice_reqs = <<>>
  /\ responses = <<>> /\ entering = {} /\ spoken = [i \in SpeechId |-> 0]
  /\ req = NoRequest /\ seen = 0 /\ reqPc = "dead"
  /\ respPc = "dead" /\ respTimed = FALSE /\ rx = NoResponse
  /\ pollPc = "stopped" /\ heard = [i \in SpeechId |-> <<>>] /\ dropped = {}
  /\ ctlPc = "new" /\ cancelling = {}
  /\ linkUp = FALSE /\ inbox = <<>> /\ wire = <<>>
  /\ answered = [i \in SpeechId |-> [parts |-> <<>>, done |-> FALSE]]

-----------------------------------------------------------------------------
(* The application.                                                        *)

prepare ==
  /\ ctlPc = "new"
  /\ next_id' = 0 /\ initialized' = TRUE /\ linkUp' = TRUE
  /\ reqPc' = "top" /\ respPc' = "timeout" /\ pollPc' = "running" /\ ctlPc' = "idle"
  /\ UNCHANGED <<ctlVars, queues, responses, entering, spoken, req, seen, respTimed,
                 rx, heard, dropped, cancelling, inbox, wire, answered>>

(* put_text() increments next_id_ before it takes req_mutex_: other        *)
(* increments may come between its read and its write ...                  *)
textRead(c) ==
  /\ "text" \in Kinds /\ initialized /\ next_id < MaxId
  /\ \A e \in entering : e.by # c
  /\ entering' = entering \cup {[by |-> c, id |-> next_id + 1, stored |-> FALSE]}
  /\ UNCHANGED <<ctlVars, initialized, next_id, spoken, queues, responses, sendVars,
                 genVars, pollVars, runVars, netVars>>

textStore(c) ==
  /\ \E e \in entering :
       /\ e.by = c /\ ~e.stored
       /\ next_id' = e.id
       /\ entering' = (entering \ {e}) \cup {[e EXCEPT !.stored = TRUE]}
  /\ UNCHANGED <<ctlVars, initialized, spoken, queues, responses, sendVars, genVars,
                 pollVars, runVars, netVars>>

(* ... and then it queues the text. *)
textQueue(c) ==
  /\ ReqMutexFree
  /\ \E e \in entering :
       /\ e.by = c /\ e.stored
       /\ entering' = entering \ {e}
       /\ text_reqs' = Append(text_reqs, Request(e.id, "TEXT", NoData))
  /\ WakeReq
  /\ UNCHANGED <<ctlVars, initialized, next_id, spoken, voice_reqs, responses, req,
                 seen, genVars, pollVars, runVars, netVars>>

start_voice ==
  /\ "voice" \in Kinds /\ initialized /\ ReqMutexFree /\ next_id < MaxId
  /\ next_id' = next_id + 1
  /\ voice_reqs' = Start(voice_reqs, next_id + 1)
  /\ WakeReq
  /\ UNCHANGED <<ctlVars, initialized, entering, spoken, text_reqs, responses, req,
                 seen, genVars, pollVars, runVars, netVars>>

PacketsPut == Cardinality({p \in SpeechId \X (1 .. MaxChunks) : p[2] <= spoken[p[1]]})

put_voice(id) ==
  /\ initialized /\ ReqMutexFree
  /\ AcceptsData(voice_reqs, id) /\ PacketsPut < MaxChunks
  /\ spoken' = [spoken EXCEPT ![id] = @ + 1]
  /\ voice_reqs' = Put(voice_reqs, id, spoken[id] + 1)
  /\ WakeReq
  /\ UNCHANGED <<ctlVars, initialized, next_id, entering, text_reqs, responses, req,
                 seen, genVars, pollVars, runVars, netVars>>

end_voice(id) ==
  /\ initialized /\ ReqMutexFree
  /\ HasStream(voice_reqs, id)
  /\ voice_reqs' = End(voice_reqs, id, NoData)
  /\ WakeReq
  /\ UNCHANGED <<ctlVars, appVars, text_reqs, responses, req, seen, genVars, pollVars,
                 runVars, netVars>>

(* cancel(): what is queued is marked under req_mutex_, which is kept when *)
(* the operations have to be cancelled too ...                             *)
QueuedTexts == {text_reqs[i].id : i \in 1 .. Len(text_reqs)}
OpIds == {operations[i].id : i \in 1 .. Len(operations)}

MarkTexts(id) ==
  text_reqs' = [i \in 1 .. Len(text_reqs) |->
                  IF id = 0 \/ text_reqs[i].id = id
                  THEN [text_reqs[i] EXCEPT !.type = "CANCELLED"] ELSE text_reqs[i]]

cancelQueued(id) ==
  /\ initialized /\ ReqMutexFree /\ id \in 1 .. next_id
  /\ IF HasStream(voice_reqs, id)
     THEN /\ voice_reqs' = Erase(voice_reqs, id, 0) /\ WakeReq
          /\ UNCHANGED text_reqs
     ELSE /\ id \in QueuedTexts
          /\ MarkTexts(id)
          /\ UNCHANGED <<voice_reqs, reqPc>>
  /\ dropped' = dropped \cup {id}
  /\ UNCHANGED <<ctlVars, appVars, responses, req, seen, genVars, pollPc, heard,
                 runVars, netVars>>

cancelOne(id) ==
  /\ initialized /\ ReqMutexFree /\ id \in 1 .. next_id
  /\ ~HasStream(voice_reqs, id) /\ id \notin QueuedTexts
  /\ cancelling' = {id}
  /\ UNCHANGED <<ctlVars, appVars, queues, responses, sendVars, genVars, pollVars,
                 ctlPc, netVars>>

cancelAll ==
  /\ initialized /\ ReqMutexFree
  /\ voice_reqs' = Clear(voice_reqs)
  /\ IF ClearMin(voice_reqs) > 0 THEN WakeReq ELSE UNCHANGED reqPc
  /\ MarkTexts(0)
  /\ cancelling' = {0}
  /\ UNCHANGED <<ctlVars, appVars, responses, req, seen, genVars, pollVars, ctlPc,
                 netVars>>

(* ... under resp_mutex_. *)
cancelOps ==
  /\ RespMutexFree
  /\ \E id \in cancelling :
       /\ cancel_op(id)
       /\ IF CancelsCurrent(id) THEN WakePoll ELSE UNCHANGED pollPc
       /\ dropped' = dropped \cup
            (IF id = 0 THEN OpIds \cup QueuedTexts \cup
                              {voice_reqs[i].id : i \in 1 .. Len(voice_reqs)}
             ELSE {id} \cap OpIds)
  /\ cancelling' = {}
  /\ UNCHANGED <<appVars, queues, responses, sendVars, genVars, heard, ctlPc, netVars>>

cancel == \/ 0 \in Cancels /\ cancelAll
          \/ \E id \in Cancels : cancelQueued(id) \/ cancelOne(id)
          \/ cancelOps

releaseBegin ==
  /\ Releases /\ ctlPc = "idle" /\ ReqMutexFree
  /\ initialized' = FALSE /\ ctlPc' = "closing"
  /\ UNCHANGED <<ctlVars, next_id, entering, spoken, queues, responses, sendVars,
                 genVars, pollVars, cancelling, netVars>>

releaseClose ==
  /\ ctlPc = "closing"
  /\ linkUp' = FALSE /\ WakeRecv
  /\ voice_reqs' = <<>> /\ text_reqs' = <<>> /\ WakeReq
  /\ ctlPc' = "joinReq"
  /\ UNCHANGED <<ctlVars, appVars, responses, req, seen, rx, pollVars, cancelling,
                 inbox, wire, answered>>

releaseJoinReq ==
  /\ ctlPc = "joinReq" /\ reqPc = "dead" /\ RespMutexFree
  /\ responses' = <<>> /\ finish_op /\ WakePoll
  /\ ctlPc' = "joinResp"
  /\ UNCHANGED <<appVars, queues, sendVars, genVars, heard, dropped, cancelling, netVars>>

releaseJoinResp ==
  /\ ctlPc = "joinResp" /\ respPc = "dead"
  /\ ctlPc' = "released"
  /\ UNCHANGED <<ctlVars, appVars, queues, responses, sendVars, genVars, pollVars,
                 cancelling, netVars>>

release == releaseBegin \/ releaseClose \/ releaseJoinReq \/ releaseJoinResp

-----------------------------------------------------------------------------
(* poll(): one turn of its loop, under resp_mutex_.                        *)

Hear(id, label) ==
  heard' = [i \in SpeechId |-> IF i = id THEN Append(heard[i], label) ELSE heard[i]]

Dead(op) == op.status \in {"CANCELLED", "ERROR"}

NothingToReturn ==
  operations # <<>> => ~Dead(operations[1]) /\ PopType(responses) = "EMPTY"

pollReleased ==
  /\ pollPc = "running" /\ RespMutexFree /\ ~initialized
  /\ pollPc' = "stopped"
  /\ UNCHANGED <<ctlVars, appVars, queues, responses, sendVars, genVars, heard, dropped,
                 runVars, netVars>>

(* It finds nothing, and then it sleeps: do_ctl_change_op may add an       *)
(* operation and notify in between, since it does not take resp_mutex_.    *)
pollLook ==
  /\ pollPc = "running" /\ RespMutexFree /\ initialized /\ NothingToReturn
  /\ pollPc' = "toSleep"
  /\ UNCHANGED <<ctlVars, appVars, queues, responses, sendVars, genVars, heard, dropped,
                 runVars, netVars>>

pollSleep ==
  /\ pollPc = "toSleep"
  /\ pollPc' = "asleep"
  /\ UNCHANGED <<ctlVars, appVars, queues, responses, sendVars, genVars, heard, dropped,
                 runVars, netVars>>

(* Mutant: the dead stream is popped once, and not erased before. *)
DeadRestPopped(s, id) == IF HasStream(s, id) THEN PopRest(s) ELSE s

DeadRest(s, id) == IF HasStream(s, id) THEN PopRest(Erase(s, id, 0)) ELSE s

pollDead ==
  /\ pollPc = "running" /\ RespMutexFree /\ initialized
  /\ operations # <<>> /\ Dead(operations[1])
  /\ LET op == operations[1] IN
     /\ responses' = DeadRest(responses, op.id)
     /\ Hear(op.id, op.status)
     /\ dropped' = dropped \ {op.id}
  /\ remove_front_op
  /\ UNCHANGED <<appVars, queues, sendVars, genVars, pollPc, runVars, netVars>>

(* poptype_to_restype, and asr_finish for the whole asr.                   *)
Label(item) == CASE item.type = "DATA"    -> item.res
                 [] item.type = "REMOVED" -> "CANCELLED"
                 [] OTHER                 -> item.type

pollItem ==
  /\ pollPc = "running" /\ RespMutexFree /\ initialized
  /\ operations # <<>> /\ ~Dead(operations[1]) /\ PopType(responses) # "EMPTY"
  /\ LET item == PopItem(responses) IN
     /\ responses' = PopRest(responses)
     /\ Hear(item.id, Label(item))
     /\ IF Label(item) \in Terminal
        THEN remove_front_op /\ dropped' = dropped \ {item.id}
        ELSE UNCHANGED <<ctlVars, dropped>>
  /\ UNCHANGED <<appVars, queues, sendVars, genVars, pollPc, runVars, netVars>>

poll == pollReleased \/ pollLook \/ pollSleep \/ pollDead \/ pollItem

-----------------------------------------------------------------------------
(* send_reqs(): the sending thread.                                        *)

NextReq == reqPc' = "top" /\ req' = NoRequest /\ seen' = 0

sendQuit ==
  /\ reqPc = "top" /\ ReqMutexFree /\ ~initialized
  /\ reqPc' = "dead"
  /\ UNCHANGED <<ctlVars, appVars, queues, responses, req, seen, genVars, pollVars,
                 runVars, netVars>>

Idle == PopType(voice_reqs) = "EMPTY" /\ text_reqs = <<>>

sendWait ==
  /\ reqPc = "top" /\ ReqMutexFree /\ initialized /\ Idle
  /\ reqPc' = "asleep"
  /\ UNCHANGED <<ctlVars, appVars, queues, responses, req, seen, genVars, pollVars,
                 runVars, netVars>>

(* sqtype_to_reqtype; a voice that failed is ended like any other.         *)
VoiceReq(item) ==
  Request(item.id,
          CASE item.type = "DATA"    -> "VOICE_DATA"
            [] item.type = "START"   -> "VOICE_START"
            [] item.type = "REMOVED" -> "CANCELLED"
            [] OTHER                 -> "VOICE_END",
          item.res)

(* Voices come first; a text goes when no voice has anything to send.      *)
sendTake ==
  /\ reqPc = "top" /\ ReqMutexFree /\ initialized /\ ~Idle
  /\ IF PopType(voice_reqs) # "EMPTY"
     THEN req' = VoiceReq(PopItem(voice_reqs)) /\ UNCHANGED text_reqs
     ELSE req' = Head(text_reqs) /\ text_reqs' = Tail(text_reqs)
  /\ voice_reqs' = PopRest(voice_reqs)
  /\ seen' = IF current = 0 THEN 0 ELSE operations[current].id
  /\ reqPc' = "change"
  /\ UNCHANGED <<ctlVars, appVars, responses, genVars, pollVars, runVars, netVars>>

(* do_ctl_change_op: a text or a voice becomes the current operation;      *)
(* "assert(op.get() == NULL)" stops the program otherwise ...              *)
changeStarts ==
  /\ reqPc = "change" /\ req.type \in {"TEXT", "VOICE_START"} /\ seen = 0
  /\ new_op(req.id, "START")
  /\ reqPc' = "send"
  /\ UNCHANGED <<appVars, queues, responses, req, seen, genVars, pollVars, runVars, netVars>>

(* ... the rest of a voice goes to the operation it found, if any ...      *)
changeContinues ==
  /\ reqPc = "change" /\ req.type \in {"VOICE_DATA", "VOICE_END"}
  /\ IF seen = 0 THEN NextReq ELSE reqPc' = "send" /\ UNCHANGED <<req, seen>>
  /\ UNCHANGED <<ctlVars, appVars, queues, responses, genVars, pollVars,
                 runVars, netVars>>

(* ... and so does a cancel, or it makes an operation of its own.          *)
changeCancels ==
  /\ reqPc = "change" /\ req.type = "CANCELLED"
  /\ IF seen = 0
     THEN new_op(req.id, "CANCELLED") /\ NextReq
     ELSE /\ operations' = [i \in 1 .. Len(operations) |->
                              IF Hit(seen, i) THEN [operations[i] EXCEPT !.status = "CANCELLED"]
                              ELSE operations[i]]
          /\ current' = 0 /\ UNCHANGED op_cond
          /\ reqPc' = "send" /\ UNCHANGED <<req, seen>>
  /\ WakePoll
  /\ UNCHANGED <<appVars, queues, responses, genVars, heard, dropped, runVars,
                 netVars>>

(* do_request: connection_.send() succeeds, and the server has the message *)
(* or, with ws_ NULL, nobody has ...                                       *)
Message == [id |-> req.id, data |-> req.data,
            type |-> IF req.type = "CANCELLED" THEN "VOICE_END" ELSE req.type]

sendDone(lost) ==
  /\ reqPc = "send" /\ linkUp /\ (lost => "lost" \in Faults)
  /\ reqPc' = "sent"
  /\ wire' = IF lost THEN wire ELSE Append(wire, Message)
  /\ UNCHANGED <<ctlVars, appVars, queues, responses, req, seen, genVars, pollVars,
                 runVars, linkUp, inbox, answered>>

(* ... or it fails, and erase_req() is called under resp_mutex_.           *)
sendFails ==
  /\ reqPc = "send" /\ ("sendFails" \in Faults \/ ~linkUp) /\ RespMutexFree
  /\ set_op_error("SERVICE_UNAVAILABLE") /\ WakePoll
  /\ reqPc' = "failed"
  /\ UNCHANGED <<appVars, queues, responses, req, seen, genVars, heard, dropped, runVars,
                 netVars>>

(* Mutant: the voice is erased as by cancel(). *)
EraseReqPlain(id) == voice_reqs' = Erase(voice_reqs, id, 0)

EraseReq(id) == voice_reqs' = Erase(voice_reqs, id, SPEECH_TIMEOUT)

sendErase ==
  /\ reqPc = "failed" /\ ReqMutexFree
  /\ EraseReq(req.id)
  /\ NextReq
  /\ UNCHANGED <<ctlVars, appVars, text_reqs, responses, genVars, pollVars,
                 runVars, netVars>>

sendRefresh ==
  /\ reqPc = "sent" /\ RespMutexFree
  /\ refresh_op_time(FALSE)
  /\ IF req.type \in {"TEXT", "VOICE_END"} THEN reqPc' = "waitOp" /\ UNCHANGED <<req, seen>>
                                           ELSE NextReq
  /\ UNCHANGED <<appVars, queues, responses, genVars, pollVars, runVars, netVars>>

(* Mutant: the thread does not wait for its request. *)
sendWaitNot ==
  /\ reqPc = "waitOp"
  /\ NextReq
  /\ UNCHANGED <<ctlVars, appVars, queues, responses, genVars, pollVars, runVars, netVars>>

sendWaitOp ==
  /\ reqPc = "waitOp" /\ RespMutexFree
  /\ IF IsCurrent(req.id) THEN op_cond' = TRUE /\ reqPc' = "inOp" /\ UNCHANGED <<req, seen>>
                          ELSE NextReq /\ UNCHANGED op_cond
  /\ UNCHANGED <<operations, current, appVars, queues, responses, genVars, pollVars,
                 runVars, netVars>>

sendAwake ==
  /\ reqPc = "inOp" /\ ~op_cond /\ RespMutexFree
  /\ NextReq
  /\ UNCHANGED <<ctlVars, appVars, queues, responses, genVars, pollVars, runVars, netVars>>

do_ctl_change_op == changeStarts \/ changeContinues \/ changeCancels
do_request == (\E lost \in BOOLEAN : sendDone(lost)) \/ sendFails \/ sendErase \/ sendRefresh
send_reqs == sendQuit \/ sendWait \/ sendTake \/ do_ctl_change_op \/ do_request
               \/ sendWaitOp \/ sendAwake

-----------------------------------------------------------------------------
(* gen_results(): the receiving thread.                                    *)

NextResp == respPc' = "timeout" /\ rx' = NoResponse

genTimeout ==
  /\ respPc = "timeout" /\ RespMutexFree
  /\ respTimed' = ~Expired /\ respPc' = "recv"
  /\ UNCHANGED <<ctlVars, appVars, queues, responses, sendVars, rx, pollVars, runVars,
                 netVars>>

recvPacket ==
  /\ respPc \in {"recv", "awake"} /\ inbox # <<>>
  /\ rx' = Head(inbox) /\ inbox' = Tail(inbox)
  /\ respPc' = "handle" /\ respTimed' = FALSE
  /\ UNCHANGED <<ctlVars, appVars, queues, responses, sendVars, pollVars, runVars, linkUp,
                 wire, answered>>

recvWait ==
  /\ respPc = "recv" /\ inbox = <<>>
  /\ respPc' = "asleep"
  /\ UNCHANGED <<ctlVars, appVars, queues, responses, sendVars, respTimed, rx, pollVars,
                 runVars, netVars>>

recvTimer ==
  /\ respPc = "asleep" /\ respTimed
  /\ respPc' = "awake" /\ respTimed' = FALSE
  /\ UNCHANGED <<ctlVars, appVars, queues, responses, sendVars, rx, pollVars, runVars,
                 netVars>>

recvNothing ==
  /\ respPc = "awake" /\ inbox = <<>>
  /\ IF linkUp THEN respPc' = "handle" /\ rx' = [NoResponse EXCEPT !.kind = "timeout"]
               ELSE respPc' = "dead" /\ UNCHANGED rx
  /\ UNCHANGED <<ctlVars, appVars, queues, responses, sendVars, respTimed, pollVars,
                 runVars, netVars>>

(* gen_result_by_resp: the stream of a response, the last part included;   *)
(* a failure of the server erases what is not polled yet.                  *)
PutAll(s, id, ds) ==
  [i \in 1 .. Len(s) |-> IF s[i].id = id /\ s[i].type = "uncompleted"
                         THEN [s[i] EXCEPT !.data = @ \o ds] ELSE s[i]]

Streamed(op) ==
  LET started == IF op.status = "START" THEN Start(responses, rx.id) ELSE responses
      filled  == PutAll(started, rx.id, Parts(rx))
  IN  CASE rx.type = "FINISH" -> End(filled, rx.id, "nlp")
        [] rx.type = "FAIL"   -> Erase(filled, rx.id, SPEECH_SERVER_INTERNAL)
        [] OTHER              -> filled

Last(r) == r.type \in {"FINISH", "FAIL"}

Answers == IsCurrent(rx.id) /\ ~Dead(operations[current])

(* An invalid type returns before the notify.                              *)
genAnswer ==
  /\ respPc = "handle" /\ rx.kind = "data" /\ RespMutexFree /\ Answers
  /\ responses' = Streamed(operations[current])
  /\ operations' = [operations EXCEPT ![current] =
                      [Refreshed(@, TRUE) EXCEPT
                         !.status = IF Last(rx) THEN "END" ELSE "STREAMING"]]
  /\ current' = IF Last(rx) THEN 0 ELSE current
  /\ op_cond' = (op_cond /\ ~Last(rx))
  /\ IF Last(rx) \/ rx.type = "OTHER" THEN UNCHANGED pollPc ELSE WakePoll
  /\ IF Last(rx) THEN respPc' = "finish" /\ UNCHANGED rx ELSE NextResp
  /\ UNCHANGED <<appVars, queues, sendVars, respTimed, heard, dropped, runVars, netVars>>

(* erase_req() under resp_mutex_, and only then the notify.                *)
genFinish ==
  /\ respPc = "finish" /\ ReqMutexFree
  /\ EraseReq(rx.id)
  /\ IF HasStream(voice_reqs, rx.id) THEN WakeReq ELSE UNCHANGED reqPc
  /\ WakePoll
  /\ NextResp
  /\ UNCHANGED <<ctlVars, appVars, text_reqs, responses, req, seen, respTimed, heard,
                 dropped, runVars, netVars>>

genStale ==
  /\ respPc = "handle" /\ rx.kind = "data" /\ RespMutexFree /\ ~Answers
  /\ refresh_op_time(TRUE)
  /\ NextResp
  /\ UNCHANGED <<appVars, queues, responses, sendVars, respTimed, pollVars, runVars, netVars>>

(* TIMEOUT fails the operation only if its own time is over, the other     *)
(* errors always do; erase_req() is called after the unlock.               *)
ErrorOf(kind) == CASE kind = "timeout" -> "TIMEOUT"
                   [] kind = "broken"  -> "SERVICE_UNAVAILABLE"
                   [] OTHER            -> "UNKNOWN"

genError ==
  /\ respPc = "handle" /\ rx.kind # "data" /\ RespMutexFree
  /\ IF rx.kind = "timeout" /\ ~Expired
     THEN UNCHANGED <<ctlVars, pollPc>> /\ NextResp
     ELSE /\ set_op_error(ErrorOf(rx.kind)) /\ WakePoll
          /\ IF current = 0 THEN NextResp
             ELSE respPc' = "erase" /\ rx' = [NoResponse EXCEPT !.id = operations[current].id]
  /\ UNCHANGED <<appVars, queues, responses, sendVars, respTimed, heard, dropped, runVars,
                 netVars>>

genErase ==
  /\ respPc = "erase" /\ ReqMutexFree
  /\ EraseReq(rx.id)
  /\ IF HasStream(voice_reqs, rx.id) THEN WakeReq ELSE UNCHANGED reqPc
  /\ NextResp
  /\ UNCHANGED <<ctlVars, appVars, text_reqs, responses, req, seen, respTimed, pollVars,
                 runVars, netVars>>

gen_results == genTimeout \/ recvPacket \/ recvWait \/ recvTimer \/ recvNothing
                 \/ genAnswer \/ genFinish \/ genStale \/ genError \/ genErase

-----------------------------------------------------------------------------
(* The server answers any request whose first message it has; it may do so *)
(* before the end of a voice, of which it detects the end itself.          *)

Deliver(p) == inbox' = Append(inbox, p) /\ WakeRecv

Has(id, types) == \E i \in 1 .. Len(wire) : wire[i].id = id /\ wire[i].type \in types

serverAnswers(i) ==
  /\ linkUp /\ Has(i, {"TEXT", "VOICE_START"}) /\ ~answered[i].done
  /\ Len(inbox) < MaxInbox
  /\ \E type \in RespType, extra \in BOOLEAN :
       LET r == Response("data", i, type, extra)
           parts == answered[i].parts \o Parts(r) IN
       /\ type \in {"FAIL", "OTHER"} => type \in Faults
       /\ Len(parts) <= MaxItems
       /\ ~Last(r) => parts # answered[i].parts
       /\ Deliver(r)
       /\ answered' = [answered EXCEPT ![i] = [parts |-> parts, done |-> Last(r)]]
  /\ UNCHANGED <<ctlVars, appVars, queues, responses, sendVars, rx, pollVars, runVars,
                 linkUp, wire>>

linkError(k) ==
  /\ k \in Faults /\ linkUp /\ Len(inbox) < MaxInbox
  /\ Deliver([NoResponse EXCEPT !.kind = k])
  /\ UNCHANGED <<ctlVars, appVars, queues, responses, sendVars, rx, pollVars, runVars,
                 linkUp, wire, answered>>

(* A voice that keeps being sent is never idle, but may be silent.         *)
clock ==
  /\ \/ GrowsIdle
     \/ current # 0 /\ operations[current].calc /\ GrowsSilent
  /\ UNCHANGED <<appVars, queues, responses, sendVars, genVars, pollVars, runVars, netVars>>

Next ==
  \/ prepare \/ release \/ cancel
  \/ \E c \in Callers : textRead(c) \/ textStore(c) \/ textQueue(c)
  \/ start_voice
  \/ \E id \in SpeechId : put_voice(id) \/ end_voice(id) \/ serverAnswers(id)
  \/ poll \/ send_reqs \/ gen_results
  \/ \E k \in {"broken", "badData"} : linkError(k)
  \/ clock

Spec == Init /\ [][Next]_vars

(* Every thread runs on and gets the mutex it waits for, time passes, the  *)
(* application leaves put_text(), cancel() and release() and ends the      *)
(* voices it has started, and the server finishes its answer to a whole    *)
(* request, between the errors of the link.                                *)
GoesOn ==
  \/ \E c \in Callers : textStore(c) \/ textQueue(c)
  \/ \E i \in SpeechId : AcceptsData(voice_reqs, i) /\ end_voice(i)
  \/ releaseClose \/ releaseJoinReq \/ releaseJoinResp

Finishes == \E i \in SpeechId : Has(i, {"TEXT", "VOICE_END"}) /\ serverAnswers(i)

Fairness == /\ SF_vars(poll) /\ SF_vars(send_reqs) /\ SF_vars(gen_results)
            /\ WF_vars(clock) /\ SF_vars(cancelOps) /\ SF_vars(GoesOn) /\ SF_vars(Finishes)

FairSpec == Spec /\ Fairness

-----------------------------------------------------------------------------
(* Properties.                                                             *)

TypeOK ==
  /\ operations \in Seq(Operation(SpeechId, Errors))
  /\ current \in 0 .. Len(operations) /\ op_cond \in BOOLEAN
  /\ initialized \in BOOLEAN /\ linkUp \in BOOLEAN /\ next_id \in 0 .. MaxId
  /\ \A e \in entering : e.by \in Callers /\ e.id \in SpeechId
  /\ text_reqs \in Seq([id : SpeechId, type : {"TEXT", "CANCELLED"}, data : {NoData}])
  /\ voice_reqs \in Seq(Stream(SpeechId, 1 .. MaxChunks, {SPEECH_TIMEOUT}))
  /\ responses \in Seq(Stream(SpeechId, Part, {SPEECH_SERVER_INTERNAL}))
  /\ req.id \in SpeechId \cup {0} /\ req.type \in ReqType /\ seen \in SpeechId \cup {0}
  /\ reqPc \in {"dead", "top", "asleep", "change", "send", "failed", "sent", "waitOp", "inOp"}
  /\ reqPc \in {"dead", "top", "asleep"} <=> req.id = 0
  /\ respPc \in {"dead", "timeout", "recv", "asleep", "awake", "handle", "finish", "erase"}
  /\ respPc \in {"finish", "erase"} => rx.id # 0
  /\ pollPc \in {"stopped", "running", "toSleep", "asleep"}
  /\ ctlPc \in {"new", "idle", "closing", "joinReq", "joinResp", "released"}

(* "assert(op.get() == NULL)" (speech_impl.cc:416): when a text or a voice *)
(* is sent, no other is in the middle of being sent or answered.           *)
StartsAlone == reqPc = "change" /\ req.type \in {"TEXT", "VOICE_START"} => seen = 0

(* The rest of a voice, or its cancel, reaches the operation of that voice *)
(* and no other: do_ctl_change_op (speech_impl.cc:420-431) never compares  *)
(* the id of the request with that of the operation it continues or ends.  *)
OwnOperation == reqPc = "change" /\ seen # 0 => seen = req.id

(* The asserts of poll() (speech_impl.cc:287,300,313): what it takes from  *)
(* responses_ belongs to the front operation, although operations are      *)
(* added without resp_mutex_ and end in five ways.                         *)
PollAsserts ==
  initialized /\ operations # <<>> =>
    LET mine == responses # <<>> /\ responses[1].id = operations[1].id IN
    IF Dead(operations[1]) THEN HasStream(responses, operations[1].id) => mine
    ELSE PopType(responses) # "EMPTY" => mine

(* "wait current op finish" (op_ctl.h:59): the unfinished operation is the *)
(* current one, and there is never a second one.                           *)
OneInFlight ==
  \A i \in 1 .. Len(operations) :
    operations[i].status \in {"START", "STREAMING"} <=> current = i

MayCancel(id) == Cancels \cap {0, id} # {}

(* The server receives one request after the other and of a voice its      *)
(* start, its packets in the order they were put and then one end: after   *)
(* all of them, unless the voice is cancelled. A request that fails is     *)
(* cut short and has no end (speech_impl.cc:373-379,397,420-439,545,582).  *)
LastOf(a) == IF a.type = "VOICE_START" THEN 0 ELSE a.data

Follows(a, b) ==
  IF a.id # b.id THEN a.id < b.id /\ b.type \in {"TEXT", "VOICE_START"}
  ELSE /\ a.type \in {"VOICE_START", "VOICE_DATA"}
       /\ CASE b.type = "VOICE_DATA" -> b.data = LastOf(a) + 1
            [] b.type = "VOICE_END"  -> LastOf(a) = spoken[a.id] \/ MayCancel(a.id)
            [] OTHER                 -> FALSE

UplinkOrder == \A i \in 1 .. Len(wire) - 1 : Follows(wire[i], wire[i + 1])

HasEnded(h) == \E i \in 1 .. Len(h) : h[i] \in Terminal

(* A request is never lost: until it ends it is in a queue, in the hands   *)
(* of the sending thread, or an operation (speech_impl.cc:156,167,382,417, *)
(* 433,438), whatever is cancelled, fails or is refused on the way.        *)
NoRequestLost ==
  initialized =>
    \A i \in 1 .. next_id :
      \/ \E e \in entering : e.id = i
      \/ i \in QueuedTexts \/ HasStream(voice_reqs, i)
      \/ reqPc = "change" /\ req.id = i
      \/ i \in OpIds \/ HasEnded(heard[i])

(* END is "completly speech result" (speech.h:39): a request that ends so  *)
(* was started once, and was given every part of the answer in order.      *)
ResultsComplete ==
  \A i \in SpeechId :
    HasEnded(heard[i]) /\ heard[i][Len(heard[i])] = "END" =>
      heard[i] = <<"START">> \o answered[i].parts \o <<"END">>

(* A request nobody cancels has one terminal result, the last one: the     *)
(* binding forgets the request there (Speech.java:115-137).                *)
OneTerminal ==
  \A i \in SpeechId :
    MayCancel(i) \/ \A j \in 1 .. Len(heard[i]) - 1 : heard[i][j] \notin Terminal

(* After cancel(id) has returned, poll() only returns CANCELLED for that   *)
(* request, wherever it was (speech_impl.cc:205-236, op_ctl.h:68-85).      *)
CancelHonoured ==
  [][\A i \in dropped : heard'[i] # heard[i] => heard'[i] = Append(heard[i], "CANCELLED")]_vars

(* "block current thread if no result available" (speech.h:114): poll()    *)
(* is woken for every result.                                              *)
PollWoken == pollPc = "asleep" /\ initialized /\ respPc # "finish" => NothingToReturn

(* No thread sleeps on work (speech_impl.cc:339,383-398, recv()), but for  *)
(* poll() on the CANCELLED of a request, which PollWoken is about.         *)
SleepersIdle ==
  /\ PollWoken \/ Head(operations).status = "CANCELLED"
  /\ reqPc = "asleep" /\ ctlPc # "closing" => initialized /\ Idle
  /\ reqPc = "inOp" /\ op_cond => IsCurrent(req.id)
  /\ respPc = "asleep" => inbox = <<>>

(* "block current thread if no result available" (speech.h:114): a thread  *)
(* that keeps poll() out of resp_mutex_ does not wait for one that waits   *)
(* for resp_mutex_.                                                        *)
NoEmbrace == cancelling # {} => respPc # "finish" /\ reqPc # "failed"

(* "no data send to server" (speech_impl.cc:434): a request that becomes   *)
(* an operation only to be reported as cancelled was not sent.             *)
CancelledUnsent ==
  reqPc = "change" /\ req.type = "CANCELLED" /\ seen = 0 =>
    ~Has(req.id, {"TEXT", "VOICE_START"})

(* Every request ends, as long as the client polls and does not release.   *)
EveryRequestEnds ==
  \A i \in SpeechId : (initialized /\ i <= next_id) ~> (~initialized \/ HasEnded(heard[i]))

(* "if Speech.release() invoked, poll() will return false" (speech.h:115). *)
PollReturnsOnRelease == (ctlPc = "closing") ~> (pollPc = "stopped")

=============================================================================
