------------------------------- MODULE TtsImpl -------------------------------
(***************************************************************************)
(* The text-to-speech half of the speech SDK (src/tts/tts_impl.cc): the    *)
(* application calls prepare, speak, cancel and release; one thread sends  *)
(* the requests one at a time (send_reqs), one turns the answers of the    *)
(* server into results (gen_results), and the application's polling thread *)
(* takes the results (poll).                                               *)
(*                                                                         *)
(* An action is one critical section.  req_mutex_ and resp_mutex_ are      *)
(* always taken in this order and released together, so that a section     *)
(* under both is one action; req_mutex_ is held across blocking work only  *)
(* by release(), which the control state "closing" stands for.  A thread   *)
(* asleep in a condition variable is marked as such and is made runnable   *)
(* by the code that notifies that variable.                                *)
(*                                                                         *)
(* SpeechConnection is external here: send() succeeds (the request then    *)
(* reaches the server, or is lost when the socket is gone) or fails, and   *)
(* recv() hands out what the server sent, in order.                        *)
(***************************************************************************)
EXTENDS OpCtl, StreamFifo, FiniteSets

CONSTANTS
  Callers,      (* application threads that call speak()                   *)
  MaxId,        (* bound on the requests of one session                    *)
  MaxChunks,    (* bound on the voice packets of one answer                *)
  MaxInbox,     (* bound on the packets received and not handled           *)
  MaxSessions,  (* bound on the number of prepare() calls                  *)
  Releases,     (* does the application call release()?                    *)
  Faults        (* of "sendFails", "lost", "broken", "badData", "spurious" *)

ASSUME TtsAssumption ==
  /\ MaxId \in Nat /\ MaxChunks \in Nat /\ MaxInbox \in Nat /\ MaxSessions \in Nat
  /\ Releases \in BOOLEAN
  /\ NoData \notin Nat

VARIABLES
  initialized, next_id, requests, responses,
  req,        (* send_reqs: the request in hand, 0 for none                *)
  reqPc, respPc, pollPc, ctlPc,
  respTimed,  (* gen_results: recv() was given a non-zero timeout          *)
  rx,         (* gen_results: what recv() returned                         *)
  speaking,   (* callers between the test and the lock in speak()          *)
  linkUp,     (* the connection's stage is not RELEASED                    *)
  inbox,      (* SpeechConnection::responses_                              *)
  answered,   (* the server: what it has sent for each id it knows         *)
  session,    (* number of prepare() calls that took effect                *)
  heard,      (* what poll() has returned for each id of this session      *)
  dropped     (* ids cancel() was called on, not yet terminated            *)

appVars  == <<initialized, next_id, requests, speaking, session, dropped>>
reqVars  == <<req, reqPc>>
respVars == <<respPc, respTimed, rx>>
netVars  == <<linkUp, inbox, answered>>
pollVars == <<pollPc, heard>>

vars == <<operations, current, op_cond, initialized, next_id, requests, responses,
          req, reqPc, respPc, pollPc, ctlPc, respTimed, rx, speaking,
          linkUp, inbox, answered, session, heard, dropped>>

TtsId  == 1 .. MaxId
Errors == {"SERVICE_UNAVAILABLE", "TIMEOUT", "UNKNOWN"}

(* A packet: a TtsResponse, or what recv() reports as an error.            *)
NoVoice == 0
NoResponse == [kind |-> "none", id |-> 0, voice |-> NoVoice, finish |-> FALSE]
Response == [kind : {"none", "data", "badData", "broken", "timeout"},
             id : TtsId \cup {0}, voice : 0 .. MaxChunks, finish : BOOLEAN]
Error(k) == [NoResponse EXCEPT !.kind = k]

(* A TtsResult; NoData and an id are enough to tell results apart.         *)
Result(type, voice, err) == [type |-> type, voice |-> voice, err |-> err]
Terminal == {"END", "CANCELLED", "ERROR"}

ReqMutexFree == ctlPc # "closing"

-----------------------------------------------------------------------------
Init ==
  /\ CtlInit
  /\ initialized = FALSE /\ next_id = 0 /\ requests = <<>> /\ responses = <<>>
  /\ req = 0 /\ reqPc = "dead"
  /\ respPc = "dead" /\ respTimed = FALSE /\ rx = NoResponse
  /\ pollPc = "stopped" /\ ctlPc = "idle" /\ speaking = {}
  /\ linkUp = FALSE /\ inbox = <<>> /\ answered = [i \in {} |-> 0]
  /\ session = 0 /\ heard = [i \in TtsId |-> <<>>] /\ dropped = {}

(* Mutant: nobody notifies resp_cond_. *)
WakePollNever == UNCHANGED pollPc

(* Waking the sleepers of req_cond_, resp_cond_ and the connection. *)
WakeReq  == reqPc'  = IF reqPc = "asleep" THEN "top" ELSE reqPc
WakePoll == pollPc' = IF pollPc = "asleep" THEN "running" ELSE pollPc
WakeRecv == IF respPc = "asleep" THEN respPc' = "awake" /\ respTimed' = FALSE
            ELSE UNCHANGED <<respPc, respTimed>>

-----------------------------------------------------------------------------
(* The application.                                                        *)

prepare ==
  /\ ctlPc = "idle" /\ ~initialized /\ pollPc = "stopped"
  /\ session < MaxSessions
  /\ next_id' = 0
  /\ initialized' = TRUE
  /\ linkUp' = TRUE /\ answered' = [i \in {} |-> 0]
  /\ reqPc' = "top" /\ respPc' = "timeout" /\ pollPc' = "running"
  /\ session' = session + 1
  /\ heard' = [i \in TtsId |-> <<>>] /\ dropped' = {}
  /\ UNCHANGED <<ctlVars, requests, responses, req, ctlPc, respTimed, rx,
                 speaking, inbox>>

(* speak() reads initialized_ before it takes req_mutex_ ... *)
speakTest(c) ==
  /\ c \notin speaking
  /\ initialized
  /\ speaking' = speaking \cup {c}
  /\ UNCHANGED <<ctlVars, initialized, next_id, requests, responses, reqVars,
                 respVars, pollVars, ctlPc, netVars, session, dropped>>

(* ... and queues the request under it. *)
speakQueue(c) ==
  /\ c \in speaking /\ ReqMutexFree
  /\ next_id < MaxId
  /\ speaking' = speaking \ {c}
  /\ next_id' = next_id + 1
  /\ requests' = Append(requests, [id |-> next_id + 1, deleted |-> FALSE])
  /\ WakeReq
  /\ UNCHANGED <<ctlVars, initialized, responses, req, respVars, pollVars, ctlPc,
                 netVars, session, dropped>>

QueuedIds == {requests[i].id : i \in 1 .. Len(requests)}
OpIds == {operations[i].id : i \in 1 .. Len(operations)}

(* cancel(id); id = 0 stands for every id <= 0. *)
cancel(id) ==
  /\ ReqMutexFree /\ initialized
  /\ id <= next_id
  /\ requests' = [i \in 1 .. Len(requests) |->
                    IF id = 0 \/ requests[i].id = id
                    THEN [requests[i] EXCEPT !.deleted = TRUE] ELSE requests[i]]
  /\ IF id = 0 \/ id \notin QueuedIds
     THEN /\ cancel_op(id)
          /\ IF CancelsCurrent(id) THEN WakePoll ELSE UNCHANGED pollPc
     ELSE UNCHANGED <<ctlVars, pollPc>>
  /\ dropped' = dropped \cup
                  {i \in QueuedIds \cup OpIds : id = 0 \/ i = id}
  /\ UNCHANGED <<initialized, next_id, responses, reqVars, respVars, ctlPc,
                 speaking, netVars, session, heard>>

(* release(): under req_mutex_, initialized_ is reset and the connection   *)
(* closed; then the sending thread is joined; then the results are dropped *)
(* under resp_mutex_ and the receiving thread is joined.                   *)
releaseBegin ==
  /\ Releases /\ ctlPc = "idle" /\ initialized
  /\ initialized' = FALSE
  /\ ctlPc' = "closing"
  /\ UNCHANGED <<ctlVars, next_id, requests, responses, reqVars, respVars, pollVars,
                 speaking, netVars, session, dropped>>

releaseClose ==
  /\ ctlPc = "closing"
  /\ linkUp' = FALSE /\ WakeRecv
  /\ requests' = <<>>
  /\ WakeReq
  /\ ctlPc' = "joinReq"
  /\ UNCHANGED <<ctlVars, initialized, next_id, responses, req, rx, pollVars,
                 speaking, inbox, answered, session, dropped>>

releaseJoinReq ==
  /\ ctlPc = "joinReq" /\ reqPc = "dead"
  /\ responses' = <<>>
  /\ finish_op
  /\ WakePoll
  /\ ctlPc' = "joinResp"
  /\ UNCHANGED <<appVars, reqVars, respVars, heard, netVars>>

releaseJoinResp ==
  /\ ctlPc = "joinResp" /\ respPc = "dead"
  /\ ctlPc' = "idle"
  /\ UNCHANGED <<ctlVars, appVars, responses, reqVars, respVars, pollVars, netVars>>

-----------------------------------------------------------------------------
(* poll(): one turn of its loop.                                           *)

Hear(id, r) == heard' = [i \in TtsId |-> IF i = id THEN Append(heard[i], r) ELSE heard[i]]

pollReleased ==
  /\ pollPc = "running" /\ ~initialized
  /\ pollPc' = "stopped"
  /\ UNCHANGED <<ctlVars, appVars, responses, reqVars, respVars, ctlPc, netVars, heard>>

(* Nothing to return: no operation, or the front one has no result yet. *)
NothingToReturn ==
  operations # <<>> => /\ operations[1].status \notin {"CANCELLED", "ERROR"}
                       /\ PopType(responses) = "EMPTY"

pollWait ==
  /\ pollPc = "running" /\ initialized
  /\ NothingToReturn
  /\ pollPc' = "asleep"
  /\ UNCHANGED <<ctlVars, appVars, responses, reqVars, respVars, ctlPc, netVars, heard>>

(* Mutant: the dead stream is popped once, and not erased before. *)
DeadRestPopped(s, id) == IF HasStream(s, id) THEN PopRest(s) ELSE s

(* The front operation was cancelled or failed: what is left of its stream *)
(* is thrown away.                                                         *)
DeadRest(s, id) == IF HasStream(s, id) THEN PopRest(Erase(s, id, 0)) ELSE s

pollDead ==
  /\ pollPc = "running" /\ initialized
  /\ operations # <<>> /\ operations[1].status \in {"CANCELLED", "ERROR"}
  /\ LET op == operations[1] IN
     /\ responses' = DeadRest(responses, op.id)
     /\ Hear(op.id, Result(op.status, NoVoice,
                           IF op.status = "ERROR" THEN op.error ELSE NoError))
     /\ dropped' = dropped \ {op.id}
  /\ remove_front_op
  /\ UNCHANGED <<initialized, next_id, requests, speaking, session, reqVars,
                 respVars, pollPc, ctlPc, netVars>>

pollItem ==
  /\ pollPc = "running" /\ initialized
  /\ operations # <<>> /\ operations[1].status \notin {"CANCELLED", "ERROR"}
  /\ PopType(responses) # "EMPTY"
  /\ LET item == PopItem(responses) IN
     /\ responses' = PopRest(responses)
     /\ Hear(item.id, Result(item.type, IF item.type = "DATA" THEN item.res ELSE NoVoice,
                             NoError))
     /\ IF item.type = "END"
        THEN remove_front_op /\ dropped' = dropped \ {item.id}
        ELSE UNCHANGED <<ctlVars, dropped>>
  /\ UNCHANGED <<initialized, next_id, requests, speaking, session, reqVars,
                 respVars, pollPc, ctlPc, netVars>>

poll == pollReleased \/ pollWait \/ pollDead \/ pollItem

-----------------------------------------------------------------------------
(* send_reqs(): the sending thread.                                        *)

sendQuit ==
  /\ reqPc = "top" /\ ReqMutexFree /\ ~initialized
  /\ reqPc' = "dead"
  /\ UNCHANGED <<ctlVars, appVars, responses, req, respVars, pollVars, ctlPc, netVars>>

sendWait ==
  /\ reqPc = "top" /\ ReqMutexFree /\ initialized /\ requests = <<>>
  /\ reqPc' = "asleep"
  /\ UNCHANGED <<ctlVars, appVars, responses, req, respVars, pollVars, ctlPc, netVars>>

(* do_ctl_new_op: the request becomes the current operation, or, cancelled *)
(* while it was queued, an operation with nothing to send.                 *)
sendTake ==
  /\ reqPc = "top" /\ ReqMutexFree /\ initialized /\ requests # <<>>
  /\ requests' = Tail(requests)
  /\ LET r == requests[1] IN
     IF r.deleted
     THEN /\ new_op(r.id, "CANCELLED") /\ WakePoll
          /\ UNCHANGED reqVars
     ELSE /\ new_op(r.id, "START")
          /\ req' = r.id /\ reqPc' = "send"
          /\ UNCHANGED pollPc
  /\ UNCHANGED <<initialized, next_id, speaking, session, dropped, responses,
                 respVars, heard, ctlPc, netVars>>

(* connection_.send() returns SUCCESS: the server has the request ... *)
sendDone ==
  /\ reqPc = "send" /\ linkUp
  /\ reqPc' = "sent"
  /\ answered' = [i \in DOMAIN answered \cup {req} |->
                    IF i = req THEN [sent |-> 0, done |-> FALSE] ELSE answered[i]]
  /\ UNCHANGED <<ctlVars, appVars, responses, req, respVars, pollVars, ctlPc,
                 linkUp, inbox>>

(* ... or ws_ was NULL by then and the request went nowhere. *)
sendLost ==
  /\ "lost" \in Faults
  /\ reqPc = "send" /\ linkUp
  /\ reqPc' = "sent"
  /\ UNCHANGED <<ctlVars, appVars, responses, req, respVars, pollVars, ctlPc, netVars>>

(* No connection within WS_SEND_TIMEOUT, always so once it is released. *)
sendFails ==
  /\ reqPc = "send" /\ ("sendFails" \in Faults \/ ~linkUp)
  /\ set_op_error("SERVICE_UNAVAILABLE")
  /\ WakePoll
  /\ reqPc' = "top" /\ req' = 0
  /\ UNCHANGED <<appVars, responses, respVars, heard, ctlPc, netVars>>

sendRefresh ==
  /\ reqPc = "sent"
  /\ refresh_op_time(FALSE)
  /\ reqPc' = "waitOp"
  /\ UNCHANGED <<appVars, responses, req, respVars, pollVars, ctlPc, netVars>>

(* Mutant: the thread does not wait for its request. *)
sendWaitNot ==
  /\ reqPc = "waitOp"
  /\ reqPc' = "top" /\ req' = 0
  /\ UNCHANGED <<ctlVars, appVars, responses, respVars, pollVars, ctlPc, netVars>>

(* wait_op_finish: sleep in op_cond_ if the request is still current. *)
sendWaitOp ==
  /\ reqPc = "waitOp"
  /\ IF IsCurrent(req)
     THEN op_cond' = TRUE /\ reqPc' = "inOp" /\ UNCHANGED req
     ELSE reqPc' = "top" /\ req' = 0 /\ UNCHANGED op_cond
  /\ UNCHANGED <<operations, current, appVars, responses, respVars, pollVars, ctlPc,
                 netVars>>

sendAwake ==
  /\ reqPc = "inOp"
  /\ ~op_cond \/ "spurious" \in Faults
  /\ op_cond' = FALSE
  /\ reqPc' = "top" /\ req' = 0
  /\ UNCHANGED <<operations, current, appVars, responses, respVars, pollVars, ctlPc,
                 netVars>>

send_reqs == sendQuit \/ sendWait \/ sendTake \/ sendDone \/ sendLost \/ sendFails
               \/ sendRefresh \/ sendWaitOp \/ sendAwake

-----------------------------------------------------------------------------
(* gen_results(): the receiving thread.                                    *)

genTimeout ==
  /\ respPc = "timeout"
  /\ respTimed' = ~Expired
  /\ respPc' = "recv"
  /\ UNCHANGED <<ctlVars, appVars, responses, reqVars, rx, pollVars, ctlPc, netVars>>

(* recv() finds a packet, at once or when it is woken. *)
recvPacket ==
  /\ respPc \in {"recv", "awake"} /\ inbox # <<>>
  /\ rx' = Head(inbox) /\ inbox' = Tail(inbox)
  /\ respPc' = "handle" /\ respTimed' = FALSE
  /\ UNCHANGED <<ctlVars, appVars, responses, reqVars, pollVars, ctlPc, linkUp,
                 answered>>

recvWait ==
  /\ respPc = "recv" /\ inbox = <<>>
  /\ respPc' = "asleep"
  /\ UNCHANGED <<ctlVars, appVars, responses, reqVars, respTimed, rx, pollVars, ctlPc,
                 netVars>>

(* wait_for() ends by itself; a timeout of 0 is wait(), which does not. *)
recvTimer ==
  /\ respPc = "asleep" /\ (respTimed \/ "spurious" \in Faults)
  /\ respPc' = "awake" /\ respTimed' = FALSE
  /\ UNCHANGED <<ctlVars, appVars, responses, reqVars, rx, pollVars, ctlPc, netVars>>

(* Awake with nothing received: NOT_READY ends the thread, else TIMEOUT. *)
recvNothing ==
  /\ respPc = "awake" /\ inbox = <<>>
  /\ IF linkUp THEN respPc' = "handle" /\ rx' = Error("timeout")
               ELSE respPc' = "dead" /\ UNCHANGED rx
  /\ UNCHANGED <<ctlVars, appVars, responses, reqVars, respTimed, pollVars, ctlPc,
                 netVars>>

(* Mutant: a null voice is queued like any other. *)
VoicedAlways(s, resp) == Put(s, resp.id, resp.voice)

Voiced(s, resp) == IF resp.voice # NoVoice THEN Put(s, resp.id, resp.voice) ELSE s

(* gen_result_by_resp on the current operation's stream. *)
Answer(resp) ==
  LET op      == operations[current]
      started == IF op.status = "START" THEN Start(responses, resp.id) ELSE responses
      voiced  == Voiced(started, resp)
      opened  == IF op.status = "START" THEN "STREAMING" ELSE op.status
  IN  /\ responses' = IF resp.finish THEN End(voiced, resp.id, NoData) ELSE voiced
      /\ operations' = [operations EXCEPT ![current] =
                          [Refreshed(@, TRUE) EXCEPT
                             !.status = IF resp.finish THEN Finished("END") ELSE opened]]
      /\ current' = IF resp.finish THEN 0 ELSE current
      /\ op_cond' = (op_cond /\ ~resp.finish)
      /\ IF resp.finish \/ resp.voice # NoVoice \/ op.status = "START"
         THEN WakePoll ELSE UNCHANGED pollPc

genAnswer ==
  /\ respPc = "handle" /\ rx.kind = "data"
  /\ IF IsCurrent(rx.id)
     THEN Answer(rx)
     ELSE refresh_op_time(TRUE) /\ UNCHANGED <<responses, pollPc>>
  /\ respPc' = "timeout" /\ rx' = NoResponse
  /\ UNCHANGED <<appVars, reqVars, respTimed, heard, ctlPc, netVars>>

(* TIMEOUT fails the operation only if its own time is over. *)
genNothing ==
  /\ respPc = "handle" /\ rx.kind = "timeout"
  /\ IF Expired THEN set_op_error("TIMEOUT") /\ WakePoll
                ELSE UNCHANGED <<ctlVars, pollPc>>
  /\ respPc' = "timeout" /\ rx' = NoResponse
  /\ UNCHANGED <<appVars, responses, reqVars, respTimed, heard, ctlPc, netVars>>

genError ==
  /\ respPc = "handle" /\ rx.kind \in {"broken", "badData"}
  /\ set_op_error(IF rx.kind = "broken" THEN "SERVICE_UNAVAILABLE" ELSE "UNKNOWN")
  /\ WakePoll
  /\ respPc' = "timeout" /\ rx' = NoResponse
  /\ UNCHANGED <<appVars, responses, reqVars, respTimed, heard, ctlPc, netVars>>

gen_results == genTimeout \/ recvPacket \/ recvWait \/ recvTimer \/ recvNothing
                 \/ genAnswer \/ genNothing \/ genError

-----------------------------------------------------------------------------
(* The server: for every request it has, voice packets in order and then   *)
(* a finish, with or without voice.  It keeps answering a request the      *)
(* client has cancelled.                                                   *)

Deliver(p) == inbox' = Append(inbox, p) /\ WakeRecv

serverAnswers(i) ==
  /\ linkUp /\ i \in DOMAIN answered /\ ~answered[i].done
  /\ Len(inbox) < MaxInbox
  /\ \E more \in BOOLEAN, finish \in BOOLEAN :
       /\ more \/ finish
       /\ more => answered[i].sent < MaxChunks
       /\ LET sent == IF more THEN answered[i].sent + 1 ELSE answered[i].sent IN
          /\ Deliver([kind |-> "data", id |-> i, finish |-> finish,
                      voice |-> IF more THEN sent ELSE NoVoice])
          /\ answered' = [answered EXCEPT ![i] = [sent |-> sent, done |-> finish]]
  /\ UNCHANGED <<ctlVars, appVars, responses, reqVars, rx, pollVars, ctlPc, linkUp>>

(* The connection breaks, or a packet does not parse. *)
linkError(k) ==
  /\ k \in Faults /\ linkUp /\ Len(inbox) < MaxInbox
  /\ Deliver(Error(k))
  /\ UNCHANGED <<ctlVars, appVars, responses, reqVars, rx, pollVars, ctlPc, linkUp,
                 answered>>

(* A request is sent once, within WS_SEND_TIMEOUT (10 s) of new_op: it is   *)
(* idle for NOOP_TIMEOUT (10 s) before it is silent for NORESP_TIMEOUT     *)
(* (30 s), which therefore never matters here.                             *)
clock ==
  /\ GrowsIdle
  /\ UNCHANGED <<appVars, responses, reqVars, respVars, pollVars, ctlPc, netVars>>

Next ==
  \/ prepare \/ releaseBegin \/ releaseClose \/ releaseJoinReq \/ releaseJoinResp
  \/ \E c \in Callers : speakTest(c) \/ speakQueue(c)
  \/ \E id \in TtsId \cup {0} : cancel(id)
  \/ poll
  \/ send_reqs
  \/ gen_results
  \/ \E i \in TtsId : serverAnswers(i)
  \/ \E k \in {"broken", "badData"} : linkError(k)
  \/ clock

Spec == Init /\ [][Next]_vars

(* Every thread of the SDK and the polling thread keep running, time       *)
(* passes, a caller that tested initialized_ goes on, and the server       *)
(* finishes the answers it has begun; the application owes nothing.        *)
Fairness ==
  /\ WF_vars(poll) /\ WF_vars(send_reqs) /\ WF_vars(gen_results)
  /\ WF_vars(releaseClose) /\ WF_vars(releaseJoinReq) /\ WF_vars(releaseJoinResp)
  /\ WF_vars(clock)
  /\ \A c \in Callers : WF_vars(speakQueue(c))
  /\ \A i \in TtsId : WF_vars(serverAnswers(i))

FairSpec == Spec /\ Fairness

-----------------------------------------------------------------------------
(* Properties.                                                             *)

TypeOK ==
  /\ operations \in Seq(Operation(TtsId, Errors))
  /\ current \in 0 .. Len(operations) /\ op_cond \in BOOLEAN
  /\ initialized \in BOOLEAN /\ next_id \in Nat
  /\ requests \in Seq([id : TtsId, deleted : BOOLEAN])
  /\ responses \in Seq(Stream(TtsId, 1 .. MaxChunks, {}))
  /\ req \in TtsId \cup {0}
  /\ reqPc \in {"dead", "top", "asleep", "send", "sent", "waitOp", "inOp"}
  /\ reqPc \in {"send", "sent", "waitOp", "inOp"} => req # 0
  /\ respPc \in {"dead", "timeout", "recv", "asleep", "awake", "handle"}
  /\ pollPc \in {"stopped", "running", "asleep"}
  /\ ctlPc \in {"idle", "closing", "joinReq", "joinResp"}
  /\ respTimed \in BOOLEAN /\ rx \in Response /\ speaking \subseteq Callers
  /\ linkUp \in BOOLEAN /\ inbox \in Seq(Response)
  /\ DOMAIN answered \subseteq TtsId
  /\ \A i \in DOMAIN answered : answered[i] \in [sent : 0 .. MaxChunks, done : BOOLEAN]
  /\ session \in 0 .. MaxSessions /\ dropped \subseteq TtsId

(* The asserts of poll() (tts_impl.cc:154,197,210,221): whatever it takes  *)
(* from responses_ belongs to the front operation, and is never REMOVED or *)
(* ERROR.  Cancels, failures, late answers and the results of operations   *)
(* not polled yet must never push the two queues out of step.              *)
PollAsserts ==
  initialized /\ operations # <<>> =>
    IF operations[1].status \in {"CANCELLED", "ERROR"}
    THEN HasStream(responses, operations[1].id) => responses[1].id = operations[1].id
    ELSE PopType(responses) # "EMPTY" =>
           /\ responses[1].id = operations[1].id
           /\ PopType(responses) \in {"START", "DATA", "END"}

(* "wait current op finish" (op_ctl.h:59): the sending thread starts the   *)
(* next request only when the last one is over, so that the unfinished     *)
(* operation is always the current one and none is left behind unfinished. *)
OneInFlight ==
  \A i \in 1 .. Len(operations) :
    operations[i].status \in {"START", "STREAMING"} <=> current = i

(* No lost wakeup: a thread asleep in a condition variable has nothing to  *)
(* do.  notify_one is called only on some paths (cancel_op only when the   *)
(* current operation is hit, gen_result_by_resp only on new data).         *)
SleepersIdle ==
  /\ pollPc = "asleep" /\ initialized => NothingToReturn
  /\ reqPc = "asleep" /\ ctlPc # "closing" => initialized /\ requests = <<>>
  /\ reqPc = "inOp" /\ op_cond => IsCurrent(req)
  /\ respPc = "asleep" => inbox = <<>>

HasEnded(h) == h # <<>> /\ h[Len(h)].type \in Terminal

(* A request accepted by speak() is never lost or doubled: until it is     *)
(* released it is queued, or an operation, or its terminal result was      *)
(* polled, and only one of these (tts_impl.cc:111,256,274,279,202,230).    *)
NoRequestLost ==
  initialized =>
    \A i \in 1 .. next_id :
      Cardinality({j \in 1 .. Len(requests) : requests[j].id = i})
        + Cardinality({j \in 1 .. Len(operations) : operations[j].id = i})
        + (IF HasEnded(heard[i]) THEN 1 ELSE 0) = 1

(* END is reported only after every voice packet the server sent for the   *)
(* request (tts_impl.cc:391-413): no packet is dropped on the way, even    *)
(* when the polling thread falls behind by several requests.               *)
NoVoiceLost ==
  \A i \in TtsId :
    HasEnded(heard[i]) /\ heard[i][Len(heard[i])].type = "END" =>
      /\ i \in DOMAIN answered /\ answered[i].done
      /\ Len(heard[i]) = answered[i].sent + 2

(* Once cancel(id) has returned, the only thing poll() may still return    *)
(* for that request is CANCELLED, wherever the request was at the time     *)
(* (tts_impl.cc:116-138, op_ctl.h:49-57,68-85).                            *)
CancelHonoured ==
  [][\A i \in dropped :
       heard'[i] # heard[i] /\ session' = session =>
         heard'[i] = Append(heard[i], Result("CANCELLED", NoVoice, NoError))]_vars

Promise == INSTANCE TtsPromise WITH asked <- next_id, Errors <- Errors \cup {NoError}

(* TtsImpl, in its first session, keeps the promise of TtsPromise: results *)
(* strictly in request order, each request START, packets 1, 2, ... and    *)
(* END, or one CANCELLED or ERROR, and nothing after that.                 *)
KeepsPromise == Promise!PromiseSpec

(* Every request accepted gets its terminal result, as long as the client  *)
(* polls and does not release (tts.h:18-28 names the errors it may be).    *)
EveryRequestEnds ==
  \A i \in TtsId : (initialized /\ i <= next_id) ~> (~initialized \/ HasEnded(heard[i]))

(* "if Tts.release() invoked, poll() will return -1" (tts.h:77).           *)
PollReturnsOnRelease == (ctlPc = "closing") ~> (pollPc = "stopped")

=============================================================================
