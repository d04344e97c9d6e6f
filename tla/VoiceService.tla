----------------------------- MODULE VoiceService -----------------------------
(***************************************************************************)
(* The native service of the application (jni/main/VoiceService.cpp):      *)
(* it turns the events of siren into voice requests of the speech SDK and  *)
(* the results of the SDK into callbacks.  Four kinds of threads share its *)
(* fields: onEvent, onResponse (detached, one per prepare), the thread of  *)
(* network_state_change and the thread of start_siren.                     *)
(*                                                                         *)
(* Siren and Speech are external.  Siren reports utterance after utterance *)
(* while its stream is started: the wake word's data, start, data, end or  *)
(* cancel; set_siren_state makes it cancel, which it may do at any time    *)
(* anyway.  Speech works on one request after the other and ends each of   *)
(* them with one result, as modules SpeechImpl and TtsImpl show.           *)
(***************************************************************************)
EXTENDS Naturals, Integers, Sequences, FiniteSets

CONSTANTS
  MaxId,      (* bound: requests of one speech session                     *)
  MaxUtts,    (* bound: utterances                                         *)
  MaxBehind,  (* bound: events onEvent is behind when an utterance begins  *)
  MaxPrepares,(* bound: sessions prepared; each has a reader of its own    *)
  MaxCalls,   (* bound: calls of start_siren                               *)
  Clouds,     (* values of cloud_vad_enable() to consider                  *)
  Cancels,    (* whether siren cancels utterances                          *)
  Faults      (* prepareFails, startFails, error, fake: see their uses     *)

Readers == 1 .. MaxPrepares
Utts == 1 .. MaxUtts
Ids == 1 .. MaxId

VARIABLES
  cloud,        (* cloud_vad_enable()                                      *)
  sirenState,   (* mCurrentSirenState                                      *)
  openSiren,
  speechState,  (* mCurrentSpeechState                                     *)
  session_id,
  asr_finished,
  local_sleep,
  has_vt,       (* the utterance the trigger data is of; 0: none           *)
  events,       (* _events                                                 *)
  ev,           (* onEvent: what it does                                   *)
  evUtt,        (* the utterance of the event in hand                      *)
  evId,         (* the id in hand: what start_voice returned, or what the  *)
                (* test of session_id read                                 *)
  rd,           (* onResponse: what each reader does                       *)
  sr,           (* the result it polled                                    *)
  rejected,     (* its local activation: the request it rejects, or 0      *)
  net,          (* network_state_change                                    *)
  calls,        (* calls of start_siren                                    *)
  prepares,
  streaming,    (* Siren: the stream is started                            *)
  utt, uttPhase,
  speechUp, nextId, reqs, results,  (* Speech                              *)
  closed,       (* history: requests of this session ended or cancelled    *)
  finished,     (* history: requests of it whose last result was polled    *)
  latePut,      (* history: a voice was put after its end or cancel        *)
  wrongTrigger, (* history: a request got the trigger of another utterance *)
  raced,        (* history: a last result came before its id was stored    *)
  hidden        (* history: a last result was kept from the application    *)

fields == <<cloud, sirenState, openSiren, speechState>>
session == <<session_id, asr_finished, local_sleep, has_vt>>
evVars == <<ev, evUtt, evId>>
rdVars == <<rd, sr, rejected>>
siren == <<streaming, utt, uttPhase>>
speech == <<speechUp, nextId, reqs, results>>
history == <<closed, finished, latePut, wrongTrigger, raced, hidden>>
callers == <<net, calls, prepares>>
vars == <<fields, session, events, evVars, rdVars, siren, speech, history, callers>>

EventKinds == {"VOICE_PRINT", "VAD_START", "VAD_DATA", "VAD_END", "VAD_CANCEL", "SLEEP"}
Terminal == {"END", "CANCELLED", "ERROR"}
ResultTypes == {"INTER", "START", "ASR_FINISH"} \cup Terminal
Phases == {"new", "started", "inter", "asr", "done"}
NoReq == [phase |-> "none", closing |-> "no"]
NoResult == [type |-> "INTER", id |-> 0, fake |-> FALSE]

TypeOK ==
  /\ cloud \in BOOLEAN /\ openSiren \in BOOLEAN
  /\ sirenState \in {"UNKNOWN", "INITED", "STARTED", "STOPED"}
  /\ speechState \in {"UNKNOWN", "PREPARED", "RELEASED"}
  /\ session_id \in {-1} \cup Ids /\ asr_finished \in BOOLEAN /\ local_sleep \in BOOLEAN
  /\ has_vt \in 0 .. MaxUtts
  /\ events \in Seq([event : EventKinds, utt : Utts])
  /\ ev \in {"wait", "start", "assign", "end", "cancel", "reset", "over"} /\ evUtt \in 0 .. MaxUtts /\ evId \in {-1} \cup Ids
  /\ rd \in [Readers -> {"none", "poll", "handle", "asr", "clear", "exited"}]
  /\ sr \in [Readers -> [type : ResultTypes, id : 0 .. MaxId, fake : BOOLEAN]]
  /\ rejected \in [Readers -> 0 .. MaxId]
  /\ net \in {"idle", "prepared", "starting", "stopped"}
  /\ calls \in 0 .. MaxCalls /\ prepares \in 0 .. MaxPrepares
  /\ streaming \in BOOLEAN /\ utt \in 0 .. MaxUtts /\ uttPhase \in {"quiet", "speaking"}
  /\ speechUp \in BOOLEAN /\ nextId \in 1 .. MaxId + 1
  /\ reqs \in [Ids -> [phase : Phases \cup {"none"}, closing : {"no", "end", "cancel"}]]
  /\ results \in Seq([type : ResultTypes, id : Ids, fake : BOOLEAN])
  /\ closed \subseteq Ids /\ finished \subseteq Ids
  /\ {latePut, wrongTrigger, raced, hidden} \subseteq BOOLEAN

Init ==
  /\ cloud \in Clouds
  /\ sirenState = "UNKNOWN" /\ openSiren = TRUE /\ speechState = "UNKNOWN"
  /\ session_id = -1 /\ asr_finished = FALSE /\ local_sleep = FALSE /\ has_vt = 0
  /\ events = <<>> /\ ev = "wait" /\ evUtt = 0 /\ evId = -1
  /\ rd = [r \in Readers |-> "none"] /\ sr = [r \in Readers |-> NoResult]
  /\ rejected = [r \in Readers |-> 0]
  /\ net = "idle" /\ calls = 0 /\ prepares = 0
  /\ streaming = FALSE /\ utt = 0 /\ uttPhase = "quiet"
  /\ speechUp = FALSE /\ nextId = 1 /\ reqs = [i \in Ids |-> NoReq] /\ results = <<>>
  /\ closed = {} /\ finished = {}
  /\ latePut = FALSE /\ wrongTrigger = FALSE /\ raced = FALSE /\ hidden = FALSE

---------------------------------------------------------------------------
(* speech_mutex is held by network_state_change throughout; siren_mutex    *)
(* from the stop of the stream to the end of the release.                  *)
SirenMutexFree == net # "stopped"

(* The stream may fail to start; the state says STARTED all the same. *)
StartStream ==
  /\ sirenState' = "STARTED"
  /\ \E up \in BOOLEAN : (~up => "startFails" \in Faults) /\ streaming' = up

Startable(wanted) == wanted /\ sirenState \in {"INITED", "STOPED"}

(* init: the engine is set up and onEvent begins. *)
init ==
  /\ sirenState = "UNKNOWN" /\ SirenMutexFree
  /\ sirenState' = "INITED"
  /\ UNCHANGED <<cloud, openSiren, speechState, session, events, evVars, rdVars, siren, speech,
                 history, callers>>

(* start_siren, under siren_mutex. *)
start_siren(isopen) ==
  /\ calls < MaxCalls /\ SirenMutexFree
  /\ calls' = calls + 1
  /\ IF Startable(isopen)
     THEN openSiren' = TRUE /\ StartStream
     ELSE /\ IF ~isopen /\ sirenState = "STARTED"
             THEN sirenState' = "STOPED" /\ streaming' = FALSE
             ELSE UNCHANGED <<sirenState, streaming>>
          /\ openSiren' = (openSiren /\ (isopen \/ sirenState = "UNKNOWN"))
  /\ UNCHANGED <<cloud, speechState, session, events, evVars, rdVars, utt, uttPhase, speech, history,
                 net, prepares>>

(* network_state_change(true): prepare ... *)
net_prepare ==
  /\ net = "idle" /\ speechState # "PREPARED" /\ prepares < MaxPrepares
  /\ prepares' = prepares + 1
  /\ \E ok \in BOOLEAN :
       /\ ~ok => "prepareFails" \in Faults
       /\ IF ok
          THEN /\ net' = "prepared"
               /\ speechUp' = TRUE /\ nextId' = 1 /\ results' = <<>>
               /\ reqs' = [i \in Ids |-> NoReq] /\ closed' = {} /\ finished' = {}
          ELSE UNCHANGED <<net, speech, closed, finished>>
  /\ UNCHANGED <<fields, session, events, evVars, rdVars, siren, latePut, wrongTrigger, raced, hidden,
                 calls>>

(* ... clear(), and a new reader, whatever became of the last one ... *)
net_read ==
  /\ net = "prepared"
  /\ session_id' = -1 /\ speechState' = "PREPARED"
  /\ rd' = [rd EXCEPT ![prepares] = "poll"]
  /\ net' = "starting"
  /\ UNCHANGED <<cloud, sirenState, openSiren, asr_finished, local_sleep, has_vt, events, evVars, sr,
                 rejected, siren, speech, history, calls, prepares>>

(* Mutant: the stream is started whether it is wanted or not. *)
Wanted_always == TRUE
Wanted == openSiren

(* ... and the stream, if it is wanted. *)
net_start ==
  /\ net = "starting"
  /\ IF Startable(Wanted) THEN StartStream ELSE UNCHANGED <<sirenState, streaming>>
  /\ net' = "idle"
  /\ UNCHANGED <<cloud, openSiren, speechState, session, events, evVars, rdVars, utt, uttPhase, speech,
                 history, calls, prepares>>

(* network_state_change(false): stop the stream and release under both     *)
(* mutexes.                                                                *)
net_stop ==
  /\ net = "idle" /\ speechState = "PREPARED"
  /\ IF sirenState = "STARTED"
     THEN sirenState' = "STOPED" /\ streaming' = FALSE
     ELSE UNCHANGED <<sirenState, streaming>>
  /\ net' = "stopped"
  /\ UNCHANGED <<cloud, openSiren, speechState, session, events, evVars, rdVars, utt, uttPhase, speech,
                 history, calls, prepares>>

net_release ==
  /\ net = "stopped"
  /\ speechUp' = FALSE /\ results' = <<>> /\ reqs' = [i \in Ids |-> NoReq]
  /\ speechState' = "RELEASED" /\ net' = "idle"
  /\ UNCHANGED <<cloud, sirenState, openSiren, session, events, evVars, rdVars, siren, nextId, history,
                 calls, prepares>>

network == net_prepare \/ net_read \/ net_start \/ net_stop \/ net_release

---------------------------------------------------------------------------
Took(kind) ==
  /\ ev = "wait" /\ events # <<>> /\ Head(events).event = kind
  /\ events' = Tail(events)

(* onEvent: VOICE_PRINT, the data of the wake word. *)
on_VOICE_PRINT ==
  /\ Took("VOICE_PRINT")
  /\ has_vt' = Head(events).utt
  /\ UNCHANGED <<fields, session_id, asr_finished, local_sleep, evVars, rdVars, siren, speech, history,
                 callers>>

(* VAD_START: ignored while there is a session; vad_start ... *)
on_VAD_START ==
  /\ Took("VAD_START")
  /\ IF session_id < 0
     THEN ev' = "start" /\ evUtt' = Head(events).utt
     ELSE UNCHANGED <<ev, evUtt>>
  /\ UNCHANGED <<fields, session, evId, rdVars, siren, speech, history, callers>>

(* ... takes the trigger data and starts a voice ... *)
vad_start ==
  /\ ev = "start" /\ ev' = "assign"
  /\ IF speechState = "PREPARED"
     THEN /\ has_vt' = 0
          /\ wrongTrigger' = (wrongTrigger \/ has_vt \notin {0, evUtt})
          /\ IF speechUp /\ nextId <= MaxId
             THEN /\ evId' = nextId /\ nextId' = nextId + 1
                  /\ reqs' = [reqs EXCEPT ![nextId].phase = "new"]
             ELSE evId' = -1 /\ UNCHANGED <<nextId, reqs>>
     ELSE evId' = -1 /\ UNCHANGED <<has_vt, wrongTrigger, nextId, reqs>>
  /\ UNCHANGED <<fields, session_id, asr_finished, local_sleep, events, evUtt, rdVars, siren, speechUp,
                 results, closed, finished, latePut, raced, hidden, callers>>

(* ... whose id is stored without session_mutex. *)
on_VAD_START_assign ==
  /\ ev = "assign"
  /\ session_id' = evId
  /\ raced' = (raced \/ evId \in finished \/ (evId # -1 /\ speechState # "PREPARED")
                \/ (evId # -1 /\ evId >= nextId))
  /\ ev' = "wait" /\ evId' = -1 /\ evUtt' = 0
  /\ UNCHANGED <<fields, asr_finished, local_sleep, has_vt, events, rdVars, siren, speech,
                 closed, finished, latePut, wrongTrigger, hidden, callers>>

(* VAD_DATA: put_voice, which takes no id but a positive one, so that the  *)
(* test of session_id adds nothing.                                        *)
on_VAD_DATA ==
  /\ Took("VAD_DATA")
  /\ latePut' = (latePut \/ session_id \in closed)
  /\ UNCHANGED <<fields, session, evVars, rdVars, siren, speech, closed, finished, wrongTrigger, raced,
                 hidden, callers>>

(* What end_voice and cancel make of requests that are still there. *)
Close(ids, how) ==
  /\ closed' = closed \cup {i \in ids : reqs[i].phase # "none"}
  /\ reqs' = [i \in Ids |->
                IF i \in ids /\ reqs[i].phase \notin {"none", "done"}
                   /\ (how = "cancel" \/ reqs[i].closing = "no")
                THEN [reqs[i] EXCEPT !.closing = how] ELSE reqs[i]]

(* VAD_END and VAD_CANCEL test session_id and read it again for the call,  *)
(* without session_mutex: a reader may reset it in between, and a compiler *)
(* may keep what was tested.                                               *)
EvIds == {evId, session_id}

(* VAD_END: with the cloud's VAD the server decides ... *)
on_VAD_END ==
  /\ Took("VAD_END")
  /\ IF cloud
     THEN UNCHANGED <<ev, evId>>
     ELSE /\ ev' = IF session_id > 0 THEN "end" ELSE "over"
          /\ evId' = IF session_id > 0 THEN session_id ELSE evId
  /\ UNCHANGED <<fields, session, evUtt, rdVars, siren, speech, history, callers>>

(* ... and otherwise the voice ends here; end_voice does nothing without   *)
(* an id ...                                                               *)
on_VAD_END_voice ==
  /\ ev = "end" /\ ev' = "over" /\ evId' = -1
  /\ \E id \in EvIds : Close({id} \cap Ids, "end")
  /\ UNCHANGED <<fields, session, events, evUtt, rdVars, siren, speechUp, nextId, results, finished,
                 latePut, wrongTrigger, raced, hidden, callers>>

(* VAD_CANCEL: also the answer of siren to the set_siren_state that        *)
(* onResponse makes at ASR_FINISH; asr_finished tells the two apart ...    *)
on_VAD_CANCEL ==
  /\ Took("VAD_CANCEL")
  /\ IF session_id > 0 /\ (~asr_finished \/ local_sleep)
     THEN ev' = "cancel" /\ evId' = session_id
     ELSE ev' = "reset" /\ UNCHANGED evId
  /\ UNCHANGED <<fields, session, evUtt, rdVars, siren, speech, history, callers>>

(* ... cancel, of every request when the id is gone ... *)
on_VAD_CANCEL_voice ==
  /\ ev = "cancel" /\ ev' = "reset" /\ evId' = -1
  /\ \E id \in EvIds : Close(IF id > 0 THEN {id} ELSE Ids, "cancel")
  /\ UNCHANGED <<fields, session, events, evUtt, rdVars, siren, speechUp, nextId, results, finished,
                 latePut, wrongTrigger, raced, hidden, callers>>

(* The session with the cloud's VAD is over; without it siren goes on and  *)
(* the end of the utterance ends it.                                       *)
Cancelled == IF cloud THEN "over" ELSE "wait"

(* ... asr_finished is reset ... *)
on_VAD_CANCEL_reset ==
  /\ ev = "reset" /\ ev' = Cancelled
  /\ asr_finished' = FALSE
  /\ UNCHANGED <<fields, session_id, local_sleep, has_vt, events, evUtt, evId, rdVars, siren, speech,
                 history, callers>>

(* ... and the clear() of both. *)
on_VAD_over ==
  /\ ev = "over" /\ ev' = "wait"
  /\ session_id' = -1
  /\ UNCHANGED <<fields, asr_finished, local_sleep, has_vt, events, evUtt, evId, rdVars, siren, speech,
                 history, callers>>

(* SLEEP: the sleep word. *)
on_SLEEP ==
  /\ Took("SLEEP")
  /\ local_sleep' = TRUE
  /\ UNCHANGED <<fields, session_id, asr_finished, has_vt, evVars, rdVars, siren, speech, history,
                 callers>>

onEvent == on_VOICE_PRINT \/ on_VAD_START \/ vad_start \/ on_VAD_START_assign \/ on_VAD_DATA
           \/ on_VAD_END \/ on_VAD_END_voice \/ on_VAD_CANCEL \/ on_VAD_CANCEL_voice
           \/ on_VAD_CANCEL_reset \/ on_VAD_over \/ on_SLEEP

---------------------------------------------------------------------------
(* onResponse: poll returns a result, or FALSE once Speech is released. *)
resp_poll(r) ==
  /\ rd[r] = "poll"
  /\ IF speechUp
     THEN /\ results # <<>>
          /\ sr' = [sr EXCEPT ![r] = Head(results)]
          /\ results' = Tail(results)
          /\ rd' = [rd EXCEPT ![r] = "handle"]
          /\ finished' = IF Head(results).type \in Terminal
                         THEN finished \cup {Head(results).id} ELSE finished
     ELSE rd' = [rd EXCEPT ![r] = "exited"] /\ UNCHANGED <<sr, results, finished>>
  /\ UNCHANGED <<fields, session, events, evVars, rejected, siren, speechUp, nextId, reqs,
                 closed, latePut, wrongTrigger, raced, hidden, callers>>

(* Mutant: sr.type > SPEECH_RES_END. *)
IsLast_over(s) == s.type \in Terminal \ {"END"}

(* The result is the last of its request: sr.type >= SPEECH_RES_END. *)
IsLast(s) == s.type \in Terminal

(* Mutant: clear() without the id. *)
clear_any(id) == -1
(* clear(id): what becomes of session_id, under session_mutex. *)
clear(id) == IF session_id = id THEN -1 ELSE session_id

(* The two switches on the type of the result.  rejected is what the local *)
(* variable activation makes of arbitration(); ERROR only resets it when   *)
(* it does not apply.                                                      *)
resp_handle(r) ==
  LET s == sr[r]
      now == CASE s.type = "START" -> 0
               [] s.fake -> s.id
               [] OTHER -> rejected[r]
      shown == now = 0 IN
  /\ rd[r] = "handle"
  /\ rejected' = [rejected EXCEPT ![r] = now]
  /\ asr_finished' = (asr_finished /\ ~(s.type = "START" \/ (s.type = "ERROR" /\ shown)))
  /\ local_sleep' = (local_sleep /\ ~(s.type = "START" \/ (s.type \in {"CANCELLED", "ERROR"} /\ shown)))
  /\ hidden' = (hidden \/ (s.type \in Terminal /\ now \notin {0, s.id}))
  /\ rd' = [rd EXCEPT ![r] =
              CASE IsLast(s) -> "clear"
                [] s.type = "ASR_FINISH" /\ shown /\ (session_id = s.id \/ cloud) -> "asr"
                [] OTHER -> "poll"]
  /\ UNCHANGED <<fields, session_id, has_vt, events, evVars, sr, siren, speech,
                 closed, finished, latePut, wrongTrigger, raced, callers>>

(* asr_finished is set after set_siren_state, whose cancel may be faster. *)
resp_asr(r) ==
  /\ rd[r] = "asr"
  /\ asr_finished' = TRUE
  /\ rd' = [rd EXCEPT ![r] = "poll"]
  /\ UNCHANGED <<fields, session_id, local_sleep, has_vt, events, evVars, sr, rejected, siren, speech,
                 history, callers>>

resp_clear(r) ==
  /\ rd[r] = "clear"
  /\ session_id' = clear(sr[r].id)
  /\ rd' = [rd EXCEPT ![r] = "poll"]
  /\ UNCHANGED <<fields, asr_finished, local_sleep, has_vt, events, evVars, sr, rejected, siren, speech,
                 history, callers>>

onResponse(r) == resp_poll(r) \/ resp_handle(r) \/ resp_asr(r) \/ resp_clear(r)

---------------------------------------------------------------------------
(* Siren: utterances, reported through voice_event_callback. *)
Report(kinds) == events' = events \o [i \in 1 .. Len(kinds) |-> [event |-> kinds[i], utt |-> utt']]

siren_begin ==
  /\ streaming /\ uttPhase = "quiet" /\ utt < MaxUtts /\ Len(events) <= MaxBehind
  /\ utt' = utt + 1 /\ uttPhase' = "speaking"
  /\ \E vt \in BOOLEAN :
       Report((IF vt THEN <<"VOICE_PRINT">> ELSE <<>>) \o <<"VAD_START", "VAD_DATA">>)
  /\ UNCHANGED <<fields, session, evVars, rdVars, streaming, speech, history, callers>>

siren_end ==
  /\ uttPhase = "speaking" /\ uttPhase' = "quiet" /\ UNCHANGED utt
  /\ \/ Report(<<"VAD_END">>)
     \/ Cancels /\ \/ Report(<<"VAD_CANCEL">>)
                   \/ Report(<<"SLEEP", "VAD_CANCEL">>)
  /\ UNCHANGED <<fields, session, evVars, rdVars, streaming, speech, history, callers>>

(* Speech: one step of its oldest request.  Every request ends: by its     *)
(* results, by the answer to its cancellation or by an error.              *)
speech_step ==
  /\ speechUp
  /\ \E i \in Ids :
       LET q == reqs[i]
           Step(phase, type, fake) ==
             /\ reqs' = [reqs EXCEPT ![i].phase = phase]
             /\ results' = Append(results, [type |-> type, id |-> i, fake |-> fake]) IN
       /\ q.phase \notin {"none", "done"}
       /\ \A j \in Ids : j < i => reqs[j].phase = "done"
       /\ \/ q.closing = "cancel" /\ Step("done", "CANCELLED", FALSE)
          \/ q.closing # "cancel" /\ q.phase = "new" /\ Step("started", "START", FALSE)
          \/ "fake" \in Faults /\ q.closing # "cancel" /\ q.phase = "started" /\ Step("inter", "INTER", TRUE)
          \/ /\ q.closing = "end" \/ (q.closing = "no" /\ cloud)
             /\ q.phase \in {"started", "inter"} /\ Step("asr", "ASR_FINISH", FALSE)
          \/ q.closing # "cancel" /\ q.phase = "asr" /\ Step("done", "END", FALSE)
          \/ q.closing # "cancel" /\ ("error" \in Faults \/ ~cloud) /\ Step("done", "ERROR", FALSE)
  /\ UNCHANGED <<fields, session, events, evVars, rdVars, siren, speechUp, nextId, history, callers>>

environment == siren_begin \/ siren_end \/ speech_step

Next ==
  \/ init
  \/ \E isopen \in BOOLEAN : start_siren(isopen)
  \/ network
  \/ onEvent
  \/ \E r \in Readers : onResponse(r)
  \/ environment

Spec == Init /\ [][Next]_vars

(* The threads run, Speech ends what it began (SpeechImpl) and siren ends  *)
(* the utterance it is in; a call of network_state_change that has begun   *)
(* goes on.                                                                *)
FairSpec ==
  /\ Spec
  /\ WF_vars(onEvent)
  /\ \A r \in Readers : WF_vars(onResponse(r))
  /\ WF_vars(siren_end) /\ WF_vars(speech_step)
  /\ WF_vars(net_read \/ net_start \/ net_release)

---------------------------------------------------------------------------
(* A reader of an earlier connection still has a last result in hand. *)
LateReader == \E r \in Readers : r < prepares /\ rd[r] = "clear"

(* A microphone the user has closed stays closed: neither a reconnection   *)
(* nor the order of the two callers reopens it (VoiceService.cpp:35, 87).  *)
ClosedStaysClosed == sirenState = "STARTED" => openSiren

(* With the cloud's VAD no voice follows the cancellation of its request   *)
(* (VoiceService.cpp:229, 243), whatever the readers do in between.        *)
NoPutAfterCancel == cloud /\ ~raced => ~latePut

(* While there has been one connection, a VAD_CANCEL cancels the request   *)
(* of its session alone: cancel(-1), when a reader resets the session      *)
(* between the test and the call, takes every request, and then none is    *)
(* left (VoiceService.cpp:243).                                            *)
CancelsItsOwn ==
  [][ev = "cancel" /\ ev' = "reset" /\ prepares = 1 => \A i \in Ids : reqs'[i] # reqs[i] => i = evId]_vars

(* A session ends by the last result of its own request, by the end or the *)
(* cancellation of the utterance or by a new connection: a late result of  *)
(* an earlier request leaves it alone (VoiceService.h:68, .cpp:314), but   *)
(* for a reader of an earlier connection, whose ids were the same.         *)
SessionEndsByItsOwn ==
  [][session_id > 0 /\ session_id' = -1 /\ ~LateReader /\ ~raced =>
       \/ session_id \in finished
       \/ net = "prepared"
       \/ ev = "over"]_vars

(* A session does not last: it is over, the connection is, or it was stale *)
(* from the start (VoiceService.cpp:223, 238, 314).                        *)
SessionEnds ==
  \A i \in Ids : (session_id = i) ~> (session_id # i \/ speechState # "PREPARED" \/ raced)

---------------------------------------------------------------------------
(* What does not hold; see voice_departs.cfg.                              *)

(* session_id is stored after start_voice returns, and the last result may *)
(* be handled before: the session is never ended.                          *)
SessionIsLive == ~raced

(* The cancel that siren makes of a finished ASR is not a cancel of the    *)
(* request (VoiceService.cpp:293).                                         *)
FinishedAsrNotCancelled ==
  [][\A i \in Ids : reqs[i].phase = "asr" /\ reqs[i].closing = "no" => reqs'[i].closing # "cancel"]_vars

(* A cancel of siren's own is passed on: asr_finished, which is set after  *)
(* the cancel it is to explain, may be left for the next one (.cpp:243).   *)
CancelPassedOn ==
  [][\A i \in Ids :
       /\ i = session_id /\ Took("VAD_CANCEL")
       /\ reqs[i].phase \in {"new", "started", "inter"} /\ reqs[i].closing = "no"
       => ev' = "cancel"]_vars

(* The data of the wake word goes with its own utterance. *)
TriggerOfItsUtterance == ~wrongTrigger

(* A failure is reported unless its own request was rejected. *)
EndsAreShown == ~hidden

(* One thread polls: the reader of an earlier connection may still be     *)
(* there when a new one is started (VoiceService.cpp:83).                  *)
OneReader == Cardinality({r \in Readers : rd[r] \notin {"none", "exited"}}) <= 1

(* A started siren streams. *)
StartedStreams == sirenState = "STARTED" => streaming
==============================================================================
