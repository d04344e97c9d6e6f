-------------------------- MODULE VoiceServiceProofs --------------------------
(***************************************************************************)
(* The sessions and the microphone of VoiceService, for any number of      *)
(* utterances, requests, connections and calls.                            *)
(***************************************************************************)
EXTENDS VoiceService, TLAPS

Result == [type : ResultTypes, id : Int, fake : BOOLEAN]

Types ==
  /\ session_id \in Int /\ evId \in Int /\ nextId \in Int /\ prepares \in Nat
  /\ ev \in {"wait", "start", "assign", "end", "cancel", "reset", "over"}
  /\ rd \in [Readers -> {"none", "poll", "handle", "asr", "clear", "exited"}]
  /\ sr \in [Readers -> Result]
  /\ results \in Seq(Result)

(* A voice is started only while there is no session.                      *)
NoSessionAtStart == ev \in {"start", "assign"} => session_id < 0

(* The last result a reader has in hand is of a request that is finished,  *)
(* unless the reader is of an earlier connection.                          *)
LastIsFinished ==
  \A r \in Readers :
    /\ rd[r] # "none" => r <= prepares
    /\ rd[r] = "handle" /\ sr[r].type \in Terminal => sr[r].id \in finished \/ r < prepares
    /\ rd[r] = "clear" => sr[r].id \in finished \/ r < prepares

Inv == Types /\ NoSessionAtStart /\ LastIsFinished /\ ClosedStaysClosed

---------------------------------------------------------------------------
(* At first there is no session, no reader and no stream. *)
LEMMA InitInv == Init => Inv
<1> SUFFICES ASSUME Init PROVE Inv
  OBVIOUS
<1>1. NoResult \in Result
  BY DEF NoResult, Result, ResultTypes, Terminal
<1>2. Types
  BY <1>1 DEF Init, Types
<1>3. NoSessionAtStart /\ LastIsFinished /\ ClosedStaysClosed
  BY DEF Init, NoSessionAtStart, LastIsFinished, ClosedStaysClosed
<1> QED
  BY <1>2, <1>3 DEF Inv

(* init, start_siren and network_state_change (VoiceService.cpp:18-110). *)
LEMMA CallersInv ==
  ASSUME Inv, init \/ (\E isopen \in BOOLEAN : start_siren(isopen)) \/ network
  PROVE  Inv'
<1> USE DEF Inv, Types, NoSessionAtStart, LastIsFinished, ClosedStaysClosed,
            fields, session, evVars, rdVars, siren, speech, history, callers
<1>1. CASE init
  BY <1>1 DEF init
<1>2. CASE \E isopen \in BOOLEAN : start_siren(isopen)
  <2> PICK isopen \in BOOLEAN : start_siren(isopen)
    BY <1>2
  <2>1. ClosedStaysClosed'
    <3>1. CASE Startable(isopen)
      BY <3>1 DEF start_siren
    <3>2. CASE ~Startable(isopen) /\ ~isopen /\ sirenState = "STARTED"
      BY <3>2 DEF start_siren
    <3>3. CASE ~Startable(isopen) /\ ~(~isopen /\ sirenState = "STARTED")
      BY <3>3 DEF start_siren
    <3> QED
      BY <3>1, <3>2, <3>3
  <2>2. UNCHANGED <<session_id, evId, nextId, prepares, ev, rd, sr, results, finished>>
    BY DEF start_siren
  <2> QED
    BY <2>1, <2>2
<1>3. CASE net_prepare
  <2>1. prepares' = prepares + 1 /\ UNCHANGED <<fields, session, evVars, rdVars>>
    BY <1>3 DEF net_prepare
  <2>2. nextId' \in Int /\ results' \in Seq(Result)
    <3>1. PICK ok \in BOOLEAN :
            IF ok THEN nextId' = 1 /\ results' = <<>> ELSE UNCHANGED <<nextId, results>>
      BY <1>3 DEF net_prepare
    <3>2. CASE ok
      BY <3>1, <3>2
    <3>3. CASE ~ok
      BY <3>1, <3>3
    <3> QED
      BY <3>2, <3>3
  <2>3. \A r \in Readers : rd[r] # "none" => r < prepares'
    BY <2>1 DEF Readers
  <2>4. LastIsFinished'
    <3>1. \A r \in Readers : rd'[r] # "none" => r <= prepares' /\ r < prepares'
      BY <2>1, <2>3 DEF Readers
    <3>2. \A r \in Readers : rd'[r] \in {"handle", "clear"} => r < prepares'
      BY <3>1
    <3> QED
      BY <3>1, <3>2
  <2>5. NoSessionAtStart' /\ ClosedStaysClosed'
    BY <2>1
  <2> QED
    BY <2>1, <2>2, <2>4, <2>5
<1>4. CASE net_read
  <2>1. session_id' = -1 /\ rd' = [rd EXCEPT ![prepares] = "poll"]
    BY <1>4 DEF net_read
  <2>2. UNCHANGED <<sirenState, openSiren, evId, nextId, prepares, ev, sr, results, finished>>
    BY <1>4 DEF net_read
  <2>3. \A r \in Readers : rd'[r] = IF r = prepares THEN "poll" ELSE rd[r]
    BY <2>1
  <2>4. rd' \in [Readers -> {"none", "poll", "handle", "asr", "clear", "exited"}]
    BY <2>1
  <2>5. LastIsFinished'
    <3> SUFFICES ASSUME NEW r \in Readers
                 PROVE  /\ rd'[r] # "none" => r <= prepares
                        /\ rd'[r] = "handle" /\ sr[r].type \in Terminal =>
                             sr[r].id \in finished \/ r < prepares
                        /\ rd'[r] = "clear" => sr[r].id \in finished \/ r < prepares
      BY <2>2
    <3>1. CASE r = prepares
      BY <2>3, <3>1
    <3>2. CASE r # prepares
      BY <2>3, <3>2
    <3> QED
      BY <3>1, <3>2
  <2>6. NoSessionAtStart'
    BY <2>1
  <2> QED
    BY <2>1, <2>2, <2>4, <2>5, <2>6
<1>5. CASE net_start
  BY <1>5 DEF net_start, Startable, StartStream, Wanted
<1>6. CASE net_stop
  BY <1>6 DEF net_stop
<1>7. CASE net_release
  BY <1>7 DEF net_release
<1> QED
  BY <1>1, <1>2, <1>3, <1>4, <1>5, <1>6, <1>7 DEF network

(* onEvent (VoiceService.cpp:123-259). *)
LEMMA EventInv == ASSUME Inv, onEvent PROVE Inv'
<1> USE DEF Inv, Types, NoSessionAtStart, LastIsFinished, ClosedStaysClosed,
            fields, session, evVars, rdVars, siren, speech, history, callers
<1>1. CASE on_VOICE_PRINT
  BY <1>1 DEF on_VOICE_PRINT
<1>2. CASE on_VAD_START
  BY <1>2 DEF on_VAD_START
<1>3. CASE vad_start
  BY <1>3 DEF vad_start
<1>4. CASE on_VAD_START_assign
  BY <1>4 DEF on_VAD_START_assign
<1>5. CASE on_VAD_DATA
  BY <1>5 DEF on_VAD_DATA
<1>6. CASE on_VAD_END
  BY <1>6 DEF on_VAD_END, Took
<1>7. CASE on_VAD_CANCEL
  BY <1>7 DEF on_VAD_CANCEL, Took
<1>9. CASE on_VAD_END_voice
  BY <1>9 DEF on_VAD_END_voice
<1>10. CASE on_VAD_CANCEL_voice
  BY <1>10 DEF on_VAD_CANCEL_voice
<1>11. CASE on_VAD_CANCEL_reset
  BY <1>11 DEF on_VAD_CANCEL_reset, Cancelled
<1>12. CASE on_VAD_over
  BY <1>12 DEF on_VAD_over
<1>8. CASE on_SLEEP
  BY <1>8 DEF on_SLEEP
<1> QED
  BY <1>1, <1>2, <1>3, <1>4, <1>5, <1>6, <1>7, <1>8, <1>9, <1>10, <1>11, <1>12 DEF onEvent

(* onResponse (VoiceService.cpp:261-317). *)
LEMMA ResponseInv == ASSUME Inv, NEW r \in Readers, onResponse(r) PROVE Inv'
<1> USE DEF Inv, Types, NoSessionAtStart, LastIsFinished, ClosedStaysClosed,
            fields, session, evVars, rdVars, siren, speech, history, callers
<1>1. CASE resp_poll(r)
  <2>1. CASE ~speechUp
    BY <1>1, <2>1 DEF resp_poll
  <2>2. CASE speechUp
    <3>1. Head(results) \in Result /\ Tail(results) \in Seq(Result)
      BY <1>1, <2>2 DEF resp_poll
    <3>2. finished \subseteq finished'
      BY <1>1, <2>2 DEF resp_poll
    <3>3. Head(results).type \in Terminal => Head(results).id \in finished'
      BY <1>1, <2>2 DEF resp_poll
    <3>4. /\ sr' = [sr EXCEPT ![r] = Head(results)] /\ results' = Tail(results)
          /\ rd' = [rd EXCEPT ![r] = "handle"] /\ rd[r] = "poll"
          /\ UNCHANGED <<fields, session, evVars, nextId, prepares>>
      BY <1>1, <2>2 DEF resp_poll
    <3>5. LastIsFinished'
      BY <3>2, <3>3, <3>4
    <3>6. sr' \in [Readers -> Result]
      BY <3>1, <3>4
    <3> QED
      BY <3>1, <3>4, <3>5, <3>6
  <2> QED
    BY <2>1, <2>2
<1>2. CASE resp_handle(r)
  BY <1>2 DEF resp_handle, IsLast
<1>3. CASE resp_asr(r)
  BY <1>3 DEF resp_asr
<1>4. CASE resp_clear(r)
  BY <1>4 DEF resp_clear, clear
<1> QED
  BY <1>1, <1>2, <1>3, <1>4 DEF onResponse

(* Siren reports an utterance, Speech a result. *)
LEMMA EnvironmentInv == ASSUME Inv, environment \/ UNCHANGED vars PROVE Inv'
<1> USE DEF Inv, Types, NoSessionAtStart, LastIsFinished, ClosedStaysClosed,
            fields, session, evVars, rdVars, siren, speech, history, callers
<1>1. CASE siren_begin
  BY <1>1 DEF siren_begin
<1>2. CASE siren_end
  BY <1>2 DEF siren_end
<1>3. CASE speech_step
  <2>1. PICK result \in Result : results' = Append(results, result)
    <3>1. PICK i \in Ids, type \in ResultTypes, fake \in BOOLEAN :
            results' = Append(results, [type |-> type, id |-> i, fake |-> fake])
      <4> DEFINE Sent(type, i, fake) ==
                   results' = Append(results, [type |-> type, id |-> i, fake |-> fake])
      <4>1. \E i \in Ids :
              \/ Sent("CANCELLED", i, FALSE) \/ Sent("START", i, FALSE) \/ Sent("INTER", i, TRUE)
              \/ Sent("ASR_FINISH", i, FALSE) \/ Sent("END", i, FALSE) \/ Sent("ERROR", i, FALSE)
        BY <1>3, Zenon DEF speech_step
      <4> HIDE DEF Sent
      <4>2. \E i \in Ids, type \in ResultTypes, fake \in BOOLEAN : Sent(type, i, fake)
        BY <4>1 DEF ResultTypes, Terminal
      <4> QED
        BY <4>2 DEF Sent
    <3>2. [type |-> type, id |-> i, fake |-> fake] \in Result
      BY DEF Result, Ids
    <3> QED
      BY <3>1, <3>2
  <2>2. results' \in Seq(Result)
    BY <2>1
  <2>3. UNCHANGED <<session_id, evId, nextId, prepares, ev, rd, sr, finished>>
      /\ UNCHANGED <<sirenState, openSiren>>
    BY <1>3 DEF speech_step
  <2> QED
    BY <2>2, <2>3
<1>4. CASE UNCHANGED vars
  BY <1>4 DEF vars
<1> QED
  BY <1>1, <1>2, <1>3, <1>4 DEF environment

(* Every step keeps the invariant. *)
LEMMA StepInv == Inv /\ [Next]_vars => Inv'
BY CallersInv, EventInv, ResponseInv, EnvironmentInv DEF Next

---------------------------------------------------------------------------
(* A microphone that the user has closed is not opened again by a          *)
(* connection that comes back, whoever comes first (VoiceService.cpp:35,   *)
(* 87).                                                                    *)
THEOREM MicrophoneStaysClosed == Spec => []ClosedStaysClosed
<1>1. Inv => ClosedStaysClosed
  BY DEF Inv
<1> QED
  BY <1>1, InitInv, StepInv, PTL DEF Spec

(* A session goes by its own last result, by the end or the cancel of an   *)
(* utterance, or for a new connection (VoiceService.cpp:229-243, 314).     *)
THEOREM SessionsEndByTheirOwn == Spec => SessionEndsByItsOwn
<1> DEFINE Ends == session_id > 0 /\ session_id' = -1 /\ ~LateReader /\ ~raced =>
                     \/ session_id \in finished
                     \/ net = "prepared"
                     \/ ev = "over"
<1>1. Inv /\ [Next]_vars => [Ends]_vars
  <2> SUFFICES ASSUME Inv, Next, session_id > 0, session_id' = -1, ~LateReader
               PROVE  \/ session_id \in finished
                      \/ net = "prepared"
                      \/ ev = "over"
    OBVIOUS
  <2> USE DEF Inv, Types, session
  <2>1. CASE init \/ \E isopen \in BOOLEAN : start_siren(isopen)
    BY <2>1 DEF init, start_siren
  <2>2. CASE network
    BY <2>2 DEF network, net_prepare, net_read, net_start, net_stop, net_release
  <2>3. CASE onEvent
    BY <2>3 DEF onEvent, on_VOICE_PRINT, on_VAD_START, vad_start, on_VAD_START_assign, on_VAD_DATA,
                on_VAD_END, on_VAD_END_voice, on_VAD_CANCEL, on_VAD_CANCEL_voice,
                on_VAD_CANCEL_reset, on_VAD_over, on_SLEEP, NoSessionAtStart
  <2>4. CASE \E r \in Readers : onResponse(r)
    <3> PICK r \in Readers : onResponse(r)
      BY <2>4
    <3>1. resp_clear(r)
      BY DEF onResponse, resp_poll, resp_handle, resp_asr
    <3>2. session_id = sr[r].id /\ rd[r] = "clear"
      BY <3>1 DEF resp_clear, clear
    <3> QED
      BY <3>2 DEF LastIsFinished, LateReader
  <2>5. CASE environment
    BY <2>5 DEF environment, siren_begin, siren_end, speech_step
  <2> QED
    BY <2>1, <2>2, <2>3, <2>4, <2>5 DEF Next
<1> QED
  BY <1>1, InitInv, StepInv, PTL DEF Spec, SessionEndsByItsOwn
==============================================================================
