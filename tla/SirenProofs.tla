------------------------------ MODULE SirenProofs ------------------------------
(***************************************************************************)
(* Proofs about libbsiren, for any number of wake words, calls and frames, *)
(* any sizes of the queues and sockets, and whatever may go wrong          *)
(* (Faults).                                                               *)
(*                                                                         *)
(*   TypeCorrect            the types of both sides and of the channels    *)
(*   NothingOutlivesDestroy when destroy_siren returns nobody of the six   *)
(*                          threads it ends is left (IInv)                 *)
(*   RequestsArrive         a request that is not in transit was carried   *)
(*                          out, as long as no queue fills up (StateInv,   *)
(*                          WordsInv)                                      *)
(*                                                                         *)
(* Each invariant has a lemma for the actions of a thread.                 *)
(***************************************************************************)
EXTENDS Siren, TLAPS

-----------------------------------------------------------------------------
(* Sequences and messages. *)

(* No message yet. *)
LEMMA Empty == \A S : <<>> \in Seq(S) /\ Len(<<>>) = 0
  OBVIOUS

(* A message written to a channel or queue: LFQueue::push, writeMessage.    *)
LEMMA Appended ==
  ASSUME NEW S, NEW s \in Seq(S), NEW x \in S
  PROVE  /\ Append(s, x) \in Seq(S)
         /\ Len(Append(s, x)) = Len(s) + 1 /\ Len(s) \in Nat
         /\ Append(s, x)[Len(s) + 1] = x
         /\ \A i \in 1 .. Len(s) : Append(s, x)[i] = s[i]
  OBVIOUS

(* A message taken from a channel or queue: LFQueue::pop, pollMessage.     *)
LEMMA Tailed ==
  ASSUME NEW S, NEW s \in Seq(S), s # <<>>
  PROVE  /\ Tail(s) \in Seq(S)
         /\ Len(s) \in Nat \ {0} /\ Len(Tail(s)) = Len(s) - 1
         /\ \A i \in 1 .. Len(s) - 1 : Tail(s)[i] = s[i + 1]
         /\ s[1] \in S /\ Head(s) = s[1]
  OBVIOUS

(* What a sequence holds. *)
LEMMA Typed ==
  ASSUME NEW S, NEW s \in Seq(S)
  PROVE  Len(s) \in Nat /\ \A i \in 1 .. Len(s) : s[i] \in S
  OBVIOUS

(* A message without a payload, as start_siren_process_stream and most of  *)
(* the others allocate it.                                                 *)
LEMMA PlainType ==
  ASSUME NEW kind \in Kinds
  PROVE  Plain(kind) \in Messages /\ Plain(kind).msg = kind
  BY BoundsAssumption DEF Plain, Messages

(* A message that carries a state (siren_proxy.cpp:591, siren_base.cpp).   *)
LEMMA SetType ==
  ASSUME NEW kind \in Kinds, NEW n \in 0 .. MaxSets
  PROVE  /\ [Plain(kind) EXCEPT !.n = n] \in Messages
         /\ [Plain(kind) EXCEPT !.n = n].msg = kind
         /\ [Plain(kind) EXCEPT !.n = n].n = n
  BY BoundsAssumption DEF Plain, Messages

(* A message that carries the wake words (siren_proxy.cpp:704).            *)
LEMMA SyncType ==
  ASSUME NEW kind \in Kinds, NEW words \in SUBSET Words
  PROVE  /\ [Plain(kind) EXCEPT !.words = words] \in Messages
         /\ [Plain(kind) EXCEPT !.words = words].msg = kind
         /\ [Plain(kind) EXCEPT !.words = words].words = words
  BY BoundsAssumption DEF Plain, Messages

(* LFQueue::push keeps the queue within its slots. *)
LEMMA PushedType ==
  ASSUME NEW q \in Seq(Messages), NEW slots \in Nat, NEW m \in Messages
  PROVE  /\ Pushed(q, slots, m) \in Seq(Messages)
         /\ Len(q) <= slots => Len(Pushed(q, slots, m)) <= slots
         /\ \A k \in 1 .. Len(q) : Pushed(q, slots, m)[k] = q[k]
         /\ \/ Pushed(q, slots, m) = q
            \/ /\ Len(Pushed(q, slots, m)) = Len(q) + 1
               /\ Pushed(q, slots, m)[Len(q) + 1] = m
  BY Appended, Typed DEF Pushed

(* ... and so the request queue. *)
LEMMA PushType ==
  ASSUME ProxyTypeOK, NEW m \in Messages, Push(m)
  PROVE  requestQueue' \in Seq(Messages) /\ Len(requestQueue') <= ReqSlots
  BY PushedType, BoundsAssumption DEF ProxyTypeOK, Push

(* The answer socket never holds more than it has room for: the writer     *)
(* blocks.                                                                 *)
LEMMA WriteType ==
  ASSUME ChannelTypeOK, NEW m \in Messages, WriteAnswer(m)
  PROVE  answers' \in Seq(Messages) /\ Len(answers') <= AnswerRoom
  BY Appended, BoundsAssumption DEF ChannelTypeOK, WriteAnswer

(* pollMessage reads whole messages on either side.                        *)
LEMMA ReadType ==
  ASSUME ChannelTypeOK, NEW m
  PROVE  /\ ReadAnswer(m) => answers' \in Seq(Messages) /\ Len(answers') <= AnswerRoom
         /\ ReadRequest(m) => requests' \in Seq(Messages)
  <1>1. ASSUME ReadAnswer(m) PROVE answers' \in Seq(Messages) /\ Len(answers') <= AnswerRoom
    <2>1. answers \in Seq(Messages) /\ answers # <<>> /\ answers' = Tail(answers)
      BY <1>1 DEF ChannelTypeOK, ReadAnswer
    <2> QED
      BY <2>1, Tailed, BoundsAssumption DEF ChannelTypeOK
  <1>2. ASSUME ReadRequest(m) PROVE requests' \in Seq(Messages)
    <2>1. requests \in Seq(Messages) /\ requests # <<>> /\ requests' = Tail(requests)
      BY <1>2 DEF ChannelTypeOK, ReadRequest
    <2> QED
      BY <2>1, Tailed
  <1> QED
    BY <1>1, <1>2

(* The package queue of the engine. *)
LEMMA PackType ==
  ASSUME BaseTypeOK, NEW m \in Messages, processQueue' = Pushed(processQueue, PackSlots, m)
  PROVE  processQueue' \in Seq(Messages) /\ Len(processQueue') <= PackSlots
  BY PushedType, BoundsAssumption DEF BaseTypeOK

-----------------------------------------------------------------------------
(* Types.  They hold when the application starts ... *)
LEMMA InitType == Init => TypeOK
  <1> SUFFICES ASSUME Init PROVE TypeOK
    OBVIOUS
  <1>1. ChannelTypeOK
    BY Empty, BoundsAssumption DEF Init, ChannelInit, ChannelTypeOK
  <1>2. ProxyTypeOK
    <2>1. requestQueue \in Seq(Messages) /\ Len(requestQueue) <= ReqSlots
      BY Empty, BoundsAssumption DEF Init, ProxyInit
    <2>2. /\ procStream \in BOOLEAN /\ waitingInit \in BOOLEAN /\ initFailed \in BOOLEAN
          /\ mic \in BOOLEAN /\ recStart \in BOOLEAN /\ recTerm \in BOOLEAN
          /\ first \in BOOLEAN /\ inputStart \in BOOLEAN /\ recFreed \in BOOLEAN
      BY Zenon DEF Init, ProxyInit
    <2>3. calls \in 0 .. MaxCalls /\ sets \in 0 .. MaxSets /\ frames \in 0 .. MaxFrames
      BY BoundsAssumption, CallsAssumption DEF Init, ProxyInit
    <2>4. /\ app \in AppSteps /\ setter \in {"idle", "waiting", "told"}
          /\ sendT \in {"pop", "exited"} /\ recvT \in {"poll", "exited"}
          /\ vt_words \subseteq Words /\ recT \in RecSteps
      BY DEF Init, ProxyInit, AppSteps, RecSteps
    <2> QED
      BY <2>1, <2>2, <2>3, <2>4, Zenon DEF ProxyTypeOK
  <1>3. package \in Messages
    BY PlainType DEF Init, BaseInit, NoPackage, Kinds
  <1>4. processQueue \in Seq(Messages) /\ Len(processQueue) <= PackSlots
    BY Empty, BoundsAssumption DEF Init, BaseInit
  <1>5. BaseTypeOK
    <2>1. /\ procInitDone \in BOOLEAN /\ baseStart \in BOOLEAN /\ baseExit \in BOOLEAN
          /\ stateTaken \in BOOLEAN
      BY Zenon DEF Init, BaseInit
    <2>2. state \in 0 .. MaxSets /\ engineState \in 0 .. Asleep
      BY BoundsAssumption DEF Init, BaseInit, Asleep
    <2>3. mainT \in MainSteps /\ procT \in ProcSteps /\ taskT \in TaskSteps
          /\ engineWords \subseteq Words
      BY DEF Init, BaseInit, MainSteps, ProcSteps, TaskSteps
    <2> QED
      BY <1>3, <1>4, <2>1, <2>2, <2>3, Zenon DEF BaseTypeOK
  <1> QED
    BY <1>1, <1>2, <1>5 DEF TypeOK

(* ... and every call of the application keeps them, *)
LEMMA CallingType == TypeOK /\ calling /\ UNCHANGED baseVars => TypeOK'
  <1> SUFFICES ASSUME TypeOK, calling, UNCHANGED baseVars PROVE TypeOK'
    OBVIOUS
  <1> USE DEF TypeOK, ChannelTypeOK, ProxyTypeOK, channelVars, proxyVars, callVars, setVars,
      initVars, recVars, AppSteps, RecSteps, StopRecorder
  <1>b. BaseTypeOK'
    BY DEF BaseTypeOK, baseVars
  <1>1. CASE init_siren
    BY <1>1, <1>b DEF init_siren
  <1>2. CASE init_siren_answered
    <2>1. requestQueue' \in Seq(Messages) /\ Len(requestQueue') <= ReqSlots
      BY <1>2, PushType, PlainType DEF init_siren_answered, Kinds
    <2> QED
      BY <1>2, <1>b, <2>1 DEF init_siren_answered
  <1>3. CASE init_siren_joinSend
    BY <1>3, <1>b DEF init_siren_joinSend
  <1>4. CASE init_siren_joinRecv
    BY <1>4, <1>b DEF init_siren_joinRecv
  <1>5. CASE start_stream
    <2>1. calls' \in 0 .. MaxCalls /\ mic' \in BOOLEAN /\ app' \in AppSteps
      <3>1. mic' \in BOOLEAN /\ app' \in AppSteps /\ (calls' = calls + 1 /\ calls + sets < MaxCalls)
        BY <1>5, Zenon DEF start_stream
      <3> QED
        BY <3>1, CallsAssumption, BoundsAssumption
    <2>2. UNCHANGED <<channelVars, procStream, vt_words, setVars, initVars, recT, recStart, recTerm,
                      first, inputStart, recFreed, frames, requestQueue, sendT, recvT>>
      BY <1>5 DEF start_stream
    <2> QED
      BY <1>b, <2>1, <2>2
  <1>6. CASE start_recorder
    <2>1. requestQueue' \in Seq(Messages) /\ Len(requestQueue') <= ReqSlots
      BY <1>6, PushType, PlainType DEF start_recorder, Kinds
    <2> QED
      BY <1>6, <1>b, <2>1 DEF start_recorder
  <1>7. CASE stop_stream
    <2>2. procStream' \in BOOLEAN /\ app' \in AppSteps
      BY <1>7, Zenon DEF stop_stream
    <2>3. UNCHANGED <<channelVars, calls, vt_words, setVars, initVars, recVars, sendT, recvT>>
      BY <1>7 DEF stop_stream
    <2>1. requestQueue' \in Seq(Messages) /\ Len(requestQueue') <= ReqSlots
      BY <1>7, PushType, PlainType DEF stop_stream, Kinds
    <2> QED
      BY <1>b, <2>1, <2>2, <2>3
  <1>8. CASE pause_recorder
    <2>1. recStart' \in BOOLEAN /\ app' \in AppSteps
      BY <1>8, Zenon DEF pause_recorder
    <2>2. UNCHANGED <<channelVars, calls, procStream, vt_words, setVars, initVars, mic, recT,
                      recTerm, first, inputStart, recFreed, frames, requestQueue, sendT, recvT>>
      BY <1>8 DEF pause_recorder
    <2> QED
      BY <1>b, <2>1, <2>2
  <1>9. CASE add_vt_word \/ remove_vt_word
    <2>1. PICK words \in SUBSET Words : SendWords(words)
      BY <1>9 DEF add_vt_word, remove_vt_word
    <2>2. [Plain("SYNC") EXCEPT !.words = words] \in Messages
      BY SyncType DEF Kinds
    <2>3. requestQueue' \in Seq(Messages) /\ Len(requestQueue') <= ReqSlots
      BY <2>1, <2>2, PushedType, BoundsAssumption DEF SendWords, Push
    <2>4. calls' \in 0 .. MaxCalls
      BY <2>1, CallsAssumption, BoundsAssumption DEF SendWords
    <2> QED
      BY <1>b, <2>1, <2>3, <2>4 DEF SendWords
  <1>10. CASE destroy_siren
    BY <1>10, <1>b DEF destroy_siren
  <1>11. CASE delete_recorder
    <2>2. recFreed' \in BOOLEAN /\ audioOpen' \in BOOLEAN /\ app' \in AppSteps
      BY <1>11, Zenon DEF delete_recorder
    <2>3. UNCHANGED <<requests, answers, audio, engineAlive, calls, procStream, vt_words, setVars,
                      initVars, mic, recT, recStart, recTerm, first, inputStart, frames, sendT,
                      recvT>>
      BY <1>11 DEF delete_recorder
    <2>1. requestQueue' \in Seq(Messages) /\ Len(requestQueue') <= ReqSlots
      BY <1>11, PushType, PlainType DEF delete_recorder, Kinds
    <2> QED
      BY <1>b, <2>1, <2>2, <2>3
  <1>12. CASE destroy_wait
    BY <1>12, <1>b DEF destroy_wait, destroy_join
  <1> QED
    BY <1>1, <1>2, <1>3, <1>4, <1>5, <1>6, <1>7, <1>8, <1>9, <1>10, <1>11, <1>12 DEF calling

(* the threads of the proxy, *)
LEMMA ProxyThreadsType ==
  TypeOK /\ (setting \/ sendRequest \/ receiving \/ recording) /\ UNCHANGED baseVars => TypeOK'
  <1> SUFFICES ASSUME TypeOK, setting \/ sendRequest \/ receiving \/ recording,
                      UNCHANGED baseVars
               PROVE  TypeOK'
    OBVIOUS
  <1> USE DEF TypeOK, ChannelTypeOK, ProxyTypeOK, channelVars, proxyVars, callVars, setVars,
      initVars, recVars, AppSteps, RecSteps
  <1>b. BaseTypeOK'
    BY DEF BaseTypeOK, baseVars
  <1>1. CASE set_siren_state
    <2>1. sets + 1 \in 0 .. MaxSets
      BY <1>1, BoundsAssumption DEF set_siren_state
    <2>2. [Plain("SET") EXCEPT !.n = sets + 1] \in Messages
      BY <2>1, SetType DEF Kinds
    <2>3. requestQueue' \in Seq(Messages) /\ Len(requestQueue') <= ReqSlots
      BY <1>1, <2>2, PushedType, BoundsAssumption DEF set_siren_state, Push
    <2> QED
      BY <1>1, <1>b, <2>1, <2>3 DEF set_siren_state
  <1>2. CASE set_siren_state_returns \/ set_siren_state_timeout
    BY <1>2, <1>b DEF set_siren_state_returns, set_siren_state_timeout
  <1>3. CASE sendRequest
    <2>1. Head(requestQueue) \in Messages /\ requestQueue' \in Seq(Messages)
          /\ Len(requestQueue') <= ReqSlots
      BY <1>3, Tailed, BoundsAssumption DEF sendRequest
    <2>2. requests' \in Seq(Messages)
      <3>1. requests' = requests \/ requests' = Append(requests, Head(requestQueue))
        BY <1>3 DEF sendRequest, WriteRequest
      <3> QED
        <4>1. requests \in Seq(Messages)
          OBVIOUS
        <4>2. CASE requests' = requests
          BY <4>1, <4>2
        <4>3. CASE requests' = Append(requests, Head(requestQueue))
          BY <4>1, <4>3, <2>1, Appended
        <4> QED
          BY <3>1, <4>2, <4>3
    <2> QED
      BY <1>3, <1>b, <2>1, <2>2 DEF sendRequest
  <1>4. CASE receiving
    <2>1. answers' \in Seq(Messages) /\ Len(answers') <= AnswerRoom
      <3>1. \E m : ReadAnswer(m)
        BY <1>4 DEF receiving, recvInit, recvVoice, recvState, recvDestroy
      <3> QED
        BY <3>1, ReadType
    <2>2. recvT' \in {"poll", "exited"} /\ waitingInit' \in BOOLEAN /\ initFailed' \in BOOLEAN
          /\ setter' \in {"idle", "waiting", "told"}
      BY <1>4 DEF receiving, recvInit, recvVoice, recvState, recvDestroy
    <2>3. UNCHANGED <<requests, audio, audioOpen, engineAlive, callVars, sets, recVars,
                      requestQueue, sendT>>
      BY <1>4 DEF receiving, recvInit, recvVoice, recvState, recvDestroy
    <2> QED
      BY <1>b, <2>1, <2>2, <2>3
  <1>5. CASE recTop \/ recTest
    <2>1. recT' \in RecSteps /\ mic' \in BOOLEAN /\ first' \in BOOLEAN
          /\ inputStart' \in BOOLEAN
      BY <1>5, Zenon DEF recTop, recTest
    <2>2. UNCHANGED <<channelVars, callVars, setVars, initVars, recStart, recTerm, recFreed,
                      frames, requestQueue, sendT, recvT>>
      BY <1>5 DEF recTop, recTest
    <2> QED
      BY <1>b, <2>1, <2>2
  <1>6. CASE recRead
    BY <1>6, <1>b, CallsAssumption DEF recRead
  <1>7. CASE recWrite
    <2>1. audio' \in Seq(Nat) /\ Len(audio') <= AudioRoom
      <3>1. audio' = audio \/ (Len(audio) < AudioRoom /\ audio' = Append(audio, frames))
        BY <1>7 DEF recWrite
      <3>2. frames \in Nat
        BY CallsAssumption
      <3> QED
        <4>1. audio \in Seq(Nat)
          OBVIOUS
        <4>2. CASE audio' = audio
          BY <4>1, <4>2
        <4>3. CASE Len(audio) < AudioRoom /\ audio' = Append(audio, frames)
          BY <4>1, <4>3, <3>2, Appended, BoundsAssumption
        <4> QED
          BY <3>1, <4>2, <4>3
    <2> QED
      BY <1>7, <1>b, <2>1 DEF recWrite
  <1> QED
    BY <1>1, <1>2, <1>3, <1>4, <1>5, <1>6, <1>7 DEF setting, recording

(* the process thread of the engine, *)
LEMMA ProcType == TypeOK /\ processThread /\ UNCHANGED proxyVars => TypeOK'
  <1> SUFFICES ASSUME TypeOK, processThread, UNCHANGED proxyVars PROVE TypeOK'
    OBVIOUS
  <1> USE DEF TypeOK, ChannelTypeOK, BaseTypeOK, channelVars, baseVars, MainSteps, ProcSteps,
      TaskSteps
  <1>p. ProxyTypeOK'
    BY DEF ProxyTypeOK, proxyVars, callVars, setVars, initVars, recVars
  <1>1. CASE procBegin
    BY <1>1, <1>p DEF procBegin
  <1>2. CASE procPop
    <2>1. /\ processQueue' \in Seq(Messages) /\ Len(processQueue') <= PackSlots
          /\ package' \in Messages
      BY <1>2, Tailed, BoundsAssumption DEF procPop
    <2> QED
      BY <1>2, <1>p, <2>1 DEF procPop
  <1>3. CASE procTakeState
    BY <1>3, <1>p DEF procTakeState
  <1>4. CASE procSetState
    <2>1. [Plain("STATE") EXCEPT !.n = state] \in Messages
      BY SetType DEF Kinds
    <2>2. answers' \in Seq(Messages) /\ Len(answers') <= AnswerRoom
      BY <1>4, <2>1, Appended, BoundsAssumption DEF procSetState, WriteAnswer
    <2>3. engineState' \in 0 .. Asleep
      BY <1>4, BoundsAssumption DEF procSetState, Asleep
    <2> QED
      BY <1>4, <1>p, <2>2, <2>3 DEF procSetState
  <1>5. CASE procFrame
    <2>1. answers' \in Seq(Messages) /\ Len(answers') <= AnswerRoom
      BY <1>5, PlainType, WriteType DEF procFrame, Kinds
    <2>2. engineState' \in 0 .. Asleep /\ package' \in Messages
      BY <1>5, BoundsAssumption, PlainType DEF procFrame, Asleep, NoPackage, Kinds
    <2> QED
      BY <1>5, <1>p, <2>1, <2>2 DEF procFrame
  <1>6. CASE procSync
    <2>1. engineWords' \subseteq Words /\ package' \in Messages
      BY <1>6, PlainType DEF procSync, NoPackage, Kinds, Messages
    <2> QED
      BY <1>6, <1>p, <2>1 DEF procSync
  <1>7. CASE procDestroy
    BY <1>7, <1>p DEF procDestroy
  <1> QED
    BY <1>1, <1>2, <1>3, <1>4, <1>5, <1>6, <1>7 DEF processThread

(* its response thread and its main thread. *)
LEMMA EngineType == TypeOK /\ (taskThread \/ mainThread) /\ UNCHANGED proxyVars => TypeOK'
  <1> SUFFICES ASSUME TypeOK, taskThread \/ mainThread, UNCHANGED proxyVars PROVE TypeOK'
    OBVIOUS
  <1> USE DEF TypeOK, ChannelTypeOK, BaseTypeOK, channelVars, procVars, MainSteps, ProcSteps,
      TaskSteps
  <1>p. ProxyTypeOK'
    BY DEF ProxyTypeOK, proxyVars, callVars, setVars, initVars, recVars
  <1>1. CASE taskStart \/ taskStop
    <2>1. requests' \in Seq(Messages)
      BY <1>1, ReadType DEF taskStart, taskStop
    <2>2. baseStart' \in BOOLEAN
      BY <1>1 DEF taskStart, taskStop
    <2>3. UNCHANGED <<answers, audio, audioOpen, engineAlive, mainT, taskT, baseExit,
                      procInitDone, state, stateTaken, processQueue, procVars>>
      BY <1>1 DEF taskStart, taskStop
    <2> QED
      BY <1>p, <2>1, <2>2, <2>3
  <1>2. CASE taskState
    <2>1. requests' \in Seq(Messages) /\ state' \in 0 .. MaxSets
      BY <1>2, Tailed, BoundsAssumption DEF taskState, ReadRequest
    <2> QED
      BY <1>2, <1>p, <2>1 DEF taskState
  <1>3. CASE taskClear
    BY <1>3, <1>p DEF taskClear
  <1>4. CASE taskSync
    <2>1. PICK words \in SUBSET Words :
            LET m == [Plain("SYNC") EXCEPT !.words = words] IN
            ReadRequest(m) /\ processQueue' = Pushed(processQueue, PackSlots, m)
      BY <1>4 DEF taskSync
    <2>2. requests' \in Seq(Messages)
      BY <2>1, Tailed DEF ReadRequest
    <2>3. [Plain("SYNC") EXCEPT !.words = words] \in Messages
      BY SyncType DEF Kinds
    <2>4. processQueue' \in Seq(Messages) /\ Len(processQueue') <= PackSlots
      BY <2>1, <2>3, PushedType, BoundsAssumption
    <2> QED
      BY <1>4, <1>p, <2>2, <2>4 DEF taskSync
  <1>5. CASE taskDestroy
    <2>1. requests' \in Seq(Messages)
      BY <1>5, Tailed DEF taskDestroy, ReadRequest
    <2>2. processQueue' \in Seq(Messages) /\ Len(processQueue') <= PackSlots
      BY <1>5, PlainType, PushedType, BoundsAssumption DEF taskDestroy, Kinds
    <2> QED
      BY <1>5, <1>p, <2>1, <2>2 DEF taskDestroy
  <1>6. CASE taskBye
    <2>1. answers' \in Seq(Messages) /\ Len(answers') <= AnswerRoom
      BY <1>6, PlainType, Appended, BoundsAssumption DEF taskBye, WriteAnswer, Kinds
    <2> QED
      BY <1>6, <1>p, <2>1 DEF taskBye
  <1>7. CASE mainPreInit
    <2>1. answers' \in Seq(Messages) /\ Len(answers') <= AnswerRoom
      BY <1>7, PlainType, WriteType DEF mainPreInit, Kinds
    <2>2. processQueue' \in Seq(Messages) /\ Len(processQueue') <= PackSlots
      BY <1>7, PlainType, PackType DEF mainPreInit, Kinds
    <2> QED
      BY <1>7, <1>p, <2>1, <2>2 DEF mainPreInit
  <1>8. CASE mainRead
    <2>1. audio' \in Seq(Nat) /\ Len(audio') <= AudioRoom
      BY <1>8, Tailed, BoundsAssumption DEF mainRead
    <2>2. processQueue' \in Seq(Messages) /\ Len(processQueue') <= PackSlots
      BY <1>8, PlainType, PackType DEF mainRead, Kinds
    <2> QED
      BY <1>8, <1>p, <2>1, <2>2 DEF mainRead
  <1>9. CASE mainWaitInit \/ mainWait \/ mainReadEnd \/ mainJoin
    <2>1. mainT' \in MainSteps /\ engineAlive' \in BOOLEAN
      BY <1>9 DEF mainWaitInit, mainWait, mainReadEnd, mainJoin
    <2>2. UNCHANGED <<requests, answers, audio, audioOpen, procT, taskT, procInitDone, baseStart,
                      baseExit, state, stateTaken, processQueue, package, engineState,
                      engineWords>>
      BY <1>9 DEF mainWaitInit, mainWait, mainReadEnd, mainJoin
    <2> QED
      BY <1>p, <2>1, <2>2
  <1> QED
    BY <1>1, <1>2, <1>3, <1>4, <1>5, <1>6, <1>7, <1>8, <1>9 DEF taskThread, mainThread

(* Nothing happens. *)
LEMMA StutterType == TypeOK /\ UNCHANGED vars => TypeOK'
  BY DEF TypeOK, ChannelTypeOK, ProxyTypeOK, BaseTypeOK, vars, channelVars, proxyVars, baseVars,
     callVars, setVars, initVars, recVars

(* Both sides of libbsiren and the channels keep their types, and the      *)
(* queues and sockets their sizes (siren_proxy.cpp, siren_base.cpp).       *)
THEOREM TypeCorrect == Spec => []TypeOK
  <1>1. TypeOK /\ [Next]_vars => TypeOK'
    BY CallingType, ProxyThreadsType, ProcType, EngineType, StutterType
    DEF Next, proxyNext, baseNext
  <1> QED
    BY <1>1, InitType, PTL DEF Spec
-----------------------------------------------------------------------------
(* Nothing outlives destroy_siren.  destroy_siren has pushed DESTROY.      *)
After == {"joinSend", "joinRecv", "waitpid", "gone"}
(* The engine has told, or is about to tell, that it did not come up.      *)
Failing == Carries(answers, "INIT_FAILED") \/ initFailed
(* The main thread of the engine has not answered the start yet.           *)
Early == {"waitInit", "asleepInit", "preInit"}
InitMsg == {"INIT_OK", "INIT_FAILED"}

(* Who waited for whom: destroy_siren for the two threads and the engine,  *)
(* the main thread of the engine for its two.                              *)
JoinInv ==
  /\ app \in {"joinRecv", "waitpid", "gone", "failRecv"} => sendT = "exited"
  /\ app \in {"waitpid", "gone"} => recvT = "exited"
  /\ app = "gone" => ~engineAlive
  /\ ~engineAlive => mainT = "exited"
  /\ mainT = "exited" => taskT = "exited" /\ procT = "exited"

(* DESTROY is the last request; when the engine has read it nothing is on  *)
(* its way.                                                                *)
DestroyInv ==
  /\ \A k \in 1 .. Len(requestQueue) : requestQueue[k].msg = "DESTROY" =>
       k = Len(requestQueue) /\ app \in After
  /\ \A k \in 1 .. Len(requests) : requests[k].msg = "DESTROY" =>
       k = Len(requests) /\ requestQueue = <<>> /\ app \in After
  /\ taskT \in {"bye", "exited"} => requests = <<>> /\ requestQueue = <<>> /\ app \in After

(* ON_DESTROY is written once, while somebody reads.                       *)
FarewellInv ==
  /\ \A j, k \in 1 .. Len(answers) :
       answers[j].msg = "ON_DESTROY" /\ answers[k].msg = "ON_DESTROY" => j = k
  /\ Carries(answers, "ON_DESTROY") => taskT = "exited" /\ recvT = "poll"
  /\ recvT = "exited" => initFailed \/ taskT = "exited"

(* The start is answered once.                                             *)
AnswerInv ==
  /\ \A j, k \in 1 .. Len(answers) :
       answers[j].msg \in InitMsg /\ answers[k].msg \in InitMsg => j = k
  /\ \A k \in 1 .. Len(answers) : answers[k].msg \in InitMsg => ~waitingInit
  /\ initFailed => waitingInit
  /\ mainT \in Early => /\ taskT = "none" /\ ~waitingInit
                        /\ \A k \in 1 .. Len(answers) : answers[k].msg \notin InitMsg

(* Nothing is asked of the engine before init_siren has returned, nor of   *)
(* an engine that failed: its response thread waits for good.              *)
FailInv ==
  /\ app \notin {"new", "initWait"} => waitingInit
  /\ app \in {"new", "initWait"} => requestQueue = <<>> /\ requests = <<>> /\ sendT = "pop"
  /\ app = "failSend" => /\ initFailed
       /\ \A k \in 1 .. Len(requestQueue) : requestQueue[k].msg = "DESTROY_ON_INIT"
  /\ Failing => mainT = "join" /\ taskT = "poll" /\ requests = <<>>
  /\ Failing /\ app \notin {"new", "initWait", "failSend"} => sendT = "exited"

IInv == JoinInv /\ DestroyInv /\ FarewellInv /\ AnswerInv /\ FailInv

(* A request pushed (siren_proxy.cpp): it comes last, or is lost.          *)
LEMMA PushItems ==
  ASSUME TypeOK, NEW m \in Messages, Push(m)
  PROVE  /\ Len(requestQueue') \in Nat /\ Len(requestQueue) \in Nat
         /\ Len(requestQueue) <= Len(requestQueue')
         /\ \A k \in 1 .. Len(requestQueue) : requestQueue'[k] = requestQueue[k]
         /\ \A k \in 1 .. Len(requestQueue') :
              \/ k \in 1 .. Len(requestQueue) /\ requestQueue'[k] = requestQueue[k]
              \/ /\ k = Len(requestQueue) + 1 /\ k = Len(requestQueue')
                 /\ requestQueue'[k] = m
  <1>1. requestQueue \in Seq(Messages)
    BY DEF TypeOK, ProxyTypeOK
  <1>2. CASE requestQueue' = requestQueue
    BY <1>1, <1>2, Typed
  <1>3. CASE requestQueue' = Append(requestQueue, m)
    BY <1>1, <1>3, Appended
  <1> QED
    BY <1>2, <1>3 DEF Push, Pushed

(* The head taken: every other message moves up by one.                    *)
LEMMA TailItems ==
  ASSUME NEW q \in Seq(Messages), q # <<>>, NEW r, r = Tail(q)
  PROVE  /\ Len(r) \in Nat /\ Len(q) \in Nat \ {0} /\ Len(q) = Len(r) + 1
         /\ \A k \in 1 .. Len(r) : k + 1 \in 1 .. Len(q) /\ r[k] = q[k + 1]
         /\ \A k \in 1 .. Len(q) : k = 1 \/ (k - 1 \in 1 .. Len(r) /\ q[k] = r[k - 1])
         /\ Len(q) = 1 => r = <<>>
  <1>1. r \in Seq(Messages) /\ Len(q) \in Nat \ {0} /\ Len(r) = Len(q) - 1
        /\ \A i \in 1 .. Len(q) - 1 : r[i] = q[i + 1]
    BY Tailed
  <1>2. Len(q) = 1 => r = <<>>
    BY <1>1
  <1> QED
    BY <1>1, <1>2

(* A message written comes last.                                           *)
LEMMA AppendItems ==
  ASSUME NEW q \in Seq(Messages), NEW m \in Messages, NEW r, r = Append(q, m)
  PROVE  /\ Len(q) \in Nat /\ Len(r) = Len(q) + 1 /\ r # <<>>
         /\ \A k \in 1 .. Len(q) : r[k] = q[k]
         /\ \A k \in 1 .. Len(r) : \/ k \in 1 .. Len(q) /\ r[k] = q[k]
                                   \/ k = Len(r) /\ r[k] = m
  BY Appended

(* Before init_siren there is nothing to end.                              *)
LEMMA InitInv == Init => IInv
  BY Empty DEF Init, ChannelInit, ProxyInit, BaseInit, IInv, JoinInv, DestroyInv, FarewellInv,
     AnswerInv, FailInv, Failing, Carries, Early, After

(* The variables IInv is about. *)
ctlVars == <<app, sendT, recvT, engineAlive, mainT, taskT, procT, requestQueue, requests, answers,
             waitingInit, initFailed>>

(* IInv is about ctlVars only.                                             *)
LEMMA CtlUnchanged == IInv /\ UNCHANGED ctlVars => IInv'
  BY DEF IInv, JoinInv, DestroyInv, FarewellInv, AnswerInv, FailInv, Failing, Carries, ctlVars

(* The calls of a running library push requests other than DESTROY:        *)
(* START, STOP, SET and SYNC (siren_proxy.cpp:547 to 747).                 *)
LEMMA PushInv ==
  ASSUME TypeOK, IInv, NEW m \in Messages, Push(m), m.msg # "DESTROY",
         app \in {"idle", "started", "pausing"}, app' \in {"idle", "started", "pausing"},
         UNCHANGED <<sendT, recvT, engineAlive, mainT, taskT, procT, requests, answers,
                     waitingInit, initFailed>>
  PROVE  IInv'
  <1>1. requestQueue \in Seq(Messages)
    BY DEF TypeOK, ProxyTypeOK
  <1>2. \A k \in 1 .. Len(requestQueue') :
          \/ k \in 1 .. Len(requestQueue) /\ requestQueue'[k] = requestQueue[k]
          \/ requestQueue'[k] = m
    BY PushItems
  <1>3. JoinInv' /\ FarewellInv' /\ AnswerInv'
    BY DEF IInv, JoinInv, FarewellInv, AnswerInv, Carries
  <1>4. DestroyInv'
    BY <1>2 DEF IInv, DestroyInv, After
  <1>5. FailInv'
    BY DEF IInv, FailInv, Failing, Carries
  <1> QED
    BY <1>3, <1>4, <1>5 DEF IInv

(* Every call of the application: init_siren to destroy_siren.             *)
LEMMA CallingInv == TypeOK /\ IInv /\ calling /\ UNCHANGED baseVars => IInv'
  <1> SUFFICES ASSUME TypeOK, IInv, calling, UNCHANGED baseVars PROVE IInv'
    OBVIOUS
  <1>b. UNCHANGED <<mainT, taskT, procT>>
    BY DEF baseVars
  <1> USE DEF channelVars, callVars, setVars, initVars, recVars
  <1>1. CASE init_siren \/ init_siren_joinSend \/ init_siren_joinRecv \/ start_stream
             \/ pause_recorder \/ destroy_siren
    <2>1. /\ app' = "initWait" => app = "new"
          /\ app' # "new" /\ app' \notin After /\ app' # "failSend"
          /\ app' = "failRecv" => sendT = "exited"
          /\ app = "new" => app' = "initWait"
          /\ app # "new" => app' # "initWait" /\ app # "initWait"
          /\ app = "failSend" => sendT = "exited"
          /\ app \notin After
      BY <1>1
      DEF init_siren, init_siren_joinSend, init_siren_joinRecv, start_stream, pause_recorder,
          destroy_siren, After
    <2>2. UNCHANGED <<sendT, recvT, engineAlive, requestQueue, requests, answers, waitingInit,
                      initFailed>>
      BY <1>1
      DEF init_siren, init_siren_joinSend, init_siren_joinRecv, start_stream, pause_recorder,
          destroy_siren
    <2>3. JoinInv' /\ DestroyInv' /\ FarewellInv' /\ AnswerInv'
      BY <1>b, <2>1, <2>2 DEF IInv, JoinInv, DestroyInv, FarewellInv, AnswerInv, Carries, After
    <2>4. FailInv'
      BY <1>b, <2>1, <2>2 DEF IInv, FailInv, Failing, Carries
    <2> QED
      BY <2>3, <2>4 DEF IInv
  <1>2. CASE init_siren_answered
    <2>1. /\ app = "initWait" /\ waitingInit /\ app' \in {"failSend", "idle"}
          /\ app' = "failSend" => initFailed /\ Push(Plain("DESTROY_ON_INIT"))
          /\ app' = "idle" => ~initFailed /\ UNCHANGED requestQueue
          /\ UNCHANGED <<sendT, recvT, engineAlive, requests, answers, waitingInit, initFailed>>
      BY <1>2 DEF init_siren_answered
    <2>2. requestQueue = <<>>
      BY <2>1 DEF IInv, FailInv
    <2>3. \A k \in 1 .. Len(requestQueue') : requestQueue'[k].msg = "DESTROY_ON_INIT"
      <3>1. CASE app' = "idle"
        BY <2>1, <2>2, <3>1
      <3>2. CASE app' = "failSend"
        <4>1. Plain("DESTROY_ON_INIT") \in Messages
              /\ Plain("DESTROY_ON_INIT").msg = "DESTROY_ON_INIT"
          BY PlainType DEF Kinds
        <4> QED
          BY <2>1, <2>2, <3>2, <4>1, PushItems, Empty
      <3> QED
        BY <2>1, <3>1, <3>2
    <2>4. JoinInv' /\ FarewellInv' /\ AnswerInv'
      BY <1>b, <2>1 DEF IInv, JoinInv, FarewellInv, AnswerInv, Carries
    <2>5. DestroyInv'
      BY <1>b, <2>1, <2>3 DEF IInv, DestroyInv, After
    <2>6. Failing => sendT = "exited" \/ app' = "failSend"
      BY <2>1 DEF Failing, IInv, AnswerInv, Carries, InitMsg
    <2>7. FailInv'
      BY <1>b, <2>1, <2>3, <2>6 DEF IInv, FailInv, Failing, Carries
    <2> QED
      BY <2>4, <2>5, <2>7 DEF IInv
  <1>3. CASE start_recorder
    BY <1>3, <1>b, PushInv, PlainType DEF start_recorder, Kinds
  <1>4. CASE stop_stream
    BY <1>4, <1>b, PushInv, PlainType DEF stop_stream, Kinds
  <1>5. CASE add_vt_word \/ remove_vt_word
    <2>1. PICK words \in SUBSET Words : SendWords(words)
      BY <1>5 DEF add_vt_word, remove_vt_word, TypeOK, ProxyTypeOK
    <2>2. [Plain("SYNC") EXCEPT !.words = words] \in Messages
          /\ [Plain("SYNC") EXCEPT !.words = words].msg = "SYNC"
      BY SyncType DEF Kinds
    <2> QED
      BY <1>b, <2>1, <2>2, PushInv DEF SendWords
  <1>6. CASE delete_recorder
    <2>1. /\ app = "deleting" /\ app' = "joinSend" /\ Push(Plain("DESTROY"))
          /\ UNCHANGED <<sendT, recvT, engineAlive, requests, answers, waitingInit, initFailed>>
      BY <1>6 DEF delete_recorder
    <2>2. \A k \in 1 .. Len(requestQueue') :
            \/ k \in 1 .. Len(requestQueue) /\ requestQueue'[k] = requestQueue[k]
            \/ k = Len(requestQueue')
      <3>1. Plain("DESTROY") \in Messages
        BY PlainType DEF Kinds
      <3> QED
        BY <2>1, <3>1, PushItems
    <2>3. JoinInv' /\ FarewellInv' /\ AnswerInv'
      BY <1>b, <2>1 DEF IInv, JoinInv, FarewellInv, AnswerInv, Carries
    <2>4. DestroyInv'
      BY <1>b, <2>1, <2>2 DEF IInv, DestroyInv, After
    <2>5. FailInv'
      BY <1>b, <2>1 DEF IInv, FailInv, Failing, Carries
    <2> QED
      BY <2>3, <2>4, <2>5 DEF IInv
  <1>7. CASE destroy_wait
    <2>1. /\ app \in After /\ app' \in After
          /\ app' = "joinRecv" => sendT = "exited"
          /\ app' = "waitpid" => app = "joinRecv" /\ recvT = "exited"
          /\ app' = "gone" => app = "waitpid" /\ ~engineAlive
          /\ app' # "joinSend"
      BY <1>7 DEF destroy_wait, destroy_join, After
    <2>2. UNCHANGED <<sendT, recvT, engineAlive, requestQueue, requests, answers, waitingInit,
                      initFailed>>
      BY <1>7 DEF destroy_wait
    <2>3. JoinInv' /\ FarewellInv' /\ AnswerInv'
      BY <1>b, <2>1, <2>2 DEF IInv, JoinInv, FarewellInv, AnswerInv, Carries, After
    <2>4. DestroyInv'
      BY <1>b, <2>1, <2>2 DEF IInv, DestroyInv
    <2>5. FailInv'
      BY <1>b, <2>1, <2>2 DEF IInv, FailInv, Failing, Carries, After
    <2> QED
      BY <2>3, <2>4, <2>5 DEF IInv
  <1> QED
    BY <1>1, <1>2, <1>3, <1>4, <1>5, <1>6, <1>7 DEF calling

(* set_siren_state, and the recorder, which has no part in IInv.           *)
LEMMA SettingInv ==
  TypeOK /\ IInv /\ (setting \/ recording) /\ UNCHANGED baseVars => IInv'
  <1> SUFFICES ASSUME TypeOK, IInv, setting \/ recording, UNCHANGED baseVars PROVE IInv'
    OBVIOUS
  <1>b. UNCHANGED <<mainT, taskT, procT>>
    BY DEF baseVars
  <1> USE DEF channelVars, callVars, initVars, recVars
  <1>1. CASE set_siren_state
    <2>1. sets + 1 \in 0 .. MaxSets
      BY <1>1, BoundsAssumption DEF set_siren_state, TypeOK, ProxyTypeOK
    <2>2. [Plain("SET") EXCEPT !.n = sets + 1] \in Messages
          /\ [Plain("SET") EXCEPT !.n = sets + 1].msg = "SET"
      BY <2>1, SetType DEF Kinds
    <2>3. /\ app \in {"idle", "started", "pausing"} /\ app' = app
          /\ Push([Plain("SET") EXCEPT !.n = sets + 1])
          /\ UNCHANGED <<sendT, recvT, engineAlive, requests, answers, waitingInit, initFailed>>
      BY <1>1 DEF set_siren_state
    <2> QED
      BY <1>b, <2>2, <2>3, PushInv
  <1>2. CASE set_siren_state_returns \/ set_siren_state_timeout
    BY <1>2, <1>b, CtlUnchanged DEF set_siren_state_returns, set_siren_state_timeout, ctlVars
  <1>3. CASE recording
    BY <1>3, <1>b, CtlUnchanged DEF recording, recTop, recTest, recRead, recWrite, ctlVars, setVars
  <1> QED
    BY <1>1, <1>2, <1>3 DEF setting

(* requestThreadHandler (siren_proxy.cpp:342): nothing comes after a       *)
(* DESTROY, and nothing is sent to an engine that failed.                  *)
LEMMA SendInv == TypeOK /\ IInv /\ sendRequest /\ UNCHANGED baseVars => IInv'
  <1> SUFFICES ASSUME TypeOK, IInv, sendRequest, UNCHANGED baseVars PROVE IInv'
    OBVIOUS
  <1>b. UNCHANGED <<mainT, taskT, procT>>
    BY DEF baseVars
  <1>1. /\ sendT = "pop" /\ requestQueue # <<>> /\ requestQueue' = Tail(requestQueue)
        /\ Head(requestQueue).msg = "DESTROY_ON_INIT" => sendT' = "exited" /\ requests' = requests
        /\ requests' = requests \/ requests' = Append(requests, Head(requestQueue))
        /\ sendT' \in {"pop", "exited"}
        /\ UNCHANGED <<app, recvT, engineAlive, answers, waitingInit, initFailed>>
    BY DEF sendRequest, WriteRequest, callVars, initVars
  <1>2. requestQueue \in Seq(Messages) /\ requests \in Seq(Messages)
    BY DEF TypeOK, ProxyTypeOK, ChannelTypeOK
  <1>3. /\ Head(requestQueue) = requestQueue[1] /\ requestQueue[1] \in Messages
        /\ Len(requestQueue') \in Nat /\ Len(requestQueue) = Len(requestQueue') + 1
        /\ Len(requestQueue) = 1 => requestQueue' = <<>>
        /\ \A k \in 1 .. Len(requestQueue') :
             k + 1 \in 1 .. Len(requestQueue) /\ requestQueue'[k] = requestQueue[k + 1]
    BY <1>1, <1>2, TailItems, Tailed
  <1>4. JoinInv' /\ FarewellInv' /\ AnswerInv'
    BY <1>b, <1>1 DEF IInv, JoinInv, FarewellInv, AnswerInv, Carries
  <1>5. DestroyInv'
    <2>1. \A k \in 1 .. Len(requestQueue') : requestQueue'[k].msg = "DESTROY" =>
            k = Len(requestQueue') /\ app \in After
      BY <1>3 DEF IInv, DestroyInv
    <2>2. taskT \notin {"bye", "exited"}
      BY <1>1, <1>2, <1>3 DEF IInv, DestroyInv
    <2>3. \A k \in 1 .. Len(requests) : requests[k].msg # "DESTROY"
      BY <1>1 DEF IInv, DestroyInv
    <2>4. CASE requests' = requests
      BY <1>b, <1>1, <2>1, <2>2, <2>3, <2>4 DEF DestroyInv
    <2>5. CASE requests' = Append(requests, requestQueue[1])
      <3>1. \A k \in 1 .. Len(requests') : \/ k \in 1 .. Len(requests) /\ requests'[k] = requests[k]
                                           \/ k = Len(requests') /\ requests'[k] = requestQueue[1]
        BY <1>2, <1>3, <2>5, AppendItems
      <3>2. requestQueue[1].msg = "DESTROY" => requestQueue' = <<>> /\ app \in After
        BY <1>3 DEF IInv, DestroyInv
      <3> QED
        BY <1>b, <1>1, <2>1, <2>2, <2>3, <3>1, <3>2 DEF DestroyInv
    <2> QED
      BY <1>1, <1>3, <2>4, <2>5
  <1>6. FailInv'
    <2>1. app \notin {"new", "initWait"}
      BY <1>1 DEF IInv, FailInv
    <2>2. app = "failSend" =>
            /\ requestQueue[1].msg = "DESTROY_ON_INIT"
            /\ \A k \in 1 .. Len(requestQueue') : requestQueue'[k].msg = "DESTROY_ON_INIT"
      BY <1>3 DEF IInv, FailInv
    <2>3. Failing => app = "failSend" /\ sendT' = "exited" /\ requests' = requests
      BY <1>1, <1>3, <2>1, <2>2 DEF IInv, FailInv
    <2> QED
      BY <1>b, <1>1, <2>1, <2>2, <2>3 DEF IInv, FailInv, Failing, Carries
  <1> QED
    BY <1>4, <1>5, <1>6 DEF IInv

(* responseThreadHandler (siren_proxy.cpp:410).                            *)
LEMMA ReceivingInv == TypeOK /\ IInv /\ receiving /\ UNCHANGED baseVars => IInv'
  <1> SUFFICES ASSUME TypeOK, IInv, receiving, UNCHANGED baseVars PROVE IInv'
    OBVIOUS
  <1>b. UNCHANGED <<mainT, taskT, procT>>
    BY DEF baseVars
  <1>1. /\ recvT = "poll" /\ recvT' \in {"poll", "exited"}
        /\ answers # <<>> /\ answers' = Tail(answers)
        /\ UNCHANGED <<app, sendT, engineAlive, requestQueue, requests>>
    BY DEF receiving, recvInit, recvVoice, recvState, recvDestroy, ReadAnswer, callVars
  <1>2. answers \in Seq(Messages)
    BY DEF TypeOK, ChannelTypeOK
  <1>3. /\ Head(answers) = answers[1] /\ Len(answers) \in Nat \ {0}
        /\ Len(answers') \in Nat /\ Len(answers) = Len(answers') + 1
        /\ \A k \in 1 .. Len(answers') :
             k + 1 \in 1 .. Len(answers) /\ answers'[k] = answers[k + 1]
    BY <1>1, <1>2, TailItems, Tailed
  <1>4. \/ /\ answers[1].msg \in InitMsg /\ waitingInit'
           /\ \/ answers[1].msg = "INIT_OK" /\ UNCHANGED <<initFailed, recvT>>
              \/ answers[1].msg = "INIT_FAILED" /\ initFailed' /\ recvT' = "exited"
        \/ answers[1].msg \notin InitMsg \cup {"ON_DESTROY"}
           /\ UNCHANGED <<recvT, waitingInit, initFailed>>
        \/ /\ answers[1].msg = "ON_DESTROY" /\ recvT' = "exited"
           /\ UNCHANGED <<waitingInit, initFailed>>
    <2>1. CASE recvInit
      BY <1>3, <2>1, PlainType DEF recvInit, ReadAnswer, InitMsg, Kinds
    <2>2. CASE recvVoice
      BY <1>3, <2>2, PlainType DEF recvVoice, ReadAnswer, InitMsg, Kinds, initVars
    <2>3. CASE recvState
      <3>1. PICK n \in 0 .. MaxSets : ReadAnswer([Plain("STATE") EXCEPT !.n = n])
        BY <2>3 DEF recvState
      <3>2. answers[1].msg = "STATE"
        <4>1. [Plain("STATE") EXCEPT !.n = n].msg = "STATE"
          BY SetType DEF Kinds
        <4> QED
          BY <1>3, <3>1, <4>1 DEF ReadAnswer
      <3>3. UNCHANGED <<recvT, waitingInit, initFailed>>
        BY <2>3 DEF recvState, initVars
      <3> QED
        BY <3>2, <3>3 DEF InitMsg
    <2>4. CASE recvDestroy
      BY <1>3, <2>4, PlainType DEF recvDestroy, ReadAnswer, InitMsg, Kinds, initVars
    <2> QED
      BY <2>1, <2>2, <2>3, <2>4 DEF receiving
  <1>5. JoinInv'
    BY <1>b, <1>1 DEF IInv, JoinInv
  <1>6. DestroyInv'
    BY <1>b, <1>1 DEF IInv, DestroyInv
  <1>7. FarewellInv'
    <2>1. answers[1].msg = "ON_DESTROY" => ~Carries(answers', "ON_DESTROY")
      BY <1>3 DEF IInv, FarewellInv, Carries
    <2>2. Carries(answers', "ON_DESTROY") => Carries(answers, "ON_DESTROY")
      BY <1>3 DEF Carries
    <2>3. \A j, k \in 1 .. Len(answers') :
            answers'[j].msg = "ON_DESTROY" /\ answers'[k].msg = "ON_DESTROY" => j = k
      BY <1>3 DEF IInv, FarewellInv
    <2>4. Carries(answers, "ON_DESTROY") => taskT = "exited"
      BY DEF IInv, FarewellInv
    <2>5. Carries(answers, "INIT_FAILED") => taskT = "poll"
      BY DEF IInv, FailInv, Failing
    <2>6. answers[1].msg = "INIT_FAILED" => Carries(answers, "INIT_FAILED")
      BY <1>3 DEF Carries
    <2>7. answers[1].msg = "ON_DESTROY" => taskT = "exited"
      BY <1>3, <2>4 DEF Carries
    <2>8. recvT' = "exited" => initFailed' \/ taskT = "exited"
      BY <1>1, <1>4, <2>7
    <2>9. Carries(answers', "ON_DESTROY") => taskT = "exited" /\ recvT' = "poll"
      BY <1>1, <1>4, <2>1, <2>2, <2>4, <2>5, <2>6
    <2> QED
      BY <1>b, <2>3, <2>8, <2>9 DEF FarewellInv
  <1>8. AnswerInv'
    <2>1. \A j, k \in 1 .. Len(answers') :
            answers'[j].msg \in InitMsg /\ answers'[k].msg \in InitMsg => j = k
      BY <1>3 DEF IInv, AnswerInv
    <2>2. answers[1].msg \in InitMsg =>
            \A k \in 1 .. Len(answers') : answers'[k].msg \notin InitMsg
      BY <1>3 DEF IInv, AnswerInv
    <2>3. ~waitingInit' => ~waitingInit
      BY <1>4
    <2>4. \A k \in 1 .. Len(answers') : answers'[k].msg \in InitMsg => ~waitingInit'
      BY <1>3, <1>4, <2>2 DEF IInv, AnswerInv
    <2>5. initFailed' => waitingInit'
      BY <1>4 DEF IInv, AnswerInv
    <2>6. mainT \in Early => answers[1].msg \notin InitMsg
      BY <1>3 DEF IInv, AnswerInv
    <2>7. mainT \in Early => /\ taskT = "none" /\ ~waitingInit'
                             /\ \A k \in 1 .. Len(answers') : answers'[k].msg \notin InitMsg
      BY <1>3, <1>4, <2>6 DEF IInv, AnswerInv
    <2> QED
      BY <1>b, <2>1, <2>4, <2>5, <2>7 DEF AnswerInv
  <1>9. FailInv'
    <2>1. Failing' => Failing
      BY <1>3, <1>4 DEF Failing, Carries
    <2>2. waitingInit => waitingInit'
      BY <1>4
    <2>3. initFailed => initFailed'
      BY <1>4 DEF IInv, AnswerInv, InitMsg
    <2> QED
      BY <1>b, <1>1, <2>1, <2>2, <2>3 DEF IInv, FailInv
  <1> QED
    BY <1>5, <1>6, <1>7, <1>8, <1>9 DEF IInv

(* processThreadHandler (siren_base.cpp): its answers are neither about    *)
(* the start nor about the end.                                            *)
LEMMA ProcInv == TypeOK /\ IInv /\ processThread /\ UNCHANGED proxyVars => IInv'
  <1> SUFFICES ASSUME TypeOK, IInv, processThread, UNCHANGED proxyVars PROVE IInv'
    OBVIOUS
  <1>p. UNCHANGED <<app, sendT, recvT, requestQueue, waitingInit, initFailed>>
    BY DEF proxyVars, callVars, initVars
  <1>a. answers \in Seq(Messages)
    BY DEF TypeOK, ChannelTypeOK
  <1>1. /\ procT # "exited" /\ UNCHANGED <<taskT, requests, engineAlive>>
        /\ \/ mainT' = mainT
           \/ mainT = "asleepInit" /\ mainT' = "waitInit"
    BY DEF processThread, procBegin, procPop, procTakeState, procSetState, procFrame, procSync,
           procDestroy, channelVars
  <1>2. answers' = answers \/ \E m \in Messages : m.msg \in {"STATE", "VOICE"} /\ WriteAnswer(m)
    <2>1. CASE procSetState
      <3>1. [Plain("STATE") EXCEPT !.n = state] \in Messages
            /\ [Plain("STATE") EXCEPT !.n = state].msg = "STATE"
        BY SetType DEF TypeOK, BaseTypeOK, Kinds
      <3> QED
        BY <2>1, <3>1 DEF procSetState
    <2>2. CASE procFrame
      BY <2>2, PlainType DEF procFrame, Kinds
    <2>3. CASE procBegin \/ procPop \/ procTakeState \/ procSync \/ procDestroy
      BY <2>3 DEF procBegin, procPop, procTakeState, procSync, procDestroy, channelVars
    <2> QED
      BY <2>1, <2>2, <2>3 DEF processThread
  <1>3. /\ \A k \in 1 .. Len(answers') :
             \/ k \in 1 .. Len(answers) /\ answers'[k] = answers[k]
             \/ answers'[k].msg \in {"STATE", "VOICE"}
    <2>1. CASE answers' = answers
      BY <2>1
    <2>2. ASSUME NEW m \in Messages, m.msg \in {"STATE", "VOICE"}, WriteAnswer(m)
          PROVE  \A k \in 1 .. Len(answers') :
                   \/ k \in 1 .. Len(answers) /\ answers'[k] = answers[k]
                   \/ answers'[k].msg \in {"STATE", "VOICE"}
      BY <1>a, <2>2, AppendItems DEF WriteAnswer
    <2> QED
      BY <1>2, <2>1, <2>2
  <1>4. JoinInv'
    BY <1>p, <1>1 DEF IInv, JoinInv
  <1>5. DestroyInv'
    BY <1>p, <1>1 DEF IInv, DestroyInv
  <1>6. FarewellInv'
    BY <1>p, <1>1, <1>3 DEF IInv, FarewellInv, Carries
  <1>7. AnswerInv'
    BY <1>p, <1>1, <1>3 DEF IInv, AnswerInv, InitMsg, Early
  <1>8. FailInv'
    <2>1. Failing' => Failing
      BY <1>p, <1>3 DEF Failing, Carries
    <2> QED
      BY <1>p, <1>1, <2>1 DEF IInv, FailInv
  <1> QED
    BY <1>4, <1>5, <1>6, <1>7, <1>8 DEF IInv

(* The response thread of the engine: it ends with the last request and    *)
(* tells so once (siren_base.cpp:125).                                     *)
LEMMA TaskInv == TypeOK /\ IInv /\ taskThread /\ UNCHANGED proxyVars => IInv'
  <1> SUFFICES ASSUME TypeOK, IInv, taskThread, UNCHANGED proxyVars PROVE IInv'
    OBVIOUS
  <1>p. UNCHANGED <<app, sendT, recvT, requestQueue, waitingInit, initFailed>>
    BY DEF proxyVars, callVars, initVars
  <1>q. answers \in Seq(Messages) /\ requests \in Seq(Messages)
    BY DEF TypeOK, ChannelTypeOK
  <1>1. CASE taskBye
    <2>1. /\ taskT = "bye" /\ taskT' = "exited" /\ answers' = Append(answers, Plain("ON_DESTROY"))
          /\ UNCHANGED <<requests, engineAlive, mainT, procT>>
      BY <1>1 DEF taskBye, WriteAnswer, procVars
    <2>2. \A k \in 1 .. Len(answers') :
            \/ k \in 1 .. Len(answers) /\ answers'[k] = answers[k]
            \/ k = Len(answers') /\ answers'[k].msg = "ON_DESTROY"
      <3>1. Plain("ON_DESTROY") \in Messages /\ Plain("ON_DESTROY").msg = "ON_DESTROY"
        BY PlainType DEF Kinds
      <3> QED
        BY <1>q, <2>1, <3>1, AppendItems
    <2>3. ~Carries(answers, "ON_DESTROY")
      BY <2>1 DEF IInv, FarewellInv
    <2>4. JoinInv'
      BY <1>p, <2>1 DEF IInv, JoinInv
    <2>5. DestroyInv'
      BY <1>p, <2>1 DEF IInv, DestroyInv
    <2>6. recvT' = "poll"
      <3>1. initFailed => taskT = "poll"
        BY DEF IInv, FailInv, Failing
      <3> QED
        BY <1>p, <2>1, <3>1 DEF IInv, FarewellInv, TypeOK, ProxyTypeOK
    <2>7. FarewellInv'
      BY <1>p, <2>1, <2>2, <2>3, <2>6 DEF FarewellInv, Carries
    <2>8. AnswerInv'
      BY <1>p, <2>1, <2>2 DEF IInv, AnswerInv, InitMsg
    <2>9. FailInv'
      BY <1>p, <2>1, <2>2 DEF IInv, FailInv, Failing, Carries
    <2> QED
      BY <2>4, <2>5, <2>7, <2>8, <2>9 DEF IInv
  <1>2. CASE taskClear
    BY <1>2, <1>p
    DEF taskClear, channelVars, procVars, IInv, JoinInv, DestroyInv, FarewellInv, AnswerInv,
        FailInv, Failing, Carries
  <1>3. CASE taskStart \/ taskStop \/ taskState \/ taskSync \/ taskDestroy
    <2>1. /\ taskT = "poll" /\ requests # <<>> /\ requests' = Tail(requests)
          /\ taskT' \in {"poll", "clear", "bye"}
          /\ UNCHANGED <<answers, engineAlive, mainT, procT>>
      BY <1>3 DEF taskStart, taskStop, taskState, taskSync, taskDestroy, ReadRequest, procVars
    <2>2. taskT' = "bye" => requests[1].msg = "DESTROY"
      BY <1>3, <1>q, <2>1, Tailed, PlainType
      DEF taskStart, taskStop, taskState, taskSync, taskDestroy, ReadRequest, Kinds
    <2>3. /\ Len(requests') \in Nat /\ Len(requests) = Len(requests') + 1
          /\ Len(requests) = 1 => requests' = <<>>
          /\ \A k \in 1 .. Len(requests') :
               k + 1 \in 1 .. Len(requests) /\ requests'[k] = requests[k + 1]
      BY <1>q, <2>1, TailItems
    <2>4. JoinInv'
      BY <1>p, <2>1 DEF IInv, JoinInv
    <2>5. taskT' = "bye" => requests' = <<>> /\ requestQueue = <<>> /\ app \in After
      BY <2>2, <2>3 DEF IInv, DestroyInv
    <2>6. DestroyInv'
      <3>1. \A k \in 1 .. Len(requests') : requests'[k].msg = "DESTROY" =>
              k = Len(requests') /\ requestQueue = <<>> /\ app \in After
        BY <2>3 DEF IInv, DestroyInv
      <3> QED
        BY <1>p, <2>1, <2>5, <3>1 DEF IInv, DestroyInv
    <2>7. FarewellInv'
      BY <1>p, <2>1 DEF IInv, FarewellInv, Carries
    <2>8. AnswerInv'
      BY <1>p, <2>1 DEF IInv, AnswerInv
    <2>9. ~Failing /\ requests # <<>>
      BY <2>1 DEF IInv, FailInv
    <2>10. FailInv'
      BY <1>p, <2>1, <2>9 DEF IInv, FailInv, Failing, Carries
    <2> QED
      BY <2>4, <2>6, <2>7, <2>8, <2>10 DEF IInv
  <1> QED
    BY <1>1, <1>2, <1>3 DEF taskThread

(* The main thread of the engine: one answer to the start, and it ends     *)
(* when it has joined the others.                                          *)
LEMMA MainInv == TypeOK /\ IInv /\ mainThread /\ UNCHANGED proxyVars => IInv'
  <1> SUFFICES ASSUME TypeOK, IInv, mainThread, UNCHANGED proxyVars PROVE IInv'
    OBVIOUS
  <1>p. UNCHANGED <<app, sendT, recvT, requestQueue, waitingInit, initFailed>>
    BY DEF proxyVars, callVars, initVars
  <1>q. answers \in Seq(Messages) /\ requests \in Seq(Messages)
    BY DEF TypeOK, ChannelTypeOK
  <1>1. CASE mainPreInit
    <2>1. /\ mainT = "preInit" /\ mainT' \in {"wait", "join"} /\ taskT' = "poll"
          /\ UNCHANGED <<requests, engineAlive, procT>>
      BY <1>1 DEF mainPreInit
    <2>2. taskT = "none" /\ ~waitingInit
          /\ \A k \in 1 .. Len(answers) : answers[k].msg \notin InitMsg
      BY <2>1 DEF IInv, AnswerInv, Early
    <2>3. /\ \A k \in 1 .. Len(answers') :
               \/ k \in 1 .. Len(answers) /\ answers'[k] = answers[k]
               \/ k = Len(answers') /\ answers'[k].msg \in InitMsg
          /\ \A k \in 1 .. Len(answers') : answers'[k].msg = "INIT_FAILED" => mainT' = "join"
      <3>1. PICK kind \in InitMsg :
              WriteAnswer(Plain(kind)) /\ (kind = "INIT_FAILED" => mainT' = "join")
        BY <1>1 DEF mainPreInit, InitMsg
      <3>2. Plain(kind) \in Messages /\ Plain(kind).msg = kind
        BY PlainType DEF Kinds, InitMsg
      <3>3. \A k \in 1 .. Len(answers') :
               \/ k \in 1 .. Len(answers) /\ answers'[k] = answers[k]
               \/ k = Len(answers') /\ answers'[k] = Plain(kind)
        BY <1>q, <3>1, <3>2, AppendItems DEF WriteAnswer
      <3> QED
        BY <2>2, <3>1, <3>2, <3>3 DEF InitMsg
    <2>4. JoinInv'
      BY <1>p, <2>1 DEF IInv, JoinInv
    <2>5. DestroyInv'
      BY <1>p, <2>1, <2>2 DEF IInv, DestroyInv
    <2>6. FarewellInv'
      BY <1>p, <2>1, <2>2, <2>3 DEF IInv, FarewellInv, Carries, InitMsg
    <2>7. AnswerInv'
      BY <1>p, <2>1, <2>2, <2>3 DEF IInv, AnswerInv, Early
    <2>8. app \in {"new", "initWait"} /\ requests = <<>> /\ sendT = "pop" /\ requestQueue = <<>>
      BY <2>2 DEF IInv, FailInv
    <2>9. ~initFailed
      BY <2>2 DEF IInv, AnswerInv
    <2>10. FailInv'
      BY <1>p, <2>1, <2>2, <2>3, <2>8, <2>9 DEF FailInv, Failing, Carries
    <2> QED
      BY <2>4, <2>5, <2>6, <2>7, <2>10 DEF IInv
  <1>2. CASE mainWaitInit \/ mainWait \/ mainRead \/ mainReadEnd
    <2>1. /\ UNCHANGED <<requests, answers, engineAlive, procT, taskT>>
          /\ \/ mainT \in Early /\ mainT' \in Early
             \/ mainT \in {"wait", "read"} /\ mainT' \in {"wait", "read", "join"}
      BY <1>2 DEF mainWaitInit, mainWait, mainRead, mainReadEnd, channelVars, Early
    <2>2. mainT \notin {"exited", "join"} /\ mainT' # "exited"
          /\ (mainT' \in Early => mainT \in Early)
      BY <2>1 DEF Early
    <2>3. JoinInv' /\ DestroyInv' /\ FarewellInv' /\ AnswerInv'
      BY <1>p, <2>1, <2>2 DEF IInv, JoinInv, DestroyInv, FarewellInv, AnswerInv, Carries
    <2>4. FailInv'
      BY <1>p, <2>1, <2>2 DEF IInv, FailInv, Failing, Carries
    <2> QED
      BY <2>3, <2>4 DEF IInv
  <1>3. CASE mainJoin
    <2>1. /\ mainT = "join" /\ taskT = "exited" /\ procT = "exited" /\ mainT' = "exited"
          /\ ~engineAlive' /\ UNCHANGED <<requests, answers, procT, taskT>>
      BY <1>3 DEF mainJoin
    <2>2. JoinInv' /\ DestroyInv' /\ FarewellInv' /\ AnswerInv'
      BY <1>p, <2>1 DEF IInv, JoinInv, DestroyInv, FarewellInv, AnswerInv, Carries, Early
    <2>3. FailInv'
      BY <1>p, <2>1 DEF IInv, FailInv, Failing, Carries
    <2> QED
      BY <2>2, <2>3 DEF IInv
  <1> QED
    BY <1>1, <1>2, <1>3 DEF mainThread

(* Nothing happens. *)
LEMMA StutterInv == IInv /\ UNCHANGED vars => IInv'
  BY CtlUnchanged
  DEF vars, channelVars, proxyVars, baseVars, callVars, initVars, ctlVars

(* IInv holds throughout, whatever goes wrong.                             *)
LEMMA Invariance == Spec => [](TypeOK /\ IInv)
  <1>1. TypeOK /\ IInv /\ [Next]_vars => IInv'
    BY CallingInv, SettingInv, SendInv, ReceivingInv, ProcInv, TaskInv, MainInv, StutterInv
    DEF Next, proxyNext, baseNext
  <1> QED
    BY <1>1, InitInv, TypeCorrect, PTL DEF Spec

(* QuietOnceDestroyed: when destroy_siren returns (siren_proxy.cpp:768)    *)
(* the two threads of the proxy and the engine are gone, and the answer    *)
(* that ends the response thread was read.                                 *)
THEOREM NothingOutlivesDestroy == Spec => []QuietOnceDestroyed
  <1>1. TypeOK /\ IInv => QuietOnceDestroyed
    <2> SUFFICES ASSUME TypeOK, IInv, app = "gone" PROVE
          /\ sendT = "exited" /\ recvT = "exited"
          /\ {mainT, procT, taskT} = {"exited"} /\ ~engineAlive
          /\ ~Carries(answers, "ON_DESTROY") /\ ~Carries(requests, "DESTROY")
      BY DEF QuietOnceDestroyed
    <2>1. sendT = "exited" /\ recvT = "exited" /\ ~engineAlive
          /\ mainT = "exited" /\ procT = "exited" /\ taskT = "exited"
      BY DEF IInv, JoinInv
    <2>2. ~Carries(answers, "ON_DESTROY")
      BY <2>1 DEF IInv, FarewellInv
    <2>3. requests = <<>>
      BY <2>1 DEF IInv, DestroyInv
    <2>4. ~Carries(requests, "DESTROY")
      BY <2>3, Empty DEF Carries
    <2> QED
      BY <2>1, <2>2, <2>4
  <1> QED
    BY <1>1, Invariance, PTL

-----------------------------------------------------------------------------
(* Requests arrive.  Neither queue is full, so that the next push does not *)
(* lose its item.                                                          *)
Room == Len(requestQueue) < ReqSlots /\ Len(processQueue) < PackSlots

(* The requests for a state carry rising numbers, above the state the      *)
(* engine has, and none is missing.                                        *)
Asks(m) == m.msg = "SET"
Above(q) == \A k \in 1 .. Len(q) : Asks(q[k]) => state < q[k].n /\ q[k].n <= sets
Rising(q) ==
  \A k \in 1 .. Len(q), j \in 1 .. Len(q) : Asks(q[j]) /\ Asks(q[k]) /\ j < k => q[j].n < q[k].n
Older ==
  \A k \in 1 .. Len(requests), j \in 1 .. Len(requestQueue) :
    Asks(requests[k]) /\ Asks(requestQueue[j]) => requests[k].n < requestQueue[j].n
Asked(q, n) == \E k \in 1 .. Len(q) : Asks(q[k]) /\ q[k].n = n

(* In the queue, in the socket and from one to the other.                  *)
OrderInv ==
  /\ Above(requestQueue) /\ Above(requests)
  /\ Rising(requestQueue) /\ Rising(requests) /\ Older
CountInv ==
  /\ state <= sets
  /\ \A n \in state + 1 .. sets : Asked(requestQueue, n) \/ Asked(requests, n)
(* The processor has the state, unless it was told to sleep since.         *)
ForceInv == stateTaken /\ taskT # "clear" /\ procT # "load" => engineState \in {state, Asleep}

StateInv == OrderInv /\ CountInv /\ ForceInv

(* The messages of a queue carry numbers of states.                        *)
LEMMA Numbers ==
  ASSUME NEW q \in Seq(Messages)
  PROVE  \A k \in 1 .. Len(q) : q[k] \in Messages /\ q[k].n \in Nat
  <1>1. \A m \in Messages : m.n \in Nat
    BY BoundsAssumption DEF Messages
  <1> QED
    BY <1>1, Typed

(* No state was asked for yet.                                             *)
LEMMA InitState == Init => StateInv
  <1> SUFFICES ASSUME Init PROVE StateInv
    OBVIOUS
  <1>1. requestQueue = <<>> /\ requests = <<>> /\ state = 0 /\ sets = 0 /\ ~stateTaken
    BY DEF Init, ChannelInit, ProxyInit, BaseInit
  <1>2. OrderInv
    BY <1>1, Empty DEF OrderInv, Above, Rising, Older
  <1>3. CountInv
    BY <1>1 DEF CountInv
  <1> QED
    BY <1>1, <1>2, <1>3 DEF StateInv, ForceInv

(* The variables StateInv is about. *)
stateVars == <<requestQueue, requests, state, sets, stateTaken, taskT, procT, engineState>>

(* StateInv is about stateVars only.                                       *)
LEMMA StateUnchanged == StateInv /\ UNCHANGED stateVars => StateInv'
  BY DEF StateInv, OrderInv, CountInv, ForceInv, Above, Rising, Older, Asked, stateVars

(* A request that is not about the state, kept or lost.                    *)
LEMMA PlainPush ==
  ASSUME TypeOK, StateInv, NEW m \in Messages, Push(m), m.msg # "SET",
         UNCHANGED <<requests, state, sets, stateTaken, taskT, procT, engineState>>
  PROVE  StateInv'
  <1>1. \A k \in 1 .. Len(requestQueue') :
          \/ k \in 1 .. Len(requestQueue) /\ requestQueue'[k] = requestQueue[k]
          \/ requestQueue'[k] = m
    BY PushItems
  <1>2. \A k \in 1 .. Len(requestQueue) :
          k \in 1 .. Len(requestQueue') /\ requestQueue'[k] = requestQueue[k]
    BY PushItems
  <1>3. Above(requestQueue)' /\ Above(requests)' /\ Rising(requests)'
    BY <1>1 DEF StateInv, OrderInv, Above, Rising, Asks
  <1>4. Rising(requestQueue)'
    BY <1>1 DEF StateInv, OrderInv, Rising, Asks
  <1>5. Older'
    BY <1>1 DEF StateInv, OrderInv, Older, Asks
  <1>6. CountInv'
    BY <1>2 DEF StateInv, CountInv, Asked
  <1> QED
    BY <1>3, <1>4, <1>5, <1>6 DEF StateInv, OrderInv, ForceInv

(* The calls of the application but set_siren_state.                       *)
LEMMA CallingState == TypeOK /\ StateInv /\ calling /\ UNCHANGED baseVars => StateInv'
  <1> SUFFICES ASSUME TypeOK, StateInv, calling, UNCHANGED baseVars PROVE StateInv'
    OBVIOUS
  <1>1. UNCHANGED <<requests, state, sets, stateTaken, taskT, procT, engineState>>
    BY DEF calling, init_siren, init_siren_answered, init_siren_joinSend, init_siren_joinRecv,
           start_stream, start_recorder, stop_stream, pause_recorder, add_vt_word, remove_vt_word,
           SendWords, destroy_siren, delete_recorder, destroy_wait, baseVars, channelVars, setVars
  <1>2. CASE UNCHANGED requestQueue
    BY <1>1, <1>2, StateUnchanged DEF stateVars
  <1>3. CASE \E kind \in {"START", "STOP", "DESTROY", "DESTROY_ON_INIT"} : Push(Plain(kind))
    BY <1>1, <1>3, PlainPush, PlainType DEF Kinds
  <1>4. CASE \E words \in SUBSET Words : Push([Plain("SYNC") EXCEPT !.words = words])
    <2>1. PICK words \in SUBSET Words : Push([Plain("SYNC") EXCEPT !.words = words])
      BY <1>4
    <2>2. [Plain("SYNC") EXCEPT !.words = words] \in Messages
          /\ [Plain("SYNC") EXCEPT !.words = words].msg = "SYNC"
      BY SyncType DEF Kinds
    <2> QED
      BY <1>1, <2>1, <2>2, PlainPush
  <1>5. CASE add_vt_word \/ remove_vt_word
    BY <1>4, <1>5 DEF add_vt_word, remove_vt_word, SendWords, TypeOK, ProxyTypeOK
  <1> QED
    BY <1>2, <1>3, <1>5
    DEF calling, init_siren, init_siren_answered, init_siren_joinSend, init_siren_joinRecv,
        start_stream, start_recorder, stop_stream, pause_recorder, destroy_siren, delete_recorder,
        destroy_wait

(* set_siren_state asks for the next state (siren_proxy.cpp:591): the      *)
(* queue has room for it.                                                  *)
LEMMA SetState == Room /\ TypeOK /\ StateInv /\ set_siren_state /\ UNCHANGED baseVars => StateInv'
  <1> SUFFICES ASSUME Room, TypeOK, StateInv, set_siren_state, UNCHANGED baseVars PROVE StateInv'
    OBVIOUS
  <1>1. /\ UNCHANGED <<requests, state, stateTaken, taskT, procT, engineState>>
        /\ sets' = sets + 1 /\ sets \in Nat /\ state \in Nat
        /\ sets + 1 \in 0 .. MaxSets
    BY BoundsAssumption
    DEF set_siren_state, baseVars, channelVars, TypeOK, ProxyTypeOK, BaseTypeOK
  <1> DEFINE m == [Plain("SET") EXCEPT !.n = sets + 1]
  <1>2. m \in Messages /\ m.msg = "SET" /\ m.n = sets + 1
    BY <1>1, SetType DEF Kinds
  <1>3. requestQueue \in Seq(Messages) /\ requestQueue' = Append(requestQueue, m)
    BY DEF set_siren_state, Push, Pushed, Room, TypeOK, ProxyTypeOK
  <1> HIDE DEF m
  <1>4. /\ Len(requestQueue) \in Nat /\ Len(requestQueue') = Len(requestQueue) + 1
        /\ \A k \in 1 .. Len(requestQueue) :
             k \in 1 .. Len(requestQueue') /\ requestQueue'[k] = requestQueue[k]
        /\ \A k \in 1 .. Len(requestQueue') :
             \/ k \in 1 .. Len(requestQueue) /\ requestQueue'[k] = requestQueue[k]
             \/ k = Len(requestQueue') /\ requestQueue'[k] = m
    BY <1>2, <1>3, Appended
  <1>5. \A k \in 1 .. Len(requestQueue) : requestQueue[k].n \in Nat
    BY <1>3, Numbers
  <1>6. \A k \in 1 .. Len(requests) : requests[k].n \in Nat
    BY Numbers DEF TypeOK, ChannelTypeOK
  <1>7. Above(requestQueue)'
    BY <1>1, <1>2, <1>4, <1>5 DEF StateInv, OrderInv, CountInv, Above, Asks
  <1>8. Above(requests)' /\ Rising(requests)'
    BY <1>1, <1>6 DEF StateInv, OrderInv, Above, Rising, Asks
  <1>9. Rising(requestQueue)'
    BY <1>1, <1>2, <1>4, <1>5 DEF StateInv, OrderInv, Above, Rising, Asks
  <1>10. Older'
    BY <1>1, <1>2, <1>4, <1>6 DEF StateInv, OrderInv, Above, Older, Asks
  <1>12. \A n : Asked(requestQueue, n) => \E k \in 1 .. Len(requestQueue') :
                                            Asks(requestQueue'[k]) /\ requestQueue'[k].n = n
    BY <1>4 DEF Asked
  <1>13. \E k \in 1 .. Len(requestQueue') : Asks(requestQueue'[k]) /\ requestQueue'[k].n = sets + 1
    <2>1. Len(requestQueue') \in 1 .. Len(requestQueue') /\ requestQueue'[Len(requestQueue')] = m
      BY <1>2, <1>3, Appended
    <2> QED
      BY <1>2, <2>1 DEF Asks
  <1>14. CountInv'
    <2>1. state' <= sets'
      BY <1>1 DEF StateInv, CountInv
    <2>2. ASSUME NEW n \in state' + 1 .. sets'
          PROVE  Asked(requestQueue', n) \/ Asked(requests', n)
      <3>1. CASE n = sets + 1
        BY <1>13, <3>1 DEF Asked
      <3>2. CASE n # sets + 1
        <4>1. n \in state + 1 .. sets
          BY <1>1, <2>2, <3>2
        <4>2. Asked(requestQueue, n) \/ Asked(requests, n)
          BY <4>1 DEF StateInv, CountInv
        <4>3. Asked(requestQueue, n) => Asked(requestQueue', n)
          BY <1>12 DEF Asked
        <4>4. requests' = requests
          BY <1>1
        <4> QED
          BY <4>2, <4>3, <4>4
      <3> QED
        BY <3>1, <3>2
    <2> QED
      BY <2>1, <2>2 DEF CountInv
  <1>15. ForceInv'
    BY <1>1 DEF StateInv, ForceInv
  <1> QED
    BY <1>7, <1>8, <1>9, <1>10, <1>14, <1>15 DEF StateInv, OrderInv

(* requestThreadHandler moves the oldest request on, or drops one that     *)
(* asks for no state.                                                      *)
LEMMA SendState == TypeOK /\ StateInv /\ sendRequest /\ UNCHANGED baseVars => StateInv'
  <1> SUFFICES ASSUME TypeOK, StateInv, sendRequest, UNCHANGED baseVars PROVE StateInv'
    OBVIOUS
  <1>1. UNCHANGED <<state, sets, stateTaken, taskT, procT, engineState>>
    BY DEF sendRequest, baseVars, setVars
  <1>2. requestQueue \in Seq(Messages) /\ requests \in Seq(Messages)
    BY DEF TypeOK, ProxyTypeOK, ChannelTypeOK
  <1>3. /\ requestQueue # <<>> /\ requestQueue' = Tail(requestQueue)
        /\ \/ requests' = Append(requests, Head(requestQueue))
           \/ requests' = requests /\ Head(requestQueue).msg = "DESTROY_ON_INIT"
    BY DEF sendRequest, WriteRequest
  <1>4. /\ Head(requestQueue) = requestQueue[1] /\ requestQueue[1] \in Messages
        /\ Len(requestQueue) \in Nat \ {0} /\ Len(requestQueue') \in Nat
        /\ \A k \in 1 .. Len(requestQueue') :
             k + 1 \in 1 .. Len(requestQueue) /\ requestQueue'[k] = requestQueue[k + 1]
        /\ \A k \in 1 .. Len(requestQueue) :
             k = 1 \/ (k - 1 \in 1 .. Len(requestQueue') /\ requestQueue[k] = requestQueue'[k - 1])
    BY <1>2, <1>3, TailItems, Tailed
  <1>5. /\ \A k \in 1 .. Len(requests) : k \in 1 .. Len(requests') /\ requests'[k] = requests[k]
        /\ \A k \in 1 .. Len(requests') :
             \/ k \in 1 .. Len(requests) /\ requests'[k] = requests[k]
             \/ k = Len(requests) + 1 /\ requests'[k] = requestQueue[1]
        /\ Asks(requestQueue[1]) =>
             Len(requests) + 1 \in 1 .. Len(requests')
             /\ requests'[Len(requests) + 1] = requestQueue[1]
        /\ Len(requests) \in Nat
    <2>1. CASE requests' = Append(requests, requestQueue[1])
      BY <1>2, <1>4, <2>1, Appended
    <2>2. CASE requests' = requests /\ requestQueue[1].msg = "DESTROY_ON_INIT"
      BY <1>2, <2>2, Typed DEF Asks
    <2> QED
      BY <1>3, <1>4, <2>1, <2>2
  <1>6. Above(requestQueue)' /\ Above(requests)'
    BY <1>1, <1>4, <1>5 DEF StateInv, OrderInv, Above
  <1>7. Rising(requestQueue)'
    BY <1>1, <1>4 DEF StateInv, OrderInv, Rising
  <1>8. Rising(requests)'
    <2> SUFFICES ASSUME NEW k \in 1 .. Len(requests'), NEW j \in 1 .. Len(requests'),
                        Asks(requests'[j]), Asks(requests'[k]), j < k
                 PROVE  requests'[j].n < requests'[k].n
      BY DEF Rising
    <2>1. j \in 1 .. Len(requests) /\ requests'[j] = requests[j]
      BY <1>5
    <2>2. CASE k \in 1 .. Len(requests) /\ requests'[k] = requests[k]
      BY <2>1, <2>2 DEF StateInv, OrderInv, Rising
    <2>3. CASE requests'[k] = requestQueue[1]
      BY <1>4, <2>1, <2>3 DEF StateInv, OrderInv, Older
    <2> QED
      BY <1>5, <2>2, <2>3
  <1>9. Older'
    <2> SUFFICES ASSUME NEW k \in 1 .. Len(requests'), NEW j \in 1 .. Len(requestQueue'),
                        Asks(requests'[k]), Asks(requestQueue'[j])
                 PROVE  requests'[k].n < requestQueue'[j].n
      BY DEF Older
    <2>1. j + 1 \in 1 .. Len(requestQueue) /\ requestQueue'[j] = requestQueue[j + 1] /\ 1 < j + 1
          /\ 1 \in 1 .. Len(requestQueue)
      BY <1>4
    <2>2. CASE k \in 1 .. Len(requests) /\ requests'[k] = requests[k]
      BY <2>1, <2>2 DEF StateInv, OrderInv, Older
    <2>3. CASE requests'[k] = requestQueue[1]
      BY <2>1, <2>3 DEF StateInv, OrderInv, Rising
    <2> QED
      BY <1>5, <2>2, <2>3
  <1>10. \A n : Asked(requests, n) => Asked(requests', n)
    BY <1>5 DEF Asked
  <1>11. \A n : Asked(requestQueue, n) => Asked(requests', n) \/ Asked(requestQueue', n)
    <2> SUFFICES ASSUME NEW n, Asked(requestQueue, n)
                 PROVE  Asked(requests', n) \/ Asked(requestQueue', n)
      OBVIOUS
    <2>1. PICK k \in 1 .. Len(requestQueue) : Asks(requestQueue[k]) /\ requestQueue[k].n = n
      BY DEF Asked
    <2>2. CASE k = 1
      BY <1>5, <2>1, <2>2 DEF Asked
    <2>3. CASE k - 1 \in 1 .. Len(requestQueue') /\ requestQueue[k] = requestQueue'[k - 1]
      BY <2>1, <2>3 DEF Asked
    <2> QED
      BY <1>4, <2>2, <2>3
  <1>12. CountInv'
    BY <1>1, <1>10, <1>11 DEF StateInv, CountInv
  <1>13. ForceInv'
    BY <1>1 DEF StateInv, ForceInv
  <1> QED
    BY <1>6, <1>7, <1>8, <1>9, <1>12, <1>13 DEF StateInv, OrderInv

(* The process thread takes the flag before it loads the state.            *)
LEMMA ProcState == TypeOK /\ StateInv /\ processThread /\ UNCHANGED proxyVars => StateInv'
  <1> SUFFICES ASSUME TypeOK, StateInv, processThread, UNCHANGED proxyVars PROVE StateInv'
    OBVIOUS
  <1>1. UNCHANGED <<requestQueue, requests, sets, state, taskT>>
    BY DEF processThread, procBegin, procPop, procTakeState, procSetState, procFrame, procSync,
           procDestroy, channelVars, proxyVars, setVars
  <1>2. OrderInv' /\ CountInv'
    BY <1>1 DEF StateInv, OrderInv, CountInv, Above, Rising, Older, Asked
  <1>3. ForceInv'
    BY <1>1
    DEF StateInv, ForceInv, processThread, procBegin, procPop, procTakeState, procSetState,
        procFrame, procSync, procDestroy
  <1> QED
    BY <1>2, <1>3 DEF StateInv

(* The response thread of the engine stores the state of the oldest        *)
(* request, which is the next one, and then clears the flag.               *)
LEMMA TaskState == TypeOK /\ StateInv /\ taskThread /\ UNCHANGED proxyVars => StateInv'
  <1> SUFFICES ASSUME TypeOK, StateInv, taskThread, UNCHANGED proxyVars PROVE StateInv'
    OBVIOUS
  <1>p. UNCHANGED <<requestQueue, sets>>
    BY DEF proxyVars, setVars
  <1>q. requests \in Seq(Messages) /\ requestQueue \in Seq(Messages)
        /\ state \in Nat /\ sets \in Nat
    BY BoundsAssumption DEF TypeOK, ChannelTypeOK, ProxyTypeOK, BaseTypeOK
  <1>n. /\ \A k \in 1 .. Len(requestQueue) : requestQueue[k].n \in Nat
        /\ \A k \in 1 .. Len(requests) : requests[k].n \in Nat
    BY <1>q, Numbers
  <1>1. CASE taskBye
    BY <1>1, <1>p, StateUnchanged DEF taskBye, StateInv, OrderInv, CountInv, ForceInv, Above,
       Rising, Older, Asked, procVars
  <1>2. CASE taskClear
    BY <1>2, <1>p DEF taskClear, channelVars, procVars, StateInv, OrderInv, CountInv, ForceInv,
       Above, Rising, Older, Asked
  <1>3. CASE taskStart \/ taskStop \/ taskState \/ taskSync \/ taskDestroy
    <2>1. /\ requests # <<>> /\ requests' = Tail(requests) /\ taskT = "poll"
          /\ UNCHANGED <<stateTaken, procT, engineState>>
      BY <1>3 DEF taskStart, taskStop, taskState, taskSync, taskDestroy, ReadRequest, procVars
    <2>2. /\ Head(requests) = requests[1] /\ 1 \in 1 .. Len(requests)
          /\ \A k \in 1 .. Len(requests') :
               k + 1 \in 1 .. Len(requests) /\ requests'[k] = requests[k + 1]
          /\ \A k \in 1 .. Len(requests) :
               k = 1 \/ (k - 1 \in 1 .. Len(requests') /\ requests[k] = requests'[k - 1])
      BY <1>q, <2>1, TailItems, Tailed
    <2>3. \/ requests[1].msg # "SET" /\ state' = state /\ taskT' # "clear"
          \/ requests[1].msg = "SET" /\ state' = requests[1].n /\ taskT' = "clear"
      <3>1. CASE taskState
        <4>1. PICK n \in 1 .. MaxSets : ReadRequest([Plain("SET") EXCEPT !.n = n]) /\ state' = n
          BY <3>1 DEF taskState
        <4>2. [Plain("SET") EXCEPT !.n = n].msg = "SET" /\ [Plain("SET") EXCEPT !.n = n].n = n
          <5>1. n \in 0 .. MaxSets /\ "SET" \in Kinds
            BY BoundsAssumption DEF Kinds
          <5> QED
            BY <5>1, SetType
        <4> QED
          BY <3>1, <4>1, <4>2, <2>2 DEF taskState, ReadRequest
      <3>2. CASE taskSync
        <4>1. PICK words \in SUBSET Words : ReadRequest([Plain("SYNC") EXCEPT !.words = words])
          BY <3>2 DEF taskSync
        <4>2. [Plain("SYNC") EXCEPT !.words = words].msg = "SYNC"
          <5>1. "SYNC" \in Kinds
            BY DEF Kinds
          <5> QED
            BY <5>1, SyncType
        <4> QED
          BY <3>2, <4>1, <4>2, <2>2, <2>1 DEF taskSync, ReadRequest
      <3>3. CASE taskStart \/ taskStop \/ taskDestroy
        BY <3>3, <2>1, <2>2, PlainType DEF taskStart, taskStop, taskDestroy, ReadRequest, Kinds
      <3> QED
        BY <1>3, <3>1, <3>2, <3>3
    <2>4. Rising(requests)'
      BY <1>n, <2>2 DEF StateInv, OrderInv, Rising
    <2>5. Rising(requestQueue)' /\ Older'
      BY <1>p, <2>2 DEF StateInv, OrderInv, Rising, Older
    <2>6. CASE requests[1].msg # "SET" /\ state' = state /\ taskT' # "clear"
      <3>1. Above(requestQueue)' /\ Above(requests)'
        BY <1>p, <2>2, <2>6 DEF StateInv, OrderInv, Above
      <3>2. \A n : Asked(requests, n) => Asked(requests', n)
        BY <2>2, <2>6 DEF Asked, Asks
      <3>3. CountInv'
        BY <1>p, <2>6, <3>2 DEF StateInv, CountInv
      <3>4. ForceInv'
        BY <2>1, <2>6 DEF StateInv, ForceInv
      <3> QED
        BY <2>4, <2>5, <3>1, <3>3, <3>4 DEF StateInv, OrderInv
    <2>7. CASE requests[1].msg = "SET" /\ state' = requests[1].n /\ taskT' = "clear"
      <3>1. Asks(requests[1]) /\ state < requests[1].n /\ requests[1].n <= sets
        BY <2>2, <2>7 DEF StateInv, OrderInv, Above, Asks
      <3>2. Above(requests)'
        BY <1>p, <1>q, <1>n, <2>2, <2>7, <3>1 DEF StateInv, OrderInv, Above, Rising
      <3>3. Above(requestQueue)'
        BY <1>p, <1>q, <1>n, <2>2, <2>7, <3>1 DEF StateInv, OrderInv, Above, Older
      <3>4. \A n \in Nat : n > requests[1].n /\ Asked(requests, n) => Asked(requests', n)
        <4> SUFFICES ASSUME NEW n \in Nat, n > requests[1].n, Asked(requests, n)
                     PROVE  Asked(requests', n)
          OBVIOUS
        <4>1. PICK k \in 1 .. Len(requests) : Asks(requests[k]) /\ requests[k].n = n
          BY DEF Asked
        <4>2. k # 1
          BY <1>n, <2>2, <4>1
        <4>3. k - 1 \in 1 .. Len(requests') /\ requests[k] = requests'[k - 1]
          BY <2>2, <4>2
        <4> QED
          BY <4>1, <4>3 DEF Asked
      <3>5. CountInv'
        <4>1. state' <= sets'
          BY <1>p, <2>7, <3>1
        <4>2. ASSUME NEW n \in state' + 1 .. sets'
              PROVE  Asked(requestQueue', n) \/ Asked(requests', n)
          <5>1. n \in Nat /\ n > requests[1].n /\ n \in state + 1 .. sets
            BY <1>p, <1>q, <1>n, <2>2, <2>7, <3>1, <4>2
          <5>2. Asked(requestQueue, n) \/ Asked(requests, n)
            BY <5>1 DEF StateInv, CountInv
          <5> QED
            BY <1>p, <3>4, <5>1, <5>2
        <4> QED
          BY <4>1, <4>2 DEF CountInv
      <3>6. ForceInv'
        BY <2>7 DEF ForceInv
      <3> QED
        BY <2>4, <2>5, <3>2, <3>3, <3>5, <3>6 DEF StateInv, OrderInv
    <2> QED
      BY <2>3, <2>6, <2>7
  <1> QED
    BY <1>1, <1>2, <1>3 DEF taskThread

(* The other threads. *)
LEMMA OtherState ==
  /\ StateInv /\ (set_siren_state_returns \/ set_siren_state_timeout \/ receiving \/ recording)
     /\ UNCHANGED baseVars => StateInv'
  /\ IInv /\ StateInv /\ mainThread /\ UNCHANGED proxyVars => StateInv'
  /\ StateInv /\ UNCHANGED vars => StateInv'
  <1>1. ASSUME set_siren_state_returns \/ set_siren_state_timeout \/ receiving \/ recording,
               UNCHANGED baseVars
        PROVE  UNCHANGED stateVars
    <2>1. UNCHANGED <<requestQueue, requests, sets>>
      BY <1>1 DEF set_siren_state_returns, set_siren_state_timeout, receiving, recvInit, recvVoice,
         recvState, recvDestroy, recording, recTop, recTest, recRead, recWrite, channelVars, setVars
    <2> QED
      BY <1>1, <2>1 DEF stateVars, baseVars
  <1>2. ASSUME IInv, StateInv, mainThread, UNCHANGED proxyVars
        PROVE  StateInv'
    <2>1. /\ UNCHANGED <<requestQueue, requests, state, sets, stateTaken, procT, engineState>>
          /\ taskT' = taskT \/ taskT' = "poll"
      BY <1>2 DEF mainThread, mainWaitInit, mainPreInit, mainWait, mainRead, mainReadEnd, mainJoin,
         channelVars, proxyVars, setVars
    <2>2. taskT = "clear" => taskT' = "clear"
      <3>1. CASE mainPreInit
        BY <3>1 , <1>2 DEF mainPreInit, IInv, AnswerInv, Early
      <3>2. CASE ~mainPreInit
        BY <1>2, <3>2 DEF mainThread, mainWaitInit, mainWait, mainRead, mainReadEnd, mainJoin,
           channelVars
      <3> QED
        BY <3>1, <3>2
    <2>3. OrderInv' /\ CountInv'
      BY <1>2, <2>1 DEF StateInv, OrderInv, CountInv, Above, Rising, Older, Asked
    <2>4. ForceInv'
      BY <1>2, <2>1, <2>2 DEF StateInv, ForceInv
    <2> QED
      BY <2>3, <2>4 DEF StateInv
  <1>3. UNCHANGED vars => UNCHANGED stateVars
    BY DEF vars, channelVars, proxyVars, baseVars, setVars, stateVars
  <1> QED
    BY <1>1, <1>2, <1>3, StateUnchanged

-----------------------------------------------------------------------------
(* The last list of a queue is words. *)
Lists(m) == m.msg = "SYNC"
LastIs(q, words) ==
  \A k \in 1 .. Len(q) :
    Lists(q[k]) /\ (\A j \in 1 .. Len(q) : k < j => ~Lists(q[j])) => q[k].words = words

(* The process thread holds a list it has not given to the processor.      *)
PackageLists == Lists(package) /\ procT \in {"flag", "load", "handle"}

(* The youngest list in transit is the one of the proxy, wherever it is.   *)
QueuedWords == LastIs(requestQueue, vt_words)
SentWords == ~Carries(requestQueue, "SYNC") => LastIs(requests, vt_words)
PackedWords == ~InTransit("SYNC") => LastIs(processQueue, vt_words)
KnownWords ==
  ~InTransit("SYNC") /\ ~Carries(processQueue, "SYNC") =>
    IF PackageLists THEN package.words = vt_words ELSE engineWords = vt_words

WordsInv == QueuedWords /\ SentWords /\ PackedWords /\ KnownWords

(* A list written is the last one; any other message leaves it.            *)
LEMMA LastAppended ==
  ASSUME NEW q \in Seq(Messages), NEW m \in Messages, NEW words
  PROVE  /\ Lists(m) => /\ Carries(Append(q, m), "SYNC")
                        /\ LastIs(Append(q, m), m.words)
         /\ ~Lists(m) => /\ Carries(Append(q, m), "SYNC") <=> Carries(q, "SYNC")
                         /\ LastIs(q, words) => LastIs(Append(q, m), words)
  <1> DEFINE r == Append(q, m)
  <1>1. /\ Len(q) \in Nat /\ Len(r) = Len(q) + 1 /\ r[Len(q) + 1] = m
        /\ \A k \in 1 .. Len(q) : r[k] = q[k]
    BY Appended
  <1> HIDE DEF r
  <1>2. Len(q) + 1 \in 1 .. Len(r)
    BY <1>1
  <1>3. ASSUME Lists(m) PROVE Carries(r, "SYNC") /\ LastIs(r, m.words)
    <2>1. Carries(r, "SYNC")
      BY <1>1, <1>2, <1>3 DEF Carries, Lists
    <2>2. ASSUME NEW k \in 1 .. Len(r), \A j \in 1 .. Len(r) : k < j => ~Lists(r[j])
          PROVE  r[k] = m
      BY <1>1, <1>2, <1>3, <2>2
    <2> QED
      BY <2>1, <2>2 DEF LastIs
  <1>4. ASSUME ~Lists(m) PROVE Carries(r, "SYNC") <=> Carries(q, "SYNC")
    <2>1. ASSUME Carries(q, "SYNC") PROVE Carries(r, "SYNC")
      BY <1>1, <2>1 DEF Carries
    <2>2. ASSUME Carries(r, "SYNC") PROVE Carries(q, "SYNC")
      BY <1>1, <1>4, <2>2 DEF Carries, Lists
    <2> QED
      BY <2>1, <2>2
  <1>5. ASSUME ~Lists(m), LastIs(q, words) PROVE LastIs(r, words)
    <2> SUFFICES ASSUME NEW k \in 1 .. Len(r), Lists(r[k]),
                        \A j \in 1 .. Len(r) : k < j => ~Lists(r[j])
                 PROVE  r[k].words = words
      BY DEF LastIs
    <2>1. k \in 1 .. Len(q) /\ r[k] = q[k]
      BY <1>1, <1>5
    <2>2. \A j \in 1 .. Len(q) : k < j => ~Lists(q[j])
      BY <1>1
    <2> QED
      BY <1>5, <2>1, <2>2 DEF LastIs
  <1> QED
    BY <1>3, <1>4, <1>5 DEF r

(* The head taken: it was the last list if no other follows.               *)
LEMMA LastTailed ==
  ASSUME NEW q \in Seq(Messages), q # <<>>, NEW words
  PROVE  /\ Carries(q, "SYNC") <=> Lists(Head(q)) \/ Carries(Tail(q), "SYNC")
         /\ LastIs(q, words) => LastIs(Tail(q), words)
         /\ LastIs(q, words) /\ Lists(Head(q)) /\ ~Carries(Tail(q), "SYNC") =>
              Head(q).words = words
  <1> DEFINE r == Tail(q)
  <1>1. /\ Len(r) \in Nat /\ Len(q) = Len(r) + 1 /\ 1 \in 1 .. Len(q) /\ Head(q) = q[1]
        /\ \A k \in 1 .. Len(r) : k + 1 \in 1 .. Len(q) /\ r[k] = q[k + 1]
        /\ \A k \in 1 .. Len(q) : k = 1 \/ (k - 1 \in 1 .. Len(r) /\ q[k] = r[k - 1])
    BY TailItems, Tailed
  <1> HIDE DEF r
  <1>2. Carries(q, "SYNC") <=> Lists(Head(q)) \/ Carries(r, "SYNC")
    <2>1. ASSUME Carries(q, "SYNC") PROVE Lists(Head(q)) \/ Carries(r, "SYNC")
      <3>1. PICK k \in 1 .. Len(q) : q[k].msg = "SYNC"
        BY <2>1 DEF Carries
      <3>2. CASE k = 1
        BY <1>1, <3>1, <3>2 DEF Lists
      <3>3. CASE k - 1 \in 1 .. Len(r) /\ q[k] = r[k - 1]
        BY <3>1, <3>3 DEF Carries
      <3> QED
        BY <1>1, <3>2, <3>3
    <2>2. ASSUME Lists(Head(q)) PROVE Carries(q, "SYNC")
      BY <1>1, <2>2 DEF Carries, Lists
    <2>3. ASSUME Carries(r, "SYNC") PROVE Carries(q, "SYNC")
      BY <1>1, <2>3 DEF Carries
    <2> QED
      BY <2>1, <2>2, <2>3
  <1>3. ASSUME LastIs(q, words) PROVE LastIs(r, words)
    <2> SUFFICES ASSUME NEW k \in 1 .. Len(r), Lists(r[k]),
                        \A j \in 1 .. Len(r) : k < j => ~Lists(r[j])
                 PROVE  r[k].words = words
      BY DEF LastIs
    <2>1. k + 1 \in 1 .. Len(q) /\ r[k] = q[k + 1]
      BY <1>1
    <2>2. ASSUME NEW j \in 1 .. Len(q), k + 1 < j PROVE ~Lists(q[j])
      <3>1. j - 1 \in 1 .. Len(r) /\ q[j] = r[j - 1] /\ k < j - 1
        BY <1>1, <2>2
      <3> QED
        BY <3>1
    <2> QED
      BY <1>3, <2>1, <2>2 DEF LastIs
  <1>4. ASSUME LastIs(q, words), Lists(Head(q)), ~Carries(r, "SYNC") PROVE Head(q).words = words
    <2>1. ASSUME NEW j \in 1 .. Len(q), 1 < j PROVE ~Lists(q[j])
      BY <1>1, <1>4, <2>1 DEF Carries, Lists
    <2> QED
      BY <1>1, <1>4, <2>1 DEF LastIs
  <1> QED
    BY <1>2, <1>3, <1>4 DEF r

(* A message that is not a list, pushed or lost.                           *)
LEMMA LastPushed ==
  ASSUME NEW q \in Seq(Messages), NEW slots, NEW m \in Messages, NEW words, ~Lists(m)
  PROVE  /\ Carries(Pushed(q, slots, m), "SYNC") <=> Carries(q, "SYNC")
         /\ LastIs(q, words) => LastIs(Pushed(q, slots, m), words)
  BY LastAppended DEF Pushed

(* No words are known on either side yet.                                  *)
LEMMA InitWords == Init => WordsInv
  <1> SUFFICES ASSUME Init PROVE WordsInv
    OBVIOUS
  <1>1. /\ requestQueue = <<>> /\ requests = <<>> /\ processQueue = <<>> /\ procT = "init"
        /\ vt_words = {} /\ engineWords = {}
    BY DEF Init, ChannelInit, ProxyInit, BaseInit
  <1>2. \A words : LastIs(<<>>, words)
    BY Empty DEF LastIs
  <1> QED
    BY <1>1, <1>2 DEF WordsInv, QueuedWords, SentWords, PackedWords, KnownWords, PackageLists

(* The variables WordsInv is about. *)
wordVars == <<requestQueue, requests, processQueue, package, procT, vt_words, engineWords>>

(* WordsInv is about wordVars only.                                        *)
LEMMA WordsUnchanged == WordsInv /\ UNCHANGED wordVars => WordsInv'
  BY DEF WordsInv, QueuedWords, SentWords, PackedWords, KnownWords, PackageLists, LastIs, Lists,
     Carries, InTransit, wordVars

(* A request that is not a list. *)
LEMMA PlainWords ==
  ASSUME TypeOK, WordsInv, NEW m \in Messages, Push(m), ~Lists(m),
         UNCHANGED <<requests, processQueue, package, procT, vt_words, engineWords>>
  PROVE  WordsInv'
  <1>1. requestQueue \in Seq(Messages) /\ requestQueue' = Pushed(requestQueue, ReqSlots, m)
    BY DEF Push, TypeOK, ProxyTypeOK
  <1>2. /\ Carries(requestQueue', "SYNC") <=> Carries(requestQueue, "SYNC")
        /\ LastIs(requestQueue, vt_words) => LastIs(requestQueue', vt_words)
    BY <1>1, LastPushed
  <1> QED
    BY <1>2 DEF WordsInv, QueuedWords, SentWords, PackedWords, KnownWords, PackageLists, InTransit

(* The calls of the application: add_vt_word and remove_vt_word send the   *)
(* new list (siren_proxy.cpp:704).                                         *)
LEMMA CallingWords == Room /\ TypeOK /\ WordsInv /\ calling /\ UNCHANGED baseVars => WordsInv'
  <1> SUFFICES ASSUME Room, TypeOK, WordsInv, calling, UNCHANGED baseVars PROVE WordsInv'
    OBVIOUS
  <1>1. UNCHANGED <<requests, processQueue, package, procT, engineWords>>
    BY DEF calling, init_siren, init_siren_answered, init_siren_joinSend, init_siren_joinRecv,
           start_stream, start_recorder, stop_stream, pause_recorder, add_vt_word, remove_vt_word,
           SendWords, destroy_siren, delete_recorder, destroy_wait, baseVars, channelVars
  <1>2. CASE UNCHANGED <<requestQueue, vt_words>>
    BY <1>1, <1>2, WordsUnchanged DEF wordVars
  <1>3. CASE UNCHANGED vt_words
             /\ \E kind \in {"START", "STOP", "DESTROY", "DESTROY_ON_INIT"} : Push(Plain(kind))
    BY <1>1, <1>3, PlainWords, PlainType DEF Kinds, Lists
  <1>4. CASE add_vt_word \/ remove_vt_word
    <2>1. PICK words \in SUBSET Words : SendWords(words)
      BY <1>4 DEF add_vt_word, remove_vt_word, TypeOK, ProxyTypeOK
    <2> DEFINE m == [Plain("SYNC") EXCEPT !.words = words]
    <2>2. m \in Messages /\ Lists(m) /\ m.words = words
      BY SyncType DEF Kinds, Lists
    <2>3. requestQueue \in Seq(Messages) /\ requestQueue' = Append(requestQueue, m)
          /\ vt_words' = words
      BY <2>1 DEF SendWords, Push, Pushed, Room, TypeOK, ProxyTypeOK
    <2> HIDE DEF m
    <2>4. Carries(requestQueue', "SYNC") /\ LastIs(requestQueue', vt_words')
      BY <2>2, <2>3, LastAppended
    <2> QED
      BY <2>4 DEF WordsInv, QueuedWords, SentWords, PackedWords, KnownWords, InTransit
  <1> QED
    BY <1>2, <1>3, <1>4
    DEF calling, init_siren, init_siren_answered, init_siren_joinSend, init_siren_joinRecv,
        start_stream, start_recorder, stop_stream, pause_recorder, destroy_siren, delete_recorder,
        destroy_wait

(* set_siren_state. *)
LEMMA SetWords == TypeOK /\ WordsInv /\ set_siren_state /\ UNCHANGED baseVars => WordsInv'
  <1> SUFFICES ASSUME TypeOK, WordsInv, set_siren_state, UNCHANGED baseVars PROVE WordsInv'
    OBVIOUS
  <1>1. UNCHANGED <<requests, processQueue, package, procT, vt_words, engineWords>>
    BY DEF set_siren_state, baseVars, channelVars, callVars
  <1>2. sets + 1 \in 0 .. MaxSets
    BY BoundsAssumption DEF set_siren_state, TypeOK, ProxyTypeOK
  <1>3. [Plain("SET") EXCEPT !.n = sets + 1] \in Messages
        /\ [Plain("SET") EXCEPT !.n = sets + 1].msg = "SET"
    BY <1>2, SetType DEF Kinds
  <1>4. Push([Plain("SET") EXCEPT !.n = sets + 1])
    BY DEF set_siren_state
  <1> QED
    BY <1>1, <1>3, <1>4, PlainWords DEF Lists

(* requestThreadHandler moves the oldest request on.                       *)
LEMMA SendWordsOn == TypeOK /\ WordsInv /\ sendRequest /\ UNCHANGED baseVars => WordsInv'
  <1> SUFFICES ASSUME TypeOK, WordsInv, sendRequest, UNCHANGED baseVars PROVE WordsInv'
    OBVIOUS
  <1>1. UNCHANGED <<processQueue, package, procT, vt_words, engineWords>>
    BY DEF sendRequest, baseVars, callVars
  <1>2. requestQueue \in Seq(Messages) /\ requests \in Seq(Messages)
    BY DEF TypeOK, ProxyTypeOK, ChannelTypeOK
  <1>3. /\ requestQueue # <<>> /\ requestQueue' = Tail(requestQueue)
        /\ \/ requests' = Append(requests, Head(requestQueue))
           \/ requests' = requests /\ Head(requestQueue).msg = "DESTROY_ON_INIT"
    BY DEF sendRequest, WriteRequest
  <1>4. /\ Carries(requestQueue, "SYNC") <=>
             Lists(Head(requestQueue)) \/ Carries(requestQueue', "SYNC")
        /\ LastIs(requestQueue', vt_words)
        /\ Lists(Head(requestQueue)) /\ ~Carries(requestQueue', "SYNC") =>
              Head(requestQueue).words = vt_words
    BY <1>2, <1>3, LastTailed DEF WordsInv, QueuedWords
  <1>5. Head(requestQueue) \in Messages
    BY <1>2, <1>3, Tailed
  <1>6. CASE Lists(Head(requestQueue))
    <2>1. requests' = Append(requests, Head(requestQueue))
      BY <1>3, <1>6 DEF Lists
    <2>2. Carries(requests', "SYNC") /\ LastIs(requests', Head(requestQueue).words)
      BY <1>2, <1>5, <1>6, <2>1, LastAppended
    <2> QED
      BY <1>1, <1>4, <1>6, <2>2
      DEF WordsInv, QueuedWords, SentWords, PackedWords, KnownWords, InTransit
  <1>7. CASE ~Lists(Head(requestQueue))
    <2>1. /\ Carries(requests', "SYNC") <=> Carries(requests, "SYNC")
          /\ LastIs(requests, vt_words) => LastIs(requests', vt_words)
      <3>1. CASE requests' = requests
        BY <3>1
      <3>2. CASE requests' = Append(requests, Head(requestQueue))
        BY <1>2, <1>5, <1>7, <3>2, LastAppended
      <3> QED
        BY <1>3, <3>1, <3>2
    <2> QED
      BY <1>1, <1>4, <1>7, <2>1
      DEF WordsInv, QueuedWords, SentWords, PackedWords, KnownWords, InTransit, PackageLists
  <1> QED
    BY <1>6, <1>7

(* The process thread takes the package, and the processor the words.      *)
LEMMA ProcWords == TypeOK /\ WordsInv /\ processThread /\ UNCHANGED proxyVars => WordsInv'
  <1> SUFFICES ASSUME TypeOK, WordsInv, processThread, UNCHANGED proxyVars PROVE WordsInv'
    OBVIOUS
  <1>1. UNCHANGED <<requestQueue, requests, vt_words>>
    BY DEF processThread, procBegin, procPop, procTakeState, procSetState, procFrame, procSync,
           procDestroy, channelVars, proxyVars, callVars
  <1>2. CASE procPop
    <2>1. /\ processQueue # <<>> /\ package' = Head(processQueue) /\ procT = "pop"
          /\ processQueue' = Tail(processQueue) /\ procT' = "flag" /\ UNCHANGED engineWords
      BY <1>2 DEF procPop
    <2>2. processQueue \in Seq(Messages)
      BY DEF TypeOK, BaseTypeOK
    <2>3. /\ Carries(processQueue, "SYNC") <=>
               Lists(package') \/ Carries(processQueue', "SYNC")
          /\ LastIs(processQueue, vt_words) => LastIs(processQueue', vt_words)
          /\ LastIs(processQueue, vt_words) /\ Lists(package')
               /\ ~Carries(processQueue', "SYNC") => package'.words = vt_words
      BY <2>1, <2>2, LastTailed
    <2>4. ~PackageLists
      BY <2>1 DEF PackageLists
    <2>5. PackageLists' <=> Lists(package')
      BY <2>1 DEF PackageLists
    <2> QED
      BY <1>1, <2>1, <2>3, <2>4, <2>5
      DEF WordsInv, QueuedWords, SentWords, PackedWords, KnownWords, InTransit
  <1>3. CASE procSync
    <2>1. /\ PackageLists /\ engineWords' = package.words /\ ~PackageLists'
          /\ UNCHANGED processQueue
      BY <1>3 DEF procSync, PackageLists, Lists
    <2> QED
      BY <1>1, <2>1 DEF WordsInv, QueuedWords, SentWords, PackedWords, KnownWords, InTransit
  <1>4. CASE procBegin \/ procTakeState \/ procSetState \/ procFrame \/ procDestroy
    <2>1. UNCHANGED <<processQueue, engineWords>>
      BY <1>4 DEF procBegin, procTakeState, procSetState, procFrame, procDestroy
    <2>2. PackageLists' = PackageLists
      BY <1>4 DEF procBegin, procTakeState, procSetState, procFrame, procDestroy, PackageLists,
         Lists
    <2>3. PackageLists => package' = package
      BY <1>4 DEF procBegin, procTakeState, procSetState, procFrame, procDestroy, PackageLists,
         Lists
    <2> QED
      BY <1>1, <2>1, <2>2, <2>3
      DEF WordsInv, QueuedWords, SentWords, PackedWords, KnownWords, InTransit
  <1> QED
    BY <1>2, <1>3, <1>4 DEF processThread

(* The response thread of the engine packs the list (siren_base.cpp:182).  *)
LEMMA TaskWords == Room /\ TypeOK /\ WordsInv /\ taskThread /\ UNCHANGED proxyVars => WordsInv'
  <1> SUFFICES ASSUME Room, TypeOK, WordsInv, taskThread, UNCHANGED proxyVars PROVE WordsInv'
    OBVIOUS
  <1>p. UNCHANGED <<requestQueue, vt_words>>
    BY DEF proxyVars, callVars
  <1>q. requests \in Seq(Messages) /\ processQueue \in Seq(Messages)
    BY DEF TypeOK, ChannelTypeOK, BaseTypeOK
  <1>1. UNCHANGED <<package, procT, engineWords>>
    BY DEF taskThread, taskStart, taskStop, taskState, taskClear, taskSync, taskDestroy, taskBye,
       procVars
  <1>2. CASE taskClear \/ taskBye
    BY <1>p, <1>1, <1>2, WordsUnchanged DEF taskClear, taskBye, channelVars, wordVars
  <1>3. CASE taskSync
    <2>1. PICK words \in SUBSET Words :
            LET m == [Plain("SYNC") EXCEPT !.words = words] IN
            ReadRequest(m) /\ processQueue' = Pushed(processQueue, PackSlots, m)
      BY <1>3 DEF taskSync
    <2> DEFINE m == [Plain("SYNC") EXCEPT !.words = words]
    <2>2. m \in Messages /\ Lists(m) /\ m.words = words
      BY SyncType DEF Kinds, Lists
    <2>3. /\ requests # <<>> /\ m = Head(requests) /\ requests' = Tail(requests)
          /\ processQueue' = Append(processQueue, m)
      BY <2>1 DEF ReadRequest, Pushed, Room
    <2> HIDE DEF m
    <2>4. Carries(processQueue', "SYNC") /\ LastIs(processQueue', m.words)
      BY <1>q, <2>2, <2>3, LastAppended
    <2>5. /\ LastIs(requests, vt_words) => LastIs(requests', vt_words)
          /\ LastIs(requests, vt_words) /\ ~Carries(requests', "SYNC") => m.words = vt_words
      BY <1>q, <2>2, <2>3, LastTailed
    <2> QED
      BY <1>p, <2>4, <2>5
      DEF WordsInv, QueuedWords, SentWords, PackedWords, KnownWords, InTransit
  <1>4. CASE taskStart \/ taskStop \/ taskState \/ taskDestroy
    <2>1. requests # <<>> /\ requests' = Tail(requests) /\ ~Lists(Head(requests))
      <3>1. CASE taskState
        <4>1. PICK n \in 1 .. MaxSets : ReadRequest([Plain("SET") EXCEPT !.n = n])
          BY <3>1 DEF taskState
        <4>2. [Plain("SET") EXCEPT !.n = n].msg = "SET"
          <5>1. n \in 0 .. MaxSets /\ "SET" \in Kinds
            BY BoundsAssumption DEF Kinds
          <5> QED
            BY <5>1, SetType
        <4> QED
          BY <4>1, <4>2 DEF ReadRequest, Lists
      <3>2. CASE taskStart \/ taskStop \/ taskDestroy
        BY <3>2, PlainType DEF taskStart, taskStop, taskDestroy, ReadRequest, Kinds, Lists
      <3> QED
        BY <1>4, <3>1, <3>2
    <2>2. processQueue' = processQueue
          \/ processQueue' = Pushed(processQueue, PackSlots, Plain("DESTROY"))
      BY <1>4 DEF taskStart, taskStop, taskState, taskDestroy
    <2>3. Plain("DESTROY") \in Messages /\ ~Lists(Plain("DESTROY"))
      BY PlainType DEF Kinds, Lists
    <2>4. /\ Carries(processQueue', "SYNC") <=> Carries(processQueue, "SYNC")
          /\ LastIs(processQueue, vt_words) => LastIs(processQueue', vt_words)
      BY <1>q, <2>2, <2>3, LastPushed
    <2>5. /\ Carries(requests', "SYNC") <=> Carries(requests, "SYNC")
          /\ LastIs(requests, vt_words) => LastIs(requests', vt_words)
      BY <1>q, <2>1, LastTailed
    <2> QED
      BY <1>p, <1>1, <2>4, <2>5
      DEF WordsInv, QueuedWords, SentWords, PackedWords, KnownWords, InTransit, PackageLists
  <1> QED
    BY <1>2, <1>3, <1>4 DEF taskThread

(* The main thread packs frames, and a DESTROY when it failed.             *)
LEMMA MainWords == TypeOK /\ WordsInv /\ mainThread /\ UNCHANGED proxyVars => WordsInv'
  <1> SUFFICES ASSUME TypeOK, WordsInv, mainThread, UNCHANGED proxyVars PROVE WordsInv'
    OBVIOUS
  <1>p. UNCHANGED <<requestQueue, vt_words>>
    BY DEF proxyVars, callVars
  <1>q. processQueue \in Seq(Messages)
    BY DEF TypeOK, BaseTypeOK
  <1>1. /\ UNCHANGED <<requests, package, procT, engineWords>>
        /\ \/ UNCHANGED processQueue
           \/ \E kind \in {"DESTROY", "DATA"} :
                processQueue' = Pushed(processQueue, PackSlots, Plain(kind))
    BY DEF mainThread, mainWaitInit, mainPreInit, mainWait, mainRead, mainReadEnd, mainJoin,
       channelVars
  <1>2. \A kind \in {"DESTROY", "DATA"} : Plain(kind) \in Messages /\ ~Lists(Plain(kind))
    BY PlainType DEF Kinds, Lists
  <1>3. /\ Carries(processQueue', "SYNC") <=> Carries(processQueue, "SYNC")
        /\ LastIs(processQueue, vt_words) => LastIs(processQueue', vt_words)
    BY <1>q, <1>1, <1>2, LastPushed
  <1> QED
    BY <1>p, <1>1, <1>3
    DEF WordsInv, QueuedWords, SentWords, PackedWords, KnownWords, InTransit, PackageLists

(* The other threads. *)
LEMMA OtherWords ==
  /\ WordsInv /\ (set_siren_state_returns \/ set_siren_state_timeout \/ receiving \/ recording)
     /\ UNCHANGED baseVars => WordsInv'
  /\ WordsInv /\ UNCHANGED vars => WordsInv'
  <1>1. ASSUME set_siren_state_returns \/ set_siren_state_timeout \/ receiving \/ recording,
               UNCHANGED baseVars
        PROVE  UNCHANGED wordVars
    <2>1. UNCHANGED <<requestQueue, requests, vt_words>>
      BY <1>1 DEF set_siren_state_returns, set_siren_state_timeout, receiving, recvInit, recvVoice,
         recvState, recvDestroy, recording, recTop, recTest, recRead, recWrite, channelVars,
         callVars
    <2> QED
      BY <1>1, <2>1 DEF wordVars, baseVars
  <1>2. UNCHANGED vars => UNCHANGED wordVars
    BY DEF vars, channelVars, proxyVars, baseVars, callVars, wordVars
  <1> QED
    BY <1>1, <1>2, WordsUnchanged

(* RequestsTakeEffect: while neither the request queue (32 slots) nor the  *)
(* package queue (4096) fills up, for LFQueue::push loses what finds no    *)
(* room, the engine is in the state of the last set_siren_state and knows  *)
(* the words of the proxy as soon as no request for them is on its way     *)
(* (siren_proxy.cpp:591, 704, siren_base.cpp:182, 314).                    *)
THEOREM RequestsArrive == Spec /\ []Room => []RequestsTakeEffect
  <1>1. Room /\ TypeOK /\ IInv /\ StateInv /\ WordsInv /\ [Next]_vars => StateInv' /\ WordsInv'
    <2> SUFFICES ASSUME Room, TypeOK, IInv, StateInv, WordsInv, [Next]_vars
                 PROVE  StateInv' /\ WordsInv'
      OBVIOUS
    <2>1. CASE calling /\ UNCHANGED baseVars
      BY <2>1, CallingState, CallingWords
    <2>2. CASE set_siren_state /\ UNCHANGED baseVars
      BY <2>2, SetState, SetWords
    <2>3. CASE sendRequest /\ UNCHANGED baseVars
      BY <2>3, SendState, SendWordsOn
    <2>4. CASE (set_siren_state_returns \/ set_siren_state_timeout \/ receiving \/ recording)
               /\ UNCHANGED baseVars
      BY <2>4, OtherState, OtherWords
    <2>5. CASE processThread /\ UNCHANGED proxyVars
      BY <2>5, ProcState, ProcWords
    <2>6. CASE taskThread /\ UNCHANGED proxyVars
      BY <2>6, TaskState, TaskWords
    <2>7. CASE mainThread /\ UNCHANGED proxyVars
      BY <2>7, OtherState, MainWords
    <2>8. CASE UNCHANGED vars
      BY <2>8, OtherState, OtherWords
    <2> QED
      BY <2>1, <2>2, <2>3, <2>4, <2>5, <2>6, <2>7, <2>8 DEF Next, proxyNext, baseNext, setting
  <1>2. TypeOK /\ StateInv /\ WordsInv => RequestsTakeEffect
    <2> SUFFICES ASSUME TypeOK, StateInv, WordsInv PROVE RequestsTakeEffect
      OBVIOUS
    <2>1. ASSUME ~StateInTransit PROVE engineState \in {sets, Asleep}
      <3>1. \A n : ~Asked(requestQueue, n) /\ ~Asked(requests, n)
        BY <2>1 DEF StateInTransit, InTransit, Carries, Asked, Asks
      <3>2. state \in Nat /\ sets \in Nat
        BY BoundsAssumption DEF TypeOK, ProxyTypeOK, BaseTypeOK
      <3>3. state = sets
        <4>1. state <= sets /\ sets \notin state + 1 .. sets
          BY <3>1 DEF StateInv, CountInv
        <4> QED
          BY <3>2, <4>1
      <3> QED
        BY <2>1, <3>3 DEF StateInTransit, StateInv, ForceInv
    <2>2. ASSUME ~WordsInTransit PROVE engineWords = vt_words
      BY <2>2 DEF WordsInTransit, WordsInv, KnownWords, PackageLists, Lists
    <2> QED
      BY <2>1, <2>2 DEF RequestsTakeEffect
  <1> QED
    BY <1>1, <1>2, InitState, InitWords, Invariance, PTL DEF Spec
================================================================================
