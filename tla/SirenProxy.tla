------------------------------ MODULE SirenProxy ------------------------------
(***************************************************************************)
(* The application's side of libbsiren (siren_proxy.cpp): the calls of the *)
(* application, the thread that sends requests, the thread that reads      *)
(* answers, and the recording thread.  The microphone is external: the     *)
(* input callbacks of the application (siren_control.cpp), where a read    *)
(* of a closed microphone gives no frame.                                  *)
(*                                                                         *)
(* One thread starts, stops and destroys; set_siren_state has a thread of  *)
(* its own, as VoiceService calls it from the thread of the results.       *)
(***************************************************************************)
EXTENDS SirenChannel

CONSTANTS
  MaxFrames,   (* bound: frames the microphone gives                       *)
  MaxCalls,    (* bound: calls other than stop and destroy                *)
  SyncSets     (* TRUE: set_siren_state is called without a callback       *)

ASSUME CallsAssumption == MaxFrames \in Nat /\ MaxCalls \in Nat

VARIABLES
  app,          (* where the calling thread is                             *)
  calls, sets,  (* calls made so far                                       *)
  setter,       (* the thread that sets states: "idle", "waiting" for      *)
                (* waitStateChange, or "told" of it                        *)
  procStream,   (* procStreamStart                                         *)
  requestQueue,
  sendT,        (* the request thread                                      *)
  recvT,        (* the response thread                                     *)
  waitingInit,
  initFailed,   (* sirenBaseInitFailed                                     *)
  vt_words,
  mic,          (* the microphone is open                                  *)
  recT,         (* the recording thread                                    *)
  recStart,     (* recordingStart                                          *)
  recTerm,      (* recordingTerm                                           *)
  first,        (* locals of recordingFn                                   *)
  inputStart,
  recFreed,     (* the RecordingThread object has been deleted             *)
  frames        (* frames read so far                                      *)

callVars == <<app, calls, procStream, vt_words>>
setVars == <<setter, sets>>
initVars == <<waitingInit, initFailed>>
recVars == <<mic, recT, recStart, recTerm, first, inputStart, recFreed, frames>>
proxyVars == <<callVars, setVars, initVars, recVars, requestQueue, sendT, recvT>>

AppSteps == {"new", "initWait", "failSend", "failRecv", "idle", "started", "pausing",
             "deleting", "joinSend", "joinRecv", "waitpid", "gone"}
RecSteps == {"none", "top", "test", "asleep", "woken", "reading", "writing", "exited"}

ProxyInit ==
  /\ app = "new" /\ calls = 0 /\ sets = 0 /\ setter = "idle"
  /\ procStream = FALSE /\ requestQueue = <<>>
  /\ sendT = "pop" /\ recvT = "poll"
  /\ waitingInit = FALSE /\ initFailed = FALSE
  /\ vt_words = {} /\ mic = FALSE
  /\ recT = "none" /\ recStart = FALSE /\ recTerm = FALSE
  /\ first = TRUE /\ inputStart = FALSE /\ recFreed = FALSE /\ frames = 0

ProxyTypeOK ==
  /\ app \in AppSteps /\ calls \in 0 .. MaxCalls /\ sets \in 0 .. MaxSets
  /\ setter \in {"idle", "waiting", "told"}
  /\ procStream \in BOOLEAN
  /\ requestQueue \in Seq(Messages) /\ Len(requestQueue) <= ReqSlots
  /\ sendT \in {"pop", "exited"} /\ recvT \in {"poll", "exited"}
  /\ waitingInit \in BOOLEAN /\ initFailed \in BOOLEAN
  /\ vt_words \subseteq Words /\ mic \in BOOLEAN
  /\ recT \in RecSteps /\ recStart \in BOOLEAN /\ recTerm \in BOOLEAN
  /\ first \in BOOLEAN /\ inputStart \in BOOLEAN /\ recFreed \in BOOLEAN
  /\ frames \in 0 .. MaxFrames

Push(m) == requestQueue' = Pushed(requestQueue, ReqSlots, m)

(* startMutex is held by recordingFn while it tests and while it reads. *)
StartMutexFree == recT # "reading"

---------------------------------------------------------------------------
(* init_siren: the threads are launched, then the recorder, then the       *)
(* caller waits for the answer of the engine. *)
init_siren ==
  /\ app = "new"
  /\ app' = "initWait" /\ recT' = "top"
  /\ UNCHANGED <<channelVars, calls, procStream, vt_words, setVars, initVars, mic, recStart, recTerm,
                 first, inputStart, recFreed, frames, requestQueue, sendT, recvT>>

(* init_siren returns OK either way, and the result of init_input is not   *)
(* looked at; a failed engine is first cut off.                            *)
init_siren_answered ==
  /\ app = "initWait" /\ waitingInit
  /\ IF initFailed
     THEN app' = "failSend" /\ Push(Plain("DESTROY_ON_INIT"))
     ELSE app' = "idle" /\ UNCHANGED requestQueue
  /\ UNCHANGED <<channelVars, calls, procStream, vt_words, setVars, initVars, recVars, sendT, recvT>>

init_siren_joinSend ==
  /\ app = "failSend" /\ sendT = "exited"
  /\ app' = "failRecv"
  /\ UNCHANGED <<channelVars, calls, procStream, vt_words, setVars, initVars, recVars, requestQueue,
                 sendT, recvT>>

(* RecordingThread::stop: without startMutex; the detached thread is not   *)
(* joined.                                                                 *)
StopRecorder ==
  /\ recTerm' = TRUE /\ recStart' = TRUE
  /\ recT' = IF ~recStart /\ recT = "asleep" THEN "woken" ELSE recT

init_siren_joinRecv ==
  /\ app = "failRecv" /\ recvT = "exited"
  /\ StopRecorder /\ app' = "idle"
  /\ UNCHANGED <<channelVars, calls, procStream, vt_words, setVars, initVars, mic, first, inputStart,
                 recFreed, frames, requestQueue, sendT, recvT>>

(* start_siren_process_stream: the microphone is opened first, without the *)
(* recorder's mutex.  An open microphone may refuse to be opened again.    *)
start_stream ==
  /\ app = "idle" /\ ~procStream /\ calls + sets < MaxCalls
  /\ calls' = calls + 1
  /\ \/ mic' = TRUE /\ app' = "started"
     \/ (mic \/ "startFails" \in Faults) /\ UNCHANGED <<mic, app>>
  /\ UNCHANGED <<channelVars, procStream, vt_words, setVars, initVars, recT, recStart, recTerm, first,
                 inputStart, recFreed, frames, requestQueue, sendT, recvT>>

(* Mutant: the recorder is not notified. *)
start_recorder_silent ==
  /\ app = "started" /\ StartMutexFree
  /\ recStart' = TRUE
  /\ procStream' = TRUE /\ Push(Plain("START")) /\ app' = "idle"
  /\ UNCHANGED <<channelVars, calls, vt_words, setVars, initVars, mic, recT, recTerm, first, inputStart,
                 recFreed, frames, sendT, recvT>>

start_recorder ==
  /\ app = "started" /\ StartMutexFree
  /\ recStart' = TRUE
  /\ recT' = IF recT = "asleep" THEN "woken" ELSE recT
  /\ procStream' = TRUE /\ Push(Plain("START")) /\ app' = "idle"
  /\ UNCHANGED <<channelVars, calls, vt_words, setVars, initVars, mic, recTerm, first, inputStart,
                 recFreed, frames, sendT, recvT>>

(* stop_siren_process_stream, and RecordingThread::pause under its mutex.  *)
stop_stream ==
  /\ app = "idle" /\ procStream
  /\ procStream' = FALSE /\ Push(Plain("STOP")) /\ app' = "pausing"
  /\ UNCHANGED <<channelVars, calls, vt_words, setVars, initVars, recVars, sendT, recvT>>

pause_recorder ==
  /\ app = "pausing" /\ StartMutexFree
  /\ recStart' = FALSE /\ app' = "idle"
  /\ UNCHANGED <<channelVars, calls, procStream, vt_words, setVars, initVars, mic, recT, recTerm, first,
                 inputStart, recFreed, frames, requestQueue, sendT, recvT>>

(* add_vt_word and remove_vt_word: the whole list is sent. *)
SendWords(words) ==
  /\ app = "idle" /\ calls + sets < MaxCalls
  /\ calls' = calls + 1 /\ vt_words' = words
  /\ Push([Plain("SYNC") EXCEPT !.words = words])
  /\ UNCHANGED <<channelVars, app, procStream, setVars, initVars, recVars, sendT, recvT>>

add_vt_word == \E w \in Words \ vt_words : SendWords(vt_words \cup {w})
remove_vt_word == \E w \in vt_words : SendWords(vt_words \ {w})

(* destroy_siren: the recorder is stopped and deleted, which closes the    *)
(* audio socket, then the two threads are joined and the engine awaited.   *)
destroy_siren ==
  /\ app = "idle"
  /\ StopRecorder /\ app' = "deleting"
  /\ UNCHANGED <<channelVars, calls, procStream, vt_words, setVars, initVars, mic, first, inputStart,
                 recFreed, frames, requestQueue, sendT, recvT>>

(* Mutant: the socket stays open. *)
delete_recorder_open ==
  /\ app = "deleting"
  /\ recFreed' = TRUE
  /\ Push(Plain("DESTROY")) /\ app' = "joinSend"
  /\ UNCHANGED <<channelVars, calls, procStream, vt_words, setVars, initVars,
                 mic, recT, recStart, recTerm, first, inputStart, frames, sendT, recvT>>

delete_recorder ==
  /\ app = "deleting"
  /\ recFreed' = TRUE /\ audioOpen' = FALSE
  /\ Push(Plain("DESTROY")) /\ app' = "joinSend"
  /\ UNCHANGED <<requests, answers, audio, engineAlive, calls, procStream, vt_words, setVars, initVars,
                 mic, recT, recStart, recTerm, first, inputStart, frames, sendT, recvT>>

(* Mutant: the response thread is not joined. *)
destroy_join_sender ==
  \/ app = "joinSend" /\ sendT = "exited" /\ app' = "waitpid"
  \/ app = "waitpid" /\ ~engineAlive /\ app' = "gone"

destroy_join ==
  \/ app = "joinSend" /\ sendT = "exited" /\ app' = "joinRecv"
  \/ app = "joinRecv" /\ recvT = "exited" /\ app' = "waitpid"
  \/ app = "waitpid" /\ ~engineAlive /\ app' = "gone"

destroy_wait ==
  /\ destroy_join
  /\ UNCHANGED <<channelVars, calls, procStream, vt_words, setVars, initVars, recVars, requestQueue,
                 sendT, recvT>>

calling == init_siren \/ init_siren_answered \/ init_siren_joinSend \/ init_siren_joinRecv
           \/ start_stream \/ start_recorder \/ stop_stream \/ pause_recorder
           \/ add_vt_word \/ remove_vt_word \/ destroy_siren \/ delete_recorder \/ destroy_wait

---------------------------------------------------------------------------
(* set_siren_state, on the thread of the results; nobody sets states once  *)
(* the object is being destroyed.  Without a callback the caller waits for *)
(* any state to be reported, at most three seconds.                        *)
set_siren_state ==
  /\ setter = "idle" /\ sets < MaxSets /\ calls + sets < MaxCalls
  /\ app \in {"idle", "started", "pausing"}
  /\ sets' = sets + 1
  /\ Push([Plain("SET") EXCEPT !.n = sets + 1])
  /\ setter' = IF SyncSets THEN "waiting" ELSE "idle"
  /\ UNCHANGED <<channelVars, callVars, initVars, recVars, sendT, recvT>>

set_siren_state_returns ==
  /\ setter = "told"
  /\ setter' = "idle"
  /\ UNCHANGED <<channelVars, callVars, sets, initVars, recVars, requestQueue, sendT, recvT>>

set_siren_state_timeout ==
  /\ setter = "waiting"
  /\ setter' = "idle"
  /\ UNCHANGED <<channelVars, callVars, sets, initVars, recVars, requestQueue, sendT, recvT>>

setting == set_siren_state \/ set_siren_state_returns \/ set_siren_state_timeout

---------------------------------------------------------------------------
(* requestThreadHandler.  The message is freed before its kind is tested.  *)
sendRequest ==
  /\ sendT = "pop" /\ requestQueue # <<>>
  /\ LET m == Head(requestQueue) IN
     /\ requestQueue' = Tail(requestQueue)
     /\ IF m.msg = "DESTROY_ON_INIT"
        THEN sendT' = "exited" /\ UNCHANGED requests
        ELSE /\ WriteRequest(m)
             /\ sendT' \in (IF m.msg = "DESTROY" THEN {"exited"} ELSE {"pop"})
                           \cup (IF "reuse" \in Faults THEN {"pop"} ELSE {})
  /\ UNCHANGED <<answers, audio, audioOpen, engineAlive, callVars, setVars, initVars, recVars, recvT>>

(* responseThreadHandler, one case of its switch each. *)
recvInit ==
  /\ recvT = "poll"
  /\ \/ ReadAnswer(Plain("INIT_OK")) /\ UNCHANGED <<initFailed, recvT>>
     \/ ReadAnswer(Plain("INIT_FAILED")) /\ initFailed' = TRUE /\ recvT' = "exited"
  /\ waitingInit' = TRUE
  /\ UNCHANGED <<requests, audio, audioOpen, engineAlive, callVars, setVars, recVars, requestQueue, sendT>>

recvVoice ==
  /\ recvT = "poll" /\ ReadAnswer(Plain("VOICE"))
  /\ UNCHANGED <<requests, audio, audioOpen, engineAlive, callVars, setVars, initVars, recVars,
                 requestQueue, sendT, recvT>>

recvState ==
  /\ recvT = "poll"
  /\ \E n \in 0 .. MaxSets : ReadAnswer([Plain("STATE") EXCEPT !.n = n])
  /\ setter' = IF setter = "waiting" THEN "told" ELSE setter
  /\ UNCHANGED <<requests, audio, audioOpen, engineAlive, callVars, sets, initVars, recVars,
                 requestQueue, sendT, recvT>>

recvDestroy ==
  /\ recvT = "poll" /\ ReadAnswer(Plain("ON_DESTROY"))
  /\ recvT' = "exited"
  /\ UNCHANGED <<requests, audio, audioOpen, engineAlive, callVars, setVars, initVars, recVars,
                 requestQueue, sendT>>

receiving == recvInit \/ recvVoice \/ recvState \/ recvDestroy

---------------------------------------------------------------------------
(* recordingFn: is it terminated? *)
recTop ==
  /\ recT = "top"
  /\ recT' = IF recTerm THEN "exited" ELSE "test"
  /\ mic' = (mic /\ ~(recTerm /\ inputStart))
  /\ UNCHANGED <<channelVars, callVars, setVars, initVars, recStart, recTerm, first, inputStart,
                 recFreed, frames, requestQueue, sendT, recvT>>

(* Under startMutex, while (!recordingStart): close the microphone, except *)
(* the first time, and wait.  The second exit does not close it.           *)
recTest ==
  /\ recT \in {"test", "woken"}
  /\ first' = (first /\ recT = "test")
  /\ IF recStart
     THEN /\ recT' = IF recTerm THEN "exited" ELSE "reading"
          /\ inputStart' = (inputStart \/ (recT = "woken" /\ ~recTerm))
          /\ UNCHANGED mic
     ELSE /\ recT' = "asleep"
          /\ mic' = (mic /\ first')
          /\ inputStart' = (inputStart /\ first')
  /\ UNCHANGED <<channelVars, callVars, setVars, initVars, recStart, recTerm, recFreed,
                 frames, requestQueue, sendT, recvT>>

(* read_input: a frame of an open microphone, or an error. *)
recRead ==
  /\ recT = "reading"
  /\ IF mic /\ frames < MaxFrames
     THEN frames' = frames + 1 /\ recT' = "writing"
     ELSE recT' = "top" /\ UNCHANGED frames
  /\ UNCHANGED <<channelVars, callVars, setVars, initVars, mic, recStart, recTerm, first, inputStart,
                 recFreed, requestQueue, sendT, recvT>>

(* write to the engine; it fails once the socket is closed. *)
recWrite ==
  /\ recT = "writing"
  /\ IF audioOpen
     THEN Len(audio) < AudioRoom /\ audio' = Append(audio, frames)
     ELSE UNCHANGED audio
  /\ recT' = "top"
  /\ UNCHANGED <<requests, answers, audioOpen, engineAlive, callVars, setVars, initVars, mic, recStart,
                 recTerm, first, inputStart, recFreed, frames, requestQueue, sendT, recvT>>

recording == recTop \/ recTest \/ recRead \/ recWrite

proxyNext == calling \/ setting \/ sendRequest \/ receiving \/ recording
==============================================================================
