------------------------------- MODULE SirenBase -------------------------------
(***************************************************************************)
(* The engine process of libbsiren (siren_base.cpp): its main thread       *)
(* reads audio and preprocesses it, its response thread carries out the    *)
(* requests of the proxy, its process thread turns packages into events.   *)
(* The detectors are external: a frame gives no event, a voice event or    *)
(* the event of the sleep word.                                            *)
(***************************************************************************)
EXTENDS SirenChannel

VARIABLES
  mainT,         (* what the main thread is about to do                    *)
  procT,         (* the process thread                                     *)
  taskT,         (* the response thread of the engine                      *)
  procInitDone,  (* processThreadInit                                      *)
  baseStart,     (* recordingStart of SirenBase                            *)
  baseExit,      (* recordingExit                                          *)
  state,         (* the atomic state                                       *)
  stateTaken,    (* spinlock: set once the state was taken over            *)
  processQueue,
  package,       (* what the process thread popped                         *)
  engineState,   (* state the processor is in                              *)
  engineWords    (* wake words the processor knows                         *)

mainVars == <<mainT, procInitDone, audio, audioOpen, engineAlive>>
taskVars == <<taskT, requests, baseStart, baseExit, state>>
procVars == <<procT, package, engineState, engineWords>>
baseVars == <<mainT, procT, taskT, procInitDone, baseStart, baseExit, state, stateTaken,
              processQueue, package, engineState, engineWords>>

MainSteps == {"waitInit", "asleepInit", "preInit", "wait", "read", "join", "exited"}
ProcSteps == {"init", "pop", "flag", "load", "handle", "exited"}
TaskSteps == {"none", "poll", "clear", "bye", "exited"}

NoPackage == Plain("DATA")

(* The state the sleep word puts the processor in; the others are the call *)
(* of set_siren_state they come from, 0 the initial one.                   *)
Asleep == MaxSets + 1

BaseInit ==
  /\ mainT = "waitInit" /\ procT = "init" /\ taskT = "none"
  /\ procInitDone = FALSE /\ baseStart = FALSE /\ baseExit = FALSE
  /\ state = 0 /\ stateTaken = FALSE
  /\ processQueue = <<>> /\ package = NoPackage
  /\ engineState = 0 /\ engineWords = {}

BaseTypeOK ==
  /\ mainT \in MainSteps /\ procT \in ProcSteps /\ taskT \in TaskSteps
  /\ procInitDone \in BOOLEAN /\ baseStart \in BOOLEAN /\ baseExit \in BOOLEAN
  /\ state \in 0 .. MaxSets /\ stateTaken \in BOOLEAN
  /\ processQueue \in Seq(Messages) /\ Len(processQueue) <= PackSlots
  /\ package \in Messages
  /\ engineState \in 0 .. Asleep /\ engineWords \subseteq Words

---------------------------------------------------------------------------
(* processThreadHandler: init(), then the flag and the notification, both  *)
(* without initMutex.  A failed init leaves processThreadInit FALSE.       *)
procBegin ==
  /\ procT = "init"
  /\ \/ /\ procInitDone' = TRUE /\ procT' = "pop"
        /\ mainT' \in (IF mainT = "asleepInit" THEN {"waitInit"} ELSE {mainT})
                     \cup (IF "lateNotify" \in Faults THEN {mainT} ELSE {})
     \/ /\ "procInit" \in Faults
        /\ procT' = "exited" /\ UNCHANGED <<procInitDone, mainT>>
  /\ UNCHANGED <<channelVars, taskT, baseStart, baseExit, state, stateTaken, processQueue,
                 package, engineState, engineWords>>

procPop ==
  /\ procT = "pop" /\ processQueue # <<>>
  /\ package' = Head(processQueue) /\ processQueue' = Tail(processQueue)
  /\ procT' = "flag"
  /\ UNCHANGED <<channelVars, mainT, taskT, procInitDone, baseStart, baseExit, state, stateTaken,
                 engineState, engineWords>>

(* while (!spinlock.test_and_set()): the flag is tested and set at once ... *)
procTakeState ==
  /\ procT = "flag"
  /\ procT' = IF stateTaken THEN "handle" ELSE "load"
  /\ stateTaken' = TRUE
  /\ UNCHANGED <<channelVars, mainT, taskT, procInitDone, baseStart, baseExit, state,
                 processQueue, package, engineState, engineWords>>

(* ... the state is loaded afterwards, given to the processor and         *)
(* reported, whichever call it came from.                                  *)
procSetState ==
  /\ procT = "load"
  /\ engineState' = state /\ procT' = "flag"
  /\ WriteAnswer([Plain("STATE") EXCEPT !.n = state])
  /\ UNCHANGED <<requests, audio, audioOpen, engineAlive, mainT, taskT, procInitDone, baseStart,
                 baseExit, state, stateTaken, processQueue, package, engineWords>>

(* A voice package: no event, a voice event, or the sleep word, which puts *)
(* the processor to sleep without a callback.                              *)
procFrame ==
  /\ procT = "handle" /\ package.msg = "DATA"
  /\ procT' = "pop" /\ package' = NoPackage
  /\ \/ UNCHANGED <<answers, engineState>>
     \/ WriteAnswer(Plain("VOICE")) /\ engineState' \in {engineState, Asleep}
  /\ UNCHANGED <<requests, audio, audioOpen, engineAlive, mainT, taskT, procInitDone, baseStart,
                 baseExit, state, stateTaken, processQueue, engineWords>>

procSync ==
  /\ procT = "handle" /\ package.msg = "SYNC"
  /\ engineWords' = package.words
  /\ procT' = "pop" /\ package' = NoPackage
  /\ UNCHANGED <<channelVars, mainT, taskT, procInitDone, baseStart, baseExit, state, stateTaken,
                 processQueue, engineState>>

procDestroy ==
  /\ procT = "handle" /\ package.msg = "DESTROY"
  /\ procT' = "exited"
  /\ UNCHANGED <<channelVars, mainT, taskT, procInitDone, baseStart, baseExit, state, stateTaken,
                 processQueue, package, engineState, engineWords>>

processThread == procBegin \/ procPop \/ procTakeState \/ procSetState
                 \/ procFrame \/ procSync \/ procDestroy

---------------------------------------------------------------------------
(* The response thread of the engine: START and STOP. *)
taskStart ==
  /\ taskT = "poll"
  /\ ReadRequest(Plain("START")) /\ baseStart' = TRUE
  /\ UNCHANGED <<answers, audio, audioOpen, engineAlive, mainT, taskT, baseExit, procInitDone, state,
                 stateTaken, processQueue, procVars>>

taskStop ==
  /\ taskT = "poll"
  /\ ReadRequest(Plain("STOP")) /\ baseStart' = FALSE
  /\ UNCHANGED <<answers, audio, audioOpen, engineAlive, mainT, taskT, baseExit, procInitDone, state,
                 stateTaken, processQueue, procVars>>

(* SET_STATE: the state is stored, then the flag cleared; nobody wakes the *)
(* process thread, which looks at the flag when it pops a package.         *)
taskState ==
  /\ taskT = "poll"
  /\ \E n \in 1 .. MaxSets :
       ReadRequest([Plain("SET") EXCEPT !.n = n]) /\ state' = n
  /\ taskT' = "clear"
  /\ UNCHANGED <<answers, audio, audioOpen, engineAlive, mainT, baseStart, baseExit, procInitDone,
                 stateTaken, processQueue, procVars>>

(* Mutant: the flag is not cleared. *)
taskClear_kept ==
  /\ taskT = "clear" /\ taskT' = "poll"
  /\ UNCHANGED <<channelVars, mainT, baseStart, baseExit, procInitDone, state, stateTaken,
                 processQueue, procVars>>

taskClear ==
  /\ taskT = "clear"
  /\ stateTaken' = FALSE /\ taskT' = "poll"
  /\ UNCHANGED <<channelVars, mainT, baseStart, baseExit, procInitDone, state, processQueue, procVars>>

(* SYNC_VT_WORD_LIST: a package of the process thread. *)
taskSync ==
  /\ taskT = "poll"
  /\ \E words \in SUBSET Words :
       LET m == [Plain("SYNC") EXCEPT !.words = words] IN
       ReadRequest(m) /\ processQueue' = Pushed(processQueue, PackSlots, m)
  /\ UNCHANGED <<answers, audio, audioOpen, engineAlive, mainT, taskT, baseStart, baseExit,
                 procInitDone, state, stateTaken, procVars>>

(* destroy_siren of the engine: the process thread is told to exit ...     *)
taskDestroy ==
  /\ taskT = "poll"
  /\ ReadRequest(Plain("DESTROY"))
  /\ processQueue' = Pushed(processQueue, PackSlots, Plain("DESTROY"))
  /\ taskT' = "bye"
  /\ UNCHANGED <<answers, audio, audioOpen, engineAlive, mainT, baseStart, baseExit,
                 procInitDone, state, stateTaken, procVars>>

(* ... then the proxy's response thread, before the process thread is      *)
(* through, and last the main thread.                                      *)
taskBye ==
  /\ taskT = "bye"
  /\ WriteAnswer(Plain("ON_DESTROY"))
  /\ baseExit' = TRUE /\ baseStart' = TRUE /\ taskT' = "exited"
  /\ UNCHANGED <<requests, audio, audioOpen, engineAlive, mainT, procInitDone, state, stateTaken,
                 processQueue, procVars>>

taskThread == taskStart \/ taskStop \/ taskState \/ taskClear \/ taskSync
              \/ taskDestroy \/ taskBye

---------------------------------------------------------------------------
(* waitingProcessInit: initCond.wait on processThreadInit. *)
mainWaitInit ==
  /\ mainT = "waitInit"
  /\ mainT' = IF procInitDone THEN "preInit" ELSE "asleepInit"
  /\ UNCHANGED <<channelVars, procT, taskT, procInitDone, baseStart, baseExit, state, stateTaken,
                 processQueue, package, engineState, engineWords>>

(* launchResponseThread, the preprocessor's init() and its answer.  When   *)
(* it fails, main goes on to join a thread that waits for requests.        *)
mainPreInit ==
  /\ mainT = "preInit" /\ taskT' = "poll"
  /\ \/ /\ WriteAnswer(Plain("INIT_OK")) /\ mainT' = "wait"
        /\ UNCHANGED processQueue
     \/ /\ "preInit" \in Faults
        /\ WriteAnswer(Plain("INIT_FAILED")) /\ mainT' = "join"
        /\ processQueue' = Pushed(processQueue, PackSlots, Plain("DESTROY"))
  /\ UNCHANGED <<requests, audio, audioOpen, engineAlive, procT, procInitDone, baseStart, baseExit,
                 state, stateTaken, package, engineState, engineWords>>

(* loopRecording: wait until started, then look at recordingExit. *)
mainWait ==
  /\ mainT = "wait" /\ baseStart
  /\ mainT' = IF baseExit THEN "join" ELSE "read"
  /\ UNCHANGED <<channelVars, procT, taskT, procInitDone, baseStart, baseExit, state, stateTaken,
                 processQueue, package, engineState, engineWords>>

(* The blocking read: a frame, of which preprocess may give nothing yet,   *)
(* or the end of the stream once the proxy has closed its end.             *)
mainRead ==
  /\ mainT = "read" /\ audio # <<>>
  /\ audio' = Tail(audio) /\ mainT' = "wait"
  /\ \/ processQueue' = Pushed(processQueue, PackSlots, Plain("DATA"))
     \/ UNCHANGED processQueue
  /\ UNCHANGED <<requests, answers, audioOpen, engineAlive, procT, taskT, procInitDone, baseStart,
                 baseExit, state, stateTaken, package, engineState, engineWords>>

mainReadEnd ==
  /\ mainT = "read" /\ audio = <<>> /\ ~audioOpen
  /\ mainT' = IF baseExit THEN "join" ELSE "wait"
  /\ UNCHANGED <<channelVars, procT, taskT, procInitDone, baseStart, baseExit, state, stateTaken,
                 processQueue, package, engineState, engineWords>>

(* Both threads joined: exit(0). *)
mainJoin ==
  /\ mainT = "join" /\ taskT = "exited" /\ procT = "exited"
  /\ mainT' = "exited" /\ engineAlive' = FALSE
  /\ UNCHANGED <<requests, answers, audio, audioOpen, procT, taskT, procInitDone, baseStart, baseExit,
                 state, stateTaken, processQueue, package, engineState, engineWords>>

mainThread == mainWaitInit \/ mainPreInit \/ mainWait \/ mainRead \/ mainReadEnd \/ mainJoin

baseNext == processThread \/ taskThread \/ mainThread
==============================================================================
