--------------------------------- MODULE Siren ---------------------------------
(***************************************************************************)
(* libbsiren as the application meets it: the proxy in the application's   *)
(* process and the forked engine, over their three socket pairs.           *)
(***************************************************************************)
EXTENDS SirenProxy, SirenBase

vars == <<channelVars, proxyVars, baseVars>>

Init == ChannelInit /\ ProxyInit /\ BaseInit

(* The engine exists from the fork on. *)
Next ==
  \/ proxyNext /\ UNCHANGED baseVars
  \/ app # "new" /\ baseNext /\ UNCHANGED proxyVars

Spec == Init /\ [][Next]_vars

(* Every thread is scheduled.  The application initialises the library and *)
(* goes on with a call it has begun; it need not make another.             *)
FairSpec ==
  /\ Spec
  /\ WF_vars(app # "idle" /\ calling /\ UNCHANGED baseVars)
  /\ WF_vars(sendRequest /\ UNCHANGED baseVars)
  /\ WF_vars(receiving /\ UNCHANGED baseVars)
  /\ WF_vars(recording /\ UNCHANGED baseVars)
  /\ WF_vars(app # "new" /\ processThread /\ UNCHANGED proxyVars)
  /\ WF_vars(app # "new" /\ taskThread /\ UNCHANGED proxyVars)
  /\ WF_vars(app # "new" /\ mainThread /\ UNCHANGED proxyVars)

---------------------------------------------------------------------------
(* Types of both sides and of the channels between them. *)
TypeOK == ChannelTypeOK /\ ProxyTypeOK /\ BaseTypeOK

(* The library is destroyed, or about to be. *)
Destroying == app \in {"deleting", "joinSend", "joinRecv", "waitpid", "gone"}

InTransit(kind) == Carries(requestQueue, kind) \/ Carries(requests, kind)

StateInTransit == InTransit("SET") \/ taskT = "clear" \/ ~stateTaken \/ procT = "load"

WordsInTransit ==
  \/ InTransit("SYNC") \/ Carries(processQueue, "SYNC")
  \/ package.msg = "SYNC" /\ procT \in {"flag", "load", "handle"}

(* Requests are handed over twice, through a queue and a socket, and then  *)
(* either through a package or through two atomics that only keep the last *)
(* state (siren_base.cpp:182, 314).  Nothing in transit means that the     *)
(* engine is in the last state the application asked for, unless the sleep *)
(* word came later, and that it knows the words of the proxy.              *)
RequestsTakeEffect ==
  /\ ~StateInTransit => engineState \in {sets, Asleep}
  /\ ~WordsInTransit => engineWords = vt_words

(* When destroy_siren returns, both threads of the proxy and the engine    *)
(* are gone and no answer is left unread but those behind ON_DESTROY       *)
(* (siren_proxy.cpp:768): the application may drop its callbacks.          *)
QuietOnceDestroyed ==
  app = "gone" =>
    /\ sendT = "exited" /\ recvT = "exited"
    /\ {mainT, procT, taskT} = {"exited"} /\ ~engineAlive
    /\ ~Carries(answers, "ON_DESTROY") /\ ~Carries(requests, "DESTROY")

(* destroy_siren returns, wherever the seven threads are (siren_proxy.cpp: *)
(* 768, siren_base.cpp:125), of a library whose engine came up: the main   *)
(* thread of the engine is woken from its wait or gets the end of the      *)
(* audio stream.                                                           *)
DestroyEnds == (app = "deleting" /\ ~initFailed) ~> (app = "gone")

(* A started stream is heard: while it stays started, what the microphone  *)
(* gives reaches the engine's package queue (siren_proxy.cpp:105, 144,     *)
(* siren_base.cpp:67, 407).                                                *)
StreamFlows ==
  (app = "idle" /\ ~initFailed /\ procStream /\ mic /\ frames = 0)
    ~> ((frames = MaxFrames /\ audio = <<>>) \/ ~procStream \/ ~mic \/ Destroying)

---------------------------------------------------------------------------
(* What the repository says of the library and the code does not keep.     *)

(* "open the process stream: siren will keep reading audio from            *)
(* siren_input_if_t until stop_siren_process_stream" (doc/siren api.md:    *)
(* 287): while the stream is started its microphone is open.  The recorder *)
(* may close it, late for the last stop, after start_input of the next     *)
(* start (siren_proxy.cpp:107, 168).                                       *)
StartedMicOpen == (app = "idle" /\ procStream /\ ~recTerm) => mic

(* "waiting recording thread exit" (siren_proxy.cpp:138, 331): the object  *)
(* of the recording thread is deleted when the thread is gone.             *)
DeletedAfterUse == recFreed => recT \in {"none", "exited"}

(* "callback: not NULL makes the call asynchronous, otherwise it is        *)
(* synchronous" (doc/siren api.md:400).                                    *)
SyncStateInForce ==
  [][set_siren_state_returns => engineState \in {sets, Asleep}]_vars

(* destroy_siren returns of a library whose engine failed to come up,      *)
(* which init_siren does not tell (siren_proxy.cpp:339, 788).              *)
FailedInitDestroyed == (app = "deleting" /\ initFailed) ~> (app = "gone")

(* init_siren returns, whatever the engine meets (siren_proxy.cpp:318,     *)
(* siren_base.cpp:289, 403).                                               *)
InitEnds == (app = "initWait") ~> (app = "idle")
==============================================================================
