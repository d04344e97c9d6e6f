----------------------------- MODULE SirenChannel -----------------------------
(***************************************************************************)
(* The three socket pairs between the process of the application           *)
(* (siren_proxy.cpp) and the forked engine (siren_base.cpp):               *)
(* requests, answers and audio (siren_channel.cpp, RecordingThread).       *)
(*                                                                         *)
(* Messages are written under writeGuard and read whole: the channel is a  *)
(* FIFO.  Answers and audio fill a buffer of bounded size and then block   *)
(* the writer; a request is a few bytes and one thread writes it, so that  *)
(* channel is not bounded.                                                 *)
(***************************************************************************)
EXTENDS Naturals, Sequences, FiniteSets

CONSTANTS
  Words,       (* wake words                                               *)
  MaxSets,     (* bound: calls of set_siren_state                          *)
  ReqSlots,    (* length of the proxy's request queue (32 in the code)     *)
  PackSlots,   (* length of the engine's package queue (4096 in the code)  *)
  AnswerRoom,  (* messages the answer socket holds                         *)
  AudioRoom,   (* frames the audio socket holds                            *)
  Faults       (* what may go wrong; see AllFaults                         *)

(* procInit: the processor's init() fails in the engine; preInit: the      *)
(* preprocessor's; lateNotify: the process thread of the engine is done    *)
(* between main's test of processThreadInit and its sleep, where its       *)
(* notify without initMutex is lost; reuse: freed memory is reused before  *)
(* the request thread reads it; startFails: start_input returns an error.  *)
AllFaults == {"procInit", "preInit", "lateNotify", "reuse", "startFails"}

ASSUME FaultsAssumption == Faults \subseteq AllFaults

ASSUME BoundsAssumption ==
  /\ MaxSets \in Nat /\ ReqSlots \in Nat /\ PackSlots \in Nat
  /\ AnswerRoom \in Nat /\ AudioRoom \in Nat

VARIABLES
  requests,    (* proxy to engine                                          *)
  answers,     (* engine to proxy                                          *)
  audio,       (* frames on their way from the recorder to the engine      *)
  audioOpen,   (* the proxy's end of the audio socket is open              *)
  engineAlive  (* the forked process has not exited                        *)

channelVars == <<requests, answers, audio, audioOpen, engineAlive>>

Kinds == {"START", "STOP", "SET", "SYNC", "DESTROY", "DESTROY_ON_INIT",
          "INIT_OK", "INIT_FAILED", "VOICE", "STATE", "ON_DESTROY", "DATA"}

(* n: the state a SET asks for or a STATE reports (the n-th call of        *)
(* set_siren_state); words: the list a SYNC carries.                       *)
Messages == [msg : Kinds, n : 0 .. MaxSets, words : SUBSET Words]

Plain(kind) == [msg |-> kind, n |-> 0, words |-> {}]

(* LFQueue::push on a queue nobody else fills: one item too many is lost   *)
(* and push returns 0 all the same (see LFQueue).                          *)
Pushed(queue, slots, item) ==
  IF Len(queue) < slots THEN Append(queue, item) ELSE queue

Carries(queue, kind) == \E i \in 1 .. Len(queue) : queue[i].msg = kind

ChannelInit ==
  /\ requests = <<>> /\ answers = <<>> /\ audio = <<>>
  /\ audioOpen = TRUE /\ engineAlive = TRUE

ChannelTypeOK ==
  /\ requests \in Seq(Messages) /\ answers \in Seq(Messages)
  /\ audio \in Seq(Nat)
  /\ Len(answers) <= AnswerRoom /\ Len(audio) <= AudioRoom
  /\ audioOpen \in BOOLEAN /\ engineAlive \in BOOLEAN

(* SirenSocketWriter::writeMessage, and pollMessage's read of one message. *)
WriteRequest(m) == requests' = Append(requests, m)
WriteAnswer(m) == Len(answers) < AnswerRoom /\ answers' = Append(answers, m)
ReadRequest(m) == requests # <<>> /\ m = Head(requests) /\ requests' = Tail(requests)
ReadAnswer(m) == answers # <<>> /\ m = Head(answers) /\ answers' = Tail(answers)
==============================================================================
