------------------------------- MODULE EventHub -------------------------------
(***************************************************************************)
(* The thread of vsys-activation that calls the application                *)
(* (event_hub.cpp): events are queued under the mutex and handed to the    *)
(* callback outside of it.  The destructor sets thread_exit and notifies   *)
(* without the mutex.                                                      *)
(***************************************************************************)
EXTENDS Naturals, Sequences

CONSTANT Races  (* notify: the destructor may notify before the thread     *)
                (* that has found nothing to do sleeps                     *)

VARIABLES
  voice_events,
  hub,          (* the thread                                              *)
  thread_exit,
  dying         (* the destructor                                          *)

hubVars == <<voice_events, hub, thread_exit, dying>>

StreamEvents == {"VAD_START", "VAD_DATA", "VAD_END", "VAD_CANCEL"}

HubTypeOK ==
  /\ voice_events \in Seq(StreamEvents)
  /\ hub \in {"test", "block", "wait", "exited"}
  /\ thread_exit \in BOOLEAN
  /\ dying \in {"no", "notify", "join", "done"}

HubInit ==
  /\ voice_events = <<>> /\ hub = "test"
  /\ thread_exit = FALSE /\ dying = "no"

(* send_voice_event, for each event of a step; it needs the mutex, which   *)
(* the thread has from its test to its sleep.                              *)
Send(events) ==
  IF events = <<>>
  THEN UNCHANGED <<voice_events, hub>>
  ELSE /\ hub # "block"
       /\ voice_events' = voice_events \o events
       /\ hub' = IF hub = "wait" THEN "test" ELSE hub

(* The thread takes an event and calls the application with it. *)
Called == hub = "test" /\ ~thread_exit /\ voice_events # <<>>

(* thread_loop: the predicate, the exit, the next event and its callback,  *)
(* which nobody else can touch any more.                                   *)
hub_test ==
  /\ hub = "test"
  /\ hub' = CASE thread_exit -> "exited"
              [] Called -> "test"
              [] OTHER -> IF "notify" \in Races THEN "block" ELSE "wait"
  /\ voice_events' = IF Called THEN Tail(voice_events) ELSE voice_events
  /\ UNCHANGED <<thread_exit, dying>>

hub_block ==
  /\ hub = "block" /\ hub' = "wait"
  /\ UNCHANGED <<voice_events, thread_exit, dying>>

(* ~EventHub. *)
hub_exit ==
  /\ dying = "no" /\ dying' = "notify" /\ thread_exit' = TRUE
  /\ UNCHANGED <<voice_events, hub>>

(* condition.notify_all *)
notify_all == IF hub = "wait" THEN "test" ELSE hub

hub_notify ==
  /\ dying = "notify" /\ dying' = "join" /\ hub' = notify_all
  /\ UNCHANGED <<voice_events, thread_exit>>

hub_join ==
  /\ dying = "join" /\ hub = "exited" /\ dying' = "done"
  /\ UNCHANGED <<voice_events, hub, thread_exit>>

thread_loop == hub_test \/ hub_block
hub_destroy == hub_notify \/ hub_join
==============================================================================
