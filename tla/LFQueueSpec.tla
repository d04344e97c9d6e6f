----------------------------- MODULE LFQueueSpec -----------------------------
(***************************************************************************)
(* What the lock-free queue of libbsiren promises its one consumer: each   *)
(* pushed item is handed out at most once, and in the order of the pushes  *)
(* until more than Slots pushes have awaited their pop at one time (the    *)
(* ring was overrun); only then may an item be dropped, and a pop comes    *)
(* back empty-handed only to make up for a dropped push.                   *)
(***************************************************************************)
EXTENDS Naturals, Sequences, FiniteSets

CONSTANT Slots   (* the length of the queue                                *)

VARIABLES
  begun,      (* pushes begun; the n-th carries item n - 1                 *)
  overrun,    (* more than Slots pushes awaited their pop at some time     *)
  held,       (* items put and not taken                                   *)
  lost,       (* items dropped                                             *)
  delivered,  (* items handed out, in order                                *)
  misses      (* pops that came back empty-handed                          *)

queueVars == <<begun, overrun, held, lost, delivered, misses>>

(* Pushes begun whose pop has not returned. *)
Awaited == begun - (Len(delivered) + misses)

Decided == held \cup lost \cup {delivered[i] : i \in DOMAIN delivered}

QueueInit ==
  begun = 0 /\ overrun = FALSE /\ held = {} /\ lost = {} /\ delivered = <<>> /\ misses = 0

Begin ==
  /\ begun' = begun + 1
  /\ overrun' = (overrun \/ Awaited' > Slots)
  /\ UNCHANGED <<held, lost, delivered, misses>>

Put(k) ==
  /\ k < begun /\ k \notin Decided
  /\ held' = held \cup {k}
  /\ UNCHANGED <<begun, overrun, lost, delivered, misses>>

Lose(k) ==
  /\ k < begun /\ k \notin Decided
  /\ Awaited > Slots
  /\ lost' = lost \cup {k}
  /\ UNCHANGED <<begun, overrun, held, delivered, misses>>

Deliver(k) ==
  /\ k \in held
  /\ ~overrun => k = Len(delivered)
  /\ held' = held \ {k}
  /\ delivered' = Append(delivered, k)
  /\ UNCHANGED <<begun, overrun, lost, misses>>

Miss ==
  /\ misses < Cardinality(lost)
  /\ misses' = misses + 1
  /\ UNCHANGED <<begun, overrun, held, lost, delivered>>

QueueNext ==
  \/ Begin \/ Miss
  \/ \E k \in 0 .. begun - 1 : Put(k) \/ Lose(k) \/ Deliver(k)

QueueSpec == QueueInit /\ [][QueueNext]_queueVars
=============================================================================
