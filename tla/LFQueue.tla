------------------------------- MODULE LFQueue -------------------------------
(***************************************************************************)
(* The lock-free queue of libbsiren (lfqueue.cpp): a ring of Slots items,  *)
(* each with a futex counter, filled by many threads and emptied by one.   *)
(* It carries the requests of the proxy to its sending thread and the      *)
(* voice packages of the engine to its processing thread.                  *)
(*                                                                         *)
(* One action per atomic instruction.  Both queues are popped without a    *)
(* timeout and pushed without blocking, so a counter is never taken below  *)
(* zero: the retry of push on -1 and the -110 branches are unreachable.    *)
(* queued_item_ is left out: only reset(), which nobody calls, reads it.   *)
(* So is the wake_if_needed of pop: nobody but the consumer ever waits.    *)
(***************************************************************************)
EXTENDS Naturals, Sequences, FiniteSets

CONSTANTS
  Producers,  (* the threads that push                                     *)
  Slots,      (* the length of the ring                                    *)
  MaxPush,    (* bound: how many pushes are begun                          *)
  NoItem      (* nullptr                                                   *)

ASSUME SlotsAssumption == Slots \in Nat \ {0}
ASSUME NoItemAssumption == NoItem \notin Nat

VARIABLES
  push_,      (* pushes begun: the next ticket; item k is the k-th pushed  *)
  pop_,       (* pops begun                                                *)
  val,        (* counter_.val of each slot                                 *)
  waiters,    (* counter_.waiters of each slot                             *)
  data_,      (* data_ of each slot                                        *)
  pc,         (* what each producer is about to do                         *)
  seq,        (* its ticket                                                *)
  cpc,        (* what the consumer is about to do                          *)
  cseq,       (* its ticket                                                *)
  seen,       (* the value of the counter it last read or decremented      *)
  overrun,    (* history: over Slots pushes awaited the end of their pop   *)
  dropped,    (* history: items that overflowed                            *)
  delivered,  (* history: items popped, in order                           *)
  misses      (* history: pops that returned -1                            *)

ring == <<val, waiters, data_>>
producing == <<push_, pc, seq, overrun, dropped>>
consuming == <<pop_, cpc, cseq, seen, delivered, misses>>
vars == <<ring, producing, consuming>>

Slot(k) == k % Slots
Ring == 0 .. Slots - 1

PushSteps == {"idle", "inc", "force", "store", "wake", "notify", "overflow"}
PopSteps == {"idle", "dec", "enlist", "wait", "asleep", "again", "leave", "take", "fail"}

Init ==
  /\ push_ = 0 /\ pop_ = 0
  /\ val = [s \in Ring |-> 0]
  /\ waiters = [s \in Ring |-> 0]
  /\ data_ = [s \in Ring |-> NoItem]
  /\ pc = [p \in Producers |-> "idle"]
  /\ seq = [p \in Producers |-> 0]
  /\ cpc = "idle" /\ cseq = 0 /\ seen = 0
  /\ overrun = FALSE /\ dropped = {} /\ delivered = <<>> /\ misses = 0

Goto(p, step) == pc' = [pc EXCEPT ![p] = step]

(* Pushes begun whose pop has not returned. *)
Awaited == push_ - (Len(delivered) + misses)

(* push: fetch_and_add of push_. *)
BeginPush(p) ==
  /\ pc[p] = "idle" /\ push_ < MaxPush
  /\ push_' = push_ + 1
  /\ overrun' = (overrun \/ Awaited + 1 > Slots)
  /\ seq' = [seq EXCEPT ![p] = push_]
  /\ Goto(p, "inc")
  /\ UNCHANGED <<ring, dropped, consuming>>

(* inc_if_le0: a free slot is claimed at once, a full one is read only. *)
IncIfFree(p) ==
  LET s == Slot(seq[p]) IN
  /\ pc[p] = "inc"
  /\ val' = IF val[s] = 0 THEN [val EXCEPT ![s] = 1] ELSE val
  /\ Goto(p, IF val[s] = 0 THEN "store" ELSE "force")
  /\ UNCHANGED <<waiters, data_, push_, seq, overrun, dropped, consuming>>

(* Mutant: the slot found full is left alone. *)
IncFull_gives_up(p) ==
  /\ pc[p] = "force"
  /\ Goto(p, "overflow")
  /\ dropped' = dropped \cup {seq[p]}
  /\ UNCHANGED <<ring, push_, seq, overrun, consuming>>

(* The unconditional increment after inc_if_le0 found the slot full.  The  *)
(* consumer may have freed it in between.                                  *)
IncFull(p) ==
  LET s == Slot(seq[p]) IN
  /\ pc[p] = "force"
  /\ val' = [val EXCEPT ![s] = @ + 1]
  /\ Goto(p, IF val[s] > 0 THEN "overflow" ELSE "store")
  /\ dropped' = IF val[s] > 0 THEN dropped \cup {seq[p]} ELSE dropped
  /\ UNCHANGED <<waiters, data_, push_, seq, overrun, consuming>>

(* Mutant: the pointer is stored over what the slot holds. *)
Store_overwrites(p) ==
  /\ pc[p] = "store"
  /\ data_' = [data_ EXCEPT ![Slot(seq[p])] = seq[p]]
  /\ Goto(p, "wake")
  /\ UNCHANGED <<val, waiters, push_, seq, overrun, dropped, consuming>>

(* Spin until the slot is empty and put the pointer. *)
Store(p) ==
  LET s == Slot(seq[p]) IN
  /\ pc[p] = "store" /\ data_[s] = NoItem
  /\ data_' = [data_ EXCEPT ![s] = seq[p]]
  /\ Goto(p, "wake")
  /\ UNCHANGED <<val, waiters, push_, seq, overrun, dropped, consuming>>

(* wake_if_needed: read waiters ... *)
ReadWaiters(p) ==
  LET waiting == waiters[Slot(seq[p])] > 0 IN
  /\ pc[p] \in {"wake", "overflow"}
  /\ Goto(p, IF waiting THEN "notify" ELSE "idle")
  /\ UNCHANGED <<ring, push_, seq, overrun, dropped, consuming>>

(* ... and wake whoever sleeps on this slot. *)
Wake(p) ==
  /\ pc[p] = "notify"
  /\ cpc' = IF cpc = "asleep" /\ Slot(cseq) = Slot(seq[p]) THEN "again" ELSE cpc
  /\ Goto(p, "idle")
  /\ UNCHANGED <<ring, push_, seq, overrun, dropped, pop_, cseq, seen, delivered, misses>>

(* pop: fetch_and_add of pop_. *)
BeginPop ==
  /\ cpc = "idle"
  /\ pop_' = pop_ + 1 /\ cseq' = pop_
  /\ cpc' = "dec"
  /\ UNCHANGED <<ring, producing, seen, delivered, misses>>

(* dec_if_gt0, by a thread that goes to `taken' or to `missing' next. *)
DecIfPositive(taken, missing) ==
  LET s == Slot(cseq) IN
  /\ seen' = val[s]
  /\ val' = IF val[s] > 0 THEN [val EXCEPT ![s] = @ - 1] ELSE val
  /\ cpc' = IF val[s] > 0 THEN taken ELSE missing
  /\ UNCHANGED <<waiters, data_, producing, pop_, cseq, delivered, misses>>

AfterDec(x) == IF x = 1 THEN "take" ELSE "fail"

Dec == cpc = "dec" /\ DecIfPositive(AfterDec(val[Slot(cseq)]), "enlist")

(* dec: register as a waiter before the futex call. *)
Enlist ==
  /\ cpc = "enlist"
  /\ waiters' = [waiters EXCEPT ![Slot(cseq)] = @ + 1]
  /\ cpc' = "wait"
  /\ UNCHANGED <<val, data_, producing, pop_, cseq, seen, delivered, misses>>

(* Mutant: sleep without comparing the counter with the value read. *)
FutexWait_blind ==
  /\ cpc = "wait"
  /\ cpc' = "asleep"
  /\ UNCHANGED <<ring, producing, pop_, cseq, seen, delivered, misses>>

(* futex_wait: the kernel sleeps only while the counter is still `seen'. *)
FutexWait ==
  /\ cpc = "wait"
  /\ cpc' = IF val[Slot(cseq)] = seen THEN "asleep" ELSE "again"
  /\ UNCHANGED <<ring, producing, pop_, cseq, seen, delivered, misses>>

(* A signal interrupts the futex call. *)
Interrupted ==
  /\ cpc = "asleep" /\ cpc' = "again"
  /\ UNCHANGED <<ring, producing, pop_, cseq, seen, delivered, misses>>

DecAgain == cpc = "again" /\ DecIfPositive("leave", "wait")

Leave ==
  /\ cpc = "leave"
  /\ waiters' = [waiters EXCEPT ![Slot(cseq)] = @ - 1]
  /\ cpc' = AfterDec(seen)
  /\ UNCHANGED <<val, data_, producing, pop_, cseq, seen, delivered, misses>>

(* Spin until the pointer has been put, and take it. *)
Take ==
  LET s == Slot(cseq) IN
  /\ cpc = "take" /\ data_[s] # NoItem
  /\ data_' = [data_ EXCEPT ![s] = NoItem]
  /\ delivered' = Append(delivered, data_[s])
  /\ cpc' = "idle"
  /\ UNCHANGED <<val, waiters, producing, pop_, cseq, seen, misses>>

(* The counter was above one: pop returns -1 and leaves the item there. *)
FailPop ==
  /\ cpc = "fail" /\ cpc' = "idle"
  /\ misses' = misses + 1
  /\ UNCHANGED <<ring, producing, pop_, cseq, seen, delivered>>

PushStep(p) ==
  BeginPush(p) \/ IncIfFree(p) \/ IncFull(p) \/ Store(p) \/ ReadWaiters(p) \/ Wake(p)

Pop ==
  BeginPop \/ Dec \/ Enlist \/ FutexWait \/ DecAgain \/ Leave \/ Take \/ FailPop

Next == (\E p \in Producers : PushStep(p)) \/ Pop \/ Interrupted

Spec == Init /\ [][Next]_vars

(* A push that has begun goes on, and the consumer calls pop again and     *)
(* again (requestThreadHandler and processThreadHandler loop on it).       *)
FairSpec ==
  /\ Spec
  /\ \A p \in Producers : WF_vars(PushStep(p) /\ pc[p] # "idle")
  /\ WF_vars(Pop)

------------------------------------------------------------------------------
Items == 0 .. MaxPush - 1

TypeOK ==
  /\ push_ \in 0 .. MaxPush /\ pop_ \in Nat /\ overrun \in BOOLEAN
  /\ val \in [Ring -> Nat] /\ waiters \in [Ring -> 0 .. 1]
  /\ data_ \in [Ring -> Items \cup {NoItem}]
  /\ pc \in [Producers -> PushSteps] /\ seq \in [Producers -> Items]
  /\ cpc \in PopSteps /\ cseq \in Nat /\ seen \in Nat
  /\ dropped \subseteq Items /\ delivered \in Seq(Items) /\ misses \in Nat

Held == {data_[s] : s \in Ring} \ {NoItem}

(* The consumer has decremented the counter of its ticket. *)
Claimed == cpc \in {"idle", "leave", "take", "fail"}

(* The counter of a slot is the number of pushes minus the number of pops  *)
(* that went through it: an overflow leaves it above one until as many     *)
(* pops have failed, and it never drifts (lfqueue.cpp:59-71,78,98).        *)
CountersExact ==
  \A s \in Ring :
    val[s] = Cardinality({k \in 0 .. push_ - 1 :
                            /\ Slot(k) = s
                            /\ \A p \in Producers : seq[p] = k => pc[p] \notin {"inc", "force"}})
             - Cardinality({k \in 0 .. pop_ - 1 :
                              Slot(k) = s /\ (k = cseq => Claimed)})

Queue == INSTANCE LFQueueSpec WITH
  begun <- push_, held <- Held, lost <- dropped

(* The ring keeps the promise of LFQueueSpec: first in first out and       *)
(* nothing lost until more than Slots pushes await their pop, no item      *)
(* twice, and no more failed pops than dropped pushes (lfqueue.cpp:126-185)*)
KeepsPromise == Queue!QueueSpec

(* What has been put is taken in the end, even after overflows moved the   *)
(* tickets of the two sides apart: the consumer neither misses a wake-up   *)
(* nor waits on one slot while an item lies in another (lfqueue.cpp:95-124)*)
PutIsTaken == \A k \in Items : (k \in Held) ~> (\E i \in DOMAIN delivered : delivered[i] = k)

(* A dropped push is reported: push() or the pop() that meets the overflow *)
(* returns -2, the value both callers of the queue test for                *)
(* (siren_proxy.cpp:353, siren_base.cpp:303, lfqueue.h:15).  It fails: push*)
(* returns 0 whatever happened and pop returns 0 or -1.                    *)
OverflowReported == dropped = {}
=============================================================================
