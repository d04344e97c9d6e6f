---------------------------- MODULE LFQueueProofs ----------------------------
(***************************************************************************)
(* The counters of the lock-free queue are exact, and the ring keeps the   *)
(* promise of LFQueueSpec, for any number of producers, slots and pushes.  *)
(***************************************************************************)
EXTENDS LFQueue, FiniteSetTheorems, TLAPS

(* The tickets of slot s whose push has incremented its counter, and those *)
(* whose pop has decremented it: the two sets CountersExact counts.        *)
Pushed(s) == {k \in 0 .. push_ - 1 :
                Slot(k) = s /\ \A p \in Producers : seq[p] = k => pc[p] \notin {"inc", "force"}}
Popped(s) == {k \in 0 .. pop_ - 1 : Slot(k) = s /\ (k = cseq => Claimed)}

(* Types, and: a ticket belongs to one push and was given out; that of the *)
(* consumer too.                                                           *)
Tickets ==
  /\ push_ \in Nat /\ pop_ \in Nat
  /\ val \in [Ring -> Int]
  /\ pc \in [Producers -> PushSteps] /\ seq \in [Producers -> Nat]
  /\ cpc \in PopSteps /\ cseq \in Nat
  /\ \A p \in Producers : pc[p] # "idle" => seq[p] < push_
  /\ \A p, q \in Producers : pc[p] # "idle" /\ pc[q] # "idle" /\ seq[p] = seq[q] => p = q
  /\ cpc # "idle" => cseq < pop_

Exact == \A s \in Ring : val[s] = Cardinality(Pushed(s)) - Cardinality(Popped(s))

Inv == Tickets /\ Exact

---------------------------------------------------------------------------
(* A ticket has a slot of the ring. *)
LEMMA SlotInRing == \A k \in Nat : Slot(k) \in Ring
BY SlotsAssumption DEF Slot, Ring

(* Both sets are finite. *)
LEMMA FiniteCounts ==
  ASSUME Tickets, NEW s
  PROVE  /\ IsFiniteSet(Pushed(s)) /\ Cardinality(Pushed(s)) \in Nat
         /\ IsFiniteSet(Popped(s)) /\ Cardinality(Popped(s)) \in Nat
<1>1. IsFiniteSet(0 .. push_ - 1) /\ IsFiniteSet(0 .. pop_ - 1)
  BY FS_Interval DEF Tickets
<1>2. Pushed(s) \subseteq 0 .. push_ - 1 /\ Popped(s) \subseteq 0 .. pop_ - 1
  BY DEF Pushed, Popped
<1>3. IsFiniteSet(Pushed(s)) /\ IsFiniteSet(Popped(s))
  BY <1>1, <1>2, FS_Subset
<1> QED
  BY <1>3, FS_CardinalityType

(* Nothing is counted at first. *)
LEMMA InitInv == Init => Inv
<1> SUFFICES ASSUME Init PROVE Inv
  OBVIOUS
<1>1. Tickets
  BY DEF Init, Tickets, PushSteps, PopSteps
<1>2. \A s \in Ring : Pushed(s) = {} /\ Popped(s) = {}
  <2>1. 0 .. push_ - 1 = {} /\ 0 .. pop_ - 1 = {}
    BY DEF Init
  <2> QED
    BY <2>1 DEF Pushed, Popped
<1>3. \A s \in Ring : val[s] = 0
  BY DEF Init
<1>4. Exact
  BY <1>2, <1>3, FS_EmptySet DEF Exact
<1> QED
  BY <1>1, <1>4 DEF Inv

(* A step that leaves both sets and the counters alone keeps them exact. *)
LEMMA NothingCounted ==
  ASSUME Exact, val' = val, \A s \in Ring : Pushed(s)' = Pushed(s) /\ Popped(s)' = Popped(s)
  PROVE  Exact'
BY DEF Exact, Ring

(* The increment of a push, whichever of the two it is. *)
LEMMA Incremented ==
  ASSUME Inv, NEW p \in Producers, pc[p] \in {"inc", "force"},
         NEW step \in PushSteps \ {"inc", "force", "idle"},
         pc' = [pc EXCEPT ![p] = step], val' = [val EXCEPT ![Slot(seq[p])] = @ + 1],
         UNCHANGED <<push_, seq, consuming>>
  PROVE  Inv'
<1> DEFINE k == seq[p]
           t == Slot(k)
<1> USE DEF Inv
<1>1. k \in Nat /\ k < push_ /\ t \in Ring
  BY SlotInRing DEF Tickets
<1>2. Tickets'
  <2>1. val' \in [Ring -> Int]
    BY <1>1 DEF Tickets
  <2>2. pc' \in [Producers -> PushSteps]
    BY DEF Tickets
  <2>3. \A q \in Producers : pc'[q] # "idle" => pc[q] # "idle"
    BY DEF Tickets
  <2> QED
    BY <2>1, <2>2, <2>3 DEF Tickets, consuming
<1>3. \A s \in Ring : Popped(s)' = Popped(s)
  BY DEF Popped, Claimed, consuming
<1>4. k \notin Pushed(t)
  BY DEF Pushed
<1>5. Pushed(t)' = Pushed(t) \cup {k}
  <2>1. \A q \in Producers : seq'[q] = k => pc'[q] \notin {"inc", "force"}
    <3> SUFFICES ASSUME NEW q \in Producers, seq[q] = k PROVE pc'[q] \notin {"inc", "force"}
      OBVIOUS
    <3>1. CASE q = p
      BY <3>1 DEF Tickets
    <3>2. CASE q # p
      <4>1. pc[q] = "idle"
        BY <3>2 DEF Tickets
      <4> QED
        BY <3>2, <4>1 DEF Tickets
    <3> QED
      BY <3>1, <3>2
  <2>2. \A j \in 0 .. push_ - 1 : j # k =>
          ((\A q \in Producers : seq'[q] = j => pc'[q] \notin {"inc", "force"})
             <=> (\A q \in Producers : seq[q] = j => pc[q] \notin {"inc", "force"}))
    BY DEF Tickets
  <2>3. k \in 0 .. push_ - 1
    BY <1>1 DEF Tickets
  <2> QED
    BY <2>1, <2>2, <2>3 DEF Pushed
<1>6. \A s \in Ring : s # t => Pushed(s)' = Pushed(s)
  <2>1. \A j \in 0 .. push_ - 1 : j # k =>
          ((\A q \in Producers : seq'[q] = j => pc'[q] \notin {"inc", "force"})
             <=> (\A q \in Producers : seq[q] = j => pc[q] \notin {"inc", "force"}))
    BY DEF Tickets
  <2> QED
    BY <2>1 DEF Pushed
<1>7. Cardinality(Pushed(t)') = Cardinality(Pushed(t)) + 1
  BY <1>4, <1>5, FiniteCounts, FS_AddElement
<1>8. Exact'
  <2> SUFFICES ASSUME NEW s \in Ring
               PROVE  val'[s] = Cardinality(Pushed(s)') - Cardinality(Popped(s)')
    BY DEF Exact, Ring
  <2>1. CASE s = t
    <3>1. val'[s] = val[s] + 1
      BY <1>1, <2>1 DEF Tickets
    <3> QED
      BY <1>3, <1>7, <2>1, <3>1, FiniteCounts DEF Exact
  <2>2. CASE s # t
    BY <1>3, <1>6, <2>2 DEF Exact, Tickets
  <2> QED
    BY <2>1, <2>2
<1> QED
  BY <1>2, <1>8

(* The decrement of a pop, from "dec" or "again". *)
LEMMA Decremented ==
  ASSUME Inv, cpc \in {"dec", "again"}, NEW step \in {"leave", "take", "fail"},
         cpc' = step, val' = [val EXCEPT ![Slot(cseq)] = @ - 1],
         UNCHANGED <<producing, pop_, cseq>>
  PROVE  Inv'
<1> DEFINE t == Slot(cseq)
<1> USE DEF Inv
<1>1. cseq \in Nat /\ cseq < pop_ /\ pop_ \in Nat /\ t \in Ring
  BY SlotInRing DEF Tickets
<1>2. Tickets'
  <2>1. val' \in [Ring -> Int]
    BY <1>1 DEF Tickets
  <2> QED
    BY <1>1, <2>1 DEF Tickets, producing, PopSteps
<1>3. \A s \in Ring : Pushed(s)' = Pushed(s)
  BY DEF Pushed, producing
<1>4. ~Claimed /\ Claimed'
  BY DEF Claimed
<1>5. t = Slot(cseq) /\ cseq \notin Popped(t)
  BY <1>4 DEF Popped
<1>6. Popped(t)' = Popped(t) \cup {cseq}
  BY <1>1, <1>4 DEF Popped
<1>7. \A s \in Ring : s # t => Popped(s)' = Popped(s)
  BY <1>4 DEF Popped
<1>8. Cardinality(Popped(t)') = Cardinality(Popped(t)) + 1
  BY <1>5, <1>6, FiniteCounts, FS_AddElement
<1>9. Exact'
  <2> SUFFICES ASSUME NEW s \in Ring
               PROVE  val'[s] = Cardinality(Pushed(s)') - Cardinality(Popped(s)')
    BY DEF Exact, Ring
  <2>1. CASE s = t
    <3>1. val'[s] = val[s] - 1
      BY <1>1, <2>1 DEF Tickets
    <3> QED
      BY <1>3, <1>8, <2>1, <3>1, FiniteCounts DEF Exact
  <2>2. CASE s # t
    BY <1>3, <1>7, <2>2 DEF Exact, Tickets
  <2> QED
    BY <2>1, <2>2
<1> QED
  BY <1>2, <1>9

(* A producer that moves on without an increment: its ticket is counted    *)
(* after the step as before.                                               *)
LEMMA PusherMoves ==
  ASSUME Inv, NEW p \in Producers, NEW step \in PushSteps,
         pc' = [pc EXCEPT ![p] = step],
         pc[p] \in {"inc", "force"} <=> step \in {"inc", "force"},
         pc[p] # "idle",
         UNCHANGED <<push_, seq, val, pop_, cseq>>,
         cpc' \in PopSteps, cpc = "idle" <=> cpc' = "idle", Claimed' = Claimed
  PROVE  Inv'
<1> USE DEF Inv
<1>1. Tickets'
  <2>1. pc' \in [Producers -> PushSteps]
    BY DEF Tickets
  <2>2. \A q \in Producers : pc'[q] # "idle" => pc[q] # "idle"
    BY DEF Tickets
  <2> QED
    BY <2>1, <2>2 DEF Tickets
<1>2. \A s \in Ring : Popped(s)' = Popped(s)
  BY DEF Popped
<1>3. \A q \in Producers : pc'[q] \in {"inc", "force"} <=> pc[q] \in {"inc", "force"}
  BY DEF Tickets
<1>4. \A s \in Ring : Pushed(s)' = Pushed(s)
  BY <1>3 DEF Pushed
<1> QED
  BY <1>1, <1>2, <1>4, NothingCounted

(* A push that begins takes a ticket nobody has, and has not incremented   *)
(* anything.                                                               *)
LEMMA PushBegins ==
  ASSUME Inv, NEW p \in Producers, BeginPush(p)
  PROVE  Inv'
<1> USE DEF Inv, BeginPush, Goto, ring, consuming
<1>1. Tickets'
  <2>1. pc' \in [Producers -> PushSteps] /\ seq' \in [Producers -> Nat] /\ push_' = push_ + 1
    BY DEF Tickets, PushSteps
  <2>2. \A q \in Producers : q # p => pc'[q] = pc[q] /\ seq'[q] = seq[q]
    BY DEF Tickets
  <2>3. seq'[p] = push_ /\ push_ \in Nat
    BY DEF Tickets
  <2>4. \A q \in Producers : pc'[q] # "idle" => seq'[q] < push_'
    BY <2>1, <2>2, <2>3 DEF Tickets
  <2>5. \A q, r \in Producers :
          pc'[q] # "idle" /\ pc'[r] # "idle" /\ seq'[q] = seq'[r] => q = r
    <3> SUFFICES ASSUME NEW q \in Producers, NEW r \in Producers,
                        pc'[q] # "idle", pc'[r] # "idle", seq'[q] = seq'[r]
                 PROVE  q = r
      OBVIOUS
    <3>1. \A o \in Producers : o # p /\ pc'[o] # "idle" => seq'[o] < push_ /\ seq'[o] \in Nat
      BY <2>2 DEF Tickets
    <3>2. CASE q # p /\ r # p
      BY <2>2, <3>2 DEF Tickets
    <3>3. CASE q = p \/ r = p
      BY <2>3, <3>1, <3>3
    <3> QED
      BY <3>2, <3>3
  <2> QED
    BY <2>1, <2>4, <2>5 DEF Tickets
<1>2. \A s \in Ring : Popped(s)' = Popped(s)
  BY DEF Popped, Claimed
<1>3. \A s \in Ring : Pushed(s)' = Pushed(s)
  <2>1. \A j \in 0 .. push_ - 1 :
          ((\A q \in Producers : seq'[q] = j => pc'[q] \notin {"inc", "force"})
             <=> (\A q \in Producers : seq[q] = j => pc[q] \notin {"inc", "force"}))
    <3> SUFFICES ASSUME NEW j \in 0 .. push_ - 1, NEW q \in Producers
                 PROVE  (seq'[q] = j => pc'[q] \notin {"inc", "force"})
                          <=> (seq[q] = j => pc[q] \notin {"inc", "force"})
      OBVIOUS
    <3>1. CASE q = p
      BY <3>1 DEF Tickets
    <3>2. CASE q # p
      BY <3>2 DEF Tickets
    <3> QED
      BY <3>1, <3>2
  <2>2. ~(\A q \in Producers : seq'[q] = push_ => pc'[q] \notin {"inc", "force"})
    BY DEF Tickets
  <2>3. 0 .. push_' - 1 = (0 .. push_ - 1) \cup {push_}
    BY DEF Tickets
  <2> QED
    BY <2>1, <2>2, <2>3 DEF Pushed
<1> QED
  BY <1>1, <1>2, <1>3, NothingCounted

(* A step of the consumer that decrements nothing. *)
LEMMA PopperMoves ==
  ASSUME Inv, UNCHANGED <<producing, val>>, cpc' \in PopSteps,
         \/ /\ cpc = "idle" /\ cpc' = "dec" /\ pop_' = pop_ + 1 /\ cseq' = pop_
         \/ /\ cpc # "idle" /\ UNCHANGED <<pop_, cseq>> /\ Claimed' = Claimed
  PROVE  Inv'
<1> USE DEF Inv, producing
<1>1. Tickets'
  BY DEF Tickets
<1>2. \A s \in Ring : Pushed(s)' = Pushed(s)
  BY DEF Pushed
<1>3. \A s \in Ring : Popped(s)' = Popped(s)
  <2>1. CASE cpc # "idle"
    BY <2>1 DEF Popped
  <2>2. CASE cpc = "idle"
    <3>1. cpc' = "dec" /\ pop_' = pop_ + 1 /\ cseq' = pop_ /\ pop_ \in Nat
      BY <2>2 DEF Tickets
    <3>2. Claimed /\ ~Claimed'
      BY <2>2, <3>1 DEF Claimed
    <3>3. 0 .. pop_' - 1 = (0 .. pop_ - 1) \cup {pop_}
      BY <3>1
    <3>4. pop_ \notin 0 .. pop_ - 1
      BY <3>1
    <3> QED
      BY <3>1, <3>2, <3>3, <3>4 DEF Popped
  <2> QED
    BY <2>1, <2>2
<1> QED
  BY <1>1, <1>2, <1>3, NothingCounted

---------------------------------------------------------------------------
(* The steps of push (lfqueue.cpp:126-160). *)
LEMMA PushInv == ASSUME Inv, NEW p \in Producers, PushStep(p) PROVE Inv'
<1> USE DEF Inv
<1>0. seq[p] \in Nat /\ Slot(seq[p]) \in Ring /\ cpc \in PopSteps
  BY SlotInRing DEF Tickets
<1>1. CASE BeginPush(p)
  BY <1>1, PushBegins
<1>2. CASE IncIfFree(p)
  <2>1. CASE val[Slot(seq[p])] = 0
    <3>1. val' = [val EXCEPT ![Slot(seq[p])] = @ + 1]
      BY <1>2, <2>1 DEF IncIfFree
    <3> QED
      BY <1>2, <2>1, <3>1, Incremented DEF IncIfFree, Goto, PushSteps
  <2>2. CASE val[Slot(seq[p])] # 0
    BY <1>0, <1>2, <2>2, PusherMoves DEF IncIfFree, Goto, PushSteps, consuming, Claimed
  <2> QED
    BY <2>1, <2>2
<1>3. CASE IncFull(p)
  <2>1. CASE val[Slot(seq[p])] > 0
    BY <1>3, <2>1, Incremented DEF IncFull, Goto, PushSteps
  <2>2. CASE ~(val[Slot(seq[p])] > 0)
    BY <1>3, <2>2, Incremented DEF IncFull, Goto, PushSteps
  <2> QED
    BY <2>1, <2>2
<1>4. CASE Store(p)
  BY <1>0, <1>4, PusherMoves DEF Store, Goto, PushSteps, consuming, Claimed
<1>5. CASE ReadWaiters(p)
  BY <1>0, <1>5, PusherMoves DEF ReadWaiters, Goto, PushSteps, ring, consuming, Claimed
<1>6. CASE Wake(p)
  <2>1. cpc' \in PopSteps /\ (cpc = "idle" <=> cpc' = "idle") /\ Claimed' = Claimed
    BY <1>0, <1>6 DEF Wake, Claimed, PopSteps
  <2> QED
    BY <1>6, <2>1, PusherMoves DEF Wake, Goto, PushSteps, ring
<1> QED
  BY <1>1, <1>2, <1>3, <1>4, <1>5, <1>6 DEF PushStep

(* The steps of pop (lfqueue.cpp:95-124, 162-185). *)
LEMMA PopInv == ASSUME Inv, Pop \/ Interrupted PROVE Inv'
<1> USE DEF Inv
<1>0. cseq \in Nat /\ Slot(cseq) \in Ring
  BY SlotInRing DEF Tickets
<1>1. CASE BeginPop
  BY <1>1, PopperMoves DEF BeginPop, ring, PopSteps
<1>2. CASE Dec
  <2>1. CASE val[Slot(cseq)] > 0
    <3>1. AfterDec(val[Slot(cseq)]) \in {"leave", "take", "fail"}
      BY DEF AfterDec
    <3> QED
      BY <1>2, <2>1, <3>1, Decremented DEF Dec, DecIfPositive
  <2>2. CASE ~(val[Slot(cseq)] > 0)
    BY <1>2, <2>2, PopperMoves DEF Dec, DecIfPositive, PopSteps, Claimed
  <2> QED
    BY <2>1, <2>2
<1>3. CASE DecAgain
  <2>1. CASE val[Slot(cseq)] > 0
    BY <1>3, <2>1, Decremented DEF DecAgain, DecIfPositive
  <2>2. CASE ~(val[Slot(cseq)] > 0)
    BY <1>3, <2>2, PopperMoves DEF DecAgain, DecIfPositive, PopSteps, Claimed
  <2> QED
    BY <2>1, <2>2
<1>4. CASE Enlist
  BY <1>4, PopperMoves DEF Enlist, PopSteps, Claimed
<1>5. CASE FutexWait
  BY <1>5, PopperMoves DEF FutexWait, ring, PopSteps, Claimed
<1>6. CASE Leave
  BY <1>6, PopperMoves DEF Leave, AfterDec, PopSteps, Claimed
<1>7. CASE Take
  BY <1>7, PopperMoves DEF Take, PopSteps, Claimed
<1>8. CASE FailPop
  BY <1>8, PopperMoves DEF FailPop, ring, PopSteps, Claimed
<1>9. CASE Interrupted
  BY <1>9, PopperMoves DEF Interrupted, ring, PopSteps, Claimed
<1> QED
  BY <1>1, <1>2, <1>3, <1>4, <1>5, <1>6, <1>7, <1>8, <1>9 DEF Pop

(* Every step keeps the invariant. *)
LEMMA StepInv == Inv /\ [Next]_vars => Inv'
<1> SUFFICES ASSUME Inv, [Next]_vars PROVE Inv'
  OBVIOUS
<1>1. CASE \E p \in Producers : PushStep(p)
  BY <1>1, PushInv
<1>2. CASE Pop \/ Interrupted
  BY <1>2, PopInv
<1>3. CASE UNCHANGED vars
  <2>1. UNCHANGED <<push_, pop_, val, pc, seq, cpc, cseq>>
    BY <1>3 DEF vars, ring, producing, consuming
  <2>2. Tickets'
    BY <2>1 DEF Inv, Tickets
  <2>3. \A s \in Ring : Pushed(s)' = Pushed(s) /\ Popped(s)' = Popped(s)
    BY <2>1 DEF Pushed, Popped, Claimed
  <2> QED
    BY <2>1, <2>2, <2>3, NothingCounted DEF Inv
<1> QED
  BY <1>1, <1>2, <1>3 DEF Next

---------------------------------------------------------------------------
(* The counter of each slot is the number of pushes less the number of     *)
(* pops that went through it, whatever the producers that find the ring    *)
(* full and the consumer that goes to sleep are interleaved (lfqueue.cpp:  *)
(* 59-71, 78, 98).                                                         *)
THEOREM CountersNeverDrift == Spec => []CountersExact
<1>1. Inv => CountersExact
  BY DEF Inv, Exact, Pushed, Popped, CountersExact
<1> QED
  BY <1>1, InitInv, StepInv, PTL DEF Spec

---------------------------------------------------------------------------
(* Pops that have returned. *)
Returned == Len(delivered) + misses

(* Types, and: the consumer holds the ticket of the next pop to return;    *)
(* while the ring has not been overrun, the tickets given to producers are *)
(* at most Slots ahead of it.                                              *)
Turns ==
  /\ delivered \in Seq(Nat) /\ misses \in Nat /\ seen \in Nat /\ overrun \in BOOLEAN
  /\ val \in [Ring -> Nat] /\ data_ \in [Ring -> Nat \cup {NoItem}]
  /\ pop_ = IF cpc = "idle" THEN Returned ELSE Returned + 1
  /\ cpc # "idle" => cseq = Returned
  /\ ~overrun => push_ <= Returned + Slots

(* Two tickets of one slot are at least Slots apart.                       *)
LEMMA SlotsApart == \A j, k \in Nat : j < k /\ Slot(j) = Slot(k) => j + Slots <= k
<1> SUFFICES ASSUME NEW j \in Nat, NEW k \in Nat, j < k, Slot(j) = Slot(k) PROVE j + Slots <= k
  OBVIOUS
<1> DEFINE a == j \div Slots
           b == k \div Slots
<1>1. a \in Nat /\ b \in Nat
  BY SlotsAssumption
<1>2. j % Slots = j - Slots * a /\ k % Slots = k - Slots * b
  BY SlotsAssumption
<1> HIDE DEF a, b
<1>3. Slots * a \in Nat /\ Slots * b \in Nat
  BY <1>1, SlotsAssumption
<1>4. k - j = Slots * b - Slots * a
  BY <1>2, <1>3 DEF Slot
<1>5. Slots * b - Slots * a = Slots * (b - a)
  BY <1>1, SlotsAssumption
<1>6. b - a >= 1 => Slots * (b - a) >= Slots
  BY <1>1, SlotsAssumption
<1>7. b - a <= 0 => Slots * (b - a) <= 0
  BY <1>1, SlotsAssumption
<1>8. Slots * (b - a) = k - j
  BY <1>4, <1>5
<1>9. b - a \in Int /\ b - a >= 1
  BY <1>1, <1>7, <1>8
<1> QED
  BY <1>6, <1>8, <1>9, SlotsAssumption

(* A ticket not counted yet on a slot whose counter is positive is more    *)
(* than Slots ahead of the pops that have returned: two tickets of that    *)
(* slot are pushed and not popped, and Slots tickets in a row have only    *)
(* one.                                                                    *)
LEMMA Crowded ==
  ASSUME Inv, Turns, NEW k \in Nat, k < push_, k \notin Pushed(Slot(k)), val[Slot(k)] > 0
  PROVE  push_ > Returned + Slots
<1> DEFINE s == Slot(k)
           A == {j \in 0 .. push_ - 1 : Slot(j) = s}
           B == {j \in 0 .. Returned - 1 : Slot(j) = s}
<1>0. Returned \in Nat /\ push_ \in Nat /\ pop_ \in Nat
  BY DEF Turns, Returned, Inv, Tickets
<1>1. /\ IsFiniteSet(A) /\ Cardinality(A) \in Nat
      /\ IsFiniteSet(B) /\ Cardinality(B) \in Nat
  <2>1. IsFiniteSet(0 .. push_ - 1) /\ IsFiniteSet(0 .. Returned - 1)
    BY <1>0, FS_Interval
  <2>2. A \subseteq 0 .. push_ - 1 /\ B \subseteq 0 .. Returned - 1
    OBVIOUS
  <2>3. IsFiniteSet(A) /\ IsFiniteSet(B)
    BY <2>1, <2>2, FS_Subset
  <2> QED
    BY <2>3, FS_CardinalityType
<1>2. Cardinality(A) > Cardinality(Pushed(s))
  <2>1. Pushed(s) \cup {k} \subseteq A
    BY <1>0 DEF Pushed
  <2>2. Cardinality(Pushed(s) \cup {k}) = Cardinality(Pushed(s)) + 1
    BY FiniteCounts, FS_AddElement DEF Inv
  <2>3. Cardinality(Pushed(s) \cup {k}) <= Cardinality(A)
    BY <1>1, <2>1, FS_Subset
  <2> QED
    BY <1>1, <2>2, <2>3, FiniteCounts DEF Inv
<1>3. Cardinality(B) <= Cardinality(Popped(s))
  <2>1. B \subseteq Popped(s)
    BY <1>0 DEF Turns, Popped, Claimed
  <2> QED
    BY <2>1, FiniteCounts, FS_Subset DEF Inv
<1>4. Cardinality(Pushed(s)) > Cardinality(Popped(s))
  <2>1. s \in Ring
    BY SlotInRing
  <2>2. val[s] = Cardinality(Pushed(s)) - Cardinality(Popped(s))
    BY <2>1 DEF Inv, Exact
  <2> QED
    BY <2>2, FiniteCounts DEF Inv
<1>5. Cardinality(A) >= Cardinality(B) + 2
  <2>1. Cardinality(Pushed(s)) \in Nat /\ Cardinality(Popped(s)) \in Nat
    BY FiniteCounts DEF Inv
  <2> HIDE DEF A, B, s
  <2> QED
    BY <1>1, <1>2, <1>3, <1>4, <2>1
<1> SUFFICES ASSUME push_ <= Returned + Slots PROVE FALSE
  BY <1>0, SlotsAssumption
<1>6. \A i, j \in A \ B : i = j
  <2>1. \A i \in A \ B : i \in Nat /\ Returned <= i /\ i < Returned + Slots /\ Slot(i) = s
    BY <1>0, SlotsAssumption
  <2> SUFFICES ASSUME NEW i \in A \ B, NEW j \in A \ B, i < j PROVE FALSE
    BY <2>1
  <2>2. i + Slots <= j
    BY <2>1, SlotsApart
  <2> HIDE DEF A, B
  <2> QED
    BY <1>0, <2>1, <2>2, SlotsAssumption
<1>7. Cardinality(A) <= Cardinality(B) + 1
  <2>1. PICK i : A \ B \subseteq {i}
    BY <1>6
  <2>2. A \subseteq B \cup {i}
    BY <2>1
  <2>3. IsFiniteSet(B \cup {i}) /\ Cardinality(B \cup {i}) <= Cardinality(B) + 1
    BY <1>1, FS_AddElement
  <2>4. Cardinality(A) <= Cardinality(B \cup {i})
    BY <2>2, <2>3, FS_Subset
  <2>5. Cardinality(B \cup {i}) \in Nat
    BY <2>3, FS_CardinalityType
  <2> HIDE DEF A, B
  <2> QED
    BY <1>1, <2>3, <2>4, <2>5
<1> HIDE DEF A, B
<1> QED
  BY <1>1, <1>5, <1>7

(* The items handed out.                                                   *)
Given == {delivered[i] : i \in DOMAIN delivered}

(* An item is in one place: each slot holds items of its own, what is held *)
(* was not handed out, all that is held, dropped or handed out was pushed, *)
(* and a producer that still has to place its item finds it nowhere.       *)
Owned ==
  /\ \A s \in Ring : data_[s] # NoItem =>
       data_[s] < push_ /\ Slot(data_[s]) = s /\ data_[s] \notin Given
  /\ \A k \in dropped \cup Given : k \in Nat /\ k < push_
  /\ \A p \in Producers : pc[p] \in {"inc", "force", "store"} =>
       seq[p] \notin Held \cup dropped \cup Given

(* One element for each unit a counter stands above one: a dropped push    *)
(* put it there, and a failed pop takes it away.                           *)
Excess == {x \in Ring \X (Nat \ {0}) : x[2] < val[x[1]]}

(* The consumer has met an overflow and has not returned -1 yet.           *)
Failing == cpc = "fail" \/ (cpc = "leave" /\ seen # 1)

(* Dropped pushes, less failed pops, are what the counters have in excess. *)
Balance ==
  /\ IsFiniteSet(dropped) /\ IsFiniteSet(Excess)
  /\ Cardinality(dropped) = misses + Cardinality(Excess) + IF Failing THEN 1 ELSE 0

(* Until the ring is overrun, items are handed out in the order of the     *)
(* tickets.                                                                *)
InOrder == ~overrun => dropped = {} /\ \A i \in 1 .. Len(delivered) : delivered[i] = i - 1

(* The inductive invariant of the refinement.                              *)
RingInv == Inv /\ Turns /\ Owned /\ Balance /\ InOrder

(* The ring is empty at first.                                             *)
LEMMA InitRing == Init => RingInv
<1> SUFFICES ASSUME Init PROVE RingInv
  OBVIOUS
<1>1. delivered = <<>> /\ Len(delivered) = 0 /\ DOMAIN delivered = {}
  BY DEF Init
<1>1a. Given = {}
  BY <1>1 DEF Given
<1>2. Turns
  <2>1. Returned = 0 /\ delivered \in Seq(Nat)
    BY <1>1 DEF Init, Returned
  <2>2. val \in [Ring -> Nat] /\ data_ \in [Ring -> Nat \cup {NoItem}]
    BY DEF Init
  <2>3. misses = 0 /\ seen = 0 /\ pop_ = 0 /\ push_ = 0 /\ cpc = "idle" /\ overrun \in BOOLEAN
    BY DEF Init
  <2> QED
    BY <2>1, <2>2, <2>3, SlotsAssumption DEF Turns
<1>3. Owned
  BY <1>1a DEF Init, Owned
<1>4. Balance
  <2>1. \A s \in Ring : val[s] = 0
    BY DEF Init
  <2>2. Excess = {}
    BY <2>1 DEF Excess
  <2> QED
    BY <2>2, FS_EmptySet DEF Balance, Init, Failing
<1>5. InOrder
  BY <1>1 DEF InOrder, Init
<1> QED
  BY <1>2, <1>3, <1>4, <1>5, InitInv DEF RingInv

---------------------------------------------------------------------------
(* push keeps Turns.                                                       *)
LEMMA PushTurns == ASSUME RingInv, NEW p \in Producers, PushStep(p) PROVE Turns'
<1> USE DEF RingInv
<1>0. seq[p] \in Nat /\ Slot(seq[p]) \in Ring /\ push_ \in Nat /\ Returned \in Nat
  BY SlotInRing DEF Inv, Tickets, Turns, Returned
<1>1. CASE BeginPush(p)
  <2>0. Returned' = Returned /\ push_' = push_ + 1 /\ Awaited = push_ - Returned
    BY <1>1 DEF BeginPush, consuming, Awaited, Returned
  <2>1. ~overrun' => ~overrun /\ push_' <= Returned' + Slots
    <3>1. ~overrun' => ~(Awaited + 1 > Slots)
      BY <1>1 DEF BeginPush
    <3>2. ~overrun' => ~overrun
      BY <1>1 DEF BeginPush
    <3>3. ~(Awaited + 1 > Slots) => push_' <= Returned' + Slots
      BY <1>0, <2>0, SlotsAssumption
    <3> QED
      BY <3>1, <3>2, <3>3
  <2>2. overrun' \in BOOLEAN
    BY <1>1 DEF BeginPush
  <2> QED
    BY <1>1, <2>0, <2>1, <2>2 DEF BeginPush, Turns, consuming, ring
<1>2. CASE IncIfFree(p)
  <2>1. val' \in [Ring -> Nat]
    BY <1>0, <1>2 DEF IncIfFree, Turns
  <2> QED
    BY <1>2, <2>1 DEF IncIfFree, Turns, consuming, Returned
<1>3. CASE IncFull(p)
  <2>1. val' \in [Ring -> Nat]
    BY <1>0, <1>3 DEF IncFull, Turns
  <2> QED
    BY <1>3, <2>1 DEF IncFull, Turns, consuming, Returned
<1>4. CASE Store(p)
  <2>1. data_' \in [Ring -> Nat \cup {NoItem}]
    BY <1>0, <1>4 DEF Store, Turns
  <2> QED
    BY <1>4, <2>1 DEF Store, Turns, consuming, Returned
<1>5. CASE ReadWaiters(p)
  BY <1>5 DEF ReadWaiters, Turns, consuming, ring, Returned
<1>6. CASE Wake(p)
  BY <1>6 DEF Wake, Turns, ring, Returned
<1> QED
  BY <1>1, <1>2, <1>3, <1>4, <1>5, <1>6 DEF PushStep

(* pop keeps Turns.                                                        *)
LEMMA PopTurns == ASSUME RingInv, Pop \/ Interrupted PROVE Turns'
<1> USE DEF RingInv
<1>0. cseq \in Nat /\ Slot(cseq) \in Ring /\ Returned \in Nat /\ pop_ \in Nat
  BY SlotInRing DEF Inv, Tickets, Turns, Returned
<1>1. CASE BeginPop
  BY <1>0, <1>1 DEF BeginPop, ring, producing, Turns, Returned
<1>2. ASSUME NEW a, NEW b, a # "idle", b # "idle", cpc # "idle", DecIfPositive(a, b)
      PROVE  Turns'
  <2>1. val' \in [Ring -> Nat] /\ seen' \in Nat
    BY <1>0, <1>2 DEF DecIfPositive, Turns
  <2> QED
    BY <1>0, <1>2, <2>1 DEF DecIfPositive, producing, Turns, Returned
<1>3. CASE Dec
  BY <1>2, <1>3 DEF Dec, AfterDec
<1>4. CASE DecAgain
  BY <1>2, <1>4 DEF DecAgain
<1>5. CASE Enlist \/ FutexWait \/ Interrupted
  BY <1>5 DEF Enlist, FutexWait, Interrupted, ring, producing, Turns, Returned
<1>6. CASE Leave
  BY <1>6 DEF Leave, AfterDec, ring, producing, Turns, Returned
<1>7. CASE Take
  <2>1. data_[Slot(cseq)] \in Nat
    BY <1>0, <1>7 DEF Take, Turns
  <2>2. data_' \in [Ring -> Nat \cup {NoItem}]
    BY <1>0, <1>7 DEF Take, Turns
  <2>3. delivered' \in Seq(Nat) /\ Len(delivered') = Len(delivered) + 1
    BY <1>7, <2>1 DEF Take, Turns
  <2>4. Returned' = Returned + 1
    BY <1>7, <2>3 DEF Take, Turns, Returned
  <2> QED
    BY <1>0, <1>7, <2>2, <2>3, <2>4, SlotsAssumption DEF Take, producing, Turns, Inv, Tickets
<1>8. CASE FailPop
  <2>1. misses' \in Nat /\ Returned' = Returned + 1
    BY <1>8 DEF FailPop, Turns, Returned
  <2> QED
    BY <1>0, <1>8, <2>1, SlotsAssumption DEF FailPop, ring, producing, Turns, Inv, Tickets
<1> QED
  BY <1>1, <1>3, <1>4, <1>5, <1>6, <1>7, <1>8 DEF Pop

---------------------------------------------------------------------------
(* What is held depends on the slots only ...                              *)
LEMMA SameHeld == ASSUME UNCHANGED data_ PROVE Held' = Held
BY DEF Held, Ring

(* ... and what was handed out on the deliveries.                          *)
LEMMA SameGiven == ASSUME UNCHANGED delivered PROVE Given' = Given
BY DEF Given

(* A step that places nothing keeps every item in its place.               *)
LEMMA OwnedKept ==
  ASSUME Owned, UNCHANGED <<push_, data_, seq, dropped, delivered>>,
         \A q \in Producers : pc'[q] \in {"inc", "force", "store"} =>
                              pc[q] \in {"inc", "force", "store"}
  PROVE  Owned'
BY SameHeld, SameGiven DEF Owned, Ring

(* push keeps every item in one place.                                     *)
LEMMA PushOwned == ASSUME RingInv, NEW p \in Producers, PushStep(p) PROVE Owned'
<1> DEFINE k == seq[p]
           t == Slot(k)
           Active == {"inc", "force", "store"}
<1> USE DEF RingInv
<1>0. k \in Nat /\ t \in Ring /\ push_ \in Nat
  BY SlotInRing DEF Inv, Tickets
<1>1. CASE BeginPush(p)
  <2>1. push_' = push_ + 1 /\ dropped' = dropped /\ data_' = data_ /\ Held' = Held /\ Given' = Given
    BY <1>1, SameHeld, SameGiven DEF BeginPush, ring, consuming
  <2>2. \A s \in Ring : data_[s] # NoItem => data_[s] \in Nat
    BY DEF Turns
  <2>3. \A s \in Ring : data_'[s] # NoItem =>
          data_'[s] < push_' /\ Slot(data_'[s]) = s /\ data_'[s] \notin Given'
    BY <1>0, <2>1, <2>2 DEF Owned
  <2>4. \A j \in dropped' \cup Given' : j \in Nat /\ j < push_'
    BY <1>0, <2>1 DEF Owned
  <2>5. \A q \in Producers : pc'[q] \in Active => seq'[q] \notin Held' \cup dropped' \cup Given'
    <3> SUFFICES ASSUME NEW q \in Producers, pc'[q] \in Active
                 PROVE  seq'[q] \notin Held \cup dropped \cup Given
      BY <2>1
    <3>1. CASE q = p
      <4>1. seq'[q] = push_
        BY <1>1, <3>1 DEF BeginPush, Inv, Tickets
      <4>2. push_ \notin Held
        BY <1>0, <2>2, NoItemAssumption DEF Held, Owned
      <4>3. push_ \notin dropped \cup Given
        BY <1>0 DEF Owned
      <4> QED
        BY <4>1, <4>2, <4>3
    <3>2. CASE q # p
      BY <1>1, <3>2 DEF BeginPush, Goto, Owned, Inv, Tickets
    <3> QED
      BY <3>1, <3>2
  <2> QED
    BY <2>3, <2>4, <2>5 DEF Owned, Ring
<1>2. CASE IncIfFree(p)
  <2>1. \A q \in Producers : pc'[q] \in Active => pc[q] \in Active
    BY <1>2 DEF IncIfFree, Goto, Inv, Tickets
  <2> QED
    BY <1>2, <2>1, OwnedKept DEF IncIfFree, consuming
<1>3. CASE IncFull(p)
  <2>1. \A q \in Producers : pc'[q] \in Active => pc[q] \in Active
    BY <1>3 DEF IncFull, Goto, Inv, Tickets
  <2>2. CASE val[t] > 0
    <3>1. /\ dropped' = dropped \cup {k} /\ UNCHANGED <<push_, data_, seq, delivered>>
          /\ pc[p] = "force" /\ pc' = [pc EXCEPT ![p] = "overflow"]
      BY <1>3, <2>2 DEF IncFull, Goto, consuming
    <3>2. Held' = Held /\ Given' = Given
      BY <3>1, SameHeld, SameGiven
    <3>3. k < push_
      BY <3>1 DEF Inv, Tickets
    <3>4. \A q \in Producers : pc'[q] \in Active => pc[q] \in Active /\ seq[q] # k
      BY <2>1, <3>1 DEF Inv, Tickets
    <3>5. \A j \in dropped' \cup Given' : j \in Nat /\ j < push_'
      BY <1>0, <3>1, <3>2, <3>3 DEF Owned
    <3>6. \A q \in Producers : pc'[q] \in Active => seq'[q] \notin Held' \cup dropped' \cup Given'
      BY <3>1, <3>2, <3>4 DEF Owned
    <3> QED
      BY <3>1, <3>2, <3>5, <3>6 DEF Owned, Ring
  <2>3. CASE ~(val[t] > 0)
    BY <1>3, <2>1, <2>3, OwnedKept DEF IncFull, consuming
  <2> QED
    BY <2>2, <2>3
<1>4. CASE Store(p)
  <2>1. /\ data_' = [data_ EXCEPT ![t] = k] /\ data_[t] = NoItem /\ pc[p] = "store"
        /\ pc' = [pc EXCEPT ![p] = "wake"] /\ UNCHANGED <<push_, seq, dropped, delivered>>
    BY <1>4 DEF Store, Goto, consuming
  <2>2. Given' = Given /\ k \notin Held \cup dropped \cup Given /\ k < push_
    BY <2>1, SameGiven DEF Owned, Inv, Tickets
  <2>3. \A s \in Ring : data_'[s] = IF s = t THEN k ELSE data_[s]
    BY <2>1 DEF Turns
  <2>4. \A s \in Ring : data_'[s] # NoItem =>
          data_'[s] < push_' /\ Slot(data_'[s]) = s /\ data_'[s] \notin Given'
    BY <2>1, <2>2, <2>3 DEF Owned
  <2>5. Held' \subseteq Held \cup {k}
    BY <2>3 DEF Held, Ring
  <2>6. \A q \in Producers : pc'[q] \in Active => pc[q] \in Active /\ seq[q] # k
    BY <2>1 DEF Inv, Tickets
  <2>7. \A q \in Producers : pc'[q] \in Active => seq'[q] \notin Held' \cup dropped' \cup Given'
    BY <2>1, <2>2, <2>5, <2>6 DEF Owned
  <2> QED
    BY <2>1, <2>2, <2>4, <2>7 DEF Owned, Ring
<1>5. CASE ReadWaiters(p)
  <2>1. \A q \in Producers : pc'[q] \in Active => pc[q] \in Active
    BY <1>5 DEF ReadWaiters, Goto, Inv, Tickets
  <2> QED
    BY <1>5, <2>1, OwnedKept DEF ReadWaiters, consuming, ring
<1>6. CASE Wake(p)
  <2>1. \A q \in Producers : pc'[q] \in Active => pc[q] \in Active
    BY <1>6 DEF Wake, Goto, Inv, Tickets
  <2> QED
    BY <1>6, <2>1, OwnedKept DEF Wake, ring
<1> QED
  BY <1>1, <1>2, <1>3, <1>4, <1>5, <1>6 DEF PushStep

(* pop moves one item from the ring to the deliveries.                     *)
LEMMA TakeHands ==
  ASSUME RingInv, Take
  PROVE  /\ data_[Slot(cseq)] \in Held /\ data_[Slot(cseq)] \in Nat
         /\ Held' = Held \ {data_[Slot(cseq)]}
         /\ Given' = Given \cup {data_[Slot(cseq)]}
<1> DEFINE t == Slot(cseq)
           k == data_[t]
<1> USE DEF RingInv
<1>0. t \in Ring
  BY SlotInRing DEF Inv, Tickets
<1>1. k # NoItem /\ k \in Nat /\ k \in Held
  BY <1>0 DEF Take, Turns, Held
<1>2. \A s \in Ring : data_'[s] = IF s = t THEN NoItem ELSE data_[s]
  BY DEF Take, Turns
<1>3. \A s \in Ring : s # t => data_[s] # k
  BY <1>0, <1>1 DEF Owned
<1>4. Held' = Held \ {k}
  BY <1>0, <1>1, <1>2, <1>3 DEF Held, Ring
<1>5. /\ delivered \in Seq(Nat) /\ delivered' = Append(delivered, k)
  BY DEF Take, Turns
<1>6. /\ Len(delivered') = Len(delivered) + 1 /\ delivered' \in Seq(Nat)
      /\ \A i \in 1 .. Len(delivered) : delivered'[i] = delivered[i]
      /\ delivered'[Len(delivered) + 1] = k
  BY <1>1, <1>5
<1>7. /\ DOMAIN delivered = 1 .. Len(delivered) /\ Len(delivered) \in Nat
      /\ DOMAIN delivered' = 1 .. Len(delivered) + 1
  BY <1>5, <1>6
<1> HIDE DEF k, t
<1>8. Given' = Given \cup {k}
  BY <1>6, <1>7 DEF Given
<1> QED
  BY <1>1, <1>4, <1>8 DEF k, t

(* pop keeps every item in one place.                                      *)
LEMMA PopOwned == ASSUME RingInv, Pop \/ Interrupted PROVE Owned'
<1> USE DEF RingInv
<1>1. CASE BeginPop \/ Dec \/ Enlist \/ FutexWait \/ DecAgain \/ Leave \/ FailPop \/ Interrupted
  BY <1>1, OwnedKept DEF BeginPop, Dec, Enlist, FutexWait, DecAgain, DecIfPositive, Leave,
     FailPop, Interrupted, ring, producing
<1>2. CASE Take
  <2> DEFINE t == Slot(cseq)
             k == data_[t]
  <2>1. UNCHANGED <<push_, pc, seq, dropped>> /\ t \in Ring
    BY <1>2, SlotInRing DEF Take, producing, Inv, Tickets
  <2>2. Held' = Held \ {k} /\ Given' = Given \cup {k} /\ k \in Nat /\ k < push_ /\ k \in Held
    BY <1>2, <2>1, TakeHands, NoItemAssumption DEF Owned, Take
  <2>3. \A s \in Ring : data_'[s] = IF s = t THEN NoItem ELSE data_[s]
    BY <1>2 DEF Take, Turns
  <2>4. \A s \in Ring : data_'[s] # NoItem =>
          data_'[s] < push_' /\ Slot(data_'[s]) = s /\ data_'[s] \notin Given'
    <3> SUFFICES ASSUME NEW s \in Ring, data_'[s] # NoItem
                 PROVE  data_'[s] < push_' /\ Slot(data_'[s]) = s /\ data_'[s] \notin Given'
      OBVIOUS
    <3>1. s # t /\ data_'[s] = data_[s]
      BY <2>3
    <3>2. data_[s] < push_ /\ Slot(data_[s]) = s /\ data_[s] \notin Given
      BY <3>1 DEF Owned
    <3>3. Slot(k) = t
      BY <1>2, <2>1 DEF Take, Owned
    <3>4. data_[s] # k
      BY <3>1, <3>2, <3>3
    <3> QED
      BY <2>1, <2>2, <3>1, <3>2, <3>4
  <2>5. \A j \in dropped' \cup Given' : j \in Nat /\ j < push_'
    BY <2>1, <2>2 DEF Owned
  <2>6. \A q \in Producers : pc'[q] \in {"inc", "force", "store"} =>
          seq'[q] \notin Held' \cup dropped' \cup Given'
    BY <2>1, <2>2 DEF Owned
  <2> QED
    BY <2>4, <2>5, <2>6 DEF Owned, Ring
<1> QED
  BY <1>1, <1>2 DEF Pop

---------------------------------------------------------------------------
(* A step that changes no counter, drops nothing and misses nothing.       *)
LEMMA BalanceKept ==
  ASSUME Balance, UNCHANGED <<val, dropped, misses>>, Failing' = Failing
  PROVE  Balance'
<1>1. Excess' = Excess
  BY DEF Excess, Ring
<1> QED
  BY <1>1 DEF Balance

(* An increment adds to the excess of a slot that was full only.           *)
LEMMA ExcessUp ==
  ASSUME Turns, NEW t \in Ring, val' = [val EXCEPT ![t] = @ + 1]
  PROVE  /\ val[t] = 0 => Excess' = Excess
         /\ val[t] > 0 => Excess' = Excess \cup {<<t, val[t]>>} /\ <<t, val[t]>> \notin Excess
<1>1. \A s \in Ring : val'[s] = IF s = t THEN val[t] + 1 ELSE val[s]
  BY DEF Turns
<1>2. val[t] \in Nat
  BY DEF Turns
<1>3. \A x \in Ring \X (Nat \ {0}) :
        x[2] < val'[x[1]] <=> x[2] < val[x[1]] \/ (x[1] = t /\ x[2] = val[t])
  <2> SUFFICES ASSUME NEW s \in Ring, NEW j \in Nat \ {0}
               PROVE  j < val'[s] <=> j < val[s] \/ (s = t /\ j = val[t])
    OBVIOUS
  <2>1. CASE s = t
    BY <1>1, <1>2, <2>1
  <2>2. CASE s # t
    BY <1>1, <2>2
  <2> QED
    BY <2>1, <2>2
<1>4. CASE val[t] = 0
  <2>1. \A x \in Ring \X (Nat \ {0}) : x[2] < val'[x[1]] <=> x[2] < val[x[1]]
    BY <1>3, <1>4
  <2> QED
    BY <1>4, <2>1 DEF Excess, Ring
<1>5. CASE val[t] > 0
  <2>1. <<t, val[t]>> \in Ring \X (Nat \ {0}) /\ <<t, val[t]>> \notin Excess
    BY <1>2, <1>5 DEF Excess
  <2>2. \A x \in Ring \X (Nat \ {0}) : x[1] = t /\ x[2] = val[t] <=> x = <<t, val[t]>>
    OBVIOUS
  <2>3. Excess' = Excess \cup {<<t, val[t]>>}
    BY <1>3, <2>1, <2>2 DEF Excess, Ring
  <2> QED
    BY <1>5, <2>1, <2>3
<1> QED
  BY <1>2, <1>4, <1>5

(* A decrement takes from the excess of a slot above one only.             *)
LEMMA ExcessDown ==
  ASSUME Turns, NEW t \in Ring, val[t] > 0, val' = [val EXCEPT ![t] = @ - 1]
  PROVE  /\ val[t] = 1 => Excess' = Excess
         /\ val[t] # 1 => Excess' = Excess \ {<<t, val[t] - 1>>} /\ <<t, val[t] - 1>> \in Excess
<1>1. \A s \in Ring : val'[s] = IF s = t THEN val[t] - 1 ELSE val[s]
  BY DEF Turns
<1>2. val[t] \in Nat
  BY DEF Turns
<1>3. \A x \in Ring \X (Nat \ {0}) :
        x[2] < val'[x[1]] <=> x[2] < val[x[1]] /\ ~(x[1] = t /\ x[2] = val[t] - 1)
  <2> SUFFICES ASSUME NEW s \in Ring, NEW j \in Nat \ {0}
               PROVE  j < val'[s] <=> j < val[s] /\ ~(s = t /\ j = val[t] - 1)
    OBVIOUS
  <2>1. CASE s = t
    BY <1>1, <1>2, <2>1
  <2>2. CASE s # t
    BY <1>1, <2>2
  <2> QED
    BY <2>1, <2>2
<1>4. CASE val[t] = 1
  <2>1. \A x \in Ring \X (Nat \ {0}) : x[2] < val'[x[1]] <=> x[2] < val[x[1]]
    BY <1>3, <1>4
  <2> QED
    BY <1>4, <2>1 DEF Excess, Ring
<1>5. CASE val[t] # 1
  <2>1. <<t, val[t] - 1>> \in Ring \X (Nat \ {0}) /\ <<t, val[t] - 1>> \in Excess
    BY <1>2, <1>5 DEF Excess
  <2>2. \A x \in Ring \X (Nat \ {0}) : x[1] = t /\ x[2] = val[t] - 1 <=> x = <<t, val[t] - 1>>
    OBVIOUS
  <2>3. Excess' = Excess \ {<<t, val[t] - 1>>}
    BY <1>3, <2>1, <2>2 DEF Excess, Ring
  <2> QED
    BY <1>5, <2>1, <2>3
<1> QED
  BY <1>4, <1>5

(* push balances: only a dropped push adds to the excess.                  *)
LEMMA PushBalance == ASSUME RingInv, NEW p \in Producers, PushStep(p) PROVE Balance'
<1> DEFINE k == seq[p]
           t == Slot(k)
<1> USE DEF RingInv
<1>0. k \in Nat /\ t \in Ring /\ val[t] \in Nat
  BY SlotInRing DEF Inv, Tickets, Turns
<1>1. CASE BeginPush(p) \/ Store(p) \/ ReadWaiters(p) \/ Wake(p)
  <2>1. UNCHANGED <<val, dropped, misses>> /\ Failing' = Failing
    BY <1>1 DEF BeginPush, Store, ReadWaiters, Wake, ring, consuming, Failing
  <2> QED
    BY <2>1, BalanceKept
<1>2. CASE IncIfFree(p)
  <2>1. UNCHANGED <<dropped, misses>> /\ Failing' = Failing
    BY <1>2 DEF IncIfFree, consuming, Failing
  <2>2. CASE val[t] = 0
    <3>1. val' = [val EXCEPT ![t] = @ + 1]
      BY <1>2, <2>2 DEF IncIfFree
    <3> QED
      BY <1>0, <2>1, <2>2, <3>1, ExcessUp DEF Balance
  <2>3. CASE val[t] # 0
    BY <1>2, <2>1, <2>3, BalanceKept DEF IncIfFree
  <2> QED
    BY <2>2, <2>3
<1>3. CASE IncFull(p)
  <2>1. /\ UNCHANGED misses /\ Failing' = Failing /\ val' = [val EXCEPT ![t] = @ + 1]
        /\ pc[p] = "force"
    BY <1>3 DEF IncFull, consuming, Failing
  <2>2. CASE val[t] > 0
    <3>1. dropped' = dropped \cup {k} /\ k \notin dropped
      BY <1>3, <2>1, <2>2 DEF IncFull, Owned
    <3>2. IsFiniteSet(dropped') /\ Cardinality(dropped') = Cardinality(dropped) + 1
      BY <3>1, FS_AddElement DEF Balance
    <3>3. IsFiniteSet(Excess') /\ Cardinality(Excess') = Cardinality(Excess) + 1
      <4>1. PICK x : Excess' = Excess \cup {x} /\ x \notin Excess
        BY <1>0, <2>1, <2>2, ExcessUp
      <4> QED
        BY <4>1, FS_AddElement DEF Balance
    <3>4. Cardinality(dropped) \in Nat /\ Cardinality(Excess) \in Nat /\ misses \in Nat
      BY FS_CardinalityType DEF Balance, Turns
    <3> QED
      BY <2>1, <3>2, <3>3, <3>4 DEF Balance
  <2>3. CASE val[t] = 0
    <3>1. dropped' = dropped
      BY <1>3, <2>3 DEF IncFull
    <3> QED
      BY <1>0, <2>1, <2>3, <3>1, ExcessUp DEF Balance
  <2> QED
    BY <1>0, <2>2, <2>3
<1> QED
  BY <1>1, <1>2, <1>3 DEF PushStep

(* pop balances: only a failing pop takes from the excess.                 *)
LEMMA PopBalance == ASSUME RingInv, Pop \/ Interrupted PROVE Balance'
<1> DEFINE t == Slot(cseq)
<1> USE DEF RingInv
<1>0. t \in Ring /\ val[t] \in Nat
  BY SlotInRing DEF Inv, Tickets, Turns
<1>0a. Cardinality(dropped) \in Nat /\ Cardinality(Excess) \in Nat /\ misses \in Nat
  BY FS_CardinalityType DEF Balance, Turns
<1>1. CASE BeginPop \/ Enlist \/ FutexWait \/ Leave \/ Take \/ Interrupted
  <2>1. UNCHANGED <<val, dropped, misses>> /\ Failing' = Failing
    BY <1>1 DEF BeginPop, Enlist, FutexWait, Leave, AfterDec, Take, Interrupted, ring,
       producing, Failing
  <2> QED
    BY <2>1, BalanceKept
<1>2. ASSUME ~(val[t] > 0), UNCHANGED <<val, producing, misses>>, ~Failing, ~Failing'
      PROVE  Balance'
  <2>1. Failing' = Failing
    BY <1>2 DEF Failing
  <2> QED
    BY <1>2, <2>1, BalanceKept DEF producing
<1>3. ASSUME val[t] > 0, val' = [val EXCEPT ![t] = @ - 1], UNCHANGED <<producing, misses>>,
             ~Failing, Failing' <=> val[t] # 1
      PROVE  Balance'
  <2>1. dropped' = dropped /\ misses' = misses
    BY <1>3 DEF producing
  <2>2. CASE val[t] = 1
    <3>1. Excess' = Excess
      BY <1>0, <1>3, <2>2, ExcessDown
    <3> QED
      BY <1>3, <2>1, <2>2, <3>1 DEF Balance
  <2>3. CASE val[t] # 1
    <3>1. IsFiniteSet(Excess') /\ Cardinality(Excess') = Cardinality(Excess) - 1
      <4>1. PICK x : Excess' = Excess \ {x} /\ x \in Excess
        BY <1>0, <1>3, <2>3, ExcessDown
      <4> QED
        BY <4>1, FS_RemoveElement DEF Balance
    <3> QED
      BY <1>0a, <1>3, <2>1, <2>3, <3>1 DEF Balance
  <2> QED
    BY <2>2, <2>3
<1>4. CASE Dec
  <2>1. ~Failing /\ UNCHANGED <<producing, misses>>
    BY <1>4 DEF Dec, DecIfPositive, Failing
  <2>2. CASE val[t] > 0
    <3>1. val' = [val EXCEPT ![t] = @ - 1] /\ cpc' = AfterDec(val[t])
      BY <1>4, <2>2 DEF Dec, DecIfPositive
    <3>2. Failing' <=> val[t] # 1
      BY <3>1 DEF AfterDec, Failing
    <3> QED
      BY <1>3, <2>1, <2>2, <3>1, <3>2
  <2>3. CASE ~(val[t] > 0)
    BY <1>2, <1>4, <2>1, <2>3 DEF Dec, DecIfPositive, Failing
  <2> QED
    BY <2>2, <2>3
<1>5. CASE DecAgain
  <2>1. ~Failing /\ UNCHANGED <<producing, misses>>
    BY <1>5 DEF DecAgain, DecIfPositive, Failing
  <2>2. CASE val[t] > 0
    <3>1. val' = [val EXCEPT ![t] = @ - 1] /\ cpc' = "leave" /\ seen' = val[t]
      BY <1>5, <2>2 DEF DecAgain, DecIfPositive
    <3>2. Failing' <=> val[t] # 1
      BY <3>1 DEF Failing
    <3> QED
      BY <1>3, <2>1, <2>2, <3>1, <3>2
  <2>3. CASE ~(val[t] > 0)
    BY <1>2, <1>5, <2>1, <2>3 DEF DecAgain, DecIfPositive, Failing
  <2> QED
    BY <2>2, <2>3
<1>6. CASE FailPop
  <2>1. /\ misses' = misses + 1 /\ dropped' = dropped /\ val' = val /\ Failing /\ ~Failing'
    BY <1>6 DEF FailPop, Failing, ring, producing
  <2>2. Excess' = Excess
    BY <2>1 DEF Excess, Ring
  <2> QED
    BY <1>0a, <2>1, <2>2 DEF Balance
<1> QED
  BY <1>1, <1>4, <1>5, <1>6 DEF Pop

---------------------------------------------------------------------------
(* Until the ring is overrun, the item in the slot of the consumer is the  *)
(* next one: nothing was dropped, so no pop has failed, and a later item   *)
(* of that slot would be Slots ahead.                                      *)
LEMMA TakesNext ==
  ASSUME RingInv, Take, ~overrun
  PROVE  data_[Slot(cseq)] = Len(delivered)
<1> DEFINE k == data_[Slot(cseq)]
           n == Len(delivered)
<1> USE DEF RingInv
<1>1. misses = 0
  <2>1. Cardinality(dropped) = 0
    BY FS_EmptySet DEF InOrder
  <2>2. Cardinality(Excess) \in Nat /\ misses \in Nat
    BY FS_CardinalityType DEF Balance, Turns
  <2>3. 0 = misses + Cardinality(Excess) \/ 0 = misses + Cardinality(Excess) + 1
    BY <2>1, <2>2 DEF Balance
  <2> QED
    BY <2>2, <2>3
<1>2. n \in Nat /\ cseq = n /\ push_ \in Nat /\ push_ <= n + Slots
  BY <1>1, SlotsAssumption DEF Take, Turns, Returned, Inv, Tickets
<1>3. k \in Nat /\ k < push_ /\ Slot(k) = Slot(cseq) /\ k \notin Given
  BY TakeHands, SlotInRing DEF Take, Owned, Inv, Tickets
<1>4. k >= n
  <2> SUFFICES ASSUME k < n PROVE FALSE
    BY <1>2, <1>3
  <2>1. k + 1 \in 1 .. Len(delivered) /\ DOMAIN delivered = 1 .. Len(delivered)
    BY <1>2, <1>3 DEF Turns
  <2>2. delivered[k + 1] = (k + 1) - 1
    BY <2>1 DEF InOrder
  <2>3. delivered[k + 1] = k
    BY <1>3, <2>2
  <2> QED
    BY <1>3, <2>1, <2>3 DEF Given
<1>5. ~(k > n)
  BY <1>2, <1>3, SlotsApart, SlotsAssumption
<1> QED
  BY <1>2, <1>3, <1>4, <1>5

(* A push drops its item only while more than Slots pushes await their     *)
(* pop.                                                                    *)
LEMMA DropCrowds ==
  ASSUME RingInv, NEW p \in Producers, IncFull(p), val[Slot(seq[p])] > 0
  PROVE  overrun /\ Awaited > Slots
<1>1. seq[p] \in Nat /\ seq[p] < push_ /\ push_ \in Nat /\ Returned \in Nat
  BY DEF RingInv, Inv, Tickets, IncFull, Turns, Returned
<1>2. seq[p] \notin Pushed(Slot(seq[p]))
  BY DEF IncFull, Pushed
<1>3. push_ > Returned + Slots
  BY <1>1, <1>2, Crowded DEF RingInv
<1>4. overrun
  BY <1>1, <1>3, SlotsAssumption DEF RingInv, Turns
<1> QED
  BY <1>1, <1>3, <1>4, SlotsAssumption DEF Awaited, Returned

(* push keeps the order: it drops nothing until the ring is overrun.       *)
LEMMA PushInOrder == ASSUME RingInv, NEW p \in Producers, PushStep(p) PROVE InOrder'
<1> USE DEF RingInv
<1>1. delivered' = delivered
  BY DEF PushStep, BeginPush, IncIfFree, IncFull, Store, ReadWaiters, Wake, consuming
<1>2. ~overrun' => ~overrun
  BY DEF PushStep, BeginPush, IncIfFree, IncFull, Store, ReadWaiters, Wake
<1>3. ~overrun' => dropped' = dropped
  <2>1. CASE IncFull(p)
    BY <2>1, <1>2, DropCrowds DEF IncFull
  <2>2. CASE ~IncFull(p)
    BY <2>2 DEF PushStep, BeginPush, IncIfFree, Store, ReadWaiters, Wake
  <2> QED
    BY <2>1, <2>2
<1> QED
  BY <1>1, <1>2, <1>3 DEF InOrder

(* pop keeps the order.                                                    *)
LEMMA PopInOrder == ASSUME RingInv, Pop \/ Interrupted PROVE InOrder'
<1> USE DEF RingInv
<1>1. UNCHANGED <<overrun, dropped>>
  BY DEF Pop, BeginPop, Dec, Enlist, FutexWait, DecAgain, DecIfPositive, Leave, Take, FailPop,
     Interrupted, producing
<1>2. CASE ~Take
  <2>1. delivered' = delivered
    BY <1>2 DEF Pop, BeginPop, Dec, Enlist, FutexWait, DecAgain, DecIfPositive, Leave, FailPop,
     Interrupted
  <2> QED
    BY <1>1, <2>1 DEF InOrder
<1>3. CASE Take
  <2> SUFFICES ASSUME ~overrun
               PROVE  dropped' = {} /\ \A i \in 1 .. Len(delivered') : delivered'[i] = i - 1
    BY <1>1 DEF InOrder
  <2>1. data_[Slot(cseq)] = Len(delivered) /\ delivered' = Append(delivered, data_[Slot(cseq)])
    BY <1>3, TakesNext DEF Take
  <2>2. delivered \in Seq(Nat) /\ Len(delivered) \in Nat
    BY DEF Turns
  <2>3. /\ Len(delivered') = Len(delivered) + 1
        /\ \A i \in 1 .. Len(delivered) : delivered'[i] = delivered[i]
        /\ delivered'[Len(delivered) + 1] = Len(delivered)
    BY <2>1, <2>2
  <2>4. dropped' = {} /\ \A i \in 1 .. Len(delivered) : delivered[i] = i - 1
    BY <1>1 DEF InOrder
  <2> QED
    BY <2>2, <2>3, <2>4
<1> QED
  BY <1>2, <1>3

(* Every step keeps the invariant.                                         *)
LEMMA RingStep == RingInv /\ [Next]_vars => RingInv'
<1> SUFFICES ASSUME RingInv, [Next]_vars PROVE RingInv'
  OBVIOUS
<1>1. Inv'
  BY StepInv DEF RingInv
<1>2. CASE \E p \in Producers : PushStep(p)
  BY <1>1, <1>2, PushTurns, PushOwned, PushBalance, PushInOrder DEF RingInv
<1>3. CASE Pop \/ Interrupted
  BY <1>1, <1>3, PopTurns, PopOwned, PopBalance, PopInOrder DEF RingInv
<1>4. CASE UNCHANGED vars
  <2> USE <1>4 DEF vars, ring, producing, consuming, RingInv
  <2>1. Turns'
    BY DEF Turns, Returned
  <2>2. Owned'
    BY OwnedKept
  <2>3. Balance'
    BY BalanceKept DEF Failing
  <2>4. InOrder'
    BY DEF InOrder
  <2> QED
    BY <1>1, <2>1, <2>2, <2>3, <2>4
<1> QED
  BY <1>2, <1>3, <1>4 DEF Next

---------------------------------------------------------------------------
(* LFQueueSpec counts as LFQueue does.                                     *)
LEMMA SameCount == \A S : Queue!Cardinality(S) = Cardinality(S)
BY DEF Queue!Cardinality, Cardinality

(* Each step of push is Begin, Put or Lose of LFQueueSpec, or none.        *)
LEMMA PromisePush ==
  ASSUME RingInv, NEW p \in Producers, PushStep(p)
  PROVE  [Queue!QueueNext]_(Queue!queueVars)
<1> DEFINE k == seq[p]
           t == Slot(k)
<1> USE DEF RingInv
<1>0. k \in Nat /\ t \in Ring /\ push_ \in Nat /\ Returned \in Nat
  BY SlotInRing DEF Inv, Tickets, Turns, Returned
<1>1. CASE BeginPush(p)
  <2>1. push_' = push_ + 1 /\ Held' = Held /\ UNCHANGED <<dropped, delivered, misses>>
    BY <1>1, SameHeld DEF BeginPush, ring, consuming
  <2>2. overrun' = (overrun \/ Queue!Awaited + 1 > Slots)
    BY <1>1 DEF BeginPush, Awaited, Queue!Awaited
  <2>3. Queue!Awaited' = Queue!Awaited + 1
    BY <1>0, <2>1 DEF Queue!Awaited, Returned, Turns
  <2>4. Queue!Begin
    BY <2>1, <2>2, <2>3 DEF Queue!Begin
  <2> QED
    BY <2>4 DEF Queue!QueueNext
<1>2. ASSUME UNCHANGED <<push_, overrun, data_, dropped, delivered, misses>>
      PROVE  UNCHANGED Queue!queueVars
  BY <1>2, SameHeld DEF Queue!queueVars
<1>3. CASE IncIfFree(p) \/ ReadWaiters(p) \/ Wake(p)
  BY <1>2, <1>3 DEF IncIfFree, ReadWaiters, Wake, ring, consuming
<1>4. Queue!Decided = Held \cup dropped \cup Given
  BY DEF Queue!Decided, Given
<1>5. CASE IncFull(p)
  <2>1. /\ UNCHANGED <<push_, overrun, data_, delivered, misses>> /\ Held' = Held
        /\ pc[p] = "force"
    BY <1>5, SameHeld DEF IncFull, consuming
  <2>2. CASE val[t] > 0
    <3>1. Awaited > Slots /\ Awaited = Queue!Awaited
      BY <1>5, <2>2, DropCrowds DEF Awaited, Queue!Awaited
    <3>2. k < push_ /\ k \notin Queue!Decided /\ dropped' = dropped \cup {k}
      BY <1>4, <1>5, <2>1, <2>2 DEF IncFull, Inv, Tickets, Owned
    <3>3. Queue!Lose(k)
      BY <2>1, <3>1, <3>2 DEF Queue!Lose
    <3>4. k \in 0 .. push_ - 1
      BY <1>0, <3>2
    <3> QED
      BY <3>3, <3>4 DEF Queue!QueueNext
  <2>3. CASE ~(val[t] > 0)
    BY <1>2, <1>5, <2>1, <2>3 DEF IncFull
  <2> QED
    BY <2>2, <2>3
<1>6. CASE Store(p)
  <2>1. /\ UNCHANGED <<push_, overrun, dropped, delivered, misses>>
        /\ data_' = [data_ EXCEPT ![t] = k] /\ data_[t] = NoItem /\ pc[p] = "store"
    BY <1>6 DEF Store, consuming
  <2>2. \A s \in Ring : data_'[s] = IF s = t THEN k ELSE data_[s]
    BY <2>1 DEF Turns
  <2>3. Held' = Held \cup {k}
    BY <1>0, <2>1, <2>2, NoItemAssumption DEF Held, Ring
  <2>4. k < push_ /\ k \notin Queue!Decided
    BY <1>4, <2>1 DEF Inv, Tickets, Owned
  <2>5. Queue!Put(k)
    BY <2>1, <2>3, <2>4 DEF Queue!Put
  <2>6. k \in 0 .. push_ - 1
    BY <1>0, <2>4
  <2> QED
    BY <2>5, <2>6 DEF Queue!QueueNext
<1> QED
  BY <1>1, <1>3, <1>5, <1>6 DEF PushStep

(* Each step of pop is Deliver or Miss of LFQueueSpec, or none.            *)
LEMMA PromisePop ==
  ASSUME RingInv, Pop \/ Interrupted
  PROVE  [Queue!QueueNext]_(Queue!queueVars)
<1> USE DEF RingInv
<1>1. UNCHANGED <<push_, overrun, dropped>>
  BY DEF Pop, BeginPop, Dec, Enlist, FutexWait, DecAgain, DecIfPositive, Leave, Take, FailPop,
     Interrupted, producing
<1>2. CASE ~Take /\ ~FailPop
  <2>1. UNCHANGED <<data_, delivered, misses>>
    BY <1>2 DEF Pop, BeginPop, Dec, Enlist, FutexWait, DecAgain, DecIfPositive, Leave,
     Interrupted, ring
  <2> QED
    BY <1>1, <2>1, SameHeld DEF Queue!queueVars
<1>3. CASE FailPop
  <2>1. misses' = misses + 1 /\ Held' = Held /\ delivered' = delivered
    BY <1>3, SameHeld DEF FailPop, ring
  <2>2. Cardinality(dropped) = misses + Cardinality(Excess) + 1
    BY <1>3 DEF FailPop, Failing, Balance
  <2>3. Cardinality(Excess) \in Nat /\ misses \in Nat
    BY FS_CardinalityType DEF Balance, Turns
  <2>4. misses < Queue!Cardinality(dropped)
    BY <2>2, <2>3, SameCount
  <2>5. Queue!Miss
    BY <1>1, <2>1, <2>4 DEF Queue!Miss
  <2> QED
    BY <2>5 DEF Queue!QueueNext
<1>4. CASE Take
  <2> DEFINE k == data_[Slot(cseq)]
  <2>1. /\ k \in Held /\ k \in Nat /\ Held' = Held \ {k}
        /\ delivered' = Append(delivered, k) /\ misses' = misses
    BY <1>4, TakeHands DEF Take
  <2>2. ~overrun => k = Len(delivered)
    BY <1>4, TakesNext
  <2>3. k \in 0 .. push_ - 1
    <3>1. k < push_ /\ push_ \in Nat
      BY <1>4, SlotInRing DEF Take, Owned, Inv, Tickets
    <3> QED
      BY <2>1, <3>1
  <2>4. Queue!Deliver(k)
    BY <1>1, <2>1, <2>2 DEF Queue!Deliver
  <2> QED
    BY <2>3, <2>4 DEF Queue!QueueNext
<1> QED
  BY <1>2, <1>3, <1>4

(* Every step of the ring is a step of the promise or a stutter.           *)
LEMMA PromiseStep == RingInv /\ [Next]_vars => [Queue!QueueNext]_(Queue!queueVars)
<1> SUFFICES ASSUME RingInv, [Next]_vars PROVE [Queue!QueueNext]_(Queue!queueVars)
  OBVIOUS
<1>1. CASE \E p \in Producers : PushStep(p)
  BY <1>1, PromisePush
<1>2. CASE Pop \/ Interrupted
  BY <1>2, PromisePop
<1>3. CASE UNCHANGED vars
  BY <1>3, SameHeld DEF vars, ring, producing, consuming, Queue!queueVars
<1> QED
  BY <1>1, <1>2, <1>3 DEF Next

(* The ring keeps the promise of LFQueueSpec: items are handed out once    *)
(* and in the order of the pushes until more than Slots of them await      *)
(* their pop; only then may an item be dropped, and a pop comes back       *)
(* empty-handed only to make up for a dropped push (lfqueue.cpp:59-71,     *)
(* 95-185).                                                                *)
THEOREM PromiseIsKept == Spec => KeepsPromise
<1>1. Init => Queue!QueueInit
  BY DEF Init, Queue!QueueInit, Held
<1> QED
  BY <1>1, InitRing, RingStep, PromiseStep, PTL DEF Spec, KeepsPromise, Queue!QueueSpec
=============================================================================
