------------------------- MODULE ThreadPoolProofs -------------------------
(* Proofs about the worker pool of thread_pool.c for every ring size, every *)
(* number of workers and any number of submissions.                         *)
EXTENDS ThreadPool, Sequences, FiniteSetTheorems, TLAPS

States == {"none", "lock", "wait", "run", "left"}

(* Which workers exist, tpool_init's loop. *)
CreatedInv == /\ \A w \in Workers : pc[w] = "none" <=> w > created
              /\ mainpc = "init" => created < nthreads /\ submitted = 0
              /\ mainpc \in {"serve", "join", "exited"} => created = nthreads

(* What the shutdown flag and a worker that left imply. *)
ShutdownInv == /\ shutdown <=> mainpc \in {"join", "exited"}
               /\ shutdown => At("wait") = {}
               /\ \A w \in Workers : pc[w] = "left" => shutdown /\ count = 0
               /\ mainpc = "exited" => \A w \in 1..nthreads : pc[w] = "left"

Inv == /\ TypeOK
       /\ CreatedInv
       /\ ShutdownInv
       /\ NoLostWakeup
       /\ RingInOrder
       /\ Conservation
-----------------------------------------------------------------------------
(* Stepping a ring index, and the slot of an offset. *)
LEMMA ModLemma ==
  ASSUME NEW x \in 0..(2 * TASK_CAP - 1)
  PROVE  /\ x % TASK_CAP = IF x < TASK_CAP THEN x ELSE x - TASK_CAP
         /\ x % TASK_CAP \in Slots
BY CapAssumption, SMTT(30) DEF Slots

(* The workers at a label are finitely many, before and after a step. *)
LEMMA AtFinite ==
  /\ \A l : IsFiniteSet(At(l)) /\ Cardinality(At(l)) \in Nat
  /\ \A l : IsFiniteSet(At(l)') /\ Cardinality(At(l)') \in Nat
<1>1. IsFiniteSet(Workers)
  BY FS_Interval, ThreadsAssumption DEF Workers
<1>2. \A S \in SUBSET Workers : IsFiniteSet(S) /\ Cardinality(S) \in Nat
  BY <1>1, FS_Subset, FS_CardinalityType
<1>3. \A l : At(l) \in SUBSET Workers /\ At(l)' \in SUBSET Workers
  BY DEF At
<1> QED
  BY <1>2, <1>3
-----------------------------------------------------------------------------
LEMMA InitInv == Init => Inv
<1> SUFFICES ASSUME Init PROVE Inv
  OBVIOUS
<1> USE CapAssumption, ThreadsAssumption, RequestsAssumption DEF Init
<1>1. nthreads \in Workers
  BY DEF Clamp, Workers
<1>2. TypeOK
  <2>1. q \in [Slots -> Nat] /\ cur \in [Workers -> Nat]
    BY DEF NoTask
  <2>2. pc \in [Workers -> {"none", "lock", "wait", "run", "left"}]
    OBVIOUS
  <2>3. 0 \in Slots /\ 0 \in 0..TASK_CAP /\ 0 \in 0..nthreads
    BY <1>1 DEF Slots, Workers
  <2> QED
    BY <1>1, <2>1, <2>2, <2>3 DEF TypeOK
<1>3. CreatedInv
  BY <1>1 DEF CreatedInv, Workers
<1>4. At("wait") = {} /\ At("run") = {}
  BY DEF At
<1>5. ShutdownInv
  BY <1>4 DEF ShutdownInv
<1>6. NoLostWakeup
  BY <1>4 DEF NoLostWakeup
<1>7. RingInOrder
  <2>1. 0 \in 0..(2 * TASK_CAP - 1) /\ 0 % TASK_CAP = 0
    BY ModLemma
  <2> QED
    BY <2>1 DEF RingInOrder
<1>8. Conservation
  BY <1>4, FS_EmptySet DEF Conservation
<1> QED
  BY <1>2, <1>3, <1>5, <1>6, <1>7, <1>8 DEF Inv

LEMMA NextSlotType ==
  ASSUME NEW s \in Slots
  PROVE  NextSlot(s) \in Slots /\ NextSlot(s) = IF s + 1 = TASK_CAP THEN 0 ELSE s + 1
BY CapAssumption, ModLemma DEF NextSlot, Slots

LEMMA TypeStep == Inv /\ [Next]_vars => TypeOK'
<1> SUFFICES ASSUME Inv, [Next]_vars PROVE TypeOK'
  OBVIOUS
<1> USE CapAssumption, ThreadsAssumption DEF Inv, TypeOK, ring
<1>1. CASE Create
  BY <1>1 DEF Create, CreatedInv, Workers
<1>2. CASE CreateFails
  BY <1>2 DEF CreateFails
<1>3. CASE Submit
  <2>1. pc' \in [Workers -> States]
    BY <1>3 DEF Submit, WakeOne, At, States
  <2>2. tail' \in Slots
    BY <1>3, NextSlotType DEF Submit
  <2>3. q' \in [Slots -> Nat] /\ count' \in 0..TASK_CAP
    BY <1>3 DEF Submit, Full
  <2> QED
    BY <1>3, <2>1, <2>2, <2>3 DEF Submit, States
<1>4. CASE SubmitRejected
  BY <1>4 DEF SubmitRejected
<1>5. CASE Shutdown
  BY <1>5 DEF Shutdown, WakeAll
<1>6. CASE Join
  BY <1>6 DEF Join
<1>7. ASSUME NEW w \in Workers, Wait(w) PROVE TypeOK'
  BY <1>7 DEF Wait
<1>8. ASSUME NEW w \in Workers, Leave(w) PROVE TypeOK'
  BY <1>8 DEF Leave
<1>9. ASSUME NEW w \in Workers, Take(w) PROVE TypeOK'
  <2>1. head' \in Slots /\ Oldest \in Nat
    BY <1>9, NextSlotType DEF Take, Oldest
  <2> QED
    BY <1>9, <2>1 DEF Take
<1>10. ASSUME NEW w \in Workers, Finish(w) PROVE TypeOK'
  BY <1>10 DEF Finish, NoTask
<1>11. ASSUME NEW w \in Workers, SpuriousWake(w) PROVE TypeOK'
  BY <1>11 DEF SpuriousWake
<1>12. CASE UNCHANGED vars
  BY <1>12 DEF vars
<1> QED
  BY <1>1, <1>2, <1>3, <1>4, <1>5, <1>6, <1>7, <1>8, <1>9, <1>10, <1>11,
     <1>12 DEF Next, Main, Locked, Terminated

LEMMA CreatedStep == Inv /\ [Next]_vars => CreatedInv'
<1> SUFFICES ASSUME Inv, [Next]_vars PROVE CreatedInv'
  OBVIOUS
<1> USE ThreadsAssumption DEF Inv, TypeOK, CreatedInv, Workers
<1>1. CASE Create
  BY <1>1 DEF Create
<1>2. CASE CreateFails
  BY <1>2 DEF CreateFails
<1>3. CASE Submit
  BY <1>3 DEF Submit, WakeOne, At
<1>4. CASE SubmitRejected
  BY <1>4 DEF SubmitRejected
<1>5. CASE Shutdown
  BY <1>5 DEF Shutdown, WakeAll
<1>6. CASE Join
  BY <1>6 DEF Join
<1>7. ASSUME NEW w \in Workers, Locked(w) PROVE CreatedInv'
  BY <1>7 DEF Locked, Wait, Leave, Take
<1>8. ASSUME NEW w \in Workers, Finish(w) \/ SpuriousWake(w) PROVE CreatedInv'
  BY <1>8 DEF Finish, SpuriousWake
<1>9. CASE UNCHANGED vars
  BY <1>9 DEF vars
<1> QED
  BY <1>1, <1>2, <1>3, <1>4, <1>5, <1>6, <1>7, <1>8, <1>9
     DEF Next, Main, Terminated
-----------------------------------------------------------------------------
(* The counts NoLostWakeup and Conservation speak of, for each way a       *)
(* worker moves.                                                           *)
LEMMA CountMove ==
  ASSUME Inv, NEW w \in Workers, NEW l \in States, NEW m \in States,
         pc[w] = l, l # m, pc' = [pc EXCEPT ![w] = m]
  PROVE  /\ Cardinality(At(l)') = Cardinality(At(l)) - 1
         /\ Cardinality(At(m)') = Cardinality(At(m)) + 1
         /\ At(l)' = At(l) \ {w}
         /\ At(m)' = At(m) \cup {w}
         /\ \A k : k \notin {l, m} => At(k)' = At(k)
<1>1. pc \in [Workers -> States]
  BY DEF Inv, TypeOK, States
<1>2. At(l)' = At(l) \ {w}
  BY <1>1 DEF At
<1>3. At(m)' = At(m) \cup {w}
  BY <1>1 DEF At
<1>4. \A k : k \notin {l, m} => At(k)' = At(k)
  BY <1>1 DEF At
<1>5. w \in At(l) /\ w \notin At(m)
  BY DEF At
<1>6. IsFiniteSet(At(l)) /\ IsFiniteSet(At(m))
  BY AtFinite
<1>7. Cardinality(At(l) \ {w}) = Cardinality(At(l)) - 1
  BY <1>5, <1>6, FS_RemoveElement
<1>8. Cardinality(At(m) \cup {w}) = Cardinality(At(m)) + 1
  BY <1>5, <1>6, FS_AddElement
<1> QED
  BY <1>2, <1>3, <1>4, <1>7, <1>8

LEMMA ShutdownStep == Inv /\ [Next]_vars => ShutdownInv'
<1> SUFFICES ASSUME Inv, [Next]_vars PROVE ShutdownInv'
  OBVIOUS
<1> USE ThreadsAssumption DEF Inv, TypeOK, ShutdownInv, At
<1>1. CASE Create
  BY <1>1 DEF Create, CreatedInv, ring
<1>2. CASE CreateFails
  BY <1>2 DEF CreateFails, ring
<1>3. CASE Submit
  BY <1>3 DEF Submit, WakeOne
<1>4. CASE SubmitRejected
  BY <1>4 DEF SubmitRejected, ring
<1>5. CASE Shutdown
  BY <1>5 DEF Shutdown, WakeAll, ring
<1>6. CASE Join
  BY <1>6 DEF Join, ring
<1>7. ASSUME NEW w \in Workers, Wait(w) PROVE ShutdownInv'
  BY <1>7 DEF Wait, ring, Alive
<1>8. ASSUME NEW w \in Workers, Leave(w) PROVE ShutdownInv'
  BY <1>8 DEF Leave, MayLeave, ring, Alive
<1>9. ASSUME NEW w \in Workers, Take(w) PROVE ShutdownInv'
  BY <1>9 DEF Take, ring, Alive
<1>10. ASSUME NEW w \in Workers, Finish(w) \/ SpuriousWake(w) PROVE ShutdownInv'
  BY <1>10 DEF Finish, SpuriousWake, ring, Alive
<1>11. CASE UNCHANGED vars
  BY <1>11 DEF vars
<1> QED
  BY <1>1, <1>2, <1>3, <1>4, <1>5, <1>6, <1>7, <1>8, <1>9, <1>10, <1>11
     DEF Next, Main, Locked, Terminated

LEMMA WakeupStep == Inv /\ [Next]_vars => NoLostWakeup'
<1> SUFFICES ASSUME Inv, [Next]_vars PROVE NoLostWakeup'
  OBVIOUS
<1> USE AtFinite DEF Inv, TypeOK, NoLostWakeup
<1>1. CASE Create
  <2>1. created + 1 \in Workers /\ pc[created + 1] = "none"
    BY <1>1, ThreadsAssumption DEF Create, CreatedInv, Workers
  <2>2. /\ Cardinality(At("lock")') = Cardinality(At("lock")) + 1
        /\ At("wait")' = At("wait")
    BY <1>1, <2>1, CountMove DEF Create, States
  <2> QED
    BY <1>1, <2>2 DEF Create, ring
<1>2. CASE Submit
  <2>1. CASE At("wait") = {}
    BY <1>2, <2>1 DEF Submit, WakeOne, At
  <2>2. CASE At("wait") # {}
    <3>1. PICK w \in At("wait") : pc' = [pc EXCEPT ![w] = "lock"]
      BY <1>2, <2>2 DEF Submit, WakeOne
    <3>2. w \in Workers /\ pc[w] = "wait"
      BY DEF At
    <3>3. Cardinality(At("lock")') = Cardinality(At("lock")) + 1
      BY <3>1, <3>2, CountMove DEF States
    <3> QED
      BY <1>2, <2>2, <3>3 DEF Submit
  <2> QED
    BY <2>1, <2>2
<1>3. CASE Shutdown
  BY <1>3 DEF Shutdown, WakeAll, At
<1>4. ASSUME NEW w \in Workers, Wait(w) PROVE NoLostWakeup'
  BY <1>4 DEF Wait, ring
<1>5. ASSUME NEW w \in Workers, Leave(w) PROVE NoLostWakeup'
  <2>1. At("wait")' = At("wait") /\ At("wait") = {}
    BY <1>5, CountMove DEF Leave, MayLeave, States, ShutdownInv
  <2> QED
    BY <2>1
<1>6. ASSUME NEW w \in Workers, Take(w) PROVE NoLostWakeup'
  <2>1. /\ Cardinality(At("lock")') = Cardinality(At("lock")) - 1
        /\ At("wait")' = At("wait")
    BY <1>6, CountMove DEF Take, States
  <2> QED
    BY <1>6, <2>1 DEF Take
<1>7. ASSUME NEW w \in Workers, Finish(w) PROVE NoLostWakeup'
  <2>1. /\ Cardinality(At("lock")') = Cardinality(At("lock")) + 1
        /\ At("wait")' = At("wait")
    BY <1>7, CountMove DEF Finish, States
  <2> QED
    BY <1>7, <2>1 DEF Finish, ring
<1>8. ASSUME NEW w \in Workers, SpuriousWake(w) PROVE NoLostWakeup'
  <2>1. /\ Cardinality(At("lock")') = Cardinality(At("lock")) + 1
        /\ At("wait") # {}
    BY <1>8, CountMove DEF SpuriousWake, States, At
  <2> QED
    BY <1>8, <2>1 DEF SpuriousWake, ring
<1>9. CASE CreateFails \/ SubmitRejected \/ Join \/ UNCHANGED vars
  BY <1>9 DEF CreateFails, SubmitRejected, Join, vars, ring, At
<1> QED
  BY <1>1, <1>2, <1>3, <1>4, <1>5, <1>6, <1>7, <1>8, <1>9
     DEF Next, Main, Locked, Terminated
-----------------------------------------------------------------------------
(* The slot at an offset from head, without the modulo. *)
Slot(h, i) == IF h + i < TASK_CAP THEN h + i ELSE h + i - TASK_CAP

LEMMA SlotLemma ==
  \A h \in Slots, i \in 0..TASK_CAP : (h + i) % TASK_CAP = Slot(h, i)
<1> TAKE h \in Slots, i \in 0..TASK_CAP
<1>1. PICK x \in 0..(2 * TASK_CAP - 1) : x = h + i
  BY CapAssumption DEF Slots
<1>2. x % TASK_CAP = IF x < TASK_CAP THEN x ELSE x - TASK_CAP
  BY ModLemma
<1> QED
  BY <1>1, <1>2, CapAssumption DEF Slot, Slots

(* RingInOrder without the modulo, in the current and in the next state. *)
RingByOffset == /\ tail = Slot(head, count)
                /\ \A i \in 0..(count - 1) : q[Slot(head, i)] = submitted - count + 1 + i

LEMMA RingLemma ==
  ASSUME head \in Slots, count \in 0..TASK_CAP
  PROVE  RingInOrder <=> RingByOffset
<1>1. (head + count) % TASK_CAP = Slot(head, count)
  BY SlotLemma
<1>2. \A i \in 0..(count - 1) : i \in 0..TASK_CAP
  BY CapAssumption
<1>3. \A i \in 0..(count - 1) : (head + i) % TASK_CAP = Slot(head, i)
  BY <1>2, SlotLemma
<1> QED
  BY <1>1, <1>3 DEF RingInOrder, RingByOffset

LEMMA RingLemmaPrimed ==
  ASSUME head' \in Slots, count' \in 0..TASK_CAP
  PROVE  RingInOrder' <=> RingByOffset'
<1>1. (head' + count') % TASK_CAP = Slot(head', count')
  BY SlotLemma
<1>2. \A i \in 0..(count' - 1) : i \in 0..TASK_CAP
  <2>1. PICK n \in 0..TASK_CAP : n = count'
    OBVIOUS
  <2>2. \A i \in 0..(n - 1) : i \in 0..TASK_CAP
    BY CapAssumption
  <2> QED
    BY <2>1, <2>2
<1>3. \A i \in 0..(count' - 1) : (head' + i) % TASK_CAP = Slot(head', i)
  BY <1>2, SlotLemma
<1> QED
  BY <1>1, <1>3 DEF RingInOrder, RingByOffset

LEMMA RingStep == Inv /\ [Next]_vars => RingInOrder'
<1> SUFFICES ASSUME Inv, [Next]_vars PROVE RingInOrder'
  OBVIOUS
<1>1. /\ q \in [Slots -> Nat] /\ head \in Slots /\ tail \in Slots
      /\ count \in 0..TASK_CAP /\ submitted \in Nat /\ TASK_CAP \in Nat \ {0}
      /\ tail = Slot(head, count)
      /\ \A i \in 0..(count - 1) : q[Slot(head, i)] = submitted - count + 1 + i
  BY RingLemma, CapAssumption DEF Inv, TypeOK, RingByOffset
<1>2. CASE Submit
  <2>1. /\ q' = [q EXCEPT ![tail] = submitted + 1]
        /\ head' = head /\ count' = count + 1 /\ submitted' = submitted + 1
        /\ count < TASK_CAP
        /\ tail' = IF tail + 1 = TASK_CAP THEN 0 ELSE tail + 1
    BY <1>1, <1>2, NextSlotType DEF Submit, Full
  <2>2. tail' = Slot(head', count')
    BY <1>1, <2>1 DEF Slot, Slots
  <2>3. ASSUME NEW i \in 0..(count' - 1)
        PROVE  q'[Slot(head', i)] = submitted' - count' + 1 + i
    <3>1. CASE i = count
      BY <1>1, <2>1, <3>1
    <3>2. CASE i # count
      <4>1. i \in 0..(count - 1) /\ Slot(head, i) # tail /\ Slot(head, i) \in Slots
        BY <1>1, <2>1, <3>2 DEF Slot, Slots
      <4> QED
        BY <1>1, <2>1, <4>1
    <3> QED
      BY <3>1, <3>2
  <2>4. head' \in Slots /\ count' \in 0..TASK_CAP
    BY <1>1, <2>1
  <2> QED
    BY <2>2, <2>3, <2>4, RingLemmaPrimed DEF RingByOffset
<1>3. ASSUME NEW w \in Workers, Take(w) PROVE RingInOrder'
  <2>1. /\ q' = q /\ tail' = tail /\ submitted' = submitted
        /\ count' = count - 1 /\ count > 0
        /\ head' = IF head + 1 = TASK_CAP THEN 0 ELSE head + 1
    BY <1>1, <1>3, NextSlotType DEF Take
  <2>2. tail' = Slot(head', count')
    BY <1>1, <2>1 DEF Slot, Slots
  <2>3. ASSUME NEW i \in 0..(count' - 1)
        PROVE  q'[Slot(head', i)] = submitted' - count' + 1 + i
    <3>1. i + 1 \in 0..(count - 1) /\ Slot(head', i) = Slot(head, i + 1)
      BY <1>1, <2>1 DEF Slot, Slots
    <3> QED
      BY <1>1, <2>1, <3>1
  <2>4. head' \in Slots /\ count' \in 0..TASK_CAP
    BY <1>1, <2>1 DEF Slots
  <2> QED
    BY <2>2, <2>3, <2>4, RingLemmaPrimed DEF RingByOffset
<1>4. CASE UNCHANGED <<ring, submitted>>
  BY <1>4 DEF Inv, RingInOrder, ring
<1>5. ASSUME NEW w \in Workers, Wait(w) \/ Leave(w) \/ Finish(w) \/ SpuriousWake(w)
      PROVE  UNCHANGED <<ring, submitted>>
  BY <1>5 DEF Wait, Leave, Finish, SpuriousWake
<1>6. ASSUME Create \/ CreateFails \/ SubmitRejected \/ Shutdown \/ Join \/ Terminated
             \/ UNCHANGED vars
      PROVE  UNCHANGED <<ring, submitted>>
  BY <1>6 DEF Create, CreateFails, SubmitRejected, Shutdown, Join, Terminated,
              vars, ring
<1> QED
  BY <1>2, <1>3, <1>4, <1>5, <1>6 DEF Next, Main, Locked

LEMMA ConservationStep == Inv /\ [Next]_vars => Conservation'
<1> SUFFICES ASSUME Inv, [Next]_vars PROVE Conservation'
  OBVIOUS
<1> USE AtFinite
<1>1. /\ count \in 0..TASK_CAP /\ submitted \in Nat /\ executed \in Nat
      /\ TASK_CAP \in Nat \ {0} /\ cur \in [Workers -> Nat]
      /\ submitted = count + Cardinality(At("run")) + executed
      /\ \A v, u \in At("run") : cur[v] = cur[u] => v = u
      /\ \A v \in At("run") : cur[v] \in 1..(submitted - count)
  BY CapAssumption DEF Inv, TypeOK, Conservation
<1>2. ASSUME At("run")' = At("run"), cur' = cur, executed' = executed,
             count' - count = submitted' - submitted, count' \in Nat,
             submitted' \in Nat
      PROVE  Conservation'
  BY <1>1, <1>2 DEF Conservation
<1>3. CASE Create
  <2>1. created + 1 \in Workers /\ pc[created + 1] = "none"
    BY <1>3, ThreadsAssumption DEF Create, CreatedInv, Workers, Inv, TypeOK
  <2>2. At("run")' = At("run")
    BY <1>3, <2>1, CountMove DEF Create, States
  <2> QED
    BY <1>1, <1>2, <1>3, <2>2 DEF Create, ring
<1>4. CASE Submit
  <2>1. At("run")' = At("run")
    BY <1>4 DEF Submit, WakeOne, At, Inv, TypeOK
  <2> QED
    BY <1>1, <1>2, <1>4, <2>1 DEF Submit
<1>5. CASE Shutdown
  <2>1. At("run")' = At("run")
    BY <1>5 DEF Shutdown, WakeAll, At, Inv, TypeOK
  <2> QED
    BY <1>1, <1>2, <1>5, <2>1 DEF Shutdown, ring
<1>6. ASSUME NEW w \in Workers, Wait(w) \/ Leave(w) \/ SpuriousWake(w)
      PROVE  Conservation'
  <2>1. At("run")' = At("run")
    BY <1>6 DEF Wait, Leave, SpuriousWake, At, Inv, TypeOK
  <2> QED
    BY <1>1, <1>2, <1>6, <2>1 DEF Wait, Leave, SpuriousWake, ring
<1>7. ASSUME NEW w \in Workers, Take(w) PROVE Conservation'
  <2>1. /\ Cardinality(At("run")') = Cardinality(At("run")) + 1
        /\ At("run")' = At("run") \cup {w} /\ w \notin At("run")
    BY <1>7, CountMove DEF Take, States, At
  <2>2. q[head] = submitted - count + 1
    <3>1. head \in Slots /\ 0 \in 0..(count - 1) /\ 0 \in 0..TASK_CAP
      BY <1>1, <1>7 DEF Take, Inv, TypeOK
    <3>2. Slot(head, 0) = head
      BY <1>1, <3>1 DEF Slot, Slots
    <3>3. q[Slot(head, 0)] = submitted - count + 1 + 0
      BY <3>1, RingLemma DEF Inv, TypeOK, RingByOffset
    <3> QED
      BY <1>1, <3>2, <3>3
  <2>3. /\ cur' = [cur EXCEPT ![w] = submitted - count + 1]
        /\ count' = count - 1 /\ count > 0 /\ UNCHANGED <<submitted, executed>>
    BY <1>7, <2>2 DEF Take, Oldest
  <2>4. \A v \in At("run") : v \in Workers /\ cur'[v] = cur[v]
    BY <1>1, <2>1, <2>3 DEF At
  <2>5. cur'[w] = submitted - count + 1
    BY <1>1, <2>3
  <2>6. submitted' = count' + Cardinality(At("run")') + executed'
    BY <1>1, <2>1, <2>3
  <2>7. \A v \in At("run")' : cur'[v] \in 1..(submitted' - count')
    BY <1>1, <2>1, <2>3, <2>4, <2>5
  <2>8. \A v, u \in At("run")' : cur'[v] = cur'[u] => v = u
    BY <1>1, <2>1, <2>3, <2>4, <2>5
  <2> QED
    BY <2>6, <2>7, <2>8 DEF Conservation
<1>8. ASSUME NEW w \in Workers, Finish(w) PROVE Conservation'
  <2>1. /\ Cardinality(At("run")') = Cardinality(At("run")) - 1
        /\ At("run")' = At("run") \ {w}
    BY <1>8, CountMove DEF Finish, States
  <2>2. \A v \in At("run")' : v \in At("run") /\ cur'[v] = cur[v]
    BY <1>1, <1>8, <2>1 DEF Finish, At
  <2>3. UNCHANGED <<count, submitted>> /\ executed' = executed + 1
    BY <1>8 DEF Finish, ring
  <2> QED
    BY <1>1, <2>1, <2>2, <2>3 DEF Conservation
<1>9. CASE CreateFails \/ SubmitRejected \/ Join \/ UNCHANGED vars
  <2>1. UNCHANGED <<pc, cur, executed, count, submitted>>
    BY <1>9 DEF CreateFails, SubmitRejected, Join, vars, ring
  <2> QED
    BY <1>1, <1>2, <2>1 DEF At
<1> QED
  BY <1>3, <1>4, <1>5, <1>6, <1>7, <1>8, <1>9 DEF Next, Main, Locked, Terminated
-----------------------------------------------------------------------------
(* The conjunction is inductive. *)
LEMMA InvHolds == Spec => []Inv
<1>1. Inv /\ [Next]_vars => Inv'
  BY TypeStep, CreatedStep, ShutdownStep, WakeupStep, RingStep,
     ConservationStep DEF Inv
<1> QED
  BY InitInv, <1>1, PTL DEF Spec

LEMMA DrainedFromInv == Inv => DrainedAtExit
<1> SUFFICES ASSUME Inv, mainpc = "exited"
             PROVE  /\ executed = submitted
                    /\ \A w \in Workers : pc[w] \in {"none", "left"}
  BY DEF DrainedAtExit
<1>1. \A w \in 1..nthreads : pc[w] = "left"
  BY DEF Inv, ShutdownInv
<1>2. \A w \in Workers : w \notin 1..nthreads => pc[w] = "none"
  BY ThreadsAssumption DEF Inv, TypeOK, CreatedInv, Workers
<1>3. count = 0
  <2>1. 1 \in 1..nthreads /\ 1 \in Workers
    BY ThreadsAssumption DEF Inv, TypeOK, Workers
  <2> QED
    BY <1>1, <2>1 DEF Inv, ShutdownInv
<1>4. Cardinality(At("run")) = 0
  <2>1. At("run") = {}
    BY <1>1, <1>2 DEF At
  <2> QED
    BY <2>1, FS_EmptySet
<1>5. executed = submitted
  BY <1>3, <1>4 DEF Inv, TypeOK, Conservation
<1> QED
  BY <1>1, <1>2, <1>5

(* Every variable keeps its type: the ring indices stay inside the ring,   *)
(* tpool_submit never overfills it and worker_main never underflows the    *)
(* unsigned count.                                                         *)
THEOREM TypeCorrect == Spec => []TypeOK
BY InvHolds, PTL DEF Inv

(* However the signals of tpool_submit and the waits of worker_main        *)
(* interleave, a queued task always has a worker on its way to it.         *)
THEOREM WakeupsSuffice == Spec => []NoLostWakeup
BY InvHolds, PTL DEF Inv

(* The ring of tpool_submit and worker_main is a FIFO of the latest        *)
(* submissions, whatever its size and however often the indices wrapped.   *)
THEOREM RingIsFifo == Spec => []RingInOrder
BY InvHolds, PTL DEF Inv

(* No task is lost, duplicated or executed twice.                          *)
THEOREM TasksConserved == Spec => []Conservation
BY InvHolds, PTL DEF Inv

(* tpool_shutdown returns only when every accepted task was executed and   *)
(* every worker left.                                                      *)
THEOREM ShutdownDrains == Spec => []DrainedAtExit
BY InvHolds, DrainedFromInv, PTL
-----------------------------------------------------------------------------
(* The abstract state a pool stands for: a queue of the latest submissions *)
(* and, below them, what is running and what is finished.                  *)
Latest(s, c) == [i \in 1..c |-> s - c + i]
Done(s, c, hand) == (1..(s - c)) \ hand

(* Sequences of one length with the same elements are the same.            *)
LEMMA SameSeq ==
  ASSUME NEW X, NEW s \in Seq(X), NEW t \in Seq(X), Len(s) = Len(t),
         \A i \in 1..Len(s) : s[i] = t[i]
  PROVE  s = t
BY SMTT(30)

(* The ring read from its head is the queue.                               *)
Holds(Q, h, c, s) == \A i \in 0..(c - 1) : Q[(h + i) % TASK_CAP] = s - c + 1 + i
FromHead(Q, h, c) == [i \in 1..c |-> Q[(h + i - 1) % TASK_CAP]]

LEMMA RingIsQueue ==
  ASSUME NEW Q, NEW h \in Nat, NEW c \in 0..TASK_CAP, NEW s \in Nat, Holds(Q, h, c, s)
  PROVE  FromHead(Q, h, c) = Latest(s, c)
<1> USE DEF Holds, FromHead
<1>1. \A i \in 1..c : Q[(h + i - 1) % TASK_CAP] = s - c + i
  <2> TAKE i \in 1..c
  <2>1. i - 1 \in 0..(c - 1) /\ h + i - 1 = h + (i - 1) /\ s - c + 1 + (i - 1) = s - c + i
    BY CapAssumption
  <2> QED
    BY <2>1
<1> QED
  BY <1>1 DEF Latest

LEMMA QueuedIs == Inv => Queued = Latest(submitted, count)
<1> SUFFICES ASSUME Inv PROVE Queued = Latest(submitted, count)
  OBVIOUS
<1>1. head \in Nat /\ count \in 0..TASK_CAP /\ submitted \in Nat
  BY CapAssumption DEF Inv, TypeOK, Slots
<1>2. Holds(q, head, count, submitted)
  BY DEF Inv, RingInOrder, Holds
<1>3. Queued = FromHead(q, head, count)
  BY DEF Queued, FromHead
<1> QED
  BY <1>1, <1>2, <1>3, RingIsQueue

LEMMA QueuedIsPrimed == Inv' => Queued' = Latest(submitted', count')
<1> SUFFICES ASSUME Inv' PROVE Queued' = Latest(submitted', count')
  OBVIOUS
<1>1. head' \in Nat /\ count' \in 0..TASK_CAP /\ submitted' \in Nat
  BY CapAssumption DEF Inv, TypeOK, Slots
<1>2. Holds(q', head', count', submitted')
  BY DEF Inv, RingInOrder, Holds
<1>3. Queued' = FromHead(q', head', count')
  BY DEF Queued, FromHead
<1> QED
  BY <1>1, <1>2, <1>3, RingIsQueue

(* What was neither queued nor in hand is finished.                        *)
LEMMA FinishedIs ==
  ASSUME NEW s \in Nat, NEW c \in 0..TASK_CAP, NEW hand \in SUBSET (1..(s - c))
  PROVE  (1..s) \ (hand \cup {Latest(s, c)[i] : i \in 1..c}) = Done(s, c, hand)
<1>1. {Latest(s, c)[i] : i \in 1..c} = (s - c + 1)..s
  <2>1. ASSUME NEW x \in (s - c + 1)..s PROVE \E i \in 1..c : x = Latest(s, c)[i]
    <3>1. x - (s - c) \in 1..c /\ s - c + (x - (s - c)) = x
      BY CapAssumption
    <3> QED
      BY <3>1 DEF Latest
  <2>2. ASSUME NEW i \in 1..c PROVE Latest(s, c)[i] \in (s - c + 1)..s
    BY CapAssumption DEF Latest
  <2> QED
    BY <2>1, <2>2
<1>2. c <= s \/ hand = {}
  BY CapAssumption
<1> QED
  BY <1>1, <1>2, CapAssumption DEF Done

(* The tasks in hand are older than those queued, and as many as the       *)
(* workers that run.                                                       *)
LEMMA HandFacts ==
  ASSUME Inv
  PROVE  /\ InHand \in SUBSET (1..(submitted - count))
         /\ IsFiniteSet(InHand) /\ Cardinality(InHand) = Cardinality(At("run"))
<1>1. InHand \in SUBSET (1..(submitted - count))
  BY DEF Inv, Conservation, InHand
<1> DEFINE f == [w \in At("run") |-> cur[w]]
<1>2. f \in Bijection(At("run"), InHand)
  <2>1. f \in Surjection(At("run"), InHand)
    BY DEF Surjection, InHand
  <2>2. f \in Injection(At("run"), InHand)
    <3>1. \A v, w \in At("run") : f[v] = f[w] => v = w
      BY DEF Inv, Conservation
    <3>2. f \in [At("run") -> InHand]
      BY DEF InHand
    <3> HIDE DEF f
    <3> QED
      BY <3>1, <3>2 DEF Injection, IsInjective
  <2> QED
    BY <2>1, <2>2 DEF Bijection
<1>3. ExistsBijection(At("run"), InHand)
  BY <1>2 DEF ExistsBijection
<1> QED
  BY <1>1, <1>3, AtFinite, FS_Bijection

LEMMA HandIsPrimed == Inv' => InHand' \in SUBSET (1..(submitted' - count'))
BY DEF Inv, Conservation, InHand

(* The abstract state after a step that leaves what is queued and in hand. *)
LEMMA Stutter ==
  ASSUME Inv, Inv', UNCHANGED <<nthreads, submitted, count, cur, shutdown>>,
         At("run")' = At("run"), (mainpc' = "exited") <=> (mainpc = "exited")
  PROVE  UNCHANGED TQ!vars
<1>1. Queued' = Queued
  BY QueuedIs, QueuedIsPrimed
<1>2. InHand' = InHand
  BY DEF InHand
<1> QED
  BY <1>1, <1>2 DEF TQ!vars

(* What is finished, before and after a step.                              *)
Finished == (1..submitted) \ (InHand \cup {Queued[i] : i \in 1..count})
LEMMA FinishedAre ==
  ASSUME Inv, Inv'
  PROVE  /\ Finished = Done(submitted, count, InHand)
         /\ Finished' = Done(submitted', count', InHand')
<1>1. /\ submitted \in Nat /\ count \in 0..TASK_CAP
      /\ submitted' \in Nat /\ count' \in 0..TASK_CAP
  BY DEF Inv, TypeOK
<1>2. InHand \in SUBSET (1..(submitted - count)) /\ InHand' \in SUBSET (1..(submitted' - count'))
  BY HandFacts, HandIsPrimed
<1>3. Finished = (1..submitted) \ (InHand \cup {Latest(submitted, count)[i] : i \in 1..count})
  BY QueuedIs DEF Finished
<1>4. Finished' = (1..submitted') \ (InHand' \cup {Latest(submitted', count')[i] : i \in 1..count'})
  BY QueuedIsPrimed DEF Finished
<1> QED
  BY <1>1, <1>2, <1>3, <1>4, FinishedIs

LEMMA RefineSubmit == ASSUME Inv, Inv', Submit PROVE TQ!Accept
<1>1. /\ submitted \in Nat /\ count \in 0..TASK_CAP /\ TASK_CAP \in Nat
      /\ ~shutdown /\ count # TASK_CAP
      /\ submitted' = submitted + 1 /\ count' = count + 1
      /\ UNCHANGED <<shutdown, nthreads, cur, mainpc>>
  BY CapAssumption DEF Inv, TypeOK, Submit, Full
<1>2. Queued = Latest(submitted, count) /\ Queued' = Latest(submitted + 1, count + 1)
  BY <1>1, QueuedIs, QueuedIsPrimed
<1>3. Len(Queued) < TASK_CAP /\ Queued' = Append(Queued, submitted + 1)
  BY <1>1, <1>2 DEF Latest
<1>4. At("run")' = At("run")
  BY DEF Submit, WakeOne, At, Inv, TypeOK
<1>5. InHand' = InHand
  BY <1>1, <1>4 DEF InHand
<1>6. Finished' = Finished
  BY <1>1, <1>5, FinishedAre DEF Done
<1> QED
  BY <1>1, <1>3, <1>5, <1>6 DEF TQ!Accept, Finished

LEMMA RefineTake == ASSUME Inv, Inv', NEW w \in Workers, Take(w) PROVE TQ!Start
<1>1. /\ submitted \in Nat /\ count \in 1..TASK_CAP /\ TASK_CAP \in Nat /\ head \in Slots
      /\ count' = count - 1 /\ cur' = [cur EXCEPT ![w] = q[head]]
      /\ cur \in [Workers -> Nat] /\ nthreads \in Nat
      /\ UNCHANGED <<submitted, shutdown, nthreads, mainpc>>
  BY CapAssumption, ThreadsAssumption DEF Inv, TypeOK, Take, Oldest, Workers
<1>2. Queued = Latest(submitted, count) /\ Queued' = Latest(submitted, count - 1)
  BY <1>1, QueuedIs, QueuedIsPrimed
<1>3. Queued # <<>> /\ Queued' = Tail(Queued) /\ Head(Queued) = submitted - count + 1
  <2>1. /\ Len(Latest(submitted, count)) = count
        /\ \A i \in 1..count : Latest(submitted, count)[i] = submitted - count + i
        /\ Latest(submitted, count) \in Seq(Int)
    BY <1>1 DEF Latest
  <2>2. Queued # <<>> /\ Head(Queued) = submitted - count + 1
    BY <1>1, <1>2, <2>1
  <2>3. /\ Tail(Queued) \in Seq(Int) /\ Len(Tail(Queued)) = count - 1
        /\ \A i \in 1..(count - 1) : Tail(Queued)[i] = submitted - count + 1 + i
    BY <1>1, <1>2, <2>1, <2>2
  <2>4. /\ Queued' \in Seq(Int) /\ Len(Queued') = count - 1
        /\ \A i \in 1..(count - 1) : Queued'[i] = submitted - count + 1 + i
    BY <1>1, <1>2 DEF Latest
  <2>5. \A i \in 1..Len(Queued') : Queued'[i] = Tail(Queued)[i]
    BY <1>1, <2>3, <2>4
  <2>6. Queued' = Tail(Queued)
    BY <2>3, <2>4, <2>5, SameSeq
  <2> QED
    BY <2>2, <2>6
<1>4. q[head] = submitted - count + 1
  <2>1. 0 \in 0..TASK_CAP /\ 0 \in 0..(count - 1) /\ Slot(head, 0) = head
    BY <1>1 DEF Slot, Slots
  <2>2. q[Slot(head, 0)] = submitted - count + 1 + 0
    BY <1>1, <2>1, RingLemma DEF Inv, TypeOK, RingByOffset
  <2> QED
    BY <1>1, <2>1, <2>2
<1>5. At("run")' = At("run") \cup {w} /\ w \notin At("run") /\ pc[w] = "lock"
  BY CountMove DEF Take, States, At
<1>6. InHand' = InHand \cup {Head(Queued)}
  <2>1. \A v \in At("run") : v \in Workers /\ cur'[v] = cur[v]
    BY <1>1, <1>5 DEF At
  <2>2. cur'[w] = Head(Queued)
    BY <1>1, <1>3, <1>4
  <2>3. InHand' = {cur'[v] : v \in At("run") \cup {w}}
    BY <1>5 DEF InHand
  <2> QED
    BY <2>1, <2>2, <2>3 DEF InHand
<1>7. Cardinality(InHand) < nthreads
  <2>1. At("run") \cup {w} \in SUBSET (1..nthreads)
    <3>1. \A v \in Workers : v > nthreads => pc[v] = "none"
      BY ThreadsAssumption DEF Inv, TypeOK, CreatedInv, Workers
    <3>2. w \in Workers /\ w <= nthreads
      BY <1>1, <1>5, <3>1 DEF Workers
    <3>3. \A v \in At("run") : v \in Workers /\ v <= nthreads
      BY <1>1, <3>1 DEF At, Workers
    <3> QED
      BY <1>1, <3>2, <3>3, ThreadsAssumption DEF Workers
  <2>2. IsFiniteSet(1..nthreads) /\ Cardinality(1..nthreads) = nthreads
    BY <1>1, FS_Interval
  <2>3. Cardinality(At("run") \cup {w}) <= nthreads
    BY <2>1, <2>2, FS_Subset
  <2>4. Cardinality(At("run") \cup {w}) = Cardinality(At("run")) + 1
    BY <1>5, AtFinite, FS_AddElement
  <2> QED
    BY <1>1, <2>3, <2>4, HandFacts, AtFinite
<1>8. Finished' = Finished
  <2>1. Finished = (1..(submitted - count)) \ InHand
    BY FinishedAre DEF Done
  <2>2. Finished' = (1..(submitted - count + 1)) \ (InHand \cup {submitted - count + 1})
    BY <1>1, <1>3, <1>6, FinishedAre DEF Done
  <2>3. PICK k \in Int : k = submitted - count
    BY <1>1
  <2>4. InHand \in SUBSET (1..k) /\ Finished = (1..k) \ InHand
        /\ Finished' = (1..(k + 1)) \ (InHand \cup {k + 1})
    BY <2>1, <2>2, <2>3, HandFacts
  <2>5. (1..(k + 1)) \ (InHand \cup {k + 1}) = (1..k) \ InHand
    OBVIOUS
  <2> QED
    BY <2>4, <2>5
<1>9. TQ!Cardinality(InHand) = Cardinality(InHand)
  BY Zenon DEF Cardinality, TQ!Cardinality
<1> QED
  BY <1>1, <1>3, <1>6, <1>7, <1>8, <1>9 DEF TQ!Start, Finished

LEMMA RefineFinish ==
  ASSUME Inv, Inv', NEW w \in Workers, Finish(w)
  PROVE  \E t \in InHand : TQ!Finish(t)
<1>1. /\ UNCHANGED <<submitted, count, nthreads, shutdown, mainpc>> /\ w \in At("run")
      /\ cur' = [cur EXCEPT ![w] = NoTask] /\ cur \in [Workers -> Nat]
      /\ submitted \in Nat /\ count \in 0..TASK_CAP /\ TASK_CAP \in Nat
  BY CapAssumption DEF Finish, ring, At, Inv, TypeOK
<1>2. At("run")' = At("run") \ {w}
  BY CountMove DEF Finish, States
<1>3. InHand' = InHand \ {cur[w]} /\ cur[w] \in InHand
  <2>1. \A v \in At("run") \ {w} : cur'[v] = cur[v] /\ cur[v] # cur[w]
    BY <1>1 DEF Inv, Conservation, At
  <2>2. InHand' = {cur'[v] : v \in At("run") \ {w}}
    BY <1>2 DEF InHand
  <2> QED
    BY <1>1, <2>1, <2>2 DEF InHand
<1>4. Finished' = Finished \cup {cur[w]}
  BY <1>1, <1>3, HandFacts, FinishedAre DEF Done
<1>5. Queued' = Queued
  BY <1>1, QueuedIs, QueuedIsPrimed
<1> QED
  BY <1>1, <1>3, <1>4, <1>5 DEF TQ!Finish, Finished

LEMMA RefineShutdown == ASSUME Inv, Inv', Shutdown PROVE TQ!Close
<1>1. /\ ~shutdown /\ shutdown' /\ mainpc # "exited" /\ mainpc' # "exited"
      /\ UNCHANGED <<nthreads, submitted, count, cur>>
  BY DEF Shutdown, Inv, ShutdownInv, ring
<1>2. At("run")' = At("run")
  BY DEF Shutdown, WakeAll, At, Inv, TypeOK
<1>3. Queued' = Queued /\ InHand' = InHand
  BY <1>1, <1>2, QueuedIs, QueuedIsPrimed DEF InHand
<1>4. shutdown' = TRUE
  BY DEF Shutdown
<1> QED
  BY <1>1, <1>3, <1>4 DEF TQ!Close

LEMMA RefineJoin == ASSUME Inv, Inv', Join PROVE TQ!Stop
<1>1. /\ shutdown /\ mainpc' = "exited"
      /\ UNCHANGED <<nthreads, submitted, count, cur, pc, shutdown>>
      /\ \A w \in 1..nthreads : pc[w] = "left"
  BY DEF Join, Inv, ShutdownInv, ring
<1>2. \A w \in Workers : w \notin 1..nthreads => pc[w] = "none"
  BY ThreadsAssumption DEF Inv, TypeOK, CreatedInv, Workers, Join
<1>3. count = 0
  <2>1. 1 \in 1..nthreads /\ 1 \in Workers
    BY ThreadsAssumption DEF Inv, TypeOK, Workers
  <2> QED
    BY <1>1, <2>1 DEF Inv, ShutdownInv
<1>4. At("run") = {}
  BY <1>1, <1>2 DEF At
<1>5. Queued = <<>> /\ InHand = {}
  BY <1>3, <1>4, QueuedIs DEF Latest, InHand
<1>6. Queued' = Queued /\ InHand' = InHand
  BY <1>1, QueuedIs, QueuedIsPrimed DEF InHand, At
<1> QED
  BY <1>1, <1>5, <1>6 DEF TQ!Stop

(* thread_pool.h:8 to 10: for every ring size and number of workers the    *)
(* pool is the bounded first-in first-out queue of TaskQueue: each task is *)
(* started once, in order, by one of at most nthreads workers, and         *)
(* tpool_shutdown returns when all are finished.                           *)
THEOREM ImplementsQueue == Spec => TQ!Init /\ [][TQ!Next]_(TQ!vars)
<1>1. Init => TQ!Init
  <2> SUFFICES ASSUME Init PROVE TQ!Init
    OBVIOUS
  <2>1. Inv
    BY InitInv
  <2>2. Queued = <<>> /\ InHand = {}
    BY <2>1, QueuedIs DEF Latest, InHand, At, Init
  <2>3. nthreads \in 1..POOL_THREADS
    BY <2>1 DEF Inv, TypeOK, Workers
  <2>4. (1..submitted) \ (InHand \cup {Queued[i] : i \in 1..count}) = {}
    BY DEF Init
  <2> QED
    BY <2>2, <2>3, <2>4 DEF Init, TQ!Init
<1>2. Inv /\ Inv' /\ [Next]_vars => [TQ!Next]_(TQ!vars)
  <2> SUFFICES ASSUME Inv, Inv', [Next]_vars PROVE TQ!Next \/ UNCHANGED TQ!vars
    OBVIOUS
  <2>1. CASE Create
    <3>1. created + 1 \in Workers /\ pc[created + 1] = "none"
      BY <2>1, ThreadsAssumption DEF Create, CreatedInv, Workers, Inv, TypeOK
    <3>2. At("run")' = At("run")
      BY <2>1, <3>1, CountMove DEF Create, States
    <3> QED
      BY <2>1, <3>2, Stutter DEF Create, ring
  <2>2. CASE CreateFails \/ SubmitRejected
    BY <2>2, Stutter DEF CreateFails, SubmitRejected, ring, At
  <2>3. CASE Submit
    BY <2>3, RefineSubmit DEF TQ!Next
  <2>4. CASE Shutdown
    BY <2>4, RefineShutdown DEF TQ!Next
  <2>5. CASE Join
    BY <2>5, RefineJoin DEF TQ!Next
  <2>6. ASSUME NEW w \in Workers, Take(w) PROVE TQ!Next
    BY <2>6, RefineTake DEF TQ!Next
  <2>7. ASSUME NEW w \in Workers, Finish(w) PROVE TQ!Next
    BY <2>7, RefineFinish DEF TQ!Next
  <2>8. ASSUME NEW w \in Workers, Wait(w) \/ Leave(w) \/ SpuriousWake(w)
        PROVE  UNCHANGED TQ!vars
    <3>1. At("run")' = At("run")
      BY <2>8 DEF Wait, Leave, SpuriousWake, At, Inv, TypeOK
    <3> QED
      BY <2>8, <3>1, Stutter DEF Wait, Leave, SpuriousWake, ring
  <2>9. CASE UNCHANGED vars
    BY <2>9, Stutter DEF vars, At
  <2> QED
    BY <2>1, <2>2, <2>3, <2>4, <2>5, <2>6, <2>7, <2>8, <2>9
       DEF Next, Main, Locked, Terminated
<1> QED
  BY <1>1, <1>2, InvHolds, PTL DEF Spec
=============================================================================
