--------------------------- MODULE MemPoolProofs ---------------------------
(* Proofs about the block pool of mempool.c for every arena size, every     *)
(* number of threads and every amount of heap.                              *)
EXTENDS MemPool, FiniteSetTheorems, TLAPS

Inv == TypeOK /\ BlocksPartitioned

LEMMA BlockFacts == /\ NULL \notin Blocks
                    /\ Arena \cap HeapIds = {}
                    /\ Blocks = Arena \cup HeapIds
BY PoolAssumption DEF NULL, Blocks, Arena, HeapIds

(* A counter stays in its range. *)
LEMMA IncType == \A n \in 0..(U64 - 1) : Inc(n) \in 0..(U64 - 1)
BY PoolAssumption, SMTT(30) DEF Inc

LEMMA TypeStep == Inv /\ [Next]_vars => TypeOK'
<1> SUFFICES ASSUME Inv, [Next]_vars PROVE TypeOK'
  OBVIOUS
<1> USE PoolAssumption, IncType DEF Inv, TypeOK, Goto
<1>1. CASE UNCHANGED vars
  BY <1>1 DEF vars
<1>2. ASSUME NEW t \in Threads, Pop(t) PROVE TypeOK'
  <2>1. g_free_stack[g_free_top - 1] \in Blocks
    BY <1>2 DEF Pop, Arena, Blocks
  <2> QED
    BY <1>2, <2>1 DEF Pop
<1>3. ASSUME NEW t \in Threads, FindEmpty(t) PROVE TypeOK'
  BY <1>3 DEF FindEmpty
<1>4. ASSUME NEW t \in Threads, Malloc(t) PROVE TypeOK'
  BY <1>4, BlockFacts DEF Malloc
<1>5. ASSUME NEW t \in Threads, AllocReturns(t) PROVE TypeOK'
  BY <1>5 DEF AllocReturns, CountCall
<1>6. ASSUME NEW t \in Threads, NEW b \in held, Push(t, b) PROVE TypeOK'
  <2>1. g_free_top < MP_COUNT => Pushed(g_free_top) \in Arena
    BY DEF Pushed, Arena
  <2>2. /\ g_free_stack' \in [Arena -> Arena]
        /\ g_free_top' \in 0..MP_COUNT
    BY <1>6, <2>1 DEF Push, InArena
  <2> QED
    BY <1>6, <2>2 DEF Push
<1>7. ASSUME NEW t \in Threads, NEW b \in held, Free(t, b) PROVE TypeOK'
  BY <1>7 DEF Free
<1>8. ASSUME NEW t \in Threads, FreeReturns(t) PROVE TypeOK'
  BY <1>8 DEF FreeReturns
<1> QED
  BY <1>1, <1>2, <1>3, <1>4, <1>5, <1>6, <1>7, <1>8 DEF Next
-----------------------------------------------------------------------------
(* While a caller owns a block of the arena the stack is not full, so the  *)
(* bounds check of mp_free never loses an index.                           *)
LEMMA RoomToPush ==
  ASSUME Inv, NEW b \in held, b \in Arena
  PROVE  g_free_top < MP_COUNT
<1> DEFINE S == 0..(g_free_top - 1)
           f == [i \in S |-> g_free_stack[i]]
<1>1. g_free_top \in 0..MP_COUNT
  BY DEF Inv, TypeOK
<1>2. \A i \in S : g_free_stack[i] \in Arena \ {b}
  BY <1>1, PoolAssumption DEF Inv, TypeOK, BlocksPartitioned, OnStack, Arena
<1>3. f \in Injection(S, Arena \ {b})
  BY <1>2 DEF Inv, BlocksPartitioned, Injection, IsInjective
<1>4. IsFiniteSet(Arena) /\ Cardinality(Arena) = MP_COUNT
  BY FS_Interval, PoolAssumption DEF Arena
<1>5. IsFiniteSet(Arena \ {b}) /\ Cardinality(Arena \ {b}) = MP_COUNT - 1
  BY <1>4, FS_RemoveElement
<1>6. Cardinality(S) <= MP_COUNT - 1
  BY <1>3, <1>5, FS_Injection
<1>7. Cardinality(S) = g_free_top
  BY <1>1, FS_Interval
<1> QED
  BY <1>1, <1>6, <1>7, PoolAssumption
-----------------------------------------------------------------------------
LEMMA PartitionStep == Inv /\ [Next]_vars => BlocksPartitioned'
<1> SUFFICES ASSUME Inv, [Next]_vars PROVE BlocksPartitioned'
  OBVIOUS
<1> USE PoolAssumption
<1>1. /\ g_free_stack \in [Arena -> Arena] /\ g_free_top \in 0..MP_COUNT
      /\ MP_COUNT \in Nat \ {0}
      /\ pc \in [Threads -> {"out", "empty", "popped", "pushed"}]
      /\ blk \in [Threads -> Blocks \cup {NULL}]
      /\ held \subseteq Blocks
  BY DEF Inv, TypeOK
<1>2. CASE UNCHANGED vars
  BY <1>2 DEF vars, Inv, BlocksPartitioned, OnStack, InCall, Inside
<1>3. ASSUME NEW t \in Threads, Pop(t) PROVE BlocksPartitioned'
  <2> DEFINE b == g_free_stack[g_free_top - 1]
  <2>1. /\ g_free_top' = g_free_top - 1 /\ g_free_top > 0
        /\ pc[t] = "out"
        /\ pc' = [pc EXCEPT ![t] = "popped"] /\ blk' = [blk EXCEPT ![t] = b]
        /\ UNCHANGED <<g_free_stack, heap, held>>
    BY <1>3 DEF Pop, Goto
  <2>2. b \in Arena /\ b \in OnStack /\ b \in Blocks /\ b # NULL
    BY <1>1, <2>1, BlockFacts DEF OnStack, Arena
  <2>3. OnStack' = OnStack \ {b}
    BY <1>1, <2>1 DEF OnStack, Inv, BlocksPartitioned
  <2>4. /\ Inside("popped")' = Inside("popped") \cup {t} /\ t \notin Inside("popped")
        /\ \A u \in Inside("popped") : blk'[u] = blk[u]
        /\ blk'[t] = b
    BY <1>1, <2>1 DEF Inside
  <2>5. InCall' = InCall \cup {b}
    BY <2>2, <2>4 DEF InCall
  <2>6. \A u \in Inside("popped") : blk[u] # b
    BY <2>2 DEF Inv, BlocksPartitioned, InCall
  <2>7. \A u, v \in Inside("popped")' : blk'[u] = blk'[v] /\ blk'[u] # NULL => u = v
    BY <2>4, <2>6 DEF Inv, BlocksPartitioned
  <2>8. \A i, j \in 0..(g_free_top' - 1) :
          g_free_stack'[i] = g_free_stack'[j] => i = j
    BY <1>1, <2>1 DEF Inv, BlocksPartitioned
  <2> QED
    BY <2>1, <2>2, <2>3, <2>5, <2>7, <2>8, BlockFacts DEF Inv, BlocksPartitioned
<1>4. ASSUME NEW t \in Threads, FindEmpty(t) \/ FreeReturns(t)
      PROVE  BlocksPartitioned'
  <2>1. /\ UNCHANGED <<g_free_stack, g_free_top, heap, held>>
        /\ t \notin Inside("popped") /\ Inside("popped")' = Inside("popped")
        /\ \A u \in Inside("popped") : blk'[u] = blk[u]
    BY <1>1, <1>4 DEF FindEmpty, FreeReturns, Goto, Inside
  <2>2. InCall' = InCall /\ OnStack' = OnStack
    BY <2>1 DEF InCall, OnStack
  <2> QED
    BY <2>1, <2>2 DEF Inv, BlocksPartitioned
<1>5. ASSUME NEW t \in Threads, Malloc(t) PROVE BlocksPartitioned'
  <2>1. /\ UNCHANGED <<g_free_stack, g_free_top, held>>
        /\ pc[t] = "empty" /\ pc' = [pc EXCEPT ![t] = "popped"]
    BY <1>5 DEF Malloc, Goto
  <2>2. PICK b \in HeapIds \cup {NULL} :
          /\ blk' = [blk EXCEPT ![t] = b]
          /\ b = NULL => heap' = heap
          /\ b # NULL => heap' = heap \cup {b} /\ b \notin heap
    BY <1>5, BlockFacts DEF Malloc, Goto
  <2>3. /\ Inside("popped")' = Inside("popped") \cup {t} /\ t \notin Inside("popped")
        /\ \A u \in Inside("popped") : blk'[u] = blk[u]
        /\ blk'[t] = b
        /\ OnStack' = OnStack
    BY <1>1, <2>1, <2>2 DEF Inside, OnStack
  <2>4. b # NULL => b \notin InCall /\ b \notin held /\ b \notin OnStack /\ b \notin Arena
    BY <1>1, <2>2, BlockFacts DEF Inv, BlocksPartitioned, OnStack, Arena
  <2>5. InCall' = IF b = NULL THEN InCall ELSE InCall \cup {b}
    BY <2>3 DEF InCall
  <2>6. \A u, v \in Inside("popped")' : blk'[u] = blk'[v] /\ blk'[u] # NULL => u = v
    <3>1. b # NULL => \A u \in Inside("popped") : blk[u] # b
      BY <2>4 DEF InCall
    <3> QED
      BY <2>3, <3>1 DEF Inv, BlocksPartitioned
  <2> QED
    BY <2>1, <2>2, <2>3, <2>4, <2>5, <2>6, BlockFacts DEF Inv, BlocksPartitioned
<1>6. ASSUME NEW t \in Threads, AllocReturns(t) PROVE BlocksPartitioned'
  <2>1. /\ UNCHANGED <<g_free_stack, g_free_top, heap>>
        /\ t \in Inside("popped") /\ Inside("popped")' = Inside("popped") \ {t}
        /\ \A u \in Inside("popped") \ {t} : blk'[u] = blk[u]
        /\ held' = IF blk[t] = NULL THEN held ELSE held \cup {blk[t]}
    BY <1>1, <1>6 DEF AllocReturns, Goto, Inside
  <2>2. InCall' = InCall \ {blk[t]} /\ (blk[t] # NULL => blk[t] \in InCall)
    BY <2>1 DEF InCall, Inv, BlocksPartitioned
  <2>3. OnStack' = OnStack
    BY <2>1 DEF OnStack
  <2>4. \A u, v \in Inside("popped")' : blk'[u] = blk'[v] /\ blk'[u] # NULL => u = v
    BY <2>1 DEF Inv, BlocksPartitioned
  <2>5. NULL \notin InCall
    BY DEF InCall
  <2> QED
    BY <2>1, <2>2, <2>3, <2>4, <2>5, BlockFacts DEF Inv, BlocksPartitioned
<1>7. ASSUME NEW t \in Threads, NEW b \in held, Push(t, b)
      PROVE  BlocksPartitioned'
  <2>1. b \in Arena /\ held' = held \ {b} /\ heap' = heap /\ g_free_top < MP_COUNT
    BY <1>7, RoomToPush DEF Push, InArena
  <2>2. /\ g_free_stack' = [g_free_stack EXCEPT ![g_free_top] = b]
        /\ g_free_top' = g_free_top + 1
    BY <1>7, <2>1 DEF Push, Pushed
  <2>3. /\ Inside("popped")' = Inside("popped")
        /\ \A u \in Inside("popped") : blk'[u] = blk[u]
    BY <1>1, <1>7 DEF Push, Goto, Inside
  <2>4. InCall' = InCall
    BY <2>3 DEF InCall
  <2>5. /\ g_free_top \in Arena
        /\ g_free_stack'[g_free_top] = b
        /\ \A i \in 0..(g_free_top - 1) : g_free_stack'[i] = g_free_stack[i]
    BY <1>1, <2>1, <2>2 DEF Arena
  <2>6. OnStack' = OnStack \cup {b}
    BY <1>1, <2>1, <2>2, <2>5 DEF OnStack
  <2>7. b \notin OnStack /\ b \notin InCall /\ b \notin HeapIds
    BY <2>1, BlockFacts DEF Inv, BlocksPartitioned
  <2>8. \A i, j \in 0..(g_free_top' - 1) :
          g_free_stack'[i] = g_free_stack'[j] => i = j
    <3>1. \A i \in 0..(g_free_top - 1) : g_free_stack[i] # b
      BY <2>7 DEF OnStack
    <3> QED
      BY <1>1, <2>2, <2>5, <3>1 DEF Inv, BlocksPartitioned
  <2> QED
    BY <2>1, <2>3, <2>4, <2>6, <2>7, <2>8 DEF Inv, BlocksPartitioned
<1>8. ASSUME NEW t \in Threads, NEW b \in held, Free(t, b)
      PROVE  BlocksPartitioned'
  <2>1. /\ UNCHANGED <<g_free_stack, g_free_top>>
        /\ b \notin Arena /\ held' = held \ {b} /\ heap' = heap \ {b}
        /\ Inside("popped")' = Inside("popped")
        /\ \A u \in Inside("popped") : blk'[u] = blk[u]
    BY <1>1, <1>8 DEF Free, InArena, Goto, Inside
  <2>2. InCall' = InCall /\ OnStack' = OnStack
    BY <2>1 DEF InCall, OnStack
  <2> QED
    BY <2>1, <2>2, <1>8 DEF Inv, BlocksPartitioned
<1> QED
  BY <1>2, <1>3, <1>4, <1>5, <1>6, <1>7, <1>8 DEF Next
-----------------------------------------------------------------------------
(* Remainders: an integer is m times its quotient plus its remainder, and  *)
(* only one remainder fits.                                                *)
LEMMA Division ==
  ASSUME NEW m \in Nat \ {0}, NEW x \in Int
  PROVE  x % m \in 0..(m - 1) /\ x \div m \in Int /\ x = (m * (x \div m)) + (x % m)
BY SMTT(30)

LEMMA Remainder ==
  ASSUME NEW m \in Nat \ {0}, NEW q \in Int, NEW r \in 0..(m - 1)
  PROVE  ((m * q) + r) % m = r
BY SMTT(30)

(* One turn of a counter more or less makes no difference. *)
LEMMA Turn ==
  ASSUME NEW m \in Nat \ {0}, NEW x \in Int
  PROVE  (x + m) % m = x % m /\ (x - m) % m = x % m
<1> DEFINE q == x \div m
           r == x % m
<1>1. r \in 0..(m - 1) /\ q \in Int /\ x = (m * q) + r
  BY Division
<1> HIDE DEF q, r
<1>2. q + 1 \in Int /\ q - 1 \in Int /\ m * q \in Int
  BY <1>1
<1>3. x + m = (m * (q + 1)) + r /\ x - m = (m * (q - 1)) + r
  BY <1>1, <1>2
<1>4. ((m * (q + 1)) + r) % m = r /\ ((m * (q - 1)) + r) % m = r
  BY <1>1, <1>2, Remainder
<1> QED
  BY <1>3, <1>4 DEF r

LEMMA PlusOne ==
  ASSUME NEW m \in Nat \ {0}, NEW x \in Int
  PROVE  (x + 1) % m = IF x % m = m - 1 THEN 0 ELSE (x % m) + 1
<1> DEFINE q == x \div m
           r == x % m
<1>1. r \in 0..(m - 1) /\ q \in Int /\ x = (m * q) + r
  BY Division
<1> HIDE DEF q, r
<1>2. CASE r = m - 1
  <2>1. q + 1 \in Int /\ 0 \in 0..(m - 1) /\ m * q \in Int
    BY <1>1
  <2>2. x + 1 = (m * (q + 1)) + 0
    BY <1>1, <1>2, <2>1
  <2>3. ((m * (q + 1)) + 0) % m = 0
    BY <2>1, Remainder
  <2> QED
    BY <1>2, <2>2, <2>3 DEF r
<1>3. CASE r # m - 1
  <2>1. r + 1 \in 0..(m - 1) /\ m * q \in Int
    BY <1>1, <1>3
  <2>2. x + 1 = (m * q) + (r + 1)
    BY <1>1, <2>1
  <2>3. ((m * q) + (r + 1)) % m = r + 1
    BY <1>1, <2>1, Remainder
  <2> QED
    BY <1>3, <2>2, <2>3 DEF r
<1> QED
  BY <1>2, <1>3

(* Numbers with the same remainder keep it when both go up or both down.   *)
LEMMA UpTogether ==
  ASSUME NEW m \in Nat \ {0}, NEW x \in Int, NEW y \in Int, x % m = y % m
  PROVE  (x + 1) % m = (y + 1) % m
BY PlusOne

LEMMA DownTogether ==
  ASSUME NEW m \in Nat \ {0}, NEW x \in Int, NEW y \in Int, x % m = y % m
  PROVE  (x - 1) % m = (y - 1) % m
<1>1. ASSUME NEW z \in Int
      PROVE  z % m = IF (z - 1) % m = m - 1 THEN 0 ELSE ((z - 1) % m) + 1
  <2>1. z - 1 \in Int /\ (z - 1) + 1 = z
    OBVIOUS
  <2> QED
    BY <2>1, PlusOne
<1>2. (x - 1) % m \in 0..(m - 1) /\ (y - 1) % m \in 0..(m - 1)
  <2>1. x - 1 \in Int /\ y - 1 \in Int
    OBVIOUS
  <2> QED
    BY <2>1, Division
<1> DEFINE a == (x - 1) % m
           b == (y - 1) % m
<1>3. (IF a = m - 1 THEN 0 ELSE a + 1) = (IF b = m - 1 THEN 0 ELSE b + 1)
  BY <1>1
<1>4. a \in 0..(m - 1) /\ b \in 0..(m - 1)
  BY <1>2
<1> HIDE DEF a, b
<1>5. a = b
  BY <1>3, <1>4
<1> QED
  BY <1>5 DEF a, b
-----------------------------------------------------------------------------
LEMMA InitInv == Init => Inv
<1> SUFFICES ASSUME Init PROVE Inv
  OBVIOUS
<1> USE PoolAssumption DEF Init
<1>1. TypeOK
  BY DEF TypeOK, Arena
<1>2. OnStack = Arena
  BY DEF OnStack, Arena
<1>3. Inside("popped") = {} /\ InCall = {}
  BY DEF Inside, InCall
<1> QED
  BY <1>1, <1>2, <1>3 DEF Inv, BlocksPartitioned, Arena

LEMMA InvHolds == Spec => []Inv
<1>1. Inv /\ [Next]_vars => Inv'
  BY TypeStep, PartitionStep DEF Inv
<1> QED
  BY InitInv, <1>1, PTL DEF Spec

(* Every variable keeps its type: mp_alloc and mp_free never index outside *)
(* the stack and only indices of the arena are pushed.                     *)
THEOREM TypeCorrect == Spec => []TypeOK
BY InvHolds, PTL DEF Inv

(* No interleaving of mp_alloc and mp_free hands a block out twice or      *)
(* loses one.                                                              *)
THEOREM NoBlockSharedOrLost == Spec => []BlocksPartitioned
BY InvHolds, PTL DEF Inv
-----------------------------------------------------------------------------
(* What the counters are compared with can be counted. *)
Outstanding == Cardinality(held) + Cardinality(Inside("pushed")) + failed
Counted == /\ IsFiniteSet(held) /\ IsFiniteSet(Inside("pushed"))
           /\ (g_allocs - g_frees) % U64 = Outstanding % U64

LEMMA CountTypes ==
  ASSUME TypeOK, Counted
  PROVE  /\ Cardinality(held) \in Nat /\ Cardinality(Inside("pushed")) \in Nat
         /\ Outstanding \in Int /\ g_allocs - g_frees \in Int
         /\ g_allocs \in 0..(U64 - 1) /\ g_frees \in 0..(U64 - 1) /\ failed \in 0..(U64 - 1)
         /\ U64 \in Nat \ {0}
<1>1. Cardinality(held) \in Nat /\ Cardinality(Inside("pushed")) \in Nat
  BY FS_CardinalityType DEF Counted
<1>2. /\ g_allocs \in 0..(U64 - 1) /\ g_frees \in 0..(U64 - 1) /\ failed \in 0..(U64 - 1)
      /\ U64 \in Nat \ {0}
  BY PoolAssumption DEF TypeOK
<1> QED
  BY <1>1, <1>2 DEF Outstanding

LEMMA IncIs ==
  ASSUME NEW n \in 0..(U64 - 1)
  PROVE  Inc(n) = n + 1 \/ Inc(n) = (n + 1) - U64
<1>1. n % U64 = n
  <2>1. U64 \in Nat \ {0} /\ 0 \in Int /\ (U64 * 0) + n = n
    BY PoolAssumption
  <2> QED
    BY <2>1, Remainder
<1>2. U64 \in Nat \ {0} /\ n \in Int
  BY PoolAssumption
<1>3. Inc(n) = IF n % U64 = U64 - 1 THEN 0 ELSE (n % U64) + 1
  BY <1>2, PlusOne DEF Inc
<1>4. Inc(n) = IF n = U64 - 1 THEN 0 ELSE n + 1
  BY <1>1, <1>3
<1> QED
  BY <1>2, <1>4

(* A counter that goes up, or wraps, is one up as a remainder. *)
LEMMA CountUp ==
  ASSUME NEW n \in 0..(U64 - 1), NEW k \in Int
  PROVE  /\ (Inc(n) + k) % U64 = ((n + k) + 1) % U64
         /\ (k - Inc(n)) % U64 = ((k - n) - 1) % U64
<1>1. U64 \in Nat \ {0} /\ (n + k) + 1 \in Int /\ (k - n) - 1 \in Int
  BY PoolAssumption
<1>2. CASE Inc(n) = n + 1
  <2>1. Inc(n) + k = (n + k) + 1 /\ k - Inc(n) = (k - n) - 1
    BY <1>1, <1>2
  <2> QED
    BY <2>1
<1>3. CASE Inc(n) = (n + 1) - U64
  <2>1. /\ Inc(n) + k = ((n + k) + 1) - U64
        /\ k - Inc(n) = ((k - n) - 1) + U64
    BY <1>1, <1>3
  <2> QED
    BY <1>1, <2>1, Turn
<1> QED
  BY <1>2, <1>3, IncIs

(* Who waits to count its mp_free, when one thread enters or leaves. *)
LEMMA PushedBy ==
  ASSUME TypeOK, NEW t \in Threads, NEW l, NEW b, Goto(t, l, b)
  PROVE  /\ l # "pushed" => Inside("pushed")' = Inside("pushed") \ {t}
         /\ l = "pushed" => Inside("pushed")' = Inside("pushed") \cup {t}
BY DEF TypeOK, Goto, Inside

LEMMA CountStep == Inv /\ Counted /\ [Next]_vars => Counted'
<1> SUFFICES ASSUME Inv, Counted, [Next]_vars PROVE Counted'
  OBVIOUS
<1> DEFINE P == Inside("pushed")
<1>1. /\ TypeOK
      /\ Cardinality(held) \in Nat /\ Cardinality(P) \in Nat
      /\ Outstanding \in Int /\ g_allocs - g_frees \in Int
      /\ g_allocs \in 0..(U64 - 1) /\ g_frees \in 0..(U64 - 1) /\ failed \in 0..(U64 - 1)
      /\ U64 \in Nat \ {0}
      /\ IsFiniteSet(held) /\ IsFiniteSet(P)
      /\ (g_allocs - g_frees) % U64 = Outstanding % U64
  BY CountTypes DEF Inv, Counted
<1>2. CASE UNCHANGED vars
  BY <1>2 DEF vars, Counted, Outstanding, Inside
<1>3. ASSUME NEW t \in Threads, Pop(t) \/ FindEmpty(t) \/ Malloc(t) PROVE Counted'
  <2>1. UNCHANGED <<held, g_allocs, g_frees, failed>> /\ t \notin P
    BY <1>3 DEF Pop, FindEmpty, Malloc, Inside
  <2>2. \E l, b : l # "pushed" /\ Goto(t, l, b)
    BY <1>3 DEF Pop, FindEmpty, Malloc
  <2>3. P' = P
    BY <1>1, <2>1, <2>2, PushedBy
  <2> QED
    BY <2>1, <2>3 DEF Counted, Outstanding
<1>4. ASSUME NEW t \in Threads, AllocReturns(t) PROVE Counted'
  <2>1. UNCHANGED g_frees /\ t \notin P /\ g_allocs' = Inc(g_allocs) /\ Goto(t, "out", NULL)
    BY <1>4 DEF AllocReturns, CountCall, Inside
  <2>2. P' = P \ {t}
    BY <1>1, <2>1, PushedBy
  <2>5. P' = P
    BY <2>1, <2>2
  <2>3. (g_allocs' - g_frees') % U64 = ((g_allocs - g_frees) + 1) % U64
    <3>1. - g_frees \in Int /\ Inc(g_allocs) \in Int
      BY <1>1, IncIs
    <3>2. (Inc(g_allocs) + (- g_frees)) % U64 = ((g_allocs + (- g_frees)) + 1) % U64
      BY <1>1, <3>1, CountUp
    <3>3. /\ Inc(g_allocs) + (- g_frees) = g_allocs' - g_frees'
          /\ (g_allocs + (- g_frees)) + 1 = (g_allocs - g_frees) + 1
      BY <1>1, <2>1, <3>1
    <3> QED
      BY <3>2, <3>3
  <2>4. IsFiniteSet(held') /\ Outstanding' % U64 = (Outstanding + 1) % U64
    <3>1. CASE blk[t] = NULL
      <4> DEFINE k == Cardinality(held) + Cardinality(P)
      <4>1. held' = held /\ failed' = Inc(failed) /\ k \in Int
        BY <1>1, <1>4, <3>1 DEF AllocReturns
      <4>2. Inc(failed) \in Int
        BY <1>1, IncIs
      <4>3. (Inc(failed) + k) % U64 = ((failed + k) + 1) % U64
        BY <1>1, <4>1, CountUp
      <4>4. Outstanding' = Inc(failed) + k /\ Outstanding + 1 = (failed + k) + 1
        BY <1>1, <2>5, <4>1, <4>2 DEF Outstanding
      <4> QED
        BY <1>1, <4>1, <4>3, <4>4
    <3>2. CASE blk[t] # NULL
      <4>1. held' = held \cup {blk[t]} /\ failed' = failed
        BY <1>4, <3>2 DEF AllocReturns
      <4>2. blk[t] \in InCall
        BY <1>4, <3>2 DEF AllocReturns, InCall, Inside
      <4>3. blk[t] \notin held
        BY <4>2 DEF Inv, BlocksPartitioned
      <4>4. IsFiniteSet(held') /\ Cardinality(held') = Cardinality(held) + 1
        BY <1>1, <4>1, <4>3, FS_AddElement
      <4>5. Outstanding' = Outstanding + 1
        BY <1>1, <2>5, <4>1, <4>4 DEF Outstanding
      <4> QED
        BY <4>4, <4>5
    <3> QED
      BY <3>1, <3>2
  <2> QED
    BY <1>1, <2>5, <2>3, <2>4, UpTogether DEF Counted
<1>5. ASSUME NEW t \in Threads, NEW b \in held, Push(t, b) \/ Free(t, b) PROVE Counted'
  <2>1. /\ UNCHANGED <<g_allocs, g_frees, failed>> /\ t \notin P
        /\ held' = held \ {b} /\ Goto(t, "pushed", NULL)
    BY <1>5 DEF Push, Free, Inside
  <2>2. P' = P \cup {t}
    BY <1>1, <2>1, PushedBy
  <2>3. IsFiniteSet(P') /\ Cardinality(P') = Cardinality(P) + 1
    BY <1>1, <2>1, <2>2, FS_AddElement
  <2>4. IsFiniteSet(held') /\ Cardinality(held') = Cardinality(held) - 1
    BY <1>1, <2>1, FS_RemoveElement
  <2>5. Outstanding' = Outstanding
    BY <1>1, <2>1, <2>3, <2>4 DEF Outstanding
  <2> QED
    BY <1>1, <2>1, <2>3, <2>4, <2>5 DEF Counted
<1>6. ASSUME NEW t \in Threads, FreeReturns(t) PROVE Counted'
  <2>1. /\ UNCHANGED <<g_allocs, held, failed>> /\ t \in P
        /\ g_frees' = Inc(g_frees) /\ Goto(t, "out", NULL)
    BY <1>6 DEF FreeReturns, Inside
  <2>2. P' = P \ {t}
    BY <1>1, <2>1, PushedBy
  <2>3. IsFiniteSet(P') /\ Cardinality(P') = Cardinality(P) - 1
    BY <1>1, <2>1, <2>2, FS_RemoveElement
  <2>4. Outstanding' = Outstanding - 1
    BY <1>1, <2>1, <2>3 DEF Outstanding
  <2>5. (g_allocs' - g_frees') % U64 = ((g_allocs - g_frees) - 1) % U64
    BY <1>1, <2>1, CountUp
  <2> QED
    BY <1>1, <2>1, <2>3, <2>4, <2>5, DownTogether DEF Counted
<1> QED
  BY <1>2, <1>3, <1>4, <1>5, <1>6 DEF Next

(* mempool.c:92: allocs minus frees, as showpool prints it, is the blocks  *)
(* in use, the frees not yet counted and every malloc that failed, however *)
(* the unlocked updates interleave and however often the counters wrap.    *)
THEOREM CountersRight == Spec => []CountersAgree
<1>1. Init => Counted
  <2> SUFFICES ASSUME Init PROVE Counted
    OBVIOUS
  <2>1. held = {} /\ Inside("pushed") = {} /\ g_allocs - g_frees = 0 /\ failed = 0
    BY DEF Init, Inside
  <2>2. Outstanding = 0
    BY <2>1, FS_EmptySet DEF Outstanding
  <2> QED
    BY <2>1, <2>2, FS_EmptySet DEF Counted
<1>2. Counted => CountersAgree
  BY DEF Counted, Outstanding, CountersAgree
<1> QED
  BY InvHolds, CountStep, <1>1, <1>2, PTL DEF Spec
=============================================================================
