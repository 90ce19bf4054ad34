--------------------------- MODULE ArpTableProofs ---------------------------
(* Proofs about the ARP cache for every number of slots, buckets and       *)
(* threads, and every hash function.  A table is sound if a rank can be    *)
(* given to each slot in use that falls along the links of its chain;      *)
(* every operation has a lemma that says what it makes of a sound table,   *)
(* and the refinement of ArpCache needs nothing else about the links.      *)
EXTENDS ArpTable, FiniteSetTheorems, FunctionTheorems, WellFoundedInduction, TLAPS

(* A set of numbers that is not empty has a least element.                 *)
LEMMA Minimum ==
  ASSUME NEW S \in SUBSET Nat, S # {}
  PROVE  \E x \in S : \A y \in S : x <= y
<1>1. IsWellFoundedOn(OpToRel(<, Nat), Nat)
  BY NatLessThanWellFounded
<1>2. PICK x \in S : \A y \in S : ~ (<<y, x>> \in OpToRel(<, Nat))
  BY ONLY <1>1, WFMin, S \in SUBSET Nat, S # {}
<1>3. \A y \in S : y \in Nat /\ x \in Nat /\ ~ (y < x)
  BY <1>2 DEF OpToRel
<1> QED
  BY <1>3

(* A set of numbers that has 0, and with each number the next, has all up  *)
(* to N: induction over the steps of a loop.                               *)
LEMMA Climb ==
  ASSUME NEW N \in Nat, NEW S, 0 \in S, \A n \in 1..N : n - 1 \in S => n \in S
  PROVE  0..N \subseteq S
<1> DEFINE Bad == {n \in 0..N : n \notin S}
<1> SUFFICES ASSUME Bad # {} PROVE FALSE
  OBVIOUS
<1>1. PICK x \in Bad : \A y \in Bad : x <= y
  BY Minimum, Bad \in SUBSET Nat
<1>2. x \in 1..N /\ x - 1 \notin Bad
  BY <1>1
<1> QED
  BY <1>1, <1>2

(* f is what N steps of a loop pass through, from state a on, when step n  *)
(* takes a state s of X to F[n][s]; every loop has such an f.              *)
Loop(N, X, a, F, f) == /\ f \in [0..N -> X]
                       /\ f[0] = a
                       /\ \A n \in 1..N : f[n] = F[n][f[n - 1]]

LEMMA LoopRuns ==
  ASSUME NEW N \in Nat, NEW X, NEW a \in X, NEW F \in [1..N -> [X -> X]]
  PROVE  \E f : Loop(N, X, a, F, f)
<1> SUFFICES \E f \in [0..N -> X] : f[0] = a /\ \A n \in 1..N : f[n] = F[n][f[n - 1]]
  BY DEF Loop
<1> DEFINE Run(m, f) == f[0] = a /\ \A n \in 1..m : f[n] = F[n][f[n - 1]]
           S == {m \in 0..N : \E f \in [0..m -> X] : Run(m, f)}
<1>1. 0 \in S
  <2>1. [n \in 0..0 |-> a] \in [0..0 -> X] /\ Run(0, [n \in 0..0 |-> a])
    OBVIOUS
  <2>2. \E f \in [0..0 -> X] : Run(0, f)
    <3> HIDE DEF Run
    <3> QED
      BY <2>1
  <2> HIDE DEF Run
  <2> QED
    BY <2>2
<1>2. ASSUME NEW m \in 1..N, m - 1 \in S PROVE m \in S
  <2>1. PICK f \in [0..(m - 1) -> X] : Run(m - 1, f)
    BY <1>2
  <2> DEFINE g == [n \in 0..m |-> IF n = m THEN F[m][f[m - 1]] ELSE f[n]]
  <2>2. F[m][f[m - 1]] \in X
    <3>1. m - 1 \in 0..(m - 1) /\ F[m] \in [X -> X]
      OBVIOUS
    <3> QED
      BY <3>1
  <2>3. g \in [0..m -> X]
    BY <2>2
  <2>4. g[0] = a
    BY <2>1
  <2>5. ASSUME NEW n \in 1..m PROVE g[n] = F[n][g[n - 1]]
    <3>1. CASE n = m
      <4>1. n - 1 \in 0..m /\ n - 1 # m /\ n \in 0..m
        BY <3>1
      <4>2. g[n - 1] = f[m - 1] /\ g[n] = F[m][f[m - 1]]
        BY <4>1, <3>1
      <4> QED
        BY <4>2, <3>1
    <3>2. CASE n # m
      <4>1. n \in 1..(m - 1) /\ n \in 0..m /\ n - 1 \in 0..m /\ n - 1 # m
        BY <3>2
      <4>2. g[n] = f[n] /\ g[n - 1] = f[n - 1]
        BY <4>1, <3>2
      <4> QED
        BY <4>1, <4>2, <2>1
    <3> QED
      BY <3>1, <3>2
  <2>6. Run(m, g)
    <3> HIDE DEF g
    <3> QED
      BY <2>4, <2>5
  <2>7. \E k \in [0..m -> X] : Run(m, k)
    <3> HIDE DEF g, Run
    <3> QED
      BY <2>3, <2>6
  <2> HIDE DEF Run
  <2> QED
    BY <2>7
<1>3. N \in S
  <2> HIDE DEF S
  <2>1. 0..N \subseteq S
    BY <1>1, <1>2, Climb
  <2> QED
    BY <2>1
<1> QED
  BY <1>3

Entries == [ip : Ips \cup {NoKey}, ifidx : Ifs \cup {NoKey}, mac : Macs \cup {NoMac},
            seen : 0..MaxClock, used : BOOLEAN, next : Slots \cup {Nil}]
Tables == [e : [Slots -> Entries], b : [Buckets -> Slots \cup {Nil}]]

NextOf(e, s) == IF s = Nil THEN Nil ELSE e[s].next

(* Walk is what its recursion says. *)
LEMMA WalkSteps ==
  ASSUME NEW e \in [Slots -> Entries],
         NEW b \in [Buckets -> Slots \cup {Nil}], NEW h \in Buckets
  PROVE  /\ Walk(e, b, h) \in [0..ARP_CAP -> Slots \cup {Nil}]
         /\ Walk(e, b, h)[0] = b[h]
         /\ \A n \in 1..ARP_CAP : Walk(e, b, h)[n] = NextOf(e, Walk(e, b, h)[n - 1])
<1> DEFINE X == Slots \cup {Nil}
           F == [n \in 1..ARP_CAP |-> [s \in X |-> NextOf(e, s)]]
<1> ARP_CAP \in Nat
  BY ArpAssumption
<1>1. F \in [1..ARP_CAP -> [X -> X]]
  BY DEF NextOf, Entries
<1>2. PICK f : Loop(ARP_CAP, X, b[h], F, f)
  BY <1>1, b[h] \in X, LoopRuns
<1>5. ASSUME NEW n \in 1..ARP_CAP PROVE f[n] = NextOf(e, f[n - 1]) /\ n - 1 \in 0..ARP_CAP
  <2>1. n - 1 \in 0..ARP_CAP
    OBVIOUS
  <2>2. f[n - 1] \in X
    BY <1>2, <2>1 DEF Loop
  <2> QED
    BY <1>2, <2>1, <2>2 DEF Loop
<1>3. f = [n \in 0..ARP_CAP |-> IF n = 0 THEN b[h] 
             ELSE IF f[n - 1] = Nil THEN Nil ELSE e[f[n - 1]].next]
  <2> DEFINE g == [n \in 0..ARP_CAP |-> IF n = 0 THEN b[h] 
             ELSE IF f[n - 1] = Nil THEN Nil ELSE e[f[n - 1]].next]
  <2>1. \A n \in 0..ARP_CAP : f[n] = g[n]
    BY <1>2, <1>5 DEF NextOf, Loop
  <2> QED
    BY <1>2, <2>1 DEF Loop
<1>4. Walk(e, b, h) = [n \in 0..ARP_CAP |-> IF n = 0 THEN b[h] 
             ELSE IF Walk(e, b, h)[n - 1] = Nil THEN Nil ELSE e[Walk(e, b, h)[n - 1]].next]
  BY <1>3, Zenon DEF Walk
<1> DEFINE w == Walk(e, b, h)
<1>6. ASSUME NEW n \in 1..ARP_CAP PROVE w[n] = NextOf(e, w[n - 1])
  <2> HIDE DEF w
  <2> QED
    BY <1>4 DEF w, NextOf
<1>7. w[0] = b[h]
  BY <1>4, 0 \in 0..ARP_CAP
<1>8. 0..ARP_CAP \subseteq {n \in 0..ARP_CAP : w[n] \in X}
  <2> HIDE DEF w
  <2> DEFINE S == {n \in 0..ARP_CAP : w[n] \in X}
  <2>1. 0 \in S
    BY <1>7
  <2>2. \A n \in 1..ARP_CAP : n - 1 \in S => n \in S
    BY <1>6 DEF NextOf, Entries
  <2> HIDE DEF S
  <2>3. 0..ARP_CAP \subseteq S
    BY <2>1, <2>2, Climb
  <2> QED
    BY <2>3 DEF S
<1>9. w \in [0..ARP_CAP -> X]
  BY <1>4, <1>8
<1> QED
  BY <1>6, <1>7, <1>9
-----------------------------------------------------------------------------
Hash(T, s) == hash_ip[T.e[s].ip]

(* The slots of U are linked: a bucket leads to slots of its own, every    *)
(* slot is led to, and ranks fall along the links, so no chain is a loop.  *)
Heads(T, U) == \A h \in Buckets : T.b[h] # Nil => T.b[h] \in U /\ Hash(T, T.b[h]) = h
Links(T, U) == \A s \in U : T.e[s].next # Nil =>
                 T.e[s].next \in U /\ Hash(T, T.e[s].next) = Hash(T, s)
Reached(T, U) == \A s \in U : T.b[Hash(T, s)] = s \/ \E x \in U : T.e[x].next = s
Falling(T, U, r) == \A s \in U : T.e[s].next # Nil => r[T.e[s].next] < r[s]
Linked(T, U, r) == /\ \A s \in U : T.e[s].ip \in Ips
                   /\ Heads(T, U) /\ Links(T, U) /\ Reached(T, U) /\ Falling(T, U, r)

LEMMA SlotFacts == /\ ARP_CAP \in Nat /\ ARP_CAP > 0 /\ Nil \notin Slots
                   /\ IsFiniteSet(Slots) /\ Cardinality(Slots) = ARP_CAP
                   /\ 0 \in Slots /\ Slots \in SUBSET Nat
<1>1. ARP_CAP \in Nat /\ ARP_CAP > 0
  BY ArpAssumption
<1>2. Nil \notin Slots /\ 0 \in Slots /\ Slots \in SUBSET Nat
  BY <1>1 DEF Nil, Slots
<1>3. IsFiniteSet(Slots) /\ Cardinality(Slots) = ARP_CAP
  <2>1. 0 \in Int /\ ARP_CAP - 1 \in Int /\ ~(0 > ARP_CAP - 1)
    BY <1>1
  <2>2. IsFiniteSet(0..(ARP_CAP - 1)) /\ Cardinality(0..(ARP_CAP - 1)) = (ARP_CAP - 1) - 0 + 1
    BY <2>1, FS_Interval
  <2> QED
    BY <1>1, <2>2 DEF Slots
<1> QED
  BY <1>1, <1>2, <1>3

(* An unsigned difference that does not wrap. *)
LEMMA ModSmall == ASSUME NEW a \in Nat, NEW m \in Nat, a < m PROVE a % m = a
  BY SMTT(30)

(* What a walk meets along the way: slots of the bucket, each of a lower   *)
(* rank than those before it.                                              *)
LEMMA WalkDescends ==
  ASSUME NEW T \in Tables, NEW U \in SUBSET Slots, NEW r \in [Slots -> Nat],
         Linked(T, U, r), NEW h \in Buckets,
         NEW n \in 0..ARP_CAP, Walk(T.e, T.b, h)[n] # Nil
  PROVE  /\ Walk(T.e, T.b, h)[n] \in U /\ Hash(T, Walk(T.e, T.b, h)[n]) = h
         /\ \A m \in 0..(n - 1) : /\ Walk(T.e, T.b, h)[m] \in U
                                  /\ r[Walk(T.e, T.b, h)[n]] < r[Walk(T.e, T.b, h)[m]]
<1> DEFINE w == Walk(T.e, T.b, h)
           Good(k) == w[k] # Nil => /\ w[k] \in U /\ Hash(T, w[k]) = h
                                    /\ \A m \in 0..(k - 1) : w[m] \in U /\ r[w[k]] < r[w[m]]
           S == {k \in 0..ARP_CAP : Good(k)}
<1>1. /\ w \in [0..ARP_CAP -> Slots \cup {Nil}]
      /\ w[0] = T.b[h]
      /\ \A k \in 1..ARP_CAP : w[k] = NextOf(T.e, w[k - 1])
  BY WalkSteps DEF Tables
<1> HIDE DEF w
<1>2. 0 \in S
  BY <1>1, SlotFacts DEF Linked, Heads
<1>3. ASSUME NEW k \in 1..ARP_CAP, k - 1 \in S PROVE k \in S
  <2> SUFFICES ASSUME w[k] # Nil PROVE Good(k)
    BY SlotFacts
  <2>1. w[k] = NextOf(T.e, w[k - 1])
    BY <1>1
  <2>2. w[k - 1] # Nil /\ w[k] = T.e[w[k - 1]].next
    BY <2>1 DEF NextOf
  <2>3. w[k - 1] \in U /\ Hash(T, w[k - 1]) = h
    BY <1>3, <2>2
  <2>4. w[k] \in U /\ Hash(T, w[k]) = h /\ r[w[k]] < r[w[k - 1]]
    BY <2>2, <2>3 DEF Linked, Links, Falling
  <2>5. ASSUME NEW m \in 0..(k - 1) PROVE w[m] \in U /\ r[w[k]] < r[w[m]]
    <3>1. CASE m = k - 1
      BY <3>1, <2>3, <2>4
    <3>2. CASE m # k - 1
      <4>1. m \in 0..((k - 1) - 1)
        BY <3>2
      <4>2. w[m] \in U /\ r[w[k - 1]] < r[w[m]]
        BY <4>1, <1>3, <2>2
      <4>3. r[w[m]] \in Nat /\ r[w[k]] \in Nat /\ r[w[k - 1]] \in Nat
        BY <4>2, <2>3, <2>4
      <4> QED
        BY <4>2, <4>3, <2>4
    <3> QED
      BY <3>1, <3>2
  <2> QED
    BY <2>4, <2>5
<1>4. n \in S
  <2> HIDE DEF S
  <2> QED
    BY <1>2, <1>3, Climb, SlotFacts
<1> QED
  BY <1>4 DEF w

(* Every walk ends: it would have to meet more slots than there are.       *)
LEMMA WalkEnds ==
  ASSUME NEW T \in Tables, NEW U \in SUBSET Slots, NEW r \in [Slots -> Nat],
         Linked(T, U, r), NEW h \in Buckets
  PROVE  Walk(T.e, T.b, h)[ARP_CAP] = Nil
<1> DEFINE w == Walk(T.e, T.b, h)
<1> SUFFICES ASSUME w[ARP_CAP] # Nil PROVE FALSE
  OBVIOUS
<1>1. w \in [0..ARP_CAP -> Slots \cup {Nil}]
  BY WalkSteps DEF Tables
<1>2. ARP_CAP \in 0..ARP_CAP
  BY SlotFacts
<1>3. w[ARP_CAP] \in U /\ \A m \in 0..(ARP_CAP - 1) : w[m] \in U
  BY <1>2, WalkDescends
<1>4. \A m \in 0..ARP_CAP : w[m] \in U
  BY <1>3, SlotFacts
<1>5. \A n \in 0..ARP_CAP : \A m \in 0..(n - 1) : r[w[n]] < r[w[m]]
  <2> SUFFICES ASSUME NEW n \in 0..ARP_CAP PROVE \A m \in 0..(n - 1) : r[w[n]] < r[w[m]]
    OBVIOUS
  <2>1. w[n] # Nil
    BY <1>4, SlotFacts
  <2> QED
    BY <2>1, WalkDescends
<1> HIDE DEF w
<1>6. w \in [0..ARP_CAP -> Slots]
  BY <1>1, <1>4
<1>7. /\ IsFiniteSet(0..ARP_CAP) /\ Cardinality(0..ARP_CAP) = ARP_CAP + 1
  <2>1. 0 \in Int /\ ARP_CAP \in Int /\ ~(0 > ARP_CAP)
    BY SlotFacts
  <2>2. IsFiniteSet(0..ARP_CAP) /\ Cardinality(0..ARP_CAP) = ARP_CAP - 0 + 1
    BY <2>1, FS_Interval
  <2> QED
    BY <2>2, SlotFacts
<1>8. PICK x \in 0..ARP_CAP, y \in 0..ARP_CAP : x # y /\ w[x] = w[y]
  <2>1. Cardinality(Slots) < Cardinality(0..ARP_CAP)
    BY <1>7, SlotFacts
  <2>2. \E x, y \in 0..ARP_CAP : x # y /\ w[x] = w[y]
    BY <2>1, <1>6, <1>7, SlotFacts, FS_PigeonHole
  <2> QED
    BY <2>2
<1>9. x \in 0..(y - 1) \/ y \in 0..(x - 1)
  BY <1>8
<1>10. r[w[x]] \in Nat
  BY <1>4
<1> QED
  BY <1>5, <1>8, <1>9, <1>10

(* The chain of a bucket is what is linked there.                          *)
LEMMA ChainIs ==
  ASSUME NEW T \in Tables, NEW U \in SUBSET Slots,
         NEW B \in Nat, NEW r \in [Slots -> 0..B], Linked(T, U, r), NEW h \in Buckets
  PROVE  Chain(T.e, T.b, h) = {s \in U : Hash(T, s) = h}
<1> DEFINE w == Walk(T.e, T.b, h)
           Home == {s \in U : Hash(T, s) = h}
<1> r \in [Slots -> Nat]
  OBVIOUS
<1>1. /\ w \in [0..ARP_CAP -> Slots \cup {Nil}]
      /\ w[0] = T.b[h]
      /\ \A k \in 1..ARP_CAP : w[k] = NextOf(T.e, w[k - 1])
  BY WalkSteps DEF Tables
<1>2. \A n \in 0..ARP_CAP : w[n] # Nil => w[n] \in Home
  BY WalkDescends
<1>3. w[ARP_CAP] = Nil
  BY WalkEnds
<1> HIDE DEF w
<1>4. Chain(T.e, T.b, h) = {w[n] : n \in 0..ARP_CAP} \ {Nil}
  BY DEF Chain, w
<1>5. Chain(T.e, T.b, h) \subseteq Home
  BY <1>2, <1>4
<1>6. Home \subseteq Chain(T.e, T.b, h)
  <2> DEFINE Missed == Home \ Chain(T.e, T.b, h)
             Under == {B - r[s] : s \in Missed}
  <2> SUFFICES ASSUME Missed # {} PROVE FALSE
    OBVIOUS
  <2>1. PICK s \in Missed : \A x \in Missed : r[x] <= r[s]
    <3>1. \A s \in Missed : r[s] \in 0..B /\ B - r[s] \in Nat
      OBVIOUS
    <3>2. Under \in SUBSET Nat /\ Under # {}
      BY <3>1
    <3>3. PICK u \in Under : \A y \in Under : u <= y
      <4> HIDE DEF Under
      <4> QED
        BY <3>2, Minimum
    <3>4. PICK s \in Missed : u = B - r[s]
      BY <3>3
    <3>5. ASSUME NEW x \in Missed PROVE r[x] <= r[s]
      <4>1. B - r[s] <= B - r[x]
        BY <3>3, <3>4
      <4> QED
        BY <4>1, <3>1
    <3> QED
      BY <3>4, <3>5
  <2>2. s \in U /\ Hash(T, s) = h /\ s # Nil
    BY SlotFacts
  <2>3. T.b[h] # s
    <3>1. 0 \in 0..ARP_CAP /\ w[0] # s
      BY <1>4, <2>2, SlotFacts
    <3> QED
      BY <3>1, <1>1
  <2>4. PICK x \in U : T.e[x].next = s
    BY <2>2, <2>3 DEF Linked, Reached
  <2>5. Hash(T, x) = h /\ r[s] < r[x]
    BY <2>2, <2>4 DEF Linked, Links, Falling
  <2>6. x \in Chain(T.e, T.b, h)
    <3> SUFFICES ASSUME x \in Missed PROVE FALSE
      BY <2>5
    <3>1. r[x] <= r[s] /\ r[x] \in Nat /\ r[s] \in Nat
      BY <2>1, <2>2
    <3> QED
      BY <3>1, <2>5
  <2>7. PICK n \in 0..ARP_CAP : w[n] = x
    BY <2>6, <1>4
  <2>8. n # ARP_CAP
    BY <2>7, <1>3, SlotFacts
  <2>9. n + 1 \in 1..ARP_CAP /\ (n + 1) - 1 = n
    BY <2>8, SlotFacts
  <2>10. w[n + 1] = s
    BY <1>1, <2>4, <2>7, <2>9, SlotFacts DEF NextOf
  <2> QED
    BY <2>2, <2>9, <2>10, <1>4
<1> QED
  BY <1>5, <1>6
-----------------------------------------------------------------------------
Ranked(T, U) == \E B \in Nat : \E r \in [Slots -> 0..B] : Linked(T, U, r)

(* Slot x holds the same in two tables, whatever it is linked to. *)
Same(T, W, x) == /\ W.e[x].ip = T.e[x].ip /\ W.e[x].ifidx = T.e[x].ifidx
                 /\ W.e[x].mac = T.e[x].mac /\ W.e[x].seen = T.e[x].seen
                 /\ W.e[x].used = T.e[x].used

(* What bucket_remove_locked makes of the links, if the slot is linked. *)
Unlinked(T, W, U, s) ==
  /\ W \in Tables
  /\ \A x \in Slots : /\ Same(T, W, x)
                      /\ W.e[x].next = IF x \in U /\ T.e[x].next = s
                                       THEN T.e[s].next ELSE T.e[x].next
  /\ \A h \in Buckets : W.b[h] = IF T.b[h] = s THEN T.e[s].next ELSE T.b[h]

LEMMA UnlinkIs ==
  ASSUME NEW T \in Tables, NEW U \in SUBSET Slots,
         NEW B \in Nat, NEW r \in [Slots -> 0..B], Linked(T, U, r), NEW s \in U
  PROVE  Unlinked(T, Unlink(T, s), U, s)
<1> DEFINE h == Hash(T, s)
           before == {x \in Chain(T.e, T.b, h) : T.e[x].next = s}
           e == [x \in Slots |-> IF x \in before
                                 THEN [T.e[x] EXCEPT !.next = T.e[s].next] ELSE T.e[x]]
           b == [T.b EXCEPT ![h] = IF @ = s THEN T.e[s].next ELSE @]
<1>1. Unlink(T, s) = [e |-> e, b |-> b]
  BY DEF Unlink, Table, Hash
<1>2. h \in Buckets /\ T.e[s].ip \in Ips
  BY ArpAssumption DEF Hash, Linked
<1>3. before = {x \in U : T.e[x].next = s}
  <2>1. Chain(T.e, T.b, h) = {x \in U : Hash(T, x) = h}
    BY <1>2, ChainIs
  <2>2. \A x \in U : T.e[x].next = s => Hash(T, x) = h
    BY SlotFacts DEF Linked, Links
  <2> QED
    BY <2>1, <2>2
<1>4. T.e \in [Slots -> Entries] /\ T.b \in [Buckets -> Slots \cup {Nil}]
  BY DEF Tables
<1>5. T.e[s].next \in Slots \cup {Nil}
  BY <1>4 DEF Entries
<1> HIDE DEF before
<1>6. e \in [Slots -> Entries]
  BY <1>4, <1>5 DEF Entries
<1>7. b \in [Buckets -> Slots \cup {Nil}]
  BY <1>4, <1>5
<1>8. \A x \in Slots : /\ e[x].ip = T.e[x].ip /\ e[x].ifidx = T.e[x].ifidx
                       /\ e[x].mac = T.e[x].mac /\ e[x].seen = T.e[x].seen
                       /\ e[x].used = T.e[x].used
  BY <1>4 DEF Entries
<1>9. \A x \in Slots : e[x].next = IF x \in U /\ T.e[x].next = s
                                   THEN T.e[s].next ELSE T.e[x].next
  BY <1>3, <1>4 DEF Entries
<1>10. \A g \in Buckets : b[g] = IF T.b[g] = s THEN T.e[s].next ELSE T.b[g]
  <2> SUFFICES ASSUME NEW g \in Buckets
               PROVE  b[g] = IF T.b[g] = s THEN T.e[s].next ELSE T.b[g]
    OBVIOUS
  <2>1. T.b[g] = s => g = h
    BY SlotFacts DEF Linked, Heads
  <2> QED
    BY <2>1, <1>2, <1>4
<1> HIDE DEF e, b
<1> QED
  BY <1>1, <1>6, <1>7, <1>8, <1>9, <1>10 DEF Same, Tables, Unlinked

(* The other slots stay linked. *)
LEMMA UnlinkKeeps ==
  ASSUME NEW T \in Tables, NEW U \in SUBSET Slots,
         NEW B \in Nat, NEW r \in [Slots -> 0..B], Linked(T, U, r), NEW s \in U
  PROVE  Linked(Unlink(T, s), U \ {s}, r)
<1> DEFINE W == Unlink(T, s)
<1>1. /\ \A x \in Slots : Same(T, W, x)
      /\ \A x \in U : W.e[x].next = IF T.e[x].next = s THEN T.e[s].next ELSE T.e[x].next
      /\ \A h \in Buckets : W.b[h] = IF T.b[h] = s THEN T.e[s].next ELSE T.b[h]
  <2>1. Unlinked(T, W, U, s)
    BY UnlinkIs
  <2> HIDE DEF W
  <2> QED
    BY <2>1 DEF Unlinked
<1> HIDE DEF W
<1>2. \A x \in Slots : Hash(W, x) = Hash(T, x)
  BY <1>1 DEF Same, Hash
<1>3. T.e[s].next # Nil => /\ T.e[s].next \in U \ {s} /\ Hash(T, T.e[s].next) = Hash(T, s)
                           /\ r[T.e[s].next] < r[s]
  <2> SUFFICES ASSUME T.e[s].next # Nil
               PROVE  /\ T.e[s].next \in U \ {s} /\ Hash(T, T.e[s].next) = Hash(T, s)
                      /\ r[T.e[s].next] < r[s]
    OBVIOUS
  <2>1. T.e[s].next \in U /\ Hash(T, T.e[s].next) = Hash(T, s) /\ r[T.e[s].next] < r[s]
    BY DEF Linked, Links, Falling
  <2>2. r[s] \in Int /\ ~(r[s] < r[s])
    OBVIOUS
  <2> QED
    BY <2>1, <2>2
<1>4. \A x \in U \ {s} : W.e[x].ip \in Ips
  BY <1>1 DEF Same, Linked
<1>5. Heads(W, U \ {s})
  <2> SUFFICES ASSUME NEW h \in Buckets, W.b[h] # Nil
               PROVE  W.b[h] \in U \ {s} /\ Hash(W, W.b[h]) = h
    BY DEF Heads
  <2>1. CASE T.b[h] = s
    <3>1. W.b[h] = T.e[s].next /\ Hash(T, s) = h
      BY <2>1, <1>1, SlotFacts DEF Linked, Heads
    <3> QED
      BY <3>1, <1>2, <1>3
  <2>2. CASE T.b[h] # s
    <3>1. W.b[h] = T.b[h] /\ T.b[h] \in U /\ Hash(T, T.b[h]) = h
      BY <2>2, <1>1 DEF Linked, Heads
    <3> QED
      BY <2>2, <3>1, <1>2
  <2> QED
    BY <2>1, <2>2
<1>6. ASSUME NEW x \in U \ {s}, W.e[x].next # Nil
      PROVE  /\ W.e[x].next \in U \ {s} /\ Hash(W, W.e[x].next) = Hash(W, x)
             /\ r[W.e[x].next] < r[x]
  <2>1. CASE T.e[x].next = s
    <3>1. W.e[x].next = T.e[s].next
      BY <2>1, <1>1
    <3>2. Hash(T, s) = Hash(T, x) /\ r[s] < r[x]
      BY <2>1, SlotFacts DEF Linked, Links, Falling
    <3>3. T.e[s].next \in U \ {s} /\ Hash(T, T.e[s].next) = Hash(T, s) /\ r[T.e[s].next] < r[s]
      BY <3>1, <1>3, <1>6
    <3>4. r[s] \in Nat /\ r[x] \in Nat /\ r[T.e[s].next] \in Nat
      BY <3>3
    <3> QED
      BY <3>1, <3>2, <3>3, <3>4, <1>2
  <2>2. CASE T.e[x].next # s
    <3>1. W.e[x].next = T.e[x].next
      BY <2>2, <1>1
    <3>2. T.e[x].next \in U /\ Hash(T, T.e[x].next) = Hash(T, x) /\ r[T.e[x].next] < r[x]
      BY <3>1, <1>6 DEF Linked, Links, Falling
    <3> QED
      BY <2>2, <3>1, <3>2, <1>2
  <2> QED
    BY <2>1, <2>2
<1>7. Links(W, U \ {s}) /\ Falling(W, U \ {s}, r)
  BY <1>6 DEF Links, Falling
<1>8. Reached(W, U \ {s})
  <2> SUFFICES ASSUME NEW x \in U \ {s}
               PROVE  W.b[Hash(T, x)] = x \/ \E y \in U \ {s} : W.e[y].next = x
    BY <1>2 DEF Reached
  <2>1. Hash(T, x) \in Buckets /\ Hash(T, s) \in Buckets /\ x # Nil /\ s # Nil
    BY ArpAssumption, SlotFacts DEF Hash, Linked
  <2>2. CASE T.b[Hash(T, x)] = x
    BY <2>1, <2>2, <1>1
  <2>3. ASSUME NEW y \in U, T.e[y].next = x, y # s
        PROVE  \E z \in U \ {s} : W.e[z].next = x
    <3>1. y \in U \ {s} /\ W.e[y].next = x
      BY <2>3, <1>1
    <3> QED
      BY <3>1
  <2>4. CASE T.e[s].next = x
    <3>1. Hash(T, s) = Hash(T, x)
      BY <2>1, <2>4, <1>3
    <3>2. CASE T.b[Hash(T, s)] = s
      <4>1. W.b[Hash(T, x)] = x
        BY <2>1, <2>4, <3>1, <3>2, <1>1
      <4> QED
        BY <4>1
    <3>3. ASSUME NEW z \in U, T.e[z].next = s PROVE \E y \in U \ {s} : W.e[y].next = x
      <4>1. z # s
        <5>1. r[s] \in Int /\ ~(r[s] < r[s])
          OBVIOUS
        <5>2. r[s] < r[z]
          BY <3>3, <2>1 DEF Linked, Falling
        <5> QED
          BY <5>1, <5>2
      <4>2. W.e[z].next = x
        BY <3>3, <2>4, <1>1
      <4> QED
        BY <4>1, <4>2
    <3>4. T.b[Hash(T, s)] = s \/ \E z \in U : T.e[z].next = s
      BY DEF Linked, Reached
    <3> QED
      BY <3>2, <3>3, <3>4
  <2>5. T.b[Hash(T, x)] = x \/ \E y \in U : T.e[y].next = x
    BY DEF Linked, Reached
  <2> QED
    BY <2>2, <2>3, <2>4, <2>5
<1> QED
  BY <1>4, <1>5, <1>7, <1>8 DEF Linked, W

(* A slot that is not linked becomes the head of its new bucket. *)
LEMMA LinkKeeps ==
  ASSUME NEW T \in Tables, NEW U \in SUBSET Slots, Ranked(T, U), NEW s \in Slots \ U,
         NEW k \in Keys, NEW m \in Macs, NEW t \in 0..MaxClock
  PROVE  /\ Link(T, s, k, m, t) \in Tables
         /\ Link(T, s, k, m, t).e[s] = [ip |-> k[1], ifidx |-> k[2], mac |-> m, seen |-> t,
                                        used |-> TRUE, next |-> T.b[hash_ip[k[1]]]]
         /\ \A x \in Slots \ {s} : Link(T, s, k, m, t).e[x] = T.e[x]
         /\ Ranked(Link(T, s, k, m, t), U \cup {s})
<1> DEFINE g == hash_ip[k[1]]
           new == [ip |-> k[1], ifidx |-> k[2], mac |-> m, seen |-> t, used |-> TRUE, next |-> T.b[g]]
           W == Link(T, s, k, m, t)
<1>1. k[1] \in Ips /\ k[2] \in Ifs /\ g \in Buckets
  BY ArpAssumption DEF Keys
<1>2. T.e \in [Slots -> Entries] /\ T.b \in [Buckets -> Slots \cup {Nil}]
  BY DEF Tables
<1>3. W = [e |-> [T.e EXCEPT ![s] = new], b |-> [T.b EXCEPT ![g] = s]]
  BY DEF Link, Table
<1>4. new \in Entries
  BY <1>1, <1>2 DEF Entries
<1>5. /\ new.ip = k[1] /\ new.next = T.b[g]
  OBVIOUS
<1> HIDE DEF new, W
<1>6. /\ W \in Tables /\ W.e[s] = new /\ \A x \in Slots \ {s} : W.e[x] = T.e[x]
      /\ W.b[g] = s /\ \A h \in Buckets \ {g} : W.b[h] = T.b[h]
  BY <1>1, <1>2, <1>3, <1>4 DEF Tables
<1>b. PICK B \in Nat : \E r \in [Slots -> 0..B] : Linked(T, U, r)
  BY DEF Ranked
<1>7. PICK r \in [Slots -> 0..B] : Linked(T, U, r)
  BY <1>b
<1> DEFINE q == [r EXCEPT ![s] = B + 1]
<1>8. /\ q \in [Slots -> 0..(B + 1)] /\ B + 1 \in Nat
      /\ q[s] = B + 1 /\ \A x \in U : q[x] = r[x] /\ r[x] \in 0..B
  BY <1>7
<1>9. Hash(W, s) = g /\ \A x \in U : Hash(W, x) = Hash(T, x) /\ W.e[x] = T.e[x] /\ x # s
  BY <1>5, <1>6 DEF Hash
<1> HIDE DEF q
<1>10. \A x \in U \cup {s} : W.e[x].ip \in Ips
  BY <1>1, <1>5, <1>6, <1>7, <1>9 DEF Linked
<1>11. Heads(W, U \cup {s})
  BY <1>6, <1>7, <1>9 DEF Linked, Heads
<1>12. Links(W, U \cup {s}) /\ Falling(W, U \cup {s}, q)
  <2>1. ASSUME NEW x \in U, W.e[x].next # Nil
        PROVE  /\ W.e[x].next \in U /\ Hash(W, W.e[x].next) = Hash(W, x)
               /\ q[W.e[x].next] < q[x]
    <3>1. T.e[x].next \in U /\ Hash(T, T.e[x].next) = Hash(T, x) /\ r[T.e[x].next] < r[x]
      BY <2>1, <1>7, <1>9 DEF Linked, Links, Falling
    <3> QED
      BY <3>1, <1>8, <1>9
  <2>2. ASSUME W.e[s].next # Nil
        PROVE  /\ W.e[s].next \in U /\ Hash(W, W.e[s].next) = g /\ q[W.e[s].next] < q[s]
    <3>1. W.e[s].next = T.b[g] /\ T.b[g] \in U /\ Hash(T, T.b[g]) = g
      BY <2>2, <1>1, <1>5, <1>6, <1>7 DEF Linked, Heads
    <3>2. q[T.b[g]] \in 0..B
      BY <3>1, <1>8
    <3> QED
      BY <3>1, <3>2, <1>8, <1>9
  <2> QED
    BY <2>1, <2>2, <1>9 DEF Links, Falling
<1>13. Reached(W, U \cup {s})
  <2> SUFFICES ASSUME NEW x \in U \cup {s}
               PROVE  W.b[Hash(W, x)] = x \/ \E y \in U \cup {s} : W.e[y].next = x
    BY DEF Reached
  <2>1. CASE x = s
    BY <2>1, <1>6, <1>9
  <2>2. CASE x # s
    <3>1. x \in U /\ Hash(W, x) = Hash(T, x) /\ Hash(T, x) \in Buckets
      BY <2>2, <1>7, <1>9, ArpAssumption DEF Linked, Hash
    <3>2. T.b[Hash(T, x)] = x \/ \E y \in U : T.e[y].next = x
      BY <3>1, <1>7 DEF Linked, Reached
    <3>3. ASSUME NEW y \in U, T.e[y].next = x PROVE W.e[y].next = x
      BY <3>3, <1>9
    <3>4. CASE T.b[Hash(T, x)] = x
      <4>1. CASE Hash(T, x) = g
        <5>1. W.e[s].next = x
          BY <4>1, <3>4, <1>5, <1>6
        <5> QED
          BY <5>1
      <4>2. CASE Hash(T, x) # g
        BY <4>2, <3>1, <3>4, <1>6
      <4> QED
        BY <4>1, <4>2
    <3> QED
      BY <3>2, <3>3, <3>4
  <2> QED
    BY <2>1, <2>2
<1>14. Ranked(W, U \cup {s})
  <2>1. Linked(W, U \cup {s}, q)
    BY <1>10, <1>11, <1>12, <1>13 DEF Linked
  <2> QED
    BY <2>1, <1>8 DEF Ranked
<1> QED
  BY <1>6, <1>14 DEF W, new
-----------------------------------------------------------------------------
Filled(T, s) == T.e[s].ip \in Ips /\ T.e[s].ifidx \in Ifs /\ T.e[s].mac \in Macs
Distinct(T, U) == \A s, x \in U : KeyOf(T.e, s) = KeyOf(T.e, x) => s = x

(* The slots of U are a sound table; a table is sound if its used ones are.*)
SoundOn(T, U) == /\ T \in Tables /\ U \in SUBSET Slots
                 /\ \A s \in U : Filled(T, s)
                 /\ Ranked(T, U)
                 /\ Distinct(T, U)
FreeLinksNowhere(T) == \A s \in Slots : ~T.e[s].used => T.e[s].next = Nil
Sound(T) == SoundOn(T, Used(T.e)) /\ FreeLinksNowhere(T)

LEMMA UnlinkSound ==
  ASSUME NEW T, NEW U, SoundOn(T, U), NEW s \in U
  PROVE  SoundOn(Unlink(T, s), U \ {s}) /\ Unlinked(T, Unlink(T, s), U, s)
<1> DEFINE W == Unlink(T, s)
<1>1. T \in Tables /\ U \in SUBSET Slots
  BY DEF SoundOn
<1>b. PICK B \in Nat : \E r \in [Slots -> 0..B] : Linked(T, U, r)
  BY DEF SoundOn, Ranked
<1>2. PICK r \in [Slots -> 0..B] : Linked(T, U, r)
  BY <1>b
<1>3. Unlinked(T, W, U, s) /\ Linked(W, U \ {s}, r)
  BY <1>1, <1>2, UnlinkIs, UnlinkKeeps
<1> HIDE DEF W
<1>4. Ranked(W, U \ {s})
  BY <1>3 DEF Ranked
<1>5. \A x \in Slots : Same(T, W, x) /\ KeyOf(W.e, x) = KeyOf(T.e, x)
  BY <1>3 DEF Unlinked, Same, KeyOf
<1>6. \A x \in U \ {s} : Filled(W, x)
  BY <1>1, <1>5 DEF SoundOn, Filled, Same
<1>7. Distinct(W, U \ {s})
  BY <1>1, <1>5 DEF SoundOn, Distinct
<1> QED
  BY <1>1, <1>3, <1>4, <1>6, <1>7 DEF SoundOn, Unlinked, W

(* A key no linked slot has is linked at a slot that is not.               *)
LinkedTo(T, W, U, s, k, m, t) ==
  /\ SoundOn(W, U \cup {s})
  /\ \A x \in Slots \ {s} : W.e[x] = T.e[x]
  /\ KeyOf(W.e, s) = k /\ W.e[s].mac = m /\ W.e[s].seen = t /\ W.e[s].used

LEMMA LinkSound ==
  ASSUME NEW T, NEW U, SoundOn(T, U), NEW s \in Slots \ U,
         NEW k \in Keys, NEW m \in Macs, NEW t \in 0..MaxClock,
         \A x \in U : KeyOf(T.e, x) # k
  PROVE  LinkedTo(T, Link(T, s, k, m, t), U, s, k, m, t)
<1> DEFINE W == Link(T, s, k, m, t)
<1>1. T \in Tables /\ U \in SUBSET Slots /\ Ranked(T, U)
  BY DEF SoundOn
<1>2. /\ W \in Tables
      /\ W.e[s] = [ip |-> k[1], ifidx |-> k[2], mac |-> m, seen |-> t,
                   used |-> TRUE, next |-> T.b[hash_ip[k[1]]]]
      /\ \A x \in Slots \ {s} : W.e[x] = T.e[x]
      /\ Ranked(W, U \cup {s})
  BY <1>1, LinkKeeps
<1> HIDE DEF W
<1>3. k = <<k[1], k[2]>> /\ k[1] \in Ips /\ k[2] \in Ifs
  BY DEF Keys
<1>4. W.e[s].ip = k[1] /\ W.e[s].ifidx = k[2] /\ W.e[s].mac = m /\ W.e[s].seen = t /\ W.e[s].used
  BY <1>2
<1>5. KeyOf(W.e, s) = k
  BY <1>3, <1>4 DEF KeyOf
<1>6. \A x \in U : KeyOf(W.e, x) = KeyOf(T.e, x) /\ W.e[x] = T.e[x]
  BY <1>1, <1>2 DEF KeyOf
<1>7. \A x \in U \cup {s} : Filled(W, x)
  BY <1>3, <1>4, <1>6 DEF SoundOn, Filled
<1>8. Distinct(W, U \cup {s})
  BY <1>5, <1>6 DEF SoundOn, Distinct
<1> QED
  BY <1>1, <1>2, <1>4, <1>5, <1>7, <1>8 DEF SoundOn, LinkedTo, W

(* A refresh changes neither keys nor links. *)
SameLinks(T, W) ==
  /\ W \in Tables /\ W.b = T.b
  /\ \A x \in Slots : /\ W.e[x].ip = T.e[x].ip /\ W.e[x].ifidx = T.e[x].ifidx
                      /\ W.e[x].next = T.e[x].next /\ W.e[x].used = T.e[x].used
                      /\ T.e[x].used => W.e[x].mac \in Macs

LEMMA RefreshSound ==
  ASSUME NEW T, Sound(T), NEW W, SameLinks(T, W)
  PROVE  Sound(W) /\ Used(W.e) = Used(T.e)
<1>0. /\ W \in Tables /\ W.b = T.b
      /\ \A x \in Slots : /\ W.e[x].ip = T.e[x].ip /\ W.e[x].ifidx = T.e[x].ifidx
                          /\ W.e[x].next = T.e[x].next /\ W.e[x].used = T.e[x].used
                          /\ T.e[x].used => W.e[x].mac \in Macs
  BY DEF SameLinks
<1>1. Used(W.e) = Used(T.e) /\ Used(T.e) \in SUBSET Slots
  BY <1>0 DEF Used
<1>2. \A x \in Slots : Hash(W, x) = Hash(T, x) /\ KeyOf(W.e, x) = KeyOf(T.e, x)
  BY <1>0 DEF Hash, KeyOf
<1>3. Ranked(W, Used(T.e))
  <2>b. PICK B \in Nat : \E r \in [Slots -> 0..B] : Linked(T, Used(T.e), r)
    BY DEF Sound, SoundOn, Ranked
  <2>1. PICK r \in [Slots -> 0..B] : Linked(T, Used(T.e), r)
    BY <2>b
  <2> DEFINE U == Used(T.e)
  <2>2. U \in SUBSET Slots
    BY <1>1
  <2> HIDE DEF U
  <2>3. Linked(T, U, r)
    BY <2>1 DEF U
  <2>4. Heads(W, U) /\ Links(W, U)
    BY <2>2, <2>3, <1>0, <1>2 DEF Linked, Heads, Links
  <2>5. Reached(W, U) /\ Falling(W, U, r) /\ \A s \in U : W.e[s].ip \in Ips
    BY <2>2, <2>3, <1>0, <1>2 DEF Linked, Reached, Falling
  <2>6. Linked(W, U, r)
    BY <2>4, <2>5 DEF Linked
  <2> QED
    BY <2>6 DEF Ranked, U
<1>4. \A x \in Used(T.e) : Filled(W, x)
  BY <1>0 DEF Sound, SoundOn, Filled, Used
<1>5. Distinct(W, Used(T.e))
  BY <1>1, <1>2 DEF Sound, SoundOn, Distinct
<1>6. FreeLinksNowhere(W)
  BY <1>0 DEF Sound, FreeLinksNowhere
<1> QED
  BY <1>0, <1>1, <1>3, <1>4, <1>5, <1>6 DEF Sound, SoundOn

(* A lookup that walks its chain finds what is cached, and only that.      *)
LEMMA FindIs ==
  ASSUME Sound(Now), NEW k \in Keys
  PROVE  \/ Find(k) = Nil /\ \A s \in Used(entry) : KeyOf(entry, s) # k
         \/ Find(k) \in Used(entry) /\ KeyOf(entry, Find(k)) = k
<1> DEFINE h == hash_ip[k[1]]
           at == Walk(entry, bucket, h)
           hits == {n \in 0..ARP_CAP : at[n] # Nil /\ entry[at[n]].used /\ KeyOf(entry, at[n]) = k}
           U == Used(entry)
<1>1. Now.e = entry /\ Now.b = bucket /\ Now \in Tables /\ U \in SUBSET Slots
  BY DEF Now, Table, Sound, SoundOn
<1>2. h \in Buckets
  BY ArpAssumption DEF Keys
<1>3. at \in [0..ARP_CAP -> Slots \cup {Nil}]
  BY <1>1, <1>2, WalkSteps DEF Tables
<1>4. Chain(entry, bucket, h) = {s \in U : Hash(Now, s) = h}
  <2>b. PICK B \in Nat : \E r \in [Slots -> 0..B] : Linked(Now, U, r)
    BY <1>1 DEF Sound, SoundOn, Ranked
  <2>1. PICK r \in [Slots -> 0..B] : Linked(Now, U, r)
    BY <2>b
  <2>2. Chain(Now.e, Now.b, h) = {s \in U : Hash(Now, s) = h}
    BY <2>1, <1>1, <1>2, ChainIs
  <2> QED
    BY <2>2, <1>1
<1>5. Find(k) = IF hits = {} THEN Nil ELSE at[CHOOSE n \in hits : \A m \in hits : n <= m]
  BY DEF Find
<1> HIDE DEF at
<1>6. CASE hits = {}
  <2> SUFFICES ASSUME NEW s \in U, KeyOf(entry, s) = k PROVE FALSE
    BY <1>5, <1>6
  <2>1. s \in Slots /\ entry[s].used /\ s # Nil
    BY SlotFacts DEF Used
  <2>2. Hash(Now, s) = h
    BY <1>1 DEF Hash, KeyOf
  <2>3. s \in Chain(entry, bucket, h)
    BY <1>4, <2>2
  <2>4. PICK n \in 0..ARP_CAP : at[n] = s
    BY <2>3 DEF Chain, at
  <2>5. n \in hits
    BY <2>1, <2>4
  <2> QED
    BY <2>5, <1>6
<1>7. CASE hits # {}
  <2> HIDE DEF hits
  <2>1. hits \in SUBSET Nat
    BY DEF hits
  <2>2. \E n \in hits : \A m \in hits : n <= m
    BY <2>1, <1>7, Minimum
  <2>3. PICK n \in hits : Find(k) = at[n]
    BY <2>2, <1>5, <1>7
  <2> QED
    BY <2>3, <1>3 DEF hits, Used
<1> QED
  BY <1>6, <1>7
-----------------------------------------------------------------------------
(* One slot of arp_tick: everything but that slot's entry is as it was.    *)
LEMMA AgeSlotSound ==
  ASSUME NEW T, Sound(T), NEW s \in Slots, NEW n \in 0..MaxClock, NEW l
  PROVE  LET W == AgeSlot(T, s, n, l)
         IN /\ Sound(W)
            /\ \A x \in Slots \ {s} : Same(T, W, x)
            /\ Expired(T.e[s], n, l) => ~W.e[s].used
            /\ ~Expired(T.e[s], n, l) => Same(T, W, s)
<1> DEFINE U == Used(T.e)
           V == Unlink(T, s)
           W == FreeSlot(V, s)
<1>1. CASE ~Expired(T.e[s], n, l)
  BY <1>1 DEF AgeSlot, Same
<1>2. CASE Expired(T.e[s], n, l)
  <2>1. AgeSlot(T, s, n, l) = W
    BY <1>2 DEF AgeSlot
  <2>2. s \in U /\ SoundOn(T, U) /\ U \in SUBSET Slots
    BY <1>2 DEF Expired, Used, Sound, SoundOn
  <2>3. SoundOn(V, U \ {s}) /\ Unlinked(T, V, U, s)
    BY <2>2, UnlinkSound
  <2> HIDE DEF V, U
  <2>4. V.e \in [Slots -> Entries] /\ V.b \in [Buckets -> Slots \cup {Nil}]
    BY <2>3 DEF Unlinked, Tables
  <2>5. W = [e |-> [V.e EXCEPT ![s].used = FALSE, ![s].next = Nil], b |-> V.b]
    BY DEF FreeSlot, Table
  <2> HIDE DEF W
  <2>6. /\ W \in Tables /\ W.b = V.b
        /\ \A x \in Slots \ {s} : W.e[x] = V.e[x]
        /\ W.e[s].used = FALSE /\ W.e[s].next = Nil
    <3>1. W.e = [V.e EXCEPT ![s].used = FALSE, ![s].next = Nil] /\ W.b = V.b
      BY <2>5
    <3>2. W.e \in [Slots -> Entries]
      <4>1. W.e = [x \in Slots |-> IF x = s THEN [V.e[s] EXCEPT !.used = FALSE, !.next = Nil]
                                  ELSE V.e[x]]
        BY <3>1, <2>4
      <4>2. V.e[s] \in Entries /\ [V.e[s] EXCEPT !.used = FALSE, !.next = Nil] \in Entries
        BY <2>4 DEF Entries
      <4> QED
        BY <4>1, <4>2, <2>4
    <3>3. W.e[s].used = FALSE /\ W.e[s].next = Nil
      BY <3>1, <2>4 DEF Entries
    <3> QED
      BY <3>1, <3>2, <3>3, <2>4, <2>5 DEF Tables
  <2>7. \A x \in Slots \ {s} : Same(T, W, x)
    BY <2>3, <2>6 DEF Unlinked, Same
  <2>8. Used(W.e) = U \ {s}
    BY <2>6, <2>7 DEF Used, Same, U
  <2>9. SoundOn(W, U \ {s})
    <3>1. \A x \in U \ {s} : x \in Slots \ {s} /\ W.e[x] = V.e[x]
      BY <2>2, <2>6
    <3>2. \A x \in U \ {s} : KeyOf(W.e, x) = KeyOf(V.e, x) /\ Hash(W, x) = Hash(V, x)
      BY <3>1 DEF KeyOf, Hash
    <3>3. Ranked(W, U \ {s})
      <4>b. PICK B \in Nat : \E r \in [Slots -> 0..B] : Linked(V, U \ {s}, r)
        BY <2>3 DEF SoundOn, Ranked
      <4>1. PICK r \in [Slots -> 0..B] : Linked(V, U \ {s}, r)
        BY <4>b
      <4>2. Heads(W, U \ {s}) /\ Links(W, U \ {s})
        BY <4>1, <3>1, <3>2, <2>6 DEF Linked, Heads, Links
      <4>3. Reached(W, U \ {s}) /\ Falling(W, U \ {s}, r) /\ \A x \in U \ {s} : W.e[x].ip \in Ips
        BY <4>1, <3>1, <3>2, <2>6 DEF Linked, Reached, Falling
      <4> QED
        BY <4>2, <4>3 DEF Linked, Ranked
    <3>4. (\A x \in U \ {s} : Filled(W, x)) /\ Distinct(W, U \ {s})
      BY <3>1, <3>2, <2>3 DEF SoundOn, Filled, Distinct
    <3> QED
      BY <3>3, <3>4, <2>2, <2>6 DEF SoundOn
  <2>10. FreeLinksNowhere(W)
    <3> SUFFICES ASSUME NEW x \in Slots, ~W.e[x].used PROVE W.e[x].next = Nil
      BY DEF FreeLinksNowhere
    <3>1. CASE x = s
      BY <3>1, <2>6
    <3>2. CASE x # s
      <4>1. ~T.e[x].used /\ T.e[x].next = Nil
        BY <3>2, <2>7 DEF Same, Sound, FreeLinksNowhere
      <4>2. x \notin U /\ V.e[x].next = T.e[x].next
        BY <4>1, <2>3 DEF U, Used, Unlinked
      <4> QED
        BY <4>1, <4>2, <3>2, <2>6
    <3> QED
      BY <3>1, <3>2
  <2>11. Sound(W)
    BY <2>8, <2>9, <2>10 DEF Sound
  <2> QED
    BY <1>2, <2>1, <2>6, <2>7, <2>11
<1> QED
  BY <1>1, <1>2

(* arp_tick as a whole: what is used afterwards is what was used and had   *)
(* not expired by the limit of its slot, and nothing else has changed.     *)
LEMMA AgedIs ==
  ASSUME Sound(Now), NEW n \in 0..MaxClock, NEW lim
  PROVE  /\ Sound(Aged(n, lim)[ARP_CAP])
         /\ \A x \in Slots : IF Expired(entry[x], n, lim[x]) THEN ~Aged(n, lim)[ARP_CAP].e[x].used
                             ELSE Same(Now, Aged(n, lim)[ARP_CAP], x)
<1> DEFINE X == {T \in Tables : Sound(T)}
           F == [i \in 1..ARP_CAP |-> [T \in X |-> AgeSlot(T, i - 1, n, lim[i - 1])]]
           scan == Aged(n, lim)
<1>1. \A i \in 1..ARP_CAP : i - 1 \in Slots /\ i - 1 \in 0..ARP_CAP
  BY SlotFacts DEF Slots
<1>2. F \in [1..ARP_CAP -> [X -> X]]
  <2> SUFFICES ASSUME NEW i \in 1..ARP_CAP, NEW T \in X PROVE AgeSlot(T, i - 1, n, lim[i - 1]) \in X
    OBVIOUS
  <2>1. Sound(AgeSlot(T, i - 1, n, lim[i - 1]))
    BY <1>1, AgeSlotSound
  <2> QED
    BY <2>1 DEF Sound, SoundOn
<1>3. Now \in X
  BY DEF Sound, SoundOn
<1> HIDE DEF X
<1>4. PICK f : Loop(ARP_CAP, X, Now, F, f)
  <2> HIDE DEF F
  <2> QED
    BY <1>2, <1>3, LoopRuns, SlotFacts
<1>5. ASSUME NEW i \in 1..ARP_CAP PROVE f[i] = AgeSlot(f[i - 1], i - 1, n, lim[i - 1])
  <2>1. f[i - 1] \in X
    BY <1>1, <1>4 DEF Loop
  <2> QED
    BY <1>4, <2>1 DEF Loop
<1>6. f = [i \in 0..ARP_CAP |-> IF i = 0 THEN Now ELSE AgeSlot(f[i - 1], i - 1, n, lim[i - 1])]
  <2> DEFINE g == [i \in 0..ARP_CAP |-> IF i = 0 THEN Now ELSE AgeSlot(f[i - 1], i - 1, n, lim[i - 1])]
  <2>1. \A i \in 0..ARP_CAP : f[i] = g[i]
    BY <1>4, <1>5 DEF Loop
  <2> QED
    BY <1>4, <2>1 DEF Loop
<1>7. scan = [i \in 0..ARP_CAP |-> IF i = 0 THEN Now ELSE AgeSlot(scan[i - 1], i - 1, n, lim[i - 1])]
  BY <1>6, Zenon DEF Aged
<1> HIDE DEF scan
<1>8. scan[0] = Now /\ \A i \in 1..ARP_CAP : scan[i] = AgeSlot(scan[i - 1], i - 1, n, lim[i - 1])
  BY <1>7, SlotFacts
<1> DEFINE Done(i) == /\ Sound(scan[i])
                      /\ \A x \in Slots : IF x < i /\ Expired(entry[x], n, lim[x])
                                          THEN ~scan[i].e[x].used ELSE Same(Now, scan[i], x)
           S == {i \in 0..ARP_CAP : Done(i)}
<1>9. 0 \in S
  BY <1>8, SlotFacts DEF Same, Slots
<1>10. ASSUME NEW i \in 1..ARP_CAP, i - 1 \in S PROVE i \in S
  <2> DEFINE T == scan[i - 1]
             W == scan[i]
  <2>1. Done(i - 1)
    BY <1>10
  <2>2. W = AgeSlot(T, i - 1, n, lim[i - 1]) /\ i - 1 \in Slots /\ i \in 0..ARP_CAP
    BY <1>1, <1>8, SlotFacts
  <2>3. /\ Sound(W)
        /\ \A x \in Slots \ {i - 1} : Same(T, W, x)
        /\ Expired(T.e[i - 1], n, lim[i - 1]) => ~W.e[i - 1].used
        /\ ~Expired(T.e[i - 1], n, lim[i - 1]) => Same(T, W, i - 1)
    BY <2>1, <2>2, AgeSlotSound
  <2> HIDE DEF T, W
  <2>4. ASSUME NEW x \in Slots
        PROVE  IF x < i /\ Expired(entry[x], n, lim[x]) THEN ~W.e[x].used ELSE Same(Now, W, x)
    <3>0. /\ x \in Nat /\ i \in Nat
          /\ IF x < i - 1 /\ Expired(entry[x], n, lim[x]) THEN ~T.e[x].used ELSE Same(Now, T, x)
      BY <2>1, SlotFacts DEF T
    <3>1. CASE x = i - 1
      <4>1. Same(Now, T, x) /\ x < i
        BY <3>0, <3>1
      <4>2. Expired(T.e[x], n, lim[x]) <=> Expired(entry[x], n, lim[x])
        BY <4>1 DEF Same, Expired, Now, Table
      <4> QED
        BY <3>1, <4>1, <4>2, <2>3 DEF Same
    <3>2. CASE x # i - 1
      <4>1. x < i - 1 <=> x < i
        BY <3>0, <3>2
      <4> QED
        BY <3>0, <3>2, <4>1, <2>3 DEF Same
    <3> QED
      BY <3>1, <3>2
  <2> QED
    BY <2>2, <2>3, <2>4 DEF W
<1>11. ARP_CAP \in S
  <2> HIDE DEF S
  <2>1. 0..ARP_CAP \subseteq S
    BY <1>9, <1>10, Climb, SlotFacts
  <2> QED
    BY <2>1, SlotFacts
<1>12. \A x \in Slots : x < ARP_CAP
  BY SlotFacts DEF Slots
<1> QED
  BY <1>11, <1>12 DEF scan
-----------------------------------------------------------------------------
(* What an insertion makes of the table: slot s then holds the key; it had *)
(* it before, or nobody had it and s was free, or all slots were in use    *)
(* and s the least recently used.                                          *)
Inserted(W, s, k, m, t) ==
  /\ Sound(W)
  /\ Used(W.e) = Used(entry) \cup {s}
  /\ \A x \in Used(entry) \ {s} : Same(Now, W, x)
  /\ KeyOf(W.e, s) = k /\ W.e[s].mac = m /\ W.e[s].seen = t
  /\ \/ s \in Used(entry) /\ KeyOf(entry, s) = k
     \/ /\ \A x \in Used(entry) : KeyOf(entry, x) # k
        /\ \/ s \notin Used(entry)
           \/ Used(entry) = Slots /\ s \in Stalest

(* f is e with the MAC and the age of slot s anew. *)
Refreshed(e, f, s, m, t) ==
  /\ f \in [Slots -> Entries] /\ f[s].mac = m /\ f[s].seen = t
  /\ \A x \in Slots \ {s} : f[x] = e[x]
  /\ f[s].ip = e[s].ip /\ f[s].ifidx = e[s].ifidx
  /\ f[s].used = e[s].used /\ f[s].next = e[s].next

LEMMA EntryRefreshed ==
  ASSUME NEW e \in [Slots -> Entries], NEW s \in Slots, NEW m \in Macs \cup {NoMac}, NEW t \in 0..MaxClock,
         NEW f, f = [e EXCEPT ![s].mac = m, ![s].seen = t]
  PROVE  Refreshed(e, f, s, m, t)
<1>1. f = [x \in Slots |-> IF x = s THEN [e[s] EXCEPT !.mac = m, !.seen = t] ELSE e[x]]
  OBVIOUS
<1>2. e[s] \in Entries /\ [e[s] EXCEPT !.mac = m, !.seen = t] \in Entries
  BY DEF Entries
<1>3. f[s] = [e[s] EXCEPT !.mac = m, !.seen = t]
  BY <1>1
<1>4. /\ f[s].mac = m /\ f[s].seen = t
      /\ f[s].ip = e[s].ip /\ f[s].ifidx = e[s].ifidx
      /\ f[s].used = e[s].used /\ f[s].next = e[s].next
  BY <1>2, <1>3 DEF Entries
<1>5. f \in [Slots -> Entries] /\ \A x \in Slots \ {s} : f[x] = e[x]
  BY <1>1, <1>2
<1> QED
  BY <1>4, <1>5 DEF Refreshed

LEMMA LeastIs == ASSUME NEW S \in SUBSET Slots, S # {} PROVE Least(S) \in S
<1>1. \E s \in S : \A x \in S : s <= x
  BY Minimum, SlotFacts
<1> QED
  BY <1>1 DEF Least

LEMMA StalestIs == ASSUME Sound(Now) PROVE Victim \in Stalest /\ Stalest \in SUBSET Slots
<1> DEFINE Seen == {entry[s].seen : s \in Slots}
<1>1. \A s \in Slots : entry[s].seen \in Nat
  BY ArpAssumption DEF Sound, SoundOn, Now, Table, Tables, Entries
<1>2. PICK a \in Seen : \A b \in Seen : a <= b
  <2>1. Seen \in SUBSET Nat /\ Seen # {}
    BY <1>1, SlotFacts
  <2> HIDE DEF Seen
  <2> QED
    BY <2>1, Minimum
<1>3. Stalest # {} /\ Stalest \in SUBSET Slots
  BY <1>2 DEF Stalest
<1> QED
  BY <1>3, LeastIs DEF Victim

LEMMA InsertIs ==
  ASSUME Sound(Now), NEW t \in Threads, arp_insert(t),
         arg[t][1] \in Keys, arg[t][2] \in Macs, now[t] \in 0..MaxClock
  PROVE  \E s \in Slots : Inserted(Table(entry', bucket'), s, arg[t][1], arg[t][2], now[t])
<1> DEFINE k == arg[t][1]
           m == arg[t][2]
           W == Table(entry', bucket')
           U == Used(entry)
<1>1. /\ Now.e = entry /\ Now.b = bucket /\ entry \in [Slots -> Entries]
      /\ bucket \in [Buckets -> Slots \cup {Nil}]
      /\ U \in SUBSET Slots /\ W.e = entry' /\ W.b = bucket'
  BY DEF Now, Table, Sound, SoundOn, Tables
<1>2. CASE Find(k) # Nil
  <2> DEFINE s == Find(k)
  <2>1. s \in U /\ KeyOf(entry, s) = k /\ s \in Slots
    BY <1>1, <1>2, FindIs
  <2>2. W.e = [entry EXCEPT ![s].mac = m, ![s].seen = now[t]] /\ W.b = bucket
    BY <1>1, <1>2 DEF arp_insert, Become, Table
  <2> HIDE DEF s, W, U
  <2>a. Refreshed(entry, W.e, s, m, now[t])
    <3>1. m \in Macs \cup {NoMac} /\ now[t] \in 0..MaxClock
      OBVIOUS
    <3> HIDE DEF m
    <3> QED
      BY <1>1, <2>1, <2>2, <3>1, EntryRefreshed
  <2>3. /\ W.e \in [Slots -> Entries] /\ W.e[s].mac = m /\ W.e[s].seen = now[t]
        /\ \A x \in Slots \ {s} : W.e[x] = entry[x]
        /\ W.e[s].ip = entry[s].ip /\ W.e[s].ifidx = entry[s].ifidx
        /\ W.e[s].used = entry[s].used /\ W.e[s].next = entry[s].next
    BY <2>a DEF Refreshed
  <2>4. W \in Tables
    BY <1>1, <2>2, <2>3 DEF Tables, Table, W
  <2>5. ASSUME NEW x \in Slots
        PROVE  /\ W.e[x].ip = entry[x].ip /\ W.e[x].ifidx = entry[x].ifidx
               /\ W.e[x].next = entry[x].next /\ W.e[x].used = entry[x].used
               /\ entry[x].used => W.e[x].mac \in Macs
    <3>1. entry[x].used => entry[x].mac \in Macs
      BY <1>1 DEF Sound, SoundOn, Filled, Used
    <3> QED
      BY <3>1, <2>3
  <2>b. SameLinks(Now, W)
    BY <1>1, <2>2, <2>4, <2>5 DEF SameLinks
  <2>6. Sound(W) /\ Used(W.e) = U
    BY <1>1, <2>b, RefreshSound DEF U
  <2>7. KeyOf(W.e, s) = k
    BY <2>1, <2>3 DEF KeyOf
  <2>8. Inserted(W, s, k, m, now[t])
    BY <1>1, <2>1, <2>3, <2>6, <2>7 DEF Inserted, Same, U
  <2> QED
    BY <2>1, <2>8 DEF W
<1>3. CASE Find(k) = Nil
  <2>1. \A x \in U : KeyOf(entry, x) # k
    BY <1>3, FindIs, SlotFacts DEF Used
  <2>2. Unused = Slots \ U
    BY DEF Unused, Used
  <2>3. CASE Unused # {}
    <3> DEFINE s == Least(Unused)
    <3>1. s \in Slots \ U
      BY <2>2, <2>3, LeastIs
    <3>2. W = Link(Now, s, k, m, now[t])
      BY <1>3, <2>3, <1>1 DEF arp_insert, Become, Table, Link, Now
    <3>3. SoundOn(Now, U)
      BY <1>1 DEF Sound
    <3> HIDE DEF s, W, U
    <3>a. LinkedTo(Now, W, U, s, k, m, now[t])
      BY <1>1, <2>1, <3>1, <3>2, <3>3, LinkSound
    <3>4. /\ SoundOn(W, U \cup {s})
          /\ \A x \in Slots \ {s} : W.e[x] = entry[x]
          /\ KeyOf(W.e, s) = k /\ W.e[s].mac = m /\ W.e[s].seen = now[t] /\ W.e[s].used
      BY <1>1, <3>a DEF LinkedTo
    <3>5. Used(W.e) = U \cup {s}
      BY <1>1, <3>1, <3>4 DEF Used, U
    <3>6. FreeLinksNowhere(W)
      BY <1>1, <3>4 DEF FreeLinksNowhere, Sound
    <3>7. \A x \in U \ {s} : Same(Now, W, x)
      BY <1>1, <3>4 DEF Same
    <3>8. Inserted(W, s, k, m, now[t])
      BY <2>1, <3>1, <3>4, <3>5, <3>6, <3>7 DEF Inserted, Sound, U
    <3> QED
      BY <3>1, <3>8 DEF W
  <2>4. CASE Unused = {}
    <3> DEFINE s == Victim
               V == Unlink(Now, s)
    <3>1. U = Slots /\ s \in Stalest /\ s \in U
      BY <1>1, <2>2, <2>4, StalestIs
    <3>2. W = Link(V, s, k, m, now[t])
      BY <1>3, <2>4, <1>1 DEF arp_insert, Become, Table, Link, Now
    <3>3. SoundOn(Now, U)
      BY <1>1 DEF Sound
    <3>4. SoundOn(V, U \ {s}) /\ Unlinked(Now, V, U, s)
      BY <3>1, <3>3, UnlinkSound
    <3> HIDE DEF s, V, W, U
    <3>5. \A x \in Slots : Same(Now, V, x) /\ KeyOf(V.e, x) = KeyOf(entry, x)
      BY <1>1, <3>4 DEF Unlinked, Same, KeyOf
    <3>6. s \in Slots \ (U \ {s}) /\ \A x \in U \ {s} : KeyOf(V.e, x) # k
      BY <2>1, <3>1, <3>5
    <3>a. LinkedTo(V, W, U \ {s}, s, k, m, now[t])
      BY <3>2, <3>4, <3>6, LinkSound
    <3>7. /\ SoundOn(W, (U \ {s}) \cup {s})
          /\ \A x \in Slots \ {s} : W.e[x] = V.e[x]
          /\ KeyOf(W.e, s) = k /\ W.e[s].mac = m /\ W.e[s].seen = now[t] /\ W.e[s].used
      BY <3>a DEF LinkedTo
    <3>8. \A x \in Slots \ {s} : Same(Now, W, x)
      BY <3>5, <3>7 DEF Same
    <3>9. Used(W.e) = Slots /\ (U \ {s}) \cup {s} = Slots /\ U \cup {s} = Slots
      BY <1>1, <3>1, <3>7, <3>8 DEF Used, U, Same
    <3>10. FreeLinksNowhere(W)
      BY <3>9 DEF FreeLinksNowhere, Used
    <3>11. Inserted(W, s, k, m, now[t])
      BY <2>1, <3>1, <3>7, <3>8, <3>9, <3>10 DEF Inserted, Sound, U
    <3> QED
      BY <3>1, <3>11 DEF W
  <2> QED
    BY <2>3, <2>4
<1> QED
  BY <1>2, <1>3

(* What a lookup answers and refreshes. *)
LookedUp(W, k, n, a) ==
  /\ Sound(W)
  /\ \/ /\ \A x \in Used(entry) : KeyOf(entry, x) # k
        /\ W.e = entry /\ a = NoMac
     \/ \E s \in Used(entry) :
          /\ Used(W.e) = Used(entry)
          /\ \A x \in Used(entry) \ {s} : Same(Now, W, x)
          /\ KeyOf(entry, s) = k /\ a = entry[s].mac
          /\ KeyOf(W.e, s) = k /\ W.e[s].mac = a /\ W.e[s].seen = n

LEMMA LookupIs ==
  ASSUME Sound(Now), NEW t \in Threads, arp_lookup(t), arg[t][1] \in Keys, now[t] \in 0..MaxClock
  PROVE  LookedUp(Table(entry', bucket'), arg[t][1], now[t], answer')
<1> DEFINE k == arg[t][1]
           s == Find(k)
           W == Table(entry', bucket')
           U == Used(entry)
<1>1. /\ Now.e = entry /\ Now.b = bucket /\ entry \in [Slots -> Entries]
      /\ bucket \in [Buckets -> Slots \cup {Nil}]
      /\ U \in SUBSET Slots /\ W.e = entry' /\ W.b = bucket /\ bucket' = bucket
  BY DEF Now, Table, Sound, SoundOn, Tables, arp_lookup
<1>2. CASE s = Nil
  <2>1. W.e = entry /\ answer' = NoMac /\ W = Now
    BY <1>1, <1>2 DEF arp_lookup, Now
  <2>2. \A x \in U : KeyOf(entry, x) # k
    BY <1>1, <1>2, FindIs, SlotFacts
  <2> QED
    BY <2>1, <2>2 DEF LookedUp
<1>3. CASE s # Nil
  <2>1. s \in U /\ KeyOf(entry, s) = k /\ s \in Slots
    BY <1>1, <1>3, FindIs
  <2>2. W.e = [entry EXCEPT ![s].seen = now[t]] /\ answer' = entry[s].mac
    BY <1>1, <1>3 DEF arp_lookup
  <2> HIDE DEF s, W, U
  <2>3. entry[s] \in Entries /\ entry[s].mac \in Macs
    BY <1>1, <2>1 DEF Sound, SoundOn, Filled, U
  <2>4. W.e = [entry EXCEPT ![s].mac = entry[s].mac, ![s].seen = now[t]]
    <3> DEFINE one == [entry EXCEPT ![s].seen = now[t]]
               two == [entry EXCEPT ![s].mac = entry[s].mac, ![s].seen = now[t]]
    <3>1. one[s] = two[s]
      BY <1>1, <2>1, <2>3 DEF Entries
    <3>2. \A x \in Slots : one[x] = two[x]
      BY <3>1, <1>1
    <3> QED
      BY <3>2, <2>2, <1>1
  <2>5. Refreshed(entry, W.e, s, entry[s].mac, now[t])
    BY <1>1, <2>1, <2>3, <2>4, EntryRefreshed
  <2>6. SameLinks(Now, W)
    <3>1. W \in Tables
      BY <1>1, <2>5 DEF Refreshed, Tables, Table, W
    <3>2. \A x \in Slots : entry[x].used => entry[x].mac \in Macs
      BY <1>1 DEF Sound, SoundOn, Filled, Used
    <3> QED
      BY <1>1, <2>3, <2>5, <3>1, <3>2 DEF Refreshed, SameLinks
  <2>7. Sound(W) /\ Used(W.e) = U
    BY <1>1, <2>6, RefreshSound DEF U
  <2>8. KeyOf(W.e, s) = k /\ W.e[s].mac = entry[s].mac /\ W.e[s].seen = now[t]
    BY <2>1, <2>5 DEF KeyOf, Refreshed
  <2>9. \A x \in U \ {s} : Same(Now, W, x)
    BY <1>1, <2>5 DEF Same, Refreshed
  <2>10. LookedUp(W, k, now[t], answer')
    BY <1>1, <2>1, <2>2, <2>7, <2>8, <2>9 DEF LookedUp, U
  <2> QED
    BY <2>10 DEF W
<1> QED
  BY <1>2, <1>3
-----------------------------------------------------------------------------
(* The table is sound, and the threads are where their code can be.        *)
Calls == /\ pc \in [Threads -> {"idle", "lookup", "insert", "age"}]
         /\ now \in [Threads -> 0..MaxClock]
         /\ arg \in [Threads -> (Keys \X (Macs \cup {NoMac})) \cup {NoKey}]
         /\ \A t \in Threads : /\ pc[t] = "lookup" => arg[t] \in Keys \X {NoMac}
                               /\ pc[t] = "insert" => arg[t] \in Keys \X Macs
         /\ g_timeout \in Timeouts /\ limits \in SUBSET Timeouts
Inv == /\ Sound(Now)
       /\ clock \in 0..MaxClock
       /\ answer \in Macs \cup {NoMac}
       /\ Calls

LEMMA InitInv == ASSUME Init PROVE Inv
<1>0. 0 \in 0..MaxClock
  BY ArpAssumption
<1>1. Now \in Tables /\ Now.e = entry /\ Now.b = bucket
  <2>1. Free \in Entries
    BY <1>0 DEF Free, Entries
  <2> QED
    BY <2>1 DEF Init, Now, Table, Tables
<1>2. Used(entry) = {}
  BY DEF Init, Used, Free
<1>3. Ranked(Now, {})
  <2>1. [s \in Slots |-> 0] \in [Slots -> 0..0] /\ 0 \in Nat
    OBVIOUS
  <2>2. Linked(Now, {}, [s \in Slots |-> 0])
    BY <1>1 DEF Init, Linked, Heads, Links, Reached, Falling
  <2> QED
    BY <2>1, <2>2 DEF Ranked
<1>4. Sound(Now)
  <2>1. SoundOn(Now, {})
    BY <1>1, <1>3 DEF SoundOn, Distinct
  <2>2. FreeLinksNowhere(Now)
    BY <1>1 DEF Init, FreeLinksNowhere, Free
  <2> QED
    BY <1>1, <1>2, <2>1, <2>2 DEF Sound
<1>5. Calls
  BY <1>0 DEF Init, Calls
<1> QED
  BY <1>0, <1>4, <1>5 DEF Inv, Init

LEMMA ReturnCalls == ASSUME Calls, NEW t \in Threads, Return(t) PROVE Calls'
  BY ArpAssumption DEF Calls, Return

LEMMA CallStep ==
  ASSUME Inv, NEW t \in Threads, NEW what \in {"lookup", "insert", "age"}, NEW with,
         Call(t, what, with),
         what = "lookup" => with \in Keys \X {NoMac}, what = "insert" => with \in Keys \X Macs,
         what = "age" => with = NoKey
  PROVE  Inv'
<1>1. Sound(Now)' /\ clock' \in 0..MaxClock /\ answer' = answer
  BY DEF Inv, Call, Now, Table
<1>2. pc' = [pc EXCEPT ![t] = what] /\ now' = [now EXCEPT ![t] = clock]
      /\ arg' = [arg EXCEPT ![t] = with]
  BY DEF Call
<1>3. with \in (Keys \X (Macs \cup {NoMac})) \cup {NoKey}
  OBVIOUS
<1>4. Calls'
  BY <1>2, <1>3 DEF Inv, Calls, Call
<1> QED
  BY <1>1, <1>4 DEF Inv

LEMMA LookupStep == ASSUME Inv, NEW t \in Threads, arp_lookup(t) PROVE Inv'
<1>1. Sound(Now) /\ arg[t][1] \in Keys /\ now[t] \in 0..MaxClock
  BY DEF Inv, Calls, arp_lookup
<1>2. LookedUp(Table(entry', bucket'), arg[t][1], now[t], answer')
  BY <1>1, LookupIs
<1>3. Sound(Now)'
  BY <1>2 DEF LookedUp, Now
<1>4. answer' \in Macs \cup {NoMac}
  BY <1>1, <1>2 DEF LookedUp, Sound, SoundOn, Filled, Now, Table
<1> QED
  BY <1>3, <1>4, ReturnCalls DEF Inv, arp_lookup, Return

LEMMA InsertStep == ASSUME Inv, NEW t \in Threads, arp_insert(t) PROVE Inv'
<1>1. Sound(Now) /\ arg[t][1] \in Keys /\ arg[t][2] \in Macs /\ now[t] \in 0..MaxClock
  BY DEF Inv, Calls, arp_insert
<1>2. PICK s \in Slots : Inserted(Table(entry', bucket'), s, arg[t][1], arg[t][2], now[t])
  BY <1>1, InsertIs
<1>3. Sound(Now)'
  BY <1>2 DEF Inserted, Now
<1>4. answer' = NoMac /\ Return(t)
  BY DEF arp_insert
<1> QED
  BY <1>3, <1>4, ReturnCalls DEF Inv, Return

LEMMA TickStep == ASSUME Inv, NEW t \in Threads, arp_tick(t) PROVE Inv'
<1>1. Sound(Now) /\ now[t] \in 0..MaxClock
  BY DEF Inv, Calls
<1>2. PICK lim : Become(Aged(now[t], lim)[ARP_CAP])
  BY DEF arp_tick
<1> DEFINE W == Aged(now[t], lim)[ARP_CAP]
<1>3. Sound(W)
  BY <1>1, AgedIs
<1>4. entry' = W.e /\ bucket' = W.b /\ answer' = NoMac /\ Return(t)
  BY <1>2 DEF arp_tick, Become
<1>5. Now' = W
  BY <1>3, <1>4 DEF Now, Table, Sound, SoundOn, Tables
<1>6. Sound(Now)'
  BY <1>3, <1>5
<1> QED
  BY <1>1, <1>4, <1>6, ReturnCalls DEF Inv, Return

LEMMA TimeoutStep == ASSUME Inv, NEW sec \in Secs, arp_set_timeout(sec) PROVE Inv'
<1>1. sec \in Timeouts
  BY DEF arp_set_timeout, Timeouts
<1> QED
  BY <1>1 DEF arp_set_timeout, Inv, Now, Calls, calls

LEMMA NextInv == ASSUME Inv, [Next]_vars PROVE Inv'
<1>1. CASE Second
  <2>1. clock' \in 0..MaxClock
    BY <1>1, ArpAssumption DEF Second, Inv
  <2> QED
    BY <1>1, <2>1 DEF Second, Inv, Now, Calls, calls
<1>2. ASSUME NEW t \in Threads, NEW k \in Keys, Call(t, "lookup", <<k, NoMac>>) PROVE Inv'
  BY <1>2, CallStep
<1>3. ASSUME NEW k \in Keys, NEW m \in Macs, Call(Receiver, "insert", <<k, m>>) PROVE Inv'
  BY <1>3, CallStep DEF Threads
<1>4. CASE Call(Timer, "age", NoKey)
  BY <1>4, CallStep DEF Threads
<1>5. ASSUME NEW t \in Threads, arp_lookup(t) \/ arp_insert(t) \/ arp_tick(t) PROVE Inv'
  BY <1>5, LookupStep, InsertStep, TickStep
<1>6. CASE UNCHANGED vars
  BY <1>6 DEF vars, calls, Inv, Now, Calls
<1>7. ASSUME NEW sec \in Secs, arp_set_timeout(sec) PROVE Inv'
  BY <1>7, TimeoutStep
<1> QED
  BY <1>1, <1>2, <1>3, <1>4, <1>5, <1>6, <1>7 DEF Next

(* arp_table.c:59 to 177: lookups, insertions and ageing, in any order and *)
(* with clocks read at any time before the lock, leave the table sound.    *)
THEOREM Invariant == Spec => []Inv
<1>1. Init => Inv
  BY InitInv
<1>2. Inv /\ [Next]_vars => Inv'
  BY NextInv
<1> QED
  BY <1>1, <1>2, PTL DEF Spec

(* arp_table.c:13 to 26: every field and index keeps the range of its      *)
(* declaration, and a free slot, as arp_tick leaves it, links nowhere.     *)
THEOREM TypeCorrect == Spec => []TypeOK
<1>1. Inv => TypeOK
  <2> SUFFICES ASSUME Inv PROVE TypeOK
    OBVIOUS
  <2>1. entry \in [Slots -> Entries] /\ bucket \in [Buckets -> Slots \cup {Nil}]
    BY DEF Inv, Sound, SoundOn, Tables, Now, Table
  <2>2. \A s \in Slots : ~entry[s].used => entry[s].next = Nil
    BY DEF Inv, Sound, FreeLinksNowhere, Now, Table
  <2> QED
    BY <2>1, <2>2 DEF Inv, Calls, TypeOK, Entries
<1> QED
  BY <1>1, Invariant, PTL

(* arp_table.c:110 to 138 and 168 to 172: whatever is inserted, evicted    *)
(* from a foreign bucket and aged, a slot in use is in the chain of its    *)
(* own bucket and in no other, and no chain loops: a lookup ends.          *)
THEOREM ChainsStaySound == Spec => []ChainsSound
<1>1. Inv => ChainsSound
  <2> SUFFICES ASSUME Inv, NEW h \in Buckets
               PROVE  /\ Walk(entry, bucket, h)[ARP_CAP] = Nil
                      /\ Chain(entry, bucket, h) = {s \in Slots : entry[s].used /\ hash_ip[entry[s].ip] = h}
    BY DEF ChainsSound
  <2> DEFINE U == Used(entry)
  <2>1. Now.e = entry /\ Now.b = bucket /\ Now \in Tables /\ U \in SUBSET Slots
    BY DEF Inv, Sound, SoundOn, Now, Table
  <2>b. PICK B \in Nat : \E r \in [Slots -> 0..B] : Linked(Now, U, r)
    BY <2>1 DEF Inv, Sound, SoundOn, Ranked
  <2>2. PICK r \in [Slots -> 0..B] : Linked(Now, U, r)
    BY <2>b
  <2>3. Chain(Now.e, Now.b, h) = {s \in U : Hash(Now, s) = h}
    BY <2>1, <2>2, ChainIs
  <2>4. r \in [Slots -> Nat]
    OBVIOUS
  <2>5. Walk(Now.e, Now.b, h)[ARP_CAP] = Nil
    BY <2>1, <2>2, <2>4, WalkEnds
  <2> QED
    BY <2>1, <2>3, <2>5 DEF Used, Hash
<1> QED
  BY <1>1, Invariant, PTL

(* arp_table.c:104 to 109: an insertion that finds no entry for its key is *)
(* right, so no key ever has two.                                          *)
THEOREM KeysStayUnique == Spec => []KeysUnique
<1>1. Inv => KeysUnique
  BY DEF Inv, Sound, SoundOn, Distinct, KeysUnique, Used, Now, Table
<1> QED
  BY <1>1, Invariant, PTL
-----------------------------------------------------------------------------
(* The table as a map. *)
Unique(e) == \A s, x \in Used(e) : KeyOf(e, s) = KeyOf(e, x) => s = x
Value(e, s) == [mac |-> e[s].mac, seen |-> e[s].seen]
Represents(e, f) == /\ f = [k \in DOMAIN f |-> f[k]]
                    /\ DOMAIN f = {KeyOf(e, s) : s \in Used(e)}
                    /\ \A s \in Used(e) : f[KeyOf(e, s)] = Value(e, s)

LEMMA ContentsIs == ASSUME NEW e, Unique(e) PROVE Represents(e, Contents(e))
<1>1. ASSUME NEW s \in Used(e) PROVE SlotOf(e, KeyOf(e, s)) = s
  BY DEF Unique, SlotOf
<1>2. DOMAIN Contents(e) = {KeyOf(e, s) : s \in Used(e)}
  BY DEF Contents
<1>3. \A s \in Used(e) : Contents(e)[KeyOf(e, s)] = Value(e, s)
  BY <1>1 DEF Contents, Value
<1>4. Contents(e) = [k \in DOMAIN Contents(e) |-> Contents(e)[k]]
  BY DEF Contents
<1> QED
  BY <1>2, <1>3, <1>4 DEF Represents

LEMMA OneMap == ASSUME NEW e, NEW f, NEW g, Represents(e, f), Represents(e, g) PROVE f = g
<1>1. DOMAIN f = DOMAIN g /\ \A k \in DOMAIN f : f[k] = g[k]
  BY DEF Represents
<1> QED
  BY <1>1 DEF Represents

LEMMA SoundUnique == ASSUME NEW T, Sound(T) PROVE Unique(T.e)
  BY DEF Sound, SoundOn, Distinct, Unique

(* There are as many keys as slots in use. *)
LEMMA KeysCount ==
  ASSUME Sound(Now)
  PROVE  /\ IsFiniteSet(Used(entry)) /\ Used(entry) \in SUBSET Slots
         /\ Cardinality({KeyOf(entry, s) : s \in Used(entry)}) = Cardinality(Used(entry))
<1> DEFINE U == Used(entry)
           K == {KeyOf(entry, s) : s \in U}
           f == [s \in U |-> KeyOf(entry, s)]
<1>1. U \in SUBSET Slots /\ IsFiniteSet(U)
  <2>1. U \in SUBSET Slots
    BY DEF Used
  <2> QED
    BY <2>1, SlotFacts, FS_Subset
<1>2. \A s, x \in U : KeyOf(entry, s) = KeyOf(entry, x) => s = x
  BY SoundUnique DEF Unique, Now, Table
<1>3. f \in [U -> K] /\ (\A k \in K : \E s \in U : f[s] = k)
      /\ \A s, x \in U : f[s] = f[x] => s = x
  BY <1>2
<1> HIDE DEF f, K
<1>4. f \in Bijection(U, K)
  BY <1>3, Fun_IsBij
<1> QED
  BY <1>1, <1>4, FS_Bijection DEF ExistsBijection, K

LEMMA RefineInit == Init => Cache!Init
<1> SUFFICES ASSUME Init PROVE Contents(entry) = [k \in {} |-> Cache!Entry(NoMac, 0)]
  BY DEF Init, Cache!Init, Cache!Idle
<1>1. Used(entry) = {}
  BY DEF Init, Used, Free
<1>2. {KeyOf(entry, s) : s \in Used(entry)} = {}
  BY <1>1
<1> QED
  BY <1>2 DEF Contents

(* The cached keys, in the table and in the map. *)
LEMMA MapFacts ==
  ASSUME Sound(Now)
  PROVE  Represents(entry, Contents(entry)) /\ Unique(entry) /\ Now.e = entry
<1>1. Unique(Now.e) /\ Now.e = entry
  BY SoundUnique DEF Now, Table
<1> QED
  BY <1>1, ContentsIs

(* The calls in progress begin and return in the cache as here. *)
MapCalls == [t \in Threads |-> [op |-> pc[t], now |-> now[t], arg |-> arg[t]]]

LEMMA RefineCall ==
  ASSUME Calls, NEW t \in Threads, NEW what, NEW with, Call(t, what, with)
  PROVE  Cache!Begin(t, what, with)
<1>1. MapCalls' = [MapCalls EXCEPT ![t] = [op |-> what, now |-> clock, arg |-> with]]
  <2>1. ASSUME NEW u \in Threads
        PROVE  MapCalls'[u] = IF u = t THEN [op |-> what, now |-> clock, arg |-> with]
                              ELSE MapCalls[u]
    BY <2>1 DEF Calls, Call, MapCalls
  <2> QED
    BY <2>1 DEF MapCalls
<1>2. Contents(entry') = Contents(entry)
  BY DEF Call
<1>3. MapCalls[t].op = "idle"
  BY DEF Call, MapCalls
<1> QED
  BY <1>1, <1>2, <1>3 DEF Call, Cache!Begin, MapCalls

LEMMA RefineReturn ==
  ASSUME Calls, NEW t \in Threads, NEW op, pc[t] = op, Return(t)
  PROVE  /\ Cache!Return(t, op)
         /\ MapCalls[t].arg = arg[t] /\ MapCalls[t].now = now[t]
<1>1. MapCalls' = [MapCalls EXCEPT ![t] = Cache!Idle]
  <2>1. ASSUME NEW u \in Threads
        PROVE  MapCalls'[u] = IF u = t THEN Cache!Idle ELSE MapCalls[u]
    BY <2>1 DEF Calls, Return, MapCalls, Cache!Idle
  <2> QED
    BY <2>1 DEF MapCalls
<1>2. MapCalls[t].op = op /\ MapCalls[t].arg = arg[t] /\ MapCalls[t].now = now[t]
  BY DEF MapCalls
<1> QED
  BY <1>1, <1>2 DEF Return, Cache!Return, MapCalls

(* A table that is sound again represents one map only. *)
LEMMA Becomes ==
  ASSUME Sound(Table(entry', bucket')), NEW f, Represents(entry', f)
  PROVE  Contents(entry') = f
<1>1. Unique(entry')
  <2>1. Unique(Table(entry', bucket').e)
    BY SoundUnique
  <2> QED
    BY <2>1 DEF Table
<1> QED
  BY <1>1, ContentsIs, OneMap

LEMMA RefineLookup ==
  ASSUME Inv, NEW t \in Threads, arp_lookup(t) PROVE Cache!Next
<1> DEFINE c == Contents(entry)
           k == arg[t][1]
           n == now[t]
<1>1. Sound(Now) /\ k \in Keys /\ n \in 0..MaxClock
  BY DEF Inv, Calls, arp_lookup
<1>2. LookedUp(Table(entry', bucket'), k, n, answer')
  BY <1>1, LookupIs
<1>3. Represents(entry, c) /\ Unique(entry) /\ Now.e = entry /\ Table(entry', bucket').e = entry'
  BY <1>1, MapFacts DEF Table
<1>r. /\ Cache!Return(t, "lookup") /\ MapCalls[t].arg[1] = k /\ MapCalls[t].now = n
  <2>1. Calls /\ pc[t] = "lookup" /\ Return(t)
    BY DEF Inv, arp_lookup
  <2> QED
    BY <2>1, RefineReturn
<1> DEFINE Answered == IF k \in DOMAIN c
                       THEN answer' = c[k].mac /\ Contents(entry') = [c EXCEPT ![k].seen = n]
                       ELSE answer' = NoMac /\ Contents(entry') = c
<1> HIDE DEF c, k, n
<1>4. Answered
  <2>1. CASE (\A x \in Used(entry) : KeyOf(entry, x) # k) /\ entry' = entry /\ answer' = NoMac
    <3>1. k \notin DOMAIN c
      BY <2>1, <1>3 DEF Represents
    <3> QED
      BY <2>1, <3>1 DEF c
  <2>2. ASSUME NEW s \in Used(entry),
               Used(entry') = Used(entry),
               \A x \in Used(entry) \ {s} : Same(Now, Table(entry', bucket'), x),
               KeyOf(entry, s) = k, answer' = entry[s].mac,
               KeyOf(entry', s) = k, entry'[s].mac = entry[s].mac, entry'[s].seen = n
        PROVE  Answered
    <3> DEFINE f == [c EXCEPT ![k].seen = n]
    <3>1. k \in DOMAIN c /\ c[k] = Value(entry, s)
      BY <2>2, <1>3 DEF Represents
    <3>2. /\ DOMAIN f = DOMAIN c /\ f[k] = [mac |-> entry[s].mac, seen |-> n]
          /\ \A j \in DOMAIN c \ {k} : f[j] = c[j]
          /\ f = [j \in DOMAIN f |-> f[j]]
      BY <3>1 DEF Value
    <3> HIDE DEF f
    <3>3. ASSUME NEW x \in Used(entry) \ {s}
          PROVE  KeyOf(entry', x) = KeyOf(entry, x) /\ Value(entry', x) = Value(entry, x)
      BY <2>2, <1>3 DEF Same, KeyOf, Value
    <3>4. \A x \in Used(entry) : KeyOf(entry', x) = KeyOf(entry, x)
      BY <2>2, <3>3
    <3>5. DOMAIN f = {KeyOf(entry', x) : x \in Used(entry')}
      BY <2>2, <3>2, <3>4, <1>3 DEF Represents
    <3>6. ASSUME NEW x \in Used(entry') PROVE f[KeyOf(entry', x)] = Value(entry', x)
      <4>1. CASE x = s
        BY <4>1, <2>2, <3>2 DEF Value
      <4>2. CASE x # s
        <5>1. KeyOf(entry, x) \in DOMAIN c \ {k} /\ c[KeyOf(entry, x)] = Value(entry, x)
          BY <4>2, <2>2, <1>3 DEF Represents, Unique
        <5> QED
          BY <4>2, <5>1, <2>2, <3>2, <3>3
      <4> QED
        BY <4>1, <4>2
    <3>7. Represents(entry', f)
      BY <3>2, <3>5, <3>6 DEF Represents
    <3>8. Contents(entry') = f
      BY <3>7, <1>2, Becomes DEF LookedUp
    <3>9. answer' = c[k].mac
      BY <2>2, <3>1 DEF Value
    <3> QED
      BY <3>1, <3>8, <3>9 DEF f
  <2> QED
    BY <1>2, <1>3, <2>1, <2>2 DEF LookedUp
<1>5. Cache!Lookup(t)
  BY <1>r, <1>4 DEF Cache!Lookup, Cache!Cached, MapCalls, c
<1> QED
  BY <1>5 DEF Cache!Next

LEMMA RefineTick ==
  ASSUME Inv, NEW t \in Threads, arp_tick(t) PROVE Cache!Next
<1>p. PICK lim \in [Slots -> limits] : Become(Aged(now[t], lim)[ARP_CAP])
  BY DEF arp_tick
<1> DEFINE c == Contents(entry)
           n == now[t]
           W == Aged(n, lim)[ARP_CAP]
           Gone == {KeyOf(entry, x) : x \in {s \in Used(entry) : Expired(entry[s], n, lim[s])}}
           f == [k \in DOMAIN c \ Gone |-> c[k]]
<1>1. Sound(Now) /\ n \in 0..MaxClock
  BY DEF Inv, Calls
<1>2. /\ Sound(W)
      /\ \A x \in Slots : IF Expired(entry[x], n, lim[x]) THEN ~W.e[x].used ELSE Same(Now, W, x)
  BY <1>1, AgedIs
<1>3. entry' = W.e /\ bucket' = W.b /\ answer' = NoMac
  BY <1>p DEF arp_tick, Become
<1>r. Cache!Return(t, "age") /\ MapCalls[t].now = n
  <2>1. Calls /\ pc[t] = "age" /\ Return(t)
    BY DEF Inv, arp_tick
  <2> QED
    BY <2>1, RefineReturn
<1>s. ASSUME NEW x \in Slots PROVE lim[x] \in limits /\ lim[x] \in Secs /\ lim[x] \in Nat
  BY <1>p, ArpAssumption DEF Inv, Calls, Timeouts
<1>4. Represents(entry, c) /\ Unique(entry) /\ Now.e = entry
  BY <1>1, MapFacts
<1>5. Table(entry', bucket') = W
  BY <1>2, <1>3 DEF Table, Sound, SoundOn, Tables
<1>6. n \in Nat /\ MaxClock \in Nat /\ \A x \in Used(entry) : x \in Slots /\ entry[x].seen \in 0..MaxClock
  BY <1>1, <1>4, ArpAssumption DEF Sound, SoundOn, Tables, Entries, Used
<1> HIDE DEF c, n, W
<1>7. ASSUME NEW x \in Used(entry)
      PROVE  /\ n - entry[x].seen > lim[x] => Expired(entry[x], n, lim[x])
             /\ Expired(entry[x], n, lim[x]) => n - entry[x].seen > lim[x] \/ n - entry[x].seen < 0
  <2>1. /\ entry[x].used /\ entry[x].seen \in Nat /\ entry[x].seen <= MaxClock /\ n <= MaxClock
        /\ x \in Slots
    BY <1>1, <1>6 DEF Used
  <2>2. n >= entry[x].seen => (n - entry[x].seen) % U64 = n - entry[x].seen
    <3> SUFFICES ASSUME n >= entry[x].seen PROVE (n - entry[x].seen) % U64 = n - entry[x].seen
      OBVIOUS
    <3>1. n - entry[x].seen \in Nat /\ U64 \in Nat /\ n - entry[x].seen < U64
      BY <2>1, <1>6, <1>s, ArpAssumption
    <3> QED
      BY <3>1, ModSmall
  <2>3. lim[x] \in Nat
    BY <2>1, <1>s
  <2> QED
    BY <2>1, <2>2, <2>3, <1>6 DEF Expired
<1>8. Used(entry') = {x \in Used(entry) : ~Expired(entry[x], n, lim[x])}
  BY <1>2, <1>3, <1>4 DEF Used, Same, Expired
<1>9. ASSUME NEW x \in Used(entry')
      PROVE  KeyOf(entry', x) = KeyOf(entry, x) /\ Value(entry', x) = Value(entry, x)
  BY <1>2, <1>3, <1>4, <1>6, <1>8 DEF Same, KeyOf, Value
<1>10. ASSUME NEW x \in Used(entry)
       PROVE  KeyOf(entry, x) \in Gone <=> Expired(entry[x], n, lim[x])
  BY <1>4 DEF Unique
<1>11. Gone \in SUBSET DOMAIN c
  BY <1>4 DEF Represents
<1>12. /\ f = [k \in DOMAIN f |-> f[k]] /\ DOMAIN f = DOMAIN c \ Gone
       /\ \A k \in DOMAIN f : f[k] = c[k]
  OBVIOUS
<1> HIDE DEF Gone, f
<1>13. DOMAIN f = {KeyOf(entry', x) : x \in Used(entry')}
  <2>1. ASSUME NEW k \in DOMAIN f PROVE \E x \in Used(entry') : KeyOf(entry', x) = k
    <3>1. PICK x \in Used(entry) : k = KeyOf(entry, x)
      BY <2>1, <1>4, <1>12 DEF Represents
    <3>2. x \in Used(entry')
      BY <3>1, <1>8, <1>10, <1>12
    <3> QED
      BY <3>1, <3>2, <1>9
  <2>2. ASSUME NEW x \in Used(entry') PROVE KeyOf(entry', x) \in DOMAIN f
    <3>1. x \in Used(entry) /\ ~Expired(entry[x], n, lim[x]) /\ KeyOf(entry', x) = KeyOf(entry, x)
      BY <1>8, <1>9
    <3> QED
      BY <3>1, <1>4, <1>10, <1>12 DEF Represents
  <2> QED
    BY <2>1, <2>2
<1>14. \A x \in Used(entry') : f[KeyOf(entry', x)] = Value(entry', x)
  BY <1>4, <1>8, <1>9, <1>12, <1>13 DEF Represents
<1>15. Represents(entry', f)
  BY <1>12, <1>13, <1>14 DEF Represents
<1>16. Contents(entry') = f
  BY <1>2, <1>5, <1>15, Becomes
<1>17. \A k \in DOMAIN c : (\A l \in limits : n - c[k].seen > l) => k \in Gone
  <2> SUFFICES ASSUME NEW k \in DOMAIN c, \A l \in limits : n - c[k].seen > l PROVE k \in Gone
    OBVIOUS
  <2>1. PICK x \in Used(entry) : k = KeyOf(entry, x) /\ c[k] = Value(entry, x)
    BY <1>4 DEF Represents
  <2>2. n - entry[x].seen > lim[x]
    BY <2>1, <1>6, <1>s DEF Value
  <2> QED
    BY <2>1, <2>2, <1>7, <1>10
<1>18. \A k \in Gone : n - c[k].seen < 0 \/ \E l \in limits : n - c[k].seen > l
  <2> SUFFICES ASSUME NEW k \in Gone
               PROVE  n - c[k].seen < 0 \/ \E l \in limits : n - c[k].seen > l
    OBVIOUS
  <2>1. PICK x \in Used(entry) : k = KeyOf(entry, x) /\ c[k] = Value(entry, x)
    BY <1>4, <1>11 DEF Represents
  <2>2. n - entry[x].seen < 0 \/ n - entry[x].seen > lim[x]
    BY <2>1, <1>7, <1>10
  <2> QED
    BY <2>1, <2>2, <1>6, <1>s DEF Value
<1>19. Contents(entry') = Cache!Without(Gone)
  BY <1>16 DEF f, Cache!Without, Cache!Cached, c
<1>20. Cache!Age(t)
  BY <1>r, <1>3, <1>11, <1>17, <1>18, <1>19 DEF Cache!Age, Cache!Cached, MapCalls, c
<1> QED
  BY <1>20 DEF Cache!Next

(* ArpCache counts its entries as this module counts the slots.            *)
LEMMA SameCount ==
  ASSUME NEW S
  PROVE  Cache!Cardinality(S) = Cardinality(S)
BY Zenon DEF Cardinality, Cache!Cardinality

LEMMA RefineInsert ==
  ASSUME Inv, NEW t \in Threads, arp_insert(t) PROVE Cache!Next
<1> DEFINE c == Contents(entry)
           k == arg[t][1]
           m == arg[t][2]
           n == now[t]
           W == Table(entry', bucket')
           U == Used(entry)
<1>1. Sound(Now) /\ k \in Keys /\ m \in Macs /\ n \in 0..MaxClock /\ answer' = NoMac
  BY DEF Inv, Calls, arp_insert
<1>2. PICK s \in Slots : Inserted(W, s, k, m, n)
  BY <1>1, InsertIs
<1>3. Represents(entry, c) /\ Unique(entry) /\ Now.e = entry /\ W.e = entry'
  BY <1>1, MapFacts DEF Table
<1>4. /\ IsFiniteSet(U) /\ U \in SUBSET Slots /\ Cardinality(DOMAIN c) = Cardinality(U)
  BY <1>1, <1>3, KeysCount DEF Represents
<1>r. /\ Cache!Return(t, "insert") /\ MapCalls[t].now = n
      /\ MapCalls[t].arg[1] = k /\ MapCalls[t].arg[2] = m
  <2>1. Calls /\ pc[t] = "insert" /\ Return(t)
    BY DEF Inv, arp_insert
  <2> QED
    BY <2>1, RefineReturn
<1> HIDE DEF c, k, m, n, U
<1>5. /\ Sound(W) /\ Used(entry') = U \cup {s}
      /\ \A x \in U \ {s} : KeyOf(entry', x) = KeyOf(entry, x) /\ Value(entry', x) = Value(entry, x)
      /\ KeyOf(entry', s) = k /\ Value(entry', s) = Cache!Entry(m, n)
  BY <1>2, <1>3 DEF Inserted, Same, KeyOf, Value, Cache!Entry, U
<1> DEFINE rest == DOMAIN c \ {KeyOf(entry, x) : x \in U \cap {s}}
           f == [j \in rest \cup {k} |-> IF j = k THEN Cache!Entry(m, n) ELSE c[j]]
<1>6. /\ \A x \in U \ {s} : KeyOf(entry, x) \in rest /\ KeyOf(entry, x) # k
      /\ \A j \in rest : \E x \in U \ {s} : KeyOf(entry, x) = j
  <2>1. \A x \in U \ {s} : KeyOf(entry, x) \in rest
    BY <1>3 DEF Represents, Unique, U
  <2>2. \A x \in U \ {s} : KeyOf(entry, x) # k
    BY <1>2, <1>3 DEF Inserted, Unique, U
  <2>3. \A j \in rest : \E x \in U \ {s} : KeyOf(entry, x) = j
    BY <1>3 DEF Represents, U
  <2> QED
    BY <2>1, <2>2, <2>3
<1>7. Contents(entry') = f
  <2>1. f = [j \in DOMAIN f |-> f[j]] /\ DOMAIN f = rest \cup {k}
    OBVIOUS
  <2>2. f[k] = Cache!Entry(m, n) /\ \A j \in rest : j # k => f[j] = c[j]
    OBVIOUS
  <2> HIDE DEF f, rest
  <2>3. DOMAIN f = {KeyOf(entry', x) : x \in Used(entry')}
    BY <2>1, <1>5, <1>6
  <2>4. \A x \in U \ {s} : c[KeyOf(entry, x)] = Value(entry, x)
    BY <1>3 DEF Represents, U
  <2>5. \A x \in Used(entry') : f[KeyOf(entry', x)] = Value(entry', x)
    BY <2>2, <2>4, <1>5, <1>6
  <2>6. Represents(entry', f)
    BY <2>1, <2>3, <2>5 DEF Represents
  <2> QED
    BY <2>6, <1>5, Becomes DEF W
<1> DEFINE Stored == IF k \in Cache!Cached \/ Cache!Cardinality(Cache!Cached) < ARP_CAP
                     THEN Contents(entry') = Cache!With(Contents(entry), k, Cache!Entry(m, n))
                     ELSE \E o \in Cache!Oldest :
                            Contents(entry') = Cache!With(Cache!Without({o}), k, Cache!Entry(m, n))
<1>8. Stored
  <2>1. CASE s \in U /\ KeyOf(entry, s) = k
    <3>1. k \in DOMAIN c /\ rest \cup {k} = DOMAIN c \cup {k}
      BY <2>1, <1>3 DEF Represents, U
    <3>2. Contents(entry') = Cache!With(c, k, Cache!Entry(m, n))
      BY <3>1, <1>7 DEF Cache!With
    <3> QED
      BY <3>1, <3>2, <1>1 DEF Cache!Cached, c
  <2>2. CASE s \notin U
    <3>1. rest = DOMAIN c
      BY <2>2
    <3>2. Contents(entry') = Cache!With(c, k, Cache!Entry(m, n))
      BY <3>1, <1>7 DEF Cache!With
    <3>3. Cardinality(DOMAIN c) < ARP_CAP
      <4>1. IsFiniteSet(U \cup {s}) /\ Cardinality(U \cup {s}) = Cardinality(U) + 1
        BY <2>2, <1>4, FS_AddElement
      <4>2. U \cup {s} \in SUBSET Slots /\ IsFiniteSet(Slots)
        BY <1>4, SlotFacts
      <4>3. Cardinality(U \cup {s}) <= Cardinality(Slots)
        BY <4>2, FS_Subset
      <4>4. Cardinality(U) \in Nat
        BY <1>4, FS_CardinalityType
      <4> QED
        BY <4>1, <4>3, <4>4, <1>4, SlotFacts
    <3>4. k \in Cache!Cached \/ Cache!Cardinality(Cache!Cached) < ARP_CAP
      BY <3>3, SameCount DEF Cache!Cached, c
    <3>5. Contents(entry') = Cache!With(Contents(entry), k, Cache!Entry(m, n))
      BY <3>2 DEF c
    <3> HIDE DEF f, rest, W
    <3> QED
      BY <3>4, <3>5, <1>1
  <2>3. CASE U = Slots /\ s \in Stalest /\ \A x \in U : KeyOf(entry, x) # k
    <3> DEFINE old == KeyOf(entry, s)
    <3>1. k \notin DOMAIN c /\ old \in DOMAIN c /\ c[old] = Value(entry, s)
      BY <2>3, <1>3 DEF Represents, U
    <3>2. ~(Cardinality(DOMAIN c) < ARP_CAP)
      BY <2>3, <1>4, SlotFacts
    <3>3. old \in Cache!Oldest
      <4>1. ASSUME NEW j \in DOMAIN c PROVE c[old].seen <= c[j].seen
        <5>1. PICK x \in U : j = KeyOf(entry, x) /\ c[j] = Value(entry, x)
          BY <1>3 DEF Represents, U
        <5> QED
          BY <2>3, <3>1, <5>1 DEF Stalest, Value
      <4> QED
        BY <3>1, <4>1 DEF Cache!Oldest, Cache!Cached, c
    <3>4. rest = DOMAIN c \ {old}
      BY <2>3
    <3>5. Contents(entry') = Cache!With(Cache!Without({old}), k, Cache!Entry(m, n))
      <4> HIDE DEF old
      <4>1. DOMAIN Cache!Without({old}) = rest /\ \A j \in rest : Cache!Without({old})[j] = c[j]
        BY <3>4 DEF Cache!Without, Cache!Cached, c
      <4> QED
        BY <4>1, <1>7 DEF Cache!With
    <3>6. ~(k \in Cache!Cached \/ Cache!Cardinality(Cache!Cached) < ARP_CAP)
      BY <3>1, <3>2, SameCount DEF Cache!Cached, c
    <3> HIDE DEF f, rest, W, old
    <3>7. \E o \in Cache!Oldest :
            Contents(entry') = Cache!With(Cache!Without({o}), k, Cache!Entry(m, n))
      BY <3>3, <3>5
    <3> QED
      BY <3>6, <3>7, <1>1
  <2> QED
    BY <1>2, <2>1, <2>2, <2>3 DEF Inserted, U
<1>9. Cache!Insert(t)
  <2> HIDE DEF W
  <2> QED
    BY <1>1, <1>r, <1>8 DEF Cache!Insert, MapCalls
<1> QED
  BY <1>9 DEF Cache!Next

(* arp_table.h:8 to 11, arp_table.c:53 to 177: whatever the number of      *)
(* slots, buckets and threads and whatever the hash function, each call on *)
(* the linked table has the effect and the result ArpCache gives a call    *)
(* with its arguments and its clock: a lookup answers with the MAC stored  *)
(* for its own key by the latest insertion of that key, or misses if none  *)
(* was stored or the entry has gone since; an insertion stores its own MAC *)
(* and evicts the least recently used entry; ageing removes what is older  *)
(* than every timeout in force while it ran.                               *)
THEOREM ImplementsMap == Spec => ImplementsArpCache
<1>1. Init => Cache!Init
  BY RefineInit
<1>2. Inv /\ [Next]_vars => [Cache!Next]_(Cache!vars)
  <2> SUFFICES ASSUME Inv, [Next]_vars PROVE Cache!Next \/ UNCHANGED Cache!vars
    OBVIOUS
  <2>1. Calls
    BY DEF Inv
  <2>2. CASE Second
    <3>1. Cache!Tick
      BY <2>2, ArpAssumption DEF Second, calls, Inv, Cache!Tick
    <3> QED
      BY <3>1 DEF Cache!Next
  <2>3. ASSUME NEW sec \in Secs, arp_set_timeout(sec) PROVE Cache!Next
    <3>1. sec \in Timeouts
      BY <2>3 DEF arp_set_timeout, Timeouts
    <3>2. Cache!SetTimeout(sec)
      BY <2>3 DEF arp_set_timeout, calls, Cache!SetTimeout
    <3> QED
      BY <3>1, <3>2 DEF Cache!Next
  <2>4. ASSUME NEW t \in Threads, NEW k \in Keys, Call(t, "lookup", <<k, NoMac>>) PROVE Cache!Next
    <3>1. Cache!Begin(t, "lookup", <<k, NoMac>>)
      BY <2>1, <2>4, RefineCall
    <3> QED
      BY <3>1 DEF Cache!Next
  <2>5. ASSUME NEW k \in Keys, NEW m \in Macs, Call(Receiver, "insert", <<k, m>>) PROVE Cache!Next
    <3>1. Receiver \in Threads
      BY DEF Threads
    <3>2. Cache!Begin(Receiver, "insert", <<k, m>>)
      BY <2>1, <2>5, <3>1, RefineCall
    <3> QED
      BY <3>1, <3>2 DEF Cache!Next
  <2>6. CASE Call(Timer, "age", NoKey)
    <3>1. Timer \in Threads
      BY DEF Threads
    <3>2. Cache!Begin(Timer, "age", NoKey)
      BY <2>1, <2>6, <3>1, RefineCall
    <3> QED
      BY <3>2 DEF Cache!Next
  <2>7. ASSUME NEW t \in Threads, arp_lookup(t) \/ arp_insert(t) \/ arp_tick(t)
        PROVE  Cache!Next
    BY <2>7, RefineLookup, RefineInsert, RefineTick
  <2>8. CASE UNCHANGED vars
    BY <2>8 DEF vars, calls, Cache!vars
  <2> QED
    BY <2>2, <2>3, <2>4, <2>5, <2>6, <2>7, <2>8 DEF Next
<1> QED
  BY <1>1, <1>2, Invariant, PTL DEF Spec, ImplementsArpCache, Cache!Spec
=============================================================================
