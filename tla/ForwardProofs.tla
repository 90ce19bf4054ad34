---------------------------- MODULE ForwardProofs ---------------------------
(* Proofs about the data path for every number of workers, blocks, keys    *)
(* and interfaces, and all limits.                                         *)
EXTENDS Forward, FiniteSetTheorems, TLAPS

(* The homes of blocks and what each holds.                                *)
hFree == <<"free", None>>
hRx == <<"rx", None>>
hTimer == <<"timer", None>>
hTasks == <<"tasks", None>>
hWorker(w) == <<"worker", w>>
hNode(k) == <<"node", k>>
hFlush(f) == <<"flush", f>>
Homes == {hFree, hRx, hTimer, hTasks} \cup {hWorker(w) : w \in Workers}
         \cup {hNode(k) : k \in Keys} \cup {hFlush(f) : f \in Flushers}

Holds(h, b) ==
  IF h[1] = "free" THEN b \in free
  ELSE IF h[1] = "rx" THEN rxblk = b
  ELSE IF h[1] = "timer" THEN tblk = b
  ELSE IF h[1] = "tasks" THEN b \in ToSet(tasks)
  ELSE IF h[1] = "worker" THEN wblk[h[2]] = b
  ELSE IF h[1] = "node" THEN h[2] \in Pending /\ b \in ToSet(pend[h[2]].chain)
  ELSE b \in ToSet(fchain[h[2]])

(* No block has two homes; every block has one, or recvfrom failed with it. *)
OwnedOnce == \A b \in Blocks : \A g, h \in Homes : Holds(g, b) /\ Holds(h, b) => g = h
Owned == \A b \in Blocks \ lost : \E h \in Homes : Holds(h, b)

(* Homes of different kinds, and of different owners, are different.      *)
LEMMA HomeFacts ==
  /\ {hFree, hRx, hTimer, hTasks} \subseteq Homes
  /\ \A w \in Workers : hWorker(w) \in Homes
  /\ \A k \in Keys : hNode(k) \in Homes
  /\ \A f \in Flushers : hFlush(f) \in Homes
  /\ \A h \in Homes : \/ h \in {hFree, hRx, hTimer, hTasks}
                      \/ \E w \in Workers : h = hWorker(w)
                      \/ \E k \in Keys : h = hNode(k)
                      \/ \E f \in Flushers : h = hFlush(f)
  /\ hFree # hRx /\ hFree # hTimer /\ hFree # hTasks
  /\ hRx # hTimer /\ hRx # hTasks /\ hTimer # hTasks
  /\ \A w \in Workers : hWorker(w) \notin {hFree, hRx, hTimer, hTasks}
  /\ \A k \in Keys : hNode(k) \notin {hFree, hRx, hTimer, hTasks}
  /\ \A f \in Flushers : hFlush(f) \notin {hFree, hRx, hTimer, hTasks}
  /\ \A w \in Workers : \A k \in Keys : hWorker(w) # hNode(k)
  /\ \A w \in Workers : \A f \in Flushers : hWorker(w) # hFlush(f)
  /\ \A k \in Keys : \A f \in Flushers : hNode(k) # hFlush(f)
  /\ \A w, v \in Workers : hWorker(w) = hWorker(v) => w = v
  /\ \A k, l \in Keys : hNode(k) = hNode(l) => k = l
  /\ \A f, g \in Flushers : hFlush(f) = hFlush(g) => f = g
BY DEF Homes, hFree, hRx, hTimer, hTasks, hWorker, hNode, hFlush

(* What it means for each home, now and after a step, to hold a block.     *)
LEMMA HoldsFacts ==
  \A b :
    /\ (Holds(hFree, b) <=> b \in free) /\ (Holds(hFree, b)' <=> b \in free')
    /\ (Holds(hRx, b) <=> rxblk = b) /\ (Holds(hRx, b)' <=> rxblk' = b)
    /\ (Holds(hTimer, b) <=> tblk = b) /\ (Holds(hTimer, b)' <=> tblk' = b)
    /\ (Holds(hTasks, b) <=> b \in ToSet(tasks))
    /\ (Holds(hTasks, b)' <=> b \in ToSet(tasks'))
    /\ \A w \in Workers : /\ Holds(hWorker(w), b) <=> wblk[w] = b
                          /\ Holds(hWorker(w), b)' <=> wblk'[w] = b
    /\ \A k \in Keys :
         /\ Holds(hNode(k), b) <=> k \in Pending /\ b \in ToSet(pend[k].chain)
         /\ Holds(hNode(k), b)' <=> k \in Pending' /\ b \in ToSet(pend'[k].chain)
    /\ \A f \in Flushers : /\ Holds(hFlush(f), b) <=> b \in ToSet(fchain[f])
                           /\ Holds(hFlush(f), b)' <=> b \in ToSet(fchain'[f])
BY DEF Holds, hFree, hRx, hTimer, hTasks, hWorker, hNode, hFlush, Pending

(* How a step changes a home: not at all, by giving or by getting blocks M. *)
Same(h) == \A b \in Blocks : Holds(h, b)' <=> Holds(h, b)
Gives(h, M) == \A b \in Blocks : Holds(h, b)' <=> Holds(h, b) /\ b \notin M
Gets(h, M) == \A b \in Blocks : Holds(h, b)' <=> Holds(h, b) \/ b \in M

LEMMA SameFacts ==
  /\ UNCHANGED free => Same(hFree)
  /\ UNCHANGED rxblk => Same(hRx)
  /\ UNCHANGED tblk => Same(hTimer)
  /\ UNCHANGED tasks => Same(hTasks)
  /\ \A w \in Workers : wblk'[w] = wblk[w] => Same(hWorker(w))
  /\ \A k \in Keys : (k \in Pending' <=> k \in Pending) /\ pend'[k] = pend[k] => Same(hNode(k))
  /\ \A f \in Flushers : fchain'[f] = fchain[f] => Same(hFlush(f))
BY HoldsFacts DEF Same

(* A step that takes the blocks M out of one home and puts them in another *)
(* leaves every block with as many homes as it had.                        *)
LEMMA Transfer ==
  ASSUME OwnedOnce, Owned, NEW from \in Homes, NEW to \in Homes, from # to, NEW M,
         \A b \in M : b \in Blocks /\ Holds(from, b),
         Gives(from, M), Gets(to, M), UNCHANGED lost,
         \A h \in Homes \ {from, to} : Same(h)
  PROVE  OwnedOnce' /\ Owned'
<1>1. OwnedOnce'
  <2> SUFFICES ASSUME NEW b \in Blocks, NEW g \in Homes, NEW h \in Homes,
                      Holds(g, b)', Holds(h, b)'
               PROVE  g = h
    BY DEF OwnedOnce
  <2>1. CASE b \in M
    <3>1. \A x \in Homes : Holds(x, b)' => x = to
      BY <2>1 DEF OwnedOnce, Gives, Same
    <3> QED
      BY <3>1
  <2>2. CASE b \notin M
    <3>1. \A x \in Homes : Holds(x, b)' => Holds(x, b)
      BY <2>2 DEF Gives, Gets, Same
    <3> QED
      BY <3>1 DEF OwnedOnce
  <2> QED
    BY <2>1, <2>2
<1>2. Owned'
  <2> SUFFICES ASSUME NEW b \in Blocks \ lost PROVE \E h \in Homes : Holds(h, b)'
    BY DEF Owned
  <2>1. PICK h \in Homes : Holds(h, b)
    BY DEF Owned
  <2> QED
    BY <2>1 DEF Gives, Gets, Same
<1> QED
  BY <1>1, <1>2

(* A step that moves nothing. *)
LEMMA Stay == ASSUME OwnedOnce, Owned, UNCHANGED lost, \A h \in Homes : Same(h)
              PROVE  OwnedOnce' /\ Owned'
<1>1. OwnedOnce'
  BY DEF OwnedOnce, Same
<1>2. Owned'
  BY DEF Owned, Same
<1> QED
  BY <1>1, <1>2
(* A step that moves several blocks, each to one home. *)
LEMMA Moves ==
  ASSUME OwnedOnce, Owned, UNCHANGED lost,
         \A b \in Blocks : \/ \A h \in Homes : Holds(h, b)' <=> Holds(h, b)
                          \/ \E to \in Homes : \A h \in Homes : Holds(h, b)' <=> h = to
  PROVE  OwnedOnce' /\ Owned'
<1>1. OwnedOnce'
  BY DEF OwnedOnce
<1>2. Owned'
  BY DEF Owned
<1> QED
  BY <1>1, <1>2
-----------------------------------------------------------------------------
LEMMA EmptySeq == ASSUME NEW S, NEW s \in Seq(S) PROVE s = <<>> <=> Len(s) = 0
OBVIOUS

(* Sequences without repetition, as queues and chains are. *)
Distinct(s) == \A i, j \in DOMAIN s : s[i] = s[j] => i = j

LEMMA SeqAppend == ASSUME NEW S, NEW s \in Seq(S), NEW b \in S
                   PROVE  /\ Append(s, b) \in Seq(S) /\ Len(Append(s, b)) = Len(s) + 1
                          /\ ToSet(Append(s, b)) = ToSet(s) \cup {b}
                          /\ Distinct(s) /\ b \notin ToSet(s) => Distinct(Append(s, b))
<1> DEFINE t == Append(s, b)
<1>1. t \in Seq(S) /\ Len(t) = Len(s) + 1 /\ DOMAIN t = 1..(Len(s) + 1)
      /\ DOMAIN s = 1..Len(s) /\ Len(s) \in Nat
  OBVIOUS
<1>2. t[Len(s) + 1] = b /\ \A i \in 1..Len(s) : t[i] = s[i]
  OBVIOUS
<1> HIDE DEF t
<1>3. \A i \in DOMAIN t : i = Len(s) + 1 \/ (i \in DOMAIN s /\ t[i] = s[i])
  BY <1>1, <1>2
<1>4. ToSet(t) = ToSet(s) \cup {b}
  BY <1>1, <1>2, <1>3 DEF ToSet
<1>5. Distinct(s) /\ b \notin ToSet(s) => Distinct(t)
  BY <1>1, <1>2, <1>3 DEF ToSet, Distinct
<1> QED
  BY <1>1, <1>4, <1>5 DEF t

LEMMA SeqPush == ASSUME NEW S, NEW s \in Seq(S), NEW b \in S
                 PROVE  /\ <<b>> \o s \in Seq(S) /\ Len(<<b>> \o s) = Len(s) + 1
                        /\ ToSet(<<b>> \o s) = ToSet(s) \cup {b}
                        /\ Distinct(s) /\ b \notin ToSet(s) => Distinct(<<b>> \o s)
<1> DEFINE t == <<b>> \o s
<1>1. t \in Seq(S) /\ Len(t) = Len(s) + 1 /\ t[1] = b
      /\ \A i \in 1..Len(s) : t[i + 1] = s[i]
  OBVIOUS
<1>2. DOMAIN s = 1..Len(s) /\ DOMAIN t = 1..(Len(s) + 1) /\ Len(s) \in Nat
  BY <1>1
<1> HIDE DEF t
<1>3. \A i \in DOMAIN t : i = 1 \/ (i - 1 \in DOMAIN s /\ t[i] = s[i - 1])
  BY <1>1, <1>2
<1>4. ToSet(t) = ToSet(s) \cup {b}
  <2>1. \A x \in ToSet(s) : x \in ToSet(t)
    BY <1>1, <1>2 DEF ToSet
  <2> QED
    BY <2>1, <1>1, <1>2, <1>3 DEF ToSet
<1>5. Distinct(s) /\ b \notin ToSet(s) => Distinct(t)
  BY <1>1, <1>2, <1>3 DEF ToSet, Distinct
<1> QED
  BY <1>1, <1>4, <1>5 DEF t

LEMMA SeqTail == ASSUME NEW S, NEW s \in Seq(S), s # <<>>, Distinct(s)
                 PROVE  /\ Head(s) \in S /\ Head(s) \in ToSet(s)
                        /\ Tail(s) \in Seq(S) /\ Len(Tail(s)) = Len(s) - 1
                        /\ ToSet(Tail(s)) = ToSet(s) \ {Head(s)}
                        /\ Distinct(Tail(s))
                        /\ Len(s) = 1 <=> Tail(s) = <<>>
<1> DEFINE t == Tail(s)
<1>1. /\ Len(s) \in Nat \ {0} /\ DOMAIN s = 1..Len(s) /\ Head(s) = s[1] /\ s[1] \in S
      /\ t \in Seq(S) /\ Len(t) = Len(s) - 1 /\ DOMAIN t = 1..(Len(s) - 1)
      /\ \A i \in 1..(Len(s) - 1) : t[i] = s[i + 1]
      /\ Len(s) = 1 <=> t = <<>>
  <2>1. Len(s) \in Nat \ {0} /\ DOMAIN s = 1..Len(s) /\ Head(s) = s[1] /\ s[1] \in S
    OBVIOUS
  <2>2. t \in Seq(S) /\ Len(t) = Len(s) - 1 /\ DOMAIN t = 1..(Len(s) - 1)
    OBVIOUS
  <2>3. \A i \in 1..(Len(s) - 1) : t[i] = s[i + 1]
    OBVIOUS
  <2>4. Len(s) = 1 <=> t = <<>>
    BY <2>2, EmptySeq
  <2> QED
    BY <2>1, <2>2, <2>3, <2>4
<1> HIDE DEF t
<1>2. ToSet(t) = ToSet(s) \ {s[1]}
  <2>1. \A x \in ToSet(s) : x # s[1] => x \in ToSet(t)
    <3> SUFFICES ASSUME NEW i \in DOMAIN s, s[i] # s[1] PROVE s[i] \in ToSet(t)
      BY DEF ToSet
    <3>1. i - 1 \in 1..(Len(s) - 1) /\ t[i - 1] = s[i]
      BY <1>1
    <3> QED
      BY <3>1, <1>1 DEF ToSet
  <2>2. \A x \in ToSet(t) : x \in ToSet(s) /\ x # s[1]
    BY <1>1 DEF ToSet, Distinct
  <2> QED
    BY <2>1, <2>2
<1>3. Distinct(t)
  <2> SUFFICES ASSUME NEW i \in 1..(Len(s) - 1), NEW j \in 1..(Len(s) - 1), t[i] = t[j]
               PROVE  i = j
    BY <1>1 DEF Distinct
  <2>1. s[i + 1] = s[j + 1] /\ i + 1 \in DOMAIN s /\ j + 1 \in DOMAIN s
    BY <1>1
  <2> QED
    BY <2>1 DEF Distinct
<1>4. s[1] \in ToSet(s)
  BY <1>1 DEF ToSet
<1> QED
  BY <1>1, <1>2, <1>3, <1>4 DEF t

LEMMA SeqOne == ASSUME NEW S, NEW b \in S
                PROVE  /\ <<b>> \in Seq(S) /\ Len(<<b>>) = 1
                       /\ ToSet(<<b>>) = {b} /\ Distinct(<<b>>)
BY DEF ToSet, Distinct
-----------------------------------------------------------------------------
(* Where a thread is says what it holds: a block exactly where the code    *)
(* has one in hand, a chain exactly while it sends it, a key as long as it *)
(* needs one; a flush runs only where its caller waits for it.             *)
ControlInv ==
  /\ rxpc = "alloc" <=> rxblk = None
  /\ tpc = "asked" <=> tblk # None
  /\ tpc = "asked" => fkey["timer"] \in Keys
  /\ \A w \in Workers : /\ wpc[w] \in {"idle", "ask"} <=> wblk[w] = None
                        /\ wpc[w] \notin {"idle", "decide"} => wkey[w] \in Keys
  /\ \A f \in Flushers : /\ fpc[f] = "send" <=> fchain[f] # <<>>
                         /\ fpc[f] # "off" => fkey[f] \in Keys
  /\ rxpc # "flush" => fpc["rx"] = "off"
  /\ tpc # "flush" => fpc["timer"] = "off"

(* The queue and the chains name no block twice. *)
DistinctInv == /\ Distinct(tasks)
               /\ \A k \in Pending : Distinct(pend[k].chain)
               /\ \A f \in Flushers : Distinct(fchain[f])

Inv == /\ TypeOK /\ IsFiniteSet(Pending) /\ ControlInv /\ DistinctInv
       /\ OwnedOnce /\ Owned

(* Most steps leave the pending table alone. *)
LEMMA TableSame == ASSUME Inv, UNCHANGED pend
                   PROVE  /\ Pending' = Pending /\ IsFiniteSet(Pending')
                          /\ Pending' \subseteq Keys /\ Cardinality(Pending') <= PEND_MAX
                          /\ \A k \in Pending' : /\ pend'[k].chain \in Seq(Blocks)
                                                 /\ Len(pend'[k].chain) \in 1..PEND_CHAIN_MAX
                                                 /\ pend'[k].retries \in 0..ARP_RETRY_MAX
                                                 /\ Distinct(pend'[k].chain)
                          /\ \A k \in Keys : Same(hNode(k))
<1>1. Pending' = Pending
  BY DEF Pending
<1>2. \A k \in Keys : Same(hNode(k))
  BY <1>1, SameFacts
<1> QED
  BY <1>1, <1>2 DEF Inv, TypeOK, DistinctInv

LEMMA InitInv == Init => Inv
<1> SUFFICES ASSUME Init PROVE Inv
  OBVIOUS
<1>1. Pending = {} /\ IsFiniteSet(Pending) /\ Cardinality(Pending) = 0
  BY FS_EmptySet DEF Init, Pending
<1>2. TypeOK
  BY <1>1, CapsAssumption DEF Init, TypeOK, BlockOrNone, KeyOrNone
<1>3. ControlInv
  BY DEF Init, ControlInv, Flushers
<1>4. DistinctInv
  BY <1>1 DEF Init, DistinctInv, Distinct
<1>5. \A b \in Blocks, h \in Homes : Holds(h, b) => h = hFree
  BY <1>1, HomeFacts, HoldsFacts, BlocksAssumption DEF Init, ToSet, Blocks
<1>6. OwnedOnce /\ Owned
  BY <1>5, HomeFacts, HoldsFacts DEF OwnedOnce, Owned, Init
<1> QED
  BY <1>1, <1>2, <1>3, <1>4, <1>6 DEF Inv
-----------------------------------------------------------------------------
(* Steps of the receive loop: allocate, give up, queue or free the block,   *)
(* or learn from it and flush.                                             *)
LEMMA RxAllocStep == ASSUME Inv, RxAlloc PROVE Inv'
<1> USE BlocksAssumption
<1>1. PICK b \in free : rxblk' = b /\ free' = free \ {b}
  BY DEF RxAlloc
<1>2. /\ UNCHANGED <<lost, tasks, known, pend, wpc, wblk, wkey, tpc, tkeys, tblk, fpc, fkey, fchain>>
      /\ rxpc = "alloc" /\ rxpc' = "recv" /\ rxblk = None /\ b \in Blocks /\ b # None
  BY <1>1 DEF RxAlloc, wvars, tvars, fvars, Inv, TypeOK, ControlInv, Blocks
<1>3. TypeOK' /\ IsFiniteSet(Pending')
  BY <1>1, <1>2, TableSame DEF Inv, TypeOK, BlockOrNone
<1>4. ControlInv'
  BY <1>1, <1>2 DEF Inv, ControlInv
<1>5. DistinctInv'
  BY <1>2, TableSame DEF Inv, DistinctInv
<1>6. OwnedOnce' /\ Owned'
  <2>1. \A h \in Homes \ {hFree, hRx} : Same(h)
    BY <1>2, TableSame, HomeFacts, SameFacts
  <2>2. Gives(hFree, {b}) /\ Gets(hRx, {b}) /\ Holds(hFree, b)
    BY <1>1, <1>2, HoldsFacts DEF Gives, Gets, Blocks
  <2> QED
    BY <1>1, <1>2, <2>1, <2>2, Transfer, HomeFacts DEF Inv
<1> QED
  BY <1>3, <1>4, <1>5, <1>6 DEF Inv

(* The failure of recvfrom forgets the block: it has no home any more.     *)
LEMMA RxErrorStep == ASSUME Inv, RxError PROVE Inv'
<1> USE BlocksAssumption
<1>1. /\ UNCHANGED <<free, tasks, known, pend, wpc, wblk, wkey, tpc, tkeys, tblk, fpc, fkey, fchain>>
      /\ rxpc = "recv" /\ rxpc' = "alloc" /\ rxblk' = None
      /\ lost' = lost \cup {rxblk} /\ rxblk \in Blocks
  BY DEF RxError, wvars, tvars, fvars, Inv, TypeOK, ControlInv, BlockOrNone
<1>2. TypeOK' /\ IsFiniteSet(Pending')
  BY <1>1, TableSame DEF Inv, TypeOK, BlockOrNone
<1>3. ControlInv'
  BY <1>1 DEF Inv, ControlInv
<1>4. DistinctInv'
  BY <1>1, TableSame DEF Inv, DistinctInv
<1>5. OwnedOnce'
  <2>1. \A h \in Homes \ {hRx} : Same(h)
    BY <1>1, TableSame, HomeFacts, SameFacts
  <2>2. \A b \in Blocks : ~Holds(hRx, b)'
    BY <1>1, HoldsFacts DEF Blocks
  <2> QED
    BY <2>1, <2>2 DEF Inv, OwnedOnce, Same
<1>6. Owned'
  <2> SUFFICES ASSUME NEW b \in Blocks, b \notin lost, b # rxblk
               PROVE  \E h \in Homes : Holds(h, b)'
    BY <1>1 DEF Owned
  <2>1. PICK h \in Homes : Holds(h, b)
    BY DEF Inv, Owned
  <2>2. h # hRx
    BY <2>1, HoldsFacts
  <2>3. Same(h)
    BY <1>1, <2>2, TableSame, HomeFacts, SameFacts
  <2> QED
    BY <2>1, <2>3 DEF Same
<1> QED
  BY <1>2, <1>3, <1>4, <1>5, <1>6 DEF Inv

(* The block is freed, at once, for want of room in the queue, after a     *)
(* frame that is not answered, or after the flush.                         *)
LEMMA RxFreeStep ==
  ASSUME Inv, rxpc \in {"recv", "flush"}, rxpc' = "alloc", rxblk' = None,
         free' = free \cup {rxblk}, rxpc = "flush" => fpc["rx"] = "off",
         known' \subseteq Keys,
         UNCHANGED <<lost, tasks, pend, wpc, wblk, wkey, tpc, tkeys, tblk, fpc, fkey, fchain>>
  PROVE  Inv'
<1> USE BlocksAssumption
<1>1. rxblk \in Blocks /\ rxblk # None
  BY DEF Inv, TypeOK, ControlInv, BlockOrNone
<1>2. TypeOK' /\ IsFiniteSet(Pending')
  BY <1>1, TableSame DEF Inv, TypeOK, BlockOrNone
<1>3. ControlInv'
  BY DEF Inv, ControlInv
<1>4. DistinctInv'
  BY TableSame DEF Inv, DistinctInv
<1>5. OwnedOnce' /\ Owned'
  <2>1. \A h \in Homes \ {hFree, hRx} : Same(h)
    BY TableSame, HomeFacts, SameFacts
  <2>2. Gives(hRx, {rxblk}) /\ Gets(hFree, {rxblk}) /\ Holds(hRx, rxblk)
    BY <1>1, HoldsFacts DEF Gives, Gets, Blocks
  <2> QED
    BY <1>1, <2>1, <2>2, Transfer, HomeFacts DEF Inv
<1> QED
  BY <1>2, <1>3, <1>4, <1>5 DEF Inv

LEMMA RxQueueStep ==
  ASSUME Inv, RxSubmit, Len(tasks) # TASK_CAP
  PROVE  Inv'
<1> USE BlocksAssumption
<1>1. /\ UNCHANGED <<lost, free, known, pend, wpc, wblk, wkey, tpc, tkeys, tblk, fpc, fkey, fchain>>
      /\ rxpc = "recv" /\ rxpc' = "alloc" /\ rxblk' = None
      /\ tasks' = Append(tasks, rxblk)
  BY DEF RxSubmit, wvars, tvars, fvars
<1>2. rxblk \in Blocks /\ rxblk # None /\ rxblk \notin ToSet(tasks)
  <2>1. rxblk \in Blocks /\ rxblk # None
    BY <1>1 DEF Inv, TypeOK, ControlInv, BlockOrNone
  <2> QED
    BY <2>1, HomeFacts, HoldsFacts DEF Inv, OwnedOnce
<1>3. /\ tasks' \in Seq(Blocks) /\ Len(tasks') <= TASK_CAP /\ Distinct(tasks')
      /\ ToSet(tasks') = ToSet(tasks) \cup {rxblk}
  <2>1. tasks \in Seq(Blocks) /\ Len(tasks) < TASK_CAP /\ Len(tasks) \in Nat /\ Distinct(tasks)
    BY CapsAssumption DEF Inv, TypeOK, DistinctInv
  <2> QED
    BY <1>1, <1>2, <2>1, SeqAppend, CapsAssumption
<1>4. TypeOK' /\ IsFiniteSet(Pending')
  BY <1>1, <1>3, TableSame DEF Inv, TypeOK, BlockOrNone
<1>5. ControlInv'
  BY <1>1 DEF Inv, ControlInv
<1>6. DistinctInv'
  BY <1>1, <1>3, TableSame DEF Inv, DistinctInv
<1>7. OwnedOnce' /\ Owned'
  <2>1. \A h \in Homes \ {hTasks, hRx} : Same(h)
    BY <1>1, TableSame, HomeFacts, SameFacts
  <2>2. Gives(hRx, {rxblk}) /\ Gets(hTasks, {rxblk}) /\ Holds(hRx, rxblk)
    BY <1>1, <1>2, <1>3, HoldsFacts DEF Gives, Gets, Blocks
  <2> QED
    BY <1>1, <1>2, <2>1, <2>2, Transfer, HomeFacts DEF Inv
<1> QED
  BY <1>4, <1>5, <1>6, <1>7 DEF Inv

LEMMA LearnType == ASSUME Inv, NEW k \in Keys, Learn(k) PROVE known' \subseteq Keys
BY DEF Inv, TypeOK, Learn

LEMMA RxAnsweredStep == ASSUME Inv, NEW k \in Keys, RxArpAnswered(k) PROVE Inv'
<1>1. /\ UNCHANGED <<lost, free, tasks, pend, rxblk, wpc, wblk, wkey, tpc, tkeys, tblk, fchain>>
      /\ rxpc = "recv" /\ rxpc' = "flush" /\ known' \subseteq Keys
      /\ fpc' = [fpc EXCEPT !["rx"] = "lookup"] /\ fkey' = [fkey EXCEPT !["rx"] = k]
      /\ "rx" \in Flushers /\ "timer" \in Flushers
  BY LearnType DEF RxArpAnswered, wvars, tvars, Flushers
<1>2. TypeOK' /\ IsFiniteSet(Pending')
  BY <1>1, TableSame DEF Inv, TypeOK, KeyOrNone
<1>3. ControlInv'
  BY <1>1 DEF Inv, TypeOK, ControlInv
<1>4. DistinctInv'
  BY <1>1, TableSame DEF Inv, DistinctInv
<1>5. \A h \in Homes : Same(h)
  BY <1>1, TableSame, HomeFacts, SameFacts
<1>6. OwnedOnce' /\ Owned'
  BY <1>1, <1>5, Stay DEF Inv
<1> QED
  BY <1>2, <1>3, <1>4, <1>6 DEF Inv

LEMMA RxStep == ASSUME Inv, Rx PROVE Inv'
<1>1. ASSUME RxDiscard PROVE Inv'
  <2>1. known' \subseteq Keys
    BY <1>1 DEF RxDiscard, Inv, TypeOK
  <2> QED
    BY <1>1, <2>1, RxFreeStep DEF RxDiscard, Discard, wvars, tvars, fvars
<1>2. ASSUME RxSubmit PROVE Inv'
  <2>1. known' \subseteq Keys
    BY <1>2 DEF RxSubmit, Inv, TypeOK
  <2>2. CASE Len(tasks) = TASK_CAP
    BY <1>2, <2>1, <2>2, RxFreeStep DEF RxSubmit, Discard, wvars, tvars, fvars
  <2> QED
    BY <1>2, <2>2, RxQueueStep
<1>3. ASSUME NEW k \in Keys, RxArpFreed(k) PROVE Inv'
  BY <1>3, RxFreeStep, LearnType DEF RxArpFreed, wvars, tvars, fvars
<1>4. ASSUME RxFlushed PROVE Inv'
  <2>1. known' \subseteq Keys
    BY <1>4 DEF RxFlushed, Inv, TypeOK
  <2> QED
    BY <1>4, <2>1, RxFreeStep DEF RxFlushed, wvars, tvars, fvars
<1> QED
  BY <1>1, <1>2, <1>3, <1>4, RxAllocStep, RxErrorStep, RxAnsweredStep DEF Rx, RxArp
-----------------------------------------------------------------------------
(* forward_flush_pending: the lookup moves nothing, the detachment moves a *)
(* whole chain, and each frame sent goes back to the pool.                 *)
LEMMA FlushLookStep == ASSUME Inv, NEW f \in Flushers, FlushMiss(f) \/ FlushHit(f) PROVE Inv'
<1>1. /\ UNCHANGED <<lost, free, tasks, known, pend, rxpc, rxblk, wpc, wblk, wkey, tpc, tkeys, tblk, fchain>>
      /\ fpc[f] = "lookup"
      /\ \/ fpc' = [fpc EXCEPT ![f] = "off"] /\ fkey' = [fkey EXCEPT ![f] = None]
         \/ fpc' = [fpc EXCEPT ![f] = "detach"] /\ UNCHANGED fkey
  BY DEF FlushMiss, FlushHit, rxvars, wvars, tvars
<1>2. TypeOK' /\ IsFiniteSet(Pending')
  BY <1>1, TableSame DEF Inv, TypeOK, KeyOrNone
<1>3. ControlInv'
  <2>1. (rxpc # "flush" => f = "timer") /\ (tpc # "flush" => f = "rx")
    BY <1>1 DEF Inv, ControlInv, Flushers
  <2>2. fkey[f] \in Keys /\ fchain[f] = <<>>
    BY <1>1 DEF Inv, ControlInv
  <2>3. \A g \in Flushers : /\ fpc'[g] = "send" <=> fchain'[g] # <<>>
                            /\ fpc'[g] # "off" => fkey'[g] \in Keys
    BY <1>1, <2>2 DEF Inv, TypeOK, ControlInv
  <2>4. (rxpc' # "flush" => fpc'["rx"] = "off") /\ (tpc' # "flush" => fpc'["timer"] = "off")
    BY <1>1, <2>1 DEF Inv, TypeOK, ControlInv, Flushers
  <2>5. tpc' = "asked" => fkey'["timer"] \in Keys
    BY <1>1, <2>1 DEF Inv, TypeOK, ControlInv, Flushers
  <2> QED
    BY <1>1, <2>3, <2>4, <2>5 DEF Inv, ControlInv
<1>4. DistinctInv'
  BY <1>1, TableSame DEF Inv, DistinctInv
<1>5. \A h \in Homes : Same(h)
  BY <1>1, TableSame, HomeFacts, SameFacts
<1>6. OwnedOnce' /\ Owned'
  BY <1>1, <1>5, Stay DEF Inv
<1> QED
  BY <1>2, <1>3, <1>4, <1>6 DEF Inv

(* What is left of the table when a key is dropped from it. *)
LEMMA TableDrop ==
  ASSUME Inv, NEW k \in Pending, pend' = Drop(k, pend)
  PROVE  /\ Pending' = Pending \ {k} /\ IsFiniteSet(Pending')
         /\ Pending' \subseteq Keys /\ Cardinality(Pending') <= PEND_MAX
         /\ \A l \in Pending' : pend'[l] = pend[l]
<1>1. Pending' = Pending \ {k} /\ \A l \in Pending' : pend'[l] = pend[l]
  BY DEF Pending, Drop
<1>2. IsFiniteSet(Pending) /\ Cardinality(Pending) \in Nat /\ Cardinality(Pending) <= PEND_MAX
  BY FS_CardinalityType DEF Inv, TypeOK
<1>3. IsFiniteSet(Pending') /\ Cardinality(Pending') = Cardinality(Pending) - 1
  BY <1>1, <1>2, FS_RemoveElement
<1> QED
  BY <1>1, <1>2, <1>3, CapsAssumption DEF Inv, TypeOK

LEMMA FlushDetachStep == ASSUME Inv, NEW f \in Flushers, FlushDetach(f) PROVE Inv'
<1>0. PICK k \in Keys : k = fkey[f]
  BY DEF FlushDetach, Inv, ControlInv
<1>1. /\ UNCHANGED <<lost, free, tasks, known, rxpc, rxblk, wpc, wblk, wkey, tpc, tkeys, tblk>>
      /\ fpc[f] = "detach" /\ fchain[f] = <<>>
  BY DEF FlushDetach, rxvars, wvars, tvars, Inv, ControlInv
<1>2. CASE k \notin Pending
  <2>1. /\ UNCHANGED <<pend, fchain>>
        /\ fpc' = [fpc EXCEPT ![f] = "off"] /\ fkey' = [fkey EXCEPT ![f] = None]
    BY <1>0, <1>2 DEF FlushDetach
  <2>2. TypeOK' /\ IsFiniteSet(Pending')
    BY <1>1, <2>1, TableSame DEF Inv, TypeOK, KeyOrNone
  <2>3. ControlInv'
    BY <1>1, <2>1 DEF Inv, TypeOK, ControlInv
  <2>4. DistinctInv'
    BY <1>1, <2>1, TableSame DEF Inv, DistinctInv
  <2>5. \A h \in Homes : Same(h)
    BY <1>1, <2>1, TableSame, HomeFacts, SameFacts
  <2>6. OwnedOnce' /\ Owned'
    BY <1>1, <2>5, Stay DEF Inv
  <2> QED
    BY <2>2, <2>3, <2>4, <2>6 DEF Inv
<1>3. CASE k \in Pending
  <2> DEFINE c == pend[k].chain
  <2>1. /\ fchain' = [fchain EXCEPT ![f] = c] /\ UNCHANGED fkey
        /\ fpc' = [fpc EXCEPT ![f] = "send"] /\ pend' = Drop(k, pend)
    BY <1>0, <1>3 DEF FlushDetach
  <2>2. c \in Seq(Blocks) /\ Len(c) \in 1..PEND_CHAIN_MAX /\ Distinct(c) /\ c # <<>>
    <3>1. c \in Seq(Blocks) /\ Len(c) \in 1..PEND_CHAIN_MAX /\ Distinct(c)
      BY <1>3 DEF Inv, TypeOK, DistinctInv
    <3> QED
      BY <3>1, EmptySeq, CapsAssumption
  <2> HIDE DEF c
  <2>3. TypeOK' /\ IsFiniteSet(Pending')
    BY <1>1, <1>3, <2>1, <2>2, TableDrop DEF Inv, TypeOK
  <2>4. ControlInv'
    BY <1>0, <1>1, <2>1, <2>2 DEF Inv, TypeOK, ControlInv
  <2>5. DistinctInv'
    BY <1>1, <1>3, <2>1, <2>2, TableDrop DEF Inv, TypeOK, DistinctInv
  <2>6. OwnedOnce' /\ Owned'
    <3>1. \A h \in Homes \ {hNode(k), hFlush(f)} : Same(h)
      <4>1. \A l \in Keys \ {k} : (l \in Pending' <=> l \in Pending)
                                  /\ (l \in Pending => pend'[l] = pend[l])
        BY <1>3, <2>1, TableDrop
      <4>2. \A l \in Keys \ {k} : Same(hNode(l))
        BY <4>1, HoldsFacts DEF Same
      <4>3. \A g \in Flushers \ {f} : fchain'[g] = fchain[g]
        BY <2>1 DEF Inv, TypeOK
      <4> QED
        BY <1>1, <4>2, <4>3, HomeFacts, SameFacts
    <3>2. Gives(hNode(k), ToSet(c)) /\ \A b \in ToSet(c) : b \in Blocks /\ Holds(hNode(k), b)
      <4>1. k \notin Pending'
        BY <1>3, <2>1, TableDrop
      <4>2. \A b \in Blocks : Holds(hNode(k), b) <=> b \in ToSet(c)
        BY <1>1, <1>3, HoldsFacts DEF c
      <4>3. \A b \in ToSet(c) : b \in Blocks
        BY <2>2 DEF ToSet
      <4>4. \A b \in Blocks : ~Holds(hNode(k), b)'
        BY <1>1, <4>1, HoldsFacts
      <4>5. Gives(hNode(k), ToSet(c))
        BY <4>2, <4>4 DEF Gives
      <4> QED
        BY <4>2, <4>3, <4>5
    <3>3. Gets(hFlush(f), ToSet(c))
      <4>1. fchain'[f] = c /\ ToSet(<<>>) = {}
        BY <2>1 DEF Inv, TypeOK, ToSet
      <4> QED
        BY <1>1, <4>1, HoldsFacts DEF Gets
    <3>4. hNode(k) # hFlush(f)
      BY <1>1, HomeFacts
    <3> QED
      BY <1>1, <3>1, <3>2, <3>3, <3>4, Transfer, HomeFacts DEF Inv
  <2> QED
    BY <2>3, <2>4, <2>5, <2>6 DEF Inv
<1> QED
  BY <1>2, <1>3

LEMMA FlushSendStep == ASSUME Inv, NEW f \in Flushers, FlushSend(f) PROVE Inv'
<1>0. fchain[f] \in Seq(Blocks) /\ fchain[f] # <<>> /\ Distinct(fchain[f])
  BY DEF FlushSend, Inv, TypeOK, ControlInv, DistinctInv
<1>b. PICK b \in Blocks : b = Head(fchain[f])
  BY <1>0, SeqTail
<1>1. /\ UNCHANGED <<lost, tasks, known, pend, rxpc, rxblk, wpc, wblk, wkey, tpc, tkeys, tblk>>
      /\ fpc[f] = "send" /\ free' = free \cup {b}
      /\ fchain' = [fchain EXCEPT ![f] = Tail(fchain[f])]
      /\ fpc' = [fpc EXCEPT ![f] = IF Len(fchain[f]) = 1 THEN "off" ELSE "send"]
      /\ fkey' = [fkey EXCEPT ![f] = IF Len(fchain[f]) = 1 THEN None ELSE fkey[f]]
  BY <1>b DEF FlushSend, ForwardSend, rxvars, wvars, tvars, Inv, TypeOK
<1>2. /\ b \in Blocks /\ b \in ToSet(fchain[f]) /\ Tail(fchain[f]) \in Seq(Blocks)
      /\ ToSet(Tail(fchain[f])) = ToSet(fchain[f]) \ {b} /\ Distinct(Tail(fchain[f]))
      /\ Len(fchain[f]) = 1 <=> Tail(fchain[f]) = <<>>
  BY <1>0, <1>b, SeqTail
<1>3. TypeOK' /\ IsFiniteSet(Pending')
  <2>1. fkey' \in [Flushers -> KeyOrNone]
    BY <1>1 DEF Inv, TypeOK, KeyOrNone
  <2> QED
    BY <1>1, <1>2, <2>1, TableSame DEF Inv, TypeOK
<1>4. ControlInv'
  <2>1. rxpc # "flush" => f = "timer"
    BY <1>1 DEF Inv, ControlInv, Flushers
  <2>2. tpc # "flush" => f = "rx"
    BY <1>1 DEF Inv, ControlInv, Flushers
  <2>3. \A g \in Flushers : /\ fpc'[g] = "send" <=> fchain'[g] # <<>>
                            /\ fpc'[g] # "off" => fkey'[g] \in Keys
    BY <1>1, <1>2 DEF Inv, TypeOK, ControlInv
  <2>4. (rxpc' # "flush" => fpc'["rx"] = "off") /\ (tpc' # "flush" => fpc'["timer"] = "off")
    BY <1>1, <2>1, <2>2 DEF Inv, TypeOK, ControlInv, Flushers
  <2>5. tpc' = "asked" => fkey'["timer"] \in Keys
    BY <1>1, <2>1, <2>2 DEF Inv, TypeOK, ControlInv, Flushers
  <2> QED
    BY <1>1, <2>3, <2>4, <2>5 DEF Inv, ControlInv
<1>5. DistinctInv'
  BY <1>1, <1>2, TableSame DEF Inv, TypeOK, DistinctInv
<1>6. OwnedOnce' /\ Owned'
  <2>1. \A h \in Homes \ {hFree, hFlush(f)} : Same(h)
    <3>1. \A g \in Flushers \ {f} : fchain'[g] = fchain[g]
      BY <1>1 DEF Inv, TypeOK
    <3> QED
      BY <1>1, <3>1, TableSame, HomeFacts, SameFacts
  <2>2. Gives(hFlush(f), {b}) /\ Gets(hFree, {b}) /\ Holds(hFlush(f), b)
    <3>1. fchain'[f] = Tail(fchain[f])
      BY <1>1 DEF Inv, TypeOK
    <3>2. \A x \in Blocks : /\ Holds(hFlush(f), x) <=> x \in ToSet(fchain[f])
                            /\ Holds(hFlush(f), x)' <=> x \in ToSet(Tail(fchain[f]))
      BY <3>1, HoldsFacts
    <3>3. Gives(hFlush(f), {b}) /\ Holds(hFlush(f), b)
      BY <1>2, <3>2 DEF Gives
    <3>4. Gets(hFree, {b})
      BY <1>1, HoldsFacts DEF Gets
    <3> QED
      BY <3>3, <3>4
  <2>3. hFlush(f) # hFree
    BY HomeFacts
  <2> QED
    BY <1>1, <1>2, <2>1, <2>2, <2>3, Transfer, HomeFacts DEF Inv
<1> QED
  BY <1>3, <1>4, <1>5, <1>6 DEF Inv

LEMMA FlushStep == ASSUME Inv, NEW f \in Flushers, Flush(f) PROVE Inv'
BY FlushLookStep, FlushDetachStep, FlushSendStep DEF Flush
-----------------------------------------------------------------------------
(* Workers. *)
LEMMA TakeStep == ASSUME Inv, NEW w \in Workers, Take(w) PROVE Inv'
<1> USE BlocksAssumption
<1>1. /\ tasks \in Seq(Blocks) /\ tasks # <<>> /\ Distinct(tasks)
      /\ Len(tasks) \in Nat /\ Len(tasks) <= TASK_CAP
  BY DEF Take, Inv, TypeOK, DistinctInv
<1>2. PICK b \in Blocks : b = Head(tasks)
  BY <1>1, SeqTail
<1>3. /\ UNCHANGED <<lost, free, known, pend, rxpc, rxblk, wkey, tpc, tkeys, tblk, fpc, fkey, fchain>>
      /\ wpc[w] = "idle" /\ wpc' = [wpc EXCEPT ![w] = "decide"]
      /\ wblk[w] = None /\ wblk' = [wblk EXCEPT ![w] = b] /\ tasks' = Tail(tasks)
      /\ b # None
  BY <1>2 DEF Take, rxvars, tvars, fvars, Inv, ControlInv, Blocks
<1>4. /\ tasks' \in Seq(Blocks) /\ Len(tasks') <= TASK_CAP /\ Distinct(tasks')
      /\ ToSet(tasks') = ToSet(tasks) \ {b} /\ b \in ToSet(tasks)
  <2>1. Len(Tail(tasks)) = Len(tasks) - 1
    BY <1>1, SeqTail
  <2> QED
    BY <1>1, <1>2, <1>3, <2>1, SeqTail, CapsAssumption
<1>5. TypeOK' /\ IsFiniteSet(Pending')
  BY <1>3, <1>4, TableSame DEF Inv, TypeOK, BlockOrNone
<1>6. ControlInv'
  BY <1>3 DEF Inv, TypeOK, ControlInv
<1>7. DistinctInv'
  BY <1>3, <1>4, TableSame DEF Inv, DistinctInv
<1>8. OwnedOnce' /\ Owned'
  <2>1. \A v \in Workers \ {w} : wblk'[v] = wblk[v]
    BY <1>3 DEF Inv, TypeOK
  <2>2. \A h \in Homes \ {hTasks, hWorker(w)} : Same(h)
    BY <1>3, <2>1, TableSame, HomeFacts, SameFacts
  <2>3. Gives(hTasks, {b}) /\ Holds(hTasks, b)
    BY <1>4, HoldsFacts DEF Gives
  <2>4. Gets(hWorker(w), {b})
    <3>1. wblk'[w] = b
      BY <1>3 DEF Inv, TypeOK
    <3> QED
      BY <1>3, <3>1, HoldsFacts DEF Gets, Blocks
  <2>5. hTasks # hWorker(w)
    BY HomeFacts
  <2> QED
    BY <1>3, <2>2, <2>3, <2>4, <2>5, Transfer, HomeFacts DEF Inv
<1> QED
  BY <1>5, <1>6, <1>7, <1>8 DEF Inv

(* A worker frees its block: refused, sent, asked with, or the one too     *)
(* many for its chain.                                                     *)
LEMMA WorkerFreeStep ==
  ASSUME Inv, NEW w \in Workers, wpc[w] \notin {"idle", "ask"},
         NEW to \in {"idle", "ask"}, wpc' = [wpc EXCEPT ![w] = to],
         wblk' = [wblk EXCEPT ![w] = None], free' = free \cup {wblk[w]},
         \/ UNCHANGED wkey /\ (to = "ask" => wpc[w] # "decide")
         \/ wkey' = [wkey EXCEPT ![w] = None] /\ to = "idle",
         UNCHANGED <<lost, tasks, known, pend, rxpc, rxblk, tpc, tkeys, tblk, fpc, fkey, fchain>>
  PROVE  Inv'
<1> USE BlocksAssumption
<1>1. PICK b \in Blocks : b = wblk[w] /\ b # None
  BY DEF Inv, TypeOK, ControlInv, BlockOrNone
<1>2. TypeOK' /\ IsFiniteSet(Pending')
  BY <1>1, TableSame DEF Inv, TypeOK, BlockOrNone, KeyOrNone
<1>3. ControlInv'
  <2>1. \A v \in Workers : /\ wpc'[v] \in {"idle", "ask"} <=> wblk'[v] = None
                           /\ wpc'[v] \notin {"idle", "decide"} => wkey'[v] \in Keys
    BY DEF Inv, TypeOK, ControlInv
  <2> QED
    BY <2>1 DEF Inv, ControlInv
<1>4. DistinctInv'
  BY TableSame DEF Inv, DistinctInv
<1>5. OwnedOnce' /\ Owned'
  <2>1. \A v \in Workers \ {w} : wblk'[v] = wblk[v]
    BY DEF Inv, TypeOK
  <2>2. \A h \in Homes \ {hFree, hWorker(w)} : Same(h)
    BY <2>1, TableSame, HomeFacts, SameFacts
  <2>3. Gets(hFree, {b})
    BY <1>1, HoldsFacts DEF Gets
  <2>4. Gives(hWorker(w), {b}) /\ Holds(hWorker(w), b)
    <3>1. wblk'[w] = None
      BY DEF Inv, TypeOK
    <3>2. \A x \in Blocks : ~Holds(hWorker(w), x)'
      <4>1. \A x \in Blocks : Holds(hWorker(w), x)' <=> wblk'[w] = x
        BY HoldsFacts
      <4>2. \A x \in Blocks : x # None
        BY DEF Blocks
      <4> QED
        BY <3>1, <4>1, <4>2
    <3>3. \A x \in Blocks : Holds(hWorker(w), x) <=> x = b
      BY <1>1, HoldsFacts
    <3>4. Gives(hWorker(w), {b})
      BY <3>2, <3>3 DEF Gives
    <3> QED
      BY <3>3, <3>4
  <2>5. hFree # hWorker(w)
    BY HomeFacts
  <2> QED
    BY <1>1, <1>2, <2>2, <2>3, <2>4, <2>5, Transfer, HomeFacts DEF Inv
<1> QED
  BY <1>2, <1>3, <1>4, <1>5 DEF Inv

(* A worker that only decides, or cannot ask, moves no block. *)
LEMMA WorkerStayStep ==
  ASSUME Inv, NEW w \in Workers,
         (\E k \in Keys : Resolve(w, k)) \/ AskSkip(w)
  PROVE  Inv'
<1>1. /\ UNCHANGED <<lost, free, tasks, known, pend, rxpc, rxblk, wblk, tpc, tkeys, tblk, fpc, fkey, fchain>>
      /\ \/ /\ wpc[w] = "decide" /\ \E l \in {"send", "enqueue"} : wpc' = [wpc EXCEPT ![w] = l]
            /\ \E k \in Keys : wkey' = [wkey EXCEPT ![w] = k]
         \/ /\ wpc[w] = "ask" /\ wpc' = [wpc EXCEPT ![w] = "idle"]
            /\ wkey' = [wkey EXCEPT ![w] = None]
  BY DEF Resolve, AskSkip, rxvars, tvars, fvars
<1>2. TypeOK' /\ IsFiniteSet(Pending')
  BY <1>1, TableSame DEF Inv, TypeOK, KeyOrNone
<1>3. ControlInv'
  <2>1. \A v \in Workers : /\ wpc'[v] \in {"idle", "ask"} <=> wblk'[v] = None
                           /\ wpc'[v] \notin {"idle", "decide"} => wkey'[v] \in Keys
    BY <1>1 DEF Inv, TypeOK, ControlInv
  <2> QED
    BY <1>1, <2>1 DEF Inv, ControlInv
<1>4. DistinctInv'
  BY <1>1, TableSame DEF Inv, DistinctInv
<1>5. \A h \in Homes : Same(h)
  BY <1>1, TableSame, HomeFacts, SameFacts
<1>6. OwnedOnce' /\ Owned'
  BY <1>1, <1>5, Stay DEF Inv
<1> QED
  BY <1>2, <1>3, <1>4, <1>6 DEF Inv

LEMMA AskStep == ASSUME Inv, NEW w \in Workers, NEW b \in free, Ask(w, b) PROVE Inv'
<1> USE BlocksAssumption
<1>1. /\ UNCHANGED <<lost, tasks, known, pend, rxpc, rxblk, wkey, tpc, tkeys, tblk, fpc, fkey, fchain>>
      /\ wpc[w] = "ask" /\ wpc' = [wpc EXCEPT ![w] = "asked"] /\ wblk[w] = None
      /\ free' = free \ {b} /\ wblk' = [wblk EXCEPT ![w] = b] /\ b \in Blocks /\ b # None
  BY DEF Ask, rxvars, tvars, fvars, Inv, TypeOK, ControlInv, Blocks
<1>2. TypeOK' /\ IsFiniteSet(Pending')
  BY <1>1, TableSame DEF Inv, TypeOK, BlockOrNone
<1>3. ControlInv'
  BY <1>1 DEF Inv, TypeOK, ControlInv
<1>4. DistinctInv'
  BY <1>1, TableSame DEF Inv, DistinctInv
<1>5. OwnedOnce' /\ Owned'
  <2>1. \A v \in Workers \ {w} : wblk'[v] = wblk[v]
    BY <1>1 DEF Inv, TypeOK
  <2>2. \A h \in Homes \ {hFree, hWorker(w)} : Same(h)
    BY <1>1, <2>1, TableSame, HomeFacts, SameFacts
  <2>3. Gives(hFree, {b}) /\ Holds(hFree, b)
    BY <1>1, HoldsFacts DEF Gives
  <2>4. Gets(hWorker(w), {b})
    <3>1. wblk'[w] = b
      BY <1>1 DEF Inv, TypeOK
    <3> QED
      BY <1>1, <3>1, HoldsFacts DEF Gets, Blocks
  <2>5. hFree # hWorker(w)
    BY HomeFacts
  <2> QED
    BY <1>1, <2>2, <2>3, <2>4, <2>5, Transfer, HomeFacts DEF Inv
<1> QED
  BY <1>2, <1>3, <1>4, <1>5 DEF Inv

-----------------------------------------------------------------------------
(* pend_enqueue.  What a worker about to enqueue has in hand.              *)
LEMMA InHand == ASSUME Inv, NEW w \in Workers, Enqueue(w)
                PROVE  /\ wblk[w] \in Blocks /\ wblk[w] # None /\ wkey[w] \in Keys
                       /\ wpc[w] = "enqueue" /\ wpc' = [wpc EXCEPT ![w] = "ask"]
                       /\ wblk' = [wblk EXCEPT ![w] = None]
                       /\ UNCHANGED <<lost, tasks, known, rxpc, rxblk, wkey, tpc, tkeys, tblk,
                                      fpc, fkey, fchain>>
<1>1. /\ wpc[w] = "enqueue" /\ wpc' = [wpc EXCEPT ![w] = "ask"]
      /\ wblk' = [wblk EXCEPT ![w] = None]
      /\ UNCHANGED <<lost, tasks, known, rxpc, rxblk, wkey, tpc, tkeys, tblk, fpc, fkey, fchain>>
  BY DEF Enqueue, rxvars, tvars, fvars
<1>2. wblk[w] # None /\ wkey[w] \in Keys
  BY <1>1 DEF Inv, ControlInv
<1>3. wblk[w] \in Blocks
  BY <1>2 DEF Inv, TypeOK, BlockOrNone
<1> QED
  BY <1>1, <1>2, <1>3

(* What pend_enqueue leaves of everything but the table and the pool.      *)
LEMMA EnqueueRest ==
  ASSUME Inv, NEW w \in Workers, Enqueue(w), free' \subseteq Blocks
  PROVE  /\ ControlInv'
         /\ (/\ Pending' \subseteq Keys /\ Cardinality(Pending') <= PEND_MAX
             /\ IsFiniteSet(Pending')
             /\ \A l \in Pending' : /\ pend'[l].chain \in Seq(Blocks)
                                    /\ Len(pend'[l].chain) \in 1..PEND_CHAIN_MAX
                                    /\ pend'[l].retries \in 0..ARP_RETRY_MAX
                                    /\ Distinct(pend'[l].chain))
               => TypeOK' /\ DistinctInv'
         /\ \A h \in {hRx, hTimer, hTasks} : Same(h)
         /\ \A v \in Workers \ {w} : Same(hWorker(v))
         /\ \A f \in Flushers : Same(hFlush(f))
         /\ \A x \in Blocks : /\ Holds(hWorker(w), x) <=> x = wblk[w]
                              /\ ~Holds(hWorker(w), x)'
<1> USE BlocksAssumption
<1>1. ControlInv'
  <2>1. \A v \in Workers : /\ wpc'[v] \in {"idle", "ask"} <=> wblk'[v] = None
                           /\ wpc'[v] \notin {"idle", "decide"} => wkey'[v] \in Keys
    BY InHand DEF Inv, TypeOK, ControlInv
  <2> QED
    BY InHand, <2>1 DEF Inv, ControlInv
<1>2. ASSUME Pending' \subseteq Keys, Cardinality(Pending') <= PEND_MAX,
             \A l \in Pending' : /\ pend'[l].chain \in Seq(Blocks)
                                 /\ Len(pend'[l].chain) \in 1..PEND_CHAIN_MAX
                                 /\ pend'[l].retries \in 0..ARP_RETRY_MAX
                                 /\ Distinct(pend'[l].chain)
      PROVE  TypeOK' /\ DistinctInv'
  <2>1. TypeOK'
    BY <1>2, InHand DEF Inv, TypeOK, BlockOrNone
  <2>2. DistinctInv'
    BY <1>2, InHand DEF Inv, DistinctInv
  <2> QED
    BY <2>1, <2>2
<1>3. \A v \in Workers \ {w} : wblk'[v] = wblk[v]
  BY InHand DEF Inv, TypeOK
<1>4. /\ \A h \in {hRx, hTimer, hTasks} : Same(h)
      /\ \A v \in Workers \ {w} : Same(hWorker(v))
      /\ \A f \in Flushers : Same(hFlush(f))
  BY <1>3, InHand, SameFacts
<1>5. wblk'[w] = None
  BY InHand DEF Inv, TypeOK
<1>6. \A x \in Blocks : ~Holds(hWorker(w), x)'
  BY <1>5, HoldsFacts DEF Blocks
<1>7. \A x \in Blocks : Holds(hWorker(w), x) <=> x = wblk[w]
  BY HoldsFacts
<1> QED
  BY <1>1, <1>2, <1>4, <1>6, <1>7

(* A frame in hand is in no chain. *)
LEMMA NotQueued == ASSUME Inv, NEW w \in Workers, NEW b \in Blocks, wblk[w] = b,
                          NEW k \in Pending
                   PROVE  b \notin ToSet(pend[k].chain)
<1>1. k \in Keys
  BY DEF Inv, TypeOK
<1>2. Holds(hWorker(w), b)
  BY HoldsFacts
<1>3. hWorker(w) # hNode(k) /\ hWorker(w) \in Homes /\ hNode(k) \in Homes
  BY <1>1, HomeFacts
<1>4. ~Holds(hNode(k), b)
  BY <1>2, <1>3 DEF Inv, OwnedOnce
<1> QED
  BY <1>1, <1>4, HoldsFacts

LEMMA MergeStep == ASSUME Inv, NEW w \in Workers, Enqueue(w), Merge(w) PROVE Inv'
<1>1. PICK k \in Keys, b \in Blocks : k = wkey[w] /\ b = wblk[w]
  BY InHand
<1>2. /\ k \in Pending /\ ~(Len(pend[k].chain) >= PEND_CHAIN_MAX) /\ UNCHANGED free
      /\ pend' = [pend EXCEPT ![k] = Node(<<b>> \o pend[k].chain, pend[k].retries)]
  BY <1>1 DEF Merge, ChainFull, Join
<1> DEFINE c == pend[k].chain
           d == <<b>> \o c
<1>3. /\ c \in Seq(Blocks) /\ Len(c) \in 1..PEND_CHAIN_MAX /\ Distinct(c)
      /\ pend[k].retries \in 0..ARP_RETRY_MAX
  BY <1>2 DEF Inv, TypeOK, DistinctInv
<1>4. b \notin ToSet(c)
  BY <1>1, <1>2, NotQueued
<1>5. d \in Seq(Blocks) /\ Len(d) = Len(c) + 1 /\ ToSet(d) = ToSet(c) \cup {b} /\ Distinct(d)
  BY <1>3, <1>4, SeqPush
<1>6. Len(d) \in 1..PEND_CHAIN_MAX
  BY <1>2, <1>3, <1>5, CapsAssumption
<1>7. Pending' = Pending
  BY <1>2 DEF Pending
<1>8. /\ pend'[k].chain = d /\ pend'[k].retries = pend[k].retries
      /\ \A l \in Pending \ {k} : pend'[l] = pend[l]
  BY <1>2 DEF Pending, Node
<1> HIDE DEF c, d
<1>9. /\ Pending' \subseteq Keys /\ Cardinality(Pending') <= PEND_MAX /\ IsFiniteSet(Pending')
      /\ \A l \in Pending' : /\ pend'[l].chain \in Seq(Blocks)
                             /\ Len(pend'[l].chain) \in 1..PEND_CHAIN_MAX
                             /\ pend'[l].retries \in 0..ARP_RETRY_MAX
                             /\ Distinct(pend'[l].chain)
  BY <1>3, <1>5, <1>6, <1>7, <1>8 DEF Inv, TypeOK, DistinctInv
<1>10. free' \subseteq Blocks
  BY <1>2 DEF Inv, TypeOK
<1>11. ControlInv' /\ TypeOK' /\ DistinctInv'
  BY <1>9, <1>10, EnqueueRest
<1>12. OwnedOnce' /\ Owned'
  <2>1. \A l \in Keys \ {k} : Same(hNode(l))
    BY <1>7, <1>8, HoldsFacts DEF Same
  <2>2. \A h \in Homes \ {hNode(k), hWorker(w)} : Same(h)
    BY <1>2, <1>10, <2>1, EnqueueRest, HomeFacts, SameFacts
  <2>3. Gives(hWorker(w), {b}) /\ Holds(hWorker(w), b)
    BY <1>1, <1>10, EnqueueRest DEF Gives
  <2>4. \A x \in Blocks : Holds(hNode(k), x) <=> x \in ToSet(c)
    BY <1>2, HoldsFacts DEF c
  <2>5. \A x \in Blocks : Holds(hNode(k), x)' <=> x \in ToSet(d)
    BY <1>2, <1>7, <1>8, HoldsFacts
  <2>6. Gets(hNode(k), {b})
    BY <2>4, <2>5, <1>5 DEF Gets
  <2>7. hNode(k) # hWorker(w)
    BY HomeFacts
  <2> QED
    BY <1>1, <2>2, <2>3, <2>6, <2>7, InHand, Transfer, HomeFacts DEF Inv
<1> QED
  BY <1>9, <1>11, <1>12 DEF Inv

LEMMA OverflowStep == ASSUME Inv, NEW w \in Workers, Enqueue(w), Overflow(w) PROVE Inv'
<1>1. UNCHANGED pend /\ free' = free \cup {wblk[w]}
  BY DEF Overflow, Discard
<1> QED
  BY <1>1, InHand, WorkerFreeStep

(* A frame starts a chain in a node of its own. *)
LEMMA FreshNode ==
  ASSUME NEW t, NEW S, NEW k, NEW b \in S, k \notin DOMAIN t,
         pend' = With(k, Node(<<b>>, 0), t)
  PROVE  /\ Pending' = DOMAIN t \cup {k} /\ pend'[k].chain = <<b>> /\ pend'[k].retries = 0
         /\ \A l \in DOMAIN t : pend'[l] = t[l]
         /\ ToSet(pend'[k].chain) = {b} /\ Distinct(pend'[k].chain)
         /\ Len(pend'[k].chain) = 1 /\ pend'[k].chain \in Seq(S)
<1>1. Pending' = DOMAIN t \cup {k} /\ pend'[k] = Node(<<b>>, 0)
      /\ \A l \in DOMAIN t : pend'[l] = t[l]
  BY DEF With, Pending
<1>2. pend'[k].chain = <<b>> /\ pend'[k].retries = 0
  BY <1>1 DEF Node
<1> QED
  BY <1>1, <1>2, SeqOne

LEMMA NewNodeStep == ASSUME Inv, NEW w \in Workers, Enqueue(w), NewNode(w) PROVE Inv'
<1>1. PICK k \in Keys, b \in Blocks : k = wkey[w] /\ b = wblk[w]
  BY InHand
<1>2. /\ k \notin Pending /\ Cardinality(Pending) < PEND_MAX /\ UNCHANGED free
      /\ pend' = With(k, Node(<<b>>, 0), pend)
  BY <1>1 DEF NewNode
<1>3. /\ Pending' = Pending \cup {k} /\ pend'[k].chain = <<b>> /\ pend'[k].retries = 0
      /\ \A l \in Pending : pend'[l] = pend[l]
      /\ ToSet(pend'[k].chain) = {b} /\ Distinct(pend'[k].chain)
      /\ Len(pend'[k].chain) = 1 /\ pend'[k].chain \in Seq(Blocks)
  BY <1>2, FreshNode DEF Pending
<1>4. IsFiniteSet(Pending') /\ Cardinality(Pending') <= PEND_MAX
  <2>1. IsFiniteSet(Pending) /\ Cardinality(Pending) \in Nat
    BY FS_CardinalityType DEF Inv
  <2>2. IsFiniteSet(Pending') /\ Cardinality(Pending') = Cardinality(Pending) + 1
    BY <1>2, <1>3, <2>1, FS_AddElement
  <2> QED
    BY <1>2, <2>1, <2>2, CapsAssumption
<1>5. \A l \in Pending' : /\ pend'[l].chain \in Seq(Blocks)
                          /\ Len(pend'[l].chain) \in 1..PEND_CHAIN_MAX
                          /\ pend'[l].retries \in 0..ARP_RETRY_MAX
                          /\ Distinct(pend'[l].chain)
  <2> SUFFICES ASSUME NEW l \in Pending'
               PROVE  /\ pend'[l].chain \in Seq(Blocks)
                      /\ Len(pend'[l].chain) \in 1..PEND_CHAIN_MAX
                      /\ pend'[l].retries \in 0..ARP_RETRY_MAX
                      /\ Distinct(pend'[l].chain)
    OBVIOUS
  <2>1. CASE l = k
    <3>1. 1 \in 1..PEND_CHAIN_MAX /\ 0 \in 0..ARP_RETRY_MAX
      BY CapsAssumption
    <3>2. /\ pend'[k].chain \in Seq(Blocks) /\ Distinct(pend'[k].chain)
          /\ Len(pend'[k].chain) = 1 /\ pend'[k].retries = 0
      BY <1>3
    <3>3. Len(pend'[k].chain) \in 1..PEND_CHAIN_MAX /\ pend'[k].retries \in 0..ARP_RETRY_MAX
      BY <3>1, <3>2
    <3> QED
      BY <2>1, <3>2, <3>3
  <2>2. CASE l \in Pending
    <3>1. pend'[l] = pend[l]
      BY <1>3, <2>2
    <3> QED
      BY <2>2, <3>1 DEF Inv, TypeOK, DistinctInv
  <2> QED
    BY <1>3, <2>1, <2>2
<1>6. free' \subseteq Blocks /\ Pending' \subseteq Keys
  BY <1>2, <1>3 DEF Inv, TypeOK
<1>7. ControlInv' /\ TypeOK' /\ DistinctInv'
  BY <1>4, <1>5, <1>6, EnqueueRest
<1>8. OwnedOnce' /\ Owned'
  <2>1. \A l \in Keys \ {k} : Same(hNode(l))
    BY <1>3, HoldsFacts DEF Same
  <2>2. \A h \in Homes \ {hNode(k), hWorker(w)} : Same(h)
    BY <1>2, <1>6, <2>1, EnqueueRest, HomeFacts, SameFacts
  <2>3. Gives(hWorker(w), {b}) /\ Holds(hWorker(w), b)
    BY <1>1, <1>6, EnqueueRest DEF Gives
  <2>4. Gets(hNode(k), {b})
    BY <1>2, <1>3, HoldsFacts DEF Gets
  <2>5. hNode(k) # hWorker(w)
    BY HomeFacts
  <2> QED
    BY <1>1, <2>2, <2>3, <2>4, <2>5, InHand, Transfer, HomeFacts DEF Inv
<1> QED
  BY <1>4, <1>7, <1>8 DEF Inv

(* An evicted chain goes back to the pool, the new frame into its node.    *)
LEMMA EvictStep ==
  ASSUME Inv, NEW w \in Workers, NEW old \in Pending, Enqueue(w), Evict(w, old) PROVE Inv'
<1>1. PICK k \in Keys, b \in Blocks : k = wkey[w] /\ b = wblk[w]
  BY InHand
<1> DEFINE c == pend[old].chain
           t == Drop(old, pend)
<1>2. /\ k \notin Pending /\ free' = free \cup ToSet(c) /\ pend' = With(k, Node(<<b>>, 0), t)
      /\ old \in Keys /\ old # k /\ c \in Seq(Blocks)
  BY <1>1 DEF Evict, Discard, Inv, TypeOK
<1>3. DOMAIN t = Pending \ {old} /\ \A l \in Pending \ {old} : t[l] = pend[l]
  BY DEF Drop, Pending
<1> HIDE DEF t
<1>4. /\ Pending' = (Pending \ {old}) \cup {k}
      /\ pend'[k].chain = <<b>> /\ pend'[k].retries = 0
      /\ \A l \in Pending \ {old} : pend'[l] = pend[l]
      /\ ToSet(pend'[k].chain) = {b} /\ Distinct(pend'[k].chain)
      /\ Len(pend'[k].chain) = 1 /\ pend'[k].chain \in Seq(Blocks)
  BY <1>2, <1>3, FreshNode
<1>5. IsFiniteSet(Pending') /\ Cardinality(Pending') <= PEND_MAX
  <2>1. IsFiniteSet(Pending) /\ Cardinality(Pending) \in Nat
    BY FS_CardinalityType DEF Inv
  <2>2. IsFiniteSet(Pending \ {old}) /\ Cardinality(Pending \ {old}) = Cardinality(Pending) - 1
    BY <2>1, FS_RemoveElement
  <2>3. k \notin Pending \ {old}
    BY <1>2
  <2>4. IsFiniteSet(Pending') /\ Cardinality(Pending') = Cardinality(Pending \ {old}) + 1
    BY <1>4, <2>2, <2>3, FS_AddElement
  <2>5. Cardinality(Pending) <= PEND_MAX
    BY DEF Inv, TypeOK
  <2> QED
    BY <2>1, <2>2, <2>4, <2>5, CapsAssumption
<1>6. \A l \in Pending' : /\ pend'[l].chain \in Seq(Blocks)
                          /\ Len(pend'[l].chain) \in 1..PEND_CHAIN_MAX
                          /\ pend'[l].retries \in 0..ARP_RETRY_MAX
                          /\ Distinct(pend'[l].chain)
  <2> SUFFICES ASSUME NEW l \in Pending'
               PROVE  /\ pend'[l].chain \in Seq(Blocks)
                      /\ Len(pend'[l].chain) \in 1..PEND_CHAIN_MAX
                      /\ pend'[l].retries \in 0..ARP_RETRY_MAX
                      /\ Distinct(pend'[l].chain)
    OBVIOUS
  <2>1. CASE l = k
    <3>1. 1 \in 1..PEND_CHAIN_MAX /\ 0 \in 0..ARP_RETRY_MAX
      BY CapsAssumption
    <3>2. /\ pend'[k].chain \in Seq(Blocks) /\ Distinct(pend'[k].chain)
          /\ Len(pend'[k].chain) = 1 /\ pend'[k].retries = 0
      BY <1>4
    <3>3. Len(pend'[k].chain) \in 1..PEND_CHAIN_MAX /\ pend'[k].retries \in 0..ARP_RETRY_MAX
      BY <3>1, <3>2
    <3> QED
      BY <2>1, <3>2, <3>3
  <2>2. CASE l \in Pending \ {old}
    <3>1. pend'[l] = pend[l]
      BY <1>4, <2>2
    <3> QED
      BY <2>2, <3>1 DEF Inv, TypeOK, DistinctInv
  <2> QED
    BY <1>4, <2>1, <2>2
<1>7. free' \subseteq Blocks /\ Pending' \subseteq Keys
  BY <1>2, <1>4 DEF Inv, TypeOK, ToSet
<1>8. ControlInv' /\ TypeOK' /\ DistinctInv'
  BY <1>5, <1>6, <1>7, EnqueueRest
<1>9. OwnedOnce' /\ Owned'
  <2>1. \A h \in Homes \ {hFree, hWorker(w), hNode(k), hNode(old)} : Same(h)
    <3>1. \A l \in Keys \ {k, old} : Same(hNode(l))
      BY <1>4, HoldsFacts DEF Same
    <3> QED
      BY <1>7, <3>1, EnqueueRest, HomeFacts
  <2>2. \A x \in Blocks : Holds(hFree, x)' <=> Holds(hFree, x) \/ x \in ToSet(c)
    BY <1>2, HoldsFacts
  <2>3. \A x \in Blocks : /\ Holds(hWorker(w), x) <=> x = b
                          /\ ~Holds(hWorker(w), x)'
    BY <1>1, <1>7, EnqueueRest
  <2>4. \A x \in Blocks : ~Holds(hNode(k), x) /\ (Holds(hNode(k), x)' <=> x = b)
    BY <1>2, <1>4, HoldsFacts
  <2>5. \A x \in Blocks : (Holds(hNode(old), x) <=> x \in ToSet(c)) /\ ~Holds(hNode(old), x)'
    BY <1>2, <1>4, HoldsFacts
  <2>6. {hFree, hWorker(w), hNode(k), hNode(old)} \subseteq Homes
        /\ hFree # hWorker(w) /\ hFree # hNode(k) /\ hFree # hNode(old)
        /\ hWorker(w) # hNode(k) /\ hWorker(w) # hNode(old) /\ hNode(k) # hNode(old)
    BY <1>2, HomeFacts
  <2> HIDE DEF c
  <2>7. ASSUME NEW x \in Blocks, x = b
        PROVE  \A h \in Homes : Holds(h, x)' <=> h = hNode(k)
    <3>1. \A h \in Homes : Holds(h, x) => h = hWorker(w)
      BY <2>3, <2>6, <2>7 DEF Inv, OwnedOnce
    <3> QED
      BY <2>1, <2>2, <2>3, <2>4, <2>5, <2>6, <2>7, <3>1 DEF Same
  <2>8. ASSUME NEW x \in Blocks, x # b, x \in ToSet(c)
        PROVE  \A h \in Homes : Holds(h, x)' <=> h = hFree
    <3>1. \A h \in Homes : Holds(h, x) => h = hNode(old)
      BY <2>5, <2>6, <2>8 DEF Inv, OwnedOnce
    <3> QED
      BY <2>1, <2>2, <2>3, <2>4, <2>5, <2>6, <2>8, <3>1 DEF Same
  <2>9. ASSUME NEW x \in Blocks, x # b, x \notin ToSet(c)
        PROVE  \A h \in Homes : Holds(h, x)' <=> Holds(h, x)
    BY <2>1, <2>2, <2>3, <2>4, <2>5, <2>6, <2>9 DEF Same
  <2>10. \A x \in Blocks : \/ \A h \in Homes : Holds(h, x)' <=> Holds(h, x)
                           \/ \E to \in Homes : \A h \in Homes : Holds(h, x)' <=> h = to
    BY <2>6, <2>7, <2>8, <2>9
  <2> QED
    BY <1>1, <2>10, InHand, Moves DEF Inv
<1> QED
  BY <1>5, <1>8, <1>9 DEF Inv

LEMMA WorkStep == ASSUME Inv, NEW w \in Workers, Work(w) PROVE Inv'
<1>1. ASSUME Refuse(w) PROVE Inv'
  BY <1>1, WorkerFreeStep DEF Refuse, Discard, rxvars, tvars, fvars
<1>2. ASSUME Send(w) PROVE Inv'
  BY <1>2, WorkerFreeStep DEF Send, ForwardSend, rxvars, tvars, fvars
<1>3. ASSUME Asked(w) PROVE Inv'
  BY <1>3, WorkerFreeStep DEF Asked, rxvars, tvars, fvars
<1>4. ASSUME Enqueue(w) PROVE Inv'
  BY <1>4, MergeStep, OverflowStep, NewNodeStep, EvictStep DEF Enqueue
<1> QED
  BY <1>1, <1>2, <1>3, <1>4, TakeStep, WorkerStayStep, AskStep DEF Work
-----------------------------------------------------------------------------
(* The timer. *)
LEMMA TimerStayStep ==
  ASSUME Inv, ArpTick \/ RetryNext \/ TickDone \/ \E k \in tkeys : RetrySkip(k)
  PROVE  Inv'
<1>1. /\ UNCHANGED <<lost, free, tasks, pend, rxpc, rxblk, wpc, wblk, wkey, tblk, fchain>>
      /\ known' \subseteq Keys /\ tkeys' \subseteq Keys /\ tpc # "asked"
      /\ \/ UNCHANGED <<fpc, fkey>> /\ tpc' \in {"sleep", "tick", "keys"}
            /\ (tpc = "flush" => fpc["timer"] = "off")
         \/ /\ tpc = "keys" /\ tpc' = "flush" /\ fpc' = [fpc EXCEPT !["timer"] = "lookup"]
            /\ \E k \in Keys : fkey' = [fkey EXCEPT !["timer"] = k]
  <2>1. CASE ArpTick
    BY <2>1 DEF ArpTick, rxvars, wvars, fvars, Inv, TypeOK
  <2>2. CASE RetryNext
    BY <2>2 DEF RetryNext, rxvars, wvars, fvars, Inv, TypeOK
  <2>3. CASE TickDone
    BY <2>3 DEF TickDone, rxvars, wvars, fvars, Inv, TypeOK
  <2>4. CASE \E k \in tkeys : RetrySkip(k)
    BY <2>4 DEF RetrySkip, rxvars, wvars, Inv, TypeOK
  <2> QED
    BY <2>1, <2>2, <2>3, <2>4
<1>2. TypeOK' /\ IsFiniteSet(Pending')
  <2>1. fkey' \in [Flushers -> KeyOrNone]
    BY <1>1 DEF Inv, TypeOK, KeyOrNone
  <2>2. fpc' \in [Flushers -> {"off", "lookup", "detach", "send"}]
    BY <1>1 DEF Inv, TypeOK
  <2>3. tpc' \in {"sleep", "tick", "keys", "asked", "flush"}
    BY <1>1
  <2> QED
    BY <1>1, <2>1, <2>2, <2>3, TableSame DEF Inv, TypeOK
<1>3. ControlInv'
  <2>1. tpc' # "asked" /\ tblk' = None
    BY <1>1 DEF Inv, ControlInv
  <2>2. "timer" \in Flushers /\ "rx" \in Flushers /\ fpc'["rx"] = fpc["rx"]
    BY <1>1 DEF Inv, TypeOK, Flushers
  <2>3. tpc' # "flush" => fpc'["timer"] = "off"
    BY <1>1 DEF Inv, ControlInv
  <2>4. \A f \in Flushers : /\ fpc'[f] = "send" <=> fchain'[f] # <<>>
                            /\ fpc'[f] # "off" => fkey'[f] \in Keys
    BY <1>1 DEF Inv, TypeOK, ControlInv
  <2> QED
    BY <1>1, <2>1, <2>2, <2>3, <2>4 DEF Inv, ControlInv
<1>4. DistinctInv'
  BY <1>1, TableSame DEF Inv, DistinctInv
<1>5. \A h \in Homes : Same(h)
  BY <1>1, TableSame, HomeFacts, SameFacts
<1>6. OwnedOnce' /\ Owned'
  BY <1>1, <1>5, Stay DEF Inv
<1> QED
  BY <1>2, <1>3, <1>4, <1>6 DEF Inv

(* The timer's own request: a block out of the pool, and back. *)
LEMMA RetryAskStep ==
  ASSUME Inv, NEW k \in tkeys, NEW b \in free, RetryAsk(k, b) PROVE Inv'
<1> USE BlocksAssumption
<1>1. /\ UNCHANGED <<lost, tasks, known, pend, rxpc, rxblk, wpc, wblk, wkey, fpc, fchain>>
      /\ tpc = "keys" /\ tpc' = "asked" /\ tblk = None /\ tblk' = b /\ free' = free \ {b}
      /\ fkey' = [fkey EXCEPT !["timer"] = k] /\ tkeys' \subseteq tkeys
      /\ k \in Keys /\ b \in Blocks /\ b # None /\ fpc["timer"] = "off"
  BY DEF RetryAsk, rxvars, wvars, Inv, TypeOK, ControlInv, Blocks
<1>2. TypeOK' /\ IsFiniteSet(Pending')
  BY <1>1, TableSame DEF Inv, TypeOK, BlockOrNone, KeyOrNone
<1>3. ControlInv'
  <2>1. fkey'["timer"] = k
    BY <1>1 DEF Inv, TypeOK, Flushers
  <2>2. \A f \in Flushers : /\ fpc'[f] = "send" <=> fchain'[f] # <<>>
                            /\ fpc'[f] # "off" => fkey'[f] \in Keys
    BY <1>1 DEF Inv, TypeOK, ControlInv
  <2> QED
    BY <1>1, <2>1, <2>2 DEF Inv, ControlInv
<1>4. DistinctInv'
  BY <1>1, TableSame DEF Inv, DistinctInv
<1>5. OwnedOnce' /\ Owned'
  <2>1. \A h \in Homes \ {hFree, hTimer} : Same(h)
    BY <1>1, TableSame, HomeFacts, SameFacts
  <2>2. Gives(hFree, {b}) /\ Holds(hFree, b)
    BY <1>1, HoldsFacts DEF Gives
  <2>3. Gets(hTimer, {b})
    <3>1. \A x \in Blocks : ~Holds(hTimer, x)
      BY <1>1, HoldsFacts DEF Blocks
    <3>2. \A x \in Blocks : Holds(hTimer, x)' <=> x = b
      BY <1>1, HoldsFacts
    <3> QED
      BY <3>1, <3>2 DEF Gets
  <2> QED
    BY <1>1, <2>1, <2>2, <2>3, Transfer, HomeFacts DEF Inv
<1> QED
  BY <1>2, <1>3, <1>4, <1>5 DEF Inv

LEMMA RetryAskedStep == ASSUME Inv, RetryAsked PROVE Inv'
<1> USE BlocksAssumption
<1>0. PICK b \in Blocks : b = tblk /\ b # None
  BY DEF RetryAsked, Inv, TypeOK, ControlInv, BlockOrNone
<1>1. /\ UNCHANGED <<lost, tasks, known, pend, rxpc, rxblk, wpc, wblk, wkey, tkeys, fkey, fchain>>
      /\ tpc = "asked" /\ tpc' = "flush" /\ tblk' = None /\ free' = free \cup {b}
      /\ fpc' = [fpc EXCEPT !["timer"] = "lookup"] /\ fkey["timer"] \in Keys
  BY <1>0 DEF RetryAsked, rxvars, wvars, Inv, ControlInv
<1>2. TypeOK' /\ IsFiniteSet(Pending')
  BY <1>1, TableSame DEF Inv, TypeOK, BlockOrNone
<1>3. ControlInv'
  <2>1. fpc["timer"] = "off" /\ "timer" \in Flushers /\ "rx" \in Flushers
    BY <1>1 DEF Inv, ControlInv, Flushers
  <2>2. \A f \in Flushers : /\ fpc'[f] = "send" <=> fchain'[f] # <<>>
                            /\ fpc'[f] # "off" => fkey'[f] \in Keys
    BY <1>1, <2>1 DEF Inv, TypeOK, ControlInv
  <2>3. fpc'["rx"] = fpc["rx"]
    BY <1>1, <2>1 DEF Inv, TypeOK
  <2> QED
    BY <1>1, <2>2, <2>3 DEF Inv, ControlInv
<1>4. DistinctInv'
  BY <1>1, TableSame DEF Inv, DistinctInv
<1>5. OwnedOnce' /\ Owned'
  <2>1. \A h \in Homes \ {hFree, hTimer} : Same(h)
    BY <1>1, TableSame, HomeFacts, SameFacts
  <2>2. \A x \in Blocks : (Holds(hTimer, x) <=> x = b) /\ ~Holds(hTimer, x)'
    BY <1>0, <1>1, HoldsFacts DEF Blocks
  <2>3. Gives(hTimer, {b}) /\ Holds(hTimer, b)
    BY <2>2 DEF Gives
  <2>4. Gets(hFree, {b})
    BY <1>1, HoldsFacts DEF Gets
  <2> QED
    BY <1>1, <2>1, <2>3, <2>4, Transfer, HomeFacts DEF Inv
<1> QED
  BY <1>2, <1>3, <1>4, <1>5 DEF Inv

(* pend_tick: the chains out of retries go back to the pool, all at once;  *)
(* the others stay as they are, with one retry more on record.             *)
LEMMA PendTickStep == ASSUME Inv, PendTick PROVE Inv'
<1> DEFINE gone == UNION {ToSet(pend[k].chain) : k \in Exhausted}
<1>1. /\ UNCHANGED <<lost, tasks, known, rxpc, rxblk, wpc, wblk, wkey, tblk, fpc, fkey, fchain>>
      /\ tpc = "tick" /\ tpc' = "keys" /\ free' = free \cup gone
      /\ tkeys' = Pending \ Exhausted
      /\ pend' = [k \in Pending \ Exhausted |-> Retried(pend[k])]
  BY DEF PendTick, Discard, rxvars, wvars, fvars
<1>2. Exhausted \subseteq Pending /\ Pending \subseteq Keys
      /\ \A k \in Pending : k \in Exhausted <=> pend[k].retries >= ARP_RETRY_MAX
  BY DEF Exhausted, Inv, TypeOK
<1> HIDE DEF gone
<1>3. /\ Pending' = Pending \ Exhausted
      /\ \A k \in Pending' : /\ pend'[k].chain = pend[k].chain
                             /\ pend'[k].retries = pend[k].retries + 1
  BY <1>1 DEF Pending, Retried, Node
<1>4. IsFiniteSet(Pending') /\ Cardinality(Pending') <= PEND_MAX
  <2>1. IsFiniteSet(Pending) /\ Cardinality(Pending) \in Nat /\ Cardinality(Pending) <= PEND_MAX
    BY FS_CardinalityType DEF Inv, TypeOK
  <2>2. IsFiniteSet(Pending') /\ Cardinality(Pending') <= Cardinality(Pending)
    BY <1>3, <2>1, FS_Subset
  <2>3. Cardinality(Pending') \in Nat
    BY <2>2, FS_CardinalityType
  <2> QED
    BY <2>1, <2>2, <2>3, CapsAssumption
<1>5. ASSUME NEW k \in Pending'
      PROVE  /\ pend'[k].chain \in Seq(Blocks) /\ Len(pend'[k].chain) \in 1..PEND_CHAIN_MAX
             /\ pend'[k].retries \in 0..ARP_RETRY_MAX /\ Distinct(pend'[k].chain)
  <2>1. k \in Pending /\ ~(pend[k].retries >= ARP_RETRY_MAX)
    BY <1>2, <1>3
  <2>2. /\ pend[k].chain \in Seq(Blocks) /\ Len(pend[k].chain) \in 1..PEND_CHAIN_MAX
        /\ pend[k].retries \in 0..ARP_RETRY_MAX /\ Distinct(pend[k].chain)
    BY <2>1 DEF Inv, TypeOK, DistinctInv
  <2>3. pend[k].retries + 1 \in 0..ARP_RETRY_MAX
    BY <2>1, <2>2, CapsAssumption
  <2> QED
    BY <1>3, <2>2, <2>3
<1>6. \A b \in gone : b \in Blocks /\ \E k \in Exhausted : b \in ToSet(pend[k].chain)
  <2>1. \A k \in Exhausted : \A b \in ToSet(pend[k].chain) : b \in Blocks
    BY <1>2 DEF Inv, TypeOK, ToSet
  <2> QED
    BY <2>1 DEF gone
<1>7. TypeOK'
  <2>1. free' \subseteq Blocks /\ tkeys' \subseteq Keys /\ Pending' \subseteq Keys
    BY <1>1, <1>2, <1>3, <1>6 DEF Inv, TypeOK
  <2> QED
    BY <1>1, <1>4, <1>5, <2>1 DEF Inv, TypeOK
<1>8. ControlInv'
  BY <1>1 DEF Inv, ControlInv
<1>9. DistinctInv'
  BY <1>1, <1>5 DEF Inv, DistinctInv
<1>10. OwnedOnce' /\ Owned'
  <2>1. \A h \in Homes : h # hFree /\ (\A k \in Keys : h # hNode(k)) => Same(h)
    BY <1>1, HomeFacts, SameFacts
  <2>2. \A k \in Keys : /\ hNode(k) \in Homes /\ hNode(k) # hFree
                        /\ \A l \in Keys : hNode(k) = hNode(l) => k = l
    BY HomeFacts
  <2>3. \A k \in Keys \ Exhausted : Same(hNode(k))
    BY <1>3, HoldsFacts DEF Same
  <2>4. \A k \in Exhausted : \A x \in Blocks : /\ Holds(hNode(k), x) <=> x \in ToSet(pend[k].chain)
                                               /\ ~Holds(hNode(k), x)'
    BY <1>2, <1>3, HoldsFacts
  <2>5. \A x \in Blocks : Holds(hFree, x)' <=> Holds(hFree, x) \/ x \in gone
    BY <1>1, HoldsFacts
  <2>6. ASSUME NEW x \in Blocks, x \in gone
        PROVE  \A h \in Homes : Holds(h, x)' <=> h = hFree
    <3>1. PICK k \in Exhausted : x \in ToSet(pend[k].chain)
      BY <1>6, <2>6
    <3>2. \A h \in Homes : Holds(h, x) => h = hNode(k)
      BY <1>2, <2>2, <2>4, <3>1 DEF Inv, OwnedOnce
    <3>3. \A h \in Homes : Holds(h, x)' => h = hFree
      <4> SUFFICES ASSUME NEW h \in Homes, Holds(h, x)', h # hFree PROVE FALSE
        OBVIOUS
      <4>1. ~Same(h)
        <5>1. Same(h) => Holds(h, x)
          BY DEF Same
        <5>2. ~Holds(hNode(k), x)'
          BY <2>4, <3>1
        <5> QED
          BY <3>2, <5>1, <5>2
      <4>2. PICK l \in Keys : h = hNode(l)
        BY <2>1, <4>1
      <4>3. l \in Exhausted
        BY <2>3, <4>1, <4>2
      <4> QED
        BY <2>4, <4>2, <4>3
    <3> QED
      BY <2>5, <2>6, <3>3
  <2>7. ASSUME NEW x \in Blocks, x \notin gone
        PROVE  \A h \in Homes : Holds(h, x)' <=> Holds(h, x)
    <3>1. \A k \in Exhausted : x \notin ToSet(pend[k].chain)
      BY <2>7 DEF gone
    <3>2. \A k \in Keys : Holds(hNode(k), x)' <=> Holds(hNode(k), x)
      BY <2>3, <2>4, <3>1 DEF Same
    <3> QED
      BY <2>1, <2>5, <2>7, <3>2 DEF Same
  <2>8. \A x \in Blocks : \/ \A h \in Homes : Holds(h, x)' <=> Holds(h, x)
                          \/ \E to \in Homes : \A h \in Homes : Holds(h, x)' <=> h = to
    BY <2>6, <2>7, HomeFacts
  <2> QED
    BY <1>1, <2>8, Moves DEF Inv
<1> QED
  BY <1>4, <1>7, <1>8, <1>9, <1>10 DEF Inv

LEMMA TimerStep == ASSUME Inv, Timer PROVE Inv'
BY TimerStayStep, PendTickStep, RetryAskStep, RetryAskedStep DEF Timer

LEMMA NextInv == ASSUME Inv, [Next]_vars PROVE Inv'
<1>1. CASE UNCHANGED vars
  <2>1. UNCHANGED <<lost, free, tasks, known, pend, rxpc, rxblk, wpc, wblk, wkey,
                    tpc, tkeys, tblk, fpc, fkey, fchain>>
    BY <1>1 DEF vars, rxvars, wvars, tvars, fvars
  <2>2. TypeOK' /\ IsFiniteSet(Pending')
    BY <2>1, TableSame DEF Inv, TypeOK
  <2>3. ControlInv'
    BY <2>1 DEF Inv, ControlInv
  <2>4. DistinctInv'
    BY <2>1, TableSame DEF Inv, DistinctInv
  <2>5. \A h \in Homes : Same(h)
    BY <2>1, TableSame, HomeFacts, SameFacts
  <2>6. OwnedOnce' /\ Owned'
    BY <2>1, <2>5, Stay DEF Inv
  <2> QED
    BY <2>2, <2>3, <2>4, <2>6 DEF Inv
<1>2. CASE Next
  BY <1>2, RxStep, FlushStep, WorkStep, TimerStep DEF Next, Flushers
<1> QED
  BY <1>1, <1>2

LEMMA Invariance == Spec => []Inv
<1>1. Init => Inv
  BY InitInv
<1>2. Inv /\ [Next]_vars => Inv'
  BY NextInv
<1> QED
  BY <1>1, <1>2, PTL DEF Spec
-----------------------------------------------------------------------------
(* The limits of the tables hold for every history: the queue of the pool, *)
(* the nodes of the pending table, the frames of a chain (forward.c:86),   *)
(* the retries of a node (forward.c:158).                                  *)
THEOREM TypeCorrect == Spec => []TypeOK
<1>1. Inv => TypeOK
  BY DEF Inv
<1> QED
  BY <1>1, Invariance, PTL

(* A reference to a block is a place in one of its homes. *)
Place(x, h, b) ==
  \/ x = <<"free">> /\ h = hFree
  \/ x = <<"rx">> /\ h = hRx
  \/ x = <<"timer">> /\ h = hTimer
  \/ h = hTasks /\ \E i \in DOMAIN tasks : x = <<"tasks", i>> /\ tasks[i] = b
  \/ \E w \in Workers : h = hWorker(w) /\ x = <<"worker", w>>
  \/ \E k \in Pending : /\ h = hNode(k)
                        /\ \E i \in DOMAIN pend[k].chain : /\ x = <<"node", k, i>>
                                                           /\ pend[k].chain[i] = b
  \/ \E f \in Flushers : /\ h = hFlush(f)
                         /\ \E i \in DOMAIN fchain[f] : x = <<"flush", f, i>> /\ fchain[f][i] = b

LEMMA Members == \A s, b : b \in ToSet(s) <=> \E i \in DOMAIN s : s[i] = b
BY DEF ToSet

LEMMA RefPlaces == ASSUME Inv, NEW b \in Blocks, NEW x \in Refs(b)
                   PROVE  \E h \in Homes : Holds(h, b) /\ Place(x, h, b)
<1>1. Pending \subseteq Keys /\ DOMAIN wblk = Workers
  BY DEF Inv, TypeOK
<1>2. CASE x \in {<<"free">> : y \in free \cap {b}} \cup {<<"rx">> : y \in {rxblk} \cap {b}}
                \cup {<<"timer">> : y \in {tblk} \cap {b}}
  BY <1>2, HomeFacts, HoldsFacts DEF Place
<1>3. CASE x \in {<<"tasks", i>> : i \in Indices(b, tasks)}
  <2>1. PICK i \in DOMAIN tasks : x = <<"tasks", i>> /\ tasks[i] = b
    BY <1>3 DEF Indices
  <2>2. Holds(hTasks, b) /\ hTasks \in Homes
    BY <2>1, HomeFacts, HoldsFacts DEF ToSet
  <2> QED
    BY <2>1, <2>2 DEF Place
<1>4. CASE x \in {<<"worker", w>> : w \in Indices(b, wblk)}
  <2>1. PICK w \in Workers : x = <<"worker", w>> /\ wblk[w] = b
    BY <1>1, <1>4 DEF Indices
  <2>2. Holds(hWorker(w), b) /\ hWorker(w) \in Homes
    BY <2>1, HomeFacts, HoldsFacts
  <2> QED
    BY <2>1, <2>2 DEF Place
<1>5. CASE x \in NodeRefs(b)
  <2>1. PICK k \in Pending : x \in {<<"node", k, i>> : i \in Indices(b, pend[k].chain)}
    BY <1>5 DEF NodeRefs
  <2>2. PICK i \in DOMAIN pend[k].chain : x = <<"node", k, i>> /\ pend[k].chain[i] = b
    BY <2>1 DEF Indices
  <2>3. Holds(hNode(k), b) /\ hNode(k) \in Homes
    <3>1. b \in ToSet(pend[k].chain)
      BY <2>2, Members
    <3> QED
      BY <1>1, <3>1, HomeFacts, HoldsFacts
  <2>4. Place(x, hNode(k), b)
    BY <2>2 DEF Place
  <2> QED
    BY <2>3, <2>4
<1>6. CASE x \in FlushRefs(b)
  <2>1. PICK f \in Flushers : x \in {<<"flush", f, i>> : i \in Indices(b, fchain[f])}
    BY <1>6 DEF FlushRefs
  <2>2. PICK i \in DOMAIN fchain[f] : x = <<"flush", f, i>> /\ fchain[f][i] = b
    BY <2>1 DEF Indices
  <2>3. Holds(hFlush(f), b) /\ hFlush(f) \in Homes
    <3>1. b \in ToSet(fchain[f])
      BY <2>2, Members
    <3> QED
      BY <3>1, HomeFacts, HoldsFacts
  <2>4. Place(x, hFlush(f), b)
    BY <2>2 DEF Place
  <2> QED
    BY <2>3, <2>4
<1>7. \/ x \in {<<"free">> : y \in free \cap {b}} \cup {<<"rx">> : y \in {rxblk} \cap {b}}
              \cup {<<"timer">> : y \in {tblk} \cap {b}}
      \/ x \in {<<"tasks", i>> : i \in Indices(b, tasks)}
      \/ x \in {<<"worker", w>> : w \in Indices(b, wblk)}
      \/ x \in NodeRefs(b)
      \/ x \in FlushRefs(b)
  BY DEF Refs
<1> QED
  BY <1>2, <1>3, <1>4, <1>5, <1>6, <1>7

(* Two references in the same home are the same. *)
LEMMA OnePlace == ASSUME Inv, NEW b, NEW h \in Homes, NEW x, NEW y,
                         Place(x, h, b), Place(y, h, b)
                  PROVE  x = y
<1>1. Pending \subseteq Keys
  BY DEF Inv, TypeOK
<1>2. CASE h \in {hFree, hRx, hTimer}
  <2>1. /\ h # hTasks /\ (\A w \in Workers : h # hWorker(w))
        /\ (\A k \in Pending : h # hNode(k)) /\ (\A f \in Flushers : h # hFlush(f))
    BY <1>1, <1>2, HomeFacts
  <2> QED
    BY <2>1, HomeFacts DEF Place
<1>3. CASE h = hTasks
  <2>1. /\ h \notin {hFree, hRx, hTimer} /\ (\A w \in Workers : h # hWorker(w))
        /\ (\A k \in Pending : h # hNode(k)) /\ (\A f \in Flushers : h # hFlush(f))
    BY <1>1, <1>3, HomeFacts
  <2>2. /\ \E i \in DOMAIN tasks : x = <<"tasks", i>> /\ tasks[i] = b
        /\ \E i \in DOMAIN tasks : y = <<"tasks", i>> /\ tasks[i] = b
    BY <2>1 DEF Place
  <2> QED
    BY <2>2 DEF Inv, DistinctInv, Distinct
<1>4. ASSUME NEW w \in Workers, h = hWorker(w) PROVE x = y
  <2>1. /\ h \notin {hFree, hRx, hTimer, hTasks}
        /\ (\A k \in Pending : h # hNode(k)) /\ (\A f \in Flushers : h # hFlush(f))
    BY <1>1, <1>4, HomeFacts
  <2>2. /\ \E v \in Workers : h = hWorker(v) /\ x = <<"worker", v>>
        /\ \E v \in Workers : h = hWorker(v) /\ y = <<"worker", v>>
    BY <2>1 DEF Place
  <2> QED
    BY <2>2, HomeFacts
<1>5. ASSUME NEW k \in Keys, h = hNode(k) PROVE x = y
  <2>1. /\ h \notin {hFree, hRx, hTimer, hTasks}
        /\ (\A w \in Workers : h # hWorker(w)) /\ (\A f \in Flushers : h # hFlush(f))
        /\ (\A l \in Pending : h = hNode(l) => l = k)
    BY <1>1, <1>5, HomeFacts
  <2>2. /\ k \in Pending
        /\ \E i \in DOMAIN pend[k].chain : x = <<"node", k, i>> /\ pend[k].chain[i] = b
        /\ \E i \in DOMAIN pend[k].chain : y = <<"node", k, i>> /\ pend[k].chain[i] = b
    BY <2>1 DEF Place
  <2>3. Distinct(pend[k].chain)
    BY <2>2 DEF Inv, DistinctInv
  <2> QED
    BY <2>2, <2>3 DEF Distinct
<1>6. ASSUME NEW f \in Flushers, h = hFlush(f) PROVE x = y
  <2>1. /\ h \notin {hFree, hRx, hTimer, hTasks}
        /\ (\A w \in Workers : h # hWorker(w)) /\ (\A k \in Pending : h # hNode(k))
        /\ (\A g \in Flushers : h = hFlush(g) => g = f)
    BY <1>1, <1>6, HomeFacts
  <2>2. /\ \E i \in DOMAIN fchain[f] : x = <<"flush", f, i>> /\ fchain[f][i] = b
        /\ \E i \in DOMAIN fchain[f] : y = <<"flush", f, i>> /\ fchain[f][i] = b
    BY <2>1 DEF Place
  <2>3. Distinct(fchain[f])
    BY DEF Inv, DistinctInv
  <2> QED
    BY <2>2, <2>3 DEF Distinct
<1> QED
  BY <1>2, <1>3, <1>4, <1>5, <1>6, HomeFacts

(* A block that has a home has a place in it. *)
LEMMA HomeRef == ASSUME NEW b \in Blocks, NEW h \in Homes, Holds(h, b), Inv
                 PROVE  Refs(b) # {}
<1>1. DOMAIN wblk = Workers
  BY DEF Inv, TypeOK
<1>2. CASE h = hFree
  <2>1. <<"free">> \in {<<"free">> : x \in free \cap {b}}
    BY <1>2, HoldsFacts
  <2> QED
    BY <2>1 DEF Refs
<1>3. CASE h = hRx
  <2>1. <<"rx">> \in {<<"rx">> : x \in {rxblk} \cap {b}}
    BY <1>3, HoldsFacts
  <2> QED
    BY <2>1 DEF Refs
<1>4. CASE h = hTimer
  <2>1. <<"timer">> \in {<<"timer">> : x \in {tblk} \cap {b}}
    BY <1>4, HoldsFacts
  <2> QED
    BY <2>1 DEF Refs
<1>5. CASE h = hTasks
  <2>1. PICK i \in DOMAIN tasks : tasks[i] = b
    BY <1>5, HoldsFacts DEF ToSet
  <2>2. <<"tasks", i>> \in {<<"tasks", j>> : j \in Indices(b, tasks)}
    BY <2>1 DEF Indices
  <2> QED
    BY <2>2 DEF Refs
<1>6. ASSUME NEW w \in Workers, h = hWorker(w) PROVE Refs(b) # {}
  <2>1. wblk[w] = b
    BY <1>6, HoldsFacts
  <2>2. <<"worker", w>> \in {<<"worker", v>> : v \in Indices(b, wblk)}
    BY <1>1, <2>1 DEF Indices
  <2> QED
    BY <2>2 DEF Refs
<1>7. ASSUME NEW k \in Keys, h = hNode(k) PROVE Refs(b) # {}
  <2>1. k \in Pending /\ \E i \in DOMAIN pend[k].chain : pend[k].chain[i] = b
    BY <1>7, HoldsFacts DEF ToSet
  <2>2. PICK i \in DOMAIN pend[k].chain : pend[k].chain[i] = b
    BY <2>1
  <2>3. <<"node", k, i>> \in {<<"node", k, j>> : j \in Indices(b, pend[k].chain)}
    BY <2>2 DEF Indices
  <2>4. <<"node", k, i>> \in NodeRefs(b)
    BY <2>1, <2>3 DEF NodeRefs
  <2> QED
    BY <2>4 DEF Refs
<1>8. ASSUME NEW f \in Flushers, h = hFlush(f) PROVE Refs(b) # {}
  <2>1. PICK i \in DOMAIN fchain[f] : fchain[f][i] = b
    <3>1. b \in ToSet(fchain[f])
      BY <1>8, HoldsFacts
    <3> QED
      BY <3>1, Members
  <2>2. <<"flush", f, i>> \in {<<"flush", f, j>> : j \in Indices(b, fchain[f])}
    BY <2>1 DEF Indices
  <2>3. <<"flush", f, i>> \in FlushRefs(b)
    BY <2>2 DEF FlushRefs
  <2> QED
    BY <2>3 DEF Refs
<1> QED
  BY <1>2, <1>3, <1>4, <1>5, <1>6, <1>7, <1>8, HomeFacts

(* forward.c:20, "ownership is single": whatever the threads do, and even  *)
(* if recvfrom fails, no block is in two places at once.                   *)
THEOREM OwnershipIsSingle == Spec => []SingleOwner
<1>1. Inv => SingleOwner
  <2> SUFFICES ASSUME Inv, NEW b \in Blocks, NEW x \in Refs(b), NEW y \in Refs(b) PROVE x = y
    BY DEF SingleOwner
  <2>1. PICK g \in Homes : Holds(g, b) /\ Place(x, g, b)
    BY RefPlaces
  <2>2. PICK h \in Homes : Holds(h, b) /\ Place(y, h, b)
    BY RefPlaces
  <2>3. g = h
    BY <2>1, <2>2 DEF Inv, OwnedOnce
  <2> QED
    BY <2>1, <2>2, <2>3, OnePlace
<1> QED
  BY <1>1, Invariance, PTL

(* Only an error of recvfrom loses a block (main.c:99 forgets the one in    *)
(* hand): no path through forward_task, pend_tick, the flushes or the ARP  *)
(* handler loses another.                                                  *)
THEOREM NothingLeaks == Spec => []NoLeak
<1>1. Inv => NoLeak
  <2> SUFFICES ASSUME Inv, NEW b \in Blocks \ lost PROVE Refs(b) # {}
    BY DEF NoLeak
  <2>1. PICK h \in Homes : Holds(h, b)
    BY DEF Inv, Owned
  <2> QED
    BY <2>1, HomeRef
<1> QED
  BY <1>1, Invariance, PTL
=============================================================================
