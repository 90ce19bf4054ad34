------------------------------ MODULE Forward ------------------------------
(***************************************************************************)
(* The data path: the receive loop of main.c, the workers that run         *)
(* forward_task, the one-second timer (arp_tick, pend_tick) and the inline *)
(* ARP handler, around four shared things: the block pool, the task queue, *)
(* the ARP cache and the pending table.                                    *)
(*                                                                         *)
(* A step is the code between two accesses to shared state: each mutex or  *)
(* rwlock section is a step, what a thread does with its own block joins   *)
(* the step before it.  A frame is the block that holds it.  Of its bytes  *)
(* the model keeps the key it resolves to (next hop and egress interface)  *)
(* and draws the rest: firewall, route and interface tables may change at  *)
(* any time, so any verdict may come up.  The task queue is the FIFO       *)
(* ThreadPool implements; the ARP cache is the set of resolved keys.       *)
(* The traffic counters are left out, and so is shutdown.                  *)
(***************************************************************************)
EXTENDS Integers, Sequences, FiniteSets, SequencesExt

CONSTANTS Workers,         \* pool threads
          Arena, Heap,     \* blocks of the arena; blocks malloc can give
          Keys,            \* (next hop, ifidx) pairs: [nh |-> , ifidx |-> ]
          Ifaces,          \* ifindexes present in the interface table
          None,            \* no block, no key
          TASK_CAP, PEND_MAX, PEND_CHAIN_MAX, ARP_RETRY_MAX

ASSUME BlocksAssumption == Arena \cap Heap = {} /\ None \notin Arena \cup Heap
ASSUME KeysAssumption ==
  None \notin Keys /\ \A k \in Keys : k.ifidx \in Nat
ASSUME CapsAssumption ==
  /\ TASK_CAP \in Nat \ {0}
  /\ PEND_MAX \in Nat \ {0}
  /\ PEND_CHAIN_MAX \in Nat \ {0}
  /\ ARP_RETRY_MAX \in Nat

Blocks == Arena \cup Heap
Flushers == {"rx", "timer"}     \* the threads that flush pending chains

VARIABLES free,              \* blocks in the free stack or with malloc
          tasks,             \* queue of the thread pool
          known,             \* keys the ARP cache resolves
          pend,              \* key -> chain and retries, for the used nodes
          rxpc, rxblk,       \* receive loop
          lost,              \* blocks it forgot, a record the code does not keep
          wpc, wblk, wkey,   \* workers
          tpc, tkeys, tblk,  \* timer: keys it still has to retry
          fpc, fkey, fchain  \* forward_flush_pending, per calling thread

rxvars == <<rxpc, rxblk, lost>>
wvars == <<wpc, wblk, wkey>>
tvars == <<tpc, tkeys, tblk>>
fvars == <<fpc, fkey, fchain>>
vars == <<free, tasks, known, pend, rxvars, wvars, tvars, fvars>>

Pending == DOMAIN pend
Node(c, r) == [chain |-> c, retries |-> r]
DropNot(k, f) == f
Drop(k, f) == [x \in DOMAIN f \ {k} |-> f[x]]
With(k, v, f) == [x \in DOMAIN f \cup {k} |-> IF x = k THEN v ELSE f[x]]

Init == /\ free = Blocks
        /\ tasks = <<>>
        /\ known = {}
        /\ pend = <<>>
        /\ rxpc = "alloc" /\ rxblk = None /\ lost = {}
        /\ wpc = [w \in Workers |-> "idle"]
        /\ wblk = [w \in Workers |-> None]
        /\ wkey = [w \in Workers |-> None]
        /\ tpc = "sleep" /\ tkeys = {} /\ tblk = None
        /\ fpc = [f \in Flushers |-> "off"]
        /\ fkey = [f \in Flushers |-> None]
        /\ fchain = [f \in Flushers |-> <<>>]
-----------------------------------------------------------------------------
(* mp_alloc: the arena first, then malloc, which may fail. *)
MayAlloc(b) == b \in free /\ (b \in Heap => free \cap Arena = {})
AllocFails == free \cap Arena = {}

(* mp_free of every frame of a set. *)
Discard(bs) == free' = free \cup bs

(* forward_send of block b resolved to key k: the frame keeps its egress   *)
(* interface in eight bits and is released even if that one is unknown.    *)
OutIf(k) == k.ifidx % 256

ForwardSendLeaks(b, k) ==
  free' = IF OutIf(k) \in Ifaces THEN free \cup {b} ELSE free

ForwardSend(b, k) == free' = free \cup {b}
-----------------------------------------------------------------------------
(* rx_loop *)
RxAlloc == /\ rxpc = "alloc"
           /\ \E b \in free : MayAlloc(b) /\ rxblk' = b /\ free' = free \ {b}
           /\ rxpc' = "recv"
           /\ UNCHANGED <<tasks, known, pend, lost, wvars, tvars, fvars>>

(* recvfrom failed: back to the top of the loop, the block forgotten. *)
RxError == /\ rxpc = "recv"
           /\ lost' = lost \cup {rxblk}
           /\ rxpc' = "alloc"
           /\ rxblk' = None
           /\ UNCHANGED <<free, tasks, known, pend, wvars, tvars, fvars>>

(* Our own frame, a short one, or neither IP nor ARP. *)
RxDiscard == /\ rxpc = "recv"
             /\ Discard({rxblk})
             /\ rxpc' = "alloc"
             /\ rxblk' = None
             /\ UNCHANGED <<tasks, known, pend, lost, wvars, tvars, fvars>>

RxSubmit == /\ rxpc = "recv"
            /\ IF Len(tasks) = TASK_CAP
               THEN Discard({rxblk}) /\ UNCHANGED tasks
               ELSE tasks' = Append(tasks, rxblk) /\ UNCHANGED free
            /\ rxpc' = "alloc"
            /\ rxblk' = None
            /\ UNCHANGED <<known, pend, lost, wvars, tvars, fvars>>

(* arp_handle_frame on a well-formed frame from sender k: it is learned if *)
(* it belongs to the interface's subnet; a request for an address this     *)
(* router answers for is answered, in the same block, and k is flushed.    *)
(* Learning into a full cache evicts some other entry.                     *)
Learn(k) == \/ known' = known
            \/ known' = known \cup {k}
            \/ \E old \in known \ {k} : known' = (known \ {old}) \cup {k}

RxArpAnswered(k) == /\ rxpc = "recv"
                    /\ Learn(k)
                    /\ rxpc' = "flush"
                    /\ fpc' = [fpc EXCEPT !["rx"] = "lookup"]
                    /\ fkey' = [fkey EXCEPT !["rx"] = k]
                    /\ UNCHANGED <<free, tasks, pend, rxblk, lost, wvars, tvars, fchain>>

RxArpFreed(k) == /\ rxpc = "recv"
                 /\ Learn(k)
                 /\ free' = free \cup {rxblk}
                 /\ rxpc' = "alloc"
                 /\ rxblk' = None
                 /\ UNCHANGED <<tasks, pend, lost, wvars, tvars, fvars>>

RxFlushed == /\ rxpc = "flush" /\ fpc["rx"] = "off"
             /\ free' = free \cup {rxblk}
             /\ rxpc' = "alloc"
             /\ rxblk' = None
             /\ UNCHANGED <<tasks, known, pend, lost, wvars, tvars, fvars>>

RxArp == \E k \in Keys : RxArpAnswered(k) \/ RxArpFreed(k)
-----------------------------------------------------------------------------
(* forward_flush_pending, called by the receive loop and by the timer:     *)
(* look the key up, detach its chain, then send the frames one by one.     *)
FlushMiss(f) == /\ fpc[f] = "lookup"
                /\ fkey[f] \notin known
                /\ fpc' = [fpc EXCEPT ![f] = "off"]
                /\ fkey' = [fkey EXCEPT ![f] = None]
                /\ UNCHANGED <<free, tasks, known, pend, rxvars, wvars, tvars, fchain>>

FlushHit(f) == /\ fpc[f] = "lookup"
               /\ fkey[f] \in known
               /\ fpc' = [fpc EXCEPT ![f] = "detach"]
               /\ UNCHANGED <<free, tasks, known, pend, rxvars, wvars, tvars, fkey, fchain>>

FlushDetach(f) ==
  /\ fpc[f] = "detach"
  /\ IF fkey[f] \in Pending
     THEN /\ fchain' = [fchain EXCEPT ![f] = pend[fkey[f]].chain]
          /\ fpc' = [fpc EXCEPT ![f] = "send"]
          /\ pend' = Drop(fkey[f], pend)
          /\ UNCHANGED fkey
     ELSE /\ fpc' = [fpc EXCEPT ![f] = "off"]
          /\ fkey' = [fkey EXCEPT ![f] = None]
          /\ UNCHANGED <<pend, fchain>>
  /\ UNCHANGED <<free, tasks, known, rxvars, wvars, tvars>>

FlushSend(f) ==
  /\ fpc[f] = "send"
  /\ ForwardSend(Head(fchain[f]), fkey[f])
  /\ fchain' = [fchain EXCEPT ![f] = Tail(@)]
  /\ LET last == Len(fchain[f]) = 1
     IN /\ fpc' = [fpc EXCEPT ![f] = IF last THEN "off" ELSE @]
        /\ fkey' = [fkey EXCEPT ![f] = IF last THEN None ELSE @]
  /\ UNCHANGED <<tasks, known, pend, rxvars, wvars, tvars>>

Flush(f) == FlushMiss(f) \/ FlushHit(f) \/ FlushDetach(f) \/ FlushSend(f)
-----------------------------------------------------------------------------
(* worker_main takes a block; forward_task decides its fate. *)
Take(w) == /\ wpc[w] = "idle"
           /\ tasks # <<>>
           /\ wpc' = [wpc EXCEPT ![w] = "decide"]
           /\ wblk' = [wblk EXCEPT ![w] = Head(tasks)]
           /\ tasks' = Tail(tasks)
           /\ UNCHANGED <<free, known, pend, rxvars, wkey, tvars, fvars>>

(* Steps 1-5: malformed, filtered, for this host, no route, TTL expired. *)
Refuse(w) == /\ wpc[w] = "decide"
             /\ Discard({wblk[w]})
             /\ wpc' = [wpc EXCEPT ![w] = "idle"]
             /\ wblk' = [wblk EXCEPT ![w] = None]
             /\ UNCHANGED <<tasks, known, pend, rxvars, wkey, tvars, fvars>>

(* Step 6, arp_lookup of the key the tables gave. *)
Resolve(w, k) ==
  /\ wpc[w] = "decide"
  /\ wkey' = [wkey EXCEPT ![w] = k]
  /\ wpc' = [wpc EXCEPT ![w] = IF k \in known THEN "send" ELSE "enqueue"]
  /\ UNCHANGED <<free, tasks, known, pend, rxvars, wblk, tvars, fvars>>

Send(w) == /\ wpc[w] = "send"
           /\ ForwardSend(wblk[w], wkey[w])
           /\ wpc' = [wpc EXCEPT ![w] = "idle"]
           /\ wblk' = [wblk EXCEPT ![w] = None]
           /\ wkey' = [wkey EXCEPT ![w] = None]
           /\ UNCHANGED <<tasks, known, pend, rxvars, tvars, fvars>>
-----------------------------------------------------------------------------
(* pend_enqueue, under the table's lock: a frame joins its key's chain,    *)
(* unless the chain is full, or starts one, in a free node or in that of   *)
(* a chain it evicts: the one asked for longest ago, here any of them.     *)
Join(b, node) == Node(<<b>> \o node.chain, node.retries)
ChainOverfull(k) == Len(pend[k].chain) > PEND_CHAIN_MAX
ChainFull(k) == Len(pend[k].chain) >= PEND_CHAIN_MAX

Merge(w) == LET k == wkey[w]
            IN /\ k \in Pending /\ ~ChainFull(k)
               /\ pend' = [pend EXCEPT ![k] = Join(wblk[w], @)]
               /\ UNCHANGED free

Overflow(w) == LET k == wkey[w]
               IN /\ k \in Pending /\ ChainFull(k)
                  /\ Discard({wblk[w]})
                  /\ UNCHANGED pend

NewNode(w) == /\ wkey[w] \notin Pending
              /\ Cardinality(Pending) < PEND_MAX
              /\ pend' = With(wkey[w], Node(<<wblk[w]>>, 0), pend)
              /\ UNCHANGED free

Evict(w, old) == /\ wkey[w] \notin Pending
                 /\ Cardinality(Pending) >= PEND_MAX
                 /\ Discard(ToSet(pend[old].chain))
                 /\ pend' = With(wkey[w], Node(<<wblk[w]>>, 0), Drop(old, pend))

Enqueue(w) == /\ wpc[w] = "enqueue"
              /\ Merge(w) \/ Overflow(w) \/ NewNode(w) \/ \E old \in Pending : Evict(w, old)
              /\ wpc' = [wpc EXCEPT ![w] = "ask"]
              /\ wblk' = [wblk EXCEPT ![w] = None]
              /\ UNCHANGED <<tasks, known, rxvars, wkey, tvars, fvars>>

(* arp_request: a block is taken for the request, sent and given back,     *)
(* unless the interface is unknown or there is no block.                   *)
CannotAsk(k) == k.ifidx \notin Ifaces \/ AllocFails

AskSkip(w) == /\ wpc[w] = "ask"
              /\ CannotAsk(wkey[w])
              /\ wpc' = [wpc EXCEPT ![w] = "idle"]
              /\ wkey' = [wkey EXCEPT ![w] = None]
              /\ UNCHANGED <<free, tasks, known, pend, rxvars, wblk, tvars, fvars>>

Ask(w, b) == /\ wpc[w] = "ask"
             /\ wkey[w].ifidx \in Ifaces
             /\ MayAlloc(b)
             /\ free' = free \ {b}
             /\ wblk' = [wblk EXCEPT ![w] = b]
             /\ wpc' = [wpc EXCEPT ![w] = "asked"]
             /\ UNCHANGED <<tasks, known, pend, rxvars, wkey, tvars, fvars>>

Asked(w) == /\ wpc[w] = "asked"
            /\ free' = free \cup {wblk[w]}
            /\ wpc' = [wpc EXCEPT ![w] = "idle"]
            /\ wblk' = [wblk EXCEPT ![w] = None]
            /\ wkey' = [wkey EXCEPT ![w] = None]
            /\ UNCHANGED <<tasks, known, pend, rxvars, tvars, fvars>>

Work(w) == \/ Take(w) \/ Refuse(w) \/ \E k \in Keys : Resolve(w, k)
           \/ Send(w) \/ Enqueue(w)
           \/ AskSkip(w) \/ Asked(w) \/ \E b \in free : Ask(w, b)
-----------------------------------------------------------------------------
(* timer_thread after its sleep: arp_tick removes the entries that aged.   *)
ArpTick == /\ tpc = "sleep"
           /\ \E fresh \in SUBSET known : known' = fresh
           /\ tpc' = "tick"
           /\ UNCHANGED <<free, tasks, pend, rxvars, wvars, tkeys, tblk, fvars>>

(* pend_tick with the lock: a chain out of retries is dropped, the others  *)
(* have one more on record and are listed for a request and a flush.       *)
RetriedFree(node) == node
Retried(node) == Node(node.chain, node.retries + 1)
Exhausted == {k \in Pending : pend[k].retries >= ARP_RETRY_MAX}

PendTick ==
  /\ tpc = "tick"
  /\ Discard(UNION {ToSet(pend[k].chain) : k \in Exhausted})
  /\ pend' = [k \in Pending \ Exhausted |-> Retried(pend[k])]
  /\ tkeys' = Pending \ Exhausted
  /\ tpc' = "keys"
  /\ UNCHANGED <<tasks, known, rxvars, wvars, tblk, fvars>>

(* Without the lock: for every listed key a request, then a flush. *)
RetryAsk(k, b) == /\ tpc = "keys"
                  /\ k.ifidx \in Ifaces
                  /\ MayAlloc(b)
                  /\ free' = free \ {b}
                  /\ tblk' = b
                  /\ tpc' = "asked"
                  /\ fkey' = [fkey EXCEPT !["timer"] = k]
                  /\ tkeys' = tkeys \ {k}
                  /\ UNCHANGED <<tasks, known, pend, rxvars, wvars, fpc, fchain>>

RetryAsked == /\ tpc = "asked"
              /\ free' = free \cup {tblk}
              /\ tblk' = None
              /\ tpc' = "flush"
              /\ fpc' = [fpc EXCEPT !["timer"] = "lookup"]
              /\ UNCHANGED <<tasks, known, pend, rxvars, wvars, tkeys, fkey, fchain>>

RetrySkip(k) == /\ tpc = "keys"
                /\ CannotAsk(k)
                /\ tpc' = "flush"
                /\ fpc' = [fpc EXCEPT !["timer"] = "lookup"]
                /\ fkey' = [fkey EXCEPT !["timer"] = k]
                /\ tkeys' = tkeys \ {k}
                /\ UNCHANGED <<free, tasks, known, pend, rxvars, wvars, tblk, fchain>>

RetryNext == /\ tpc = "flush" /\ fpc["timer"] = "off"
             /\ tpc' = "keys"
             /\ UNCHANGED <<free, tasks, known, pend, rxvars, wvars, tkeys, tblk, fvars>>

TickDone == /\ tpc = "keys" /\ tkeys = {}
            /\ tpc' = "sleep"
            /\ UNCHANGED <<free, tasks, known, pend, rxvars, wvars, tkeys, tblk, fvars>>

Timer == \/ ArpTick \/ PendTick \/ RetryAsked \/ RetryNext \/ TickDone
         \/ \E k \in tkeys : RetrySkip(k) \/ \E b \in free : RetryAsk(k, b)
-----------------------------------------------------------------------------
Rx == RxAlloc \/ RxError \/ RxDiscard \/ RxSubmit \/ RxArp \/ RxFlushed

Next == \/ Rx \/ Flush("rx")
        \/ \E w \in Workers : Work(w)
        \/ Timer \/ Flush("timer")

(* Every thread runs, the timer's sleeps end; no frame need ever arrive.   *)
(* A thread is in one place at a time, so each has one condition.          *)
Fairness == /\ \A w \in Workers : WF_vars(Work(w))
            /\ WF_vars(Timer \/ Flush("timer"))
            /\ WF_vars(RxAlloc \/ RxFlushed \/ Flush("rx"))

Spec == Init /\ [][Next]_vars /\ Fairness
-----------------------------------------------------------------------------
BlockOrNone == Blocks \cup {None}
KeyOrNone == Keys \cup {None}

(* Every variable has its type; the pending table keeps within its nodes,  *)
(* its chains within their limit and the retries within theirs.            *)
TypeOK ==
  /\ free \subseteq Blocks
  /\ tasks \in Seq(Blocks) /\ Len(tasks) <= TASK_CAP
  /\ known \subseteq Keys
  /\ Pending \subseteq Keys /\ Cardinality(Pending) <= PEND_MAX
  /\ \A k \in Pending : /\ pend[k].chain \in Seq(Blocks)
                        /\ Len(pend[k].chain) \in 1..PEND_CHAIN_MAX
                        /\ pend[k].retries \in 0..ARP_RETRY_MAX
  /\ rxpc \in {"alloc", "recv", "flush"} /\ rxblk \in BlockOrNone /\ lost \subseteq Blocks
  /\ wpc \in [Workers -> {"idle", "decide", "send", "enqueue", "ask", "asked"}]
  /\ wblk \in [Workers -> BlockOrNone] /\ wkey \in [Workers -> KeyOrNone]
  /\ tpc \in {"sleep", "tick", "keys", "asked", "flush"}
  /\ tkeys \subseteq Keys /\ tblk \in BlockOrNone
  /\ fpc \in [Flushers -> {"off", "lookup", "detach", "send"}]
  /\ fkey \in [Flushers -> KeyOrNone] /\ fchain \in [Flushers -> Seq(Blocks)]

(* Every reference to block b the threads and tables hold, one by one. *)
Indices(b, s) == {i \in DOMAIN s : s[i] = b}
NodeRefs(b) == UNION {{<<"node", k, i>> : i \in Indices(b, pend[k].chain)} : k \in Pending}
FlushRefs(b) == UNION {{<<"flush", f, i>> : i \in Indices(b, fchain[f])} : f \in Flushers}
Refs(b) ==
  {<<"free">> : x \in free \cap {b}} \cup {<<"rx">> : x \in {rxblk} \cap {b}}
  \cup {<<"timer">> : x \in {tblk} \cap {b}}
  \cup {<<"tasks", i>> : i \in Indices(b, tasks)}
  \cup {<<"worker", w>> : w \in Indices(b, wblk)}
  \cup NodeRefs(b) \cup FlushRefs(b)

(* forward.c:20, "ownership is single": no block is in two places, so none *)
(* is freed twice or used after it was freed.                              *)
SingleOwner == \A b \in Blocks : \A x, y \in Refs(b) : x = y

(* No block is lost but by an error of recvfrom (main.c:99): every other is *)
(* free or somewhere a thread will find it.                                *)
NoLeak == \A b \in Blocks \ lost : Refs(b) # {}

(* A frame submitted to the pool leaves the router's hands: it is sent or  *)
(* discarded, whoever holds it and whether or not ARP ever answers, and    *)
(* even while later frames keep joining its chain.                         *)
Accepted(b) == b \in ToSet(tasks) \cup {wblk[w] : w \in Workers}
                     \cup UNION {ToSet(pend[k].chain) : k \in Pending}
FramesLeave == \A b \in Blocks : Accepted(b) ~> b \in free
=============================================================================
