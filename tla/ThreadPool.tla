---------------------------- MODULE ThreadPool ----------------------------
(***************************************************************************)
(* The worker pool of thread_pool.c: a ring of TASK_CAP tasks under one    *)
(* mutex, the condition variable not_empty, up to POOL_THREADS workers and *)
(* the main thread, which creates them, submits the IP frames it receives  *)
(* and finally shuts the pool down and joins.                              *)
(*                                                                         *)
(* A section between pthread_mutex_lock and unlock (or cond_wait) is one   *)
(* step.  not_full is left out: it is signalled and nobody waits on it.    *)
(* A task is named by the number of its submission; what it does is        *)
(* Forward's subject.  WakeNone, NextSlotShort, AtTail, Newest, FullTooLate *)
(* and ShutdownSeen are slips a maintainer could make, which the           *)
(* properties are tried against; no action uses them.                      *)
(***************************************************************************)
EXTENDS Integers, FiniteSets

CONSTANTS TASK_CAP,       \* slots of the ring
          POOL_THREADS,   \* upper bound on the number of workers
          Requests,       \* values cfg_threads() may return
          MaxCalls        \* bound: calls of tpool_submit in a behaviour

ASSUME CapAssumption == TASK_CAP \in Nat \ {0}
ASSUME ThreadsAssumption == POOL_THREADS \in Nat \ {0}
ASSUME RequestsAssumption == Requests \subseteq Int
ASSUME CallsAssumption == MaxCalls \in Nat

Workers == 1..POOL_THREADS
Slots == 0..(TASK_CAP - 1)
NoTask == 0

VARIABLES q, head, tail, count,   \* the ring and its unsigned indices
          shutdown,               \* g_pool.shutdown
          nthreads,               \* g_pool.nthreads
          created,                \* tpool_init's i: workers created so far
          submitted, executed,    \* the statistics counters
          drops,
          pc,                     \* where each worker is
          cur,                    \* the task a worker copied out of the ring
          mainpc                  \* where the main thread is

ring == <<q, head, tail, count>>
vars == <<q, head, tail, count, shutdown, nthreads, created, submitted,
          executed, drops, pc, cur, mainpc>>

At(l) == {w \in Workers : pc[w] = l}

(* main returned, from its end or from a failed tpool_init: the process,   *)
(* and every thread in it, is gone.                                        *)
Alive == mainpc \notin {"exited", "failed"}
-----------------------------------------------------------------------------
(* The number of workers for a requested one: tpool_init, lines 57-60. *)
Clamp(n) == IF n <= 0 \/ n > POOL_THREADS THEN POOL_THREADS ELSE n

Init == /\ nthreads \in {Clamp(n) : n \in Requests}
        /\ created = 0
        /\ q = [s \in Slots |-> NoTask]
        /\ head = 0
        /\ tail = 0
        /\ count = 0
        /\ shutdown = FALSE
        /\ submitted = 0
        /\ executed = 0
        /\ drops = 0
        /\ pc = [w \in Workers |-> "none"]
        /\ cur = [w \in Workers |-> NoTask]
        /\ mainpc = "init"

(* One pthread_create of tpool_init; the last one ends it. *)
Create ==
  /\ mainpc = "init"
  /\ created' = created + 1
  /\ pc' = [pc EXCEPT ![created + 1] = "lock"]
  /\ mainpc' = IF created + 1 = nthreads THEN "serve" ELSE "init"
  /\ UNCHANGED <<ring, shutdown, nthreads, submitted, executed, drops, cur>>

(* pthread_create failed: tpool_init returns -1 and main returns 1. *)
CreateFails ==
  /\ mainpc = "init"
  /\ mainpc' = "failed"
  /\ UNCHANGED <<ring, shutdown, nthreads, created, submitted, executed,
                 drops, pc, cur>>
-----------------------------------------------------------------------------
(* Condition not_empty.  A signal moves one waiter, if there is one, to    *)
(* the mutex, which one being the implementation's choice; a broadcast     *)
(* moves them all.                                                         *)
WakeNone == pc' = pc

WakeOne == IF At("wait") = {} THEN pc' = pc
           ELSE \E w \in At("wait") : pc' = [pc EXCEPT ![w] = "lock"]

WakeAll == pc' = [w \in Workers |-> IF pc[w] = "wait" THEN "lock" ELSE pc[w]]

(* Where head and tail move to, the task head points at, the ring's limit. *)
NextSlotShort(s) == (s + 1) % (TASK_CAP - 1)
NextSlot(s) == (s + 1) % TASK_CAP

AtTail == q[tail]
Newest == q[(head + count - 1) % TASK_CAP]
Oldest == q[head]

FullTooLate == count > TASK_CAP
Full == count = TASK_CAP
-----------------------------------------------------------------------------
(* tpool_submit by rx_loop. *)
Submit ==
  /\ mainpc = "serve"
  /\ submitted + drops < MaxCalls
  /\ ~(Full \/ shutdown)
  /\ q' = [q EXCEPT ![tail] = submitted + 1]
  /\ tail' = NextSlot(tail)
  /\ count' = count + 1
  /\ submitted' = submitted + 1
  /\ WakeOne
  /\ UNCHANGED <<head, shutdown, nthreads, created, executed, drops, cur, mainpc>>

(* -2, the caller keeps the block; only a full ring counts as a drop. *)
SubmitRejected ==
  /\ mainpc = "serve"
  /\ submitted + drops < MaxCalls
  /\ Full \/ shutdown
  /\ drops' = IF shutdown THEN drops ELSE drops + 1
  /\ UNCHANGED <<ring, shutdown, nthreads, created, submitted, executed, pc,
                 cur, mainpc>>
-----------------------------------------------------------------------------
(* worker_main, with the mutex: wait, leave, or take a task. *)
ShutdownSeen == shutdown
MayLeave == count = 0 /\ shutdown

Wait(w) ==
  /\ Alive
  /\ pc[w] = "lock"
  /\ count = 0 /\ ~shutdown
  /\ pc' = [pc EXCEPT ![w] = "wait"]
  /\ UNCHANGED <<ring, shutdown, nthreads, created, submitted, executed,
                 drops, cur, mainpc>>

Leave(w) ==
  /\ Alive
  /\ pc[w] = "lock"
  /\ MayLeave
  /\ pc' = [pc EXCEPT ![w] = "left"]
  /\ UNCHANGED <<ring, shutdown, nthreads, created, submitted, executed,
                 drops, cur, mainpc>>

Take(w) ==
  /\ Alive
  /\ pc[w] = "lock"
  /\ count > 0
  /\ cur' = [cur EXCEPT ![w] = Oldest]
  /\ head' = NextSlot(head)
  /\ count' = count - 1
  /\ pc' = [pc EXCEPT ![w] = "run"]
  /\ UNCHANGED <<q, tail, shutdown, nthreads, created, submitted, executed,
                 drops, mainpc>>

(* t.fn(t.arg) returned; the worker goes round its loop. *)
Finish(w) ==
  /\ Alive
  /\ pc[w] = "run"
  /\ executed' = executed + 1
  /\ cur' = [cur EXCEPT ![w] = NoTask]
  /\ pc' = [pc EXCEPT ![w] = "lock"]
  /\ UNCHANGED <<ring, shutdown, nthreads, created, submitted, drops, mainpc>>

(* POSIX lets cond_wait return unsignalled; the while loop is there for it. *)
SpuriousWake(w) ==
  /\ Alive
  /\ pc[w] = "wait"
  /\ pc' = [pc EXCEPT ![w] = "lock"]
  /\ UNCHANGED <<ring, shutdown, nthreads, created, submitted, executed,
                 drops, cur, mainpc>>
-----------------------------------------------------------------------------
(* tpool_shutdown, once rx_loop has returned: broadcast, then join. *)
Shutdown ==
  /\ mainpc = "serve"
  /\ shutdown' = TRUE
  /\ WakeAll
  /\ mainpc' = "join"
  /\ UNCHANGED <<ring, nthreads, created, submitted, executed, drops, cur>>

(* Every pthread_join returned, and main with them. *)
Join ==
  /\ mainpc = "join"
  /\ \A w \in 1..nthreads : pc[w] = "left"
  /\ mainpc' = "exited"
  /\ UNCHANGED <<ring, shutdown, nthreads, created, submitted, executed,
                 drops, pc, cur>>

Terminated == ~Alive /\ UNCHANGED vars
-----------------------------------------------------------------------------
Main == Create \/ CreateFails \/ Submit \/ SubmitRejected \/ Shutdown \/ Join

Locked(w) == Wait(w) \/ Leave(w) \/ Take(w)

Next == \/ Main
        \/ \E w \in Workers : Locked(w) \/ Finish(w) \/ SpuriousWake(w)
        \/ Terminated

(* A worker that wants the mutex gets it and a task returns: the scheduler *)
(* runs every thread and no section blocks.  Nothing obliges main to       *)
(* submit, or to be asked to shut down, or a wait to end without a signal. *)
Fairness == /\ \A w \in Workers : WF_vars(Locked(w)) /\ WF_vars(Finish(w))
            /\ WF_vars(Create)
            /\ WF_vars(Join)

Spec == Init /\ [][Next]_vars /\ Fairness
-----------------------------------------------------------------------------
(* Every variable has the type the C declaration and the ring's bounds     *)
(* give it.                                                                *)
TypeOK == /\ q \in [Slots -> Nat]
          /\ head \in Slots
          /\ tail \in Slots
          /\ count \in 0..TASK_CAP
          /\ shutdown \in BOOLEAN
          /\ nthreads \in Workers
          /\ created \in 0..nthreads
          /\ submitted \in Nat
          /\ executed \in Nat
          /\ drops \in Nat
          /\ pc \in [Workers -> {"none", "lock", "wait", "run", "left"}]
          /\ cur \in [Workers -> Nat]
          /\ mainpc \in {"init", "serve", "join", "exited", "failed"}

(* While a worker sleeps in cond_wait, every queued task has a worker of   *)
(* its own on the way to the mutex: the one signal of tpool_submit is      *)
(* enough, no task waits for a worker that sleeps.                         *)
NoLostWakeup == At("wait") # {} => count <= Cardinality(At("lock"))

(* The ring holds the latest `count` submissions, oldest first from head,  *)
(* so indices that wrap neither overwrite nor repeat a task.               *)
RingInOrder ==
  /\ tail = (head + count) % TASK_CAP
  /\ \A i \in 0..(count - 1) :
       q[(head + i) % TASK_CAP] = submitted - count + 1 + i

(* Every accepted task is queued, in one worker's hands, or executed once: *)
(* the counters showthread prints add up at every step.                      *)
Conservation ==
  /\ submitted = count + Cardinality(At("run")) + executed
  /\ \A v, w \in At("run") : cur[v] = cur[w] => v = w
  /\ \A w \in At("run") : cur[w] \in 1..(submitted - count)

(* thread_pool.h:10: when tpool_shutdown returns, every accepted task has  *)
(* been executed and no worker is left.                                    *)
DrainedAtExit ==
  mainpc = "exited" => /\ executed = submitted
                       /\ \A w \in Workers : pc[w] \in {"none", "left"}

(* A shutdown, once begun, returns. *)
ShutdownReturns == mainpc = "join" ~> mainpc = "exited"
-----------------------------------------------------------------------------
(* The abstract queue this pool implements.  What is neither in the ring   *)
(* nor in a worker's hands must have been executed.                        *)
Queued == [i \in 1..count |-> q[(head + i - 1) % TASK_CAP]]
InHand == {cur[w] : w \in At("run")}

TQ == INSTANCE TaskQueue WITH
        Capacity <- TASK_CAP, MaxWidth <- POOL_THREADS, width <- nthreads,
        accepted <- submitted, queue <- Queued, running <- InHand,
        finished <- (1..submitted) \ (InHand \cup {Queued[i] : i \in 1..count}),
        closed <- shutdown, stopped <- mainpc = "exited"

(* The pool is a FIFO of tasks started once each and all finished before   *)
(* shutdown returns; under the fairness above it starts and finishes them. *)
ImplementsTaskQueue == TQ!Spec
=============================================================================
