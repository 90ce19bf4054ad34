------------------------------ MODULE MemPool ------------------------------
(***************************************************************************)
(* The block pool of mempool.c: MP_COUNT blocks of an arena behind a stack *)
(* of free indices, malloc when the stack is empty, and the counters       *)
(* showpool prints, which each call updates outside the lock.  The blocks  *)
(* below MP_COUNT are the arena's, the others are malloc's.  A block one   *)
(* thread allocates may be freed by another.                               *)
(***************************************************************************)
EXTENDS Integers, FiniteSets

CONSTANTS MP_COUNT,      \* blocks of the arena
          HeapBlocks,    \* bound: blocks malloc can have out at once
          Threads,
          U64            \* the counters' range, 2^64

ASSUME PoolAssumption == /\ MP_COUNT \in Nat \ {0}
                         /\ HeapBlocks \in Nat
                         /\ U64 \in Nat \ {0}

Arena == 0..(MP_COUNT - 1)
HeapIds == MP_COUNT..(MP_COUNT + HeapBlocks - 1)
Blocks == Arena \cup HeapIds
NULL == -1

VARIABLES g_free_stack, g_free_top,
          heap,                      \* blocks malloc has given out
          held,                      \* blocks callers own
          pc, blk,                   \* per thread: mp_alloc or mp_free
          g_allocs, g_frees, g_fallbacks,
          failed                     \* calls that returned NULL

vars == <<g_free_stack, g_free_top, heap, held, pc, blk, g_allocs, g_frees,
          g_fallbacks, failed>>

Init == /\ g_free_stack = [i \in Arena |-> i]
        /\ g_free_top = MP_COUNT
        /\ heap = {}
        /\ held = {}
        /\ pc = [t \in Threads |-> "out"]
        /\ blk = [t \in Threads |-> NULL]
        /\ g_allocs = 0 /\ g_frees = 0 /\ g_fallbacks = 0 /\ failed = 0

Goto(t, l, b) == /\ pc' = [pc EXCEPT ![t] = l]
                 /\ blk' = [blk EXCEPT ![t] = b]
-----------------------------------------------------------------------------
(* mp_alloc: pop, or with the stack empty and the lock released, malloc. *)
Inside(l) == {t \in Threads : pc[t] = l}
Inc(n) == (n + 1) % U64

Pop(t) == /\ pc[t] = "out"
          /\ g_free_top > 0
          /\ g_free_top' = g_free_top - 1
          /\ Goto(t, "popped", g_free_stack[g_free_top - 1])
          /\ UNCHANGED <<g_free_stack, heap, held, g_allocs, g_frees, g_fallbacks, failed>>

FindEmpty(t) == /\ pc[t] = "out"
                /\ g_free_top = 0
                /\ Goto(t, "empty", NULL)
                /\ UNCHANGED <<g_free_stack, g_free_top, heap, held, g_allocs,
                               g_frees, g_fallbacks, failed>>

Malloc(t) == /\ pc[t] = "empty"
             /\ g_fallbacks' = Inc(g_fallbacks)
             /\ \/ Goto(t, "popped", NULL) /\ UNCHANGED heap
                \/ \E b \in HeapIds \ heap : Goto(t, "popped", b) /\ heap' = heap \cup {b}
             /\ UNCHANGED <<g_free_stack, g_free_top, held, g_allocs, g_frees, failed>>

(* g_allocs++ counts the call, whatever it got. *)
CountBlock(t) == g_allocs' = IF blk[t] = NULL THEN g_allocs ELSE Inc(g_allocs)
CountCall(t) == g_allocs' = Inc(g_allocs)

AllocReturns(t) ==
  /\ pc[t] = "popped"
  /\ CountCall(t)
  /\ held' = IF blk[t] = NULL THEN held ELSE held \cup {blk[t]}
  /\ failed' = IF blk[t] = NULL THEN Inc(failed) ELSE failed
  /\ Goto(t, "out", NULL)
  /\ UNCHANGED <<g_free_stack, g_free_top, heap, g_frees, g_fallbacks>>

(* mp_free of a block a caller owns: push its index if its address is in   *)
(* the arena, free it if not.                                              *)
InArenaOrNext(b) == b \in 0..MP_COUNT
InArena(b) == b \in Arena

PushedBelow(top) == IF top = 0 THEN 0 ELSE top - 1
Pushed(top) == top

Push(t, b) == /\ pc[t] = "out"
              /\ b \in held /\ InArena(b)
              /\ held' = held \ {b}
              /\ IF g_free_top < MP_COUNT
                 THEN /\ g_free_stack' = [g_free_stack EXCEPT ![Pushed(g_free_top)] = b]
                      /\ g_free_top' = g_free_top + 1
                 ELSE UNCHANGED <<g_free_stack, g_free_top>>
              /\ Goto(t, "pushed", NULL)
              /\ UNCHANGED <<heap, g_allocs, g_frees, g_fallbacks, failed>>

Free(t, b) == /\ pc[t] = "out"
              /\ b \in held /\ ~InArena(b)
              /\ held' = held \ {b}
              /\ heap' = heap \ {b}
              /\ Goto(t, "pushed", NULL)
              /\ UNCHANGED <<g_free_stack, g_free_top, g_allocs, g_frees,
                             g_fallbacks, failed>>

FreeReturns(t) == /\ pc[t] = "pushed"
                  /\ g_frees' = Inc(g_frees)
                  /\ Goto(t, "out", NULL)
                  /\ UNCHANGED <<g_free_stack, g_free_top, heap, held, g_allocs,
                                 g_fallbacks, failed>>
-----------------------------------------------------------------------------
Next == \E t \in Threads :
          \/ Pop(t) \/ FindEmpty(t) \/ Malloc(t) \/ AllocReturns(t)
          \/ \E b \in held : Push(t, b) \/ Free(t, b)
          \/ FreeReturns(t)

Spec == Init /\ [][Next]_vars
-----------------------------------------------------------------------------
(* Every variable keeps its type. *)
TypeOK == /\ g_free_stack \in [Arena -> Arena]
          /\ g_free_top \in 0..MP_COUNT
          /\ heap \subseteq HeapIds
          /\ held \subseteq Blocks
          /\ pc \in [Threads -> {"out", "empty", "popped", "pushed"}]
          /\ blk \in [Threads -> Blocks \cup {NULL}]
          /\ {g_allocs, g_frees, g_fallbacks, failed} \subseteq 0..(U64 - 1)

OnStack == {g_free_stack[i] : i \in 0..(g_free_top - 1)}
InCall == {blk[t] : t \in Inside("popped")} \ {NULL}

(* A block is on the stack once, or owned by one caller, or about to be    *)
(* returned by one call, and every block of the arena is one of these: no  *)
(* block is handed out twice and none gets lost.                           *)
BlocksPartitioned ==
  /\ \A i, j \in 0..(g_free_top - 1) : g_free_stack[i] = g_free_stack[j] => i = j
  /\ OnStack \cap held = {} /\ OnStack \cap InCall = {} /\ held \cap InCall = {}
  /\ \A t, u \in Inside("popped") : blk[t] = blk[u] /\ blk[t] # NULL => t = u
  /\ OnStack \cup (held \cap Arena) \cup (InCall \cap Arena) = Arena
  /\ heap = (held \cup InCall) \cap HeapIds

(* showpool's "outstanding", allocs minus frees, is the blocks held, plus  *)
(* the frees under way, plus every call that failed: a failed malloc       *)
(* counts as outstanding for good.  The counters may wrap.                 *)
CountersAgree ==
  (g_allocs - g_frees) % U64
    = (Cardinality(held) + Cardinality(Inside("pushed")) + failed) % U64
=============================================================================
