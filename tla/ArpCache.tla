----------------------------- MODULE ArpCache -----------------------------
(***************************************************************************)
(* What arp_table.h promises: a bounded map from (IP, interface) to MAC.   *)
(* Threads call it: a call states its operation and arguments and carries  *)
(* the time it began at; later it takes effect and returns, in one step.   *)
(* A lookup answers with the MAC learned last for its key and marks the    *)
(* entry used; a new entry takes the place of the least recently used one  *)
(* when the map is full; ageing leaves no entry unused for longer than the *)
(* timeout.  ArpTable implements this specification.                       *)
(***************************************************************************)
EXTENDS Integers, FiniteSets

CONSTANTS Threads, Timer,       \* callers; the one that ages
          Keys, Macs,           \* what is cached
          Times, Timeouts,      \* clock values and timeouts, natural numbers
          Capacity,             \* entries, at least one
          NoMac, NoArg          \* not in Macs; an argument that is not given

VARIABLES clock,
          call,     \* thread -> its operation, key and MAC, time of beginning
          cache,    \* key -> [mac, seen]
          answer,   \* what the latest call to return found: a MAC or NoMac
          timeout,  \* in force now
          limits    \* in force at some moment since the ageing in progress began

vars == <<clock, call, cache, answer, timeout, limits>>

Cached == DOMAIN cache
Entry(m, s) == [mac |-> m, seen |-> s]
Without(S) == [k \in Cached \ S |-> cache[k]]
With(f, k, e) == [x \in DOMAIN f \cup {k} |-> IF x = k THEN e ELSE f[x]]
Oldest == {k \in Cached : \A j \in Cached : cache[k].seen <= cache[j].seen}

Idle == [op |-> "idle", now |-> 0, arg |-> NoArg]

Init == /\ clock = 0
        /\ call = [t \in Threads |-> Idle]
        /\ cache = [k \in {} |-> Entry(NoMac, 0)]
        /\ answer = NoMac
        /\ timeout \in Timeouts
        /\ limits = {}

Tick == /\ clock' \in Times /\ clock' > clock
        /\ UNCHANGED <<call, cache, answer, timeout, limits>>

(* Nobody locks the timeout: an ageing that is under way may go by either. *)
SetTimeout(s) == /\ timeout' = s
                 /\ limits' = IF limits = {} THEN {} ELSE limits \cup {s}
                 /\ UNCHANGED <<clock, call, cache, answer>>

Begin(t, op, arg) ==
  /\ call[t].op = "idle"
  /\ call' = [call EXCEPT ![t] = [op |-> op, now |-> clock, arg |-> arg]]
  /\ limits' = IF op = "age" THEN {timeout} ELSE limits
  /\ UNCHANGED <<clock, cache, answer, timeout>>

Return(t, op) == /\ call[t].op = op
                 /\ call' = [call EXCEPT ![t] = Idle]
                 /\ limits' = IF op = "age" THEN {} ELSE limits
                 /\ UNCHANGED <<clock, timeout>>

Lookup(t) ==
  /\ Return(t, "lookup")
  /\ LET k == call[t].arg[1]
     IN IF k \in Cached
        THEN /\ answer' = cache[k].mac
             /\ cache' = [cache EXCEPT ![k].seen = call[t].now]
        ELSE /\ answer' = NoMac
             /\ cache' = cache

Insert(t) ==
  /\ Return(t, "insert")
  /\ answer' = NoMac
  /\ LET k == call[t].arg[1]
         e == Entry(call[t].arg[2], call[t].now)
     IN IF k \in Cached \/ Cardinality(Cached) < Capacity
        THEN cache' = With(cache, k, e)
        ELSE \E old \in Oldest : cache' = With(Without({old}), k, e)

(* Everything too old at `now` goes.  Of the rest only what was used after *)
(* `now` may go: a clock read earlier than the step makes such an age wrap *)
(* in unsigned arithmetic (arp_table.c:169).                               *)
Age(t) ==
  /\ Return(t, "age")
  /\ answer' = NoMac
  /\ LET unused(k) == call[t].now - cache[k].seen
     IN \E S \in SUBSET Cached :
          /\ \A k \in Cached : (\A l \in limits : unused(k) > l) => k \in S
          /\ \A k \in S : unused(k) < 0 \/ \E l \in limits : unused(k) > l
          /\ cache' = Without(S)

Next == \/ Tick
        \/ \E s \in Timeouts : SetTimeout(s)
        \/ \E t \in Threads, k \in Keys : Begin(t, "lookup", <<k, NoMac>>)
        \/ \E t \in Threads, k \in Keys, m \in Macs : Begin(t, "insert", <<k, m>>)
        \/ Begin(Timer, "age", NoArg)
        \/ \E t \in Threads : Lookup(t) \/ Insert(t) \/ Age(t)

Spec == Init /\ [][Next]_vars
=============================================================================
