----------------------------- MODULE ArpTable -----------------------------
(***************************************************************************)
(* The ARP cache of arp_table.c: ARP_CAP slots threaded into hash buckets  *)
(* by index, under one rwlock.  Every operation reads the clock first and  *)
(* takes the lock second, so time may pass, and other threads may run,     *)
(* between the two; a locked section is one step.  The receive loop        *)
(* inserts, workers and flushers look up, the timer ages.  A command that  *)
(* loads the configuration stores the timeout, under no lock, so a pass of *)
(* arp_tick may see it change from one slot to the next; it compares each  *)
(* with a value the timeout had since the call began.  arp_delete is not   *)
(* modelled: nothing calls it.                                             *)
(***************************************************************************)
EXTENDS Integers, FiniteSets

CONSTANTS ARP_CAP,           \* slots
          Buckets,           \* bucket numbers
          Ips, Ifs, Macs,    \* addresses, interface indexes, MACs
          hash_ip,           \* any function from addresses to buckets
          Lookers, Timer,    \* threads that look up; the timer thread
          Receiver,          \* the receive loop, which also looks up
          Secs, MIN_TMO,     \* what arp_set_timeout is given; what it accepts
          U64,               \* 2^64, or a bound no clock value reaches
          MaxClock,          \* bound: the clock stops there
          NoMac, NoKey

ASSUME ArpAssumption == /\ ARP_CAP \in Nat \ {0}
                        /\ Secs \subseteq Nat /\ MIN_TMO \in Nat
                        /\ MaxClock \in Nat
                        /\ U64 \in Nat /\ \A s \in Secs : U64 > MaxClock + s
                        /\ NoMac \notin Macs
                        /\ hash_ip \in [Ips -> Buckets]

Slots == 0..(ARP_CAP - 1)
Nil == -1
Keys == Ips \X Ifs
Timeouts == {s \in Secs : s >= MIN_TMO}
Threads == Lookers \cup {Receiver, Timer}

VARIABLES entry,     \* g_entries
          bucket,    \* g_bucket
          clock,     \* CLOCK_MONOTONIC, in seconds
          pc,        \* what each thread is about to do with the table
          now,       \* its `now`, read before the lock
          arg,       \* its arguments: key and, to insert, MAC
          answer,    \* the latest call's result: a lookup's MAC, or NoMac
          g_timeout, \* seconds an entry may stay unused
          limits     \* auxiliary: the values g_timeout had since arp_tick's
                     \* call began

vars == <<entry, bucket, clock, pc, now, arg, answer, g_timeout, limits>>
calls == <<pc, now, arg>>

KeyOf(e, s) == <<e[s].ip, e[s].ifidx>>
Free == [ip |-> NoKey, ifidx |-> NoKey, mac |-> NoMac, seen |-> 0,
         used |-> FALSE, next |-> Nil]

Init == /\ entry = [s \in Slots |-> Free]
        /\ bucket = [h \in Buckets |-> Nil]
        /\ clock = 0
        /\ pc = [t \in Threads |-> "idle"]
        /\ now = [t \in Threads |-> 0]
        /\ arg = [t \in Threads |-> NoKey]
        /\ answer = NoMac
        /\ g_timeout \in Timeouts
        /\ limits = {}
-----------------------------------------------------------------------------
(* Walking bucket h of entries e and heads b: the slot n links away. *)
Walk(e, b, h) == LET at[n \in 0..ARP_CAP] ==
                       IF n = 0 THEN b[h]
                       ELSE IF at[n - 1] = Nil THEN Nil ELSE e[at[n - 1]].next
                 IN at
Chain(e, b, h) == {Walk(e, b, h)[n] : n \in 0..ARP_CAP} \ {Nil}

(* The first slot of its bucket's chain that holds key k, or Nil. *)
FindAtHead(k) ==
  LET s == bucket[hash_ip[k[1]]]
  IN IF s # Nil /\ KeyOf(entry, s) = k THEN s ELSE Nil

FindByIp(k) ==
  LET hits == {x \in Chain(entry, bucket, hash_ip[k[1]]) : entry[x].ip = k[1]}
  IN IF hits = {} THEN Nil ELSE CHOOSE x \in hits : TRUE

Find(k) ==
  LET at == Walk(entry, bucket, hash_ip[k[1]])
      hits == {n \in 0..ARP_CAP : /\ at[n] # Nil
                                  /\ entry[at[n]].used
                                  /\ KeyOf(entry, at[n]) = k}
  IN IF hits = {} THEN Nil ELSE at[CHOOSE n \in hits : \A m \in hits : n <= m]

(* A table is its entries and bucket heads.  bucket_remove_locked makes    *)
(* the link that points at the slot, in the slot's bucket, point past it.  *)
Table(e, b) == [e |-> e, b |-> b]

UnlinkHeadOnly(T, s) ==
  LET h == hash_ip[T.e[s].ip]
  IN Table(T.e, [T.b EXCEPT ![h] = IF @ = s THEN T.e[s].next ELSE @])

Unlink(T, s) ==
  LET h == hash_ip[T.e[s].ip]
      before == {x \in Chain(T.e, T.b, h) : T.e[x].next = s}
  IN Table([x \in Slots |-> IF x \in before
                            THEN [T.e[x] EXCEPT !.next = T.e[s].next] ELSE T.e[x]],
           [T.b EXCEPT ![h] = IF @ = s THEN T.e[s].next ELSE @])

(* Slot s is filled and becomes the head of its bucket. *)
Link(T, s, k, m, t) ==
  LET h == hash_ip[k[1]]
  IN Table([T.e EXCEPT ![s] = [ip |-> k[1], ifidx |-> k[2], mac |-> m,
                               seen |-> t, used |-> TRUE, next |-> T.b[h]]],
           [T.b EXCEPT ![h] = s])

Become(T) == entry' = T.e /\ bucket' = T.b
Now == Table(entry, bucket)
-----------------------------------------------------------------------------
(* Time passes; a thread reads the clock on its way to the lock. *)
Second == /\ clock < MaxClock
          /\ clock' = clock + 1
          /\ UNCHANGED <<entry, bucket, calls, answer, g_timeout, limits>>

arp_set_timeout(sec) ==
  /\ sec >= MIN_TMO
  /\ g_timeout' = sec
  /\ limits' = IF limits = {} THEN {} ELSE limits \cup {sec}
  /\ UNCHANGED <<entry, bucket, clock, calls, answer>>

Call(t, what, with) == /\ pc[t] = "idle"
                       /\ pc' = [pc EXCEPT ![t] = what]
                       /\ now' = [now EXCEPT ![t] = clock]
                       /\ arg' = [arg EXCEPT ![t] = with]
                       /\ limits' = IF what = "age" THEN {g_timeout} ELSE limits
                       /\ UNCHANGED <<entry, bucket, clock, answer, g_timeout>>

Return(t) == /\ pc' = [pc EXCEPT ![t] = "idle"]
             /\ now' = [now EXCEPT ![t] = 0]
             /\ arg' = [arg EXCEPT ![t] = NoKey]
             /\ limits' = IF pc[t] = "age" THEN {} ELSE limits
             /\ UNCHANGED <<clock, g_timeout>>

(* arp_lookup: a hit is refreshed, under the read lock. *)
arp_lookup(t) ==
  /\ pc[t] = "lookup"
  /\ LET s == Find(arg[t][1])
     IN /\ answer' = IF s = Nil THEN NoMac ELSE entry[s].mac
        /\ entry' = IF s = Nil THEN entry ELSE [entry EXCEPT ![s].seen = now[t]]
  /\ UNCHANGED bucket
  /\ Return(t)

(* arp_insert of key and MAC: refresh, or take the first free slot, or the *)
(* first of those with the least last_seen.                                *)
Least(S) == CHOOSE s \in S : \A x \in S : s <= x
Unused == {s \in Slots : ~entry[s].used}
Stalest == {s \in Slots : \A x \in Slots : entry[s].seen <= entry[x].seen}

Victim == Least(Stalest)

arp_insert(t) ==
  /\ pc[t] = "insert"
  /\ LET k == arg[t][1]
         m == arg[t][2]
         s == Find(k)
     IN IF s # Nil
        THEN Become(Table([entry EXCEPT ![s].mac = m, ![s].seen = now[t]], bucket))
        ELSE IF Unused # {}
        THEN Become(Link(Now, Least(Unused), k, m, now[t]))
        ELSE Become(Link(Unlink(Now, Victim), Victim, k, m, now[t]))
  /\ answer' = NoMac
  /\ Return(t)

(* arp_tick: slot after slot, an entry whose age, an unsigned difference,  *)
(* exceeds the timeout is unlinked and freed.                              *)
Expired(e, n, l) == e.used /\ (n - e.seen) % U64 > l

FreeSlotKeepsLink(T, s) == Table([T.e EXCEPT ![s].used = FALSE], T.b)
FreeSlot(T, s) == Table([T.e EXCEPT ![s].used = FALSE, ![s].next = Nil], T.b)

AgeSlot(T, s, n, l) == IF Expired(T.e[s], n, l) THEN FreeSlot(Unlink(T, s), s) ELSE T

(* The table after the first i slots were looked at, for i up to ARP_CAP,  *)
(* slot s by timeout lim[s].                                               *)
Aged(n, lim) == LET scan[i \in 0..ARP_CAP] ==
                      IF i = 0 THEN Now
                      ELSE AgeSlot(scan[i - 1], i - 1, n, lim[i - 1])
                IN scan

arp_tick(t) == /\ pc[t] = "age"
               /\ \E lim \in [Slots -> limits] : Become(Aged(now[t], lim)[ARP_CAP])
               /\ answer' = NoMac
               /\ Return(t)
-----------------------------------------------------------------------------
Next == \/ Second
        \/ \E sec \in Secs : arp_set_timeout(sec)
        \/ \E t \in Threads, k \in Keys : Call(t, "lookup", <<k, NoMac>>)
        \/ \E k \in Keys, m \in Macs : Call(Receiver, "insert", <<k, m>>)
        \/ Call(Timer, "age", NoKey)
        \/ \E t \in Threads : arp_lookup(t) \/ arp_insert(t) \/ arp_tick(t)

Spec == Init /\ [][Next]_vars
-----------------------------------------------------------------------------
(* Every variable has the type of its C declaration, and a free slot, as   *)
(* arp_init and arp_tick leave it, links nowhere.                          *)
TypeOK ==
  /\ entry \in [Slots -> [ip : Ips \cup {NoKey}, ifidx : Ifs \cup {NoKey},
                          mac : Macs \cup {NoMac}, seen : 0..MaxClock,
                          used : BOOLEAN, next : Slots \cup {Nil}]]
  /\ \A s \in Slots : ~entry[s].used => entry[s].next = Nil
  /\ bucket \in [Buckets -> Slots \cup {Nil}]
  /\ clock \in 0..MaxClock
  /\ pc \in [Threads -> {"idle", "lookup", "insert", "age"}]
  /\ now \in [Threads -> 0..MaxClock]
  /\ answer \in Macs \cup {NoMac}
  /\ g_timeout \in Timeouts /\ limits \subseteq Timeouts

(* The slots in use are exactly those a lookup can reach, each in the one  *)
(* bucket of its address; every chain ends.                                *)
ChainsSound ==
  \A h \in Buckets :
    /\ Walk(entry, bucket, h)[ARP_CAP] = Nil
    /\ Chain(entry, bucket, h) = {s \in Slots : entry[s].used /\ hash_ip[entry[s].ip] = h}

(* No key has two entries. *)
KeysUnique == \A s, x \in Slots :
  entry[s].used /\ entry[x].used /\ KeyOf(entry, s) = KeyOf(entry, x) => s = x

(* The slots in use, as a map, implement the abstract cache: a lookup,     *)
(* which walks a chain, answers with the MAC learned last for the key it   *)
(* was called with, an insertion stores its own MAC under its own key and  *)
(* evicts the least recently used entry, what is too old goes.             *)
Used(e) == {s \in Slots : e[s].used}
SlotOf(e, k) == CHOOSE s \in Used(e) : KeyOf(e, s) = k
Contents(e) == [k \in {KeyOf(e, s) : s \in Used(e)} |->
                  [mac |-> e[SlotOf(e, k)].mac, seen |-> e[SlotOf(e, k)].seen]]
Cache == INSTANCE ArpCache WITH
           Capacity <- ARP_CAP, Times <- 0..MaxClock, NoArg <- NoKey,
           cache <- Contents(entry), timeout <- g_timeout,
           call <- [t \in Threads |-> [op |-> pc[t], now |-> now[t], arg |-> arg[t]]]
ImplementsArpCache == Cache!Spec
=============================================================================
