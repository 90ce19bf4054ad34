---------------------------- MODULE RouterProofs ----------------------------
(* Proofs about the life of main for every number of workers and every     *)
(* capacity of the queue.                                                  *)
EXTENDS Router, TLAPS

(* Before the raw socket is opened, after it and before it is closed, and  *)
(* after all workers were joined.                                          *)
Early == {"mp_init", "iface_init", "config_load", "route_derive_connected",
          "arp_init", "tpool_init", "socket"}
Late == {"terminal_start", "timer_thread", "remote_init"}
Serving == Late \cup {"check", "recv", "tpool_shutdown", "join"}
Over == {"close", "return", "off"}

(* How the order of calls in main cuts these three.                        *)
LEMMA StartupOrder ==
  /\ ToSet(Startup) = Early \cup Late
  /\ \A c \in Early \ {"socket"} : After(Startup, c, "check") \in Early
  /\ After(Startup, "socket", "check") \in Late
  /\ \A c \in Late : After(Startup, c, "check") \in Late \cup {"check"}
<1> DEFINE i(c) == CHOOSE i \in DOMAIN Startup : Startup[i] = c
<1>1. /\ DOMAIN Startup = 1..10 /\ Len(Startup) = 10
      /\ Startup[1] = "mp_init" /\ Startup[2] = "iface_init"
      /\ Startup[3] = "config_load" /\ Startup[4] = "route_derive_connected"
      /\ Startup[5] = "arp_init" /\ Startup[6] = "tpool_init"
      /\ Startup[7] = "socket" /\ Startup[8] = "terminal_start"
      /\ Startup[9] = "timer_thread" /\ Startup[10] = "remote_init"
  BY DEF Startup
<1>2. ToSet(Startup) = Early \cup Late
  BY <1>1 DEF ToSet, Early, Late
<1>3. \A c \in Early \cup Late : i(c) \in 1..10 /\ Startup[i(c)] = c
  BY <1>1 DEF Early, Late
<1>4. \A c \in Early \cup Late :
        After(Startup, c, "check") = IF i(c) = 10 THEN "check" ELSE Startup[i(c) + 1]
  BY <1>1 DEF After
<1> HIDE DEF i
<1>5. /\ i("mp_init") = 1 /\ i("iface_init") = 2 /\ i("config_load") = 3
      /\ i("route_derive_connected") = 4 /\ i("arp_init") = 5
      /\ i("tpool_init") = 6 /\ i("socket") = 7 /\ i("terminal_start") = 8
      /\ i("timer_thread") = 9 /\ i("remote_init") = 10
  BY <1>1, <1>3 DEF Early, Late
<1> QED
  BY <1>1, <1>2, <1>4, <1>5 DEF Early, Late

LEMMA TeardownOrder ==
  /\ ToSet(Teardown) = {"tpool_shutdown", "join", "close"}
  /\ Head(Teardown) = "tpool_shutdown"
  /\ After(Teardown, "tpool_shutdown", "return") = "join"
  /\ After(Teardown, "join", "return") = "close"
  /\ After(Teardown, "close", "return") = "return"
<1> DEFINE i(c) == CHOOSE i \in DOMAIN Teardown : Teardown[i] = c
<1>1. /\ DOMAIN Teardown = 1..3 /\ Len(Teardown) = 3 /\ Head(Teardown) = "tpool_shutdown"
      /\ Teardown[1] = "tpool_shutdown" /\ Teardown[2] = "join" /\ Teardown[3] = "close"
  BY DEF Teardown
<1>2. \A c \in {"tpool_shutdown", "join", "close"} : i(c) \in 1..3 /\ Teardown[i(c)] = c
  BY <1>1
<1>3. \A c \in {"tpool_shutdown", "join", "close"} :
        After(Teardown, c, "return") = IF i(c) = 3 THEN "return" ELSE Teardown[i(c) + 1]
  BY <1>1 DEF After
<1> HIDE DEF i
<1>4. i("tpool_shutdown") = 1 /\ i("join") = 2 /\ i("close") = 3
  BY <1>1, <1>2
<1> QED
  BY <1>1, <1>3, <1>4 DEF ToSet
-----------------------------------------------------------------------------
(* What the call main is at says about the pool and the socket: before the *)
(* socket there is no work, from it to the join it is open, and after the  *)
(* join no worker and no task is left.                                     *)
PhaseInv ==
  /\ at \in Early => tasks = 0 /\ ~stopping /\ \A w \in Workers : wk[w] # "run"
  /\ at \in Serving => g_raw_fd = "open"
  /\ at \in Over => tasks = 0 /\ \A w \in Workers : wk[w] \notin {"wait", "run"}

(* The pool stops only from the join on, and a worker that left saw it     *)
(* stopping with nothing to do.                                            *)
LeftInv ==
  /\ stopping => at \in {"join", "close", "return", "off"}
  /\ \A w \in Workers : wk[w] = "left" => stopping /\ tasks = 0

Inv == TypeOK /\ PhaseInv /\ LeftInv

LEMMA PlacesSplit == /\ Places = Early \cup Serving \cup Over
                     /\ Early \cap Serving = {} /\ Early \cap Over = {}
                     /\ Serving \cap Over = {}
BY StartupOrder, TeardownOrder DEF Places, Early, Late, Serving, Over

LEMMA FreshInv == ASSUME NEW where \in {"mp_init", "off"}, NEW ports \in BOOLEAN, Fresh(where, ports)
                  PROVE  Inv'
<1> USE DEF Fresh
<1>1. where \in Places
  BY PlacesSplit DEF Early, Over
<1>2. 0 \in 0..TASK_CAP
  BY CapAssumption
<1>3. TypeOK'
  BY <1>1, <1>2 DEF TypeOK
<1>4. PhaseInv'
  BY DEF PhaseInv, Early, Serving, Late, Over
<1>5. LeftInv'
  BY DEF LeftInv
<1> QED
  BY <1>3, <1>4, <1>5 DEF Inv

LEMMA InitInv == Init => Inv
<1> SUFFICES ASSUME Init PROVE Inv
  OBVIOUS
<1> USE DEF Init
<1>1. TypeOK
  <2>1. 0 \in 0..TASK_CAP /\ "off" \in Places
    BY CapAssumption DEF Places
  <2> QED
    BY <2>1 DEF TypeOK
<1>2. PhaseInv
  BY DEF PhaseInv, Early, Serving, Late, Over
<1>3. LeftInv
  BY DEF LeftInv
<1> QED
  BY <1>1, <1>2, <1>3 DEF Inv

LEMMA StartStep == ASSUME Inv, Succeeds \/ Fails \/ Warns PROVE Inv'
<1>1. ASSUME Fails PROVE Inv'
  BY <1>1, FreshInv DEF Fails, Off
<1>2. ASSUME Succeeds PROVE Inv'
  <2>1. at \in Early \cup Late /\ at \in ToSet(Startup)
    BY <1>2, StartupOrder DEF Succeeds
  <2>2. CASE at \in Late
    <3>1. at' \in Late \cup {"check"} /\ at \in Serving /\ at' \in Serving
      BY <1>2, <2>2, StartupOrder DEF Succeeds, Serving
    <3> QED
      BY <1>2, <2>1, <2>2, <3>1, PlacesSplit
      DEF Succeeds, waiting, Inv, TypeOK, PhaseInv, LeftInv, Late, Serving
  <2>3. CASE at = "socket"
    <3>1. at' \in Late /\ at \in Early /\ at' \in Serving
      BY <1>2, <2>3, StartupOrder DEF Succeeds, Early, Serving
    <3> QED
      BY <1>2, <2>1, <2>3, <3>1, PlacesSplit
      DEF Succeeds, waiting, Inv, TypeOK, PhaseInv, LeftInv, Late, Serving, Early
  <2>4. CASE at \in Early \ {"socket"}
    <3>1. at' \in Early
      BY <1>2, <2>4, StartupOrder DEF Succeeds
    <3> QED
      BY <1>2, <2>1, <2>4, <3>1, PlacesSplit
      DEF Succeeds, waiting, Inv, TypeOK, PhaseInv, LeftInv, Early
  <2> QED
    BY <2>1, <2>2, <2>3, <2>4
<1>3. ASSUME Warns PROVE Inv'
  <2>1. at \in Late /\ at' \in Late \cup {"check"} /\ at \in Serving /\ at' \in Serving
    BY <1>3, StartupOrder DEF Warns, Optional, Late, Serving
  <2> QED
    BY <1>3, <2>1, PlacesSplit
    DEF Warns, pool, waiting, Inv, TypeOK, PhaseInv, LeftInv, Late, Serving
<1> QED
  BY <1>1, <1>2, <1>3

LEMMA LoopStep == ASSUME Inv, Check \/ Frame \/ Signal \/ SignalEarly PROVE Inv'
<1> USE PlacesSplit, CapAssumption DEF Inv, TypeOK, PhaseInv, LeftInv, pool, waiting, Main, Early, Serving, Late
<1>1. ASSUME Check PROVE Inv'
  <2>1. at = "check" /\ at' \in {"recv", "tpool_shutdown"}
    BY <1>1, TeardownOrder DEF Check, LoopTop
  <2> QED
    BY <1>1, <2>1 DEF Check
<1>2. ASSUME Frame PROVE Inv'
  <2>1. tasks' \in 0..TASK_CAP
    <3>1. tasks' = tasks \/ (tasks # TASK_CAP /\ tasks' = tasks + 1)
      BY <1>2 DEF Frame, Full
    <3>2. tasks \in 0..TASK_CAP /\ TASK_CAP \in Nat
      OBVIOUS
    <3> QED
      BY ONLY <3>1, <3>2
  <2>2. ~stopping
    BY <1>2 DEF Frame
  <2> QED
    BY <1>2, <2>1, <2>2 DEF Frame
<1>3. ASSUME Signal PROVE Inv'
  BY <1>3 DEF Signal
<1>4. ASSUME SignalEarly PROVE Inv'
  BY <1>4 DEF SignalEarly
<1> QED
  BY <1>1, <1>2, <1>3, <1>4

(* The join is where all workers have left, so that nothing is left.       *)
LEMMA StopStep == ASSUME Inv, Stop \/ Join \/ Close PROVE Inv'
<1> USE PlacesSplit, TeardownOrder, CapAssumption DEF Inv, TypeOK, PhaseInv, LeftInv, pool, waiting, Main
<1>1. ASSUME Stop PROVE Inv'
  BY <1>1 DEF Stop, Early, Serving, Late, Over
<1>2. ASSUME Join PROVE Inv'
  <2>1. PICK w \in Workers : TRUE
    BY WorkersAssumption
  <2>2. tasks = 0 /\ \A v \in Workers : wk[v] = "left"
    BY <1>2, <2>1 DEF Join, Joined
  <2> QED
    BY <1>2, <2>2 DEF Join, Joined, pool, Early, Serving, Late, Over
<1>3. ASSUME Close PROVE Inv'
  BY <1>3 DEF Close, pool, Early, Serving, Late, Over
<1> QED
  BY <1>1, <1>2, <1>3

LEMMA WorkerStep == ASSUME Inv, NEW w \in Workers, Worker(w) PROVE Inv'
<1> USE PlacesSplit, CapAssumption DEF Inv, TypeOK, PhaseInv, LeftInv, Others, waiting
<1>1. ASSUME Take(w) PROVE Inv'
  <2>1. tasks' \in 0..TASK_CAP /\ tasks > 0
    BY <1>1 DEF Take
  <2> QED
    BY <1>1, <2>1 DEF Take
<1>2. ASSUME Send(w) PROVE Inv'
  BY <1>2 DEF Send
<1>3. ASSUME Leave(w) PROVE Inv'
  BY <1>3 DEF Leave
<1> QED
  BY <1>1, <1>2, <1>3 DEF Worker

LEMMA NextInv == Inv /\ [Next]_vars => Inv'
<1> SUFFICES ASSUME Inv, [Next]_vars PROVE Inv'
  OBVIOUS
<1>1. ASSUME UNCHANGED vars PROVE Inv'
  BY <1>1 DEF vars, pool, waiting, Inv, TypeOK, PhaseInv, LeftInv
<1>2. ASSUME Boot \/ Killed \/ Return \/ Exec PROVE Inv'
  <2>1. Head(Startup) = "mp_init"
    BY DEF Startup
  <2> QED
    BY <1>2, <2>1, FreshInv DEF Boot, Killed, Return, Exec, Off
<1>3. ASSUME TerminalExit \/ Bind \/ Wake \/ Pass PROVE Inv'
  <2>1. /\ UNCHANGED <<at, done, g_raw_fd, wk, tasks, stopping, held>>
        /\ g_shutdown' \in BOOLEAN /\ remote' \in {"none", "listening", "failed"}
        /\ parked' \in BOOLEAN /\ ticking' \in BOOLEAN
    BY <1>3 DEF TerminalExit, Bind, Wake, Pass, pool, waiting, Inv, TypeOK
  <2> QED
    BY <2>1 DEF Inv, TypeOK, PhaseInv, LeftInv
<1> QED
  BY <1>1, <1>2, <1>3, StartStep, LoopStep, StopStep, WorkerStep DEF Next, MainStep

LEMMA Invariance == Spec => []Inv
BY InitInv, NextInv, PTL DEF Spec
-----------------------------------------------------------------------------
(* main.c:130 to 201: the state of start-up, service and shutdown stays    *)
(* within its type, the queue within its capacity.                         *)
THEOREM TypeCorrect == Spec => []TypeOK
BY Invariance, PTL DEF Inv

(* main.c:186 to 200: the raw socket is opened before the first frame is   *)
(* received and closed after the last worker was joined, whichever steps   *)
(* of start-up failed and whenever the shutdown was asked for.             *)
THEOREM SocketKept == Spec => []SocketOutlivesFrames
<1>1. Inv => SocketOutlivesFrames
  BY PlacesSplit DEF Inv, TypeOK, PhaseInv, SocketOutlivesFrames
<1> QED
  BY <1>1, Invariance, PTL

(* thread_pool.h:10, thread_pool.c:110 and main.c:193 to 201: main returns *)
(* with an empty queue and every worker gone; frames that forward_task     *)
(* parked are not part of the statement.                                   *)
THEOREM GracefulShutdown == Spec => TasksDrained
<1>1. Inv /\ [Next]_vars =>
        [Return => tasks = 0 /\ \A w \in Workers : wk[w] \notin {"wait", "run"}]_vars
  BY DEF Inv, PhaseInv, Return, Over
<1> QED
  BY <1>1, Invariance, PTL DEF Spec, TasksDrained
=============================================================================
