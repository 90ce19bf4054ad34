------------------------------- MODULE Router -------------------------------
(***************************************************************************)
(* main.c: how the router starts, serves, shuts down and is replaced.      *)
(* main runs the start-up steps in order, then rx_loop; workers, terminal  *)
(* and remote threads run beside it.  What each step builds is in the      *)
(* module of its component; here it has only succeeded or not.             *)
(***************************************************************************)
EXTENDS Integers, Sequences, SequencesExt

CONSTANTS Workers,
          TASK_CAP  \* slots of the task queue

ASSUME CapAssumption == TASK_CAP \in Nat \ {0}
ASSUME WorkersAssumption == Workers # {}  \* tpool_init has at least one, or fails

(* main's calls before rx_loop; those that may fail and end the program;   *)
(* those that may fail with a warning.                                     *)
Startup == <<"mp_init", "iface_init", "config_load", "route_derive_connected",
             "arp_init", "tpool_init", "socket", "terminal_start", "timer_thread",
             "remote_init">>
Fatal == {"mp_init", "iface_init", "tpool_init", "socket"}
Optional == {"terminal_start", "timer_thread", "remote_init"}

TeardownSwapped == <<"close", "tpool_shutdown", "join">>
Teardown == <<"tpool_shutdown", "join", "close">>

VARIABLES at,         \* what main does next: a call, or a place in rx_loop
          done,       \* the start-up steps that succeeded
          g_shutdown,
          g_raw_fd,   \* "none", "open" or "closed"
          wk,         \* the workers: "none", "wait", "run" or "left"
          tasks,      \* frames in the queue of the pool
          parked,     \* whether frames wait in a pending chain for their next hop
          ticking,    \* the timer thread is in a pass: it saw no shutdown before
          stopping,   \* the pool's shutdown flag
          remote,     \* the listening sockets: "none", "listening", "failed"
          held        \* whether an image that ran before still holds the ports

vars == <<at, done, g_shutdown, g_raw_fd, wk, tasks, parked, ticking, stopping,
          remote, held>>
waiting == <<parked, ticking>>
pool == <<wk, tasks, stopping>>

Places == {"off", "check", "recv", "return"} \cup ToSet(Startup) \cup ToSet(Teardown)

(* Nothing of a process is left; the ports of its image are free or not.   *)
Fresh(where, ports) == /\ at' = where
                       /\ done' = {}
                       /\ g_shutdown' = FALSE
                       /\ g_raw_fd' = "none"
                       /\ wk' = [w \in Workers |-> "none"]
                       /\ tasks' = 0 /\ stopping' = FALSE
                       /\ parked' = FALSE /\ ticking' = FALSE
                       /\ remote' = "none" /\ held' = ports

Init == /\ at = "off" /\ done = {}
        /\ g_shutdown = FALSE /\ g_raw_fd = "none"
        /\ wk = [w \in Workers |-> "none"] /\ tasks = 0 /\ stopping = FALSE
        /\ parked = FALSE /\ ticking = FALSE
        /\ remote = "none" /\ held = FALSE

Boot == at = "off" /\ Fresh(Head(Startup), FALSE)

(* A failure, or the end of main. *)
Off == Fresh("off", FALSE)
Killed == at # "off" /\ Off
-----------------------------------------------------------------------------
(* main before rx_loop. *)
After(seq, call, last) ==
  LET i == CHOOSE i \in DOMAIN seq : seq[i] = call
  IN IF i = Len(seq) THEN last ELSE seq[i + 1]

Succeeds == /\ at \in ToSet(Startup)
            /\ done' = done \cup {at}
            /\ at' = After(Startup, at, "check")
            /\ wk' = IF at = "tpool_init" THEN [w \in Workers |-> "wait"] ELSE wk
            /\ g_raw_fd' = IF at = "socket" THEN "open" ELSE g_raw_fd
            /\ UNCHANGED <<g_shutdown, tasks, waiting, stopping, remote, held>>

Fails == at \in Fatal /\ Off

Warns == /\ at \in Optional
         /\ at' = After(Startup, at, "check")
         /\ UNCHANGED <<done, g_shutdown, g_raw_fd, pool, waiting, remote, held>>
-----------------------------------------------------------------------------
(* rx_loop.  Sends of main itself (ARP replies) count as Frame. *)
Main(where) == at' = where /\ UNCHANGED <<done, g_shutdown, g_raw_fd, remote, held>>

OnceMore == "recv"
LoopTop == IF g_shutdown THEN Head(Teardown) ELSE "recv"
Check == at = "check" /\ Main(LoopTop) /\ UNCHANGED <<pool, waiting>>

(* A frame arrives: queued if it is IP and there is room, or else answered *)
(* or dropped at once; an ARP frame may end the wait of parked ones.       *)
FullTooLate == tasks > TASK_CAP
Full == tasks = TASK_CAP
Frame == /\ at = "recv"
         /\ Main("check")
         /\ UNCHANGED <<wk, stopping, ticking>>
         /\ \/ ~Full /\ tasks' = tasks + 1 /\ UNCHANGED parked
            \/ UNCHANGED tasks /\ parked' \in {parked, FALSE}

(* tpool_shutdown: raise the flag, join; then close. *)
JoinedNot == at = "join"
Joined == at = "join" /\ \A w \in Workers : wk[w] = "left"

Stop == /\ at = "tpool_shutdown"
        /\ Main(After(Teardown, at, "return"))
        /\ stopping' = TRUE
        /\ UNCHANGED <<wk, tasks, waiting>>

Join == /\ Joined
        /\ Main(After(Teardown, at, "return"))
        /\ UNCHANGED <<pool, waiting>>

Close == /\ at = "close"
         /\ g_raw_fd' = "closed"
         /\ at' = After(Teardown, at, "return")
         /\ UNCHANGED <<done, g_shutdown, pool, waiting, remote, held>>

Return == at = "return" /\ Off

MainStep == Succeeds \/ Fails \/ Warns \/ Check \/ Stop \/ Join \/ Close \/ Return
-----------------------------------------------------------------------------
(* The workers, as ThreadPool has them in detail.  forward_task returns    *)
(* when its frame is sent, dropped or parked.                              *)
Others == UNCHANGED <<at, done, g_shutdown, g_raw_fd, ticking, stopping, remote, held>>
Take(w) == /\ wk[w] = "wait" /\ tasks > 0
           /\ wk' = [wk EXCEPT ![w] = "run"] /\ tasks' = tasks - 1
           /\ UNCHANGED parked /\ Others
Send(w) == /\ wk[w] = "run"
           /\ wk' = [wk EXCEPT ![w] = "wait"] /\ UNCHANGED tasks
           /\ parked' \in {parked, TRUE} /\ Others
Leave(w) == /\ wk[w] = "wait" /\ stopping /\ tasks = 0
            /\ wk' = [wk EXCEPT ![w] = "left"] /\ UNCHANGED <<tasks, parked>>
            /\ Others
Worker(w) == Take(w) \/ Send(w) \/ Leave(w)

(* timer_thread: nobody joins it, and a pass goes on after a request for   *)
(* shutdown; it sends or gives up what is parked, or leaves it for later.  *)
Wake == /\ "timer_thread" \in done /\ ~g_shutdown /\ ~ticking
        /\ ticking' = TRUE
        /\ UNCHANGED <<at, done, g_shutdown, g_raw_fd, pool, parked, remote, held>>
Pass == /\ ticking
        /\ ticking' = FALSE /\ parked' \in {parked, FALSE}
        /\ UNCHANGED <<at, done, g_shutdown, g_raw_fd, pool, remote, held>>

(* SIGINT or SIGTERM: the handler sets the flag; a recvfrom that blocks is *)
(* interrupted, one that is about to block is not.                         *)
Signal == /\ at # "off"
          /\ g_shutdown' = TRUE
          /\ at' = IF at = "recv" THEN "check" ELSE at
          /\ UNCHANGED <<done, g_raw_fd, pool, waiting, remote, held>>

SignalEarly == /\ at = "recv" /\ g_shutdown' = TRUE
               /\ UNCHANGED <<at, done, g_raw_fd, pool, waiting, remote, held>>

(* terminal_loop ends with exit, or with the end of input on a terminal.   *)
TerminalExit == /\ "terminal_start" \in done
                /\ g_shutdown' = TRUE
                /\ UNCHANGED <<at, done, g_raw_fd, pool, waiting, remote, held>>

(* tcp_thread and udp_thread bind their ports; nobody else uses them.      *)
Bind == /\ "remote_init" \in done /\ remote = "none"
        /\ remote' = IF held THEN "failed" ELSE "listening"
        /\ UNCHANGED <<at, done, g_shutdown, g_raw_fd, pool, waiting, held>>

(* upgrade_exec by a connection: every thread ends, main starts again in   *)
(* the new image, and the descriptors, none of them close-on-exec, stay.   *)
Exec == /\ remote = "listening"
        /\ Fresh(Head(Startup), TRUE)

Next == \/ Boot \/ Killed \/ MainStep \/ Frame \/ Signal \/ SignalEarly
        \/ TerminalExit \/ Bind \/ Exec \/ Wake \/ Pass
        \/ \E w \in Workers : Worker(w)

(* Threads that can run do; frames keep arriving. *)
Fairness == WF_vars(MainStep) /\ WF_vars(Frame) /\ \A w \in Workers : WF_vars(Worker(w))

Spec == Init /\ [][Next]_vars /\ Fairness
-----------------------------------------------------------------------------
(* Every variable has its type. *)
TypeOK == /\ at \in Places
          /\ done \subseteq ToSet(Startup)
          /\ g_shutdown \in BOOLEAN /\ stopping \in BOOLEAN /\ held \in BOOLEAN
          /\ parked \in BOOLEAN /\ ticking \in BOOLEAN
          /\ g_raw_fd \in {"none", "open", "closed"}
          /\ wk \in [Workers -> {"none", "wait", "run", "left"}]
          /\ tasks \in 0..TASK_CAP
          /\ remote \in {"none", "listening", "failed"}

(* main.c:186 to 200: whatever happens during start-up and shutdown, a     *)
(* frame on its way through a worker finds the raw socket open.            *)
SocketOutlivesFrames == tasks > 0 \/ (\E w \in Workers : wk[w] = "run") => g_raw_fd = "open"

(* thread_pool.h:10 and thread_pool.c:110, a shutdown drains the tasks     *)
(* under way: when main returns, forward_task has run for every frame the  *)
(* pool accepted, and to its end.  What it parked is not drained: once     *)
(* g_shutdown is set the timer takes no further pass (main.c:72 to 75),    *)
(* and a parked frame ends with the process.                               *)
TasksDrained == [][Return => tasks = 0 /\ \A w \in Workers : wk[w] \notin {"wait", "run"}]_vars

(* main.c:85 to 201: once shutdown is requested, by a signal at any moment *)
(* of start-up or service or by the terminal, the process ends, as long as *)
(* frames keep arriving (a request that just misses the call of recvfrom   *)
(* is seen with the next frame), or an upgrade replaces it.                *)
ShutdownReturns == g_shutdown ~> ~g_shutdown
-----------------------------------------------------------------------------
(* README:28 and 216, the upgraded router restarts itself by execv: remote *)
(* management is there again.                                              *)
RemoteComesBack == remote # "failed"
=============================================================================
