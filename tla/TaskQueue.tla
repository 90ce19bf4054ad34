----------------------------- MODULE TaskQueue -----------------------------
(***************************************************************************)
(* What the thread pool promises its caller (thread_pool.h:8-10): a        *)
(* bounded first-in first-out queue of tasks, each started once and by one *)
(* worker, at most `width` of them running together, and a shutdown that   *)
(* lets every accepted task finish.  Tasks are named by the order in which *)
(* they were accepted.  ThreadPool implements this specification.          *)
(***************************************************************************)
EXTENDS Integers, Sequences, FiniteSets

CONSTANTS Capacity,    \* tasks the queue can hold, at least one
          MaxWidth     \* the largest number of workers, at least one

VARIABLES width,       \* the number of workers
          accepted,    \* how many tasks were accepted
          queue,       \* accepted tasks no worker has started
          running,     \* tasks being executed
          finished,    \* tasks whose execution ended
          closed,      \* shutdown was asked for
          stopped      \* shutdown returned

vars == <<width, accepted, queue, running, finished, closed, stopped>>

Init == /\ width \in 1..MaxWidth
        /\ accepted = 0
        /\ queue = <<>>
        /\ running = {}
        /\ finished = {}
        /\ closed = FALSE
        /\ stopped = FALSE

Accept == /\ ~closed
          /\ Len(queue) < Capacity
          /\ accepted' = accepted + 1
          /\ queue' = Append(queue, accepted + 1)
          /\ UNCHANGED <<width, running, finished, closed, stopped>>

Start == /\ queue # <<>>
         /\ Cardinality(running) < width
         /\ running' = running \cup {Head(queue)}
         /\ queue' = Tail(queue)
         /\ UNCHANGED <<width, accepted, finished, closed, stopped>>

Finish(t) == /\ t \in running
             /\ running' = running \ {t}
             /\ finished' = finished \cup {t}
             /\ UNCHANGED <<width, accepted, queue, closed, stopped>>

Close == /\ ~closed
         /\ closed' = TRUE
         /\ UNCHANGED <<width, accepted, queue, running, finished, stopped>>

Stop == /\ closed
        /\ queue = <<>>
        /\ running = {}
        /\ stopped' = TRUE
        /\ UNCHANGED <<width, accepted, queue, running, finished, closed>>

Next == \/ Accept
        \/ Start
        \/ \E t \in running : Finish(t)
        \/ Close
        \/ Stop

(* A task that may start is started, one that was started finishes, and a  *)
(* shutdown that may return does.                                          *)
Fairness == /\ WF_vars(Start)
            /\ WF_vars(\E t \in running : Finish(t))
            /\ WF_vars(Stop)

Spec == Init /\ [][Next]_vars /\ Fairness
=============================================================================
