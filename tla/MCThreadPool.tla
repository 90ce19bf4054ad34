--------------------------- MODULE MCThreadPool ---------------------------
(* A pool of up to three workers and a ring of three slots: the ring wraps *)
(* and fills, workers compete, and the requested size is below, at and     *)
(* beyond POOL_THREADS.                                                    *)
EXTENDS ThreadPool

MCRequests == {-1, 1, 2, 5}
=============================================================================
