----------------------------- MODULE MCForward -----------------------------
(* Keys, interfaces and symmetry for the runs of the data path. *)
EXTENDS Forward

Key(n, i) == [nh |-> n, ifidx |-> i]

(* Two next hops, the second behind an interface whose index does not fit  *)
(* eight bits and whose truncation names no interface.                     *)
MCKeys == {Key(1, 2), Key(2, 300)}
MCIfaces == {2, 300}
=============================================================================
