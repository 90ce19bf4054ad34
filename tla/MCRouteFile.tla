----------------------------- MODULE MCRouteFile -----------------------------
(* One interface and its subnet; a default route, the subnet, a host in it. *)
EXTENDS RouteFile

MCIfindex == <<2>>
MCSetups == {[ip |-> 2, len |-> 1]}
MCStatics == {Route(0, 0, 1, 2), Route(2, 1, 0, 2), Route(2, 2, 1, 2)}

Symmetry == Permutations(Operators)
=============================================================================
