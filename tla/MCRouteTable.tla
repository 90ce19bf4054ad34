---------------------------- MODULE MCRouteTable ----------------------------
(* Two interfaces, two subnets to give them, routes of several lengths.    *)
EXTENDS RouteTable

MCIfindex == <<2, 3>>

(* Addresses of two bits: subnet {0, 1} and the single host 3. *)
MCSetups == {[ip |-> 1, len |-> 1], [ip |-> 3, len |-> 2]}
OneSetup == {[ip |-> 1, len |-> 1]}

(* A default route and a subnet; a subnet and a host in it. *)
MCStatics == {Route(0, 0, 1, 2), Route(2, 1, 0, 3)}
HostStatics == {Route(2, 1, 0, 3), Route(2, 2, 1, 2)}

Symmetry == Permutations(Operators)
=============================================================================
