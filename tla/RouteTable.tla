----------------------------- MODULE RouteTable -----------------------------
(***************************************************************************)
(* Where a frame goes: the interface table of interface.c, which has no    *)
(* lock, the route table of route.c, under a rwlock, the commands that     *)
(* change them (setip, delip, addroute, delroute and a reload, given at    *)
(* the terminal or over TCP, so by several threads at once) and step 4 of  *)
(* forward_task, which reads both.                                         *)
(*                                                                         *)
(* Masks are contiguous and kept as their length.  The two stores of an    *)
(* interface's address and the two loads of its readers are steps of their *)
(* own; what runs under the route lock is one step, but for the loop of    *)
(* route_derive_connected, which reads the interfaces meanwhile.           *)
(***************************************************************************)
EXTENDS Cidr, Sequences, FiniteSets, SequencesExt

CONSTANTS ifindex,      \* the kernel's index of each interface, -1 if unknown
          Operators,    \* threads that run commands
          Workers,      \* threads that run forward_task
          Setups,       \* addresses given to interfaces: [ip, len]
          Statics,      \* routes given to addroute and found in the file
          Dsts,         \* destinations of frames
          MAX_ROUTE, NoOne

Ifs == DOMAIN ifindex
Route(d, l, g, i) == [dest |-> d, len |-> l, gw |-> g, ifindex |-> i]

ASSUME RouteAssumption ==
  /\ MAX_ROUTE \in Nat /\ MAX_ROUTE >= Len(ifindex)
  /\ ifindex \in Seq(Nat \cup {-1})
  /\ Setups \subseteq [ip : Addrs \ {0}, len : Lens]
  /\ Statics \subseteq [dest : Addrs, len : Lens, gw : Addrs, ifindex : Nat]
  /\ Dsts \subseteq Addrs
  /\ NoOne \notin Operators

VARIABLES ip, len,       \* g_ifaces
          routes,        \* g_routes: route and is_static
          lock,          \* who holds g_lock for writing
          opc, oarg,     \* operators: what comes next; setip's interface, length
          oif, oip,      \* route_derive_connected: interface, its address, masked
          wpc, wdst,     \* workers: what comes next, destination
          wif, wip,      \* interface looked at, its address
          clipped,       \* the latest derivation met a full table
          covered        \* auxiliary: interfaces a worker cannot miss

ifvars == <<ip, len>>
ovars == <<opc, oarg, oif, oip>>
wvars == <<wpc, wdst, wif, wip>>
vars == <<ifvars, routes, lock, ovars, wvars, clipped, covered>>

Entry(r, s) == [route |-> r, is_static |-> s]
AnyRoute(e) == TRUE
Static(e) == e.is_static
Connected(e) == ~e.is_static

(* The loops that close up the table: the entries of t at places, in order. *)
Keep(t, places) ==
  LET kept[k \in 0..Len(t)] == IF k = 0 THEN << >>
                               ELSE IF k \in places THEN Append(kept[k - 1], t[k])
                               ELSE kept[k - 1]
  IN kept[Len(t)]

(* The connected route of interface i with address a and mask length l. *)
Usable(i, a, l) == a # 0 /\ l # 0 /\ ifindex[i] >= 0
Subnet(i, a, l) == Route(Net(a, l), l, 0, ifindex[i])

(* What iface_init finds: an address on every interface it lists. *)
Found == [Ifs -> Setups]

(* The threads start when main has enumerated the interfaces, found no     *)
(* static route in the file and derived the connected ones.                *)
Init == /\ \E found \in Found :
             /\ ip = [i \in Ifs |-> found[i].ip]
             /\ len = [i \in Ifs |-> found[i].len]
        /\ routes = Keep([i \in Ifs |-> Entry(Subnet(i, ip[i], len[i]), FALSE)],
                         {i \in Ifs : Usable(i, ip[i], len[i])})
        /\ lock = NoOne
        /\ opc = [o \in Operators |-> "idle"]
        /\ oarg = [o \in Operators |-> NoOne]
        /\ oif = [o \in Operators |-> 1]
        /\ oip = [o \in Operators |-> 0]
        /\ wpc = [w \in Workers |-> "idle"]
        /\ wdst = [w \in Workers |-> 0]
        /\ wif = [w \in Workers |-> 1]
        /\ wip = [w \in Workers |-> 0]
        /\ clipped = FALSE
        /\ covered = [w \in Workers |-> {}]
-----------------------------------------------------------------------------
CanLock == lock = NoOne

(* route_lookup: the best entry so far is replaced by a longer match only. *)
LookupLast(dst) ==
  LET hits == {i \in DOMAIN routes :
                 Net(dst, routes[i].route.len) = routes[i].route.dest}
  IN IF hits = {} THEN 0 ELSE CHOOSE i \in hits : \A j \in hits : j <= i

Lookup(dst) ==
  LET matches(i) == Net(dst, routes[i].route.len) = routes[i].route.dest
      length(i) == IF i = 0 THEN -1 ELSE prefix_len(routes[i].route.len)
      best[n \in 0..Len(routes)] ==
        IF n = 0 THEN 0
        ELSE IF matches(n) /\ length(n) > length(best[n - 1])
             THEN n ELSE best[n - 1]
  IN best[Len(routes)]
-----------------------------------------------------------------------------
(* setip: the address is stored, then the mask; delip stores zeroes.  Then *)
(* the connected routes are rebuilt.                                       *)
SetIp(o, i, a, l) ==
  /\ opc[o] = "idle"
  /\ ip' = [ip EXCEPT ![i] = a]
  /\ oarg' = [oarg EXCEPT ![o] = <<i, l>>]
  /\ opc' = [opc EXCEPT ![o] = "mask"]
  /\ UNCHANGED <<len, routes, lock, oif, oip, wvars, clipped>>

SetMask(o) ==
  /\ opc[o] = "mask"
  /\ len' = [len EXCEPT ![oarg[o][1]] = oarg[o][2]]
  /\ oarg' = [oarg EXCEPT ![o] = NoOne]
  /\ opc' = [opc EXCEPT ![o] = "derive"]
  /\ UNCHANGED <<ip, routes, lock, oif, oip, wvars, clipped>>

(* route_derive_connected: static routes are kept; then every interface    *)
(* with an address and a mask adds its subnet while there is room.         *)
Derive(o) ==
  /\ opc[o] = "derive"
  /\ CanLock
  /\ lock' = o
  /\ routes' = Keep(routes, {i \in DOMAIN routes : Static(routes[i])})
  /\ clipped' = FALSE
  /\ oif' = [oif EXCEPT ![o] = 1]
  /\ opc' = [opc EXCEPT ![o] = "scan"]
  /\ UNCHANGED <<ifvars, oarg, oip, wvars>>

MoreUnbounded(o) == oif[o] \in Ifs
More(o) == oif[o] \in Ifs /\ Len(routes) < MAX_ROUTE

(* One interface: load by load, first the tests, its address and then its  *)
(* mask, then the address and the mask again for the route's destination,  *)
(* then the mask once more for the route's mask.                           *)
DerivePlaces == {"scan", "test", "address", "dest", "append"}

NextIf(o) == /\ oif' = [oif EXCEPT ![o] = @ + 1]
             /\ oip' = [oip EXCEPT ![o] = 0]
             /\ opc' = [opc EXCEPT ![o] = "scan"]

DeriveLoad(o, here) ==
  /\ opc[o] = here
  /\ UNCHANGED <<ifvars, lock, oarg, wvars, clipped>>

TestIp(o) ==
  /\ DeriveLoad(o, "scan")
  /\ More(o)
  /\ IF ip[oif[o]] # 0 /\ ifindex[oif[o]] >= 0
     THEN opc' = [opc EXCEPT ![o] = "test"] /\ UNCHANGED <<oif, oip>>
     ELSE NextIf(o)
  /\ UNCHANGED routes

TestMask(o) ==
  /\ DeriveLoad(o, "test")
  /\ IF len[oif[o]] # 0
     THEN opc' = [opc EXCEPT ![o] = "address"] /\ UNCHANGED <<oif, oip>>
     ELSE NextIf(o)
  /\ UNCHANGED routes

DeriveIp(o) ==
  /\ DeriveLoad(o, "address")
  /\ oip' = [oip EXCEPT ![o] = ip[oif[o]]]
  /\ opc' = [opc EXCEPT ![o] = "dest"]
  /\ UNCHANGED <<routes, oif>>

DeriveDest(o) ==
  /\ DeriveLoad(o, "dest")
  /\ oip' = [oip EXCEPT ![o] = Net(@, len[oif[o]])]
  /\ opc' = [opc EXCEPT ![o] = "append"]
  /\ UNCHANGED <<routes, oif>>

DeriveAppend(o) ==
  /\ DeriveLoad(o, "append")
  /\ LET i == oif[o]
     IN routes' = Append(routes, Entry(Route(oip[o], len[i], 0, ifindex[i]), FALSE))
  /\ NextIf(o)

Derived(o) ==
  /\ opc[o] = "scan"
  /\ ~More(o)
  /\ clipped' = (oif[o] \in Ifs)
  /\ lock' = NoOne
  /\ oif' = [oif EXCEPT ![o] = 1]
  /\ opc' = [opc EXCEPT ![o] = "idle"]
  /\ UNCHANGED <<ifvars, routes, oarg, oip, wvars>>
-----------------------------------------------------------------------------
(* route_add, by addroute or for a line of the file being loaded: nothing  *)
(* if the route is there, or the table is full.                            *)
Known(r) == \E i \in DOMAIN routes : routes[i].route = r

route_add(o, r) ==
  /\ opc[o] \in {"idle", "load"}
  /\ CanLock
  /\ ~Known(r) /\ Len(routes) < MAX_ROUTE
  /\ routes' = Append(routes, Entry(r, TRUE))
  /\ UNCHANGED <<ifvars, lock, ovars, wvars, clipped>>

(* route_del of a static route; connected ones are refused. *)
route_del(o, i) ==
  /\ opc[o] = "idle"
  /\ CanLock
  /\ Static(routes[i])
  /\ routes' = RemoveAt(routes, i)
  /\ UNCHANGED <<ifvars, lock, ovars, wvars, clipped>>

(* config_load clears the static routes, adds those of the file one by     *)
(* one, and its caller rebuilds the connected ones.                        *)
Reload(o) ==
  /\ opc[o] = "idle"
  /\ CanLock
  /\ routes' = Keep(routes, {i \in DOMAIN routes : Connected(routes[i])})
  /\ opc' = [opc EXCEPT ![o] = "load"]
  /\ UNCHANGED <<ifvars, lock, oarg, oif, oip, wvars, clipped>>

Loaded(o) ==
  /\ opc[o] = "load"
  /\ opc' = [opc EXCEPT ![o] = "derive"]
  /\ UNCHANGED <<ifvars, routes, lock, oarg, oif, oip, wvars, clipped>>

(* The commands setip and delip, then addroute, delroute and reload. *)
OperateIfs(o) ==
  \/ \E i \in Ifs, s \in Setups : SetIp(o, i, s.ip, s.len)
  \/ \E i \in Ifs : SetIp(o, i, 0, 0)
  \/ SetMask(o) \/ Derive(o) \/ TestIp(o) \/ TestMask(o) \/ DeriveIp(o)
  \/ DeriveDest(o) \/ DeriveAppend(o) \/ Derived(o)

OperateRoutes(o) ==
  \/ \E r \in Statics : route_add(o, r)
  \/ \E i \in DOMAIN routes : route_del(o, i)
  \/ Reload(o) \/ Loaded(o)
-----------------------------------------------------------------------------
(* Step 4 of forward_task: the interfaces in order, without a lock, then   *)
(* the route table.  The frame leaves on-link, by a route, or not at all.  *)
SecondIf == 2
FirstIf == 1

Decide(w, dst) ==
  /\ wpc[w] = "idle"
  /\ wdst' = [wdst EXCEPT ![w] = dst]
  /\ wif' = [wif EXCEPT ![w] = FirstIf]
  /\ wpc' = [wpc EXCEPT ![w] = "scan"]
  /\ UNCHANGED <<ifvars, routes, lock, ovars, wip, clipped>>

ReadIp(w) ==
  /\ wpc[w] = "scan"
  /\ wif[w] \in Ifs
  /\ wip' = [wip EXCEPT ![w] = ip[wif[w]]]
  /\ wpc' = [wpc EXCEPT ![w] = "compare"]
  /\ UNCHANGED <<ifvars, routes, lock, ovars, wdst, wif, clipped>>

Compare(w) ==
  /\ wpc[w] = "compare"
  /\ LET l == len[wif[w]]
     IN IF wip[w] # 0 /\ Net(wdst[w], l) = Net(wip[w], l)
        THEN wpc' = [wpc EXCEPT ![w] = "onlink"] /\ UNCHANGED wif
        ELSE /\ wif' = [wif EXCEPT ![w] = @ + 1]
             /\ wpc' = [wpc EXCEPT ![w] = "scan"]
  /\ wip' = [wip EXCEPT ![w] = 0]
  /\ UNCHANGED <<ifvars, routes, lock, ovars, wdst, clipped>>

LookUp(w) ==
  /\ wpc[w] = "scan"
  /\ wif[w] \notin Ifs
  /\ CanLock
  /\ wpc' = [wpc EXCEPT ![w] = IF Lookup(wdst[w]) = 0 THEN "noroute" ELSE "routed"]
  /\ UNCHANGED <<ifvars, routes, lock, ovars, wdst, wif, wip, clipped>>

(* The rest of forward_task, which Forward models. *)
Leave(w) ==
  /\ wpc[w] \in {"onlink", "routed", "noroute"}
  /\ wpc' = [wpc EXCEPT ![w] = "idle"]
  /\ wdst' = [wdst EXCEPT ![w] = 0]
  /\ wif' = [wif EXCEPT ![w] = 1]
  /\ UNCHANGED <<ifvars, routes, lock, ovars, wip, clipped>>

Forward(w) == \/ \E dst \in Dsts : Decide(w, dst)
              \/ ReadIp(w) \/ Compare(w) \/ LookUp(w) \/ Leave(w)

(* The interfaces whose subnet has the destination and that nobody changed *)
(* since the worker began to decide.                                       *)
Covers(i, dst) == ip[i] # 0 /\ Net(ip[i], len[i]) = Net(dst, len[i])
Same(i) == ip'[i] = ip[i] /\ len'[i] = len[i]
Follow == covered' = [w \in Workers |->
            IF wpc'[w] = "idle" THEN {}
            ELSE IF wpc[w] = "idle" THEN {i \in Ifs : Covers(i, wdst'[w])}
            ELSE {i \in covered[w] : Same(i)}]

Next == /\ \/ \E o \in Operators : OperateIfs(o) \/ OperateRoutes(o)
           \/ \E w \in Workers : Forward(w)
        /\ Follow

Spec == Init /\ [][Next]_vars
-----------------------------------------------------------------------------
(* Every variable has its type; the table keeps within its capacity, and   *)
(* only the thread that rebuilds it holds its lock.                        *)
TypeOK ==
  /\ ip \in [Ifs -> Addrs] /\ len \in [Ifs -> Lens]
  /\ routes \in Seq([route : [dest : Addrs, len : Lens, gw : Addrs, ifindex : Nat],
                     is_static : BOOLEAN])
  /\ Len(routes) <= MAX_ROUTE
  /\ lock \in Operators \cup {NoOne}
  /\ opc \in [Operators -> {"idle", "mask", "derive", "load"} \cup DerivePlaces]
  /\ \A o \in Operators : opc[o] \in DerivePlaces <=> lock = o
  /\ \A o \in Operators : opc[o] = "mask" => oarg[o] \in Ifs \X Lens
  /\ oif \in [Operators -> 1..(Len(ifindex) + 1)] /\ oip \in [Operators -> Addrs]
  /\ wpc \in [Workers -> {"idle", "scan", "compare", "onlink", "routed", "noroute"}]
  /\ wdst \in [Workers -> Addrs] /\ wip \in [Workers -> Addrs]
  /\ wif \in [Workers -> 1..(Len(ifindex) + 1)]
  /\ clipped \in BOOLEAN /\ covered \in [Workers -> SUBSET Ifs]

(* Once no command is in progress the connected routes are those of the    *)
(* interfaces, whatever the order in which commands stored and derived;    *)
(* some may be missing if the latest derivation found the table full.      *)
Quiet == \A o \in Operators : opc[o] \in {"idle", "load"}
ConnectedRoutes ==
  {e.route : e \in {routes[i] : i \in {j \in DOMAIN routes : Connected(routes[j])}}}
Subnets == {Subnet(i, ip[i], len[i]) : i \in {j \in Ifs : Usable(j, ip[j], len[j])}}
ConnectedInSync == Quiet => /\ ConnectedRoutes \subseteq Subnets
                            /\ ~clipped => ConnectedRoutes = Subnets

(* route.h:19, longest prefix: whatever was added, deleted and derived, a  *)
(* lookup finds a match if there is one, and no match is longer.           *)
Matches(dst) == {i \in DOMAIN routes : Net(dst, routes[i].route.len) = routes[i].route.dest}
LongestPrefix ==
  \A dst \in Addrs :
    IF Matches(dst) = {} THEN Lookup(dst) = 0
    ELSE /\ Lookup(dst) \in Matches(dst)
         /\ \A i \in Matches(dst) :
              routes[i].route.len <= routes[Lookup(dst)].route.len

(* README:45, on-link before routes: while commands rewrite other          *)
(* interfaces, a frame for a subnet that stays configured is never handed  *)
(* to a gateway nor dropped for want of a route.                           *)
OnLinkFirst == \A w \in Workers : wpc[w] \in {"routed", "noroute"} => covered[w] = {}
=============================================================================
