------------------------------ MODULE RouteFile ------------------------------
(***************************************************************************)
(* The [route] section of router.conf: how config_serialize writes the     *)
(* static routes, reading the table without its lock, and how config_load  *)
(* makes routes of the lines again, beside the commands of RouteTable.     *)
(*                                                                         *)
(* A line is a record; an interface's name is its place in the interface   *)
(* table.  The file is installed in one step (ConfigStore has the steps).  *)
(* An entry of the table is read at once: reading one while a removal      *)
(* moves it would matter to disturbed saves only, of which nothing is said.*)
(***************************************************************************)
EXTENDS RouteTable

VARIABLES conf,     \* the lines of the file
          at,       \* operators: "idle", "save", "write"; "load" is in opc
          n, next,  \* config_serialize: routes counted, the next to read
          lines,    \* lines written so far; lines still to be loaded
          base,     \* history: the static routes counted; those of the file
          calm      \* history: nobody else disturbed the table since then

filevars == <<conf, at, n, next, lines, base>>
allvars == <<vars, filevars, calm>>

StaticRoutes == LET static == SelectSeq(routes, Static)
                IN [i \in DOMAIN static |-> static[i].route]
-----------------------------------------------------------------------------
(* The name of the first interface with an index, "?" without one. *)
Unnamed == 0
DevOf(index) == LET named == {j \in Ifs : ifindex[j] = index}
                IN IF named = {} THEN Unnamed ELSE CHOOSE j \in named : \A k \in named : j <= k

RouteLine(r) == [dest |-> r.dest, plen |-> prefix_len(r.len), gw |-> r.gw,
                 dev |-> DevOf(r.ifindex)]

(* parse_route_line: no route if the length or the interface is refused.   *)
Accepted(line) == line.plen \in Lens /\ line.dev \in Ifs /\ ifindex[line.dev] >= 0
parse_route_line(line) == Route(line.dest, line.plen, line.gw, ifindex[line.dev])

Described(ls) == LET accepted == SelectSeq(ls, Accepted)
                 IN [i \in DOMAIN accepted |-> parse_route_line(accepted[i])]

(* What main may have found in the file, when it made no static route: no  *)
(* line, or one whose interface is not there any more.                     *)
Unusable == [dest |-> 0, plen |-> 0, gw |-> 0, dev |-> Unnamed]

FileInit == /\ Init
            /\ conf \in {<< >>, <<Unusable>>}
            /\ at = [o \in Operators |-> "idle"]
            /\ n = [o \in Operators |-> 0]
            /\ next = [o \in Operators |-> 1]
            /\ lines = [o \in Operators |-> << >>]
            /\ base = [o \in Operators |-> << >>]
            /\ calm = [o \in Operators |-> FALSE]
-----------------------------------------------------------------------------
Free(o) == at[o] = "idle" /\ opc[o] = "idle"

(* config_serialize counts the routes, then takes them one by one; when    *)
(* there are fewer by now, it stops.                                       *)
SaveBegin(o) ==
  /\ Free(o)
  /\ at' = [at EXCEPT ![o] = "save"]
  /\ n' = [n EXCEPT ![o] = Len(routes)]
  /\ base' = [base EXCEPT ![o] = StaticRoutes]
  /\ UNCHANGED <<vars, conf, next, lines>>

MoreLinesButLast(o) == next[o] < n[o] /\ next[o] <= Len(routes)
MoreLines(o) == next[o] <= n[o] /\ next[o] <= Len(routes)

SaveLine(o) ==
  /\ at[o] = "save"
  /\ MoreLines(o)
  /\ LET e == routes[next[o]]
     IN lines' = IF Static(e) THEN [lines EXCEPT ![o] = Append(@, RouteLine(e.route))]
                 ELSE lines
  /\ next' = [next EXCEPT ![o] = @ + 1]
  /\ UNCHANGED <<vars, conf, at, n, base>>

Serialized(o) ==
  /\ at[o] = "save"
  /\ ~MoreLines(o)
  /\ at' = [at EXCEPT ![o] = "write"]
  /\ n' = [n EXCEPT ![o] = 0]
  /\ next' = [next EXCEPT ![o] = 1]
  /\ UNCHANGED <<vars, conf, lines, base>>

(* The file is installed, or the save fails; the next one has a new buffer. *)
Freed(o) == [lines EXCEPT ![o] = << >>]

SaveEnd(o) ==
  /\ at[o] = "write"
  /\ at' = [at EXCEPT ![o] = "idle"]
  /\ conf' \in {lines[o], conf}
  /\ lines' = Freed(o)
  /\ base' = [base EXCEPT ![o] = << >>]
  /\ UNCHANGED <<vars, n, next>>
-----------------------------------------------------------------------------
(* config_load opens the file and clears the static routes, adds those of  *)
(* the lines that are not there yet while there is room, and its caller    *)
(* derives the connected ones.                                             *)
Clear(o) == Reload(o)

LoadBegin(o) ==
  /\ Free(o)
  /\ Clear(o)
  /\ lines' = [lines EXCEPT ![o] = conf]
  /\ base' = [base EXCEPT ![o] = Described(conf)]
  /\ UNCHANGED <<conf, at, n, next>>

LoadLine(o) ==
  /\ opc[o] = "load"
  /\ lines[o] # << >>
  /\ LET line == Head(lines[o])
         r == parse_route_line(line)
     IN IF ~Accepted(line) THEN UNCHANGED vars
        ELSE \/ route_add(o, r)
             \/ /\ CanLock /\ (Known(r) \/ Len(routes) >= MAX_ROUTE)
                /\ UNCHANGED vars
  /\ lines' = [lines EXCEPT ![o] = Tail(@)]
  /\ UNCHANGED <<conf, at, n, next, base>>

LoadEnd(o) ==
  /\ lines[o] = << >>
  /\ Loaded(o)
  /\ base' = [base EXCEPT ![o] = << >>]
  /\ UNCHANGED <<conf, at, n, next, lines>>

(* The commands of RouteTable. *)
Command(o) ==
  /\ at[o] = "idle"
  /\ \/ OperateIfs(o)
     \/ opc[o] = "idle" /\ \E r \in Statics : route_add(o, r)
     \/ \E i \in DOMAIN routes : route_del(o, i)
  /\ UNCHANGED filevars
-----------------------------------------------------------------------------
(* A save is disturbed by whatever moves or removes entries, a load by     *)
(* whatever another operator does to the table.                            *)
Spares(p) == IF at[p] = "save" THEN IsPrefix(routes, routes') ELSE routes' = routes
Watch(o) == calm' = [p \in Operators |->
              IF at'[p] = "idle" /\ opc'[p] # "load" THEN FALSE
              ELSE IF p = o THEN Free(p) \/ calm[p]
              ELSE calm[p] /\ (at[p] = "write" \/ Spares(p))]

FileNext == \E o \in Operators :
  /\ \/ SaveBegin(o) \/ SaveLine(o) \/ Serialized(o) \/ SaveEnd(o)
     \/ LoadBegin(o) \/ LoadLine(o) \/ LoadEnd(o) \/ Command(o)
  /\ Watch(o)
  /\ Follow

FileSpec == FileInit /\ [][FileNext]_allvars
-----------------------------------------------------------------------------
(* A save during which no route was moved or removed writes lines that     *)
(* describe the static routes it counted, in their order (of two routes as *)
(* long the first wins), with whatever routes were added and interfaces    *)
(* readdressed meanwhile.                                                  *)
SavedRoutes(o) ==
  at[o] = "write" /\ calm[o] => Described(lines[o]) = base[o]

(* After a load that nobody disturbed no static route is left or made that *)
(* is not in the file, and none of the file is missing but those that are  *)
(* in the table as connected ones, unless the table is full.               *)
LoadedRoutes(o) ==
  opc[o] = "load" /\ lines[o] = << >> /\ calm[o] =>
    /\ ToSet(StaticRoutes) \subseteq ToSet(base[o]) \ ConnectedRoutes
    /\ \/ ToSet(StaticRoutes) = ToSet(base[o]) \ ConnectedRoutes
       \/ Len(routes) = MAX_ROUTE

(* README:29, configuration persistence, over config.c:119 to 141 and 324  *)
(* to 351: the static routes come through a save, and through a load, that *)
(* the other operator does not disturb.                                    *)
RoutesPersist == \A o \in Operators : SavedRoutes(o) /\ LoadedRoutes(o)
=============================================================================
