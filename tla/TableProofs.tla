---------------------------- MODULE TableProofs -----------------------------
(***************************************************************************)
(* Theorems about the tables that decide a frame: the routes and the       *)
(* interfaces (RouteTable), and the rules (Firewall).  Both rest on the    *)
(* same facts about prefixes and about the loops of the code.              *)
(***************************************************************************)
EXTENDS RouteTable, Firewall, WellFoundedInduction, TLAPS

(* A set of numbers that is not empty has a least element.                 *)
LEMMA Minimum ==
  ASSUME NEW S \in SUBSET Nat, S # {}
  PROVE  \E x \in S : \A y \in S : x <= y
<1>1. IsWellFoundedOn(OpToRel(<, Nat), Nat)
  BY NatLessThanWellFounded
<1>2. PICK x \in S : \A y \in S : ~ (<<y, x>> \in OpToRel(<, Nat))
  BY ONLY <1>1, WFMin, S \in SUBSET Nat, S # {}
<1>3. \A y \in S : y \in Nat /\ x \in Nat /\ ~ (y < x)
  BY <1>2 DEF OpToRel
<1> QED
  BY <1>3

(* A set of numbers that has 0, and with each number the next, has all up  *)
(* to N: induction over the steps of a loop.                               *)
LEMMA Climb ==
  ASSUME NEW N \in Nat, NEW S, 0 \in S, \A k \in 1..N : k - 1 \in S => k \in S
  PROVE  0..N \subseteq S
<1> DEFINE Bad == {k \in 0..N : k \notin S}
<1> SUFFICES ASSUME Bad # {} PROVE FALSE
  OBVIOUS
<1>1. PICK x \in Bad : \A y \in Bad : x <= y
  BY Minimum, Bad \in SUBSET Nat
<1>2. x \in 1..N /\ x - 1 \notin Bad
  BY <1>1
<1> QED
  BY <1>1, <1>2

(* f is what N steps of a loop pass through, from state a on, when step k  *)
(* takes a state s of X to F[k][s]; every loop has such an f.              *)
Loop(N, X, a, F, f) == /\ f \in [0..N -> X]
                       /\ f[0] = a
                       /\ \A k \in 1..N : f[k] = F[k][f[k - 1]]

(* Every loop of N steps has such an f.                                    *)
LEMMA LoopRuns ==
  ASSUME NEW N \in Nat, NEW X, NEW a \in X, NEW F \in [1..N -> [X -> X]]
  PROVE  \E f : Loop(N, X, a, F, f)
<1> SUFFICES \E f \in [0..N -> X] : f[0] = a /\ \A k \in 1..N : f[k] = F[k][f[k - 1]]
  BY DEF Loop
<1> DEFINE Run(m, f) == f[0] = a /\ \A k \in 1..m : f[k] = F[k][f[k - 1]]
           S == {m \in 0..N : \E f \in [0..m -> X] : Run(m, f)}
<1>1. 0 \in S
  <2>1. [k \in 0..0 |-> a] \in [0..0 -> X] /\ Run(0, [k \in 0..0 |-> a])
    OBVIOUS
  <2>2. \E f \in [0..0 -> X] : Run(0, f)
    <3> HIDE DEF Run
    <3> QED
      BY <2>1
  <2> HIDE DEF Run
  <2> QED
    BY <2>2
<1>2. ASSUME NEW m \in 1..N, m - 1 \in S PROVE m \in S
  <2>1. PICK f \in [0..(m - 1) -> X] : Run(m - 1, f)
    BY <1>2
  <2> DEFINE g == [k \in 0..m |-> IF k = m THEN F[m][f[m - 1]] ELSE f[k]]
  <2>2. F[m][f[m - 1]] \in X
    <3>1. m - 1 \in 0..(m - 1) /\ F[m] \in [X -> X]
      OBVIOUS
    <3> QED
      BY <3>1
  <2>3. g \in [0..m -> X]
    BY <2>2
  <2>4. g[0] = a
    BY <2>1
  <2>5. ASSUME NEW k \in 1..m PROVE g[k] = F[k][g[k - 1]]
    <3>1. CASE k = m
      <4>1. k - 1 \in 0..m /\ k - 1 # m /\ k \in 0..m
        BY <3>1
      <4>2. g[k - 1] = f[m - 1] /\ g[k] = F[m][f[m - 1]]
        BY <4>1, <3>1
      <4> QED
        BY <4>2, <3>1
    <3>2. CASE k # m
      <4>1. k \in 1..(m - 1) /\ k \in 0..m /\ k - 1 \in 0..m /\ k - 1 # m
        BY <3>2
      <4>2. g[k] = f[k] /\ g[k - 1] = f[k - 1]
        BY <4>1, <3>2
      <4> QED
        BY <4>1, <4>2, <2>1
    <3> QED
      BY <3>1, <3>2
  <2>6. Run(m, g)
    <3> HIDE DEF g
    <3> QED
      BY <2>4, <2>5
  <2>7. \E h \in [0..m -> X] : Run(m, h)
    <3> HIDE DEF g, Run
    <3> QED
      BY <2>3, <2>6
  <2> HIDE DEF Run
  <2> QED
    BY <2>7
<1>3. N \in S
  <2> HIDE DEF S
  <2>1. 0..N \subseteq S
    BY <1>1, <1>2, Climb
  <2> QED
    BY <2>1
<1> QED
  BY <1>3

(* Sequences of one length with the same elements are the same.            *)
LEMMA SameSeq ==
  ASSUME NEW X, NEW s \in Seq(X), NEW t \in Seq(X), Len(s) = Len(t),
         \A i \in 1..Len(s) : s[i] = t[i]
  PROVE  s = t
BY SMTT(30)

(* What a concatenation is made of.                                        *)
LEMMA ConcatIs ==
  ASSUME NEW X, NEW s \in Seq(X), NEW t \in Seq(X)
  PROVE  /\ s \o t \in Seq(X) /\ Len(s \o t) = Len(s) + Len(t)
         /\ \A i \in 1..Len(s) : (s \o t)[i] = s[i]
         /\ \A i \in 1..Len(t) : (s \o t)[Len(s) + i] = t[i]
BY SMTT(30)

-----------------------------------------------------------------------------
(* The powers of two, by which prefixes cut addresses.                     *)
LEMMA SizeIs ==
  /\ Size[0] = 1
  /\ \A k \in 1..W : Size[k] = 2 * Size[k - 1]
  /\ \A k \in 0..W : Size[k] \in Nat \ {0}
<1> DEFINE X == Nat \ {0}
           F == [k \in 1..W |-> [x \in X |-> 2 * x]]
<1>1. W \in Nat /\ 1 \in X
  BY CidrAssumption
<1>2. F \in [1..W -> [X -> X]]
  OBVIOUS
<1>3. PICK f : Loop(W, X, 1, F, f)
  <2> HIDE DEF F, X
  <2> QED
    BY <1>1, <1>2, LoopRuns
<1>4. ASSUME NEW k \in 1..W PROVE f[k] = 2 * f[k - 1]
  <2>1. k - 1 \in 0..W
    BY <1>1
  <2>2. f[k - 1] \in X
    BY <1>3, <2>1 DEF Loop
  <2> QED
    BY <1>3, <2>2 DEF Loop
<1>5. f = [k \in 0..W |-> IF k = 0 THEN 1 ELSE 2 * f[k - 1]]
  <2> DEFINE g == [k \in 0..W |-> IF k = 0 THEN 1 ELSE 2 * f[k - 1]]
  <2>1. \A k \in 0..W : f[k] = g[k]
    BY <1>1, <1>3, <1>4 DEF Loop
  <2> QED
    BY <1>3, <2>1 DEF Loop
<1>6. Size = [k \in 0..W |-> IF k = 0 THEN 1 ELSE 2 * Size[k - 1]]
  BY <1>5, Zenon DEF Size
<1>7. 0 \in 0..W /\ \A k \in 1..W : k \in 0..W /\ k # 0 /\ k - 1 \in 0..W
  BY <1>1
<1>8. Size[0] = 1 /\ \A k \in 1..W : Size[k] = 2 * Size[k - 1]
  BY ONLY <1>6, <1>7
<1> DEFINE S == {k \in 0..W : Size[k] \in Nat \ {0}}
<1>9. 0 \in S /\ \A k \in 1..W : k - 1 \in S => k \in S
  BY <1>7, <1>8
<1>10. 0..W \subseteq S
  <2> HIDE DEF S
  <2> QED
    BY <1>1, <1>9, Climb
<1> QED
  BY <1>8, <1>10

(* Clearing the bits a prefix leaves free: the result is an address, it    *)
(* has nothing more to clear, and a full prefix clears nothing.            *)
LEMMA CutIs ==
  ASSUME NEW a \in Nat, NEW m \in Nat \ {0}
  PROVE  /\ a - (a % m) \in 0..a
         /\ (a - (a % m)) % m = 0
<1>1. a - (a % m) \in 0..a
  BY SMT
<1>2. PICK d \in Nat : a - (a % m) = m * d
  <2>1. a \div m \in Nat /\ a = (m * (a \div m)) + (a % m)
    BY SMT
  <2> QED
    BY <2>1
<1>3. (m * d) % m = 0
  BY SMT
<1> QED
  BY <1>1, <1>2, <1>3

(* Addresses and lengths are numbers, zero and the full length included.   *)
LEMMA AddrsAre == Addrs \in SUBSET Nat /\ 0 \in Addrs /\ 0 \in Lens /\ W \in Lens
                  /\ \A a \in Addrs : a < Size[W]
BY SizeIs, CidrAssumption DEF Addrs, Lens

(* a & mask is an address, and masking it again changes nothing.           *)
LEMMA NetIs ==
  ASSUME NEW a \in Addrs, NEW l \in Lens
  PROVE  /\ Net(a, l) \in Addrs
         /\ Net(Net(a, l), l) = Net(a, l)
<1>1. W - l \in 0..W /\ a \in Nat
  BY CidrAssumption, AddrsAre DEF Lens
<1>2. PICK m \in Nat \ {0} : m = Size[W - l]
  BY <1>1, SizeIs
<1>3. Net(a, l) = a - (a % m) /\ Net(Net(a, l), l) = (a - (a % m)) - ((a - (a % m)) % m)
  BY <1>2 DEF Net
<1>4. a - (a % m) \in 0..a /\ (a - (a % m)) % m = 0
  BY <1>1, CutIs
<1>5. Net(a, l) \in 0..a
  BY <1>3, <1>4
<1>6. Net(Net(a, l), l) = Net(a, l)
  BY <1>1, <1>3, <1>4
<1>7. 0..a \subseteq Addrs
  BY <1>1, SizeIs, CidrAssumption DEF Addrs
<1> QED
  BY <1>5, <1>6, <1>7

(* A full mask keeps the address, an empty one nothing of it.              *)
LEMMA NetEnds ==
  ASSUME NEW a \in Addrs
  PROVE  Net(a, W) = a /\ Net(a, 0) = 0
<1>1. a \in Nat /\ a < Size[W] /\ W \in Nat /\ W - W = 0 /\ W - 0 = W
  BY AddrsAre, CidrAssumption
<1>2. PICK m \in Nat \ {0} : m = Size[W]
  BY <1>1, SizeIs
<1>3. a % m = a /\ a % 1 = 0
  BY <1>1, <1>2
<1> QED
  BY <1>1, <1>2, <1>3, SizeIs DEF Net
-----------------------------------------------------------------------------
(* The elements of a sequence.                                             *)
Elems(s) == {s[i] : i \in DOMAIN s}

(* One more element.                                                       *)
LEMMA AppendIs ==
  ASSUME NEW X, NEW s \in Seq(X), NEW e \in X
  PROVE  /\ Append(s, e) \in Seq(X)
         /\ Len(Append(s, e)) = Len(s) + 1
         /\ Elems(Append(s, e)) = Elems(s) \cup {e}
<1>1. /\ Append(s, e) \in Seq(X) /\ Len(Append(s, e)) = Len(s) + 1
      /\ DOMAIN Append(s, e) = 1..(Len(s) + 1) /\ DOMAIN s = 1..Len(s) /\ Len(s) \in Nat
      /\ \A i \in 1..Len(s) : Append(s, e)[i] = s[i]
      /\ Append(s, e)[Len(s) + 1] = e
  OBVIOUS
<1>2. 1..(Len(s) + 1) = 1..Len(s) \cup {Len(s) + 1}
  BY <1>1
<1> QED
  BY <1>1, <1>2 DEF Elems

(* One element less.                                                       *)
LEMMA RemoveIs ==
  ASSUME NEW X, NEW s \in Seq(X), NEW i \in DOMAIN s
  PROVE  /\ RemoveAt(s, i) \in Seq(X)
         /\ Len(RemoveAt(s, i)) = Len(s) - 1
         /\ \A j \in 1..(Len(s) - 1) : RemoveAt(s, i)[j] = IF j < i THEN s[j] ELSE s[j + 1]
BY SMTT(30) DEF RemoveAt

(* What is left when an element goes: all the others.                      *)
LEMMA RemoveElems ==
  ASSUME NEW X, NEW s \in Seq(X), NEW i \in DOMAIN s
  PROVE  /\ Elems(RemoveAt(s, i)) \subseteq Elems(s)
         /\ Elems(s) \subseteq Elems(RemoveAt(s, i)) \cup {s[i]}
<1> DEFINE r == RemoveAt(s, i)
<1>1. /\ r \in Seq(X) /\ Len(r) = Len(s) - 1 /\ DOMAIN r = 1..(Len(s) - 1)
      /\ \A j \in 1..(Len(s) - 1) : r[j] = IF j < i THEN s[j] ELSE s[j + 1]
  BY RemoveIs
<1>2. DOMAIN s = 1..Len(s) /\ Len(s) \in Nat /\ i \in 1..Len(s)
  OBVIOUS
<1> HIDE DEF r
<1>3. ASSUME NEW j \in DOMAIN r PROVE r[j] \in Elems(s)
  <2>1. j \in DOMAIN s /\ j + 1 \in DOMAIN s
    BY <1>1, <1>2
  <2> QED
    BY <1>1, <2>1 DEF Elems
<1>4. ASSUME NEW j \in DOMAIN s, j # i PROVE s[j] \in Elems(r)
  <2>1. CASE j < i
    <3>1. j \in DOMAIN r /\ r[j] = s[j]
      BY <1>1, <1>2, <2>1
    <3> QED
      BY <3>1 DEF Elems
  <2>2. CASE j > i
    <3>1. j - 1 \in DOMAIN r /\ ~ (j - 1 < i) /\ (j - 1) + 1 = j
      BY <1>1, <1>2, <2>2
    <3>2. r[j - 1] = s[j]
      BY <1>1, <3>1
    <3> QED
      BY <3>1, <3>2 DEF Elems
  <2> QED
    BY <1>2, <1>4, <2>1, <2>2
<1>5. Elems(r) \subseteq Elems(s) /\ Elems(s) \subseteq Elems(r) \cup {s[i]}
  BY <1>3, <1>4 DEF Elems
<1> QED
  BY <1>5 DEF r

(* The loop that closes up the table keeps what is at the places, and      *)
(* nothing else.                                                           *)
LEMMA KeepIs ==
  ASSUME NEW X, NEW t, Len(t) \in Nat, NEW P,
         \A k \in 1..Len(t) : k \in P => t[k] \in X
  PROVE  /\ Keep(t, P) \in Seq(X)
         /\ Len(Keep(t, P)) <= Len(t)
         /\ Elems(Keep(t, P)) = {t[k] : k \in {j \in 1..Len(t) : j \in P}}
<1> DEFINE N == Len(t)
           F == [k \in 1..N |-> [s \in Seq(X) |-> IF k \in P THEN Append(s, t[k]) ELSE s]]
<1>1. << >> \in Seq(X) /\ F \in [1..N -> [Seq(X) -> Seq(X)]] /\ N \in Nat
  OBVIOUS
<1>2. PICK f : Loop(N, Seq(X), << >>, F, f)
  <2> HIDE DEF F, N
  <2> QED
    BY <1>1, LoopRuns
<1>3. \A k \in 1..N : k \in 0..N /\ k # 0 /\ k - 1 \in 0..N
  BY <1>1
<1>4. f \in [0..N -> Seq(X)] /\ f[0] = << >>
  BY <1>2 DEF Loop
<1>5. ASSUME NEW k \in 1..N PROVE f[k] = IF k \in P THEN Append(f[k - 1], t[k]) ELSE f[k - 1]
  <2>1. f[k - 1] \in Seq(X)
    BY <1>3, <1>4
  <2> QED
    BY <1>2, <2>1 DEF Loop
<1>6. f = [k \in 0..N |-> IF k = 0 THEN << >> ELSE IF k \in P THEN Append(f[k - 1], t[k])
                          ELSE f[k - 1]]
  <2> DEFINE g == [k \in 0..N |-> IF k = 0 THEN << >> ELSE IF k \in P THEN Append(f[k - 1], t[k])
                                  ELSE f[k - 1]]
  <2>1. ASSUME NEW k \in 0..N PROVE f[k] = g[k]
    <3>1. CASE k = 0
      BY <1>4, <3>1
    <3>2. CASE k # 0
      <4>1. k \in 1..N
        BY <1>1, <3>2
      <4> QED
        BY <1>5, <3>2, <4>1
    <3> QED
      BY <3>1, <3>2
  <2>2. DOMAIN f = 0..N /\ DOMAIN g = 0..N
    BY <1>4
  <2> QED
    BY <1>4, <2>1, <2>2
<1> DEFINE kept == CHOOSE g : g = [k \in 0..Len(t) |->
                      IF k = 0 THEN << >> ELSE IF k \in P THEN Append(g[k - 1], t[k])
                      ELSE g[k - 1]]
<1>7. kept = [k \in 0..N |-> IF k = 0 THEN << >> ELSE IF k \in P THEN Append(kept[k - 1], t[k])
                             ELSE kept[k - 1]]
  BY <1>6, Zenon
<1>8. Keep(t, P) = kept[N]
  BY Zenon DEF Keep
<1> HIDE DEF kept, F
<1> DEFINE Good(k) == /\ kept[k] \in Seq(X) /\ Len(kept[k]) <= k
                      /\ Elems(kept[k]) = {t[m] : m \in {j \in 1..k : j \in P}}
           S == {k \in 0..N : Good(k)}
<1>9. 0 \in S
  <2>1. kept[0] = << >> /\ 0 \in 0..N
    BY <1>1, <1>7
  <2>2. Elems(<< >>) = {} /\ {t[m] : m \in {j \in 1..0 : j \in P}} = {}
    BY DEF Elems
  <2>3. << >> \in Seq(X) /\ Len(<< >>) = 0
    OBVIOUS
  <2>4. Good(0)
    BY <2>1, <2>2, <2>3
  <2> QED
    BY <2>1, <2>4
<1>10. ASSUME NEW k \in 1..N, k - 1 \in S PROVE k \in S
  <2>1. Good(k - 1) /\ k \in 0..N
    BY <1>10
  <2>2. kept[k] = IF k \in P THEN Append(kept[k - 1], t[k]) ELSE kept[k - 1]
    BY <1>3, <1>7
  <2>3. 1..k = 1..(k - 1) \cup {k} /\ k \notin 1..(k - 1)
    BY <1>1
  <2>4. CASE k \in P
    <3>1. t[k] \in X /\ kept[k] = Append(kept[k - 1], t[k])
      BY <2>2, <2>4
    <3>2. /\ kept[k] \in Seq(X) /\ Len(kept[k]) = Len(kept[k - 1]) + 1
          /\ Elems(kept[k]) = Elems(kept[k - 1]) \cup {t[k]}
      BY <2>1, <3>1, AppendIs
    <3>3. {t[m] : m \in {j \in 1..k : j \in P}} = {t[m] : m \in {j \in 1..(k - 1) : j \in P}} \cup {t[k]}
      BY <2>3, <2>4
    <3>4. Len(kept[k]) <= k
      BY <2>1, <3>2
    <3> QED
      BY <2>1, <3>2, <3>3, <3>4
  <2>5. CASE k \notin P
    <3>1. kept[k] = kept[k - 1]
      BY <2>2, <2>5
    <3>2. {j \in 1..k : j \in P} = {j \in 1..(k - 1) : j \in P}
      BY <2>3, <2>5
    <3>3. Len(kept[k]) <= k
      BY <2>1, <3>1
    <3> QED
      BY <2>1, <3>1, <3>2, <3>3
  <2> QED
    BY <2>4, <2>5
<1>11. N \in S
  <2>1. 0..N \subseteq S
    <3> HIDE DEF S, N
    <3> QED
      BY <1>1, <1>9, <1>10, Climb
  <2> QED
    BY <1>1, <2>1
<1> QED
  BY <1>8, <1>11
-----------------------------------------------------------------------------
(* A route, and an entry of the table.                                     *)
RouteSet == [dest : Addrs, len : Lens, gw : Addrs, ifindex : Nat]
EntrySet == [route : RouteSet, is_static : BOOLEAN]

(* The connected routes of a table.                                        *)
Conn(s) == {e.route : e \in {x \in Elems(s) : Connected(x)}}

(* ConnectedRoutes, before and after a step, by the table alone.           *)
LEMMA ConnIs == ConnectedRoutes = Conn(routes) /\ ConnectedRoutes' = Conn(routes')
BY DEF ConnectedRoutes, Conn, Elems

(* An entry is of its type and says what it was made of.                   *)
LEMMA EntryIs ==
  ASSUME NEW r \in RouteSet, NEW b \in BOOLEAN
  PROVE  /\ Entry(r, b) \in EntrySet /\ Entry(r, b).route = r
         /\ Static(Entry(r, b)) <=> b
         /\ Connected(Entry(r, b)) <=> ~ b
BY DEF Entry, EntrySet, Static, Connected

(* A static route added does not show among the connected ones; a          *)
(* connected one does.                                                     *)
LEMMA ConnAppend ==
  ASSUME NEW s \in Seq(EntrySet), NEW r \in RouteSet
  PROVE  /\ Conn(Append(s, Entry(r, TRUE))) = Conn(s)
         /\ Conn(Append(s, Entry(r, FALSE))) = Conn(s) \cup {r}
<1>1. /\ Elems(Append(s, Entry(r, TRUE))) = Elems(s) \cup {Entry(r, TRUE)}
      /\ Elems(Append(s, Entry(r, FALSE))) = Elems(s) \cup {Entry(r, FALSE)}
  BY AppendIs, EntryIs
<1>2. ~ Connected(Entry(r, TRUE)) /\ Connected(Entry(r, FALSE)) /\ Entry(r, FALSE).route = r
  BY EntryIs
<1>3. /\ {x \in Elems(Append(s, Entry(r, TRUE))) : Connected(x)} = {x \in Elems(s) : Connected(x)}
      /\ {x \in Elems(Append(s, Entry(r, FALSE))) : Connected(x)}
           = {x \in Elems(s) : Connected(x)} \cup {Entry(r, FALSE)}
  BY <1>1, <1>2
<1>4. Conn(Append(s, Entry(r, TRUE))) = Conn(s)
  BY <1>3 DEF Conn
<1> HIDE DEF Conn
<1>5. Conn(Append(s, Entry(r, FALSE))) = Conn(s) \cup {r}
  <2> DEFINE C == {x \in Elems(s) : Connected(x)}
             e == Entry(r, FALSE)
  <2>1. {y.route : y \in C \cup {e}} = {y.route : y \in C} \cup {e.route}
    <3> HIDE DEF C, e
    <3> QED
      OBVIOUS
  <2> QED
    BY <1>2, <1>3, <2>1 DEF Conn
<1> QED
  BY <1>4, <1>5

(* route_del of a static route leaves the connected ones.                  *)
LEMMA ConnRemove ==
  ASSUME NEW s \in Seq(EntrySet), NEW i \in DOMAIN s, Static(s[i])
  PROVE  Conn(RemoveAt(s, i)) = Conn(s)
<1>1. /\ Elems(RemoveAt(s, i)) \subseteq Elems(s)
      /\ Elems(s) \subseteq Elems(RemoveAt(s, i)) \cup {s[i]}
  BY RemoveElems
<1>2. ~ Connected(s[i])
  BY DEF Static, Connected
<1> QED
  BY <1>1, <1>2, Zenon DEF Conn

(* What the closing up of the table keeps: no connected route when static  *)
(* ones are kept, and all of them when connected ones are.                 *)
LEMMA ConnKeep ==
  ASSUME NEW s \in Seq(EntrySet)
  PROVE  /\ Keep(s, {i \in DOMAIN s : Static(s[i])}) \in Seq(EntrySet)
         /\ Keep(s, {i \in DOMAIN s : Connected(s[i])}) \in Seq(EntrySet)
         /\ Len(Keep(s, {i \in DOMAIN s : Static(s[i])})) <= Len(s)
         /\ Len(Keep(s, {i \in DOMAIN s : Connected(s[i])})) <= Len(s)
         /\ Conn(Keep(s, {i \in DOMAIN s : Static(s[i])})) = {}
         /\ Conn(Keep(s, {i \in DOMAIN s : Connected(s[i])})) = Conn(s)
<1> DEFINE P == {i \in DOMAIN s : Static(s[i])}
           Q == {i \in DOMAIN s : Connected(s[i])}
<1>1. Len(s) \in Nat /\ DOMAIN s = 1..Len(s) /\ \A k \in 1..Len(s) : s[k] \in EntrySet
  OBVIOUS
<1>2. /\ Keep(s, P) \in Seq(EntrySet) /\ Len(Keep(s, P)) <= Len(s)
      /\ Elems(Keep(s, P)) = {s[k] : k \in {j \in 1..Len(s) : j \in P}}
  <2> HIDE DEF P
  <2> QED
    BY <1>1, KeepIs
<1>3. /\ Keep(s, Q) \in Seq(EntrySet) /\ Len(Keep(s, Q)) <= Len(s)
      /\ Elems(Keep(s, Q)) = {s[k] : k \in {j \in 1..Len(s) : j \in Q}}
  <2> HIDE DEF Q
  <2> QED
    BY <1>1, KeepIs
<1>4. Conn(Keep(s, P)) = {}
  BY <1>1, <1>2, Zenon DEF Conn, Static, Connected
<1>5. Conn(Keep(s, Q)) = Conn(s)
  <2>1. {x \in Elems(Keep(s, Q)) : Connected(x)} = {x \in Elems(s) : Connected(x)}
    BY <1>1, <1>3, Zenon DEF Elems
  <2> QED
    BY <2>1 DEF Conn
<1> QED
  BY <1>2, <1>3, <1>4, <1>5

-----------------------------------------------------------------------------
(* What else is true of the threads: a derivation past its first test of   *)
(* an interface has an interface the kernel knows and room in the table, a *)
(* worker that compares has an interface.                                  *)
Inside == DerivePlaces \ {"scan"}
Control ==
  /\ oarg \in [Operators -> (Ifs \X Lens) \cup {NoOne}]
  /\ \A o \in Operators : opc[o] \in Inside =>
       oif[o] \in Ifs /\ ifindex[oif[o]] >= 0 /\ Len(routes) < MAX_ROUTE
  /\ \A w \in Workers : wpc[w] = "compare" => wif[w] \in Ifs

(* Nobody has changed an interface without a derivation that begins later. *)
Clean == \A o \in Operators : opc[o] \notin {"mask", "derive"}

(* A derivation that nobody made stale has added the subnets of the        *)
(* interfaces it passed, and what it found of the one it is at is so.      *)
SubnetsBelow(k) ==
  {Subnet(i, ip[i], len[i]) : i \in {j \in Ifs : j < k /\ Usable(j, ip[j], len[j])}}
Deriving == \A o \in Operators : lock = o /\ Clean =>
  /\ ConnectedRoutes = SubnetsBelow(oif[o])
  /\ opc[o] \in Inside => ip[oif[o]] # 0
  /\ opc[o] \in Inside \ {"test"} => len[oif[o]] # 0
  /\ opc[o] = "dest" => oip[o] = ip[oif[o]]
  /\ opc[o] = "append" => oip[o] = Net(ip[oif[o]], len[oif[o]])

(* A worker has not passed an interface it cannot miss, and the address it *)
(* took from such an interface is still there.                             *)
Deciding == \A w \in Workers : wpc[w] \in {"scan", "compare"} =>
  \A i \in covered[w] : /\ i >= wif[w] /\ Covers(i, wdst[w])
                        /\ wpc[w] = "compare" /\ i = wif[w] => wip[w] = ip[i]

RouteInv == TypeOK /\ Control /\ ConnectedInSync /\ Deriving /\ OnLinkFirst /\ Deciding
-----------------------------------------------------------------------------
(* The interfaces are numbered from 1.                                     *)
LEMMA IfsAre == Ifs = 1..Len(ifindex) /\ Len(ifindex) \in Nat
                /\ \A i \in Ifs : ifindex[i] \in Nat \cup {-1}
BY RouteAssumption DEF Ifs

(* A usable interface has a subnet to route to.                            *)
LEMMA SubnetIs ==
  ASSUME NEW i \in Ifs, NEW a \in Addrs, NEW l \in Lens, Usable(i, a, l)
  PROVE  Subnet(i, a, l) \in RouteSet
<1>1. Net(a, l) \in Addrs /\ 0 \in Addrs /\ ifindex[i] \in Nat
  BY NetIs, AddrsAre, IfsAre DEF Usable
<1> QED
  BY <1>1 DEF Subnet, Route, RouteSet

(* The types once more, the routes by name.                                *)
LEMMA TypeIs == TypeOK => routes \in Seq(EntrySet)
BY DEF TypeOK, EntrySet, RouteSet

(* The interfaces a worker cannot miss are interfaces.                     *)
LEMMA FollowType == TypeOK /\ Follow => covered' \in [Workers -> SUBSET Ifs]
<1> SUFFICES ASSUME TypeOK, Follow PROVE covered' \in [Workers -> SUBSET Ifs]
  OBVIOUS
<1>1. covered \in [Workers -> SUBSET Ifs]
  BY DEF TypeOK
<1>2. \A w \in Workers : /\ {i \in Ifs : Covers(i, wdst'[w])} \subseteq Ifs
                         /\ {i \in covered[w] : Same(i)} \subseteq Ifs
  BY <1>1
<1> QED
  BY <1>2 DEF Follow

(* The table as its readers and the code's bounds see it.                  *)
TableOK == routes \in Seq(EntrySet) /\ Len(routes) <= MAX_ROUTE

(* The types of what commands, and of what workers, keep.                  *)
IfsOK == ip \in [Ifs -> Addrs] /\ len \in [Ifs -> Lens]
OpsOK ==
  /\ lock \in Operators \cup {NoOne}
  /\ opc \in [Operators -> {"idle", "mask", "derive", "load"} \cup DerivePlaces]
  /\ \A o \in Operators : opc[o] \in DerivePlaces <=> lock = o
  /\ \A o \in Operators : opc[o] = "mask" => oarg[o] \in Ifs \X Lens
  /\ oif \in [Operators -> 1..(Len(ifindex) + 1)] /\ oip \in [Operators -> Addrs]
  /\ clipped \in BOOLEAN
  /\ oarg \in [Operators -> (Ifs \X Lens) \cup {NoOne}]
  /\ \A o \in Operators : opc[o] \in Inside =>
       oif[o] \in Ifs /\ ifindex[oif[o]] >= 0 /\ Len(routes) < MAX_ROUTE
WorkOK ==
  /\ wpc \in [Workers -> {"idle", "scan", "compare", "onlink", "routed", "noroute"}]
  /\ wdst \in [Workers -> Addrs] /\ wip \in [Workers -> Addrs]
  /\ wif \in [Workers -> 1..(Len(ifindex) + 1)]
  /\ \A w \in Workers : wpc[w] = "compare" => wif[w] \in Ifs

(* TypeOK and Control are these parts.                                     *)
LEMMA TypeParts ==
  /\ TypeOK /\ Control <=>
       TableOK /\ IfsOK /\ OpsOK /\ WorkOK /\ covered \in [Workers -> SUBSET Ifs]
  /\ TypeOK' /\ Control' <=>
       TableOK' /\ IfsOK' /\ OpsOK' /\ WorkOK' /\ covered' \in [Workers -> SUBSET Ifs]
BY Zenon DEF TypeOK, Control, TableOK, IfsOK, OpsOK, WorkOK, EntrySet, RouteSet

(* The places of a derivation, spelt out.                                  *)
LEMMA PlacesAre == /\ DerivePlaces = {"scan", "test", "address", "dest", "append"}
                   /\ Inside = {"test", "address", "dest", "append"}
BY DEF DerivePlaces, Inside

(* What the commands store is of the types.                                *)
LEMMA SetIpType ==
  ASSUME TableOK, IfsOK, OpsOK, WorkOK,
         NEW o \in Operators, NEW i \in Ifs, NEW a \in Addrs, NEW l \in Lens, SetIp(o, i, a, l)
  PROVE  TableOK' /\ IfsOK' /\ OpsOK' /\ WorkOK'
<1>1. TableOK' /\ WorkOK'
  BY DEF SetIp, TableOK, WorkOK, wvars
<1>2. IfsOK'
  BY DEF SetIp, IfsOK
<1>3. <<i, l>> \in Ifs \X Lens
  OBVIOUS
<1>4. OpsOK'
  BY <1>3, PlacesAre DEF SetIp, OpsOK
<1> QED
  BY <1>1, <1>2, <1>4

(* setip stores the mask of the interface it stored the address of.        *)
LEMMA SetMaskType ==
  ASSUME TableOK, IfsOK, OpsOK, WorkOK, NEW o \in Operators, SetMask(o)
  PROVE  TableOK' /\ IfsOK' /\ OpsOK' /\ WorkOK'
<1>1. TableOK' /\ WorkOK'
  BY DEF SetMask, TableOK, WorkOK, wvars
<1>2. oarg[o] \in Ifs \X Lens
  BY DEF SetMask, OpsOK
<1>3. oarg[o][1] \in Ifs /\ oarg[o][2] \in Lens
  BY <1>2
<1>4. IfsOK'
  BY <1>3 DEF SetMask, IfsOK
<1>5. OpsOK'
  BY PlacesAre DEF SetMask, OpsOK
<1> QED
  BY <1>1, <1>4, <1>5

(* route_derive_connected begins.                                          *)
LEMMA DeriveType ==
  ASSUME TableOK, IfsOK, OpsOK, WorkOK, NEW o \in Operators, Derive(o)
  PROVE  TableOK' /\ IfsOK' /\ OpsOK' /\ WorkOK'
<1>1. WorkOK' /\ IfsOK'
  BY DEF Derive, WorkOK, wvars, IfsOK, ifvars
<1>2. TableOK'
  <2>1. /\ Keep(routes, {i \in DOMAIN routes : Static(routes[i])}) \in Seq(EntrySet)
        /\ Len(Keep(routes, {i \in DOMAIN routes : Static(routes[i])})) <= Len(routes)
    BY ConnKeep DEF TableOK
  <2>2. routes' \in Seq(EntrySet) /\ Len(routes') <= Len(routes)
    BY <2>1 DEF Derive
  <2>3. Len(routes') \in Nat /\ Len(routes) \in Nat /\ MAX_ROUTE \in Nat
    BY <2>2, RouteAssumption DEF TableOK
  <2> QED
    BY <2>2, <2>3 DEF TableOK
<1>3. OpsOK'
  <2>1. 1 \in 1..(Len(ifindex) + 1) /\ NoOne \notin Operators
    BY IfsAre, RouteAssumption
  <2> QED
    BY <2>1, PlacesAre DEF Derive, OpsOK, CanLock
<1> QED
  BY <1>1, <1>2, <1>3

(* It goes on to the next interface.                                       *)
LEMMA NextIfType ==
  ASSUME OpsOK, NEW o \in Operators, opc[o] \in DerivePlaces, oif[o] \in Ifs,
         NextIf(o), UNCHANGED <<lock, oarg, clipped>>
  PROVE  OpsOK'
<1>1. oif[o] + 1 \in 1..(Len(ifindex) + 1) /\ 0 \in Addrs
  BY IfsAre, AddrsAre
<1>2. \A p \in Operators : p # o => opc[p] \notin Inside
  BY PlacesAre DEF OpsOK
<1> QED
  BY <1>1, <1>2, PlacesAre DEF NextIf, OpsOK

(* It tests the address and the index of an interface.                     *)
LEMMA TestIpType ==
  ASSUME TableOK, IfsOK, OpsOK, WorkOK, NEW o \in Operators, TestIp(o)
  PROVE  TableOK' /\ IfsOK' /\ OpsOK' /\ WorkOK'
<1>1. TableOK' /\ WorkOK' /\ IfsOK'
  BY DEF TestIp, DeriveLoad, TableOK, WorkOK, wvars, IfsOK, ifvars
<1>2. /\ oif[o] \in Ifs /\ Len(routes) < MAX_ROUTE /\ opc[o] = "scan" /\ routes' = routes
      /\ UNCHANGED <<lock, oarg, clipped>>
  BY DEF TestIp, DeriveLoad, More
<1>3. CASE NextIf(o)
  BY <1>1, <1>2, <1>3, NextIfType, PlacesAre
<1>4. CASE /\ ifindex[oif[o]] >= 0 /\ opc' = [opc EXCEPT ![o] = "test"]
           /\ UNCHANGED <<oif, oip>>
  <2>1. OpsOK'
    BY <1>2, <1>4, PlacesAre DEF OpsOK
  <2> QED
    BY <1>1, <2>1
<1> QED
  BY <1>3, <1>4 DEF TestIp

(* It tests the mask.                                                      *)
LEMMA TestMaskType ==
  ASSUME TableOK, IfsOK, OpsOK, WorkOK, NEW o \in Operators, TestMask(o)
  PROVE  TableOK' /\ IfsOK' /\ OpsOK' /\ WorkOK'
<1>1. TableOK' /\ WorkOK' /\ IfsOK'
  BY DEF TestMask, DeriveLoad, TableOK, WorkOK, wvars, IfsOK, ifvars
<1>2. /\ oif[o] \in Ifs /\ opc[o] = "test" /\ routes' = routes
      /\ UNCHANGED <<lock, oarg, clipped>>
  BY PlacesAre DEF TestMask, DeriveLoad, OpsOK
<1>3. CASE NextIf(o)
  BY <1>1, <1>2, <1>3, NextIfType, PlacesAre
<1>4. CASE opc' = [opc EXCEPT ![o] = "address"] /\ UNCHANGED <<oif, oip>>
  <2>1. OpsOK'
    BY <1>2, <1>4, PlacesAre DEF OpsOK
  <2> QED
    BY <1>1, <2>1
<1> QED
  BY <1>3, <1>4 DEF TestMask

(* It reads the address, then the mask, for the destination.               *)
LEMMA DeriveDestType ==
  ASSUME TableOK, IfsOK, OpsOK, WorkOK, NEW o \in Operators, DeriveIp(o) \/ DeriveDest(o)
  PROVE  TableOK' /\ IfsOK' /\ OpsOK' /\ WorkOK'
<1>1. TableOK' /\ WorkOK' /\ IfsOK'
  BY DEF DeriveIp, DeriveDest, DeriveLoad, TableOK, WorkOK, wvars, IfsOK, ifvars
<1>2. /\ oif[o] \in Ifs /\ ifindex[oif[o]] >= 0 /\ Len(routes) < MAX_ROUTE
      /\ opc[o] \in DerivePlaces /\ UNCHANGED <<lock, oarg, clipped, oif, routes>>
  BY PlacesAre DEF DeriveIp, DeriveDest, DeriveLoad, OpsOK
<1>3. PICK a \in Addrs, l \in Inside :
        oip' = [oip EXCEPT ![o] = a] /\ opc' = [opc EXCEPT ![o] = l]
  <2>1. CASE DeriveIp(o)
    <3>1. ip[oif[o]] \in Addrs /\ "dest" \in Inside
      BY <1>2, PlacesAre DEF IfsOK
    <3> QED
      BY <2>1, <3>1 DEF DeriveIp
  <2>2. CASE DeriveDest(o)
    <3>1. oip[o] \in Addrs /\ len[oif[o]] \in Lens
      BY <1>2 DEF IfsOK, OpsOK
    <3>2. Net(oip[o], len[oif[o]]) \in Addrs /\ "append" \in Inside
      BY <3>1, NetIs, PlacesAre
    <3>3. oip' = [oip EXCEPT ![o] = Net(oip[o], len[oif[o]])]
      BY <2>2 DEF DeriveDest
    <3> QED
      BY <2>2, <3>2, <3>3 DEF DeriveDest
  <2> QED
    BY <2>1, <2>2
<1>4. OpsOK'
  BY <1>2, <1>3, PlacesAre DEF OpsOK
<1> QED
  BY <1>1, <1>4

(* It appends a route where More has seen room.                            *)
LEMMA DeriveAppendType ==
  ASSUME TableOK, IfsOK, OpsOK, WorkOK, NEW o \in Operators, DeriveAppend(o)
  PROVE  TableOK' /\ IfsOK' /\ OpsOK' /\ WorkOK'
<1>1. WorkOK' /\ IfsOK'
  BY DEF DeriveAppend, DeriveLoad, WorkOK, wvars, IfsOK, ifvars
<1>2. /\ oif[o] \in Ifs /\ ifindex[oif[o]] >= 0 /\ Len(routes) < MAX_ROUTE /\ oip[o] \in Addrs
      /\ opc[o] = "append" /\ UNCHANGED <<lock, oarg, clipped>>
  BY PlacesAre DEF DeriveAppend, DeriveLoad, OpsOK
<1>3. TableOK'
  <2> DEFINE e == Entry(Route(oip[o], len[oif[o]], 0, ifindex[oif[o]]), FALSE)
  <2>1. e \in EntrySet
    <3>1. len[oif[o]] \in Lens /\ ifindex[oif[o]] \in Nat /\ 0 \in Addrs
      BY <1>2, IfsAre, AddrsAre DEF IfsOK
    <3>2. Route(oip[o], len[oif[o]], 0, ifindex[oif[o]]) \in RouteSet
      BY <1>2, <3>1 DEF Route, RouteSet
    <3> QED
      BY <3>2, EntryIs
  <2>2. routes' = Append(routes, e)
    BY DEF DeriveAppend
  <2>3. routes' \in Seq(EntrySet) /\ Len(routes') = Len(routes) + 1 /\ Len(routes) \in Nat
    <3> HIDE DEF e
    <3> QED
      BY <2>1, <2>2, AppendIs DEF TableOK
  <2> QED
    BY <1>2, <2>3, RouteAssumption DEF TableOK
<1>4. OpsOK'
  BY <1>2, NextIfType, PlacesAre DEF DeriveAppend
<1> QED
  BY <1>1, <1>3, <1>4

(* It ends.                                                                *)
LEMMA DerivedType ==
  ASSUME TableOK, IfsOK, OpsOK, WorkOK, NEW o \in Operators, Derived(o)
  PROVE  TableOK' /\ IfsOK' /\ OpsOK' /\ WorkOK'
<1>1. TableOK' /\ WorkOK' /\ IfsOK'
  BY DEF Derived, TableOK, WorkOK, wvars, IfsOK, ifvars
<1>2. 1 \in 1..(Len(ifindex) + 1) /\ NoOne \notin Operators
  BY IfsAre, RouteAssumption
<1>3. OpsOK'
  BY <1>2, PlacesAre DEF Derived, OpsOK
<1> QED
  BY <1>1, <1>3

(* A table of another length at most, and commands that only move on.      *)
LEMMA NoAppend == OpsOK /\ CanLock => \A o \in Operators : opc[o] \notin DerivePlaces
BY RouteAssumption DEF OpsOK, CanLock

(* route_add keeps within the capacity.                                    *)
LEMMA AddType ==
  ASSUME TableOK, IfsOK, OpsOK, WorkOK, NEW o \in Operators, NEW r \in Statics, route_add(o, r)
  PROVE  TableOK' /\ IfsOK' /\ OpsOK' /\ WorkOK'
<1>1. WorkOK' /\ IfsOK'
  BY DEF route_add, WorkOK, wvars, IfsOK, ifvars
<1>2. Entry(r, TRUE) \in EntrySet
  BY EntryIs, RouteAssumption DEF RouteSet
<1>3. TableOK'
  <2>1. PICK e \in EntrySet : routes' = Append(routes, e)
    BY <1>2, Zenon DEF route_add
  <2>2. Len(routes) < MAX_ROUTE /\ routes \in Seq(EntrySet)
    BY DEF route_add, TableOK
  <2>3. routes' \in Seq(EntrySet) /\ Len(routes') = Len(routes) + 1 /\ Len(routes) \in Nat
    BY <2>1, <2>2, AppendIs
  <2> QED
    BY <2>2, <2>3, RouteAssumption DEF TableOK
<1>4. OpsOK'
  BY NoAppend, PlacesAre DEF route_add, OpsOK, ovars
<1> QED
  BY <1>1, <1>3, <1>4

(* route_del shortens the table.                                           *)
LEMMA DelType ==
  ASSUME TableOK, IfsOK, OpsOK, WorkOK, NEW o \in Operators, NEW i \in DOMAIN routes, route_del(o, i)
  PROVE  TableOK' /\ IfsOK' /\ OpsOK' /\ WorkOK'
<1>1. WorkOK' /\ IfsOK'
  BY DEF route_del, WorkOK, wvars, IfsOK, ifvars
<1>3. TableOK'
  <2>1. routes' \in Seq(EntrySet) /\ Len(routes') = Len(routes) - 1 /\ Len(routes) \in Nat
    BY RemoveIs DEF TableOK, route_del
  <2> QED
    BY <2>1, RouteAssumption DEF TableOK
<1>4. OpsOK'
  BY NoAppend, PlacesAre DEF route_del, OpsOK, ovars
<1> QED
  BY <1>1, <1>3, <1>4

(* config_load clears the static routes.                                   *)
LEMMA ReloadType ==
  ASSUME TableOK, IfsOK, OpsOK, WorkOK, NEW o \in Operators, Reload(o)
  PROVE  TableOK' /\ IfsOK' /\ OpsOK' /\ WorkOK'
<1>1. WorkOK' /\ IfsOK'
  BY DEF Reload, WorkOK, wvars, IfsOK, ifvars
<1>2. TableOK'
  <2>1. /\ Keep(routes, {i \in DOMAIN routes : Connected(routes[i])}) \in Seq(EntrySet)
        /\ Len(Keep(routes, {i \in DOMAIN routes : Connected(routes[i])})) <= Len(routes)
    BY ConnKeep DEF TableOK
  <2>2. routes' \in Seq(EntrySet) /\ Len(routes') <= Len(routes)
    BY <2>1 DEF Reload
  <2>3. Len(routes') \in Nat /\ Len(routes) \in Nat /\ MAX_ROUTE \in Nat
    BY <2>2, RouteAssumption DEF TableOK
  <2> QED
    BY <2>2, <2>3 DEF TableOK
<1>4. OpsOK'
  BY NoAppend, PlacesAre DEF Reload, OpsOK
<1> QED
  BY <1>1, <1>2, <1>4

(* config_load is done.                                                    *)
LEMMA LoadedType ==
  ASSUME TableOK, IfsOK, OpsOK, WorkOK, NEW o \in Operators, Loaded(o)
  PROVE  TableOK' /\ IfsOK' /\ OpsOK' /\ WorkOK'
<1>1. TableOK' /\ WorkOK' /\ IfsOK'
  BY DEF Loaded, TableOK, WorkOK, wvars, IfsOK, ifvars
<1>2. OpsOK'
  BY PlacesAre DEF Loaded, OpsOK
<1> QED
  BY <1>1, <1>2

(* Step 4 of forward_task changes what its worker keeps, by the types.     *)
LEMMA ForwardType ==
  ASSUME TableOK, IfsOK, OpsOK, WorkOK, NEW w \in Workers, Forward(w)
  PROVE  TableOK' /\ IfsOK' /\ OpsOK' /\ WorkOK'
<1>0. UNCHANGED <<ifvars, routes, lock, ovars, clipped>>
  BY DEF Forward, Decide, ReadIp, Compare, LookUp, Leave
<1>1. TableOK' /\ IfsOK' /\ OpsOK'
  BY <1>0 DEF TableOK, IfsOK, OpsOK, ifvars, ovars
<1>2. 1 \in 1..(Len(ifindex) + 1) /\ 0 \in Addrs /\ FirstIf = 1
  BY IfsAre, AddrsAre DEF FirstIf
<1> SUFFICES WorkOK'
  BY <1>1
<1>3. ASSUME NEW dst \in Dsts, Decide(w, dst) PROVE WorkOK'
  BY <1>2, <1>3, RouteAssumption DEF Decide, WorkOK
<1>4. CASE ReadIp(w)
  BY <1>4 DEF ReadIp, WorkOK, IfsOK
<1>5. CASE Compare(w)
  <2>1. wif[w] \in Ifs /\ wif[w] + 1 \in 1..(Len(ifindex) + 1)
    BY <1>5, IfsAre DEF Compare, WorkOK
  <2> QED
    BY <1>2, <1>5, <2>1 DEF Compare, WorkOK
<1>6. CASE LookUp(w)
  BY <1>6 DEF LookUp, WorkOK
<1>7. CASE Leave(w)
  BY <1>2, <1>7 DEF Leave, WorkOK
<1> QED
  BY <1>1, <1>3, <1>4, <1>5, <1>6, <1>7 DEF Forward
-----------------------------------------------------------------------------
(* The table and the interfaces agree as long as no command touches them.  *)
Synced == ConnectedInSync /\ Deriving

(* A step that touches neither the table nor the interfaces nor a command. *)
LEMMA SyncSame ==
  ASSUME Synced, UNCHANGED <<ifvars, routes, lock, ovars, clipped>>
  PROVE  Synced'
BY DEF Synced, ConnectedInSync, Deriving, Quiet, Clean, ConnectedRoutes, Subnets,
       SubnetsBelow, ifvars, ovars

(* While a command is between its store and its derivation nothing is      *)
(* claimed.                                                                *)
LEMMA SyncBusy ==
  ASSUME NEW o \in Operators, opc'[o] \in {"mask", "derive"}
  PROVE  Synced'
BY DEF Synced, ConnectedInSync, Deriving, Quiet, Clean

(* Passing interface k adds its subnet, if it is usable.                   *)
LEMMA SubnetsGrow ==
  ASSUME NEW k \in Ifs
  PROVE  SubnetsBelow(k + 1) = SubnetsBelow(k) \cup
           IF Usable(k, ip[k], len[k]) THEN {Subnet(k, ip[k], len[k])} ELSE {}
<1> DEFINE B(m) == {j \in Ifs : j < m /\ Usable(j, ip[j], len[j])}
<1>1. \A j \in Ifs : j < k + 1 <=> j < k \/ j = k
  BY IfsAre
<1>2. CASE Usable(k, ip[k], len[k])
  <2>1. B(k + 1) = B(k) \cup {k}
    BY <1>1, <1>2
  <2> QED
    BY <1>2, <2>1, Zenon DEF SubnetsBelow
<1>3. CASE ~ Usable(k, ip[k], len[k])
  <2>1. B(k + 1) = B(k)
    BY <1>1, <1>3
  <2> QED
    BY <1>3, <2>1, Zenon DEF SubnetsBelow
<1> QED
  BY <1>2, <1>3

(* No interface passed, and all of them.                                   *)
LEMMA SubnetsEnds ==
  /\ SubnetsBelow(1) = {}
  /\ SubnetsBelow(Len(ifindex) + 1) = Subnets
  /\ \A k : SubnetsBelow(k) \subseteq Subnets
<1>1. \A j \in Ifs : ~ (j < 1) /\ j < Len(ifindex) + 1
  BY IfsAre
<1>2. {j \in Ifs : j < Len(ifindex) + 1 /\ Usable(j, ip[j], len[j])} = {j \in Ifs : Usable(j, ip[j], len[j])}
  BY <1>1
<1>3. {j \in Ifs : j < 1 /\ Usable(j, ip[j], len[j])} = {}
  BY <1>1
<1>4. SubnetsBelow(1) = {}
  BY <1>3 DEF SubnetsBelow
<1>5. SubnetsBelow(Len(ifindex) + 1) = Subnets
  BY <1>2 DEF SubnetsBelow, Subnets
<1>6. \A k : SubnetsBelow(k) \subseteq Subnets
  BY Zenon DEF SubnetsBelow, Subnets
<1> QED
  BY <1>4, <1>5, <1>6

(* The derivation, step by step.                                           *)
LEMMA DeriveSync ==
  ASSUME TableOK, OpsOK, NEW o \in Operators, Derive(o)
  PROVE  Synced'
<1>1. opc'[o] = "scan" /\ oif'[o] = 1 /\ lock' = o
  BY DEF Derive, OpsOK
<1>2. ConnectedRoutes' = {}
  BY ConnKeep, ConnIs DEF Derive, TableOK
<1>3. SubnetsBelow(1)' = {}
  <2>1. \A j \in Ifs : ~ (j < 1)
    BY IfsAre
  <2> QED
    BY <2>1 DEF SubnetsBelow
<1>4. ~ Quiet'
  BY <1>1 DEF Quiet
<1> QED
  BY <1>1, <1>2, <1>3, <1>4, PlacesAre DEF Synced, ConnectedInSync, Deriving

(* Passing an interface without a route, because it has none to add.       *)
LEMMA PassSync ==
  ASSUME OpsOK, Synced, NEW o \in Operators, opc[o] \in DerivePlaces, oif[o] \in Ifs,
         UNCHANGED <<ifvars, routes, lock>>, NextIf(o),
         ~ Usable(oif[o], ip[oif[o]], len[oif[o]])
  PROVE  Synced'
<1>1. /\ opc'[o] = "scan" /\ oif'[o] = oif[o] + 1 /\ lock = o /\ lock' = lock
      /\ ip' = ip /\ len' = len /\ routes' = routes
  BY DEF NextIf, OpsOK, ifvars
<1>2. Clean' => Clean
  BY PlacesAre DEF Clean, NextIf, OpsOK
<1>3. ~ Quiet'
  BY <1>1 DEF Quiet
<1>4. ConnectedRoutes' = ConnectedRoutes /\ SubnetsBelow(oif[o])' = SubnetsBelow(oif[o] + 1)
  BY <1>1 DEF ConnectedRoutes, SubnetsBelow
<1>5. SubnetsBelow(oif[o] + 1) = SubnetsBelow(oif[o])
  BY SubnetsGrow
<1>6. Clean => ConnectedRoutes = SubnetsBelow(oif[o])
  BY <1>1 DEF Synced, Deriving
<1>7. Clean' => (ConnectedRoutes = SubnetsBelow(oif[o]))'
  BY <1>1, <1>2, <1>4, <1>5, <1>6
<1> QED
  BY <1>1, <1>3, <1>7, PlacesAre DEF Synced, ConnectedInSync, Deriving

(* It tests an interface that nobody changed: what it finds is so.         *)
LEMMA TestSync ==
  ASSUME OpsOK, Synced, NEW o \in Operators, TestIp(o) \/ TestMask(o)
  PROVE  Synced'
<1>1. /\ opc[o] \in DerivePlaces /\ oif[o] \in Ifs /\ UNCHANGED <<ifvars, routes, lock>>
      /\ ip' = ip /\ len' = len /\ lock = o
  BY PlacesAre DEF TestIp, TestMask, DeriveLoad, More, OpsOK, ifvars
<1>2. CASE NextIf(o)
  <2>1. ip[oif[o]] = 0 \/ ~ (ifindex[oif[o]] >= 0) \/ len[oif[o]] = 0
    <3>1. CASE TestIp(o)
      <4>1. opc[o] = "scan" /\ opc'[o] = "scan"
        BY <1>2, <3>1 DEF TestIp, DeriveLoad, NextIf, OpsOK
      <4>2. opc' # [opc EXCEPT ![o] = "test"]
        BY <4>1 DEF OpsOK
      <4> QED
        BY <3>1, <4>2 DEF TestIp
    <3>2. CASE TestMask(o)
      <4>1. opc'[o] = "scan"
        BY <1>2 DEF NextIf, OpsOK
      <4>2. opc' # [opc EXCEPT ![o] = "address"]
        BY <4>1 DEF OpsOK
      <4> QED
        BY <3>2, <4>2 DEF TestMask
    <3> QED
      BY <3>1, <3>2
  <2>2. ~ Usable(oif[o], ip[oif[o]], len[oif[o]])
    BY <2>1 DEF Usable
  <2> QED
    BY <1>1, <1>2, <2>2, PassSync
<1>3. CASE ~ NextIf(o)
  <2>1. \/ /\ opc[o] = "scan" /\ ip[oif[o]] # 0 /\ opc' = [opc EXCEPT ![o] = "test"]
           /\ UNCHANGED <<oif, oip>>
        \/ /\ opc[o] = "test" /\ len[oif[o]] # 0 /\ opc' = [opc EXCEPT ![o] = "address"]
           /\ UNCHANGED <<oif, oip>>
    BY <1>3 DEF TestIp, TestMask, DeriveLoad
  <2>2. opc'[o] \in {"test", "address"} /\ oif' = oif
    BY <2>1 DEF OpsOK
  <2>3. Clean' => Clean
    BY <2>1 DEF Clean, OpsOK
  <2>4. ~ Quiet'
    BY <2>2 DEF Quiet
  <2>5. ConnectedRoutes' = ConnectedRoutes /\ SubnetsBelow(oif[o])' = SubnetsBelow(oif[o])
    BY <1>1, <2>2 DEF ConnectedRoutes, SubnetsBelow
  <2>6. Clean => /\ ConnectedRoutes = SubnetsBelow(oif[o])
                 /\ opc[o] = "test" => ip[oif[o]] # 0
    BY <1>1, PlacesAre DEF Synced, Deriving
  <2>7. Clean' => /\ ip[oif[o]] # 0
                  /\ opc'[o] = "address" => len[oif[o]] # 0
    BY <2>1, <2>3, <2>6 DEF OpsOK
  <2> QED
    BY <1>1, <2>2, <2>3, <2>4, <2>5, <2>6, <2>7, PlacesAre
    DEF Synced, ConnectedInSync, Deriving
<1> QED
  BY <1>2, <1>3

(* It reads an address and a mask, which are those of the interface.       *)
LEMMA DeriveDestSync ==
  ASSUME OpsOK, Synced, NEW o \in Operators, DeriveIp(o) \/ DeriveDest(o)
  PROVE  Synced'
<1>1. /\ oif' = oif /\ lock' = lock /\ lock = o /\ ip' = ip /\ len' = len /\ routes' = routes
      /\ opc[o] \in {"address", "dest"}
  BY PlacesAre DEF DeriveIp, DeriveDest, DeriveLoad, OpsOK, ifvars
<1>2. \/ opc[o] = "address" /\ opc'[o] = "dest" /\ oip'[o] = ip[oif[o]]
      \/ opc[o] = "dest" /\ opc'[o] = "append" /\ oip'[o] = Net(oip[o], len[oif[o]])
  BY DEF DeriveIp, DeriveDest, DeriveLoad, OpsOK
<1>3. Clean' => Clean
  BY <1>2 DEF Clean, DeriveIp, DeriveDest, OpsOK
<1>4. ~ Quiet'
  BY <1>2 DEF Quiet
<1>5. ConnectedRoutes' = ConnectedRoutes /\ SubnetsBelow(oif[o])' = SubnetsBelow(oif[o])
  BY <1>1 DEF ConnectedRoutes, SubnetsBelow
<1>6. Clean => /\ ConnectedRoutes = SubnetsBelow(oif[o])
               /\ ip[oif[o]] # 0 /\ len[oif[o]] # 0
               /\ opc[o] = "dest" => oip[o] = ip[oif[o]]
  BY <1>1, PlacesAre DEF Synced, Deriving
<1> QED
  BY <1>1, <1>2, <1>3, <1>4, <1>5, <1>6, PlacesAre DEF Synced, ConnectedInSync, Deriving

(* It appends the subnet of the interface it passes.                       *)
LEMMA DeriveAppendSync ==
  ASSUME TableOK, IfsOK, OpsOK, Synced, NEW o \in Operators, DeriveAppend(o)
  PROVE  Synced'
<1> DEFINE k == oif[o]
<1>1. /\ opc'[o] = "scan" /\ oif'[o] = k + 1 /\ lock' = lock /\ lock = o /\ ip' = ip /\ len' = len
      /\ opc[o] = "append" /\ k \in Ifs /\ ifindex[k] >= 0
  BY PlacesAre DEF DeriveAppend, DeriveLoad, NextIf, OpsOK, ifvars
<1>2. Clean' => Clean
  BY <1>1, PlacesAre DEF Clean, DeriveAppend, NextIf, OpsOK
<1>3. ~ Quiet'
  BY <1>1 DEF Quiet
<1>4. ASSUME Clean PROVE ConnectedRoutes' = SubnetsBelow(k + 1)
  <2>1. /\ ConnectedRoutes = SubnetsBelow(k) /\ oip[o] = Net(ip[k], len[k])
        /\ ip[k] # 0 /\ len[k] # 0
    BY <1>1, <1>4, PlacesAre DEF Synced, Deriving
  <2>2. ip[k] \in Addrs /\ len[k] \in Lens
    BY <1>1 DEF IfsOK
  <2>3. Usable(k, ip[k], len[k])
    BY <1>1, <2>1 DEF Usable
  <2>4. Subnet(k, ip[k], len[k]) \in RouteSet
    BY <1>1, <2>2, <2>3, SubnetIs
  <2>5. routes' = Append(routes, Entry(Subnet(k, ip[k], len[k]), FALSE))
    BY <2>1 DEF DeriveAppend, Subnet
  <2>6. Conn(routes') = Conn(routes) \cup {Subnet(k, ip[k], len[k])}
    BY <2>4, <2>5, ConnAppend DEF TableOK
  <2>7. SubnetsBelow(k + 1) = SubnetsBelow(k) \cup {Subnet(k, ip[k], len[k])}
    BY <1>1, <2>3, SubnetsGrow
  <2> QED
    BY <2>1, <2>6, <2>7, ConnIs
<1>5. SubnetsBelow(oif[o])' = SubnetsBelow(k + 1)
  BY <1>1, Zenon DEF SubnetsBelow
<1>6. Clean' => (ConnectedRoutes = SubnetsBelow(oif[o]))'
  BY <1>2, <1>4, <1>5
<1> QED
  BY <1>1, <1>3, <1>6, PlacesAre DEF Synced, ConnectedInSync, Deriving

(* It ends with the subnets of all interfaces, or of some if the table is  *)
(* full.                                                                   *)
LEMMA DerivedSync ==
  ASSUME TableOK, OpsOK, Synced, NEW o \in Operators, Derived(o)
  PROVE  Synced'
<1>1. /\ lock' = NoOne /\ lock = o /\ ip' = ip /\ len' = len /\ routes' = routes
      /\ opc[o] = "scan" /\ clipped' = (oif[o] \in Ifs)
      /\ oif[o] \in 1..(Len(ifindex) + 1)
  BY DEF Derived, OpsOK, ifvars
<1>2. Deriving'
  BY <1>1, RouteAssumption DEF Deriving
<1>3. Quiet' => Clean
  BY DEF Derived, OpsOK, Quiet, Clean
<1>4. ConnectedRoutes' = ConnectedRoutes /\ Subnets' = Subnets
  BY <1>1 DEF ConnectedRoutes, Subnets
<1>5. Clean => ConnectedRoutes = SubnetsBelow(oif[o])
  BY <1>1 DEF Synced, Deriving
<1>6. oif[o] \notin Ifs => oif[o] = Len(ifindex) + 1
  BY <1>1, IfsAre
<1>7. ConnectedInSync'
  BY <1>1, <1>3, <1>4, <1>5, <1>6, SubnetsEnds DEF ConnectedInSync
<1> QED
  BY <1>2, <1>7 DEF Synced

(* The commands that change static routes.                                 *)
LEMMA StaticSync ==
  ASSUME OpsOK, Synced, CanLock, UNCHANGED <<ifvars, lock, clipped>>,
         Quiet' => Quiet, ConnectedRoutes' = ConnectedRoutes
  PROVE  Synced'
<1>1. Subnets' = Subnets
  BY DEF Subnets, ifvars
<1>2. ConnectedInSync'
  BY <1>1 DEF Synced, ConnectedInSync
<1>3. Deriving'
  BY RouteAssumption DEF Deriving, CanLock
<1> QED
  BY <1>2, <1>3 DEF Synced

(* route_add leaves the connected routes.                                  *)
LEMMA AddSync ==
  ASSUME TableOK, OpsOK, Synced, NEW o \in Operators, NEW r \in Statics, route_add(o, r)
  PROVE  Synced'
<1>1. ConnectedRoutes' = ConnectedRoutes
  <2>1. r \in RouteSet
    BY RouteAssumption DEF RouteSet
  <2>2. Conn(Append(routes, Entry(r, TRUE))) = Conn(routes)
    BY <2>1, ConnAppend DEF TableOK
  <2>3. routes' = Append(routes, Entry(r, TRUE))
    BY DEF route_add
  <2> QED
    BY <2>2, <2>3, ConnIs
<1>2. CanLock /\ UNCHANGED <<ifvars, lock, clipped>> /\ opc' = opc
  BY DEF route_add, ovars
<1>3. Quiet' => Quiet
  BY <1>2 DEF Quiet
<1> QED
  BY <1>1, <1>2, <1>3, StaticSync

(* So does route_del.                                                      *)
LEMMA DelSync ==
  ASSUME TableOK, OpsOK, Synced, NEW o \in Operators, NEW i \in DOMAIN routes, route_del(o, i)
  PROVE  Synced'
<1>1. ConnectedRoutes' = ConnectedRoutes
  BY ConnRemove, ConnIs DEF route_del, TableOK
<1>2. CanLock /\ UNCHANGED <<ifvars, lock, clipped>> /\ opc' = opc
  BY DEF route_del, ovars
<1>3. Quiet' => Quiet
  BY <1>2 DEF Quiet
<1> QED
  BY <1>1, <1>2, <1>3, StaticSync

(* So does the clearing of the static routes.                              *)
LEMMA ReloadSync ==
  ASSUME TableOK, OpsOK, Synced, NEW o \in Operators, Reload(o)
  PROVE  Synced'
<1>1. ConnectedRoutes' = ConnectedRoutes
  BY ConnKeep, ConnIs DEF Reload, TableOK
<1>2. CanLock /\ UNCHANGED <<ifvars, lock, clipped>>
  BY DEF Reload
<1>3. Quiet' => Quiet
  BY DEF Quiet, Reload, OpsOK
<1> QED
  BY <1>1, <1>2, <1>3, StaticSync

-----------------------------------------------------------------------------
(* What is known of one worker.                                            *)
Decides(w) ==
  /\ wpc[w] \in {"routed", "noroute"} => covered[w] = {}
  /\ wpc[w] \in {"scan", "compare"} =>
       \A i \in covered[w] : /\ i >= wif[w] /\ Covers(i, wdst[w])
                             /\ wpc[w] = "compare" /\ i = wif[w] => wip[w] = ip[i]

(* OnLinkFirst and Deciding are this of every worker.                      *)
LEMMA DecidesAll ==
  /\ OnLinkFirst /\ Deciding <=> \A w \in Workers : Decides(w)
  /\ OnLinkFirst' /\ Deciding' <=> \A w \in Workers : Decides(w)'
BY Zenon DEF OnLinkFirst, Deciding, Decides

(* Other threads' steps: an interface still covered is still as it was.    *)
LEMMA DecidesKept ==
  ASSUME WorkOK, Follow, NEW v \in Workers, Decides(v), wpc'[v] = wpc[v],
         wdst'[v] = wdst[v], wif'[v] = wif[v], wip'[v] = wip[v]
  PROVE  Decides(v)'
<1>1. CASE wpc[v] = "idle"
  BY <1>1 DEF Decides
<1>2. CASE wpc[v] # "idle"
  <2>1. covered'[v] = {i \in covered[v] : Same(i)}
    BY <1>2 DEF Follow
  <2>2. \A i \in covered'[v] : i \in covered[v] /\ ip'[i] = ip[i] /\ len'[i] = len[i]
    BY <2>1 DEF Same
  <2> QED
    BY <2>2 DEF Decides, Covers
<1> QED
  BY <1>1, <1>2

(* The worker's own step: an interface it cannot miss is never passed      *)
(* over.                                                                   *)
LEMMA ForwardDecides ==
  ASSUME WorkOK, covered \in [Workers -> SUBSET Ifs], Follow,
         NEW w \in Workers, Forward(w), Decides(w)
  PROVE  Decides(w)'
<1>1. ip' = ip /\ len' = len
  BY DEF Forward, Decide, ReadIp, Compare, LookUp, Leave, ifvars
<1>2. wpc[w] # "idle" /\ wpc'[w] # "idle" => covered'[w] \subseteq covered[w]
  BY DEF Follow
<1>3. ASSUME NEW dst \in Dsts, Decide(w, dst) PROVE Decides(w)'
  <2>1. wpc[w] = "idle" /\ wpc'[w] = "scan" /\ wif'[w] = 1
    BY <1>3 DEF Decide, WorkOK, FirstIf
  <2>2. covered'[w] = {i \in Ifs : Covers(i, wdst'[w])}
    BY <2>1 DEF Follow
  <2>3. \A i \in Ifs : i >= 1
    BY IfsAre
  <2> QED
    BY <1>1, <2>1, <2>2, <2>3 DEF Decides, Covers
<1>4. CASE ReadIp(w)
  <2>1. /\ wpc[w] = "scan" /\ wpc'[w] = "compare" /\ wif'[w] = wif[w] /\ wdst'[w] = wdst[w]
        /\ wip'[w] = ip[wif[w]]
    BY <1>4 DEF ReadIp, WorkOK
  <2> QED
    BY <1>1, <1>2, <2>1 DEF Decides, Covers
<1>5. CASE Compare(w)
  <2> DEFINE l == len[wif[w]]
  <2>1. wpc[w] = "compare" /\ wdst'[w] = wdst[w] /\ wif[w] \in Ifs
    BY <1>5 DEF Compare, WorkOK
  <2>2. CASE wip[w] # 0 /\ Net(wdst[w], l) = Net(wip[w], l)
    <3>1. wpc'[w] = "onlink"
      BY <1>5, <2>2 DEF Compare, WorkOK
    <3> QED
      BY <3>1 DEF Decides
  <2>3. CASE ~ (wip[w] # 0 /\ Net(wdst[w], l) = Net(wip[w], l))
    <3>1. wpc'[w] = "scan" /\ wif'[w] = wif[w] + 1
      BY <1>5, <2>3 DEF Compare, WorkOK
    <3>2. wif[w] \notin covered[w]
      BY <2>1, <2>3 DEF Decides, Covers
    <3>3. ASSUME NEW i \in covered[w] PROVE i >= wif[w] + 1
      <4>1. i >= wif[w] /\ i # wif[w]
        BY <2>1, <3>2 DEF Decides
      <4>2. i \in Nat /\ wif[w] \in Nat
        BY <2>1, IfsAre
      <4> QED
        BY <4>1, <4>2
    <3>4. \A i \in covered[w] : Covers(i, wdst[w])
      BY <2>1 DEF Decides
    <3> QED
      BY <1>1, <1>2, <2>1, <3>1, <3>3, <3>4 DEF Decides, Covers
  <2> QED
    BY <2>2, <2>3
<1>6. CASE LookUp(w)
  <2>1. /\ wpc[w] = "scan" /\ wif[w] \notin Ifs /\ wpc'[w] \in {"noroute", "routed"}
        /\ wif[w] \in 1..(Len(ifindex) + 1)
    BY <1>6 DEF LookUp, WorkOK
  <2>2. \A i \in covered[w] : i \in Ifs /\ i >= wif[w]
    BY <2>1 DEF Decides
  <2>3. covered[w] = {}
    BY <2>1, <2>2, IfsAre
  <2> QED
    BY <1>2, <2>1, <2>3 DEF Decides
<1>7. CASE Leave(w)
  BY <1>7 DEF Leave, WorkOK, Decides
<1> QED
  BY <1>3, <1>4, <1>5, <1>6, <1>7 DEF Forward

(* It changes nothing that another worker keeps.                           *)
LEMMA ForwardOthers ==
  ASSUME WorkOK, NEW w \in Workers, Forward(w), NEW v \in Workers, v # w
  PROVE  wpc'[v] = wpc[v] /\ wdst'[v] = wdst[v] /\ wif'[v] = wif[v] /\ wip'[v] = wip[v]
BY DEF Forward, Decide, ReadIp, Compare, LookUp, Leave, WorkOK
-----------------------------------------------------------------------------
(* What the threads find when they start.                                  *)
LEMMA RouteStart == Init => RouteInv
<1> SUFFICES ASSUME Init PROVE RouteInv
  OBVIOUS
<1>1. IfsOK
  <2>1. PICK found \in Found : /\ ip = [i \in Ifs |-> found[i].ip]
                               /\ len = [i \in Ifs |-> found[i].len]
    BY DEF Init
  <2>2. \A i \in Ifs : found[i] \in [ip : Addrs \ {0}, len : Lens]
    BY RouteAssumption DEF Found
  <2> QED
    BY <2>1, <2>2 DEF IfsOK
<1> DEFINE t == [i \in Ifs |-> Entry(Subnet(i, ip[i], len[i]), FALSE)]
           P == {i \in Ifs : Usable(i, ip[i], len[i])}
<1>2. Len(t) = Len(ifindex) /\ Len(t) \in Nat
  <2> DEFINE Y == {t[i] : i \in Ifs}
  <2>1. t \in [1..Len(ifindex) -> Y] /\ Len(ifindex) \in Nat
    BY IfsAre
  <2>2. t \in Seq(Y) /\ DOMAIN t = 1..Len(ifindex)
    <3> HIDE DEF t, Y
    <3> QED
      BY <2>1
  <2> HIDE DEF t, Y
  <2> QED
    BY <2>1, <2>2
<1>3. \A i \in Ifs : i \in P => t[i] \in EntrySet /\ t[i].route = Subnet(i, ip[i], len[i]) /\ Connected(t[i])
  BY <1>1, SubnetIs, EntryIs DEF IfsOK
<1>4. routes = Keep(t, P)
  BY DEF Init
<1>5. /\ routes \in Seq(EntrySet) /\ Len(routes) <= Len(ifindex)
      /\ Elems(routes) = {t[k] : k \in {j \in Ifs : j \in P}}
  <2> HIDE DEF t, P
  <2> QED
    BY <1>2, <1>3, <1>4, KeepIs, IfsAre
<1>6. TableOK
  <2>1. Len(routes) \in Nat
    BY <1>5
  <2> QED
    BY <1>5, <2>1, IfsAre, RouteAssumption DEF TableOK
<1>7. OpsOK /\ WorkOK /\ covered \in [Workers -> SUBSET Ifs]
  <2>1. 0 \in Addrs /\ 1 \in 1..(Len(ifindex) + 1) /\ NoOne \notin Operators
    BY AddrsAre, IfsAre, RouteAssumption
  <2> QED
    BY <2>1, PlacesAre DEF Init, OpsOK, WorkOK
<1>8. ConnectedRoutes = Subnets
  <2>1. {x \in Elems(routes) : Connected(x)} = {t[k] : k \in P}
    <3> HIDE DEF t
    <3> QED
      BY <1>3, <1>5
  <2>2. Conn(routes) = {t[k].route : k \in P}
    <3> HIDE DEF t, P
    <3> QED
      BY <2>1, Zenon DEF Conn
  <2>3. {t[k].route : k \in P} = {Subnet(k, ip[k], len[k]) : k \in P}
    <3> HIDE DEF t
    <3> QED
      BY <1>3
  <2> QED
    BY <2>2, <2>3, ConnIs DEF Subnets
<1>9. ConnectedInSync
  BY <1>8 DEF ConnectedInSync
<1>10. Deriving
  BY RouteAssumption DEF Deriving, Init
<1>11. OnLinkFirst /\ Deciding
  BY DEF OnLinkFirst, Deciding, Init
<1> QED
  BY <1>1, <1>6, <1>7, <1>9, <1>10, <1>11, TypeParts DEF RouteInv

(* A command's step keeps the invariant of the table.                      *)
LEMMA OperateKeeps ==
  ASSUME TableOK, IfsOK, OpsOK, WorkOK, Synced, NEW o \in Operators,
         OperateIfs(o) \/ OperateRoutes(o)
  PROVE  /\ TableOK' /\ IfsOK' /\ OpsOK' /\ WorkOK' /\ Synced'
         /\ UNCHANGED wvars
<1> DEFINE Goal == /\ TableOK' /\ IfsOK' /\ OpsOK' /\ WorkOK' /\ Synced' /\ UNCHANGED wvars
<1> SUFFICES Goal
  OBVIOUS
<1>1. ASSUME NEW i \in Ifs, NEW a \in Addrs, NEW l \in Lens, SetIp(o, i, a, l) PROVE Goal
  <2>1. opc'[o] = "mask" /\ UNCHANGED wvars
    BY <1>1 DEF SetIp, OpsOK
  <2> QED
    BY <1>1, <2>1, SetIpType, SyncBusy
<1>2. CASE \E i \in Ifs, s \in Setups : SetIp(o, i, s.ip, s.len)
  <2>1. PICK i \in Ifs, s \in Setups : SetIp(o, i, s.ip, s.len)
    BY <1>2
  <2>2. s.ip \in Addrs /\ s.len \in Lens
    BY RouteAssumption
  <2> QED
    BY <1>1, <2>1, <2>2
<1>3. CASE \E i \in Ifs : SetIp(o, i, 0, 0)
  BY <1>1, <1>3, AddrsAre
<1>4. CASE SetMask(o)
  <2>1. opc'[o] = "derive" /\ UNCHANGED wvars
    BY <1>4 DEF SetMask, OpsOK
  <2> QED
    BY <1>4, <2>1, SetMaskType, SyncBusy
<1>5. CASE Derive(o)
  <2>1. UNCHANGED wvars
    BY <1>5 DEF Derive
  <2> QED
    BY <1>5, <2>1, DeriveType, DeriveSync
<1>t. CASE TestIp(o)
  <2>1. UNCHANGED wvars
    BY <1>t DEF TestIp, DeriveLoad
  <2> QED
    BY <1>t, <2>1, TestIpType, TestSync
<1>m. CASE TestMask(o)
  <2>1. UNCHANGED wvars
    BY <1>m DEF TestMask, DeriveLoad
  <2> QED
    BY <1>m, <2>1, TestMaskType, TestSync
<1>6. CASE DeriveIp(o) \/ DeriveDest(o)
  <2>1. UNCHANGED wvars
    BY <1>6 DEF DeriveIp, DeriveDest, DeriveLoad
  <2> QED
    BY <1>6, <2>1, DeriveDestType, DeriveDestSync
<1>7. CASE DeriveAppend(o)
  <2>1. UNCHANGED wvars
    BY <1>7 DEF DeriveAppend, DeriveLoad
  <2> QED
    BY <1>7, <2>1, DeriveAppendType, DeriveAppendSync
<1>8. CASE Derived(o)
  <2>1. UNCHANGED wvars
    BY <1>8 DEF Derived
  <2> QED
    BY <1>8, <2>1, DerivedType, DerivedSync
<1>9. ASSUME NEW r \in Statics, route_add(o, r) PROVE Goal
  <2>1. UNCHANGED wvars
    BY <1>9 DEF route_add
  <2> QED
    BY <1>9, <2>1, AddType, AddSync
<1>10. ASSUME NEW i \in DOMAIN routes, route_del(o, i) PROVE Goal
  <2>1. UNCHANGED wvars
    BY <1>10 DEF route_del
  <2> QED
    BY <1>10, <2>1, DelType, DelSync
<1>11. CASE Reload(o)
  <2>1. UNCHANGED wvars
    BY <1>11 DEF Reload
  <2> QED
    BY <1>11, <2>1, ReloadType, ReloadSync
<1>12. CASE Loaded(o)
  <2>1. opc'[o] = "derive" /\ UNCHANGED wvars
    BY <1>12 DEF Loaded, OpsOK
  <2> QED
    BY <1>12, <2>1, LoadedType, SyncBusy
<1> HIDE DEF Goal
<1> QED
  BY <1>2, <1>3, <1>4, <1>5, <1>t, <1>m, <1>6, <1>7, <1>8, <1>9, <1>10, <1>11, <1>12
     DEF OperateIfs, OperateRoutes

(* Every step keeps the invariant of the route table.                      *)
LEMMA RouteStep == RouteInv /\ [Next]_vars => RouteInv'
<1> SUFFICES ASSUME RouteInv, [Next]_vars PROVE RouteInv'
  OBVIOUS
<1>1. /\ TableOK /\ IfsOK /\ OpsOK /\ WorkOK /\ covered \in [Workers -> SUBSET Ifs]
      /\ Synced /\ TypeOK
  BY TypeParts DEF RouteInv, Synced
<1>2. \A w \in Workers : Decides(w)
  BY DecidesAll DEF RouteInv
<1>3. ASSUME Follow PROVE covered' \in [Workers -> SUBSET Ifs]
  BY <1>1, <1>3, FollowType
<1>4. ASSUME NEW o \in Operators, OperateIfs(o) \/ OperateRoutes(o), Follow PROVE RouteInv'
  <2>1. TableOK' /\ IfsOK' /\ OpsOK' /\ WorkOK' /\ Synced' /\ UNCHANGED wvars
    BY <1>1, <1>4, OperateKeeps
  <2>2. \A w \in Workers : Decides(w)'
    BY <1>1, <1>2, <1>4, <2>1, DecidesKept DEF wvars
  <2> QED
    BY <1>3, <1>4, <2>1, <2>2, TypeParts, DecidesAll DEF RouteInv, Synced
<1>5. ASSUME NEW w \in Workers, Forward(w), Follow PROVE RouteInv'
  <2>1. TableOK' /\ IfsOK' /\ OpsOK' /\ WorkOK'
    BY <1>1, <1>5, ForwardType
  <2>2. UNCHANGED <<ifvars, routes, lock, ovars, clipped>>
    BY <1>5 DEF Forward, Decide, ReadIp, Compare, LookUp, Leave
  <2>3. Synced'
    BY <1>1, <2>2, SyncSame
  <2>4. Decides(w)'
    BY <1>1, <1>2, <1>5, ForwardDecides
  <2>5. ASSUME NEW v \in Workers, v # w PROVE Decides(v)'
    BY <1>1, <1>2, <1>5, <2>5, ForwardOthers, DecidesKept
  <2>6. \A v \in Workers : Decides(v)'
    BY <2>4, <2>5
  <2> QED
    BY <1>3, <1>5, <2>1, <2>3, <2>6, TypeParts, DecidesAll DEF RouteInv, Synced
<1>6. CASE UNCHANGED vars
  <2>1. TableOK' /\ IfsOK' /\ OpsOK' /\ WorkOK' /\ covered' \in [Workers -> SUBSET Ifs]
    BY <1>1, <1>6 DEF vars, ifvars, ovars, wvars, TableOK, IfsOK, OpsOK, WorkOK
  <2>2. Synced'
    BY <1>1, <1>6, SyncSame DEF vars
  <2>3. OnLinkFirst' /\ Deciding'
    BY <1>6 DEF RouteInv, OnLinkFirst, Deciding, Covers, vars, ifvars, wvars
  <2> QED
    BY <2>1, <2>2, <2>3, TypeParts DEF RouteInv, Synced
<1> QED
  BY <1>4, <1>5, <1>6 DEF Next

(* So the invariant of the route table always holds.                       *)
LEMMA RouteSafe == Spec => []RouteInv
<1> QED
  BY RouteStart, RouteStep, PTL DEF Spec

(* TypeOK for every number of interfaces, threads, routes and bits: the    *)
(* table keeps within MAX_ROUTE, though route_derive_connected appends     *)
(* after a check of its own, and only a thread that derives holds the      *)
(* lock.                                                                   *)
THEOREM TypeCorrect == Spec => []TypeOK
<1>1. RouteInv => TypeOK
  BY DEF RouteInv
<1> QED
  BY <1>1, RouteSafe, PTL

(* route_derive_connected and the unlocked stores of setip and delip: once *)
(* no command is in progress the connected routes are those of the         *)
(* interfaces, in whatever order commands stored and derived.              *)
THEOREM InSync == Spec => []ConnectedInSync
<1>1. RouteInv => ConnectedInSync
  BY DEF RouteInv
<1> QED
  BY <1>1, RouteSafe, PTL

(* Step 4 of forward_task: a frame for a subnet that stays configured is   *)
(* neither given to a gateway nor dropped, whatever is stored in other     *)
(* interfaces while the worker scans them without a lock.                  *)
THEOREM OnLinkWins == Spec => []OnLinkFirst
<1>1. RouteInv => OnLinkFirst
  BY DEF RouteInv
<1> QED
  BY <1>1, RouteSafe, PTL
-----------------------------------------------------------------------------
(* Entry i matches dst, and the length route_lookup gives it.              *)
Match(i, dst) == Net(dst, routes[i].route.len) = routes[i].route.dest
Length(i) == IF i = 0 THEN -1 ELSE prefix_len(routes[i].route.len)

(* b is the best of the first k entries for dst.                           *)
Best(b, k, dst) ==
  /\ b \in 0..k
  /\ b # 0 => Match(b, dst)
  /\ \A i \in 1..k : Match(i, dst) => b # 0 /\ Length(i) <= Length(b)

(* route_lookup's loop keeps the best entry so far.                        *)
LEMMA LookupIs ==
  ASSUME TypeOK, NEW dst, \A i \in DOMAIN routes : Length(i) \in Nat
  PROVE  Best(Lookup(dst), Len(routes), dst)
<1> DEFINE N == Len(routes)
           F == [k \in 1..N |-> [b \in 0..N |-> IF Match(k, dst) /\ Length(k) > Length(b) THEN k ELSE b]]
<1>0. DOMAIN routes = 1..N
  BY TypeIs
<1>1. N \in Nat /\ 0 \in 0..N
  BY TypeIs
<1>2. F \in [1..N -> [0..N -> 0..N]]
  BY <1>1
<1>3. PICK f : Loop(N, 0..N, 0, F, f)
  <2> HIDE DEF F, N
  <2> QED
    BY <1>1, <1>2, LoopRuns
<1>4. \A k \in 1..N : k \in 0..N /\ k # 0 /\ k - 1 \in 0..N
  BY <1>1
<1>5. f \in [0..N -> 0..N] /\ f[0] = 0
  BY <1>3 DEF Loop
<1>6. ASSUME NEW k \in 1..N
      PROVE f[k] = IF Match(k, dst) /\ Length(k) > Length(f[k - 1]) THEN k ELSE f[k - 1]
  <2>1. f[k - 1] \in 0..N
    BY <1>4, <1>5
  <2> QED
    BY <1>3, <2>1 DEF Loop
<1> DEFINE Step(g) == [k \in 0..N |-> IF k = 0 THEN 0
                          ELSE IF Match(k, dst) /\ Length(k) > Length(g[k - 1]) THEN k ELSE g[k - 1]]
<1>7. f = Step(f)
  <2> DEFINE g == Step(f)
  <2>1. ASSUME NEW k \in 0..N PROVE f[k] = g[k]
    <3>1. CASE k = 0
      BY <1>5, <3>1
    <3>2. CASE k # 0
      <4>1. k \in 1..N
        BY <1>1, <3>2
      <4> QED
        BY <1>6, <3>2, <4>1
    <3> QED
      BY <3>1, <3>2
  <2>2. DOMAIN f = 0..N /\ DOMAIN g = 0..N
    BY <1>5
  <2> QED
    BY <1>5, <2>1, <2>2
<1> DEFINE best == CHOOSE g : g = Step(g)
<1>8. best = Step(best)
  <2> HIDE DEF Step
  <2> QED
    BY <1>7
<1>9. Lookup(dst) = best[N]
  BY Zenon DEF Lookup, Match, Length
<1> HIDE DEF best, F
<1> DEFINE S == {k \in 0..N : Best(best[k], k, dst)}
<1>10. 0 \in S
  <2>1. best[0] = 0
    BY <1>1, <1>8
  <2> QED
    BY <1>1, <2>1 DEF Best
<1>11. ASSUME NEW k \in 1..N, k - 1 \in S PROVE k \in S
  <2> DEFINE b == best[k - 1]
  <2>1. /\ b \in 0..(k - 1)
        /\ b # 0 => Match(b, dst)
        /\ \A i \in 1..(k - 1) : Match(i, dst) => b # 0 /\ Length(i) <= Length(b)
    BY <1>11 DEF Best
  <2>2. best[k] = IF Match(k, dst) /\ Length(k) > Length(b) THEN k ELSE b
    BY <1>4, <1>8
  <2>3. \A i \in 1..k : i \in 1..(k - 1) \/ i = k
    BY <1>1
  <2>4. \A i \in 1..k : Length(i) \in Nat
    BY <1>0, <1>1
  <2>5. Length(b) \in Int /\ (b = 0 => Length(b) = -1)
    <3>1. CASE b = 0
      BY <3>1 DEF Length
    <3>2. CASE b # 0
      <4>1. b \in 1..k
        BY <1>1, <2>1, <3>2
      <4>2. Length(b) \in Nat
        BY <2>4, <4>1
      <4> HIDE DEF b
      <4> QED
        BY <3>2, <4>2
    <3> QED
      BY <3>1, <3>2
  <2>6. Best(best[k], k, dst)
    <3>1. CASE Match(k, dst) /\ Length(k) > Length(b)
      <4>1. best[k] = k
        BY <2>2, <3>1
      <4>2. \A i \in 1..k : Match(i, dst) => Length(i) <= Length(k)
        BY <2>1, <2>3, <2>4, <2>5, <3>1
      <4> QED
        BY <1>4, <3>1, <4>1, <4>2 DEF Best
    <3>2. CASE ~ (Match(k, dst) /\ Length(k) > Length(b))
      <4>1. best[k] = b
        BY <2>2, <3>2
      <4>2. Match(k, dst) => b # 0 /\ Length(k) <= Length(b)
        BY <2>4, <2>5, <3>2
      <4>3. \A i \in 1..k : Match(i, dst) => b # 0 /\ Length(i) <= Length(b)
        BY <2>1, <2>3, <4>2
      <4>4. b \in 0..k
        BY <1>1, <2>1
      <4> QED
        BY <2>1, <4>1, <4>3, <4>4, Zenon DEF Best
    <3> QED
      BY <3>1, <3>2
  <2> QED
    BY <1>4, <2>6
<1>12. 0..N \subseteq S
  <2> HIDE DEF S, N
  <2> QED
    BY <1>1, <1>10, <1>11, Climb
<1>13. N \in 0..N
  BY <1>1
<1> QED
  BY <1>9, <1>12, <1>13

(* Where the compiler's value for a full mask is no shorter than a mask,   *)
(* the lengths route_lookup compares are in the order of the prefixes.     *)
LEMMA LookupLongest == TypeOK /\ ClzOfZero >= W => LongestPrefix
<1> SUFFICES ASSUME TypeOK, ClzOfZero >= W, NEW dst \in Addrs
             PROVE  IF Matches(dst) = {} THEN Lookup(dst) = 0
                    ELSE /\ Lookup(dst) \in Matches(dst)
                         /\ \A i \in Matches(dst) : routes[i].route.len <= routes[Lookup(dst)].route.len
  BY DEF LongestPrefix
<1>1. /\ W \in Nat /\ ClzOfZero \in Int
      /\ \A l \in Lens : prefix_len(l) \in Nat
      /\ \A l, m \in Lens : prefix_len(l) <= prefix_len(m) => l <= m
  BY CidrAssumption DEF Lens, prefix_len
<1>2. \A i \in DOMAIN routes : routes[i].route.len \in Lens
  <2>1. routes \in Seq(EntrySet)
    BY TypeIs
  <2>2. \A i \in DOMAIN routes : routes[i] \in EntrySet
    BY <2>1
  <2> QED
    BY <2>2 DEF EntrySet, RouteSet
<1>3. Len(routes) \in Nat /\ DOMAIN routes = 1..Len(routes)
  BY TypeIs
<1>4. \A i \in DOMAIN routes : Length(i) = prefix_len(routes[i].route.len) /\ Length(i) \in Nat
  BY <1>1, <1>2, <1>3 DEF Length
<1>5. Best(Lookup(dst), Len(routes), dst)
  BY <1>4, LookupIs
<1>6. Matches(dst) = {i \in 1..Len(routes) : Match(i, dst)}
  BY <1>3 DEF Matches, Match
<1>7. CASE Lookup(dst) = 0
  BY <1>5, <1>6, <1>7 DEF Best
<1>8. CASE Lookup(dst) # 0
  <2>1. Lookup(dst) \in DOMAIN routes /\ Match(Lookup(dst), dst)
    BY <1>3, <1>5, <1>8 DEF Best
  <2>2. \A i \in Matches(dst) : i \in DOMAIN routes /\ Length(i) <= Length(Lookup(dst))
    BY <1>3, <1>5, <1>6 DEF Best
  <2>3. \A i \in Matches(dst) : routes[i].route.len <= routes[Lookup(dst)].route.len
    BY <1>1, <1>2, <1>4, <2>1, <2>2
  <2> QED
    BY <1>3, <1>6, <2>1, <2>3
<1> QED
  BY <1>7, <1>8

(* route_lookup finds a match if there is one, and none is longer, in      *)
(* every table that commands can make.  The hypothesis is on the value of  *)
(* __builtin_clz(0), by which the code measures a full mask: run           *)
(* host_route shows that without it the claim is false.                    *)
THEOREM LongestWins == ClzOfZero >= W => (Spec => []LongestPrefix)
<1> SUFFICES ASSUME ClzOfZero >= W PROVE Spec => []LongestPrefix
  OBVIOUS
<1>1. RouteInv => LongestPrefix
  BY LookupLongest DEF RouteInv
<1> QED
  BY <1>1, RouteSafe, PTL
-----------------------------------------------------------------------------
(* acc[k] is the first k sequences of q, joined.                           *)
Joins(q, X, acc) == /\ acc \in [0..Len(q) -> Seq(X)]
                    /\ acc[0] = << >>
                    /\ \A k \in 1..Len(q) : acc[k] = acc[k - 1] \o q[k]

(* FlattenSeq joins them from the first to the last.                       *)
LEMMA FlatIs ==
  ASSUME NEW X, NEW q \in Seq(Seq(X))
  PROVE  \E acc : Joins(q, X, acc) /\ FlattenSeq(q) = acc[Len(q)]
<1> DEFINE N == Len(q)
           F == [k \in 1..N |-> [s \in Seq(X) |-> s \o q[k]]]
<1>1. N \in Nat /\ DOMAIN q = 1..N /\ \A k \in 1..N : q[k] \in Seq(X)
  OBVIOUS
<1>2. << >> \in Seq(X) /\ F \in [1..N -> [Seq(X) -> Seq(X)]]
  BY <1>1
<1>3. PICK acc : Loop(N, Seq(X), << >>, F, acc)
  <2> HIDE DEF F, N
  <2> QED
    BY <1>1, <1>2, LoopRuns
<1>4. acc \in [0..N -> Seq(X)] /\ acc[0] = << >>
  BY <1>3 DEF Loop
<1>5. \A k \in 1..N : k \in 0..N /\ k # 0 /\ k - 1 \in 0..N
  BY <1>1
<1>6. ASSUME NEW k \in 1..N PROVE acc[k] = acc[k - 1] \o q[k]
  <2>1. acc[k - 1] \in Seq(X)
    BY <1>4, <1>5
  <2> QED
    BY <1>3, <2>1 DEF Loop
<1>7. Joins(q, X, acc)
  BY <1>4, <1>6 DEF Joins
<1> HIDE DEF F
<1>8. CASE N = 0
  <2>1. q = << >> /\ FlattenSeq(q) = q
    BY <1>8 DEF FlattenSeq
  <2> QED
    BY <1>4, <1>7, <1>8, <2>1
<1>9. CASE N # 0
  <2> DEFINE Step(g) == [k \in 1..N |-> IF k = 1 THEN q[k] ELSE g[k - 1] \o q[k]]
             f == [k \in 1..N |-> acc[k]]
             flatten == CHOOSE g : g = Step(g)
  <2>0. 1 \in 1..N /\ N \in 1..N
    BY <1>1, <1>9
  <2>1. ASSUME NEW k \in 1..N PROVE f[k] = IF k = 1 THEN q[k] ELSE f[k - 1] \o q[k]
    <3>1. CASE k = 1
      <4>1. acc[k - 1] = << >>
        BY <1>4, <3>1
      <4>2. acc[k] = << >> \o q[k] /\ q[k] \in Seq(X)
        BY <1>1, <1>6, <4>1
      <4>3. << >> \o q[k] = q[k]
        BY <4>2
      <4> QED
        BY <3>1, <4>2, <4>3
    <3>2. CASE k # 1
      <4>1. k - 1 \in 1..N
        BY <1>1, <3>2
      <4> QED
        BY <1>6, <3>2, <4>1
    <3> QED
      BY <3>1, <3>2
  <2>2. f = Step(f)
    <3> DEFINE h == Step(f)
    <3>1. DOMAIN h = 1..N /\ DOMAIN f = 1..N /\ \A k \in 1..N : f[k] = h[k]
      BY <2>1
    <3> QED
      BY <3>1
  <2>3. flatten = Step(flatten)
    <3> HIDE DEF Step, f
    <3> QED
      BY <2>2
  <2>4. FlattenSeq(q) = flatten[N]
    BY <1>9, Zenon DEF FlattenSeq
  <2> HIDE DEF flatten, f
  <2> DEFINE S == {k \in 0..N : k = 0 \/ flatten[k] = acc[k]}
  <2>5. 0 \in S
    BY <1>1
  <2>6. ASSUME NEW k \in 1..N, k - 1 \in S PROVE k \in S
    <3>1. flatten[k] = IF k = 1 THEN q[k] ELSE flatten[k - 1] \o q[k]
      BY <2>3
    <3>2. CASE k = 1
      <4>1. acc[k - 1] = << >>
        BY <1>4, <3>2
      <4>2. acc[k] = << >> \o q[k] /\ q[k] \in Seq(X)
        BY <1>1, <1>6, <4>1
      <4>3. << >> \o q[k] = q[k]
        BY <4>2
      <4> QED
        BY <1>5, <3>1, <3>2, <4>2, <4>3
    <3>3. CASE k # 1
      <4>1. k - 1 # 0
        BY <1>1, <3>3
      <4>2. flatten[k - 1] = acc[k - 1]
        BY <2>6, <4>1
      <4> QED
        BY <1>5, <1>6, <3>1, <3>3, <4>2
    <3> QED
      BY <3>2, <3>3
  <2>7. 0..N \subseteq S
    <3> HIDE DEF S, N
    <3> QED
      BY <1>1, <2>5, <2>6, Climb
  <2>8. flatten[N] = acc[N]
    BY <1>5, <1>9, <2>0, <2>7
  <2> QED
    BY <1>7, <2>4, <2>8
<1> QED
  BY <1>8, <1>9

(* q and r begin with the same m elements.                                 *)
Agree(q, r, m) == m <= Len(q) /\ m <= Len(r) /\ \A k \in 1..m : q[k] = r[k]

(* There is one way to join them.                                          *)
LEMMA JoinsSame ==
  ASSUME NEW X, NEW q \in Seq(Seq(X)), NEW r \in Seq(Seq(X)), NEW m \in Nat,
         Agree(q, r, m),
         NEW acc, Joins(q, X, acc), NEW add, Joins(r, X, add)
  PROVE  acc[m] = add[m]
<1> DEFINE S == {k \in 0..m : acc[k] = add[k]}
<1>1. 0 \in S
  BY DEF Joins
<1>2. ASSUME NEW k \in 1..m, k - 1 \in S PROVE k \in S
  <2>1. k \in 1..Len(q) /\ k \in 1..Len(r) /\ k \in 0..m
    BY DEF Agree
  <2>2. acc[k] = acc[k - 1] \o q[k] /\ add[k] = add[k - 1] \o r[k] /\ q[k] = r[k]
    BY <2>1 DEF Joins, Agree
  <2>3. acc[k - 1] = add[k - 1]
    BY <1>2
  <2> QED
    BY <2>1, <2>2, <2>3
<1>3. 0..m \subseteq S
  <2> HIDE DEF S
  <2> QED
    BY <1>1, <1>2, Climb
<1> QED
  BY <1>3

(* One sequence more at the end.                                           *)
LEMMA FlatAppend ==
  ASSUME NEW X, NEW q \in Seq(Seq(X)), NEW s \in Seq(X)
  PROVE  FlattenSeq(Append(q, s)) = FlattenSeq(q) \o s
<1> DEFINE r == Append(q, s)
           m == Len(q)
<1>1. r \in Seq(Seq(X)) /\ Len(r) = m + 1 /\ m \in Nat /\ r[m + 1] = s /\ \A k \in 1..m : r[k] = q[k]
  OBVIOUS
<1> HIDE DEF r
<1>2. PICK acc : Joins(q, X, acc) /\ FlattenSeq(q) = acc[m]
  BY FlatIs
<1>3. PICK add : Joins(r, X, add) /\ FlattenSeq(r) = add[m + 1]
  BY <1>1, FlatIs
<1>4. acc[m] = add[m]
  <2>1. Agree(q, r, m)
    BY <1>1 DEF Agree
  <2> HIDE DEF m
  <2> QED
    BY <1>1, <1>2, <1>3, <2>1, JoinsSame
<1>5. add[m + 1] = add[m] \o s
  <2>1. m + 1 \in 1..Len(r) /\ (m + 1) - 1 = m
    BY <1>1
  <2> QED
    BY <1>1, <1>3, <2>1 DEF Joins
<1> QED
  BY <1>2, <1>3, <1>4, <1>5 DEF r

(* Joining gives a sequence of the elements; of none, the empty one.       *)
LEMMA FlatType ==
  ASSUME NEW X, NEW q \in Seq(Seq(X))
  PROVE  FlattenSeq(q) \in Seq(X) /\ (q = << >> => FlattenSeq(q) = << >>)
<1>1. PICK acc : Joins(q, X, acc) /\ FlattenSeq(q) = acc[Len(q)]
  BY FlatIs
<1>2. Len(q) \in 0..Len(q) /\ (q = << >> => Len(q) = 0)
  OBVIOUS
<1> QED
  BY <1>1, <1>2 DEF Joins

(* Joining nothing to a sequence.                                          *)
LEMMA ConcatNone ==
  ASSUME NEW X, NEW s \in Seq(X)
  PROVE  s \o << >> = s /\ << >> \o s = s
BY SMTT(30)

(* The first, and the rest joined.                                         *)
LEMMA FlatFirst ==
  ASSUME NEW X, NEW q \in Seq(Seq(X)), q # << >>
  PROVE  FlattenSeq(q) = q[1] \o FlattenSeq(RemoveAt(q, 1))
<1> DEFINE r == RemoveAt(q, 1)
           m == Len(q) - 1
<1>0. 1 \in DOMAIN q /\ Len(q) \in Nat /\ q[1] \in Seq(X) /\ m \in Nat /\ Len(q) = m + 1
  OBVIOUS
<1>1. r \in Seq(Seq(X)) /\ Len(r) = m /\ \A k \in 1..m : r[k] = q[k + 1]
  <2>1. /\ r \in Seq(Seq(X)) /\ Len(r) = Len(q) - 1
        /\ \A k \in 1..(Len(q) - 1) : r[k] = IF k < 1 THEN q[k] ELSE q[k + 1]
    BY <1>0, RemoveIs
  <2>2. \A k \in 1..m : ~ (k < 1)
    OBVIOUS
  <2> HIDE DEF r
  <2> QED
    BY <1>0, <2>1, <2>2
<1> HIDE DEF r, m
<1>2. PICK acc : Joins(q, X, acc) /\ FlattenSeq(q) = acc[m + 1]
  BY <1>0, FlatIs
<1>3. PICK add : Joins(r, X, add) /\ FlattenSeq(r) = add[m]
  BY <1>1, FlatIs
<1> DEFINE S == {k \in 0..m : acc[k + 1] = q[1] \o add[k]}
<1>4. 0 \in S
  <2>1. add[0] = << >> /\ acc[0] = << >>
    BY <1>2, <1>3 DEF Joins
  <2>2. 1 \in 1..Len(q) /\ 1 - 1 = 0 /\ 0 + 1 = 1
    BY <1>0
  <2>3. acc[1] = << >> \o q[1]
    BY <1>2, <2>1, <2>2 DEF Joins
  <2>4. << >> \o q[1] = q[1] /\ q[1] \o << >> = q[1]
    BY <1>0, ConcatNone
  <2> QED
    BY <1>0, <2>1, <2>2, <2>3, <2>4
<1>5. ASSUME NEW k \in 1..m, k - 1 \in S PROVE k \in S
  <2>1. k + 1 \in 1..Len(q) /\ (k + 1) - 1 = k /\ k \in 0..m /\ (k - 1) + 1 = k /\ k - 1 \in 0..m
    BY <1>0
  <2>2. acc[k + 1] = acc[k] \o q[k + 1]
    BY <1>2, <2>1 DEF Joins
  <2>3. add[k] = add[k - 1] \o r[k] /\ r[k] = q[k + 1]
    BY <1>1, <1>3 DEF Joins
  <2>4. acc[k] = q[1] \o add[k - 1]
    BY <1>5, <2>1
  <2>5. PICK s \in Seq(X) : s = add[k - 1]
    BY <1>1, <1>3, <2>1 DEF Joins
  <2>6. PICK u \in Seq(X) : u = r[k]
    <3>1. r \in [1..m -> Seq(X)]
      BY <1>1
    <3> QED
      BY <3>1
  <2>7. PICK h \in Seq(X) : h = q[1]
    BY <1>0
  <2>8. (h \o s) \o u = h \o (s \o u)
    <3>1. h \in Seq(X) /\ s \in Seq(X) /\ u \in Seq(X)
      BY <2>5, <2>6, <2>7
    <3> QED
      BY ONLY <3>1, SMTT(30)
  <2> QED
    BY <2>1, <2>2, <2>3, <2>4, <2>5, <2>6, <2>7, <2>8
<1>6. 0..m \subseteq S
  <2> HIDE DEF S
  <2> QED
    BY <1>0, <1>4, <1>5, Climb
<1>7. acc[m + 1] = q[1] \o add[m]
  <2>1. m \in 0..m
    BY <1>0
  <2> QED
    BY <1>6, <2>1
<1> QED
  BY <1>2, <1>3, <1>7 DEF r
-----------------------------------------------------------------------------
(* A range of addresses as the parser leaves it, with no bit beyond its    *)
(* prefix, and a rule made of such: what a line of text can say.           *)
Ranges == {a \in [ip : Addrs, len : Lens] : Net(a.ip, a.len) = a.ip}
Parsed == {r \in Rules : r.sip \in Ranges /\ r.dip \in Ranges /\ r.sport \in Ports /\ r.dport \in Ports}
Clauses == {"any", "host", "cidr"} \X Addrs \X Lens

(* A wildcard is a range, the only one of length 0.                        *)
LEMMA WildIs == Wild \in Ranges /\ \A a \in Ranges : a.len = 0 => a = Wild
<1>1. 0 \in Addrs /\ 0 \in Lens /\ \A a \in Addrs : Net(a, 0) = 0
  BY AddrsAre, NetEnds
<1>2. Wild \in [ip : Addrs, len : Lens] /\ Wild.ip = 0 /\ Wild.len = 0
  BY <1>1 DEF Wild
<1>3. Wild \in Ranges
  BY <1>1, <1>2 DEF Ranges
<1>4. ASSUME NEW a \in Ranges, a.len = 0 PROVE a = Wild
  <2>1. a.ip = 0 /\ a \in [ip : Addrs, len : Lens]
    BY <1>1, <1>4 DEF Ranges
  <2> QED
    BY <1>4, <2>1 DEF Wild
<1> QED
  BY <1>3, <1>4

(* parse_cidr gives a range.                                               *)
LEMMA ParseCidr ==
  ASSUME NEW t \in Clauses
  PROVE  parse_cidr(t) \in Ranges
<1>1. t[1] \in {"any", "host", "cidr"} /\ t[2] \in Addrs /\ t[3] \in Lens
  BY DEF Clauses
<1>2. W \in Lens
  BY AddrsAre
<1>3. ASSUME NEW l \in Lens PROVE [ip |-> Net(t[2], l), len |-> l] \in Ranges
  BY <1>1, NetIs DEF Ranges
<1>4. CASE t[1] = "any"
  BY <1>4, WildIs DEF parse_cidr
<1>5. CASE t[1] = "host"
  BY <1>2, <1>3, <1>5 DEF parse_cidr
<1>6. CASE t[1] = "cidr"
  BY <1>1, <1>3, <1>6 DEF parse_cidr
<1> QED
  BY <1>1, <1>4, <1>5, <1>6

(* So does a clause that may be missing.                                   *)
LEMMA ClauseIs ==
  ASSUME NEW ts \in Seq(Clauses), NEW i
  PROVE  Clause(ts, i) \in Ranges
BY ParseCidr, WildIs DEF Clause

(* What a line says is at most one rule, and one the table can hold.       *)
LEMMA FwParse ==
  ASSUME NEW t \in Texts
  PROVE  fw_parse_rule(t) \in Seq(Parsed) /\ Len(fw_parse_rule(t)) <= 1
<1>1. /\ t.ip \in Seq(Clauses) /\ t.proto \in Int /\ t.sport \in Int /\ t.dport \in Int
      /\ t.keyword \in Words
  BY DEF Texts, Clauses
<1>2. Clause(t.ip, 1) \in Ranges /\ Clause(t.ip, 2) \in Ranges
  BY <1>1, ClauseIs
<1> DEFINE r == [action |-> t.action, sip |-> Clause(t.ip, 1), dip |-> Clause(t.ip, 2),
                 proto |-> t.proto, sport |-> t.sport, dport |-> t.dport, keyword |-> t.keyword]
<1>3. CASE t.action \in {"drop", "allow"} /\ Len(t.ip) <= 2 /\ t.sport \in Ports /\ t.dport \in Ports
  <2>1. r \in Rules
    BY <1>1, <1>2, <1>3 DEF Rules, Ranges
  <2>2. r \in Parsed
    BY <1>2, <1>3, <2>1 DEF Parsed
  <2>3. fw_parse_rule(t) = <<r>>
    BY <1>3 DEF fw_parse_rule
  <2> HIDE DEF r
  <2> QED
    BY <2>2, <2>3
<1>4. CASE ~ (t.action \in {"drop", "allow"} /\ Len(t.ip) <= 2 /\ t.sport \in Ports /\ t.dport \in Ports)
  <2>1. fw_parse_rule(t) = << >>
    BY <1>4 DEF fw_parse_rule
  <2> QED
    BY <2>1
<1> QED
  BY <1>3, <1>4

(* So does a line of the older section.                                    *)
LEMMA FilterParse ==
  ASSUME NEW t \in Texts
  PROVE  parse_filter_line(t) \in Seq(Parsed) /\ Len(parse_filter_line(t)) <= 1
<1>1. t.ip \in Seq(Clauses)
  BY DEF Texts, Clauses
<1>2. CASE ~Address(t)
  <2>1. parse_filter_line(t) = << >>
    BY <1>2 DEF parse_filter_line
  <2> QED
    BY <2>1
<1>3. CASE Address(t)
  <2>1. t.ip[1] \in Clauses
    BY <1>1, <1>3 DEF Address
  <2>2. parse_cidr(t.ip[1]) \in Ranges /\ Wild \in Ranges
    BY <2>1, ParseCidr, WildIs
  <2> DEFINE r == [action |-> "drop", sip |-> parse_cidr(t.ip[1]), dip |-> Wild,
                   proto |-> ANY, sport |-> ANY, dport |-> ANY, keyword |-> NoWord]
  <2>3. ANY \in Int /\ ANY \in Ports /\ NoWord \in Words
    BY FirewallAssumption DEF ANY, Ports
  <2>4. r \in Parsed
    <3>1. r \in Rules
      BY <2>2, <2>3 DEF Rules, Ranges
    <3> QED
      BY <2>2, <2>3, <3>1 DEF Parsed
  <2>5. parse_filter_line(t) = <<r>>
    BY <1>3 DEF parse_filter_line
  <2> HIDE DEF r
  <2> QED
    BY <2>4, <2>5
<1> QED
  BY <1>2, <1>3

(* A line of either section.                                               *)
LEMMA ParseLineIs ==
  ASSUME NEW l \in Lines
  PROVE  ParseLine(l) \in Seq(Parsed) /\ Len(ParseLine(l)) <= 1
BY FwParse, FilterParse DEF ParseLine, Lines

-----------------------------------------------------------------------------
(* Two words of text.                                                      *)
LEMMA TwoIs ==
  ASSUME NEW X, NEW x \in X, NEW y \in X
  PROVE  <<x>> \o <<y>> = <<x, y>>
<1> DEFINE u == <<x>> \o <<y>>
           v == <<x, y>>
<1>1. u \in Seq(X) /\ v \in Seq(X) /\ Len(u) = 2 /\ Len(v) = 2
  OBVIOUS
<1>2. u[1] = x /\ u[2] = y /\ v[1] = x /\ v[2] = y
  OBVIOUS
<1>3. \A i \in 1..2 : u[i] = v[i]
  BY <1>2
<1> HIDE DEF u, v
<1>4. u = v
  BY <1>1, <1>3
<1> QED
  BY <1>4 DEF u, v

(* Printing a range and parsing the text gives the range again.            *)
LEMMA CidrBack ==
  ASSUME NEW a \in Ranges
  PROVE  cidr_to_str(a) \in Clauses /\ parse_cidr(cidr_to_str(a)) = a
<1>1. a \in [ip : Addrs, len : Lens] /\ a.ip \in Addrs /\ a.len \in Lens /\ Net(a.ip, a.len) = a.ip
  BY DEF Ranges
<1>2. a = [ip |-> a.ip, len |-> a.len]
  BY <1>1
<1>3. CASE a.len = W
  <2>1. cidr_to_str(a) = <<"host", a.ip, 0>> /\ 0 \in Lens
    BY <1>3, AddrsAre DEF cidr_to_str
  <2>2. parse_cidr(<<"host", a.ip, 0>>) = [ip |-> Net(a.ip, W), len |-> W]
    BY DEF parse_cidr
  <2> QED
    BY <1>1, <1>2, <1>3, <2>1, <2>2 DEF Clauses
<1>4. CASE a.len # W
  <2>1. cidr_to_str(a) = <<"cidr", a.ip, a.len>>
    BY <1>4 DEF cidr_to_str, PlainCidr, prefix_len
  <2>2. parse_cidr(<<"cidr", a.ip, a.len>>) = [ip |-> Net(a.ip, a.len), len |-> a.len]
    BY DEF parse_cidr
  <2> QED
    BY <1>1, <1>2, <2>1, <2>2 DEF Clauses
<1> QED
  BY <1>3, <1>4

(* Writing a rule and reading the line gives the rule again.               *)
LEMMA LineBack ==
  ASSUME NEW r \in Parsed
  PROVE  fw_rule_to_line(r) \in Lines /\ ParseLine(fw_rule_to_line(r)) = <<r>>
<1>1. /\ r \in Rules /\ r.sip \in Ranges /\ r.dip \in Ranges /\ r.sport \in Ports /\ r.dport \in Ports
      /\ r.action \in {"drop", "allow"} /\ r.proto \in Int /\ r.sport \in Int /\ r.dport \in Int
      /\ r.keyword \in Words
  BY DEF Parsed, Rules
<1> DEFINE ts == Source(r) \o Destination(r)
           c == cidr_to_str(r.sip)
           d == cidr_to_str(r.dip)
           x == <<"any", 0, 0>>
<1>2. /\ c \in Clauses /\ parse_cidr(c) = r.sip
      /\ d \in Clauses /\ parse_cidr(d) = r.dip
  BY <1>1, CidrBack
<1>3. x \in Clauses /\ parse_cidr(x) = Wild
  BY AddrsAre DEF Clauses, parse_cidr
<1>4. /\ r.sip.len = 0 => r.sip = Wild
      /\ r.dip.len = 0 => r.dip = Wild
  BY <1>1, WildIs
<1>5. /\ Source(r) = IF r.sip.len # 0 THEN <<c>> ELSE IF r.dip.len # 0 THEN <<x>> ELSE << >>
      /\ Destination(r) = IF r.dip.len # 0 THEN <<d>> ELSE << >>
  BY DEF Source, Destination
<1>6. ts \in Seq(Clauses) /\ Len(ts) <= 2 /\ Clause(ts, 1) = r.sip /\ Clause(ts, 2) = r.dip
  <2> HIDE DEF c, d, x
  <2>1. CASE r.dip.len # 0
    <3>1. PICK y \in Clauses : Source(r) = <<y>> /\ parse_cidr(y) = r.sip
      BY <1>2, <1>3, <1>4, <1>5, <2>1
    <3>2. ts = <<y>> \o <<d>>
      BY <1>5, <2>1, <3>1
    <3>3. ts = <<y, d>>
      <4>1. <<y>> \o <<d>> = <<y, d>>
        BY <1>2, <3>1, TwoIs
      <4> QED
        BY <3>2, <4>1
    <3> HIDE DEF ts
    <3>4. ts \in Seq(Clauses) /\ Len(ts) = 2 /\ DOMAIN ts = {1, 2} /\ ts[1] = y /\ ts[2] = d
      BY <1>2, <3>1, <3>3
    <3> QED
      BY <1>2, <3>1, <3>4 DEF Clause
  <2>2. CASE r.dip.len = 0 /\ r.sip.len # 0
    <3>1. ts = <<c>> \o << >>
      BY <1>5, <2>2
    <3>2. ts = <<c>>
      BY <1>2, <3>1
    <3> HIDE DEF ts
    <3>3. ts \in Seq(Clauses) /\ Len(ts) = 1 /\ DOMAIN ts = {1} /\ ts[1] = c
      BY <1>2, <3>2
    <3> QED
      BY <1>2, <1>4, <2>2, <3>3 DEF Clause
  <2>3. CASE r.dip.len = 0 /\ r.sip.len = 0
    <3>1. ts = << >> \o << >>
      BY <1>5, <2>3
    <3>2. ts = << >>
      BY <3>1
    <3> HIDE DEF ts
    <3>3. ts \in Seq(Clauses) /\ Len(ts) = 0 /\ DOMAIN ts = {}
      BY <3>2
    <3> QED
      BY <1>4, <2>3, <3>3 DEF Clause
  <2> QED
    BY <2>1, <2>2, <2>3
<1> HIDE DEF c, d, x
<1> DEFINE u == [action |-> r.action, ip |-> ts, proto |-> r.proto, sport |-> r.sport,
                 dport |-> r.dport, keyword |-> r.keyword]
<1>7. fw_rule_to_line(r) = [section |-> "firewall", text |-> u]
  BY DEF fw_rule_to_line
<1> HIDE DEF ts
<1>8. u \in Texts
  BY <1>1, <1>6 DEF Texts, Clauses
<1>9. fw_rule_to_line(r) \in Lines
  BY <1>7, <1>8 DEF Lines
<1>10. ParseLine(fw_rule_to_line(r)) = fw_parse_rule(u)
  BY <1>7 DEF ParseLine
<1>11. fw_parse_rule(u) = <<[action |-> r.action, sip |-> r.sip, dip |-> r.dip, proto |-> r.proto,
                            sport |-> r.sport, dport |-> r.dport, keyword |-> r.keyword]>>
  BY <1>1, <1>6 DEF fw_parse_rule
<1>12. r = [action |-> r.action, sip |-> r.sip, dip |-> r.dip, proto |-> r.proto,
            sport |-> r.sport, dport |-> r.dport, keyword |-> r.keyword]
  BY <1>1 DEF Rules
<1> QED
  BY <1>9, <1>10, <1>11, <1>12
-----------------------------------------------------------------------------
(* The lines of a file, each as the rules it says.                         *)
Said(ls) == [i \in DOMAIN ls |-> ParseLine(ls[i])]

(* As many as there are lines, each at most one rule.                      *)
LEMMA SaidIs ==
  ASSUME NEW ls \in Seq(Lines)
  PROVE  /\ Said(ls) \in Seq(Seq(Parsed)) /\ Len(Said(ls)) = Len(ls)
         /\ DOMAIN Said(ls) = 1..Len(ls)
         /\ \A i \in 1..Len(ls) : Said(ls)[i] = ParseLine(ls[i])
<1>1. Len(ls) \in Nat /\ DOMAIN ls = 1..Len(ls) /\ \A i \in 1..Len(ls) : ls[i] \in Lines
  OBVIOUS
<1>2. Said(ls) \in [1..Len(ls) -> Seq(Parsed)] /\ \A i \in 1..Len(ls) : Said(ls)[i] = ParseLine(ls[i])
  BY <1>1, ParseLineIs DEF Said
<1>3. Said(ls) \in Seq(Seq(Parsed)) /\ Len(Said(ls)) = Len(ls)
  BY <1>1, <1>2
<1> QED
  BY <1>2, <1>3

(* The rules of a file can be held by the table.                           *)
LEMMA RulesType ==
  ASSUME NEW ls \in Seq(Lines)
  PROVE  RulesOf(ls) \in Seq(Parsed)
<1>1. RulesOf(ls) = FlattenSeq(Said(ls))
  BY Zenon DEF RulesOf, Said
<1> QED
  BY <1>1, SaidIs, FlatType

(* No line, no rule.                                                       *)
LEMMA RulesNone == RulesOf(<< >>) = << >>
<1>1. << >> \in Seq(Lines) /\ Len(<< >>) = 0
  OBVIOUS
<1>2. Said(<< >>) \in Seq(Seq(Parsed)) /\ Len(Said(<< >>)) = 0
  BY <1>1, SaidIs
<1>3. Said(<< >>) = << >>
  BY <1>2
<1>4. FlattenSeq(Said(<< >>)) = << >>
  BY <1>2, <1>3, FlatType
<1> QED
  BY <1>4, Zenon DEF RulesOf, Said

(* A line more at the end.                                                 *)
LEMMA RulesAppend ==
  ASSUME NEW ls \in Seq(Lines), NEW l \in Lines
  PROVE  RulesOf(Append(ls, l)) = RulesOf(ls) \o ParseLine(l)
<1> DEFINE ms == Append(ls, l)
           s == ParseLine(l)
           q == Said(ls)
<1>1. /\ ms \in Seq(Lines) /\ Len(ms) = Len(ls) + 1 /\ Len(ls) \in Nat
      /\ ms[Len(ls) + 1] = l /\ \A i \in 1..Len(ls) : ms[i] = ls[i]
  OBVIOUS
<1>2. s \in Seq(Parsed)
  BY ParseLineIs
<1>3. q \in Seq(Seq(Parsed)) /\ Len(q) = Len(ls) /\ \A i \in 1..Len(ls) : q[i] = ParseLine(ls[i])
  BY SaidIs
<1> HIDE DEF ms, s, q
<1>4. /\ Said(ms) \in Seq(Seq(Parsed)) /\ Len(Said(ms)) = Len(ms)
      /\ \A i \in 1..Len(ms) : Said(ms)[i] = ParseLine(ms[i])
  BY <1>1, SaidIs
<1>5. /\ Append(q, s) \in Seq(Seq(Parsed)) /\ Len(Append(q, s)) = Len(ls) + 1
      /\ Append(q, s)[Len(ls) + 1] = s /\ \A i \in 1..Len(ls) : Append(q, s)[i] = q[i]
  BY <1>2, <1>3
<1>6. ASSUME NEW i \in 1..(Len(ls) + 1) PROVE Said(ms)[i] = Append(q, s)[i]
  <2>1. i \in 1..Len(ls) \/ i = Len(ls) + 1
    BY <1>1
  <2> QED
    BY <1>1, <1>3, <1>4, <1>5, <2>1 DEF s
<1>7. Said(ms) = Append(q, s)
  BY <1>1, <1>4, <1>5, <1>6, SameSeq
<1>8. FlattenSeq(Append(q, s)) = FlattenSeq(q) \o s
  BY <1>2, <1>3, FlatAppend
<1>9. RulesOf(ms) = FlattenSeq(Said(ms)) /\ RulesOf(ls) = FlattenSeq(q)
  BY Zenon DEF RulesOf, Said, q
<1> QED
  BY <1>7, <1>8, <1>9 DEF ms, s

(* The first line, and the others.                                         *)
LEMMA RulesFirst ==
  ASSUME NEW ls \in Seq(Lines), ls # << >>
  PROVE  RulesOf(ls) = ParseLine(ls[1]) \o RulesOf(RemoveAt(ls, 1))
<1> DEFINE ms == RemoveAt(ls, 1)
           q == Said(ls)
<1>0. 1 \in DOMAIN ls /\ Len(ls) \in Nat /\ Len(ls) # 0
  OBVIOUS
<1>1. /\ ms \in Seq(Lines) /\ Len(ms) = Len(ls) - 1
      /\ \A i \in 1..(Len(ls) - 1) : ms[i] = IF i < 1 THEN ls[i] ELSE ls[i + 1]
  BY <1>0, RemoveIs
<1>2. q \in Seq(Seq(Parsed)) /\ Len(q) = Len(ls) /\ \A i \in 1..Len(ls) : q[i] = ParseLine(ls[i])
  BY SaidIs
<1> HIDE DEF ms, q
<1>3. /\ Said(ms) \in Seq(Seq(Parsed)) /\ Len(Said(ms)) = Len(ms)
      /\ \A i \in 1..Len(ms) : Said(ms)[i] = ParseLine(ms[i])
  BY <1>1, SaidIs
<1>4. q # << >> /\ 1 \in DOMAIN q
  BY <1>0, <1>2
<1>5. /\ RemoveAt(q, 1) \in Seq(Seq(Parsed)) /\ Len(RemoveAt(q, 1)) = Len(ls) - 1
      /\ \A i \in 1..(Len(ls) - 1) : RemoveAt(q, 1)[i] = IF i < 1 THEN q[i] ELSE q[i + 1]
  BY <1>2, <1>4, RemoveIs
<1>6. ASSUME NEW i \in 1..(Len(ls) - 1) PROVE Said(ms)[i] = RemoveAt(q, 1)[i]
  <2>1. ~ (i < 1) /\ i + 1 \in 1..Len(ls)
    BY <1>0
  <2> QED
    BY <1>1, <1>2, <1>3, <1>5, <2>1
<1>7. Said(ms) = RemoveAt(q, 1)
  <2>1. Len(Said(ms)) = Len(RemoveAt(q, 1)) /\ \A i \in 1..Len(Said(ms)) : Said(ms)[i] = RemoveAt(q, 1)[i]
    BY <1>1, <1>3, <1>5, <1>6
  <2> QED
    BY <1>3, <1>5, <2>1, SameSeq
<1>8. FlattenSeq(q) = q[1] \o FlattenSeq(RemoveAt(q, 1)) /\ q[1] = ParseLine(ls[1])
  BY <1>0, <1>2, <1>4, FlatFirst
<1>9. RulesOf(ms) = FlattenSeq(Said(ms)) /\ RulesOf(ls) = FlattenSeq(q)
  BY Zenon DEF RulesOf, Said, q
<1> QED
  BY <1>7, <1>8, <1>9 DEF ms
-----------------------------------------------------------------------------
(* The types, the auxiliary variables included.                            *)
FwShape ==
  /\ g_rules \in [Slots -> Parsed] /\ g_n \in 0..MAX_RULE
  /\ file \in Seq(Lines) /\ at \in [Admins -> Places]
  /\ n \in [Admins -> 0..MAX_RULE] /\ part \in [Admins -> {"none", "drop", "allow"}]
  /\ lines \in [Admins -> Seq(Lines)] /\ todo \in [Admins -> Seq(Lines)]
  /\ base \in [Admins -> Seq(Parsed)] /\ calm \in [Admins -> BOOLEAN]

(* The table holds the rules of D, as many as fit.                         *)
Holds(D) == /\ g_n = IF Len(D) < MAX_RULE THEN Len(D) ELSE MAX_RULE
            /\ \A s \in 0..(g_n - 1) : g_rules[s] = D[s + 1]

(* Lines are made only by a save, and one rule is read at a time.          *)
Orderly(o) ==
  /\ Len(lines[o]) <= n[o]
  /\ at[o] \in {"idle", "open", "clear", "load"} => lines[o] = << >>
  /\ at[o] = "rest" => Len(lines[o]) < n[o] /\ part[o] \in {"drop", "allow"}

(* A save nobody disturbs: the rules it counted are still in place, its    *)
(* lines say the first of them, and the action it read is the next one's.  *)
Saving(o) == at[o] \in {"action", "rest"} /\ calm[o] =>
  /\ n[o] = Len(base[o]) /\ n[o] <= g_n
  /\ \A s \in 0..(n[o] - 1) : g_rules[s] = base[o][s + 1]
  /\ RulesOf(lines[o]) = SubSeq(base[o], 1, Len(lines[o]))
  /\ at[o] = "rest" => part[o] = base[o][Len(lines[o]) + 1].action
Written(o) == at[o] = "write" /\ calm[o] => RulesOf(lines[o]) = base[o]

(* A load nobody disturbs: the table holds what the lines read so far say, *)
(* and the lines left say the rest.                                        *)
Opened(o) == at[o] = "clear" => base[o] = RulesOf(todo[o])
Loading(o) == at[o] = "load" /\ calm[o] =>
  \E D \in Seq(Parsed) : base[o] = D \o RulesOf(todo[o]) /\ Holds(D)

Command(o) == Orderly(o) /\ Saving(o) /\ Written(o) /\ Opened(o) /\ Loading(o)
FwInv == FwShape /\ \A o \in Admins : Command(o)

(* Admin p's command is where it was, and nothing it kept has changed.     *)
SameOf(p) == /\ at'[p] = at[p] /\ n'[p] = n[p] /\ part'[p] = part[p]
             /\ lines'[p] = lines[p] /\ todo'[p] = todo[p] /\ base'[p] = base[p]

(* What the table of a save, and of a load, that stays calm may suffer.    *)
Grows == g_n <= g_n' /\ \A s \in 0..(g_n - 1) : g_rules'[s] = g_rules[s]
Spared(p) == calm'[p] =>
  /\ calm[p]
  /\ at[p] \in {"action", "rest"} => Grows
  /\ at[p] = "load" => g_n' = g_n /\ g_rules' = g_rules

(* A command that is where it was, and was spared, is as it was.           *)
LEMMA CommandKept ==
  ASSUME FwShape, NEW p \in Admins, Command(p), SameOf(p), Spared(p), g_n' \in Nat
  PROVE  Command(p)'
<1>0. g_n \in Nat /\ n[p] \in Nat
  BY FirewallAssumption DEF FwShape
<1>1. Orderly(p)'
  BY DEF Command, Orderly, SameOf
<1>2. Saving(p)'
  <2> SUFFICES ASSUME at[p] \in {"action", "rest"}, calm'[p]
               PROVE  /\ n[p] = Len(base[p]) /\ n[p] <= g_n'
                      /\ \A s \in 0..(n[p] - 1) : g_rules'[s] = base[p][s + 1]
                      /\ RulesOf(lines[p]) = SubSeq(base[p], 1, Len(lines[p]))
                      /\ at[p] = "rest" => part[p] = base[p][Len(lines[p]) + 1].action
    BY Zenon DEF Saving, SameOf
  <2>1. calm[p] /\ Grows
    BY Zenon DEF Spared
  <2>2. /\ n[p] = Len(base[p]) /\ n[p] <= g_n
        /\ \A s \in 0..(n[p] - 1) : g_rules[s] = base[p][s + 1]
        /\ RulesOf(lines[p]) = SubSeq(base[p], 1, Len(lines[p]))
        /\ at[p] = "rest" => part[p] = base[p][Len(lines[p]) + 1].action
    BY <2>1, Zenon DEF Command, Saving
  <2>3. \A s \in 0..(n[p] - 1) : s \in 0..(g_n - 1)
    BY <1>0, <2>2
  <2>4. n[p] <= g_n'
    BY <1>0, <2>1, <2>2 DEF Grows
  <2>5. \A s \in 0..(n[p] - 1) : g_rules'[s] = base[p][s + 1]
    BY <2>1, <2>2, <2>3, Zenon DEF Grows
  <2> QED
    BY <2>2, <2>4, <2>5, Zenon
<1>3. Written(p)' /\ Opened(p)'
  BY Zenon DEF Command, Written, Opened, SameOf, Spared
<1>4. Loading(p)'
  <2> SUFFICES ASSUME at[p] = "load", calm'[p]
               PROVE  \E D \in Seq(Parsed) : base[p] = D \o RulesOf(todo[p]) /\ Holds(D)'
    BY Zenon DEF Loading, SameOf
  <2>1. calm[p] /\ g_n' = g_n /\ g_rules' = g_rules
    BY Zenon DEF Spared
  <2>2. PICK D \in Seq(Parsed) : base[p] = D \o RulesOf(todo[p]) /\ Holds(D)
    BY <2>1, Zenon DEF Command, Loading
  <2>3. Holds(D)'
    BY <2>1, <2>2 DEF Holds
  <2> QED
    BY <2>2, <2>3
<1> QED
  BY <1>1, <1>2, <1>3, <1>4 DEF Command

(* Adding the rule of a line: it takes the next free slot, if there is one. *)
LEMMA AddIs ==
  ASSUME FwShape, NEW rs \in Seq(Parsed), Len(rs) <= 1, fw_add(rs)
  PROVE  /\ g_rules' \in [Slots -> Parsed] /\ g_n' \in 0..MAX_RULE /\ Grows
         /\ rs = << >> \/ g_n = MAX_RULE => tvars' = tvars
         /\ rs # << >> /\ g_n < MAX_RULE =>
              g_n' = g_n + 1 /\ g_rules'[g_n] = rs[1] /\ rs = <<rs[1]>>
<1>1. MAX_RULE \in Nat \ {0} /\ g_n \in 0..MAX_RULE /\ g_rules \in [Slots -> Parsed]
  BY FirewallAssumption DEF FwShape
<1>2. CASE rs # << >> /\ Room
  <2>1. g_n < MAX_RULE /\ g_n \in Slots /\ rs[1] \in Parsed /\ Len(rs) = 1
    BY <1>1, <1>2 DEF Room, Slots
  <2>2. g_rules' = [g_rules EXCEPT ![g_n] = rs[1]] /\ g_n' = g_n + 1
    BY <1>2 DEF fw_add
  <2>3. g_rules' \in [Slots -> Parsed] /\ g_rules'[g_n] = rs[1]
    BY <1>1, <2>1, <2>2
  <2>4. ASSUME NEW s \in 0..(g_n - 1) PROVE g_rules'[s] = g_rules[s]
    <3>1. s \in Slots /\ s # g_n
      BY <1>1 DEF Slots
    <3> QED
      BY <1>1, <2>2, <3>1
  <2>5. rs = <<rs[1]>>
    BY <2>1
  <2>6. g_n' \in 0..MAX_RULE /\ g_n <= g_n'
    BY <1>1, <2>1, <2>2
  <2>7. Grows /\ g_n # MAX_RULE
    BY <1>1, <2>1, <2>4, <2>6 DEF Grows
  <2> QED
    BY <1>2, <2>2, <2>3, <2>5, <2>6, <2>7, Zenon
<1>3. CASE ~ (rs # << >> /\ Room)
  <2>1. g_rules' = g_rules /\ g_n' = g_n
    BY <1>3 DEF fw_add, tvars
  <2> QED
    <3>1. g_rules' \in [Slots -> Parsed] /\ g_n' \in 0..MAX_RULE /\ Grows
      BY <1>1, <2>1 DEF Grows
    <3>2. tvars' = tvars
      BY <2>1 DEF tvars
    <3>3. ~ (rs # << >> /\ g_n < MAX_RULE)
      BY <1>3 DEF Room
    <3> QED
      BY <3>1, <3>2, <3>3
<1> QED
  BY <1>2, <1>3

(* The table that o's command leaves to the others.                        *)
LEMMA OthersKept ==
  ASSUME FwInv, g_n' \in Nat, NEW o, \A p \in Admins : p # o => SameOf(p) /\ Spared(p)
  PROVE  \A p \in Admins : p # o => Command(p)'
BY CommandKept DEF FwInv

(* The table is unchanged when its slots and its count are.                *)
LEMMA TvarsAre == tvars' = tvars <=> g_rules' = g_rules /\ g_n' = g_n
BY DEF tvars

(* addfw: a save still finds the rules it counted, and a load is no longer *)
(* calm if the table changed.                                              *)
LEMMA AddfwKeeps ==
  ASSUME FwInv, NEW o \in Admins, addfw(o)
  PROVE  FwInv'
<1>1. FwShape /\ at[o] = "idle"
  BY DEF FwInv, addfw, Begin
<1>2. PICK t \in Commands : fw_add(fw_parse_rule(t))
  BY DEF addfw
<1>3. fw_parse_rule(t) \in Seq(Parsed) /\ Len(fw_parse_rule(t)) <= 1
  BY <1>2, FwParse, FirewallAssumption
<1>4. g_rules' \in [Slots -> Parsed] /\ g_n' \in 0..MAX_RULE /\ Grows
  BY <1>1, <1>2, <1>3, AddIs
<1>5. UNCHANGED <<file, at, n, part, lines, todo, base>>
  BY DEF addfw, svars
<1>6. calm' = [p \in Admins |-> calm[p] /\ (p = o \/ at[p] \notin IF tvars' = tvars THEN {} ELSE {"load"})]
  BY DEF addfw, Disturb
<1>7. FwShape'
  BY <1>1, <1>4, <1>5, <1>6 DEF FwShape
<1>8. g_n' \in Nat
  BY <1>4, FirewallAssumption
<1>9. ASSUME NEW p \in Admins PROVE Command(p)'
  <2>1. SameOf(p)
    BY <1>5 DEF SameOf
  <2>2. calm'[p] => calm[p] /\ (at[p] = "load" => tvars' = tvars)
    BY <1>1, <1>6, Zenon
  <2>3. Spared(p)
    BY <1>4, <2>2, TvarsAre, Zenon DEF Spared
  <2> QED
    BY <1>1, <1>8, <2>1, <2>3, CommandKept DEF FwInv
<1> QED
  BY <1>7, <1>9 DEF FwInv

(* delfw: saves and loads under way are no longer calm.                    *)
LEMMA DelfwKeeps ==
  ASSUME FwInv, NEW o \in Admins, delfw(o)
  PROVE  FwInv'
<1>1. FwShape /\ at[o] = "idle" /\ g_n \in 0..MAX_RULE /\ MAX_RULE \in Nat \ {0}
  BY FirewallAssumption DEF FwInv, delfw, Begin, FwShape
<1>2. PICK i \in 0..(g_n - 1) :
        g_rules' = [s \in Slots |-> IF i <= s /\ s + 1 < g_n THEN g_rules[s + 1] ELSE g_rules[s]]
  BY DEF delfw
<1>3. g_rules' \in [Slots -> Parsed]
  <2>1. \A s \in Slots : g_rules[s] \in Parsed /\ (s + 1 < g_n => s + 1 \in Slots)
    BY <1>1 DEF FwShape, Slots
  <2>2. \A s \in Slots : s + 1 < g_n => g_rules[s + 1] \in Parsed
    BY <2>1
  <2> QED
    BY <1>2, <2>1, <2>2
<1>4. g_n' \in 0..MAX_RULE /\ g_n' \in Nat
  <2>1. g_n' = g_n - 1 /\ i \in 0..(g_n - 1)
    BY <1>2 DEF delfw
  <2> QED
    BY <1>1, <2>1
<1>5. UNCHANGED <<file, at, n, part, lines, todo, base>>
  BY DEF delfw, svars
<1>6. calm' = [p \in Admins |-> calm[p] /\ (p = o \/ at[p] \notin {"load", "action", "rest"})]
  BY DEF delfw, Disturb
<1>7. FwShape'
  BY <1>1, <1>3, <1>4, <1>5, <1>6 DEF FwShape
<1>9. ASSUME NEW p \in Admins PROVE Command(p)'
  <2>1. SameOf(p)
    BY <1>5 DEF SameOf
  <2>2. calm'[p] => calm[p] /\ at[p] \notin {"load", "action", "rest"}
    BY <1>1, <1>6, Zenon
  <2>3. Spared(p)
    BY <2>2, Zenon DEF Spared
  <2> QED
    BY <1>1, <1>4, <2>1, <2>3, CommandKept DEF FwInv
<1> QED
  BY <1>7, <1>9 DEF FwInv
-----------------------------------------------------------------------------
(* A step of o's command that leaves the table alone.                      *)
LEMMA QuietStep ==
  ASSUME FwInv, NEW o, UNCHANGED tvars,
         \A p \in Admins : p # o => SameOf(p) /\ calm'[p] = calm[p]
  PROVE  \A p \in Admins : p # o => Command(p)'
<1>1. FwShape /\ g_n' = g_n /\ g_rules' = g_rules
  BY DEF FwInv, tvars
<1>2. g_n' \in Nat /\ Grows
  BY <1>1, FirewallAssumption DEF FwShape, Grows
<1>3. ASSUME NEW p \in Admins, p # o PROVE Spared(p)
  BY <1>1, <1>2, <1>3, Zenon DEF Spared
<1> QED
  BY <1>1, <1>2, <1>3, CommandKept DEF FwInv

(* Facts about the command of one admin.                                   *)
LEMMA ShapeOf ==
  ASSUME FwInv, NEW o \in Admins
  PROVE  /\ FwShape /\ Orderly(o) /\ Saving(o) /\ Written(o) /\ Opened(o) /\ Loading(o)
         /\ lines[o] \in Seq(Lines) /\ todo[o] \in Seq(Lines) /\ base[o] \in Seq(Parsed)
         /\ n[o] \in 0..MAX_RULE /\ g_n \in 0..MAX_RULE /\ MAX_RULE \in Nat \ {0}
         /\ Len(lines[o]) \in Nat /\ g_n \in Nat /\ n[o] \in Nat
<1>1. FwShape /\ Command(o)
  BY DEF FwInv
<1>2. /\ lines[o] \in Seq(Lines) /\ todo[o] \in Seq(Lines) /\ base[o] \in Seq(Parsed)
      /\ n[o] \in 0..MAX_RULE /\ g_n \in 0..MAX_RULE /\ MAX_RULE \in Nat \ {0}
  BY <1>1, FirewallAssumption DEF FwShape
<1> QED
  BY <1>1, <1>2 DEF Command

(* The rules up to the count.                                              *)
LEMMA TableIs ==
  ASSUME FwShape
  PROVE  Table \in Seq(Parsed) /\ Len(Table) = g_n /\ \A i \in 1..g_n : Table[i] = g_rules[i - 1]
<1>1. g_n \in 0..MAX_RULE /\ MAX_RULE \in Nat \ {0} /\ g_n \in Nat /\ g_rules \in [Slots -> Parsed]
  BY FirewallAssumption DEF FwShape
<1>2. \A i \in 1..g_n : i - 1 \in Slots
  BY <1>1 DEF Slots
<1>3. Table \in [1..g_n -> Parsed] /\ \A i \in 1..g_n : Table[i] = g_rules[i - 1]
  BY <1>1, <1>2 DEF Table
<1>4. Table \in Seq(Parsed) /\ Len(Table) = g_n
  BY <1>1, <1>3
<1> QED
  BY <1>3, <1>4

(* A save counts the rules.                                                *)
LEMMA CountKeeps ==
  ASSUME FwInv, NEW o \in Admins, Count(o)
  PROVE  FwInv'
<1>1. /\ FwShape /\ Orderly(o) /\ g_n \in 0..MAX_RULE /\ g_n \in Nat
  BY ShapeOf
<1>2. /\ at[o] = "idle" /\ at' = [at EXCEPT ![o] = "action"] /\ n' = [n EXCEPT ![o] = g_n]
      /\ base' = [base EXCEPT ![o] = Table] /\ calm' = [calm EXCEPT ![o] = TRUE]
      /\ UNCHANGED <<g_rules, g_n, file, part, lines, todo>>
  BY DEF Count, Begin, Goto, tvars
<1>3. Table \in Seq(Parsed) /\ Len(Table) = g_n /\ \A i \in 1..g_n : Table[i] = g_rules[i - 1]
  BY <1>1, TableIs
<1>4. FwShape'
  BY <1>1, <1>2, <1>3 DEF FwShape, Places
<1>5. at'[o] = "action" /\ n'[o] = g_n /\ base'[o] = Table /\ lines'[o] = << >> /\ lines[o] = << >>
  BY <1>1, <1>2 DEF FwShape, Orderly
<1>6. Orderly(o)'
  BY <1>1, <1>5 DEF Orderly
<1>7. Saving(o)'
  <2>1. \A s \in 0..(g_n - 1) : g_rules[s] = Table[s + 1]
    <3>1. \A s \in 0..(g_n - 1) : s + 1 \in 1..g_n /\ (s + 1) - 1 = s
      BY <1>1
    <3> QED
      BY <1>3, <3>1
  <2>2. RulesOf(<< >>) = SubSeq(Table, 1, 0) /\ Len(<< >>) = 0
    <3>1. SubSeq(Table, 1, 0) \in Seq(Parsed) /\ Len(SubSeq(Table, 1, 0)) = 0
      BY <1>3, <1>1
    <3>2. SubSeq(Table, 1, 0) = << >>
      BY <3>1
    <3> QED
      BY <3>2, RulesNone
  <2>3. /\ n'[o] = Len(base'[o]) /\ n'[o] <= g_n'
        /\ \A s \in 0..(n'[o] - 1) : g_rules'[s] = base'[o][s + 1]
    BY <1>1, <1>2, <1>3, <1>5, <2>1
  <2>4. RulesOf(lines'[o]) = SubSeq(base'[o], 1, Len(lines'[o]))
    BY <1>5, <2>2
  <2> QED
    BY <1>5, <2>3, <2>4 DEF Saving
<1>8. Written(o)' /\ Opened(o)' /\ Loading(o)'
  BY <1>5 DEF Written, Opened, Loading
<1>9. \A p \in Admins : p # o => SameOf(p) /\ calm'[p] = calm[p]
  BY <1>1, <1>2 DEF SameOf, FwShape
<1>10. \A p \in Admins : p # o => Command(p)'
  BY <1>2, <1>9, QuietStep DEF tvars
<1> QED
  BY <1>4, <1>6, <1>7, <1>8, <1>10 DEF FwInv, Command

(* It reads the action of the next rule.                                   *)
LEMMA ReadActionKeeps ==
  ASSUME FwInv, NEW o \in Admins, ReadAction(o)
  PROVE  FwInv'
<1>1. /\ FwShape /\ Orderly(o) /\ Saving(o) /\ g_n \in 0..MAX_RULE /\ n[o] \in Nat
      /\ Len(lines[o]) \in Nat /\ g_n \in Nat
  BY ShapeOf
<1> DEFINE k == Len(lines[o])
<1>2. /\ at[o] = "action" /\ k < n[o] /\ k < g_n
      /\ at' = [at EXCEPT ![o] = "rest"] /\ part' = [part EXCEPT ![o] = g_rules[k].action]
      /\ UNCHANGED <<g_rules, g_n, file, n, lines, todo, base, calm>>
  BY DEF ReadAction, MoreRules, Here, Goto, tvars
<1>3. g_rules[k] \in Parsed /\ g_rules[k].action \in {"drop", "allow"}
  <2>1. k \in Slots
    BY <1>1, <1>2, FirewallAssumption DEF Slots
  <2>2. g_rules[k] \in Parsed
    BY <1>1, <2>1 DEF FwShape
  <2> QED
    BY <2>2 DEF Parsed, Rules
<1>4. FwShape'
  BY <1>1, <1>2, <1>3 DEF FwShape, Places
<1>5. at'[o] = "rest" /\ part'[o] = g_rules[k].action
  BY <1>1, <1>2 DEF FwShape
<1>6. Orderly(o)'
  BY <1>1, <1>2, <1>3, <1>5 DEF Orderly
<1>7. Saving(o)'
  <2> SUFFICES ASSUME calm[o]
               PROVE  /\ n[o] = Len(base[o]) /\ n[o] <= g_n
                      /\ \A s \in 0..(n[o] - 1) : g_rules[s] = base[o][s + 1]
                      /\ RulesOf(lines[o]) = SubSeq(base[o], 1, k)
                      /\ part'[o] = base[o][k + 1].action
    BY <1>2, Zenon DEF Saving
  <2>1. /\ n[o] = Len(base[o]) /\ n[o] <= g_n
        /\ \A s \in 0..(n[o] - 1) : g_rules[s] = base[o][s + 1]
        /\ RulesOf(lines[o]) = SubSeq(base[o], 1, k)
    BY <1>1, <1>2, Zenon DEF Saving
  <2>2. k \in 0..(n[o] - 1)
    BY <1>1, <1>2
  <2> QED
    BY <1>5, <2>1, <2>2
<1>8. Written(o)' /\ Opened(o)' /\ Loading(o)'
  BY <1>5 DEF Written, Opened, Loading
<1>9. \A p \in Admins : p # o => SameOf(p) /\ calm'[p] = calm[p]
  BY <1>1, <1>2 DEF SameOf, FwShape
<1>10. \A p \in Admins : p # o => Command(p)'
  BY <1>2, <1>9, QuietStep DEF tvars
<1> QED
  BY <1>4, <1>6, <1>7, <1>8, <1>10 DEF FwInv, Command

(* It reads the rest of that rule and makes its line.                      *)
LEMMA ReadRestKeeps ==
  ASSUME FwInv, NEW o \in Admins, ReadRest(o)
  PROVE  FwInv'
<1>1. /\ FwShape /\ Orderly(o) /\ Saving(o) /\ g_n \in 0..MAX_RULE /\ n[o] \in 0..MAX_RULE
      /\ n[o] \in Nat /\ Len(lines[o]) \in Nat /\ g_n \in Nat /\ MAX_RULE \in Nat \ {0}
      /\ lines[o] \in Seq(Lines) /\ base[o] \in Seq(Parsed)
  BY ShapeOf
<1> DEFINE k == Len(lines[o])
           seen == [g_rules[k] EXCEPT !.action = part[o]]
           l == fw_rule_to_line(seen)
<1>2. /\ at[o] = "rest"
      /\ at' = [at EXCEPT ![o] = "action"] /\ part' = [part EXCEPT ![o] = "none"]
      /\ lines' = [lines EXCEPT ![o] = Append(lines[o], l)]
      /\ UNCHANGED <<g_rules, g_n, file, n, todo, base, calm>>
  BY DEF ReadRest, Here, Goto, tvars
<1>3. k < n[o] /\ part[o] \in {"drop", "allow"}
  BY <1>1, <1>2 DEF Orderly
<1>4. g_rules[k] \in Parsed
  <2>1. k \in Slots
    BY <1>1, <1>3 DEF Slots
  <2> QED
    BY <1>1, <2>1 DEF FwShape
<1>5. seen \in Parsed
  BY <1>3, <1>4 DEF Parsed, Rules
<1>6. l \in Lines /\ ParseLine(l) = <<seen>>
  BY <1>5, LineBack
<1> HIDE DEF l, seen
<1>7. Append(lines[o], l) \in Seq(Lines) /\ Len(Append(lines[o], l)) = k + 1
  BY <1>1, <1>6
<1>8. FwShape'
  BY <1>1, <1>2, <1>7 DEF FwShape, Places
<1>9. at'[o] = "action" /\ lines'[o] = Append(lines[o], l)
  BY <1>1, <1>2 DEF FwShape
<1>10. Orderly(o)'
  BY <1>1, <1>2, <1>3, <1>7, <1>9 DEF Orderly
<1>11. Saving(o)'
  <2> SUFFICES ASSUME calm[o]
               PROVE  /\ n[o] = Len(base[o]) /\ n[o] <= g_n
                      /\ \A s \in 0..(n[o] - 1) : g_rules[s] = base[o][s + 1]
                      /\ RulesOf(Append(lines[o], l)) = SubSeq(base[o], 1, Len(Append(lines[o], l)))
    <3>1. at'[o] # "rest"
      BY <1>9
    <3> QED
      BY <1>2, <1>9, <3>1, Zenon DEF Saving
  <2>1. /\ n[o] = Len(base[o]) /\ n[o] <= g_n
        /\ \A s \in 0..(n[o] - 1) : g_rules[s] = base[o][s + 1]
        /\ RulesOf(lines[o]) = SubSeq(base[o], 1, k)
        /\ part[o] = base[o][k + 1].action
    BY <1>1, <1>2, Zenon DEF Saving
  <2>2. k \in 0..(n[o] - 1)
    BY <1>1, <1>3
  <2>3. g_rules[k] = base[o][k + 1]
    BY <2>1, <2>2
  <2>4. seen = base[o][k + 1]
    BY <1>4, <2>1, <2>3 DEF seen, Parsed, Rules
  <2>5. RulesOf(Append(lines[o], l)) = SubSeq(base[o], 1, k) \o <<base[o][k + 1]>>
    BY <1>1, <1>6, <2>1, <2>4, RulesAppend
  <2>6. k \in Nat /\ k < Len(base[o]) /\ base[o] \in Seq(Parsed)
    BY <1>1, <1>3, <2>1
  <2>7. SubSeq(base[o], 1, k) \o <<base[o][k + 1]>> = SubSeq(base[o], 1, k + 1)
    <3> HIDE DEF k
    <3> QED
      BY ONLY <2>6, SMTT(30)
  <2> QED
    BY <1>7, <2>1, <2>5, <2>7
<1>12. Written(o)' /\ Opened(o)' /\ Loading(o)'
  BY <1>9 DEF Written, Opened, Loading
<1>13. \A p \in Admins : p # o => SameOf(p) /\ calm'[p] = calm[p]
  BY <1>1, <1>2 DEF SameOf, FwShape
<1>14. \A p \in Admins : p # o => Command(p)'
  BY <1>2, <1>13, QuietStep DEF tvars
<1> QED
  BY <1>8, <1>10, <1>11, <1>12, <1>14 DEF FwInv, Command

(* It has a line for every rule it counted.                                *)
LEMMA SerializedKeeps ==
  ASSUME FwInv, NEW o \in Admins, Serialized(o)
  PROVE  FwInv'
<1>1. /\ FwShape /\ Orderly(o) /\ Saving(o) /\ g_n \in Nat /\ n[o] \in Nat
      /\ Len(lines[o]) \in Nat /\ base[o] \in Seq(Parsed)
  BY ShapeOf
<1>2. /\ at[o] = "action" /\ ~ (Len(lines[o]) < n[o] /\ Len(lines[o]) < g_n)
      /\ at' = [at EXCEPT ![o] = "write"]
      /\ UNCHANGED <<g_rules, g_n, file, n, part, lines, todo, base, calm>>
  BY DEF Serialized, MoreRules, Here, Goto, tvars, svars
<1>3. FwShape'
  BY <1>1, <1>2 DEF FwShape, Places
<1>4. at'[o] = "write"
  BY <1>1, <1>2 DEF FwShape
<1>5. Orderly(o)'
  BY <1>1, <1>2, <1>4 DEF Orderly
<1>6. Written(o)'
  <2> SUFFICES ASSUME calm[o] PROVE RulesOf(lines[o]) = base[o]
    BY <1>2, Zenon DEF Written
  <2>1. n[o] = Len(base[o]) /\ n[o] <= g_n /\ RulesOf(lines[o]) = SubSeq(base[o], 1, Len(lines[o]))
    BY <1>1, <1>2, Zenon DEF Saving
  <2>2. Len(lines[o]) = Len(base[o])
    BY <1>1, <1>2, <2>1 DEF Orderly
  <2>3. SubSeq(base[o], 1, Len(base[o])) = base[o]
    BY <1>1
  <2> QED
    BY <2>1, <2>2, <2>3
<1>7. Saving(o)' /\ Opened(o)' /\ Loading(o)'
  BY <1>4 DEF Saving, Opened, Loading
<1>9. \A p \in Admins : p # o => SameOf(p) /\ calm'[p] = calm[p]
  BY <1>1, <1>2 DEF SameOf, FwShape
<1>10. \A p \in Admins : p # o => Command(p)'
  BY <1>2, <1>9, QuietStep DEF tvars
<1> QED
  BY <1>3, <1>5, <1>6, <1>7, <1>10 DEF FwInv, Command
-----------------------------------------------------------------------------
(* It writes the file, or fails.                                           *)
LEMMA WriteKeeps ==
  ASSUME FwInv, NEW o \in Admins, Write(o)
  PROVE  FwInv'
<1>1. FwShape /\ lines[o] \in Seq(Lines) /\ MAX_RULE \in Nat \ {0}
  BY ShapeOf
<1>2. /\ file' \in {file, lines[o]} /\ n' = [n EXCEPT ![o] = 0] /\ lines' = [lines EXCEPT ![o] = << >>]
      /\ base' = [base EXCEPT ![o] = << >>] /\ calm' = [calm EXCEPT ![o] = TRUE]
      /\ at' = [at EXCEPT ![o] = "idle"]
      /\ UNCHANGED <<g_rules, g_n, part, todo>>
  BY DEF Write, Goto, tvars
<1>3. 0 \in 0..MAX_RULE /\ << >> \in Seq(Lines) /\ << >> \in Seq(Parsed) /\ Len(<< >>) = 0
  BY <1>1
<1>4. FwShape'
  BY <1>1, <1>2, <1>3 DEF FwShape, Places
<1>5. at'[o] = "idle" /\ lines'[o] = << >> /\ n'[o] = 0
  BY <1>1, <1>2 DEF FwShape
<1>6. Orderly(o)'
  BY <1>3, <1>5 DEF Orderly
<1>7. Saving(o)' /\ Written(o)' /\ Opened(o)' /\ Loading(o)'
  BY <1>5 DEF Saving, Written, Opened, Loading
<1>8. \A p \in Admins : p # o => SameOf(p) /\ calm'[p] = calm[p]
  BY <1>1, <1>2 DEF SameOf, FwShape
<1>9. \A p \in Admins : p # o => Command(p)'
  BY <1>2, <1>8, QuietStep DEF tvars
<1> QED
  BY <1>4, <1>6, <1>7, <1>9 DEF FwInv, Command

(* putconf replaces the file.                                              *)
LEMMA PutconfKeeps ==
  ASSUME FwInv, NEW o \in Admins, Putconf(o)
  PROVE  FwInv'
<1>1. FwShape /\ Orderly(o)
  BY ShapeOf
<1>2. /\ at[o] = "idle" /\ file' \in Files /\ at' = [at EXCEPT ![o] = "open"]
      /\ UNCHANGED <<g_rules, g_n, n, part, lines, todo, base, calm>>
  BY DEF Putconf, Begin, Goto, tvars, svars
<1>3. FwShape'
  BY <1>1, <1>2, FirewallAssumption DEF FwShape, Places
<1>4. at'[o] = "open"
  BY <1>1, <1>2 DEF FwShape
<1>5. Orderly(o)'
  BY <1>1, <1>2, <1>4 DEF Orderly
<1>6. Saving(o)' /\ Written(o)' /\ Opened(o)' /\ Loading(o)'
  BY <1>4 DEF Saving, Written, Opened, Loading
<1>7. \A p \in Admins : p # o => SameOf(p) /\ calm'[p] = calm[p]
  BY <1>1, <1>2 DEF SameOf, FwShape
<1>8. \A p \in Admins : p # o => Command(p)'
  BY <1>2, <1>7, QuietStep DEF tvars
<1> QED
  BY <1>3, <1>5, <1>6, <1>8 DEF FwInv, Command

(* A load opens the file.                                                  *)
LEMMA OpenKeeps ==
  ASSUME FwInv, NEW o \in Admins, Open(o)
  PROVE  FwInv'
<1>1. FwShape /\ Orderly(o) /\ file \in Seq(Lines)
  BY ShapeOf DEF FwShape
<1>2. /\ at[o] \in {"idle", "open"} /\ at' = [at EXCEPT ![o] = "clear"]
      /\ todo' = [todo EXCEPT ![o] = file] /\ base' = [base EXCEPT ![o] = RulesOf(file)]
      /\ UNCHANGED <<g_rules, g_n, file, n, part, lines, calm>>
  BY DEF Open, Begin, Goto, tvars, svars
<1>3. RulesOf(file) \in Seq(Parsed)
  BY <1>1, RulesType
<1>4. FwShape'
  BY <1>1, <1>2, <1>3 DEF FwShape, Places
<1>5. at'[o] = "clear" /\ base'[o] = RulesOf(todo'[o])
  BY <1>1, <1>2 DEF FwShape
<1>6. Orderly(o)'
  BY <1>1, <1>2, <1>5 DEF Orderly
<1>7. Saving(o)' /\ Written(o)' /\ Opened(o)' /\ Loading(o)'
  BY <1>5 DEF Saving, Written, Opened, Loading
<1>8. \A p \in Admins : p # o => SameOf(p) /\ calm'[p] = calm[p]
  BY <1>1, <1>2 DEF SameOf, FwShape
<1>9. \A p \in Admins : p # o => Command(p)'
  BY <1>2, <1>8, QuietStep DEF tvars
<1> QED
  BY <1>4, <1>6, <1>7, <1>9 DEF FwInv, Command

(* It clears the table, which disturbs the others.                         *)
LEMMA ClearKeeps ==
  ASSUME FwInv, NEW o \in Admins, fw_clear(o)
  PROVE  FwInv'
<1>1. /\ FwShape /\ Orderly(o) /\ Opened(o) /\ todo[o] \in Seq(Lines) /\ base[o] \in Seq(Parsed)
      /\ MAX_RULE \in Nat \ {0}
  BY ShapeOf
<1>2. /\ at[o] = "clear" /\ g_n' = 0 /\ at' = [at EXCEPT ![o] = "load"]
      /\ calm' = [p \in Admins |-> p = o \/ (calm[p] /\ at[p] \notin {"load", "action", "rest"})]
      /\ UNCHANGED <<g_rules, file, n, part, lines, todo, base>>
  BY DEF fw_clear, Cleared, Goto, svars
<1>3. 0 \in 0..MAX_RULE /\ g_n' \in Nat /\ calm' \in [Admins -> BOOLEAN]
  BY <1>1, <1>2
<1>4. FwShape'
  BY <1>1, <1>2, <1>3 DEF FwShape, Places
<1>5. at'[o] = "load"
  BY <1>1, <1>2 DEF FwShape
<1>6. Orderly(o)'
  BY <1>1, <1>2, <1>5 DEF Orderly
<1>7. Saving(o)' /\ Written(o)' /\ Opened(o)'
  BY <1>5 DEF Saving, Written, Opened
<1>8. Loading(o)'
  <2>1. base'[o] = RulesOf(todo'[o]) /\ RulesOf(todo'[o]) \in Seq(Parsed)
    BY <1>1, <1>2, RulesType DEF Opened
  <2>2. << >> \in Seq(Parsed) /\ base'[o] = << >> \o RulesOf(todo'[o])
    BY <2>1, ConcatNone
  <2>3. Holds(<< >>)'
    BY <1>1, <1>2 DEF Holds
  <2> QED
    BY <2>2, <2>3, Zenon DEF Loading
<1>9. ASSUME NEW p \in Admins, p # o PROVE SameOf(p) /\ Spared(p)
  <2>1. SameOf(p)
    BY <1>1, <1>2, <1>9 DEF SameOf, FwShape
  <2>2. calm'[p] => calm[p] /\ at[p] \notin {"load", "action", "rest"}
    BY <1>2, <1>9, Zenon
  <2> QED
    BY <2>1, <2>2, Zenon DEF Spared
<1>10. \A p \in Admins : p # o => Command(p)'
  BY <1>3, <1>9, OthersKept
<1> QED
  BY <1>4, <1>6, <1>7, <1>8, <1>10 DEF FwInv, Command

(* One more line read: the table holds what it says too.                   *)
LEMMA HoldsMore ==
  ASSUME FwShape, NEW D \in Seq(Parsed), Holds(D), NEW rs \in Seq(Parsed), Len(rs) <= 1, fw_add(rs)
  PROVE  Holds(D \o rs)'
<1>1. g_n \in 0..MAX_RULE /\ MAX_RULE \in Nat \ {0} /\ Len(D) \in Nat /\ g_n \in Nat
  BY FirewallAssumption DEF FwShape
<1>2. /\ g_n' \in 0..MAX_RULE /\ Grows
      /\ rs = << >> \/ g_n = MAX_RULE => tvars' = tvars
      /\ rs # << >> /\ g_n < MAX_RULE => g_n' = g_n + 1 /\ g_rules'[g_n] = rs[1] /\ rs = <<rs[1]>>
  BY AddIs
<1>3. /\ Len(D \o rs) = Len(D) + Len(rs) /\ Len(rs) \in Nat
      /\ \A i \in 1..Len(D) : (D \o rs)[i] = D[i]
      /\ \A i \in 1..Len(rs) : (D \o rs)[Len(D) + i] = rs[i]
  BY ConcatIs
<1>4. g_n = IF Len(D) < MAX_RULE THEN Len(D) ELSE MAX_RULE
  BY DEF Holds
<1>5. \A s \in 0..(g_n - 1) : g_rules[s] = D[s + 1] /\ s + 1 \in 1..Len(D)
  BY <1>1, <1>4 DEF Holds
<1>6. \A s \in 0..(g_n - 1) : g_rules'[s] = (D \o rs)[s + 1]
  BY <1>2, <1>3, <1>5 DEF Grows
<1>7. CASE rs = << >>
  <2>1. g_n' = g_n /\ Len(rs) = 0
    BY <1>2, <1>7, TvarsAre
  <2>2. Len(D \o rs) = Len(D)
    BY <1>1, <1>3, <2>1
  <2> QED
    BY <1>4, <1>6, <2>1, <2>2 DEF Holds
<1>8. CASE rs # << >> /\ g_n < MAX_RULE
  <2>1. /\ g_n' = g_n + 1 /\ g_rules'[g_n] = rs[1] /\ Len(rs) = 1 /\ Len(D) = g_n
    BY <1>1, <1>2, <1>4, <1>8
  <2>2. Len(D \o rs) = g_n + 1 /\ (D \o rs)[g_n + 1] = rs[1]
    BY <1>3, <2>1
  <2>3. \A s \in 0..g_n : s \in 0..(g_n - 1) \/ s = g_n
    BY <1>1
  <2>4. \A s \in 0..(g_n' - 1) : g_rules'[s] = (D \o rs)[s + 1]
    BY <1>1, <1>6, <2>1, <2>2, <2>3
  <2>5. g_n' = IF Len(D \o rs) < MAX_RULE THEN Len(D \o rs) ELSE MAX_RULE
    BY <1>1, <1>8, <2>1, <2>2
  <2> QED
    BY <2>4, <2>5 DEF Holds
<1>9. CASE rs # << >> /\ ~ (g_n < MAX_RULE)
  <2>1. g_n = MAX_RULE /\ g_n' = g_n
    BY <1>1, <1>2, <1>9, TvarsAre
  <2>2. ~ (Len(D \o rs) < MAX_RULE)
    BY <1>1, <1>3, <1>4, <2>1
  <2> QED
    BY <1>6, <2>1, <2>2 DEF Holds
<1> QED
  BY <1>7, <1>8, <1>9

(* It reads a line and adds its rule.                                      *)
LEMMA LoadLineKeeps ==
  ASSUME FwInv, NEW o \in Admins, LoadLine(o)
  PROVE  FwInv'
<1>1. /\ FwShape /\ Orderly(o) /\ Loading(o) /\ todo[o] \in Seq(Lines) /\ base[o] \in Seq(Parsed)
      /\ MAX_RULE \in Nat \ {0}
  BY ShapeOf
<1> DEFINE l == todo[o][1]
           rest == RemoveAt(todo[o], 1)
<1>2. /\ at[o] = "load" /\ todo[o] # << >> /\ fw_add(ParseLine(l)) /\ todo' = [todo EXCEPT ![o] = rest]
      /\ calm' = [p \in Admins |-> calm[p] /\ (p = o \/ at[p] \notin IF tvars' = tvars THEN {} ELSE {"load"})]
      /\ UNCHANGED <<file, at, n, part, lines, base>>
  BY DEF LoadLine, NextLine, Disturb, svars
<1>3. l \in Lines /\ 1 \in DOMAIN todo[o]
  BY <1>1, <1>2
<1>4. ParseLine(l) \in Seq(Parsed) /\ Len(ParseLine(l)) <= 1
  BY <1>3, ParseLineIs
<1>5. rest \in Seq(Lines)
  BY <1>1, <1>3, RemoveIs
<1>6. RulesOf(todo[o]) = ParseLine(l) \o RulesOf(rest)
  BY <1>1, <1>2, RulesFirst
<1> HIDE DEF l, rest
<1>7. g_rules' \in [Slots -> Parsed] /\ g_n' \in 0..MAX_RULE /\ Grows /\ g_n' \in Nat
  BY <1>1, <1>2, <1>4, AddIs
<1>8. FwShape'
  BY <1>1, <1>2, <1>5, <1>7 DEF FwShape
<1>9. at'[o] = "load" /\ todo'[o] = rest /\ base'[o] = base[o]
  BY <1>1, <1>2 DEF FwShape
<1>10. Orderly(o)'
  BY <1>1, <1>2 DEF Orderly
<1>11. Saving(o)' /\ Written(o)' /\ Opened(o)'
  BY <1>9 DEF Saving, Written, Opened
<1>12. Loading(o)'
  <2> SUFFICES ASSUME calm'[o]
               PROVE  \E D \in Seq(Parsed) : base[o] = D \o RulesOf(rest) /\ Holds(D)'
    BY <1>9, Zenon DEF Loading
  <2>1. calm[o]
    BY <1>2, Zenon
  <2>2. PICK D \in Seq(Parsed) : base[o] = D \o RulesOf(todo[o]) /\ Holds(D)
    BY <1>1, <1>2, <2>1, Zenon DEF Loading
  <2>3. PICK P \in Seq(Parsed) : P = ParseLine(l)
    BY <1>4
  <2>4. Holds(D \o P)'
    BY <1>1, <1>2, <1>4, <2>2, <2>3, HoldsMore
  <2>5. PICK R \in Seq(Parsed) : R = RulesOf(rest)
    BY <1>5, RulesType
  <2>6. D \o (P \o R) = (D \o P) \o R /\ D \o P \in Seq(Parsed)
    <3>1. D \in Seq(Parsed) /\ P \in Seq(Parsed) /\ R \in Seq(Parsed)
      BY <2>2, <2>3, <2>5
    <3> QED
      BY ONLY <3>1, SMTT(30)
  <2>7. base[o] = D \o (P \o R)
    BY <1>6, <2>2, <2>3, <2>5
  <2> QED
    BY <2>4, <2>5, <2>6, <2>7
<1>13. ASSUME NEW p \in Admins, p # o PROVE SameOf(p) /\ Spared(p)
  <2>1. SameOf(p)
    BY <1>1, <1>2, <1>13 DEF SameOf, FwShape
  <2>2. calm'[p] => calm[p] /\ (at[p] = "load" => tvars' = tvars)
    BY <1>2, <1>13, Zenon
  <2> QED
    BY <1>7, <2>1, <2>2, TvarsAre, Zenon DEF Spared
<1>14. \A p \in Admins : p # o => Command(p)'
  BY <1>7, <1>13, OthersKept
<1> QED
  BY <1>8, <1>10, <1>11, <1>12, <1>14 DEF FwInv, Command

(* It is done.                                                             *)
LEMMA LoadedKeeps ==
  ASSUME FwInv, NEW o \in Admins, FwLoaded(o)
  PROVE  FwInv'
<1>1. FwShape /\ Orderly(o)
  BY ShapeOf
<1>2. /\ at[o] = "load" /\ at' = [at EXCEPT ![o] = "idle"]
      /\ base' = [base EXCEPT ![o] = << >>] /\ calm' = [calm EXCEPT ![o] = TRUE]
      /\ UNCHANGED <<g_rules, g_n, file, n, part, lines, todo>>
  BY DEF FwLoaded, Goto, tvars, svars
<1>3. FwShape'
  BY <1>1, <1>2 DEF FwShape, Places
<1>4. at'[o] = "idle"
  BY <1>1, <1>2 DEF FwShape
<1>5. Orderly(o)'
  BY <1>1, <1>2, <1>4 DEF Orderly
<1>6. Saving(o)' /\ Written(o)' /\ Opened(o)' /\ Loading(o)'
  BY <1>4 DEF Saving, Written, Opened, Loading
<1>7. \A p \in Admins : p # o => SameOf(p) /\ calm'[p] = calm[p]
  BY <1>1, <1>2 DEF SameOf, FwShape
<1>8. \A p \in Admins : p # o => Command(p)'
  BY <1>2, <1>7, QuietStep DEF tvars
<1> QED
  BY <1>3, <1>5, <1>6, <1>8 DEF FwInv, Command
-----------------------------------------------------------------------------
(* The least of two numbers, and of the numbers of a set.                  *)
LEMMA MinIs ==
  ASSUME NEW S \in SUBSET Nat, NEW x \in S, \A y \in S : x <= y
  PROVE  Min(S) = x
<1>1. Min(S) \in S /\ \A y \in S : Min(S) <= y
  BY DEF Min
<1>2. Min(S) \in Nat /\ x \in Nat
  BY <1>1
<1>3. Min(S) <= x /\ x <= Min(S)
  BY <1>1
<1> QED
  BY <1>2, <1>3

(* The lesser of two.                                                      *)
LEMMA MinTwo ==
  ASSUME NEW a \in Nat, NEW b \in Nat
  PROVE  Min({a, b}) = IF a < b THEN a ELSE b
<1>1. CASE a < b
  BY <1>1, MinIs
<1>2. CASE ~ (a < b)
  BY <1>2, MinIs
<1> QED
  BY <1>1, <1>2

(* A slot that was never used holds a rule a line could say.               *)
LEMMA ZeroIs == Zero \in Parsed
<1>1. Wild \in Ranges /\ NoWord \in Words
  BY WildIs, FirewallAssumption
<1>2. Zero \in Rules
  BY <1>1 DEF Zero, Rules, Ranges
<1>3. 0 \in Ports
  BY DEF Ports
<1> QED
  BY <1>1, <1>2, <1>3 DEF Zero, Parsed

(* What main loaded before the threads started.                            *)
LEMMA FwStart == FwInit => FwInv
<1> SUFFICES ASSUME FwInit PROVE FwInv
  OBVIOUS
<1>1. file \in Seq(Lines) /\ MAX_RULE \in Nat \ {0}
  BY FirewallAssumption DEF FwInit
<1>2. PICK found \in Seq(Parsed) : found = RulesOf(file)
  BY <1>1, RulesType
<1>3. Len(found) \in Nat /\ \A i \in 1..Len(found) : found[i] \in Parsed
  BY <1>2
<1>4. g_n \in 0..MAX_RULE
  <2>1. g_n = Min({Len(found), MAX_RULE})
    BY <1>2 DEF FwInit
  <2>2. g_n = IF Len(found) < MAX_RULE THEN Len(found) ELSE MAX_RULE
    BY <1>1, <1>3, <2>1, MinTwo
  <2> QED
    BY <1>1, <1>3, <2>2
<1>5. g_rules \in [Slots -> Parsed]
  <2>1. g_rules = [s \in Slots |-> IF s < Len(found) THEN found[s + 1] ELSE Zero]
    BY <1>2 DEF FwInit
  <2>2. \A s \in Slots : s < Len(found) => s + 1 \in 1..Len(found)
    BY <1>1, <1>3 DEF Slots
  <2> QED
    BY <1>3, <2>1, <2>2, ZeroIs
<1>6. << >> \in Seq(Lines) /\ << >> \in Seq(Parsed) /\ 0 \in 0..MAX_RULE /\ Len(<< >>) = 0
  BY <1>1
<1>7. FwShape
  BY <1>1, <1>4, <1>5, <1>6 DEF FwInit, Unread, FwShape, Places
<1>8. ASSUME NEW o \in Admins PROVE Command(o)
  <2>1. at[o] = "idle" /\ lines[o] = << >> /\ n[o] = 0
    BY DEF FwInit, Unread
  <2>2. Orderly(o)
    BY <1>6, <2>1 DEF Orderly
  <2> QED
    BY <2>1, <2>2 DEF Command, Saving, Written, Opened, Loading
<1> QED
  BY <1>7, <1>8 DEF FwInv

(* Nothing happens.                                                        *)
LEMMA FwStutter ==
  ASSUME FwInv, UNCHANGED fwvars
  PROVE  FwInv'
<1>1. UNCHANGED <<g_rules, g_n, file, at, n, part, lines, todo, base, calm>>
  BY DEF fwvars, tvars, svars
<1>2. FwShape' /\ g_n' \in Nat
  BY <1>1, FirewallAssumption DEF FwInv, FwShape
<1>3. ASSUME NEW p \in Admins PROVE Command(p)'
  <2>1. FwShape /\ Command(p)
    BY DEF FwInv
  <2>2. SameOf(p) /\ Grows
    BY <1>1, <1>2 DEF SameOf, Grows
  <2>3. Spared(p)
    <3>1. calm' = calm /\ g_n' = g_n /\ g_rules' = g_rules
      BY <1>1
    <3> QED
      BY <2>2, <3>1, Zenon DEF Spared
  <2> QED
    BY <1>2, <2>1, <2>2, <2>3, CommandKept
<1> QED
  BY <1>2, <1>3 DEF FwInv

(* Every step keeps the invariant of the rule table.                       *)
LEMMA FwStep == FwInv /\ [FwNext]_fwvars => FwInv'
<1> SUFFICES ASSUME FwInv, [FwNext]_fwvars PROVE FwInv'
  OBVIOUS
<1>1. ASSUME NEW o \in Admins, addfw(o) \/ delfw(o) PROVE FwInv'
  BY <1>1, AddfwKeeps, DelfwKeeps
<1>2. ASSUME NEW o \in Admins, Save(o) PROVE FwInv'
  BY <1>2, CountKeeps, ReadActionKeeps, ReadRestKeeps, SerializedKeeps, WriteKeeps DEF Save
<1>3. ASSUME NEW o \in Admins, Load(o) PROVE FwInv'
  BY <1>3, PutconfKeeps, OpenKeeps, ClearKeeps, LoadLineKeeps, LoadedKeeps DEF Load
<1>4. CASE Spent
  BY <1>4, FwStutter DEF Spent
<1>5. CASE UNCHANGED fwvars
  BY <1>5, FwStutter
<1> QED
  BY <1>1, <1>2, <1>3, <1>4, <1>5 DEF FwNext

(* So it always holds.                                                     *)
LEMMA FwSafe == FwSpec => []FwInv
<1> QED
  BY FwStart, FwStep, PTL DEF FwSpec

(* FwTypeOK for every file, command and number of threads: the rules keep  *)
(* within MAX_RULE, and config_serialize, which holds no lock, never makes *)
(* more lines than it counted.                                             *)
THEOREM FwTypeCorrect == FwSpec => []FwTypeOK
<1>1. FwInv => FwTypeOK
  <2> SUFFICES ASSUME FwInv PROVE FwTypeOK
    OBVIOUS
  <2>1. g_rules \in [Slots -> Rules]
    BY DEF FwInv, FwShape, Parsed
  <2>2. \A o \in Admins : Len(lines[o]) <= n[o]
    BY DEF FwInv, Command, Orderly
  <2> QED
    BY <2>1, <2>2 DEF FwInv, FwShape, FwTypeOK
<1> QED
  BY <1>1, FwSafe, PTL

(* config_serialize and config_load: what a save wrote is read back as the *)
(* rules that stood when they were counted, although no lock is held, if   *)
(* others only added rules.                                                *)
THEOREM SaveReadsBack == FwSpec => []SaveFaithful
<1>1. FwInv => SaveFaithful
  BY Zenon DEF FwInv, Command, Written, SaveFaithful
<1> QED
  BY <1>1, FwSafe, PTL

(* A load nobody disturbs has the first rules of its file in the table.    *)
LEMMA LoadPrefix ==
  ASSUME FwInv, NEW o \in Admins, at[o] = "load", calm[o]
  PROVE  \E D \in Seq(Parsed) : /\ base[o] = D \o RulesOf(todo[o]) /\ Holds(D)
                                /\ Len(D) <= Len(base[o]) /\ Len(base[o]) \in Nat
                                /\ Len(D) \in Nat
                                /\ g_n = IF Len(D) < MAX_RULE THEN Len(D) ELSE MAX_RULE
                                /\ \A i \in 1..g_n : Table[i] = base[o][i]
                                /\ \A i \in 1..g_n : Table[i] = D[i]
<1>1. /\ FwShape /\ Loading(o) /\ todo[o] \in Seq(Lines) /\ base[o] \in Seq(Parsed)
      /\ g_n \in Nat /\ MAX_RULE \in Nat \ {0}
  BY ShapeOf
<1>2. PICK D \in Seq(Parsed) : base[o] = D \o RulesOf(todo[o]) /\ Holds(D)
  BY <1>1, Zenon DEF Loading
<1>3. PICK R \in Seq(Parsed) : R = RulesOf(todo[o])
  BY <1>1, RulesType
<1>4. /\ Len(D \o R) = Len(D) + Len(R) /\ Len(D) \in Nat /\ Len(R) \in Nat
      /\ \A i \in 1..Len(D) : (D \o R)[i] = D[i]
  BY <1>2, <1>3, ConcatIs
<1>5. Len(D) <= Len(base[o]) /\ Len(base[o]) \in Nat
  BY <1>2, <1>3, <1>4
<1>6. g_n = IF Len(D) < MAX_RULE THEN Len(D) ELSE MAX_RULE
  BY <1>2 DEF Holds
<1>7. ASSUME NEW i \in 1..g_n PROVE Table[i] = D[i] /\ i \in 1..Len(D)
  <2>1. i - 1 \in 0..(g_n - 1) /\ (i - 1) + 1 = i /\ i \in 1..Len(D)
    BY <1>1, <1>4, <1>6
  <2>2. g_rules[i - 1] = D[(i - 1) + 1]
    BY <1>2, <2>1 DEF Holds
  <2> QED
    BY <1>1, <2>1, <2>2, TableIs
<1>8. \A i \in 1..g_n : Table[i] = base[o][i]
  BY <1>2, <1>3, <1>4, <1>7
<1> QED
  BY <1>2, <1>4, <1>5, <1>6, <1>7, <1>8

(* config_load: a reload nobody interferes with ends with the rules of the *)
(* file, in order, as many as fit.                                         *)
THEOREM ReloadEnds == FwSpec => []ReloadFaithful
<1>1. FwInv => ReloadFaithful
  <2> SUFFICES ASSUME FwInv, NEW o \in Admins, at[o] = "load", todo[o] = << >>, calm[o]
               PROVE  Table = SubSeq(base[o], 1, Min({Len(base[o]), MAX_RULE}))
    BY Zenon DEF ReloadFaithful
  <2>1. /\ FwShape /\ base[o] \in Seq(Parsed) /\ g_n \in Nat /\ MAX_RULE \in Nat \ {0}
    BY ShapeOf
  <2>2. PICK D \in Seq(Parsed) : /\ base[o] = D \o RulesOf(todo[o]) /\ Len(D) \in Nat
                                 /\ g_n = IF Len(D) < MAX_RULE THEN Len(D) ELSE MAX_RULE
                                 /\ \A i \in 1..g_n : Table[i] = D[i]
    BY LoadPrefix
  <2>3. base[o] = D
    BY <2>2, RulesNone, ConcatNone
  <2>4. g_n = Min({Len(base[o]), MAX_RULE})
    BY <2>1, <2>2, <2>3, MinTwo
  <2>5. g_n <= Len(base[o])
    BY <2>1, <2>2, <2>3
  <2>6. /\ SubSeq(D, 1, g_n) \in Seq(Parsed) /\ Len(SubSeq(D, 1, g_n)) = g_n
        /\ \A i \in 1..g_n : SubSeq(D, 1, g_n)[i] = D[i]
    <3>1. g_n \in Nat /\ g_n <= Len(D) /\ D \in Seq(Parsed)
      BY <2>1, <2>2, <2>3, <2>5
    <3> QED
      BY ONLY <3>1, SMTT(30)
  <2>7. Table \in Seq(Parsed) /\ Len(Table) = g_n
    BY <2>1, TableIs
  <2>8. Table = SubSeq(D, 1, g_n)
    <3>1. Len(Table) = Len(SubSeq(D, 1, g_n)) /\ \A i \in 1..Len(Table) : Table[i] = SubSeq(D, 1, g_n)[i]
      BY <2>2, <2>6, <2>7
    <3> QED
      BY <2>6, <2>7, <3>1, SameSeq
  <2> QED
    BY <2>3, <2>4, <2>8
<1> QED
  BY <1>1, FwSafe, PTL

(* fw_check: what the first rules drop, all of them drop.                  *)
LEMMA PrefixDecides ==
  ASSUME NEW s \in Seq(Parsed), NEW t \in Seq(Parsed), NEW f, Len(s) <= Len(t),
         \A i \in 1..Len(s) : s[i] = t[i], fw_check(s, f) = "drop"
  PROVE  fw_check(t, f) = "drop"
<1> DEFINE H == {i \in DOMAIN s : rule_match(s[i], f)}
           K == {i \in DOMAIN t : rule_match(t[i], f)}
<1>1. DOMAIN s = 1..Len(s) /\ DOMAIN t = 1..Len(t) /\ Len(s) \in Nat /\ Len(t) \in Nat
  OBVIOUS
<1>2. fw_check(s, f) = IF H = {} THEN "allow" ELSE s[Min(H)].action
  BY Zenon DEF fw_check
<1>3. fw_check(t, f) = IF K = {} THEN "allow" ELSE t[Min(K)].action
  BY Zenon DEF fw_check
<1>4. H # {} /\ s[Min(H)].action = "drop"
  BY <1>2
<1>5. H \in SUBSET Nat /\ K \in SUBSET Nat
  BY <1>1
<1>6. PICK x \in H : \A y \in H : x <= y
  BY <1>4, <1>5, Minimum
<1>7. x \in 1..Len(s) /\ x \in K
  BY <1>1, <1>6
<1>8. ASSUME NEW y \in K PROVE x <= y
  <2>1. CASE y <= Len(s)
    <3>1. y \in H
      BY <1>1, <2>1
    <3> QED
      BY <1>6, <3>1
  <2>2. CASE ~ (y <= Len(s))
    BY <1>1, <1>7, <2>2
  <2> QED
    BY <2>1, <2>2
<1>9. Min(H) = x /\ Min(K) = x
  <2> HIDE DEF H, K
  <2> QED
    BY <1>5, <1>6, <1>7, <1>8, MinIs
<1> QED
  BY <1>3, <1>4, <1>7, <1>9

(* config_load against fw_check: while a calm reload adds line after line, *)
(* no frame is dropped that the whole file allows.                         *)
THEOREM ReloadNeverCloses == FwSpec => []ReloadOnlyOpens
<1>1. FwInv => ReloadOnlyOpens
  <2> SUFFICES ASSUME FwInv, NEW o \in Admins, at[o] = "load", calm[o], NEW f \in Frames,
                      fw_check(Table, f) = "drop"
               PROVE  fw_check(base[o], f) = "drop"
    BY Zenon DEF ReloadOnlyOpens
  <2>1. /\ FwShape /\ base[o] \in Seq(Parsed) /\ g_n \in Nat /\ MAX_RULE \in Nat \ {0}
    BY ShapeOf
  <2>2. PICK D \in Seq(Parsed) : /\ Len(D) <= Len(base[o]) /\ Len(base[o]) \in Nat /\ Len(D) \in Nat
                                 /\ g_n = IF Len(D) < MAX_RULE THEN Len(D) ELSE MAX_RULE
                                 /\ \A i \in 1..g_n : Table[i] = base[o][i]
    BY LoadPrefix
  <2>3. Table \in Seq(Parsed) /\ Len(Table) = g_n
    BY <2>1, TableIs
  <2>4. Len(Table) <= Len(base[o]) /\ \A i \in 1..Len(Table) : Table[i] = base[o][i]
    BY <2>1, <2>2, <2>3
  <2> QED
    BY <2>1, <2>3, <2>4, PrefixDecides
<1> QED
  BY <1>1, FwSafe, PTL
=============================================================================
