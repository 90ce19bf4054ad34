---------------------------- MODULE RemoteProofs ----------------------------
(***************************************************************************)
(* Proofs about remote connections and the upgrade session, for any        *)
(* number of connections, any lines and uploads, any sizes of buffer and   *)
(* block.  First the digest: a context is always a cut of the bytes handed *)
(* over, so sha256_final gives the standard's digest of them.  Then each   *)
(* connection's stream, which is whole where its thread expects lines and  *)
(* the rest of the upload where it expects payload.  Last the session,     *)
(* whose file is what its owner has consumed of its own stream.            *)
(***************************************************************************)
EXTENDS Remote, FiniteSetTheorems, WellFoundedInduction, TLAPS

-----------------------------------------------------------------------------
(* Loops, and the loop of sha256_update: after any number of calls the     *)
(* context is a cut of the bytes handed over.                              *)

(* A set of numbers that is not empty has a least element.                 *)
LEMMA Minimum ==
  ASSUME NEW S \in SUBSET Nat, S # {}
  PROVE  \E x \in S : \A y \in S : x <= y
<1>1. IsWellFoundedOn(OpToRel(<, Nat), Nat)
  BY NatLessThanWellFounded
<1>2. PICK x \in S : \A y \in S : ~ (<<y, x>> \in OpToRel(<, Nat))
  BY ONLY <1>1, WFMin, S \in SUBSET Nat, S # {}
<1>3. \A y \in S : y \in Nat /\ x \in Nat /\ ~ (y < x)
  BY <1>2 DEF OpToRel
<1> QED
  BY <1>3

(* A set of numbers that has 0, and with each number the next, has all up  *)
(* to N: induction over the steps of a loop.                               *)
LEMMA Climb ==
  ASSUME NEW N \in Nat, NEW S, 0 \in S, \A n \in 1..N : n - 1 \in S => n \in S
  PROVE  0..N \subseteq S
<1> DEFINE Bad == {n \in 0..N : n \notin S}
<1> SUFFICES ASSUME Bad # {} PROVE FALSE
  OBVIOUS
<1>1. PICK x \in Bad : \A y \in Bad : x <= y
  BY Minimum, Bad \in SUBSET Nat
<1>2. x \in 1..N /\ x - 1 \notin Bad
  BY <1>1
<1> QED
  BY <1>1, <1>2

(* f is what N steps of a loop pass through, from state a on, when step n  *)
(* takes a state s of X to F[n][s]; every loop has such an f.              *)
Loop(N, X, a, F, f) == /\ f \in [0..N -> X]
                       /\ f[0] = a
                       /\ \A n \in 1..N : f[n] = F[n][f[n - 1]]

(* Every loop of N steps has such an f.                                    *)
LEMMA LoopRuns ==
  ASSUME NEW N \in Nat, NEW X, NEW a \in X, NEW F \in [1..N -> [X -> X]]
  PROVE  \E f : Loop(N, X, a, F, f)
<1> SUFFICES \E f \in [0..N -> X] : f[0] = a /\ \A n \in 1..N : f[n] = F[n][f[n - 1]]
  BY DEF Loop
<1> DEFINE Run(m, f) == f[0] = a /\ \A n \in 1..m : f[n] = F[n][f[n - 1]]
           S == {m \in 0..N : \E f \in [0..m -> X] : Run(m, f)}
<1>1. 0 \in S
  <2>1. [n \in 0..0 |-> a] \in [0..0 -> X] /\ Run(0, [n \in 0..0 |-> a])
    OBVIOUS
  <2>2. \E f \in [0..0 -> X] : Run(0, f)
    <3> HIDE DEF Run
    <3> QED
      BY <2>1
  <2> HIDE DEF Run
  <2> QED
    BY <2>2
<1>2. ASSUME NEW m \in 1..N, m - 1 \in S PROVE m \in S
  <2>1. PICK f \in [0..(m - 1) -> X] : Run(m - 1, f)
    BY <1>2
  <2> DEFINE g == [n \in 0..m |-> IF n = m THEN F[m][f[m - 1]] ELSE f[n]]
  <2>2. F[m][f[m - 1]] \in X
    <3>1. m - 1 \in 0..(m - 1) /\ F[m] \in [X -> X]
      OBVIOUS
    <3> QED
      BY <3>1
  <2>3. g \in [0..m -> X]
    BY <2>2
  <2>4. g[0] = a
    BY <2>1
  <2>5. ASSUME NEW n \in 1..m PROVE g[n] = F[n][g[n - 1]]
    <3>1. CASE n = m
      <4>1. n - 1 \in 0..m /\ n - 1 # m /\ n \in 0..m
        BY <3>1
      <4>2. g[n - 1] = f[m - 1] /\ g[n] = F[m][f[m - 1]]
        BY <4>1, <3>1
      <4> QED
        BY <4>2, <3>1
    <3>2. CASE n # m
      <4>1. n \in 1..(m - 1) /\ n \in 0..m /\ n - 1 \in 0..m /\ n - 1 # m
        BY <3>2
      <4>2. g[n] = f[n] /\ g[n - 1] = f[n - 1]
        BY <4>1, <3>2
      <4> QED
        BY <4>1, <4>2, <2>1
    <3> QED
      BY <3>1, <3>2
  <2>6. Run(m, g)
    <3> HIDE DEF g
    <3> QED
      BY <2>4, <2>5
  <2>7. \E k \in [0..m -> X] : Run(m, k)
    <3> HIDE DEF g, Run
    <3> QED
      BY <2>3, <2>6
  <2> HIDE DEF Run
  <2> QED
    BY <2>7
<1>3. N \in S
  <2> HIDE DEF S
  <2>1. 0..N \subseteq S
    BY <1>1, <1>2, Climb
  <2> QED
    BY <2>1
<1> QED
  BY <1>3
-----------------------------------------------------------------------------
(* Part p of s.                                                            *)
LEMMA SubSeqIs ==
  ASSUME NEW X, NEW s \in Seq(X), NEW a \in Nat \ {0}, NEW b \in Nat, b <= Len(s), a <= b + 1
  PROVE  /\ SubSeq(s, a, b) \in Seq(X)
         /\ Len(SubSeq(s, a, b)) = (b - a) + 1
         /\ \A i \in 1..((b - a) + 1) : SubSeq(s, a, b)[i] = s[(i + a) - 1]
BY SMTT(30)

(* Sequences of one length with the same elements are the same.            *)
LEMMA SameSeq ==
  ASSUME NEW X, NEW s \in Seq(X), NEW t \in Seq(X), Len(s) = Len(t),
         \A i \in 1..Len(s) : s[i] = t[i]
  PROVE  s = t
BY SMTT(30)

(* What a concatenation is made of.                                        *)
LEMMA ConcatIs ==
  ASSUME NEW X, NEW s \in Seq(X), NEW t \in Seq(X)
  PROVE  /\ s \o t \in Seq(X) /\ Len(s \o t) = Len(s) + Len(t)
         /\ \A i \in 1..Len(s) : (s \o t)[i] = s[i]
         /\ \A i \in 1..Len(t) : (s \o t)[Len(s) + i] = t[i]
BY SMTT(30)

(* Two parts that meet make one part.                                      *)
LEMMA Split3 ==
  ASSUME NEW X, NEW s \in Seq(X), NEW a \in 1..(Len(s)+1), NEW b \in (a-1)..Len(s),
         NEW c \in b..Len(s)
  PROVE SubSeq(s, a, b) \o SubSeq(s, b + 1, c) = SubSeq(s, a, c)
BY SMTT(30)
(* The first k and the other bytes of what follows n bytes.                *)
LEMMA SubSub ==
  ASSUME NEW X, NEW s \in Seq(X), NEW n \in 0..Len(s), NEW k \in 0..(Len(s) - n)
  PROVE  /\ SubSeq(SubSeq(s, n+1, Len(s)), 1, k) = SubSeq(s, n+1, n+k)
         /\ SubSeq(SubSeq(s, n+1, Len(s)), k+1, Len(SubSeq(s, n+1, Len(s))))
              = SubSeq(s, n+k+1, Len(s))
BY SMTT(30)

Whole(q) == BLOCK * q

(* Whole blocks, one at a time.                                            *)
LEMMA WholeIs ==
  /\ Whole(0) = 0
  /\ \A q \in Nat : Whole(q) \in Nat /\ Whole(q + 1) = Whole(q) + BLOCK
  /\ \A q \in Nat \ {0} : Whole(q) = Whole(q - 1) + BLOCK
  /\ BLOCK \in Nat \ {0}
BY BlockAssumption, SMTT(30) DEF Whole

Context(c) == /\ c = [state |-> c.state, bitlen |-> c.bitlen, buf |-> c.buf]
              /\ c.state \in Seq(Seq(Nat)) /\ c.buf \in Seq(Nat)
              /\ Len(c.buf) < BLOCK

(* A turn of the loop takes bytes of the rest, one at least.               *)
Takes(t, u, k, buf) ==
  /\ k \in 1..Len(t.rest)
  /\ buf = t.ctx.buf \o SubSeq(t.rest, 1, k) /\ Len(buf) = Len(t.ctx.buf) + k
  /\ u.rest = SubSeq(t.rest, k + 1, Len(t.rest))
  /\ u.ctx.bitlen = t.ctx.bitlen
  /\ Context(u.ctx)
  /\ \/ Len(buf) = BLOCK /\ u.ctx.state = Append(t.ctx.state, buf) /\ u.ctx.buf = <<>>
     \/ Len(buf) < BLOCK /\ u.ctx.state = t.ctx.state /\ u.ctx.buf = buf

(* A turn fills the buffer up to a block, or takes all there is.           *)
LEMMA BufferFills ==
  ASSUME NEW bf \in Seq(Nat), Len(bf) < BLOCK, NEW rest \in Seq(Nat), rest # <<>>, NEW k,
         k = IF BLOCK - Len(bf) > Len(rest) THEN Len(rest) ELSE BLOCK - Len(bf)
  PROVE  /\ k \in 1..Len(rest)
         /\ bf \o SubSeq(rest, 1, k) \in Seq(Nat)
         /\ Len(bf \o SubSeq(rest, 1, k)) = Len(bf) + k
         /\ Len(bf) + k <= BLOCK
<1>1. Len(rest) \in Nat \ {0} /\ Len(bf) \in Nat /\ BLOCK \in Nat
  BY BlockAssumption
<1>2. k \in 1..Len(rest) /\ k <= BLOCK - Len(bf) /\ k \in Nat
  BY <1>1
<1>3. SubSeq(rest, 1, k) \in Seq(Nat)
  BY <1>1, <1>2, SubSeqIs
<1>4. Len(SubSeq(rest, 1, k)) = (k - 1) + 1
  BY <1>1, <1>2, SubSeqIs
<1>5. Len(SubSeq(rest, 1, k)) = k
  BY <1>2, <1>4
<1>6. /\ bf \o SubSeq(rest, 1, k) \in Seq(Nat)
      /\ Len(bf \o SubSeq(rest, 1, k)) = Len(bf) + k
  BY <1>3, <1>5, ConcatIs
<1>7. Len(bf) + k <= BLOCK
  BY <1>1, <1>2
<1> QED
  BY <1>2, <1>6, <1>7

(* A turn of the loop leaves a context and takes at least one byte.        *)
LEMMA TurnTakes ==
  ASSUME NEW t, Context(t.ctx), t.rest \in Seq(Nat), t.rest # <<>>
  PROVE  \E k, buf : Takes(t, Turn(t), k, buf)
<1>1. PICK k : k = IF BLOCK - Len(t.ctx.buf) > Len(t.rest) THEN Len(t.rest) ELSE BLOCK - Len(t.ctx.buf)
  OBVIOUS
<1>2. PICK buf : buf = t.ctx.buf \o SubSeq(t.rest, 1, k)
  OBVIOUS
<1>3. PICK c : c = t.ctx
  OBVIOUS
<1>4. PICK u : u = Turn(t)
  OBVIOUS
<1>5. u = [ctx |-> IF Len(buf) = BLOCK THEN transform(c, buf) ELSE [c EXCEPT !.buf = buf],
           rest |-> SubSeq(t.rest, k + 1, Len(t.rest))]
  BY <1>1, <1>2, <1>3, <1>4 DEF Turn, Room
<1>6. u.ctx = (IF Len(buf) = BLOCK THEN transform(c, buf) ELSE [c EXCEPT !.buf = buf])
  BY ONLY <1>5
<1>7. u.rest = SubSeq(t.rest, k + 1, Len(t.rest))
  BY ONLY <1>5
<1>8. c = [state |-> c.state, bitlen |-> c.bitlen, buf |-> c.buf]
  BY <1>3 DEF Context
<1>9. c.state \in Seq(Seq(Nat)) /\ c.buf \in Seq(Nat) /\ Len(c.buf) < BLOCK
  BY <1>3 DEF Context
<1>10. k \in 1..Len(t.rest) /\ buf \in Seq(Nat) /\ Len(buf) = Len(c.buf) + k /\ Len(buf) <= BLOCK
  BY <1>1, <1>2, <1>3, <1>9, BufferFills
<1>11. CASE Len(buf) = BLOCK
  <2>1. u.ctx = [state |-> Append(c.state, buf), bitlen |-> c.bitlen, buf |-> <<>>]
    BY ONLY <1>6, <1>8, <1>11 DEF transform
  <2>2. Append(c.state, buf) \in Seq(Seq(Nat)) /\ <<>> \in Seq(Nat) /\ Len(<<>>) < BLOCK
    BY <1>9, <1>10, BlockAssumption
  <2>3. Context(u.ctx)
    BY ONLY <2>1, <2>2 DEF Context
  <2>4. u.ctx.bitlen = c.bitlen /\ u.ctx.state = Append(c.state, buf) /\ u.ctx.buf = <<>>
    BY ONLY <2>1
  <2>5. Takes(t, u, k, buf)
    BY <1>2, <1>3, <1>7, <1>10, <1>11, <2>3, <2>4, Zenon DEF Takes
  <2> QED
    BY <1>4, <2>5
<1>12. CASE Len(buf) # BLOCK
  <2>0. u.ctx = [c EXCEPT !.buf = buf]
    BY ONLY <1>6, <1>12
  <2>1. u.ctx = [state |-> c.state, bitlen |-> c.bitlen, buf |-> buf]
    BY ONLY <2>0, <1>8
  <2>2. Len(buf) < BLOCK
    <3>1. Len(buf) \in Nat /\ BLOCK \in Nat
      BY <1>10, BlockAssumption
    <3> QED
      BY ONLY <3>1, <1>10, <1>12
  <2>6. c.state \in Seq(Seq(Nat)) /\ buf \in Seq(Nat)
    BY <1>9, <1>10
  <2>3. Context(u.ctx)
    BY ONLY <2>1, <2>2, <2>6 DEF Context
  <2>4. u.ctx.bitlen = c.bitlen /\ u.ctx.state = c.state /\ u.ctx.buf = buf
    BY ONLY <2>1
  <2>5. Takes(t, u, k, buf)
    BY <1>2, <1>3, <1>7, <1>10, <2>2, <2>3, <2>4, Zenon DEF Takes
  <2> QED
    BY <1>4, <2>5
<1> QED
  BY <1>11, <1>12

(* A context that has taken the first n bytes of m: whole blocks and the   *)
(* rest.                                                                   *)
Block(m, i) == SubSeq(m, Whole(i - 1) + 1, Whole(i))
Cut(c, m, n) ==
  /\ Context(c)
  /\ n = Whole(Len(c.state)) + Len(c.buf)
  /\ \A i \in 1..Len(c.state) : c.state[i] = Block(m, i)
  /\ c.buf = SubSeq(m, Whole(Len(c.state)) + 1, n)

More(m, w, n, bf, rest) ==
  /\ rest \in Seq(Nat) /\ Len(rest) = Len(m) - n /\ rest # <<>>
  /\ \A j \in 1..Len(rest) :
       /\ n + j \in (n + 1)..Len(m)
       /\ bf \o SubSeq(rest, 1, j) = SubSeq(m, w + 1, n + j)
       /\ SubSeq(rest, j + 1, Len(rest)) = SubSeq(m, (n + j) + 1, Len(m))

(* The buffer with more bytes behind it is still a part of m.              *)
LEMMA CutMore ==
  ASSUME NEW m \in Seq(Nat), NEW w \in Nat, NEW n \in Nat, w <= n, n < Len(m),
         NEW bf, bf = SubSeq(m, w + 1, n), NEW rest, rest = SubSeq(m, n + 1, Len(m))
  PROVE  More(m, w, n, bf, rest)
<1>1. Len(m) \in Nat /\ n + 1 \in Nat \ {0} /\ n + 1 <= Len(m) + 1
  OBVIOUS
<1>2. rest \in Seq(Nat) /\ Len(rest) = (Len(m) - (n + 1)) + 1
  BY <1>1, SubSeqIs
<1>3. Len(rest) = Len(m) - n /\ Len(rest) > 0
  BY ONLY <1>1, <1>2, n < Len(m), n \in Nat
<1>4. rest # <<>>
  BY ONLY <1>2, <1>3
<1>5. ASSUME NEW j \in 1..Len(rest)
      PROVE  /\ n + j \in (n + 1)..Len(m)
             /\ bf \o SubSeq(rest, 1, j) = SubSeq(m, w + 1, n + j)
             /\ SubSeq(rest, j + 1, Len(rest)) = SubSeq(m, (n + j) + 1, Len(m))
  <2>1. j \in Nat /\ n + j \in (n + 1)..Len(m)
    BY ONLY <1>1, <1>3, n \in Nat, j \in 1..Len(rest)
  <2>2. j \in 0..(Len(m) - n) /\ n \in 0..Len(m)
    BY ONLY <1>1, <1>3, n \in Nat, n < Len(m), j \in 1..Len(rest)
  <2>3. /\ SubSeq(rest, 1, j) = SubSeq(m, n + 1, n + j)
        /\ SubSeq(rest, j + 1, Len(rest)) = SubSeq(m, (n + j) + 1, Len(m))
    BY <2>2, SubSub
  <2>4. w + 1 \in 1..(Len(m) + 1) /\ n \in ((w + 1) - 1)..Len(m) /\ n + j \in n..Len(m)
    BY ONLY <1>1, <2>1, w \in Nat, n \in Nat, w <= n, n < Len(m)
  <2>5. SubSeq(m, w + 1, n) \o SubSeq(m, n + 1, n + j) = SubSeq(m, w + 1, n + j)
    BY <2>4, Split3
  <2> QED
    BY <2>1, <2>3, <2>5
<1> QED
  BY <1>2, <1>3, <1>4, <1>5 DEF More

(* A full buffer becomes the next block of m.                              *)
LEMMA CutBlock ==
  ASSUME NEW m \in Seq(Nat), NEW u, NEW st \in Seq(Seq(Nat)), NEW n \in Nat, n <= Len(m),
         NEW buf \in Seq(Nat),
         \A i \in 1..Len(st) : st[i] = Block(m, i),
         buf = SubSeq(m, Whole(Len(st)) + 1, n), Len(buf) = BLOCK,
         Context(u), u.state = Append(st, buf), u.buf = <<>>, n = Whole(Len(st)) + Len(buf)
  PROVE  Cut(u, m, n)
<1>1. PICK q : q = Len(st)
  OBVIOUS
<1>2. q \in Nat /\ BLOCK \in Nat \ {0}
  BY <1>1, BlockAssumption
<1>3. Whole(q + 1) = n /\ (q + 1) - 1 = q
  BY <1>1, <1>2, WholeIs
<1>4. Len(u.state) = q + 1 /\ u.state[q + 1] = buf
  BY ONLY <1>1, u.state = Append(st, buf), st \in Seq(Seq(Nat))
<1>5. ASSUME NEW i \in 1..q PROVE u.state[i] = st[i]
  BY ONLY <1>1, u.state = Append(st, buf), st \in Seq(Seq(Nat)), i \in 1..q
<1>6. buf = Block(m, q + 1)
  BY <1>1, <1>3 DEF Block
<1>7. ASSUME NEW i \in 1..(q + 1) PROVE u.state[i] = Block(m, i)
  <2>1. i \in 1..q \/ i = q + 1
    BY <1>2
  <2> QED
    BY <1>1, <1>4, <1>5, <1>6, <2>1
<1>8. SubSeq(m, n + 1, n) = <<>>
  <2>1. n + 1 \in Nat \ {0} /\ n + 1 <= n + 1
    OBVIOUS
  <2>2. SubSeq(m, n + 1, n) \in Seq(Nat) /\ Len(SubSeq(m, n + 1, n)) = (n - (n + 1)) + 1
    BY ONLY <2>1, SubSeqIs, m \in Seq(Nat), n \in Nat, n <= Len(m)
  <2>3. Len(SubSeq(m, n + 1, n)) = 0
    BY <2>2
  <2> QED
    BY ONLY <2>2, <2>3
<1>9. n = Whole(Len(u.state)) + Len(u.buf)
  BY <1>3, <1>4
<1> QED
  BY <1>3, <1>4, <1>7, <1>8, <1>9 DEF Cut

(* A turn takes the next bytes of m: the context stays a cut of m.         *)
LEMMA TurnCuts ==
  ASSUME NEW m \in Seq(Nat), NEW n \in Nat, n < Len(m), NEW t,
         Cut(t.ctx, m, n), t.rest = SubSeq(m, n + 1, Len(m))
  PROVE  \E k \in (n + 1)..Len(m) :
           /\ Cut(Turn(t).ctx, m, k) /\ Turn(t).rest = SubSeq(m, k + 1, Len(m))
           /\ Turn(t).ctx.bitlen = t.ctx.bitlen
<1>1. PICK st, bf, w, rest, u : /\ st = t.ctx.state /\ bf = t.ctx.buf /\ w = Whole(Len(st))
                                /\ rest = t.rest /\ u = Turn(t)
  OBVIOUS
<1>2. /\ Context(t.ctx) /\ st \in Seq(Seq(Nat)) /\ bf \in Seq(Nat)
      /\ n = w + Len(bf) /\ bf = SubSeq(m, w + 1, n)
      /\ \A i \in 1..Len(st) : st[i] = Block(m, i)
  BY <1>1 DEF Cut, Context
<1>13. st \in Seq(Seq(Nat)) /\ bf \in Seq(Nat) /\ n = w + Len(bf)
  BY <1>2
<1>14. bf = SubSeq(m, w + 1, n) /\ rest = SubSeq(m, n + 1, Len(m))
  BY <1>1, <1>2
<1>3. w \in Nat /\ Len(bf) \in Nat /\ w <= n
  <2>1. Len(st) \in Nat /\ Len(bf) \in Nat
    BY ONLY <1>13
  <2>2. w \in Nat
    BY <1>1, <2>1, WholeIs
  <2> QED
    BY ONLY <2>1, <2>2, <1>13
<1>15. More(m, w, n, bf, rest)
  BY <1>14, <1>3, CutMore
<1>4. /\ rest \in Seq(Nat) /\ Len(rest) = Len(m) - n /\ rest # <<>>
      /\ \A j \in 1..Len(rest) :
           /\ n + j \in (n + 1)..Len(m)
           /\ bf \o SubSeq(rest, 1, j) = SubSeq(m, w + 1, n + j)
           /\ SubSeq(rest, j + 1, Len(rest)) = SubSeq(m, (n + j) + 1, Len(m))
  BY <1>15, Zenon DEF More
<1>5. PICK j, buf : Takes(t, u, j, buf)
  BY <1>1, <1>2, <1>4, TurnTakes
<1>6. /\ j \in 1..Len(rest) /\ buf = bf \o SubSeq(rest, 1, j) /\ Len(buf) = Len(bf) + j
      /\ u.rest = SubSeq(rest, j + 1, Len(rest)) /\ u.ctx.bitlen = t.ctx.bitlen
      /\ Context(u.ctx)
      /\ \/ Len(buf) = BLOCK /\ u.ctx.state = Append(st, buf) /\ u.ctx.buf = <<>>
         \/ Len(buf) < BLOCK /\ u.ctx.state = st /\ u.ctx.buf = buf
  BY <1>1, <1>5, Zenon DEF Takes
<1>7. PICK k : k = n + j
  OBVIOUS
<1>8. /\ k \in (n + 1)..Len(m) /\ buf = SubSeq(m, w + 1, k)
      /\ u.rest = SubSeq(m, k + 1, Len(m))
  BY <1>4, <1>6, <1>7, Zenon
<1>9. k \in Nat /\ k <= Len(m) /\ k = w + Len(buf) /\ j \in Nat
  <2>1. k \in (n + 1)..Len(m) /\ j \in 1..Len(rest) /\ Len(buf) = Len(bf) + j
    BY <1>6, <1>8
  <2>2. Len(rest) \in Nat /\ Len(m) \in Nat
    BY <1>4
  <2> QED
    BY ONLY <2>1, <2>2, <1>3, <1>7, <1>13, n \in Nat
<1>10. CASE Len(buf) = BLOCK /\ u.ctx.state = Append(st, buf) /\ u.ctx.buf = <<>>
  <2>1. w + 1 \in Nat \ {0} /\ w + 1 <= k + 1
    BY ONLY <1>3, <1>8, <1>2, <1>9, n \in Nat
  <2>2. buf \in Seq(Nat)
    BY <1>8, <1>9, <2>1, SubSeqIs
  <2>3. Cut(u.ctx, m, k)
    BY <1>1, <1>2, <1>6, <1>8, <1>9, <1>10, <2>2, CutBlock
  <2> QED
    BY <1>1, <1>6, <1>8, <2>3
<1>11. CASE Len(buf) < BLOCK /\ u.ctx.state = st /\ u.ctx.buf = buf
  <2>1. Cut(u.ctx, m, k)
    BY <1>1, <1>2, <1>6, <1>8, <1>9, <1>11, Zenon DEF Cut
  <2> QED
    BY <1>1, <1>6, <1>8, <2>1
<1> QED
  BY <1>6, <1>10, <1>11

(* The loop of sha256_update on the bytes of m after the first n.          *)
Contexts == [state : Seq(Seq(Nat)), bitlen : Nat, buf : Seq(Nat)]
States == [ctx : Contexts, rest : Seq(Nat)]
Within(m, bits, t) ==
  \E n \in 0..Len(m) : /\ Cut(t.ctx, m, n)
                       /\ t.rest = SubSeq(m, n + 1, Len(m))
                       /\ t.ctx.bitlen = bits

(* What follows the first n bytes.                                         *)
LEMMA RestIs ==
  ASSUME NEW m \in Seq(Nat), NEW n \in 0..Len(m)
  PROVE  /\ SubSeq(m, n + 1, Len(m)) \in Seq(Nat)
         /\ Len(SubSeq(m, n + 1, Len(m))) = Len(m) - n
<1>1. Len(m) \in Nat /\ n + 1 \in Nat \ {0} /\ n + 1 <= Len(m) + 1 /\ Len(m) <= Len(m)
  OBVIOUS
<1>2. /\ SubSeq(m, n + 1, Len(m)) \in Seq(Nat)
      /\ Len(SubSeq(m, n + 1, Len(m))) = (Len(m) - (n + 1)) + 1
  BY <1>1, SubSeqIs
<1> QED
  BY <1>1, <1>2

(* A step of the loop stays within m and makes the rest shorter.           *)
LEMMA StepWithin ==
  ASSUME NEW m \in Seq(Nat), NEW bits \in Nat, NEW t \in States, Within(m, bits, t)
  PROVE  /\ Step(t) \in States /\ Within(m, bits, Step(t))
         /\ Len(t.rest) \in Nat /\ Len(Step(t).rest) \in Nat
         /\ t.rest # <<>> => Len(Step(t).rest) < Len(t.rest)
<1>1. PICK n \in 0..Len(m) : /\ Cut(t.ctx, m, n)
                             /\ t.rest = SubSeq(m, n + 1, Len(m))
                             /\ t.ctx.bitlen = bits
  BY DEF Within
<1>2. Len(m) \in Nat /\ n \in Nat /\ Len(t.rest) = Len(m) - n /\ Len(t.rest) \in Nat
  BY <1>1, RestIs
<1>3. CASE t.rest = <<>>
  BY <1>2, <1>3, Zenon DEF Step
<1>4. CASE t.rest # <<>>
  <2>1. t.rest \in Seq(Nat)
    BY <1>1, RestIs
  <2>2. n < Len(m)
    <3>1. Len(t.rest) # 0
      BY <2>1, <1>4
    <3> QED
      BY <3>1, <1>2
  <2>3. PICK k \in (n + 1)..Len(m) :
          /\ Cut(Turn(t).ctx, m, k) /\ Turn(t).rest = SubSeq(m, k + 1, Len(m))
          /\ Turn(t).ctx.bitlen = t.ctx.bitlen
    <3>1. Cut(t.ctx, m, n) /\ t.rest = SubSeq(m, n + 1, Len(m)) /\ n \in Nat
      BY <1>1, <1>2
    <3> QED
      BY ONLY <3>1, <2>2, TurnCuts, m \in Seq(Nat)
  <2>4. k \in 0..Len(m) /\ k > n
    BY <1>2
  <2>5. /\ Turn(t).rest \in Seq(Nat) /\ Len(Turn(t).rest) = Len(m) - k
    BY <2>3, <2>4, RestIs
  <2>6. Within(m, bits, Turn(t))
    BY <1>1, <2>3, <2>4 DEF Within
  <2>7. Turn(t) \in States
    <3>1. Turn(t) = [ctx |-> Turn(t).ctx, rest |-> Turn(t).rest]
      BY DEF Turn
    <3>2. Turn(t).ctx \in Contexts
      <4>1. Context(Turn(t).ctx) /\ Turn(t).ctx.bitlen \in Nat
        BY <1>1, <2>3 DEF Cut
      <4> QED
        BY ONLY <4>1 DEF Context, Contexts
    <3> QED
      BY ONLY <3>1, <3>2, <2>5 DEF States
  <2>8. Len(Turn(t).rest) \in Nat /\ Len(Turn(t).rest) < Len(t.rest)
    BY <1>2, <2>4, <2>5
  <2> QED
    BY <1>2, <1>4, <2>6, <2>7, <2>8 DEF Step
<1> QED
  BY <1>3, <1>4

(* The loop of sha256_update ends with nothing left, however many bytes a  *)
(* turn took.                                                              *)
LEMMA TurnsEnd ==
  ASSUME NEW m \in Seq(Nat), NEW bits \in Nat, NEW t \in States, Within(m, bits, t)
  PROVE  /\ Turns(t)[Len(t.rest)].rest = <<>>
         /\ Within(m, bits, Turns(t)[Len(t.rest)])
<1> DEFINE N == Len(t.rest)
           X == {s \in States : Within(m, bits, s)}
           F == [i \in 1..N |-> [s \in X |-> Step(s)]]
           ran == Turns(t)
<1>1. N \in Nat /\ t \in X
  BY StepWithin
<1>2. F \in [1..N -> [X -> X]]
  <2>1. \A s \in X : Step(s) \in X
    BY StepWithin
  <2> QED
    BY <2>1
<1> HIDE DEF X
<1>3. PICK f : Loop(N, X, t, F, f)
  <2> HIDE DEF F, N
  <2> QED
    BY <1>1, <1>2, LoopRuns
<1>4. \A i \in 1..N : i - 1 \in 0..N
  BY <1>1
<1>5. ASSUME NEW i \in 1..N PROVE f[i] = Step(f[i - 1])
  <2>1. f[i - 1] \in X
    BY <1>3, <1>4 DEF Loop
  <2> QED
    BY <1>3, <2>1 DEF Loop
<1>6. f = [i \in 0..Len(t.rest) |-> IF i = 0 THEN t ELSE Step(f[i - 1])]
  <2> DEFINE g == [i \in 0..N |-> IF i = 0 THEN t ELSE Step(f[i - 1])]
  <2>1. \A i \in 0..N : f[i] = g[i]
    BY <1>1, <1>3, <1>5 DEF Loop
  <2> QED
    BY <1>3, <2>1 DEF Loop
<1>7. ran = [i \in 0..Len(t.rest) |-> IF i = 0 THEN t ELSE Step(ran[i - 1])]
  BY <1>6, Zenon DEF Turns
<1> HIDE DEF ran, N
<1>8. ran[0] = t /\ \A i \in 1..N : ran[i] = Step(ran[i - 1])
  <2>1. ran = [i \in 0..N |-> IF i = 0 THEN t ELSE Step(ran[i - 1])]
    BY <1>7, Zenon DEF N
  <2>2. 0 \in 0..N /\ \A i \in 1..N : i \in 0..N /\ i # 0
    BY <1>1
  <2> QED
    BY ONLY <2>1, <2>2
<1> DEFINE Left(i) == Len(ran[i].rest)
           Done(i) == ran[i] \in X /\ Left(i) <= N - i
           S == {i \in 0..N : Done(i)}
<1>9. 0 \in S
  <2>1. Left(0) = N
    BY <1>8 DEF N
  <2> QED
    BY <1>1, <1>8, <2>1
<1>10. ASSUME NEW i \in 1..N, i - 1 \in S PROVE i \in S
  <2>1. ran[i - 1] \in X /\ Left(i - 1) <= N - (i - 1)
    BY <1>10
  <2>2. ran[i] = Step(ran[i - 1])
    BY <1>8
  <2>3. /\ ran[i] \in X
        /\ Left(i - 1) \in Nat /\ Left(i) \in Nat
        /\ ran[i - 1].rest # <<>> => Left(i) < Left(i - 1)
    BY <2>1, <2>2, StepWithin DEF X
  <2>4. ran[i - 1].rest = <<>> => Left(i) = 0
    <3> SUFFICES ASSUME ran[i - 1].rest = <<>> PROVE Left(i) = 0
      OBVIOUS
    <3>1. ran[i] = ran[i - 1]
      BY <2>2 DEF Step
    <3> QED
      BY <3>1
  <2>5. i \in Nat /\ i \in 0..N
    BY <1>1
  <2> HIDE DEF Left
  <2>6. Left(i) <= N - i
    BY <2>1, <2>3, <2>4, <2>5, <1>1
  <2> QED
    BY <2>3, <2>5, <2>6
<1>11. N \in S
  <2> HIDE DEF S
  <2>1. 0..N \subseteq S
    BY <1>1, <1>9, <1>10, Climb
  <2> QED
    BY <1>1, <2>1
<1>12. ran[N] \in X /\ Left(N) <= N - N
  BY <1>11
<1>13. ran[N] \in States /\ Within(m, bits, ran[N])
  BY <1>12 DEF X
<1>14. ran[N].rest = <<>>
  <2>1. ran[N].rest \in Seq(Nat)
    BY <1>13 DEF States
  <2>2. Len(ran[N].rest) <= 0
    BY <1>1, <1>12
  <2> QED
    BY <2>1, <2>2
<1> QED
  BY <1>13, <1>14 DEF ran, N

(* Only bitlen changes before the loop.                                    *)
LEMMA WithBits ==
  ASSUME NEW c, Context(c), NEW b
  PROVE  [c EXCEPT !.bitlen = b] = [state |-> c.state, bitlen |-> b, buf |-> c.buf]
<1>1. c = [state |-> c.state, bitlen |-> c.bitlen, buf |-> c.buf]
  BY DEF Context
<1>2. PICK x, y, z : x = c.state /\ y = c.bitlen /\ z = c.buf
  OBVIOUS
<1>3. c = [state |-> x, bitlen |-> y, buf |-> z]
  BY <1>1, <1>2, Zenon
<1>4. [c EXCEPT !.bitlen = b] = [state |-> x, bitlen |-> b, buf |-> z]
  BY ONLY <1>3
<1> QED
  BY <1>2, <1>4, Zenon

(* sha256_update on what follows the first n bytes of m.                   *)
LEMMA UpdateCuts ==
  ASSUME NEW m \in Seq(Nat), NEW n \in 0..Len(m), NEW c, Cut(c, m, n), c.bitlen = 8 * n,
         NEW data, data = SubSeq(m, n + 1, Len(m))
  PROVE  /\ Cut(sha256_update(c, data), m, Len(m))
         /\ sha256_update(c, data).bitlen = 8 * Len(m)
<1> DEFINE d == [c EXCEPT !.bitlen = @ + 8 * Len(data)]
           t == [ctx |-> d, rest |-> data]
<1>1. data \in Seq(Nat) /\ Len(data) = Len(m) - n /\ Len(m) \in Nat /\ n \in Nat
  BY RestIs
<1>2. 8 * n + 8 * Len(data) = 8 * Len(m) /\ 8 * Len(m) \in Nat
  <2> DEFINE a == Len(data)
             b == Len(m)
  <2>1. a = b - n /\ b \in Nat /\ n \in Nat
    BY <1>1
  <2> HIDE DEF a, b
  <2>2. 8 * n + 8 * a = 8 * b /\ 8 * b \in Nat
    BY ONLY <2>1
  <2> QED
    BY <2>2 DEF a, b
<1>3. /\ c = [state |-> c.state, bitlen |-> c.bitlen, buf |-> c.buf]
      /\ c.state \in Seq(Seq(Nat)) /\ c.buf \in Seq(Nat) /\ Len(c.buf) < BLOCK
  BY DEF Cut, Context
<1>4. d = [state |-> c.state, bitlen |-> c.bitlen + 8 * Len(data), buf |-> c.buf]
  BY WithBits DEF Cut
<1>5. d = [state |-> c.state, bitlen |-> 8 * Len(m), buf |-> c.buf]
  <2>1. c.bitlen + 8 * Len(data) = 8 * Len(m)
    BY <1>2
  <2> HIDE DEF d
  <2> QED
    BY ONLY <1>4, <2>1
<1> HIDE DEF d
<1>6. d.state = c.state /\ d.buf = c.buf /\ d.bitlen = 8 * Len(m)
  BY ONLY <1>5
<1>7. Cut(d, m, n)
  <2>1. Context(d)
    BY ONLY <1>3, <1>5, <1>6 DEF Context
  <2> QED
    BY <1>6, <2>1, Zenon DEF Cut
<1>8. d \in Contexts
  BY ONLY <1>2, <1>3, <1>5 DEF Contexts
<1>9. t.ctx = d /\ t.rest = data /\ t \in States
  BY ONLY <1>1, <1>8 DEF States
<1> HIDE DEF t
<1>10. Within(m, 8 * Len(m), t)
  BY <1>6, <1>7, <1>9 DEF Within
<1> DEFINE u == Turns(t)[Len(t.rest)]
<1>11. sha256_update(c, data) = u.ctx
  BY <1>9, Zenon DEF sha256_update, d, t
<1>12. u.rest = <<>> /\ Within(m, 8 * Len(m), u)
  BY <1>2, <1>9, <1>10, TurnsEnd
<1> HIDE DEF u
<1>13. PICK k \in 0..Len(m) : /\ Cut(u.ctx, m, k) /\ u.rest = SubSeq(m, k + 1, Len(m))
                              /\ u.ctx.bitlen = 8 * Len(m)
  BY <1>12 DEF Within
<1>14. k = Len(m)
  <2>1. Len(u.rest) = Len(m) - k
    BY <1>13, RestIs
  <2>2. Len(u.rest) = 0
    BY <1>12
  <2> QED
    BY <1>1, <2>1, <2>2
<1> QED
  BY <1>11, <1>13, <1>14

-----------------------------------------------------------------------------
(* Padding: sha256_final ends the blocks as the standard says.             *)

(* A part within a is the same part of a and what follows it.              *)
LEMMA FirstPart ==
  ASSUME NEW X, NEW a \in Seq(X), NEW b \in Seq(X), NEW i \in Nat \ {0}, NEW j \in Nat, j <= Len(a)
  PROVE  SubSeq(a \o b, i, j) = SubSeq(a, i, j)
BY SMTT(30)

(* The part behind a is b.                                                 *)
LEMMA LastPart ==
  ASSUME NEW X, NEW a \in Seq(X), NEW b \in Seq(X)
  PROVE  SubSeq(a \o b, Len(a) + 1, Len(a) + Len(b)) = b
BY SMTT(30)

(* Elements of a part.                                                     *)
LEMMA PartOfFirst ==
  ASSUME NEW X, NEW s \in Seq(X), NEW k \in 0..Len(s), NEW i \in Nat \ {0}, NEW j \in Nat, j <= k
  PROVE  SubSeq(SubSeq(s, 1, k), i, j) = SubSeq(s, i, j)
BY SMTT(30)

(* More blocks are longer by one block at least.                           *)
LEMMA WholeGrows ==
  ASSUME NEW a \in Nat, NEW b \in Nat, a < b
  PROVE  Whole(a) + BLOCK <= Whole(b)
<1> DEFINE d == (b - a) - 1
<1>1. d \in Nat /\ BLOCK \in Nat /\ b = (a + 1) + d
  BY BlockAssumption
<1> HIDE DEF d
<1>2. BLOCK * b = BLOCK * (a + 1) + BLOCK * d
  BY ONLY <1>1, a \in Nat
<1>3. BLOCK * d \in Nat /\ BLOCK * (a + 1) = BLOCK * a + BLOCK /\ BLOCK * a \in Nat /\ BLOCK * b \in Nat
  BY ONLY <1>1, a \in Nat, b \in Nat
<1> QED
  BY ONLY <1>1, <1>2, <1>3 DEF Whole

(* st is p cut into blocks.                                                *)
Blocks(X, st, p) == /\ st \in Seq(Seq(X)) /\ p \in Seq(X)
                    /\ Len(p) = Whole(Len(st))
                    /\ \A i \in 1..Len(st) : st[i] = Block(p, i)

(* The bounds of a block lie within the whole.                             *)
LEMMA BlockBounds ==
  ASSUME NEW q \in Nat, NEW i \in 1..q
  PROVE  /\ Whole(i - 1) + 1 \in Nat \ {0} /\ Whole(i) \in Nat /\ Whole(i) <= Whole(q)
<1>1. i \in Nat /\ i - 1 \in Nat /\ (i < q \/ i = q)
  OBVIOUS
<1>2. Whole(i - 1) \in Nat /\ Whole(i) \in Nat /\ Whole(q) \in Nat /\ BLOCK \in Nat
  BY <1>1, WholeIs
<1>3. CASE i < q
  BY <1>1, <1>2, <1>3, WholeGrows
<1>4. CASE i = q
  BY <1>2, <1>4
<1> QED
  BY <1>1, <1>3, <1>4

(* One block more, at the end.                                             *)
LEMMA AddBlock ==
  ASSUME NEW X, NEW st, NEW p, Blocks(X, st, p), NEW b \in Seq(X), Len(b) = BLOCK
  PROVE  Blocks(X, Append(st, b), p \o b)
<1>1. PICK q : q = Len(st)
  OBVIOUS
<1>2. st \in Seq(Seq(X)) /\ p \in Seq(X) /\ Len(p) = Whole(q) /\ q \in Nat
      /\ \A i \in 1..q : st[i] = Block(p, i)
  BY <1>1 DEF Blocks
<1>3. /\ Append(st, b) \in Seq(Seq(X)) /\ Len(Append(st, b)) = q + 1
      /\ Append(st, b)[q + 1] = b /\ \A i \in 1..q : Append(st, b)[i] = st[i]
  BY ONLY <1>1, <1>2, b \in Seq(X)
<1>4. p \o b \in Seq(X) /\ Len(p \o b) = Whole(q + 1)
  <2>1. p \o b \in Seq(X) /\ Len(p \o b) = Len(p) + Len(b)
    BY <1>2, ConcatIs
  <2>2. Whole(q + 1) = Whole(q) + BLOCK
    BY <1>2, WholeIs
  <2> QED
    BY <1>2, <2>1, <2>2
<1>5. Block(p \o b, q + 1) = b
  <2>1. (q + 1) - 1 = q /\ Whole(q + 1) = Len(p) + Len(b) /\ Whole(q) = Len(p)
    BY <1>2, WholeIs
  <2>2. SubSeq(p \o b, Len(p) + 1, Len(p) + Len(b)) = b
    BY <1>2, LastPart
  <2> QED
    BY <2>1, <2>2, Zenon DEF Block
<1>6. ASSUME NEW i \in 1..q PROVE Block(p \o b, i) = Block(p, i)
  <2>1. Whole(i - 1) + 1 \in Nat \ {0} /\ Whole(i) \in Nat /\ Whole(i) <= Len(p)
    BY <1>2, BlockBounds
  <2> QED
    BY <1>2, <2>1, FirstPart DEF Block
<1>7. \A i \in 1..(q + 1) : i \in 1..q \/ i = q + 1
  BY <1>2
<1>8. \A i \in 1..(q + 1) : Append(st, b)[i] = Block(p \o b, i)
  <2> TAKE i \in 1..(q + 1)
  <2>1. CASE i \in 1..q
    BY <1>2, <1>3, <1>6, <2>1, Zenon
  <2>2. CASE i = q + 1
    BY <1>3, <1>5, <2>2, Zenon
  <2> QED
    BY <1>7, <2>1, <2>2
<1> QED
  BY <1>3, <1>4, <1>8, Zenon DEF Blocks

(* A length that BLOCK divides is a number of whole blocks.                *)
LEMMA ZeroRemainder ==
  ASSUME NEW x \in Nat, x % BLOCK = 0
  PROVE  x \div BLOCK \in Nat /\ x = Whole(x \div BLOCK)
<1>1. BLOCK \in Nat \ {0}
  BY BlockAssumption
<1>2. x \div BLOCK \in Nat /\ x = BLOCK * (x \div BLOCK)
  BY ONLY <1>1, x \in Nat, x % BLOCK = 0, SMTT(30)
<1> QED
  BY <1>2 DEF Whole

(* And whole blocks leave no remainder.                                    *)
LEMMA WholeDivides ==
  ASSUME NEW q \in Nat
  PROVE  Whole(q) % BLOCK = 0 /\ Whole(q) \div BLOCK = q
<1>1. BLOCK \in Nat \ {0}
  BY BlockAssumption
<1>2. (BLOCK * q) % BLOCK = 0
  BY ONLY <1>1, q \in Nat, SMTT(30)
<1>3. (BLOCK * q) \div BLOCK = q
  BY ONLY <1>1, q \in Nat, SMTT(30)
<1> QED
  BY <1>2, <1>3 DEF Whole

(* Cut into blocks, a sequence of blocks is itself.                        *)
LEMMA CutIntoBlocks ==
  ASSUME NEW X, NEW st, NEW p, Blocks(X, st, p)
  PROVE  [i \in 1..(Len(p) \div BLOCK) |-> SubSeq(p, (i - 1) * BLOCK + 1, i * BLOCK)] = st
<1>1. PICK q : q = Len(st)
  OBVIOUS
<1>2. /\ st \in Seq(Seq(X)) /\ Len(p) = Whole(q) /\ q \in Nat /\ BLOCK \in Nat
      /\ \A i \in 1..q : st[i] = Block(p, i)
  BY <1>1, BlockAssumption DEF Blocks
<1>3. Len(p) \div BLOCK = q
  BY <1>2, WholeDivides
<1>4. ASSUME NEW i \in 1..q
      PROVE  SubSeq(p, (i - 1) * BLOCK + 1, i * BLOCK) = st[i]
  <2>1. (i - 1) * BLOCK = Whole(i - 1) /\ i * BLOCK = Whole(i)
    BY <1>2 DEF Whole
  <2> QED
    BY <1>2, <2>1, Zenon DEF Block
<1>5. st = [i \in 1..q |-> st[i]]
  BY <1>1, <1>2
<1> QED
  BY <1>3, <1>4, <1>5

(* The padding: only one number of zeros fills the last block.             *)
LEMMA PaddingIs ==
  ASSUME NEW l \in Nat, NEW k \in 0..(BLOCK - 1), NEW q \in Nat, l + 1 + k + LENGTH = Whole(q)
  PROVE  (CHOOSE j \in 0..(BLOCK - 1) : (l + 1 + j + LENGTH) % BLOCK = 0) = k
<1>1. BLOCK \in Nat /\ LENGTH \in Nat
  BY BlockAssumption
<1>2. (l + 1 + k + LENGTH) % BLOCK = 0
  BY WholeDivides
<1>3. ASSUME NEW j \in 0..(BLOCK - 1), (l + 1 + j + LENGTH) % BLOCK = 0 PROVE j = k
  <2>1. l + 1 + j + LENGTH \in Nat /\ j \in Nat /\ k \in Nat
    BY <1>1
  <2>2. PICK r : r = (l + 1 + j + LENGTH) \div BLOCK
    OBVIOUS
  <2>3. r \in Nat /\ l + 1 + j + LENGTH = Whole(r)
    BY <1>3, <2>1, <2>2, ZeroRemainder
  <2>4. Whole(q) \in Nat /\ Whole(r) \in Nat
    BY <2>3, WholeIs
  <2>5. CASE r < q
    <3>1. Whole(r) + BLOCK <= Whole(q)
      BY <2>3, <2>5, WholeGrows
    <3>2. (l + 1 + j + LENGTH) + BLOCK <= l + 1 + k + LENGTH
      BY <2>3, <3>1
    <3> QED
      BY ONLY <1>1, <2>1, <3>2, l \in Nat, k \in 0..(BLOCK - 1)
  <2>6. CASE q < r
    <3>1. Whole(q) + BLOCK <= Whole(r)
      BY <2>3, <2>6, WholeGrows
    <3>2. (l + 1 + k + LENGTH) + BLOCK <= l + 1 + j + LENGTH
      BY <2>3, <3>1
    <3> QED
      BY ONLY <1>1, <2>1, <3>2, l \in Nat, j \in 0..(BLOCK - 1)
  <2>7. CASE r = q
    <3>1. l + 1 + j + LENGTH = l + 1 + k + LENGTH
      BY <2>3, <2>7
    <3> QED
      BY ONLY <1>1, <2>1, <3>1, l \in Nat
  <2> QED
    BY <2>3, <2>5, <2>6, <2>7
<1> QED
  BY <1>2, <1>3, Zenon

(* Zeros are bytes.                                                        *)
LEMMA ZerosAre ==
  ASSUME NEW X, 0 \in X, NEW a \in Nat, NEW b \in Nat
  PROVE  /\ Zeros(a) \in Seq(X) /\ Len(Zeros(a)) = a
         /\ Zeros(a) \o Zeros(b) = Zeros(a + b)
<1>1. \A n \in Nat : Zeros(n) \in Seq(X) /\ Len(Zeros(n)) = n /\ \A i \in 1..n : Zeros(n)[i] = 0
  BY DEF Zeros
<1>2. a + b \in Nat
  OBVIOUS
<1>3. /\ Zeros(a) \o Zeros(b) \in Seq(X) /\ Len(Zeros(a) \o Zeros(b)) = a + b
      /\ \A i \in 1..a : (Zeros(a) \o Zeros(b))[i] = Zeros(a)[i]
      /\ \A i \in 1..b : (Zeros(a) \o Zeros(b))[a + i] = Zeros(b)[i]
  <2> DEFINE y == Zeros(a)
             z == Zeros(b)
  <2>1. y \in Seq(X) /\ z \in Seq(X) /\ Len(y) = a /\ Len(z) = b
    BY <1>1
  <2> HIDE DEF y, z
  <2>2. /\ y \o z \in Seq(X) /\ Len(y \o z) = a + b
        /\ \A i \in 1..a : (y \o z)[i] = y[i]
        /\ \A i \in 1..b : (y \o z)[a + i] = z[i]
    <3>1. /\ y \o z \in Seq(X) /\ Len(y \o z) = Len(y) + Len(z)
          /\ \A i \in 1..Len(y) : (y \o z)[i] = y[i]
          /\ \A i \in 1..Len(z) : (y \o z)[Len(y) + i] = z[i]
      BY ONLY <2>1, SMTT(30)
    <3> QED
      BY ONLY <3>1, <2>1
  <2> QED
    BY <2>2 DEF y, z
<1>4. ASSUME NEW i \in 1..(a + b) PROVE (Zeros(a) \o Zeros(b))[i] = Zeros(a + b)[i]
  <2>1. Zeros(a + b)[i] = 0
    BY <1>1, <1>2
  <2>2. CASE i <= a
    <3>1. i \in 1..a
      BY <2>2
    <3> QED
      BY <1>1, <1>3, <2>1, <3>1
  <2>3. CASE ~(i <= a)
    <3>1. i - a \in 1..b /\ a + (i - a) = i
      BY <2>3
    <3> QED
      BY <1>1, <1>3, <2>1, <3>1
  <2> QED
    BY <2>2, <2>3
<1> QED
  BY <1>1, <1>2, <1>3, <1>4, SameSeq

CutParts(c, m, n, q, w, bf) ==
  /\ Context(c) /\ c.state \in Seq(Seq(Nat)) /\ q = Len(c.state) /\ bf = c.buf /\ w = Whole(q)
  /\ bf \in Seq(Nat) /\ q \in Nat /\ w \in Nat /\ Len(bf) \in Nat /\ Len(bf) < BLOCK
  /\ n = w + Len(bf)
  /\ \A i \in 1..q : c.state[i] = Block(m, i)
  /\ bf = SubSeq(m, w + 1, n)

(* The parts of a cut, by name.                                            *)
LEMMA CutIs ==
  ASSUME NEW m, NEW n, NEW c, Cut(c, m, n)
  PROVE  \E q, w, bf : CutParts(c, m, n, q, w, bf)
<1>1. PICK q, w, bf : q = Len(c.state) /\ w = Whole(q) /\ bf = c.buf
  OBVIOUS
<1>2. Context(c) /\ c.state \in Seq(Seq(Nat)) /\ bf \in Seq(Nat) /\ Len(bf) < BLOCK
  BY <1>1 DEF Cut, Context
<1>3. q \in Nat /\ Len(bf) \in Nat
  <2>1. c.state \in Seq(Seq(Nat)) /\ q = Len(c.state) /\ bf \in Seq(Nat)
    BY <1>1, <1>2
  <2> QED
    BY ONLY <2>1
<1>4. w \in Nat
  BY <1>1, <1>3, WholeIs
<1>5. /\ n = w + Len(bf)
      /\ \A i \in 1..q : c.state[i] = Block(m, i)
      /\ bf = SubSeq(m, w + 1, n)
  BY <1>1, Zenon DEF Cut
<1> QED
  BY <1>1, <1>2, <1>3, <1>4, <1>5, Zenon DEF CutParts

(* What a context has taken of m does not depend on what follows.          *)
LEMMA CutExtends ==
  ASSUME NEW m \in Seq(Nat), NEW n \in 0..Len(m), NEW c, Cut(c, m, n), NEW d \in Seq(Nat)
  PROVE  Cut(c, m \o d, n)
<1>1. PICK q, w, bf : CutParts(c, m, n, q, w, bf)
  BY CutIs
<1>2. /\ Context(c) /\ q = Len(c.state) /\ bf = c.buf /\ w = Whole(q)
      /\ \A i \in 1..q : c.state[i] = Block(m, i)
      /\ bf = SubSeq(m, w + 1, n)
  BY <1>1, Zenon DEF CutParts
<1>6. n = w + Len(bf) /\ q \in Nat /\ w \in Nat /\ Len(bf) \in Nat
  BY <1>1, Zenon DEF CutParts
<1>3. n \in Nat /\ n <= Len(m) /\ w \in Nat /\ w <= Len(m) /\ Len(m) \in Nat
  <2>1. n \in Nat /\ n <= Len(m) /\ Len(m) \in Nat
    BY ONLY m \in Seq(Nat), n \in 0..Len(m)
  <2> QED
    BY ONLY <1>6, <2>1
<1>4. ASSUME NEW i \in 1..q PROVE Block(m \o d, i) = Block(m, i)
  <2>1. Whole(i - 1) + 1 \in Nat \ {0} /\ Whole(i) \in Nat /\ Whole(i) <= w
    BY <1>2, <1>6, BlockBounds
  <2>2. Whole(i) <= Len(m)
    BY ONLY <1>3, <2>1
  <2> QED
    BY <2>1, <2>2, FirstPart DEF Block
<1>5. SubSeq(m \o d, w + 1, n) = SubSeq(m, w + 1, n)
  <2>1. w + 1 \in Nat \ {0}
    BY <1>3
  <2> QED
    BY <1>3, <2>1, FirstPart
<1> QED
  BY <1>2, <1>4, <1>5, <1>6, Zenon DEF Cut

Values == Nat \cup {LengthField(n)[i] : n \in Nat, i \in 1..LENGTH}

(* The length field is LENGTH numbers.                                     *)
LEMMA LengthFieldIs ==
  ASSUME NEW n \in Nat
  PROVE  LengthField(n) \in Seq(Values) /\ Len(LengthField(n)) = LENGTH
<1>1. LENGTH \in Nat
  BY BlockAssumption
<1>2. \A i \in 1..LENGTH : LengthField(n)[i] \in Values
  BY DEF Values
<1>3. PICK F : F = [i \in 1..LENGTH |-> (n \div 256^(LENGTH - i)) % 256]
  OBVIOUS
<1>4. F = LengthField(n)
  BY <1>3, Zenon DEF LengthField
<1>5. DOMAIN F = 1..LENGTH /\ F = [i \in 1..LENGTH |-> F[i]]
  BY ONLY <1>3
<1>6. \A i \in 1..LENGTH : F[i] \in Values
  BY <1>2, <1>4
<1> QED
  BY ONLY <1>1, <1>4, <1>5, <1>6

(* Bytes are values.                                                       *)
LEMMA Wider == ASSUME NEW s \in Seq(Nat) PROVE s \in Seq(Values)
<1>1. Nat \subseteq Values
  BY DEF Values
<1> QED
  BY ONLY <1>1, s \in Seq(Nat)

(* The whole blocks of a message.                                          *)
LEMMA CutIsBlocks ==
  ASSUME NEW m \in Seq(Nat), NEW c, NEW q, NEW w, NEW bf, CutParts(c, m, Len(m), q, w, bf)
  PROVE  \E a : Blocks(Values, c.state, a) /\ a \o bf = m
<1>1. /\ q = Len(c.state) /\ w = Whole(q) /\ bf = SubSeq(m, w + 1, Len(m))
      /\ \A i \in 1..q : c.state[i] = Block(m, i)
  BY Zenon DEF CutParts
<1>2. Len(m) = w + Len(bf) /\ q \in Nat /\ w \in Nat /\ Len(bf) \in Nat
  BY Zenon DEF CutParts
<1>3. c.state \in Seq(Seq(Nat))
  BY Zenon DEF CutParts
<1>4. w \in 0..Len(m) /\ 1 \in 1..(Len(m) + 1) /\ w \in (1 - 1)..Len(m) /\ Len(m) \in w..Len(m)
      /\ 1 <= w + 1 /\ w <= Len(m)
  BY ONLY <1>2
<1>5. SubSeq(m, 1, w) \o bf = SubSeq(m, 1, Len(m))
  BY <1>1, <1>4, Split3
<1>6. SubSeq(m, 1, Len(m)) = m
  BY ONLY m \in Seq(Nat)
<1>7. SubSeq(m, 1, w) \in Seq(Nat) /\ Len(SubSeq(m, 1, w)) = w
  <2>1. SubSeq(m, 1, w) \in Seq(Nat) /\ Len(SubSeq(m, 1, w)) = (w - 1) + 1
    BY <1>2, <1>4, SubSeqIs
  <2> QED
    BY ONLY <1>2, <2>1
<1>8. ASSUME NEW i \in 1..q PROVE c.state[i] = Block(SubSeq(m, 1, w), i)
  <2>1. Whole(i - 1) + 1 \in Nat \ {0} /\ Whole(i) \in Nat /\ Whole(i) <= w
    BY <1>1, <1>2, BlockBounds
  <2>2. SubSeq(SubSeq(m, 1, w), Whole(i - 1) + 1, Whole(i)) = SubSeq(m, Whole(i - 1) + 1, Whole(i))
    BY <1>4, <2>1, PartOfFirst
  <2> QED
    BY <1>1, <2>2, Zenon DEF Block
<1>9. c.state \in Seq(Seq(Values))
  <2>1. Seq(Nat) \subseteq Seq(Values)
    BY Wider
  <2> QED
    BY ONLY <1>3, <2>1
<1>10. SubSeq(m, 1, w) \in Seq(Values)
  BY <1>7, Wider
<1>11. Blocks(Values, c.state, SubSeq(m, 1, w))
  BY <1>1, <1>7, <1>8, <1>9, <1>10, Zenon DEF Blocks
<1> QED
  BY <1>5, <1>6, <1>11

(* Concatenation under an opaque name.                                     *)
LEMMA Join == ASSUME NEW X, NEW a \in Seq(X), NEW b \in Seq(X)
              PROVE  a \o b \in Seq(X) /\ Len(a \o b) = Len(a) + Len(b)
OBVIOUS

(* Padding put behind the end of a message, seen from its start: opaque    *)
(* names keep the provers from taking the sequences apart.                 *)
Cat(u, v) == u \o v
Strings == Seq(Values)

(* What Join stands for.                                                   *)
LEMMA CatIs ==
  /\ \A u, v \in Strings : Cat(u, v) \in Strings
  /\ \A u, v, w \in Strings : Cat(Cat(u, v), w) = Cat(u, Cat(v, w))
<1>1. \A u, v \in Seq(Values) : u \o v \in Seq(Values)
  OBVIOUS
<1>2. \A u, v, w \in Seq(Values) : (u \o v) \o w = u \o (v \o w)
  BY SMTT(30)
<1> QED
  BY <1>1, <1>2, Zenon DEF Cat, Strings

(* The padding that fits into the last block.                              *)
LEMMA JoinOne ==
  ASSUME NEW a \in Strings, NEW b \in Strings, NEW o \in Strings, NEW z \in Strings,
         NEW l \in Strings
  PROVE  Cat(Cat(Cat(Cat(a, b), o), z), l) = Cat(a, Cat(Cat(Cat(b, o), z), l))
<1>1. Cat(Cat(Cat(a, b), o), z) = Cat(a, Cat(Cat(b, o), z))
  BY CatIs
<1>2. Cat(Cat(b, o), z) \in Strings
  BY CatIs
<1> QED
  BY <1>1, <1>2, CatIs

(* The padding that needs a block more.                                    *)
LEMMA JoinTwo ==
  ASSUME NEW a \in Strings, NEW b \in Strings, NEW o \in Strings, NEW y \in Strings,
         NEW x \in Strings, NEW l \in Strings
  PROVE  Cat(Cat(Cat(Cat(a, b), o), Cat(y, x)), l) = Cat(Cat(a, Cat(Cat(b, o), y)), Cat(x, l))
<1>1. Cat(Cat(Cat(a, b), o), y) = Cat(a, Cat(Cat(b, o), y))
  BY CatIs
<1>2. Cat(Cat(a, b), o) \in Strings /\ Cat(a, Cat(Cat(b, o), y)) \in Strings
  BY CatIs
<1>3. Cat(Cat(Cat(a, b), o), Cat(y, x)) = Cat(Cat(Cat(Cat(a, b), o), y), x)
  BY <1>2, CatIs
<1>4. Cat(Cat(Cat(a, Cat(Cat(b, o), y)), x), l) = Cat(Cat(a, Cat(Cat(b, o), y)), Cat(x, l))
  BY <1>2, CatIs
<1> QED
  BY <1>1, <1>3, <1>4, Zenon

(* The padded message of the standard.                                     *)
LEMMA MessageIs ==
  ASSUME NEW m \in Seq(Nat), NEW k \in 0..(BLOCK - 1), NEW q \in Nat,
         Len(m) + 1 + k + LENGTH = Whole(q)
  PROVE  Message(m) = m \o <<128>> \o Zeros(k) \o LengthField(8 * Len(m))
<1>1. Len(m) \in Nat
  OBVIOUS
<1>2. (CHOOSE j \in 0..(BLOCK - 1) : (Len(m) + 1 + j + LENGTH) % BLOCK = 0) = k
  BY <1>1, PaddingIs
<1> QED
  BY <1>2, Zenon DEF Message

(* The digest is the padded message in blocks, whatever shows the blocks.  *)
LEMMA DigestIs ==
  ASSUME NEW X, NEW st, NEW m, Blocks(X, st, Message(m))
  PROVE  Digest(m) = st
BY CutIntoBlocks, Zenon DEF Digest

(* sha256_final, after the whole of m was taken, is its digest.            *)
LEMMA FinalIs ==
  ASSUME NEW m \in Seq(Nat), NEW c, Cut(c, m, Len(m)), c.bitlen = 8 * Len(m)
  PROVE  sha256_final(c) = Digest(m)
<1>1. PICK q, w, bf : CutParts(c, m, Len(m), q, w, bf)
  BY CutIs
<1>2. PICK st, o, l : st = c.state /\ o = <<128>> /\ l = LengthField(8 * Len(m))
  OBVIOUS
<1>3. Context(c) /\ q = Len(st) /\ bf = c.buf /\ w = Whole(q) /\ bf \in Seq(Nat)
  BY <1>1, <1>2, Zenon DEF CutParts
<1>4. Len(m) = w + Len(bf) /\ q \in Nat /\ w \in Nat /\ Len(bf) \in Nat /\ Len(bf) < BLOCK
  BY <1>1, Zenon DEF CutParts
<1>5. PICK a : Blocks(Values, st, a) /\ a \o bf = m
  BY <1>1, <1>2, CutIsBlocks
<1>6. /\ BLOCK \in Nat /\ LENGTH \in Nat /\ 0 < LENGTH /\ LENGTH < BLOCK
      /\ 8 * Len(m) \in Nat
  BY BlockAssumption
<1>7. /\ a \in Seq(Values) /\ bf \in Seq(Values) /\ l \in Seq(Values) /\ Len(l) = LENGTH
      /\ o \in Seq(Values) /\ Len(o) = 1 /\ 0 \in Values
  <2>1. a \in Seq(Values) /\ bf \in Seq(Values)
    BY <1>3, <1>5, Wider DEF Blocks
  <2>2. l \in Seq(Values) /\ Len(l) = LENGTH
    BY <1>2, <1>6, LengthFieldIs
  <2>3. o \in Seq(Nat) /\ Len(o) = 1
    BY ONLY <1>2
  <2>4. o \in Seq(Values)
    BY <2>3, Wider
  <2>5. 0 \in Values
    BY DEF Values
  <2> QED
    BY <2>1, <2>2, <2>3, <2>4, <2>5
<1>13. a \in Strings /\ bf \in Strings /\ o \in Strings /\ l \in Strings
  BY <1>7 DEF Strings
<1> DEFINE one == bf \o o
<1>8. Append(c.buf, 128) = one
  BY <1>2, <1>3
<1>9. one \in Seq(Values) /\ Len(one) = Len(bf) + 1
  BY ONLY <1>7, Join
<1>10. c.bitlen = 8 * Len(m) /\ LengthField(c.bitlen) = l
  BY <1>2
<1> HIDE DEF one
<1>11. CASE ~(Len(one) > BLOCK - LENGTH)
  <2> DEFINE z == BLOCK - LENGTH - Len(one)
             b == (one \o Zeros(z)) \o l
  <2>1. z \in Nat /\ z \in 0..(BLOCK - 1) /\ Len(m) + 1 + z + LENGTH = w + BLOCK
    BY ONLY <1>4, <1>6, <1>9, <1>11
  <2>2. Whole(q + 1) = w + BLOCK /\ q + 1 \in Nat
    BY <1>3, <1>4, WholeIs
  <2>3. sha256_final(c) = Append(st, b)
    BY <1>2, <1>8, <1>10, <1>11, Zenon DEF sha256_final
  <2> HIDE DEF z
  <2>4. Message(m) = m \o o \o Zeros(z) \o l
    BY <1>2, <2>1, <2>2, MessageIs
  <2>5. Zeros(z) \in Seq(Values) /\ Len(Zeros(z)) = z
    BY <1>7, <2>1, ZerosAre
  <2>6. Message(m) = a \o b
    <3>1. ASSUME NEW s \in Strings
          PROVE  (((a \o bf) \o o) \o s) \o l = a \o (((bf \o o) \o s) \o l)
      <4>1. Cat(Cat(Cat(Cat(a, bf), o), s), l) = Cat(a, Cat(Cat(Cat(bf, o), s), l))
        BY <1>13, JoinOne
      <4> QED
        BY <4>1, Zenon DEF Cat
    <3> HIDE DEF b
    <3> QED
      BY <1>5, <2>4, <2>5, <3>1, Zenon DEF one, b, Strings
  <2>7. b \in Seq(Values) /\ Len(b) = BLOCK
    <3>1. one \o Zeros(z) \in Seq(Values) /\ Len(one \o Zeros(z)) = Len(one) + z
      BY <1>9, <2>5, Join
    <3>2. b \in Seq(Values) /\ Len(b) = (Len(one) + z) + LENGTH
      BY <3>1, <1>7, Join
    <3> HIDE DEF b
    <3> QED
      BY ONLY <3>2, <1>4, <1>6, <1>9 DEF z
  <2> HIDE DEF b
  <2>8. Blocks(Values, Append(st, b), Message(m))
    BY <1>5, <2>6, <2>7, AddBlock
  <2> QED
    BY <2>3, <2>8, DigestIs
<1>12. CASE Len(one) > BLOCK - LENGTH
  <2> DEFINE y == BLOCK - Len(one)
             x == BLOCK - LENGTH - Len(<<>>)
             b == one \o Zeros(y)
             d == (<<>> \o Zeros(x)) \o l
  <2>1. /\ y \in Nat /\ x \in Nat /\ x = BLOCK - LENGTH /\ y + x \in 0..(BLOCK - 1)
        /\ Len(m) + 1 + (y + x) + LENGTH = (w + BLOCK) + BLOCK
    <3>1. x = BLOCK - LENGTH
      BY ONLY <1>6
    <3> HIDE DEF x
    <3> QED
      BY ONLY <3>1, <1>4, <1>6, <1>9, <1>12
  <2>2. Whole((q + 1) + 1) = (w + BLOCK) + BLOCK /\ (q + 1) + 1 \in Nat
    <3>1. q + 1 \in Nat /\ (q + 1) + 1 \in Nat
      BY <1>4
    <3>2. Whole(q + 1) = w + BLOCK /\ Whole((q + 1) + 1) = Whole(q + 1) + BLOCK
      BY <1>3, <1>4, <3>1, WholeIs
    <3> QED
      BY <3>1, <3>2
  <2>3. sha256_final(c) = Append(Append(st, b), d)
    <3>1. transform(c, b).state = Append(st, b)
      <4>1. PICK s, n, f : s = c.state /\ n = c.bitlen /\ f = c.buf
        OBVIOUS
      <4>2. c = [state |-> s, bitlen |-> n, buf |-> f]
        BY <1>3, <4>1, Zenon DEF Context
      <4> HIDE DEF b
      <4>3. transform(c, b).state = Append(s, b)
        BY ONLY <4>2 DEF transform
      <4> QED
        BY <1>2, <4>1, <4>3
    <3>2. sha256_final(c) = Append(transform(c, b).state, d)
      <4>1. transform(c, b).bitlen = c.bitlen
        <5> HIDE DEF b
        <5>1. PICK s, n, f : s = c.state /\ n = c.bitlen /\ f = c.buf
          OBVIOUS
        <5>2. c = [state |-> s, bitlen |-> n, buf |-> f]
          BY <1>3, <5>1, Zenon DEF Context
        <5>3. transform(c, b).bitlen = n
          BY ONLY <5>2 DEF transform
        <5> QED
          BY <5>1, <5>3
      <4> QED
        BY <1>8, <1>10, <1>12, <4>1, Zenon DEF sha256_final
    <3> QED
      BY <3>1, <3>2
  <2> HIDE DEF x, y
  <2>4. Message(m) = m \o o \o Zeros(y + x) \o l
    BY <1>2, <2>1, <2>2, MessageIs
  <2>5. /\ Zeros(y) \in Seq(Values) /\ Len(Zeros(y)) = y
        /\ Zeros(x) \in Seq(Values) /\ Len(Zeros(x)) = x
        /\ Zeros(y) \o Zeros(x) = Zeros(y + x)
    BY <1>7, <2>1, ZerosAre
  <2>6. d = Zeros(x) \o l
    <3>1. <<>> \o Zeros(x) = Zeros(x)
      BY ONLY <2>5
    <3> QED
      BY <3>1
  <2>7. Message(m) = (a \o b) \o d
    <3>1. ASSUME NEW s \in Strings, NEW t \in Strings
          PROVE  (((a \o bf) \o o) \o (s \o t)) \o l = (a \o ((bf \o o) \o s)) \o (t \o l)
      <4>1. Cat(Cat(Cat(Cat(a, bf), o), Cat(s, t)), l) = Cat(Cat(a, Cat(Cat(bf, o), s)), Cat(t, l))
        BY <1>13, JoinTwo
      <4> QED
        BY <4>1, Zenon DEF Cat
    <3> HIDE DEF d
    <3> QED
      BY <1>5, <2>4, <2>5, <2>6, <3>1, Zenon DEF one, Strings
  <2>8. b \in Seq(Values) /\ Len(b) = BLOCK
    <3>1. b \in Seq(Values) /\ Len(b) = Len(one) + y
      BY <1>9, <2>5, Join
    <3> HIDE DEF b
    <3> QED
      BY ONLY <3>1, <1>4, <1>6, <1>9 DEF y
  <2>9. d \in Seq(Values) /\ Len(d) = BLOCK
    <3> HIDE DEF d
    <3>1. d \in Seq(Values) /\ Len(d) = x + LENGTH
      BY <1>7, <2>5, <2>6, Join
    <3> QED
      BY ONLY <3>1, <1>6, <2>1
  <2> HIDE DEF b, d
  <2>10. Blocks(Values, Append(st, b), a \o b)
    BY <1>5, <2>8, AddBlock
  <2>11. Blocks(Values, Append(Append(st, b), d), Message(m))
    BY <2>7, <2>9, <2>10, AddBlock
  <2> QED
    BY <2>3, <2>11, DigestIs
<1> QED
  BY <1>11, <1>12

-----------------------------------------------------------------------------
(* The stream of one connection, from its peer's socket to the thread.     *)

(* The stream of a connection: s is what was sent and not yet handled,     *)
(* left the payload bytes the thread still wants, im the upload, p where   *)
(* the peer is, h whether it was hasty, l where the thread is.  While      *)
(* payload is wanted, the stream is the rest of the upload and ordinary    *)
(* lines behind it.                                                        *)
Payload(s, left, im) ==
  \A i \in 1..Len(s) : IF i <= left THEN s[i] = im[(Len(im) - left) + i] ELSE s[i] \in Ordinary

(* Otherwise it is lines, the last of which may ask for an upload that a   *)
(* hasty peer has sent along.                                              *)
Request(s, im, p, h, i) ==
  /\ p \in {"asking", "gone"}
  /\ Len(s) - i <= Len(im)
  /\ ~h => Len(s) = i
  /\ \A j \in (i + 1)..Len(s) : s[j] = im[j - i]
  /\ p = "asking" /\ h => Len(s) - i = Len(im)
Commands(s, im, p, h) ==
  \A i \in 1..Len(s) : /\ s[i] \in Asking => Request(s, im, p, h, i)
                       /\ ~h => s[i] \in AllLines

(* Where the peer is and where the thread is.                              *)
Placed(s, left, im, p, h, l) ==
  /\ p = "ok" => Len(s) = 0 /\ left = Len(im) /\ left > 0 /\ l = "recv" /\ ~h
  /\ p = "sent" => /\ left <= Len(s) /\ l \in {"recv", "write", "count", "finish", "end"}
                   /\ l = "recv" => left > 0
  /\ p = "off" <=> l = "none"
  /\ p = "off" => Len(s) = 0 /\ left = 0
  /\ l \in {"lines", "exec", "finish"} => left = 0
  /\ l \in {"write", "count"} => left > 0
  /\ left > 0 \/ l = "finish" => p \in {"ok", "sent", "gone"}
  /\ l = "finish" => \A i \in 1..Len(s) : s[i] \in Ordinary

Good(s, left, im, p, h, l) ==
  /\ left \in Nat /\ left <= Len(im)
  /\ left > 0 => Payload(s, left, im)
  /\ left = 0 => Commands(s, im, p, h)
  /\ Placed(s, left, im, p, h, l)

(* Lines and bytes are told apart.                                         *)
LEMMA TokenFacts ==
  /\ Ordinary \cap Asking = {} /\ AllLines \cap Bytes = {}
  /\ Ordinary \subseteq AllLines /\ Asking \subseteq AllLines
  /\ AllLines \subseteq Tokens /\ Bytes \subseteq Tokens
BY PeersAssumption DEF AllLines, Tokens

(* The peer sends an ordinary line.                                        *)
LEMMA GoodLine ==
  ASSUME NEW s \in Seq(Tokens), NEW r \in Seq(Tokens), NEW left, NEW im \in Seq(Bytes),
         NEW p, NEW h, NEW l, Good(s, left, im, p, h, l), p \in {"idle", "sent"},
         Len(r) = Len(s) + 1, r[Len(r)] \in Ordinary, \A i \in 1..Len(s) : r[i] = s[i]
  PROVE  Good(r, left, im, p, h, l)
<1>1. left \in Nat /\ left <= Len(im) /\ Len(s) \in Nat /\ Len(r) \in Nat
  BY DEF Good
<1>2. \A i \in 1..Len(r) : i \in 1..Len(s) \/ i = Len(r)
  BY <1>1
<1>3. r[Len(r)] \notin Asking /\ r[Len(r)] \in AllLines
  BY TokenFacts
<1>4. left > 0 => Payload(r, left, im)
  <2> SUFFICES ASSUME left > 0, NEW i \in 1..Len(r)
               PROVE  IF i <= left THEN r[i] = im[(Len(im) - left) + i] ELSE r[i] \in Ordinary
    BY DEF Payload
  <2>1. left <= Len(s) /\ Payload(s, left, im)
    BY DEF Good, Placed
  <2>2. CASE i \in 1..Len(s)
    BY <2>1, <2>2 DEF Payload
  <2>3. CASE i = Len(r)
    BY <1>1, <2>1, <2>3
  <2> QED
    BY <1>2, <2>2, <2>3
<1>5. left = 0 => Commands(r, im, p, h)
  <2> SUFFICES ASSUME left = 0, NEW i \in 1..Len(r)
               PROVE  r[i] \notin Asking /\ (~h => r[i] \in AllLines)
    BY DEF Commands
  <2>1. CASE i \in 1..Len(s)
    BY <2>1 DEF Good, Commands, Request
  <2>2. CASE i = Len(r)
    BY <1>3, <2>2
  <2> QED
    BY <1>2, <2>1, <2>2
<1>6. Placed(r, left, im, p, h, l)
  <2>1. Placed(s, left, im, p, h, l)
    BY DEF Good
  <2>2. l = "finish" => \A i \in 1..Len(r) : r[i] \in Ordinary
    BY <1>2, <2>1 DEF Placed
  <2>3. p = "sent" => left <= Len(r)
    BY <1>1, <2>1 DEF Placed
  <2> QED
    BY <2>1, <2>2, <2>3 DEF Placed
<1> QED
  BY <1>1, <1>4, <1>5, <1>6 DEF Good

(* A patient peer asks for an upload and sends nothing else.               *)
LEMMA GoodAskPatient ==
  ASSUME NEW s \in Seq(Tokens), NEW r \in Seq(Tokens), NEW left, NEW im,
         NEW l, Good(s, left, im, "idle", FALSE, l),
         NEW x \in Seq(Bytes),
         Len(r) = Len(s) + 1, \A i \in 1..Len(s) : r[i] = s[i], r[Len(r)] \in Asking
  PROVE  Good(r, left, x, "asking", FALSE, l)
<1>1. left = 0 /\ Len(s) \in Nat /\ Len(x) \in Nat /\ Len(r) \in Nat
  BY DEF Good, Placed
<1>2. ASSUME NEW i \in 1..Len(s) PROVE r[i] \notin Asking /\ r[i] \in AllLines
  BY <1>1 DEF Good, Commands, Request
<1>3. Request(r, x, "asking", FALSE, Len(r)) /\ r[Len(r)] \in AllLines
  BY <1>1, TokenFacts DEF Request
<1>4. \A i \in 1..Len(r) : i \in 1..Len(s) \/ i = Len(r)
  BY <1>1
<1>5. Commands(r, x, "asking", FALSE)
  BY <1>2, <1>3, <1>4 DEF Commands
<1>6. Placed(r, left, x, "asking", FALSE, l)
  <2>1. Placed(s, left, im, "idle", FALSE, l)
    BY DEF Good
  <2> QED
    BY <1>1, <2>1 DEF Placed
<1>7. left \in Nat /\ left <= Len(x) /\ ~ (left > 0)
  BY <1>1
<1> QED
  BY ONLY <1>5, <1>6, <1>7, Zenon DEF Good

(* A hasty peer asks for an upload and sends it along.                     *)
LEMMA GoodAskHasty ==
  ASSUME NEW s \in Seq(Tokens), NEW r \in Seq(Tokens), NEW left, NEW im,
         NEW h, NEW l, Good(s, left, im, "idle", h, l),
         NEW x \in Seq(Bytes), Len(r) = (Len(s) + 1) + Len(x),
         \A i \in 1..Len(s) : r[i] = s[i], r[Len(s) + 1] \in Asking,
         \A i \in 1..Len(x) : r[(Len(s) + 1) + i] = x[i]
  PROVE  Good(r, left, x, "asking", TRUE, l)
<1>1. left = 0 /\ Len(s) \in Nat /\ Len(x) \in Nat /\ Len(r) \in Nat
  BY DEF Good, Placed
<1>2. ASSUME NEW i \in 1..Len(s) PROVE r[i] \notin Asking
  BY <1>1 DEF Good, Commands, Request
<1>3. ASSUME NEW j \in (Len(s) + 2)..Len(r)
      PROVE  j - (Len(s) + 1) \in 1..Len(x) /\ r[j] = x[j - (Len(s) + 1)]
  <2>1. j - (Len(s) + 1) \in 1..Len(x) /\ j = (Len(s) + 1) + (j - (Len(s) + 1))
    BY ONLY <1>1, <1>3, Len(r) = (Len(s) + 1) + Len(x)
  <2> QED
    BY ONLY <2>1, \A i \in 1..Len(x) : r[(Len(s) + 1) + i] = x[i]
<1>4. ASSUME NEW j \in (Len(s) + 2)..Len(r) PROVE r[j] \notin Asking
  <2>1. r[j] \in Bytes
    BY <1>3
  <2> QED
    BY <2>1, TokenFacts DEF AllLines
<1>5. Request(r, x, "asking", TRUE, Len(s) + 1)
  <2>1. Len(r) - (Len(s) + 1) = Len(x)
    BY <1>1
  <2>2. \A j \in ((Len(s) + 1) + 1)..Len(r) : r[j] = x[j - (Len(s) + 1)]
    BY <1>1, <1>3
  <2> QED
    BY <1>1, <2>1, <2>2 DEF Request
<1>6. \A i \in 1..Len(r) : i \in 1..Len(s) \/ i = Len(s) + 1 \/ i \in (Len(s) + 2)..Len(r)
  BY <1>1
<1>7. Commands(r, x, "asking", TRUE)
  BY <1>2, <1>4, <1>5, <1>6 DEF Commands
<1>8. Placed(r, left, x, "asking", TRUE, l)
  <2>1. Placed(s, left, im, "idle", h, l)
    BY DEF Good
  <2> QED
    BY <1>1, <2>1 DEF Placed
<1>9. left \in Nat /\ left <= Len(x) /\ ~ (left > 0)
  BY <1>1
<1> QED
  BY ONLY <1>7, <1>8, <1>9, Zenon DEF Good

(* OK came, and the payload follows.                                       *)
LEMMA GoodPayload ==
  ASSUME NEW s \in Seq(Tokens), NEW left, NEW im \in Seq(Bytes), NEW h, NEW l,
         Good(s, left, im, "ok", h, l),
         NEW r, Len(r) = Len(im), \A i \in 1..Len(im) : r[i] = im[i]
  PROVE  Good(r, left, im, "sent", h, l)
<1>1. /\ left = Len(im) /\ left \in Nat /\ left > 0 /\ l = "recv" /\ Len(im) \in Nat
      /\ Placed(s, left, im, "ok", h, l)
  BY DEF Good, Placed
<1>2. Payload(r, left, im)
  <2> SUFFICES ASSUME NEW i \in 1..Len(im) PROVE i <= left /\ r[i] = im[(Len(im) - left) + i]
    BY DEF Payload
  <2>1. (Len(im) - left) + i = i /\ i <= left
    BY <1>1
  <2> QED
    BY <2>1
<1>3. Placed(r, left, im, "sent", h, l)
  BY <1>1 DEF Placed
<1> QED
  BY <1>1, <1>2, <1>3 DEF Good

(* The peer is gone, and what was on its way arrived or not.               *)
LEMMA GoodGone ==
  ASSUME NEW s \in Seq(Tokens), NEW r \in Seq(Tokens), NEW left, NEW im \in Seq(Bytes),
         NEW p, NEW h, NEW l, Good(s, left, im, p, h, l), p # "off",
         Len(r) <= Len(s), \A i \in 1..Len(r) : r[i] = s[i]
  PROVE  Good(r, left, im, "gone", h, l)
<1>1. left \in Nat /\ left <= Len(im) /\ Len(s) \in Nat /\ Len(r) \in Nat /\ Len(im) \in Nat
  BY DEF Good
<1>2. \A i \in 1..Len(r) : i \in 1..Len(s)
  BY <1>1
<1>3. left > 0 => Payload(r, left, im)
  BY <1>2 DEF Good, Payload
<1>4. left = 0 => Commands(r, im, "gone", h)
  <2> SUFFICES ASSUME left = 0, NEW i \in 1..Len(r)
               PROVE  (r[i] \in Asking => Request(r, im, "gone", h, i)) /\ (~h => r[i] \in AllLines)
    BY DEF Commands
  <2>1. (s[i] \in Asking => Request(s, im, p, h, i)) /\ (~h => s[i] \in AllLines)
    BY <1>2 DEF Good, Commands
  <2>2. ASSUME Request(s, im, p, h, i) PROVE Request(r, im, "gone", h, i)
    <3>1. Len(r) - i <= Len(im) /\ (~h => Len(r) = i)
      BY <1>1, <2>2 DEF Request
    <3>2. ASSUME NEW j \in (i + 1)..Len(r) PROVE r[j] = im[j - i]
      <4>1. j \in 1..Len(r) /\ j \in (i + 1)..Len(s)
        BY <1>1
      <4> QED
        BY <2>2, <4>1 DEF Request
    <3> QED
      BY <3>1, <3>2 DEF Request
  <2> QED
    BY <2>1, <2>2
<1>5. Placed(r, left, im, "gone", h, l)
  <2>1. Placed(s, left, im, p, h, l)
    BY DEF Good
  <2> QED
    BY <1>2, <2>1 DEF Placed
<1> QED
  BY <1>1, <1>3, <1>4, <1>5 DEF Good

(* A line is handled: the first token goes.                                *)
Popped(r, s) == Len(r) = Len(s) - 1 /\ \A i \in 1..Len(r) : r[i] = s[i + 1]

(* A command is handled, and it was not one that asks.                     *)
LEMMA GoodPop ==
  ASSUME NEW s \in Seq(Tokens), NEW r \in Seq(Tokens), NEW left, NEW im \in Seq(Bytes),
         NEW p, NEW h, Good(s, left, im, p, h, "lines"), Len(s) > 0, Popped(r, s),
         NEW k \in {"recv", "lines", "end"}
  PROVE  Good(r, left, im, p, h, k)
<1>1. left = 0 /\ Len(s) \in Nat /\ Len(r) \in Nat /\ Len(im) \in Nat
  BY DEF Good, Placed
<1>2. \A i \in 1..Len(r) : i + 1 \in 1..Len(s) /\ r[i] = s[i + 1]
  BY <1>1 DEF Popped
<1>3. Commands(r, im, p, h)
  <2> SUFFICES ASSUME NEW i \in 1..Len(r)
               PROVE  (r[i] \in Asking => Request(r, im, p, h, i)) /\ (~h => r[i] \in AllLines)
    BY DEF Commands
  <2>1. Commands(s, im, p, h)
    BY <1>1 DEF Good
  <2>2. (r[i] \in Asking => Request(s, im, p, h, i + 1)) /\ (~h => r[i] \in AllLines)
    BY <1>2, <2>1 DEF Commands
  <2>3. ASSUME Request(s, im, p, h, i + 1) PROVE Request(r, im, p, h, i)
    <3>1. Len(r) - i = Len(s) - (i + 1) /\ (Len(s) = i + 1 => Len(r) = i)
      BY <1>1 DEF Popped
    <3>2. ASSUME NEW j \in (i + 1)..Len(r) PROVE r[j] = im[j - i]
      <4>1. j \in 1..Len(r) /\ j + 1 \in ((i + 1) + 1)..Len(s) /\ (j + 1) - (i + 1) = j - i
        BY <1>1 DEF Popped
      <4>2. s[j + 1] = im[(j + 1) - (i + 1)]
        BY <2>3, <4>1 DEF Request
      <4> QED
        BY <1>2, <4>1, <4>2
    <3> QED
      BY <2>3, <3>1, <3>2 DEF Request
  <2> QED
    BY <2>2, <2>3
<1>4. Placed(r, left, im, p, h, k)
  <2>1. Placed(s, left, im, p, h, "lines")
    BY DEF Good
  <2> QED
    BY <1>1, <2>1 DEF Placed
<1>5. left \in Nat /\ left <= Len(im) /\ ~ (left > 0)
  BY <1>1
<1> QED
  BY ONLY <1>3, <1>4, <1>5, Zenon DEF Good

(* What follows a line that asks is the upload it announces.               *)
LEMMA AskedFor ==
  ASSUME NEW s \in Seq(Tokens), NEW r \in Seq(Tokens), NEW left, NEW im \in Seq(Bytes),
         NEW p, NEW h, Good(s, left, im, p, h, "lines"), Len(s) > 0, s[1] \in Asking,
         Popped(r, s)
  PROVE  /\ left = 0 /\ p \in {"asking", "gone"}
         /\ Len(r) \in Nat /\ Len(r) <= Len(im) /\ (~h => Len(r) = 0)
         /\ p = "asking" /\ h => Len(r) = Len(im)
         /\ \A i \in 1..Len(r) : i \in 1..Len(im) /\ r[i] = im[i]
<1>1. left = 0 /\ Len(s) \in Nat /\ Len(r) \in Nat /\ Len(im) \in Nat /\ Len(r) = Len(s) - 1
  BY DEF Good, Placed, Popped
<1>2. Request(s, im, p, h, 1)
  BY <1>1 DEF Good, Commands
<1>3. ASSUME NEW i \in 1..Len(r) PROVE i \in 1..Len(im) /\ r[i] = im[i]
  <2>1. i + 1 \in (1 + 1)..Len(s) /\ (i + 1) - 1 = i
    BY <1>1
  <2>2. s[i + 1] = im[(i + 1) - 1]
    BY <1>2, <2>1 DEF Request
  <2>3. r[i] = s[i + 1]
    BY DEF Popped
  <2>4. i \in 1..Len(im)
    BY <1>1, <1>2 DEF Request
  <2> QED
    BY <2>1, <2>2, <2>3, <2>4
<1> QED
  BY <1>1, <1>2, <1>3 DEF Request

(* The upload is refused: the peer is idle again.                          *)
LEMMA GoodRefuse ==
  ASSUME NEW s \in Seq(Tokens), NEW r \in Seq(Tokens), NEW left, NEW im \in Seq(Bytes),
         NEW p, NEW h, Good(s, left, im, p, h, "lines"), Len(s) > 0, s[1] \in Asking,
         Popped(r, s), NEW q, q = IF p = "asking" THEN "idle" ELSE p, NEW k \in {"recv", "lines"}
  PROVE  Good(r, left, <<>>, q, h, k)
<1>1. /\ left = 0 /\ p \in {"asking", "gone"} /\ Len(r) \in Nat /\ (~h => Len(r) = 0)
      /\ \A i \in 1..Len(r) : i \in 1..Len(im) /\ r[i] = im[i]
  BY AskedFor
<1>2. ASSUME NEW i \in 1..Len(r) PROVE r[i] \notin Asking /\ h
  <2>1. im[i] \in Bytes /\ r[i] = im[i] /\ h
    BY <1>1
  <2> QED
    BY <2>1, TokenFacts DEF AllLines
<1>3. Commands(r, <<>>, q, h)
  BY <1>2 DEF Commands
<1>4. q \in {"idle", "gone"}
  BY <1>1
<1>5. Placed(r, left, <<>>, q, h, k)
  BY <1>1, <1>4 DEF Placed
<1>6. left \in Nat /\ left <= Len(<<>>) /\ ~ (left > 0)
  BY <1>1
<1> QED
  BY ONLY <1>3, <1>5, <1>6, Zenon DEF Good

(* The upload is accepted: its bytes are wanted, and what is there is its  *)
(* beginning.                                                              *)
LEMMA GoodEnter ==
  ASSUME NEW s \in Seq(Tokens), NEW r \in Seq(Tokens), NEW left, NEW im \in Seq(Bytes),
         NEW p, NEW h, Good(s, left, im, p, h, "lines"), Len(s) > 0, s[1] \in Asking,
         Popped(r, s), Len(im) > 0,
         NEW q, q = IF p = "asking" THEN (IF h THEN "sent" ELSE "ok") ELSE p
  PROVE  Good(r, Len(im), im, q, h, "recv") /\ (~h => Len(r) = 0)
<1>1. /\ left = 0 /\ p \in {"asking", "gone"} /\ Len(r) \in Nat /\ (~h => Len(r) = 0)
      /\ Len(r) <= Len(im) /\ (p = "asking" /\ h => Len(r) = Len(im))
      /\ \A i \in 1..Len(r) : i \in 1..Len(im) /\ r[i] = im[i]
  BY AskedFor
<1>2. Len(im) \in Nat
  OBVIOUS
<1>3. Payload(r, Len(im), im)
  <2> SUFFICES ASSUME NEW i \in 1..Len(r)
               PROVE  i <= Len(im) /\ r[i] = im[(Len(im) - Len(im)) + i]
    BY DEF Payload
  <2>1. (Len(im) - Len(im)) + i = i /\ i <= Len(im)
    BY <1>1, <1>2
  <2> QED
    BY <1>1, <2>1
<1>4. CASE p = "gone"
  <2>1. q = "gone"
    BY <1>4
  <2>2. Placed(r, Len(im), im, q, h, "recv")
    BY <2>1, <1>2 DEF Placed
  <2>3. Len(im) <= Len(im) /\ ~ (Len(im) = 0)
    BY <1>2
  <2> QED
    BY ONLY <1>1, <1>2, <1>3, <2>2, <2>3, Zenon DEF Good
<1>5. CASE p = "asking"
  <2>1. q = IF h THEN "sent" ELSE "ok"
    BY <1>5
  <2>2. Placed(r, Len(im), im, q, h, "recv")
    <3>1. CASE h
      BY <1>1, <1>2, <1>5, <2>1, <3>1 DEF Placed
    <3>2. CASE ~h
      BY <1>1, <1>2, <1>5, <2>1, <3>2 DEF Placed
    <3> QED
      BY <3>1, <3>2
  <2>3. Len(im) <= Len(im) /\ ~ (Len(im) = 0)
    BY <1>2
  <2> QED
    BY ONLY <1>1, <1>2, <1>3, <2>2, <2>3, Zenon DEF Good
<1> QED
  BY <1>1, <1>4, <1>5

(* Payload is taken off the buffer: the first k bytes go.                  *)
Dropped(r, s, k) == Len(r) = Len(s) - k /\ \A i \in 1..Len(r) : r[i] = s[i + k]

(* A chunk is written.                                                     *)
LEMMA GoodConsume ==
  ASSUME NEW s \in Seq(Tokens), NEW r \in Seq(Tokens), NEW left, NEW im \in Seq(Bytes),
         NEW p, NEW h, NEW l \in {"write", "count"}, Good(s, left, im, p, h, l),
         NEW k \in Nat, k <= left, k <= Len(s), Dropped(r, s, k),
         NEW m, m = IF k = left THEN "finish" ELSE "recv"
  PROVE  Good(r, left - k, im, p, h, m)
<1>1. /\ left \in Nat /\ left > 0 /\ left <= Len(im)
      /\ Len(s) \in Nat /\ Len(r) \in Nat /\ Len(im) \in Nat /\ Len(r) = Len(s) - k
      /\ Payload(s, left, im) /\ Placed(s, left, im, p, h, l)
  BY DEF Good, Placed, Dropped
<1>2. ASSUME NEW i \in 1..Len(r)
      PROVE  /\ i <= left - k => r[i] = im[(Len(im) - (left - k)) + i]
             /\ ~ (i <= left - k) => r[i] \in Ordinary
  <2>1. /\ i + k \in 1..Len(s) /\ (Len(im) - left) + (i + k) = (Len(im) - (left - k)) + i
        /\ i <= left - k <=> i + k <= left
    BY <1>1
  <2>2. r[i] = s[i + k]
    BY DEF Dropped
  <2>3. IF i + k <= left THEN s[i + k] = im[(Len(im) - left) + (i + k)] ELSE s[i + k] \in Ordinary
    BY <1>1, <2>1 DEF Payload
  <2> QED
    BY <2>1, <2>2, <2>3
<1>3. Payload(r, left - k, im)
  BY <1>2 DEF Payload
<1>4. left - k = 0 => \A i \in 1..Len(r) : r[i] \in Ordinary
  BY <1>1, <1>2
<1>5. left - k = 0 => Commands(r, im, p, h)
  BY <1>4, TokenFacts DEF Commands
<1>6. p \in {"sent", "gone"} /\ (p = "sent" => left <= Len(s))
  BY <1>1 DEF Placed
<1>7. Placed(r, left - k, im, p, h, m)
  <2>1. left - k \in Nat /\ (p = "sent" => left - k <= Len(r))
    BY <1>1, <1>6
  <2>2. CASE k = left
    BY <1>1, <1>4, <1>6, <2>1, <2>2 DEF Placed
  <2>3. CASE k # left
    <3>1. m = "recv" /\ left - k > 0
      BY <1>1, <2>3
    <3> QED
      BY <1>6, <2>1, <3>1 DEF Placed
  <2> QED
    BY <2>2, <2>3
<1>8. left - k \in Nat /\ left - k <= Len(im)
  BY <1>1
<1> QED
  BY ONLY <1>3, <1>5, <1>7, <1>8, Zenon DEF Good

(* The whole upload was there: the peer gets its answer.                   *)
LEMMA GoodFinish ==
  ASSUME NEW s \in Seq(Tokens), NEW left, NEW im \in Seq(Bytes),
         NEW p, NEW h, Good(s, left, im, p, h, "finish"),
         NEW q, q = IF p = "sent" THEN "idle" ELSE p, NEW k \in {"recv", "lines", "end", "exec"}
  PROVE  Good(s, left, <<>>, q, h, k)
<1>1. /\ left = 0 /\ p \in {"sent", "gone"} /\ \A i \in 1..Len(s) : s[i] \in Ordinary
  BY DEF Good, Placed
<1>2. q \in {"idle", "gone"}
  BY <1>1
<1>3. Commands(s, <<>>, q, h)
  BY <1>1, TokenFacts DEF Commands
<1>4. Placed(s, left, <<>>, q, h, k)
  BY <1>1, <1>2 DEF Placed
<1>5. left \in Nat /\ left <= Len(<<>>) /\ ~ (left > 0)
  BY <1>1
<1> QED
  BY ONLY <1>3, <1>4, <1>5, Zenon DEF Good

(* A connection with nothing sent.                                         *)
LEMMA GoodFresh ==
  ASSUME NEW s, Len(s) = 0, NEW im, Len(im) \in Nat, NEW h, NEW q, NEW k,
         (q = "off" /\ k = "none") \/ (q = "idle" /\ k = "recv")
  PROVE  Good(s, 0, im, q, h, k)
<1>1. Commands(s, im, q, h)
  BY DEF Commands
<1>2. Placed(s, 0, im, q, h, k)
  BY DEF Placed
<1>3. 0 \in Nat /\ 0 <= Len(im) /\ ~ (0 > 0)
  OBVIOUS
<1> QED
  BY ONLY <1>1, <1>2, <1>3, Zenon DEF Good

(* The thread moves on and leaves the stream alone.                        *)
LEMMA GoodMove ==
  ASSUME NEW s, NEW left, NEW im, NEW p, NEW h, NEW l, Good(s, left, im, p, h, l), NEW k,
         \/ l = "recv" /\ Len(s) > 0 /\ k = IF left > 0 THEN "write" ELSE "lines"
         \/ l = "write" /\ k = "count"
         \/ l = "exec" /\ k \in {"lines", "recv"}
         \/ k = "end" /\ l # "none" /\ ~ (p = "ok" /\ Len(s) = 0)
  PROVE  Good(s, left, im, p, h, k)
<1>1. Placed(s, left, im, p, h, l) /\ left \in Nat
  BY DEF Good
<1>2. Placed(s, left, im, p, h, k)
  <2>1. CASE l = "recv" /\ Len(s) > 0 /\ k = IF left > 0 THEN "write" ELSE "lines"
    <3>1. CASE left > 0
      BY <1>1, <2>1, <3>1 DEF Placed
    <3>2. CASE ~ (left > 0)
      BY <1>1, <2>1, <3>2 DEF Placed
    <3> QED
      BY <3>1, <3>2
  <2>2. CASE l = "write" /\ k = "count"
    BY <1>1, <2>2 DEF Placed
  <2>3. CASE l = "exec" /\ k \in {"lines", "recv"}
    BY <1>1, <2>3 DEF Placed
  <2>4. CASE k = "end" /\ l # "none" /\ ~ (p = "ok" /\ Len(s) = 0)
    BY <1>1, <2>4 DEF Placed
  <2> QED
    BY <2>1, <2>2, <2>3, <2>4
<1> QED
  BY ONLY <1>2, Good(s, left, im, p, h, l), Zenon DEF Good

-----------------------------------------------------------------------------
(* Sequences of tokens.                                                    *)

(* Sequences of tokens put together, taken apart and read on.              *)
LEMMA CatFacts ==
  ASSUME NEW u \in Seq(Tokens), NEW v \in Seq(Tokens)
  PROVE  /\ Cat(u, v) \in Seq(Tokens)
         /\ Len(Cat(u, v)) = Len(u) + Len(v) /\ Len(u) \in Nat /\ Len(v) \in Nat
         /\ \A i \in 1..Len(u) : Cat(u, v)[i] = u[i]
         /\ \A i \in 1..Len(v) : Cat(u, v)[Len(u) + i] = v[i]
         /\ \A i \in (Len(u) + 1)..(Len(u) + Len(v)) : Cat(u, v)[i] = v[i - Len(u)]
<1>1. u \o v \in Seq(Tokens) /\ Len(u \o v) = Len(u) + Len(v) /\ Len(u) \in Nat /\ Len(v) \in Nat
  OBVIOUS
<1>2. \A i \in 1..Len(u) : (u \o v)[i] = u[i]
  OBVIOUS
<1>3. \A i \in 1..Len(v) : (u \o v)[Len(u) + i] = v[i]
  OBVIOUS
<1>4. \A i \in (Len(u) + 1)..(Len(u) + Len(v)) : (u \o v)[i] = v[i - Len(u)]
  OBVIOUS
<1> QED
  BY ONLY <1>1, <1>2, <1>3, <1>4, Zenon DEF Cat

(* The first line of the buffer is that of the stream.                     *)
LEMMA PopCat ==
  ASSUME NEW u \in Seq(Tokens), NEW v \in Seq(Tokens), Len(u) > 0
  PROVE  /\ Tail(u) \in Seq(Tokens) /\ Len(Tail(u)) = Len(u) - 1
         /\ Cat(u, v)[1] = Head(u) /\ Len(Cat(u, v)) > 0
         /\ Popped(Cat(Tail(u), v), Cat(u, v))
<1>1. /\ Tail(u) \in Seq(Tokens) /\ Len(Tail(u)) = Len(u) - 1 /\ Head(u) = u[1]
      /\ \A i \in 1..(Len(u) - 1) : Tail(u)[i] = u[i + 1]
  OBVIOUS
<1> DEFINE w == Tail(u)
<1> HIDE DEF w
<1>2. w \in Seq(Tokens) /\ Len(w) = Len(u) - 1 /\ \A i \in 1..(Len(u) - 1) : w[i] = u[i + 1]
  BY <1>1 DEF w
<1>3. Len(u) \in Nat /\ Len(v) \in Nat
  OBVIOUS
<1>8. Len(Cat(u, v)) = Len(u) + Len(v)
  BY CatFacts
<1>4. Len(Cat(u, v)) = Len(u) + Len(v) /\ Len(Cat(w, v)) = Len(w) + Len(v)
  BY <1>8, <1>2, CatFacts
<1>7. Cat(u, v)[1] = u[1]
  <2>1. 1 \in 1..Len(u)
    BY <1>3
  <2> QED
    BY <2>1, CatFacts
<1>5. ASSUME NEW i \in 1..Len(Cat(w, v)) PROVE Cat(w, v)[i] = Cat(u, v)[i + 1]
  <2>1. CASE i \in 1..Len(w)
    <3>1. i + 1 \in 1..Len(u) /\ i \in 1..(Len(u) - 1)
      BY <1>2, <1>3, <2>1
    <3>2. Cat(w, v)[i] = w[i] /\ Cat(u, v)[i + 1] = u[i + 1]
      BY <3>1, <2>1, <1>2, CatFacts
    <3> QED
      BY <3>1, <3>2, <1>2
  <2>2. CASE i \notin 1..Len(w)
    <3>1. /\ i \in (Len(w) + 1)..(Len(w) + Len(v)) /\ i + 1 \in (Len(u) + 1)..(Len(u) + Len(v))
          /\ i - Len(w) = (i + 1) - Len(u)
      BY <1>2, <1>3, <1>4, <2>2
    <3>2. Cat(w, v)[i] = v[i - Len(w)] /\ Cat(u, v)[i + 1] = v[(i + 1) - Len(u)]
      BY <3>1, <1>2, CatFacts
    <3> QED
      BY <3>1, <3>2
  <2> QED
    BY <2>1, <2>2
<1>6. Len(Cat(w, v)) = Len(Cat(u, v)) - 1 /\ Len(Cat(u, v)) > 0
  BY <1>2, <1>3, <1>4
<1> QED
  BY <1>1, <1>4, <1>5, <1>6, <1>7 DEF w, Popped

(* The first k tokens of the buffer are those of the stream.               *)
LEMMA DropCat ==
  ASSUME NEW u \in Seq(Tokens), NEW v \in Seq(Tokens), NEW k \in Nat, k <= Len(u)
  PROVE  /\ From(u, k + 1) \in Seq(Tokens) /\ Len(From(u, k + 1)) = Len(u) - k
         /\ Dropped(Cat(From(u, k + 1), v), Cat(u, v), k)
<1>1. /\ From(u, k + 1) \in Seq(Tokens) /\ Len(From(u, k + 1)) = Len(u) - k
      /\ \A i \in 1..(Len(u) - k) : From(u, k + 1)[i] = u[i + k]
  BY DEF From
<1> DEFINE w == From(u, k + 1)
<1> HIDE DEF w
<1>2. w \in Seq(Tokens) /\ Len(w) = Len(u) - k /\ \A i \in 1..(Len(u) - k) : w[i] = u[i + k]
  BY <1>1 DEF w
<1>3. Len(u) \in Nat /\ Len(v) \in Nat
  OBVIOUS
<1>4. Len(Cat(u, v)) = Len(u) + Len(v) /\ Len(Cat(w, v)) = Len(w) + Len(v)
  BY <1>2, <1>3, CatFacts
<1>5. ASSUME NEW i \in 1..Len(Cat(w, v)) PROVE Cat(w, v)[i] = Cat(u, v)[i + k]
  <2>1. CASE i \in 1..Len(w)
    <3>1. i + k \in 1..Len(u) /\ i \in 1..(Len(u) - k)
      BY <1>2, <1>3, <2>1
    <3>2. Cat(w, v)[i] = w[i] /\ Cat(u, v)[i + k] = u[i + k]
      BY <3>1, <2>1, <1>2, CatFacts
    <3> QED
      BY <3>1, <3>2, <1>2
  <2>2. CASE i \notin 1..Len(w)
    <3>1. /\ i \in (Len(w) + 1)..(Len(w) + Len(v)) /\ i + k \in (Len(u) + 1)..(Len(u) + Len(v))
          /\ i - Len(w) = (i + k) - Len(u)
      BY <1>2, <1>3, <1>4, <2>2
    <3>2. Cat(w, v)[i] = v[i - Len(w)] /\ Cat(u, v)[i + k] = v[(i + k) - Len(u)]
      BY <3>1, <1>2, CatFacts
    <3> QED
      BY <3>1, <3>2
  <2> QED
    BY <2>1, <2>2
<1>6. Len(Cat(w, v)) = Len(Cat(u, v)) - k
  BY <1>2, <1>3, <1>4
<1> QED
  BY <1>1, <1>5, <1>6 DEF w, Dropped

(* What recv takes and what it leaves.                                     *)
LEMMA SplitIs ==
  ASSUME NEW X, NEW s \in Seq(X), NEW k \in 1..Len(s)
  PROVE  SubSeq(s, 1, k) \o SubSeq(s, k + 1, Len(s)) = s
BY SMTT(30)

Received(u, v, k) == u \o SubSeq(v, 1, k)

(* recv moves tokens from the network to the buffer: the stream stays.     *)
LEMMA ReceiveCat ==
  ASSUME NEW u \in Seq(Tokens), NEW v \in Seq(Tokens), NEW k \in 1..Len(v)
  PROVE  /\ Received(u, v, k) \in Seq(Tokens) /\ From(v, k + 1) \in Seq(Tokens)
         /\ Len(Received(u, v, k)) = Len(u) + k
         /\ Cat(Received(u, v, k), From(v, k + 1)) = Cat(u, v)
<1> DEFINE a == Received(u, v, k)
           x == SubSeq(v, 1, k)
           y == SubSeq(v, k + 1, Len(v))
<1>1. /\ x \in Seq(Tokens) /\ y \in Seq(Tokens) /\ Len(x) = k /\ Len(u) \in Nat
      /\ Len(y) = Len(v) - k /\ Len(v) \in Nat
      /\ \A i \in 1..k : x[i] = v[i]
      /\ \A i \in 1..(Len(v) - k) : y[i] = v[i + k]
  OBVIOUS
<1>2. a = u \o x /\ From(v, k + 1) = y
  BY DEF From, Received
<1>5. x \o y = v
  BY SplitIs
<1> HIDE DEF x, y, a
<1>3. a \in Seq(Tokens) /\ Len(a) = Len(u) + k
  <2>1. x \in Seq(Tokens) /\ Len(x) = k
    BY <1>1
  <2>2. u \o x \in Seq(Tokens) /\ Len(u \o x) = Len(u) + Len(x)
    BY ONLY <2>1, u \in Seq(Tokens)
  <2> QED
    BY <1>2, <2>1, <2>2, Zenon
<1>6. (u \o x) \o y = u \o (x \o y)
  BY ONLY <1>1, u \in Seq(Tokens), SMTT(30)
<1>4. a \o y = u \o v
  BY <1>2, <1>5, <1>6
<1> QED
  BY <1>1, <1>2, <1>3, <1>4, Zenon DEF Cat, a

(* Sent behind what is there already: r is s, and then t.                  *)
Behind(r, s, t) == /\ Len(r) = Len(s) + Len(t)
                   /\ \A i \in 1..Len(s) : r[i] = s[i]
                   /\ \A i \in 1..Len(t) : r[Len(s) + i] = t[i]

(* What the peer sends goes behind the stream.                             *)
LEMMA SendCat ==
  ASSUME NEW u \in Seq(Tokens), NEW v \in Seq(Tokens), NEW t \in Seq(Tokens),
         NEW b, b = Cat(v, t)
  PROVE  b \in Seq(Tokens) /\ Cat(u, b) \in Seq(Tokens) /\ Behind(Cat(u, b), Cat(u, v), t)
<1>0. b = v \o t
  BY DEF Cat
<1>1. b \in Seq(Tokens) /\ Len(b) = Len(v) + Len(t) /\ Len(u) \in Nat /\ Len(v) \in Nat /\ Len(t) \in Nat
  BY <1>0
<1>2. (\A i \in 1..Len(v) : b[i] = v[i]) /\ (\A i \in 1..Len(t) : b[Len(v) + i] = t[i])
  BY <1>0
<1>3. Cat(u, b) \in Seq(Tokens) /\ Len(Cat(u, b)) = Len(u) + Len(b) /\ Len(Cat(u, v)) = Len(u) + Len(v)
  BY <1>1, CatFacts
<1>4. ASSUME NEW i \in 1..Len(Cat(u, v)) PROVE Cat(u, b)[i] = Cat(u, v)[i]
  <2>1. CASE i \in 1..Len(u)
    <3>3. \A j \in 1..Len(u) : Cat(u, b)[j] = u[j]
      BY <1>1, CatFacts
    <3>1. Cat(u, b)[i] = u[i]
      BY <2>1, <3>3
    <3>2. Cat(u, v)[i] = u[i]
      BY <2>1, CatFacts
    <3> QED
      BY <3>1, <3>2
  <2>2. CASE i \notin 1..Len(u)
    <3>1. /\ i \in (Len(u) + 1)..(Len(u) + Len(v)) /\ i \in (Len(u) + 1)..(Len(u) + Len(b))
          /\ i - Len(u) \in 1..Len(v)
      BY <1>1, <1>3, <2>2
    <3>2. Cat(u, b)[i] = b[i - Len(u)] /\ Cat(u, v)[i] = v[i - Len(u)]
      BY <3>1, <1>1, CatFacts
    <3> QED
      BY <1>2, <3>1, <3>2
  <2> QED
    BY <2>1, <2>2
<1>5. ASSUME NEW i \in 1..Len(t) PROVE Cat(u, b)[Len(Cat(u, v)) + i] = t[i]
  <2>1. /\ (Len(u) + Len(v)) + i \in (Len(u) + 1)..(Len(u) + Len(b))
        /\ ((Len(u) + Len(v)) + i) - Len(u) = Len(v) + i
    BY <1>1
  <2>2. \A j \in (Len(u) + 1)..(Len(u) + Len(b)) : Cat(u, b)[j] = b[j - Len(u)]
    BY <1>1, CatFacts
  <2>3. Cat(u, b)[(Len(u) + Len(v)) + i] = b[((Len(u) + Len(v)) + i) - Len(u)]
    BY ONLY <2>1, <2>2, Zenon
  <2> QED
    BY <1>2, <1>3, <2>1, <2>3
<1>6. Len(Cat(u, b)) = Len(Cat(u, v)) + Len(t)
  BY <1>1, <1>3
<1> QED
  BY <1>1, <1>3, <1>4, <1>5, <1>6 DEF Behind

-----------------------------------------------------------------------------
(* The steps of the peers and of recv.                                     *)

Offers == {Nothing} \cup UNION {Uploads[c] \cup Configs[c] : c \in Conns}

(* The connections' variables have their types; the buffer is empty, or    *)
(* not, as the place of the thread has it.                                 *)
ConnTyped ==
  /\ net \in [Conns -> Seq(Tokens)] /\ ibuf \in [Conns -> Seq(Tokens)]
  /\ upload \in [Conns -> Offers]
  /\ bleft \in [Conns -> 0..MAX_UPLOAD \cup 0..MAX_CONFIG]
  /\ peer \in [Conns -> {"off", "idle", "asking", "ok", "sent", "gone"}]
  /\ pc \in [Conns -> Places]
  /\ mode \in [Conns -> {"line", "putconf", "upgrade"}]
  /\ hasty \in [Conns -> BOOLEAN] /\ authed \in [Conns -> BOOLEAN] /\ pcfp \in [Conns -> BOOLEAN]

Held(i, left, h, l, md) ==
  /\ l = "recv" /\ ~h => Len(i) = 0
  /\ l \in {"lines", "write", "count"} => Len(i) > 0
  /\ Len(i) <= IBUF
  /\ left > 0 \/ l \in {"finish", "exec"} => md # "line"
  /\ l \in {"count", "exec"} => md = "upgrade"
  /\ l = "none" => md = "line" /\ Len(i) = 0

Conn(c) ==
  /\ Good(Cat(ibuf[c], net[c]), bleft[c], upload[c].image, peer[c], hasty[c], pc[c])
  /\ Held(ibuf[c], bleft[c], hasty[c], pc[c], mode[c])

(* A step of c's own.                                                      *)
Elsewhere(c) ==
  \A d \in Conns \ {c} :
    /\ ibuf'[d] = ibuf[d] /\ net'[d] = net[d] /\ bleft'[d] = bleft[d] /\ upload'[d] = upload[d]
    /\ peer'[d] = peer[d] /\ hasty'[d] = hasty[d] /\ pc'[d] = pc[d] /\ mode'[d] = mode[d]

(* What is uploaded are bytes.                                             *)
LEMMA OffersAre == ASSUME NEW u \in Offers PROVE u.image \in Seq(Bytes) /\ u.image \in Seq(Nat)
<1>1. CASE u = Nothing
  BY <1>1 DEF Nothing
<1>2. CASE u # Nothing
  <2>1. PICK c \in Conns : u \in Uploads[c] \cup Configs[c]
    BY <1>2 DEF Offers
  <2>2. u.image \in Seq(Nat)
    BY <2>1, PeersAssumption
  <2>3. \A i \in 1..Len(u.image) : u.image[i] \in Bytes
    <3>1. u \in UNION {Uploads[d] \cup Configs[d] : d \in Conns}
      BY <2>1
    <3>2. Range(u.image) \subseteq Bytes
      BY <3>1 DEF Bytes
    <3>3. \A i \in 1..Len(u.image) : u.image[i] \in Range(u.image)
      BY <2>2 DEF Range
    <3> QED
      BY <3>2, <3>3
  <2> QED
    BY <2>2, <2>3
<1> QED
  BY <1>1, <1>2

(* Bytes are numbers.                                                      *)
LEMMA BytesAre == Bytes \subseteq Nat
<1> SUFFICES ASSUME NEW u, u \in UNION {Uploads[c] \cup Configs[c] : c \in Conns},
                    NEW b \in Range(u.image)
             PROVE  b \in Nat
  BY DEF Bytes
<1>1. u.image \in Seq(Nat)
  BY PeersAssumption
<1> QED
  BY <1>1 DEF Range

(* The types of one connection's variables.                                *)
LEMMA Flat ==
  ASSUME ConnTyped, NEW c \in Conns
  PROVE  /\ ibuf[c] \in Seq(Tokens) /\ net[c] \in Seq(Tokens)
         /\ upload[c].image \in Seq(Bytes) /\ bleft[c] \in Nat
         /\ Cat(ibuf[c], net[c]) \in Seq(Tokens)
         /\ Len(ibuf[c]) \in Nat /\ Len(net[c]) \in Nat
         /\ Len(Cat(ibuf[c], net[c])) = Len(ibuf[c]) + Len(net[c])
<1>1. ibuf[c] \in Seq(Tokens) /\ net[c] \in Seq(Tokens) /\ upload[c] \in Offers
  BY DEF ConnTyped
<1>2. upload[c].image \in Seq(Bytes)
  BY <1>1, OffersAre
<1>3. bleft[c] \in Nat
  BY UploadAssumption, BufferAssumption DEF ConnTyped
<1> QED
  BY <1>1, <1>2, <1>3, CatFacts

(* Sums of lengths.                                                        *)
LEMMA Sums ==
  \A a, b \in Nat : /\ a + (1 + b) = (a + 1) + b
                    /\ a <= a + b /\ b <= a + b /\ (b \in Nat \ {0} => a + b > 0)
OBVIOUS

(* PeerLine                                                                *)
LEMMA PeerLineStep ==
  ASSUME ConnTyped, NEW c \in Conns, Conn(c), PeerLine(c)
  PROVE  ConnTyped' /\ Conn(c)' /\ Elsewhere(c)
<1>1. PICK ln \in Lines[c] : net' = [net EXCEPT ![c] = @ \o <<ln>>]
  BY DEF PeerLine, Sends
<1>2. /\ peer[c] \in {"idle", "sent"}
      /\ ibuf' = ibuf /\ peer' = peer /\ hasty' = hasty /\ upload' = upload /\ bleft' = bleft
      /\ pc' = pc /\ mode' = mode /\ authed' = authed /\ pcfp' = pcfp
  BY DEF PeerLine, connvars
<1>3. ln \in Ordinary /\ ln \in Tokens
  <2>1. ln \in Ordinary
    BY PeersAssumption
  <2> QED
    BY <2>1, TokenFacts
<1>4. net'[c] = net[c] \o <<ln>> /\ \A d \in Conns \ {c} : net'[d] = net[d]
  BY <1>1 DEF ConnTyped
<1>10. PICK t : t = <<ln>>
  OBVIOUS
<1>11. t \in Seq(Tokens) /\ Len(t) = 1 /\ t[1] = ln
  BY <1>3, <1>10
<1>12. net'[c] = Cat(net[c], t)
  BY <1>4, <1>10 DEF Cat
<1>5. /\ net'[c] \in Seq(Tokens) /\ Cat(ibuf[c], net'[c]) \in Seq(Tokens)
      /\ Behind(Cat(ibuf[c], net'[c]), Cat(ibuf[c], net[c]), t)
  BY <1>11, <1>12, Flat, SendCat
<1>6. /\ Len(Cat(ibuf[c], net'[c])) = Len(Cat(ibuf[c], net[c])) + 1
      /\ \A i \in 1..Len(Cat(ibuf[c], net[c])) : Cat(ibuf[c], net'[c])[i] = Cat(ibuf[c], net[c])[i]
      /\ Cat(ibuf[c], net'[c])[Len(Cat(ibuf[c], net'[c]))] \in Ordinary
  BY <1>3, <1>5, <1>11 DEF Behind
<1>7. Good(Cat(ibuf[c], net'[c]), bleft[c], upload[c].image, peer[c], hasty[c], pc[c])
  BY <1>2, <1>3, <1>5, <1>6, Flat, GoodLine DEF Conn
<1>8. Conn(c)'
  BY <1>2, <1>7 DEF Conn
<1>9. ConnTyped'
  <2>1. net' \in [Conns -> Seq(Tokens)]
    BY <1>1, <1>4, <1>5 DEF ConnTyped
  <2> QED
    BY <1>2, <2>1 DEF ConnTyped
<1> QED
  BY <1>2, <1>4, <1>8, <1>9 DEF Elsewhere

(* PeerUpload                                                              *)
LEMMA PeerUploadStep ==
  ASSUME ConnTyped, NEW c \in Conns, Conn(c), PeerUpload(c)
  PROVE  ConnTyped' /\ Conn(c)' /\ Elsewhere(c)
<1>1. PICK h \in BOOLEAN, u \in Uploads[c] \cup Configs[c], ln \in Asking : Asks(c, ln, u, h)
  BY DEF PeerUpload, Asking
<1>2. /\ peer[c] = "idle" /\ (hasty[c] => h)
      /\ net' = [net EXCEPT ![c] = @ \o IF h THEN <<ln>> \o u.image ELSE <<ln>>]
      /\ upload' = [upload EXCEPT ![c] = u] /\ hasty' = [hasty EXCEPT ![c] = h]
      /\ peer' = [peer EXCEPT ![c] = "asking"]
      /\ ibuf' = ibuf /\ bleft' = bleft /\ pc' = pc /\ mode' = mode
      /\ authed' = authed /\ pcfp' = pcfp
  BY <1>1 DEF Asks, Sends, connvars
<1>3. u \in Offers /\ u.image \in Seq(Bytes) /\ Len(u.image) \in Nat
  <2>1. u \in Offers
    BY DEF Offers
  <2> QED
    BY <2>1, OffersAre
<1>4. /\ upload'[c] = u /\ hasty'[c] = h /\ peer'[c] = "asking"
      /\ net'[c] = net[c] \o (IF h THEN <<ln>> \o u.image ELSE <<ln>>)
  BY <1>2 DEF ConnTyped
<1>5. ln \in Tokens /\ <<ln>> \in Seq(Tokens) /\ Len(<<ln>>) = 1 /\ u.image \in Seq(Tokens)
  BY <1>3, TokenFacts
<1>6. /\ net'[c] \in Seq(Tokens)
      /\ Good(Cat(ibuf[c], net'[c]), bleft[c], u.image, "asking", h, pc[c])
  <2>1. Good(Cat(ibuf[c], net[c]), bleft[c], upload[c].image, "idle", hasty[c], pc[c])
    BY <1>2 DEF Conn
  <2>2. CASE h
    <3>1. PICK t : t = <<ln>> \o u.image
      OBVIOUS
    <3>7. t \in Seq(Tokens) /\ Len(t) = 1 + Len(u.image) /\ t[1] = ln
      BY <1>5, <3>1
    <3>8. \A i \in 1..Len(u.image) : t[1 + i] = u.image[i]
      BY <1>5, <3>1
    <3>2. net'[c] = Cat(net[c], t)
      BY <1>4, <2>2, <3>1 DEF Cat
    <3>3. /\ net'[c] \in Seq(Tokens) /\ Cat(ibuf[c], net'[c]) \in Seq(Tokens)
          /\ Behind(Cat(ibuf[c], net'[c]), Cat(ibuf[c], net[c]), t)
      BY <3>2, <3>7, Flat, SendCat
    <3>4. /\ Cat(ibuf[c], net'[c])[Len(Cat(ibuf[c], net[c])) + 1] \in Asking
          /\ Len(Cat(ibuf[c], net'[c])) = (Len(Cat(ibuf[c], net[c])) + 1) + Len(u.image)
      <4>1. Len(Cat(ibuf[c], net[c])) \in Nat /\ 1 \in 1..Len(t)
        BY <1>3, <3>7, Flat
      <4>2. /\ Cat(ibuf[c], net'[c])[Len(Cat(ibuf[c], net[c])) + 1] = t[1]
            /\ Len(Cat(ibuf[c], net'[c])) = Len(Cat(ibuf[c], net[c])) + Len(t)
        BY <3>3, <4>1 DEF Behind
      <4>3. Len(Cat(ibuf[c], net[c])) + Len(t) = (Len(Cat(ibuf[c], net[c])) + 1) + Len(u.image)
        <5>1. /\ Len(t) = 1 + Len(u.image) /\ Len(u.image) \in Nat
              /\ Len(Cat(ibuf[c], net[c])) \in Nat
          BY <1>3, <3>7, <4>1
        <5> QED
          BY ONLY <5>1, Sums, Zenon
      <4> QED
        BY <3>7, <4>2, <4>3
    <3>9. \A i \in 1..Len(Cat(ibuf[c], net[c])) :
            Cat(ibuf[c], net'[c])[i] = Cat(ibuf[c], net[c])[i]
      BY <3>3 DEF Behind
    <3>5. \A i \in 1..Len(u.image) :
            Cat(ibuf[c], net'[c])[(Len(Cat(ibuf[c], net[c])) + 1) + i] = u.image[i]
      <4> SUFFICES ASSUME NEW i \in 1..Len(u.image)
                   PROVE  Cat(ibuf[c], net'[c])[(Len(Cat(ibuf[c], net[c])) + 1) + i] = u.image[i]
        OBVIOUS
      <4>1. 1 + i \in 1..Len(t) /\ t[1 + i] = u.image[i]
        BY <1>3, <3>7, <3>8
      <4>2. Len(Cat(ibuf[c], net[c])) + (1 + i) = (Len(Cat(ibuf[c], net[c])) + 1) + i
        BY Flat
      <4>3. Cat(ibuf[c], net'[c])[Len(Cat(ibuf[c], net[c])) + (1 + i)] = t[1 + i]
        BY <3>3, <4>1 DEF Behind
      <4> QED
        BY <4>1, <4>2, <4>3
    <3>6. Good(Cat(ibuf[c], net'[c]), bleft[c], u.image, "asking", TRUE, pc[c])
      BY <1>3, <2>1, <3>3, <3>4, <3>5, <3>9, Flat, GoodAskHasty
    <3> QED
      BY <2>2, <3>3, <3>6
  <2>3. CASE ~h
    <3>1. PICK t : t = <<ln>>
      OBVIOUS
    <3>6. t \in Seq(Tokens) /\ Len(t) = 1 /\ t[1] = ln
      BY <1>5, <3>1
    <3>7. net'[c] = Cat(net[c], t)
      BY <1>4, <2>3, <3>1 DEF Cat
    <3>2. /\ net'[c] \in Seq(Tokens) /\ Cat(ibuf[c], net'[c]) \in Seq(Tokens)
          /\ Behind(Cat(ibuf[c], net'[c]), Cat(ibuf[c], net[c]), t)
      BY <3>6, <3>7, Flat, SendCat
    <3>3. /\ Len(Cat(ibuf[c], net'[c])) = Len(Cat(ibuf[c], net[c])) + 1
          /\ \A i \in 1..Len(Cat(ibuf[c], net[c])) :
               Cat(ibuf[c], net'[c])[i] = Cat(ibuf[c], net[c])[i]
          /\ Cat(ibuf[c], net'[c])[Len(Cat(ibuf[c], net'[c]))] \in Asking
      BY <3>2, <3>6 DEF Behind
    <3>4. hasty[c] = FALSE
      BY <1>2, <2>3 DEF ConnTyped
    <3>5. Good(Cat(ibuf[c], net'[c]), bleft[c], u.image, "asking", FALSE, pc[c])
      BY <1>3, <1>5, <2>1, <3>2, <3>3, <3>4, Flat, GoodAskPatient
    <3> QED
      BY <2>3, <3>2, <3>5
  <2> QED
    BY <2>2, <2>3
<1>7. Held(ibuf[c], bleft[c], h, pc[c], mode[c])
  BY <1>2 DEF Conn, Held
<1>8. Conn(c)'
  BY <1>2, <1>4, <1>6, <1>7 DEF Conn
<1>9. ConnTyped'
  <2>1. net' \in [Conns -> Seq(Tokens)]
    BY <1>2, <1>4, <1>6 DEF ConnTyped
  <2>2. upload' \in [Conns -> Offers] /\ hasty' \in [Conns -> BOOLEAN]
    BY <1>2, <1>3 DEF ConnTyped
  <2>3. peer' \in [Conns -> {"off", "idle", "asking", "ok", "sent", "gone"}]
    BY <1>2 DEF ConnTyped
  <2> QED
    BY <1>2, <2>1, <2>2, <2>3 DEF ConnTyped
<1> QED
  BY <1>2, <1>8, <1>9 DEF Elsewhere, ConnTyped

(* PeerPayload                                                             *)
LEMMA PeerPayloadStep ==
  ASSUME ConnTyped, NEW c \in Conns, Conn(c), PeerPayload(c)
  PROVE  ConnTyped' /\ Conn(c)' /\ Elsewhere(c)
<1>1. /\ peer[c] = "ok" /\ ~hasty[c]
      /\ net' = [net EXCEPT ![c] = @ \o upload[c].image]
      /\ peer' = [peer EXCEPT ![c] = "sent"]
      /\ ibuf' = ibuf /\ hasty' = hasty /\ upload' = upload /\ bleft' = bleft
      /\ pc' = pc /\ mode' = mode /\ authed' = authed /\ pcfp' = pcfp
  BY DEF PeerPayload, Sends, connvars
<1>2. net'[c] = Cat(net[c], upload[c].image) /\ peer'[c] = "sent"
  BY <1>1 DEF ConnTyped, Cat
<1>3. upload[c].image \in Seq(Bytes) /\ upload[c].image \in Seq(Tokens)
  <2>1. upload[c].image \in Seq(Bytes)
    BY Flat
  <2> QED
    BY <2>1, TokenFacts
<1>4. /\ net'[c] \in Seq(Tokens) /\ Cat(ibuf[c], net'[c]) \in Seq(Tokens)
      /\ Behind(Cat(ibuf[c], net'[c]), Cat(ibuf[c], net[c]), upload[c].image)
  BY <1>2, <1>3, Flat, SendCat
<1>5. Good(Cat(ibuf[c], net[c]), bleft[c], upload[c].image, "ok", hasty[c], pc[c])
  BY <1>1 DEF Conn
<1>6. Len(Cat(ibuf[c], net[c])) = 0
  BY <1>5 DEF Good, Placed
<1>7. /\ Len(Cat(ibuf[c], net'[c])) = Len(upload[c].image)
      /\ \A i \in 1..Len(upload[c].image) : Cat(ibuf[c], net'[c])[i] = upload[c].image[i]
  BY <1>3, <1>4, <1>6 DEF Behind
<1>8. Good(Cat(ibuf[c], net'[c]), bleft[c], upload[c].image, "sent", hasty[c], pc[c])
  BY <1>3, <1>5, <1>7, Flat, GoodPayload
<1>9. Conn(c)'
  BY <1>1, <1>2, <1>8 DEF Conn
<1>10. ConnTyped'
  <2>1. net' \in [Conns -> Seq(Tokens)]
    BY <1>1, <1>2, <1>4 DEF ConnTyped
  <2>2. peer' \in [Conns -> {"off", "idle", "asking", "ok", "sent", "gone"}]
    BY <1>1 DEF ConnTyped
  <2> QED
    BY <1>1, <2>1, <2>2 DEF ConnTyped
<1> QED
  BY <1>1, <1>9, <1>10 DEF Elsewhere, ConnTyped

(* With nothing on its way, the buffer is the stream.                      *)
LEMMA CatNone ==
  ASSUME NEW u \in Seq(Tokens), NEW v, v = <<>>
  PROVE  /\ v \in Seq(Tokens) /\ Cat(u, v) \in Seq(Tokens) /\ Len(Cat(u, v)) = Len(u)
         /\ \A i \in 1..Len(u) : Cat(u, v)[i] = u[i]
<1>1. v \in Seq(Tokens) /\ Len(v) = 0 /\ Len(u) \in Nat
  OBVIOUS
<1>2. Cat(u, v) \in Seq(Tokens) /\ Len(Cat(u, v)) = Len(u) + Len(v)
  BY <1>1, CatFacts
<1>3. \A i \in 1..Len(u) : Cat(u, v)[i] = u[i]
  BY <1>1, CatFacts
<1>4. Len(u) + Len(v) = Len(u)
  BY <1>1
<1> QED
  BY <1>1, <1>2, <1>3, <1>4, Zenon

(* PeerGone                                                                *)
LEMMA PeerGoneStep ==
  ASSUME ConnTyped, NEW c \in Conns, Conn(c), PeerGone(c)
  PROVE  ConnTyped' /\ Conn(c)' /\ Elsewhere(c)
<1>1. /\ peer[c] \notin {"off", "gone"}
      /\ net' = [net EXCEPT ![c] = <<>>] /\ peer' = [peer EXCEPT ![c] = "gone"]
      /\ ibuf' = ibuf /\ hasty' = hasty /\ upload' = upload /\ bleft' = bleft
      /\ pc' = pc /\ mode' = mode /\ authed' = authed /\ pcfp' = pcfp
  BY DEF PeerGone, connvars
<1>2. net'[c] = <<>> /\ peer'[c] = "gone"
  BY <1>1 DEF ConnTyped
<1>3. /\ net'[c] \in Seq(Tokens) /\ Cat(ibuf[c], net'[c]) \in Seq(Tokens)
      /\ Len(Cat(ibuf[c], net'[c])) = Len(ibuf[c])
      /\ \A i \in 1..Len(ibuf[c]) : Cat(ibuf[c], net'[c])[i] = ibuf[c][i]
  BY <1>2, Flat, CatNone
<1>4. /\ Len(Cat(ibuf[c], net'[c])) <= Len(Cat(ibuf[c], net[c]))
      /\ \A i \in 1..Len(Cat(ibuf[c], net'[c])) :
           Cat(ibuf[c], net'[c])[i] = Cat(ibuf[c], net[c])[i]
  <2>1. \A i \in 1..Len(ibuf[c]) : Cat(ibuf[c], net[c])[i] = ibuf[c][i]
    BY Flat, CatFacts
  <2>2. Len(ibuf[c]) <= Len(Cat(ibuf[c], net[c])) /\ Len(ibuf[c]) \in Nat
    <3>1. /\ Len(ibuf[c]) \in Nat /\ Len(net[c]) \in Nat
          /\ Len(Cat(ibuf[c], net[c])) = Len(ibuf[c]) + Len(net[c])
      BY Flat
    <3> QED
      BY ONLY <3>1, Sums, Zenon
  <2> QED
    BY <1>3, <2>1, <2>2
<1>5. Good(Cat(ibuf[c], net'[c]), bleft[c], upload[c].image, "gone", hasty[c], pc[c])
  BY <1>1, <1>3, <1>4, Flat, GoodGone DEF Conn
<1>6. Conn(c)'
  BY <1>1, <1>2, <1>5 DEF Conn
<1>7. ConnTyped'
  <2>1. net' \in [Conns -> Seq(Tokens)]
    BY <1>1, <1>2, <1>3 DEF ConnTyped
  <2>2. peer' \in [Conns -> {"off", "idle", "asking", "ok", "sent", "gone"}]
    BY <1>1 DEF ConnTyped
  <2> QED
    BY <1>1, <2>1, <2>2 DEF ConnTyped
<1> QED
  BY <1>1, <1>6, <1>7 DEF Elsewhere, ConnTyped

(* Accept                                                                  *)
LEMMA AcceptStep ==
  ASSUME ConnTyped, NEW c \in Conns, Conn(c), Accept(c)
  PROVE  ConnTyped' /\ Conn(c)' /\ Elsewhere(c)
<1>1. PICK a \in BOOLEAN : authed' = [authed EXCEPT ![c] = a]
  BY DEF Accept
<1>2. /\ pc[c] = "none" /\ net' = [net EXCEPT ![c] = <<>>]
      /\ peer' = [peer EXCEPT ![c] = "idle"] /\ pc' = [pc EXCEPT ![c] = "recv"]
      /\ ibuf' = ibuf /\ hasty' = hasty /\ upload' = upload /\ bleft' = bleft
      /\ mode' = mode /\ pcfp' = pcfp
  BY DEF Accept, Goto
<1>3. net'[c] = <<>> /\ peer'[c] = "idle" /\ pc'[c] = "recv"
  BY <1>2 DEF ConnTyped
<1>4. bleft[c] = 0 /\ Len(ibuf[c]) = 0
  <2>1. peer[c] = "off" /\ bleft[c] = 0
    BY <1>2 DEF Conn, Good, Placed
  <2> QED
    BY <1>2, <2>1 DEF Conn, Held
<1>5. net'[c] \in Seq(Tokens) /\ Len(Cat(ibuf[c], net'[c])) = 0
  BY <1>3, <1>4, Flat, CatNone
<1>6. Good(Cat(ibuf[c], net'[c]), 0, upload[c].image, "idle", hasty[c], "recv")
  <2>1. Len(upload[c].image) \in Nat
    BY Flat
  <2> QED
    BY <1>5, <2>1, GoodFresh
<1>7. Held(ibuf[c], 0, hasty[c], "recv", mode[c])
  BY <1>4, BufferAssumption DEF Held
<1>8. Conn(c)'
  BY <1>2, <1>3, <1>4, <1>6, <1>7 DEF Conn
<1>9. ConnTyped'
  <2>1. net' \in [Conns -> Seq(Tokens)]
    BY <1>2, <1>3, <1>5 DEF ConnTyped
  <2>2. peer' \in [Conns -> {"off", "idle", "asking", "ok", "sent", "gone"}]
    BY <1>2 DEF ConnTyped
  <2>3. pc' \in [Conns -> Places] /\ authed' \in [Conns -> BOOLEAN]
    BY <1>1, <1>2 DEF ConnTyped, Places
  <2> QED
    BY <1>2, <2>1, <2>2, <2>3 DEF ConnTyped
<1> QED
  BY <1>2, <1>8, <1>9 DEF Elsewhere, ConnTyped

(* Recv                                                                    *)
LEMMA RecvStep ==
  ASSUME ConnTyped, NEW c \in Conns, Conn(c), Recv(c)
  PROVE  ConnTyped' /\ Conn(c)' /\ Elsewhere(c)
<1>1. PICK n \in 1..Len(net[c]) :
        /\ n <= IBUF - Len(ibuf[c])
        /\ ibuf' = [ibuf EXCEPT ![c] = @ \o SubSeq(net[c], 1, n)]
        /\ net' = [net EXCEPT ![c] = From(@, n + 1)]
        /\ pc' = [pc EXCEPT ![c] = IF bleft[c] > 0 THEN "write"
                                   ELSE IF Len(ibuf'[c]) > LINE_MAX THEN "end" ELSE "lines"]
  BY DEF Recv, Goto
<1>2. /\ pc[c] = "recv" /\ peer' = peer /\ hasty' = hasty /\ upload' = upload /\ bleft' = bleft
      /\ mode' = mode /\ authed' = authed /\ pcfp' = pcfp
  BY DEF Recv
<1>3. /\ ibuf'[c] = ibuf[c] \o SubSeq(net[c], 1, n) /\ net'[c] = From(net[c], n + 1)
      /\ pc'[c] = IF bleft[c] > 0 THEN "write"
                  ELSE IF Len(ibuf'[c]) > LINE_MAX THEN "end" ELSE "lines"
  BY <1>1 DEF ConnTyped
<1>4. /\ ibuf'[c] \in Seq(Tokens) /\ net'[c] \in Seq(Tokens)
      /\ Len(ibuf'[c]) = Len(ibuf[c]) + n /\ Cat(ibuf'[c], net'[c]) = Cat(ibuf[c], net[c])
  <2>1. ibuf[c] \in Seq(Tokens) /\ net[c] \in Seq(Tokens)
    BY Flat
  <2>2. ibuf'[c] = Received(ibuf[c], net[c], n)
    BY <1>3 DEF Received
  <2>3. /\ Received(ibuf[c], net[c], n) \in Seq(Tokens) /\ From(net[c], n + 1) \in Seq(Tokens)
        /\ Len(Received(ibuf[c], net[c], n)) = Len(ibuf[c]) + n
        /\ Cat(Received(ibuf[c], net[c], n), From(net[c], n + 1)) = Cat(ibuf[c], net[c])
    BY <2>1, ReceiveCat
  <2> QED
    BY <1>3, <2>2, <2>3, Zenon
<1>5. Len(Cat(ibuf[c], net[c])) > 0
  <2>1. /\ Len(ibuf[c]) \in Nat /\ Len(net[c]) \in Nat
        /\ Len(Cat(ibuf[c], net[c])) = Len(ibuf[c]) + Len(net[c])
    BY Flat
  <2>2. Len(net[c]) \in Nat \ {0}
    BY <2>1
  <2> QED
    BY ONLY <2>1, <2>2, Sums, Zenon
<1>6. Good(Cat(ibuf[c], net[c]), bleft[c], upload[c].image, peer[c], hasty[c], pc'[c])
  <2>1. Good(Cat(ibuf[c], net[c]), bleft[c], upload[c].image, peer[c], hasty[c], "recv")
    BY <1>2 DEF Conn
  <2>2. CASE pc'[c] = "end"
    BY <1>5, <2>1, <2>2, GoodMove
  <2>3. CASE pc'[c] # "end"
    <3>1. pc'[c] = IF bleft[c] > 0 THEN "write" ELSE "lines"
      BY <1>3, <2>3
    <3> QED
      BY <1>5, <2>1, <3>1, GoodMove
  <2> QED
    BY <2>2, <2>3
<1>7. Held(ibuf'[c], bleft[c], hasty[c], pc'[c], mode[c])
  <2>1. Len(ibuf'[c]) > 0 /\ Len(ibuf'[c]) <= IBUF
    BY <1>1, <1>4, Flat, BufferAssumption
  <2>2. pc'[c] \in {"write", "end", "lines"}
    BY <1>3
  <2> QED
    BY <2>1, <2>2 DEF Conn, Held
<1>8. Conn(c)'
  BY <1>2, <1>4, <1>6, <1>7 DEF Conn
<1>9. ConnTyped'
  <2>1. net' \in [Conns -> Seq(Tokens)]
    BY <1>1, <1>3, <1>4 DEF ConnTyped
  <2>2. ibuf' \in [Conns -> Seq(Tokens)]
    BY <1>1, <1>3, <1>4 DEF ConnTyped
  <2>3. pc' \in [Conns -> Places]
    BY <1>1 DEF ConnTyped, Places
  <2> QED
    BY <1>2, <2>1, <2>2, <2>3 DEF ConnTyped
<1> QED
  BY <1>1, <1>2, <1>8, <1>9 DEF Elsewhere, ConnTyped

(* The thread moves on and leaves everything else as it is.                *)
Moves(c, k) ==
  /\ pc' = [pc EXCEPT ![c] = k]
  /\ net' = net /\ ibuf' = ibuf /\ peer' = peer /\ hasty' = hasty /\ upload' = upload
  /\ bleft' = bleft /\ mode' = mode /\ authed' = authed /\ pcfp' = pcfp

(* The steps that only move the thread.                                    *)
LEMMA MoveStep ==
  ASSUME ConnTyped, NEW c \in Conns, Conn(c), NEW k, Moves(c, k),
         \/ pc[c] = "recv" /\ k = "end" /\ peer[c] = "gone"
         \/ pc[c] = "write" /\ mode[c] = "upgrade" /\ k = "count"
         \/ pc[c] = "write" /\ k = "end"
         \/ pc[c] = "exec" /\ k = LinesOf(ibuf[c])
  PROVE  ConnTyped' /\ Conn(c)' /\ Elsewhere(c)
<1>1. /\ pc' = [pc EXCEPT ![c] = k]
      /\ net' = net /\ ibuf' = ibuf /\ peer' = peer /\ hasty' = hasty /\ upload' = upload
      /\ bleft' = bleft /\ mode' = mode /\ authed' = authed /\ pcfp' = pcfp
  BY DEF Moves
<1>2. pc'[c] = k /\ k \in {"end", "count", "recv", "lines"}
  BY <1>1 DEF ConnTyped, LinesOf
<1>3. ~ (pc[c] = "write" /\ peer[c] = "ok")
  BY DEF Conn, Good, Placed
<1>4. Good(Cat(ibuf[c], net[c]), bleft[c], upload[c].image, peer[c], hasty[c], k)
  <2>1. Good(Cat(ibuf[c], net[c]), bleft[c], upload[c].image, peer[c], hasty[c], pc[c])
    BY DEF Conn
  <2>2. CASE pc[c] = "exec" /\ k = LinesOf(ibuf[c])
    <3>1. k \in {"lines", "recv"}
      BY <2>2 DEF LinesOf
    <3> QED
      BY <2>1, <2>2, <3>1, GoodMove
  <2>3. CASE pc[c] = "write" /\ k = "count"
    BY <2>1, <2>3, GoodMove
  <2>4. CASE k = "end" /\ pc[c] # "none" /\ peer[c] # "ok"
    BY <2>1, <2>4, GoodMove
  <2> QED
    BY <1>3, <2>2, <2>3, <2>4
<1>5. Held(ibuf[c], bleft[c], hasty[c], k, mode[c])
  <2>1. Held(ibuf[c], bleft[c], hasty[c], pc[c], mode[c]) /\ ibuf[c] \in Seq(Tokens)
    BY Flat DEF Conn
  <2>2. CASE k = "recv" \/ k = "lines"
    <3>1. (k = "recv" => Len(ibuf[c]) = 0) /\ (k = "lines" => Len(ibuf[c]) > 0)
      BY <2>1, <2>2 DEF LinesOf
    <3> QED
      BY <2>1, <2>2, <3>1 DEF Held
  <2>3. CASE k = "end"
    BY <2>1, <2>3 DEF Held
  <2>4. CASE k = "count"
    BY <2>1, <2>4 DEF Held, LinesOf
  <2> QED
    BY <1>2, <2>2, <2>3, <2>4
<1>6. Conn(c)'
  BY <1>1, <1>2, <1>4, <1>5 DEF Conn
<1>7. ConnTyped'
  <2>1. pc' \in [Conns -> Places]
    BY <1>1, <1>2 DEF ConnTyped, Places
  <2> QED
    BY <1>1, <2>1 DEF ConnTyped
<1> QED
  BY <1>1, <1>6, <1>7 DEF Elsewhere, ConnTyped

-----------------------------------------------------------------------------
(* The steps of the threads.                                               *)

(* What the peer makes of an answer.                                       *)
LEMMA AnswerIs ==
  ASSUME ConnTyped, NEW c \in Conns, NEW was, NEW becomes \in {"idle", "sent", "ok"},
         Answer(c, was, becomes)
  PROVE  /\ peer' \in [Conns -> {"off", "idle", "asking", "ok", "sent", "gone"}]
         /\ upload' \in [Conns -> Offers]
         /\ peer'[c] = IF peer[c] = was THEN becomes ELSE peer[c]
         /\ upload'[c] = IF becomes = "idle" THEN Nothing ELSE upload[c]
         /\ \A d \in Conns \ {c} : peer'[d] = peer[d] /\ upload'[d] = upload[d]
<1>1. Nothing \in Offers
  BY DEF Offers
<1>2. /\ peer' \in [Conns -> {"off", "idle", "asking", "ok", "sent", "gone"}]
      /\ peer'[c] = IF peer[c] = was THEN becomes ELSE peer[c]
      /\ \A d \in Conns \ {c} : peer'[d] = peer[d]
  BY DEF Answer, ConnTyped
<1>3. /\ upload' \in [Conns -> Offers]
      /\ upload'[c] = IF becomes = "idle" THEN Nothing ELSE upload[c]
      /\ \A d \in Conns \ {c} : upload'[d] = upload[d]
  BY <1>1 DEF Answer, ConnTyped
<1> QED
  BY <1>2, <1>3

(* What a line's handler leaves behind.                                    *)
LEMMA PopIs ==
  ASSUME ConnTyped, NEW c \in Conns, Conn(c), AtLine(c), PopLine(c)
  PROVE  /\ pc[c] = "lines" /\ ibuf' \in [Conns -> Seq(Tokens)]
         /\ ibuf'[c] = Tail(ibuf[c])
         /\ \A d \in Conns \ {c} : ibuf'[d] = ibuf[d]
         /\ Cat(ibuf'[c], net[c]) \in Seq(Tokens)
         /\ Len(Cat(ibuf[c], net[c])) > 0 /\ Cat(ibuf[c], net[c])[1] = Head(ibuf[c])
         /\ Popped(Cat(ibuf'[c], net[c]), Cat(ibuf[c], net[c]))
         /\ LinesOf(ibuf'[c]) = "recv" => Len(ibuf'[c]) = 0
         /\ LinesOf(ibuf'[c]) = "lines" => Len(ibuf'[c]) > 0
         /\ LinesOf(ibuf'[c]) \in {"recv", "lines"}
         /\ Len(ibuf'[c]) \in Nat /\ Len(ibuf'[c]) <= IBUF
         /\ Len(ibuf'[c]) <= Len(Cat(ibuf'[c], net[c]))
<1>1. /\ pc[c] = "lines" /\ ibuf' = [ibuf EXCEPT ![c] = Tail(ibuf[c])]
      /\ ibuf[c] \in Seq(Tokens) /\ net[c] \in Seq(Tokens)
  BY Flat DEF AtLine, PopLine
<1>2. Len(ibuf[c]) > 0 /\ Len(ibuf[c]) <= IBUF /\ Len(ibuf[c]) \in Nat
  BY <1>1 DEF Conn, Held
<1>3. /\ Tail(ibuf[c]) \in Seq(Tokens) /\ Len(Tail(ibuf[c])) = Len(ibuf[c]) - 1
      /\ Cat(ibuf[c], net[c])[1] = Head(ibuf[c]) /\ Len(Cat(ibuf[c], net[c])) > 0
      /\ Popped(Cat(Tail(ibuf[c]), net[c]), Cat(ibuf[c], net[c]))
  BY <1>1, <1>2, PopCat
<1>4. /\ ibuf' \in [Conns -> Seq(Tokens)] /\ ibuf'[c] = Tail(ibuf[c])
      /\ \A d \in Conns \ {c} : ibuf'[d] = ibuf[d]
  BY <1>1, <1>3 DEF ConnTyped
<1>5. ibuf'[c] \in Seq(Tokens)
  BY <1>3, <1>4
<1>6. /\ Cat(ibuf'[c], net[c]) \in Seq(Tokens)
      /\ Len(Cat(ibuf'[c], net[c])) = Len(ibuf'[c]) + Len(net[c])
      /\ Len(ibuf'[c]) \in Nat /\ Len(net[c]) \in Nat
  BY <1>1, <1>5, CatFacts
<1>7. Len(ibuf'[c]) <= Len(Cat(ibuf'[c], net[c]))
  BY ONLY <1>6, Sums, Zenon
<1>8. Len(ibuf'[c]) <= IBUF
  <2>1. Len(ibuf'[c]) = Len(ibuf[c]) - 1
    BY <1>3, <1>4
  <2> QED
    BY ONLY <1>2, <2>1, BufferAssumption
<1>9. /\ LinesOf(ibuf'[c]) = "recv" => Len(ibuf'[c]) = 0
      /\ LinesOf(ibuf'[c]) = "lines" => Len(ibuf'[c]) > 0
      /\ LinesOf(ibuf'[c]) \in {"recv", "lines"}
  BY <1>5 DEF LinesOf
<1>10. Popped(Cat(ibuf'[c], net[c]), Cat(ibuf[c], net[c]))
  BY <1>3, <1>4, Zenon
<1> QED
  BY <1>1, <1>3, <1>4, <1>6, <1>7, <1>8, <1>9, <1>10, Zenon

(* A line is handled that asks for nothing: auth, commands, exit.          *)
LEMMA PopStep ==
  ASSUME ConnTyped, NEW c \in Conns, Conn(c), AtLine(c), PopLine(c),
         NextLine(c) \/ Goto(c, "end"),
         net' = net, peer' = peer, hasty' = hasty, upload' = upload, bleft' = bleft, mode' = mode,
         authed' \in [Conns -> BOOLEAN], pcfp' = pcfp
  PROVE  ConnTyped' /\ Conn(c)' /\ Elsewhere(c)
<1>1. PICK k : (k = LinesOf(ibuf'[c]) \/ k = "end") /\ pc' = [pc EXCEPT ![c] = k]
  BY PopIs DEF NextLine, Goto
<1>2. pc'[c] = k /\ k \in {"recv", "lines", "end"}
  BY <1>1, PopIs DEF ConnTyped
<1>3. Good(Cat(ibuf'[c], net[c]), bleft[c], upload[c].image, peer[c], hasty[c], k)
  <2>1. Good(Cat(ibuf[c], net[c]), bleft[c], upload[c].image, peer[c], hasty[c], "lines")
    BY PopIs DEF Conn
  <2>2. /\ Cat(ibuf[c], net[c]) \in Seq(Tokens) /\ Cat(ibuf'[c], net[c]) \in Seq(Tokens)
        /\ Len(Cat(ibuf[c], net[c])) > 0 /\ Popped(Cat(ibuf'[c], net[c]), Cat(ibuf[c], net[c]))
        /\ upload[c].image \in Seq(Bytes)
    BY PopIs, Flat
  <2> QED
    BY ONLY <1>2, <2>1, <2>2, GoodPop
<1>4. bleft[c] = 0
  BY PopIs DEF Conn, Good, Placed
<1>5. Held(ibuf'[c], bleft[c], hasty[c], k, mode[c])
  BY <1>1, <1>2, <1>4, PopIs DEF Held
<1>6. Conn(c)'
  BY <1>2, <1>3, <1>5 DEF Conn
<1>7. ConnTyped'
  <2>1. pc' \in [Conns -> Places]
    BY <1>1, <1>2 DEF ConnTyped, Places
  <2>2. ibuf' \in [Conns -> Seq(Tokens)]
    BY PopIs
  <2> QED
    BY <2>1, <2>2 DEF ConnTyped
<1>8. Elsewhere(c)
  BY <1>1, PopIs DEF Elsewhere, ConnTyped
<1> QED
  BY <1>6, <1>7, <1>8

(* A line asks for an upload, and is refused.                              *)
LEMMA RefuseStep ==
  ASSUME ConnTyped, NEW c \in Conns, Conn(c), AtLine(c), PopLine(c), NextLine(c),
         Head(ibuf[c]) \in Asking, Answer(c, "asking", "idle"),
         net' = net, hasty' = hasty, bleft' = bleft, mode' = mode,
         authed' = authed, pcfp' = pcfp
  PROVE  ConnTyped' /\ Conn(c)' /\ Elsewhere(c)
<1>1. PICK k : k = LinesOf(ibuf'[c]) /\ pc' = [pc EXCEPT ![c] = k]
  BY PopIs DEF NextLine, Goto
<1>2. pc'[c] = k /\ k \in {"recv", "lines"}
  BY <1>1, PopIs DEF ConnTyped
<1>3. /\ peer'[c] = IF peer[c] = "asking" THEN "idle" ELSE peer[c]
      /\ upload'[c].image = <<>>
      /\ peer' \in [Conns -> {"off", "idle", "asking", "ok", "sent", "gone"}]
      /\ upload' \in [Conns -> Offers]
      /\ \A d \in Conns \ {c} : peer'[d] = peer[d] /\ upload'[d] = upload[d]
  BY AnswerIs DEF Nothing
<1>4. Good(Cat(ibuf'[c], net[c]), bleft[c], <<>>, peer'[c], hasty[c], k)
  <2>1. Good(Cat(ibuf[c], net[c]), bleft[c], upload[c].image, peer[c], hasty[c], "lines")
    BY PopIs DEF Conn
  <2>2. /\ Cat(ibuf[c], net[c]) \in Seq(Tokens) /\ Cat(ibuf'[c], net[c]) \in Seq(Tokens)
        /\ Len(Cat(ibuf[c], net[c])) > 0 /\ Popped(Cat(ibuf'[c], net[c]), Cat(ibuf[c], net[c]))
        /\ Cat(ibuf[c], net[c])[1] \in Asking
        /\ upload[c].image \in Seq(Bytes)
    BY PopIs, Flat
  <2> QED
    BY ONLY <1>2, <1>3, <2>1, <2>2, GoodRefuse
<1>5. bleft[c] = 0
  BY PopIs DEF Conn, Good, Placed
<1>6. Held(ibuf'[c], bleft[c], hasty[c], k, mode[c])
  BY <1>1, <1>2, <1>5, PopIs DEF Held
<1>7. Conn(c)'
  BY <1>2, <1>3, <1>4, <1>6 DEF Conn
<1>8. ConnTyped'
  <2>1. pc' \in [Conns -> Places]
    BY <1>1, <1>2 DEF ConnTyped, Places
  <2>2. ibuf' \in [Conns -> Seq(Tokens)]
    BY PopIs
  <2> QED
    BY <1>3, <2>1, <2>2 DEF ConnTyped
<1>9. Elsewhere(c)
  BY <1>1, <1>3, PopIs DEF Elsewhere, ConnTyped
<1> QED
  BY <1>7, <1>8, <1>9

(* putconf or upgrade is accepted.                                         *)
LEMMA EnterStep ==
  ASSUME ConnTyped, NEW c \in Conns, Conn(c), AtLine(c), PopLine(c),
         NEW m \in {"putconf", "upgrade"}, EnterBinary(c, m),
         Head(ibuf[c]) \in Asking, Announced(c) \in 1..MAX_UPLOAD \/ Announced(c) \in 1..MAX_CONFIG,
         net' = net, hasty' = hasty, authed' = authed, pcfp' \in [Conns -> BOOLEAN]
  PROVE  ConnTyped' /\ Conn(c)' /\ Elsewhere(c)
<1>1. /\ bleft' = [bleft EXCEPT ![c] = Len(upload[c].image)]
      /\ mode' = [mode EXCEPT ![c] = m] /\ pc' = [pc EXCEPT ![c] = "recv"]
      /\ Answer(c, "asking", IF hasty[c] THEN "sent" ELSE "ok")
  BY DEF EnterBinary, Goto, Announced
<1>2. bleft'[c] = Len(upload[c].image) /\ mode'[c] = m /\ pc'[c] = "recv"
  BY <1>1 DEF ConnTyped
<1>3. /\ peer'[c] = IF peer[c] = "asking" THEN (IF hasty[c] THEN "sent" ELSE "ok") ELSE peer[c]
      /\ upload'[c] = upload[c]
      /\ peer' \in [Conns -> {"off", "idle", "asking", "ok", "sent", "gone"}]
      /\ upload' \in [Conns -> Offers]
      /\ \A d \in Conns \ {c} : peer'[d] = peer[d] /\ upload'[d] = upload[d]
  <2>1. PICK b \in {"sent", "ok"} : b = IF hasty[c] THEN "sent" ELSE "ok"
    BY DEF ConnTyped
  <2>2. Answer(c, "asking", b)
    BY <1>1, <2>1
  <2>3. b # "idle" /\ b \in {"idle", "sent", "ok"}
    OBVIOUS
  <2> QED
    BY <2>1, <2>2, <2>3, AnswerIs
<1>4. Len(upload[c].image) > 0 /\ Len(upload[c].image) \in 0..MAX_UPLOAD \cup 0..MAX_CONFIG
  BY UploadAssumption, BufferAssumption DEF Announced
<1>5. /\ Good(Cat(ibuf'[c], net[c]), Len(upload[c].image), upload[c].image, peer'[c], hasty[c], "recv")
      /\ ~hasty[c] => Len(Cat(ibuf'[c], net[c])) = 0
  <2>1. Good(Cat(ibuf[c], net[c]), bleft[c], upload[c].image, peer[c], hasty[c], "lines")
    BY PopIs DEF Conn
  <2>2. /\ Cat(ibuf[c], net[c]) \in Seq(Tokens) /\ Cat(ibuf'[c], net[c]) \in Seq(Tokens)
        /\ Len(Cat(ibuf[c], net[c])) > 0 /\ Popped(Cat(ibuf'[c], net[c]), Cat(ibuf[c], net[c]))
        /\ Cat(ibuf[c], net[c])[1] \in Asking
        /\ upload[c].image \in Seq(Bytes)
    BY PopIs, Flat
  <2> QED
    BY ONLY <1>3, <1>4, <2>1, <2>2, GoodEnter
<1>6. Held(ibuf'[c], Len(upload[c].image), hasty[c], "recv", m)
  <2>1. ~hasty[c] => Len(ibuf'[c]) = 0
    BY <1>5, PopIs
  <2> QED
    BY <2>1, PopIs DEF Held
<1>7. Conn(c)'
  BY <1>2, <1>3, <1>5, <1>6 DEF Conn
<1>8. ConnTyped'
  <2>1. pc' \in [Conns -> Places] /\ mode' \in [Conns -> {"line", "putconf", "upgrade"}]
    BY <1>1 DEF ConnTyped, Places
  <2>2. ibuf' \in [Conns -> Seq(Tokens)]
    BY PopIs
  <2>3. bleft' \in [Conns -> 0..MAX_UPLOAD \cup 0..MAX_CONFIG]
    BY <1>1, <1>4 DEF ConnTyped
  <2> QED
    BY <1>3, <2>1, <2>2, <2>3 DEF ConnTyped
<1>9. Elsewhere(c)
  BY <1>1, <1>3, PopIs DEF Elsewhere, ConnTyped
<1> QED
  BY <1>7, <1>8, <1>9

(* conn_pump takes the written chunk off the buffer.                       *)
LEMMA ConsumeStep ==
  ASSUME ConnTyped, NEW c \in Conns, Conn(c), pc[c] \in {"write", "count"}, Consume(c),
         net' = net, peer' = peer, hasty' = hasty, upload' = upload, mode' = mode,
         authed' = authed, pcfp' = pcfp
  PROVE  ConnTyped' /\ Conn(c)' /\ Elsewhere(c)
<1>1. PICK m : /\ m = IF Take(c) = bleft[c] THEN "finish" ELSE "recv"
               /\ pc' = [pc EXCEPT ![c] = m]
               /\ ibuf' = [ibuf EXCEPT ![c] = From(ibuf[c], Take(c) + 1)]
               /\ bleft' = [bleft EXCEPT ![c] = bleft[c] - Take(c)]
  BY DEF Consume, Goto, Complete
<1>2. /\ ibuf[c] \in Seq(Tokens) /\ net[c] \in Seq(Tokens)
      /\ bleft[c] \in Nat /\ Len(ibuf[c]) \in Nat /\ Len(net[c]) \in Nat
      /\ Len(Cat(ibuf[c], net[c])) = Len(ibuf[c]) + Len(net[c])
  BY Flat
<1>3. /\ Take(c) \in Nat /\ Take(c) <= Len(ibuf[c]) /\ Take(c) <= bleft[c]
      /\ Take(c) = bleft[c] \/ Take(c) = Len(ibuf[c])
  BY ONLY <1>2 DEF Take
<1>4. /\ pc'[c] = m /\ m \in {"finish", "recv"}
      /\ ibuf'[c] = From(ibuf[c], Take(c) + 1) /\ bleft'[c] = bleft[c] - Take(c)
  BY <1>1 DEF ConnTyped
<1>5. /\ ibuf'[c] \in Seq(Tokens) /\ Len(ibuf'[c]) = Len(ibuf[c]) - Take(c)
      /\ Dropped(Cat(ibuf'[c], net[c]), Cat(ibuf[c], net[c]), Take(c))
  <2>1. /\ From(ibuf[c], Take(c) + 1) \in Seq(Tokens)
        /\ Len(From(ibuf[c], Take(c) + 1)) = Len(ibuf[c]) - Take(c)
        /\ Dropped(Cat(From(ibuf[c], Take(c) + 1), net[c]), Cat(ibuf[c], net[c]), Take(c))
    BY <1>2, <1>3, DropCat
  <2> QED
    BY <1>4, <2>1, Zenon
<1>6. Take(c) <= Len(Cat(ibuf[c], net[c]))
  <2>1. Len(ibuf[c]) <= Len(Cat(ibuf[c], net[c])) /\ Len(Cat(ibuf[c], net[c])) \in Nat
    <3>1. Len(ibuf[c]) <= Len(Cat(ibuf[c], net[c]))
      BY ONLY <1>2, Sums, Zenon
    <3>2. Cat(ibuf[c], net[c]) \in Seq(Tokens)
      BY Flat
    <3> QED
      BY <3>1, <3>2
  <2> QED
    BY ONLY <1>2, <1>3, <2>1, \A a, b, d \in Nat : a <= b /\ b <= d => a <= d, Zenon
<1>7. Good(Cat(ibuf'[c], net[c]), bleft[c] - Take(c), upload[c].image, peer[c], hasty[c], m)
  <2>1. Good(Cat(ibuf[c], net[c]), bleft[c], upload[c].image, peer[c], hasty[c], pc[c])
    BY DEF Conn
  <2>2. Cat(ibuf'[c], net[c]) \in Seq(Tokens)
    BY <1>2, <1>5, CatFacts
  <2>3. upload[c].image \in Seq(Bytes) /\ Cat(ibuf[c], net[c]) \in Seq(Tokens)
    BY Flat
  <2>4. PICK l \in {"write", "count"} : l = pc[c]
    OBVIOUS
  <2>5. PICK k \in Nat : k = Take(c)
    BY <1>3
  <2>6. /\ Good(Cat(ibuf[c], net[c]), bleft[c], upload[c].image, peer[c], hasty[c], l)
        /\ k <= bleft[c] /\ k <= Len(Cat(ibuf[c], net[c]))
        /\ Dropped(Cat(ibuf'[c], net[c]), Cat(ibuf[c], net[c]), k)
        /\ m = IF k = bleft[c] THEN "finish" ELSE "recv"
    BY <1>1, <1>3, <1>5, <1>6, <2>1, <2>4, <2>5
  <2>7. Good(Cat(ibuf'[c], net[c]), bleft[c] - k, upload[c].image, peer[c], hasty[c], m)
    BY ONLY <2>2, <2>3, <2>6, k \in Nat, l \in {"write", "count"}, GoodConsume
  <2> QED
    BY <2>5, <2>7
<1>8. Held(ibuf'[c], bleft[c] - Take(c), hasty[c], m, mode[c])
  <2>1. Held(ibuf[c], bleft[c], hasty[c], pc[c], mode[c])
    BY DEF Conn
  <2>2. mode[c] # "line"
    <3>1. bleft[c] > 0
      BY DEF Conn, Good, Placed
    <3> QED
      BY <2>1, <3>1 DEF Held
  <2>3. m = "recv" => Len(ibuf'[c]) = 0
    BY <1>1, <1>2, <1>3, <1>5
  <2>4. Len(ibuf'[c]) <= IBUF
    BY <1>2, <1>3, <1>5, <2>1, BufferAssumption DEF Held
  <2> QED
    BY <1>4, <2>2, <2>3, <2>4 DEF Held
<1>9. Conn(c)'
  BY <1>4, <1>7, <1>8 DEF Conn
<1>10. ConnTyped'
  <2>1. pc' \in [Conns -> Places]
    BY <1>1, <1>4 DEF ConnTyped, Places
  <2>2. ibuf' \in [Conns -> Seq(Tokens)]
    BY <1>1, <1>4, <1>5 DEF ConnTyped
  <2>3. bleft' \in [Conns -> 0..MAX_UPLOAD \cup 0..MAX_CONFIG]
    <3>1. bleft[c] - Take(c) \in 0..MAX_UPLOAD \cup 0..MAX_CONFIG
      <4>1. bleft[c] \in 0..MAX_UPLOAD \cup 0..MAX_CONFIG
        BY DEF ConnTyped
      <4> QED
        BY ONLY <1>2, <1>3, <4>1, UploadAssumption, BufferAssumption
    <3> QED
      BY <1>1, <3>1 DEF ConnTyped
  <2> QED
    BY <2>1, <2>2, <2>3 DEF ConnTyped
<1>11. Elsewhere(c)
  BY <1>1 DEF Elsewhere, ConnTyped
<1> QED
  BY <1>9, <1>10, <1>11

(* bin_finish, whatever becomes of the upload.                             *)
LEMMA FinishStep ==
  ASSUME ConnTyped, NEW c \in Conns, Conn(c), pc[c] = "finish", Answer(c, "sent", "idle"),
         NEW k, k \in {LinesOf(ibuf[c]), "end"} \/ (k = "exec" /\ mode[c] = "upgrade"), Goto(c, k),
         net' = net, hasty' = hasty, ibuf' = ibuf, bleft' = bleft, mode' = mode,
         authed' = authed, pcfp' \in [Conns -> BOOLEAN]
  PROVE  ConnTyped' /\ Conn(c)' /\ Elsewhere(c)
<1>1. pc' = [pc EXCEPT ![c] = k] /\ k \in {"recv", "lines", "end", "exec"}
  BY DEF Goto, LinesOf
<1>2. pc'[c] = k
  BY <1>1 DEF ConnTyped
<1>3. /\ peer'[c] = IF peer[c] = "sent" THEN "idle" ELSE peer[c]
      /\ upload'[c].image = <<>>
      /\ peer' \in [Conns -> {"off", "idle", "asking", "ok", "sent", "gone"}]
      /\ upload' \in [Conns -> Offers]
      /\ \A d \in Conns \ {c} : peer'[d] = peer[d] /\ upload'[d] = upload[d]
  BY AnswerIs DEF Nothing
<1>4. Good(Cat(ibuf[c], net[c]), bleft[c], <<>>, peer'[c], hasty[c], k)
  <2>1. Good(Cat(ibuf[c], net[c]), bleft[c], upload[c].image, peer[c], hasty[c], "finish")
    BY DEF Conn
  <2>2. Cat(ibuf[c], net[c]) \in Seq(Tokens) /\ upload[c].image \in Seq(Bytes)
    BY Flat
  <2> QED
    BY ONLY <1>1, <1>3, <2>1, <2>2, GoodFinish
<1>5. Held(ibuf[c], bleft[c], hasty[c], k, mode[c])
  <2>1. /\ Held(ibuf[c], bleft[c], hasty[c], "finish", mode[c]) /\ ibuf[c] \in Seq(Tokens)
    BY Flat DEF Conn
  <2>2. (k = "recv" => Len(ibuf[c]) = 0) /\ (k = "lines" => Len(ibuf[c]) > 0)
    BY <2>1 DEF LinesOf
  <2>3. k = "exec" => mode[c] = "upgrade"
    BY DEF LinesOf
  <2> QED
    BY <1>1, <2>1, <2>2, <2>3 DEF Held
<1>6. Conn(c)'
  BY <1>2, <1>3, <1>4, <1>5 DEF Conn
<1>7. ConnTyped'
  <2>1. pc' \in [Conns -> Places]
    BY <1>1 DEF ConnTyped, Places
  <2> QED
    BY <1>3, <2>1 DEF ConnTyped
<1>8. Elsewhere(c)
  BY <1>1, <1>3 DEF Elsewhere, ConnTyped
<1> QED
  BY <1>6, <1>7, <1>8

(* A connection that is not there.                                         *)
LEMMA NoStream ==
  ASSUME NEW u, u = <<>>, NEW v, v = <<>>, NEW im, im = <<>>
  PROVE  Good(Cat(u, v), 0, im, "off", FALSE, "none") /\ Held(u, 0, FALSE, "none", "line")
<1>1. u \in Seq(Tokens) /\ Len(u) = 0 /\ Len(im) = 0 /\ 0 \in Nat
  OBVIOUS
<1>2. Len(Cat(u, v)) = 0
  BY <1>1, CatNone
<1>3. Good(Cat(u, v), 0, im, "off", FALSE, "none")
  BY <1>1, <1>2, GoodFresh
<1>4. 0 <= IBUF /\ ~ (0 > 0)
  BY BufferAssumption
<1>5. Held(u, 0, FALSE, "none", "line")
  BY ONLY <1>1, <1>4 DEF Held
<1> QED
  BY <1>3, <1>5

(* The end of a thread.                                                    *)
LEMMA EndStep ==
  ASSUME ConnTyped, NEW c \in Conns, Conn(c), End(c)
  PROVE  ConnTyped' /\ Conn(c)' /\ Elsewhere(c)
<1>1. /\ net' = [net EXCEPT ![c] = <<>>] /\ peer' = [peer EXCEPT ![c] = "off"]
      /\ hasty' = [hasty EXCEPT ![c] = FALSE] /\ upload' = [upload EXCEPT ![c] = Nothing]
      /\ pc' = [pc EXCEPT ![c] = "none"] /\ ibuf' = [ibuf EXCEPT ![c] = <<>>]
      /\ bleft' = [bleft EXCEPT ![c] = 0] /\ mode' = [mode EXCEPT ![c] = "line"]
      /\ authed' = [authed EXCEPT ![c] = FALSE] /\ pcfp' = [pcfp EXCEPT ![c] = FALSE]
  BY DEF End, Goto
<1>2. /\ net'[c] = <<>> /\ peer'[c] = "off" /\ hasty'[c] = FALSE /\ upload'[c].image = <<>>
      /\ pc'[c] = "none" /\ ibuf'[c] = <<>> /\ bleft'[c] = 0 /\ mode'[c] = "line"
  BY <1>1 DEF ConnTyped, Nothing
<1>3. /\ Good(Cat(ibuf'[c], net'[c]), 0, upload'[c].image, "off", FALSE, "none")
      /\ Held(ibuf'[c], 0, FALSE, "none", "line")
  BY <1>2, NoStream
<1>4. Conn(c)'
  BY <1>2, <1>3, Zenon DEF Conn
<1>5. ConnTyped'
  <2>1. <<>> \in Seq(Tokens) /\ Nothing \in Offers /\ 0 \in 0..MAX_UPLOAD
    BY UploadAssumption DEF Offers
  <2>2. /\ net' \in [Conns -> Seq(Tokens)] /\ ibuf' \in [Conns -> Seq(Tokens)]
        /\ upload' \in [Conns -> Offers]
    BY <1>1, <2>1 DEF ConnTyped
  <2>3. bleft' \in [Conns -> 0..MAX_UPLOAD \cup 0..MAX_CONFIG]
    BY <1>1, <2>1 DEF ConnTyped
  <2>4. /\ peer' \in [Conns -> {"off", "idle", "asking", "ok", "sent", "gone"}]
        /\ pc' \in [Conns -> Places] /\ mode' \in [Conns -> {"line", "putconf", "upgrade"}]
        /\ hasty' \in [Conns -> BOOLEAN] /\ authed' \in [Conns -> BOOLEAN]
        /\ pcfp' \in [Conns -> BOOLEAN]
    BY <1>1 DEF ConnTyped, Places
  <2> QED
    BY <2>2, <2>3, <2>4 DEF ConnTyped
<1>6. Elsewhere(c)
  BY <1>1 DEF Elsewhere, ConnTyped
<1> QED
  BY <1>4, <1>5, <1>6

Streams == ConnTyped /\ \A c \in Conns : Conn(c)

(* A new process has no connections.                                       *)
LEMMA FreshStep ==
  ASSUME Fresh PROVE Streams'
<1>1. /\ net' = [c \in Conns |-> <<>>] /\ peer' = [c \in Conns |-> "off"]
      /\ hasty' = [c \in Conns |-> FALSE] /\ upload' = [c \in Conns |-> Nothing]
      /\ pc' = [c \in Conns |-> "none"] /\ ibuf' = [c \in Conns |-> <<>>]
      /\ bleft' = [c \in Conns |-> 0] /\ mode' = [c \in Conns |-> "line"]
      /\ authed' = [c \in Conns |-> FALSE] /\ pcfp' = [c \in Conns |-> FALSE]
  BY DEF Fresh
<1>2. ConnTyped'
  <2>1. <<>> \in Seq(Tokens) /\ Nothing \in Offers /\ 0 \in 0..MAX_UPLOAD
    BY UploadAssumption DEF Offers
  <2>2. /\ net' \in [Conns -> Seq(Tokens)] /\ ibuf' \in [Conns -> Seq(Tokens)]
        /\ upload' \in [Conns -> Offers]
    BY <1>1, <2>1
  <2>3. bleft' \in [Conns -> 0..MAX_UPLOAD \cup 0..MAX_CONFIG]
    BY <1>1, <2>1
  <2>4. /\ peer' \in [Conns -> {"off", "idle", "asking", "ok", "sent", "gone"}]
        /\ pc' \in [Conns -> Places] /\ mode' \in [Conns -> {"line", "putconf", "upgrade"}]
        /\ hasty' \in [Conns -> BOOLEAN] /\ authed' \in [Conns -> BOOLEAN]
        /\ pcfp' \in [Conns -> BOOLEAN]
    BY <1>1 DEF Places
  <2> QED
    BY <2>2, <2>3, <2>4 DEF ConnTyped
<1>3. ASSUME NEW c \in Conns PROVE Conn(c)'
  <2>1. /\ net'[c] = <<>> /\ peer'[c] = "off" /\ hasty'[c] = FALSE /\ upload'[c].image = <<>>
        /\ pc'[c] = "none" /\ ibuf'[c] = <<>> /\ bleft'[c] = 0 /\ mode'[c] = "line"
    BY <1>1 DEF Nothing
  <2>2. /\ Good(Cat(ibuf'[c], net'[c]), 0, upload'[c].image, "off", FALSE, "none")
        /\ Held(ibuf'[c], 0, FALSE, "none", "line")
    BY <2>1, NoStream
  <2> QED
    BY <2>1, <2>2, Zenon DEF Conn
<1> QED
  BY <1>2, <1>3 DEF Streams

(* A step of one connection leaves the others' streams alone.              *)
LEMMA OthersStay ==
  ASSUME Streams, NEW c \in Conns, ConnTyped', Conn(c)', Elsewhere(c) PROVE Streams'
<1>1. ASSUME NEW d \in Conns \ {c} PROVE Conn(d)'
  <2>1. Conn(d)
    BY DEF Streams
  <2>2. /\ ibuf'[d] = ibuf[d] /\ net'[d] = net[d] /\ bleft'[d] = bleft[d] /\ upload'[d] = upload[d]
        /\ peer'[d] = peer[d] /\ hasty'[d] = hasty[d] /\ pc'[d] = pc[d] /\ mode'[d] = mode[d]
    BY DEF Elsewhere
  <2> QED
    BY <2>1, <2>2, Zenon DEF Conn
<1> QED
  BY <1>1, Zenon DEF Streams

(* Nor has the first one.                                                  *)
LEMMA StreamsInit == Init => Streams
<1> SUFFICES ASSUME Init PROVE Streams
  OBVIOUS
<1>1. /\ net = [c \in Conns |-> <<>>] /\ peer = [c \in Conns |-> "off"]
      /\ hasty = [c \in Conns |-> FALSE] /\ upload = [c \in Conns |-> Nothing]
      /\ pc = [c \in Conns |-> "none"] /\ ibuf = [c \in Conns |-> <<>>]
      /\ bleft = [c \in Conns |-> 0] /\ mode = [c \in Conns |-> "line"]
      /\ authed = [c \in Conns |-> FALSE] /\ pcfp = [c \in Conns |-> FALSE]
  BY DEF Init
<1>2. ConnTyped
  <2>1. <<>> \in Seq(Tokens) /\ Nothing \in Offers /\ 0 \in 0..MAX_UPLOAD
    BY UploadAssumption DEF Offers
  <2>2. /\ net \in [Conns -> Seq(Tokens)] /\ ibuf \in [Conns -> Seq(Tokens)]
        /\ upload \in [Conns -> Offers]
    BY <1>1, <2>1
  <2>3. bleft \in [Conns -> 0..MAX_UPLOAD \cup 0..MAX_CONFIG]
    BY <1>1, <2>1
  <2>4. /\ peer \in [Conns -> {"off", "idle", "asking", "ok", "sent", "gone"}]
        /\ pc \in [Conns -> Places] /\ mode \in [Conns -> {"line", "putconf", "upgrade"}]
        /\ hasty \in [Conns -> BOOLEAN] /\ authed \in [Conns -> BOOLEAN]
        /\ pcfp \in [Conns -> BOOLEAN]
    BY <1>1 DEF Places
  <2> QED
    BY <2>2, <2>3, <2>4 DEF ConnTyped
<1>3. ASSUME NEW c \in Conns PROVE Conn(c)
  <2>1. /\ net[c] = <<>> /\ peer[c] = "off" /\ hasty[c] = FALSE /\ upload[c].image = <<>>
        /\ pc[c] = "none" /\ ibuf[c] = <<>> /\ bleft[c] = 0 /\ mode[c] = "line"
    BY <1>1 DEF Nothing
  <2>2. /\ Good(Cat(ibuf[c], net[c]), 0, upload[c].image, "off", FALSE, "none")
        /\ Held(ibuf[c], 0, FALSE, "none", "line")
    BY <2>1, NoStream
  <2> QED
    BY <2>1, <2>2, Zenon DEF Conn
<1> QED
  BY <1>2, <1>3 DEF Streams

(* Every step keeps the stream of its connection and touches no other, or  *)
(* replaces the process.                                                   *)
LEMMA LocalStep ==
  ASSUME Streams, NEW c \in Conns, Peer(c) \/ Accept(c) \/ Serve(c)
  PROVE  \/ ConnTyped' /\ Conn(c)' /\ Elsewhere(c)
         \/ Fresh /\ (WriteCrashes(c) \/ ExecUpgrade(c))
<1>1. ConnTyped /\ Conn(c)
  BY DEF Streams
<1>2. CASE Peer(c)
  BY <1>1, <1>2, PeerLineStep, PeerUploadStep, PeerPayloadStep, PeerGoneStep DEF Peer
<1>3. CASE Accept(c)
  BY <1>1, <1>3, AcceptStep
<1>4. CASE Recv(c)
  BY <1>1, <1>4, RecvStep
<1>5. CASE RecvEnd(c)
  <2>1. Moves(c, "end") /\ pc[c] = "recv" /\ peer[c] = "gone"
    BY <1>5 DEF RecvEnd, Goto, Moves, peervars
  <2> QED
    BY <1>1, <2>1, MoveStep
<1>6. CASE HandleAuth(c)
  <2>1. /\ AtLine(c) /\ PopLine(c) /\ NextLine(c) /\ net' = net /\ peer' = peer /\ hasty' = hasty
        /\ upload' = upload /\ bleft' = bleft /\ mode' = mode /\ pcfp' = pcfp
    BY <1>6 DEF HandleAuth, peervars
  <2>2. authed' \in [Conns -> BOOLEAN]
    BY <1>1, <1>6 DEF HandleAuth, ConnTyped
  <2> QED
    BY <1>1, <2>1, <2>2, PopStep
<1>7. CASE HandleUnauthed(c)
  <2>1. /\ AtLine(c) /\ PopLine(c) /\ NextLine(c) /\ net' = net /\ hasty' = hasty
        /\ bleft' = bleft /\ mode' = mode /\ authed' = authed /\ pcfp' = pcfp
    BY <1>7 DEF HandleUnauthed
  <2>2. authed' \in [Conns -> BOOLEAN]
    BY <1>1, <2>1 DEF ConnTyped
  <2>3. CASE Head(ibuf[c]) \in Asking
    <3>1. Answer(c, "asking", "idle")
      BY <1>7, <2>3 DEF HandleUnauthed
    <3> QED
      BY <1>1, <2>1, <2>3, <3>1, RefuseStep
  <2>4. CASE Head(ibuf[c]) \notin Asking
    <3>1. peer' = peer /\ upload' = upload
      BY <1>7, <2>4 DEF HandleUnauthed
    <3> QED
      BY <1>1, <2>1, <2>2, <3>1, PopStep
  <2> QED
    BY <2>3, <2>4
<1>8. CASE HandleCommand(c)
  <2>1. /\ AtLine(c) /\ PopLine(c) /\ net' = net /\ peer' = peer /\ hasty' = hasty
        /\ upload' = upload /\ bleft' = bleft /\ mode' = mode /\ pcfp' = pcfp /\ authed' = authed
        /\ NextLine(c) \/ Goto(c, "end")
    BY <1>8 DEF HandleCommand, peervars
  <2>2. authed' \in [Conns -> BOOLEAN]
    BY <1>1, <2>1 DEF ConnTyped
  <2> QED
    BY <1>1, <2>1, <2>2, PopStep
<1>9. CASE HandlePutconf(c)
  <2>1. /\ AtLine(c) /\ PopLine(c) /\ net' = net /\ hasty' = hasty /\ authed' = authed
        /\ Head(ibuf[c]) \in Asking
    BY <1>9 DEF HandlePutconf, Is, Asking
  <2>2. CASE /\ Announced(c) \in 1..MAX_CONFIG /\ EnterBinary(c, "putconf")
             /\ pcfp' = [pcfp EXCEPT ![c] = TRUE]
    <3>1. pcfp' \in [Conns -> BOOLEAN]
      BY <1>1, <2>2 DEF ConnTyped
    <3> QED
      BY <1>1, <2>1, <2>2, <3>1, EnterStep
  <2>3. CASE Refuse(c) /\ pcfp' = pcfp
    BY <1>1, <2>1, <2>3, RefuseStep DEF Refuse
  <2> QED
    BY <1>9, <2>2, <2>3 DEF HandlePutconf
<1>10. CASE HandleUpgrade(c)
  <2>1. /\ AtLine(c) /\ PopLine(c) /\ net' = net /\ hasty' = hasty /\ authed' = authed
        /\ Head(ibuf[c]) \in Asking /\ pcfp' = pcfp
    BY <1>10 DEF HandleUpgrade, Is, Asking
  <2>2. CASE EnterBinary(c, "upgrade") /\ Begin(c, Announced(c), upload[c].sha)
    <3>1. Announced(c) \in 1..MAX_UPLOAD
      <4>1. Announced(c) # 0 /\ ~ (Announced(c) > MAX_UPLOAD)
        BY <2>2 DEF Begin, MayBegin, BadSize
      <4>2. Announced(c) \in Nat
        BY <1>1, Flat DEF Announced
      <4> QED
        BY ONLY <4>1, <4>2, UploadAssumption
    <3>2. pcfp' \in [Conns -> BOOLEAN]
      BY <1>1, <2>1 DEF ConnTyped
    <3> QED
      BY <1>1, <2>1, <2>2, <3>1, <3>2, EnterStep
  <2>3. CASE Refuse(c)
    BY <1>1, <2>1, <2>3, RefuseStep DEF Refuse
  <2> QED
    BY <1>10, <2>2, <2>3 DEF HandleUpgrade
<1>11. CASE WritePutconf(c)
  <2>1. /\ pc[c] = "write" /\ net' = net /\ peer' = peer /\ hasty' = hasty /\ upload' = upload
        /\ mode' = mode /\ authed' = authed /\ pcfp' = pcfp
    BY <1>11 DEF WritePutconf, peervars
  <2>2. CASE Consume(c)
    BY <1>1, <2>1, <2>2, ConsumeStep
  <2>3. CASE Goto(c, "end") /\ UNCHANGED <<ibuf, bleft>>
    <3>1. Moves(c, "end")
      BY <2>1, <2>3 DEF Moves, Goto
    <3> QED
      BY <1>1, <2>1, <3>1, MoveStep
  <2> QED
    BY <1>11, <2>2, <2>3 DEF WritePutconf
<1>12. CASE WriteRefused(c)
  <2>1. pc[c] = "write" /\ Moves(c, "end")
    BY <1>12 DEF WriteRefused, Goto, Moves, peervars
  <2> QED
    BY <1>1, <2>1, MoveStep
<1>13. CASE WriteChunk(c)
  <2>1. pc[c] = "write" /\ mode[c] = "upgrade" /\ (Moves(c, "end") \/ Moves(c, "count"))
    BY <1>13 DEF WriteChunk, Goto, Moves, peervars
  <2> QED
    BY <1>1, <2>1, MoveStep
<1>14. CASE WriteCount(c)
  <2>1. /\ pc[c] = "count" /\ Consume(c) /\ net' = net /\ peer' = peer /\ hasty' = hasty
        /\ upload' = upload /\ mode' = mode /\ authed' = authed /\ pcfp' = pcfp
    BY <1>14 DEF WriteCount, peervars
  <2> QED
    BY <1>1, <2>1, ConsumeStep
<1>15. CASE WriteCrashes(c) \/ ExecUpgrade(c)
  BY <1>15 DEF WriteCrashes, ExecUpgrade
<1>16. CASE FinishPutconf(c)
  <2>1. PICK k \in {LinesOf(ibuf[c]), "end"} : Goto(c, k)
    BY <1>16 DEF FinishPutconf
  <2>2. /\ pc[c] = "finish" /\ Answer(c, "sent", "idle") /\ net' = net /\ hasty' = hasty
        /\ ibuf' = ibuf /\ bleft' = bleft /\ mode' = mode /\ authed' = authed
    BY <1>16 DEF FinishPutconf
  <2>3. pcfp' \in [Conns -> BOOLEAN]
    BY <1>1, <1>16 DEF FinishPutconf, ConnTyped
  <2> QED
    BY <1>1, <2>1, <2>2, <2>3, FinishStep
<1>17. CASE FinishUpgrade(c)
  <2>1. PICK k \in {"exec", "end"} : Goto(c, k)
    BY <1>17 DEF FinishUpgrade
  <2>2. /\ pc[c] = "finish" /\ mode[c] = "upgrade" /\ Answer(c, "sent", "idle") /\ net' = net
        /\ hasty' = hasty /\ ibuf' = ibuf /\ bleft' = bleft /\ mode' = mode /\ authed' = authed
    BY <1>17 DEF FinishUpgrade
  <2>3. pcfp' \in [Conns -> BOOLEAN]
    BY <1>1, <1>17 DEF FinishUpgrade, ConnTyped
  <2> QED
    BY <1>1, <2>1, <2>2, <2>3, FinishStep
<1>18. CASE ExecReturns(c)
  <2>1. pc[c] = "exec" /\ Moves(c, LinesOf(ibuf[c]))
    BY <1>18 DEF ExecReturns, Goto, Moves, peervars
  <2> QED
    BY <1>1, <2>1, MoveStep
<1>19. CASE End(c)
  BY <1>1, <1>19, EndStep
<1> QED
  BY <1>2, <1>3, <1>4, <1>5, <1>6, <1>7, <1>8, <1>9, <1>10, <1>11, <1>12, <1>13, <1>14,
     <1>15, <1>16, <1>17, <1>18, <1>19 DEF Serve, Handle

(* So the streams stay good.                                               *)
LEMMA StreamsStay ==
  ASSUME Streams, NEW c \in Conns, Peer(c) \/ Accept(c) \/ Serve(c) PROVE Streams'
BY LocalStep, OthersStay, FreshStep

-----------------------------------------------------------------------------
(* The session.                                                            *)

(* The session: its fields are of their types, whatever the digest's       *)
(* context holds.                                                          *)
IsSession(g) ==
  /\ g = [in_progress |-> g.in_progress, fp |-> g.fp, path |-> g.path, sha |-> g.sha,
          expected |-> g.expected, received |-> g.received, first4 |-> g.first4, hc |-> g.hc]
  /\ g.in_progress \in BOOLEAN /\ g.fp \in {"null", "open", "dangling"} /\ g.path \in Paths
  /\ g.expected \in Nat /\ g.received \in Nat
  /\ g.first4 \in Seq(Nat) /\ Len(g.first4) <= Len(Magic)

UpTyped ==
  /\ IsSession(g_up)
  /\ new \in Seq(Nat)
  /\ run \in [path : Paths, replaced : BOOLEAN]
  /\ owner \in Conns \cup {NoConn} /\ stolen \in BOOLEAN

Made(g, ip, fp, path, sha, expected, received, first4, hc) ==
  g = [in_progress |-> ip, fp |-> fp, path |-> path, sha |-> sha,
       expected |-> expected, received |-> received, first4 |-> first4, hc |-> hc]

(* A session put together from its fields.                                 *)
LEMMA NewSession ==
  ASSUME NEW ip \in BOOLEAN, NEW fp \in {"null", "open", "dangling"}, NEW path \in Paths, NEW sha,
         NEW expected \in Nat, NEW received \in Nat, NEW first4 \in Seq(Nat),
         Len(first4) <= Len(Magic), NEW hc,
         NEW g, Made(g, ip, fp, path, sha, expected, received, first4, hc)
  PROVE  /\ IsSession(g) /\ g.in_progress = ip /\ g.fp = fp /\ g.path = path /\ g.sha = sha
         /\ g.expected = expected /\ g.received = received /\ g.first4 = first4 /\ g.hc = hc
<1>1. /\ g.in_progress = ip /\ g.fp = fp /\ g.path = path /\ g.sha = sha
      /\ g.expected = expected /\ g.received = received /\ g.first4 = first4 /\ g.hc = hc
  BY ONLY Made(g, ip, fp, path, sha, expected, received, first4, hc) DEF Made
<1>2. g = [in_progress |-> g.in_progress, fp |-> g.fp, path |-> g.path, sha |-> g.sha,
           expected |-> g.expected, received |-> g.received, first4 |-> g.first4, hc |-> g.hc]
  BY <1>1 DEF Made
<1> QED
  BY <1>1, <1>2, Zenon DEF IsSession

(* No session, with a path and a handle left over.                         *)
LEMMA NoSessionIs ==
  ASSUME NEW p \in Paths, NEW f \in {"null", "dangling"}, NEW g,
         \/ g = [NoSession EXCEPT !.path = p, !.fp = f]
         \/ f = "null" /\ g = [NoSession EXCEPT !.path = p]
         \/ f = "null" /\ p = 0 /\ g = NoSession
  PROVE  IsSession(g) /\ ~g.in_progress /\ g.fp = f
<1>4. PICK b, e, z : b = FALSE /\ e = <<>> /\ z = 0
  OBVIOUS
<1>1. Made(g, b, f, p, NoSha, z, z, e, sha256_init)
  BY <1>4 DEF NoSession, Made
<1>2. e \in Seq(Nat) /\ Len(e) <= Len(Magic) /\ z \in Nat
  BY <1>4, UploadAssumption
<1>3. b \in BOOLEAN /\ f \in {"null", "open", "dangling"}
  BY <1>4
<1>5. IsSession(g) /\ g.in_progress = b /\ g.fp = f
  BY ONLY <1>1, <1>2, <1>3, p \in Paths, NewSession
<1> QED
  BY <1>4, <1>5

(* Only path and handle change.                                            *)
LEMMA WithPath ==
  ASSUME NEW g, IsSession(g), NEW p \in Paths,
         NEW r, r = [g EXCEPT !.fp = "null", !.path = p]
  PROVE  IsSession(r) /\ r.in_progress = g.in_progress
<1>1. PICK ip, fp, path, sha, expected, received, first4, hc :
        /\ ip = g.in_progress /\ fp = g.fp /\ path = g.path /\ sha = g.sha
        /\ expected = g.expected /\ received = g.received /\ first4 = g.first4 /\ hc = g.hc
  OBVIOUS
<1>2. /\ g = [in_progress |-> ip, fp |-> fp, path |-> path, sha |-> sha,
              expected |-> expected, received |-> received, first4 |-> first4, hc |-> hc]
      /\ ip \in BOOLEAN /\ expected \in Nat /\ received \in Nat
      /\ first4 \in Seq(Nat) /\ Len(first4) <= Len(Magic)
  BY <1>1, Zenon DEF IsSession
<1>3. Made(r, ip, "null", p, sha, expected, received, first4, hc)
  BY ONLY <1>2, r = [g EXCEPT !.fp = "null", !.path = p] DEF Made
<1> QED
  BY <1>1, <1>2, <1>3, NewSession

(* Only the first bytes change.                                            *)
LEMMA WithFirst ==
  ASSUME NEW g, IsSession(g), NEW x \in Seq(Nat), Len(x) <= Len(Magic),
         NEW r, r = [g EXCEPT !.first4 = x]
  PROVE  /\ IsSession(r) /\ r.in_progress = g.in_progress /\ r.fp = g.fp /\ r.sha = g.sha
         /\ r.expected = g.expected /\ r.received = g.received /\ r.first4 = x /\ r.hc = g.hc
<1>1. PICK ip, fp, path, sha, expected, received, first4, hc :
        /\ ip = g.in_progress /\ fp = g.fp /\ path = g.path /\ sha = g.sha
        /\ expected = g.expected /\ received = g.received /\ first4 = g.first4 /\ hc = g.hc
  OBVIOUS
<1>2. /\ g = [in_progress |-> ip, fp |-> fp, path |-> path, sha |-> sha,
              expected |-> expected, received |-> received, first4 |-> first4, hc |-> hc]
      /\ ip \in BOOLEAN /\ fp \in {"null", "open", "dangling"} /\ path \in Paths
      /\ expected \in Nat /\ received \in Nat
  BY <1>1, Zenon DEF IsSession
<1>3. Made(r, ip, fp, path, sha, expected, received, x, hc)
  BY ONLY <1>2, r = [g EXCEPT !.first4 = x] DEF Made
<1> QED
  BY <1>1, <1>2, <1>3, NewSession

Counted(r, g, x, n) == r = [g EXCEPT !.hc = x, !.received = @ + n]

(* Only digest and count change.                                           *)
LEMMA WithCount ==
  ASSUME NEW g, IsSession(g), NEW x, NEW n \in Nat, NEW r, Counted(r, g, x, n)
  PROVE  /\ IsSession(r) /\ r.in_progress = g.in_progress /\ r.fp = g.fp /\ r.sha = g.sha
         /\ r.expected = g.expected /\ r.received = g.received + n /\ r.first4 = g.first4
         /\ r.hc = x
<1>1. PICK ip, fp, path, sha, expected, received, first4, hc :
        /\ ip = g.in_progress /\ fp = g.fp /\ path = g.path /\ sha = g.sha
        /\ expected = g.expected /\ received = g.received /\ first4 = g.first4 /\ hc = g.hc
  OBVIOUS
<1>2. /\ g = [in_progress |-> ip, fp |-> fp, path |-> path, sha |-> sha,
              expected |-> expected, received |-> received, first4 |-> first4, hc |-> hc]
      /\ ip \in BOOLEAN /\ fp \in {"null", "open", "dangling"} /\ path \in Paths
      /\ expected \in Nat /\ received \in Nat
      /\ first4 \in Seq(Nat) /\ Len(first4) <= Len(Magic)
  BY <1>1, Zenon DEF IsSession
<1>3. Made(r, ip, fp, path, sha, expected, received + n, first4, x)
  BY ONLY <1>2, Counted(r, g, x, n) DEF Made, Counted
<1>4. received + n \in Nat
  BY ONLY <1>2, n \in Nat
<1> QED
  BY <1>1, <1>2, <1>3, <1>4, NewSession

(* The bytes at hand are bytes of the upload, wherever payload is wanted.  *)
LEMMA ChunkIs ==
  ASSUME Streams, NEW c \in Conns, pc[c] \in {"write", "count"}
  PROVE  /\ Take(c) \in Nat /\ Take(c) <= bleft[c] /\ bleft[c] \in Nat
         /\ bleft[c] <= Len(upload[c].image) /\ Len(upload[c].image) \in Nat
         /\ Chunk(c) \in Seq(Nat) /\ Chunk(c) \in Seq(Bytes) /\ Len(Chunk(c)) = Take(c)
         /\ \A i \in 1..Take(c) :
              Chunk(c)[i] = upload[c].image[(Len(upload[c].image) - bleft[c]) + i]
<1>1. ConnTyped /\ Conn(c)
  BY DEF Streams
<1>2. /\ ibuf[c] \in Seq(Tokens) /\ net[c] \in Seq(Tokens)
      /\ upload[c].image \in Seq(Bytes) /\ bleft[c] \in Nat
  BY <1>1, Flat
<1>3. Len(ibuf[c]) \in Nat /\ Len(upload[c].image) \in Nat
  BY <1>2
<1>4. /\ Take(c) \in Nat /\ Take(c) <= Len(ibuf[c]) /\ Take(c) <= bleft[c]
  BY ONLY <1>2, <1>3 DEF Take
<1>5. /\ bleft[c] <= Len(upload[c].image)
      /\ Payload(Cat(ibuf[c], net[c]), bleft[c], upload[c].image)
  BY <1>1 DEF Conn, Good, Placed
<1>6. Len(Chunk(c)) = Take(c) /\ \A i \in 1..Take(c) : Chunk(c)[i] = ibuf[c][i]
  BY <1>2, <1>3, <1>4 DEF Chunk
<1>7. ASSUME NEW i \in 1..Take(c)
      PROVE  /\ Chunk(c)[i] = upload[c].image[(Len(upload[c].image) - bleft[c]) + i]
             /\ Chunk(c)[i] \in Bytes
  <2>1. i \in 1..Len(ibuf[c]) /\ i <= bleft[c]
    BY <1>3, <1>4, <1>2
  <2>2. Cat(ibuf[c], net[c])[i] = ibuf[c][i] /\ i \in 1..Len(Cat(ibuf[c], net[c]))
    <3>1. Cat(ibuf[c], net[c])[i] = ibuf[c][i]
      BY <1>2, <2>1, CatFacts
    <3>2. /\ Len(Cat(ibuf[c], net[c])) = Len(ibuf[c]) + Len(net[c])
          /\ Len(ibuf[c]) \in Nat /\ Len(net[c]) \in Nat
      BY <1>2, CatFacts
    <3>3. Len(ibuf[c]) <= Len(Cat(ibuf[c], net[c]))
      BY ONLY <3>2, Sums, Zenon
    <3>4. Len(Cat(ibuf[c], net[c])) \in Nat
      BY <1>1, Flat
    <3>5. i \in 1..Len(Cat(ibuf[c], net[c]))
      <4>1. \A a, b \in Nat : \A j \in 1..a : a <= b => j \in 1..b
        OBVIOUS
      <4> QED
        BY ONLY <3>2, <3>3, <3>4, <2>1, <4>1, Zenon
    <3> QED
      BY <3>1, <3>5
  <2>3. Cat(ibuf[c], net[c])[i] = upload[c].image[(Len(upload[c].image) - bleft[c]) + i]
    BY <1>5, <2>1, <2>2 DEF Payload
  <2>4. (Len(upload[c].image) - bleft[c]) + i \in 1..Len(upload[c].image)
    BY <1>2, <1>3, <1>5, <2>1
  <2> QED
    <3>1. upload[c].image[(Len(upload[c].image) - bleft[c]) + i] \in Bytes
      BY <1>2, <2>4
    <3>2. Chunk(c)[i] = ibuf[c][i]
      BY <1>6
    <3> QED
      BY <2>2, <2>3, <3>1, <3>2
<1>8. Chunk(c) \in Seq(Tokens)
  BY <1>2, <1>3, <1>4 DEF Chunk
<1>9. Chunk(c) \in Seq(Bytes)
  BY <1>6, <1>7, <1>8
<1>10. Chunk(c) \in Seq(Nat)
  <2>1. \A i \in 1..Len(Chunk(c)) : Chunk(c)[i] \in Nat
    BY <1>6, <1>7, BytesAre
  <2> QED
    BY <1>8, <2>1
<1> QED
  BY <1>2, <1>3, <1>4, <1>5, <1>6, <1>7, <1>9, <1>10

(* A connection is within its upload.                                      *)
Active(c) == /\ mode[c] = "upgrade"
             /\ pc[c] \in {"write", "count", "finish"} \/ (pc[c] = "recv" /\ bleft[c] > 0)

(* Bytes written and not yet counted.                                      *)
Uncounted(c) == IF pc[c] = "count" THEN Take(c) ELSE 0

Starts(a, b) == Len(a) <= Len(b) /\ \A i \in 1..Len(a) : a[i] = b[i]

(* The session g and its file hold what the upload im, of which left bytes *)
(* are missing, has brought; k of them are not yet counted.                *)
Data(g, file, left, k, im, sh) ==
  /\ g.expected = Len(im) /\ g.sha = sh /\ g.received = Len(im) - left
  /\ Len(file) = (Len(im) - left) + k
  /\ Starts(file, im) /\ Starts(g.first4, file)
  /\ Len(g.first4) = Len(Magic) \/ Len(g.first4) = Len(file)

Taken(h, m, n) == Cut(h, m, n) /\ h.bitlen = 8 * n /\ n \in 0..Len(m)

Owned == g_up.in_progress => /\ owner \in Conns /\ mode[owner] = "upgrade" /\ g_up.fp = "open"
                             /\ Active(owner) \/ pc[owner] = "end"
Undisturbed == ~stolen => \A c \in Conns : Active(c) => g_up.in_progress /\ owner = c
SessionData ==
  g_up.in_progress /\ ~stolen /\ Active(owner) =>
    Data(g_up, new, bleft[owner], Uncounted(owner), upload[owner].image, upload[owner].sha)
HashSound == g_up.in_progress /\ g_up.sha # NoSha /\ ~stolen =>
               Taken(g_up.hc, new, Len(new) - Uncounted(owner))

Sess == UpTyped /\ Owned /\ Undisturbed /\ SessionData /\ HashSound

(* What another connection's step leaves alone.                            *)
LEMMA ElsewhereIs ==
  ASSUME NEW c \in Conns, Elsewhere(c), NEW d \in Conns \ {c}
  PROVE  /\ Active(d)' <=> Active(d)
         /\ Uncounted(d)' = Uncounted(d)
         /\ mode'[d] = mode[d] /\ pc'[d] = pc[d] /\ bleft'[d] = bleft[d] /\ upload'[d] = upload[d]
<1>1. /\ ibuf'[d] = ibuf[d] /\ mode'[d] = mode[d] /\ pc'[d] = pc[d]
      /\ bleft'[d] = bleft[d] /\ upload'[d] = upload[d]
  BY DEF Elsewhere
<1>2. Take(d)' = Take(d)
  BY <1>1 DEF Take
<1> QED
  BY <1>1, <1>2 DEF Active, Uncounted

(* A step that leaves no session.                                          *)
LEMMA NoneLeft ==
  ASSUME UpTyped', ~ g_up'.in_progress, ~stolen' => \A d \in Conns : ~ Active(d)'
  PROVE  Sess'
BY DEF Sess, Owned, Undisturbed, SessionData, HashSound

(* A step that leaves the session alone, whoever does it.                  *)
LEMMA QuietStep ==
  ASSUME Sess, NEW c \in Conns, Elsewhere(c),
         g_up' = g_up, new' = new, run' = run, owner' = owner, stolen' = stolen,
         Active(c)' => Active(c),
         g_up.in_progress /\ owner = c =>
           /\ mode'[c] = "upgrade" /\ (Active(c)' \/ pc'[c] = "end")
           /\ Uncounted(c)' = Uncounted(c)
           /\ Active(c)' => bleft'[c] = bleft[c] /\ upload'[c] = upload[c]
  PROVE  Sess'
<1>1. UpTyped /\ Owned /\ Undisturbed /\ SessionData /\ HashSound
  BY DEF Sess
<1>2. UpTyped'
  BY <1>1 DEF UpTyped
<1>0. PICK o : o = owner /\ o = owner'
  OBVIOUS
<1>3. Owned'
  <2> SUFFICES ASSUME g_up.in_progress
               PROVE  /\ o \in Conns /\ mode'[o] = "upgrade" /\ g_up.fp = "open"
                      /\ Active(o)' \/ pc'[o] = "end"
    BY <1>0 DEF Owned, Active
  <2>1. /\ o \in Conns /\ mode[o] = "upgrade" /\ g_up.fp = "open"
        /\ (Active(o) \/ pc[o] = "end")
    BY <1>0, <1>1 DEF Owned
  <2>2. CASE o = c
    BY <1>0, <2>1, <2>2
  <2>3. CASE o # c
    BY <2>1, <2>3, ElsewhereIs
  <2> QED
    BY <2>2, <2>3
<1>4. Undisturbed'
  <2> SUFFICES ASSUME ~stolen, NEW d \in Conns, Active(d)' PROVE g_up.in_progress /\ owner = d
    BY DEF Undisturbed
  <2>1. Active(d)
    BY ElsewhereIs
  <2> QED
    BY <1>1, <2>1 DEF Undisturbed
<1>5. ASSUME g_up.in_progress
      PROVE  /\ Uncounted(o)' = Uncounted(o)
             /\ Active(o)' => Active(o) /\ bleft'[o] = bleft[o] /\ upload'[o] = upload[o]
  <2>1. o \in Conns
    BY <1>0, <1>1, <1>5 DEF Owned
  <2>2. CASE o = c
    BY <1>0, <1>5, <2>2
  <2>3. CASE o # c
    BY <2>1, <2>3, ElsewhereIs
  <2> QED
    BY <2>2, <2>3
<1>6. SessionData'
  <2> SUFFICES ASSUME g_up.in_progress, ~stolen, Active(o)'
               PROVE  Data(g_up, new, bleft'[o], Uncounted(o)', upload'[o].image, upload'[o].sha)
    BY <1>0 DEF SessionData, Active, Uncounted, Take
  <2>1. Data(g_up, new, bleft[o], Uncounted(o), upload[o].image, upload[o].sha)
    BY <1>0, <1>1, <1>5 DEF SessionData
  <2> QED
    BY <1>5, <2>1
<1>7. HashSound'
  <2> SUFFICES ASSUME g_up.in_progress, g_up.sha # NoSha, ~stolen
               PROVE  Taken(g_up.hc, new, Len(new) - Uncounted(o)')
    BY <1>0 DEF HashSound, Uncounted, Take
  <2>1. Taken(g_up.hc, new, Len(new) - Uncounted(o))
    BY <1>0, <1>1 DEF HashSound
  <2> QED
    BY <1>5, <2>1
<1> QED
  BY <1>2, <1>3, <1>4, <1>6, <1>7 DEF Sess

(* Within its upload, a connection's payload is wanted or all there.       *)
LEMMA ActiveIs ==
  ASSUME Streams, NEW c \in Conns
  PROVE  /\ Active(c) => peer[c] \in {"ok", "sent", "gone"}
         /\ pc[c] = "exec" => bleft[c] = 0 /\ mode[c] = "upgrade"
         /\ pc[c] = "lines" => bleft[c] = 0
         /\ pc[c] = "none" => bleft[c] = 0 /\ mode[c] = "line"
         /\ bleft[c] \in Nat /\ (bleft[c] > 0 => mode[c] # "line")
<1>1. /\ Good(Cat(ibuf[c], net[c]), bleft[c], upload[c].image, peer[c], hasty[c], pc[c])
      /\ Held(ibuf[c], bleft[c], hasty[c], pc[c], mode[c])
  BY DEF Streams, Conn
<1>2. Placed(Cat(ibuf[c], net[c]), bleft[c], upload[c].image, peer[c], hasty[c], pc[c]) /\ bleft[c] \in Nat
  BY <1>1 DEF Good
<1>3. Active(c) => bleft[c] > 0 \/ pc[c] = "finish"
  BY <1>2 DEF Active, Placed
<1>4. Active(c) => peer[c] \in {"ok", "sent", "gone"}
  BY <1>2, <1>3 DEF Placed
<1>5. pc[c] = "none" => bleft[c] = 0
  BY <1>2 DEF Placed
<1> QED
  BY <1>1, <1>2, <1>4, <1>5 DEF Placed, Held

(* The peers have no part in the session.                                  *)
LEMMA PeerKeeps ==
  ASSUME Streams, Sess, NEW c \in Conns, Peer(c), Elsewhere(c) PROVE Sess'
<1>1. /\ g_up' = g_up /\ new' = new /\ run' = run /\ owner' = owner /\ stolen' = stolen
      /\ pc' = pc /\ ibuf' = ibuf /\ bleft' = bleft /\ mode' = mode
  BY DEF Peer, PeerLine, PeerUpload, PeerPayload, PeerGone, Asks, upvars, connvars
<1>2. upload' = upload \/ peer[c] = "idle"
  BY DEF Peer, PeerLine, PeerUpload, PeerPayload, PeerGone, Asks
<1>3. (Active(c)' <=> Active(c)) /\ Uncounted(c)' = Uncounted(c)
  BY <1>1 DEF Active, Uncounted, Take
<1>4. Active(c) => upload' = upload
  BY <1>2, ActiveIs
<1>5. g_up.in_progress /\ owner = c => mode[c] = "upgrade" /\ (Active(c) \/ pc[c] = "end")
  BY DEF Sess, Owned
<1> QED
  BY <1>1, <1>3, <1>4, <1>5, QuietStep

(* So does a step of a thread between its uploads, and the end of it.      *)
LEMMA AsideKeeps ==
  ASSUME Streams, Sess, NEW c \in Conns, Elsewhere(c),
         g_up' = g_up, new' = new, run' = run, owner' = owner, stolen' = stolen,
         ~ Active(c)',
         \/ ~ (mode[c] = "upgrade" /\ (Active(c) \/ pc[c] = "end"))
         \/ Active(c) /\ mode'[c] = "upgrade" /\ pc[c] # "count" /\ pc'[c] = "end"
         \/ ~ g_up.in_progress
  PROVE  Sess'
<1>1. g_up.in_progress /\ owner = c => mode[c] = "upgrade" /\ (Active(c) \/ pc[c] = "end")
  BY DEF Sess, Owned
<1>2. g_up.in_progress /\ owner = c =>
        Active(c) /\ mode'[c] = "upgrade" /\ pc[c] # "count" /\ pc'[c] = "end"
  BY <1>1
<1>3. pc[c] # "count" /\ pc'[c] = "end" => Uncounted(c)' = Uncounted(c)
  BY DEF Uncounted
<1> QED
  BY <1>2, <1>3, QuietStep

-----------------------------------------------------------------------------
(* The steps that leave the session to others, begin it or end it.         *)

Untouched == g_up' = g_up /\ new' = new /\ run' = run /\ owner' = owner /\ stolen' = stolen

(* A new connection is in line mode.                                       *)
LEMMA AcceptKeeps ==
  ASSUME Streams, Sess, NEW c \in Conns, Accept(c), Elsewhere(c) PROVE Sess'
<1>1. /\ Untouched /\ pc[c] = "none" /\ bleft' = bleft /\ mode' = mode
      /\ mode[c] = "line"
  BY ActiveIs DEF Accept, upvars, Untouched
<1>2. ~ Active(c)'
  BY <1>1 DEF Active
<1> QED
  BY <1>1, <1>2, AsideKeeps DEF Untouched

(* recv ends no upload, and begins none.                                   *)
LEMMA RecvKeeps ==
  ASSUME Streams, Sess, NEW c \in Conns, Recv(c), Elsewhere(c) PROVE Sess'
<1>1. Untouched /\ pc[c] = "recv" /\ bleft' = bleft /\ mode' = mode /\ upload' = upload
  BY DEF Recv, upvars, Untouched
<1>2. pc'[c] = IF bleft[c] > 0 THEN "write" ELSE IF Len(ibuf'[c]) > LINE_MAX THEN "end" ELSE "lines"
  BY DEF Recv, Goto, Streams, ConnTyped
<1>3. Active(c)' <=> Active(c)
  <2>1. CASE bleft[c] > 0
    BY <1>1, <1>2, <2>1 DEF Active
  <2>2. CASE ~ (bleft[c] > 0)
    <3>1. pc'[c] \in {"end", "lines"}
      BY <1>2, <2>2
    <3> QED
      BY <1>1, <2>2, <3>1 DEF Active
  <2> QED
    BY <2>1, <2>2
<1>4. Uncounted(c)' = Uncounted(c)
  <2>1. pc[c] # "count" /\ pc'[c] # "count"
    BY <1>1, <1>2
  <2> QED
    BY <2>1 DEF Uncounted
<1>5. g_up.in_progress /\ owner = c => mode[c] = "upgrade" /\ Active(c)
  BY <1>1 DEF Sess, Owned
<1> QED
  BY <1>1, <1>3, <1>4, <1>5, QuietStep DEF Untouched

(* The peer is gone: the thread ends, the session with it.                 *)
LEMMA RecvEndKeeps ==
  ASSUME Streams, Sess, NEW c \in Conns, RecvEnd(c), Elsewhere(c) PROVE Sess'
<1>1. Untouched /\ pc[c] = "recv" /\ bleft' = bleft /\ mode' = mode /\ pc'[c] = "end"
  BY DEF RecvEnd, upvars, Untouched, Goto, Streams, ConnTyped
<1>2. ~ Active(c)'
  BY <1>1 DEF Active
<1>3. Active(c) => mode'[c] = "upgrade"
  BY <1>1 DEF Active
<1> QED
  BY <1>1, <1>2, <1>3, AsideKeeps DEF Untouched

(* A line that opens no session.                                           *)
LEMMA LineKeeps ==
  ASSUME Streams, Sess, NEW c \in Conns, AtLine(c), Elsewhere(c), Untouched,
         \/ mode'[c] = "putconf"
         \/ bleft' = bleft /\ (NextLine(c) \/ Goto(c, "end"))
  PROVE  Sess'
<1>1. pc[c] = "lines" /\ bleft[c] = 0
  BY ActiveIs DEF AtLine
<1>2. ~ Active(c) /\ pc[c] # "end"
  BY <1>1 DEF Active
<1>3. ~ Active(c)'
  <2>1. CASE mode'[c] = "putconf"
    BY <2>1 DEF Active
  <2>2. CASE bleft' = bleft /\ (NextLine(c) \/ Goto(c, "end"))
    <3>1. pc'[c] \in {"recv", "lines", "end"}
      BY <2>2 DEF NextLine, Goto, LinesOf, Streams, ConnTyped
    <3> QED
      BY <1>1, <2>2, <3>1 DEF Active
  <2> QED
    BY <2>1, <2>2
<1> QED
  BY <1>2, <1>3, AsideKeeps DEF Untouched

(* The lines that do not touch the session.                                *)
LEMMA HandleKeeps ==
  ASSUME Streams, Sess, NEW c \in Conns, Elsewhere(c),
         HandleAuth(c) \/ HandleUnauthed(c) \/ HandleCommand(c) \/ HandlePutconf(c)
  PROVE  Sess'
<1>1. AtLine(c) /\ Untouched
  BY DEF HandleAuth, HandleUnauthed, HandleCommand, HandlePutconf, upvars, Untouched
<1>2. CASE HandleAuth(c) \/ HandleUnauthed(c) \/ HandleCommand(c)
  <2>1. bleft' = bleft /\ (NextLine(c) \/ Goto(c, "end"))
    BY <1>2 DEF HandleAuth, HandleUnauthed, HandleCommand
  <2> QED
    BY <1>1, <2>1, LineKeeps
<1>3. CASE HandlePutconf(c)
  <2>1. CASE EnterBinary(c, "putconf")
    <3>1. mode'[c] = "putconf"
      BY <2>1 DEF EnterBinary, Streams, ConnTyped
    <3> QED
      BY <1>1, <3>1, LineKeeps
  <2>2. CASE Refuse(c)
    <3>1. bleft' = bleft /\ NextLine(c)
      BY <2>2 DEF Refuse
    <3> QED
      BY <1>1, <3>1, LineKeeps
  <2> QED
    BY <1>3, <2>1, <2>2 DEF HandlePutconf
<1> QED
  BY <1>2, <1>3

(* Nor does the other kind of upload.                                      *)
LEMMA PutconfKeeps ==
  ASSUME Streams, Sess, NEW c \in Conns, Elsewhere(c), WritePutconf(c) \/ FinishPutconf(c)
  PROVE  Sess'
<1>1. Untouched /\ mode[c] = "putconf" /\ mode' = mode
  BY DEF WritePutconf, FinishPutconf, upvars, Untouched
<1>2. ~ Active(c)'
  BY <1>1 DEF Active
<1> QED
  BY <1>1, <1>2, AsideKeeps DEF Untouched

(* upgrade_write refuses the chunk: the thread ends.                       *)
LEMMA RefusedKeeps ==
  ASSUME Streams, Sess, NEW c \in Conns, Elsewhere(c), WriteRefused(c) PROVE Sess'
<1>1. /\ Untouched /\ pc[c] = "write" /\ mode[c] = "upgrade" /\ mode' = mode /\ pc'[c] = "end"
  BY DEF WriteRefused, upvars, Untouched, Goto, Streams, ConnTyped
<1>2. Active(c) /\ ~ Active(c)'
  BY <1>1 DEF Active
<1> QED
  BY <1>1, <1>2, AsideKeeps DEF Untouched

(* The freed FILE swallows the chunk: there is no session then.            *)
LEMMA FreedKeeps ==
  ASSUME Streams, Sess, NEW c \in Conns, Elsewhere(c), WriteChunk(c), FwriteFreed(Chunk(c))
  PROVE  Sess'
<1>1. /\ Untouched /\ pc[c] = "write" /\ mode[c] = "upgrade"
      /\ g_up.fp = "dangling"
  BY DEF WriteChunk, FwriteFreed, upvars, Untouched
<1>2. ~ g_up.in_progress
  BY <1>1 DEF Sess, Owned
<1>3. Active(c)
  BY <1>1 DEF Active
<1> QED
  BY <1>1, <1>2, <1>3, QuietStep DEF Untouched

(* execv came back: the upload is over.                                    *)
LEMMA ReturnKeeps ==
  ASSUME Streams, Sess, NEW c \in Conns, Elsewhere(c), ExecReturns(c) PROVE Sess'
<1>1. Untouched /\ pc[c] = "exec" /\ bleft' = bleft /\ pc'[c] \in {"recv", "lines"}
  BY DEF ExecReturns, ExecFails, upvars, Untouched, Goto, LinesOf, Streams, ConnTyped
<1>2. bleft[c] = 0
  BY <1>1, ActiveIs
<1>3. ~ Active(c) /\ ~ Active(c)'
  BY <1>1, <1>2 DEF Active
<1> QED
  BY <1>1, <1>3, AsideKeeps DEF Untouched

(* The thread ends and ends no session.                                    *)
LEMMA NoSessionKeeps ==
  ASSUME Streams, Sess, NEW c \in Conns, Elsewhere(c), Untouched,
         ~ g_up.in_progress \/ mode[c] # "upgrade",
         pc'[c] = "end" \/ pc'[c] = "none"
  PROVE  Sess'
<1>1. ~ Active(c)'
  BY DEF Active
<1> QED
  BY <1>1, AsideKeeps DEF Untouched

(* A new context has taken nothing.                                        *)
LEMMA NoneCut == Taken(sha256_init, <<>>, 0)
<1>1. PICK e, z : e = <<>> /\ z = 0
  OBVIOUS
<1>2. /\ sha256_init = [state |-> e, bitlen |-> z, buf |-> e]
      /\ e \in Seq(Nat) /\ e \in Seq(Seq(Nat)) /\ Len(e) = 0 /\ z \in Nat
  BY <1>1 DEF sha256_init
<1>3. sha256_init.state = e /\ sha256_init.bitlen = z /\ sha256_init.buf = e
  BY <1>2
<1>4. 0 < BLOCK /\ Whole(0) = 0
  BY BlockAssumption DEF Whole
<1>5. Context(sha256_init)
  BY <1>2, <1>3, <1>4 DEF Context
<1>6. Cut(sha256_init, e, z)
  <2>1. SubSeq(e, 0 + 1, 0) = e
    BY <1>1
  <2> QED
    BY <1>1, <1>2, <1>3, <1>4, <1>5, <2>1 DEF Cut
<1>7. sha256_init.bitlen = 8 * z /\ z \in 0..Len(e)
  BY <1>1, <1>2, <1>3
<1> QED
  BY <1>1, <1>6, <1>7, Zenon DEF Taken

(* A message handed over in two parts has the digest of the whole:         *)
(* sha256_update and sha256_final compute the standard's definition.       *)
THEOREM DigestOfParts ==
  ASSUME NEW a \in Seq(Nat), NEW b \in Seq(Nat)
  PROVE  sha256_final(sha256_update(sha256_update(sha256_init, a), b)) = Digest(a \o b)
<1>1. Len(a) \in Nat /\ 0 \in 0..Len(a) /\ Len(a) \in 0..Len(a) /\ a = SubSeq(a, 0 + 1, Len(a))
  OBVIOUS
<1>2. PICK h, k, m : /\ h = sha256_update(sha256_init, a) /\ k = sha256_update(h, b)
                     /\ m = a \o b
  OBVIOUS
<1>3. Cut(sha256_init, a, 0) /\ sha256_init.bitlen = 8 * 0
  <2>1. Taken(sha256_init, <<>>, 0)
    BY NoneCut
  <2>2. Cut(sha256_init, <<>>, 0) /\ sha256_init.bitlen = 8 * 0
    BY <2>1, Zenon DEF Taken
  <2>6. PICK e : e = <<>>
    OBVIOUS
  <2>7. e \in Seq(Nat) /\ 0 \in 0..Len(e)
    BY <2>6
  <2>3. Cut(sha256_init, e, 0) /\ e \in Seq(Nat) /\ 0 \in 0..Len(e)
    BY <2>2, <2>6, <2>7, Zenon
  <2>4. Cut(sha256_init, e \o a, 0)
    BY ONLY <2>3, a \in Seq(Nat), CutExtends
  <2>5. e \o a = a
    BY <2>6
  <2> QED
    BY <2>2, <2>4, <2>5
<1>4. Cut(h, a, Len(a)) /\ h.bitlen = 8 * Len(a)
  BY ONLY <1>1, <1>2, <1>3, a \in Seq(Nat), UpdateCuts
<1>5. Cut(h, a \o b, Len(a))
  BY ONLY <1>1, <1>4, a \in Seq(Nat), b \in Seq(Nat), CutExtends
<1>6. Cut(h, m, Len(a))
  BY <1>2, <1>5
<1>7. m \in Seq(Nat) /\ Len(m) = Len(a) + Len(b) /\ Len(b) \in Nat
  BY <1>2
<1>8. Len(a) \in 0..Len(m)
  BY ONLY <1>1, <1>7
<1>9. b = SubSeq(m, Len(a) + 1, Len(m))
  BY <1>2, <1>7
<1>10. Cut(k, m, Len(m)) /\ k.bitlen = 8 * Len(m)
  <2>1. PICK n : n = Len(a)
    OBVIOUS
  <2>2. Cut(h, m, n) /\ h.bitlen = 8 * n /\ n \in 0..Len(m)
    BY <1>4, <1>6, <1>8, <2>1, Zenon
  <2>5. b = SubSeq(m, n + 1, Len(m))
    BY <1>9, <2>1, Zenon
  <2>6. m \in Seq(Nat)
    BY <1>7
  <2>7. PICK x, y, z : x = h /\ y = b /\ z = sha256_update(x, y)
    OBVIOUS
  <2>8. Cut(x, m, n) /\ x.bitlen = 8 * n /\ n \in 0..Len(m)
    BY <2>2, <2>7, Zenon
  <2>9. y = SubSeq(m, n + 1, Len(m))
    BY <2>5, <2>7
  <2>10. z = sha256_update(x, y)
    BY <2>7
  <2>3. Cut(z, m, Len(m)) /\ z.bitlen = 8 * Len(m)
    BY ONLY <2>6, <2>8, <2>9, <2>10, UpdateCuts
  <2>4. k = z
    BY <1>2, <2>7
  <2> QED
    BY <2>3, <2>4
<1>11. sha256_final(k) = Digest(m)
  BY ONLY <1>7, <1>10, FinalIs
<1> QED
  BY <1>2, <1>11

(* A new session has got nothing of its upload.                            *)
LEMMA NothingYet ==
  ASSUME NEW g, NEW im \in Seq(Bytes), NEW sh, NEW e, e = <<>>, NEW f, f = <<>>,
         g.expected = Len(im), g.sha = sh, g.received = 0, g.first4 = f
  PROVE  Data(g, e, Len(im), 0, im, sh)
<1>1. Len(e) = 0 /\ Len(f) = 0 /\ Len(im) \in Nat
  OBVIOUS
<1>2. Starts(e, im) /\ Starts(f, e)
  BY <1>1 DEF Starts
<1>3. g.received = Len(im) - Len(im) /\ Len(e) = (Len(im) - Len(im)) + 0
  BY <1>1
<1> QED
  BY <1>1, <1>2, <1>3 DEF Data

(* upgrade_begin opens a session for the connection that asks.             *)
LEMMA BeginKeeps ==
  ASSUME Streams, Sess, NEW c \in Conns, Elsewhere(c), EnterBinary(c, "upgrade"),
         Begin(c, Announced(c), upload[c].sha)
  PROVE  Sess'
<1>1. ConnTyped /\ UpTyped /\ Undisturbed
  BY DEF Streams, Sess
<1>2. /\ ~ BadSize(Announced(c)) /\ ~ g_up.in_progress /\ SelfExe \in Paths
      /\ g_up' = Begun(Announced(c), upload[c].sha)
      /\ new' = <<>> /\ owner' = c /\ run' = run /\ stolen' = stolen
  BY DEF Begin, MayBegin
<1>3. /\ bleft'[c] = Announced(c) /\ mode'[c] = "upgrade" /\ pc'[c] = "recv" /\ upload'[c] = upload[c]
  <2>1. bleft'[c] = Announced(c) /\ mode'[c] = "upgrade" /\ pc'[c] = "recv"
    BY <1>1 DEF EnterBinary, Goto, ConnTyped
  <2>2. upload' = upload
    <3>1. (IF hasty[c] THEN "sent" ELSE "ok") # "idle"
      BY <1>1 DEF ConnTyped
    <3> QED
      BY <3>1 DEF EnterBinary, Answer
  <2> QED
    BY <2>1, <2>2
<1>4. upload[c].image \in Seq(Bytes) /\ Announced(c) = Len(upload[c].image) /\ Announced(c) \in Nat
  <2>1. upload[c].image \in Seq(Bytes)
    BY <1>1, Flat
  <2> QED
    BY <2>1 DEF Announced
<1>5. Announced(c) > 0
  BY <1>2, <1>4 DEF BadSize
<1>6. PICK b, e, z : b = TRUE /\ e = <<>> /\ z = 0
  OBVIOUS
<1>7. Made(g_up', b, "open", SelfExe, upload[c].sha, Announced(c), z, e, sha256_init)
  BY <1>2, <1>6 DEF Begun, Made
<1>8. b \in BOOLEAN /\ e \in Seq(Nat) /\ Len(e) <= Len(Magic) /\ z \in Nat
  BY <1>6, UploadAssumption
<1>9. /\ IsSession(g_up') /\ g_up'.in_progress = b /\ g_up'.fp = "open"
      /\ g_up'.sha = upload[c].sha /\ g_up'.expected = Announced(c) /\ g_up'.received = z
      /\ g_up'.first4 = e /\ g_up'.hc = sha256_init
  <2>1. "open" \in {"null", "open", "dangling"}
    OBVIOUS
  <2> QED
    BY ONLY <1>2, <1>4, <1>7, <1>8, <2>1, NewSession
<1>10. Active(c)' /\ Uncounted(c)' = 0
  BY <1>3, <1>5 DEF Active, Uncounted
<1>11. UpTyped'
  BY <1>1, <1>2, <1>6, <1>8, <1>9 DEF UpTyped
<1>12. Owned'
  BY <1>2, <1>3, <1>9, <1>10 DEF Owned, Active
<1>13. Undisturbed'
  <2> SUFFICES ASSUME ~stolen, NEW d \in Conns \ {c}, Active(d)' PROVE FALSE
    BY <1>2, <1>6, <1>9 DEF Undisturbed
  <2>1. Active(d)
    BY ElsewhereIs
  <2> QED
    BY <1>1, <1>2, <2>1 DEF Undisturbed
<1>14. SessionData'
  <2>1. Data(g_up', new', Len(upload[c].image), 0, upload[c].image, upload[c].sha)
    BY <1>2, <1>4, <1>6, <1>9, NothingYet
  <2>2. Data(g_up', new', bleft'[c], Uncounted(c)', upload'[c].image, upload'[c].sha)
    BY <1>3, <1>4, <1>10, <2>1
  <2> QED
    BY <1>2, <2>2 DEF SessionData, Uncounted, Take
<1>15. HashSound'
  <2>1. Taken(g_up'.hc, new', Len(new') - Uncounted(c)')
    <3>1. Len(new') - Uncounted(c)' = 0
      BY <1>2, <1>10
    <3> QED
      BY <1>2, <1>9, <3>1, NoneCut
  <2> QED
    BY <1>2, <2>1 DEF HashSound, Uncounted, Take
<1> QED
  BY <1>11, <1>12, <1>13, <1>14, <1>15 DEF Sess

(* upgrade_begin fails halfway: no session.                                *)
LEMMA NotBegun ==
  ASSUME Streams, Sess, NEW c \in Conns, Elsewhere(c), AtLine(c), Refuse(c), NEW size, NEW sha,
         BeginCannotCreate(size) \/ BeginBadSha(size, sha)
  PROVE  Sess'
<1>1. UpTyped /\ Undisturbed
  BY DEF Sess
<1>2. /\ ~ g_up.in_progress /\ SelfExe \in Paths
      /\ new' = new /\ owner' = owner /\ run' = run /\ stolen' = stolen
      /\ \/ g_up' = [g_up EXCEPT !.fp = "null", !.path = SelfExe]
         \/ g_up' = [NoSession EXCEPT !.path = SelfExe, !.fp = "dangling"]
  BY DEF BeginCannotCreate, BeginBadSha, MayBegin
<1>3. IsSession(g_up') /\ ~ g_up'.in_progress
  <2>1. CASE g_up' = [g_up EXCEPT !.fp = "null", !.path = SelfExe]
    <3>1. IsSession(g_up)
      BY <1>1 DEF UpTyped
    <3>2. IsSession(g_up') /\ g_up'.in_progress = g_up.in_progress
      BY ONLY <1>2, <2>1, <3>1, WithPath
    <3> QED
      BY <1>2, <3>2
  <2>2. CASE g_up' = [NoSession EXCEPT !.path = SelfExe, !.fp = "dangling"]
    BY <1>2, <2>2, NoSessionIs
  <2> QED
    BY <1>2, <2>1, <2>2
<1>4. UpTyped'
  BY <1>1, <1>2, <1>3 DEF UpTyped
<1>5. ~ Active(c)'
  <2>1. bleft' = bleft /\ bleft[c] = 0
    BY ActiveIs DEF Refuse, AtLine
  <2>2. pc'[c] \in {"recv", "lines"}
    BY DEF Refuse, NextLine, Goto, LinesOf, Streams, ConnTyped
  <2> QED
    BY <2>1, <2>2 DEF Active
<1>6. ~stolen' => \A d \in Conns : ~ Active(d)'
  <2> SUFFICES ASSUME ~stolen, NEW d \in Conns \ {c} PROVE ~ Active(d)'
    BY <1>2, <1>5
  <2>1. ~ Active(d)
    BY <1>1, <1>2 DEF Undisturbed
  <2> QED
    BY <2>1, ElsewhereIs
<1> QED
  BY <1>3, <1>4, <1>6, NoneLeft

(* The upgrade command, with all its outcomes.                             *)
LEMMA UpgradeKeeps ==
  ASSUME Streams, Sess, NEW c \in Conns, Elsewhere(c), HandleUpgrade(c) PROVE Sess'
<1>1. AtLine(c)
  BY DEF HandleUpgrade
<1>2. CASE EnterBinary(c, "upgrade") /\ Begin(c, Announced(c), upload[c].sha)
  BY <1>2, BeginKeeps
<1>3. CASE Refuse(c) /\ BeginRefused(Announced(c))
  <2>1. Untouched /\ bleft' = bleft /\ NextLine(c)
    BY <1>3 DEF Refuse, BeginRefused, upvars, Untouched
  <2> QED
    BY <1>1, <2>1, LineKeeps
<1>4. CASE /\ Refuse(c)
           /\ BeginCannotCreate(Announced(c)) \/ BeginBadSha(Announced(c), upload[c].sha)
  BY <1>1, <1>4, NotBegun
<1> QED
  BY <1>2, <1>3, <1>4 DEF HandleUpgrade

(* The session ends, with the step of a connection that is not active      *)
(* after it.                                                               *)
LEMMA CloseKeeps ==
  ASSUME Streams, Sess, NEW c \in Conns, Elsewhere(c), ~ Active(c)',
         g_up' = Over, new' = <<>>, owner' = NoConn, stolen' = (stolen \/ owner # c),
         run' \in [path : Paths, replaced : BOOLEAN]
  PROVE  Sess'
<1>1. UpTyped /\ Undisturbed
  BY DEF Sess
<1>2. IsSession(g_up') /\ ~ g_up'.in_progress
  <2>1. g_up.path \in Paths
    BY <1>1 DEF UpTyped, IsSession
  <2> QED
    BY <2>1, NoSessionIs DEF Over
<1>3. UpTyped'
  <2>1. new' \in Seq(Nat) /\ owner' \in Conns \cup {NoConn}
    OBVIOUS
  <2>2. stolen' \in BOOLEAN
    BY <1>1 DEF UpTyped
  <2> QED
    BY <1>2, <2>1, <2>2 DEF UpTyped
<1>4. ~stolen' => \A d \in Conns : ~ Active(d)'
  <2> SUFFICES ASSUME ~stolen, owner = c, NEW d \in Conns \ {c} PROVE ~ Active(d)'
    OBVIOUS
  <2>1. ~ Active(d)
    BY <1>1 DEF Undisturbed
  <2> QED
    BY <2>1, ElsewhereIs
<1> QED
  BY <1>2, <1>3, <1>4, NoneLeft

(* The thread's end aborts the session if its mode is upgrade.             *)
LEMMA EndKeeps ==
  ASSUME Streams, Sess, NEW c \in Conns, Elsewhere(c), End(c) PROVE Sess'
<1>1. pc'[c] = "none" /\ ~ Active(c)'
  <2>1. pc'[c] = "none"
    BY DEF End, Goto, Streams, ConnTyped
  <2> QED
    BY <2>1 DEF Active
<1>2. CASE mode[c] = "upgrade" /\ g_up.in_progress
  <2>1. /\ g_up' = Over /\ new' = <<>> /\ owner' = NoConn /\ stolen' = (stolen \/ owner # c)
        /\ run' = run
    BY <1>2 DEF End, Abort, Cleanup
  <2>2. run' \in [path : Paths, replaced : BOOLEAN]
    BY <2>1 DEF Sess, UpTyped
  <2> QED
    BY <1>1, <2>1, <2>2, CloseKeeps
<1>3. CASE ~ (mode[c] = "upgrade" /\ g_up.in_progress)
  <2>1. Untouched
    BY <1>3 DEF End, Abort, upvars, Untouched
  <2> QED
    BY <1>1, <1>3, <2>1, NoSessionKeeps
<1> QED
  BY <1>2, <1>3

(* upgrade_finish ends the session, whatever its checks say.               *)
LEMMA FinishKeeps ==
  ASSUME Streams, Sess, NEW c \in Conns, Elsewhere(c), FinishUpgrade(c) PROVE Sess'
<1>1. pc'[c] \in {"exec", "end"} /\ ~ Active(c)'
  <2>1. pc'[c] \in {"exec", "end"}
    BY DEF FinishUpgrade, Goto, Streams, ConnTyped
  <2> QED
    BY <2>1 DEF Active
<1>2. run \in [path : Paths, replaced : BOOLEAN]
  BY DEF Sess, UpTyped
<1>3. CASE Finish(c)
  <2>1. /\ g_up' = Over /\ new' = <<>> /\ owner' = NoConn /\ stolen' = (stolen \/ owner # c)
        /\ run' = [run EXCEPT !.replaced = @ \/ run.path = g_up.path]
    BY <1>3 DEF Finish
  <2>2. run' \in [path : Paths, replaced : BOOLEAN]
    BY <1>2, <2>1
  <2> QED
    BY <1>1, <2>1, <2>2, CloseKeeps
<1>4. CASE FinishRefused(c)
  <2>1. /\ g_up' = Over /\ new' = <<>> /\ owner' = NoConn /\ stolen' = (stolen \/ owner # c)
        /\ run' = run
    BY <1>4 DEF FinishRefused, Cleanup
  <2> QED
    BY <1>1, <1>2, <2>1, CloseKeeps
<1>5. CASE FinishNoSession /\ Goto(c, "end")
  <2>1. Untouched /\ ~ g_up.in_progress
    BY <1>5 DEF FinishNoSession, upvars, Untouched
  <2>2. pc'[c] = "end"
    BY <1>5 DEF Goto, Streams, ConnTyped
  <2> QED
    BY <2>1, <2>2, NoSessionKeeps
<1> QED
  BY <1>3, <1>4, <1>5 DEF FinishUpgrade

(* A new process has no session.                                           *)
LEMMA FreshKeeps ==
  ASSUME Streams, Sess, Fresh, NEW p \in Paths, NewProcess(p) PROVE Sess'
<1>1. UpTyped
  BY DEF Sess
<1>2. /\ g_up' = NoSession /\ new' = <<>> /\ run' = [path |-> p, replaced |-> FALSE]
      /\ owner' = NoConn /\ stolen' = stolen
  BY DEF NewProcess
<1>3. IsSession(g_up') /\ ~ g_up'.in_progress
  <2>1. 0 \in Paths /\ "null" \in {"null", "dangling"}
    BY UploadAssumption DEF Paths
  <2> QED
    BY <1>2, <2>1, NoSessionIs
<1>4. UpTyped'
  BY <1>1, <1>2, <1>3 DEF UpTyped
<1>5. \A d \in Conns : ~ Active(d)'
  BY DEF Fresh, Active
<1> QED
  BY <1>3, <1>4, <1>5, NoneLeft

-----------------------------------------------------------------------------
(* The write of a chunk.                                                   *)

(* A step of an upload's thread on the session it works for.               *)
LEMMA WorkStep ==
  ASSUME Sess, NEW c \in Conns, Elsewhere(c), Active(c), UpTyped',
         g_up'.in_progress = g_up.in_progress, g_up'.fp = g_up.fp,
         owner' = owner, stolen' = stolen,
         mode'[c] = "upgrade", Active(c)' \/ pc'[c] = "end",
         g_up.in_progress /\ ~stolen =>
           /\ Active(c)' => Data(g_up', new', bleft'[c], Uncounted(c)', upload'[c].image, upload'[c].sha)
           /\ g_up'.sha # NoSha => Taken(g_up'.hc, new', Len(new') - Uncounted(c)')
  PROVE  Sess'
<1>1. Owned /\ Undisturbed
  BY DEF Sess
<1>0. PICK o : o = owner /\ o = owner'
  OBVIOUS
<1>2. Owned'
  <2> SUFFICES ASSUME g_up.in_progress
               PROVE  /\ o \in Conns /\ mode'[o] = "upgrade" /\ g_up.fp = "open"
                      /\ Active(o)' \/ pc'[o] = "end"
    BY <1>0 DEF Owned, Active
  <2>1. /\ o \in Conns /\ mode[o] = "upgrade" /\ g_up.fp = "open"
        /\ (Active(o) \/ pc[o] = "end")
    BY <1>0, <1>1 DEF Owned
  <2>2. CASE o = c
    BY <2>1, <2>2
  <2>3. CASE o # c
    BY <2>1, <2>3, ElsewhereIs
  <2> QED
    BY <2>2, <2>3
<1>3. Undisturbed'
  <2> SUFFICES ASSUME ~stolen, NEW d \in Conns, Active(d)' PROVE g_up.in_progress /\ owner = d
    BY DEF Undisturbed
  <2>1. Active(d)
    BY ElsewhereIs
  <2> QED
    BY <1>1, <2>1 DEF Undisturbed
<1>4. g_up.in_progress /\ ~stolen => o = c
  BY <1>0, <1>1 DEF Undisturbed
<1>5. SessionData'
  <2> SUFFICES ASSUME g_up.in_progress, ~stolen, Active(o)'
               PROVE  Data(g_up', new', bleft'[o], Uncounted(o)', upload'[o].image, upload'[o].sha)
    BY <1>0 DEF SessionData, Active, Uncounted, Take
  <2> QED
    BY <1>4
<1>6. HashSound'
  <2> SUFFICES ASSUME g_up.in_progress, g_up'.sha # NoSha, ~stolen
               PROVE  Taken(g_up'.hc, new', Len(new') - Uncounted(o)')
    BY <1>0 DEF HashSound, Uncounted, Take
  <2> QED
    BY <1>4
<1> QED
  BY <1>2, <1>3, <1>5, <1>6 DEF Sess

(* Two sequences of bytes, one behind the other.                           *)
LEMMA NatCat ==
  ASSUME NEW u \in Seq(Nat), NEW v \in Seq(Nat), NEW w, w = u \o v
  PROVE  /\ w \in Seq(Nat)
         /\ Len(w) = Len(u) + Len(v) /\ Len(u) \in Nat /\ Len(v) \in Nat
         /\ \A i \in 1..Len(u) : w[i] = u[i]
         /\ \A i \in (Len(u) + 1)..(Len(u) + Len(v)) : w[i] = v[i - Len(u)]
<1>1. w \in Seq(Nat) /\ Len(w) = Len(u) + Len(v) /\ Len(u) \in Nat /\ Len(v) \in Nat
  OBVIOUS
<1>2. \A i \in 1..Len(u) : w[i] = u[i]
  OBVIOUS
<1>3. \A i \in (Len(u) + 1)..(Len(u) + Len(v)) : w[i] = v[i - Len(u)]
  OBVIOUS
<1> QED
  BY ONLY <1>1, <1>2, <1>3

(* The first bytes of the file that are kept for the ELF check.            *)
LEMMA FirstTyped ==
  ASSUME NEW f \in Seq(Nat), Len(f) <= Len(Magic), NEW data \in Seq(Nat), NEW k,
         k = IF Len(Magic) - Len(f) > Len(data) THEN Len(data) ELSE Len(Magic) - Len(f),
         NEW x, x = f \o SubSeq(data, 1, k)
  PROVE  /\ k \in Nat /\ k <= Len(data) /\ k <= Len(Magic) - Len(f)
         /\ x \in Seq(Nat) /\ Len(x) = Len(f) + k /\ Len(x) <= Len(Magic)
         /\ \A i \in 1..Len(f) : x[i] = f[i]
         /\ \A i \in (Len(f) + 1)..Len(x) : x[i] = data[i - Len(f)]
<1>1. Len(f) \in Nat /\ Len(data) \in Nat /\ Len(Magic) \in Nat
  BY UploadAssumption
<1>2. k \in Nat /\ k <= Len(data) /\ k <= Len(Magic) - Len(f)
  BY ONLY <1>1, Len(f) <= Len(Magic),
     k = IF Len(Magic) - Len(f) > Len(data) THEN Len(data) ELSE Len(Magic) - Len(f)
<1>0. PICK p : p = SubSeq(data, 1, k)
  OBVIOUS
<1>3. p \in Seq(Nat) /\ Len(p) = k /\ \A i \in 1..k : p[i] = data[i]
  BY <1>0, <1>1, <1>2
<1>4. x = f \o p /\ p \in Seq(Nat)
  BY <1>0, <1>3
<1>5. /\ x \in Seq(Nat) /\ Len(x) = Len(f) + Len(p)
      /\ \A i \in 1..Len(f) : x[i] = f[i]
      /\ \A i \in (Len(f) + 1)..(Len(f) + Len(p)) : x[i] = p[i - Len(f)]
  BY ONLY <1>4, f \in Seq(Nat), NatCat
<1>6. \A i \in 1..Len(f) : x[i] = f[i]
  BY <1>5
<1>7. \A i \in (Len(f) + 1)..(Len(f) + Len(p)) : x[i] = p[i - Len(f)]
  BY <1>5
<1>8. \A i \in (Len(f) + 1)..Len(x) : x[i] = data[i - Len(f)]
  <2> SUFFICES ASSUME NEW i \in (Len(f) + 1)..Len(x) PROVE x[i] = data[i - Len(f)]
    OBVIOUS
  <2>1. x[i] = p[i - Len(f)]
    BY <1>5, <1>7
  <2>2. i - Len(f) \in 1..k
    BY <1>1, <1>2, <1>3, <1>5
  <2> QED
    BY <1>3, <2>1, <2>2
<1>9. Len(x) = Len(f) + k /\ Len(x) <= Len(Magic)
  BY ONLY <1>1, <1>2, <1>3, <1>5
<1> QED
  BY <1>2, <1>5, <1>6, <1>8, <1>9

Joined(w, a, b) == w = a \o b
Kept(f, file) == Starts(f, file) /\ (Len(f) = Len(Magic) \/ Len(f) = Len(file))
KeptOf(f, data, x) ==
  x = f \o SubSeq(data, 1, IF Len(Magic) - Len(f) > Len(data) THEN Len(data) ELSE Len(Magic) - Len(f))

(* They are still the first bytes when the file grows.                     *)
LEMMA FirstKept ==
  ASSUME NEW f \in Seq(Nat), Len(f) <= Len(Magic), NEW data \in Seq(Nat),
         NEW x, KeptOf(f, data, x), NEW file \in Seq(Nat), Kept(f, file),
         NEW w, Joined(w, file, data)
  PROVE  Kept(x, w)
<1>0. PICK k : k = IF Len(Magic) - Len(f) > Len(data) THEN Len(data) ELSE Len(Magic) - Len(f)
  OBVIOUS
<1>8. /\ x = f \o SubSeq(data, 1, k) /\ w = file \o data
      /\ Starts(f, file) /\ (Len(f) = Len(Magic) \/ Len(f) = Len(file))
  BY <1>0 DEF KeptOf, Kept, Joined
<1>1. /\ k \in Nat /\ k <= Len(data) /\ k <= Len(Magic) - Len(f)
      /\ x \in Seq(Nat) /\ Len(x) = Len(f) + k
      /\ \A i \in 1..Len(f) : x[i] = f[i]
      /\ \A i \in (Len(f) + 1)..Len(x) : x[i] = data[i - Len(f)]
  BY <1>0, <1>8, FirstTyped
<1>2. /\ w \in Seq(Nat) /\ Len(w) = Len(file) + Len(data)
      /\ Len(file) \in Nat /\ Len(data) \in Nat
      /\ \A i \in 1..Len(file) : w[i] = file[i]
      /\ \A i \in (Len(file) + 1)..(Len(file) + Len(data)) : w[i] = data[i - Len(file)]
  BY <1>8, NatCat
<1>3. Len(f) <= Len(file) /\ \A i \in 1..Len(f) : f[i] = file[i]
  BY <1>8 DEF Starts
<1>4. Len(f) \in Nat /\ Len(Magic) \in Nat
  BY UploadAssumption
<1>5. Len(x) <= Len(w)
  BY ONLY <1>1, <1>2, <1>3, <1>4
<1>6. Len(x) = Len(Magic) \/ Len(x) = Len(w)
  <2>0. k = Len(Magic) - Len(f) \/ (k = Len(data) /\ Len(Magic) - Len(f) > Len(data))
    BY <1>0
  <2>1. CASE k = Len(Magic) - Len(f)
    <3>1. Len(x) = Len(Magic)
      BY ONLY <1>1, <1>4, <2>1
    <3> QED
      BY <3>1
  <2>2. CASE k = Len(data) /\ Len(Magic) - Len(f) > Len(data)
    <3>1. Len(f) # Len(Magic)
      BY ONLY <1>2, <1>4, <2>2
    <3>2. Len(f) = Len(file)
      BY <1>8, <3>1
    <3>3. Len(x) = Len(w)
      BY ONLY <1>1, <1>2, <2>2, <3>2
    <3> QED
      BY <3>3
  <2> QED
    BY <2>0, <2>1, <2>2
<1>7. ASSUME NEW i \in 1..Len(x) PROVE x[i] = w[i]
  <2>1. CASE i <= Len(f)
    <3>1. i \in 1..Len(f) /\ i \in 1..Len(file)
      BY ONLY <1>1, <1>2, <1>3, <1>4, <2>1, i \in 1..Len(x)
    <3> QED
      BY <3>1, <1>1, <1>2, <1>3
  <2>2. CASE ~ (i <= Len(f))
    <3>1. i \in (Len(f) + 1)..Len(x) /\ Len(f) = Len(file)
      BY ONLY <1>1, <1>2, <1>4, <1>8, <2>2, i \in 1..Len(x)
    <3>2. i \in (Len(file) + 1)..(Len(file) + Len(data))
      BY ONLY <1>1, <1>2, <1>4, <3>1
    <3>3. x[i] = data[i - Len(f)] /\ w[i] = data[i - Len(file)]
      BY ONLY <1>1, <1>2, <3>1, <3>2
    <3> QED
      BY <3>1, <3>3
  <2> QED
    BY <2>1, <2>2
<1> QED
  BY <1>5, <1>6, <1>7 DEF Starts, Kept

(* A chunk of the upload goes into the file: the file still starts the     *)
(* upload.                                                                 *)
Fits(data, im, n) == Len(data) <= Len(im) - n /\ \A i \in 1..Len(data) : data[i] = im[n + i]

(* The file is still the beginning of the upload.                          *)
LEMMA FileGrows ==
  ASSUME NEW file \in Seq(Nat), NEW im, NEW n \in Nat, n <= Len(im), Len(im) \in Nat,
         Starts(file, im), Len(file) = n,
         NEW data \in Seq(Nat), Fits(data, im, n), NEW w, Joined(w, file, data)
  PROVE  Starts(w, im) /\ Len(w) = n + Len(data) /\ w \in Seq(Nat)
<1>0. w = file \o data /\ Len(data) <= Len(im) - n /\ \A i \in 1..Len(data) : data[i] = im[n + i]
  BY DEF Fits, Joined
<1>1. /\ w \in Seq(Nat) /\ Len(w) = Len(file) + Len(data)
      /\ Len(file) \in Nat /\ Len(data) \in Nat
      /\ \A i \in 1..Len(file) : w[i] = file[i]
      /\ \A i \in (Len(file) + 1)..(Len(file) + Len(data)) : w[i] = data[i - Len(file)]
  BY ONLY file \in Seq(Nat), data \in Seq(Nat), <1>0, NatCat
<1>2. \A i \in 1..n : file[i] = im[i]
  BY DEF Starts
<1>3. Len(w) <= Len(im) /\ Len(w) = n + Len(data)
  BY ONLY <1>1, Len(file) = n, <1>0, Len(im) \in Nat, n \in Nat
<1>4. ASSUME NEW i \in 1..Len(w) PROVE w[i] = im[i]
  <2>1. CASE i <= n
    <3>1. i \in 1..n
      BY ONLY <1>1, <2>1, n \in Nat, i \in 1..Len(w)
    <3> QED
      BY <3>1, <1>1, <1>2
  <2>2. CASE ~ (i <= n)
    <3>1. /\ i \in (Len(file) + 1)..(Len(file) + Len(data)) /\ i - n \in 1..Len(data)
          /\ n + (i - n) = i
      BY ONLY <1>1, <2>2, n \in Nat, Len(file) = n, i \in 1..Len(w)
    <3>2. w[i] = data[i - n]
      BY <1>1, <3>1
    <3>3. data[i - n] = im[n + (i - n)]
      BY <1>0, <3>1
    <3> QED
      BY <3>1, <3>2, <3>3
  <2> QED
    BY <2>1, <2>2
<1> QED
  BY <1>1, <1>3, <1>4 DEF Starts

(* What the write adds to the file and to the first bytes.                 *)
LEMMA FirstBytesIs ==
  ASSUME UpTyped, NEW data \in Seq(Nat)
  PROVE  /\ FirstBytes(data) \in Seq(Nat) /\ Len(FirstBytes(data)) <= Len(Magic)
         /\ KeptOf(g_up.first4, data, FirstBytes(data))
<1>1. PICK f : f = g_up.first4
  OBVIOUS
<1>2. f \in Seq(Nat) /\ Len(f) <= Len(Magic)
  BY <1>1 DEF UpTyped, IsSession
<1>3. PICK k : k = IF Len(Magic) - Len(f) > Len(data) THEN Len(data) ELSE Len(Magic) - Len(f)
  OBVIOUS
<1>4. PICK x : x = f \o SubSeq(data, 1, k)
  OBVIOUS
<1>5. FirstBytes(data) = x
  BY <1>1, <1>3, <1>4 DEF FirstBytes
<1>6. x \in Seq(Nat) /\ Len(x) <= Len(Magic)
  BY ONLY <1>2, <1>3, <1>4, data \in Seq(Nat), FirstTyped
<1>7. KeptOf(f, data, x)
  BY <1>3, <1>4 DEF KeptOf
<1> QED
  BY <1>1, <1>5, <1>6, <1>7

(* upgrade_write up to fwrite: the chunk is in the file and not yet        *)
(* counted.                                                                *)
LEMMA FwriteKeeps ==
  ASSUME Streams, Sess, NEW c \in Conns, Elsewhere(c), WriteChunk(c), Fwrite(Chunk(c)),
         Goto(c, "count")
  PROVE  Sess'
<1>1. /\ UpTyped /\ ConnTyped
  BY DEF Sess, Streams
<1>2. PICK data : data = Chunk(c)
  OBVIOUS
<1>3. /\ pc[c] = "write" /\ mode[c] = "upgrade" /\ pc'[c] = "count" /\ mode'[c] = "upgrade"
      /\ bleft' = bleft /\ upload' = upload /\ ibuf' = ibuf
  BY <1>1 DEF WriteChunk, Goto, ConnTyped, peervars
<1>4. Active(c) /\ Active(c)' /\ Uncounted(c) = 0 /\ Uncounted(c)' = Take(c)
  BY <1>3 DEF Active, Uncounted, Take
<1>5. /\ Take(c) \in Nat /\ Take(c) <= bleft[c] /\ bleft[c] \in Nat
      /\ bleft[c] <= Len(upload[c].image) /\ Len(upload[c].image) \in Nat
      /\ data \in Seq(Nat) /\ Len(data) = Take(c)
      /\ \A i \in 1..Take(c) : data[i] = upload[c].image[(Len(upload[c].image) - bleft[c]) + i]
  BY <1>2, <1>3, ChunkIs
<1>6. PICK g, r, x : g = g_up /\ r = g_up' /\ x = FirstBytes(data)
  OBVIOUS
<1>7. /\ r = [g EXCEPT !.first4 = x] /\ new' = new \o data
      /\ run' = run /\ owner' = owner /\ stolen' = stolen
  BY <1>2, <1>6 DEF Fwrite
<1>8. IsSession(g) /\ new \in Seq(Nat)
  BY <1>1, <1>6 DEF UpTyped
<1>9. x \in Seq(Nat) /\ Len(x) <= Len(Magic)
  BY <1>1, <1>5, <1>6, FirstBytesIs
<1>10. /\ IsSession(r) /\ r.in_progress = g.in_progress /\ r.fp = g.fp /\ r.sha = g.sha
       /\ r.expected = g.expected /\ r.received = g.received /\ r.first4 = x /\ r.hc = g.hc
  BY ONLY <1>7, <1>8, <1>9, WithFirst
<1>11. PICK w : w = new' /\ w = new \o data
  BY <1>7
<1>12. w \in Seq(Nat)
  BY ONLY <1>5, <1>8, <1>11, NatCat
<1>13. UpTyped'
  BY <1>1, <1>6, <1>7, <1>10, <1>11, <1>12 DEF UpTyped
<1>14. PICK im, sh, left, n, k :
         /\ im = upload[c].image /\ sh = upload[c].sha /\ left = bleft[c] /\ n = Len(im) - left
         /\ k = Take(c)
  OBVIOUS
<1>15. n \in Nat /\ n <= Len(im) /\ Len(im) \in Nat /\ Len(data) = k /\ Len(data) <= Len(im) - n
  BY ONLY <1>5, <1>14
<1>16. ASSUME g.in_progress, ~stolen
       PROVE  /\ Data(r, w, left, k, im, sh)
              /\ r.sha # NoSha => Taken(r.hc, w, Len(w) - k)
  <2>1. owner = c
    BY <1>4, <1>6, <1>16 DEF Sess, Undisturbed
  <2>2. Data(g, new, left, 0, im, sh)
    BY <1>4, <1>6, <1>14, <1>16, <2>1 DEF Sess, SessionData
  <2>3. /\ g.expected = Len(im) /\ g.sha = sh /\ g.received = Len(im) - left
        /\ Len(new) = (Len(im) - left) + 0
        /\ Starts(new, im) /\ Starts(g.first4, new)
        /\ Len(g.first4) = Len(Magic) \/ Len(g.first4) = Len(new)
    BY <2>2 DEF Data
  <2>4. Len(new) = n
    BY ONLY <1>14, <1>15, <2>3
  <2>5. Fits(data, im, n) /\ Joined(w, new, data)
    <3>1. \A i \in 1..Len(data) : data[i] = im[n + i]
      BY <1>5, <1>14
    <3> QED
      BY <1>11, <1>15, <3>1 DEF Fits, Joined
  <2>6. Starts(w, im) /\ Len(w) = n + Len(data)
    BY ONLY <1>5, <1>8, <1>15, <2>3, <2>4, <2>5, FileGrows
  <2>7. Starts(x, w) /\ (Len(x) = Len(Magic) \/ Len(x) = Len(w))
    <3>1. g.first4 \in Seq(Nat) /\ Len(g.first4) <= Len(Magic)
      BY <1>8 DEF IsSession
    <3>2. KeptOf(g.first4, data, x) /\ Kept(g.first4, new)
      BY <1>1, <1>5, <1>6, <2>3, FirstBytesIs DEF Kept
    <3>3. Kept(x, w)
      BY ONLY <1>5, <1>8, <2>5, <3>1, <3>2, FirstKept
    <3> QED
      BY <3>3 DEF Kept
  <2>8. Len(w) = (Len(im) - left) + k
    BY <1>14, <1>15, <2>6
  <2>9. Data(r, w, left, k, im, sh)
    BY <1>10, <2>3, <2>6, <2>7, <2>8 DEF Data
  <2>10. ASSUME r.sha # NoSha PROVE Taken(r.hc, w, Len(w) - k)
    <3>1. Taken(g.hc, new, Len(new) - 0)
      BY <1>4, <1>6, <1>10, <1>16, <2>1, <2>10 DEF Sess, HashSound
    <3>2. Len(new) - 0 = n /\ Len(w) - k = n
      BY ONLY <1>15, <2>4, <2>6
    <3>3. Cut(g.hc, new, n) /\ g.hc.bitlen = 8 * n /\ n \in 0..Len(new)
      BY <3>1, <3>2, Zenon DEF Taken
    <3>4. Cut(g.hc, new \o data, n)
      BY ONLY <3>3, <1>5, <1>8, CutExtends
    <3>5. n \in 0..Len(w)
      BY ONLY <1>15, <2>6
    <3>6. Cut(g.hc, w, n) /\ g.hc = r.hc
      BY <1>10, <1>11, <3>4
    <3> QED
      BY <3>2, <3>3, <3>5, <3>6, Zenon DEF Taken
  <2> QED
    BY <2>9, <2>10
<1>17. g_up.in_progress /\ ~stolen =>
         /\ Active(c)' => Data(g_up', new', bleft'[c], Uncounted(c)', upload'[c].image, upload'[c].sha)
         /\ g_up'.sha # NoSha => Taken(g_up'.hc, new', Len(new') - Uncounted(c)')
  BY <1>3, <1>4, <1>6, <1>11, <1>14, <1>16
<1> QED
  BY <1>3, <1>4, <1>6, <1>7, <1>10, <1>13, <1>17, WorkStep

(* fwrite fails: the thread ends.                                          *)
LEMMA FailKeeps ==
  ASSUME Streams, Sess, NEW c \in Conns, Elsewhere(c), WriteChunk(c), FwriteFails(Chunk(c)),
         Goto(c, "end")
  PROVE  Sess'
<1>1. /\ UpTyped /\ ConnTyped
  BY DEF Sess, Streams
<1>2. PICK data : data = Chunk(c)
  OBVIOUS
<1>3. pc[c] = "write" /\ mode[c] = "upgrade" /\ pc'[c] = "end" /\ mode'[c] = "upgrade"
  BY <1>1 DEF WriteChunk, Goto, ConnTyped, peervars
<1>4. Active(c) /\ ~ Active(c)' /\ Uncounted(c) = 0 /\ Uncounted(c)' = 0
  BY <1>3 DEF Active, Uncounted
<1>5. data \in Seq(Nat)
  BY <1>2, <1>3, ChunkIs
<1>6. PICK g, r, x : g = g_up /\ r = g_up' /\ x = FirstBytes(data)
  OBVIOUS
<1>7. /\ r = [g EXCEPT !.first4 = x] /\ new' = new
      /\ run' = run /\ owner' = owner /\ stolen' = stolen
  BY <1>2, <1>6 DEF FwriteFails
<1>8. IsSession(g)
  BY <1>1, <1>6 DEF UpTyped
<1>9. x \in Seq(Nat) /\ Len(x) <= Len(Magic)
  BY <1>1, <1>5, <1>6, FirstBytesIs
<1>10. /\ IsSession(r) /\ r.in_progress = g.in_progress /\ r.fp = g.fp /\ r.sha = g.sha /\ r.hc = g.hc
  BY ONLY <1>7, <1>8, <1>9, WithFirst
<1>11. UpTyped'
  BY <1>1, <1>6, <1>7, <1>10 DEF UpTyped
<1>12. g_up.in_progress /\ ~stolen => owner = c
  BY <1>4 DEF Sess, Undisturbed
<1>13. g_up.in_progress /\ ~stolen =>
         (g_up'.sha # NoSha => Taken(g_up'.hc, new', Len(new') - Uncounted(c)'))
  BY <1>4, <1>6, <1>7, <1>10, <1>12 DEF Sess, HashSound
<1> QED
  BY <1>3, <1>4, <1>6, <1>7, <1>10, <1>11, <1>13, WorkStep

(* The bytes taken of the file that were not yet hashed are the chunk.     *)
LEMMA TailIs ==
  ASSUME NEW file \in Seq(Nat), NEW im, NEW n \in Nat, Starts(file, im),
         NEW data \in Seq(Nat), Len(file) = n + Len(data), Fits(data, im, n)
  PROVE  data = SubSeq(file, n + 1, Len(file))
<1>1. Len(file) \in Nat /\ Len(data) \in Nat /\ n \in 0..Len(file)
  OBVIOUS
<1>2. PICK d : d = SubSeq(file, n + 1, Len(file))
  OBVIOUS
<1>3. d \in Seq(Nat) /\ Len(d) = Len(file) - n
  BY ONLY <1>1, <1>2, file \in Seq(Nat), RestIs
<1>4. Len(d) = Len(data)
  BY ONLY <1>1, <1>3, n \in Nat, Len(file) = n + Len(data)
<1>5. ASSUME NEW i \in 1..Len(data) PROVE d[i] = data[i]
  <2>1. d[i] = file[n + i]
    BY <1>1, <1>2, <1>3, <1>4
  <2>2. n + i \in 1..Len(file)
    BY <1>1
  <2>3. file[n + i] = im[n + i]
    BY <2>2 DEF Starts
  <2>4. data[i] = im[n + i]
    BY DEF Fits
  <2> QED
    BY <2>1, <2>3, <2>4
<1>6. d = data
  BY ONLY <1>3, <1>4, <1>5, data \in Seq(Nat), SameSeq
<1> QED
  BY <1>2, <1>6

(* upgrade_write after fwrite: the chunk is hashed and counted.            *)
LEMMA CountKeeps ==
  ASSUME Streams, Sess, NEW c \in Conns, Elsewhere(c), WriteCount(c) PROVE Sess'
<1>1. /\ UpTyped /\ ConnTyped
  BY DEF Sess, Streams
<1>2. PICK data : data = Chunk(c)
  OBVIOUS
<1>3. mode[c] = "upgrade" /\ pc[c] = "count" /\ mode' = mode /\ upload' = upload
  BY DEF WriteCount, peervars, Streams, Conn, Held
<1>5. /\ Take(c) \in Nat /\ Take(c) <= bleft[c] /\ bleft[c] \in Nat
      /\ bleft[c] <= Len(upload[c].image) /\ Len(upload[c].image) \in Nat
      /\ data \in Seq(Nat) /\ Len(data) = Take(c)
      /\ \A i \in 1..Take(c) : data[i] = upload[c].image[(Len(upload[c].image) - bleft[c]) + i]
  BY <1>2, <1>3, ChunkIs
<1>4. /\ bleft'[c] = bleft[c] - Take(c)
      /\ pc'[c] = IF Take(c) = bleft[c] THEN "finish" ELSE "recv"
  BY <1>1 DEF WriteCount, Consume, Complete, Goto, ConnTyped
<1>6. Active(c) /\ Active(c)' /\ Uncounted(c) = Take(c) /\ Uncounted(c)' = 0
  <2>1. pc'[c] = "finish" \/ (pc'[c] = "recv" /\ bleft'[c] > 0)
    BY ONLY <1>4, <1>5
  <2>2. pc'[c] # "count"
    BY <2>1
  <2> QED
    BY <1>3, <2>1, <2>2 DEF Active, Uncounted
<1>7. PICK g, r, x : g = g_up /\ r = g_up' /\ x = Hashed(data)
  OBVIOUS
<1>8. IsSession(g) /\ new \in Seq(Nat) /\ new' = new /\ run' = run /\ owner' = owner /\ stolen' = stolen
  BY <1>1, <1>7 DEF UpTyped, WriteCount, Count
<1>9. CASE ~ g.in_progress
  <2>1. g_up' = g_up
    BY <1>7, <1>9 DEF WriteCount, Count
  <2> QED
    BY <1>6, <1>7, <1>8, <1>9, <2>1, QuietStep
<1>10. CASE g.in_progress
  <2>1. r = [g EXCEPT !.hc = x, !.received = @ + Take(c)]
    <3>1. r = [g EXCEPT !.hc = x, !.received = @ + Len(data)]
      BY <1>2, <1>7, <1>10 DEF WriteCount, Count
    <3> QED
      BY <1>5, <3>1
  <2>2. /\ IsSession(r) /\ r.in_progress = g.in_progress /\ r.fp = g.fp /\ r.sha = g.sha
        /\ r.expected = g.expected /\ r.received = g.received + Take(c) /\ r.first4 = g.first4
        /\ r.hc = x
    <3>1. PICK m : m = Take(c)
      OBVIOUS
    <3>2. m \in Nat /\ IsSession(g) /\ Counted(r, g, x, m)
      BY <1>5, <1>8, <2>1, <3>1 DEF Counted
    <3>3. /\ IsSession(r) /\ r.in_progress = g.in_progress /\ r.fp = g.fp /\ r.sha = g.sha
          /\ r.expected = g.expected /\ r.received = g.received + m /\ r.first4 = g.first4
          /\ r.hc = x
      BY ONLY <3>2, WithCount
    <3> QED
      BY <3>1, <3>3
  <2>3. UpTyped'
    BY <1>1, <1>7, <1>8, <2>2 DEF UpTyped
  <2>4. PICK im, sh, left, n, k :
          /\ im = upload[c].image /\ sh = upload[c].sha /\ left = bleft[c] /\ n = Len(im) - left
          /\ k = Take(c)
    OBVIOUS
  <2>5. /\ n \in Nat /\ n <= Len(im) /\ Len(im) \in Nat /\ Len(data) = k /\ Len(data) <= Len(im) - n
        /\ left \in Nat /\ k \in Nat
    BY ONLY <1>5, <2>4
  <2>6. ASSUME ~stolen
        PROVE  /\ Data(r, new, left - k, 0, im, sh)
               /\ r.sha # NoSha => Taken(r.hc, new, Len(new) - 0)
    <3>1. owner = c
      BY <1>6, <2>6 DEF Sess, Undisturbed
    <3>2. Data(g, new, left, k, im, sh)
      BY <1>6, <1>7, <1>10, <2>4, <2>6, <3>1 DEF Sess, SessionData
    <3>3. /\ g.expected = Len(im) /\ g.sha = sh /\ g.received = Len(im) - left
          /\ Len(new) = (Len(im) - left) + k
          /\ Starts(new, im) /\ Starts(g.first4, new)
          /\ Len(g.first4) = Len(Magic) \/ Len(g.first4) = Len(new)
      BY <3>2 DEF Data
    <3>4. (Len(im) - left) + k = Len(im) - (left - k) /\ Len(new) = n + k
      BY ONLY <2>4, <2>5, <3>3
    <3>5. /\ r.received = Len(im) - (left - k)
          /\ Len(new) = (Len(im) - (left - k)) + 0
      BY ONLY <2>2, <2>4, <2>5, <3>3, <3>4
    <3>6. Data(r, new, left - k, 0, im, sh)
      BY <2>2, <3>3, <3>5 DEF Data
    <3>7. ASSUME r.sha # NoSha PROVE Taken(r.hc, new, Len(new) - 0)
      <4>1. Taken(g.hc, new, Len(new) - k)
        BY <1>6, <1>7, <1>10, <2>2, <2>4, <2>6, <3>1, <3>7 DEF Sess, HashSound
      <4>2. Len(new) - k = n /\ Len(new) - 0 = Len(new) /\ Len(new) \in Nat
        BY ONLY <2>5, <3>4
      <4>3. Cut(g.hc, new, n) /\ g.hc.bitlen = 8 * n /\ n \in 0..Len(new)
        BY <4>1, <4>2, Zenon DEF Taken
      <4>4. Fits(data, im, n) /\ Len(new) = n + Len(data)
        <5>1. \A i \in 1..Len(data) : data[i] = im[n + i]
          BY <1>5, <2>4
        <5> QED
          BY <2>5, <3>4, <5>1 DEF Fits
      <4>5. data = SubSeq(new, n + 1, Len(new))
        BY ONLY <1>5, <1>8, <2>5, <3>3, <4>4, TailIs
      <4>6. PICK h : h = sha256_update(g.hc, data)
        OBVIOUS
      <4>7. Cut(h, new, Len(new)) /\ h.bitlen = 8 * Len(new)
        BY ONLY <1>8, <4>3, <4>5, <4>6, UpdateCuts
      <4>8. r.hc = h
        BY <1>7, <2>2, <3>7, <4>6 DEF Hashed
      <4>9. Len(new) \in 0..Len(new)
        BY <4>2
      <4> QED
        BY <4>2, <4>7, <4>8, <4>9, Zenon DEF Taken
    <3> QED
      BY <3>6, <3>7
  <2>7. g_up.in_progress /\ ~stolen =>
          /\ Active(c)' => Data(g_up', new', bleft'[c], Uncounted(c)', upload'[c].image, upload'[c].sha)
          /\ g_up'.sha # NoSha => Taken(g_up'.hc, new', Len(new') - Uncounted(c)')
    BY <1>3, <1>4, <1>6, <1>7, <1>8, <2>4, <2>6
  <2> QED
    BY <1>3, <1>6, <1>7, <1>8, <2>2, <2>3, <2>7, WorkStep
<1> QED
  BY <1>9, <1>10

-----------------------------------------------------------------------------
(* The inductive invariant, and what follows from it.                      *)

(* A step of a connection's thread that does not end the process.          *)
LEMMA ServeKeeps ==
  ASSUME Streams, Sess, NEW c \in Conns, Elsewhere(c), Serve(c),
         ~ WriteCrashes(c), ~ ExecUpgrade(c)
  PROVE  Sess'
<1>1. CASE Recv(c) \/ RecvEnd(c)
  BY <1>1, RecvKeeps, RecvEndKeeps
<1>2. CASE Handle(c)
  BY <1>2, HandleKeeps, UpgradeKeeps DEF Handle
<1>3. CASE WritePutconf(c) \/ FinishPutconf(c)
  BY <1>3, PutconfKeeps
<1>4. CASE WriteRefused(c)
  BY <1>4, RefusedKeeps
<1>5. CASE WriteChunk(c)
  <2>1. \/ Fwrite(Chunk(c)) /\ Goto(c, "count")
        \/ FwriteFreed(Chunk(c))
        \/ FwriteFails(Chunk(c)) /\ Goto(c, "end")
    BY <1>5 DEF WriteChunk
  <2> QED
    BY <1>5, <2>1, FwriteKeeps, FreedKeeps, FailKeeps
<1>6. CASE WriteCount(c)
  BY <1>6, CountKeeps
<1>7. CASE FinishUpgrade(c)
  BY <1>7, FinishKeeps
<1>8. CASE ExecReturns(c)
  BY <1>8, ReturnKeeps
<1>9. CASE End(c)
  BY <1>9, EndKeeps
<1> QED
  BY <1>1, <1>2, <1>3, <1>4, <1>5, <1>6, <1>7, <1>8, <1>9 DEF Serve

(* A step that ends the process.                                           *)
LEMMA NewKeeps ==
  ASSUME Streams, Sess, NEW c \in Conns, Fresh, WriteCrashes(c) \/ ExecUpgrade(c) PROVE Sess'
<1>1. 0 \in Paths /\ g_up.path \in Paths
  BY UploadAssumption DEF Paths, Sess, UpTyped, IsSession
<1>2. NewProcess(0) \/ NewProcess(g_up.path)
  BY DEF WriteCrashes, ExecUpgrade, Exec
<1> QED
  BY <1>1, <1>2, FreshKeeps

IInv == Streams /\ Sess

(* It holds when the router starts,                                        *)
LEMMA InitIInv == Init => IInv
<1> SUFFICES ASSUME Init PROVE Streams /\ Sess
  BY DEF IInv
<1>1. Streams
  BY StreamsInit
<1>2. /\ g_up = NoSession /\ new = <<>> /\ owner = NoConn /\ stolen = FALSE
      /\ run = [path |-> 0, replaced |-> FALSE]
  BY DEF Init, UpgradeInit
<1>3. 0 \in Paths
  BY UploadAssumption DEF Paths
<1>4. IsSession(g_up) /\ ~ g_up.in_progress
  <2>1. "null" \in {"null", "dangling"}
    OBVIOUS
  <2> QED
    BY <1>2, <1>3, <2>1, NoSessionIs
<1>5. UpTyped
  <2>1. new \in Seq(Nat) /\ owner \in Conns \cup {NoConn}
    BY <1>2
  <2>3. stolen \in BOOLEAN
    BY <1>2, Zenon
  <2>2. run \in [path : Paths, replaced : BOOLEAN]
    BY <1>2, <1>3
  <2> QED
    BY <1>4, <2>1, <2>2, <2>3 DEF UpTyped
<1>6. \A c \in Conns : ~ Active(c)
  BY DEF Init, Active
<1> QED
  BY <1>1, <1>4, <1>5, <1>6 DEF Sess, Owned, Undisturbed, SessionData, HashSound

(* and every step keeps it.                                                *)
LEMMA NextIInv == IInv /\ [Next]_vars => IInv'
<1> SUFFICES ASSUME Streams, Sess, [Next]_vars PROVE Streams' /\ Sess'
  BY DEF IInv
<1>1. CASE Next
  <2>1. PICK c \in Conns : Peer(c) \/ Accept(c) \/ Serve(c)
    BY <1>1 DEF Next
  <2>2. Streams'
    BY <2>1, StreamsStay
  <2>3. CASE Fresh /\ (WriteCrashes(c) \/ ExecUpgrade(c))
    BY <2>2, <2>3, NewKeeps
  <2>4. CASE Elsewhere(c) /\ ~ (Fresh /\ (WriteCrashes(c) \/ ExecUpgrade(c)))
    <3>1. ~ WriteCrashes(c) /\ ~ ExecUpgrade(c)
      BY <2>4 DEF WriteCrashes, ExecUpgrade
    <3> QED
      BY <2>1, <2>2, <2>4, <3>1, PeerKeeps, AcceptKeeps, ServeKeeps
  <2> QED
    BY <2>1, <2>3, <2>4, LocalStep
<1>2. CASE UNCHANGED vars
  <2>1. /\ g_up' = g_up /\ new' = new /\ run' = run /\ owner' = owner /\ stolen' = stolen
        /\ net' = net /\ ibuf' = ibuf /\ upload' = upload /\ bleft' = bleft /\ peer' = peer
        /\ pc' = pc /\ mode' = mode /\ hasty' = hasty /\ authed' = authed /\ pcfp' = pcfp
    BY <1>2 DEF vars, upvars, connvars, peervars
  <2>2. Streams'
    BY <2>1 DEF Streams, ConnTyped, Conn
  <2>3. Sess'
    BY <2>1 DEF Sess, UpTyped, Owned, Undisturbed, SessionData, HashSound, Active, Uncounted, Take
  <2> QED
    BY <2>2, <2>3
<1> QED
  BY <1>1, <1>2

(* The inductive invariant: every connection's stream is cut where its     *)
(* peer cut it, and the session holds what its owner's upload has brought. *)
THEOREM SpecIInv == Spec => []IInv
  BY InitIInv, NextIInv, PTL DEF Spec

(* Every variable has its type, ibuf never overflows, and payload is       *)
(* awaited in a binary mode only (remote.c:224-254).                       *)
THEOREM TypeCorrect == Spec => []TypeOK
<1>1. IInv => TypeOK
  <2> SUFFICES ASSUME Streams, Sess PROVE TypeOK
    BY DEF IInv
  <2>1. ConnTyped /\ UpTyped
    BY DEF Streams, Sess
  <2>2. ASSUME NEW c \in Conns
        PROVE  /\ Range(net[c]) \subseteq Tokens
               /\ Range(ibuf[c]) \subseteq Tokens
               /\ Len(ibuf[c]) <= IBUF
               /\ bleft[c] \in 0..MAX_UPLOAD \cup 0..MAX_CONFIG
               /\ bleft[c] > 0 => mode[c] # "line"
    <3>1. ibuf[c] \in Seq(Tokens) /\ net[c] \in Seq(Tokens)
      BY <2>1, Flat
    <3>2. Range(net[c]) \subseteq Tokens /\ Range(ibuf[c]) \subseteq Tokens
      BY <3>1 DEF Range
    <3>3. Len(ibuf[c]) <= IBUF
      BY DEF Streams, Conn, Held
    <3>4. bleft[c] \in 0..MAX_UPLOAD \cup 0..MAX_CONFIG
      BY <2>1 DEF ConnTyped
    <3> QED
      BY <3>2, <3>3, <3>4, ActiveIs
  <2>3. /\ g_up.in_progress \in BOOLEAN /\ g_up.fp \in {"null", "open", "dangling"}
        /\ g_up.path \in Paths /\ g_up.received \in Nat /\ g_up.expected \in Nat
        /\ Len(g_up.first4) <= Len(Magic)
    BY <2>1, Zenon DEF UpTyped, IsSession
  <2>4. /\ run.path \in Paths /\ run.replaced \in BOOLEAN
        /\ owner \in Conns \cup {NoConn} /\ stolen \in BOOLEAN
    BY <2>1 DEF UpTyped
  <2> QED
    BY <2>1, <2>2, <2>3, <2>4, Zenon DEF TypeOK, ConnTyped
<1> QED
  BY <1>1, SpecIInv, PTL

(* No payload byte of a patient peer is taken for a command, and no        *)
(* command for payload, wherever recv cuts the stream (remote.c:164-174,   *)
(* 234-250).                                                               *)
THEOREM Framing == Spec => []FramingSound
<1>1. IInv => FramingSound
  <2> SUFFICES ASSUME Streams, Sess, NEW c \in Conns, ~ hasty[c]
               PROVE  /\ AtLine(c) => Head(ibuf[c]) \in AllLines
                      /\ pc[c] \in {"write", "count"} => Range(Chunk(c)) \subseteq Bytes
    BY DEF IInv, FramingSound
  <2>1. ASSUME AtLine(c) PROVE Head(ibuf[c]) \in AllLines
    <3>1. PICK s : s = Cat(ibuf[c], net[c])
      OBVIOUS
    <3>2. /\ ibuf[c] \in Seq(Tokens) /\ net[c] \in Seq(Tokens) /\ s \in Seq(Tokens)
      BY <3>1, Flat DEF Streams
    <3>3. Len(ibuf[c]) > 0
      BY <2>1, <3>2 DEF AtLine
    <3>4. s[1] = Head(ibuf[c]) /\ Len(s) > 0
      BY <3>1, <3>2, <3>3, PopCat
    <3>5. bleft[c] = 0
      BY <2>1, ActiveIs DEF AtLine
    <3>6. Commands(s, upload[c].image, peer[c], hasty[c])
      BY <3>1, <3>5 DEF Streams, Conn, Good
    <3>7. 1 \in 1..Len(s)
      BY <3>2, <3>4
    <3> QED
      BY <3>4, <3>6, <3>7 DEF Commands
  <2>2. ASSUME pc[c] \in {"write", "count"} PROVE Range(Chunk(c)) \subseteq Bytes
    <3>1. Chunk(c) \in Seq(Bytes)
      BY <2>2, ChunkIs
    <3> QED
      BY <3>1 DEF Range
  <2> QED
    BY <2>1, <2>2
<1> QED
  BY <1>1, SpecIInv, PTL

(* A connection in recv whose patient peer has sent everything always      *)
(* finds the bytes it still wants on their way (conn_pump).                *)
THEOREM Answered == Spec => []NoStall
<1>1. IInv => NoStall
  <2> SUFFICES ASSUME Streams, NEW c \in Conns, peer[c] = "sent", ~ hasty[c], pc[c] = "recv"
               PROVE  bleft[c] \in 1..Len(net[c])
    BY DEF IInv, NoStall
  <2>1. /\ Len(ibuf[c]) = 0 /\ bleft[c] <= Len(Cat(ibuf[c], net[c])) /\ bleft[c] > 0
    BY DEF Streams, Conn, Held, Good, Placed
  <2>2. /\ bleft[c] \in Nat /\ Len(net[c]) \in Nat
        /\ Len(Cat(ibuf[c], net[c])) = Len(ibuf[c]) + Len(net[c])
    BY Flat DEF Streams
  <2> QED
    BY ONLY <2>1, <2>2
<1> QED
  BY <1>1, SpecIInv, PTL

(* A session in progress belongs to a connection that is there and ends it *)
(* with its own end, so no broken upload locks later ones out (upgrade.c,  *)
(* conn_thread).                                                           *)
THEOREM Ownership == Spec => []SessionOwned
<1>1. IInv => SessionOwned
  BY UploadAssumption DEF IInv, Sess, Owned, Active, SessionOwned
<1> QED
  BY <1>1, SpecIInv, PTL

(* The digest of a session's bytes, taken as far as they are counted.      *)
LEMMA DigestIsOf ==
  ASSUME UpTyped, HashSound, g_up.in_progress, g_up.sha # NoSha, ~ stolen, pc[owner] # "count"
  PROVE  sha256_final(g_up.hc) = Digest(new)
<1>1. Taken(g_up.hc, new, Len(new) - 0)
  BY DEF HashSound, Uncounted
<1>2. new \in Seq(Nat)
  BY DEF UpTyped
<1>3. Len(new) - 0 = Len(new)
  BY <1>2
<1>4. Cut(g_up.hc, new, Len(new)) /\ g_up.hc.bitlen = 8 * Len(new)
  BY <1>1, <1>3, Zenon DEF Taken
<1> QED
  BY <1>2, <1>4, FinalIs

(* At any moment between two chunks the running digest is the SHA-256 of   *)
(* the bytes in the file, however recv cut the upload (upgrade_write,      *)
(* sha256_update).                                                         *)
THEOREM DigestCorrect == Spec => []DigestOfUpload
<1>1. IInv => DigestOfUpload
  BY DigestIsOf DEF IInv, Sess, DigestOfUpload
<1> QED
  BY <1>1, SpecIInv, PTL

Installs(c) == /\ new = upload[c].image
               /\ SubSeq(new, 1, Len(Magic)) = Magic
               /\ upload[c].sha \in {NoSha, Digest(new)}

(* upgrade_finish renames the file only if it is the upload.               *)
LEMMA FinishInstalls ==
  ASSUME IInv, NEW c \in Conns, FinishUpgrade(c), pc'[c] = "exec", ~stolen'
  PROVE  Installs(c)
<1>1. ConnTyped /\ UpTyped /\ Undisturbed /\ SessionData /\ HashSound
  BY DEF IInv, Streams, Sess
<1>2. pc[c] = "finish" /\ mode[c] = "upgrade" /\ Finish(c)
  BY <1>1 DEF FinishUpgrade, Goto, ConnTyped
<1>3. g_up.in_progress /\ ~stolen /\ owner = c /\ Checked
  BY <1>1, <1>2 DEF Finish, UpTyped
<1>4. Active(c) /\ Uncounted(c) = 0 /\ bleft[c] = 0
  <2>1. bleft[c] = 0
    BY <1>2 DEF IInv, Streams, Conn, Good, Placed
  <2> QED
    BY <1>2, <2>1 DEF Active, Uncounted
<1>5. PICK im, sh : im = upload[c].image /\ sh = upload[c].sha
  OBVIOUS
<1>6. Data(g_up, new, 0, 0, im, sh)
  BY <1>1, <1>3, <1>4, <1>5 DEF SessionData
<1>7. im \in Seq(Nat) /\ new \in Seq(Nat) /\ Magic \in Seq(Nat) /\ g_up.first4 \in Seq(Nat)
  <2>1. im \in Seq(Nat)
    BY <1>1, <1>5, OffersAre DEF ConnTyped
  <2> QED
    BY <1>1, <2>1, UploadAssumption DEF UpTyped, IsSession
<1>8. /\ Len(new) = Len(im) /\ Starts(new, im)
  BY <1>6, <1>7 DEF Data
<1>9. new = im
  BY <1>7, <1>8, SameSeq DEF Starts
<1>10. g_up.first4 = Magic /\ Starts(g_up.first4, new)
  BY <1>3, <1>6 DEF Checked, NotElf, Data
<1>11. SubSeq(new, 1, Len(Magic)) = Magic
  <2>1. Len(Magic) <= Len(new) /\ \A i \in 1..Len(Magic) : Magic[i] = new[i]
    BY <1>10 DEF Starts
  <2>2. PICK p : p = SubSeq(new, 1, Len(Magic))
    OBVIOUS
  <2>3. Len(Magic) \in Nat /\ Len(new) \in Nat
    BY <1>7
  <2>4. p \in Seq(Nat) /\ Len(p) = Len(Magic) /\ \A i \in 1..Len(Magic) : p[i] = new[i]
    BY <1>7, <2>1, <2>2, <2>3
  <2>5. p = Magic
    BY ONLY <1>7, <2>1, <2>4, SameSeq
  <2> QED
    BY <2>2, <2>5
<1>12. sh # NoSha => sh = Digest(new)
  <2> SUFFICES ASSUME sh # NoSha PROVE sh = Digest(new)
    OBVIOUS
  <2>1. g_up.sha = sh
    BY <1>6 DEF Data
  <2>2. sha256_final(g_up.hc) = g_up.sha
    BY <1>3, <2>1 DEF Checked, ShaMismatch
  <2>3. sha256_final(g_up.hc) = Digest(new)
    BY <1>1, <1>2, <1>3, <2>1, DigestIsOf
  <2> QED
    BY <2>1, <2>2, <2>3
<1> QED
  BY <1>5, <1>9, <1>11, <1>12 DEF Installs

(* upgrade_finish replaces the program only by all the finishing           *)
(* connection sent, an ELF file, with the announced digest, unless another *)
(* connection meddled (README:28).                                         *)
THEOREM Installed == Spec => InstallsWhatWasSent
<1>1. IInv /\ [Next]_vars =>
        [\A c \in Conns : FinishUpgrade(c) /\ pc'[c] = "exec" /\ ~stolen' =>
           /\ new = upload[c].image
           /\ SubSeq(new, 1, Len(Magic)) = Magic
           /\ upload[c].sha \in {NoSha, Digest(new)}]_vars
  BY FinishInstalls DEF Installs
<1> QED
  BY <1>1, SpecIInv, PTL DEF Spec, InstallsWhatWasSent
=============================================================================
