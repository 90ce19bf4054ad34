------------------------------- MODULE Sha256 -------------------------------
(***************************************************************************)
(* How sha256.c cuts a stream into blocks.  The compression of a block is  *)
(* taken as free of collisions: the eight words of the state stand for the *)
(* sequence of blocks compressed so far, and that sequence is the digest.  *)
(* Bytes are naturals; BLOCK is the 64 and LENGTH the 8 bytes of the       *)
(* length field that ends the last block.                                  *)
(***************************************************************************)
EXTENDS Integers, Sequences

CONSTANTS BLOCK, LENGTH

ASSUME BlockAssumption ==
  BLOCK \in Nat /\ LENGTH \in Nat /\ 0 < LENGTH /\ LENGTH < BLOCK

Zeros(n) == [i \in 1..n |-> 0]

(* The context: words of state, bitlen, and the buflen bytes of buf. *)
sha256_init == [state |-> <<>>, bitlen |-> 0, buf |-> <<>>]

transform(c, b) == [c EXCEPT !.state = Append(@, b), !.buf = <<>>]

(* One turn of the loop of sha256_update, over the bytes left in rest. *)
RoomWide(c) == BLOCK
Room(c) == BLOCK - Len(c.buf)

Turn(t) ==
  LET take == IF Room(t.ctx) > Len(t.rest) THEN Len(t.rest) ELSE Room(t.ctx)
      buf == t.ctx.buf \o SubSeq(t.rest, 1, take)
  IN [ctx |-> IF Len(buf) = BLOCK THEN transform(t.ctx, buf)
                                  ELSE [t.ctx EXCEPT !.buf = buf],
      rest |-> SubSeq(t.rest, take + 1, Len(t.rest))]

(* The loop runs while a byte is left; a turn takes one at least, so the   *)
(* bytes left are as many turns as it can have.                            *)
Step(t) == IF t.rest = <<>> THEN t ELSE Turn(t)
Turns(t) == LET loop[n \in 0..Len(t.rest)] == IF n = 0 THEN t ELSE Step(loop[n - 1])
            IN loop

sha256_update(c, data) ==
  Turns([ctx |-> [c EXCEPT !.bitlen = @ + 8 * Len(data)], rest |-> data])[Len(data)].ctx

(* The length, most significant byte first. *)
LengthField(bits) == [i \in 1..LENGTH |-> (bits \div 256^(LENGTH - i)) % 256]

(* Padding: a block more when the length field has no room left. *)
sha256_final(c) ==
  LET one == Append(c.buf, 128)
      full == Len(one) > BLOCK - LENGTH
      d == IF full THEN transform(c, one \o Zeros(BLOCK - Len(one))) ELSE c
      tail == IF full THEN <<>> ELSE one
  IN Append(d.state, tail \o Zeros(BLOCK - LENGTH - Len(tail)) \o LengthField(c.bitlen))
-----------------------------------------------------------------------------
(* The standard's definition, on the whole message at once: append a one   *)
(* bit, the fewest zeros that leave room for the length, and the length;   *)
(* cut into blocks.                                                        *)
Message(m) ==
  LET k == CHOOSE k \in 0..(BLOCK - 1) : (Len(m) + 1 + k + LENGTH) % BLOCK = 0
  IN m \o <<128>> \o Zeros(k) \o LengthField(8 * Len(m))

Digest(m) == LET p == Message(m)
             IN [i \in 1..(Len(p) \div BLOCK) |-> SubSeq(p, (i - 1) * BLOCK + 1, i * BLOCK)]
=============================================================================
