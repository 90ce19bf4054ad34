-------------------------------- MODULE Cidr --------------------------------
(***************************************************************************)
(* Addresses of W bits and prefixes, as utils.c computes with them.  Masks *)
(* are contiguous and kept as their length.                                *)
(***************************************************************************)
EXTENDS Integers

CONSTANTS W,            \* bits of an address
          ClzOfZero     \* what __builtin_clz(0), undefined, evaluates to

ASSUME CidrAssumption == W \in Nat /\ ClzOfZero \in Int

(* How many addresses share the bits before the last k: 2 ^ k. *)
Size[k \in 0..W] == IF k = 0 THEN 1 ELSE 2 * Size[k - 1]

Addrs == 0..(Size[W] - 1)
Lens == 0..W

(* a & mask, and the prefix length the code computes for a mask. *)
Net(a, l) == a - (a % Size[W - l])
prefix_len(l) == IF l = W THEN ClzOfZero ELSE l
=============================================================================
