----------------------------- MODULE MCArpTable -----------------------------
(* Two addresses in different buckets, each behind two interfaces, and two *)
(* slots: keys collide, are evicted from another bucket, age and are       *)
(* refreshed.  MACs and interfaces are interchangeable.                    *)
EXTENDS ArpTable, TLC

MCHash == [i \in Ips |-> i % 2]
Symmetry == Permutations(Macs) \cup Permutations(Ifs)
=============================================================================
