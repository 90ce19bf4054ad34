----------------------------- MODULE MCFirewall -----------------------------
(* Three rules that overlap, one line with a mistake in it, and frames     *)
(* each of them decides differently.                                       *)
EXTENDS Firewall

Text(a, ip, p, d, k) == [action |-> a, ip |-> ip, proto |-> p, sport |-> ANY,
                         dport |-> d, keyword |-> k]
Subnet == Text("drop", <<<<"cidr", 3, 1>>>>, ANY, ANY, "")
Host == Text("allow", <<<<"any", 0, 0>>, <<"host", 1, 0>>>>, ANY, ANY, "")
Web == Text("drop", << >>, TCP, 80, "kw")
Deny == Text("deny", <<<<"host", 1, 0>>>>, ANY, ANY, "")

MCWords == {"", "kw"}

Line(s, t) == [section |-> s, text |-> t]
MCCommands == {Host, Web, Deny}
MCFiles == {<<Line("filter", Subnet), Line("firewall", Deny)>>,
            <<Line("firewall", Web), Line("firewall", Host),
              Line("firewall", Subnet)>>}

Frame(s, d, p, len, words) ==
  [sip |-> s, dip |-> d, proto |-> p, len |-> len, ihl |-> 20, sport |-> 1,
   dport |-> 80, frag |-> 0, doff |-> 20, words |-> words]
MCFrames == {Frame(3, 1, TCP, 60, {"kw"}), Frame(2, 1, UDP, 60, {}),
             Frame(0, 2, TCP, 60, {"kw"}), Frame(3, 2, TCP, 40, {"kw"})}

Symmetry == Permutations(Admins)
=============================================================================
