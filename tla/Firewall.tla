------------------------------ MODULE Firewall ------------------------------
(***************************************************************************)
(* The rule table of firewall.c and what becomes of it in a save and a     *)
(* reload (config.c).  Workers decide frames, and the commands addfw,      *)
(* delfw, save, reload and putconf run in the terminal's thread and in one *)
(* per TCP connection.                                                     *)
(*                                                                         *)
(* fw_add, fw_del, fw_clear and fw_check hold the rwlock from end to end:  *)
(* one step each.  config_serialize holds none: it loads the count, then   *)
(* for each rule its action and its other fields.  Frames are IPv4.  A     *)
(* line of text is the record of its clauses, an address in it a tuple     *)
(* <<form, address, length>>.  The temporary file of a save, which         *)
(* concurrent saves share, is left out.                                    *)
(* AddPast, ClearNot, PlainCidr and LastLine are slips the properties are  *)
(* tried against; no action uses them.                                     *)
(***************************************************************************)
EXTENDS Cidr, Sequences, FiniteSetsExt, SequencesExt

CONSTANTS Admins,       \* threads that run commands
          Commands,     \* texts given to addfw
          Files,        \* contents of router.conf, at first or from putconf
          Frames,       \* frames to decide
          Words,        \* keywords of rules, none included
          MAX_RULE,
          MaxCommands   \* bound: commands begun in a behaviour

NoWord == ""            \* a keyword that is not given

(* The text of a rule, with its clauses for addresses, and a line.  Any    *)
(* other word where the action should be is like `deny'.                   *)
Texts == [action : {"drop", "allow", "deny"},
          ip : Seq({"any", "host", "cidr"} \X Addrs \X Lens),
          proto : Int, sport : Int, dport : Int, keyword : Words]
Lines == [section : {"firewall", "filter"}, text : Texts]

ASSUME FirewallAssumption == /\ MAX_RULE \in Nat \ {0} /\ MaxCommands \in Nat
                             /\ NoWord \in Words
                             /\ Commands \subseteq Texts /\ Files \subseteq Seq(Lines)

Slots == 0..(MAX_RULE - 1)
ANY == -1               \* PROTO_ANY, and a port that is not given; a negative
                        \* one that is given is some number below it
Ports == {ANY} \cup 0..65535
TCP == 6
UDP == 17
MinFrame == 34          \* Ethernet header and shortest IP header

VARIABLES g_rules, g_n,     \* the rules; slots from g_n on keep old ones
          file,             \* router.conf, section and text of each line
          at,               \* operators: what comes next
          n, part, lines,   \* config_serialize: count, action read, lines made
          todo,             \* config_load: lines not read yet
          begun,            \* commands begun, for the bound
          base, calm        \* auxiliary: the rules the command should end
                            \* with; nobody interfered with it so far

tvars == <<g_rules, g_n>>
svars == <<n, part, lines>>
fwvars == <<tvars, file, at, svars, todo, begun, base, calm>>

Table == [i \in 1..g_n |-> g_rules[i - 1]]
-----------------------------------------------------------------------------
(* rule_match: every condition the rule states holds of the frame.  Ports  *)
(* and payload are looked for only where the frame is long enough; a       *)
(* keyword only in an unfragmented frame or a first fragment.              *)
L4(f) == 14 + f.ihl
Payload(f) == L4(f) + (IF f.proto = TCP THEN f.doff ELSE 8)
Within(a, ip) == Net(ip, a.len) = a.ip
Wants(p, v) == p = ANY \/ p = v

rule_match(r, f) ==
  /\ f.len >= MinFrame /\ f.ihl \in 20..(f.len - 14)
  /\ r.sip.len # 0 => Within(r.sip, f.sip)
  /\ r.dip.len # 0 => Within(r.dip, f.dip)
  /\ Wants(r.proto, f.proto)
  /\ (r.sport # ANY \/ r.dport # ANY) =>
        /\ f.proto \in {TCP, UDP}
        /\ L4(f) + 4 <= f.len
        /\ Wants(r.sport, f.sport) /\ Wants(r.dport, f.dport)
  /\ r.keyword # NoWord =>
        /\ f.frag = 0
        /\ f.proto \in {TCP, UDP}
        /\ f.proto = TCP => L4(f) + 13 <= f.len
        /\ Payload(f) <= f.len
        /\ r.keyword \in f.words

(* fw_check on a list of rules: the first that matches, else allow. *)
fw_check(rules, f) ==
  LET hits == {i \in DOMAIN rules : rule_match(rules[i], f)}
  IN IF hits = {} THEN "allow" ELSE rules[Min(hits)].action
-----------------------------------------------------------------------------
(* Text to rule: no clause is a wildcard; at most one rule from a line.    *)
(* A third address is a word that no clause begins with.                   *)
Wild == [ip |-> 0, len |-> 0]
parse_cidr(t) == CASE t[1] = "any" -> Wild
                   [] t[1] = "host" -> [ip |-> Net(t[2], W), len |-> W]
                   [] t[1] = "cidr" -> [ip |-> Net(t[2], t[3]), len |-> t[3]]
Clause(ts, i) == IF i \in DOMAIN ts THEN parse_cidr(ts[i]) ELSE Wild

fw_parse_rule(t) ==
  IF /\ t.action \in {"drop", "allow"} /\ Len(t.ip) <= 2
     /\ t.sport \in Ports /\ t.dport \in Ports
  THEN <<[action |-> t.action, sip |-> Clause(t.ip, 1), dip |-> Clause(t.ip, 2),
          proto |-> t.proto, sport |-> t.sport, dport |-> t.dport,
          keyword |-> t.keyword]>>
  ELSE << >>

(* The older section: an address to drop.  Text after a length is not      *)
(* looked at, text after an address without one makes it no address.       *)
Bare(t) == /\ Len(t.ip) = 1 /\ t.proto = ANY /\ t.sport = ANY /\ t.dport = ANY
           /\ t.keyword = NoWord
Address(t) == /\ t.ip # << >>
              /\ \/ t.ip[1][1] = "cidr"
                 \/ t.ip[1][1] = "host" /\ Bare(t)

parse_filter_line(t) ==
  IF ~Address(t) THEN << >>
  ELSE <<[action |-> "drop", sip |-> parse_cidr(t.ip[1]), dip |-> Wild,
          proto |-> ANY, sport |-> ANY, dport |-> ANY, keyword |-> NoWord]>>

ParseLine(l) == IF l.section = "filter" THEN parse_filter_line(l.text)
                ELSE fw_parse_rule(l.text)
RulesOf(ls) == FlattenSeq([i \in DOMAIN ls |-> ParseLine(ls[i])])

(* Rule to text: a wildcard source is written as `any' if a destination    *)
(* follows, and a full mask as no mask at all.                             *)
PlainCidr(a) == <<"cidr", a.ip, prefix_len(a.len)>>
cidr_to_str(a) == IF a.len = W THEN <<"host", a.ip, 0>> ELSE PlainCidr(a)

Source(r) == IF r.sip.len # 0 THEN <<cidr_to_str(r.sip)>>
             ELSE IF r.dip.len # 0 THEN <<<<"any", 0, 0>>>> ELSE << >>
Destination(r) == IF r.dip.len # 0 THEN <<cidr_to_str(r.dip)>> ELSE << >>

fw_rule_to_line(r) ==
  [section |-> "firewall",
   text |-> [action |-> r.action, ip |-> Source(r) \o Destination(r),
             proto |-> r.proto, sport |-> r.sport, dport |-> r.dport,
             keyword |-> r.keyword]]
-----------------------------------------------------------------------------
(* A slot before its first use: static storage, all zero. *)
Zero == [action |-> "drop", sip |-> Wild, dip |-> Wild, proto |-> 0,
         sport |-> 0, dport |-> 0, keyword |-> NoWord]

Unread == [o \in Admins |-> << >>]

(* main loaded the file, if there was one, before any thread started; if   *)
(* there was none it wrote one without rules.                              *)
FwInit == /\ file \in Files
          /\ LET found == RulesOf(file)
             IN /\ g_n = Min({Len(found), MAX_RULE})
                /\ g_rules = [s \in Slots |-> IF s < Len(found) THEN found[s + 1]
                                              ELSE Zero]
          /\ at = [o \in Admins |-> "idle"]
          /\ n = [o \in Admins |-> 0]
          /\ part = [o \in Admins |-> "none"]
          /\ begun = 0
          /\ lines = Unread /\ todo = Unread /\ base = Unread
          /\ calm = [o \in Admins |-> TRUE]

Begin(o) == at[o] = "idle" /\ begun < MaxCommands /\ begun' = begun + 1

(* o goes on to l; commands of others at one of the places are disturbed. *)
Goto(o, l) == at' = [at EXCEPT ![o] = l]
Disturb(o, places) ==
  calm' = [p \in Admins |-> calm[p] /\ (p = o \/ at[p] \notin places)]
-----------------------------------------------------------------------------
(* fw_add of the one rule of rs, if there is one and it fits. *)
AddPast == g_n <= MAX_RULE
Room == g_n < MAX_RULE
fw_add(rs) ==
  IF rs # << >> /\ Room
  THEN g_rules' = [g_rules EXCEPT ![g_n] = rs[1]] /\ g_n' = g_n + 1
  ELSE UNCHANGED tvars

addfw(o) ==
  /\ Begin(o)
  /\ \E t \in Commands : fw_add(fw_parse_rule(t))
  /\ Disturb(o, IF tvars' = tvars THEN {} ELSE {"load"})
  /\ UNCHANGED <<file, at, svars, todo, base>>

(* fw_del moves the later rules down by one; the last slot keeps its rule. *)
delfw(o) ==
  /\ Begin(o)
  /\ \E i \in 0..(g_n - 1) :
       g_rules' = [s \in Slots |-> IF i <= s /\ s + 1 < g_n THEN g_rules[s + 1]
                                   ELSE g_rules[s]]
  /\ g_n' = g_n - 1
  /\ Disturb(o, {"load", "action", "rest"})
  /\ UNCHANGED <<file, at, svars, todo, base>>
-----------------------------------------------------------------------------
(* save: config_serialize, then the file.  showcfg, getconf and the UDP    *)
(* query only serialize, which is a save that fails.                       *)
Count(o) ==
  /\ Begin(o)
  /\ n' = [n EXCEPT ![o] = g_n]
  /\ base' = [base EXCEPT ![o] = Table]
  /\ calm' = [calm EXCEPT ![o] = TRUE]
  /\ Goto(o, "action")
  /\ UNCHANGED <<tvars, file, part, lines, todo>>

Here(o) == Len(lines[o])
MoreRules(o) == Here(o) < n[o] /\ Here(o) < g_n

ReadAction(o) ==
  /\ at[o] = "action" /\ MoreRules(o)
  /\ part' = [part EXCEPT ![o] = g_rules[Here(o)].action]
  /\ Goto(o, "rest")
  /\ UNCHANGED <<tvars, file, n, lines, todo, base, calm, begun>>

ReadRest(o) ==
  /\ at[o] = "rest"
  /\ LET seen == [g_rules[Here(o)] EXCEPT !.action = part[o]]
     IN lines' = [lines EXCEPT ![o] = Append(@, fw_rule_to_line(seen))]
  /\ part' = [part EXCEPT ![o] = "none"]
  /\ Goto(o, "action")
  /\ UNCHANGED <<tvars, file, n, todo, base, calm, begun>>

Serialized(o) ==
  /\ at[o] = "action" /\ ~MoreRules(o)
  /\ Goto(o, "write")
  /\ UNCHANGED <<tvars, file, svars, todo, base, calm, begun>>

(* A failure, also that of a text beyond the buffer (config.c:142), leaves *)
(* the file as it is.                                                      *)
Write(o) ==
  /\ at[o] = "write"
  /\ file' \in {file, lines[o]}
  /\ n' = [n EXCEPT ![o] = 0]
  /\ lines' = [lines EXCEPT ![o] = << >>]
  /\ base' = [base EXCEPT ![o] = << >>]
  /\ calm' = [calm EXCEPT ![o] = TRUE]
  /\ Goto(o, "idle")
  /\ UNCHANGED <<tvars, part, todo, begun>>
-----------------------------------------------------------------------------
(* putconf replaces the file and loads it, reload loads it: fopen,         *)
(* fw_clear, then the lines in order.                                      *)
Putconf(o) ==
  /\ Begin(o)
  /\ file' \in Files
  /\ Goto(o, "open")
  /\ UNCHANGED <<tvars, svars, todo, base, calm>>

Open(o) ==
  /\ Begin(o) \/ (at[o] = "open" /\ UNCHANGED begun)
  /\ todo' = [todo EXCEPT ![o] = file]
  /\ base' = [base EXCEPT ![o] = RulesOf(file)]
  /\ Goto(o, "clear")
  /\ UNCHANGED <<tvars, file, svars, calm>>

ClearNot == g_n
Cleared == 0
fw_clear(o) ==
  /\ at[o] = "clear"
  /\ g_n' = Cleared
  /\ calm' = [p \in Admins |->
                p = o \/ (calm[p] /\ at[p] \notin {"load", "action", "rest"})]
  /\ Goto(o, "load")
  /\ UNCHANGED <<g_rules, file, svars, todo, base, begun>>

LastLine(s) == Len(s)
NextLine(s) == 1
LoadLine(o) ==
  /\ at[o] = "load" /\ todo[o] # << >>
  /\ fw_add(ParseLine(todo[o][NextLine(todo[o])]))
  /\ todo' = [todo EXCEPT ![o] = RemoveAt(@, NextLine(@))]
  /\ Disturb(o, IF tvars' = tvars THEN {} ELSE {"load"})
  /\ UNCHANGED <<file, at, svars, base, begun>>

FwLoaded(o) ==
  /\ at[o] = "load" /\ todo[o] = << >>
  /\ base' = [base EXCEPT ![o] = << >>]
  /\ calm' = [calm EXCEPT ![o] = TRUE]
  /\ Goto(o, "idle")
  /\ UNCHANGED <<tvars, file, svars, todo, begun>>
-----------------------------------------------------------------------------
Save(o) == Count(o) \/ ReadAction(o) \/ ReadRest(o) \/ Serialized(o) \/ Write(o)
Load(o) == Putconf(o) \/ Open(o) \/ fw_clear(o) \/ LoadLine(o) \/ FwLoaded(o)

(* The bound is reached: no command is given any more. *)
Spent == /\ begun = MaxCommands /\ \A o \in Admins : at[o] = "idle"
         /\ UNCHANGED fwvars

FwNext == \/ \E o \in Admins : addfw(o) \/ delfw(o) \/ Save(o) \/ Load(o)
          \/ Spent

FwSpec == FwInit /\ [][FwNext]_fwvars
-----------------------------------------------------------------------------
(* Every variable has its type, and the table keeps within its capacity.   *)
Rules == [action : {"drop", "allow"}, sip : [ip : Addrs, len : Lens],
          dip : [ip : Addrs, len : Lens], proto : Int, sport : Int, dport : Int,
          keyword : Words]
Places == {"idle", "action", "rest", "write", "open", "clear", "load"}
FwTypeOK == /\ g_rules \in [Slots -> Rules]
            /\ g_n \in 0..MAX_RULE
            /\ at \in [Admins -> Places]
            /\ n \in [Admins -> 0..MAX_RULE]
            /\ part \in [Admins -> {"none", "drop", "allow"}]
            /\ \A o \in Admins : Len(lines[o]) <= n[o]
            /\ calm \in [Admins -> BOOLEAN]

(* What config_save writes config_load reads back as the rules that stood  *)
(* when they were counted, although no lock is held, if others only added  *)
(* rules meanwhile.                                                        *)
SaveFaithful == \A o \in Admins :
  at[o] = "write" /\ calm[o] => RulesOf(lines[o]) = base[o]

(* A reload nobody interferes with ends with the rules of the file, in its *)
(* order, as many as fit, whatever the table held before.                  *)
ReloadFaithful == \A o \in Admins :
  at[o] = "load" /\ todo[o] = << >> /\ calm[o] =>
    Table = SubSeq(base[o], 1, Min({Len(base[o]), MAX_RULE}))

(* router.conf:20, first match: while such a reload adds line after line,  *)
(* workers drop no frame that the whole file allows.                       *)
ReloadOnlyOpens == \A o \in Admins :
  at[o] = "load" /\ calm[o] =>
    \A f \in Frames : fw_check(Table, f) = "drop" => fw_check(base[o], f) = "drop"
=============================================================================
