------------------------- MODULE ConfigStoreProofs -------------------------
(* Proofs about router.conf on disk for every number of operators, every   *)
(* set of configurations and every number of writes one takes.             *)
EXTENDS ConfigStore, SequenceTheorems, TLAPS

Writers == {"save", "put"}
ThreadRec == [op : Writers \cup {"none", "load"},
              at : {"idle", "open", "read", "write", "rename", "unlink"},
              fd : Places \cup {"none", "gone"},
              off : 0..PIECES, buf : Running, calm : BOOLEAN]
FileRec == [exists : BOOLEAN, data : Contents, synced : BOOLEAN,
            by : {Nobody} \cup [op : Writers, want : Running]]

Shape == /\ life \in {"down", "starting", "up"} /\ running \in Running
         /\ saved \in Running /\ committed \in BOOLEAN
         /\ th \in [Threads -> ThreadRec] /\ file \in [Places -> FileRec]

(* Where a thread is says what it does and which handle it has; before     *)
(* main has loaded the configuration nobody else does anything; with the   *)
(* directory on disk there is no other router.conf left to write to.       *)
Steps == /\ \A t \in Threads :
              /\ th[t].op = "none" <=> th[t].at = "idle"
              /\ th[t].at \in {"open", "read"} <=> th[t].op = "load"
              /\ th[t].fd # "none" => th[t].at = "write"
              /\ th[t].fd \in Writers => th[t].fd = th[t].op
              /\ th[t].op = "put" /\ th[t].at = "write" => th[t].buf \in Uploads
         /\ life = "down" => \A t \in Threads : th[t].op = "none"
         /\ life # "up" => \A t \in Operators : th[t].op = "none"
         /\ committed => \A t \in Threads : th[t].fd # "old"

(* A thread that is calm has the temporary file of its operation to itself *)
(* and in it what it has written so far.                                   *)
Prefix(v, n) == [i \in 1..n |-> v]
Alone == \A t \in Threads : th[t].calm /\ th[t].at \notin {"idle", "unlink"}
                              => Rivals(t, th[t].op) = {}
Progress ==
  \A t \in Threads : th[t].calm =>
    /\ th[t].at = "write" => /\ th[t].fd = th[t].op
                             /\ file[th[t].op].data = Prefix(th[t].buf, th[t].off)
    /\ th[t].at = "rename" => /\ file[th[t].op].data = Config(th[t].buf)
                              /\ th[t].op = "save" => file["save"].synced

(* What a calm thread installed is whole, on disk if it was a save, and    *)
(* out of reach of every handle; so is what power would bring back.        *)
Installed == \A p \in {"conf", "old"} : file[p].by # Nobody =>
                /\ file[p].data = Config(file[p].by.want)
                /\ file[p].by.op = "save" => file[p].synced
                /\ \A t \in Threads : th[t].fd # p

(* What a restart must find, the text of what was saved, is in             *)
(* router.conf, and in the hands of a thread that reloads it into an empty *)
(* configuration; otherwise what was saved is running.                     *)
Reading == {t \in Threads : th[t].at = "read"}
Kept == saved # Empty =>
          /\ file["conf"].exists /\ file["conf"].by = [op |-> "save", want |-> Text(saved)]
          /\ \A t \in Reading : th[t].buf = Text(saved) /\ (th[t].calm => running = Empty)
          /\ life = "starting" => th[Main].op = "load"
          /\ life = "up" /\ Reading = {} => running = saved

Inv == Shape /\ Steps /\ Alone /\ Progress /\ Installed /\ Kept
-----------------------------------------------------------------------------
(* Data: what a file holds, and what a write in order makes of it.         *)
Pieced == Versions \cup {Odd}

LEMMA MaxOfTwo == ASSUME NEW k \in Nat, NEW n \in Nat
                  PROVE  Max({k, n}) \in {k, n} /\ Max({k, n}) >= k /\ Max({k, n}) >= n
<1>1. \E x \in {k, n} : \A y \in {k, n} : x >= y
  OBVIOUS
<1> QED
  BY <1>1 DEF Max

LEMMA LenContents == ASSUME NEW n \in 0..PIECES, NEW d \in [1..n -> Pieced]
                     PROVE  d \in Contents /\ Len(d) = n
<1>1. d \in Contents
  BY DEF Contents, Pieced
<1>2. d \in Seq(Pieced)
  BY SeqDef, StoreAssumption
<1>3. Len(d) \in Nat /\ DOMAIN d = 1..Len(d)
  BY <1>2, LenProperties
<1>4. n \in Nat /\ 1..n = 1..Len(d)
  BY <1>3, StoreAssumption
<1>5. Len(d) = n
  BY <1>3, <1>4
<1> QED
  BY <1>1, <1>5

LEMMA ContentsLen == ASSUME NEW d \in Contents
                     PROVE  Len(d) \in 0..PIECES /\ d \in [1..Len(d) -> Pieced]
<1>1. PICK n \in 0..PIECES : d \in [1..n -> Pieced]
  BY DEF Contents, Pieced
<1> QED
  BY <1>1, LenContents

LEMMA PrefixFacts ==
  ASSUME NEW v \in Pieced, NEW n \in 0..PIECES
  PROVE  Prefix(v, n) \in Contents /\ Len(Prefix(v, n)) = n
<1>1. Prefix(v, n) \in [1..n -> Pieced]
  BY DEF Prefix
<1> QED
  BY <1>1, LenContents

(* Nothing written yet. *)
LEMMA PrefixZero == ASSUME NEW v PROVE Prefix(v, 0) = <<>>
<1>1. 1..0 = {}
  OBVIOUS
<1>2. Prefix(v, 0) \in Seq({v}) /\ DOMAIN Prefix(v, 0) = {}
  BY <1>1, SeqDef DEF Prefix
<1> QED
  BY <1>2, EmptySeq

LEMMA ConfigFacts ==
  ASSUME NEW v \in Running
  PROVE  /\ Config(v) \in Contents
         /\ Len(Config(v)) = IF v = Empty THEN 0 ELSE PIECES
         /\ Config(v) = Prefix(v, Len(Config(v)))
         /\ v # Empty => v \in Pieced
<1> USE StoreAssumption
<1>1. CASE v = Empty
  <2>1. Config(v) = Prefix(v, 0)
    BY <1>1, PrefixZero DEF Config
  <2>2. Odd \in Pieced /\ 0 \in 0..PIECES
    BY DEF Pieced
  <2>3. <<>> \in Contents /\ Len(<<>>) = 0
    BY <2>2, PrefixFacts, PrefixZero
  <2> QED
    BY <1>1, <2>1, <2>3, PrefixZero
<1>2. CASE v # Empty
  <2>1. v \in Pieced /\ PIECES \in 0..PIECES
    BY <1>2 DEF Pieced, Running
  <2>2. Config(v) = Prefix(v, PIECES)
    BY <1>2 DEF Config, Prefix
  <2> QED
    BY <1>2, <2>1, <2>2, PrefixFacts
<1> QED
  BY <1>1, <1>2

(* What a configuration reads back as is one, and reads back as itself.    *)
LEMMA TextFacts ==
  ASSUME NEW v \in Running
  PROVE  Text(v) \in Running /\ Text(Text(v)) = Text(v) /\ (Text(v) = Empty <=> v = Empty)
<1>1. CASE v \in Versions
  <2>1. Reread[v] \in Versions /\ Reread[Reread[v]] = Reread[v] /\ Empty \notin Versions
    BY <1>1, StoreAssumption
  <2> QED
    BY <1>1, <2>1 DEF Text, Running
<1>2. CASE v \notin Versions
  BY <1>2 DEF Text
<1> QED
  BY <1>1, <1>2

(* A write anywhere keeps a file within its size; the next write of a      *)
(* thread that is alone with the file appends to what it wrote.            *)
LEMMA WriteFacts ==
  ASSUME NEW d \in Contents, NEW k \in 1..PIECES, NEW v \in Pieced
  PROVE  /\ WriteAt(d, k, v) \in Contents
         /\ d = Prefix(v, k - 1) => WriteAt(d, k, v) = Prefix(v, k)
<1> USE StoreAssumption
<1> DEFINE m == Max({k, Len(d)})
<1>1. Len(d) \in 0..PIECES /\ d \in [1..Len(d) -> Pieced]
  BY ContentsLen
<1>2. m \in {k, Len(d)} /\ m >= k /\ m >= Len(d) /\ m \in 0..PIECES
  BY <1>1, MaxOfTwo
<1> HIDE DEF m
<1>3. WriteAt(d, k, v) = [i \in 1..m |-> IF i = k THEN v ELSE IF i <= Len(d) THEN d[i] ELSE Odd]
  BY DEF WriteAt, m
<1>4. WriteAt(d, k, v) \in [1..m -> Pieced]
  <2>0. m \in Nat /\ Len(d) \in Nat
    <3>1. \A n \in 0..PIECES : n \in Nat
      OBVIOUS
    <3>2. Len(d) \in 0..PIECES
      BY <1>1
    <3> QED
      BY <1>2, <3>1, <3>2
  <2>1. \A i \in 1..m : i # k /\ i <= Len(d) => d[i] \in Pieced
    <3> SUFFICES ASSUME NEW i \in 1..m, i <= Len(d) PROVE d[i] \in Pieced
      OBVIOUS
    <3>2. i \in 1..Len(d)
      BY <2>0
    <3> QED
      BY <1>1, <3>2
  <2>2. \A i \in 1..m : (IF i = k THEN v ELSE IF i <= Len(d) THEN d[i] ELSE Odd) \in Pieced
    BY <2>1 DEF Pieced
  <2> QED
    BY <1>3, <2>2
<1>5. ASSUME d = Prefix(v, k - 1) PROVE WriteAt(d, k, v) = Prefix(v, k)
  <2>1. Len(d) = k - 1
    BY <1>5, PrefixFacts
  <2>2. m = k
    BY <1>2, <2>1
  <2>3. \A i \in 1..k : i # k => i <= Len(d) /\ d[i] = v
    BY <1>5, <2>1 DEF Prefix
  <2> QED
    BY <1>3, <2>2, <2>3 DEF Prefix
<1> QED
  BY <1>2, <1>4, <1>5, LenContents

(* Every configuration is read back as itself. *)
LEMMA ParsedFacts ==
  ASSUME NEW v \in Running PROVE Parsed(Config(v)) = v
<1> USE StoreAssumption
<1>1. \A u \in Running : Config(u) = Config(v) => u = v
  <2> SUFFICES ASSUME NEW u \in Running, Config(u) = Config(v) PROVE u = v
    OBVIOUS
  <2>1. u = Empty <=> v = Empty
    BY ConfigFacts
  <2>2. CASE u # Empty
    <3>1. Config(u)[1] = u /\ Config(v)[1] = v
      BY <2>1, <2>2 DEF Config
    <3> QED
      BY <3>1
  <2> QED
    BY <2>1, <2>2
<1> QED
  BY <1>1 DEF Parsed

LEMMA ParsedType == ASSUME NEW d PROVE Parsed(d) \in Running
BY DEF Parsed, Running
-----------------------------------------------------------------------------
(* Threads: what renaming, removing and beginning do to all of them.       *)
Others(f, g) == \A t \in Threads : /\ g[t].op = f[t].op /\ g[t].at = f[t].at
                                   /\ g[t].off = f[t].off /\ g[t].buf = f[t].buf
                                   /\ g[t].calm = f[t].calm

LEMMA FollowFacts ==
  ASSUME NEW f \in [Threads -> ThreadRec], NEW to, \A p \in DOMAIN to : to[p] \in Places \cup {"gone"}
  PROVE  /\ Follow(f, to) \in [Threads -> ThreadRec] /\ Others(f, Follow(f, to))
         /\ \A t \in Threads : Follow(f, to)[t].fd = IF f[t].fd \in DOMAIN to THEN to[f[t].fd]
                                                     ELSE f[t].fd
<1> DEFINE g == Follow(f, to)
<1>1. /\ DOMAIN f = Threads
      /\ \A t \in Threads : g[t] = IF f[t].fd \in DOMAIN to
                                   THEN [f[t] EXCEPT !.fd = to[f[t].fd]] ELSE f[t]
      /\ g = [t \in Threads |-> g[t]]
  BY DEF Follow
<1> HIDE DEF g
<1>2. ASSUME NEW t \in Threads
      PROVE  /\ g[t] \in ThreadRec
             /\ g[t].op = f[t].op /\ g[t].at = f[t].at /\ g[t].off = f[t].off
             /\ g[t].buf = f[t].buf /\ g[t].calm = f[t].calm
             /\ g[t].fd = IF f[t].fd \in DOMAIN to THEN to[f[t].fd] ELSE f[t].fd
  <2>1. f[t] \in ThreadRec
    OBVIOUS
  <2> QED
    BY <1>1, <2>1 DEF ThreadRec
<1>3. g \in [Threads -> ThreadRec]
  BY <1>1, <1>2
<1> QED
  BY <1>2, <1>3 DEF g, Others

LEMMA InstallFacts ==
  ASSUME NEW op \in Writers, NEW by \in {Nobody} \cup [op : Writers, want : Running],
         NEW f \in [Threads -> ThreadRec], Shape, Install(op, by, f)
  PROVE  /\ th' \in [Threads -> ThreadRec] /\ Others(f, th')
         /\ \A t \in Threads : th'[t].fd = IF f[t].fd = "conf"
                                           THEN (IF committed THEN "old" ELSE "gone")
                                           ELSE IF f[t].fd = op THEN "conf" ELSE f[t].fd
         /\ file' \in [Places -> FileRec] /\ file[op].exists
         /\ file'["conf"].exists = file[op].exists /\ file'["conf"].data = file[op].data
         /\ file'["conf"].synced = file[op].synced /\ file'["conf"].by = by
         /\ file'["old"] = IF committed THEN file["conf"] ELSE file["old"]
         /\ \A p \in Writers \ {op} : file'[p] = file[p]
         /\ committed' = FALSE
<1> DEFINE to == [p \in {"conf", op} |->
                    IF p = "conf" THEN (IF committed THEN "old" ELSE "gone") ELSE "conf"]
<1>1. /\ DOMAIN to = {"conf", op} /\ \A p \in DOMAIN to : to[p] \in Places \cup {"gone"}
      /\ to["conf"] = (IF committed THEN "old" ELSE "gone") /\ to[op] = "conf"
  BY DEF Writers, Places
<1>2. th' = Follow(f, to)
  BY DEF Install, Temp
<1> HIDE DEF to
<1>3. /\ th' \in [Threads -> ThreadRec] /\ Others(f, th')
      /\ \A t \in Threads : th'[t].fd = IF f[t].fd = "conf"
                                        THEN (IF committed THEN "old" ELSE "gone")
                                        ELSE IF f[t].fd = op THEN "conf" ELSE f[t].fd
  BY <1>1, <1>2, FollowFacts
<1>4. /\ file' = [file EXCEPT !["conf"] = [file[op] EXCEPT !.by = by],
                              !["old"] = IF committed THEN file["conf"] ELSE @,
                              ![op] = NoFile]
      /\ file[op].exists /\ committed' = FALSE
  BY DEF Install, Temp
<1>5. NoFile \in FileRec
  <2>1. <<>> \in Contents
    BY PrefixFacts, PrefixZero, StoreAssumption DEF Pieced
  <2> QED
    BY <2>1 DEF NoFile, FileRec
<1>6. file \in [Places -> FileRec] /\ op \in Places /\ op \notin {"conf", "old"}
      /\ "conf" \in Places /\ "old" \in Places /\ Writers \subseteq Places
  BY DEF Shape, Writers, Places
<1>7. file[op] \in FileRec /\ [file[op] EXCEPT !.by = by] \in FileRec
  <2>1. file[op] \in FileRec
    BY <1>6
  <2> QED
    BY <2>1 DEF FileRec
<1>8. file' \in [Places -> FileRec]
  BY <1>4, <1>5, <1>6, <1>7
<1>9. /\ file'["conf"] = [file[op] EXCEPT !.by = by]
      /\ file'["old"] = IF committed THEN file["conf"] ELSE file["old"]
      /\ \A p \in Writers \ {op} : file'[p] = file[p]
  BY <1>4, <1>6 DEF Writers
<1>10. /\ file'["conf"].exists = file[op].exists /\ file'["conf"].data = file[op].data
       /\ file'["conf"].synced = file[op].synced /\ file'["conf"].by = by
  BY <1>7, <1>9 DEF FileRec
<1> QED
  BY <1>3, <1>4, <1>8, <1>9, <1>10

LEMMA RemoveFacts ==
  ASSUME NEW place \in Places, NEW f \in [Threads -> ThreadRec], Shape, Remove(place, f)
  PROVE  /\ th' \in [Threads -> ThreadRec] /\ Others(f, th')
         /\ \A t \in Threads : th'[t].fd = IF f[t].fd = place THEN "gone" ELSE f[t].fd
         /\ file' \in [Places -> FileRec] /\ file'[place] = NoFile
         /\ \A p \in Places \ {place} : file'[p] = file[p]
<1> DEFINE to == [p \in {place} |-> "gone"]
<1>1. DOMAIN to = {place} /\ \A p \in DOMAIN to : to[p] = "gone"
  OBVIOUS
<1>2. th' = Follow(f, to) /\ file' = [file EXCEPT ![place] = NoFile]
  BY DEF Remove
<1> HIDE DEF to
<1>3. NoFile \in FileRec
  <2>1. <<>> \in Contents
    BY PrefixFacts, PrefixZero, StoreAssumption DEF Pieced
  <2> QED
    BY <2>1 DEF NoFile, FileRec
<1>4. /\ th' \in [Threads -> ThreadRec] /\ Others(f, th')
      /\ \A t \in Threads : th'[t].fd = IF f[t].fd = place THEN "gone" ELSE f[t].fd
  BY <1>1, <1>2, FollowFacts
<1> QED
  BY <1>2, <1>3, <1>4 DEF Shape

LEMMA BegunFacts ==
  ASSUME NEW t \in Threads, NEW r \in ThreadRec, Shape
  PROVE  /\ Begun(t, r) \in [Threads -> ThreadRec]
         /\ Begun(t, r)[t].op = r.op /\ Begun(t, r)[t].at = r.at /\ Begun(t, r)[t].fd = r.fd
         /\ Begun(t, r)[t].off = r.off /\ Begun(t, r)[t].buf = r.buf
         /\ Begun(t, r)[t].calm => Rivals(t, r.op) = {}
         /\ \A u \in Threads \ {t} :
              /\ Begun(t, r)[u].op = th[u].op /\ Begun(t, r)[u].at = th[u].at
              /\ Begun(t, r)[u].fd = th[u].fd /\ Begun(t, r)[u].off = th[u].off
              /\ Begun(t, r)[u].buf = th[u].buf
              /\ Begun(t, r)[u].calm => th[u].calm /\ th[u].op # r.op
<1> DEFINE g == Begun(t, r)
<1>1. /\ DOMAIN th = Threads /\ th \in [Threads -> ThreadRec]
      /\ g[t] = [r EXCEPT !.calm = Rivals(t, r.op) = {}]
      /\ \A u \in Threads \ {t} : g[u] = IF u \in Rivals(t, r.op)
                                         THEN [th[u] EXCEPT !.calm = FALSE] ELSE th[u]
      /\ g = [u \in Threads |-> g[u]]
  BY DEF Begun, Shape
<1> HIDE DEF g
<1>2. g[t] \in ThreadRec /\ g[t].op = r.op /\ g[t].at = r.at /\ g[t].fd = r.fd
      /\ g[t].off = r.off /\ g[t].buf = r.buf /\ (g[t].calm => Rivals(t, r.op) = {})
  BY <1>1 DEF ThreadRec
<1>3. ASSUME NEW u \in Threads \ {t}
      PROVE  /\ g[u] \in ThreadRec /\ g[u].op = th[u].op /\ g[u].at = th[u].at
             /\ g[u].fd = th[u].fd /\ g[u].off = th[u].off /\ g[u].buf = th[u].buf
             /\ g[u].calm => th[u].calm /\ th[u].op # r.op
  <2>1. th[u] \in ThreadRec
    BY <1>1
  <2>2. CASE u \in Rivals(t, r.op)
    BY <1>1, <2>1, <2>2 DEF ThreadRec
  <2>3. CASE u \notin Rivals(t, r.op)
    BY <1>1, <2>1, <2>3 DEF Rivals
  <2> QED
    BY <2>2, <2>3
<1>4. g \in [Threads -> ThreadRec]
  BY <1>1, <1>2, <1>3
<1> QED
  BY <1>2, <1>3, <1>4 DEF g

LEMMA BegunThreads ==
  ASSUME NEW t \in Threads, NEW r \in ThreadRec, Shape, th' = Begun(t, r)
  PROVE  /\ th' \in [Threads -> ThreadRec]
         /\ th'[t].op = r.op /\ th'[t].at = r.at /\ th'[t].fd = r.fd
         /\ th'[t].off = r.off /\ th'[t].buf = r.buf
         /\ th'[t].calm => Rivals(t, r.op) = {}
         /\ \A u \in Threads \ {t} :
              /\ th'[u].op = th[u].op /\ th'[u].at = th[u].at /\ th'[u].fd = th[u].fd
              /\ th'[u].off = th[u].off /\ th'[u].buf = th[u].buf
              /\ th'[u].calm => th[u].calm /\ th[u].op # r.op
<1>1. /\ DOMAIN th = Threads /\ th \in [Threads -> ThreadRec]
      /\ th'[t] = [r EXCEPT !.calm = Rivals(t, r.op) = {}]
      /\ \A u \in Threads \ {t} : th'[u] = IF u \in Rivals(t, r.op)
                                           THEN [th[u] EXCEPT !.calm = FALSE] ELSE th[u]
  BY DEF Begun, Shape
<1>2. /\ th'[t].op = r.op /\ th'[t].at = r.at /\ th'[t].fd = r.fd
      /\ th'[t].off = r.off /\ th'[t].buf = r.buf
      /\ th'[t].calm => Rivals(t, r.op) = {}
  BY <1>1 DEF ThreadRec
<1>3. ASSUME NEW u \in Threads \ {t}
      PROVE  /\ th'[u].op = th[u].op /\ th'[u].at = th[u].at /\ th'[u].fd = th[u].fd
             /\ th'[u].off = th[u].off /\ th'[u].buf = th[u].buf
             /\ th'[u].calm => th[u].calm /\ th[u].op # r.op
  <2>1. th[u] \in ThreadRec
    BY <1>1
  <2>2. CASE u \in Rivals(t, r.op)
    BY <1>1, <2>1, <2>2 DEF ThreadRec
  <2>3. CASE u \notin Rivals(t, r.op)
    BY <1>1, <2>1, <2>3 DEF Rivals
  <2> QED
    BY <2>2, <2>3
<1>4. th' \in [Threads -> ThreadRec]
  BY BegunFacts
<1> QED
  BY <1>2, <1>3, <1>4

LEMMA GotoFacts ==
  ASSUME NEW t \in Threads, NEW r \in ThreadRec, Shape, th' = [th EXCEPT ![t] = r]
  PROVE  /\ th' \in [Threads -> ThreadRec] /\ th'[t] = r
         /\ \A u \in Threads \ {t} : th'[u] = th[u]
BY DEF Shape
-----------------------------------------------------------------------------
(* What a step must respect to keep each part of the invariant.            *)
LEMMA AloneKeep ==
  ASSUME Inv, \A u \in Threads : th'[u].op \in {th[u].op, "none"},
         \A u \in Threads : th'[u].calm /\ th'[u].at \notin {"idle", "unlink"}
           => th[u].calm /\ th[u].at \notin {"idle", "unlink"} /\ th'[u].op = th[u].op
  PROVE  Alone'
<1> SUFFICES ASSUME NEW u \in Threads, th'[u].calm, th'[u].at \notin {"idle", "unlink"},
                    NEW v \in Threads \ {u}, th'[v].op = th'[u].op
             PROVE  FALSE
  BY DEF Alone, Rivals
<1>1. th[u].calm /\ th[u].at \notin {"idle", "unlink"} /\ th'[u].op = th[u].op
  OBVIOUS
<1>2. th[u].op # "none"
  BY <1>1 DEF Inv, Steps
<1>3. th[v].op # th[u].op
  BY <1>1 DEF Inv, Alone, Rivals
<1> QED
  BY <1>1, <1>2, <1>3

LEMMA AloneBegin ==
  ASSUME Inv, NEW t \in Threads, NEW r \in ThreadRec, Others(Begun(t, r), th')
  PROVE  Alone'
<1> SUFFICES ASSUME NEW u \in Threads, th'[u].calm, th'[u].at \notin {"idle", "unlink"},
                    NEW v \in Threads \ {u}, th'[v].op = th'[u].op
             PROVE  FALSE
  BY DEF Alone, Rivals
<1> DEFINE g == Begun(t, r)
<1>1. g[u].calm /\ g[u].at \notin {"idle", "unlink"} /\ g[v].op = g[u].op
  BY DEF Others
<1> HIDE DEF g
<1>2. CASE u = t
  <2>1. v \in Threads \ {t} /\ g[t].calm
    BY <1>1, <1>2
  <2>2. g[t].op = r.op
    BY BegunFacts DEF Inv, g
  <2>3. Rivals(t, r.op) = {}
    BY <2>1, BegunFacts DEF Inv, g
  <2>4. g[v].op = th[v].op
    BY <2>1, BegunFacts DEF Inv, g
  <2> QED
    BY <1>1, <1>2, <2>1, <2>2, <2>3, <2>4 DEF Rivals
<1>3. CASE v = t
  <2>1. g[v].op = r.op /\ g[u].op = th[u].op /\ th[u].op # r.op
    BY <1>1, <1>3, BegunFacts DEF Inv, g
  <2> QED
    BY <1>1, <2>1
<1>4. CASE u # t /\ v # t
  <2>1. /\ g[u].op = th[u].op /\ g[v].op = th[v].op
        /\ th[u].calm /\ th[u].at = g[u].at
    BY <1>1, <1>4, BegunFacts DEF Inv, g
  <2> QED
    BY <1>1, <2>1 DEF Inv, Alone, Rivals
<1> QED
  BY <1>2, <1>3, <1>4

LEMMA InstalledKeep ==
  ASSUME Inv, \A p \in {"conf", "old"} : file'[p] = file[p],
         \A t \in Threads : th'[t].fd \in {"conf", "old"} => th'[t].fd = th[t].fd
  PROVE  Installed'
<1> SUFFICES ASSUME NEW p \in {"conf", "old"}, file'[p].by # Nobody
             PROVE  /\ file'[p].data = Config(file'[p].by.want)
                    /\ file'[p].by.op = "save" => file'[p].synced
                    /\ \A t \in Threads : th'[t].fd # p
  BY DEF Installed
<1>1. file'[p] = file[p]
  OBVIOUS
<1>2. /\ file[p].data = Config(file[p].by.want)
      /\ file[p].by.op = "save" => file[p].synced
      /\ \A t \in Threads : th[t].fd # p
  BY <1>1 DEF Inv, Installed
<1>3. \A t \in Threads : th'[t].fd # p
  BY <1>2
<1> QED
  BY <1>1, <1>2, <1>3

LEMMA KeptKeep ==
  ASSUME Inv, \/ saved' = Empty
              \/ /\ saved' = saved /\ running' = running
                 /\ life' = life \/ (saved = Empty /\ life' = life)
                 /\ file'["conf"].exists = file["conf"].exists
                 /\ file'["conf"].by = file["conf"].by
                 /\ \A t \in Threads : /\ th'[t].at = "read" <=> th[t].at = "read"
                                       /\ th'[t].at = "read" => /\ th'[t].buf = th[t].buf
                                                                /\ th'[t].calm => th[t].calm
                 /\ life = "starting" => th'[Main].op = th[Main].op
  PROVE  Kept'
<1>1. CASE saved' = Empty
  BY <1>1 DEF Kept
<1>2. CASE saved' # Empty
  <2>1. Reading' = Reading
    BY <1>2 DEF Reading
  <2> QED
    BY <1>2, <2>1 DEF Inv, Kept, Reading
<1> QED
  BY <1>1, <1>2

(* The temporary file of an operation that others do not have is as it was. *)
LEMMA ProgressKeep ==
  ASSUME Inv, \A p \in Writers : file'[p] = file[p],
         \A t \in Threads : th'[t].calm /\ th'[t].at \in {"write", "rename"}
           => /\ th[t].calm /\ th[t].at = th'[t].at /\ th[t].op = th'[t].op
              /\ th[t].buf = th'[t].buf /\ th[t].off = th'[t].off
              /\ th[t].fd \in Writers => th'[t].fd = th[t].fd
  PROVE  Progress'
<1> SUFFICES ASSUME NEW t \in Threads, th'[t].calm
             PROVE  /\ th'[t].at = "write" => /\ th'[t].fd = th'[t].op
                                              /\ file'[th'[t].op].data = Prefix(th'[t].buf, th'[t].off)
                    /\ th'[t].at = "rename" => /\ file'[th'[t].op].data = Config(th'[t].buf)
                                               /\ th'[t].op = "save" => file'["save"].synced
  BY DEF Progress
<1> SUFFICES ASSUME th'[t].at \in {"write", "rename"}
             PROVE  /\ th'[t].at = "write" => /\ th'[t].fd = th'[t].op
                                              /\ file'[th'[t].op].data = Prefix(th'[t].buf, th'[t].off)
                    /\ th'[t].at = "rename" => /\ file'[th'[t].op].data = Config(th'[t].buf)
                                               /\ th'[t].op = "save" => file'["save"].synced
  OBVIOUS
<1>1. th[t].op \in Writers
  <2>1. th[t].at \notin {"idle", "open", "read"} /\ th[t] \in ThreadRec
    BY DEF Inv, Shape
  <2> QED
    BY <2>1 DEF Inv, Steps, ThreadRec
<1>2. "save" \in Writers
  BY DEF Writers
<1> QED
  BY <1>1, <1>2 DEF Inv, Progress
-----------------------------------------------------------------------------
LEMMA NoFileType == NoFile \in FileRec /\ NewFile \in FileRec
                    /\ NewFile.data = <<>> /\ NewFile.exists = TRUE
<1>1. <<>> \in Contents
  BY PrefixFacts, PrefixZero, StoreAssumption DEF Pieced
<1> QED
  BY <1>1 DEF NoFile, NewFile, FileRec

LEMMA IdleType == /\ Idle \in ThreadRec /\ Idle.op = "none" /\ Idle.at = "idle"
                  /\ Idle.fd = "none" /\ Idle.off = 0 /\ Idle.buf = Empty
BY StoreAssumption DEF Idle, ThreadRec, Running

LEMMA InitInv == Init => Inv
<1> SUFFICES ASSUME Init PROVE Inv
  OBVIOUS
<1>1. /\ \A t \in Threads : th[t] = Idle
      /\ \A p \in Places : file[p] = NoFile
      /\ life = "down" /\ saved = Empty /\ running = Empty
  BY DEF Init
<1>2. Shape
  BY NoFileType, IdleType DEF Init, Shape, Running
<1>3. Steps
  BY <1>1, IdleType DEF Steps, Writers, Places, Threads
<1>4. Alone /\ Progress /\ Kept
  BY <1>1, IdleType DEF Alone, Progress, Kept
<1>5. Installed
  BY <1>1 DEF Installed, Places, NoFile
<1> QED
  BY <1>2, <1>3, <1>4, <1>5 DEF Inv
-----------------------------------------------------------------------------
(* The directory reaches the disk: what power would bring back is forgotten. *)
LEMMA CommitStep == ASSUME Inv, Commit PROVE Inv'
<1>1. /\ th' \in [Threads -> ThreadRec] /\ Others(th, th')
      /\ \A t \in Threads : th'[t].fd = IF th[t].fd = "old" THEN "gone" ELSE th[t].fd
      /\ file' \in [Places -> FileRec] /\ file'["old"] = NoFile
      /\ \A p \in Places \ {"old"} : file'[p] = file[p]
  BY RemoveFacts DEF Commit, Inv, Shape, Places
<1>2. UNCHANGED <<life, running, saved>> /\ committed' = TRUE
  BY DEF Commit
<1>3. Shape'
  BY <1>1, <1>2 DEF Inv, Shape
<1>4. Steps'
  BY <1>1, <1>2 DEF Inv, Steps, Others, Writers, Threads
<1>5. Alone'
  BY <1>1, AloneKeep DEF Others
<1>6. Progress'
  BY <1>1, ProgressKeep DEF Others, Writers, Places
<1>7. Installed'
  <2>1. file'["conf"] = file["conf"] /\ \A t \in Threads : th'[t].fd = "conf" => th[t].fd = "conf"
    BY <1>1 DEF Places
  <2>2. file'["old"].by = Nobody
    BY <1>1 DEF NoFile
  <2> QED
    BY <2>1, <2>2 DEF Inv, Installed
<1>8. Kept'
  <2>1. file'["conf"] = file["conf"] /\ Main \in Threads
    BY <1>1 DEF Places, Threads
  <2> QED
    BY <1>1, <1>2, <2>1, KeptKeep DEF Others
<1> QED
  BY <1>3, <1>4, <1>5, <1>6, <1>7, <1>8 DEF Inv

(* The process is gone, and with a crash perhaps data that was not synced. *)
LEMMA EndedStep ==
  ASSUME Inv, NEW conf \in FileRec, NEW old \in FileRec, Ended(conf, old),
         saved' \in {saved, Empty}, committed' \in BOOLEAN,
         \A f \in {conf, old} : f.by # Nobody => /\ f.data = Config(f.by.want)
                                                 /\ f.by.op = "save" => f.synced,
         saved' # Empty => conf.exists /\ conf.by = [op |-> "save", want |-> Text(saved)]
  PROVE  Inv'
<1>1. /\ life' = "down" /\ running' = Empty /\ th' = [t \in Threads |-> Idle]
      /\ \A t \in Threads : th'[t] = Idle
      /\ file' \in [Places -> FileRec] /\ file'["conf"] = conf /\ file'["old"] = old
  BY NoFileType DEF Ended, Places
<1>2. Shape'
  BY <1>1, IdleType DEF Inv, Shape, Running
<1>3. Steps'
  BY <1>1, IdleType DEF Steps, Writers, Threads
<1>4. Alone' /\ Progress'
  BY <1>1, IdleType DEF Alone, Progress
<1>5. Installed'
  BY <1>1, IdleType DEF Installed
<1>6. Kept'
  BY <1>1, IdleType DEF Kept, Reading
<1> QED
  BY <1>2, <1>3, <1>4, <1>5, <1>6 DEF Inv

LEMMA StopStep == ASSUME Inv, Stop PROVE Inv'
<1>1. file["conf"] \in FileRec /\ file["old"] \in FileRec
  BY DEF Inv, Shape, Places
<1>2. \A f \in {file["conf"], file["old"]} : f.by # Nobody =>
         f.data = Config(f.by.want) /\ (f.by.op = "save" => f.synced)
  BY DEF Inv, Installed
<1>3. saved # Empty => file["conf"].exists /\ file["conf"].by = [op |-> "save", want |-> Text(saved)]
  BY DEF Inv, Kept
<1> QED
  BY <1>1, <1>2, <1>3, EndedStep DEF Stop, Inv, Shape

LEMMA CrashStep == ASSUME Inv, Crash PROVE Inv'
<1>1. PICK p \in {"conf", "old"} : p = IF committed THEN "conf" ELSE "old"
  OBVIOUS
<1> DEFINE f == file[p]
<1>2. /\ f \in FileRec
      /\ f.by # Nobody => f.data = Config(f.by.want) /\ (f.by.op = "save" => f.synced)
  BY DEF Inv, Shape, Places, Installed
<1>3. /\ Ended(f, NoFile) \/ (~f.synced /\ Ended(Lost(f), NoFile))
      /\ saved' = (IF committed THEN saved ELSE Empty) /\ committed' = TRUE
  BY <1>1 DEF Crash
<1>4. saved' # Empty => f.exists /\ f.by = [op |-> "save", want |-> Text(saved)]
  BY <1>1, <1>3 DEF Inv, Kept
<1> HIDE DEF f
<1>5. NoFile.by = Nobody
  BY DEF NoFile
<1>6. CASE Ended(f, NoFile)
  BY <1>2, <1>3, <1>4, <1>5, <1>6, NoFileType, EndedStep
<1>7. CASE ~f.synced /\ Ended(Lost(f), NoFile)
  <2>1. f.by # Nobody => f.by.op = "put"
    <3>1. f.by \in {Nobody} \cup [op : Writers, want : Running]
      BY <1>2 DEF FileRec
    <3>2. f.by # Nobody => f.by.op \in Writers
      BY <3>1
    <3> QED
      BY <1>2, <1>7, <3>2 DEF Writers
  <2>2. Lost(f).by = Nobody /\ Lost(f) \in FileRec
    <3>1. <<>> \in Contents
      BY NoFileType DEF NewFile, NoFile, FileRec
    <3> QED
      BY <1>2, <2>1, <3>1 DEF Lost, FileRec, Nobody
  <2>3. saved' = Empty
    <3>1. saved' # Empty => f.by.op = "save" /\ f.by # Nobody
      BY <1>4 DEF Nobody
    <3> QED
      BY <2>1, <3>1
  <2> QED
    BY <1>3, <1>5, <1>7, <2>2, <2>3, NoFileType, EndedStep
<1> QED
  BY <1>3, <1>6, <1>7

LEMMA BootStep == ASSUME Inv, Boot PROVE Inv'
<1> DEFINE r == [Idle EXCEPT !.op = "load", !.at = "open"]
<1>1. /\ life = "down" /\ life' = "starting" /\ running' = Default
      /\ th' = [th EXCEPT ![Main] = r] /\ UNCHANGED <<file, committed, saved>>
  BY DEF Boot
<1>2. r \in ThreadRec /\ r.op = "load" /\ r.at = "open" /\ r.fd = "none"
  BY IdleType DEF Idle, ThreadRec
<1> HIDE DEF r
<1>3. Main \in Threads /\ Main \notin Operators /\ Operators \subseteq Threads
  BY StoreAssumption DEF Threads
<1>4. /\ th' \in [Threads -> ThreadRec] /\ th'[Main] = r
      /\ \A u \in Threads \ {Main} : th'[u] = th[u]
  BY <1>1, <1>2, <1>3, GotoFacts DEF Inv
<1>5. \A u \in Threads : th[u].op = "none" /\ th[u].at = "idle" /\ th[u].fd = "none"
  BY <1>1 DEF Inv, Steps
<1>6. Shape'
  BY <1>1, <1>4, StoreAssumption DEF Inv, Shape, Running
<1>7. Steps'
  BY <1>1, <1>2, <1>3, <1>4, <1>5 DEF Steps, Writers
<1>8. Alone'
  BY <1>2, <1>4, <1>5 DEF Alone, Rivals
<1>9. Progress'
  BY <1>2, <1>4, <1>5 DEF Progress
<1>10. Installed'
  BY <1>1, <1>2, <1>4, <1>5, InstalledKeep
<1>11. Kept'
  <2>1. Reading' = {}
    BY <1>2, <1>4, <1>5 DEF Reading
  <2> QED
    BY <1>1, <1>2, <1>4, <2>1 DEF Inv, Kept
<1> QED
  BY <1>6, <1>7, <1>8, <1>9, <1>10, <1>11 DEF Inv

LEMMA ChangeStep == ASSUME Inv, NEW t \in Threads, Change(t) PROVE Inv'
<1>1. /\ running' \in Versions /\ saved' = Empty /\ UNCHANGED <<life, th, file, committed>>
  BY DEF Change
<1>2. Shape'
  BY <1>1 DEF Inv, Shape, Running
<1>3. Steps' /\ Progress' /\ Installed'
  BY <1>1 DEF Inv, Steps, Progress, Installed
<1>4. Alone'
  BY <1>1, AloneKeep
<1>5. Kept'
  BY <1>1 DEF Kept
<1> QED
  BY <1>2, <1>3, <1>4, <1>5 DEF Inv
-----------------------------------------------------------------------------
(* A save or a putconf begins, or a load that finds no file. *)
LEMMA OpenStep ==
  ASSUME Inv, NEW t \in Threads, NEW op \in Writers, NEW v \in Running, OpenW(op),
         th' = Begun(t, [Idle EXCEPT !.op = op, !.at = "write", !.buf = v, !.fd = op]),
         op = "put" => v \in Uploads,
         life # "down", life # "up" => t \notin Operators,
         UNCHANGED <<life, committed, saved>>, running' \in Running,
         saved # Empty => running' = running /\ life = "up" /\ th[t].op = "none"
  PROVE  Inv'
<1> DEFINE r == [Idle EXCEPT !.op = op, !.at = "write", !.buf = v, !.fd = op]
<1>1. /\ r \in ThreadRec /\ r.op = op /\ r.at = "write" /\ r.fd = op /\ r.off = 0 /\ r.buf = v
      /\ th' = Begun(t, r)
  BY IdleType DEF Idle, ThreadRec, Writers, Places
<1> HIDE DEF r
<1>2. /\ th' \in [Threads -> ThreadRec]
      /\ th'[t].op = op /\ th'[t].at = "write" /\ th'[t].fd = op /\ th'[t].off = 0
      /\ th'[t].buf = v
      /\ \A u \in Threads \ {t} :
           /\ th'[u].op = th[u].op /\ th'[u].at = th[u].at /\ th'[u].fd = th[u].fd
           /\ th'[u].off = th[u].off /\ th'[u].buf = th[u].buf
           /\ th'[u].calm => th[u].calm /\ th[u].op # op
  <2>1. Shape
    BY DEF Inv
  <2> QED
    BY <1>1, <2>1, BegunThreads
<1>3. /\ file' \in [Places -> FileRec] /\ file'[op] = NewFile
      /\ \A p \in Places \ {op} : file'[p] = file[p]
  BY NoFileType DEF OpenW, Temp, Inv, Shape, Writers, Places
<1>4. Shape'
  BY <1>2, <1>3 DEF Inv, Shape
<1>5. Steps'
  <2>1. \A u \in Threads \ {t} :
          /\ th'[u].op = "none" <=> th'[u].at = "idle"
          /\ th'[u].at \in {"open", "read"} <=> th'[u].op = "load"
          /\ th'[u].fd # "none" => th'[u].at = "write"
          /\ th'[u].fd \in Writers => th'[u].fd = th'[u].op
          /\ th'[u].op = "put" /\ th'[u].at = "write" => th'[u].buf \in Uploads
    BY <1>2 DEF Inv, Steps
  <2>2. \A u \in Operators : u \in Threads
    BY DEF Threads
  <2>3. life' # "up" => \A u \in Operators : th'[u].op = "none"
    BY <1>2, <2>2 DEF Inv, Steps
  <2>4. committed' => \A u \in Threads : th'[u].fd # "old"
    BY <1>2 DEF Inv, Steps, Writers
  <2> QED
    BY <1>2, <2>1, <2>3, <2>4 DEF Steps, Writers
<1>6. Alone'
  <2>1. Others(Begun(t, r), th')
    BY <1>1 DEF Others
  <2> QED
    BY <1>1, <2>1, AloneBegin
<1>7. Progress'
  <2> SUFFICES ASSUME NEW u \in Threads, th'[u].calm
               PROVE  /\ th'[u].at = "write" =>
                           th'[u].fd = th'[u].op /\ file'[th'[u].op].data = Prefix(th'[u].buf, th'[u].off)
                      /\ th'[u].at = "rename" =>
                           file'[th'[u].op].data = Config(th'[u].buf)
                           /\ (th'[u].op = "save" => file'["save"].synced)
    BY DEF Progress
  <2>1. CASE u = t
    BY <1>2, <1>3, <2>1, PrefixZero, NoFileType
  <2>2. CASE u # t /\ th[u].at \in {"write", "rename"}
    <3>1. th[u].op # op /\ th'[u].op = th[u].op /\ th[u].calm
      BY <1>2, <2>2
    <3>2. th[u].op \in Places
      <4>1. th[u].op \in Writers \cup {"none", "load"}
        BY DEF Inv, Shape, ThreadRec
      <4> QED
        BY <2>2, <4>1 DEF Inv, Steps, Writers, Places
    <3>3. file'[th[u].op] = file[th[u].op]
      BY <1>3, <3>1, <3>2
    <3>4. th[u].op = "save" => file'["save"] = file["save"]
      BY <3>3
    <3> QED
      BY <1>2, <2>2, <3>1, <3>3, <3>4 DEF Inv, Progress
  <2> QED
    BY <1>2, <2>1, <2>2
<1>8. Installed'
  <2>1. \A p \in {"conf", "old"} : file'[p] = file[p]
    BY <1>3 DEF Places, Writers
  <2>2. \A u \in Threads : th'[u].fd \in {"conf", "old"} => th'[u].fd = th[u].fd
    BY <1>2 DEF Writers
  <2> QED
    BY <2>1, <2>2, InstalledKeep
<1>9. Kept'
  <2>1. CASE saved = Empty
    BY <2>1 DEF Kept
  <2>2. CASE saved # Empty
    <3>1. file'["conf"] = file["conf"]
      BY <1>3 DEF Places, Writers
    <3>2. th[t].at = "idle"
      BY <2>2 DEF Inv, Steps
    <3>3. \A u \in Threads : /\ th'[u].at = "read" <=> th[u].at = "read"
                             /\ th'[u].at = "read" => /\ th'[u].buf = th[u].buf
                                                      /\ th'[u].calm => th[u].calm
      BY <1>2, <3>2
    <3> QED
      BY <2>2, <3>1, <3>3, KeptKeep
  <2> QED
    BY <2>1, <2>2
<1> QED
  BY <1>4, <1>5, <1>6, <1>7, <1>8, <1>9 DEF Inv

LEMMA RunningThreads ==
  ASSUME Inv, NEW t \in Threads
  PROVE  /\ th[t] \in ThreadRec /\ th[t].op \in Writers \cup {"none", "load"}
         /\ th[t].at \notin {"idle", "open", "read"} => th[t].op \in Writers
         /\ th[t].at # "idle" => life # "down" /\ (life # "up" => t \notin Operators)
<1>1. th[t] \in ThreadRec /\ th[t].op \in Writers \cup {"none", "load"}
  BY DEF Inv, Shape, ThreadRec
<1> QED
  BY <1>1 DEF Inv, Steps

LEMMA SaveBeginStep == ASSUME Inv, NEW t \in Threads, SaveBegin(t) PROVE Inv'
BY OpenStep, TextFacts DEF SaveBegin, SaveOf, Free, Temp, Writers, Inv, Shape

LEMMA PutBeginStep == ASSUME Inv, NEW t \in Threads, PutBegin(t) PROVE Inv'
<1>1. PICK v \in Uploads :
        th' = Begun(t, [Idle EXCEPT !.op = "put", !.at = "write", !.buf = v, !.fd = "put"])
  BY DEF PutBegin, Temp
<1>2. v \in Running /\ "put" \in Writers
  BY StoreAssumption DEF Running, Writers
<1>3. OpenW("put") /\ life = "up" /\ th[t].op = "none" /\ UNCHANGED <<life, running, saved, committed>>
  BY DEF PutBegin, Free, Memory
<1> QED
  BY <1>1, <1>2, <1>3, OpenStep DEF Inv, Shape

LEMMA LoadBeginStep == ASSUME Inv, NEW t \in Threads, LoadBegin(t) PROVE Inv'
<1> DEFINE r == [Idle EXCEPT !.op = "load", !.at = "open"]
<1>1. /\ r \in ThreadRec /\ r.op = "load" /\ r.at = "open" /\ r.fd = "none"
      /\ th' = Begun(t, r) /\ life = "up" /\ th[t].op = "none"
      /\ UNCHANGED <<life, running, saved, file, committed>>
  BY IdleType DEF LoadBegin, Free, Memory, Idle, ThreadRec
<1> HIDE DEF r
<1>2. /\ th' \in [Threads -> ThreadRec]
      /\ th'[t].op = "load" /\ th'[t].at = "open" /\ th'[t].fd = "none"
      /\ \A u \in Threads \ {t} :
           /\ th'[u].op = th[u].op /\ th'[u].at = th[u].at /\ th'[u].fd = th[u].fd
           /\ th'[u].off = th[u].off /\ th'[u].buf = th[u].buf
           /\ th'[u].calm => th[u].calm
  <2>1. Shape
    BY DEF Inv
  <2> QED
    BY <1>1, <2>1, BegunThreads
<1>3. Shape'
  BY <1>1, <1>2 DEF Inv, Shape
<1>4. Steps'
  BY <1>1, <1>2 DEF Inv, Steps, Writers
<1>5. Alone'
  <2>1. Others(Begun(t, r), th')
    BY <1>1 DEF Others
  <2> QED
    BY <1>1, <2>1, AloneBegin
<1>6. Progress'
  BY <1>1, <1>2, ProgressKeep
<1>7. Installed'
  <2>1. \A u \in Threads : th'[u].fd \in {"conf", "old"} => th'[u].fd = th[u].fd
    BY <1>2
  <2> QED
    BY <1>1, <2>1, InstalledKeep
<1>8. Kept'
  <2>1. th[t].at = "idle"
    BY <1>1 DEF Inv, Steps
  <2> QED
    BY <1>1, <1>2, <2>1, KeptKeep
<1> QED
  BY <1>3, <1>4, <1>5, <1>6, <1>7, <1>8 DEF Inv
-----------------------------------------------------------------------------
(* Steps of one thread that touch no file: a write or a rename that fails. *)
LEMMA FailStep == ASSUME Inv, NEW t \in Threads, Fail(t) \/ RenameFails(t) PROVE Inv'
<1> DEFINE r == [Idle EXCEPT !.op = th[t].op, !.at = "unlink"]
<1>1. /\ th[t].at \in {"write", "rename"} /\ th' = [th EXCEPT ![t] = r]
      /\ UNCHANGED <<life, running, saved, file, committed>>
  BY DEF Fail, RenameFails, Goto, Memory
<1>2. r \in ThreadRec /\ r.op = th[t].op /\ r.at = "unlink" /\ r.fd = "none"
  BY IdleType, RunningThreads DEF Idle, ThreadRec
<1>3. th[t].op \in Writers /\ Main \in Threads
  BY <1>1, RunningThreads DEF Threads
<1> HIDE DEF r
<1>4. th' \in [Threads -> ThreadRec] /\ th'[t] = r /\ \A u \in Threads \ {t} : th'[u] = th[u]
  BY <1>1, <1>2, GotoFacts DEF Inv
<1>5. Shape'
  BY <1>1, <1>4 DEF Inv, Shape
<1>6. Steps'
  BY <1>1, <1>2, <1>3, <1>4 DEF Inv, Steps, Writers, Threads
<1>7. Alone'
  BY <1>1, <1>2, <1>4, AloneKeep
<1>8. Progress'
  BY <1>1, <1>2, <1>4, ProgressKeep
<1>9. Installed'
  BY <1>1, <1>2, <1>4, InstalledKeep
<1>10. Kept'
  BY <1>1, <1>2, <1>3, <1>4, KeptKeep
<1> QED
  BY <1>5, <1>6, <1>7, <1>8, <1>9, <1>10 DEF Inv

(* A write: into its own file if the thread is calm, into whatever its     *)
(* handle leads to if not.                                                 *)
LEMMA WrittenFacts ==
  ASSUME Inv, NEW t \in Threads, th[t].at = "write", NextPiece(t) \in 1..PIECES,
         th[t].buf # Empty
  PROVE  /\ Written(t) \in [Places -> FileRec]
         /\ \A p \in Places : p # th[t].fd => Written(t)[p] = file[p]
         /\ th[t].fd \in Places =>
              /\ Written(t)[th[t].fd].data = WriteAt(file[th[t].fd].data, NextPiece(t), th[t].buf)
              /\ Written(t)[th[t].fd].by = file[th[t].fd].by
              /\ Written(t)[th[t].fd].exists = file[th[t].fd].exists
<1>1. file \in [Places -> FileRec] /\ th[t] \in ThreadRec
  BY DEF Inv, Shape
<1>2. CASE th[t].fd \notin Places
  BY <1>1, <1>2 DEF Written
<1>3. CASE th[t].fd \in Places
  <2> DEFINE q == th[t].fd
             d == WriteAt(file[q].data, NextPiece(t), th[t].buf)
  <2>1. th[t].buf \in Pieced
    BY <1>1 DEF ThreadRec, Running, Pieced
  <2>2. file[q] \in FileRec /\ file[q].data \in Contents
    BY <1>1, <1>3 DEF FileRec
  <2>3. d \in Contents
    BY <2>1, <2>2, WriteFacts
  <2>4. Written(t) = [file EXCEPT ![q] = [[file[q] EXCEPT !.data = d] EXCEPT !.synced = FALSE]]
    BY <1>1, <1>3, <2>2 DEF Written, FileRec
  <2> HIDE DEF d
  <2>5. /\ [[file[q] EXCEPT !.data = d] EXCEPT !.synced = FALSE] \in FileRec
        /\ [[file[q] EXCEPT !.data = d] EXCEPT !.synced = FALSE].data = d
        /\ [[file[q] EXCEPT !.data = d] EXCEPT !.synced = FALSE].by = file[q].by
        /\ [[file[q] EXCEPT !.data = d] EXCEPT !.synced = FALSE].exists = file[q].exists
    BY <2>2, <2>3 DEF FileRec
  <2>6. Written(t)[q] = [[file[q] EXCEPT !.data = d] EXCEPT !.synced = FALSE]
    BY <1>1, <1>3, <2>4
  <2>7. Written(t) \in [Places -> FileRec] /\ \A p \in Places : p # q => Written(t)[p] = file[p]
    BY <1>1, <1>3, <2>4, <2>5
  <2> QED
    BY <2>5, <2>6, <2>7 DEF d
<1> QED
  BY <1>2, <1>3

(* What a write, of its thread or another, leaves of the rest: no handle   *)
(* leads to a file somebody installed whole, and none to the temporary     *)
(* file of a calm thread but its own.                                      *)
LEMMA WriteElsewhere ==
  ASSUME Inv, NEW t \in Threads, th[t].at = "write", NextPiece(t) \in 1..PIECES,
         th[t].buf # Empty, file' = Written(t)
  PROVE  /\ \A p \in {"conf", "old"} : file'[p].by = file[p].by /\ file'[p].exists = file[p].exists
         /\ \A p \in {"conf", "old"} : file'[p].by # Nobody => file'[p] = file[p]
         /\ \A u \in Threads \ {t} : /\ th[u].calm /\ th[u].at \in {"write", "rename"}
                                     => file'[th[u].op] = file[th[u].op]
<1>1. /\ file' \in [Places -> FileRec]
      /\ \A p \in Places : p # th[t].fd => file'[p] = file[p]
      /\ th[t].fd \in Places => /\ file'[th[t].fd].by = file[th[t].fd].by
                                /\ file'[th[t].fd].exists = file[th[t].fd].exists
  BY WrittenFacts
<1>2. \A p \in {"conf", "old"} : p \in Places
  BY DEF Places
<1>3. \A p \in {"conf", "old"} : file'[p].by = file[p].by /\ file'[p].exists = file[p].exists
  BY <1>1, <1>2
<1>4. \A p \in {"conf", "old"} : file'[p].by # Nobody => file'[p] = file[p]
  BY <1>1, <1>2, <1>3 DEF Inv, Installed
<1>5. ASSUME NEW u \in Threads \ {t}, th[u].calm, th[u].at \in {"write", "rename"}
      PROVE  file'[th[u].op] = file[th[u].op]
  <2>1. th[u].op \in Writers
    BY <1>5, RunningThreads
  <2>2. th[t].op # th[u].op
    BY <1>5 DEF Inv, Alone, Rivals
  <2>3. th[t].fd # th[u].op
    BY <2>1, <2>2 DEF Inv, Steps
  <2> QED
    BY <1>1, <2>1, <2>3 DEF Writers, Places
<1> QED
  BY <1>3, <1>4, <1>5

LEMMA PieceFacts ==
  ASSUME Inv, NEW t \in Threads, th[t].at = "write"
  PROVE  /\ th[t].op \in Writers /\ th[t].off \in 0..PIECES /\ th[t].buf \in Running
         /\ th[t].op = "put" => th[t].buf \in Versions /\ th[t].buf # Empty
                                /\ Pieces(t) = PIECES - 1
         /\ th[t].op = "save" => Pieces(t) = Len(Config(th[t].buf))
         /\ Pieces(t) <= PIECES
         /\ th[t].off < Pieces(t) => th[t].buf # Empty /\ NextPiece(t) \in 1..PIECES
<1>1. th[t].op \in Writers /\ th[t].off \in 0..PIECES /\ th[t].buf \in Running
  BY RunningThreads DEF ThreadRec
<1>2. th[t].op = "put" => th[t].buf \in Versions /\ th[t].buf # Empty
  BY StoreAssumption DEF Inv, Steps
<1>3. Len(Config(th[t].buf)) = IF th[t].buf = Empty THEN 0 ELSE PIECES
  BY <1>1, ConfigFacts
<1>4. Pieces(t) = Len(Config(th[t].buf)) - (IF th[t].op = "put" THEN 1 ELSE 0)
  BY DEF Pieces
<1>5. PIECES \in Nat \ {0} /\ Len(Config(th[t].buf)) \in Nat
  BY <1>3, StoreAssumption
<1>6. /\ th[t].op = "put" => Pieces(t) = PIECES - 1
      /\ th[t].op = "save" => Pieces(t) = Len(Config(th[t].buf))
      /\ Pieces(t) <= PIECES
  BY <1>2, <1>3, <1>4, <1>5
<1>7. th[t].off < Pieces(t) => th[t].buf # Empty /\ NextPiece(t) \in 1..PIECES
  BY <1>1, <1>2, <1>3, <1>4, <1>5, <1>6 DEF NextPiece, Writers
<1> QED
  BY <1>1, <1>2, <1>6, <1>7

LEMMA WriteStep == ASSUME Inv, NEW t \in Threads, Write(t) PROVE Inv'
<1> DEFINE r == [th[t] EXCEPT !.off = th[t].off + 1]
<1>1. /\ th[t].at = "write" /\ th[t].off < Pieces(t) /\ th' = [th EXCEPT ![t] = r]
      /\ file' = Written(t) /\ UNCHANGED <<life, running, saved, committed>>
  BY DEF Write, Goto, Memory
<1>2. /\ th[t] \in ThreadRec /\ th[t].op \in Writers /\ th[t].off \in 0..PIECES
      /\ th[t].buf \in Running /\ th[t].buf # Empty /\ NextPiece(t) \in 1..PIECES
      /\ NextPiece(t) = th[t].off + 1
  BY <1>1, PieceFacts, RunningThreads DEF NextPiece
<1>3. /\ r \in ThreadRec /\ r.op = th[t].op /\ r.at = "write" /\ r.fd = th[t].fd
      /\ r.off = NextPiece(t) /\ r.buf = th[t].buf /\ r.calm = th[t].calm
  <2>1. th[t].off + 1 \in 0..PIECES
    BY <1>2
  <2> QED
    BY <1>1, <1>2, <2>1 DEF ThreadRec
<1> HIDE DEF r
<1>4. th' \in [Threads -> ThreadRec] /\ th'[t] = r /\ \A u \in Threads \ {t} : th'[u] = th[u]
  BY <1>1, <1>3, GotoFacts DEF Inv
<1>5. /\ file' \in [Places -> FileRec]
      /\ \A p \in {"conf", "old"} : file'[p].by = file[p].by /\ file'[p].exists = file[p].exists
      /\ \A p \in {"conf", "old"} : file'[p].by # Nobody => file'[p] = file[p]
      /\ \A u \in Threads \ {t} : /\ th[u].calm /\ th[u].at \in {"write", "rename"}
                                  => file'[th[u].op] = file[th[u].op]
  BY <1>1, <1>2, WrittenFacts, WriteElsewhere
<1>6. Shape'
  BY <1>1, <1>4, <1>5 DEF Inv, Shape
<1>7. Steps'
  BY <1>1, <1>3, <1>4 DEF Inv, Steps
<1>8. Alone'
  BY <1>1, <1>3, <1>4, AloneKeep
<1>9. Progress'
  <2> SUFFICES ASSUME NEW u \in Threads, th'[u].calm
               PROVE  /\ th'[u].at = "write" =>
                           th'[u].fd = th'[u].op /\ file'[th'[u].op].data = Prefix(th'[u].buf, th'[u].off)
                      /\ th'[u].at = "rename" =>
                           file'[th'[u].op].data = Config(th'[u].buf)
                           /\ (th'[u].op = "save" => file'["save"].synced)
    BY DEF Progress
  <2>1. CASE u = t
    <3>1. th[t].calm /\ th'[t].op = th[t].op /\ th'[t].at = "write"
      BY <1>3, <1>4, <2>1
    <3>2. /\ th[t].fd = th[t].op /\ th[t].fd \in Places
          /\ file[th[t].fd].data = Prefix(th[t].buf, th[t].off)
      BY <1>1, <1>2, <3>1 DEF Inv, Progress, Writers, Places
    <3>3. file'[th[t].fd].data = WriteAt(file[th[t].fd].data, NextPiece(t), th[t].buf)
      BY <1>1, <1>2, <3>2, WrittenFacts
    <3>4. th[t].off = NextPiece(t) - 1 /\ th[t].buf \in Pieced
      BY <1>2, ConfigFacts
    <3>5. file[th[t].fd].data \in Contents
      BY <3>2 DEF Inv, Shape, FileRec
    <3>6. file'[th[t].fd].data = Prefix(th[t].buf, NextPiece(t))
      BY <1>2, <3>2, <3>3, <3>4, <3>5, WriteFacts
    <3> QED
      BY <1>3, <1>4, <2>1, <3>1, <3>2, <3>6
  <2>2. CASE u # t /\ th[u].at \in {"write", "rename"}
    <3>1. th'[u] = th[u] /\ file'[th[u].op] = file[th[u].op]
      BY <1>4, <1>5, <2>2
    <3>2. th[u].op = "save" => file'["save"] = file["save"]
      BY <3>1
    <3> QED
      BY <3>1, <3>2 DEF Inv, Progress
  <2> QED
    BY <1>4, <2>1, <2>2
<1>10. Installed'
  <2> SUFFICES ASSUME NEW p \in {"conf", "old"}, file'[p].by # Nobody
               PROVE  /\ file'[p].data = Config(file'[p].by.want)
                      /\ file'[p].by.op = "save" => file'[p].synced
                      /\ \A u \in Threads : th'[u].fd # p
    BY DEF Installed
  <2>1. file'[p] = file[p] /\ \A u \in Threads : th'[u].fd = th[u].fd
    BY <1>3, <1>4, <1>5
  <2> QED
    BY <2>1 DEF Inv, Installed
<1>11. Kept'
  <2>1. \A u \in Threads : /\ th'[u].at = th[u].at /\ th'[u].buf = th[u].buf
                           /\ th'[u].calm = th[u].calm /\ th'[u].op = th[u].op
    BY <1>1, <1>3, <1>4
  <2>2. Main \in Threads
    BY DEF Threads
  <2> QED
    BY <1>1, <1>5, <2>1, <2>2, KeptKeep
<1> QED
  BY <1>6, <1>7, <1>8, <1>9, <1>10, <1>11 DEF Inv

LEMMA ClosedFacts ==
  ASSUME Inv, NEW t \in Threads, th[t].at = "write"
  PROVE  /\ Closed(t) \in ThreadRec /\ Closed(t).op = th[t].op /\ Closed(t).at = "rename"
         /\ Closed(t).fd = "none" /\ Closed(t).buf = th[t].buf /\ Closed(t).calm = th[t].calm
<1>1. th[t] \in ThreadRec /\ 0 \in 0..PIECES
  BY RunningThreads, StoreAssumption
<1> QED
  BY <1>1 DEF Closed, ThreadRec

(* The last write of a file is done and, for a save, is on disk. *)
LEMMA SaveSyncStep == ASSUME Inv, NEW t \in Threads, SaveSync(t) PROVE Inv'
<1>1. /\ th[t].op = "save" /\ th[t].at = "write" /\ th[t].off = Pieces(t)
      /\ th' = [th EXCEPT ![t] = Closed(t)]
      /\ UNCHANGED <<life, running, saved, committed>>
      /\ file' = IF th[t].fd \in Places
                 THEN [file EXCEPT ![th[t].fd] = Fsync(file[th[t].fd])] ELSE file
  BY DEF SaveSync, In, Goto, Memory
<1>2. /\ Closed(t) \in ThreadRec /\ Closed(t).op = th[t].op /\ Closed(t).at = "rename"
      /\ Closed(t).fd = "none" /\ Closed(t).buf = th[t].buf /\ Closed(t).calm = th[t].calm
  BY <1>1, ClosedFacts
<1>3. th' \in [Threads -> ThreadRec] /\ th'[t] = Closed(t)
      /\ \A u \in Threads \ {t} : th'[u] = th[u]
  BY <1>1, <1>2, GotoFacts DEF Inv
<1>4. /\ file' \in [Places -> FileRec]
      /\ \A p \in Places : /\ file'[p].exists = file[p].exists /\ file'[p].data = file[p].data
                           /\ file'[p].by = file[p].by
                           /\ file[p].synced => file'[p].synced
                           /\ p = th[t].fd => file'[p].synced
  <2>1. file \in [Places -> FileRec]
    BY DEF Inv, Shape
  <2>2. \A p \in Places : /\ Fsync(file[p]) \in FileRec /\ Fsync(file[p]).exists = file[p].exists
                          /\ Fsync(file[p]).data = file[p].data /\ Fsync(file[p]).by = file[p].by
                          /\ Fsync(file[p]).synced = TRUE
    BY <2>1 DEF Fsync, FileRec
  <2> QED
    BY <1>1, <2>1, <2>2
<1>5. Shape'
  BY <1>1, <1>3, <1>4 DEF Inv, Shape
<1>6. Steps'
  BY <1>1, <1>2, <1>3 DEF Inv, Steps, Writers
<1>7. Alone'
  BY <1>1, <1>2, <1>3, AloneKeep
<1>8. Progress'
  <2> SUFFICES ASSUME NEW u \in Threads, th'[u].calm
               PROVE  /\ th'[u].at = "write" =>
                           th'[u].fd = th'[u].op /\ file'[th'[u].op].data = Prefix(th'[u].buf, th'[u].off)
                      /\ th'[u].at = "rename" =>
                           file'[th'[u].op].data = Config(th'[u].buf)
                           /\ (th'[u].op = "save" => file'["save"].synced)
    BY DEF Progress
  <2>1. CASE u = t
    <3>1. th[t].calm
      BY <1>2, <1>3, <2>1
    <3>2. th[t].fd = "save" /\ file["save"].data = Prefix(th[t].buf, th[t].off)
      BY <1>1, <3>1 DEF Inv, Progress
    <3>3. Prefix(th[t].buf, th[t].off) = Config(th[t].buf)
      BY <1>1, PieceFacts, ConfigFacts
    <3>4. "save" \in Places
      BY DEF Places
    <3>5. file'["save"].data = Config(th[t].buf) /\ file'["save"].synced
      BY <1>4, <3>2, <3>3, <3>4
    <3> QED
      BY <1>1, <1>2, <1>3, <2>1, <3>5
  <2>2. CASE u # t /\ th[u].at \in {"write", "rename"}
    <3>1. th'[u] = th[u] /\ th[u].op \in Writers /\ th[u].op \in Places /\ "save" \in Places
      BY <1>3, <2>2, RunningThreads DEF Writers, Places
    <3>2. file'[th[u].op].data = file[th[u].op].data
          /\ (file["save"].synced => file'["save"].synced)
      BY <1>4, <3>1
    <3> QED
      BY <2>2, <3>1, <3>2 DEF Inv, Progress
  <2> QED
    BY <1>3, <2>1, <2>2
<1>9. Installed'
  <2> SUFFICES ASSUME NEW p \in {"conf", "old"}, file'[p].by # Nobody
               PROVE  /\ file'[p].data = Config(file'[p].by.want)
                      /\ file'[p].by.op = "save" => file'[p].synced
                      /\ \A u \in Threads : th'[u].fd # p
    BY DEF Installed
  <2>1. /\ file'[p].data = file[p].data /\ file'[p].by = file[p].by
        /\ file[p].synced => file'[p].synced
    BY <1>4 DEF Places
  <2>2. \A u \in Threads : th'[u].fd = p => th[u].fd = p
    BY <1>2, <1>3
  <2> QED
    BY <2>1, <2>2 DEF Inv, Installed
<1>10. Kept'
  <2>1. \A u \in Threads : /\ th'[u].at = "read" <=> th[u].at = "read"
                           /\ th'[u].buf = th[u].buf
                           /\ th'[u].calm = th[u].calm /\ th'[u].op = th[u].op
    BY <1>1, <1>2, <1>3
  <2>2. Main \in Threads /\ "conf" \in Places
    BY DEF Threads, Places
  <2> QED
    BY <1>1, <1>4, <2>1, <2>2, KeptKeep
<1> QED
  BY <1>5, <1>6, <1>7, <1>8, <1>9, <1>10 DEF Inv

LEMMA PutCloseStep == ASSUME Inv, NEW t \in Threads, PutClose(t) PROVE Inv'
<1>1. /\ th[t].op = "put" /\ th[t].at = "write" /\ th[t].off = Pieces(t)
      /\ UNCHANGED <<life, running, saved, committed>>
      /\ \/ th' = [th EXCEPT ![t] = Closed(t)] /\ file' = Written(t)
         \/ th' = [th EXCEPT ![t] = [Closed(t) EXCEPT !.calm = FALSE]] /\ UNCHANGED file
  BY DEF PutClose, In, Goto, Memory
<1>2. /\ th[t].buf \in Running /\ th[t].buf # Empty /\ th[t].off = PIECES - 1
      /\ NextPiece(t) = PIECES /\ NextPiece(t) \in 1..PIECES
  BY <1>1, PieceFacts, StoreAssumption DEF NextPiece
<1>3. PICK r \in ThreadRec :
        /\ r.op = "put" /\ r.at = "rename" /\ r.fd = "none" /\ r.buf = th[t].buf
        /\ r.calm => th[t].calm /\ file' = Written(t)
        /\ th' = [th EXCEPT ![t] = r]
  <2>1. /\ Closed(t) \in ThreadRec /\ Closed(t).op = th[t].op /\ Closed(t).at = "rename"
        /\ Closed(t).fd = "none" /\ Closed(t).buf = th[t].buf /\ Closed(t).calm = th[t].calm
    BY <1>1, ClosedFacts
  <2>2. CASE th' = [th EXCEPT ![t] = Closed(t)] /\ file' = Written(t)
    BY <1>1, <2>1, <2>2
  <2>3. CASE th' = [th EXCEPT ![t] = [Closed(t) EXCEPT !.calm = FALSE]]
    BY <1>1, <2>1, <2>3 DEF ThreadRec
  <2> QED
    BY <1>1, <2>2, <2>3
<1>4. th' \in [Threads -> ThreadRec] /\ th'[t] = r /\ \A u \in Threads \ {t} : th'[u] = th[u]
  BY <1>3, GotoFacts DEF Inv
<1>5. /\ file' \in [Places -> FileRec]
      /\ \A p \in {"conf", "old"} : file'[p].by = file[p].by /\ file'[p].exists = file[p].exists
      /\ \A p \in {"conf", "old"} : file'[p].by # Nobody => file'[p] = file[p]
      /\ \A u \in Threads \ {t} : /\ th[u].calm /\ th[u].at \in {"write", "rename"}
                                  => file'[th[u].op] = file[th[u].op]
  <2>1. CASE file' = Written(t)
    BY <1>1, <1>2, <2>1, WrittenFacts, WriteElsewhere
  <2>2. CASE UNCHANGED file
    BY <2>2 DEF Inv, Shape
  <2> QED
    BY <1>1, <2>1, <2>2
<1>6. Shape'
  BY <1>1, <1>4, <1>5 DEF Inv, Shape
<1>7. Steps'
  BY <1>1, <1>3, <1>4 DEF Inv, Steps, Writers
<1>8. Alone'
  BY <1>1, <1>3, <1>4, AloneKeep
<1>9. Progress'
  <2> SUFFICES ASSUME NEW u \in Threads, th'[u].calm
               PROVE  /\ th'[u].at = "write" =>
                           th'[u].fd = th'[u].op /\ file'[th'[u].op].data = Prefix(th'[u].buf, th'[u].off)
                      /\ th'[u].at = "rename" =>
                           file'[th'[u].op].data = Config(th'[u].buf)
                           /\ (th'[u].op = "save" => file'["save"].synced)
    BY DEF Progress
  <2>1. CASE u = t
    <3>1. th[t].calm /\ file' = Written(t)
      BY <1>3, <1>4, <2>1
    <3>2. /\ th[t].fd = "put" /\ "put" \in Places
          /\ file["put"].data = Prefix(th[t].buf, PIECES - 1)
      BY <1>1, <1>2, <3>1 DEF Inv, Progress, Places
    <3>3. file'["put"].data = WriteAt(file["put"].data, PIECES, th[t].buf)
      BY <1>1, <1>2, <3>1, <3>2, WrittenFacts
    <3>4. file["put"].data \in Contents /\ th[t].buf \in Pieced
          /\ Config(th[t].buf) = Prefix(th[t].buf, PIECES)
      BY <1>2, <3>2, ConfigFacts DEF Inv, Shape, FileRec
    <3>5. file'["put"].data = Config(th[t].buf)
      BY <1>2, <3>2, <3>3, <3>4, WriteFacts
    <3> QED
      BY <1>3, <1>4, <2>1, <3>5
  <2>2. CASE u # t /\ th[u].at \in {"write", "rename"}
    <3>1. th'[u] = th[u] /\ file'[th[u].op] = file[th[u].op]
      BY <1>4, <1>5, <2>2
    <3>2. th[u].op = "save" => file'["save"] = file["save"]
      BY <3>1
    <3> QED
      BY <3>1, <3>2 DEF Inv, Progress
  <2> QED
    BY <1>4, <2>1, <2>2
<1>10. Installed'
  <2> SUFFICES ASSUME NEW p \in {"conf", "old"}, file'[p].by # Nobody
               PROVE  /\ file'[p].data = Config(file'[p].by.want)
                      /\ file'[p].by.op = "save" => file'[p].synced
                      /\ \A u \in Threads : th'[u].fd # p
    BY DEF Installed
  <2>1. file'[p] = file[p] /\ \A u \in Threads : th'[u].fd = p => th[u].fd = p
    BY <1>3, <1>4, <1>5
  <2> QED
    BY <2>1 DEF Inv, Installed
<1>11. Kept'
  <2>1. \A u \in Threads : /\ th'[u].at = "read" <=> th[u].at = "read"
                           /\ th'[u].at = "read" => th'[u] = th[u]
                           /\ th'[u].op = th[u].op
    BY <1>1, <1>3, <1>4
  <2>2. Main \in Threads
    BY DEF Threads
  <2> QED
    BY <1>1, <1>5, <2>1, <2>2, KeptKeep
<1> QED
  BY <1>6, <1>7, <1>8, <1>9, <1>10, <1>11 DEF Inv

(* A failed save and a putconf broken off remove their temporary file. *)
LEMMA UnlinkStep == ASSUME Inv, NEW t \in Threads, Unlink(t) PROVE Inv'
<1> DEFINE f == [th EXCEPT ![t] = Idle]
           op == th[t].op
<1>1. /\ th[t].at = "unlink" /\ Remove(op, f) /\ op \in Writers /\ op \in Places
      /\ life' = (IF t = Main THEN "up" ELSE life)
      /\ UNCHANGED <<running, committed, saved>> /\ life # "down"
  BY RunningThreads DEF Unlink, Temp, Done, Writers, Places
<1>2. f \in [Threads -> ThreadRec] /\ f[t] = Idle /\ \A u \in Threads \ {t} : f[u] = th[u]
  BY IdleType DEF Inv, Shape
<1> HIDE DEF f
<1>3. /\ th' \in [Threads -> ThreadRec] /\ Others(f, th')
      /\ \A u \in Threads : th'[u].fd = IF f[u].fd = op THEN "gone" ELSE f[u].fd
      /\ file' \in [Places -> FileRec]
      /\ \A p \in Places \ {op} : file'[p] = file[p]
  BY <1>1, <1>2, RemoveFacts DEF Inv
<1>4. /\ th'[t].op = "none" /\ th'[t].at = "idle" /\ th'[t].fd = "none"
      /\ \A u \in Threads \ {t} :
           /\ th'[u].op = th[u].op /\ th'[u].at = th[u].at /\ th'[u].off = th[u].off
           /\ th'[u].buf = th[u].buf /\ th'[u].calm = th[u].calm
           /\ th'[u].fd = IF th[u].fd = op THEN "gone" ELSE th[u].fd
  BY <1>1, <1>2, <1>3, IdleType DEF Others, Writers
<1>5. Shape'
  BY <1>1, <1>3 DEF Inv, Shape
<1>6. Steps'
  BY <1>1, <1>4 DEF Inv, Steps, Writers, Threads
<1>7. Alone'
  BY <1>4, AloneKeep
<1>8. Progress'
  <2> SUFFICES ASSUME NEW u \in Threads, th'[u].calm
               PROVE  /\ th'[u].at = "write" =>
                           th'[u].fd = th'[u].op /\ file'[th'[u].op].data = Prefix(th'[u].buf, th'[u].off)
                      /\ th'[u].at = "rename" =>
                           file'[th'[u].op].data = Config(th'[u].buf)
                           /\ (th'[u].op = "save" => file'["save"].synced)
    BY DEF Progress
  <2>1. CASE u # t /\ th[u].at \in {"write", "rename"}
    <3>1. /\ th[u].calm /\ th'[u].op = th[u].op /\ th'[u].at = th[u].at /\ th'[u].off = th[u].off
          /\ th'[u].buf = th[u].buf /\ th[u].op \in Writers
          /\ th'[u].fd = IF th[u].fd = op THEN "gone" ELSE th[u].fd
      BY <1>4, <2>1, RunningThreads
    <3>2. th[u].op # op
      BY <2>1, <3>1 DEF Inv, Alone, Rivals
    <3>3. file'[th[u].op] = file[th[u].op]
      BY <1>3, <3>1, <3>2 DEF Writers, Places
    <3>4. th[u].op = "save" => file'["save"] = file["save"]
      BY <3>3
    <3> QED
      BY <3>1, <3>2, <3>3, <3>4 DEF Inv, Progress
  <2> QED
    BY <1>4, <2>1
<1>9. Installed'
  <2>1. \A p \in {"conf", "old"} : file'[p] = file[p]
    BY <1>1, <1>3 DEF Writers, Places
  <2>2. \A u \in Threads : th'[u].fd \in {"conf", "old"} => th'[u].fd = th[u].fd
    BY <1>4
  <2> QED
    BY <2>1, <2>2, InstalledKeep
<1>10. Kept'
  <2> SUFFICES ASSUME saved # Empty PROVE Kept'
    BY <1>1 DEF Kept
  <2>1. life = "starting" => t # Main
    BY <1>1 DEF Inv, Kept, Writers
  <2>2. life' = life
    <3>1. life \in {"down", "starting", "up"}
      BY DEF Inv, Shape
    <3> QED
      BY <1>1, <2>1, <3>1
  <2>3. file'["conf"] = file["conf"]
    BY <1>1, <1>3 DEF Writers, Places
  <2>4. \A u \in Threads : /\ th'[u].at = "read" <=> th[u].at = "read"
                           /\ th'[u].at = "read" => /\ th'[u].buf = th[u].buf
                                                    /\ th'[u].calm => th[u].calm
    BY <1>1, <1>4
  <2>5. life = "starting" => th'[Main].op = th[Main].op
    BY <1>4, <2>1 DEF Threads
  <2> QED
    BY <1>1, <2>2, <2>3, <2>4, <2>5, KeptKeep
<1> QED
  BY <1>5, <1>6, <1>7, <1>8, <1>9, <1>10 DEF Inv
-----------------------------------------------------------------------------
(* A rename.  If the thread is calm its file is whole and nobody else has  *)
(* a handle on it; the handles on the router.conf it replaces follow that  *)
(* one, to where only a power failure would bring it back from.            *)
LEMMA InstallStep ==
  ASSUME Inv, NEW t \in Threads, NEW op \in Writers, th[t].op = op, th[t].at = "rename",
         NEW f \in [Threads -> ThreadRec], f[t].fd = "none", f[t].at \notin {"write", "rename"},
         \A u \in Threads \ {t} : /\ f[u].op = th[u].op /\ f[u].at = th[u].at
                                  /\ f[u].fd = th[u].fd /\ f[u].off = th[u].off
                                  /\ f[u].buf = th[u].buf
                                  /\ f[u].calm => th[u].calm,
         Install(op, Installer(t), f)
  PROVE  /\ th' \in [Threads -> ThreadRec] /\ Others(f, th') /\ file' \in [Places -> FileRec]
         /\ committed' = FALSE /\ Progress' /\ Installed'
         /\ th'[t].fd = "none"
         /\ \A u \in Threads : /\ th'[u].fd # "none" => f[u].fd # "none"
                               /\ th'[u].fd \in Writers => th'[u].fd = f[u].fd
         /\ file'["conf"].exists /\ file'["conf"].by = Installer(t)
<1>1. /\ Installer(t) = IF th[t].calm THEN [op |-> op, want |-> th[t].buf] ELSE Nobody
      /\ Installer(t) \in {Nobody} \cup [op : Writers, want : Running]
      /\ th[t].calm => Installer(t).op = op /\ Installer(t).want = th[t].buf
  BY RunningThreads DEF Installer, ThreadRec
<1>2. /\ th' \in [Threads -> ThreadRec] /\ Others(f, th')
      /\ \A u \in Threads : th'[u].fd = IF f[u].fd = "conf"
                                        THEN (IF committed THEN "old" ELSE "gone")
                                        ELSE IF f[u].fd = op THEN "conf" ELSE f[u].fd
      /\ file' \in [Places -> FileRec] /\ file[op].exists
      /\ file'["conf"].exists = file[op].exists /\ file'["conf"].data = file[op].data
      /\ file'["conf"].synced = file[op].synced /\ file'["conf"].by = Installer(t)
      /\ file'["old"] = IF committed THEN file["conf"] ELSE file["old"]
      /\ \A p \in Writers \ {op} : file'[p] = file[p]
      /\ committed' = FALSE
  BY <1>1, InstallFacts DEF Inv
<1>3. \A u \in Threads : /\ th'[u].fd # "none" => f[u].fd # "none"
                         /\ th'[u].fd \in Writers => th'[u].fd = f[u].fd
  BY <1>2 DEF Writers
<1>4. Progress'
  <2> SUFFICES ASSUME NEW u \in Threads, th'[u].calm
               PROVE  /\ th'[u].at = "write" =>
                           th'[u].fd = th'[u].op /\ file'[th'[u].op].data = Prefix(th'[u].buf, th'[u].off)
                      /\ th'[u].at = "rename" =>
                           file'[th'[u].op].data = Config(th'[u].buf)
                           /\ (th'[u].op = "save" => file'["save"].synced)
    BY DEF Progress
  <2>1. th'[u].at \in {"write", "rename"} => u # t /\ th[u].at \in {"write", "rename"}
    BY <1>2 DEF Others
  <2>2. CASE u # t /\ th[u].at \in {"write", "rename"}
    <3>1. /\ th[u].calm /\ th'[u].op = th[u].op /\ th'[u].at = th[u].at /\ th'[u].off = th[u].off
          /\ th'[u].buf = th[u].buf /\ th[u].op \in Writers /\ f[u].fd = th[u].fd
      <4>1. /\ th'[u].op = f[u].op /\ th'[u].at = f[u].at /\ th'[u].off = f[u].off
            /\ th'[u].buf = f[u].buf /\ th'[u].calm = f[u].calm
        BY <1>2 DEF Others
      <4>2. /\ f[u].op = th[u].op /\ f[u].at = th[u].at /\ f[u].fd = th[u].fd
            /\ f[u].off = th[u].off /\ f[u].buf = th[u].buf
        BY <2>2
      <4>3. f[u].calm => th[u].calm
        BY <2>2
      <4>4. th[u].op \in Writers
        BY <2>2, RunningThreads
      <4> QED
        BY <4>1, <4>2, <4>3, <4>4
    <3>2. th[u].op # op
      BY <2>2, <3>1 DEF Inv, Alone, Rivals
    <3>3. file'[th[u].op] = file[th[u].op]
      BY <1>2, <3>1, <3>2
    <3>4. th[u].op = "save" => file'["save"] = file["save"]
      BY <3>3
    <3>5. th[u].at = "write" => th'[u].fd = th[u].op
      <4>1. th[u].at = "write" => th[u].fd = th[u].op
        BY <3>1 DEF Inv, Progress
      <4>2. th[u].op # "conf"
        BY <3>1 DEF Writers
      <4> QED
        BY <1>2, <3>1, <3>2, <4>1, <4>2
    <3> QED
      BY <3>1, <3>3, <3>4, <3>5 DEF Inv, Progress
  <2> QED
    BY <2>1, <2>2
<1>5. Installed'
  <2> SUFFICES ASSUME NEW p \in {"conf", "old"}, file'[p].by # Nobody
               PROVE  /\ file'[p].data = Config(file'[p].by.want)
                      /\ file'[p].by.op = "save" => file'[p].synced
                      /\ \A u \in Threads : th'[u].fd # p
    BY DEF Installed
  <2>1. CASE p = "conf"
    <3>1. th[t].calm
      BY <1>1, <1>2, <2>1
    <3>2. file[op].data = Config(th[t].buf) /\ (op = "save" => file[op].synced)
      BY <3>1 DEF Inv, Progress
    <3>3. \A u \in Threads : f[u].fd # op
      <4> SUFFICES ASSUME NEW u \in Threads, f[u].fd = op PROVE FALSE
        OBVIOUS
      <4>1. u # t /\ th[u].fd = op
        BY DEF Writers
      <4>2. th[u].op = op
        BY <4>1 DEF Inv, Steps
      <4> QED
        BY <3>1, <4>1, <4>2 DEF Inv, Alone, Rivals
    <3>4. \A u \in Threads : th'[u].fd # "conf"
      BY <1>2, <3>3
    <3> QED
      BY <1>1, <1>2, <2>1, <3>1, <3>2, <3>4
  <2>2. CASE p = "old"
    <3>1. PICK q \in {"conf", "old"} : q = IF committed THEN "conf" ELSE "old"
      OBVIOUS
    <3>2. file'["old"] = file[q] /\ file[q].by # Nobody
      BY <1>2, <2>2, <3>1
    <3>3. /\ file[q].data = Config(file[q].by.want)
          /\ file[q].by.op = "save" => file[q].synced
          /\ \A u \in Threads : th[u].fd # q
      BY <3>2 DEF Inv, Installed
    <3>4. \A u \in Threads : th'[u].fd # "old"
      <4> SUFFICES ASSUME NEW u \in Threads, th'[u].fd = "old" PROVE FALSE
        OBVIOUS
      <4>1. (f[u].fd = "conf" /\ committed) \/ f[u].fd = "old"
        BY <1>2
      <4>2. u # t /\ f[u].fd = th[u].fd
        BY <4>1
      <4>3. committed => th[u].fd # "old"
        BY DEF Inv, Steps
      <4> QED
        BY <3>1, <3>3, <4>1, <4>2, <4>3
    <3> QED
      BY <2>2, <3>2, <3>3, <3>4
  <2> QED
    BY <2>1, <2>2
<1>6. th'[t].fd = "none"
  BY <1>2 DEF Writers
<1> QED
  BY <1>2, <1>3, <1>4, <1>5, <1>6

LEMMA SaveRenameStep == ASSUME Inv, NEW t \in Threads, SaveRename(t) PROVE Inv'
<1> DEFINE f == [th EXCEPT ![t] = Idle]
<1>1. /\ th[t].op = "save" /\ th[t].at = "rename" /\ Install("save", Installer(t), f)
      /\ saved' = (IF th[t].calm /\ th[t].buf = Text(running) /\ Rivals(t, "load") = {}
                   THEN running ELSE Empty)
      /\ life' = (IF t = Main THEN "up" ELSE life) /\ UNCHANGED running
      /\ "save" \in Writers /\ life # "down" /\ (life # "up" => t \notin Operators)
  BY RunningThreads DEF SaveRename, In, Done, Writers
<1>2. f \in [Threads -> ThreadRec] /\ f[t] = Idle /\ \A u \in Threads \ {t} : f[u] = th[u]
  BY IdleType DEF Inv, Shape
<1> HIDE DEF f
<1>3. /\ th' \in [Threads -> ThreadRec] /\ Others(f, th') /\ file' \in [Places -> FileRec]
      /\ committed' = FALSE /\ Progress' /\ Installed'
      /\ th'[t].fd = "none"
      /\ \A u \in Threads : /\ th'[u].fd # "none" => f[u].fd # "none"
                            /\ th'[u].fd \in Writers => th'[u].fd = f[u].fd
      /\ file'["conf"].exists /\ file'["conf"].by = Installer(t)
  BY <1>1, <1>2, IdleType, InstallStep
<1>4. /\ th'[t].op = "none" /\ th'[t].at = "idle"
      /\ \A u \in Threads \ {t} :
           /\ th'[u].op = th[u].op /\ th'[u].at = th[u].at
           /\ th'[u].buf = th[u].buf /\ th'[u].calm = th[u].calm
           /\ th'[u].fd # "none" => th[u].fd # "none"
           /\ th'[u].fd \in Writers => th'[u].fd = th[u].fd
  BY <1>2, <1>3, IdleType DEF Others
<1>5. Shape'
  BY <1>1, <1>3, StoreAssumption DEF Inv, Shape, Running
<1>6. Steps'
  BY <1>1, <1>3, <1>4 DEF Inv, Steps, Writers, Threads
<1>7. Alone'
  BY <1>4, AloneKeep
<1>8. Kept'
  <2> SUFFICES ASSUME saved' # Empty PROVE Kept'
    BY DEF Kept
  <2>1. /\ saved' = running /\ th[t].calm /\ th[t].buf = Text(running) /\ Rivals(t, "load") = {}
    BY <1>1
  <2>2. file'["conf"].by = [op |-> "save", want |-> Text(saved')]
    BY <1>1, <1>3, <2>1 DEF Installer
  <2>3. Reading' = {}
    BY <1>4, <2>1 DEF Reading, Rivals, Inv, Steps
  <2>4. life' # "starting"
    BY <1>1 DEF Inv, Shape, Threads
  <2> QED
    BY <1>1, <1>3, <2>1, <2>2, <2>3, <2>4 DEF Kept
<1> QED
  BY <1>3, <1>5, <1>6, <1>7, <1>8 DEF Inv

LEMMA PutRenameStep == ASSUME Inv, NEW t \in Threads, PutRename(t) PROVE Inv'
<1> DEFINE r == [Idle EXCEPT !.op = "load", !.at = "open"]
           f == Begun(t, r)
<1>1. /\ th[t].op = "put" /\ th[t].at = "rename" /\ Install("put", Installer(t), f)
      /\ saved' = Empty /\ UNCHANGED <<life, running>>
      /\ "put" \in Writers /\ life # "down" /\ (life # "up" => t \notin Operators)
  BY RunningThreads DEF PutRename, In, Writers
<1>2. r \in ThreadRec /\ r.op = "load" /\ r.at = "open" /\ r.fd = "none"
  BY IdleType DEF Idle, ThreadRec
<1> HIDE DEF r
<1>3. Shape
  BY DEF Inv
<1>4. /\ f \in [Threads -> ThreadRec] /\ f[t].op = "load" /\ f[t].at = "open" /\ f[t].fd = "none"
      /\ \A u \in Threads \ {t} : /\ f[u].op = th[u].op /\ f[u].at = th[u].at
                                  /\ f[u].fd = th[u].fd /\ f[u].off = th[u].off
                                  /\ f[u].buf = th[u].buf
                                  /\ f[u].calm => th[u].calm
  BY <1>2, <1>3, BegunFacts
<1>5. Others(f, th') => Alone'
  BY <1>2, AloneBegin
<1> HIDE DEF f
<1>6. /\ th' \in [Threads -> ThreadRec] /\ Others(f, th') /\ file' \in [Places -> FileRec]
      /\ committed' = FALSE /\ Progress' /\ Installed'
      /\ th'[t].fd = "none"
      /\ \A u \in Threads : /\ th'[u].fd # "none" => f[u].fd # "none"
                            /\ th'[u].fd \in Writers => th'[u].fd = f[u].fd
  BY <1>1, <1>4, InstallStep
<1>7. /\ th'[t].op = "load" /\ th'[t].at = "open"
      /\ \A u \in Threads \ {t} :
           /\ th'[u].op = th[u].op /\ th'[u].at = th[u].at
           /\ th'[u].buf = th[u].buf
           /\ th'[u].fd # "none" => th[u].fd # "none"
           /\ th'[u].fd \in Writers => th'[u].fd = th[u].fd
  <2>1. \A u \in Threads : /\ th'[u].op = f[u].op /\ th'[u].at = f[u].at /\ th'[u].buf = f[u].buf
    BY <1>6 DEF Others
  <2>2. \A u \in Threads \ {t} : /\ f[u].op = th[u].op /\ f[u].at = th[u].at
                                 /\ f[u].fd = th[u].fd /\ f[u].buf = th[u].buf
    BY <1>4
  <2> QED
    BY <1>4, <1>6, <2>1, <2>2
<1>8. Shape'
  BY <1>1, <1>6, StoreAssumption DEF Inv, Shape, Running
<1>9. Steps'
  BY <1>1, <1>6, <1>7 DEF Inv, Steps, Writers, Threads
<1>10. Kept'
  BY <1>1 DEF Kept
<1> QED
  BY <1>5, <1>6, <1>8, <1>9, <1>10 DEF Inv
-----------------------------------------------------------------------------
(* A load reads the whole file at once; if a restart must find something   *)
(* there, it is what the load has now read.                                *)
LEMMA LoadOpenStep == ASSUME Inv, NEW t \in Threads, LoadOpen(t) PROVE Inv'
<1> DEFINE v == Parsed(file["conf"].data)
           r == [th[t] EXCEPT !.at = "read", !.buf = v]
<1>1. /\ th[t].op = "load" /\ th[t].at = "open" /\ th' = [th EXCEPT ![t] = r]
      /\ running' = Empty /\ UNCHANGED <<life, saved, file, committed>>
  BY DEF LoadOpen, In, Goto, Cleared
<1>2. v \in Running
  BY ParsedType
<1>3. saved # Empty => v = Text(saved)
  <2> SUFFICES ASSUME saved # Empty PROVE v = Text(saved)
    OBVIOUS
  <2>1. file["conf"].by = [op |-> "save", want |-> Text(saved)]
    BY DEF Inv, Kept
  <2>2. file["conf"].by # Nobody /\ file["conf"].by.want = Text(saved)
    BY <2>1 DEF Nobody
  <2>3. file["conf"].data = Config(Text(saved)) /\ Text(saved) \in Running
    BY <2>2, TextFacts DEF Inv, Installed, Shape
  <2> QED
    BY <2>3, ParsedFacts
<1> HIDE DEF v
<1>4. /\ r \in ThreadRec /\ r.op = "load" /\ r.at = "read" /\ r.fd = "none" /\ r.buf = v
      /\ r.calm = th[t].calm
  <2>1. th[t] \in ThreadRec /\ th[t].fd = "none"
    BY <1>1, RunningThreads DEF Inv, Steps
  <2> QED
    BY <1>1, <1>2, <2>1 DEF ThreadRec
<1> HIDE DEF r
<1>5. th' \in [Threads -> ThreadRec] /\ th'[t] = r /\ \A u \in Threads \ {t} : th'[u] = th[u]
  BY <1>1, <1>4, GotoFacts DEF Inv
<1>6. Shape'
  BY <1>1, <1>5 DEF Inv, Shape, Running
<1>7. Steps'
  BY <1>1, <1>4, <1>5 DEF Inv, Steps, Writers, Threads
<1>8. Alone'
  BY <1>1, <1>4, <1>5, AloneKeep
<1>9. Progress'
  BY <1>1, <1>4, <1>5, ProgressKeep
<1>10. Installed'
  BY <1>1, <1>4, <1>5, InstalledKeep
<1>11. Kept'
  <2> SUFFICES ASSUME saved # Empty PROVE Kept'
    BY <1>1 DEF Kept
  <2>1. \A u \in Reading' : th'[u].buf = Text(saved)
    BY <1>3, <1>4, <1>5 DEF Inv, Kept, Reading
  <2>2. t \in Reading'
    BY <1>4, <1>5 DEF Reading
  <2>3. life = "starting" => th'[Main].op = "load"
    BY <1>4, <1>5 DEF Inv, Kept, Threads
  <2> QED
    BY <1>1, <2>1, <2>2, <2>3 DEF Inv, Kept
<1> QED
  BY <1>6, <1>7, <1>8, <1>9, <1>10, <1>11 DEF Inv

(* A thread is done and has neither a file nor the configuration in hand.  *)
LEMMA DoneStep ==
  ASSUME Inv, NEW t \in Threads, th[t].op = "load",
         th' = [th EXCEPT ![t] = Idle], Done(t), running' \in Running,
         UNCHANGED <<file, committed>>, saved' \in {Text(saved), Empty},
         \A u \in Threads : saved' # Empty => u = t \/ th[u].op # "load",
         saved' # Empty => running' = Text(saved)
  PROVE  Inv'
<1>1. /\ life' = (IF t = Main THEN "up" ELSE life)
      /\ life # "down" /\ (life # "up" => t \notin Operators)
  BY RunningThreads DEF Done, Inv, Steps
<1>2. /\ th' \in [Threads -> ThreadRec] /\ th'[t] = Idle
      /\ \A u \in Threads \ {t} : th'[u] = th[u]
  BY IdleType, GotoFacts DEF Inv
<1>3. Shape'
  <2>1. saved' \in Running
    BY TextFacts DEF Inv, Shape, Running
  <2>2. life' \in {"down", "starting", "up"}
    BY <1>1 DEF Inv, Shape
  <2> QED
    BY <1>1, <1>2, <2>1, <2>2 DEF Inv, Shape
<1>4. Steps'
  BY <1>1, <1>2, IdleType DEF Inv, Steps, Writers, Threads
<1>5. Alone'
  BY <1>2, IdleType, AloneKeep
<1>6. Progress'
  BY <1>2, IdleType, ProgressKeep
<1>7. Installed'
  BY <1>2, IdleType, InstalledKeep
<1>8. Kept'
  <2> SUFFICES ASSUME saved' # Empty PROVE Kept'
    BY DEF Kept
  <2>1. /\ saved' = Text(saved) /\ running' = saved' /\ saved # Empty
        /\ Text(saved') = Text(saved)
    BY TextFacts DEF Inv, Shape
  <2>2. \A u \in Threads \ {t} : th[u].at # "read"
    BY DEF Inv, Steps
  <2>3. Reading' = {}
    BY <1>2, <2>2, IdleType DEF Reading
  <2>4. life' # "starting"
    BY <1>1 DEF Inv, Shape, Threads
  <2> QED
    BY <2>1, <2>3, <2>4 DEF Inv, Kept
<1> QED
  BY <1>3, <1>4, <1>5, <1>6, <1>7, <1>8 DEF Inv

LEMMA LoadMissingStep == ASSUME Inv, NEW t \in Threads, LoadMissing(t) PROVE Inv'
<1>1. /\ th[t].op = "load" /\ th[t].at = "open" /\ running' = Default /\ Default \in Running
      /\ UNCHANGED <<saved, committed>> /\ saved = Empty
  BY StoreAssumption DEF LoadMissing, In, Inv, Kept, Running
<1>2. CASE SaveOf(t, Default)
  <2>1. /\ OpenW("save") /\ UNCHANGED life
        /\ th' = Begun(t, [Idle EXCEPT !.op = "save", !.at = "write", !.buf = Text(Default), !.fd = "save"])
        /\ Text(Default) \in Running
    BY <1>1, <1>2, TextFacts DEF SaveOf, Temp
  <2>2. life # "down" /\ (life # "up" => t \notin Operators) /\ "save" \in Writers
    BY <1>1, RunningThreads DEF Writers
  <2> QED
    BY <1>1, <2>1, <2>2, OpenStep
<1>3. CASE SaveFails(t)
  <2>1. /\ th' = [th EXCEPT ![t] = Idle] /\ Done(t) /\ UNCHANGED file
        /\ Text(Empty) = Empty /\ Empty \in Running
    BY <1>3, TextFacts DEF Running, SaveFails, Goto
  <2> QED
    BY <1>1, <2>1, DoneStep
<1> QED
  BY <1>2, <1>3 DEF LoadMissing

LEMMA LoadReadStep == ASSUME Inv, NEW t \in Threads, LoadRead(t) PROVE Inv'
<1>1. /\ th[t].op = "load" /\ th[t].at = "read" /\ running' = Added(th[t].buf)
      /\ th' = [th EXCEPT ![t] = Idle] /\ Done(t)
      /\ saved' = (IF th[t].calm THEN Text(saved) ELSE Empty) /\ UNCHANGED <<file, committed>>
  BY DEF LoadRead, In, Goto
<1>2. running' \in Running
  <2>1. th[t].buf \in Running /\ running \in Running
    BY RunningThreads DEF ThreadRec, Inv, Shape
  <2> QED
    BY <1>1, <2>1 DEF Added, Running
<1>3. saved' # Empty => \A u \in Threads : u = t \/ th[u].op # "load"
  BY <1>1 DEF Inv, Alone, Rivals
<1>4. saved' # Empty => running' = Text(saved)
  <2>1. saved' # Empty => th[t].buf = Text(saved) /\ running = Empty
    BY <1>1, TextFacts DEF Shape, Inv, Kept, Reading
  <2> QED
    BY <1>1, <2>1 DEF Added
<1> QED
  BY <1>1, <1>2, <1>3, <1>4, DoneStep
-----------------------------------------------------------------------------
LEMMA NextInv == ASSUME Inv, [Next]_vars PROVE Inv'
<1>1. CASE UNCHANGED vars
  <2>1. UNCHANGED <<life, running, th, file, committed, saved>>
    BY <1>1 DEF vars
  <2>2. Shape' /\ Steps' /\ Progress' /\ Installed'
    BY <2>1 DEF Inv, Shape, Steps, Progress, Installed
  <2>3. Alone'
    BY <2>1, AloneKeep
  <2>4. Kept'
    BY <2>1, KeptKeep
  <2> QED
    BY <2>2, <2>3, <2>4 DEF Inv
<1>2. ASSUME NEW t \in Threads, Save(t) PROVE Inv'
  BY <1>2, SaveBeginStep, SaveSyncStep, SaveRenameStep DEF Save
<1>3. ASSUME NEW t \in Threads, Load(t) PROVE Inv'
  BY <1>3, LoadBeginStep, LoadOpenStep, LoadMissingStep, LoadReadStep DEF Load
<1>4. ASSUME NEW t \in Threads, Putconf(t) PROVE Inv'
  BY <1>4, PutBeginStep, PutCloseStep, PutRenameStep DEF Putconf
<1>5. ASSUME NEW t \in Threads, Output(t) PROVE Inv'
  BY <1>5, WriteStep, FailStep, UnlinkStep DEF Output
<1> QED
  BY <1>1, <1>2, <1>3, <1>4, <1>5, BootStep, StopStep, CrashStep, CommitStep, ChangeStep
     DEF Next

LEMMA Invariance == Spec => []Inv
<1>1. Init => Inv
  BY InitInv
<1>2. Inv /\ [Next]_vars => Inv'
  BY NextInv
<1> QED
  BY <1>1, <1>2, PTL DEF Spec

(* Whatever threads write to the same file, it never grows beyond what one *)
(* of them has to write (config.c:160, remote.c:176).                      *)
THEOREM TypeCorrect == Spec => []TypeOK
<1>1. Inv => TypeOK
  <2> SUFFICES ASSUME Inv PROVE TypeOK
    OBVIOUS
  <2>1. Shape
    BY DEF Inv
  <2>2. \A t \in Threads : th[t] \in ThreadRec
    BY <2>1 DEF Shape
  <2>3. \A p \in Places : file[p] \in FileRec
    BY <2>1 DEF Shape
  <2> QED
    BY <2>1, <2>2, <2>3 DEF Shape, ThreadRec, FileRec, TypeOK, Writers
<1> QED
  BY <1>1, Invariance, PTL

(* Writing a temporary file and renaming it (config.c:151, remote.c:108)   *)
(* leaves a whole router.conf, through every interleaving, failure and     *)
(* crash, as long as operations of the same kind do not overlap.           *)
THEOREM SavesAreWhole == Spec => []ConfWhole
<1>1. Inv => ConfWhole
  BY DEF Inv, Installed, ConfWhole
<1> QED
  BY <1>1, Invariance, PTL

(* README:29, atomic saves: what an undisturbed config_save read goes on   *)
(* running, and what its lines describe, which need not be the same        *)
(* (config.c:136), runs from the first reload or restart, through kills,   *)
(* failed saves, aborted uploads and power failures.                       *)
THEOREM SavesAreKept == Spec => []RestartKeeps
<1>1. Inv => RestartKeeps
  <2> SUFFICES ASSUME Inv, saved # Empty, life = "up", \A t \in Threads : ~In(t, "load", "read")
               PROVE  running = saved
    BY DEF RestartKeeps
  <2>1. Reading = {}
    BY DEF Reading, In, Inv, Steps
  <2> QED
    BY <2>1 DEF Inv, Kept
<1> QED
  BY <1>1, Invariance, PTL
=============================================================================
