---------------------------- MODULE ConfigStore -----------------------------
(***************************************************************************)
(* router.conf on disk: config_save, config_load and the remote putconf,   *)
(* run by any of the router's threads, over a file system in which power   *)
(* may fail.                                                               *)
(*                                                                         *)
(* A configuration is a version; a file that holds it is a sequence of     *)
(* pieces (one write of stdio each) tagged with that version.  What is     *)
(* loaded from anything else, or on top of something else, is Odd.  A save *)
(* need not write what it read: Reread says which configuration the lines  *)
(* of config_serialize describe.  The lines are in Firewall and RouteFile; *)
(* the password, which is never written, is not part of a version.         *)
(***************************************************************************)
EXTENDS Integers, Sequences, FiniteSetsExt

CONSTANTS Operators,         \* the terminal and the connections
          Main,              \* the thread of main
          Versions, Default, \* configurations; that of config_default
          Reread,            \* what one is when written and parsed again
          Uploads,           \* those a peer may upload
          Empty, Odd,        \* no line at all; a mixture or a part of some
          PIECES             \* pieces of a configuration

ASSUME StoreAssumption == /\ Main \notin Operators
                          /\ Default \in Versions /\ Uploads \subseteq Versions
                          /\ Reread \in [Versions -> Versions]
                          /\ \A v \in Versions : Reread[Reread[v]] = Reread[v]
                          /\ {Empty, Odd} \cap Versions = {}
                          /\ Empty # Odd
                          /\ PIECES \in Nat \ {0}

Threads == Operators \cup {Main}
Running == Versions \cup {Empty, Odd}
Text(v) == IF v \in Versions THEN Reread[v] ELSE v
Config(v) == IF v = Empty THEN <<>> ELSE [i \in 1..PIECES |-> v]

VARIABLES life,      \* "down", "starting" or "up"
          running,   \* the configuration in memory
          th,        \* per thread: the operation it is in
          file,      \* the files, by their place
          committed, \* whether the directory on disk is up to date
          saved      \* history: what the last config_save installed, until
                     \* something else may change what a restart should find

vars == <<life, running, th, file, committed, saved>>

(* A file is in one of four places: router.conf; the temporary file of     *)
(* saves, and that of putconf; the router.conf that a power failure would  *)
(* bring back, when the directory is not up to date.  A file has its data, *)
(* whether they are on disk, and who installed it.                         *)
Places == {"conf", "save", "put", "old"}

Nobody == [op |-> "none", want |-> Empty]
NoFile == [exists |-> FALSE, data |-> <<>>, synced |-> FALSE, by |-> Nobody]
NewFile == [NoFile EXCEPT !.exists = TRUE]

(* The handle fd of a thread says in which place its file is now. *)
Idle == [op |-> "none", at |-> "idle", fd |-> "none", off |-> 0, buf |-> Empty,
         calm |-> TRUE]

Init == /\ life = "down"
        /\ running = Empty
        /\ th = [t \in Threads |-> Idle]
        /\ file = [p \in Places |-> NoFile]
        /\ committed = TRUE
        /\ saved = Empty
-----------------------------------------------------------------------------
(* The file system. *)
TempShared(op) == "save"
Temp(op) == op

(* fopen for writing empties the file that has the name, or makes one. *)
OpenW(op) == file' = [file EXCEPT ![Temp(op)] = NewFile]

(* A write at the handle's own offset, in whatever the file holds; a hole  *)
(* in front of it reads as zeros.                                          *)
WriteAppend(s, k, piece) == Append(s, piece)
WriteAt(s, k, piece) ==
  [i \in 1..Max({k, Len(s)}) |->
     IF i = k THEN piece ELSE IF i <= Len(s) THEN s[i] ELSE Odd]

(* Handles follow their files; one whose file has no name left leads       *)
(* nowhere.                                                                *)
Follow(threads, to) ==
  [t \in Threads |-> IF threads[t].fd \in DOMAIN to
                     THEN [threads[t] EXCEPT !.fd = to[threads[t].fd]]
                     ELSE threads[t]]

(* rename(2) of a temporary file that exists. *)
Install(op, by, threads) ==
  /\ file[Temp(op)].exists
  /\ file' = [file EXCEPT !["conf"] = [file[Temp(op)] EXCEPT !.by = by],
                          !["old"] = IF committed THEN file["conf"] ELSE @,
                          ![Temp(op)] = NoFile]
  /\ th' = Follow(threads, [p \in {"conf", Temp(op)} |->
             IF p = "conf" THEN (IF committed THEN "old" ELSE "gone") ELSE "conf"])
  /\ committed' = FALSE

(* unlink(2), whether it exists or not. *)
Remove(place, threads) == /\ file' = [file EXCEPT ![place] = NoFile]
                          /\ th' = Follow(threads, [p \in {place} |-> "gone"])

(* The directory reaches the disk; what is in its files need not. *)
Commit == /\ ~committed /\ committed' = TRUE
          /\ Remove("old", th)
          /\ UNCHANGED <<life, running, saved>>

(* A process is gone, and its handles with it.  The temporary files it     *)
(* left are taken as gone too: the next fopen would empty them.            *)
Ended(conf, old) == /\ life' = "down"
                    /\ running' = Empty
                    /\ th' = [t \in Threads |-> Idle]
                    /\ file' = [p \in Places |-> IF p = "conf" THEN conf
                                                 ELSE IF p = "old" THEN old ELSE NoFile]

(* Power fails: data never synced may be gone, and so may a rename. *)
Lost(f) == [f EXCEPT !.data = <<>>, !.by = IF @.op = "put" THEN Nobody ELSE @]
Crash == LET f == file[IF committed THEN "conf" ELSE "old"]
         IN /\ Ended(f, NoFile) \/ (~f.synced /\ Ended(Lost(f), NoFile))
            /\ saved' = IF committed THEN saved ELSE Empty
            /\ committed' = TRUE
-----------------------------------------------------------------------------
(* The process: main loads the configuration before any other thread is    *)
(* started; it may end at any time (exit, kill, the exec of an upgrade),   *)
(* with other threads in the middle of something.                          *)
Boot == /\ life = "down"
        /\ life' = "starting"
        /\ running' = Default
        /\ th' = [th EXCEPT ![Main] = [Idle EXCEPT !.op = "load", !.at = "open"]]
        /\ UNCHANGED <<file, committed, saved>>

Stop == /\ life # "down"
        /\ Ended(file["conf"], file["old"])
        /\ UNCHANGED <<committed, saved>>

Memory == UNCHANGED <<life, running, saved>>
Goto(t, r) == th' = [th EXCEPT ![t] = r]

(* An operation begins; others of its kind under way are no longer alone.  *)
Rivals(t, op) == {u \in Threads \ {t} : th[u].op = op}
Begun(t, r) == [u \in Threads |->
  IF u = t THEN [r EXCEPT !.calm = Rivals(t, r.op) = {}]
  ELSE IF u \in Rivals(t, r.op) THEN [th[u] EXCEPT !.calm = FALSE] ELSE th[u]]

(* It is over: an operator waits for the next command, main goes on and    *)
(* starts the other threads.                                               *)
Done(t) == life' = IF t = Main THEN "up" ELSE life

Free(t) == t \in Operators /\ life = "up" /\ th[t].op = "none"
In(t, op, at) == th[t].op = op /\ th[t].at = at

(* Commands that change rules, routes or settings. *)
Change(t) == /\ Free(t)
             /\ running' \in Versions \ {running}
             /\ saved' = Empty
             /\ UNCHANGED <<life, th, file, committed>>
-----------------------------------------------------------------------------
(* config_save: serialize and open (nothing the others do in between       *)
(* matters to either), write, flush and sync, rename.                      *)
SaveOf(t, v) ==
  /\ OpenW("save")
  /\ th' = Begun(t, [Idle EXCEPT !.op = "save", !.at = "write",
                          !.buf = Text(v), !.fd = Temp("save")])
  /\ UNCHANGED life

(* The file cannot be opened: nothing is saved. *)
SaveFails(t) == Goto(t, Idle) /\ Done(t) /\ UNCHANGED file

SaveBegin(t) == Free(t) /\ SaveOf(t, running) /\ UNCHANGED <<running, committed, saved>>

NextPiece(t) == th[t].off + 1
Pieces(t) == Len(Config(th[t].buf)) - (IF th[t].op = "put" THEN 1 ELSE 0)
Written(t) == IF th[t].fd \notin Places THEN file
              ELSE [file EXCEPT ![th[t].fd].data = WriteAt(@, NextPiece(t), th[t].buf),
                                ![th[t].fd].synced = FALSE]

(* fwrite puts out a piece; the last one of a putconf waits for fclose.    *)
Write(t) == /\ th[t].at = "write" /\ th[t].off < Pieces(t)
            /\ Goto(t, [th[t] EXCEPT !.off = @ + 1])
            /\ file' = Written(t)
            /\ Memory /\ UNCHANGED committed

NotSynced(f) == f
Fsync(f) == [f EXCEPT !.synced = TRUE]

(* fflush, fsync and fclose; one of the first two that fails is Fail. *)
Closed(t) == [th[t] EXCEPT !.at = "rename", !.fd = "none", !.off = 0]
SaveSync(t) == /\ In(t, "save", "write") /\ th[t].off = Pieces(t)
               /\ Goto(t, Closed(t))
               /\ file' = IF th[t].fd \in Places
                          THEN [file EXCEPT ![th[t].fd] = Fsync(@)] ELSE file
               /\ Memory /\ UNCHANGED committed

Installer(t) == IF th[t].calm THEN [op |-> th[t].op, want |-> th[t].buf] ELSE Nobody

(* What was saved, if it is still what runs, is what must go on running. *)
SaveRename(t) == /\ In(t, "save", "rename")
                 /\ Install("save", Installer(t), [th EXCEPT ![t] = Idle])
                 /\ saved' = IF th[t].calm /\ th[t].buf = Text(running) /\ Rivals(t, "load") = {}
                             THEN running ELSE Empty
                 /\ Done(t)
                 /\ UNCHANGED running

(* The temporary file is gone: another thread renamed or removed it. *)
RenameFails(t) == /\ th[t].at = "rename" /\ ~file[Temp(th[t].op)].exists
                  /\ Goto(t, [Idle EXCEPT !.op = th[t].op, !.at = "unlink"])
                  /\ Memory /\ UNCHANGED <<file, committed>>

(* A write fails, or the connection of a putconf ends. *)
Fail(t) == /\ th[t].at = "write"
           /\ Goto(t, [Idle EXCEPT !.op = th[t].op, !.at = "unlink"])
           /\ Memory /\ UNCHANGED <<file, committed>>

(* The ways out of a failed save and of a putconf that is broken off. *)
Unlink(t) == /\ th[t].at = "unlink"
             /\ Remove(Temp(th[t].op), [th EXCEPT ![t] = Idle])
             /\ Done(t)
             /\ UNCHANGED <<running, committed, saved>>

Save(t) == SaveBegin(t) \/ SaveSync(t) \/ SaveRename(t)
Output(t) == Write(t) \/ Fail(t) \/ RenameFails(t) \/ Unlink(t)
-----------------------------------------------------------------------------
(* config_load: open, forget everything, add the lines of the file (read   *)
(* into stdio's buffer at once).  Without a file: defaults, and a save     *)
(* whose failure nobody looks at.                                          *)
LoadBegin(t) == /\ Free(t)
                /\ th' = Begun(t, [Idle EXCEPT !.op = "load", !.at = "open"])
                /\ Memory /\ UNCHANGED <<file, committed>>

(* The lines of a file, and lines added to those that are there. *)
Parsed(data) == IF \E v \in Running : data = Config(v)
                THEN CHOOSE v \in Running : data = Config(v) ELSE Odd
Added(lines) == IF running = Empty THEN lines ELSE IF lines = Empty THEN running ELSE Odd

ClearNot == running
Cleared == Empty

LoadOpen(t) == /\ In(t, "load", "open") /\ file["conf"].exists
               /\ running' = Cleared
               /\ Goto(t, [th[t] EXCEPT !.at = "read", !.buf = Parsed(file["conf"].data)])
               /\ UNCHANGED <<life, saved, file, committed>>

LoadMissing(t) == /\ In(t, "load", "open") /\ ~file["conf"].exists
                  /\ running' = Default
                  /\ SaveOf(t, Default) \/ SaveFails(t)
                  /\ UNCHANGED <<saved, committed>>

LoadRead(t) == /\ In(t, "load", "read")
               /\ running' = Added(th[t].buf)
               /\ Goto(t, Idle)
               /\ Done(t)
               /\ saved' = IF th[t].calm THEN Text(saved) ELSE Empty
               /\ UNCHANGED <<file, committed>>

Load(t) == LoadBegin(t) \/ LoadOpen(t) \/ LoadMissing(t) \/ LoadRead(t)
-----------------------------------------------------------------------------
(* putconf: the command opens router.conf.new, payload is written as it    *)
(* comes, the last piece by fclose; a connection that ends before unlinks. *)
PutBegin(t) == /\ Free(t)
               /\ OpenW("put")
               /\ \E v \in Uploads :
                    th' = Begun(t, [Idle EXCEPT !.op = "put", !.at = "write", !.buf = v,
                                                !.fd = Temp("put")])
               /\ Memory /\ UNCHANGED committed

(* The result of fclose is ignored: its write may fail unnoticed. *)
PutClose(t) == /\ In(t, "put", "write") /\ th[t].off = Pieces(t)
               /\ \/ Goto(t, Closed(t)) /\ file' = Written(t)
                  \/ Goto(t, [Closed(t) EXCEPT !.calm = FALSE]) /\ UNCHANGED file
               /\ Memory /\ UNCHANGED committed

PutRename(t) == /\ In(t, "put", "rename")
                /\ Install("put", Installer(t), Begun(t, [Idle EXCEPT !.op = "load", !.at = "open"]))
                /\ saved' = Empty
                /\ UNCHANGED <<life, running>>

Putconf(t) == PutBegin(t) \/ PutClose(t) \/ PutRename(t)
-----------------------------------------------------------------------------
Next == \/ Boot \/ Stop \/ Crash \/ Commit
        \/ \E t \in Threads : Change(t) \/ Save(t) \/ Load(t) \/ Putconf(t) \/ Output(t)

Spec == Init /\ [][Next]_vars
-----------------------------------------------------------------------------
Contents == UNION {[1..n -> Versions \cup {Odd}] : n \in 0..PIECES}

(* Every variable has its type; no interleaving makes a file longer than   *)
(* what one writer has to write.                                           *)
TypeOK ==
  /\ life \in {"down", "starting", "up"} /\ running \in Running
  /\ saved \in Running /\ committed \in BOOLEAN
  /\ \A t \in Threads : /\ th[t].op \in {"none", "save", "put", "load"}
                        /\ th[t].at \in {"idle", "open", "read", "write", "rename", "unlink"}
                        /\ th[t].fd \in Places \cup {"none", "gone"}
                        /\ th[t].off \in 0..PIECES
                        /\ th[t].buf \in Running /\ th[t].calm \in BOOLEAN
  /\ \A p \in Places : /\ file[p].data \in Contents
                       /\ file[p].exists \in BOOLEAN /\ file[p].synced \in BOOLEAN

(* config.c:151 to 176 and remote.c:108 to 207: router.conf is always the  *)
(* whole of what the save or putconf that installed it meant to write,     *)
(* even after a crash at any moment, and whatever operations of the other  *)
(* kind were under way; unless another operation of the same kind          *)
(* overlapped it (they share a temporary file), fclose lost the last write *)
(* or power failed on a putconf, which nothing syncs.                      *)
ConfWhole == LET f == file["conf"]
             IN f.by # Nobody => f.data = Config(f.by.want)

(* README:29, atomic saves: what an undisturbed config_save read goes on   *)
(* running, and from the first reload or restart what its lines describe,  *)
(* through any sequence of reloads, failed saves, aborted uploads, kills   *)
(* and restarts, and of power failures once the directory is on disk,      *)
(* until somebody changes the configuration, installs another one or lets  *)
(* two reloads overlap.                                                    *)
RestartKeeps ==
  saved # Empty /\ life = "up" /\ (\A t \in Threads : ~In(t, "load", "read"))
    => running = saved
=============================================================================
