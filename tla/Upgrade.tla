------------------------------ MODULE Upgrade -------------------------------
(***************************************************************************)
(* upgrade.c: the one upload session g_up, the program it replaces, and    *)
(* the exec.  Connections call upgrade_begin, upgrade_write, ...; Remote   *)
(* says when.  begin, finish and abort hold g_up_lock and are one step;    *)
(* upgrade_write and upgrade_exec take no lock.                            *)
(*                                                                         *)
(* Image contents are sequences of bytes.  The program file is named after *)
(* /proc/self/exe, which says "<path> (deleted)" once the file a process   *)
(* runs from was replaced: a path is the number of those suffixes, and     *)
(* prog says whether a program is there that can run.  Nobody else writes  *)
(* to these paths.                                                         *)
(***************************************************************************)
EXTENDS Sha256

CONSTANTS Conns,        \* connections
          NoConn,       \* none of them
          NoSha, BadSha,\* sha256 argument "-"; one that is not 64 hex digits
          Magic,        \* the bytes an ELF file starts with
          MAX_UPLOAD,
          Runnable,     \* the images the kernel can execute
          MaxSuffix     \* bound on the "(deleted)" suffixes

ASSUME UploadAssumption ==
  /\ NoConn \notin Conns
  /\ NoSha # BadSha
  /\ Magic \in Seq(Nat)
  /\ MAX_UPLOAD \in Nat \ {0}
  /\ MaxSuffix \in Nat

Paths == 0..MaxSuffix

VARIABLES g_up,   \* the session
          new,    \* content of the session's ".new" file
          prog,   \* what is at each path of the program
          run,    \* the process: where it runs from, replaced there or not
          owner,  \* history: who began the current session
          stolen  \* history: a session was ended by another connection

upvars == <<g_up, new, prog, run, owner, stolen>>

NoSession == [in_progress |-> FALSE, fp |-> "null", path |-> 0, sha |-> NoSha,
              expected |-> 0, received |-> 0, first4 |-> <<>>, hc |-> sha256_init]

UpgradeInit == /\ g_up = NoSession
               /\ new = <<>>
               /\ prog = [p \in Paths |-> IF p = 0 THEN "runs" ELSE "none"]
               /\ run = [path |-> 0, replaced |-> FALSE]
               /\ owner = NoConn
               /\ stolen = FALSE

(* A new process image: static data is fresh, files stay. *)
NewProcess(p) == /\ g_up' = NoSession
                 /\ new' = <<>>
                 /\ run' = [path |-> p, replaced |-> FALSE]
                 /\ owner' = NoConn
                 /\ UNCHANGED <<prog, stolen>>
-----------------------------------------------------------------------------
(* upgrade_begin.  Refused without a change for a bad size and while a     *)
(* session is in progress.  readlink is taken to succeed, on a path of at  *)
(* most MaxSuffix suffixes.                                                *)
SelfExe == run.path + (IF run.replaced THEN 1 ELSE 0)
BadSize(size) == size = 0 \/ size > MAX_UPLOAD

BeginRefused(size) == /\ BadSize(size) \/ g_up.in_progress \/ SelfExe \notin Paths
                      /\ UNCHANGED upvars

(* The session's fields are set; fp is open on an empty file. *)
Begun(size, sha) ==
  [in_progress |-> TRUE, fp |-> "open", path |-> SelfExe, sha |-> sha,
   expected |-> size, received |-> 0, first4 |-> <<>>,
   hc |-> sha256_init]

MayBegin(size) == ~BadSize(size) /\ ~g_up.in_progress /\ SelfExe \in Paths

BeginCannotCreate(size) == /\ MayBegin(size)
                           /\ g_up' = [g_up EXCEPT !.fp = "null", !.path = SelfExe]
                           /\ UNCHANGED <<new, prog, run, owner, stolen>>

(* The file is closed and unlinked, but fp keeps the stale pointer. *)
BeginBadSha(size, sha) ==
  /\ MayBegin(size) /\ sha = BadSha
  /\ g_up' = [NoSession EXCEPT !.path = SelfExe, !.fp = "dangling"]
  /\ UNCHANGED <<new, prog, run, owner, stolen>>

Begin(c, size, sha) == /\ MayBegin(size) /\ sha # BadSha
                       /\ g_up' = Begun(size, sha)
                       /\ new' = <<>>
                       /\ owner' = c
                       /\ UNCHANGED <<prog, run, stolen>>
-----------------------------------------------------------------------------
(* upgrade_write, unlocked and without a look at in_progress: size check   *)
(* and fwrite, then digest and count.  Without a session the counts the    *)
(* last one left decide the check: either outcome.                         *)
Exceeds(data) == g_up.received + Len(data) > g_up.expected
Passes(data) == Exceeds(data) => ~g_up.in_progress

FirstBytes(data) ==
  LET n == Len(Magic) - Len(g_up.first4)
  IN g_up.first4 \o SubSeq(data, 1, IF n > Len(data) THEN Len(data) ELSE n)

Fwrite(data) == /\ Passes(data) /\ g_up.fp = "open"
                /\ g_up' = [g_up EXCEPT !.first4 = FirstBytes(data)]
                /\ new' = new \o data
                /\ UNCHANGED <<prog, run, owner, stolen>>

(* Disk full: the first bytes were kept all the same. *)
FwriteFails(data) == /\ Passes(data) /\ g_up.fp = "open"
                     /\ g_up' = [g_up EXCEPT !.first4 = FirstBytes(data)]
                     /\ UNCHANGED <<new, prog, run, owner, stolen>>

(* fp is NULL or freed memory: the process dies, or the freed FILE swallows*)
(* the bytes.                                                              *)
FwriteCrashes == g_up.fp # "open"
FwriteFreed(data) == g_up.fp = "dangling" /\ UNCHANGED upvars

Hashed(data) == IF g_up.sha # NoSha THEN sha256_update(g_up.hc, data) ELSE g_up.hc

Count(data) == /\ g_up' = IF g_up.in_progress
                          THEN [g_up EXCEPT !.hc = Hashed(data), !.received = @ + Len(data)]
                          ELSE g_up
               /\ UNCHANGED <<new, prog, run, owner, stolen>>
-----------------------------------------------------------------------------
(* The end of a session.  What the next begin sets again is reset here     *)
(* already; only a write without a session could tell (WriteUnchecked).    *)
Over == [NoSession EXCEPT !.path = g_up.path]

(* upgrade_cleanup_unlocked, called with the lock *)

Cleanup == /\ g_up' = Over
           /\ new' = <<>>
           /\ owner' = NoConn
           /\ UNCHANGED <<prog, run>>

(* The three checks of upgrade_finish, in its order. *)
Short == g_up.received # g_up.expected
NotElf == Len(g_up.first4) < Len(Magic) \/ g_up.first4 # Magic
NoMismatch == FALSE
ShaMismatch == g_up.sha # NoSha /\ sha256_final(g_up.hc) # g_up.sha

Checked == ~Short /\ ~NotElf /\ ~ShaMismatch

FinishNoSession == /\ ~g_up.in_progress
                   /\ UNCHANGED upvars

(* A failed check; or fclose or rename fails. *)
FinishRefused(c) == /\ g_up.in_progress
                    /\ Cleanup
                    /\ stolen' = (stolen \/ owner # c)

(* rename replaces the program at g_up.path, whoever began the session;    *)
(* config_save changes nothing here.                                       *)
Finish(c) == /\ g_up.in_progress
             /\ Checked
             /\ prog' = [prog EXCEPT ![g_up.path] =
                          IF new \in Runnable THEN "runs" ELSE "fails"]
             /\ run' = [run EXCEPT !.replaced = @ \/ run.path = g_up.path]
             /\ g_up' = Over
             /\ new' = <<>>
             /\ owner' = NoConn
             /\ stolen' = (stolen \/ owner # c)

(* execv reads g_up.exe_path, as the latest begin left it. *)
CanExec == prog[g_up.path] = "runs"
Exec == CanExec /\ NewProcess(g_up.path)

ExecFails == ~CanExec /\ UNCHANGED upvars

(* upgrade_abort asks whether a session is in progress, not whose it is. *)
AbortNothing(c) == UNCHANGED upvars
Abort(c) == IF g_up.in_progress
            THEN Cleanup /\ stolen' = (stolen \/ owner # c)
            ELSE UNCHANGED upvars
=============================================================================
