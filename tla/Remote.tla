------------------------------- MODULE Remote -------------------------------
(***************************************************************************)
(* remote.c: one detached thread per TCP connection.  It receives into     *)
(* ibuf, handles the lines found there, and after "putconf" or "upgrade"   *)
(* takes the next bleft bytes as payload.  A step is a call of recv, one   *)
(* line, one section of the upgrade session, or the thread's end.          *)
(*                                                                         *)
(* A stream is a sequence of tokens: a line, or a byte of payload; lines   *)
(* arrive whole, and the arguments of putconf and upgrade are in "upload". *)
(* A payload byte that is looked at as a line is garbage no command        *)
(* matches.  What the commands of the table do is in the modules of their  *)
(* tables; the file putconf writes is in ConfigStore.  A peer is patient   *)
(* if it waits for "OK" before it sends its payload, or hasty if it sends  *)
(* it along; either sends as many bytes as it announced.                   *)
(***************************************************************************)
EXTENDS Upgrade, Functions

CONSTANTS AuthLine, ExitLine, PutLine, UpLine, \* lines of commands
          Lines,     \* ordinary lines each peer may send
          Uploads,   \* programs each peer may upload: [image |-> , sha |-> ]
          Configs,   \* configuration files each peer may upload
          Hasty,     \* uploads that may be sent without waiting
          IBUF,      \* size of ibuf
          LINE_MAX,  \* the most it may hold in line mode (8192)
          MAX_CONFIG,\* the longest configuration accepted (256 kB)
          NetCap     \* bound on the tokens sent and not yet received

Ordinary == {AuthLine, ExitLine}
Asking == {PutLine, UpLine}
AllLines == Ordinary \cup Asking
Bytes == UNION {Range(u.image) : u \in UNION {Uploads[c] \cup Configs[c] : c \in Conns}}
Tokens == AllLines \cup Bytes

ASSUME BufferAssumption == /\ LINE_MAX \in Nat /\ IBUF \in Nat /\ LINE_MAX < IBUF
                           /\ MAX_CONFIG \in Nat
ASSUME PeersAssumption ==
  /\ Ordinary \cap Asking = {} /\ AllLines \cap Bytes = {}
  /\ \A c \in Conns : /\ Lines[c] \subseteq Ordinary
                      /\ \A u \in Uploads[c] \cup Configs[c] : u.image \in Seq(Nat)

VARIABLES net,    \* per connection: sent by the peer, not yet received
          peer,   \* what the peer waits for
          hasty,  \* whether it sent its payload without waiting
          upload, \* what the peer uploads: image and sha256 argument
          pc,     \* where the connection's thread is
          ibuf, bleft, mode, authed,
          pcfp    \* whether the putconf file is open

connvars == <<pc, ibuf, bleft, mode, authed, pcfp>>
peervars == <<net, peer, hasty, upload>>
vars == <<upvars, connvars, peervars>>

Nothing == [image |-> <<>>, sha |-> NoSha]
TakeAll(c) == Len(ibuf[c])
Take(c) == IF Len(ibuf[c]) < bleft[c] THEN Len(ibuf[c]) ELSE bleft[c]
Chunk(c) == SubSeq(ibuf[c], 1, Take(c))
From(s, n) == SubSeq(s, n, Len(s))

Init == /\ UpgradeInit
        /\ net = [c \in Conns |-> <<>>]
        /\ peer = [c \in Conns |-> "off"]
        /\ hasty = [c \in Conns |-> FALSE]
        /\ upload = [c \in Conns |-> Nothing]
        /\ pc = [c \in Conns |-> "none"]
        /\ ibuf = [c \in Conns |-> <<>>]
        /\ bleft = [c \in Conns |-> 0]
        /\ mode = [c \in Conns |-> "line"]
        /\ authed = [c \in Conns |-> FALSE]
        /\ pcfp = [c \in Conns |-> FALSE]
-----------------------------------------------------------------------------
(* The peers. *)

Sends(c, tokens) == /\ Len(net[c]) + Len(tokens) <= NetCap
                    /\ net' = [net EXCEPT ![c] = @ \o tokens]

(* Ordinary lines, also right behind a payload (remote.c:245); one at a    *)
(* time is enough.                                                         *)
PeerLine(c) == /\ peer[c] \in {"idle", "sent"}
               /\ Ordinary \cap Range(net[c] \o ibuf[c]) = {}
               /\ \E l \in Lines[c] : Sends(c, <<l>>)
               /\ UNCHANGED <<peer, hasty, upload, upvars, connvars>>

Asks(c, l, u, h) == /\ peer[c] = "idle" /\ (hasty[c] => h)
                    /\ Sends(c, IF h THEN <<l>> \o u.image ELSE <<l>>)
                    /\ upload' = [upload EXCEPT ![c] = u]
                    /\ hasty' = [hasty EXCEPT ![c] = h]
                    /\ peer' = [peer EXCEPT ![c] = "asking"]
                    /\ UNCHANGED <<upvars, connvars>>

PeerUpload(c) == \E h \in BOOLEAN, u \in Uploads[c] \cup Configs[c] :
                   /\ h => u \in Hasty
                   /\ \/ u \in Uploads[c] /\ Asks(c, UpLine, u, h)
                      \/ u \in Configs[c] /\ Asks(c, PutLine, u, h)

(* "OK" came: the payload follows. *)
PeerPayload(c) == /\ peer[c] = "ok" /\ ~hasty[c]
                  /\ Sends(c, upload[c].image)
                  /\ peer' = [peer EXCEPT ![c] = "sent"]
                  /\ UNCHANGED <<hasty, upload, upvars, connvars>>

(* The peer closes, or the connection is lost; what was on its way and     *)
(* still arrives, arrives before.                                          *)
PeerGone(c) == /\ peer[c] \notin {"off", "gone"}
               /\ net' = [net EXCEPT ![c] = <<>>]
               /\ peer' = [peer EXCEPT ![c] = "gone"]
               /\ UNCHANGED <<hasty, upload, upvars, connvars>>

Peer(c) == PeerLine(c) \/ PeerUpload(c) \/ PeerPayload(c) \/ PeerGone(c)

(* The answers: to the line that asks, and to the whole payload. *)
Answer(c, was, becomes) ==
  /\ peer' = IF peer[c] = was THEN [peer EXCEPT ![c] = becomes] ELSE peer
  /\ upload' = IF becomes = "idle" THEN [upload EXCEPT ![c] = Nothing] ELSE upload
-----------------------------------------------------------------------------
Goto(c, l) == pc' = [pc EXCEPT ![c] = l]

(* tcp_thread's accept, then conn_thread: without a password in the        *)
(* configuration the connection needs none.                                *)
Accept(c) == /\ pc[c] = "none" /\ peer[c] = "off"
             /\ peer' = [peer EXCEPT ![c] = "idle"]
             /\ net' = [net EXCEPT ![c] = <<>>]
             /\ \E a \in BOOLEAN : authed' = [authed EXCEPT ![c] = a]
             /\ Goto(c, "recv")
             /\ UNCHANGED <<hasty, upload, ibuf, bleft, mode, pcfp, upvars>>

(* conn_pump: recv, then payload, protocol error or lines. *)
Recv(c) ==
  /\ pc[c] = "recv"
  /\ \E n \in 1..Len(net[c]) :
       /\ n <= IBUF - Len(ibuf[c])
       /\ ibuf' = [ibuf EXCEPT ![c] = @ \o SubSeq(net[c], 1, n)]
       /\ net' = [net EXCEPT ![c] = From(@, n + 1)]
       /\ Goto(c, IF bleft[c] > 0 THEN "write"
                  ELSE IF Len(ibuf'[c]) > LINE_MAX THEN "end" ELSE "lines")
  /\ UNCHANGED <<peer, hasty, upload, bleft, mode, authed, pcfp, upvars>>

RecvEnd(c) == /\ pc[c] = "recv"
              /\ peer[c] = "gone"
              /\ Goto(c, "end")
              /\ UNCHANGED <<peervars, ibuf, bleft, mode, authed, pcfp, upvars>>
-----------------------------------------------------------------------------
(* process_lines: one line, handled and removed from the buffer; recv      *)
(* follows when none is left.                                              *)
AtLine(c) == pc[c] = "lines" /\ ibuf[c] # <<>>
PopLine(c) == ibuf' = [ibuf EXCEPT ![c] = Tail(@)]
LinesOf(buffer) == IF buffer = <<>> THEN "recv" ELSE "lines"
NextLine(c) == Goto(c, LinesOf(Tail(ibuf[c])))
Is(c, l) == Head(ibuf[c]) = l

(* The password fits or does not. *)
HandleAuth(c) == /\ AtLine(c) /\ Is(c, AuthLine)
                 /\ \E a \in BOOLEAN : authed' = [authed EXCEPT ![c] = @ \/ a]
                 /\ PopLine(c) /\ NextLine(c)
                 /\ UNCHANGED <<peervars, bleft, mode, pcfp, upvars>>

(* AUTH_REQUIRED, also to an upload. *)
HandleUnauthed(c) == /\ AtLine(c) /\ ~Is(c, AuthLine) /\ ~authed[c]
                     /\ PopLine(c) /\ NextLine(c)
                     /\ IF Head(ibuf[c]) \in Asking
                        THEN Answer(c, "asking", "idle") ELSE UNCHANGED <<peer, upload>>
                     /\ UNCHANGED <<net, hasty, bleft, mode, authed, pcfp, upvars>>

(* cmd_dispatch, getconf, unknown commands and garbage; exit closes. *)
HandleCommand(c) == /\ AtLine(c) /\ authed[c]
                    /\ ~Is(c, AuthLine) /\ Head(ibuf[c]) \notin Asking
                    /\ PopLine(c)
                    /\ IF Is(c, ExitLine) THEN Goto(c, "end") ELSE NextLine(c)
                    /\ UNCHANGED <<peervars, bleft, mode, authed, pcfp, upvars>>

Announced(c) == Len(upload[c].image)

EnterBinary(c, m) == /\ bleft' = [bleft EXCEPT ![c] = Announced(c)]
                     /\ mode' = [mode EXCEPT ![c] = m]
                     /\ Goto(c, "recv")
                     /\ Answer(c, "asking", IF hasty[c] THEN "sent" ELSE "ok")

Refuse(c) == /\ Answer(c, "asking", "idle")
             /\ NextLine(c)
             /\ UNCHANGED <<bleft, mode>>

HandlePutconf(c) == /\ AtLine(c) /\ authed[c] /\ Is(c, PutLine)
                    /\ PopLine(c)
                    /\ \/ /\ Announced(c) \in 1..MAX_CONFIG
                          /\ EnterBinary(c, "putconf")
                          /\ pcfp' = [pcfp EXCEPT ![c] = TRUE]
                       \/ Refuse(c) /\ UNCHANGED pcfp
                    /\ UNCHANGED <<net, hasty, authed, upvars>>

HandleUpgrade(c) ==
  LET size == Announced(c)  sha == upload[c].sha
  IN /\ AtLine(c) /\ authed[c] /\ Is(c, UpLine)
     /\ PopLine(c)
     /\ \/ EnterBinary(c, "upgrade") /\ Begin(c, size, sha)
        \/ Refuse(c) /\ BeginRefused(size)
        \/ Refuse(c) /\ (BeginCannotCreate(size) \/ BeginBadSha(size, sha))
     /\ UNCHANGED <<net, hasty, authed, pcfp>>

Handle(c) == \/ HandleAuth(c) \/ HandleUnauthed(c) \/ HandleCommand(c)
             \/ HandlePutconf(c) \/ HandleUpgrade(c)
-----------------------------------------------------------------------------
(* bin_write; then conn_pump takes the chunk off the buffer. *)
CompleteLate(c) == bleft[c] = 0
Complete(c) == Take(c) = bleft[c]

Consume(c) == /\ ibuf' = [ibuf EXCEPT ![c] = From(@, Take(c) + 1)]
              /\ bleft' = [bleft EXCEPT ![c] = @ - Take(c)]
              /\ Goto(c, IF Complete(c) THEN "finish" ELSE "recv")

WritePutconf(c) == /\ pc[c] = "write" /\ mode[c] = "putconf"
                   /\ \/ Consume(c)
                      \/ Goto(c, "end") /\ UNCHANGED <<ibuf, bleft>>
                   /\ UNCHANGED <<peervars, mode, authed, pcfp, upvars>>

WriteRefused(c) == /\ pc[c] = "write" /\ mode[c] = "upgrade"
                   /\ Exceeds(Chunk(c))
                   /\ Goto(c, "end")
                   /\ UNCHANGED <<peervars, ibuf, bleft, mode, authed, pcfp, upvars>>

WriteChunk(c) ==
  /\ pc[c] = "write" /\ mode[c] = "upgrade"
  /\ \/ (Fwrite(Chunk(c)) \/ FwriteFreed(Chunk(c))) /\ Goto(c, "count")
     \/ FwriteFails(Chunk(c)) /\ Goto(c, "end")
  /\ UNCHANGED <<peervars, ibuf, bleft, mode, authed, pcfp>>

WriteCount(c) == /\ pc[c] = "count"
                 /\ Count(Chunk(c))
                 /\ Consume(c)
                 /\ UNCHANGED <<peervars, mode, authed, pcfp>>

(* The process is replaced, or dies and is started again: threads and      *)
(* connections are gone.                                                   *)
Fresh == /\ net' = [c \in Conns |-> <<>>]
         /\ peer' = [c \in Conns |-> "off"]
         /\ hasty' = [c \in Conns |-> FALSE]
         /\ upload' = [c \in Conns |-> Nothing]
         /\ pc' = [c \in Conns |-> "none"]
         /\ ibuf' = [c \in Conns |-> <<>>]
         /\ bleft' = [c \in Conns |-> 0]
         /\ mode' = [c \in Conns |-> "line"]
         /\ authed' = [c \in Conns |-> FALSE]
         /\ pcfp' = [c \in Conns |-> FALSE]

(* fwrite on a FILE that is NULL or freed ends the process; somebody       *)
(* starts the router again.                                                *)
WriteCrashes(c) == /\ pc[c] = "write" /\ mode[c] = "upgrade"
                   /\ FwriteCrashes
                   /\ NewProcess(0)
                   /\ Fresh
-----------------------------------------------------------------------------
(* bin_finish *)
FinishPutconf(c) == /\ pc[c] = "finish" /\ mode[c] = "putconf"
                    /\ pcfp' = [pcfp EXCEPT ![c] = FALSE]
                    /\ \E to \in {LinesOf(ibuf[c]), "end"} : Goto(c, to)
                    /\ Answer(c, "sent", "idle")
                    /\ UNCHANGED <<net, hasty, ibuf, bleft, mode, authed, upvars>>

FinishUpgrade(c) == /\ pc[c] = "finish" /\ mode[c] = "upgrade"
                    /\ \/ Finish(c) /\ Goto(c, "exec")
                       \/ (FinishRefused(c) \/ FinishNoSession) /\ Goto(c, "end")
                    /\ Answer(c, "sent", "idle")
                    /\ UNCHANGED <<net, hasty, ibuf, bleft, mode, authed, pcfp>>

ExecUpgrade(c) == /\ pc[c] = "exec"
                  /\ Exec
                  /\ Fresh

(* execv came back: the connection goes on, its mode as it was. *)
ExecReturns(c) == /\ pc[c] = "exec"
                  /\ ExecFails
                  /\ Goto(c, LinesOf(ibuf[c]))
                  /\ UNCHANGED <<peervars, ibuf, bleft, mode, authed, pcfp>>
-----------------------------------------------------------------------------
(* conn_thread after conn_pump: the putconf file is closed and removed if  *)
(* it is open, the session aborted if the mode still says upgrade.         *)
End(c) == /\ pc[c] = "end"
          /\ IF mode[c] = "upgrade" THEN Abort(c) ELSE UNCHANGED upvars
          /\ net' = [net EXCEPT ![c] = <<>>]
          /\ peer' = [peer EXCEPT ![c] = "off"]
          /\ hasty' = [hasty EXCEPT ![c] = FALSE]
          /\ upload' = [upload EXCEPT ![c] = Nothing]
          /\ Goto(c, "none")
          /\ ibuf' = [ibuf EXCEPT ![c] = <<>>]
          /\ bleft' = [bleft EXCEPT ![c] = 0]
          /\ mode' = [mode EXCEPT ![c] = "line"]
          /\ authed' = [authed EXCEPT ![c] = FALSE]
          /\ pcfp' = [pcfp EXCEPT ![c] = FALSE]

Serve(c) == \/ Recv(c) \/ RecvEnd(c) \/ Handle(c)
            \/ WritePutconf(c) \/ WriteRefused(c) \/ WriteChunk(c)
            \/ WriteCount(c) \/ WriteCrashes(c)
            \/ FinishPutconf(c) \/ FinishUpgrade(c)
            \/ ExecUpgrade(c) \/ ExecReturns(c)
            \/ End(c)

Next == \E c \in Conns : Peer(c) \/ Accept(c) \/ Serve(c)

Spec == Init /\ [][Next]_vars
-----------------------------------------------------------------------------
Places == {"none", "recv", "lines", "write", "count", "finish", "exec", "end"}

(* Every variable has its type, the buffer stays within its limits and     *)
(* payload is only awaited in a binary mode.                               *)
TypeOK ==
  /\ g_up.in_progress \in BOOLEAN /\ g_up.fp \in {"null", "open", "dangling"}
  /\ g_up.path \in Paths /\ run.path \in Paths /\ run.replaced \in BOOLEAN
  /\ g_up.received \in Nat /\ g_up.expected \in Nat
  /\ Len(g_up.first4) <= Len(Magic)
  /\ owner \in Conns \cup {NoConn} /\ stolen \in BOOLEAN
  /\ peer \in [Conns -> {"off", "idle", "asking", "ok", "sent", "gone"}]
  /\ pc \in [Conns -> Places]
  /\ mode \in [Conns -> {"line", "putconf", "upgrade"}]
  /\ hasty \in [Conns -> BOOLEAN] /\ authed \in [Conns -> BOOLEAN] /\ pcfp \in [Conns -> BOOLEAN]
  /\ \A c \in Conns : /\ Range(net[c]) \subseteq Tokens
                      /\ Range(ibuf[c]) \subseteq Tokens
                      /\ Len(ibuf[c]) <= IBUF
                      /\ bleft[c] \in 0..MAX_UPLOAD \cup 0..MAX_CONFIG
                      /\ bleft[c] > 0 => mode[c] # "line"

(* remote.c:164-174 and 234-250: the stream is cut where the peer cut it.  *)
(* No payload byte of a patient peer is looked at as a command, and no     *)
(* command it sent behind a payload ends up in the file.                   *)
FramingSound ==
  \A c \in Conns : ~hasty[c] =>
    /\ AtLine(c) => Head(ibuf[c]) \in AllLines
    /\ pc[c] \in {"write", "count"} => Range(Chunk(c)) \subseteq Bytes

(* While a session is in progress, the connection that began it is there,  *)
(* and in the mode whose end ends the session: an upload that breaks off   *)
(* anywhere cannot lock later upgrades out.                                *)
SessionOwned == g_up.in_progress => /\ owner # NoConn
                                    /\ pc[owner] # "none"
                                    /\ mode[owner] = "upgrade"
                                    /\ g_up.fp = "open"

(* However recv cut the upload, the digest at any moment is that of the    *)
(* bytes in the file, unless some connection meddled with another's.       *)
DigestOfUpload ==
  g_up.in_progress /\ g_up.sha # NoSha /\ ~stolen /\ pc[owner] # "count"
    => sha256_final(g_up.hc) = Digest(new)

(* README:28, length, ELF header and SHA-256 are checked before the rename:*)
(* a program is only replaced by all that the finishing connection sent,   *)
(* an ELF file, with the announced digest if one was announced; unless     *)
(* some connection meddled with another's session.                         *)
InstallsWhatWasSent ==
  [][\A c \in Conns : FinishUpgrade(c) /\ pc'[c] = "exec" /\ ~stolen' =>
       /\ new = upload[c].image
       /\ SubSeq(new, 1, Len(Magic)) = Magic
       /\ upload[c].sha \in {NoSha, Digest(new)}]_vars

(* A patient peer that sent its whole payload is not left waiting: while   *)
(* the connection waits in recv, the bytes it still wants are on their way.*)
(* A hasty peer may wait for ever: remote.c:174 leaves its payload in ibuf *)
(* until something more arrives.                                           *)
NoStall == \A c \in Conns :
  peer[c] = "sent" /\ ~hasty[c] /\ pc[c] = "recv" => bleft[c] \in 1..Len(net[c])
=============================================================================
