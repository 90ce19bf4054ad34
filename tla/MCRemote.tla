----------------------------- MODULE MCRemote ------------------------------
(* Images, digests and peers for the runs of uploads over connections.  *)
EXTENDS Remote, TLC

Elf(n) == <<127, 69, n>>

(* The running program, one that can replace it, one for another machine   *)
(* (an ELF file execv refuses), and a file that is no program.             *)
MCRunnable == {Elf(1)}
MCMagic == <<127, 69>>

Up(i, s) == [image |-> i, sha |-> s]

(* Without a digest; with the right one, a wrong one, a malformed one.     *)
ManyUploads == {Up(<<127, 1>>, NoSha),
                Up(Elf(1), Digest(Elf(1))), Up(Elf(2), Digest(Elf(1))), Up(Elf(1), BadSha)}

(* One peer does everything, the other only uploads one program.           *)
CONSTANTS c1, c2
MCUploads == [c \in Conns |-> IF c = c1 THEN ManyUploads ELSE {Up(<<127, 69>>, NoSha)}]
AConfig == Up(<<1, 2>>, NoSha)
MCConfigs == [c \in Conns |-> IF c = c1 THEN {AConfig} ELSE {}]
MCHasty == {AConfig}
MCLines == [c \in Conns |-> IF c = c1 THEN {AuthLine} ELSE {}]
=============================================================================
