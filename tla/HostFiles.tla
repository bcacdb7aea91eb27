----------------------------- MODULE HostFiles ------------------------------
(***************************************************************************)
(* The host's file system as the file shims use it: one directory of names,  *)
(* files (an inode and its length), open file descriptions and descriptors.  *)
(* External code: each operator is one POSIX call on the record H.           *)
(***************************************************************************)
EXTENDS Integers, FiniteSets, FiniteSetsExt, Functions

CONSTANTS Names,        \* file names, numbered in directory order
          Fds, Std,     \* descriptors; the standard ones
          MaxLen,       \* bound on the length of a file
          NONE

ASSUME HostAssumption == /\ Names \subseteq Nat /\ Names # {} /\ IsFiniteSet(Names)
                         /\ Fds \subseteq Nat /\ IsFiniteSet(Fds) /\ Std \subseteq Fds /\ 0 \in Std
                         /\ MaxLen \in Nat \ {0} /\ NONE \notin Nat

Other == 0              \* what is no regular file: a terminal, a pipe, a directory
Inodes == 1..(Cardinality(Names) + Cardinality(Fds))
Blank == [ino |-> Other, pos |-> 0, wr |-> FALSE, app |-> FALSE]
HostType == [name : [Names -> Inodes \cup {NONE}], len : [Inodes -> 0..MaxLen], fd : [Fds -> Fds \cup {NONE}],
             desc : [Fds -> [ino : Inodes \cup {Other}, pos : 0..MaxLen, wr : BOOLEAN, app : BOOLEAN]]]

Present(H) == {n \in Names : H.name[n] # NONE}
IsOpen(H, f) == f \in Fds /\ H.fd[f] # NONE
Ino(H, f) == H.desc[H.fd[f]].ino
Regular(H, f) == IsOpen(H, f) /\ Ino(H, f) # Other
Live(H) == ({H.name[n] : n \in Names} \cup {H.desc[d].ino : d \in Range(H.fd) \ {NONE}}) \ {NONE, Other}
Size(H, f) == H.len[Ino(H, f)]
\* What nothing refers to any more is gone.
Tidy(H) == [H EXCEPT !.len = [i \in Inodes |-> IF i \in Live(H) THEN @[i] ELSE 0],
                     !.desc = [d \in Fds |-> IF d \in Range(H.fd) THEN @[d] ELSE Blank]]
Free(H) == {f \in Fds : H.fd[f] = NONE}
FreeDesc(H) == Min(Fds \ Range(H.fd))

HOpen(H, n, fl) ==
    LET exists == n \in Present(H)
        ino == IF exists THEN H.name[n] ELSE Min(Inodes \ Live(H))
        f == Min(Free(H))
    IN  IF Free(H) = {} \/ (exists /\ {"creat", "excl"} \subseteq fl) \/ (~exists /\ "creat" \notin fl)
        THEN [fd |-> NONE, host |-> H]
        ELSE [fd |-> f,
              host |-> [H EXCEPT !.name[n] = ino, !.fd[f] = FreeDesc(H),
                                 !.len[ino] = IF exists /\ "trunc" \notin fl THEN @ ELSE 0,
                                 !.desc[FreeDesc(H)] = [ino |-> ino, pos |-> 0, wr |-> "wr" \in fl, app |-> "app" \in fl]]]
\* One end of a pipe, or a directory.
HOpenOther(H) ==
    IF Free(H) = {} THEN [fd |-> NONE, host |-> H]
    ELSE [fd |-> Min(Free(H)), host |-> [H EXCEPT !.fd[Min(Free(H))] = FreeDesc(H)]]
\* A new file without a name.
HAnonymous(H) ==
    LET o == HOpenOther(H)
        d == o.host.fd[o.fd]
    IN  IF o.fd = NONE THEN o
        ELSE [o EXCEPT !.host.desc[d] = [Blank EXCEPT !.ino = Min(Inodes \ Live(H)), !.wr = TRUE]]
HClose(H, f) == IF f \in Fds THEN Tidy([H EXCEPT !.fd[f] = NONE]) ELSE H
HDup2(H, a, b) == Tidy([H EXCEPT !.fd[b] = H.fd[a]])
HUnlink(H, n) == Tidy([H EXCEPT !.name[n] = NONE])
HRename(H, a, b) == IF a = b THEN H ELSE Tidy([H EXCEPT !.name[b] = H.name[a], !.name[a] = NONE])
HSeek(H, f, p) == [H EXCEPT !.desc[H.fd[f]].pos = p]
CanTruncate(H, f) == Regular(H, f) /\ H.desc[H.fd[f]].wr
HTruncate(H, f, n) == [H EXCEPT !.len[Ino(H, f)] = n]
\* Where the next byte goes, and the call that writes it.
WritePos(H, f) == IF H.desc[H.fd[f]].app THEN Size(H, f) ELSE H.desc[H.fd[f]].pos
CanWrite(H, f) == CanTruncate(H, f) /\ WritePos(H, f) < MaxLen
HWrite(H, f) ==
    LET p == WritePos(H, f) + 1
    IN  [HSeek(H, f, p) EXCEPT !.len[Ino(H, f)] = Max({@, p})]
\* There is a byte to read (a terminal or a pipe may have one or not).
HasByte(H, f, more) == IF Regular(H, f) THEN H.desc[H.fd[f]].pos < Size(H, f) ELSE IsOpen(H, f) /\ more
HRead(H, f) == IF Regular(H, f) THEN HSeek(H, f, H.desc[H.fd[f]].pos + 1) ELSE H
=============================================================================
