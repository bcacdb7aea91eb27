----------------------------- MODULE FileProofs -----------------------------
(* Proofs about the file layers and the object cache.                          *)
(*                                                                             *)
(* HandlesAreOwned: FilesInv holds in every state.  It adds to HandlesOwned    *)
(* which stream has which slot of the pool (SlotsHeld), which pipe has which   *)
(* entry of ptab (Piped) and what a table row may contain (TablesTyped).       *)
(* NtCloseDeletesExactly: FilesInv with Marks, which ties the entries of the   *)
(* Nt layer to the handles the program has.  CallsReportTruly: FilesInv with   *)
(* DeadEmpty, because O_CREAT takes an inode nothing refers to.                *)
(* CacheIsSound: CacheInv, under what is asked of the headers (HeadersFit).    *)
EXTENDS NtFiles, ObjCache, FiniteSetTheorems, SequenceTheorems, WellFoundedInduction, TLAPS

\* Numbers, slots and the host's descriptors.
LEMMA LeastNat == ASSUME NEW S, S \subseteq Nat, S # {} PROVE \E i \in S : \A j \in S : i <= j
  <1>1. PICK i \in S : \A j \in S : ~(<<j, i>> \in OpToRel(<, Nat))
    BY WFMin, NatLessThanWellFounded, Zenon
  <1>2. \A j \in S : ~(j < i)  BY <1>1 DEF OpToRel
  <1> QED BY <1>2
LEMMA MinIn == ASSUME NEW S, S \subseteq Nat, S # {} PROVE Min(S) \in S /\ \A j \in S : Min(S) <= j
  BY LeastNat DEF Min
LEMMA SlotIn == ASSUME NEW S, S \subseteq Nat PROVE (S = {} /\ Slot(S) = NONE) \/ (Slot(S) \in S /\ Slot(S) # NONE)
  <1>1. CASE S = {}  BY <1>1 DEF Slot
  <1>2. CASE S # {}
    <2>1. Min(S) \in S  BY <1>2, MinIn
    <2> QED BY <2>1, <1>2, HostAssumption DEF Slot
  <1> QED BY <1>1, <1>2
Descs == [ino : Inodes \cup {Other}, pos : 0..MaxLen, wr : BOOLEAN, app : BOOLEAN]
LEMMA Constants == /\ 0 \in Fds /\ 0 \in 0..MaxLen /\ 1 \in 0..MaxLen /\ NONE \notin Fds /\ NONE \notin Names /\ NONE \notin Inodes
                   /\ Inodes \subseteq Nat /\ Other \notin Inodes /\ Blank \in Descs /\ Fds \subseteq Nat
  <1>1. Cardinality(Names) \in Nat /\ Cardinality(Fds) \in Nat  BY HostAssumption, FS_CardinalityType
  <1>2. PICK n : n = Cardinality(Names) + Cardinality(Fds)  OBVIOUS
  <1>3. n \in Nat  BY <1>1, <1>2
  <1>4. Inodes = 1..n  BY <1>2 DEF Inodes
  <1>5. Inodes \subseteq Nat /\ 0 \notin Inodes  BY <1>3, <1>4
  <1>6. 0 \in 0..MaxLen /\ 1 \in 0..MaxLen  BY HostAssumption
  <1>7. Blank \in Descs  BY <1>6 DEF Blank, Descs
  <1> QED BY <1>5, <1>6, <1>7, HostAssumption DEF Other
LEMMA HostIs == ASSUME NEW H PROVE
    /\ H \in HostType => /\ H = [name |-> H.name, len |-> H.len, fd |-> H.fd, desc |-> H.desc]
                         /\ H.name \in [Names -> Inodes \cup {NONE}] /\ H.len \in [Inodes -> 0..MaxLen]
                         /\ H.fd \in [Fds -> Fds \cup {NONE}] /\ H.desc \in [Fds -> Descs]
    /\ (/\ H = [name |-> H.name, len |-> H.len, fd |-> H.fd, desc |-> H.desc]
        /\ H.name \in [Names -> Inodes \cup {NONE}] /\ H.len \in [Inodes -> 0..MaxLen]
        /\ H.fd \in [Fds -> Fds \cup {NONE}] /\ H.desc \in [Fds -> Descs]) => H \in HostType
  BY DEF HostType, Descs
LEMMA TidyIs == ASSUME NEW H \in HostType PROVE Tidy(H) \in HostType /\ Tidy(H).fd = H.fd /\ Tidy(H).name = H.name
  <1>1. /\ H = [name |-> H.name, len |-> H.len, fd |-> H.fd, desc |-> H.desc]
        /\ H.name \in [Names -> Inodes \cup {NONE}] /\ H.len \in [Inodes -> 0..MaxLen]
        /\ H.fd \in [Fds -> Fds \cup {NONE}] /\ H.desc \in [Fds -> Descs]
    BY HostIs
  <1>2. PICK l, d : l = [i \in Inodes |-> IF i \in Live(H) THEN H.len[i] ELSE 0] /\ d = [x \in Fds |-> IF x \in Range(H.fd) THEN H.desc[x] ELSE Blank]
    OBVIOUS
  <1>3. PICK T : T = Tidy(H)  OBVIOUS
  <1>4. T = [name |-> H.name, len |-> l, fd |-> H.fd, desc |-> d]  BY <1>1, <1>2, <1>3 DEF Tidy
  <1>5. l \in [Inodes -> 0..MaxLen] /\ d \in [Fds -> Descs]  BY <1>1, <1>2, Constants
  <1>6. T \in HostType /\ T.fd = H.fd /\ T.name = H.name  BY <1>1, <1>4, <1>5, HostIs
  <1> QED BY <1>3, <1>6
\* There is a description for a free descriptor, and an inode for a free name or descriptor.
LEMMA Onto == ASSUME NEW f, NEW S, IsFiniteSet(S), S \subseteq DOMAIN f
    PROVE IsFiniteSet({f[x] : x \in S}) /\ Cardinality({f[x] : x \in S}) <= Cardinality(S)
  <1>1. PICK T, g : T = {f[x] : x \in S} /\ g = [x \in S |-> f[x]]  OBVIOUS
  <1>2. g \in Surjection(S, T)  BY <1>1 DEF Surjection
  <1>3. IsFiniteSet(T) /\ Cardinality(T) <= Cardinality(S)  BY <1>2, FS_Surjection
  <1> QED BY <1>1, <1>3
LEMMA FreeDescIs == ASSUME NEW H \in HostType, Free(H) # {} PROVE FreeDesc(H) \in Fds /\ FreeDesc(H) \notin Range(H.fd)
  <1>1. H.fd \in [Fds -> Fds \cup {NONE}] /\ DOMAIN H.fd = Fds  BY HostIs
  <1>2. PICK D, I : D = {f \in Fds : H.fd[f] # NONE} /\ I = {H.fd[f] : f \in D}  OBVIOUS
  <1>3. IsFiniteSet(Fds) /\ Fds \subseteq Nat  BY HostAssumption
  <1>4. PICK f0 \in Fds : f0 \notin D  BY <1>2 DEF Free
  <1>5. IsFiniteSet(D) /\ Cardinality(D) <= Cardinality(Fds) /\ (Cardinality(D) = Cardinality(Fds) => Fds = D)
    <2>1. D \in SUBSET Fds  BY <1>2
    <2> QED BY <2>1, <1>3, FS_Subset
  <1>6. Cardinality(D) < Cardinality(Fds)
    BY <1>3, <1>4, <1>5, FS_CardinalityType
  <1>7. IsFiniteSet(I) /\ Cardinality(I) <= Cardinality(D)
    <2>1. D \subseteq DOMAIN H.fd  BY <1>1, <1>2
    <2> QED BY <2>1, <1>2, <1>5, Onto
  <1>8. ~(Fds \subseteq I)
    <2>1. SUFFICES ASSUME Fds \subseteq I PROVE FALSE  OBVIOUS
    <2>2. Cardinality(Fds) <= Cardinality(I)
      <3>1. Fds \in SUBSET I  BY <2>1
      <3> QED BY <3>1, <1>7, FS_Subset
    <2> QED BY <2>2, <1>3, <1>5, <1>6, <1>7, FS_CardinalityType
  <1>9. Fds \ Range(H.fd) # {}
    <2>1. PICK x \in Fds : x \notin I  BY <1>8
    <2>2. x # NONE  BY Constants
    <2>3. x \notin Range(H.fd)  BY <2>1, <2>2, <1>1, <1>2 DEF Range
    <2> QED BY <2>3
  <1>10. PICK E : E = Fds \ Range(H.fd)  OBVIOUS
  <1>11. Min(E) \in E  BY <1>3, <1>9, <1>10, MinIn
  <1> QED BY <1>10, <1>11 DEF FreeDesc
LEMMA NewInode == ASSUME NEW H \in HostType, Present(H) # Names \/ Free(H) # {} PROVE Min(Inodes \ Live(H)) \in Inodes
  <1>1. /\ H.name \in [Names -> Inodes \cup {NONE}] /\ H.fd \in [Fds -> Fds \cup {NONE}] /\ H.desc \in [Fds -> Descs]
    BY HostIs
  <1>2. PICK M, D : M = Present(H) /\ D = {f \in Fds : H.fd[f] # NONE}  OBVIOUS
  <1>3. PICK g : g = [f \in Fds |-> H.desc[H.fd[f]].ino]  OBVIOUS
  <1>4. PICK A, B : A = {H.name[x] : x \in M} /\ B = {g[x] : x \in D}  OBVIOUS
  <1>5. IsFiniteSet(Names) /\ IsFiniteSet(Fds)  BY HostAssumption
  <1>6. M \in SUBSET Names /\ D \in SUBSET Fds  BY <1>2 DEF Present
  <1>7. IsFiniteSet(M) /\ Cardinality(M) <= Cardinality(Names) /\ (Cardinality(M) = Cardinality(Names) => Names = M)  BY <1>5, <1>6, FS_Subset
  <1>8. IsFiniteSet(D) /\ Cardinality(D) <= Cardinality(Fds) /\ (Cardinality(D) = Cardinality(Fds) => Fds = D)  BY <1>5, <1>6, FS_Subset
  <1>9. IsFiniteSet(A) /\ Cardinality(A) <= Cardinality(M)
    <2>1. M \subseteq DOMAIN H.name  BY <1>1, <1>6
    <2> QED BY <2>1, <1>4, <1>7, Onto
  <1>10. IsFiniteSet(B) /\ Cardinality(B) <= Cardinality(D)
    <2>1. D \subseteq DOMAIN g  BY <1>3, <1>6
    <2> QED BY <2>1, <1>4, <1>8, Onto
  <1>11. PICK a, b, c, m, d, n, f : a = Cardinality(A) /\ b = Cardinality(B) /\ c = Cardinality(A \cap B) /\ m = Cardinality(M) /\ d = Cardinality(D) /\ n = Cardinality(Names) /\ f = Cardinality(Fds)
    OBVIOUS
  <1>12. a \in Nat /\ b \in Nat /\ m \in Nat /\ d \in Nat /\ n \in Nat /\ f \in Nat
    BY <1>5, <1>7, <1>8, <1>9, <1>10, <1>11, FS_CardinalityType
  <1>13. c \in Nat
    <2>1. A \cap B \in SUBSET A  OBVIOUS
    <2>2. IsFiniteSet(A \cap B)  BY <2>1, <1>9, FS_Subset
    <2> QED BY <2>2, <1>11, FS_CardinalityType
  <1>14. IsFiniteSet(A \cup B) /\ Cardinality(A \cup B) = a + b - c  BY <1>9, <1>10, <1>11, FS_Union
  <1>15. m + d < n + f
    <2>1. M # Names \/ D # Fds  BY <1>2, <1>6 DEF Free
    <2>2. m <= n /\ d <= f /\ (m # n \/ d # f)  BY <2>1, <1>7, <1>8, <1>11
    <2> QED BY <2>2, <1>12
  <1>16. a + b - c < n + f  BY <1>9, <1>10, <1>11, <1>12, <1>13, <1>15
  <1>17. Cardinality(Inodes) = n + f
    <2>1. PICK z : z = n + f  OBVIOUS
    <2>2. z \in Nat /\ Inodes = 1..z  BY <2>1, <1>11, <1>12 DEF Inodes
    <2>3. Cardinality(1..z) = IF 1 > z THEN 0 ELSE z - 1 + 1  BY <2>2, FS_Interval
    <2> QED BY <2>1, <2>2, <2>3
  <1>18. ~(Inodes \subseteq A \cup B)
    <2>1. SUFFICES ASSUME Inodes \subseteq A \cup B PROVE FALSE  OBVIOUS
    <2>2. Inodes \in SUBSET (A \cup B)  BY <2>1
    <2>3. Cardinality(Inodes) <= Cardinality(A \cup B)  BY <2>2, <1>14, FS_Subset
    <2> QED BY <2>3, <1>12, <1>13, <1>14, <1>16, <1>17
  <1>19. Live(H) \subseteq A \cup B
    <2>1. SUFFICES ASSUME NEW x \in Live(H) PROVE x \in A \cup B  OBVIOUS
    <2>2. x # NONE /\ ((\E y \in Names : x = H.name[y]) \/ \E y \in Range(H.fd) \ {NONE} : x = H.desc[y].ino)  BY DEF Live
    <2>3. CASE \E y \in Names : x = H.name[y]
      BY <2>2, <2>3, <1>2, <1>4 DEF Present
    <2>4. CASE \E y \in Range(H.fd) \ {NONE} : x = H.desc[y].ino
      <3>1. PICK y \in Range(H.fd) \ {NONE} : x = H.desc[y].ino  BY <2>4
      <3>2. PICK z \in Fds : y = H.fd[z]  BY <1>1 DEF Range
      <3>3. z \in D /\ g[z] = x  BY <3>1, <3>2, <1>2, <1>3
      <3> QED BY <3>3, <1>4
    <2> QED BY <2>2, <2>3, <2>4
  <1>20. PICK E : E = Inodes \ Live(H)  OBVIOUS
  <1>21. E # {} /\ E \subseteq Nat  BY <1>18, <1>19, <1>20, Constants
  <1>22. Min(E) \in E  BY <1>21, MinIn
  <1> QED BY <1>20, <1>22

\* The result o of an open: nothing, or a descriptor that was free and the host with it.
Opened(H, o) ==
    \/ o.fd = NONE /\ o.host = H
    \/ /\ o.fd \in Fds /\ H.fd[o.fd] = NONE /\ o.host \in HostType /\ o.host.fd[o.fd] # NONE
       /\ \A f \in Fds : f # o.fd => o.host.fd[f] = H.fd[f]
LEMMA HOpenIs == ASSUME NEW H \in HostType, NEW n \in Names, NEW fl PROVE Opened(H, HOpen(H, n, fl))
  <1>1. PICK o : o = HOpen(H, n, fl)  OBVIOUS
  <1>2. PICK ex, ino, f, d : /\ ex = (n \in Present(H)) /\ ino = (IF ex THEN H.name[n] ELSE Min(Inodes \ Live(H)))
                             /\ f = Min(Free(H)) /\ d = FreeDesc(H)
    OBVIOUS
  <1>3. CASE Free(H) = {} \/ (ex /\ {"creat", "excl"} \subseteq fl) \/ (~ex /\ "creat" \notin fl)
    <2>1. o = [fd |-> NONE, host |-> H]  BY <1>1, <1>2, <1>3 DEF HOpen
    <2> QED BY <2>1, <1>1 DEF Opened
  <1>4. CASE ~(Free(H) = {} \/ (ex /\ {"creat", "excl"} \subseteq fl) \/ (~ex /\ "creat" \notin fl))
    <2>1. PICK H2 : H2 = [H EXCEPT !.name[n] = ino, !.fd[f] = d,
                                 !.len[ino] = IF ex /\ "trunc" \notin fl THEN @ ELSE 0,
                                 !.desc[d] = [ino |-> ino, pos |-> 0, wr |-> "wr" \in fl, app |-> "app" \in fl]]
      OBVIOUS
    <2>2. o = [fd |-> f, host |-> H2]  BY <1>1, <1>2, <1>4, <2>1 DEF HOpen
    <2>3. /\ H = [name |-> H.name, len |-> H.len, fd |-> H.fd, desc |-> H.desc]
          /\ H.name \in [Names -> Inodes \cup {NONE}] /\ H.len \in [Inodes -> 0..MaxLen]
          /\ H.fd \in [Fds -> Fds \cup {NONE}] /\ H.desc \in [Fds -> Descs]
      BY HostIs
    <2>4. f \in Fds /\ H.fd[f] = NONE
      <3>1. Free(H) # {} /\ Free(H) \subseteq Nat  BY <1>4, Constants DEF Free
      <3>2. f \in Free(H)  BY <3>1, <1>2, MinIn
      <3> QED BY <3>2 DEF Free
    <2>5. d \in Fds  BY <1>2, <1>4, FreeDescIs
    <2>6. ino \in Inodes
      <3>1. CASE ex  BY <3>1, <1>2, <2>3 DEF Present
      <3>2. CASE ~ex
        <4>1. Present(H) # Names  BY <3>2, <1>2
        <4> QED BY <4>1, <3>2, <1>2, NewInode
      <3> QED BY <3>1, <3>2, <1>2
    <2>7. PICK nm, ln, fs, ds : /\ nm = [H.name EXCEPT ![n] = ino] /\ fs = [H.fd EXCEPT ![f] = d]
                                /\ ln = [H.len EXCEPT ![ino] = IF ex /\ "trunc" \notin fl THEN H.len[ino] ELSE 0]
                                /\ ds = [H.desc EXCEPT ![d] = [ino |-> ino, pos |-> 0, wr |-> "wr" \in fl, app |-> "app" \in fl]]
      OBVIOUS
    <2>8. H2 = [name |-> nm, len |-> ln, fd |-> fs, desc |-> ds]  BY <2>1, <2>3, <2>7
    <2>9. nm \in [Names -> Inodes \cup {NONE}] /\ ln \in [Inodes -> 0..MaxLen] /\ fs \in [Fds -> Fds \cup {NONE}]
      BY <2>3, <2>5, <2>6, <2>7, Constants
    <2>10. ds \in [Fds -> Descs]
      <3>1. PICK x : x = [ino |-> ino, pos |-> 0, wr |-> "wr" \in fl, app |-> "app" \in fl]  OBVIOUS
      <3>2. x \in Descs  BY <3>1, <2>6, Constants DEF Descs
      <3> QED BY <3>1, <3>2, <2>3, <2>7
    <2>11. H2 \in HostType /\ H2.fd = fs  BY <2>8, <2>9, <2>10, HostIs
    <2>12. fs[f] = d /\ d # NONE /\ \A g \in Fds : g # f => fs[g] = H.fd[g]  BY <2>3, <2>4, <2>5, <2>7, Constants
    <2>13. o.fd = f /\ o.host = H2  BY <2>2
    <2>14. Opened(H, o)  BY <2>4, <2>11, <2>12, <2>13 DEF Opened
    <2> QED BY <2>14, <1>1
  <1> QED BY <1>3, <1>4
LEMMA HOpenOtherIs == ASSUME NEW H \in HostType PROVE Opened(H, HOpenOther(H)) /\ (HOpenOther(H).fd = NONE <=> Free(H) = {})
  <1>1. PICK o : o = HOpenOther(H)  OBVIOUS
  <1>2. CASE Free(H) = {}
    <2>1. o = [fd |-> NONE, host |-> H]  BY <1>1, <1>2 DEF HOpenOther
    <2>2. o.fd = NONE /\ o.host = H  BY <2>1
    <2> QED BY <2>2, <1>1, <1>2 DEF Opened
  <1>3. CASE Free(H) # {}
    <2>1. PICK f, d : f = Min(Free(H)) /\ d = FreeDesc(H)  OBVIOUS
    <2>2. PICK H2 : H2 = [H EXCEPT !.fd[f] = d]  OBVIOUS
    <2>3. o = [fd |-> f, host |-> H2]  BY <1>1, <1>3, <2>1, <2>2 DEF HOpenOther
    <2>4. /\ H = [name |-> H.name, len |-> H.len, fd |-> H.fd, desc |-> H.desc]
          /\ H.name \in [Names -> Inodes \cup {NONE}] /\ H.len \in [Inodes -> 0..MaxLen]
          /\ H.fd \in [Fds -> Fds \cup {NONE}] /\ H.desc \in [Fds -> Descs]
      BY HostIs
    <2>5. f \in Fds /\ H.fd[f] = NONE
      <3>1. Free(H) # {} /\ Free(H) \subseteq Nat  BY <1>3, Constants DEF Free
      <3>2. f \in Free(H)  BY <3>1, <2>1, MinIn
      <3> QED BY <3>2 DEF Free
    <2>6. d \in Fds  BY <1>3, <2>1, FreeDescIs
    <2>7. PICK fs : fs = [H.fd EXCEPT ![f] = d]  OBVIOUS
    <2>8. H2 = [name |-> H.name, len |-> H.len, fd |-> fs, desc |-> H.desc]  BY <2>2, <2>4, <2>7
    <2>9. fs \in [Fds -> Fds \cup {NONE}]  BY <2>4, <2>6, <2>7
    <2>10. H2 \in HostType /\ H2.fd = fs  BY <2>4, <2>8, <2>9, HostIs
    <2>11. fs[f] = d /\ d # NONE /\ f # NONE /\ \A g \in Fds : g # f => fs[g] = H.fd[g]  BY <2>4, <2>5, <2>6, <2>7, Constants
    <2>12. o.fd = f /\ o.host = H2  BY <2>3
    <2>13. Opened(H, o) /\ o.fd # NONE  BY <2>5, <2>10, <2>11, <2>12 DEF Opened
    <2> QED BY <2>13, <1>1, <1>3
  <1> QED BY <1>2, <1>3
LEMMA HAnonymousIs == ASSUME NEW H \in HostType PROVE Opened(H, HAnonymous(H))
  <1>1. PICK o : o = HOpenOther(H)  OBVIOUS
  <1>2. Opened(H, o) /\ (o.fd = NONE <=> Free(H) = {})  BY <1>1, HOpenOtherIs
  <1>3. CASE o.fd = NONE
    BY <1>1, <1>2, <1>3 DEF HAnonymous
  <1>4. CASE o.fd # NONE
    <2>1. PICK H1, d, x : H1 = o.host /\ d = H1.fd[o.fd] /\ x = [Blank EXCEPT !.ino = Min(Inodes \ Live(H)), !.wr = TRUE]  OBVIOUS
    <2>2. o.fd \in Fds /\ H.fd[o.fd] = NONE /\ H1 \in HostType /\ d # NONE /\ \A f \in Fds : f # o.fd => H1.fd[f] = H.fd[f]
      BY <1>2, <1>4, <2>1 DEF Opened
    <2>3. PICK a : a = HAnonymous(H)  OBVIOUS
    <2>4. a = [o EXCEPT !.host.desc[d] = x]  BY <1>1, <1>4, <2>1, <2>3 DEF HAnonymous
    <2>5. o = [fd |-> o.fd, host |-> H1]
      <3>1. o = [fd |-> o.fd, host |-> o.host]  BY <1>1 DEF HOpenOther
      <3> QED BY <3>1, <2>1
    <2>6. PICK H2 : H2 = [H1 EXCEPT !.desc[d] = x]  OBVIOUS
    <2>7. a.fd = o.fd /\ a.host = H2  BY <2>4, <2>5, <2>6
    <2>8. /\ H1 = [name |-> H1.name, len |-> H1.len, fd |-> H1.fd, desc |-> H1.desc]
          /\ H1.name \in [Names -> Inodes \cup {NONE}] /\ H1.len \in [Inodes -> 0..MaxLen]
          /\ H1.fd \in [Fds -> Fds \cup {NONE}] /\ H1.desc \in [Fds -> Descs]
      BY <2>2, HostIs
    <2>9. x \in Descs
      <3>1. Min(Inodes \ Live(H)) \in Inodes  BY <1>2, <1>4, NewInode
      <3> QED BY <3>1, <2>1, Constants DEF Descs, Blank
    <2>10. PICK ds : ds = [H1.desc EXCEPT ![d] = x]  OBVIOUS
    <2>11. H2 = [name |-> H1.name, len |-> H1.len, fd |-> H1.fd, desc |-> ds]  BY <2>6, <2>8, <2>10
    <2>12. ds \in [Fds -> Descs]  BY <2>8, <2>9, <2>10
    <2>13. H2 \in HostType /\ H2.fd = H1.fd  BY <2>8, <2>11, <2>12, HostIs
    <2>14. Opened(H, a)  BY <2>1, <2>2, <2>7, <2>13 DEF Opened
    <2> QED BY <2>3, <2>14
  <1> QED BY <1>3, <1>4
\* The host after a call that opens and closes nothing; after a close of f.
Touched(H, T) == T \in HostType /\ T.fd = H.fd
Closed(H, f, T) == T \in HostType /\ T.fd[f] = NONE /\ \A g \in Fds : g # f => T.fd[g] = H.fd[g]
LEMMA SetFd == ASSUME NEW H \in HostType, NEW f \in Fds, NEW v \in Fds \cup {NONE}
    PROVE [H EXCEPT !.fd[f] = v] \in HostType /\ [H EXCEPT !.fd[f] = v].fd = [H.fd EXCEPT ![f] = v]
  <1>1. /\ H = [name |-> H.name, len |-> H.len, fd |-> H.fd, desc |-> H.desc]
        /\ H.name \in [Names -> Inodes \cup {NONE}] /\ H.len \in [Inodes -> 0..MaxLen]
        /\ H.fd \in [Fds -> Fds \cup {NONE}] /\ H.desc \in [Fds -> Descs]
    BY HostIs
  <1>2. PICK T, fs : T = [H EXCEPT !.fd[f] = v] /\ fs = [H.fd EXCEPT ![f] = v]  OBVIOUS
  <1>3. T = [name |-> H.name, len |-> H.len, fd |-> fs, desc |-> H.desc] /\ fs \in [Fds -> Fds \cup {NONE}]  BY <1>1, <1>2
  <1>4. T \in HostType /\ T.fd = fs  BY <1>1, <1>3, HostIs
  <1> QED BY <1>2, <1>4
LEMMA HCloseIs == ASSUME NEW H \in HostType, NEW f \in Fds PROVE Closed(H, f, HClose(H, f))
  <1>1. PICK A, T : A = [H EXCEPT !.fd[f] = NONE] /\ T = HClose(H, f)  OBVIOUS
  <1>2. A \in HostType /\ A.fd = [H.fd EXCEPT ![f] = NONE]  BY <1>1, SetFd
  <1>3. T = Tidy(A)  BY <1>1 DEF HClose
  <1>4. T \in HostType /\ T.fd = A.fd  BY <1>2, <1>3, TidyIs
  <1>5. H.fd \in [Fds -> Fds \cup {NONE}]  BY HostIs
  <1> QED BY <1>1, <1>2, <1>4, <1>5 DEF Closed
LEMMA HDup2Is == ASSUME NEW H \in HostType, NEW a \in Fds, NEW b \in Fds
    PROVE /\ HDup2(H, a, b) \in HostType /\ HDup2(H, a, b).fd[b] = H.fd[a]
          /\ \A f \in Fds : f # b => HDup2(H, a, b).fd[f] = H.fd[f]
  <1>0. H.fd \in [Fds -> Fds \cup {NONE}]  BY HostIs
  <1>1. PICK v : v = H.fd[a]  OBVIOUS
  <1>2. v \in Fds \cup {NONE}  BY <1>0, <1>1
  <1>3. PICK A, T : A = [H EXCEPT !.fd[b] = v] /\ T = HDup2(H, a, b)  OBVIOUS
  <1>4. A \in HostType /\ A.fd = [H.fd EXCEPT ![b] = v]  BY <1>2, <1>3, SetFd
  <1>5. T = Tidy(A)  BY <1>1, <1>3 DEF HDup2
  <1>6. T \in HostType /\ T.fd = A.fd  BY <1>4, <1>5, TidyIs
  <1> QED BY <1>0, <1>1, <1>3, <1>4, <1>6
LEMMA SetName == ASSUME NEW H \in HostType, NEW nm \in [Names -> Inodes \cup {NONE}]
    PROVE [H EXCEPT !.name = nm] \in HostType /\ [H EXCEPT !.name = nm].fd = H.fd
  <1>1. /\ H = [name |-> H.name, len |-> H.len, fd |-> H.fd, desc |-> H.desc]
        /\ H.len \in [Inodes -> 0..MaxLen]
        /\ H.fd \in [Fds -> Fds \cup {NONE}] /\ H.desc \in [Fds -> Descs]
    BY HostIs
  <1>2. PICK T : T = [H EXCEPT !.name = nm]  OBVIOUS
  <1>3. T = [name |-> nm, len |-> H.len, fd |-> H.fd, desc |-> H.desc]  BY <1>1, <1>2
  <1>4. T \in HostType /\ T.fd = H.fd  BY <1>1, <1>3, HostIs
  <1> QED BY <1>2, <1>4
LEMMA HUnlinkIs == ASSUME NEW H \in HostType, NEW n \in Names PROVE Touched(H, HUnlink(H, n))
  <1>1. H.name \in [Names -> Inodes \cup {NONE}]  BY HostIs
  <1>2. PICK nm, A, T : nm = [H.name EXCEPT ![n] = NONE] /\ A = [H EXCEPT !.name = nm] /\ T = HUnlink(H, n)  OBVIOUS
  <1>3. nm \in [Names -> Inodes \cup {NONE}]  BY <1>1, <1>2
  <1>4. A \in HostType /\ A.fd = H.fd  BY <1>2, <1>3, SetName
  <1>5. T = Tidy(A)
    <2>1. [H EXCEPT !.name[n] = NONE] = A  BY <1>2
    <2> QED BY <2>1, <1>2 DEF HUnlink
  <1>6. T \in HostType /\ T.fd = A.fd  BY <1>4, <1>5, TidyIs
  <1> QED BY <1>2, <1>4, <1>6 DEF Touched
LEMMA HRenameIs == ASSUME NEW H \in HostType, NEW a \in Names, NEW b \in Names PROVE Touched(H, HRename(H, a, b))
  <1>1. H.name \in [Names -> Inodes \cup {NONE}]  BY HostIs
  <1>2. CASE a = b  BY <1>2 DEF HRename, Touched
  <1>3. CASE a # b
    <2>1. PICK v : v = H.name[a]  OBVIOUS
    <2>2. PICK nm, A, T : nm = [H.name EXCEPT ![b] = v, ![a] = NONE] /\ A = [H EXCEPT !.name = nm] /\ T = HRename(H, a, b)  OBVIOUS
    <2>3. nm \in [Names -> Inodes \cup {NONE}]  BY <1>1, <2>1, <2>2
    <2>4. A \in HostType /\ A.fd = H.fd  BY <2>2, <2>3, SetName
    <2>5. T = Tidy(A)
      <3>1. [H EXCEPT !.name[b] = v, !.name[a] = NONE] = A  BY <2>2
      <3> QED BY <3>1, <2>1, <2>2, <1>3 DEF HRename
    <2>6. T \in HostType /\ T.fd = A.fd  BY <2>4, <2>5, TidyIs
    <2> QED BY <2>2, <2>4, <2>6 DEF Touched
  <1> QED BY <1>2, <1>3
LEMMA Reaches == ASSUME NEW H \in HostType, NEW f, IsOpen(H, f) PROVE f \in Fds /\ H.fd[f] \in Fds /\ H.desc[H.fd[f]] \in Descs
  <1>1. H.fd \in [Fds -> Fds \cup {NONE}] /\ H.desc \in [Fds -> Descs]  BY HostIs
  <1> QED BY <1>1 DEF IsOpen
LEMMA HSeekIs == ASSUME NEW H \in HostType, NEW f, IsOpen(H, f), NEW p \in 0..MaxLen PROVE Touched(H, HSeek(H, f, p)) /\ HSeek(H, f, p).len = H.len
  <1>1. /\ H = [name |-> H.name, len |-> H.len, fd |-> H.fd, desc |-> H.desc]
        /\ H.name \in [Names -> Inodes \cup {NONE}] /\ H.len \in [Inodes -> 0..MaxLen]
        /\ H.fd \in [Fds -> Fds \cup {NONE}] /\ H.desc \in [Fds -> Descs]
    BY HostIs
  <1>2. PICK d : d = H.fd[f]  OBVIOUS
  <1>3. d \in Fds /\ H.desc[d] \in Descs  BY <1>2, Reaches
  <1>4. PICK T, ds : T = HSeek(H, f, p) /\ ds = [H.desc EXCEPT ![d].pos = p]  OBVIOUS
  <1>5. T = [name |-> H.name, len |-> H.len, fd |-> H.fd, desc |-> ds]  BY <1>1, <1>2, <1>4 DEF HSeek
  <1>6. ds \in [Fds -> Descs]
    <2>1. PICK x : x = [H.desc[d] EXCEPT !.pos = p]  OBVIOUS
    <2>2. x \in Descs  BY <2>1, <1>3 DEF Descs
    <2>3. ds = [H.desc EXCEPT ![d] = x]  BY <2>1, <1>1, <1>3, <1>4
    <2> QED BY <2>2, <2>3, <1>1
  <1>7. T \in HostType /\ T.fd = H.fd /\ T.len = H.len  BY <1>1, <1>5, <1>6, HostIs
  <1> QED BY <1>4, <1>7 DEF Touched
LEMMA HLengthIs == ASSUME NEW H \in HostType, NEW i \in Inodes, NEW n \in 0..MaxLen PROVE Touched(H, [H EXCEPT !.len[i] = n])
  <1>1. /\ H = [name |-> H.name, len |-> H.len, fd |-> H.fd, desc |-> H.desc]
        /\ H.name \in [Names -> Inodes \cup {NONE}] /\ H.len \in [Inodes -> 0..MaxLen]
        /\ H.fd \in [Fds -> Fds \cup {NONE}] /\ H.desc \in [Fds -> Descs]
    BY HostIs
  <1>2. PICK T, ln : T = [H EXCEPT !.len[i] = n] /\ ln = [H.len EXCEPT ![i] = n]  OBVIOUS
  <1>3. T = [name |-> H.name, len |-> ln, fd |-> H.fd, desc |-> H.desc]  BY <1>1, <1>2
  <1>4. ln \in [Inodes -> 0..MaxLen]  BY <1>1, <1>2
  <1>5. T \in HostType /\ T.fd = H.fd  BY <1>1, <1>3, <1>4, HostIs
  <1> QED BY <1>2, <1>5 DEF Touched
LEMMA RegularIs == ASSUME NEW H \in HostType, NEW f, Regular(H, f) PROVE IsOpen(H, f) /\ Ino(H, f) \in Inodes /\ Size(H, f) \in 0..MaxLen
  <1>1. IsOpen(H, f) /\ Ino(H, f) # Other  BY DEF Regular
  <1>2. H.desc[H.fd[f]] \in Descs  BY <1>1, Reaches
  <1>3. Ino(H, f) \in Inodes  BY <1>1, <1>2 DEF Ino, Descs
  <1>4. H.len \in [Inodes -> 0..MaxLen]  BY HostIs
  <1> QED BY <1>1, <1>3, <1>4 DEF Size
LEMMA HTruncateIs == ASSUME NEW H \in HostType, NEW f, CanTruncate(H, f), NEW n \in 0..MaxLen PROVE Touched(H, HTruncate(H, f, n))
  <1>1. PICK i : i = Ino(H, f)  OBVIOUS
  <1>2. i \in Inodes  BY <1>1, RegularIs DEF CanTruncate
  <1> QED BY <1>1, <1>2, HLengthIs DEF HTruncate
LEMMA Max2 == ASSUME NEW a \in Int, NEW b \in Int PROVE Max({a, b}) = IF a < b THEN b ELSE a
  BY DEF Max
LEMMA Min2 == ASSUME NEW a \in Int, NEW b \in Int PROVE Min({a, b}) = IF a < b THEN a ELSE b
  BY DEF Min
LEMMA HWriteIs == ASSUME NEW H \in HostType, NEW f, CanWrite(H, f) PROVE Touched(H, HWrite(H, f))
  <1>1. PICK p, i : p = WritePos(H, f) + 1 /\ i = Ino(H, f)  OBVIOUS
  <1>2. Regular(H, f) /\ WritePos(H, f) < MaxLen  BY DEF CanWrite, CanTruncate
  <1>3. IsOpen(H, f) /\ i \in Inodes /\ Size(H, f) \in 0..MaxLen  BY <1>1, <1>2, RegularIs
  <1>4. H.desc[H.fd[f]].pos \in 0..MaxLen
    <2>1. H.desc[H.fd[f]] \in Descs  BY <1>3, Reaches
    <2> QED BY <2>1 DEF Descs
  <1>5. WritePos(H, f) \in 0..MaxLen  BY <1>3, <1>4 DEF WritePos
  <1>6. p \in 0..MaxLen  BY <1>1, <1>2, <1>5, HostAssumption
  <1>7. PICK S, l : S = HSeek(H, f, p) /\ l = S.len[i]  OBVIOUS
  <1>8. Touched(H, S) /\ S.len = H.len  BY <1>3, <1>6, <1>7, HSeekIs
  <1>9. S \in HostType /\ S.fd = H.fd  BY <1>8 DEF Touched
  <1>10. l \in 0..MaxLen
    <2>1. S.len \in [Inodes -> 0..MaxLen]  BY <1>9, HostIs
    <2> QED BY <2>1, <1>3, <1>7
  <1>11. PICK n : n = Max({l, p})  OBVIOUS
  <1>12. n \in 0..MaxLen
    <2>1. l \in Int /\ p \in Int  BY <1>6, <1>10
    <2>2. n = IF l < p THEN p ELSE l  BY <2>1, <1>11, Max2
    <2> QED BY <2>2, <1>6, <1>10
  <1>13. HWrite(H, f) = [S EXCEPT !.len[i] = n]
    BY <1>1, <1>7, <1>11 DEF HWrite
  <1>14. PICK T : T = [S EXCEPT !.len[i] = n]  OBVIOUS
  <1>15. Touched(S, T)  BY <1>3, <1>9, <1>12, <1>14, HLengthIs
  <1> QED BY <1>9, <1>13, <1>14, <1>15 DEF Touched
LEMMA HReadIs == ASSUME NEW H \in HostType, NEW f, NEW more, HasByte(H, f, more) PROVE Touched(H, HRead(H, f))
  <1>1. CASE Regular(H, f)
    <2>1. PICK p : p = H.desc[H.fd[f]].pos  OBVIOUS
    <2>2. IsOpen(H, f) /\ Size(H, f) \in 0..MaxLen  BY <1>1, RegularIs
    <2>3. p \in 0..MaxLen
      <3>1. H.desc[H.fd[f]] \in Descs  BY <2>2, Reaches
      <3> QED BY <3>1, <2>1 DEF Descs
    <2>4. p < Size(H, f)  BY <1>1, <2>1 DEF HasByte
    <2>5. PICK q : q = p + 1  OBVIOUS
    <2>6. q \in 0..MaxLen  BY <2>2, <2>3, <2>4, <2>5, HostAssumption
    <2>7. Touched(H, HSeek(H, f, q))  BY <2>2, <2>6, HSeekIs
    <2> QED BY <2>1, <2>5, <2>7, <1>1 DEF HRead
  <1>2. CASE ~Regular(H, f)  BY <1>2 DEF HRead, Touched
  <1> QED BY <1>1, <1>2
\* What the calls do in sequence.
LEMMA TouchedTwice == ASSUME NEW H, NEW A, NEW B, Touched(H, A), Touched(A, B) PROVE Touched(H, B)
  BY DEF Touched
LEMMA MayWrite == ASSUME NEW H \in HostType, NEW f PROVE Touched(H, IF CanWrite(H, f) THEN HWrite(H, f) ELSE H)
  <1>1. CASE CanWrite(H, f)  BY <1>1, HWriteIs
  <1>2. CASE ~CanWrite(H, f)  BY <1>2 DEF Touched
  <1> QED BY <1>1, <1>2
LEMMA MayRead == ASSUME NEW H \in HostType, NEW f, NEW more, NEW c, c => HasByte(H, f, more) PROVE Touched(H, IF c THEN HRead(H, f) ELSE H)
  <1>1. CASE c  BY <1>1, HReadIs
  <1>2. CASE ~c  BY <1>2 DEF Touched
  <1> QED BY <1>1, <1>2
LEMMA MaySeek == ASSUME NEW H \in HostType, NEW f, NEW p \in 0..MaxLen PROVE Touched(H, IF Regular(H, f) THEN HSeek(H, f, p) ELSE H)
  <1>1. CASE Regular(H, f)  BY <1>1, RegularIs, HSeekIs
  <1>2. CASE ~Regular(H, f)  BY <1>2 DEF Touched
  <1> QED BY <1>1, <1>2

-----------------------------------------------------------------------------
OwnerKinds == {"fd", "stream", "pipe", "nt", "lost"}
StreamKinds == {"stream", "pipe"}
HandleRec == [k : OwnerKinds \cup {"map", "view", "lz"}, n : Nat \cup {NONE}, fd : Fds \cup {NONE}, del : BOOLEAN,
              kept : Names \cup {NONE}, pushed : BOOLEAN, child : Children \cup {NONE}]
\* A handle as its kind has it.
Handles == {h \in HandleRec : /\ h.k = "map" => h.n \in MapSlots \cup {NONE} /\ h.fd \in Fds
                              /\ h.k = "view" => h.n \in MapSlots
                              /\ h.k = "lz" => h.n \in LzSlots}
PoolRec == [used : BOOLEAN, fd : Fds, ungot : BOOLEAN, eof : BOOLEAN, err : BOOLEAN]
PipeRec == [file : DynFiles \cup {NONE}, fd : Fds \cup {NONE}, child : Children \cup {NONE}]
\* A directory scan under way: what was given and what is left are all, in order.
Scans == {q \in [all : SUBSET Names, left : SUBSET Names, given : SUBSET Names, twice : BOOLEAN] :
             ~q.twice /\ q.given \cup q.left = q.all /\ \A m \in q.given, n \in q.left : m < n}
NtRec == [used : BOOLEAN, fd : Fds, del : BOOLEAN, path : Names \cup {NONE}, snap : Scans \cup {NONE}]
Bufs == {z \in [used : BOOLEAN, len : Nat, pos : Nat] : z.pos <= z.len}
Opens(H) == {f \in Fds : H.fd[f] # NONE}
\* The handles X own the open descriptors O.
OwnFds(X, O) ==
    /\ \A h \in X : h.k \in OwnerKinds => h.fd \in O
    /\ \A g, h \in X : g.k \in OwnerKinds /\ h.k \in OwnerKinds /\ g.fd = h.fd => g = h
    /\ \A f \in O : f \notin Std => \E h \in X : h.k \in OwnerKinds /\ h.fd = f
\* The streams among X have the slots of the pool P to themselves.
SlotsHeld(X, P) ==
    /\ \A h \in X : h.k \in StreamKinds => h.n \in DynFiles /\ P[h.n].used /\ (P[h.n].ungot => h.pushed)
    /\ \A g, h \in X : g.k \in StreamKinds /\ h.k \in StreamKinds /\ g.n = h.n => g = h
PipeOf(h) == [file |-> h.n, fd |-> h.fd, child |-> h.child]
\* The entries of the table T are those of pipes of X.
Piped(X, T) ==
    /\ \A i \in PopenSlots : T[i] = NoHost \/ \E h \in X : h.k = "pipe" /\ T[i] = PipeOf(h)
    /\ \A i, j \in PopenSlots : T[i] # NoHost /\ T[i].file = T[j].file => i = j
TablesTyped == /\ maps \in [MapSlots -> Fds \cup {NONE}] /\ views \in [MapSlots -> Inodes \cup {NONE}] /\ lz \in [LzSlots -> Bufs]
               /\ ntfile \in [NtSlots -> NtRec]
FilesInv ==
    /\ host \in HostType /\ pool \in [FILEs -> PoolRec] /\ ptab \in [PopenSlots -> PipeRec] /\ TablesTyped
    /\ held \subseteq Handles
    /\ OwnFds(held, Opens(host)) /\ SlotsHeld(held, pool) /\ Piped(held, ptab)
    /\ PcloseOwnChild
LEMMA InvImplies == ASSUME FilesInv PROVE HandlesOwned
  <1>1. FilesTypeOK
    <2>1. \A i \in NtSlots : ntfile[i].used \in BOOLEAN /\ ntfile[i].fd \in Fds /\ ntfile[i].path \in Names \cup {NONE}
      BY DEF FilesInv, TablesTyped, NtRec
    <2>2. \A i \in LzSlots : lz[i].pos \in 0..lz[i].len
      BY DEF FilesInv, TablesTyped, Bufs
    <2> QED BY <2>1, <2>2 DEF FilesInv, TablesTyped, FilesTypeOK, PoolRec
  <1>2. DescriptorsOwned
    BY DEF FilesInv, OwnFds, Opens, DescriptorsOwned, Owners, Of, IsOpen, OwnerKinds
  <1>3. NoStalePushback  BY DEF FilesInv, SlotsHeld, NoStalePushback, Of, StreamKinds
  <1>4. ScanEachOnce
    <2>1. \A i \in NtSlots : ntfile[i].snap \in Scans \cup {NONE}  BY DEF FilesInv, TablesTyped, NtRec
    <2> QED BY <2>1 DEF ScanEachOnce, Scans
  <1>5. PcloseOwnChild  BY DEF FilesInv
  <1> QED BY <1>1, <1>2, <1>3, <1>4, <1>5 DEF HandlesOwned
LEMMA FilesStart == ASSUME FilesInit PROVE FilesInv
  <1>1. host \in HostType
    <2>1. PICK nm, ln, fs, ds : /\ nm = [n \in Names |-> IF n = Min(Names) THEN 1 ELSE NONE] /\ ln = [i \in Inodes |-> IF i = 1 THEN 1 ELSE 0]
                                /\ fs = [f \in Fds |-> IF f \in Std THEN f ELSE NONE] /\ ds = [f \in Fds |-> Blank]
      OBVIOUS
    <2>2. host = [name |-> nm, len |-> ln, fd |-> fs, desc |-> ds]  BY <2>1 DEF FilesInit
    <2>3. 1 \in Inodes
      <3>1. Cardinality(Names) \in Nat /\ Cardinality(Fds) \in Nat  BY HostAssumption, FS_CardinalityType
      <3>2. Cardinality(Names) # 0  BY HostAssumption, FS_EmptySet
      <3> QED BY <3>1, <3>2 DEF Inodes
    <2>4. nm \in [Names -> Inodes \cup {NONE}]  BY <2>1, <2>3
    <2>5. ln \in [Inodes -> 0..MaxLen]  BY <2>1, Constants
    <2>6. fs \in [Fds -> Fds \cup {NONE}] /\ ds \in [Fds -> Descs]  BY <2>1, Constants
    <2> QED BY <2>2, <2>4, <2>5, <2>6, HostIs
  <1>2. pool \in [FILEs -> PoolRec]
    <2>1. 0 \in Fds /\ Std \subseteq Fds  BY Constants, HostAssumption
    <2> QED BY <2>1 DEF FilesInit, Stream, PoolRec, FILEs
  <1>3. ptab \in [PopenSlots -> PipeRec]  BY DEF FilesInit, NoHost, PipeRec
  <1>4. TablesTyped
    <2>1. NoEntry \in NtRec /\ NoBuf \in Bufs  BY Constants DEF NoEntry, NtRec, NoBuf, Bufs
    <2> QED BY <2>1 DEF FilesInit, TablesTyped
  <1>5. held = {} /\ held \subseteq Handles  BY DEF FilesInit
  <1>6. OwnFds(held, Opens(host))
    <2>1. \A f \in Opens(host) : f \in Std  BY DEF Opens, FilesInit
    <2> QED BY <2>1, <1>5 DEF OwnFds
  <1>7. SlotsHeld(held, pool) /\ Piped(held, ptab)  BY <1>5 DEF SlotsHeld, Piped, FilesInit
  <1>8. PcloseOwnChild  BY DEF PcloseOwnChild, FilesInit
  <1> QED BY <1>1, <1>2, <1>3, <1>4, <1>5, <1>6, <1>7, <1>8 DEF FilesInv
\* How the handles change.
LEMMA OwnAdd == ASSUME NEW X, NEW O, NEW h, OwnFds(X, O), h.k \in OwnerKinds, h.fd \notin O PROVE OwnFds(X \cup {h}, O \cup {h.fd})
  BY DEF OwnFds
LEMMA OwnDrop == ASSUME NEW X, NEW O, NEW h \in X, OwnFds(X, O), h.k \in OwnerKinds PROVE OwnFds(X \ {h}, O \ {h.fd})
  BY DEF OwnFds
LEMMA OwnDropOther == ASSUME NEW X, NEW O, NEW h, OwnFds(X, O), h.fd \in Std \/ h.k \notin OwnerKinds PROVE OwnFds(X \ {h}, O)
  BY DEF OwnFds
LEMMA OwnAddOther == ASSUME NEW X, NEW O, NEW h, OwnFds(X, O), h.k \notin OwnerKinds PROVE OwnFds(X \cup {h}, O)
  BY DEF OwnFds
LEMMA OwnSwap == ASSUME NEW X, NEW O, NEW h \in X, NEW g, OwnFds(X, O), g.fd = h.fd, g.k \in OwnerKinds, h.k \in OwnerKinds
    PROVE OwnFds((X \ {h}) \cup {g}, O)
  BY DEF OwnFds
LEMMA SlotsAdd == ASSUME NEW X, NEW P \in [FILEs -> PoolRec], NEW h, SlotsHeld(X, P), h.k \in StreamKinds, h.n \in DynFiles, ~P[h.n].used,
           NEW f PROVE SlotsHeld(X \cup {h}, [P EXCEPT ![h.n] = Stream(TRUE, f)])
  <1>1. PICK Q : Q = [P EXCEPT ![h.n] = Stream(TRUE, f)]  OBVIOUS
  <1>2. Q[h.n].used /\ ~Q[h.n].ungot /\ \A i \in DynFiles : i # h.n => Q[i] = P[i]  BY <1>1 DEF Stream, FILEs
  <1>3. SlotsHeld(X \cup {h}, Q)  BY <1>2 DEF SlotsHeld
  <1> QED BY <1>1, <1>3
LEMMA SlotsDrop == ASSUME NEW X, NEW P \in [FILEs -> PoolRec], NEW h \in X, SlotsHeld(X, P), h.k \in StreamKinds, h.n \in DynFiles
    PROVE SlotsHeld(X \ {h}, [P EXCEPT ![h.n].used = FALSE])
  <1>1. PICK Q : Q = [P EXCEPT ![h.n].used = FALSE]  OBVIOUS
  <1>2. \A i \in DynFiles : i # h.n => Q[i] = P[i]  BY <1>1 DEF FILEs
  <1>3. SlotsHeld(X \ {h}, Q)  BY <1>2 DEF SlotsHeld
  <1> QED BY <1>1, <1>3
LEMMA SlotsOther == ASSUME NEW X, NEW P, NEW h, SlotsHeld(X, P) PROVE SlotsHeld(X \ {h}, P) /\ (h.k \notin StreamKinds => SlotsHeld(X \cup {h}, P))
  BY DEF SlotsHeld
LEMMA PipedMore == ASSUME NEW X, NEW T, NEW h, Piped(X, T) PROVE Piped(X \cup {h}, T) /\ (h.k # "pipe" => Piped(X \ {h}, T))
  BY DEF Piped

-----------------------------------------------------------------------------
\* Calls that open and close nothing.
Steady(H, T) == T \in HostType /\ Opens(T) = Opens(H)
LEMMA TouchedSteady == ASSUME NEW H, NEW T, Touched(H, T) PROVE Steady(H, T)
  BY DEF Touched, Steady, Opens
NotPclose == ~(told.op = "pclose" /\ told.ok)
LEMMA ToldFine == ASSUME NotPclose' PROVE PcloseOwnChild'
  BY DEF NotPclose, PcloseOwnChild
LEMMA ToldIs == ASSUME NEW op, NEW ok, NEW info, Told(op, ok, info), op # "pclose" \/ ~ok PROVE NotPclose'
  BY DEF Told, NotPclose
LEMMA SteadyKeeps == ASSUME FilesInv, Steady(host, host'), UNCHANGED <<pool, ptab, ntfile, maps, views, lz, held>>, NotPclose' PROVE FilesInv'
  <1>1. PcloseOwnChild'  BY ToldFine
  <1>2. TablesTyped'  BY DEF FilesInv, TablesTyped
  <1>3. host' \in HostType /\ OwnFds(held, Opens(host'))  BY DEF FilesInv, Steady
  <1> QED BY <1>1, <1>2, <1>3 DEF FilesInv
LEMMA TouchKeeps == ASSUME FilesInv, Touched(host, host'), UNCHANGED <<stdioVars, ntfile, tableVars, held>>, NotPclose' PROVE FilesInv'
  <1>1. Steady(host, host')  BY TouchedSteady
  <1>2. UNCHANGED <<pool, ptab, ntfile, maps, views, lz, held>>  BY DEF stdioVars, tableVars
  <1> QED BY <1>1, <1>2, SteadyKeeps
LEMMA NothingKeeps == ASSUME FilesInv, NEW op, NEW info, Nothing(op, info) PROVE FilesInv'
  <1>1. Told(op, FALSE, info) /\ UNCHANGED <<stdioVars, ntfile, tableVars, held>> /\ host' = host  BY DEF Nothing
  <1>2. NotPclose'  BY <1>1, ToldIs
  <1>3. Touched(host, host')  BY <1>1 DEF Touched, FilesInv
  <1> QED BY <1>1, <1>2, <1>3, TouchKeeps
LEMMA HostHere == ASSUME FilesInv PROVE host \in HostType
  BY DEF FilesInv
LEMMA ReadKeeps == ASSUME FilesInv, NEW h, NEW more, read(h, more) PROVE FilesInv'
  <1>1. PICK f, c : f = h.fd /\ c = HasByte(host, f, more)  OBVIOUS
  <1>2. host' = (IF c THEN HRead(host, f) ELSE host) /\ Told("call", c, NONE) /\ UNCHANGED <<stdioVars, ntfile, tableVars, held>>
    BY <1>1 DEF read
  <1>3. Touched(host, host')  BY <1>1, <1>2, HostHere, MayRead
  <1>4. NotPclose'  BY <1>2, ToldIs
  <1> QED BY <1>2, <1>3, <1>4, TouchKeeps
LEMMA WriteKeeps == ASSUME FilesInv, NEW h, write(h) PROVE FilesInv'
  <1>1. PICK f, c : f = h.fd /\ c = CanWrite(host, f)  OBVIOUS
  <1>2. host' = (IF CanWrite(host, f) THEN HWrite(host, f) ELSE host) /\ Told("call", c, NONE) /\ UNCHANGED <<stdioVars, ntfile, tableVars, held>>
    BY <1>1 DEF write
  <1>3. Touched(host, host')  BY <1>2, HostHere, MayWrite
  <1>4. NotPclose'  BY <1>2, ToldIs
  <1> QED BY <1>2, <1>3, <1>4, TouchKeeps
LEMMA StdioWriteKeeps == ASSUME FilesInv, NEW f, stdio_write(f) PROVE FilesInv'
  <1>2. host' = (IF CanWrite(host, f) THEN HWrite(host, f) ELSE host) /\ Told("call", TRUE, NONE) /\ UNCHANGED <<stdioVars, ntfile, tableVars, held>>
    BY DEF stdio_write
  <1>3. Touched(host, host')  BY <1>2, HostHere, MayWrite
  <1>4. NotPclose'  BY <1>2, ToldIs
  <1> QED BY <1>2, <1>3, <1>4, TouchKeeps
LEMMA MayTruncate == ASSUME NEW H \in HostType, NEW f, NEW n, CanTruncate(H, f) => n \in 0..MaxLen
    PROVE Touched(H, IF CanTruncate(H, f) THEN HTruncate(H, f, n) ELSE H)
  <1>1. CASE CanTruncate(H, f)  BY <1>1, HTruncateIs
  <1>2. CASE ~CanTruncate(H, f)  BY <1>2 DEF Touched
  <1> QED BY <1>1, <1>2
LEMMA WriteFileKeeps == ASSUME FilesInv, NEW h, NEW off \in 0..MaxLen, WriteFile(h, off) PROVE FilesInv'
  <1>1. PICK f, c, n : f = h.fd /\ c = CanTruncate(host, f) /\ n = Max({Size(host, f), off + 1})  OBVIOUS
  <1>2. /\ host' = (IF CanTruncate(host, f) THEN HTruncate(host, f, n) ELSE host) /\ Told("call", c, NONE)
        /\ UNCHANGED <<stdioVars, ntfile, tableVars, held>> /\ off < MaxLen
    BY <1>1 DEF WriteFile
  <1>3. ASSUME CanTruncate(host, f) PROVE n \in 0..MaxLen
    <2>1. Size(host, f) \in 0..MaxLen  BY <1>3, HostHere, RegularIs DEF CanTruncate
    <2>2. Size(host, f) \in Int /\ off + 1 \in Int  BY <2>1
    <2>3. n = IF Size(host, f) < off + 1 THEN off + 1 ELSE Size(host, f)  BY <2>2, <1>1, Max2
    <2> QED BY <2>1, <2>3, <1>2, HostAssumption
  <1>4. Touched(host, host')  BY <1>2, <1>3, HostHere, MayTruncate
  <1>5. NotPclose'  BY <1>2, ToldIs
  <1> QED BY <1>2, <1>4, <1>5, TouchKeeps
LEMMA ReadFileKeeps == ASSUME FilesInv, NEW h, NEW off, ReadFile(h, off) PROVE FilesInv'
  <1>1. PICK c : c = IsOpen(host, h.fd)  OBVIOUS
  <1>2. host' = host /\ Told("call", c, NONE) /\ UNCHANGED <<stdioVars, ntfile, tableVars, held>>  BY <1>1 DEF ReadFile
  <1>3. Touched(host, host')  BY <1>2, HostHere DEF Touched
  <1>4. NotPclose'  BY <1>2, ToldIs
  <1> QED BY <1>2, <1>3, <1>4, TouchKeeps
LEMMA LseekKeeps == ASSUME FilesInv, NEW h, NEW p \in 0..MaxLen, lseek(h, p) PROVE FilesInv'
  <1>1. PICK f : f = h.fd  OBVIOUS
  <1>2. Regular(host, f) /\ host' = HSeek(host, f, p) /\ Told("call", TRUE, NONE) /\ UNCHANGED <<stdioVars, ntfile, tableVars, held>>
    BY <1>1 DEF lseek
  <1>3. IsOpen(host, f)  BY <1>2 DEF Regular
  <1>4. Touched(host, host')  BY <1>2, <1>3, HostHere, HSeekIs
  <1>5. NotPclose'  BY <1>2, ToldIs
  <1> QED BY <1>2, <1>4, <1>5, TouchKeeps
LEMMA ChsizeKeeps == ASSUME FilesInv, NEW h, NEW n \in 0..MaxLen, chsize(h, n) PROVE FilesInv'
  <1>1. PICK f, c : f = h.fd /\ c = CanTruncate(host, f)  OBVIOUS
  <1>2. host' = (IF CanTruncate(host, f) THEN HTruncate(host, f, n) ELSE host) /\ Told("call", c, NONE) /\ UNCHANGED <<stdioVars, ntfile, tableVars, held>>
    BY <1>1 DEF chsize
  <1>3. Touched(host, host')  BY <1>2, HostHere, MayTruncate
  <1>4. NotPclose'  BY <1>2, ToldIs
  <1> QED BY <1>2, <1>3, <1>4, TouchKeeps
LEMMA SetEndOfFileKeeps == ASSUME FilesInv, NEW h, SetEndOfFile(h) PROVE FilesInv'
  <1>1. PICK f, n : f = h.fd /\ n = host.desc[host.fd[f]].pos  OBVIOUS
  <1>2. Regular(host, f) /\ chsize(h, n)  BY <1>1 DEF SetEndOfFile
  <1>3. IsOpen(host, f)  BY <1>2 DEF Regular
  <1>4. host.desc[host.fd[f]] \in Descs  BY <1>3, HostHere, Reaches
  <1>5. n \in 0..MaxLen  BY <1>1, <1>4 DEF Descs
  <1> QED BY <1>2, <1>5, ChsizeKeeps
LEMMA DeleteKeeps == ASSUME FilesInv, NEW n \in Names, OpenFileDelete(n) PROVE FilesInv'
  <1>1. PICK c : c = (n \in Present(host))  OBVIOUS
  <1>2. host' = HUnlink(host, n) /\ Told("unlink", c, NONE) /\ UNCHANGED <<stdioVars, ntfile, tableVars, held>>  BY <1>1 DEF OpenFileDelete
  <1>3. Touched(host, host')  BY <1>2, HostHere, HUnlinkIs
  <1>4. NotPclose'  BY <1>2, ToldIs
  <1> QED BY <1>2, <1>3, <1>4, TouchKeeps
LEMMA MayRename == ASSUME NEW H \in HostType, NEW a \in Names, NEW b \in Names, NEW c PROVE Touched(H, IF c THEN HRename(H, a, b) ELSE H)
  <1>1. CASE c  BY <1>1, HRenameIs
  <1>2. CASE ~c  BY <1>2 DEF Touched
  <1> QED BY <1>1, <1>2
LEMMA MoveKeeps == ASSUME FilesInv, NEW a \in Names, NEW b \in Names, MoveFile(a, b) PROVE FilesInv'
  <1>1. PICK c : c = (a \in Present(host))  OBVIOUS
  <1>2. host' = (IF c THEN HRename(host, a, b) ELSE host) /\ Told("rename", c, NONE) /\ UNCHANGED <<stdioVars, ntfile, tableVars, held>>
    BY <1>1 DEF MoveFile
  <1>3. Touched(host, host')  BY <1>2, HostHere, MayRename
  <1>4. NotPclose'  BY <1>2, ToldIs
  <1> QED BY <1>2, <1>3, <1>4, TouchKeeps
LEMMA MoveExKeeps == ASSUME FilesInv, NEW a \in Names, NEW b \in Names, NEW r, movefileex(a, b, r) PROVE FilesInv'
  <1>1. CASE ~r /\ b \in Present(host)
    <2>1. Nothing("call", NONE)  BY <1>1 DEF movefileex
    <2> QED BY <2>1, NothingKeeps
  <1>2. CASE ~(~r /\ b \in Present(host))
    <2>1. PICK c, op : c = (a \in Present(host)) /\ op = IF r THEN "rename" ELSE "call"  OBVIOUS
    <2>2. host' = (IF c THEN HRename(host, a, b) ELSE host) /\ Told(op, c, NONE) /\ UNCHANGED <<stdioVars, ntfile, tableVars, held>>
      BY <1>2, <2>1 DEF movefileex
    <2>3. Touched(host, host')  BY <2>2, HostHere, MayRename
    <2>4. op # "pclose"  BY <2>1
    <2>5. NotPclose'  BY <2>2, <2>4, ToldIs
    <2> QED BY <2>2, <2>3, <2>5, TouchKeeps
  <1> QED BY <1>1, <1>2
LEMMA GetcharKeeps == ASSUME FilesInv, NEW more, getchar(more) PROVE FilesInv'
  <1>1. PICK f, c : f = Min(Std) /\ c = HasByte(host, f, more)  OBVIOUS
  <1>2. host' = (IF c THEN HRead(host, f) ELSE host) /\ Told("call", c, NONE) /\ UNCHANGED <<stdioVars, ntfile, tableVars, held>>
    BY <1>1 DEF getchar
  <1>3. Touched(host, host')  BY <1>1, <1>2, HostHere, MayRead
  <1>4. NotPclose'  BY <1>2, ToldIs
  <1> QED BY <1>2, <1>3, <1>4, TouchKeeps
\* NtReadFile and NtWriteFile: a seek first.
LEMMA SeekFirst == ASSUME NEW H \in HostType, NEW f, NEW off \in {NONE, 0} PROVE Touched(H, IF off = NONE \/ ~Regular(H, f) THEN H ELSE HSeek(H, f, off))
  <1>1. CASE off = NONE \/ ~Regular(H, f)  BY <1>1 DEF Touched
  <1>2. CASE ~(off = NONE \/ ~Regular(H, f))
    <2>1. off \in 0..MaxLen /\ IsOpen(H, f)  BY <1>2, Constants DEF Regular
    <2>2. Touched(H, HSeek(H, f, off))  BY <2>1, HSeekIs
    <2> QED BY <2>2, <1>2
  <1> QED BY <1>1, <1>2
LEMMA NtReadKeeps == ASSUME FilesInv, NEW h, NEW off \in {NONE, 0}, NEW more, NtReadFile(h, off, more) PROVE FilesInv'
  <1>1. PICK f, H : f = h.fd /\ H = IF off = NONE \/ ~Regular(host, f) THEN host ELSE HSeek(host, f, off)  OBVIOUS
  <1>2. PICK c : c = HasByte(H, f, more)  OBVIOUS
  <1>3. host' = (IF c THEN HRead(H, f) ELSE H) /\ Told("call", c, NONE) /\ UNCHANGED <<stdioVars, ntfile, tableVars, held>>
    BY <1>1, <1>2 DEF NtReadFile
  <1>4. Touched(host, H)  BY <1>1, HostHere, SeekFirst
  <1>5. H \in HostType  BY <1>4 DEF Touched
  <1>6. Touched(H, host')  BY <1>2, <1>3, <1>5, MayRead
  <1>7. Touched(host, host')  BY <1>4, <1>6, TouchedTwice
  <1>8. NotPclose'  BY <1>3, ToldIs
  <1> QED BY <1>3, <1>7, <1>8, TouchKeeps
LEMMA NtWriteKeeps == ASSUME FilesInv, NEW h, NEW off \in {NONE, 0}, NtWriteFile(h, off) PROVE FilesInv'
  <1>1. PICK f, H : f = h.fd /\ H = IF off = NONE \/ ~Regular(host, f) THEN host ELSE HSeek(host, f, off)  OBVIOUS
  <1>2. PICK c : c = CanWrite(H, f)  OBVIOUS
  <1>3. host' = (IF CanWrite(H, f) THEN HWrite(H, f) ELSE H) /\ Told("call", c, NONE) /\ UNCHANGED <<stdioVars, ntfile, tableVars, held>>
    BY <1>1, <1>2 DEF NtWriteFile
  <1>4. Touched(host, H)  BY <1>1, HostHere, SeekFirst
  <1>5. H \in HostType  BY <1>4 DEF Touched
  <1>6. Touched(H, host')  BY <1>3, <1>5, MayWrite
  <1>7. Touched(host, host')  BY <1>4, <1>6, TouchedTwice
  <1>8. NotPclose'  BY <1>3, ToldIs
  <1> QED BY <1>3, <1>7, <1>8, TouchKeeps
LEMMA HeldIs == ASSUME FilesInv, NEW h \in held PROVE h \in Handles /\ h \in HandleRec
  BY DEF FilesInv, Handles
LEMMA OwnerOpen == ASSUME FilesInv, NEW h \in held, h.k \in OwnerKinds PROVE h.fd \in Fds /\ host.fd[h.fd] # NONE /\ h.fd \in Opens(host)
  <1>1. h.fd \in Opens(host)  BY DEF FilesInv, OwnFds
  <1> QED BY <1>1 DEF Opens
LEMMA OfKinds == ASSUME NEW K, NEW h \in Of(K) PROVE h \in held /\ h.k \in K
  BY DEF Of
LEMMA Dup2Keeps == ASSUME FilesInv, NEW a \in Of({"fd"}), NEW b \in Of({"fd"}), dup2(a, b) PROVE FilesInv'
  <1>1. a \in held /\ b \in held /\ a.k \in OwnerKinds /\ b.k \in OwnerKinds  BY OfKinds DEF OwnerKinds
  <1>2. a.fd \in Fds /\ b.fd \in Fds /\ host.fd[a.fd] # NONE /\ host.fd[b.fd] # NONE  BY <1>1, OwnerOpen
  <1>4. PICK x, y : x = a.fd /\ y = b.fd  OBVIOUS
  <1>40. x \in Fds /\ y \in Fds /\ host.fd[x] # NONE /\ host.fd[y] # NONE  BY <1>2, <1>4
  <1>3. host' = HDup2(host, x, y) /\ Told("call", TRUE, NONE) /\ UNCHANGED <<stdioVars, ntfile, tableVars, held>>  BY <1>4 DEF dup2
  <1>5. host' \in HostType /\ host'.fd[y] = host.fd[x] /\ \A f \in Fds : f # y => host'.fd[f] = host.fd[f]
    BY <1>40, <1>3, HostHere, HDup2Is
  <1>6. Steady(host, host')  BY <1>40, <1>5 DEF Steady, Opens
  <1>7. UNCHANGED <<pool, ptab, ntfile, maps, views, lz, held>>  BY <1>3 DEF stdioVars, tableVars
  <1>8. NotPclose'  BY <1>3, ToldIs
  <1> QED BY <1>6, <1>7, <1>8, SteadyKeeps

-----------------------------------------------------------------------------
\* Calls that open.
LEMMA OpenedOpens == ASSUME NEW H, NEW o, Opened(H, o), o.fd # NONE
    PROVE o.fd \in Fds /\ o.fd \notin Opens(H) /\ o.host \in HostType /\ Opens(o.host) = Opens(H) \cup {o.fd}
  BY DEF Opened, Opens
LEMMA HandleIs == ASSUME NEW k \in OwnerKinds, NEW n, n \in Nat \/ n = NONE, NEW f \in Fds
    PROVE Handle(k, n, f) \in Handles /\ Handle(k, n, f).k = k /\ Handle(k, n, f).n = n /\ Handle(k, n, f).fd = f /\ Handle(k, n, f).child = NONE
  BY DEF Handle, Handles, HandleRec, OwnerKinds
\* A new owner without a stream.
LEMMA OwnerKeeps == ASSUME FilesInv, NEW o, Opened(host, o), o.fd # NONE, NEW h \in Handles, h.k \in {"fd", "nt"}, h.fd = o.fd,
           host' = o.host, held' = held \cup {h}, UNCHANGED <<pool, ptab, maps, views, lz>>, ntfile' \in [NtSlots -> NtRec], NotPclose'
    PROVE FilesInv'
  <1>1. o.fd \in Fds /\ o.fd \notin Opens(host) /\ host' \in HostType /\ Opens(host') = Opens(host) \cup {o.fd}  BY OpenedOpens
  <1>2. PcloseOwnChild'  BY ToldFine
  <1>3. TablesTyped'  BY DEF FilesInv, TablesTyped
  <1>4. OwnFds(held, Opens(host)) /\ SlotsHeld(held, pool) /\ Piped(held, ptab) /\ held \subseteq Handles  BY DEF FilesInv
  <1>5. h.k \in OwnerKinds /\ h.k \notin StreamKinds /\ h.k # "pipe"  BY DEF OwnerKinds, StreamKinds
  <1>6. OwnFds(held \cup {h}, Opens(host) \cup {h.fd})  BY <1>1, <1>4, <1>5, OwnAdd
  <1>7. SlotsHeld(held \cup {h}, pool)  BY <1>4, <1>5, SlotsOther
  <1>8. Piped(held \cup {h}, ptab)  BY <1>4, <1>5, PipedMore
  <1> QED BY <1>1, <1>2, <1>3, <1>4, <1>6, <1>7, <1>8 DEF FilesInv
LEMMA NtSame == ASSUME FilesInv, UNCHANGED ntfile PROVE ntfile' \in [NtSlots -> NtRec]
  BY DEF FilesInv, TablesTyped
LEMMA OpenFdKeeps == ASSUME FilesInv, NEW op, op # "pclose", NEW n \in Names, NEW fl, OpenFd(op, n, fl) PROVE FilesInv'
  <1>1. PICK o, c : o = HOpen(host, n, fl) /\ c = (o.fd # NONE)  OBVIOUS
  <1>2. /\ host' = o.host /\ held' = (IF o.fd = NONE THEN held ELSE held \cup {Handle("fd", NONE, o.fd)})
        /\ Told(op, c, NONE) /\ UNCHANGED <<stdioVars, ntfile, tableVars>>
    BY <1>1 DEF OpenFd
  <1>3. Opened(host, o)  BY <1>1, HostHere, HOpenIs
  <1>4. NotPclose'  BY <1>2, ToldIs
  <1>5. CASE o.fd = NONE
    <2>1. host' = host  BY <1>2, <1>3, <1>5, HostAssumption, Constants DEF Opened
    <2>2. Touched(host, host')  BY <2>1, HostHere DEF Touched
    <2>3. UNCHANGED <<stdioVars, ntfile, tableVars, held>>  BY <1>2, <1>5
    <2> QED BY <2>2, <2>3, <1>4, TouchKeeps
  <1>6. CASE o.fd # NONE
    <2>1. o.fd \in Fds  BY <1>3, <1>6 DEF Opened
    <2>2. PICK h : h = Handle("fd", NONE, o.fd)  OBVIOUS
    <2>3. "fd" \in OwnerKinds  BY DEF OwnerKinds
    <2>4. h \in Handles /\ h.k = "fd" /\ h.fd = o.fd  BY <2>1, <2>2, <2>3, HandleIs
    <2>5. h.k \in {"fd", "nt"}  BY <2>4
    <2>6. held' = held \cup {h} /\ UNCHANGED <<pool, ptab, maps, views, lz>> /\ ntfile' = ntfile  BY <1>2, <1>6, <2>2 DEF stdioVars, tableVars
    <2>7. ntfile' \in [NtSlots -> NtRec]  BY <2>6, NtSame
    <2> QED BY <1>2, <1>3, <1>4, <1>6, <2>4, <2>5, <2>6, <2>7, OwnerKeeps
  <1> QED BY <1>5, <1>6
LEMMA OpenFileKeeps == ASSUME FilesInv, NEW n \in Names, NEW s \in {"create", "write", "read", "delete"}, OpenFile(n, s) PROVE FilesInv'
  <1>1. CASE s = "delete"  BY <1>1, DeleteKeeps DEF OpenFile
  <1>2. CASE s = "create"
    <2>1. OpenFd("call", n, {"wr", "creat", "trunc"})  BY <1>2 DEF OpenFile, lcreat
    <2> QED BY <2>1, OpenFdKeeps
  <1>3. CASE s = "write"
    <2>1. OpenFd("call", n, Access(TRUE, TRUE))  BY <1>3 DEF OpenFile, lopen
    <2> QED BY <2>1, OpenFdKeeps
  <1>4. CASE s = "read"
    <2>1. OpenFd("call", n, Access(TRUE, FALSE))  BY <1>4 DEF OpenFile, lopen
    <2> QED BY <2>1, OpenFdKeeps
  <1> QED BY <1>1, <1>2, <1>3, <1>4
LEMMA OpenKeeps == ASSUME FilesInv, NEW n \in Names, NEW wr, NEW bits, open(n, wr, bits) PROVE FilesInv'
  <1>1. OpenFd("call", n, open_flags(wr, bits))  BY DEF open
  <1> QED BY <1>1, OpenFdKeeps
LEMMA CreateFileKeeps == ASSUME FilesInv, NEW n \in Names, NEW wr, NEW d, CreateFile(n, wr, d) PROVE FilesInv'
  <1>1. OpenFd("call", n, open_named_flags(wr, d))  BY DEF CreateFile
  <1> QED BY <1>1, OpenFdKeeps
\* The Nt layer registers what it opens.
LEMMA RegisterIs == ASSUME FilesInv, NEW f \in Fds, NEW p \in Names \cup {NONE} PROVE u32_ntfile_register(f, p) \in [NtSlots -> NtRec]
  <1>1. ntfile \in [NtSlots -> NtRec]  BY DEF FilesInv, TablesTyped
  <1>2. PICK E, F : E = Entries(f) /\ F = {j \in NtSlots : ~ntfile[j].used}  OBVIOUS
  <1>3. E \subseteq NtSlots /\ F \subseteq NtSlots /\ NtSlots \subseteq Nat  BY <1>2, FilesAssumption DEF Entries
  <1>4. PICK i : i = IF E # {} THEN Slot(E) ELSE Slot(F)  OBVIOUS
  <1>5. i = NONE \/ i \in NtSlots
    <2>1. E \subseteq Nat /\ F \subseteq Nat  BY <1>3
    <2>2. (Slot(E) = NONE \/ Slot(E) \in E) /\ (Slot(F) = NONE \/ Slot(F) \in F)  BY <2>1, SlotIn
    <2> QED BY <2>2, <1>3, <1>4
  <1>6. PICK r : r = [NoEntry EXCEPT !.used = TRUE, !.fd = f, !.path = p]  OBVIOUS
  <1>7. r \in NtRec  BY <1>6 DEF NoEntry, NtRec
  <1>8. u32_ntfile_register(f, p) = IF i = NONE THEN ntfile ELSE [ntfile EXCEPT ![i] = r]
    BY <1>2, <1>4, <1>6 DEF u32_ntfile_register, u32_ntfile_slot
  <1> QED BY <1>1, <1>5, <1>7, <1>8
LEMMA NtOpenKeeps == ASSUME FilesInv, NEW n \in Names, NEW wr, NEW disp, u32_nt_open(n, wr, disp) PROVE FilesInv'
  <1>1. PICK ex, o : ex = (n \in Present(host)) /\ o = HOpen(host, n, Access(TRUE, wr) \cup nt_flags(disp))  OBVIOUS
  <1>2. CASE (ex /\ disp = "CREATE") \/ (~ex /\ disp \in {"OPEN", "OVERWRITE"}) \/ o.fd = NONE
    <2>1. Nothing("NtCreateFile", NONE)  BY <1>1, <1>2 DEF u32_nt_open
    <2> QED BY <2>1, NothingKeeps
  <1>3. CASE ~((ex /\ disp = "CREATE") \/ (~ex /\ disp \in {"OPEN", "OVERWRITE"}) \/ o.fd = NONE)
    <2>1. PICK h, i : h = Handle("nt", n, o.fd) /\ i = <<n, nt_info(disp, ex)>>  OBVIOUS
    <2>2. /\ host' = o.host /\ held' = held \cup {h} /\ ntfile' = u32_ntfile_register(o.fd, n)
          /\ Told("NtCreateFile", TRUE, i) /\ UNCHANGED <<stdioVars, tableVars>>
      BY <1>1, <1>3, <2>1 DEF u32_nt_open
    <2>3. Opened(host, o) /\ o.fd # NONE  BY <1>1, <1>3, HostHere, HOpenIs
    <2>4. o.fd \in Fds  BY <2>3 DEF Opened
    <2>5. "nt" \in OwnerKinds /\ n \in Nat \cup {NONE} /\ n \in Names \cup {NONE}  BY HostAssumption DEF OwnerKinds
    <2>6. h \in Handles /\ h.k = "nt" /\ h.fd = o.fd  BY <2>1, <2>4, <2>5, HandleIs
    <2>7. h.k \in {"fd", "nt"}  BY <2>6
    <2>8. ntfile' \in [NtSlots -> NtRec]  BY <2>2, <2>4, <2>5, RegisterIs
    <2>9. UNCHANGED <<pool, ptab, maps, views, lz>>  BY <2>2 DEF stdioVars, tableVars
    <2>10. NotPclose'  BY <2>2, ToldIs
    <2> QED BY <2>2, <2>3, <2>6, <2>7, <2>8, <2>9, <2>10, OwnerKeeps
  <1> QED BY <1>2, <1>3
LEMMA NtOpenDirectoryKeeps == ASSUME FilesInv, NtOpenDirectory PROVE FilesInv'
  <1>1. PICK o : o = HOpenOther(host)  OBVIOUS
  <1>2. CASE o.fd = NONE
    <2>1. Nothing("NtCreateFile", NONE)  BY <1>1, <1>2 DEF NtOpenDirectory
    <2> QED BY <2>1, NothingKeeps
  <1>3. CASE o.fd # NONE
    <2>1. PICK h : h = Handle("nt", NONE, o.fd)  OBVIOUS
    <2>2. /\ host' = o.host /\ held' = held \cup {h} /\ ntfile' = u32_ntfile_register(o.fd, NONE)
          /\ Told("call", TRUE, NONE) /\ UNCHANGED <<stdioVars, tableVars>>
      BY <1>1, <1>3, <2>1 DEF NtOpenDirectory
    <2>3. Opened(host, o)  BY <1>1, HostHere, HOpenOtherIs
    <2>4. o.fd \in Fds  BY <2>3, <1>3 DEF Opened
    <2>5. "nt" \in OwnerKinds /\ NONE \in Nat \cup {NONE} /\ NONE \in Names \cup {NONE}  BY DEF OwnerKinds
    <2>6. h \in Handles /\ h.k = "nt" /\ h.fd = o.fd  BY <2>1, <2>4, <2>5, HandleIs
    <2>7. h.k \in {"fd", "nt"}  BY <2>6
    <2>8. ntfile' \in [NtSlots -> NtRec]  BY <2>2, <2>4, <2>5, RegisterIs
    <2>9. UNCHANGED <<pool, ptab, maps, views, lz>>  BY <2>2 DEF stdioVars, tableVars
    <2>10. NotPclose'  BY <2>2, ToldIs
    <2> QED BY <1>3, <2>2, <2>3, <2>6, <2>7, <2>8, <2>9, <2>10, OwnerKeeps
  <1> QED BY <1>2, <1>3
LEMMA DupKeeps == ASSUME FilesInv, NEW a \in Of({"fd"}), dup(a) PROVE FilesInv'
  <1>1. PICK f, c : f = Min(Free(host)) /\ c = (Free(host) # {})  OBVIOUS
  <1>2. Told("call", c, NONE) /\ UNCHANGED <<stdioVars, ntfile, tableVars>>  BY <1>1 DEF dup
  <1>3. NotPclose'  BY <1>2, ToldIs
  <1>4. CASE Free(host) = {}
    <2>1. UNCHANGED <<host, held>>  BY <1>4 DEF dup
    <2>2. Touched(host, host')  BY <2>1, HostHere DEF Touched
    <2>3. UNCHANGED <<stdioVars, ntfile, tableVars, held>>  BY <2>1, <1>2
    <2> QED BY <2>2, <2>3, <1>3, TouchKeeps
  <1>5. CASE Free(host) # {}
    <2>1. f \in Fds /\ host.fd[f] = NONE
      <3>1. Free(host) \subseteq Nat  BY Constants DEF Free
      <3>2. f \in Free(host)  BY <3>1, <1>1, <1>5, MinIn
      <3> QED BY <3>2 DEF Free
    <2>2. a \in held /\ a.k \in OwnerKinds  BY OfKinds DEF OwnerKinds
    <2>3. PICK x : x = a.fd  OBVIOUS
    <2>4. x \in Fds /\ host.fd[x] # NONE  BY <2>2, <2>3, OwnerOpen
    <2>5. host' = HDup2(host, x, f) /\ held' = held \cup {Handle("fd", NONE, f)}  BY <1>1, <1>5, <2>3 DEF dup
    <2>6. host' \in HostType /\ host'.fd[f] = host.fd[x] /\ \A g \in Fds : g # f => host'.fd[g] = host.fd[g]
      BY <2>1, <2>4, <2>5, HostHere, HDup2Is
    <2>7. PICK o : o = [fd |-> f, host |-> host']  OBVIOUS
    <2>8. o.fd = f /\ o.host = host' /\ f # NONE  BY <2>7, <2>1, Constants
    <2>9. Opened(host, o)  BY <2>1, <2>4, <2>6, <2>8 DEF Opened
    <2>10. PICK h : h = Handle("fd", NONE, f)  OBVIOUS
    <2>11. "fd" \in OwnerKinds  BY DEF OwnerKinds
    <2>12. h \in Handles /\ h.k = "fd" /\ h.fd = o.fd
      <3>1. h \in Handles /\ h.k = "fd" /\ h.fd = f  BY <2>1, <2>10, <2>11, HandleIs
      <3> QED BY <3>1, <2>8
    <2>13. h.k \in {"fd", "nt"} /\ o.fd # NONE  BY <2>8, <2>12
    <2>14. held' = held \cup {h} /\ UNCHANGED <<pool, ptab, maps, views, lz>> /\ ntfile' = ntfile  BY <1>2, <2>5, <2>10 DEF stdioVars, tableVars
    <2>15. ntfile' \in [NtSlots -> NtRec]  BY <2>14, NtSame
    <2>16. host' = o.host  BY <2>8
    <2> QED BY <1>3, <2>9, <2>12, <2>13, <2>14, <2>15, <2>16, OwnerKeeps
  <1> QED BY <1>4, <1>5
LEMMA PipeKeeps == ASSUME FilesInv, pipe PROVE FilesInv'
  <1>1. PICK r : r = HOpenOther(host)  OBVIOUS
  <1>2. PICK w : w = HOpenOther(r.host)  OBVIOUS
  <1>3. CASE r.fd = NONE \/ w.fd = NONE
    <2>1. Nothing("call", NONE)  BY <1>1, <1>2, <1>3 DEF pipe
    <2> QED BY <2>1, NothingKeeps
  <1>4. CASE ~(r.fd = NONE \/ w.fd = NONE)
    <2>1. PICK a, b : a = r.fd /\ b = w.fd  OBVIOUS
    <2>2. PICK g, h : g = Handle("fd", NONE, a) /\ h = Handle("fd", NONE, b)  OBVIOUS
    <2>3. host' = w.host /\ held' = held \cup {g, h} /\ Told("call", TRUE, NONE) /\ UNCHANGED <<stdioVars, ntfile, tableVars>>
      BY <1>1, <1>2, <1>4, <2>1, <2>2 DEF pipe
    <2>4. Opened(host, r)  BY <1>1, HostHere, HOpenOtherIs
    <2>5. a \in Fds /\ a \notin Opens(host) /\ r.host \in HostType /\ Opens(r.host) = Opens(host) \cup {a}
      BY <2>1, <2>4, <1>4, OpenedOpens
    <2>6. Opened(r.host, w)  BY <1>2, <2>5, HOpenOtherIs
    <2>7. b \in Fds /\ b \notin Opens(r.host) /\ host' \in HostType /\ Opens(host') = Opens(r.host) \cup {b}
      BY <2>1, <2>3, <2>6, <1>4, OpenedOpens
    <2>8. "fd" \in OwnerKinds  BY DEF OwnerKinds
    <2>9. g \in Handles /\ g.k = "fd" /\ g.fd = a  BY <2>2, <2>5, <2>8, HandleIs
    <2>10. h \in Handles /\ h.k = "fd" /\ h.fd = b  BY <2>2, <2>7, <2>8, HandleIs
    <2>11. OwnFds(held, Opens(host)) /\ SlotsHeld(held, pool) /\ Piped(held, ptab) /\ held \subseteq Handles  BY DEF FilesInv
    <2>12. PICK X : X = held \cup {g}  OBVIOUS
    <2>13. g.k \in OwnerKinds /\ h.k \in OwnerKinds /\ g.k \notin StreamKinds /\ h.k \notin StreamKinds  BY <2>8, <2>9, <2>10 DEF StreamKinds
    <2>14. OwnFds(X, Opens(host) \cup {g.fd}) /\ SlotsHeld(X, pool) /\ Piped(X, ptab)
      BY <2>5, <2>9, <2>11, <2>12, <2>13, OwnAdd, SlotsOther, PipedMore
    <2>15. OwnFds(X, Opens(r.host)) /\ h.fd \notin Opens(r.host)  BY <2>5, <2>7, <2>9, <2>10, <2>14
    <2>16. OwnFds(X \cup {h}, Opens(r.host) \cup {h.fd}) /\ SlotsHeld(X \cup {h}, pool) /\ Piped(X \cup {h}, ptab)
      BY <2>13, <2>14, <2>15, OwnAdd, SlotsOther, PipedMore
    <2>17. held' = X \cup {h} /\ Opens(host') = Opens(r.host) \cup {h.fd}  BY <2>3, <2>7, <2>10, <2>12
    <2>18. UNCHANGED <<pool, ptab, ntfile, maps, views, lz>>  BY <2>3 DEF stdioVars, tableVars
    <2>19. OwnFds(held', Opens(host')) /\ SlotsHeld(held', pool) /\ Piped(held', ptab) /\ held' \subseteq Handles
      BY <2>9, <2>10, <2>11, <2>16, <2>17, <2>3
    <2>20. TablesTyped'  BY <2>18 DEF FilesInv, TablesTyped
    <2>21. PcloseOwnChild'
      <3>1. NotPclose'  BY <2>3, ToldIs
      <3> QED BY <3>1, ToldFine
    <2> QED BY <2>7, <2>18, <2>19, <2>20, <2>21 DEF FilesInv
  <1> QED BY <1>3, <1>4

-----------------------------------------------------------------------------
\* Calls that close.
LEMMA ClosedOpens == ASSUME NEW H, NEW f \in Fds, NEW T, Closed(H, f, T) PROVE T \in HostType /\ Opens(T) = Opens(H) \ {f}
  BY DEF Closed, Opens
\* A handle without a stream goes, and its descriptor with it.
LEMMA DropKeeps == ASSUME FilesInv, NEW h \in held, h.k \in {"fd", "nt"}, host' \in HostType, Opens(host') = Opens(host) \ {h.fd},
           held' = held \ {h}, UNCHANGED <<pool, ptab, maps, views, lz>>, ntfile' \in [NtSlots -> NtRec], NotPclose'
    PROVE FilesInv'
  <1>2. PcloseOwnChild'  BY ToldFine
  <1>3. TablesTyped'  BY DEF FilesInv, TablesTyped
  <1>4. OwnFds(held, Opens(host)) /\ SlotsHeld(held, pool) /\ Piped(held, ptab) /\ held \subseteq Handles  BY DEF FilesInv
  <1>5. h.k \in OwnerKinds /\ h.k # "pipe"  BY DEF OwnerKinds
  <1>6. OwnFds(held \ {h}, Opens(host) \ {h.fd})  BY <1>4, <1>5, OwnDrop
  <1>7. SlotsHeld(held \ {h}, pool)  BY <1>4, SlotsOther
  <1>8. Piped(held \ {h}, ptab)  BY <1>4, <1>5, PipedMore
  <1> QED BY <1>2, <1>3, <1>4, <1>6, <1>7, <1>8 DEF FilesInv
LEMMA CloseKeeps == ASSUME FilesInv, NEW f \in Fds, close(f) PROVE FilesInv'
  <1>1. /\ f \in Std \/ \E h \in Of({"fd"}) : h.fd = f
        /\ ~\E h \in held \ Of({"fd"}) : h.fd = f
        /\ host' = HClose(host, f) /\ held' = {h \in held : h.fd # f} /\ Told("call", TRUE, NONE) /\ UNCHANGED <<stdioVars, ntfile, tableVars>>
    BY DEF close
  <1>2. Closed(host, f, host')  BY <1>1, HostHere, HCloseIs
  <1>3. host' \in HostType /\ Opens(host') = Opens(host) \ {f}  BY <1>2, ClosedOpens
  <1>4. NotPclose'  BY <1>1, ToldIs
  <1>5. UNCHANGED <<pool, ptab, maps, views, lz>> /\ ntfile' = ntfile  BY <1>1 DEF stdioVars, tableVars
  <1>6. OwnFds(held, Opens(host)) /\ SlotsHeld(held, pool) /\ Piped(held, ptab) /\ held \subseteq Handles  BY DEF FilesInv
  <1>7. \A h \in held : h.fd = f => h.k = "fd" /\ h.k \in OwnerKinds  BY <1>1 DEF Of, OwnerKinds
  <1>8. CASE \E h \in held : h.fd = f
    <2>1. PICK h \in held : h.fd = f  BY <1>8
    <2>2. h.k = "fd" /\ \A g \in held : g.fd = f => g = h  BY <2>1, <1>6, <1>7 DEF OwnFds
    <2>3. held' = held \ {h}  BY <1>1, <2>1, <2>2
    <2>4. h.k \in {"fd", "nt"} /\ Opens(host') = Opens(host) \ {h.fd}  BY <1>3, <2>1, <2>2
    <2>5. ntfile' \in [NtSlots -> NtRec]  BY <1>5, NtSame
    <2> QED BY <2>1, <2>3, <2>4, <2>5, <1>3, <1>4, <1>5, DropKeeps
  <1>9. CASE ~\E h \in held : h.fd = f
    <2>1. held' = held  BY <1>1, <1>9
    <2>2. OwnFds(held, Opens(host'))  BY <1>3, <1>6, <1>9 DEF OwnFds
    <2>3. TablesTyped'  BY <1>5 DEF FilesInv, TablesTyped
    <2>4. PcloseOwnChild'  BY <1>4, ToldFine
    <2> QED BY <1>3, <1>5, <2>1, <2>2, <2>3, <2>4 DEF FilesInv
  <1> QED BY <1>8, <1>9
\* A handle without a descriptor comes and goes.
LEMMA OtherComes == ASSUME FilesInv, Touched(host, host'), NEW h \in Handles, h.k \in {"map", "view", "lz"}, held' = held \cup {h},
           UNCHANGED <<pool, ptab>>, TablesTyped', NotPclose'
    PROVE FilesInv'
  <1>1. OwnFds(held, Opens(host)) /\ SlotsHeld(held, pool) /\ Piped(held, ptab) /\ held \subseteq Handles  BY DEF FilesInv
  <1>2. h.k \notin OwnerKinds /\ h.k \notin StreamKinds  BY DEF OwnerKinds, StreamKinds
  <1>3. OwnFds(held \cup {h}, Opens(host)) /\ SlotsHeld(held \cup {h}, pool) /\ Piped(held \cup {h}, ptab)
    BY <1>1, <1>2, OwnAddOther, SlotsOther, PipedMore
  <1>4. PcloseOwnChild'  BY ToldFine
  <1>5. host' \in HostType /\ Opens(host') = Opens(host)  BY TouchedSteady DEF Steady
  <1> QED BY <1>1, <1>3, <1>4, <1>5 DEF FilesInv
LEMMA OtherGoes == ASSUME FilesInv, host' = host, NEW h \in held, h.k \in {"map", "view", "lz"}, held' = held \ {h},
           UNCHANGED <<pool, ptab>>, TablesTyped', NotPclose'
    PROVE FilesInv'
  <1>1. OwnFds(held, Opens(host)) /\ SlotsHeld(held, pool) /\ Piped(held, ptab) /\ held \subseteq Handles  BY DEF FilesInv
  <1>2. h.k \notin OwnerKinds /\ h.k # "pipe"  BY DEF OwnerKinds
  <1>3. OwnFds(held \ {h}, Opens(host)) /\ SlotsHeld(held \ {h}, pool) /\ Piped(held \ {h}, ptab)
    BY <1>1, <1>2, OwnDropOther, SlotsOther, PipedMore
  <1>4. PcloseOwnChild'  BY ToldFine
  <1> QED BY <1>1, <1>3, <1>4 DEF FilesInv
LEMMA CloseHandleKeeps == ASSUME FilesInv, NEW h \in held, h.k \in {"fd", "nt", "map"}, CloseHandle(h) PROVE FilesInv'
  <1>1. h \in Handles  BY HeldIs
  <1>2. CASE h.k = "map" /\ h.n = NONE
    <2>1. Nothing("call", NONE)  BY <1>2 DEF CloseHandle
    <2> QED BY <2>1, NothingKeeps
  <1>3. CASE ~(h.k = "map" /\ h.n = NONE)
    <2>1. /\ maps' = IF h.k = "map" THEN [maps EXCEPT ![h.n] = NONE] ELSE maps
          /\ host' = IF h.k = "map" THEN host ELSE HClose(host, h.fd)
          /\ held' = held \ {h} /\ Told("call", TRUE, NONE) /\ UNCHANGED <<stdioVars, ntfile, views, lz>>
      BY <1>3 DEF CloseHandle
    <2>2. NotPclose'  BY <2>1, ToldIs
    <2>3. UNCHANGED <<pool, ptab>>  BY <2>1 DEF stdioVars
    <2>4. CASE h.k = "map"
      <3>1. TablesTyped'  BY <2>1 DEF FilesInv, TablesTyped
      <3>2. h.k \in {"map", "view", "lz"} /\ host' = host  BY <2>1, <2>4
      <3> QED BY <3>1, <3>2, <2>1, <2>2, <2>3, OtherGoes
    <2>5. CASE h.k # "map"
      <3>1. h.k \in {"fd", "nt"} /\ h.k \in OwnerKinds  BY <2>5 DEF OwnerKinds
      <3>2. h.fd \in Fds  BY <3>1, OwnerOpen
      <3>3. PICK f : f = h.fd  OBVIOUS
      <3>4. Closed(host, f, host')  BY <2>1, <2>5, <3>2, <3>3, HostHere, HCloseIs
      <3>5. host' \in HostType /\ Opens(host') = Opens(host) \ {h.fd}  BY <3>2, <3>3, <3>4, ClosedOpens
      <3>6. UNCHANGED <<pool, ptab, maps, views, lz>> /\ ntfile' = ntfile  BY <2>1, <2>3, <2>5
      <3>7. ntfile' \in [NtSlots -> NtRec]  BY <3>6, NtSame
      <3> QED BY <2>1, <2>2, <3>1, <3>5, <3>6, <3>7, DropKeeps
    <2> QED BY <2>4, <2>5
  <1> QED BY <1>2, <1>3
LEMMA EntriesIs == ASSUME FilesInv, NEW f, Entries(f) # {} PROVE u32_ntfile_slot(f) \in NtSlots /\ u32_ntfile_slot(f) # NONE
  <1>1. PICK E : E = Entries(f)  OBVIOUS
  <1>2. E \subseteq NtSlots /\ E # {} /\ E \subseteq Nat  BY <1>1, FilesAssumption DEF Entries
  <1>3. Slot(E) \in E /\ Slot(E) # NONE  BY <1>2, SlotIn
  <1> QED BY <1>1, <1>2, <1>3 DEF u32_ntfile_slot
LEMMA NoEntries == ASSUME NEW f, Entries(f) = {} PROVE u32_ntfile_slot(f) = NONE
  BY DEF u32_ntfile_slot, Slot
\* The handle changes, the descriptor does not.
LEMMA SwapKeeps == ASSUME FilesInv, host' = host, NEW h \in held, h.k \in {"fd", "nt"}, NEW g \in Handles, g.k \in {"fd", "nt", "lost"}, g.fd = h.fd,
           held' = (held \ {h}) \cup {g}, UNCHANGED <<pool, ptab, maps, views, lz>>, ntfile' \in [NtSlots -> NtRec], NotPclose'
    PROVE FilesInv'
  <1>1. OwnFds(held, Opens(host)) /\ SlotsHeld(held, pool) /\ Piped(held, ptab) /\ held \subseteq Handles  BY DEF FilesInv
  <1>2. h.k \in OwnerKinds /\ g.k \in OwnerKinds /\ h.k # "pipe" /\ g.k \notin StreamKinds  BY DEF OwnerKinds, StreamKinds
  <1>3. PICK X : X = held \ {h}  OBVIOUS
  <1>4. SlotsHeld(X, pool) /\ Piped(X, ptab)  BY <1>1, <1>2, <1>3, SlotsOther, PipedMore
  <1>5. SlotsHeld(X \cup {g}, pool) /\ Piped(X \cup {g}, ptab)  BY <1>2, <1>4, SlotsOther, PipedMore
  <1>6. OwnFds((held \ {h}) \cup {g}, Opens(host))  BY <1>1, <1>2, OwnSwap
  <1>7. PcloseOwnChild'  BY ToldFine
  <1>8. TablesTyped'  BY DEF FilesInv, TablesTyped
  <1> QED BY <1>1, <1>3, <1>5, <1>6, <1>7, <1>8 DEF FilesInv
LEMMA NtCloseKeeps == ASSUME FilesInv, NEW h \in held, h.k \in {"fd", "nt"}, NtClose(h) PROVE FilesInv'
  <1>1. PICK f : f = h.fd  OBVIOUS
  <1>2. h.k \in OwnerKinds  BY DEF OwnerKinds
  <1>3. f \in Fds  BY <1>1, <1>2, OwnerOpen
  <1>4. aret_ntfile_close(h) /\ Told("NtClose", TRUE, h) /\ UNCHANGED <<stdioVars, tableVars>>  BY DEF NtClose
  <1>5. NotPclose'  BY <1>4, ToldIs
  <1>6. UNCHANGED <<pool, ptab, maps, views, lz>>  BY <1>4 DEF stdioVars, tableVars
  <1>7. CASE Entries(f) = {}
    <2>1. u32_ntfile_slot(f) = NONE  BY <1>7, NoEntries
    <2>2. host' = host /\ ntfile' = ntfile  BY <1>1, <1>4, <2>1 DEF aret_ntfile_close
    <2>3. PICK g : g = [h EXCEPT !.k = "lost"]  OBVIOUS
    <2>4. held' = (held \ {h}) \cup {g}  BY <1>1, <1>7, <2>3 DEF NtClose
    <2>5. g \in Handles /\ g.k = "lost" /\ g.fd = h.fd
      <3>1. h \in HandleRec  BY HeldIs
      <3> QED BY <3>1, <2>3 DEF Handles, HandleRec, OwnerKinds
    <2>6. g.k \in {"fd", "nt", "lost"}  BY <2>5
    <2>7. ntfile' \in [NtSlots -> NtRec]  BY <2>2, NtSame
    <2> QED BY <2>2, <2>4, <2>5, <2>6, <2>7, <1>5, <1>6, SwapKeeps
  <1>8. CASE Entries(f) # {}
    <2>1. PICK s, H : s = u32_ntfile_slot(f) /\ H = HClose(host, f)  OBVIOUS
    <2>2. s \in NtSlots /\ s # NONE  BY <1>8, <2>1, EntriesIs
    <2>3. /\ ntfile' = [ntfile EXCEPT ![s].used = FALSE, ![s].snap = NONE]
          /\ host' = IF ntfile[s].del /\ ntfile[s].path \in Names THEN HUnlink(H, ntfile[s].path) ELSE H
      BY <1>1, <1>4, <2>1, <2>2 DEF aret_ntfile_close
    <2>4. held' = held \ {h}  BY <1>1, <1>8 DEF NtClose
    <2>5. Closed(host, f, H)  BY <1>3, <2>1, HostHere, HCloseIs
    <2>6. H \in HostType /\ Opens(H) = Opens(host) \ {f}  BY <1>3, <2>5, ClosedOpens
    <2>7. Touched(H, host')
      <3>1. PICK p, c : p = ntfile[s].path /\ c = (ntfile[s].del /\ p \in Names)  OBVIOUS
      <3>2. host' = IF c THEN HUnlink(H, p) ELSE H  BY <2>3, <3>1
      <3>3. CASE c  BY <3>1, <3>2, <3>3, <2>6, HUnlinkIs
      <3>4. CASE ~c  BY <3>2, <3>4, <2>6 DEF Touched
      <3> QED BY <3>3, <3>4
    <2>8. host' \in HostType /\ Opens(host') = Opens(host) \ {h.fd}  BY <1>1, <2>6, <2>7, TouchedSteady DEF Steady
    <2>9. ntfile' \in [NtSlots -> NtRec]
      <3>1. ntfile \in [NtSlots -> NtRec]  BY DEF FilesInv, TablesTyped
      <3>2. PICK r : r = [ntfile[s] EXCEPT !.used = FALSE, !.snap = NONE]  OBVIOUS
      <3>3. r \in NtRec  BY <2>2, <3>1, <3>2 DEF NtRec
      <3>4. ntfile' = [ntfile EXCEPT ![s] = r]  BY <2>2, <2>3, <3>1, <3>2
      <3> QED BY <3>1, <3>3, <3>4
    <2> QED BY <2>4, <2>8, <2>9, <1>5, <1>6, DropKeeps
  <1> QED BY <1>7, <1>8
LEMMA DispositionKeeps == ASSUME FilesInv, NEW h \in held, h.k \in {"fd", "nt"}, NEW del \in BOOLEAN, NtSetDisposition(h, del) PROVE FilesInv'
  <1>1. PICK f, names : f = h.fd /\ names = {n \in Names : Regular(host, h.fd) /\ host.name[n] = Ino(host, h.fd)}  OBVIOUS
  <1>2. PICK t : t = IF Entries(f) # {} THEN ntfile ELSE u32_ntfile_register(f, Slot(names))  OBVIOUS
  <1>3. PICK S : S = {i \in NtSlots : t[i].used /\ t[i].fd = f}  OBVIOUS
  <1>4. PICK s : s = Slot(S)  OBVIOUS
  <1>5. PICK kept : kept = IF s = NONE THEN NONE ELSE t[s].path  OBVIOUS
  <1>6. PICK g : g = [h EXCEPT !.del = del, !.kept = kept]  OBVIOUS
  <1>7. /\ ntfile' = (IF s = NONE THEN t ELSE [t EXCEPT ![s].del = del])
        /\ held' = (held \ {h}) \cup {g} /\ Told("call", TRUE, NONE) /\ UNCHANGED <<host, stdioVars, tableVars>>
    BY <1>1, <1>2, <1>3, <1>4, <1>5, <1>6 DEF NtSetDisposition
  <1>8. h.k \in OwnerKinds  BY DEF OwnerKinds
  <1>9. f \in Fds  BY <1>1, <1>8, OwnerOpen
  <1>10. t \in [NtSlots -> NtRec]
    <2>1. names \subseteq Nat /\ names \subseteq Names  BY <1>1, HostAssumption
    <2>2. PICK p : p = Slot(names)  OBVIOUS
    <2>3. p \in Names \cup {NONE}  BY <2>1, <2>2, SlotIn
    <2>4. u32_ntfile_register(f, p) \in [NtSlots -> NtRec]  BY <1>9, <2>3, RegisterIs
    <2> QED BY <1>2, <2>2, <2>4 DEF FilesInv, TablesTyped
  <1>11. s = NONE \/ s \in NtSlots
    <2>1. S \subseteq NtSlots /\ S \subseteq Nat  BY <1>3, FilesAssumption
    <2> QED BY <2>1, <1>4, SlotIn
  <1>12. ntfile' \in [NtSlots -> NtRec]
    <2>1. CASE s = NONE  BY <2>1, <1>7, <1>10
    <2>2. CASE s # NONE
      <3>1. PICK r : r = [t[s] EXCEPT !.del = del]  OBVIOUS
      <3>2. r \in NtRec  BY <2>2, <3>1, <1>10, <1>11 DEF NtRec
      <3>3. ntfile' = [t EXCEPT ![s] = r]  BY <2>2, <3>1, <1>7, <1>10, <1>11
      <3> QED BY <3>2, <3>3, <1>10
    <2> QED BY <2>1, <2>2
  <1>13. kept \in Names \cup {NONE}
    <2>1. CASE s = NONE  BY <2>1, <1>5
    <2>2. CASE s # NONE
      <3>1. t[s] \in NtRec  BY <2>2, <1>10, <1>11
      <3> QED BY <3>1, <2>2, <1>5 DEF NtRec
    <2> QED BY <2>1, <2>2
  <1>14. g \in Handles /\ g.k = h.k /\ g.fd = h.fd
    <2>1. h \in HandleRec  BY HeldIs
    <2> QED BY <2>1, <1>6, <1>13 DEF Handles, HandleRec, OwnerKinds
  <1>15. g.k \in {"fd", "nt", "lost"}  BY <1>14
  <1>16. host' = host /\ UNCHANGED <<pool, ptab, maps, views, lz>>  BY <1>7 DEF stdioVars, tableVars
  <1>17. NotPclose'  BY <1>7, ToldIs
  <1> QED BY <1>7, <1>12, <1>14, <1>15, <1>16, <1>17, SwapKeeps

-----------------------------------------------------------------------------
LEMMA BatchIs == ASSUME NEW q \in Scans, NEW room \in Nat, NEW n, n = Batch(q, room)
    PROVE Gives(q, n) \in Scans
  <1>1. /\ q \in [all : SUBSET Names, left : SUBSET Names, given : SUBSET Names, twice : BOOLEAN]
        /\ ~q.twice /\ q.given \cup q.left = q.all /\ \A m \in q.given, k \in q.left : m < k
    BY DEF Scans
  <1>2. n \subseteq q.left /\ q.left \subseteq Nat /\ IsFiniteSet(q.left)
    <2>1. q.left \in SUBSET Names  BY <1>1
    <2>2. IsFiniteSet(q.left)  BY <2>1, HostAssumption, FS_Subset
    <2> QED BY <2>1, <2>2, HostAssumption DEF Batch
  <1>3. ASSUME NEW m \in n, NEW k \in q.left \ n PROVE m < k
    <2>1. PICK A, B : A = {j \in q.left : j < m} /\ B = {j \in q.left : j < k}  OBVIOUS
    <2>2. Cardinality(A) < room /\ ~(Cardinality(B) < room)  BY <2>1, <1>3 DEF Batch
    <2>3. A \in SUBSET q.left /\ B \in SUBSET q.left  BY <2>1
    <2>4. IsFiniteSet(A) /\ IsFiniteSet(B)  BY <2>3, <1>2, FS_Subset
    <2>5. Cardinality(A) \in Nat /\ Cardinality(B) \in Nat  BY <2>4, FS_CardinalityType
    <2>6. SUFFICES ASSUME ~(m < k) PROVE FALSE  OBVIOUS
    <2>7. m \in Nat /\ k \in Nat /\ k <= m  BY <2>6, <1>2, <1>3
    <2>8. B \in SUBSET A  BY <2>1, <2>7, <1>2
    <2>9. Cardinality(B) <= Cardinality(A)  BY <2>4, <2>8, FS_Subset
    <2> QED BY <2>2, <2>5, <2>9
  <1>4. n \cap q.given = {}
    <2>1. ASSUME NEW m \in n \cap q.given PROVE FALSE
      <3>1. m < m /\ m \in Nat  BY <2>1, <1>1, <1>2
      <3> QED BY <3>1
    <2> QED BY <2>1
  <1>5. PICK r : r = Gives(q, n)  OBVIOUS
  <1>6. r = [all |-> q.all, left |-> q.left \ n, given |-> q.given \cup n, twice |-> FALSE]  BY <1>1, <1>4, <1>5 DEF Gives
  <1>7. r.given \cup r.left = r.all  BY <1>1, <1>2, <1>6
  <1>8. \A m \in r.given, k \in r.left : m < k  BY <1>1, <1>2, <1>3, <1>6
  <1>9. r \in [all : SUBSET Names, left : SUBSET Names, given : SUBSET Names, twice : BOOLEAN] /\ ~r.twice  BY <1>1, <1>2, <1>6
  <1> QED BY <1>5, <1>7, <1>8, <1>9 DEF Scans
LEMMA QueryKeeps == ASSUME FilesInv, NEW h, NEW restart, NEW room \in Nat, NtQueryDirectoryFile(h, restart, room) PROVE FilesInv'
  <1>1. PICK f : f = h.fd  OBVIOUS
  <1>2. CASE Entries(f) = {} \/ ntfile[u32_ntfile_slot(f)].path # NONE
    <2>1. Nothing("call", NONE)  BY <1>1, <1>2 DEF NtQueryDirectoryFile
    <2> QED BY <2>1, NothingKeeps
  <1>3. CASE ~(Entries(f) = {} \/ ntfile[u32_ntfile_slot(f)].path # NONE)
    <2>1. PICK s, all : s = u32_ntfile_slot(f) /\ all = Present(host)  OBVIOUS
    <2>2. s \in NtSlots  BY <1>3, <2>1, EntriesIs
    <2>3. PICK q : q = Scan(s, restart)  OBVIOUS
    <2>4. PICK n : n = Batch(q, room)  OBVIOUS
    <2>5. PICK r : r = Gives(q, n)  OBVIOUS
    <2>6. PICK ok, t : ok = (n # {}) /\ t = IF n = {} THEN q ELSE r  OBVIOUS
    <2>7. UNCHANGED <<host, stdioVars, tableVars, held>> /\ NtQueryDirectory(h, restart, room)  BY <1>1, <1>3 DEF NtQueryDirectoryFile
    <2>8. Told("call", ok, NONE) /\ ntfile' = [ntfile EXCEPT ![s].snap = t]
      BY <1>1, <2>1, <2>3, <2>4, <2>5, <2>6, <2>7 DEF NtQueryDirectory
    <2>9. ntfile \in [NtSlots -> NtRec]  BY DEF FilesInv, TablesTyped
    <2>10. q \in Scans
      <3>1. all \subseteq Names  BY <2>1 DEF Present
      <3>2. ntfile[s].snap \in Scans \cup {NONE}  BY <2>2, <2>9 DEF NtRec
      <3>3. [all |-> all, left |-> all, given |-> {}, twice |-> FALSE] \in Scans  BY <3>1 DEF Scans
      <3> QED BY <3>2, <3>3, <2>1, <2>3 DEF Scan
    <2>11. r \in Scans  BY <2>4, <2>5, <2>10, BatchIs
    <2>12. PICK e : e = [ntfile[s] EXCEPT !.snap = t]  OBVIOUS
    <2>13. e \in NtRec  BY <2>2, <2>6, <2>9, <2>10, <2>11, <2>12 DEF NtRec
    <2>14. ntfile' = [ntfile EXCEPT ![s] = e]  BY <2>2, <2>8, <2>9, <2>12
    <2>15. ntfile' \in [NtSlots -> NtRec]  BY <2>9, <2>13, <2>14
    <2>16. UNCHANGED <<pool, ptab, maps, views, lz, held>> /\ host' = host  BY <2>7 DEF stdioVars, tableVars
    <2>17. TablesTyped'  BY <2>15, <2>16 DEF FilesInv, TablesTyped
    <2>18. NotPclose'  BY <2>8, ToldIs
    <2>19. PcloseOwnChild'  BY <2>18, ToldFine
    <2> QED BY <2>16, <2>17, <2>19 DEF FilesInv
  <1> QED BY <1>2, <1>3

-----------------------------------------------------------------------------
\* File mappings and LZ handles.
LEMMA MoreHandle == ASSUME NEW k, NEW n, NEW f, NEW h, h = Handle(k, n, f),
           \/ k = "map" /\ n \in MapSlots \cup {NONE} /\ f \in Fds
           \/ k = "view" /\ n \in MapSlots /\ f = NONE
           \/ k = "lz" /\ n \in LzSlots /\ f = NONE
    PROVE h \in Handles /\ h.k = k /\ h.n = n /\ h.fd = f
  BY FilesAssumption DEF Handle, Handles, HandleRec, OwnerKinds
LEMMA FreeSlot == ASSUME NEW T, T \subseteq Nat, NEW S, S \subseteq T PROVE Slot(S) = NONE \/ Slot(S) \in S
  BY SlotIn
LEMMA MappingKeeps == ASSUME FilesInv, NEW h \in held, h.k = "fd", NEW size \in 0..MaxLen, NEW wr, CreateFileMapping(h, size, wr) PROVE FilesInv'
  <1>1. PICK f, S : f = h.fd /\ S = {j \in MapSlots : maps[j] = NONE}  OBVIOUS
  <1>2. PICK i, c : i = Slot(S) /\ c = (wr /\ size > 0 /\ CanTruncate(host, f))  OBVIOUS
  <1>3. PICK g : g = Handle("map", i, f)  OBVIOUS
  <1>4. /\ maps' = (IF i = NONE THEN maps ELSE [maps EXCEPT ![i] = f])
        /\ host' = IF c THEN HTruncate(host, f, size) ELSE host
        /\ held' = held \cup {g} /\ Told("call", TRUE, NONE) /\ UNCHANGED <<stdioVars, ntfile, views, lz>>
    BY <1>1, <1>2, <1>3 DEF CreateFileMapping
  <1>5. f \in Fds
    <2>1. h.k \in OwnerKinds  BY DEF OwnerKinds
    <2> QED BY <2>1, <1>1, OwnerOpen
  <1>6. i \in MapSlots \cup {NONE}
    <2>1. S \subseteq Nat /\ S \subseteq MapSlots  BY <1>1, FilesAssumption
    <2> QED BY <2>1, <1>2, SlotIn
  <1>7. g \in Handles /\ g.k = "map"  BY <1>3, <1>5, <1>6, MoreHandle
  <1>8. g.k \in {"map", "view", "lz"}  BY <1>7
  <1>9. Touched(host, host')
    <2>1. CASE c  BY <2>1, <1>2, <1>4, HostHere, HTruncateIs
    <2>2. CASE ~c  BY <2>2, <1>4, HostHere DEF Touched
    <2> QED BY <2>1, <2>2
  <1>10. UNCHANGED <<pool, ptab, ntfile, views, lz>>  BY <1>4 DEF stdioVars
  <1>11. TablesTyped'
    <2>1. maps \in [MapSlots -> Fds \cup {NONE}]  BY DEF FilesInv, TablesTyped
    <2>2. maps' \in [MapSlots -> Fds \cup {NONE}]  BY <2>1, <1>4, <1>5
    <2> QED BY <2>2, <1>10 DEF FilesInv, TablesTyped
  <1>12. NotPclose'  BY <1>4, ToldIs
  <1> QED BY <1>4, <1>7, <1>8, <1>9, <1>10, <1>11, <1>12, OtherComes
LEMMA MapViewKeeps == ASSUME FilesInv, NEW m \in held, m.k = "map", MapViewOfFile(m) PROVE FilesInv'
  <1>1. PICK f, S, c : f = m.fd /\ S = {j \in MapSlots : views[j] = NONE} /\ c = Regular(host, m.fd)  OBVIOUS
  <1>2. PICK i, ino : i = Slot(S) /\ ino = Ino(host, f)  OBVIOUS
  <1>3. PICK g : g = Handle("view", i, NONE)  OBVIOUS
  <1>4. /\ views' = (IF ~c \/ i = NONE THEN views ELSE [views EXCEPT ![i] = ino])
        /\ held' = (IF c /\ i # NONE THEN held \cup {g} ELSE held) /\ Told("call", c, NONE) /\ UNCHANGED <<host, stdioVars, ntfile, maps, lz>>
    BY <1>1, <1>2, <1>3 DEF MapViewOfFile
  <1>5. NotPclose'  BY <1>4, ToldIs
  <1>6. UNCHANGED <<pool, ptab, ntfile, maps, lz>> /\ host' = host  BY <1>4 DEF stdioVars
  <1>7. Touched(host, host')  BY <1>6, HostHere DEF Touched
  <1>8. CASE c /\ i # NONE
    <2>1. i \in MapSlots
      <3>1. S \subseteq Nat /\ S \subseteq MapSlots  BY <1>1, FilesAssumption
      <3> QED BY <3>1, <1>2, <1>8, SlotIn
    <2>2. g \in Handles /\ g.k = "view"  BY <1>3, <2>1, MoreHandle
    <2>3. g.k \in {"map", "view", "lz"} /\ held' = held \cup {g}  BY <2>2, <1>4, <1>8
    <2>4. Regular(host, f)  BY <1>1, <1>8
    <2>5. ino \in Inodes  BY <2>4, <1>2, HostHere, RegularIs
    <2>6. views \in [MapSlots -> Inodes \cup {NONE}]  BY DEF FilesInv, TablesTyped
    <2>7. views' \in [MapSlots -> Inodes \cup {NONE}]  BY <2>1, <2>5, <2>6, <1>4, <1>8
    <2>8. TablesTyped'  BY <2>7, <1>6 DEF FilesInv, TablesTyped
    <2> QED BY <1>5, <1>6, <1>7, <2>2, <2>3, <2>8, OtherComes
  <1>9. CASE ~(c /\ i # NONE)
    <2>1. UNCHANGED <<stdioVars, ntfile, tableVars, held>>  BY <1>4, <1>6, <1>9 DEF stdioVars, tableVars
    <2> QED BY <2>1, <1>5, <1>7, TouchKeeps
  <1> QED BY <1>8, <1>9
LEMMA UnmapKeeps == ASSUME FilesInv, NEW v \in held, v.k = "view", UnmapViewOfFile(v) PROVE FilesInv'
  <1>1. /\ views' = [views EXCEPT ![v.n] = NONE] /\ held' = held \ {v} /\ Told("call", TRUE, NONE)
        /\ UNCHANGED <<host, stdioVars, ntfile, maps, lz>>
    BY DEF UnmapViewOfFile
  <1>2. UNCHANGED <<pool, ptab, ntfile, maps, lz>> /\ host' = host  BY <1>1 DEF stdioVars
  <1>3. TablesTyped'  BY <1>1, <1>2 DEF FilesInv, TablesTyped
  <1>4. NotPclose'  BY <1>1, ToldIs
  <1>5. v.k \in {"map", "view", "lz"}  OBVIOUS
  <1> QED BY <1>1, <1>2, <1>3, <1>4, <1>5, OtherGoes
LEMMA LzIs == ASSUME FilesInv PROVE lz \in [LzSlots -> Bufs]
  BY DEF FilesInv, TablesTyped
LEMMA LzTyped == ASSUME FilesInv, lz' \in [LzSlots -> Bufs], UNCHANGED <<ntfile, maps, views>> PROVE TablesTyped'
  BY DEF FilesInv, TablesTyped
LEMMA LzSlotIs == ASSUME NEW i, i = Slot({j \in LzSlots : ~lz[j].used}) PROVE i = NONE \/ i \in LzSlots
  <1>1. PICK S : S = {j \in LzSlots : ~lz[j].used}  OBVIOUS
  <1>2. S \subseteq Nat /\ S \subseteq LzSlots  BY <1>1, FilesAssumption
  <1> QED BY <1>1, <1>2, SlotIn
LEMMA LzBuffer == ASSUME FilesInv, NEW i \in LzSlots, NEW len \in Nat PROVE [lz EXCEPT ![i] = [used |-> TRUE, len |-> len, pos |-> 0]] \in [LzSlots -> Bufs]
  <1>1. PICK b : b = [used |-> TRUE, len |-> len, pos |-> 0]  OBVIOUS
  <1>2. b \in Bufs  BY <1>1 DEF Bufs
  <1> QED BY <1>1, <1>2, LzIs
LEMMA LzOpenKeeps == ASSUME FilesInv, NEW n, NEW len \in Nat, LZOpenFile(n, len) PROVE FilesInv'
  <1>1. PICK i : i = Slot({j \in LzSlots : ~lz[j].used})  OBVIOUS
  <1>2. i = NONE \/ i \in LzSlots  BY <1>1, LzSlotIs
  <1>3. CASE HOpen(host, n, {}).fd = NONE \/ i = NONE
    <2>1. Nothing("call", NONE)  BY <1>1, <1>3 DEF LZOpenFile
    <2> QED BY <2>1, NothingKeeps
  <1>4. CASE ~(HOpen(host, n, {}).fd = NONE \/ i = NONE)
    <2>1. PICK g : g = Handle("lz", i, NONE)  OBVIOUS
    <2>2. /\ lz' = [lz EXCEPT ![i] = [used |-> TRUE, len |-> len, pos |-> 0]] /\ held' = held \cup {g}
          /\ Told("call", TRUE, NONE) /\ UNCHANGED <<host, stdioVars, ntfile, maps, views>>
      BY <1>1, <1>4, <2>1 DEF LZOpenFile
    <2>3. g \in Handles /\ g.k = "lz"  BY <1>2, <1>4, <2>1, MoreHandle
    <2>4. g.k \in {"map", "view", "lz"}  BY <2>3
    <2>5. UNCHANGED <<pool, ptab, ntfile, maps, views>> /\ host' = host  BY <2>2 DEF stdioVars
    <2>6. lz' \in [LzSlots -> Bufs]  BY <1>2, <1>4, <2>2, LzBuffer
    <2>7. TablesTyped'  BY <2>5, <2>6, LzTyped
    <2>8. NotPclose'  BY <2>2, ToldIs
    <2>9. Touched(host, host')  BY <2>5, HostHere DEF Touched
    <2> QED BY <2>2, <2>3, <2>4, <2>5, <2>7, <2>8, <2>9, OtherComes
  <1> QED BY <1>3, <1>4
LEMMA LzInitKeeps == ASSUME FilesInv, NEW h, NEW len \in Nat, LZInit(h, len) PROVE FilesInv'
  <1>1. PICK i, f, p : i = Slot({j \in LzSlots : ~lz[j].used}) /\ f = h.fd /\ p = Size(host, f)  OBVIOUS
  <1>2. i = NONE \/ i \in LzSlots  BY <1>1, LzSlotIs
  <1>3. PICK g, c : g = Handle("lz", i, NONE) /\ c = (i # NONE)  OBVIOUS
  <1>4. /\ Regular(host, f) /\ host' = HSeek(host, f, p)
        /\ lz' = (IF i = NONE THEN lz ELSE [lz EXCEPT ![i] = [used |-> TRUE, len |-> len, pos |-> 0]])
        /\ held' = (IF i = NONE THEN held ELSE held \cup {g}) /\ Told("call", c, NONE) /\ UNCHANGED <<stdioVars, ntfile, maps, views>>
    BY <1>1, <1>3 DEF LZInit
  <1>5. IsOpen(host, f) /\ p \in 0..MaxLen  BY <1>1, <1>4, HostHere, RegularIs
  <1>6. Touched(host, host')  BY <1>4, <1>5, HostHere, HSeekIs
  <1>7. NotPclose'  BY <1>4, ToldIs
  <1>8. UNCHANGED <<pool, ptab, ntfile, maps, views>>  BY <1>4 DEF stdioVars
  <1>9. CASE i = NONE
    <2>1. UNCHANGED <<stdioVars, ntfile, tableVars, held>>  BY <1>4, <1>9 DEF tableVars
    <2> QED BY <2>1, <1>6, <1>7, TouchKeeps
  <1>10. CASE i # NONE
    <2>1. g \in Handles /\ g.k = "lz"  BY <1>2, <1>3, <1>10, MoreHandle
    <2>2. g.k \in {"map", "view", "lz"} /\ held' = held \cup {g}  BY <1>4, <1>10, <2>1
    <2>3. lz' \in [LzSlots -> Bufs]  BY <1>2, <1>4, <1>10, LzBuffer
    <2>4. TablesTyped'  BY <1>8, <2>3, LzTyped
    <2> QED BY <1>6, <1>7, <1>8, <2>1, <2>2, <2>4, OtherComes
  <1> QED BY <1>9, <1>10
LEMMA LzMoves == ASSUME FilesInv, NEW i \in LzSlots, NEW p \in Nat, p <= lz[i].len, lz' = [lz EXCEPT ![i].pos = p],
           UNCHANGED <<host, stdioVars, ntfile, maps, views, held>>, NotPclose'
    PROVE FilesInv'
  <1>1. PICK b : b = [lz[i] EXCEPT !.pos = p]  OBVIOUS
  <1>2. b \in Bufs  BY <1>1, LzIs DEF Bufs
  <1>3. lz' \in [LzSlots -> Bufs]
    <2>1. lz' = [lz EXCEPT ![i] = b]  BY <1>1, LzIs
    <2> QED BY <2>1, <1>2, LzIs
  <1>4. TablesTyped'  BY <1>3, LzTyped
  <1>5. PcloseOwnChild'  BY ToldFine
  <1> QED BY <1>4, <1>5 DEF FilesInv, stdioVars
LEMMA LzReadKeeps == ASSUME FilesInv, NEW z \in held, z.k = "lz", NEW want \in Nat, LZRead(z, want) PROVE FilesInv'
  <1>1. PICK i : i = z.n  OBVIOUS
  <1>2. i \in LzSlots  BY <1>1, HeldIs DEF Handles
  <1>3. lz[i] \in Bufs  BY <1>2, LzIs
  <1>4. PICK a, l : a = lz[i].pos /\ l = lz[i].len  OBVIOUS
  <1>5. a \in Nat /\ l \in Nat /\ a <= l  BY <1>3, <1>4 DEF Bufs
  <1>6. PICK d : d = l - a  OBVIOUS
  <1>7. PICK n, p, c : n = Min({want, d}) /\ p = a + n /\ c = (n > 0)  OBVIOUS
  <1>8. n = IF want < d THEN want ELSE d  BY <1>5, <1>6, <1>7, Min2
  <1>9. p \in Nat /\ p <= l  BY <1>5, <1>6, <1>7, <1>8
  <1>10. lz' = [lz EXCEPT ![i].pos = p] /\ Told("call", c, NONE) /\ UNCHANGED <<host, stdioVars, ntfile, maps, views, held>>
    BY <1>1, <1>2, <1>4, <1>6, <1>7, LzIs DEF LZRead
  <1>11. NotPclose'  BY <1>10, ToldIs
  <1> QED BY <1>2, <1>4, <1>9, <1>10, <1>11, LzMoves
LEMMA LzSeekKeeps == ASSUME FilesInv, NEW z \in held, z.k = "lz", NEW o \in {"set", "cur", "end"}, NEW off \in Int, LZSeek(z, o, off) PROVE FilesInv'
  <1>1. PICK i : i = z.n  OBVIOUS
  <1>2. i \in LzSlots  BY <1>1, HeldIs DEF Handles
  <1>3. lz[i] \in Bufs  BY <1>2, LzIs
  <1>4. PICK a, l : a = lz[i].pos /\ l = lz[i].len  OBVIOUS
  <1>5. a \in Nat /\ l \in Nat /\ a <= l  BY <1>3, <1>4 DEF Bufs
  <1>6. PICK base : base = CASE o = "set" -> 0 [] o = "cur" -> a [] o = "end" -> l  OBVIOUS
  <1>7. base \in Nat  BY <1>5, <1>6
  <1>8. PICK np : np = off + base  OBVIOUS
  <1>9. PICK n : n = Min({np, l})  OBVIOUS
  <1>10. PICK p : p = Max({0, n})  OBVIOUS
  <1>11. np \in Int /\ l \in Int  BY <1>5, <1>7, <1>8
  <1>12. n = IF np < l THEN np ELSE l  BY <1>9, <1>11, Min2
  <1>13. n \in Int  BY <1>11, <1>12
  <1>14. p = IF 0 < n THEN n ELSE 0  BY <1>10, <1>13, Max2
  <1>15. p \in Nat /\ p <= l  BY <1>5, <1>11, <1>12, <1>14
  <1>16. lz' = [lz EXCEPT ![i].pos = p] /\ Told("call", TRUE, NONE) /\ UNCHANGED <<host, stdioVars, ntfile, maps, views, held>>
    BY <1>1, <1>4, <1>6, <1>8, <1>9, <1>10 DEF LZSeek
  <1>17. NotPclose'  BY <1>16, ToldIs
  <1> QED BY <1>2, <1>4, <1>15, <1>16, <1>17, LzMoves
LEMMA LzCloseKeeps == ASSUME FilesInv, NEW z \in held, z.k = "lz", LZClose(z) PROVE FilesInv'
  <1>1. PICK i : i = z.n  OBVIOUS
  <1>2. i \in LzSlots  BY <1>1, HeldIs DEF Handles
  <1>3. /\ lz' = [lz EXCEPT ![i] = NoBuf] /\ held' = held \ {z} /\ Told("call", TRUE, NONE)
        /\ UNCHANGED <<host, stdioVars, ntfile, maps, views>>
    BY <1>1 DEF LZClose
  <1>4. NoBuf \in Bufs  BY DEF NoBuf, Bufs
  <1>5. lz' \in [LzSlots -> Bufs]  BY <1>2, <1>3, <1>4, LzIs
  <1>6. UNCHANGED <<pool, ptab>> /\ host' = host  BY <1>3 DEF stdioVars
  <1>7. TablesTyped'  BY <1>3, <1>5, LzTyped
  <1>8. NotPclose'  BY <1>3, ToldIs
  <1>9. z.k \in {"map", "view", "lz"}  OBVIOUS
  <1> QED BY <1>3, <1>6, <1>7, <1>8, <1>9, OtherGoes
-----------------------------------------------------------------------------
\* Streams.
LEMMA StreamIs == ASSUME FilesInv, NEW h \in Streams
    PROVE /\ h.n \in FILEs /\ h.fd \in Fds /\ h.k \in {"stream", "pipe", "iob"}
          /\ h \in held => h.k \in StreamKinds /\ h.k \in OwnerKinds /\ h.n \in DynFiles /\ h \in Handles
          /\ h \notin held => h.k = "iob" /\ h.n \in Std /\ h.fd \in Std
  <1>1. CASE h \in Of({"stream", "pipe"})
    <2>1. h \in held /\ h.k \in {"stream", "pipe"}  BY <1>1, OfKinds
    <2>2. h.k \in StreamKinds /\ h.k \in OwnerKinds  BY <2>1 DEF StreamKinds, OwnerKinds
    <2>3. h.n \in DynFiles  BY <2>1, <2>2 DEF FilesInv, SlotsHeld
    <2>4. h.fd \in Fds  BY <2>1, <2>2, OwnerOpen
    <2>5. h \in Handles  BY <2>1, HeldIs
    <2> QED BY <2>1, <2>2, <2>3, <2>4, <2>5 DEF FILEs
  <1>2. CASE h \in StdHandles
    <2>1. PICK f \in Std : h = Handle("iob", f, f)  BY <1>2 DEF StdHandles
    <2>2. h.k = "iob" /\ h.n = f /\ h.fd = f  BY <2>1 DEF Handle
    <2>3. h \notin held
      <3>1. h \notin HandleRec  BY <2>2 DEF HandleRec, OwnerKinds
      <3> QED BY <3>1, HeldIs
    <2> QED BY <2>1, <2>2, <2>3, HostAssumption DEF FILEs
  <1> QED BY <1>1, <1>2 DEF Streams
LEMMA FdThere == ASSUME FilesInv, NEW h \in Streams PROVE file_fd(h.n) \in Fds
  <1>1. h.n \in FILEs  BY StreamIs
  <1>2. pool \in [FILEs -> PoolRec]  BY DEF FilesInv
  <1>3. pool[h.n].fd \in Fds  BY <1>1, <1>2 DEF PoolRec
  <1> QED BY <1>3, HostAssumption DEF file_fd
\* The program notes that a byte waits, or that none does.
LEMMA PushedIs == ASSUME FilesInv, NEW h \in Streams, NEW b \in BOOLEAN, NEW O, OwnFds(held, O), NEW Q,
           \A f \in FILEs : Q[f].used = pool[f].used, \A f \in FILEs : f # h.n => Q[f] = pool[f], Q[h.n].ungot => b
    PROVE Pushed(h, b) \subseteq Handles /\ OwnFds(Pushed(h, b), O) /\ SlotsHeld(Pushed(h, b), Q) /\ Piped(Pushed(h, b), ptab)
  <1>1. SlotsHeld(held, pool) /\ Piped(held, ptab) /\ held \subseteq Handles  BY DEF FilesInv
  <1>2. DynFiles \subseteq FILEs  BY DEF FILEs
  <1>3. CASE h \in held
    <2>1. h.k \in StreamKinds /\ h.k \in OwnerKinds /\ h.n \in DynFiles /\ h \in Handles  BY <1>3, StreamIs
    <2>2. PICK g : g = [h EXCEPT !.pushed = b]  OBVIOUS
    <2>3. PICK X : X = Pushed(h, b)  OBVIOUS
    <2>4. X = (held \ {h}) \cup {g}  BY <1>3, <2>2, <2>3 DEF Pushed
    <2>5. h \in HandleRec  BY <1>3, HeldIs
    <2>6. g \in Handles /\ g.k = h.k /\ g.n = h.n /\ g.fd = h.fd /\ g.child = h.child /\ g.pushed = b
      BY <2>1, <2>2, <2>5 DEF Handles, HandleRec
    <2>7. OwnFds(X, O)
      <3>1. g.fd = h.fd /\ g.k \in OwnerKinds /\ h.k \in OwnerKinds  BY <2>1, <2>6
      <3>2. OwnFds((held \ {h}) \cup {g}, O)  BY <3>1, <1>3, OwnSwap
      <3> QED BY <3>2, <2>4
    <2>8. SlotsHeld(X, Q)
      <3>1. \A x \in X : x.k \in StreamKinds => x.n \in DynFiles /\ Q[x.n].used /\ (Q[x.n].ungot => x.pushed)
        <4>1. SUFFICES ASSUME NEW x \in X, x.k \in StreamKinds PROVE x.n \in DynFiles /\ Q[x.n].used /\ (Q[x.n].ungot => x.pushed)
          OBVIOUS
        <4>2. CASE x = g
          <5>1. pool[h.n].used  BY <1>1, <1>3, <2>1 DEF SlotsHeld
          <5> QED BY <5>1, <4>2, <2>1, <2>6, <1>2
        <4>3. CASE x # g
          <5>1. x \in held /\ x # h  BY <4>3, <2>4
          <5>2. x.n \in DynFiles /\ pool[x.n].used /\ (pool[x.n].ungot => x.pushed)  BY <5>1, <4>1, <1>1 DEF SlotsHeld
          <5>3. x.n # h.n  BY <5>1, <4>1, <1>1, <1>3, <2>1 DEF SlotsHeld
          <5> QED BY <5>2, <5>3, <1>2
        <4> QED BY <4>2, <4>3
      <3>2. \A x, y \in X : x.k \in StreamKinds /\ y.k \in StreamKinds /\ x.n = y.n => x = y
        BY <1>1, <1>3, <2>1, <2>4, <2>6 DEF SlotsHeld
      <3> QED BY <3>1, <3>2 DEF SlotsHeld
    <2>9. Piped(X, ptab)
      <3>1. \A i \in PopenSlots : ptab[i] = NoHost \/ \E x \in X : x.k = "pipe" /\ ptab[i] = PipeOf(x)
        <4>1. SUFFICES ASSUME NEW i \in PopenSlots, ptab[i] # NoHost PROVE \E x \in X : x.k = "pipe" /\ ptab[i] = PipeOf(x)
          OBVIOUS
        <4>2. PICK x \in held : x.k = "pipe" /\ ptab[i] = PipeOf(x)  BY <4>1, <1>1 DEF Piped
        <4>3. CASE x = h
          <5>1. PipeOf(g) = PipeOf(h)  BY <2>6 DEF PipeOf
          <5> QED BY <5>1, <4>2, <4>3, <2>4, <2>6
        <4>4. CASE x # h  BY <4>2, <4>4, <2>4
        <4> QED BY <4>3, <4>4
      <3> QED BY <3>1, <1>1 DEF Piped
    <2>10. X \subseteq Handles  BY <1>1, <2>4, <2>6
    <2> QED BY <2>3, <2>7, <2>8, <2>9, <2>10
  <1>4. CASE h \notin held
    <2>1. Pushed(h, b) = held  BY <1>4 DEF Pushed
    <2>2. h.n \in Std  BY <1>4, StreamIs
    <2>3. \A f \in DynFiles : Q[f] = pool[f]  BY <2>2, <1>2, FilesAssumption
    <2>4. SlotsHeld(held, Q)  BY <2>3, <1>1 DEF SlotsHeld
    <2> QED BY <2>1, <2>4, <1>1
  <1> QED BY <1>3, <1>4
LEMMA StreamKeeps == ASSUME FilesInv, NEW h \in Streams, NEW b \in BOOLEAN, host' \in HostType, OwnFds(held, Opens(host')), held' = Pushed(h, b),
           pool' \in [FILEs -> PoolRec], \A f \in FILEs : pool'[f].used = pool[f].used, \A f \in FILEs : f # h.n => pool'[f] = pool[f],
           pool'[h.n].ungot => b, UNCHANGED <<ptab, ntfile, tableVars>>, NotPclose'
    PROVE FilesInv'
  <1>1. PICK X, O, Q : X = held' /\ O = Opens(host') /\ Q = pool'  OBVIOUS
  <1>2. X \subseteq Handles /\ OwnFds(X, O) /\ SlotsHeld(X, Q) /\ Piped(X, ptab)
    <2>1. OwnFds(held, O)  BY <1>1
    <2>2. /\ \A f \in FILEs : Q[f].used = pool[f].used
          /\ \A f \in FILEs : f # h.n => Q[f] = pool[f]
          /\ Q[h.n].ungot => b
      BY <1>1
    <2>3. Pushed(h, b) \subseteq Handles /\ OwnFds(Pushed(h, b), O) /\ SlotsHeld(Pushed(h, b), Q) /\ Piped(Pushed(h, b), ptab)
      BY <2>1, <2>2, PushedIs
    <2> QED BY <2>3, <1>1
  <1>3. ptab' = ptab /\ UNCHANGED <<ntfile, maps, views, lz>>  BY DEF tableVars
  <1>4. TablesTyped'  BY <1>3 DEF FilesInv, TablesTyped
  <1>5. PcloseOwnChild'  BY ToldFine
  <1> QED BY <1>1, <1>2, <1>3, <1>4, <1>5 DEF FilesInv
\* The same when what the program knows of the stream stays.
LEMMA MarkKeeps == ASSUME FilesInv, NEW h \in Streams, Touched(host, host'), pool' \in [FILEs -> PoolRec],
           \A f \in FILEs : pool'[f].used = pool[f].used /\ pool'[f].ungot = pool[f].ungot,
           UNCHANGED <<ptab, ntfile, tableVars, held>>, NotPclose'
    PROVE FilesInv'
  <1>1. SlotsHeld(held, pool')
    <2>1. DynFiles \subseteq FILEs  BY DEF FILEs
    <2> QED BY <2>1 DEF FilesInv, SlotsHeld
  <1>2. host' \in HostType /\ Opens(host') = Opens(host)  BY TouchedSteady DEF Steady
  <1>3. ptab' = ptab /\ UNCHANGED <<ntfile, maps, views, lz>> /\ held' = held  BY DEF tableVars
  <1>4. TablesTyped'  BY <1>3 DEF FilesInv, TablesTyped
  <1>5. PcloseOwnChild'  BY ToldFine
  <1> QED BY <1>1, <1>2, <1>3, <1>4, <1>5 DEF FilesInv
LEMMA TouchOwns == ASSUME FilesInv, Touched(host, host') PROVE host' \in HostType /\ OwnFds(held, Opens(host'))
  <1>1. host' \in HostType /\ Opens(host') = Opens(host)  BY TouchedSteady DEF Steady
  <1> QED BY <1>1 DEF FilesInv
\* One structure of the pool changes.
LEMMA ByteKeeps == ASSUME FilesInv, NEW h \in Streams, NEW b \in BOOLEAN, Touched(host, host'), held' = Pushed(h, b),
           NEW r \in PoolRec, r.used = pool[h.n].used, r.ungot => b, pool' = [pool EXCEPT ![h.n] = r],
           UNCHANGED <<ptab, ntfile, tableVars>>, NotPclose'
    PROVE FilesInv'
  <1>1. h.n \in FILEs  BY StreamIs
  <1>2. pool \in [FILEs -> PoolRec]  BY DEF FilesInv
  <1>3. pool' \in [FILEs -> PoolRec] /\ pool'[h.n] = r /\ \A f \in FILEs : f # h.n => pool'[f] = pool[f]  BY <1>1, <1>2
  <1>4. \A f \in FILEs : pool'[f].used = pool[f].used  BY <1>3
  <1>5. pool'[h.n].ungot => b  BY <1>3
  <1>6. host' \in HostType /\ OwnFds(held, Opens(host'))  BY TouchOwns
  <1> QED BY <1>3, <1>4, <1>5, <1>6, StreamKeeps
LEMMA PullKeeps == ASSUME FilesInv, NEW h \in Streams, NEW more, pull_byte(h, more) PROVE FilesInv'
  <1>1. PICK s, some, f, c, ok : /\ s = pool[h.n] /\ f = file_fd(h.n) /\ some = HasByte(host, f, more) /\ c = (~s.ungot /\ some)
                                 /\ ok = (s.ungot \/ some)
    OBVIOUS
  <1>2. host' = IF c THEN HRead(host, f) ELSE host  BY <1>1 DEF pull_byte
  <1>3. /\ pool' = IF s.ungot THEN [pool EXCEPT ![h.n].ungot = FALSE] ELSE IF some THEN pool ELSE [pool EXCEPT ![h.n].eof = TRUE]
        /\ held' = Pushed(h, FALSE) /\ Told("call", ok, NONE) /\ UNCHANGED <<ptab, ntfile, tableVars>>
    BY <1>1 DEF pull_byte
  <1>4. Touched(host, host')
    <2>1. c => HasByte(host, f, more)  BY <1>1
    <2> QED BY <2>1, <1>2, HostHere, MayRead
  <1>5. NotPclose'  BY <1>3, ToldIs
  <1>6. h.n \in FILEs /\ pool \in [FILEs -> PoolRec] /\ s \in PoolRec
    <2>1. h.n \in FILEs  BY StreamIs
    <2> QED BY <2>1, <1>1 DEF FilesInv
  <1>7. PICK r : r = IF s.ungot THEN [s EXCEPT !.ungot = FALSE] ELSE IF some THEN s ELSE [s EXCEPT !.eof = TRUE]  OBVIOUS
  <1>8. pool' = [pool EXCEPT ![h.n] = r]
    <2>1. CASE s.ungot  BY <2>1, <1>1, <1>3, <1>6, <1>7
    <2>2. CASE ~s.ungot /\ some  BY <2>2, <1>1, <1>3, <1>6, <1>7
    <2>3. CASE ~s.ungot /\ ~some  BY <2>3, <1>1, <1>3, <1>6, <1>7
    <2> QED BY <2>1, <2>2, <2>3
  <1>9. r \in PoolRec /\ r.used = pool[h.n].used /\ (r.ungot => FALSE)  BY <1>1, <1>6, <1>7 DEF PoolRec
  <1> QED BY <1>3, <1>4, <1>5, <1>8, <1>9, ByteKeeps
\* Two bytes, the second from where the first left the host.
LEMMA TwoBytes == ASSUME NEW H \in HostType, NEW f, NEW more, NEW c, c => HasByte(H, f, more), NEW A, A = (IF c THEN HRead(H, f) ELSE H),
           NEW d, d => HasByte(A, f, more), NEW T, T = (IF d THEN HRead(A, f) ELSE A)
    PROVE Touched(H, T)
  <1>1. Touched(H, A)  BY MayRead
  <1>2. A \in HostType  BY <1>1 DEF Touched
  <1>3. Touched(A, T)  BY <1>2, MayRead
  <1> QED BY <1>1, <1>3, TouchedTwice
LEMMA FgetsKeeps == ASSUME FilesInv, NEW h \in Streams, NEW more, fgets(h, more) PROVE FilesInv'
  <1>1. PICK s, f, one, c, A : /\ s = pool[h.n] /\ f = file_fd(h.n) /\ one = (s.ungot \/ HasByte(host, f, more)) /\ c = (~s.ungot /\ one)
                               /\ A = IF c THEN HRead(host, f) ELSE host
    OBVIOUS
  <1>2. PICK two, e : two = (one /\ HasByte(A, f, more)) /\ e = (s.eof \/ ~two)  OBVIOUS
  <1>3. /\ host' = (IF two THEN HRead(A, f) ELSE A) /\ pool' = [pool EXCEPT ![h.n].ungot = FALSE, ![h.n].eof = @ \/ ~two]
        /\ held' = Pushed(h, FALSE) /\ Told("call", one, NONE) /\ UNCHANGED <<ptab, ntfile, tableVars>>
    BY <1>1, <1>2 DEF fgets
  <1>4. Touched(host, host')
    <2>1. (c => HasByte(host, f, more)) /\ (two => HasByte(A, f, more))  BY <1>1, <1>2
    <2> QED BY <2>1, <1>1, <1>3, HostHere, TwoBytes
  <1>5. NotPclose'  BY <1>3, ToldIs
  <1>6. h.n \in FILEs /\ pool \in [FILEs -> PoolRec] /\ s \in PoolRec
    <2>1. h.n \in FILEs  BY StreamIs
    <2> QED BY <2>1, <1>1 DEF FilesInv
  <1>7. PICK r : r = [s EXCEPT !.ungot = FALSE, !.eof = e]  OBVIOUS
  <1>8. pool' = [pool EXCEPT ![h.n] = r]  BY <1>1, <1>2, <1>3, <1>6, <1>7 DEF PoolRec
  <1>9. e \in BOOLEAN  BY <1>2
  <1>10. r \in PoolRec /\ r.used = pool[h.n].used /\ (r.ungot => FALSE)  BY <1>1, <1>6, <1>7, <1>9 DEF PoolRec
  <1> QED BY <1>3, <1>4, <1>5, <1>8, <1>10, ByteKeeps
LEMMA FreadKeeps == ASSUME FilesInv, NEW h \in Streams, NEW more, fread(h, more) PROVE FilesInv'
  <1>1. PICK s, f, one, c, A : /\ s = pool[h.n] /\ f = file_fd(h.n) /\ one = (s.ungot \/ HasByte(host, f, more)) /\ c = (~s.ungot /\ one)
                               /\ A = IF c THEN HRead(host, f) ELSE host
    OBVIOUS
  <1>2. PICK two, e : two = (one /\ HasByte(A, f, more)) /\ e = (s.eof \/ ~one)  OBVIOUS
  <1>3. /\ host' = (IF two THEN HRead(A, f) ELSE A) /\ pool' = [pool EXCEPT ![h.n].ungot = FALSE, ![h.n].eof = @ \/ ~one]
        /\ held' = Pushed(h, FALSE) /\ Told("call", one, NONE) /\ UNCHANGED <<ptab, ntfile, tableVars>>
    BY <1>1, <1>2 DEF fread
  <1>4. Touched(host, host')
    <2>1. (c => HasByte(host, f, more)) /\ (two => HasByte(A, f, more))  BY <1>1, <1>2
    <2> QED BY <2>1, <1>1, <1>3, HostHere, TwoBytes
  <1>5. NotPclose'  BY <1>3, ToldIs
  <1>6. h.n \in FILEs /\ pool \in [FILEs -> PoolRec] /\ s \in PoolRec
    <2>1. h.n \in FILEs  BY StreamIs
    <2> QED BY <2>1, <1>1 DEF FilesInv
  <1>7. PICK r : r = [s EXCEPT !.ungot = FALSE, !.eof = e]  OBVIOUS
  <1>8. pool' = [pool EXCEPT ![h.n] = r]  BY <1>1, <1>2, <1>3, <1>6, <1>7 DEF PoolRec
  <1>9. e \in BOOLEAN  BY <1>2
  <1>10. r \in PoolRec /\ r.used = pool[h.n].used /\ (r.ungot => FALSE)  BY <1>1, <1>6, <1>7, <1>9 DEF PoolRec
  <1> QED BY <1>3, <1>4, <1>5, <1>8, <1>10, ByteKeeps
LEMMA UngetcKeeps == ASSUME FilesInv, NEW h \in Streams, ungetc(h) PROVE FilesInv'
  <1>1. /\ pool' = [pool EXCEPT ![h.n].ungot = TRUE, ![h.n].eof = FALSE]
        /\ held' = Pushed(h, TRUE) /\ Told("call", TRUE, NONE) /\ UNCHANGED <<ptab, ntfile, tableVars>> /\ host' = host
    BY DEF ungetc
  <1>2. Touched(host, host')  BY <1>1, HostHere DEF Touched
  <1>3. NotPclose'  BY <1>1, ToldIs
  <1>4. PICK s : s = pool[h.n]  OBVIOUS
  <1>5. h.n \in FILEs /\ pool \in [FILEs -> PoolRec] /\ s \in PoolRec
    <2>1. h.n \in FILEs  BY StreamIs
    <2> QED BY <2>1, <1>4 DEF FilesInv
  <1>6. PICK r : r = [s EXCEPT !.ungot = TRUE, !.eof = FALSE]  OBVIOUS
  <1>7. pool' = [pool EXCEPT ![h.n] = r]  BY <1>1, <1>4, <1>5, <1>6
  <1>8. r \in PoolRec /\ r.used = pool[h.n].used /\ (r.ungot => TRUE)  BY <1>4, <1>5, <1>6 DEF PoolRec
  <1> QED BY <1>1, <1>2, <1>3, <1>7, <1>8, ByteKeeps
LEMMA FseekKeeps == ASSUME FilesInv, NEW h \in Streams, NEW p \in 0..MaxLen, fseek(h, p) PROVE FilesInv'
  <1>1. PICK f, c, s : f = file_fd(h.n) /\ c = Regular(host, f) /\ s = pool[h.n]  OBVIOUS
  <1>2. host' = IF Regular(host, f) THEN HSeek(host, f, p) ELSE host  BY <1>1 DEF fseek
  <1>3. /\ pool' = [pool EXCEPT ![h.n].ungot = FALSE, ![h.n].eof = FALSE]
        /\ held' = Pushed(h, FALSE) /\ Told("call", c, NONE) /\ UNCHANGED <<ptab, ntfile, tableVars>>
    BY <1>1 DEF fseek
  <1>4. Touched(host, host')  BY <1>2, HostHere, MaySeek
  <1>5. NotPclose'  BY <1>3, ToldIs
  <1>6. h.n \in FILEs /\ pool \in [FILEs -> PoolRec] /\ s \in PoolRec
    <2>1. h.n \in FILEs  BY StreamIs
    <2> QED BY <2>1, <1>1 DEF FilesInv
  <1>7. PICK r : r = [s EXCEPT !.ungot = FALSE, !.eof = FALSE]  OBVIOUS
  <1>8. pool' = [pool EXCEPT ![h.n] = r]  BY <1>1, <1>3, <1>6, <1>7
  <1>9. r \in PoolRec /\ r.used = pool[h.n].used /\ (r.ungot => FALSE)  BY <1>1, <1>6, <1>7 DEF PoolRec
  <1> QED BY <1>3, <1>4, <1>5, <1>8, <1>9, ByteKeeps
LEMMA RewindKeeps == ASSUME FilesInv, NEW h \in Streams, rewind(h) PROVE FilesInv'
  <1>1. PICK f, s : f = file_fd(h.n) /\ s = pool[h.n]  OBVIOUS
  <1>2. host' = IF Regular(host, f) THEN HSeek(host, f, 0) ELSE host  BY <1>1 DEF rewind
  <1>3. /\ pool' = [pool EXCEPT ![h.n].ungot = FALSE, ![h.n].eof = FALSE, ![h.n].err = FALSE]
        /\ held' = Pushed(h, FALSE) /\ Told("call", TRUE, NONE) /\ UNCHANGED <<ptab, ntfile, tableVars>>
    BY DEF rewind
  <1>4. Touched(host, host')
    <2>1. 0 \in 0..MaxLen  BY Constants
    <2> QED BY <2>1, <1>2, HostHere, MaySeek
  <1>5. NotPclose'  BY <1>3, ToldIs
  <1>6. h.n \in FILEs /\ pool \in [FILEs -> PoolRec] /\ s \in PoolRec
    <2>1. h.n \in FILEs  BY StreamIs
    <2> QED BY <2>1, <1>1 DEF FilesInv
  <1>7. PICK r : r = [s EXCEPT !.ungot = FALSE, !.eof = FALSE, !.err = FALSE]  OBVIOUS
  <1>8. pool' = [pool EXCEPT ![h.n] = r]  BY <1>1, <1>3, <1>6, <1>7
  <1>9. r \in PoolRec /\ r.used = pool[h.n].used /\ (r.ungot => FALSE)  BY <1>1, <1>6, <1>7 DEF PoolRec
  <1> QED BY <1>3, <1>4, <1>5, <1>8, <1>9, ByteKeeps
LEMMA FsetposKeeps == ASSUME FilesInv, Clean = TRUE, NEW h \in Streams, NEW p \in 0..MaxLen, fsetpos(h, p) PROVE FilesInv'
  <1>1. PICK f, c : f = file_fd(h.n) /\ c = Regular(host, f)  OBVIOUS
  <1>2. host' = IF Regular(host, f) THEN HSeek(host, f, p) ELSE host  BY <1>1 DEF fsetpos
  <1>3. /\ ~pool[h.n].ungot /\ held' = Pushed(h, FALSE) /\ Told("call", c, NONE) /\ UNCHANGED <<stdioVars, ntfile, tableVars>>
    BY <1>1 DEF fsetpos
  <1>4. Touched(host, host')  BY <1>2, HostHere, MaySeek
  <1>5. NotPclose'  BY <1>3, ToldIs
  <1>6. pool' = pool /\ pool \in [FILEs -> PoolRec] /\ UNCHANGED <<ptab, ntfile, tableVars>>  BY <1>3 DEF FilesInv, stdioVars
  <1>7. host' \in HostType /\ OwnFds(held, Opens(host'))  BY <1>4, TouchOwns
  <1>8. /\ pool' \in [FILEs -> PoolRec] /\ \A f2 \in FILEs : pool'[f2].used = pool[f2].used
        /\ \A f2 \in FILEs : f2 # h.n => pool'[f2] = pool[f2]
        /\ pool'[h.n].ungot => FALSE
    BY <1>3, <1>6
  <1> QED BY <1>3, <1>5, <1>6, <1>7, <1>8, StreamKeeps
LEMMA ClearerrKeeps == ASSUME FilesInv, NEW h \in Streams, clearerr(h) PROVE FilesInv'
  <1>1. /\ pool' = [pool EXCEPT ![h.n].eof = FALSE, ![h.n].err = FALSE]
        /\ Told("call", TRUE, NONE) /\ UNCHANGED <<ptab, ntfile, tableVars, held>> /\ host' = host
    BY DEF clearerr
  <1>2. Touched(host, host')  BY <1>1, HostHere DEF Touched
  <1>3. NotPclose'  BY <1>1, ToldIs
  <1>5. h.n \in FILEs /\ pool \in [FILEs -> PoolRec]
    <2>1. h.n \in FILEs  BY StreamIs
    <2> QED BY <2>1 DEF FilesInv
  <1>6. pool' \in [FILEs -> PoolRec] /\ \A f \in FILEs : pool'[f].used = pool[f].used /\ pool'[f].ungot = pool[f].ungot
    BY <1>1, <1>5 DEF PoolRec
  <1> QED BY <1>1, <1>2, <1>3, <1>6, MarkKeeps
LEMMA FlsbufKeeps == ASSUME FilesInv, NEW h \in Streams, flsbuf(h) PROVE FilesInv'
  <1>1. PICK f, c, e, s : f = file_fd(h.n) /\ c = CanWrite(host, f) /\ s = pool[h.n] /\ e = (s.err \/ ~c)  OBVIOUS
  <1>2. host' = IF CanWrite(host, f) THEN HWrite(host, f) ELSE host  BY <1>1 DEF flsbuf
  <1>3. /\ pool' = [pool EXCEPT ![h.n].err = @ \/ ~c] /\ Told("call", c, NONE) /\ UNCHANGED <<ptab, ntfile, tableVars, held>>
    BY <1>1 DEF flsbuf
  <1>4. Touched(host, host')  BY <1>2, HostHere, MayWrite
  <1>5. NotPclose'  BY <1>3, ToldIs
  <1>6. h.n \in FILEs /\ pool \in [FILEs -> PoolRec] /\ s \in PoolRec
    <2>1. h.n \in FILEs  BY StreamIs
    <2> QED BY <2>1, <1>1 DEF FilesInv
  <1>7. PICK r : r = [s EXCEPT !.err = e]  OBVIOUS
  <1>8. pool' = [pool EXCEPT ![h.n] = r]  BY <1>1, <1>3, <1>6, <1>7
  <1>9. e \in BOOLEAN  BY <1>1
  <1>10. r \in PoolRec /\ r.used = s.used /\ r.ungot = s.ungot  BY <1>6, <1>7, <1>9 DEF PoolRec
  <1>11. pool' \in [FILEs -> PoolRec] /\ \A g \in FILEs : pool'[g].used = pool[g].used /\ pool'[g].ungot = pool[g].ungot
    BY <1>1, <1>6, <1>8, <1>10
  <1> QED BY <1>3, <1>4, <1>5, <1>11, MarkKeeps
\* A stream comes: it gets a slot of its own, and no descriptor is opened or closed but f.
LEMMA SlotGot == ASSUME FilesInv, NEW f, NEW a, a = alloc_dynfile(f)
    PROVE (a.file = NONE /\ a.pool = pool) \/ (a.file # NONE /\ a.file \in DynFiles /\ ~pool[a.file].used /\ a.pool = [pool EXCEPT ![a.file] = Stream(TRUE, f)])
  <1>1. PICK S : S = {j \in DynFiles : ~pool[j].used}  OBVIOUS
  <1>2. PICK i : i = Slot(S)  OBVIOUS
  <1>3. a.file = i /\ a.pool = IF i = NONE THEN pool ELSE [pool EXCEPT ![i] = Stream(TRUE, f)]  BY <1>1, <1>2 DEF alloc_dynfile
  <1>4. DynFiles \subseteq Nat  BY FilesAssumption
  <1>5. i = NONE \/ i \in S  BY <1>1, <1>2, <1>4, FreeSlot
  <1>6. CASE i = NONE  BY <1>3, <1>6
  <1>7. CASE i # NONE
    <2>1. i \in DynFiles /\ ~pool[i].used  BY <1>1, <1>5, <1>7
    <2> QED BY <2>1, <1>3, <1>7
  <1> QED BY <1>6, <1>7
LEMMA StreamTyped == ASSUME NEW f \in Fds PROVE Stream(TRUE, f) \in PoolRec
  BY DEF Stream, PoolRec
LEMMA StreamComes == ASSUME FilesInv, NEW a, NEW f \in Fds, a = alloc_dynfile(f), a.file # NONE, NEW h \in Handles, h.k \in StreamKinds, h.n = a.file, h.fd = f,
           f \notin Opens(host), host' \in HostType, Opens(host') = Opens(host) \cup {f}, pool' = a.pool, held' = held \cup {h},
           ptab' \in [PopenSlots -> PipeRec], Piped(held', ptab'), UNCHANGED <<ntfile, tableVars>>, NotPclose'
    PROVE FilesInv'
  <1>1. a.file \in DynFiles /\ ~pool[a.file].used /\ pool' = [pool EXCEPT ![a.file] = Stream(TRUE, f)]  BY SlotGot
  <1>2. OwnFds(held, Opens(host)) /\ SlotsHeld(held, pool) /\ held \subseteq Handles /\ pool \in [FILEs -> PoolRec]  BY DEF FilesInv
  <1>3. h.k \in OwnerKinds  BY DEF OwnerKinds, StreamKinds
  <1>4. OwnFds(held \cup {h}, Opens(host) \cup {h.fd})
    <2>1. h.fd \notin Opens(host)  OBVIOUS
    <2> QED BY <2>1, <1>2, <1>3, OwnAdd
  <1>5. SlotsHeld(held \cup {h}, [pool EXCEPT ![h.n] = Stream(TRUE, f)])
    <2>1. h.n \in DynFiles /\ ~pool[h.n].used  BY <1>1
    <2> QED BY <2>1, <1>2, SlotsAdd
  <1>6. pool' = [pool EXCEPT ![h.n] = Stream(TRUE, f)]  BY <1>1
  <1>7. pool' \in [FILEs -> PoolRec]  BY <1>1, <1>2, StreamTyped
  <1>8. UNCHANGED <<ntfile, maps, views, lz>>  BY DEF tableVars
  <1>9. TablesTyped'  BY <1>8 DEF FilesInv, TablesTyped
  <1>10. PcloseOwnChild'  BY ToldFine
  <1>11. OwnFds(held', Opens(host')) /\ SlotsHeld(held', pool')  BY <1>4, <1>5, <1>6
  <1> QED BY <1>2, <1>7, <1>9, <1>10, <1>11 DEF FilesInv
LEMMA WrapKeeps == ASSUME FilesInv, NEW op, op # "pclose", NEW o, Opened(host, o), Wrap(op, o) PROVE FilesInv'
  <1>1. PICK a : a = alloc_dynfile(o.fd)  OBVIOUS
  <1>2. CASE o.fd = NONE
    <2>1. Nothing(op, NONE)  BY <1>2 DEF Wrap
    <2> QED BY <2>1, NothingKeeps
  <1>3. CASE o.fd # NONE /\ a.file = NONE
    <2>1. host' = HClose(o.host, o.fd) /\ Told(op, FALSE, NONE) /\ UNCHANGED <<stdioVars, ntfile, tableVars, held>>  BY <1>1, <1>3 DEF Wrap
    <2>2. PICK f, H : f = o.fd /\ H = o.host  OBVIOUS
    <2>3. f \in Fds /\ f \notin Opens(host) /\ H \in HostType /\ Opens(H) = Opens(host) \cup {f}  BY <1>3, <2>2, OpenedOpens
    <2>4. Closed(H, f, host')  BY <2>1, <2>2, <2>3, HCloseIs
    <2>5. host' \in HostType /\ Opens(host') = Opens(H) \ {f}  BY <2>3, <2>4, ClosedOpens
    <2>6. Steady(host, host')  BY <2>3, <2>5 DEF Steady
    <2>7. UNCHANGED <<pool, ptab, ntfile, maps, views, lz, held>>  BY <2>1 DEF stdioVars, tableVars
    <2>8. NotPclose'  BY <2>1, ToldIs
    <2> QED BY <2>6, <2>7, <2>8, SteadyKeeps
  <1>4. CASE o.fd # NONE /\ a.file # NONE
    <2>1. PICK f, h : f = o.fd /\ h = Handle("stream", a.file, f)  OBVIOUS
    <2>2. /\ host' = o.host /\ pool' = a.pool /\ held' = held \cup {h} /\ Told(op, TRUE, NONE) /\ UNCHANGED <<ptab, ntfile, tableVars>>
      BY <1>1, <1>4, <2>1 DEF Wrap
    <2>3. f \in Fds /\ f \notin Opens(host) /\ host' \in HostType /\ Opens(host') = Opens(host) \cup {f}  BY <1>4, <2>1, <2>2, OpenedOpens
    <2>4. a = alloc_dynfile(f)  BY <1>1, <2>1
    <2>5. a.file \in DynFiles  BY <1>4, <2>4, SlotGot
    <2>6. h \in Handles /\ h.k = "stream" /\ h.n = a.file /\ h.fd = f
      <3>1. PICK n : n = a.file  OBVIOUS
      <3>2. n \in Nat /\ "stream" \in OwnerKinds  BY <2>5, <3>1, FilesAssumption DEF OwnerKinds
      <3> QED BY <3>1, <3>2, <2>1, <2>3, HandleIs
    <2>7. h.k \in StreamKinds  BY <2>6 DEF StreamKinds
    <2>8. ptab' = ptab /\ ptab \in [PopenSlots -> PipeRec] /\ Piped(held, ptab)  BY <2>2 DEF FilesInv
    <2>9. Piped(held \cup {h}, ptab)  BY <2>8, PipedMore
    <2>10. Piped(held', ptab') /\ ptab' \in [PopenSlots -> PipeRec]  BY <2>2, <2>8, <2>9
    <2>11. NotPclose'  BY <2>2, ToldIs
    <2> QED BY <1>4, <2>2, <2>3, <2>4, <2>6, <2>7, <2>10, <2>11, StreamComes
  <1> QED BY <1>2, <1>3, <1>4
LEMMA FopenKeeps == ASSUME FilesInv, NEW n \in Names, NEW mode, fopen(n, mode) PROVE FilesInv'
  <1>1. PICK op : op = IF mode \in {"w", "a"} THEN "fopenw" ELSE "call"  OBVIOUS
  <1>2. PICK o : o = HOpen(host, n, fopen_mode_flags(mode))  OBVIOUS
  <1>3. Opened(host, o)  BY <1>2, HostHere, HOpenIs
  <1>4. Wrap(op, o) /\ op # "pclose"  BY <1>1, <1>2 DEF fopen
  <1> QED BY <1>3, <1>4, WrapKeeps
LEMMA TmpfileKeeps == ASSUME FilesInv, tmpfile PROVE FilesInv'
  <1>1. PICK o : o = HAnonymous(host)  OBVIOUS
  <1>2. Opened(host, o)  BY <1>1, HostHere, HAnonymousIs
  <1>3. Wrap("call", o)  BY <1>1 DEF tmpfile
  <1> QED BY <1>2, <1>3, WrapKeeps
LEMMA FdopenKeeps == ASSUME FilesInv, NEW h \in Of({"fd"}), fdopen(h) PROVE FilesInv'
  <1>1. PICK f, a : f = h.fd /\ a = alloc_dynfile(f)  OBVIOUS
  <1>2. h \in held /\ h.k = "fd" /\ h.k \in OwnerKinds  BY OfKinds DEF OwnerKinds
  <1>3. f \in Fds  BY <1>1, <1>2, OwnerOpen
  <1>4. CASE a.file = NONE
    <2>1. Nothing("call", NONE)  BY <1>1, <1>4 DEF fdopen
    <2> QED BY <2>1, NothingKeeps
  <1>5. CASE a.file # NONE
    <2>1. PICK g : g = Handle("stream", a.file, f)  OBVIOUS
    <2>2. /\ pool' = a.pool /\ held' = (held \ {h}) \cup {g} /\ Told("call", TRUE, NONE) /\ UNCHANGED <<ptab, ntfile, tableVars>> /\ host' = host
      BY <1>1, <1>5, <2>1 DEF fdopen
    <2>3. a.file \in DynFiles /\ ~pool[a.file].used /\ pool' = [pool EXCEPT ![a.file] = Stream(TRUE, f)]  BY <1>1, <1>5, <2>2, SlotGot
    <2>4. g \in Handles /\ g.k = "stream" /\ g.n = a.file /\ g.fd = f
      <3>1. PICK n : n = a.file  OBVIOUS
      <3>2. n \in Nat /\ "stream" \in OwnerKinds  BY <2>3, <3>1, FilesAssumption DEF OwnerKinds
      <3> QED BY <3>1, <3>2, <2>1, <1>3, HandleIs
    <2>5. OwnFds(held, Opens(host)) /\ SlotsHeld(held, pool) /\ Piped(held, ptab) /\ held \subseteq Handles /\ pool \in [FILEs -> PoolRec]  BY DEF FilesInv
    <2>6. g.fd = h.fd /\ g.k \in OwnerKinds /\ g.k \in StreamKinds /\ h.k # "pipe"  BY <1>1, <1>2, <2>4 DEF OwnerKinds, StreamKinds
    <2>7. OwnFds((held \ {h}) \cup {g}, Opens(host))  BY <1>2, <2>5, <2>6, OwnSwap
    <2>8. PICK X : X = held \ {h}  OBVIOUS
    <2>9. SlotsHeld(X, pool) /\ Piped(X, ptab)  BY <1>2, <2>5, <2>6, <2>8, SlotsOther, PipedMore
    <2>10. g.n \in DynFiles /\ ~pool[g.n].used  BY <2>3, <2>4
    <2>11. SlotsHeld(X \cup {g}, [pool EXCEPT ![g.n] = Stream(TRUE, f)]) /\ Piped(X \cup {g}, ptab)  BY <2>5, <2>6, <2>9, <2>10, SlotsAdd, PipedMore
    <2>12. pool' = [pool EXCEPT ![g.n] = Stream(TRUE, f)] /\ held' = X \cup {g} /\ ptab' = ptab  BY <2>2, <2>3, <2>4, <2>8
    <2>13. pool' \in [FILEs -> PoolRec]  BY <1>3, <2>3, <2>5, StreamTyped
    <2>14. UNCHANGED <<ntfile, maps, views, lz>>  BY <2>2 DEF tableVars
    <2>15. TablesTyped'  BY <2>14 DEF FilesInv, TablesTyped
    <2>16. PcloseOwnChild'
      <3>1. NotPclose'  BY <2>2, ToldIs
      <3> QED BY <3>1, ToldFine
    <2>17. OwnFds(held', Opens(host')) /\ SlotsHeld(held', pool') /\ Piped(held', ptab') /\ host' \in HostType /\ held' \subseteq Handles
      BY <2>2, <2>4, <2>5, <2>7, <2>8, <2>11, <2>12, HostHere
    <2>18. ptab' \in [PopenSlots -> PipeRec]  BY <2>12 DEF FilesInv
    <2> QED BY <2>13, <2>15, <2>16, <2>17, <2>18 DEF FilesInv
  <1> QED BY <1>4, <1>5
LEMMA FreopenKeeps == ASSUME FilesInv, Clean = TRUE, NEW h \in Streams, NEW n \in Names, NEW mode, freopen(n, mode, h) PROVE FilesInv'
  <1>1. PICK o, x, f : o = HOpen(host, n, fopen_mode_flags(mode)) /\ x = o.fd /\ f = h.fd  OBVIOUS
  <1>2. Opened(host, o)  BY <1>1, HostHere, HOpenIs
  <1>3. f \in Fds /\ h.n \in FILEs  BY <1>1, StreamIs
  <1>4. CASE x = NONE
    <2>1. Nothing("call", NONE)  BY <1>1, <1>4 DEF freopen
    <2> QED BY <2>1, NothingKeeps
  <1>5. CASE x # NONE
    <2>1. PICK H : H = o.host  OBVIOUS
    <2>2. x \in Fds /\ x \notin Opens(host) /\ H \in HostType /\ Opens(H) = Opens(host) \cup {x}  BY <1>1, <1>2, <1>5, <2>1, OpenedOpens
    <2>3. CASE x = f
      <3>1. host' = HClose(H, x) /\ Told("call", TRUE, NONE) /\ UNCHANGED <<stdioVars, ntfile, tableVars, held>>
        BY <1>1, <1>5, <2>1, <2>3 DEF freopen
      <3>2. Closed(H, x, host')  BY <2>2, <3>1, HCloseIs
      <3>3. host' \in HostType /\ Opens(host') = Opens(H) \ {x}  BY <2>2, <3>2, ClosedOpens
      <3>4. Steady(host, host')  BY <2>2, <3>3 DEF Steady
      <3>5. UNCHANGED <<pool, ptab, ntfile, maps, views, lz, held>>  BY <3>1 DEF stdioVars, tableVars
      <3>6. NotPclose'  BY <3>1, ToldIs
      <3> QED BY <3>4, <3>5, <3>6, SteadyKeeps
    <2>4. CASE x # f
      <3>1. PICK D : D = HDup2(H, x, f)  OBVIOUS
      <3>2. /\ host' = HClose(D, x) /\ held' = Pushed(h, FALSE) /\ Told("call", TRUE, NONE) /\ UNCHANGED <<stdioVars, ntfile, tableVars>>
        BY <1>1, <1>5, <2>1, <2>4, <3>1 DEF freopen
      <3>3. D \in HostType /\ D.fd[f] = H.fd[x] /\ \A g \in Fds : g # f => D.fd[g] = H.fd[g]  BY <1>3, <2>2, <3>1, HDup2Is
      <3>4. Closed(D, x, host')  BY <2>2, <3>2, <3>3, HCloseIs
      <3>5. host' \in HostType /\ Opens(host') = Opens(D) \ {x}  BY <2>2, <3>4, ClosedOpens
      <3>6. x \in Opens(H)  BY <2>2
      <3>7. Opens(D) = Opens(H) \cup {f}  BY <1>3, <3>3, <3>6 DEF Opens
      <3>8. Opens(host') = Opens(host) \cup {f}  BY <2>2, <2>4, <3>5, <3>7
      <3>9. OwnFds(held, Opens(host'))
        <4>1. OwnFds(held, Opens(host))  BY DEF FilesInv
        <4>2. f \in Std \/ f \in Opens(host)
          <5>1. CASE h \in held
            <6>1. h.k \in OwnerKinds  BY <5>1, StreamIs
            <6> QED BY <6>1, <5>1, <1>1, OwnerOpen
          <5>2. CASE h \notin held  BY <5>2, <1>1, StreamIs
          <5> QED BY <5>1, <5>2
        <4>3. PICK O, P : O = Opens(host) /\ P = Opens(host')  OBVIOUS
        <4>4. OwnFds(held, O) /\ P = O \cup {f} /\ (f \in Std \/ f \in O)  BY <4>1, <4>2, <4>3, <3>8
        <4>5. OwnFds(held, P)  BY <4>4 DEF OwnFds
        <4> QED BY <4>3, <4>5
      <3>10. NotPclose'  BY <3>2, ToldIs
      <3>11. ~pool[h.n].ungot  BY DEF freopen
      <3>12. pool' = pool /\ pool \in [FILEs -> PoolRec] /\ UNCHANGED <<ptab, ntfile, tableVars>>  BY <3>2 DEF FilesInv, stdioVars
      <3>13. /\ pool' \in [FILEs -> PoolRec] /\ \A g \in FILEs : pool'[g].used = pool[g].used
             /\ \A g \in FILEs : g # h.n => pool'[g] = pool[g]
             /\ pool'[h.n].ungot => FALSE
        BY <3>11, <3>12
      <3> QED BY <3>2, <3>5, <3>9, <3>10, <3>12, <3>13, StreamKeeps
    <2> QED BY <2>3, <2>4
  <1> QED BY <1>4, <1>5
LEMMA FclosedPool == ASSUME FilesInv, NEW n \in FILEs PROVE free_dynfile(n) \in [FILEs -> PoolRec]
  <1>1. pool \in [FILEs -> PoolRec]  BY DEF FilesInv
  <1>2. CASE n \in DynFiles
    <2>1. PICK r : r = [pool[n] EXCEPT !.used = FALSE]  OBVIOUS
    <2>2. r \in PoolRec  BY <1>1, <2>1 DEF PoolRec
    <2>3. free_dynfile(n) = [pool EXCEPT ![n] = r]  BY <1>1, <1>2, <2>1 DEF free_dynfile
    <2> QED BY <1>1, <2>2, <2>3
  <1>3. CASE n \notin DynFiles  BY <1>1, <1>3 DEF free_dynfile
  <1> QED BY <1>2, <1>3
\* A stream goes, with its slot; its descriptor may be a standard one and stay.
LEMMA StreamGoes == ASSUME FilesInv, NEW h \in held, h.k \in StreamKinds, h.n \in DynFiles, host' \in HostType,
           Opens(host') = Opens(host) \ {h.fd} \/ (Opens(host') = Opens(host) /\ h.fd \in Std),
           pool' = free_dynfile(h.n), held' = held \ {h}, ptab' \in [PopenSlots -> PipeRec], Piped(held', ptab'),
           UNCHANGED <<ntfile, tableVars>>, PcloseOwnChild'
    PROVE FilesInv'
  <1>1. OwnFds(held, Opens(host)) /\ SlotsHeld(held, pool) /\ held \subseteq Handles /\ pool \in [FILEs -> PoolRec]  BY DEF FilesInv
  <1>2. h.k \in OwnerKinds  BY DEF OwnerKinds, StreamKinds
  <1>3. OwnFds(held \ {h}, Opens(host'))
    <2>1. CASE Opens(host') = Opens(host) \ {h.fd}
      <3>1. OwnFds(held \ {h}, Opens(host) \ {h.fd})  BY <1>1, <1>2, OwnDrop
      <3> QED BY <3>1, <2>1
    <2>2. CASE Opens(host') = Opens(host) /\ h.fd \in Std
      <3>1. h.fd \in Std \/ h.k \notin OwnerKinds  BY <2>2
      <3>2. OwnFds(held \ {h}, Opens(host))  BY <1>1, <3>1, OwnDropOther
      <3> QED BY <3>2, <2>2
    <2> QED BY <2>1, <2>2
  <1>4. SlotsHeld(held \ {h}, [pool EXCEPT ![h.n].used = FALSE])  BY <1>1, SlotsDrop
  <1>5. pool' = [pool EXCEPT ![h.n].used = FALSE]  BY DEF free_dynfile
  <1>6. pool' \in [FILEs -> PoolRec]
    <2>1. PICK n : n = h.n  OBVIOUS
    <2>2. n \in FILEs  BY <2>1 DEF FILEs
    <2>3. free_dynfile(n) \in [FILEs -> PoolRec]  BY <2>2, FclosedPool
    <2> QED BY <2>1, <2>3
  <1>7. UNCHANGED <<ntfile, maps, views, lz>>  BY DEF tableVars
  <1>8. TablesTyped'  BY <1>7 DEF FilesInv, TablesTyped
  <1>9. OwnFds(held', Opens(host')) /\ SlotsHeld(held', pool') /\ held' \subseteq Handles  BY <1>1, <1>3, <1>4, <1>5
  <1> QED BY <1>6, <1>8, <1>9 DEF FilesInv
LEMMA FcloseKeeps == ASSUME FilesInv, Clean = TRUE, NEW h \in Streams, fclose(h) PROVE FilesInv'
  <1>1. PICK f : f = h.fd  OBVIOUS
  <1>2. /\ h.k # "pipe" /\ host' = (IF f \notin Std THEN HClose(host, f) ELSE host) /\ pool' = free_dynfile(h.n) /\ held' = held \ {h}
        /\ Told("call", TRUE, NONE) /\ UNCHANGED <<ptab, ntfile, tableVars>>
    BY <1>1 DEF fclose
  <1>3. NotPclose'  BY <1>2, ToldIs
  <1>4. f \in Fds  BY <1>1, StreamIs
  <1>5. ptab' = ptab /\ ptab \in [PopenSlots -> PipeRec] /\ Piped(held, ptab)  BY <1>2 DEF FilesInv
  <1>6. CASE h \in held
    <2>1. h.k \in StreamKinds /\ h.n \in DynFiles  BY <1>6, StreamIs
    <2>2. host' \in HostType /\ (Opens(host') = Opens(host) \ {h.fd} \/ (Opens(host') = Opens(host) /\ h.fd \in Std))
      <3>1. CASE f \in Std  BY <3>1, <1>1, <1>2, HostHere
      <3>2. CASE f \notin Std
        <4>1. Closed(host, f, host')  BY <1>2, <1>4, <3>2, HostHere, HCloseIs
        <4>2. host' \in HostType /\ Opens(host') = Opens(host) \ {f}  BY <1>4, <4>1, ClosedOpens
        <4> QED BY <4>2, <1>1
      <3> QED BY <3>1, <3>2
    <2>3. Piped(held \ {h}, ptab)  BY <1>2, <1>5, PipedMore
    <2>4. Piped(held', ptab') /\ ptab' \in [PopenSlots -> PipeRec]  BY <1>2, <1>5, <2>3
    <2>5. PcloseOwnChild'  BY <1>3, ToldFine
    <2> QED BY <1>2, <1>6, <2>1, <2>2, <2>4, <2>5, StreamGoes
  <1>7. CASE h \notin held
    <2>1. h.n \in Std /\ f \in Std  BY <1>1, <1>7, StreamIs
    <2>2. h.n \notin DynFiles  BY <2>1, FilesAssumption
    <2>3. UNCHANGED <<stdioVars, ntfile, tableVars, held>> /\ host' = host  BY <1>2, <1>7, <2>1, <2>2 DEF free_dynfile, stdioVars
    <2>4. Touched(host, host')  BY <2>3, HostHere DEF Touched
    <2> QED BY <2>3, <2>4, <1>3, TouchKeeps
  <1> QED BY <1>6, <1>7
LEMMA PopenKeeps == ASSUME FilesInv, popen PROVE FilesInv'
  <1>1. PICK o : o = HOpenOther(host)  OBVIOUS
  <1>2. PICK f, a, c, i : f = o.fd /\ a = alloc_dynfile(o.fd) /\ c = Slot(Children \ Running) /\ i = Slot({j \in PopenSlots : ptab[j] = NoHost})  OBVIOUS
  <1>3. CASE f = NONE \/ a.file = NONE
    <2>1. Nothing("call", NONE)  BY <1>1, <1>2, <1>3 DEF popen
    <2> QED BY <2>1, NothingKeeps
  <1>4. CASE f # NONE /\ a.file # NONE
    <2>1. PICK n, h : n = a.file /\ h = [Handle("pipe", n, f) EXCEPT !.child = c]  OBVIOUS
    <2>2. /\ c # NONE /\ host' = o.host /\ pool' = a.pool
          /\ ptab' = (IF i = NONE THEN ptab ELSE [ptab EXCEPT ![i] = [file |-> n, fd |-> f, child |-> c]])
          /\ held' = held \cup {h} /\ Told("call", TRUE, NONE) /\ UNCHANGED <<ntfile, tableVars>>
      BY <1>1, <1>2, <1>4, <2>1 DEF popen
    <2>3. Opened(host, o)  BY <1>1, HostHere, HOpenOtherIs
    <2>4. f \in Fds /\ f \notin Opens(host) /\ host' \in HostType /\ Opens(host') = Opens(host) \cup {f}  BY <1>2, <1>4, <2>2, <2>3, OpenedOpens
    <2>5. a = alloc_dynfile(f)  BY <1>2
    <2>6. n \in DynFiles /\ ~pool[n].used  BY <1>4, <2>1, <2>5, SlotGot
    <2>7. c \in Children
      <3>1. Children \ Running \subseteq Nat  BY FilesAssumption
      <3>2. c = NONE \/ c \in Children \ Running  BY <3>1, <1>2, SlotIn
      <3> QED BY <3>2, <2>2
    <2>8. h \in Handles /\ h.k = "pipe" /\ h.n = n /\ h.fd = f /\ h.child = c
      <3>1. n \in Nat  BY <2>6, FilesAssumption
      <3> QED BY <3>1, <2>1, <2>4, <2>7 DEF Handle, Handles, HandleRec, OwnerKinds
    <2>9. h.k \in StreamKinds /\ h.n = a.file  BY <2>1, <2>8 DEF StreamKinds
    <2>10. ptab \in [PopenSlots -> PipeRec] /\ Piped(held, ptab) /\ SlotsHeld(held, pool)  BY DEF FilesInv
    <2>11. i = NONE \/ (i \in PopenSlots /\ ptab[i] = NoHost)
      <3>1. PopenSlots \subseteq Nat  BY FilesAssumption
      <3>2. PICK S : S = {j \in PopenSlots : ptab[j] = NoHost}  OBVIOUS
      <3>3. i = NONE \/ i \in S  BY <3>1, <3>2, <1>2, FreeSlot
      <3> QED BY <3>2, <3>3
    <2>12. ptab' \in [PopenSlots -> PipeRec]
      <3>1. [file |-> n, fd |-> f, child |-> c] \in PipeRec  BY <2>4, <2>6, <2>7 DEF PipeRec
      <3> QED BY <3>1, <2>2, <2>10, <2>11
    <2>13. Piped(held \cup {h}, ptab)  BY <2>10, PipedMore
    <2>14. Piped(held', ptab')
      <3>1. CASE i = NONE  BY <3>1, <2>2, <2>13
      <3>2. CASE i # NONE
        <4>1. PICK e : e = [file |-> n, fd |-> f, child |-> c]  OBVIOUS
        <4>2. e = PipeOf(h) /\ e.file = n  BY <4>1, <2>8 DEF PipeOf
        <4>3. ptab' = [ptab EXCEPT ![i] = e] /\ i \in PopenSlots  BY <4>1, <3>2, <2>2, <2>11
        <4>4. ptab'[i] = e /\ \A j \in PopenSlots : j # i => ptab'[j] = ptab[j]  BY <4>3, <2>10
        <4>5. \A j \in PopenSlots : ptab'[j] = NoHost \/ \E x \in held' : x.k = "pipe" /\ ptab'[j] = PipeOf(x)
          <5>1. SUFFICES ASSUME NEW j \in PopenSlots, ptab'[j] # NoHost PROVE \E x \in held' : x.k = "pipe" /\ ptab'[j] = PipeOf(x)
            OBVIOUS
          <5>2. CASE j = i  BY <5>2, <4>2, <4>4, <2>2, <2>8
          <5>3. CASE j # i
            <6>1. ptab[j] # NoHost /\ ptab'[j] = ptab[j]  BY <5>1, <5>3, <4>4
            <6>2. PICK x \in held : x.k = "pipe" /\ ptab[j] = PipeOf(x)  BY <6>1, <2>10 DEF Piped
            <6> QED BY <6>1, <6>2, <2>2
          <5> QED BY <5>2, <5>3
        <4>6. \A j \in PopenSlots : ptab[j] # NoHost => ptab[j].file # n
          <5>1. SUFFICES ASSUME NEW j \in PopenSlots, ptab[j] # NoHost PROVE ptab[j].file # n  OBVIOUS
          <5>2. PICK x \in held : x.k = "pipe" /\ ptab[j] = PipeOf(x)  BY <5>1, <2>10 DEF Piped
          <5>3. x.k \in StreamKinds /\ ptab[j].file = x.n  BY <5>2 DEF StreamKinds, PipeOf
          <5>4. pool[x.n].used  BY <5>3, <2>10 DEF SlotsHeld
          <5> QED BY <5>3, <5>4, <2>6
        <4>7. n # NONE /\ NoHost.file = NONE  BY <2>6, FilesAssumption, HostAssumption DEF NoHost
        <4>8. \A j, k \in PopenSlots : ptab'[j] # NoHost /\ ptab'[j].file = ptab'[k].file => j = k
          <5>1. SUFFICES ASSUME NEW j \in PopenSlots, NEW k \in PopenSlots, ptab'[j] # NoHost, ptab'[j].file = ptab'[k].file PROVE j = k
            OBVIOUS
          <5>2. CASE j = i /\ k # i
            <6>1. ptab[k].file = n  BY <5>1, <5>2, <4>2, <4>4
            <6>2. ptab[k] = NoHost  BY <6>1, <4>6
            <6> QED BY <6>1, <6>2, <4>7
          <5>3. CASE j # i /\ k = i
            <6>1. ptab[j].file = n /\ ptab[j] # NoHost  BY <5>1, <5>3, <4>2, <4>4
            <6> QED BY <6>1, <4>6
          <5>4. CASE j # i /\ k # i
            <6>1. ptab[j] # NoHost /\ ptab[j].file = ptab[k].file  BY <5>1, <5>4, <4>4
            <6> QED BY <6>1, <2>10 DEF Piped
          <5>5. CASE j = i /\ k = i  BY <5>5
          <5> QED BY <5>2, <5>3, <5>4, <5>5
        <4> QED BY <4>5, <4>8 DEF Piped
      <3> QED BY <3>1, <3>2
    <2>15. NotPclose'  BY <2>2, ToldIs
    <2> QED BY <1>4, <2>2, <2>4, <2>5, <2>8, <2>9, <2>12, <2>14, <2>15, StreamComes
  <1> QED BY <1>3, <1>4
LEMMA PcloseKeeps == ASSUME FilesInv, NEW h \in Of({"pipe"}), pclose(h) PROVE FilesInv'
  <1>1. PICK S, i, n : S = {j \in PopenSlots : ptab[j].file = h.n} /\ i = Slot(S) /\ n = h.n  OBVIOUS
  <1>2. h \in held /\ h.k = "pipe" /\ h.k \in StreamKinds /\ h.k \in OwnerKinds  BY OfKinds DEF StreamKinds, OwnerKinds
  <1>3. ptab \in [PopenSlots -> PipeRec] /\ Piped(held, ptab) /\ SlotsHeld(held, pool)  BY DEF FilesInv
  <1>4. n \in DynFiles  BY <1>1, <1>2, <1>3 DEF SlotsHeld
  <1>5. h.fd \in Fds  BY <1>2, OwnerOpen
  <1>6. CASE i = NONE
    <2>1. Nothing("pclose", NONE)  BY <1>1, <1>6 DEF pclose
    <2> QED BY <2>1, NothingKeeps
  <1>7. CASE i # NONE
    <2>1. i \in PopenSlots /\ ptab[i].file = n
      <3>1. PopenSlots \subseteq Nat  BY FilesAssumption
      <3>2. S \subseteq PopenSlots  BY <1>1
      <3>3. i = NONE \/ i \in S  BY <3>1, <3>2, <1>1, FreeSlot
      <3> QED BY <3>3, <1>1, <1>7
    <2>2. n # NONE /\ NoHost.file = NONE  BY <1>4, FilesAssumption, HostAssumption DEF NoHost
    <2>3. ptab[i] # NoHost  BY <2>1, <2>2
    <2>4. ptab[i] = PipeOf(h)
      <3>1. PICK x \in held : x.k = "pipe" /\ ptab[i] = PipeOf(x)  BY <2>1, <2>3, <1>3 DEF Piped
      <3>2. x.k \in StreamKinds /\ x.n = h.n  BY <3>1, <2>1, <1>1 DEF StreamKinds, PipeOf
      <3>3. x = h  BY <3>2, <1>2, <1>3 DEF SlotsHeld
      <3> QED BY <3>1, <3>3
    <2>5. ptab[i].fd = h.fd /\ ptab[i].child = h.child  BY <2>4 DEF PipeOf
    <2>6. /\ host' = HClose(host, h.fd) /\ pool' = free_dynfile(h.n) /\ ptab' = [ptab EXCEPT ![i] = NoHost] /\ held' = held \ {h}
          /\ Told("pclose", TRUE, <<h.child, h.child>>) /\ UNCHANGED <<ntfile, tableVars>>
      BY <1>1, <1>7, <2>5 DEF pclose
    <2>7. PcloseOwnChild'  BY <2>6 DEF Told, PcloseOwnChild
    <2>8. ptab'[i] = NoHost /\ \A j \in PopenSlots : j # i => ptab'[j] = ptab[j]  BY <2>1, <2>6, <1>3
    <2>9. ptab' \in [PopenSlots -> PipeRec]
      <3>1. NoHost \in PipeRec  BY DEF NoHost, PipeRec
      <3> QED BY <3>1, <2>1, <2>6, <1>3
    <2>10. \A j \in PopenSlots : ptab'[j] = NoHost \/ \E x \in held' : x.k = "pipe" /\ ptab'[j] = PipeOf(x)
      <3>1. SUFFICES ASSUME NEW j \in PopenSlots, ptab'[j] # NoHost PROVE \E x \in held' : x.k = "pipe" /\ ptab'[j] = PipeOf(x)
        OBVIOUS
      <3>2. j # i /\ ptab'[j] = ptab[j] /\ ptab[j] # NoHost  BY <3>1, <2>8
      <3>3. PICK x \in held : x.k = "pipe" /\ ptab[j] = PipeOf(x)  BY <3>2, <1>3 DEF Piped
      <3>4. x # h
        <4>1. ptab[j].file # ptab[i].file  BY <3>2, <2>1, <1>3 DEF Piped
        <4>2. ptab[j].file = x.n  BY <3>3 DEF PipeOf
        <4> QED BY <4>1, <4>2, <2>1, <1>1
      <3> QED BY <3>2, <3>3, <3>4, <2>6
    <2>11. \A j, k \in PopenSlots : ptab'[j] # NoHost /\ ptab'[j].file = ptab'[k].file => j = k
      <3>1. SUFFICES ASSUME NEW j \in PopenSlots, NEW k \in PopenSlots, ptab'[j] # NoHost, ptab'[j].file = ptab'[k].file PROVE j = k
        OBVIOUS
      <3>2. j # i /\ ptab'[j] = ptab[j] /\ ptab[j] # NoHost  BY <3>1, <2>8
      <3>3. CASE k = i
        <4>1. ptab[j].file = NONE  BY <3>1, <3>2, <3>3, <2>2, <2>8
        <4>2. PICK x \in held : x.k = "pipe" /\ ptab[j] = PipeOf(x)  BY <3>2, <1>3 DEF Piped
        <4>3. x.k \in StreamKinds /\ ptab[j].file = x.n  BY <4>2 DEF StreamKinds, PipeOf
        <4>4. x.n \in DynFiles  BY <4>3, <1>3 DEF SlotsHeld
        <4> QED BY <4>1, <4>3, <4>4, FilesAssumption, HostAssumption
      <3>4. CASE k # i
        <4>1. ptab[j] # NoHost /\ ptab[j].file = ptab[k].file  BY <3>1, <3>2, <3>4, <2>8
        <4> QED BY <4>1, <1>3 DEF Piped
      <3> QED BY <3>3, <3>4
    <2>12. Piped(held', ptab')  BY <2>10, <2>11 DEF Piped
    <2>13. PICK f : f = h.fd  OBVIOUS
    <2>14. Closed(host, f, host')  BY <1>5, <2>6, <2>13, HostHere, HCloseIs
    <2>15. host' \in HostType /\ (Opens(host') = Opens(host) \ {h.fd} \/ (Opens(host') = Opens(host) /\ h.fd \in Std))
      <3>1. host' \in HostType /\ Opens(host') = Opens(host) \ {f}  BY <1>5, <2>13, <2>14, ClosedOpens
      <3> QED BY <3>1, <2>13
    <2>16. h.n \in DynFiles  BY <1>1, <1>4
    <2> QED BY <1>2, <2>6, <2>7, <2>9, <2>12, <2>15, <2>16, StreamGoes
  <1> QED BY <1>6, <1>7

-----------------------------------------------------------------------------
(* Every call.                                                                 *)
LEMMA DescriptorKeeps == ASSUME FilesInv, DescriptorOps PROVE FilesInv'
  <1>1. ASSUME NEW n \in Names, NEW m, open(n, m[1], m[2]) PROVE FilesInv'  BY <1>1, OpenKeeps
  <1>2. CASE pipe  BY <1>2, PipeKeeps
  <1>3. ASSUME NEW f \in Fds, close(f) PROVE FilesInv'  BY <1>3, CloseKeeps
  <1>4. ASSUME NEW h \in Of({"fd"}), dup(h) \/ write(h) \/ SetEndOfFile(h) PROVE FilesInv'
    BY <1>4, DupKeeps, WriteKeeps, SetEndOfFileKeeps
  <1>5. ASSUME NEW a \in Of({"fd"}), NEW b \in Of({"fd"}), dup2(a, b) PROVE FilesInv'  BY <1>5, Dup2Keeps
  <1>6. ASSUME NEW h \in Of({"fd"}), NEW more \in BOOLEAN, read(h, more) PROVE FilesInv'  BY <1>6, ReadKeeps
  <1>7. ASSUME NEW h \in Of({"fd"}), NEW p \in 0..MaxLen, lseek(h, p) \/ chsize(h, p) \/ WriteFile(h, p) \/ ReadFile(h, p) PROVE FilesInv'
    BY <1>7, LseekKeeps, ChsizeKeeps, WriteFileKeeps, ReadFileKeeps
  <1> QED BY <1>1, <1>2, <1>3, <1>4, <1>5, <1>6, <1>7 DEF DescriptorOps
LEMMA NameKeeps == ASSUME FilesInv, NameOps PROVE FilesInv'
  <1>1. ASSUME NEW n \in Names, DeleteFile(n) \/ remove(n) PROVE FilesInv'
    <2>1. OpenFileDelete(n)  BY <1>1 DEF DeleteFile, remove
    <2> QED BY <2>1, DeleteKeeps
  <1>2. ASSUME NEW a \in Names, NEW b \in Names, MoveFile(a, b) \/ rename(a, b) PROVE FilesInv'
    <2>1. MoveFile(a, b)  BY <1>2 DEF rename
    <2> QED BY <2>1, MoveKeeps
  <1>3. ASSUME NEW a \in Names, NEW b \in Names, NEW r \in BOOLEAN, movefileex(a, b, r) PROVE FilesInv'  BY <1>3, MoveExKeeps
  <1> QED BY <1>1, <1>2, <1>3 DEF NameOps
LEMMA StdioKeeps == ASSUME FilesInv, Clean = TRUE, StdioOps(Names, Names) PROVE FilesInv'
  <1>1. ASSUME NEW n \in Names, NEW m, fopen(n, m) PROVE FilesInv'  BY <1>1, FopenKeeps
  <1>2. CASE tmpfile \/ popen  BY <1>2, TmpfileKeeps, PopenKeeps
  <1>3. ASSUME NEW h \in Streams, fclose(h) \/ ungetc(h) \/ rewind(h) \/ clearerr(h) PROVE FilesInv'
    BY <1>3, FcloseKeeps, UngetcKeeps, RewindKeeps, ClearerrKeeps
  <1>4. ASSUME NEW h \in Of({"fd"}), fdopen(h) PROVE FilesInv'  BY <1>4, FdopenKeeps
  <1>5. ASSUME NEW h \in Streams, NEW n \in Names, freopen(n, "w", h) PROVE FilesInv'  BY <1>5, FreopenKeeps
  <1>6. ASSUME NEW h \in Streams, NEW b \in BOOLEAN, getc(h, b) \/ getwc(h, b) \/ filbuf(h, b) \/ fgets(h, b) \/ fread(h, b) PROVE FilesInv'
    <2>1. pull_byte(h, b) \/ fgets(h, b) \/ fread(h, b)  BY <1>6 DEF getc, getwc, filbuf
    <2> QED BY <2>1, PullKeeps, FgetsKeeps, FreadKeeps
  <1>7. ASSUME NEW h \in Streams, fwrite(h) \/ fputs(h) \/ fputc(h) \/ putwc(h) \/ fprintf(h) \/ vfprintf(h) \/ flsbuf(h) \/ ungetwc(h)
        PROVE FilesInv'
    <2>1. stdio_write(file_fd(h.n)) \/ flsbuf(h) \/ ungetc(h)  BY <1>7 DEF fwrite, fputs, fputc, putwc, fprintf, vfprintf, ungetwc
    <2> QED BY <2>1, StdioWriteKeeps, FlsbufKeeps, UngetcKeeps
  <1>8. CASE putchar \/ printf \/ vprintf
    <2>1. stdio_write(Max(Std))  BY <1>8 DEF putchar, printf, vprintf
    <2> QED BY <2>1, StdioWriteKeeps
  <1>9. ASSUME NEW b \in BOOLEAN, getchar(b) PROVE FilesInv'  BY <1>9, GetcharKeeps
  <1>10. ASSUME NEW h \in Streams, NEW p \in 0..MaxLen, fseek(h, p) \/ fsetpos(h, p) PROVE FilesInv'  BY <1>10, FseekKeeps, FsetposKeeps
  <1>11. ASSUME NEW h \in Of({"pipe"}), pclose(h) PROVE FilesInv'  BY <1>11, PcloseKeeps
  <1> QED BY <1>1, <1>2, <1>3, <1>4, <1>5, <1>6, <1>7, <1>8, <1>9, <1>10, <1>11 DEF StdioOps
LEMMA NtKeeps == ASSUME FilesInv, NtOps PROVE FilesInv'
  <1>1. ASSUME NEW n \in Names, NEW wr, NEW d, u32_nt_open(n, wr, d) PROVE FilesInv'  BY <1>1, NtOpenKeeps
  <1>2. ASSUME NEW h, NEW off \in {NONE, 0}, NEW more, NtReadFile(h, off, more) \/ NtWriteFile(h, off) PROVE FilesInv'
    BY <1>2, NtReadKeeps, NtWriteKeeps
  <1>3. ASSUME NEW h, NEW p \in 0..MaxLen, NtSetEndOfFile(h, p) \/ NtSetPosition(h, p) PROVE FilesInv'
    <2>1. chsize(h, p) \/ lseek(h, p)  BY <1>3 DEF NtSetEndOfFile, NtSetPosition
    <2> QED BY <2>1, ChsizeKeeps, LseekKeeps
  <1>4. ASSUME NEW h \in Of({"nt", "fd"}), NEW del \in BOOLEAN, NtSetDisposition(h, del) PROVE FilesInv'
    <2>1. h \in held /\ h.k \in {"fd", "nt"}  BY OfKinds
    <2> QED BY <2>1, <1>4, DispositionKeeps
  <1>5. ASSUME NEW h \in Of({"nt", "fd"}), NtClose(h) \/ CloseHandle(h) PROVE FilesInv'
    <2>1. h \in held /\ h.k \in {"fd", "nt"} /\ h.k \in {"fd", "nt", "map"}  BY OfKinds
    <2> QED BY <2>1, <1>5, NtCloseKeeps, CloseHandleKeeps
  <1>6. ASSUME NEW n \in Names, NEW wr, NEW d, CreateFile(n, wr, d) PROVE FilesInv'  BY <1>6, CreateFileKeeps
  <1> QED BY <1>1, <1>2, <1>3, <1>4, <1>5, <1>6 DEF NtOps
LEMMA ScanKeeps == ASSUME FilesInv, ScanOps PROVE FilesInv'
  <1>1. CASE NtOpenDirectory  BY <1>1, NtOpenDirectoryKeeps
  <1>2. ASSUME NEW h, NEW r, NEW room \in 0..2, NtQueryDirectoryFile(h, r, room) PROVE FilesInv'
    <2>1. room \in Nat  OBVIOUS
    <2> QED BY <2>1, <1>2, QueryKeeps
  <1> QED BY <1>1, <1>2 DEF ScanOps
LEMMA MapKeeps == ASSUME FilesInv, MapOps PROVE FilesInv'
  <1>1. ASSUME NEW n \in Names, NEW s \in {"create", "write", "read", "delete"}, OpenFile(n, s) PROVE FilesInv'  BY <1>1, OpenFileKeeps
  <1>2. ASSUME NEW h \in Of({"fd"}), NEW s \in 0..MaxLen, NEW wr, CreateFileMapping(h, s, wr) PROVE FilesInv'
    <2>1. h \in held /\ h.k = "fd"  BY OfKinds
    <2> QED BY <2>1, <1>2, MappingKeeps
  <1>3. ASSUME NEW m \in Of({"map"}), MapViewOfFile(m) PROVE FilesInv'
    <2>1. m \in held /\ m.k = "map"  BY OfKinds
    <2> QED BY <2>1, <1>3, MapViewKeeps
  <1>4. ASSUME NEW v \in Of({"view"}), UnmapViewOfFile(v) PROVE FilesInv'
    <2>1. v \in held /\ v.k = "view"  BY OfKinds
    <2> QED BY <2>1, <1>4, UnmapKeeps
  <1>5. ASSUME NEW h \in Of({"fd", "map"}), CloseHandle(h) PROVE FilesInv'
    <2>1. h \in held /\ h.k \in {"fd", "nt", "map"}  BY OfKinds
    <2> QED BY <2>1, <1>5, CloseHandleKeeps
  <1> QED BY <1>1, <1>2, <1>3, <1>4, <1>5 DEF MapOps
LEMMA LzKeeps == ASSUME FilesInv, LzOps PROVE FilesInv'
  <1>1. ASSUME NEW n, NEW l \in 0..2, LZOpenFile(n, l) PROVE FilesInv'
    <2>1. l \in Nat  OBVIOUS
    <2> QED BY <2>1, <1>1, LzOpenKeeps
  <1>2. ASSUME NEW h, NEW l \in 0..2, LZInit(h, l) PROVE FilesInv'
    <2>1. l \in Nat  OBVIOUS
    <2> QED BY <2>1, <1>2, LzInitKeeps
  <1>3. ASSUME NEW z \in Of({"lz"}), LZClose(z) PROVE FilesInv'
    <2>1. z \in held /\ z.k = "lz"  BY OfKinds
    <2> QED BY <2>1, <1>3, LzCloseKeeps
  <1>4. ASSUME NEW z \in Of({"lz"}), NEW w \in 0..2, LZRead(z, w) PROVE FilesInv'
    <2>1. z \in held /\ z.k = "lz" /\ w \in Nat  BY OfKinds
    <2> QED BY <2>1, <1>4, LzReadKeeps
  <1>5. ASSUME NEW z \in Of({"lz"}), NEW o \in {"set", "cur", "end"}, NEW k \in {-1, 1}, LZSeek(z, o, k) PROVE FilesInv'
    <2>1. z \in held /\ z.k = "lz" /\ k \in Int  BY OfKinds
    <2> QED BY <2>1, <1>5, LzSeekKeeps
  <1> QED BY <1>1, <1>2, <1>3, <1>4, <1>5 DEF LzOps
LEMMA FilesStep == ASSUME FilesInv, Clean = TRUE, FilesNext PROVE FilesInv'
  BY DescriptorKeeps, NameKeeps, StdioKeeps, NtKeeps, ScanKeeps, MapKeeps, LzKeeps DEF FilesNext
LEMMA FilesStutter == ASSUME FilesInv, UNCHANGED filesVars PROVE FilesInv'
  <1>1. UNCHANGED <<host, pool, ptab, ntfile, maps, views, lz, held, told>>  BY DEF filesVars
  <1>2. TablesTyped'  BY <1>1 DEF FilesInv, TablesTyped
  <1>3. PcloseOwnChild'  BY <1>1 DEF FilesInv, PcloseOwnChild
  <1> QED BY <1>1, <1>2, <1>3 DEF FilesInv

\* A program that is Clean owns each descriptor through one handle, reads no byte a former user of
\* a stream pushed back, waits for its own child and sees each directory entry once, whatever the
\* calls of the three layers (_open, fopen, NtCreateFile and their closes in aret_hle.c) and their order.
THEOREM HandlesAreOwned == ASSUME Clean = TRUE PROVE FilesSpec => []HandlesOwned
  <1>1. FilesInit => FilesInv  BY FilesStart
  <1>2. FilesInv /\ [FilesNext]_filesVars => FilesInv'  BY FilesStep, FilesStutter
  <1>3. FilesInv => HandlesOwned  BY InvImplies
  <1> QED BY <1>1, <1>2, <1>3, PTL DEF FilesSpec

-----------------------------------------------------------------------------
(* NtClose                                                                     *)
NtKinds == {"fd", "nt", "stream"}
\* The entries T are those of handles of X, and those of files still have the mark and the name the program knows.
Marks(X, T) ==
    /\ \A i \in NtSlots : T[i].used => \E h \in X : /\ h.k \in NtKinds /\ h.fd = T[i].fd
                                                    /\ h.k # "stream" => h.del = T[i].del /\ (h.del => h.kept = T[i].path)
    /\ \A i, j \in NtSlots : T[i].used /\ T[j].used /\ T[i].fd = T[j].fd => i = j
    /\ \A h \in X : h.k \in {"fd", "nt"} /\ h.del /\ h.kept # NONE => \E i \in NtSlots : T[i].used /\ T[i].fd = h.fd
\* The handles X become Y: what has an entry stays, or becomes a stream; none gets a mark.
Kept(X, Y, T) ==
    /\ \A h \in X : h.k \in NtKinds => \/ \A i \in NtSlots : T[i].used => T[i].fd # h.fd
                                       \/ \E g \in Y : g.k \in NtKinds /\ g.fd = h.fd /\ (g.k = "stream" \/ g = h)
    /\ \A g \in Y : g.k \in {"fd", "nt"} /\ g.del => g \in X
Quiet == Kept(held, held', ntfile) /\ told'.op # "NtClose" /\ ntfile' = ntfile
LEMMA KeptMarks == ASSUME NEW X, NEW Y, NEW T, Marks(X, T), Kept(X, Y, T) PROVE Marks(Y, T)
  <1>1. ASSUME NEW i \in NtSlots, T[i].used
        PROVE \E h \in Y : h.k \in NtKinds /\ h.fd = T[i].fd /\ (h.k # "stream" => h.del = T[i].del /\ (h.del => h.kept = T[i].path))
    <2>1. PICK h \in X : h.k \in NtKinds /\ h.fd = T[i].fd /\ (h.k # "stream" => h.del = T[i].del /\ (h.del => h.kept = T[i].path))
      BY <1>1 DEF Marks
    <2>2. PICK g \in Y : g.k \in NtKinds /\ g.fd = h.fd /\ (g.k = "stream" \/ g = h)  BY <1>1, <2>1 DEF Kept
    <2> QED BY <2>1, <2>2
  <1>2. ASSUME NEW h \in Y, h.k \in {"fd", "nt"}, h.del, h.kept # NONE PROVE \E i \in NtSlots : T[i].used /\ T[i].fd = h.fd
    <2>1. h \in X  BY <1>2 DEF Kept
    <2> QED BY <2>1, <1>2 DEF Marks
  <1> QED BY <1>1, <1>2 DEF Marks
LEMMA KeptSame == ASSUME NEW X, NEW T PROVE Kept(X, X, T)
  BY DEF Kept, NtKinds
LEMMA KeptMore == ASSUME NEW X, NEW S, NEW T, \A g \in S : ~g.del PROVE Kept(X, X \cup S, T)
  BY DEF Kept, NtKinds
LEMMA KeptLess == ASSUME NEW X, NEW Y, NEW T, Y \subseteq X,
           \A h \in X \ Y : h.k \in NtKinds => \A i \in NtSlots : T[i].used => T[i].fd # h.fd
    PROVE Kept(X, Y, T)
  BY DEF Kept
LEMMA QuietSame == ASSUME held' = held, ntfile' = ntfile, told'.op # "NtClose" PROVE Quiet
  BY KeptSame DEF Quiet
LEMMA HandleFresh == ASSUME NEW k, NEW n, NEW f PROVE ~Handle(k, n, f).del /\ Handle(k, n, f).kept = NONE /\ Handle(k, n, f).k = k /\ Handle(k, n, f).fd = f
  BY DEF Handle
LEMMA PushedQuiet == ASSUME FilesInv, NEW h \in Streams, NEW b, held' = Pushed(h, b), ntfile' = ntfile, told'.op # "NtClose" PROVE Quiet
  <1>1. CASE h \notin held  BY <1>1, QuietSame DEF Pushed
  <1>2. CASE h \in held
    <2>1. PICK g : g = [h EXCEPT !.pushed = b]  OBVIOUS
    <2>2. held' = (held \ {h}) \cup {g}  BY <1>2, <2>1 DEF Pushed
    <2>3. h \in HandleRec /\ h.k \in {"stream", "pipe"}
      <3>1. h \in HandleRec /\ h.k \in StreamKinds  BY <1>2, HeldIs, StreamIs
      <3> QED BY <3>1 DEF StreamKinds
    <2>4. g.k = h.k /\ g.fd = h.fd  BY <2>1, <2>3 DEF HandleRec
    <2>5. Kept(held, held', ntfile)  BY <2>2, <2>3, <2>4 DEF Kept, NtKinds
    <2> QED BY <2>5 DEF Quiet
  <1> QED BY <1>1, <1>2
LEMMA NothingQuiet == ASSUME NEW op, op # "NtClose", NEW info, Nothing(op, info) PROVE Quiet
  <1>1. held' = held /\ ntfile' = ntfile /\ told'.op # "NtClose"  BY DEF Nothing, Told
  <1> QED BY <1>1, QuietSame
LEMMA OpenFdQuiet == ASSUME NEW op, op # "NtClose", NEW n, NEW fl, OpenFd(op, n, fl) PROVE Quiet
  <1>1. PICK o : o = HOpen(host, n, fl)  OBVIOUS
  <1>2. /\ held' = IF o.fd = NONE THEN held ELSE held \cup {Handle("fd", NONE, o.fd)}
        /\ ntfile' = ntfile /\ told'.op # "NtClose"
    BY <1>1 DEF OpenFd, Told
  <1>3. PICK S : S = IF o.fd = NONE THEN {} ELSE {Handle("fd", NONE, o.fd)}  OBVIOUS
  <1>4. held' = held \cup S /\ \A g \in S : ~g.del  BY <1>2, <1>3, HandleFresh
  <1>5. Kept(held, held', ntfile)  BY <1>4, KeptMore
  <1> QED BY <1>2, <1>5 DEF Quiet
LEMMA DescriptorQuiet == ASSUME FilesInv, Clean = TRUE, DescriptorOps PROVE Quiet
  <1>1. ASSUME NEW n \in Names, NEW m, open(n, m[1], m[2]) PROVE Quiet
    <2>1. OpenFd("call", n, open_flags(m[1], m[2]))  BY <1>1 DEF open
    <2> QED BY <2>1, OpenFdQuiet
  <1>2. CASE pipe
    <2>1. PICK r : r = HOpenOther(host)  OBVIOUS
    <2>2. PICK w : w = HOpenOther(r.host)  OBVIOUS
    <2>3. CASE r.fd = NONE \/ w.fd = NONE
      <3>1. Nothing("call", NONE)  BY <1>2, <2>1, <2>2, <2>3 DEF pipe
      <3> QED BY <3>1, NothingQuiet
    <2>4. CASE ~(r.fd = NONE \/ w.fd = NONE)
      <3>1. PICK S : S = {Handle("fd", NONE, r.fd), Handle("fd", NONE, w.fd)}  OBVIOUS
      <3>2. held' = held \cup S /\ ntfile' = ntfile /\ told'.op # "NtClose"  BY <1>2, <2>1, <2>2, <2>4, <3>1 DEF pipe, Told
      <3>3. \A g \in S : ~g.del  BY <3>1, HandleFresh
      <3>4. Kept(held, held', ntfile)  BY <3>2, <3>3, KeptMore
      <3> QED BY <3>2, <3>4 DEF Quiet
    <2> QED BY <2>3, <2>4
  <1>3. ASSUME NEW f \in Fds, close(f) PROVE Quiet
    <2>1. Entries(f) = {} /\ held' = {h \in held : h.fd # f} /\ ntfile' = ntfile /\ told'.op # "NtClose"  BY <1>3 DEF close, Told
    <2>2. \A i \in NtSlots : ntfile[i].used => ntfile[i].fd # f  BY <2>1 DEF Entries
    <2>3. held' \subseteq held /\ \A h \in held \ held' : h.fd = f  BY <2>1
    <2>4. \A h \in held \ held' : h.k \in NtKinds => \A i \in NtSlots : ntfile[i].used => ntfile[i].fd # h.fd  BY <2>2, <2>3
    <2>5. Kept(held, held', ntfile)  BY <2>3, <2>4, KeptLess
    <2> QED BY <2>1, <2>5 DEF Quiet
  <1>4. ASSUME NEW h \in Of({"fd"}), dup(h) PROVE Quiet
    <2>1. PICK f : f = Min(Free(host))  OBVIOUS
    <2>2. held' = (IF Free(host) = {} THEN held ELSE held \cup {Handle("fd", NONE, f)}) /\ ntfile' = ntfile /\ told'.op # "NtClose"
      BY <1>4, <2>1 DEF dup, Told
    <2>3. PICK S : S = IF Free(host) = {} THEN {} ELSE {Handle("fd", NONE, f)}  OBVIOUS
    <2>4. held' = held \cup S /\ \A g \in S : ~g.del  BY <2>2, <2>3, HandleFresh
    <2>5. Kept(held, held', ntfile)  BY <2>4, KeptMore
    <2> QED BY <2>2, <2>5 DEF Quiet
  <1>5. ASSUME NEW h, write(h) \/ SetEndOfFile(h) PROVE Quiet
    <2>1. held' = held /\ ntfile' = ntfile /\ told'.op # "NtClose"  BY <1>5 DEF write, SetEndOfFile, chsize, Told
    <2> QED BY <2>1, QuietSame
  <1>6. ASSUME NEW a, NEW b, dup2(a, b) PROVE Quiet
    <2>1. held' = held /\ ntfile' = ntfile /\ told'.op # "NtClose"  BY <1>6 DEF dup2, Told
    <2> QED BY <2>1, QuietSame
  <1>7. ASSUME NEW h, NEW more, read(h, more) PROVE Quiet
    <2>1. held' = held /\ ntfile' = ntfile /\ told'.op # "NtClose"  BY <1>7 DEF read, Told
    <2> QED BY <2>1, QuietSame
  <1>8. ASSUME NEW h, NEW p, lseek(h, p) \/ chsize(h, p) \/ WriteFile(h, p) \/ ReadFile(h, p) PROVE Quiet
    <2>1. held' = held /\ ntfile' = ntfile /\ told'.op # "NtClose"  BY <1>8 DEF lseek, chsize, WriteFile, ReadFile, Told
    <2> QED BY <2>1, QuietSame
  <1> QED BY <1>1, <1>2, <1>3, <1>4, <1>5, <1>6, <1>7, <1>8 DEF DescriptorOps
LEMMA NameQuiet == ASSUME NameOps PROVE Quiet
  <1>1. ASSUME NEW n, DeleteFile(n) \/ remove(n) PROVE Quiet
    <2>1. held' = held /\ ntfile' = ntfile /\ told'.op # "NtClose"  BY <1>1 DEF DeleteFile, remove, OpenFileDelete, Told
    <2> QED BY <2>1, QuietSame
  <1>2. ASSUME NEW a, NEW b, MoveFile(a, b) \/ rename(a, b) PROVE Quiet
    <2>1. held' = held /\ ntfile' = ntfile /\ told'.op # "NtClose"  BY <1>2 DEF rename, MoveFile, Told
    <2> QED BY <2>1, QuietSame
  <1>3. ASSUME NEW a, NEW b, NEW r, movefileex(a, b, r) PROVE Quiet
    <2>1. held' = held /\ ntfile' = ntfile /\ told'.op # "NtClose"  BY <1>3 DEF movefileex, Nothing, Told
    <2> QED BY <2>1, QuietSame
  <1> QED BY <1>1, <1>2, <1>3 DEF NameOps
LEMMA WrapQuiet == ASSUME NEW op, op # "NtClose", NEW o, Wrap(op, o) PROVE Quiet
  <1>1. PICK a : a = alloc_dynfile(o.fd)  OBVIOUS
  <1>2. PICK S : S = IF o.fd = NONE \/ a.file = NONE THEN {} ELSE {Handle("stream", a.file, o.fd)}  OBVIOUS
  <1>3. held' = held \cup S /\ ntfile' = ntfile /\ told'.op # "NtClose"
    <2>1. CASE o.fd = NONE  BY <2>1, <1>2 DEF Wrap, Nothing, Told
    <2>2. CASE o.fd # NONE /\ a.file = NONE  BY <2>2, <1>1, <1>2 DEF Wrap, Told
    <2>3. CASE o.fd # NONE /\ a.file # NONE  BY <2>3, <1>1, <1>2 DEF Wrap, Told
    <2> QED BY <2>1, <2>2, <2>3
  <1>4. \A g \in S : ~g.del  BY <1>2, HandleFresh
  <1>5. Kept(held, held', ntfile)  BY <1>3, <1>4, KeptMore
  <1> QED BY <1>3, <1>5 DEF Quiet
LEMMA StdioQuiet == ASSUME FilesInv, Marks(held, ntfile), Clean = TRUE, StdioOps(Names, Names) PROVE Quiet
  <1>1. ASSUME NEW n, NEW m, fopen(n, m) PROVE Quiet
    <2>1. PICK op : op = IF m \in {"w", "a"} THEN "fopenw" ELSE "call"  OBVIOUS
    <2>2. PICK o : o = HOpen(host, n, fopen_mode_flags(m))  OBVIOUS
    <2>3. Wrap(op, o) /\ op # "NtClose"  BY <1>1, <2>1, <2>2 DEF fopen
    <2> QED BY <2>3, WrapQuiet
  <1>2. CASE tmpfile
    <2>1. Wrap("call", HAnonymous(host))  BY <1>2 DEF tmpfile
    <2> QED BY <2>1, WrapQuiet
  <1>3. CASE popen
    <2>1. PICK o, a, c : o = HOpenOther(host) /\ a = alloc_dynfile(o.fd) /\ c = Slot(Children \ Running)  OBVIOUS
    <2>2. CASE o.fd = NONE \/ a.file = NONE
      <3>1. Nothing("call", NONE)  BY <1>3, <2>1, <2>2 DEF popen
      <3> QED BY <3>1, NothingQuiet
    <2>3. CASE ~(o.fd = NONE \/ a.file = NONE)
      <3>1. PICK S : S = {[Handle("pipe", a.file, o.fd) EXCEPT !.child = c]}  OBVIOUS
      <3>2. held' = held \cup S /\ ntfile' = ntfile /\ told'.op # "NtClose"
        <4>1. held' = held \cup S /\ ntfile' = ntfile /\ Told("call", TRUE, NONE)  BY <1>3, <2>1, <2>3, <3>1, Zenon DEF popen
        <4> QED BY <4>1 DEF Told
      <3>3. \A g \in S : ~g.del  BY <3>1 DEF Handle
      <3>4. Kept(held, held', ntfile)  BY <3>2, <3>3, KeptMore
      <3> QED BY <3>2, <3>4 DEF Quiet
    <2> QED BY <2>2, <2>3
  <1>4. ASSUME NEW h \in Streams, fclose(h) PROVE Quiet
    <2>1. Entries(h.fd) = {} /\ held' = held \ {h} /\ ntfile' = ntfile /\ told'.op # "NtClose"  BY <1>4 DEF fclose, Told
    <2>2. \A i \in NtSlots : ntfile[i].used => ntfile[i].fd # h.fd  BY <2>1 DEF Entries
    <2>3. held' \subseteq held /\ \A g \in held \ held' : g = h  BY <2>1
    <2>4. \A g \in held \ held' : g.k \in NtKinds => \A i \in NtSlots : ntfile[i].used => ntfile[i].fd # g.fd  BY <2>2, <2>3
    <2>5. Kept(held, held', ntfile)  BY <2>3, <2>4, KeptLess
    <2> QED BY <2>1, <2>5 DEF Quiet
  <1>5. ASSUME NEW h \in Streams, ungetc(h) \/ rewind(h) PROVE Quiet
    <2>1. PICK b : held' = Pushed(h, b)  BY <1>5 DEF ungetc, rewind
    <2>2. ntfile' = ntfile /\ Told("call", TRUE, NONE)  BY <1>5, Zenon DEF ungetc, rewind
    <2>3. told'.op # "NtClose"  BY <2>2 DEF Told
    <2> QED BY <2>1, <2>2, <2>3, PushedQuiet
  <1>6. ASSUME NEW h, clearerr(h) \/ flsbuf(h) PROVE Quiet
    <2>1. held' = held /\ ntfile' = ntfile /\ told'.op # "NtClose"  BY <1>6 DEF clearerr, flsbuf, Told
    <2> QED BY <2>1, QuietSame
  <1>7. ASSUME NEW h \in Of({"fd"}), fdopen(h) PROVE Quiet
    <2>1. PICK a : a = alloc_dynfile(h.fd)  OBVIOUS
    <2>2. CASE a.file = NONE
      <3>1. Nothing("call", NONE)  BY <1>7, <2>1, <2>2 DEF fdopen
      <3> QED BY <3>1, NothingQuiet
    <2>3. CASE a.file # NONE
      <3>1. PICK g : g = Handle("stream", a.file, h.fd)  OBVIOUS
      <3>2. held' = (held \ {h}) \cup {g} /\ ntfile' = ntfile /\ told'.op # "NtClose"  BY <1>7, <2>1, <2>3, <3>1 DEF fdopen, Told
      <3>3. ~g.del /\ g.k = "stream" /\ g.fd = h.fd  BY <3>1, HandleFresh
      <3>4. Kept(held, held', ntfile)  BY <3>2, <3>3 DEF Kept, NtKinds
      <3> QED BY <3>2, <3>4 DEF Quiet
    <2> QED BY <2>2, <2>3
  <1>8. ASSUME NEW h \in Streams, NEW n, freopen(n, "w", h) PROVE Quiet
    <2>1. PICK o : o = HOpen(host, n, fopen_mode_flags("w"))  OBVIOUS
    <2>2. CASE o.fd = NONE
      <3>1. Nothing("call", NONE)  BY <1>8, <2>1, <2>2 DEF freopen
      <3> QED BY <3>1, NothingQuiet
    <2>3. CASE o.fd # NONE /\ o.fd = h.fd
      <3>1. held' = held /\ ntfile' = ntfile /\ told'.op # "NtClose"  BY <1>8, <2>1, <2>3 DEF freopen, Told
      <3> QED BY <3>1, QuietSame
    <2>4. CASE o.fd # NONE /\ o.fd # h.fd
      <3>1. held' = Pushed(h, FALSE) /\ ntfile' = ntfile /\ told'.op # "NtClose"  BY <1>8, <2>1, <2>4 DEF freopen, Told
      <3> QED BY <3>1, PushedQuiet
    <2> QED BY <2>2, <2>3, <2>4
  <1>9. ASSUME NEW h \in Streams, NEW b, getc(h, b) \/ getwc(h, b) \/ filbuf(h, b) \/ fgets(h, b) \/ fread(h, b) PROVE Quiet
    <2>1. pull_byte(h, b) \/ fgets(h, b) \/ fread(h, b)  BY <1>9 DEF getc, getwc, filbuf
    <2>2. ASSUME pull_byte(h, b) PROVE held' = Pushed(h, FALSE) /\ ntfile' = ntfile /\ \E ok : Told("call", ok, NONE)
      BY <2>2, Zenon DEF pull_byte
    <2>3. ASSUME fgets(h, b) PROVE held' = Pushed(h, FALSE) /\ ntfile' = ntfile /\ \E ok : Told("call", ok, NONE)
      BY <2>3, Zenon DEF fgets
    <2>4. ASSUME fread(h, b) PROVE held' = Pushed(h, FALSE) /\ ntfile' = ntfile /\ \E ok : Told("call", ok, NONE)
      BY <2>4, Zenon DEF fread
    <2>5. PICK ok : held' = Pushed(h, FALSE) /\ ntfile' = ntfile /\ Told("call", ok, NONE)  BY <2>1, <2>2, <2>3, <2>4, Zenon
    <2>6. told'.op # "NtClose"  BY <2>5 DEF Told
    <2> QED BY <2>5, <2>6, PushedQuiet
  <1>10. ASSUME NEW h \in Streams, fwrite(h) \/ fputs(h) \/ fputc(h) \/ putwc(h) \/ fprintf(h) \/ vfprintf(h) PROVE Quiet
    <2>1. held' = held /\ ntfile' = ntfile /\ told'.op # "NtClose"
      BY <1>10 DEF fwrite, fputs, fputc, putwc, fprintf, vfprintf, stdio_write, Told
    <2> QED BY <2>1, QuietSame
  <1>11. ASSUME NEW h \in Streams, ungetwc(h) PROVE Quiet
    <2>1. held' = Pushed(h, TRUE) /\ ntfile' = ntfile /\ told'.op # "NtClose"  BY <1>11 DEF ungetwc, ungetc, Told
    <2> QED BY <2>1, PushedQuiet
  <1>12. CASE putchar \/ printf \/ vprintf
    <2>1. held' = held /\ ntfile' = ntfile /\ told'.op # "NtClose"  BY <1>12 DEF putchar, printf, vprintf, stdio_write, Told
    <2> QED BY <2>1, QuietSame
  <1>13. ASSUME NEW b, getchar(b) PROVE Quiet
    <2>1. held' = held /\ ntfile' = ntfile /\ told'.op # "NtClose"  BY <1>13 DEF getchar, Told
    <2> QED BY <2>1, QuietSame
  <1>14. ASSUME NEW h \in Streams, NEW p, fseek(h, p) \/ fsetpos(h, p) PROVE Quiet
    <2>1. PICK ok : held' = Pushed(h, FALSE) /\ ntfile' = ntfile /\ Told("call", ok, NONE)  BY <1>14, Zenon DEF fseek, fsetpos
    <2>2. told'.op # "NtClose"  BY <2>1 DEF Told
    <2> QED BY <2>1, <2>2, PushedQuiet
  <1>15. ASSUME NEW h \in Of({"pipe"}), pclose(h) PROVE Quiet
    <2>1. PICK i : i = Slot({j \in PopenSlots : ptab[j].file = h.n})  OBVIOUS
    <2>2. CASE i = NONE
      <3>1. Nothing("pclose", NONE)  BY <1>15, <2>1, <2>2 DEF pclose
      <3> QED BY <3>1, NothingQuiet
    <2>3. CASE i # NONE
      <3>1. held' = held \ {h} /\ ntfile' = ntfile /\ told'.op # "NtClose"  BY <1>15, <2>1, <2>3 DEF pclose, Told
      <3>2. h.k = "pipe"  BY OfKinds
      <3>3. held' \subseteq held /\ \A g \in held \ held' : g.k \notin NtKinds  BY <3>1, <3>2 DEF NtKinds
      <3>4. \A g \in held \ held' : g.k \in NtKinds => \A i2 \in NtSlots : ntfile[i2].used => ntfile[i2].fd # g.fd  BY <3>3
      <3>5. Kept(held, held', ntfile)  BY <3>3, <3>4, KeptLess
      <3> QED BY <3>1, <3>5 DEF Quiet
    <2> QED BY <2>2, <2>3
  <1> QED BY <1>1, <1>2, <1>3, <1>4, <1>5, <1>6, <1>7, <1>8, <1>9, <1>10, <1>11, <1>12, <1>13, <1>14, <1>15 DEF StdioOps
MarkStep == Marks(held', ntfile') /\ told'.op # "NtClose"
LEMMA QuietMarks == ASSUME Marks(held, ntfile), Quiet PROVE MarkStep
  <1>1. PICK X, T : X = held' /\ T = ntfile'  OBVIOUS
  <1>2. T = ntfile /\ Kept(held, X, ntfile)  BY <1>1 DEF Quiet
  <1>3. Marks(X, ntfile)  BY <1>2, KeptMarks
  <1> QED BY <1>1, <1>2, <1>3 DEF MarkStep, Quiet
LEMMA TableIs == ASSUME FilesInv PROVE ntfile \in [NtSlots -> NtRec] /\ \A i \in NtSlots : ntfile[i] \in NtRec /\ ntfile[i].used \in BOOLEAN
  BY DEF FilesInv, TablesTyped, NtRec
LEMMA NewUnmarked == ASSUME FilesInv, Marks(held, ntfile), NEW f, f \notin Opens(host) PROVE Entries(f) = {}
  <1>1. SUFFICES ASSUME NEW i \in NtSlots, ntfile[i].used, ntfile[i].fd = f PROVE FALSE  BY DEF Entries
  <1>2. PICK h \in held : h.k \in NtKinds /\ h.fd = f  BY <1>1 DEF Marks
  <1>3. h.k \in OwnerKinds  BY <1>2 DEF NtKinds, OwnerKinds
  <1>4. h.fd \in Opens(host)  BY <1>3, OwnerOpen
  <1> QED BY <1>2, <1>4
LEMMA Registered == ASSUME FilesInv, NEW f \in Fds, NEW p \in Names \cup {NONE}, Entries(f) = {}, NEW U, U = u32_ntfile_register(f, p)
    PROVE \/ U = ntfile
          \/ \E i \in NtSlots : /\ ~ntfile[i].used /\ U[i].used /\ U[i].fd = f /\ ~U[i].del /\ U[i].path = p /\ U[i] \in NtRec
                                /\ \A j \in NtSlots : j # i => U[j] = ntfile[j]
  <1>1. ntfile \in [NtSlots -> NtRec]  BY TableIs
  <1>2. PICK F : F = {j \in NtSlots : ~ntfile[j].used}  OBVIOUS
  <1>3. F \subseteq Nat  BY <1>2, FilesAssumption
  <1>4. PICK i : i = Slot(F)  OBVIOUS
  <1>5. i = NONE \/ i \in F  BY <1>3, <1>4, SlotIn
  <1>6. PICK r : r = [NoEntry EXCEPT !.used = TRUE, !.fd = f, !.path = p]  OBVIOUS
  <1>7. r \in NtRec /\ r.used /\ r.fd = f /\ ~r.del /\ r.path = p  BY <1>6 DEF NoEntry, NtRec
  <1>8. U = IF i = NONE THEN ntfile ELSE [ntfile EXCEPT ![i] = r]  BY <1>2, <1>4, <1>6 DEF u32_ntfile_register
  <1>9. CASE i = NONE  BY <1>8, <1>9
  <1>10. CASE i # NONE
    <2>1. i \in NtSlots /\ ~ntfile[i].used  BY <1>2, <1>5, <1>10
    <2>2. U = [ntfile EXCEPT ![i] = r]  BY <1>8, <1>10
    <2>3. U[i] = r /\ \A j \in NtSlots : j # i => U[j] = ntfile[j]  BY <1>1, <2>1, <2>2
    <2> QED BY <2>1, <2>3, <1>7
  <1> QED BY <1>9, <1>10
LEMMA RegisterMarks == ASSUME FilesInv, Marks(held, ntfile), NEW f \in Fds, NEW p \in Names \cup {NONE}, Entries(f) = {}, NEW U, U = u32_ntfile_register(f, p),
           NEW h, h.k = "nt", h.fd = f, ~h.del
    PROVE Marks(held \cup {h}, U)
  <1>1. CASE U = ntfile
    <2>1. \A g \in {h} : ~g.del  OBVIOUS
    <2>2. Kept(held, held \cup {h}, ntfile)  BY <2>1, KeptMore
    <2> QED BY <1>1, <2>2, KeptMarks
  <1>2. CASE U # ntfile
    <2>1. PICK i \in NtSlots : /\ ~ntfile[i].used /\ U[i].used /\ U[i].fd = f /\ ~U[i].del /\ U[i].path = p /\ U[i] \in NtRec
                               /\ \A j \in NtSlots : j # i => U[j] = ntfile[j]
      BY <1>2, Registered
    <2>2. PICK X : X = held \cup {h}  OBVIOUS
    <2>3. \A j \in NtSlots : ntfile[j].used => ntfile[j].fd # f  BY DEF Entries
    <2>4. ASSUME NEW j \in NtSlots, U[j].used
          PROVE \E g \in X : g.k \in NtKinds /\ g.fd = U[j].fd /\ (g.k # "stream" => g.del = U[j].del /\ (g.del => g.kept = U[j].path))
      <3>1. CASE j = i
        <4>1. h.k \in NtKinds /\ h \in X  BY <2>2 DEF NtKinds
        <4>2. h.del = FALSE /\ U[i].del = FALSE
          <5>1. U[i].del \in BOOLEAN  BY <2>1 DEF NtRec
          <5>2. h.del \in BOOLEAN \/ h.del \notin BOOLEAN  OBVIOUS
          <5> QED BY <2>1, <5>1
        <4> QED BY <4>1, <4>2, <3>1, <2>1
      <3>2. CASE j # i
        <4>1. U[j] = ntfile[j]  BY <2>1, <3>2
        <4>2. PICK g \in held : g.k \in NtKinds /\ g.fd = ntfile[j].fd /\ (g.k # "stream" => g.del = ntfile[j].del /\ (g.del => g.kept = ntfile[j].path))
          BY <2>4, <4>1 DEF Marks
        <4> QED BY <4>1, <4>2, <2>2
      <3> QED BY <3>1, <3>2
    <2>5. \A j, k \in NtSlots : U[j].used /\ U[k].used /\ U[j].fd = U[k].fd => j = k
      <3>1. SUFFICES ASSUME NEW j \in NtSlots, NEW k \in NtSlots, U[j].used, U[k].used, U[j].fd = U[k].fd PROVE j = k  OBVIOUS
      <3>2. CASE j # i /\ k # i
        <4>1. U[j] = ntfile[j] /\ U[k] = ntfile[k]  BY <3>2, <2>1
        <4> QED BY <3>1, <4>1 DEF Marks
      <3>3. CASE j = i /\ k # i  BY <3>1, <3>3, <2>1, <2>3
      <3>4. CASE j # i /\ k = i  BY <3>1, <3>4, <2>1, <2>3
      <3> QED BY <3>2, <3>3, <3>4
    <2>6. ASSUME NEW g \in X, g.k \in {"fd", "nt"}, g.del, g.kept # NONE PROVE \E j \in NtSlots : U[j].used /\ U[j].fd = g.fd
      <3>1. g \in held  BY <2>2, <2>6
      <3>2. PICK j \in NtSlots : ntfile[j].used /\ ntfile[j].fd = g.fd  BY <2>6, <3>1 DEF Marks
      <3>3. U[j] = ntfile[j]  BY <2>1, <3>2
      <3> QED BY <3>2, <3>3
    <2>7. Marks(X, U)  BY <2>4, <2>5, <2>6 DEF Marks
    <2> QED BY <2>2, <2>7
  <1> QED BY <1>1, <1>2
LEMMA NtOpenMarks == ASSUME FilesInv, Marks(held, ntfile), NEW n \in Names, NEW wr, NEW disp, u32_nt_open(n, wr, disp) PROVE MarkStep
  <1>1. PICK ex, o : ex = (n \in Present(host)) /\ o = HOpen(host, n, Access(TRUE, wr) \cup nt_flags(disp))  OBVIOUS
  <1>2. CASE (ex /\ disp = "CREATE") \/ (~ex /\ disp \in {"OPEN", "OVERWRITE"}) \/ o.fd = NONE
    <2>1. Nothing("NtCreateFile", NONE)  BY <1>1, <1>2 DEF u32_nt_open
    <2> QED BY <2>1, NothingQuiet, QuietMarks
  <1>3. CASE ~((ex /\ disp = "CREATE") \/ (~ex /\ disp \in {"OPEN", "OVERWRITE"}) \/ o.fd = NONE)
    <2>1. PICK h, i, f : h = Handle("nt", n, o.fd) /\ i = <<n, nt_info(disp, ex)>> /\ f = o.fd  OBVIOUS
    <2>2. held' = held \cup {h} /\ ntfile' = u32_ntfile_register(f, n) /\ Told("NtCreateFile", TRUE, i)
      BY <1>1, <1>3, <2>1 DEF u32_nt_open
    <2>3. Opened(host, o) /\ o.fd # NONE  BY <1>1, <1>3, HostHere, HOpenIs
    <2>4. f \in Fds /\ f \notin Opens(host)  BY <2>1, <2>3, OpenedOpens
    <2>5. Entries(f) = {} /\ n \in Names \cup {NONE}  BY <2>4, NewUnmarked
    <2>6. h.k = "nt" /\ h.fd = f /\ ~h.del  BY <2>1, HandleFresh
    <2>7. PICK U : U = ntfile'  OBVIOUS
    <2>8. U = u32_ntfile_register(f, n)  BY <2>2, <2>7
    <2>9. Marks(held \cup {h}, U)  BY <2>4, <2>5, <2>6, <2>8, RegisterMarks
    <2>10. told'.op # "NtClose"  BY <2>2 DEF Told
    <2> QED BY <2>2, <2>7, <2>9, <2>10 DEF MarkStep
  <1> QED BY <1>2, <1>3
LEMMA NtDirectoryMarks == ASSUME FilesInv, Marks(held, ntfile), NtOpenDirectory PROVE MarkStep
  <1>1. PICK o : o = HOpenOther(host)  OBVIOUS
  <1>2. CASE o.fd = NONE
    <2>1. Nothing("NtCreateFile", NONE)  BY <1>1, <1>2 DEF NtOpenDirectory
    <2> QED BY <2>1, NothingQuiet, QuietMarks
  <1>3. CASE o.fd # NONE
    <2>1. PICK h, f : h = Handle("nt", NONE, o.fd) /\ f = o.fd  OBVIOUS
    <2>2. held' = held \cup {h} /\ ntfile' = u32_ntfile_register(f, NONE) /\ Told("call", TRUE, NONE)
      BY <1>1, <1>3, <2>1 DEF NtOpenDirectory
    <2>3. Opened(host, o) /\ o.fd # NONE  BY <1>1, <1>3, HostHere, HOpenOtherIs
    <2>4. f \in Fds /\ f \notin Opens(host)  BY <2>1, <2>3, OpenedOpens
    <2>5. Entries(f) = {}  BY <2>4, NewUnmarked
    <2>6. h.k = "nt" /\ h.fd = f /\ ~h.del  BY <2>1, HandleFresh
    <2>7. PICK U, p : U = ntfile' /\ p = NONE  OBVIOUS
    <2>8. U = u32_ntfile_register(f, p) /\ p \in Names \cup {NONE}  BY <2>2, <2>7
    <2>9. Marks(held \cup {h}, U)  BY <2>4, <2>5, <2>6, <2>8, RegisterMarks
    <2>10. told'.op # "NtClose"  BY <2>2 DEF Told
    <2> QED BY <2>2, <2>7, <2>9, <2>10 DEF MarkStep
  <1> QED BY <1>2, <1>3
LEMMA DispositionMarks == ASSUME FilesInv, Marks(held, ntfile), NEW h \in held, h.k \in {"fd", "nt"}, NEW del \in BOOLEAN, NtSetDisposition(h, del) PROVE MarkStep
  <1>1. PICK f, names : f = h.fd /\ names = {n \in Names : Regular(host, h.fd) /\ host.name[n] = Ino(host, h.fd)}  OBVIOUS
  <1>2. PICK p : p = Slot(names)  OBVIOUS
  <1>3. PICK t : t = IF Entries(f) # {} THEN ntfile ELSE u32_ntfile_register(f, p)  OBVIOUS
  <1>4. PICK S : S = {i \in NtSlots : t[i].used /\ t[i].fd = f}  OBVIOUS
  <1>5. PICK s : s = Slot(S)  OBVIOUS
  <1>6. PICK kept : kept = IF s = NONE THEN NONE ELSE t[s].path  OBVIOUS
  <1>7. PICK g : g = [h EXCEPT !.del = del, !.kept = kept]  OBVIOUS
  <1>8. /\ ntfile' = (IF s = NONE THEN t ELSE [t EXCEPT ![s].del = del])
        /\ held' = (held \ {h}) \cup {g} /\ Told("call", TRUE, NONE)
    BY <1>1, <1>2, <1>3, <1>4, <1>5, <1>6, <1>7 DEF NtSetDisposition
  <1>9. f \in Fds
    <2>1. h.k \in OwnerKinds  BY DEF OwnerKinds
    <2> QED BY <2>1, <1>1, OwnerOpen
  <1>10. ntfile \in [NtSlots -> NtRec]  BY TableIs
  <1>11. p \in Names \cup {NONE}
    <2>1. names \subseteq Nat /\ names \subseteq Names  BY <1>1, HostAssumption
    <2> QED BY <2>1, <1>2, SlotIn
  <1>12. /\ t \in [NtSlots -> NtRec]
         /\ \A i \in NtSlots : t[i].used => t[i].fd = f \/ t[i] = ntfile[i]
         /\ \A i \in NtSlots : ntfile[i].used => t[i] = ntfile[i]
         /\ \A i, j \in NtSlots : t[i].used /\ t[j].used /\ t[i].fd = t[j].fd => i = j
    <2>1. CASE t = ntfile  BY <2>1, <1>10 DEF Marks
    <2>2. CASE t # ntfile
      <3>1. t = u32_ntfile_register(f, p) /\ Entries(f) = {}  BY <2>2, <1>3
      <3>2. PICK i \in NtSlots : /\ ~ntfile[i].used /\ t[i].used /\ t[i].fd = f
                                 /\ \A j \in NtSlots : j # i => t[j] = ntfile[j]
        BY <2>2, <3>1, <1>9, <1>11, Registered
      <3>3. t \in [NtSlots -> NtRec]
        <4>1. u32_ntfile_register(f, p) \in [NtSlots -> NtRec]  BY <1>9, <1>11, RegisterIs
        <4> QED BY <4>1, <3>1
      <3>4. \A j \in NtSlots : ntfile[j].used => ntfile[j].fd # f  BY <3>1 DEF Entries
      <3>5. \A j, k \in NtSlots : t[j].used /\ t[k].used /\ t[j].fd = t[k].fd => j = k
        <4>1. SUFFICES ASSUME NEW j \in NtSlots, NEW k \in NtSlots, t[j].used, t[k].used, t[j].fd = t[k].fd PROVE j = k  OBVIOUS
        <4>2. CASE j # i /\ k # i
          <5>1. t[j] = ntfile[j] /\ t[k] = ntfile[k]  BY <4>2, <3>2
          <5> QED BY <4>1, <5>1 DEF Marks
        <4>3. CASE j = i /\ k # i  BY <4>1, <4>3, <3>2, <3>4
        <4>4. CASE j # i /\ k = i  BY <4>1, <4>4, <3>2, <3>4
        <4> QED BY <4>2, <4>3, <4>4
      <3> QED BY <3>2, <3>3, <3>5
    <2> QED BY <2>1, <2>2
  <1>13. (s = NONE /\ S = {}) \/ (s # NONE /\ s \in S /\ s \in NtSlots)
    <2>1. S \subseteq NtSlots /\ S \subseteq Nat  BY <1>4, FilesAssumption
    <2> QED BY <2>1, <1>5, SlotIn
  <1>14. PICK U, X : U = ntfile' /\ X = held'  OBVIOUS
  <1>15. /\ \A i \in NtSlots : U[i].used = t[i].used /\ U[i].fd = t[i].fd /\ U[i].path = t[i].path
         /\ \A i \in NtSlots : i # s => U[i] = t[i]
         /\ s # NONE => U[s].del = del
    <2>1. CASE s = NONE  BY <2>1, <1>8, <1>14
    <2>2. CASE s # NONE
      <3>1. PICK r : r = [t[s] EXCEPT !.del = del]  OBVIOUS
      <3>2. t[s] \in NtRec /\ s \in NtSlots  BY <2>2, <1>12, <1>13
      <3>3. r.used = t[s].used /\ r.fd = t[s].fd /\ r.path = t[s].path /\ r.del = del  BY <3>1, <3>2 DEF NtRec
      <3>4. U = [t EXCEPT ![s] = r]  BY <2>2, <3>1, <3>2, <1>8, <1>12, <1>14
      <3>5. U[s] = r /\ \A i \in NtSlots : i # s => U[i] = t[i]  BY <3>2, <3>4, <1>12
      <3> QED BY <3>3, <3>5, <2>2
    <2> QED BY <2>1, <2>2
  <1>16. X = (held \ {h}) \cup {g} /\ g.k = h.k /\ g.fd = f /\ g.del = del /\ g.kept = kept
    <2>1. h \in HandleRec  BY HeldIs
    <2> QED BY <2>1, <1>1, <1>7, <1>8, <1>14 DEF HandleRec
  <1>17. ASSUME NEW i \in NtSlots, U[i].used
         PROVE \E x \in X : x.k \in NtKinds /\ x.fd = U[i].fd /\ (x.k # "stream" => x.del = U[i].del /\ (x.del => x.kept = U[i].path))
    <2>1. CASE U[i].fd = f
      <3>1. i \in S  BY <2>1, <1>4, <1>15, <1>17
      <3>2. s # NONE /\ s \in S  BY <3>1, <1>13
      <3>3. i = s  BY <3>1, <3>2, <1>4, <1>12
      <3>4. kept = U[i].path /\ U[i].del = del  BY <3>2, <3>3, <1>6, <1>15
      <3>5. g.k \in NtKinds /\ g \in X  BY <1>16 DEF NtKinds
      <3> QED BY <3>4, <3>5, <2>1, <1>16
    <2>2. CASE U[i].fd # f
      <3>1. i # s
        <4>1. SUFFICES ASSUME i = s PROVE FALSE  OBVIOUS
        <4>2. s # NONE  BY <4>1, FilesAssumption, HostAssumption
        <4>3. t[s].fd = f  BY <4>2, <1>4, <1>13
        <4> QED BY <4>1, <4>3, <2>2, <1>15
      <3>2. U[i] = ntfile[i] /\ ntfile[i].used  BY <3>1, <2>2, <1>12, <1>15, <1>17
      <3>3. PICK x \in held : x.k \in NtKinds /\ x.fd = ntfile[i].fd /\ (x.k # "stream" => x.del = ntfile[i].del /\ (x.del => x.kept = ntfile[i].path))
        BY <3>2 DEF Marks
      <3>4. x # h  BY <3>2, <3>3, <2>2, <1>1
      <3> QED BY <3>2, <3>3, <3>4, <1>16
    <2> QED BY <2>1, <2>2
  <1>18. \A i, j \in NtSlots : U[i].used /\ U[j].used /\ U[i].fd = U[j].fd => i = j  BY <1>12, <1>15
  <1>19. ASSUME NEW x \in X, x.k \in {"fd", "nt"}, x.del, x.kept # NONE PROVE \E i \in NtSlots : U[i].used /\ U[i].fd = x.fd
    <2>1. CASE x = g
      <3>1. s # NONE  BY <2>1, <1>6, <1>16, <1>19
      <3>2. s \in NtSlots /\ t[s].used /\ t[s].fd = f  BY <3>1, <1>4, <1>13
      <3> QED BY <3>2, <2>1, <1>15, <1>16
    <2>2. CASE x # g
      <3>1. x \in held  BY <2>2, <1>16
      <3>2. PICK i \in NtSlots : ntfile[i].used /\ ntfile[i].fd = x.fd  BY <3>1, <1>19 DEF Marks
      <3> QED BY <3>2, <1>12, <1>15
    <2> QED BY <2>1, <2>2
  <1>20. Marks(X, U)  BY <1>17, <1>18, <1>19 DEF Marks
  <1>21. told'.op # "NtClose"  BY <1>8 DEF Told
  <1> QED BY <1>14, <1>20, <1>21 DEF MarkStep
LEMMA SameMarks == ASSUME NEW X, NEW T, NEW U, Marks(X, T),
           \A i \in NtSlots : U[i].used = T[i].used /\ U[i].fd = T[i].fd /\ U[i].del = T[i].del /\ U[i].path = T[i].path
    PROVE Marks(X, U)
  <1>1. ASSUME NEW i \in NtSlots, U[i].used
        PROVE \E h \in X : h.k \in NtKinds /\ h.fd = U[i].fd /\ (h.k # "stream" => h.del = U[i].del /\ (h.del => h.kept = U[i].path))
    BY <1>1 DEF Marks
  <1>2. \A i, j \in NtSlots : U[i].used /\ U[j].used /\ U[i].fd = U[j].fd => i = j  BY DEF Marks
  <1>3. ASSUME NEW h \in X, h.k \in {"fd", "nt"}, h.del, h.kept # NONE PROVE \E i \in NtSlots : U[i].used /\ U[i].fd = h.fd
    BY <1>3 DEF Marks
  <1> QED BY <1>1, <1>2, <1>3 DEF Marks
LEMMA QueryMarks == ASSUME FilesInv, Marks(held, ntfile), NEW h, NEW r, NEW room, NtQueryDirectoryFile(h, r, room) PROVE MarkStep
  <1>1. CASE Entries(h.fd) = {} \/ ntfile[u32_ntfile_slot(h.fd)].path # NONE
    <2>1. Nothing("call", NONE)  BY <1>1 DEF NtQueryDirectoryFile
    <2> QED BY <2>1, NothingQuiet, QuietMarks
  <1>2. CASE ~(Entries(h.fd) = {} \/ ntfile[u32_ntfile_slot(h.fd)].path # NONE)
    <2>1. PICK s : s = u32_ntfile_slot(h.fd)  OBVIOUS
    <2>2. NtQueryDirectory(h, r, room) /\ held' = held  BY <1>2 DEF NtQueryDirectoryFile
    <2>3. PICK q, ok : ntfile' = [ntfile EXCEPT ![s].snap = q] /\ Told("call", ok, NONE)  BY <2>1, <2>2, Zenon DEF NtQueryDirectory
    <2>4. ntfile \in [NtSlots -> NtRec]  BY TableIs
    <2>5. PICK U : U = ntfile'  OBVIOUS
    <2>6. \A i \in NtSlots : U[i].used = ntfile[i].used /\ U[i].fd = ntfile[i].fd /\ U[i].del = ntfile[i].del /\ U[i].path = ntfile[i].path
      <3>1. TAKE i \in NtSlots
      <3>2. ntfile[i] \in NtRec  BY <2>4
      <3>3. PICK e : e = [ntfile[i] EXCEPT !.snap = q]  OBVIOUS
      <3>4. e.used = ntfile[i].used /\ e.fd = ntfile[i].fd /\ e.del = ntfile[i].del /\ e.path = ntfile[i].path  BY <3>2, <3>3 DEF NtRec
      <3>5. U[i] = IF i = s THEN e ELSE ntfile[i]  BY <2>3, <2>4, <2>5, <3>3
      <3> QED BY <3>4, <3>5
    <2>7. Marks(held, U)  BY <2>6, SameMarks
    <2>8. told'.op # "NtClose"  BY <2>3 DEF Told
    <2> QED BY <2>2, <2>5, <2>7, <2>8 DEF MarkStep
  <1> QED BY <1>1, <1>2
LEMMA CreateFileQuiet == ASSUME NEW n, NEW wr, NEW d, CreateFile(n, wr, d) PROVE Quiet
  <1>1. OpenFd("call", n, open_named_flags(wr, d))  BY DEF CreateFile
  <1> QED BY <1>1, OpenFdQuiet
LEMMA CloseHandleQuiet == ASSUME Clean = TRUE, NEW h \in held, CloseHandle(h) PROVE Quiet
  <1>1. Entries(h.fd) = {} \/ h.k = "map"  BY DEF CloseHandle
  <1>2. CASE h.k = "map" /\ h.n = NONE
    <2>1. Nothing("call", NONE)  BY <1>2 DEF CloseHandle
    <2> QED BY <2>1, NothingQuiet
  <1>3. CASE ~(h.k = "map" /\ h.n = NONE)
    <2>1. held' = held \ {h} /\ ntfile' = ntfile /\ told'.op # "NtClose"  BY <1>3 DEF CloseHandle, Told
    <2>2. held' \subseteq held /\ \A g \in held \ held' : g = h  BY <2>1
    <2>3. h.k \in NtKinds => \A i \in NtSlots : ntfile[i].used => ntfile[i].fd # h.fd  BY <1>1 DEF Entries, NtKinds
    <2>4. \A g \in held \ held' : g.k \in NtKinds => \A i \in NtSlots : ntfile[i].used => ntfile[i].fd # g.fd  BY <2>2, <2>3
    <2>5. Kept(held, held', ntfile)  BY <2>2, <2>4, KeptLess
    <2> QED BY <2>1, <2>5 DEF Quiet
  <1> QED BY <1>2, <1>3
LEMMA OpenFileQuiet == ASSUME NEW n, NEW s \in {"create", "write", "read", "delete"}, OpenFile(n, s) PROVE Quiet
  <1>1. CASE s = "delete"
    <2>1. held' = held /\ ntfile' = ntfile /\ told'.op # "NtClose"  BY <1>1 DEF OpenFile, OpenFileDelete, Told
    <2> QED BY <2>1, QuietSame
  <1>2. CASE s # "delete"
    <2>1. \E wr : lcreat(n) \/ lopen(n, wr)  BY <1>2 DEF OpenFile
    <2>2. PICK fl : OpenFd("call", n, fl)  BY <2>1, Zenon DEF lcreat, lopen
    <2> QED BY <2>2, OpenFdQuiet
  <1> QED BY <1>1, <1>2
LEMMA MappingQuiet == ASSUME NEW h, NEW s, NEW wr, CreateFileMapping(h, s, wr) PROVE Quiet
  <1>1. PICK i : i = Slot({j \in MapSlots : maps[j] = NONE})  OBVIOUS
  <1>2. PICK S : S = {Handle("map", i, h.fd)}  OBVIOUS
  <1>3. held' = held \cup S /\ ntfile' = ntfile /\ told'.op # "NtClose"  BY <1>1, <1>2 DEF CreateFileMapping, Told
  <1>4. \A g \in S : ~g.del  BY <1>2, HandleFresh
  <1>5. Kept(held, held', ntfile)  BY <1>3, <1>4, KeptMore
  <1> QED BY <1>3, <1>5 DEF Quiet
LEMMA MapViewQuiet == ASSUME NEW h, MapViewOfFile(h) PROVE Quiet
  <1>1. PICK i, ok : i = Slot({j \in MapSlots : views[j] = NONE}) /\ ok = Regular(host, h.fd)  OBVIOUS
  <1>2. PICK S : S = IF ok /\ i # NONE THEN {Handle("view", i, NONE)} ELSE {}  OBVIOUS
  <1>3. held' = held \cup S /\ ntfile' = ntfile /\ Told("call", ok, NONE)
    <2>1. held' = (IF ok /\ i # NONE THEN held \cup {Handle("view", i, NONE)} ELSE held) /\ ntfile' = ntfile /\ Told("call", ok, NONE)
      BY <1>1 DEF MapViewOfFile
    <2> QED BY <2>1, <1>2
  <1>4. \A g \in S : ~g.del  BY <1>2, HandleFresh
  <1>5. Kept(held, held', ntfile)  BY <1>3, <1>4, KeptMore
  <1>6. told'.op # "NtClose"  BY <1>3 DEF Told
  <1> QED BY <1>3, <1>5, <1>6 DEF Quiet
LEMMA GoneQuiet == ASSUME NEW h, h.k \notin NtKinds, held' = held \ {h}, ntfile' = ntfile, told'.op # "NtClose" PROVE Quiet
  <1>1. held' \subseteq held /\ \A g \in held \ held' : g.k \notin NtKinds  OBVIOUS
  <1>2. \A g \in held \ held' : g.k \in NtKinds => \A i \in NtSlots : ntfile[i].used => ntfile[i].fd # g.fd  BY <1>1
  <1>3. Kept(held, held', ntfile)  BY <1>1, <1>2, KeptLess
  <1> QED BY <1>3 DEF Quiet
LEMMA MapQuiet == ASSUME Clean = TRUE, MapOps PROVE Quiet
  <1>1. ASSUME NEW n \in Names, NEW s \in {"create", "write", "read", "delete"}, OpenFile(n, s) PROVE Quiet  BY <1>1, OpenFileQuiet
  <1>2. ASSUME NEW h, NEW s, NEW wr, CreateFileMapping(h, s, wr) PROVE Quiet  BY <1>2, MappingQuiet
  <1>3. ASSUME NEW m, MapViewOfFile(m) PROVE Quiet  BY <1>3, MapViewQuiet
  <1>4. ASSUME NEW v \in Of({"view"}), UnmapViewOfFile(v) PROVE Quiet
    <2>1. v.k = "view"  BY OfKinds
    <2>2. v.k \notin NtKinds  BY <2>1 DEF NtKinds
    <2>3. held' = held \ {v} /\ ntfile' = ntfile /\ told'.op # "NtClose"  BY <1>4 DEF UnmapViewOfFile, Told
    <2> QED BY <2>2, <2>3, GoneQuiet
  <1>5. ASSUME NEW h \in Of({"fd", "map"}), CloseHandle(h) PROVE Quiet
    <2>1. h \in held  BY OfKinds
    <2> QED BY <2>1, <1>5, CloseHandleQuiet
  <1> QED BY <1>1, <1>2, <1>3, <1>4, <1>5 DEF MapOps
LEMMA LzQuiet == ASSUME LzOps PROVE Quiet
  <1>1. ASSUME NEW n, NEW l, LZOpenFile(n, l) PROVE Quiet
    <2>1. PICK i : i = Slot({j \in LzSlots : ~lz[j].used})  OBVIOUS
    <2>2. CASE HOpen(host, n, {}).fd = NONE \/ i = NONE
      <3>1. Nothing("call", NONE)  BY <1>1, <2>1, <2>2 DEF LZOpenFile
      <3> QED BY <3>1, NothingQuiet
    <2>3. CASE ~(HOpen(host, n, {}).fd = NONE \/ i = NONE)
      <3>1. PICK S : S = {Handle("lz", i, NONE)}  OBVIOUS
      <3>2. held' = held \cup S /\ ntfile' = ntfile /\ told'.op # "NtClose"  BY <1>1, <2>1, <2>3, <3>1 DEF LZOpenFile, Told
      <3>3. \A g \in S : ~g.del  BY <3>1, HandleFresh
      <3>4. Kept(held, held', ntfile)  BY <3>2, <3>3, KeptMore
      <3> QED BY <3>2, <3>4 DEF Quiet
    <2> QED BY <2>2, <2>3
  <1>2. ASSUME NEW h, NEW l, LZInit(h, l) PROVE Quiet
    <2>1. PICK i : i = Slot({j \in LzSlots : ~lz[j].used})  OBVIOUS
    <2>2. PICK S : S = IF i = NONE THEN {} ELSE {Handle("lz", i, NONE)}  OBVIOUS
    <2>3. PICK ok : held' = (IF i = NONE THEN held ELSE held \cup {Handle("lz", i, NONE)}) /\ ntfile' = ntfile /\ Told("call", ok, NONE)
      BY <1>2, <2>1, Zenon DEF LZInit
    <2>4. held' = held \cup S /\ told'.op # "NtClose"  BY <2>2, <2>3 DEF Told
    <2>5. \A g \in S : ~g.del  BY <2>2, HandleFresh
    <2>6. Kept(held, held', ntfile)  BY <2>4, <2>5, KeptMore
    <2> QED BY <2>3, <2>4, <2>6 DEF Quiet
  <1>3. ASSUME NEW z \in Of({"lz"}), LZClose(z) PROVE Quiet
    <2>1. z.k = "lz"  BY OfKinds
    <2>2. z.k \notin NtKinds  BY <2>1 DEF NtKinds
    <2>3. held' = held \ {z} /\ ntfile' = ntfile /\ told'.op # "NtClose"  BY <1>3 DEF LZClose, Told
    <2> QED BY <2>2, <2>3, GoneQuiet
  <1>4. ASSUME NEW z, NEW w, LZRead(z, w) PROVE Quiet
    <2>1. held' = held /\ ntfile' = ntfile /\ \E ok : Told("call", ok, NONE)  BY <1>4, Zenon DEF LZRead
    <2>2. told'.op # "NtClose"  BY <2>1 DEF Told
    <2> QED BY <2>1, <2>2, QuietSame
  <1>5. ASSUME NEW z, NEW o, NEW k, LZSeek(z, o, k) PROVE Quiet
    <2>1. held' = held /\ ntfile' = ntfile /\ Told("call", TRUE, NONE)  BY <1>5, Zenon DEF LZSeek
    <2>2. told'.op # "NtClose"  BY <2>1 DEF Told
    <2> QED BY <2>1, <2>2, QuietSame
  <1> QED BY <1>1, <1>2, <1>3, <1>4, <1>5 DEF LzOps
LEMMA EntriesSlot == ASSUME FilesInv, NEW f PROVE (Entries(f) = {} /\ u32_ntfile_slot(f) = NONE) \/ (u32_ntfile_slot(f) \in Entries(f) /\ u32_ntfile_slot(f) # NONE)
  <1>1. Entries(f) \subseteq Nat  BY FilesAssumption DEF Entries
  <1> QED BY <1>1, SlotIn DEF u32_ntfile_slot
LEMMA NtCloseMarks == ASSUME FilesInv, Marks(held, ntfile), NEW h \in held, h.k \in {"fd", "nt"}, NtClose(h) PROVE Marks(held', ntfile')
  <1>1. PICK s : s = u32_ntfile_slot(h.fd)  OBVIOUS
  <1>2. (Entries(h.fd) = {} /\ s = NONE) \/ (s \in Entries(h.fd) /\ s # NONE)  BY <1>1, EntriesSlot
  <1>3. PICK U, X : U = ntfile' /\ X = held'  OBVIOUS
  <1>4. CASE s = NONE
    <2>1. PICK g : g = [h EXCEPT !.k = "lost"]  OBVIOUS
    <2>2. U = ntfile /\ X = (held \ {h}) \cup {g}  BY <1>1, <1>2, <1>3, <1>4, <2>1 DEF NtClose, aret_ntfile_close
    <2>3. h \in HandleRec  BY HeldIs
    <2>4. g.k = "lost"  BY <2>1, <2>3 DEF HandleRec
    <2>5. \A i \in NtSlots : ntfile[i].used => ntfile[i].fd # h.fd  BY <1>2, <1>4 DEF Entries
    <2>6. Kept(held, X, ntfile)  BY <2>2, <2>4, <2>5 DEF Kept, NtKinds
    <2>7. Marks(X, ntfile)  BY <2>6, KeptMarks
    <2> QED BY <2>2, <2>7, <1>3
  <1>5. CASE s # NONE
    <2>1. s \in NtSlots /\ ntfile[s].used /\ ntfile[s].fd = h.fd  BY <1>2, <1>5 DEF Entries
    <2>2. PICK e : e = [ntfile[s] EXCEPT !.used = FALSE, !.snap = NONE]  OBVIOUS
    <2>3. U = [ntfile EXCEPT ![s] = e] /\ X = held \ {h}
      <3>1. ntfile' = [ntfile EXCEPT ![s].used = FALSE, ![s].snap = NONE]  BY <1>1, <1>5 DEF NtClose, aret_ntfile_close
      <3>2. held' = held \ {h}
        <4>1. Entries(h.fd) # {}  BY <1>2, <1>5
        <4> QED BY <4>1 DEF NtClose
      <3>3. ntfile \in [NtSlots -> NtRec]  BY TableIs
      <3>4. [ntfile EXCEPT ![s].used = FALSE, ![s].snap = NONE] = [ntfile EXCEPT ![s] = e]  BY <2>1, <2>2, <3>3
      <3> QED BY <3>1, <3>2, <3>4, <1>3
    <2>4. ~e.used /\ ntfile \in [NtSlots -> NtRec]
      <3>1. ntfile \in [NtSlots -> NtRec]  BY TableIs
      <3>2. ntfile[s] \in NtRec  BY <3>1, <2>1
      <3> QED BY <3>1, <3>2, <2>2 DEF NtRec
    <2>5. \A i \in NtSlots : U[i].used => i # s /\ U[i] = ntfile[i]  BY <2>1, <2>3, <2>4
    <2>6. \A i \in NtSlots : i # s => U[i] = ntfile[i]  BY <2>3, <2>4
    <2>7. ASSUME NEW i \in NtSlots, U[i].used
          PROVE \E x \in X : x.k \in NtKinds /\ x.fd = U[i].fd /\ (x.k # "stream" => x.del = U[i].del /\ (x.del => x.kept = U[i].path))
      <3>1. i # s /\ U[i] = ntfile[i]  BY <2>5, <2>7
      <3>2. PICK x \in held : x.k \in NtKinds /\ x.fd = ntfile[i].fd /\ (x.k # "stream" => x.del = ntfile[i].del /\ (x.del => x.kept = ntfile[i].path))
        BY <2>7, <3>1 DEF Marks
      <3>3. ntfile[i].fd # h.fd  BY <2>1, <2>7, <3>1 DEF Marks
      <3>4. x \in X  BY <2>3, <3>2, <3>3
      <3> QED BY <3>1, <3>2, <3>4
    <2>8. \A i, j \in NtSlots : U[i].used /\ U[j].used /\ U[i].fd = U[j].fd => i = j  BY <2>5 DEF Marks
    <2>9. ASSUME NEW x \in X, x.k \in {"fd", "nt"}, x.del, x.kept # NONE PROVE \E i \in NtSlots : U[i].used /\ U[i].fd = x.fd
      <3>1. x \in held /\ x # h  BY <2>3, <2>9
      <3>2. PICK i \in NtSlots : ntfile[i].used /\ ntfile[i].fd = x.fd  BY <2>9, <3>1 DEF Marks
      <3>3. x.fd # h.fd
        <4>1. x.k \in OwnerKinds /\ h.k \in OwnerKinds  BY <2>9 DEF OwnerKinds
        <4>2. OwnFds(held, Opens(host))  BY DEF FilesInv
        <4> QED BY <4>1, <4>2, <3>1 DEF OwnFds
      <3>4. i # s  BY <2>1, <3>2, <3>3
      <3> QED BY <3>2, <3>4, <2>6
    <2>10. Marks(X, U)  BY <2>7, <2>8, <2>9 DEF Marks
    <2> QED BY <2>10, <1>3
  <1> QED BY <1>4, <1>5
\* The names HClose and HUnlink leave.
LEMMA ClosePresent == ASSUME NEW H \in HostType, NEW f PROVE Present(HClose(H, f)) = Present(H) /\ HClose(H, f) \in HostType
  <1>1. CASE f \in Fds
    <2>1. PICK A : A = [H EXCEPT !.fd[f] = NONE]  OBVIOUS
    <2>2. A \in HostType /\ A.name = H.name  BY <1>1, <2>1 DEF HostType
    <2>3. Tidy(A) \in HostType /\ Tidy(A).name = A.name  BY <2>2, TidyIs
    <2>4. HClose(H, f) = Tidy(A)  BY <1>1, <2>1 DEF HClose
    <2> QED BY <2>2, <2>3, <2>4 DEF Present
  <1>2. CASE f \notin Fds
    <2>1. HClose(H, f) = H  BY <1>2 DEF HClose
    <2> QED BY <2>1
  <1> QED BY <1>1, <1>2
LEMMA UnlinkPresent == ASSUME NEW H \in HostType, NEW n \in Names PROVE Present(HUnlink(H, n)) = Present(H) \ {n}
  <1>1. PICK A : A = [H EXCEPT !.name[n] = NONE]  OBVIOUS
  <1>2. A \in HostType /\ A.name = [H.name EXCEPT ![n] = NONE] /\ H.name \in [Names -> Inodes \cup {NONE}]  BY <1>1 DEF HostType
  <1>3. Tidy(A).name = A.name  BY <1>2, TidyIs
  <1>4. HUnlink(H, n) = Tidy(A)  BY <1>1 DEF HUnlink
  <1>5. PICK m, m2 : m = HUnlink(H, n).name /\ m2 = H.name  OBVIOUS
  <1>6. m = [m2 EXCEPT ![n] = NONE] /\ m2 \in [Names -> Inodes \cup {NONE}]  BY <1>2, <1>3, <1>4, <1>5
  <1>7. \A k \in Names : m[k] # NONE <=> m2[k] # NONE /\ k # n  BY <1>6
  <1> QED BY <1>5, <1>7 DEF Present
\* What NtClose does to the names.
NtCloseRight == LET h == told'.info
                IN  /\ Present(host') # Present(host) => h.del
                    /\ h.del /\ h.kept # NONE => Present(host') = Present(host) \ {h.kept}
LEMMA NtCloseExact == ASSUME FilesInv, Marks(held, ntfile), NEW h \in held, h.k \in {"fd", "nt"}, NtClose(h) PROVE NtCloseRight
  <1>1. PICK s : s = u32_ntfile_slot(h.fd)  OBVIOUS
  <1>2. (Entries(h.fd) = {} /\ s = NONE) \/ (s \in Entries(h.fd) /\ s # NONE)  BY <1>1, EntriesSlot
  <1>3. told'.info = h  BY DEF NtClose, Told
  <1>4. PICK K : K = host'  OBVIOUS
  <1>5. CASE s = NONE
    <2>1. K = host  BY <1>1, <1>4, <1>5 DEF NtClose, aret_ntfile_close
    <2>2. ~(h.del /\ h.kept # NONE)
      <3>1. SUFFICES ASSUME h.del, h.kept # NONE PROVE FALSE  OBVIOUS
      <3>2. PICK i \in NtSlots : ntfile[i].used /\ ntfile[i].fd = h.fd  BY <3>1 DEF Marks
      <3>3. i \in Entries(h.fd)  BY <3>2 DEF Entries
      <3> QED BY <3>3, <1>2, <1>5
    <2> QED BY <2>1, <2>2, <1>3, <1>4 DEF NtCloseRight
  <1>6. CASE s # NONE
    <2>1. s \in NtSlots /\ ntfile[s].used /\ ntfile[s].fd = h.fd  BY <1>2, <1>6 DEF Entries
    <2>2. PICK H : H = HClose(host, h.fd)  OBVIOUS
    <2>3. PICK d, p : d = ntfile[s].del /\ p = ntfile[s].path  OBVIOUS
    <2>4. K = IF d /\ p \in Names THEN HUnlink(H, p) ELSE H  BY <1>1, <1>4, <1>6, <2>2, <2>3 DEF NtClose, aret_ntfile_close
    <2>5. host \in HostType  BY HostHere
    <2>6. Present(H) = Present(host) /\ H \in HostType  BY <2>2, <2>5, ClosePresent
    <2>7. h.del = d /\ (h.del => h.kept = p)
      <3>1. PICK x \in held : x.k \in NtKinds /\ x.fd = ntfile[s].fd /\ (x.k # "stream" => x.del = ntfile[s].del /\ (x.del => x.kept = ntfile[s].path))
        BY <2>1 DEF Marks
      <3>2. x = h
        <4>1. x.k \in OwnerKinds /\ h.k \in OwnerKinds /\ x.fd = h.fd  BY <3>1, <2>1 DEF OwnerKinds, NtKinds
        <4>2. OwnFds(held, Opens(host))  BY DEF FilesInv
        <4> QED BY <4>1, <4>2 DEF OwnFds
      <3>3. h.k # "stream"  OBVIOUS
      <3> QED BY <3>1, <3>2, <3>3, <2>3
    <2>8. p \in Names \cup {NONE}
      <3>1. ntfile[s] \in NtRec  BY <2>1, TableIs
      <3> QED BY <3>1, <2>3 DEF NtRec
    <2>9. CASE d /\ p \in Names
      <3>1. Present(K) = Present(host) \ {p}  BY <2>4, <2>6, <2>9, UnlinkPresent
      <3> QED BY <3>1, <2>7, <2>9, <1>3, <1>4 DEF NtCloseRight
    <2>10. CASE ~(d /\ p \in Names)
      <3>1. Present(K) = Present(host)  BY <2>4, <2>6, <2>10
      <3>2. ~(h.del /\ h.kept # NONE)  BY <2>7, <2>8, <2>10
      <3> QED BY <3>1, <3>2, <1>3, <1>4 DEF NtCloseRight
    <2> QED BY <2>9, <2>10
  <1> QED BY <1>5, <1>6
\* A step keeps the marks, and one that answers for NtClose is NtClose of a handle of the Nt layer.
EachClose == Marks(held', ntfile') /\ (told'.op = "NtClose" => NtCloseRight)
LEMMA MarkClosed == ASSUME MarkStep PROVE EachClose
  BY DEF MarkStep, EachClose
LEMMA QuietClosed == ASSUME Marks(held, ntfile), Quiet PROVE EachClose
  BY QuietMarks, MarkClosed
LEMMA NtClosed == ASSUME FilesInv, Marks(held, ntfile), Clean = TRUE, NtOps PROVE EachClose
  <1>1. ASSUME NEW n \in Names, NEW wr, NEW d, u32_nt_open(n, wr, d) PROVE EachClose
    <2>1. MarkStep  BY <1>1, NtOpenMarks
    <2> QED BY <2>1, MarkClosed
  <1>2. ASSUME NEW h, NEW off, NEW more, NtReadFile(h, off, more) \/ NtWriteFile(h, off) PROVE EachClose
    <2>1. held' = held /\ ntfile' = ntfile /\ \E ok : Told("call", ok, NONE)  BY <1>2, Zenon DEF NtReadFile, NtWriteFile
    <2>2. told'.op # "NtClose"  BY <2>1 DEF Told
    <2>3. Quiet  BY <2>1, <2>2, QuietSame
    <2> QED BY <2>3, QuietClosed
  <1>3. ASSUME NEW h, NEW p, NtSetEndOfFile(h, p) \/ NtSetPosition(h, p) PROVE EachClose
    <2>1. held' = held /\ ntfile' = ntfile /\ told'.op # "NtClose"  BY <1>3 DEF NtSetEndOfFile, NtSetPosition, chsize, lseek, Told
    <2>2. Quiet  BY <2>1, QuietSame
    <2> QED BY <2>2, QuietClosed
  <1>4. ASSUME NEW h \in Of({"nt", "fd"}), NEW del \in BOOLEAN, NtSetDisposition(h, del) PROVE EachClose
    <2>1. h \in held /\ h.k \in {"fd", "nt"}  BY OfKinds
    <2>2. MarkStep  BY <2>1, <1>4, DispositionMarks
    <2> QED BY <2>2, MarkClosed
  <1>5. ASSUME NEW h \in Of({"nt", "fd"}), NtClose(h) PROVE EachClose
    <2>1. h \in held /\ h.k \in {"fd", "nt"}  BY OfKinds
    <2>2. Marks(held', ntfile')  BY <2>1, <1>5, NtCloseMarks
    <2>3. NtCloseRight  BY <2>1, <1>5, NtCloseExact
    <2> QED BY <2>2, <2>3 DEF EachClose
  <1>6. ASSUME NEW h \in Of({"nt", "fd"}), CloseHandle(h) PROVE EachClose
    <2>1. h \in held  BY OfKinds
    <2>2. Quiet  BY <2>1, <1>6, CloseHandleQuiet
    <2> QED BY <2>2, QuietClosed
  <1>7. ASSUME NEW n, NEW wr, NEW d, CreateFile(n, wr, d) PROVE EachClose  BY <1>7, CreateFileQuiet, QuietClosed
  <1> QED BY <1>1, <1>2, <1>3, <1>4, <1>5, <1>6, <1>7 DEF NtOps
LEMMA ScanClosed == ASSUME FilesInv, Marks(held, ntfile), ScanOps PROVE EachClose
  <1>1. CASE NtOpenDirectory  BY <1>1, NtDirectoryMarks, MarkClosed
  <1>2. ASSUME NEW h, NEW r, NEW room, NtQueryDirectoryFile(h, r, room) PROVE EachClose  BY <1>2, QueryMarks, MarkClosed
  <1> QED BY <1>1, <1>2 DEF ScanOps
LEMMA ClosedStep == ASSUME FilesInv, Marks(held, ntfile), Clean = TRUE, FilesNext PROVE EachClose
  <1>1. ASSUME DescriptorOps PROVE EachClose  BY <1>1, DescriptorQuiet, QuietClosed
  <1>2. ASSUME NameOps PROVE EachClose  BY <1>2, NameQuiet, QuietClosed
  <1>3. ASSUME StdioOps(Names, Names) PROVE EachClose  BY <1>3, StdioQuiet, QuietClosed
  <1>4. ASSUME MapOps PROVE EachClose  BY <1>4, MapQuiet, QuietClosed
  <1>5. ASSUME LzOps PROVE EachClose  BY <1>5, LzQuiet, QuietClosed
  <1> QED BY <1>1, <1>2, <1>3, <1>4, <1>5, NtClosed, ScanClosed DEF FilesNext

\* NtClose removes a name only for a handle marked for deletion, and the name the table had at the
\* mark: aret_nt_file entries keyed by descriptor never answer for another file.
THEOREM NtCloseDeletesExactly == ASSUME Clean = TRUE PROVE FilesSpec => DeleteExactly
  <1> DEFINE Inv == FilesInv /\ Marks(held, ntfile)
  <1>1. FilesInit => Inv
    <2>1. FilesInit => Marks(held, ntfile)  BY DEF FilesInit, Marks, NoEntry
    <2> QED BY <2>1, FilesStart
  <1>2. Inv /\ [FilesNext]_filesVars => Inv'
    <2>1. ASSUME Inv, FilesNext PROVE Inv'
      <3>1. FilesInv'  BY <2>1, FilesStep
      <3>2. EachClose  BY <2>1, ClosedStep
      <3> QED BY <3>1, <3>2 DEF EachClose
    <2>2. ASSUME Inv, UNCHANGED filesVars PROVE Inv'
      <3>1. FilesInv'  BY <2>2, FilesStutter
      <3>2. held' = held /\ ntfile' = ntfile  BY <2>2 DEF filesVars
      <3> QED BY <3>1, <3>2, <2>2
    <2> QED BY <2>1, <2>2
  <1>3. Inv /\ [FilesNext]_filesVars => [told'.op = "NtClose" => NtCloseRight]_filesVars
    BY ClosedStep DEF EachClose
  <1>4. FilesSpec => [][told'.op = "NtClose" => NtCloseRight]_filesVars
    <2> HIDE DEF Inv
    <2> QED BY <1>1, <1>2, <1>3, PTL DEF FilesSpec
  <1> QED BY <1>4 DEF DeleteExactly, NtCloseRight

-----------------------------------------------------------------------------
(* What the calls report                                                       *)
\* An inode nothing refers to has no bytes, so opening one that is new truncates nothing.
DeadEmpty(H) == \A i \in Inodes : i \notin Live(H) => H.len[i] = 0
Sane(H) == H \in HostType /\ DeadEmpty(H)
\* K has the names, the bytes and the free descriptors of H; K still refers to each file H has a name for.
Alike(H, K) == K.name = H.name /\ K.len = H.len /\ Free(K) = Free(H)
Named(H, K) == Range(H.name) \subseteq Range(K.name) \cup {NONE}
\* The reads, writes and seeks: K refers to the files H refers to.
Moves(H, K) ==
    /\ K \in HostType /\ K.name = H.name /\ K.fd = H.fd
    /\ \A d \in Fds : K.desc[d].ino = H.desc[d].ino
    /\ \A i \in Inodes : i \notin Live(H) => K.len[i] = H.len[i]
Shifts(H, K) == Moves(H, K) /\ K.len = H.len
LEMMA LiveIs == ASSUME NEW H \in HostType, NEW i
    PROVE i \in Live(H) <=> i # NONE /\ i # Other /\ ((\E n \in Names : i = H.name[n]) \/ \E f \in Fds : H.fd[f] # NONE /\ i = H.desc[H.fd[f]].ino)
  <1>1. H.fd \in [Fds -> Fds \cup {NONE}]  BY HostIs
  <1>2. Range(H.fd) = {H.fd[f] : f \in Fds}  BY <1>1 DEF Range
  <1> QED BY <1>2 DEF Live
LEMMA MovesLive == ASSUME NEW H \in HostType, NEW K, Moves(H, K) PROVE Live(K) = Live(H)
  <1>1. K \in HostType /\ K.name = H.name /\ K.fd = H.fd /\ \A d \in Fds : K.desc[d].ino = H.desc[d].ino  BY DEF Moves
  <1>2. H.fd \in [Fds -> Fds \cup {NONE}]  BY HostIs
  <1>3. \A f \in Fds : H.fd[f] # NONE => K.desc[K.fd[f]].ino = H.desc[H.fd[f]].ino  BY <1>1, <1>2
  <1>4. ASSUME NEW i PROVE i \in Live(K) <=> i \in Live(H)
    <2>1. i \in Live(H) <=> i # NONE /\ i # Other /\ ((\E n \in Names : i = H.name[n]) \/ \E f \in Fds : H.fd[f] # NONE /\ i = H.desc[H.fd[f]].ino)
      BY LiveIs
    <2>2. i \in Live(K) <=> i # NONE /\ i # Other /\ ((\E n \in Names : i = K.name[n]) \/ \E f \in Fds : K.fd[f] # NONE /\ i = K.desc[K.fd[f]].ino)
      BY <1>1, LiveIs
    <2> QED BY <2>1, <2>2, <1>1, <1>3
  <1> QED BY <1>4
LEMMA MovesSane == ASSUME NEW H, Sane(H), NEW K, Moves(H, K) PROVE Sane(K) /\ Named(H, K)
  <1>1. Live(K) = Live(H)  BY MovesLive DEF Sane
  <1>2. DeadEmpty(K)  BY <1>1 DEF Sane, DeadEmpty, Moves
  <1>3. K \in HostType /\ K.name = H.name  BY DEF Moves
  <1> QED BY <1>2, <1>3 DEF Sane, Named
LEMMA MovesTwice == ASSUME NEW H \in HostType, NEW A, NEW B, Moves(H, A), Moves(A, B) PROVE Moves(H, B)
  <1>1. Live(A) = Live(H)  BY MovesLive
  <1> QED BY <1>1 DEF Moves
LEMMA ShiftsTwice == ASSUME NEW H \in HostType, NEW A, NEW B, Shifts(H, A), Shifts(A, B) PROVE Shifts(H, B)
  BY MovesTwice DEF Shifts
LEMMA ShiftsSelf == ASSUME NEW H \in HostType PROVE Shifts(H, H)
  BY DEF Shifts, Moves
LEMMA ShiftsAlike == ASSUME NEW H, NEW K, Shifts(H, K) PROVE Alike(H, K) /\ Moves(H, K)
  BY DEF Shifts, Moves, Alike, Free
LEMMA SeekShifts == ASSUME NEW H \in HostType, NEW f, IsOpen(H, f), NEW p \in 0..MaxLen PROVE Shifts(H, HSeek(H, f, p))
  <1>1. /\ H = [name |-> H.name, len |-> H.len, fd |-> H.fd, desc |-> H.desc]
        /\ H.name \in [Names -> Inodes \cup {NONE}] /\ H.len \in [Inodes -> 0..MaxLen]
        /\ H.fd \in [Fds -> Fds \cup {NONE}] /\ H.desc \in [Fds -> Descs]
    BY HostIs
  <1>2. PICK d : d = H.fd[f]  OBVIOUS
  <1>3. d \in Fds /\ H.desc[d] \in Descs  BY <1>2, Reaches
  <1>4. PICK T, ds, x : T = HSeek(H, f, p) /\ ds = [H.desc EXCEPT ![d] = x] /\ x = [H.desc[d] EXCEPT !.pos = p]  OBVIOUS
  <1>5. T = [name |-> H.name, len |-> H.len, fd |-> H.fd, desc |-> ds]
    <2>1. [H.desc EXCEPT ![d].pos = p] = ds  BY <1>1, <1>3, <1>4
    <2> QED BY <2>1, <1>1, <1>2, <1>4 DEF HSeek
  <1>6. x.ino = H.desc[d].ino  BY <1>3, <1>4 DEF Descs
  <1>7. \A e \in Fds : ds[e].ino = H.desc[e].ino  BY <1>1, <1>4, <1>6
  <1>8. T.name = H.name /\ T.len = H.len /\ T.fd = H.fd /\ T.desc = ds  BY <1>5
  <1>9. T \in HostType  BY <1>4, HSeekIs DEF Touched
  <1>10. Shifts(H, T)  BY <1>7, <1>8, <1>9 DEF Shifts, Moves
  <1> QED BY <1>4, <1>10
LEMMA RegularLive == ASSUME NEW H \in HostType, NEW f, Regular(H, f) PROVE Ino(H, f) \in Live(H)
  <1>1. Ino(H, f) \in Inodes /\ IsOpen(H, f)  BY RegularIs
  <1>2. Ino(H, f) # NONE /\ Ino(H, f) # Other  BY <1>1, Constants
  <1>3. f \in Fds /\ H.fd[f] # NONE  BY <1>1 DEF IsOpen
  <1> QED BY <1>2, <1>3, LiveIs DEF Ino
LEMMA LengthMoves == ASSUME NEW H \in HostType, NEW i \in Inodes, i \in Live(H), NEW n \in 0..MaxLen PROVE Moves(H, [H EXCEPT !.len[i] = n])
  <1>1. H = [name |-> H.name, len |-> H.len, fd |-> H.fd, desc |-> H.desc] /\ H.len \in [Inodes -> 0..MaxLen]  BY HostIs
  <1>2. PICK T, ln : T = [H EXCEPT !.len[i] = n] /\ ln = [H.len EXCEPT ![i] = n]  OBVIOUS
  <1>3. T = [name |-> H.name, len |-> ln, fd |-> H.fd, desc |-> H.desc]  BY <1>1, <1>2
  <1>4. T.name = H.name /\ T.len = ln /\ T.fd = H.fd /\ T.desc = H.desc  BY <1>3
  <1>5. T \in HostType  BY <1>2, HLengthIs DEF Touched
  <1>6. \A j \in Inodes : j \notin Live(H) => ln[j] = H.len[j]  BY <1>1, <1>2
  <1>7. Moves(H, T)  BY <1>4, <1>5, <1>6 DEF Moves
  <1> QED BY <1>2, <1>7
LEMMA TruncateMoves == ASSUME NEW H \in HostType, NEW f, CanTruncate(H, f), NEW n \in 0..MaxLen PROVE Moves(H, HTruncate(H, f, n))
  <1>1. PICK i : i = Ino(H, f)  OBVIOUS
  <1>2. Regular(H, f)  BY DEF CanTruncate
  <1>3. i \in Inodes /\ i \in Live(H)  BY <1>1, <1>2, RegularIs, RegularLive
  <1> QED BY <1>1, <1>3, LengthMoves DEF HTruncate
LEMMA WriteMoves == ASSUME NEW H \in HostType, NEW f, CanWrite(H, f) PROVE Moves(H, HWrite(H, f))
  <1>1. PICK p, i : p = WritePos(H, f) + 1 /\ i = Ino(H, f)  OBVIOUS
  <1>2. Regular(H, f) /\ WritePos(H, f) < MaxLen  BY DEF CanWrite, CanTruncate
  <1>3. IsOpen(H, f) /\ i \in Inodes /\ Size(H, f) \in 0..MaxLen /\ i \in Live(H)  BY <1>1, <1>2, RegularIs, RegularLive
  <1>4. H.desc[H.fd[f]].pos \in 0..MaxLen
    <2>1. H.desc[H.fd[f]] \in Descs  BY <1>3, Reaches
    <2> QED BY <2>1 DEF Descs
  <1>5. WritePos(H, f) \in 0..MaxLen  BY <1>3, <1>4 DEF WritePos
  <1>6. p \in 0..MaxLen  BY <1>1, <1>2, <1>5, HostAssumption
  <1>7. PICK S, l : S = HSeek(H, f, p) /\ l = S.len[i]  OBVIOUS
  <1>8. Shifts(H, S)  BY <1>3, <1>6, <1>7, SeekShifts
  <1>9. Moves(H, S) /\ S \in HostType  BY <1>8 DEF Shifts, Moves
  <1>10. l \in 0..MaxLen
    <2>1. S.len \in [Inodes -> 0..MaxLen]  BY <1>9, HostIs
    <2> QED BY <2>1, <1>3, <1>7
  <1>11. PICK n : n = Max({l, p})  OBVIOUS
  <1>12. n \in 0..MaxLen
    <2>1. l \in Int /\ p \in Int  BY <1>6, <1>10
    <2>2. n = IF l < p THEN p ELSE l  BY <2>1, <1>11, Max2
    <2> QED BY <2>2, <1>6, <1>10
  <1>13. HWrite(H, f) = [S EXCEPT !.len[i] = n]
    BY <1>1, <1>7, <1>11 DEF HWrite
  <1>14. i \in Live(S)  BY <1>3, <1>9, MovesLive
  <1>15. PICK T : T = [S EXCEPT !.len[i] = n]  OBVIOUS
  <1>16. Moves(S, T)  BY <1>3, <1>9, <1>12, <1>14, <1>15, LengthMoves
  <1>17. Moves(H, T)  BY <1>9, <1>16, MovesTwice
  <1> QED BY <1>13, <1>15, <1>17
LEMMA ReadShifts == ASSUME NEW H \in HostType, NEW f, NEW more, HasByte(H, f, more) PROVE Shifts(H, HRead(H, f))
  <1>1. CASE Regular(H, f)
    <2>1. PICK p : p = H.desc[H.fd[f]].pos  OBVIOUS
    <2>2. IsOpen(H, f) /\ Size(H, f) \in 0..MaxLen  BY <1>1, RegularIs
    <2>3. p \in 0..MaxLen
      <3>1. H.desc[H.fd[f]] \in Descs  BY <2>2, Reaches
      <3> QED BY <3>1, <2>1 DEF Descs
    <2>4. p < Size(H, f)  BY <1>1, <2>1 DEF HasByte
    <2>5. PICK q : q = p + 1  OBVIOUS
    <2>6. q \in 0..MaxLen  BY <2>2, <2>3, <2>4, <2>5, HostAssumption
    <2>7. Shifts(H, HSeek(H, f, q))  BY <2>2, <2>6, SeekShifts
    <2> QED BY <2>1, <2>5, <2>7, <1>1 DEF HRead
  <1>2. CASE ~Regular(H, f)  BY <1>2, ShiftsSelf DEF HRead
  <1> QED BY <1>1, <1>2
LEMMA MayReadShifts == ASSUME NEW H \in HostType, NEW f, NEW more, NEW c, c => HasByte(H, f, more) PROVE Shifts(H, IF c THEN HRead(H, f) ELSE H)
  <1>1. CASE c  BY <1>1, ReadShifts
  <1>2. CASE ~c  BY <1>2, ShiftsSelf
  <1> QED BY <1>1, <1>2
LEMMA MaySeekShifts == ASSUME NEW H \in HostType, NEW f, NEW p \in 0..MaxLen PROVE Shifts(H, IF Regular(H, f) THEN HSeek(H, f, p) ELSE H)
  <1>1. CASE Regular(H, f)  BY <1>1, RegularIs, SeekShifts
  <1>2. CASE ~Regular(H, f)  BY <1>2, ShiftsSelf
  <1> QED BY <1>1, <1>2
LEMMA MayWriteMoves == ASSUME NEW H \in HostType, NEW f PROVE Moves(H, IF CanWrite(H, f) THEN HWrite(H, f) ELSE H)
  <1>1. CASE CanWrite(H, f)  BY <1>1, WriteMoves
  <1>2. CASE ~CanWrite(H, f)
    <2>1. Moves(H, H)  BY ShiftsSelf, ShiftsAlike
    <2> QED BY <1>2, <2>1
  <1> QED BY <1>1, <1>2
\* What is tidied has nothing left over; what was not there before is gone without a trace.
LEMMA TidyFields == ASSUME NEW H \in HostType
    PROVE \A i \in Inodes : Tidy(H).len[i] = IF i \in Live(H) THEN H.len[i] ELSE 0
  <1>1. PICK l, d : l = [i \in Inodes |-> IF i \in Live(H) THEN H.len[i] ELSE 0] /\ d = [x \in Fds |-> IF x \in Range(H.fd) THEN H.desc[x] ELSE Blank]
    OBVIOUS
  <1>2. H = [name |-> H.name, len |-> H.len, fd |-> H.fd, desc |-> H.desc]  BY HostIs
  <1>3. PICK T : T = Tidy(H)  OBVIOUS
  <1>4. T = [name |-> H.name, len |-> l, fd |-> H.fd, desc |-> d]  BY <1>1, <1>2, <1>3 DEF Tidy
  <1>5. T.len = l  BY <1>4
  <1> QED BY <1>1, <1>3, <1>5
LEMMA TidyLive == ASSUME NEW H \in HostType PROVE Live(Tidy(H)) = Live(H)
  <1>1. PICK d : d = [x \in Fds |-> IF x \in Range(H.fd) THEN H.desc[x] ELSE Blank]  OBVIOUS
  <1>2. PICK T : T = Tidy(H)  OBVIOUS
  <1>3. T.desc = d
    <2>1. PICK l : l = [i \in Inodes |-> IF i \in Live(H) THEN H.len[i] ELSE 0]  OBVIOUS
    <2>2. H = [name |-> H.name, len |-> H.len, fd |-> H.fd, desc |-> H.desc]  BY HostIs
    <2>3. T = [name |-> H.name, len |-> l, fd |-> H.fd, desc |-> d]  BY <1>1, <1>2, <2>1, <2>2 DEF Tidy
    <2> QED BY <2>3
  <1>4. T \in HostType /\ T.fd = H.fd /\ T.name = H.name  BY <1>2, TidyIs
  <1>5. H.fd \in [Fds -> Fds \cup {NONE}]  BY HostIs
  <1>6. ASSUME NEW f \in Fds, H.fd[f] # NONE PROVE T.desc[T.fd[f]] = H.desc[H.fd[f]]
    <2>1. H.fd[f] \in Fds /\ H.fd[f] \in Range(H.fd)  BY <1>5, <1>6 DEF Range
    <2> QED BY <2>1, <1>1, <1>3, <1>4
  <1>7. ASSUME NEW i PROVE i \in Live(T) <=> i \in Live(H)
    <2>1. i \in Live(H) <=> i # NONE /\ i # Other /\ ((\E n \in Names : i = H.name[n]) \/ \E f \in Fds : H.fd[f] # NONE /\ i = H.desc[H.fd[f]].ino)
      BY LiveIs
    <2>2. i \in Live(T) <=> i # NONE /\ i # Other /\ ((\E n \in Names : i = T.name[n]) \/ \E f \in Fds : T.fd[f] # NONE /\ i = T.desc[T.fd[f]].ino)
      BY <1>4, LiveIs
    <2> QED BY <2>1, <2>2, <1>4, <1>6
  <1> QED BY <1>2, <1>7
LEMMA TidySane == ASSUME NEW H \in HostType PROVE Sane(Tidy(H))
  <1>1. PICK T : T = Tidy(H)  OBVIOUS
  <1>2. T \in HostType  BY <1>1, TidyIs
  <1>3. Live(T) = Live(H)  BY <1>1, TidyLive
  <1>4. \A i \in Inodes : i \notin Live(T) => T.len[i] = 0  BY <1>1, <1>3, TidyFields
  <1> QED BY <1>1, <1>2, <1>4 DEF Sane, DeadEmpty
LEMMA CloseBack == ASSUME NEW H, Sane(H), NEW A \in HostType, A.name = H.name, A.len = H.len, A.fd = H.fd,
           \A f \in Fds : H.fd[f] # NONE => A.desc[H.fd[f]] = H.desc[H.fd[f]]
    PROVE Alike(H, Tidy(A))
  <1>1. H \in HostType /\ \A i \in Inodes : i \notin Live(H) => H.len[i] = 0  BY DEF Sane, DeadEmpty
  <1>2. \A f \in Fds : H.fd[f] # NONE => A.desc[A.fd[f]].ino = H.desc[H.fd[f]].ino  OBVIOUS
  <1>3. ASSUME NEW i PROVE i \in Live(A) <=> i \in Live(H)
    <2>1. i \in Live(H) <=> i # NONE /\ i # Other /\ ((\E n \in Names : i = H.name[n]) \/ \E f \in Fds : H.fd[f] # NONE /\ i = H.desc[H.fd[f]].ino)
      BY <1>1, LiveIs
    <2>2. i \in Live(A) <=> i # NONE /\ i # Other /\ ((\E n \in Names : i = A.name[n]) \/ \E f \in Fds : A.fd[f] # NONE /\ i = A.desc[A.fd[f]].ino)
      BY LiveIs
    <2> QED BY <2>1, <2>2, <1>2
  <1>4. PICK T : T = Tidy(A)  OBVIOUS
  <1>5. T \in HostType /\ T.fd = H.fd /\ T.name = H.name  BY <1>4, TidyIs
  <1>6. \A i \in Inodes : T.len[i] = H.len[i]  BY <1>1, <1>3, <1>4, TidyFields
  <1>7. PICK a, b : a = T.len /\ b = H.len  OBVIOUS
  <1>8. a \in [Inodes -> 0..MaxLen] /\ b \in [Inodes -> 0..MaxLen]  BY <1>1, <1>5, <1>7, HostIs
  <1>9. a = b
    <2>1. \A i \in Inodes : a[i] = b[i]  BY <1>6, <1>7
    <2> QED BY <2>1, <1>8
  <1> QED BY <1>4, <1>5, <1>7, <1>9 DEF Alike, Free
\* What an open leaves: n has the inode i, a new description d refers to it, and nothing that was referred to has changed.
OpenLeaves(H, K, n, f, d, i, cut) ==
    /\ K \in HostType /\ f \in Fds /\ H.fd[f] = NONE /\ d \in Fds /\ d \notin Range(H.fd) /\ i \in Inodes
    /\ n \in Present(H) => i = H.name[n]
    /\ K.name = [H.name EXCEPT ![n] = i] /\ K.fd = [H.fd EXCEPT ![f] = d]
    /\ K.len = [H.len EXCEPT ![i] = IF cut THEN 0 ELSE H.len[i]]
    /\ \A e \in Fds : e # d => K.desc[e] = H.desc[e]
    /\ K.desc[d].ino = i
LEMMA HOpenLeaves == ASSUME NEW H \in HostType, NEW n \in Names, NEW fl, NEW o, o = HOpen(H, n, fl), o.fd # NONE
    PROVE \E d, i : OpenLeaves(H, o.host, n, o.fd, d, i, n \notin Present(H) \/ "trunc" \in fl)
  <1>2. PICK ex, ino, f, d, cut : /\ ex = (n \in Present(H)) /\ ino = (IF ex THEN H.name[n] ELSE Min(Inodes \ Live(H)))
                                  /\ f = Min(Free(H)) /\ d = FreeDesc(H) /\ cut = (n \notin Present(H) \/ "trunc" \in fl)
    OBVIOUS
  <1>3. CASE Free(H) = {} \/ (ex /\ {"creat", "excl"} \subseteq fl) \/ (~ex /\ "creat" \notin fl)
    <2>1. o = [fd |-> NONE, host |-> H]  BY <1>2, <1>3 DEF HOpen
    <2> QED BY <2>1
  <1>4. CASE ~(Free(H) = {} \/ (ex /\ {"creat", "excl"} \subseteq fl) \/ (~ex /\ "creat" \notin fl))
    <2>1. PICK H2 : H2 = [H EXCEPT !.name[n] = ino, !.fd[f] = d,
                                 !.len[ino] = IF ex /\ "trunc" \notin fl THEN @ ELSE 0,
                                 !.desc[d] = [ino |-> ino, pos |-> 0, wr |-> "wr" \in fl, app |-> "app" \in fl]]
      OBVIOUS
    <2>2. o = [fd |-> f, host |-> H2]  BY <1>2, <1>4, <2>1 DEF HOpen
    <2>3. /\ H = [name |-> H.name, len |-> H.len, fd |-> H.fd, desc |-> H.desc]
          /\ H.name \in [Names -> Inodes \cup {NONE}] /\ H.len \in [Inodes -> 0..MaxLen]
          /\ H.fd \in [Fds -> Fds \cup {NONE}] /\ H.desc \in [Fds -> Descs]
      BY HostIs
    <2>4. f \in Fds /\ H.fd[f] = NONE
      <3>1. Free(H) # {} /\ Free(H) \subseteq Nat  BY <1>4, Constants DEF Free
      <3>2. f \in Free(H)  BY <3>1, <1>2, MinIn
      <3> QED BY <3>2 DEF Free
    <2>5. d \in Fds /\ d \notin Range(H.fd)  BY <1>2, <1>4, FreeDescIs
    <2>6. ino \in Inodes
      <3>1. CASE ex  BY <3>1, <1>2, <2>3 DEF Present
      <3>2. CASE ~ex
        <4>1. Present(H) # Names  BY <3>2, <1>2
        <4> QED BY <4>1, <3>2, <1>2, NewInode
      <3> QED BY <3>1, <3>2, <1>2
    <2>7. PICK nm, ln, fs, ds, x : /\ nm = [H.name EXCEPT ![n] = ino] /\ fs = [H.fd EXCEPT ![f] = d]
                                   /\ ln = [H.len EXCEPT ![ino] = IF ex /\ "trunc" \notin fl THEN H.len[ino] ELSE 0]
                                   /\ x = [ino |-> ino, pos |-> 0, wr |-> "wr" \in fl, app |-> "app" \in fl]
                                   /\ ds = [H.desc EXCEPT ![d] = x]
      OBVIOUS
    <2>8. H2 = [name |-> nm, len |-> ln, fd |-> fs, desc |-> ds]  BY <2>1, <2>3, <2>7
    <2>9. H2.name = nm /\ H2.len = ln /\ H2.fd = fs /\ H2.desc = ds  BY <2>8
    <2>10. o.fd = f /\ o.host = H2  BY <2>2
    <2>11. H2 \in HostType
      <3>1. Opened(H, o)  BY HOpenIs
      <3> QED BY <3>1, <2>10 DEF Opened
    <2>12. ln = [H.len EXCEPT ![ino] = IF cut THEN 0 ELSE H.len[ino]]
      <3>1. (ex /\ "trunc" \notin fl) <=> ~cut  BY <1>2
      <3> QED BY <3>1, <2>7
    <2>13. ds[d].ino = ino /\ \A e \in Fds : e # d => ds[e] = H.desc[e]  BY <2>3, <2>5, <2>7
    <2>14. n \in Present(H) => ino = H.name[n]  BY <1>2
    <2>15. OpenLeaves(H, H2, n, f, d, ino, cut)  BY <2>4, <2>5, <2>6, <2>7, <2>9, <2>11, <2>12, <2>13, <2>14 DEF OpenLeaves
    <2> QED BY <2>10, <2>15, <1>2
  <1> QED BY <1>3, <1>4
\* Nothing that was referred to is dropped.
Grows(H, K) == /\ K \in HostType /\ Live(H) \subseteq Live(K) /\ Named(H, K)
               /\ \A i \in Inodes : i \notin Live(K) => K.len[i] = H.len[i]
LEMMA GrowsSane == ASSUME NEW H, Sane(H), NEW K, Grows(H, K) PROVE Sane(K) /\ Named(H, K)
  BY DEF Grows, Sane, DeadEmpty
LEMMA LeavesGrows == ASSUME NEW H \in HostType, NEW n \in Names, NEW f, NEW d, NEW i, NEW cut, NEW K, OpenLeaves(H, K, n, f, d, i, cut) PROVE Grows(H, K)
  <1>1. /\ H.name \in [Names -> Inodes \cup {NONE}] /\ H.len \in [Inodes -> 0..MaxLen]
        /\ H.fd \in [Fds -> Fds \cup {NONE}] /\ H.desc \in [Fds -> Descs]
    BY HostIs
  <1>2. /\ K \in HostType /\ f \in Fds /\ H.fd[f] = NONE /\ d \in Fds /\ d \notin Range(H.fd) /\ i \in Inodes
        /\ n \in Present(H) => i = H.name[n]
        /\ K.name = [H.name EXCEPT ![n] = i] /\ K.fd = [H.fd EXCEPT ![f] = d]
        /\ K.len = [H.len EXCEPT ![i] = IF cut THEN 0 ELSE H.len[i]]
        /\ \A e \in Fds : e # d => K.desc[e] = H.desc[e]
    BY DEF OpenLeaves
  <1>3. K.name[n] = i /\ \A m \in Names : H.name[m] # NONE => K.name[m] = H.name[m]
    <2>1. n \in Present(H) <=> H.name[n] # NONE  BY DEF Present
    <2> QED BY <2>1, <1>1, <1>2
  <1>4. \A g \in Fds : H.fd[g] # NONE => K.fd[g] = H.fd[g] /\ K.desc[K.fd[g]] = H.desc[H.fd[g]]
    <2>1. TAKE g \in Fds
    <2>2. HAVE H.fd[g] # NONE
    <2>3. H.fd[g] \in Range(H.fd) /\ H.fd[g] \in Fds  BY <2>2, <1>1 DEF Range
    <2> QED BY <2>2, <2>3, <1>1, <1>2
  <1>5. i \in Live(K)
    <2>1. i # NONE /\ i # Other  BY <1>2, Constants
    <2> QED BY <2>1, <1>2, <1>3, LiveIs
  <1>6. ASSUME NEW j \in Live(H) PROVE j \in Live(K)
    <2>1. j # NONE /\ j # Other /\ ((\E m \in Names : j = H.name[m]) \/ \E g \in Fds : H.fd[g] # NONE /\ j = H.desc[H.fd[g]].ino)
      BY LiveIs
    <2>2. (\E m \in Names : j = K.name[m]) \/ \E g \in Fds : K.fd[g] # NONE /\ j = K.desc[K.fd[g]].ino
      BY <2>1, <1>3, <1>4
    <2> QED BY <2>1, <2>2, <1>2, LiveIs
  <1>7. \A j \in Inodes : j \notin Live(K) => K.len[j] = H.len[j]  BY <1>1, <1>2, <1>5
  <1>8. Named(H, K)
    <2>1. SUFFICES ASSUME NEW v \in Range(H.name), v # NONE PROVE v \in Range(K.name)  BY DEF Named
    <2>2. PICK m \in Names : v = H.name[m]  BY <1>1 DEF Range
    <2>3. K.name[m] = v  BY <2>1, <2>2, <1>3
    <2>4. DOMAIN K.name = Names  BY <1>1, <1>2
    <2> QED BY <2>3, <2>4 DEF Range
  <1> QED BY <1>2, <1>6, <1>7, <1>8 DEF Grows
LEMMA OtherGrows == ASSUME NEW H \in HostType, NEW o, o = HOpenOther(H), o.fd # NONE
    PROVE /\ Grows(H, o.host) /\ o.host.name = H.name /\ o.host.len = H.len /\ o.host.desc = H.desc
          /\ o.fd \in Fds /\ H.fd[o.fd] = NONE
          /\ \E d \in Fds : d \notin Range(H.fd) /\ o.host.fd = [H.fd EXCEPT ![o.fd] = d]
  <1>1. Free(H) # {}
    <2>1. SUFFICES ASSUME Free(H) = {} PROVE FALSE  OBVIOUS
    <2>2. o = [fd |-> NONE, host |-> H]  BY <2>1 DEF HOpenOther
    <2> QED BY <2>2
  <1>2. PICK f, d : f = Min(Free(H)) /\ d = FreeDesc(H)  OBVIOUS
  <1>3. PICK K : K = [H EXCEPT !.fd[f] = d]  OBVIOUS
  <1>4. o = [fd |-> f, host |-> K]  BY <1>1, <1>2, <1>3 DEF HOpenOther
  <1>5. o.fd = f /\ o.host = K  BY <1>4
  <1>6. K \in HostType /\ f \in Fds /\ H.fd[f] = NONE
    <2>1. Opened(H, o)  BY HOpenOtherIs
    <2> QED BY <2>1, <1>5 DEF Opened
  <1>7. d \in Fds /\ d \notin Range(H.fd)  BY <1>1, <1>2, FreeDescIs
  <1>8. H = [name |-> H.name, len |-> H.len, fd |-> H.fd, desc |-> H.desc] /\ H.fd \in [Fds -> Fds \cup {NONE}]  BY HostIs
  <1>9. PICK fs : fs = [H.fd EXCEPT ![f] = d]  OBVIOUS
  <1>10. K = [name |-> H.name, len |-> H.len, fd |-> fs, desc |-> H.desc]  BY <1>3, <1>8, <1>9
  <1>11. K.name = H.name /\ K.len = H.len /\ K.fd = fs /\ K.desc = H.desc  BY <1>10
  <1>12. \A g \in Fds : H.fd[g] # NONE => K.fd[g] = H.fd[g]  BY <1>6, <1>8, <1>9, <1>11
  <1>13. ASSUME NEW j \in Live(H) PROVE j \in Live(K)
    <2>1. j # NONE /\ j # Other /\ ((\E m \in Names : j = H.name[m]) \/ \E g \in Fds : H.fd[g] # NONE /\ j = H.desc[H.fd[g]].ino)
      BY LiveIs
    <2>2. (\E m \in Names : j = K.name[m]) \/ \E g \in Fds : K.fd[g] # NONE /\ j = K.desc[K.fd[g]].ino
      BY <2>1, <1>11, <1>12
    <2> QED BY <2>1, <2>2, <1>6, LiveIs
  <1>14. Grows(H, K)  BY <1>6, <1>11, <1>13 DEF Grows, Named
  <1> QED BY <1>5, <1>6, <1>7, <1>9, <1>11, <1>14
LEMMA GrowsTwice == ASSUME NEW H, NEW A, NEW B, Sane(H), Grows(H, A), Grows(A, B), A.name = H.name PROVE Sane(B) /\ Named(H, B)
  <1>1. Sane(A)  BY GrowsSane
  <1>2. Sane(B) /\ Named(A, B)  BY <1>1, GrowsSane
  <1> QED BY <1>2 DEF Named
\* A new file without a name.
LEMMA AnonymousGrows == ASSUME NEW H \in HostType, NEW a, a = HAnonymous(H), a.fd # NONE
    PROVE /\ Grows(H, a.host) /\ a.host.name = H.name /\ a.host.len = H.len
          /\ a.fd \in Fds /\ H.fd[a.fd] = NONE
          /\ \E d \in Fds : /\ d \notin Range(H.fd) /\ a.host.fd = [H.fd EXCEPT ![a.fd] = d]
                            /\ \A e \in Fds : e # d => a.host.desc[e] = H.desc[e]
  <1>1. PICK o : o = HOpenOther(H)  OBVIOUS
  <1>2. o.fd # NONE
    <2>1. SUFFICES ASSUME o.fd = NONE PROVE FALSE  OBVIOUS
    <2>2. a = o  BY <1>1, <2>1 DEF HAnonymous
    <2> QED BY <2>1, <2>2
  <1>3. PICK H1, d, x : H1 = o.host /\ d = H1.fd[o.fd] /\ x = [Blank EXCEPT !.ino = Min(Inodes \ Live(H)), !.wr = TRUE]  OBVIOUS
  <1>4. a = [o EXCEPT !.host.desc[d] = x]  BY <1>1, <1>2, <1>3 DEF HAnonymous
  <1>5. o = [fd |-> o.fd, host |-> H1]
    <2>1. o = [fd |-> o.fd, host |-> o.host]  BY <1>1 DEF HOpenOther
    <2> QED BY <2>1, <1>3
  <1>6. PICK H2 : H2 = [H1 EXCEPT !.desc[d] = x]  OBVIOUS
  <1>7. a.fd = o.fd /\ a.host = H2  BY <1>4, <1>5, <1>6
  <1>8. /\ Grows(H, H1) /\ H1.name = H.name /\ H1.len = H.len /\ H1.desc = H.desc /\ o.fd \in Fds /\ H.fd[o.fd] = NONE
    BY <1>1, <1>2, <1>3, OtherGrows
  <1>9. PICK c \in Fds : c \notin Range(H.fd) /\ H1.fd = [H.fd EXCEPT ![o.fd] = c]  BY <1>1, <1>2, <1>3, OtherGrows
  <1>10. H.fd \in [Fds -> Fds \cup {NONE}] /\ H.desc \in [Fds -> Descs]  BY HostIs
  <1>11. c = d  BY <1>3, <1>8, <1>9, <1>10
  <1>12. H1 \in HostType  BY <1>8 DEF Grows
  <1>13. H1 = [name |-> H1.name, len |-> H1.len, fd |-> H1.fd, desc |-> H1.desc]  BY <1>12, HostIs
  <1>14. PICK ds : ds = [H1.desc EXCEPT ![d] = x]  OBVIOUS
  <1>15. H2 = [name |-> H1.name, len |-> H1.len, fd |-> H1.fd, desc |-> ds]  BY <1>6, <1>13, <1>14
  <1>16. H2.name = H.name /\ H2.len = H.len /\ H2.fd = H1.fd /\ H2.desc = ds  BY <1>8, <1>15
  <1>17. H2 \in HostType
    <2>1. Opened(H, a)  BY HAnonymousIs
    <2>2. a.fd # NONE  OBVIOUS
    <2> QED BY <2>1, <2>2, <1>7 DEF Opened
  <1>18. \A e \in Fds : e # d => ds[e] = H.desc[e]  BY <1>8, <1>10, <1>14
  <1>19. \A g \in Fds : H.fd[g] # NONE => H2.fd[g] = H.fd[g] /\ H2.desc[H2.fd[g]] = H.desc[H.fd[g]]
    <2>1. TAKE g \in Fds
    <2>2. HAVE H.fd[g] # NONE
    <2>3. H.fd[g] \in Fds /\ H.fd[g] \in Range(H.fd)  BY <2>2, <1>10 DEF Range
    <2>4. H.fd[g] # d  BY <2>3, <1>9, <1>11
    <2>5. H2.fd[g] = H.fd[g]  BY <2>2, <1>8, <1>9, <1>10, <1>16
    <2> QED BY <2>3, <2>4, <2>5, <1>16, <1>18
  <1>20. ASSUME NEW j \in Live(H) PROVE j \in Live(H2)
    <2>1. j # NONE /\ j # Other /\ ((\E m \in Names : j = H.name[m]) \/ \E g \in Fds : H.fd[g] # NONE /\ j = H.desc[H.fd[g]].ino)
      BY LiveIs
    <2>2. (\E m \in Names : j = H2.name[m]) \/ \E g \in Fds : H2.fd[g] # NONE /\ j = H2.desc[H2.fd[g]].ino
      BY <2>1, <1>16, <1>19
    <2> QED BY <2>1, <2>2, <1>17, LiveIs
  <1>21. Grows(H, H2)  BY <1>16, <1>17, <1>20 DEF Grows, Named
  <1> QED BY <1>7, <1>8, <1>9, <1>11, <1>16, <1>18, <1>21
LEMMA CloseTidies == ASSUME NEW H \in HostType, NEW f \in Fds, NEW v \in Fds \cup {NONE}, NEW T, T = Tidy([H EXCEPT !.fd[f] = v])
    PROVE Sane(T) /\ T.name = H.name
  <1>1. PICK A : A = [H EXCEPT !.fd[f] = v]  OBVIOUS
  <1>2. A \in HostType  BY <1>1, SetFd
  <1>3. H = [name |-> H.name, len |-> H.len, fd |-> H.fd, desc |-> H.desc]  BY HostIs
  <1>4. A.name = H.name  BY <1>1, <1>3
  <1>5. Sane(T) /\ T.name = A.name  BY <1>1, <1>2, TidySane, TidyIs
  <1> QED BY <1>4, <1>5
LEMMA CloseSane == ASSUME NEW H, Sane(H), NEW f PROVE Sane(HClose(H, f)) /\ HClose(H, f).name = H.name
  <1>1. CASE f \in Fds
    <2>1. PICK T : T = HClose(H, f)  OBVIOUS
    <2>2. T = Tidy([H EXCEPT !.fd[f] = NONE])  BY <1>1, <2>1 DEF HClose
    <2>3. Sane(T) /\ T.name = H.name  BY <1>1, <2>2, CloseTidies DEF Sane
    <2> QED BY <2>1, <2>3
  <1>2. CASE f \notin Fds  BY <1>2 DEF HClose
  <1> QED BY <1>1, <1>2
LEMMA Dup2Sane == ASSUME NEW H, Sane(H), NEW a \in Fds, NEW b \in Fds PROVE Sane(HDup2(H, a, b)) /\ HDup2(H, a, b).name = H.name
  <1>1. PICK v, T : v = H.fd[a] /\ T = HDup2(H, a, b)  OBVIOUS
  <1>2. H.fd \in [Fds -> Fds \cup {NONE}] /\ H \in HostType  BY HostIs DEF Sane
  <1>3. v \in Fds \cup {NONE}  BY <1>1, <1>2
  <1>4. T = Tidy([H EXCEPT !.fd[b] = v])  BY <1>1 DEF HDup2
  <1>5. Sane(T) /\ T.name = H.name  BY <1>2, <1>3, <1>4, CloseTidies
  <1> QED BY <1>1, <1>5
LEMMA UnlinkSane == ASSUME NEW H, Sane(H), NEW n \in Names PROVE Sane(HUnlink(H, n)) /\ (n \notin Present(H) => Alike(H, HUnlink(H, n)))
  <1>0. H \in HostType  BY DEF Sane
  <1>1. H.name \in [Names -> Inodes \cup {NONE}]  BY <1>0, HostIs
  <1>2. PICK nm, A, T : nm = [H.name EXCEPT ![n] = NONE] /\ A = [H EXCEPT !.name = nm] /\ T = HUnlink(H, n)  OBVIOUS
  <1>3. nm \in [Names -> Inodes \cup {NONE}]  BY <1>1, <1>2
  <1>4. A \in HostType /\ A.fd = H.fd  BY <1>0, <1>2, <1>3, SetName
  <1>5. T = Tidy(A)
    <2>1. [H EXCEPT !.name[n] = NONE] = A  BY <1>2
    <2> QED BY <2>1, <1>2 DEF HUnlink
  <1>6. Sane(T)  BY <1>4, <1>5, TidySane
  <1>7. ASSUME n \notin Present(H) PROVE Alike(H, T)
    <2>1. H.name[n] = NONE  BY <1>7 DEF Present
    <2>2. nm = H.name  BY <2>1, <1>1, <1>2
    <2>3. H = [name |-> H.name, len |-> H.len, fd |-> H.fd, desc |-> H.desc]  BY <1>0, HostIs
    <2>4. A = H  BY <2>2, <2>3, <1>2
    <2>5. Alike(H, Tidy(H))  BY <1>0, CloseBack
    <2> QED BY <2>4, <2>5, <1>5
  <1> QED BY <1>2, <1>6, <1>7
LEMMA RenameSane == ASSUME NEW H, Sane(H), NEW a \in Names, NEW b \in Names
    PROVE Sane(HRename(H, a, b)) /\ (b \notin Present(H) => Named(H, HRename(H, a, b)))
  <1>0. H \in HostType  BY DEF Sane
  <1>1. H.name \in [Names -> Inodes \cup {NONE}]  BY <1>0, HostIs
  <1>2. CASE a = b  BY <1>2 DEF HRename, Named
  <1>3. CASE a # b
    <2>1. PICK v : v = H.name[a]  OBVIOUS
    <2>2. PICK nm, A, T : nm = [H.name EXCEPT ![b] = v, ![a] = NONE] /\ A = [H EXCEPT !.name = nm] /\ T = HRename(H, a, b)  OBVIOUS
    <2>3. nm \in [Names -> Inodes \cup {NONE}]  BY <1>1, <2>1, <2>2
    <2>4. A \in HostType /\ A.fd = H.fd  BY <1>0, <2>2, <2>3, SetName
    <2>5. T = Tidy(A)
      <3>1. [H EXCEPT !.name[b] = v, !.name[a] = NONE] = A  BY <2>2
      <3> QED BY <3>1, <2>1, <2>2, <1>3 DEF HRename
    <2>6. Sane(T) /\ T.name = A.name  BY <2>4, <2>5, TidySane, TidyIs
    <2>7. H = [name |-> H.name, len |-> H.len, fd |-> H.fd, desc |-> H.desc]  BY <1>0, HostIs
    <2>8. A.name = nm  BY <2>2, <2>7
    <2>9. ASSUME b \notin Present(H) PROVE Named(H, T)
      <3>1. H.name[b] = NONE  BY <2>9 DEF Present
      <3>2. SUFFICES ASSUME NEW x \in Range(H.name), x # NONE PROVE x \in Range(T.name)  BY DEF Named
      <3>3. PICK m \in Names : x = H.name[m]  BY <1>1 DEF Range
      <3>4. m # b  BY <3>1, <3>2, <3>3
      <3>5. CASE m = a
        <4>1. nm[b] = x  BY <3>3, <3>5, <1>1, <1>3, <2>1, <2>2
        <4> QED BY <4>1, <2>3, <2>6, <2>8 DEF Range
      <3>6. CASE m # a
        <4>1. nm[m] = x  BY <3>3, <3>4, <3>6, <1>1, <2>2
        <4> QED BY <4>1, <2>3, <2>6, <2>8 DEF Range
      <3> QED BY <3>5, <3>6
    <2> QED BY <2>2, <2>6, <2>9
  <1> QED BY <1>2, <1>3
\* An open that is taken back.
LEMMA OpenTakenBack == ASSUME NEW H, Sane(H), NEW K \in HostType, K.name = H.name, K.len = H.len, NEW f \in Fds, H.fd[f] = NONE,
           NEW d, d \notin Range(H.fd), K.fd = [H.fd EXCEPT ![f] = d], \A e \in Fds : e # d => K.desc[e] = H.desc[e]
    PROVE Alike(H, HClose(K, f))
  <1>1. H \in HostType  BY DEF Sane
  <1>2. H.fd \in [Fds -> Fds \cup {NONE}]  BY <1>1, HostIs
  <1>3. PICK A : A = [K EXCEPT !.fd[f] = NONE]  OBVIOUS
  <1>4. A \in HostType /\ A.fd = [K.fd EXCEPT ![f] = NONE]  BY <1>3, SetFd
  <1>5. K = [name |-> K.name, len |-> K.len, fd |-> K.fd, desc |-> K.desc]  BY HostIs
  <1>6. A.name = H.name /\ A.len = H.len /\ A.desc = K.desc  BY <1>3, <1>5
  <1>7. A.fd = H.fd  BY <1>2, <1>4
  <1>8. \A g \in Fds : H.fd[g] # NONE => A.desc[H.fd[g]] = H.desc[H.fd[g]]
    <2>1. TAKE g \in Fds
    <2>2. HAVE H.fd[g] # NONE
    <2>3. H.fd[g] \in Fds /\ H.fd[g] \in Range(H.fd)  BY <2>2, <1>2 DEF Range
    <2> QED BY <2>3, <1>6
  <1>9. Alike(H, Tidy(A))  BY <1>4, <1>6, <1>7, <1>8, CloseBack
  <1>10. HClose(K, f) = Tidy(A)  BY <1>3 DEF HClose
  <1> QED BY <1>9, <1>10
LEMMA OpenBack == ASSUME NEW H, Sane(H), NEW n \in Names, NEW fl, "creat" \notin fl, "trunc" \notin fl, NEW o, o = HOpen(H, n, fl), o.fd # NONE
    PROVE Alike(H, HClose(o.host, o.fd))
  <1>0. H \in HostType  BY DEF Sane
  <1>1. PICK d, i : OpenLeaves(H, o.host, n, o.fd, d, i, n \notin Present(H) \/ "trunc" \in fl)  BY <1>0, HOpenLeaves
  <1>2. n \in Present(H)
    <2>1. SUFFICES ASSUME n \notin Present(H) PROVE FALSE  OBVIOUS
    <2>2. o = [fd |-> NONE, host |-> H]  BY <2>1 DEF HOpen
    <2> QED BY <2>2
  <1>3. PICK K, f : K = o.host /\ f = o.fd  OBVIOUS
  <1>4. PICK cut : cut = (n \notin Present(H) \/ "trunc" \in fl)  OBVIOUS
  <1>5. OpenLeaves(H, K, n, f, d, i, cut) /\ ~cut  BY <1>1, <1>2, <1>3, <1>4
  <1>6. /\ H.name \in [Names -> Inodes \cup {NONE}] /\ H.len \in [Inodes -> 0..MaxLen]  BY <1>0, HostIs
  <1>7. K.name = H.name /\ K.len = H.len  BY <1>2, <1>5, <1>6 DEF OpenLeaves
  <1>8. /\ K \in HostType /\ f \in Fds /\ H.fd[f] = NONE /\ d \notin Range(H.fd) /\ K.fd = [H.fd EXCEPT ![f] = d]
        /\ \A e \in Fds : e # d => K.desc[e] = H.desc[e]
    BY <1>5 DEF OpenLeaves
  <1>9. Alike(H, HClose(K, f))  BY <1>7, <1>8, OpenTakenBack
  <1> QED BY <1>3, <1>9
-----------------------------------------------------------------------------
InfoRight == LET n == told'.info[1]
                 i == told'.info[2]
             IN  /\ (i = "CREATED") = (n \notin Present(host))
                 /\ i \in {"SUPERSEDED", "OVERWRITTEN", "CREATED"} => host'.len[host'.name[n]] = 0
                 /\ i = "OPENED" => host'.len = host.len
\* What a call reports is what it did.
Reported ==
    /\ DeadEmpty(host')
    /\ told'.op \notin {"unlink", "rename", "NtClose"} => Named(host, host')
    /\ ~told'.ok /\ told'.op # "fopenw" => Alike(host, host')
    /\ told'.op = "NtCreateFile" /\ told'.ok => InfoRight
LEMMA Honest == ASSUME NEW K, K = host', Sane(K), NEW op, op # "NtCreateFile", NEW ok, NEW info, Told(op, ok, info),
           op \notin {"unlink", "rename", "NtClose"} => Named(host, K), ~ok /\ op # "fopenw" => Alike(host, K)
    PROVE Reported
  <1>1. told'.op = op /\ told'.ok = ok  BY DEF Told
  <1>2. DeadEmpty(host')  BY DEF Sane
  <1> QED BY <1>1, <1>2 DEF Reported
LEMMA StillHonest == ASSUME Sane(host), host' = host, NEW op, NEW ok, op # "NtCreateFile" \/ ~ok, NEW info, Told(op, ok, info) PROVE Reported
  <1>1. told'.op = op /\ told'.ok = ok  BY DEF Told
  <1>2. DeadEmpty(host')  BY DEF Sane
  <1>3. Alike(host, host') /\ Named(host, host')  BY DEF Alike, Named
  <1> QED BY <1>1, <1>2, <1>3 DEF Reported
LEMMA NothingHonest == ASSUME Sane(host), NEW op, NEW info, Nothing(op, info) PROVE Reported
  <1>1. host' = host /\ Told(op, FALSE, info)  BY DEF Nothing
  <1> QED BY <1>1, StillHonest
LEMMA MovesHonest == ASSUME Sane(host), NEW K, K = host', Moves(host, K), NEW op, op # "NtCreateFile", NEW ok, NEW info, Told(op, ok, info), ok \/ Shifts(host, K)
    PROVE Reported
  <1>1. Sane(K) /\ Named(host, K)  BY MovesSane
  <1>2. ~ok => Alike(host, K)  BY ShiftsAlike
  <1> QED BY <1>1, <1>2, Honest
LEMMA ShiftsHonest == ASSUME Sane(host), NEW K, K = host', Shifts(host, K), NEW op, op # "NtCreateFile", NEW ok, NEW info, Told(op, ok, info) PROVE Reported
  <1>1. Moves(host, K)  BY ShiftsAlike
  <1> QED BY <1>1, MovesHonest
LEMMA SaneHere == ASSUME FilesInv, DeadEmpty(host) PROVE Sane(host) /\ host \in HostType
  BY DEF FilesInv, Sane
LEMMA OpenFdHonest == ASSUME Sane(host), NEW op, op # "NtCreateFile", NEW n \in Names, NEW fl, OpenFd(op, n, fl) PROVE Reported
  <1>1. PICK o, ok : o = HOpen(host, n, fl) /\ ok = (o.fd # NONE)  OBVIOUS
  <1>2. host' = o.host /\ Told(op, ok, NONE)  BY <1>1 DEF OpenFd
  <1>3. CASE o.fd = NONE
    <2>1. Opened(host, o)  BY <1>1, HOpenIs DEF Sane
    <2>2. o.host = host  BY <2>1, <1>3, Constants DEF Opened
    <2> QED BY <2>2, <1>2, StillHonest
  <1>4. CASE o.fd # NONE
    <2>0. host \in HostType  BY DEF Sane
    <2>1. PICK d, i : OpenLeaves(host, o.host, n, o.fd, d, i, n \notin Present(host) \/ "trunc" \in fl)  BY <2>0, <1>1, <1>4, HOpenLeaves
    <2>2. Grows(host, o.host)  BY <2>0, <2>1, LeavesGrows
    <2>3. PICK K : K = o.host  OBVIOUS
    <2>4. Sane(K) /\ Named(host, K)  BY <2>2, <2>3, GrowsSane
    <2>5. K = host' /\ ok  BY <1>1, <1>2, <1>4, <2>3
    <2> QED BY <1>2, <2>4, <2>5, Honest
  <1> QED BY <1>3, <1>4
LEMMA WriteHonest == ASSUME Sane(host), NEW f, NEW c, c = CanWrite(host, f), host' = (IF c THEN HWrite(host, f) ELSE host),
           told'.op # "NtCreateFile", c => told'.ok
    PROVE Reported
  <1>1. PICK K : K = host'  OBVIOUS
  <1>2. Moves(host, K) /\ (~c => K = host)
    <2>1. CASE c
      <3>1. K = HWrite(host, f)  BY <1>1, <2>1
      <3> QED BY <2>1, <3>1, WriteMoves DEF Sane
    <2>2. CASE ~c
      <3>1. K = host  BY <1>1, <2>2
      <3> QED BY <3>1, ShiftsSelf, ShiftsAlike DEF Sane
    <2> QED BY <2>1, <2>2
  <1>3. Sane(K) /\ Named(host, K)  BY <1>2, MovesSane
  <1>4. ~told'.ok => Alike(host, K)  BY <1>2 DEF Alike
  <1> QED BY <1>1, <1>3, <1>4 DEF Reported, Sane
LEMMA TruncateHonest == ASSUME Sane(host), NEW f, NEW n \in 0..MaxLen, NEW c, c = CanTruncate(host, f),
           host' = (IF c THEN HTruncate(host, f, n) ELSE host), Told("call", c, NONE) PROVE Reported
  <1>0. host \in HostType  BY DEF Sane
  <1>1. CASE c
    <2>1. PICK K : K = host'  OBVIOUS
    <2>2. K = HTruncate(host, f, n)  BY <1>1, <2>1
    <2>3. Moves(host, K)  BY <1>0, <1>1, <2>2, TruncateMoves
    <2> QED BY <1>1, <2>1, <2>3, MovesHonest
  <1>2. CASE ~c
    <2>1. host' = host  BY <1>2
    <2> QED BY <2>1, StillHonest
  <1> QED BY <1>1, <1>2
LEMMA ChsizeHonest == ASSUME Sane(host), NEW h, NEW n \in 0..MaxLen, chsize(h, n) PROVE Reported
  <1>1. PICK c, f : c = CanTruncate(host, h.fd) /\ f = h.fd  OBVIOUS
  <1>2. host' = (IF c THEN HTruncate(host, f, n) ELSE host) /\ Told("call", c, NONE)  BY <1>1 DEF chsize
  <1> QED BY <1>1, <1>2, TruncateHonest
LEMMA LseekHonest == ASSUME Sane(host), NEW h, NEW p \in 0..MaxLen, lseek(h, p) PROVE Reported
  <1>0. host \in HostType  BY DEF Sane
  <1>1. PICK f, K : f = h.fd /\ K = host'  OBVIOUS
  <1>2. Regular(host, f) /\ K = HSeek(host, f, p) /\ Told("call", TRUE, NONE)  BY <1>1 DEF lseek
  <1>3. IsOpen(host, f)  BY <1>0, <1>2, RegularIs
  <1>4. Shifts(host, K)  BY <1>0, <1>2, <1>3, SeekShifts
  <1> QED BY <1>1, <1>2, <1>4, ShiftsHonest
LEMMA DescriptorHonest == ASSUME FilesInv, DeadEmpty(host), DescriptorOps PROVE Reported
  <1>0. Sane(host) /\ host \in HostType  BY SaneHere
  <1>1. ASSUME NEW n \in Names, NEW m, open(n, m[1], m[2]) PROVE Reported
    <2>1. OpenFd("call", n, open_flags(m[1], m[2]))  BY <1>1 DEF open
    <2> QED BY <2>1, <1>0, OpenFdHonest
  <1>2. CASE pipe
    <2>1. PICK r : r = HOpenOther(host)  OBVIOUS
    <2>2. PICK H : H = r.host  OBVIOUS
    <2>3. PICK w : w = HOpenOther(H)  OBVIOUS
    <2>4. CASE r.fd = NONE \/ w.fd = NONE
      <3>1. Nothing("call", NONE)  BY <1>2, <2>1, <2>2, <2>3, <2>4 DEF pipe
      <3> QED BY <3>1, <1>0, NothingHonest
    <2>5. CASE r.fd # NONE /\ w.fd # NONE
      <3>1. host' = w.host /\ Told("call", TRUE, NONE)  BY <1>2, <2>1, <2>2, <2>3, <2>5 DEF pipe
      <3>2. Grows(host, H) /\ H.name = host.name  BY <1>0, <2>1, <2>2, <2>5, OtherGrows
      <3>3. H \in HostType  BY <3>2 DEF Grows
      <3>4. PICK K : K = w.host  OBVIOUS
      <3>5. Grows(H, K)  BY <3>3, <3>4, <2>3, <2>5, OtherGrows
      <3>6. Sane(K) /\ Named(host, K)  BY <1>0, <3>2, <3>5, GrowsTwice
      <3> QED BY <3>1, <3>4, <3>6, Honest
    <2> QED BY <2>4, <2>5
  <1>3. ASSUME NEW f, close(f) PROVE Reported
    <2>1. PICK K : K = host'  OBVIOUS
    <2>2. K = HClose(host, f) /\ Told("call", TRUE, NONE)  BY <1>3, <2>1 DEF close
    <2>3. Sane(K) /\ K.name = host.name  BY <1>0, <2>2, CloseSane
    <2>4. Named(host, K)  BY <2>3 DEF Named
    <2> QED BY <2>1, <2>2, <2>3, <2>4, Honest
  <1>4. ASSUME NEW h \in Of({"fd"}), dup(h) PROVE Reported
    <2>1. CASE Free(host) = {}
      <3>1. host' = host /\ Told("call", FALSE, NONE)  BY <1>4, <2>1 DEF dup
      <3> QED BY <3>1, <1>0, StillHonest
    <2>2. CASE Free(host) # {}
      <3>1. PICK K, a, b : K = host' /\ a = h.fd /\ b = Min(Free(host))  OBVIOUS
      <3>2. K = HDup2(host, a, b) /\ Told("call", TRUE, NONE)  BY <1>4, <2>2, <3>1 DEF dup
      <3>3. b \in Fds
        <4>1. Free(host) \subseteq Nat  BY Constants DEF Free
        <4>2. b \in Free(host)  BY <4>1, <2>2, <3>1, MinIn
        <4> QED BY <4>2 DEF Free
      <3>4. a \in Fds
        <4>1. h \in held /\ h.k \in OwnerKinds  BY OfKinds DEF OwnerKinds
        <4> QED BY <4>1, <3>1, OwnerOpen
      <3>5. Sane(K) /\ K.name = host.name  BY <1>0, <3>2, <3>3, <3>4, Dup2Sane
      <3>6. Named(host, K)  BY <3>5 DEF Named
      <3> QED BY <3>1, <3>2, <3>5, <3>6, Honest
    <2> QED BY <2>1, <2>2
  <1>5. ASSUME NEW h, write(h) PROVE Reported
    <2>1. PICK c, f : c = CanWrite(host, h.fd) /\ f = h.fd  OBVIOUS
    <2>2. host' = (IF c THEN HWrite(host, f) ELSE host) /\ Told("call", c, NONE)  BY <1>5, <2>1 DEF write
    <2>3. told'.op # "NtCreateFile" /\ (c => told'.ok)  BY <2>2 DEF Told
    <2> QED BY <2>1, <2>2, <2>3, <1>0, WriteHonest
  <1>6. ASSUME NEW h, SetEndOfFile(h) PROVE Reported
    <2>1. PICK p, f : p = host.desc[host.fd[h.fd]].pos /\ f = h.fd  OBVIOUS
    <2>2. Regular(host, f) /\ chsize(h, p)  BY <1>6, <2>1 DEF SetEndOfFile
    <2>3. host.desc[host.fd[f]] \in Descs
      <3>1. IsOpen(host, f)  BY <1>0, <2>2, RegularIs
      <3> QED BY <3>1, <1>0, Reaches
    <2>4. p \in 0..MaxLen  BY <2>1, <2>3 DEF Descs
    <2> QED BY <2>2, <2>4, <1>0, ChsizeHonest
  <1>7. ASSUME NEW g \in Of({"fd"}), NEW h \in Of({"fd"}), dup2(g, h) PROVE Reported
    <2>1. PICK K, a, b : K = host' /\ a = g.fd /\ b = h.fd  OBVIOUS
    <2>2. K = HDup2(host, a, b) /\ Told("call", TRUE, NONE)  BY <1>7, <2>1 DEF dup2
    <2>3. a \in Fds /\ b \in Fds
      <3>1. g \in held /\ h \in held /\ g.k \in OwnerKinds /\ h.k \in OwnerKinds  BY OfKinds DEF OwnerKinds
      <3> QED BY <3>1, <2>1, OwnerOpen
    <2>4. Sane(K) /\ K.name = host.name  BY <1>0, <2>2, <2>3, Dup2Sane
    <2>5. Named(host, K)  BY <2>4 DEF Named
    <2> QED BY <2>1, <2>2, <2>4, <2>5, Honest
  <1>8. ASSUME NEW h, NEW more, read(h, more) PROVE Reported
    <2>1. PICK c, f, K : c = HasByte(host, h.fd, more) /\ f = h.fd /\ K = host'  OBVIOUS
    <2>2. K = (IF c THEN HRead(host, f) ELSE host) /\ Told("call", c, NONE)  BY <1>8, <2>1 DEF read
    <2>3. Shifts(host, K)  BY <1>0, <2>1, <2>2, MayReadShifts
    <2> QED BY <2>1, <2>2, <2>3, <1>0, ShiftsHonest
  <1>9. ASSUME NEW h, NEW p \in 0..MaxLen, lseek(h, p) PROVE Reported  BY <1>0, <1>9, LseekHonest
  <1>10. ASSUME NEW h, NEW p \in 0..MaxLen, chsize(h, p) PROVE Reported  BY <1>0, <1>10, ChsizeHonest
  <1>11. ASSUME NEW h, NEW p \in 0..MaxLen, WriteFile(h, p) PROVE Reported
    <2>1. PICK c, f, n : c = CanTruncate(host, h.fd) /\ f = h.fd /\ n = Max({Size(host, h.fd), p + 1})  OBVIOUS
    <2>2. p < MaxLen /\ host' = (IF c THEN HTruncate(host, f, n) ELSE host) /\ Told("call", c, NONE)  BY <1>11, <2>1 DEF WriteFile
    <2>3. CASE c
      <3>1. Size(host, f) \in 0..MaxLen
        <4>1. Regular(host, f)  BY <2>1, <2>3 DEF CanTruncate
        <4> QED BY <4>1, <1>0, RegularIs
      <3>2. PICK s, q : s = Size(host, f) /\ q = p + 1  OBVIOUS
      <3>3. s \in 0..MaxLen /\ q \in 0..MaxLen  BY <3>1, <3>2, <2>2, HostAssumption
      <3>4. s \in Int /\ q \in Int  BY <3>3
      <3>5. n = IF s < q THEN q ELSE s  BY <3>2, <3>4, <2>1, Max2
      <3>6. n \in 0..MaxLen  BY <3>3, <3>5
      <3> QED BY <3>6, <1>0, <2>1, <2>2, TruncateHonest
    <2>4. CASE ~c
      <3>1. host' = host  BY <2>2, <2>4
      <3> QED BY <3>1, <2>2, <2>4, <1>0, StillHonest
    <2> QED BY <2>3, <2>4
  <1>12. ASSUME NEW h, NEW p, ReadFile(h, p) PROVE Reported
    <2>1. PICK c : c = IsOpen(host, h.fd)  OBVIOUS
    <2>2. host' = host /\ Told("call", c, NONE)  BY <1>12, <2>1 DEF ReadFile
    <2> QED BY <2>2, <1>0, StillHonest
  <1> QED BY <1>1, <1>2, <1>3, <1>4, <1>5, <1>6, <1>7, <1>8, <1>9, <1>10, <1>11, <1>12 DEF DescriptorOps
LEMMA UnlinkHonest == ASSUME Sane(host), NEW n \in Names, OpenFileDelete(n) PROVE Reported
  <1>1. PICK K, c : K = host' /\ c = (n \in Present(host))  OBVIOUS
  <1>2. K = HUnlink(host, n) /\ Told("unlink", c, NONE)  BY <1>1 DEF OpenFileDelete
  <1>3. Sane(K) /\ (~c => Alike(host, K))  BY <1>1, <1>2, UnlinkSane
  <1> QED BY <1>1, <1>2, <1>3, Honest
LEMMA MoveHonest == ASSUME Sane(host), NEW a \in Names, NEW b \in Names, NEW c, c = (a \in Present(host)),
           host' = (IF c THEN HRename(host, a, b) ELSE host), NEW op, op # "NtCreateFile", op = "rename" \/ b \notin Present(host), Told(op, c, NONE)
    PROVE Reported
  <1>1. CASE c
    <2>1. PICK K : K = host'  OBVIOUS
    <2>2. K = HRename(host, a, b)  BY <1>1, <2>1
    <2>3. Sane(K) /\ (b \notin Present(host) => Named(host, K))  BY <2>2, RenameSane
    <2> QED BY <2>1, <2>3, <1>1, Honest
  <1>2. CASE ~c
    <2>1. host' = host  BY <1>2
    <2> QED BY <2>1, <1>2, StillHonest
  <1> QED BY <1>1, <1>2
LEMMA NameHonest == ASSUME FilesInv, DeadEmpty(host), NameOps PROVE Reported
  <1>0. Sane(host)  BY SaneHere
  <1>1. ASSUME NEW n \in Names, DeleteFile(n) \/ remove(n) PROVE Reported
    <2>1. OpenFileDelete(n)  BY <1>1 DEF DeleteFile, remove
    <2> QED BY <2>1, <1>0, UnlinkHonest
  <1>2. ASSUME NEW a \in Names, NEW b \in Names, MoveFile(a, b) \/ rename(a, b) PROVE Reported
    <2>1. MoveFile(a, b)  BY <1>2 DEF rename
    <2>2. PICK c : c = (a \in Present(host))  OBVIOUS
    <2>3. host' = (IF c THEN HRename(host, a, b) ELSE host) /\ Told("rename", c, NONE)  BY <2>1, <2>2 DEF MoveFile
    <2> QED BY <2>2, <2>3, <1>0, MoveHonest
  <1>3. ASSUME NEW a \in Names, NEW b \in Names, NEW r, movefileex(a, b, r) PROVE Reported
    <2>1. CASE ~r /\ b \in Present(host)
      <3>1. Nothing("call", NONE)  BY <1>3, <2>1 DEF movefileex
      <3> QED BY <3>1, <1>0, NothingHonest
    <2>2. CASE ~(~r /\ b \in Present(host))
      <3>1. PICK c, op : c = (a \in Present(host)) /\ op = IF r THEN "rename" ELSE "call"  OBVIOUS
      <3>2. host' = (IF c THEN HRename(host, a, b) ELSE host) /\ Told(op, c, NONE)  BY <1>3, <2>2, <3>1 DEF movefileex
      <3>3. op # "NtCreateFile" /\ (op = "rename" \/ b \notin Present(host))  BY <2>2, <3>1
      <3> QED BY <3>1, <3>2, <3>3, <1>0, MoveHonest
    <2> QED BY <2>1, <2>2
  <1> QED BY <1>1, <1>2, <1>3 DEF NameOps
LEMMA StdioWriteHonest == ASSUME Sane(host), NEW f, stdio_write(f) PROVE Reported
  <1>1. PICK c : c = CanWrite(host, f)  OBVIOUS
  <1>2. host' = (IF c THEN HWrite(host, f) ELSE host) /\ Told("call", TRUE, NONE)  BY <1>1 DEF stdio_write
  <1>3. told'.op # "NtCreateFile" /\ told'.ok  BY <1>2 DEF Told
  <1> QED BY <1>1, <1>2, <1>3, WriteHonest
\* fopen and tmpfile: without a slot the open is taken back.
LEMMA WrapHonest == ASSUME Sane(host), NEW op, op # "NtCreateFile", NEW o, Wrap(op, o), o.fd # NONE => Grows(host, o.host),
           op = "fopenw" \/ (o.fd # NONE => Alike(host, HClose(o.host, o.fd)))
    PROVE Reported
  <1>1. PICK a : a = alloc_dynfile(o.fd)  OBVIOUS
  <1>2. CASE o.fd = NONE
    <2>1. Nothing(op, NONE)  BY <1>2 DEF Wrap
    <2> QED BY <2>1, NothingHonest
  <1>3. CASE o.fd # NONE
    <2>1. PICK H : H = o.host  OBVIOUS
    <2>2. Sane(H) /\ Named(host, H)  BY <1>3, <2>1, GrowsSane
    <2>3. CASE a.file = NONE
      <3>1. PICK K : K = host'  OBVIOUS
      <3>2. K = HClose(H, o.fd) /\ Told(op, FALSE, NONE)  BY <1>1, <1>3, <2>1, <2>3, <3>1 DEF Wrap
      <3>3. Sane(K) /\ K.name = H.name  BY <2>2, <3>2, CloseSane
      <3>4. Named(host, K)  BY <2>2, <3>3 DEF Named
      <3>5. op # "fopenw" => Alike(host, K)  BY <1>3, <2>1, <3>2
      <3> QED BY <3>1, <3>2, <3>3, <3>4, <3>5, Honest
    <2>4. CASE a.file # NONE
      <3>1. H = host' /\ Told(op, TRUE, NONE)  BY <1>1, <1>3, <2>1, <2>4 DEF Wrap
      <3> QED BY <3>1, <2>2, Honest
    <2> QED BY <2>3, <2>4
  <1> QED BY <1>2, <1>3
LEMMA SeekHonest == ASSUME Sane(host), NEW f, NEW p \in 0..MaxLen, NEW c, c = Regular(host, f), host' = (IF c THEN HSeek(host, f, p) ELSE host),
           NEW ok, Told("call", ok, NONE) PROVE Reported
  <1>1. PICK K : K = host'  OBVIOUS
  <1>2. Shifts(host, K)  BY <1>1, MaySeekShifts DEF Sane
  <1> QED BY <1>1, <1>2, ShiftsHonest
LEMMA ReadsHonest == ASSUME Sane(host), NEW f, NEW c, NEW more, c => HasByte(host, f, more), NEW H, H = (IF c THEN HRead(host, f) ELSE host),
           NEW d, d => HasByte(H, f, more), host' = (IF d THEN HRead(H, f) ELSE H), NEW ok, Told("call", ok, NONE)
    PROVE Reported
  <1>0. host \in HostType  BY DEF Sane
  <1>1. Shifts(host, H)  BY <1>0, MayReadShifts
  <1>2. H \in HostType  BY <1>1 DEF Shifts, Moves
  <1>3. PICK K : K = host'  OBVIOUS
  <1>4. K = IF d THEN HRead(H, f) ELSE H  BY <1>3
  <1>5. Shifts(H, K)  BY <1>2, <1>4, MayReadShifts
  <1>6. Shifts(host, K)  BY <1>0, <1>1, <1>5, ShiftsTwice
  <1> QED BY <1>3, <1>6, ShiftsHonest
LEMMA ReadHonest == ASSUME Sane(host), NEW f, NEW c, NEW more, c => HasByte(host, f, more), host' = (IF c THEN HRead(host, f) ELSE host),
           NEW ok, Told("call", ok, NONE)
    PROVE Reported
  <1>1. PICK K : K = host'  OBVIOUS
  <1>2. K = IF c THEN HRead(host, f) ELSE host  BY <1>1
  <1>3. host \in HostType  BY DEF Sane
  <1>4. Shifts(host, K)  BY <1>2, <1>3, MayReadShifts
  <1> QED BY <1>1, <1>4, ShiftsHonest
LEMMA PullHonest == ASSUME Sane(host), NEW h, NEW b, pull_byte(h, b) PROVE Reported
  <1>1. PICK f, u : f = file_fd(h.n) /\ u = pool[h.n].ungot  OBVIOUS
  <1>2. PICK s : s = HasByte(host, f, b)  OBVIOUS
  <1>3. PICK c, ok : c = (~u /\ s) /\ ok = (u \/ s)  OBVIOUS
  <1>4. host' = (IF ~u /\ s THEN HRead(host, f) ELSE host) /\ Told("call", u \/ s, NONE)
    <2>1. s = HasByte(host, file_fd(h.n), b)  BY <1>1, <1>2
    <2> QED BY <1>1, <2>1, Zenon DEF pull_byte
  <1>5. host' = IF c THEN HRead(host, f) ELSE host  BY <1>3, <1>4
  <1>6. Told("call", ok, NONE)  BY <1>3, <1>4
  <1>7. c => HasByte(host, f, b)  BY <1>2, <1>3
  <1> QED BY <1>5, <1>6, <1>7, ReadHonest
LEMMA FgetsHonest == ASSUME Sane(host), NEW h, NEW b, fgets(h, b) PROVE Reported
  <1>1. PICK f, u : f = file_fd(h.n) /\ u = pool[h.n].ungot  OBVIOUS
  <1>2. PICK one : one = (u \/ HasByte(host, f, b))  OBVIOUS
  <1>3. PICK H : H = IF ~u /\ one THEN HRead(host, f) ELSE host  OBVIOUS
  <1>4. PICK two : two = (one /\ HasByte(H, f, b))  OBVIOUS
  <1>5. host' = (IF two THEN HRead(H, f) ELSE H) /\ Told("call", one, NONE)
    BY <1>1, <1>2, <1>3, <1>4 DEF fgets
  <1>6. PICK c : c = (~u /\ one)  OBVIOUS
  <1>7. H = (IF c THEN HRead(host, f) ELSE host) /\ (c => HasByte(host, f, b)) /\ (two => HasByte(H, f, b))  BY <1>2, <1>3, <1>4, <1>6
  <1> QED BY <1>5, <1>7, ReadsHonest
LEMMA FreadHonest == ASSUME Sane(host), NEW h, NEW b, fread(h, b) PROVE Reported
  <1>1. PICK f, u : f = file_fd(h.n) /\ u = pool[h.n].ungot  OBVIOUS
  <1>2. PICK one : one = (u \/ HasByte(host, f, b))  OBVIOUS
  <1>3. PICK H : H = IF ~u /\ one THEN HRead(host, f) ELSE host  OBVIOUS
  <1>4. PICK two : two = (one /\ HasByte(H, f, b))  OBVIOUS
  <1>5. host' = (IF two THEN HRead(H, f) ELSE H) /\ Told("call", one, NONE)
    BY <1>1, <1>2, <1>3, <1>4 DEF fread
  <1>6. PICK c : c = (~u /\ one)  OBVIOUS
  <1>7. H = (IF c THEN HRead(host, f) ELSE host) /\ (c => HasByte(host, f, b)) /\ (two => HasByte(H, f, b))  BY <1>2, <1>3, <1>4, <1>6
  <1> QED BY <1>5, <1>7, ReadsHonest
LEMMA FopenHonest == ASSUME Sane(host), NEW n \in Names, NEW m \in {"r", "r+", "w", "a"}, fopen(n, m) PROVE Reported
  <1>0. host \in HostType  BY DEF Sane
  <1>1. PICK op : op = IF m \in {"w", "a"} THEN "fopenw" ELSE "call"  OBVIOUS
  <1>2. PICK fl : fl = fopen_mode_flags(m)  OBVIOUS
  <1>3. PICK o : o = HOpen(host, n, fl)  OBVIOUS
  <1>4. Wrap(op, o) /\ op # "NtCreateFile"  BY <1>1, <1>2, <1>3 DEF fopen
  <1>5. ASSUME o.fd # NONE PROVE Grows(host, o.host)
    <2>1. PICK d, i : OpenLeaves(host, o.host, n, o.fd, d, i, n \notin Present(host) \/ "trunc" \in fl)  BY <1>0, <1>3, <1>5, HOpenLeaves
    <2> QED BY <2>1, <1>0, LeavesGrows
  <1>6. ASSUME o.fd # NONE, op # "fopenw" PROVE Alike(host, HClose(o.host, o.fd))
    <2>1. m \in {"r", "r+"}  BY <1>1, <1>6
    <2>2. "creat" \notin fl /\ "trunc" \notin fl  BY <2>1, <1>2 DEF fopen_mode_flags
    <2> QED BY <2>2, <1>3, <1>6, OpenBack
  <1>7. (o.fd # NONE => Grows(host, o.host)) /\ (op = "fopenw" \/ (o.fd # NONE => Alike(host, HClose(o.host, o.fd))))  BY <1>5, <1>6
  <1> QED BY <1>4, <1>7, WrapHonest
LEMMA TmpfileHonest == ASSUME Sane(host), tmpfile PROVE Reported
  <1>0. host \in HostType  BY DEF Sane
  <1>1. PICK a, op : a = HAnonymous(host) /\ op = "call"  OBVIOUS
  <1>2. Wrap(op, a) /\ op # "NtCreateFile"  BY <1>1 DEF tmpfile
  <1>3. ASSUME a.fd # NONE PROVE Grows(host, a.host) /\ Alike(host, HClose(a.host, a.fd))
    <2>1. PICK K, f : K = a.host /\ f = a.fd  OBVIOUS
    <2>2. Grows(host, K) /\ K.name = host.name /\ K.len = host.len /\ f \in Fds /\ host.fd[f] = NONE  BY <1>0, <1>1, <1>3, <2>1, AnonymousGrows
    <2>3. PICK d \in Fds : d \notin Range(host.fd) /\ K.fd = [host.fd EXCEPT ![f] = d] /\ \A e \in Fds : e # d => K.desc[e] = host.desc[e]
      BY <1>0, <1>1, <1>3, <2>1, AnonymousGrows
    <2>4. K \in HostType  BY <2>2 DEF Grows
    <2>5. Alike(host, HClose(K, f))  BY <2>2, <2>3, <2>4, OpenTakenBack
    <2> QED BY <2>1, <2>2, <2>5
  <1>4. (a.fd # NONE => Grows(host, a.host)) /\ (op = "fopenw" \/ (a.fd # NONE => Alike(host, HClose(a.host, a.fd))))  BY <1>3
  <1> QED BY <1>2, <1>4, WrapHonest
LEMMA FreopenHonest == ASSUME FilesInv, DeadEmpty(host), NEW h \in Streams, NEW n \in Names, freopen(n, "w", h) PROVE Reported
  <1>0. Sane(host) /\ host \in HostType  BY SaneHere
  <1>1. PICK fl : fl = fopen_mode_flags("w")  OBVIOUS
  <1>2. PICK o : o = HOpen(host, n, fl)  OBVIOUS
  <1>3. CASE o.fd = NONE
    <2>1. Nothing("call", NONE)  BY <1>1, <1>2, <1>3 DEF freopen
    <2> QED BY <2>1, <1>0, NothingHonest
  <1>4. CASE o.fd # NONE
    <2>1. PICK d, i : OpenLeaves(host, o.host, n, o.fd, d, i, n \notin Present(host) \/ "trunc" \in fl)  BY <1>0, <1>2, <1>4, HOpenLeaves
    <2>2. PICK H, f, g : H = o.host /\ f = o.fd /\ g = h.fd  OBVIOUS
    <2>3. Grows(host, H)  BY <1>0, <2>1, <2>2, LeavesGrows
    <2>4. Sane(H) /\ Named(host, H)  BY <1>0, <2>3, GrowsSane
    <2>5. f \in Fds  BY <2>1, <2>2 DEF OpenLeaves
    <2>6. PICK K : K = host'  OBVIOUS
    <2>7. CASE f = g
      <3>1. K = HClose(H, f) /\ Told("call", TRUE, NONE)  BY <1>1, <1>2, <1>4, <2>2, <2>6, <2>7 DEF freopen
      <3>2. Sane(K) /\ K.name = H.name  BY <2>4, <3>1, CloseSane
      <3>3. Named(host, K)  BY <2>4, <3>2 DEF Named
      <3> QED BY <2>6, <3>1, <3>2, <3>3, Honest
    <2>8. CASE f # g
      <3>1. PICK D : D = HDup2(H, f, g)  OBVIOUS
      <3>2. K = HClose(D, f) /\ Told("call", TRUE, NONE)  BY <1>1, <1>2, <1>4, <2>2, <2>6, <2>8, <3>1 DEF freopen
      <3>3. g \in Fds  BY <2>2, StreamIs
      <3>4. Sane(D) /\ D.name = H.name  BY <2>4, <2>5, <3>1, <3>3, Dup2Sane
      <3>5. Sane(K) /\ K.name = D.name  BY <3>2, <3>4, CloseSane
      <3>6. Named(host, K)  BY <2>4, <3>4, <3>5 DEF Named
      <3> QED BY <2>6, <3>2, <3>5, <3>6, Honest
    <2> QED BY <2>7, <2>8
  <1> QED BY <1>3, <1>4
LEMMA StdioHonest == ASSUME FilesInv, DeadEmpty(host), StdioOps(Names, Names) PROVE Reported
  <1>0. Sane(host) /\ host \in HostType  BY SaneHere
  <1>1. ASSUME NEW n \in Names, NEW m \in {"r", "r+", "w", "a"}, fopen(n, m) PROVE Reported  BY <1>0, <1>1, FopenHonest
  <1>2. CASE tmpfile  BY <1>0, <1>2, TmpfileHonest
  <1>3. CASE popen
    <2>1. PICK o, a, c : o = HOpenOther(host) /\ a = alloc_dynfile(o.fd) /\ c = Slot(Children \ Running)  OBVIOUS
    <2>2. CASE o.fd = NONE \/ a.file = NONE
      <3>1. Nothing("call", NONE)  BY <1>3, <2>1, <2>2 DEF popen
      <3> QED BY <3>1, <1>0, NothingHonest
    <2>3. CASE ~(o.fd = NONE \/ a.file = NONE)
      <3>1. PICK K : K = o.host  OBVIOUS
      <3>2. K = host' /\ Told("call", TRUE, NONE)  BY <1>3, <2>1, <2>3, <3>1, Zenon DEF popen
      <3>3. Grows(host, K)  BY <1>0, <2>1, <2>3, <3>1, OtherGrows
      <3>4. Sane(K) /\ Named(host, K)  BY <1>0, <3>3, GrowsSane
      <3> QED BY <3>2, <3>4, Honest
    <2> QED BY <2>2, <2>3
  <1>4. ASSUME NEW h, fclose(h) PROVE Reported
    <2>1. PICK K, f : K = host' /\ f = h.fd  OBVIOUS
    <2>2. K = (IF f \notin Std THEN HClose(host, f) ELSE host) /\ Told("call", TRUE, NONE)  BY <1>4, <2>1 DEF fclose
    <2>3. CASE f \notin Std
      <3>1. K = HClose(host, f)  BY <2>2, <2>3
      <3>2. Sane(K) /\ K.name = host.name  BY <1>0, <3>1, CloseSane
      <3>3. Named(host, K)  BY <3>2 DEF Named
      <3> QED BY <2>1, <2>2, <3>2, <3>3, Honest
    <2>4. CASE f \in Std
      <3>1. host' = host  BY <2>1, <2>2, <2>4
      <3> QED BY <3>1, <1>0, <2>2, StillHonest
    <2> QED BY <2>3, <2>4
  <1>5. ASSUME NEW h, ungetc(h) \/ ungetwc(h) \/ clearerr(h) PROVE Reported
    <2>1. host' = host /\ Told("call", TRUE, NONE)  BY <1>5, Zenon DEF ungetc, ungetwc, clearerr
    <2> QED BY <2>1, <1>0, StillHonest
  <1>6. ASSUME NEW h, NEW p \in 0..MaxLen, rewind(h) \/ fseek(h, p) \/ fsetpos(h, p) PROVE Reported
    <2>1. PICK f, c : f = file_fd(h.n) /\ c = Regular(host, f)  OBVIOUS
    <2>2. 0 \in 0..MaxLen  BY Constants
    <2>3. ASSUME rewind(h) PROVE Reported
      <3>1. host' = (IF c THEN HSeek(host, f, 0) ELSE host) /\ Told("call", TRUE, NONE)  BY <2>1, <2>3 DEF rewind
      <3>2. PICK t : t = TRUE  OBVIOUS
      <3>3. Told("call", t, NONE)  BY <3>1, <3>2
      <3> QED BY <3>1, <3>3, <2>1, <2>2, <1>0, SeekHonest
    <2>4. ASSUME fseek(h, p) PROVE Reported
      <3>1. host' = (IF c THEN HSeek(host, f, p) ELSE host) /\ Told("call", c, NONE)  BY <2>1, <2>4 DEF fseek
      <3> QED BY <3>1, <2>1, <1>0, SeekHonest
    <2>5. ASSUME fsetpos(h, p) PROVE Reported
      <3>1. host' = (IF c THEN HSeek(host, f, p) ELSE host) /\ Told("call", c, NONE)  BY <2>1, <2>5 DEF fsetpos
      <3> QED BY <3>1, <2>1, <1>0, SeekHonest
    <2> QED BY <1>6, <2>3, <2>4, <2>5
  <1>7. ASSUME NEW h, rewind(h) PROVE Reported
    <2>1. 0 \in 0..MaxLen  BY Constants
    <2> QED BY <2>1, <1>6, <1>7
  <1>8. ASSUME NEW h, fdopen(h) PROVE Reported
    <2>1. PICK a : a = alloc_dynfile(h.fd)  OBVIOUS
    <2>2. CASE a.file = NONE
      <3>1. Nothing("call", NONE)  BY <1>8, <2>1, <2>2 DEF fdopen
      <3> QED BY <3>1, <1>0, NothingHonest
    <2>3. CASE a.file # NONE
      <3>1. host' = host /\ Told("call", TRUE, NONE)  BY <1>8, <2>1, <2>3 DEF fdopen
      <3> QED BY <3>1, <1>0, StillHonest
    <2> QED BY <2>2, <2>3
  <1>9. ASSUME NEW h \in Streams, NEW n \in Names, freopen(n, "w", h) PROVE Reported  BY <1>9, FreopenHonest
  <1>10. ASSUME NEW h, NEW b, getc(h, b) \/ getwc(h, b) \/ filbuf(h, b) \/ fgets(h, b) \/ fread(h, b) PROVE Reported
    <2>1. pull_byte(h, b) \/ fgets(h, b) \/ fread(h, b)  BY <1>10 DEF getc, getwc, filbuf
    <2> QED BY <2>1, <1>0, PullHonest, FgetsHonest, FreadHonest
  <1>11. ASSUME NEW h, fwrite(h) \/ fputs(h) \/ fputc(h) \/ putwc(h) \/ fprintf(h) \/ vfprintf(h) PROVE Reported
    <2>1. stdio_write(file_fd(h.n))  BY <1>11 DEF fwrite, fputs, fputc, putwc, fprintf, vfprintf
    <2> QED BY <2>1, <1>0, StdioWriteHonest
  <1>12. ASSUME NEW h, flsbuf(h) PROVE Reported
    <2>1. PICK f, c : f = file_fd(h.n) /\ c = CanWrite(host, f)  OBVIOUS
    <2>2. host' = (IF c THEN HWrite(host, f) ELSE host) /\ Told("call", c, NONE)  BY <1>12, <2>1 DEF flsbuf
    <2>3. told'.op # "NtCreateFile" /\ (c => told'.ok)  BY <2>2 DEF Told
    <2> QED BY <2>1, <2>2, <2>3, <1>0, WriteHonest
  <1>13. CASE putchar \/ printf \/ vprintf
    <2>1. stdio_write(Max(Std))  BY <1>13 DEF putchar, printf, vprintf
    <2> QED BY <2>1, <1>0, StdioWriteHonest
  <1>14. ASSUME NEW b, getchar(b) PROVE Reported
    <2>1. PICK f, c : f = Min(Std) /\ c = HasByte(host, f, b)  OBVIOUS
    <2>2. host' = (IF c THEN HRead(host, f) ELSE host) /\ Told("call", c, NONE)
      <3>1. c = HasByte(host, Min(Std), b)  BY <2>1
      <3> QED BY <3>1, <2>1, <1>14 DEF getchar
    <2>3. c => HasByte(host, f, b)  BY <2>1
    <2> QED BY <2>2, <2>3, <1>0, ReadHonest
  <1>15. ASSUME NEW h, pclose(h) PROVE Reported
    <2>1. PICK i : i = Slot({j \in PopenSlots : ptab[j].file = h.n})  OBVIOUS
    <2>2. CASE i = NONE
      <3>1. Nothing("pclose", NONE)  BY <1>15, <2>1, <2>2 DEF pclose
      <3> QED BY <3>1, <1>0, NothingHonest
    <2>3. CASE i # NONE
      <3>1. PICK K, f, t : K = host' /\ f = ptab[i].fd /\ t = <<h.child, ptab[i].child>>  OBVIOUS
      <3>2. K = HClose(host, f) /\ Told("pclose", TRUE, t)  BY <1>15, <2>1, <2>3, <3>1 DEF pclose
      <3>3. Sane(K) /\ K.name = host.name  BY <1>0, <3>2, CloseSane
      <3>4. Named(host, K)  BY <3>3 DEF Named
      <3> QED BY <3>1, <3>2, <3>3, <3>4, Honest
    <2> QED BY <2>2, <2>3
  <1> QED BY <1>1, <1>2, <1>3, <1>4, <1>5, <1>6, <1>7, <1>8, <1>9, <1>10, <1>11, <1>12, <1>13, <1>14, <1>15 DEF StdioOps
\* The Information of an open says what became of the file.
LEMMA NtOpenHonest == ASSUME Sane(host), NEW n \in Names, NEW wr,
           NEW disp \in {"SUPERSEDE", "OPEN", "CREATE", "OPEN_IF", "OVERWRITE", "OVERWRITE_IF"}, u32_nt_open(n, wr, disp)
    PROVE Reported
  <1>0. host \in HostType  BY DEF Sane
  <1>1. PICK ex, fl : ex = (n \in Present(host)) /\ fl = Access(TRUE, wr) \cup nt_flags(disp)  OBVIOUS
  <1>2. PICK o : o = HOpen(host, n, fl)  OBVIOUS
  <1>3. CASE (ex /\ disp = "CREATE") \/ (~ex /\ disp \in {"OPEN", "OVERWRITE"}) \/ o.fd = NONE
    <2>1. Nothing("NtCreateFile", NONE)  BY <1>1, <1>2, <1>3 DEF u32_nt_open
    <2> QED BY <2>1, NothingHonest
  <1>4. CASE ~((ex /\ disp = "CREATE") \/ (~ex /\ disp \in {"OPEN", "OVERWRITE"}) \/ o.fd = NONE)
    <2>1. PICK inf : inf = nt_info(disp, ex)  OBVIOUS
    <2>2. PICK t : t = <<n, inf>>  OBVIOUS
    <2>3. host' = o.host /\ Told("NtCreateFile", TRUE, t)  BY <1>1, <1>2, <1>4, <2>1, <2>2 DEF u32_nt_open
    <2>4. PICK cut : cut = (n \notin Present(host) \/ "trunc" \in fl)  OBVIOUS
    <2>5. PICK d, i : OpenLeaves(host, o.host, n, o.fd, d, i, cut)  BY <1>0, <1>2, <1>4, <2>4, HOpenLeaves
    <2>6. Grows(host, o.host)  BY <1>0, <2>5, LeavesGrows
    <2>7. Sane(o.host) /\ Named(host, o.host)  BY <2>6, GrowsSane
    <2>8. host.name \in [Names -> Inodes \cup {NONE}] /\ host.len \in [Inodes -> 0..MaxLen]  BY <1>0, HostIs
    <2>9. PICK K : K = host'  OBVIOUS
    <2>10. K.name[n] = i /\ K.len = [host.len EXCEPT ![i] = IF cut THEN 0 ELSE host.len[i]] /\ i \in Inodes
      <3>1. OpenLeaves(host, K, n, o.fd, d, i, cut)  BY <2>3, <2>5, <2>9
      <3> QED BY <3>1, <2>8 DEF OpenLeaves
    <2>11. inf = "CREATED" <=> ~ex  BY <1>4, <2>1 DEF nt_info
    <2>12. inf \in {"SUPERSEDED", "OVERWRITTEN"} => disp \in {"SUPERSEDE", "OVERWRITE", "OVERWRITE_IF"}  BY <2>1 DEF nt_info
    <2>13. inf = "OPENED" => ex /\ disp \in {"OPEN", "CREATE", "OPEN_IF"}  BY <2>1 DEF nt_info
    <2>14. "trunc" \in fl <=> disp \in {"SUPERSEDE", "OVERWRITE", "OVERWRITE_IF"}  BY <1>1 DEF nt_flags, Access
    <2>15. inf \in {"SUPERSEDED", "OVERWRITTEN", "CREATED"} => cut  BY <1>1, <2>4, <2>11, <2>12, <2>14
    <2>16. inf = "OPENED" => ~cut  BY <1>1, <2>4, <2>13, <2>14
    <2>17. cut => K.len[i] = 0  BY <2>8, <2>10
    <2>18. ~cut => K.len = host.len  BY <2>8, <2>10
    <2>19. told'.info = t /\ told'.ok = TRUE /\ told'.op = "NtCreateFile"  BY <2>3 DEF Told
    <2>20. t[1] = n /\ t[2] = inf  BY <2>2
    <2>21. (inf = "CREATED") = (n \notin Present(host))  BY <1>1, <2>11
    <2>22. InfoRight
      <3>1. told'.info[1] = n /\ told'.info[2] = inf  BY <2>19, <2>20
      <3>2. inf \in {"SUPERSEDED", "OVERWRITTEN", "CREATED"} => K.len[K.name[n]] = 0  BY <2>10, <2>15, <2>17
      <3>3. inf = "OPENED" => K.len = host.len  BY <2>16, <2>18
      <3> QED BY <3>1, <3>2, <3>3, <2>9, <2>21 DEF InfoRight
    <2>23. DeadEmpty(host') /\ Named(host, host')  BY <2>3, <2>7 DEF Sane
    <2> QED BY <2>19, <2>22, <2>23 DEF Reported
  <1> QED BY <1>3, <1>4
LEMMA NtReadHonest == ASSUME Sane(host), NEW h, NEW off \in {NONE, 0}, NEW more, NtReadFile(h, off, more) PROVE Reported
  <1>0. host \in HostType  BY DEF Sane
  <1>1. PICK f : f = h.fd  OBVIOUS
  <1>2. PICK H : H = IF off = NONE \/ ~Regular(host, f) THEN host ELSE HSeek(host, f, off)  OBVIOUS
  <1>3. PICK c, K : c = HasByte(H, f, more) /\ K = host'  OBVIOUS
  <1>4. K = (IF c THEN HRead(H, f) ELSE H) /\ Told("call", c, NONE)  BY <1>1, <1>2, <1>3 DEF NtReadFile
  <1>5. Shifts(host, H)
    <2>1. CASE off = NONE \/ ~Regular(host, f)  BY <2>1, <1>0, <1>2, ShiftsSelf
    <2>2. CASE ~(off = NONE \/ ~Regular(host, f))
      <3>1. off = 0 /\ 0 \in 0..MaxLen /\ H = HSeek(host, f, off)  BY <2>2, <1>2, Constants
      <3>2. IsOpen(host, f)  BY <1>0, <2>2, RegularIs
      <3> QED BY <3>1, <3>2, <1>0, SeekShifts
    <2> QED BY <2>1, <2>2
  <1>6. H \in HostType  BY <1>5 DEF Shifts, Moves
  <1>7. Shifts(H, K)  BY <1>3, <1>4, <1>6, MayReadShifts
  <1>8. Shifts(host, K)  BY <1>0, <1>5, <1>7, ShiftsTwice
  <1> QED BY <1>3, <1>4, <1>8, ShiftsHonest
LEMMA NtWriteHonest == ASSUME Sane(host), NEW h, NEW off \in {NONE, 0}, NtWriteFile(h, off) PROVE Reported
  <1>0. host \in HostType  BY DEF Sane
  <1>1. PICK f : f = h.fd  OBVIOUS
  <1>2. PICK H : H = IF off = NONE \/ ~Regular(host, f) THEN host ELSE HSeek(host, f, off)  OBVIOUS
  <1>3. PICK c, K : c = CanWrite(H, f) /\ K = host'  OBVIOUS
  <1>4. K = (IF c THEN HWrite(H, f) ELSE H) /\ Told("call", c, NONE)  BY <1>1, <1>2, <1>3 DEF NtWriteFile
  <1>5. Shifts(host, H)
    <2>1. CASE off = NONE \/ ~Regular(host, f)  BY <2>1, <1>0, <1>2, ShiftsSelf
    <2>2. CASE ~(off = NONE \/ ~Regular(host, f))
      <3>1. off = 0 /\ 0 \in 0..MaxLen /\ H = HSeek(host, f, off)  BY <2>2, <1>2, Constants
      <3>2. IsOpen(host, f)  BY <1>0, <2>2, RegularIs
      <3> QED BY <3>1, <3>2, <1>0, SeekShifts
    <2> QED BY <2>1, <2>2
  <1>6. H \in HostType /\ Moves(host, H)  BY <1>5 DEF Shifts, Moves
  <1>7. CASE c
    <2>1. K = HWrite(H, f)  BY <1>4, <1>7
    <2>2. Moves(H, K)  BY <1>3, <1>6, <1>7, <2>1, WriteMoves
    <2>3. Moves(host, K)  BY <1>0, <1>6, <2>2, MovesTwice
    <2> QED BY <1>3, <1>4, <1>7, <2>3, MovesHonest
  <1>8. CASE ~c
    <2>1. K = H  BY <1>4, <1>8
    <2>2. Shifts(host, K)  BY <2>1, <1>5
    <2> QED BY <1>3, <1>4, <2>2, ShiftsHonest
  <1> QED BY <1>7, <1>8
LEMMA NtCloseHonest == ASSUME FilesInv, DeadEmpty(host), NEW h, NtClose(h) PROVE Reported
  <1>0. Sane(host)  BY SaneHere
  <1>1. Told("NtClose", TRUE, h) /\ aret_ntfile_close(h)  BY DEF NtClose
  <1>2. PICK s, K : s = u32_ntfile_slot(h.fd) /\ K = host'  OBVIOUS
  <1>3. PICK H : H = HClose(host, h.fd)  OBVIOUS
  <1>4. K = host \/ K = H \/ \E p \in Names : K = HUnlink(H, p)
    <2>1. K = host \/ K = (IF ntfile[s].del /\ ntfile[s].path \in Names THEN HUnlink(H, ntfile[s].path) ELSE H)
      BY <1>1, <1>2, <1>3 DEF aret_ntfile_close
    <2> QED BY <2>1
  <1>5. Sane(H)  BY <1>0, <1>3, CloseSane
  <1>6. \A p \in Names : Sane(HUnlink(H, p))  BY <1>5, UnlinkSane
  <1>7. Sane(K)  BY <1>0, <1>4, <1>5, <1>6
  <1> QED BY <1>1, <1>2, <1>7, Honest
LEMMA CloseHandleHonest == ASSUME Sane(host), NEW h, CloseHandle(h) PROVE Reported
  <1>1. CASE h.k = "map" /\ h.n = NONE
    <2>1. Nothing("call", NONE)  BY <1>1 DEF CloseHandle
    <2> QED BY <2>1, NothingHonest
  <1>2. CASE ~(h.k = "map" /\ h.n = NONE)
    <2>1. PICK K, f : K = host' /\ f = h.fd  OBVIOUS
    <2>2. K = (IF h.k = "map" THEN host ELSE HClose(host, f)) /\ Told("call", TRUE, NONE)  BY <1>2, <2>1 DEF CloseHandle
    <2>3. CASE h.k = "map"
      <3>1. host' = host  BY <2>1, <2>2, <2>3
      <3> QED BY <3>1, <2>2, StillHonest
    <2>4. CASE h.k # "map"
      <3>1. K = HClose(host, f)  BY <2>2, <2>4
      <3>2. Sane(K) /\ K.name = host.name  BY <3>1, CloseSane
      <3>3. Named(host, K)  BY <3>2 DEF Named
      <3> QED BY <2>1, <2>2, <3>2, <3>3, Honest
    <2> QED BY <2>3, <2>4
  <1> QED BY <1>1, <1>2
LEMMA NtHonest == ASSUME FilesInv, DeadEmpty(host), NtOps PROVE Reported
  <1>0. Sane(host) /\ host \in HostType  BY SaneHere
  <1>1. ASSUME NEW n \in Names, NEW wr, NEW d \in {"SUPERSEDE", "OPEN", "CREATE", "OPEN_IF", "OVERWRITE", "OVERWRITE_IF"}, u32_nt_open(n, wr, d) PROVE Reported
    BY <1>0, <1>1, NtOpenHonest
  <1>2. ASSUME NEW h, NEW off \in {NONE, 0}, NEW more, NtReadFile(h, off, more) \/ NtWriteFile(h, off) PROVE Reported
    BY <1>0, <1>2, NtReadHonest, NtWriteHonest
  <1>3. ASSUME NEW h, NEW p \in 0..MaxLen, NtSetEndOfFile(h, p) \/ NtSetPosition(h, p) PROVE Reported
    <2>1. chsize(h, p) \/ lseek(h, p)  BY <1>3 DEF NtSetEndOfFile, NtSetPosition
    <2> QED BY <2>1, <1>0, ChsizeHonest, LseekHonest
  <1>4. ASSUME NEW h, NEW del, NtSetDisposition(h, del) PROVE Reported
    <2>1. host' = host /\ Told("call", TRUE, NONE)  BY <1>4, Zenon DEF NtSetDisposition
    <2> QED BY <2>1, <1>0, StillHonest
  <1>5. ASSUME NEW h, NtClose(h) \/ CloseHandle(h) PROVE Reported  BY <1>0, <1>5, NtCloseHonest, CloseHandleHonest
  <1>6. ASSUME NEW n \in Names, NEW wr, NEW d, CreateFile(n, wr, d) PROVE Reported
    <2>1. OpenFd("call", n, open_named_flags(wr, d))  BY <1>6 DEF CreateFile
    <2> QED BY <2>1, <1>0, OpenFdHonest
  <1> QED BY <1>1, <1>2, <1>3, <1>4, <1>5, <1>6 DEF NtOps
LEMMA ScanHonest == ASSUME FilesInv, DeadEmpty(host), ScanOps PROVE Reported
  <1>0. Sane(host) /\ host \in HostType  BY SaneHere
  <1>1. CASE NtOpenDirectory
    <2>1. PICK o : o = HOpenOther(host)  OBVIOUS
    <2>2. CASE o.fd = NONE
      <3>1. Nothing("NtCreateFile", NONE)  BY <1>1, <2>1, <2>2 DEF NtOpenDirectory
      <3> QED BY <3>1, <1>0, NothingHonest
    <2>3. CASE o.fd # NONE
      <3>1. PICK K : K = o.host  OBVIOUS
      <3>2. K = host' /\ Told("call", TRUE, NONE)  BY <1>1, <2>1, <2>3, <3>1 DEF NtOpenDirectory
      <3>3. Grows(host, K)  BY <1>0, <2>1, <2>3, <3>1, OtherGrows
      <3>4. Sane(K) /\ Named(host, K)  BY <1>0, <3>3, GrowsSane
      <3> QED BY <3>2, <3>4, Honest
    <2> QED BY <2>2, <2>3
  <1>2. ASSUME NEW h, NEW r, NEW room, NtQueryDirectoryFile(h, r, room) PROVE Reported
    <2>1. CASE Entries(h.fd) = {} \/ ntfile[u32_ntfile_slot(h.fd)].path # NONE
      <3>1. Nothing("call", NONE)  BY <1>2, <2>1 DEF NtQueryDirectoryFile
      <3> QED BY <3>1, <1>0, NothingHonest
    <2>2. CASE ~(Entries(h.fd) = {} \/ ntfile[u32_ntfile_slot(h.fd)].path # NONE)
      <3>1. NtQueryDirectory(h, r, room) /\ host' = host  BY <1>2, <2>2 DEF NtQueryDirectoryFile
      <3>2. PICK ok : Told("call", ok, NONE)  BY <3>1, Zenon DEF NtQueryDirectory
      <3> QED BY <3>1, <3>2, <1>0, StillHonest
    <2> QED BY <2>1, <2>2
  <1> QED BY <1>1, <1>2 DEF ScanOps
LEMMA MapHonest == ASSUME FilesInv, DeadEmpty(host), MapOps PROVE Reported
  <1>0. Sane(host) /\ host \in HostType  BY SaneHere
  <1>1. ASSUME NEW n \in Names, NEW s \in {"create", "write", "read", "delete"}, OpenFile(n, s) PROVE Reported
    <2>1. CASE s = "delete"
      <3>1. OpenFileDelete(n)  BY <1>1, <2>1 DEF OpenFile
      <3> QED BY <3>1, <1>0, UnlinkHonest
    <2>2. CASE s # "delete"
      <3>1. \E wr : lcreat(n) \/ lopen(n, wr)  BY <1>1, <2>2 DEF OpenFile
      <3>2. PICK fl : OpenFd("call", n, fl)  BY <3>1, Zenon DEF lcreat, lopen
      <3> QED BY <3>2, <1>0, OpenFdHonest
    <2> QED BY <2>1, <2>2
  <1>2. ASSUME NEW h, NEW s \in 0..MaxLen, NEW wr, CreateFileMapping(h, s, wr) PROVE Reported
    <2>1. PICK f, c, K : f = h.fd /\ c = (wr /\ s > 0 /\ CanTruncate(host, h.fd)) /\ K = host'  OBVIOUS
    <2>2. K = (IF c THEN HTruncate(host, f, s) ELSE host) /\ Told("call", TRUE, NONE)  BY <1>2, <2>1 DEF CreateFileMapping
    <2>3. Moves(host, K)
      <3>1. CASE c
        <4>1. CanTruncate(host, f) /\ K = HTruncate(host, f, s)  BY <3>1, <2>1, <2>2
        <4> QED BY <4>1, <1>0, TruncateMoves
      <3>2. CASE ~c
        <4>1. K = host  BY <3>2, <2>2
        <4> QED BY <4>1, <1>0, ShiftsSelf, ShiftsAlike
      <3> QED BY <3>1, <3>2
    <2>4. Sane(K) /\ Named(host, K)  BY <1>0, <2>3, MovesSane
    <2> QED BY <2>1, <2>2, <2>4, Honest
  <1>3. ASSUME NEW m, MapViewOfFile(m) PROVE Reported
    <2>1. host' = host /\ \E ok : Told("call", ok, NONE)  BY <1>3, Zenon DEF MapViewOfFile
    <2> QED BY <2>1, <1>0, StillHonest
  <1>4. ASSUME NEW v, UnmapViewOfFile(v) PROVE Reported
    <2>1. host' = host /\ Told("call", TRUE, NONE)  BY <1>4, Zenon DEF UnmapViewOfFile
    <2> QED BY <2>1, <1>0, StillHonest
  <1>5. ASSUME NEW h, CloseHandle(h) PROVE Reported  BY <1>0, <1>5, CloseHandleHonest
  <1> QED BY <1>1, <1>2, <1>3, <1>4, <1>5 DEF MapOps
LEMMA LzHonest == ASSUME FilesInv, DeadEmpty(host), LzOps PROVE Reported
  <1>0. Sane(host) /\ host \in HostType  BY SaneHere
  <1>1. ASSUME NEW n, NEW l, LZOpenFile(n, l) PROVE Reported
    <2>1. host' = host /\ \E ok : Told("call", ok, NONE)  BY <1>1, Zenon DEF LZOpenFile, Nothing
    <2> QED BY <2>1, <1>0, StillHonest
  <1>2. ASSUME NEW h \in Of({"fd"}), NEW l, LZInit(h, l) PROVE Reported
    <2>1. PICK f, p, K : f = h.fd /\ p = Size(host, h.fd) /\ K = host'  OBVIOUS
    <2>2. PICK ok : Regular(host, f) /\ K = HSeek(host, f, p) /\ Told("call", ok, NONE)  BY <1>2, <2>1, Zenon DEF LZInit
    <2>3. IsOpen(host, f) /\ p \in 0..MaxLen  BY <1>0, <2>1, <2>2, RegularIs
    <2>4. Shifts(host, K)  BY <1>0, <2>2, <2>3, SeekShifts
    <2> QED BY <1>0, <2>1, <2>2, <2>4, ShiftsHonest
  <1>3. ASSUME NEW z, LZClose(z) PROVE Reported
    <2>1. host' = host /\ Told("call", TRUE, NONE)  BY <1>3, Zenon DEF LZClose
    <2> QED BY <2>1, <1>0, StillHonest
  <1>4. ASSUME NEW z, NEW w, LZRead(z, w) PROVE Reported
    <2>1. host' = host /\ \E ok : Told("call", ok, NONE)  BY <1>4, Zenon DEF LZRead
    <2> QED BY <2>1, <1>0, StillHonest
  <1>5. ASSUME NEW z, NEW o, NEW k, LZSeek(z, o, k) PROVE Reported
    <2>1. host' = host /\ Told("call", TRUE, NONE)  BY <1>5, Zenon DEF LZSeek
    <2> QED BY <2>1, <1>0, StillHonest
  <1> QED BY <1>1, <1>2, <1>3, <1>4, <1>5 DEF LzOps
LEMMA HonestStep == ASSUME FilesInv, DeadEmpty(host), FilesNext PROVE Reported
  BY DescriptorHonest, NameHonest, StdioHonest, NtHonest, ScanHonest, MapHonest, LzHonest DEF FilesNext
LEMMA EmptyStart == ASSUME FilesInit PROVE DeadEmpty(host)
  <1>1. host.len = [i \in Inodes |-> IF i = 1 THEN 1 ELSE 0] /\ host.name = [n \in Names |-> IF n = Min(Names) THEN 1 ELSE NONE]  BY DEF FilesInit
  <1>2. host \in HostType
    <2>1. FilesInv  BY FilesStart
    <2> QED BY <2>1, HostHere
  <1>3. Min(Names) \in Names  BY HostAssumption, MinIn
  <1>4. host.name[Min(Names)] = 1  BY <1>1, <1>3
  <1>5. 1 # NONE /\ 1 # Other  BY HostAssumption DEF Other
  <1>6. 1 \in Live(host)  BY <1>2, <1>3, <1>4, <1>5, LiveIs
  <1> QED BY <1>1, <1>6 DEF DeadEmpty

\* The Information of NtCreateFile is true, a call that fails has changed no file, name or
\* descriptor, and no name goes but by a call that deletes or replaces.
THEOREM CallsReportTruly == ASSUME Clean = TRUE PROVE FilesSpec => CallsFaithful
  <1> DEFINE Inv == FilesInv /\ DeadEmpty(host)
  <1>1. FilesInit => Inv  BY FilesStart, EmptyStart
  <1>2. Inv /\ [FilesNext]_filesVars => Inv'
    <2>1. ASSUME Inv, FilesNext PROVE Inv'
      <3>1. FilesInv'  BY <2>1, FilesStep
      <3>2. Reported  BY <2>1, HonestStep
      <3> QED BY <3>1, <3>2 DEF Reported
    <2>2. ASSUME Inv, UNCHANGED filesVars PROVE Inv'
      <3>1. FilesInv'  BY <2>2, FilesStutter
      <3>2. host' = host  BY <2>2 DEF filesVars
      <3> QED BY <3>1, <3>2, <2>2
    <2> QED BY <2>1, <2>2
  <1> DEFINE Info == told'.op = "NtCreateFile" /\ told'.ok =>
         LET n == told'.info[1]
             i == told'.info[2]
         IN  /\ (i = "CREATED") = (n \notin Present(host))
             /\ i \in {"SUPERSEDED", "OVERWRITTEN", "CREATED"} => host'.len[host'.name[n]] = 0
             /\ i = "OPENED" => host'.len = host.len
  <1> DEFINE Same == ~told'.ok /\ told'.op # "fopenw" =>
         host'.name = host.name /\ host'.len = host.len /\ Free(host') = Free(host)
  <1> DEFINE Kept2 == told'.op \notin {"unlink", "rename", "NtClose"} => Range(host.name) \subseteq Range(host'.name) \cup {NONE}
  <1>3. Inv /\ [FilesNext]_filesVars => [Info]_filesVars  BY HonestStep, Zenon DEF Reported, InfoRight
  <1>4. Inv /\ [FilesNext]_filesVars => [Same]_filesVars  BY HonestStep DEF Reported, Alike
  <1>5. Inv /\ [FilesNext]_filesVars => [Kept2]_filesVars  BY HonestStep DEF Reported, Named
  <1>6. FilesSpec => [][Info]_filesVars
    <2> HIDE DEF Inv, Info
    <2> QED BY <1>1, <1>2, <1>3, PTL DEF FilesSpec
  <1>7. FilesSpec => [][Same]_filesVars
    <2> HIDE DEF Inv, Same
    <2> QED BY <1>1, <1>2, <1>4, PTL DEF FilesSpec
  <1>8. FilesSpec => [][Kept2]_filesVars
    <2> HIDE DEF Inv, Kept2
    <2> QED BY <1>1, <1>2, <1>5, PTL DEF FilesSpec
  <1>9. FilesSpec => InfoIsTrue  BY <1>6 DEF InfoIsTrue
  <1>10. FilesSpec => FailureChangesNothing  BY <1>7 DEF FailureChangesNothing
  <1>11. FilesSpec => NothingLost  BY <1>8 DEF NothingLost
  <1> QED BY <1>9, <1>10, <1>11 DEF CallsFaithful

-----------------------------------------------------------------------------
(* The object cache of the build driver                                        *)
CacheFiles == {"c", "h", "g"}
Contents == [CacheFiles -> Nat]
NeedOf(d) == {"c", "h"} \cup Includes(d["h"])
CompOf(d) == \A f \in NeedOf(d) : d[f] # Missing
ObjOf(d) == [f \in NeedOf(d) |-> d[f]]
Listed == UNION {[D -> Nat] : D \in SUBSET CacheFiles}
\* What the compiler makes of some files.
Compiled == {ObjOf(d) : d \in {e \in Contents : e["c"] \in Sources /\ NeedOf(e) \subseteq CacheFiles /\ CompOf(e)}}
\* A cached object is under the digest of the files it was compiled from.
Stored == {[key |-> x["c"], digest |-> x, obj |-> x] : x \in Compiled}
Places == {"idle", "lookup", "copy", "compile", "reused", "manifest", "digest", "rename", "stored"}
BuildRec == [at : Places, key : Sources \cup {Missing}, digest : Listed \cup {NoDigest}, deps : SUBSET CacheFiles, obj : Listed \cup {NoDigest}]
\* A build r in a directory d, under the manifests m.
BuildSound(r, d, m) ==
    /\ r.at # "idle" => r.key = d["c"]
    /\ r.at = "copy" => \E D \in SUBSET CacheFiles : r.digest = [f \in D |-> d[f]]
    /\ r.at \in {"reused", "manifest", "digest", "rename"} => CompOf(d) /\ r.obj = ObjOf(d)
    /\ r.at \in {"manifest", "digest", "rename"} => r.deps = NeedOf(d)
    /\ r.at = "digest" => m[r.key] = r.deps
    /\ r.at = "rename" => r.digest = r.obj
\* A directory whose object nothing has touched.
WarmSound(d, m, os) ==
    /\ m[d["c"]] = NeedOf(d) /\ CompOf(d)
    /\ \E i \in DOMAIN os : os[i] = [key |-> d["c"], digest |-> ObjOf(d), obj |-> ObjOf(d)]
CacheInv(H, serial) ==
    /\ disk \in [Builds -> Contents] /\ manifest \in [Sources -> SUBSET CacheFiles]
    /\ objects \in Seq(Stored) /\ build \in [Builds -> BuildRec] /\ warm \subseteq Builds
    /\ \A b \in Builds : disk[b]["c"] \in Sources /\ disk[b]["h"] \in H
    /\ \A b \in Builds : BuildSound(build[b], disk[b], manifest)
    /\ serial => \A b, c \in Builds : b = c \/ build[b].at = "idle" \/ build[c].at = "idle"
    /\ \A b \in warm : WarmSound(disk[b], manifest, objects)
\* What is asked of the headers' contents: they include files of the directory, and all the same ones when builds overlap.
HeadersFit(H, serial) ==
    /\ H \subseteq Nat /\ 1 \in H /\ serial \in BOOLEAN
    /\ \A v \in H : Includes(v) \subseteq CacheFiles
    /\ serial \/ \A v, w \in H \ {Missing} : Includes(v) = Includes(w)

LEMMA OfDirectory == ASSUME NEW b PROVE Needed(b) = NeedOf(disk[b]) /\ (Compiles(b) <=> CompOf(disk[b])) /\ Object(b) = ObjOf(disk[b])
  BY DEF Needed, Compiles, Object, NeedOf, CompOf, ObjOf
LEMMA ContentsIs == ASSUME NEW d \in Contents PROVE \A f \in CacheFiles : d[f] \in Nat
  BY DEF Contents
LEMMA ObjListed == ASSUME NEW d \in Contents, NeedOf(d) \subseteq CacheFiles PROVE ObjOf(d) \in Listed
  <1>1. ObjOf(d) \in [NeedOf(d) -> Nat]  BY ContentsIs DEF ObjOf
  <1> QED BY <1>1 DEF Listed
LEMMA ObjCompiled == ASSUME NEW d \in Contents, NeedOf(d) \subseteq CacheFiles, d["c"] \in Sources, CompOf(d) PROVE ObjOf(d) \in Compiled /\ ObjOf(d)["c"] = d["c"]
  BY DEF Compiled, ObjOf, NeedOf
\* An object whose digest is that of the files in the directory is the directory's own.
LEMMA DigestFits == ASSUME NEW d \in Contents, NEW x \in Compiled, NEW D \in SUBSET CacheFiles, x = [f \in D |-> d[f]]
    PROVE CompOf(d) /\ x = ObjOf(d)
  <1>1. PICK e \in Contents : e["c"] \in Sources /\ NeedOf(e) \subseteq CacheFiles /\ CompOf(e) /\ x = ObjOf(e)  BY DEF Compiled
  <1>2. DOMAIN x = NeedOf(e) /\ \A f \in NeedOf(e) : x[f] = e[f]  BY <1>1 DEF ObjOf
  <1>3. D = NeedOf(e) /\ \A f \in NeedOf(e) : d[f] = e[f]  BY <1>2
  <1>4. d["h"] = e["h"]  BY <1>3 DEF NeedOf
  <1>5. NeedOf(d) = NeedOf(e)  BY <1>4 DEF NeedOf
  <1>6. CompOf(d)  BY <1>1, <1>3, <1>5 DEF CompOf
  <1> QED BY <1>3, <1>5, <1>6 DEF ObjOf
LEMMA StoredIs == ASSUME NEW o \in Stored PROVE o.obj \in Compiled /\ o.digest = o.obj /\ o = [key |-> o.key, digest |-> o.obj, obj |-> o.obj]
  BY DEF Stored
LEMMA RemoveAtIs == ASSUME NEW T, NEW s \in Seq(T), NEW i \in DOMAIN s
    PROVE /\ RemoveAt(s, i) \in Seq(T)
          /\ \A j \in DOMAIN s : j # i => \E k \in DOMAIN RemoveAt(s, i) : RemoveAt(s, i)[k] = s[j]
  <1>1. i \in 1..Len(s) /\ Len(s) \in Nat  OBVIOUS
  <1>2. PICK a, c : a = SubSeq(s, 1, i - 1) /\ c = SubSeq(s, i + 1, Len(s))  OBVIOUS
  <1>3. a \in Seq(T) /\ Len(a) = i - 1 /\ \A k \in 1..(i - 1) : a[k] = s[k]
    BY <1>1, <1>2, SubSeqProperties
  <1>4. c \in Seq(T) /\ Len(c) = Len(s) - i /\ \A k \in 1..(Len(s) - i) : c[k] = s[k + i]
    BY <1>1, <1>2, SubSeqProperties
  <1>5. PICK r : r = a \o c  OBVIOUS
  <1>6. r = RemoveAt(s, i)  BY <1>2, <1>5 DEF RemoveAt
  <1>7. r \in Seq(T) /\ Len(r) = Len(s) - 1 /\ (\A k \in 1..Len(a) : r[k] = a[k]) /\ (\A k \in 1..Len(c) : r[k + Len(a)] = c[k])
    <2>1. /\ a \o c \in Seq(T) /\ Len(a \o c) = Len(a) + Len(c)
          /\ \A k \in 1..Len(a) + Len(c) : (a \o c)[k] = IF k <= Len(a) THEN a[k] ELSE c[k - Len(a)]
      BY <1>3, <1>4, ConcatProperties
    <2>2. PICK n, m : n = Len(a) /\ m = Len(c)  OBVIOUS
    <2>3. n \in Nat /\ m \in Nat /\ n + m = Len(s) - 1  BY <2>2, <1>1, <1>3, <1>4
    <2>4. \A k \in 1..(n + m) : r[k] = IF k <= n THEN a[k] ELSE c[k - n]  BY <2>1, <2>2, <1>5
    <2>5. ASSUME NEW k \in 1..m PROVE r[k + n] = c[k]
      <3>1. k + n \in 1..(n + m) /\ (k + n) - n = k /\ ~(k + n <= n)  BY <2>3
      <3> QED BY <3>1, <2>4
    <2>6. ASSUME NEW k \in 1..n PROVE r[k] = a[k]
      <3>1. k \in 1..(n + m) /\ k <= n  BY <2>3
      <3> QED BY <3>1, <2>4
    <2> QED BY <2>1, <2>2, <2>3, <2>5, <2>6, <1>5
  <1>8. ASSUME NEW j \in 1..Len(s), j # i PROVE \E k \in 1..Len(r) : r[k] = s[j]
    <2>1. CASE j < i
      <3>1. j \in 1..(i - 1) /\ j \in 1..Len(a) /\ j \in 1..Len(r)  BY <2>1, <1>1, <1>3, <1>7
      <3> QED BY <3>1, <1>3, <1>7
    <2>2. CASE j > i
      <3>1. PICK k : k = j - i  OBVIOUS
      <3>0. PICK n, m, p, q : n = Len(a) /\ m = Len(c) /\ p = Len(r) /\ q = Len(s)  OBVIOUS
      <3>00. n = i - 1 /\ m = q - i /\ p = q - 1 /\ q \in Nat /\ i \in 1..q /\ j \in 1..q  BY <3>0, <1>1, <1>3, <1>4, <1>7, <1>8
      <3>01. i \in Int /\ j \in Int /\ i >= 1 /\ i <= q /\ j >= 1 /\ j <= q /\ i < j  BY <3>00, <2>2
      <3>02. k \in Int /\ k >= 1 /\ k <= m /\ m \in Int /\ p \in Int /\ n \in Int  BY <3>1, <3>00, <3>01
      <3>03. k + i = j  BY <3>1, <3>01
      <3>04. k + n = j - 1  BY <3>03, <3>02, <3>00, <3>01
      <3>05. j - 1 >= 1 /\ j - 1 <= p  BY <3>00, <3>01, <3>02
      <3>000. k \in 1..m /\ k + i = j /\ k + n = j - 1 /\ j - 1 \in 1..p  BY <3>01, <3>02, <3>03, <3>04, <3>05
      <3>2. k \in 1..Len(c) /\ k + i = j /\ k + Len(a) = j - 1 /\ j - 1 \in 1..Len(r)  BY <3>0, <3>000
      <3>3. r[j - 1] = c[k]  BY <3>2, <1>7
      <3>4. c[k] = s[j]  BY <3>2, <1>4
      <3> QED BY <3>2, <3>3, <3>4
    <2> QED BY <2>1, <2>2, <1>1, <1>8
  <1>9. DOMAIN s = 1..Len(s) /\ DOMAIN r = 1..Len(r)  BY <1>7
  <1> QED BY <1>6, <1>7, <1>8, <1>9
LEMMA AppendIs == ASSUME NEW T, NEW s \in Seq(T), NEW e \in T
    PROVE /\ Append(s, e) \in Seq(T)
          /\ \A j \in DOMAIN s : \E k \in DOMAIN Append(s, e) : Append(s, e)[k] = s[j]
          /\ \E k \in DOMAIN Append(s, e) : Append(s, e)[k] = e
  <1>1. PICK r : r = Append(s, e)  OBVIOUS
  <1>2. r \in Seq(T) /\ Len(r) = Len(s) + 1 /\ (\A j \in 1..Len(s) : r[j] = s[j]) /\ r[Len(s) + 1] = e /\ Len(s) \in Nat
    BY <1>1, AppendProperties
  <1>3. DOMAIN s = 1..Len(s) /\ DOMAIN r = 1..Len(r)  BY <1>2
  <1>4. Len(s) + 1 \in DOMAIN r /\ \A j \in DOMAIN s : j \in DOMAIN r  BY <1>2, <1>3
  <1> QED BY <1>1, <1>2, <1>3, <1>4

-----------------------------------------------------------------------------
LEMMA NeedsHere == ASSUME NEW H, NEW serial, HeadersFit(H, serial), CacheInv(H, serial), NEW b \in Builds
    PROVE /\ disk[b] \in Contents /\ NeedOf(disk[b]) \subseteq CacheFiles /\ disk[b]["c"] \in Sources /\ disk[b]["h"] \in H
          /\ {"c", "h"} \subseteq NeedOf(disk[b])
          /\ build[b] \in BuildRec /\ BuildSound(build[b], disk[b], manifest)
  BY DEF HeadersFit, CacheInv, NeedOf, CacheFiles
\* One build goes on, from the same files and manifests; the objects keep what was warm.
LEMMA GoesOn == ASSUME NEW H, NEW serial, HeadersFit(H, serial), CacheInv(H, serial), NEW b \in Builds, NEW r \in BuildRec,
           BuildSound(r, disk[b], manifest), build' = [build EXCEPT ![b] = r], UNCHANGED <<disk, manifest>>,
           r.at = "idle" \/ (serial => \A c \in Builds \ {b} : At(c, "idle")),
           objects' \in Seq(Stored), warm' \subseteq Builds, \A c \in warm' : WarmSound(disk[c], manifest, objects')
    PROVE CacheInv(H, serial)'
  <1>1. build' \in [Builds -> BuildRec]  BY DEF CacheInv
  <1>2. build'[b] = r /\ \A c \in Builds : c # b => build'[c] = build[c]  BY DEF CacheInv
  <1>3. \A c \in Builds : BuildSound(build'[c], disk[c], manifest)  BY <1>2 DEF CacheInv
  <1>4. serial => \A x, y \in Builds : x = y \/ build'[x].at = "idle" \/ build'[y].at = "idle"
    BY <1>2 DEF CacheInv, At
  <1> QED BY <1>1, <1>3, <1>4 DEF CacheInv
LEMMA IdleIs == IdleBuild \in BuildRec /\ IdleBuild.at = "idle"
  BY DEF IdleBuild, BuildRec, Places
LEMMA IdleSound == ASSUME NEW r, r.at = "idle" PROVE \A d, m : BuildSound(r, d, m)
  BY DEF BuildSound
LEMMA SameWarm == ASSUME NEW H, NEW serial, CacheInv(H, serial), UNCHANGED <<disk, manifest, objects, warm>>
    PROVE objects' \in Seq(Stored) /\ warm' \subseteq Builds /\ \A c \in warm' : WarmSound(disk[c], manifest, objects')
  BY DEF CacheInv
LEMMA BeginKeeps == ASSUME NEW H, NEW serial, HeadersFit(H, serial), CacheInv(H, serial), NEW b \in Builds, begin(b),
           serial => \A c \in Builds \ {b} : At(c, "idle")
    PROVE CacheInv(H, serial)'
  <1>1. PICK k : k = disk[b]["c"]  OBVIOUS
  <1>2. PICK r : r = [IdleBuild EXCEPT !.at = "lookup", !.key = k]  OBVIOUS
  <1>3. k \in Sources  BY <1>1, NeedsHere
  <1>4. r \in BuildRec /\ r.at = "lookup" /\ r.key = k  BY <1>2, <1>3 DEF IdleBuild, BuildRec, Places
  <1>5. BuildSound(r, disk[b], manifest)  BY <1>1, <1>4 DEF BuildSound
  <1>6. build' = [build EXCEPT ![b] = r] /\ UNCHANGED <<disk, manifest, objects, warm>>  BY <1>1, <1>2 DEF begin
  <1>7. objects' \in Seq(Stored) /\ warm' \subseteq Builds /\ \A c \in warm' : WarmSound(disk[c], manifest, objects')  BY <1>6, SameWarm
  <1>8. UNCHANGED <<disk, manifest>>  BY <1>6
  <1> QED BY <1>4, <1>5, <1>6, <1>7, <1>8, GoesOn
\* What dep_digest answers.
LEMMA DigestIs == ASSUME NEW H, NEW serial, HeadersFit(H, serial), CacheInv(H, serial), NEW b \in Builds, NEW k \in Sources
    PROVE /\ dep_digest(b, k) \in Listed \cup {NoDigest}
          /\ dep_digest(b, k) # NoDigest => dep_digest(b, k) = [f \in manifest[k] |-> disk[b][f]]
          /\ manifest[k] = NeedOf(disk[b]) /\ CompOf(disk[b]) => dep_digest(b, k) = ObjOf(disk[b])
  <1>1. manifest[k] \in SUBSET CacheFiles  BY DEF CacheInv
  <1>2. disk[b] \in Contents  BY NeedsHere
  <1>3. [f \in manifest[k] |-> disk[b][f]] \in Listed
    <2>1. [f \in manifest[k] |-> disk[b][f]] \in [manifest[k] -> Nat]  BY <1>1, <1>2, ContentsIs
    <2> QED BY <2>1, <1>1 DEF Listed
  <1>4. dep_digest(b, k) = NoDigest \/ dep_digest(b, k) = [f \in manifest[k] |-> disk[b][f]]  BY DEF dep_digest
  <1>5. ASSUME manifest[k] = NeedOf(disk[b]), CompOf(disk[b]) PROVE dep_digest(b, k) = ObjOf(disk[b])
    <2>1. manifest[k] # {}  BY <1>5 DEF NeedOf
    <2>2. \A f \in manifest[k] : disk[b][f] # Missing  BY <1>5 DEF CompOf
    <2>3. dep_digest(b, k) = [f \in manifest[k] |-> disk[b][f]]  BY <2>1, <2>2 DEF dep_digest
    <2> QED BY <2>3, <1>5 DEF ObjOf
  <1> QED BY <1>3, <1>4, <1>5
LEMMA LookupDigestKeeps == ASSUME NEW H, NEW serial, HeadersFit(H, serial), CacheInv(H, serial), NEW b \in Builds, lookup_digest(b),
           serial => \A c \in Builds \ {b} : At(c, "idle")
    PROVE CacheInv(H, serial)'
  <1>1. PICK r0 : r0 = build[b]  OBVIOUS
  <1>2. r0 \in BuildRec /\ BuildSound(r0, disk[b], manifest) /\ disk[b]["c"] \in Sources /\ r0.at = "lookup"
    BY <1>1, NeedsHere DEF lookup_digest, At
  <1>3. PICK k, d : k = r0.key /\ d = dep_digest(b, k)  OBVIOUS
  <1>4. k = disk[b]["c"] /\ k \in Sources  BY <1>2, <1>3 DEF BuildSound
  <1>5. d \in Listed \cup {NoDigest} /\ (d # NoDigest => d = [f \in manifest[k] |-> disk[b][f]])  BY <1>3, <1>4, DigestIs
  <1>6. PICK a : a = IF d = NoDigest THEN "compile" ELSE "copy"  OBVIOUS
  <1>7. PICK r : r = [r0 EXCEPT !.digest = d, !.at = a]  OBVIOUS
  <1>8. r \in BuildRec /\ r.at = a /\ r.key = k /\ r.digest = d  BY <1>2, <1>3, <1>5, <1>6, <1>7 DEF BuildRec, Places
  <1>9. BuildSound(r, disk[b], manifest)
    <2>1. manifest[k] \in SUBSET CacheFiles  BY <1>4 DEF CacheInv
    <2> QED BY <2>1, <1>4, <1>5, <1>6, <1>8 DEF BuildSound
  <1>10. build' = [build EXCEPT ![b] = r] /\ UNCHANGED <<disk, manifest, objects, warm>>
    <2>1. build' = [build EXCEPT ![b].digest = d, ![b].at = IF d = NoDigest THEN "compile" ELSE "copy"]  BY <1>1, <1>3 DEF lookup_digest
    <2>2. UNCHANGED <<disk, manifest, objects, warm>>  BY DEF lookup_digest
    <2>3. build \in [Builds -> BuildRec]  BY DEF CacheInv
    <2> QED BY <2>1, <2>2, <2>3, <1>1, <1>6, <1>7
  <1>11. objects' \in Seq(Stored) /\ warm' \subseteq Builds /\ \A c \in warm' : WarmSound(disk[c], manifest, objects')  BY <1>10, SameWarm
  <1>12. UNCHANGED <<disk, manifest>>  BY <1>10
  <1> QED BY <1>8, <1>9, <1>10, <1>11, <1>12, GoesOn
\* A directory stays warm in objects that hold every entry there was.
LEMMA WarmMoves == ASSUME NEW d, NEW m, NEW os, NEW os2, WarmSound(d, m, os), \A j \in DOMAIN os : \E k \in DOMAIN os2 : os2[k] = os[j]
    PROVE WarmSound(d, m, os2)
  BY DEF WarmSound
LEMMA LookupKeeps == ASSUME NEW H, NEW serial, HeadersFit(H, serial), CacheInv(H, serial), NEW b \in Builds, lookup(b),
           serial => \A c \in Builds \ {b} : At(c, "idle")
    PROVE CacheInv(H, serial)'
  <1>1. PICK r0 : r0 = build[b]  OBVIOUS
  <1>2. r0 \in BuildRec /\ BuildSound(r0, disk[b], manifest) /\ disk[b] \in Contents /\ r0.at = "copy"
    BY <1>1, NeedsHere DEF lookup, At
  <1>3. PICK hit : hit = Found(r0.key, r0.digest)  OBVIOUS
  <1>4. UNCHANGED <<disk, manifest, warm>>  BY DEF lookup
  <1>5. build \in [Builds -> BuildRec] /\ objects \in Seq(Stored) /\ warm \subseteq Builds  BY DEF CacheInv
  <1>6. CASE hit = {}
    <2>1. PICK r : r = [r0 EXCEPT !.at = "compile"]  OBVIOUS
    <2>2. build' = [build EXCEPT ![b] = r] /\ objects' = objects  BY <1>1, <1>3, <1>6, <2>1 DEF lookup, Go
    <2>3. r \in BuildRec /\ r.at = "compile" /\ r.key = r0.key  BY <2>1, <1>2 DEF BuildRec, Places
    <2>4. BuildSound(r, disk[b], manifest)  BY <2>3, <1>2 DEF BuildSound
    <2>5. UNCHANGED <<disk, manifest, objects, warm>>  BY <2>2, <1>4
    <2>6. objects' \in Seq(Stored) /\ warm' \subseteq Builds /\ \A c \in warm' : WarmSound(disk[c], manifest, objects')  BY <2>5, SameWarm
    <2>7. UNCHANGED <<disk, manifest>>  BY <1>4
    <2> QED BY <2>2, <2>3, <2>4, <2>6, <2>7, GoesOn
  <1>7. CASE hit # {}
    <2>1. PICK i : i = CHOOSE j \in hit : TRUE  OBVIOUS
    <2>2. i \in hit  BY <2>1, <1>7
    <2>3. i \in DOMAIN objects /\ objects[i].digest = r0.digest  BY <2>2, <1>3 DEF Found
    <2>4. PICK o : o = objects[i]  OBVIOUS
    <2>5. o \in Stored  BY <2>3, <2>4, <1>5
    <2>6. o.obj \in Compiled /\ o.digest = o.obj  BY <2>5, StoredIs
    <2>7. PICK D \in SUBSET CacheFiles : r0.digest = [f \in D |-> disk[b][f]]  BY <1>2 DEF BuildSound
    <2>8. CompOf(disk[b]) /\ o.obj = ObjOf(disk[b])
      <3>1. o.obj = [f \in D |-> disk[b][f]]  BY <2>3, <2>4, <2>6, <2>7
      <3> QED BY <3>1, <2>6, <1>2, DigestFits
    <2>9. PICK r : r = [r0 EXCEPT !.obj = o.obj, !.at = "reused"]  OBVIOUS
    <2>10. build' = [build EXCEPT ![b] = r] /\ objects' \in {objects, Append(RemoveAt(objects, i), objects[i])}
      <3>1. /\ build' = [build EXCEPT ![b].obj = objects[i].obj, ![b].at = "reused"]
            /\ objects' \in {objects, Append(RemoveAt(objects, i), objects[i])}
        BY <1>1, <1>3, <1>7, <2>1 DEF lookup
      <3> QED BY <3>1, <2>4, <2>9, <1>1, <1>5
    <2>11. r \in BuildRec /\ r.at = "reused" /\ r.key = r0.key /\ r.obj = o.obj
      <3>1. o.obj \in Listed
        <4>1. NeedOf(disk[b]) \subseteq CacheFiles  BY NeedsHere
        <4> QED BY <4>1, <2>8, <1>2, ObjListed
      <3> QED BY <3>1, <2>9, <1>2 DEF BuildRec, Places
    <2>12. BuildSound(r, disk[b], manifest)  BY <2>8, <2>11, <1>2 DEF BuildSound
    <2>13. PICK q, z : q = RemoveAt(objects, i) /\ z = Append(q, o)  OBVIOUS
    <2>14. q \in Seq(Stored) /\ \A j \in DOMAIN objects : j # i => \E k \in DOMAIN q : q[k] = objects[j]
      BY <2>3, <2>13, <1>5, RemoveAtIs
    <2>15. z \in Seq(Stored) /\ (\A j \in DOMAIN q : \E k \in DOMAIN z : z[k] = q[j]) /\ \E k \in DOMAIN z : z[k] = o
      BY <2>5, <2>13, <2>14, AppendIs
    <2>16. \A j \in DOMAIN objects : \E k \in DOMAIN z : z[k] = objects[j]
      BY <2>4, <2>14, <2>15
    <2>17. objects' \in Seq(Stored) /\ \A j \in DOMAIN objects : \E k \in DOMAIN objects' : objects'[k] = objects[j]
      <3>1. objects' = objects \/ objects' = z  BY <2>10, <2>4, <2>13
      <3> QED BY <3>1, <2>15, <2>16, <1>5
    <2>18. \A c \in warm' : WarmSound(disk[c], manifest, objects')
      <3>1. \A c \in warm : WarmSound(disk[c], manifest, objects)  BY DEF CacheInv
      <3> QED BY <3>1, <2>17, <1>4, WarmMoves
    <2>19. UNCHANGED <<disk, manifest>> /\ warm' \subseteq Builds  BY <1>4, <1>5
    <2> QED BY <2>10, <2>11, <2>12, <2>17, <2>18, <2>19, GoesOn
  <1> QED BY <1>6, <1>7
LEMMA CompileKeeps == ASSUME NEW H, NEW serial, HeadersFit(H, serial), CacheInv(H, serial), NEW b \in Builds, compile(b),
           serial => \A c \in Builds \ {b} : At(c, "idle")
    PROVE CacheInv(H, serial)'
  <1>1. PICK r0 : r0 = build[b]  OBVIOUS
  <1>2. r0 \in BuildRec /\ BuildSound(r0, disk[b], manifest) /\ disk[b] \in Contents /\ NeedOf(disk[b]) \subseteq CacheFiles /\ r0.at = "compile"
    BY <1>1, NeedsHere DEF compile, At
  <1>3. PICK n, o : n = NeedOf(disk[b]) /\ o = ObjOf(disk[b])  OBVIOUS
  <1>4. Needed(b) = n /\ (Compiles(b) <=> CompOf(disk[b])) /\ Object(b) = o  BY <1>3, OfDirectory
  <1>5. UNCHANGED <<disk, manifest, objects, warm>>  BY DEF compile
  <1>6. objects' \in Seq(Stored) /\ warm' \subseteq Builds /\ \A c \in warm' : WarmSound(disk[c], manifest, objects')  BY <1>5, SameWarm
  <1>7. UNCHANGED <<disk, manifest>>  BY <1>5
  <1>8. build \in [Builds -> BuildRec]  BY DEF CacheInv
  <1>9. CASE CompOf(disk[b])
    <2>1. PICK r : r = [r0 EXCEPT !.obj = o, !.deps = n, !.at = "manifest"]  OBVIOUS
    <2>2. build' = [build EXCEPT ![b] = r]
      <3>1. build' = [build EXCEPT ![b].obj = o, ![b].deps = n, ![b].at = "manifest"]  BY <1>4, <1>9 DEF compile
      <3> QED BY <3>1, <2>1, <1>1, <1>8
    <2>3. r \in BuildRec /\ r.at = "manifest" /\ r.key = r0.key /\ r.obj = o /\ r.deps = n
      <3>1. o \in Listed  BY <1>2, <1>3, ObjListed
      <3> QED BY <3>1, <2>1, <1>2, <1>3 DEF BuildRec, Places
    <2>4. BuildSound(r, disk[b], manifest)  BY <2>3, <1>2, <1>3, <1>9 DEF BuildSound
    <2> QED BY <2>2, <2>3, <2>4, <1>6, <1>7, GoesOn
  <1>10. CASE ~CompOf(disk[b])
    <2>1. PICK r : r = IdleBuild  OBVIOUS
    <2>2. build' = [build EXCEPT ![b] = r]  BY <2>1, <1>4, <1>10 DEF compile
    <2>3. r \in BuildRec /\ BuildSound(r, disk[b], manifest)  BY <2>1, IdleIs, IdleSound
    <2> QED BY <2>2, <2>3, <1>6, <1>7, GoesOn
  <1> QED BY <1>9, <1>10
LEMMA StoreDigestKeeps == ASSUME NEW H, NEW serial, HeadersFit(H, serial), CacheInv(H, serial), NEW b \in Builds, store_digest(b),
           serial => \A c \in Builds \ {b} : At(c, "idle")
    PROVE CacheInv(H, serial)'
  <1>1. PICK r0 : r0 = build[b]  OBVIOUS
  <1>2. /\ r0 \in BuildRec /\ BuildSound(r0, disk[b], manifest) /\ disk[b] \in Contents /\ NeedOf(disk[b]) \subseteq CacheFiles
        /\ disk[b]["c"] \in Sources /\ {"c", "h"} \subseteq NeedOf(disk[b]) /\ r0.at = "digest"
    BY <1>1, NeedsHere DEF store_digest, At
  <1>3. PICK k, d : k = r0.key /\ d = dep_digest(b, k)  OBVIOUS
  <1>4. k \in Sources /\ manifest[k] = NeedOf(disk[b]) /\ CompOf(disk[b]) /\ r0.obj = ObjOf(disk[b])  BY <1>2, <1>3 DEF BuildSound
  <1>5. d = r0.obj  BY <1>3, <1>4, DigestIs
  <1>6. d # NoDigest
    <2>1. DOMAIN d = NeedOf(disk[b])  BY <1>4, <1>5 DEF ObjOf
    <2>2. "c" \in DOMAIN d  BY <2>1, <1>2
    <2>3. DOMAIN NoDigest = {}  BY DEF NoDigest
    <2> QED BY <2>2, <2>3
  <1>7. PICK r : r = [r0 EXCEPT !.digest = d, !.at = "rename"]  OBVIOUS
  <1>8. r \in BuildRec /\ r.at = "rename" /\ r.key = k /\ r.digest = r.obj /\ r.obj = r0.obj /\ r.deps = r0.deps
    BY <1>2, <1>3, <1>5, <1>7 DEF BuildRec, Places
  <1>9. BuildSound(r, disk[b], manifest)  BY <1>2, <1>3, <1>8 DEF BuildSound
  <1>10. build' = [build EXCEPT ![b] = r] /\ UNCHANGED <<disk, manifest, objects, warm>>
    <2>1. build' = [build EXCEPT ![b].digest = d, ![b].at = "rename"]  BY <1>1, <1>3, <1>6 DEF store_digest
    <2>2. UNCHANGED <<disk, manifest, objects, warm>>  BY DEF store_digest
    <2>3. build \in [Builds -> BuildRec]  BY DEF CacheInv
    <2> QED BY <2>1, <2>2, <2>3, <1>1, <1>7
  <1>11. objects' \in Seq(Stored) /\ warm' \subseteq Builds /\ \A c \in warm' : WarmSound(disk[c], manifest, objects')  BY <1>10, SameWarm
  <1>12. UNCHANGED <<disk, manifest>>  BY <1>10
  <1> QED BY <1>8, <1>9, <1>10, <1>11, <1>12, GoesOn
LEMMA StoreKeeps == ASSUME NEW H, NEW serial, HeadersFit(H, serial), CacheInv(H, serial), NEW b \in Builds, store(b),
           serial => \A c \in Builds \ {b} : At(c, "idle")
    PROVE CacheInv(H, serial)'
  <1>1. PICK r0 : r0 = build[b]  OBVIOUS
  <1>2. /\ r0 \in BuildRec /\ BuildSound(r0, disk[b], manifest) /\ disk[b] \in Contents /\ NeedOf(disk[b]) \subseteq CacheFiles
        /\ disk[b]["c"] \in Sources /\ r0.at = "rename"
    BY <1>1, NeedsHere DEF store, At
  <1>3. PICK o, k : o = ObjOf(disk[b]) /\ k = disk[b]["c"]  OBVIOUS
  <1>4. r0.key = k /\ r0.digest = o /\ r0.obj = o /\ CompOf(disk[b]) /\ r0.deps = NeedOf(disk[b])  BY <1>2, <1>3 DEF BuildSound
  <1>5. PICK e : e = [key |-> k, digest |-> o, obj |-> o]  OBVIOUS
  <1>6. e \in Stored
    <2>1. o \in Compiled /\ o["c"] = k  BY <1>2, <1>3, <1>4, ObjCompiled
    <2> QED BY <2>1, <1>5 DEF Stored
  <1>7. build \in [Builds -> BuildRec] /\ objects \in Seq(Stored) /\ warm \subseteq Builds  BY DEF CacheInv
  <1>8. PICK old, q : old = Found(k, o) /\ q = IF old = {} THEN objects ELSE RemoveAt(objects, CHOOSE i \in old : TRUE)  OBVIOUS
  <1>9. objects' = Append(q, e)
    BY <1>1, <1>4, <1>5, <1>8 DEF store
  <1>10. q \in Seq(Stored) /\ \A j \in DOMAIN objects : objects[j] = e \/ \E l \in DOMAIN q : q[l] = objects[j]
    <2>1. CASE old = {}
      BY <2>1, <1>7, <1>8
    <2>2. CASE old # {}
      <3>1. PICK i : i = CHOOSE j \in old : TRUE  OBVIOUS
      <3>2. i \in old /\ q = RemoveAt(objects, i)  BY <3>1, <2>2, <1>8
      <3>3. i \in DOMAIN objects /\ objects[i].key = k /\ objects[i].digest = o  BY <3>2, <1>8 DEF Found
      <3>4. PICK x : x = objects[i]  OBVIOUS
      <3>5. x \in Stored  BY <3>3, <3>4, <1>7
      <3>6. x.digest = x.obj /\ x = [key |-> x.key, digest |-> x.obj, obj |-> x.obj]  BY <3>5, StoredIs
      <3>7. x = e  BY <3>3, <3>4, <3>6, <1>5
      <3>8. q \in Seq(Stored) /\ \A j \in DOMAIN objects : j # i => \E l \in DOMAIN q : q[l] = objects[j]
        BY <3>2, <3>3, <1>7, RemoveAtIs
      <3> QED BY <3>4, <3>7, <3>8
    <2> QED BY <2>1, <2>2
  <1>11. objects' \in Seq(Stored) /\ (\A j \in DOMAIN q : \E l \in DOMAIN objects' : objects'[l] = q[j]) /\ \E l \in DOMAIN objects' : objects'[l] = e
    BY <1>6, <1>9, <1>10, AppendIs
  <1>12. \A j \in DOMAIN objects : \E l \in DOMAIN objects' : objects'[l] = objects[j]  BY <1>10, <1>11
  <1>13. PICK r : r = [r0 EXCEPT !.at = "stored"]  OBVIOUS
  <1>14. build' = [build EXCEPT ![b] = r] /\ UNCHANGED <<disk, manifest>>  BY <1>1, <1>13 DEF store, Go
  <1>15. r \in BuildRec /\ r.at = "stored" /\ r.key = r0.key  BY <1>13, <1>2 DEF BuildRec, Places
  <1>16. BuildSound(r, disk[b], manifest)  BY <1>15, <1>2 DEF BuildSound
  <1>17. \A c \in warm : WarmSound(disk[c], manifest, objects')
    <2>1. \A c \in warm : WarmSound(disk[c], manifest, objects)  BY DEF CacheInv
    <2> QED BY <2>1, <1>12, WarmMoves
  <1>18. warm' = warm \/ (warm' = warm \cup {b} /\ manifest[k] = NeedOf(disk[b]))
    BY <1>1, <1>4 DEF store
  <1>19. manifest[k] = NeedOf(disk[b]) => WarmSound(disk[b], manifest, objects')
    BY <1>3, <1>4, <1>5, <1>11 DEF WarmSound
  <1>20. warm' \subseteq Builds /\ \A c \in warm' : WarmSound(disk[c], manifest, objects')
    BY <1>7, <1>17, <1>18, <1>19
  <1> QED BY <1>11, <1>14, <1>15, <1>16, <1>20, GoesOn
LEMMA TrimKeeps == ASSUME NEW H, NEW serial, HeadersFit(H, serial), CacheInv(H, serial), NEW b \in Builds, trim(b)
    PROVE CacheInv(H, serial)'
  <1>1. build' = [build EXCEPT ![b] = IdleBuild] /\ UNCHANGED <<disk, manifest>>  BY DEF trim
  <1>2. IdleBuild \in BuildRec /\ IdleBuild.at = "idle" /\ BuildSound(IdleBuild, disk[b], manifest)  BY IdleIs, IdleSound
  <1>3. objects \in Seq(Stored) /\ warm \subseteq Builds  BY DEF CacheInv
  <1>4. objects' \in Seq(Stored)
    <2>1. PICK n, over : n = Len(objects) /\ over = IF n > Budget THEN n - Budget ELSE 0  OBVIOUS
    <2>2. n \in Nat /\ Budget \in Nat \ {0}  BY <2>1, <1>3, CacheAssumption
    <2>3. over \in Nat  BY <2>1, <2>2
    <2>4. objects' = SubSeq(objects, over + 1, n)  BY <2>1 DEF trim
    <2>5. over + 1 \in 1..n + 1 /\ \A i \in (over + 1)..n : i \in 1..n  BY <2>1, <2>2, <2>3
    <2> QED BY <2>1, <2>2, <2>3, <2>4, <2>5, <1>3, SubSeqProperties
  <1>5. warm' \subseteq warm /\ \A c \in warm' : \E i \in DOMAIN objects' : objects'[i].key = disk[c]["c"] /\ objects'[i].obj = Object(c)
    BY DEF trim
  <1>6. ASSUME NEW c \in warm' PROVE WarmSound(disk[c], manifest, objects')
    <2>1. PICK i \in DOMAIN objects' : objects'[i].key = disk[c]["c"] /\ objects'[i].obj = Object(c)  BY <1>5
    <2>2. PICK x : x = objects'[i]  OBVIOUS
    <2>3. x \in Stored  BY <2>1, <2>2, <1>4
    <2>4. x = [key |-> x.key, digest |-> x.obj, obj |-> x.obj]  BY <2>3, StoredIs
    <2>5. Object(c) = ObjOf(disk[c])  BY OfDirectory
    <2>6. WarmSound(disk[c], manifest, objects)  BY <1>5 DEF CacheInv
    <2> QED BY <2>1, <2>2, <2>4, <2>5, <2>6 DEF WarmSound
  <1>7. warm' \subseteq Builds /\ \A c \in warm' : WarmSound(disk[c], manifest, objects')  BY <1>3, <1>5, <1>6
  <1> QED BY <1>1, <1>2, <1>4, <1>7, GoesOn
LEMMA KillKeeps == ASSUME NEW H, NEW serial, HeadersFit(H, serial), CacheInv(H, serial), NEW b \in Builds, Kill(b)
    PROVE CacheInv(H, serial)'
  <1>1. build' = [build EXCEPT ![b] = IdleBuild] /\ UNCHANGED <<disk, manifest, objects, warm>>  BY DEF Kill
  <1>2. IdleBuild \in BuildRec /\ IdleBuild.at = "idle" /\ BuildSound(IdleBuild, disk[b], manifest)  BY IdleIs, IdleSound
  <1>3. objects' \in Seq(Stored) /\ warm' \subseteq Builds /\ \A c \in warm' : WarmSound(disk[c], manifest, objects')  BY <1>1, SameWarm
  <1>4. UNCHANGED <<disk, manifest>>  BY <1>1
  <1> QED BY <1>1, <1>2, <1>3, <1>4, GoesOn
LEMMA EditKeeps == ASSUME NEW H, NEW serial, HeadersFit(H, serial), CacheInv(H, serial), NEW b \in Builds, NEW f \in CacheFiles, NEW v \in Nat,
           f = "c" => v \in Sources, f = "h" => v \in H, Edit(b, f, v)
    PROVE CacheInv(H, serial)'
  <1>1. build[b].at = "idle" /\ disk' = [disk EXCEPT ![b][f] = v] /\ warm' = warm \ {b} /\ UNCHANGED <<manifest, objects, build>>
    BY DEF Edit, At
  <1>2. disk \in [Builds -> Contents] /\ disk[b] \in Contents  BY DEF CacheInv
  <1>3. PICK e : e = [disk[b] EXCEPT ![f] = v]  OBVIOUS
  <1>4. e \in Contents /\ e[f] = v /\ \A g \in CacheFiles : g # f => e[g] = disk[b][g]  BY <1>2, <1>3 DEF Contents
  <1>5. disk' \in [Builds -> Contents] /\ disk'[b] = e /\ \A c \in Builds : c # b => disk'[c] = disk[c]
    <2>1. disk' = [disk EXCEPT ![b] = e]  BY <1>1, <1>2, <1>3
    <2> QED BY <2>1, <1>2, <1>4
  <1>6. \A c \in Builds : disk'[c]["c"] \in Sources /\ disk'[c]["h"] \in H
    <2>1. \A c \in Builds : disk[c]["c"] \in Sources /\ disk[c]["h"] \in H  BY DEF CacheInv
    <2>2. e["c"] \in Sources /\ e["h"] \in H  BY <2>1, <1>4 DEF CacheFiles
    <2> QED BY <2>1, <2>2, <1>5
  <1>7. \A c \in Builds : BuildSound(build[c], disk'[c], manifest)
    <2>1. \A c \in Builds : BuildSound(build[c], disk[c], manifest)  BY DEF CacheInv
    <2>2. BuildSound(build[b], disk'[b], manifest)  BY <1>1, IdleSound
    <2> QED BY <2>1, <2>2, <1>5
  <1>8. warm' \subseteq Builds /\ \A c \in warm' : WarmSound(disk'[c], manifest, objects)
    <2>1. warm \subseteq Builds /\ \A c \in warm : WarmSound(disk[c], manifest, objects)  BY DEF CacheInv
    <2> QED BY <2>1, <1>1, <1>5
  <1> QED BY <1>1, <1>5, <1>6, <1>7, <1>8 DEF CacheInv
\* Two builds past the compiler with the same key list the same files.
LEMMA CacheWriteKeeps == ASSUME NEW H, NEW serial, HeadersFit(H, serial), CacheInv(H, serial), NEW b \in Builds, atomic_write(b),
           serial => \A c \in Builds \ {b} : At(c, "idle")
    PROVE CacheInv(H, serial)'
  <1>1. PICK r0 : r0 = build[b]  OBVIOUS
  <1>2. /\ r0 \in BuildRec /\ BuildSound(r0, disk[b], manifest) /\ disk[b] \in Contents /\ NeedOf(disk[b]) \subseteq CacheFiles
        /\ disk[b]["c"] \in Sources /\ disk[b]["h"] \in H /\ {"c", "h"} \subseteq NeedOf(disk[b]) /\ r0.at = "manifest"
    BY <1>1, NeedsHere DEF atomic_write, At
  <1>3. PICK k, n : k = r0.key /\ n = r0.deps  OBVIOUS
  <1>4. k \in Sources /\ k = disk[b]["c"] /\ n = NeedOf(disk[b]) /\ CompOf(disk[b]) /\ r0.obj = ObjOf(disk[b])  BY <1>2, <1>3 DEF BuildSound
  <1>5. /\ manifest' = [manifest EXCEPT ![k] = n] /\ UNCHANGED <<disk, objects>>
        /\ warm' = {c \in warm : k # disk[c]["c"] \/ manifest[k] = n}
    BY <1>1, <1>3 DEF atomic_write
  <1>6. /\ manifest \in [Sources -> SUBSET CacheFiles] /\ build \in [Builds -> BuildRec] /\ warm \subseteq Builds
        /\ \A c \in Builds : BuildSound(build[c], disk[c], manifest)
        /\ \A c \in warm : WarmSound(disk[c], manifest, objects)
    BY DEF CacheInv
  <1>7. PICK m : m = manifest'  OBVIOUS
  <1>8. m \in [Sources -> SUBSET CacheFiles] /\ m[k] = n /\ \A j \in Sources : j # k => m[j] = manifest[j]
    BY <1>2, <1>4, <1>5, <1>6, <1>7
  <1>9. PICK r : r = [r0 EXCEPT !.at = "digest"]  OBVIOUS
  <1>10. build' = [build EXCEPT ![b] = r]  BY <1>1, <1>9 DEF atomic_write, Go
  <1>11. r \in BuildRec /\ r.at = "digest" /\ r.key = k /\ r.deps = n /\ r.obj = r0.obj  BY <1>2, <1>3, <1>9 DEF BuildRec, Places
  <1>12. build' \in [Builds -> BuildRec] /\ build'[b] = r /\ \A c \in Builds : c # b => build'[c] = build[c]  BY <1>6, <1>10, <1>11
  <1>13. BuildSound(r, disk[b], m)  BY <1>4, <1>8, <1>11 DEF BuildSound
  <1>14. ASSUME NEW c \in Builds, c # b PROVE BuildSound(build[c], disk[c], m)
    <2>1. PICK s : s = build[c]  OBVIOUS
    <2>2. /\ s \in BuildRec /\ BuildSound(s, disk[c], manifest) /\ {"c", "h"} \subseteq NeedOf(disk[c])
          /\ disk[c]["h"] \in H /\ disk[c]["c"] \in Sources
      BY <2>1, NeedsHere
    <2>3. CASE s.at # "digest" \/ s.key # k
      <3>1. s.at = "digest" => s.key \in Sources  BY <2>2 DEF BuildSound
      <3>2. s.at = "digest" => m[s.key] = s.deps  BY <3>1, <2>2, <2>3, <1>8 DEF BuildSound
      <3> QED BY <3>2, <2>1, <2>2 DEF BuildSound
    <2>4. CASE s.at = "digest" /\ s.key = k
      <3>1. ~serial  BY <2>1, <2>4, <1>14 DEF At
      <3>2. CompOf(disk[c]) /\ s.deps = NeedOf(disk[c])  BY <2>2, <2>4 DEF BuildSound
      <3>3. disk[b]["h"] # Missing /\ disk[c]["h"] # Missing  BY <3>2, <2>2, <1>2, <1>4 DEF CompOf
      <3>4. Includes(disk[b]["h"]) = Includes(disk[c]["h"])  BY <3>1, <3>3, <2>2, <1>2 DEF HeadersFit
      <3>5. n = s.deps  BY <3>2, <3>4, <1>4 DEF NeedOf
      <3>6. m[s.key] = s.deps  BY <3>5, <2>4, <1>8
      <3> QED BY <3>6, <2>1, <2>2 DEF BuildSound
    <2> QED BY <2>3, <2>4
  <1>15. \A c \in Builds : BuildSound(build'[c], disk[c], m)  BY <1>12, <1>13, <1>14
  <1>16. ASSUME NEW c \in warm' PROVE WarmSound(disk[c], m, objects)
    <2>1. c \in warm /\ (k # disk[c]["c"] \/ manifest[k] = n)  BY <1>5
    <2>2. WarmSound(disk[c], manifest, objects) /\ c \in Builds  BY <2>1, <1>6
    <2>3. disk[c]["c"] \in Sources  BY <2>2, NeedsHere
    <2>4. m[disk[c]["c"]] = manifest[disk[c]["c"]]  BY <2>1, <2>3, <1>8
    <2> QED BY <2>2, <2>4 DEF WarmSound
  <1>17. warm' \subseteq Builds  BY <1>5, <1>6
  <1>18. serial => \A x, y \in Builds : x = y \/ build'[x].at = "idle" \/ build'[y].at = "idle"
    BY <1>12 DEF At
  <1> QED BY <1>5, <1>7, <1>8, <1>12, <1>15, <1>16, <1>17, <1>18 DEF CacheInv

-----------------------------------------------------------------------------
LEMMA CacheStarts == ASSUME NEW H, NEW serial, HeadersFit(H, serial), CacheInit PROVE CacheInv(H, serial)
  <1>1. disk \in [Builds -> Contents] /\ \A b \in Builds : disk[b]["c"] \in Sources /\ disk[b]["h"] \in H
    BY DEF CacheInit, Contents, CacheFiles, Sources, HeadersFit
  <1>2. manifest \in [Sources -> SUBSET CacheFiles]  BY DEF CacheInit
  <1>3. objects \in Seq(Stored)  BY DEF CacheInit
  <1>4. build \in [Builds -> BuildRec] /\ \A b \in Builds : build[b] = IdleBuild  BY IdleIs DEF CacheInit
  <1>5. \A b \in Builds : BuildSound(build[b], disk[b], manifest)  BY <1>4, IdleIs, IdleSound
  <1>6. \A b \in Builds : build[b].at = "idle"  BY <1>4, IdleIs
  <1>7. warm = {}  BY DEF CacheInit
  <1> QED BY <1>1, <1>2, <1>3, <1>4, <1>5, <1>6, <1>7 DEF CacheInv
LEMMA CacheStep == ASSUME NEW S, NEW H, NEW serial, S \subseteq Sources, HeadersFit(H, serial), CacheInv(H, serial), CacheNext(S, H, serial)
    PROVE CacheInv(H, serial)'
  <1>1. PICK b \in Builds :
            \/ BuildStep(b) /\ (serial => \A c \in Builds \ {b} : At(c, "idle"))
            \/ \E v \in S : Edit(b, "c", v)
            \/ \E v \in H : Edit(b, "h", v)
            \/ \E v \in {Missing, 1, 2} : Edit(b, "g", v)
    BY DEF CacheNext
  <1>2. CASE BuildStep(b) /\ (serial => \A c \in Builds \ {b} : At(c, "idle"))
    <2>1. CASE begin(b)  BY <2>1, <1>2, BeginKeeps
    <2>2. CASE lookup_digest(b)  BY <2>2, <1>2, LookupDigestKeeps
    <2>3. CASE lookup(b)  BY <2>3, <1>2, LookupKeeps
    <2>4. CASE compile(b)  BY <2>4, <1>2, CompileKeeps
    <2>5. CASE atomic_write(b)  BY <2>5, <1>2, CacheWriteKeeps
    <2>6. CASE store_digest(b)  BY <2>6, <1>2, StoreDigestKeeps
    <2>7. CASE store(b)  BY <2>7, <1>2, StoreKeeps
    <2>8. CASE trim(b)  BY <2>8, TrimKeeps
    <2>9. CASE Kill(b)  BY <2>9, KillKeeps
    <2> QED BY <2>1, <2>2, <2>3, <2>4, <2>5, <2>6, <2>7, <2>8, <2>9, <1>2 DEF BuildStep
  <1>3. ASSUME NEW v \in S, Edit(b, "c", v) PROVE CacheInv(H, serial)'
    <2>1. "c" \in CacheFiles /\ v \in Nat /\ v \in Sources  BY DEF CacheFiles, Sources
    <2> QED BY <2>1, <1>3, EditKeeps
  <1>4. ASSUME NEW v \in H, Edit(b, "h", v) PROVE CacheInv(H, serial)'
    <2>1. "h" \in CacheFiles /\ v \in Nat  BY DEF CacheFiles, HeadersFit
    <2> QED BY <2>1, <1>4, EditKeeps
  <1>5. ASSUME NEW v \in {Missing, 1, 2}, Edit(b, "g", v) PROVE CacheInv(H, serial)'
    <2>1. "g" \in CacheFiles /\ v \in Nat  BY DEF CacheFiles, Missing
    <2> QED BY <2>1, <1>5, EditKeeps
  <1> QED BY <1>1, <1>2, <1>3, <1>4, <1>5
LEMMA CacheAnswers == ASSUME NEW H, NEW serial, HeadersFit(H, serial), CacheInv(H, serial) PROVE CacheSound
  <1>1. NeverWrongBytes
    <2>1. ASSUME NEW b \in Builds, At(b, "reused") PROVE Compiles(b) /\ build[b].obj = Object(b)
      <3>1. CompOf(disk[b]) /\ build[b].obj = ObjOf(disk[b])  BY <2>1 DEF CacheInv, BuildSound, At
      <3> QED BY <3>1, OfDirectory
    <2> QED BY <2>1 DEF NeverWrongBytes
  <1>2. WarmBuildHits
    <2>1. ASSUME NEW b \in warm PROVE Found(disk[b]["c"], dep_digest(b, disk[b]["c"])) # {}
      <3>1. WarmSound(disk[b], manifest, objects) /\ b \in Builds  BY DEF CacheInv
      <3>2. PICK k : k = disk[b]["c"]  OBVIOUS
      <3>3. k \in Sources  BY <3>1, <3>2, NeedsHere
      <3>4. manifest[k] = NeedOf(disk[b]) /\ CompOf(disk[b])  BY <3>1, <3>2 DEF WarmSound
      <3>5. dep_digest(b, k) = ObjOf(disk[b])  BY <3>1, <3>3, <3>4, DigestIs
      <3>6. PICK i \in DOMAIN objects : objects[i] = [key |-> k, digest |-> ObjOf(disk[b]), obj |-> ObjOf(disk[b])]
        BY <3>1, <3>2 DEF WarmSound
      <3>7. i \in Found(k, ObjOf(disk[b]))  BY <3>6 DEF Found
      <3> QED BY <3>2, <3>5, <3>7
    <2> QED BY <2>1 DEF WarmBuildHits
  <1> QED BY <1>1, <1>2 DEF CacheSound
LEMMA CacheStutters == ASSUME NEW H, NEW serial, CacheInv(H, serial), UNCHANGED cacheVars PROVE CacheInv(H, serial)'
  BY DEF cacheVars, CacheInv

\* aret_obj_cache never reuses an object the compiler would not have produced, and finds again
\* what a build stored, for any number of builds, sources, edits, kills and evictions: when builds
\* overlap the headers must include the same files, when they do not any headers will do.
THEOREM CacheIsSound == ASSUME NEW CONSTANT S, NEW CONSTANT H, NEW CONSTANT serial, S \subseteq Sources, HeadersFit(H, serial)
    PROVE CacheSpec(S, H, serial) => []CacheSound
  <1>1. CacheInit => CacheInv(H, serial)  BY CacheStarts
  <1>2. CacheInv(H, serial) /\ [CacheNext(S, H, serial)]_cacheVars => CacheInv(H, serial)'  BY CacheStep, CacheStutters
  <1>3. CacheInv(H, serial) => CacheSound  BY CacheAnswers
  <1> QED BY <1>1, <1>2, <1>3, PTL DEF CacheSpec
=============================================================================
