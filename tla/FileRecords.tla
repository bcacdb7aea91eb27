------------------------------ MODULE FileRecords ------------------------------
(***************************************************************************)
(* What the file shims compute: path translation, the calls that ask for a    *)
(* buffer, INI files; then the records they fill and compressed files; last   *)
(* the environment, resources and version trees, calendar dates and MulDiv.   *)
(***************************************************************************)
EXTENDS CTexts, FiniteSets, FiniteSetsExt, Functions

CONSTANT IniSlack      \* the 64 of ini_rewrite
ASSUME FileTextAssumption == IniSlack \in Nat

-----------------------------------------------------------------------------
(* Paths.  The prefix and a drive_x are units of their own.                                  *)
Base == 1000
DriveDir == 2000
Unix(p) == [i \in DOMAIN p |-> IF p[i] = 92 THEN 47 ELSE p[i]]
\* Knows the drive by its letter alone.
TranslateAnyDrive(p, cap) ==
    LET out == IF p # <<>> /\ At(p, 2) = 58 THEN <<Base, DriveDir + lower(p[1])>> \o Unix(After(p, 2))
               ELSE IF At(p, 1) = 92 THEN <<Base>> \o Unix(p) ELSE Unix(p)
    IN  First(out, cap - 1)
translate_path(p, cap) ==
    LET out == IF p # <<>> /\ At(p, 2) = 58 /\ At(p, 3) \in {47, 92} THEN <<Base, DriveDir + lower(p[1])>> \o Unix(After(p, 2))
               ELSE IF At(p, 1) = 92 THEN <<Base>> \o Unix(p) ELSE Unix(p)
    IN  First(out, cap - 1)
\* \??\ and \DosDevices\ are one marker here.
NtMark == 1001
u32_nt_file_path(name) == IF At(name, 1) = NtMark THEN After(name, 1) ELSE NULL
FullPath(name, cwd) == IF At(name, 1) \in {47, 92} \/ (name # <<>> /\ At(name, 2) = 58) THEN name ELSE cwd \o <<47>> \o name
TooSmall(n) == [ret |-> n + 1, text |-> NULL, part |-> 0]
\* Forgets the room of the terminator.
FullPathTight(name, cwd, room) ==
    LET full == FullPath(name, cwd)
    IN  IF room < Len(full) THEN TooSmall(Len(full)) ELSE [ret |-> Len(full), text |-> full, part |-> LastOf(full, {47, 92})]
\* Resolved against the working directory cwd; the length, or the room that is missing.
GetFullPathNameW(name, cwd, room) ==
    LET full == FullPath(name, cwd)
    IN  IF room <= Len(full) THEN TooSmall(Len(full)) ELSE [ret |-> Len(full), text |-> full, part |-> LastOf(full, {47, 92})]
wfullpath(name, cwd, room) == First(IF At(name, 1) \in {47, 92} THEN name ELSE cwd \o <<47>> \o name, (IF room = 0 THEN 260 ELSE room) - 1)
Fit(t, room) == IF room > Len(t) THEN [ret |-> Len(t), text |-> t, part |-> 0] ELSE TooSmall(Len(t))
GetShortPathNameA(name, room) == Fit(name, room)
aret_temp_dir(t) == IF t # <<>> /\ t[Len(t)] = 47 THEN t ELSE Append(t, 47)
GetTempPathW(t, room) == Fit(aret_temp_dir(IF t = <<>> THEN <<47, 116>> ELSE t), room)
wgetcwd(cwd, size) == IF size <= 0 THEN NULL ELSE First(cwd, size - 1)
lstrcpynA(src, n) == IF n <= 0 THEN NULL ELSE First(src, n - 1)

GetFullPathNameA(name, cwd, room) == GetFullPathNameW(IF name = NULL THEN <<>> ELSE name, cwd, room)
GetCurrentDirectoryA(cwd, room) == Fit(cwd, room)
GetCurrentDirectoryW(cwd, room) == Fit(cwd, room)
GetTempPathA(t, room) == Fit(aret_temp_dir(IF t = <<>> THEN <<47, 116>> ELSE t), room)
\* Answers with the length whether the text fitted or not; the wide one keeps the protocol.
fill_path(path, room) == [ret |-> Len(path), text |-> IF room > Len(path) THEN path ELSE NULL, part |-> 0]
u32_fill_pathw(path, room) == Fit(path, room)
\* No 8.3 names: the name itself, if there is such a file.
NotFound == [ret |-> 0, text |-> NULL, part |-> 0]
GetShortPathNameW(name, exists, room) == IF name = NULL \/ ~exists THEN NotFound ELSE Fit(name, room)
GetLongPathNameW(name, exists, room) == IF name = NULL \/ ~exists THEN NotFound ELSE Fit(name, room)
GetModuleFileName(path, room) == IF room > Len(path) THEN Fit(path, room) ELSE NotFound
GetVolumePathNameW(name, room) ==
    IF name = NULL \/ room <= 3 THEN NULL ELSE <<IF name # <<>> /\ At(name, 2) = 58 THEN name[1] ELSE 67, 58, 92>>
\* The directories of the list in turn; the default extension is for a name without a dot.
SearchPathW(dirs, file, ext, regular, room) ==
    LET name == IF ext # NULL /\ 46 \notin Range(file) THEN file \o ext ELSE file
        list == SelectSeq(IF dirs = NULL THEN <<<<46>>>> ELSE dirs, LAMBDA d : d # <<>>)
        S == {i \in DOMAIN list : list[i] \o <<92>> \o name \in regular}
        found == list[Min(S)] \o <<92>> \o name
    IN  IF S = {} THEN NotFound ELSE IF room <= Len(found) THEN TooSmall(Len(found)) ELSE [ret |-> Len(found), text |-> found, part |-> LastOf(found, {92})]

RoomsTried == 0..12
\* The calls that ask for a buffer keep one protocol: short of room they answer with the size that
\* suffices, whatever the room was, and with that size they succeed and answer one less.  The
\* others write their text only where it fits with its terminator.
RoomAsked ==
    asked.kind = "trans" =>
        \A call \in {[r \in RoomsTried |-> GetFullPathNameW(asked.a, <<47, 97>>, r)], [r \in RoomsTried |-> GetShortPathNameA(asked.a, r)],
                     [r \in RoomsTried |-> GetTempPathW(asked.a, r)], [r \in RoomsTried |-> GetTempPathA(asked.a, r)],
                     [r \in RoomsTried |-> GetFullPathNameA(asked.a, <<47, 97>>, r)],
                     [r \in RoomsTried |-> GetCurrentDirectoryA(asked.a, r)], [r \in RoomsTried |-> GetCurrentDirectoryW(asked.a, r)],
                     [r \in RoomsTried |-> u32_fill_pathw(asked.a, r)], [r \in RoomsTried |-> GetShortPathNameW(asked.a, TRUE, r)],
                     [r \in RoomsTried |-> GetLongPathNameW(asked.a, TRUE, r)],
                     [r \in RoomsTried |-> SearchPathW(<<<<98>>, <<>>, <<99>>>>, <<100>>, <<46, 101>>, {<<99, 92, 100, 46, 101>>, <<98, 92, 100>>}, r)]}
        : \A r \in RoomsTried :
            /\ IF r < call[0].ret THEN call[r] = call[0]
               ELSE call[r].text # NULL /\ call[r].ret = call[0].ret - 1 /\ Len(call[r].text) = call[r].ret /\ (call[r].part = 0 \/ 47 \notin Range(After(call[r].text, call[r].part)))
            /\ fill_path(asked.a, r).text = GetModuleFileName(asked.a, r).text
            /\ (GetModuleFileName(asked.a, r).ret = 0) = (asked.a = <<>> \/ r <= Len(asked.a))
            /\ (GetVolumePathNameW(asked.a, r) = NULL) = (r <= 3)
            /\ wgetcwd(asked.a, r) = lstrcpynA(asked.a, r) /\ (r > 0 => Len(wgetcwd(asked.a, r)) < r /\ Len(wfullpath(asked.a, <<47, 97>>, r)) < r)
\* The program's drives and roots stay under the prefix and a Unix path is left alone, no
\* separator of DOS is left, and the two spellings of a separator name one file.
Sandboxed ==
    asked.kind = "trans" =>
        LET t == translate_path(asked.a, 64)
        IN  /\ (t # <<>> /\ t[1] = Base) = (At(asked.a, 1) = 92 \/ (Len(asked.a) > 2 /\ asked.a[2] = 58 /\ asked.a[3] \in {47, 92}))
            /\ \A i \in DOMAIN t : t[i] # 92
            /\ At(asked.a, 1) # 92 => translate_path(Unix(asked.a), 64) = t
            /\ translate_path(t, 64) = t
            /\ u32_nt_file_path(<<NtMark>> \o asked.a) = asked.a

-----------------------------------------------------------------------------
(* INI files: a sequence of lines.                                             *)
Sec(s) == [t |-> "sec", s |-> s, k |-> <<>>, v |-> <<>>]
Pair(k, v) == [t |-> "pair", s |-> <<>>, k |-> k, v |-> v]
ini_ieq(a, b) == Lower(a) = Lower(b)
ini_clean_value(v, cap) ==
    LET a == After(v, Span(v, Blanks))
        n == LET r[i \in 0..Len(a)] == IF i > 0 /\ a[i] \in Blanks \cup {13} THEN r[i - 1] ELSE i IN r[Len(a)]
        b == First(a, n)
        c == IF Len(b) >= 2 /\ b[1] = 34 /\ b[Len(b)] = 34 THEN SubSeq(b, 2, Len(b) - 1) ELSE b
    IN  First(c, cap - 1)
\* The value of the first such key in a section of that name, or NULL.
ini_get(data, s, k) ==
    LET get[i \in 1..(Len(data) + 1), in \in BOOLEAN] ==
            IF i > Len(data) THEN NULL
            ELSE IF data[i].t = "sec" THEN get[i + 1, ini_ieq(data[i].s, s)]
            ELSE IF in /\ ini_ieq(data[i].k, k) THEN ini_clean_value(data[i].v, 1024)
            ELSE get[i + 1, in]
    IN  get[1, FALSE]
\* A key NULL deletes the section, a value NULL the key.
Change(s, k, v) == [s |-> s, k |-> k, v |-> v]
\* Appends the key without a look for its section.
RewriteAppends(data, c) ==
    LET kept == SelectSeq(data, LAMBDA l : ~(l.t = "pair" /\ c.k # NULL /\ ini_ieq(l.k, c.k)))
    IN  IF c.k = NULL \/ c.v = NULL THEN kept ELSE kept \o <<Pair(c.k, c.v)>>
ini_rewrite(data, c) ==
    LET step[i \in 0..Len(data)] ==
            IF i = 0 THEN [out |-> <<>>, in |-> FALSE, done |-> FALSE, seen |-> FALSE]
            ELSE LET p == step[i - 1]
                     l == data[i]
                     match == ini_ieq(l.s, c.s)
                     flush == p.in /\ c.k # NULL /\ c.v # NULL /\ ~p.done
                 IN  IF l.t = "sec"
                     THEN [out |-> p.out \o (IF flush THEN <<Pair(c.k, c.v)>> ELSE <<>>)
                                         \o (IF match /\ c.k = NULL THEN <<>> ELSE <<l>>),
                           in |-> match, done |-> p.done \/ flush, seen |-> p.seen \/ match]
                     ELSE IF p.in /\ c.k = NULL THEN p
                     ELSE IF p.in /\ ini_ieq(l.k, c.k)
                     THEN [p EXCEPT !.out = IF c.v = NULL THEN @ ELSE Append(@, Pair(c.k, c.v)), !.done = TRUE]
                     ELSE [p EXCEPT !.out = Append(@, l)]
        e == step[Len(data)]
    IN  IF c.k = NULL \/ c.v = NULL \/ e.done THEN e.out
        ELSE e.out \o (IF e.seen THEN <<>> ELSE <<Sec(c.s)>>) \o <<Pair(c.k, c.v)>>
GetPrivateProfileStringA(data, s, k, def, size) ==
    LET v == IF s = NULL \/ k = NULL THEN NULL ELSE ini_get(data, s, k) IN First(IF v = NULL THEN def ELSE v, size - 1)
WritePrivateProfileStringA(data, s, k, v) == IF s = NULL THEN data ELSE ini_rewrite(data, Change(s, k, v))
strtol10(v) ==
    LET neg == At(v, 1) = 45
        u == IF neg THEN After(v, 1) ELSE v
        n[i \in 0..Len(u)] == IF i = 0 THEN 0 ELSE n[i - 1] * 10 + u[i] - 48
    IN  IF neg THEN -n[Span(u, 48..57)] ELSE n[Span(u, 48..57)]
GetPrivateProfileIntA(data, s, k, def) == LET v == IF s = NULL \/ k = NULL THEN NULL ELSE ini_get(data, s, k) IN IF v = NULL THEN def ELSE strtol10(v)
\* The same of win.ini, which is whatever file of that name is in the directory ...
GetProfileStringA(data, s, k, def, size) == GetPrivateProfileStringA(data, s, k, def, size)
GetProfileIntA(data, s, k, def) == GetPrivateProfileIntA(data, s, k, def)
\* ... though to the wide call there is none.
GetProfileIntW(s, def) == IF s = NULL THEN 0 ELSE def
IniBytes(data) == LET f[i \in 0..Len(data)] ==
                       IF i = 0 THEN 0
                       ELSE f[i - 1] + IF data[i].t = "sec" THEN Len(data[i].s) + 3 ELSE Len(data[i].k) + Len(data[i].v) + 2
               IN  f[Len(data)]
\* What is written is read back as the reader cleans it, what is deleted is gone, every other
\* key of every section keeps its value, and a key that occurs once fits in the buffer of ini_rewrite.
IniReadsBack ==
    asked.kind = "ini" =>
        LET c == asked.c
            out == WritePrivateProfileStringA(asked.data, c.s, c.k, c.v)
            len(x) == IF x = NULL THEN 0 ELSE Len(x)
            hits == {i \in DOMAIN asked.data : asked.data[i].t = "pair" /\ c.k # NULL /\ ini_ieq(asked.data[i].k, c.k)}
            heads == {i \in DOMAIN asked.data : asked.data[i].t = "sec" /\ ini_ieq(asked.data[i].s, c.s)}
        IN  /\ c.k # NULL => ini_get(out, c.s, c.k) = IF c.v = NULL THEN NULL ELSE ini_clean_value(c.v, 1024)
            /\ \A s \in asked.secs, k \in asked.keys :
                   (ini_ieq(s, c.s) /\ (c.k = NULL \/ (c.k # NULL /\ ini_ieq(k, c.k))))
                   \/ ini_get(out, s, k) = ini_get(asked.data, s, k)
            /\ c.k = NULL => \A k \in asked.keys : ini_get(out, c.s, k) = NULL
            /\ (Cardinality(hits) <= 1 /\ Cardinality(heads) <= 1) => IniBytes(out) <= IniBytes(asked.data) + len(c.s) + len(c.k) + len(c.v) + IniSlack
            /\ GetPrivateProfileStringA(out, c.s, NULL, <<1>>, 9) = <<1>>
            /\ \A s \in asked.secs, k \in asked.keys :      \* one default for the text and the number
                   (GetProfileIntA(out, s, k, 5) = 5) = (GetProfileStringA(out, s, k, <<1>>, 9) = <<1>>)

-----------------------------------------------------------------------------
(***************************************************************************)
(* The records the file shims fill from the host's stat, and the expansion of *)
(* compressed files.  A host file is                                          *)
(*   [dir, chr, w, x, size, nlink, ino, blocks, atime, mtime, ctime]          *)
(* or NULL; attributes are sets of flags.  A byte counts to ByteBase, so that *)
(* a 32-bit word is ByteBase^4 and its overflow is in reach.                  *)
(***************************************************************************)

CONSTANTS ByteBase,     \* 256
          RingSize,     \* 4096
          RingStart,    \* RingSize - 16
          TempNames,    \* 65536
          Epoch, Ticks  \* seconds from 1601 to 1970; FILETIME ticks per second

ASSUME FileRecordsAssumption ==
    /\ {ByteBase, RingSize, RingStart, TempNames, Epoch, Ticks} \subseteq Nat \ {0}
    /\ RingStart < RingSize

WordSize == ByteBase ^ 4
Half(n) == n % ByteBase ^ 2
Low(n) == n % WordSize
High(n) == (n \div WordSize) % WordSize

-----------------------------------------------------------------------------
(* Attributes and sizes.                                                       *)
Marks(st) ==
    LET a == (IF st.dir THEN {"DIRECTORY"} ELSE {}) \cup (IF st.w THEN {} ELSE {"READONLY"})
    IN  IF a = {} THEN {"NORMAL"} ELSE a
aret_attr_named(st) == IF st = NULL THEN NULL ELSE Marks(st)
\* The host's answer to a name: missing, or below something that is no directory.
LastError(notdir) == IF notdir THEN 3 ELSE 2
aret_path_probe(name, st, notdir, wantDir) ==
    IF name = NULL THEN [ret |-> 0, err |-> NULL]
    ELSE IF name = <<>> THEN [ret |-> 0, err |-> 3]
    ELSE IF Range(name) \cap {42, 63} # {} THEN [ret |-> 0, err |-> 123]
    ELSE IF st = NULL THEN [ret |-> 0, err |-> LastError(notdir)]
    ELSE [ret |-> IF ~wantDir THEN 1 ELSE IF "DIRECTORY" \in Marks(st) THEN 16 ELSE 0, err |-> 0]
PathFileExists(name, st, notdir) == aret_path_probe(name, st, notdir, FALSE)
PathIsDirectory(name, st, notdir) == aret_path_probe(name, st, notdir, TRUE)
\* Only the owner's bit is given back; the group's and the others' are taken with it.
aret_setattr_named(st, attrs) == [st EXCEPT !.w = "READONLY" \notin attrs]
aret_ts_to_ft(sec, part) == LET v == (sec + Epoch) * Ticks + part IN [lo |-> Low(v), hi |-> High(v)]
Ticked(ft) == ft.hi * WordSize + ft.lo
aret_attr_ex_named(st) ==
    [attrs |-> Marks(st), ctime |-> aret_ts_to_ft(st.ctime, 0), atime |-> aret_ts_to_ft(st.atime, 0),
     wtime |-> aret_ts_to_ft(st.mtime, 0), hi |-> High(st.size), lo |-> Low(st.size)]
GetFileInformationByHandle(st) ==
    [attrs |-> Marks(st), ctime |-> aret_ts_to_ft(st.ctime, 0), atime |-> aret_ts_to_ft(st.atime, 0),
     wtime |-> aret_ts_to_ft(st.mtime, 0), hi |-> High(st.size), lo |-> Low(st.size),
     links |-> st.nlink, ihi |-> High(st.ino), ilo |-> Low(st.ino)]
\* One word for a size that may need two.
FindOneWord(st) == [attrs |-> IF st.dir THEN {"DIRECTORY"} ELSE {"NORMAL"}, hi |-> 0, lo |-> Low(st.size)]
aret_fill_find(st) == [attrs |-> IF st.dir THEN {"DIRECTORY"} ELSE {"NORMAL"}, hi |-> High(st.size), lo |-> Low(st.size)]
aret_fill_finddata(st) ==
    [attrs |-> IF st.dir THEN {"DIRECTORY"} ELSE {"ARCHIVE"} \cup (IF st.w THEN {} ELSE {"READONLY"}),
     size |-> IF st.dir THEN 0 ELSE Low(st.size)]
NtStandardInformation(st) == [alloc |-> st.blocks, eof |-> st.size, links |-> st.nlink, dir |-> st.dir]
NtBothDirectory(st) == [eof |-> IF st.dir THEN 0 ELSE st.size, attrs |-> {IF st.dir THEN "DIRECTORY" ELSE "ARCHIVE"}]
GetFileSize(st) == [lo |-> Low(st.size), hi |-> High(st.size)]
GetFileSizeEx(st) == st.size
filelengthi64(st) == IF st = NULL THEN -1 ELSE st.size
filelength(st) == IF st = NULL THEN -1 ELSE Low(st.size)
\* The type and the permissions of owner, group and others, mirrored.
aret_msvcrt_mode(st) ==
    [type |-> IF st.dir THEN 4 ELSE IF st.chr THEN 2 ELSE 8, w |-> st.w, x |-> st.dir \/ st.x]
ModeBits(m) == Half(m.type + (IF m.w THEN 1 ELSE 0) * ByteBase + (IF m.x THEN 2 ELSE 0) * ByteBase)

\* Ten ways to ask about a file give one answer: a directory is one to all of them, its size is
\* whole in those that have room for it and its low word in the others, writable is what the last
\* SetFileAttributes said wherever it is reported, and no probe finds what a wildcard names.
OneAnswer ==
    asked.kind = "stat" =>
        LET st == asked.st
            two(r) == r.hi * WordSize + r.lo
        IN  /\ \A r \in {aret_attr_named(st), aret_attr_ex_named(st).attrs, GetFileInformationByHandle(st).attrs, aret_fill_find(st).attrs,
                         aret_fill_finddata(st).attrs, NtBothDirectory(st).attrs} : ("DIRECTORY" \in r) = st.dir
            /\ (aret_msvcrt_mode(st).type = 4) = NtStandardInformation(st).dir
            /\ (PathIsDirectory(<<97>>, st, FALSE).ret # 0) = st.dir /\ PathFileExists(<<97>>, st, FALSE).ret = 1
            /\ PathFileExists(<<97, 42>>, st, FALSE).ret = 0
            /\ {two(aret_attr_ex_named(st)), two(GetFileInformationByHandle(st)), two(aret_fill_find(st)), two(GetFileSize(st))} = {st.size}
            /\ {GetFileSizeEx(st), filelengthi64(st), NtStandardInformation(st).eof} = {st.size} /\ filelength(st) = Low(st.size)
            /\ ~st.dir => aret_fill_finddata(st).size = Low(st.size) /\ NtBothDirectory(st).eof = st.size
            /\ \A ro \in BOOLEAN :
                   LET s == aret_setattr_named(st, IF ro THEN {"READONLY"} ELSE {"NORMAL"})
                   IN  /\ ("READONLY" \in aret_attr_named(s)) = ro
                       /\ ("READONLY" \in GetFileInformationByHandle(s).attrs) = ro
                       /\ aret_msvcrt_mode(s).w = ~ro
                       /\ ~st.dir => ("READONLY" \in aret_fill_finddata(s).attrs) = ro
            /\ \A r \in {aret_attr_ex_named(st), GetFileInformationByHandle(st)} :
                   Ticked(r.ctime) = (st.ctime + Epoch) * Ticks /\ Ticked(r.wtime) = (st.mtime + Epoch) * Ticks

-----------------------------------------------------------------------------
(* struct _stat and its relatives, written byte by byte.                       *)
PutUnits(b, o, w, v) == [i \in DOMAIN b |-> IF i \in o..(o + w - 1) THEN (v \div ByteBase ^ (i - o)) % ByteBase ELSE b[i]]
Fields(st, wide) == <<<<st.ino, 0, 4>>, <<st.ino, 4, 2>>, <<ModeBits(aret_msvcrt_mode(st)), 6, 2>>, <<st.nlink, 8, 2>>, <<0, 16, 4>>>> \o wide
Filled(len, fields) ==
    LET b[n \in 0..Len(fields)] ==
            IF n = 0 THEN [i \in 0..(len - 1) |-> 0] ELSE PutUnits(b[n - 1], fields[n][2], fields[n][3], fields[n][1])
    IN  b[Len(fields)]
Stat32(st) == Fields(st, <<<<st.size, 20, 4>>, <<st.atime, 24, 4>>, <<st.mtime, 28, 4>>, <<st.ctime, 32, 4>>>>)
Stati64(st) == Fields(st, <<<<st.size, 24, 8>>, <<st.atime, 32, 4>>, <<st.mtime, 36, 4>>, <<st.ctime, 40, 4>>>>)
\* Keeps the offsets of the 32-bit times.
Stat64Narrow(st) == Fields(st, <<<<st.size, 24, 8>>, <<st.atime, 32, 8>>, <<st.mtime, 36, 8>>, <<st.ctime, 40, 8>>>>)
Stat64(st) == Fields(st, <<<<st.size, 24, 8>>, <<st.atime, 32, 8>>, <<st.mtime, 40, 8>>, <<st.ctime, 48, 8>>>>)
aret_fill_stat32(st) == Filled(36, Stat32(st))
aret_fill_stati64(st) == Filled(48, Stati64(st))
aret_fill_stat64(st) == Filled(56, Stat64(st))
\* The calls: by name or by descriptor, narrow or wide.
StatCall(buf, st, rec) == IF ~buf \/ st = NULL THEN [ret |-> -1, rec |-> NULL] ELSE [ret |-> 0, rec |-> rec]
fstat(buf, st) == StatCall(buf, st, aret_fill_stat32(st))
stat(buf, st) == StatCall(buf, st, aret_fill_stat32(st))
stati64(buf, st) == StatCall(buf, st, aret_fill_stati64(st))
fstati64(buf, st) == StatCall(buf, st, aret_fill_stati64(st))
wstati64(buf, st) == StatCall(buf, st, aret_fill_stati64(st))
wstat(buf, st) == StatCall(buf, st, aret_fill_stat32(st))
wstat32(buf, st) == StatCall(buf, st, aret_fill_stat32(st))
fstat64(buf, st) == StatCall(buf, st, aret_fill_stat64(st))
stat64(buf, st) == StatCall(buf, st, aret_fill_stat64(st))
wstat64(buf, st) == StatCall(buf, st, aret_fill_stat64(st))
\* Every field of every layout is aligned to its width, inside its record, and still holds what
\* was put there, cut to its width, once the whole record is filled.
RecordsReadBack ==
    asked.kind = "stat" =>
        LET back(rec, f) == LET v[i \in 0..f[3]] == IF i = 0 THEN 0 ELSE v[i - 1] + rec[f[2] + i - 1] * ByteBase ^ (i - 1) IN v[f[3]]
            sound(fields, rec) == \A f \in Range(fields) : /\ f[2] % f[3] = 0 /\ f[2] + f[3] - 1 \in DOMAIN rec
                                                           /\ back(rec, f) = f[1] % ByteBase ^ f[3]
        IN  /\ sound(Stat32(asked.st), stat(TRUE, asked.st).rec) /\ sound(Stati64(asked.st), wstati64(TRUE, asked.st).rec)
            /\ sound(Stat64(asked.st), fstat64(TRUE, asked.st).rec)

-----------------------------------------------------------------------------
(* File times and temporary names.                                             *)
Omit == [sec |-> 0, part |-> NULL]
\* Takes a zero for a time.
FtZeroSets(ft) == LET v == Ticked(ft) - Epoch * Ticks IN [sec |-> v \div Ticks, part |-> v % Ticks]
aret_ft_to_ts(ft) ==
    LET v == Ticked(ft) - Epoch * Ticks IN IF Ticked(ft) = 0 THEN Omit ELSE [sec |-> v \div Ticks, part |-> v % Ticks]
SetFileTime(st, at, wt) ==
    LET ts(ft) == IF ft = NULL THEN Omit ELSE aret_ft_to_ts(ft)
        new(old, ft) == IF ts(ft).part = NULL THEN old ELSE ts(ft).sec
    IN  [st EXCEPT !.atime = new(@, at), !.mtime = new(@, wt)]
GetFileTime(st) == [ct |-> aret_ts_to_ft(st.ctime, 0), at |-> aret_ts_to_ft(st.atime, 0), wt |-> aret_ts_to_ft(st.mtime, 0)]
aret_wutime_impl(st, at, mt) == [st EXCEPT !.atime = at, !.mtime = mt]
Split2(v) == [lo |-> Low(v), hi |-> High(v)]
LocalFileTimeToFileTime(ft, zone) == Split2(Ticked(ft) - zone * Ticks)
FileTimeToLocalFileTime(ft, zone) == Split2(Ticked(ft) + zone * Ticks)
\* A time that is set is read back cut to the second, a zero or an absent one is left alone,
\* and there and back through the time zone is where one started.
TimesRoundTrip ==
    asked.kind = "time" =>
        LET ft == Split2(asked.t)
            got == GetFileTime(SetFileTime(asked.st, ft, NULL))
        IN  /\ Ticked(got.at) = IF asked.t = 0 THEN (asked.st.atime + Epoch) * Ticks ELSE asked.t - (asked.t % Ticks)
            /\ got.wt = GetFileTime(asked.st).wt
            /\ LocalFileTimeToFileTime(FileTimeToLocalFileTime(ft, asked.zone), asked.zone) = ft
            /\ GetFileTime(aret_wutime_impl(asked.st, 1, 2)).wt = aret_ts_to_ft(2, 0)

\* A free name, tried from the seed on; the number 0 is taken as 1.
TempWithZero(taken, seed, unique) ==
    LET u(k) == (seed + k) % TempNames
        S == {k \in 1..TempNames : u(k) \notin taken}
    IN  IF unique % TempNames # 0 THEN [u |-> unique % TempNames, made |-> {}]
        ELSE IF S = {} THEN [u |-> 0, made |-> {}] ELSE [u |-> u(Min(S)), made |-> {u(Min(S))}]
aret_make_temp_name(taken, seed, unique) ==
    LET u(k) == IF (seed + k) % TempNames = 0 THEN 1 ELSE (seed + k) % TempNames
        S == {k \in 1..TempNames : u(k) \notin taken}
    IN  IF unique % TempNames # 0 THEN [u |-> unique % TempNames, made |-> {}]
        ELSE IF S = {} THEN [u |-> 0, made |-> {}] ELSE [u |-> u(Min(S)), made |-> {u(Min(S))}]
GetTempFileName(path, out, taken, seed, unique) ==
    IF path = NULL \/ ~out THEN [u |-> 0, made |-> {}] ELSE aret_make_temp_name(taken, seed, unique)
\* A made name was free and is never the number that means failure, and making one fails only
\* when every number is taken.
TempFresh ==
    asked.kind = "temp" =>
        LET r == GetTempFileName(<<47>>, TRUE, asked.taken, asked.seed, 0)
        IN  IF (1..(TempNames - 1)) \subseteq asked.taken THEN r.u = 0 ELSE r.u \in 1..(TempNames - 1) /\ r.u \notin asked.taken /\ r.made = {r.u}

-----------------------------------------------------------------------------
(* The entries of a directory, packed and enumerated.                          *)
Align8(n) == ((n + 7) \div 8) * 8
\* Links the entries without their alignment.
PackUnaligned(lens, fixed, length, single) ==
    LET at[i \in 1..(Len(lens) + 1)] == IF i = 1 THEN 0 ELSE at[i - 1] + fixed + 2 * lens[i - 1]
        fits == {i \in DOMAIN lens : at[i] + fixed + 2 * lens[i] <= length /\ (single => i = 1)}
        n == Cardinality(fits)
    IN  IF n = 0 THEN [status |-> "OVERFLOW", next |-> <<>>, info |-> 0]
        ELSE [status |-> "SUCCESS", next |-> [i \in 1..n |-> IF i = n THEN 0 ELSE at[i + 1] - at[i]], info |-> at[n] + fixed + 2 * lens[n]]
\* The names that are left, of lengths lens, into a buffer of length bytes.
NtPackDirectory(lens, fixed, length, single) ==
    LET at[i \in 1..(Len(lens) + 1)] == IF i = 1 THEN 0 ELSE Align8(at[i - 1] + fixed + 2 * lens[i - 1])
        out == {i \in DOMAIN lens : at[i] + fixed + 2 * lens[i] > length \/ (single /\ i > 1)}
        n == IF out = {} THEN Len(lens) ELSE Min(out) - 1
    IN  IF n = 0 THEN [status |-> "OVERFLOW", next |-> <<>>, info |-> 0]
        ELSE [status |-> "SUCCESS", next |-> [i \in 1..n |-> IF i = n THEN 0 ELSE at[i + 1] - at[i]], info |-> at[n] + fixed + 2 * lens[n]]
\* Following the links from 0 visits one aligned entry per name, none overlapping the next, and
\* ends inside the bytes reported, which are inside the buffer; one more would not have fitted.
PackedChain ==
    asked.kind = "pack" =>
        LET r == NtPackDirectory(asked.lens, asked.fixed, asked.length, asked.single)
            n == Len(r.next)
            at[i \in 1..(n + 1)] == IF i = 1 THEN 0 ELSE at[i - 1] + r.next[i - 1]
            size(i) == asked.fixed + 2 * asked.lens[i]
        IN  /\ (r.status = "OVERFLOW") = (size(1) > asked.length)
            /\ \A i \in 1..n : at[i] % 8 = 0 /\ (i < n => r.next[i] >= size(i)) /\ (r.next[i] = 0) = (i = n)
            /\ n > 0 => r.info = at[n] + size(n) /\ r.info <= asked.length
            /\ (n \in 1..(Len(asked.lens) - 1) /\ ~asked.single) => at[n] + Align8(size(n)) + size(n + 1) > asked.length

\* fnmatch with * and ?, on folded texts.
aret_ci_match(pat, name) ==
    LET p == Lower(pat)
        s == Lower(name)
        m[i \in 0..Len(p), j \in 0..Len(s)] ==
            IF i = 0 THEN j = 0
            ELSE IF p[i] = 42 THEN m[i - 1, j] \/ (j > 0 /\ m[i, j - 1])
            ELSE j > 0 /\ p[i] \in {63, s[j]} /\ m[i - 1, j - 1]
    IN  m[Len(p), Len(s)]
FindStep(entries, pat, from) ==
    LET S == {i \in (from + 1)..Len(entries) : aret_ci_match(pat, entries[i])} IN IF S = {} THEN 0 ELSE Min(S)
FindOpen(path) ==
    LET s == LastOf(path, {47}) IN IF s = 0 THEN [dir |-> <<46>>, pat |-> path] ELSE [dir |-> First(path, s - 1), pat |-> After(path, s)]
\* An enumeration is the position of the entry it reported last, or a failure.
aret_find_first(entries, path) == FindStep(entries, FindOpen(path).pat, 0)
FindNextFile(entries, path, at) == FindStep(entries, FindOpen(path).pat, at)
findfirst(entries, path) == LET i == FindStep(entries, FindOpen(path).pat, 0) IN IF i = 0 THEN -1 ELSE i
\* Answers as FindNextFile does.
FindnextBool(entries, path, at) == LET i == FindStep(entries, FindOpen(path).pat, at) IN [ret |-> IF i = 0 THEN 0 ELSE 1, at |-> i]
findnext(entries, path, at) == LET i == FindStep(entries, FindOpen(path).pat, at) IN [ret |-> IF i = 0 THEN -1 ELSE 0, at |-> i]
wfindfirst(entries, path) == findfirst(entries, path)
\* The loop every caller writes around either family, until it is told there are no more,
\* reports each entry the pattern matches once, in the directory's order.
BothFindAll ==
    asked.kind = "find" =>
        LET want == SelectSeq(asked.entries, LAMBDA e : aret_ci_match(asked.pat, e))
            path == asked.dir \o asked.pat
            win[i \in 0..Len(asked.entries)] ==
                IF i = 0 THEN <<>> ELSE <<asked.entries[i]>> \o win[FindNextFile(asked.entries, path, i)]
            crt[i \in 0..Len(asked.entries)] ==
                IF i = 0 THEN <<NULL>>
                ELSE LET r == findnext(asked.entries, path, i) IN <<asked.entries[i]>> \o IF r.ret = 0 THEN crt[r.at] ELSE <<>>
        IN  /\ win[aret_find_first(asked.entries, path)] = want
            /\ wfindfirst(asked.entries, path) = findfirst(asked.entries, path)
            /\ (IF findfirst(asked.entries, path) = -1 THEN <<>> ELSE crt[findfirst(asked.entries, path)]) = want

-----------------------------------------------------------------------------
(* Expansion.  A token is a literal byte or a reference into the ring.         *)
Lit(b) == [t |-> "lit", b |-> b, pos |-> 0, len |-> 1]
Ref(pos, len) == [t |-> "ref", b |-> 0, pos |-> pos, len |-> len]
Blank == 32
\* Copies a reference from the ring as it was when the reference began.
ExpandSnapshot(tokens, osize) ==
    LET emit(st, tok, b) == IF Len(st.out) >= osize THEN st ELSE [st EXCEPT !.out = Append(@, b), !.ring[st.rp] = b, !.rp = (@ + 1) % RingSize]
        run[n \in 0..Len(tokens)] ==
            IF n = 0 THEN [out |-> <<>>, ring |-> [i \in 0..(RingSize - 1) |-> Blank], rp |-> RingStart]
            ELSE LET t == tokens[n]
                     old == run[n - 1].ring
                     k[j \in 0..t.len] == IF j = 0 THEN run[n - 1]
                                          ELSE emit(k[j - 1], t, IF t.t = "lit" THEN t.b ELSE old[(t.pos + j - 1) % RingSize])
                 IN  k[t.len]
    IN  run[Len(tokens)].out
lz_szdd_decompress(tokens, osize) ==
    LET emit(st, b) == IF Len(st.out) >= osize THEN st ELSE [st EXCEPT !.out = Append(@, b), !.ring[st.rp] = b, !.rp = (@ + 1) % RingSize]
        run[n \in 0..Len(tokens)] ==
            IF n = 0 THEN [out |-> <<>>, ring |-> [i \in 0..(RingSize - 1) |-> Blank], rp |-> RingStart]
            ELSE LET t == tokens[n]
                     k[j \in 0..t.len] == IF j = 0 THEN run[n - 1]
                                          ELSE emit(k[j - 1], IF t.t = "lit" THEN t.b ELSE k[j - 1].ring[(t.pos + j - 1) % RingSize])
                 IN  k[t.len]
    IN  run[Len(tokens)].out
\* A trailing _ of a packed file's name is its missing character.
GetExpandedName(name, packed, missing) ==
    IF name = NULL THEN NULL
    ELSE LET n == First(name, 255) IN IF packed /\ missing # 0 /\ n # <<>> /\ n[Len(n)] = 95 THEN [n EXCEPT ![Len(n)] = missing] ELSE n
\* Every byte of the output is the literal's, or the byte most recently written, anywhere in the
\* output so far, to the place the reference names: also one the same reference wrote, also
\* around the end of the ring; a place never written is a blank.
LzIsWindow ==
    asked.kind = "lz" =>
        LET out == lz_szdd_decompress(asked.tokens, asked.osize)
            flat[n \in 0..Len(asked.tokens)] ==
                IF n = 0 THEN <<>>
                ELSE flat[n - 1] \o [j \in 1..asked.tokens[n].len |-> [lit |-> asked.tokens[n].t = "lit", b |-> asked.tokens[n].b,
                                                                       slot |-> (asked.tokens[n].pos + j - 1) % RingSize]]
            src == flat[Len(asked.tokens)]
            writers(i) == {j \in 1..(i - 1) : (RingStart + j - 1) % RingSize = src[i].slot}
        IN  /\ Len(out) = Least(asked.osize, Len(src))
            /\ \A i \in DOMAIN out : out[i] = IF src[i].lit THEN src[i].b ELSE IF writers(i) = {} THEN Blank ELSE out[Max(writers(i))]

-----------------------------------------------------------------------------
(* The environment: the host's sequence of <<name, value>>, one entry a name. *)
Narrow(t) == [i \in DOMAIN t |-> t[i] % 256]
w2n(t, cap) == First(Narrow(t), cap - 1)
getenv(env, name) == LET S == {i \in DOMAIN env : env[i][1] = name} IN IF S = {} THEN NULL ELSE env[Min(S)][2]
unsetenv(env, name) == SelectSeq(env, LAMBDA e : e[1] # name)
setenv(env, name, v) ==
    IF getenv(env, name) = NULL THEN Append(env, <<name, v>>) ELSE [i \in DOMAIN env |-> IF env[i][1] = name THEN <<name, v>> ELSE env[i]]
GetEnvironmentVariableA(env, name, room) ==
    LET v == IF name = NULL THEN NULL ELSE getenv(env, name) IN IF v = NULL THEN NotFound ELSE Fit(v, room)
GetEnvironmentVariableW(env, name, room) ==
    LET v == IF name = NULL THEN NULL ELSE getenv(env, w2n(name, 256)) IN IF v = NULL THEN NotFound ELSE Fit(v, room)
SetEnvironmentVariableA(env, name, v) == IF name = NULL THEN env ELSE IF v = NULL THEN unsetenv(env, name) ELSE setenv(env, name, v)
SetEnvironmentVariableW(env, name, v) == IF v = NULL THEN unsetenv(env, w2n(name, 512)) ELSE setenv(env, w2n(name, 512), w2n(v, 4096))
wputenv(env, name, v) == setenv(env, Narrow(name), First(Narrow(v), 1022 - Len(name)))
wgetenv(env, name) == LET v == getenv(env, w2n(name, 512)) IN IF name = NULL \/ v = NULL THEN NULL ELSE First(v, 4095)
\* Separates the strings and does not end the block.
StringsUnended(env) ==
    LET b[i \in 0..Len(env)] == IF i = 0 THEN <<>> ELSE b[i - 1] \o env[i][1] \o <<61>> \o env[i][2] \o <<0>> IN b[Len(env)]
GetEnvironmentStrings(env) ==
    LET b[i \in 0..Len(env)] == IF i = 0 THEN <<>> ELSE b[i - 1] \o env[i][1] \o <<61>> \o env[i][2] \o <<0>> IN Append(b[Len(env)], 0)
\* A name between two percent signs is replaced, an unknown one by nothing; st is what is read and written.
ExpandStep(env, src, cap, st) ==
    LET n == Span(After(src, st.i + 1), (0..65535) \ {37})
        v == getenv(env, SubSeq(src, st.i + 2, st.i + 1 + n))
    IN  IF st.i >= Len(src) \/ Len(st.out) >= cap - 1 THEN st
        ELSE IF src[st.i + 1] = 37 /\ At(src, st.i + n + 2) = 37 /\ n < 256
        THEN [i |-> st.i + n + 2, out |-> IF v = NULL \/ Len(st.out) + (IF v = NULL THEN 0 ELSE Len(v)) >= cap - 1 THEN st.out ELSE st.out \o v]
        ELSE [i |-> st.i + 1, out |-> Append(st.out, src[st.i + 1])]
Expanded(env, src, cap) ==
    LET st[k \in 0..Len(src)] == IF k = 0 THEN [i |-> 0, out |-> <<>>] ELSE ExpandStep(env, src, cap, st[k - 1]) IN st[Len(src)].out
\* The answer is the size with the terminator, written or not.
Whole(t, room) == [ret |-> Len(t) + 1, text |-> IF room > Len(t) THEN t ELSE NULL]
ExpandEnvironmentStringsA(env, src, room) == Whole(Expanded(env, src, 4096), room)
ExpandEnvironmentStringsW(env, src, room) == Whole(Expanded(env, w2n(src, 4096), 4096), room)
\* What is set is read back by every reader, cut to bytes by the wide calls, what is removed is gone
\* and no other name is touched; walking the block gives the environment; and expansion replaces
\* exactly the text between the signs of a pair, taken from the left, and never twice.
EnvironmentKept ==
    asked.kind = "env" =>
        LET e == asked.env
            n == asked.name
            v == asked.v
            set == SetEnvironmentVariableW(e, n, v)
            walk[b \in {k \in 0..Len(GetEnvironmentStrings(set)) : k = 0 \/ At(GetEnvironmentStrings(set), k) = 0}] ==
                LET rest == After(GetEnvironmentStrings(set), b)
                    len == Span(rest, 1..255)
                IN  IF len > 0 THEN <<First(rest, len)>> \o walk[b + len + 1] ELSE IF rest = <<0>> THEN <<>> ELSE <<NULL>>
            signs == {i \in DOMAIN asked.src : asked.src[i] = 37}
            nth(i) == Cardinality({j \in signs : j <= i})
            opens(i) == i \in signs /\ nth(i) % 2 = 1 /\ nth(i) < Cardinality(signs)
            closes(i) == i \in signs /\ nth(i) % 2 = 0
            within(i) == i \notin signs /\ nth(i) % 2 = 1 /\ nth(i) < Cardinality(signs)
            got(i) == LET w == getenv(set, SubSeq(asked.src, Max({j \in signs : j < i}) + 1, i - 1)) IN IF w = NULL THEN <<>> ELSE w
            flat[i \in 0..Len(asked.src)] ==
                IF i = 0 THEN <<>> ELSE flat[i - 1] \o IF closes(i) THEN got(i) ELSE IF opens(i) \/ within(i) THEN <<>> ELSE <<asked.src[i]>>
        IN  /\ GetEnvironmentVariableW(set, n, 9) = (IF v = NULL THEN NotFound ELSE Fit(Narrow(v), 9))
            /\ GetEnvironmentVariableA(set, Narrow(n), 9) = GetEnvironmentVariableW(set, n, 9) /\ wgetenv(set, n) = GetEnvironmentVariableW(set, n, 9).text
            /\ \A m \in asked.names : m # Narrow(n) => getenv(set, m) = getenv(e, m)
            /\ set = SetEnvironmentVariableA(e, Narrow(n), IF v = NULL THEN NULL ELSE Narrow(v))
            /\ v # NULL => wputenv(e, n, v) = set
            /\ walk[0] = [i \in DOMAIN set |-> set[i][1] \o <<61>> \o set[i][2]]
            /\ ExpandEnvironmentStringsW(set, asked.src, 99).text = flat[Len(asked.src)]
            /\ \A r \in 0..9 : LET x == ExpandEnvironmentStringsA(set, asked.src, r) IN x.ret = Len(flat[Len(asked.src)]) + 1 /\ (x.text = NULL) = (r < x.ret)

-----------------------------------------------------------------------------
(* Resources: a directory is a sequence of entries [id, name, sub]; name is   *)
(* NULL for an entry known by its number.  A sub is a directory or a leaf,    *)
(* [isdir, kids, data].                                                       *)
Known(id) == [id |-> id, name |-> NULL]
Named(name) == [id |-> 0, name |-> name]
Dir(kids) == [isdir |-> TRUE, kids |-> kids, data |-> <<>>]
Leaf(data) == [isdir |-> FALSE, kids |-> <<>>, data |-> data]
u32_rsrc_name_eq(s, name) == Lower(s) = Lower(name) /\ \A i \in DOMAIN s : s[i] <= 255
\* Takes a name for the number 0.
EntryBlind(dir, ref) ==
    LET S == {i \in DOMAIN dir : dir[i].id = ref.id} IN IF S = {} THEN NULL ELSE dir[Min(S)].sub
u32_rsrc_entry(dir, ref) ==
    LET S == {i \in DOMAIN dir : IF ref.name # NULL THEN dir[i].name # NULL /\ u32_rsrc_name_eq(dir[i].name, ref.name)
                                 ELSE dir[i].name = NULL /\ dir[i].id = ref.id}
    IN  IF S = {} THEN NULL ELSE dir[Min(S)].sub
IsDir(sub) == sub # NULL /\ sub.isdir
\* The first language of a type and a name; root is NULL for an image without resources.
u32_rsrc_data_entry(root, type, name) ==
    LET t == u32_rsrc_entry(root, type)
        n == u32_rsrc_entry(t.kids, name)
    IN  IF root = NULL THEN NULL ELSE IF ~IsDir(t) THEN NULL ELSE IF ~IsDir(n) THEN NULL
        ELSE IF n.kids = <<>> THEN NULL ELSE IF n.kids[1].sub.isdir THEN NULL ELSE n.kids[1].sub
\* The call-back is told each numbered language until it returns FALSE, at stop.
u32_enum_res_langs(root, type, name, stop) ==
    LET fails(err) == [ret |-> 0, err |-> err, told |-> <<>>]
        t == u32_rsrc_entry(root, type)
        n == u32_rsrc_entry(t.kids, name)
        langs == SelectSeq(n.kids, LAMBDA e : e.name = NULL)
        told == [i \in 1..Least(stop, Len(langs)) |-> langs[i].id]
    IN  IF root = NULL THEN fails(1813) ELSE IF ~IsDir(t) THEN fails(1813) ELSE IF ~IsDir(n) THEN fails(1814)
        ELSE IF n.kids = <<>> THEN fails(1815)
        ELSE [ret |-> IF stop <= Len(langs) THEN 0 ELSE 1, err |-> NULL, told |-> told]
\* Sixteen strings a block; a block of fewer would be read past its end.
RtString == 6
FindResourceA(root, name, type) == u32_rsrc_data_entry(root, type, name)
SizeofResource(leaf) == IF leaf = NULL THEN 0 ELSE Len(leaf.data)
LoadStringA(root, uID, cch) ==
    LET leaf == u32_rsrc_data_entry(root, Known(RtString), Known(uID \div 16 + 1))
        s == leaf.data[(uID % 16) + 1]
    IN  IF cch = 0 THEN NULL ELSE IF leaf = NULL THEN <<>> ELSE Narrow(First(s, cch - 1))

(* Version information: a node is [key, text, value, kids].                    *)
vi_keyeq(node, key) == Lower(node.key) = Lower(key)
vi_child(node, key) == LET S == {i \in DOMAIN node.kids : vi_keyeq(node.kids[i], key)} IN IF S = {} THEN NULL ELSE node.kids[Min(S)]
SFI == <<115, 102, 105>>        \* "StringFileInfo"
\* The strings of every language become bytes; nothing else is touched.
vi_narrow_strings(vi) ==
    LET sfi == vi_child(vi, SFI)
        narrow(str) == IF str.text THEN [str EXCEPT !.value = Narrow(@)] ELSE str
        lang(l) == [l EXCEPT !.kids = [j \in DOMAIN @ |-> narrow(@[j])]]
    IN  IF sfi = NULL THEN vi ELSE [vi EXCEPT !.kids = [i \in DOMAIN @ |-> IF @[i] # sfi THEN @[i] ELSE [sfi EXCEPT !.kids = [k \in DOMAIN @ |-> lang(@[k])]]]]
GetFileVersionInfoA(vi) == IF vi = NULL THEN NULL ELSE vi_narrow_strings(vi)
\* Down the components of the path, to an empty one or to its end.
VerQueryValueA(root, path) ==
    LET f[k \in 0..Len(path)] ==
            IF k = 0 THEN root ELSE IF f[k - 1] = NULL THEN NULL ELSE IF \E j \in 1..k : path[j] = <<>> THEN f[k - 1] ELSE vi_child(f[k - 1], path[k])
    IN  IF NULL \in {root, path} THEN NULL ELSE IF f[Len(path)] = NULL THEN NULL ELSE f[Len(path)].value
\* A resource is found by its own key alone, a number never by a name; the first language found is
\* the first one enumerated unless it has a name; a string is the one of its number, cut to the room;
\* and of the version the strings are told as bytes, in any case of their keys, the rest as it is.
ResourcesFound ==
    asked.kind = "rsrc" =>
        LET root == asked.root
            leaf == FindResourceA(root, asked.name, asked.type)
            langs == u32_enum_res_langs(root, asked.type, asked.name, 9)
            one == u32_enum_res_langs(root, asked.type, asked.name, 1)
            vi == GetFileVersionInfoA(asked.vi)
            hit(dir, ref) == {e \in Range(dir) : /\ (e.name = NULL) = (ref.name = NULL)
                                                 /\ IF ref.name = NULL THEN e.id = ref.id ELSE Lower(e.name) = Lower(ref.name)}
            found == {f \in UNION {hit(e.sub.kids, asked.name) : e \in hit(root, asked.type)} : f.sub.kids # <<>>}
        IN  /\ leaf = (IF found = {} THEN NULL ELSE (CHOOSE f \in found : TRUE).sub.kids[1].sub)
            /\ (langs.err = NULL) = (leaf # NULL)
            /\ langs.err = NULL <=> (langs.ret = 1)
            /\ one.told = First(langs.told, 1) /\ (one.told # <<>> => one.ret = 0 /\ one.err = NULL)
            /\ (SizeofResource(leaf) > 0) => leaf # NULL
            /\ \A id \in asked.ids, cch \in 0..3 : LoadStringA(root, id, cch) = IF cch = 0 THEN NULL ELSE First(Narrow(asked.strings[id]), cch - 1)
            /\ \A key \in {<<97>>, <<65>>} : VerQueryValueA(vi, <<SFI, <<108>>, key>>) = Narrow(VerQueryValueA(asked.vi, <<SFI, <<76>>, key>>))
            /\ VerQueryValueA(vi, <<<<>>>>) = asked.vi.value
            /\ VerQueryValueA(vi, <<<<118>>, <<116>>>>) = VerQueryValueA(asked.vi, <<<<118>>, <<116>>>>) /\ VerQueryValueA(vi, <<SFI, <<98>>>>) = NULL

-----------------------------------------------------------------------------
(* Calendar dates.  A time is [day, sec]: days since 1970 and seconds into it; *)
(* FILETIME shifts it by a constant and is kept in this form.                  *)
Leap(y) == y % 4 = 0 /\ (y % 100 # 0 \/ y % 400 = 0)
MonthDays(y, m) == IF m = 2 THEN IF Leap(y) THEN 29 ELSE 28 ELSE IF m \in {4, 6, 9, 11} THEN 30 ELSE 31
\* The C library's calendar, by counting.
timegm(y, m, d) ==
    LET before(k) == (k - 1) \div 4 - (k - 1) \div 100 + (k - 1) \div 400
        months[k \in 1..12] == IF k = 1 THEN 0 ELSE months[k - 1] + MonthDays(y, k - 1)
    IN  365 * (y - 1970) + before(y) - before(1970) + months[m] + d - 1
gmtime_r(day) ==
    LET y == CHOOSE k \in ((day \div 366) + 1969)..((day \div 365) + 1971) : timegm(k, 1, 1) <= day /\ day < timegm(k + 1, 1, 1)
        m == CHOOSE k \in 1..12 : timegm(y, k, 1) <= day /\ day < timegm(y, k, 1) + MonthDays(y, k)
    IN  [y |-> y, m |-> m, d |-> day - timegm(y, m, 1) + 1, wday |-> (day + 4) % 7]
\* Starts the year in January.
DaysJanuary(y, m, d) ==
    LET era == y \div 400
        yoe == y - era * 400
        doy == (153 * (m + (IF m > 2 THEN -3 ELSE 9)) + 2) \div 5 + d - 1
    IN  era * 146097 + (yoe * 365 + yoe \div 4 - yoe \div 100 + doy) - 719468
aret_days_from_civil(y, m, d) ==
    LET yy == y - (IF m <= 2 THEN 1 ELSE 0)
        era == yy \div 400
        yoe == yy - era * 400
        doy == (153 * (m + (IF m > 2 THEN -3 ELSE 9)) + 2) \div 5 + d - 1
    IN  era * 146097 + (yoe * 365 + yoe \div 4 - yoe \div 100 + doy) - 719468
Clock(h, min, s) == h * 3600 + min * 60 + s
\* A packed date or time is its fields; a field of 0 is the first of its kind.
DosDateTimeToFileTime(d, t) ==
    [day |-> aret_days_from_civil(d.y + 1980, Most(d.m, 1), Most(d.d, 1)), sec |-> Clock(t.h, t.min, 2 * t.s2)]
SystemTimeToFileTime(w) == [day |-> timegm(w.y, w.m, w.d), sec |-> Clock(w.h, w.min, w.s), ms |-> w.ms]
FileTimeToSystemTime(ft) ==
    LET g == gmtime_r(ft.day)
    IN  [y |-> g.y, m |-> g.m, wday |-> g.wday, d |-> g.d, h |-> ft.sec \div 3600, min |-> (ft.sec \div 60) % 60, s |-> ft.sec % 60, ms |-> ft.ms]
Mag(n) == IF n < 0 THEN -n ELSE n
\* a * b / c to the nearest, a tie away from 0; -1 for what the width cannot hold.
MulDivFloor(a, b, c, width) == LET q == (a * b) \div c IN IF c = 0 THEN -1 ELSE IF q > width \/ q < -width - 1 THEN -1 ELSE q
MulDiv(a, b, c, width) ==
    LET num == a * b
        q == (IF (num < 0) # (c < 0) THEN -1 ELSE 1) * (Mag(num) \div Mag(c))
        near == q + (IF 2 * (Mag(num) % Mag(c)) < Mag(c) THEN 0 ELSE IF (num < 0) # (c < 0) THEN -1 ELSE 1)
    IN  IF c = 0 THEN -1 ELSE IF near > width \/ near < -width - 1 THEN -1 ELSE near
\* Each day is one after the day before it in every calendar, a time of day comes back as it was,
\* whichever call packed it, and a rounded quotient is never half a unit from the exact one.
DatesAgree ==
    asked.kind = "date" =>
        LET y == asked.y
            m == asked.m
            w == [y |-> y, m |-> m, d |-> asked.d, h |-> asked.h, min |-> 59, s |-> 58, ms |-> 7]
            ft == SystemTimeToFileTime(w)
            back == FileTimeToSystemTime(ft)
            dos == DosDateTimeToFileTime([y |-> y - 1980, m |-> m, d |-> asked.d], [h |-> asked.h, min |-> 59, s2 |-> 29])
            last == asked.d = MonthDays(y, m)
        IN  asked.d <= MonthDays(y, m) =>
            /\ \A f \in DOMAIN w : back[f] = w[f]
            /\ aret_days_from_civil(y, m, asked.d) = timegm(y, m, asked.d)
            /\ y \in 1980..2107 => dos.day = ft.day /\ dos.sec = ft.sec
            /\ aret_days_from_civil(y, m, asked.d) + 1 = IF ~last THEN aret_days_from_civil(y, m, asked.d + 1)
                                                         ELSE IF m = 12 THEN aret_days_from_civil(y + 1, 1, 1) ELSE aret_days_from_civil(y, m + 1, 1)
            /\ FileTimeToSystemTime([ft EXCEPT !.day = @ + 1]).wday = (back.wday + 1) % 7
QuotientsNear ==
    asked.kind = "muldiv" =>
        LET q == MulDiv(asked.a, asked.b, asked.c, asked.width)
            exact == asked.a * asked.b
            fits(k) == k <= asked.width /\ k >= -asked.width - 1
            best == {k \in -400..400 : \A j \in {k - 1, k + 1} : Mag(k * asked.c - exact) <= Mag(j * asked.c - exact)}
            away == CHOOSE k \in best : \A j \in best : Mag(j) <= Mag(k)
        IN  q = IF asked.c = 0 THEN -1 ELSE IF fits(away) THEN away ELSE -1

(* Versions: a slot of the mask holds the bits of a condition, ORed in; the    *)
(* slots are 0 minor, 1 major, 2 build, 3 platform, 4 and 5 service pack minor *)
(* and major, 6 suite, 7 product.                                              *)
Bits(cond) == {b \in {1, 2, 4} : (cond \div b) % 2 = 1}
VerSetConditionMask(mask, types, cond) ==
    IF types = {} THEN mask ELSE [mask EXCEPT ![Max(types)] = @ \cup Bits(cond)]
Condition(mask, slot) == Cardinality(mask[slot] \cap {1}) + 2 * Cardinality(mask[slot] \cap {2}) + 4 * Cardinality(mask[slot] \cap {4})
aret_ver_apply(res, cond) ==
    CASE cond = 1 -> res = 0 [] cond = 2 -> res > 0 [] cond = 3 -> res >= 0 [] cond = 4 -> res < 0 [] cond = 5 -> res <= 0 [] OTHER -> TRUE
Reported == <<2, 6, 9200, 2, 0, 0, 0, 1>>      \* slot k is the element k + 1
VerCompare(want, slot) == IF Reported[slot + 1] < want[slot + 1] THEN -1 ELSE IF Reported[slot + 1] > want[slot + 1] THEN 1 ELSE 0
\* The fields of the version, the most important one first.
VersionGroup(types) == SelectSeq(<<1, 0, 2, 5, 4>>, LAMBDA s : s \in types)
\* Tests each field of the version by itself.
VerifyEachField(want, types, mask) ==
    IF want = NULL \/ types = {} THEN [ret |-> 0, err |-> 87]
    ELSE LET ok == \A s \in types \ {6} : aret_ver_apply(VerCompare(want, s), Condition(mask, s))
         IN  [ret |-> IF ok THEN 1 ELSE 0, err |-> IF ok THEN NULL ELSE 1150]
VerifyVersionInfoA(want, types, mask) ==
    LET group == VersionGroup(types)
        differ == SelectSeq(group, LAMBDA s : VerCompare(want, s) # 0)
        res == IF differ = <<>> THEN 0 ELSE VerCompare(want, differ[1])
        ok == /\ group # <<>> => aret_ver_apply(res, Condition(mask, group[1]))
              /\ \A s \in types \cap {3, 7} : aret_ver_apply(VerCompare(want, s), Condition(mask, s))
    IN  IF want = NULL \/ types = {} THEN [ret |-> 0, err |-> 87]
        ELSE [ret |-> IF ok THEN 1 ELSE 0, err |-> IF ok THEN NULL ELSE 1150]
\* Over the version's fields alone: the conditions are those of an order. Of a version and a less
\* one, what is at least the first is at least the second; at least is equal or greater, not less.
VersionsOrdered ==
    asked.kind = "ver" =>
        LET clear == [s \in 0..7 |-> {}]
            all(c) == LET f[k \in 0..8] == IF k = 0 THEN clear ELSE IF k - 1 \in asked.types THEN VerSetConditionMask(f[k - 1], {k - 1}, c) ELSE f[k - 1] IN f[8]
            is(v, c) == VerifyVersionInfoA(v, asked.types, all(c)).ret = 1
            less == [asked.want EXCEPT ![asked.at + 1] = @ - 1]
        IN  /\ is(asked.want, 3) = (is(asked.want, 1) \/ is(asked.want, 2)) /\ is(asked.want, 3) = ~is(asked.want, 4)
            /\ is(asked.want, 5) = ~is(asked.want, 2)
            /\ is(asked.want, 3) => is(less, 3)
            /\ (is(asked.want, 3) /\ asked.at \in asked.types) => is(less, 2)

-----------------------------------------------------------------------------
(* The bounded copies of the C runtime.                                        *)
SecureCode(dst, destsz, src, count) == IF count = 0 THEN 0 ELSE IF dst = NULL THEN 22 ELSE IF src = NULL THEN 22 ELSE IF destsz < count THEN 34 ELSE 0
Over(dst, src, count) == [i \in DOMAIN dst |-> IF i <= count THEN src[i] ELSE dst[i]]
\* Clears as much as was to be copied.
memcpy_s_count(dst, destsz, src, count) ==
    LET code == SecureCode(dst, destsz, src, count)
    IN  [ret |-> code, dst |-> IF dst = NULL \/ count = 0 THEN dst ELSE IF code = 0 THEN Over(dst, src, count)
                               ELSE [i \in DOMAIN dst |-> IF i <= count THEN 0 ELSE dst[i]]]
memcpy_s(dst, destsz, src, count) ==
    LET code == SecureCode(dst, destsz, src, count)
    IN  [ret |-> code, dst |-> IF dst = NULL \/ count = 0 THEN dst ELSE IF code = 0 THEN Over(dst, src, count)
                               ELSE [i \in DOMAIN dst |-> IF i <= destsz THEN 0 ELSE dst[i]]]
memmove_s(dst, destsz, src, count) ==
    LET code == SecureCode(dst, destsz, src, count)
    IN  [ret |-> code, dst |-> IF code = 0 /\ count > 0 THEN Over(dst, src, count) ELSE dst]
\* The twins give one code, neither touches what lies beyond the size it was told, and a refused
\* call clears the whole of that size or none of it.
TwinCopies ==
    asked.kind = "copy" =>
        LET c == memcpy_s(asked.dst, asked.destsz, asked.src, asked.count)
            v == memmove_s(asked.dst, asked.destsz, asked.src, asked.count)
        IN  /\ c.ret = v.ret
            /\ asked.dst # NULL => \A r \in {c, v} : \A i \in DOMAIN asked.dst : i > asked.destsz => r.dst[i] = asked.dst[i]
            /\ (c.ret # 0 /\ asked.dst # NULL) => v.dst = asked.dst /\ \A i \in 1..Least(asked.destsz, Len(asked.dst)) : c.dst[i] = 0
            /\ (c.ret = 0 /\ asked.dst # NULL /\ asked.count > 0) => c.dst = v.dst /\ First(c.dst, asked.count) = First(asked.src, asked.count)
=============================================================================
