------------------------------ MODULE NtFiles -------------------------------
(* The Nt file layer, file mappings and LZ handles over descriptors, and the  *)
(* properties of all the file handles.                                        *)
EXTENDS Files

u32_ntfile_slot(f) == Slot(Entries(f))
u32_ntfile_register(f, path) ==
    LET i == IF Entries(f) # {} THEN u32_ntfile_slot(f) ELSE Slot({j \in NtSlots : ~ntfile[j].used})
    IN  IF i = NONE THEN ntfile ELSE [ntfile EXCEPT ![i] = [NoEntry EXCEPT !.used = TRUE, !.fd = f, !.path = path]]

nt_flags(disp) ==
    CASE disp \in {"SUPERSEDE", "OVERWRITE_IF"} -> {"creat", "trunc"}
      [] disp = "OPEN" -> {}
      [] disp = "CREATE" -> {"creat", "excl"}
      [] disp = "OPEN_IF" -> {"creat"}
      [] disp = "OVERWRITE" -> {"trunc"}
nt_info(disp, existed) ==
    IF ~existed THEN "CREATED"
    ELSE CASE disp = "SUPERSEDE" -> "SUPERSEDED" [] disp \in {"OVERWRITE", "OVERWRITE_IF"} -> "OVERWRITTEN"
           [] OTHER -> "OPENED"
\* Looks for the file when open has made it.
NtOpenLooksLate(n, wr, disp) ==
    LET o == HOpen(host, n, Access(TRUE, wr) \cup nt_flags(disp))
    IN  IF o.fd = NONE THEN Nothing("NtCreateFile", NONE)
        ELSE /\ host' = o.host
             /\ held' = held \cup {Handle("nt", n, o.fd)}
             /\ ntfile' = u32_ntfile_register(o.fd, n)
             /\ Told("NtCreateFile", TRUE, <<n, nt_info(disp, n \in Present(o.host))>>)
             /\ UNCHANGED <<stdioVars, tableVars>>
\* NtCreateFile; NtOpenFile is the disposition OPEN.
u32_nt_open(n, wr, disp) ==
    LET existed == n \in Present(host)
        o == HOpen(host, n, Access(TRUE, wr) \cup nt_flags(disp))
    IN  IF (existed /\ disp = "CREATE") \/ (~existed /\ disp \in {"OPEN", "OVERWRITE"}) \/ o.fd = NONE
        THEN Nothing("NtCreateFile", NONE)
        ELSE /\ host' = o.host
             /\ held' = held \cup {Handle("nt", n, o.fd)}
             /\ ntfile' = u32_ntfile_register(o.fd, n)
             /\ Told("NtCreateFile", TRUE, <<n, nt_info(disp, existed)>>)
             /\ UNCHANGED <<stdioVars, tableVars>>
\* The directory itself.
NtOpenDirectory ==
    LET o == HOpenOther(host)
    IN  IF o.fd = NONE THEN Nothing("NtCreateFile", NONE)
        ELSE /\ host' = o.host
             /\ held' = held \cup {Handle("nt", NONE, o.fd)}
             /\ ntfile' = u32_ntfile_register(o.fd, NONE)
             /\ Told("call", TRUE, NONE)
             /\ UNCHANGED <<stdioVars, tableVars>>
\* NtReadFile and NtWriteFile seek when they are given an offset.
NtReadFile(h, off, more) ==
    LET H == IF off = NONE \/ ~Regular(host, h.fd) THEN host ELSE HSeek(host, h.fd, off)
        some == HasByte(H, h.fd, more)
    IN  /\ host' = IF some THEN HRead(H, h.fd) ELSE H
        /\ Told("call", some, NONE)
        /\ UNCHANGED <<stdioVars, ntfile, tableVars, held>>
NtWriteFile(h, off) ==
    LET H == IF off = NONE \/ ~Regular(host, h.fd) THEN host ELSE HSeek(host, h.fd, off)
    IN  /\ Regular(H, h.fd) => WritePos(H, h.fd) < MaxLen
        /\ host' = IF CanWrite(H, h.fd) THEN HWrite(H, h.fd) ELSE H
        /\ Told("call", CanWrite(H, h.fd), NONE)
        /\ UNCHANGED <<stdioVars, ntfile, tableVars, held>>
\* FileEndOfFileInformation and FilePositionInformation.
NtSetEndOfFile(h, n) == chsize(h, n)
NtSetPosition(h, p) == lseek(h, p)
\* FileDispositionInformation; a descriptor of another layer gets an entry with the name its file has now.
NtSetDisposition(h, del) ==
    LET names == {n \in Names : Regular(host, h.fd) /\ host.name[n] = Ino(host, h.fd)}
        learnt == IF Entries(h.fd) # {} THEN ntfile ELSE u32_ntfile_register(h.fd, Slot(names))
        s == Slot({i \in NtSlots : learnt[i].used /\ learnt[i].fd = h.fd})
    IN  /\ ntfile' = IF s = NONE THEN learnt ELSE [learnt EXCEPT ![s].del = del]
        /\ held' = (held \ {h}) \cup {[h EXCEPT !.del = del, !.kept = IF s = NONE THEN NONE ELSE learnt[s].path]}
        /\ Told("call", TRUE, NONE)
        /\ UNCHANGED <<host, stdioVars, tableVars>>
\* Unlinks before it looks at the mark.
CloseDeletesAll(h) ==
    LET s == u32_ntfile_slot(h.fd)
        H == HClose(host, h.fd)
    IN  IF s = NONE THEN host' = host /\ ntfile' = ntfile
        ELSE /\ ntfile' = [ntfile EXCEPT ![s].used = FALSE, ![s].snap = NONE]
             /\ host' = IF ntfile[s].path \in Names THEN HUnlink(H, ntfile[s].path) ELSE H
aret_ntfile_close(h) ==
    LET s == u32_ntfile_slot(h.fd)
        H == HClose(host, h.fd)
    IN  IF s = NONE THEN host' = host /\ ntfile' = ntfile
        ELSE /\ ntfile' = [ntfile EXCEPT ![s].used = FALSE, ![s].snap = NONE]
             /\ host' = IF ntfile[s].del /\ ntfile[s].path \in Names THEN HUnlink(H, ntfile[s].path) ELSE H
\* A descriptor without an entry is left open; the program takes it for closed.
NtClose(h) ==
    /\ aret_ntfile_close(h)
    /\ held' = (held \ {h}) \cup (IF Entries(h.fd) = {} THEN {[h EXCEPT !.k = "lost"]} ELSE {})
    /\ Told("NtClose", TRUE, h)
    /\ UNCHANGED <<stdioVars, tableVars>>

-----------------------------------------------------------------------------
(* NtQueryDirectoryFile: the names are read at once, sorted, and given out as  *)
(* many as the buffer takes.  given and twice are history.                     *)
\* The scan of slot s, from its start or where it is; the names it gives next; the scan without them.
Scan(s, restart) ==
    LET all == Present(host)
    IN  IF restart \/ ntfile[s].snap = NONE THEN [all |-> all, left |-> all, given |-> {}, twice |-> FALSE] ELSE ntfile[s].snap
Batch(q, room) == {m \in q.left : Cardinality({k \in q.left : k < m}) < room}
Gives(q, n) == [q EXCEPT !.left = @ \ n, !.given = @ \cup n, !.twice = @ \/ n \cap q.given # {}]
\* Starts over when the buffer takes no entry.
QueryStartsOver(h, restart, room) ==
    LET s == u32_ntfile_slot(h.fd)
        q == Scan(s, restart)
        n == Batch(q, room)
        again == IF q.left = {} THEN q ELSE [q EXCEPT !.left = q.all]
    IN  Told("call", n # {}, NONE) /\ ntfile' = [ntfile EXCEPT ![s].snap = IF n = {} THEN again ELSE Gives(q, n)]
NtQueryDirectory(h, restart, room) ==
    LET s == u32_ntfile_slot(h.fd)
        q == Scan(s, restart)
        n == Batch(q, room)
    IN  Told("call", n # {}, NONE) /\ ntfile' = [ntfile EXCEPT ![s].snap = IF n = {} THEN q ELSE Gives(q, n)]
NtQueryDirectoryFile(h, restart, room) ==
    IF Entries(h.fd) = {} \/ ntfile[u32_ntfile_slot(h.fd)].path # NONE     \* or no directory
    THEN Nothing("call", NONE)
    ELSE NtQueryDirectory(h, restart, room) /\ UNCHANGED <<host, stdioVars, tableVars, held>>

-----------------------------------------------------------------------------
(* File mappings: a mapping keeps the number of the descriptor, not the        *)
(* description.                                                                *)
CreateFileMapping(h, size, wr) ==
    LET i == Slot({j \in MapSlots : maps[j] = NONE})
    IN  /\ maps' = IF i = NONE THEN maps ELSE [maps EXCEPT ![i] = h.fd]
        /\ host' = IF wr /\ size > 0 /\ CanTruncate(host, h.fd) THEN HTruncate(host, h.fd, size) ELSE host
        /\ held' = held \cup {Handle("map", i, h.fd)}
        /\ Told("call", TRUE, NONE)
        /\ UNCHANGED <<stdioVars, ntfile, views, lz>>
MapViewOfFile(m) ==
    LET i == Slot({j \in MapSlots : views[j] = NONE})
        ok == Regular(host, m.fd)
    IN  /\ views' = IF ~ok \/ i = NONE THEN views ELSE [views EXCEPT ![i] = Ino(host, m.fd)]
        /\ held' = IF ok /\ i # NONE THEN held \cup {Handle("view", i, NONE)} ELSE held
        /\ Told("call", ok, NONE)
        /\ UNCHANGED <<host, stdioVars, ntfile, maps, lz>>
UnmapViewOfFile(v) ==
    /\ views' = [views EXCEPT ![v.n] = NONE]
    /\ held' = held \ {v}
    /\ Told("call", TRUE, NONE)
    /\ UNCHANGED <<host, stdioVars, ntfile, maps, lz>>
\* A mapping the table had no room for is taken for a descriptor, which fails.
CloseHandle(h) ==
    /\ Clean => Entries(h.fd) = {} \/ h.k = "map"
    /\ IF h.k = "map" /\ h.n = NONE THEN Nothing("call", NONE)
       ELSE /\ maps' = IF h.k = "map" THEN [maps EXCEPT ![h.n] = NONE] ELSE maps
            /\ host' = IF h.k = "map" THEN host ELSE HClose(host, h.fd)
            /\ held' = held \ {h}
            /\ Told("call", TRUE, NONE)
            /\ UNCHANGED <<stdioVars, ntfile, views, lz>>

-----------------------------------------------------------------------------
(* LZ handles own a copy of the expanded file, whose length is one of Sizes.    *)
LZOpenFile(n, len) ==
    LET i == Slot({j \in LzSlots : ~lz[j].used})
    IN  IF HOpen(host, n, {}).fd = NONE \/ i = NONE THEN Nothing("call", NONE)
        ELSE /\ lz' = [lz EXCEPT ![i] = [used |-> TRUE, len |-> len, pos |-> 0]]
             /\ held' = held \cup {Handle("lz", i, NONE)}
             /\ Told("call", TRUE, NONE)
             /\ UNCHANGED <<host, stdioVars, ntfile, maps, views>>
\* Of a descriptor: it is rewound, read to its end and stays the program's to close.
LZInit(h, len) ==
    LET i == Slot({j \in LzSlots : ~lz[j].used})
    IN  /\ Regular(host, h.fd)
        /\ host' = HSeek(host, h.fd, Size(host, h.fd))
        /\ lz' = IF i = NONE THEN lz ELSE [lz EXCEPT ![i] = [used |-> TRUE, len |-> len, pos |-> 0]]
        /\ held' = IF i = NONE THEN held ELSE held \cup {Handle("lz", i, NONE)}
        /\ Told("call", i # NONE, NONE)
        /\ UNCHANGED <<stdioVars, ntfile, maps, views>>
LZRead(z, want) ==
    LET n == Min({want, lz[z.n].len - lz[z.n].pos})
    IN  /\ lz' = [lz EXCEPT ![z.n].pos = @ + n]
        /\ Told("call", n > 0, NONE)
        /\ UNCHANGED <<host, stdioVars, ntfile, maps, views, held>>
\* Lets the program leave the buffer.
LZSeekFree(z, origin, off) ==
    LET np == off + CASE origin = "set" -> 0 [] origin = "cur" -> lz[z.n].pos [] origin = "end" -> lz[z.n].len
    IN  /\ lz' = [lz EXCEPT ![z.n].pos = Max({0, np})]
        /\ Told("call", TRUE, NONE)
        /\ UNCHANGED <<host, stdioVars, ntfile, maps, views, held>>
LZSeek(z, origin, off) ==
    LET np == off + CASE origin = "set" -> 0 [] origin = "cur" -> lz[z.n].pos [] origin = "end" -> lz[z.n].len
    IN  /\ lz' = [lz EXCEPT ![z.n].pos = Max({0, Min({np, lz[z.n].len})})]
        /\ Told("call", TRUE, NONE)
        /\ UNCHANGED <<host, stdioVars, ntfile, maps, views, held>>
LZClose(z) ==
    /\ lz' = [lz EXCEPT ![z.n] = NoBuf]
    /\ held' = held \ {z}
    /\ Told("call", TRUE, NONE)
    /\ UNCHANGED <<host, stdioVars, ntfile, maps, views>>

-----------------------------------------------------------------------------
(* What a program may call, on the handles it holds; N are the names stdio     *)
(* opens, R the ones it reopens a stream with.                                 *)
DescriptorOps ==
    \/ \E n \in Names, m \in {<<FALSE, {}>>, <<TRUE, {"creat"}>>, <<TRUE, {"creat", "excl"}>>, <<TRUE, {"app"}>>} : open(n, m[1], m[2])
    \/ pipe
    \/ \E f \in Fds : close(f)
    \/ \E h \in Of({"fd"}) : dup(h) \/ write(h) \/ SetEndOfFile(h)
    \/ \E a, b \in Of({"fd"}) : dup2(a, b)
    \/ \E h \in Of({"fd"}), more \in BOOLEAN : read(h, more)
    \/ \E h \in Of({"fd"}), p \in 0..MaxLen : lseek(h, p) \/ chsize(h, p) \/ WriteFile(h, p) \/ ReadFile(h, p)
NameOps ==
    \/ \E n \in Names : DeleteFile(n) \/ remove(n)
    \/ \E a, b \in Names : MoveFile(a, b) \/ rename(a, b)
    \/ \E a, b \in Names, r \in BOOLEAN : movefileex(a, b, r)
StdioOps(N, R) ==
    \/ \E n \in N, m \in {"r", "r+", "w", "a"} : fopen(n, m)
    \/ tmpfile \/ popen
    \/ \E h \in Streams : fclose(h) \/ ungetc(h) \/ rewind(h) \/ clearerr(h)
    \/ \E h \in Of({"fd"}) : fdopen(h)
    \/ \E h \in Streams, n \in R : freopen(n, "w", h)
    \/ \E h \in Streams, b \in BOOLEAN : getc(h, b) \/ getwc(h, b) \/ filbuf(h, b) \/ fgets(h, b) \/ fread(h, b)
    \/ \E h \in Streams : fwrite(h) \/ fputs(h) \/ fputc(h) \/ putwc(h) \/ fprintf(h) \/ vfprintf(h) \/ flsbuf(h) \/ ungetwc(h)
    \/ putchar \/ printf \/ vprintf
    \/ \E b \in BOOLEAN : getchar(b)
    \/ \E h \in Streams, p \in 0..MaxLen : fseek(h, p) \/ fsetpos(h, p)
    \/ \E h \in Of({"pipe"}) : pclose(h)
NtOps ==
    \/ \E n \in Names, wr \in BOOLEAN, d \in {"SUPERSEDE", "OPEN", "CREATE", "OPEN_IF", "OVERWRITE", "OVERWRITE_IF"} : u32_nt_open(n, wr, d)
    \/ \E h \in Of({"nt"}), off \in {NONE, 0}, more \in BOOLEAN : NtReadFile(h, off, more) \/ NtWriteFile(h, off)
    \/ \E h \in Of({"nt"}), p \in 0..MaxLen : NtSetEndOfFile(h, p) \/ NtSetPosition(h, p)
    \/ \E h \in Of({"nt", "fd"}), del \in BOOLEAN : NtSetDisposition(h, del)
    \/ \E h \in Of({"nt", "fd"}) : NtClose(h) \/ CloseHandle(h)
    \/ \E n \in Names, wr \in BOOLEAN, d \in {"CREATE_NEW", "CREATE_ALWAYS", "OPEN_EXISTING", "OPEN_ALWAYS", "TRUNCATE_EXISTING"} :
           CreateFile(n, wr, d)
ScanOps ==
    \/ NtOpenDirectory
    \/ \E h \in Of({"nt"}), r \in BOOLEAN, room \in 0..2 : NtQueryDirectoryFile(h, r, room)
MapOps ==
    \/ \E n \in Names, s \in {"create", "write", "read", "delete"} : OpenFile(n, s)
    \/ \E h \in Of({"fd"}), s \in 0..MaxLen, wr \in BOOLEAN : CreateFileMapping(h, s, wr)
    \/ \E m \in Of({"map"}) : MapViewOfFile(m)
    \/ \E v \in Of({"view"}) : UnmapViewOfFile(v)
    \/ \E h \in Of({"fd", "map"}) : CloseHandle(h)
LzOps ==
    \/ \E n \in Names, l \in 0..2 : LZOpenFile(n, l)
    \/ \E h \in Of({"fd"}), l \in 0..2 : LZInit(h, l)
    \/ \E z \in Of({"lz"}) : \/ LZClose(z)
                             \/ \E w \in 0..2 : LZRead(z, w)
                             \/ \E o \in {"set", "cur", "end"}, k \in {-1, 1} : LZSeek(z, o, k)
FilesNext == DescriptorOps \/ NameOps \/ StdioOps(Names, Names) \/ NtOps \/ ScanOps \/ MapOps \/ LzOps
FilesSpec == FilesInit /\ [][FilesNext]_filesVars

-----------------------------------------------------------------------------
(* Properties.                                                                 *)
Owners == Of({"fd", "stream", "pipe", "nt", "lost"})
\* Every table is of its type, an LZ position is inside its buffer.
FilesTypeOK ==
    /\ host \in HostType
    /\ pool \in [FILEs -> [used : BOOLEAN, fd : Fds, ungot : BOOLEAN, eof : BOOLEAN, err : BOOLEAN]]
    /\ \A i \in NtSlots : ntfile[i].used \in BOOLEAN /\ ntfile[i].fd \in Fds /\ ntfile[i].path \in Names \cup {NONE}
    /\ maps \in [MapSlots -> Fds \cup {NONE}] /\ views \in [MapSlots -> Inodes \cup {NONE}]
    /\ \A i \in LzSlots : lz[i].pos \in 0..lz[i].len
\* The handles the program holds own the open descriptors: each is open, no two
\* share one, and above the standard ones no descriptor is open that no handle owns, whatever
\* call failed on the way and however slots and numbers were reused.
DescriptorsOwned ==
    /\ \A h \in Owners : IsOpen(host, h.fd)
    /\ \A g, h \in Owners : g.fd = h.fd => g = h
    /\ \A f \in Fds \ Std : IsOpen(host, f) => \E h \in Owners : h.fd = f
\* A stream gives back a byte only if it was pushed back on this stream since it was opened,
\* last positioned and last read: not one the former user of the slot left.
NoStalePushback == \A h \in Of({"stream", "pipe"}) : pool[h.n].ungot => h.pushed
\* pclose waits for, and answers with the status of, the command its own popen started.
PcloseOwnChild == told.op = "pclose" /\ told.ok => told.info[1] = told.info[2]
\* Whatever the buffers hold and whatever happens to the directory meanwhile, a scan gives
\* each name the directory had at its start once, in order.
ScanEachOnce ==
    \A i \in NtSlots : ntfile[i].snap # NONE =>
        LET q == ntfile[i].snap
        IN  ~q.twice /\ q.given \cup q.left = q.all /\ \A m \in q.given, n \in q.left : m < n
\* NtClose removes a name only if this handle was marked for deletion, and then
\* the name the table had for it when it was marked.
DeleteExactly ==
    [][told'.op = "NtClose" =>
         LET h == told'.info
         IN  /\ Present(host') # Present(host) => h.del
             /\ h.del /\ h.kept # NONE => Present(host') = Present(host) \ {h.kept}]_filesVars
\* The Information of NtCreateFile tells what happened to the file.
InfoIsTrue ==
    [][told'.op = "NtCreateFile" /\ told'.ok =>
         LET n == told'.info[1]
             i == told'.info[2]
         IN  /\ (i = "CREATED") = (n \notin Present(host))
             /\ i \in {"SUPERSEDED", "OVERWRITTEN", "CREATED"} => host'.len[host'.name[n]] = 0
             /\ i = "OPENED" => host'.len = host.len]_filesVars
\* A call that fails has changed no file, no name and no descriptor; fopen with
\* mode w or a may have made or truncated the file when it found the pool full.
FailureChangesNothing ==
    [][~told'.ok /\ told'.op # "fopenw" =>
         host'.name = host.name /\ host'.len = host.len /\ Free(host') = Free(host)]_filesVars
\* A file loses its name only to a call that deletes or that is to replace.
NothingLost ==
    [][told'.op \notin {"unlink", "rename", "NtClose"} => Range(host.name) \subseteq Range(host'.name) \cup {NONE}]_filesVars

\* Every handle stands for what it was opened as: one owner per descriptor, no
\* byte pushed back by a former user of the slot, its own child, each directory entry once.
HandlesOwned == FilesTypeOK /\ DescriptorsOwned /\ NoStalePushback /\ PcloseOwnChild /\ ScanEachOnce
\* A call does what it reports: the Information is true, a failure changes nothing and no
\* file disappears by a call that does not delete.
CallsFaithful == InfoIsTrue /\ FailureChangesNothing /\ NothingLost
=============================================================================
