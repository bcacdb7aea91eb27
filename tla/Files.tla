------------------------------ MODULE Files ------------------------------
(***************************************************************************)
(* The file handles of the runtime.  Every layer hands out host descriptors: *)
(* _open and CreateFile as they are, stdio inside a pool of FILE structures  *)
(* with one byte of push-back, popen with a side table of host streams, the  *)
(* Nt layer with a table that remembers the path and the delete-on-close     *)
(* mark, file mappings and LZ handles in tables of their own.  A byte is     *)
(* known by its place in its file, so a file is its length.  held is a       *)
(* history variable: the handles the program has and has not closed, with    *)
(* what it asked of each; told is what the last call answered.               *)
(***************************************************************************)
EXTENDS HostFiles

CONSTANTS DynFiles,     \* slots of aret_dynfile, none of them in Std
          PopenSlots,   \* slots of aret_popen_tab
          Children,     \* processes popen has started and pclose not reaped
          NtSlots,      \* slots of g_ntfile
          MapSlots,     \* slots of aret_maps and of aret_views
          LzSlots,      \* slots of g_lz
          Clean         \* the program closes a handle through the layer that opened it, with NtClose once
                        \* the Nt layer knows it, and does not reopen or fsetpos a stream with a byte pushed back

ASSUME FilesAssumption == DynFiles \cap Std = {} /\ DynFiles \cup NtSlots \cup MapSlots \cup LzSlots \cup PopenSlots \cup Children \subseteq Nat

VARIABLES host, pool, ptab, ntfile, maps, views, lz, held, told

stdioVars == <<pool, ptab>>
tableVars == <<maps, views, lz>>
filesVars == <<host, pool, ptab, ntfile, maps, views, lz, held, told>>

FILEs == Std \cup DynFiles
Stream(u, f) == [used |-> u, fd |-> f, ungot |-> FALSE, eof |-> FALSE, err |-> FALSE]
NoEntry == [used |-> FALSE, fd |-> 0, del |-> FALSE, path |-> NONE, snap |-> NONE]
NoHost == [file |-> NONE, fd |-> NONE, child |-> NONE]
NoBuf == [used |-> FALSE, len |-> 0, pos |-> 0]

FilesInit ==
    /\ host = [name |-> [n \in Names |-> IF n = Min(Names) THEN 1 ELSE NONE],
               len |-> [i \in Inodes |-> IF i = 1 THEN 1 ELSE 0],
               fd |-> [f \in Fds |-> IF f \in Std THEN f ELSE NONE], desc |-> [f \in Fds |-> Blank]]
    /\ pool = [f \in FILEs |-> Stream(f \in Std, IF f \in Std THEN f ELSE 0)]
    /\ ptab = [i \in PopenSlots |-> NoHost]
    /\ ntfile = [i \in NtSlots |-> NoEntry]
    /\ maps = [i \in MapSlots |-> NONE] /\ views = [i \in MapSlots |-> NONE]
    /\ lz = [i \in LzSlots |-> NoBuf]
    /\ held = {}
    /\ told = [op |-> "start", ok |-> TRUE, info |-> NONE]

Told(op, ok, info) == told' = [op |-> op, ok |-> ok, info |-> info]
\* A handle as the program knows it.
Handle(k, n, f) == [k |-> k, n |-> n, fd |-> f, del |-> FALSE, kept |-> NONE, pushed |-> FALSE, child |-> NONE]
Of(kinds) == {h \in held : h.k \in kinds}
Nothing(op, info) == Told(op, FALSE, info) /\ UNCHANGED <<host, stdioVars, ntfile, tableVars, held>>
\* The entries the Nt layer has for a descriptor.
Entries(f) == {i \in NtSlots : ntfile[i].used /\ ntfile[i].fd = f}
\* The least unused slot of a table, or NONE.
Slot(S) == IF S = {} THEN NONE ELSE Min(S)

-----------------------------------------------------------------------------
(* Descriptors: _open, CreateFile, _lopen, _lcreat, OpenFile.                  *)
Access(rd, wr) == IF wr THEN {"wr"} ELSE {}
open_flags(wr, bits) == Access(TRUE, wr) \cup bits
open_named_flags(wr, disposition) ==
    Access(TRUE, wr) \cup CASE disposition = "CREATE_NEW" -> {"creat", "excl"}
                            [] disposition = "CREATE_ALWAYS" -> {"creat", "trunc"}
                            [] disposition = "OPEN_EXISTING" -> {}
                            [] disposition = "OPEN_ALWAYS" -> {"creat"}
                            [] disposition = "TRUNCATE_EXISTING" -> {"trunc"}
OpenFd(op, n, fl) ==
    LET o == HOpen(host, n, fl)
    IN  /\ host' = o.host
        /\ held' = IF o.fd = NONE THEN held ELSE held \cup {Handle("fd", NONE, o.fd)}
        /\ Told(op, o.fd # NONE, NONE)
        /\ UNCHANGED <<stdioVars, ntfile, tableVars>>
open(n, wr, bits) == OpenFd("call", n, open_flags(wr, bits))
CreateFile(n, wr, disposition) == OpenFd("call", n, open_named_flags(wr, disposition))
lopen(n, wr) == OpenFd("call", n, Access(TRUE, wr))
lcreat(n) == OpenFd("call", n, {"wr", "creat", "trunc"})
\* Without OF_DELETE OpenFile is _lcreat or _lopen.
OpenFileDelete(n) ==
    /\ host' = HUnlink(host, n)
    /\ Told("unlink", n \in Present(host), NONE)
    /\ UNCHANGED <<stdioVars, ntfile, tableVars, held>>
OpenFile(n, style) ==
    CASE style = "delete" -> OpenFileDelete(n)
      [] style = "create" -> lcreat(n)
      [] style = "write" -> lopen(n, TRUE)
      [] style = "read" -> lopen(n, FALSE)
pipe ==
    LET r == HOpenOther(host)
        w == HOpenOther(r.host)
    IN  IF r.fd = NONE \/ w.fd = NONE THEN Nothing("call", NONE)
        ELSE /\ host' = w.host
             /\ held' = held \cup {Handle("fd", NONE, r.fd), Handle("fd", NONE, w.fd)}
             /\ Told("call", TRUE, NONE)
             /\ UNCHANGED <<stdioVars, ntfile, tableVars>>
\* A standard descriptor may be closed too; the next open takes its number.  No entry is looked for.
close(f) ==
    /\ IsOpen(host, f) /\ (Clean => Entries(f) = {})
    /\ f \in Std \/ \E h \in Of({"fd"}) : h.fd = f
    /\ ~\E h \in held \ Of({"fd"}) : h.fd = f
    /\ host' = HClose(host, f)
    /\ held' = {h \in held : h.fd # f}
    /\ Told("call", TRUE, NONE)
    /\ UNCHANGED <<stdioVars, ntfile, tableVars>>
dup(h) ==
    /\ IF Free(host) = {} THEN UNCHANGED <<host, held>>
       ELSE /\ host' = HDup2(host, h.fd, Min(Free(host)))
            /\ held' = held \cup {Handle("fd", NONE, Min(Free(host)))}
    /\ Told("call", Free(host) # {}, NONE)
    /\ UNCHANGED <<stdioVars, ntfile, tableVars>>
dup2(a, b) ==
    /\ IsOpen(host, b.fd)
    /\ host' = HDup2(host, a.fd, b.fd)
    /\ Told("call", TRUE, NONE)
    /\ UNCHANGED <<stdioVars, ntfile, tableVars, held>>
\* read, ReadFile, _lread; write, WriteFile, _lwrite; lseek, SetFilePointer, _llseek.
read(h, more) ==
    LET some == HasByte(host, h.fd, more)
    IN  /\ host' = IF some THEN HRead(host, h.fd) ELSE host
        /\ Told("call", some, NONE)
        /\ UNCHANGED <<stdioVars, ntfile, tableVars, held>>
write(h) ==
    /\ Regular(host, h.fd) => WritePos(host, h.fd) < MaxLen
    /\ host' = IF CanWrite(host, h.fd) THEN HWrite(host, h.fd) ELSE host
    /\ Told("call", CanWrite(host, h.fd), NONE)
    /\ UNCHANGED <<stdioVars, ntfile, tableVars, held>>
\* With an OVERLAPPED the offset is its own and the file position stays.
WriteFile(h, off) ==
    LET can == CanTruncate(host, h.fd)
    IN  /\ off < MaxLen
        /\ host' = IF can THEN HTruncate(host, h.fd, Max({Size(host, h.fd), off + 1})) ELSE host
        /\ Told("call", can, NONE)
        /\ UNCHANGED <<stdioVars, ntfile, tableVars, held>>
ReadFile(h, off) ==
    /\ Told("call", IsOpen(host, h.fd), NONE)
    /\ UNCHANGED <<host, stdioVars, ntfile, tableVars, held>>
lseek(h, p) ==
    /\ Regular(host, h.fd)
    /\ host' = HSeek(host, h.fd, p)
    /\ Told("call", TRUE, NONE)
    /\ UNCHANGED <<stdioVars, ntfile, tableVars, held>>
\* _chsize; SetEndOfFile, which cuts at the position.
chsize(h, n) ==
    LET can == CanTruncate(host, h.fd)
    IN  /\ host' = IF can THEN HTruncate(host, h.fd, n) ELSE host
        /\ Told("call", can, NONE)
        /\ UNCHANGED <<stdioVars, ntfile, tableVars, held>>
SetEndOfFile(h) == Regular(host, h.fd) /\ chsize(h, host.desc[host.fd[h.fd]].pos)

-----------------------------------------------------------------------------
(* Names.                                                                      *)
DeleteFile(n) == OpenFileDelete(n)
MoveFile(a, b) ==
    /\ host' = IF a \in Present(host) THEN HRename(host, a, b) ELSE host
    /\ Told("rename", a \in Present(host), NONE)
    /\ UNCHANGED <<stdioVars, ntfile, tableVars, held>>
remove(n) == OpenFileDelete(n)
rename(a, b) == MoveFile(a, b)
\* Clears the way for rename first.
MoveClearsTarget(a, b, replace) ==
    IF ~replace /\ b \in Present(host) THEN Nothing("call", NONE)
    ELSE LET H == IF a # b THEN HUnlink(host, b) ELSE host
         IN  /\ host' = IF a \in Present(H) THEN HRename(H, a, b) ELSE H
             /\ Told(IF replace THEN "rename" ELSE "call", a \in Present(host), NONE)
             /\ UNCHANGED <<stdioVars, ntfile, tableVars, held>>
\* Leaves the check to rename.
MoveUnchecked(a, b, replace) ==
    /\ host' = IF a \in Present(host) THEN HRename(host, a, b) ELSE host
    /\ Told(IF replace THEN "rename" ELSE "call", a \in Present(host), NONE)
    /\ UNCHANGED <<stdioVars, ntfile, tableVars, held>>
movefileex(a, b, replace) ==
    IF ~replace /\ b \in Present(host) THEN Nothing("call", NONE)
    ELSE /\ host' = IF a \in Present(host) THEN HRename(host, a, b) ELSE host
         /\ Told(IF replace THEN "rename" ELSE "call", a \in Present(host), NONE)
         /\ UNCHANGED <<stdioVars, ntfile, tableVars, held>>

-----------------------------------------------------------------------------
(* stdio over descriptors: the FILE structures the program sees, and popen.   *)

file_fd(f) == IF f \in Std THEN f ELSE pool[f].fd
StdHandles == {Handle("iob", f, f) : f \in Std}
Streams == Of({"stream", "pipe"}) \cup StdHandles
\* The program's view of stream h after a call: does it still wait for a byte it pushed back?
Pushed(h, b) == IF h \in held THEN (held \ {h}) \cup {[h EXCEPT !.pushed = b]} ELSE held

\* Keeps what the last user of the slot left in it.
AllocKeepsFields(f) == LET i == Slot({j \in DynFiles : ~pool[j].used})
                       IN  [file |-> i, pool |-> IF i = NONE THEN pool ELSE [pool EXCEPT ![i].used = TRUE, ![i].fd = f]]
alloc_dynfile(f) == LET i == Slot({j \in DynFiles : ~pool[j].used})
                    IN  [file |-> i, pool |-> IF i = NONE THEN pool ELSE [pool EXCEPT ![i] = Stream(TRUE, f)]]
free_dynfile(f) == IF f \in DynFiles THEN [pool EXCEPT ![f].used = FALSE] ELSE pool

\* Forgets the descriptor when there is no slot for it.
WrapLeaks(op, o) ==
    LET a == alloc_dynfile(o.fd)
    IN  IF o.fd = NONE \/ a.file = NONE THEN Told(op, FALSE, NONE) /\ host' = o.host /\ UNCHANGED <<stdioVars, ntfile, tableVars, held>>
        ELSE /\ host' = o.host /\ pool' = a.pool
             /\ held' = held \cup {Handle("stream", a.file, o.fd)}
             /\ Told(op, TRUE, NONE)
             /\ UNCHANGED <<ptab, ntfile, tableVars>>
\* The common end of fopen, _wfopen and tmpfile: o is what the open returned.
Wrap(op, o) ==
    LET a == alloc_dynfile(o.fd)
    IN  IF o.fd = NONE THEN Nothing(op, NONE)
        ELSE IF a.file = NONE
             THEN host' = HClose(o.host, o.fd) /\ Told(op, FALSE, NONE) /\ UNCHANGED <<stdioVars, ntfile, tableVars, held>>
        ELSE /\ host' = o.host /\ pool' = a.pool
             /\ held' = held \cup {Handle("stream", a.file, o.fd)}
             /\ Told(op, TRUE, NONE)
             /\ UNCHANGED <<ptab, ntfile, tableVars>>
fopen_mode_flags(mode) ==
    CASE mode = "r" -> {} [] mode = "r+" -> {"wr"}
      [] mode = "w" -> {"wr", "creat", "trunc"} [] mode = "a" -> {"wr", "creat", "app"}
\* With the pool full the file has been made or truncated all the same.
fopen(n, mode) == Wrap(IF mode \in {"w", "a"} THEN "fopenw" ELSE "call", HOpen(host, n, fopen_mode_flags(mode)))
tmpfile == Wrap("call", HAnonymous(host))
fclose(h) ==
    /\ Clean => h.k # "pipe" /\ Entries(h.fd) = {}
    /\ host' = IF h.fd \notin Std THEN HClose(host, h.fd) ELSE host
    /\ pool' = free_dynfile(h.n)
    /\ held' = held \ {h}
    /\ Told("call", TRUE, NONE)
    /\ UNCHANGED <<ptab, ntfile, tableVars>>
fdopen(h) ==
    LET a == alloc_dynfile(h.fd)
    IN  IF a.file = NONE THEN Nothing("call", NONE)
        ELSE /\ pool' = a.pool
             /\ held' = (held \ {h}) \cup {Handle("stream", a.file, h.fd)}
             /\ Told("call", TRUE, NONE)
             /\ UNCHANGED <<host, ptab, ntfile, tableVars>>
freopen(n, mode, h) ==
    LET o == HOpen(host, n, fopen_mode_flags(mode))
    IN  /\ h.k # "pipe" /\ (Clean => ~pool[h.n].ungot)
        /\ IF o.fd = NONE THEN Nothing("call", NONE)
           ELSE IF o.fd = h.fd      \* dup2 onto itself, then closed
           THEN host' = HClose(o.host, o.fd) /\ Told("call", TRUE, NONE) /\ UNCHANGED <<stdioVars, ntfile, tableVars, held>>
           ELSE /\ host' = HClose(HDup2(o.host, o.fd, h.fd), o.fd)
                /\ held' = Pushed(h, FALSE)
                /\ Told("call", TRUE, NONE)
                /\ UNCHANGED <<stdioVars, ntfile, tableVars>>

-----------------------------------------------------------------------------
(* Bytes.                                                                      *)
pull_byte(h, more) ==
    LET s == pool[h.n]
        some == HasByte(host, file_fd(h.n), more)
    IN  /\ host' = IF ~s.ungot /\ some THEN HRead(host, file_fd(h.n)) ELSE host
        /\ pool' = IF s.ungot THEN [pool EXCEPT ![h.n].ungot = FALSE]
                   ELSE IF some THEN pool ELSE [pool EXCEPT ![h.n].eof = TRUE]
        /\ held' = Pushed(h, FALSE)
        /\ Told("call", s.ungot \/ some, NONE)
        /\ UNCHANGED <<ptab, ntfile, tableVars>>
getc(h, more) == pull_byte(h, more)
getwc(h, more) == pull_byte(h, more)
filbuf(h, more) == pull_byte(h, more)
\* A line of two bytes: the second comes as the first does, and the end between them is marked.
fgets(h, more) ==
    LET s == pool[h.n]
        f == file_fd(h.n)
        one == s.ungot \/ HasByte(host, f, more)
        H == IF ~s.ungot /\ one THEN HRead(host, f) ELSE host
        two == one /\ HasByte(H, f, more)
    IN  /\ host' = IF two THEN HRead(H, f) ELSE H
        /\ pool' = [pool EXCEPT ![h.n].ungot = FALSE, ![h.n].eof = @ \/ ~two]
        /\ held' = Pushed(h, FALSE)
        /\ Told("call", one, NONE)
        /\ UNCHANGED <<ptab, ntfile, tableVars>>
\* Two bytes: the second is read past the push-back and never sets the end mark.
fread(h, more) ==
    LET s == pool[h.n]
        f == file_fd(h.n)
        one == s.ungot \/ HasByte(host, f, more)
        H == IF ~s.ungot /\ one THEN HRead(host, f) ELSE host
    IN  /\ host' = IF one /\ HasByte(H, f, more) THEN HRead(H, f) ELSE H
        /\ pool' = [pool EXCEPT ![h.n].ungot = FALSE, ![h.n].eof = @ \/ ~one]
        /\ held' = Pushed(h, FALSE)
        /\ Told("call", one, NONE)
        /\ UNCHANGED <<ptab, ntfile, tableVars>>
\* Reads the terminal whatever stdin has pushed back.
getchar(more) ==
    /\ host' = IF HasByte(host, Min(Std), more) THEN HRead(host, Min(Std)) ELSE host
    /\ Told("call", HasByte(host, Min(Std), more), NONE)
    /\ UNCHANGED <<stdioVars, ntfile, tableVars, held>>
ungetc(h) ==
    /\ pool' = [pool EXCEPT ![h.n].ungot = TRUE, ![h.n].eof = FALSE]
    /\ held' = Pushed(h, TRUE)
    /\ Told("call", TRUE, NONE)
    /\ UNCHANGED <<host, ptab, ntfile, tableVars>>
\* A write whose failure nobody is told of.
stdio_write(f) ==
    /\ Regular(host, f) => WritePos(host, f) < MaxLen
    /\ host' = IF CanWrite(host, f) THEN HWrite(host, f) ELSE host
    /\ Told("call", TRUE, NONE)
    /\ UNCHANGED <<stdioVars, ntfile, tableVars, held>>
fwrite(h) == stdio_write(file_fd(h.n))
fputs(h) == stdio_write(file_fd(h.n))
fputc(h) == stdio_write(file_fd(h.n))
putwc(h) == stdio_write(file_fd(h.n))
fprintf(h) == stdio_write(file_fd(h.n))
vfprintf(h) == stdio_write(file_fd(h.n))
\* To the descriptor of the standard output.
putchar == stdio_write(Max(Std))
printf == stdio_write(Max(Std))
vprintf == stdio_write(Max(Std))
\* What putc falls back on notes the failure.
flsbuf(h) ==
    LET f == file_fd(h.n)
    IN  /\ Regular(host, f) => WritePos(host, f) < MaxLen
        /\ host' = IF CanWrite(host, f) THEN HWrite(host, f) ELSE host
        /\ pool' = [pool EXCEPT ![h.n].err = @ \/ ~CanWrite(host, f)]
        /\ Told("call", CanWrite(host, f), NONE)
        /\ UNCHANGED <<ptab, ntfile, tableVars, held>>
ungetwc(h) == ungetc(h)
fseek(h, p) ==
    /\ host' = IF Regular(host, file_fd(h.n)) THEN HSeek(host, file_fd(h.n), p) ELSE host
    /\ pool' = [pool EXCEPT ![h.n].ungot = FALSE, ![h.n].eof = FALSE]
    /\ held' = Pushed(h, FALSE)
    /\ Told("call", Regular(host, file_fd(h.n)), NONE)
    /\ UNCHANGED <<ptab, ntfile, tableVars>>
rewind(h) ==
    /\ host' = IF Regular(host, file_fd(h.n)) THEN HSeek(host, file_fd(h.n), 0) ELSE host
    /\ pool' = [pool EXCEPT ![h.n].ungot = FALSE, ![h.n].eof = FALSE, ![h.n].err = FALSE]
    /\ held' = Pushed(h, FALSE)
    /\ Told("call", TRUE, NONE)
    /\ UNCHANGED <<ptab, ntfile, tableVars>>
fsetpos(h, p) ==
    /\ Clean => ~pool[h.n].ungot
    /\ host' = IF Regular(host, file_fd(h.n)) THEN HSeek(host, file_fd(h.n), p) ELSE host
    /\ held' = Pushed(h, FALSE)
    /\ Told("call", Regular(host, file_fd(h.n)), NONE)
    /\ UNCHANGED <<stdioVars, ntfile, tableVars>>
clearerr(h) ==
    /\ pool' = [pool EXCEPT ![h.n].eof = FALSE, ![h.n].err = FALSE]
    /\ Told("call", TRUE, NONE)
    /\ UNCHANGED <<host, ptab, ntfile, tableVars, held>>

-----------------------------------------------------------------------------
(* Commands.                                                                   *)
Running == {ptab[i].child : i \in PopenSlots} \cup {h.child : h \in held}
popen ==
    LET o == HOpenOther(host)
        a == alloc_dynfile(o.fd)
        c == Slot(Children \ Running)
        i == Slot({j \in PopenSlots : ptab[j] = NoHost})
    IN  /\ c # NONE
        /\ IF o.fd = NONE \/ a.file = NONE THEN Nothing("call", NONE)
           ELSE /\ host' = o.host /\ pool' = a.pool
                /\ ptab' = IF i = NONE THEN ptab ELSE [ptab EXCEPT ![i] = [file |-> a.file, fd |-> o.fd, child |-> c]]
                /\ held' = held \cup {[Handle("pipe", a.file, o.fd) EXCEPT !.child = c]}
                /\ Told("call", TRUE, NONE)
                /\ UNCHANGED <<ntfile, tableVars>>
\* The entry is left in the table.
PcloseKeepsEntry(h) ==
    LET i == Slot({j \in PopenSlots : ptab[j].file = h.n})
    IN  IF i = NONE THEN Nothing("pclose", h.child)
        ELSE /\ host' = HClose(host, ptab[i].fd)
             /\ pool' = free_dynfile(h.n)
             /\ held' = held \ {h}
             /\ Told("pclose", TRUE, <<h.child, ptab[i].child>>)
             /\ UNCHANGED <<ptab, ntfile, tableVars>>
\* Answers with the status of the child it has waited for.
pclose(h) ==
    LET i == Slot({j \in PopenSlots : ptab[j].file = h.n})
    IN  IF i = NONE THEN Nothing("pclose", NONE)
        ELSE /\ host' = HClose(host, ptab[i].fd)
             /\ pool' = free_dynfile(h.n)
             /\ ptab' = [ptab EXCEPT ![i] = NoHost]
             /\ held' = held \ {h}
             /\ Told("pclose", TRUE, <<h.child, ptab[i].child>>)
             /\ UNCHANGED <<ntfile, tableVars>>
=============================================================================
