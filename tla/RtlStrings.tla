----------------------------- MODULE RtlStrings -----------------------------
(***************************************************************************)
(* The counted strings of ntdll: a STRING of bytes and a UNICODE_STRING of   *)
(* 16-bit units, each with Length and MaximumLength in bytes (16-bit fields, *)
(* so they wrap at USHORT) and a Buffer.  A Buffer is the sequence of units  *)
(* of its memory block, and room their number when the block was made: a     *)
(* write past the end makes the sequence longer.  A C string is a sequence   *)
(* without its terminator, or NULL.                                          *)
(***************************************************************************)
EXTENDS CTexts, SequencesExt, FiniteSetsExt

CONSTANTS USHORT,       \* 2^16, the modulus of the length fields
          Texts,        \* the byte strings and the wide strings the program uses
          WideTexts,
          Rooms         \* the sizes of the buffers it provides

ASSUME RtlAssumption == USHORT \in Nat /\ USHORT % 2 = 0 /\ USHORT >= 8 /\ Rooms \subseteq 0..(USHORT - 1)

VARIABLES ansi, uni,    \* the program's two strings
          know,         \* what each is meant to hold: [ok, text, nul]
          status        \* of the last call
rtlStrVars == <<ansi, uni, know, status>>

Str(len, max, buf) ==
    [Length |-> len % USHORT, MaximumLength |-> max % USHORT, Buffer |-> buf, room |-> IF buf = NULL THEN 0 ELSE Len(buf)]
Zeroed == Str(0, 0, NULL)
Done(s) == [status |-> "SUCCESS", to |-> s]
Refused(e, s) == [status |-> e, to |-> s]
Put(buf, at, units) ==
    IF units = <<>> THEN buf ELSE SubSeq(buf, 1, at) \o units \o SubSeq(buf, at + Len(units) + 1, Len(buf))
Block(n) == [i \in 1..n |-> 1]          \* a new block: no terminator in it
Units(s, size) == IF s.Buffer = NULL THEN <<>> ELSE SubSeq(s.Buffer, 1, s.Length \div size)

-----------------------------------------------------------------------------
(* The code pages, on an excerpt of the bytes and of the two reverse tables.  *)
u32_ansi_cp(b) == IF b = 158 THEN 382 ELSE b
aret_cp437_fwd(b) == IF b = 158 THEN 8359 ELSE b
SameInBoth == <<<<0, 0>>, <<63, 63>>, <<65, 65>>, <<80, 80>>, <<90, 90>>, <<97, 97>>, <<122, 122>>>>
Rev1252 == SameInBoth \o <<<<382, 158>>, <<8359, 80>>>>
Rev437 == SameInBoth \o <<<<382, 122>>, <<8359, 158>>>>

\* Never looks at the last entry that is left.
RevByteShort(tab, cp) ==
    LET f[lo \in 1..(Len(tab) + 1), hi \in 0..Len(tab)] ==
            LET m == (lo + hi) \div 2 IN
            IF lo >= hi THEN -1 ELSE IF tab[m][1] = cp THEN tab[m][2]
            ELSE IF tab[m][1] < cp THEN f[m + 1, hi] ELSE f[lo, m - 1]
    IN  f[1, Len(tab)]
\* The binary search in a reverse table: the byte of a code point, or -1.
aret_cp1252_rev_byte(tab, cp) ==
    LET f[lo \in 1..(Len(tab) + 1), hi \in 0..Len(tab)] ==
            LET m == (lo + hi) \div 2 IN
            IF lo > hi THEN -1 ELSE IF tab[m][1] = cp THEN tab[m][2]
            ELSE IF tab[m][1] < cp THEN f[m + 1, hi] ELSE f[lo, m - 1]
    IN  f[1, Len(tab)]
OrDefault(b) == IF b < 0 THEN 63 ELSE b
aret_cp1252_to_wc(text) == [i \in DOMAIN text |-> u32_ansi_cp(text[i])]
aret_cp1252_from_wc(text) == [i \in DOMAIN text |-> OrDefault(aret_cp1252_rev_byte(Rev1252, text[i]))]
aret_cp437_to_wc(text) == [i \in DOMAIN text |-> aret_cp437_fwd(text[i])]
aret_cp437_from_wc(text) == [i \in DOMAIN text |-> OrDefault(aret_cp1252_rev_byte(Rev437, text[i]))]

\* The kernel32 pair: a negative source length takes the terminator with the text, a zero
\* room only measures, and a room too small gets the beginning.
Converted(conv, n, room) ==
    IF room = 0 THEN [ret |-> n, dst |-> <<>>] ELSE [ret |-> Least(n, room), dst |-> First(conv, Least(n, room))]
SourceLen(text, srclen) == IF srclen < 0 THEN Len(text) + 1 ELSE srclen
aret_MultiByteToWideChar(cp, text, srclen, room) ==
    LET z == Append(text, 0)
    IN  Converted(IF cp = "acp" THEN aret_cp1252_to_wc(z) ELSE IF cp = "oem" THEN aret_cp437_to_wc(z) ELSE z,
                  SourceLen(text, srclen), room)
aret_WideCharToMultiByte(cp, text, srclen, room) ==
    LET z == Append(text, 0)
    IN  Converted(IF cp = "acp" THEN aret_cp1252_from_wc(z) ELSE IF cp = "oem" THEN aret_cp437_from_wc(z)
                  ELSE [i \in DOMAIN z |-> z[i] % 256], SourceLen(text, srclen), room)

-----------------------------------------------------------------------------
(* Initialising, creating and freeing.                                        *)
RtlInitAnsiString(source) ==
    IF source = NULL THEN Zeroed ELSE Str(Len(source), (Len(source) % USHORT) + 1, Append(source, 0))
RtlInitAnsiStringEx(target, source) ==
    IF source = NULL THEN Done(Zeroed)
    ELSE IF Len(source) + 1 > USHORT - 1 THEN Refused("NAME_TOO_LONG", target)
    ELSE Done(Str(Len(source), Len(source) + 1, Append(source, 0)))
RtlFreeAnsiString(str) == IF str.Buffer = NULL THEN str ELSE Zeroed
RtlInitUnicodeString(source) ==
    LET length == Least(Len(source) * 2, USHORT - 4)
    IN  IF source = NULL THEN Zeroed ELSE Str(length, length + 2, Append(source, 0))
RtlInitUnicodeStringEx(target, source) ==
    IF source = NULL THEN Done(Zeroed)
    ELSE IF Len(source) * 2 > USHORT - 4 THEN Refused("NAME_TOO_LONG", target)
    ELSE Done(Str(Len(source) * 2, Len(source) * 2 + 2, Append(source, 0)))
RtlCreateUnicodeString(target, src, oom) ==
    LET len == (Len(src) + 1) * 2
    IN  IF oom THEN Refused("FALSE", [target EXCEPT !.Buffer = NULL]) ELSE Done(Str(len - 2, len, Append(src, 0)))
RtlFreeUnicodeString(str) == IF str.Buffer = NULL THEN str ELSE Zeroed

(* Copying: what fits is copied, and the wide copy adds a terminator if some  *)
(* room is left.                                                              *)
RtlCopyString(dst, src) ==
    LET len == Least(src.Length, dst.MaximumLength)
    IN  IF src = NULL THEN [dst EXCEPT !.Length = 0]
        ELSE [dst EXCEPT !.Length = len, !.Buffer = Put(@, 0, First(Units(src, 1), len))]
\* Terminates even when the text fills the buffer.
CopyAlwaysTerminates(dst, src) ==
    LET len == Least(src.Length, dst.MaximumLength)
        copied == Put(dst.Buffer, 0, First(Units(src, 2), len \div 2))
    IN  IF src = NULL THEN [dst EXCEPT !.Length = 0]
        ELSE [dst EXCEPT !.Length = len, !.Buffer = IF @ = NULL THEN @ ELSE Put(copied, len \div 2, <<0>>)]
RtlCopyUnicodeString(dst, src) ==
    LET len == Least(src.Length, dst.MaximumLength)
        copied == Put(dst.Buffer, 0, First(Units(src, 2), len \div 2))
    IN  IF src = NULL THEN [dst EXCEPT !.Length = 0]
        ELSE [dst EXCEPT !.Length = len,
                         !.Buffer = IF len < dst.MaximumLength THEN Put(copied, len \div 2, <<0>>) ELSE copied]
RtlDuplicateUnicodeString(add_nul, source, destination, oom) ==
    LET max == source.Length + (IF add_nul # 0 THEN 2 ELSE 0)
    IN  IF \/ source.Length > source.MaximumLength
           \/ source.Length = 0 /\ source.MaximumLength > 0 /\ source.Buffer = NULL
           \/ add_nul \notin {0, 1, 3} THEN Refused("INVALID_PARAMETER", destination)
        ELSE IF source.Length = 0 /\ add_nul # 3 THEN Done(Zeroed)
        ELSE IF oom THEN Refused("NO_MEMORY", [destination EXCEPT !.Buffer = NULL])
        ELSE Done(Str(source.Length, max, Units(source, 2) \o (IF add_nul # 0 THEN <<0>> ELSE <<>>)))
RtlEraseUnicodeString(str) ==
    IF str.Buffer = NULL THEN str
    ELSE [str EXCEPT !.Length = 0, !.Buffer = Put(@, 0, [i \in 1..(str.MaximumLength \div 2) |-> 0])]

-----------------------------------------------------------------------------
(* Conversions.  The size functions count the terminator; the converters       *)
(* write no more than the room they are given.                                 *)
RtlAnsiStringToUnicodeSize(str) == str.Length * 2 + 2
RtlUnicodeStringToAnsiSize(str) == str.Length \div 2 + 1
RtlMultiByteToUnicodeN(dl, text) == aret_cp1252_to_wc(First(text, dl \div 2))
RtlOemToUnicodeN(dl, text) == aret_cp437_to_wc(First(text, dl \div 2))
RtlUnicodeToMultiByteN(dl, text) == aret_cp1252_from_wc(First(text, dl))
RtlUnicodeToOemN(dl, text) == aret_cp437_from_wc(First(text, dl))
RtlUpcaseUnicodeToOemN(dl, text) == Upper(First(text, dl))
ascii_only_w(text) == \A i \in DOMAIN text : text[i] <= 127

Target(to, bytes, size, doalloc) == IF doalloc THEN Str(0, bytes, Block(bytes \div size)) ELSE to
\* The tail of the two widening calls, given the converted text; Length is set before the
\* room is looked at, so a refusal leaves it behind.
Widened(to, total, text, doalloc, oom) ==
    LET len == total - 2
    IN  IF doalloc /\ oom THEN Refused("NO_MEMORY", Str(len, total, NULL))
        ELSE IF ~doalloc /\ total > to.MaximumLength THEN Refused("BUFFER_OVERFLOW", [to EXCEPT !.Length = len])
        ELSE Done([Target(to, total, 2, doalloc) EXCEPT !.Length = len, !.Buffer = Put(Put(@, 0, text), len \div 2, <<0>>)])
RtlAnsiStringToUnicodeString(to, from, doalloc, oom) ==
    LET total == RtlAnsiStringToUnicodeSize(from)
    IN  IF total > USHORT - 1 THEN Refused("INVALID_PARAMETER_2", to)
        ELSE Widened(to, total, RtlMultiByteToUnicodeN(total - 2, Units(from, 1)), doalloc, oom)
RtlOemStringToUnicodeString(to, from, doalloc, oom) ==
    LET total == (from.Length + 1) * 2
    IN  IF total > USHORT - 1 THEN Refused("INVALID_PARAMETER_2", to)
        ELSE Widened(to, total, RtlOemToUnicodeN(total - 2, Units(from, 1)), doalloc, oom)
RtlCreateUnicodeStringFromAsciiz(target, src, oom) ==
    LET r == RtlAnsiStringToUnicodeString(target, RtlInitAnsiString(src), TRUE, oom)
    IN  IF r.status = "SUCCESS" THEN r ELSE Refused("FALSE", r.to)

\* How long the narrowed text becomes: all of it, or what a room too small leaves.
NarrowLen(to, len, doalloc) == IF ~doalloc /\ to.MaximumLength < len THEN to.MaximumLength - 1 ELSE len - 1
\* Converts into a buffer that has no room at all.
NarrowedIntoNothing(to, len, text, doalloc, oom) ==
    LET n == NarrowLen(to, len, doalloc)
    IN  IF doalloc /\ oom THEN Refused("NO_MEMORY", Str(len - 1, len, NULL))
        ELSE [status |-> IF n < len - 1 THEN "BUFFER_OVERFLOW" ELSE "SUCCESS",
              to |-> [Target(to, len, 1, doalloc) EXCEPT !.Length = n, !.Buffer = IF @ = NULL THEN @ ELSE Put(Put(@, 0, text), n, <<0>>)]]
Narrowed(to, len, text, doalloc, oom) ==
    LET n == NarrowLen(to, len, doalloc)
    IN  IF doalloc /\ oom THEN Refused("NO_MEMORY", Str(len - 1, len, NULL))
        ELSE IF ~doalloc /\ to.MaximumLength = 0 THEN Refused("BUFFER_OVERFLOW", [to EXCEPT !.Length = len - 1])
        ELSE [status |-> IF n < len - 1 THEN "BUFFER_OVERFLOW" ELSE "SUCCESS",
              to |-> [Target(to, len, 1, doalloc) EXCEPT !.Length = n, !.Buffer = Put(Put(@, 0, text), n, <<0>>)]]
RtlUnicodeStringToAnsiString(to, from, doalloc, oom) ==
    LET len == RtlUnicodeStringToAnsiSize(from)
    IN  Narrowed(to, len, RtlUnicodeToMultiByteN(NarrowLen(to, len, doalloc), Units(from, 2)), doalloc, oom)
RtlUnicodeStringToOemString(to, from, doalloc, oom) ==
    LET len == from.Length \div 2 + 1
    IN  Narrowed(to, len, RtlUnicodeToOemN(NarrowLen(to, len, doalloc), Units(from, 2)), doalloc, oom)
\* The upcasing ones are exact for ASCII and stop the process otherwise.
UpcaseNarrowed(to, from, doalloc, oom) ==
    LET len == RtlUnicodeStringToAnsiSize(from)
        n == NarrowLen(to, len, doalloc)
    IN  IF ~(doalloc /\ oom) /\ (doalloc \/ to.MaximumLength > 0) /\ ~ascii_only_w(First(Units(from, 2), n))
        THEN Refused("ABORT", to)
        ELSE Narrowed(to, len, RtlUpcaseUnicodeToOemN(n, Units(from, 2)), doalloc, oom)
RtlUpcaseUnicodeStringToAnsiString(to, from, doalloc, oom) == UpcaseNarrowed(to, from, doalloc, oom)
RtlUpcaseUnicodeStringToOemString(to, from, doalloc, oom) == UpcaseNarrowed(to, from, doalloc, oom)
RtlUpcaseUnicodeStringToCountedOemString(to, from, doalloc, oom) ==
    LET len == from.Length \div 2
        short == ~doalloc /\ to.MaximumLength < len
        n == IF short THEN to.MaximumLength ELSE len
    IN  IF doalloc /\ oom THEN Refused("NO_MEMORY", Str(len, len, NULL))
        ELSE IF short /\ n = 0 THEN Refused("BUFFER_OVERFLOW", [to EXCEPT !.Length = 0])
        ELSE IF ~ascii_only_w(First(Units(from, 2), n)) THEN Refused("ABORT", to)
        ELSE [status |-> IF short THEN "BUFFER_OVERFLOW" ELSE "SUCCESS",
              to |-> [Target(to, len, 1, doalloc) EXCEPT !.Length = n, !.Buffer = Put(@, 0, RtlUpcaseUnicodeToOemN(n, Units(from, 2)))]]
RtlUpperString(dst, src) ==
    LET len == Least(src.Length, dst.MaximumLength)
    IN  [dst EXCEPT !.Length = len, !.Buffer = Put(@, 0, Upper(First(Units(src, 1), len)))]

(* Appending: all or nothing.                                                 *)
RtlAppendAsciizToString(dest, src) ==
    IF src = NULL THEN Done(dest)
    ELSE IF Len(src) + dest.Length > dest.MaximumLength THEN Refused("BUFFER_TOO_SMALL", dest)
    ELSE Done([dest EXCEPT !.Length = Len(src) + @, !.Buffer = Put(@, dest.Length, src)])
\* Copies to the start of the buffer.
AppendAtStart(dest, src) ==
    IF src.Length + dest.Length > dest.MaximumLength \/ src.Length = 0 THEN Refused("BUFFER_TOO_SMALL", dest)
    ELSE Done([dest EXCEPT !.Length = src.Length + @, !.Buffer = Put(@, 0, Units(src, 1))])
RtlAppendStringToString(dest, src) ==
    IF src.Length = 0 THEN Done(dest)
    ELSE IF src.Length + dest.Length > dest.MaximumLength THEN Refused("BUFFER_TOO_SMALL", dest)
    ELSE Done([dest EXCEPT !.Length = src.Length + @, !.Buffer = Put(@, dest.Length, Units(src, 1))])
\* Leaves out the terminator that would just fit.
WideAppendedTight(dest, text) ==
    LET len == dest.Length + Len(text) * 2
        joined == Put(dest.Buffer, dest.Length \div 2, text)
    IN  IF len > dest.MaximumLength THEN Refused("BUFFER_TOO_SMALL", dest)
        ELSE Done([dest EXCEPT !.Length = len,
                               !.Buffer = IF len + 2 < dest.MaximumLength THEN Put(joined, len \div 2, <<0>>) ELSE joined])
WideAppended(dest, text) ==
    LET len == dest.Length + Len(text) * 2
        joined == Put(dest.Buffer, dest.Length \div 2, text)
    IN  IF len > dest.MaximumLength THEN Refused("BUFFER_TOO_SMALL", dest)
        ELSE Done([dest EXCEPT !.Length = len,
                               !.Buffer = IF len + 2 <= dest.MaximumLength THEN Put(joined, len \div 2, <<0>>) ELSE joined])
RtlAppendUnicodeToString(dest, src) == IF src = NULL THEN Done(dest) ELSE WideAppended(dest, src)
RtlAppendUnicodeStringToString(dest, src) == IF src.Length = 0 THEN Done(dest) ELSE WideAppended(dest, Units(src, 2))

-----------------------------------------------------------------------------
(* A program with one string of each kind, that reads a string or gives its   *)
(* buffer away only while its last call on it went well.                      *)
Fact(ok, text, nul) == [ok |-> ok, text |-> text, nul |-> nul]
RtlStrInit ==
    /\ ansi = Zeroed /\ uni = Zeroed /\ status = "SUCCESS"
    /\ know = [a |-> Fact(TRUE, <<>>, FALSE), u |-> Fact(TRUE, <<>>, FALSE)]

\* A call on a string: on success it is meant to hold text; nul when the call promises a terminator.
OnAnsi(r, text, nul) ==
    /\ status # "ABORT" /\ ansi' = r.to /\ status' = r.status /\ UNCHANGED uni
    /\ know' = [know EXCEPT !.a = CASE r.status \in {"SUCCESS", "BUFFER_OVERFLOW"} /\ r.to.MaximumLength > 0 -> Fact(TRUE, text, nul)
                                    [] r.to = ansi -> @
                                    [] OTHER -> Fact(r.status = "SUCCESS", text, nul)]
OnUni(r, text, nul) ==
    /\ status # "ABORT" /\ uni' = r.to /\ status' = r.status /\ UNCHANGED ansi
    /\ know' = [know EXCEPT !.u = CASE r.status = "SUCCESS" -> Fact(TRUE, text, nul)
                                    [] r.to = uni -> @
                                    [] OTHER -> Fact(FALSE, text, nul)]
TextOf(source) == IF source = NULL THEN <<>> ELSE source

ProgramBuffer == \E n \in Rooms :
    \/ OnAnsi(Done(Str(0, n, Block(n))), <<>>, FALSE)
    \/ OnUni(Done(Str(0, n, Block(n \div 2))), <<>>, FALSE)
AnsiCalls == \E s \in Texts \cup {NULL} :
    \/ Len(TextOf(s)) < USHORT - 1 /\ OnAnsi(Done(RtlInitAnsiString(s)), TextOf(s), TRUE)
    \/ OnAnsi(RtlInitAnsiStringEx(ansi, s), TextOf(s), TRUE)
    \/ know.a.ok /\ \/ OnAnsi(RtlAppendAsciizToString(ansi, s), Units(ansi, 1) \o TextOf(s), FALSE)
                    \/ s # NULL /\ \/ OnAnsi(Done(RtlCopyString(ansi, Str(Len(s), Len(s), s))), s, FALSE)
                                   \/ OnAnsi(Done(RtlUpperString(ansi, Str(Len(s), Len(s), s))), Upper(s), FALSE)
                                   \/ OnAnsi(RtlAppendStringToString(ansi, Str(Len(s), Len(s), s)), Units(ansi, 1) \o s, FALSE)
                    \/ s = NULL /\ OnAnsi(Done(RtlFreeAnsiString(ansi)), <<>>, FALSE)
WideCalls == \E s \in WideTexts \cup {NULL}, oom \in BOOLEAN :
    \/ ~oom /\ OnUni(Done(RtlInitUnicodeString(s)), First(TextOf(s), (USHORT - 4) \div 2), Len(TextOf(s)) * 2 <= USHORT - 4)
    \/ ~oom /\ OnUni(RtlInitUnicodeStringEx(uni, s), TextOf(s), TRUE)
    \/ s # NULL /\ Len(s) * 2 + 2 < USHORT /\ OnUni(RtlCreateUnicodeString(uni, s, oom), s, TRUE)
    \/ know.u.ok /\ ~oom /\
         \/ OnUni(RtlAppendUnicodeToString(uni, s), Units(uni, 2) \o TextOf(s), s # NULL \/ know.u.nul)
         \/ s # NULL /\ uni.MaximumLength % 2 = 0 /\ OnUni(Done(RtlCopyUnicodeString(uni, Str(Len(s) * 2, Len(s) * 2, s))), s, TRUE)
         \/ s # NULL /\ OnUni(RtlAppendUnicodeStringToString(uni, Str(Len(s) * 2, Len(s) * 2, s)), Units(uni, 2) \o s, s # <<>> \/ know.u.nul)
         \/ s = NULL /\ (OnUni(Done(RtlFreeUnicodeString(uni)), <<>>, FALSE) \/ OnUni(Done(RtlEraseUnicodeString(uni)), <<>>, TRUE))
DuplicateCall == \E n \in -1..4, oom \in BOOLEAN :
    know.u.ok /\ (n # 0 => uni.Length + 2 < USHORT) /\ OnUni(RtlDuplicateUnicodeString(n, uni, uni, oom), Units(uni, 2), n # 0)
Conversions == \E doalloc, oom \in BOOLEAN :
    /\ oom => doalloc
    /\ \/ /\ know.a.ok /\ (doalloc \/ know.u.ok)
          /\ \/ OnUni(RtlAnsiStringToUnicodeString(uni, ansi, doalloc, oom), aret_cp1252_to_wc(Units(ansi, 1)), TRUE)
             \/ OnUni(RtlOemStringToUnicodeString(uni, ansi, doalloc, oom), aret_cp437_to_wc(Units(ansi, 1)), TRUE)
             \/ doalloc /\ know.a.nul /\ OnUni(RtlCreateUnicodeStringFromAsciiz(uni, Units(ansi, 1), oom), aret_cp1252_to_wc(Units(ansi, 1)), TRUE)
       \/ /\ know.u.ok /\ (doalloc \/ know.a.ok)
          /\ \/ OnAnsi(RtlUnicodeStringToAnsiString(ansi, uni, doalloc, oom), aret_cp1252_from_wc(Units(uni, 2)), TRUE)
             \/ OnAnsi(RtlUnicodeStringToOemString(ansi, uni, doalloc, oom), aret_cp437_from_wc(Units(uni, 2)), TRUE)
             \/ OnAnsi(RtlUpcaseUnicodeStringToAnsiString(ansi, uni, doalloc, oom), Upper(Units(uni, 2)), TRUE)
             \/ OnAnsi(RtlUpcaseUnicodeStringToOemString(ansi, uni, doalloc, oom), Upper(Units(uni, 2)), TRUE)
             \/ OnAnsi(RtlUpcaseUnicodeStringToCountedOemString(ansi, uni, doalloc, oom), Upper(Units(uni, 2)), FALSE)
RtlStrNext == ProgramBuffer \/ AnsiCalls \/ WideCalls \/ DuplicateCall \/ Conversions

-----------------------------------------------------------------------------
(* Properties.                                                                *)

RtlStrTypeOK ==
    /\ \A s \in {ansi, uni} : s.Length \in 0..(USHORT - 1) /\ s.MaximumLength \in 0..(USHORT - 1)
    /\ know.a.ok \in BOOLEAN /\ know.u.ok \in BOOLEAN /\ status \in STRING

\* However calls on a string follow one another, MaximumLength claims no more than its block
\* holds, no call has written past it, and Length stays inside it unless the last call was refused.
BufferBounds ==
    \A p \in {<<ansi, 1, know.a>>, <<uni, 2, know.u>>} :
        p[3].ok => /\ p[1].Length <= p[1].MaximumLength
                   /\ p[1].Buffer # NULL => Len(p[1].Buffer) = p[1].room
                   /\ p[1].MaximumLength \div p[2] <= p[1].room

\* A string holds what was put into it, or as much of its beginning as the room takes;
\* an append or a refused call changes nothing before it.
HoldsText ==
    /\ know.a.ok => IsPrefix(Units(ansi, 1), know.a.text)
    /\ know.u.ok => IsPrefix(Units(uni, 2), know.u.text)
    /\ know.a.ok /\ ansi.Length < Len(know.a.text) => ansi.Length + 1 >= ansi.MaximumLength
    /\ know.u.ok /\ uni.Length < 2 * Len(know.u.text) => uni.Length + 2 >= uni.MaximumLength

\* A call that promises a terminator left one behind the text wherever the room allowed it.
Terminated ==
    /\ know.a.ok /\ know.a.nul /\ ansi.Buffer # NULL /\ ansi.Length < ansi.MaximumLength => ansi.Buffer[ansi.Length + 1] = 0
    /\ know.u.ok /\ know.u.nul /\ uni.Buffer # NULL /\ uni.Length + 2 <= uni.MaximumLength => uni.Buffer[uni.Length \div 2 + 1] = 0

\* The binary searches find every entry of their tables and nothing else, so text of the
\* page comes back from a round trip through either interface, measured size and all.
PagesRoundTrip ==
    /\ \A t \in {Rev1252, Rev437}, cp \in {0, 63, 64, 65, 97, 122, 382, 8359, 19968} :
          LET b == aret_cp1252_rev_byte(t, cp)
          IN  IF \E i \in DOMAIN t : t[i][1] = cp THEN <<cp, b>> \in {t[i] : i \in DOMAIN t} ELSE b = -1
    /\ know.a.ok => \A cp \in {"acp", "oem", "other"} :
          LET s == Units(ansi, 1)
              n == aret_MultiByteToWideChar(cp, s, -1, 0).ret
              w == aret_MultiByteToWideChar(cp, s, -1, n)
          IN  /\ w.ret = n /\ Len(w.dst) = n
              /\ aret_WideCharToMultiByte(cp, First(w.dst, n - 1), -1, n).dst = Append(s, 0)
=============================================================================
