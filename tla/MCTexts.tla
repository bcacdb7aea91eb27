------------------------------ MODULE MCTexts ------------------------------
(* The inputs of the string modules: texts, formats, messages to format.       *)
EXTENDS RtlStrings, RtlText, CrtText, ShellText, FileRecords, GdiPixels
a == 97
MCTexts == {<<>>, <<a>>, <<65, 158>>, [i \in 1..7 |-> a]}
MCWideTexts == {<<>>, <<a>>, <<382, 19968>>, [i \in 1..3 |-> a]}

Small == UNION {[1..n -> {65, a, -56}] : n \in 0..2}
G == [i \in 1..16 |-> 17 * (i - 1)]
None == [kind |-> "none"]
InputKinds == {"compare", "find", "number", "guid", "text"}
InputsOf(kind) ==
    CASE kind = "compare" -> {[kind |-> "compare", a |-> x, b |-> y, others |-> Small] : x \in Small, y \in Small}
      [] kind = "find" -> {[kind |-> "find", s |-> x, chars |-> y] : x \in UNION {[1..n -> 1..3] : n \in 0..4}, y \in {<<>>, <<1>>, <<2, 3>>}}
      [] kind = "number" -> {[kind |-> "number", v |-> v] : v \in 0..255}
      [] kind = "guid" -> {[kind |-> "guid", guid |-> G, at |-> i, ch |-> c] : i \in 1..38, c \in {45, 70, 71, 123}}
      [] kind = "text" -> {[kind |-> "text", s |-> x, odd |-> o] : x \in UNION {[1..n -> {0, a, 3328, 65279, 65534}] : n \in 0..3}, o \in BOOLEAN}
Tokens == {<<a>>, <<98>>, <<32>>, <<13, 10>>, <<10>>, <<37, 110>>, <<37, 114>>, <<37, 116>>, <<37, 48>>, <<37, 49>>,
           <<37, 57, 57, 33, 42, 42, 100, 33>>, <<37, 49, 33>>, <<37, a>>, <<37>>}
Msg(s, w, n, i) == [src |-> s, width |-> w, size |-> n, ignore |-> i]
MessagesOf(kind) ==
    CASE kind = "words" -> {Msg(s, w, n, FALSE) : s \in UNION {[1..n -> {a, 32, 9}] : n \in 0..5}, w \in 1..3, n \in {4, 7, 12}}
      [] kind = "tokens" -> {Msg(x \o y \o z, w, 8, i) : x \in Tokens, y \in Tokens, z \in {<<a>>, <<10>>, <<37, 48>>, <<37>>}, w \in {0, 3}, i \in BOOLEAN}

\* The C runtime: formats of a few directives over short texts, and the rest.
Num(w) == [k |-> "num", suppress |-> FALSE, width |-> w, base |-> 10]
WordOf(w) == [k |-> "s", suppress |-> FALSE, width |-> w]
ScanFormats == UNION {[1..n -> {[k |-> "space"], [k |-> "lit", c |-> 49], [k |-> "n", suppress |-> FALSE], Num(0), Num(2), WordOf(0), WordOf(1),
                                [k |-> "c", suppress |-> TRUE, width |-> 2],
                                [k |-> "set", suppress |-> FALSE, width |-> 2, set |-> {49, a}]}] : n \in 1..2}
               \cup {<<Num(2), WordOf(1), Num(0)>>, <<WordOf(0), [k |-> "space"], [k |-> "n", suppress |-> FALSE]>>}
ScanTexts == UNION {[1..n -> {32, 45, 49, a}] : n \in 0..3} \cup {<<32, 49, 49, 32, a>>, <<45, 49, 49, a, 49>>}
P(k, w, s) == [k |-> k, width |-> w, star |-> s]
Sep == [k |-> "lit", c |-> 32]
Args(d, v) == (IF d.star THEN <<5>> ELSE <<>>) \o <<v>> \o (IF d.k = "big" THEN <<0>> ELSE <<>>)
Values(d) == IF d.k = "str" THEN {<<a>>, <<65, a, 65, a, 65, a>>} ELSE {0, -17, 250}
SignalCalls == {[fn |-> "signal", sig |-> s, h |-> h] : s \in {8, 11}, h \in 0..4} \cup {[fn |-> "raise", sig |-> s] : s \in {8, 11}}
               \cup {[fn |-> "filter", code |-> c, ptrs |-> b] : c \in {"FLT", "ACCESS_VIOLATION", "INT_DIVIDE"}, b \in BOOLEAN}
Entry(ret, at) == [ret |-> ret, at |-> at]
CaseKinds == {"scan", "print", "search", "path", "number", "class", "align", "signal", "start"}
CasesOf(kind) ==
    CASE kind = "scan" -> {[kind |-> "scan", text |-> t, fmt |-> f] : t \in ScanTexts, f \in ScanFormats}
      [] kind = "print" -> UNION {{[kind |-> "print", fmt |-> <<d, Sep, e>>, args |-> Args(d, v) \o Args(e, w), values |-> <<v, w>>]
                    : v \in Values(d), w \in Values(e)} : d \in {P(k, w, s) : k \in {"num", "big", "str"}, w \in {0, 4, 6}, s \in BOOLEAN},
                                                         e \in {P(k, w, s) : k \in {"num", "big", "str"}, w \in {0, 4, 6}, s \in BOOLEAN}}
      [] kind = "search" -> {[kind |-> "search", a |-> x, b |-> y, n |-> n] : x \in UNION {[1..m -> {65, a, 98}] : m \in 0..3}, y \in UNION {[1..m -> {65, a, 98}] : m \in 0..2}, n \in 0..3}
      [] kind = "path" -> {[kind |-> "path", path |-> p] : p \in UNION {[1..n -> {a, 46, 47, 58, 92}] : n \in 0..5}}
      [] kind = "number" -> {[kind |-> "number", v |-> v, word |-> 256] : v \in -128..127}
      [] kind = "class" -> {[kind |-> "class", chars |-> 0..300]}
      [] kind = "align" -> {[kind |-> "align", raw |-> r, size |-> n, alignment |-> g] : r \in 64..80, n \in 0..9, g \in {1, 2, 4, 6, 8, 16}}
      [] kind = "signal" -> {[kind |-> "signal", calls |-> c] : c \in UNION {[1..n -> SignalCalls] : n \in 1..3}}
      [] kind = "start" -> {[kind |-> "start", table |-> t, full |-> f] : t \in UNION {[1..n -> {NULL, Entry(0, 1), Entry(0, 2), Entry(5, 3)}] : n \in 0..4},
                                                                          f \in {<<>>, [i \in 1..62 |-> 9]}}
MCSources == {<<>>, <<a>>, <<65, 98>>, <<a, 65, 98>>}

-----------------------------------------------------------------------------
(* The inputs of the pure functions: every small argument.                    *)
Strs(S, n) == UNION {[1..k -> S] : k \in 0..n}
PathKinds == {"path", "pair", "search", "interval", "args", "collate"}
PathOf(kind) ==
    CASE kind = "path" -> {[kind |-> "path", a |-> p] : p \in Strs({97, 46, 92}, 6) \cup Strs({97, 46, 47, 58, 92}, 5)
                                      \cup {<<67, 58>> \o p : p \in Strs({97, 46, 92}, 6)}}
      [] kind = "pair" -> {[kind |-> "pair", a |-> p, b |-> q] : p \in Strs({97, 46, 92}, 3) \cup {<<67, 58, 92>> \o p : p \in Strs({97, 46, 92}, 3)},
                                                q \in Strs({65, 46, 92}, 3) \cup {<<99, 58, 92, 97, 92>>, <<67, 58, 97>>, <<67, 58, 92>>}}
      [] kind = "search" -> {[kind |-> "search", a |-> s, b |-> t, n |-> n] : s \in Strs({65, 97, 98}, 3), t \in Strs({65, 97, 98}, 2), n \in 0..4}
      [] kind = "interval" -> {[kind |-> "interval", ms |-> ms, digits |-> d, room |-> r]
              : ms \in {0, 499, 500, 9500, 59499, 59500, 61000, 3599499, 3599500, 3723000, 36610000, 45296000, 360000000}, d \in 0..8, r \in {0, 1, 2, 7, 40}}
      [] kind = "args" -> {[kind |-> "args", argv |-> v, cap |-> c] : v \in UNION {[1..n -> Strs({97, 32, 92}, 2) \cup {<<34>>, <<92, 34, 97>>}] : n \in 1..2}, c \in {4, 7, 12}}
      [] kind = "collate" -> {[kind |-> "collate", a |-> p, b |-> q, others |-> {<<>>, <<97>>, <<65>>, <<45, 97>>, <<97, 66>>, <<48>>}] : p \in Strs({97, 65, 98, 45}, 3), q \in Strs({97, 65, 45, 39, 48}, 2)}
S1 == <<97>>
S2 == <<98>>
IniLines == {Sec(S1), Sec(S2)} \cup {Pair(k, v) : k \in {<<107>>, <<75>>, <<109>>}, v \in {<<32, 120>>, <<34, 121, 34>>}}
Stats ==
    {[dir |-> d, chr |-> FALSE, w |-> w, x |-> x, size |-> n, nlink |-> 1, ino |-> 5, blocks |-> n, atime |-> t, mtime |-> 2, ctime |-> 3]
         : d \in BOOLEAN, w \in BOOLEAN, x \in BOOLEAN, n \in {0, 1, 15, 16, 17, 40, 255}, t \in {1, 4, 15, 18}}
LzTokens == {Lit(1), Lit(2)} \cup {Ref(p, n) : p \in 0..3, n \in {1, 3}}
Ent(ref, sub) == [id |-> ref.id, name |-> ref.name, sub |-> sub]
Node(key, text, value, kids) == [key |-> key, text |-> text, value |-> value, kids |-> kids]
Version == Node(<<86>>, FALSE, <<7, 300>>, <<Node(<<118>>, FALSE, <<>>, <<Node(<<116>>, FALSE, <<1033, 400>>, <<>>)>>),
                                             Node(<<83, 70, 73>>, TRUE, <<>>, <<Node(<<108>>, TRUE, <<>>, <<Node(<<97>>, TRUE, <<353, 98>>, <<>>), Node(<<99>>, FALSE, <<500>>, <<>>)>>)>>)>>)
\* The strings 0..15 and 32..47; language 1, a named one, or none.
Langs == {<<>>, <<Ent(Known(1), Leaf(<<5>>))>>, <<Ent(Known(2), Leaf(<<5>>)), Ent(Known(1), Leaf(<<>>))>>, <<Ent(Named(<<97>>), Leaf(<<6>>)), Ent(Known(3), Leaf(<<>>))>>}
TableOf(id) == [id |-> id, text |-> IF id = 33 THEN <<353, 98>> ELSE IF id % 2 = 0 THEN <<97>> ELSE <<>>]
StringBlock(n) == Ent(Known(n), Dir(<<Ent(Known(9), Leaf([k \in 1..16 |-> TableOf(16 * (n - 1) + k - 1).text]))>>))
Strings == [id \in 0..63 |-> IF id \div 16 \in {0, 2} THEN TableOf(id).text ELSE <<>>]
Refs == {Known(0), Known(10), Named(<<120>>), Named(<<88>>)}
FileKinds == {"trans", "ini", "stat", "time", "temp", "pack", "find", "lz", "copy", "env", "rsrc", "date", "muldiv", "ver"}
FileOf(kind) ==
    CASE kind = "trans" -> {[kind |-> "trans", a |-> p] : p \in Strs({97, 47, 58, 92}, 5)}
      [] kind = "ini" -> {[kind |-> "ini", data |-> d, c |-> c, secs |-> {S1, S2}, keys |-> {<<107>>, <<109>>}]
              : d \in Strs(IniLines, 3) \cup {<<Sec(S1), Pair(<<107>>, <<49>>), l, Pair(<<109>>, <<50>>)>> : l \in IniLines},
                c \in {Change(s, k, v) : s \in {S1, <<65>>}, k \in {NULL, <<75>>}, v \in {NULL, <<34, 122, 34>>}}}
      [] kind = "stat" -> {[kind |-> "stat", st |-> st] : st \in Stats}
      [] kind = "time" -> {[kind |-> "time", st |-> st, t |-> t, zone |-> z] : st \in {s \in Stats : s.size = 1}, t \in {0} \cup (Epoch * Ticks)..(Epoch * Ticks + 20), z \in 0..2}
      [] kind = "temp" -> {[kind |-> "temp", taken |-> t, seed |-> s] : t \in SUBSET (0..(TempNames - 1)), s \in 0..TempNames}
      [] kind = "pack" -> {[kind |-> "pack", lens |-> l, fixed |-> f, length |-> n, single |-> s]
              : l \in Strs({1, 2, 3, 5}, 3) \ {<<>>}, f \in {12, 94}, n \in {13, 14, 16, 30, 38, 44, 60, 98, 110, 208, 230, 330}, s \in BOOLEAN}
      [] kind = "find" -> {[kind |-> "find", entries |-> e, dir |-> d, pat |-> p]
              : e \in Strs({<<97>>, <<65, 98>>, <<98, 97>>}, 3), d \in {<<>>, <<100, 47>>}, p \in Strs({97, 63, 42}, 2)}
      [] kind = "lz" -> {[kind |-> "lz", tokens |-> t, osize |-> n] : t \in Strs(LzTokens, 3), n \in {2, 5, 9}}
      [] kind = "env" -> {[kind |-> "env", env |-> e, name |-> n, v |-> v, src |-> s, names |-> {<<97>>, <<98>>}]
              : e \in {<<>>, <<<<<<97>>, <<120, 37>>>>>>, <<<<<<98>>, <<>>>>, <<<<97>>, <<121>>>>>>}, n \in {<<97>>, <<353>>, <<98>>}, v \in {NULL, <<>>, <<378, 98>>}, s \in Strs({97, 37}, 4)}
      [] kind = "rsrc" -> {[kind |-> "rsrc", root |-> <<Ent(Named(<<120>>), Dir(<<Ent(a1, Dir(l))>>)), Ent(Known(RtString), Dir(<<StringBlock(1), StringBlock(3)>>)), Ent(Known(10), Dir(<<Ent(a2, Dir(l))>>))>>,
                            type |-> t, name |-> n, ids |-> {0, 1, 15, 16, 32, 33, 47, 48}, strings |-> Strings, vi |-> Version] : a1 \in {Known(10), Named(<<120>>)}, a2 \in {Known(10), Named(<<120>>)}, t \in Refs, n \in Refs, l \in Langs}
      [] kind = "date" -> {[kind |-> "date", y |-> y, m |-> m, d |-> d, h |-> h] : y \in {1970, 1980, 1999, 2000, 2001, 2004, 2096, 2100, 2107}, m \in 1..12, d \in {1, 28, 29, 30, 31}, h \in {0, 23}}
      [] kind = "muldiv" -> {[kind |-> "muldiv", a |-> p, b |-> b, c |-> c, width |-> 9] : p \in -6..6, b \in {-3, 0, 1, 5}, c \in -4..4}
      [] kind = "ver" -> {[kind |-> "ver", want |-> <<n, j, b, 2, 0, 0, 0, 1>>, types |-> t, at |-> k] : n \in 1..3, j \in 5..7, b \in {9199, 9200}, t \in (SUBSET {0, 1, 2, 5}) \ {{}}, k \in 0..2}
      [] kind = "copy" -> {[kind |-> "copy", dst |-> d, destsz |-> z, src |-> s, count |-> n] : d \in {NULL, <<7, 7, 7>>}, s \in {NULL, <<1, 2, 3, 4>>}, z \in 0..3, n \in 0..4}
Rects == {<<c[1], d[1], c[2], d[2]>> : c \in {<<0, 0>>, <<0, 1>>, <<0, 2>>, <<0, 3>>, <<1, 2>>, <<1, 3>>, <<2, 3>>, <<2, 1>>},
                                       d \in {<<0, 0>>, <<0, 1>>, <<0, 2>>, <<0, 3>>, <<1, 2>>, <<1, 3>>, <<2, 3>>, <<3, 1>>}}
Ext == {-3, -2, -1, 0, 1, 2, 3}
Map(w, v, o, q) == [win_ox |-> o, win_oy |-> 0, vp_ox |-> q, vp_oy |-> 0, win_ex |-> w, win_ey |-> w, vp_ex |-> v, vp_ey |-> v]
Pen(n, w, c) == [live |-> TRUE, null |-> n, stock |-> FALSE, style |-> 0, width |-> w, color |-> c]
Dotted(w, h, topdown) == Surface(w, h, topdown, [k \in 0..(w * h - 1) |-> IF k % 3 = 1 THEN {0} ELSE IF k % 2 = 1 THEN {1, 2} ELSE {}])
Table(c) == CASE c = "CC" -> <<0, 0, 1, 1>> [] c = "88" -> <<0, 0, 0, 1>> [] c = "EE" -> <<0, 1, 1, 1>> [] c = "66" -> <<0, 1, 1, 0>>
              [] c = "33" -> <<1, 1, 0, 0>> [] c = "44" -> <<0, 0, 1, 0>> [] c = "11" -> <<1, 0, 0, 0>> [] c = "BB" -> <<1, 1, 0, 1>>
              [] c = "55" -> <<1, 0, 1, 0>> [] c = "00" -> <<0, 0, 0, 0>> [] c = "FF" -> <<1, 1, 1, 1>>
DrawKinds == {"rects", "map", "line", "shape", "rop", "blit", "dib", "blend", "nearest"}
DrawOf(kind) ==
    CASE kind = "rects" -> {[kind |-> "rects", a |-> r, b |-> q, rects |-> Rects] : r \in Rects, q \in Rects}
      [] kind = "map" -> {[kind |-> "map", m |-> Map(w, v, o, q), x |-> x] : w \in Ext, v \in Ext, o \in {0, 1}, q \in {0, 2}, x \in -5..5}
      [] kind = "line" -> {[kind |-> "line", a |-> <<2, 2>>, b |-> <<x, y>>, w |-> 5, pen |-> p]
              : x \in -3..7, y \in -3..7, p \in {Pen(FALSE, 1, {0}), Pen(TRUE, 1, {0}), Pen(FALSE, 2, {0})}}
      [] kind = "shape" -> {[kind |-> "shape", bm |-> Dotted(4, 3, t), r |-> <<x, y, x + w, y + h>>] : t \in BOOLEAN, x \in -1..2, y \in -1..1, w \in 0..4, h \in 0..4}
      [] kind = "rop" -> {[kind |-> "rop", rop |-> c, table |-> Table(c)] : c \in Rops}
      [] kind = "blit" -> {[kind |-> "blit", dst |-> Dotted(3, 2, t), src |-> Dotted(2, 3, u), same |-> s, d |-> <<x, y, w, h>>, at |-> <<p, q>>]
              : t \in BOOLEAN, u \in BOOLEAN, s \in BOOLEAN, x \in -1..1, y \in {0, 1}, w \in {0, 2}, h \in {1, 2}, p \in -1..1, q \in {0, 1}}
      [] kind = "dib" -> {[kind |-> "dib", bm |-> Dotted(2, h, t), topdown |-> u, to |-> v, cut |-> c] : h \in 1..3, t \in BOOLEAN, u \in BOOLEAN, v \in BOOLEAN, c \in 0..3}
      [] kind = "blend" -> {[kind |-> "blend", s |-> s, a |-> q, d |-> d, ca |-> c] : s \in {0, 1, 127, 254, 255}, q \in {0, 1, 128, 255}, d \in {0, 1, 77, 254, 255}, c \in {0, 1, 128, 254, 255}}
      [] kind = "nearest" -> {[kind |-> "nearest", pal |-> p, c |-> c] : p \in Strs({<<0, 0, 0>>, <<9, 0, 0>>, <<0, 4, 4>>, <<8, 1, 0>>}, 3), c \in {<<0, 0, 0>>, <<8, 0, 0>>, <<4, 2, 2>>}}

-----------------------------------------------------------------------------
(* Programs of a few calls on two counted strings and on one array, the        *)
(* functions over texts, files and pixels on every small argument, and        *)
(* messages formatted character by character.  A behaviour is one of these.   *)
CONSTANT MaxCalls       \* the calls of a program on its two strings; one fewer on its array
VARIABLES calls, part   \* the calls made; what is explored
mcVars == <<calls, part, rtlStrVars, textVars, crtVars, caseVars, asked>>

NoMessage == [FmStart(Msg(<<>>, 0, 0, FALSE)) EXCEPT !.status = "SUCCESS"]
AskPure == \/ \E kind \in PathKinds : asked \in PathOf(kind)
           \/ \E kind \in FileKinds : asked \in FileOf(kind)
           \/ \E kind \in DrawKinds : asked \in DrawOf(kind)
NoText == inp = None /\ fm = NoMessage
MCInit ==
    /\ RtlStrInit /\ CrtInit /\ calls = 0
    /\ \/ part = "rtl" /\ NoText /\ given = None /\ asked = None
       \/ part = "crt" /\ NoText /\ given = None /\ asked = None
       \/ part = "texts" /\ \E kind \in InputKinds : inp \in InputsOf(kind) /\ fm = NoMessage /\ given = None /\ asked = None
       \/ part = "texts" /\ inp = None /\ \E kind \in {"words", "tokens"} : fm \in {FmStart(m) : m \in MessagesOf(kind)} /\ given = None /\ asked = None
       \/ part = "c" /\ NoText /\ \E kind \in CaseKinds : given \in CasesOf(kind) /\ asked = None
       \/ part = "pure" /\ NoText /\ given = None /\ AskPure
MCNext == /\ UNCHANGED <<part, given, asked>>
          /\ \/ part = "rtl" /\ calls < MaxCalls /\ calls' = calls + 1 /\ RtlStrNext /\ UNCHANGED <<textVars, crtVars>>
             \/ part = "crt" /\ calls < MaxCalls - 1 /\ calls' = calls + 1 /\ CrtNext /\ UNCHANGED <<textVars, rtlStrVars>>
             \/ part = "texts" /\ TextNext /\ UNCHANGED <<calls, rtlStrVars, crtVars>>
MCSpec == MCInit /\ [][MCNext]_mcVars

-----------------------------------------------------------------------------
(* What the run checks of the modules above, one property per concern.        *)

\* Counted strings and arrays keep to their buffers: nothing is written past the size a call was
\* given, what it reports is what the buffer holds, success is whole and failure leaves a
\* terminated text.
StringBuffers ==
    /\ [](RtlStrTypeOK /\ BufferBounds /\ HoldsText /\ Terminated /\ SuccessIsWhole /\ FailureIsEmpty)
    /\ SizeRespected /\ StaysTerminated
\* Comparisons are orders, searches are dual, and numbers, GUIDs, code pages, messages, formats and
\* scans agree with their inverses or their definitions.
TextLaws ==
    /\ CompareIsOrder /\ FindIsDual /\ NumbersRoundTrip /\ GuidRoundTrip /\ ByteOrderDecided
    /\ PagesRoundTrip /\ FormatIsWrapping /\ ScanIsGreedy /\ FormatThenScan /\ PrefixWritten
    /\ SearchesAgree /\ PathRoundTrip /\ RadixRoundTrip /\ ClassesAgree /\ AlignedInside
    /\ SignalsOneShot /\ StartAndExit
\* Paths, profile files, stat and directory records, times, temporary names and LZ data agree with
\* their definitions or their inverses, in buffers of any size.
PathLaws ==
    /\ RootsAgree /\ SplitThenCombine /\ ExtensionLaws /\ DriveKept /\ CommonPrefixLaws
    /\ StrSearchAgree /\ IntervalTruncates /\ ArgumentsAgree /\ CollationIsOrder
    /\ RoomAsked /\ Sandboxed /\ IniReadsBack /\ OneAnswer /\ RecordsReadBack /\ TimesRoundTrip
    /\ TempFresh /\ PackedChain /\ BothFindAll /\ LzIsWindow /\ TwinCopies
    /\ EnvironmentKept /\ ResourcesFound /\ DatesAgree /\ QuotientsNear /\ VersionsOrdered
=============================================================================
