----------------------------- MODULE ShellText ------------------------------
(***************************************************************************)
(* The lexical path functions and the string searches of shlwapi.  A path is *)
(* the sequence of its units; a pointer into it is the number of units       *)
(* before it, Nowhere for NULL.  Each operator stands for the A and the W    *)
(* entry point, which one macro body generates.  The case under test, asked, *)
(* is chosen by Init.  The command line, its parser and the collation of     *)
(* CompareString and lstrcmp come last.                                      *)
(***************************************************************************)
EXTENDS CTexts, FiniteSets, FiniteSetsExt, Functions

CONSTANT MaxPath        \* MAX_PATH

ASSUME PathAssumption == MaxPath \in Nat \ {0}

pathVars == <<asked>>

Nowhere == -1
Back == 92
Dot == 46
Colon == 58
Slashes == {47, Back}
IsDrive(p) == p # <<>> /\ At(p, 2) = Colon
Is2(p) == At(p, 1) = Back /\ At(p, 2) = Back
\* The separators behind a leading pair.
Seps(p) == {i \in 3..Len(p) : p[i] = Back}
Answer(ret, p) == [ret |-> ret, path |-> p]

-----------------------------------------------------------------------------
(* Components.                                                                *)
PathFindExtension(p) == LET d == LastOf(p, {Dot}) IN IF d > LastOf(p, {Back, 32}) THEN d - 1 ELSE Len(p)
PathFindFileName(p) ==
    LET S == {i \in DOMAIN p : p[i] \in {Colon} \cup Slashes /\ At(p, i + 1) \notin {0} \cup Slashes}
    IN  Max(S \cup {0})
PathStripPath(p) == After(p, PathFindFileName(p))
PathFindNextComponent(p) ==
    LET n == Span(p, (0..255) \ Slashes) IN IF p = <<>> THEN Nowhere ELSE n + Span(After(p, n), Slashes)
\* After the first space outside quotes.
PathGetArgs(p) ==
    LET quoted(i) == Cardinality({j \in 1..i : p[j] = 34}) % 2 = 1
        S == {i \in DOMAIN p : p[i] = 32 /\ ~quoted(i)}
    IN  IF S = {} THEN Len(p) ELSE Min(S)
PathGetDriveNumber(p) == IF IsDrive(p) /\ up(p[1]) \in 65..90 THEN up(p[1]) - 65 ELSE -1
PathIsFileSpec(p) == \A i \in DOMAIN p : p[i] \notin {Colon} \cup Slashes

PathAddExtension(p, ext) ==
    IF ext = <<>> THEN Answer(TRUE, p)
    ELSE IF PathFindExtension(p) < Len(p) \/ Len(p) + Len(ext) >= MaxPath THEN Answer(FALSE, p)
    ELSE Answer(TRUE, p \o ext)
PathRemoveExtension(p) == First(p, PathFindExtension(p))
\* Adds where it is to replace.
RenameAppends(p, ext) == IF Len(p) + Len(ext) >= MaxPath THEN Answer(FALSE, p) ELSE Answer(TRUE, p \o ext)
PathRenameExtension(p, ext) ==
    IF PathFindExtension(p) + Len(ext) >= MaxPath THEN Answer(FALSE, p) ELSE Answer(TRUE, PathRemoveExtension(p) \o ext)

-----------------------------------------------------------------------------
(* Roots.  A forward slash is no separator here.                               *)
PathIsUNC(p) == Is2(p)
PathIsUNCServer(p) == Is2(p) /\ Seps(p) = {}
PathIsUNCServerShare(p) == Is2(p) /\ Cardinality(Seps(p)) = 1
PathIsRelative(p) == p = <<>> \/ ~(p[1] = Back \/ At(p, 2) = Colon)
u32_p_isroot(p) ==
    IF At(p, 1) = Back THEN Len(p) = 1 \/ (Is2(p) /\ Cardinality(Seps(p)) <= 1)
    ELSE IsDrive(p) /\ At(p, 3) = Back /\ Len(p) = 3
\* Stops behind the server.
SkipOneComponent(p) ==
    IF Is2(p) THEN IF Seps(p) = {} THEN Nowhere ELSE Min(Seps(p))
    ELSE IF IsDrive(p) /\ At(p, 3) = Back THEN 3 ELSE Nowhere
u32_p_skiproot(p) ==
    IF Is2(p) THEN IF Cardinality(Seps(p)) < 2 THEN Nowhere ELSE Min(Seps(p) \ {Min(Seps(p))})
    ELSE IF IsDrive(p) /\ At(p, 3) = Back THEN 3 ELSE Nowhere
u32_p_base(p) ==
    LET c == LastOf(p, {Colon})
    IN  IF c > 0 THEN c + (IF At(p, c + 1) = Back THEN 1 ELSE 0)
        ELSE IF Is2(p) THEN 2 ELSE IF At(p, 1) = Back THEN 1 ELSE 0
PathAddBackslash(p) ==
    IF Len(p) >= MaxPath THEN Answer(FALSE, p)
    ELSE Answer(TRUE, IF p = <<>> \/ p[Len(p)] = Back THEN p ELSE Append(p, Back))
PathRemoveBackslash(p) ==
    IF ~u32_p_isroot(p) /\ At(p, Len(p)) = Back THEN First(p, Len(p) - 1) ELSE p
PathRemoveFileSpec(p) ==
    LET b == u32_p_base(p)
        sep == LastOf(p, {Back})
        cut == IF sep > b THEN sep - 1 ELSE b
    IN  IF cut = Len(p) THEN Answer(FALSE, p) ELSE Answer(TRUE, First(p, cut))
PathStripToRoot(p) ==
    LET f[n \in 0..Len(p)] ==
            LET q == First(p, n)
                c == PathRemoveFileSpec(q)
            IN  IF u32_p_isroot(q) THEN Answer(TRUE, q)
                ELSE IF ~c.ret THEN Answer(FALSE, q) ELSE f[Len(c.path)]
    IN  f[Len(p)]
PathIsSameRoot(a, b) ==
    LET n == u32_p_skiproot(a)
    IN  n # Nowhere /\ u32_p_skiproot(b) = n /\ Lower(First(a, n)) = Lower(First(b, n))
\* Counts the equal units only, wherever they end.
CommonUnits(a, b) == Cardinality({i \in DOMAIN a : i \in DOMAIN b /\ \A j \in 1..i : lower(a[j]) = lower(b[j])})
u32_p_common(a, b) ==
    LET same == {i \in DOMAIN a : i \in DOMAIN b /\ \A j \in 1..i : lower(a[j]) = lower(b[j])}
        n == Cardinality(same)
        s == LastOf(First(a, n), {Back}) - 1
    IN  IF n = Len(a) /\ n = Len(b) THEN n
        ELSE IF s < 0 THEN 0 ELSE IF s = 2 /\ a[2] = Colon THEN 3 ELSE s
PathCommonPrefix(a, b) == First(a, u32_p_common(a, b))
PathIsPrefix(pre, p) == u32_p_common(pre, p) = Len(pre)

-----------------------------------------------------------------------------
(* Canonical form and combination.                                             *)
Write(mem, n, c) == IF n < Len(mem) THEN [mem EXCEPT ![n + 1] = c] ELSE Append(mem, c)
\* Backs up without a look at the root.
BackUpFreely(mem, n, rootlen) == Most(LastOf(First(mem, n - 1), {Back}) - 1, 0)
\* How many units are left when ".." is met after n of them; units behind n are stale.
BackUp(mem, n, rootlen) ==
    LET j == LastOf(First(mem, n - 1), {Back}) - 1
    IN  IF j >= 0 THEN IF Is2(First(mem, n)) /\ j <= 1 THEN n - 1 ELSE j
        ELSE IF rootlen > 0 /\ At(mem, rootlen) = Back THEN rootlen - 1 ELSE 0
u32_p_canon(src) ==
    LET rootlen == IF At(src, 1) = Back THEN 1
                   ELSE IF IsDrive(src) THEN IF At(src, 3) = Back THEN 3 ELSE 2 ELSE 0
        step(st) ==
            LET c == At(src, st.i + 1)
                d == At(src, st.i + 2)
            IN  IF c = 0 THEN st
                ELSE IF c = Dot /\ d = Back /\ (st.i = 0 \/ At(src, st.i) \in {Back, Colon}) THEN [st EXCEPT !.i = @ + 2]
                ELSE IF c = Dot /\ d = Dot /\ st.n > 0 /\ At(st.mem, st.n) = Back
                THEN [st EXCEPT !.i = @ + 2, !.n = BackUp(st.mem, @, rootlen)]
                ELSE [i |-> st.i + 1, n |-> st.n + 1, mem |-> Write(st.mem, st.n, c)]
        st[k \in 0..Len(src)] ==
            IF k = 0 THEN [i |-> rootlen, n |-> rootlen, mem |-> First(src, rootlen)] ELSE step(st[k - 1])
        end == First(st[Len(src)].mem, st[Len(src)].n)
    IN  IF src = <<>> THEN <<Back>> ELSE IF Len(end) = 2 /\ end[2] = Colon THEN Append(end, Back) ELSE end
\* Joins the two as they are, whatever the second one is.
CombineBlindly(dir, file) == Answer(TRUE, u32_p_canon(dir \o <<Back>> \o file))
u32_p_combine(dir, file) ==
    LET root == IF u32_p_skiproot(dir) = Nowhere THEN 0 ELSE u32_p_skiproot(dir)
        tmp == IF file \in {NULL, <<>>} THEN dir
               ELSE IF dir \in {NULL, <<>>} \/ Is2(file) \/ At(file, 2) = Colon THEN file
               ELSE IF file[1] = Back THEN First(dir, root) \o After(file, 1)
               ELSE (IF dir[Len(dir)] = Back THEN dir ELSE Append(dir, Back)) \o file
    IN  IF dir = NULL /\ file = NULL THEN Answer(FALSE, <<>>)
        ELSE IF tmp = NULL THEN Answer(TRUE, <<Back>>)
        ELSE IF Len(tmp) >= MaxPath THEN Answer(FALSE, <<>>) ELSE Answer(TRUE, u32_p_canon(tmp))
PathCanonicalize(p) == u32_p_canon(p)
PathCombine(dir, file) == u32_p_combine(dir, file)
PathAppend(p, more) == u32_p_combine(p, IF Is2(more) THEN more ELSE After(more, Span(more, {Back})))

-----------------------------------------------------------------------------
(* Searches.  A NULL argument finds nothing, and so does an empty needle.       *)
Ends(S, hit) == IF S = {} THEN Nowhere ELSE hit
Fold(fold, s) == IF fold THEN Lower(s) ELSE s
StrSpn(s, set) == IF NULL \in {s, set} THEN 0 ELSE Span(s, Range(set))
u32_s_cspn(s, set, fold) ==
    IF NULL \in {s, set} THEN 0 ELSE Span(Fold(fold, s), (0..255) \ Range(Fold(fold, set)))
StrPBrk(s, set) ==
    LET S == {i \in DOMAIN s : s[i] \in Range(set)} IN IF NULL \in {s, set} THEN Nowhere ELSE Ends(S, Min(S) - 1)
u32_s_chr(s, c, fold, maxn) ==
    LET S == {i \in DOMAIN s : i <= maxn /\ Fold(fold, s)[i] = Fold(fold, <<c>>)[1]}
    IN  IF s = NULL THEN Nowhere ELSE Ends(S, Min(S) - 1)
\* Before index end, or in the whole text when end is NULL.
u32_s_rchr(s, end, c, fold) ==
    LET S == {i \in DOMAIN s : (end = NULL \/ i <= end) /\ Fold(fold, s)[i] = Fold(fold, <<c>>)[1]}
    IN  IF s = NULL THEN Nowhere ELSE Ends(S, Max(S) - 1)
\* The indices where n occurs in h, which bound its start and not its end.
Found(h, n, fold) == {i \in 0..(Len(h) - Len(n)) : SubSeq(Fold(fold, h), i + 1, i + Len(n)) = Fold(fold, n)}
\* The bound holds for the whole occurrence.
StrWithin(h, n, fold, maxstart) ==
    LET S == {i \in Found(h, n, fold) : i + Len(n) <= maxstart} IN IF n = <<>> THEN Nowhere ELSE Ends(S, Min(S))
u32_s_str(h, n, fold, maxstart) ==
    LET S == {i \in Found(h, n, fold) : i < maxstart}
    IN  IF NULL \in {h, n} THEN Nowhere ELSE IF n = <<>> THEN Nowhere ELSE Ends(S, Min(S))
StrRStrI(h, end, n) ==
    LET S == {i \in Found(h, n, TRUE) : end = NULL \/ i < end}
    IN  IF NULL \in {h, n} THEN Nowhere ELSE IF n = <<>> THEN Nowhere ELSE Ends(S, Max(S))
\* The two widths disagree about a search for the terminator.
StrChrA(s, c) == u32_s_chr(s, c, FALSE, Len(s))
StrChrW(s, c) == IF s # NULL /\ c = 0 THEN Len(s) ELSE u32_s_chr(s, c, FALSE, Len(s))
StrChrNW(s, c, n) == u32_s_chr(s, c, FALSE, n)
StrStrNW(h, n, maxstart) == u32_s_str(h, n, FALSE, maxstart)

-----------------------------------------------------------------------------
(* Durations.  A class shows its number with only the leading digits kept.      *)
u32_write_reverse_num(n) ==
    LET d[k \in 0..n] == IF k < 10 THEN <<k>> ELSE Append(d[k \div 10], k % 10) IN d[n]
\* Rounds where it is to cut.
SignificantRounds(ds, digits) ==
    IF digits \in DOMAIN ds
    THEN [shown |-> [i \in DOMAIN ds |-> IF i > digits THEN 0 ELSE IF i = digits /\ i < Len(ds) /\ ds[i + 1] > 4 THEN ds[i] + 1 ELSE ds[i]], left |-> 0]
    ELSE [shown |-> ds, left |-> digits - Len(ds)]
u32_format_significant(ds, digits) ==
    IF digits \in DOMAIN ds THEN [shown |-> [i \in DOMAIN ds |-> IF i > digits THEN 0 ELSE ds[i]], left |-> 0]
    ELSE [shown |-> ds, left |-> digits - Len(ds)]
\* One class after those of st: its seconds, its digits and the name behind them.
u32_write_time_class(st, val, unit, name) ==
    LET f == u32_format_significant(u32_write_reverse_num(val), st.left)
        v[i \in 0..Len(f.shown)] == IF i = 0 THEN 0 ELSE v[i - 1] * 10 + f.shown[i]
    IN  [left |-> f.left, shows |-> st.shows + unit * v[Len(f.shown)],
         text |-> st.text \o <<32>> \o [i \in DOMAIN f.shown |-> 48 + f.shown[i]] \o name]
Interval(ms, digits) ==
    LET s == (ms + 500) \div 1000
        hrs == s \div 3600
        mins == (s % 3600) \div 60
        st0 == [left |-> digits, shows |-> 0, text |-> <<>>]
        st1 == IF hrs = 0 THEN st0 ELSE u32_write_time_class(st0, hrs, 3600, <<32, 104, 114>>)
        st2 == IF mins = 0 \/ st1.left = 0 THEN st1 ELSE u32_write_time_class(st1, mins, 60, <<32, 109, 105, 110>>)
    IN  IF st2.left = 0 THEN st2 ELSE u32_write_time_class(st2, s % 60, 1, <<32, 115, 101, 99>>)
\* The array keeps what fits with its terminator.
u32_strfromtime_w(cchMax, ms, digits) ==
    IF cchMax = 0 THEN Answer(0, NULL)
    ELSE IF digits = 0 \/ cchMax = 1 THEN Answer(0, <<>>)
    ELSE LET out == First(Interval(ms, digits).text, cchMax - 1) IN Answer(Len(out), out)
\* Returns 0 always, and does not terminate an array it fills.
StrFromTimeIntervalA(cchMax, ms, digits) ==
    LET w == u32_strfromtime_w(128, ms, digits).path
    IN  Answer(0, IF cchMax = 0 THEN NULL ELSE First(Append(w, 0), cchMax))

-----------------------------------------------------------------------------
(* The command line.  argv is what the host passed.                            *)
Quote == 34
\* Quotes nothing.
CmdlineBare(argv, cap) ==
    LET out[i \in 0..Len(argv)] == IF i = 0 THEN <<>> ELSE out[i - 1] \o (IF i > 1 THEN <<32>> ELSE <<>>) \o argv[i]
    IN  First(out[Len(argv)], cap - 1)
\* An argument that is empty or has a blank is quoted; a quote inside is copied as it is.
aret_build_cmdline(argv, cap) ==
    LET put(o, text, left) == o \o First(text, Most(cap - left - Len(o), 0))
        out[i \in 0..Len(argv)] ==
            IF i = 0 THEN <<>>
            ELSE LET o == out[i - 1]
                     q == IF argv[i] = <<>> \/ Range(argv[i]) \cap Blanks # {} THEN <<Quote>> ELSE <<>>
                 IN  IF Len(o) + 2 >= cap THEN o
                     ELSE put(put(put(put(o, IF i > 1 THEN <<32>> ELSE <<>>, 1), q, 1), argv[i], 2), q, 1)
    IN  out[Len(argv)]
GetCommandLineA(argv, cap) == aret_build_cmdline(argv, cap)
GetCommandLineW(argv, cap) == First(aret_build_cmdline(argv, cap), cap - 1)
p__acmdln(argv, cap) == aret_build_cmdline(argv, cap)
p__wcmdln(argv, cap) == First(aret_build_cmdline(argv, cap), cap - 1)
getmainargs(argv) == argv
\* At most max of them, copied one behind the other into units of memory.
wgetmainargs(argv, max, units) ==
    LET n == Least(Len(argv), max)
        at[i \in 1..(n + 1)] == IF i = 1 THEN 0 ELSE at[i - 1] + Least(Len(argv[i - 1]), Most(units - 1 - at[i - 1], 0)) + 1
    IN  [i \in 1..n |-> First(argv[i], at[i + 1] - at[i] - 1)]
\* The state of the scan: the units read, the arguments, inside one, inside quotes.
ArgvStep(s, st) ==
    LET c == At(s, st.i + 1)
        bs == Span(After(s, st.i), {Back})
        d == At(s, st.i + bs + 1)
        ends(u) == ~st.inq /\ u \in Blanks
        add(text, n) == [st EXCEPT !.i = @ + n, !.argv[Len(st.argv)] = @ \o text]
        backs(n) == [k \in 1..n |-> Back]
    IN  IF c = 0 THEN st
        ELSE IF ~st.in THEN IF c \in Blanks THEN [st EXCEPT !.i = @ + 1] ELSE [st EXCEPT !.in = TRUE, !.inq = FALSE, !.argv = Append(@, <<>>)]
        ELSE IF ends(c) THEN [st EXCEPT !.in = FALSE]
        ELSE IF d = Quote THEN IF bs % 2 = 1 THEN add(Append(backs(bs \div 2), Quote), bs + 1) ELSE [add(backs(bs \div 2), bs + 1) EXCEPT !.inq = ~@]
        ELSE IF d = 0 \/ ends(d) THEN add(backs(bs), bs) ELSE add(Append(backs(bs), d), bs + 1)
CommandLineToArgvW(cl) ==
    LET s == IF cl = NULL THEN <<>> ELSE cl
        q == At(s, 1) = Quote
        name == IF q THEN First(After(s, 1), Span(After(s, 1), (0..65535) \ {Quote})) ELSE First(s, Span(s, (0..65535) \ Blanks))
        st[k \in 0..(2 * Len(s) + 2)] ==
            IF k = 0 THEN [i |-> Least(Len(name) + (IF q THEN 2 ELSE 0), Len(s)), argv |-> <<name>>, in |-> FALSE, inq |-> FALSE] ELSE ArgvStep(s, st[k - 1])
    IN  st[2 * Len(s) + 2].argv

-----------------------------------------------------------------------------
(* Collation: the bytes of the sort keys are compared.  The primary weights   *)
(* are kept in their order, one unit each; a weight of 0 is not modelled.     *)
Punctuation == <<32, 33, 34, 35, 36, 37, 38, 40, 41, 42, 44, 46, 47, 58, 59, 63, 64, 91, 92, 93, 94, 95, 96, 123, 124, 125, 126, 43, 60, 61, 62>>
u32_pri(c) ==
    IF c \in 48..57 THEN c + 2 ELSE IF up(c) \in 65..90 THEN up(c)
    ELSE IF c \in Range(Punctuation) THEN 2 + (CHOOSE i \in DOMAIN Punctuation : Punctuation[i] = c) ELSE 0
u32_ign(c) == IF c = 39 THEN 128 ELSE IF c = 45 THEN 130 ELSE 0
\* Hyphens and apostrophes count as any other unit.
KeyStringSort(s, ignore_case) == [i \in DOMAIN s |-> IF u32_ign(s[i]) # 0 THEN 2 ELSE u32_pri(s[i])] \o <<1, 1, 1, 1, 0>>
u32_sortkey(s, ignore_case) ==
    LET kept == SelectSeq(s, LAMBDA c : u32_ign(c) = 0)
        cases == [i \in DOMAIN kept |-> IF kept[i] \in 65..90 THEN 18 ELSE 2]
        special[i \in 0..Len(s)] ==
            IF i = 0 THEN <<>>
            ELSE IF u32_ign(s[i]) = 0 THEN special[i - 1]
            ELSE special[i - 1] \o <<255, 255 - Cardinality({j \in 1..(i - 1) : u32_ign(s[j]) = 0}), u32_ign(s[i]), 18>>
    IN  IF \E i \in DOMAIN kept : u32_pri(kept[i]) = 0 THEN NULL
        ELSE [i \in DOMAIN kept |-> u32_pri(kept[i])] \o <<1, 1>> \o (IF ignore_case THEN <<>> ELSE First(cases, LastOf(cases, {18})))
                 \o <<1, 1>> \o special[Len(s)] \o <<0>>
KeyOrder(k, l) ==
    LET diff == {i \in 1..Least(Len(k), Len(l)) : k[i] # l[i]}
        sign(n) == IF n < 0 THEN -1 ELSE IF n > 0 THEN 1 ELSE 0
    IN  IF diff = {} THEN sign(Len(k) - Len(l)) ELSE sign(k[Min(diff)] - l[Min(diff)])
u32_collate(a, b, ignore_case) ==
    IF NULL \in {u32_sortkey(a, ignore_case), u32_sortkey(b, ignore_case)} THEN -2
    ELSE KeyOrder(u32_sortkey(a, ignore_case), u32_sortkey(b, ignore_case))
\* Identical texts are equal whatever they hold; -2 stops the program.
lstrcmpW(a, b) == IF NULL \in {a, b} THEN IF a = b THEN 0 ELSE IF a # NULL THEN 1 ELSE -1 ELSE IF a = b THEN 0 ELSE u32_collate(a, b, FALSE)
lstrcmpiW(a, b) == IF NULL \in {a, b} THEN IF a = b THEN 0 ELSE IF a # NULL THEN 1 ELSE -1 ELSE IF a = b THEN 0 ELSE u32_collate(a, b, TRUE)
\* Texts with their lengths, or up to their terminators when counted is FALSE; 0 is a failure.
CompareStringW(a, b, counted, ignore_case) ==
    IF NULL \in {a, b} THEN 0 ELSE IF ~counted /\ ~ignore_case /\ a = b THEN 2
    ELSE LET r == u32_collate(a, b, ignore_case) IN IF r = -2 THEN 0 ELSE 2 + r
CompareStringA(a, b, ignore_case) ==
    IF NULL \in {a, b} THEN 0 ELSE IF \E c \in Range(a) \cup Range(b) : c >= 128 THEN 0
    ELSE LET r == u32_collate(a, b, ignore_case) IN IF r = -2 THEN 0 ELSE 2 + r

-----------------------------------------------------------------------------
(* What the functions promise.                                                *)
IsPrefixOf(s, t) == s = First(t, Len(s))

\* The functions that look for a root agree about it: what PathSkipRoot skips is a root
\* (but for its last separator) of a path PathIsRelative denies, and PathStripToRoot
\* finds it by PathRemoveFileSpec alone, unless a colon stands behind the drive.  A
\* separator in the place of a drive letter is left out.
RootsAgree == asked.kind = "path" /\ ~(At(asked.a, 1) = Back /\ At(asked.a, 2) = Colon) =>
    LET p == asked.a
        n == u32_p_skiproot(p)
        s == PathStripToRoot(p)
        c == PathRemoveFileSpec(p)
    IN  /\ n # Nowhere => ~PathIsRelative(p) /\ u32_p_isroot(PathRemoveBackslash(First(p, n)))
        /\ n # Nowhere /\ LastOf(p, {Colon}) <= 2 => s.ret /\ IsPrefixOf(s.path, First(p, n))
        /\ s.ret => u32_p_isroot(s.path) /\ IsPrefixOf(s.path, p)
        /\ u32_p_isroot(p) => s = Answer(TRUE, p) /\ PathRemoveBackslash(p) = p
        /\ c.ret <=> Len(c.path) < Len(p)

\* Splitting a path that has a root into directory and file name and combining the two
\* again gives its canonical form, unless it ends in a separator or doubles one.
SplitThenCombine == asked.kind = "path" =>
    LET p == asked.a
        dir == PathRemoveFileSpec(p).path
        file == PathStripPath(p)
    IN  /\ u32_p_skiproot(p) \notin {Nowhere, Len(p)} /\ LastOf(p, {Colon}) <= 2 /\ At(p, Len(p)) # Back /\ LastOf(p, {47}) = 0
              /\ (\A i \in 2..Len(p) : ~Is2(SubSeq(p, i, Len(p)))) =>
               PathCombine(dir, file) = Answer(TRUE, PathCanonicalize(p))
        /\ PathFindExtension(p) >= PathFindFileName(p) \/ PathFindExtension(p) = Len(p) \/ LastOf(p, {47, Colon}) > 0

\* Taking an extension off and putting it back gives the same path, and what was added is
\* what is found, if it is an extension.
ExtensionLaws == asked.kind = "pair" =>
    LET p == asked.a
        e == asked.b
        bare == PathRemoveExtension(p)
        added == PathAddExtension(p, e)
    IN  /\ PathRenameExtension(p, After(p, PathFindExtension(p))).path = p
        /\ added.ret /\ e # <<>> /\ PathFindExtension(e) = 0 => PathRemoveExtension(added.path) = p
        /\ ~added.ret => added.path = p
        /\ Len(added.path) < MaxPath \/ added.path = p

\* However many ".." there are, the canonical form of a path with a drive's root and what is
\* combined with it stay on that drive (even where a name like ".." with more behind it
\* costs the separator of the root).  A file that is absolute replaces the directory.
DriveKept == asked.kind = "pair" =>
    LET p == asked.a
        f == asked.b
        c == PathCombine(p, f)
        n == u32_p_skiproot(p)
    IN  /\ IsDrive(p) /\ n # Nowhere => PathGetDriveNumber(PathCanonicalize(p)) = PathGetDriveNumber(p)
        /\ IsDrive(p) /\ n # Nowhere /\ c.ret /\ At(f, 2) # Colon /\ ~Is2(f) =>
               PathGetDriveNumber(c.path) = PathGetDriveNumber(p)
        /\ f # <<>> /\ (Is2(f) \/ At(f, 2) = Colon) => c = PathCombine(NULL, f)
        /\ c.ret => Len(c.path) <= MaxPath
        /\ PathAppend(p, f) = c \/ At(f, 1) = Back

\* The common prefix of two paths is one of both, up to case, ends where a component does
\* and is the same whichever path comes first.
CommonPrefixLaws == asked.kind = "pair" =>
    LET a == asked.a
        b == asked.b
        n == u32_p_common(a, b)
        c == PathCommonPrefix(a, b)
    IN  /\ n = u32_p_common(b, a) /\ Len(c) = n
        /\ IsPrefixOf(Lower(c), Lower(a)) /\ IsPrefixOf(Lower(c), Lower(b))
        /\ n > 0 /\ n < Len(a) => Back \in {a[n], a[n + 1]}
        /\ PathIsPrefix(a, b) /\ PathIsPrefix(b, a) => Lower(a) = Lower(b)
        /\ PathIsSameRoot(a, b) /\ IsDrive(a) => n >= 3

\* The searches agree with each other: a needle of one unit with the search for it, a set
\* with the span in front of it, the last with the first, a bounded search with the
\* unbounded one, and each folding search with the plain one on folded texts.
StrSearchAgree == asked.kind = "search" =>
    LET s == asked.a
        t == asked.b
        n == asked.n
        all == Len(s)
    IN  /\ StrPBrk(s, t) = (IF u32_s_cspn(s, t, FALSE) = all THEN Nowhere ELSE u32_s_cspn(s, t, FALSE))
        /\ StrSpn(s, t) > 0 => u32_s_cspn(s, t, FALSE) = 0
        /\ u32_s_cspn(s, t, TRUE) = u32_s_cspn(Lower(s), Lower(t), FALSE)
        /\ Len(t) = 1 => /\ u32_s_str(s, t, FALSE, all) = StrChrA(s, t[1]) /\ StrChrA(s, t[1]) = StrChrW(s, t[1])
                         /\ StrPBrk(s, t) = StrChrA(s, t[1])
                         /\ StrRStrI(s, NULL, t) = u32_s_rchr(s, NULL, t[1], TRUE)
                         /\ StrChrNW(s, t[1], n) = (IF StrChrA(s, t[1]) < n THEN StrChrA(s, t[1]) ELSE Nowhere)
                         /\ u32_s_rchr(s, n, t[1], FALSE) = u32_s_rchr(First(s, n), NULL, t[1], FALSE)
        /\ LET f == u32_s_str(s, t, FALSE, all) IN StrStrNW(s, t, n) = (IF f < n THEN f ELSE Nowhere)
        /\ LET f == u32_s_str(s, t, TRUE, all)
               l == StrRStrI(s, NULL, t)
           IN  (f = Nowhere <=> l = Nowhere) /\ f <= l /\ f = u32_s_str(Lower(s), Lower(t), FALSE, all)

\* A duration is never shown longer than it is, more digits never show less of it, enough
\* digits show all of it, and the length returned is that of the text left in the array.
IntervalTruncates == asked.kind = "interval" =>
    LET total == (asked.ms + 500) \div 1000
        w == u32_strfromtime_w(asked.room, asked.ms, asked.digits)
        a == StrFromTimeIntervalA(asked.room, asked.ms, asked.digits)
    IN  /\ asked.digits > 0 => /\ Interval(asked.ms, asked.digits).shows <= total
                               /\ Interval(asked.ms, asked.digits).shows <= Interval(asked.ms, asked.digits + 1).shows
        /\ Interval(asked.ms, 9).shows = total
        /\ w.path # NULL => /\ w.ret = Len(w.path) /\ w.ret < asked.room
                            /\ a.path = Append(w.path, 0) \/ Len(a.path) = asked.room

\* A program sees the same arguments whichever way it asks: from the start-up code, narrow or wide,
\* or by parsing the command line again, unless an argument holds a quote or a quoted one ends in a
\* backslash.  A line that does not fit is cut inside its buffer.
ArgumentsAgree == asked.kind = "args" =>
    LET argv == asked.argv
        quoted(a) == a = <<>> \/ Range(a) \cap Blanks # {}
        plain == \A i \in DOMAIN argv : Quote \notin Range(argv[i]) /\ (i > 1 /\ quoted(argv[i]) => At(argv[i], Len(argv[i])) # Back)
        whole == aret_build_cmdline(argv, 64)
        cut == GetCommandLineW(argv, asked.cap)
    IN  /\ plain => CommandLineToArgvW(whole) = argv
        /\ plain => CommandLineToArgvW(p__wcmdln(argv, 64)) = getmainargs(argv)
        /\ wgetmainargs(argv, 1024, 64) = getmainargs(argv)
        /\ LET w == wgetmainargs(argv, 2, asked.cap) IN Len(w) = Least(Len(argv), 2) /\ \A i \in DOMAIN w : IsPrefixOf(w[i], argv[i])
        /\ {GetCommandLineA(argv, asked.cap), p__acmdln(argv, asked.cap), p__wcmdln(argv, asked.cap)} = {cut}
        /\ Len(cut) < asked.cap
        /\ Len(whole) + 2 < asked.cap => cut = whole
        /\ Len(CommandLineToArgvW(whole)) >= 1 /\ CommandLineToArgvW(NULL) = <<<<>>>>

\* Collation orders texts: its outcomes are those of a total order that tells apart what differs,
\* or, without case, what differs by more than case; the two agree about texts whose letters differ,
\* a hyphen or an apostrophe never outweighs a letter, and the narrow and the counted comparison
\* say the same.
CollationIsOrder == asked.kind = "collate" =>
    LET a == asked.a
        b == asked.b
        r == lstrcmpW(a, b)
        ri == lstrcmpiW(a, b)
        bare(s) == SelectSeq(s, LAMBDA c : u32_ign(c) = 0)
    IN  /\ r = -lstrcmpW(b, a) /\ ri = -lstrcmpiW(b, a)
        /\ (r = 0) = (a = b) /\ (ri = 0) = (Lower(a) = Lower(b))
        /\ Lower(bare(a)) # Lower(bare(b)) => r = ri /\ r = lstrcmpW(bare(a), bare(b))
        /\ \A c \in asked.others : (r <= 0 /\ lstrcmpW(b, c) <= 0 => lstrcmpW(a, c) <= 0) /\ (ri <= 0 /\ lstrcmpiW(b, c) <= 0 => lstrcmpiW(a, c) <= 0)
        /\ \A n \in BOOLEAN : CompareStringW(a, b, n, FALSE) = 2 + r /\ CompareStringW(a, b, n, TRUE) = 2 + ri
        /\ CompareStringA(a, b, FALSE) = 2 + r /\ CompareStringA(a, b, TRUE) = 2 + ri
        /\ CompareStringW(NULL, b, TRUE, FALSE) = 0 /\ lstrcmpW(<<1>>, <<1>>) = 0 /\ lstrcmpW(<<1>>, a) = -2
=============================================================================
