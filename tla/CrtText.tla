------------------------------ MODULE CrtText ------------------------------
(***************************************************************************)
(* Strings of the C runtime: first the bounded string functions, on one       *)
(* destination array, then printf, scanf and the other functions over texts. *)
(*                                                                           *)
(* A C string passed in is a sequence of units without its terminator, or    *)
(* NULL; an array is the sequence of all its units, so what a call leaves    *)
(* behind its result is seen.  A call is given the size the program states,  *)
(* which is at most the array's.  Where the two widths have one body the     *)
(* operator stands for both.  The text a printf produces is an input of the  *)
(* first part; the formatter is in the second.  Last come signals and the    *)
(* start and exit of the runtime: initializer lists and the atexit table.    *)
(***************************************************************************)
EXTENDS CTexts, Functions, FiniteSets

CONSTANTS Truncate,       \* Truncate is (size_t)-1
          ArraySize,                 \* the units of the array
          Sources, Counts       \* the strings and the counts the program passes

ASSUME CrtAssumption == ArraySize \in Nat \ {0}

VARIABLES buf, last             \* the array; the last call: [fn, size, src, count, ret, was]
crtVars == <<buf, last>>

EINVAL == 22
ERANGE == 34
STRUNCATE == 80
\* d with the units of s from index at (counted from 0) on.
PutAt(d, at, s) == [i \in DOMAIN d |-> IF i - at \in DOMAIN s THEN s[i - at] ELSE d[i]]
Emptied(d) == PutAt(d, 0, <<0>>)
Did(ret, d) == [ret |-> ret, dst |-> d]
Refuses(d, size, s) == d = NULL \/ size = 0 \/ s = NULL
Refusal(d, size) == Did(EINVAL, IF d = NULL \/ size = 0 THEN d ELSE Emptied(d))

wcsnlen(s, maxlen) ==
    IF s = NULL \/ maxlen = 0 THEN 0
    ELSE LET n[i \in 0..maxlen] == IF i = maxlen THEN i ELSE IF i < Len(s) /\ s[i + 1] # 0 THEN n[i + 1] ELSE i IN n[0]

-----------------------------------------------------------------------------
(* The secure family.                                                         *)
\* Reports the overflow and keeps what fitted.
WcscatKeeps(d, size, s) ==
    LET at == wcsnlen(d, size)
    IN  IF Refuses(d, size, s) THEN Refusal(d, size)
        ELSE IF at + Len(s) >= size THEN Did(ERANGE, PutAt(d, at, First(s, size - at)))
        ELSE Did(0, PutAt(d, at, Append(s, 0)))
wcscat_s(d, size, s) ==
    LET at == wcsnlen(d, size)
    IN  IF Refuses(d, size, s) THEN Refusal(d, size)
        ELSE IF at = size THEN Did(ERANGE, Emptied(d))
        ELSE IF at + Len(s) >= size THEN Did(ERANGE, Emptied(PutAt(d, at, First(s, size - at))))
        ELSE Did(0, PutAt(d, at, Append(s, 0)))
\* The four case conversions: wide says what a size of 0 does.
Folded(d, size, to(_), wide) ==
    LET n == wcsnlen(d, size)
    IN  IF d = NULL THEN Did(EINVAL, d)
        ELSE IF size = 0 THEN Did(EINVAL, IF wide THEN Emptied(d) ELSE d)
        ELSE IF n = size THEN Did(EINVAL, Emptied(d))
        ELSE Did(0, [i \in DOMAIN d |-> IF i <= n THEN to(d[i]) ELSE d[i]])
strlwr_s(d, size) == Folded(d, size, lower, FALSE)
strupr_s(d, size) == Folded(d, size, up, FALSE)
wcslwr_s(d, size) == Folded(d, size, lower, TRUE)
wcsupr_s(d, size) == Folded(d, size, up, TRUE)
\* Returns 0 when everything but the terminator fits.
StrcpyForgetsNul(d, size, s) ==
    IF Refuses(d, size, s) THEN Refusal(d, size)
    ELSE IF Len(s) <= size THEN Did(0, PutAt(d, 0, First(Append(s, 0), size)))
    ELSE Did(ERANGE, Emptied(PutAt(d, 0, First(s, size))))
strcpy_s(d, size, s) ==
    IF Refuses(d, size, s) THEN Refusal(d, size)
    ELSE IF Len(s) < size THEN Did(0, PutAt(d, 0, Append(s, 0)))
    ELSE Did(ERANGE, Emptied(PutAt(d, 0, First(s, size))))
wcscpy_s(d, size, s) ==
    IF Refuses(d, size, s) THEN Refusal(d, size)
    ELSE IF Len(s) + 1 > size THEN Did(ERANGE, Emptied(d))
    ELSE Did(0, PutAt(d, 0, Append(s, 0)))
strncpy_s(d, size, s, count) ==
    LET n == IF count = Truncate THEN Len(s) ELSE Least(Len(s), count)
    IN  IF Refuses(d, size, s) THEN Refusal(d, size)
        ELSE IF n + 1 <= size THEN Did(0, PutAt(d, 0, Append(First(s, n), 0)))
        ELSE IF count = Truncate THEN Did(STRUNCATE, PutAt(d, 0, Append(First(s, size - 1), 0)))
        ELSE Did(ERANGE, Emptied(PutAt(d, 0, First(s, Least(size, n)))))

(* The unbounded pair and the padding copy.                                    *)
wcscpy(d, s) == Did(0, PutAt(d, 0, Append(s, 0)))
wcscat(d, s) == Did(0, PutAt(d, wcsnlen(d, Len(d)), Append(s, 0)))
WcsncpyForces(d, n, s) == Did(0, PutAt(d, 0, [i \in 1..(n + 1) |-> IF i <= Least(n, Len(s)) THEN s[i] ELSE 0]))
wcsncpy(d, n, s) == Did(0, PutAt(d, 0, [i \in 1..n |-> IF i <= Len(s) THEN s[i] ELSE 0]))

(* The tails of the printf family, given the formatted text.                   *)
snprintf(d, cap, text) ==
    Did(Len(text), IF cap = 0 THEN d ELSE PutAt(d, 0, Append(First(text, cap - 1), 0)))
stdio_common_vsprintf(d, cap, text) == IF d = NULL THEN Did(Len(text), d) ELSE snprintf(d, cap, text)
aret_wsn_finish(d, cap, text) ==
    IF cap = 0 THEN Did(-1, d)
    ELSE IF Len(text) < cap THEN Did(Len(text), PutAt(d, 0, Append(text, 0)))
    ELSE Did(-1, PutAt(d, 0, First(text, cap)))
aret_wsprintf_s_finish(d, cap, text) ==
    IF text = NULL \/ d = NULL \/ cap = 0 THEN Did(-1, d)       \* no text: no format
    ELSE IF Len(text) < cap THEN Did(Len(text), PutAt(d, 0, Append(text, 0)))
    ELSE Did(-1, PutAt(d, 0, [i \in 1..cap |-> 0]))
snwprintf_s(d, size, text, count) ==
    LET limit == IF count # Truncate /\ count < size - 1 THEN count ELSE size - 1
    IN  IF text = NULL THEN Did(-1, IF d = NULL \/ size = 0 THEN d ELSE Emptied(d))
        ELSE IF d = NULL THEN Did(Len(text), d)
        ELSE IF size = 0 THEN Did(-1, d)
        ELSE IF Len(text) <= limit THEN Did(Len(text), PutAt(d, 0, Append(text, 0)))
        ELSE IF count # Truncate /\ count >= size THEN Did(-1, PutAt(d, 0, [i \in 1..size |-> 0]))
        ELSE Did(-1, PutAt(d, 0, Append(First(text, limit), 0)))
\* The transforms of the C locale.
wcsxfrm(d, n, s) ==
    LET len == IF s = NULL THEN 0 ELSE Len(s)
        c == IF len < n THEN len ELSE n - 1
    IN  Did(len, IF d = NULL \/ n = 0 THEN d
                 ELSE PutAt(d, 0, Append(IF s = NULL THEN <<>> ELSE First(s, c), 0)))

-----------------------------------------------------------------------------
(* The copies of shlwapi, whose counts include the terminator; d is terminated.  *)
StrCatBuffFills(d, cch, s) ==
    LET have == wcsnlen(d, Len(d))
    IN  Did(0, IF s = NULL \/ cch <= have THEN d ELSE PutAt(d, have, First(Append(s, 0), cch - have)))
StrCatBuff(d, cch, s) ==
    LET have == wcsnlen(d, Len(d))
    IN  Did(0, IF s = NULL \/ cch <= have + 1 THEN d ELSE PutAt(d, have, Append(First(s, cch - have - 1), 0)))
StrNCat(d, cch, s) == Did(0, IF cch = 0 THEN d ELSE PutAt(d, wcsnlen(d, Len(d)), Append(First(s, cch - 1), 0)))
StrCpyNW(d, cch, s) == Did(0, IF cch = 0 THEN d ELSE PutAt(d, 0, Append(First(s, cch - 1), 0)))
\* Writes at ichAt, whatever is before it; NULL stands for -1, the current end.
StrCatChainW(d, cch, ichAt, s) ==
    LET at == IF ichAt = NULL THEN wcsnlen(d, cch) ELSE ichAt
        t == IF s = NULL THEN <<>> ELSE First(s, cch - at - 1)
    IN  IF cch = 0 THEN Did(0, d) ELSE IF at >= cch THEN Did(at, d) ELSE Did(at + Len(t), PutAt(d, at, Append(t, 0)))
StrTrim(d, set) ==
    LET t == First(d, wcsnlen(d, Len(d)))
        lo == IF set = NULL THEN 0 ELSE Span(t, Range(set))
        hi == CHOOSE h \in lo..Len(t) : /\ (h = lo \/ t[h] \notin Range(set))
                                       /\ \A i \in (h + 1)..Len(t) : t[i] \in Range(set)
    IN  IF set \in {NULL, <<>>} THEN Did(FALSE, d)
        ELSE IF lo = 0 /\ hi = Len(t) THEN Did(FALSE, d) ELSE Did(TRUE, PutAt(d, 0, Append(SubSeq(t, lo + 1, hi), 0)))
StrDup(s) == IF s = NULL THEN <<0>> ELSE Append(s, 0)

-----------------------------------------------------------------------------
CrtInit == buf = [i \in 1..ArraySize |-> 7] /\ last = [fn |-> "none"]

\* One call; d is NULL for the calls that accept that, and the array otherwise.
Calls(d, size, s, count) ==
    { <<"cat_s", wcscat_s(d, size, s)>>, <<"cpy_s", strcpy_s(d, size, s)>>, <<"cpy_s", wcscpy_s(d, size, s)>>,
      <<"ncpy_s", strncpy_s(d, size, s, count)>>, <<"sn_s", snwprintf_s(d, size, s, count)>>,
      <<"sprintf_s", aret_wsprintf_s_finish(d, size, s)>>, <<"xfrm", wcsxfrm(d, size, s)>>,
      <<"lwr_s", strlwr_s(d, size)>>, <<"lwr_s", wcslwr_s(d, size)>>,
      <<"upr_s", strupr_s(d, size)>>, <<"upr_s", wcsupr_s(d, size)>> }
Written(d, size, s) ==
    { <<"snprintf", snprintf(d, size, s)>>, <<"snprintf", stdio_common_vsprintf(d, size, s)>>,
      <<"sn", aret_wsn_finish(d, size, s)>>, <<"ncpy", wcsncpy(d, size, s)>> }
    \cup (IF Len(s) < size THEN {<<"cpy", wcscpy(d, s)>>} ELSE {})
    \cup (IF wcsnlen(d, size) + Len(s) < size THEN {<<"cat", wcscat(d, s)>>} ELSE {})
Shell(d, size, s, count) ==
    LET have == wcsnlen(d, Len(d))
    IN  {<<"chain", StrCatChainW(d, size, at, s)>> : at \in {NULL} \cup (Counts \cap 0..size)}
        \cup (IF s = NULL THEN {} ELSE {<<"shcpy", StrCpyNW(d, size, s)>>})
        \cup (IF have = Len(d) THEN {}
              ELSE {<<"catbuff", StrCatBuff(d, size, s)>>, <<"trim", StrTrim(d, s)>>}
                   \cup (IF s = NULL \/ count = Truncate THEN {}
                         ELSE IF have + Least(Len(s), count) >= size THEN {} ELSE {<<"shcat", StrNCat(d, count, s)>>}))
CrtNext ==
    \E size \in 0..ArraySize, s \in Sources \cup {NULL}, count \in Counts \cup {Truncate}, null \in BOOLEAN :
        LET d == IF null THEN NULL ELSE buf
        IN  \E c \in Calls(d, size, s, count) \cup (IF null \/ s = NULL THEN {} ELSE Written(d, size, s))
                        \cup (IF null THEN {} ELSE Shell(d, size, s, count)) :
                /\ buf' = IF null THEN buf ELSE c[2].dst
                /\ last' = [fn |-> c[1], size |-> size, src |-> s, count |-> count, null |-> null,
                            ret |-> c[2].ret, was |-> buf]

-----------------------------------------------------------------------------
(* What the calls promise.                                                    *)
Text(d, size) == First(d, wcsnlen(d, size))
HasNul(d, size) == wcsnlen(d, size) < size
Given == IF last.src = NULL THEN <<>> ELSE last.src
\* What a successful call is to leave in the array.
Wanted ==
    CASE last.fn \in {"cat_s", "cat"} -> Text(last.was, last.size) \o Given
      [] last.fn = "ncpy_s" -> IF last.count = Truncate THEN Given ELSE First(Given, last.count)
      [] last.fn = "lwr_s" -> [i \in 1..wcsnlen(last.was, last.size) |-> lower(last.was[i])]
      [] last.fn = "upr_s" -> [i \in 1..wcsnlen(last.was, last.size) |-> up(last.was[i])]
      [] OTHER -> Given
Succeeded == /\ last.fn # "none" /\ ~last.null
             /\ \/ last.fn \in {"cat_s", "cpy_s", "ncpy_s", "lwr_s", "upr_s", "cpy", "cat"} /\ last.ret = 0
                \/ last.fn \in {"sn_s", "sprintf_s", "sn", "snprintf", "xfrm"} /\ last.ret \in 0..(last.size - 1)

\* A call that reports success has left exactly the wanted text, terminated inside the size
\* it was given (the _s family, the printf tails and the transforms of aret_crt.c).
SuccessIsWhole == Succeeded => HasNul(buf, last.size) /\ Text(buf, last.size) = Wanted

\* A secure call that fails leaves no partial text to be taken for a result: the array reads
\* as empty, or was not touched at all, unless truncation was asked for.
FailureIsEmpty ==
    /\ last.fn \in {"cat_s", "cpy_s", "ncpy_s", "lwr_s", "upr_s"} /\ last.ret \in {EINVAL, ERANGE} => (buf[1] = 0 \/ buf = last.was)
    /\ last.fn \in {"ncpy_s", "sn_s"} /\ last.ret \in {-1, STRUNCATE} /\ last.src # NULL /\ ~last.null /\ last.size > 0 =>
           /\ HasNul(buf, last.size)
           /\ Text(buf, last.size) \in {<<>>, First(Wanted, last.size - 1), First(Wanted, IF last.count = Truncate THEN 0 ELSE last.count)}
    /\ last.fn = "sprintf_s" /\ last.ret = -1 => (buf = last.was \/ \A i \in 1..last.size : buf[i] = 0)

\* No call changes a unit behind the size it was given (the wide case conversions may empty
\* an array whose size is 0, as measured there, and StrTrim is given none).
SizeRespected ==
    [][\A i \in 1..ArraySize : buf'[i] # buf[i] => (i <= last'.size \/ (i = 1 /\ last'.fn \in {"lwr_s", "upr_s"}) \/ last'.fn = "trim")]_crtVars

\* The copies of shlwapi never leave a terminated array without its terminator: their
\* counts are of the whole array, not of the characters to move.
StaysTerminated ==
    [][last'.fn \in {"catbuff", "chain", "shcat", "shcpy", "trim"} /\ HasNul(buf, ArraySize) => HasNul(buf', ArraySize)]_crtVars

-----------------------------------------------------------------------------
(***************************************************************************)
(* The functions over texts: printf and scanf with their wide    *)
(* twins, comparison, searching, numbers, paths, character classes, and the  *)
(* catalogue test of gettext.  A format is the sequence of its directives:    *)
(* the reading of one directive's own letters is what a record stands for.    *)
(* The case under test, given, is chosen by Init and never changes.             *)
(***************************************************************************)

CONSTANTS ScanBuf,      \* the units of the copy a number is parsed from (129)
          FormatTmp     \* the units one conversion may produce (1024)

ASSUME ScanAssumption == ScanBuf \in Nat /\ ScanBuf > 2 /\ FormatTmp \in Nat \ {0}

VARIABLE given
caseVars == <<given>>

Space == {32} \cup 9..13
Decimal == 48..57
PlusMinus == {43, 45}

-----------------------------------------------------------------------------
(* Numbers.  strtol of the host, for the bases and the signs used here.        *)
DigitOf(c) == IF c \in Decimal THEN c - 48 ELSE IF c \in 97..122 THEN c - 87 ELSE IF c \in 65..90 THEN c - 55 ELSE 99
DigitsIn(base) == {c \in Decimal \cup 97..122 \cup 65..90 : DigitOf(c) < base}
strtol(text, base) ==
    LET sign == IF text # <<>> /\ text[1] \in PlusMinus THEN 1 ELSE 0
        n == Span(After(text, sign), DigitsIn(base))
        v[i \in 0..n] == IF i = 0 THEN 0 ELSE v[i - 1] * base + DigitOf(text[sign + i])
    IN  IF n = 0 THEN [used |-> 0, value |-> 0]
        ELSE [used |-> sign + n, value |-> IF text[1] = 45 THEN -v[n] ELSE v[n]]
\* The digits of v, least significant first, as both conversions collect them.
DigitsOf(v, radix) ==
    LET d[n \in 0..v] == <<IF n % radix < 10 THEN 48 + (n % radix) ELSE 87 + (n % radix)>>
                         \o (IF n < radix THEN <<>> ELSE d[n \div radix])
    IN  d[v]
Backwards(s) == [i \in DOMAIN s |-> s[Len(s) + 1 - i]]
aret_int2str(v, radix, neg) ==
    IF radix \notin 2..36 THEN <<>> ELSE (IF neg THEN <<45>> ELSE <<>>) \o Backwards(DigitsOf(v, radix))
\* The magnitude, without its sign, where the word is meant.
LtoaMagnitude(v, radix, word) == aret_int2str(Most(v, -v), radix, radix = 10 /\ v < 0)
ltoa(v, radix, word) ==
    IF radix = 10 /\ v < 0 THEN aret_int2str(-v, 10, TRUE) ELSE aret_int2str(v % word, radix, FALSE)
ui64toa_s(v, size, radix) ==
    IF size = 0 \/ radix \notin 2..36 THEN [ret |-> 22, dst |-> <<>>]
    ELSE IF Len(DigitsOf(v, radix)) + 1 > size THEN [ret |-> 34, dst |-> <<>>]
    ELSE [ret |-> 0, dst |-> Backwards(DigitsOf(v, radix))]
\* The wide form parses a copy (127 units at most) of its low bytes and maps the end pointer back.
aret_wcsto_impl(text, base) == strtol([i \in 1..Least(Len(text), ScanBuf - 2) |-> text[i] % 256], base)

-----------------------------------------------------------------------------
(* scanf.  A directive d is                                                    *)
(*   [k: "space"], [k: "lit", c], [k: "n", suppress],                          *)
(*   [k: "c"|"s"|"set"|"num", suppress, width, set, base], width 0 for none.   *)
(* The state: at, the units consumed; out, what was assigned; cuts, where each *)
(* completed directive ended.                                                  *)
Skip(text, at) == at + Span(After(text, at), Space)
Limit(d) == IF d.width = 0 THEN 1073741823 ELSE d.width
\* The copy a number is parsed from.
NumberRoomShort(rest, width, wide) ==       \* leaves room for a terminator in the width
    IF wide THEN First(rest, IF width = 0 THEN ScanBuf ELSE Least(width, ScanBuf))
    ELSE IF width > 0 /\ width < ScanBuf THEN First(rest, width - 1) ELSE rest
NumberRoom(rest, width, wide) ==
    IF wide THEN First(rest, IF width = 0 THEN ScanBuf ELSE Least(width, ScanBuf))
    ELSE IF width > 0 /\ width < ScanBuf THEN First(rest, width) ELSE rest
\* What a directive takes of text from at on: where it starts, and its length or 0.
Taken(d, text, at, wide) ==
    LET from == IF d.k \in {"s", "num"} THEN Skip(text, at) ELSE at
        rest == After(text, from)
        n == CASE d.k = "c" -> IF Len(rest) < Most(d.width, 1) THEN 0 ELSE Most(d.width, 1)
               [] d.k = "s" -> Least(Span(rest, (0..255) \ Space), Limit(d))
               [] d.k = "set" -> Least(Span(rest, d.set), Limit(d))
               [] d.k = "num" -> strtol(NumberRoom(rest, d.width, wide), d.base).used
    IN  [from |-> from, n |-> n]
Assigned(d, text, from, n, wide) ==
    IF d.k = "num" THEN strtol(NumberRoom(After(text, from), d.width, wide), d.base).value ELSE SubSeq(text, from + 1, from + n)
Stopped(st, at) == [st EXCEPT !.on = FALSE, !.at = at]
Passed(st, at) == [st EXCEPT !.at = at, !.cuts = Append(@, at)]
\* %c leaves the units it read behind even when there were too few.
Directive(st, d, text, wide) ==
    IF d.k = "space" THEN Passed(st, Skip(text, st.at))
    ELSE IF d.k = "lit" THEN IF First(After(text, st.at), 1) = <<d.c>> THEN Passed(st, st.at + 1) ELSE Stopped(st, st.at)
    ELSE IF d.k = "n" THEN Passed([st EXCEPT !.out = IF d.suppress THEN @ ELSE Append(@, st.at)], st.at)
    ELSE LET t == Taken(d, text, st.at, wide)
             tried == [st EXCEPT !.attempted = TRUE]
         IN  IF t.n = 0 THEN Stopped(tried, IF d.k = "c" THEN Len(text) ELSE t.from)
             ELSE Passed([tried EXCEPT !.assigned = IF d.suppress THEN @ ELSE @ + 1,
                                       !.out = IF d.suppress THEN @ ELSE Append(@, Assigned(d, text, t.from, t.n, wide))],
                         t.from + t.n)
Scanned(text, fmt, wide) ==
    LET st[p \in 0..Len(fmt)] ==
            IF p = 0 THEN [at |-> 0, out |-> <<>>, cuts |-> <<>>, assigned |-> 0, attempted |-> FALSE, on |-> TRUE]
            ELSE IF st[p - 1].on THEN Directive(st[p - 1], fmt[p], text, wide) ELSE st[p - 1]
        end == st[Len(fmt)]
    IN  [ret |-> IF end.assigned = 0 /\ end.attempted /\ end.at = Len(text) THEN -1 ELSE end.assigned,
         out |-> end.out, cuts |-> end.cuts, at |-> end.at]
aret_sscanf_core(text, fmt) == Scanned(text, fmt, FALSE)
aret_swscanf_core(text, fmt) == Scanned(text, fmt, TRUE)

-----------------------------------------------------------------------------
(* printf.  A directive is [k: "lit", c] or [k: "num"|"big"|"str"|"chr", width, *)
(* star]: a number of one word, one of two, a string, a character; star takes   *)
(* the width from an argument of its own.  The host formats one conversion.     *)
OneWord(d) == 1
Words(d) == IF d.k = "big" THEN 2 ELSE 1
Padded(text, width) == [i \in 1..Most(width - Len(text), 0) |-> 32] \o text
Conversion(d, width, value) ==
    Padded(IF d.k = "chr" THEN <<value>> ELSE IF d.k = "str" THEN value
           ELSE IF value < 0 THEN aret_int2str(-value, 10, TRUE) ELSE aret_int2str(value, 10, FALSE), width)
\* What lies behind tmp is undefined: -1 stands for it.
InTmp(text) == [i \in DOMAIN text |-> IF i <= FormatTmp THEN text[i] ELSE -1]
Formatted(cap, fmt, args, wide) ==
    LET room(st) == cap - 1 - Len(st.out)
        step(st, d) ==
            IF d.k = "lit" THEN [st EXCEPT !.out = Append(@, d.c)]
            ELSE LET width == IF d.star THEN args[st.ai + 1] ELSE d.width
                     ai == st.ai + (IF d.star THEN 1 ELSE 0)
                     value == args[ai + 1]
                     text == IF wide /\ d.k = "chr" THEN <<value>> ELSE InTmp(Conversion(d, width, value))
                 IN  [out |-> st.out \o First(text, room(st)), ai |-> ai + Words(d)]
        st[p \in 0..Len(fmt)] ==
            IF p = 0 THEN [out |-> <<>>, ai |-> 0]
            ELSE IF room(st[p - 1]) > 0 THEN step(st[p - 1], fmt[p]) ELSE st[p - 1]
    IN  st[Len(fmt)]
VformatFills(cap, fmt, args) == Formatted(cap + 1, fmt, args, FALSE)
aret_vformat(cap, fmt, args) == Formatted(cap, fmt, args, FALSE)
aret_wvformat(cap, fmt, args) == IF cap = 0 THEN [out |-> <<>>, ai |-> 0] ELSE Formatted(cap, fmt, args, TRUE)
\* sprintf and its relatives give the formatter a room without end, the wsprintfW pair 1024.
sprintf(fmt, args) == aret_vformat(1073741823, fmt, args)
wsprintfW(fmt, args) == aret_wvformat(1024, fmt, args)

-----------------------------------------------------------------------------
(* Comparing and searching; a text ends with a 0 unit.                          *)
\* Where the scan stops: the first difference, the end, or limit units.
Apart(a, b, limit) == CHOOSE i \in 1..(limit + 1) : /\ i = limit + 1 \/ At(a, i) # At(b, i) \/ At(a, i) = 0
                                                    /\ \A j \in 1..(i - 1) : At(a, j) = At(b, j) /\ At(a, j) # 0
wcscmp(a, b) == LET i == Apart(a, b, Len(a) + 1) IN At(a, i) - At(b, i)
WcsncmpPast(a, b, n) == LET i == Apart(a, b, Len(a) + 1) IN IF i > n + 1 THEN 0 ELSE At(a, i) - At(b, i)
wcsncmp(a, b, n) == LET i == Apart(a, b, Least(n, Len(a) + 1)) IN IF i > n THEN 0 ELSE At(a, i) - At(b, i)
wcsicmp(a, b) == wcscmp(Lower(a), Lower(b))
wcsnicmp(a, b, n) == wcsncmp(Lower(a), Lower(b), n)
wcscoll(a, b) == wcscmp(a, b)
\* Positions count from 1; 0 is a null pointer.
wcschr(s, c) == LET z == Append(s, 0) IN IF \E i \in DOMAIN z : z[i] = c THEN Span(z, (0..65535) \ {c}) + 1 ELSE 0
wcsrchr(s, c) == LET r[i \in 0..(Len(s) + 1)] == IF i = 0 THEN 0 ELSE IF Append(s, 0)[i] = c THEN i ELSE r[i - 1] IN r[Len(s) + 1]
wcsstr(h, n) ==
    LET r[i \in 1..(Len(h) + 1)] == IF i > Len(h) THEN 0 ELSE IF First(After(h, i - 1), Len(n)) = n THEN i ELSE r[i + 1]
    IN  IF n = <<>> THEN 1 ELSE r[1]
u32_wcs_in(set) == {set[i] : i \in DOMAIN set}
wcsspn(s, set) == Span(s, u32_wcs_in(set))
wcscspn(s, set) == Span(s, (0..65535) \ u32_wcs_in(set))
wcspbrk(s, set) == IF wcscspn(s, set) = Len(s) THEN 0 ELSE wcscspn(s, set) + 1

-----------------------------------------------------------------------------
(* Paths.                                                                       *)
Separator == {47, 92}
splitpath(path) ==
    LET drive == IF Len(path) > 1 /\ path[2] = 58 THEN 2 ELSE 0
        p == After(path, drive)
        sep == LastOf(p, Separator)
        fn == After(p, sep)
        dot == LastOf(fn, {46})
    IN  [drive |-> First(path, drive), dir |-> First(p, sep),
         fname |-> IF dot = 0 THEN fn ELSE First(fn, dot - 1), ext |-> IF dot = 0 THEN <<>> ELSE After(fn, dot - 1)]
\* Always puts a separator behind the directory.
MakepathDoubles(drive, dir, fname, ext) ==
    (IF drive = <<>> THEN <<>> ELSE <<drive[1], 58>>)
    \o (IF dir = <<>> THEN <<>> ELSE dir \o <<92>>)
    \o fname
    \o (IF ext # <<>> /\ ext[1] # 46 THEN <<46>> ELSE <<>>) \o ext
makepath(drive, dir, fname, ext) ==
    (IF drive = <<>> THEN <<>> ELSE <<drive[1], 58>>)
    \o (IF dir = <<>> THEN <<>> ELSE IF dir[Len(dir)] \in Separator THEN dir ELSE dir \o <<92>>)
    \o fname
    \o (IF ext # <<>> /\ ext[1] # 46 THEN <<46>> ELSE <<>>) \o ext

-----------------------------------------------------------------------------
(* Character classes: the bits as names.                                        *)
Upper26 == 65..90
Lower26 == 97..122
Hex == Decimal \cup 65..70 \cup 97..102
aret_ctype_bits(c) ==
    LET table == [upper |-> Upper26, lower |-> Lower26, digit |-> Decimal, space |-> Space, hex |-> Hex, blank |-> {32},
                  punct |-> 33..47 \cup 58..64 \cup 91..96 \cup 123..126, control |-> 0..31 \cup {127}]
    IN  {b \in DOMAIN table : c \in table[b]}
\* Takes every printing character that is no letter or digit, the space included.
MaskSpacePunct(c) ==
    LET table == [upper |-> Upper26, lower |-> Lower26, digit |-> Decimal, hex |-> Hex, blank |-> {9, 32},
                  space |-> {32} \cup 9..13, control |-> 0..31 \cup {127}, alpha |-> Upper26 \cup Lower26,
                  punct |-> (32..126) \ (Decimal \cup Upper26 \cup Lower26)]
    IN  IF c >= 128 THEN {} ELSE {b \in DOMAIN table : c \in table[b]}
w_ctype_mask(c) ==
    LET table == [upper |-> Upper26, lower |-> Lower26, digit |-> Decimal, hex |-> Hex, blank |-> {9, 32},
                  space |-> {32} \cup 9..13, control |-> 0..31 \cup {127}, alpha |-> Upper26 \cup Lower26,
                  punct |-> (33..126) \ (Decimal \cup Upper26 \cup Lower26)]
    IN  IF c >= 128 THEN {} ELSE {b \in DOMAIN table : c \in table[b]}

-----------------------------------------------------------------------------
(* _aligned_malloc over a block at raw: the address handed out, and what is asked of malloc. *)
PtrSize == 4
AsksTooLittle(raw, size, alignment) ==      \* forgets the stored pointer
    LET align == Most(alignment, PtrSize)
        a == raw + PtrSize + align - 1
    IN  [ok |-> align \in {4, 8, 16}, asked |-> size + align - 1, at |-> a - (a % align)]
aligned_malloc(raw, size, alignment) ==
    LET align == Most(alignment, PtrSize)
        a == raw + PtrSize + align - 1
    IN  [ok |-> align \in {4, 8, 16}, asked |-> size + align + PtrSize, at |-> a - (a % align)]

-----------------------------------------------------------------------------
(* What holds of every case.                                                    *)
\* What a directive may match, said without the scanner: the piece between two cuts.
Matches(d, piece, spaces) ==
    LET core == After(piece, spaces)
        digits == IF core # <<>> /\ core[1] \in PlusMinus THEN After(core, 1) ELSE core
    IN  CASE d.k = "space" -> core = <<>>
          [] d.k = "lit" -> spaces = 0 /\ core = <<d.c>>
          [] d.k = "n" -> piece = <<>>
          [] d.k = "c" -> spaces = 0 /\ Len(core) = Most(d.width, 1)
          [] d.k = "s" -> core # <<>> /\ Len(core) <= Limit(d) /\ \A i \in DOMAIN core : core[i] \notin Space
          [] d.k = "set" -> spaces = 0 /\ core # <<>> /\ Len(core) <= Limit(d) /\ \A i \in DOMAIN core : core[i] \in d.set
          [] d.k = "num" -> digits # <<>> /\ Len(core) <= Limit(d) /\ \A i \in DOMAIN digits : digits[i] \in DigitsIn(d.base)
CanEnd(d, text, from, to) ==
    \E s \in 0..(to - from) : /\ \A i \in (from + 1)..(from + s) : text[i] \in Space
                              /\ s > 0 => d.k \in {"space", "s", "num"}
                              /\ Matches(d, SubSeq(text, from + 1, to), s)
\* aret_sscanf_core splits its input as the format says: each completed directive took the
\* longest piece it may match, and the one that stopped the scan could match none.
ScanIsGreedy ==
    given.kind = "scan" => \A r \in {aret_sscanf_core(given.text, given.fmt)} :
        LET from(p) == IF p = 1 THEN 0 ELSE r.cuts[p - 1]
        IN  /\ \A p \in 1..Len(r.cuts) :
                   /\ CanEnd(given.fmt[p], given.text, from(p), r.cuts[p])
                   /\ \A e \in (r.cuts[p] + 1)..Len(given.text) : ~CanEnd(given.fmt[p], given.text, from(p), e)
            /\ Len(r.cuts) < Len(given.fmt) =>
                   \A e \in from(Len(r.cuts) + 1)..Len(given.text) : ~CanEnd(given.fmt[Len(r.cuts) + 1], given.text, from(Len(r.cuts) + 1), e)
            /\ r.ret \in {-1, Len(r.out) - Cardinality({p \in 1..Len(r.cuts) : given.fmt[p].k = "n" /\ ~given.fmt[p].suppress})}

\* What sprintf wrote with separated conversions, sscanf reads back: every value, the number
\* of them, and all of the text; and the two widths of each agree on it.
FormatThenScan ==
    given.kind = "print" => \A printed \in {sprintf(given.fmt, given.args)} :
        LET scan == [p \in DOMAIN given.fmt |->
                        IF given.fmt[p].k = "lit" THEN [k |-> "space"]
                        ELSE [k |-> IF given.fmt[p].k = "str" THEN "s" ELSE "num", suppress |-> FALSE, width |-> 0, base |-> 10]]
            r == aret_sscanf_core(printed.out, scan)
        IN  /\ printed.ai = Len(given.args)
            /\ wsprintfW(given.fmt, given.args) = printed
            /\ aret_swscanf_core(printed.out, scan) = r
            /\ r.out = given.values /\ r.ret = Len(given.values) /\ r.at = Len(printed.out)

\* A formatter given less room writes a prefix of what it would write, one unit short of it.
PrefixWritten ==
    given.kind = "print" =>
        \A cap \in 1..(Len(sprintf(given.fmt, given.args).out) + 2) :
            aret_vformat(cap, given.fmt, given.args).out = First(sprintf(given.fmt, given.args).out, cap - 1)

\* The searches and the comparisons say the same of a text: wcsncmp is wcscmp of the prefixes,
\* wcsstr the first place where wcsncmp finds the needle, and the spans meet at wcspbrk.
SearchesAgree ==
    given.kind = "search" =>
        LET a == given.a  b == given.b  n == given.n IN
        /\ wcscmp(a, b) = 0 <=> a = b
        /\ wcsncmp(a, b, n) = wcscmp(First(a, n), First(b, n))
        /\ wcsnicmp(a, b, n) = wcsicmp(First(a, n), First(b, n))
        /\ (wcscmp(a, b) < 0) <=> (wcscmp(b, a) > 0)
        /\ LET at == wcsstr(a, b) IN
           /\ at > 0 => wcsncmp(After(a, at - 1), b, Len(b)) = 0
           /\ \A i \in 1..(IF at = 0 THEN Len(a) ELSE at - 1) : wcsncmp(After(a, i - 1), b, Len(b)) # 0
        /\ wcspbrk(a, b) > 0 => a[wcspbrk(a, b)] \in u32_wcs_in(b) /\ wcscspn(a, b) = wcspbrk(a, b) - 1
        /\ (wcsspn(a, b) = 0 \/ wcscspn(a, b) = 0)
        /\ b # <<>> => (wcschr(a, b[1]) = 0) = (wcsrchr(a, b[1]) = 0) /\ wcschr(a, b[1]) <= wcsrchr(a, b[1])

\* _makepath is the inverse of _splitpath, as their comment promises.
PathRoundTrip == given.kind = "path" => LET s == splitpath(given.path) IN makepath(s.drive, s.dir, s.fname, s.ext) = given.path

\* A number written by _ltoa in any radix and read by wcstol is the same word again.
RadixRoundTrip ==
    given.kind = "number" =>
        \A radix \in {2, 8, 10, 16, 36} :
            LET text == ltoa(given.v, radix, given.word)
                size == Len(DigitsOf(given.v % given.word, radix)) + 1
            IN  /\ Len(text) <= ScanBuf - 2 => aret_wcsto_impl(text, radix).value % given.word = given.v % given.word
                /\ ui64toa_s(given.v % given.word, size, radix).ret = 0 /\ ui64toa_s(given.v % given.word, size - 1, radix).ret # 0

\* The two class tables agree on every character of the C locale, up to the two measured
\* differences (the tab is blank to iswctype, and only it has an alpha bit).
ClassesAgree ==
    given.kind = "class" =>
        \A c \in given.chars : w_ctype_mask(c) \ {"alpha"} = (IF c = 9 THEN {"blank"} ELSE {}) \cup (IF c < 128 THEN aret_ctype_bits(c) ELSE {})

\* An aligned block and the pointer stored below it lie inside what malloc was asked for.
AlignedInside ==
    given.kind = "align" =>
        LET m == aligned_malloc(given.raw, given.size, given.alignment) IN
        m.ok => /\ m.at % given.alignment = 0 /\ m.at - PtrSize >= given.raw
                /\ m.at + given.size <= given.raw + m.asked

-----------------------------------------------------------------------------
(* Start, signals and exit of the process.  A disposition is SIG_DFL, SIG_IGN *)
(* or the number of a handler; what a handler does is the program's: nothing, *)
(* install itself again, or raise its signal once more.                       *)
SIG_DFL == 0
SIG_IGN == 1
Installs == 3
Raises == 4
NSig == 64
Signals(disp) == [disp |-> disp, ran |-> <<>>, alive |-> TRUE]
Did2(ret, st) == [ret |-> ret, st |-> st]
signal(st, sig, h) == IF sig >= NSig THEN Did2(-1, st) ELSE Did2(st.disp[sig], [st EXCEPT !.disp[sig] = h])
HandlerBody(st, sig, h) ==
    CASE h = Installs -> signal(st, sig, h).st
      [] h = Raises -> IF st.disp[sig] = SIG_DFL THEN [st EXCEPT !.alive = FALSE] ELSE st
      [] OTHER -> st
\* Resets the disposition when the handler has returned.
DeliverThenReset(st, sig) ==
    LET h == st.disp[sig] IN [HandlerBody([st EXCEPT !.ran = Append(@, <<h, sig>>)], sig, h) EXCEPT !.disp[sig] = SIG_DFL]
\* One shot: the disposition is reset before the handler is called.
Deliver(st, sig) ==
    LET h == st.disp[sig] IN HandlerBody([st EXCEPT !.ran = Append(@, <<h, sig>>), !.disp[sig] = SIG_DFL], sig, h)
raise(st, sig) ==
    IF sig >= NSig THEN Did2(-1, st)
    ELSE IF st.disp[sig] = SIG_IGN THEN Did2(0, st)
    ELSE IF st.disp[sig] = SIG_DFL THEN Did2(0, [st EXCEPT !.alive = FALSE])
    ELSE Did2(0, Deliver(st, sig))
\* The C signal of an exception code; divisions of integers have none.
SignalOf(code) == CASE code = "ACCESS_VIOLATION" -> 11 [] code = "FLT" -> 8 [] code = "ILLEGAL" -> 4 [] OTHER -> NULL
XcptFilter(st, code, ptrs) ==
    LET sig == SignalOf(code)
    IN  IF ~ptrs \/ sig = NULL THEN Did2(0, st)
        ELSE IF st.disp[sig] = SIG_DFL THEN Did2(0, st)
        ELSE IF st.disp[sig] = SIG_IGN THEN Did2(-1, st)
        ELSE Did2(-1, Deliver(st, sig))
\* A program: its calls in order, until one ends the process.
SignalCall(st, c) ==
    CASE c.fn = "signal" -> signal(st, c.sig, c.h) [] c.fn = "raise" -> raise(st, c.sig) [] c.fn = "filter" -> XcptFilter(st, c.code, c.ptrs)
\* Installing a handler arms it for one delivery: of the plain handlers none runs more often than
\* it was installed, a handler that installs itself again is installed when it has run, one that
\* raises its signal again ends the process, ignoring consumes nothing, signal returns the handler
\* it set last unless that has run, and a filter without exception pointers touches nothing.
SignalsOneShot ==
    given.kind = "signal" =>
        LET n == Len(given.calls)
            run[i \in 0..n] ==
                IF i = 0 THEN Did2(0, Signals([s \in {4, 8, 11} |-> SIG_DFL]))
                ELSE IF ~run[i - 1].st.alive THEN run[i - 1] ELSE SignalCall(run[i - 1].st, given.calls[i])
            made(i) == run[i - 1].st.alive
            sets(s) == {i \in 1..n : made(i) /\ given.calls[i].fn = "signal" /\ given.calls[i].sig = s}
            ran(h, s) == {k \in DOMAIN run[n].st.ran : run[n].st.ran[k] = <<h, s>>}
        IN  /\ \A s \in {4, 8, 11}, h \in {2, Raises} : Cardinality(ran(h, s)) <= Cardinality({i \in sets(s) : given.calls[i].h = h})
            /\ \A s \in {4, 8, 11} : ran(Raises, s) # {} => ~run[n].st.alive
            /\ \A i \in 1..n : made(i) =>
                   LET c == given.calls[i]
                       before == run[i - 1].st
                       after == run[i].st
                       earlier == {j \in 1..(i - 1) : j \in sets(c.sig)}
                   IN  CASE c.fn = "signal" /\ earlier # {} ->
                              LET j == CHOOSE k \in earlier : \A l \in earlier : l <= k
                                  quiet == Len(before.ran) = Len(run[j].st.ran)
                              IN  quiet \/ given.calls[j].h \in {SIG_IGN, Installs} => run[i].ret = given.calls[j].h
                         [] c.fn = "filter" /\ ~c.ptrs -> run[i] = Did2(0, before)
                         [] c.fn = "filter" -> (run[i].ret = -1) = (SignalOf(c.code) # NULL /\ before.disp[SignalOf(c.code)] # SIG_DFL)
                         [] c.fn = "raise" /\ before.disp[c.sig] = SIG_IGN -> after = before
                         [] OTHER -> TRUE

-----------------------------------------------------------------------------
(* The tables of initialisers, and what runs at exit.  An entry is NULL, or a *)
(* function with the value it returns and what it registers.                  *)
AtExitMax == 64
initterm(table) == SelectSeq(table, LAMBDA e : e # NULL)
\* Stops at the first failure.
initterm_e(table) ==
    LET bad == {i \in DOMAIN table : table[i] # NULL /\ table[i].ret # 0}
        n == CHOOSE i \in 1..(Len(table) + 1) : (i \in bad \/ i = Len(table) + 1) /\ \A j \in bad : i <= j
    IN  [ret |-> IF bad = {} THEN 0 ELSE table[n].ret, ran |-> initterm(First(table, n))]
\* Runs them as they were registered.
RunInOrder(fns) == fns
aret_register_atexit(fns, va) == IF Len(fns) < AtExitMax THEN Append(fns, va) ELSE fns
aret_run_atexit(fns) == [i \in DOMAIN fns |-> fns[Len(fns) + 1 - i]]
\* Every initialiser up to the first failure runs once and in order, and what they registered runs
\* at exit in the opposite order; registrations beyond the table are lost.
StartAndExit ==
    given.kind = "start" =>
        LET e == initterm_e(given.table)
            reg[i \in 0..Len(given.table)] ==
                IF i = 0 THEN given.full
                ELSE IF given.table[i] = NULL THEN reg[i - 1] ELSE aret_register_atexit(reg[i - 1], given.table[i].at)
            out == aret_run_atexit(reg[Len(given.table)])
            want == given.full \o [i \in DOMAIN initterm(given.table) |-> initterm(given.table)[i].at]
        IN  /\ (e.ret = 0) = (e.ran = initterm(given.table) /\ \A i \in DOMAIN e.ran : e.ran[i].ret = 0)
            /\ e.ret # 0 => e.ran[Len(e.ran)].ret = e.ret
            /\ \A i \in DOMAIN e.ran : e.ran[i] = initterm(given.table)[i] /\ (e.ran[i].ret # 0 => i = Len(e.ran))
            /\ Len(out) = Least(Len(want), AtExitMax)
            /\ \A i \in DOMAIN out : out[i] = want[Len(out) + 1 - i]
=============================================================================
