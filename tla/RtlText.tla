------------------------------ MODULE RtlText -------------------------------
(***************************************************************************)
(* The functions of ntdll over the text of its strings: comparison, search,  *)
(* numbers, GUIDs, the Unicode guess, and the formatting of messages.  A     *)
(* byte is a signed char; a wide character is unsigned.                      *)
(***************************************************************************)
EXTENDS CTexts, SequencesExt, FiniteSetsExt

CONSTANT ULONG          \* 2^32, the modulus of a number

VARIABLES inp,          \* the arguments at hand
          fm            \* the message being formatted
textVars == <<inp, fm>>

ASSUME TextAssumption == ULONG \in Nat \ {0}

RtlUpperChar(ch) == IF ch \in 97..122 THEN ch - 32 ELSE ch
Cased(s, ci) == IF ci THEN [i \in DOMAIN s |-> RtlUpperChar(s[i])] ELSE s

\* Ignores what comes after the shorter string.
CompareShorter(s1, s2, ci) ==
    LET a == Cased(s1, ci)
        b == Cased(s2, ci)
        diff == {i \in 1..Least(Len(a), Len(b)) : a[i] # b[i]}
    IN  IF diff # {} THEN a[Min(diff)] - b[Min(diff)] ELSE 0
RtlCompareString(s1, s2, ci) ==
    LET a == Cased(s1, ci)
        b == Cased(s2, ci)
        diff == {i \in 1..Least(Len(a), Len(b)) : a[i] # b[i]}
    IN  IF diff # {} THEN a[Min(diff)] - b[Min(diff)] ELSE Len(a) - Len(b)
\* The floor's comparison folds and subtracts the same way, unit by unit.
RtlCompareUnicodeStrings(s1, s2, ci) == RtlCompareString(s1, s2, ci)
RtlCompareUnicodeString(s1, s2, ci) == RtlCompareUnicodeStrings(s1, s2, ci)
RtlEqualString(s1, s2, ci) == Len(s1) = Len(s2) /\ RtlCompareString(s1, s2, ci) = 0
RtlEqualUnicodeString(s1, s2, ci) == Len(s1) = Len(s2) /\ RtlCompareUnicodeString(s1, s2, ci) = 0
RtlPrefixString(s1, s2, ci) ==
    Len(s1) <= Len(s2) /\ \A i \in 1..Len(s1) : Cased(s1, ci)[i] = Cased(s2, ci)[i]
\* 1 for equal names and 0 for different ones; both copies are freed on every path.
RtlEqualComputerName(left, right, oomLeft, oomRight) ==
    IF oomLeft \/ oomRight THEN "NO_MEMORY"
    ELSE IF RtlEqualString(Cased(left, TRUE), Cased(right, TRUE), FALSE) THEN 1 ELSE 0
RtlEqualDomainName(left, right, oomLeft, oomRight) == RtlEqualComputerName(left, right, oomLeft, oomRight)

\* Gives the place of the character in both directions.
FindAtChar(flags, s, chars) ==
    LET hits == {i \in DOMAIN s : (\E j \in DOMAIN chars : chars[j] = s[i]) <=> flags \in {0, 1}}
    IN  IF hits = {} THEN [status |-> "NOT_FOUND", pos |-> 0]
        ELSE [status |-> "SUCCESS", pos |-> IF flags \in {0, 2} THEN 2 * (Min(hits) - 1) ELSE 2 * (Max(hits) - 1)]
\* pos counts bytes: behind the character when searching forwards, at it when backwards.
RtlFindCharInUnicodeString(flags, s, chars) ==
    LET hits == {i \in DOMAIN s : (\E j \in DOMAIN chars : chars[j] = s[i]) <=> flags \in {0, 1}}
    IN  IF flags \notin 0..3 THEN [status |-> "NOT_FOUND", pos |-> "unset"]
        ELSE IF hits = {} THEN [status |-> "NOT_FOUND", pos |-> 0]
        ELSE [status |-> "SUCCESS", pos |-> IF flags \in {0, 2} THEN 2 * Min(hits) ELSE 2 * (Max(hits) - 1)]

Masks == [not |-> {"REVERSE_CONTROLS", "REVERSE_SIGNATURE", "ODD_LENGTH"}, nonascii |-> {"NULL_BYTES"},
          unicode |-> {"STATISTICS", "CONTROLS", "SIGNATURE"}]
AllTests == Masks.not \cup Masks.nonascii \cup Masks.unicode
Controls == {13, 10, 9, 32, 12288, 0}               \* wcschr finds the terminator as well
ReverseControls == {3328, 2560, 2304, 8192, 0}
\* Does not look at the signs against Unicode.
GuessFromSignature(s, odd, pf) ==
    LET out == {f \in pf : f \in {"SIGNATURE", "REVERSE_SIGNATURE"} /\ s # <<>> /\ s[1] \in {65279, 65534}}
    IN  [yes |-> out # {}, pf |-> out]
\* s is the buffer as 16-bit units, odd whether one more byte follows; pf the tests asked
\* for.  A last byte of zero is left out, and with it the unit it ends.
RtlIsTextUnicode(s, odd, pf) ==
    LET short == Len(s) > 0 /\ ~odd /\ s[Len(s)] < 256
        t == SubSeq(s, 1, Len(s) - (IF short THEN 1 ELSE 0))
        some(C) == \E i \in DOMAIN t : t[i] \in C
        nulls == \E i \in DOMAIN t : t[i] % 256 = 0 \/ t[i] < 256
        out == {f \in pf : CASE f = "ODD_LENGTH" -> odd
                             [] f = "SIGNATURE" -> s[1] = 65279
                             [] f = "REVERSE_SIGNATURE" -> s[1] = 65534
                             [] f = "STATISTICS" -> Cardinality({i \in DOMAIN t : t[i] <= 255}) > Len(t) \div 2
                             [] f = "NULL_BYTES" -> nulls
                             [] f = "CONTROLS" -> some(Controls)
                             [] f = "REVERSE_CONTROLS" -> some(ReverseControls)}
    IN  IF Len(s) = 0 THEN [yes |-> FALSE, pf |-> {}]
        ELSE [yes |-> out \cap Masks.not = {} /\ out \cap (Masks.nonascii \cup Masks.unicode) # {}, pf |-> out]

-----------------------------------------------------------------------------
(* Numbers.                                                                   *)
Bases == {0, 2, 8, 10, 16}
Digit(c) == CASE c \in 48..57 -> c - 48 [] c \in 65..90 -> c - 55 [] c \in 97..122 -> c - 87 [] OTHER -> -1
Prefix == [c \in {98, 111, 120} |-> CASE c = 98 -> 2 [] c = 111 -> 8 [] c = 120 -> 16]
\* The value of the digits from k on, up to the first character that is none.
Running(s, k, base) ==
    LET stop == Min({i \in k..(Len(s) + 1) : i = Len(s) + 1 \/ Digit(At(s, i)) \notin 0..(base - 1)} \cup {Len(s) + 1})
        f[i \in 0..Len(s)] == IF i < k THEN 0 ELSE (f[i - 1] * base + Digit(s[i])) % ULONG
    IN  IF stop <= k THEN 0 ELSE f[stop - 1]
\* Blanks are the characters up to ' ', which for a signed char are the ones above 127 too.
Parsed(s, base) ==
    LET i == Min({n \in 1..(Len(s) + 1) : n = Len(s) + 1 \/ s[n] > 32})
        j == IF At(s, i) \in {43, 45} THEN i + 1 ELSE i
        marked == base = 0 /\ At(s, j) = 48 /\ At(s, j + 1) \in DOMAIN Prefix
        b == IF marked THEN Prefix[s[j + 1]] ELSE IF base = 0 THEN 10 ELSE base
        total == Running(s, IF marked THEN j + 2 ELSE j, b)
    IN  IF At(s, i) = 45 THEN (ULONG - total) % ULONG ELSE total
NumberOf(s, base, hasOut) ==
    IF base \notin Bases THEN [status |-> "INVALID_PARAMETER"]
    ELSE IF ~hasOut THEN [status |-> "ACCESS_VIOLATION"] ELSE [status |-> "SUCCESS", value |-> Parsed(s, base)]
RtlCharToInteger(s, base, hasOut) == NumberOf(s, base, hasOut)
RtlUnicodeStringToInteger(s, base, hasOut) == NumberOf(s, base, hasOut)

DigitChar(d) == IF d < 10 THEN 48 + d ELSE 55 + d
\* The digits of a number, least significant first.
Digits(value, base) ==
    LET f[v \in 0..value] == IF v < base THEN <<DigitChar(v)>> ELSE <<DigitChar(v % base)>> \o f[v \div base]
    IN  f[value]
InBase(value, base) == Reverse(Digits(value, IF base = 0 THEN 10 ELSE base))
\* Always terminates.
IntegerTerminated(value, base, length, hasOut) ==
    IF base \notin Bases \/ Len(InBase(value, base)) > length THEN [status |-> "BUFFER_OVERFLOW"]
    ELSE [status |-> "SUCCESS", written |-> Append(InBase(value, base), 0)]
RtlIntegerToChar(value, base, length, hasOut) ==
    LET s == InBase(value, base)
    IN  IF base \notin Bases THEN [status |-> "INVALID_PARAMETER"]
        ELSE IF Len(s) > length THEN [status |-> "BUFFER_OVERFLOW"]
        ELSE IF ~hasOut THEN [status |-> "ACCESS_VIOLATION"]
        ELSE [status |-> "SUCCESS", written |-> IF Len(s) = length THEN s ELSE Append(s, 0)]
\* Length is set even when the room, in bytes, does not take the text and its terminator.
RtlIntegerToUnicodeString(value, base, max) ==
    LET s == InBase(value, base)
    IN  IF base \notin Bases THEN [status |-> "INVALID_PARAMETER"]
        ELSE IF 2 * Len(s) >= max THEN [status |-> "BUFFER_OVERFLOW", Length |-> 2 * Len(s), written |-> <<>>]
        ELSE [status |-> "SUCCESS", Length |-> 2 * Len(s), written |-> Append(s, 0)]

(* GUIDs: 16 bytes of memory, and a text of 38 characters whose first three    *)
(* fields are numbers, so their bytes come in the other order.                 *)
Separators == [i \in {1, 10, 15, 20, 25, 38} |-> CASE i = 1 -> 123 [] i = 38 -> 125 [] OTHER -> 45]
PairAt == <<2, 4, 6, 8, 11, 13, 16, 18, 21, 23, 26, 28, 30, 32, 34, 36>>
HexDigit(c) == IF c \in (48..57) \cup (65..70) \cup (97..102) THEN Digit(c) ELSE -1
\* The byte of memory whose digits are the k-th pair of the text.
DataByte(k) == CASE k <= 4 -> 5 - k [] k \in {5, 7} -> k + 1 [] k \in {6, 8} -> k - 1 [] OTHER -> k
RtlStringFromGUID(guid, oom) ==
    IF oom THEN [status |-> "NO_MEMORY"]
    ELSE [status |-> "SUCCESS",
          text |-> [i \in 1..38 |->
              IF i \in DOMAIN Separators THEN Separators[i]
              ELSE LET k == CHOOSE k \in 1..16 : i \in {PairAt[k], PairAt[k] + 1}
                       b == guid[DataByte(k)]
                   IN  DigitChar(IF i = PairAt[k] THEN b \div 16 ELSE b % 16)]]
\* Stores the two words with their bytes in the order of the text.
StoreWordsPlain == <<4, 3, 2, 1, 5, 6, 7, 8, 9, 10, 11, 12, 13, 14, 15, 16>>
\* Where each pair is stored: backwards in the dword and in the two words.
Store == <<4, 3, 2, 1, 6, 5, 8, 7, 9, 10, 11, 12, 13, 14, 15, 16>>
\* Reads from left to right and stores each byte at once, so a refusal leaves the bytes
\* before the bad character changed.
RtlGUIDFromString(s, guid) ==
    LET bad == {i \in DOMAIN Separators : At(s, i) # Separators[i]}
               \cup {PairAt[k] : k \in {k \in 1..16 : HexDigit(At(s, PairAt[k])) < 0 \/ HexDigit(At(s, PairAt[k] + 1)) < 0}}
        till == IF bad = {} THEN 39 ELSE Min(bad)
        Byte(k) == HexDigit(s[PairAt[k]]) * 16 + HexDigit(s[PairAt[k] + 1])
        Source(m) == CHOOSE k \in 1..16 : Store[k] = m
    IN  [status |-> IF bad = {} THEN "SUCCESS" ELSE "INVALID_PARAMETER",
         guid |-> [m \in 1..16 |-> IF PairAt[Source(m)] < till THEN Byte(Source(m)) ELSE guid[m]]]

-----------------------------------------------------------------------------
(* Messages.  out is the buffer so far, line where its last line starts and    *)
(* space where its last blank is; all of them are offsets from the start.      *)
NoSpace == -2
CrLf == <<13, 10>>
FmStart(m) == [msg |-> m, at |-> 1, out |-> <<>>, line |-> 0, space |-> NoSpace, last |-> 0, status |-> "running"]
Room(m) == m.msg.size - Len(m.out)
add_chars(m, s) ==
    IF Len(s) > Room(m) THEN [m EXCEPT !.status = "BUFFER_OVERFLOW"] ELSE [m EXCEPT !.out = @ \o s]
BreakLine(m, s) == LET n == add_chars(m, s) IN [n EXCEPT !.line = Len(n.out), !.space = NoSpace]

\* The number of arguments fetched once argument nr is; -1 asks for the next one.
get_arg(nr, last) == IF nr = -1 THEN last + 1 ELSE IF nr > last THEN nr ELSE last
FlagChars == (48..57) \cup {32, 35, 42, 43, 45, 46}
\* An insert: its format, the arguments it fetches, and then a printf that is not modelled
\* and stops the process.  at is on the character behind the number.
add_format(m, insert) ==
    LET src == m.msg.src
        ends == {i \in (m.at + 1)..Len(src) : src[i] = 33}
        stars == Cardinality({i \in (m.at + 1)..Min(ends) : src[i] = 42 /\ \A j \in (m.at + 1)..i : src[j] \in FlagChars})
        before == get_arg(insert - 1, m.last)
        starred == IF stars = 0 THEN before ELSE get_arg(insert, before) + (stars - 1)
        last == IF stars = 0 THEN get_arg(insert, before) ELSE get_arg(-1, starred - 1)
    IN  IF At(src, m.at) # 33 THEN [m EXCEPT !.last = get_arg(insert, get_arg(insert - 1, @)), !.status = "ABORT"]
        ELSE IF ends = {} THEN [m EXCEPT !.status = "INVALID_PARAMETER"]
        ELSE IF Min(ends) - m.at - 1 > 30 \/ stars > 2 THEN [m EXCEPT !.status = "INVALID_PARAMETER"]
        ELSE [m EXCEPT !.last = last, !.status = "ABORT"]

\* One character of the source, before the width is looked at; at is left on the last one used.
Escape(m0) ==
    LET m == [m0 EXCEPT !.at = @ + 1]
        c == At(m.msg.src, m.at)
        d == At(m.msg.src, m.at + 1)
        ignore == m.msg.ignore
    IN  CASE c = 0 -> [m EXCEPT !.status = "INVALID_PARAMETER"]
          [] c = 116 /\ m.msg.width = 0 -> add_chars(m, <<9>>)
          [] c \in {110, 116} -> BreakLine(m, CrLf)
          [] c = 114 -> BreakLine(m, <<13>>)
          [] c = 48 -> [m EXCEPT !.at = Len(m.msg.src)]
          [] c \in 49..57 /\ ~ignore ->
                 IF d \in 48..57 THEN add_format([m EXCEPT !.at = @ + 2], (c - 48) * 10 + d - 48)
                 ELSE add_format([m EXCEPT !.at = @ + 1], c - 48)
          [] OTHER -> add_chars(m, IF ignore THEN <<37, c>> ELSE <<c>>)
Character(m0) ==
    LET c == m0.msg.src[m0.at]
        m == IF c = 13 /\ At(m0.msg.src, m0.at + 1) = 10 THEN [m0 EXCEPT !.at = @ + 1] ELSE m0
    IN  CASE c \in {10, 13} /\ m.msg.width = 0 -> BreakLine(m, CrLf)
          [] c \in {10, 13, 32} -> add_chars([m EXCEPT !.space = Len(m.out)], <<32>>)
          [] c = 9 -> add_chars([m EXCEPT !.space = IF @ = Len(m.out) - 1 THEN Len(m.out) ELSE @], <<9>>)
          [] c = 37 -> Escape(m)
          [] OTHER -> add_chars(m, <<c>>)

\* Splits before the blanks that end at the last space but does not skip it.
SplitKeepsBlank(m) ==
    LET next == IF m.space = NoSpace THEN Len(m.out) ELSE m.space
    IN  IF Room(m) < 2 THEN [m EXCEPT !.status = "BUFFER_OVERFLOW"]
        ELSE [m EXCEPT !.out = SubSeq(@, 1, next) \o CrLf \o SubSeq(@, next + 1, Len(@)), !.line = next + 2, !.space = NoSpace]
\* Cuts the line at its last blank, or where it is when it has none; the blanks go.
Split(m) ==
    LET next == IF m.space = NoSpace THEN Len(m.out) ELSE m.space + 1
        kept == {n \in m.line..m.space : n = m.line \/ m.out[n] \notin {32, 9}}
        space == IF m.space = NoSpace THEN Len(m.out) ELSE Max(kept)
        diff == 2 - (next - space)
    IN  IF diff > 0 /\ Room(m) < diff THEN [m EXCEPT !.status = "BUFFER_OVERFLOW"]
        ELSE [m EXCEPT !.out = SubSeq(@, 1, space) \o CrLf \o SubSeq(@, next + 1, Len(@)), !.line = space + 2, !.space = NoSpace]

RtlFormatMessageEx ==
    /\ fm.status = "running" /\ UNCHANGED inp
    /\ IF fm.at > Len(fm.msg.src)
       THEN fm' = LET m == add_chars(fm, <<0>>) IN IF m.status = "running" THEN [m EXCEPT !.status = "SUCCESS"] ELSE m
       ELSE LET m == Character(fm)
                n == IF m.status = "running" /\ m.msg.width > 0 /\ Len(m.out) - m.line >= m.msg.width THEN Split(m) ELSE m
            IN  fm' = IF n.status = "running" THEN [n EXCEPT !.at = @ + 1] ELSE n

TextNext == RtlFormatMessageEx

-----------------------------------------------------------------------------
(* Properties.                                                                *)
Sign(n) == IF n < 0 THEN -1 ELSE IF n > 0 THEN 1 ELSE 0

\* Comparing is a total order on strings (on their cased forms), and the equality and prefix
\* tests agree with it; the two name tests agree with it too, with 1 for equal.
CompareIsOrder ==
    inp.kind = "compare" =>
        LET a == inp.a
            b == inp.b
        IN  \A ci \in BOOLEAN :
              /\ Sign(RtlCompareString(a, b, ci)) = -Sign(RtlCompareString(b, a, ci))
              /\ \A c \in inp.others : RtlCompareString(a, b, ci) <= 0 /\ RtlCompareString(b, c, ci) <= 0 => RtlCompareString(a, c, ci) <= 0
              /\ RtlEqualString(a, b, ci) <=> RtlCompareString(a, b, ci) = 0
              /\ RtlEqualUnicodeString(a, b, ci) <=> Cased(a, ci) = Cased(b, ci)
              /\ RtlPrefixString(a, b, ci) <=> \E c \in inp.others : RtlEqualString(a \o c, b, ci)
              /\ RtlEqualDomainName(a, b, FALSE, FALSE) = 1 <=> RtlCompareUnicodeString(a, b, TRUE) = 0

\* Searching backwards finds what searching the reversed string forwards finds, and the
\* two complementing modes find what the others find for the other characters.
FindIsDual ==
    inp.kind = "find" =>
        LET F(f, s, cs) == RtlFindCharInUnicodeString(f, s, cs)
            others == SetToSeq(Range(inp.s) \ Range(inp.chars))
        IN  /\ \A f \in {0, 2} :
                  LET b == F(f + 1, inp.s, inp.chars)
                      w == F(f, Reverse(inp.s), inp.chars)
                  IN  b.status = w.status /\ (b.status = "SUCCESS" => b.pos + w.pos = 2 * Len(inp.s))
            /\ \A f \in {0, 1} : F(f + 2, inp.s, inp.chars) = F(f, inp.s, others)

\* A number written in any base reads back as itself, with a sign or the prefix of its base
\* too, modulo the width; and neither writer goes past the room it was given.
NumbersRoundTrip ==
    inp.kind = "number" => \A base \in Bases, n \in 0..9 :
        LET w == RtlIntegerToChar(inp.v, base, n, TRUE)
            u == RtlIntegerToUnicodeString(inp.v, base, 2 * n)
            s == InBase(inp.v, base)
            mark == CHOOSE p \in DOMAIN Prefix : Prefix[p] = base
        IN  /\ RtlCharToInteger(s, base, TRUE).value = inp.v
            /\ RtlUnicodeStringToInteger(<<32, 45>> \o s, base, TRUE).value = (ULONG - inp.v) % ULONG
            /\ base \in {2, 8, 16} => RtlCharToInteger(<<43, 48, mark>> \o s, 0, TRUE).value = inp.v
            /\ w.status = "SUCCESS" => Len(w.written) <= n
            /\ u.status = "SUCCESS" => 2 * Len(u.written) <= 2 * n /\ Parsed(SubSeq(u.written, 1, Len(u.written) - 1), base) = inp.v

\* A GUID survives its text form, byte orders included; one wrong character anywhere is
\* refused, and then no byte from there on has changed.
GuidRoundTrip ==
    inp.kind = "guid" =>
        LET text == RtlStringFromGUID(inp.guid, FALSE).text
            blank == [m \in 1..16 |-> 0]
            bad == RtlGUIDFromString([text EXCEPT ![inp.at] = inp.ch], blank)
        IN  /\ RtlGUIDFromString(text, blank) = [status |-> "SUCCESS", guid |-> inp.guid]
            /\ HexDigit(inp.ch) < 0 /\ text[inp.at] # inp.ch =>
                   /\ bad.status = "INVALID_PARAMETER"
                   /\ \A k \in 1..16 : PairAt[k] >= inp.at => bad.guid[Store[k]] = 0

\* A text that starts with a byte order mark is never taken for Unicode in both byte orders.
ByteOrderDecided ==
    inp.kind = "text" =>
        LET Swap(c) == (c % 256) * 256 + c \div 256
            t == [i \in DOMAIN inp.s |-> Swap(inp.s[i])]
        IN  /\ RtlIsTextUnicode(inp.s, inp.odd, AllTests).yes /\ At(inp.s, 1) \in {65279, 65534}
                  => ~RtlIsTextUnicode(t, inp.odd, AllTests).yes
            /\ \A pf \in SUBSET {"SIGNATURE", "CONTROLS", "STATISTICS"} : RtlIsTextUnicode(inp.s, inp.odd, pf).pf \subseteq pf

Letters(s) == SelectSeq(s, LAMBDA c : c \in {97, 98})
\* Whatever is wrapped and inserted, the buffer is never passed, every letter read so far is
\* in it once and in order, and no line is longer than the width asked for.
FormatIsWrapping ==
    LET m == fm
        read == SubSeq(m.msg.src, 1, m.at - 1)
        Cut == \E i \in DOMAIN read : At(read, i) = 37 /\ At(read, i + 1) = 48
        width == m.msg.width + (IF m.msg.ignore THEN 1 ELSE 0)
    IN  /\ Len(m.out) <= m.msg.size /\ m.last <= 102
        /\ m.status \in {"running", "SUCCESS"} =>
             /\ IsPrefix(Letters(m.out), Letters(read)) /\ (~Cut => Letters(m.out) = Letters(read))
             /\ m.msg.width > 0 => \A i \in 0..(Len(m.out) - width - 1) :
                    \E j \in (i + 1)..(i + width + 1) : m.out[j] \in {0, 10, 13}
=============================================================================
