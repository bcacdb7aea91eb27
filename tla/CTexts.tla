------------------------------- MODULE CTexts -------------------------------
(* Texts as the string modules see them: sequences of units without their     *)
(* terminator, or NULL for a null pointer.                                    *)
EXTENDS Integers, Sequences
CONSTANT NULL
VARIABLE asked          \* the case in hand: the pure functions are checked case by case, Init chooses one

Least(x, y) == IF x < y THEN x ELSE y
Most(x, y) == IF x < y THEN y ELSE x
First(text, n) == SubSeq(text, 1, Least(n, Len(text)))
After(text, n) == SubSeq(text, n + 1, Len(text))
At(s, i) == IF i \in DOMAIN s THEN s[i] ELSE 0         \* a unit, or the terminator
Blanks == {9, 32}
lower(c) == IF c \in 65..90 THEN c + 32 ELSE c
up(c) == IF c \in 97..122 THEN c - 32 ELSE c
Lower(text) == [i \in DOMAIN text |-> lower(text[i])]
Upper(text) == [i \in DOMAIN text |-> up(text[i])]
\* The length of the longest prefix of text all of whose units are in S.
Span(text, S) == LET n[i \in 0..Len(text)] == IF i < Len(text) /\ text[i + 1] \in S THEN n[i + 1] ELSE i IN n[0]
\* The position of the last unit of S in s, or 0.
LastOf(s, S) == LET r[i \in 0..Len(s)] == IF i = 0 THEN 0 ELSE IF s[i] \in S THEN i ELSE r[i - 1] IN r[Len(s)]
=============================================================================
