-------------------------------- MODULE Rects -------------------------------
(* Rectangles <<left, top, right, bottom>> and the points in them.            *)
EXTENDS Integers

Least2(a, b) == IF a < b THEN a ELSE b
Most2(a, b) == IF a > b THEN a ELSE b
Cells(r) == (r[1]..(r[3] - 1)) \X (r[2]..(r[4] - 1))
NoRect == <<0, 0, 0, 0>>
IsRectEmpty(r) == r[1] >= r[3] \/ r[2] >= r[4]
EqualRect(a, b) == \A i \in 1..4 : a[i] = b[i]
PtInRect(r, p) == p[1] >= r[1] /\ p[1] < r[3] /\ p[2] >= r[2] /\ p[2] < r[4]
OffsetRect(r, dx, dy) == <<r[1] + dx, r[2] + dy, r[3] + dx, r[4] + dy>>
InflateRect(r, dx, dy) == <<r[1] - dx, r[2] - dy, r[3] + dx, r[4] + dy>>
Meet(a, b) == <<Most2(a[1], b[1]), Most2(a[2], b[2]), Least2(a[3], b[3]), Least2(a[4], b[4])>>
Hull(a, b) == <<Least2(a[1], b[1]), Least2(a[2], b[2]), Most2(a[3], b[3]), Most2(a[4], b[4])>>
IntersectRect(a, b) == IF IsRectEmpty(Meet(a, b)) THEN NoRect ELSE Meet(a, b)
UnionRect(a, b) ==
    CASE IsRectEmpty(a) /\ IsRectEmpty(b) -> NoRect
      [] IsRectEmpty(a) /\ ~IsRectEmpty(b) -> b
      [] ~IsRectEmpty(a) /\ IsRectEmpty(b) -> a
      [] OTHER -> Hull(a, b)
SubtractAnyBand(a, b) ==
    LET d == IF b[1] <= a[1] /\ b[3] >= a[3] THEN [a EXCEPT ![2] = IF b[2] <= @ THEN Least2(b[4], a[4]) ELSE @, ![4] = IF b[2] > a[2] THEN b[2] ELSE @]
             ELSE IF b[2] <= a[2] /\ b[4] >= a[4] THEN [a EXCEPT ![1] = IF b[1] <= @ THEN Least2(b[3], a[3]) ELSE @] ELSE a
    IN  IF IsRectEmpty(d) THEN NoRect ELSE d
SubtractRect(a, b) ==
    LET overlap == ~(b[3] <= a[1] \/ b[1] >= a[3] \/ b[4] <= a[2] \/ b[2] >= a[4])
        d == CASE ~overlap -> a
               [] overlap /\ b[1] <= a[1] /\ b[3] >= a[3] ->
                    IF b[2] <= a[2] THEN [a EXCEPT ![2] = Least2(b[4], a[4])] ELSE IF b[4] >= a[4] THEN [a EXCEPT ![4] = b[2]] ELSE a
               [] overlap /\ ~(b[1] <= a[1] /\ b[3] >= a[3]) /\ b[2] <= a[2] /\ b[4] >= a[4] ->
                    IF b[1] <= a[1] THEN [a EXCEPT ![1] = Least2(b[3], a[3])] ELSE IF b[3] >= a[3] THEN [a EXCEPT ![3] = b[1]] ELSE a
               [] OTHER -> a
    IN  IF IsRectEmpty(d) THEN NoRect ELSE d
\* A rectangle's sides in order, as the region and clip calls put them.
Ordered(r) == <<Least2(r[1], r[3]), Least2(r[2], r[4]), Most2(r[1], r[3]), Most2(r[2], r[4])>>
=============================================================================
