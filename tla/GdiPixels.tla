------------------------------ MODULE GdiPixels -----------------------------
(***************************************************************************)
(* The drawing primitives of the GDI layer, on the 32-bit DIB they all write. *)
(* A pixel is four bytes [B, G, R, 0] of one bit each: the set of the bytes   *)
(* that are on.  A COLORREF is the set of the channels on, 0 red, 1 green,    *)
(* 2 blue.  A rectangle is <<left, top, right, bottom>>, a point <<x, y>>.    *)
(***************************************************************************)
EXTENDS Rects, Sequences, FiniteSets, FiniteSetsExt, CTexts

Off == -1
Bytes == 0..3
CLR_INVALID == {4}
NullBrush == {5}
Abs(n) == IF n < 0 THEN -n ELSE n
\* C's division truncates.
Quot(a, b) == IF a >= 0 THEN a \div b ELSE -((-a) \div b)

-----------------------------------------------------------------------------
(* The surface.                                                                *)
Surface(w, h, topdown, bits) == [w |-> w, h |-> h, topdown |-> topdown, bits |-> bits]
Cleared(w, h, topdown) == Surface(w, h, topdown, [k \in 0..(w * h - 1) |-> {}])
gdi_px(bm, x, y) ==
    IF x < 0 \/ y < 0 \/ x >= bm.w \/ y >= bm.h THEN Off
    ELSE (IF bm.topdown THEN y ELSE bm.h - 1 - y) * bm.w + x
ToPixel(c) == {2 - k : k \in c}
ToColor(p) == {2 - k : k \in p \ {3}}
gdi_getpx(bm, x, y) == IF gdi_px(bm, x, y) = Off THEN CLR_INVALID ELSE ToColor(bm.bits[gdi_px(bm, x, y)])
Hit(bm, points) == {gdi_px(bm, p[1], p[2]) : p \in points} \ {Off}
\* gdi_put at every point of a set, in one colour.
gdi_put(bm, points, c) == LET on == Hit(bm, points) IN [bm EXCEPT !.bits = [k \in DOMAIN @ |-> IF k \in on THEN ToPixel(c) ELSE @[k]]]
Flip(bm, points, bytes) == LET on == Hit(bm, points) IN [bm EXCEPT !.bits = [k \in DOMAIN @ |-> IF k \in on THEN SymDiff(@[k], bytes) ELSE @[k]]]
Image(bm) == [x \in 0..(bm.w - 1), y \in 0..(bm.h - 1) |-> bm.bits[gdi_px(bm, x, y)]]

-----------------------------------------------------------------------------
\* The rectangle functions agree with the points they stand for: intersection and containment are
\* exact, the union is the least rectangle around both, and a difference is cut off exactly when
\* what remains is a rectangle.
RectAlgebra ==
    asked.kind = "rects" =>
        LET a == asked.a
            b == asked.b
            left == Cells(a) \ Cells(b)
            boxed == \E r \in asked.rects : Cells(r) = left
        IN  /\ Cells(IntersectRect(a, b)) = Cells(a) \cap Cells(b)
            /\ \A p \in Cells(a) \cup Cells(b) : PtInRect(UnionRect(a, b), p)
            /\ \A r \in asked.rects : Cells(a) \cup Cells(b) \subseteq Cells(r) => Cells(UnionRect(a, b)) \subseteq Cells(r)
            /\ Cells(SubtractRect(a, b)) = IF boxed THEN left ELSE Cells(a)
            /\ EqualRect(OffsetRect(InflateRect(a, 1, 2), 1, 2), InflateRect(OffsetRect(a, 1, 2), 1, 2))

-----------------------------------------------------------------------------
(* Mapping modes: m is the DC's [ox, oy, ex, ey] of window and viewport.       *)
gdi_muldiv_down(a, b, c) == IF c = 0 THEN 0 ELSE Quot((IF c < 0 THEN -(a * b) ELSE a * b), Abs(c))
gdi_muldiv(a, b, c) ==
    IF c = 0 THEN 0
    ELSE LET num == IF c < 0 THEN -(a * b) ELSE a * b
             half == Abs(c) \div 2
         IN  IF num >= 0 THEN (num + half) \div Abs(c) ELSE -((half - num) \div Abs(c))
dc_l2d(m, x, y) == <<gdi_muldiv(x - m.win_ox, m.vp_ex, m.win_ex) + m.vp_ox, gdi_muldiv(y - m.win_oy, m.vp_ey, m.win_ey) + m.vp_oy>>
dc_d2l(m, x, y) == <<gdi_muldiv(x - m.vp_ox, m.win_ex, m.vp_ex) + m.win_ox, gdi_muldiv(y - m.vp_oy, m.win_ey, m.vp_ey) + m.win_oy>>
dc_map_identity(m) == /\ m.vp_ox = 0 /\ m.vp_oy = 0 /\ m.win_ox = 0 /\ m.win_oy = 0
                      /\ m.vp_ex = m.win_ex /\ m.vp_ey = m.win_ey
\* A mapping that does not shrink is undone by its inverse; an identity map moves no point; the
\* quotient is the nearest integer, halves away from zero, for every sign of the operands.
MapInverse ==
    asked.kind = "map" =>
        LET m == asked.m
            x == asked.x
            q == gdi_muldiv(x, m.vp_ex, m.win_ex)
            err == 2 * (x * m.vp_ex - q * m.win_ex)
        IN  /\ Abs(m.vp_ex) >= Abs(m.win_ex) /\ m.win_ex # 0 => dc_d2l(m, dc_l2d(m, x, x)[1], 0)[1] = x
            /\ dc_map_identity(m) /\ m.win_ex # 0 /\ m.win_ey # 0 => dc_l2d(m, x, x) = <<x, x>>
            /\ m.win_ex # 0 => Abs(err) <= Abs(m.win_ex) /\ (Abs(err) = Abs(m.win_ex) => Abs(q * m.win_ex) >= Abs(x * m.vp_ex))

-----------------------------------------------------------------------------
(* Lines.                                                                      *)
Direction(n) == IF n < 0 THEN -1 ELSE 1
BresAlong(major, minor, e0) ==
    LET st[i \in 0..major] ==
            IF i = 0 THEN [m |-> 0, err |-> e0]
            ELSE LET s == st[i - 1] IN IF s.err > 0 THEN [m |-> s.m + 1, err |-> s.err - 2 * major + 2 * minor] ELSE [m |-> s.m, err |-> s.err + 2 * minor]
    IN  st
\* The points of a line, its end excluded, in drawing order.
gdi_bres_steep(a, b) ==
    LET dx == b[1] - a[1]
        dy == b[2] - a[2]
        st == BresAlong(Abs(dx), Abs(dy), 2 * Abs(dy) - Abs(dx))
    IN  [i \in 1..Abs(dx) |-> <<a[1] + Direction(dx) * (i - 1), a[2] + Direction(dy) * st[i - 1].m>>]
gdi_bres(a, b) ==
    LET dx == b[1] - a[1]
        dy == b[2] - a[2]
        x == BresAlong(Abs(dx), Abs(dy), 2 * Abs(dy) - Abs(dx))
        y == BresAlong(Abs(dy), Abs(dx), 2 * Abs(dx) - Abs(dy))
    IN  IF Abs(dx) >= Abs(dy) THEN [i \in 1..Abs(dx) |-> <<a[1] + Direction(dx) * (i - 1), a[2] + Direction(dy) * x[i - 1].m>>]
        ELSE [i \in 1..Abs(dy) |-> <<a[1] + Direction(dx) * y[i - 1].m, a[2] + Direction(dy) * (i - 1)>>]
\* A pen: NULL draws nothing, "wide" stops the program, otherwise a colour.
gdi_pen(p) == CASE ~p.live -> [ret |-> 1, color |-> {}]
                [] p.live /\ p.null -> [ret |-> 0, color |-> {}]
                [] p.live /\ ~p.null /\ ~p.stock /\ (p.style # 0 \/ p.width > 1) -> [ret |-> -1, color |-> {}]
                [] OTHER -> [ret |-> 1, color |-> p.color]
Segments(points) == UNION {{gdi_bres(points[i], points[i + 1])[k] : k \in DOMAIN gdi_bres(points[i], points[i + 1])} : i \in 1..(Len(points) - 1)}
Mapped(m, points) == [i \in DOMAIN points |-> dc_l2d(m, points[i][1], points[i][2])]
Polyline(bm, m, p, points) == IF gdi_pen(p).ret = 1 /\ Len(points) >= 2 THEN gdi_put(bm, Segments(Mapped(m, points)), gdi_pen(p).color) ELSE bm
\* LineTo and PolylineTo also move the current position, which stays logical; PolylineTo stops
\* under a map.
LineTo(bm, m, p, cur, to) == [bm |-> Polyline(bm, m, p, <<cur, to>>), cur |-> IF gdi_pen(p).ret < 0 THEN cur ELSE to]
PolylineTo(bm, m, p, cur, points) ==
    IF ~dc_map_identity(m) \/ gdi_pen(p).ret < 0 \/ points = <<>> THEN [bm |-> bm, cur |-> cur]
    ELSE [bm |-> IF gdi_pen(p).ret = 1 THEN gdi_put(bm, Segments(<<cur>> \o points), gdi_pen(p).color) ELSE bm, cur |-> points[Len(points)]]
\* A line has one point for each step of its longer side, starts at its start, never reaches its
\* end, goes from point to neighbouring point, and no point is further than half a pixel off the
\* ideal line; drawing it in pieces as LineTo does is drawing it as PolylineTo does.
LineIsNearest ==
    asked.kind = "line" =>
        LET a == asked.a
            b == asked.b
            dx == b[1] - a[1]
            dy == b[2] - a[2]
            pts == gdi_bres(a, b)
            bm == Cleared(asked.w, asked.w, TRUE)
            id == [win_ox |-> 0, win_oy |-> 0, vp_ox |-> 0, vp_oy |-> 0, win_ex |-> 1, win_ey |-> 1, vp_ex |-> 1, vp_ey |-> 1]
            one == LineTo(bm, id, asked.pen, a, b)
        IN  /\ Len(pts) = Most2(Abs(dx), Abs(dy))
            /\ pts # <<>> => pts[1] = a
            /\ \A i \in DOMAIN pts : /\ pts[i] # b
                                     /\ 2 * Abs(dx * (pts[i][2] - a[2]) - dy * (pts[i][1] - a[1])) <= Most2(Abs(dx), Abs(dy))
                                     /\ i > 1 => Abs(pts[i][1] - pts[i - 1][1]) <= 1 /\ Abs(pts[i][2] - pts[i - 1][2]) <= 1
            /\ LineTo(one.bm, id, asked.pen, one.cur, a) = PolylineTo(bm, id, asked.pen, a, <<b, a>>)

-----------------------------------------------------------------------------
(* Filled shapes.                                                              *)
FillRect(bm, r, c) == gdi_put(bm, Cells(r), c)
Outline(r) == {p \in Cells(r) : p[1] \in {r[1], r[3] - 1} \/ p[2] \in {r[2], r[4] - 1}}
FrameRect(bm, r, c) == gdi_put(bm, Outline(r), c)
Inner(r) == InflateRect(r, -1, -1)
\* The interior in the brush's colour, then the outline in the pen's; NULL objects draw nothing.
Rectangle(bm, r, pen, brush) ==
    LET filled == IF brush = NullBrush THEN bm ELSE gdi_put(bm, Cells(Inner(r)), brush)
    IN  IF gdi_pen(pen).ret < 0 \/ IsRectEmpty(r) THEN bm
        ELSE IF gdi_pen(pen).ret = 0 THEN filled ELSE gdi_put(filled, Outline(r), gdi_pen(pen).color)
InvertRect(bm, r) == Flip(bm, Cells(r), Bytes)
Odd(p) == (p[1] + p[2]) % 2 = 1
FocusDotsCorner(r) ==
    LET row(y) == {p \in Cells(<<r[1], y, r[3], y + 1>>) : Odd(p)}
        col(x) == {p \in Cells(<<x, r[2], x + 1, r[4]>>) : Odd(p)}
    IN  SymDiff(SymDiff(row(r[2]), row(r[4] - 1)), SymDiff(col(r[1]), col(r[3] - 1)))
FocusDots(r) ==
    LET row(y) == {p \in Cells(<<r[1], y, r[3], y + 1>>) : Odd(p)}
        col(x) == {p \in Cells(<<x, r[2] + 1, x + 1, r[4] - 1>>) : Odd(p)}
    IN  SymDiff(SymDiff(row(r[2]), row(r[4] - 1)), SymDiff(col(r[1]), col(r[3] - 1)))
DrawFocusRect(bm, r) == IF IsRectEmpty(r) THEN bm ELSE Flip(bm, FocusDots(r), {0, 1, 2})
\* The colour indices of an edge's two rings: outer left/top, outer right/bottom, inner likewise.
EdgeColors(edge, soft) == CASE edge = "raised" -> IF soft THEN <<20, 21, 22, 16>> ELSE <<22, 21, 20, 16>>
                            [] edge = "sunken" -> <<16, 20, 21, 22>>
                            [] edge = "etched" -> <<16, 20, 20, 16>>
\* What each point of the rectangle is painted: a ring's colour, the middle's, or nothing.
u32_drawedge(r, edge, soft, middle) ==
    LET e == EdgeColors(edge, soft)
        br(q, p) == p[1] = q[3] - 1 \/ p[2] = q[4] - 1
        paint(p) == IF p \in Outline(r) THEN (IF br(r, p) THEN e[2] ELSE e[1])
                    ELSE IF p \in Outline(Inner(r)) THEN (IF br(Inner(r), p) THEN e[4] ELSE e[3])
                    ELSE 15
        all == IF r[3] - r[1] < 2 \/ r[4] - r[2] < 2 THEN {}
               ELSE Outline(r) \cup Outline(Inner(r)) \cup (IF middle THEN Cells(Inner(Inner(r))) ELSE {})
    IN  [p \in all |-> paint(p)]
\* A push button is a soft raised edge around a filled middle.
DrawFrameControl(r, pushed) == IF pushed THEN [p \in {} |-> 0] ELSE u32_drawedge(r, "raised", TRUE, TRUE)
PatBlt(bm, r, rop, brush) ==
    CASE rop = "PATCOPY" -> IF brush = NullBrush THEN bm ELSE FillRect(bm, r, brush)
      [] rop = "BLACKNESS" -> FillRect(bm, r, {})
      [] rop = "WHITENESS" -> FillRect(bm, r, {0, 1, 2})
FillRgn(bm, rgn, c) == IF rgn.complex THEN bm ELSE FillRect(bm, rgn.box, c)
FrameRgn(bm, rgn, c, fw, fh) ==
    LET r == rgn.box
    IN  IF rgn.complex THEN bm
        ELSE gdi_put(bm, {p \in Cells(r) : p[1] < r[1] + fw \/ p[1] >= r[3] - fw \/ p[2] < r[2] + fh \/ p[2] >= r[4] - fh}, c)
\* The shapes agree: a rectangle is the frame of its outline around the fill of its inside, a frame
\* one pixel thick is a frame region's, every edge paints each point of the rectangle at most once
\* and all of it when the middle is filled, what is drawn by inversion is undone by drawing it
\* again, and a focus rectangle of two pixels or more inverts exactly the odd points of its outline.
ShapesAgree ==
    asked.kind = "shape" =>
        LET bm == asked.bm
            r == asked.r
            pen == [live |-> TRUE, null |-> FALSE, stock |-> FALSE, style |-> 0, width |-> 1, color |-> {0}]
            big == r[3] - r[1] > 1 /\ r[4] - r[2] > 1
        IN  /\ Rectangle(bm, r, pen, {1}) = IF IsRectEmpty(r) THEN bm ELSE FrameRect(FillRect(bm, r, {1}), r, {0})
            /\ FrameRgn(bm, [box |-> r, complex |-> FALSE], {0}, 1, 1) = FrameRect(bm, r, {0})
            /\ big => DOMAIN DrawFrameControl(r, FALSE) = Cells(r)
            /\ InvertRect(InvertRect(bm, r), r) = bm /\ DrawFocusRect(DrawFocusRect(bm, r), r) = bm
            /\ big => FocusDots(r) = {p \in Outline(r) : Odd(p)}
            /\ \A p \in (0..(bm.w - 1)) \X (0..(bm.h - 1)) :
                   PtInRect(r, p) \/ \A s \in {Rectangle(bm, r, pen, {1}), InvertRect(bm, r), DrawFocusRect(bm, r), PatBlt(bm, r, "WHITENESS", {})} :
                                         gdi_getpx(s, p[1], p[2]) = gdi_getpx(bm, p[1], p[2])

-----------------------------------------------------------------------------
(* Block transfers.                                                            *)
Rops == {"CC", "88", "EE", "66", "33", "44", "11", "BB", "55", "00", "FF"}
SourceAlways(rop) == rop \notin {"00", "FF"}
gdi_rop_needs_src(rop) == rop \notin {"55", "00", "FF"}
gdi_rop_apply(rop, s, d) ==
    CASE rop = "CC" -> s [] rop = "88" -> s \cap d [] rop = "EE" -> s \cup d [] rop = "66" -> SymDiff(s, d)
      [] rop = "33" -> Bytes \ s [] rop = "44" -> s \ d [] rop = "11" -> Bytes \ (s \cup d)
      [] rop = "BB" -> (Bytes \ s) \cup d [] rop = "55" -> Bytes \ d [] rop = "00" -> {} [] rop = "FF" -> Bytes
\* One loop over the destination, row by row; a source on the same surface is read as it changes.
\* d and s are <<x, y, w, h>>.
Blit(dst, src, same, d, s, rop) ==
    LET done[k \in 0..(d[3] * d[4])] ==
            IF k = 0 THEN dst
            ELSE LET bm == done[k - 1]
                     i == (k - 1) % d[3]
                     j == (k - 1) \div d[3]
                     at == gdi_px(bm, d[1] + i, d[2] + j)
                     from == gdi_px(src, s[1] + (i * s[3]) \div d[3], s[2] + (j * s[4]) \div d[4])
                     S == IF ~gdi_rop_needs_src(rop) THEN {} ELSE IF same THEN bm.bits[from] ELSE src.bits[from]
                 IN  IF at = Off \/ (gdi_rop_needs_src(rop) /\ from = Off) THEN bm
                     ELSE [bm EXCEPT !.bits[at] = gdi_rop_apply(rop, S, @)]
    IN  IF d[3] <= 0 \/ d[4] <= 0 THEN dst ELSE done[d[3] * d[4]]
StretchTurned(dst, src, same, d, s, rop) == Blit(dst, src, same, d, <<s[1], s[2], s[4], s[3]>>, rop)
StretchBlt(dst, src, same, d, s, rop) == IF gdi_rop_needs_src(rop) /\ (s[3] <= 0 \/ s[4] <= 0) THEN dst ELSE Blit(dst, src, same, d, s, rop)
BitBlt(dst, src, same, d, at, rop) == Blit(dst, src, same, d, <<at[1], at[2], d[3], d[4]>>, rop)
\* A raster operation is the one its code's truth table names (bit 2s + d), and reads its source
\* exactly when the table depends on it.
RopMatchesCode ==
    asked.kind = "rop" =>
        LET on(s, d) == 1 \in gdi_rop_apply(asked.rop, IF s = 1 THEN {1} ELSE {0, 2}, IF d = 1 THEN {1} ELSE {3})
        IN  /\ \A s, d \in 0..1 : on(s, d) <=> asked.table[2 * s + d + 1] = 1
            /\ gdi_rop_needs_src(asked.rop) <=> \E d \in 0..1 : on(0, d) # on(1, d)
\* A copy between two surfaces moves every point that both have and no other; one within a surface
\* does so when it moves up or left.  Stretching to a multiple and back is the identity.
BlitIsCopy ==
    asked.kind = "blit" =>
        LET dst == asked.dst
            src == IF asked.same THEN dst ELSE asked.src
            d == asked.d
            at == asked.at
            out == BitBlt(dst, src, asked.same, d, at, "CC")
            wide == StretchBlt(Cleared(2 * src.w, 3 * src.h, TRUE), src, FALSE, <<0, 0, 2 * src.w, 3 * src.h>>, <<0, 0, src.w, src.h>>, "CC")
        IN  /\ (~asked.same \/ (d[2] <= at[2] /\ d[1] <= at[1])) =>
                   \A x \in 0..(dst.w - 1), y \in 0..(dst.h - 1) :
                       LET from == gdi_px(src, at[1] + x - d[1], at[2] + y - d[2])
                       IN  out.bits[gdi_px(dst, x, y)] = IF PtInRect(<<d[1], d[2], d[1] + d[3], d[2] + d[4]>>, <<x, y>>) /\ from # Off THEN src.bits[from]
                                                         ELSE dst.bits[gdi_px(dst, x, y)]
            /\ Image(StretchBlt(src, wide, FALSE, <<0, 0, src.w, src.h>>, <<0, 0, wide.w, wide.h>>, "CC")) = Image(src)

-----------------------------------------------------------------------------
(* Device-independent bitmaps: a caller's buffer of rows, the first row being  *)
(* the bottom one unless the header's height is negative.                      *)
GetDIBitsFlat(bm, start, lines, topdown) ==
    [r \in 1..Most2(0, Least2(lines, bm.h - start)) |-> [x \in 1..bm.w |-> bm.bits[(start + r - 1) * bm.w + x - 1]]]
GetDIBits(bm, start, lines, topdown) ==
    LET y(scan) == IF topdown THEN scan ELSE bm.h - 1 - scan
    IN  [r \in 1..Most2(0, Least2(lines, bm.h - start)) |-> [x \in 1..bm.w |-> bm.bits[gdi_px(bm, x - 1, y(start + r - 1))]]]
\* The scan lines of a band, addressed from the start of the whole image.
SetDIBits(bm, start, lines, rows, W, H, topdown) ==
    LET set[k \in 0..lines] ==
            IF k = 0 THEN bm
            ELSE LET scan == start + k - 1
                     y == IF topdown THEN scan ELSE H - 1 - scan
                     row[x \in 0..W] == IF x = 0 THEN set[k - 1] ELSE gdi_put(row[x - 1], {<<x - 1, y>>}, ToColor(rows[scan + 1][x]))
                 IN  IF scan >= H THEN set[k - 1] ELSE row[W]
    IN  set[lines]
StretchDIBits(bm, at, rows, W, H, topdown) ==
    LET draw[n \in 0..(W * H)] ==
            IF n = 0 THEN bm
            ELSE LET iy == (n - 1) \div W
                     ix == (n - 1) % W
                 IN  gdi_put(draw[n - 1], {<<at[1] + ix, at[2] + iy>>}, ToColor(rows[IF topdown THEN iy + 1 ELSE H - iy][ix + 1]))
    IN  draw[W * H]
\* Reading an image out in either row order, and setting or drawing it with the same header onto a
\* surface of either orientation, gives the image back; two bands read out make up the whole.
DibRoundTrip ==
    asked.kind = "dib" =>
        LET bm == asked.bm
            rows == GetDIBits(bm, 0, bm.h, asked.topdown)
            to == Cleared(bm.w, bm.h, asked.to)
            cut == asked.cut
        IN  /\ Image(SetDIBits(to, 0, bm.h, rows, bm.w, bm.h, asked.topdown)) = Image(bm)
            /\ Image(StretchDIBits(to, <<0, 0>>, rows, bm.w, bm.h, asked.topdown)) = Image(bm)
            /\ GetDIBits(bm, 0, cut, asked.topdown) \o GetDIBits(bm, cut, bm.h, asked.topdown) = rows
            /\ Image(SetDIBits(SetDIBits(to, 0, cut, rows, bm.w, bm.h, asked.topdown), cut, bm.h, rows, bm.w, bm.h, asked.topdown)) = Image(bm)
BlendRounded(s, a, d, ca, alpha) ==
    IF alpha THEN ((s * ca + 254) \div 255 + (d * (255 - (a * ca) \div 255) + 254) \div 255) % 256 ELSE ((s * ca + d * (255 - ca)) \div 255) % 256
\* One channel of a blend: source s with its pixel alpha a, destination d, constant alpha ca.
GdiAlphaBlend(s, a, d, ca, alpha) ==
    IF alpha THEN ((s * ca) \div 255 + (d * (255 - (a * ca) \div 255)) \div 255) % 256 ELSE ((s * ca + d * (255 - ca)) \div 255) % 256
\* A blend of a premultiplied source stays between what is there and white: it never wraps; fully
\* opaque it is the source, fully transparent it leaves the destination.
BlendInRange ==
    asked.kind = "blend" =>
        LET out(ca, alpha) == GdiAlphaBlend(asked.s, asked.a, asked.d, ca, alpha)
        IN  /\ asked.s <= asked.a => /\ out(asked.ca, TRUE) >= (asked.s * asked.ca) \div 255
                                     /\ out(asked.ca, TRUE) - (asked.s * asked.ca) \div 255 <= asked.d
            /\ out(255, FALSE) = asked.s /\ out(0, FALSE) = asked.d
            /\ out(asked.ca, FALSE) \in Least2(asked.s, asked.d)..Most2(asked.s, asked.d)
\* The palette entry nearest to a colour: the first of the nearest.
Distance(c, e) == (c[1] - e[1]) * (c[1] - e[1]) + (c[2] - e[2]) * (c[2] - e[2]) + (c[3] - e[3]) * (c[3] - e[3])
GetNearestPaletteIndexLast(pal, c) ==
    LET best[k \in 0..Len(pal)] == IF k <= 1 THEN k ELSE IF Distance(c, pal[k]) <= Distance(c, pal[best[k - 1]]) THEN k ELSE best[k - 1]
    IN  Most2(0, best[Len(pal)] - 1)
GetNearestPaletteIndex(pal, c) ==
    LET best[k \in 0..Len(pal)] == IF k <= 1 THEN k ELSE IF Distance(c, pal[k]) < Distance(c, pal[best[k - 1]]) THEN k ELSE best[k - 1]
    IN  Most2(0, best[Len(pal)] - 1)
NearestIsFirst ==
    asked.kind = "nearest" =>
        LET n == GetNearestPaletteIndex(asked.pal, asked.c)
            dist(k) == Distance(asked.c, asked.pal[k])
        IN  asked.pal # <<>> => \A k \in DOMAIN asked.pal : dist(n + 1) <= dist(k) /\ (dist(k) = dist(n + 1) => n + 1 <= k)

\* Rectangles, mapping modes, lines, shapes, raster operations, blits, bitmap transfers, blending
\* and palette lookups agree with their definitions on points and pixels.
PixelLaws ==
    /\ RectAlgebra /\ MapInverse /\ LineIsNearest /\ ShapesAgree /\ RopMatchesCode
    /\ BlitIsCopy /\ DibRoundTrip /\ BlendInRange /\ NearestIsFirst
=============================================================================
