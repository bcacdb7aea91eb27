------------------------------ MODULE GdiRegions ----------------------------
(***************************************************************************)
(* Regions and clips.  The code keeps of a region its bounding box and a flag *)
(* saying that the region is not that box; the ghost exact is the set of      *)
(* points the region really has.  One device context and one window carry a   *)
(* region each: clip and wnd, with set FALSE when there is none.              *)
(***************************************************************************)
EXTENDS Rects, FiniteSets

CONSTANTS Regions,      \* handles of live regions
          Grid,         \* the points of the surface
          Boxes,        \* the rectangles a program passes
          Shapes,       \* the other sets of points it builds regions from
          Risky         \* of the cases the boxes are wrong for, those the program meets
ASSUME BoxAssumption == Boxes \subseteq Int \X Int \X Int \X Int

VARIABLES rgn, clip, wnd
rgnVars == <<rgn, clip, wnd>>

Region(box, complex, exact) == [box |-> box, complex |-> complex, exact |-> exact]
Carried(set, r) == [set |-> set, box |-> r.box, complex |-> r.complex, exact |-> r.exact]
RgnInit == /\ rgn = [h \in Regions |-> Region(NoRect, FALSE, {})]
           /\ clip = Carried(FALSE, Region(NoRect, FALSE, Grid))
           /\ wnd = Carried(FALSE, Region(NoRect, FALSE, {}))
u32_rgn_type(r) == IF IsRectEmpty(r.box) THEN "NULL" ELSE IF r.complex THEN "COMPLEX" ELSE "SIMPLE"
u32_clip_type(c) == IF ~c.set THEN "SIMPLE" ELSE u32_rgn_type(c)

-----------------------------------------------------------------------------
(* Regions.                                                                    *)
u32_make_rgn(h, r) == rgn' = [rgn EXCEPT ![h] = Region(Ordered(r), FALSE, Cells(Ordered(r)))] /\ UNCHANGED <<clip, wnd>>
SetRectRgn(h, r) == u32_make_rgn(h, r)
\* Rounded, polygonal and multi-rectangle regions: some of the box's points, the box being theirs.
Spans(r, S) == /\ S \subseteq Cells(r)
               /\ \A q \in Boxes : S \subseteq Cells(Ordered(q)) => Cells(r) \subseteq Cells(Ordered(q))
CreateRoundRectRgn(h, r) ==
    \E S \in Shapes : /\ Spans(Ordered(r), S)
                      /\ rgn' = [rgn EXCEPT ![h] = Region(Ordered(r), TRUE, S)]
                      /\ UNCHANGED <<clip, wnd>>
CreatePolygonRgn(h, r) == CreateRoundRectRgn(h, r)
\* The header's bounding rectangle; one rectangle is simple, more are not.
ExtCreateRegion(h, r, count) == IF count > 1 THEN CreateRoundRectRgn(h, r) ELSE u32_make_rgn(h, r)
u32_rect_contains(a, b) == a[1] <= b[1] /\ a[2] <= b[2] /\ a[3] >= b[3] /\ a[4] >= b[4]
Narrowed(r) == <<r[1], r[2], Most2(r[1], r[3]), Most2(r[2], r[4])>>
ExactOf(a, b, mode) == CASE mode = "AND" -> a \cap b [] mode = "OR" -> a \cup b [] mode = "XOR" -> (a \ b) \cup (b \ a)
                         [] mode = "DIFF" -> a \ b [] mode = "COPY" -> a
CombineOrFirst(a, b, mode) ==
    CASE mode = "AND" -> Narrowed(Meet(a, b)) [] mode = "OR" -> IF IsRectEmpty(a) THEN b ELSE a [] mode \in {"XOR", "DIFF", "COPY"} -> a
CombineBoxes(a, b, mode) ==
    CASE mode = "AND" -> Narrowed(Meet(a, b)) [] mode = "OR" -> Hull(a, b) [] mode \in {"XOR", "DIFF", "COPY"} -> a
CombineComplex(a, b, mode) ==
    CASE mode = "AND" -> FALSE
      [] mode = "OR" -> ~(u32_rect_contains(a.box, b.box) \/ u32_rect_contains(b.box, a.box))
      [] mode \in {"XOR", "DIFF"} -> TRUE
      [] mode = "COPY" -> a.complex
Modes == {"AND", "OR", "XOR", "DIFF", "COPY"}
CombineRgn(d, a, b, mode) ==
    /\ "xor" \notin Risky => mode # "XOR"
    /\ rgn' = [rgn EXCEPT ![d] = Region(CombineBoxes(rgn[a].box, rgn[b].box, mode), CombineComplex(rgn[a], rgn[b], mode),
                                        ExactOf(rgn[a].exact, rgn[b].exact, mode))]
    /\ UNCHANGED <<clip, wnd>>

-----------------------------------------------------------------------------
(* The clip of a device context.                                               *)
GetClipRgn(h) == /\ clip.set
                 /\ rgn' = [rgn EXCEPT ![h] = Region(clip.box, clip.complex, clip.exact)]
                 /\ UNCHANGED <<clip, wnd>>
IntersectStale(q) ==
    LET r == Ordered(q)
    IN  /\ clip' = Carried(TRUE, Region(Meet(clip.box, r), FALSE, clip.exact \cap Cells(r)))
        /\ UNCHANGED <<rgn, wnd>>
IntersectClipRect(q) ==
    LET r == Ordered(q)
    IN  /\ clip' = Carried(TRUE, Region(IF clip.set THEN Meet(clip.box, r) ELSE r, FALSE, clip.exact \cap Cells(r)))
        /\ UNCHANGED <<rgn, wnd>>
\* The four sides of a clip after a rectangle is cut out of it, and whether it is complex.
ExcludeBand(c, r) ==
    CASE r[1] <= c[1] /\ r[3] >= c[3] /\ r[2] <= c[2] -> [box |-> [c EXCEPT ![2] = Least2(r[4], c[4])], complex |-> FALSE]
      [] r[1] <= c[1] /\ r[3] >= c[3] /\ r[2] > c[2] /\ r[4] >= c[4] -> [box |-> [c EXCEPT ![4] = Most2(r[2], c[2])], complex |-> FALSE]
      [] ~(r[1] <= c[1] /\ r[3] >= c[3]) /\ r[2] <= c[2] /\ r[4] >= c[4] /\ r[1] <= c[1] -> [box |-> [c EXCEPT ![1] = Most2(r[3], c[3])], complex |-> FALSE]
      [] ~(r[1] <= c[1] /\ r[3] >= c[3]) /\ r[2] <= c[2] /\ r[4] >= c[4] /\ r[1] > c[1] /\ r[3] >= c[3] -> [box |-> [c EXCEPT ![3] = Least2(r[1], c[1])], complex |-> FALSE]
      [] OTHER -> [box |-> c, complex |-> TRUE]
ExcludedBox(c, r) ==
    IF r[3] <= c.box[1] \/ r[1] >= c.box[3] \/ r[4] <= c.box[2] \/ r[2] >= c.box[4] THEN [box |-> c.box, complex |-> c.complex]
    ELSE IF u32_rect_contains(r, c.box) THEN [box |-> <<c.box[1], c.box[2], c.box[1], c.box[2]>>, complex |-> c.complex]
    ELSE ExcludeBand(c.box, r)
\* A cut out of an unset clip only marks it set and complex.
ExcludeClipRect(q) ==
    LET r == Ordered(q)
        e == IF clip.set THEN ExcludedBox(clip, r) ELSE [box |-> clip.box, complex |-> TRUE]
        side == ~(r[1] <= clip.box[1] /\ r[3] >= clip.box[3]) /\ r[2] <= clip.box[2] /\ r[4] >= clip.box[4]
    IN  /\ "exclude" \notin Risky => clip.set /\ ~side
        /\ clip' = Carried(TRUE, Region(e.box, e.complex, clip.exact \ Cells(r)))
        /\ UNCHANGED <<rgn, wnd>>
SelectClipRgn(h) == clip' = Carried(TRUE, rgn[h]) /\ UNCHANGED <<rgn, wnd>>
\* Without a region the clip goes; its box stays behind, unread until an exclusion.
UnselectClipRgn == clip' = [clip EXCEPT !.set = FALSE, !.exact = Grid] /\ UNCHANGED <<rgn, wnd>>
\* On an unset clip every mode selects the region.
ExtSelectClipRgn(h, mode) ==
    /\ "unset" \notin Risky => clip.set \/ mode \in {"AND", "OR", "COPY"}
    /\ clip' = IF ~clip.set \/ mode = "COPY" THEN Carried(TRUE, [rgn[h] EXCEPT !.exact = IF mode \in {"XOR", "DIFF"} THEN ExactOf(Grid, @, mode) ELSE @])
               ELSE Carried(TRUE, Region(IF mode = "AND" THEN Meet(clip.box, rgn[h].box) ELSE Hull(clip.box, rgn[h].box), mode # "AND",
                                         ExactOf(clip.exact, rgn[h].exact, mode)))
    /\ UNCHANGED <<rgn, wnd>>
RectVisible(r) == clip.set => ~(r[3] <= clip.box[1] \/ r[1] >= clip.box[3] \/ r[4] <= clip.box[2] \/ r[2] >= clip.box[4])
SetWindowRgn(h) == wnd' = Carried(TRUE, rgn[h]) /\ UNCHANGED <<rgn, clip>>
ClearWindowRgn == wnd' = [wnd EXCEPT !.set = FALSE] /\ UNCHANGED <<rgn, clip>>
GetWindowRgn(h) == wnd.set /\ rgn' = [rgn EXCEPT ![h] = Region(wnd.box, wnd.complex, wnd.exact)] /\ UNCHANGED <<clip, wnd>>

-----------------------------------------------------------------------------
RegionOps ==
    \/ \E h \in Regions, r \in Boxes : \E n \in {1, 2} : ExtCreateRegion(h, r, n)
    \/ \E d, a, b \in Regions, m \in Modes : CombineRgn(d, a, b, m)
ClipOps(h) ==
    \/ GetClipRgn(h) \/ SelectClipRgn(h) \/ \E m \in Modes : ExtSelectClipRgn(h, m)
    \/ \E r \in Boxes : IntersectClipRect(r) \/ ExcludeClipRect(r)
    \/ UnselectClipRgn
WindowOps(h) == SetWindowRgn(h) \/ GetWindowRgn(h) \/ ClearWindowRgn

RegionNext == RegionOps \/ \E h \in Regions : ClipOps(h) \/ WindowOps(h) \/ \E r \in Boxes : SetRectRgn(h, r)
RegionSpec == RgnInit /\ [][RegionNext]_rgnVars

\* However regions are built, combined and copied from the clip or the window, no point of one lies
\* outside the box GetRgnBox reports and the others are computed from.
RegionSuperset == \A h \in Regions : rgn[h].exact \subseteq Cells(rgn[h].box)
\* RectVisible never calls a rectangle invisible that has a point of the clip in it: the program
\* that skips invisible drawing skips nothing it should draw.
VisibleIsSafe == \A r \in Boxes : clip.exact \cap Cells(r) # {} => RectVisible(r)

\* The boxes stand for the regions: they cover them, and visibility is decided safely from them.
RegionSound == RegionSuperset /\ VisibleIsSafe
=============================================================================
