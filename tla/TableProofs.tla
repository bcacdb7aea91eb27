----------------------------- MODULE TableProofs ----------------------------
(* Proofs about the object tables: the bounding boxes of regions, the owners   *)
(* of GDI objects, the enumeration of children, and the small tables that must *)
(* read back what was stored, the COM allocator's included.                    *)
EXTENDS GdiRegions, GdiObjects, WindowData, FiniteSetTheorems, WellFoundedInduction, SequenceTheorems, TLAPS

Rect == Int \X Int \X Int \X Int

LEMMA RectSides == ASSUME NEW r \in Rect
    PROVE r[1] \in Int /\ r[2] \in Int /\ r[3] \in Int /\ r[4] \in Int /\ r = <<r[1], r[2], r[3], r[4]>>
  BY DEF Rect
LEMMA CellIs == ASSUME NEW r \in Rect, NEW p
    PROVE p \in Cells(r) <=> p \in Int \X Int /\ PtInRect(r, p)
  <1>1. r[1] \in Int /\ r[2] \in Int /\ r[3] \in Int /\ r[4] \in Int  BY RectSides
  <1> QED BY <1>1 DEF Cells, PtInRect
LEMMA OrderedRect == ASSUME NEW r \in Rect PROVE Ordered(r) \in Rect
  BY RectSides DEF Ordered, Least2, Most2, Rect
LEMMA MeetCells == ASSUME NEW a \in Rect, NEW b \in Rect
    PROVE Meet(a, b) \in Rect /\ Cells(Meet(a, b)) = Cells(a) \cap Cells(b)
  <1>1. Meet(a, b) \in Rect  BY RectSides DEF Meet, Least2, Most2, Rect
  <1>2. ASSUME NEW p PROVE p \in Cells(Meet(a, b)) <=> p \in Cells(a) /\ p \in Cells(b)
    <2>1. p \in Int \X Int => (PtInRect(Meet(a, b), p) <=> PtInRect(a, p) /\ PtInRect(b, p))
      BY RectSides DEF PtInRect, Meet, Least2, Most2
    <2> QED BY <2>1, <1>1, CellIs
  <1> QED BY <1>1, <1>2
LEMMA HullCells == ASSUME NEW a \in Rect, NEW b \in Rect
    PROVE Hull(a, b) \in Rect /\ Cells(a) \cup Cells(b) \subseteq Cells(Hull(a, b))
  <1>1. Hull(a, b) \in Rect  BY RectSides DEF Hull, Least2, Most2, Rect
  <1>2. ASSUME NEW p PROVE p \in Cells(a) \/ p \in Cells(b) => p \in Cells(Hull(a, b))
    <2>1. p \in Int \X Int => (PtInRect(a, p) \/ PtInRect(b, p) => PtInRect(Hull(a, b), p))
      BY RectSides DEF PtInRect, Hull, Least2, Most2
    <2> QED BY <2>1, <1>1, CellIs
  <1> QED BY <1>1, <1>2
LEMMA NarrowedCells == ASSUME NEW r \in Rect
    PROVE Narrowed(r) \in Rect /\ Cells(r) \subseteq Cells(Narrowed(r))
  <1>1. Narrowed(r) \in Rect  BY RectSides DEF Narrowed, Least2, Most2, Rect
  <1>2. ASSUME NEW p \in Cells(r) PROVE p \in Cells(Narrowed(r))
    <2>1. p \in Int \X Int => (PtInRect(r, p) => PtInRect(Narrowed(r), p))
      BY RectSides DEF PtInRect, Narrowed, Most2
    <2> QED BY <2>1, <1>1, CellIs
  <1> QED BY <1>1, <1>2
\* Cutting a rectangle out of a clip, with no side band: nothing outside the rectangle is lost.
LEMMA ExcludedCells == ASSUME NEW c, c.box \in Rect, NEW r \in Rect,
           ~(~(r[1] <= c.box[1] /\ r[3] >= c.box[3]) /\ r[2] <= c.box[2] /\ r[4] >= c.box[4])
    PROVE /\ ExcludedBox(c, r).box \in Rect
          /\ Cells(c.box) \ Cells(r) \subseteq Cells(ExcludedBox(c, r).box)
  <1> DEFINE b == c.box
  <1>1. b \in Rect  OBVIOUS
  <1>2. b[1] \in Int /\ b[2] \in Int /\ b[3] \in Int /\ b[4] \in Int /\ b = <<b[1], b[2], b[3], b[4]>>
    BY <1>1, RectSides
  <1>3. r[1] \in Int /\ r[2] \in Int /\ r[3] \in Int /\ r[4] \in Int
    BY RectSides
  <1>4. CASE r[3] <= b[1] \/ r[1] >= b[3] \/ r[4] <= b[2] \/ r[2] >= b[4]
    BY <1>1, <1>4 DEF ExcludedBox
  <1>5. CASE ~(r[3] <= b[1] \/ r[1] >= b[3] \/ r[4] <= b[2] \/ r[2] >= b[4]) /\ u32_rect_contains(r, b)
    <2>1. ExcludedBox(c, r).box = <<b[1], b[2], b[1], b[2]>>
      BY <1>5 DEF ExcludedBox
    <2>2. \A p \in Int \X Int : PtInRect(b, p) => PtInRect(r, p)
      BY <1>2, <1>3, <1>5 DEF PtInRect, u32_rect_contains
    <2>3. Cells(b) \ Cells(r) = {}
      BY <1>1, <2>2, CellIs
    <2> QED BY <1>1, <1>2, <2>1, <2>3 DEF Rect
  <1>6. CASE ~(r[3] <= b[1] \/ r[1] >= b[3] \/ r[4] <= b[2] \/ r[2] >= b[4]) /\ ~u32_rect_contains(r, b)
    <2>1. ExcludedBox(c, r) = ExcludeBand(b, r)
      BY <1>6 DEF ExcludedBox
    <2>2. CASE r[1] <= b[1] /\ r[3] >= b[3] /\ r[2] <= b[2]
      <3>1. ExcludeBand(b, r) = [box |-> [b EXCEPT ![2] = Least2(r[4], b[4])], complex |-> FALSE]
        BY <2>2, <1>2, <1>3 DEF ExcludeBand
      <3>2. Least2(r[4], b[4]) = r[4]
        BY <1>6, <2>2, <1>2, <1>3 DEF Least2, u32_rect_contains
      <3>3. [b EXCEPT ![2] = r[4]] = <<b[1], r[4], b[3], b[4]>>
        BY <1>2
      <3> DEFINE d == <<b[1], r[4], b[3], b[4]>>
      <3>4. d \in Rect
        BY <1>2, <1>3 DEF Rect
      <3>5. \A p \in Int \X Int : PtInRect(b, p) /\ ~PtInRect(r, p) => PtInRect(d, p)
        BY <1>2, <1>3, <2>2 DEF PtInRect
      <3>6. Cells(b) \ Cells(r) \subseteq Cells(d)
        BY <1>1, <3>4, <3>5, CellIs
      <3> QED BY <3>1, <3>2, <3>3, <3>4, <3>6, <2>1
    <2>3. CASE r[1] <= b[1] /\ r[3] >= b[3] /\ r[2] > b[2] /\ r[4] >= b[4]
      <3>1. ExcludeBand(b, r) = [box |-> [b EXCEPT ![4] = Most2(r[2], b[2])], complex |-> FALSE]
        BY <2>3, <1>2, <1>3 DEF ExcludeBand
      <3>2. Most2(r[2], b[2]) = r[2]
        BY <2>3, <1>2, <1>3 DEF Most2
      <3>3. [b EXCEPT ![4] = r[2]] = <<b[1], b[2], b[3], r[2]>>
        BY <1>2
      <3> DEFINE d == <<b[1], b[2], b[3], r[2]>>
      <3>4. d \in Rect
        BY <1>2, <1>3 DEF Rect
      <3>5. \A p \in Int \X Int : PtInRect(b, p) /\ ~PtInRect(r, p) => PtInRect(d, p)
        BY <1>2, <1>3, <2>3 DEF PtInRect
      <3>6. Cells(b) \ Cells(r) \subseteq Cells(d)
        BY <1>1, <3>4, <3>5, CellIs
      <3> QED BY <3>1, <3>2, <3>3, <3>4, <3>6, <2>1
    <2>4. CASE ~(r[1] <= b[1] /\ r[3] >= b[3] /\ r[2] <= b[2]) /\ ~(r[1] <= b[1] /\ r[3] >= b[3] /\ r[2] > b[2] /\ r[4] >= b[4])
      <3>1. ExcludeBand(b, r) = [box |-> b, complex |-> TRUE]
        BY <2>4, <1>2, <1>3 DEF ExcludeBand
      <3> QED BY <3>1, <2>1, <1>1
    <2> QED BY <2>2, <2>3, <2>4
  <1> QED BY <1>4, <1>5, <1>6

-----------------------------------------------------------------------------
(* Every region, the clip and the window's region keep a box of four integers *)
(* that covers the exact points; the clip only while it is set.               *)
Covered(r) == r.box \in Rect /\ r.exact \subseteq Cells(r.box)
RegionInv == /\ rgn = [h \in Regions |-> rgn[h]]
             /\ \A h \in Regions : Covered(rgn[h])
             /\ clip.set \in BOOLEAN /\ clip.box \in Rect /\ (clip.set => Covered(clip))
             /\ wnd.box \in Rect /\ wnd.exact \subseteq Cells(wnd.box)

LEMMA CombineCovers == ASSUME NEW a, NEW b, Covered(a), Covered(b), NEW m \in Modes, m # "XOR"
    PROVE /\ CombineBoxes(a.box, b.box, m) \in Rect
          /\ ExactOf(a.exact, b.exact, m) \subseteq Cells(CombineBoxes(a.box, b.box, m))
  <1>0. a.box \in Rect /\ b.box \in Rect /\ a.exact \subseteq Cells(a.box) /\ b.exact \subseteq Cells(b.box)  BY DEF Covered
  <1>1. CASE m = "AND"
    <2>1. CombineBoxes(a.box, b.box, m) = Narrowed(Meet(a.box, b.box)) /\ ExactOf(a.exact, b.exact, m) = a.exact \cap b.exact
      BY <1>1 DEF CombineBoxes, ExactOf
    <2>2. Meet(a.box, b.box) \in Rect /\ Cells(Meet(a.box, b.box)) = Cells(a.box) \cap Cells(b.box)  BY <1>0, MeetCells
    <2>3. Narrowed(Meet(a.box, b.box)) \in Rect /\ Cells(Meet(a.box, b.box)) \subseteq Cells(Narrowed(Meet(a.box, b.box)))
      BY <2>2, NarrowedCells
    <2> QED BY <1>0, <2>1, <2>2, <2>3
  <1>2. CASE m = "OR"
    <2>1. CombineBoxes(a.box, b.box, m) = Hull(a.box, b.box) /\ ExactOf(a.exact, b.exact, m) = a.exact \cup b.exact
      BY <1>2 DEF CombineBoxes, ExactOf
    <2>2. Hull(a.box, b.box) \in Rect /\ Cells(a.box) \cup Cells(b.box) \subseteq Cells(Hull(a.box, b.box))  BY <1>0, HullCells
    <2> QED BY <1>0, <2>1, <2>2
  <1>3. CASE m \in {"DIFF", "COPY"}
    <2>1. CombineBoxes(a.box, b.box, m) = a.box /\ ExactOf(a.exact, b.exact, m) \subseteq a.exact
      BY <1>3 DEF CombineBoxes, ExactOf
    <2> QED BY <1>0, <2>1
  <1> QED BY <1>1, <1>2, <1>3 DEF Modes

\* A region stored in one handle keeps the invariant when its box covers it.
LEMMA StoreRegion == ASSUME RegionInv, NEW h \in Regions, NEW b \in Rect, NEW x, NEW e, e \subseteq Cells(b),
                            rgn' = [rgn EXCEPT ![h] = Region(b, x, e)], UNCHANGED <<clip, wnd>>
    PROVE RegionInv'
  <1>1. Covered(Region(b, x, e))  BY DEF Covered, Region
  <1>2. \A k \in Regions : rgn'[k] = IF k = h THEN Region(b, x, e) ELSE rgn[k]  BY DEF RegionInv
  <1>3. rgn' = [k \in Regions |-> rgn'[k]]  BY DEF RegionInv
  <1> QED BY <1>1, <1>2, <1>3 DEF RegionInv, Covered
\* So does a clip.
LEMMA StoreClip == ASSUME RegionInv, NEW b \in Rect, NEW x, NEW e, e \subseteq Cells(b),
                          clip' = Carried(TRUE, Region(b, x, e)), UNCHANGED <<rgn, wnd>>
    PROVE RegionInv'
  BY DEF RegionInv, Covered, Carried, Region

LEMMA RegionStart == RgnInit => RegionInv
  <1>1. NoRect \in Rect  BY DEF NoRect, Rect
  <1> QED BY <1>1 DEF RgnInit, RegionInv, Covered, Region, Carried

LEMMA BoxOrdered == ASSUME NEW r \in Boxes PROVE Ordered(r) \in Rect
  BY BoxAssumption, OrderedRect DEF Rect
LEMMA CreateKeeps == ASSUME RegionInv, NEW h \in Regions, NEW r \in Boxes, NEW n \in {1, 2}, ExtCreateRegion(h, r, n)
    PROVE RegionInv'
  <1>1. CASE n > 1
    <2>1. PICK S \in Shapes : /\ Spans(Ordered(r), S)
                              /\ rgn' = [rgn EXCEPT ![h] = Region(Ordered(r), TRUE, S)] /\ UNCHANGED <<clip, wnd>>
      BY <1>1 DEF ExtCreateRegion, CreateRoundRectRgn
    <2> QED BY <2>1, BoxOrdered, StoreRegion DEF Spans
  <1>2. CASE ~(n > 1)
    BY <1>2, BoxOrdered, StoreRegion DEF ExtCreateRegion, u32_make_rgn
  <1> QED BY <1>1, <1>2
LEMMA ExcludeKeeps == ASSUME RegionInv, Risky = {}, NEW q \in Boxes, ExcludeClipRect(q) PROVE RegionInv'
  <1>1. PICK r \in Rect : r = Ordered(q)  BY BoxOrdered
  <1>2. /\ clip.set
        /\ ~(~(r[1] <= clip.box[1] /\ r[3] >= clip.box[3]) /\ r[2] <= clip.box[2] /\ r[4] >= clip.box[4])
        /\ UNCHANGED <<rgn, wnd>>
    BY <1>1 DEF ExcludeClipRect
  <1>3. clip' = Carried(TRUE, Region(ExcludedBox(clip, r).box, ExcludedBox(clip, r).complex, clip.exact \ Cells(r)))
    BY <1>1, <1>2 DEF ExcludeClipRect
  <1>4. clip.box \in Rect /\ clip.exact \subseteq Cells(clip.box)  BY <1>2 DEF RegionInv, Covered
  <1>5. ExcludedBox(clip, r).box \in Rect /\ Cells(clip.box) \ Cells(r) \subseteq Cells(ExcludedBox(clip, r).box)
    BY <1>2, <1>4, ExcludedCells
  <1>6. clip.exact \ Cells(r) \subseteq Cells(ExcludedBox(clip, r).box)  BY <1>4, <1>5
  <1> QED BY <1>2, <1>3, <1>5, <1>6, StoreClip
LEMMA ExtSelectKeeps == ASSUME RegionInv, Risky = {}, NEW h \in Regions, NEW m \in Modes, ExtSelectClipRgn(h, m) PROVE RegionInv'
  <1>0. Covered(rgn[h]) /\ rgn[h].box \in Rect /\ rgn[h].exact \subseteq Cells(rgn[h].box)  BY DEF RegionInv, Covered
  <1>a. UNCHANGED <<rgn, wnd>> /\ (clip.set \/ m \in {"AND", "OR", "COPY"})  BY DEF ExtSelectClipRgn
  <1>1. CASE ~clip.set \/ m = "COPY"
    <2>1. clip' = Carried(TRUE, [rgn[h] EXCEPT !.exact = IF m \in {"XOR", "DIFF"} THEN ExactOf(Grid, @, m) ELSE @])
      BY <1>1 DEF ExtSelectClipRgn
    <2>2. m \notin {"XOR", "DIFF"}  BY <1>1, <1>a
    <2>3. clip' = Carried(TRUE, [rgn[h] EXCEPT !.exact = @])  BY <2>1, <2>2
    <2>4. clip' = Carried(TRUE, Region(rgn[h].box, rgn[h].complex, rgn[h].exact))  BY <2>3 DEF Carried, Region
    <2> QED BY <1>0, <1>a, <2>4, StoreClip
  <1>2. CASE clip.set /\ m = "AND"
    <2>1. clip.box \in Rect /\ clip.exact \subseteq Cells(clip.box)  BY <1>2 DEF RegionInv, Covered
    <2>2. clip' = Carried(TRUE, Region(Meet(clip.box, rgn[h].box), FALSE, ExactOf(clip.exact, rgn[h].exact, m)))
      BY <1>2 DEF ExtSelectClipRgn
    <2>3. ExactOf(clip.exact, rgn[h].exact, m) = clip.exact \cap rgn[h].exact  BY <1>2 DEF ExactOf
    <2>4. Meet(clip.box, rgn[h].box) \in Rect /\ Cells(Meet(clip.box, rgn[h].box)) = Cells(clip.box) \cap Cells(rgn[h].box)
      BY <1>0, <2>1, MeetCells
    <2>5. ExactOf(clip.exact, rgn[h].exact, m) \subseteq Cells(Meet(clip.box, rgn[h].box))  BY <1>0, <2>1, <2>3, <2>4
    <2> QED BY <1>a, <2>2, <2>4, <2>5, StoreClip
  <1>3. CASE clip.set /\ m \in {"OR", "XOR", "DIFF"}
    <2>1. clip.box \in Rect /\ clip.exact \subseteq Cells(clip.box)  BY <1>3 DEF RegionInv, Covered
    <2>2. clip' = Carried(TRUE, Region(Hull(clip.box, rgn[h].box), TRUE, ExactOf(clip.exact, rgn[h].exact, m)))
      BY <1>3 DEF ExtSelectClipRgn
    <2>3. ExactOf(clip.exact, rgn[h].exact, m) \subseteq clip.exact \cup rgn[h].exact  BY <1>3 DEF ExactOf
    <2>4. Hull(clip.box, rgn[h].box) \in Rect /\ Cells(clip.box) \cup Cells(rgn[h].box) \subseteq Cells(Hull(clip.box, rgn[h].box))
      BY <1>0, <2>1, HullCells
    <2>5. ExactOf(clip.exact, rgn[h].exact, m) \subseteq Cells(Hull(clip.box, rgn[h].box))  BY <1>0, <2>1, <2>3, <2>4
    <2> QED BY <1>a, <2>2, <2>4, <2>5, StoreClip
  <1> QED BY <1>1, <1>2, <1>3 DEF Modes, RegionInv
LEMMA IntersectKeeps == ASSUME RegionInv, NEW q \in Boxes, IntersectClipRect(q) PROVE RegionInv'
  <1>1. PICK r \in Rect : r = Ordered(q)  BY BoxOrdered
  <1>2. /\ clip' = Carried(TRUE, Region(IF clip.set THEN Meet(clip.box, r) ELSE r, FALSE, clip.exact \cap Cells(r)))
        /\ UNCHANGED <<rgn, wnd>>
    BY <1>1 DEF IntersectClipRect
  <1>3. CASE clip.set
    <2>1. clip.box \in Rect /\ clip.exact \subseteq Cells(clip.box)  BY <1>3 DEF RegionInv, Covered
    <2>2. Meet(clip.box, r) \in Rect /\ Cells(Meet(clip.box, r)) = Cells(clip.box) \cap Cells(r)  BY <2>1, MeetCells
    <2>3. clip.exact \cap Cells(r) \subseteq Cells(Meet(clip.box, r))  BY <2>1, <2>2
    <2>4. clip' = Carried(TRUE, Region(Meet(clip.box, r), FALSE, clip.exact \cap Cells(r)))  BY <1>2, <1>3
    <2> QED BY <1>2, <2>2, <2>3, <2>4, StoreClip
  <1>4. CASE ~clip.set
    <2>1. clip' = Carried(TRUE, Region(r, FALSE, clip.exact \cap Cells(r)))  BY <1>2, <1>4
    <2> QED BY <1>2, <2>1, StoreClip
  <1> QED BY <1>3, <1>4

\* Every call keeps every box around its region, when the program avoids the calls Risky names.
LEMMA RegionStep == ASSUME RegionInv, Risky = {}, [RegionNext]_rgnVars PROVE RegionInv'
  <1>1. CASE UNCHANGED rgnVars  BY <1>1 DEF rgnVars, RegionInv, Covered
  <1>2. ASSUME NEW h \in Regions, NEW r \in Boxes, NEW n \in {1, 2}, ExtCreateRegion(h, r, n) PROVE RegionInv'
    BY <1>2, CreateKeeps
  <1>3. ASSUME NEW d \in Regions, NEW a \in Regions, NEW b \in Regions, NEW m \in Modes, CombineRgn(d, a, b, m) PROVE RegionInv'
    <2>1. m # "XOR" /\ UNCHANGED <<clip, wnd>>  BY <1>3 DEF CombineRgn
    <2>2. Covered(rgn[a]) /\ Covered(rgn[b])  BY DEF RegionInv
    <2>3. /\ CombineBoxes(rgn[a].box, rgn[b].box, m) \in Rect
          /\ ExactOf(rgn[a].exact, rgn[b].exact, m) \subseteq Cells(CombineBoxes(rgn[a].box, rgn[b].box, m))
      BY <2>1, <2>2, CombineCovers
    <2>4. rgn' = [rgn EXCEPT ![d] = Region(CombineBoxes(rgn[a].box, rgn[b].box, m), CombineComplex(rgn[a], rgn[b], m),
                                           ExactOf(rgn[a].exact, rgn[b].exact, m))]
      BY <1>3 DEF CombineRgn
    <2> QED BY <2>1, <2>3, <2>4, StoreRegion
  <1>4. ASSUME NEW h \in Regions, GetClipRgn(h) PROVE RegionInv'
    BY <1>4, StoreRegion DEF GetClipRgn, RegionInv, Covered
  <1>5. ASSUME NEW h \in Regions, SelectClipRgn(h) PROVE RegionInv'
    BY <1>5 DEF SelectClipRgn, RegionInv, Covered, Carried
  <1>6. ASSUME NEW h \in Regions, NEW m \in Modes, ExtSelectClipRgn(h, m) PROVE RegionInv'
    BY <1>6, ExtSelectKeeps
  <1>7. ASSUME NEW r \in Boxes, IntersectClipRect(r) PROVE RegionInv'
    BY <1>7, IntersectKeeps
  <1>8. ASSUME NEW r \in Boxes, ExcludeClipRect(r) PROVE RegionInv'
    BY <1>8, ExcludeKeeps
  <1>9. CASE UnselectClipRgn
    <2>1. clip'.set = FALSE /\ clip'.box = clip.box /\ UNCHANGED <<rgn, wnd>>
      BY <1>9 DEF UnselectClipRgn, RegionInv
    <2> QED BY <2>1 DEF RegionInv, Covered
  <1>10. ASSUME NEW h \in Regions, SetWindowRgn(h) PROVE RegionInv'
    BY <1>10 DEF SetWindowRgn, RegionInv, Covered, Carried
  <1>11. ASSUME NEW h \in Regions, GetWindowRgn(h) PROVE RegionInv'
    BY <1>11, StoreRegion DEF GetWindowRgn, RegionInv, Covered
  <1>12. CASE ClearWindowRgn
    BY <1>12 DEF ClearWindowRgn, RegionInv, Covered
  <1>13. ASSUME NEW h \in Regions, NEW r \in Boxes, SetRectRgn(h, r) PROVE RegionInv'
    BY <1>13, BoxOrdered, StoreRegion DEF SetRectRgn, u32_make_rgn
  <1> QED BY <1>1, <1>2, <1>3, <1>4, <1>5, <1>6, <1>7, <1>8, <1>9, <1>10, <1>11, <1>12, <1>13
         DEF RegionNext, RegionOps, ClipOps, WindowOps

\* For any points, boxes, shapes and number of regions: the box GetRgnBox reports covers its region
\* and RectVisible never hides a visible rectangle, in a program that makes none of the Risky calls.
THEOREM RegionsCovered == ASSUME Risky = {} PROVE RegionSpec => []RegionSound
  <1>1. RegionInv => RegionSound
    <2> SUFFICES ASSUME RegionInv PROVE RegionSound  OBVIOUS
    <2>1. RegionSuperset  BY DEF RegionInv, Covered, RegionSuperset
    <2>2. ASSUME NEW r \in Boxes, NEW p, p \in clip.exact, p \in Cells(r), clip.set PROVE RectVisible(r)
      <3>1. r \in Rect /\ clip.box \in Rect /\ p \in Cells(clip.box)  BY <2>2, BoxAssumption DEF RegionInv, Covered, Rect
      <3>2. p \in Int \X Int /\ PtInRect(r, p) /\ PtInRect(clip.box, p)  BY <2>2, <3>1, CellIs
      <3> QED BY <3>1, <3>2, RectSides DEF RectVisible, PtInRect
    <2>3. VisibleIsSafe  BY <2>2 DEF VisibleIsSafe, RectVisible
    <2> QED BY <2>1, <2>3 DEF RegionSound
  <1>2. RegionInv /\ [RegionNext]_rgnVars => RegionInv'  BY RegionStep
  <1> QED BY <1>1, <1>2, RegionStart, PTL DEF RegionSpec

-----------------------------------------------------------------------------
(* Every search of the tables takes the first slot that fits.                 *)
LEMMA LeastNat == ASSUME NEW S, S \subseteq Nat, S # {} PROVE \E i \in S : \A j \in S : i <= j
  <1>1. PICK i \in S : \A j \in S : ~(<<j, i>> \in OpToRel(<, Nat))
    BY WFMin, NatLessThanWellFounded, Zenon
  <1>2. \A j \in S : ~(j < i)  BY <1>1 DEF OpToRel
  <1> QED BY <1>2

-----------------------------------------------------------------------------
(* EnumChildWindows: what is owed is still a child and still ahead.            *)
EnumInv == /\ DOMAIN tree = Handles /\ \A h \in Handles : DOMAIN tree[h] = {"used", "parent", "child"} /\ tree[h].used \in BOOLEAN
           /\ enum \in [on : BOOLEAN, parent : Handles \cup {NoWindow}, next : Nat]
           /\ \A h \in owed : h \in Handles /\ tree[h].used /\ enum.on /\ tree[h].parent = enum.parent /\ h >= enum.next

LEMMA LowestIn == ASSUME NEW S, S \subseteq Handles, S # {} PROVE Lowest(S) \in S /\ \A k \in S : Lowest(S) <= k
  <1>1. Handles \subseteq Nat  BY TreeAssumption DEF Handles
  <1>2. \E i \in S : \A j \in S : i <= j  BY <1>1, LeastNat
  <1>3. Lowest(S) = CHOOSE h \in S : \A k \in S : h <= k  BY DEF Lowest
  <1> QED BY <1>2, <1>3
LEMMA VacantShape == DOMAIN VacantSlot = {"used", "parent", "child"} /\ VacantSlot.used \in BOOLEAN
  BY DEF VacantSlot
LEMMA EnumStep == ASSUME EnumInv, TreeOps PROVE EnumInv' /\ (enum.on /\ ~enum'.on => owed = {})
  <1>0. Handles \subseteq Nat /\ NoWindow \notin Handles  BY TreeAssumption DEF Handles, NoWindow
  <1>1. ASSUME NEW p \in Handles \cup {NoWindow}, NEW c \in BOOLEAN, u32_window_create(p, c) PROVE EnumInv' /\ enum'.on = enum.on
    <2>1. PICK h : h = Lowest({k \in Handles : ~tree[k].used})  OBVIOUS
    <2>2. h # NoWindow /\ tree' = [tree EXCEPT ![h] = [used |-> TRUE, parent |-> p, child |-> c]] /\ UNCHANGED <<enum, owed>>
      BY <1>1, <2>1 DEF u32_window_create
    <2>3. h \in Handles /\ ~tree[h].used  BY <2>1, <2>2, LowestIn DEF Lowest
    <2>4. DOMAIN tree' = Handles /\ \A k \in Handles : tree'[k] = IF k = h THEN [used |-> TRUE, parent |-> p, child |-> c] ELSE tree[k]
      BY <2>2 DEF EnumInv
    <2>5. \A k \in owed : k # h  BY <2>3 DEF EnumInv
    <2> QED BY <2>2, <2>4, <2>5 DEF EnumInv
  <1>2. ASSUME NEW h \in Handles, DestroyWindow(h) PROVE EnumInv' /\ enum'.on = enum.on
    <2>1. /\ DOMAIN tree' = Handles /\ \A k \in Handles : tree'[k] = IF k = h THEN VacantSlot ELSE tree[k]
          /\ owed' = owed \ {h} /\ enum' = enum
      BY <1>2 DEF DestroyWindow, EnumInv
    <2>2. \A k \in Handles : DOMAIN tree'[k] = {"used", "parent", "child"} /\ tree'[k].used \in BOOLEAN
      BY <2>1, VacantShape DEF EnumInv
    <2> QED BY <2>1, <2>2 DEF EnumInv
  <1>3. ASSUME NEW h \in Handles, NEW p \in Handles \cup {NoWindow}, SetParent(h, p) PROVE EnumInv' /\ enum'.on = enum.on
    <2>1. /\ DOMAIN tree' = Handles /\ \A k \in Handles : k # h => tree'[k] = tree[k]
          /\ DOMAIN tree'[h] = DOMAIN tree[h] /\ tree'[h].used = tree[h].used /\ tree'[h].parent = p /\ enum' = enum
      BY <1>3 DEF SetParent, EnumInv
    <2>a. owed' = IF p # enum.parent THEN owed \ {h} ELSE owed  BY <1>3 DEF SetParent
    <2>2. owed' \subseteq owed /\ (p # enum.parent => h \notin owed')  BY <2>a
    <2>3. ASSUME NEW k \in owed' PROVE tree'[k].used /\ tree'[k].parent = enum.parent
      <3>1. k \in owed /\ k \in Handles /\ tree[k].used /\ tree[k].parent = enum.parent  BY <2>2 DEF EnumInv
      <3>2. CASE k = h  BY <3>1, <3>2, <2>1, <2>2
      <3>3. CASE k # h  BY <3>1, <3>3, <2>1
      <3> QED BY <3>2, <3>3
    <2> QED BY <2>1, <2>2, <2>3 DEF EnumInv
  <1>4. ASSUME NEW p \in Handles, EnumStart(p) PROVE EnumInv' /\ ~enum.on
    <2>1. ~enum.on /\ enum' = [on |-> TRUE, parent |-> p, next |-> 1] /\ owed' = Children(p) /\ tree' = tree  BY <1>4 DEF EnumStart
    <2>2. \A h \in owed' : h \in Handles /\ tree[h].used /\ tree[h].parent = p /\ h >= 1
      BY <2>1, TreeAssumption DEF Children, Handles
    <2> QED BY <2>1, <2>2 DEF EnumInv
  <1>5. ASSUME EnumChildWindows PROVE EnumInv' /\ (~enum'.on => owed = {})
    <2>1. PICK S : S = {k \in Children(enum.parent) : k >= enum.next}  OBVIOUS
    <2>2. S \subseteq Handles /\ owed \subseteq S  BY <2>1 DEF EnumInv, Children
    <2>3. CASE S = {}
      <3>1. enum' = NoEnum /\ owed' = {} /\ tree' = tree  BY <1>5, <2>1, <2>3 DEF EnumChildWindows, Lowest
      <3> QED BY <2>2, <2>3, <3>1 DEF EnumInv, NoEnum
    <2>4. CASE S # {}
      <3>1. PICK h : h = Lowest(S)  OBVIOUS
      <3>2. h \in S /\ \A k \in S : h <= k  BY <2>2, <2>4, <3>1, LowestIn
      <3>3. h \in Handles /\ h # NoWindow  BY <1>0, <2>2, <3>2
      <3>4. enum' = [enum EXCEPT !.next = h + 1] /\ owed' = owed \ {h} /\ tree' = tree  BY <1>5, <2>1, <3>1, <3>3 DEF EnumChildWindows
      <3>5. enum'.on = enum.on /\ enum'.parent = enum.parent /\ enum'.next = h + 1 /\ enum' \in [on : BOOLEAN, parent : Handles \cup {NoWindow}, next : Nat]
        BY <1>0, <3>3, <3>4 DEF EnumInv
      <3>6. \A k \in owed' : k >= h + 1  BY <1>0, <2>2, <3>2, <3>4
      <3> QED BY <1>5, <3>4, <3>5, <3>6 DEF EnumInv, EnumChildWindows
    <2> QED BY <2>3, <2>4
  <1> QED BY <1>1, <1>2, <1>3, <1>4, <1>5 DEF TreeOps

\* For any number of windows and any call-back: an EnumChildWindows that runs to its end has told
\* every window that was a child from its beginning to its end.
THEOREM EnumerationComplete == TreeSpec => EnumReportsAll
  <1>1. TreeInit => EnumInv
    <2> SUFFICES ASSUME TreeInit PROVE EnumInv  OBVIOUS
    <2>1. DOMAIN tree = Handles /\ \A h \in Handles : tree[h] = VacantSlot
      BY DEF TreeInit
    <2>2. enum = [on |-> FALSE, parent |-> NoWindow, next |-> 1] /\ owed = {}  BY DEF TreeInit, NoEnum
    <2>3. enum \in [on : BOOLEAN, parent : Handles \cup {NoWindow}, next : Nat]  BY <2>2
    <2> QED BY <2>1, <2>2, <2>3, VacantShape DEF EnumInv
  <1>2. EnumInv /\ [TreeOps]_treeVars => EnumInv'
    <2>1. EnumInv /\ UNCHANGED treeVars => EnumInv'  BY DEF EnumInv, treeVars
    <2> QED BY <2>1, EnumStep
  <1>3. EnumInv /\ [TreeOps]_treeVars => [enum.on /\ ~enum'.on => owed = {}]_treeVars
    BY EnumStep
  <1> QED BY <1>1, <1>2, <1>3, PTL DEF TreeSpec, EnumReportsAll

-----------------------------------------------------------------------------
(* Tables of keys and values.  TabInv ties a table t to the answers f it      *)
(* should give for the keys K: no key has two slots.                          *)
TabInv(t, f, K) ==
    /\ DOMAIN t = Entries /\ DOMAIN f = K
    /\ \A i \in Entries : DOMAIN t[i] = {"used", "key", "val"} /\ t[i].used \in BOOLEAN
    /\ \A i \in Entries : t[i].used => t[i].key \in K /\ t[i].val = f[t[i].key] /\ t[i].val # 0
    /\ \A i, j \in Entries : t[i].used /\ t[j].used /\ t[i].key = t[j].key => i = j
    /\ \A k \in K : f[k] # 0 => \E i \in Entries : t[i].used /\ t[i].key = k

LEMMA EntriesNat == Entries \subseteq Nat /\ 0 \notin Entries
  BY DataAssumption DEF Entries
LEMMA FirstInIn == ASSUME NEW S, S \subseteq Nat, S # {} PROVE FirstIn(S) \in S
  <1>1. \E i \in S : \A j \in S : i <= j  BY LeastNat
  <1>2. FirstIn(S) = CHOOSE i \in S : \A j \in S : i <= j  BY DEF FirstIn
  <1> QED BY <1>1, <1>2
LEMMA UnusedIs == ASSUME NEW t PROVE Unused(t) = 0 \/ (Unused(t) \in Entries /\ ~t[Unused(t)].used)
  <1>1. PICK S : S = {i \in Entries : ~t[i].used}  OBVIOUS
  <1>2. Unused(t) = FirstIn(S)  BY <1>1 DEF Unused
  <1>3. CASE S = {}  BY <1>2, <1>3 DEF FirstIn
  <1>4. CASE S # {}  BY <1>1, <1>2, <1>4, EntriesNat, FirstInIn
  <1> QED BY <1>3, <1>4
LEMMA HoldingIs == ASSUME NEW t, NEW f, NEW K, TabInv(t, f, K), NEW k \in K
    PROVE \/ Holding(t, k) = 0 /\ f[k] = 0
          \/ /\ Holding(t, k) \in Entries /\ Holding(t, k) # 0 /\ f[k] # 0
             /\ t[Holding(t, k)].used /\ t[Holding(t, k)].key = k /\ t[Holding(t, k)].val = f[k]
  <1>1. PICK S : S = {i \in Entries : t[i].used /\ t[i].key = k}  OBVIOUS
  <1>2. Holding(t, k) = FirstIn(S)  BY <1>1 DEF Holding
  <1>3. CASE S = {}  BY <1>1, <1>2, <1>3 DEF FirstIn, TabInv
  <1>4. CASE S # {}
    <2>1. Holding(t, k) \in S  BY <1>1, <1>2, <1>4, EntriesNat, FirstInIn
    <2>2. PICK x : x = Holding(t, k)  OBVIOUS
    <2>3. x \in Entries /\ t[x].used /\ t[x].key = k  BY <1>1, <2>1, <2>2
    <2>4. x # 0 /\ t[x].val = f[k] /\ t[x].val # 0  BY <2>3, EntriesNat DEF TabInv
    <2> QED BY <2>2, <2>3, <2>4
  <1> QED BY <1>3, <1>4
LEMMA PutEntry == ASSUME NEW t, NEW f, NEW K, TabInv(t, f, K), NEW i \in Entries, NEW k \in K, NEW v, v # 0,
                         (t[i].used /\ t[i].key = k) \/ (~t[i].used /\ f[k] = 0)
    PROVE TabInv([t EXCEPT ![i] = Entry(k, v)], [f EXCEPT ![k] = v], K)
  <1>1. PICK u : u = [t EXCEPT ![i] = Entry(k, v)]  OBVIOUS
  <1>2. PICK g : g = [f EXCEPT ![k] = v]  OBVIOUS
  <1>3. DOMAIN u = Entries /\ DOMAIN g = K  BY <1>1, <1>2 DEF TabInv
  <1>4. u[i].used /\ u[i].used = TRUE /\ u[i].key = k /\ u[i].val = v /\ DOMAIN u[i] = {"used", "key", "val"}  BY <1>1 DEF TabInv, Entry
  <1>5. \A j \in Entries : j # i => u[j] = t[j]  BY <1>1 DEF TabInv
  <1>6. \A l \in K : g[l] = IF l = k THEN v ELSE f[l]  BY <1>2 DEF TabInv
  <1>7. \A j \in Entries : j # i /\ t[j].used => t[j].key # k  BY DEF TabInv
  <1>8. ASSUME NEW j \in Entries PROVE DOMAIN u[j] = {"used", "key", "val"} /\ u[j].used \in BOOLEAN
    <2>1. CASE j = i  BY <1>4, <2>1
    <2>2. CASE j # i
      <3>1. u[j] = t[j]  BY <1>5, <2>2
      <3> QED BY <3>1 DEF TabInv
    <2> QED BY <2>1, <2>2
  <1>9. \A j \in Entries : u[j].used => u[j].key \in K /\ u[j].val = g[u[j].key] /\ u[j].val # 0  BY <1>4, <1>5, <1>6, <1>7 DEF TabInv
  <1>10. \A a, b \in Entries : u[a].used /\ u[b].used /\ u[a].key = u[b].key => a = b  BY <1>4, <1>5, <1>7 DEF TabInv
  <1>11. ASSUME NEW l \in K, g[l] # 0 PROVE \E j \in Entries : u[j].used /\ u[j].key = l
    <2>1. CASE l = k  BY <1>4, <2>1
    <2>2. CASE l # k
      <3>1. PICK j \in Entries : t[j].used /\ t[j].key = l  BY <1>6, <1>11, <2>2 DEF TabInv
      <3>2. j # i  BY <2>2, <3>1
      <3> QED BY <1>5, <3>1, <3>2
    <2> QED BY <2>1, <2>2
  <1>12. TabInv(u, g, K)  BY <1>3, <1>8, <1>9, <1>10, <1>11 DEF TabInv
  <1> QED BY <1>1, <1>2, <1>12
LEMMA DropEntry == ASSUME NEW t, NEW f, NEW K, TabInv(t, f, K), NEW i \in Entries, NEW k \in K, t[i].used, t[i].key = k
    PROVE TabInv([t EXCEPT ![i].used = FALSE], [f EXCEPT ![k] = 0], K)
  <1>1. PICK u : u = [t EXCEPT ![i].used = FALSE]  OBVIOUS
  <1>2. PICK g : g = [f EXCEPT ![k] = 0]  OBVIOUS
  <1>3. DOMAIN u = Entries /\ DOMAIN g = K  BY <1>1, <1>2 DEF TabInv
  <1>4. u[i].used = FALSE /\ DOMAIN u[i] = {"used", "key", "val"}  BY <1>1 DEF TabInv
  <1>5. \A j \in Entries : j # i => u[j] = t[j]  BY <1>1 DEF TabInv
  <1>6. \A l \in K : g[l] = IF l = k THEN 0 ELSE f[l]  BY <1>2 DEF TabInv
  <1>7. \A j \in Entries : j # i /\ t[j].used => t[j].key # k  BY DEF TabInv
  <1>8. ASSUME NEW j \in Entries PROVE DOMAIN u[j] = {"used", "key", "val"} /\ u[j].used \in BOOLEAN
    <2>1. CASE j = i  BY <1>4, <2>1
    <2>2. CASE j # i
      <3>1. u[j] = t[j]  BY <1>5, <2>2
      <3> QED BY <3>1 DEF TabInv
    <2> QED BY <2>1, <2>2
  <1>9. \A j \in Entries : u[j].used => u[j].key \in K /\ u[j].val = g[u[j].key] /\ u[j].val # 0  BY <1>4, <1>5, <1>6, <1>7 DEF TabInv
  <1>10. \A a, b \in Entries : u[a].used /\ u[b].used /\ u[a].key = u[b].key => a = b  BY <1>4, <1>5, <1>7 DEF TabInv
  <1>11. ASSUME NEW l \in K, g[l] # 0 PROVE \E j \in Entries : u[j].used /\ u[j].key = l
    <2>1. l # k /\ f[l] # 0  BY <1>6, <1>11
    <2>2. PICK j \in Entries : t[j].used /\ t[j].key = l  BY <2>1 DEF TabInv
    <2>3. j # i  BY <2>1, <2>2
    <2> QED BY <1>5, <2>2, <2>3
  <1>12. TabInv(u, g, K)  BY <1>3, <1>8, <1>9, <1>10, <1>11 DEF TabInv
  <1> QED BY <1>1, <1>2, <1>12

\* The clipboard: no format twice.
ClipInv(c, f) ==
    /\ c \in Seq([fmt : DataKeys, handle : DataVals]) /\ DOMAIN f = DataKeys
    /\ \A i \in DOMAIN c : f[c[i].fmt] = c[i].handle
    /\ \A i, j \in DOMAIN c : c[i].fmt = c[j].fmt => i = j
    /\ \A k \in DataKeys : f[k] # 0 => \E i \in DOMAIN c : c[i].fmt = k
ScrollInv == scroll \in [min : Int, max : Int, page : Int, pos : Int] /\ ScrollInRange
DataInv == /\ DOMAIN want = {"prop", "clip", "class"}
           /\ TabInv(prop, want.prop, Owners \X DataKeys)
           /\ TabInv(class, want.class, DataKeys)
           /\ ClipInv(clipb, want.clip)
           /\ ScrollInv

LEMMA ClipElems == ASSUME NEW c, NEW f, ClipInv(c, f)
    PROVE /\ Len(c) \in Nat /\ DOMAIN c = 1..Len(c)
          /\ \A i \in DOMAIN c : c[i] \in [fmt : DataKeys, handle : DataVals] /\ c[i].fmt \in DataKeys /\ c[i].handle \in DataVals /\ c[i].handle # 0
  <1>1. c \in Seq([fmt : DataKeys, handle : DataVals])  BY DEF ClipInv
  <1>2. Len(c) \in Nat /\ DOMAIN c = 1..Len(c)  BY <1>1, LenProperties
  <1>3. \A i \in 1..Len(c) : c[i] \in [fmt : DataKeys, handle : DataVals]  BY <1>1, ElementOfSeq
  <1> QED BY <1>2, <1>3, DataAssumption
LEMMA ClipAtIs == ASSUME ClipInv(clipb, want.clip), NEW k \in DataKeys
    PROVE \/ ClipAt(k) = 0 /\ want.clip[k] = 0 /\ \A i \in DOMAIN clipb : clipb[i].fmt # k
          \/ ClipAt(k) \in DOMAIN clipb /\ ClipAt(k) # 0 /\ clipb[ClipAt(k)].fmt = k /\ want.clip[k] = clipb[ClipAt(k)].handle /\ want.clip[k] # 0
  <1>1. PICK S : S = {i \in DOMAIN clipb : clipb[i].fmt = k}  OBVIOUS
  <1>2. ClipAt(k) = FirstIn(S)  BY <1>1 DEF ClipAt
  <1>0. DOMAIN clipb \subseteq Nat /\ 0 \notin DOMAIN clipb /\ \A i \in DOMAIN clipb : clipb[i].handle # 0
    BY ClipElems
  <1>3. CASE S = {}  BY <1>1, <1>2, <1>3 DEF FirstIn, ClipInv
  <1>4. CASE S # {}
    <2>1. ClipAt(k) \in S  BY <1>0, <1>1, <1>2, <1>4, FirstInIn
    <2> QED BY <1>0, <1>1, <2>1 DEF ClipInv
  <1> QED BY <1>3, <1>4
LEMMA ClipSet == ASSUME ClipInv(clipb, want.clip), NEW k \in DataKeys, NEW h \in DataVals
    PROVE /\ ClipAt(k) # 0 => ClipInv([clipb EXCEPT ![ClipAt(k)].handle = h], [want.clip EXCEPT ![k] = h])
          /\ ClipAt(k) = 0 => ClipInv(Append(clipb, [fmt |-> k, handle |-> h]), [want.clip EXCEPT ![k] = h])
  <1>0. PICK g : g = [want.clip EXCEPT ![k] = h]  OBVIOUS
  <1>1. DOMAIN g = DataKeys /\ \A l \in DataKeys : g[l] = IF l = k THEN h ELSE want.clip[l]  BY <1>0 DEF ClipInv
  <1>2. ASSUME ClipAt(k) # 0 PROVE ClipInv([clipb EXCEPT ![ClipAt(k)].handle = h], g)
    <2>1. PICK a : a = ClipAt(k)  OBVIOUS
    <2>2. a \in DOMAIN clipb /\ clipb[a].fmt = k  BY <1>2, <2>1, ClipAtIs
    <2>3. PICK c : c = [clipb EXCEPT ![a].handle = h]  OBVIOUS
    <2>a. PICK e : e = [clipb[a] EXCEPT !.handle = h]  OBVIOUS
    <2>b. e \in [fmt : DataKeys, handle : DataVals] /\ e.fmt = k /\ e.handle = h  BY <2>2, <2>a, ClipElems
    <2>c. c = [clipb EXCEPT ![a] = e]  BY <2>3, <2>a
    <2>4. c \in Seq([fmt : DataKeys, handle : DataVals]) /\ DOMAIN c = DOMAIN clipb
      <3>1. a \in 1..Len(clipb) /\ clipb \in Seq([fmt : DataKeys, handle : DataVals])  BY <2>2, ClipElems DEF ClipInv
      <3> QED BY <2>b, <2>c, <3>1, ExceptSeq
    <2>5. c[a].fmt = k /\ c[a].handle = h /\ \A i \in DOMAIN clipb : i # a => c[i] = clipb[i]
      BY <2>2, <2>b, <2>c
    <2>6. \A i \in DOMAIN clipb : c[i].fmt = clipb[i].fmt  BY <2>2, <2>5
    <2>7. \A i \in DOMAIN clipb : clipb[i].fmt \in DataKeys /\ (i # a => clipb[i].fmt # k)  BY <2>2, ClipElems DEF ClipInv
    <2>8. \A i \in DOMAIN c : g[c[i].fmt] = c[i].handle  BY <1>1, <2>4, <2>5, <2>6, <2>7 DEF ClipInv
    <2>9. \A l \in DataKeys : g[l] # 0 => \E i \in DOMAIN c : c[i].fmt = l  BY <1>1, <2>2, <2>4, <2>6 DEF ClipInv
    <2> QED BY <1>1, <2>1, <2>3, <2>4, <2>6, <2>8, <2>9 DEF ClipInv
  <1>3. ASSUME ClipAt(k) = 0 PROVE ClipInv(Append(clipb, [fmt |-> k, handle |-> h]), g)
    <2>1. \A i \in DOMAIN clipb : clipb[i].fmt # k  BY <1>3, ClipAtIs
    <2>2. PICK n : n = Len(clipb) + 1  OBVIOUS
    <2>3. PICK c : c = Append(clipb, [fmt |-> k, handle |-> h])  OBVIOUS
    <2>4. /\ c \in Seq([fmt : DataKeys, handle : DataVals]) /\ DOMAIN c = DOMAIN clipb \cup {n} /\ n \notin DOMAIN clipb
          /\ c[n].fmt = k /\ c[n].handle = h /\ \A i \in DOMAIN clipb : c[i] = clipb[i]
      BY <2>2, <2>3 DEF ClipInv
    <2>5. \A i \in DOMAIN clipb : clipb[i].fmt \in DataKeys  BY ClipElems
    <2>6. \A i \in DOMAIN c : g[c[i].fmt] = c[i].handle  BY <1>1, <2>1, <2>4, <2>5 DEF ClipInv
    <2>7. \A i, j \in DOMAIN c : c[i].fmt = c[j].fmt => i = j  BY <2>1, <2>4 DEF ClipInv
    <2>8. \A l \in DataKeys : g[l] # 0 => \E i \in DOMAIN c : c[i].fmt = l  BY <1>1, <2>4 DEF ClipInv
    <2> QED BY <1>1, <2>3, <2>4, <2>6, <2>7, <2>8 DEF ClipInv
  <1> QED BY <1>0, <1>2, <1>3
LEMMA ClampSound == ASSUME NEW s \in [min : Int, max : Int, page : Int, pos : Int], NEW p \in BOOLEAN, scroll' = u32_sb_clamp(s, p)
    PROVE ScrollInv'
  BY DEF u32_sb_clamp, ScrollInv, ScrollInRange
LEMMA PropStep == ASSUME DataInv, PropOps PROVE DataInv'
  <1>0. PICK w \in Owners, k \in DataKeys : u32_rm_prop(w, k) \/ \E v \in DataVals : u32_set_prop(w, k, v)  BY DEF PropOps
  <1>a. PICK K : K = Owners \X DataKeys  OBVIOUS
  <1>b. PICK q : q = <<w, k>>  OBVIOUS
  <1>c. q \in K /\ TabInv(prop, want.prop, K) /\ DOMAIN want = {"prop", "clip", "class"}  BY <1>a, <1>b DEF DataInv
  <1>d. PICK x : x = u32_prop_find(w, k)  OBVIOUS
  <1>e. \/ x = 0 /\ want.prop[q] = 0
        \/ x \in Entries /\ x # 0 /\ prop[x].used /\ prop[x].key = q
    BY <1>b, <1>c, <1>d, HoldingIs DEF u32_prop_find
  <1>f. ASSUME NEW f, TabInv(prop', f, K), want' = [want EXCEPT !.prop = f], UNCHANGED <<clipb, class, scroll>> PROVE DataInv'
    BY <1>a, <1>c, <1>f DEF DataInv, ScrollInv, ScrollInRange
  <1>1. CASE u32_rm_prop(w, k)
    <2>1. /\ x # 0 /\ prop' = [prop EXCEPT ![x].used = FALSE]
          /\ want' = [want EXCEPT !.prop = [want.prop EXCEPT ![q] = 0]] /\ UNCHANGED <<clipb, class, scroll>>
      BY <1>1, <1>b, <1>d DEF u32_rm_prop
    <2> QED BY <1>c, <1>e, <1>f, <2>1, DropEntry
  <1>2. ASSUME NEW v \in DataVals, u32_set_prop(w, k, v) PROVE DataInv'
    <2>1. PICK i : i = IF x # 0 THEN x ELSE Unused(prop)  OBVIOUS
    <2>2. i = 0 \/ (i \in Entries /\ ((prop[i].used /\ prop[i].key = q) \/ (~prop[i].used /\ want.prop[q] = 0)))
      BY <1>e, <2>1, UnusedIs
    <2>3. CASE i = 0
      BY <1>2, <1>d, <2>1, <2>3 DEF u32_set_prop, DataInv, ScrollInv, ScrollInRange
    <2>4. CASE i # 0
      <3>1. /\ prop' = [prop EXCEPT ![i] = Entry(q, v)]
            /\ want' = [want EXCEPT !.prop = [want.prop EXCEPT ![q] = v]] /\ UNCHANGED <<clipb, class, scroll>>
        BY <1>2, <1>b, <1>d, <2>1, <2>4 DEF u32_set_prop
      <3>2. v # 0  BY DataAssumption
      <3> QED BY <1>c, <1>f, <2>2, <2>4, <3>1, <3>2, PutEntry
    <2> QED BY <2>3, <2>4
  <1> QED BY <1>0, <1>1, <1>2
LEMMA ClassStep == ASSUME DataInv, ClassOps PROVE DataInv'
  <1>0. PICK k \in DataKeys : UnregisterClassW(k) \/ \E v \in DataVals : want.class[k] = 0 /\ RegisterClassW(k, v)  BY DEF ClassOps
  <1>c. TabInv(class, want.class, DataKeys) /\ DOMAIN want = {"prop", "clip", "class"}  BY DEF DataInv
  <1>f. ASSUME NEW f, TabInv(class', f, DataKeys), want' = [want EXCEPT !.class = f], UNCHANGED <<clipb, prop, scroll>> PROVE DataInv'
    BY <1>c, <1>f DEF DataInv, ScrollInv, ScrollInRange
  <1>1. CASE UnregisterClassW(k)
    <2>1. PICK x : x = u32_class_index(k)  OBVIOUS
    <2>2. x # 0 => x \in Entries /\ class[x].used /\ class[x].key = k  BY <1>c, <2>1, HoldingIs DEF u32_class_index
    <2>3. /\ x # 0 /\ class' = [class EXCEPT ![x].used = FALSE]
          /\ want' = [want EXCEPT !.class = [want.class EXCEPT ![k] = 0]] /\ UNCHANGED <<clipb, prop, scroll>>
      BY <1>1, <2>1 DEF UnregisterClassW
    <2> QED BY <1>c, <1>f, <2>2, <2>3, DropEntry
  <1>2. ASSUME NEW v \in DataVals, want.class[k] = 0, RegisterClassW(k, v) PROVE DataInv'
    <2>1. PICK i : i = Unused(class)  OBVIOUS
    <2>2. i = 0 \/ (i \in Entries /\ ~class[i].used)  BY <2>1, UnusedIs
    <2>3. CASE i = 0
      BY <1>2, <2>1, <2>3 DEF RegisterClassW, u32_class_register, DataInv, ScrollInv, ScrollInRange
    <2>4. CASE i # 0
      <3>1. /\ class' = [class EXCEPT ![i] = Entry(k, v)]
            /\ want' = [want EXCEPT !.class = [want.class EXCEPT ![k] = v]] /\ UNCHANGED <<clipb, prop, scroll>>
        BY <1>2, <2>1, <2>4 DEF RegisterClassW, u32_class_register
      <3>2. v # 0  BY DataAssumption
      <3> QED BY <1>2, <1>c, <1>f, <2>2, <2>4, <3>1, <3>2, PutEntry
    <2> QED BY <2>3, <2>4
  <1> QED BY <1>0, <1>1, <1>2
LEMMA ClipStep == ASSUME DataInv, ClipOps3 PROVE DataInv'
  <1>c. ClipInv(clipb, want.clip) /\ DOMAIN want = {"prop", "clip", "class"}  BY DEF DataInv
  <1>f. ASSUME NEW f, ClipInv(clipb', f), want' = [want EXCEPT !.clip = f], UNCHANGED <<class, prop, scroll>> PROVE DataInv'
    BY <1>c, <1>f DEF DataInv, ScrollInv, ScrollInRange
  <1>1. CASE EmptyClipboard
    <2>1. PICK f : f = [k \in DataKeys |-> 0]  OBVIOUS
    <2>2. clipb' = <<>> /\ want' = [want EXCEPT !.clip = f] /\ UNCHANGED <<class, prop, scroll>>  BY <1>1, <2>1 DEF EmptyClipboard
    <2>3. ClipInv(<<>>, f)  BY <2>1 DEF ClipInv
    <2> QED BY <1>f, <2>2, <2>3
  <1>2. ASSUME NEW k \in DataKeys, NEW h \in DataVals, SetClipboardData(k, h) PROVE DataInv'
    <2>1. PICK i : i = ClipAt(k)  OBVIOUS
    <2>2. /\ clipb' = IF i # 0 THEN [clipb EXCEPT ![i].handle = h]
                      ELSE IF Len(clipb) < DataMax THEN Append(clipb, [fmt |-> k, handle |-> h]) ELSE clipb
          /\ want' = [want EXCEPT !.clip = [want.clip EXCEPT ![k] = IF i # 0 \/ Len(clipb) < DataMax THEN h ELSE @]]
          /\ UNCHANGED <<class, prop, scroll>>
      BY <1>2, <2>1 DEF SetClipboardData
    <2>3. CASE i # 0
      <3>1. clipb' = [clipb EXCEPT ![i].handle = h] /\ want' = [want EXCEPT !.clip = [want.clip EXCEPT ![k] = h]]  BY <2>2, <2>3
      <3>2. ClipInv(clipb', [want.clip EXCEPT ![k] = h])  BY <1>c, <2>1, <2>3, <3>1, ClipSet
      <3> QED BY <1>f, <2>2, <3>1, <3>2
    <2>4. CASE i = 0 /\ Len(clipb) < DataMax
      <3>1. clipb' = Append(clipb, [fmt |-> k, handle |-> h]) /\ want' = [want EXCEPT !.clip = [want.clip EXCEPT ![k] = h]]  BY <2>2, <2>4
      <3>2. ClipInv(clipb', [want.clip EXCEPT ![k] = h])  BY <1>c, <2>1, <2>4, <3>1, ClipSet
      <3> QED BY <1>f, <2>2, <3>1, <3>2
    <2>5. CASE i = 0 /\ ~(Len(clipb) < DataMax)
      <3>1. clipb' = clipb /\ want' = [want EXCEPT !.clip = [want.clip EXCEPT ![k] = @]]  BY <2>2, <2>5
      <3>2. PICK f : f = [want.clip EXCEPT ![k] = @]  OBVIOUS
      <3>3. DOMAIN f = DataKeys /\ \A l \in DataKeys : f[l] = want.clip[l]  BY <1>c, <3>2 DEF ClipInv
      <3>4. \A j \in DOMAIN clipb : clipb[j].fmt \in DataKeys  BY <1>c, ClipElems
      <3>5. ClipInv(clipb, f)  BY <1>c, <3>3, <3>4 DEF ClipInv
      <3> QED BY <1>f, <2>2, <3>1, <3>2, <3>5
    <2> QED BY <2>3, <2>4, <2>5
  <1> QED BY <1>1, <1>2 DEF ClipOps3
LEMMA ScrollStep == ASSUME DataInv, ScrollOps PROVE DataInv'
  <1>0. ASSUME ScrollInv', UNCHANGED <<prop, clipb, class, want>> PROVE DataInv'
    BY <1>0 DEF DataInv
  <1>a. scroll \in [min : Int, max : Int, page : Int, pos : Int]  BY DEF DataInv, ScrollInv
  <1>b. Ends \subseteq Int  BY DataAssumption
  <1>1. ASSUME NEW p \in Ends, SetScrollPos(p) PROVE DataInv'
    <2>1. [scroll EXCEPT !.pos = p] \in [min : Int, max : Int, page : Int, pos : Int]  BY <1>a, <1>b
    <2> QED BY <1>0, <1>1, <2>1, ClampSound DEF SetScrollPos, SetScroll
  <1>2. ASSUME NEW lo \in Ends, NEW hi \in Ends, SetScrollRange(lo, hi) PROVE DataInv'
    <2>1. [scroll EXCEPT !.min = lo, !.max = hi] \in [min : Int, max : Int, page : Int, pos : Int]  BY <1>a, <1>b
    <2> QED BY <1>0, <1>2, <2>1, ClampSound DEF SetScrollRange, SetScroll
  <1>3. ASSUME NEW mask, NEW lo \in Ends, NEW hi \in Ends, NEW p \in Ends, NEW page \in 0..2, SetScrollInfo(mask, lo, hi, page, p) PROVE DataInv'
    <2>1. PICK s : s = [min |-> IF "RANGE" \in mask THEN lo ELSE scroll.min, max |-> IF "RANGE" \in mask THEN hi ELSE scroll.max,
                        page |-> IF "PAGE" \in mask THEN page ELSE scroll.page, pos |-> IF "POS" \in mask THEN p ELSE scroll.pos]  OBVIOUS
    <2>2. s \in [min : Int, max : Int, page : Int, pos : Int]  BY <1>a, <1>b, <2>1
    <2> QED BY <1>0, <1>3, <2>1, <2>2, ClampSound DEF SetScrollInfo, SetScroll
  <1> QED BY <1>1, <1>2, <1>3 DEF ScrollOps
LEMMA DataStart == DataInit => DataInv
  <1> SUFFICES ASSUME DataInit PROVE DataInv  OBVIOUS
  <1>1. \A K : TabInv([i \in Entries |-> NoEntry], [k \in K |-> 0], K)  BY DEF TabInv, NoEntry
  <1>2. prop = [i \in Entries |-> NoEntry] /\ class = [i \in Entries |-> NoEntry] /\ clipb = <<>>
        /\ want = [prop |-> [p \in Owners \X DataKeys |-> 0], clip |-> [k \in DataKeys |-> 0], class |-> [k \in DataKeys |-> 0]]
    BY DEF DataInit
  <1>3. ClipInv(<<>>, [k \in DataKeys |-> 0])  BY DEF ClipInv
  <1>4. ScrollInv  BY DEF DataInit, ScrollInv, ScrollInRange
  <1> QED BY <1>1, <1>2, <1>3, <1>4 DEF DataInv
LEMMA DataStep == ASSUME DataInv, DataNext PROVE DataInv'
  <1>1. ASSUME NEW k, RegisterWindowMessageA(k) PROVE DataInv'
    BY <1>1 DEF RegisterWindowMessageA, u32_reg_win_msg, DataInv, ScrollInv, ScrollInRange
  <1> QED BY <1>1, PropStep, ClassStep, ClipStep, ScrollStep DEF DataNext
LEMMA DataReads == ASSUME DataInv PROVE PropsReadBack /\ ClassReadBack /\ ClipReadBack /\ ScrollInRange
  <1>1. ASSUME NEW w \in Owners, NEW k \in DataKeys PROVE u32_get_prop(w, k) = want.prop[<<w, k>>]
    <2>1. TabInv(prop, want.prop, Owners \X DataKeys) /\ <<w, k>> \in Owners \X DataKeys  BY DEF DataInv
    <2> QED BY <2>1, HoldingIs DEF u32_get_prop, u32_prop_find
  <1>2. ASSUME NEW k \in DataKeys PROVE u32_get_class_info(k) = want.class[k]
    <2>1. TabInv(class, want.class, DataKeys)  BY DEF DataInv
    <2> QED BY <2>1, HoldingIs DEF u32_get_class_info, u32_class_index
  <1>3. ASSUME NEW k \in DataKeys PROVE GetClipboardData(k) = want.clip[k] /\ (IsClipboardFormatAvailable(k) <=> want.clip[k] # 0)
    <2>1. ClipInv(clipb, want.clip)  BY DEF DataInv
    <2> QED BY <2>1, ClipAtIs DEF GetClipboardData, IsClipboardFormatAvailable
  <1>4. ScrollInRange  BY DEF DataInv, ScrollInv
  <1> QED BY <1>1, <1>2, <1>3, <1>4 DEF PropsReadBack, ClassReadBack, ClipReadBack

-----------------------------------------------------------------------------
(* Atoms: every slot in use and every name held belong to each other.         *)
Folds == {AtomFolded(Cut(s)) : s \in AtomNames}
Linked(t, i, f) ==
    /\ held[t][f].n > 0 /\ atoms[t][i].refs = held[t][f].n
    /\ held[t][f].atom = AtomBase + i /\ held[t][f].name = atoms[t][i].name
    /\ AtomFolded(atoms[t][i].name) = f /\ atoms[t][i].name # <<>> /\ Len(atoms[t][i].name) <= NameRoom
AtomInv ==
    /\ DOMAIN atoms = AtomTables /\ DOMAIN held = AtomTables
    /\ \A t \in AtomTables : DOMAIN atoms[t] = AtomSlots /\ DOMAIN held[t] = Folds
    /\ \A t \in AtomTables, i \in AtomSlots : DOMAIN atoms[t][i] = {"name", "refs"} /\ atoms[t][i].refs \in Nat
    /\ \A t \in AtomTables, f \in Folds : DOMAIN held[t][f] = {"n", "atom", "name"} /\ held[t][f].n \in Nat
    /\ \A t \in AtomTables, f \in Folds : held[t][f].n = 0 => held[t][f].atom = NoAtom
    /\ \A t \in AtomTables, f \in Folds : held[t][f].n > 0 => \E i \in AtomSlots : Linked(t, i, f)
    /\ \A t \in AtomTables, i \in AtomSlots : atoms[t][i].refs > 0 => \E f \in Folds : Linked(t, i, f)

LEMMA SlotsNat == AtomSlots \subseteq Nat
  BY AtomAssumption DEF AtomSlots
LEMMA CutIs == ASSUME NEW s \in AtomNames
    PROVE /\ Cut(s) \in Seq(AtomLetters) /\ Len(Cut(s)) <= NameRoom /\ Cut(Cut(s)) = Cut(s)
          /\ (s # <<>> <=> Cut(s) # <<>>) /\ (Len(s) <= NameRoom => Cut(s) = s)
  <1>1. s \in Seq(AtomLetters) /\ NameRoom \in Nat /\ NameRoom >= 1  BY AtomAssumption
  <1>2. Len(s) \in Nat  BY <1>1
  <1>3. CASE Len(s) <= NameRoom
    <2>1. Cut(s) = s  BY <1>1, <1>2, <1>3 DEF Cut
    <2> QED BY <1>1, <1>3, <2>1
  <1>4. CASE Len(s) > NameRoom
    <2>1. Cut(s) = SubSeq(s, 1, NameRoom)  BY <1>4 DEF Cut
    <2>2. SubSeq(s, 1, NameRoom) \in Seq(AtomLetters) /\ Len(SubSeq(s, 1, NameRoom)) = NameRoom
      BY <1>1, <1>2, <1>4, SubSeqProperties
    <2>3. Cut(Cut(s)) = Cut(s)  BY <1>1, <2>1, <2>2 DEF Cut
    <2>4. s # <<>> /\ Cut(s) # <<>>  BY <1>1, <1>4, <2>1, <2>2
    <2> QED BY <1>1, <1>2, <1>4, <2>1, <2>2, <2>3, <2>4
  <1> QED BY <1>1, <1>2, <1>3, <1>4
LEMMA FirstSlotIs == ASSUME NEW S, S \subseteq AtomSlots PROVE (S = {} /\ FirstSlot(S) = -1) \/ (FirstSlot(S) \in S /\ FirstSlot(S) >= 0)
  <1>1. CASE S = {}  BY <1>1 DEF FirstSlot
  <1>2. CASE S # {}
    <2>1. \E i \in S : \A j \in S : i <= j  BY <1>2, SlotsNat, LeastNat
    <2>2. FirstSlot(S) = CHOOSE i \in S : \A j \in S : i <= j  BY <1>2 DEF FirstSlot
    <2>3. PICK x : x = FirstSlot(S)  OBVIOUS
    <2>4. x \in S  BY <2>1, <2>2, <2>3
    <2>5. x \in Nat  BY <2>4, SlotsNat
    <2> QED BY <2>3, <2>4, <2>5
  <1> QED BY <1>1, <1>2
\* The search by name finds the slot the held name belongs to, or nothing.
LEMMA SameIs == ASSUME AtomInv, NEW t \in AtomTables, NEW n, AtomFolded(n) \in Folds
    PROVE \/ Same(t, n) = -1 /\ held[t][AtomFolded(n)].n = 0
          \/ Same(t, n) \in AtomSlots /\ Same(t, n) >= 0 /\ Linked(t, Same(t, n), AtomFolded(n))
  <1>1. PICK f \in Folds : f = AtomFolded(n)  OBVIOUS
  <1>2. PICK S : S = {i \in AtomSlots : atoms[t][i].refs > 0 /\ AtomFolded(atoms[t][i].name) = f}  OBVIOUS
  <1>3. Same(t, n) = FirstSlot(S)  BY <1>1, <1>2 DEF Same, u32_atom_ieq
  <1>4. CASE S = {}
    <2>1. held[t][f].n = 0
      <3> SUFFICES ASSUME held[t][f].n > 0 PROVE FALSE  BY DEF AtomInv
      <3>1. PICK i \in AtomSlots : Linked(t, i, f)  BY DEF AtomInv
      <3>2. i \in S  BY <1>2, <3>1 DEF Linked
      <3> QED BY <1>4, <3>2
    <2> QED BY <1>1, <1>2, <1>3, <1>4, <2>1, FirstSlotIs
  <1>5. CASE S # {}
    <2>1. PICK i : i = Same(t, n)  OBVIOUS
    <2>2. i \in S /\ i >= 0  BY <1>2, <1>3, <1>5, <2>1, FirstSlotIs
    <2>3. i \in AtomSlots /\ atoms[t][i].refs > 0 /\ AtomFolded(atoms[t][i].name) = f  BY <1>2, <2>2
    <2>4. PICK g \in Folds : Linked(t, i, g)  BY <2>3 DEF AtomInv
    <2>5. g = f  BY <2>3, <2>4 DEF Linked
    <2> QED BY <1>1, <2>1, <2>2, <2>3, <2>4, <2>5
  <1> QED BY <1>4, <1>5
LEMMA VacantIs == ASSUME NEW t PROVE Vacant(t) = -1 \/ (Vacant(t) \in AtomSlots /\ Vacant(t) >= 0 /\ atoms[t][Vacant(t)].refs = 0)
  <1>1. PICK S : S = {i \in AtomSlots : atoms[t][i].refs = 0}  OBVIOUS
  <1>2. Vacant(t) = FirstSlot(S)  BY <1>1 DEF Vacant
  <1> QED BY <1>1, <1>2, FirstSlotIs
\* A slot belongs to one name and a name to one slot.
LEMMA LinkUnique == ASSUME AtomInv, NEW t \in AtomTables, NEW i \in AtomSlots, NEW j \in AtomSlots, NEW f \in Folds, NEW g \in Folds,
                           Linked(t, i, f), Linked(t, j, g)
    PROVE i = j <=> f = g
  <1>1. i \in Nat /\ j \in Nat  BY SlotsNat
  <1>2. f = g => AtomBase + i = AtomBase + j  BY DEF Linked
  <1>3. i = j => f = g  BY DEF Linked
  <1> QED BY <1>1, <1>2, <1>3 DEF AtomBase
\* One slot and its name change together, and everything else stays.
LEMMA PairKeeps == ASSUME AtomInv, NEW t \in AtomTables, NEW i \in AtomSlots, NEW f \in Folds,
        NEW a, DOMAIN a = {"name", "refs"}, a.refs \in Nat, NEW h, DOMAIN h = {"n", "atom", "name"}, h.n = a.refs,
        h.n = 0 => h.atom = NoAtom,
        h.n > 0 => h.atom = AtomBase + i /\ h.name = a.name /\ AtomFolded(a.name) = f /\ a.name # <<>> /\ Len(a.name) <= NameRoom,
        Linked(t, i, f) \/ (atoms[t][i].refs = 0 /\ held[t][f].n = 0),
        DOMAIN atoms' = AtomTables, DOMAIN held' = AtomTables,
        \A u \in AtomTables : DOMAIN atoms'[u] = AtomSlots /\ DOMAIN held'[u] = Folds,
        \A u \in AtomTables, j \in AtomSlots : atoms'[u][j] = IF u = t /\ j = i THEN a ELSE atoms[u][j],
        \A u \in AtomTables, g \in Folds : held'[u][g] = IF u = t /\ g = f THEN h ELSE held[u][g]
    PROVE AtomInv'
  <1>1. \A u \in AtomTables, j \in AtomSlots, g \in Folds : Linked(u, j, g) => ((u = t /\ j = i) <=> (u = t /\ g = f))
    BY LinkUnique DEF Linked, AtomInv
  <1>2. h.n > 0 => Linked(t, i, f)'
    <2> SUFFICES ASSUME h.n > 0 PROVE Linked(t, i, f)'  OBVIOUS
    <2>1. atoms'[t][i] = a /\ held'[t][f] = h  OBVIOUS
    <2> QED BY <2>1 DEF Linked
  <1>3. ASSUME NEW u \in AtomTables, NEW j \in AtomSlots, NEW g \in Folds, Linked(u, j, g), ~(u = t /\ j = i) PROVE Linked(u, j, g)'
    <2>1. ~(u = t /\ g = f)  BY <1>1, <1>3
    <2>2. atoms'[u][j] = atoms[u][j] /\ held'[u][g] = held[u][g]  BY <1>3, <2>1
    <2> QED BY <1>3, <2>2 DEF Linked
  <1>4. ASSUME NEW u \in AtomTables, NEW g \in Folds PROVE DOMAIN held'[u][g] = {"n", "atom", "name"} /\ held'[u][g].n \in Nat /\ (held'[u][g].n = 0 => held'[u][g].atom = NoAtom)
    <2>1. CASE u = t /\ g = f
      <3>1. held'[u][g] = h  BY <2>1
      <3> QED BY <3>1
    <2>2. CASE ~(u = t /\ g = f)
      <3>1. held'[u][g] = held[u][g]  BY <2>2
      <3> QED BY <3>1 DEF AtomInv
    <2> QED BY <2>1, <2>2
  <1>5. ASSUME NEW u \in AtomTables, NEW j \in AtomSlots PROVE DOMAIN atoms'[u][j] = {"name", "refs"} /\ atoms'[u][j].refs \in Nat
    <2>1. CASE u = t /\ j = i
      <3>1. atoms'[u][j] = a  BY <2>1
      <3> QED BY <3>1
    <2>2. CASE ~(u = t /\ j = i)
      <3>1. atoms'[u][j] = atoms[u][j]  BY <2>2
      <3> QED BY <3>1 DEF AtomInv
    <2> QED BY <2>1, <2>2
  <1>6. ASSUME NEW u \in AtomTables, NEW g \in Folds, held'[u][g].n > 0 PROVE \E j \in AtomSlots : Linked(u, j, g)'
    <2>1. CASE u = t /\ g = f
      <3>1. held'[u][g] = h  BY <2>1
      <3>2. Linked(t, i, f)'  BY <1>2, <1>6, <3>1
      <3> QED BY <2>1, <3>2
    <2>2. CASE ~(u = t /\ g = f)
      <3>1. held'[u][g] = held[u][g]  BY <2>2
      <3>2. PICK j \in AtomSlots : Linked(u, j, g)  BY <1>6, <3>1 DEF AtomInv
      <3>3. ~(u = t /\ j = i)  BY <1>1, <2>2, <3>2
      <3> QED BY <1>3, <3>2, <3>3
    <2> QED BY <2>1, <2>2
  <1>7. ASSUME NEW u \in AtomTables, NEW j \in AtomSlots, atoms'[u][j].refs > 0 PROVE \E g \in Folds : Linked(u, j, g)'
    <2>1. CASE u = t /\ j = i
      <3>1. atoms'[u][j] = a  BY <2>1
      <3>2. Linked(t, i, f)'  BY <1>2, <1>7, <3>1
      <3> QED BY <2>1, <3>2
    <2>2. CASE ~(u = t /\ j = i)
      <3>1. atoms'[u][j] = atoms[u][j]  BY <2>2
      <3>2. PICK g \in Folds : Linked(u, j, g)  BY <1>7, <3>1 DEF AtomInv
      <3> QED BY <1>3, <2>2, <3>2
    <2> QED BY <2>1, <2>2
  <1> QED BY <1>4, <1>5, <1>6, <1>7 DEF AtomInv
LEMMA AddKeeps == ASSUME AtomInv, NEW t \in AtomTables, NEW s \in AtomNames, u32_atom_add(t, Cut(s)) PROVE AtomInv'
  <1>1. PICK n : n = Cut(s)  OBVIOUS
  <1>2. n # <<>> /\ Len(n) <= NameRoom /\ Cut(n) = n  BY <1>1, CutIs DEF u32_atom_add
  <1>3. PICK f \in Folds : f = AtomFolded(n)  BY <1>1 DEF Folds
  <1>4. PICK i : i = Same(t, n)  OBVIOUS
  <1>5. PICK j : j = Vacant(t)  OBVIOUS
  <1>6. (i = -1 /\ held[t][f].n = 0) \/ (i \in AtomSlots /\ i >= 0 /\ Linked(t, i, f))  BY <1>3, <1>4, SameIs
  <1>7. j = -1 \/ (j \in AtomSlots /\ j >= 0 /\ atoms[t][j].refs = 0)  BY <1>5, VacantIs
  <1>a. /\ DOMAIN atoms = AtomTables /\ DOMAIN held = AtomTables
        /\ \A u \in AtomTables : DOMAIN atoms[u] = AtomSlots /\ DOMAIN held[u] = Folds
    BY DEF AtomInv
  <1>8. CASE i >= 0
    <2>1. i \in AtomSlots /\ Linked(t, i, f)  BY <1>6, <1>8
    <2>2. PICK a : a = [atoms[t][i] EXCEPT !.refs = @ + 1]  OBVIOUS
    <2>3. PICK h : h = [n |-> held[t][f].n + 1, atom |-> AtomBase + i, name |-> IF held[t][f].n = 0 THEN n ELSE held[t][f].name]  OBVIOUS
    <2>4. atoms' = [atoms EXCEPT ![t][i] = a] /\ held' = [held EXCEPT ![t][f] = h]
      BY <1>1, <1>2, <1>3, <1>4, <1>8, <2>2, <2>3 DEF u32_atom_add, Hold
    <2>5. DOMAIN a = {"name", "refs"} /\ a.name = atoms[t][i].name /\ a.refs = atoms[t][i].refs + 1 /\ atoms[t][i].refs \in Nat
      BY <2>1, <2>2 DEF AtomInv
    <2>6. held[t][f].n \in Nat /\ held[t][f].n > 0 /\ atoms[t][i].refs = held[t][f].n /\ held[t][f].name = atoms[t][i].name
          /\ AtomFolded(atoms[t][i].name) = f /\ atoms[t][i].name # <<>> /\ Len(atoms[t][i].name) <= NameRoom
      BY <2>1 DEF Linked, AtomInv
    <2>7. DOMAIN h = {"n", "atom", "name"} /\ h.n = held[t][f].n + 1 /\ h.atom = AtomBase + i /\ h.name = held[t][f].name
      BY <2>3, <2>6
    <2>8. \A u \in AtomTables, k \in AtomSlots : atoms'[u][k] = IF u = t /\ k = i THEN a ELSE atoms[u][k]  BY <1>a, <2>4
    <2>9. \A u \in AtomTables, g \in Folds : held'[u][g] = IF u = t /\ g = f THEN h ELSE held[u][g]  BY <1>a, <2>4
    <2>10. DOMAIN atoms' = AtomTables /\ DOMAIN held' = AtomTables /\ \A u \in AtomTables : DOMAIN atoms'[u] = AtomSlots /\ DOMAIN held'[u] = Folds
      BY <1>a, <2>4
    <2>11. a.refs \in Nat /\ h.n = a.refs /\ h.n # 0  BY <2>5, <2>6, <2>7
    <2>12. h.name = a.name /\ AtomFolded(a.name) = f /\ a.name # <<>> /\ Len(a.name) <= NameRoom  BY <2>5, <2>6, <2>7
    <2>13. (h.n = 0 => h.atom = NoAtom) /\ (h.n > 0 => h.atom = AtomBase + i /\ h.name = a.name /\ AtomFolded(a.name) = f /\ a.name # <<>> /\ Len(a.name) <= NameRoom)
      BY <2>7, <2>11, <2>12
    <2>14. DOMAIN a = {"name", "refs"} /\ a.refs \in Nat /\ DOMAIN h = {"n", "atom", "name"} /\ h.n = a.refs  BY <2>5, <2>7, <2>11
    <2> QED BY <2>1, <2>8, <2>9, <2>10, <2>13, <2>14, PairKeeps
  <1>9. CASE ~(i >= 0) /\ j >= 0
    <2>1. j \in AtomSlots /\ atoms[t][j].refs = 0 /\ held[t][f].n = 0  BY <1>6, <1>7, <1>9
    <2>2. PICK a : a = [name |-> n, refs |-> 1]  OBVIOUS
    <2>3. PICK h : h = [n |-> held[t][f].n + 1, atom |-> AtomBase + j, name |-> IF held[t][f].n = 0 THEN n ELSE held[t][f].name]  OBVIOUS
    <2>4. atoms' = [atoms EXCEPT ![t][j] = a] /\ held' = [held EXCEPT ![t][f] = h]
      BY <1>1, <1>2, <1>3, <1>4, <1>5, <1>9, <2>2, <2>3 DEF u32_atom_add, Hold
    <2>5. DOMAIN a = {"name", "refs"} /\ a.name = n /\ a.refs = 1  BY <2>2
    <2>7. DOMAIN h = {"n", "atom", "name"} /\ h.n = 1 /\ h.atom = AtomBase + j /\ h.name = n
      BY <2>1, <2>3
    <2>8. \A u \in AtomTables, k \in AtomSlots : atoms'[u][k] = IF u = t /\ k = j THEN a ELSE atoms[u][k]  BY <1>a, <2>4
    <2>9. \A u \in AtomTables, g \in Folds : held'[u][g] = IF u = t /\ g = f THEN h ELSE held[u][g]  BY <1>a, <2>4
    <2>10. DOMAIN atoms' = AtomTables /\ DOMAIN held' = AtomTables /\ \A u \in AtomTables : DOMAIN atoms'[u] = AtomSlots /\ DOMAIN held'[u] = Folds
      BY <1>a, <2>4
    <2> QED BY <1>2, <1>3, <2>1, <2>5, <2>7, <2>8, <2>9, <2>10, PairKeeps
  <1>10. CASE ~(i >= 0) /\ ~(j >= 0)
    <2>1. UNCHANGED <<atoms, held>>  BY <1>1, <1>4, <1>5, <1>10 DEF u32_atom_add, atomVars
    <2> QED BY <2>1 DEF AtomInv, Linked
  <1> QED BY <1>8, <1>9, <1>10
LEMMA DeleteKeeps == ASSUME AtomInv, NEW t \in AtomTables, NEW f \in Folds, held[t][f].n > 0, u32_atom_del(t, held[t][f].atom) PROVE AtomInv'
  <1>1. PICK i \in AtomSlots : Linked(t, i, f)  BY DEF AtomInv
  <1>2. i \in Nat /\ held[t][f].atom = AtomBase + i /\ held[t][f].atom - AtomBase = i  BY <1>1, SlotsNat DEF Linked, AtomBase
  <1>a. /\ DOMAIN atoms = AtomTables /\ DOMAIN held = AtomTables
        /\ \A u \in AtomTables : DOMAIN atoms[u] = AtomSlots /\ DOMAIN held[u] = Folds
    BY DEF AtomInv
  <1>3. PICK a : a = [name |-> IF atoms[t][i].refs = 1 THEN <<>> ELSE atoms[t][i].name, refs |-> atoms[t][i].refs - 1]  OBVIOUS
  <1>4. atoms' = [atoms EXCEPT ![t][i] = a]  BY <1>2, <1>3 DEF u32_atom_del
  <1>5. PICK h : h = LetGo(held[t][f])  OBVIOUS
  <1>6. held' = [held EXCEPT ![t] = [g \in DOMAIN held[t] |-> IF held[t][g].n > 0 /\ held[t][g].atom = held[t][f].atom
                   THEN LetGo(held[t][g]) ELSE held[t][g]]]
    BY DEF u32_atom_del
  <1>x. PICK x : x = held[t][f].atom  OBVIOUS
  <1>7. held' = [held EXCEPT ![t] = [g \in Folds |-> IF held[t][g].n > 0 /\ held[t][g].atom = x
                   THEN LetGo(held[t][g]) ELSE held[t][g]]]
    <2>1. DOMAIN held[t] = Folds  BY <1>a
    <2> QED BY <1>6, <1>x, <2>1
  <1>8. ASSUME NEW g \in Folds PROVE (held[t][g].n > 0 /\ held[t][g].atom = x) <=> g = f
    <2>1. ASSUME held[t][g].n > 0, held[t][g].atom = x PROVE g = f
      <3>1. PICK k \in AtomSlots : Linked(t, k, g)  BY <2>1 DEF AtomInv
      <3>2. k \in Nat /\ AtomBase + k = AtomBase + i  BY <1>2, <1>x, <2>1, <3>1, SlotsNat DEF Linked
      <3>3. k = i  BY <1>2, <3>2 DEF AtomBase
      <3> QED BY <1>1, <3>1, <3>3, LinkUnique
    <2> QED BY <1>x, <2>1
  <1>9. \A u \in AtomTables, g \in Folds : held'[u][g] = IF u = t /\ g = f THEN h ELSE held[u][g]
    <2> SUFFICES ASSUME NEW u \in AtomTables, NEW g \in Folds PROVE held'[u][g] = IF u = t /\ g = f THEN h ELSE held[u][g]  OBVIOUS
    <2>1. CASE u # t  BY <1>a, <1>7, <2>1
    <2>2. CASE u = t
      <3>1. held'[t][g] = IF held[t][g].n > 0 /\ held[t][g].atom = x
                   THEN LetGo(held[t][g]) ELSE held[t][g]
        BY <1>a, <1>7
      <3>2. CASE g = f  BY <1>5, <1>8, <2>2, <3>1, <3>2
      <3>3. CASE g # f  BY <1>8, <2>2, <3>1, <3>3
      <3> QED BY <3>2, <3>3
    <2> QED BY <2>1, <2>2
  <1>10. \A u \in AtomTables, k \in AtomSlots : atoms'[u][k] = IF u = t /\ k = i THEN a ELSE atoms[u][k]  BY <1>a, <1>4
  <1>11. DOMAIN atoms' = AtomTables /\ DOMAIN held' = AtomTables /\ \A u \in AtomTables : DOMAIN atoms'[u] = AtomSlots /\ DOMAIN held'[u] = Folds
    BY <1>a, <1>4, <1>7
  <1>12. held[t][f].n \in Nat /\ held[t][f].n > 0 /\ atoms[t][i].refs = held[t][f].n /\ held[t][f].name = atoms[t][i].name
          /\ AtomFolded(atoms[t][i].name) = f /\ atoms[t][i].name # <<>> /\ Len(atoms[t][i].name) <= NameRoom
          /\ DOMAIN held[t][f] = {"n", "atom", "name"}
    BY <1>1 DEF Linked, AtomInv
  <1>13. CASE held[t][f].n = 1
    <2>1. DOMAIN a = {"name", "refs"} /\ a.refs = 0  BY <1>3, <1>12, <1>13
    <2>2. h = Unheld  BY <1>5, <1>13 DEF LetGo
    <2>3. DOMAIN h = {"n", "atom", "name"} /\ h.n = 0 /\ h.atom = NoAtom  BY <2>2 DEF Unheld
    <2> QED BY <1>1, <1>9, <1>10, <1>11, <2>1, <2>3, PairKeeps
  <1>14. CASE held[t][f].n # 1
    <2>1. DOMAIN a = {"name", "refs"} /\ a.refs = held[t][f].n - 1 /\ a.name = atoms[t][i].name  BY <1>3, <1>12, <1>14
    <2>2. DOMAIN h = {"n", "atom", "name"} /\ h.n = held[t][f].n - 1 /\ h.atom = held[t][f].atom /\ h.name = held[t][f].name
      BY <1>5, <1>12, <1>14 DEF LetGo
    <2>3. a.refs \in Nat /\ h.n = a.refs /\ h.n # 0  BY <1>12, <1>14, <2>1, <2>2
    <2>4. h.atom = AtomBase + i /\ h.name = a.name /\ AtomFolded(a.name) = f /\ a.name # <<>> /\ Len(a.name) <= NameRoom
      BY <1>2, <1>12, <2>1, <2>2
    <2>5. (h.n = 0 => h.atom = NoAtom) /\ (h.n > 0 => h.atom = AtomBase + i /\ h.name = a.name /\ AtomFolded(a.name) = f /\ a.name # <<>> /\ Len(a.name) <= NameRoom)
      BY <2>3, <2>4
    <2>6. DOMAIN a = {"name", "refs"} /\ a.refs \in Nat /\ DOMAIN h = {"n", "atom", "name"} /\ h.n = a.refs  BY <2>1, <2>2, <2>3
    <2> QED BY <1>1, <1>9, <1>10, <1>11, <2>5, <2>6, PairKeeps
  <1> QED BY <1>13, <1>14
LEMMA AtomStart == AtomsInit => AtomInv
  <1> SUFFICES ASSUME AtomsInit PROVE AtomInv  OBVIOUS
  <1>1. atoms = [t \in AtomTables |-> [i \in AtomSlots |-> [name |-> <<>>, refs |-> 0]]]
        /\ held = [t \in AtomTables |-> [f \in Folds |-> Unheld]]
    BY DEF AtomsInit, Folds
  <1>2. \A t \in AtomTables, f \in Folds : held[t][f] = [n |-> 0, atom |-> NoAtom, name |-> <<>>]  BY <1>1 DEF Unheld
  <1>3. \A t \in AtomTables, i \in AtomSlots : atoms[t][i] = [name |-> <<>>, refs |-> 0]  BY <1>1
  <1> QED BY <1>1, <1>2, <1>3 DEF AtomInv
LEMMA AtomStep == ASSUME AtomInv, AtomNext PROVE AtomInv'
  <1>0. "local" \in AtomTables /\ "global" \in AtomTables  BY AtomAssumption
  <1>1. ASSUME NEW s \in AtomNames, AddAtomW(s) \/ GlobalAddAtomW(s) PROVE AtomInv'
    BY <1>0, <1>1, AddKeeps DEF AddAtomW, GlobalAddAtomW, u32_atom_add_w
  <1>2. ASSUME NEW s \in AtomNames, Len(s) <= NameRoom, AddAtomA(s) \/ GlobalAddAtomA(s) PROVE AtomInv'
    <2>1. Cut(s) = s  BY <1>2, CutIs
    <2>2. u32_atom_add("local", Cut(s)) \/ u32_atom_add("global", Cut(s))  BY <1>2, <2>1 DEF AddAtomA, GlobalAddAtomA
    <2> QED BY <1>0, <2>2, AddKeeps
  <1>3. ASSUME NEW f \in DOMAIN held["local"], held["local"][f].n > 0, DeleteAtom(held["local"][f].atom) PROVE AtomInv'
    <2>1. f \in Folds  BY <1>0, <1>3 DEF AtomInv
    <2> QED BY <1>0, <1>3, <2>1, DeleteKeeps DEF DeleteAtom
  <1>4. ASSUME NEW f \in DOMAIN held["global"], held["global"][f].n > 0, GlobalDeleteAtom(held["global"][f].atom) PROVE AtomInv'
    <2>1. f \in Folds  BY <1>0, <1>4 DEF AtomInv
    <2> QED BY <1>0, <1>4, <2>1, DeleteKeeps DEF GlobalDeleteAtom
  <1> QED BY <1>1, <1>2, <1>3, <1>4 DEF AtomNext
LEMMA AtomReads == ASSUME AtomInv PROVE AtomStable
  <1> SUFFICES ASSUME NEW t \in AtomTables, NEW s \in AtomNames
      PROVE /\ u32_atom_find_w(t, s) = held[t][AtomFolded(Cut(s))].atom
            /\ held[t][AtomFolded(Cut(s))].n > 0 =>
                  u32_atom_name_a(t, held[t][AtomFolded(Cut(s))].atom, NameRoom + 1)
                      = [out |-> held[t][AtomFolded(Cut(s))].name, n |-> Len(held[t][AtomFolded(Cut(s))].name)]
    BY DEF AtomStable
  <1>1. PICK n : n = Cut(s)  OBVIOUS
  <1>2. PICK f \in Folds : f = AtomFolded(n)  BY <1>1 DEF Folds
  <1>3. PICK i : i = Same(t, n)  OBVIOUS
  <1>4. (i = -1 /\ held[t][f].n = 0) \/ (i \in AtomSlots /\ i >= 0 /\ Linked(t, i, f))  BY <1>2, <1>3, SameIs
  <1>5. held[t][f].n > 0 => n # <<>>
    <2> SUFFICES ASSUME held[t][f].n > 0, n = <<>> PROVE FALSE  OBVIOUS
    <2>1. PICK k \in AtomSlots : Linked(t, k, f)  BY DEF AtomInv
    <2>2. f = <<>>  BY <1>2 DEF AtomFolded
    <2>3. PICK m : m = atoms[t][k].name  OBVIOUS
    <2>4. AtomFolded(m) = <<>> /\ m # <<>>  BY <2>1, <2>2, <2>3 DEF Linked
    <2> QED BY <2>4 DEF AtomFolded
  <1>6. u32_atom_find_w(t, s) = held[t][f].atom
    <2>1. u32_atom_find_w(t, s) = IF n # <<>> /\ i >= 0 THEN AtomBase + i ELSE NoAtom  BY <1>1, <1>3 DEF u32_atom_find_w, u32_atom_find
    <2>2. CASE i = -1 /\ held[t][f].n = 0  BY <2>1, <2>2 DEF AtomInv
    <2>3. CASE i \in AtomSlots /\ i >= 0 /\ Linked(t, i, f)  BY <1>5, <2>1, <2>3 DEF Linked
    <2> QED BY <1>4, <2>2, <2>3
  <1>7. ASSUME held[t][f].n > 0
        PROVE u32_atom_name_a(t, held[t][f].atom, NameRoom + 1) = [out |-> held[t][f].name, n |-> Len(held[t][f].name)]
    <2>1. PICK k \in AtomSlots : Linked(t, k, f)  BY <1>7 DEF AtomInv
    <2>2. k \in Nat /\ held[t][f].atom - AtomBase = k  BY <2>1, SlotsNat DEF Linked, AtomBase
    <2>3. atoms[t][k].refs > 0 /\ atoms[t][k].name = held[t][f].name /\ held[t][f].name # <<>> /\ Len(held[t][f].name) <= NameRoom  BY <2>1 DEF Linked
    <2>4. u32_atom_name_of(t, held[t][f].atom) = held[t][f].name  BY <2>1, <2>2, <2>3 DEF u32_atom_name_of
    <2>5. NameRoom \in Nat /\ NameRoom + 1 # 0 /\ NameRoom + 1 - 1 = NameRoom  BY AtomAssumption
    <2> QED BY <2>3, <2>4, <2>5 DEF u32_atom_name_a
  <1> QED BY <1>1, <1>2, <1>6, <1>7

\* For tables of any size and any names: properties, classes, clipboard formats and atoms are read
\* back as they were stored, however the slots behind them were freed and taken again.
THEOREM NamesReadBack == NamesSpec => []TablesReadBack
  <1>1. DataInit /\ AtomsInit => DataInv /\ AtomInv  BY DataStart, AtomStart
  <1>2. DataInv /\ AtomInv /\ [(DataNext /\ UNCHANGED atomVars) \/ (AtomNext /\ UNCHANGED dataVars)]_<<dataVars, atomVars>>
           => (DataInv /\ AtomInv)'
    <2>1. DataInv /\ UNCHANGED dataVars => DataInv'  BY DEF DataInv, ScrollInv, ScrollInRange, dataVars
    <2>2. AtomInv /\ UNCHANGED atomVars => AtomInv'  BY DEF AtomInv, Linked, atomVars
    <2>3. DataInv /\ DataNext => DataInv'  BY DataStep
    <2>4. AtomInv /\ AtomNext => AtomInv'  BY AtomStep
    <2>5. UNCHANGED <<dataVars, atomVars>> => UNCHANGED dataVars /\ UNCHANGED atomVars  OBVIOUS
    <2> QED BY <2>1, <2>2, <2>3, <2>4, <2>5
  <1>3. DataInv /\ AtomInv => TablesReadBack  BY DataReads, AtomReads DEF TablesReadBack
  <1> QED BY <1>1, <1>2, <1>3, PTL DEF NamesSpec
-----------------------------------------------------------------------------
(* The GDI object table.  Every slot in use has one owner, and every context  *)
(* of the program names live objects only, in its selections and in what it   *)
(* saved.                                                                     *)
SlotOrNone == Slots \cup {NULLH}
SavedAttr == [font : SlotOrNone, brush : SlotOrNone, pen : SlotOrNone, text : Nat, mapmode : Nat]
GdiRec == [used : BOOLEAN, type : Types, stock : BOOLEAN, sel : [Kinds -> SlotOrNone], palette : SlotOrNone,
           text : Nat, mapmode : Nat, ext : Nat, sstk : Seq(SavedAttr)]
\* h is nothing, or a slot in use of that kind.
LiveAs(g, h, k) == h # NULLH => g[h].used /\ g[h].type = k
\* The table t = g with the stock cache s, the program's slots o and the window's w: every slot in use has one owner.
OneOwner(g, s, o, w) ==
    /\ g \in [Slots -> GdiRec] /\ s \in [StockIds -> SlotOrNone] /\ o \subseteq Slots /\ w \in SlotOrNone
    /\ \A i \in Slots : Len(g[i].sstk) <= SaveMax
    /\ \A i \in Slots : g[i].used <=> (i \in o \/ i = w \/ \E id \in StockIds : s[id] = i)
    /\ \A id \in StockIds : s[id] # NULLH => s[id] \notin o /\ s[id] # w /\ g[s[id]].stock /\ g[s[id]].type = StockType(id)
    /\ w # NULLH => w \notin o /\ g[w].type = "bitmap" /\ ~g[w].stock
    /\ \A h \in o : ~g[h].stock
\* What the context r of the table g selects and saved, against what it was given and what SaveDC was told.
Selects(g, r, bmp, saved) ==
    /\ r.sel["bitmap"] = bmp /\ LiveAs(g, bmp, "bitmap")
    /\ LiveAs(g, r.sel["brush"], "brush") /\ LiveAs(g, r.sel["pen"], "pen") /\ LiveAs(g, r.sel["font"], "font")
    /\ \A n \in 1..Len(r.sstk) : /\ LiveAs(g, r.sstk[n].brush, "brush")
                                 /\ LiveAs(g, r.sstk[n].pen, "pen")
                                 /\ LiveAs(g, r.sstk[n].font, "font")
    /\ saved = r.sstk
Contexts(g, o, b, v) ==
    /\ b \in [Slots -> SlotOrNone] /\ v \in [Slots -> Seq(SavedAttr)]
    /\ \A d \in o : g[d].type = "dc" => Selects(g, g[d], b[d], v[d])
GdiInv == /\ OneOwner(gdi, stock, owned, win.bmp) /\ Contexts(gdi, owned, bound, saves)
          /\ win = [bmp |-> win.bmp, sdl |-> win.sdl] /\ (win.bmp # NULLH => win.sdl)
\* Nothing in use changed from g to g2.
Keeps(g, g2) == \A i \in Slots : g[i].used => g2[i] = g[i]

LEMMA SlotsAre == Slots \subseteq Nat /\ NULLH \notin Slots
  BY GdiAssumption DEF Slots, NULLH
LEMMA KindsAre == Kinds = {"bitmap", "brush", "pen", "font"} /\ Kinds \subseteq Types /\ "dc" \in Types /\ "palette" \in Types
                  /\ "dc" \notin Kinds /\ "palette" \notin Kinds
  BY DEF Kinds, Types
LEMMA FreeSlotIs == ASSUME NEW g PROVE FreeSlot(g) = NULLH \/ (FreeSlot(g) \in Slots /\ ~g[FreeSlot(g)].used)
  <1>1. CASE \A i \in Slots : g[i].used
    BY <1>1 DEF FreeSlot
  <1>2. CASE ~\A i \in Slots : g[i].used
    <2> DEFINE U == {i \in Slots : ~g[i].used}
    <2>1. U \subseteq Nat  BY SlotsAre
    <2>2. U # {}  BY <1>2
    <2> HIDE DEF U
    <2>3. PICK i \in U : \A j \in U : i <= j  BY <2>1, <2>2, LeastNat
    <2>4. \E i1 \in Slots : ~g[i1].used /\ \A j \in Slots : ~g[j].used => i1 <= j
      BY <2>3 DEF U
    <2> QED BY <1>2, <2>4 DEF FreeSlot
  <1> QED BY <1>1, <1>2
LEMMA FreshIs == ASSUME NEW t \in Types
    PROVE /\ Fresh(t) \in GdiRec /\ Fresh(t).used = TRUE /\ Fresh(t).stock = FALSE /\ Fresh(t).type = t
          /\ Fresh(t).sstk = <<>> /\ Fresh(t).sel = [k \in Kinds |-> NULLH]
  <1>1. <<>> \in Seq(SavedAttr)  OBVIOUS
  <1>2. [k \in Kinds |-> NULLH] \in [Kinds -> SlotOrNone]  BY DEF SlotOrNone
  <1>3. NULLH \in SlotOrNone /\ 0 \in Nat  BY DEF SlotOrNone
  <1>4. Fresh(t) \in GdiRec
    BY <1>1, <1>2, <1>3 DEF Fresh, GdiRec
  <1> QED BY <1>4 DEF Fresh
LEMMA StockTypes == ASSUME NEW id PROVE StockType(id) \in Types
  BY DEF StockType, Types, Kinds
\* A slot taken for the program.
LEMMA TakeOwn == ASSUME NEW g, NEW s, NEW o, NEW w, OneOwner(g, s, o, w), NEW i \in Slots, ~g[i].used, NEW t \in Types
    PROVE /\ OneOwner([g EXCEPT ![i] = Fresh(t)], s, o \cup {i}, w)
          /\ Keeps(g, [g EXCEPT ![i] = Fresh(t)]) /\ i \notin o
  <1>1. PICK f : f = Fresh(t)  OBVIOUS
  <1>2. f \in GdiRec /\ f.used = TRUE /\ f.stock = FALSE /\ f.type = t /\ f.sstk = <<>>
    BY <1>1, FreshIs
  <1>3. PICK g2 : g2 = [g EXCEPT ![i] = f]  OBVIOUS
  <1>4. g2 \in [Slots -> GdiRec] /\ g2[i] = f /\ \A j \in Slots : j # i => g2[j] = g[j]
    BY <1>2, <1>3 DEF OneOwner
  <1>5. i \notin o /\ i # w /\ (\A id \in StockIds : s[id] # i)
    BY DEF OneOwner
  <1>6. \A j \in Slots : Len(g2[j].sstk) <= SaveMax
    BY <1>2, <1>4, GdiAssumption DEF OneOwner
  <1>7. \A j \in Slots : g2[j].used <=> (j \in o \cup {i} \/ j = w \/ \E id \in StockIds : s[id] = j)
    BY <1>2, <1>4, <1>5 DEF OneOwner
  <1>8. \A id \in StockIds : s[id] # NULLH => s[id] \notin o \cup {i} /\ s[id] # w /\ g2[s[id]].stock /\ g2[s[id]].type = StockType(id)
    BY <1>4, <1>5 DEF OneOwner, SlotOrNone
  <1>9. w # NULLH => w \notin o \cup {i} /\ g2[w].type = "bitmap" /\ ~g2[w].stock
    BY <1>4, <1>5 DEF OneOwner, SlotOrNone
  <1>10. \A h \in o \cup {i} : ~g2[h].stock
    BY <1>2, <1>4, <1>5 DEF OneOwner
  <1>11. OneOwner(g2, s, o \cup {i}, w)
    BY <1>4, <1>6, <1>7, <1>8, <1>9, <1>10 DEF OneOwner
  <1>12. Keeps(g, g2)
    BY <1>4 DEF Keeps
  <1> QED BY <1>1, <1>3, <1>5, <1>11, <1>12
\* A slot taken for the window.
LEMMA TakeWindow == ASSUME NEW g, NEW s, NEW o, OneOwner(g, s, o, NULLH), NEW i \in Slots, ~g[i].used
    PROVE /\ OneOwner([g EXCEPT ![i] = Fresh("bitmap")], s, o, i)
          /\ Keeps(g, [g EXCEPT ![i] = Fresh("bitmap")])
  <1>1. PICK f : f = Fresh("bitmap")  OBVIOUS
  <1>2. f \in GdiRec /\ f.used = TRUE /\ f.stock = FALSE /\ f.type = "bitmap" /\ f.sstk = <<>>
    BY <1>1, FreshIs, KindsAre
  <1>3. PICK g2 : g2 = [g EXCEPT ![i] = f]  OBVIOUS
  <1>4. g2 \in [Slots -> GdiRec] /\ g2[i] = f /\ \A j \in Slots : j # i => g2[j] = g[j]
    BY <1>2, <1>3 DEF OneOwner
  <1>5. i \notin o /\ (\A id \in StockIds : s[id] # i) /\ i # NULLH
    BY SlotsAre DEF OneOwner
  <1>6. \A j \in Slots : Len(g2[j].sstk) <= SaveMax
    BY <1>2, <1>4, GdiAssumption DEF OneOwner
  <1>7. \A j \in Slots : g2[j].used <=> (j \in o \/ j = i \/ \E id \in StockIds : s[id] = j)
    BY <1>2, <1>4, <1>5, SlotsAre DEF OneOwner
  <1>8. \A id \in StockIds : s[id] # NULLH => s[id] \notin o /\ s[id] # i /\ g2[s[id]].stock /\ g2[s[id]].type = StockType(id)
    BY <1>4, <1>5 DEF OneOwner, SlotOrNone
  <1>9. i \notin o /\ g2[i].type = "bitmap" /\ ~g2[i].stock
    BY <1>2, <1>4, <1>5 DEF OneOwner, SlotOrNone
  <1>10. \A h \in o : ~g2[h].stock
    BY <1>2, <1>4, <1>5 DEF OneOwner
  <1>11. OneOwner(g2, s, o, i)
    BY <1>4, <1>6, <1>7, <1>8, <1>9, <1>10 DEF OneOwner, SlotOrNone
  <1>12. Keeps(g, g2)
    BY <1>4 DEF Keeps
  <1> QED BY <1>1, <1>3, <1>5, <1>11, <1>12
LEMMA UnusedRec == ASSUME NEW r \in GdiRec
    PROVE /\ [r EXCEPT !.used = FALSE] \in GdiRec /\ [r EXCEPT !.used = FALSE].used = FALSE
          /\ [r EXCEPT !.used = FALSE].sstk = r.sstk
  BY DEF GdiRec
\* Slots given back.
LEMMA GiveBack == ASSUME NEW g, NEW s, NEW o, NEW w, OneOwner(g, s, o, w), NEW S, S \subseteq o
    PROVE OneOwner(Freed(g, S), s, o \ S, w) /\ \A j \in Slots \ S : Freed(g, S)[j] = g[j]
  <1>3. PICK g2 : g2 = Freed(g, S)  OBVIOUS
  <1>1. \A j \in Slots : g[j] \in GdiRec  BY DEF OneOwner
  <1>2. \A j \in S : [g[j] EXCEPT !.used = FALSE] \in GdiRec /\ [g[j] EXCEPT !.used = FALSE].used = FALSE /\ [g[j] EXCEPT !.used = FALSE].sstk = g[j].sstk
    BY <1>1, UnusedRec DEF OneOwner
  <1>4. g2 \in [Slots -> GdiRec]
    BY <1>1, <1>2, <1>3 DEF Freed, OneOwner
  <1>5. \A j \in Slots \ S : g2[j] = g[j]
    BY <1>3 DEF Freed
  <1>6. \A j \in S : g2[j].used = FALSE /\ g2[j].sstk = g[j].sstk /\ j \in Slots
    BY <1>2, <1>3 DEF Freed, OneOwner
  <1>7. \A j \in Slots : Len(g2[j].sstk) <= SaveMax
    BY <1>5, <1>6 DEF OneOwner
  <1>8. \A j \in Slots : g2[j].used <=> (j \in o \ S \/ j = w \/ \E id \in StockIds : s[id] = j)
    BY <1>5, <1>6, SlotsAre DEF OneOwner
  <1>9. \A id \in StockIds : s[id] # NULLH => s[id] \notin o \ S /\ s[id] # w /\ g2[s[id]].stock /\ g2[s[id]].type = StockType(id)
    BY <1>5 DEF OneOwner, SlotOrNone
  <1>10. w # NULLH => w \notin o \ S /\ g2[w].type = "bitmap" /\ ~g2[w].stock
    BY <1>5 DEF OneOwner, SlotOrNone
  <1>11. \A h \in o \ S : ~g2[h].stock
    BY <1>5 DEF OneOwner
  <1>12. OneOwner(g2, s, o \ S, w)
    BY <1>4, <1>7, <1>8, <1>9, <1>10, <1>11 DEF OneOwner
  <1> QED BY <1>3, <1>5, <1>12

\* A slot taken for a stock object.
LEMMA TakeStock == ASSUME NEW g, NEW s, NEW o, NEW w, OneOwner(g, s, o, w), NEW i \in Slots, ~g[i].used, NEW id \in StockIds, s[id] = NULLH
    PROVE /\ OneOwner([g EXCEPT ![i] = [Fresh(StockType(id)) EXCEPT !.stock = TRUE]], [s EXCEPT ![id] = i], o, w)
          /\ Keeps(g, [g EXCEPT ![i] = [Fresh(StockType(id)) EXCEPT !.stock = TRUE]])
  <1>1. PICK f : f = [Fresh(StockType(id)) EXCEPT !.stock = TRUE]  OBVIOUS
  <1>0. PICK t : t = StockType(id)  OBVIOUS
  <1>00. t \in Types  BY <1>0, StockTypes
  <1>2. f \in GdiRec /\ f.used = TRUE /\ f.stock = TRUE /\ f.type = t /\ f.sstk = <<>>
    <2>1. PICK e : e = Fresh(t)  OBVIOUS
    <2>2. e \in GdiRec /\ e.used = TRUE /\ e.type = t /\ e.sstk = <<>>
      BY <2>1, <1>00, FreshIs
    <2>3. f = [e EXCEPT !.stock = TRUE]  BY <2>1, <1>1, <1>0
    <2> QED BY <2>2, <2>3 DEF GdiRec
  <1>3. PICK g2 : g2 = [g EXCEPT ![i] = f]  OBVIOUS
  <1>13. PICK s2 : s2 = [s EXCEPT ![id] = i]  OBVIOUS
  <1>4. g2 \in [Slots -> GdiRec] /\ g2[i] = f /\ \A j \in Slots : j # i => g2[j] = g[j]
    BY <1>2, <1>3 DEF OneOwner
  <1>14. s2 \in [StockIds -> SlotOrNone] /\ s2[id] = i /\ \A j \in StockIds : j # id => s2[j] = s[j]
    BY <1>13 DEF OneOwner, SlotOrNone
  <1>5. i \notin o /\ i # w /\ (\A j \in StockIds : s[j] # i)
    BY DEF OneOwner
  <1>6. \A j \in Slots : Len(g2[j].sstk) <= SaveMax
    BY <1>2, <1>4, GdiAssumption DEF OneOwner
  <1>15. \A j \in Slots : (\E k \in StockIds : s2[k] = j) <=> (j = i \/ \E k \in StockIds : s[k] = j)
    BY <1>14, SlotsAre
  <1>7. \A j \in Slots : g2[j].used <=> (j \in o \/ j = w \/ \E k \in StockIds : s2[k] = j)
    BY <1>2, <1>4, <1>5, <1>15 DEF OneOwner
  <1>8. \A k \in StockIds : s2[k] # NULLH => s2[k] \notin o /\ s2[k] # w /\ g2[s2[k]].stock /\ g2[s2[k]].type = StockType(k)
    <2> SUFFICES ASSUME NEW k \in StockIds, s2[k] # NULLH
        PROVE s2[k] \notin o /\ s2[k] # w /\ g2[s2[k]].stock /\ g2[s2[k]].type = StockType(k)
      OBVIOUS
    <2>1. CASE k = id  BY <2>1, <1>14, <1>4, <1>5, <1>2, <1>0
    <2>2. CASE k # id  BY <2>2, <1>14, <1>4, <1>5 DEF OneOwner, SlotOrNone
    <2> QED BY <2>1, <2>2
  <1>9. w # NULLH => w \notin o /\ g2[w].type = "bitmap" /\ ~g2[w].stock
    BY <1>4, <1>5 DEF OneOwner, SlotOrNone
  <1>10. \A h \in o : ~g2[h].stock
    BY <1>4, <1>5 DEF OneOwner
  <1>11. OneOwner(g2, s2, o, w)
    BY <1>4, <1>14, <1>6, <1>7, <1>8, <1>9, <1>10 DEF OneOwner
  <1>12. Keeps(g, g2)
    BY <1>4 DEF Keeps
  <1> QED BY <1>1, <1>3, <1>13, <1>11, <1>12
LEMMA StockKeeps == ASSUME NEW g, NEW s, NEW o, NEW w, OneOwner(g, s, o, w), NEW id \in StockIds
    PROVE LET st == u32_stock([g |-> g, s |-> s], id)
          IN  /\ OneOwner(st.g, st.s, o, w) /\ Keeps(g, st.g) /\ st = [g |-> st.g, s |-> st.s]
  <1>1. PICK i : i = FreeSlot(g)  OBVIOUS
  <1>2. Keeps(g, g)  BY DEF Keeps
  <1>3. CASE s[id] # NULLH \/ i = NULLH
    <2>1. u32_stock([g |-> g, s |-> s], id) = [g |-> g, s |-> s]  BY <1>1, <1>3 DEF u32_stock
    <2> QED BY <2>1, <1>2
  <1>4. CASE s[id] = NULLH /\ i # NULLH
    <2>1. i \in Slots /\ ~g[i].used  BY <1>1, <1>4, FreeSlotIs
    <2>2. PICK f : f = Fresh(StockType(id))  OBVIOUS
    <2>3. g \in [Slots -> GdiRec]  BY DEF OneOwner
    <2>4. [gdi_alloc(g, i, StockType(id)) EXCEPT ![i].stock = TRUE] = [g EXCEPT ![i] = [f EXCEPT !.stock = TRUE]]
      BY <2>1, <2>2, <2>3, <1>4 DEF gdi_alloc
    <2>5. u32_stock([g |-> g, s |-> s], id) = [g |-> [g EXCEPT ![i] = [f EXCEPT !.stock = TRUE]], s |-> [s EXCEPT ![id] = i]]
      BY <1>1, <1>4, <2>4 DEF u32_stock
    <2>6. /\ OneOwner([g EXCEPT ![i] = [f EXCEPT !.stock = TRUE]], [s EXCEPT ![id] = i], o, w)
          /\ Keeps(g, [g EXCEPT ![i] = [f EXCEPT !.stock = TRUE]])
      BY <2>1, <2>2, <1>4, TakeStock
    <2>7. PICK g2 : g2 = [g EXCEPT ![i] = [f EXCEPT !.stock = TRUE]]  OBVIOUS
    <2>8. PICK s2 : s2 = [s EXCEPT ![id] = i]  OBVIOUS
    <2>9. u32_stock([g |-> g, s |-> s], id) = [g |-> g2, s |-> s2]  BY <2>5, <2>7, <2>8
    <2>10. OneOwner(g2, s2, o, w) /\ Keeps(g, g2)  BY <2>6, <2>7, <2>8
    <2> QED BY <2>9, <2>10
  <1> QED BY <1>3, <1>4
LEMMA KeepsChain == ASSUME NEW a, NEW b, NEW c, Keeps(a, b), Keeps(b, c) PROVE Keeps(a, c)
  BY DEF Keeps
\* A context whose record changes, but neither its use nor its kind.
LEMMA RecordOwners == ASSUME NEW g, NEW s, NEW o, NEW w, OneOwner(g, s, o, w), NEW d \in o, NEW r \in GdiRec,
           g[d].type = "dc", r.used = TRUE, r.type = "dc", r.stock = FALSE, Len(r.sstk) <= SaveMax
    PROVE OneOwner([g EXCEPT ![d] = r], s, o, w)
  <1>1. PICK g2 : g2 = [g EXCEPT ![d] = r]  OBVIOUS
  <1>2. d \in Slots /\ g2 \in [Slots -> GdiRec] /\ g2[d] = r /\ \A j \in Slots : j # d => g2[j] = g[j]
    BY <1>1 DEF OneOwner
  <1>3. \A j \in Slots : Len(g2[j].sstk) <= SaveMax
    BY <1>2 DEF OneOwner
  <1>4. \A j \in Slots : g2[j].used <=> (j \in o \/ j = w \/ \E id \in StockIds : s[id] = j)
    BY <1>2 DEF OneOwner
  <1>5. \A id \in StockIds : s[id] # NULLH => s[id] \notin o /\ s[id] # w /\ g2[s[id]].stock /\ g2[s[id]].type = StockType(id)
    BY <1>2 DEF OneOwner, SlotOrNone
  <1>6. w # NULLH => w \notin o /\ g2[w].type = "bitmap" /\ ~g2[w].stock
    BY <1>2 DEF OneOwner, SlotOrNone
  <1>7. \A h \in o : ~g2[h].stock
    BY <1>2 DEF OneOwner
  <1> QED BY <1>1, <1>2, <1>3, <1>4, <1>5, <1>6, <1>7 DEF OneOwner

LEMMA StockLive == ASSUME NEW g, NEW s, NEW o, NEW w, OneOwner(g, s, o, w), NEW id \in StockIds
    PROVE s[id] \in SlotOrNone /\ LiveAs(g, s[id], StockType(id))
  BY DEF OneOwner, LiveAs, SlotOrNone
\* What is not in use before is of no consequence to a context.
LEMMA LiveKept == ASSUME NEW g, NEW g2, Keeps(g, g2), NEW h \in SlotOrNone, NEW k, LiveAs(g, h, k) PROVE LiveAs(g2, h, k)
  BY DEF Keeps, LiveAs, SlotOrNone
LEMMA SelectsTypes == ASSUME NEW r \in GdiRec
    PROVE /\ \A k \in Kinds : r.sel[k] \in SlotOrNone
          /\ r.sstk \in Seq(SavedAttr) /\ Len(r.sstk) \in Nat
          /\ \A n \in 1..Len(r.sstk) : /\ r.sstk[n] \in SavedAttr
                                       /\ r.sstk[n].brush \in SlotOrNone
                                       /\ r.sstk[n].pen \in SlotOrNone
                                       /\ r.sstk[n].font \in SlotOrNone
  <1>1. r.sel \in [Kinds -> SlotOrNone] /\ r.sstk \in Seq(SavedAttr)  BY DEF GdiRec
  <1>2. \A n \in 1..Len(r.sstk) : r.sstk[n] \in SavedAttr  BY <1>1
  <1>3. \A n \in 1..Len(r.sstk) : /\ r.sstk[n].brush \in SlotOrNone
                                  /\ r.sstk[n].pen \in SlotOrNone
                                  /\ r.sstk[n].font \in SlotOrNone
    BY <1>2 DEF SavedAttr
  <1> QED BY <1>1, <1>2, <1>3
\* A context's selections carry over to a table in which every object they name is as live as before.
LEMMA SelectsCarry == ASSUME NEW g, NEW g2, NEW r \in GdiRec, NEW bmp \in SlotOrNone, NEW saved, Selects(g, r, bmp, saved),
           \A h \in SlotOrNone, k \in Kinds :
                (\/ k = "bitmap" /\ h = bmp
                 \/ h = r.sel[k]
                 \/ \E n \in 1..Len(r.sstk) : \/ k = "brush" /\ h = r.sstk[n].brush
                                              \/ k = "pen" /\ h = r.sstk[n].pen
                                              \/ k = "font" /\ h = r.sstk[n].font)
                /\ LiveAs(g, h, k) => LiveAs(g2, h, k)
    PROVE Selects(g2, r, bmp, saved)
  <1>1. LiveAs(g2, bmp, "bitmap")
    BY KindsAre DEF Selects
  <1>2. LiveAs(g2, r.sel["brush"], "brush") /\ LiveAs(g2, r.sel["pen"], "pen") /\ LiveAs(g2, r.sel["font"], "font")
    BY KindsAre, SelectsTypes DEF Selects
  <1>3. ASSUME NEW n \in 1..Len(r.sstk)
        PROVE LiveAs(g2, r.sstk[n].brush, "brush") /\ LiveAs(g2, r.sstk[n].pen, "pen") /\ LiveAs(g2, r.sstk[n].font, "font")
    <2>1. r.sstk[n].brush \in SlotOrNone /\ r.sstk[n].pen \in SlotOrNone /\ r.sstk[n].font \in SlotOrNone
      BY SelectsTypes
    <2>2. LiveAs(g, r.sstk[n].brush, "brush") /\ LiveAs(g, r.sstk[n].pen, "pen") /\ LiveAs(g, r.sstk[n].font, "font")
      BY DEF Selects
    <2> QED BY <2>1, <2>2, KindsAre
  <1> QED BY <1>1, <1>2, <1>3 DEF Selects
LEMMA ContextsKept == ASSUME NEW g, NEW g2, NEW s, NEW o, NEW w, NEW b, NEW v,
           OneOwner(g, s, o, w), Contexts(g, o, b, v), Keeps(g, g2)
    PROVE Contexts(g2, o, b, v)
  <1>1. ASSUME NEW d \in o, g2[d].type = "dc" PROVE Selects(g2, g2[d], b[d], v[d])
    <2>1. d \in Slots /\ g[d].used  BY DEF OneOwner
    <2>2. g2[d] = g[d] /\ g[d] \in GdiRec /\ b[d] \in SlotOrNone  BY <2>1 DEF Keeps, OneOwner, Contexts
    <2>3. Selects(g, g[d], b[d], v[d])  BY <2>2, <1>1 DEF Contexts
    <2>4. \A h \in SlotOrNone, k \in Kinds : LiveAs(g, h, k) => LiveAs(g2, h, k)
      BY LiveKept
    <2>5. Selects(g2, g[d], b[d], v[d])  BY <2>2, <2>3, <2>4, SelectsCarry
    <2> QED BY <2>2, <2>5
  <1> QED BY <1>1 DEF Contexts
\* One context of the program changes what it has selected, what it was given or what it saved.
LEMMA ContextChanged == ASSUME NEW g, NEW s, NEW o, NEW w, NEW b, NEW v, OneOwner(g, s, o, w), Contexts(g, o, b, v),
           NEW d \in o, g[d].type = "dc", NEW r \in GdiRec, r.used = TRUE, r.type = "dc", r.stock = FALSE, Len(r.sstk) <= SaveMax,
           NEW bmp \in SlotOrNone, NEW saved \in Seq(SavedAttr), Selects(g, r, bmp, saved)
    PROVE /\ OneOwner([g EXCEPT ![d] = r], s, o, w)
          /\ Contexts([g EXCEPT ![d] = r], o, [b EXCEPT ![d] = bmp], [v EXCEPT ![d] = saved])
  <1>1. PICK g2 : g2 = [g EXCEPT ![d] = r]  OBVIOUS
  <1>2. d \in Slots /\ g2 \in [Slots -> GdiRec] /\ g2[d] = r /\ (\A j \in Slots : j # d => g2[j] = g[j]) /\ g[d].used
    BY <1>1 DEF OneOwner
  <1>3. \A h \in SlotOrNone, k \in Kinds : LiveAs(g, h, k) => LiveAs(g2, h, k)
    BY <1>2 DEF LiveAs, SlotOrNone
  <1>4. PICK b2, v2 : b2 = [b EXCEPT ![d] = bmp] /\ v2 = [v EXCEPT ![d] = saved]  OBVIOUS
  <1>5. /\ b2 \in [Slots -> SlotOrNone] /\ v2 \in [Slots -> Seq(SavedAttr)] /\ b2[d] = bmp /\ v2[d] = saved
        /\ \A j \in Slots : j # d => b2[j] = b[j] /\ v2[j] = v[j]
    BY <1>2, <1>4 DEF Contexts
  <1>6. ASSUME NEW e \in o, g2[e].type = "dc" PROVE Selects(g2, g2[e], b2[e], v2[e])
    <2>1. CASE e = d
      <3>1. Selects(g2, r, bmp, saved)  BY <1>3, SelectsCarry
      <3> QED BY <2>1, <3>1, <1>2, <1>5
    <2>2. CASE e # d
      <3>1. e \in Slots /\ g2[e] = g[e] /\ g[e] \in GdiRec /\ b[e] \in SlotOrNone /\ b2[e] = b[e] /\ v2[e] = v[e]
        BY <2>2, <1>2, <1>5 DEF OneOwner, Contexts
      <3>2. Selects(g, g[e], b[e], v[e])  BY <3>1, <1>6 DEF Contexts
      <3>3. Selects(g2, g[e], b[e], v[e])  BY <3>1, <3>2, <1>3, SelectsCarry
      <3> QED BY <3>1, <3>3
    <2> QED BY <2>1, <2>2
  <1>7. Contexts(g2, o, b2, v2)  BY <1>5, <1>6 DEF Contexts
  <1>8. OneOwner([g EXCEPT ![d] = r], s, o, w)  BY RecordOwners
  <1> QED BY <1>1, <1>4, <1>7, <1>8

-----------------------------------------------------------------------------
LEMMA DefaultStocks == ASSUME NEW g, NEW s, NEW o, NEW w, OneOwner(g, s, o, w)
    PROVE LET st == u32_stock(u32_stock(u32_stock([g |-> g, s |-> s], 13), 0), 7)
          IN  OneOwner(st.g, st.s, o, w) /\ Keeps(g, st.g) /\ st = [g |-> st.g, s |-> st.s]
  <1>0. 13 \in StockIds /\ 0 \in StockIds /\ 7 \in StockIds  BY GdiAssumption
  <1>1. PICK a : a = u32_stock([g |-> g, s |-> s], 13)  OBVIOUS
  <1>2. OneOwner(a.g, a.s, o, w) /\ Keeps(g, a.g) /\ a = [g |-> a.g, s |-> a.s]  BY <1>0, <1>1, StockKeeps
  <1>3. PICK b : b = u32_stock(a, 0)  OBVIOUS
  <1>4. OneOwner(b.g, b.s, o, w) /\ Keeps(a.g, b.g) /\ b = [g |-> b.g, s |-> b.s]
    <2>1. LET st == u32_stock([g |-> a.g, s |-> a.s], 0)
          IN  OneOwner(st.g, st.s, o, w) /\ Keeps(a.g, st.g) /\ st = [g |-> st.g, s |-> st.s]
      BY <1>0, <1>2, StockKeeps
    <2> QED BY <2>1, <1>2, <1>3
  <1>5. PICK c : c = u32_stock(b, 7)  OBVIOUS
  <1>6. OneOwner(c.g, c.s, o, w) /\ Keeps(b.g, c.g) /\ c = [g |-> c.g, s |-> c.s]
    <2>1. LET st == u32_stock([g |-> b.g, s |-> b.s], 7)
          IN  OneOwner(st.g, st.s, o, w) /\ Keeps(b.g, st.g) /\ st = [g |-> st.g, s |-> st.s]
      BY <1>0, <1>4, StockKeeps
    <2> QED BY <2>1, <1>4, <1>5
  <1>7. Keeps(g, c.g)  BY <1>2, <1>4, <1>6, KeepsChain
  <1> QED BY <1>1, <1>3, <1>5, <1>6, <1>7
LEMMA SelBy == ASSUME NEW r \in GdiRec, NEW f \in SlotOrNone, NEW b \in SlotOrNone, NEW p \in SlotOrNone
    PROVE LET q == [r.sel EXCEPT !.font = f, !.brush = b, !.pen = p]
          IN  /\ q \in [Kinds -> SlotOrNone] /\ q["font"] = f /\ q["brush"] = b /\ q["pen"] = p
              /\ q["bitmap"] = r.sel["bitmap"]
  <1>1. r.sel \in [Kinds -> SlotOrNone]  BY DEF GdiRec
  <1> QED BY <1>1, KindsAre
\* st is the table g with the stock cache s once the fresh context d has its defaults; nothing else in use changed.
DefaultsOf(g, s, d, st) == g[d] = Fresh("dc") /\ st = u32_dc_defaults([g |-> g, s |-> s], d)
DefaultsGiven(g, d, st) == /\ \A i \in Slots : g[i].used /\ i # d => st.g[i] = g[i]
                           /\ st.g[d].type = "dc" /\ st.g[d].used = TRUE /\ st.g[d].stock = FALSE /\ st.g[d].sstk = <<>>
\* A new context gets the stock font, brush and pen.
LEMMA DefaultContext == ASSUME NEW g, NEW s, NEW o, NEW w, NEW b, NEW v, OneOwner(g, s, o, w), Contexts(g, o, b, v),
           NEW d \in o, b[d] = NULLH, v[d] = <<>>, NEW st, DefaultsOf(g, s, d, st)
    PROVE OneOwner(st.g, st.s, o, w) /\ Contexts(st.g, o, b, v) /\ DefaultsGiven(g, d, st)
  <1> USE DEF DefaultsOf
  <1>1. PICK a : a = u32_stock(u32_stock(u32_stock([g |-> g, s |-> s], 13), 0), 7)  OBVIOUS
  <1>2. OneOwner(a.g, a.s, o, w) /\ Keeps(g, a.g) /\ a = [g |-> a.g, s |-> a.s]  BY <1>1, DefaultStocks
  <1>3. Contexts(a.g, o, b, v)  BY <1>2, ContextsKept
  <1>4. PICK e : e = Fresh("dc")  OBVIOUS
  <1>5. /\ e \in GdiRec /\ e.used = TRUE /\ e.stock = FALSE /\ e.type = "dc" /\ e.sstk = <<>>
        /\ e.sel = [k \in Kinds |-> NULLH]
    BY <1>4, FreshIs, KindsAre
  <1>6. a.g[d] = e /\ d \in Slots /\ a.g \in [Slots -> GdiRec]
    BY <1>2, <1>4, <1>5 DEF Keeps, OneOwner
  <1>7. PICK q : q = [e.sel EXCEPT !.font = a.s[13], !.brush = a.s[0], !.pen = a.s[7]]  OBVIOUS
  <1>8. PICK r : r = [e EXCEPT !.sel = q, !.mapmode = MM_TEXT, !.ext = 1]  OBVIOUS
  <1>9. u32_dc_defaults([g |-> g, s |-> s], d) = [g |-> [a.g EXCEPT ![d] = r], s |-> a.s]
    <2>1. u32_dc_defaults([g |-> g, s |-> s], d) =
             [g |-> [a.g EXCEPT ![d] = [a.g[d] EXCEPT !.sel = [a.g[d].sel EXCEPT !.font = a.s[13], !.brush = a.s[0], !.pen = a.s[7]],
                                                      !.mapmode = MM_TEXT, !.ext = 1]], s |-> a.s]
      BY <1>1 DEF u32_dc_defaults
    <2> QED BY <2>1, <1>6, <1>7, <1>8
  <1>10. /\ a.s[13] \in SlotOrNone /\ LiveAs(a.g, a.s[13], "font") /\ a.s[0] \in SlotOrNone /\ LiveAs(a.g, a.s[0], "brush")
         /\ a.s[7] \in SlotOrNone /\ LiveAs(a.g, a.s[7], "pen")
    <2>1. StockType(13) = "font" /\ StockType(0) = "brush" /\ StockType(7) = "pen"  BY DEF StockType
    <2>2. 13 \in StockIds /\ 0 \in StockIds /\ 7 \in StockIds  BY GdiAssumption
    <2>3. /\ a.s[13] \in SlotOrNone /\ LiveAs(a.g, a.s[13], StockType(13)) /\ a.s[0] \in SlotOrNone /\ LiveAs(a.g, a.s[0], StockType(0))
          /\ a.s[7] \in SlotOrNone /\ LiveAs(a.g, a.s[7], StockType(7))
      BY <2>2, <1>2, StockLive
    <2> QED BY <2>1, <2>3
  <1>11. /\ q \in [Kinds -> SlotOrNone] /\ q["font"] = a.s[13] /\ q["brush"] = a.s[0] /\ q["pen"] = a.s[7] /\ q["bitmap"] = NULLH
    <2>1. PICK f, p, n : f = a.s[13] /\ p = a.s[0] /\ n = a.s[7]  OBVIOUS
    <2>2. f \in SlotOrNone /\ p \in SlotOrNone /\ n \in SlotOrNone /\ NULLH \in SlotOrNone  BY <2>1, <1>10 DEF SlotOrNone
    <2>3. q = [e.sel EXCEPT !.font = f, !.brush = p, !.pen = n]  BY <2>1, <1>7
    <2>4. PICK z : z = e.sel  OBVIOUS
    <2>5. z \in [Kinds -> SlotOrNone] /\ z["bitmap"] = NULLH  BY <2>2, <2>4, <1>5, KindsAre
    <2>6. q = [z EXCEPT !["font"] = f, !["brush"] = p, !["pen"] = n]  BY <2>3, <2>4
    <2>7. q \in [Kinds -> SlotOrNone] /\ q["font"] = f /\ q["brush"] = p /\ q["pen"] = n /\ q["bitmap"] = NULLH
      BY <2>2, <2>5, <2>6, KindsAre
    <2> QED BY <2>1, <2>7
  <1>12. /\ r \in GdiRec /\ r.used = TRUE /\ r.stock = FALSE /\ r.type = "dc" /\ r.sstk = <<>> /\ r.sel = q
    BY <1>5, <1>8, <1>11 DEF GdiRec, MM_TEXT
  <1>13. Len(r.sstk) = 0 /\ Len(r.sstk) <= SaveMax  BY <1>12, GdiAssumption
  <1>14. Selects(a.g, r, NULLH, <<>>)
    BY <1>10, <1>11, <1>12, <1>13 DEF Selects, LiveAs
  <1>15. NULLH \in SlotOrNone /\ <<>> \in Seq(SavedAttr)  BY DEF SlotOrNone
  <1>16. /\ OneOwner([a.g EXCEPT ![d] = r], a.s, o, w)
         /\ Contexts([a.g EXCEPT ![d] = r], o, [b EXCEPT ![d] = NULLH], [v EXCEPT ![d] = <<>>])
    BY <1>2, <1>3, <1>5, <1>6, <1>12, <1>13, <1>14, <1>15, ContextChanged
  <1>17. [b EXCEPT ![d] = NULLH] = b /\ [v EXCEPT ![d] = <<>>] = v
    BY DEF Contexts
  <1>18. PICK g2 : g2 = [a.g EXCEPT ![d] = r]  OBVIOUS
  <1>19. g2[d] = r /\ \A i \in Slots : g[i].used /\ i # d => g2[i] = g[i]
    BY <1>2, <1>6, <1>18 DEF Keeps
  <1>20. OneOwner(g2, a.s, o, w) /\ Contexts(g2, o, b, v)
    BY <1>16, <1>17, <1>18
  <1>21. u32_dc_defaults([g |-> g, s |-> s], d) = [g |-> g2, s |-> a.s]
    BY <1>9, <1>18
  <1> QED BY <1>12, <1>19, <1>20, <1>21 DEF DefaultsGiven
UnsavedDC(r) == r.type = "dc" /\ r.used = TRUE /\ r.stock = FALSE /\ r.sstk = <<>>
NewTable(g, s, d, st) == st = u32_dc_defaults([g |-> gdi_alloc(g, d, "dc"), s |-> s], d)
\* A free slot becomes a context of the program.
LEMMA ContextTaken == ASSUME NEW g, NEW s, NEW o, NEW w, NEW b, NEW v, OneOwner(g, s, o, w), Contexts(g, o, b, v),
           NEW d \in Slots, ~g[d].used,
           NEW st, NewTable(g, s, d, st)
    PROVE /\ OneOwner(st.g, st.s, o \cup {d}, w) /\ Contexts(st.g, o \cup {d}, [b EXCEPT ![d] = NULLH], [v EXCEPT ![d] = <<>>])
          /\ Keeps(g, st.g) /\ d \notin o /\ UnsavedDC(st.g[d])
  <1>1. PICK e : e = Fresh("dc")  OBVIOUS
  <1>2. /\ e \in GdiRec /\ e.used = TRUE /\ e.stock = FALSE /\ e.type = "dc" /\ e.sstk = <<>>
        /\ e.sel = [k \in Kinds |-> NULLH]
    BY <1>1, FreshIs, KindsAre
  <1>3. PICK g1 : g1 = [g EXCEPT ![d] = e]  OBVIOUS
  <1>4. d # NULLH  BY SlotsAre
  <1>5. gdi_alloc(g, d, "dc") = g1  BY <1>1, <1>3, <1>4 DEF gdi_alloc
  <1>6. OneOwner(g1, s, o \cup {d}, w) /\ Keeps(g, g1) /\ d \notin o
    BY <1>1, <1>3, TakeOwn, KindsAre
  <1>7. Contexts(g1, o, b, v)  BY <1>6, ContextsKept
  <1>8. PICK b2, v2 : b2 = [b EXCEPT ![d] = NULLH] /\ v2 = [v EXCEPT ![d] = <<>>]  OBVIOUS
  <1>9. /\ b2 \in [Slots -> SlotOrNone] /\ v2 \in [Slots -> Seq(SavedAttr)] /\ b2[d] = NULLH /\ v2[d] = <<>>
        /\ \A j \in Slots : j # d => b2[j] = b[j] /\ v2[j] = v[j]
    BY <1>8 DEF Contexts, SlotOrNone
  <1>10. g1[d] = e  BY <1>3 DEF OneOwner
  <1>11. Selects(g1, e, NULLH, <<>>)
    BY <1>2, KindsAre DEF Selects, LiveAs
  <1>12. ASSUME NEW c \in o \cup {d}, g1[c].type = "dc" PROVE Selects(g1, g1[c], b2[c], v2[c])
    <2>1. CASE c = d  BY <2>1, <1>9, <1>10, <1>11
    <2>2. CASE c # d
      <3>1. c \in o /\ c \in Slots  BY <2>2 DEF OneOwner
      <3>2. Selects(g1, g1[c], b[c], v[c])  BY <3>1, <1>7, <1>12 DEF Contexts
      <3> QED BY <3>1, <3>2, <2>2, <1>9
    <2> QED BY <2>1, <2>2
  <1>13. Contexts(g1, o \cup {d}, b2, v2)  BY <1>9, <1>12 DEF Contexts
  <1>14. st = u32_dc_defaults([g |-> g1, s |-> s], d)  BY <1>5 DEF NewTable
  <1>15. /\ OneOwner(st.g, st.s, o \cup {d}, w) /\ Contexts(st.g, o \cup {d}, b2, v2)
         /\ \A i \in Slots : g1[i].used /\ i # d => st.g[i] = g1[i]
         /\ st.g[d].type = "dc" /\ st.g[d].used = TRUE /\ st.g[d].stock = FALSE /\ st.g[d].sstk = <<>>
    <2>1. d \in o \cup {d} /\ g1[d] = Fresh("dc")  BY <1>1, <1>10
    <2>2. PICK o2 : o2 = o \cup {d}  OBVIOUS
    <2>3. OneOwner(g1, s, o2, w) /\ Contexts(g1, o2, b2, v2) /\ d \in o2  BY <2>2, <1>6, <1>13
    <2>4. b2[d] = NULLH /\ v2[d] = <<>> /\ DefaultsOf(g1, s, d, st)  BY <2>1, <1>9, <1>14 DEF DefaultsOf
    <2>5. OneOwner(st.g, st.s, o2, w) /\ Contexts(st.g, o2, b2, v2) /\ DefaultsGiven(g1, d, st)
      BY <2>3, <2>4, DefaultContext
    <2> QED BY <2>2, <2>5 DEF DefaultsGiven
  <1>16. Keeps(g, st.g)
    BY <1>6, <1>15 DEF Keeps
  <1> QED BY <1>5, <1>6, <1>8, <1>14, <1>15, <1>16 DEF UnsavedDC

-----------------------------------------------------------------------------
LEMMA NewContext == ASSUME GdiInv, NEW d \in Slots, ~gdi[d].used, NEW bmp \in SlotOrNone, LiveAs(gdi, bmp, "bitmap"), NewDC(d, bmp)
    PROVE GdiInv'
  <1>1. PICK st : st = u32_dc_defaults([g |-> gdi_alloc(gdi, d, "dc"), s |-> stock], d)  OBVIOUS
  <1>0. NewTable(gdi, stock, d, st)  BY <1>1 DEF NewTable
  <1>2. /\ OneOwner(st.g, st.s, owned \cup {d}, win.bmp)
        /\ Contexts(st.g, owned \cup {d}, [bound EXCEPT ![d] = NULLH], [saves EXCEPT ![d] = <<>>])
        /\ Keeps(gdi, st.g) /\ d \notin owned
        /\ st.g[d].type = "dc" /\ st.g[d].used = TRUE /\ st.g[d].stock = FALSE /\ st.g[d].sstk = <<>>
    <2>1. OneOwner(gdi, stock, owned, win.bmp) /\ Contexts(gdi, owned, bound, saves)  BY DEF GdiInv
    <2>2. /\ OneOwner(st.g, st.s, owned \cup {d}, win.bmp)
          /\ Contexts(st.g, owned \cup {d}, [bound EXCEPT ![d] = NULLH], [saves EXCEPT ![d] = <<>>])
          /\ Keeps(gdi, st.g) /\ d \notin owned /\ UnsavedDC(st.g[d])
      BY <1>0, <2>1, ContextTaken
    <2> QED BY <2>2 DEF UnsavedDC
  <1>3. /\ gdi' = IF bmp = NULLH THEN st.g ELSE [st.g EXCEPT ![d].sel.bitmap = bmp]
        /\ stock' = st.s /\ owned' = owned \cup {d} /\ bound' = [bound EXCEPT ![d] = bmp] /\ saves' = [saves EXCEPT ![d] = <<>>] /\ win' = win
    BY <1>1 DEF NewDC
  <1>4. CASE bmp = NULLH
    BY <1>2, <1>3, <1>4 DEF GdiInv
  <1>5. CASE bmp # NULLH
    <2>1. PICK r0 : r0 = st.g[d]  OBVIOUS
    <2>2. r0 \in GdiRec /\ r0.type = "dc" /\ r0.used = TRUE /\ r0.stock = FALSE /\ r0.sstk = <<>> /\ st.g \in [Slots -> GdiRec]
      BY <2>1, <1>2 DEF OneOwner
    <2>3. Selects(st.g, r0, [bound EXCEPT ![d] = NULLH][d], [saves EXCEPT ![d] = <<>>][d])
      BY <2>1, <1>2 DEF Contexts
    <2>4. PICK q : q = [r0.sel EXCEPT !["bitmap"] = bmp]  OBVIOUS
    <2>5. r0.sel \in [Kinds -> SlotOrNone]  BY <2>2 DEF GdiRec
    <2>6. /\ q \in [Kinds -> SlotOrNone] /\ q["bitmap"] = bmp /\ q["font"] = r0.sel["font"]
          /\ q["brush"] = r0.sel["brush"] /\ q["pen"] = r0.sel["pen"]
      BY <2>4, <2>5, KindsAre
    <2>7. PICK r : r = [r0 EXCEPT !.sel = q]  OBVIOUS
    <2>8. r \in GdiRec /\ r.type = "dc" /\ r.used = TRUE /\ r.stock = FALSE /\ r.sstk = <<>> /\ r.sel = q
      BY <2>2, <2>6, <2>7 DEF GdiRec
    <2>9. gdi' = [st.g EXCEPT ![d] = r]
      <3>1. gdi' = [st.g EXCEPT ![d].sel.bitmap = bmp]  BY <1>3, <1>5
      <3>2. r = [r0 EXCEPT !.sel = [r0.sel EXCEPT !.bitmap = bmp]]  BY <2>4, <2>7
      <3> QED BY <2>1, <3>1, <3>2
    <2>10. LiveAs(st.g, bmp, "bitmap")  BY <1>2, LiveKept
    <2>11. Selects(st.g, r, bmp, <<>>)
      BY <2>3, <2>6, <2>8, <2>10 DEF Selects
    <2>12. Len(r.sstk) <= SaveMax /\ <<>> \in Seq(SavedAttr)  BY <2>8, GdiAssumption
    <2>13. PICK o2, b2, v2 : o2 = owned \cup {d} /\ b2 = [bound EXCEPT ![d] = NULLH] /\ v2 = [saves EXCEPT ![d] = <<>>]  OBVIOUS
    <2>14. OneOwner(st.g, st.s, o2, win.bmp) /\ Contexts(st.g, o2, b2, v2) /\ d \in o2 /\ st.g[d].type = "dc"
      BY <1>2, <2>13
    <2>15. /\ OneOwner([st.g EXCEPT ![d] = r], st.s, o2, win.bmp)
           /\ Contexts([st.g EXCEPT ![d] = r], o2, [b2 EXCEPT ![d] = bmp], [v2 EXCEPT ![d] = <<>>])
      BY <2>14, <2>8, <2>11, <2>12, ContextChanged
    <2>16. bound' = [b2 EXCEPT ![d] = bmp] /\ saves' = [v2 EXCEPT ![d] = <<>>]
      BY <1>3, <2>13 DEF GdiInv, Contexts
    <2> QED BY <2>9, <2>13, <2>15, <2>16, <1>3 DEF GdiInv
  <1> QED BY <1>4, <1>5
\* A context names h.
Names(r, h) == \/ \E k \in Kinds : r.sel[k] = h
               \/ \E n \in 1..Len(r.sstk) : r.sstk[n].font = h \/ r.sstk[n].brush = h \/ r.sstk[n].pen = h
LEMMA ContextsFreed == ASSUME NEW g, NEW s, NEW o, NEW w, NEW b, NEW v, OneOwner(g, s, o, w), Contexts(g, o, b, v), NEW h \in Slots,
           \A d \in o \ {h} : g[d].type = "dc" => ~Names(g[d], h)
    PROVE Contexts(Freed(g, {h}), o \ {h}, [d \in Slots |-> IF b[d] \in {h} \/ d \in {h} THEN NULLH ELSE b[d]],
                   [d \in Slots |-> IF d \in {h} THEN <<>> ELSE v[d]])
  <1>1. PICK g2 : g2 = Freed(g, {h})  OBVIOUS
  <1>2. \A j \in Slots : j # h => g2[j] = g[j]  BY <1>1 DEF Freed
  <1>3. PICK b2, v2 : b2 = [d \in Slots |-> IF b[d] \in {h} \/ d \in {h} THEN NULLH ELSE b[d]] /\ v2 = [d \in Slots |-> IF d \in {h} THEN <<>> ELSE v[d]]
    OBVIOUS
  <1>4. <<>> \in Seq(SavedAttr) /\ NULLH \in SlotOrNone  BY DEF SlotOrNone
  <1>5. b2 \in [Slots -> SlotOrNone]  BY <1>3, <1>4 DEF Contexts
  <1>6. v2 \in [Slots -> Seq(SavedAttr)]  BY <1>3, <1>4 DEF Contexts
  <1>7. ASSUME NEW d \in o \ {h}, g2[d].type = "dc" PROVE Selects(g2, g2[d], b2[d], v2[d])
    <2>1. d \in Slots /\ d # h /\ g2[d] = g[d] /\ g[d] \in GdiRec /\ v2[d] = v[d] /\ b[d] \in SlotOrNone
      BY <1>2, <1>3 DEF OneOwner, Contexts
    <2>2. Selects(g, g[d], b[d], v[d]) /\ ~Names(g[d], h)  BY <2>1, <1>7 DEF Contexts
    <2>3. b[d] # h /\ b2[d] = b[d]
      <3>1. b[d] = g[d].sel["bitmap"]  BY <2>2 DEF Selects
      <3> QED BY <3>1, <2>1, <2>2, <1>3, KindsAre DEF Names
    <2>4. \A e \in SlotOrNone, k \in Kinds : e # h /\ LiveAs(g, e, k) => LiveAs(g2, e, k)
      BY <1>2 DEF LiveAs, SlotOrNone
    <2>5. Selects(g2, g[d], b[d], v[d])
      <3>1. LiveAs(g2, b[d], "bitmap")  BY <2>1, <2>2, <2>3, <2>4, KindsAre DEF Selects
      <3>2. \A k \in Kinds : g[d].sel[k] \in SlotOrNone /\ g[d].sel[k] # h
        BY <2>1, <2>2, SelectsTypes DEF Names
      <3>3. LiveAs(g2, g[d].sel["brush"], "brush") /\ LiveAs(g2, g[d].sel["pen"], "pen") /\ LiveAs(g2, g[d].sel["font"], "font")
        BY <3>2, <2>2, <2>4, KindsAre DEF Selects
      <3>4. ASSUME NEW n \in 1..Len(g[d].sstk)
            PROVE LiveAs(g2, g[d].sstk[n].brush, "brush") /\ LiveAs(g2, g[d].sstk[n].pen, "pen") /\ LiveAs(g2, g[d].sstk[n].font, "font")
        <4>1. g[d].sstk[n].brush \in SlotOrNone /\ g[d].sstk[n].pen \in SlotOrNone /\ g[d].sstk[n].font \in SlotOrNone
          BY <2>1, SelectsTypes
        <4>2. g[d].sstk[n].brush # h /\ g[d].sstk[n].pen # h /\ g[d].sstk[n].font # h
          BY <2>2 DEF Names
        <4>3. LiveAs(g, g[d].sstk[n].brush, "brush") /\ LiveAs(g, g[d].sstk[n].pen, "pen") /\ LiveAs(g, g[d].sstk[n].font, "font")
          BY <2>2 DEF Selects
        <4> QED BY <4>1, <4>2, <4>3, <2>4, KindsAre
      <3> QED BY <3>1, <3>3, <3>4, <2>2 DEF Selects
    <2> QED BY <2>1, <2>3, <2>5
  <1>8. Contexts(g2, o \ {h}, b2, v2)  BY <1>5, <1>6, <1>7 DEF Contexts
  <1> QED BY <1>1, <1>3, <1>8
LEMMA FreeKeeps == ASSUME GdiInv, NEW h \in owned, \A d \in owned \ {h} : gdi[d].type = "dc" => ~Names(gdi[d], h),
           Free({h}), UNCHANGED <<stock, win>>
    PROVE GdiInv'
  <1>1. h \in Slots /\ {h} \subseteq owned  BY DEF GdiInv, OneOwner
  <1>2. OneOwner(Freed(gdi, {h}), stock, owned \ {h}, win.bmp)
    BY <1>1, GiveBack DEF GdiInv
  <1>3. Contexts(Freed(gdi, {h}), owned \ {h}, [d \in Slots |-> IF bound[d] \in {h} \/ d \in {h} THEN NULLH ELSE bound[d]],
                   [d \in Slots |-> IF d \in {h} THEN <<>> ELSE saves[d]])
    BY <1>1, ContextsFreed DEF GdiInv
  <1> QED BY <1>2, <1>3 DEF Free, GdiInv
\* A device context is named by no other.
LEMMA ContextUnnamed == ASSUME GdiInv, NEW h \in owned, gdi[h].type = "dc", NEW d \in owned, gdi[d].type = "dc" PROVE ~Names(gdi[d], h)
  <1>1. h \in Slots /\ d \in Slots /\ gdi[d] \in GdiRec  BY DEF GdiInv, OneOwner
  <1>2. Selects(gdi, gdi[d], bound[d], saves[d])  BY DEF GdiInv, Contexts
  <1>3. h # NULLH  BY <1>1, SlotsAre
  <1>4. \A k \in Kinds : gdi[d].sel[k] # h  BY <1>2, <1>3, KindsAre DEF Selects, LiveAs
  <1>5. \A n \in 1..Len(gdi[d].sstk) : gdi[d].sstk[n].font # h /\ gdi[d].sstk[n].brush # h /\ gdi[d].sstk[n].pen # h
    BY <1>2, <1>3 DEF Selects, LiveAs
  <1> QED BY <1>4, <1>5 DEF Names

\* One context of the program gets another record, and the ghosts follow.
LEMMA Changed == ASSUME GdiInv, NEW d \in owned, gdi[d].type = "dc", NEW r \in GdiRec, r.used = TRUE, r.type = "dc", r.stock = FALSE,
           Len(r.sstk) <= SaveMax, NEW bmp \in SlotOrNone, NEW saved \in Seq(SavedAttr), Selects(gdi, r, bmp, saved),
           gdi' = [gdi EXCEPT ![d] = r], bound' = [bound EXCEPT ![d] = bmp], saves' = [saves EXCEPT ![d] = saved],
           UNCHANGED <<stock, win, owned>>
    PROVE GdiInv'
  <1>1. /\ OneOwner([gdi EXCEPT ![d] = r], stock, owned, win.bmp)
        /\ Contexts([gdi EXCEPT ![d] = r], owned, [bound EXCEPT ![d] = bmp], [saves EXCEPT ![d] = saved])
    BY ContextChanged DEF GdiInv
  <1> QED BY <1>1 DEF GdiInv
LEMMA ContextIs == ASSUME GdiInv, NEW d \in DCs
    PROVE /\ d \in owned /\ d \in Slots /\ gdi[d] \in GdiRec /\ gdi[d].type = "dc" /\ gdi[d].used = TRUE /\ gdi[d].stock = FALSE
          /\ Selects(gdi, gdi[d], bound[d], saves[d]) /\ bound[d] \in SlotOrNone /\ saves[d] \in Seq(SavedAttr)
          /\ Len(gdi[d].sstk) <= SaveMax
          /\ [bound EXCEPT ![d] = bound[d]] = bound /\ [saves EXCEPT ![d] = saves[d]] = saves
  <1>1. d \in owned /\ d \in Slots /\ gdi[d] \in GdiRec /\ gdi[d].type = "dc"  BY DEF DCs, GdiInv, OneOwner
  <1>2. gdi[d].used /\ ~gdi[d].stock /\ gdi[d].used \in BOOLEAN /\ gdi[d].stock \in BOOLEAN  BY <1>1 DEF GdiInv, OneOwner, GdiRec
  <1>3. Selects(gdi, gdi[d], bound[d], saves[d]) /\ bound[d] \in SlotOrNone /\ saves[d] \in Seq(SavedAttr)
    BY <1>1 DEF GdiInv, Contexts
  <1>4. Len(gdi[d].sstk) <= SaveMax  BY <1>1 DEF GdiInv, OneOwner
  <1>5. [bound EXCEPT ![d] = bound[d]] = bound /\ [saves EXCEPT ![d] = saves[d]] = saves
    BY <1>1 DEF GdiInv, Contexts
  <1> QED BY <1>1, <1>2, <1>3, <1>4, <1>5
\* Colours, modes and extents.
LEMMA ModeKeeps == ASSUME GdiInv, NEW d \in DCs, NEW t \in Nat, NEW m \in Nat, NEW e \in Nat,
           gdi' = [gdi EXCEPT ![d] = [gdi[d] EXCEPT !.text = t, !.mapmode = m, !.ext = e]], UNCHANGED <<stock, win, owned, bound, saves>>
    PROVE GdiInv'
  <1>1. PICK r0 : r0 = gdi[d]  OBVIOUS
  <1>2. PICK r : r = [r0 EXCEPT !.text = t, !.mapmode = m, !.ext = e]  OBVIOUS
  <1>3. r0 \in GdiRec /\ r0.type = "dc" /\ r0.used = TRUE /\ r0.stock = FALSE  BY <1>1, ContextIs
  <1>4. /\ r \in GdiRec /\ r.type = "dc" /\ r.used = TRUE /\ r.stock = FALSE /\ r.sstk = r0.sstk /\ r.sel = r0.sel
    BY <1>2, <1>3 DEF GdiRec
  <1>5. Selects(gdi, r, bound[d], saves[d])
    <2>1. Selects(gdi, r0, bound[d], saves[d])  BY <1>1, ContextIs
    <2> QED BY <2>1, <1>4 DEF Selects
  <1>6. Len(r.sstk) <= SaveMax  BY <1>1, <1>4, ContextIs
  <1>7. d \in owned /\ gdi[d].type = "dc" /\ bound[d] \in SlotOrNone /\ saves[d] \in Seq(SavedAttr)  BY ContextIs
  <1>8. gdi' = [gdi EXCEPT ![d] = r] /\ bound' = [bound EXCEPT ![d] = bound[d]] /\ saves' = [saves EXCEPT ![d] = saves[d]]
    BY <1>1, <1>2, ContextIs
  <1> QED BY <1>4, <1>5, <1>6, <1>7, <1>8, Changed
LEMMA ModeStep == ASSUME GdiInv, NEW d \in DCs, ModeOps(d) PROVE GdiInv'
  <1>1. PICK r : r = gdi[d]  OBVIOUS
  <1>2. r \in GdiRec /\ d \in Slots /\ gdi \in [Slots -> GdiRec]  BY <1>1, ContextIs DEF GdiInv, OneOwner
  <1>3. r.text \in Nat /\ r.mapmode \in Nat /\ r.ext \in Nat  BY <1>2 DEF GdiRec
  <1>4. CASE SetTextColor(d, 1)
    <2>1. [r EXCEPT !.text = 1] = [r EXCEPT !.text = 1, !.mapmode = r.mapmode, !.ext = r.ext]  BY <1>2 DEF GdiRec
    <2>2. gdi' = [gdi EXCEPT ![d] = [gdi[d] EXCEPT !.text = 1, !.mapmode = r.mapmode, !.ext = r.ext]]
      BY <1>1, <1>4, <2>1 DEF SetTextColor
    <2>3. 1 \in Nat /\ UNCHANGED <<stock, win, owned, bound, saves>>  BY <1>4 DEF SetTextColor
    <2> QED BY <2>2, <2>3, <1>3, ModeKeeps
  <1>5. ASSUME NEW m \in {MM_TEXT, MM_ANISOTROPIC}, SetMapMode(d, m) PROVE GdiInv'
    <2>1. PICK e : e = IF m = MM_TEXT THEN 1 ELSE r.ext  OBVIOUS
    <2>2. e \in Nat /\ m \in Nat  BY <2>1, <1>3 DEF MM_TEXT, MM_ANISOTROPIC
    <2>3. [r EXCEPT !.mapmode = m, !.ext = e] = [r EXCEPT !.text = r.text, !.mapmode = m, !.ext = e]  BY <1>2, <2>2 DEF GdiRec
    <2>4. gdi' = [gdi EXCEPT ![d] = [r EXCEPT !.mapmode = m, !.ext = e]]
      <3>1. gdi' = [gdi EXCEPT ![d].mapmode = m, ![d].ext = IF m = MM_TEXT THEN 1 ELSE @]  BY <1>5 DEF SetMapMode
      <3> QED BY <3>1, <2>1, <1>1, <1>2 DEF GdiRec
    <2>5. gdi' = [gdi EXCEPT ![d] = [gdi[d] EXCEPT !.text = r.text, !.mapmode = m, !.ext = e]]
      BY <1>1, <2>3, <2>4
    <2>6. UNCHANGED <<stock, win, owned, bound, saves>>  BY <1>5 DEF SetMapMode
    <2> QED BY <2>5, <2>6, <2>2, <1>3, ModeKeeps
  <1>6. CASE SetWindowExtEx(d, 2)
    <2>1. [r EXCEPT !.ext = 2] = [r EXCEPT !.text = r.text, !.mapmode = r.mapmode, !.ext = 2]  BY <1>2 DEF GdiRec
    <2>2. gdi' = [gdi EXCEPT ![d] = [gdi[d] EXCEPT !.text = r.text, !.mapmode = r.mapmode, !.ext = 2]]
      BY <1>1, <1>6, <2>1 DEF SetWindowExtEx
    <2>3. 2 \in Nat /\ UNCHANGED <<stock, win, owned, bound, saves>>  BY <1>6 DEF SetWindowExtEx
    <2> QED BY <2>2, <2>3, <1>3, ModeKeeps
  <1> QED BY <1>4, <1>5, <1>6 DEF ModeOps

-----------------------------------------------------------------------------
LEMMA AttributesAre == ASSUME NEW r \in GdiRec
    PROVE /\ Attributes(r) \in SavedAttr /\ Attributes(r).font = r.sel["font"] /\ Attributes(r).brush = r.sel["brush"]
          /\ Attributes(r).pen = r.sel["pen"]
  <1>1. r.sel \in [Kinds -> SlotOrNone] /\ r.text \in Nat /\ r.mapmode \in Nat  BY DEF GdiRec
  <1>2. r.sel["font"] \in SlotOrNone /\ r.sel["brush"] \in SlotOrNone /\ r.sel["pen"] \in SlotOrNone  BY <1>1, KindsAre
  <1> QED BY <1>1, <1>2 DEF Attributes, SavedAttr
LEMMA SaveKeeps == ASSUME GdiInv, NEW d \in DCs, SaveDC(d) PROVE GdiInv'
  <1>1. PICK r0, a : r0 = gdi[d] /\ a = Attributes(r0)  OBVIOUS
  <1>2. r0 \in GdiRec /\ r0.type = "dc" /\ r0.used = TRUE /\ r0.stock = FALSE /\ d \in owned /\ bound[d] \in SlotOrNone
    BY <1>1, ContextIs
  <1>3. /\ a \in SavedAttr /\ a.font = r0.sel["font"] /\ a.brush = r0.sel["brush"] /\ a.pen = r0.sel["pen"]
    BY <1>1, <1>2, AttributesAre
  <1>4. PICK q : q = Append(r0.sstk, a)  OBVIOUS
  <1>5. r0.sstk \in Seq(SavedAttr)  BY <1>2 DEF GdiRec
  <1>6. /\ q \in Seq(SavedAttr) /\ Len(q) = Len(r0.sstk) + 1 /\ q[Len(r0.sstk) + 1] = a
        /\ \A n \in 1..Len(r0.sstk) : q[n] = r0.sstk[n]
    BY <1>3, <1>4, <1>5
  <1>7. PICK r : r = [r0 EXCEPT !.sstk = q]  OBVIOUS
  <1>8. r \in GdiRec /\ r.type = "dc" /\ r.used = TRUE /\ r.stock = FALSE /\ r.sstk = q /\ r.sel = r0.sel
    BY <1>2, <1>6, <1>7 DEF GdiRec
  <1>9. Selects(gdi, r0, bound[d], saves[d])  BY <1>1, ContextIs
  <1>10. saves[d] = r0.sstk  BY <1>9 DEF Selects
  <1>11. ASSUME NEW n \in 1..Len(q)
         PROVE LiveAs(gdi, q[n].brush, "brush") /\ LiveAs(gdi, q[n].pen, "pen") /\ LiveAs(gdi, q[n].font, "font")
    <2>1. CASE n = Len(r0.sstk) + 1  BY <2>1, <1>3, <1>6, <1>9 DEF Selects
    <2>2. CASE n # Len(r0.sstk) + 1
      <3>1. n \in 1..Len(r0.sstk)  BY <2>2, <1>5, <1>6
      <3> QED BY <3>1, <1>6, <1>9 DEF Selects
    <2> QED BY <2>1, <2>2
  <1>12. Selects(gdi, r, bound[d], q)
    BY <1>8, <1>9, <1>11 DEF Selects
  <1>13. Len(r.sstk) <= SaveMax  BY <1>1, <1>5, <1>6, <1>8, GdiAssumption DEF SaveDC
  <1>14. gdi' = [gdi EXCEPT ![d] = r] /\ saves' = [saves EXCEPT ![d] = q]
    <2>1. gdi' = [gdi EXCEPT ![d].sstk = Append(@, Attributes(gdi[d]))] /\ saves' = [saves EXCEPT ![d] = Append(@, Attributes(gdi[d]))]
      BY DEF SaveDC
    <2> QED BY <2>1, <1>1, <1>4, <1>7, <1>10
  <1>15. bound' = [bound EXCEPT ![d] = bound[d]] /\ UNCHANGED <<stock, win, owned>>  BY ContextIs DEF SaveDC
  <1>16. gdi[d].type = "dc"  BY ContextIs
  <1> QED BY <1>2, <1>6, <1>8, <1>12, <1>13, <1>14, <1>15, <1>16, Changed
\* What a restored context is: the saved entry's attributes on top of what it was, and the entries below it.
LEMMA RestoreIs == ASSUME GdiInv, NEW d \in DCs, NEW level \in Int, RestoreDC(d, level)
    PROVE \E i \in Nat : LET s == gdi[d].sstk[i + 1] IN
             /\ i < Len(gdi[d].sstk) /\ s \in SavedAttr
             /\ gdi' = [gdi EXCEPT ![d] = [gdi[d] EXCEPT !.sel = [gdi[d].sel EXCEPT !.font = s.font, !.brush = s.brush, !.pen = s.pen],
                                                          !.text = s.text, !.mapmode = s.mapmode, !.sstk = SubSeq(gdi[d].sstk, 1, i)]]
             /\ saves' = [saves EXCEPT ![d] = SubSeq(gdi[d].sstk, 1, i)]
  <1>1. PICK r0 : r0 = gdi[d]  OBVIOUS
  <1>2. r0 \in GdiRec /\ d \in Slots /\ gdi \in [Slots -> GdiRec]  BY <1>1, ContextIs DEF GdiInv, OneOwner
  <1>3. r0.sstk \in Seq(SavedAttr) /\ Len(r0.sstk) \in Nat  BY <1>2 DEF GdiRec
  <1>4. PICK i : i = RestoreIndex(level, Len(r0.sstk))  OBVIOUS
  <1>5. i \in Int  BY <1>3, <1>4 DEF RestoreIndex
  <1>6. PICK s : s = r0.sstk[i + 1]  OBVIOUS
  <1>7. /\ i >= 0 /\ i < Len(r0.sstk)
        /\ gdi' = [gdi EXCEPT ![d].sel = [@ EXCEPT !.font = s.font, !.brush = s.brush, !.pen = s.pen],
                              ![d].text = s.text, ![d].mapmode = s.mapmode, ![d].sstk = SubSeq(@, 1, i)]
    BY <1>1, <1>4, <1>6 DEF RestoreDC
  <1>8. s \in SavedAttr  BY <1>3, <1>5, <1>6, <1>7
  <1>9. gdi' = [gdi EXCEPT ![d] = [r0 EXCEPT !.sel = [r0.sel EXCEPT !.font = s.font, !.brush = s.brush, !.pen = s.pen],
                                             !.text = s.text, !.mapmode = s.mapmode, !.sstk = SubSeq(r0.sstk, 1, i)]]
    BY <1>1, <1>2, <1>7 DEF GdiRec
  <1>10. saves[d] = r0.sstk  BY <1>1, ContextIs DEF Selects
  <1>11. saves' = [saves EXCEPT ![d] = SubSeq(r0.sstk, 1, i)]
    <2>1. saves' = [saves EXCEPT ![d] = SubSeq(@, 1, IF level < 0 THEN Len(@) + level ELSE level - 1)]  BY DEF RestoreDC
    <2> QED BY <2>1, <1>4, <1>10 DEF RestoreIndex
  <1>12. i \in Nat  BY <1>5, <1>7
  <1>13. LET e == gdi[d].sstk[i + 1] IN
             /\ i < Len(gdi[d].sstk) /\ e \in SavedAttr
             /\ gdi' = [gdi EXCEPT ![d] = [gdi[d] EXCEPT !.sel = [gdi[d].sel EXCEPT !.font = e.font, !.brush = e.brush, !.pen = e.pen],
                                                          !.text = e.text, !.mapmode = e.mapmode, !.sstk = SubSeq(gdi[d].sstk, 1, i)]]
             /\ saves' = [saves EXCEPT ![d] = SubSeq(gdi[d].sstk, 1, i)]
    BY <1>1, <1>6, <1>7, <1>8, <1>9, <1>11, Zenon
  <1> QED BY <1>12, <1>13, Zenon
LEMMA RestoreKeeps == ASSUME GdiInv, NEW d \in DCs, NEW level \in Int, RestoreDC(d, level) PROVE GdiInv'
  <1>1. PICK r0 : r0 = gdi[d]  OBVIOUS
  <1>2. PICK i \in Nat : LET s == gdi[d].sstk[i + 1] IN
             /\ i < Len(gdi[d].sstk) /\ s \in SavedAttr
             /\ gdi' = [gdi EXCEPT ![d] = [gdi[d] EXCEPT !.sel = [gdi[d].sel EXCEPT !.font = s.font, !.brush = s.brush, !.pen = s.pen],
                                                          !.text = s.text, !.mapmode = s.mapmode, !.sstk = SubSeq(gdi[d].sstk, 1, i)]]
             /\ saves' = [saves EXCEPT ![d] = SubSeq(gdi[d].sstk, 1, i)]
    BY RestoreIs
  <1>3. PICK s : s = r0.sstk[i + 1]  OBVIOUS
  <1>4. PICK q : q = SubSeq(r0.sstk, 1, i)  OBVIOUS
  <1>5. PICK z : z = [r0.sel EXCEPT !["font"] = s.font, !["brush"] = s.brush, !["pen"] = s.pen]  OBVIOUS
  <1>6. PICK r : r = [r0 EXCEPT !.sel = z, !.text = s.text, !.mapmode = s.mapmode, !.sstk = q]  OBVIOUS
  <1>7. i < Len(r0.sstk) /\ s \in SavedAttr /\ gdi' = [gdi EXCEPT ![d] = r] /\ saves' = [saves EXCEPT ![d] = q]
    BY <1>1, <1>2, <1>3, <1>4, <1>5, <1>6
  <1>8. r0 \in GdiRec /\ r0.type = "dc" /\ r0.used = TRUE /\ r0.stock = FALSE /\ d \in owned /\ bound[d] \in SlotOrNone /\ Len(r0.sstk) <= SaveMax
    BY <1>1, ContextIs
  <1>9. r0.sstk \in Seq(SavedAttr) /\ r0.sel \in [Kinds -> SlotOrNone]  BY <1>8 DEF GdiRec
  <1>10. q \in Seq(SavedAttr) /\ Len(q) = i /\ \A n \in 1..i : q[n] = r0.sstk[n] /\ n \in 1..Len(r0.sstk)
    BY <1>4, <1>7, <1>9, SubSeqProperties
  <1>11. s.font \in SlotOrNone /\ s.brush \in SlotOrNone /\ s.pen \in SlotOrNone /\ s.text \in Nat /\ s.mapmode \in Nat
    BY <1>7 DEF SavedAttr
  <1>12. /\ z \in [Kinds -> SlotOrNone] /\ z["font"] = s.font /\ z["brush"] = s.brush /\ z["pen"] = s.pen /\ z["bitmap"] = r0.sel["bitmap"]
    BY <1>5, <1>9, <1>11, KindsAre
  <1>13. r \in GdiRec /\ r.type = "dc" /\ r.used = TRUE /\ r.stock = FALSE /\ r.sstk = q /\ r.sel = z
    BY <1>6, <1>8, <1>10, <1>11, <1>12 DEF GdiRec
  <1>14. Selects(gdi, r0, bound[d], saves[d])  BY <1>1, ContextIs
  <1>15. i + 1 \in 1..Len(r0.sstk)  BY <1>7, <1>9
  <1>16. LiveAs(gdi, s.brush, "brush") /\ LiveAs(gdi, s.pen, "pen") /\ LiveAs(gdi, s.font, "font")
    BY <1>3, <1>14, <1>15 DEF Selects
  <1>17. ASSUME NEW n \in 1..Len(q)
         PROVE LiveAs(gdi, q[n].brush, "brush") /\ LiveAs(gdi, q[n].pen, "pen") /\ LiveAs(gdi, q[n].font, "font")
    <2>1. n \in 1..i  BY <1>10
    <2>2. q[n] = r0.sstk[n] /\ n \in 1..Len(r0.sstk)  BY <2>1, <1>10
    <2> QED BY <2>2, <1>14 DEF Selects
  <1>18. Selects(gdi, r, bound[d], q)
    BY <1>12, <1>13, <1>14, <1>16, <1>17 DEF Selects
  <1>19. Len(r.sstk) <= SaveMax  BY <1>7, <1>8, <1>9, <1>10, <1>13, GdiAssumption
  <1>20. bound' = [bound EXCEPT ![d] = bound[d]] /\ UNCHANGED <<stock, win, owned>> /\ gdi[d].type = "dc"  BY ContextIs DEF RestoreDC
  <1> QED BY <1>7, <1>8, <1>10, <1>13, <1>18, <1>19, <1>20, Changed
LEMMA SelectKeeps == ASSUME GdiInv, NEW d \in DCs, NEW x \in Slots, SelectObject(d, x) PROVE GdiInv'
  <1>1. PICK r0, k : r0 = gdi[d] /\ k = gdi[x].type  OBVIOUS
  <1>2. r0 \in GdiRec /\ r0.type = "dc" /\ r0.used = TRUE /\ r0.stock = FALSE /\ d \in owned /\ bound[d] \in SlotOrNone /\ Len(r0.sstk) <= SaveMax
        /\ saves[d] \in Seq(SavedAttr)
    BY <1>1, ContextIs
  <1>3. k \in Kinds /\ gdi[x].used  BY <1>1 DEF SelectObject, gdi_idx
  <1>4. r0.sel \in [Kinds -> SlotOrNone]  BY <1>2 DEF GdiRec
  <1>5. PICK z : z = [r0.sel EXCEPT ![k] = x]  OBVIOUS
  <1>6. z \in [Kinds -> SlotOrNone] /\ z[k] = x /\ \A j \in Kinds : j # k => z[j] = r0.sel[j]
    BY <1>3, <1>4, <1>5 DEF SlotOrNone
  <1>7. PICK r : r = [r0 EXCEPT !.sel = z]  OBVIOUS
  <1>8. r \in GdiRec /\ r.type = "dc" /\ r.used = TRUE /\ r.stock = FALSE /\ r.sstk = r0.sstk /\ r.sel = z
    BY <1>2, <1>6, <1>7 DEF GdiRec
  <1>9. LiveAs(gdi, x, k)  BY <1>1, <1>3 DEF LiveAs
  <1>10. Selects(gdi, r0, bound[d], saves[d])  BY <1>1, ContextIs
  <1>11. PICK b : b = IF k = "bitmap" THEN x ELSE bound[d]  OBVIOUS
  <1>12. b \in SlotOrNone  BY <1>2, <1>11 DEF SlotOrNone
  <1>13. Selects(gdi, r, b, saves[d])
    <2>1. z["bitmap"] = b /\ LiveAs(gdi, b, "bitmap")  BY <1>6, <1>9, <1>10, <1>11, KindsAre DEF Selects
    <2>2. LiveAs(gdi, z["brush"], "brush") /\ LiveAs(gdi, z["pen"], "pen") /\ LiveAs(gdi, z["font"], "font")
      BY <1>6, <1>9, <1>10, KindsAre DEF Selects
    <2> QED BY <2>1, <2>2, <1>8, <1>10 DEF Selects
  <1>14. gdi' = [gdi EXCEPT ![d] = r]
    <2>1. gdi' = [gdi EXCEPT ![d].sel[k] = x]  BY <1>1 DEF SelectObject
    <2> QED BY <2>1, <1>1, <1>5, <1>7
  <1>15. bound' = [bound EXCEPT ![d] = b]
    <2>1. CASE k = "bitmap"  BY <2>1, <1>1, <1>11 DEF SelectObject
    <2>2. CASE k # "bitmap"  BY <2>2, <1>1, <1>11, ContextIs DEF SelectObject
    <2> QED BY <2>1, <2>2
  <1>16. saves' = [saves EXCEPT ![d] = saves[d]] /\ UNCHANGED <<stock, win, owned>> /\ gdi[d].type = "dc"  BY ContextIs DEF SelectObject
  <1>17. Len(r.sstk) <= SaveMax  BY <1>2, <1>8
  <1> QED BY <1>2, <1>8, <1>12, <1>13, <1>14, <1>15, <1>16, <1>17, Changed

-----------------------------------------------------------------------------
LEMMA StockStep == ASSUME GdiInv, NEW id \in StockIds, GetStockObject(id) PROVE GdiInv'
  <1>1. PICK st : st = u32_stock([g |-> gdi, s |-> stock], id)  OBVIOUS
  <1>2. OneOwner(gdi, stock, owned, win.bmp) /\ Contexts(gdi, owned, bound, saves)  BY DEF GdiInv
  <1>3. OneOwner(st.g, st.s, owned, win.bmp) /\ Keeps(gdi, st.g)  BY <1>1, <1>2, StockKeeps
  <1>4. Contexts(st.g, owned, bound, saves)  BY <1>2, <1>3, ContextsKept
  <1>5. gdi' = st.g /\ stock' = st.s /\ UNCHANGED <<win, owned, bound, saves>>  BY <1>1 DEF GetStockObject, St
  <1> QED BY <1>3, <1>4, <1>5 DEF GdiInv
LEMMA PaletteStep == ASSUME GdiInv, NEW d \in DCs, PaletteOps(d) PROVE GdiInv'
  <1>1. PICK p \in Objects : SelectPalette(d, p)  BY DEF PaletteOps
  <1>2. p \in Slots  BY DEF Objects, GdiInv, OneOwner
  <1>3. OneOwner(gdi, stock, owned, win.bmp) /\ Contexts(gdi, owned, bound, saves)  BY DEF GdiInv
  <1>4. PICK st : st = IF gdi[d].palette = NULLH THEN u32_stock(St, 15) ELSE St  OBVIOUS
  <1>5. OneOwner(st.g, st.s, owned, win.bmp) /\ Keeps(gdi, st.g)
    <2>1. CASE gdi[d].palette = NULLH
      <3>1. 15 \in StockIds /\ St = [g |-> gdi, s |-> stock]  BY GdiAssumption DEF St
      <3>2. PICK t : t = u32_stock([g |-> gdi, s |-> stock], 15)  OBVIOUS
      <3>3. OneOwner(t.g, t.s, owned, win.bmp) /\ Keeps(gdi, t.g)  BY <3>1, <3>2, <1>3, StockKeeps
      <3> QED BY <2>1, <3>1, <3>2, <3>3, <1>4
    <2>2. CASE gdi[d].palette # NULLH
      <3>1. st.g = gdi /\ st.s = stock  BY <2>2, <1>4 DEF St
      <3> QED BY <3>1, <1>3 DEF Keeps
    <2> QED BY <2>1, <2>2
  <1>6. Contexts(st.g, owned, bound, saves)  BY <1>3, <1>5, ContextsKept
  <1>7. gdi' = [st.g EXCEPT ![d].palette = p] /\ stock' = st.s /\ UNCHANGED <<win, owned, bound, saves>>  BY <1>1, <1>4 DEF SelectPalette
  <1>8. PICK r0 : r0 = gdi[d]  OBVIOUS
  <1>9. /\ r0 \in GdiRec /\ r0.type = "dc" /\ r0.used = TRUE /\ r0.stock = FALSE /\ d \in owned /\ d \in Slots /\ Len(r0.sstk) <= SaveMax
        /\ bound[d] \in SlotOrNone /\ saves[d] \in Seq(SavedAttr)
    BY <1>8, ContextIs
  <1>10. st.g[d] = r0  BY <1>5, <1>8, <1>9 DEF Keeps
  <1>11. PICK r : r = [r0 EXCEPT !.palette = p]  OBVIOUS
  <1>12. r \in GdiRec /\ r.type = "dc" /\ r.used = TRUE /\ r.stock = FALSE /\ r.sstk = r0.sstk /\ r.sel = r0.sel
    <2>1. p \in SlotOrNone  BY <1>2 DEF SlotOrNone
    <2> QED BY <2>1, <1>9, <1>11 DEF GdiRec
  <1>13. Selects(st.g, r, bound[d], saves[d])
    <2>1. Selects(st.g, r0, bound[d], saves[d])  BY <1>6, <1>9, <1>10 DEF Contexts
    <2> QED BY <2>1, <1>12 DEF Selects
  <1>14. gdi' = [st.g EXCEPT ![d] = r]  BY <1>7, <1>10, <1>11
  <1>15. Len(r.sstk) <= SaveMax  BY <1>9, <1>12
  <1>16. st.g[d].type = "dc"  BY <1>9, <1>10
  <1>17. /\ OneOwner([st.g EXCEPT ![d] = r], st.s, owned, win.bmp)
         /\ Contexts([st.g EXCEPT ![d] = r], owned, [bound EXCEPT ![d] = bound[d]], [saves EXCEPT ![d] = saves[d]])
    BY <1>5, <1>6, <1>9, <1>12, <1>13, <1>15, <1>16, ContextChanged
  <1>18. [bound EXCEPT ![d] = bound[d]] = bound /\ [saves EXCEPT ![d] = saves[d]] = saves  BY ContextIs
  <1> QED BY <1>7, <1>14, <1>17, <1>18 DEF GdiInv
\* A slot taken and given back at once, because the pixels were refused.
LEMMA Refused == ASSUME NEW g, NEW s, NEW o, NEW w, OneOwner(g, s, o, w), NEW i \in Slots, ~g[i].used, NEW t \in Types
    PROVE /\ OneOwner([[g EXCEPT ![i] = Fresh(t)] EXCEPT ![i].used = FALSE], s, o, w)
          /\ Keeps(g, [[g EXCEPT ![i] = Fresh(t)] EXCEPT ![i].used = FALSE])
  <1>1. PICK g1 : g1 = [g EXCEPT ![i] = Fresh(t)]  OBVIOUS
  <1>2. OneOwner(g1, s, o \cup {i}, w) /\ Keeps(g, g1) /\ i \notin o  BY <1>1, TakeOwn
  <1>3. PICK o2 : o2 = o \cup {i}  OBVIOUS
  <1>4. OneOwner(Freed(g1, {i}), s, o2 \ {i}, w) /\ \A j \in Slots \ {i} : Freed(g1, {i})[j] = g1[j]
    <2>1. PICK S : S = {i}  OBVIOUS
    <2>2. OneOwner(g1, s, o2, w) /\ S \subseteq o2  BY <2>1, <1>2, <1>3
    <2>3. OneOwner(Freed(g1, S), s, o2 \ S, w) /\ \A j \in Slots \ S : Freed(g1, S)[j] = g1[j]  BY <2>2, GiveBack
    <2> QED BY <2>1, <2>3
  <1>5. o2 \ {i} = o  BY <1>2, <1>3
  <1>6. Freed(g1, {i}) = [g1 EXCEPT ![i].used = FALSE]
    <2>1. g1 \in [Slots -> GdiRec]  BY <1>2 DEF OneOwner
    <2>2. PICK x : x = [g1[i] EXCEPT !.used = FALSE]  OBVIOUS
    <2>3. Freed(g1, {i}) = [j \in Slots |-> IF j = i THEN x ELSE g1[j]]  BY <2>2 DEF Freed
    <2>4. [g1 EXCEPT ![i].used = FALSE] = [g1 EXCEPT ![i] = x]  BY <2>2
    <2> QED BY <2>1, <2>3, <2>4
  <1>7. Keeps(g, [g1 EXCEPT ![i].used = FALSE])
    <2>1. g1 \in [Slots -> GdiRec]  BY <1>2 DEF OneOwner
    <2> QED BY <2>1, <1>2 DEF Keeps
  <1> QED BY <1>1, <1>4, <1>5, <1>6, <1>7
LEMMA MakeKeeps == ASSUME GdiInv, NEW t \in Types \ {"dc"}, NEW ok \in BOOLEAN, Make(t, ok) PROVE GdiInv'
  <1>1. PICK i : i = FreeSlot(gdi)  OBVIOUS
  <1>2. OneOwner(gdi, stock, owned, win.bmp) /\ Contexts(gdi, owned, bound, saves)  BY DEF GdiInv
  <1>3. UNCHANGED <<stock, win, bound, saves>>  BY DEF Make
  <1>4. CASE i = NULLH
    <2>1. gdi' = gdi /\ owned' = owned  BY <1>1, <1>4 DEF Make, gdi_alloc
    <2> QED BY <2>1, <1>2, <1>3 DEF GdiInv
  <1>5. CASE i # NULLH /\ ok
    <2>1. i \in Slots /\ ~gdi[i].used  BY <1>1, <1>5, FreeSlotIs
    <2>2. PICK g1 : g1 = [gdi EXCEPT ![i] = Fresh(t)]  OBVIOUS
    <2>3. gdi' = g1 /\ owned' = owned \cup {i}  BY <1>1, <1>5, <2>2 DEF Make, gdi_alloc
    <2>4. OneOwner(g1, stock, owned \cup {i}, win.bmp) /\ Keeps(gdi, g1) /\ i \notin owned  BY <2>1, <2>2, <1>2, TakeOwn
    <2>5. Contexts(g1, owned, bound, saves)  BY <2>4, <1>2, ContextsKept
    <2>6. g1[i].type # "dc"
      <3>1. g1[i] = Fresh(t)  BY <2>1, <2>2, <1>2 DEF OneOwner
      <3> QED BY <3>1, FreshIs
    <2>7. Contexts(g1, owned \cup {i}, bound, saves)  BY <2>5, <2>6 DEF Contexts
    <2> QED BY <2>3, <2>4, <2>7, <1>3 DEF GdiInv
  <1>6. CASE i # NULLH /\ ~ok
    <2>1. i \in Slots /\ ~gdi[i].used  BY <1>1, <1>6, FreeSlotIs
    <2>2. PICK g1 : g1 = [[gdi EXCEPT ![i] = Fresh(t)] EXCEPT ![i].used = FALSE]  OBVIOUS
    <2>3. gdi' = g1 /\ owned' = owned  BY <1>1, <1>6, <2>2 DEF Make, gdi_alloc
    <2>4. OneOwner(g1, stock, owned, win.bmp) /\ Keeps(gdi, g1)  BY <2>1, <2>2, <1>2, Refused
    <2>5. Contexts(g1, owned, bound, saves)  BY <2>4, <1>2, ContextsKept
    <2> QED BY <2>3, <2>4, <2>5, <1>3 DEF GdiInv
  <1> QED BY <1>4, <1>5, <1>6
LEMMA MakeStep == ASSUME GdiInv, MakeOps PROVE GdiInv'
  <1>1. "brush" \in Types \ {"dc"} /\ "palette" \in Types \ {"dc"} /\ "bitmap" \in Types \ {"dc"}  BY DEF Types, Kinds
  <1>2. CASE CreateSolidBrush  BY <1>1, <1>2, MakeKeeps DEF CreateSolidBrush
  <1>3. CASE CreatePalette  BY <1>1, <1>3, MakeKeeps DEF CreatePalette
  <1>4. ASSUME NEW ok \in BOOLEAN, CreateCompatibleBitmap(ok) PROVE GdiInv'  BY <1>1, <1>4, MakeKeeps DEF CreateCompatibleBitmap
  <1> QED BY <1>2, <1>3, <1>4 DEF MakeOps

-----------------------------------------------------------------------------
LEMMA GetKeeps == ASSUME GdiInv, NEW window \in BOOLEAN, GetDC(window) PROVE GdiInv'
  <1>1. PICK d, bmp : d = FreeSlot(gdi) /\ bmp = IF window THEN win.bmp ELSE NULLH  OBVIOUS
  <1>2. CASE d = NULLH
    <2>1. UNCHANGED gdiVars  BY <1>1, <1>2 DEF GetDC
    <2> QED BY <2>1 DEF gdiVars, GdiInv
  <1>3. CASE d # NULLH
    <2>1. d \in Slots /\ ~gdi[d].used  BY <1>1, <1>3, FreeSlotIs
    <2>2. bmp \in SlotOrNone /\ LiveAs(gdi, bmp, "bitmap")
      <3>1. win.bmp \in SlotOrNone /\ LiveAs(gdi, win.bmp, "bitmap")  BY DEF GdiInv, OneOwner, LiveAs, SlotOrNone
      <3> QED BY <3>1, <1>1 DEF SlotOrNone, LiveAs
    <2>3. NewDC(d, bmp)  BY <1>1, <1>3 DEF GetDC
    <2> QED BY <2>1, <2>2, <2>3, NewContext
  <1> QED BY <1>2, <1>3
LEMMA DropContext == ASSUME GdiInv, NEW d \in DCs, Free({d}), UNCHANGED <<stock, win>> PROVE GdiInv'
  <1>1. d \in owned /\ gdi[d].type = "dc"  BY DEF DCs
  <1>2. \A e \in owned \ {d} : gdi[e].type = "dc" => ~Names(gdi[e], d)  BY <1>1, ContextUnnamed
  <1> QED BY <1>1, <1>2, FreeKeeps
LEMMA ReleaseKeeps == ASSUME GdiInv, NEW d \in DCs, NEW window \in BOOLEAN, ReleaseDC(d, window) PROVE GdiInv'
  <1>1. UNCHANGED <<stock, win>>  BY DEF ReleaseDC
  <1>2. CASE Free({d})  BY <1>1, <1>2, DropContext
  <1>3. CASE UNCHANGED <<gdi, owned, bound, saves>>  BY <1>1, <1>3 DEF GdiInv
  <1> QED BY <1>2, <1>3 DEF ReleaseDC
LEMMA SelectedNames == ASSUME GdiInv, NEW d \in DCs, NEW h, Names(gdi[d], h) PROVE h \in Selected
  <1>1. gdi[d] \in GdiRec  BY ContextIs
  <1>2. CASE \E k \in Kinds : gdi[d].sel[k] = h  BY <1>2 DEF Selected
  <1>3. ASSUME NEW n \in 1..Len(gdi[d].sstk), gdi[d].sstk[n].font = h \/ gdi[d].sstk[n].brush = h \/ gdi[d].sstk[n].pen = h
        PROVE h \in Selected
    <2>1. PICK q : q = gdi[d].sstk  OBVIOUS
    <2>2. q \in Seq(SavedAttr) /\ n \in 1..Len(q)  BY <2>1, <1>1, <1>3, SelectsTypes
    <2>3. q[n] \in ToSet(q)  BY <2>2 DEF ToSet
    <2>4. h \in {q[n].font, q[n].brush, q[n].pen}  BY <1>3, <2>1
    <2>5. h \in UNION {{s.font, s.brush, s.pen} : s \in ToSet(q)}  BY <2>3, <2>4
    <2> QED BY <2>1, <2>5 DEF Selected
  <1> QED BY <1>2, <1>3 DEF Names
LEMMA DeleteGdiKeeps == ASSUME GdiInv, NEW h \in (Objects \ Selected) \cup ({stock[id] : id \in StockIds} \ {NULLH}), DeleteObject(h)
    PROVE GdiInv'
  <1>1. UNCHANGED <<stock, win>>  BY DEF DeleteObject
  <1>2. CASE gdi[h].stock
    <2>1. UNCHANGED <<gdi, owned, bound, saves>>  BY <1>2 DEF DeleteObject
    <2> QED BY <2>1, <1>1 DEF GdiInv
  <1>3. CASE ~gdi[h].stock
    <2>1. Free({h})  BY <1>3 DEF DeleteObject
    <2>2. h \in Objects \ Selected  BY <1>3 DEF GdiInv, OneOwner
    <2>3. h \in owned  BY <2>2 DEF Objects
    <2>4. \A d \in owned \ {h} : gdi[d].type = "dc" => ~Names(gdi[d], h)
      BY <2>2, SelectedNames DEF DCs
    <2> QED BY <2>1, <2>3, <2>4, <1>1, FreeKeeps
  <1> QED BY <1>2, <1>3
LEMMA LifeStep == ASSUME GdiInv, LifeOps PROVE GdiInv'
  <1>1. CASE CreateCompatibleDC  BY <1>1, GetKeeps DEF CreateCompatibleDC
  <1>2. CASE GetDC(TRUE) \/ BeginPaint  BY <1>2, GetKeeps DEF BeginPaint
  <1>3. ASSUME NEW d \in DCs, ReleaseDC(d, TRUE) \/ ReleaseDC(d, FALSE) PROVE GdiInv'  BY <1>3, ReleaseKeeps
  <1>4. ASSUME NEW d \in DCs, EndPaint(d) \/ DeleteDC(d) PROVE GdiInv'
    <2>1. Free({d}) /\ UNCHANGED <<stock, win>>  BY <1>4 DEF EndPaint, DeleteDC
    <2> QED BY <2>1, DropContext
  <1>5. ASSUME NEW h \in (Objects \ Selected) \cup ({stock[id] : id \in StockIds} \ {NULLH}), DeleteObject(h) PROVE GdiInv'
    BY <1>5, DeleteGdiKeeps
  <1>6. \/ CreateCompatibleDC
        \/ GetDC(TRUE) \/ BeginPaint
        \/ \E d \in DCs : ReleaseDC(d, TRUE) \/ ReleaseDC(d, FALSE)
        \/ \E d \in DCs : EndPaint(d) \/ DeleteDC(d)
        \/ \E h \in (Objects \ Selected) \cup ({stock[id] : id \in StockIds} \ {NULLH}) : DeleteObject(h)
    BY Zenon DEF LifeOps
  <1> QED BY <1>1, <1>2, <1>3, <1>4, <1>5, <1>6
LEMMA ShowKeeps == ASSUME GdiInv, Display = TRUE, NEW ok \in BOOLEAN, sdl_window_show(ok) PROVE GdiInv'
  <1>1. CASE win.sdl
    <2>1. UNCHANGED gdiVars  BY <1>1 DEF sdl_window_show
    <2> QED BY <2>1 DEF gdiVars, GdiInv
  <1>2. CASE ~win.sdl
    <2>1. win.bmp = NULLH  BY <1>2 DEF GdiInv
    <2>2. PICK b : b = FreeSlot(gdi)  OBVIOUS
    <2>3. OneOwner(gdi, stock, owned, NULLH) /\ Contexts(gdi, owned, bound, saves)  BY <2>1 DEF GdiInv
    <2>4. UNCHANGED <<stock, owned, bound, saves>> /\ win' = [bmp |-> IF b # NULLH /\ ok THEN b ELSE NULLH, sdl |-> Display]
      BY <1>2, <2>2 DEF sdl_window_show
    <2>5. win'.sdl /\ win' = [bmp |-> win'.bmp, sdl |-> win'.sdl]  BY <2>4
    <2>6. CASE b = NULLH
      <3>1. gdi' = gdi /\ win'.bmp = NULLH  BY <1>2, <2>2, <2>4, <2>6 DEF sdl_window_show
      <3> QED BY <3>1, <2>3, <2>4, <2>5 DEF GdiInv
    <2>7. CASE b # NULLH /\ ok
      <3>1. b \in Slots /\ ~gdi[b].used  BY <2>2, <2>7, FreeSlotIs
      <3>2. PICK g1 : g1 = [gdi EXCEPT ![b] = Fresh("bitmap")]  OBVIOUS
      <3>3. gdi' = g1 /\ win'.bmp = b  BY <1>2, <2>2, <2>4, <2>7, <3>2 DEF sdl_window_show, gdi_alloc
      <3>4. OneOwner(g1, stock, owned, b) /\ Keeps(gdi, g1)  BY <2>3, <3>1, <3>2, TakeWindow
      <3>5. Contexts(g1, owned, bound, saves)  BY <2>3, <3>4, ContextsKept
      <3> QED BY <3>3, <3>4, <3>5, <2>4, <2>5 DEF GdiInv
    <2>8. CASE b # NULLH /\ ~ok
      <3>1. b \in Slots /\ ~gdi[b].used  BY <2>2, <2>8, FreeSlotIs
      <3>2. PICK g1 : g1 = [[gdi EXCEPT ![b] = Fresh("bitmap")] EXCEPT ![b].used = FALSE]  OBVIOUS
      <3>3. gdi' = g1 /\ win'.bmp = NULLH  BY <1>2, <2>2, <2>4, <2>8, <3>2 DEF sdl_window_show, gdi_alloc
      <3>4. OneOwner(g1, stock, owned, NULLH) /\ Keeps(gdi, g1)  BY <2>3, <3>1, <3>2, Refused, KindsAre
      <3>5. Contexts(g1, owned, bound, saves)  BY <2>3, <3>4, ContextsKept
      <3> QED BY <3>3, <3>4, <3>5, <2>4, <2>5 DEF GdiInv
    <2> QED BY <2>6, <2>7, <2>8
  <1> QED BY <1>1, <1>2

\* The window gives its framebuffer back.
LEMMA WindowBack == ASSUME NEW g, NEW s, NEW o, NEW w \in Slots, OneOwner(g, s, o, w) PROVE OneOwner(Freed(g, {w}), s, o \ {w}, NULLH)
  <1>1. PICK g2 : g2 = Freed(g, {w})  OBVIOUS
  <1>2. g \in [Slots -> GdiRec] /\ w \notin o /\ w # NULLH  BY SlotsAre DEF OneOwner
  <1>3. PICK x : x = [g[w] EXCEPT !.used = FALSE]  OBVIOUS
  <1>4. x \in GdiRec /\ x.used = FALSE /\ x.sstk = g[w].sstk  BY <1>2, <1>3, UnusedRec
  <1>5. g2 \in [Slots -> GdiRec] /\ g2[w] = x /\ \A j \in Slots : j # w => g2[j] = g[j]
    BY <1>1, <1>2, <1>3, <1>4 DEF Freed
  <1>6. \A j \in Slots : Len(g2[j].sstk) <= SaveMax  BY <1>4, <1>5 DEF OneOwner
  <1>7. \A j \in Slots : g2[j].used <=> (j \in o \/ j = NULLH \/ \E id \in StockIds : s[id] = j)
    BY <1>2, <1>4, <1>5, SlotsAre DEF OneOwner
  <1>8. \A id \in StockIds : s[id] # NULLH => s[id] \notin o /\ g2[s[id]].stock /\ g2[s[id]].type = StockType(id)
    BY <1>5 DEF OneOwner, SlotOrNone
  <1>9. \A h \in o : ~g2[h].stock  BY <1>2, <1>5 DEF OneOwner
  <1>10. o \ {w} = o  BY <1>2
  <1>11. s \in [StockIds -> SlotOrNone] /\ o \subseteq Slots /\ NULLH \in SlotOrNone  BY DEF OneOwner, SlotOrNone
  <1>12. OneOwner(g2, s, o, NULLH)  BY <1>5, <1>6, <1>7, <1>8, <1>9, <1>11 DEF OneOwner
  <1> QED BY <1>1, <1>10, <1>12
LEMMA DestroyGdiKeeps == ASSUME GdiInv, \A d \in DCs : ~OfWindow(d), sdl_window_destroy PROVE GdiInv'
  <1>1. PICK w : w = win.bmp  OBVIOUS
  <1>2. OneOwner(gdi, stock, owned, w) /\ Contexts(gdi, owned, bound, saves) /\ w \in SlotOrNone  BY <1>1 DEF GdiInv, OneOwner
  <1>3. stock' = stock /\ win' = [bmp |-> NULLH, sdl |-> FALSE]  BY DEF sdl_window_destroy
  <1>4. win'.bmp = NULLH /\ win' = [bmp |-> win'.bmp, sdl |-> win'.sdl]  BY <1>3
  <1>5. CASE w = NULLH
    <2>1. ~gdi_idx(gdi, w)  BY <1>5, SlotsAre DEF gdi_idx
    <2>2. UNCHANGED <<gdi, owned, bound, saves>>  BY <2>1, <1>1 DEF sdl_window_destroy
    <2> QED BY <2>2, <1>2, <1>3, <1>4, <1>5 DEF GdiInv
  <1>6. CASE w # NULLH
    <2>1. w \in Slots /\ gdi[w].used /\ gdi[w].type = "bitmap" /\ w \notin owned  BY <1>2, <1>6 DEF OneOwner, SlotOrNone
    <2>2. Free({w})  BY <2>1, <1>1 DEF sdl_window_destroy, gdi_idx
    <2>3. ASSUME NEW d \in owned \ {w}, gdi[d].type = "dc" PROVE ~Names(gdi[d], w)
      <3>1. d \in DCs  BY <2>3 DEF DCs
      <3>2. bound[d] # w  BY <3>1, <1>1, <1>6 DEF OfWindow
      <3>3. Selects(gdi, gdi[d], bound[d], saves[d])  BY <3>1, ContextIs
      <3>4. \A k \in Kinds : gdi[d].sel[k] # w  BY <3>2, <3>3, <2>1, <1>6, KindsAre DEF Selects, LiveAs
      <3>5. \A n \in 1..Len(gdi[d].sstk) : gdi[d].sstk[n].font # w /\ gdi[d].sstk[n].brush # w /\ gdi[d].sstk[n].pen # w
        BY <3>3, <2>1, <1>6 DEF Selects, LiveAs
      <3> QED BY <3>4, <3>5 DEF Names
    <2>4. \A d \in owned \ {w} : gdi[d].type = "dc" => ~Names(gdi[d], w)  BY <2>3
    <2>5. Contexts(Freed(gdi, {w}), owned \ {w}, [d \in Slots |-> IF bound[d] \in {w} \/ d \in {w} THEN NULLH ELSE bound[d]],
                   [d \in Slots |-> IF d \in {w} THEN <<>> ELSE saves[d]])
      BY <2>1, <2>4, <1>2, ContextsFreed
    <2>6. OneOwner(Freed(gdi, {w}), stock, owned \ {w}, NULLH)  BY <2>1, <1>2, WindowBack
    <2> QED BY <2>2, <2>5, <2>6, <1>3, <1>4 DEF Free, GdiInv
  <1> QED BY <1>5, <1>6
LEMMA CompositeKeeps == ASSUME GdiInv, NEW ok \in BOOLEAN, u32_composite_one_child(ok) PROVE GdiInv'
  <1>1. PICK d : d = FreeSlot(gdi)  OBVIOUS
  <1>2. PICK st : st = u32_dc_defaults([g |-> gdi_alloc(gdi, d, "dc"), s |-> stock], d)  OBVIOUS
  <1>3. PICK b : b = FreeSlot(st.g)  OBVIOUS
  <1>4. PICK g1 : g1 = gdi_alloc(st.g, b, "bitmap")  OBVIOUS
  <1>5. /\ d # NULLH
        /\ gdi' = IF b = NULLH THEN Freed(st.g, {d}) ELSE Freed(IF ok THEN [g1 EXCEPT ![d].sel.bitmap = b] ELSE g1, {b, d})
        /\ stock' = st.s /\ UNCHANGED <<win, owned, bound, saves>>
    BY <1>1, <1>2, <1>3, <1>4 DEF u32_composite_one_child
  <1>6. d \in Slots /\ ~gdi[d].used  BY <1>1, <1>5, FreeSlotIs
  <1>7. NewTable(gdi, stock, d, st)  BY <1>2 DEF NewTable
  <1>8. OneOwner(gdi, stock, owned, win.bmp) /\ Contexts(gdi, owned, bound, saves)  BY DEF GdiInv
  <1>9. PICK o2 : o2 = owned \cup {d}  OBVIOUS
  <1>10. OneOwner(st.g, st.s, o2, win.bmp) /\ Keeps(gdi, st.g) /\ d \notin owned /\ UnsavedDC(st.g[d])
    <2>1. /\ OneOwner(st.g, st.s, owned \cup {d}, win.bmp)
          /\ Contexts(st.g, owned \cup {d}, [bound EXCEPT ![d] = NULLH], [saves EXCEPT ![d] = <<>>])
          /\ Keeps(gdi, st.g) /\ d \notin owned /\ UnsavedDC(st.g[d])
      BY <1>6, <1>7, <1>8, ContextTaken
    <2> QED BY <2>1, <1>9
  <1>11. ASSUME NEW S, NEW g, OneOwner(g, st.s, owned \cup S, win.bmp), S \cap owned = {}, Keeps(gdi, g), \A j \in S : ~gdi[j].used, gdi' = Freed(g, S)
         PROVE GdiInv'
    <2>1. PICK o3 : o3 = owned \cup S  OBVIOUS
    <2>2. OneOwner(g, st.s, o3, win.bmp) /\ S \subseteq o3 /\ o3 \ S = owned  BY <1>11, <2>1 DEF OneOwner
    <2>3. OneOwner(gdi', st.s, owned, win.bmp) /\ \A j \in Slots \ S : gdi'[j] = g[j]
      <3>1. OneOwner(Freed(g, S), st.s, o3 \ S, win.bmp) /\ \A j \in Slots \ S : Freed(g, S)[j] = g[j]  BY <2>2, GiveBack
      <3> QED BY <1>11, <3>1, <2>2
    <2>4. Keeps(gdi, gdi')  BY <1>11, <2>3 DEF Keeps
    <2>5. Contexts(gdi', owned, bound, saves)  BY <2>4, <1>8, ContextsKept
    <2> QED BY <2>3, <2>5, <1>5 DEF GdiInv
  <1>12. CASE b = NULLH
    <2>1. PICK S : S = {d}  OBVIOUS
    <2>2. OneOwner(st.g, st.s, owned \cup S, win.bmp) /\ S \cap owned = {} /\ (\A j \in S : ~gdi[j].used) /\ gdi' = Freed(st.g, S)
      BY <2>1, <1>5, <1>6, <1>9, <1>10, <1>12
    <2> QED BY <2>2, <1>10, <1>11
  <1>13. CASE b # NULLH
    <2>1. b \in Slots /\ ~st.g[b].used  BY <1>3, <1>13, FreeSlotIs
    <2>2. d # b  BY <2>1, <1>10 DEF UnsavedDC
    <2>3. ~gdi[b].used  BY <2>1, <1>10 DEF Keeps
    <2>4. g1 = [st.g EXCEPT ![b] = Fresh("bitmap")]  BY <1>4, <1>13 DEF gdi_alloc
    <2>5. OneOwner(g1, st.s, o2 \cup {b}, win.bmp) /\ Keeps(st.g, g1) /\ b \notin o2
      BY <2>1, <2>4, <1>10, TakeOwn, KindsAre
    <2>6. PICK S, o3 : S = {b, d} /\ o3 = o2 \cup {b}  OBVIOUS
    <2>7. owned \cup S = o3 /\ S \cap owned = {} /\ d \in o3 /\ \A j \in S : ~gdi[j].used  BY <2>3, <2>5, <2>6, <1>6, <1>9, <1>10
    <2>8. OneOwner(g1, st.s, o3, win.bmp) /\ Keeps(gdi, g1)  BY <2>5, <2>6, <1>10, KeepsChain
    <2>9. CASE ~ok
      <3>1. gdi' = Freed(g1, S)  BY <2>6, <2>9, <1>5, <1>13
      <3>2. OneOwner(g1, st.s, owned \cup S, win.bmp)  BY <2>7, <2>8
      <3> QED BY <3>1, <3>2, <2>7, <2>8, <1>11
    <2>10. CASE ok
      <3>1. PICK r0 : r0 = g1[d]  OBVIOUS
      <3>2. r0 = st.g[d] /\ g1 \in [Slots -> GdiRec]  BY <3>1, <2>2, <2>4, <2>8, <1>6, <1>10 DEF OneOwner
      <3>3. r0 \in GdiRec /\ r0.type = "dc" /\ r0.used = TRUE /\ r0.stock = FALSE /\ r0.sstk = <<>>
        BY <3>1, <3>2, <1>6, <1>10 DEF UnsavedDC
      <3>4. PICK z : z = [r0.sel EXCEPT !["bitmap"] = b]  OBVIOUS
      <3>5. z \in [Kinds -> SlotOrNone]
        <4>1. r0.sel \in [Kinds -> SlotOrNone] /\ b \in SlotOrNone  BY <3>3, <2>1 DEF GdiRec, SlotOrNone
        <4> QED BY <4>1, <3>4
      <3>6. PICK r : r = [r0 EXCEPT !.sel = z]  OBVIOUS
      <3>7. r \in GdiRec /\ r.type = "dc" /\ r.used = TRUE /\ r.stock = FALSE /\ r.sstk = <<>>
        BY <3>3, <3>5, <3>6 DEF GdiRec
      <3>8. PICK g2 : g2 = [g1 EXCEPT ![d] = r]  OBVIOUS
      <3>9. [g1 EXCEPT ![d].sel.bitmap = b] = g2
        <4>1. r = [r0 EXCEPT !.sel = [r0.sel EXCEPT !.bitmap = b]]  BY <3>4, <3>6
        <4> QED BY <4>1, <3>1, <3>8
      <3>10. Len(r.sstk) <= SaveMax /\ g1[d].type = "dc"  BY <3>1, <3>3, <3>7, GdiAssumption
      <3>11. OneOwner(g2, st.s, o3, win.bmp)  BY <3>7, <3>8, <3>10, <2>7, <2>8, RecordOwners
      <3>12. Keeps(gdi, g2)  BY <3>2, <3>8, <2>8, <1>6 DEF Keeps
      <3>13. gdi' = Freed(g2, S)  BY <3>9, <2>6, <2>10, <1>5, <1>13
      <3>14. OneOwner(g2, st.s, owned \cup S, win.bmp)  BY <3>11, <2>7
      <3> QED BY <3>12, <3>13, <3>14, <2>7, <1>11
    <2> QED BY <2>9, <2>10
  <1> QED BY <1>12, <1>13
LEMMA FrameStep == ASSUME GdiInv, Display = TRUE, WindowFrameOps PROVE GdiInv'
  <1>1. ASSUME NEW ok \in BOOLEAN, sdl_window_show(ok) PROVE GdiInv'  BY <1>1, ShowKeeps
  <1>2. ASSUME NEW ok \in BOOLEAN, u32_ensure_child_bmp(ok) PROVE GdiInv'  BY <1>2, ShowKeeps DEF u32_ensure_child_bmp
  <1>3. ASSUME NEW ok \in BOOLEAN, u32_composite_one_child(ok) PROVE GdiInv'  BY <1>3, CompositeKeeps
  <1>4. CASE (\A d \in DCs : ~OfWindow(d)) /\ sdl_window_destroy  BY <1>4, DestroyGdiKeeps
  <1> QED BY <1>1, <1>2, <1>3, <1>4 DEF WindowFrameOps
LEMMA ObjectsAreSlots == ASSUME GdiInv, NEW x \in Objects \cup ({stock[0], stock[7]} \ {NULLH}) PROVE x \in Slots
  <1>1. 0 \in StockIds /\ 7 \in StockIds  BY GdiAssumption
  <1> QED BY <1>1 DEF Objects, GdiInv, OneOwner, SlotOrNone
LEMMA DcStep == ASSUME GdiInv, NEW d \in DCs, SaveOps(d) \/ SelectOps(d) \/ ModeOps(d) \/ PaletteOps(d) PROVE GdiInv'
  <1>1. CASE SaveDC(d)  BY <1>1, SaveKeeps
  <1>2. ASSUME NEW level \in {-2, -1, 1, 2}, RestoreDC(d, level) PROVE GdiInv'
    <2>1. level \in Int  OBVIOUS
    <2> QED BY <2>1, <1>2, RestoreKeeps
  <1>3. CASE SelectOps(d)
    <2>1. PICK x \in Objects \cup ({stock[0], stock[7]} \ {NULLH}) : SelectObject(d, x)  BY <1>3 DEF SelectOps
    <2> QED BY <2>1, ObjectsAreSlots, SelectKeeps
  <1>4. CASE ModeOps(d)  BY <1>4, ModeStep
  <1>5. CASE PaletteOps(d)  BY <1>5, PaletteStep
  <1> QED BY <1>1, <1>2, <1>3, <1>4, <1>5 DEF SaveOps
LEMMA GdiStep == ASSUME GdiInv, Display = TRUE, [GdiNext]_gdiVars PROVE GdiInv'
  <1>1. CASE LifeOps  BY <1>1, LifeStep
  <1>2. CASE MakeOps  BY <1>2, MakeStep
  <1>3. CASE StockOps  BY <1>3, StockStep DEF StockOps
  <1>4. CASE WindowFrameOps  BY <1>4, FrameStep
  <1>5. ASSUME NEW d \in DCs, SaveOps(d) \/ SelectOps(d) \/ ModeOps(d) \/ PaletteOps(d) PROVE GdiInv'  BY <1>5, DcStep
  <1>6. CASE UNCHANGED gdiVars  BY <1>6 DEF gdiVars, GdiInv
  <1> QED BY <1>1, <1>2, <1>3, <1>4, <1>5, <1>6 DEF GdiNext
LEMMA GdiStart == ASSUME GdiInit PROVE GdiInv
  <1>1. PICK r : r = [Fresh("dc") EXCEPT !.used = FALSE]  OBVIOUS
  <1>2. r \in GdiRec /\ r.used = FALSE /\ r.sstk = <<>>
    <2>1. Fresh("dc") \in GdiRec /\ Fresh("dc").sstk = <<>>  BY FreshIs, KindsAre
    <2> QED BY <2>1, <1>1, UnusedRec
  <1>3. gdi = [i \in Slots |-> r]  BY <1>1 DEF GdiInit
  <1>4. <<>> \in Seq(SavedAttr) /\ NULLH \in SlotOrNone  BY DEF SlotOrNone
  <1>5. win.bmp = NULLH /\ win = [bmp |-> win.bmp, sdl |-> win.sdl] /\ owned = {}  BY DEF GdiInit
  <1>6. stock \in [StockIds -> SlotOrNone] /\ \A id \in StockIds : stock[id] = NULLH  BY <1>4 DEF GdiInit
  <1>7. bound \in [Slots -> SlotOrNone]  BY <1>4 DEF GdiInit
  <1>8. saves \in [Slots -> Seq(SavedAttr)]  BY <1>4 DEF GdiInit
  <1>9. gdi \in [Slots -> GdiRec] /\ \A i \in Slots : gdi[i].used = FALSE /\ gdi[i].sstk = <<>>  BY <1>2, <1>3
  <1>10. \A i \in Slots : Len(gdi[i].sstk) <= SaveMax  BY <1>9, GdiAssumption
  <1>11. \A i \in Slots : gdi[i].used <=> (i \in owned \/ i = win.bmp \/ \E id \in StockIds : stock[id] = i)
    BY <1>5, <1>6, <1>9, SlotsAre
  <1>12. OneOwner(gdi, stock, owned, win.bmp)  BY <1>4, <1>5, <1>6, <1>9, <1>10, <1>11 DEF OneOwner
  <1> QED BY <1>5, <1>7, <1>8, <1>12 DEF GdiInv, Contexts
LEMMA GdiOwns == ASSUME GdiInv PROVE GdiOwnership
  <1>1. GdiTypeOK
    <2>1. \A i \in Slots : gdi[i].type \in Types /\ Len(gdi[i].sstk) <= SaveMax  BY DEF GdiInv, OneOwner, GdiRec
    <2> QED BY <2>1 DEF GdiTypeOK, GdiInv, OneOwner, SlotOrNone
  <1>2. StockKept  BY DEF StockKept, GdiInv, OneOwner, SlotOrNone
  <1>3. ASSUME NEW d \in DCs PROVE gdi_dc_surface(d) = bound[d]
    <2>1. /\ d \in Slots /\ gdi[d].used = TRUE /\ gdi[d].type = "dc"
          /\ Selects(gdi, gdi[d], bound[d], saves[d]) /\ bound[d] \in SlotOrNone
      BY ContextIs
    <2>2. gdi[d].sel["bitmap"] = bound[d] /\ LiveAs(gdi, bound[d], "bitmap")  BY <2>1 DEF Selects
    <2>3. IsDC(d)  BY <2>1 DEF IsDC, gdi_idx
    <2>4. CASE bound[d] = NULLH  BY <2>2, <2>4, SlotsAre DEF gdi_dc_surface, gdi_idx
    <2>5. CASE bound[d] # NULLH
      <3>1. bound[d] \in Slots /\ gdi[bound[d]].used /\ gdi[bound[d]].type = "bitmap"  BY <2>1, <2>2, <2>5 DEF LiveAs, SlotOrNone
      <3> QED BY <2>2, <2>3, <3>1 DEF gdi_dc_surface, gdi_idx
    <2> QED BY <2>4, <2>5
  <1>4. ASSUME NEW d \in DCs, NEW k \in Kinds \ {"bitmap"}, gdi[d].sel[k] # NULLH
        PROVE gdi[gdi[d].sel[k]].used /\ gdi[gdi[d].sel[k]].type = k
    <2>1. Selects(gdi, gdi[d], bound[d], saves[d])  BY ContextIs
    <2> QED BY <2>1, <1>4, KindsAre DEF Selects, LiveAs
  <1>5. NoSlotLost
    <2>1. \A i \in Slots : gdi[i].used <=> (i \in owned \/ i = win.bmp \/ \E id \in StockIds : stock[id] = i)  BY DEF GdiInv, OneOwner
    <2>2. owned \subseteq Slots /\ win.bmp \in SlotOrNone /\ \A id \in StockIds : stock[id] \in SlotOrNone  BY DEF GdiInv, OneOwner
    <2>3. ASSUME NEW i
          PROVE i \in {j \in Slots : gdi[j].used} <=> i \in owned \cup ({stock[id] : id \in StockIds} \ {NULLH}) \cup ({win.bmp} \ {NULLH})
      <3>1. CASE i \in Slots  BY <3>1, <2>1, SlotsAre
      <3>2. CASE i \notin Slots  BY <3>2, <2>2 DEF SlotOrNone
      <3> QED BY <3>1, <3>2
    <2> QED BY <2>3 DEF NoSlotLost
  <1> QED BY <1>1, <1>2, <1>3, <1>4, <1>5 DEF GdiOwnership, DrawsOwn, SelectedLive
\* Where SDL has a display, programs that give back what they took leave every slot of the GDI table with one owner, whatever the
\* size of the table and the depth of SaveDC: the stock objects stay, every context draws on and selects live objects of
\* the right kinds, and no slot is lost, also when the pixels of a bitmap are refused and when controls are composited.
THEOREM GdiOwned == ASSUME Display = TRUE PROVE GdiSpec => []GdiOwnership
  <1>1. GdiInit => GdiInv  BY GdiStart
  <1>2. GdiInv /\ [GdiNext]_gdiVars => GdiInv'  BY GdiStep
  <1>3. GdiInv => GdiOwnership  BY GdiOwns
  <1> QED BY <1>1, <1>2, <1>3, PTL DEF GdiSpec

\* The stacks of every context but one stay, or shrink only when the context goes.
StacksStay == \A d \in Slots : saves'[d] = saves[d] \/ ~IsDC(d) \/ ~gdi'[d].used \/ Len(saves[d]) <= Len(saves'[d])
RestoredRight == \A d \in Slots : Len(saves'[d]) < Len(saves[d]) /\ IsDC(d) /\ gdi'[d].used => Attributes(gdi'[d]) = saves[d][Len(saves'[d]) + 1]
LEMMA StackLens == ASSUME GdiInv, NEW d \in Slots PROVE Len(saves[d]) \in Nat
  BY DEF GdiInv, Contexts
LEMMA StayRight == ASSUME GdiInv, GdiInv', StacksStay PROVE RestoredRight
  <1>1. \A d \in Slots : Len(saves[d]) \in Nat /\ Len(saves'[d]) \in Nat  BY DEF GdiInv, Contexts
  <1>2. ASSUME NEW d \in Slots, Len(saves'[d]) < Len(saves[d]), IsDC(d), gdi'[d].used PROVE FALSE
    <2>1. ~(saves'[d] = saves[d])  BY <1>1, <1>2
    <2>2. ~(Len(saves[d]) <= Len(saves'[d]))  BY <1>1, <1>2
    <2> QED BY <2>1, <2>2, <1>2 DEF StacksStay
  <1> QED BY <1>2 DEF RestoredRight
LEMMA FreeStays == ASSUME GdiInv, NEW h \in Slots, Free({h}) PROVE StacksStay
  <1>1. \A d \in Slots : d # h => saves'[d] = saves[d]  BY DEF Free
  <1>2. ~gdi'[h].used
    <2>1. gdi' = Freed(gdi, {h})  BY DEF Free
    <2>2. gdi[h] \in GdiRec  BY DEF GdiInv, OneOwner
    <2>3. [gdi[h] EXCEPT !.used = FALSE].used = FALSE  BY <2>2, UnusedRec
    <2> QED BY <2>1, <2>3 DEF Freed
  <1> QED BY <1>1, <1>2 DEF StacksStay
LEMMA GetStays == ASSUME GdiInv, NEW window \in BOOLEAN, GetDC(window) PROVE StacksStay
  <1>1. PICK d : d = FreeSlot(gdi)  OBVIOUS
  <1>2. CASE d = NULLH  BY <1>1, <1>2 DEF GetDC, StacksStay, gdiVars
  <1>3. CASE d # NULLH
    <2>1. d \in Slots /\ ~gdi[d].used  BY <1>1, <1>3, FreeSlotIs
    <2>2. ~IsDC(d)  BY <2>1 DEF IsDC, gdi_idx
    <2>3. saves' = [saves EXCEPT ![d] = <<>>]  BY <1>1, <1>3 DEF GetDC, NewDC
    <2>4. \A e \in Slots : e # d => saves'[e] = saves[e]  BY <2>3 DEF GdiInv, Contexts
    <2> QED BY <2>2, <2>4 DEF StacksStay
  <1> QED BY <1>2, <1>3
LEMMA DcStays == ASSUME GdiInv, NEW d \in DCs, SaveDC(d) \/ SelectOps(d) \/ ModeOps(d) \/ PaletteOps(d) PROVE StacksStay
  <1>1. CASE SaveDC(d)
    <2>1. saves' = [saves EXCEPT ![d] = Append(@, Attributes(gdi[d]))]  BY <1>1 DEF SaveDC
    <2>2. d \in Slots /\ saves[d] \in Seq(SavedAttr) /\ gdi[d] \in GdiRec /\ saves \in [Slots -> Seq(SavedAttr)]
      BY ContextIs DEF GdiInv, Contexts
    <2>3. Attributes(gdi[d]) \in SavedAttr  BY <2>2, AttributesAre
    <2>4. PICK q : q = Append(saves[d], Attributes(gdi[d]))  OBVIOUS
    <2>5. Len(q) = Len(saves[d]) + 1 /\ Len(saves[d]) \in Nat  BY <2>2, <2>3, <2>4
    <2>6. saves'[d] = q /\ \A e \in Slots : e # d => saves'[e] = saves[e]  BY <2>1, <2>2, <2>4
    <2>7. Len(saves[d]) <= Len(saves'[d])  BY <2>5, <2>6
    <2> QED BY <2>6, <2>7 DEF StacksStay
  <1>2. CASE SelectOps(d)
    <2>1. saves' = saves  BY <1>2 DEF SelectOps, SelectObject
    <2> QED BY <2>1 DEF StacksStay
  <1>3. CASE ModeOps(d)
    <2>1. saves' = saves  BY <1>3 DEF ModeOps, SetTextColor, SetMapMode, SetWindowExtEx
    <2> QED BY <2>1 DEF StacksStay
  <1>4. CASE PaletteOps(d)
    <2>1. saves' = saves  BY <1>4 DEF PaletteOps, SelectPalette
    <2> QED BY <2>1 DEF StacksStay
  <1> QED BY <1>1, <1>2, <1>3, <1>4
LEMMA LifeStays == ASSUME GdiInv, LifeOps PROVE StacksStay
  <1>0. ASSUME UNCHANGED <<gdi, owned, bound, saves>> PROVE StacksStay  BY <1>0 DEF StacksStay
  <1>00. DCs \subseteq Slots  BY DEF DCs, GdiInv, OneOwner
  <1>1. CASE CreateCompatibleDC  BY <1>1, GetStays DEF CreateCompatibleDC
  <1>2. CASE GetDC(TRUE) \/ BeginPaint  BY <1>2, GetStays DEF BeginPaint
  <1>3. ASSUME NEW d \in DCs, ReleaseDC(d, TRUE) \/ ReleaseDC(d, FALSE) PROVE StacksStay
    <2>1. Free({d}) \/ UNCHANGED <<gdi, owned, bound, saves>>  BY <1>3 DEF ReleaseDC
    <2> QED BY <2>1, <1>0, <1>00, FreeStays
  <1>4. ASSUME NEW d \in DCs, EndPaint(d) \/ DeleteDC(d) PROVE StacksStay
    <2>1. Free({d})  BY <1>4 DEF EndPaint, DeleteDC
    <2> QED BY <2>1, <1>00, FreeStays
  <1>5. ASSUME NEW h \in (Objects \ Selected) \cup ({stock[id] : id \in StockIds} \ {NULLH}), DeleteObject(h) PROVE StacksStay
    <2>1. h \in Slots  BY <1>5 DEF DeleteObject, gdi_idx
    <2>2. Free({h}) \/ UNCHANGED <<gdi, owned, bound, saves>>  BY <1>5 DEF DeleteObject
    <2> QED BY <2>1, <2>2, <1>0, FreeStays
  <1>6. \/ CreateCompatibleDC
        \/ GetDC(TRUE) \/ BeginPaint
        \/ \E d \in DCs : ReleaseDC(d, TRUE) \/ ReleaseDC(d, FALSE)
        \/ \E d \in DCs : EndPaint(d) \/ DeleteDC(d)
        \/ \E h \in (Objects \ Selected) \cup ({stock[id] : id \in StockIds} \ {NULLH}) : DeleteObject(h)
    BY Zenon DEF LifeOps
  <1> QED BY <1>1, <1>2, <1>3, <1>4, <1>5, <1>6
LEMMA FrameStays == ASSUME GdiInv, WindowFrameOps PROVE StacksStay
  <1>1. ASSUME NEW ok \in BOOLEAN, sdl_window_show(ok) \/ u32_ensure_child_bmp(ok) \/ u32_composite_one_child(ok) PROVE StacksStay
    <2>1. saves' = saves
      BY <1>1 DEF sdl_window_show, u32_ensure_child_bmp, u32_composite_one_child, gdiVars
    <2> QED BY <2>1 DEF StacksStay
  <1>2. CASE sdl_window_destroy
    <2>1. CASE gdi_idx(gdi, win.bmp)
      <3>1. win.bmp \in Slots  BY <2>1 DEF gdi_idx
      <3> QED BY <2>1, <3>1, <1>2, FreeStays DEF sdl_window_destroy
    <2>2. CASE ~gdi_idx(gdi, win.bmp)
      BY <2>2, <1>2 DEF sdl_window_destroy, StacksStay
    <2> QED BY <2>1, <2>2
  <1> QED BY <1>1, <1>2 DEF WindowFrameOps
LEMMA RestoreRight == ASSUME GdiInv, NEW d \in DCs, NEW level \in Int, RestoreDC(d, level) PROVE RestoredRight
  <1>1. PICK r0 : r0 = gdi[d]  OBVIOUS
  <1>2. PICK i \in Nat : LET s == gdi[d].sstk[i + 1] IN
             /\ i < Len(gdi[d].sstk) /\ s \in SavedAttr
             /\ gdi' = [gdi EXCEPT ![d] = [gdi[d] EXCEPT !.sel = [gdi[d].sel EXCEPT !.font = s.font, !.brush = s.brush, !.pen = s.pen],
                                                          !.text = s.text, !.mapmode = s.mapmode, !.sstk = SubSeq(gdi[d].sstk, 1, i)]]
             /\ saves' = [saves EXCEPT ![d] = SubSeq(gdi[d].sstk, 1, i)]
    BY RestoreIs
  <1>3. PICK s : s = r0.sstk[i + 1]  OBVIOUS
  <1>4. PICK q : q = SubSeq(r0.sstk, 1, i)  OBVIOUS
  <1>5. PICK z : z = [r0.sel EXCEPT !["font"] = s.font, !["brush"] = s.brush, !["pen"] = s.pen]  OBVIOUS
  <1>6. PICK r : r = [r0 EXCEPT !.sel = z, !.text = s.text, !.mapmode = s.mapmode, !.sstk = q]  OBVIOUS
  <1>7. i < Len(r0.sstk) /\ s \in SavedAttr /\ gdi' = [gdi EXCEPT ![d] = r] /\ saves' = [saves EXCEPT ![d] = q]
    BY <1>1, <1>2, <1>3, <1>4, <1>5, <1>6
  <1>8. r0 \in GdiRec /\ d \in Slots /\ gdi \in [Slots -> GdiRec] /\ saves \in [Slots -> Seq(SavedAttr)] /\ saves[d] = r0.sstk
    BY <1>1, ContextIs DEF GdiInv, OneOwner, Contexts, Selects
  <1>9. r0.sstk \in Seq(SavedAttr) /\ r0.sel \in [Kinds -> SlotOrNone]  BY <1>8 DEF GdiRec
  <1>10. Len(q) = i  BY <1>4, <1>7, <1>9, SubSeqProperties
  <1>11. z["font"] = s.font /\ z["brush"] = s.brush /\ z["pen"] = s.pen  BY <1>5, <1>9, KindsAre
  <1>12. r.sel = z /\ r.text = s.text /\ r.mapmode = s.mapmode  BY <1>6, <1>8 DEF GdiRec
  <1>13. Attributes(r) = s
    <2>1. s = [font |-> s.font, brush |-> s.brush, pen |-> s.pen, text |-> s.text, mapmode |-> s.mapmode]  BY <1>7 DEF SavedAttr
    <2>2. Attributes(r) = [font |-> s.font, brush |-> s.brush, pen |-> s.pen, text |-> s.text, mapmode |-> s.mapmode]
      BY <1>11, <1>12 DEF Attributes
    <2> QED BY <2>1, <2>2
  <1>14. gdi'[d] = r /\ saves'[d] = q /\ \A e \in Slots : e # d => saves'[e] = saves[e]  BY <1>7, <1>8
  <1>15. Attributes(gdi'[d]) = saves[d][Len(saves'[d]) + 1]  BY <1>3, <1>8, <1>10, <1>13, <1>14
  <1>16. ASSUME NEW e \in Slots, Len(saves'[e]) < Len(saves[e]), e # d PROVE FALSE
    <2>1. saves'[e] = saves[e]  BY <1>14, <1>16
    <2>2. Len(saves[e]) \in Nat  BY StackLens
    <2> QED BY <2>1, <2>2, <1>16
  <1> QED BY <1>15, <1>16 DEF RestoredRight
LEMMA RestoreStep == ASSUME GdiInv, Display = TRUE, [GdiNext]_gdiVars PROVE RestoredRight
  <1>0. ASSUME StacksStay PROVE RestoredRight  BY <1>0, GdiStep, StayRight
  <1>00. ASSUME saves' = saves PROVE StacksStay  BY <1>00 DEF StacksStay
  <1>1. CASE LifeOps  BY <1>0, <1>1, LifeStays
  <1>2. CASE MakeOps
    <2>1. saves' = saves  BY <1>2 DEF MakeOps, Make, CreateSolidBrush, CreatePalette, CreateCompatibleBitmap
    <2> QED BY <2>1, <1>0, <1>00
  <1>3. CASE StockOps
    <2>1. saves' = saves  BY <1>3 DEF StockOps, GetStockObject
    <2> QED BY <2>1, <1>0, <1>00
  <1>4. CASE WindowFrameOps  BY <1>0, <1>4, FrameStays
  <1>5. ASSUME NEW d \in DCs, SaveOps(d) \/ SelectOps(d) \/ ModeOps(d) \/ PaletteOps(d) PROVE RestoredRight
    <2>1. CASE SaveDC(d) \/ SelectOps(d) \/ ModeOps(d) \/ PaletteOps(d)  BY <2>1, <1>0, DcStays
    <2>2. ASSUME NEW level \in {-2, -1, 1, 2}, RestoreDC(d, level) PROVE RestoredRight
      <3>1. level \in Int  OBVIOUS
      <3> QED BY <3>1, <2>2, RestoreRight
    <2> QED BY <1>5, <2>1, <2>2 DEF SaveOps
  <1>6. CASE UNCHANGED gdiVars
    <2>1. saves' = saves  BY <1>6 DEF gdiVars
    <2> QED BY <2>1, <1>0, <1>00
  <1> QED BY <1>1, <1>2, <1>3, <1>4, <1>5, <1>6 DEF GdiNext
\* RestoreDC brings back the font, brush, pen, colours and mode of the SaveDC its level names, from whichever end it counts,
\* however the saves and restores of several contexts interleave with selections and deletions.
THEOREM RestoresSaved == ASSUME Display = TRUE PROVE GdiSpec => RestoreIsSave
  <1>1. GdiInit => GdiInv  BY GdiStart
  <1>2. GdiInv /\ [GdiNext]_gdiVars => GdiInv'  BY GdiStep
  <1>3. GdiInv /\ [GdiNext]_gdiVars => RestoredRight  BY RestoreStep
  <1>4. RestoredRight => [\A d \in Slots : Len(saves'[d]) < Len(saves[d]) /\ IsDC(d) /\ gdi'[d].used => Attributes(gdi'[d]) = saves[d][Len(saves'[d]) + 1]]_gdiVars
    BY DEF RestoredRight
  <1> QED BY <1>1, <1>2, <1>3, <1>4, PTL DEF GdiSpec, RestoreIsSave

-----------------------------------------------------------------------------
(***************************************************************************)
(* The COM allocator's side table, an open-addressing hash.  A table is sound  *)
(* when no block is in it twice, every block is found by its probe sequence,   *)
(* and it is less than 70 % full; removal clears the slot h of a block and     *)
(* re-inserts what follows up to the next empty slot.  While that chain runs,  *)
(* a hole that lies on the probe sequence of an entry is among the slots the   *)
(* chain has done, and the entry is not (Gap): so an empty slot ends it.       *)
(***************************************************************************)
\* An entry, a block of memory of cap entries, its entries in use, and how far a slot is behind another.
Ent == [p : Nat, n : Nat]
Tab(cap) == [0..(cap - 1) -> Ent]
Used(b, cap) == {s \in 0..(cap - 1) : b[s].p # 0}
Dist(a, s, cap) == IF a <= s THEN s - a ELSE s - a + cap
\* The probe sequence of the entry at s passes t before it reaches s.
Passes(b, s, t, cap) == Dist(Home(b[s].p, cap), t, cap) < Dist(Home(b[s].p, cap), s, cap)
Single(b, cap) == \A s, t \in Used(b, cap) : b[s].p = b[t].p => s = t
Probed(b, cap) == \A s \in Used(b, cap), t \in 0..(cap - 1) : Passes(b, s, t, cap) => b[t].p # 0
Room(b, cap) == \E z \in 0..(cap - 1) : b[z].p = 0
LEMMA HomeIn == ASSUME NEW cap \in Nat \ {0}, NEW p \in Nat PROVE Home(p, cap) \in 0..(cap - 1)
  <1>1. PICK m : m = 31153 % cap  OBVIOUS
  <1>2. m \in Nat  BY <1>1
  <1>3. PICK x : x = p * m  OBVIOUS
  <1>4. x \in Nat  BY <1>2, <1>3
  <1>5. x % cap \in 0..(cap - 1)  BY <1>4
  <1> QED BY <1>1, <1>3, <1>5 DEF Home
\* The remainder of a sum of two slots.
LEMMA Wraps == ASSUME NEW cap \in Nat \ {0}, NEW h \in 0..(cap - 1), NEW i \in 0..cap
    PROVE (h + i) % cap = (IF h + i < cap THEN h + i ELSE h + i - cap) /\ (h + i) % cap \in 0..(cap - 1)
  <1>1. PICK x : x = h + i  OBVIOUS
  <1>2. x \in Nat /\ x < 2 * cap  BY <1>1
  <1>3. CASE x < cap  BY <1>1, <1>2, <1>3
  <1>4. CASE ~(x < cap)
    <2>1. x % cap = x - cap  BY <1>2, <1>4
    <2> QED BY <2>1, <1>1, <1>2, <1>4
  <1> QED BY <1>3, <1>4
LEMMA SlotIs == ASSUME NEW cap \in Nat \ {0}, NEW b \in Tab(cap), NEW p \in Nat \ {0}, Room(b, cap),
                       NEW r, r = u32_com_slot(b, p, cap)
    PROVE /\ r \in 0..(cap - 1) /\ b[r].p \in {0, p}
          /\ \A t \in 0..(cap - 1) : Dist(Home(p, cap), t, cap) < Dist(Home(p, cap), r, cap) => b[t].p # 0 /\ b[t].p # p
  <1>1. PICK h : h = Home(p, cap)  OBVIOUS
  <1>2. h \in 0..(cap - 1)  BY <1>1, HomeIn
  <1>3. PICK stop : stop = {i \in 0..(cap - 1) : b[(h + i) % cap].p \in {0, p}}  OBVIOUS
  <1>4. \A t \in 0..(cap - 1) : Dist(h, t, cap) \in 0..(cap - 1) /\ (h + Dist(h, t, cap)) % cap = t
    <2>1. ASSUME NEW t \in 0..(cap - 1) PROVE Dist(h, t, cap) \in 0..(cap - 1) /\ (h + Dist(h, t, cap)) % cap = t
      <3>1. PICK i : i = Dist(h, t, cap)  OBVIOUS
      <3>2. i \in 0..(cap - 1) /\ i = IF h <= t THEN t - h ELSE t - h + cap  BY <1>2, <3>1 DEF Dist
      <3>3. i \in 0..cap  BY <3>2
      <3>4. (h + i) % cap = IF h + i < cap THEN h + i ELSE h + i - cap  BY <1>2, <3>3, Wraps
      <3> QED BY <1>2, <3>1, <3>2, <3>4
    <2> QED BY <2>1
  <1>5. PICK z \in 0..(cap - 1) : b[z].p = 0  BY DEF Room
  <1>6. Dist(h, z, cap) \in stop  BY <1>3, <1>4, <1>5
  <1>7. \E i \in stop : \A j \in stop : i <= j
    <2>1. stop \subseteq Nat  BY <1>3
    <2> QED BY <2>1, <1>6, LeastNat
  <1>8. PICK i : i = CHOOSE k \in stop : \A j \in stop : k <= j  OBVIOUS
  <1>9. i \in stop /\ \A j \in stop : i <= j  BY <1>7, <1>8
  <1>10. r = (h + i) % cap  BY <1>1, <1>3, <1>8 DEF u32_com_slot
  <1>11. i \in 0..(cap - 1) /\ b[r].p \in {0, p}  BY <1>3, <1>9, <1>10
  <1>12. r = (IF h + i < cap THEN h + i ELSE h + i - cap) /\ r \in 0..(cap - 1)  BY <1>2, <1>10, <1>11, Wraps
  <1>13. Dist(h, r, cap) = i  BY <1>2, <1>11, <1>12 DEF Dist
  <1>14. ASSUME NEW t \in 0..(cap - 1), Dist(h, t, cap) < i PROVE b[t].p # 0 /\ b[t].p # p
    <2>1. PICK j : j = Dist(h, t, cap)  OBVIOUS
    <2>2. j \in 0..(cap - 1) /\ (h + j) % cap = t /\ j < i  BY <1>4, <1>14, <2>1
    <2>3. j \notin stop  BY <1>9, <1>11, <2>2
    <2> QED BY <1>3, <2>2, <2>3
  <1> QED BY <1>1, <1>11, <1>12, <1>13, <1>14
\* A table without a block twice, each found by its probe sequence.
Table(b, cap) == b \in Tab(cap) /\ Single(b, cap) /\ Probed(b, cap)
LEMMA SlotFinds == ASSUME NEW cap \in Nat \ {0}, NEW b, Table(b, cap), NEW p \in Nat \ {0}, Room(b, cap), NEW r, r = u32_com_slot(b, p, cap)
    PROVE r \in 0..(cap - 1) /\ (b[r].p = p \/ (b[r].p = 0 /\ \A s \in 0..(cap - 1) : b[s].p # p))
  <1>1. b \in Tab(cap)  BY DEF Table
  <1>2. /\ r \in 0..(cap - 1) /\ b[r].p \in {0, p}
        /\ \A t \in 0..(cap - 1) : Dist(Home(p, cap), t, cap) < Dist(Home(p, cap), r, cap) => b[t].p # 0 /\ b[t].p # p
    BY <1>1, SlotIs
  <1>3. PICK h : h = Home(p, cap)  OBVIOUS
  <1>4. h \in 0..(cap - 1)
    <2>1. p \in Nat  OBVIOUS
    <2> QED BY <2>1, <1>3, HomeIn
  <1>5. ASSUME b[r].p = 0, NEW s \in 0..(cap - 1), b[s].p = p PROVE FALSE
    <2>1. s # r  BY <1>5
    <2>2. ~(Dist(h, s, cap) < Dist(h, r, cap))  BY <1>2, <1>3, <1>5
    <2>3. Dist(h, r, cap) < Dist(h, s, cap)  BY <1>2, <1>4, <2>1, <2>2 DEF Dist
    <2>4. Passes(b, s, r, cap)  BY <1>3, <1>5, <2>3 DEF Passes
    <2>5. s \in Used(b, cap)  BY <1>5 DEF Used
    <2> QED BY <1>2, <1>5, <2>4, <2>5 DEF Table, Probed
  <1> QED BY <1>2, <1>5
\* A block that is not in the table goes where its probe sequence first meets an empty slot.
LEMMA PutKeeps == ASSUME NEW cap \in Nat \ {0}, NEW b, Table(b, cap), Room(b, cap), NEW e \in Ent, e.p # 0,
                         \A s \in 0..(cap - 1) : b[s].p # e.p, NEW r, r = u32_com_slot(b, e.p, cap),
                         NEW c \in Tab(cap), c[r] = e, \A s \in 0..(cap - 1) : s # r => c[s] = b[s]
    PROVE r \in 0..(cap - 1) /\ b[r].p = 0 /\ Table(c, cap) /\ Used(c, cap) = Used(b, cap) \cup {r} /\ r \notin Used(b, cap)
  <1>1. PICK p : p = e.p  OBVIOUS
  <1>2. p \in Nat \ {0}  BY <1>1 DEF Ent
  <1>3. b \in Tab(cap)  BY DEF Table
  <1>4. /\ r \in 0..(cap - 1) /\ b[r].p \in {0, p}
        /\ \A t \in 0..(cap - 1) : Dist(Home(p, cap), t, cap) < Dist(Home(p, cap), r, cap) => b[t].p # 0 /\ b[t].p # p
    BY <1>1, <1>2, <1>3, SlotIs
  <1>5. b[r].p = 0  BY <1>1, <1>4
  <1>6. c \in Tab(cap) /\ c[r] = e /\ \A s \in 0..(cap - 1) : s # r => c[s] = b[s]  OBVIOUS
  <1>7. Used(c, cap) = Used(b, cap) \cup {r} /\ r \notin Used(b, cap)  BY <1>4, <1>5, <1>6 DEF Used
  <1>8. Single(c, cap)
    <2>1. ASSUME NEW s \in Used(c, cap), NEW t \in Used(c, cap), c[s].p = c[t].p PROVE s = t
      <3>1. s \in 0..(cap - 1) /\ t \in 0..(cap - 1)  BY DEF Used
      <3>2. CASE s # r /\ t # r  BY <3>1, <3>2, <2>1, <1>6, <1>7 DEF Table, Single
      <3> QED BY <3>1, <3>2, <2>1, <1>6
    <2> QED BY <2>1 DEF Single
  <1>9. ASSUME NEW s \in Used(c, cap), NEW t \in 0..(cap - 1), Passes(c, s, t, cap) PROVE c[t].p # 0
    <2>1. CASE t = r  BY <2>1, <1>6
    <2>2. CASE t # r /\ s = r
      <3>1. Dist(Home(p, cap), t, cap) < Dist(Home(p, cap), r, cap)  BY <2>2, <1>1, <1>6, <1>9 DEF Passes
      <3> QED BY <3>1, <2>2, <1>4, <1>6
    <2>3. CASE t # r /\ s # r
      <3>1. s \in Used(b, cap) /\ c[s] = b[s] /\ c[t] = b[t]  BY <2>3, <1>6, <1>7 DEF Used
      <3>2. Passes(b, s, t, cap)  BY <3>1, <1>9 DEF Passes
      <3> QED BY <3>1, <3>2 DEF Table, Probed
    <2> QED BY <2>1, <2>2, <2>3
  <1> QED BY <1>4, <1>5, <1>6, <1>7, <1>8, <1>9 DEF Table, Probed
LEMMA UsedFinite == ASSUME NEW cap \in Nat, NEW b PROVE IsFiniteSet(Used(b, cap)) /\ Cardinality(Used(b, cap)) \in Nat
  <1>1. IsFiniteSet(0..(cap - 1))  BY FS_Interval
  <1>2. Used(b, cap) \subseteq 0..(cap - 1)  BY DEF Used
  <1> QED BY <1>1, <1>2, FS_Subset, FS_CardinalityType
LEMMA HasRoom == ASSUME NEW cap \in Nat \ {0}, NEW b, Cardinality(Used(b, cap)) < cap PROVE Room(b, cap)
  <1>1. Cardinality(0..(cap - 1)) = cap
    <2>1. PICK x : x = cap - 1  OBVIOUS
    <2>2. x \in Int /\ 0 <= x /\ x - 0 + 1 = cap  BY <2>1
    <2>3. Cardinality(0..x) = x - 0 + 1
      <3>1. ~(0 > x)  BY <2>2
      <3> QED BY <3>1, <2>2, FS_Interval
    <2> QED BY <2>1, <2>2, <2>3
  <1>2. Used(b, cap) # 0..(cap - 1)  BY <1>1
  <1> QED BY <1>2 DEF Used, Room
Has(b, cap, e) == \E s \in 0..(cap - 1) : b[s] = e
Size(c) == Cardinality(Used(c.blk, c.cap))
\* The record c is a table at most 70 % full.
Sound(c) ==
    /\ c = [cap |-> c.cap, cnt |-> c.cnt, blk |-> c.blk] /\ c.cap \in Nat /\ c.cnt \in Nat
    /\ IF c.cap = 0 THEN c.cnt = 0
       ELSE c.cap >= 2 /\ Table(c.blk, c.cap) /\ Size(c) = c.cnt /\ c.cnt * 10 < c.cap * 7
\* It holds the blocks of f with their sizes.
Lists(c, f) ==
    /\ 0 \notin DOMAIN f
    /\ \A p \in DOMAIN f : c.cap # 0 /\ Has(c.blk, c.cap, [p |-> p, n |-> f[p]])
    /\ c.cap # 0 => \A s \in Used(c.blk, c.cap) : c.blk[s].p \in DOMAIN f /\ c.blk[s].n = f[c.blk[s].p]

MovesAre(c, ncap, n, g) == g = [i \in 0..n |-> IF i = 0 THEN [h \in 0..(ncap - 1) |-> Hole] ELSE Moved(g[i - 1], c.blk[i - 1], ncap)]
LEMMA MovesExist == ASSUME NEW c, NEW ncap PROVE \A n \in Nat : \E g : MovesAre(c, ncap, n, g)
  <1> DEFINE Bad == {n \in Nat : ~ \E g : MovesAre(c, ncap, n, g)}
  <1> SUFFICES ASSUME Bad # {} PROVE FALSE  OBVIOUS
  <1>1. PICK n \in Bad : \A j \in Bad : n <= j
    <2>1. Bad \subseteq Nat  OBVIOUS
    <2> QED BY <2>1, LeastNat, Zenon
  <1>2. n \in Nat /\ ~ \E g : MovesAre(c, ncap, n, g)  OBVIOUS
  <1>3. CASE n = 0
    <2>1. MovesAre(c, ncap, 0, [i \in 0..0 |-> [h \in 0..(ncap - 1) |-> Hole]])  BY DEF MovesAre
    <2> QED BY <1>2, <1>3, <2>1
  <1>4. CASE n # 0
    <2>1. n - 1 \in Nat /\ n - 1 \notin Bad  BY <1>1, <1>2, <1>4
    <2>2. PICK g : MovesAre(c, ncap, n - 1, g)  BY <2>1
    <2>3. PICK E : E = [h \in 0..(ncap - 1) |-> Hole]  OBVIOUS
    <2>4. PICK f : f = [i \in 0..n |-> IF i = n THEN Moved(g[n - 1], c.blk[n - 1], ncap) ELSE g[i]]  OBVIOUS
    <2>5. \A i \in 0..(n - 1) : g[i] = IF i = 0 THEN E ELSE Moved(g[i - 1], c.blk[i - 1], ncap)  BY <2>2, <2>3 DEF MovesAre
    <2>6. ASSUME NEW i \in 0..n PROVE f[i] = IF i = 0 THEN E ELSE Moved(f[i - 1], c.blk[i - 1], ncap)
      <3>1. CASE i = n
        <4>1. f[i] = Moved(g[n - 1], c.blk[n - 1], ncap)  BY <3>1, <2>4
        <4>2. f[n - 1] = g[n - 1]  BY <1>2, <1>4, <2>4
        <4> QED BY <1>4, <3>1, <4>1, <4>2
      <3>2. CASE i # n
        <4>1. i \in 0..(n - 1) /\ f[i] = g[i]  BY <1>2, <3>2, <2>4
        <4>2. i # 0 => f[i - 1] = g[i - 1]  BY <1>2, <3>2, <2>4
        <4> QED BY <2>5, <4>1, <4>2
      <3> QED BY <3>1, <3>2
    <2>7. f = [i \in 0..n |-> IF i = 0 THEN E ELSE Moved(f[i - 1], c.blk[i - 1], ncap)]  BY <2>4, <2>6
    <2>8. MovesAre(c, ncap, n, f)  BY <2>3, <2>7 DEF MovesAre
    <2> QED BY <1>2, <2>8
  <1> QED BY <1>3, <1>4
LEMMA MovesIs == ASSUME NEW c, NEW ncap, c.cap \in Nat PROVE MovesAre(c, ncap, c.cap, Moves(c, ncap))
  <1>1. \E g : MovesAre(c, ncap, c.cap, g)  BY MovesExist
  <1>2. \E g : g = [i \in 0..c.cap |-> IF i = 0 THEN [h \in 0..(ncap - 1) |-> Hole] ELSE Moved(g[i - 1], c.blk[i - 1], ncap)]
    BY <1>1, Zenon DEF MovesAre
  <1>3. Moves(c, ncap) = [i \in 0..c.cap |-> IF i = 0 THEN [h \in 0..(ncap - 1) |-> Hole] ELSE Moved(Moves(c, ncap)[i - 1], c.blk[i - 1], ncap)]
    BY <1>2, Zenon DEF Moves
  <1> QED BY <1>3, Zenon DEF MovesAre
\* The new table m after the first n slots of b.
Copied(b, cap, n, m, ncap) ==
    /\ Table(m, ncap) /\ Cardinality(Used(m, ncap)) = Cardinality({j \in Used(b, cap) : j < n})
    /\ \A e \in Ent : e.p # 0 => (Has(m, ncap, e) <=> \E j \in 0..(cap - 1) : j < n /\ b[j] = e)
LEMMA HoleIs == Hole \in Ent /\ Hole.p = 0
  BY DEF Hole, Ent
LEMMA NoneCopied == ASSUME NEW b, NEW cap \in Nat, NEW ncap \in Nat \ {0} PROVE Copied(b, cap, 0, [h \in 0..(ncap - 1) |-> Hole], ncap)
  <1>1. PICK m : m = [h \in 0..(ncap - 1) |-> Hole]  OBVIOUS
  <1>2. m \in Tab(ncap) /\ \A h \in 0..(ncap - 1) : m[h].p = 0  BY <1>1, HoleIs DEF Tab
  <1>3. Used(m, ncap) = {}  BY <1>2 DEF Used
  <1>4. Table(m, ncap)  BY <1>2, <1>3 DEF Table, Single, Probed
  <1>5. {j \in Used(b, cap) : j < 0} = {}  BY DEF Used
  <1>6. ASSUME NEW e \in Ent, e.p # 0 PROVE ~Has(m, ncap, e)  BY <1>2, <1>6 DEF Has
  <1>7. Cardinality(Used(m, ncap)) = Cardinality({j \in Used(b, cap) : j < 0})  BY <1>3, <1>5
  <1>8. \A e \in Ent : e.p # 0 => (Has(m, ncap, e) <=> \E j \in 0..(cap - 1) : j < 0 /\ b[j] = e)
    <2>1. \A j \in 0..(cap - 1) : ~(j < 0)  OBVIOUS
    <2> QED BY <2>1, <1>6
  <1> QED BY <1>1, <1>4, <1>7, <1>8 DEF Copied
LEMMA OneCopied == ASSUME NEW cap \in Nat \ {0}, NEW b, Table(b, cap), Cardinality(Used(b, cap)) < cap, NEW ncap \in Nat, cap <= ncap,
                          NEW n \in 0..(cap - 1), NEW m, Copied(b, cap, n, m, ncap)
    PROVE Copied(b, cap, n + 1, Moved(m, b[n], ncap), ncap)
  <1>1. PICK A, B, k : A = {j \in Used(b, cap) : j < n} /\ B = {j \in Used(b, cap) : j < k} /\ k = n + 1  OBVIOUS
  <1>2. IsFiniteSet(Used(b, cap)) /\ Cardinality(Used(b, cap)) \in Nat  BY UsedFinite
  <1>3. IsFiniteSet(A) /\ Cardinality(A) \in Nat /\ Cardinality(A) <= Cardinality(Used(b, cap))
    <2>1. A \subseteq Used(b, cap)  BY <1>1
    <2> QED BY <2>1, <1>2, FS_Subset, FS_CardinalityType
  <1>4. Table(m, ncap) /\ Cardinality(Used(m, ncap)) = Cardinality(A)  BY <1>1 DEF Copied
  <1>5. ASSUME NEW e \in Ent, e.p # 0 PROVE Has(m, ncap, e) <=> \E j \in 0..(cap - 1) : j < n /\ b[j] = e  BY <1>5 DEF Copied
  <1>6. b[n] \in Ent  BY DEF Table, Tab
  <1>7. CASE b[n].p = 0
    <2>1. Moved(m, b[n], ncap) = m  BY <1>7 DEF Moved
    <2>2. B = A
      <3>1. \A j \in Used(b, cap) : j \in 0..(cap - 1) /\ b[j].p # 0  BY DEF Used
      <3> QED BY <3>1, <1>1, <1>7
    <2>3. ASSUME NEW e \in Ent, e.p # 0 PROVE Has(m, ncap, e) <=> \E j \in 0..(cap - 1) : j < k /\ b[j] = e
      <3>1. \A j \in 0..(cap - 1) : j < k /\ b[j] = e => j < n  BY <1>1, <1>7, <2>3
      <3>2. \A j \in 0..(cap - 1) : j < n => j < k  BY <1>1
      <3> QED BY <3>1, <3>2, <1>5, <2>3
    <2> QED BY <2>1, <2>2, <2>3, <1>1, <1>4 DEF Copied
  <1>8. CASE b[n].p # 0
    <2>1. PICK e : e = b[n]  OBVIOUS
    <2>2. e \in Ent /\ e.p # 0  BY <1>6, <1>8, <2>1
    <2>3. m \in Tab(ncap) /\ ncap \in Nat \ {0}  BY <1>4 DEF Table
    <2>4. \A s \in 0..(ncap - 1) : m[s].p # e.p
      <3>1. ASSUME NEW s \in 0..(ncap - 1), m[s].p = e.p PROVE FALSE
        <4>1. PICK g : g = m[s]  OBVIOUS
        <4>2. g \in Ent /\ g.p = e.p /\ Has(m, ncap, g)  BY <2>3, <3>1, <4>1 DEF Tab, Has
        <4>3. PICK j \in 0..(cap - 1) : j < n /\ b[j] = g  BY <4>2, <2>2, <1>5
        <4>4. j \in Used(b, cap) /\ n \in Used(b, cap) /\ b[j].p = b[n].p  BY <4>2, <4>3, <2>1, <2>2 DEF Used
        <4>5. j = n  BY <4>4 DEF Table, Single
        <4> QED BY <4>3, <4>5
      <3> QED BY <3>1
    <2>5. Room(m, ncap)
      <3>1. Cardinality(Used(m, ncap)) < ncap  BY <1>2, <1>3, <1>4
      <3> QED BY <3>1, <2>3, HasRoom
    <2>6. PICK r, c : r = u32_com_slot(m, e.p, ncap) /\ c = [m EXCEPT ![r] = e]  OBVIOUS
    <2>7. r \in 0..(ncap - 1)
      <3>1. e.p \in Nat \ {0}  BY <2>2 DEF Ent
      <3> QED BY <3>1, <1>4, <2>3, <2>5, <2>6, SlotFinds
    <2>8. c \in Tab(ncap) /\ c[r] = e /\ \A s \in 0..(ncap - 1) : s # r => c[s] = m[s]  BY <2>2, <2>3, <2>6, <2>7 DEF Tab
    <2>14. m[r].p = 0 /\ Table(c, ncap) /\ Used(c, ncap) = Used(m, ncap) \cup {r} /\ r \notin Used(m, ncap)
      <3>1. Table(m, ncap)  BY <1>4
      <3>2. r = u32_com_slot(m, e.p, ncap)  BY <2>6
      <3>3. c \in Tab(ncap) /\ c[r] = e  BY <2>8
      <3>4. \A s \in 0..(ncap - 1) : s # r => c[s] = m[s]  BY <2>8
      <3>5. ncap \in Nat \ {0} /\ e \in Ent /\ e.p # 0  BY <2>2, <2>3
      <3> QED BY <3>1, <3>2, <3>3, <3>4, <3>5, <2>4, <2>5, PutKeeps
    <2>9. Moved(m, b[n], ncap) = c  BY <1>8, <2>1, <2>6 DEF Moved
    <2>10. Cardinality(Used(c, ncap)) = Cardinality(A) + 1
      <3>1. IsFiniteSet(Used(m, ncap))  BY <2>3, UsedFinite
      <3> QED BY <3>1, <1>4, <2>14, FS_AddElement
    <2>11. B = A \cup {n} /\ n \notin A
      <3>1. n \in Used(b, cap)  BY <1>8 DEF Used
      <3>2. \A j \in Used(b, cap) : j \in 0..(cap - 1)  BY DEF Used
      <3>3. \A j \in Used(b, cap) : j < k <=> j < n \/ j = n  BY <3>2, <1>1
      <3>4. ~(n < n)  OBVIOUS
      <3> QED BY <3>1, <3>3, <3>4, <1>1
    <2>12. Cardinality(B) = Cardinality(A) + 1  BY <2>11, <1>3, FS_AddElement
    <2>13. ASSUME NEW g \in Ent, g.p # 0 PROVE Has(c, ncap, g) <=> \E j \in 0..(cap - 1) : j < k /\ b[j] = g
      <3>1. Has(c, ncap, g) <=> g = e \/ Has(m, ncap, g)
        <4>1. ASSUME Has(c, ncap, g) PROVE g = e \/ Has(m, ncap, g)
          <5>1. PICK s \in 0..(ncap - 1) : c[s] = g  BY <4>1 DEF Has
          <5> QED BY <5>1, <2>8 DEF Has
        <4>2. ASSUME g = e PROVE Has(c, ncap, g)  BY <4>2, <2>7, <2>8 DEF Has
        <4>3. ASSUME Has(m, ncap, g) PROVE Has(c, ncap, g)
          <5>1. PICK s \in 0..(ncap - 1) : m[s] = g  BY <4>3 DEF Has
          <5>2. s # r  BY <5>1, <2>14, <2>13
          <5> QED BY <5>1, <5>2, <2>8 DEF Has
        <4> QED BY <4>1, <4>2, <4>3
      <3>2. \A j \in 0..(cap - 1) : j < k <=> j < n \/ j = n  BY <1>1
      <3> QED BY <3>1, <3>2, <1>5, <2>1, <2>13
    <2> QED BY <2>14, <2>9, <2>10, <2>12, <2>13, <1>1 DEF Copied
  <1> QED BY <1>7, <1>8
LEMMA AllCopied == ASSUME NEW c, c.cap \in Nat, NEW ncap \in Nat \ {0}, c.cap <= ncap,
                          c.cap # 0 => Table(c.blk, c.cap) /\ Cardinality(Used(c.blk, c.cap)) < c.cap
    PROVE Copied(c.blk, c.cap, c.cap, Moves(c, ncap)[c.cap], ncap)
  <1>1. PICK cap, b, g, E : cap = c.cap /\ b = c.blk /\ g = Moves(c, ncap) /\ E = [h \in 0..(ncap - 1) |-> Hole]  OBVIOUS
  <1>2. g = [i \in 0..cap |-> IF i = 0 THEN E ELSE Moved(g[i - 1], b[i - 1], ncap)]
    <2>1. MovesAre(c, ncap, c.cap, g)  BY <1>1, MovesIs
    <2> QED BY <2>1, <1>1, Zenon DEF MovesAre
  <1>3. cap \in Nat /\ cap <= ncap  BY <1>1
  <1> DEFINE Bad == {n \in 0..cap : ~Copied(b, cap, n, g[n], ncap)}
  <1>4. ASSUME Bad # {} PROVE FALSE
    <2>1. PICK n \in Bad : \A j \in Bad : n <= j
      <3>1. Bad \subseteq Nat  OBVIOUS
      <3> QED BY <3>1, <1>4, LeastNat, Zenon
    <2>2. n \in 0..cap /\ ~Copied(b, cap, n, g[n], ncap)  OBVIOUS
    <2>3. CASE n = 0
      <3>1. g[0] = E  BY <1>2, <1>3
      <3>2. Copied(b, cap, 0, E, ncap)  BY <1>1, <1>3, NoneCopied
      <3> QED BY <3>1, <3>2, <2>2, <2>3
    <2>4. CASE n # 0
      <3>1. PICK k : k = n - 1  OBVIOUS
      <3>2. k \in 0..(cap - 1) /\ k \in 0..cap /\ n = k + 1 /\ k < n /\ cap # 0  BY <3>1, <2>2, <2>4, <1>3
      <3>3. k \notin Bad
        <4>1. ~(n <= k)  BY <3>2, <1>3
        <4> QED BY <4>1, <2>1
      <3>4. Copied(b, cap, k, g[k], ncap)  BY <3>2, <3>3
      <3>5. g[n] = Moved(g[k], b[k], ncap)  BY <1>2, <2>2, <2>4, <3>1
      <3>6. PICK m : m = g[k]  OBVIOUS
      <3>7. Table(b, cap) /\ Cardinality(Used(b, cap)) < cap  BY <1>1, <3>2
      <3>8. Copied(b, cap, k + 1, Moved(m, b[k], ncap), ncap)  BY <3>2, <3>4, <3>6, <3>7, <1>3, OneCopied
      <3> QED BY <3>2, <3>5, <3>6, <3>8, <2>2
    <2> QED BY <2>3, <2>4
  <1>5. cap \in 0..cap  BY <1>3
  <1> QED BY <1>1, <1>4, <1>5
LEMMA GrowKeeps == ASSUME NEW c, Sound(c), NEW d, d = u32_com_grow(c)
    PROVE /\ d = [cap |-> d.cap, cnt |-> c.cnt, blk |-> d.blk] /\ d.cap \in Nat /\ d.cap >= 2
          /\ Table(d.blk, d.cap) /\ Size(d) = c.cnt /\ (c.cnt + 1) * 10 < d.cap * 7
          /\ \A f : Lists(c, f) => Lists(d, f)
  <1>1. PICK cap, cnt, b, ncap, m : cap = c.cap /\ cnt = c.cnt /\ b = c.blk /\ ncap = (IF cap = 0 THEN ComCap ELSE 2 * cap) /\ m = Moves(c, ncap)[cap]
    OBVIOUS
  <1>2. c = [cap |-> cap, cnt |-> cnt, blk |-> b] /\ cap \in Nat /\ cnt \in Nat  BY <1>1 DEF Sound
  <1>3. cap = 0 => cnt = 0  BY <1>1 DEF Sound
  <1>4. cap # 0 => cap >= 2 /\ Table(b, cap) /\ Cardinality(Used(b, cap)) = cnt /\ cnt * 10 < cap * 7  BY <1>1 DEF Sound, Size
  <1>5. ncap \in Nat /\ ncap >= 2 /\ cap <= ncap /\ (cnt + 1) * 10 < ncap * 7
    <2>1. ComCap \in Nat /\ ComCap >= 2  BY ComAssumption
    <2> QED BY <2>1, <1>1, <1>2, <1>3, <1>4
  <1>6. d = [cap |-> ncap, cnt |-> cnt, blk |-> m]
    <2>1. d = [c EXCEPT !.cap = ncap, !.blk = m]  BY <1>1, Zenon DEF u32_com_grow
    <2> QED BY <2>1, <1>2
  <1>7. Copied(b, cap, cap, m, ncap)
    <2>1. c.cap # 0 => Table(c.blk, c.cap) /\ Cardinality(Used(c.blk, c.cap)) < c.cap  BY <1>1, <1>2, <1>4
    <2> QED BY <2>1, <1>1, <1>2, <1>5, AllCopied
  <1>8. Table(m, ncap) /\ Cardinality(Used(m, ncap)) = Cardinality({j \in Used(b, cap) : j < cap})  BY <1>7 DEF Copied
  <1>9. {j \in Used(b, cap) : j < cap} = Used(b, cap)  BY <1>2 DEF Used
  <1>10. cap = 0 => Used(b, cap) = {}  BY DEF Used
  <1>11. Cardinality(Used(b, cap)) = cnt  BY <1>3, <1>4, <1>10, FS_EmptySet
  <1>12. ASSUME NEW e \in Ent, e.p # 0 PROVE Has(m, ncap, e) <=> Has(b, cap, e)
    <2>1. Has(m, ncap, e) <=> \E j \in 0..(cap - 1) : j < cap /\ b[j] = e  BY <1>7, <1>12 DEF Copied
    <2>2. \A j \in 0..(cap - 1) : j < cap  BY <1>2
    <2> QED BY <2>1, <2>2 DEF Has
  <1>13. ASSUME NEW f, Lists(c, f) PROVE Lists(d, f)
    <2>1. ASSUME NEW p \in DOMAIN f PROVE Has(m, ncap, [p |-> p, n |-> f[p]])
      <3>1. PICK e : e = [p |-> p, n |-> f[p]]  OBVIOUS
      <3>2. cap # 0 /\ Has(b, cap, e)  BY <3>1, <1>1, <1>13, <2>1 DEF Lists
      <3>3. PICK s \in 0..(cap - 1) : b[s] = e  BY <3>2 DEF Has
      <3>4. e \in Ent  BY <3>2, <3>3, <1>4 DEF Table, Tab
      <3>5. e.p # 0  BY <3>1, <1>13, <2>1 DEF Lists
      <3> QED BY <3>1, <3>2, <3>4, <3>5, <1>12
    <2>2. ASSUME NEW s \in Used(m, ncap) PROVE m[s].p \in DOMAIN f /\ m[s].n = f[m[s].p]
      <3>1. PICK e : e = m[s]  OBVIOUS
      <3>2. s \in 0..(ncap - 1) /\ e.p # 0 /\ e \in Ent  BY <3>1, <2>2, <1>8 DEF Used, Table, Tab
      <3>3. Has(b, cap, e)  BY <3>1, <3>2, <1>12 DEF Has
      <3>4. PICK t \in 0..(cap - 1) : b[t] = e  BY <3>3 DEF Has
      <3>5. cap # 0 /\ t \in Used(b, cap)  BY <3>2, <3>4, <1>2 DEF Used
      <3> QED BY <3>1, <3>4, <3>5, <1>1, <1>13 DEF Lists
    <2>3. d.cap = ncap /\ d.blk = m /\ ncap # 0  BY <1>5, <1>6
    <2>4. 0 \notin DOMAIN f  BY <1>13 DEF Lists
    <2> QED BY <2>1, <2>2, <2>3, <2>4 DEF Lists
  <1>14. d.cap = ncap /\ d.blk = m /\ d.cnt = cnt /\ c.cnt = cnt  BY <1>1, <1>6
  <1>15. Size(d) = cnt  BY <1>8, <1>9, <1>11, <1>14 DEF Size
  <1>16. d = [cap |-> d.cap, cnt |-> c.cnt, blk |-> d.blk]  BY <1>6, <1>14
  <1>17. \A f : Lists(c, f) => Lists(d, f)  BY <1>13
  <1> QED BY <1>5, <1>8, <1>14, <1>15, <1>16, <1>17
\* A table with room for one more.
Ready(c) == /\ c = [cap |-> c.cap, cnt |-> c.cnt, blk |-> c.blk] /\ c.cap \in Nat /\ c.cap >= 2 /\ c.cnt \in Nat
            /\ Table(c.blk, c.cap) /\ Size(c) = c.cnt /\ (c.cnt + 1) * 10 < c.cap * 7
LEMMA ReadyRoom == ASSUME NEW c, Ready(c) PROVE c.cap \in Nat \ {0} /\ Room(c.blk, c.cap)
  <1>1. c.cap \in Nat \ {0} /\ Cardinality(Used(c.blk, c.cap)) < c.cap  BY DEF Ready, Size
  <1> QED BY <1>1, HasRoom
\* The slot of a block that is not there is free, and it is put there.
LEMMA SlotIsFree == ASSUME NEW c, Ready(c), NEW p \in Nat \ {0}, NEW h, h = u32_com_slot(c.blk, p, c.cap),
                         \A s \in 0..(c.cap - 1) : c.blk[s].p # p
    PROVE h \in 0..(c.cap - 1) /\ c.blk[h].p = 0
  <1>1. PICK cap, b : cap = c.cap /\ b = c.blk  OBVIOUS
  <1>2. cap \in Nat \ {0} /\ Room(b, cap)  BY <1>1, ReadyRoom
  <1>3. Table(b, cap)  BY <1>1 DEF Ready
  <1>4. h = u32_com_slot(b, p, cap)  BY <1>1
  <1>5. h \in 0..(cap - 1) /\ (b[h].p = p \/ b[h].p = 0)  BY <1>2, <1>3, <1>4, SlotFinds
  <1> QED BY <1>1, <1>5
LEMMA PutReady == ASSUME NEW c, Ready(c), NEW e \in Ent, e.p # 0, NEW h, h = u32_com_slot(c.blk, e.p, c.cap),
                         \A s \in 0..(c.cap - 1) : c.blk[s].p # e.p,
                         NEW m \in Tab(c.cap), m[h] = e, \A s \in 0..(c.cap - 1) : s # h => m[s] = c.blk[s],
                         NEW d, d = [cap |-> c.cap, cnt |-> c.cnt + 1, blk |-> m]
    PROVE Sound(d)
  <1>1. PICK cap, cnt, b : cap = c.cap /\ cnt = c.cnt /\ b = c.blk  OBVIOUS
  <1>2. cap \in Nat \ {0} /\ cap >= 2 /\ cnt \in Nat /\ (cnt + 1) * 10 < cap * 7  BY <1>1 DEF Ready
  <1>3. Table(b, cap) /\ Cardinality(Used(b, cap)) = cnt  BY <1>1 DEF Ready, Size
  <1>4. Room(b, cap)  BY <1>1, ReadyRoom
  <1>5. h = u32_com_slot(b, e.p, cap) /\ m \in Tab(cap)  BY <1>1
  <1>6. \A s \in 0..(cap - 1) : b[s].p # e.p  BY <1>1
  <1>7. \A s \in 0..(cap - 1) : s # h => m[s] = b[s]  BY <1>1
  <1>8. Table(m, cap) /\ Used(m, cap) = Used(b, cap) \cup {h} /\ h \notin Used(b, cap)
    BY <1>2, <1>3, <1>4, <1>5, <1>6, <1>7, PutKeeps
  <1>9. Cardinality(Used(m, cap)) = cnt + 1
    <2>1. IsFiniteSet(Used(b, cap))  BY <1>2, UsedFinite
    <2>2. h \notin Used(b, cap) /\ Used(m, cap) = Used(b, cap) \cup {h}  BY <1>8
    <2>3. Cardinality(Used(b, cap) \cup {h}) = Cardinality(Used(b, cap)) + 1  BY <2>1, <2>2, FS_AddElement
    <2> QED BY <2>2, <2>3, <1>3
  <1>10. d = [cap |-> cap, cnt |-> cnt + 1, blk |-> m]  BY <1>1
  <1>11. d.cap = cap /\ d.cnt = cnt + 1 /\ d.blk = m  BY <1>10
  <1>12. d = [cap |-> d.cap, cnt |-> d.cnt, blk |-> d.blk] /\ d.cap \in Nat /\ d.cnt \in Nat  BY <1>2, <1>10, <1>11
  <1>13. d.cap # 0 /\ d.cap >= 2 /\ Table(d.blk, d.cap) /\ d.cnt * 10 < d.cap * 7  BY <1>2, <1>8, <1>11
  <1>14. Size(d) = d.cnt  BY <1>9, <1>11 DEF Size
  <1> QED BY <1>12, <1>13, <1>14 DEF Sound
\* After u32_com_track has grown the table when it must, there is room for one more.
LEMMA GrownReady == ASSUME NEW c, Sound(c), NEW x, x = IF (c.cnt + 1) * 10 >= c.cap * 7 THEN u32_com_grow(c) ELSE c
    PROVE Ready(x) /\ x.cnt = c.cnt /\ \A f : Lists(c, f) => Lists(x, f)
  <1>1. CASE (c.cnt + 1) * 10 >= c.cap * 7
    <2>1. x = u32_com_grow(c)  BY <1>1
    <2>2. /\ x = [cap |-> x.cap, cnt |-> c.cnt, blk |-> x.blk] /\ x.cap \in Nat /\ x.cap >= 2
          /\ Table(x.blk, x.cap) /\ Size(x) = c.cnt /\ (c.cnt + 1) * 10 < x.cap * 7 /\ \A f : Lists(c, f) => Lists(x, f)
      BY <2>1, GrowKeeps
    <2>3. x.cnt = c.cnt  BY <2>2
    <2>4. c.cnt \in Nat  BY DEF Sound
    <2> QED BY <2>2, <2>3, <2>4 DEF Ready
  <1>2. CASE ~((c.cnt + 1) * 10 >= c.cap * 7)
    <2>1. x = c  BY <1>2
    <2>2. c.cap \in Nat /\ c.cnt \in Nat  BY DEF Sound
    <2>3. c.cap # 0 /\ (c.cnt + 1) * 10 < c.cap * 7  BY <1>2, <2>2
    <2> QED BY <2>1, <2>2, <2>3 DEF Sound, Ready
  <1> QED BY <1>1, <1>2
\* A table whose sizes change and whose addresses do not is a table.
LEMMA SameAddresses == ASSUME NEW cap \in Nat, NEW b, Table(b, cap), NEW m \in Tab(cap), \A s \in 0..(cap - 1) : m[s].p = b[s].p
    PROVE Table(m, cap) /\ Used(m, cap) = Used(b, cap)
  <1>1. Used(m, cap) = Used(b, cap)  BY DEF Used
  <1>2. \A s \in Used(m, cap) : s \in 0..(cap - 1)  BY DEF Used
  <1>3. Single(m, cap)  BY <1>1, <1>2 DEF Table, Single
  <1>4. ASSUME NEW s \in Used(m, cap), NEW t \in 0..(cap - 1), Passes(m, s, t, cap) PROVE m[t].p # 0
    <2>1. Passes(b, s, t, cap)  BY <1>2, <1>4 DEF Passes
    <2> QED BY <2>1, <1>1, <1>4 DEF Table, Probed
  <1> QED BY <1>1, <1>3, <1>4 DEF Table, Probed
\* A block the table lists already, tracked again, changes its size.
LEMMA TrackAgain == ASSUME NEW c, Sound(c), NEW f, Lists(c, f), NEW p \in Nat \ {0}, p \in DOMAIN f, NEW n \in Nat,
                           NEW g, g = [q \in DOMAIN f |-> IF q = p THEN n ELSE f[q]], NEW d, d = u32_com_track(c, p, n)
    PROVE Sound(d) /\ d.cnt = c.cnt /\ Lists(d, g)
  <1>1. PICK x : x = IF (c.cnt + 1) * 10 >= c.cap * 7 THEN u32_com_grow(c) ELSE c  OBVIOUS
  <1>2. Ready(x) /\ x.cnt = c.cnt /\ Lists(x, f)  BY <1>1, GrownReady
  <1>3. PICK h : h = u32_com_slot(x.blk, p, x.cap)  OBVIOUS
  <1>4. PICK cap, b, e, m : cap = x.cap /\ b = x.blk /\ e = [p |-> p, n |-> n] /\ m = [b EXCEPT ![h] = e]  OBVIOUS
  <1>5. cap \in Nat \ {0} /\ Room(b, cap) /\ Table(b, cap)
    <2>1. x.cap \in Nat \ {0} /\ Room(x.blk, x.cap)  BY <1>2, ReadyRoom
    <2> QED BY <2>1, <1>2, <1>4 DEF Ready
  <1>6. h \in 0..(cap - 1) /\ b[h].p = p
    <2>1. h = u32_com_slot(b, p, cap)  BY <1>3, <1>4
    <2>2. h \in 0..(cap - 1) /\ (b[h].p = p \/ (b[h].p = 0 /\ \A s \in 0..(cap - 1) : b[s].p # p))  BY <2>1, <1>5, SlotFinds
    <2>3. PICK s \in 0..(cap - 1) : b[s] = [p |-> p, n |-> f[p]]  BY <1>2, <1>4 DEF Lists, Has
    <2>4. b[s].p = p  BY <2>3
    <2> QED BY <2>2, <2>4
  <1>7. d = [cap |-> cap, cnt |-> c.cnt, blk |-> m]
    <2>1. d = [x EXCEPT !.cnt = IF x.blk[h].p = 0 THEN @ + 1 ELSE @, !.blk[h] = [p |-> p, n |-> n]]
      BY <1>1, <1>3, Zenon DEF u32_com_track
    <2>2. x = [cap |-> cap, cnt |-> c.cnt, blk |-> b]  BY <1>2, <1>4 DEF Ready
    <2>3. x.blk[h].p # 0  BY <1>4, <1>6
    <2>4. d = [x EXCEPT !.cnt = @, !.blk[h] = e]  BY <2>1, <2>3, <1>4, Zenon
    <2> QED BY <2>2, <2>4, <1>4
  <1>8. e \in Ent /\ e.p = p /\ b \in Tab(cap)  BY <1>4, <1>5 DEF Ent, Table
  <1>9. m \in Tab(cap) /\ m[h] = e /\ \A s \in 0..(cap - 1) : s # h => m[s] = b[s]  BY <1>4, <1>6, <1>8 DEF Tab
  <1>10. \A s \in 0..(cap - 1) : m[s].p = b[s].p  BY <1>6, <1>8, <1>9
  <1>11. Table(m, cap) /\ Used(m, cap) = Used(b, cap)  BY <1>5, <1>9, <1>10, SameAddresses
  <1>12. d.cap = cap /\ d.cnt = c.cnt /\ d.blk = m  BY <1>7
  <1>13. Sound(d)
    <2>1. cap >= 2 /\ c.cnt \in Nat /\ Cardinality(Used(b, cap)) = c.cnt /\ c.cnt * 10 < cap * 7
      <3>1. x.cap >= 2 /\ c.cnt \in Nat /\ Size(x) = c.cnt /\ (c.cnt + 1) * 10 < x.cap * 7  BY <1>2 DEF Ready
      <3>2. x.cap \in Nat  BY <1>2 DEF Ready
      <3> QED BY <3>1, <3>2, <1>4 DEF Size
    <2>2. d = [cap |-> d.cap, cnt |-> d.cnt, blk |-> d.blk]  BY <1>7, <1>12
    <2>3. Size(d) = d.cnt  BY <2>1, <1>11, <1>12 DEF Size
    <2> QED BY <2>1, <2>2, <2>3, <1>5, <1>11, <1>12 DEF Sound
  <1>14. DOMAIN g = DOMAIN f /\ g[p] = n /\ \A q \in DOMAIN f : q # p => g[q] = f[q]  OBVIOUS
  <1>15. ASSUME NEW q \in DOMAIN g PROVE Has(m, cap, [p |-> q, n |-> g[q]])
    <2>1. CASE q = p  BY <2>1, <1>4, <1>6, <1>9, <1>14 DEF Has
    <2>2. CASE q # p
      <3>1. q \in DOMAIN f /\ g[q] = f[q]  BY <2>2, <1>14, <1>15
      <3>2. PICK s \in 0..(cap - 1) : b[s] = [p |-> q, n |-> f[q]]  BY <3>1, <1>2, <1>4 DEF Lists, Has
      <3>3. s # h  BY <3>2, <2>2, <1>6
      <3> QED BY <3>1, <3>2, <3>3, <1>9 DEF Has
    <2> QED BY <2>1, <2>2
  <1>16. ASSUME NEW s \in Used(m, cap) PROVE m[s].p \in DOMAIN g /\ m[s].n = g[m[s].p]
    <2>1. s \in 0..(cap - 1) /\ s \in Used(b, cap)  BY <1>11, <1>16 DEF Used
    <2>2. CASE s = h
      <3>1. m[s].p = p /\ m[s].n = n  BY <2>2, <1>4, <1>9
      <3> QED BY <3>1, <1>14
    <2>3. CASE s # h
      <3>1. m[s] = b[s]  BY <2>1, <2>3, <1>9
      <3>2. b[s].p \in DOMAIN f /\ b[s].n = f[b[s].p]  BY <2>1, <1>2, <1>4, <1>5 DEF Lists
      <3>3. b[s].p # p
        <4>1. h \in Used(b, cap)  BY <1>6 DEF Used
        <4> QED BY <4>1, <2>1, <2>3, <1>5, <1>6 DEF Table, Single
      <3> QED BY <3>1, <3>2, <3>3, <1>14
    <2> QED BY <2>2, <2>3
  <1>17. 0 \notin DOMAIN g
    <2>1. 0 \notin DOMAIN f  BY DEF Lists
    <2> QED BY <2>1, <1>14
  <1>18. Lists(d, g)  BY <1>12, <1>15, <1>16, <1>17, <1>5 DEF Lists
  <1> QED BY <1>12, <1>13, <1>18
LEMMA TrackKeeps == ASSUME NEW c, Sound(c), NEW f, Lists(c, f), NEW p \in Nat \ {0}, p \notin DOMAIN f, NEW n \in Nat,
                           NEW g, g = [q \in DOMAIN f \cup {p} |-> IF q = p THEN n ELSE f[q]], NEW d, d = u32_com_track(c, p, n)
    PROVE Sound(d) /\ d.cnt = c.cnt + 1 /\ Lists(d, g)
  <1>1. PICK x : x = IF (c.cnt + 1) * 10 >= c.cap * 7 THEN u32_com_grow(c) ELSE c  OBVIOUS
  <1>2. Ready(x) /\ x.cnt = c.cnt /\ Lists(x, f)  BY <1>1, GrownReady
  <1>3. PICK h : h = u32_com_slot(x.blk, p, x.cap)  OBVIOUS
  <1>4. \A s \in 0..(x.cap - 1) : x.blk[s].p # p
    <2>1. ASSUME NEW s \in 0..(x.cap - 1), x.blk[s].p = p PROVE FALSE
      <3>1. s \in Used(x.blk, x.cap)  BY <2>1 DEF Used
      <3>2. x.cap # 0  BY <1>2, ReadyRoom
      <3> QED BY <3>1, <3>2, <2>1, <1>2 DEF Lists
    <2> QED BY <2>1
  <1>5. d = [x EXCEPT !.cnt = IF x.blk[h].p = 0 THEN @ + 1 ELSE @, !.blk[h] = [p |-> p, n |-> n]]
    BY <1>1, <1>3, Zenon DEF u32_com_track
  <1>6. /\ h \in 0..(x.cap - 1) /\ x.blk[h].p = 0 /\ d = [cap |-> x.cap, cnt |-> x.cnt + 1, blk |-> d.blk] /\ Sound(d)
        /\ d.blk \in Tab(x.cap) /\ d.blk[h] = [p |-> p, n |-> n] /\ \A s \in 0..(x.cap - 1) : s # h => d.blk[s] = x.blk[s]
    <2>1. h \in 0..(x.cap - 1) /\ x.blk[h].p = 0  BY <1>2, <1>3, <1>4, SlotIsFree
    <2>2. PICK e, m : e = [p |-> p, n |-> n] /\ m = [x.blk EXCEPT ![h] = e]  OBVIOUS
    <2>3. e \in Ent /\ e.p = p /\ e.p # 0  BY <2>2 DEF Ent
    <2>4. x.blk \in Tab(x.cap)  BY <1>2 DEF Ready, Table
    <2>5. m \in Tab(x.cap) /\ m[h] = e /\ \A s \in 0..(x.cap - 1) : s # h => m[s] = x.blk[s]  BY <2>1, <2>2, <2>3, <2>4 DEF Tab
    <2>6. x = [cap |-> x.cap, cnt |-> x.cnt, blk |-> x.blk]  BY <1>2 DEF Ready
    <2>7. PICK y : y = [cap |-> x.cap, cnt |-> x.cnt + 1, blk |-> m]  OBVIOUS
    <2>8. d = y
      <3>1. d = [x EXCEPT !.cnt = @ + 1, !.blk[h] = e]  BY <1>5, <2>1, <2>2, Zenon
      <3> QED BY <3>1, <2>2, <2>6, <2>7
    <2>9. h = u32_com_slot(x.blk, e.p, x.cap)  BY <1>3, <2>3
    <2>10. \A s \in 0..(x.cap - 1) : x.blk[s].p # e.p  BY <1>4, <2>3
    <2>11. m \in Tab(x.cap) /\ m[h] = e  BY <2>5
    <2>12. \A s \in 0..(x.cap - 1) : s # h => m[s] = x.blk[s]  BY <2>5
    <2>13. Ready(x)  BY <1>2
    <2>14. Sound(y)  BY <2>3, <2>7, <2>9, <2>10, <2>11, <2>12, <2>13, PutReady
    <2>15. y.blk = m /\ y = [cap |-> x.cap, cnt |-> x.cnt + 1, blk |-> y.blk]  BY <2>7
    <2> QED BY <2>1, <2>2, <2>5, <2>8, <2>14, <2>15
  <1>7. d.cap = x.cap /\ d.cnt = c.cnt + 1 /\ x.cap # 0  BY <1>2, <1>6, ReadyRoom
  <1>8. DOMAIN g = DOMAIN f \cup {p} /\ g[p] = n /\ \A q \in DOMAIN f : g[q] = f[q]  OBVIOUS
  <1>9. ASSUME NEW q \in DOMAIN g PROVE Has(d.blk, d.cap, [p |-> q, n |-> g[q]])
    <2>1. CASE q = p  BY <2>1, <1>6, <1>7, <1>8 DEF Has
    <2>2. CASE q # p
      <3>1. q \in DOMAIN f /\ g[q] = f[q]  BY <2>2, <1>8, <1>9
      <3>2. PICK s \in 0..(x.cap - 1) : x.blk[s] = [p |-> q, n |-> f[q]]  BY <3>1, <1>2 DEF Lists, Has
      <3>3. x.blk[s].p = q /\ q # 0  BY <3>1, <3>2, <1>2 DEF Lists
      <3>4. s # h  BY <3>3, <1>6
      <3> QED BY <3>1, <3>2, <3>4, <1>6, <1>7 DEF Has
    <2> QED BY <2>1, <2>2
  <1>10. ASSUME NEW s \in Used(d.blk, d.cap) PROVE d.blk[s].p \in DOMAIN g /\ d.blk[s].n = g[d.blk[s].p]
    <2>1. s \in 0..(x.cap - 1) /\ d.blk[s].p # 0  BY <1>7, <1>10 DEF Used
    <2>2. CASE s = h  BY <2>2, <1>6, <1>8
    <2>3. CASE s # h
      <3>1. d.blk[s] = x.blk[s]  BY <2>1, <2>3, <1>6
      <3>2. s \in Used(x.blk, x.cap)  BY <2>1, <3>1 DEF Used
      <3>3. x.blk[s].p \in DOMAIN f /\ x.blk[s].n = f[x.blk[s].p]  BY <3>2, <1>2, <1>7 DEF Lists
      <3> QED BY <3>1, <3>3, <1>8
    <2> QED BY <2>2, <2>3
  <1>11. 0 \notin DOMAIN g
    <2>1. 0 \notin DOMAIN f  BY DEF Lists
    <2> QED BY <2>1, <1>8
  <1>12. Lists(d, g)  BY <1>7, <1>9, <1>10, <1>11 DEF Lists
  <1> QED BY <1>6, <1>7, <1>12
\* A hole at z beyond the k slots behind h that are done: an entry whose probe sequence passes a hole
\* is beyond them, and the hole is among them.
Gap(b, cap, h, z, k) ==
    /\ b[z].p = 0 /\ k < Dist(h, z, cap)
    /\ \A s \in Used(b, cap), t \in 0..(cap - 1) :
          Passes(b, s, t, cap) /\ b[t].p = 0 => Dist(h, t, cap) <= k /\ k < Dist(h, s, cap)
\* Two orders of the slots around the table, from h and from an entry's home a.
LEMMA Between == ASSUME NEW cap \in Nat \ {0}, NEW h \in 0..(cap - 1), NEW a \in 0..(cap - 1),
                        NEW t \in 0..(cap - 1), NEW i \in 0..(cap - 1), NEW s \in 0..(cap - 1)
    PROVE /\ Dist(a, t, cap) < Dist(a, s, cap) /\ Dist(h, t, cap) < Dist(h, i, cap) /\ Dist(h, i, cap) < Dist(h, s, cap)
             => Dist(a, i, cap) < Dist(a, s, cap)
          /\ Dist(a, i, cap) < Dist(a, s, cap) /\ Dist(h, s, cap) < Dist(h, i, cap) /\ Dist(h, i, cap) < Dist(h, t, cap)
             => Dist(a, t, cap) < Dist(a, s, cap)
  BY DEF Dist
LEMMA DistIs == ASSUME NEW cap \in Nat \ {0}, NEW h \in 0..(cap - 1), NEW t \in 0..(cap - 1)
    PROVE /\ Dist(h, t, cap) \in 0..(cap - 1) /\ (Dist(h, t, cap) = 0 <=> t = h)
          /\ \A s \in 0..(cap - 1) : Dist(h, s, cap) = Dist(h, t, cap) => s = t
  BY DEF Dist
\* An empty slot ends the chain: every entry is found by its probe sequence again.
LEMMA GapEnds == ASSUME NEW cap \in Nat \ {0}, NEW b \in Tab(cap), NEW h \in 0..(cap - 1), NEW z \in 0..(cap - 1), NEW k \in Nat,
                        Gap(b, cap, h, z, k), NEW i \in 0..(cap - 1), Dist(h, i, cap) = k + 1, b[i].p = 0
    PROVE Probed(b, cap)
  <1>1. ASSUME NEW s \in Used(b, cap), NEW t \in 0..(cap - 1), Passes(b, s, t, cap), b[t].p = 0 PROVE FALSE
    <2>1. s \in 0..(cap - 1) /\ b[s].p # 0 /\ b[s].p \in Nat
      <3>1. s \in 0..(cap - 1) /\ b[s].p # 0  BY DEF Used
      <3> QED BY <3>1 DEF Tab, Ent
    <2>2. Dist(h, t, cap) <= k /\ k < Dist(h, s, cap)  BY <1>1 DEF Gap
    <2>3. s # i  BY <2>1
    <2>4. Dist(h, s, cap) # k + 1  BY <2>1, <2>3, DistIs
    <2>5. Dist(h, s, cap) \in Nat /\ Dist(h, t, cap) \in Nat
      <3>1. Dist(h, s, cap) \in 0..(cap - 1)  BY <2>1, DistIs
      <3>2. Dist(h, t, cap) \in 0..(cap - 1)  BY DistIs
      <3> QED BY <3>1, <3>2
    <2>6. Dist(h, t, cap) < Dist(h, i, cap) /\ Dist(h, i, cap) < Dist(h, s, cap)  BY <2>2, <2>4, <2>5
    <2>7. PICK a : a = Home(b[s].p, cap)  OBVIOUS
    <2>8. a \in 0..(cap - 1)  BY <2>1, <2>7, HomeIn
    <2>9. Dist(a, t, cap) < Dist(a, s, cap)  BY <1>1, <2>7 DEF Passes
    <2>10. Dist(a, i, cap) < Dist(a, s, cap)  BY <2>1, <2>6, <2>8, <2>9, Between
    <2>11. Passes(b, s, i, cap)  BY <2>7, <2>10 DEF Passes
    <2>12. Dist(h, i, cap) <= k  BY <2>11 DEF Gap
    <2> QED BY <2>12
  <1> QED BY <1>1 DEF Probed
\* The entry behind the hole, taken out and put back.
LEMMA MoveOne ==
    ASSUME NEW cap \in Nat \ {0}, NEW b \in Tab(cap), Single(b, cap), NEW h \in 0..(cap - 1), NEW z \in 0..(cap - 1), NEW k \in Nat,
           Gap(b, cap, h, z, k), NEW i \in 0..(cap - 1), Dist(h, i, cap) = k + 1, b[i].p # 0, NEW e, e = b[i],
           NEW u \in Tab(cap), u[i] = Hole, \A s \in 0..(cap - 1) : s # i => u[s] = b[s],
           NEW r, r = u32_com_slot(u, e.p, cap),
           NEW m \in Tab(cap), m[r] = e, \A s \in 0..(cap - 1) : s # r => m[s] = u[s]
    PROVE /\ r \in 0..(cap - 1) /\ u[r].p = 0 /\ Single(m, cap) /\ Gap(m, cap, h, z, k + 1)
          /\ Used(m, cap) = (Used(b, cap) \ {i}) \cup {r} /\ r \notin Used(b, cap) \ {i}
          /\ \A g \in Ent : g.p # 0 => (Has(m, cap, g) <=> Has(b, cap, g))
  <1>1. PICK p, a : p = e.p /\ a = Home(p, cap)  OBVIOUS
  <1>2. e \in Ent /\ p \in Nat \ {0} /\ a \in 0..(cap - 1)
    <2>1. e \in Ent /\ p \in Nat \ {0}  BY <1>1 DEF Tab, Ent
    <2> QED BY <2>1, <1>1, HomeIn
  <1>3. u[i].p = 0  BY HoleIs
  <1>4. /\ r \in 0..(cap - 1) /\ u[r].p \in {0, p}
        /\ \A t \in 0..(cap - 1) : Dist(a, t, cap) < Dist(a, r, cap) => u[t].p # 0 /\ u[t].p # p
    <2>1. Room(u, cap)  BY <1>3 DEF Room
    <2>2. r = u32_com_slot(u, p, cap)  BY <1>1
    <2> QED BY <1>1, <1>2, <2>1, <2>2, SlotIs
  <1>5. \A s \in 0..(cap - 1) : u[s].p # p
    <2>1. ASSUME NEW s \in 0..(cap - 1), u[s].p = p PROVE FALSE
      <3>1. s # i /\ b[s].p = b[i].p  BY <1>1, <1>2, <1>3, <2>1
      <3>2. s \in Used(b, cap) /\ i \in Used(b, cap)  BY <3>1 DEF Used
      <3> QED BY <3>1, <3>2 DEF Single
    <2> QED BY <2>1
  <1>6. u[r].p = 0  BY <1>4, <1>5
  <1>7. Used(m, cap) = (Used(b, cap) \ {i}) \cup {r} /\ r \notin Used(b, cap) \ {i}
    <2>1. Used(u, cap) = Used(b, cap) \ {i}  BY <1>3 DEF Used
    <2>2. Used(m, cap) = Used(u, cap) \cup {r}  BY <1>1, <1>2, <1>4 DEF Used
    <2>3. r \notin Used(u, cap)  BY <1>6 DEF Used
    <2> QED BY <2>1, <2>2, <2>3
  <1>8. Single(m, cap)
    <2>1. ASSUME NEW s \in Used(m, cap), NEW t \in Used(m, cap), m[s].p = m[t].p PROVE s = t
      <3>1. s \in 0..(cap - 1) /\ t \in 0..(cap - 1)  BY DEF Used
      <3>2. CASE s # r /\ t # r
        <4>1. m[s] = u[s] /\ m[t] = u[t] /\ s \in Used(b, cap) \ {i} /\ t \in Used(b, cap) \ {i}  BY <3>1, <3>2, <1>7
        <4>2. m[s] = b[s] /\ m[t] = b[t]  BY <3>1, <4>1
        <4> QED BY <4>1, <4>2, <2>1 DEF Single
      <3>3. CASE s = r /\ t # r  BY <3>1, <3>3, <2>1, <1>1, <1>5
      <3>4. CASE s # r /\ t = r  BY <3>1, <3>4, <2>1, <1>1, <1>5
      <3> QED BY <3>2, <3>3, <3>4
    <2> QED BY <2>1 DEF Single
  <1>9. b[z].p = 0 /\ k < Dist(h, z, cap) /\ z # i  BY DEF Gap
  <1>10. Dist(h, z, cap) \in Nat /\ k + 1 < Dist(h, z, cap)
    <2>1. Dist(h, z, cap) \in Nat /\ Dist(h, z, cap) # Dist(h, i, cap)  BY <1>9, DistIs
    <2> QED BY <2>1, <1>9
  <1>11. ASSUME NEW s \in Used(b, cap), NEW t \in 0..(cap - 1), Passes(b, s, t, cap), b[t].p = 0
         PROVE Dist(h, t, cap) <= k /\ k < Dist(h, s, cap)
    BY <1>11 DEF Gap
  <1>12. r # z
    <2>1. ASSUME r = z PROVE FALSE
      <3>1. ~(Dist(a, i, cap) < Dist(a, r, cap))  BY <1>3, <1>4
      <3>2. Dist(a, i, cap) # Dist(a, r, cap)  BY <1>2, <1>4, <1>9, <2>1, DistIs
      <3>3. Dist(a, z, cap) < Dist(a, i, cap)
        <4>1. Dist(a, i, cap) \in Nat /\ Dist(a, r, cap) \in Nat  BY <1>2, <1>4, DistIs
        <4> QED BY <4>1, <3>1, <3>2, <2>1
      <3>4. i \in Used(b, cap) /\ Passes(b, i, z, cap)  BY <3>3, <1>1 DEF Used, Passes
      <3>5. Dist(h, z, cap) <= k  BY <3>4, <1>9, <1>11
      <3> QED BY <3>5, <1>10
    <2> QED BY <2>1
  <1>13. m[z].p = 0  BY <1>9, <1>12
  <1>14. ASSUME NEW s \in Used(m, cap), NEW t \in 0..(cap - 1), Passes(m, s, t, cap), m[t].p = 0
         PROVE Dist(h, t, cap) <= k + 1 /\ k + 1 < Dist(h, s, cap)
    <2>1. s \in 0..(cap - 1) /\ t # r  BY <1>14, <1>1, <1>2 DEF Used
    <2>2. u[t].p = 0  BY <1>14, <2>1
    <2>3. s # r
      <3>1. ASSUME s = r PROVE FALSE
        <4>1. Dist(a, t, cap) < Dist(a, r, cap)  BY <3>1, <1>1, <1>14 DEF Passes
        <4> QED BY <4>1, <1>4, <2>2
      <3> QED BY <3>1
    <2>4. s \in Used(b, cap) /\ s # i /\ m[s] = b[s]  BY <2>1, <2>3, <1>7
    <2>5. Passes(b, s, t, cap)  BY <2>4, <1>14 DEF Passes
    <2>6. Dist(h, s, cap) \in Nat /\ Dist(h, t, cap) \in Nat /\ Dist(h, s, cap) # k + 1  BY <2>1, <2>4, DistIs
    <2>7. CASE t # i
      <3>1. b[t].p = 0  BY <2>2, <2>7
      <3>2. Dist(h, t, cap) <= k /\ k < Dist(h, s, cap)  BY <1>11, <2>4, <2>5, <3>1
      <3> QED BY <3>2, <2>6
    <2>8. CASE t = i
      <3>1. ASSUME Dist(h, s, cap) < k + 1 PROVE FALSE
        <4>1. PICK w : w = Home(b[s].p, cap)  OBVIOUS
        <4>2. w \in 0..(cap - 1)
          <5>1. b[s].p \in Nat  BY <2>1 DEF Tab, Ent
          <5> QED BY <5>1, <4>1, HomeIn
        <4>3. Dist(w, i, cap) < Dist(w, s, cap)  BY <2>5, <2>8, <4>1 DEF Passes
        <4>4. Dist(h, s, cap) < Dist(h, i, cap) /\ Dist(h, i, cap) < Dist(h, z, cap)  BY <3>1, <1>10
        <4>5. Dist(w, z, cap) < Dist(w, s, cap)  BY <2>1, <4>2, <4>3, <4>4, Between
        <4>6. Passes(b, s, z, cap)  BY <4>1, <4>5 DEF Passes
        <4>7. Dist(h, z, cap) <= k  BY <2>4, <4>6, <1>9, <1>11
        <4> QED BY <4>7, <1>10
      <3> QED BY <3>1, <2>6, <2>8
    <2> QED BY <2>7, <2>8
  <1>15. Gap(m, cap, h, z, k + 1)  BY <1>10, <1>13, <1>14 DEF Gap
  <1>16. ASSUME NEW g \in Ent, g.p # 0 PROVE Has(m, cap, g) <=> Has(b, cap, g)
    <2>1. ASSUME Has(m, cap, g) PROVE Has(b, cap, g)
      <3>1. PICK s \in 0..(cap - 1) : m[s] = g  BY <2>1 DEF Has
      <3>2. CASE s = r  BY <3>1, <3>2 DEF Has
      <3>3. CASE s # r
        <4>1. u[s] = g  BY <3>1, <3>3
        <4>2. s # i  BY <4>1, <1>3, <1>16
        <4> QED BY <4>1, <4>2, <3>1 DEF Has
      <3> QED BY <3>2, <3>3
    <2>2. ASSUME Has(b, cap, g) PROVE Has(m, cap, g)
      <3>1. PICK s \in 0..(cap - 1) : b[s] = g  BY <2>2 DEF Has
      <3>2. CASE s = i  BY <3>1, <3>2, <1>4 DEF Has
      <3>3. CASE s # i
        <4>1. u[s] = g  BY <3>1, <3>3
        <4>2. s # r  BY <4>1, <1>6, <1>16
        <4> QED BY <4>1, <4>2, <3>1 DEF Has
      <3> QED BY <3>2, <3>3
    <2> QED BY <2>1, <2>2
  <1> QED BY <1>4, <1>6, <1>7, <1>8, <1>15, <1>16
ChainIs(c, h, n, g) ==
    g = [k \in 0..n |-> IF k = 0 THEN [c |-> Cleared(c, h), go |-> TRUE] ELSE Reinserted(g[k - 1], (h + k) % c.cap)]
LEMMA ChainExists == ASSUME NEW c, NEW h PROVE \A n \in Nat : \E g : ChainIs(c, h, n, g)
  <1> DEFINE Bad == {n \in Nat : ~ \E g : ChainIs(c, h, n, g)}
  <1> SUFFICES ASSUME Bad # {} PROVE FALSE  OBVIOUS
  <1>1. PICK n \in Bad : \A j \in Bad : n <= j
    <2>1. Bad \subseteq Nat  OBVIOUS
    <2> QED BY <2>1, LeastNat, Zenon
  <1>2. n \in Nat /\ ~ \E g : ChainIs(c, h, n, g)  OBVIOUS
  <1>3. PICK E : E = [c |-> Cleared(c, h), go |-> TRUE]  OBVIOUS
  <1>4. CASE n = 0
    <2>1. ChainIs(c, h, 0, [i \in 0..0 |-> E])  BY <1>3 DEF ChainIs
    <2> QED BY <1>2, <1>4, <2>1
  <1>5. CASE n # 0
    <2>1. n - 1 \in Nat /\ n - 1 \notin Bad  BY <1>1, <1>2, <1>5
    <2>2. PICK g : ChainIs(c, h, n - 1, g)  BY <2>1
    <2>4. PICK f : f = [i \in 0..n |-> IF i = n THEN Reinserted(g[n - 1], (h + n) % c.cap) ELSE g[i]]  OBVIOUS
    <2>5. \A i \in 0..(n - 1) : g[i] = IF i = 0 THEN E ELSE Reinserted(g[i - 1], (h + i) % c.cap)  BY <2>2, <1>3 DEF ChainIs
    <2>6. ASSUME NEW i \in 0..n PROVE f[i] = IF i = 0 THEN E ELSE Reinserted(f[i - 1], (h + i) % c.cap)
      <3>1. CASE i = n
        <4>1. f[i] = Reinserted(g[n - 1], (h + n) % c.cap)  BY <3>1, <2>4
        <4>2. f[n - 1] = g[n - 1]  BY <1>2, <1>5, <2>4
        <4> QED BY <1>5, <3>1, <4>1, <4>2
      <3>2. CASE i # n
        <4>1. i \in 0..(n - 1) /\ f[i] = g[i]  BY <1>2, <3>2, <2>4
        <4>2. i # 0 => f[i - 1] = g[i - 1]  BY <1>2, <3>2, <2>4
        <4> QED BY <2>5, <4>1, <4>2
      <3> QED BY <3>1, <3>2
    <2>7. f = [i \in 0..n |-> IF i = 0 THEN E ELSE Reinserted(f[i - 1], (h + i) % c.cap)]  BY <2>4, <2>6
    <2>8. ChainIs(c, h, n, f)  BY <1>3, <2>7 DEF ChainIs
    <2> QED BY <1>2, <2>8
  <1> QED BY <1>4, <1>5
LEMMA ChainHolds == ASSUME NEW c, NEW h, c.cap \in Nat \ {0} PROVE ChainIs(c, h, c.cap - 1, Chain(c, h))
  <1>1. \E g : ChainIs(c, h, c.cap - 1, g)
    <2>1. c.cap - 1 \in Nat  OBVIOUS
    <2> QED BY <2>1, ChainExists
  <1>2. \E g : g = [k \in 0..(c.cap - 1) |-> IF k = 0 THEN [c |-> Cleared(c, h), go |-> TRUE] ELSE Reinserted(g[k - 1], (h + k) % c.cap)]
    BY <1>1, Zenon DEF ChainIs
  <1>3. Chain(c, h) = [k \in 0..(c.cap - 1) |-> IF k = 0 THEN [c |-> Cleared(c, h), go |-> TRUE] ELSE Reinserted(Chain(c, h)[k - 1], (h + k) % c.cap)]
    BY <1>2, Zenon DEF Chain
  <1> QED BY <1>3, Zenon DEF ChainIs
\* The table b without the block p, after k slots behind its old slot h.
Lacks(b, cap, b0, p, cnt) ==
    /\ b \in Tab(cap) /\ Single(b, cap) /\ Cardinality(Used(b, cap)) = cnt
    /\ \A e \in Ent : e.p # 0 => (Has(b, cap, e) <=> Has(b0, cap, e) /\ e.p # p)
Chained(q, c, p, h, z, k) ==
    /\ q = [c |-> [cap |-> c.cap, cnt |-> c.cnt - 1, blk |-> q.c.blk], go |-> q.go] /\ q.go \in BOOLEAN
    /\ Lacks(q.c.blk, c.cap, c.blk, p, c.cnt - 1)
    /\ IF q.go THEN Gap(q.c.blk, c.cap, h, z, k) ELSE Probed(q.c.blk, c.cap)
LEMMA ChainStarts ==
    ASSUME NEW c, Sound(c), c.cap # 0, NEW h \in 0..(c.cap - 1), c.blk[h].p # 0, NEW p, p = c.blk[h].p,
           NEW z \in 0..(c.cap - 1), c.blk[z].p = 0, NEW q, q = [c |-> Cleared(c, h), go |-> TRUE]
    PROVE Chained(q, c, p, h, z, 0)
  <1>1. PICK cap, cnt, b0, b : cap = c.cap /\ cnt = c.cnt /\ b0 = c.blk /\ b = [c.blk EXCEPT ![h] = Hole]  OBVIOUS
  <1>2. c = [cap |-> cap, cnt |-> cnt, blk |-> b0] /\ cap \in Nat \ {0} /\ cnt \in Nat  BY <1>1 DEF Sound
  <1>3. Table(b0, cap) /\ Cardinality(Used(b0, cap)) = cnt  BY <1>1 DEF Sound, Size
  <1>4. b \in Tab(cap) /\ b[h] = Hole /\ \A s \in 0..(cap - 1) : s # h => b[s] = b0[s]  BY <1>1, <1>3, HoleIs DEF Table, Tab
  <1>5. h \in 0..(cap - 1) /\ z \in 0..(cap - 1) /\ b0[h].p = p /\ p # 0 /\ b0[z].p = 0 /\ b[h].p = 0  BY <1>1, <1>4, HoleIs
  <1>6. Used(b, cap) = Used(b0, cap) \ {h} /\ h \in Used(b0, cap)  BY <1>4, <1>5 DEF Used
  <1>7. Cardinality(Used(b, cap)) = cnt - 1
    <2>1. IsFiniteSet(Used(b0, cap))  BY <1>2, UsedFinite
    <2>2. Cardinality(Used(b0, cap) \ {h}) = Cardinality(Used(b0, cap)) - 1  BY <2>1, <1>6, FS_RemoveElement
    <2> QED BY <2>2, <1>3, <1>6
  <1>8. Single(b, cap)
    <2>1. ASSUME NEW s \in Used(b, cap), NEW t \in Used(b, cap), b[s].p = b[t].p PROVE s = t
      <3>1. s \in Used(b0, cap) /\ t \in Used(b0, cap) /\ s # h /\ t # h  BY <1>6
      <3>2. b[s] = b0[s] /\ b[t] = b0[t]  BY <3>1, <1>4 DEF Used
      <3> QED BY <3>1, <3>2, <2>1, <1>3 DEF Table, Single
    <2> QED BY <2>1 DEF Single
  <1>9. ASSUME NEW e \in Ent, e.p # 0 PROVE Has(b, cap, e) <=> Has(b0, cap, e) /\ e.p # p
    <2>1. ASSUME Has(b, cap, e) PROVE Has(b0, cap, e) /\ e.p # p
      <3>1. PICK s \in 0..(cap - 1) : b[s] = e  BY <2>1 DEF Has
      <3>2. s # h  BY <3>1, <1>5, <1>9
      <3>3. b0[s] = e  BY <3>1, <3>2, <1>4
      <3>4. s \in Used(b0, cap)  BY <3>3, <1>9 DEF Used
      <3>5. b0[s].p # b0[h].p  BY <3>2, <3>4, <1>6, <1>3 DEF Table, Single
      <3> QED BY <3>3, <3>5, <1>5 DEF Has
    <2>2. ASSUME Has(b0, cap, e), e.p # p PROVE Has(b, cap, e)
      <3>1. PICK s \in 0..(cap - 1) : b0[s] = e  BY <2>2 DEF Has
      <3>2. s # h  BY <3>1, <1>5, <2>2
      <3> QED BY <3>1, <3>2, <1>4 DEF Has
    <2> QED BY <2>1, <2>2
  <1>10. Lacks(b, cap, b0, p, cnt - 1)  BY <1>4, <1>7, <1>8, <1>9 DEF Lacks
  <1>11. Gap(b, cap, h, z, 0)
    <2>1. z # h  BY <1>5
    <2>2. 0 < Dist(h, z, cap) /\ Dist(h, h, cap) = 0
      <3>1. Dist(h, z, cap) \in 0..(cap - 1) /\ Dist(h, z, cap) # 0  BY <2>1, <1>2, <1>5, DistIs
      <3> QED BY <3>1, <1>5 DEF Dist
    <2>3. b[z].p = 0  BY <2>1, <1>4, <1>5
    <2>4. ASSUME NEW s \in Used(b, cap), NEW t \in 0..(cap - 1), Passes(b, s, t, cap), b[t].p = 0
          PROVE Dist(h, t, cap) <= 0 /\ 0 < Dist(h, s, cap)
      <3>1. s \in Used(b0, cap) /\ s # h /\ s \in 0..(cap - 1)  BY <1>6 DEF Used
      <3>2. b[s] = b0[s]  BY <3>1, <1>4
      <3>3. Passes(b0, s, t, cap)  BY <3>2, <2>4 DEF Passes
      <3>4. b0[t].p # 0  BY <3>1, <3>3, <1>3 DEF Table, Probed
      <3>5. t = h  BY <3>4, <2>4, <1>4
      <3>6. Dist(h, s, cap) \in 0..(cap - 1) /\ Dist(h, s, cap) # 0  BY <3>1, <1>2, <1>5, DistIs
      <3> QED BY <3>5, <3>6, <2>2
    <2> QED BY <2>2, <2>3, <2>4 DEF Gap
  <1>12. q = [c |-> [cap |-> cap, cnt |-> cnt - 1, blk |-> b], go |-> TRUE]
    <2>1. Cleared(c, h) = [c EXCEPT !.blk[h] = Hole, !.cnt = @ - 1]  BY DEF Cleared
    <2>2. Cleared(c, h) = [cap |-> cap, cnt |-> cnt - 1, blk |-> b]  BY <2>1, <1>1, <1>2
    <2> QED BY <2>2
  <1>13. q.c.blk = b /\ q.go = TRUE  BY <1>12
  <1>14. q = [c |-> [cap |-> cap, cnt |-> cnt - 1, blk |-> q.c.blk], go |-> q.go]  BY <1>12, <1>13
  <1> QED BY <1>1, <1>10, <1>11, <1>13, <1>14 DEF Chained
LEMMA TrackPlain == ASSUME NEW c, NEW cap, NEW cnt \in Int, NEW b, c = [cap |-> cap, cnt |-> cnt, blk |-> b], ~((cnt + 1) * 10 >= cap * 7),
                           NEW p, NEW n, NEW r, r = u32_com_slot(b, p, cap), b[r].p = 0
    PROVE u32_com_track(c, p, n) = [cap |-> cap, cnt |-> cnt + 1, blk |-> [b EXCEPT ![r] = [p |-> p, n |-> n]]]
  <1>1. c.cap = cap /\ c.cnt = cnt /\ c.blk = b  OBVIOUS
  <1>2. PICK x : x = IF (c.cnt + 1) * 10 >= c.cap * 7 THEN u32_com_grow(c) ELSE c  OBVIOUS
  <1>3. x = c  BY <1>1, <1>2
  <1>4. PICK s : s = u32_com_slot(x.blk, p, x.cap)  OBVIOUS
  <1>5. s = r  BY <1>1, <1>3, <1>4
  <1>6. PICK d : d = u32_com_track(c, p, n)  OBVIOUS
  <1>7. d = [x EXCEPT !.cnt = IF x.blk[s].p = 0 THEN @ + 1 ELSE @, !.blk[s] = [p |-> p, n |-> n]]
    BY <1>2, <1>4, <1>6, Zenon DEF u32_com_track
  <1>8. x.blk[s].p = 0  BY <1>1, <1>3, <1>5
  <1>9. d = [x EXCEPT !.cnt = @ + 1, !.blk[s] = [p |-> p, n |-> n]]  BY <1>7, <1>8, Zenon
  <1>10. d = [cap |-> cap, cnt |-> cnt + 1, blk |-> [b EXCEPT ![r] = [p |-> p, n |-> n]]]  BY <1>3, <1>5, <1>9
  <1> QED BY <1>6, <1>10
LEMMA ChainStep ==
    ASSUME NEW c, Sound(c), c.cap # 0, NEW h \in 0..(c.cap - 1), NEW p, NEW z \in 0..(c.cap - 1), NEW k \in Nat, k + 1 <= c.cap - 1,
           NEW q, Chained(q, c, p, h, z, k), NEW i, i = (h + (k + 1)) % c.cap, NEW d, d = Reinserted(q, i)
    PROVE Chained(d, c, p, h, z, k + 1)
  <1>1. PICK cap, cnt, b0, b, go : cap = c.cap /\ cnt = c.cnt /\ b0 = c.blk /\ b = q.c.blk /\ go = q.go  OBVIOUS
  <1>2. cap \in Nat \ {0} /\ cnt \in Nat /\ cnt * 10 < cap * 7  BY <1>1 DEF Sound
  <1>3. q = [c |-> [cap |-> cap, cnt |-> cnt - 1, blk |-> b], go |-> go] /\ go \in BOOLEAN  BY <1>1 DEF Chained
  <1>4. Lacks(b, cap, b0, p, cnt - 1)  BY <1>1 DEF Chained
  <1>5. b \in Tab(cap) /\ Single(b, cap) /\ Cardinality(Used(b, cap)) = cnt - 1  BY <1>4 DEF Lacks
  <1>6. go => Gap(b, cap, h, z, k)  BY <1>1 DEF Chained
  <1>7. ~go => Probed(b, cap)  BY <1>1 DEF Chained
  <1>8. h \in 0..(cap - 1) /\ z \in 0..(cap - 1)  BY <1>1
  <1>9. i \in 0..(cap - 1) /\ Dist(h, i, cap) = k + 1
    <2>1. PICK j : j = k + 1  OBVIOUS
    <2>2. j \in 0..cap /\ j <= cap - 1 /\ i = (h + j) % cap  BY <1>1, <1>2, <2>1
    <2>3. i = (IF h + j < cap THEN h + j ELSE h + j - cap) /\ i \in 0..(cap - 1)  BY <1>2, <1>8, <2>2, Wraps
    <2> QED BY <1>2, <1>8, <2>1, <2>2, <2>3 DEF Dist
  <1>10. PICK e : e = b[i]  OBVIOUS
  <1>11. CASE ~go \/ e.p = 0
    <2>1. d = [q EXCEPT !.go = FALSE]
      <3>1. ~q.go \/ q.c.blk[i].p = 0  BY <1>1, <1>10, <1>11
      <3> QED BY <3>1, Zenon DEF Reinserted
    <2>2. d = [c |-> [cap |-> cap, cnt |-> cnt - 1, blk |-> b], go |-> FALSE]  BY <2>1, <1>3
    <2>3. d.c.blk = b /\ d.go = FALSE  BY <2>2
    <2>4. Probed(b, cap)
      <3>1. CASE ~go  BY <3>1, <1>7
      <3>2. CASE go
        <4>1. b[i].p = 0 /\ Gap(b, cap, h, z, k)  BY <3>2, <1>6, <1>10, <1>11
        <4> QED BY <4>1, <1>2, <1>5, <1>8, <1>9, GapEnds
      <3> QED BY <3>1, <3>2
    <2>5. d = [c |-> [cap |-> c.cap, cnt |-> c.cnt - 1, blk |-> d.c.blk], go |-> d.go]  BY <1>1, <2>2, <2>3
    <2> QED BY <1>1, <1>4, <2>3, <2>4, <2>5 DEF Chained
  <1>12. CASE go /\ e.p # 0
    <2>1. PICK u, y : u = [b EXCEPT ![i] = Hole] /\ y = Cleared(q.c, i)  OBVIOUS
    <2>2. y = [cap |-> cap, cnt |-> cnt - 2, blk |-> u]
      <3>1. q.c = [cap |-> cap, cnt |-> cnt - 1, blk |-> b]  BY <1>3
      <3>2. y = [q.c EXCEPT !.blk[i] = Hole, !.cnt = @ - 1]  BY <2>1 DEF Cleared
      <3>3. PICK x : x = q.c  OBVIOUS
      <3>4. x = [cap |-> cap, cnt |-> cnt - 1, blk |-> b] /\ y = [x EXCEPT !.blk[i] = Hole, !.cnt = @ - 1]  BY <3>1, <3>2, <3>3
      <3>5. y = [cap |-> cap, cnt |-> (cnt - 1) - 1, blk |-> u]  BY <3>4, <2>1
      <3>6. (cnt - 1) - 1 = cnt - 2  BY <1>2
      <3> QED BY <3>5, <3>6
    <2>3. u \in Tab(cap) /\ u[i] = Hole /\ \A s \in 0..(cap - 1) : s # i => u[s] = b[s]  BY <2>1, <1>5, <1>9, HoleIs DEF Tab
    <2>4. PICK r : r = u32_com_slot(u, e.p, cap)  OBVIOUS
    <2>5. PICK m : m = [u EXCEPT ![r] = e]  OBVIOUS
    <2>6. e \in Ent  BY <1>5, <1>9, <1>10 DEF Tab
    <2>7. r \in 0..(cap - 1)
      <3>1. Room(u, cap)  BY <2>3, <1>9, HoleIs DEF Room
      <3>2. e.p \in Nat \ {0} /\ u \in Tab(cap)  BY <2>3, <2>6, <1>12 DEF Ent
      <3> QED BY <3>1, <3>2, <1>2, <2>4, SlotIs
    <2>8. m \in Tab(cap) /\ m[r] = e /\ \A s \in 0..(cap - 1) : s # r => m[s] = u[s]  BY <2>3, <2>5, <2>6, <2>7 DEF Tab
    <2>9. /\ r \in 0..(cap - 1) /\ u[r].p = 0 /\ Single(m, cap) /\ Gap(m, cap, h, z, k + 1)
          /\ Used(m, cap) = (Used(b, cap) \ {i}) \cup {r} /\ r \notin Used(b, cap) \ {i}
          /\ \A g \in Ent : g.p # 0 => (Has(m, cap, g) <=> Has(b, cap, g))
      <3>1. \A s \in 0..(cap - 1) : s # i => u[s] = b[s]  BY <2>3
      <3>2. \A s \in 0..(cap - 1) : s # r => m[s] = u[s]  BY <2>8
      <3>3. u \in Tab(cap) /\ u[i] = Hole  BY <2>3
      <3>4. m \in Tab(cap) /\ m[r] = e  BY <2>8
      <3>5. Gap(b, cap, h, z, k)  BY <1>6, <1>12
      <3>6. b[i].p # 0  BY <1>10, <1>12
      <3>7. cap \in Nat \ {0} /\ b \in Tab(cap) /\ Single(b, cap)  BY <1>2, <1>5
      <3>8. h \in 0..(cap - 1) /\ z \in 0..(cap - 1) /\ i \in 0..(cap - 1) /\ Dist(h, i, cap) = k + 1 /\ k \in Nat  BY <1>8, <1>9
      <3> QED BY <3>1, <3>2, <3>3, <3>4, <3>5, <3>6, <3>7, <3>8, <1>10, <2>4, MoveOne, SMTT(60)
    <2>10. u32_com_track(y, e.p, e.n) = [cap |-> cap, cnt |-> cnt - 1, blk |-> m]
      <3>1. PICK cy : cy = cnt - 2  OBVIOUS
      <3>2. cy \in Int /\ cy + 1 = cnt - 1 /\ ~((cy + 1) * 10 >= cap * 7)  BY <3>1, <1>2
      <3>3. y = [cap |-> cap, cnt |-> cy, blk |-> u]  BY <2>2, <3>1
      <3>4. u32_com_track(y, e.p, e.n) = [cap |-> cap, cnt |-> cy + 1, blk |-> [u EXCEPT ![r] = [p |-> e.p, n |-> e.n]]]
        BY <3>2, <3>3, <2>4, <2>9, TrackPlain
      <3>5. e = [p |-> e.p, n |-> e.n]  BY <2>6 DEF Ent
      <3> QED BY <3>2, <3>4, <3>5, <2>5
    <2>11. d = [c |-> [cap |-> cap, cnt |-> cnt - 1, blk |-> m], go |-> TRUE]
      <3>1. ~(~q.go \/ q.c.blk[i].p = 0) /\ q.c.blk[i] = e  BY <1>1, <1>10, <1>12
      <3>2. d = [q EXCEPT !.c = u32_com_track(Cleared(q.c, i), q.c.blk[i].p, q.c.blk[i].n)]  BY <3>1, Zenon DEF Reinserted
      <3>3. d = [q EXCEPT !.c = u32_com_track(y, e.p, e.n)]  BY <3>1, <3>2, <2>1
      <3> QED BY <3>3, <2>10, <1>3, <1>12
    <2>12. d.c.blk = m /\ d.go = TRUE  BY <2>11
    <2>13. Cardinality(Used(m, cap)) = cnt - 1
      <3>1. PICK A : A = Used(b, cap)  OBVIOUS
      <3>2. IsFiniteSet(A) /\ i \in A /\ Cardinality(A) = cnt - 1
        <4>1. IsFiniteSet(Used(b, cap))  BY <1>2, UsedFinite
        <4> QED BY <4>1, <3>1, <1>5, <1>9, <1>10, <1>12 DEF Used
      <3>3. IsFiniteSet(A \ {i}) /\ Cardinality(A \ {i}) = Cardinality(A) - 1  BY <3>2, FS_RemoveElement
      <3>4. r \notin A \ {i} /\ Used(m, cap) = (A \ {i}) \cup {r}  BY <3>1, <2>9
      <3>5. Cardinality((A \ {i}) \cup {r}) = Cardinality(A \ {i}) + 1  BY <3>3, <3>4, FS_AddElement
      <3> QED BY <3>2, <3>3, <3>4, <3>5, <1>2
    <2>14. ASSUME NEW g \in Ent, g.p # 0 PROVE Has(m, cap, g) <=> Has(b0, cap, g) /\ g.p # p
      <3>1. Has(m, cap, g) <=> Has(b, cap, g)  BY <2>9, <2>14
      <3>2. Has(b, cap, g) <=> Has(b0, cap, g) /\ g.p # p  BY <1>4, <2>14 DEF Lacks
      <3> QED BY <3>1, <3>2
    <2>15. Lacks(m, cap, b0, p, cnt - 1)  BY <2>8, <2>9, <2>13, <2>14 DEF Lacks
    <2>16. d = [c |-> [cap |-> c.cap, cnt |-> c.cnt - 1, blk |-> d.c.blk], go |-> d.go]  BY <1>1, <2>11, <2>12
    <2>17. Gap(m, cap, h, z, k + 1)  BY <2>9
    <2> QED BY <1>1, <2>12, <2>15, <2>16, <2>17 DEF Chained
  <1> QED BY <1>11, <1>12
\* After the chain the table is the one before without the block p.
LEMMA ChainKeeps ==
    ASSUME NEW c, Sound(c), c.cap # 0, NEW h \in 0..(c.cap - 1), c.blk[h].p # 0, NEW d, d = Chain(c, h)[c.cap - 1].c
    PROVE /\ d = [cap |-> c.cap, cnt |-> c.cnt - 1, blk |-> d.blk] /\ Probed(d.blk, c.cap)
          /\ Lacks(d.blk, c.cap, c.blk, c.blk[h].p, c.cnt - 1)
  <1>1. PICK cap, p, g, E : cap = c.cap /\ p = c.blk[h].p /\ g = Chain(c, h) /\ E = [c |-> Cleared(c, h), go |-> TRUE]  OBVIOUS
  <1>2. cap \in Nat \ {0} /\ c.cnt \in Nat /\ c.cnt * 10 < cap * 7 /\ h \in 0..(cap - 1) /\ c.blk[h].p # 0  BY <1>1 DEF Sound
  <1>3. PICK z \in 0..(cap - 1) : c.blk[z].p = 0
    <2>1. Cardinality(Used(c.blk, cap)) < cap  BY <1>1, <1>2 DEF Sound, Size
    <2> QED BY <2>1, <1>2, HasRoom DEF Room
  <1>4. ChainIs(c, h, cap - 1, g)  BY <1>1, <1>2, ChainHolds
  <1>5. g = [k \in 0..(cap - 1) |-> IF k = 0 THEN E ELSE Reinserted(g[k - 1], (h + k) % cap)]  BY <1>1, <1>4 DEF ChainIs
  <1> DEFINE Bad == {k \in 0..(cap - 1) : ~Chained(g[k], c, p, h, z, k)}
  <1>6. ASSUME Bad # {} PROVE FALSE
    <2>1. PICK k \in Bad : \A j \in Bad : k <= j
      <3>1. Bad \subseteq Nat  OBVIOUS
      <3> QED BY <3>1, <1>6, LeastNat, Zenon
    <2>2. k \in 0..(cap - 1) /\ ~Chained(g[k], c, p, h, z, k)  OBVIOUS
    <2>3. CASE k = 0
      <3>1. g[0] = E
        <4>1. 0 \in 0..(cap - 1)  BY <1>2
        <4> QED BY <4>1, <1>5
      <3>2. z \in 0..(c.cap - 1) /\ c.blk[z].p = 0 /\ E = [c |-> Cleared(c, h), go |-> TRUE]  BY <1>1, <1>3
      <3>3. Chained(E, c, p, h, z, 0)  BY <3>2, <1>1, ChainStarts
      <3> QED BY <3>1, <3>3, <2>2, <2>3
    <2>4. CASE k # 0
      <3>1. PICK j : j = k - 1  OBVIOUS
      <3>2. j \in Nat /\ j \in 0..(cap - 1) /\ k = j + 1 /\ j + 1 <= cap - 1 /\ ~(k <= j)  BY <3>1, <2>2, <2>4, <1>2
      <3>3. j \notin Bad  BY <3>2, <2>1
      <3>4. Chained(g[j], c, p, h, z, j)  BY <3>2, <3>3
      <3>5. PICK q, i, x : q = g[j] /\ i = (h + (j + 1)) % c.cap /\ x = Reinserted(q, i)  OBVIOUS
      <3>6. g[k] = x
        <4>1. g[k] = Reinserted(g[k - 1], (h + k) % cap)  BY <1>5, <2>2, <2>4
        <4> QED BY <4>1, <3>1, <3>2, <3>5, <1>1
      <3>7. z \in 0..(c.cap - 1) /\ j + 1 <= c.cap - 1 /\ Chained(q, c, p, h, z, j)  BY <1>1, <1>3, <3>2, <3>4, <3>5
      <3>8. Chained(x, c, p, h, z, j + 1)  BY <3>2, <3>5, <3>7, ChainStep
      <3> QED BY <3>2, <3>6, <3>8, <2>2
    <2> QED BY <2>3, <2>4
  <1>7. PICK k, q : k = cap - 1 /\ q = g[k]  OBVIOUS
  <1>8. k \in 0..(cap - 1)  BY <1>2, <1>7
  <1>9. Chained(q, c, p, h, z, k)  BY <1>6, <1>7, <1>8
  <1>10. d = q.c  BY <1>1, <1>7
  <1>11. ~q.go
    <2>1. ASSUME q.go PROVE FALSE
      <3>1. Gap(q.c.blk, cap, h, z, k)  BY <2>1, <1>1, <1>9 DEF Chained
      <3>2. k < Dist(h, z, cap)  BY <3>1 DEF Gap
      <3>3. Dist(h, z, cap) \in 0..(cap - 1)  BY <1>2, <1>3, DistIs
      <3> QED BY <3>2, <3>3, <1>2, <1>7
    <2> QED BY <2>1
  <1>12. Probed(q.c.blk, c.cap) /\ Lacks(q.c.blk, c.cap, c.blk, p, c.cnt - 1)  BY <1>9, <1>11 DEF Chained
  <1>13. q = [c |-> [cap |-> c.cap, cnt |-> c.cnt - 1, blk |-> q.c.blk], go |-> q.go]  BY <1>9 DEF Chained
  <1>14. d = [cap |-> c.cap, cnt |-> c.cnt - 1, blk |-> d.blk] /\ d.blk = q.c.blk  BY <1>10, <1>13
  <1> QED BY <1>1, <1>12, <1>14
LEMMA SlotTells == ASSUME NEW c, Sound(c), NEW f, Lists(c, f), NEW p \in Nat \ {0}, NEW h, h = u32_com_slot(c.blk, p, c.cap)
    PROVE IF p \in DOMAIN f THEN c.cap # 0 /\ h \in 0..(c.cap - 1) /\ c.blk[h] = [p |-> p, n |-> f[p]] /\ f[p] \in Nat
          ELSE c.cap # 0 => c.blk[h].p = 0
  <1>1. PICK cap, b : cap = c.cap /\ b = c.blk  OBVIOUS
  <1>2. CASE cap = 0  BY <1>1, <1>2 DEF Lists
  <1>3. CASE cap # 0
    <2>1. cap \in Nat \ {0} /\ Table(b, cap) /\ Room(b, cap)
      <3>1. cap \in Nat /\ c.cnt \in Nat /\ Table(b, cap) /\ Cardinality(Used(b, cap)) = c.cnt /\ c.cnt * 10 < cap * 7
        BY <1>1, <1>3 DEF Sound, Size
      <3>2. cap \in Nat \ {0} /\ Cardinality(Used(b, cap)) < cap  BY <1>3, <3>1
      <3> QED BY <3>1, <3>2, HasRoom
    <2>2. h = u32_com_slot(b, p, cap)  BY <1>1
    <2>3. h \in 0..(cap - 1) /\ (b[h].p = p \/ (b[h].p = 0 /\ \A s \in 0..(cap - 1) : b[s].p # p))
      <3>1. cap \in Nat \ {0}  BY <2>1
      <3>2. Table(b, cap)  BY <2>1
      <3>3. Room(b, cap)  BY <2>1
      <3>4. h \in 0..(cap - 1)  BY <2>2, <3>1, <3>2, <3>3, SlotFinds
      <3>5. b[h].p = p \/ (b[h].p = 0 /\ \A s \in 0..(cap - 1) : b[s].p # p)  BY <2>2, <3>1, <3>2, <3>3, SlotFinds
      <3> QED BY <3>4, <3>5
    <2>4. CASE p \in DOMAIN f
      <3>1. Has(b, cap, [p |-> p, n |-> f[p]])  BY <1>1, <2>4 DEF Lists
      <3>2. PICK s \in 0..(cap - 1) : b[s] = [p |-> p, n |-> f[p]]  BY <3>1 DEF Has
      <3>3. b[s].p = p /\ p # 0  BY <3>2
      <3>4. b[h].p = p  BY <2>3, <3>3
      <3>5. s \in Used(b, cap) /\ h \in Used(b, cap)  BY <2>3, <3>3, <3>4 DEF Used
      <3>6. s = h  BY <3>3, <3>4, <3>5, <2>1 DEF Table, Single
      <3>7. b[h] \in Ent  BY <2>1, <2>3 DEF Table, Tab
      <3>8. f[p] \in Nat  BY <3>2, <3>6, <3>7 DEF Ent
      <3> QED BY <1>1, <1>3, <2>3, <2>4, <3>2, <3>6, <3>8
    <2>5. CASE p \notin DOMAIN f
      <3>1. ASSUME b[h].p = p PROVE FALSE
        <4>1. h \in Used(b, cap)  BY <2>3, <3>1 DEF Used
        <4>2. b[h].p \in DOMAIN f  BY <4>1, <1>1, <1>3 DEF Lists
        <4> QED BY <4>2, <3>1, <2>5
      <3> QED BY <3>1, <2>3, <2>5, <1>1
    <2> QED BY <2>4, <2>5
  <1> QED BY <1>2, <1>3
LEMMA UntrackKeeps == ASSUME NEW c, Sound(c), NEW f, Lists(c, f), NEW p \in DOMAIN f, NEW g, g = Without(f, p), NEW d, d = u32_com_untrack(c, p)
    PROVE Sound(d) /\ d.cnt = c.cnt - 1 /\ Lists(d, g)
  <1>1. PICK cap, b, h, x : cap = c.cap /\ b = c.blk /\ h = u32_com_slot(c.blk, p, c.cap) /\ x = d.blk  OBVIOUS
  <1>2. p \in Nat \ {0}
    <2>1. p # 0 /\ cap # 0 /\ Has(b, cap, [p |-> p, n |-> f[p]])  BY <1>1 DEF Lists
    <2>2. PICK s \in 0..(cap - 1) : b[s] = [p |-> p, n |-> f[p]]  BY <2>1 DEF Has
    <2>3. b \in Tab(cap)  BY <1>1, <2>1 DEF Sound, Table
    <2>4. b[s] \in Ent  BY <2>2, <2>3 DEF Tab
    <2> QED BY <2>1, <2>2, <2>4 DEF Ent
  <1>3. cap # 0 /\ h \in 0..(cap - 1) /\ b[h] = [p |-> p, n |-> f[p]]  BY <1>1, <1>2, SlotTells
  <1>4. b[h].p = p /\ p # 0  BY <1>2, <1>3
  <1>5. d = Chain(c, h)[c.cap - 1].c
    <2>1. ~(c.cap = 0 \/ c.blk[u32_com_slot(c.blk, p, c.cap)].p = 0)  BY <1>1, <1>3, <1>4
    <2> QED BY <2>1, <1>1, Zenon DEF u32_com_untrack
  <1>6. /\ d = [cap |-> c.cap, cnt |-> c.cnt - 1, blk |-> d.blk] /\ Probed(d.blk, c.cap)
        /\ Lacks(d.blk, c.cap, c.blk, c.blk[h].p, c.cnt - 1)
    <2>1. c.cap # 0 /\ h \in 0..(c.cap - 1) /\ c.blk[h].p # 0  BY <1>1, <1>3, <1>4
    <2> QED BY <2>1, <1>5, ChainKeeps
  <1>7. d = [cap |-> cap, cnt |-> c.cnt - 1, blk |-> x] /\ Probed(x, cap) /\ Lacks(x, cap, b, p, c.cnt - 1)  BY <1>1, <1>4, <1>6
  <1>8. d.cap = cap /\ d.cnt = c.cnt - 1 /\ d.blk = x  BY <1>7
  <1>9. x \in Tab(cap) /\ Single(x, cap) /\ Cardinality(Used(x, cap)) = c.cnt - 1  BY <1>7 DEF Lacks
  <1>10. \A e \in Ent : e.p # 0 => (Has(x, cap, e) <=> Has(b, cap, e) /\ e.p # p)  BY <1>7 DEF Lacks
  <1>11. cap \in Nat /\ cap >= 2 /\ c.cnt \in Nat /\ c.cnt * 10 < cap * 7 /\ b \in Tab(cap)  BY <1>1, <1>3 DEF Sound, Table
  <1>12. Sound(d)
    <2>1. Cardinality(Used(x, cap)) \in Nat  BY <1>11, UsedFinite
    <2>2. PICK n : n = c.cnt - 1  OBVIOUS
    <2>3. n \in Nat /\ n * 10 < cap * 7 /\ Cardinality(Used(x, cap)) = n  BY <2>1, <2>2, <1>9, <1>11
    <2>4. d = [cap |-> d.cap, cnt |-> d.cnt, blk |-> d.blk] /\ d.cap \in Nat /\ d.cnt \in Nat  BY <2>2, <2>3, <1>7, <1>8, <1>11
    <2>5. d.cap # 0 /\ d.cap >= 2 /\ d.cnt * 10 < d.cap * 7  BY <2>2, <2>3, <1>8, <1>11
    <2>6. Table(d.blk, d.cap)  BY <1>7, <1>8, <1>9 DEF Table
    <2>7. Size(d) = d.cnt  BY <1>8, <1>9 DEF Size
    <2> QED BY <2>4, <2>5, <2>6, <2>7 DEF Sound
  <1>13. DOMAIN g = DOMAIN f \ {p} /\ \A q \in DOMAIN f \ {p} : g[q] = f[q]  BY DEF Without
  <1>14. ASSUME NEW q \in DOMAIN g PROVE Has(x, cap, [p |-> q, n |-> g[q]])
    <2>1. PICK e : e = [p |-> q, n |-> g[q]]  OBVIOUS
    <2>2. q \in DOMAIN f /\ q # p /\ e = [p |-> q, n |-> f[q]] /\ e.p = q  BY <2>1, <1>13, <1>14
    <2>3. Has(b, cap, e) /\ q # 0  BY <2>2, <1>1 DEF Lists
    <2>4. e \in Ent  BY <2>3, <1>11 DEF Has, Tab
    <2> QED BY <2>1, <2>2, <2>3, <2>4, <1>10
  <1>15. ASSUME NEW s \in Used(x, cap) PROVE x[s].p \in DOMAIN g /\ x[s].n = g[x[s].p]
    <2>1. PICK e : e = x[s]  OBVIOUS
    <2>2. s \in 0..(cap - 1) /\ e.p # 0 /\ e \in Ent  BY <2>1, <1>9, <1>15 DEF Used, Tab
    <2>3. Has(x, cap, e)  BY <2>1, <2>2 DEF Has
    <2>4. Has(b, cap, e) /\ e.p # p  BY <2>2, <2>3, <1>10
    <2>5. PICK t \in 0..(cap - 1) : b[t] = e  BY <2>4 DEF Has
    <2>6. t \in Used(b, cap)  BY <2>2, <2>5 DEF Used
    <2>7. b[t].p \in DOMAIN f /\ b[t].n = f[b[t].p]  BY <2>6, <1>1, <1>3 DEF Lists
    <2> QED BY <2>1, <2>4, <2>5, <2>7, <1>13
  <1>16. 0 \notin DOMAIN g
    <2>1. 0 \notin DOMAIN f  BY DEF Lists
    <2> QED BY <2>1, <1>13
  <1>17. Lists(d, g)  BY <1>3, <1>8, <1>14, <1>15, <1>16 DEF Lists
  <1> QED BY <1>8, <1>12, <1>17
\* The table c lists the blocks of f.
Tracks(c, f) ==
    /\ Sound(c) /\ Lists(c, f)
    /\ DOMAIN f \subseteq ComAddrs /\ IsFiniteSet(DOMAIN f) /\ Cardinality(DOMAIN f) = c.cnt
LEMMA TrackTracks == ASSUME NEW c, NEW f, Tracks(c, f), NEW p \in ComAddrs, NEW n \in Nat,
                            NEW g, g = [q \in DOMAIN f \cup {p} |-> IF q = p THEN n ELSE f[q]], NEW d, d = u32_com_track(c, p, n)
    PROVE Tracks(d, g)
  <1>1. p \in Nat \ {0}  BY ComAssumption
  <1>2. Sound(c) /\ Lists(c, f) /\ DOMAIN f \subseteq ComAddrs /\ IsFiniteSet(DOMAIN f) /\ Cardinality(DOMAIN f) = c.cnt  BY DEF Tracks
  <1>3. DOMAIN g = DOMAIN f \cup {p}  OBVIOUS
  <1>4. CASE p \notin DOMAIN f
    <2>1. Sound(d) /\ d.cnt = c.cnt + 1 /\ Lists(d, g)  BY <1>1, <1>2, <1>4, TrackKeeps
    <2>2. IsFiniteSet(DOMAIN f \cup {p}) /\ Cardinality(DOMAIN f \cup {p}) = Cardinality(DOMAIN f) + 1  BY <1>2, <1>4, FS_AddElement
    <2> QED BY <1>2, <1>3, <2>1, <2>2 DEF Tracks
  <1>5. CASE p \in DOMAIN f
    <2>1. DOMAIN f \cup {p} = DOMAIN f  BY <1>5
    <2>2. g = [q \in DOMAIN f |-> IF q = p THEN n ELSE f[q]]  BY <2>1
    <2>3. Sound(d) /\ d.cnt = c.cnt /\ Lists(d, g)  BY <1>1, <1>2, <1>5, <2>2, TrackAgain
    <2> QED BY <1>2, <1>3, <2>1, <2>3 DEF Tracks
  <1> QED BY <1>4, <1>5
LEMMA UntrackTracks == ASSUME NEW c, NEW f, Tracks(c, f), NEW p \in DOMAIN f, NEW g, g = Without(f, p), NEW d, d = u32_com_untrack(c, p)
    PROVE Tracks(d, g)
  <1>1. Sound(c) /\ Lists(c, f) /\ DOMAIN f \subseteq ComAddrs /\ IsFiniteSet(DOMAIN f) /\ Cardinality(DOMAIN f) = c.cnt  BY DEF Tracks
  <1>2. Sound(d) /\ d.cnt = c.cnt - 1 /\ Lists(d, g)  BY <1>1, UntrackKeeps
  <1>3. DOMAIN g = DOMAIN f \ {p}  BY DEF Without
  <1>4. IsFiniteSet(DOMAIN f \ {p}) /\ Cardinality(DOMAIN f \ {p}) = Cardinality(DOMAIN f) - 1  BY <1>1, FS_RemoveElement
  <1> QED BY <1>1, <1>2, <1>3, <1>4 DEF Tracks
\* Between two calls the allocator's table lists the live blocks with their sizes and the lost ones.
Holds(f) == Tracks(com, f) /\ DOMAIN f = DOMAIN heap \cup lost /\ \A p \in DOMAIN heap : f[p] = heap[p]
ComInv == DOMAIN heap \cap lost = {} /\ \E f : Holds(f)
LEMMA ComInitInv == ComInit => ComInv
  <1> SUFFICES ASSUME ComInit PROVE ComInv  OBVIOUS
  <1>1. com = [cap |-> 0, cnt |-> 0, blk |-> <<>>] /\ heap = <<>> /\ lost = {}  BY DEF ComInit
  <1>2. com.cap = 0 /\ com.cnt = 0 /\ com.blk = <<>> /\ DOMAIN heap = {}  BY <1>1
  <1>3. Sound(com)  BY <1>1, <1>2 DEF Sound
  <1>4. Lists(com, heap)  BY <1>2 DEF Lists
  <1>5. IsFiniteSet({}) /\ Cardinality({}) = 0  BY FS_EmptySet
  <1>6. Holds(heap)  BY <1>1, <1>2, <1>3, <1>4, <1>5 DEF Holds, Tracks
  <1> QED BY <1>1, <1>6 DEF ComInv
LEMMA AllocInv == ASSUME ComInv, NEW n \in ComSizes, NEW p \in ComAddrs \ DOMAIN heap,
                         com' = u32_com_track(com, p, n), heap' = Sized(p, n), lost' = lost \ {p}
    PROVE ComInv'
  <1>1. PICK f : Holds(f)  BY DEF ComInv
  <1>2. Tracks(com, f) /\ DOMAIN f = DOMAIN heap \cup lost /\ \A q \in DOMAIN heap : f[q] = heap[q]  BY <1>1 DEF Holds
  <1>3. PICK g : g = [q \in DOMAIN f \cup {p} |-> IF q = p THEN n ELSE f[q]]  OBVIOUS
  <1>4. n \in Nat /\ p \in ComAddrs  BY ComAssumption
  <1>5. PICK d : d = com'  OBVIOUS
  <1>6. Tracks(d, g)  BY <1>2, <1>3, <1>4, <1>5, TrackTracks
  <1>7. DOMAIN heap' = DOMAIN heap \cup {p} /\ \A q \in DOMAIN heap' : heap'[q] = IF q = p THEN n ELSE heap[q]  BY DEF Sized
  <1>8. DOMAIN g = DOMAIN heap' \cup lost' /\ \A q \in DOMAIN heap' : g[q] = heap'[q]  BY <1>2, <1>3, <1>7
  <1>9. Holds(g)'  BY <1>5, <1>6, <1>8 DEF Holds
  <1>10. DOMAIN heap' \cap lost' = {}  BY <1>7 DEF ComInv
  <1> QED BY <1>9, <1>10 DEF ComInv
LEMMA FreeInv == ASSUME ComInv, NEW p \in DOMAIN heap, com' = u32_com_untrack(com, p), heap' = Without(heap, p), lost' = lost PROVE ComInv'
  <1>1. PICK f : Holds(f)  BY DEF ComInv
  <1>2. Tracks(com, f) /\ DOMAIN f = DOMAIN heap \cup lost /\ \A q \in DOMAIN heap : f[q] = heap[q]  BY <1>1 DEF Holds
  <1>3. PICK g, d : g = Without(f, p) /\ d = com'  OBVIOUS
  <1>4. Tracks(d, g)  BY <1>2, <1>3, UntrackTracks
  <1>5. DOMAIN g = DOMAIN f \ {p} /\ \A q \in DOMAIN g : g[q] = f[q]  BY <1>3 DEF Without
  <1>6. DOMAIN heap' = DOMAIN heap \ {p} /\ \A q \in DOMAIN heap' : heap'[q] = heap[q]  BY DEF Without
  <1>7. DOMAIN heap \cap lost = {}  BY DEF ComInv
  <1>8. DOMAIN g = DOMAIN heap' \cup lost' /\ \A q \in DOMAIN heap' : g[q] = heap'[q]  BY <1>2, <1>5, <1>6, <1>7
  <1>9. Holds(g)'  BY <1>3, <1>4, <1>8 DEF Holds
  <1> QED BY <1>6, <1>7, <1>9 DEF ComInv
LEMMA MoveInv == ASSUME ComInv, NEW n \in ComSizes, NEW old \in DOMAIN heap, NEW p \in (ComAddrs \ DOMAIN heap) \cup {old},
                        com' = u32_com_track(u32_com_untrack(com, old), p, n),
                        heap' = [q \in (DOMAIN heap \ {old}) \cup {p} |-> IF q = p THEN n ELSE heap[q]],
                        lost' = lost \ {p}
    PROVE ComInv'
  <1>1. PICK f : Holds(f)  BY DEF ComInv
  <1>2. Tracks(com, f) /\ DOMAIN f = DOMAIN heap \cup lost /\ \A q \in DOMAIN heap : f[q] = heap[q]  BY <1>1 DEF Holds
  <1>3. PICK x, y : x = u32_com_untrack(com, old) /\ y = Without(f, old)  OBVIOUS
  <1>4. Tracks(x, y)  BY <1>2, <1>3, UntrackTracks
  <1>5. DOMAIN y = DOMAIN f \ {old} /\ \A q \in DOMAIN y : y[q] = f[q]  BY <1>3 DEF Without
  <1>6. n \in Nat /\ p \in ComAddrs
    <2>1. DOMAIN f \subseteq ComAddrs  BY <1>2 DEF Tracks
    <2> QED BY <2>1, <1>2, ComAssumption
  <1>7. PICK g, d : g = [q \in DOMAIN y \cup {p} |-> IF q = p THEN n ELSE y[q]] /\ d = com'  OBVIOUS
  <1>8. d = u32_com_track(x, p, n)  BY <1>3, <1>7
  <1>9. Tracks(d, g)  BY <1>4, <1>6, <1>7, <1>8, TrackTracks
  <1>10. DOMAIN heap' = (DOMAIN heap \ {old}) \cup {p} /\ \A q \in DOMAIN heap' : heap'[q] = IF q = p THEN n ELSE heap[q]  OBVIOUS
  <1>11. DOMAIN heap \cap lost = {}  BY DEF ComInv
  <1>12. DOMAIN g = DOMAIN y \cup {p} /\ \A q \in DOMAIN g : g[q] = IF q = p THEN n ELSE y[q]  BY <1>7
  <1>13. DOMAIN g = DOMAIN heap' \cup lost'  BY <1>2, <1>5, <1>10, <1>11, <1>12
  <1>14. ASSUME NEW q \in DOMAIN heap' PROVE g[q] = heap'[q]
    <2>1. CASE q = p  BY <2>1, <1>10, <1>12
    <2>2. CASE q # p
      <3>1. q \in DOMAIN heap \ {old} /\ heap'[q] = heap[q]  BY <2>2, <1>10, <1>14
      <3>2. q \in DOMAIN y /\ f[q] = heap[q]  BY <3>1, <1>2, <1>5
      <3> QED BY <2>2, <3>1, <3>2, <1>5, <1>12
    <2> QED BY <2>1, <2>2
  <1>15. Holds(g)'  BY <1>7, <1>9, <1>13, <1>14 DEF Holds
  <1>16. DOMAIN heap' \cap lost' = {}  BY <1>10, <1>11
  <1> QED BY <1>15, <1>16 DEF ComInv
\* A block reallocated to no bytes stays in the table and is lost.
LEMMA ShrinkInv == ASSUME ComInv, NEW old \in DOMAIN heap, com' = com, heap' = Without(heap, old), lost' = lost \cup {old} PROVE ComInv'
  <1>1. PICK f : Holds(f)  BY DEF ComInv
  <1>2. Tracks(com, f) /\ DOMAIN f = DOMAIN heap \cup lost /\ \A q \in DOMAIN heap : f[q] = heap[q]  BY <1>1 DEF Holds
  <1>3. DOMAIN heap' = DOMAIN heap \ {old} /\ \A q \in DOMAIN heap' : heap'[q] = heap[q]  BY DEF Without
  <1>4. DOMAIN f = DOMAIN heap' \cup lost' /\ \A q \in DOMAIN heap' : f[q] = heap'[q]  BY <1>2, <1>3
  <1>5. Holds(f)'  BY <1>2, <1>4 DEF Holds
  <1>6. DOMAIN heap' \cap lost' = {}  BY <1>3 DEF ComInv
  <1> QED BY <1>5, <1>6 DEF ComInv
LEMMA ComNextInv == ComInv /\ [ComOps]_comVars => ComInv'
  <1> SUFFICES ASSUME ComInv, [ComOps]_comVars PROVE ComInv'  OBVIOUS
  <1>1. CASE UNCHANGED comVars
    <2>1. com' = com /\ heap' = heap /\ lost' = lost  BY <1>1 DEF comVars
    <2> QED BY <2>1 DEF ComInv, Holds
  <1>2. ASSUME NEW n \in ComSizes, CoTaskMemAlloc(n) PROVE ComInv'  BY <1>2, AllocInv DEF CoTaskMemAlloc
  <1>3. ASSUME NEW n \in ComSizes, NEW p \in DOMAIN heap, CoTaskMemRealloc(p, n) PROVE ComInv'
    BY <1>1, <1>3, MoveInv, ShrinkInv DEF CoTaskMemRealloc
  <1>4. ASSUME NEW p \in DOMAIN heap, CoTaskMemFree(p) PROVE ComInv'  BY <1>4, FreeInv DEF CoTaskMemFree
  <1> QED BY <1>1, <1>2, <1>3, <1>4 DEF ComOps
LEMMA ComInvTracked == ComInv => ComTracked
  <1> SUFFICES ASSUME ComInv PROVE ComTracked  OBVIOUS
  <1>1. PICK f : Holds(f)  BY DEF ComInv
  <1>2. Sound(com) /\ Lists(com, f) /\ Cardinality(DOMAIN f) = com.cnt  BY <1>1 DEF Holds, Tracks
  <1>3. DOMAIN f = DOMAIN heap \cup lost /\ \A q \in DOMAIN heap : f[q] = heap[q]  BY <1>1 DEF Holds
  <1>4. ASSUME NEW p \in ComAddrs
        PROVE u32_com_size(p) = (IF p \in DOMAIN f THEN f[p] ELSE -1) /\ (p \in DOMAIN f => f[p] \in Nat)
    <2>1. p \in Nat \ {0}  BY ComAssumption
    <2>2. PICK h : h = u32_com_slot(com.blk, p, com.cap)  OBVIOUS
    <2>3. IF p \in DOMAIN f THEN com.cap # 0 /\ h \in 0..(com.cap - 1) /\ com.blk[h] = [p |-> p, n |-> f[p]] /\ f[p] \in Nat
          ELSE com.cap # 0 => com.blk[h].p = 0
      BY <1>2, <2>1, <2>2, SlotTells
    <2>4. u32_com_size(p) = IF com.cap = 0 THEN -1 ELSE IF com.blk[h].p = 0 THEN -1 ELSE com.blk[h].n  BY <2>2 DEF u32_com_size
    <2> QED BY <2>1, <2>3, <2>4
  <1>5. ASSUME NEW p \in ComAddrs \ lost
        PROVE u32_com_size(p) = (IF p \in DOMAIN heap THEN heap[p] ELSE -1) /\ (p \in DOMAIN heap => heap[p] \in Nat)
    <2>1. p \in DOMAIN f <=> p \in DOMAIN heap  BY <1>3
    <2> QED BY <2>1, <1>3, <1>4
  <1>6. ASSUME NEW p \in ComAddrs \ lost
        PROVE u32_im_didalloc(p) = IF p \in DOMAIN heap THEN 1 ELSE 0
    <2>1. u32_com_size(p) = -1 <=> p \notin DOMAIN heap  BY <1>5
    <2> QED BY <2>1 DEF u32_im_didalloc
  <1>7. DOMAIN heap \cap lost = {} /\ com.cnt = Cardinality(DOMAIN heap \cup lost)  BY <1>2, <1>3 DEF ComInv
  <1> QED BY <1>5, <1>6, <1>7 DEF ComTracked, u32_im_getsize
\* Whatever was allocated, moved and freed, in whatever order the table grew and its probe chains were
\* cut, GetSize and DidAlloc know every live block and no other but those freed by a Realloc to no
\* bytes, for any addresses, sizes (0 among them) and first capacity.
THEOREM BlocksTracked == ComSpec => []ComTracked
  <1>1. ComSpec => []ComInv  BY ComInitInv, ComNextInv, PTL DEF ComSpec
  <1> QED BY <1>1, ComInvTracked, PTL
=============================================================================
