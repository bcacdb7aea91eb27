------------------------------ MODULE GdiObjects ----------------------------
(***************************************************************************)
(* The GDI object table: device contexts, bitmaps, brushes, pens, fonts and   *)
(* palettes share its slots, a handle is a slot, and what a device context has *)
(* selected is a handle.  Freeing only clears used: the next allocation of the *)
(* slot clears the rest.  One window has a framebuffer, a bitmap of the table. *)
(* The text colour stands for the colours and modes saved with it.             *)
(***************************************************************************)
EXTENDS Integers, Sequences, FiniteSets, SequencesExt

CONSTANTS GdiMax,       \* GDI_MAX: slots 1..GdiMax - 1
          SaveMax,      \* the depth of SaveDC's stack
          StockIds,     \* the stock objects a program asks for
          Display       \* SDL opened a display
ASSUME GdiAssumption == {GdiMax, SaveMax} \subseteq Nat \ {0} /\ Display \in BOOLEAN /\ {0, 7, 13, 15} \subseteq StockIds /\ StockIds \subseteq Nat

VARIABLES gdi,          \* g_gdi
          stock,        \* g_gdi_stock, and the default palette
          win,          \* the window's client_bmp, and whether it has an SDL window
          owned,        \* ghost: the slots the program created and has not given back
          bound,        \* ghost: the bitmap each device context was given
          saves         \* ghost: what a device context looked like at each open SaveDC
gdiVars == <<gdi, stock, win, owned, bound, saves>>

Slots == 1..(GdiMax - 1)
NULLH == 0
Kinds == {"bitmap", "brush", "pen", "font"}
Types == Kinds \cup {"dc", "palette"}
MM_TEXT == 1
MM_ANISOTROPIC == 8
Fresh(type) == [used |-> TRUE, type |-> type, stock |-> FALSE, sel |-> [k \in Kinds |-> NULLH], palette |-> NULLH,
                text |-> 0, mapmode |-> 0, ext |-> 0, sstk |-> <<>>]
GdiInit == /\ gdi = [i \in Slots |-> [Fresh("dc") EXCEPT !.used = FALSE]]
           /\ stock = [id \in StockIds |-> NULLH]
           /\ win = [bmp |-> NULLH, sdl |-> FALSE]
           /\ owned = {}
           /\ bound = [i \in Slots |-> NULLH]
           /\ saves = [i \in Slots |-> <<>>]

-----------------------------------------------------------------------------
(* Slots.  st is the pair of the table and the stock cache.                    *)
gdi_idx(g, h) == h \in Slots /\ g[h].used
IsDC(h) == gdi_idx(gdi, h) /\ gdi[h].type = "dc"
FreeSlot(g) == IF \A i \in Slots : g[i].used THEN NULLH ELSE CHOOSE i \in Slots : ~g[i].used /\ \A j \in Slots : ~g[j].used => i <= j
AllocKeepsBitmap(g, i, type) == IF i = NULLH THEN g ELSE [g EXCEPT ![i] = [Fresh(type) EXCEPT !.sel.bitmap = g[i].sel.bitmap]]
gdi_alloc(g, i, type) == IF i = NULLH THEN g ELSE [g EXCEPT ![i] = Fresh(type)]
St == [g |-> gdi, s |-> stock]
StockType(id) == IF id <= 5 THEN "brush" ELSE IF id <= 8 THEN "pen" ELSE IF id = 15 THEN "palette" ELSE "font"
u32_stock(st, id) ==
    LET i == FreeSlot(st.g)
    IN  IF st.s[id] # NULLH \/ i = NULLH THEN st
        ELSE [g |-> [gdi_alloc(st.g, i, StockType(id)) EXCEPT ![i].stock = TRUE], s |-> [st.s EXCEPT ![id] = i]]
u32_dc_defaults(st0, d) ==
    LET st == u32_stock(u32_stock(u32_stock(st0, 13), 0), 7)
        sel == [st.g[d].sel EXCEPT !.font = st.s[13], !.brush = st.s[0], !.pen = st.s[7]]
    IN  [g |-> [st.g EXCEPT ![d] = [@ EXCEPT !.sel = sel, !.mapmode = MM_TEXT, !.ext = 1]], s |-> st.s]
\* A new device context in slot d, and what it has bound.
NewDC(d, bmp) ==
    LET st == u32_dc_defaults([g |-> gdi_alloc(gdi, d, "dc"), s |-> stock], d)
    IN  /\ gdi' = IF bmp = NULLH THEN st.g ELSE [st.g EXCEPT ![d].sel.bitmap = bmp]
        /\ stock' = st.s
        /\ owned' = owned \cup {d}
        /\ bound' = [bound EXCEPT ![d] = bmp]
        /\ saves' = [saves EXCEPT ![d] = <<>>]
        /\ UNCHANGED win
Freed(g, S) == [i \in Slots |-> IF i \in S THEN [g[i] EXCEPT !.used = FALSE] ELSE g[i]]
Free(S) == /\ gdi' = Freed(gdi, S)
           /\ owned' = owned \ S
           /\ bound' = [d \in Slots |-> IF bound[d] \in S \/ d \in S THEN NULLH ELSE bound[d]]
           /\ saves' = [d \in Slots |-> IF d \in S THEN <<>> ELSE saves[d]]

-----------------------------------------------------------------------------
(* Device contexts.                                                            *)
\* window is TRUE for the window's own context, FALSE for the screen's.
GetDC(window) == IF FreeSlot(gdi) = NULLH THEN UNCHANGED gdiVars ELSE NewDC(FreeSlot(gdi), IF window THEN win.bmp ELSE NULLH)
ReleaseDC(h, window) ==
    /\ IF gdi_idx(gdi, h) /\ ((window /\ gdi[h].sel.bitmap = win.bmp) \/ gdi[h].sel.bitmap = NULLH) THEN Free({h})
       ELSE UNCHANGED <<gdi, owned, bound, saves>>
    /\ UNCHANGED <<stock, win>>
CreateCompatibleDC == GetDC(FALSE)
DeleteDC(h) == gdi_idx(gdi, h) /\ Free({h}) /\ UNCHANGED <<stock, win>>
BeginPaint == GetDC(TRUE)
EndPaint(h) == DeleteDC(h)
\* What SaveDC keeps, and RestoreDC brings back.
AttributesSwapped(o) == [font |-> o.sel.font, brush |-> o.sel.pen, pen |-> o.sel.brush, text |-> o.text, mapmode |-> o.mapmode]
Attributes(o) == [font |-> o.sel.font, brush |-> o.sel.brush, pen |-> o.sel.pen, text |-> o.text, mapmode |-> o.mapmode]
SaveUnbounded(d) ==
    /\ IsDC(d) /\ Len(gdi[d].sstk) <= SaveMax
    /\ gdi' = [gdi EXCEPT ![d].sstk = Append(@, Attributes(gdi[d]))]
    /\ saves' = [saves EXCEPT ![d] = Append(@, Attributes(gdi[d]))]
    /\ UNCHANGED <<stock, win, owned, bound>>
SaveDC(d) ==
    /\ IsDC(d) /\ Len(gdi[d].sstk) < SaveMax
    /\ gdi' = [gdi EXCEPT ![d].sstk = Append(@, Attributes(gdi[d]))]
    /\ saves' = [saves EXCEPT ![d] = Append(@, Attributes(gdi[d]))]
    /\ UNCHANGED <<stock, win, owned, bound>>
\* The entry a level names: an absolute one, or one counted from the top.
FromZero(level, top) == IF level < 0 THEN top + level ELSE level
RestoreIndex(level, top) == IF level < 0 THEN top + level ELSE level - 1
RestoreDC(d, level) ==
    /\ IsDC(d)
    /\ LET i == RestoreIndex(level, Len(gdi[d].sstk))
           s == gdi[d].sstk[i + 1]
       IN  /\ i >= 0 /\ i < Len(gdi[d].sstk)
           /\ gdi' = [gdi EXCEPT ![d].sel = [@ EXCEPT !.font = s.font, !.brush = s.brush, !.pen = s.pen],
                                 ![d].text = s.text, ![d].mapmode = s.mapmode, ![d].sstk = SubSeq(@, 1, i)]
    /\ saves' = [saves EXCEPT ![d] = SubSeq(@, 1, IF level < 0 THEN Len(@) + level ELSE level - 1)]
    /\ UNCHANGED <<stock, win, owned, bound>>
SetTextColor(d, c) == IsDC(d) /\ gdi' = [gdi EXCEPT ![d].text = c] /\ UNCHANGED <<stock, win, owned, bound, saves>>
\* ext stands for the four extents; MM_TEXT resets them.
SetMapMode(d, m) ==
    /\ IsDC(d) /\ m \in {MM_TEXT, MM_ANISOTROPIC}
    /\ gdi' = [gdi EXCEPT ![d].mapmode = m, ![d].ext = IF m = MM_TEXT THEN 1 ELSE @]
    /\ UNCHANGED <<stock, win, owned, bound, saves>>
u32_ext_mode(d) == gdi[d].mapmode = MM_ANISOTROPIC
SetWindowExtEx(d, e) == IsDC(d) /\ u32_ext_mode(d) /\ gdi' = [gdi EXCEPT ![d].ext = e] /\ UNCHANGED <<stock, win, owned, bound, saves>>
SelectObject(d, o) ==
    /\ IsDC(d) /\ gdi_idx(gdi, o) /\ gdi[o].type \in Kinds
    /\ gdi' = [gdi EXCEPT ![d].sel[gdi[o].type] = o]
    /\ bound' = IF gdi[o].type = "bitmap" THEN [bound EXCEPT ![d] = o] ELSE bound
    /\ UNCHANGED <<stock, win, owned, saves>>
\* The palette selected before, or the default one, made now.
SelectPalette(d, p) ==
    /\ IsDC(d)
    /\ LET st == IF gdi[d].palette = NULLH THEN u32_stock(St, 15) ELSE St
       IN  gdi' = [st.g EXCEPT ![d].palette = p] /\ stock' = st.s
    /\ UNCHANGED <<win, owned, bound, saves>>
gdi_dc_surface(d) == LET b == gdi[d].sel.bitmap IN IF IsDC(d) /\ gdi_idx(gdi, b) /\ gdi[b].type = "bitmap" THEN b ELSE NULLH
GetCurrentObject(d, kind) == IF gdi_idx(gdi, d) THEN gdi[d].sel[kind] ELSE NULLH

-----------------------------------------------------------------------------
(* Objects.  A bitmap's pixels may be refused: its slot goes back at once.     *)
Make(type, ok) ==
    LET i == FreeSlot(gdi)
        g == gdi_alloc(gdi, i, type)
    IN  /\ gdi' = IF i = NULLH \/ ok THEN g ELSE [g EXCEPT ![i].used = FALSE]
        /\ owned' = IF ok THEN owned \cup ({i} \ {NULLH}) ELSE owned
        /\ UNCHANGED <<stock, win, bound, saves>>
CreateSolidBrush == Make("brush", TRUE)
CreatePatternBrush == CreateSolidBrush
CreatePen == Make("pen", TRUE)
CreatePenIndirect == CreatePen
ExtCreatePen == CreatePen
font_make == Make("font", TRUE)
CreateFontIndirectA == font_make
CreateFontIndirectW == font_make
CreatePalette == Make("palette", TRUE)
CreateCompatibleBitmap(ok) == Make("bitmap", ok)
CreateDIBSection(ok) == CreateCompatibleBitmap(ok)
GetStockObject(id) == gdi' = u32_stock(St, id).g /\ stock' = u32_stock(St, id).s /\ UNCHANGED <<win, owned, bound, saves>>
DeleteAny(h) == gdi_idx(gdi, h) /\ Free({h}) /\ UNCHANGED <<stock, win>>
DeleteObject(h) ==
    /\ gdi_idx(gdi, h)
    /\ IF gdi[h].stock THEN UNCHANGED <<gdi, owned, bound, saves>> ELSE Free({h})
    /\ UNCHANGED <<stock, win>>
GetObjectA(h) == IF ~gdi_idx(gdi, h) THEN 0 ELSE CASE gdi[h].type = "bitmap" -> 24 [] gdi[h].type = "brush" -> 12 [] gdi[h].type = "palette" -> 2 [] OTHER -> 0

-----------------------------------------------------------------------------
(* The window's framebuffer.                                                   *)
\* Showing a window that has no SDL window makes a framebuffer, then tries for one.
sdl_window_show(ok) ==
    LET b == FreeSlot(gdi)
        got == b # NULLH /\ ok
        g == gdi_alloc(gdi, b, "bitmap")
    IN  IF win.sdl THEN UNCHANGED gdiVars
        ELSE /\ gdi' = IF b = NULLH THEN gdi ELSE IF ok THEN g ELSE [g EXCEPT ![b].used = FALSE]
             /\ win' = [bmp |-> IF got THEN b ELSE NULLH, sdl |-> Display]
             /\ UNCHANGED <<stock, owned, bound, saves>>
u32_ensure_child_bmp(ok) == win.bmp = NULLH /\ sdl_window_show(ok)
sdl_window_destroy ==
    /\ IF gdi_idx(gdi, win.bmp) THEN Free({win.bmp}) ELSE UNCHANGED <<gdi, owned, bound, saves>>
    /\ win' = [bmp |-> NULLH, sdl |-> FALSE]
    /\ UNCHANGED stock
CompositeLeaks(ok) ==
    LET d == FreeSlot(gdi)
        st == u32_dc_defaults([g |-> gdi_alloc(gdi, d, "dc"), s |-> stock], d)
        b == FreeSlot(st.g)
        g == gdi_alloc(st.g, b, "bitmap")
    IN  /\ win.bmp # NULLH /\ d # NULLH
        /\ gdi' = IF b = NULLH THEN st.g ELSE Freed(IF ok THEN [g EXCEPT ![d].sel.bitmap = b] ELSE g, {b, d})
        /\ stock' = st.s
        /\ UNCHANGED <<win, owned, bound, saves>>
\* A predefined control is painted through a context and a bitmap of the moment.
u32_composite_one_child(ok) ==
    LET d == FreeSlot(gdi)
        st == u32_dc_defaults([g |-> gdi_alloc(gdi, d, "dc"), s |-> stock], d)
        b == FreeSlot(st.g)
        g == gdi_alloc(st.g, b, "bitmap")
    IN  /\ win.bmp # NULLH /\ d # NULLH
        /\ gdi' = IF b = NULLH THEN Freed(st.g, {d}) ELSE Freed(IF ok THEN [g EXCEPT ![d].sel.bitmap = b] ELSE g, {b, d})
        /\ stock' = st.s
        /\ UNCHANGED <<win, owned, bound, saves>>

-----------------------------------------------------------------------------
(* Programs that give back what they took, each through its own call, and      *)
(* delete nothing that is selected or saved.                                   *)
DCs == {d \in owned : gdi[d].type = "dc"}
Selected == UNION {{gdi[d].sel[k] : k \in Kinds} \cup UNION {{s.font, s.brush, s.pen} : s \in ToSet(gdi[d].sstk)} : d \in DCs}
OfWindow(d) == win.bmp # NULLH /\ bound[d] = win.bmp
Objects == {h \in owned : gdi[h].type # "dc"}
SaveOps(d) == SaveDC(d) \/ \E level \in {-2, -1, 1, 2} : RestoreDC(d, level)
SelectOps(d) ==
    \E o \in Objects \cup ({stock[0], stock[7]} \ {NULLH}) :
        (gdi[o].type = "bitmap" => ~OfWindow(d) /\ \A e \in DCs \ {d} : bound[e] # o) /\ SelectObject(d, o)
ModeOps(d) == SetTextColor(d, 1) \/ (\E m \in {MM_TEXT, MM_ANISOTROPIC} : SetMapMode(d, m)) \/ SetWindowExtEx(d, 2)
PaletteOps(d) == \E p \in Objects : gdi[p].type = "palette" /\ SelectPalette(d, p)
LifeOps ==
    \/ CreateCompatibleDC \/ GetDC(TRUE) \/ BeginPaint
    \/ \E d \in DCs : (OfWindow(d) /\ (ReleaseDC(d, TRUE) \/ EndPaint(d))) \/ (~OfWindow(d) /\ DeleteDC(d))
    \/ \E d \in DCs : bound[d] = NULLH /\ ReleaseDC(d, FALSE)
    \/ \E h \in (Objects \ Selected) \cup ({stock[id] : id \in StockIds} \ {NULLH}) : DeleteObject(h)
MakeOps == CreateSolidBrush \/ CreatePalette \/ \E ok \in BOOLEAN : CreateCompatibleBitmap(ok)
StockOps == \E id \in StockIds : GetStockObject(id)
WindowFrameOps ==
    \/ \E ok \in BOOLEAN : sdl_window_show(ok) \/ u32_ensure_child_bmp(ok) \/ u32_composite_one_child(ok)
    \/ (\A d \in DCs : ~OfWindow(d)) /\ sdl_window_destroy

GdiNext ==
    \/ LifeOps
    \/ MakeOps
    \/ StockOps
    \/ WindowFrameOps
    \/ \E d \in DCs : SaveOps(d) \/ SelectOps(d) \/ ModeOps(d) \/ PaletteOps(d)
GdiSpec == GdiInit /\ [][GdiNext]_gdiVars

-----------------------------------------------------------------------------
GdiTypeOK == /\ \A i \in Slots : gdi[i].type \in Types /\ Len(gdi[i].sstk) <= SaveMax
             /\ owned \subseteq Slots /\ win.bmp \in Slots \cup {NULLH}
\* A stock object, once made, stays the object it was made as, whatever is deleted and allocated.
StockKept == \A id \in StockIds : stock[id] # NULLH => gdi[stock[id]].used /\ gdi[stock[id]].stock /\ gdi[stock[id]].type = StockType(id)
\* A device context draws on the bitmap the program selected into it, or on the framebuffer of the
\* window it was asked for: never on one left behind in its slot by an earlier context.
DrawsOwn == \A d \in DCs : gdi_dc_surface(d) = bound[d]
\* The brush, pen and font a device context has selected are live objects of their kinds, or nothing when the table was
\* full, also after restoring an older selection.
SelectedLive == \A d \in DCs, k \in Kinds \ {"bitmap"} : gdi[d].sel[k] # NULLH => gdi[gdi[d].sel[k]].used /\ gdi[gdi[d].sel[k]].type = k
\* No slot is lost: each one in use is the program's, a stock object's or the window's.
NoSlotLost == {i \in Slots : gdi[i].used} = owned \cup ({stock[id] : id \in StockIds} \ {NULLH}) \cup ({win.bmp} \ {NULLH})
\* RestoreDC brings back the attributes of the SaveDC its level names, counted from either end.
RestoreIsSave ==
    [][\A d \in Slots : Len(saves'[d]) < Len(saves[d]) /\ IsDC(d) /\ gdi'[d].used => Attributes(gdi'[d]) = saves[d][Len(saves'[d]) + 1]]_gdiVars

\* Every object has one owner: stock objects stay, contexts draw on and select what is theirs, no
\* slot is lost.
GdiOwnership == GdiTypeOK /\ StockKept /\ DrawsOwn /\ SelectedLive /\ NoSlotLost
=============================================================================
