------------------------------ MODULE WindowData ------------------------------
(***************************************************************************)
(* What a program hangs on windows: property lists, registered messages, the  *)
(* clipboard, window classes and a scroll bar's state; then the atom tables   *)
(* and the COM allocator's; then the tree of the windows themselves.           *)
(*                                                                             *)
(* Each table is searched from its first slot; want is what the program last   *)
(* put in and has not taken out.                                               *)
(***************************************************************************)
EXTENDS Integers, Sequences, FiniteSets

CONSTANTS DataMax,      \* slots of each table
          Owners,       \* windows, the owners of properties
          DataKeys,     \* property keys, message names, formats, class names
          DataVals,     \* values, without 0
          Ends          \* ends and page sizes of scroll ranges
ASSUME DataAssumption == DataMax \in Nat \ {0} /\ 0 \notin DataVals /\ Ends \subseteq Int

VARIABLES prop, rwm, clipb, class,      \* g_u32_prop, g_u32_rwm, g_u32_clip, g_u32_class
          scroll,                       \* one scroll bar
          want                          \* ghost: what each table should answer
dataVars == <<prop, rwm, clipb, class, scroll, want>>

Entries == 1..DataMax
NoEntry == [used |-> FALSE, key |-> 0, val |-> 0]
DataInit == /\ prop = [i \in Entries |-> NoEntry] /\ class = [i \in Entries |-> NoEntry]
            /\ rwm = <<>> /\ clipb = <<>>
            /\ scroll = [min |-> 0, max |-> 0, page |-> 0, pos |-> 0]
            /\ want = [prop |-> [p \in Owners \X DataKeys |-> 0], clip |-> [k \in DataKeys |-> 0], class |-> [k \in DataKeys |-> 0]]
FirstIn(S) == IF S = {} THEN 0 ELSE CHOOSE i \in S : \A j \in S : i <= j
Holding(t, key) == FirstIn({i \in Entries : t[i].used /\ t[i].key = key})
Unused(t) == FirstIn({i \in Entries : ~t[i].used})
Entry(key, v) == [used |-> TRUE, key |-> key, val |-> v]

-----------------------------------------------------------------------------
(* Properties: a key per window.                                               *)
u32_prop_find(w, k) == Holding(prop, <<w, k>>)
SetNext(w, k, v) ==
    LET i == Unused(prop)
    IN  /\ IF i = 0 THEN UNCHANGED <<prop, want>>
           ELSE prop' = [prop EXCEPT ![i] = Entry(<<w, k>>, v)] /\ want' = [want EXCEPT !.prop[<<w, k>>] = v]
        /\ UNCHANGED <<rwm, clipb, class, scroll>>
u32_set_prop(w, k, v) ==
    LET i == IF u32_prop_find(w, k) # 0 THEN u32_prop_find(w, k) ELSE Unused(prop)
    IN  /\ IF i = 0 THEN UNCHANGED <<prop, want>>
           ELSE prop' = [prop EXCEPT ![i] = Entry(<<w, k>>, v)] /\ want' = [want EXCEPT !.prop[<<w, k>>] = v]
        /\ UNCHANGED <<rwm, clipb, class, scroll>>
u32_get_prop(w, k) == IF u32_prop_find(w, k) = 0 THEN 0 ELSE prop[u32_prop_find(w, k)].val
u32_rm_prop(w, k) ==
    /\ u32_prop_find(w, k) # 0
    /\ prop' = [prop EXCEPT ![u32_prop_find(w, k)].used = FALSE] /\ want' = [want EXCEPT !.prop[<<w, k>>] = 0]
    /\ UNCHANGED <<rwm, clipb, class, scroll>>
PropOps == \E w \in Owners, k \in DataKeys : u32_rm_prop(w, k) \/ \E v \in DataVals : u32_set_prop(w, k, v)

(* Registered messages and clipboard formats: one table, ids in sequence.      *)
u32_reg_win_msg(k) ==
    /\ \A i \in DOMAIN rwm : rwm[i] # k
    /\ Len(rwm) < DataMax
    /\ rwm' = Append(rwm, k) /\ UNCHANGED <<prop, clipb, class, scroll, want>>
RegisterWindowMessageA(k) == u32_reg_win_msg(k)
RegisterClipboardFormatA(k) == u32_reg_win_msg(k)

(* The clipboard: a compact array.                                             *)
ClipAt(f) == FirstIn({i \in DOMAIN clipb : clipb[i].fmt = f})
EmptyClipboard == clipb' = <<>> /\ want' = [want EXCEPT !.clip = [k \in DataKeys |-> 0]] /\ UNCHANGED <<prop, rwm, class, scroll>>
SetClipAppends(f, h) ==
    /\ clipb' = IF Len(clipb) < DataMax THEN Append(clipb, [fmt |-> f, handle |-> h]) ELSE clipb
    /\ want' = [want EXCEPT !.clip[f] = IF Len(clipb) < DataMax THEN h ELSE @]
    /\ UNCHANGED <<prop, rwm, class, scroll>>
SetClipboardData(f, h) ==
    LET i == ClipAt(f)
    IN  /\ clipb' = IF i # 0 THEN [clipb EXCEPT ![i].handle = h]
                    ELSE IF Len(clipb) < DataMax THEN Append(clipb, [fmt |-> f, handle |-> h]) ELSE clipb
        /\ want' = [want EXCEPT !.clip[f] = IF i # 0 \/ Len(clipb) < DataMax THEN h ELSE @]
        /\ UNCHANGED <<prop, rwm, class, scroll>>
GetClipboardData(f) == IF ClipAt(f) = 0 THEN 0 ELSE clipb[ClipAt(f)].handle
IsClipboardFormatAvailable(f) == ClipAt(f) # 0
ClipOps3 == EmptyClipboard \/ \E f \in DataKeys, h \in DataVals : SetClipboardData(f, h)

(* Classes; an atom is a slot.                                                 *)
u32_class_register(k, v) ==
    LET i == Unused(class)
    IN  /\ IF i = 0 THEN UNCHANGED <<class, want>>
           ELSE class' = [class EXCEPT ![i] = Entry(k, v)] /\ want' = [want EXCEPT !.class[k] = v]
        /\ UNCHANGED <<prop, rwm, clipb, scroll>>
RegisterClassA(k, v) == u32_class_register(k, v)
RegisterClassW(k, v) == u32_class_register(k, v)
RegisterClassExA(k, v) == u32_class_register(k, v)
RegisterClassExW(k, v) == u32_class_register(k, v)
IndexUnchecked(k) == FirstIn({i \in Entries : class[i].key = k})
u32_class_index(k) == Holding(class, k)
u32_get_class_info(k) == IF u32_class_index(k) = 0 THEN 0 ELSE class[u32_class_index(k)].val
u32_get_class_info_a(k) == u32_get_class_info(k)
u32_class_wndproc(k) == u32_get_class_info(k)
u32_class_brush(k) == u32_get_class_info(k)
u32_win_class_idx(k) == u32_class_index(k)
GetClassLongW(k) == u32_get_class_info(k)
UnregisterClassW(k) ==
    /\ u32_class_index(k) # 0
    /\ class' = [class EXCEPT ![u32_class_index(k)].used = FALSE] /\ want' = [want EXCEPT !.class[k] = 0]
    /\ UNCHANGED <<prop, rwm, clipb, scroll>>
UnregisterClassA(k) == UnregisterClassW(k)
\* A program registers no name that is registered.
ClassOps == \E k \in DataKeys : UnregisterClassW(k) \/ \E v \in DataVals : want.class[k] = 0 /\ RegisterClassW(k, v)

-----------------------------------------------------------------------------
(* Scroll bars.                                                                *)
ClampUpper(s, page) ==
    LET hi == s.max - (IF page /\ s.page > 0 THEN s.page - 1 ELSE 0)
    IN  [s EXCEPT !.pos = IF @ < s.min THEN s.min ELSE IF @ > hi THEN hi ELSE @]
u32_sb_clamp(s, page) ==
    LET top == s.max - (IF page /\ s.page > 0 THEN s.page - 1 ELSE 0)
        hi == IF top < s.min THEN s.min ELSE top
    IN  [s EXCEPT !.pos = IF @ < s.min THEN s.min ELSE IF @ > hi THEN hi ELSE @]
SetScroll(s, page) == scroll' = u32_sb_clamp(s, page) /\ UNCHANGED <<prop, rwm, clipb, class, want>>
SetScrollRange(lo, hi) == SetScroll([scroll EXCEPT !.min = lo, !.max = hi], FALSE)
SetScrollPos(p) == SetScroll([scroll EXCEPT !.pos = p], FALSE)
SetScrollInfo(mask, lo, hi, page, p) ==
    SetScroll([min |-> IF "RANGE" \in mask THEN lo ELSE scroll.min, max |-> IF "RANGE" \in mask THEN hi ELSE scroll.max,
               page |-> IF "PAGE" \in mask THEN page ELSE scroll.page, pos |-> IF "POS" \in mask THEN p ELSE scroll.pos], TRUE)
ScrollOps == \/ \E p \in Ends : SetScrollPos(p)
             \/ \E lo, hi \in Ends : SetScrollRange(lo, hi)
             \/ \E mask \in SUBSET {"RANGE", "PAGE", "POS"}, lo, hi, p \in Ends, page \in 0..2 : SetScrollInfo(mask, lo, hi, page, p)

-----------------------------------------------------------------------------
DataNext == PropOps \/ ClipOps3 \/ ClassOps \/ ScrollOps \/ \E k \in DataKeys : RegisterWindowMessageA(k)

\* A property list gives back what was last set for the window and the key and not removed since,
\* while other windows and keys come and go in the shared table.
PropsReadBack == \A w \in Owners, k \in DataKeys : u32_get_prop(w, k) = want.prop[<<w, k>>]
\* A registered class is found by its name with the fields it was registered with; an unregistered
\* one is not, though its slot still has them.
ClassReadBack == \A k \in DataKeys : u32_get_class_info(k) = want.class[k]
\* The clipboard gives back the last handle of a format, also when it was set several times or the
\* table was full in between.
ClipReadBack == \A f \in DataKeys : GetClipboardData(f) = want.clip[f] /\ (IsClipboardFormatAvailable(f) <=> want.clip[f] # 0)
\* Whatever range, page and position are set, in whatever order and even upside down, the position
\* is never below the range's lower end, nor above the upper end of a range that is not empty.
ScrollInRange == scroll.pos >= scroll.min /\ (scroll.min <= scroll.max => scroll.pos <= scroll.max)

-----------------------------------------------------------------------------
(***************************************************************************)
(* Atom tables: names interned in the first free slot, counted by references,  *)
(* compared without case.  A name is a sequence of letters; the narrow calls   *)
(* cut it when they store it, the wide ones before they look it up.  Atoms     *)
(* below AtomBase are integers and never enter a table.                        *)
(***************************************************************************)

CONSTANTS AtomMax,      \* U32_ATOM_MAX
          NameRoom,     \* characters a table entry has room for
          AtomTables,   \* the local and the global table
          AtomNames,    \* names a program uses
          AtomFold(_)   \* a letter in lower case
AtomLetters == UNION {{s[k] : k \in DOMAIN s} : s \in AtomNames}
ASSUME AtomAssumption == /\ {AtomMax, NameRoom} \subseteq Nat \ {0}
                         /\ AtomTables = {"local", "global"} /\ AtomNames \subseteq Seq(AtomLetters)

VARIABLES atoms,        \* g_atom_local, g_atom_global
          held          \* ghost: for each table and folded name, the adds not yet undone, the atom and the spelling
atomVars == <<atoms, held>>

AtomSlots == 0..(AtomMax - 1)
AtomBase == 100
NoAtom == 0
Unheld == [n |-> 0, atom |-> NoAtom, name |-> <<>>]
AtomFolded(s) == [k \in DOMAIN s |-> AtomFold(s[k])]
Cut(s) == IF Len(s) > NameRoom THEN SubSeq(s, 1, NameRoom) ELSE s
AtomsInit == /\ atoms = [t \in AtomTables |-> [i \in AtomSlots |-> [name |-> <<>>, refs |-> 0]]]
             /\ held = [t \in AtomTables |-> [f \in {AtomFolded(Cut(s)) : s \in AtomNames} |-> Unheld]]
u32_atom_ieq(a, b) == AtomFolded(a) = AtomFolded(b)
u32_atom_is_int(a) == a \in Nat
FirstSlot(S) == IF S = {} THEN -1 ELSE CHOOSE i \in S : \A j \in S : i <= j
Same(t, name) == FirstSlot({i \in AtomSlots : atoms[t][i].refs > 0 /\ u32_atom_ieq(atoms[t][i].name, name)})
Vacant(t) == FirstSlot({i \in AtomSlots : atoms[t][i].refs = 0})
u32_atom_find(t, name) == IF name # <<>> /\ Same(t, name) >= 0 THEN AtomBase + Same(t, name) ELSE NoAtom
u32_atom_find_w(t, name) == u32_atom_find(t, Cut(name))

-----------------------------------------------------------------------------
Hold(t, name, atom) ==
    held' = [held EXCEPT ![t][AtomFolded(Cut(name))] = [n |-> @.n + 1, atom |-> atom, name |-> IF @.n = 0 THEN Cut(name) ELSE @.name]]
u32_atom_add(t, name) ==
    /\ name # <<>>
    /\ LET i == Same(t, name)
           j == Vacant(t)
       IN  IF i >= 0 THEN atoms' = [atoms EXCEPT ![t][i].refs = @ + 1] /\ Hold(t, name, AtomBase + i)
           ELSE IF j >= 0 THEN atoms' = [atoms EXCEPT ![t][j] = [name |-> Cut(name), refs |-> 1]] /\ Hold(t, name, AtomBase + j)
           ELSE UNCHANGED atomVars
u32_atom_add_w(t, name) == u32_atom_add(t, Cut(name))
AddAtomA(name) == u32_atom_add("local", name)
GlobalAddAtomA(name) == u32_atom_add("global", name)
AddAtomW(name) == u32_atom_add_w("local", name)
GlobalAddAtomW(name) == u32_atom_add_w("global", name)
LetGo(h) == IF h.n = 1 THEN Unheld ELSE [h EXCEPT !.n = @ - 1]
DeleteAtOnce(t, atom) ==
    /\ atom - AtomBase \in AtomSlots /\ atoms[t][atom - AtomBase].refs > 0
    /\ atoms' = [atoms EXCEPT ![t][atom - AtomBase] = [name |-> <<>>, refs |-> 0]]
    /\ held' = [held EXCEPT ![t] = [f \in DOMAIN @ |-> IF @[f].n > 0 /\ @[f].atom = atom THEN LetGo(@[f]) ELSE @[f]]]
u32_atom_del(t, atom) ==
    /\ atom - AtomBase \in AtomSlots /\ atoms[t][atom - AtomBase].refs > 0
    /\ atoms' = [atoms EXCEPT ![t][atom - AtomBase] = [name |-> IF @.refs = 1 THEN <<>> ELSE @.name, refs |-> @.refs - 1]]
    /\ held' = [held EXCEPT ![t] = [f \in DOMAIN @ |-> IF @[f].n > 0 /\ @[f].atom = atom THEN LetGo(@[f]) ELSE @[f]]]
DeleteAtom(atom) == u32_atom_del("local", atom)
GlobalDeleteAtom(atom) == u32_atom_del("global", atom)
u32_atom_name_of(t, atom) == IF atom - AtomBase \in AtomSlots /\ atoms[t][atom - AtomBase].refs > 0 THEN atoms[t][atom - AtomBase].name ELSE <<>>
\* What GetAtomName writes into cch characters and returns; the global one returns 0 when it cuts.
u32_atom_name_a(t, atom, cch) ==
    LET s == u32_atom_name_of(t, atom)
    IN  IF s = <<>> \/ cch = 0 THEN [out |-> <<>>, n |-> 0]
        ELSE IF Len(s) <= cch - 1 THEN [out |-> s, n |-> Len(s)]
        ELSE [out |-> SubSeq(s, 1, cch - 1), n |-> IF t = "global" THEN 0 ELSE cch - 1]
u32_atom_name_w(t, atom, cch) == u32_atom_name_a(t, atom, cch)

-----------------------------------------------------------------------------
\* A program deletes only atoms it holds; through the narrow calls it uses names that fit.
AtomNext ==
    \/ \E s \in AtomNames : AddAtomW(s) \/ GlobalAddAtomW(s) \/ (Len(s) <= NameRoom /\ (AddAtomA(s) \/ GlobalAddAtomA(s)))
    \/ \E f \in DOMAIN held["local"] : held["local"][f].n > 0 /\ DeleteAtom(held["local"][f].atom)
    \/ \E f \in DOMAIN held["global"] : held["global"][f].n > 0 /\ GlobalDeleteAtom(held["global"][f].atom)
\* The same, with at most so many holds of each name.
AtomOps(most) ==
    /\ AtomNext
    /\ \A t \in AtomTables : \A f \in DOMAIN held'[t] : held'[t][f].n <= most

\* The tables of names side by side.
NamesSpec ==
    /\ DataInit /\ AtomsInit
    /\ [][(DataNext /\ UNCHANGED atomVars) \/ (AtomNext /\ UNCHANGED dataVars)]_<<dataVars, atomVars>>

\* While a program has added a name more often than it deleted its atom, Find in that table gives
\* the atom Add gave, in any case, and GetAtomName the spelling of the first Add; a name it no
\* longer holds is not found, whatever the other table has.
AtomStable ==
    \A t \in AtomTables : \A s \in AtomNames :
        LET h == held[t][AtomFolded(Cut(s))]
        IN  /\ u32_atom_find_w(t, s) = h.atom
            /\ h.n > 0 => u32_atom_name_a(t, h.atom, NameRoom + 1) = [out |-> h.name, n |-> Len(h.name)]

-----------------------------------------------------------------------------
(***************************************************************************)
(* The COM task allocator's side table: an open-addressing hash from block to  *)
(* size, doubled at 70 %, whose removal re-inserts the probe chain behind the  *)
(* hole.  IMalloc and CoTaskMem share it.                                      *)
(***************************************************************************)
CONSTANTS ComAddrs,     \* the addresses malloc may return, over 16
          ComCap,       \* the first capacity, a power of two
          ComSizes      \* sizes a program asks for, 0 among them
ASSUME ComAssumption == ComAddrs \subseteq Nat \ {0} /\ ComCap \in Nat \ {0, 1} /\ ComSizes \subseteq Nat

VARIABLES com,          \* g_com_blk, g_com_cap, g_com_cnt
          heap,         \* the live blocks and their sizes
          lost          \* GHOST: addresses freed by a realloc to no bytes, not handed out since
comVars == <<com, heap, lost>>

Hole == [p |-> 0, n |-> 0]
ComInit == com = [cap |-> 0, cnt |-> 0, blk |-> <<>>] /\ heap = <<>> /\ lost = {}
\* 31153: the low bits of the multiplier, enough for every capacity below 2^16.
Home(p, cap) == (p * (31153 % cap)) % cap
\* The first slot of p's probe sequence that holds p or nothing.
u32_com_slot(b, p, cap) ==
    LET stop == {i \in 0..(cap - 1) : b[(Home(p, cap) + i) % cap].p \in {0, p}}
    IN  (Home(p, cap) + CHOOSE i \in stop : \A j \in stop : i <= j) % cap
\* The new table after each slot of the old one.
Moved(b, e, ncap) == IF e.p = 0 THEN b ELSE [b EXCEPT ![u32_com_slot(b, e.p, ncap)] = e]
Moves(c, ncap) ==
    LET moved[i \in 0..c.cap] ==
            IF i = 0 THEN [h \in 0..(ncap - 1) |-> Hole] ELSE Moved(moved[i - 1], c.blk[i - 1], ncap)
    IN  moved
u32_com_grow(c) ==
    LET ncap == IF c.cap = 0 THEN ComCap ELSE 2 * c.cap
    IN  [c EXCEPT !.cap = ncap, !.blk = Moves(c, ncap)[c.cap]]
u32_com_track(c0, p, n) ==
    LET c == IF (c0.cnt + 1) * 10 >= c0.cap * 7 THEN u32_com_grow(c0) ELSE c0
        h == u32_com_slot(c.blk, p, c.cap)
    IN  [c EXCEPT !.cnt = IF c.blk[h].p = 0 THEN @ + 1 ELSE @, !.blk[h] = [p |-> p, n |-> n]]
Cleared(c, h) == [c EXCEPT !.blk[h] = Hole, !.cnt = @ - 1]
UntrackOnly(c, p) ==
    LET h == u32_com_slot(c.blk, p, c.cap)
    IN  IF c.cap = 0 \/ c.blk[h].p = 0 THEN c ELSE Cleared(c, h)
\* Each entry of the chain behind the hole is taken out and put back, up to the next empty slot.
Reinserted(q, i) ==
    LET e == q.c.blk[i]
    IN  IF ~q.go \/ e.p = 0 THEN [q EXCEPT !.go = FALSE]
        ELSE [q EXCEPT !.c = u32_com_track(Cleared(q.c, i), e.p, e.n)]
Chain(c, h) ==
    LET chain[k \in 0..(c.cap - 1)] ==
            IF k = 0 THEN [c |-> Cleared(c, h), go |-> TRUE] ELSE Reinserted(chain[k - 1], (h + k) % c.cap)
    IN  chain
u32_com_untrack(c, p) ==
    LET h == u32_com_slot(c.blk, p, c.cap)
    IN  IF c.cap = 0 \/ c.blk[h].p = 0 THEN c ELSE Chain(c, h)[c.cap - 1].c
u32_com_size(p) ==
    IF com.cap = 0 THEN -1
    ELSE LET h == u32_com_slot(com.blk, p, com.cap) IN IF com.blk[h].p = 0 THEN -1 ELSE com.blk[h].n

-----------------------------------------------------------------------------
Sized(p, n) == [q \in DOMAIN heap \cup {p} |-> IF q = p THEN n ELSE heap[q]]
Without(f, p) == [q \in DOMAIN f \ {p} |-> f[q]]
CoTaskMemAlloc(n) ==
    \E p \in ComAddrs \ DOMAIN heap :
        com' = u32_com_track(com, p, n) /\ heap' = Sized(p, n) /\ lost' = lost \ {p}
\* realloc may move the block or fail; a failure keeps the old one.  To no bytes it frees the
\* block and returns NULL, on which the code leaves the entry of the block in the table.
CoTaskMemRealloc(old, n) ==
    \/ n = 0 /\ heap' = Without(heap, old) /\ lost' = lost \cup {old} /\ UNCHANGED com
    \/ n # 0 /\ \E p \in (ComAddrs \ DOMAIN heap) \cup {old} :
          /\ com' = u32_com_track(u32_com_untrack(com, old), p, n)
          /\ heap' = [q \in (DOMAIN heap \ {old}) \cup {p} |-> IF q = p THEN n ELSE heap[q]]
          /\ lost' = lost \ {p}
    \/ n # 0 /\ UNCHANGED comVars
CoTaskMemFree(p) == com' = u32_com_untrack(com, p) /\ heap' = Without(heap, p) /\ UNCHANGED lost
u32_im_alloc(n) == CoTaskMemAlloc(n)
u32_im_realloc(old, n) == CoTaskMemRealloc(old, n)
u32_im_free(p) == CoTaskMemFree(p)
u32_im_getsize(p) == u32_com_size(p)
u32_im_didalloc(p) == IF u32_com_size(p) = -1 THEN 0 ELSE 1
ComOps == \/ \E n \in ComSizes : CoTaskMemAlloc(n) \/ \E p \in DOMAIN heap : CoTaskMemRealloc(p, n)
          \/ \E p \in DOMAIN heap : CoTaskMemFree(p)
ComSpec == ComInit /\ [][ComOps]_comVars

\* Whatever was allocated, moved and freed in between, in whatever order the table grew and its
\* probe chains were cut, GetSize and DidAlloc know every live block, with its size, and no other
\* but those freed by a Realloc to no bytes, which stay counted until malloc hands them out again.
ComTracked ==
    /\ \A p \in ComAddrs \ lost : /\ u32_im_getsize(p) = IF p \in DOMAIN heap THEN heap[p] ELSE -1
                                  /\ u32_im_didalloc(p) = IF p \in DOMAIN heap THEN 1 ELSE 0
    /\ DOMAIN heap \cap lost = {} /\ com.cnt = Cardinality(DOMAIN heap \cup lost)

-----------------------------------------------------------------------------
(***************************************************************************)
(* The window hierarchy as slots that name their parents: GetWindow's walk,    *)
(* IsChild, and EnumChildWindows, whose call-back may create, destroy and      *)
(* re-parent windows while the loop is under way.  Destroying a window leaves  *)
(* its children behind.                                                        *)
(***************************************************************************)

CONSTANTS TreeMax       \* U32_MAX_WIN: handles 1..TreeMax
ASSUME TreeAssumption == TreeMax \in Nat \ {0}

VARIABLES tree,         \* g_u32_win: used, parent, and the style bit WS_CHILD
          enum,         \* EnumChildWindows under way: its parent and the slot it looks at next
          owed          \* ghost: the children there ever since it began and not reported yet
treeVars == <<tree, enum, owed>>

Handles == 1..TreeMax
NoWindow == 0
NoEnum == [on |-> FALSE, parent |-> NoWindow, next |-> 1]
VacantSlot == [used |-> FALSE, parent |-> NoWindow, child |-> FALSE]
TreeInit == /\ tree = [h \in Handles |-> VacantSlot]
            /\ enum = NoEnum /\ owed = {}
u32_win_idx(h) == h \in Handles /\ tree[h].used
Children(p) == {h \in Handles : tree[h].used /\ tree[h].parent = p}
Lowest(S) == IF S = {} THEN NoWindow ELSE CHOOSE h \in S : \A k \in S : h <= k
Highest(S) == IF S = {} THEN NoWindow ELSE CHOOSE h \in S : \A k \in S : k <= h
u32_first_child(p) == Lowest(Children(p))
WalkOverFreed(h, cmd) ==
    IF cmd = "CHILD" THEN u32_first_child(h)
    ELSE IF h \notin Handles THEN NoWindow
    ELSE CASE cmd = "OWNER" -> IF tree[h].child THEN NoWindow ELSE tree[h].parent
           [] cmd = "NEXT" -> Lowest({k \in Handles : k > h /\ tree[k].parent = tree[h].parent})
           [] cmd = "PREV" -> Highest({k \in Handles : k < h /\ tree[k].parent = tree[h].parent})
           [] cmd = "FIRST" -> u32_first_child(tree[h].parent)
           [] cmd = "LAST" -> Highest(Children(tree[h].parent))
GetWindow(h, cmd) ==
    IF cmd = "CHILD" THEN u32_first_child(h)
    ELSE IF ~u32_win_idx(h) THEN NoWindow
    ELSE CASE cmd = "OWNER" -> IF tree[h].child THEN NoWindow ELSE tree[h].parent
           [] cmd = "NEXT" -> Lowest({k \in Children(tree[h].parent) : k > h})
           [] cmd = "PREV" -> Highest({k \in Children(tree[h].parent) : k < h})
           [] cmd = "FIRST" -> u32_first_child(tree[h].parent)
           [] cmd = "LAST" -> Highest(Children(tree[h].parent))
GetTopWindow(h) == u32_first_child(h)
\* Up the parents of child windows, at most rounds of them: the parents may form a cycle.
Climb(anc, h0, rounds) ==
    LET at[n \in 0..rounds] ==
            IF n = 0 THEN [h |-> h0, r |-> "go"]
            ELSE LET q == at[n - 1]
                 IN  IF q.r # "go" THEN q
                     ELSE IF ~u32_win_idx(q.h) \/ ~tree[q.h].child THEN [q EXCEPT !.r = "no"]
                     ELSE LET p == tree[q.h].parent
                          IN  [h |-> p, r |-> IF p = anc THEN "yes" ELSE IF p = NoWindow THEN "no" ELSE "go"]
    IN  at[rounds].r = "yes"
IsChildShort(anc, h) == Climb(anc, h, TreeMax - 1)
IsChild(anc, h) == Climb(anc, h, TreeMax)

-----------------------------------------------------------------------------
u32_window_create(parent, child) ==
    LET h == Lowest({k \in Handles : ~tree[k].used})
    IN  /\ h # NoWindow
        /\ tree' = [tree EXCEPT ![h] = [used |-> TRUE, parent |-> parent, child |-> child]]
        /\ UNCHANGED <<enum, owed>>
\* What the slot still holds is overwritten before it is read again.
DestroyWindow(h) == /\ tree' = [tree EXCEPT ![h] = VacantSlot]
                    /\ owed' = owed \ {h} /\ UNCHANGED enum
SetParent(h, p) == /\ u32_win_idx(h)
                   /\ tree' = [tree EXCEPT ![h].parent = p]
                   /\ owed' = IF p # enum.parent THEN owed \ {h} ELSE owed
                   /\ UNCHANGED enum
EnumStart(p) == /\ ~enum.on /\ enum' = [on |-> TRUE, parent |-> p, next |-> 1]
                /\ owed' = Children(p) /\ UNCHANGED tree
EnumByRank ==
    /\ enum.on
    /\ LET S == Children(enum.parent)
       IN  IF enum.next > Cardinality(S) THEN enum' = NoEnum /\ owed' = {} /\ UNCHANGED tree
           ELSE LET h == CHOOSE k \in S : Cardinality({j \in S : j <= k}) = enum.next
                IN  enum' = [enum EXCEPT !.next = @ + 1] /\ owed' = owed \ {h} /\ UNCHANGED tree
\* The next child in slot order gets the call-back; past the last one the call returns.
EnumChildWindows ==
    /\ enum.on
    /\ LET h == Lowest({k \in Children(enum.parent) : k >= enum.next})
       IN  IF h = NoWindow THEN enum' = NoEnum /\ owed' = {} /\ UNCHANGED tree
           ELSE enum' = [enum EXCEPT !.next = h + 1] /\ owed' = owed \ {h} /\ UNCHANGED tree
TreeOps ==
    \/ \E p \in Handles \cup {NoWindow}, c \in BOOLEAN : (p # NoWindow => u32_win_idx(p)) /\ u32_window_create(p, c)
    \/ \E h \in Handles : u32_win_idx(h) /\ (DestroyWindow(h) \/ \E p \in Handles \cup {NoWindow} : SetParent(h, p))
    \/ (\E p \in Handles : u32_win_idx(p) /\ EnumStart(p)) \/ EnumChildWindows

TreeSpec == TreeInit /\ [][TreeOps]_treeVars

-----------------------------------------------------------------------------
\* The first child and then its next ones are the children of a window, each once and in order, and
\* the walk back from the last one is the same walk reversed, however slots were reused.
Walk(first, cmd) ==
    LET at[n \in 1..TreeMax] == IF n = 1 THEN first ELSE IF at[n - 1] = NoWindow THEN NoWindow ELSE GetWindow(at[n - 1], cmd)
    IN  SelectSeq([n \in 1..TreeMax |-> at[n]], LAMBDA h : h # NoWindow)
WalkIsChildren ==
    \A p \in Handles \cup {NoWindow} :
        LET w == Walk(GetWindow(p, "CHILD"), "NEXT")
        IN  /\ {w[i] : i \in DOMAIN w} = Children(p) /\ Len(w) = Cardinality(Children(p))
            /\ Len(w) > 0 => Walk(GetWindow(w[1], "LAST"), "PREV") = [i \in DOMAIN w |-> w[Len(w) + 1 - i]]
\* IsChild is the descent along WS_CHILD windows, also when SetParent has made a cycle of them.
IsChildIsDescent ==
    LET below == {k \in Handles : tree[k].used /\ tree[k].child}
    IN  \A h, anc \in Handles : IsChild(anc, h) <=>
            \E s \in UNION {[1..n -> below] : n \in 1..TreeMax} :
                s[1] = h /\ \A i \in DOMAIN s : tree[s[i]].parent = IF i = Len(s) THEN anc ELSE s[i + 1]
\* Whatever its call-back creates, destroys and re-parents, an enumeration that runs to its end has
\* reported every child that was one from beginning to end.
EnumReportsAll == [][enum.on /\ ~enum'.on => owed = {}]_treeVars

\* The small tables read back what was stored under a key, however slots were freed and reused,
\* and the scroll position stays in its range.
TablesReadBack == PropsReadBack /\ ClassReadBack /\ ClipReadBack /\ ScrollInRange /\ AtomStable
\* The walks over the window slots visit exactly the children and the ancestors, and an enumeration
\* reports every child, however slots are reused and re-parented on the way.
TreeWalks == [](WalkIsChildren /\ IsChildIsDescent) /\ EnumReportsAll
=============================================================================
