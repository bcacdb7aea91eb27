------------------------------ MODULE ListItems ------------------------------
(***************************************************************************)
(* What USER32 keeps as lists: the items of menus, the strings of list boxes   *)
(* with the check state of buttons, and the tiles of image lists.              *)
(*                                                                             *)
(* A menu is a fixed array of items with a count, shifted by insertion and     *)
(* deletion; each window gets a system menu on request.  An item's text is     *)
(* kept or dropped whole.                                                      *)
(***************************************************************************)
EXTENDS Integers, Sequences, FiniteSets

CONSTANTS MenuMax,      \* U32_MAX_MENUS: menus 1..MenuMax - 1
          MItemMax,     \* U32_MAX_MITEMS
          MenuWindows,  \* windows
          SysCommands   \* the commands of a system menu, in order
ASSUME MenuAssumption == {MenuMax, MItemMax} \subseteq Nat \ {0} /\ SysCommands \in Seq(Nat) /\ Len(SysCommands) <= MItemMax

VARIABLES menu,         \* g_u32_menu
          wmenu, wsys,  \* g_u32_wmenu, g_u32_wsysmenu
          mine          \* ghost: the menus the program created and has not destroyed
menuVars == <<menu, wmenu, wsys, mine>>

MenuIds == 1..(MenuMax - 1)
NoMenu == 0
NoItem == [id |-> 0, flags |-> {}, submenu |-> NoMenu, text |-> FALSE]
EmptyMenu == [used |-> TRUE, count |-> 0, it |-> [k \in 0..(MItemMax - 1) |-> NoItem]]
MenusInit == /\ menu = [m \in MenuIds |-> [EmptyMenu EXCEPT !.used = FALSE]]
             /\ wmenu = [w \in MenuWindows |-> NoMenu] /\ wsys = [w \in MenuWindows |-> NoMenu]
             /\ mine = {}
u32_menu_idx(m) == m \in MenuIds /\ menu[m].used
FreeMenu == IF \A m \in MenuIds : menu[m].used THEN NoMenu ELSE CHOOSE m \in MenuIds : ~menu[m].used /\ \A k \in MenuIds : ~menu[k].used => m <= k
\* The first item with a command id, or the one at a position; -1 when there is none.
u32_menu_find(b, item, how) ==
    IF how = "position" THEN IF item \in 0..(b.count - 1) THEN item ELSE -1
    ELSE IF \A k \in 0..(b.count - 1) : b.it[k].id # item THEN -1
    ELSE CHOOSE k \in 0..(b.count - 1) : b.it[k].id = item /\ \A j \in 0..(k - 1) : b.it[j].id # item
u32_menu_setitem(b, slot, flags, id) ==
    [b EXCEPT !.it[slot] = [@ EXCEPT !.flags = flags, !.id = id, !.submenu = IF "POPUP" \in flags THEN id ELSE NoMenu, !.text = "SEPARATOR" \notin flags]]

-----------------------------------------------------------------------------
u32_menu_new ==
    /\ menu' = IF FreeMenu = NoMenu THEN menu ELSE [menu EXCEPT ![FreeMenu] = EmptyMenu]
    /\ mine' = mine \cup ({FreeMenu} \ {NoMenu})
    /\ UNCHANGED <<wmenu, wsys>>
CreateMenu == u32_menu_new
CreatePopupMenu == u32_menu_new
DestroyMenu(m) == u32_menu_idx(m) /\ menu' = [menu EXCEPT ![m].used = FALSE] /\ mine' = mine \ {m} /\ UNCHANGED <<wmenu, wsys>>
Change(m, b) == menu' = [menu EXCEPT ![m] = b] /\ UNCHANGED <<wmenu, wsys, mine>>
AppendMenuA(m, flags, id) ==
    /\ u32_menu_idx(m) /\ menu[m].count < MItemMax
    /\ Change(m, u32_menu_setitem([menu[m] EXCEPT !.count = @ + 1], menu[m].count, flags, id))
AppendMenuW(m, flags, id) == AppendMenuA(m, flags, id)
\* The shifts, one array element after another: up from the end, down from the hole.
ShiftAscending(it, at, n) ==
    LET up[k \in at..n] == IF k = at THEN it ELSE [up[k - 1] EXCEPT ![k] = up[k - 1][k - 1]] IN up[n]
UpFrom(it, at, n) ==
    LET up[k \in (at + 1)..(n + 1)] == IF k = n + 1 THEN it ELSE [up[k + 1] EXCEPT ![k] = up[k + 1][k - 1]] IN up
ShiftUp(it, at, n) == UpFrom(it, at, n)[at + 1]
DownTo(it, at, n) ==
    LET down[k \in (at - 1)..(n - 2)] == IF k = at - 1 THEN it ELSE [down[k - 1] EXCEPT ![k] = down[k - 1][k + 1]] IN down
ShiftDown(it, at, n) == DownTo(it, at, n)[n - 2]
InsertMenuA(m, item, how, flags, id) ==
    /\ u32_menu_idx(m) /\ menu[m].count < MItemMax
    /\ LET b == menu[m]
           found == u32_menu_find(b, item, how)
           at == IF found < 0 THEN b.count ELSE found
       IN  Change(m, u32_menu_setitem([b EXCEPT !.it = ShiftUp(b.it, at, b.count), !.count = @ + 1], at, flags, id))
DeleteMenu(m, item, how) ==
    /\ u32_menu_idx(m)
    /\ LET b == menu[m]
           at == u32_menu_find(b, item, how)
       IN  at >= 0 /\ Change(m, [b EXCEPT !.it = ShiftDown(b.it, at, b.count), !.count = @ - 1])
RemoveMenu(m, item, how) == DeleteMenu(m, item, how)
AtItem(m, item, how) == u32_menu_idx(m) /\ u32_menu_find(menu[m], item, how) >= 0
ModifyMenuA(m, item, how, flags, id) == AtItem(m, item, how) /\ Change(m, u32_menu_setitem(menu[m], u32_menu_find(menu[m], item, how), flags, id))
ModifyMenuW(m, item, how, flags, id) == ModifyMenuA(m, item, how, flags, id)
SetFlag(m, item, how, flag, on) ==
    AtItem(m, item, how) /\ Change(m, [menu[m] EXCEPT !.it[u32_menu_find(menu[m], item, how)].flags = IF on THEN @ \cup {flag} ELSE @ \ {flag}])
EnableMenuItem(m, item, how, on) == SetFlag(m, item, how, "GRAYED", on)
CheckMenuItem(m, item, how, on) == SetFlag(m, item, how, "CHECKED", on)
GetSubMenu(m, p) == IF u32_menu_idx(m) /\ p \in 0..(menu[m].count - 1) /\ "POPUP" \in menu[m].it[p].flags THEN menu[m].it[p].submenu ELSE NoMenu
GetMenuItemID(m, p) == IF u32_menu_idx(m) /\ p \in 0..(menu[m].count - 1) /\ "POPUP" \notin menu[m].it[p].flags THEN menu[m].it[p].id ELSE -1
SetMenu(w, m) == wmenu' = [wmenu EXCEPT ![w] = m] /\ UNCHANGED <<menu, wsys, mine>>
\* A window's system menu is made on demand; reverting frees it.
SysMenu == [EmptyMenu EXCEPT !.count = Len(SysCommands),
                             !.it = [k \in DOMAIN @ |-> IF k < Len(SysCommands) THEN [NoItem EXCEPT !.id = SysCommands[k + 1], !.text = TRUE] ELSE NoItem]]
RevertKeeps(w, revert) ==
    IF revert THEN /\ menu' = IF u32_menu_idx(wsys[w]) THEN [menu EXCEPT ![wsys[w]].used = FALSE] ELSE menu
                   /\ UNCHANGED <<wmenu, wsys, mine>>
    ELSE /\ wsys[w] = NoMenu
         /\ menu' = IF FreeMenu = NoMenu THEN menu ELSE [menu EXCEPT ![FreeMenu] = SysMenu]
         /\ wsys' = [wsys EXCEPT ![w] = FreeMenu]
         /\ UNCHANGED <<wmenu, mine>>
GetSystemMenu(w, revert) ==
    IF revert THEN /\ menu' = IF u32_menu_idx(wsys[w]) THEN [menu EXCEPT ![wsys[w]].used = FALSE] ELSE menu
                   /\ wsys' = [wsys EXCEPT ![w] = NoMenu]
                   /\ UNCHANGED <<wmenu, mine>>
    ELSE /\ wsys[w] = NoMenu
         /\ menu' = IF FreeMenu = NoMenu THEN menu ELSE [menu EXCEPT ![FreeMenu] = SysMenu]
         /\ wsys' = [wsys EXCEPT ![w] = FreeMenu]
         /\ UNCHANGED <<wmenu, mine>>

-----------------------------------------------------------------------------
(* A program that changes its own menus and its windows' system menus, and     *)
(* destroys no menu another one shows.                                         *)
Shown == {GetSubMenu(m, p) : m \in MenuIds, p \in 0..(MItemMax - 1)} \cup {wmenu[w] : w \in MenuWindows}
MenuLife == CreateMenu \/ \E m \in mine \ Shown : DestroyMenu(m)
Editable == mine \cup ({wsys[w] : w \in MenuWindows} \ {NoMenu})
\* Editing one menu with every operation, while the others only grow.
MenuEdits(ids) ==
    \/ MenuLife
    \/ \E m \in mine \ {1} : AppendMenuA(m, {}, 1)
    \/ \E m \in mine \cap {1}, id \in ids :
          \/ InsertMenuA(m, 0, "position", {}, id) \/ InsertMenuA(m, id, "command", {}, id)
          \/ DeleteMenu(m, 0, "position") \/ DeleteMenu(m, id, "command")
          \/ CheckMenuItem(m, id, "command", TRUE) \/ ModifyMenuA(m, 1, "position", {"SEPARATOR"}, id)
\* Pop-up menus, menu bars and system menus coming and going.
MenuBars ==
    \/ MenuLife
    \/ \E m, s \in mine : m < s /\ menu[m].count = 0 /\ AppendMenuA(m, {"POPUP"}, s)
    \/ \E m \in Editable : DeleteMenu(m, 0, "position") \/ EnableMenuItem(m, 0, "position", FALSE)
    \/ \E w \in MenuWindows : (\E r \in BOOLEAN : GetSystemMenu(w, r)) \/ \E m \in mine \cup {NoMenu} : SetMenu(w, m)

\* Any program that edits what it created or its windows' system menus.
MenuNext ==
    \/ MenuLife
    \/ \E m \in Editable, item \in Nat, how \in {"position", "command"}, flags \in SUBSET {"POPUP", "SEPARATOR", "GRAYED", "CHECKED"}, id \in Nat :
          \/ AppendMenuA(m, flags, id) \/ InsertMenuA(m, item, how, flags, id) \/ DeleteMenu(m, item, how)
          \/ ModifyMenuA(m, item, how, flags, id)
          \/ \E on \in BOOLEAN : EnableMenuItem(m, item, how, on) \/ CheckMenuItem(m, item, how, on)
    \/ \E w \in MenuWindows : (\E r \in BOOLEAN : GetSystemMenu(w, r)) \/ \E m \in MenuIds \cup {NoMenu} : SetMenu(w, m)

\* A menu is the list of its items: inserting in the middle moves the later ones up unchanged,
\* deleting moves them down, and no other menu sees the change.
MenuItems(b) == [k \in 1..(IF b.used THEN b.count ELSE 0) |-> b.it[k - 1]]
MenuSeqs == [m \in MenuIds |-> MenuItems(menu[m])]
MenuLists == INSTANCE ItemLists WITH lists <- MenuSeqs
MenuIsList == MenuLists!Spec
\* A window's system menu is a menu of its own: no menu of the program's, no other window's.
SysMenuOwn == \A w \in MenuWindows : wsys[w] # NoMenu =>
                  menu[wsys[w]].used /\ wsys[w] \notin mine /\ \A v \in MenuWindows \ {w} : wsys[v] # wsys[w]

-----------------------------------------------------------------------------
(***************************************************************************)
(* The predefined controls' own state: the strings and the selection of list   *)
(* boxes and combo boxes, in an array that doubles, and the check state of     *)
(* buttons with what a click does to it.  Fonts and painting are left out.     *)
(***************************************************************************)

CONSTANTS ListBoxes,       \* list boxes and combo boxes
          ItemTexts,    \* item texts
          FirstCap,     \* the first capacity of the array
          Oom,          \* what memory may run out for: "none", "array", "string"
          BoxMax,       \* bound on items
          Buttons,      \* buttons
          BsType,       \* their types: "check", "three", "radio"
          BsParent      \* their parents
ASSUME ListAssumption == FirstCap \in Nat \ {0} /\ Oom \subseteq {"none", "array", "string"}
ASSUME ButtonAssumption == BsType \in [Buttons -> {"check", "three", "radio"}]

VARIABLES box, check,
          told          \* the button whose click the parent was told last
ctrlVars == <<box, check, told>>
NoBox == [items |-> <<>>, count |-> 0, cap |-> 0, sel |-> -1]
CtrlInit == box = [b \in ListBoxes |-> NoBox] /\ check = [b \in Buttons |-> 0] /\ told = {}

-----------------------------------------------------------------------------
(* Items.                                                                      *)
u32_items_free(b) == [box EXCEPT ![b] = NoBox]
\* The array, doubled when full; what lies beyond count is whatever was there.
Grown(x) == IF x.count < x.cap THEN x
            ELSE LET nc == IF x.cap = 0 THEN FirstCap ELSE 2 * x.cap
                 IN  [x EXCEPT !.cap = nc, !.items = [k \in 0..(nc - 1) |-> IF k < x.cap THEN x.items[k] ELSE ""]]
u32_items_insert(x0, pos0, s) ==
    LET x == Grown(x0)
        n == x.count
        pos == IF pos0 \in 0..n THEN pos0 ELSE n
    IN  [x EXCEPT !.items = [ShiftUp(@, pos, n) EXCEPT ![pos] = s], !.count = n + 1]
u32_items_get(b, i) == IF i \in 0..(box[b].count - 1) THEN box[b].items[i] ELSE ""
\* The list-box and combo-box messages that change the items.  Memory may run out for the array, or
\* for the string, once the later items have moved.
ShiftedOnly(x, pos) == [u32_items_insert(x, pos, IF pos < x.count THEN x.items[pos] ELSE "") EXCEPT !.count = x.count]
AddString(b, pos, s, fails) ==
    /\ box[b].count < BoxMax
    /\ box' = [box EXCEPT ![b] = CASE fails = "none" -> u32_items_insert(@, pos, s) [] fails = "array" -> @ [] fails = "string" -> ShiftedOnly(Grown(@), pos)]
    /\ fails = "array" => box[b].count = box[b].cap
    /\ UNCHANGED <<check, told>>
DeleteKeepsCount(b, i) ==
    /\ i \in 0..(box[b].count - 1)
    /\ box' = [box EXCEPT ![b].items = [k \in DOMAIN @ |-> IF k \in i..(box[b].count - 2) THEN @[k + 1] ELSE @[k]]]
    /\ UNCHANGED <<check, told>>
DeleteString(b, i) ==
    /\ i \in 0..(box[b].count - 1)
    /\ box' = [box EXCEPT ![b].items = [k \in DOMAIN @ |-> IF k \in i..(box[b].count - 2) THEN @[k + 1] ELSE @[k]],
                          ![b].count = @ - 1]
    /\ UNCHANGED <<check, told>>
ResetContent(b) == box' = u32_items_free(b) /\ UNCHANGED <<check, told>>
SetCurSel(b, i) == box' = [box EXCEPT ![b].sel = i] /\ UNCHANGED <<check, told>>

-----------------------------------------------------------------------------
(* Buttons.                                                                    *)
SetCheck(b, v) == check' = [check EXCEPT ![b] = v] /\ told' = {} /\ UNCHANGED box
ClickKeepsSiblings(b) ==
    /\ check' = CASE BsType[b] = "check" -> [check EXCEPT ![b] = IF @ # 0 THEN 0 ELSE 1]
                  [] BsType[b] = "three" -> [check EXCEPT ![b] = (@ + 1) % 3]
                  [] BsType[b] = "radio" -> [check EXCEPT ![b] = 1]
    /\ told' = {b} /\ UNCHANGED box
u32_ctrl_click(b) ==
    /\ check' = CASE BsType[b] = "check" -> [check EXCEPT ![b] = IF @ # 0 THEN 0 ELSE 1]
                  [] BsType[b] = "three" -> [check EXCEPT ![b] = (@ + 1) % 3]
                  [] BsType[b] = "radio" -> [k \in Buttons |-> IF k = b THEN 1 ELSE IF BsType[k] = "radio" /\ BsParent[k] = BsParent[b] THEN 0 ELSE check[k]]
    /\ told' = {b} /\ UNCHANGED box
CtrlOps ==
    \/ \E b \in ListBoxes, i \in 0..BoxMax, s \in ItemTexts, f \in Oom : AddString(b, i, s, f)
    \/ \E b \in ListBoxes, i \in 0..BoxMax : DeleteString(b, i)
    \/ \E b \in ListBoxes : ResetContent(b) \/ SetCurSel(b, 0)
Checked(b) == {k \in Buttons : BsType[k] = "radio" /\ BsParent[k] = BsParent[b] /\ check[k] # 0}
\* A program sets a radio button by hand only while none of its group is set.
ButtonOps == \E b \in Buttons : u32_ctrl_click(b) \/ SetCheck(b, 0) \/ (Checked(b) = {} /\ SetCheck(b, 1))

\* Menus and controls side by side.
ControlsSpec ==
    /\ MenusInit /\ CtrlInit
    /\ [][(MenuNext /\ UNCHANGED ctrlVars) \/ ((CtrlOps \/ ButtonOps) /\ UNCHANGED menuVars)]_<<menuVars, ctrlVars>>

\* A list box is the list of its strings, whatever the array behind it grew and shifted.
BoxItems(x) == [k \in 1..x.count |-> x.items[k - 1]]
BoxSeqs == [b \in ListBoxes |-> BoxItems(box[b])]
BoxLists == INSTANCE ItemLists WITH lists <- BoxSeqs
BoxIsList == BoxLists!Spec
\* Of the automatic radio buttons of one parent at most one is checked, whatever is clicked and
\* cleared.
RadioAtMostOne == \A b \in Buttons : Cardinality(Checked(b)) <= 1

-----------------------------------------------------------------------------
(***************************************************************************)
(* Image lists: equal tiles kept one after another in one block of pixels that *)
(* grows by doubling.  A tile is one row high; the other rows are handled like *)
(* the first.                                                                  *)
(***************************************************************************)

CONSTANTS Imls,         \* image lists
          ImlCx,        \* their tiles' width
          ImlCap,       \* the capacity a program asks for
          Sources,      \* bitmaps a program adds: sequences of pixels
          ImlMax        \* bound on tiles
ASSUME ImlAssumption == ImlCx \in Nat \ {0} /\ ImlCap \in Int /\ Sources \subseteq Seq(Nat)
VARIABLES iml
NoIml == [used |-> FALSE, count |-> 0, cap |-> 0, bits |-> <<>>]
ImlInit == iml = [m \in Imls |-> NoIml]
Blank(cap) == [k \in 0..(cap * ImlCx - 1) |-> 0]
iml_px(m, img, x) == m.bits[img * ImlCx + x]
GrowBlank(m, need) ==
    IF need <= m.cap THEN m
    ELSE LET nc == IF 2 * m.cap < need THEN need ELSE 2 * m.cap IN [m EXCEPT !.cap = nc, !.bits = Blank(nc)]
iml_grow(m, need) ==
    IF need <= m.cap THEN m
    ELSE LET nc == IF 2 * m.cap < need THEN need ELSE 2 * m.cap
         IN  [m EXCEPT !.cap = nc, !.bits = [k \in DOMAIN Blank(nc) |-> IF k < m.count * ImlCx THEN m.bits[k] ELSE 0]]
ImageList_Create(i) ==
    /\ ~iml[i].used
    /\ iml' = [iml EXCEPT ![i] = [used |-> TRUE, count |-> 0, cap |-> IF ImlCap > 0 THEN ImlCap ELSE 4, bits |-> Blank(IF ImlCap > 0 THEN ImlCap ELSE 4)]]
\* The tiles of a bitmap, at least one; what lies outside it is black.
iml_add(i, src) ==
    LET n == IF Len(src) \div ImlCx < 1 THEN 1 ELSE Len(src) \div ImlCx
        m == iml_grow(iml[i], iml[i].count + n)
        first == m.count
        put == [k \in DOMAIN m.bits |->
                   LET j == k - first * ImlCx
                   IN  IF j \in 0..(n * ImlCx - 1) THEN IF j < Len(src) THEN src[j + 1] ELSE 0 ELSE m.bits[k]]
    IN  /\ iml[i].used /\ iml[i].count + n <= ImlMax
        /\ iml' = [iml EXCEPT ![i] = [m EXCEPT !.bits = put, !.count = first + n]]
ImageList_Add(i, src) == iml_add(i, src)
ImageList_AddMasked(i, src) == iml_add(i, src)
\* What drawing image k of list i puts on a surface, left to right.
ImageList_Draw(i, k) == IF k < iml[i].count THEN [x \in 1..ImlCx |-> iml_px(iml[i], k, x - 1)] ELSE <<>>
ImageList_Destroy(i) == iml[i].used /\ iml' = [iml EXCEPT ![i].used = FALSE]
ImlOps == \E i \in Imls : ImageList_Create(i) \/ ImageList_Destroy(i) \/ \E s \in Sources : ImageList_Add(i, s)
ImlSpec == ImlInit /\ [][ImlOps]_iml

\* What is drawn for an image never changes while its list lives, however often the block behind
\* it is reallocated and whatever is added later.
ImlSeqs == [i \in Imls |-> [k \in 1..(IF iml[i].used THEN iml[i].count ELSE 0) |-> ImageList_Draw(i, k - 1)]]
ImlLists == INSTANCE ItemLists WITH lists <- ImlSeqs
ImagesKept == ImlLists!Spec

\* Menus, list boxes and image lists are lists: whatever is shifted, grown or refused, what each
\* stores changes as the list its calls describe.
ListsKept == MenuIsList /\ BoxIsList /\ ImagesKept
\* Controls stay consistent: a window's system menu is its own, and at most one button of a radio
\* group is checked.
ControlsSound == SysMenuOwn /\ RadioAtMostOne
=============================================================================
