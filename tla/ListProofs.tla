------------------------------- MODULE ListProofs -------------------------------
(***************************************************************************)
(* Proofs about menus, buttons, list boxes and image lists: a system menu   *)
(* has one owner, one radio button of a group is checked, and each of the   *)
(* three arrays is the abstract list its calls describe.                    *)
(*                                                                          *)
(* The shifts of the arrays are functions defined by recursion on an index. *)
(* That they exist, and what they leave, is shown with the least index at   *)
(* which it would fail.                                                     *)
(***************************************************************************)
EXTENDS ListItems, FiniteSetTheorems, WellFoundedInduction, SequenceTheorems, TLAPS

LEMMA LeastNat == ASSUME NEW S, S \subseteq Nat, S # {} PROVE \E i \in S : \A j \in S : i <= j
  <1>1. PICK i \in S : \A j \in S : ~(<<j, i>> \in OpToRel(<, Nat))
    BY WFMin, NatLessThanWellFounded, Zenon
  <1>2. \A j \in S : ~(j < i)  BY <1>1 DEF OpToRel
  <1> QED BY <1>2

-----------------------------------------------------------------------------
(* Menus and buttons.                                                         *)
Shaped(b) == DOMAIN b = {"used", "count", "it"} /\ b.used \in BOOLEAN
MenuInv == /\ DOMAIN menu = MenuIds /\ \A m \in MenuIds : Shaped(menu[m])
           /\ DOMAIN wsys = MenuWindows
           /\ \A m \in mine : m \in MenuIds /\ menu[m].used
           /\ \A w \in MenuWindows : wsys[w] # NoMenu =>
                 wsys[w] \in MenuIds /\ menu[wsys[w]].used /\ wsys[w] \notin mine
           /\ \A w, v \in MenuWindows : wsys[w] # NoMenu /\ wsys[w] = wsys[v] => w = v
\* Of two checked radio buttons of one parent, one is the other.
RadioInv == /\ DOMAIN check = Buttons
            /\ \A a, b \in Buttons : BsType[a] = "radio" /\ BsType[b] = "radio" /\ BsParent[a] = BsParent[b]
                                     /\ check[a] # 0 /\ check[b] # 0 => a = b

LEMMA MenuIdsNat == MenuIds \subseteq Nat /\ NoMenu \notin MenuIds
  BY MenuAssumption DEF MenuIds, NoMenu
LEMMA FreeMenuFree == FreeMenu = NoMenu \/ (FreeMenu \in MenuIds /\ ~menu[FreeMenu].used)
  <1> SUFFICES ASSUME ~(\A m \in MenuIds : menu[m].used) PROVE FreeMenu \in MenuIds /\ ~menu[FreeMenu].used
    BY DEF FreeMenu
  <1>1. PICK i \in {m \in MenuIds : ~menu[m].used} : \A j \in {m \in MenuIds : ~menu[m].used} : i <= j
    BY MenuIdsNat, LeastNat
  <1>2. \E m \in MenuIds : ~menu[m].used /\ \A k \in MenuIds : ~menu[k].used => m <= k  BY <1>1
  <1>3. FreeMenu = CHOOSE m \in MenuIds : ~menu[m].used /\ \A k \in MenuIds : ~menu[k].used => m <= k  BY DEF FreeMenu
  <1> QED BY <1>2, <1>3
\* Writing a menu that stays used keeps the invariant: all the editing calls.
LEMMA ChangeKeeps == ASSUME MenuInv, NEW m \in MenuIds, NEW b, Shaped(b), b.used = menu[m].used, Change(m, b) PROVE MenuInv'
  <1>1. \A k \in MenuIds : menu'[k] = IF k = m THEN b ELSE menu[k]  BY DEF Change, MenuInv
  <1>2. DOMAIN menu' = MenuIds /\ UNCHANGED <<wsys, mine>>  BY DEF Change, MenuInv
  <1>3. \A k \in MenuIds : Shaped(menu'[k]) /\ menu'[k].used = menu[k].used  BY <1>1 DEF MenuInv
  <1> QED BY <1>2, <1>3 DEF MenuInv, Shaped
LEMMA SetItemShaped == ASSUME NEW b, Shaped(b), NEW i, NEW f, NEW d
    PROVE Shaped(u32_menu_setitem(b, i, f, d)) /\ u32_menu_setitem(b, i, f, d).used = b.used
  BY DEF u32_menu_setitem, Shaped
LEMMA EditableId == ASSUME MenuInv, NEW m \in Editable PROVE m \in MenuIds /\ Shaped(menu[m])
  BY MenuIdsNat DEF MenuInv, Editable
LEMMA EditKeeps == ASSUME MenuInv, NEW m \in Editable, NEW item \in Nat, NEW how, NEW flags, NEW id,
        \/ AppendMenuA(m, flags, id) \/ InsertMenuA(m, item, how, flags, id) \/ DeleteMenu(m, item, how)
        \/ ModifyMenuA(m, item, how, flags, id)
        \/ \E on \in BOOLEAN : EnableMenuItem(m, item, how, on) \/ CheckMenuItem(m, item, how, on)
    PROVE MenuInv'
  <1>0. m \in MenuIds /\ Shaped(menu[m])  BY EditableId
  <1>1. CASE AppendMenuA(m, flags, id)
    <2>1. PICK b : b = [menu[m] EXCEPT !.count = @ + 1]  OBVIOUS
    <2>2. Shaped(b) /\ b.used = menu[m].used  BY <1>0, <2>1 DEF Shaped
    <2> QED BY <1>0, <1>1, <2>1, <2>2, SetItemShaped, ChangeKeeps DEF AppendMenuA
  <1>2. CASE InsertMenuA(m, item, how, flags, id)
    <2>1. PICK at, it : Change(m, u32_menu_setitem([menu[m] EXCEPT !.it = it, !.count = @ + 1], at, flags, id))
      BY <1>2 DEF InsertMenuA
    <2>2. PICK b : b = [menu[m] EXCEPT !.it = it, !.count = @ + 1]  OBVIOUS
    <2>3. Shaped(b) /\ b.used = menu[m].used  BY <1>0, <2>2 DEF Shaped
    <2> QED BY <1>0, <2>1, <2>2, <2>3, SetItemShaped, ChangeKeeps
  <1>3. CASE DeleteMenu(m, item, how)
    <2>1. PICK it : Change(m, [menu[m] EXCEPT !.it = it, !.count = @ - 1])
      BY <1>3 DEF DeleteMenu
    <2>2. PICK b : b = [menu[m] EXCEPT !.it = it, !.count = @ - 1]  OBVIOUS
    <2>3. Shaped(b) /\ b.used = menu[m].used  BY <1>0, <2>2 DEF Shaped
    <2> QED BY <1>0, <2>1, <2>2, <2>3, ChangeKeeps
  <1>4. CASE ModifyMenuA(m, item, how, flags, id)
    BY <1>0, <1>4, SetItemShaped, ChangeKeeps DEF ModifyMenuA
  <1>5. ASSUME NEW flag, NEW on, SetFlag(m, item, how, flag, on) PROVE MenuInv'
    <2>1. PICK b : b = [menu[m] EXCEPT !.it[u32_menu_find(menu[m], item, how)].flags = IF on THEN @ \cup {flag} ELSE @ \ {flag}]  OBVIOUS
    <2>2. Shaped(b) /\ b.used = menu[m].used  BY <1>0, <2>1 DEF Shaped
    <2> QED BY <1>0, <1>5, <2>1, <2>2, ChangeKeeps DEF SetFlag
  <1> QED BY <1>1, <1>2, <1>3, <1>4, <1>5 DEF EnableMenuItem, CheckMenuItem
LEMMA SystemKeeps == ASSUME MenuInv, NEW w \in MenuWindows, NEW r \in BOOLEAN, GetSystemMenu(w, r) PROVE MenuInv'
  <1>1. CASE r
    <2>1. DOMAIN wsys' = MenuWindows /\ mine' = mine /\ \A v \in MenuWindows : wsys'[v] = IF v = w THEN NoMenu ELSE wsys[v]
      BY <1>1 DEF GetSystemMenu, MenuInv
    <2>2. menu' = IF u32_menu_idx(wsys[w]) THEN [menu EXCEPT ![wsys[w]].used = FALSE] ELSE menu
      BY <1>1 DEF GetSystemMenu
    <2>3. DOMAIN menu' = MenuIds /\ \A m \in MenuIds : Shaped(menu'[m]) /\ (m # wsys[w] => menu'[m] = menu[m])
      BY <2>2 DEF MenuInv, Shaped
    <2>4. \A m \in mine : m # wsys[w]  BY MenuIdsNat DEF MenuInv
    <2>5. \A v \in MenuWindows : wsys'[v] # NoMenu => wsys'[v] = wsys[v] /\ wsys[v] # wsys[w]  BY <2>1 DEF MenuInv
    <2> QED BY <2>1, <2>3, <2>4, <2>5 DEF MenuInv
  <1>2. CASE ~r
    <2>1. PICK f : f = FreeMenu  OBVIOUS
    <2>2. f = NoMenu \/ (f \in MenuIds /\ ~menu[f].used)  BY <2>1, FreeMenuFree
    <2>3. /\ wsys[w] = NoMenu /\ mine' = mine
          /\ menu' = IF f = NoMenu THEN menu ELSE [menu EXCEPT ![f] = SysMenu]
          /\ wsys' = [wsys EXCEPT ![w] = f]
      BY <1>2, <2>1 DEF GetSystemMenu
    <2>4. Shaped(SysMenu) /\ SysMenu.used  BY DEF SysMenu, EmptyMenu, Shaped
    <2>5. DOMAIN menu' = MenuIds /\ \A m \in MenuIds : Shaped(menu'[m]) /\ (m # f => menu'[m] = menu[m]) /\ (m = f => menu'[m].used)
      BY <2>2, <2>3, <2>4, MenuIdsNat DEF MenuInv
    <2>6. DOMAIN wsys' = MenuWindows /\ \A v \in MenuWindows : wsys'[v] = IF v = w THEN f ELSE wsys[v]
      BY <2>3 DEF MenuInv
    <2>7. \A m \in mine : m # f  BY <2>2, MenuIdsNat DEF MenuInv
    <2>8. \A v \in MenuWindows : wsys[v] # NoMenu => wsys[v] # f  BY <2>2, MenuIdsNat DEF MenuInv
    <2> QED BY <2>2, <2>3, <2>5, <2>6, <2>7, <2>8 DEF MenuInv
  <1> QED BY <1>1, <1>2
LEMMA MenuStep == ASSUME MenuInv, MenuNext PROVE MenuInv'
  <1>1. CASE CreateMenu
    <2>1. PICK f : f = FreeMenu  OBVIOUS
    <2>2. f = NoMenu \/ (f \in MenuIds /\ ~menu[f].used)  BY <2>1, FreeMenuFree
    <2>3. /\ menu' = IF f = NoMenu THEN menu ELSE [menu EXCEPT ![f] = EmptyMenu]
          /\ mine' = mine \cup ({f} \ {NoMenu}) /\ wsys' = wsys
      BY <1>1, <2>1 DEF CreateMenu, u32_menu_new
    <2>4. Shaped(EmptyMenu) /\ EmptyMenu.used  BY DEF EmptyMenu, Shaped
    <2>5. DOMAIN menu' = MenuIds /\ \A m \in MenuIds : Shaped(menu'[m]) /\ (m # f => menu'[m] = menu[m]) /\ (m = f => menu'[m].used)
      BY <2>2, <2>3, <2>4, MenuIdsNat DEF MenuInv
    <2>8. \A v \in MenuWindows : wsys[v] # NoMenu => wsys[v] # f  BY <2>2, MenuIdsNat DEF MenuInv
    <2> QED BY <2>2, <2>3, <2>5, <2>8 DEF MenuInv
  <1>2. ASSUME NEW m \in mine, DestroyMenu(m) PROVE MenuInv'
    <2>1. m \in MenuIds /\ menu' = [menu EXCEPT ![m].used = FALSE] /\ mine' = mine \ {m} /\ wsys' = wsys
      BY <1>2 DEF DestroyMenu, MenuInv
    <2>2. DOMAIN menu' = MenuIds /\ \A k \in MenuIds : Shaped(menu'[k]) /\ (k # m => menu'[k] = menu[k])
      BY <2>1 DEF MenuInv, Shaped
    <2>3. \A v \in MenuWindows : wsys[v] # NoMenu => wsys[v] # m  BY <1>2 DEF MenuInv
    <2> QED BY <2>1, <2>2, <2>3 DEF MenuInv
  <1>3. ASSUME NEW w, NEW m, SetMenu(w, m) PROVE MenuInv'
    BY <1>3 DEF SetMenu, MenuInv, Shaped
  <1> QED BY <1>1, <1>2, <1>3, EditKeeps, SystemKeeps DEF MenuNext, MenuLife

LEMMA RadioStep == ASSUME RadioInv, CtrlOps \/ ButtonOps PROVE RadioInv'
  <1>1. CASE UNCHANGED check  BY <1>1 DEF RadioInv
  <1>2. ASSUME NEW b \in Buttons, u32_ctrl_click(b), BsType[b] # "radio" PROVE RadioInv'
    <2>1. PICK v : check' = [check EXCEPT ![b] = v]  BY <1>2, ButtonAssumption DEF u32_ctrl_click
    <2>2. DOMAIN check' = Buttons /\ \A k \in Buttons : k # b => check'[k] = check[k]  BY <2>1 DEF RadioInv
    <2> QED BY <1>2, <2>2 DEF RadioInv
  <1>3. ASSUME NEW b \in Buttons, u32_ctrl_click(b), BsType[b] = "radio" PROVE RadioInv'
    <2>1. check' = [k \in Buttons |-> IF k = b THEN 1 ELSE IF BsType[k] = "radio" /\ BsParent[k] = BsParent[b] THEN 0 ELSE check[k]]
      BY <1>3 DEF u32_ctrl_click
    <2> QED BY <1>3, <2>1 DEF RadioInv
  <1>4. ASSUME NEW b \in Buttons, SetCheck(b, 0) PROVE RadioInv'
    BY <1>4 DEF SetCheck, RadioInv
  <1>5. ASSUME NEW b \in Buttons, Checked(b) = {}, SetCheck(b, 1) PROVE RadioInv'
    <2>1. DOMAIN check' = Buttons /\ \A k \in Buttons : check'[k] = IF k = b THEN 1 ELSE check[k]  BY <1>5 DEF SetCheck, RadioInv
    <2>2. \A k \in Buttons : BsType[k] = "radio" /\ BsParent[k] = BsParent[b] => check[k] = 0  BY <1>5 DEF Checked
    <2> QED BY <2>1, <2>2 DEF RadioInv
  <1>6. CtrlOps => UNCHANGED check
    BY DEF CtrlOps, AddString, DeleteString, ResetContent, SetCurSel
  <1> QED BY <1>1, <1>2, <1>3, <1>4, <1>5, <1>6 DEF ButtonOps

\* Whatever menus a program creates, edits, destroys and asks of its windows, in tables of any size,
\* a window's system menu stays its own; and clicks leave at most one radio button of a parent set.
THEOREM ControlsAreSound == ControlsSpec => []ControlsSound
  <1>1. MenusInit /\ CtrlInit => MenuInv /\ RadioInv
    <2>1. PICK e : e = [EmptyMenu EXCEPT !.used = FALSE]  OBVIOUS
    <2>2. Shaped(e)  BY <2>1 DEF Shaped, EmptyMenu
    <2>3. MenusInit => MenuInv  BY <2>1, <2>2 DEF MenusInit, MenuInv
    <2>4. CtrlInit => RadioInv  BY DEF CtrlInit, RadioInv
    <2> QED BY <2>3, <2>4
  <1>2. MenuInv /\ RadioInv /\ [(MenuNext /\ UNCHANGED ctrlVars) \/ ((CtrlOps \/ ButtonOps) /\ UNCHANGED menuVars)]_<<menuVars, ctrlVars>>
           => (MenuInv /\ RadioInv)'
    <2>1. MenuInv /\ UNCHANGED menuVars => MenuInv'  BY DEF MenuInv, menuVars, Shaped
    <2>2. RadioInv /\ UNCHANGED ctrlVars => RadioInv'  BY DEF RadioInv, ctrlVars
    <2>3. UNCHANGED <<menuVars, ctrlVars>> => UNCHANGED menuVars /\ UNCHANGED ctrlVars  OBVIOUS
    <2>4. MenuInv /\ MenuNext => MenuInv'  BY MenuStep
    <2>5. RadioInv /\ (CtrlOps \/ ButtonOps) => RadioInv'  BY RadioStep
    <2> QED BY <2>1, <2>2, <2>3, <2>4, <2>5
  <1>3. MenuInv /\ RadioInv => ControlsSound
    <2> SUFFICES ASSUME MenuInv, RadioInv PROVE ControlsSound  OBVIOUS
    <2>1. SysMenuOwn  BY DEF MenuInv, SysMenuOwn
    <2>2. ASSUME NEW b \in Buttons PROVE Cardinality(Checked(b)) <= 1
      <3>1. CASE Checked(b) = {}  BY <3>1, FS_EmptySet
      <3>2. ASSUME NEW k \in Checked(b) PROVE Cardinality(Checked(b)) <= 1
        <4>1. Checked(b) = {k}  BY <3>2 DEF Checked, RadioInv
        <4> QED BY <4>1, FS_Singleton
      <3> QED BY <3>1, <3>2
    <2> QED BY <2>1, <2>2 DEF ControlsSound, RadioAtMostOne
  <1> QED BY <1>1, <1>2, <1>3, PTL DEF ControlsSpec

-----------------------------------------------------------------------------
(* Sequences that differ by one step of a list.                              *)
\* A sequence of length n.
Seqn(s, n) == n \in Nat /\ s = [k \in 1..n |-> s[k]]
InsertedIn(s, t) == Len(t) = Len(s) + 1 /\ \E i \in DOMAIN t : SubSeq(t, 1, i - 1) \o SubSeq(t, i + 1, Len(t)) = s
ReplacedIn(s, t) == Len(t) = Len(s) /\ \E i \in DOMAIN t : [t EXCEPT ![i] = s[i]] = s
PrefixOf(s, t) == Len(s) <= Len(t) /\ SubSeq(s, 1, Len(s)) = SubSeq(t, 1, Len(s))
ListStep(s, t) == InsertedIn(s, t) \/ InsertedIn(t, s) \/ ReplacedIn(s, t) \/ PrefixOf(s, t) \/ t = <<>>
LEMMA SeqnSeq == ASSUME NEW n, NEW s, Seqn(s, n), NEW S, \A k \in 1..n : s[k] \in S
    PROVE s \in Seq(S) /\ Len(s) = n /\ DOMAIN s = 1..n
  <1>1. n \in Nat /\ s = [k \in 1..n |-> s[k]]  BY DEF Seqn
  <1>2. s \in [1..n -> S]  BY <1>1
  <1>3. s \in Seq(S) /\ DOMAIN s = 1..n  BY <1>1, <1>2
  <1>4. Len(s) \in Nat /\ DOMAIN s = 1..Len(s)  BY <1>3, LenProperties
  <1> QED BY <1>1, <1>3, <1>4
LEMMA Inserted == ASSUME NEW n, NEW s, Seqn(s, n), NEW t, Seqn(t, n + 1), NEW i \in 1..(n + 1),
                         \A j \in 1..n : s[j] = IF j < i THEN t[j] ELSE t[j + 1]
    PROVE InsertedIn(s, t)
  <1>1. PICK S : S = {t[k] : k \in 1..(n + 1)}  OBVIOUS
  <1>2. n \in Nat  BY DEF Seqn
  <1>3. t \in Seq(S) /\ Len(t) = n + 1 /\ DOMAIN t = 1..(n + 1)  BY <1>1, SeqnSeq
  <1>4. \A k \in 1..n : s[k] \in S
    <2>1. ASSUME NEW k \in 1..n PROVE s[k] \in S
      <3>1. k \in 1..(n + 1) /\ k + 1 \in 1..(n + 1)  BY <1>2
      <3> QED BY <3>1, <1>1
    <2> QED BY <2>1
  <1>5. s \in Seq(S) /\ Len(s) = n  BY <1>4, SeqnSeq
  <1>6. PICK a, b : a = SubSeq(t, 1, i - 1) /\ b = SubSeq(t, i + 1, n + 1)  OBVIOUS
  <1>7. a \in Seq(S) /\ Len(a) = i - 1 /\ \A j \in 1..(i - 1) : a[j] = t[j]
    <2>1. \A k \in 1..(i - 1) : t[k] \in S  BY <1>1, <1>2
    <2>2. i - 1 \in Int /\ 1 \in Int  BY <1>2
    <2>3. /\ SubSeq(t, 1, i - 1) \in Seq(S) /\ Len(SubSeq(t, 1, i - 1)) = (IF 1 <= i - 1 THEN (i - 1) - 1 + 1 ELSE 0)
          /\ \A k \in 1..((i - 1) - 1 + 1) : SubSeq(t, 1, i - 1)[k] = t[1 + k - 1]
      BY <2>1, <2>2, SubSeqProperties
    <2> QED BY <2>3, <1>2, <1>6
  <1>8. b \in Seq(S) /\ Len(b) = n + 1 - i /\ \A j \in 1..(n + 1 - i) : b[j] = t[i + j]
    <2>1. \A k \in (i + 1)..(n + 1) : t[k] \in S  BY <1>1, <1>2
    <2>2. i + 1 \in Int /\ n + 1 \in Int  BY <1>2
    <2>3. /\ SubSeq(t, i + 1, n + 1) \in Seq(S) /\ Len(SubSeq(t, i + 1, n + 1)) = (IF i + 1 <= n + 1 THEN (n + 1) - (i + 1) + 1 ELSE 0)
          /\ \A k \in 1..((n + 1) - (i + 1) + 1) : SubSeq(t, i + 1, n + 1)[k] = t[(i + 1) + k - 1]
      BY <2>1, <2>2, SubSeqProperties
    <2>4. \A j \in 1..(n + 1 - i) : b[j] = t[i + j]
      <3>1. ASSUME NEW j \in 1..(n + 1 - i) PROVE b[j] = t[i + j]
        <4>1. j \in 1..((n + 1) - (i + 1) + 1) /\ (i + 1) + j - 1 = i + j  BY <1>2
        <4> QED BY <4>1, <2>3, <1>6
      <3> QED BY <3>1
    <2> QED BY <2>3, <2>4, <1>2, <1>6
  <1>9. PICK c : c = a \o b  OBVIOUS
  <1>10. c \in Seq(S) /\ Len(c) = n /\ \A j \in 1..n : c[j] = IF j <= i - 1 THEN a[j] ELSE b[j - (i - 1)]
    <2>1. c \in Seq(S) /\ Len(c) = Len(a) + Len(b) /\ \A j \in 1..(Len(a) + Len(b)) : c[j] = IF j <= Len(a) THEN a[j] ELSE b[j - Len(a)]
      BY <1>7, <1>8, <1>9, ConcatProperties
    <2>2. Len(a) + Len(b) = n  BY <1>2, <1>7, <1>8
    <2> QED BY <2>1, <2>2, <1>7
  <1>11. \A j \in 1..n : c[j] = s[j]
    <2>1. ASSUME NEW j \in 1..n PROVE c[j] = s[j]
      <3>1. CASE j < i
        <4>1. j \in 1..(i - 1) /\ j <= i - 1  BY <3>1, <1>2
        <4> QED BY <4>1, <3>1, <1>7, <1>10
      <3>2. CASE ~(j < i)
        <4>1. j - (i - 1) \in 1..(n + 1 - i) /\ ~(j <= i - 1) /\ i + (j - (i - 1)) = j + 1  BY <3>2, <1>2
        <4> QED BY <4>1, <3>2, <1>8, <1>10
      <3> QED BY <3>1, <3>2
    <2> QED BY <2>1
  <1>12. c = s  BY <1>5, <1>10, <1>11, SeqEqual
  <1>13. SubSeq(t, 1, i - 1) \o SubSeq(t, i + 1, Len(t)) = s  BY <1>3, <1>6, <1>9, <1>12
  <1> QED BY <1>3, <1>5, <1>13 DEF InsertedIn
LEMMA Replaced == ASSUME NEW n, NEW s, Seqn(s, n), NEW t, Seqn(t, n), NEW i \in 1..n, \A j \in 1..n : j # i => s[j] = t[j]
    PROVE ReplacedIn(s, t)
  <1>1. PICK S : S = {t[k] : k \in 1..n} \cup {s[k] : k \in 1..n}  OBVIOUS
  <1>2. Len(s) = n
    <2>1. \A k \in 1..n : s[k] \in S  BY <1>1
    <2> QED BY <2>1, SeqnSeq
  <1>3. Len(t) = n /\ DOMAIN t = 1..n
    <2>1. \A k \in 1..n : t[k] \in S  BY <1>1
    <2> QED BY <2>1, SeqnSeq
  <1>4. [t EXCEPT ![i] = s[i]] = s
    <2>1. s = [k \in 1..n |-> s[k]] /\ t = [k \in 1..n |-> t[k]]  BY DEF Seqn
    <2> QED BY <2>1
  <1> QED BY <1>2, <1>3, <1>4 DEF ReplacedIn
LEMMA Prefixed == ASSUME NEW n, NEW s, Seqn(s, n), NEW m, NEW t, Seqn(t, m), n <= m, \A j \in 1..n : s[j] = t[j]
    PROVE PrefixOf(s, t)
  <1>1. PICK S : S = {t[k] : k \in 1..m}  OBVIOUS
  <1>2. n \in Nat /\ m \in Nat  BY DEF Seqn
  <1>3. t \in Seq(S) /\ Len(t) = m
    <2>1. \A k \in 1..m : t[k] \in S  BY <1>1
    <2> QED BY <2>1, SeqnSeq
  <1>4. \A k \in 1..n : s[k] \in S
    <2>1. \A k \in 1..n : k \in 1..m  BY <1>2
    <2> QED BY <2>1, <1>1
  <1>5. s \in Seq(S) /\ Len(s) = n  BY <1>4, SeqnSeq
  <1>6. SubSeq(s, 1, n) = s  BY <1>5, SubSeqFull
  <1>7. PICK u : u = SubSeq(t, 1, n)  OBVIOUS
  <1>8. u \in Seq(S) /\ Len(u) = n /\ \A j \in 1..n : u[j] = t[j]
    <2>1. \A k \in 1..n : t[k] \in S  BY <1>4
    <2>2. n \in Int /\ 1 \in Int  BY <1>2
    <2>3. /\ SubSeq(t, 1, n) \in Seq(S) /\ Len(SubSeq(t, 1, n)) = (IF 1 <= n THEN n - 1 + 1 ELSE 0)
          /\ \A k \in 1..(n - 1 + 1) : SubSeq(t, 1, n)[k] = t[1 + k - 1]
      BY <2>1, <2>2, SubSeqProperties
    <2> QED BY <2>3, <1>2, <1>7
  <1>9. u = s  BY <1>5, <1>8, SeqEqual
  <1> QED BY <1>3, <1>5, <1>6, <1>7, <1>9 DEF PrefixOf
\* Arrays after the shifts.
Arr(it, c) == c \in Nat /\ it = [j \in 0..(c - 1) |-> it[j]]
UpBy(it, c, k, n) == [j \in 0..(c - 1) |-> IF k <= j /\ j <= n THEN it[j - 1] ELSE it[j]]
DownBy(it, c, at, k) == [j \in 0..(c - 1) |-> IF at <= j /\ j <= k THEN it[j + 1] ELSE it[j]]
UpIs(g, it, at, n) == g = [k \in (at + 1)..(n + 1) |-> IF k = n + 1 THEN it ELSE [g[k + 1] EXCEPT ![k] = g[k + 1][k - 1]]]
DownIs(g, it, at, n) == g = [k \in (at - 1)..(n - 2) |-> IF k = at - 1 THEN it ELSE [g[k - 1] EXCEPT ![k] = g[k - 1][k + 1]]]
LEMMA UpOne == ASSUME NEW c, NEW it, Arr(it, c), NEW k \in Nat \ {0}, NEW n \in Nat, k <= n, NEW f, f = UpBy(it, c, k + 1, n)
    PROVE [f EXCEPT ![k] = f[k - 1]] = UpBy(it, c, k, n)
  <1>1. c \in Nat  BY DEF Arr
  <1>2. f = [j \in 0..(c - 1) |-> IF k + 1 <= j /\ j <= n THEN it[j - 1] ELSE it[j]]  BY DEF UpBy
  <1>3. PICK g : g = [f EXCEPT ![k] = f[k - 1]]  OBVIOUS
  <1>4. g = [j \in 0..(c - 1) |-> IF j = k THEN f[k - 1] ELSE f[j]]  BY <1>2, <1>3
  <1>5. ASSUME NEW j \in 0..(c - 1) PROVE g[j] = IF k <= j /\ j <= n THEN it[j - 1] ELSE it[j]
    <2>1. CASE j = k
      <3>1. k - 1 \in 0..(c - 1) /\ ~(k + 1 <= k - 1)  BY <1>1, <2>1
      <3>2. f[k - 1] = it[k - 1]  BY <1>2, <3>1
      <3> QED BY <1>4, <2>1, <3>2
    <2>2. CASE j # k
      <3>1. k + 1 <= j <=> k <= j  BY <1>1, <2>2
      <3> QED BY <1>2, <1>4, <2>2, <3>1
    <2> QED BY <2>1, <2>2
  <1>6. g = [j \in 0..(c - 1) |-> IF k <= j /\ j <= n THEN it[j - 1] ELSE it[j]]  BY <1>4, <1>5
  <1> QED BY <1>3, <1>6 DEF UpBy
LEMMA DownOne == ASSUME NEW c, NEW it, Arr(it, c), NEW at \in Nat, NEW k \in Nat, at <= k, k + 1 <= c - 1, NEW f, f = DownBy(it, c, at, k - 1)
    PROVE [f EXCEPT ![k] = f[k + 1]] = DownBy(it, c, at, k)
  <1>1. c \in Nat  BY DEF Arr
  <1>2. f = [j \in 0..(c - 1) |-> IF at <= j /\ j <= k - 1 THEN it[j + 1] ELSE it[j]]  BY DEF DownBy
  <1>3. PICK g : g = [f EXCEPT ![k] = f[k + 1]]  OBVIOUS
  <1>4. g = [j \in 0..(c - 1) |-> IF j = k THEN f[k + 1] ELSE f[j]]  BY <1>2, <1>3
  <1>5. ASSUME NEW j \in 0..(c - 1) PROVE g[j] = IF at <= j /\ j <= k THEN it[j + 1] ELSE it[j]
    <2>1. CASE j = k
      <3>1. k + 1 \in 0..(c - 1) /\ ~(k + 1 <= k - 1)  BY <1>1
      <3>2. f[k + 1] = it[k + 1]  BY <1>2, <3>1
      <3> QED BY <1>4, <2>1, <3>2
    <2>2. CASE j # k
      <3>1. j <= k - 1 <=> j <= k  BY <1>1, <2>2
      <3> QED BY <1>2, <1>4, <2>2, <3>1
    <2> QED BY <2>1, <2>2
  <1>6. g = [j \in 0..(c - 1) |-> IF at <= j /\ j <= k THEN it[j + 1] ELSE it[j]]  BY <1>4, <1>5
  <1> QED BY <1>3, <1>6 DEF DownBy
LEMMA UpEnds == ASSUME NEW c, NEW it, Arr(it, c), NEW n \in Nat, NEW at \in Nat PROVE UpBy(it, c, n + 1, n) = it /\ DownBy(it, c, at, at - 1) = it
  <1>1. \A j \in 0..(c - 1) : ~(n + 1 <= j /\ j <= n) /\ ~(at <= j /\ j <= at - 1)  BY DEF Arr
  <1>2. UpBy(it, c, n + 1, n) = [j \in 0..(c - 1) |-> it[j]]  BY <1>1 DEF UpBy
  <1>3. DownBy(it, c, at, at - 1) = [j \in 0..(c - 1) |-> it[j]]  BY <1>1 DEF DownBy
  <1> QED BY <1>2, <1>3 DEF Arr
LEMMA ShiftUpIs == ASSUME NEW c, NEW it, Arr(it, c), NEW at \in Nat, NEW n \in Nat, at <= n
    PROVE ShiftUp(it, at, n) = UpBy(it, c, at + 1, n)
  <1>1. PICK g : g = [k \in (at + 1)..(n + 1) |-> UpBy(it, c, k, n)]  OBVIOUS
  <1>2. UpIs(g, it, at, n)
    <2>1. ASSUME NEW k \in (at + 1)..(n + 1) PROVE g[k] = IF k = n + 1 THEN it ELSE [g[k + 1] EXCEPT ![k] = g[k + 1][k - 1]]
      <3>1. CASE k = n + 1
        <4>1. g[k] = UpBy(it, c, n + 1, n)  BY <1>1, <2>1, <3>1
        <4> QED BY <3>1, <4>1, UpEnds
      <3>2. CASE k # n + 1
        <4>1. k \in Nat \ {0} /\ k <= n /\ k + 1 \in (at + 1)..(n + 1)  BY <3>2
        <4>2. PICK f : f = g[k + 1]  OBVIOUS
        <4>3. f = UpBy(it, c, k + 1, n)  BY <1>1, <4>1, <4>2
        <4>4. [f EXCEPT ![k] = f[k - 1]] = UpBy(it, c, k, n)  BY <4>1, <4>3, UpOne
        <4> QED BY <1>1, <3>2, <4>2, <4>4
      <3> QED BY <3>1, <3>2
    <2> QED BY <1>1, <2>1 DEF UpIs
  <1>3. \E h : h = [k \in (at + 1)..(n + 1) |-> IF k = n + 1 THEN it ELSE [h[k + 1] EXCEPT ![k] = h[k + 1][k - 1]]]
    BY <1>2, Zenon DEF UpIs
  <1>4. UpFrom(it, at, n) = [k \in (at + 1)..(n + 1) |-> IF k = n + 1 THEN it ELSE [UpFrom(it, at, n)[k + 1] EXCEPT ![k] = UpFrom(it, at, n)[k + 1][k - 1]]]
    BY <1>3, Zenon DEF UpFrom
  <1>5. PICK u : u = UpFrom(it, at, n)  OBVIOUS
  <1>6. u = [k \in (at + 1)..(n + 1) |-> IF k = n + 1 THEN it ELSE [u[k + 1] EXCEPT ![k] = u[k + 1][k - 1]]]  BY <1>4, <1>5
  <1> DEFINE Bad == {d \in 0..(n - at) : u[n + 1 - d] # UpBy(it, c, n + 1 - d, n)}
  <1>7. ASSUME Bad # {} PROVE FALSE
    <2>1. PICK d \in Bad : \A j \in Bad : d <= j
      <3>1. Bad \subseteq Nat  OBVIOUS
      <3> QED BY <3>1, <1>7, LeastNat, Zenon
    <2>2. PICK k : k = n + 1 - d  OBVIOUS
    <2>3. d \in 0..(n - at) /\ k \in (at + 1)..(n + 1) /\ u[k] # UpBy(it, c, k, n)  BY <2>1, <2>2
    <2>4. CASE d = 0
      <3>1. k = n + 1  BY <2>2, <2>4
      <3>2. u[k] = it  BY <1>6, <2>3, <3>1
      <3>3. UpBy(it, c, k, n) = it  BY <3>1, UpEnds
      <3> QED BY <2>3, <3>2, <3>3
    <2>5. CASE d # 0
      <3>1. PICK e : e = d - 1  OBVIOUS
      <3>2. e \in 0..(n - at) /\ ~(d <= e) /\ n + 1 - e = k + 1 /\ k # n + 1 /\ k \in Nat \ {0} /\ k <= n  BY <2>2, <2>3, <2>5, <3>1
      <3>3. e \notin Bad  BY <2>1, <3>2
      <3>4. PICK f : f = u[k + 1]  OBVIOUS
      <3>5. f = UpBy(it, c, k + 1, n)  BY <3>2, <3>3, <3>4
      <3>6. [f EXCEPT ![k] = f[k - 1]] = UpBy(it, c, k, n)  BY <3>2, <3>5, UpOne
      <3>7. u[k] = [f EXCEPT ![k] = f[k - 1]]  BY <1>6, <2>3, <3>2, <3>4
      <3> QED BY <2>3, <3>6, <3>7
    <2> QED BY <2>4, <2>5
  <1>8. u[at + 1] = UpBy(it, c, at + 1, n)
    <2>1. n - at \in 0..(n - at) /\ n + 1 - (n - at) = at + 1  OBVIOUS
    <2>2. n - at \notin Bad  BY <1>7
    <2>3. u[n + 1 - (n - at)] = UpBy(it, c, n + 1 - (n - at), n)  BY <2>1, <2>2
    <2> QED BY <2>1, <2>3
  <1> QED BY <1>5, <1>8 DEF ShiftUp
LEMMA ShiftDownIs == ASSUME NEW c, NEW it, Arr(it, c), NEW at \in Nat, NEW n \in Nat, at < n, n <= c
    PROVE ShiftDown(it, at, n) = DownBy(it, c, at, n - 2)
  <1>1. PICK g : g = [k \in (at - 1)..(n - 2) |-> DownBy(it, c, at, k)]  OBVIOUS
  <1>0. c \in Nat  BY DEF Arr
  <1>2. DownIs(g, it, at, n)
    <2>1. ASSUME NEW k \in (at - 1)..(n - 2) PROVE g[k] = IF k = at - 1 THEN it ELSE [g[k - 1] EXCEPT ![k] = g[k - 1][k + 1]]
      <3>1. CASE k = at - 1
        <4>1. g[k] = DownBy(it, c, at, at - 1)  BY <1>1, <2>1, <3>1
        <4> QED BY <3>1, <4>1, UpEnds
      <3>2. CASE k # at - 1
        <4>1. k \in Nat /\ at <= k /\ k + 1 <= c - 1 /\ k - 1 \in (at - 1)..(n - 2)  BY <3>2, <1>0
        <4>2. PICK f : f = g[k - 1]  OBVIOUS
        <4>3. f = DownBy(it, c, at, k - 1)  BY <1>1, <4>1, <4>2
        <4>4. [f EXCEPT ![k] = f[k + 1]] = DownBy(it, c, at, k)  BY <4>1, <4>3, DownOne
        <4> QED BY <1>1, <3>2, <4>2, <4>4
      <3> QED BY <3>1, <3>2
    <2> QED BY <1>1, <2>1 DEF DownIs
  <1>3. \E h : h = [k \in (at - 1)..(n - 2) |-> IF k = at - 1 THEN it ELSE [h[k - 1] EXCEPT ![k] = h[k - 1][k + 1]]]
    BY <1>2, Zenon DEF DownIs
  <1>4. DownTo(it, at, n) = [k \in (at - 1)..(n - 2) |-> IF k = at - 1 THEN it ELSE [DownTo(it, at, n)[k - 1] EXCEPT ![k] = DownTo(it, at, n)[k - 1][k + 1]]]
    BY <1>3, Zenon DEF DownTo
  <1>5. PICK u : u = DownTo(it, at, n)  OBVIOUS
  <1>6. u = [k \in (at - 1)..(n - 2) |-> IF k = at - 1 THEN it ELSE [u[k - 1] EXCEPT ![k] = u[k - 1][k + 1]]]  BY <1>4, <1>5
  <1> DEFINE Bad == {d \in 0..(n - 1 - at) : u[at - 1 + d] # DownBy(it, c, at, at - 1 + d)}
  <1>7. ASSUME Bad # {} PROVE FALSE
    <2>1. PICK d \in Bad : \A j \in Bad : d <= j
      <3>1. Bad \subseteq Nat  OBVIOUS
      <3> QED BY <3>1, <1>7, LeastNat, Zenon
    <2>2. PICK k : k = at - 1 + d  OBVIOUS
    <2>3. d \in 0..(n - 1 - at) /\ k \in (at - 1)..(n - 2) /\ u[k] # DownBy(it, c, at, k)  BY <2>1, <2>2
    <2>4. CASE d = 0
      <3>1. k = at - 1  BY <2>2, <2>4
      <3>2. u[k] = it  BY <1>6, <2>3, <3>1
      <3>3. DownBy(it, c, at, k) = it  BY <3>1, UpEnds
      <3> QED BY <2>3, <3>2, <3>3
    <2>5. CASE d # 0
      <3>1. PICK e : e = d - 1  OBVIOUS
      <3>2. e \in 0..(n - 1 - at) /\ ~(d <= e) /\ at - 1 + e = k - 1 /\ k # at - 1 /\ k \in Nat /\ at <= k /\ k + 1 <= c - 1
        BY <1>0, <2>2, <2>3, <2>5, <3>1
      <3>3. e \notin Bad  BY <2>1, <3>2
      <3>4. PICK f : f = u[k - 1]  OBVIOUS
      <3>5. f = DownBy(it, c, at, k - 1)  BY <3>2, <3>3, <3>4
      <3>6. [f EXCEPT ![k] = f[k + 1]] = DownBy(it, c, at, k)  BY <3>2, <3>5, DownOne
      <3>7. u[k] = [f EXCEPT ![k] = f[k + 1]]  BY <1>6, <2>3, <3>2, <3>4
      <3> QED BY <2>3, <3>6, <3>7
    <2> QED BY <2>4, <2>5
  <1>8. u[n - 2] = DownBy(it, c, at, n - 2)
    <2>1. PICK d : d = n - 1 - at  OBVIOUS
    <2>2. d \in 0..(n - 1 - at) /\ at - 1 + d = n - 2  BY <2>1
    <2>3. d \notin Bad  BY <1>7
    <2> QED BY <2>2, <2>3
  <1> QED BY <1>5, <1>8 DEF ShiftDown

\* From the sequences F to G, at most one changes, by one step of a list.
Simulates(F, G, I) ==
    /\ DOMAIN F = I /\ F = [l \in I |-> F[l]] /\ G = [l \in I |-> G[l]]
    /\ F = G \/ \E l \in I : ListStep(F[l], G[l]) /\ \A k \in I : k # l => G[k] = F[k]
LEMMA SimulatesIs == ASSUME NEW F, NEW G, NEW I, Simulates(F, G, I), F # G
    PROVE \E l \in I : ListStep(F[l], G[l]) /\ G[l] # F[l] /\ G = [F EXCEPT ![l] = G[l]]
  <1>1. PICK l \in I : ListStep(F[l], G[l]) /\ \A k \in I : k # l => G[k] = F[k]  BY DEF Simulates
  <1>2. F = [k \in I |-> F[k]] /\ G = [k \in I |-> G[k]]  BY DEF Simulates
  <1>3. G[l] # F[l]  BY <1>1, <1>2
  <1>4. G = [F EXCEPT ![l] = G[l]]  BY <1>1, <1>2
  <1> QED BY <1>1, <1>3, <1>4
LEMMA MenuSim == ASSUME Simulates(MenuSeqs, MenuSeqs', MenuIds) PROVE [MenuLists!Next]_MenuSeqs
  <1>1. PICK F, G : F = MenuSeqs /\ G = MenuSeqs'  OBVIOUS
  <1>2. CASE F = G  BY <1>1, <1>2
  <1>3. CASE F # G
    <2>1. PICK l \in MenuIds : ListStep(F[l], G[l]) /\ G[l] # F[l] /\ G = [F EXCEPT ![l] = G[l]]
      BY <1>1, <1>3, SimulatesIs
    <2>2. MenuLists!Step(F[l], G[l])
      BY <2>1 DEF ListStep, InsertedIn, ReplacedIn, PrefixOf, MenuLists!Step, MenuLists!Added, MenuLists!Replaced, MenuLists!RemoveAt, MenuLists!IsPrefix
    <2>3. DOMAIN MenuSeqs = MenuIds  BY DEF MenuSeqs
    <2> QED BY <1>1, <2>1, <2>2, <2>3 DEF MenuLists!Next
  <1> QED BY <1>2, <1>3
LEMMA BoxSim == ASSUME Simulates(BoxSeqs, BoxSeqs', ListBoxes) PROVE [BoxLists!Next]_BoxSeqs
  <1>1. PICK F, G : F = BoxSeqs /\ G = BoxSeqs'  OBVIOUS
  <1>2. CASE F = G  BY <1>1, <1>2
  <1>3. CASE F # G
    <2>1. PICK l \in ListBoxes : ListStep(F[l], G[l]) /\ G[l] # F[l] /\ G = [F EXCEPT ![l] = G[l]]
      BY <1>1, <1>3, SimulatesIs
    <2>2. BoxLists!Step(F[l], G[l])
      BY <2>1 DEF ListStep, InsertedIn, ReplacedIn, PrefixOf, BoxLists!Step, BoxLists!Added, BoxLists!Replaced, BoxLists!RemoveAt, BoxLists!IsPrefix
    <2>3. DOMAIN BoxSeqs = ListBoxes  BY DEF BoxSeqs
    <2> QED BY <1>1, <2>1, <2>2, <2>3 DEF BoxLists!Next
  <1> QED BY <1>2, <1>3
LEMMA ImlSim == ASSUME Simulates(ImlSeqs, ImlSeqs', Imls) PROVE [ImlLists!Next]_ImlSeqs
  <1>1. PICK F, G : F = ImlSeqs /\ G = ImlSeqs'  OBVIOUS
  <1>2. CASE F = G  BY <1>1, <1>2
  <1>3. CASE F # G
    <2>1. PICK l \in Imls : ListStep(F[l], G[l]) /\ G[l] # F[l] /\ G = [F EXCEPT ![l] = G[l]]
      BY <1>1, <1>3, SimulatesIs
    <2>2. ImlLists!Step(F[l], G[l])
      BY <2>1 DEF ListStep, InsertedIn, ReplacedIn, PrefixOf, ImlLists!Step, ImlLists!Added, ImlLists!Replaced, ImlLists!RemoveAt, ImlLists!IsPrefix
    <2>3. DOMAIN ImlSeqs = Imls  BY DEF ImlSeqs
    <2> QED BY <1>1, <2>1, <2>2, <2>3 DEF ImlLists!Next
  <1> QED BY <1>2, <1>3

-----------------------------------------------------------------------------
(* Image lists.                                                              *)
\* The block of an image list in use holds every tile it counts.
Block(m) == /\ m = [used |-> m.used, count |-> m.count, cap |-> m.cap, bits |-> m.bits]
            /\ m.used \in BOOLEAN
            /\ m.used => m.count \in Nat /\ m.cap \in Nat /\ m.count <= m.cap /\ Arr(m.bits, m.cap * ImlCx)
ImlForm == iml = [i \in Imls |-> iml[i]] /\ \A i \in Imls : Block(iml[i])
Tile(m, k) == [x \in 1..ImlCx |-> m.bits[k * ImlCx + (x - 1)]]
LEMMA Products == ASSUME NEW a \in Nat, NEW b \in Nat, NEW c \in Nat, a <= b
    PROVE a * c \in Nat /\ b * c \in Nat /\ a * c <= b * c
  <1>1. PICK d \in Nat : b = a + d
    <2>1. b - a \in Nat /\ b = a + (b - a)  OBVIOUS
    <2> QED BY <2>1
  <1>2. a * c \in Nat /\ d * c \in Nat  OBVIOUS
  <1>3. b * c = a * c + d * c  BY <1>1
  <1> QED BY <1>2, <1>3
LEMMA TileFits == ASSUME NEW n \in Nat, NEW k \in Nat, k < n, NEW x \in 1..ImlCx
    PROVE k * ImlCx + (x - 1) \in 0..(n * ImlCx - 1)
  <1>1. ImlCx \in Nat \ {0}  BY ImlAssumption
  <1>2. (k + 1) * ImlCx <= n * ImlCx /\ n * ImlCx \in Nat
    <2>1. k + 1 \in Nat /\ k + 1 <= n /\ ImlCx \in Nat  BY <1>1
    <2> QED BY <2>1, Products
  <1>3. (k + 1) * ImlCx = k * ImlCx + ImlCx /\ k * ImlCx \in Nat  BY <1>1
  <1> QED BY <1>1, <1>2, <1>3
LEMMA BlockGrows == ASSUME NEW m, Block(m), m.used, NEW need \in Nat, m.count <= need, NEW g, g = iml_grow(m, need)
    PROVE /\ g = [used |-> m.used, count |-> m.count, cap |-> g.cap, bits |-> g.bits]
          /\ g.cap \in Nat /\ need <= g.cap /\ Arr(g.bits, g.cap * ImlCx)
          /\ \A k \in 0..(m.count * ImlCx - 1) : g.bits[k] = m.bits[k]
  <1>1. ImlCx \in Nat \ {0}  BY ImlAssumption
  <1>2. m.count \in Nat /\ m.cap \in Nat /\ m.count <= m.cap /\ Arr(m.bits, m.cap * ImlCx)  BY DEF Block
  <1>3. m = [used |-> m.used, count |-> m.count, cap |-> m.cap, bits |-> m.bits]  BY DEF Block
  <1>4. CASE need <= m.cap
    <2>1. g = m  BY <1>4 DEF iml_grow
    <2> QED BY <1>2, <1>3, <1>4, <2>1
  <1>5. CASE ~(need <= m.cap)
    <2>1. PICK nc : nc = IF 2 * m.cap < need THEN need ELSE 2 * m.cap  OBVIOUS
    <2>2. nc \in Nat /\ need <= nc  BY <1>2, <2>1
    <2>3. nc * ImlCx \in Nat /\ m.count * ImlCx \in Nat /\ m.count * ImlCx <= nc * ImlCx
      <3>1. m.count <= nc /\ ImlCx \in Nat  BY <1>1, <1>2, <2>2
      <3> QED BY <1>2, <2>2, <3>1, Products
    <2>4. PICK B : B = [k \in 0..(nc * ImlCx - 1) |-> IF k < m.count * ImlCx THEN m.bits[k] ELSE 0]  OBVIOUS
    <2>5. g = [m EXCEPT !.cap = nc, !.bits = B]
      <3>1. DOMAIN Blank(nc) = 0..(nc * ImlCx - 1)  BY DEF Blank
      <3>2. g = [m EXCEPT !.cap = nc, !.bits = [k \in DOMAIN Blank(nc) |-> IF k < m.count * ImlCx THEN m.bits[k] ELSE 0]]
        BY <1>5, <2>1 DEF iml_grow
      <3> QED BY <2>4, <3>1, <3>2
    <2>6. g = [used |-> m.used, count |-> m.count, cap |-> nc, bits |-> B]  BY <1>3, <2>5
    <2>7. \A k \in 0..(m.count * ImlCx - 1) : B[k] = m.bits[k]  BY <2>3, <2>4
    <2>8. Arr(B, nc * ImlCx)  BY <2>3, <2>4 DEF Arr
    <2>9. g.cap = nc /\ g.bits = B  BY <2>6
    <2> QED BY <2>2, <2>6, <2>7, <2>8, <2>9
  <1> QED BY <1>4, <1>5
\* The list drawn from one image list.
Drawn(m) == [k \in 1..(IF m.used THEN m.count ELSE 0) |-> IF k - 1 < m.count THEN Tile(m, k - 1) ELSE <<>>]
LEMMA DrawnIs == ImlSeqs = [i \in Imls |-> Drawn(iml[i])]
  BY DEF ImlSeqs, Drawn, Tile, ImageList_Draw, iml_px
LEMMA DrawnSeqn == ASSUME NEW m, Block(m), m.used PROVE Seqn(Drawn(m), m.count) /\ \A k \in 1..m.count : Drawn(m)[k] = Tile(m, k - 1)
  <1>1. m.count \in Nat  BY DEF Block
  <1>2. \A k \in 1..m.count : k - 1 < m.count  BY <1>1
  <1>3. Drawn(m) = [k \in 1..m.count |-> Tile(m, k - 1)]  BY <1>2 DEF Drawn
  <1> QED BY <1>1, <1>3 DEF Seqn
LEMMA DrawnUnused == ASSUME NEW m, ~m.used PROVE Drawn(m) = <<>>
  BY DEF Drawn
\* A list that changed at one place simulates a step there.
LEMMA OneIml == ASSUME ImlForm, NEW i \in Imls, NEW b, iml' = [iml EXCEPT ![i] = b], ListStep(Drawn(iml[i]), Drawn(b)) \/ Drawn(b) = Drawn(iml[i])
    PROVE Simulates(ImlSeqs, ImlSeqs', Imls)
  <1>1. PICK F, G : F = ImlSeqs /\ G = ImlSeqs'  OBVIOUS
  <1>2. PICK v, w : v = iml /\ w = iml'  OBVIOUS
  <1>3. v = [k \in Imls |-> v[k]]  BY <1>2 DEF ImlForm
  <1>4. w = [k \in Imls |-> IF k = i THEN b ELSE v[k]]  BY <1>2, <1>3
  <1>5. F = [k \in Imls |-> Drawn(v[k])]  BY <1>1, <1>2, DrawnIs
  <1>6. G = [k \in Imls |-> Drawn(w[k])]
    BY <1>1, <1>2 DEF ImlSeqs, Drawn, Tile, ImageList_Draw, iml_px
  <1>7. F = [l \in Imls |-> F[l]] /\ G = [l \in Imls |-> G[l]] /\ DOMAIN F = Imls  BY <1>5, <1>6
  <1>8. \A k \in Imls : k # i => G[k] = F[k]  BY <1>4, <1>5, <1>6
  <1>9. F[i] = Drawn(iml[i]) /\ G[i] = Drawn(b)  BY <1>2, <1>4, <1>5, <1>6
  <1>10. CASE ListStep(Drawn(iml[i]), Drawn(b))
    <2>1. ListStep(F[i], G[i])  BY <1>9, <1>10
    <2> QED BY <1>1, <1>7, <1>8, <2>1 DEF Simulates
  <1>11. CASE Drawn(b) = Drawn(iml[i])
    <2>1. F = G  BY <1>7, <1>8, <1>9, <1>11
    <2> QED BY <1>1, <1>7, <2>1 DEF Simulates
  <1> QED BY <1>10, <1>11
LEMMA FormKept == ASSUME ImlForm, NEW i \in Imls, NEW b, iml' = [iml EXCEPT ![i] = b], Block(b) PROVE ImlForm'
  <1>1. iml = [k \in Imls |-> iml[k]] /\ \A k \in Imls : Block(iml[k])  BY DEF ImlForm
  <1>2. iml' = [k \in Imls |-> IF k = i THEN b ELSE iml[k]]  BY <1>1
  <1>3. iml' = [k \in Imls |-> iml'[k]]  BY <1>2
  <1>4. ASSUME NEW k \in Imls PROVE Block(iml'[k])
    <2>1. iml'[k] = IF k = i THEN b ELSE iml[k]  BY <1>2
    <2> QED BY <1>1, <2>1
  <1> QED BY <1>3, <1>4 DEF ImlForm, Block, Arr
LEMMA CreateStep == ASSUME ImlForm, NEW i \in Imls, ImageList_Create(i) PROVE ImlForm' /\ Simulates(ImlSeqs, ImlSeqs', Imls)
  <1>1. ImlCx \in Nat \ {0} /\ ImlCap \in Int  BY ImlAssumption
  <1>2. PICK cap : cap = IF ImlCap > 0 THEN ImlCap ELSE 4  OBVIOUS
  <1>3. cap \in Nat  BY <1>1, <1>2
  <1>4. PICK b : b = [used |-> TRUE, count |-> 0, cap |-> cap, bits |-> Blank(cap)]  OBVIOUS
  <1>5. iml' = [iml EXCEPT ![i] = b] /\ ~iml[i].used  BY <1>2, <1>4 DEF ImageList_Create
  <1>6. Arr(Blank(cap), cap * ImlCx)
    <2>1. cap * ImlCx \in Nat  BY <1>1, <1>3
    <2> QED BY <2>1 DEF Arr, Blank
  <1>7. Block(b)
    <2>1. b.used = TRUE /\ b.count = 0 /\ b.cap = cap /\ b.bits = Blank(cap)  BY <1>4
    <2> QED BY <1>3, <1>4, <1>6, <2>1 DEF Block
  <1>8. Drawn(iml[i]) = <<>>  BY <1>5, DrawnUnused
  <1>9. Drawn(b) = <<>>  BY <1>4 DEF Drawn
  <1>10. Simulates(ImlSeqs, ImlSeqs', Imls)  BY <1>5, <1>8, <1>9, OneIml
  <1> QED BY <1>5, <1>7, <1>10, FormKept
LEMMA DestroyStep == ASSUME ImlForm, NEW i \in Imls, ImageList_Destroy(i) PROVE ImlForm' /\ Simulates(ImlSeqs, ImlSeqs', Imls)
  <1>1. PICK m : m = iml[i]  OBVIOUS
  <1>2. Block(m)  BY <1>1 DEF ImlForm
  <1>3. PICK b : b = [m EXCEPT !.used = FALSE]  OBVIOUS
  <1>4. b = [used |-> FALSE, count |-> m.count, cap |-> m.cap, bits |-> m.bits]  BY <1>2, <1>3 DEF Block
  <1>5. iml' = [iml EXCEPT ![i] = b]
    <2>1. iml = [k \in Imls |-> iml[k]]  BY DEF ImlForm
    <2>2. iml' = [iml EXCEPT ![i].used = FALSE]  BY DEF ImageList_Destroy
    <2> QED BY <1>1, <1>3, <2>1, <2>2
  <1>6. ~b.used  BY <1>4
  <1>7. Block(b)  BY <1>4, <1>6 DEF Block
  <1>8. Drawn(b) = <<>>  BY <1>6, DrawnUnused
  <1>9. ListStep(Drawn(iml[i]), Drawn(b))  BY <1>8 DEF ListStep
  <1>10. Simulates(ImlSeqs, ImlSeqs', Imls)  BY <1>5, <1>9, OneIml
  <1> QED BY <1>5, <1>7, <1>10, FormKept
\* Adding tiles: the block grows, and what was drawn stays.
LEMMA AddStep == ASSUME ImlForm, NEW i \in Imls, NEW src \in Sources, ImageList_Add(i, src) PROVE ImlForm' /\ Simulates(ImlSeqs, ImlSeqs', Imls)
  <1>1. ImlCx \in Nat \ {0} /\ src \in Seq(Nat)  BY ImlAssumption
  <1>2. PICK m0 : m0 = iml[i]  OBVIOUS
  <1>3. Block(m0) /\ m0.used  BY <1>2 DEF ImlForm, ImageList_Add, iml_add
  <1>4. PICK n : n = IF Len(src) \div ImlCx < 1 THEN 1 ELSE Len(src) \div ImlCx  OBVIOUS
  <1>5. n \in Nat /\ n >= 1
    <2>1. Len(src) \in Nat  BY <1>1
    <2>2. Len(src) \div ImlCx \in Int  BY <1>1, <2>1
    <2> QED BY <1>4, <2>2
  <1>6. m0.count \in Nat  BY <1>3 DEF Block
  <1>7. PICK need : need = m0.count + n  OBVIOUS
  <1>8. need \in Nat /\ m0.count <= need  BY <1>5, <1>6, <1>7
  <1>9. PICK g : g = iml_grow(m0, need)  OBVIOUS
  <1>10. /\ g = [used |-> m0.used, count |-> m0.count, cap |-> g.cap, bits |-> g.bits]
         /\ g.cap \in Nat /\ need <= g.cap /\ Arr(g.bits, g.cap * ImlCx)
         /\ \A k \in 0..(m0.count * ImlCx - 1) : g.bits[k] = m0.bits[k]
    BY <1>3, <1>8, <1>9, BlockGrows
  <1>11. g.count = m0.count /\ g.used = m0.used  BY <1>10
  <1>12. PICK put : put = [k \in DOMAIN g.bits |->
                   LET j == k - m0.count * ImlCx
                   IN  IF j \in 0..(n * ImlCx - 1) THEN IF j < Len(src) THEN src[j + 1] ELSE 0 ELSE g.bits[k]]
    OBVIOUS
  <1>13. iml' = [iml EXCEPT ![i] = [g EXCEPT !.bits = put, !.count = m0.count + n]]
    BY <1>2, <1>4, <1>7, <1>9, <1>11, <1>12 DEF ImageList_Add, iml_add
  <1>14. PICK b : b = [used |-> TRUE, count |-> need, cap |-> g.cap, bits |-> put]  OBVIOUS
  <1>15. iml' = [iml EXCEPT ![i] = b]
    <2>1. PICK uu, cc, gc, gb : uu = m0.used /\ cc = m0.count /\ gc = g.cap /\ gb = g.bits  OBVIOUS
    <2>2. uu = TRUE  BY <1>3, <2>1 DEF Block
    <2>3. g = [used |-> uu, count |-> cc, cap |-> gc, bits |-> gb]  BY <1>10, <2>1
    <2>4. [g EXCEPT !.bits = put, !.count = need] = [used |-> uu, count |-> need, cap |-> gc, bits |-> put]
      <3>1. PICK h : h = [g EXCEPT !.bits = put]  OBVIOUS
      <3>2. h = [used |-> uu, count |-> cc, cap |-> gc, bits |-> put]  BY <2>3, <3>1
      <3>3. [h EXCEPT !.count = need] = [used |-> uu, count |-> need, cap |-> gc, bits |-> put]  BY <3>2
      <3> QED BY <3>1, <3>3
    <2>5. [g EXCEPT !.bits = put, !.count = need] = b  BY <1>14, <2>1, <2>2, <2>4
    <2> QED BY <1>7, <1>13, <2>5
  <1>16. Arr(put, g.cap * ImlCx)
    <2>1. DOMAIN g.bits = 0..(g.cap * ImlCx - 1) /\ g.cap * ImlCx \in Nat  BY <1>10 DEF Arr
    <2>2. DOMAIN put = 0..(g.cap * ImlCx - 1) /\ put = [k \in DOMAIN put |-> put[k]]  BY <1>12, <2>1
    <2> QED BY <2>1, <2>2 DEF Arr
  <1>17. b.used = TRUE /\ b.count = need /\ b.cap = g.cap /\ b.bits = put  BY <1>14
  <1>18. Block(b)  BY <1>8, <1>10, <1>14, <1>16, <1>17 DEF Block
  <1>19. m0.count * ImlCx \in Nat /\ m0.count * ImlCx <= g.cap * ImlCx /\ g.cap * ImlCx \in Nat
    <2>1. m0.count <= g.cap /\ ImlCx \in Nat  BY <1>1, <1>6, <1>8, <1>10
    <2> QED BY <1>6, <1>10, <2>1, Products
  <1>20. \A k \in 0..(m0.count * ImlCx - 1) : put[k] = m0.bits[k]
    <2>1. ASSUME NEW k \in 0..(m0.count * ImlCx - 1) PROVE put[k] = m0.bits[k]
      <3>1. DOMAIN g.bits = 0..(g.cap * ImlCx - 1)  BY <1>10 DEF Arr
      <3>2. k \in DOMAIN g.bits  BY <1>19, <3>1
      <3>3. PICK c : c = m0.count * ImlCx  OBVIOUS
      <3>4. k \in 0..(c - 1) /\ c \in Nat  BY <1>19, <3>3
      <3>5. ~(k - m0.count * ImlCx \in 0..(n * ImlCx - 1))
        <4>1. ~(k - c >= 0)  BY <3>4
        <4>2. ~(k - c \in 0..(n * ImlCx - 1))  BY <4>1
        <4> QED BY <3>3, <4>2
      <3>6. put[k] = g.bits[k]  BY <1>12, <3>2, <3>5
      <3> QED BY <1>10, <3>6
    <2> QED BY <2>1
  <1>21. \A k \in 0..(m0.count - 1) : Tile(b, k) = Tile(m0, k)
    <2>1. ASSUME NEW k \in 0..(m0.count - 1) PROVE Tile(b, k) = Tile(m0, k)
      <3>1. ASSUME NEW x \in 1..ImlCx PROVE put[k * ImlCx + (x - 1)] = m0.bits[k * ImlCx + (x - 1)]
        <4>1. k \in Nat /\ k < m0.count  BY <1>6
        <4>2. k * ImlCx + (x - 1) \in 0..(m0.count * ImlCx - 1)  BY <1>6, <4>1, TileFits
        <4> QED BY <1>20, <4>2
      <3> QED BY <1>17, <3>1 DEF Tile
    <2> QED BY <2>1
  <1>22. PICK s : s = Drawn(m0)  OBVIOUS
  <1>23. PICK t : t = Drawn(b)  OBVIOUS
  <1>24. Seqn(s, m0.count) /\ \A k \in 1..m0.count : s[k] = Tile(m0, k - 1)  BY <1>3, <1>22, DrawnSeqn
  <1>25. Seqn(t, need) /\ \A k \in 1..need : t[k] = Tile(b, k - 1)
    <2>1. Seqn(t, b.count) /\ \A k \in 1..b.count : t[k] = Tile(b, k - 1)  BY <1>17, <1>18, <1>23, DrawnSeqn
    <2> QED BY <1>17, <2>1
  <1>26. \A j \in 1..m0.count : s[j] = t[j]
    <2>1. ASSUME NEW j \in 1..m0.count PROVE s[j] = t[j]
      <3>1. j \in 1..need /\ j - 1 \in 0..(m0.count - 1)  BY <1>6, <1>8
      <3> QED BY <1>21, <1>24, <1>25, <3>1
    <2> QED BY <2>1
  <1>27. PrefixOf(s, t)  BY <1>8, <1>24, <1>25, <1>26, Prefixed
  <1>28. ListStep(Drawn(iml[i]), Drawn(b))  BY <1>2, <1>22, <1>23, <1>27 DEF ListStep
  <1>29. Simulates(ImlSeqs, ImlSeqs', Imls)  BY <1>15, <1>28, OneIml
  <1> QED BY <1>15, <1>18, <1>29, FormKept
LEMMA ImlSafe == ImlSpec => ImagesKept
  <1>1. ImlInit => ImlForm /\ ImlLists!Init
    <2> SUFFICES ASSUME ImlInit PROVE ImlForm /\ ImlLists!Init  OBVIOUS
    <2>1. iml = [m \in Imls |-> NoIml]  BY DEF ImlInit
    <2>2. ImlForm
      <3>1. Block(NoIml)  BY DEF Block, NoIml
      <3> QED BY <2>1, <3>1 DEF ImlForm
    <2>3. ASSUME NEW i \in Imls PROVE ImlSeqs[i] = <<>>
      <3>1. ~iml[i].used  BY <2>1 DEF NoIml
      <3>2. ImlSeqs[i] = Drawn(iml[i])  BY DrawnIs
      <3> QED BY <3>1, <3>2, DrawnUnused
    <2>4. DOMAIN ImlSeqs = Imls  BY DEF ImlSeqs
    <2> QED BY <2>2, <2>3, <2>4 DEF ImlLists!Init
  <1>2. ImlForm /\ [ImlOps]_iml => ImlForm' /\ [ImlLists!Next]_ImlSeqs
    <2> SUFFICES ASSUME ImlForm, [ImlOps]_iml PROVE ImlForm' /\ [ImlLists!Next]_ImlSeqs  OBVIOUS
    <2>1. CASE ImlOps
      <3>1. ImlForm' /\ Simulates(ImlSeqs, ImlSeqs', Imls)
        <4>1. PICK i \in Imls : ImageList_Create(i) \/ ImageList_Destroy(i) \/ \E s \in Sources : ImageList_Add(i, s)
          BY <2>1 DEF ImlOps
        <4> QED BY <4>1, CreateStep, DestroyStep, AddStep
      <3> QED BY <3>1, ImlSim
    <2>2. CASE UNCHANGED iml
      <3>1. ImlForm'  BY <2>2 DEF ImlForm, Block, Arr
      <3>2. ImlSeqs' = ImlSeqs  BY <2>2 DEF ImlSeqs, ImageList_Draw, iml_px
      <3> QED BY <3>1, <3>2
    <2> QED BY <2>1, <2>2
  <1> QED BY <1>1, <1>2, PTL DEF ImlSpec, ImagesKept, ImlLists!Spec

-----------------------------------------------------------------------------
(* List boxes.                                                               *)
\* The array of a list box holds every string it counts.
Strings(x) == /\ x = [items |-> x.items, count |-> x.count, cap |-> x.cap, sel |-> x.sel]
              /\ x.count \in Nat /\ x.cap \in Nat /\ x.count <= x.cap /\ Arr(x.items, x.cap)
BoxForm == box = [b \in ListBoxes |-> box[b]] /\ \A b \in ListBoxes : Strings(box[b])
LEMMA NoBoxStrings == Strings(NoBox) /\ BoxItems(NoBox) = <<>>
  BY DEF Strings, NoBox, Arr, BoxItems
LEMMA GrownKeeps == ASSUME NEW x, Strings(x), NEW g, g = Grown(x)
    PROVE Strings(g) /\ g.count = x.count /\ g.count < g.cap /\ \A k \in 0..(x.count - 1) : g.items[k] = x.items[k]
  <1>1. FirstCap \in Nat \ {0}  BY ListAssumption
  <1>2. x.count \in Nat /\ x.cap \in Nat /\ x.count <= x.cap /\ Arr(x.items, x.cap)  BY DEF Strings
  <1>3. CASE x.count < x.cap
    <2>1. g = x  BY <1>3 DEF Grown
    <2> QED BY <1>2, <1>3, <2>1
  <1>4. CASE ~(x.count < x.cap)
    <2>1. PICK nc : nc = IF x.cap = 0 THEN FirstCap ELSE 2 * x.cap  OBVIOUS
    <2>2. nc \in Nat /\ x.cap < nc  BY <1>1, <1>2, <2>1
    <2>3. PICK u : u = [k \in 0..(nc - 1) |-> IF k < x.cap THEN x.items[k] ELSE ""]  OBVIOUS
    <2>4. g = [x EXCEPT !.cap = nc, !.items = u]  BY <1>4, <2>1, <2>3 DEF Grown
    <2>5. PICK ii, cc, ca, se : ii = x.items /\ cc = x.count /\ ca = x.cap /\ se = x.sel  OBVIOUS
    <2>6. x = [items |-> ii, count |-> cc, cap |-> ca, sel |-> se]  BY <2>5 DEF Strings
    <2>7. g = [items |-> u, count |-> cc, cap |-> nc, sel |-> se]
      <3>1. PICK h : h = [x EXCEPT !.cap = nc]  OBVIOUS
      <3>2. h = [items |-> ii, count |-> cc, cap |-> nc, sel |-> se]  BY <2>6, <3>1
      <3>3. [h EXCEPT !.items = u] = [items |-> u, count |-> cc, cap |-> nc, sel |-> se]  BY <3>2
      <3> QED BY <2>4, <3>1, <3>3
    <2>8. g.items = u /\ g.count = cc /\ g.cap = nc /\ g.sel = se  BY <2>7
    <2>9. Arr(u, nc)  BY <2>2, <2>3 DEF Arr
    <2>10. Strings(g)  BY <1>2, <2>2, <2>5, <2>7, <2>8, <2>9 DEF Strings
    <2>11. ASSUME NEW k \in 0..(x.count - 1) PROVE g.items[k] = x.items[k]
      <3>1. k \in 0..(nc - 1) /\ k < x.cap  BY <1>2, <2>2
      <3>2. u[k] = x.items[k]  BY <2>3, <3>1
      <3> QED BY <2>8, <3>2
    <2> QED BY <1>2, <2>2, <2>5, <2>8, <2>10, <2>11
  <1> QED BY <1>3, <1>4
LEMMA ItemsSeqn == ASSUME NEW x, Strings(x) PROVE Seqn(BoxItems(x), x.count) /\ \A k \in 1..x.count : BoxItems(x)[k] = x.items[k - 1]
  <1>1. x.count \in Nat  BY DEF Strings
  <1> QED BY <1>1 DEF Seqn, BoxItems
\* Inserting into the array inserts into the list.
LEMMA InsertItems == ASSUME NEW x0, Strings(x0), NEW pos0 \in Int, NEW s, NEW y, y = u32_items_insert(x0, pos0, s)
    PROVE Strings(y) /\ InsertedIn(BoxItems(x0), BoxItems(y))
  <1>1. PICK x : x = Grown(x0)  OBVIOUS
  <1>2. Strings(x) /\ x.count = x0.count /\ x.count < x.cap /\ \A k \in 0..(x0.count - 1) : x.items[k] = x0.items[k]
    BY <1>1, GrownKeeps
  <1>3. PICK ii, n, ca, se : ii = x.items /\ n = x.count /\ ca = x.cap /\ se = x.sel  OBVIOUS
  <1>4. x = [items |-> ii, count |-> n, cap |-> ca, sel |-> se]  BY <1>2, <1>3 DEF Strings
  <1>5. n \in Nat /\ ca \in Nat /\ n < ca /\ Arr(ii, ca)  BY <1>2, <1>3 DEF Strings
  <1>6. PICK pos : pos = IF pos0 \in 0..n THEN pos0 ELSE n  OBVIOUS
  <1>7. pos \in Nat /\ pos <= n  BY <1>5, <1>6
  <1>8. PICK w : w = ShiftUp(ii, pos, n)  OBVIOUS
  <1>9. w = [j \in 0..(ca - 1) |-> IF pos + 1 <= j /\ j <= n THEN ii[j - 1] ELSE ii[j]]
    <2>1. w = UpBy(ii, ca, pos + 1, n)  BY <1>5, <1>7, <1>8, ShiftUpIs
    <2> QED BY <2>1 DEF UpBy
  <1>10. PICK u : u = [w EXCEPT ![pos] = s]  OBVIOUS
  <1>11. u = [j \in 0..(ca - 1) |-> IF j = pos THEN s ELSE w[j]]  BY <1>9, <1>10
  <1>12. y = [x EXCEPT !.items = u, !.count = n + 1]  BY <1>1, <1>3, <1>6, <1>8, <1>10 DEF u32_items_insert
  <1>13. y = [items |-> u, count |-> n + 1, cap |-> ca, sel |-> se]
    <2>1. PICK h : h = [x EXCEPT !.items = u]  OBVIOUS
    <2>2. h = [items |-> u, count |-> n, cap |-> ca, sel |-> se]  BY <1>4, <2>1
    <2>3. [h EXCEPT !.count = n + 1] = [items |-> u, count |-> n + 1, cap |-> ca, sel |-> se]  BY <2>2
    <2> QED BY <1>12, <2>1, <2>3
  <1>14. y.items = u /\ y.count = n + 1 /\ y.cap = ca /\ y.sel = se  BY <1>13
  <1>15. Arr(u, ca)  BY <1>5, <1>11 DEF Arr
  <1>16. Strings(y)  BY <1>5, <1>13, <1>14, <1>15 DEF Strings
  <1>17. PICK a : a = BoxItems(x0)  OBVIOUS
  <1>18. PICK b : b = BoxItems(y)  OBVIOUS
  <1>19. Seqn(a, n) /\ \A k \in 1..n : a[k] = ii[k - 1]
    <2>1. x0.count = n  BY <1>2, <1>3
    <2>2. Seqn(a, n) /\ \A k \in 1..n : a[k] = x0.items[k - 1]  BY <1>17, <2>1, ItemsSeqn
    <2>3. ASSUME NEW k \in 1..n PROVE a[k] = ii[k - 1]
      <3>1. k - 1 \in 0..(n - 1)  BY <1>5
      <3> QED BY <1>2, <1>3, <2>1, <2>2, <3>1
    <2> QED BY <2>2, <2>3
  <1>20. Seqn(b, n + 1) /\ \A k \in 1..(n + 1) : b[k] = u[k - 1]  BY <1>14, <1>16, <1>18, ItemsSeqn
  <1>21. PICK i : i = pos + 1  OBVIOUS
  <1>22. i \in 1..(n + 1)  BY <1>5, <1>7, <1>21
  <1>23. ASSUME NEW j \in 1..n PROVE a[j] = IF j < i THEN b[j] ELSE b[j + 1]
    <2>1. CASE j < i
      <3>1. j - 1 \in 0..(ca - 1) /\ j - 1 # pos /\ ~(pos + 1 <= j - 1) /\ j \in 1..(n + 1)  BY <1>5, <1>7, <1>21, <2>1
      <3>2. b[j] = ii[j - 1]  BY <1>9, <1>11, <1>20, <3>1
      <3> QED BY <1>19, <2>1, <3>2
    <2>2. CASE ~(j < i)
      <3>1. j \in 0..(ca - 1) /\ j # pos /\ pos + 1 <= j /\ j <= n /\ j + 1 \in 1..(n + 1) /\ (j + 1) - 1 = j  BY <1>5, <1>7, <1>21, <2>2
      <3>2. u[j] = ii[j - 1]  BY <1>9, <1>11, <3>1
      <3>3. b[j + 1] = u[(j + 1) - 1]  BY <1>20, <3>1
      <3> QED BY <1>19, <2>2, <3>1, <3>2, <3>3
    <2> QED BY <2>1, <2>2
  <1>24. InsertedIn(a, b)
    <2>1. Seqn(a, n)  BY <1>19
    <2>2. Seqn(b, n + 1)  BY <1>20
    <2> QED BY <2>1, <2>2, <1>22, <1>23, Inserted
  <1> QED BY <1>16, <1>17, <1>18, <1>24
\* Deleting from the array deletes from the list.
LEMMA DeleteItems == ASSUME NEW x, Strings(x), NEW i \in 0..(x.count - 1), NEW u,
                            u = [k \in DOMAIN x.items |-> IF k \in i..(x.count - 2) THEN x.items[k + 1] ELSE x.items[k]],
                            NEW y, y = [items |-> u, count |-> x.count - 1, cap |-> x.cap, sel |-> x.sel]
    PROVE Strings(y) /\ InsertedIn(BoxItems(y), BoxItems(x))
  <1>1. PICK ii, n, ca : ii = x.items /\ n = x.count /\ ca = x.cap  OBVIOUS
  <1>2. n \in Nat /\ ca \in Nat /\ n <= ca /\ Arr(ii, ca)  BY <1>1 DEF Strings
  <1>3. DOMAIN ii = 0..(ca - 1)  BY <1>2 DEF Arr
  <1>4. u = [k \in 0..(ca - 1) |-> IF k \in i..(n - 2) THEN ii[k + 1] ELSE ii[k]]  BY <1>1, <1>3
  <1>5. y.items = u /\ y.count = n - 1 /\ y.cap = ca /\ y.sel = x.sel  BY <1>1
  <1>6. n - 1 \in Nat /\ i \in Nat /\ i < n  BY <1>1, <1>2
  <1>7. Strings(y)
    <2>1. Arr(u, ca)  BY <1>2, <1>4 DEF Arr
    <2>2. y = [items |-> y.items, count |-> y.count, cap |-> y.cap, sel |-> y.sel]  BY <1>1, <1>5
    <2> QED BY <1>2, <1>5, <1>6, <2>1, <2>2 DEF Strings
  <1>8. PICK a : a = BoxItems(y)  OBVIOUS
  <1>9. PICK b : b = BoxItems(x)  OBVIOUS
  <1>10. PICK n1 : n1 = n - 1  OBVIOUS
  <1>11. Seqn(a, n1) /\ \A k \in 1..n1 : a[k] = u[k - 1]  BY <1>5, <1>7, <1>8, <1>10, ItemsSeqn
  <1>12. Seqn(b, n1 + 1) /\ \A k \in 1..(n1 + 1) : b[k] = ii[k - 1]
    <2>1. Seqn(b, n) /\ \A k \in 1..n : b[k] = ii[k - 1]  BY <1>1, <1>9, ItemsSeqn
    <2>2. n1 + 1 = n  BY <1>2, <1>10
    <2> QED BY <2>1, <2>2
  <1>13. i + 1 \in 1..(n1 + 1)  BY <1>2, <1>6, <1>10
  <1>14. ASSUME NEW j \in 1..n1 PROVE a[j] = IF j < i + 1 THEN b[j] ELSE b[j + 1]
    <2>1. j - 1 \in 0..(ca - 1) /\ j \in 1..(n1 + 1) /\ j + 1 \in 1..(n1 + 1) /\ (j - 1) + 1 = j /\ (j + 1) - 1 = j  BY <1>2, <1>6, <1>10
    <2>2. CASE j < i + 1
      <3>1. ~(j - 1 \in i..(n - 2))  BY <1>6, <2>2
      <3>2. a[j] = ii[j - 1]  BY <1>4, <1>11, <2>1, <3>1
      <3> QED BY <1>12, <2>1, <2>2, <3>2
    <2>3. CASE ~(j < i + 1)
      <3>1. j - 1 \in i..(n - 2)  BY <1>2, <1>6, <1>10, <2>3
      <3>2. a[j] = ii[(j - 1) + 1]  BY <1>4, <1>11, <2>1, <3>1
      <3>3. b[j + 1] = ii[(j + 1) - 1]  BY <1>12, <2>1
      <3> QED BY <2>1, <2>3, <3>2, <3>3
    <2> QED BY <2>2, <2>3
  <1>15. InsertedIn(a, b)
    <2>1. Seqn(a, n1)  BY <1>11
    <2>2. Seqn(b, n1 + 1)  BY <1>12
    <2> QED BY <2>1, <2>2, <1>13, <1>14, Inserted
  <1> QED BY <1>7, <1>8, <1>9, <1>15
\* A box that changed at one place simulates a step there.
BoxKept == BoxForm' /\ Simulates(BoxSeqs, BoxSeqs', ListBoxes)
LEMMA OneBox == ASSUME BoxForm, NEW i \in ListBoxes, NEW y, box' = [box EXCEPT ![i] = y], Strings(y),
                       ListStep(BoxItems(box[i]), BoxItems(y)) \/ BoxItems(y) = BoxItems(box[i])
    PROVE BoxKept
  <1>1. PICK F, G : F = BoxSeqs /\ G = BoxSeqs'  OBVIOUS
  <1>2. PICK v, w : v = box /\ w = box'  OBVIOUS
  <1>3. v = [k \in ListBoxes |-> v[k]] /\ \A k \in ListBoxes : Strings(v[k])  BY <1>2 DEF BoxForm
  <1>4. w = [k \in ListBoxes |-> IF k = i THEN y ELSE v[k]]  BY <1>2, <1>3
  <1>5. F = [k \in ListBoxes |-> BoxItems(v[k])]  BY <1>1, <1>2 DEF BoxSeqs
  <1>6. G = [k \in ListBoxes |-> BoxItems(w[k])]  BY <1>1, <1>2 DEF BoxSeqs, BoxItems
  <1>7. F = [l \in ListBoxes |-> F[l]] /\ G = [l \in ListBoxes |-> G[l]] /\ DOMAIN F = ListBoxes  BY <1>5, <1>6
  <1>8. \A k \in ListBoxes : k # i => G[k] = F[k]  BY <1>4, <1>5, <1>6
  <1>9. F[i] = BoxItems(box[i]) /\ G[i] = BoxItems(y)  BY <1>2, <1>4, <1>5, <1>6
  <1>10. ASSUME ListStep(BoxItems(box[i]), BoxItems(y)) PROVE Simulates(BoxSeqs, BoxSeqs', ListBoxes)
    <2>1. ListStep(F[i], G[i])  BY <1>9, <1>10
    <2> QED BY <1>1, <1>7, <1>8, <2>1 DEF Simulates
  <1>11. ASSUME BoxItems(y) = BoxItems(box[i]) PROVE Simulates(BoxSeqs, BoxSeqs', ListBoxes)
    <2>1. F = G  BY <1>7, <1>8, <1>9, <1>11
    <2> QED BY <1>1, <1>7, <2>1 DEF Simulates
  <1>12. Simulates(BoxSeqs, BoxSeqs', ListBoxes)  BY <1>10, <1>11
  <1>13. BoxForm'
    <2>1. w = [k \in ListBoxes |-> w[k]]  BY <1>4
    <2>2. ASSUME NEW k \in ListBoxes PROVE Strings(w[k])
      <3>1. w[k] = IF k = i THEN y ELSE v[k]  BY <1>4
      <3> QED BY <1>3, <3>1
    <2> QED BY <1>2, <2>1, <2>2 DEF BoxForm, Strings, Arr
  <1> QED BY <1>12, <1>13 DEF BoxKept
LEMMA SameBox == ASSUME BoxForm, UNCHANGED box PROVE BoxKept
  <1>1. BoxForm'  BY DEF BoxForm, Strings, Arr
  <1>2. BoxSeqs' = BoxSeqs  BY DEF BoxSeqs, BoxItems
  <1>3. BoxSeqs = [l \in ListBoxes |-> BoxSeqs[l]] /\ DOMAIN BoxSeqs = ListBoxes  BY DEF BoxSeqs
  <1>4. Simulates(BoxSeqs, BoxSeqs', ListBoxes)
    <2>1. PICK F : F = BoxSeqs  OBVIOUS
    <2> QED BY <1>2, <1>3, <2>1 DEF Simulates
  <1> QED BY <1>1, <1>4 DEF BoxKept
LEMMA AddStringStep == ASSUME BoxForm, "string" \notin Oom, NEW b \in ListBoxes, NEW pos \in 0..BoxMax, NEW s, NEW f \in Oom, AddString(b, pos, s, f)
    PROVE BoxKept
  <1>1. f \in {"none", "array"}  BY ListAssumption
  <1>2. PICK x : x = box[b]  OBVIOUS
  <1>3. Strings(x)  BY <1>2 DEF BoxForm
  <1>4. CASE f = "none"
    <2>1. PICK y : y = u32_items_insert(x, pos, s)  OBVIOUS
    <2>2. box' = [box EXCEPT ![b] = y]  BY <1>2, <1>4, <2>1 DEF AddString
    <2>3. Strings(y) /\ InsertedIn(BoxItems(x), BoxItems(y))
      <3>1. pos \in Int  OBVIOUS
      <3> QED BY <1>3, <2>1, <3>1, InsertItems
    <2>4. ListStep(BoxItems(box[b]), BoxItems(y))  BY <1>2, <2>3 DEF ListStep
    <2> QED BY <2>2, <2>3, <2>4, OneBox
  <1>5. CASE f = "array"
    <2>1. box' = [box EXCEPT ![b] = x]  BY <1>2, <1>5 DEF AddString
    <2>2. box' = box
      <3>1. box = [k \in ListBoxes |-> box[k]]  BY DEF BoxForm
      <3> QED BY <1>2, <2>1, <3>1
    <2> QED BY <2>2, SameBox
  <1> QED BY <1>1, <1>4, <1>5
LEMMA DeleteStringStep == ASSUME BoxForm, NEW b \in ListBoxes, NEW i, DeleteString(b, i) PROVE BoxKept
  <1>1. PICK x : x = box[b]  OBVIOUS
  <1>2. Strings(x) /\ box = [k \in ListBoxes |-> box[k]]  BY <1>1 DEF BoxForm
  <1>3. i \in 0..(x.count - 1)  BY <1>1 DEF DeleteString
  <1>4. PICK u : u = [k \in DOMAIN x.items |-> IF k \in i..(x.count - 2) THEN x.items[k + 1] ELSE x.items[k]]  OBVIOUS
  <1>5. PICK ii, n, ca, se : ii = x.items /\ n = x.count /\ ca = x.cap /\ se = x.sel  OBVIOUS
  <1>6. PICK y : y = [items |-> u, count |-> n - 1, cap |-> ca, sel |-> se]  OBVIOUS
  <1>7. box' = [box EXCEPT ![b] = y]
    <2>1. PICK h : h = [box EXCEPT ![b].items = u]  OBVIOUS
    <2>2. x = [items |-> ii, count |-> n, cap |-> ca, sel |-> se]  BY <1>2, <1>5 DEF Strings
    <2>3. h = [box EXCEPT ![b] = [items |-> u, count |-> n, cap |-> ca, sel |-> se]]
      <3>1. [x EXCEPT !.items = u] = [items |-> u, count |-> n, cap |-> ca, sel |-> se]  BY <2>2
      <3>2. h = [box EXCEPT ![b] = [x EXCEPT !.items = u]]  BY <1>1, <1>2, <2>1
      <3> QED BY <3>1, <3>2
    <2>4. box' = [h EXCEPT ![b].count = h[b].count - 1]
      <3>1. box' = [box EXCEPT ![b].items = u, ![b].count = x.count - 1]  BY <1>1, <1>4 DEF DeleteString
      <3>2. h[b].count = x.count  BY <1>2, <1>5, <2>3
      <3> QED BY <2>1, <3>1, <3>2
    <2>5. box' = [k \in ListBoxes |-> IF k = b THEN y ELSE box[k]]
      <3>1. h = [k \in ListBoxes |-> IF k = b THEN [items |-> u, count |-> n, cap |-> ca, sel |-> se] ELSE box[k]]  BY <1>2, <2>3
      <3>2. PICK hb : hb = h[b]  OBVIOUS
      <3>3. hb = [items |-> u, count |-> n, cap |-> ca, sel |-> se]  BY <3>1, <3>2
      <3>4. [hb EXCEPT !.count = n - 1] = y  BY <1>6, <3>3
      <3>5. box' = [h EXCEPT ![b] = [hb EXCEPT !.count = n - 1]]  BY <2>4, <3>1, <3>2, <3>3
      <3> QED BY <3>1, <3>4, <3>5
    <2> QED BY <1>2, <2>5
  <1>8. Strings(y) /\ InsertedIn(BoxItems(y), BoxItems(x))
    <2>1. y = [items |-> u, count |-> x.count - 1, cap |-> x.cap, sel |-> x.sel]  BY <1>5, <1>6
    <2>2. Strings(x)  BY <1>2
    <2> QED BY <1>3, <1>4, <2>1, <2>2, DeleteItems
  <1>9. ListStep(BoxItems(box[b]), BoxItems(y))  BY <1>1, <1>8 DEF ListStep
  <1> QED BY <1>7, <1>8, <1>9, OneBox
LEMMA ResetStep == ASSUME BoxForm, NEW b \in ListBoxes, ResetContent(b) PROVE BoxKept
  <1>1. box' = [box EXCEPT ![b] = NoBox]  BY DEF ResetContent, u32_items_free
  <1>2. Strings(NoBox) /\ BoxItems(NoBox) = <<>>  BY NoBoxStrings
  <1>3. ListStep(BoxItems(box[b]), BoxItems(NoBox))  BY <1>2 DEF ListStep
  <1> QED BY <1>1, <1>2, <1>3, OneBox
LEMMA SelectStep == ASSUME BoxForm, NEW b \in ListBoxes, SetCurSel(b, 0) PROVE BoxKept
  <1>1. PICK x : x = box[b]  OBVIOUS
  <1>2. Strings(x) /\ box = [k \in ListBoxes |-> box[k]]  BY <1>1 DEF BoxForm
  <1>3. PICK ii, n, ca, se : ii = x.items /\ n = x.count /\ ca = x.cap /\ se = x.sel  OBVIOUS
  <1>4. x = [items |-> ii, count |-> n, cap |-> ca, sel |-> se]  BY <1>2, <1>3 DEF Strings
  <1>5. PICK y : y = [items |-> ii, count |-> n, cap |-> ca, sel |-> 0]  OBVIOUS
  <1>6. [x EXCEPT !.sel = 0] = y  BY <1>4, <1>5
  <1>7. box' = [box EXCEPT ![b] = y]
    <2>1. box' = [box EXCEPT ![b].sel = 0]  BY DEF SetCurSel
    <2>2. box' = [box EXCEPT ![b] = [x EXCEPT !.sel = 0]]  BY <1>1, <1>2, <2>1
    <2> QED BY <1>6, <2>2
  <1>8. y.items = x.items /\ y.count = x.count /\ y.cap = x.cap  BY <1>3, <1>5
  <1>9. Strings(y)
    <2>1. y = [items |-> y.items, count |-> y.count, cap |-> y.cap, sel |-> y.sel]  BY <1>5
    <2>2. x.count \in Nat /\ x.cap \in Nat /\ x.count <= x.cap /\ Arr(x.items, x.cap)  BY <1>2 DEF Strings
    <2> QED BY <1>8, <2>1, <2>2 DEF Strings
  <1>10. BoxItems(y) = BoxItems(box[b])  BY <1>1, <1>8 DEF BoxItems
  <1> QED BY <1>7, <1>9, <1>10, OneBox
LEMMA ButtonStep == ASSUME BoxForm, ButtonOps PROVE BoxKept
  <1>1. UNCHANGED box  BY DEF ButtonOps, u32_ctrl_click, SetCheck
  <1> QED BY <1>1, SameBox
ControlsStep == (MenuNext /\ UNCHANGED ctrlVars) \/ ((CtrlOps \/ ButtonOps) /\ UNCHANGED menuVars)
LEMMA BoxStep == ASSUME BoxForm, "string" \notin Oom, [ControlsStep]_<<menuVars, ctrlVars>> PROVE BoxKept
  <1>1. CASE CtrlOps
    <2>1. PICK b \in ListBoxes : \/ \E i \in 0..BoxMax, s \in ItemTexts, f \in Oom : AddString(b, i, s, f)
                                 \/ \E i \in 0..BoxMax : DeleteString(b, i)
                                 \/ ResetContent(b) \/ SetCurSel(b, 0)
      BY <1>1 DEF CtrlOps
    <2>2. ASSUME NEW i \in 0..BoxMax, NEW s \in ItemTexts, NEW f \in Oom, AddString(b, i, s, f) PROVE BoxKept
      BY <2>2, AddStringStep
    <2>3. ASSUME NEW i \in 0..BoxMax, DeleteString(b, i) PROVE BoxKept  BY <2>3, DeleteStringStep
    <2> QED BY <2>1, <2>2, <2>3, ResetStep, SelectStep
  <1>2. CASE ButtonOps  BY <1>2, ButtonStep
  <1>3. CASE UNCHANGED ctrlVars
    <2>1. UNCHANGED box  BY <1>3 DEF ctrlVars
    <2> QED BY <2>1, SameBox
  <1> QED BY <1>1, <1>2, <1>3 DEF ControlsStep
LEMMA BoxSafe == ASSUME "string" \notin Oom PROVE ControlsSpec => BoxIsList
  <1>1. CtrlInit => BoxForm /\ BoxLists!Init
    <2> SUFFICES ASSUME CtrlInit PROVE BoxForm /\ BoxLists!Init  OBVIOUS
    <2>1. box = [b \in ListBoxes |-> NoBox]  BY DEF CtrlInit
    <2>2. BoxForm  BY <2>1, NoBoxStrings DEF BoxForm
    <2>3. \A b \in ListBoxes : BoxSeqs[b] = <<>>  BY <2>1, NoBoxStrings DEF BoxSeqs
    <2>4. DOMAIN BoxSeqs = ListBoxes  BY DEF BoxSeqs
    <2> QED BY <2>2, <2>3, <2>4 DEF BoxLists!Init
  <1>2. BoxForm /\ [ControlsStep]_<<menuVars, ctrlVars>> => BoxForm' /\ [BoxLists!Next]_BoxSeqs
    <2> SUFFICES ASSUME BoxForm, [ControlsStep]_<<menuVars, ctrlVars>> PROVE BoxForm' /\ [BoxLists!Next]_BoxSeqs  OBVIOUS
    <2>1. BoxForm' /\ Simulates(BoxSeqs, BoxSeqs', ListBoxes)  BY BoxStep DEF BoxKept
    <2> QED BY <2>1, BoxSim
  <1> QED BY <1>1, <1>2, PTL DEF ControlsSpec, ControlsStep, BoxIsList, BoxLists!Spec

-----------------------------------------------------------------------------
(* Menus.                                                                    *)
\* The array of a menu holds every item it counts.
Filled(b) == /\ b = [used |-> b.used, count |-> b.count, it |-> b.it]
             /\ b.used \in BOOLEAN /\ b.count \in 0..MItemMax /\ Arr(b.it, MItemMax)
MenuForm == menu = [m \in MenuIds |-> menu[m]] /\ \A m \in MenuIds : Filled(menu[m])
LEMMA ItemMaxNat == MItemMax \in Nat \ {0} /\ SysCommands \in Seq(Nat) /\ Len(SysCommands) <= MItemMax
  BY MenuAssumption
LEMMA FindIs == ASSUME NEW b, Filled(b), NEW item, NEW how, NEW at, at = u32_menu_find(b, item, how)
    PROVE at = -1 \/ (at \in Nat /\ at < b.count)
  <1>1. b.count \in Nat  BY ItemMaxNat DEF Filled
  <1>2. CASE how = "position"  BY <1>1, <1>2 DEF u32_menu_find
  <1>3. CASE how # "position" /\ \E k \in 0..(b.count - 1) : b.it[k].id = item
    <2>1. PICK S : S = {k \in 0..(b.count - 1) : b.it[k].id = item}  OBVIOUS
    <2>2. S \subseteq Nat /\ S # {}  BY <1>3, <2>1
    <2>3. PICK i \in S : \A j \in S : i <= j  BY <2>2, LeastNat
    <2>4. i \in 0..(b.count - 1) /\ b.it[i].id = item /\ \A j \in 0..(i - 1) : b.it[j].id # item
      <3>1. ASSUME NEW j \in 0..(i - 1) PROVE b.it[j].id # item
        <4>1. i \in 0..(b.count - 1)  BY <2>1, <2>3
        <4>2. j \in 0..(b.count - 1) /\ ~(i <= j)  BY <1>1, <4>1
        <4> QED BY <2>1, <2>3, <4>2
      <3> QED BY <2>1, <2>3, <3>1
    <2>5. at = CHOOSE k \in 0..(b.count - 1) : b.it[k].id = item /\ \A j \in 0..(k - 1) : b.it[j].id # item
      BY <1>3 DEF u32_menu_find
    <2>6. at \in 0..(b.count - 1)  BY <2>4, <2>5
    <2> QED BY <1>1, <2>6
  <1>4. CASE how # "position" /\ \A k \in 0..(b.count - 1) : b.it[k].id # item
    BY <1>4 DEF u32_menu_find
  <1> QED BY <1>2, <1>3, <1>4
LEMMA MenuSeqn == ASSUME NEW b, Filled(b), b.used PROVE Seqn(MenuItems(b), b.count) /\ \A k \in 1..b.count : MenuItems(b)[k] = b.it[k - 1]
  <1>1. b.count \in Nat  BY ItemMaxNat DEF Filled
  <1> QED BY <1>1 DEF Seqn, MenuItems
LEMMA MenuNone == ASSUME NEW b, ~b.used PROVE MenuItems(b) = <<>>
  BY DEF MenuItems
\* Writing one item leaves the others.
LEMMA SetItemIs == ASSUME NEW b, Filled(b), NEW slot \in 0..(MItemMax - 1), NEW f, NEW d, NEW c, c = u32_menu_setitem(b, slot, f, d)
    PROVE \E v : c = [used |-> b.used, count |-> b.count, it |-> [b.it EXCEPT ![slot] = v]]
  <1>1. PICK v : v = [b.it[slot] EXCEPT !.flags = f, !.id = d, !.submenu = IF "POPUP" \in f THEN d ELSE NoMenu, !.text = "SEPARATOR" \notin f]
    OBVIOUS
  <1>2. PICK uu, cc, ii : uu = b.used /\ cc = b.count /\ ii = b.it  OBVIOUS
  <1>3. b = [used |-> uu, count |-> cc, it |-> ii]  BY <1>2 DEF Filled
  <1>4. PICK j : j = [ii EXCEPT ![slot] = v]  OBVIOUS
  <1>5. c = [b EXCEPT !.it[slot] = v]  BY <1>1 DEF u32_menu_setitem
  <1>6. c = [used |-> uu, count |-> cc, it |-> j]
    <2>1. [b EXCEPT !.it = j] = [used |-> uu, count |-> cc, it |-> j]  BY <1>3
    <2>2. c = [b EXCEPT !.it = j]  BY <1>2, <1>3, <1>4, <1>5
    <2> QED BY <2>1, <2>2
  <1>7. c = [used |-> b.used, count |-> b.count, it |-> [b.it EXCEPT ![slot] = v]]  BY <1>2, <1>4, <1>6
  <1> QED BY <1>7
\* A menu that changed simulates a step there.
MenuKept == MenuForm' /\ Simulates(MenuSeqs, MenuSeqs', MenuIds)
LEMMA OneMenu == ASSUME MenuForm, NEW i \in MenuIds, NEW y, menu' = [menu EXCEPT ![i] = y], Filled(y),
                        ListStep(MenuItems(menu[i]), MenuItems(y)) \/ MenuItems(y) = MenuItems(menu[i])
    PROVE MenuKept
  <1>1. PICK F, G : F = MenuSeqs /\ G = MenuSeqs'  OBVIOUS
  <1>2. PICK v, w : v = menu /\ w = menu'  OBVIOUS
  <1>3. v = [k \in MenuIds |-> v[k]] /\ \A k \in MenuIds : Filled(v[k])  BY <1>2 DEF MenuForm
  <1>4. w = [k \in MenuIds |-> IF k = i THEN y ELSE v[k]]  BY <1>2, <1>3
  <1>5. F = [k \in MenuIds |-> MenuItems(v[k])]  BY <1>1, <1>2 DEF MenuSeqs
  <1>6. G = [k \in MenuIds |-> MenuItems(w[k])]  BY <1>1, <1>2 DEF MenuSeqs, MenuItems
  <1>7. F = [l \in MenuIds |-> F[l]] /\ G = [l \in MenuIds |-> G[l]] /\ DOMAIN F = MenuIds  BY <1>5, <1>6
  <1>8. \A k \in MenuIds : k # i => G[k] = F[k]  BY <1>4, <1>5, <1>6
  <1>9. F[i] = MenuItems(menu[i]) /\ G[i] = MenuItems(y)  BY <1>2, <1>4, <1>5, <1>6
  <1>10. ASSUME ListStep(MenuItems(menu[i]), MenuItems(y)) PROVE Simulates(MenuSeqs, MenuSeqs', MenuIds)
    <2>1. ListStep(F[i], G[i])  BY <1>9, <1>10
    <2> QED BY <1>1, <1>7, <1>8, <2>1 DEF Simulates
  <1>11. ASSUME MenuItems(y) = MenuItems(menu[i]) PROVE Simulates(MenuSeqs, MenuSeqs', MenuIds)
    <2>1. F = G  BY <1>7, <1>8, <1>9, <1>11
    <2> QED BY <1>1, <1>7, <2>1 DEF Simulates
  <1>12. Simulates(MenuSeqs, MenuSeqs', MenuIds)  BY <1>10, <1>11
  <1>13. MenuForm'
    <2>1. w = [k \in MenuIds |-> w[k]]  BY <1>4
    <2>2. ASSUME NEW k \in MenuIds PROVE Filled(w[k])
      <3>1. w[k] = IF k = i THEN y ELSE v[k]  BY <1>4
      <3> QED BY <1>3, <3>1
    <2> QED BY <1>2, <2>1, <2>2 DEF MenuForm, Filled, Arr
  <1> QED BY <1>12, <1>13 DEF MenuKept
LEMMA SameMenu == ASSUME MenuForm, UNCHANGED menu PROVE MenuKept
  <1>1. MenuForm'  BY DEF MenuForm, Filled, Arr
  <1>2. MenuSeqs' = MenuSeqs  BY DEF MenuSeqs, MenuItems
  <1>3. MenuSeqs = [l \in MenuIds |-> MenuSeqs[l]] /\ DOMAIN MenuSeqs = MenuIds  BY DEF MenuSeqs
  <1>4. Simulates(MenuSeqs, MenuSeqs', MenuIds)
    <2>1. PICK F : F = MenuSeqs  OBVIOUS
    <2> QED BY <1>2, <1>3, <2>1 DEF Simulates
  <1> QED BY <1>1, <1>4 DEF MenuKept
LEMMA AppendStep == ASSUME MenuForm, NEW m \in MenuIds, NEW flags, NEW id, AppendMenuA(m, flags, id) PROVE MenuKept
  <1>1. PICK b : b = menu[m]  OBVIOUS
  <1>2. Filled(b) /\ b.used /\ b.count < MItemMax  BY <1>1 DEF MenuForm, AppendMenuA, u32_menu_idx
  <1>3. MItemMax \in Nat /\ b.count \in Nat /\ Arr(b.it, MItemMax)  BY <1>2, ItemMaxNat DEF Filled
  <1>4. PICK uu, n, ii : uu = b.used /\ n = b.count /\ ii = b.it  OBVIOUS
  <1>5. b = [used |-> uu, count |-> n, it |-> ii]  BY <1>2, <1>4 DEF Filled
  <1>6. PICK d : d = [b EXCEPT !.count = n + 1]  OBVIOUS
  <1>7. d = [used |-> uu, count |-> n + 1, it |-> ii]  BY <1>5, <1>6
  <1>8. d.used = uu /\ d.count = n + 1 /\ d.it = ii  BY <1>7
  <1>9. Filled(d)
    <2>1. n + 1 \in 0..MItemMax  BY <1>2, <1>3, <1>4
    <2>2. uu \in BOOLEAN  BY <1>2, <1>4 DEF Filled
    <2> QED BY <1>3, <1>4, <1>7, <1>8, <2>1, <2>2 DEF Filled
  <1>10. PICK y : y = u32_menu_setitem(d, n, flags, id)  OBVIOUS
  <1>11. PICK v : y = [used |-> d.used, count |-> d.count, it |-> [d.it EXCEPT ![n] = v]]
    <2>1. n \in 0..(MItemMax - 1)  BY <1>2, <1>3, <1>4
    <2> QED BY <1>9, <1>10, <2>1, SetItemIs
  <1>12. menu' = [menu EXCEPT ![m] = y]  BY <1>1, <1>4, <1>6, <1>10 DEF AppendMenuA, Change
  <1>13. PICK u : u = [ii EXCEPT ![n] = v]  OBVIOUS
  <1>14. y = [used |-> uu, count |-> n + 1, it |-> u]  BY <1>8, <1>11, <1>13
  <1>15. y.used = uu /\ y.count = n + 1 /\ y.it = u  BY <1>14
  <1>16. u = [j \in 0..(MItemMax - 1) |-> IF j = n THEN v ELSE ii[j]]
    <2>1. ii = [j \in 0..(MItemMax - 1) |-> ii[j]]  BY <1>3, <1>4 DEF Arr
    <2> QED BY <1>13, <2>1
  <1>17. Filled(y)
    <2>1. Arr(u, MItemMax)  BY <1>3, <1>16 DEF Arr
    <2>2. y.count \in 0..MItemMax /\ y.used \in BOOLEAN  BY <1>8, <1>9, <1>15 DEF Filled
    <2> QED BY <1>14, <1>15, <2>1, <2>2 DEF Filled
  <1>18. PICK s : s = MenuItems(b)  OBVIOUS
  <1>19. PICK t : t = MenuItems(y)  OBVIOUS
  <1>20. Seqn(s, n) /\ \A k \in 1..n : s[k] = ii[k - 1]  BY <1>2, <1>4, <1>18, MenuSeqn
  <1>21. Seqn(t, n + 1) /\ \A k \in 1..(n + 1) : t[k] = u[k - 1]
    <2>1. y.used  BY <1>2, <1>4, <1>15
    <2> QED BY <1>15, <1>17, <1>19, <2>1, MenuSeqn
  <1>22. \A j \in 1..n : s[j] = t[j]
    <2>1. ASSUME NEW j \in 1..n PROVE s[j] = t[j]
      <3>1. j - 1 \in 0..(MItemMax - 1) /\ j - 1 # n /\ j \in 1..(n + 1)  BY <1>2, <1>3, <1>4
      <3> QED BY <1>16, <1>20, <1>21, <3>1
    <2> QED BY <2>1
  <1>23. PrefixOf(s, t)
    <2>1. Seqn(s, n)  BY <1>20
    <2>2. Seqn(t, n + 1)  BY <1>21
    <2>3. n <= n + 1  BY <1>3, <1>4
    <2> QED BY <1>22, <2>1, <2>2, <2>3, Prefixed
  <1>24. ListStep(MenuItems(menu[m]), MenuItems(y))  BY <1>1, <1>18, <1>19, <1>23 DEF ListStep
  <1> QED BY <1>12, <1>17, <1>24, OneMenu
LEMMA InsertStep == ASSUME MenuForm, NEW m \in MenuIds, NEW item, NEW how, NEW flags, NEW id, InsertMenuA(m, item, how, flags, id) PROVE MenuKept
  <1>1. PICK b : b = menu[m]  OBVIOUS
  <1>2. Filled(b) /\ b.used /\ b.count < MItemMax  BY <1>1 DEF MenuForm, InsertMenuA, u32_menu_idx
  <1>3. MItemMax \in Nat /\ b.count \in Nat /\ Arr(b.it, MItemMax)  BY <1>2, ItemMaxNat DEF Filled
  <1>4. PICK uu, n, ii : uu = b.used /\ n = b.count /\ ii = b.it  OBVIOUS
  <1>5. b = [used |-> uu, count |-> n, it |-> ii]  BY <1>2, <1>4 DEF Filled
  <1>6. PICK found : found = u32_menu_find(b, item, how)  OBVIOUS
  <1>7. found = -1 \/ (found \in Nat /\ found < n)  BY <1>2, <1>4, <1>6, FindIs
  <1>8. PICK at : at = IF found < 0 THEN n ELSE found  OBVIOUS
  <1>9. at \in Nat /\ at <= n  BY <1>3, <1>4, <1>7, <1>8
  <1>10. PICK w : w = ShiftUp(ii, at, n)  OBVIOUS
  <1>11. w = [j \in 0..(MItemMax - 1) |-> IF at + 1 <= j /\ j <= n THEN ii[j - 1] ELSE ii[j]]
    <2>1. Arr(ii, MItemMax) /\ n \in Nat  BY <1>3, <1>4
    <2>2. w = UpBy(ii, MItemMax, at + 1, n)  BY <1>9, <1>10, <2>1, ShiftUpIs
    <2> QED BY <2>2 DEF UpBy
  <1>12. PICK d : d = [used |-> uu, count |-> n + 1, it |-> w]  OBVIOUS
  <1>13. d.used = uu /\ d.count = n + 1 /\ d.it = w  BY <1>12
  <1>14. Filled(d)
    <2>1. n + 1 \in 0..MItemMax  BY <1>2, <1>3, <1>4
    <2>2. uu \in BOOLEAN  BY <1>2, <1>4 DEF Filled
    <2>3. Arr(w, MItemMax)  BY <1>3, <1>11 DEF Arr
    <2> QED BY <1>12, <1>13, <2>1, <2>2, <2>3 DEF Filled
  <1>15. PICK y : y = u32_menu_setitem(d, at, flags, id)  OBVIOUS
  <1>16. PICK v : y = [used |-> d.used, count |-> d.count, it |-> [d.it EXCEPT ![at] = v]]
    <2>1. at \in 0..(MItemMax - 1)  BY <1>2, <1>3, <1>4, <1>9
    <2> QED BY <1>14, <1>15, <2>1, SetItemIs
  <1>17. menu' = [menu EXCEPT ![m] = y]
    <2>1. menu' = [menu EXCEPT ![m] = u32_menu_setitem([b EXCEPT !.it = w, !.count = n + 1], at, flags, id)]
      BY <1>1, <1>4, <1>6, <1>8, <1>10 DEF InsertMenuA, Change
    <2>2. [b EXCEPT !.it = w, !.count = n + 1] = d
      <3>1. PICK h : h = [b EXCEPT !.it = w]  OBVIOUS
      <3>2. h = [used |-> uu, count |-> n, it |-> w]  BY <1>5, <3>1
      <3>3. [h EXCEPT !.count = n + 1] = d  BY <1>12, <3>2
      <3> QED BY <3>1, <3>3
    <2> QED BY <1>15, <2>1, <2>2
  <1>18. PICK u : u = [w EXCEPT ![at] = v]  OBVIOUS
  <1>19. y = [used |-> uu, count |-> n + 1, it |-> u]  BY <1>13, <1>16, <1>18
  <1>20. y.used = uu /\ y.count = n + 1 /\ y.it = u  BY <1>19
  <1>21. u = [j \in 0..(MItemMax - 1) |-> IF j = at THEN v ELSE w[j]]  BY <1>11, <1>18
  <1>22. Filled(y)
    <2>1. Arr(u, MItemMax)  BY <1>3, <1>21 DEF Arr
    <2>2. y.count \in 0..MItemMax /\ y.used \in BOOLEAN  BY <1>13, <1>14, <1>20 DEF Filled
    <2> QED BY <1>19, <1>20, <2>1, <2>2 DEF Filled
  <1>23. PICK s : s = MenuItems(b)  OBVIOUS
  <1>24. PICK t : t = MenuItems(y)  OBVIOUS
  <1>25. Seqn(s, n) /\ \A k \in 1..n : s[k] = ii[k - 1]  BY <1>2, <1>4, <1>23, MenuSeqn
  <1>26. Seqn(t, n + 1) /\ \A k \in 1..(n + 1) : t[k] = u[k - 1]
    <2>1. y.used  BY <1>2, <1>4, <1>20
    <2> QED BY <1>20, <1>22, <1>24, <2>1, MenuSeqn
  <1>27. n \in Nat /\ n < MItemMax /\ MItemMax \in Nat  BY <1>2, <1>3, <1>4
  <1>28. ASSUME NEW j \in 1..n PROVE s[j] = IF j < at + 1 THEN t[j] ELSE t[j + 1]
    <2>1. CASE j < at + 1
      <3>1. j - 1 \in 0..(MItemMax - 1) /\ j - 1 # at /\ ~(at + 1 <= j - 1) /\ j \in 1..(n + 1)  BY <1>27, <1>9, <2>1
      <3>2. t[j] = ii[j - 1]  BY <1>11, <1>21, <1>26, <3>1
      <3> QED BY <1>25, <2>1, <3>2
    <2>2. CASE ~(j < at + 1)
      <3>1. j \in 0..(MItemMax - 1) /\ j # at /\ at + 1 <= j /\ j <= n /\ j + 1 \in 1..(n + 1) /\ (j + 1) - 1 = j  BY <1>27, <1>9, <2>2
      <3>2. u[j] = ii[j - 1]  BY <1>11, <1>21, <3>1
      <3>3. t[j + 1] = u[(j + 1) - 1]  BY <1>26, <3>1
      <3> QED BY <1>25, <2>2, <3>1, <3>2, <3>3
    <2> QED BY <2>1, <2>2
  <1>29. InsertedIn(s, t)
    <2>1. Seqn(s, n)  BY <1>25
    <2>2. Seqn(t, n + 1)  BY <1>26
    <2>3. at + 1 \in 1..(n + 1)  BY <1>27, <1>9
    <2> QED BY <2>1, <2>2, <2>3, <1>28, Inserted
  <1>30. ListStep(MenuItems(menu[m]), MenuItems(y))  BY <1>1, <1>23, <1>24, <1>29 DEF ListStep
  <1> QED BY <1>17, <1>22, <1>30, OneMenu
LEMMA RemoveStep == ASSUME MenuForm, NEW m \in MenuIds, NEW item, NEW how, DeleteMenu(m, item, how) PROVE MenuKept
  <1>1. PICK b : b = menu[m]  OBVIOUS
  <1>2. Filled(b) /\ b.used  BY <1>1 DEF MenuForm, DeleteMenu, u32_menu_idx
  <1>3. MItemMax \in Nat /\ b.count \in Nat /\ b.count <= MItemMax /\ Arr(b.it, MItemMax)  BY <1>2, ItemMaxNat DEF Filled
  <1>4. PICK uu, n, ii : uu = b.used /\ n = b.count /\ ii = b.it  OBVIOUS
  <1>5. b = [used |-> uu, count |-> n, it |-> ii]  BY <1>2, <1>4 DEF Filled
  <1>6. PICK at : at = u32_menu_find(b, item, how)  OBVIOUS
  <1>7. at = -1 \/ (at \in Nat /\ at < n)  BY <1>2, <1>4, <1>6, FindIs
  <1>8. at >= 0  BY <1>1, <1>6 DEF DeleteMenu
  <1>9. at \in Nat /\ at < n  BY <1>7, <1>8
  <1>10. PICK w : w = ShiftDown(ii, at, n)  OBVIOUS
  <1>11. w = [j \in 0..(MItemMax - 1) |-> IF at <= j /\ j <= n - 2 THEN ii[j + 1] ELSE ii[j]]
    <2>1. Arr(ii, MItemMax) /\ n \in Nat /\ n <= MItemMax  BY <1>3, <1>4
    <2>2. w = DownBy(ii, MItemMax, at, n - 2)  BY <1>9, <1>10, <2>1, ShiftDownIs
    <2> QED BY <2>2 DEF DownBy
  <1>12. PICK n1 : n1 = n - 1  OBVIOUS
  <1>13. n1 \in Nat /\ n1 + 1 = n /\ n1 <= MItemMax /\ n \in Nat /\ n <= MItemMax  BY <1>3, <1>4, <1>9, <1>12
  <1>14. PICK y : y = [used |-> uu, count |-> n1, it |-> w]  OBVIOUS
  <1>15. menu' = [menu EXCEPT ![m] = y]
    <2>1. menu' = [menu EXCEPT ![m] = [b EXCEPT !.it = w, !.count = n1]]
      BY <1>1, <1>4, <1>6, <1>10, <1>12 DEF DeleteMenu, Change
    <2>2. [b EXCEPT !.it = w, !.count = n1] = y
      <3>1. PICK h : h = [b EXCEPT !.it = w]  OBVIOUS
      <3>2. h = [used |-> uu, count |-> n, it |-> w]  BY <1>5, <3>1
      <3>3. [h EXCEPT !.count = n1] = y  BY <1>14, <3>2
      <3> QED BY <3>1, <3>3
    <2> QED BY <2>1, <2>2
  <1>16. y.used = uu /\ y.count = n1 /\ y.it = w  BY <1>14
  <1>17. Filled(y)
    <2>1. Arr(w, MItemMax)  BY <1>3, <1>11 DEF Arr
    <2>2. y.count \in 0..MItemMax /\ y.used \in BOOLEAN  BY <1>2, <1>3, <1>4, <1>13, <1>16 DEF Filled
    <2> QED BY <1>14, <1>16, <2>1, <2>2 DEF Filled
  <1>18. PICK s : s = MenuItems(b)  OBVIOUS
  <1>19. PICK t : t = MenuItems(y)  OBVIOUS
  <1>20. Seqn(s, n1 + 1) /\ \A k \in 1..(n1 + 1) : s[k] = ii[k - 1]
    <2>1. Seqn(s, n) /\ \A k \in 1..n : s[k] = ii[k - 1]  BY <1>2, <1>4, <1>18, MenuSeqn
    <2> QED BY <2>1, <1>13
  <1>21. Seqn(t, n1) /\ \A k \in 1..n1 : t[k] = w[k - 1]
    <2>1. y.used  BY <1>2, <1>4, <1>16
    <2> QED BY <1>16, <1>17, <1>19, <2>1, MenuSeqn
  <1>22. ASSUME NEW j \in 1..n1 PROVE t[j] = IF j < at + 1 THEN s[j] ELSE s[j + 1]
    <2>1. j - 1 \in 0..(MItemMax - 1) /\ j \in 1..(n1 + 1) /\ j + 1 \in 1..(n1 + 1) /\ (j - 1) + 1 = j /\ (j + 1) - 1 = j  BY <1>13, <1>3
    <2>2. CASE j < at + 1
      <3>1. ~(at <= j - 1 /\ j - 1 <= n - 2)  BY <1>9, <2>2
      <3>2. t[j] = ii[j - 1]  BY <1>11, <1>21, <2>1, <3>1
      <3> QED BY <1>20, <2>1, <2>2, <3>2
    <2>3. CASE ~(j < at + 1)
      <3>1. at <= j - 1 /\ j - 1 <= n - 2  BY <1>9, <1>13, <2>3
      <3>2. t[j] = ii[(j - 1) + 1]  BY <1>11, <1>21, <2>1, <3>1
      <3>3. s[j + 1] = ii[(j + 1) - 1]  BY <1>20, <2>1
      <3> QED BY <2>1, <2>3, <3>2, <3>3
    <2> QED BY <2>2, <2>3
  <1>23. InsertedIn(t, s)
    <2>1. Seqn(t, n1)  BY <1>21
    <2>2. Seqn(s, n1 + 1)  BY <1>20
    <2>3. at + 1 \in 1..(n1 + 1)  BY <1>9, <1>13
    <2> QED BY <2>1, <2>2, <2>3, <1>22, Inserted
  <1>24. ListStep(MenuItems(menu[m]), MenuItems(y))  BY <1>1, <1>18, <1>19, <1>23 DEF ListStep
  <1> QED BY <1>15, <1>17, <1>24, OneMenu
\* One item of a menu replaced.
ReplacedAt(m, at, v, u, uu, n, y) ==
    /\ menu[m].used /\ at \in Nat /\ at < menu[m].count
    /\ u = [j \in 0..(MItemMax - 1) |-> IF j = at THEN v ELSE menu[m].it[j]]
    /\ uu = menu[m].used /\ n = menu[m].count /\ y = [used |-> uu, count |-> n, it |-> u]
    /\ menu' = [menu EXCEPT ![m] = y]
LEMMA ReplaceStep == ASSUME MenuForm, NEW m \in MenuIds, NEW at, NEW v, NEW u, NEW uu, NEW n, NEW y, ReplacedAt(m, at, v, u, uu, n, y)
    PROVE MenuKept
  <1>1. PICK b : b = menu[m]  OBVIOUS
  <1>2. Filled(b) /\ b.used  BY <1>1 DEF MenuForm, ReplacedAt
  <1>3. PICK ii : uu = b.used /\ n = b.count /\ ii = b.it  BY <1>1 DEF ReplacedAt
  <1>4. MItemMax \in Nat /\ n \in Nat /\ n <= MItemMax /\ Arr(ii, MItemMax) /\ at < n /\ at \in Nat  BY <1>1, <1>2, <1>3, ItemMaxNat DEF Filled, ReplacedAt
  <1>6. u = [j \in 0..(MItemMax - 1) |-> IF j = at THEN v ELSE ii[j]]  BY <1>1, <1>3 DEF ReplacedAt
  <1>7. y = [used |-> uu, count |-> n, it |-> u]  BY DEF ReplacedAt
  <1>8. y.used = uu /\ y.count = n /\ y.it = u  BY <1>7
  <1>9. Filled(y)
    <2>1. Arr(u, MItemMax)  BY <1>4, <1>6 DEF Arr
    <2>2. y.count \in 0..MItemMax /\ y.used \in BOOLEAN  BY <1>2, <1>3, <1>8 DEF Filled
    <2> QED BY <1>7, <1>8, <2>1, <2>2 DEF Filled
  <1>10. PICK s : s = MenuItems(b)  OBVIOUS
  <1>11. PICK t : t = MenuItems(y)  OBVIOUS
  <1>12. Seqn(s, n) /\ \A k \in 1..n : s[k] = ii[k - 1]  BY <1>2, <1>3, <1>10, MenuSeqn
  <1>13. Seqn(t, n) /\ \A k \in 1..n : t[k] = u[k - 1]
    <2>1. y.used  BY <1>2, <1>3, <1>8
    <2>2. Seqn(MenuItems(y), y.count) /\ \A k \in 1..y.count : MenuItems(y)[k] = y.it[k - 1]  BY <1>9, <2>1, MenuSeqn, Zenon
    <2>3. y.count = n /\ y.it = u  BY <1>8
    <2> QED BY <1>11, <2>2, <2>3
  <1>14. ASSUME NEW j \in 1..n, j # at + 1 PROVE s[j] = t[j]
    <2>1. j - 1 \in 0..(MItemMax - 1) /\ j - 1 # at  BY <1>4, <1>14
    <2> QED BY <1>6, <1>12, <1>13, <2>1
  <1>15. ReplacedIn(s, t)
    <2>1. at + 1 \in 1..n  BY <1>4
    <2>2. Seqn(s, n) /\ Seqn(t, n)  BY <1>12, <1>13
    <2> QED BY <1>14, <2>1, <2>2, Replaced
  <1>16. ListStep(MenuItems(menu[m]), MenuItems(y))  BY <1>1, <1>10, <1>11, <1>15 DEF ListStep
  <1>17. menu' = [menu EXCEPT ![m] = y]  BY DEF ReplacedAt
  <1> QED BY <1>9, <1>16, <1>17, OneMenu
LEMMA AtItemIs == ASSUME MenuForm, NEW m \in MenuIds, NEW item, NEW how, AtItem(m, item, how), NEW at, at = u32_menu_find(menu[m], item, how)
    PROVE Filled(menu[m]) /\ menu[m].used /\ at \in Nat /\ at < menu[m].count /\ at \in 0..(MItemMax - 1)
  <1>1. Filled(menu[m]) /\ menu[m].used  BY DEF MenuForm, AtItem, u32_menu_idx
  <1>2. at = -1 \/ (at \in Nat /\ at < menu[m].count)  BY <1>1, FindIs
  <1>3. at >= 0  BY DEF AtItem
  <1>4. at \in Nat /\ at < menu[m].count  BY <1>2, <1>3
  <1>5. menu[m].count \in 0..MItemMax /\ MItemMax \in Nat  BY <1>1, ItemMaxNat DEF Filled
  <1> QED BY <1>1, <1>4, <1>5
LEMMA ModifyStep == ASSUME MenuForm, NEW m \in MenuIds, NEW item, NEW how, NEW flags, NEW id, ModifyMenuA(m, item, how, flags, id) PROVE MenuKept
  <1>1. PICK at : at = u32_menu_find(menu[m], item, how)  OBVIOUS
  <1>2. AtItem(m, item, how)  BY DEF ModifyMenuA
  <1>3. Filled(menu[m]) /\ menu[m].used /\ at \in Nat /\ at < menu[m].count /\ at \in 0..(MItemMax - 1)  BY <1>1, <1>2, AtItemIs
  <1>4. PICK b : b = menu[m]  OBVIOUS
  <1>5. Filled(b)  BY <1>3, <1>4
  <1>6. PICK y : y = u32_menu_setitem(b, at, flags, id)  OBVIOUS
  <1>7. menu' = [menu EXCEPT ![m] = y]  BY <1>1, <1>4, <1>6 DEF ModifyMenuA, Change
  <1>8. PICK v : y = [used |-> b.used, count |-> b.count, it |-> [b.it EXCEPT ![at] = v]]
    BY <1>3, <1>5, <1>6, SetItemIs
  <1>9. PICK u : u = [j \in 0..(MItemMax - 1) |-> IF j = at THEN v ELSE b.it[j]]  OBVIOUS
  <1>10. b.it = [j \in 0..(MItemMax - 1) |-> b.it[j]]  BY <1>5 DEF Filled, Arr
  <1>11. [b.it EXCEPT ![at] = v] = u  BY <1>9, <1>10
  <1>12. PICK uu, n : uu = menu[m].used /\ n = menu[m].count  OBVIOUS
  <1>14. y = [used |-> uu, count |-> n, it |-> u]  BY <1>4, <1>8, <1>11, <1>12
  <1>13. u = [j \in 0..(MItemMax - 1) |-> IF j = at THEN v ELSE menu[m].it[j]]  BY <1>4, <1>9
  <1>15. menu[m].used  BY <1>3
  <1>16. at \in Nat /\ at < menu[m].count  BY <1>3
  <1>17. ReplacedAt(m, at, v, u, uu, n, y)  BY <1>7, <1>12, <1>13, <1>14, <1>15, <1>16 DEF ReplacedAt
  <1> QED BY <1>17, ReplaceStep
LEMMA FlagStep == ASSUME MenuForm, NEW m \in MenuIds, NEW item, NEW how, NEW flag, NEW on, SetFlag(m, item, how, flag, on) PROVE MenuKept
  <1>1. PICK at : at = u32_menu_find(menu[m], item, how)  OBVIOUS
  <1>2. AtItem(m, item, how)  BY DEF SetFlag
  <1>3. Filled(menu[m]) /\ menu[m].used /\ at \in Nat /\ at < menu[m].count /\ at \in 0..(MItemMax - 1)  BY <1>1, <1>2, AtItemIs
  <1>4. PICK b : b = menu[m]  OBVIOUS
  <1>5. PICK uu, n, ii : uu = b.used /\ n = b.count /\ ii = b.it  OBVIOUS
  <1>6. b = [used |-> uu, count |-> n, it |-> ii]  BY <1>3, <1>4, <1>5 DEF Filled
  <1>7. PICK v : v = [ii[at] EXCEPT !.flags = IF on THEN @ \cup {flag} ELSE @ \ {flag}]  OBVIOUS
  <1>8. PICK y : y = [used |-> uu, count |-> n, it |-> [ii EXCEPT ![at] = v]]  OBVIOUS
  <1>9. menu' = [menu EXCEPT ![m] = y]
    <2>1. ii = [j \in 0..(MItemMax - 1) |-> ii[j]]  BY <1>3, <1>4, <1>5 DEF Filled, Arr
    <2>2. PICK h : h = [b EXCEPT !.it[at].flags = IF on THEN @ \cup {flag} ELSE @ \ {flag}]  OBVIOUS
    <2>3. menu' = [menu EXCEPT ![m] = h]  BY <1>1, <1>4, <2>2 DEF SetFlag, Change
    <2>4. h = [b EXCEPT !.it = [ii EXCEPT ![at] = v]]  BY <1>5, <1>7, <2>1, <2>2
    <2>5. PICK u : u = [ii EXCEPT ![at] = v]  OBVIOUS
    <2>6. [b EXCEPT !.it = u] = [used |-> uu, count |-> n, it |-> u]  BY <1>6
    <2> QED BY <1>8, <2>3, <2>4, <2>5, <2>6
  <1>10. PICK u : u = [j \in 0..(MItemMax - 1) |-> IF j = at THEN v ELSE ii[j]]  OBVIOUS
  <1>11. [ii EXCEPT ![at] = v] = u
    <2>1. ii = [j \in 0..(MItemMax - 1) |-> ii[j]]  BY <1>3, <1>4, <1>5 DEF Filled, Arr
    <2> QED BY <1>10, <2>1
  <1>12. uu = menu[m].used /\ n = menu[m].count /\ y = [used |-> uu, count |-> n, it |-> u]  BY <1>4, <1>5, <1>8, <1>11
  <1>13. u = [j \in 0..(MItemMax - 1) |-> IF j = at THEN v ELSE menu[m].it[j]]  BY <1>4, <1>5, <1>10
  <1>15. menu[m].used  BY <1>3
  <1>16. at \in Nat /\ at < menu[m].count  BY <1>3
  <1>17. ReplacedAt(m, at, v, u, uu, n, y)  BY <1>9, <1>12, <1>13, <1>15, <1>16 DEF ReplacedAt
  <1> QED BY <1>17, ReplaceStep
\* A menu that comes to life was empty; one that goes is empty again.
LEMMA BirthStep == ASSUME MenuForm, NEW f, f = FreeMenu, NEW y, Filled(y), menu' = IF f = NoMenu THEN menu ELSE [menu EXCEPT ![f] = y]
    PROVE MenuKept
  <1>1. f = NoMenu \/ (f \in MenuIds /\ ~menu[f].used)  BY FreeMenuFree
  <1>2. CASE f = NoMenu
    <2>1. UNCHANGED menu  BY <1>2
    <2> QED BY <2>1, SameMenu
  <1>3. CASE f # NoMenu
    <2>1. f \in MenuIds /\ ~menu[f].used /\ menu' = [menu EXCEPT ![f] = y]  BY <1>1, <1>3
    <2>2. PICK s : s = MenuItems(menu[f])  OBVIOUS
    <2>3. PICK t : t = MenuItems(y)  OBVIOUS
    <2>4. s = <<>>  BY <2>1, <2>2, MenuNone
    <2>5. Seqn(s, 0)  BY <2>4 DEF Seqn
    <2>6. PICK n : n \in Nat /\ Seqn(t, n)
      <3>1. CASE y.used
        <4>1. Seqn(t, y.count)  BY <3>1, <2>3, MenuSeqn
        <4>2. y.count \in Nat  BY <4>1 DEF Seqn
        <4> QED BY <4>1, <4>2
      <3>2. CASE ~y.used
        <4>1. t = <<>>  BY <2>3, <3>2, MenuNone
        <4>2. Seqn(t, 0)  BY <4>1 DEF Seqn
        <4> QED BY <4>2
      <3> QED BY <3>1, <3>2
    <2>7. PrefixOf(s, t)
      <3>1. 0 <= n /\ \A j \in 1..0 : s[j] = t[j]  BY <2>6
      <3>2. Seqn(t, n)  BY <2>6
      <3> QED BY <2>5, <3>1, <3>2, Prefixed
    <2>8. ListStep(MenuItems(menu[f]), MenuItems(y))  BY <2>2, <2>3, <2>7 DEF ListStep
    <2> QED BY <2>1, <2>8, OneMenu
  <1> QED BY <1>2, <1>3
LEMMA DeathStep == ASSUME MenuForm, NEW m \in MenuIds, menu' = [menu EXCEPT ![m].used = FALSE] PROVE MenuKept
  <1>1. PICK b : b = menu[m]  OBVIOUS
  <1>2. Filled(b)  BY <1>1 DEF MenuForm
  <1>3. PICK uu, n, ii : uu = b.used /\ n = b.count /\ ii = b.it  OBVIOUS
  <1>4. b = [used |-> uu, count |-> n, it |-> ii]  BY <1>2, <1>3 DEF Filled
  <1>5. PICK no : no = FALSE  OBVIOUS
  <1>6. PICK y : y = [used |-> no, count |-> n, it |-> ii]  OBVIOUS
  <1>7. menu' = [menu EXCEPT ![m] = y]
    <2>1. [b EXCEPT !.used = no] = y  BY <1>4, <1>6
    <2>2. menu = [k \in MenuIds |-> menu[k]]  BY DEF MenuForm
    <2>3. menu' = [menu EXCEPT ![m] = [b EXCEPT !.used = no]]  BY <1>1, <1>5, <2>2
    <2> QED BY <2>1, <2>3
  <1>8. y.used = no /\ y.count = n /\ y.it = ii  BY <1>6
  <1>9. Filled(y)
    <2>1. n \in 0..MItemMax /\ Arr(ii, MItemMax)  BY <1>2, <1>3 DEF Filled
    <2>2. y = [used |-> y.used, count |-> y.count, it |-> y.it]  BY <1>6, <1>8
    <2>3. y.used \in BOOLEAN  BY <1>5, <1>8
    <2> QED BY <1>8, <2>1, <2>2, <2>3 DEF Filled
  <1>10. MenuItems(y) = <<>>
    <2>1. ~y.used  BY <1>5, <1>8
    <2> QED BY <2>1, MenuNone
  <1>11. ListStep(MenuItems(menu[m]), MenuItems(y))  BY <1>10 DEF ListStep
  <1> QED BY <1>7, <1>9, <1>11, OneMenu
LEMMA EmptyFilled == Filled(EmptyMenu) /\ Filled([EmptyMenu EXCEPT !.used = FALSE])
  <1>1. PICK yes, no : yes = TRUE /\ no = FALSE  OBVIOUS
  <1>2. PICK a : a = [k \in 0..(MItemMax - 1) |-> NoItem]  OBVIOUS
  <1>3. Arr(a, MItemMax) /\ 0 \in 0..MItemMax  BY <1>2, ItemMaxNat DEF Arr
  <1>4. PICK e : e = EmptyMenu  OBVIOUS
  <1>5. e = [used |-> yes, count |-> 0, it |-> a]  BY <1>1, <1>2, <1>4 DEF EmptyMenu
  <1>6. e.used = yes /\ e.count = 0 /\ e.it = a  BY <1>5
  <1>7. Filled(e)  BY <1>1, <1>3, <1>5, <1>6 DEF Filled
  <1>8. PICK d : d = [e EXCEPT !.used = no]  OBVIOUS
  <1>9. d = [used |-> no, count |-> 0, it |-> a]  BY <1>5, <1>8
  <1>10. d.used = no /\ d.count = 0 /\ d.it = a  BY <1>9
  <1>11. Filled(d)  BY <1>1, <1>3, <1>9, <1>10 DEF Filled
  <1> QED BY <1>1, <1>4, <1>7, <1>8, <1>11
LEMMA SysFilled == Filled(SysMenu)
  <1>1. PICK yes : yes = TRUE  OBVIOUS
  <1>2. PICK a : a = [k \in 0..(MItemMax - 1) |-> NoItem]  OBVIOUS
  <1>3. PICK u : u = [k \in 0..(MItemMax - 1) |-> IF k < Len(SysCommands) THEN [NoItem EXCEPT !.id = SysCommands[k + 1], !.text = TRUE] ELSE NoItem]
    OBVIOUS
  <1>4. PICK n : n = Len(SysCommands)  OBVIOUS
  <1>5. n \in 0..MItemMax
    <2>1. SysCommands \in Seq(Nat) /\ Len(SysCommands) <= MItemMax /\ MItemMax \in Nat  BY ItemMaxNat
    <2>2. Len(SysCommands) \in Nat  BY <2>1
    <2> QED BY <1>4, <2>1, <2>2
  <1>6. PICK e : e = EmptyMenu  OBVIOUS
  <1>7. e = [used |-> yes, count |-> 0, it |-> a]  BY <1>1, <1>2, <1>6 DEF EmptyMenu
  <1>8. e.it = a /\ DOMAIN a = 0..(MItemMax - 1)  BY <1>2, <1>7
  <1>9. PICK y : y = SysMenu  OBVIOUS
  <1>10. y = [e EXCEPT !.count = n, !.it = u]  BY <1>3, <1>4, <1>6, <1>8, <1>9 DEF SysMenu
  <1>11. y = [used |-> yes, count |-> n, it |-> u]
    <2>1. PICK h : h = [e EXCEPT !.count = n]  OBVIOUS
    <2>2. h = [used |-> yes, count |-> n, it |-> a]  BY <1>7, <2>1
    <2>3. [h EXCEPT !.it = u] = [used |-> yes, count |-> n, it |-> u]  BY <2>2
    <2> QED BY <1>10, <2>1, <2>3
  <1>12. y.used = yes /\ y.count = n /\ y.it = u  BY <1>11
  <1>13. Arr(u, MItemMax)  BY <1>3, ItemMaxNat DEF Arr
  <1>14. Filled(y)  BY <1>1, <1>5, <1>11, <1>12, <1>13 DEF Filled
  <1> QED BY <1>9, <1>14
LEMMA EditListStep == ASSUME MenuForm, NEW m \in MenuIds, NEW item, NEW how, NEW flags, NEW id,
        \/ AppendMenuA(m, flags, id) \/ InsertMenuA(m, item, how, flags, id) \/ DeleteMenu(m, item, how)
        \/ ModifyMenuA(m, item, how, flags, id)
        \/ \E on \in BOOLEAN : EnableMenuItem(m, item, how, on) \/ CheckMenuItem(m, item, how, on)
    PROVE MenuKept
  BY AppendStep, InsertStep, RemoveStep, ModifyStep, FlagStep DEF EnableMenuItem, CheckMenuItem
LEMMA SystemStep == ASSUME MenuForm, NEW w \in MenuWindows, NEW r \in BOOLEAN, GetSystemMenu(w, r) PROVE MenuKept
  <1>1. CASE r
    <2>1. PICK m : m = wsys[w]  OBVIOUS
    <2>2. menu' = IF u32_menu_idx(m) THEN [menu EXCEPT ![m].used = FALSE] ELSE menu  BY <1>1, <2>1 DEF GetSystemMenu
    <2>3. CASE u32_menu_idx(m)
      <3>1. m \in MenuIds  BY <2>3 DEF u32_menu_idx
      <3>2. menu' = [menu EXCEPT ![m].used = FALSE]  BY <2>2, <2>3
      <3> QED BY <3>1, <3>2, DeathStep
    <2>4. CASE ~u32_menu_idx(m)
      <3>1. UNCHANGED menu  BY <2>2, <2>4
      <3> QED BY <3>1, SameMenu
    <2> QED BY <2>3, <2>4
  <1>2. CASE ~r
    <2>1. PICK f : f = FreeMenu  OBVIOUS
    <2>2. PICK y : y = SysMenu  OBVIOUS
    <2>3. menu' = IF f = NoMenu THEN menu ELSE [menu EXCEPT ![f] = y]  BY <1>2, <2>1, <2>2 DEF GetSystemMenu
    <2>4. Filled(y)  BY <2>2, SysFilled
    <2> QED BY <2>1, <2>3, <2>4, BirthStep
  <1> QED BY <1>1, <1>2
LEMMA MenuListStep == ASSUME MenuInv, MenuForm, MenuNext PROVE MenuKept
  <1>1. CASE CreateMenu
    <2>1. PICK f : f = FreeMenu  OBVIOUS
    <2>2. PICK y : y = EmptyMenu  OBVIOUS
    <2>3. menu' = IF f = NoMenu THEN menu ELSE [menu EXCEPT ![f] = y]  BY <1>1, <2>1, <2>2 DEF CreateMenu, u32_menu_new
    <2>4. Filled(y)  BY <2>2, EmptyFilled
    <2> QED BY <2>1, <2>3, <2>4, BirthStep
  <1>2. ASSUME NEW m, DestroyMenu(m) PROVE MenuKept
    <2>1. m \in MenuIds  BY <1>2 DEF DestroyMenu, u32_menu_idx
    <2>2. menu' = [menu EXCEPT ![m].used = FALSE]  BY <1>2 DEF DestroyMenu
    <2> QED BY <2>1, <2>2, DeathStep
  <1>3. ASSUME NEW w, NEW m, SetMenu(w, m) PROVE MenuKept
    <2>1. UNCHANGED menu  BY <1>3 DEF SetMenu
    <2> QED BY <2>1, SameMenu
  <1>4. \A m \in Editable : m \in MenuIds  BY EditableId
  <1>5. CASE \E m \in Editable, item \in Nat, how \in {"position", "command"}, flags \in SUBSET {"POPUP", "SEPARATOR", "GRAYED", "CHECKED"}, id \in Nat :
                \/ AppendMenuA(m, flags, id) \/ InsertMenuA(m, item, how, flags, id) \/ DeleteMenu(m, item, how)
                \/ ModifyMenuA(m, item, how, flags, id)
                \/ \E on \in BOOLEAN : EnableMenuItem(m, item, how, on) \/ CheckMenuItem(m, item, how, on)
    <2>1. PICK m \in MenuIds, item \in Nat, how \in {"position", "command"}, flags \in SUBSET {"POPUP", "SEPARATOR", "GRAYED", "CHECKED"}, id \in Nat :
                \/ AppendMenuA(m, flags, id) \/ InsertMenuA(m, item, how, flags, id) \/ DeleteMenu(m, item, how)
                \/ ModifyMenuA(m, item, how, flags, id)
                \/ \E on \in BOOLEAN : EnableMenuItem(m, item, how, on) \/ CheckMenuItem(m, item, how, on)
      BY <1>4, <1>5
    <2> QED BY <2>1, EditListStep
  <1> QED BY <1>1, <1>2, <1>3, <1>5, SystemStep DEF MenuNext, MenuLife
LEMMA MenuSafe == ControlsSpec => MenuIsList
  <1>1. MenusInit => MenuInv /\ MenuForm /\ MenuLists!Init
    <2> SUFFICES ASSUME MenusInit PROVE MenuInv /\ MenuForm /\ MenuLists!Init  OBVIOUS
    <2>1. PICK e : e = [EmptyMenu EXCEPT !.used = FALSE]  OBVIOUS
    <2>2. menu = [m \in MenuIds |-> e] /\ wsys = [w \in MenuWindows |-> NoMenu] /\ mine = {}  BY <2>1 DEF MenusInit
    <2>3. Shaped(e) /\ ~e.used  BY <2>1 DEF Shaped, EmptyMenu
    <2>4. MenuInv  BY <2>2, <2>3 DEF MenuInv
    <2>5. Filled(e)  BY <2>1, EmptyFilled
    <2>6. MenuForm  BY <2>2, <2>5 DEF MenuForm
    <2>7. ASSUME NEW m \in MenuIds PROVE MenuSeqs[m] = <<>>
      <3>1. MenuSeqs[m] = MenuItems(e)  BY <2>2 DEF MenuSeqs
      <3> QED BY <2>3, <3>1, MenuNone
    <2>8. DOMAIN MenuSeqs = MenuIds  BY DEF MenuSeqs
    <2> QED BY <2>4, <2>6, <2>7, <2>8 DEF MenuLists!Init
  <1>2. MenuInv /\ MenuForm /\ [ControlsStep]_<<menuVars, ctrlVars>> => MenuInv' /\ MenuForm' /\ [MenuLists!Next]_MenuSeqs
    <2> SUFFICES ASSUME MenuInv, MenuForm, [ControlsStep]_<<menuVars, ctrlVars>> PROVE MenuInv' /\ MenuForm' /\ [MenuLists!Next]_MenuSeqs  OBVIOUS
    <2>1. MenuInv' /\ MenuKept
      <3>1. CASE MenuNext  BY <3>1, MenuStep, MenuListStep
      <3>2. CASE UNCHANGED menuVars
        <4>1. MenuInv'  BY <3>2 DEF MenuInv, menuVars, Shaped
        <4>2. UNCHANGED menu  BY <3>2 DEF menuVars
        <4> QED BY <4>1, <4>2, SameMenu
      <3> QED BY <3>1, <3>2 DEF ControlsStep
    <2>2. MenuForm' /\ Simulates(MenuSeqs, MenuSeqs', MenuIds)  BY <2>1 DEF MenuKept
    <2> QED BY <2>1, <2>2, MenuSim
  <1> QED BY <1>1, <1>2, PTL DEF ControlsSpec, ControlsStep, MenuIsList, MenuLists!Spec
\* Menus, list boxes and image lists refine the abstract lists: whatever is shifted, grown or refused,
\* what each stores changes as its calls describe.  A string that cannot be stored is left out: the
\* code has moved the later items by then.
THEOREM ListsAreKept == ASSUME "string" \notin Oom PROVE ControlsSpec /\ ImlSpec => ListsKept
  <1>1. ControlsSpec => MenuIsList  BY MenuSafe
  <1>2. ControlsSpec => BoxIsList  BY BoxSafe
  <1>3. ImlSpec => ImagesKept  BY ImlSafe
  <1> QED BY <1>1, <1>2, <1>3 DEF ListsKept
=============================================================================
