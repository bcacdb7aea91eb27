------------------------------ MODULE Registry ------------------------------
(***************************************************************************)
(* The in-memory registry (g_reg): a table of keys with their parents'       *)
(* indices, and in each key a table of values; the Reg* calls of advapi32    *)
(* and the Nt* calls of ntdll over it.  A name is a sequence of character    *)
(* codes, because how long it is matters; a handle is the key's index.       *)
(***************************************************************************)
EXTENDS Integers, Sequences, FiniteSets, FiniteSetsExt, SequencesExt

CONSTANTS Roots,        \* U32_REG_ROOTS
          MaxKey,       \* U32_MAX_REGKEY
          MaxVal,       \* U32_MAX_REGVAL
          NameCap,      \* U32_REGNAME, with the terminator
          DataCap,      \* U32_REGDATA
          Paths,        \* the paths, the names and the data the program uses
          ValueNames,
          DataSet

ASSUME RegistryAssumption ==
    /\ Roots \in Nat \ {0} /\ MaxKey \in Nat /\ Roots <= MaxKey
    /\ MaxVal \in Nat /\ NameCap \in Nat \ {0, 1} /\ DataCap \in Nat

VARIABLE g_reg          \* [used, parent, name, val] per slot; val: [used, name, type, len, data] per value slot

RootSlots == 0..(Roots - 1)
KeySlots == Roots..(MaxKey - 1)
Slots == 0..(MaxKey - 1)
ValSlots == 0..(MaxVal - 1)
Handles == Slots \cup {-1}
NoVal == [used |-> FALSE, name |-> <<>>, type |-> "none", len |-> 0, data |-> [i \in 1..DataCap |-> 0]]
Shown(v) == SubSeq(v.data, 1, v.len)
NoKey == [used |-> FALSE, parent |-> -1, name |-> <<>>, val |-> [i \in ValSlots |-> NoVal]]

u32_reg_init == g_reg = [k \in Slots |-> [NoKey EXCEPT !.used = k \in RootSlots]]

\* The key a handle denotes, or -1: a handle is the index alone, so one kept over a
\* deletion denotes the slot's next key.
u32_reg_idx(r, h) == IF h \in Slots /\ r[h].used THEN h ELSE -1

Up(c) == IF c \in 97..122 THEN c - 32 ELSE c
Fold(n) == [i \in DOMAIN n |-> Up(n[i])]
Trunc(n) == SubSeq(n, 1, Min({Len(n), NameCap - 1}))
FirstIn(S) == IF S = {} THEN -1 ELSE Min(S)

u32_reg_child(r, k, n) ==
    FirstIn({i \in KeySlots : r[i].used /\ r[i].parent = k /\ Fold(r[i].name) = Fold(n)})

Separator == 92
\* The components of a path; one too long for a name goes on as a component of its own.
Components(path) ==
    LET Step(cs, c) ==
            IF c = Separator THEN (IF Last(cs) = <<>> THEN cs ELSE Append(cs, <<>>))
            ELSE IF Len(Last(cs)) = NameCap - 1 THEN Append(cs, <<c>>)
            ELSE [cs EXCEPT ![Len(cs)] = Append(@, c)]
    IN  SelectSeq(FoldLeft(Step, <<<<>>>>, path), LAMBDA n : n # <<>>)

\* One component of the walk: w is [reg, cur, made], cur = -1 once the walk has failed.
WalkStep(w, n, create) ==
    LET nxt == u32_reg_child(w.reg, w.cur, n)
        free == FirstIn({i \in KeySlots : ~w.reg[i].used})
    IN  IF w.cur = -1 THEN w
        ELSE IF nxt # -1 THEN [w EXCEPT !.cur = nxt, !.made = FALSE]
        ELSE IF ~create \/ free = -1 THEN [w EXCEPT !.cur = -1]
        ELSE [reg |-> [w.reg EXCEPT ![free] = [NoKey EXCEPT !.used = TRUE, !.parent = w.cur, !.name = n]],
              cur |-> free, made |-> TRUE]
u32_reg_walk(r, h, path, create) ==
    FoldLeft(LAMBDA w, n : WalkStep(w, n, create),
             [reg |-> r, cur |-> u32_reg_idx(r, h), made |-> FALSE], Components(path))

FindVal(r, k, n) == FirstIn({i \in ValSlots : r[k].val[i].used /\ Fold(r[k].val[i].name) = Fold(n)})

\* A key and the keys below it, as deep as the table can make them.
Below(r, k) ==
    LET level[d \in Nat] == IF d = 0 THEN {k}
                            ELSE {i \in KeySlots : r[i].used /\ r[i].parent \in level[d - 1]}
    IN  UNION {level[d] : d \in 0..Cardinality(KeySlots)}
\* Mutant: only the children of a deleted key go with it.
DelChildrenOnly(r, k) == [i \in Slots |-> IF i = k \/ (r[i].used /\ r[i].parent = k)
                                          THEN NoKey ELSE r[i]]
\* A slot is cleared when it is taken again, so a freed one is shown cleared.
u32_reg_del_subtree(r, k) == [i \in Slots |-> IF i \in Below(r, k) THEN NoKey ELSE r[i]]

----------------------------------------------------------------------------
(* The calls that write.  Each gives the status and the table after it.      *)

u32_reg_create(r, h, path) ==
    LET w == u32_reg_walk(r, h, path, TRUE)
    IN  [st |-> IF w.cur = -1 THEN 5 ELSE 0, key |-> w.cur, disp |-> IF w.made THEN 1 ELSE 2, reg |-> w.reg]
u32_reg_open(r, h, path) ==
    LET w == u32_reg_walk(r, h, path, FALSE)
    IN  [st |-> IF w.cur = -1 THEN 2 ELSE 0, key |-> w.cur]

\* Mutant: the length of a value is not cut to what is stored.
StoredUnclamped(v, type, bytes, cb) ==
    [v EXCEPT !.type = type, !.len = cb, !.data = [i \in 1..DataCap |-> IF i <= Len(bytes) THEN bytes[i] ELSE @[i]]]
\* bytes = <<>> with cb > 0 is a NULL data pointer: the length changes, the bytes do not.
Stored(v, type, bytes, cb) ==
    [v EXCEPT !.type = type, !.len = Min({cb, DataCap}),
              !.data = [i \in 1..DataCap |-> IF i <= Len(bytes) THEN bytes[i] ELSE @[i]]]
\* Mutant: a value that exists keeps its type.
SetvalKeepsType(r, h, n, type, bytes, cb) ==
    LET k == u32_reg_idx(r, h)
        i == FindVal(r, k, n)
        free == FirstIn({j \in ValSlots : ~r[k].val[j].used})
        new == [NoVal EXCEPT !.used = TRUE, !.name = Trunc(n)]
    IN  IF k = -1 THEN [st |-> 6, reg |-> r]
        ELSE IF i # -1 THEN [st |-> 0, reg |-> [r EXCEPT ![k].val[i] = Stored(@, @.type, bytes, cb)]]
        ELSE IF free = -1 THEN [st |-> 5, reg |-> r]
        ELSE [st |-> 0, reg |-> [r EXCEPT ![k].val[free] = Stored(new, type, bytes, cb)]]
u32_reg_setval(r, h, n, type, bytes, cb) ==
    LET k == u32_reg_idx(r, h)
        i == FindVal(r, k, n)
        free == FirstIn({j \in ValSlots : ~r[k].val[j].used})
        slot == IF i # -1 THEN i ELSE free
        old == IF i # -1 THEN r[k].val[i] ELSE [NoVal EXCEPT !.used = TRUE, !.name = Trunc(n)]
    IN  IF k = -1 THEN [st |-> 6, reg |-> r]
        ELSE IF slot = -1 THEN [st |-> 5, reg |-> r]
        ELSE [st |-> 0, reg |-> [r EXCEPT ![k].val[slot] = Stored(old, type, bytes, cb)]]
RegDeleteValue(r, h, n) ==
    LET k == u32_reg_idx(r, h)
        i == FindVal(r, k, n)
    IN  IF k = -1 THEN [st |-> 6, reg |-> r]
        ELSE IF i = -1 THEN [st |-> 2, reg |-> r]
        ELSE [st |-> 0, reg |-> [r EXCEPT ![k].val[i] = NoVal]]
RegDeleteKey(r, h, path) ==
    LET k == u32_reg_walk(r, h, path, FALSE).cur
    IN  IF k < Roots THEN [st |-> 2, reg |-> r] ELSE [st |-> 0, reg |-> u32_reg_del_subtree(r, k)]
\* Mutant: a hive can be deleted.
DelkeyAnyRoot(r, h) ==
    LET k == u32_reg_idx(r, h)
    IN  IF k = -1 THEN [st |-> 6, reg |-> r] ELSE [st |-> 0, reg |-> u32_reg_del_subtree(r, k)]
\* NtDeleteKey, by handle.
aret_ntreg_delkey(r, h) ==
    LET k == u32_reg_idx(r, h)
    IN  IF k < Roots THEN [st |-> 6, reg |-> r] ELSE [st |-> 0, reg |-> u32_reg_del_subtree(r, k)]

----------------------------------------------------------------------------
(* The calls that read.  buf is the size of the caller's buffer, -1 a size query. *)

u32_reg_queryval(r, h, n, buf) ==
    LET k == u32_reg_idx(r, h)
        i == FindVal(r, k, n)
        v == r[k].val[i]
    IN  IF k = -1 THEN [st |-> 6] ELSE IF i = -1 THEN [st |-> 2]
        ELSE IF buf = -1 THEN [st |-> 0, type |-> v.type, len |-> v.len]
        ELSE IF buf < v.len THEN [st |-> 234, type |-> v.type, len |-> v.len]
        ELSE [st |-> 0, type |-> v.type, len |-> v.len, data |-> Shown(v)]

\* RegGetValue: the key is opened, the type is read and must be one of those wanted, then the value.
RegGetValue(r, h, path, n, wanted, buf) ==
    LET o == u32_reg_open(r, h, path)
        t == IF path = <<>> THEN h ELSE o.key
        q == u32_reg_queryval(r, t, n, -1)
    IN  IF path # <<>> /\ o.st # 0 THEN [st |-> o.st]
        ELSE IF q.st # 0 THEN q
        ELSE IF wanted # {} /\ q.type \notin wanted THEN [st |-> 1630]
        ELSE u32_reg_queryval(r, t, n, buf)

Children(r, k) == {i \in KeySlots : r[i].used /\ r[i].parent = k}
Values(r, k) == {i \in ValSlots : r[k].val[i].used}
InOrder(S) == SetToSortSeq(S, <)        \* the order of the slots

\* RegEnumKey and RegEnumKeyEx, in slot order; both keep the low byte of the status.
u32_reg_enumkey(r, h, i, cap) ==
    LET k == u32_reg_idx(r, h)
        ids == InOrder(Children(r, k))
    IN  IF k = -1 THEN [st |-> 6]
        ELSE IF i >= Len(ids) THEN [st |-> 259]
        ELSE IF cap < Len(r[ids[i + 1]].name) + 1 THEN [st |-> 234]
        ELSE [st |-> 0, key |-> ids[i + 1]]
RegEnumKeyEx(r, h, i, cap) ==
    LET e == u32_reg_enumkey(r, h, i, cap) IN [e EXCEPT !.st = @ % 256]
\* Mutant: the buffer must be longer than the name and its terminator.
RegEnumValueShort(r, h, i, cap) ==
    LET k == u32_reg_idx(r, h)
        ids == InOrder(Values(r, k))
    IN  IF k = -1 THEN [st |-> 6] ELSE IF i >= Len(ids) THEN [st |-> 259]
        ELSE IF cap <= Len(r[k].val[ids[i + 1]].name) + 1 THEN [st |-> 234] ELSE [st |-> 0, value |-> ids[i + 1]]
RegEnumValue(r, h, i, cap) ==
    LET k == u32_reg_idx(r, h)
        ids == InOrder(Values(r, k))
    IN  IF k = -1 THEN [st |-> 6]
        ELSE IF i >= Len(ids) THEN [st |-> 259]
        ELSE IF cap < Len(r[k].val[ids[i + 1]].name) + 1 THEN [st |-> 234]
        ELSE [st |-> 0, value |-> ids[i + 1]]

Longest(lens) == Max(lens \cup {0})
RegQueryInfoKey(r, k) ==
    [nsub |-> Cardinality(Children(r, k)), maxsub |-> Longest({Len(r[i].name) : i \in Children(r, k)}),
     nval |-> Cardinality(Values(r, k)), maxvn |-> Longest({Len(r[k].val[i].name) : i \in Values(r, k)}),
     maxvl |-> Longest({r[k].val[i].len : i \in Values(r, k)})]

\* Mutant: names are compared in lower case.
NcmpLower(a, b) ==
    LET Low(c) == IF c \in 65..90 THEN c + 32 ELSE c
        diff == {i \in 1..Min({Len(a), Len(b)}) : Low(a[i]) # Low(b[i])}
    IN  IF diff = {} THEN Len(a) - Len(b) ELSE LET i == Min(diff) IN Low(a[i]) - Low(b[i])
\* The order of the Nt* enumerations: upper-cased character codes, ties by slot.
u32_reg_ncmp(a, b) ==
    LET diff == {i \in 1..Min({Len(a), Len(b)}) : Up(a[i]) # Up(b[i])}
    IN  IF diff = {} THEN Len(a) - Len(b) ELSE LET i == Min(diff) IN Up(a[i]) - Up(b[i])
Sorted(S, name) ==
    SetToSortSeq(S, LAMBDA i, j : LET c == u32_reg_ncmp(name[i], name[j]) IN c < 0 \/ (c = 0 /\ i < j))
u32_reg_nth_subkey(r, k, i) ==
    LET ids == Sorted(Children(r, k), [j \in Slots |-> r[j].name])
    IN  IF i < Len(ids) THEN ids[i + 1] ELSE -1
u32_reg_nth_value(r, k, i) ==
    LET ids == Sorted(Values(r, k), [j \in ValSlots |-> r[k].val[j].name])
    IN  IF i < Len(ids) THEN ids[i + 1] ELSE -1

\* KEY_BASIC_, KEY_NODE_ and KEY_FULL_INFORMATION: the fixed part, then the name in two-byte
\* characters (none in the full form).
u32_fill_key_info(r, k, cls, len) ==
    LET fixed == CASE cls = "basic" -> 16 [] cls = "node" -> 24 [] cls = "full" -> 44
        need == fixed + (IF cls = "full" THEN 0 ELSE 2 * Len(r[k].name))
    IN  [need |-> need, st |-> IF len < fixed THEN "too_small" ELSE IF len < need THEN "overflow" ELSE "ok"]
\* KEY_VALUE_BASIC_, _FULL_ and _PARTIAL_INFORMATION of an enumeration: any short buffer is an overflow.
u32_fill_value_info_enum(v, cls, len) ==
    LET need == CASE cls = "basic" -> 12 + 2 * Len(v.name)
                  [] cls = "full" -> 20 + 2 * Len(v.name) + v.len
                  [] cls = "partial" -> 12 + v.len
    IN  [need |-> need, st |-> IF len < need THEN "overflow" ELSE "ok"]
\* KEY_VALUE_PARTIAL_INFORMATION, the one class of NtQueryValueKey.
aret_ntreg_queryval(r, h, n, len) ==
    LET k == u32_reg_idx(r, h)
        i == FindVal(r, k, n)
        v == r[k].val[i]
        need == 12 + v.len
    IN  IF k = -1 THEN [st |-> "invalid_handle"] ELSE IF i = -1 THEN [st |-> "not_found"]
        ELSE IF len < 12 THEN [st |-> "too_small", need |-> need]
        ELSE IF len < need THEN [st |-> "overflow", need |-> need, type |-> v.type, len |-> v.len]
        ELSE [st |-> "ok", need |-> need, type |-> v.type, len |-> v.len, data |-> Shown(v)]
=============================================================================
