---------------------------- MODULE RtlRegistry ----------------------------
(***************************************************************************)
(* Programs over the registry: the Reg* and Nt* calls as actions, and the    *)
(* Rtl* calls of Wine's reg.c compiled over the Nt* calls.                   *)
(* RtlQueryRegistryValues works through a table of entries and calls the     *)
(* program back for each value, so the program's own calls interleave with   *)
(* its enumeration.                                                          *)
(***************************************************************************)
EXTENDS Registry

CONSTANTS Types,        \* value types: "sz", "expand", "multi", "binary"
          Tables,       \* query tables: sequences of [flags, name]; name = NoName reports every value
          NoName

VARIABLE rtl            \* the call of RtlQueryRegistryValues in progress

rtlVars == <<g_reg, rtl>>
NoQuery == [pc |-> "idle"]
RegInit == u32_reg_init /\ rtl = NoQuery

\* The program writes between its queries or inside a QueryRoutine.
Writes(r) == /\ rtl.pc \in {"idle", "call"}
             /\ g_reg' = r.reg
             /\ rtl' = IF rtl.pc = "idle" THEN rtl ELSE [rtl EXCEPT !.quiet = FALSE]

\* RegCreateKey(Ex)A/W, NtCreateKey, RtlpNtCreateKey, RtlCreateRegistryKey.
CreateKeyOp(h, p) == Writes(u32_reg_create(g_reg, h, p))
\* RegSetValueExA/W, NtSetValueKey, RtlpNtSetValueKey (the default value), RtlWriteRegistryValue.
SetValueOp(h, n, t, d, cb) == (d = <<>> \/ cb = Len(d)) /\ Writes(u32_reg_setval(g_reg, h, n, t, d, cb))
\* RegDeleteValueA/W, NtDeleteValueKey, RtlDeleteRegistryValue.
DeleteValueOp(h, n) == Writes(RegDeleteValue(g_reg, h, n))
\* RegDeleteKeyA/W; NtDeleteKey and RtlpNtMakeTemporaryKey, by handle.
DeleteKeyOp(h, p) == Writes(RegDeleteKey(g_reg, h, p)) \/ (p = <<>> /\ Writes(aret_ntreg_delkey(g_reg, h)))

----------------------------------------------------------------------------
\* The key of a path relative to a base of RTL_REGISTRY_*; here the base is a hive or unknown.
RTL_GetKeyHandle(rel, path) == IF rel \in RootSlots THEN u32_reg_open(g_reg, rel, path).key ELSE -1

\* RtlpNtEnumerateSubKey with a UNICODE_STRING of maxlen bytes (0: no buffer).
RtlpNtEnumerateSubKey(r, h, i, maxlen) ==
    LET c == u32_reg_nth_subkey(r, u32_reg_idx(r, h), i)
        f == u32_fill_key_info(r, c, "basic", IF maxlen = 0 THEN 0 ELSE maxlen + 16)
    IN  IF u32_reg_idx(r, h) = -1 THEN [st |-> "invalid_handle"]
        ELSE IF c = -1 THEN [st |-> "no_more_entries"]
        ELSE IF f.st = "overflow" THEN [st |-> f.st, len |-> f.need - 16]
        ELSE IF f.st = "ok" THEN [st |-> f.st, len |-> 2 * Len(r[c].name), key |-> c]
        ELSE [st |-> f.st]
\* RtlpNtQueryValueKey: the default value, through a buffer of the caller's size.
RtlpNtQueryValueKey(r, h, len) == aret_ntreg_queryval(r, h, <<>>, 12 + len)

\* The call gets its handle, from the caller or by opening the path.
Begin(h) == \E t \in Tables :
    /\ rtl.pc = "idle" /\ UNCHANGED g_reg
    /\ rtl' = [pc |-> "entry", table |-> t, top |-> h, handle |-> h, info |-> NoVal, i |-> 0, then |-> "next",
               told |-> <<>>, quiet |-> TRUE]
RtlQueryRegistryValues == \/ \E h \in Handles : Begin(h)
                          \/ \E rel \in RootSlots, p \in Paths :
                                RTL_GetKeyHandle(rel, p) # -1 /\ Begin(RTL_GetKeyHandle(rel, p))

Flag(f) == f \in Head(rtl.table).flags
Finish == rtl' = NoQuery
Call(then) == rtl' = [rtl EXCEPT !.pc = "call", !.then = then]
\* Mutant: the loop over the table does not advance.
NextEntryStuck == rtl' = [rtl EXCEPT !.pc = "entry", !.i = 0, !.told = <<>>]
NextEntry == rtl' = [rtl EXCEPT !.table = Tail(@), !.pc = "entry", !.i = 0, !.told = <<>>]

\* One entry.  SUBKEY moves to another key, TOPKEY back to the first.
RtlEntry ==
    /\ rtl.pc = "entry" /\ UNCHANGED g_reg
    /\ IF rtl.table = <<>> THEN Finish
       ELSE IF Flag("subkey")
            THEN \E rel \in RootSlots \cup {-1}, p \in Paths :
                    LET h == RTL_GetKeyHandle(rel, p)
                    IN  IF h = -1 THEN Finish ELSE rtl' = [rtl EXCEPT !.pc = "value", !.handle = h]
       ELSE rtl' = [rtl EXCEPT !.pc = "value", !.handle = IF Flag("topkey") THEN rtl.top ELSE @]
\* A named value is asked for as KeyValueFullInformation, which NtQueryValueKey does not have:
\* it counts as missing.
RtlValue ==
    /\ rtl.pc = "value" /\ UNCHANGED g_reg
    /\ IF Flag("novalue") THEN Call("next")
       ELSE IF Head(rtl.table).name = NoName
            THEN IF Flag("direct") THEN Finish ELSE rtl' = [rtl EXCEPT !.pc = "enum"]
       ELSE IF Flag("required") \/ Flag("direct") THEN Finish ELSE Call("next")

\* The enumeration.  A handle that denotes no key is not the end of it: what the buffer held
\* last is reported again, and again.
Gone == u32_reg_idx(g_reg, rtl.handle) = -1
Nth == u32_reg_nth_value(g_reg, rtl.handle, rtl.i)
Info == IF Gone THEN rtl.info ELSE g_reg[rtl.handle].val[Nth]
RTL_ReportRegistryValue ==
    \* RtlExpandEnvironmentStrings_U is not there: an expandable value ends the process.
    IF Info.type \in {"expand", "multi"} /\ ~Flag("noexpand") THEN rtl' = [pc |-> "aborted"]
    ELSE rtl' = [rtl EXCEPT !.pc = "call", !.then = "enum", !.info = Info,
                            !.told = IF Gone THEN @ ELSE Append(@, Info.name)]
RtlEnum ==
    /\ rtl.pc = "enum" /\ UNCHANGED g_reg
    /\ IF ~Gone /\ Nth = -1
       THEN IF rtl.i = 0 /\ Flag("required") THEN Finish ELSE NextEntry
       ELSE RTL_ReportRegistryValue

\* Mutant: the enumeration steps over a value.
AfterReportSkips == rtl' = [rtl EXCEPT !.pc = "enum", !.i = Min({@ + 2, MaxVal + 1})] /\ UNCHANGED g_reg
\* The QueryRoutine returns.  DELETE reads the name up to a terminator the buffer need not hold:
\* the data follows the name.  (The counter stops where no enumeration of a live key gets.)
AfterReport ==
    LET garbled == rtl.info.len > 0 /\ rtl.info.data[1] # 0
        n == IF garbled THEN rtl.info.name \o Shown(rtl.info) ELSE rtl.info.name
    IN  /\ rtl' = [rtl EXCEPT !.pc = "enum", !.i = Min({@ + 1, MaxVal + 1})]
        /\ g_reg' = IF Flag("delete") THEN RegDeleteValue(g_reg, rtl.handle, n).reg ELSE g_reg
RtlReturn ==
    /\ rtl.pc = "call"
    /\ \/ rtl.then = "enum" /\ AfterReport
       \/ rtl.then = "next" /\ NextEntry /\ UNCHANGED g_reg
       \/ (rtl.then = "enum" \/ ~Flag("novalue")) /\ Finish /\ UNCHANGED g_reg    \* it reported a failure
RtlAborted == rtl.pc = "aborted" /\ UNCHANGED rtlVars

KeyOps == \E h \in Handles, p \in Paths : CreateKeyOp(h, p) \/ DeleteKeyOp(h, p)
ValueOps(h, n) == (\E t \in Types, d \in DataSet, cb \in 0..(DataCap + 1) : SetValueOp(h, n, t, d, cb)) \/ DeleteValueOp(h, n)
RegNext == KeyOps \/ (\E h \in Handles, n \in ValueNames : ValueOps(h, n))
           \/ RtlQueryRegistryValues \/ RtlEntry \/ RtlValue \/ RtlEnum \/ RtlReturn \/ RtlAborted
RtlSteps == RtlEntry \/ RtlValue \/ RtlEnum \/ RtlReturn
RegSpec == RegInit /\ [][RegNext]_rtlVars /\ WF_rtlVars(RtlSteps)
----------------------------------------------------------------------------
(* Properties.                                                               *)

\* Types of the registry's table and of the query in progress.
RegTypeOK ==
    /\ \A k \in Slots : /\ g_reg[k].used \in BOOLEAN /\ g_reg[k].parent \in Slots \cup {-1}
                        /\ \A i \in ValSlots : g_reg[k].val[i].len \in 0..DataCap
    /\ rtl.pc \in {"idle", "entry", "value", "enum", "call", "aborted"}

\* The path of a key, found by climbing from it.
PathOf[k \in Slots] ==
    IF k \in RootSlots THEN <<k>> ELSE Append(PathOf[g_reg[k].parent], Fold(g_reg[k].name))
Live == {k \in Slots : g_reg[k].used}
PathValues == UNION {{[path |-> PathOf[k], name |-> Fold(g_reg[k].val[i].name), type |-> g_reg[k].val[i].type,
                       data |-> Shown(g_reg[k].val[i])] : i \in Values(g_reg, k)} : k \in Live}

\* The table of slots implements a tree of named keys with named values: no call through any of
\* the three layers loses a key or a value, brings a deleted one back in a reused slot, or
\* touches a key other than the one it names.
Tree == INSTANCE RegistryTree WITH Hives <- RootSlots, keys <- {PathOf[k] : k \in Live}, vals <- PathValues
RefinesTree == Tree!TSpec

\* Every key in use hangs in the tree below a hive, under a name of its own: deleting a key leaves
\* nothing that would fill the table, or reappear below the next key of its parent's slot.
SlotsAccounted == /\ \A k \in Live \ RootSlots : g_reg[k].parent \in Live
                  /\ Cardinality({PathOf[k] : k \in Live}) = Cardinality(Live)

\* Names in the order of RtlCompareUnicodeString without case.
Before(m, n) == \E i \in 1..Len(n) : /\ SubSeq(Fold(m), 1, i - 1) = SubSeq(Fold(n), 1, i - 1)
                                     /\ i > Len(m) \/ Fold(m)[i] < Fold(n)[i]
\* NtEnumerateKey and NtEnumerateValueKey give every child and every value once, in the order of
\* their upper-cased names, as many as NtQueryKey and RegQueryInfoKey count.
EnumSorted == \A k \in Live :
    LET info == RegQueryInfoKey(g_reg, k)
        sub == [i \in 1..info.nsub |-> g_reg[u32_reg_nth_subkey(g_reg, k, i - 1)].name]
        val == [i \in 1..info.nval |-> g_reg[k].val[u32_reg_nth_value(g_reg, k, i - 1)].name]
    IN  /\ ToSet(sub) = {g_reg[i].name : i \in Children(g_reg, k)}
        /\ ToSet(val) = {g_reg[k].val[i].name : i \in Values(g_reg, k)}
        /\ u32_reg_nth_subkey(g_reg, k, info.nsub) = -1 /\ u32_reg_nth_value(g_reg, k, info.nval) = -1
        /\ \A i \in 1..(info.nsub - 1) : Before(sub[i], sub[i + 1])
        /\ \A i \in 1..(info.nval - 1) : Before(val[i], val[i + 1])

\* Whatever the program sizes its buffers by (a size query, the need a short buffer reports, the
\* maxima of RegQueryInfoKey) is enough for the call it is meant for.
SizesSuffice == \A k \in Live :
    LET info == RegQueryInfoKey(g_reg, k)
    IN  /\ \A n \in ValueNames :
              LET q == u32_reg_queryval(g_reg, k, n, -1)
                  s == aret_ntreg_queryval(g_reg, k, n, 0)
              IN  (q.st = 0) => /\ u32_reg_queryval(g_reg, k, n, q.len).st = 0
                                /\ aret_ntreg_queryval(g_reg, k, n, s.need).st = "ok"
                                /\ q.len <= info.maxvl
        /\ \A i \in 0..(info.nsub - 1) :
              /\ RegEnumKeyEx(g_reg, k, i, info.maxsub + 1).st = 0
              /\ RtlpNtEnumerateSubKey(g_reg, k, i, 2 * (info.maxsub + 1)).st = "ok"
              /\ \A cls \in {"basic", "node", "full"} :
                     LET c == u32_reg_nth_subkey(g_reg, k, i)
                         f == u32_fill_key_info(g_reg, c, cls, 0)
                     IN  u32_fill_key_info(g_reg, c, cls, f.need).st = "ok"
        /\ \A i \in 0..(info.nval - 1) : 
              /\ RegEnumValue(g_reg, k, i, info.maxvn + 1).st = 0
              /\ \A cls \in {"basic", "full", "partial"} :
                     LET v == g_reg[k].val[u32_reg_nth_value(g_reg, k, i)]
                         f == u32_fill_value_info_enum(v, cls, 0)
                     IN  /\ u32_fill_value_info_enum(v, cls, f.need).st = "ok"
                         /\ cls = "full" => f.need <= 20 + 2 * info.maxvn + info.maxvl

\* "a program that WRITES its settings and READS them back round-trips exactly": after a value is
\* set every way of reading it gives the type and the bytes that were written.
RoundTrip == \A k \in Live, n \in ValueNames, t \in Types, d \in DataSet :
    LET w == u32_reg_setval(g_reg, k, n, t, d, Len(d))
        want == [st |-> 0, type |-> t, len |-> Len(d), data |-> d]
        nt == aret_ntreg_queryval(w.reg, k, n, 12 + Len(d))
    IN  w.st = 0 => /\ u32_reg_queryval(w.reg, k, n, DataCap) = want
                    /\ RegGetValue(w.reg, k, <<>>, n, {t}, DataCap) = want
                    /\ nt.st = "ok" /\ nt.type = t /\ nt.data = d
                    /\ n = <<>> => RtlpNtQueryValueKey(w.reg, k, Len(d)) = nt

\* RtlQueryRegistryValues reports no value twice and, unless it deletes as it goes, leaves none
\* out, as long as the QueryRoutine leaves the registry alone.
ReportsEachOnce ==
    rtl.pc \in {"enum", "call"} /\ rtl.quiet /\ ~Gone =>
        /\ \A i, j \in DOMAIN rtl.told : rtl.told[i] = rtl.told[j] => i = j
        /\ rtl.pc = "enum" /\ Nth = -1 /\ ~Flag("delete") =>
               ToSet(rtl.told) = {g_reg[rtl.handle].val[i].name : i \in Values(g_reg, rtl.handle)}

\* A query ends however the QueryRoutine changes the registry, unless its key is deleted under it.
QueryEnds == (rtl.pc # "idle") ~> (rtl.pc \in {"idle", "aborted"} \/ Gone)

\* "NO_MORE_ITEMS=259": the end of an enumeration of subkeys is told from an error by its status.
EnumEndTold == \A k \in Live :
    RegEnumKeyEx(g_reg, k, Cardinality(Children(g_reg, k)), NameCap).st = 259

\* What the registry answers is what it holds: no slot is lost, enumerations
\* are sorted and complete, a reported size is enough for the second call,
\* values read back, and RtlQueryRegistryValues reports each value once.
RegistryAnswers ==
    RegTypeOK /\ SlotsAccounted /\ EnumSorted /\ SizesSuffice /\ RoundTrip /\ ReportsEachOnce
=============================================================================
