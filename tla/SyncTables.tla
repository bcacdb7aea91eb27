------------------------------ MODULE SyncTables ------------------------------
(***************************************************************************)
(* The synchronisation-object tables of the HLE runtime                     *)
(* (runtime/aret_hle/aret_win32.c, "Cooperative threads (fibers)").         *)
(*                                                                          *)
(* User-space objects (CRITICAL_SECTION, SRWLOCK, CONDITION_VARIABLE) are   *)
(* keyed by the program's own address; kernel objects (event, mutex,        *)
(* semaphore) are slots of a fixed table that a handle names by index; a    *)
(* thread-pool work item is a heap block.  A C table searched by key is a   *)
(* function on the keys: reg is the set of addresses that have an entry.    *)
(*                                                                          *)
(* Variables whose comment says GHOST are not state of the program: they    *)
(* record what the program is entitled to believe from the calls that have  *)
(* returned to it, and no guard of the runtime reads them.                  *)
(***************************************************************************)
EXTENDS Integers, Sequences, FiniteSets

CONSTANTS
    MaxFiber,              \* U32_MAX_FIBER: slots of the fiber table
    CSs, SRWs, CVs,        \* addresses of the program's user-space locks
    NoAddr,                \* the NULL address
    MaxCS, MaxSRW, MaxCV,  \* U32_MAX_CS, U32_MAX_SRW, U32_MAX_CV
    MaxEvent, MaxMutex, MaxSem, \* U32_MAX_EVENT, U32_MAX_MUTEX, U32_MAX_SEM
    Names, NoName,         \* object names; NoName is the NULL name
    Works, NoWork,         \* thread-pool work items; NoWork is the NULL PTP_WORK
    MaxWaitObjects         \* length of u32_fiber.wait_h

Fibers  == 0 .. MaxFiber - 1
Events  == 0 .. MaxEvent - 1
Mutexes == 0 .. MaxMutex - 1
Sems    == 0 .. MaxSem - 1
Locks   == CSs \cup SRWs

\* Two kinds of object never live at one address, and none lives at NULL.
ASSUME AddressAssumption ==
    /\ CSs \cap SRWs = {} /\ CSs \cap CVs = {} /\ SRWs \cap CVs = {}
    /\ NoAddr \notin CSs \cup SRWs \cup CVs
    /\ NoWork \notin Works /\ NoName \notin Names

ASSUME TableAssumption ==
    /\ MaxFiber \in Nat \ {0}
    /\ MaxCS \in Nat /\ MaxSRW \in Nat /\ MaxCV \in Nat
    /\ MaxEvent \in Nat /\ MaxMutex \in Nat /\ MaxSem \in Nat
    /\ MaxWaitObjects \in Nat \ {0}

VARIABLES
    reg,            \* addresses with an entry in g_cs, g_srw or g_cv
    cs_owner,       \* g_cs[].owner: fiber index + 1, 0 = free
    cs_rec,         \* g_cs[].rec
    srw_writer,     \* g_srw[].writer: fiber index + 1, 0 = none
    srw_readers,    \* g_srw[].readers
    cv_grants,      \* g_cv[].grants
    g_nevent, ev_manual, ev_signaled, ev_name,
    ev_sel,         \* g_wsaevsel[].used: the event is tied to a socket
    g_nmutex, mx_owner, mx_rec, mx_name,
    g_nsem, sem_count, sem_max, sem_name,
    tp_live,        \* work items that are allocated
    tp_pending, tp_cancelled,
    held_cs,        \* GHOST: Enters minus Leaves that returned, per fiber and section
    held_ex,        \* GHOST: the fiber holds the lock exclusively
    held_sh,        \* GHOST: shared acquisitions minus releases
    held_mx,        \* GHOST: successful waits on the mutex minus releases
    ev_tok,         \* GHOST: waits the current signal of the event has satisfied
    sem_out,        \* GHOST: units handed to waits minus units released
    cv_owed         \* GHOST: fibers inside a Sleep when WakeAll was called

csVars    == <<cs_owner, cs_rec, held_cs>>
srwVars   == <<srw_writer, srw_readers, held_ex, held_sh>>
cvVars    == <<cv_grants, cv_owed>>
evVars    == <<g_nevent, ev_manual, ev_signaled, ev_name, ev_sel, ev_tok>>
mxVars    == <<g_nmutex, mx_owner, mx_rec, mx_name, held_mx>>
semVars   == <<g_nsem, sem_count, sem_max, sem_name, sem_out>>
tpVars    == <<tp_live, tp_pending, tp_cancelled>>
userVars  == <<reg, csVars, srwVars, cvVars>>
kernVars  == <<evVars, mxVars, semVars>>

-----------------------------------------------------------------------------
(* User-space locks.  An entry that does not exist reads as a free lock.    *)

\* u32_*_ensure on a table without room ends in aret_unmodelled, an abort.
TableFull(a) ==
    /\ a \notin reg
    /\ \/ a \in CSs  /\ Cardinality(reg \cap CSs)  >= MaxCS
       \/ a \in SRWs /\ Cardinality(reg \cap SRWs) >= MaxSRW
       \/ a \in CVs  /\ Cardinality(reg \cap CVs)  >= MaxCV

\* The test EnterCriticalSection, TryEnter and the scheduler share.
CsFreeFor(c, f) == cs_owner[c] \in {0, f + 1}

\* MUTANT of u32_srw_acquirable: a writer does not wait for the readers.
SrwIgnoresReaders(l, excl, f) ==
    IF excl THEN srw_writer[l] = 0 ELSE srw_writer[l] \in {0, f + 1}

u32_srw_acquirable(l, excl, f) ==
    IF excl THEN srw_writer[l] = 0 /\ srw_readers[l] = 0
            ELSE srw_writer[l] \in {0, f + 1}

-----------------------------------------------------------------------------
(* Handles.  The top byte of a handle is its kind, the rest a table index;   *)
(* "other" stands for every handle these tables do not know.                *)

HandleKinds == {"thread", "event", "mutex", "sem", "other"}
Handles == HandleKinds \X Nat

IsEvent(h) == h[1] = "event" /\ h[2] < g_nevent
IsMutex(h) == h[1] = "mutex" /\ h[2] < g_nmutex
IsSem(h)   == h[1] = "sem"   /\ h[2] < g_nsem

\* u32_create_event / _mutex / _sem: a named object that exists is opened.
Named(names, count, n) == n # NoName /\ \E i \in 0 .. count - 1 : names[i] = n

-----------------------------------------------------------------------------
(* The tables are static storage, so they start zeroed.                     *)

TablesInit ==
    /\ reg = {}
    /\ cs_owner = [c \in CSs |-> 0] /\ cs_rec = [c \in CSs |-> 0]
    /\ held_cs = [f \in Fibers |-> [c \in CSs |-> 0]]
    /\ srw_writer = [l \in SRWs |-> 0] /\ srw_readers = [l \in SRWs |-> 0]
    /\ held_ex = [f \in Fibers |-> [l \in SRWs |-> FALSE]]
    /\ held_sh = [f \in Fibers |-> [l \in SRWs |-> 0]]
    /\ cv_grants = [v \in CVs |-> 0] /\ cv_owed = {}
    /\ g_nevent = 0
    /\ ev_manual = [e \in Events |-> FALSE] /\ ev_signaled = [e \in Events |-> FALSE]
    /\ ev_name = [e \in Events |-> NoName] /\ ev_sel = [e \in Events |-> FALSE]
    /\ ev_tok = [e \in Events |-> 0]
    /\ g_nmutex = 0
    /\ mx_owner = [m \in Mutexes |-> 0] /\ mx_rec = [m \in Mutexes |-> 0]
    /\ mx_name = [m \in Mutexes |-> NoName]
    /\ held_mx = [f \in Fibers |-> [m \in Mutexes |-> 0]]
    /\ g_nsem = 0
    /\ sem_count = [s \in Sems |-> 0] /\ sem_max = [s \in Sems |-> 0]
    /\ sem_name = [s \in Sems |-> NoName] /\ sem_out = [s \in Sems |-> 0]
    /\ tp_live = {}
    /\ tp_pending = [w \in Works |-> 0] /\ tp_cancelled = [w \in Works |-> FALSE]

CsTypeOK ==
    /\ cs_owner \in [CSs -> 0 .. MaxFiber] /\ cs_rec \in [CSs -> Nat]
    /\ held_cs \in [Fibers -> [CSs -> Nat]]
SrwTypeOK ==
    /\ srw_writer \in [SRWs -> 0 .. MaxFiber] /\ srw_readers \in [SRWs -> Nat]
    /\ held_ex \in [Fibers -> [SRWs -> BOOLEAN]]
    /\ held_sh \in [Fibers -> [SRWs -> Nat]]
CvTypeOK == cv_grants \in [CVs -> Nat] /\ cv_owed \subseteq Fibers
EvTypeOK ==
    /\ g_nevent \in 0 .. MaxEvent
    /\ ev_manual \in [Events -> BOOLEAN] /\ ev_signaled \in [Events -> BOOLEAN]
    /\ ev_name \in [Events -> Names \cup {NoName}] /\ ev_sel \in [Events -> BOOLEAN]
    /\ ev_tok \in [Events -> Nat]
MxTypeOK ==
    /\ g_nmutex \in 0 .. MaxMutex
    /\ mx_owner \in [Mutexes -> 0 .. MaxFiber] /\ mx_rec \in [Mutexes -> Nat]
    /\ mx_name \in [Mutexes -> Names \cup {NoName}]
    /\ held_mx \in [Fibers -> [Mutexes -> Nat]]
SemTypeOK ==
    /\ g_nsem \in 0 .. MaxSem
    /\ sem_count \in [Sems -> Int] /\ sem_max \in [Sems -> Int]
    /\ sem_name \in [Sems -> Names \cup {NoName}] /\ sem_out \in [Sems -> Int]
TpTypeOK ==
    /\ tp_live \subseteq Works
    /\ tp_pending \in [Works -> Int] /\ tp_cancelled \in [Works -> BOOLEAN]
TablesTypeOK ==
    /\ reg \subseteq CSs \cup SRWs \cup CVs
    /\ CsTypeOK /\ SrwTypeOK /\ CvTypeOK /\ EvTypeOK /\ MxTypeOK /\ SemTypeOK /\ TpTypeOK
=============================================================================
