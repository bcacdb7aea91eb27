------------------------------- MODULE UserLocks -------------------------------
(***************************************************************************)
(* CRITICAL_SECTION, SRWLOCK and CONDITION_VARIABLE over the fiber scheduler *)
(* (runtime/aret_hle/aret_win32.c).  A lock entry is made the first time an  *)
(* address is used; the entries of a table the code compacts on Delete are   *)
(* found by key again after every switch, so only the keys matter.           *)
(***************************************************************************)
EXTENDS FiberSched

\* An entry of the CS, SRW or CV table is added where the table has room.
Ensure(a) == ~TableFull(a) /\ reg' = reg \cup {a}

\* The same calls, and the re-acquisition of a section deleted meanwhile, on a
\* table without room: aret_unmodelled("... table full").
RegisterFull(a) ==
    /\ Call("Register") \/ (At("relock") /\ cv_lock[g_cur] = a)
    /\ TableFull(a) /\ Abort
    /\ UNCHANGED <<idVars, clockVars, waitVars, timeVars, localVars>> /\ ObjFrame

\* InitializeCriticalSection*, InitializeSRWLock, InitializeConditionVariable.
Initialize(a) ==
    /\ Call("Register") /\ Ensure(a)
    /\ UNCHANGED <<fiberVars, errVars, csVars, srwVars, cvVars, kernVars, tpVars>>

-----------------------------------------------------------------------------
(* Critical sections.                                                       *)

CsTake(c, f) ==
    /\ cs_owner' = [cs_owner EXCEPT ![c] = f + 1]
    /\ cs_rec' = [cs_rec EXCEPT ![c] = @ + 1]
CsFrame == UNCHANGED <<idVars, clockVars, wait_h, wait_all, wait_srw, wait_srw_excl,
                       timeVars, localVars, errVars, srwVars, kernVars, tpVars>>

\* EnterCriticalSection, and TryEnter when it succeeds.
EnterNow(c) ==
    /\ Call("CriticalSection") /\ held_cs[g_cur][c] < MaxRec /\ Ensure(c)
    /\ CsFreeFor(c, g_cur) /\ CsTake(c, g_cur)
    /\ held_cs' = [held_cs EXCEPT ![g_cur][c] = @ + 1]
    /\ UNCHANGED <<ctxVars, wait_cs, wait_cv, cvVars>> /\ CsFrame

EnterBlock(c) ==
    /\ Call("CriticalSection") /\ held_cs[g_cur][c] < MaxRec /\ Ensure(c)
    /\ ~CsFreeFor(c, g_cur)
    /\ wait_cs' = [wait_cs EXCEPT ![g_cur] = c]
    /\ ToSched("BLOCKED", "cs", g_last_error)
    /\ UNCHANGED <<csVars, wait_cv, cvVars>> /\ CsFrame

\* MUTANT of ResumeCs: a fiber that was woken takes the section without looking again.
ResumeCsUnchecked ==
    /\ At("cs") /\ CsTake(wait_cs[g_cur], g_cur) /\ Return
    /\ wait_cs' = [wait_cs EXCEPT ![g_cur] = NoAddr]
    /\ held_cs' = [held_cs EXCEPT ![g_cur][wait_cs[g_cur]] = @ + 1]
    /\ UNCHANGED <<reg, wait_cv, cvVars>> /\ CsFrame

\* Back from the scheduler inside Enter: the entry may be gone, free or taken.
ResumeCs ==
    /\ At("cs")
    /\ LET c == wait_cs[g_cur] IN
       \/ /\ c \notin reg /\ Return             \* deleted meanwhile: returns unowned
          /\ wait_cs' = [wait_cs EXCEPT ![g_cur] = NoAddr]
          /\ held_cs' = [held_cs EXCEPT ![g_cur][c] = @ + 1]
          /\ UNCHANGED <<cs_owner, cs_rec>>
       \/ /\ c \in reg /\ CsFreeFor(c, g_cur) /\ CsTake(c, g_cur) /\ Return
          /\ wait_cs' = [wait_cs EXCEPT ![g_cur] = NoAddr]
          /\ held_cs' = [held_cs EXCEPT ![g_cur][c] = @ + 1]
       \/ /\ c \in reg /\ ~CsFreeFor(c, g_cur)
          /\ ToSched("BLOCKED", "cs", g_last_error)
          /\ UNCHANGED <<wait_cs, csVars>>
    /\ UNCHANGED <<reg, wait_cv, cvVars>> /\ CsFrame

\* A caller that does not own the section changes nothing.
LeaveCriticalSection(c) ==
    /\ Call("CriticalSection") /\ (Disciplined => held_cs[g_cur][c] > 0)
    /\ held_cs' = [held_cs EXCEPT ![g_cur][c] = IF @ > 0 THEN @ - 1 ELSE 0]
    /\ IF c \in reg /\ cs_owner[c] = g_cur + 1 /\ cs_rec[c] > 0
       THEN /\ cs_rec' = [cs_rec EXCEPT ![c] = @ - 1]
            /\ cs_owner' = [cs_owner EXCEPT ![c] = IF cs_rec[c] = 1 THEN 0 ELSE @]
       ELSE UNCHANGED <<cs_owner, cs_rec>>
    /\ UNCHANGED <<reg, ctxVars, wait_cs, wait_cv, cvVars>> /\ CsFrame

\* The rule of DeleteCriticalSection: nobody owns the section or waits for it.
CsUnused(c) ==
    /\ cs_owner[c] = 0
    /\ \A f \in Live : fst[f] # "DONE" => wait_cs[f] # c /\ cv_lock[f] # c
\* MUTANT of DeleteCriticalSection: the depth outlives the entry.
DeleteKeepsDepth(c) ==
    /\ Call("DeleteCriticalSection") /\ reg' = reg \ {c}
    /\ cs_owner' = [cs_owner EXCEPT ![c] = 0]
    /\ UNCHANGED <<cs_rec, held_cs, ctxVars, wait_cs, wait_cv, cvVars>> /\ CsFrame

DeleteCriticalSection(c) ==
    /\ Call("DeleteCriticalSection") /\ (Disciplined => CsUnused(c))
    /\ reg' = reg \ {c}
    /\ cs_owner' = [cs_owner EXCEPT ![c] = 0]
    /\ cs_rec' = [cs_rec EXCEPT ![c] = 0]
    /\ UNCHANGED <<held_cs, ctxVars, wait_cs, wait_cv, cvVars>> /\ CsFrame

-----------------------------------------------------------------------------
(* Slim reader/writer locks.                                                *)

SrwTake(l, excl, f) ==
    /\ reg' = reg \cup {l}
    /\ IF excl THEN /\ srw_writer' = [srw_writer EXCEPT ![l] = f + 1]
                    /\ held_ex' = [held_ex EXCEPT ![f][l] = TRUE]
                    /\ UNCHANGED <<srw_readers, held_sh>>
               ELSE /\ srw_readers' = [srw_readers EXCEPT ![l] = @ + 1]
                    /\ held_sh' = [held_sh EXCEPT ![f][l] = @ + 1]
                    /\ UNCHANGED <<srw_writer, held_ex>>
\* MUTANT of SrwRelease: a shared release does not count the reader out.
SrwKeepsReader(l, excl, f) ==
    IF excl
    THEN /\ srw_writer' = [srw_writer EXCEPT ![l] = IF @ = f + 1 THEN 0 ELSE @]
         /\ held_ex' = [held_ex EXCEPT ![f][l] = FALSE]
         /\ UNCHANGED <<srw_readers, held_sh>>
    ELSE /\ held_sh' = [held_sh EXCEPT ![f][l] = IF @ > 0 THEN @ - 1 ELSE @]
         /\ UNCHANGED <<srw_readers, srw_writer, held_ex>>

SrwRelease(l, excl, f) ==
    IF excl
    THEN /\ srw_writer' = [srw_writer EXCEPT ![l] = IF @ = f + 1 THEN 0 ELSE @]
         /\ held_ex' = [held_ex EXCEPT ![f][l] = FALSE]
         /\ UNCHANGED <<srw_readers, held_sh>>
    ELSE /\ srw_readers' = [srw_readers EXCEPT ![l] = IF @ > 0 THEN @ - 1 ELSE @]
         /\ held_sh' = [held_sh EXCEPT ![f][l] = IF @ > 0 THEN @ - 1 ELSE @]
         /\ UNCHANGED <<srw_writer, held_ex>>

\* An SRW lock is not recursive, and a program releases what it holds.
MayAcquire(l) == /\ held_sh[g_cur][l] < MaxRec
                 /\ Disciplined => ~held_ex[g_cur][l] /\ held_sh[g_cur][l] = 0
Holds(l, excl) == IF excl THEN held_ex[g_cur][l] ELSE held_sh[g_cur][l] > 0

SrwFrame == UNCHANGED <<idVars, clockVars, wait_h, wait_all, timeVars, errVars, csVars,
                        kernVars, tpVars>>

\* AcquireSRWLock*, and TryAcquireSRWLock* when it succeeds.
SrwAcquireNow(l, excl) ==
    /\ Call("SRWLock") /\ MayAcquire(l) /\ ~TableFull(l)
    /\ u32_srw_acquirable(l, excl, g_cur) /\ SrwTake(l, excl, g_cur)
    /\ UNCHANGED <<ctxVars, wait_cs, wait_srw, wait_srw_excl, wait_cv, localVars, cvVars>>
    /\ SrwFrame

SrwAcquireBlock(l, excl) ==
    /\ Call("SRWLock") /\ MayAcquire(l)
    /\ ~u32_srw_acquirable(l, excl, g_cur)
    /\ wait_srw' = [wait_srw EXCEPT ![g_cur] = l]
    /\ wait_srw_excl' = [wait_srw_excl EXCEPT ![g_cur] = excl]
    /\ ToSched("BLOCKED", "srw", g_last_error)
    /\ UNCHANGED <<reg, srwVars, wait_cs, wait_cv, localVars, cvVars>> /\ SrwFrame

\* Back from the scheduler inside u32_srw_acquire.
ResumeSrw ==
    /\ At("srw")
    /\ LET l == wait_srw[g_cur]  excl == wait_srw_excl[g_cur] IN
       \/ /\ u32_srw_acquirable(l, excl, g_cur) /\ SrwTake(l, excl, g_cur) /\ Return
          /\ wait_srw' = [wait_srw EXCEPT ![g_cur] = NoAddr]
       \/ /\ ~u32_srw_acquirable(l, excl, g_cur)
          /\ ToSched("BLOCKED", "srw", g_last_error)
          /\ UNCHANGED <<wait_srw, reg, srwVars>>
    /\ UNCHANGED <<wait_srw_excl, wait_cs, wait_cv, localVars, cvVars>> /\ SrwFrame

ReleaseSRWLock(l, excl) ==
    /\ Call("SRWLock") /\ (Disciplined => Holds(l, excl))
    /\ SrwRelease(l, excl, g_cur)
    /\ UNCHANGED <<reg, ctxVars, wait_cs, wait_srw, wait_srw_excl, wait_cv, localVars, cvVars>>
    /\ SrwFrame
-----------------------------------------------------------------------------
(* Condition variables.                                                     *)

\* The caller of SleepConditionVariable* holds the lock in the mode it names.
MaySleepOn(l, shared) ==
    IF l \in CSs THEN held_cs[g_cur][l] > 0 /\ ~shared ELSE Holds(l, ~shared)

\* u32_condvar_sleep up to the switch.  A zero time-out without a grant goes
\* straight on to the re-acquisition (label "relock", control stays).
SleepConditionVariable(v, l, shared, ms) ==
    /\ Call("ConditionVariable") /\ MaySleepOn(l, shared) /\ Ensure(v)
    /\ ms \notin {0, Infinite} => g_vclock + ms <= MaxClock
    /\ IF l \in CSs
       THEN /\ cs_owner' = [cs_owner EXCEPT ![l] = 0] /\ cs_rec' = [cs_rec EXCEPT ![l] = 0]
            /\ UNCHANGED srwVars
       ELSE SrwRelease(l, ~shared, g_cur) /\ UNCHANGED <<cs_owner, cs_rec>>
    /\ cv_lock' = [cv_lock EXCEPT ![g_cur] = l]
    /\ cv_shared' = [cv_shared EXCEPT ![g_cur] = shared]
    /\ IF ms = 0 /\ cv_grants[v] = 0
       THEN /\ Fail(258)
            /\ pc' = [pc EXCEPT ![g_cur] = "relock"] /\ g_sched_ready' = TRUE
            /\ UNCHANGED <<ctl, fst, last_error, wait_cv, timeVars>>
       ELSE /\ wait_cv' = [wait_cv EXCEPT ![g_cur] = v]
            /\ has_timeout' = [has_timeout EXCEPT ![g_cur] = (ms \notin {0, Infinite})]
            /\ wake_time' = [wake_time EXCEPT ![g_cur] = g_vclock + ms]
            /\ timed_out' = [timed_out EXCEPT ![g_cur] = FALSE]
            /\ ToSched("BLOCKED", "cv", g_last_error) /\ UNCHANGED errVars
    /\ UNCHANGED <<held_cs, cvVars, idVars, clockVars, wait_h, wait_all, wait_cs, wait_srw,
                   wait_srw_excl, tp_wait, kernVars, tpVars>>

\* MUTANT of CvLeave: the fiber still counts as asleep on the variable.
CvLeaveStillWaiting ==
    /\ has_timeout' = [has_timeout EXCEPT ![g_cur] = FALSE]
    /\ cv_owed' = cv_owed \ {g_cur}
    /\ pc' = [pc EXCEPT ![g_cur] = "relock"]
    /\ UNCHANGED <<wait_cv, ctl, fst, last_error, g_sched_ready>>

\* Back from the scheduler inside the sleep: a grant, the deadline, or neither.
CvLeave == /\ wait_cv' = [wait_cv EXCEPT ![g_cur] = NoAddr]
           /\ has_timeout' = [has_timeout EXCEPT ![g_cur] = FALSE]
           /\ cv_owed' = cv_owed \ {g_cur}
           /\ pc' = [pc EXCEPT ![g_cur] = "relock"]
           /\ UNCHANGED <<ctl, fst, last_error, g_sched_ready>>
ResumeCv ==
    /\ At("cv")
    /\ LET v == wait_cv[g_cur] IN
       \/ /\ cv_grants[v] > 0 /\ CvLeave
          /\ cv_grants' = [cv_grants EXCEPT ![v] = @ - 1] /\ UNCHANGED errVars
       \/ /\ cv_grants[v] = 0 /\ timed_out[g_cur] /\ CvLeave
          /\ Fail(258) /\ UNCHANGED cv_grants
       \/ /\ cv_grants[v] = 0 /\ ~timed_out[g_cur]
          /\ ToSched("BLOCKED", "cv", g_last_error)
          /\ UNCHANGED <<wait_cv, has_timeout, cvVars, errVars>>
    /\ UNCHANGED <<reg, csVars, srwVars, idVars, clockVars, wait_h, wait_all, wait_cs,
                   wait_srw, wait_srw_excl, timed_out, wake_time, localVars, kernVars, tpVars>>

\* The re-acquisition at the end of u32_condvar_sleep; it may block, and then
\* comes back here.
Relock ==
    /\ At("relock")
    /\ LET l == cv_lock[g_cur] IN
       \/ /\ l \in CSs /\ ~TableFull(l) /\ CsFreeFor(l, g_cur)
          /\ CsTake(l, g_cur) /\ reg' = reg \cup {l} /\ Return
          /\ wait_cs' = [wait_cs EXCEPT ![g_cur] = NoAddr]
          /\ cv_lock' = [cv_lock EXCEPT ![g_cur] = NoAddr]
          /\ UNCHANGED <<srwVars, wait_srw, wait_srw_excl>>
       \/ /\ l \in CSs /\ ~TableFull(l) /\ ~CsFreeFor(l, g_cur)
          /\ wait_cs' = [wait_cs EXCEPT ![g_cur] = l]
          /\ ToSched("BLOCKED", "relock", g_last_error)
          /\ UNCHANGED <<reg, cs_owner, cs_rec, srwVars, wait_srw, wait_srw_excl, cv_lock>>
       \/ /\ l \in SRWs /\ u32_srw_acquirable(l, ~cv_shared[g_cur], g_cur)
          /\ SrwTake(l, ~cv_shared[g_cur], g_cur) /\ Return
          /\ wait_srw' = [wait_srw EXCEPT ![g_cur] = NoAddr]
          /\ cv_lock' = [cv_lock EXCEPT ![g_cur] = NoAddr]
          /\ UNCHANGED <<cs_owner, cs_rec, wait_cs, wait_srw_excl>>
       \/ /\ l \in SRWs /\ ~u32_srw_acquirable(l, ~cv_shared[g_cur], g_cur)
          /\ wait_srw' = [wait_srw EXCEPT ![g_cur] = l]
          /\ wait_srw_excl' = [wait_srw_excl EXCEPT ![g_cur] = ~cv_shared[g_cur]]
          /\ ToSched("BLOCKED", "relock", g_last_error)
          /\ UNCHANGED <<reg, cs_owner, cs_rec, srwVars, wait_cs, cv_lock>>
    /\ UNCHANGED <<held_cs, cvVars, errVars, idVars, clockVars, wait_h, wait_all, wait_cv,
                   timeVars, cv_shared, tp_wait, kernVars, tpVars>>

WakeFrame == UNCHANGED <<fiberVars, errVars, csVars, srwVars, kernVars, tpVars>>

\* MUTANT of WakeConditionVariable: grants are given whether or not anyone sleeps.
WakeNobody(v) ==
    /\ Call("Wake") /\ Ensure(v)
    /\ cv_grants' = [cv_grants EXCEPT ![v] = @ + 1]
    /\ UNCHANGED cv_owed /\ WakeFrame

WakeConditionVariable(v) ==
    /\ Call("Wake") /\ Ensure(v)
    /\ cv_grants' = [cv_grants EXCEPT ![v] = IF @ < u32_cv_waiters(v) THEN @ + 1 ELSE @]
    /\ UNCHANGED cv_owed /\ WakeFrame

WakeAllConditionVariable(v) ==
    /\ Call("WakeAll") /\ Ensure(v)
    /\ cv_grants' = [cv_grants EXCEPT ![v] = u32_cv_waiters(v)]
    /\ cv_owed' = cv_owed \cup {f \in Live : wait_cv[f] = v /\ fst[f] # "DONE"}
    /\ WakeFrame

UserLockStep ==
    \/ ResumeCs \/ ResumeSrw \/ ResumeCv \/ Relock
    \/ \E a \in CSs \cup SRWs \cup CVs : Initialize(a) \/ RegisterFull(a)
    \/ \E c \in CSs : \/ EnterNow(c) \/ EnterBlock(c) \/ LeaveCriticalSection(c)
                      \/ DeleteCriticalSection(c)
    \/ \E l \in SRWs, excl \in BOOLEAN :
        SrwAcquireNow(l, excl) \/ SrwAcquireBlock(l, excl) \/ ReleaseSRWLock(l, excl)
    \/ \E v \in CVs : \/ WakeConditionVariable(v) \/ WakeAllConditionVariable(v)
                      \/ \E l \in Locks, shared \in BOOLEAN, ms \in Delays \cup {0, Infinite} :
                            SleepConditionVariable(v, l, shared, ms)
=============================================================================
