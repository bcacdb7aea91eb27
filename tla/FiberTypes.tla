------------------------------ MODULE FiberTypes ------------------------------
(***************************************************************************)
(* The inductive invariant of the cooperative-thread runtime, part by part, *)
(* and the proof that every step keeps the types.                           *)
(*                                                                          *)
(* The types are not inductive alone: a resumed wait loop indexes a lock    *)
(* table by the wait field of its fiber, which is an address only because   *)
(* WaitInv ties the field to the place the fiber will resume at.            *)
(***************************************************************************)
EXTENDS FiberRuntime, FiniteSetTheorems, TLAPS

\* At most one fiber runs, slots past g_nfiber were never used, and a thread
\* created suspended has not started.
RunInv ==
    /\ OneRunning
    /\ \A f \in Fibers \ Live : fst[f] = "FREE" /\ pc[f] = "new"
    /\ \A f \in Fibers : fst[f] = "SUSPENDED" => pc[f] = "new"

\* The wait fields of f are the ones its resume label reads.  A lock is given up
\* to a condition-variable sleep exactly while the fiber is inside the sleep, and
\* the re-acquisition at its end waits for that lock.
FieldsMatch(f) ==
    /\ wait_cv[f] # NoAddr <=> pc[f] = "cv"
    /\ wait_h[f] # <<>> <=> pc[f] = "wait"
    /\ wait_cs[f] # NoAddr => pc[f] \in {"cs", "relock"}
    /\ wait_srw[f] # NoAddr => pc[f] \in {"srw", "relock"}
    /\ pc[f] = "cs" => wait_cs[f] # NoAddr
    /\ pc[f] = "srw" => wait_srw[f] # NoAddr
    /\ pc[f] \in {"cv", "relock"} <=> cv_lock[f] # NoAddr
    /\ pc[f] = "relock" =>
        /\ wait_cs[f] # NoAddr => wait_cs[f] = cv_lock[f]
        /\ wait_srw[f] # NoAddr => wait_srw[f] = cv_lock[f]
        /\ fst[f] \in {"BLOCKED", "READY"} => wait_cs[f] # NoAddr \/ wait_srw[f] # NoAddr
    /\ has_timeout[f] => pc[f] \in {"sleep", "wait", "cv"}
WaitInv == \A f \in Fibers : FieldsMatch(f)

\* A deadline that is armed and not reached lies ahead, one that fired lies
\* behind, and only a fiber that has run has one.
TimeMatch(f) ==
    has_timeout[f] =>
        /\ fst[f] \notin {"FREE", "SUSPENDED"}
        /\ fst[f] = "BLOCKED" => ~timed_out[f]
        /\ timed_out[f] => wake_time[f] <= g_vclock
        /\ ~timed_out[f] /\ fst[f] # "DONE" => wake_time[f] >= g_vclock
TimeInv == \A f \in Fibers : TimeMatch(f)

\* Every live fiber that is not executing has its own last error saved.
ErrInv ==
    /\ LastErrorIsolated
    /\ \A f \in Fibers : fst[f] # "DONE" /\ (ctl = "sched" \/ f # g_cur) =>
        last_error[f] = own_error[f]

\* MutexExclusion, and the slots CreateMutex has not handed out are free.
MutexInv == MutexExclusion /\ \A m \in Mutexes : m >= g_nmutex => mx_owner[m] = 0

\* A group of variables that does not change keeps its types.
LEMMA TypeFrames ==
    /\ CtxTypeOK /\ UNCHANGED ctxVars => CtxTypeOK'
    /\ IdTypeOK /\ UNCHANGED idVars => IdTypeOK'
    /\ ClockTypeOK /\ UNCHANGED clockVars => ClockTypeOK'
    /\ WaitTypeOK /\ UNCHANGED waitVars => WaitTypeOK'
    /\ TimeTypeOK /\ UNCHANGED timeVars => TimeTypeOK'
    /\ LocalTypeOK /\ UNCHANGED localVars => LocalTypeOK'
    /\ ErrTypeOK /\ UNCHANGED errVars => ErrTypeOK'
    /\ CsTypeOK /\ UNCHANGED csVars => CsTypeOK'
    /\ SrwTypeOK /\ UNCHANGED srwVars => SrwTypeOK'
    /\ CvTypeOK /\ UNCHANGED cvVars => CvTypeOK'
    /\ EvTypeOK /\ UNCHANGED evVars => EvTypeOK'
    /\ MxTypeOK /\ UNCHANGED mxVars => MxTypeOK'
    /\ SemTypeOK /\ UNCHANGED semVars => SemTypeOK'
    /\ TpTypeOK /\ UNCHANGED tpVars => TpTypeOK'
  BY
     DEF CtxTypeOK, IdTypeOK, ClockTypeOK, Live, WaitTypeOK, TimeTypeOK, LocalTypeOK,
         ErrTypeOK, CsTypeOK, SrwTypeOK, CvTypeOK, EvTypeOK, MxTypeOK, SemTypeOK,
         TpTypeOK, ctxVars, idVars, clockVars, waitVars, timeVars, localVars, errVars,
         csVars, srwVars, cvVars, evVars, mxVars, semVars, tpVars

\* g_cur is a slot of the fiber table, and g_cur + 1 an owner.
LEMMA CurFiber == TypeOK => g_cur \in Fibers /\ g_cur + 1 \in 0 .. MaxFiber
  BY TableAssumption DEF TypeOK, FibersTypeOK, ClockTypeOK, Live, Fibers

\* The slots handed out are slots of the table.
LEMMA LiveFibers == TypeOK => Live \subseteq Fibers
  BY TableAssumption DEF TypeOK, FibersTypeOK, ClockTypeOK, Live, Fibers

\* The round-robin scan, modulo g_nfiber, stays inside the slots handed out.
LEMMA CandidateLive ==
    TypeOK => \A k \in 1 .. g_nfiber : Candidate(k) \in Live /\ Candidate(k) \in Fibers
  BY TableAssumption DEF TypeOK, FibersTypeOK, ClockTypeOK, Live, Fibers, Candidate

\* Time-outs are natural numbers.
LEMMA MsNat == \A ms \in Delays \cup {0, Infinite} : ms \in Nat
  BY TimeAssumption

\* u32_wait stores a prefix of the program's array, which is an array of handles.
LEMMA ClippedType == \A hs \in WaitSets : Clipped(hs) \in Seq(Handles)
  BY WaitAssumption, TableAssumption DEF Clipped

\* u32_cv_waiters counts a finite set.
LEMMA WaitersNat == TypeOK => \A v : u32_cv_waiters(v) \in Nat
<1> SUFFICES ASSUME TypeOK, NEW v PROVE u32_cv_waiters(v) \in Nat
  OBVIOUS
<1> DEFINE W == {f \in Live : fst[f] = "BLOCKED" /\ wait_cv[f] = v}
<1>1. IsFiniteSet(Live)
  BY FS_Interval, TableAssumption DEF TypeOK, FibersTypeOK, ClockTypeOK, Live
<1>2. IsFiniteSet(W)
  BY <1>1, FS_Subset
<1>. QED
  BY <1>2, FS_CardinalityType DEF u32_cv_waiters

\* 0, the owner of a free lock, is in the range of owner fields.
LEMMA ZeroOwner == 0 \in 0 .. MaxFiber
  BY TableAssumption

\* The int arithmetic of ReleaseSemaphore gives integers.
LEMMA SemInt ==
    \A x \in Int, r \in RelCounts :
        x + r \in Int /\ x - r \in Int /\ Wrap(x + r) \in Int
  BY CountAssumption DEF Wrap

\* g_vclock + ms is a time.
LEMMA LaterNat ==
    ASSUME TypeOK, NEW ms \in Delays \cup {0, Infinite}
    PROVE  g_vclock + ms \in Nat
  BY MsNat DEF TypeOK, FibersTypeOK, ClockTypeOK

\* Taking a critical section (EnterCriticalSection) keeps owner and depth typed.
LEMMA CsTakeType ==
    ASSUME CsTypeOK, NEW c \in CSs, NEW f \in Fibers, f + 1 \in 0 .. MaxFiber, CsTake(c, f)
    PROVE  cs_owner' \in [CSs -> 0 .. MaxFiber] /\ cs_rec' \in [CSs -> Nat]
  BY DEF CsTypeOK, CsTake

\* Taking an SRW lock (u32_srw_take) keeps its fields typed.
LEMMA SrwTakeType ==
    ASSUME SrwTypeOK, NEW l \in SRWs, NEW excl \in BOOLEAN, NEW f \in Fibers,
           f + 1 \in 0 .. MaxFiber, SrwTake(l, excl, f)
    PROVE  SrwTypeOK'
<1>1. CASE excl
  <2>1. srw_writer' \in [SRWs -> 0 .. MaxFiber]
    BY <1>1 DEF SrwTypeOK, SrwTake
  <2>2. held_ex' = [held_ex EXCEPT ![f][l] = TRUE]
    BY <1>1 DEF SrwTake
  <2>3. held_ex' \in [Fibers -> [SRWs -> BOOLEAN]]
    BY <2>2 DEF SrwTypeOK
  <2>. QED
    BY <1>1, <2>1, <2>3 DEF SrwTypeOK, SrwTake
<1>2. CASE ~excl
  <2>1. srw_readers' \in [SRWs -> Nat]
    BY <1>2 DEF SrwTypeOK, SrwTake
  <2>2. held_sh' = [held_sh EXCEPT ![f][l] = @ + 1]
    BY <1>2 DEF SrwTake
  <2>3. held_sh' \in [Fibers -> [SRWs -> Nat]]
    BY <2>2 DEF SrwTypeOK
  <2>. QED
    BY <1>2, <2>1, <2>3 DEF SrwTypeOK, SrwTake
<1>. QED
  BY <1>1, <1>2

\* Releasing an SRW lock (u32_srw_release) keeps its fields typed.
LEMMA SrwReleaseType ==
    ASSUME SrwTypeOK, NEW l \in SRWs, NEW excl \in BOOLEAN, NEW f \in Fibers,
           SrwRelease(l, excl, f)
    PROVE  SrwTypeOK'
<1>1. CASE excl
  <2>1. srw_writer' \in [SRWs -> 0 .. MaxFiber]
    BY <1>1, ZeroOwner DEF SrwTypeOK, SrwRelease
  <2>2. held_ex' = [held_ex EXCEPT ![f][l] = FALSE]
    BY <1>1 DEF SrwRelease
  <2>3. held_ex' \in [Fibers -> [SRWs -> BOOLEAN]]
    BY <2>2 DEF SrwTypeOK
  <2>. QED
    BY <1>1, <2>1, <2>3 DEF SrwTypeOK, SrwRelease
<1>2. CASE ~excl
  <2>1. srw_readers' \in [SRWs -> Nat]
    BY <1>2 DEF SrwTypeOK, SrwRelease
  <2>2. held_sh' \in [Fibers -> [SRWs -> Nat]]
    BY <1>2 DEF SrwTypeOK, SrwRelease
  <2>. QED
    BY <1>2, <2>1, <2>2 DEF SrwTypeOK, SrwRelease
<1>. QED
  BY <1>1, <1>2

\* Taking the objects of a satisfied wait (u32_handle_acquire) keeps the event,
\* mutex and semaphore tables typed.
LEMMA SatisfyType ==
    ASSUME TypeOK, NEW hs, NEW all, Satisfy(hs, all)
    PROVE  EvTypeOK' /\ MxTypeOK' /\ SemTypeOK'
<1> USE DEF TypeOK, FibersTypeOK, TablesTypeOK
<1>0. g_cur \in Fibers /\ g_cur + 1 \in 0 .. MaxFiber
  BY CurFiber
<1>1. PICK i \in DOMAIN hs : Acquire(hs, all, i)
  BY DEF Satisfy
<1>2. EvTypeOK'
  BY <1>1 DEF Satisfy, Acquire, EvTypeOK
<1>3. MxTypeOK'
  <2>1. mx_owner' \in [Mutexes -> 0 .. MaxFiber]
    BY <1>0, <1>1 DEF Acquire, MxTypeOK
  <2>2. mx_rec' \in [Mutexes -> Nat]
    BY <1>1 DEF Acquire, MxTypeOK
  <2>3. held_mx' \in [Fibers -> [Mutexes -> Nat]]
    BY <1>0, <1>1 DEF Acquire, MxTypeOK
  <2>. QED
    BY <2>1, <2>2, <2>3 DEF Satisfy, MxTypeOK
<1>4. SemTypeOK'
  BY <1>1 DEF Satisfy, Acquire, SemTypeOK
<1>. QED
  BY <1>2, <1>3, <1>4

\* A resumed wait loop finds an address, not NULL, in the field it reads.
LEMMA WaitAddr ==
    ASSUME TypeOK, WaitInv
    PROVE  /\ At("cs") => wait_cs[g_cur] \in CSs
           /\ At("srw") => wait_srw[g_cur] \in SRWs /\ wait_srw_excl[g_cur] \in BOOLEAN
           /\ At("cv") => wait_cv[g_cur] \in CVs
           /\ At("relock") => cv_lock[g_cur] \in Locks /\ cv_shared[g_cur] \in BOOLEAN
  BY CurFiber
     DEF TypeOK, FibersTypeOK, WaitTypeOK, LocalTypeOK, WaitInv, FieldsMatch, At

\* An iteration of u32_sched_loop: keeps every field of the C tables in its
\* range.
LEMMA SchedTypeOK == TypeOK /\ WaitInv /\ SchedStep => TypeOK'
<1> SUFFICES ASSUME TypeOK, WaitInv, SchedStep PROVE TypeOK'
  OBVIOUS
<1> USE DEF TypeOK, FibersTypeOK, TablesTypeOK
<1>0. g_cur \in Fibers /\ g_cur + 1 \in 0 .. MaxFiber
  BY CurFiber
<1>1. CASE SchedDispatch
  <2>1. CtxTypeOK'
    BY <1>0, <1>1 DEF SchedDispatch, CtxTypeOK, FST, Labels, SchedFrame, idVars
  <2>2. ClockTypeOK'
    BY <1>0, <1>1 DEF SchedDispatch, ClockTypeOK, Live, SchedFrame, Candidate
  <2>3. TimeTypeOK'
    BY <1>0, <1>1 DEF SchedDispatch, TimeTypeOK, SchedFrame
  <2>4. ErrTypeOK'
    BY <1>0, <1>1, CandidateLive DEF SchedDispatch, ErrTypeOK, SchedFrame, CtxTypeOK
  <2>. QED
    BY <1>1, <2>1, <2>2, <2>3, <2>4, TypeFrames
       DEF SchedDispatch, SchedFrame, fiberVars, userVars, kernVars
<1>2. CASE SchedAdvance
  <2>1. CtxTypeOK'
    BY <1>0, <1>2 DEF SchedAdvance, CtxTypeOK, FST, Labels, SchedFrame
  <2>2. ClockTypeOK'
    <3>1. g_nfiber' \in 1 .. MaxFiber
      BY <1>0, <1>2, LiveFibers
         DEF SchedAdvance, ClockTypeOK, Live, SchedFrame, Timed, TimeTypeOK
    <3>2. g_cur' \in Live'
      BY <1>0, <1>2, LiveFibers
         DEF SchedAdvance, ClockTypeOK, Live, SchedFrame, Timed, TimeTypeOK
    <3>3. g_rr' \in Live'
      BY <1>0, <1>2, LiveFibers
         DEF SchedAdvance, ClockTypeOK, Live, SchedFrame, Timed, TimeTypeOK
    <3>4. g_vclock' \in Nat
      BY <1>0, <1>2, LiveFibers
         DEF SchedAdvance, ClockTypeOK, Live, SchedFrame, Timed, TimeTypeOK
    <3>. QED
      BY <3>1, <3>2, <3>3, <3>4 DEF ClockTypeOK
  <2>3. TimeTypeOK'
    BY <1>0, <1>2 DEF SchedAdvance, TimeTypeOK, SchedFrame
  <2>4. ErrTypeOK'
    BY <1>0, <1>2 DEF SchedAdvance, ErrTypeOK, SchedFrame
  <2>. QED
    BY <1>2, <2>1, <2>2, <2>3, <2>4, TypeFrames
       DEF SchedAdvance, SchedFrame, fiberVars, userVars, kernVars
<1>3. CASE SchedPoll
  <2>. QED
    BY <1>3, TypeFrames DEF SchedPoll, vars, fiberVars, userVars, kernVars
<1>4. CASE SchedGiveUp
  <2>1. CtxTypeOK'
    BY <1>0, <1>4 DEF SchedGiveUp, CtxTypeOK, FST, Labels, SchedFrame
  <2>2. ClockTypeOK'
    BY <1>0, <1>4 DEF SchedGiveUp, ClockTypeOK, Live, SchedFrame
  <2>3. TimeTypeOK'
    BY <1>0, <1>4 DEF SchedGiveUp, TimeTypeOK, SchedFrame
  <2>4. ErrTypeOK'
    BY <1>0, <1>4 DEF SchedGiveUp, ErrTypeOK, SchedFrame
  <2>. QED
    BY <1>4, <2>1, <2>2, <2>3, <2>4, TypeFrames
       DEF SchedGiveUp, SchedFrame, fiberVars, userVars, kernVars
<1>. QED
  BY <1>1, <1>2, <1>3, <1>4 DEF SchedStep

\* Sleep, the trampoline and the thread calls: keeps every field of the C
\* tables in its range.
LEMMA ThreadTypeOK == TypeOK /\ WaitInv /\ ThreadStep => TypeOK'
<1> SUFFICES ASSUME TypeOK, WaitInv, ThreadStep PROVE TypeOK'
  OBVIOUS
<1> USE DEF TypeOK, FibersTypeOK, TablesTypeOK
<1>0. g_cur \in Fibers /\ g_cur + 1 \in 0 .. MaxFiber
  BY CurFiber
<1>1. CASE SetLastError
  <2>1. ErrTypeOK'
    BY <1>0, <1>1, CodeAssumption DEF SetLastError, ErrTypeOK, Fail
  <2>. QED
    BY <1>1, <2>1, TypeFrames DEF SetLastError, ObjFrame, fiberVars, userVars, kernVars
<1>2. CASE SleepYield
  <2>1. CtxTypeOK'
    BY <1>0, <1>2 DEF SleepYield, CtxTypeOK, FST, Labels, ToSched, ErrTypeOK
  <2>. QED
    BY <1>2, <2>1, TypeFrames DEF SleepYield, ObjFrame, fiberVars, userVars, kernVars
<1>3. CASE ResumeYield
  <2>1. CtxTypeOK'
    BY <1>0, <1>3 DEF ResumeYield, CtxTypeOK, FST, Labels, Return
  <2>. QED
    BY <1>3, <2>1, TypeFrames DEF ResumeYield, ObjFrame, fiberVars, userVars, kernVars
<1>4. CASE ResumeSleep
  <2>1. CtxTypeOK'
    BY <1>0, <1>4 DEF ResumeSleep, CtxTypeOK, FST, Labels, Return, ToSched, ErrTypeOK
  <2>2. TimeTypeOK'
    BY <1>0, <1>4 DEF ResumeSleep, TimeTypeOK
  <2>. QED
    BY <1>4, <2>1, <2>2, TypeFrames
       DEF ResumeSleep, ObjFrame, fiberVars, userVars, kernVars
<1>5. CASE StartFiber
  <2>1. CtxTypeOK'
    BY <1>0, <1>5 DEF StartFiber, CtxTypeOK, FST, Labels, Return
  <2>2. IdTypeOK'
    BY <1>0, <1>5 DEF StartFiber, IdTypeOK
  <2>3. TpTypeOK'
    BY <1>0, <1>5 DEF StartFiber, TpTypeOK, IdTypeOK
  <2>. QED
    BY <1>5, <2>1, <2>2, <2>3, TypeFrames
       DEF StartFiber, ObjFrame, fiberVars, userVars, kernVars
<1>6. CASE ProcessExit
  <2>1. CtxTypeOK'
    BY <1>0, <1>6 DEF ProcessExit, CtxTypeOK, FST, Labels
  <2>. QED
    BY <1>6, <2>1, TypeFrames DEF ProcessExit, ObjFrame, fiberVars, userVars, kernVars
<1>7. CASE SuspendThread
  <2>1. CtxTypeOK'
    BY <1>0, <1>7 DEF SuspendThread, CtxTypeOK, FST, Labels, Abort
  <2>2. ErrTypeOK'
    BY <1>0, <1>7 DEF SuspendThread, ErrTypeOK, Abort, errVars
  <2>. QED
    BY <1>7, <2>1, <2>2, TypeFrames
       DEF SuspendThread, ObjFrame, fiberVars, userVars, kernVars
<1>8. ASSUME NEW ms \in Delays \cup {Infinite}, Sleep(ms)
      PROVE  TypeOK'
  <2>1. CtxTypeOK'
    BY <1>0, <1>8 DEF Sleep, CtxTypeOK, FST, Labels, ToSched, ErrTypeOK
  <2>2. WaitTypeOK'
    BY <1>0, <1>8 DEF Sleep, WaitTypeOK
  <2>3. TimeTypeOK'
    <3>1. has_timeout' \in [Fibers -> BOOLEAN]
      BY <1>0, <1>8, LaterNat DEF Sleep, TimeTypeOK
    <3>2. timed_out' \in [Fibers -> BOOLEAN]
      BY <1>0, <1>8, LaterNat DEF Sleep, TimeTypeOK
    <3>3. wake_time' \in [Fibers -> Nat]
      BY <1>0, <1>8, LaterNat DEF Sleep, TimeTypeOK
    <3>. QED
      BY <3>1, <3>2, <3>3 DEF TimeTypeOK
  <2>. QED
    BY <1>8, <2>1, <2>2, <2>3, TypeFrames
       DEF Sleep, ObjFrame, fiberVars, userVars, kernVars
<1>9. ASSUME NEW s \in {"READY", "SUSPENDED"}, CreateThread(s)
      PROVE  TypeOK'
  <2>1. CtxTypeOK'
    BY <1>0, <1>9 DEF CreateThread, CtxTypeOK, FST, Labels, Publish
  <2>2. IdTypeOK'
    BY <1>0, <1>9 DEF CreateThread, IdTypeOK, Publish
  <2>3. ClockTypeOK'
    BY <1>0, <1>9, TableAssumption DEF CreateThread, ClockTypeOK, Live, Publish
  <2>4. ErrTypeOK'
    BY <1>0, <1>9 DEF CreateThread, ErrTypeOK, Fail, errVars
  <2>. QED
    BY <1>9, <2>1, <2>2, <2>3, <2>4, TypeFrames
       DEF CreateThread, ObjFrame, fiberVars, userVars, kernVars
<1>10. ASSUME NEW code \in ExitCodes, ThreadReturn(code)
      PROVE  TypeOK'
  <2>1. CtxTypeOK'
    BY <1>0, <1>10 DEF ThreadReturn, CtxTypeOK, FST, Labels
  <2>2. IdTypeOK'
    BY <1>0, <1>10, CodeAssumption DEF ThreadReturn, IdTypeOK
  <2>3. TpTypeOK'
    BY <1>0, <1>10 DEF ThreadReturn, TpTypeOK, IdTypeOK
  <2>. QED
    BY <1>10, <2>1, <2>2, <2>3, TypeFrames
       DEF ThreadReturn, ObjFrame, fiberVars, userVars, kernVars
<1>11. ASSUME NEW code \in ExitCodes, ExitThread(code)
      PROVE  TypeOK'
  <2>1. CtxTypeOK'
    BY <1>0, <1>11 DEF ExitThread, CtxTypeOK, FST, Labels, ErrTypeOK
  <2>2. IdTypeOK'
    BY <1>0, <1>11, CodeAssumption DEF ExitThread, IdTypeOK
  <2>. QED
    BY <1>11, <2>1, <2>2, TypeFrames
       DEF ExitThread, ObjFrame, fiberVars, userVars, kernVars
<1>12. ASSUME NEW f \in Fibers, NEW code \in ExitCodes, TerminateThread(f, code)
      PROVE  TypeOK'
  <2>1. CtxTypeOK'
    BY <1>0, <1>12 DEF TerminateThread, CtxTypeOK, FST, Labels
  <2>2. IdTypeOK'
    BY <1>0, <1>12, CodeAssumption DEF TerminateThread, IdTypeOK
  <2>. QED
    BY <1>12, <2>1, <2>2, TypeFrames
       DEF TerminateThread, ObjFrame, fiberVars, userVars, kernVars
<1>13. ASSUME NEW f \in Fibers, ResumeThread(f)
      PROVE  TypeOK'
  <2>1. CtxTypeOK'
    BY <1>0, <1>13 DEF ResumeThread, CtxTypeOK, FST, Labels
  <2>. QED
    BY <1>13, <2>1, TypeFrames DEF ResumeThread, ObjFrame, fiberVars, userVars, kernVars
<1>. QED
  BY <1>1, <1>2, <1>3, <1>4, <1>5, <1>6, <1>7, <1>8, <1>9, <1>10, <1>11, <1>12, <1>13
     DEF ThreadStep

\* U32_wait and the calls on events, mutexes and semaphores: keeps every field
\* of the C tables in its range.
LEMMA HandleTypeOK == TypeOK /\ WaitInv /\ HandleStep => TypeOK'
<1> SUFFICES ASSUME TypeOK, WaitInv, HandleStep PROVE TypeOK'
  OBVIOUS
<1> USE DEF TypeOK, FibersTypeOK, TablesTypeOK
<1>0. g_cur \in Fibers /\ g_cur + 1 \in 0 .. MaxFiber
  BY CurFiber
<1>1. ASSUME NEW hs \in WaitSets, NEW all \in BOOLEAN, WaitAtOnce(hs, all)
      PROVE  TypeOK'
  <2>1. WaitTypeOK'
    <3>1. wait_h' \in [Fibers -> Seq(Handles)]
      BY <1>0, <1>1 DEF WaitAtOnce, WaitTypeOK, WaitFrame
    <3>2. wait_all' \in [Fibers -> BOOLEAN]
      BY <1>0, <1>1 DEF WaitAtOnce, WaitTypeOK, WaitFrame
    <3>3. wait_cs' \in [Fibers -> CSs \cup {NoAddr}]
      BY <1>0, <1>1 DEF WaitAtOnce, WaitTypeOK, WaitFrame
    <3>4. wait_srw' \in [Fibers -> SRWs \cup {NoAddr}]
      BY <1>0, <1>1 DEF WaitAtOnce, WaitTypeOK, WaitFrame
    <3>5. wait_srw_excl' \in [Fibers -> BOOLEAN]
      BY <1>0, <1>1 DEF WaitAtOnce, WaitTypeOK, WaitFrame
    <3>6. wait_cv' \in [Fibers -> CVs \cup {NoAddr}]
      BY <1>0, <1>1 DEF WaitAtOnce, WaitTypeOK, WaitFrame
    <3>. QED
      BY <3>1, <3>2, <3>3, <3>4, <3>5, <3>6 DEF WaitTypeOK
  <2>2. EvTypeOK' /\ MxTypeOK' /\ SemTypeOK'
    BY <1>0, <1>1, SatisfyType DEF WaitAtOnce
  <2>. QED
    BY <1>1, <2>1, <2>2, TypeFrames
       DEF WaitAtOnce, WaitFrame, fiberVars, userVars, kernVars
<1>2. ASSUME NEW hs \in WaitSets, NEW all \in BOOLEAN, WaitPoll(hs, all)
      PROVE  TypeOK'
  <2>1. WaitTypeOK'
    <3>1. wait_h' \in [Fibers -> Seq(Handles)]
      BY <1>0, <1>2 DEF WaitPoll, WaitTypeOK, WaitFrame
    <3>2. wait_all' \in [Fibers -> BOOLEAN]
      BY <1>0, <1>2 DEF WaitPoll, WaitTypeOK, WaitFrame
    <3>3. wait_cs' \in [Fibers -> CSs \cup {NoAddr}]
      BY <1>0, <1>2 DEF WaitPoll, WaitTypeOK, WaitFrame
    <3>4. wait_srw' \in [Fibers -> SRWs \cup {NoAddr}]
      BY <1>0, <1>2 DEF WaitPoll, WaitTypeOK, WaitFrame
    <3>5. wait_srw_excl' \in [Fibers -> BOOLEAN]
      BY <1>0, <1>2 DEF WaitPoll, WaitTypeOK, WaitFrame
    <3>6. wait_cv' \in [Fibers -> CVs \cup {NoAddr}]
      BY <1>0, <1>2 DEF WaitPoll, WaitTypeOK, WaitFrame
    <3>. QED
      BY <3>1, <3>2, <3>3, <3>4, <3>5, <3>6 DEF WaitTypeOK
  <2>. QED
    BY <1>2, <2>1, TypeFrames DEF WaitPoll, WaitFrame, fiberVars, userVars, kernVars
<1>3. ASSUME NEW hs \in WaitSets, NEW all \in BOOLEAN, NEW ms \in Delays \cup {Infinite},
   WaitBlock(hs, all, ms)
      PROVE  TypeOK'
  <2>1. CtxTypeOK'
    BY <1>0, <1>3 DEF WaitBlock, CtxTypeOK, FST, Labels, ToSched, ErrTypeOK
  <2>2. WaitTypeOK'
    <3>1. wait_h' \in [Fibers -> Seq(Handles)]
      BY <1>0, <1>3, ClippedType DEF WaitBlock, WaitTypeOK, WaitFrame
    <3>2. wait_all' \in [Fibers -> BOOLEAN]
      BY <1>0, <1>3, ClippedType DEF WaitBlock, WaitTypeOK, WaitFrame
    <3>3. wait_cs' \in [Fibers -> CSs \cup {NoAddr}]
      BY <1>0, <1>3, ClippedType DEF WaitBlock, WaitTypeOK, WaitFrame
    <3>4. wait_srw' \in [Fibers -> SRWs \cup {NoAddr}]
      BY <1>0, <1>3, ClippedType DEF WaitBlock, WaitTypeOK, WaitFrame
    <3>5. wait_srw_excl' \in [Fibers -> BOOLEAN]
      BY <1>0, <1>3, ClippedType DEF WaitBlock, WaitTypeOK, WaitFrame
    <3>6. wait_cv' \in [Fibers -> CVs \cup {NoAddr}]
      BY <1>0, <1>3, ClippedType DEF WaitBlock, WaitTypeOK, WaitFrame
    <3>. QED
      BY <3>1, <3>2, <3>3, <3>4, <3>5, <3>6 DEF WaitTypeOK
  <2>3. TimeTypeOK'
    <3>1. has_timeout' \in [Fibers -> BOOLEAN]
      BY <1>0, <1>3, LaterNat DEF WaitBlock, TimeTypeOK
    <3>2. timed_out' \in [Fibers -> BOOLEAN]
      BY <1>0, <1>3, LaterNat DEF WaitBlock, TimeTypeOK
    <3>3. wake_time' \in [Fibers -> Nat]
      BY <1>0, <1>3, LaterNat DEF WaitBlock, TimeTypeOK
    <3>. QED
      BY <3>1, <3>2, <3>3 DEF TimeTypeOK
  <2>. QED
    BY <1>3, <2>1, <2>2, <2>3, TypeFrames
       DEF WaitBlock, WaitFrame, fiberVars, userVars, kernVars
<1>4. CASE ResumeWait
  <2>1. CtxTypeOK'
    BY <1>0, <1>4 DEF ResumeWait, CtxTypeOK, FST, Labels, ToSched, Return, ErrTypeOK
  <2>2. WaitTypeOK'
    <3>1. wait_h' \in [Fibers -> Seq(Handles)]
      <4>1. wait_h' \in {wait_h, [wait_h EXCEPT ![g_cur] = <<>>]}
        BY <1>4 DEF ResumeWait
      <4>2. <<>> \in Seq(Handles)
        OBVIOUS
      <4>. QED
        BY <1>0, <4>1, <4>2 DEF WaitTypeOK
    <3>2. wait_all' \in [Fibers -> BOOLEAN]
      BY <1>0, <1>4 DEF ResumeWait, WaitTypeOK, WaitFrame
    <3>3. wait_cs' \in [Fibers -> CSs \cup {NoAddr}]
      BY <1>0, <1>4 DEF ResumeWait, WaitTypeOK, WaitFrame
    <3>4. wait_srw' \in [Fibers -> SRWs \cup {NoAddr}]
      BY <1>0, <1>4 DEF ResumeWait, WaitTypeOK, WaitFrame
    <3>5. wait_srw_excl' \in [Fibers -> BOOLEAN]
      BY <1>0, <1>4 DEF ResumeWait, WaitTypeOK, WaitFrame
    <3>6. wait_cv' \in [Fibers -> CVs \cup {NoAddr}]
      BY <1>0, <1>4 DEF ResumeWait, WaitTypeOK, WaitFrame
    <3>. QED
      BY <3>1, <3>2, <3>3, <3>4, <3>5, <3>6 DEF WaitTypeOK
  <2>3. TimeTypeOK'
    BY <1>0, <1>4 DEF ResumeWait, TimeTypeOK
  <2>4. EvTypeOK' /\ MxTypeOK' /\ SemTypeOK'
    BY <1>0, <1>4, SatisfyType, TypeFrames DEF ResumeWait, kernVars
  <2>. QED
    BY <1>4, <2>1, <2>2, <2>3, <2>4, TypeFrames
       DEF ResumeWait, WaitFrame, fiberVars, userVars, kernVars
<1>5. ASSUME NEW a \in BOOLEAN, NEW b \in BOOLEAN, NEW n \in Names \cup {NoName},
   CreateEvent(a, b, n)
      PROVE  TypeOK'
  <2>1. EvTypeOK'
    <3>1. g_nevent' \in 0 .. MaxEvent
      BY <1>0, <1>5, TableAssumption DEF CreateEvent, EvTypeOK, evVars
    <3>2. ev_manual' \in [Events -> BOOLEAN]
      BY <1>0, <1>5, TableAssumption DEF CreateEvent, EvTypeOK, evVars
    <3>3. ev_signaled' \in [Events -> BOOLEAN]
      BY <1>0, <1>5, TableAssumption DEF CreateEvent, EvTypeOK, evVars
    <3>4. ev_name' \in [Events -> Names \cup {NoName}]
      BY <1>0, <1>5, TableAssumption DEF CreateEvent, EvTypeOK, evVars
    <3>5. ev_sel' \in [Events -> BOOLEAN]
      BY <1>0, <1>5, TableAssumption DEF CreateEvent, EvTypeOK, evVars
    <3>6. ev_tok' \in [Events -> Nat]
      BY <1>0, <1>5, TableAssumption DEF CreateEvent, EvTypeOK, evVars
    <3>. QED
      BY <3>1, <3>2, <3>3, <3>4, <3>5, <3>6 DEF EvTypeOK
  <2>2. ErrTypeOK'
    BY <1>0, <1>5 DEF CreateEvent, ErrTypeOK, Fail, errVars
  <2>. QED
    BY <1>5, <2>1, <2>2, TypeFrames DEF CreateEvent, fiberVars, userVars, kernVars
<1>6. ASSUME NEW e \in Events, SetEvent(e)
      PROVE  TypeOK'
  <2>1. EvTypeOK'
    BY <1>0, <1>6 DEF SetEvent, EvTypeOK, EvFrame, Signal
  <2>. QED
    BY <1>6, <2>1, TypeFrames DEF SetEvent, EvFrame, fiberVars, userVars, kernVars
<1>7. ASSUME NEW e \in Events, ResetEvent(e)
      PROVE  TypeOK'
  <2>1. EvTypeOK'
    BY <1>0, <1>7 DEF ResetEvent, EvTypeOK, EvFrame
  <2>. QED
    BY <1>7, <2>1, TypeFrames DEF ResetEvent, EvFrame, fiberVars, userVars, kernVars
<1>8. ASSUME NEW e \in Events, NetReady(e)
      PROVE  TypeOK'
  <2>1. EvTypeOK'
    BY <1>0, <1>8 DEF NetReady, EvTypeOK, EvFrame, Signal
  <2>. QED
    BY <1>8, <2>1, TypeFrames DEF NetReady, EvFrame, fiberVars, userVars, kernVars
<1>9. ASSUME NEW e \in Events, NEW used \in BOOLEAN, WSAEventSelect(e, used)
      PROVE  TypeOK'
  <2>1. EvTypeOK'
    BY <1>0, <1>9 DEF WSAEventSelect, EvTypeOK, EvFrame
  <2>. QED
    BY <1>9, <2>1, TypeFrames DEF WSAEventSelect, EvFrame, fiberVars, userVars, kernVars
<1>10. ASSUME NEW b \in BOOLEAN, NEW n \in Names \cup {NoName}, CreateMutex(b, n)
      PROVE  TypeOK'
  <2>1. MxTypeOK'
    <3>1. g_nmutex' \in 0 .. MaxMutex
      BY <1>0, <1>10, TableAssumption DEF CreateMutex, MxTypeOK, mxVars
    <3>2. mx_owner' \in [Mutexes -> 0 .. MaxFiber]
      BY <1>0, <1>10, TableAssumption DEF CreateMutex, MxTypeOK, mxVars
    <3>3. mx_rec' \in [Mutexes -> Nat]
      BY <1>0, <1>10, TableAssumption DEF CreateMutex, MxTypeOK, mxVars
    <3>4. mx_name' \in [Mutexes -> Names \cup {NoName}]
      BY <1>0, <1>10, TableAssumption DEF CreateMutex, MxTypeOK, mxVars
    <3>5. held_mx' \in [Fibers -> [Mutexes -> Nat]]
      BY <1>0, <1>10, TableAssumption DEF CreateMutex, MxTypeOK, mxVars
    <3>. QED
      BY <3>1, <3>2, <3>3, <3>4, <3>5 DEF MxTypeOK
  <2>2. ErrTypeOK'
    BY <1>0, <1>10 DEF CreateMutex, ErrTypeOK, Fail, errVars
  <2>. QED
    BY <1>10, <2>1, <2>2, TypeFrames DEF CreateMutex, fiberVars, userVars, kernVars
<1>11. ASSUME NEW m \in Mutexes, ReleaseMutex(m)
      PROVE  TypeOK'
  <2>1. MxTypeOK'
    <3>1. g_nmutex' \in 0 .. MaxMutex
      BY <1>0, <1>11, ZeroOwner DEF ReleaseMutex, MxTypeOK
    <3>2. mx_owner' \in [Mutexes -> 0 .. MaxFiber]
      BY <1>0, <1>11, ZeroOwner DEF ReleaseMutex, MxTypeOK
    <3>3. mx_rec' \in [Mutexes -> Nat]
      BY <1>0, <1>11, ZeroOwner DEF ReleaseMutex, MxTypeOK
    <3>4. mx_name' \in [Mutexes -> Names \cup {NoName}]
      BY <1>0, <1>11, ZeroOwner DEF ReleaseMutex, MxTypeOK
    <3>5. held_mx' \in [Fibers -> [Mutexes -> Nat]]
      BY <1>0, <1>11, ZeroOwner DEF ReleaseMutex, MxTypeOK
    <3>. QED
      BY <3>1, <3>2, <3>3, <3>4, <3>5 DEF MxTypeOK
  <2>. QED
    BY <1>11, <2>1, TypeFrames DEF ReleaseMutex, fiberVars, userVars, kernVars
<1>12. ASSUME NEW i \in 0 .. SemMax, NEW x \in 1 .. SemMax, NEW n \in Names \cup {NoName},
   CreateSemaphore(i, x, n)
      PROVE  TypeOK'
  <2>1. SemTypeOK'
    <3>1. g_nsem' \in 0 .. MaxSem
      BY <1>0, <1>12, TableAssumption, CountAssumption
         DEF CreateSemaphore, SemTypeOK, semVars
    <3>2. sem_count' \in [Sems -> Int]
      BY <1>0, <1>12, TableAssumption, CountAssumption
         DEF CreateSemaphore, SemTypeOK, semVars
    <3>3. sem_max' \in [Sems -> Int]
      BY <1>0, <1>12, TableAssumption, CountAssumption
         DEF CreateSemaphore, SemTypeOK, semVars
    <3>4. sem_name' \in [Sems -> Names \cup {NoName}]
      BY <1>0, <1>12, TableAssumption, CountAssumption
         DEF CreateSemaphore, SemTypeOK, semVars
    <3>5. sem_out' \in [Sems -> Int]
      BY <1>0, <1>12, TableAssumption, CountAssumption
         DEF CreateSemaphore, SemTypeOK, semVars
    <3>. QED
      BY <3>1, <3>2, <3>3, <3>4, <3>5 DEF SemTypeOK
  <2>2. ErrTypeOK'
    BY <1>0, <1>12 DEF CreateSemaphore, ErrTypeOK, Fail, errVars
  <2>. QED
    BY <1>12, <2>1, <2>2, TypeFrames DEF CreateSemaphore, fiberVars, userVars, kernVars
<1>13. ASSUME NEW s \in Sems, NEW rel \in RelCounts, ReleaseSemaphore(s, rel)
      PROVE  TypeOK'
  <2>1. SemTypeOK'
    <3>1. g_nsem' \in 0 .. MaxSem
      BY <1>0, <1>13, TableAssumption, CountAssumption, SemInt
         DEF ReleaseSemaphore, SemTypeOK, semVars
    <3>2. sem_count' \in [Sems -> Int]
      BY <1>0, <1>13, TableAssumption, CountAssumption, SemInt
         DEF ReleaseSemaphore, SemTypeOK, semVars
    <3>3. sem_max' \in [Sems -> Int]
      BY <1>0, <1>13, TableAssumption, CountAssumption, SemInt
         DEF ReleaseSemaphore, SemTypeOK, semVars
    <3>4. sem_name' \in [Sems -> Names \cup {NoName}]
      BY <1>0, <1>13, TableAssumption, CountAssumption, SemInt
         DEF ReleaseSemaphore, SemTypeOK, semVars
    <3>5. sem_out' \in [Sems -> Int]
      BY <1>0, <1>13, TableAssumption, CountAssumption, SemInt
         DEF ReleaseSemaphore, SemTypeOK, semVars
    <3>. QED
      BY <3>1, <3>2, <3>3, <3>4, <3>5 DEF SemTypeOK
  <2>2. ErrTypeOK'
    BY <1>0, <1>13 DEF ReleaseSemaphore, ErrTypeOK, Fail, errVars
  <2>. QED
    BY <1>13, <2>1, <2>2, TypeFrames DEF ReleaseSemaphore, fiberVars, userVars, kernVars
<1>14. ASSUME NEW n \in Names, OpenMissing(n)
      PROVE  TypeOK'
  <2>1. ErrTypeOK'
    BY <1>0, <1>14 DEF OpenMissing, ErrTypeOK, Fail
  <2>. QED
    BY <1>14, <2>1, TypeFrames DEF OpenMissing, fiberVars, userVars, kernVars
<1>. QED
  BY <1>1, <1>2, <1>3, <1>4, <1>5, <1>6, <1>7, <1>8, <1>9, <1>10, <1>11, <1>12, <1>13,
     <1>14
     DEF HandleStep

\* The calls on critical sections, SRW locks and condition variables: keeps
\* every field of the C tables in its range.
LEMMA UserLockTypeOK == TypeOK /\ WaitInv /\ UserLockStep => TypeOK'
<1> SUFFICES ASSUME TypeOK, WaitInv, UserLockStep PROVE TypeOK'
  OBVIOUS
<1> USE DEF TypeOK, FibersTypeOK, TablesTypeOK
<1>0. g_cur \in Fibers /\ g_cur + 1 \in 0 .. MaxFiber
  BY CurFiber
<1>1. CASE ResumeCs
  <2>1. CtxTypeOK'
    BY <1>0, <1>1 DEF ResumeCs, CtxTypeOK, FST, Labels, ToSched, Return, ErrTypeOK
  <2>2. WaitTypeOK'
    BY <1>0, <1>1 DEF ResumeCs, WaitTypeOK, CsFrame
  <2>3. CsTypeOK'
    <3>1. cs_owner' \in [CSs -> 0 .. MaxFiber]
      BY <1>0, <1>1, WaitAddr, CsTakeType DEF ResumeCs, CsTypeOK, csVars
    <3>2. cs_rec' \in [CSs -> Nat]
      BY <1>0, <1>1, WaitAddr, CsTakeType DEF ResumeCs, CsTypeOK, csVars
    <3>3. held_cs' \in [Fibers -> [CSs -> Nat]]
      <4>1. held_cs' \in {held_cs, [held_cs EXCEPT ![g_cur][wait_cs[g_cur]] = @ + 1]}
        BY <1>1 DEF ResumeCs, csVars
      <4>2. wait_cs[g_cur] \in CSs
        BY <1>1, WaitAddr DEF ResumeCs
      <4>. QED
        BY <1>0, <4>1, <4>2 DEF CsTypeOK
    <3>. QED
      BY <3>1, <3>2, <3>3 DEF CsTypeOK
  <2>. QED
    BY <1>1, <2>1, <2>2, <2>3, TypeFrames
       DEF ResumeCs, CsFrame, fiberVars, userVars, kernVars
<1>2. CASE ResumeSrw
  <2>1. CtxTypeOK'
    BY <1>0, <1>2 DEF ResumeSrw, CtxTypeOK, FST, Labels, ToSched, Return, ErrTypeOK
  <2>2. WaitTypeOK'
    BY <1>0, <1>2 DEF ResumeSrw, WaitTypeOK, SrwFrame
  <2>3. SrwTypeOK'
    BY <1>0, <1>2, WaitAddr, SrwTakeType, TypeFrames DEF ResumeSrw, SrwTypeOK
  <2>4. (reg \subseteq CSs \cup SRWs \cup CVs)'
    BY <1>0, <1>2, WaitAddr DEF ResumeSrw, SrwTake
  <2>. QED
    BY <1>2, <2>1, <2>2, <2>3, <2>4, TypeFrames
       DEF ResumeSrw, SrwFrame, fiberVars, userVars, kernVars
<1>3. CASE ResumeCv
  <2>1. CtxTypeOK'
    BY <1>0, <1>3 DEF ResumeCv, CtxTypeOK, FST, Labels, ToSched, CvLeave, ErrTypeOK
  <2>2. WaitTypeOK'
    BY <1>0, <1>3 DEF ResumeCv, WaitTypeOK, CvLeave
  <2>3. TimeTypeOK'
    BY <1>0, <1>3 DEF ResumeCv, TimeTypeOK, CvLeave
  <2>4. CvTypeOK'
    <3>1. cv_grants' \in [CVs -> Nat]
      BY <1>0, <1>3 DEF ResumeCv, CvTypeOK, CvLeave, cvVars, WaitTypeOK
    <3>2. cv_owed' \subseteq Fibers
      BY <1>0, <1>3 DEF ResumeCv, CvTypeOK, CvLeave, cvVars, WaitTypeOK
    <3>. QED
      BY <3>1, <3>2 DEF CvTypeOK
  <2>5. ErrTypeOK'
    BY <1>0, <1>3 DEF ResumeCv, ErrTypeOK, Fail, errVars
  <2>. QED
    BY <1>3, <2>1, <2>2, <2>3, <2>4, <2>5, TypeFrames
       DEF ResumeCv, fiberVars, userVars, kernVars
<1>4. CASE Relock
  <2>1. CtxTypeOK'
    BY <1>0, <1>4 DEF Relock, CtxTypeOK, FST, Labels, ToSched, Return, ErrTypeOK
  <2>2. WaitTypeOK'
    BY <1>0, <1>4 DEF Relock, WaitTypeOK
  <2>3. LocalTypeOK'
    BY <1>0, <1>4 DEF Relock, LocalTypeOK, Locks
  <2>4. CsTypeOK'
    <3>1. cs_owner' \in [CSs -> 0 .. MaxFiber]
      BY <1>0, <1>4 DEF Relock, CsTypeOK, CsTake
    <3>2. cs_rec' \in [CSs -> Nat]
      BY <1>0, <1>4 DEF Relock, CsTypeOK, CsTake
    <3>3. held_cs' \in [Fibers -> [CSs -> Nat]]
      BY <1>0, <1>4 DEF Relock, CsTypeOK, CsTake
    <3>. QED
      BY <3>1, <3>2, <3>3 DEF CsTypeOK
  <2>5. SrwTypeOK'
    BY <1>0, <1>4, SrwTakeType, TypeFrames DEF Relock, SrwTypeOK, LocalTypeOK
  <2>6. (reg \subseteq CSs \cup SRWs \cup CVs)'
    BY <1>0, <1>4 DEF Relock, SrwTake
  <2>. QED
    BY <1>4, <2>1, <2>2, <2>3, <2>4, <2>5, <2>6, TypeFrames
       DEF Relock, fiberVars, userVars, kernVars
<1>5. ASSUME NEW x \in CSs \cup SRWs \cup CVs, Initialize(x)
      PROVE  TypeOK'
  <2>1. (reg \subseteq CSs \cup SRWs \cup CVs)'
    BY <1>0, <1>5 DEF Initialize, Ensure
  <2>. QED
    BY <1>5, <2>1, TypeFrames DEF Initialize, fiberVars, userVars, kernVars
<1>6. ASSUME NEW x \in CSs \cup SRWs \cup CVs, RegisterFull(x)
      PROVE  TypeOK'
  <2>1. CtxTypeOK'
    BY <1>0, <1>6 DEF RegisterFull, CtxTypeOK, FST, Labels, Abort
  <2>2. ErrTypeOK'
    BY <1>0, <1>6 DEF RegisterFull, ErrTypeOK, Abort, errVars
  <2>. QED
    BY <1>6, <2>1, <2>2, TypeFrames
       DEF RegisterFull, ObjFrame, fiberVars, userVars, kernVars
<1>7. ASSUME NEW c \in CSs, EnterNow(c)
      PROVE  TypeOK'
  <2>1. WaitTypeOK'
    BY <1>0, <1>7 DEF EnterNow, WaitTypeOK, CsFrame
  <2>2. CsTypeOK'
    <3>1. cs_owner' \in [CSs -> 0 .. MaxFiber]
      BY <1>0, <1>7 DEF EnterNow, CsTypeOK, CsTake
    <3>2. cs_rec' \in [CSs -> Nat]
      BY <1>0, <1>7 DEF EnterNow, CsTypeOK, CsTake
    <3>3. held_cs' \in [Fibers -> [CSs -> Nat]]
      BY <1>0, <1>7 DEF EnterNow, CsTypeOK, CsTake
    <3>. QED
      BY <3>1, <3>2, <3>3 DEF CsTypeOK
  <2>3. (reg \subseteq CSs \cup SRWs \cup CVs)'
    BY <1>0, <1>7 DEF EnterNow, Ensure
  <2>. QED
    BY <1>7, <2>1, <2>2, <2>3, TypeFrames
       DEF EnterNow, CsFrame, fiberVars, userVars, kernVars
<1>8. ASSUME NEW c \in CSs, EnterBlock(c)
      PROVE  TypeOK'
  <2>1. CtxTypeOK'
    BY <1>0, <1>8 DEF EnterBlock, CtxTypeOK, FST, Labels, ToSched, ErrTypeOK
  <2>2. WaitTypeOK'
    BY <1>0, <1>8 DEF EnterBlock, WaitTypeOK, CsFrame
  <2>3. (reg \subseteq CSs \cup SRWs \cup CVs)'
    BY <1>0, <1>8 DEF EnterBlock, Ensure
  <2>. QED
    BY <1>8, <2>1, <2>2, <2>3, TypeFrames
       DEF EnterBlock, CsFrame, fiberVars, userVars, kernVars
<1>9. ASSUME NEW c \in CSs, LeaveCriticalSection(c)
      PROVE  TypeOK'
  <2>1. WaitTypeOK'
    BY <1>0, <1>9 DEF LeaveCriticalSection, WaitTypeOK, CsFrame
  <2>2. CsTypeOK'
    <3>1. cs_owner' \in [CSs -> 0 .. MaxFiber]
      BY <1>0, <1>9, ZeroOwner DEF LeaveCriticalSection, CsTypeOK
    <3>2. cs_rec' \in [CSs -> Nat]
      BY <1>0, <1>9, ZeroOwner DEF LeaveCriticalSection, CsTypeOK
    <3>3. held_cs' \in [Fibers -> [CSs -> Nat]]
      BY <1>0, <1>9, ZeroOwner DEF LeaveCriticalSection, CsTypeOK
    <3>. QED
      BY <3>1, <3>2, <3>3 DEF CsTypeOK
  <2>. QED
    BY <1>9, <2>1, <2>2, TypeFrames
       DEF LeaveCriticalSection, CsFrame, fiberVars, userVars, kernVars
<1>10. ASSUME NEW c \in CSs, DeleteCriticalSection(c)
      PROVE  TypeOK'
  <2>1. WaitTypeOK'
    BY <1>0, <1>10 DEF DeleteCriticalSection, WaitTypeOK, CsFrame
  <2>2. CsTypeOK'
    <3>1. cs_owner' \in [CSs -> 0 .. MaxFiber]
      BY <1>0, <1>10, ZeroOwner DEF DeleteCriticalSection, CsTypeOK
    <3>2. cs_rec' \in [CSs -> Nat]
      BY <1>0, <1>10, ZeroOwner DEF DeleteCriticalSection, CsTypeOK
    <3>3. held_cs' \in [Fibers -> [CSs -> Nat]]
      BY <1>0, <1>10, ZeroOwner DEF DeleteCriticalSection, CsTypeOK
    <3>. QED
      BY <3>1, <3>2, <3>3 DEF CsTypeOK
  <2>3. (reg \subseteq CSs \cup SRWs \cup CVs)'
    BY <1>0, <1>10 DEF DeleteCriticalSection
  <2>. QED
    BY <1>10, <2>1, <2>2, <2>3, TypeFrames
       DEF DeleteCriticalSection, CsFrame, fiberVars, userVars, kernVars
<1>11. ASSUME NEW l \in SRWs, NEW excl \in BOOLEAN, SrwAcquireNow(l, excl)
      PROVE  TypeOK'
  <2>1. WaitTypeOK'
    BY <1>0, <1>11 DEF SrwAcquireNow, WaitTypeOK, SrwFrame
  <2>2. SrwTypeOK'
    BY <1>0, <1>11, SrwTakeType DEF SrwAcquireNow, SrwTypeOK
  <2>3. (reg \subseteq CSs \cup SRWs \cup CVs)'
    BY <1>0, <1>11 DEF SrwAcquireNow, SrwTake
  <2>. QED
    BY <1>11, <2>1, <2>2, <2>3, TypeFrames
       DEF SrwAcquireNow, SrwFrame, fiberVars, userVars, kernVars
<1>12. ASSUME NEW l \in SRWs, NEW excl \in BOOLEAN, SrwAcquireBlock(l, excl)
      PROVE  TypeOK'
  <2>1. CtxTypeOK'
    BY <1>0, <1>12 DEF SrwAcquireBlock, CtxTypeOK, FST, Labels, ToSched, ErrTypeOK
  <2>2. WaitTypeOK'
    BY <1>0, <1>12 DEF SrwAcquireBlock, WaitTypeOK, SrwFrame
  <2>. QED
    BY <1>12, <2>1, <2>2, TypeFrames
       DEF SrwAcquireBlock, SrwFrame, fiberVars, userVars, kernVars
<1>13. ASSUME NEW l \in SRWs, NEW excl \in BOOLEAN, ReleaseSRWLock(l, excl)
      PROVE  TypeOK'
  <2>1. WaitTypeOK'
    BY <1>0, <1>13 DEF ReleaseSRWLock, WaitTypeOK, SrwFrame
  <2>2. SrwTypeOK'
    BY <1>0, <1>13, SrwReleaseType DEF ReleaseSRWLock, SrwTypeOK
  <2>. QED
    BY <1>13, <2>1, <2>2, TypeFrames
       DEF ReleaseSRWLock, SrwFrame, fiberVars, userVars, kernVars
<1>14. ASSUME NEW v \in CVs, WakeConditionVariable(v)
      PROVE  TypeOK'
  <2>1. CvTypeOK'
    BY <1>0, <1>14 DEF WakeConditionVariable, CvTypeOK
  <2>2. (reg \subseteq CSs \cup SRWs \cup CVs)'
    BY <1>0, <1>14 DEF WakeConditionVariable, Ensure
  <2>. QED
    BY <1>14, <2>1, <2>2, TypeFrames
       DEF WakeConditionVariable, WakeFrame, fiberVars, userVars, kernVars
<1>15. ASSUME NEW v \in CVs, WakeAllConditionVariable(v)
      PROVE  TypeOK'
  <2>1. CvTypeOK'
    <3>1. cv_grants' \in [CVs -> Nat]
      BY <1>0, <1>15, WaitersNat, LiveFibers DEF WakeAllConditionVariable, CvTypeOK
    <3>2. cv_owed' \subseteq Fibers
      BY <1>0, <1>15, WaitersNat, LiveFibers DEF WakeAllConditionVariable, CvTypeOK
    <3>. QED
      BY <3>1, <3>2 DEF CvTypeOK
  <2>2. (reg \subseteq CSs \cup SRWs \cup CVs)'
    BY <1>0, <1>15 DEF WakeAllConditionVariable, Ensure
  <2>. QED
    BY <1>15, <2>1, <2>2, TypeFrames
       DEF WakeAllConditionVariable, WakeFrame, fiberVars, userVars, kernVars
<1>16. ASSUME NEW v \in CVs, NEW l \in Locks, NEW shared \in BOOLEAN, NEW ms \in Delays
   \cup {0, Infinite}, SleepConditionVariable(v, l, shared, ms)
      PROVE  TypeOK'
  <2>1. CtxTypeOK'
    BY <1>0, <1>16
       DEF SleepConditionVariable, CtxTypeOK, FST, Labels, ToSched, ErrTypeOK
  <2>2. WaitTypeOK'
    BY <1>0, <1>16 DEF SleepConditionVariable, WaitTypeOK
  <2>3. TimeTypeOK'
    <3>1. has_timeout' \in [Fibers -> BOOLEAN]
      BY <1>0, <1>16, LaterNat DEF SleepConditionVariable, TimeTypeOK, timeVars
    <3>2. timed_out' \in [Fibers -> BOOLEAN]
      BY <1>0, <1>16, LaterNat DEF SleepConditionVariable, TimeTypeOK, timeVars
    <3>3. wake_time' \in [Fibers -> Nat]
      BY <1>0, <1>16, LaterNat DEF SleepConditionVariable, TimeTypeOK, timeVars
    <3>. QED
      BY <3>1, <3>2, <3>3 DEF TimeTypeOK
  <2>4. LocalTypeOK'
    BY <1>0, <1>16 DEF SleepConditionVariable, LocalTypeOK, Locks
  <2>5. CsTypeOK'
    <3>1. cs_owner' \in [CSs -> 0 .. MaxFiber]
      BY <1>0, <1>16, ZeroOwner DEF SleepConditionVariable, CsTypeOK, Locks
    <3>2. cs_rec' \in [CSs -> Nat]
      BY <1>0, <1>16, ZeroOwner DEF SleepConditionVariable, CsTypeOK, Locks
    <3>3. held_cs' \in [Fibers -> [CSs -> Nat]]
      BY <1>0, <1>16, ZeroOwner DEF SleepConditionVariable, CsTypeOK, Locks
    <3>. QED
      BY <3>1, <3>2, <3>3 DEF CsTypeOK
  <2>6. SrwTypeOK'
    BY <1>0, <1>16, SrwReleaseType, TypeFrames
       DEF SleepConditionVariable, SrwTypeOK, Locks
  <2>7. (reg \subseteq CSs \cup SRWs \cup CVs)'
    BY <1>0, <1>16 DEF SleepConditionVariable, Ensure
  <2>8. ErrTypeOK'
    BY <1>0, <1>16 DEF SleepConditionVariable, ErrTypeOK, Fail, errVars
  <2>. QED
    BY <1>16, <2>1, <2>2, <2>3, <2>4, <2>5, <2>6, <2>7, <2>8, TypeFrames
       DEF SleepConditionVariable, fiberVars, userVars, kernVars
<1>. QED
  BY <1>1, <1>2, <1>3, <1>4, <1>5, <1>6, <1>7, <1>8, <1>9, <1>10, <1>11, <1>12, <1>13,
     <1>14, <1>15, <1>16
     DEF UserLockStep

\* The thread-pool work calls: keeps every field of the C tables in its range.
LEMMA ThreadPoolTypeOK == TypeOK /\ WaitInv /\ ThreadPoolStep => TypeOK'
<1> SUFFICES ASSUME TypeOK, WaitInv, ThreadPoolStep PROVE TypeOK'
  OBVIOUS
<1> USE DEF TypeOK, FibersTypeOK, TablesTypeOK
<1>0. g_cur \in Fibers /\ g_cur + 1 \in 0 .. MaxFiber
  BY CurFiber
<1>1. CASE PoolLoop
  <2>1. CtxTypeOK'
    BY <1>0, <1>1 DEF PoolLoop, CtxTypeOK, FST, Labels, ToSched, Return, ErrTypeOK
  <2>2. LocalTypeOK'
    BY <1>0, <1>1 DEF PoolLoop, LocalTypeOK, Locks
  <2>. QED
    BY <1>1, <2>1, <2>2, TypeFrames DEF PoolLoop, TpFrame, fiberVars, userVars, kernVars
<1>2. ASSUME NEW w \in Works, CreateThreadpoolWork(w)
      PROVE  TypeOK'
  <2>1. TpTypeOK'
    BY <1>0, <1>2 DEF CreateThreadpoolWork, TpTypeOK
  <2>. QED
    BY <1>2, <2>1, TypeFrames
       DEF CreateThreadpoolWork, TpFrame, fiberVars, userVars, kernVars
<1>3. ASSUME NEW w \in Works, SubmitThreadpoolWork(w)
      PROVE  TypeOK'
  <2>1. CtxTypeOK'
    BY <1>0, <1>3 DEF SubmitThreadpoolWork, CtxTypeOK, FST, Labels, Publish
  <2>2. IdTypeOK'
    BY <1>0, <1>3 DEF SubmitThreadpoolWork, IdTypeOK, Publish
  <2>3. ClockTypeOK'
    BY <1>0, <1>3, TableAssumption DEF SubmitThreadpoolWork, ClockTypeOK, Live, Publish
  <2>4. TpTypeOK'
    BY <1>0, <1>3 DEF SubmitThreadpoolWork, TpTypeOK
  <2>. QED
    BY <1>3, <2>1, <2>2, <2>3, <2>4, TypeFrames
       DEF SubmitThreadpoolWork, TpFrame, fiberVars, userVars, kernVars
<1>4. ASSUME NEW w \in Works, CloseThreadpoolWork(w)
      PROVE  TypeOK'
  <2>1. TpTypeOK'
    BY <1>0, <1>4 DEF CloseThreadpoolWork, TpTypeOK
  <2>. QED
    BY <1>4, <2>1, TypeFrames
       DEF CloseThreadpoolWork, TpFrame, fiberVars, userVars, kernVars
<1>5. ASSUME NEW w \in Works, NEW cancel \in BOOLEAN, WaitForThreadpoolWorkCallbacks(w,
   cancel)
      PROVE  TypeOK'
  <2>1. CtxTypeOK'
    BY <1>0, <1>5 DEF WaitForThreadpoolWorkCallbacks, CtxTypeOK, FST, Labels
  <2>2. LocalTypeOK'
    BY <1>0, <1>5 DEF WaitForThreadpoolWorkCallbacks, LocalTypeOK, Locks
  <2>3. TpTypeOK'
    BY <1>0, <1>5, LiveFibers DEF WaitForThreadpoolWorkCallbacks, TpTypeOK
  <2>. QED
    BY <1>5, <2>1, <2>2, <2>3, TypeFrames
       DEF WaitForThreadpoolWorkCallbacks, TpFrame, fiberVars, userVars, kernVars
<1>. QED
  BY <1>1, <1>2, <1>3, <1>4, <1>5 DEF ThreadPoolStep

\* The zeroed static tables have their types.
LEMMA InitType == Init => TypeOK
<1> SUFFICES ASSUME Init PROVE TypeOK
  OBVIOUS
<1> USE DEF Init, FibersInit, TablesInit
<1>1. CtxTypeOK /\ IdTypeOK /\ ErrTypeOK
  BY DEF CtxTypeOK, IdTypeOK, ErrTypeOK, FST, Labels
<1>6. ClockTypeOK
  BY TableAssumption DEF ClockTypeOK, Live
<1>2. WaitTypeOK /\ TimeTypeOK /\ LocalTypeOK
  BY DEF WaitTypeOK, TimeTypeOK, LocalTypeOK
<1>3. CsTypeOK /\ SrwTypeOK /\ CvTypeOK
  BY TableAssumption DEF CsTypeOK, SrwTypeOK, CvTypeOK
<1>4. EvTypeOK /\ MxTypeOK
  BY TableAssumption DEF EvTypeOK, MxTypeOK
<1>5. SemTypeOK /\ TpTypeOK
  BY TableAssumption DEF SemTypeOK, TpTypeOK
<1>. QED
  BY <1>1, <1>2, <1>3, <1>4, <1>5, <1>6 DEF TypeOK, FibersTypeOK, TablesTypeOK

\* A step that changes nothing keeps the types.
LEMMA StutterTypeOK == TypeOK /\ UNCHANGED vars => TypeOK'
  BY TypeFrames
     DEF TypeOK, FibersTypeOK, TablesTypeOK, vars, fiberVars, userVars, kernVars

\* Every step keeps the types.
LEMMA StepTypeOK == TypeOK /\ WaitInv /\ [Next]_vars => TypeOK'
  BY StutterTypeOK, SchedTypeOK, ThreadTypeOK, HandleTypeOK, UserLockTypeOK,
     ThreadPoolTypeOK
     DEF Next, Gone
=============================================================================
