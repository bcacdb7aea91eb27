------------------------------ MODULE FiberObjects ------------------------------
(***************************************************************************)
(* The objects fibers wait for: events and semaphores, critical sections    *)
(* and SRW locks, condition variables, thread-pool work items.  Every part  *)
(* has an invariant of its own on top of IInv, a lemma that names the steps *)
(* that can disturb it, and one lemma per such step.                        *)
(***************************************************************************)
EXTENDS FiberProofs

-----------------------------------------------------------------------------
(* Events and semaphores.                                                   *)

\* Release counts the program passes do not overflow an int.
CountsFit == \A r \in RelCounts : SemMax + r <= IntMax

\* No semaphore holds more than its maximum, which is the program's, and its
\* count is what the waits have left of what was put in.
SemInv == /\ SemConserved /\ SemBounded
          /\ \A s \in Sems : sem_max[s] <= SemMax

\* What a satisfied wait takes was signaled when it was taken.
LEMMA TakenSignaled ==
    ASSUME NEW hs, NEW all, WaitOk(hs, all, g_cur), NEW i \in DOMAIN hs,
           IF all THEN i = 1 ELSE FirstSignaled(hs, i)
    PROVE  /\ \A e \in Taken(hs, all, i, IsEvent) : ev_signaled[e]
           /\ \A s \in Taken(hs, all, i, IsSem) : sem_count[s] > 0
<1>1. \A k \in DOMAIN hs : (all \/ k = i) => u32_handle_signaled_for(hs[k], g_cur)
  BY DEF WaitOk, FirstSignaled
<1>. QED
  BY <1>1 DEF Taken, u32_handle_signaled_for

\* Every other step leaves the event table and its ghost alone.
LEMMA EventMover ==
    Next => \/ UNCHANGED evVars
            \/ \E hs, all : Satisfy(hs, all)
            \/ \E a, b \in BOOLEAN, n \in Names \cup {NoName} : CreateEvent(a, b, n)
            \/ \E e \in Events : \/ SetEvent(e) \/ ResetEvent(e) \/ NetReady(e)
                                 \/ \E used \in BOOLEAN : WSAEventSelect(e, used)
<1>1. SchedStep => UNCHANGED evVars
  BY
     DEF SchedStep, SchedDispatch, SchedAdvance, SchedPoll, SchedGiveUp, SchedFrame,
         vars, kernVars
<1>2. ThreadStep => UNCHANGED evVars
  BY
     DEF ThreadStep, SetLastError, SleepYield, ResumeYield, ResumeSleep, StartFiber,
         ProcessExit, SuspendThread, Sleep, CreateThread, ThreadReturn, ExitThread,
         TerminateThread, ResumeThread, ObjFrame, kernVars
<1>3. ASSUME HandleStep
      PROVE  \/ UNCHANGED evVars
             \/ \E hs, all : Satisfy(hs, all)
             \/ \E a, b \in BOOLEAN, n \in Names \cup {NoName} : CreateEvent(a, b, n)
             \/ \E e \in Events : \/ SetEvent(e) \/ ResetEvent(e) \/ NetReady(e)
                                  \/ \E used \in BOOLEAN : WSAEventSelect(e, used)
  <2>1. ASSUME NEW hs \in WaitSets, NEW all, WaitAtOnce(hs, all)
        PROVE  Satisfy(Clipped(hs), all)
    BY <2>1 DEF WaitAtOnce
  <2>2. ASSUME ResumeWait
        PROVE  UNCHANGED evVars \/ Satisfy(wait_h[g_cur], wait_all[g_cur])
    BY <2>2 DEF ResumeWait, kernVars
  <2>3. ASSUME NEW hs \in WaitSets, NEW all,
               WaitPoll(hs, all) \/ \E ms \in Delays \cup {Infinite} : WaitBlock(hs, all, ms)
        PROVE  UNCHANGED evVars
    BY <2>3 DEF WaitPoll, WaitBlock, kernVars
  <2>4. ASSUME \/ \E b \in BOOLEAN, n \in Names \cup {NoName} : CreateMutex(b, n)
               \/ \E m \in Mutexes : ReleaseMutex(m)
               \/ \E i \in 0 .. SemMax, n \in Names \cup {NoName} :
                    \E x \in 1 .. SemMax : CreateSemaphore(i, x, n)
               \/ \E s \in Sems, rel \in RelCounts : ReleaseSemaphore(s, rel)
               \/ \E n \in Names : OpenMissing(n)
        PROVE  UNCHANGED evVars
    BY <2>4
       DEF CreateMutex, ReleaseMutex, CreateSemaphore, ReleaseSemaphore, OpenMissing,
           kernVars
  <2>. QED
    BY <1>3, <2>1, <2>2, <2>3, <2>4 DEF HandleStep
<1>4. UserLockStep => UNCHANGED evVars
  BY
     DEF UserLockStep, ResumeCs, ResumeSrw, ResumeCv, Relock, Initialize, RegisterFull,
         EnterNow, EnterBlock, LeaveCriticalSection, DeleteCriticalSection,
         SrwAcquireNow, SrwAcquireBlock, ReleaseSRWLock, WakeConditionVariable,
         WakeAllConditionVariable, SleepConditionVariable, CsFrame, SrwFrame,
         WakeFrame, ObjFrame, kernVars
<1>5. ThreadPoolStep => UNCHANGED evVars
  BY
     DEF ThreadPoolStep, PoolLoop, CreateThreadpoolWork, SubmitThreadpoolWork,
         CloseThreadpoolWork, WaitForThreadpoolWorkCallbacks, TpFrame, kernVars
<1>. QED
  BY <1>1, <1>2, <1>3, <1>4, <1>5 DEF Next, Gone, vars, kernVars

\* Every other step leaves the semaphore table and its ghost alone.
LEMMA SemMover ==
    Next => \/ UNCHANGED semVars
            \/ \E hs, all : Satisfy(hs, all)
            \/ \E i \in 0 .. SemMax, n \in Names \cup {NoName} :
                 \E x \in 1 .. SemMax : CreateSemaphore(i, x, n)
            \/ \E s \in Sems, rel \in RelCounts : ReleaseSemaphore(s, rel)
<1>1. SchedStep => UNCHANGED semVars
  BY
     DEF SchedStep, SchedDispatch, SchedAdvance, SchedPoll, SchedGiveUp, SchedFrame,
         vars, kernVars
<1>2. ThreadStep => UNCHANGED semVars
  BY
     DEF ThreadStep, SetLastError, SleepYield, ResumeYield, ResumeSleep, StartFiber,
         ProcessExit, SuspendThread, Sleep, CreateThread, ThreadReturn, ExitThread,
         TerminateThread, ResumeThread, ObjFrame, kernVars
<1>3. ASSUME HandleStep
      PROVE  \/ UNCHANGED semVars
             \/ \E hs, all : Satisfy(hs, all)
             \/ \E i \in 0 .. SemMax, n \in Names \cup {NoName} :
                  \E x \in 1 .. SemMax : CreateSemaphore(i, x, n)
             \/ \E s \in Sems, rel \in RelCounts : ReleaseSemaphore(s, rel)
  <2>1. ASSUME NEW hs \in WaitSets, NEW all, WaitAtOnce(hs, all)
        PROVE  Satisfy(Clipped(hs), all)
    BY <2>1 DEF WaitAtOnce
  <2>2. ASSUME ResumeWait
        PROVE  UNCHANGED semVars \/ Satisfy(wait_h[g_cur], wait_all[g_cur])
    BY <2>2 DEF ResumeWait, kernVars
  <2>3. ASSUME NEW hs \in WaitSets, NEW all,
               WaitPoll(hs, all) \/ \E ms \in Delays \cup {Infinite} : WaitBlock(hs, all, ms)
        PROVE  UNCHANGED semVars
    BY <2>3 DEF WaitPoll, WaitBlock, kernVars
  <2>4. ASSUME \/ \E b \in BOOLEAN, n \in Names \cup {NoName} : CreateMutex(b, n)
               \/ \E m \in Mutexes : ReleaseMutex(m)
               \/ \E a, b \in BOOLEAN, n \in Names \cup {NoName} : CreateEvent(a, b, n)
               \/ \E e \in Events : \/ SetEvent(e) \/ ResetEvent(e) \/ NetReady(e)
                                    \/ \E used \in BOOLEAN : WSAEventSelect(e, used)
               \/ \E n \in Names : OpenMissing(n)
        PROVE  UNCHANGED semVars
    BY <2>4
       DEF CreateMutex, ReleaseMutex, CreateEvent, SetEvent, ResetEvent, NetReady,
           WSAEventSelect, EvFrame, OpenMissing, kernVars
  <2>. QED
    BY <1>3, <2>1, <2>2, <2>3, <2>4 DEF HandleStep
<1>4. UserLockStep => UNCHANGED semVars
  BY
     DEF UserLockStep, ResumeCs, ResumeSrw, ResumeCv, Relock, Initialize, RegisterFull,
         EnterNow, EnterBlock, LeaveCriticalSection, DeleteCriticalSection,
         SrwAcquireNow, SrwAcquireBlock, ReleaseSRWLock, WakeConditionVariable,
         WakeAllConditionVariable, SleepConditionVariable, CsFrame, SrwFrame,
         WakeFrame, ObjFrame, kernVars
<1>5. ThreadPoolStep => UNCHANGED semVars
  BY
     DEF ThreadPoolStep, PoolLoop, CreateThreadpoolWork, SubmitThreadpoolWork,
         CloseThreadpoolWork, WaitForThreadpoolWorkCallbacks, TpFrame, kernVars
<1>. QED
  BY <1>1, <1>2, <1>3, <1>4, <1>5 DEF Next, Gone, vars, kernVars

\* A satisfied wait takes an auto-reset signal with the wait it satisfies, and a
\* unit of every semaphore it counts.
LEMMA SignalsTaken ==
    ASSUME TypeOK, NEW hs, NEW all, Satisfy(hs, all)
    PROVE  (AutoResetOnce => AutoResetOnce') /\ (SemInv => SemInv')
<1>1. PICK i \in DOMAIN hs : /\ IF all THEN i = 1 ELSE FirstSignaled(hs, i)
                             /\ Acquire(hs, all, i)
  BY DEF Satisfy
<1> DEFINE E == {e \in Taken(hs, all, i, IsEvent) : ~ev_manual[e]}
           S == Taken(hs, all, i, IsSem)
<1>2. (\A e \in E : ev_signaled[e]) /\ (\A s \in S : sem_count[s] > 0)
  BY <1>1, TakenSignaled DEF Satisfy
<1>3. /\ ev_manual' = ev_manual /\ sem_max' = sem_max
      /\ \A e \in Events : /\ ev_signaled'[e] = (ev_signaled[e] /\ e \notin E)
                           /\ ev_tok'[e] = ev_tok[e] + (IF e \in E THEN 1 ELSE 0)
      /\ \A s \in Sems : /\ sem_count'[s] = sem_count[s]
                                - (IF s \in S /\ sem_count[s] > 0 THEN 1 ELSE 0)
                         /\ sem_out'[s] = sem_out[s] + (IF s \in S THEN 1 ELSE 0)
  BY <1>1 DEF Acquire, Satisfy
<1> HIDE DEF E, S
<1>4. AutoResetOnce => AutoResetOnce'
  BY <1>2, <1>3 DEF AutoResetOnce, TypeOK, TablesTypeOK, EvTypeOK
<1>5. ASSUME SemInv, NEW s \in Sems
      PROVE  /\ sem_count'[s] + sem_out'[s] = 0
             /\ 0 <= sem_count'[s] /\ sem_count'[s] <= sem_max'[s] /\ sem_max'[s] <= SemMax
  <2>1. sem_count[s] \in Int /\ sem_out[s] \in Int /\ sem_max[s] \in Int
    BY DEF TypeOK, TablesTypeOK, SemTypeOK
  <2>2. /\ sem_count[s] + sem_out[s] = 0 /\ 0 <= sem_count[s]
        /\ sem_count[s] <= sem_max[s] /\ sem_max[s] <= SemMax
    BY <1>5 DEF SemInv, SemConserved, SemBounded
  <2>. QED
    BY <1>2, <1>3, <2>1, <2>2
<1>. QED
  BY <1>4, <1>5 DEF SemInv, SemConserved, SemBounded

\* Creating, setting, resetting and tying an event each keep at most one signal
\* or one satisfied wait.
LEMMA StepAutoReset == IInv /\ AutoResetOnce /\ [Next]_vars => AutoResetOnce'
<1> SUFFICES ASSUME IInv, AutoResetOnce, [Next]_vars PROVE AutoResetOnce'
  OBVIOUS
<1> USE DEF IInv, TypeOK, TablesTypeOK, EvTypeOK
<1>1. CASE UNCHANGED evVars
  BY <1>1 DEF AutoResetOnce, evVars
<1>2. ASSUME NEW hs, NEW all, Satisfy(hs, all) PROVE AutoResetOnce'
  BY <1>2, SignalsTaken
<1>3. ASSUME NEW a \in BOOLEAN, NEW b \in BOOLEAN, NEW n, CreateEvent(a, b, n)
      PROVE  AutoResetOnce'
  <2>1. CASE UNCHANGED evVars
    BY <1>1, <2>1
  <2>2. CASE ~UNCHANGED evVars
    BY <1>3, <2>2, TableAssumption DEF CreateEvent, AutoResetOnce, Events
  <2>. QED
    BY <2>1, <2>2
<1>4. ASSUME NEW e \in Events,
             \/ SetEvent(e) \/ ResetEvent(e) \/ NetReady(e)
             \/ \E used \in BOOLEAN : WSAEventSelect(e, used)
      PROVE  AutoResetOnce'
  BY <1>4
     DEF SetEvent, ResetEvent, NetReady, WSAEventSelect, Signal, EvFrame, AutoResetOnce
<1>. QED
  BY <1>1, <1>2, <1>3, <1>4, EventMover DEF vars, kernVars

\* Without overflow, and with initial counts within their maximum, units are
\* conserved and bounded.
LEMMA StepSemInv ==
    ASSUME Disciplined, CountsFit, IInv, SemInv, [Next]_vars
    PROVE  SemInv'
<1> USE DEF IInv, TypeOK, TablesTypeOK, SemTypeOK, SemInv, SemConserved, SemBounded
<1>1. CASE UNCHANGED semVars
  BY <1>1 DEF semVars
<1>2. ASSUME NEW hs, NEW all, Satisfy(hs, all) PROVE SemInv'
  BY <1>2, SignalsTaken
<1>3. ASSUME NEW i \in 0 .. SemMax, NEW x \in 1 .. SemMax, NEW n, CreateSemaphore(i, x, n)
      PROVE  SemInv'
  <2>1. CASE UNCHANGED semVars
    BY <1>1, <2>1
  <2>2. CASE ~UNCHANGED semVars
    <3>1. g_nsem \in Sems /\ i \in Int /\ x \in Int /\ 0 <= i /\ i <= x /\ x <= SemMax
      BY <1>3, <2>2, TableAssumption, CountAssumption DEF CreateSemaphore, Sems
    <3>2. /\ sem_count' = [sem_count EXCEPT ![g_nsem] = i]
          /\ sem_max' = [sem_max EXCEPT ![g_nsem] = x]
          /\ sem_out' = [sem_out EXCEPT ![g_nsem] = -i]
      BY <1>3, <2>2 DEF CreateSemaphore
    <3>. QED
      BY <3>1, <3>2
  <2>. QED
    BY <2>1, <2>2
<1>4. ASSUME NEW s \in Sems, NEW rel \in RelCounts, ReleaseSemaphore(s, rel)
      PROVE  SemInv'
  <2>1. CASE UNCHANGED semVars
    BY <1>1, <2>1
  <2>2. CASE ~UNCHANGED semVars
    <3>1. rel \in Int /\ rel > 0 /\ SemMax + rel <= IntMax
      BY <1>4, <2>2, CountAssumption DEF ReleaseSemaphore, CountsFit
    <3>2. sem_count[s] + rel \in 0 .. IntMax
      BY <3>1, CountAssumption
    <3>3. Wrap(sem_count[s] + rel) = sem_count[s] + rel
      BY <3>2, CountAssumption DEF Wrap
    <3>4. /\ ~(Wrap(sem_count[s] + rel) > sem_max[s]) /\ sem_max' = sem_max
          /\ sem_count' = [sem_count EXCEPT ![s] = Wrap(sem_count[s] + rel)]
          /\ sem_out' = [sem_out EXCEPT ![s] = sem_out[s] - rel]
      BY <1>4, <2>2 DEF ReleaseSemaphore
    <3>5. sem_count[s] + rel <= sem_max[s]
      BY <3>1, <3>3, <3>4
    <3>. QED
      BY <3>1, <3>3, <3>4, <3>5
  <2>. QED
    BY <2>1, <2>2
<1>. QED
  BY <1>1, <1>2, <1>3, <1>4, SemMover DEF vars, kernVars

\* One signal of an auto-reset event satisfies one wait, and as long as the int
\* of the count does not overflow the units of a semaphore are neither lost nor
\* invented nor more than its maximum (u32_handle_acquire, ReleaseSemaphore).
THEOREM SignalsCounted ==
    ASSUME Disciplined, CountsFit
    PROVE  Spec => []SignalsConserved
<1>1. Init => AutoResetOnce /\ SemInv
  BY CountAssumption
     DEF Init, TablesInit, AutoResetOnce, SemInv, SemConserved, SemBounded
<1>2. IInv /\ AutoResetOnce /\ SemInv /\ [Next]_vars => AutoResetOnce' /\ SemInv'
  BY StepAutoReset, StepSemInv
<1>3. AutoResetOnce /\ SemInv => SignalsConserved
  BY DEF SignalsConserved, SemInv
<1>. QED
  BY <1>1, <1>2, <1>3, Invariance, PTL DEF Spec

-----------------------------------------------------------------------------
(* User-space locks.                                                        *)

LockLabels == {"cs", "srw", "cv", "relock"}

\* f neither enters nor leaves a wait loop of a user-space lock in this step.
SameLoop(f) ==
    /\ wait_cs'[f] = wait_cs[f]
    /\ pc'[f] = pc[f] \/ (pc[f] \notin LockLabels /\ pc'[f] \notin LockLabels)

\* The scheduler, the threads, the handle waits and the pool leave the locks,
\* and whoever waits for one, alone.
LEMMA OutsideLocks ==
    ASSUME IInv, Next, ~UserLockStep
    PROVE  /\ UNCHANGED <<userVars, wait_srw, wait_srw_excl, wait_cv, cv_lock, cv_shared>>
           /\ \A f \in Fibers : SameLoop(f)
<1>0. /\ g_cur \in Fibers /\ pc \in [Fibers -> Labels] /\ FieldsMatch(g_cur)
      /\ wait_cs \in [Fibers -> CSs \cup {NoAddr}]
  BY CurFiber DEF IInv, WaitInv, TypeOK, FibersTypeOK, CtxTypeOK, WaitTypeOK
<1> USE DEF SameLoop, LockLabels
<1>1. CASE SchedStep
  BY <1>1
     DEF SchedStep, SchedDispatch, SchedAdvance, SchedPoll, SchedGiveUp, SchedFrame,
         vars, fiberVars, ctxVars, waitVars, localVars
<1>2. CASE ThreadStep
  <2>1. UNCHANGED <<userVars, wait_srw, wait_srw_excl, wait_cv, cv_lock, cv_shared>>
    BY <1>2
       DEF ThreadStep, SetLastError, SleepYield, ResumeYield, ResumeSleep, StartFiber,
           ProcessExit, SuspendThread, Sleep, CreateThread, ThreadReturn, ExitThread,
           TerminateThread, ResumeThread, ObjFrame, fiberVars, waitVars, localVars
  <2>2. CASE \E ms \in Delays \cup {Infinite} : Sleep(ms)
    BY <1>0, <2>1, <2>2 DEF Sleep, Call, Prog, ToSched, FieldsMatch
  <2>3. CASE ResumeYield \/ ResumeSleep \/ StartFiber
    <3>1. wait_cs' = wait_cs
      BY <2>3 DEF ResumeYield, ResumeSleep, StartFiber, waitVars
    <3>2. pc' \in {pc, [pc EXCEPT ![g_cur] = "prog"], [pc EXCEPT ![g_cur] = "sleep"]}
      BY <2>3 DEF ResumeYield, ResumeSleep, StartFiber, Return, ToSched
    <3>3. pc[g_cur] \notin LockLabels
      BY <2>3 DEF ResumeYield, ResumeSleep, StartFiber, At
    <3>. QED
      BY <1>0, <2>1, <3>1, <3>2, <3>3
  <2>4. CASE SleepYield
    BY <1>0, <2>1, <2>4 DEF SleepYield, Call, Prog, ToSched, waitVars
  <2>5. CASE \/ SetLastError \/ ProcessExit \/ SuspendThread
             \/ \E s \in {"READY", "SUSPENDED"} : CreateThread(s)
             \/ \E code \in ExitCodes :
                 \/ ThreadReturn(code) \/ ExitThread(code)
                 \/ \E f \in Fibers : TerminateThread(f, code)
             \/ \E f \in Fibers : ResumeThread(f)
    <3>1. UNCHANGED <<pc, wait_cs>>
      BY <2>5
         DEF SetLastError, ProcessExit, SuspendThread, Abort, CreateThread,
             ThreadReturn, ExitThread, TerminateThread, ResumeThread, fiberVars,
             ctxVars, waitVars
    <3>. QED
      BY <2>1, <3>1
  <2>. QED
    BY <1>2, <2>2, <2>3, <2>4, <2>5 DEF ThreadStep
<1>3. CASE HandleStep
  <2>1. ASSUME NEW hs \in WaitSets, NEW all,
               \/ WaitAtOnce(hs, all) \/ WaitPoll(hs, all)
               \/ \E ms \in Delays \cup {Infinite} : WaitBlock(hs, all, ms)
        PROVE  /\ UNCHANGED <<userVars, wait_srw, wait_srw_excl, wait_cv, cv_lock, cv_shared>>
               /\ \A f \in Fibers : SameLoop(f)
    BY <1>0, <2>1
       DEF WaitAtOnce, WaitPoll, WaitBlock, WaitFrame, Call, Prog, ToSched, ctxVars,
           localVars
  <2>2. CASE ResumeWait
    BY <1>0, <2>2 DEF ResumeWait, WaitFrame, At, Return, ToSched, localVars
  <2>3. CASE \/ \E a, b \in BOOLEAN, n \in Names \cup {NoName} : CreateEvent(a, b, n)
             \/ \E e \in Events : \/ SetEvent(e) \/ ResetEvent(e) \/ NetReady(e)
                                  \/ \E used \in BOOLEAN : WSAEventSelect(e, used)
             \/ \E b \in BOOLEAN, n \in Names \cup {NoName} : CreateMutex(b, n)
             \/ \E m \in Mutexes : ReleaseMutex(m)
             \/ \E i \in 0 .. SemMax, n \in Names \cup {NoName} :
                 \E x \in 1 .. SemMax : CreateSemaphore(i, x, n)
             \/ \E s \in Sems, rel \in RelCounts : ReleaseSemaphore(s, rel)
             \/ \E n \in Names : OpenMissing(n)
    <3>1. UNCHANGED <<fiberVars, userVars>>
      BY <2>3
         DEF CreateEvent, SetEvent, ResetEvent, NetReady, WSAEventSelect, EvFrame,
             CreateMutex, ReleaseMutex, CreateSemaphore, ReleaseSemaphore, OpenMissing
    <3>. QED
      BY <3>1 DEF fiberVars, ctxVars, waitVars, localVars
  <2>. QED
    BY <1>3, <2>1, <2>2, <2>3 DEF HandleStep
<1>4. CASE ThreadPoolStep
  <2>1. UNCHANGED <<userVars, waitVars, cv_lock, cv_shared>>
    BY <1>4
       DEF ThreadPoolStep, PoolLoop, CreateThreadpoolWork, SubmitThreadpoolWork,
           CloseThreadpoolWork, WaitForThreadpoolWorkCallbacks, TpFrame, fiberVars,
           localVars
  <2>2. \/ pc' = pc
        \/ /\ pc[g_cur] \notin LockLabels
           /\ pc' \in {[pc EXCEPT ![g_cur] = "prog"], [pc EXCEPT ![g_cur] = "pool"]}
    BY <1>4
       DEF ThreadPoolStep, PoolLoop, CreateThreadpoolWork, SubmitThreadpoolWork,
           CloseThreadpoolWork, WaitForThreadpoolWorkCallbacks, TpFrame, fiberVars,
           ctxVars, Call, Prog, At, Return, ToSched
  <2>. QED
    BY <1>0, <2>1, <2>2 DEF waitVars
<1>5. CASE Gone
  BY <1>5 DEF Gone, vars, fiberVars, ctxVars, waitVars, localVars
<1>. QED
  BY <1>1, <1>2, <1>3, <1>4, <1>5 DEF Next

\* What fiber f believes of section c and what the entry says: f owns it exactly
\* while it is inside, as deep as it went, and a sleep gives it up altogether.
CsMatch(f, c) ==
    /\ cv_lock[f] # c => /\ cs_owner[c] = f + 1 <=> held_cs[f][c] > 0
                         /\ held_cs[f][c] > 0 => cs_rec[c] = held_cs[f][c]
    /\ cv_lock[f] = c => held_cs[f][c] = 1 /\ cs_owner[c] # f + 1

\* An owned section has an entry, nobody is deeper in one than MaxRec, and a
\* fiber that waits to enter is not inside and waits for an entry that exists.
CsInv ==
    /\ CsOwnedIffDeep
    /\ \A c \in CSs : cs_owner[c] # 0 => c \in reg
    /\ \A f \in Fibers, c \in CSs : held_cs[f][c] <= MaxRec
    /\ \A f \in Fibers, c \in CSs : fst[f] # "DONE" => CsMatch(f, c)
    /\ \A f \in Fibers : fst[f] # "DONE" /\ pc[f] = "cs" =>
        wait_cs[f] \in reg /\ held_cs[f][wait_cs[f]] = 0

\* A program that may sleep on a condition variable enters no section twice: the
\* sleep gives back every level and takes only one again.
SleepsUnnested == MaxRec = 1 \/ "ConditionVariable" \notin Api

\* Whatever the program does, owner and depth are set and cleared together.
LEMMA StepOwnedIffDeep == IInv /\ CsOwnedIffDeep /\ [Next]_vars => CsOwnedIffDeep'
<1> SUFFICES ASSUME IInv, CsOwnedIffDeep, [Next]_vars PROVE CsOwnedIffDeep'
  OBVIOUS
<1>0. g_cur \in Nat /\ cs_owner \in [CSs -> 0 .. MaxFiber] /\ cs_rec \in [CSs -> Nat]
  BY CurFiber DEF IInv, TypeOK, TablesTypeOK, CsTypeOK, Fibers
<1>1. CASE UNCHANGED <<cs_owner, cs_rec>>
  BY <1>1 DEF CsOwnedIffDeep
<1>2. ASSUME NEW c \in CSs, CsTake(c, g_cur)
      PROVE  CsOwnedIffDeep'
  BY <1>0, <1>2 DEF CsTake, CsOwnedIffDeep
<1>3. ASSUME NEW c \in CSs, LeaveCriticalSection(c)
      PROVE  CsOwnedIffDeep'
  BY <1>0, <1>1, <1>3 DEF LeaveCriticalSection, CsOwnedIffDeep
<1>4. ASSUME NEW c \in CSs, cs_owner' = [cs_owner EXCEPT ![c] = 0],
             cs_rec' = [cs_rec EXCEPT ![c] = 0]
      PROVE  CsOwnedIffDeep'
  BY <1>0, <1>4 DEF CsOwnedIffDeep
<1>5. CASE UserLockStep
  <2>1. CASE ResumeCs
    BY <1>1, <1>2, <2>1, WaitAddr DEF ResumeCs, csVars, IInv
  <2>2. CASE Relock
    BY <1>1, <1>2, <2>2 DEF Relock
  <2>3. CASE \E c \in CSs : EnterNow(c) \/ EnterBlock(c) \/ DeleteCriticalSection(c)
    BY <1>1, <1>2, <1>4, <2>3 DEF EnterNow, EnterBlock, DeleteCriticalSection, csVars
  <2>4. ASSUME NEW v \in CVs, NEW l \in Locks, NEW shared, NEW ms,
               SleepConditionVariable(v, l, shared, ms)
        PROVE  CsOwnedIffDeep'
    BY <1>1, <1>4, <2>4 DEF SleepConditionVariable
  <2>5. CASE \/ ResumeSrw \/ ResumeCv
             \/ \E a \in CSs \cup SRWs \cup CVs : Initialize(a) \/ RegisterFull(a)
             \/ \E l \in SRWs, excl \in BOOLEAN :
                 SrwAcquireNow(l, excl) \/ SrwAcquireBlock(l, excl) \/ ReleaseSRWLock(l, excl)
             \/ \E v \in CVs : WakeConditionVariable(v) \/ WakeAllConditionVariable(v)
    BY <1>1, <2>5
       DEF ResumeSrw, ResumeCv, Initialize, RegisterFull, SrwAcquireNow,
           SrwAcquireBlock, ReleaseSRWLock, WakeConditionVariable,
           WakeAllConditionVariable, SrwFrame, WakeFrame, ObjFrame, userVars, csVars
  <2>. QED
    BY <1>3, <1>5, <2>1, <2>2, <2>3, <2>4, <2>5 DEF UserLockStep
<1>6. CASE Next /\ ~UserLockStep
  BY <1>1, <1>6, OutsideLocks DEF userVars, csVars
<1>7. CASE UNCHANGED vars
  BY <1>1, <1>7 DEF vars, userVars, csVars
<1>. QED
  BY <1>5, <1>6, <1>7

\* For every program, disciplined or not, a section is owned exactly while its
\* depth is positive: LeaveCriticalSection can always free it, and never early.
THEOREM OwnedIffDeep == Spec => []CsOwnedIffDeep
<1>1. Init => CsOwnedIffDeep
  BY DEF Init, TablesInit, CsOwnedIffDeep
<1>. QED
  BY <1>1, StepOwnedIffDeep, Invariance, PTL DEF Spec

\* A step that touches no section and starts no wait for one keeps CsInv.
LEMMA CsStay ==
    ASSUME CsInv, DoneKept, UNCHANGED <<csVars, cv_lock>>, reg \cap CSs \subseteq reg',
           \A f \in Fibers : pc'[f] = "cs" => /\ pc[f] = "cs" /\ wait_cs'[f] = wait_cs[f]
                                              /\ wait_cs[f] \in CSs
    PROVE  CsInv'
  BY DEF CsInv, CsMatch, CsOwnedIffDeep, DoneKept, csVars

\* Entering a section that is free for the caller: at once, when it is woken, or
\* at the end of a sleep.
LEMMA CsTaken ==
    ASSUME IInv, CsInv, DoneKept, CsOwnedIffDeep', NEW c \in CSs,
           fst[g_cur] # "DONE", CsFreeFor(c, g_cur), CsTake(c, g_cur),
           c \in reg', reg \cap CSs \subseteq reg', pc'[g_cur] # "cs",
           \A f \in Fibers : f # g_cur => pc'[f] = pc[f] /\ wait_cs'[f] = wait_cs[f],
           \/ /\ cv_lock' = cv_lock /\ cv_lock[g_cur] # c /\ held_cs[g_cur][c] < MaxRec
              /\ held_cs' = [held_cs EXCEPT ![g_cur][c] = @ + 1]
           \/ /\ cv_lock[g_cur] = c /\ cv_lock' = [cv_lock EXCEPT ![g_cur] = NoAddr]
              /\ held_cs' = held_cs
    PROVE  CsInv'
<1>0. /\ g_cur \in Fibers /\ g_cur \in Nat /\ MaxRec \in Nat /\ Fibers \subseteq Nat
      /\ cs_owner \in [CSs -> 0 .. MaxFiber] /\ cs_rec \in [CSs -> Nat]
      /\ held_cs \in [Fibers -> [CSs -> Nat]] /\ cv_lock \in [Fibers -> Locks \cup {NoAddr}]
      /\ NoAddr \notin CSs
  BY CurFiber, ClientAssumption, AddressAssumption
     DEF IInv, TypeOK, FibersTypeOK, LocalTypeOK, TablesTypeOK, CsTypeOK, Fibers
<1>1. /\ cs_owner' = [cs_owner EXCEPT ![c] = g_cur + 1]
      /\ cs_rec' = [cs_rec EXCEPT ![c] = cs_rec[c] + 1]
  BY DEF CsTake
<1>2. \A d \in CSs : cs_owner'[d] # 0 => d \in reg'
  BY <1>0, <1>1 DEF CsInv
<1>3. \A f \in Fibers, d \in CSs :
        held_cs'[f][d] = IF f = g_cur /\ d = c /\ cv_lock[g_cur] # c
                         THEN held_cs[f][d] + 1 ELSE held_cs[f][d]
  BY <1>0
<1>4. \A f \in Fibers, d \in CSs : held_cs'[f][d] <= MaxRec
  BY <1>0, <1>3 DEF CsInv
<1>5. CsMatch(g_cur, c) /\ (cs_owner[c] = 0 <=> cs_rec[c] = 0)
  BY <1>0 DEF CsInv, CsOwnedIffDeep
<1>6. ASSUME NEW f \in Fibers, NEW d \in CSs, fst'[f] # "DONE"
      PROVE  CsMatch(f, d)'
  <2>1. CsMatch(f, d)
    BY <1>6 DEF CsInv, DoneKept
  <2>2. CASE f = g_cur /\ d = c
    <3>1. cv_lock'[f] # c
      BY <1>0, <2>2
    <3>2. cs_owner'[c] = f + 1 /\ cs_rec'[c] = cs_rec[c] + 1
      BY <1>0, <1>1, <2>2
    <3>3. held_cs'[f][c] > 0 /\ cs_rec'[c] = held_cs'[f][c]
      BY <1>0, <1>3, <1>5, <2>2, <3>2 DEF CsMatch, CsFreeFor
    <3>. QED
      BY <2>2, <3>1, <3>2, <3>3 DEF CsMatch
  <2>3. CASE f = g_cur /\ d # c
    BY <1>0, <1>1, <1>3, <2>1, <2>3 DEF CsMatch
  <2>4. CASE f # g_cur
    <3>1. cv_lock'[f] = cv_lock[f] /\ held_cs'[f][d] = held_cs[f][d]
      BY <1>0, <1>3, <2>4
    <3>2. cs_owner[c] # f + 1 /\ cs_owner'[c] # f + 1
      BY <1>0, <1>1, <2>4 DEF CsFreeFor
    <3>. QED
      BY <1>0, <1>1, <2>1, <3>1, <3>2 DEF CsMatch
  <2>. QED
    BY <2>2, <2>3, <2>4
<1>7. ASSUME NEW f \in Fibers, fst'[f] # "DONE", pc'[f] = "cs"
      PROVE  wait_cs'[f] \in reg' /\ held_cs'[f][wait_cs'[f]] = 0
  <2>1. f # g_cur /\ pc[f] = "cs" /\ wait_cs'[f] = wait_cs[f] /\ fst[f] # "DONE"
    BY <1>7 DEF DoneKept
  <2>2. wait_cs[f] \in reg /\ held_cs[f][wait_cs[f]] = 0
    BY <2>1 DEF CsInv
  <2>3. wait_cs[f] \in CSs
    BY <2>1 DEF IInv, WaitInv, FieldsMatch, TypeOK, FibersTypeOK, WaitTypeOK
  <2>. QED
    BY <1>3, <2>1, <2>2, <2>3
<1>. QED
  BY <1>2, <1>4, <1>6, <1>7 DEF CsInv

\* Leaving one level of a section the caller is inside.
LEMMA CsLeft ==
    ASSUME Disciplined, IInv, CsInv, DoneKept, CsOwnedIffDeep', fst[g_cur] # "DONE",
           NEW c \in CSs, LeaveCriticalSection(c)
    PROVE  CsInv'
<1>0. /\ g_cur \in Fibers /\ g_cur \in Nat /\ MaxRec \in Nat /\ Fibers \subseteq Nat
      /\ cs_owner \in [CSs -> 0 .. MaxFiber] /\ cs_rec \in [CSs -> Nat]
      /\ held_cs \in [Fibers -> [CSs -> Nat]] /\ NoAddr \notin CSs
  BY CurFiber, ClientAssumption, AddressAssumption
     DEF IInv, TypeOK, TablesTypeOK, CsTypeOK, Fibers
<1>1. /\ pc[g_cur] = "prog" /\ held_cs[g_cur][c] > 0
      /\ UNCHANGED <<reg, pc, fst, wait_cs, cv_lock>>
  BY DEF LeaveCriticalSection, Call, Prog, CsFrame, ctxVars, localVars
<1>2. cv_lock[g_cur] = NoAddr
  BY <1>0, <1>1 DEF IInv, WaitInv, FieldsMatch
<1>3. CsMatch(g_cur, c)
  BY <1>0 DEF CsInv
<1>4. /\ cs_owner[c] = g_cur + 1 /\ cs_rec[c] = held_cs[g_cur][c] /\ c \in reg
  BY <1>0, <1>1, <1>2, <1>3 DEF CsMatch, CsInv
<1>5. /\ cs_rec' = [cs_rec EXCEPT ![c] = cs_rec[c] - 1]
      /\ cs_owner' = [cs_owner EXCEPT ![c] = IF cs_rec[c] = 1 THEN 0 ELSE cs_owner[c]]
      /\ held_cs' = [held_cs EXCEPT ![g_cur][c] = held_cs[g_cur][c] - 1]
  BY <1>1, <1>4 DEF LeaveCriticalSection
<1>6. \A f \in Fibers, d \in CSs :
        held_cs'[f][d] = IF f = g_cur /\ d = c THEN held_cs[f][d] - 1 ELSE held_cs[f][d]
  BY <1>0, <1>5
<1>7. \A d \in CSs : cs_owner'[d] # 0 => d \in reg'
  BY <1>0, <1>1, <1>4, <1>5 DEF CsInv
<1>8. \A f \in Fibers, d \in CSs : held_cs'[f][d] <= MaxRec
  BY <1>0, <1>6 DEF CsInv
<1>9. ASSUME NEW f \in Fibers, NEW d \in CSs, fst'[f] # "DONE"
      PROVE  CsMatch(f, d)'
  <2>1. CsMatch(f, d)
    BY <1>1, <1>9 DEF CsInv
  <2>2. CASE d # c
    BY <1>0, <1>1, <1>5, <1>6, <2>1, <2>2 DEF CsMatch
  <2>3. CASE f = g_cur /\ d = c
    BY <1>0, <1>1, <1>2, <1>4, <1>5, <1>6, <2>3 DEF CsMatch
  <2>4. CASE f # g_cur /\ d = c
    BY <1>0, <1>1, <1>4, <1>5, <1>6, <2>1, <2>4 DEF CsMatch
  <2>. QED
    BY <2>2, <2>3, <2>4
<1>10. ASSUME NEW f \in Fibers, fst'[f] # "DONE", pc'[f] = "cs"
       PROVE  wait_cs'[f] \in reg' /\ held_cs'[f][wait_cs'[f]] = 0
  <2>1. f # g_cur /\ wait_cs[f] \in CSs
    BY <1>1, <1>10 DEF IInv, WaitInv, FieldsMatch, TypeOK, FibersTypeOK, WaitTypeOK
  <2>. QED
    BY <1>1, <1>6, <1>10, <2>1 DEF CsInv
<1>. QED
  BY <1>7, <1>8, <1>9, <1>10 DEF CsInv

\* A fiber that has to wait for a section is not inside it.
LEMMA CsWaits ==
    ASSUME IInv, CsInv, DoneKept, fst[g_cur] # "DONE", NEW c \in CSs, EnterBlock(c)
    PROVE  CsInv'
<1>0. /\ g_cur \in Fibers /\ NoAddr \notin CSs
      /\ pc \in [Fibers -> Labels] /\ wait_cs \in [Fibers -> CSs \cup {NoAddr}]
      /\ held_cs \in [Fibers -> [CSs -> Nat]]
  BY CurFiber, AddressAssumption
     DEF IInv, TypeOK, FibersTypeOK, CtxTypeOK, WaitTypeOK, TablesTypeOK, CsTypeOK
<1>1. /\ pc[g_cur] = "prog" /\ reg' = reg \cup {c} /\ ~CsFreeFor(c, g_cur)
      /\ wait_cs' = [wait_cs EXCEPT ![g_cur] = c]
      /\ pc' = [pc EXCEPT ![g_cur] = "cs"] /\ UNCHANGED <<csVars, cv_lock>>
  BY DEF EnterBlock, Call, Prog, Ensure, ToSched, CsFrame, localVars
<1>2. cv_lock[g_cur] = NoAddr /\ CsMatch(g_cur, c)
  BY <1>0, <1>1 DEF IInv, WaitInv, FieldsMatch, CsInv
<1>3. held_cs[g_cur][c] = 0
  BY <1>0, <1>1, <1>2 DEF CsMatch, CsFreeFor
<1>4. /\ CsOwnedIffDeep' /\ \A d \in CSs : cs_owner'[d] # 0 => d \in reg'
      /\ \A f \in Fibers, d \in CSs : held_cs'[f][d] <= MaxRec
  BY <1>1 DEF CsInv, CsOwnedIffDeep, csVars
<1>5. ASSUME NEW f \in Fibers, NEW d \in CSs, fst'[f] # "DONE"
      PROVE  CsMatch(f, d)'
  BY <1>1, <1>5 DEF CsInv, CsMatch, DoneKept, csVars
<1>6. ASSUME NEW f \in Fibers, fst'[f] # "DONE", pc'[f] = "cs"
      PROVE  wait_cs'[f] \in reg' /\ held_cs'[f][wait_cs'[f]] = 0
  <2>1. CASE f = g_cur
    BY <1>0, <1>1, <1>3, <2>1 DEF csVars
  <2>2. CASE f # g_cur
    BY <1>0, <1>1, <1>6, <2>2 DEF CsInv, DoneKept, csVars
  <2>. QED
    BY <2>1, <2>2
<1>. QED
  BY <1>4, <1>5, <1>6 DEF CsInv

\* Deleting a section nobody owns or waits for.
LEMMA CsDeleted ==
    ASSUME Disciplined, IInv, CsInv, DoneKept, NEW c \in CSs, DeleteCriticalSection(c)
    PROVE  CsInv'
<1>1. /\ CsUnused(c) /\ reg' = reg \ {c} /\ UNCHANGED <<held_cs, pc, fst, wait_cs, cv_lock>>
      /\ cs_owner' = [cs_owner EXCEPT ![c] = 0] /\ cs_rec' = [cs_rec EXCEPT ![c] = 0]
  BY DEF DeleteCriticalSection, CsFrame, ctxVars, localVars
<1>2. cs_owner[c] = 0 /\ cs_rec[c] = 0
  BY <1>1 DEF CsUnused, CsInv, CsOwnedIffDeep
<1>3. cs_owner' = cs_owner /\ cs_rec' = cs_rec
  BY <1>1, <1>2 DEF IInv, TypeOK, TablesTypeOK, CsTypeOK
<1>4. ASSUME NEW f \in Fibers, fst[f] # "DONE", pc[f] = "cs"
      PROVE  wait_cs[f] # c
  BY <1>1, <1>4 DEF CsUnused, IInv, RunInv
<1>. QED
  BY <1>1, <1>2, <1>3, <1>4 DEF CsInv, CsMatch, CsOwnedIffDeep

\* SleepConditionVariableCS gives back the one level the caller holds; a sleep on
\* an SRW lock leaves the sections alone.
LEMMA CsSlept ==
    ASSUME SleepsUnnested, IInv, CsInv, DoneKept, CsOwnedIffDeep', fst[g_cur] # "DONE",
           NEW v \in CVs, NEW l \in Locks, NEW shared, NEW ms,
           SleepConditionVariable(v, l, shared, ms)
    PROVE  CsInv'
<1>0. /\ g_cur \in Fibers /\ g_cur \in Nat /\ Fibers \subseteq Nat
      /\ pc \in [Fibers -> Labels] /\ cv_lock \in [Fibers -> Locks \cup {NoAddr}]
      /\ cs_owner \in [CSs -> 0 .. MaxFiber] /\ cs_rec \in [CSs -> Nat]
      /\ held_cs \in [Fibers -> [CSs -> Nat]] /\ NoAddr \notin CSs
  BY CurFiber, AddressAssumption
     DEF IInv, TypeOK, FibersTypeOK, CtxTypeOK, LocalTypeOK, TablesTypeOK, CsTypeOK, Fibers
<1>1. /\ pc[g_cur] = "prog" /\ reg' = reg \cup {v} /\ MaxRec = 1
      /\ cv_lock' = [cv_lock EXCEPT ![g_cur] = l] /\ UNCHANGED <<held_cs, wait_cs>>
      /\ pc'[g_cur] # "cs" /\ \A f \in Fibers : f # g_cur => pc'[f] = pc[f]
  BY <1>0
     DEF SleepConditionVariable, Call, Prog, Ensure, SleepsUnnested, ToSched
<1>2. cv_lock[g_cur] = NoAddr
  BY <1>0, <1>1 DEF IInv, WaitInv, FieldsMatch
<1>3. ASSUME NEW f \in Fibers, fst'[f] # "DONE", pc'[f] = "cs"
      PROVE  wait_cs'[f] \in reg' /\ held_cs'[f][wait_cs'[f]] = 0
  BY <1>1, <1>3 DEF CsInv, DoneKept
<1>4. CASE l \in CSs
  <2>1. /\ held_cs[g_cur][l] > 0
        /\ cs_owner' = [cs_owner EXCEPT ![l] = 0] /\ cs_rec' = [cs_rec EXCEPT ![l] = 0]
    BY <1>4 DEF SleepConditionVariable, MaySleepOn
  <2>2. CsMatch(g_cur, l) /\ held_cs[g_cur][l] <= 1
    BY <1>0, <1>1, <1>4 DEF CsInv
  <2>3. cs_owner[l] = g_cur + 1 /\ held_cs[g_cur][l] = 1
    BY <1>0, <1>2, <1>4, <2>1, <2>2 DEF CsMatch
  <2>4. ASSUME NEW f \in Fibers, NEW d \in CSs, fst'[f] # "DONE"
        PROVE  CsMatch(f, d)'
    <3>1. CsMatch(f, d)
      BY <2>4 DEF CsInv, DoneKept
    <3>2. CASE f = g_cur /\ d = l
      BY <1>0, <1>1, <2>1, <2>3, <3>2 DEF CsMatch
    <3>3. CASE f = g_cur /\ d # l
      BY <1>0, <1>1, <1>2, <2>1, <3>1, <3>3 DEF CsMatch
    <3>4. CASE f # g_cur
      BY <1>0, <1>1, <2>1, <2>3, <3>1, <3>4 DEF CsMatch
    <3>. QED
      BY <3>2, <3>3, <3>4
  <2>. QED
    BY <1>0, <1>1, <1>3, <2>1, <2>4 DEF CsInv
<1>5. CASE l \notin CSs
  <2>1. UNCHANGED <<cs_owner, cs_rec>>
    BY <1>5 DEF SleepConditionVariable
  <2>2. ASSUME NEW f \in Fibers, NEW d \in CSs, fst'[f] # "DONE"
        PROVE  CsMatch(f, d)'
    <3>1. CsMatch(f, d)
      BY <2>2 DEF CsInv, DoneKept
    <3>. QED
      BY <1>0, <1>1, <1>2, <1>5, <2>1, <3>1 DEF CsMatch
  <2>. QED
    BY <1>1, <1>3, <2>1, <2>2 DEF CsInv
<1>. QED
  BY <1>4, <1>5

\* Every step of a disciplined program keeps CsInv.
LEMMA StepCsInv ==
    ASSUME Disciplined, SleepsUnnested, IInv, CsInv, [Next]_vars
    PROVE  CsInv'
<1>0. /\ DoneKept /\ CsOwnedIffDeep' /\ g_cur \in Fibers
      /\ pc \in [Fibers -> Labels] /\ wait_cs \in [Fibers -> CSs \cup {NoAddr}]
      /\ ctl = "run" => fst[g_cur] # "DONE"
  BY StepDoneKept, StepOwnedIffDeep, CurFiber
     DEF CsInv, IInv, TypeOK, FibersTypeOK, CtxTypeOK, WaitTypeOK, RunInv, OneRunning
<1>1. ASSUME NEW f \in Fibers, pc[f] = "cs"
      PROVE  wait_cs[f] \in CSs
  BY <1>0, <1>1 DEF IInv, WaitInv, FieldsMatch
<1>2. CASE UNCHANGED vars
  BY <1>0, <1>1, <1>2, CsStay DEF vars, fiberVars, ctxVars, waitVars, localVars, userVars
<1>3. CASE Next /\ ~UserLockStep
  BY <1>0, <1>1, <1>3, CsStay, OutsideLocks DEF SameLoop, LockLabels, userVars
<1>4. CASE ResumeCs
  <2> DEFINE c == wait_cs[g_cur]
  <2>1. /\ ctl = "run" /\ pc[g_cur] = "cs" /\ c \in CSs /\ reg' = reg /\ cv_lock' = cv_lock
    BY <1>0, <1>1, <1>4 DEF ResumeCs, At, CsFrame, localVars
  <2>2. c \in reg /\ held_cs[g_cur][c] = 0 /\ cv_lock[g_cur] = NoAddr
    BY <1>0, <2>1 DEF CsInv, IInv, WaitInv, FieldsMatch
  <2>3. CASE CsFreeFor(c, g_cur)
    <3>1. /\ CsTake(c, g_cur) /\ pc' = [pc EXCEPT ![g_cur] = "prog"]
          /\ wait_cs' = [wait_cs EXCEPT ![g_cur] = NoAddr]
          /\ held_cs' = [held_cs EXCEPT ![g_cur][c] = @ + 1]
      BY <1>4, <2>2, <2>3 DEF ResumeCs, Return
    <3>2. cv_lock[g_cur] # c /\ held_cs[g_cur][c] < MaxRec
      BY <2>1, <2>2, AddressAssumption, ClientAssumption
    <3>. QED
      BY <1>0, <2>1, <2>2, <2>3, <3>1, <3>2, CsTaken
  <2>4. CASE ~CsFreeFor(c, g_cur)
    <3>1. /\ UNCHANGED <<wait_cs, csVars>> /\ pc' = [pc EXCEPT ![g_cur] = "cs"]
      BY <1>4, <2>2, <2>4 DEF ResumeCs, ToSched
    <3>. QED
      BY <1>0, <1>1, <2>1, <3>1, CsStay
  <2>. QED
    BY <2>3, <2>4
<1>5. CASE Relock
  <2> DEFINE c == cv_lock[g_cur]
  <2>1. ctl = "run" /\ pc[g_cur] = "relock"
    BY <1>5 DEF Relock, At
  <2>2. CASE c \in CSs /\ CsFreeFor(c, g_cur)
    <3>1. /\ CsTake(c, g_cur) /\ reg' = reg \cup {c} /\ pc' = [pc EXCEPT ![g_cur] = "prog"]
          /\ wait_cs' = [wait_cs EXCEPT ![g_cur] = NoAddr]
          /\ cv_lock' = [cv_lock EXCEPT ![g_cur] = NoAddr] /\ held_cs' = held_cs
      BY <1>5, <2>2, AddressAssumption DEF Relock, Return
    <3>. QED
      BY <1>0, <2>1, <2>2, <3>1, CsTaken
  <2>3. CASE c \in CSs /\ ~CsFreeFor(c, g_cur)
    <3>1. /\ UNCHANGED <<reg, csVars, cv_lock>> /\ pc' = [pc EXCEPT ![g_cur] = "relock"]
          /\ wait_cs' = [wait_cs EXCEPT ![g_cur] = c]
      BY <1>5, <2>3, AddressAssumption DEF Relock, ToSched, csVars
    <3>. QED
      BY <1>0, <1>1, <2>1, <3>1, CsStay
  <2>4. CASE c \notin CSs
    <3>1. /\ UNCHANGED <<csVars, wait_cs>> /\ reg \subseteq reg'
          /\ pc' \in {[pc EXCEPT ![g_cur] = "prog"], [pc EXCEPT ![g_cur] = "relock"]}
          /\ cv_lock' \in {cv_lock, [cv_lock EXCEPT ![g_cur] = NoAddr]}
      BY <1>5, <2>4 DEF Relock, Return, ToSched, SrwTake, csVars
    <3>2. CASE cv_lock' = cv_lock
      BY <1>0, <1>1, <2>1, <3>1, <3>2, CsStay
    <3>3. CASE cv_lock' = [cv_lock EXCEPT ![g_cur] = NoAddr]
      <4>1. \A f \in Fibers, d \in CSs : cv_lock'[f] = d <=> cv_lock[f] = d
        BY <1>0, <2>4, <3>3, AddressAssumption
           DEF IInv, TypeOK, FibersTypeOK, LocalTypeOK
      <4>. QED
        BY <1>0, <2>1, <3>1, <4>1 DEF CsInv, CsMatch, CsOwnedIffDeep, DoneKept, csVars
    <3>. QED
      BY <3>1, <3>2, <3>3
  <2>. QED
    BY <2>2, <2>3, <2>4
<1>6. ASSUME NEW c \in CSs, EnterNow(c)
      PROVE  CsInv'
  <2>1. /\ ctl = "run" /\ pc[g_cur] = "prog" /\ CsFreeFor(c, g_cur) /\ CsTake(c, g_cur)
        /\ reg' = reg \cup {c} /\ UNCHANGED <<pc, wait_cs, cv_lock>>
        /\ held_cs[g_cur][c] < MaxRec
        /\ held_cs' = [held_cs EXCEPT ![g_cur][c] = @ + 1]
    BY <1>6 DEF EnterNow, Call, Prog, Ensure, CsFrame, ctxVars, localVars
  <2>2. cv_lock[g_cur] # c
    BY <1>0, <2>1, AddressAssumption DEF IInv, WaitInv, FieldsMatch
  <2>. QED
    BY <1>0, <2>1, <2>2, CsTaken
<1>7. ASSUME NEW c \in CSs,
             EnterBlock(c) \/ LeaveCriticalSection(c) \/ DeleteCriticalSection(c)
      PROVE  CsInv'
  <2>1. ctl = "run"
    BY <1>7 DEF EnterBlock, LeaveCriticalSection, DeleteCriticalSection, Call, Prog
  <2>. QED
    BY <1>0, <1>7, <2>1, CsWaits, CsLeft, CsDeleted
<1>8. ASSUME NEW v \in CVs, NEW l \in Locks, NEW shared, NEW ms,
             SleepConditionVariable(v, l, shared, ms)
      PROVE  CsInv'
  BY <1>0, <1>8, CsSlept DEF SleepConditionVariable, Call, Prog
<1>9. CASE \/ ResumeSrw \/ ResumeCv
           \/ \E a \in CSs \cup SRWs \cup CVs : Initialize(a) \/ RegisterFull(a)
           \/ \E l \in SRWs, excl \in BOOLEAN :
               SrwAcquireNow(l, excl) \/ SrwAcquireBlock(l, excl) \/ ReleaseSRWLock(l, excl)
           \/ \E v \in CVs : WakeConditionVariable(v) \/ WakeAllConditionVariable(v)
  <2>1. UNCHANGED <<csVars, cv_lock, wait_cs>>
    BY <1>9
       DEF ResumeSrw, ResumeCv, Initialize, RegisterFull, SrwAcquireNow,
           SrwAcquireBlock, ReleaseSRWLock, WakeConditionVariable,
           WakeAllConditionVariable, SrwFrame, WakeFrame, ObjFrame, userVars,
           fiberVars, waitVars, localVars
  <2>2. reg \subseteq reg'
    BY <1>9
       DEF ResumeSrw, ResumeCv, Initialize, RegisterFull, SrwAcquireNow, SrwTake,
           SrwAcquireBlock, ReleaseSRWLock, WakeConditionVariable,
           WakeAllConditionVariable, WakeFrame, ObjFrame, userVars, Ensure
  <2>3. \/ pc' = pc
        \/ \E lab \in {"prog", "srw", "cv", "relock"} : pc' = [pc EXCEPT ![g_cur] = lab]
    BY <1>9
       DEF ResumeSrw, ResumeCv, CvLeave, Return, ToSched, Initialize, RegisterFull, Abort,
           SrwAcquireNow, SrwAcquireBlock, ReleaseSRWLock, WakeConditionVariable,
           WakeAllConditionVariable, WakeFrame, fiberVars, ctxVars
  <2>4. \A f \in Fibers : pc'[f] = "cs" => pc[f] = "cs"
    BY <1>0, <2>3
  <2>. QED
    BY <1>0, <1>1, <2>1, <2>2, <2>4, CsStay
<1>. QED
  BY <1>2, <1>3, <1>4, <1>5, <1>6, <1>7, <1>8, <1>9 DEF UserLockStep

\* The fields of a critical section entry: who is inside owns it.
LEMMA CsInvExcludes == CsInv => CsExclusion
  BY DEF CsInv, CsMatch, CsExclusion, InSection

-----------------------------------------------------------------------------
(* Slim reader/writer locks.                                                *)

\* The acquisitions of l in shared mode that are not released yet.
SharedHolds(l) == {p \in Fibers \X (1 .. MaxRec) : p[2] <= held_sh[p[1]][l]}

\* Fiber f holds l in no mode.
SrwFree(f, l) == ~held_ex[f][l] /\ held_sh[f][l] = 0

\* Writer and reader counts are those of the holders, a written lock has no
\* reader, nobody holds a lock twice, and a fiber that waits for a lock, or sleeps
\* after giving it up, does not hold it.
SrwInv ==
    /\ SrwCounted
    /\ \A l \in SRWs : srw_writer[l] # 0 => srw_readers[l] = 0
    /\ \A f \in Fibers, l \in SRWs : held_sh[f][l] <= 1
    /\ \A f \in Fibers : pc[f] = "srw" => SrwFree(f, wait_srw[f])
    /\ \A f \in Fibers : cv_lock[f] \in SRWs => SrwFree(f, cv_lock[f])

LEMMA SharedHoldsFinite == \A l \in SRWs : IsFiniteSet(SharedHolds(l))
<1>1. IsFiniteSet(Fibers) /\ IsFiniteSet(1 .. MaxRec)
  BY FS_Interval, TableAssumption, ClientAssumption DEF Fibers
<1>2. IsFiniteSet(Fibers \X (1 .. MaxRec))
  BY <1>1, FS_Product
<1>3. \A l \in SRWs : SharedHolds(l) \in SUBSET (Fibers \X (1 .. MaxRec))
  BY DEF SharedHolds
<1>. QED
  BY <1>2, <1>3, FS_Subset

\* A lock without readers is held in shared mode by nobody.
LEMMA NoReaders ==
    ASSUME SrwTypeOK, SrwInv, NEW l \in SRWs, srw_readers[l] = 0, NEW f \in Fibers
    PROVE  held_sh[f][l] = 0
<1>1. Cardinality(SharedHolds(l)) = 0
  BY DEF SrwInv, SrwCounted, SharedHolds
<1>2. SharedHolds(l) = {}
  BY <1>1, SharedHoldsFinite, FS_EmptySet
<1>3. <<f, 1>> \notin SharedHolds(l)
  BY <1>2
<1>. QED
  BY <1>3, ClientAssumption DEF SharedHolds, SrwTypeOK

\* The shared holds of the lock after one fiber takes it, or gives it back.
LEMMA SharedHoldAdded ==
    ASSUME SrwTypeOK, NEW l \in SRWs, NEW f \in Fibers, held_sh[f][l] = 0,
           held_sh' = [held_sh EXCEPT ![f][l] = 1]
    PROVE  /\ Cardinality(SharedHolds(l)') = Cardinality(SharedHolds(l)) + 1
           /\ \A k \in SRWs : k # l => SharedHolds(k)' = SharedHolds(k)
<1>0. held_sh \in [Fibers -> [SRWs -> Nat]] /\ MaxRec \in Nat /\ MaxRec > 0
  BY ClientAssumption DEF SrwTypeOK
<1>1. SharedHolds(l)' = SharedHolds(l) \cup {<<f, 1>>}
  BY <1>0 DEF SharedHolds
<1>2. <<f, 1>> \notin SharedHolds(l)
  BY <1>0 DEF SharedHolds
<1>3. \A k \in SRWs : k # l => SharedHolds(k)' = SharedHolds(k)
  BY <1>0 DEF SharedHolds
<1>. QED
  BY <1>1, <1>2, <1>3, SharedHoldsFinite, FS_AddElement

LEMMA SharedHoldRemoved ==
    ASSUME SrwTypeOK, NEW l \in SRWs, NEW f \in Fibers, held_sh[f][l] = 1,
           held_sh' = [held_sh EXCEPT ![f][l] = 0]
    PROVE  /\ Cardinality(SharedHolds(l)') = Cardinality(SharedHolds(l)) - 1
           /\ \A k \in SRWs : k # l => SharedHolds(k)' = SharedHolds(k)
<1>0. held_sh \in [Fibers -> [SRWs -> Nat]] /\ MaxRec \in Nat /\ MaxRec > 0
  BY ClientAssumption DEF SrwTypeOK
<1>1. SharedHolds(l)' = SharedHolds(l) \ {<<f, 1>>}
  BY <1>0 DEF SharedHolds
<1>2. <<f, 1>> \in SharedHolds(l)
  BY <1>0 DEF SharedHolds
<1>3. \A k \in SRWs : k # l => SharedHolds(k)' = SharedHolds(k)
  BY <1>0 DEF SharedHolds
<1>. QED
  BY <1>1, <1>2, <1>3, SharedHoldsFinite, FS_RemoveElement


\* A step that touches no lock: whoever waits or sleeps for one still holds none.
LEMMA SrwStay ==
    ASSUME SrwInv, UNCHANGED srwVars,
           \A f \in Fibers : pc'[f] = "srw" => SrwFree(f, wait_srw'[f]),
           \A f \in Fibers : cv_lock'[f] \in SRWs => SrwFree(f, cv_lock'[f])
    PROVE  SrwInv'
  BY DEF SrwInv, SrwCounted, SrwFree, srwVars

\* The other fibers keep their place and their waits.
OthersStay == \A f \in Fibers : f # g_cur => /\ pc'[f] = pc[f] /\ cv_lock'[f] = cv_lock[f]
                                             /\ wait_srw'[f] = wait_srw[f]

\* u32_srw_take of an acquirable lock the fiber does not hold.
LEMMA SrwTaken ==
    ASSUME TypeOK, SrwInv, OthersStay, NEW l \in SRWs, NEW excl \in BOOLEAN,
           u32_srw_acquirable(l, excl, g_cur), SrwFree(g_cur, l), SrwTake(l, excl, g_cur),
           pc'[g_cur] # "srw", cv_lock'[g_cur] \notin SRWs
    PROVE  SrwInv'
<1>0. /\ g_cur \in Fibers /\ g_cur \in Nat /\ Fibers \subseteq Nat /\ SrwTypeOK
      /\ srw_writer \in [SRWs -> 0 .. MaxFiber] /\ srw_readers \in [SRWs -> Nat]
      /\ held_ex \in [Fibers -> [SRWs -> BOOLEAN]] /\ held_sh \in [Fibers -> [SRWs -> Nat]]
  BY CurFiber DEF TypeOK, TablesTypeOK, SrwTypeOK, Fibers
<1>1. \A f \in Fibers : f # g_cur => held_ex'[f] = held_ex[f] /\ held_sh'[f] = held_sh[f]
  BY <1>0 DEF SrwTake
<1>2. \A f \in Fibers : pc'[f] = "srw" => SrwFree(f, wait_srw[f])' 
  BY <1>1 DEF SrwInv, SrwFree, OthersStay
<1>3. \A f \in Fibers : cv_lock'[f] \in SRWs => SrwFree(f, cv_lock[f])'
  BY <1>1 DEF SrwInv, SrwFree, OthersStay
<1>4. \A k \in SRWs, f \in Fibers : held_ex[f][k] = (srw_writer[k] = f + 1)
  BY DEF SrwInv, SrwCounted
<1>5. CASE excl
  <2>1. /\ srw_writer' = [srw_writer EXCEPT ![l] = g_cur + 1]
        /\ held_ex' = [held_ex EXCEPT ![g_cur][l] = TRUE]
        /\ UNCHANGED <<srw_readers, held_sh>> /\ srw_writer[l] = 0 /\ srw_readers[l] = 0
    BY <1>5 DEF SrwTake, u32_srw_acquirable
  <2>2. ASSUME NEW k \in SRWs, NEW f \in Fibers
        PROVE  held_ex'[f][k] = (srw_writer'[k] = f + 1)
    <3>1. CASE k # l
      <4>1. held_ex'[f][k] = held_ex[f][k] /\ srw_writer'[k] = srw_writer[k]
        BY <1>0, <2>1, <3>1
      <4>. QED
        BY <1>4, <4>1
    <3>2. CASE k = l /\ f = g_cur
      <4>1. held_ex'[f][k] = TRUE /\ srw_writer'[k] = f + 1
        BY <1>0, <2>1, <3>2
      <4>. QED
        BY <4>1
    <3>3. CASE k = l /\ f # g_cur
      <4>1. held_ex'[f][k] = held_ex[f][k] /\ srw_writer'[k] # f + 1 /\ srw_writer[k] # f + 1
        BY <1>0, <2>1, <3>3
      <4>2. held_ex[f][k] = FALSE
        BY <1>4, <4>1
      <4>. QED
        BY <4>1, <4>2
    <3>. QED
      BY <3>1, <3>2, <3>3
  <2>3. \A k \in SRWs : srw_readers'[k] = Cardinality(SharedHolds(k)')
    BY <2>1 DEF SharedHolds, SrwInv, SrwCounted
  <2>4. SrwCounted'
    BY <2>2, <2>3 DEF SrwCounted, SharedHolds
  <2>5. \A k \in SRWs : srw_writer'[k] # 0 => srw_readers'[k] = 0
    BY <1>0, <2>1 DEF SrwInv
  <2>6. \A f \in Fibers, k \in SRWs : held_sh'[f][k] <= 1
    BY <2>1 DEF SrwInv
  <2>. QED
    BY <1>2, <1>3, <2>4, <2>5, <2>6 DEF SrwInv
<1>6. CASE ~excl
  <2>1. /\ srw_readers' = [srw_readers EXCEPT ![l] = @ + 1]
        /\ held_sh' = [held_sh EXCEPT ![g_cur][l] = @ + 1]
        /\ UNCHANGED <<srw_writer, held_ex>> /\ srw_writer[l] \in {0, g_cur + 1}
    BY <1>6 DEF SrwTake, u32_srw_acquirable
  <2>2. held_sh[g_cur][l] = 0 /\ held_sh' = [held_sh EXCEPT ![g_cur][l] = 1]
    BY <1>0, <2>1 DEF SrwFree
  <2>3. srw_writer[l] # g_cur + 1
    <3>1. held_ex[g_cur][l] = (srw_writer[l] = g_cur + 1)
      BY <1>0, <1>4
    <3>2. held_ex[g_cur][l] = FALSE
      BY <1>0 DEF SrwFree
    <3>. QED
      BY <3>1, <3>2
  <2>4. ASSUME NEW k \in SRWs
        PROVE  srw_readers'[k] = Cardinality(SharedHolds(k)')
    <3>1. srw_readers[k] = Cardinality(SharedHolds(k))
      BY DEF SharedHolds, SrwInv, SrwCounted
    <3>2. /\ Cardinality(SharedHolds(l)') = Cardinality(SharedHolds(l)) + 1
          /\ \A j \in SRWs : j # l => SharedHolds(j)' = SharedHolds(j)
      BY <1>0, <2>2, SharedHoldAdded
    <3>3. CASE k = l
      <4>1. srw_readers'[l] = srw_readers[l] + 1
        BY <1>0, <2>1
      <4>. QED
        BY <3>1, <3>2, <3>3, <4>1
    <3>4. CASE k # l
      <4>1. srw_readers'[k] = srw_readers[k]
        BY <1>0, <2>1, <3>4
      <4>. QED
        BY <3>1, <3>2, <3>4, <4>1
    <3>. QED
      BY <3>3, <3>4
  <2>5. SrwCounted'
    BY <1>4, <2>1, <2>4 DEF SrwCounted, SharedHolds
  <2>6. \A k \in SRWs : srw_writer'[k] # 0 => srw_readers'[k] = 0
    BY <1>0, <2>1, <2>3 DEF SrwInv
  <2>7. \A f \in Fibers, k \in SRWs : held_sh'[f][k] <= 1
    BY <1>0, <2>2 DEF SrwInv
  <2>. QED
    BY <1>2, <1>3, <2>5, <2>6, <2>7 DEF SrwInv
<1>. QED
  BY <1>5, <1>6


\* u32_srw_release of a lock the fiber holds in that mode, to go on or to sleep.
LEMMA SrwGiven ==
    ASSUME TypeOK, SrwInv, OthersStay, NEW l \in SRWs, NEW excl \in BOOLEAN,
           Holds(l, excl), SrwRelease(l, excl, g_cur),
           pc'[g_cur] # "srw", cv_lock'[g_cur] \in {l, NoAddr}
    PROVE  SrwInv'
<1>0. /\ g_cur \in Fibers /\ g_cur \in Nat /\ Fibers \subseteq Nat /\ SrwTypeOK
      /\ srw_writer \in [SRWs -> 0 .. MaxFiber] /\ srw_readers \in [SRWs -> Nat]
      /\ held_ex \in [Fibers -> [SRWs -> BOOLEAN]] /\ held_sh \in [Fibers -> [SRWs -> Nat]]
      /\ NoAddr \notin SRWs
  BY CurFiber, AddressAssumption DEF TypeOK, TablesTypeOK, SrwTypeOK, Fibers
<1>1. \A f \in Fibers : f # g_cur => held_ex'[f] = held_ex[f] /\ held_sh'[f] = held_sh[f]
  BY <1>0 DEF SrwRelease
<1>2. \A f \in Fibers : pc'[f] = "srw" => SrwFree(f, wait_srw[f])'
  BY <1>1 DEF SrwInv, SrwFree, OthersStay
<1>3. ASSUME held_ex'[g_cur][l] = FALSE, held_sh'[g_cur][l] = 0
      PROVE  \A f \in Fibers : cv_lock'[f] \in SRWs => SrwFree(f, cv_lock[f])'
  BY <1>0, <1>1, <1>3 DEF SrwInv, SrwFree, OthersStay
<1>4. \A k \in SRWs, f \in Fibers : held_ex[f][k] = (srw_writer[k] = f + 1)
  BY DEF SrwInv, SrwCounted
<1>5. CASE excl
  <2>1. /\ srw_writer' = [srw_writer EXCEPT ![l] = IF @ = g_cur + 1 THEN 0 ELSE @]
        /\ held_ex' = [held_ex EXCEPT ![g_cur][l] = FALSE]
        /\ UNCHANGED <<srw_readers, held_sh>> /\ held_ex[g_cur][l] = TRUE
    BY <1>0, <1>5 DEF SrwRelease, Holds
  <2>2. srw_writer[l] = g_cur + 1
    BY <1>0, <1>4, <2>1
  <2>3. srw_writer' = [srw_writer EXCEPT ![l] = 0] /\ srw_readers[l] = 0
    BY <1>0, <2>1, <2>2 DEF SrwInv
  <2>4. ASSUME NEW k \in SRWs, NEW f \in Fibers
        PROVE  held_ex'[f][k] = (srw_writer'[k] = f + 1)
    <3>1. CASE k # l
      <4>1. held_ex'[f][k] = held_ex[f][k] /\ srw_writer'[k] = srw_writer[k]
        BY <1>0, <2>1, <2>3, <3>1
      <4>. QED
        BY <1>4, <4>1
    <3>2. CASE k = l /\ f = g_cur
      <4>1. held_ex'[f][k] = FALSE /\ srw_writer'[k] # f + 1
        BY <1>0, <2>1, <2>3, <3>2
      <4>. QED
        BY <4>1
    <3>3. CASE k = l /\ f # g_cur
      <4>1. held_ex'[f][k] = held_ex[f][k] /\ srw_writer'[k] # f + 1 /\ srw_writer[k] # f + 1
        BY <1>0, <2>1, <2>2, <2>3, <3>3
      <4>2. held_ex[f][k] = FALSE
        BY <1>4, <4>1
      <4>. QED
        BY <4>1, <4>2
    <3>. QED
      BY <3>1, <3>2, <3>3
  <2>5. \A k \in SRWs : srw_readers'[k] = Cardinality(SharedHolds(k)')
    BY <2>1 DEF SharedHolds, SrwInv, SrwCounted
  <2>6. SrwCounted'
    BY <2>4, <2>5 DEF SrwCounted, SharedHolds
  <2>7. /\ \A k \in SRWs : srw_writer'[k] # 0 => srw_readers'[k] = 0
        /\ \A f \in Fibers, k \in SRWs : held_sh'[f][k] <= 1
    BY <1>0, <2>1, <2>3 DEF SrwInv
  <2>8. held_ex'[g_cur][l] = FALSE /\ held_sh'[g_cur][l] = 0
    BY <1>0, <2>1, <2>3, NoReaders
  <2>. QED
    BY <1>2, <1>3, <2>6, <2>7, <2>8 DEF SrwInv
<1>6. CASE ~excl
  <2>1. /\ srw_readers' = [srw_readers EXCEPT ![l] = IF @ > 0 THEN @ - 1 ELSE @]
        /\ held_sh' = [held_sh EXCEPT ![g_cur][l] = IF @ > 0 THEN @ - 1 ELSE @]
        /\ UNCHANGED <<srw_writer, held_ex>> /\ held_sh[g_cur][l] > 0
    BY <1>6 DEF SrwRelease, Holds
  <2>2. held_sh[g_cur][l] = 1 /\ held_sh' = [held_sh EXCEPT ![g_cur][l] = 0]
    <3>1. held_sh[g_cur][l] = 1
      BY <1>0, <2>1 DEF SrwInv
    <3>. QED
      BY <2>1, <3>1
  <2>3. srw_readers[l] > 0 /\ srw_writer[l] = 0
    <3>1. srw_readers[l] # 0 /\ srw_readers[l] \in Nat
      BY <1>0, <2>2, NoReaders
    <3>. QED
      BY <3>1 DEF SrwInv
  <2>4. ASSUME NEW k \in SRWs
        PROVE  srw_readers'[k] = Cardinality(SharedHolds(k)')
    <3>1. srw_readers[k] = Cardinality(SharedHolds(k))
      BY DEF SharedHolds, SrwInv, SrwCounted
    <3>2. /\ Cardinality(SharedHolds(l)') = Cardinality(SharedHolds(l)) - 1
          /\ \A j \in SRWs : j # l => SharedHolds(j)' = SharedHolds(j)
      BY <1>0, <2>2, SharedHoldRemoved
    <3>3. CASE k = l
      <4>1. srw_readers'[l] = srw_readers[l] - 1
        BY <1>0, <2>1, <2>3
      <4>. QED
        BY <3>1, <3>2, <3>3, <4>1
    <3>4. CASE k # l
      <4>1. srw_readers'[k] = srw_readers[k]
        BY <1>0, <2>1, <3>4
      <4>. QED
        BY <3>1, <3>2, <3>4, <4>1
    <3>. QED
      BY <3>3, <3>4
  <2>5. SrwCounted'
    BY <1>4, <2>1, <2>4 DEF SrwCounted, SharedHolds
  <2>6. /\ \A k \in SRWs : srw_writer'[k] # 0 => srw_readers'[k] = 0
        /\ \A f \in Fibers, k \in SRWs : held_sh'[f][k] <= 1
    BY <1>0, <2>1, <2>2, <2>3 DEF SrwInv
  <2>7. held_ex'[g_cur][l] = FALSE /\ held_sh'[g_cur][l] = 0
    BY <1>0, <1>4, <2>1, <2>2, <2>3
  <2>. QED
    BY <1>2, <1>3, <2>5, <2>6, <2>7 DEF SrwInv
<1>. QED
  BY <1>5, <1>6


\* Every step of a disciplined program keeps SrwInv.
LEMMA StepSrwInv ==
    ASSUME Disciplined, IInv, SrwInv, [Next]_vars
    PROVE  SrwInv'
<1>0. /\ g_cur \in Fibers /\ TypeOK /\ FieldsMatch(g_cur) /\ pc \in [Fibers -> Labels]
      /\ wait_srw \in [Fibers -> SRWs \cup {NoAddr}] /\ wait_srw_excl \in [Fibers -> BOOLEAN]
      /\ cv_lock \in [Fibers -> Locks \cup {NoAddr}] /\ cv_shared \in [Fibers -> BOOLEAN]
      /\ NoAddr \notin SRWs /\ CSs \cap SRWs = {}
  BY CurFiber, AddressAssumption
     DEF IInv, WaitInv, TypeOK, FibersTypeOK, CtxTypeOK, WaitTypeOK, LocalTypeOK
<1>1. /\ \A f \in Fibers : pc[f] = "srw" => SrwFree(f, wait_srw[f])
      /\ \A f \in Fibers : cv_lock[f] \in SRWs => SrwFree(f, cv_lock[f])
  BY DEF SrwInv
<1>2. CASE UNCHANGED vars
  BY <1>1, <1>2, SrwStay DEF vars, fiberVars, ctxVars, waitVars, localVars, userVars
<1>3. CASE Next /\ ~UserLockStep
  <2>1. /\ UNCHANGED <<srwVars, wait_srw, cv_lock>>
        /\ \A f \in Fibers : pc'[f] = "srw" => pc[f] = "srw"
    BY <1>3, OutsideLocks DEF SameLoop, LockLabels, userVars
  <2>. QED
    BY <1>1, <2>1, SrwStay
<1>4. CASE ResumeSrw
  <2> DEFINE l == wait_srw[g_cur]  excl == wait_srw_excl[g_cur]
  <2>1. /\ pc[g_cur] = "srw" /\ l \in SRWs /\ excl \in BOOLEAN /\ SrwFree(g_cur, l)
        /\ cv_lock' = cv_lock /\ cv_lock[g_cur] = NoAddr
    BY <1>0, <1>1, <1>4 DEF ResumeSrw, At, FieldsMatch, localVars
  <2>2. CASE u32_srw_acquirable(l, excl, g_cur)
    <3>1. /\ SrwTake(l, excl, g_cur) /\ pc' = [pc EXCEPT ![g_cur] = "prog"]
          /\ wait_srw' = [wait_srw EXCEPT ![g_cur] = NoAddr]
      BY <1>4, <2>2 DEF ResumeSrw, Return
    <3>2. OthersStay /\ pc'[g_cur] # "srw" /\ cv_lock'[g_cur] \notin SRWs
      BY <1>0, <2>1, <3>1 DEF OthersStay
    <3>. QED
      BY <1>0, <2>1, <2>2, <3>1, <3>2, SrwTaken
  <2>3. CASE ~u32_srw_acquirable(l, excl, g_cur)
    <3>1. UNCHANGED <<wait_srw, srwVars>> /\ pc' = [pc EXCEPT ![g_cur] = "srw"]
      BY <1>4, <2>3 DEF ResumeSrw, ToSched
    <3>. QED
      BY <1>0, <1>1, <2>1, <3>1, SrwStay
  <2>. QED
    BY <2>2, <2>3
<1>5. CASE Relock
  <2> DEFINE l == cv_lock[g_cur]  excl == ~cv_shared[g_cur]
  <2>1. pc[g_cur] = "relock"
    BY <1>5 DEF Relock, At
  <2>2. CASE l \in SRWs /\ u32_srw_acquirable(l, excl, g_cur)
    <3>1. /\ SrwTake(l, excl, g_cur) /\ pc' = [pc EXCEPT ![g_cur] = "prog"]
          /\ wait_srw' = [wait_srw EXCEPT ![g_cur] = NoAddr]
          /\ cv_lock' = [cv_lock EXCEPT ![g_cur] = NoAddr]
      BY <1>0, <1>5, <2>2 DEF Relock, Return
    <3>2. OthersStay /\ pc'[g_cur] # "srw" /\ cv_lock'[g_cur] \notin SRWs
      BY <1>0, <3>1 DEF OthersStay
    <3>3. SrwFree(g_cur, l) /\ excl \in BOOLEAN
      BY <1>0, <1>1, <2>2
    <3>. QED
      BY <1>0, <2>2, <3>1, <3>2, <3>3, SrwTaken
  <2>3. CASE l \notin SRWs \/ ~u32_srw_acquirable(l, excl, g_cur)
    <3>1. /\ UNCHANGED srwVars
          /\ pc' \in {[pc EXCEPT ![g_cur] = "prog"], [pc EXCEPT ![g_cur] = "relock"]}
          /\ wait_srw' \in {wait_srw, [wait_srw EXCEPT ![g_cur] = l]}
          /\ cv_lock' \in {cv_lock, [cv_lock EXCEPT ![g_cur] = NoAddr]}
      BY <1>5, <2>3 DEF Relock, Return, ToSched
    <3>2. \A f \in Fibers : pc'[f] = "srw" => SrwFree(f, wait_srw'[f])
      BY <1>0, <1>1, <3>1
    <3>3. \A f \in Fibers : cv_lock'[f] \in SRWs => SrwFree(f, cv_lock'[f])
      BY <1>0, <1>1, <3>1
    <3>. QED
      BY <3>1, <3>2, <3>3, SrwStay
  <2>. QED
    BY <2>2, <2>3
<1>6. ASSUME NEW l \in SRWs, NEW excl \in BOOLEAN, SrwAcquireNow(l, excl)
      PROVE  SrwInv'
  <2>1. /\ pc[g_cur] = "prog" /\ UNCHANGED <<pc, wait_srw, cv_lock>> /\ SrwFree(g_cur, l)
        /\ u32_srw_acquirable(l, excl, g_cur) /\ SrwTake(l, excl, g_cur)
    BY <1>6 DEF SrwAcquireNow, Call, Prog, MayAcquire, SrwFree, ctxVars, localVars
  <2>2. OthersStay /\ pc'[g_cur] # "srw" /\ cv_lock'[g_cur] \notin SRWs
    BY <1>0, <2>1 DEF OthersStay, FieldsMatch
  <2>. QED
    BY <1>0, <2>1, <2>2, SrwTaken
<1>7. ASSUME NEW l \in SRWs, NEW excl \in BOOLEAN, SrwAcquireBlock(l, excl)
      PROVE  SrwInv'
  <2>1. /\ UNCHANGED <<srwVars, cv_lock>> /\ SrwFree(g_cur, l)
        /\ pc' = [pc EXCEPT ![g_cur] = "srw"]
        /\ wait_srw' = [wait_srw EXCEPT ![g_cur] = l]
    BY <1>7 DEF SrwAcquireBlock, MayAcquire, SrwFree, ToSched, localVars
  <2>2. \A f \in Fibers : pc'[f] = "srw" => SrwFree(f, wait_srw'[f])
    BY <1>0, <1>1, <2>1
  <2>. QED
    BY <1>1, <2>1, <2>2, SrwStay
<1>8. ASSUME NEW l \in SRWs, NEW excl \in BOOLEAN, ReleaseSRWLock(l, excl)
      PROVE  SrwInv'
  <2>1. /\ pc[g_cur] = "prog" /\ UNCHANGED <<pc, wait_srw, cv_lock>> /\ Holds(l, excl)
        /\ SrwRelease(l, excl, g_cur)
    BY <1>8 DEF ReleaseSRWLock, Call, Prog, ctxVars, localVars
  <2>2. OthersStay /\ pc'[g_cur] # "srw" /\ cv_lock'[g_cur] \in {l, NoAddr}
    BY <1>0, <2>1 DEF OthersStay, FieldsMatch
  <2>. QED
    BY <1>0, <2>1, <2>2, SrwGiven
<1>9. ASSUME NEW v \in CVs, NEW l \in Locks, NEW shared \in BOOLEAN, NEW ms,
             SleepConditionVariable(v, l, shared, ms)
      PROVE  SrwInv'
  <2>1. /\ wait_srw' = wait_srw /\ cv_lock' = [cv_lock EXCEPT ![g_cur] = l]
        /\ \E lab \in {"relock", "cv"} : pc' = [pc EXCEPT ![g_cur] = lab]
    BY <1>9 DEF SleepConditionVariable, ToSched
  <2>2. CASE l \in CSs
    <3>1. UNCHANGED srwVars
      BY <1>9, <2>2 DEF SleepConditionVariable
    <3>2. \A f \in Fibers : pc'[f] = "srw" => SrwFree(f, wait_srw'[f])
      BY <1>0, <1>1, <2>1
    <3>3. \A f \in Fibers : cv_lock'[f] \in SRWs => SrwFree(f, cv_lock'[f])
      BY <1>0, <1>1, <2>1, <2>2
    <3>. QED
      BY <3>1, <3>2, <3>3, SrwStay
  <2>3. CASE l \in SRWs
    <3>1. Holds(l, ~shared) /\ SrwRelease(l, ~shared, g_cur)
      BY <1>0, <1>9, <2>3 DEF SleepConditionVariable, MaySleepOn
    <3>2. OthersStay /\ pc'[g_cur] # "srw" /\ cv_lock'[g_cur] \in {l, NoAddr}
      BY <1>0, <2>1 DEF OthersStay
    <3>3. (~shared) \in BOOLEAN
      OBVIOUS
    <3>. QED
      BY <1>0, <2>3, <3>1, <3>2, <3>3, SrwGiven
  <2>. QED
    BY <2>2, <2>3 DEF Locks
<1>10. CASE \/ ResumeCs \/ ResumeCv
            \/ \E a \in CSs \cup SRWs \cup CVs : Initialize(a) \/ RegisterFull(a)
            \/ \E c \in CSs : \/ EnterNow(c) \/ EnterBlock(c) \/ LeaveCriticalSection(c)
                              \/ DeleteCriticalSection(c)
            \/ \E v \in CVs : WakeConditionVariable(v) \/ WakeAllConditionVariable(v)
  <2>1. UNCHANGED <<srwVars, cv_lock, wait_srw>>
    BY <1>10
       DEF ResumeCs, ResumeCv, Initialize, RegisterFull, EnterNow, EnterBlock,
           LeaveCriticalSection, DeleteCriticalSection, WakeConditionVariable,
           WakeAllConditionVariable, CsFrame, WakeFrame, ObjFrame, userVars,
           fiberVars, waitVars, localVars
  <2>2. \/ pc' = pc
        \/ \E lab \in {"prog", "cs", "cv", "relock"} : pc' = [pc EXCEPT ![g_cur] = lab]
    BY <1>10
       DEF ResumeCs, ResumeCv, CvLeave, Return, ToSched, Initialize, RegisterFull, Abort,
           EnterNow, EnterBlock, LeaveCriticalSection, DeleteCriticalSection,
           WakeConditionVariable, WakeAllConditionVariable, WakeFrame, fiberVars, ctxVars
  <2>3. \A f \in Fibers : pc'[f] = "srw" => pc[f] = "srw"
    BY <1>0, <2>2
  <2>. QED
    BY <1>1, <2>1, <2>3, SrwStay
<1>. QED
  BY <1>2, <1>3, <1>4, <1>5, <1>6, <1>7, <1>8, <1>9, <1>10 DEF UserLockStep

\* A written lock is held by its writer alone.
LEMMA SrwInvExcludes == IInv /\ SrwInv => SrwExclusion
<1> SUFFICES ASSUME IInv, SrwInv, NEW l \in SRWs, NEW f \in Fibers, NEW g \in Fibers,
                    f # g, held_ex[f][l]
             PROVE  ~held_ex[g][l] /\ held_sh[g][l] = 0
  BY DEF SrwExclusion
<1>0. SrwTypeOK /\ Fibers \subseteq Nat
  BY DEF IInv, TypeOK, TablesTypeOK, Fibers
<1>1. srw_writer[l] = f + 1
  BY DEF SrwInv, SrwCounted
<1>2. ~held_ex[g][l]
  <2>1. held_ex[g][l] = (srw_writer[l] = g + 1)
    BY DEF SrwInv, SrwCounted
  <2>2. srw_writer[l] # g + 1
    BY <1>0, <1>1
  <2>. QED
    BY <2>1, <2>2
<1>3. srw_readers[l] = 0
  BY <1>0, <1>1 DEF SrwInv
<1>. QED
  BY <1>0, <1>2, <1>3, NoReaders

\* For every number of fibers and locks: the locks of a program that releases what
\* it holds exclude whom they should, through waits, condition variables, deleted
\* sections and terminated threads.
THEOREM LocksSafe == ASSUME Disciplined, SleepsUnnested PROVE Spec => []LockExclusion
<1>1. Init => CsInv
  <2> SUFFICES ASSUME Init PROVE CsInv
    OBVIOUS
  <2>1. /\ MaxRec \in Nat /\ NoAddr \notin CSs /\ Fibers \subseteq Nat
        /\ \A f \in Fibers : pc[f] # "cs" /\ cv_lock[f] = NoAddr
        /\ \A c \in CSs : cs_owner[c] = 0 /\ cs_rec[c] = 0
        /\ \A f \in Fibers, c \in CSs : held_cs[f][c] = 0
    BY AddressAssumption, ClientAssumption DEF Init, TablesInit, FibersInit, Fibers
  <2>. QED
    BY <2>1 DEF CsInv, CsMatch, CsOwnedIffDeep
<1>2. Init => SrwInv
  <2> SUFFICES ASSUME Init PROVE SrwInv
    OBVIOUS
  <2>1. /\ NoAddr \notin SRWs /\ Fibers \subseteq Nat
        /\ \A f \in Fibers : pc[f] # "srw" /\ cv_lock[f] = NoAddr
        /\ \A l \in SRWs : srw_writer[l] = 0 /\ srw_readers[l] = 0
        /\ \A f \in Fibers, l \in SRWs : held_ex[f][l] = FALSE /\ held_sh[f][l] = 0
    BY AddressAssumption DEF Init, TablesInit, FibersInit, Fibers
  <2>2. ASSUME NEW l \in SRWs
        PROVE  srw_readers[l] = Cardinality(SharedHolds(l))
    <3>1. ASSUME NEW p \in Fibers \X (1 .. MaxRec)
          PROVE  ~(p[2] <= held_sh[p[1]][l])
      <4>1. p[1] \in Fibers /\ p[2] \in 1 .. MaxRec
        OBVIOUS
      <4>2. held_sh[p[1]][l] = 0
        BY <2>1, <4>1
      <4>. QED
        BY <4>1, <4>2, ClientAssumption
    <3>2. SharedHolds(l) = {}
      BY <3>1 DEF SharedHolds
    <3>. QED
      BY <2>1, <3>2, FS_EmptySet
  <2>3. \A l \in SRWs, f \in Fibers : held_ex[f][l] = (srw_writer[l] = f + 1)
    <3> SUFFICES ASSUME NEW l \in SRWs, NEW f \in Fibers
                 PROVE  held_ex[f][l] = (srw_writer[l] = f + 1)
      OBVIOUS
    <3>1. held_ex[f][l] = FALSE /\ srw_writer[l] # f + 1
      BY <2>1
    <3>. QED
      BY <3>1
  <2>4. SrwCounted
    BY <2>2, <2>3 DEF SrwCounted, SharedHolds
  <2>5. /\ \A l \in SRWs : srw_writer[l] # 0 => srw_readers[l] = 0
        /\ \A f \in Fibers, l \in SRWs : held_sh[f][l] <= 1
    BY <2>1
  <2>6. /\ \A f \in Fibers : pc[f] = "srw" => SrwFree(f, wait_srw[f])
        /\ \A f \in Fibers : cv_lock[f] \in SRWs => SrwFree(f, cv_lock[f])
    BY <2>1
  <2>. QED
    BY <2>4, <2>5, <2>6 DEF SrwInv
<1>3. IInv /\ CsInv /\ SrwInv => LockExclusion
  BY CsInvExcludes, SrwInvExcludes DEF LockExclusion, SrwInv
<1>4. IInv /\ CsInv /\ [Next]_vars => CsInv'
  BY StepCsInv
<1>5. IInv /\ SrwInv /\ [Next]_vars => SrwInv'
  BY StepSrwInv
<1>. QED
  BY <1>1, <1>2, <1>3, <1>4, <1>5, Invariance, PTL DEF Spec


-----------------------------------------------------------------------------
(* The ends of fibers.                                                      *)

AliveKept == \A f \in Fibers : fst[f] # "DONE" => fst'[f] # "DONE"

\* The calls that end a fiber, its own or another.
EndStep == \/ StartFiber
           \/ \E code \in ExitCodes : \/ ThreadReturn(code) \/ ExitThread(code)
                                      \/ \E f \in Fibers : TerminateThread(f, code)

\* No other step ends a fiber.
LEMMA OthersLive == ASSUME IInv, Next, ~EndStep PROVE AliveKept
<1>0. g_cur \in Fibers /\ fst \in [Fibers -> FST]
  BY CurFiber DEF IInv, TypeOK, FibersTypeOK, CtxTypeOK
<1>1. ASSUME NEW i, NEW s \in {"READY", "BLOCKED", "SUSPENDED"},
             fst' = [fst EXCEPT ![i] = s]
      PROVE  AliveKept
  BY <1>0, <1>1 DEF AliveKept
<1>2. ASSUME fst' = fst
      PROVE  AliveKept
  BY <1>2 DEF AliveKept
<1>3. CASE SchedStep
  BY <1>2, <1>3
     DEF SchedStep, SchedDispatch, SchedAdvance, SchedPoll, SchedGiveUp, AliveKept, vars,
         fiberVars, ctxVars
<1>4. CASE ThreadStep
  <2>1. CASE SetLastError \/ ResumeYield \/ ProcessExit \/ SuspendThread
    BY <1>2, <2>1
       DEF SetLastError, ResumeYield, ProcessExit, SuspendThread, Abort, Return, fiberVars,
           ctxVars
  <2>2. CASE SleepYield \/ ResumeSleep \/ \E ms \in Delays \cup {Infinite} : Sleep(ms)
    BY <1>1, <1>2, <2>2 DEF SleepYield, ResumeSleep, Sleep, Return, ToSched
  <2>3. CASE \E s \in {"READY", "SUSPENDED"} : CreateThread(s)
    BY <1>1, <1>2, <2>3 DEF CreateThread, Publish
  <2>4. CASE \E f \in Fibers : ResumeThread(f)
    BY <1>1, <1>2, <2>4 DEF ResumeThread
  <2>. QED
    BY <1>4, <2>1, <2>2, <2>3, <2>4 DEF ThreadStep, EndStep
<1>5. CASE HandleStep
  <2>1. \/ fst' = fst \/ fst' = [fst EXCEPT ![g_cur] = "BLOCKED"]
    BY <1>5
       DEF HandleStep, WaitAtOnce, WaitPoll, WaitBlock, ResumeWait, CreateEvent, SetEvent,
           ResetEvent, NetReady, WSAEventSelect, EvFrame, CreateMutex, ReleaseMutex,
           CreateSemaphore, ReleaseSemaphore, OpenMissing, Return, ToSched, fiberVars,
           ctxVars
  <2>. QED
    BY <1>1, <1>2, <2>1
<1>6. CASE UserLockStep
  <2>1. \/ fst' = fst \/ fst' = [fst EXCEPT ![g_cur] = "BLOCKED"]
    <3>1. CASE ResumeCs \/ ResumeSrw \/ ResumeCv \/ Relock
      BY <3>1 DEF ResumeCs, ResumeSrw, ResumeCv, Relock, CvLeave, Return, ToSched
    <3>2. CASE \E a \in CSs \cup SRWs \cup CVs : Initialize(a) \/ RegisterFull(a)
      BY <3>2 DEF Initialize, RegisterFull, Abort, fiberVars, ctxVars
    <3>3. CASE \E c \in CSs : \/ EnterNow(c) \/ EnterBlock(c) \/ LeaveCriticalSection(c)
                              \/ DeleteCriticalSection(c)
      BY <3>3 DEF EnterNow, EnterBlock, LeaveCriticalSection, DeleteCriticalSection,
                  ToSched, ctxVars
    <3>4. CASE \E l \in SRWs, excl \in BOOLEAN :
                SrwAcquireNow(l, excl) \/ SrwAcquireBlock(l, excl) \/ ReleaseSRWLock(l, excl)
      BY <3>4 DEF SrwAcquireNow, SrwAcquireBlock, ReleaseSRWLock, ToSched, ctxVars
    <3>5. CASE \E v \in CVs :
                \/ WakeConditionVariable(v) \/ WakeAllConditionVariable(v)
                \/ \E l \in Locks, shared \in BOOLEAN, ms \in Delays \cup {0, Infinite} :
                      SleepConditionVariable(v, l, shared, ms)
      BY <3>5 DEF WakeConditionVariable, WakeAllConditionVariable, WakeFrame,
                  SleepConditionVariable, ToSched, fiberVars, ctxVars
    <3>. QED
      BY <1>6, <3>1, <3>2, <3>3, <3>4, <3>5 DEF UserLockStep
  <2>. QED
    BY <1>1, <1>2, <2>1
<1>7. CASE ThreadPoolStep
  <2>1. \/ fst' = fst \/ fst' = [fst EXCEPT ![g_cur] = "READY"]
        \/ fst' = [fst EXCEPT ![g_nfiber] = "READY"]
    BY <1>7
       DEF ThreadPoolStep, PoolLoop, CreateThreadpoolWork, SubmitThreadpoolWork, Publish,
           CloseThreadpoolWork, WaitForThreadpoolWorkCallbacks, Return, ToSched,
           fiberVars, ctxVars
  <2>. QED
    BY <1>1, <1>2, <2>1
<1>8. CASE Gone
  BY <1>2, <1>8 DEF Gone, vars, fiberVars, ctxVars
<1>. QED
  BY <1>3, <1>4, <1>5, <1>6, <1>7, <1>8 DEF Next

-----------------------------------------------------------------------------
(* Condition variables.                                                     *)

\* A program that kills no other thread.
NoKill == "TerminateThread" \notin Api

LEMMA SleepersFinite == \A v : IsFiniteSet(Sleepers(v)) /\ IsFiniteSet(Sleepers(v))'
<1>1. IsFiniteSet(Fibers)
  BY FS_Interval, TableAssumption DEF Fibers
<1>2. \A v : Sleepers(v) \in SUBSET Fibers /\ Sleepers(v)' \in SUBSET Fibers
  BY DEF Sleepers
<1>. QED
  BY <1>1, <1>2, FS_Subset

\* A fiber leaves a sleep on its own only: by ResumeCv.
LEMMA SleepersStay ==
    ASSUME NoKill, IInv, Next, ~ResumeCv, NEW v \in CVs
    PROVE  Sleepers(v) \subseteq Sleepers(v)'
<1>0. /\ g_cur \in Fibers /\ FieldsMatch(g_cur) /\ NoAddr \notin CVs
      /\ wait_cv \in [Fibers -> CVs \cup {NoAddr}] /\ fst \in [Fibers -> FST]
  BY CurFiber, AddressAssumption
     DEF IInv, WaitInv, TypeOK, FibersTypeOK, CtxTypeOK, WaitTypeOK
<1>1. CASE EndStep
  <2>1. UNCHANGED <<wait_cv, g_nfiber>> /\ fst' \in {fst, [fst EXCEPT ![g_cur] = "DONE"]}
    BY <1>1
       DEF EndStep, NoKill, StartFiber, ThreadReturn, ExitThread, TerminateThread, Call,
           Return, waitVars, clockVars
  <2>2. pc[g_cur] # "cv"
    BY <1>1 DEF EndStep, NoKill, StartFiber, ThreadReturn, ExitThread, TerminateThread,
                Call, Prog, At
  <2>3. wait_cv[g_cur] = NoAddr
    BY <1>0, <2>2 DEF FieldsMatch
  <2>. QED
    BY <1>0, <2>1, <2>3 DEF Sleepers
<1>2. CASE ~EndStep
  <2>1. AliveKept
    BY <1>2, OthersLive
  <2>2. CASE UserLockStep
    <3>1. \/ wait_cv' = wait_cv
          \/ pc[g_cur] = "prog" /\ \E u \in CVs : wait_cv' = [wait_cv EXCEPT ![g_cur] = u]
      BY <2>2
         DEF UserLockStep, ResumeCs, ResumeSrw, Relock, Initialize, RegisterFull, EnterNow,
             EnterBlock, LeaveCriticalSection, DeleteCriticalSection, SrwAcquireNow,
             SrwAcquireBlock, ReleaseSRWLock, SleepConditionVariable, Call, Prog,
             WakeConditionVariable, WakeAllConditionVariable, WakeFrame, fiberVars, waitVars
    <3>2. pc[g_cur] = "prog" => wait_cv[g_cur] = NoAddr
      BY <1>0 DEF FieldsMatch
    <3>. QED
      BY <1>0, <2>1, <3>1, <3>2 DEF Sleepers, AliveKept
  <2>3. CASE ~UserLockStep
    BY <2>1, <2>3, OutsideLocks DEF Sleepers, AliveKept
  <2>. QED
    BY <2>2, <2>3
<1>. QED
  BY <1>1, <1>2

\* Every step leaves at most as many grants as sleepers.
LEMMA StepNoGrantLeak ==
    ASSUME NoKill, IInv, NoGrantLeak, [Next]_vars
    PROVE  NoGrantLeak'
<1>0. /\ g_cur \in Fibers /\ FieldsMatch(g_cur) /\ NoAddr \notin CVs
      /\ wait_cv \in [Fibers -> CVs \cup {NoAddr}] /\ cv_grants \in [CVs -> Nat]
  BY CurFiber, AddressAssumption
     DEF IInv, WaitInv, TypeOK, FibersTypeOK, TablesTypeOK, CvTypeOK, WaitTypeOK
<1>1. ASSUME NEW v \in CVs, Sleepers(v) \subseteq Sleepers(v)'
      PROVE  Cardinality(Sleepers(v)) <= Cardinality(Sleepers(v)')
  BY <1>1, SleepersFinite, FS_Subset
<1>2. ASSUME NEW v \in CVs
      PROVE  /\ Cardinality(Sleepers(v)) \in Nat /\ Cardinality(Sleepers(v)') \in Nat
             /\ cv_grants[v] <= Cardinality(Sleepers(v))
  BY SleepersFinite, FS_CardinalityType DEF NoGrantLeak
<1>3. CASE UNCHANGED vars
  BY <1>3 DEF NoGrantLeak, Sleepers, vars, fiberVars, ctxVars, waitVars, userVars, cvVars
<1>4. ASSUME Next, ~ResumeCv, cv_grants' = cv_grants
      PROVE  NoGrantLeak'
  <2>1. ASSUME NEW v \in CVs
        PROVE  cv_grants'[v] <= Cardinality(Sleepers(v)')
    BY <1>0, <1>1, <1>2, <1>4, SleepersStay
  <2>. QED
    BY <2>1 DEF NoGrantLeak
<1>5. ASSUME NEW u \in CVs, WakeConditionVariable(u) \/ WakeAllConditionVariable(u)
      PROVE  NoGrantLeak'
  <2>1. UNCHANGED <<fst, wait_cv>>
    BY <1>5 DEF WakeConditionVariable, WakeAllConditionVariable, WakeFrame, fiberVars,
                ctxVars, waitVars
  <2>2. \A v : Sleepers(v)' = Sleepers(v)
    BY <2>1 DEF Sleepers
  <2>3. {f \in Live : fst[f] = "BLOCKED" /\ wait_cv[f] = u} \in SUBSET Sleepers(u)
    BY LiveFibers DEF Sleepers, IInv
  <2>4. u32_cv_waiters(u) <= Cardinality(Sleepers(u)) /\ u32_cv_waiters(u) \in Nat
    BY <2>3, SleepersFinite, FS_Subset, WaitersNat DEF u32_cv_waiters, IInv
  <2>5. \/ cv_grants' = [cv_grants EXCEPT ![u] = IF @ < u32_cv_waiters(u) THEN @ + 1 ELSE @]
        \/ cv_grants' = [cv_grants EXCEPT ![u] = u32_cv_waiters(u)]
    BY <1>5 DEF WakeConditionVariable, WakeAllConditionVariable
  <2>6. ASSUME NEW v \in CVs
        PROVE  cv_grants'[v] <= Cardinality(Sleepers(v))
    BY <1>0, <1>2, <2>4, <2>5
  <2>. QED
    BY <2>2, <2>6 DEF NoGrantLeak
<1>6. CASE ResumeCv
  <2>1. PICK u \in CVs : u = wait_cv[g_cur]
    BY <1>0, <1>6 DEF ResumeCv, At, FieldsMatch
  <2>2. CASE CvLeave
    <3>1. /\ wait_cv' = [wait_cv EXCEPT ![g_cur] = NoAddr] /\ fst' = fst
          /\ IF cv_grants[u] > 0 THEN cv_grants' = [cv_grants EXCEPT ![u] = @ - 1]
                                 ELSE cv_grants' = cv_grants
      BY <1>0, <1>6, <2>1, <2>2 DEF ResumeCv, CvLeave
    <3>2. ASSUME NEW v \in CVs, v # u
          PROVE  cv_grants'[v] <= Cardinality(Sleepers(v)')
      <4>1. Sleepers(v)' = Sleepers(v) /\ cv_grants'[v] = cv_grants[v]
        BY <1>0, <2>1, <3>1, <3>2 DEF Sleepers
      <4>. QED
        BY <1>2, <4>1
    <3>3. cv_grants'[u] <= Cardinality(Sleepers(u)')
      <4>1. Cardinality(Sleepers(u)') >= Cardinality(Sleepers(u)) - 1
        <5>1. Sleepers(u)' = Sleepers(u) \ {g_cur}
          BY <1>0, <2>1, <3>1 DEF Sleepers
        <5>. QED
          BY <1>2, <2>1, <5>1, SleepersFinite, FS_RemoveElement
      <4>2. CASE cv_grants[u] > 0
        BY <1>0, <1>2, <2>1, <3>1, <4>1, <4>2
      <4>3. CASE cv_grants[u] = 0
        BY <1>0, <1>2, <2>1, <3>1, <4>3
      <4>. QED
        BY <1>0, <2>1, <4>2, <4>3
    <3>. QED
      BY <2>1, <3>2, <3>3 DEF NoGrantLeak
  <2>3. CASE ~CvLeave
    <3>1. UNCHANGED <<wait_cv, cv_grants>> /\ fst' = [fst EXCEPT ![g_cur] = "BLOCKED"]
      BY <1>6, <2>3 DEF ResumeCv, ToSched, cvVars
    <3>2. \A v \in CVs : Sleepers(v) \subseteq Sleepers(v)'
      BY <1>0, <3>1 DEF Sleepers, IInv, TypeOK, FibersTypeOK, CtxTypeOK
    <3>3. ASSUME NEW v \in CVs
          PROVE  cv_grants'[v] <= Cardinality(Sleepers(v)')
      BY <1>0, <1>1, <1>2, <3>1, <3>2
    <3>. QED
      BY <3>3 DEF NoGrantLeak
  <2>. QED
    BY <2>2, <2>3
<1>7. ASSUME Next, ~ResumeCv,
             ~\E v \in CVs : WakeConditionVariable(v) \/ WakeAllConditionVariable(v)
      PROVE  cv_grants' = cv_grants
  <2>1. CASE UserLockStep
    BY <1>7, <2>1
       DEF UserLockStep, ResumeCs, ResumeSrw, Relock, Initialize, RegisterFull, EnterNow,
           EnterBlock, LeaveCriticalSection, DeleteCriticalSection, SrwAcquireNow,
           SrwAcquireBlock, ReleaseSRWLock, SleepConditionVariable, ObjFrame, userVars,
           cvVars
  <2>2. CASE ~UserLockStep
    BY <1>7, <2>2, OutsideLocks DEF userVars, cvVars
  <2>. QED
    BY <2>1, <2>2
<1>. QED
  BY <1>3, <1>4, <1>5, <1>6, <1>7

\* Unless a thread is killed in its sleep, a wake is never left for a fiber that
\* goes to sleep later, however many fibers and condition variables there are.
THEOREM GrantsOwed == ASSUME NoKill PROVE Spec => []NoGrantLeak
<1>1. Init => NoGrantLeak
  BY SleepersFinite, FS_CardinalityType DEF Init, TablesInit, NoGrantLeak
<1>2. IInv /\ NoGrantLeak /\ [Next]_vars => NoGrantLeak'
  BY StepNoGrantLeak
<1>. QED
  BY <1>1, <1>2, Invariance, PTL DEF Spec


-----------------------------------------------------------------------------
(* Thread-pool work items.                                                  *)

\* A program whose callbacks return: neither they nor others end their thread.
CallbacksReturn == {"ExitThread", "TerminateThread"} \cap Api = {}

\* The callbacks of w that were submitted and have not finished.
Unfinished(w) == {f \in Fibers : pool_work[f] = w /\ fst[f] # "DONE"}

\* A slot no fiber has used yet has no work item.
PoolInv ==
    /\ WorkCounted
    /\ \A f \in Fibers \ Live : pool_work[f] = NoWork /\ tp_wait[f] = NoWork

LEMMA UnfinishedFinite == \A w : IsFiniteSet(Unfinished(w)) /\ IsFiniteSet(Unfinished(w))'
<1>1. IsFiniteSet(Fibers)
  BY FS_Interval, TableAssumption DEF Fibers
<1>2. \A w : Unfinished(w) \in SUBSET Fibers /\ Unfinished(w)' \in SUBSET Fibers
  BY DEF Unfinished
<1>. QED
  BY <1>1, <1>2, FS_Subset

\* The calls of this API, and the trampoline, are the only steps that matter.
LEMMA OutsidePool ==
    ASSUME Next, ~ThreadPoolStep, ~EndStep,
           ~\E s \in {"READY", "SUSPENDED"} : CreateThread(s)
    PROVE  UNCHANGED <<tpVars, pool_work, tp_wait, g_nfiber>>
<1>1. CASE SchedStep
  BY <1>1
     DEF SchedStep, SchedDispatch, SchedAdvance, SchedPoll, SchedGiveUp, SchedFrame, vars,
         fiberVars, idVars, clockVars, localVars
<1>2. CASE ThreadStep
  BY <1>2
     DEF ThreadStep, EndStep, SetLastError, SleepYield, ResumeYield, ResumeSleep,
         ProcessExit, SuspendThread, Sleep, ResumeThread, ObjFrame, fiberVars, idVars,
         clockVars, localVars
<1>3. CASE HandleStep
  BY <1>3
     DEF HandleStep, WaitAtOnce, WaitPoll, WaitBlock, ResumeWait, WaitFrame, CreateEvent,
         SetEvent, ResetEvent, NetReady, WSAEventSelect, EvFrame, CreateMutex, ReleaseMutex,
         CreateSemaphore, ReleaseSemaphore, OpenMissing, fiberVars, idVars, clockVars,
         localVars
<1>4. CASE UserLockStep
  <2>1. CASE ResumeCs \/ ResumeSrw \/ ResumeCv \/ Relock
    BY <2>1 DEF ResumeCs, ResumeSrw, ResumeCv, Relock, CsFrame, SrwFrame, idVars, clockVars,
                localVars
  <2>2. CASE \E a \in CSs \cup SRWs \cup CVs : Initialize(a) \/ RegisterFull(a)
    BY <2>2 DEF Initialize, RegisterFull, ObjFrame, fiberVars, idVars, clockVars, localVars
  <2>3. CASE \E c \in CSs : \/ EnterNow(c) \/ EnterBlock(c) \/ LeaveCriticalSection(c)
                            \/ DeleteCriticalSection(c)
    BY <2>3 DEF EnterNow, EnterBlock, LeaveCriticalSection, DeleteCriticalSection, CsFrame,
                idVars, clockVars, localVars
  <2>4. CASE \E l \in SRWs, excl \in BOOLEAN :
              SrwAcquireNow(l, excl) \/ SrwAcquireBlock(l, excl) \/ ReleaseSRWLock(l, excl)
    BY <2>4 DEF SrwAcquireNow, SrwAcquireBlock, ReleaseSRWLock, SrwFrame, idVars, clockVars,
                localVars
  <2>5. CASE \E v \in CVs :
              \/ WakeConditionVariable(v) \/ WakeAllConditionVariable(v)
              \/ \E l \in Locks, shared \in BOOLEAN, ms \in Delays \cup {0, Infinite} :
                    SleepConditionVariable(v, l, shared, ms)
    BY <2>5 DEF WakeConditionVariable, WakeAllConditionVariable, WakeFrame,
                SleepConditionVariable, fiberVars, idVars, clockVars, localVars
  <2>. QED
    BY <1>4, <2>1, <2>2, <2>3, <2>4, <2>5 DEF UserLockStep
<1>5. CASE Gone
  BY <1>5 DEF Gone, vars, fiberVars, idVars, clockVars, localVars
<1>. QED
  BY <1>1, <1>2, <1>3, <1>4, <1>5 DEF Next

\* A step that changes no item and no callback, and ends no fiber; a fiber may
\* begin to wait for an item, or stop.
LEMMA PoolStay ==
    ASSUME PoolInv, DoneKept, AliveKept, UNCHANGED <<tp_live, tp_pending, pool_work>>,
           \A f \in Fibers : \/ tp_wait'[f] = tp_wait[f]
                             \/ f \in Live /\ tp_wait'[f] \in tp_live \cup {NoWork},
           Live \subseteq Live'
    PROVE  PoolInv'
<1>1. \A w : Unfinished(w)' = Unfinished(w)
  BY DEF Unfinished, DoneKept, AliveKept
<1>2. PendingExact'
  BY <1>1 DEF PoolInv, WorkCounted, PendingExact, Unfinished
<1>3. NoFreedWork'
  BY DEF PoolInv, WorkCounted, NoFreedWork, DoneKept
<1>. QED
  BY <1>2, <1>3 DEF PoolInv, WorkCounted

\* A callback finishes, or is skipped because it was cancelled.
LEMMA CallbackEnds ==
    ASSUME IInv, PoolInv, NEW w \in Works, w = pool_work[g_cur], fst[g_cur] # "DONE",
           tp_pending' = [tp_pending EXCEPT ![w] = @ - 1],
           fst' = [fst EXCEPT ![g_cur] = "DONE"],
           UNCHANGED <<tp_live, pool_work, tp_wait, g_nfiber>>
    PROVE  PoolInv'
<1>0. /\ g_cur \in Fibers /\ fst \in [Fibers -> FST] /\ NoWork \notin Works
      /\ tp_live \subseteq Works /\ Live' = Live
      /\ DOMAIN tp_pending = Works
  BY CurFiber, AddressAssumption
     DEF IInv, TypeOK, FibersTypeOK, CtxTypeOK, TablesTypeOK, TpTypeOK, Live
<1>1. Unfinished(w)' = Unfinished(w) \ {g_cur} /\ g_cur \in Unfinished(w)
  BY <1>0 DEF Unfinished
<1>2. Cardinality(Unfinished(w)') = Cardinality(Unfinished(w)) - 1
  BY <1>1, UnfinishedFinite, FS_RemoveElement
<1>3. ASSUME NEW x \in tp_live
      PROVE  tp_pending'[x] = Cardinality(Unfinished(x)')
  <2>1. tp_pending[x] = Cardinality(Unfinished(x))
    BY DEF PoolInv, WorkCounted, PendingExact, Unfinished
  <2>2. CASE x = w
    BY <1>0, <1>2, <2>1, <2>2
  <2>3. CASE x # w
    <3>1. Unfinished(x)' = Unfinished(x) /\ tp_pending'[x] = tp_pending[x]
      BY <1>0, <2>3 DEF Unfinished
    <3>. QED
      BY <2>1, <3>1
  <2>. QED
    BY <2>2, <2>3
<1>4. PendingExact'
  BY <1>3 DEF PendingExact, Unfinished
<1>5. NoFreedWork'
  BY <1>0 DEF PoolInv, WorkCounted, NoFreedWork
<1>. QED
  BY <1>0, <1>4, <1>5 DEF PoolInv, WorkCounted


\* A thread that is no callback returns.
LEMMA ThreadEnds ==
    ASSUME IInv, PoolInv, pool_work[g_cur] = NoWork, fst' = [fst EXCEPT ![g_cur] = "DONE"],
           UNCHANGED <<tpVars, pool_work, tp_wait, g_nfiber>>
    PROVE  PoolInv'
<1>0. /\ g_cur \in Fibers /\ fst \in [Fibers -> FST] /\ NoWork \notin Works
      /\ tp_live \subseteq Works /\ Live' = Live
  BY CurFiber, AddressAssumption
     DEF IInv, TypeOK, FibersTypeOK, CtxTypeOK, TablesTypeOK, TpTypeOK, Live
<1>1. \A w \in tp_live : Unfinished(w)' = Unfinished(w)
  BY <1>0 DEF Unfinished
<1>2. PendingExact'
  BY <1>1 DEF PoolInv, WorkCounted, PendingExact, Unfinished, tpVars
<1>3. NoFreedWork'
  BY <1>0 DEF PoolInv, WorkCounted, NoFreedWork, tpVars
<1>. QED
  BY <1>0, <1>2, <1>3 DEF PoolInv, WorkCounted

\* A new item has no callbacks: its block was never used.
LEMMA WorkCreated ==
    ASSUME IInv, PoolInv, NEW w \in Works, CreateThreadpoolWork(w)
    PROVE  PoolInv'
<1>0. /\ Fibers \ Live \subseteq Fibers /\ NoWork \notin Works /\ tp_live \subseteq Works
      /\ DOMAIN tp_pending = Works /\ tp_pending \in [Works -> Int]
  BY AddressAssumption DEF IInv, TypeOK, TablesTypeOK, TpTypeOK
<1>1. /\ UNCHANGED <<fst, pool_work, tp_wait, g_nfiber>> /\ tp_live' = tp_live \cup {w}
      /\ tp_pending' = [tp_pending EXCEPT ![w] = 0] /\ \A f \in Live : pool_work[f] # w
  BY DEF CreateThreadpoolWork, fiberVars, ctxVars, idVars, clockVars, localVars
<1>2. Unfinished(w) = {} /\ \A x : Unfinished(x)' = Unfinished(x)
  BY <1>0, <1>1 DEF Unfinished, PoolInv
<1>3. Cardinality(Unfinished(w)) = 0
  BY <1>2, FS_EmptySet
<1>4. ASSUME NEW x \in tp_live'
      PROVE  tp_pending'[x] = Cardinality(Unfinished(x)')
  <2>1. CASE x = w
    <3>1. tp_pending'[w] = 0 /\ Unfinished(w)' = Unfinished(w)
      BY <1>0, <1>1, <1>2
    <3>. QED
      BY <1>3, <2>1, <3>1
  <2>2. CASE x # w
    <3>1. x \in tp_live /\ tp_pending'[x] = tp_pending[x] /\ Unfinished(x)' = Unfinished(x)
      BY <1>0, <1>1, <1>2, <1>4, <2>2
    <3>2. tp_pending[x] = Cardinality(Unfinished(x))
      BY <3>1 DEF PoolInv, WorkCounted, PendingExact, Unfinished
    <3>. QED
      BY <3>1, <3>2
  <2>. QED
    BY <2>1, <2>2
<1>5. PendingExact'
  BY <1>4 DEF PendingExact, Unfinished
<1>6. NoFreedWork'
  BY <1>1 DEF PoolInv, WorkCounted, NoFreedWork
<1>7. Live' = Live
  BY <1>1 DEF Live
<1>. QED
  BY <1>1, <1>5, <1>6, <1>7 DEF PoolInv, WorkCounted

\* A submitted callback is a fiber more of its item.
LEMMA WorkSubmitted ==
    ASSUME IInv, PoolInv, NEW w \in Works, SubmitThreadpoolWork(w), g_nfiber < MaxFiber
    PROVE  PoolInv'
<1> DEFINE n == g_nfiber
<1>0. /\ n \in Fibers \ Live /\ n \in Nat /\ fst \in [Fibers -> FST]
      /\ NoWork \notin Works /\ tp_live \subseteq Works
      /\ pool_work \in [Fibers -> Works \cup {NoWork}] /\ tp_pending \in [Works -> Int]
  BY AddressAssumption, TableAssumption
     DEF IInv, TypeOK, FibersTypeOK, CtxTypeOK, IdTypeOK, ClockTypeOK, TablesTypeOK,
         TpTypeOK, Live, Fibers
<1>1. /\ w \in tp_live /\ tp_live' = tp_live /\ tp_wait' = tp_wait
      /\ fst' = [fst EXCEPT ![n] = "READY"]
      /\ pool_work' = [pool_work EXCEPT ![n] = w] /\ g_nfiber' = n + 1
      /\ tp_pending' = [tp_pending EXCEPT ![w] = @ + 1]
  <2>1. ~(g_nfiber >= MaxFiber)
    BY <1>0, TableAssumption
  <2>. QED
    BY <2>1 DEF SubmitThreadpoolWork, Publish, localVars
<1>2. pool_work[n] = NoWork /\ tp_wait[n] = NoWork /\ fst[n] = "FREE"
  BY <1>0 DEF PoolInv, IInv, RunInv
<1>3. PICK i \in Fibers : i = n
  BY <1>0
<1>4. Unfinished(w)' = Unfinished(w) \cup {i} /\ i \notin Unfinished(w)
  BY <1>0, <1>1, <1>2, <1>3 DEF Unfinished
<1>5. Cardinality(Unfinished(w)') = Cardinality(Unfinished(w)) + 1
  BY <1>4, UnfinishedFinite, FS_AddElement
<1>6. ASSUME NEW x \in tp_live
      PROVE  tp_pending'[x] = Cardinality(Unfinished(x)')
  <2>1. tp_pending[x] = Cardinality(Unfinished(x))
    BY DEF PoolInv, WorkCounted, PendingExact, Unfinished
  <2>2. CASE x = w
    BY <1>0, <1>1, <1>5, <2>1, <2>2
  <2>3. CASE x # w
    <3>1. Unfinished(x)' = Unfinished(x) /\ tp_pending'[x] = tp_pending[x]
      BY <1>0, <1>1, <1>2, <2>3 DEF Unfinished
    <3>. QED
      BY <2>1, <3>1
  <2>. QED
    BY <2>2, <2>3
<1>7. PendingExact'
  BY <1>1, <1>6 DEF PendingExact, Unfinished
<1>8. NoFreedWork'
  BY <1>0, <1>1, <1>2 DEF PoolInv, WorkCounted, NoFreedWork
<1>9. \A f \in Fibers \ Live' : f \in Fibers \ Live /\ f # n
  <2>1. Live' = 0 .. (n + 1) - 1 /\ Live = 0 .. n - 1 /\ n \in Nat
    BY <1>0, <1>1 DEF Live
  <2>. QED
    BY <2>1
<1>. QED
  BY <1>0, <1>1, <1>7, <1>8, <1>9 DEF PoolInv, WorkCounted

\* An item is freed only without callbacks and waiters.
LEMMA WorkClosed ==
    ASSUME IInv, PoolInv, NEW w \in Works, CloseThreadpoolWork(w)
    PROVE  PoolInv'
<1>0. NoWork \notin Works /\ w \in tp_live
  BY AddressAssumption DEF CloseThreadpoolWork
<1>1. /\ UNCHANGED <<fst, pool_work, tp_wait, tp_pending, g_nfiber>>
      /\ tp_live' = IF tp_pending[w] = 0 THEN tp_live \ {w} ELSE tp_live
      /\ \A f \in Live : fst[f] # "DONE" => tp_wait[f] # w
  BY DEF CloseThreadpoolWork, fiberVars, ctxVars, idVars, clockVars, localVars
<1>2. tp_pending[w] = 0 => Unfinished(w) = {}
  <2>1. tp_pending[w] = Cardinality(Unfinished(w))
    BY <1>0 DEF PoolInv, WorkCounted, PendingExact, Unfinished
  <2>. QED
    BY <2>1, UnfinishedFinite, FS_EmptySet
<1>3. PendingExact'
  BY <1>1 DEF PoolInv, WorkCounted, PendingExact
<1>4. NoFreedWork'
  BY <1>0, <1>1, <1>2 DEF PoolInv, WorkCounted, NoFreedWork, Unfinished
<1>5. Live' = Live
  BY <1>1 DEF Live
<1>. QED
  BY <1>1, <1>3, <1>4, <1>5 DEF PoolInv, WorkCounted


\* Every step keeps PoolInv.
LEMMA StepPoolInv ==
    ASSUME CallbacksReturn, IInv, PoolInv, [Next]_vars
    PROVE  PoolInv'
<1>0. /\ DoneKept /\ g_cur \in Fibers /\ g_cur \in Live
      /\ ctl = "run" => fst[g_cur] # "DONE"
      /\ pool_work \in [Fibers -> Works \cup {NoWork}]
      /\ tp_wait \in [Fibers -> Works \cup {NoWork}]
      /\ g_nfiber \in Nat
  BY StepDoneKept, CurFiber, TableAssumption
     DEF IInv, RunInv, OneRunning, TypeOK, FibersTypeOK, IdTypeOK, ClockTypeOK, LocalTypeOK
<1>1. CASE UNCHANGED vars
  BY <1>0, <1>1, PoolStay
     DEF vars, fiberVars, ctxVars, idVars, clockVars, localVars, tpVars, AliveKept, Live
<1>2. ASSUME Next, ~ThreadPoolStep, ~EndStep,
             ~\E s \in {"READY", "SUSPENDED"} : CreateThread(s)
      PROVE  PoolInv'
  BY <1>0, <1>2, PoolStay, OutsidePool, OthersLive DEF Live, tpVars
<1>3. ASSUME NEW s \in {"READY", "SUSPENDED"}, CreateThread(s)
      PROVE  PoolInv'
  <2>1. /\ UNCHANGED <<tpVars, tp_wait>>
        /\ \/ UNCHANGED <<fst, pool_work, g_nfiber>>
           \/ /\ fst' = [fst EXCEPT ![g_nfiber] = s] /\ g_nfiber' = g_nfiber + 1
              /\ pool_work' = [pool_work EXCEPT ![g_nfiber] = NoWork]
    BY <1>3 DEF CreateThread, Publish, ObjFrame, localVars
  <2>2. AliveKept
    BY <1>0, <2>1 DEF AliveKept, IInv, TypeOK, FibersTypeOK, CtxTypeOK
  <2>3. pool_work' = pool_work
    <3>1. g_nfiber \in Fibers => pool_work[g_nfiber] = NoWork
      BY <1>0 DEF PoolInv, Live
    <3>. QED
      BY <1>0, <2>1, <3>1
  <2>4. Live \subseteq Live'
    BY <1>0, <2>1 DEF Live
  <2>. QED
    BY <1>0, <2>1, <2>2, <2>3, <2>4, PoolStay DEF tpVars
<1>4. CASE StartFiber
  <2>1. ctl = "run" /\ UNCHANGED <<tp_live, pool_work, tp_wait, g_nfiber>>
    BY <1>4 DEF StartFiber, At, clockVars, localVars
  <2>2. CASE pool_work[g_cur] # NoWork /\ tp_cancelled[pool_work[g_cur]]
    <3>1. /\ tp_pending' = [tp_pending EXCEPT ![pool_work[g_cur]] = @ - 1]
          /\ fst' = [fst EXCEPT ![g_cur] = "DONE"]
      BY <1>4, <2>2 DEF StartFiber
    <3>2. pool_work[g_cur] \in Works
      BY <1>0, <2>2
    <3>. QED
      BY <1>0, <2>1, <3>1, <3>2, CallbackEnds
  <2>3. CASE ~(pool_work[g_cur] # NoWork /\ tp_cancelled[pool_work[g_cur]])
    <3>1. UNCHANGED <<fst, tpVars>>
      BY <1>4, <2>3 DEF StartFiber, Return, tpVars
    <3>. QED
      BY <1>0, <2>1, <3>1, PoolStay DEF AliveKept, Live, tpVars
  <2>. QED
    BY <2>2, <2>3
<1>5. ASSUME NEW code, ThreadReturn(code)
      PROVE  PoolInv'
  <2>1. /\ ctl = "run" /\ UNCHANGED <<tp_live, tp_cancelled, pool_work, tp_wait, g_nfiber>>
        /\ fst' = [fst EXCEPT ![g_cur] = "DONE"]
        /\ tp_pending' = IF pool_work[g_cur] = NoWork THEN tp_pending
                         ELSE [tp_pending EXCEPT ![pool_work[g_cur]] = @ - 1]
    BY <1>5 DEF ThreadReturn, Call, Prog, clockVars, localVars
  <2>2. CASE pool_work[g_cur] = NoWork
    BY <2>1, <2>2, ThreadEnds DEF tpVars
  <2>3. CASE pool_work[g_cur] # NoWork
    <3>1. pool_work[g_cur] \in Works
      BY <1>0, <2>3
    <3>. QED
      BY <1>0, <2>1, <2>3, <3>1, CallbackEnds
  <2>. QED
    BY <2>2, <2>3
<1>6. ASSUME NEW code, ExitThread(code) \/ \E f \in Fibers : TerminateThread(f, code)
      PROVE  PoolInv'
  BY <1>6 DEF ExitThread, TerminateThread, Call, CallbacksReturn
<1>7. CASE PoolLoop
  <2>1. /\ UNCHANGED <<tpVars, pool_work, g_nfiber>>
        /\ tp_wait' \in {tp_wait, [tp_wait EXCEPT ![g_cur] = NoWork]}
        /\ fst' \in {fst, [fst EXCEPT ![g_cur] = "READY"]}
    BY <1>7 DEF PoolLoop, ToSched, Return, At, idVars, clockVars
  <2>2. AliveKept
    BY <1>0, <2>1 DEF AliveKept, IInv, TypeOK, FibersTypeOK, CtxTypeOK
  <2>. QED
    BY <1>0, <2>1, <2>2, PoolStay DEF tpVars, Live
<1>8. ASSUME NEW w \in Works, NEW cancel, WaitForThreadpoolWorkCallbacks(w, cancel)
      PROVE  PoolInv'
  <2>1. /\ UNCHANGED <<fst, tp_live, tp_pending, pool_work, g_nfiber>> /\ w \in tp_live
        /\ tp_wait' = [tp_wait EXCEPT ![g_cur] = w]
    BY <1>8 DEF WaitForThreadpoolWorkCallbacks, idVars, clockVars
  <2>. QED
    BY <1>0, <2>1, PoolStay DEF AliveKept, Live
<1>9. ASSUME NEW w \in Works, SubmitThreadpoolWork(w)
      PROVE  PoolInv'
  <2>1. CASE g_nfiber < MaxFiber
    BY <1>9, <2>1, WorkSubmitted
  <2>2. CASE ~(g_nfiber < MaxFiber)
    <3>1. UNCHANGED <<fst, tpVars, pool_work, tp_wait, g_nfiber>>
      BY <1>0, <1>9, <2>2, TableAssumption DEF SubmitThreadpoolWork, tpVars, localVars
    <3>. QED
      BY <1>0, <3>1, PoolStay DEF AliveKept, Live, tpVars
  <2>. QED
    BY <2>1, <2>2
<1>. QED
  BY <1>1, <1>2, <1>3, <1>4, <1>5, <1>6, <1>7, <1>8, <1>9, WorkCreated, WorkClosed
     DEF ThreadPoolStep, EndStep


\* For every number of callbacks: pending counts exactly those that have not
\* finished, so a wait ends when it should and a close never frees an item that
\* the trampoline, or a waiter, still uses.
THEOREM PoolCounts == ASSUME CallbacksReturn PROVE Spec => []WorkCounted
<1>1. Init => PoolInv
  BY DEF Init, FibersInit, TablesInit, PoolInv, WorkCounted, PendingExact, NoFreedWork
<1>2. IInv /\ PoolInv /\ [Next]_vars => PoolInv'
  BY StepPoolInv
<1>3. PoolInv => WorkCounted
  BY DEF PoolInv
<1>. QED
  BY <1>1, <1>2, <1>3, Invariance, PTL DEF Spec

=============================================================================
