------------------------------ MODULE FiberProofs ------------------------------
(***************************************************************************)
(* Who has control: the parts RunInv and WaitInv of the inductive           *)
(* invariant, and that a finished fiber stays finished; then the last-error  *)
(* hand-over (ErrInv), the deadlines and the virtual clock (TimeInv), and    *)
(* the mutexes (MutexInv).  One lemma per group of actions, one step per     *)
(* action.  Last, the invariant as a whole and the theorems that follow.     *)
(***************************************************************************)
EXTENDS FiberTypes

\* The fiber table and who has control are left alone.
LEMMA RunStay ==
    ASSUME RunInv, UNCHANGED ctxVars, UNCHANGED clockVars
    PROVE  RunInv'
  BY DEF RunInv, OneRunning, Live, ctxVars, clockVars

\* The running fiber goes on at another label of its code.
LEMMA RunGoesOn ==
    ASSUME TypeOK, RunInv, UNCHANGED clockVars, ctl = "run", UNCHANGED <<ctl, fst>>,
           NEW l, pc' = [pc EXCEPT ![g_cur] = l]
    PROVE  RunInv'
<1>1. g_cur \in Fibers /\ g_cur \in Live /\ fst[g_cur] # "SUSPENDED"
  BY CurFiber DEF TypeOK, FibersTypeOK, ClockTypeOK, RunInv, OneRunning
<1>2. OneRunning'
  BY DEF RunInv, OneRunning, clockVars
<1>3. Live' = Live
  BY DEF Live, clockVars
<1>. QED
  BY <1>1, <1>2, <1>3 DEF RunInv, TypeOK, FibersTypeOK, CtxTypeOK

\* The running fiber gives control to the scheduler.
LEMMA RunParks ==
    ASSUME TypeOK, RunInv, UNCHANGED clockVars, ctl = "run", ctl' = "sched",
           NEW s \in {"READY", "BLOCKED", "DONE"}, fst' = [fst EXCEPT ![g_cur] = s],
           NEW l, pc' = [pc EXCEPT ![g_cur] = l]
    PROVE  RunInv'
<1>1. g_cur \in Fibers /\ g_cur \in Live
  BY CurFiber DEF TypeOK, FibersTypeOK, ClockTypeOK
<1>2. OneRunning'
  BY <1>1 DEF RunInv, OneRunning, clockVars, TypeOK, FibersTypeOK, CtxTypeOK
<1>3. Live' = Live
  BY DEF Live, clockVars
<1>. QED
  BY <1>1, <1>2, <1>3 DEF RunInv, TypeOK, FibersTypeOK, CtxTypeOK

\* A suspended or ready fiber is added at the end of the table.
LEMMA RunPublish ==
    ASSUME TypeOK, RunInv, ctl = "run", UNCHANGED <<ctl, pc, g_cur>>, g_nfiber < MaxFiber,
           NEW s \in {"READY", "SUSPENDED"}, NEW w, Publish(s, w)
    PROVE  RunInv'
<1>1. g_nfiber \in Fibers /\ g_nfiber \notin Live /\ g_cur \in Live
  BY TableAssumption DEF TypeOK, FibersTypeOK, ClockTypeOK, Fibers, Live
<1>2. Live' = Live \cup {g_nfiber}
  BY DEF TypeOK, FibersTypeOK, ClockTypeOK, Live, Publish
<1>3. OneRunning'
  BY <1>1 DEF RunInv, OneRunning, Publish, TypeOK, FibersTypeOK, CtxTypeOK
<1>. QED
  BY <1>1, <1>2, <1>3 DEF RunInv, Publish, TypeOK, FibersTypeOK, CtxTypeOK

\* An iteration of u32_sched_loop: keeps at most one fiber running.
LEMMA SchedRunInv == TypeOK /\ RunInv /\ SchedStep => RunInv'
<1> SUFFICES ASSUME TypeOK, RunInv, SchedStep PROVE RunInv'
  OBVIOUS
<1>0. g_cur \in Fibers /\ g_cur \in Live
  BY CurFiber DEF TypeOK, FibersTypeOK, ClockTypeOK
<1>1. CASE SchedDispatch
  <2>1. PICK k \in 1 .. g_nfiber :
            /\ Candidate(k) \in Ready
            /\ fst' = [f \in Fibers |-> IF f = Candidate(k) THEN "RUNNING"
                                        ELSE IF f \in Woken THEN "READY" ELSE fst[f]]
            /\ g_cur' = Candidate(k)
    BY <1>1 DEF SchedDispatch, Picked
  <2>2. Live' = Live /\ pc' = pc /\ ctl = "sched" /\ ctl' = "run"
    BY <1>1 DEF SchedDispatch, SchedFrame, Live
  <2>3. Candidate(k) \in Live /\ Candidate(k) \in Fibers
    BY <2>1, CandidateLive
  <2>4. OneRunning'
    BY <2>1, <2>2, <2>3 DEF RunInv, OneRunning
  <2>. QED
    BY <2>1, <2>2, <2>3, <2>4 DEF RunInv, Woken
<1>2. CASE SchedAdvance
  <2>1. Live' = Live /\ UNCHANGED <<pc, ctl, g_cur>> /\ ctl = "sched"
    BY <1>2 DEF SchedAdvance, SchedFrame, Live
  <2>2. \A f \in Fibers : \/ fst'[f] = fst[f]
                          \/ fst[f] = "BLOCKED" /\ fst'[f] = "READY" /\ f \in Live
    BY <1>2 DEF SchedAdvance, Timed
  <2>. QED
    BY <2>1, <2>2 DEF RunInv, OneRunning
<1>3. CASE SchedPoll
  BY <1>3, RunStay DEF SchedPoll, vars, fiberVars
<1>4. CASE SchedGiveUp
  BY <1>4 DEF SchedGiveUp, SchedFrame, RunInv, OneRunning, Live
<1>. QED
  BY <1>1, <1>2, <1>3, <1>4 DEF SchedStep

\* Sleep, the trampoline and the thread calls: keeps at most one fiber running.
LEMMA ThreadRunInv == TypeOK /\ RunInv /\ ThreadStep => RunInv'
<1> SUFFICES ASSUME TypeOK, RunInv, ThreadStep PROVE RunInv'
  OBVIOUS
<1>0. g_cur \in Fibers /\ g_cur \in Live
  BY CurFiber DEF TypeOK, FibersTypeOK, ClockTypeOK
<1>1. CASE SetLastError
  BY <1>1, RunStay DEF SetLastError, fiberVars
<1>2. CASE SleepYield
  BY <1>2, RunParks DEF SleepYield, Call, Prog, ToSched
<1>3. CASE ResumeYield
  BY <1>3, RunGoesOn DEF ResumeYield, At, Return
<1>4. CASE ResumeSleep
  BY <1>4, RunGoesOn, RunParks DEF ResumeSleep, At, Return, ToSched
<1>5. CASE StartFiber
  <2>1. pc = [pc EXCEPT ![g_cur] = pc[g_cur]]
    BY <1>0 DEF TypeOK, FibersTypeOK, CtxTypeOK
  <2>. QED
    BY <1>5, <2>1, RunParks, RunGoesOn DEF StartFiber, At, Return
<1>6. CASE ProcessExit
  BY <1>6
     DEF ProcessExit, Call, Prog, Call, Prog, At, RunInv, OneRunning, Live, clockVars
<1>7. CASE SuspendThread
  BY <1>7
     DEF SuspendThread, Call, Prog, Abort, Call, Prog, At, RunInv, OneRunning, Live,
         clockVars
<1>8. ASSUME NEW ms \in Delays \cup {Infinite}, Sleep(ms)
      PROVE  RunInv'
  BY <1>8, RunParks DEF Sleep, Call, Prog, ToSched
<1>9. ASSUME NEW s \in {"READY", "SUSPENDED"}, CreateThread(s)
      PROVE  RunInv'
  <2>1. CASE g_nfiber >= MaxFiber
    BY <1>9, <2>1, RunStay DEF CreateThread, ctxVars, clockVars
  <2>2. CASE g_nfiber < MaxFiber
    BY <1>9, <2>2, RunPublish, TableAssumption
       DEF CreateThread, Call, Prog, TypeOK, FibersTypeOK, ClockTypeOK
  <2>. QED
    BY <2>1, <2>2, TableAssumption DEF TypeOK, FibersTypeOK, ClockTypeOK
<1>10. ASSUME NEW code \in ExitCodes, ThreadReturn(code)
      PROVE  RunInv'
  <2>1. pc' = [pc EXCEPT ![g_cur] = pc[g_cur]]
    BY <1>10, <1>0 DEF ThreadReturn, TypeOK, FibersTypeOK, CtxTypeOK
  <2>. QED
    BY <1>10, <2>1, RunParks DEF ThreadReturn, Call, Prog
<1>11. ASSUME NEW code \in ExitCodes, ExitThread(code)
      PROVE  RunInv'
  <2>1. pc' = [pc EXCEPT ![g_cur] = pc[g_cur]]
    BY <1>11, <1>0 DEF ExitThread, TypeOK, FibersTypeOK, CtxTypeOK
  <2>. QED
    BY <1>11, <2>1, RunParks DEF ExitThread, Call, Prog
<1>12. ASSUME NEW f \in Fibers, NEW code \in ExitCodes, TerminateThread(f, code)
      PROVE  RunInv'
  <2>1. Live' = Live
    BY <1>12 DEF TerminateThread, Live, clockVars
  <2>2. OneRunning'
    BY <1>12
       DEF TerminateThread, RunInv, OneRunning, clockVars, TypeOK, FibersTypeOK,
           CtxTypeOK
  <2>. QED
    BY <1>12, <2>1, <2>2 DEF TerminateThread, RunInv, TypeOK, FibersTypeOK, CtxTypeOK
<1>13. ASSUME NEW f \in Fibers, ResumeThread(f)
      PROVE  RunInv'
  <2>1. Live' = Live
    BY <1>13 DEF ResumeThread, Live, clockVars
  <2>2. OneRunning'
    BY <1>13
       DEF ResumeThread, Call, Prog, RunInv, OneRunning, clockVars, TypeOK,
           FibersTypeOK, CtxTypeOK
  <2>. QED
    BY <1>13, <2>1, <2>2 DEF ResumeThread, RunInv, TypeOK, FibersTypeOK, CtxTypeOK
<1>. QED
  BY <1>1, <1>2, <1>3, <1>4, <1>5, <1>6, <1>7, <1>8, <1>9, <1>10, <1>11, <1>12, <1>13
     DEF ThreadStep

\* U32_wait and the calls on events, mutexes and semaphores: keeps at most one
\* fiber running.
LEMMA HandleRunInv == TypeOK /\ RunInv /\ HandleStep => RunInv'
<1> SUFFICES ASSUME TypeOK, RunInv, HandleStep PROVE RunInv'
  OBVIOUS
<1>0. g_cur \in Fibers /\ g_cur \in Live
  BY CurFiber DEF TypeOK, FibersTypeOK, ClockTypeOK
<1>1. ASSUME NEW hs \in WaitSets, NEW all \in BOOLEAN, WaitAtOnce(hs, all)
      PROVE  RunInv'
  BY <1>1, RunStay DEF WaitAtOnce, WaitFrame, fiberVars
<1>2. ASSUME NEW hs \in WaitSets, NEW all \in BOOLEAN, WaitPoll(hs, all)
      PROVE  RunInv'
  BY <1>2, RunStay DEF WaitPoll, WaitFrame, fiberVars
<1>3. ASSUME NEW hs \in WaitSets, NEW all \in BOOLEAN, NEW ms \in Delays \cup {Infinite},
             WaitBlock(hs, all, ms)
      PROVE  RunInv'
  BY <1>3, RunParks DEF WaitBlock, Call, Prog, ToSched, WaitFrame
<1>4. CASE ResumeWait
  BY <1>4, RunGoesOn, RunParks DEF ResumeWait, At, Return, ToSched, WaitFrame
<1>5. ASSUME NEW a \in BOOLEAN, NEW b \in BOOLEAN, NEW n \in Names \cup {NoName},
             CreateEvent(a, b, n)
      PROVE  RunInv'
  BY <1>5, RunStay DEF CreateEvent, fiberVars
<1>6. ASSUME NEW e \in Events, SetEvent(e)
      PROVE  RunInv'
  BY <1>6, RunStay DEF SetEvent, EvFrame, fiberVars
<1>7. ASSUME NEW e \in Events, ResetEvent(e)
      PROVE  RunInv'
  BY <1>7, RunStay DEF ResetEvent, EvFrame, fiberVars
<1>8. ASSUME NEW e \in Events, NetReady(e)
      PROVE  RunInv'
  BY <1>8, RunStay DEF NetReady, EvFrame, fiberVars
<1>9. ASSUME NEW e \in Events, NEW used \in BOOLEAN, WSAEventSelect(e, used)
      PROVE  RunInv'
  BY <1>9, RunStay DEF WSAEventSelect, EvFrame, fiberVars
<1>10. ASSUME NEW b \in BOOLEAN, NEW n \in Names \cup {NoName}, CreateMutex(b, n)
      PROVE  RunInv'
  BY <1>10, RunStay DEF CreateMutex, fiberVars
<1>11. ASSUME NEW m \in Mutexes, ReleaseMutex(m)
      PROVE  RunInv'
  BY <1>11, RunStay DEF ReleaseMutex, fiberVars
<1>12. ASSUME NEW i \in 0 .. SemMax, NEW x \in 1 .. SemMax,
              NEW n \in Names \cup {NoName}, CreateSemaphore(i, x, n)
      PROVE  RunInv'
  BY <1>12, RunStay DEF CreateSemaphore, fiberVars
<1>13. ASSUME NEW s \in Sems, NEW rel \in RelCounts, ReleaseSemaphore(s, rel)
      PROVE  RunInv'
  BY <1>13, RunStay DEF ReleaseSemaphore, fiberVars
<1>14. ASSUME NEW n \in Names, OpenMissing(n)
      PROVE  RunInv'
  BY <1>14, RunStay DEF OpenMissing, fiberVars
<1>. QED
  BY <1>1, <1>2, <1>3, <1>4, <1>5, <1>6, <1>7, <1>8, <1>9, <1>10, <1>11, <1>12, <1>13,
     <1>14
     DEF HandleStep

\* The calls on critical sections, SRW locks and condition variables: keeps at
\* most one fiber running.
LEMMA UserLockRunInv == TypeOK /\ RunInv /\ UserLockStep => RunInv'
<1> SUFFICES ASSUME TypeOK, RunInv, UserLockStep PROVE RunInv'
  OBVIOUS
<1>0. g_cur \in Fibers /\ g_cur \in Live
  BY CurFiber DEF TypeOK, FibersTypeOK, ClockTypeOK
<1>1. CASE ResumeCs
  BY <1>1, RunGoesOn, RunParks DEF ResumeCs, At, Return, ToSched, CsFrame
<1>2. CASE ResumeSrw
  BY <1>2, RunGoesOn, RunParks DEF ResumeSrw, At, Return, ToSched, SrwFrame
<1>3. CASE ResumeCv
  BY <1>3, RunGoesOn, RunParks DEF ResumeCv, At, CvLeave, ToSched, Fail
<1>4. CASE Relock
  BY <1>4, RunGoesOn, RunParks DEF Relock, At, Return, ToSched
<1>5. ASSUME NEW x \in CSs \cup SRWs \cup CVs, Initialize(x)
      PROVE  RunInv'
  BY <1>5, RunStay DEF Initialize, fiberVars
<1>6. ASSUME NEW x \in CSs \cup SRWs \cup CVs, RegisterFull(x)
      PROVE  RunInv'
  BY <1>6 DEF RegisterFull, Abort, Call, Prog, At, RunInv, OneRunning, Live, clockVars
<1>7. ASSUME NEW c \in CSs, EnterNow(c)
      PROVE  RunInv'
  BY <1>7, RunStay DEF EnterNow, CsFrame, fiberVars
<1>8. ASSUME NEW c \in CSs, EnterBlock(c)
      PROVE  RunInv'
  BY <1>8, RunParks DEF EnterBlock, Call, Prog, ToSched, CsFrame
<1>9. ASSUME NEW c \in CSs, LeaveCriticalSection(c)
      PROVE  RunInv'
  BY <1>9, RunStay DEF LeaveCriticalSection, CsFrame, fiberVars
<1>10. ASSUME NEW c \in CSs, DeleteCriticalSection(c)
      PROVE  RunInv'
  BY <1>10, RunStay DEF DeleteCriticalSection, CsFrame, fiberVars
<1>11. ASSUME NEW l \in SRWs, NEW excl \in BOOLEAN, SrwAcquireNow(l, excl)
      PROVE  RunInv'
  BY <1>11, RunStay DEF SrwAcquireNow, SrwFrame, fiberVars
<1>12. ASSUME NEW l \in SRWs, NEW excl \in BOOLEAN, SrwAcquireBlock(l, excl)
      PROVE  RunInv'
  BY <1>12, RunParks DEF SrwAcquireBlock, Call, Prog, ToSched, SrwFrame
<1>13. ASSUME NEW l \in SRWs, NEW excl \in BOOLEAN, ReleaseSRWLock(l, excl)
      PROVE  RunInv'
  BY <1>13, RunStay DEF ReleaseSRWLock, SrwFrame, fiberVars
<1>14. ASSUME NEW v \in CVs, WakeConditionVariable(v)
      PROVE  RunInv'
  BY <1>14, RunStay DEF WakeConditionVariable, WakeFrame, fiberVars
<1>15. ASSUME NEW v \in CVs, WakeAllConditionVariable(v)
      PROVE  RunInv'
  BY <1>15, RunStay DEF WakeAllConditionVariable, WakeFrame, fiberVars
<1>16. ASSUME NEW v \in CVs, NEW l \in Locks, NEW shared \in BOOLEAN,
              NEW ms \in Delays \cup {0, Infinite},
              SleepConditionVariable(v, l, shared, ms)
      PROVE  RunInv'
  BY <1>16, RunGoesOn, RunParks DEF SleepConditionVariable, Call, Prog, ToSched, Fail
<1>. QED
  BY <1>1, <1>2, <1>3, <1>4, <1>5, <1>6, <1>7, <1>8, <1>9, <1>10, <1>11, <1>12, <1>13,
     <1>14, <1>15, <1>16
     DEF UserLockStep

\* The thread-pool work calls: keeps at most one fiber running.
LEMMA ThreadPoolRunInv == TypeOK /\ RunInv /\ ThreadPoolStep => RunInv'
<1> SUFFICES ASSUME TypeOK, RunInv, ThreadPoolStep PROVE RunInv'
  OBVIOUS
<1>0. g_cur \in Fibers /\ g_cur \in Live
  BY CurFiber DEF TypeOK, FibersTypeOK, ClockTypeOK
<1>1. CASE PoolLoop
  BY <1>1, RunGoesOn, RunParks DEF PoolLoop, At, Return, ToSched, TpFrame
<1>2. ASSUME NEW w \in Works, CreateThreadpoolWork(w)
      PROVE  RunInv'
  BY <1>2, RunStay DEF CreateThreadpoolWork, fiberVars
<1>3. ASSUME NEW w \in Works, SubmitThreadpoolWork(w)
      PROVE  RunInv'
  <2>1. CASE g_nfiber >= MaxFiber
    BY <1>3, <2>1 DEF SubmitThreadpoolWork, Call, Prog, RunInv, OneRunning, Live
  <2>2. CASE g_nfiber < MaxFiber
    BY <1>3, <2>2, RunPublish, TableAssumption
       DEF SubmitThreadpoolWork, Call, Prog, TypeOK, FibersTypeOK, ClockTypeOK
  <2>. QED
    BY <2>1, <2>2, TableAssumption DEF TypeOK, FibersTypeOK, ClockTypeOK
<1>4. ASSUME NEW w \in Works, CloseThreadpoolWork(w)
      PROVE  RunInv'
  BY <1>4, RunStay DEF CloseThreadpoolWork, fiberVars
<1>5. ASSUME NEW w \in Works, NEW cancel \in BOOLEAN,
             WaitForThreadpoolWorkCallbacks(w, cancel)
      PROVE  RunInv'
  BY <1>5, RunGoesOn, RunParks DEF WaitForThreadpoolWorkCallbacks, Call, Prog
<1>. QED
  BY <1>1, <1>2, <1>3, <1>4, <1>5 DEF ThreadPoolStep

-----------------------------------------------------------------------------
(* Wait fields.                                                             *)

\* Every field FieldsMatch reads is the same for f after the step.
SameFields(f) ==
    /\ pc'[f] = pc[f] /\ fst'[f] = fst[f] /\ has_timeout'[f] = has_timeout[f]
    /\ wait_h'[f] = wait_h[f] /\ wait_cs'[f] = wait_cs[f] /\ wait_srw'[f] = wait_srw[f]
    /\ wait_cv'[f] = wait_cv[f] /\ cv_lock'[f] = cv_lock[f]

\* A step that moves no context and sets no wait field: what it may do is
\* change the state of a fiber that is not in a re-acquisition.
LEMMA WaitStay ==
    ASSUME WaitInv, UNCHANGED <<pc, waitVars, has_timeout, localVars>>,
           \A f \in Fibers : fst'[f] \in {"BLOCKED", "READY"} =>
                fst[f] \in {"BLOCKED", "READY"} \/ pc[f] # "relock"
    PROVE  WaitInv'
  BY DEF WaitInv, FieldsMatch, waitVars, localVars

\* A step of the running fiber leaves the fields of the others alone.
LEMMA WaitOne ==
    ASSUME WaitInv, NEW me \in Fibers, \A f \in Fibers : f # me => SameFields(f),
           FieldsMatch(me)'
    PROVE  WaitInv'
<1>1. ASSUME NEW f \in Fibers, f # me
      PROVE  FieldsMatch(f)'
  BY <1>1 DEF WaitInv, FieldsMatch, SameFields
<1>. QED
  BY <1>1 DEF WaitInv

\* u32_wait never parks a fiber on an empty array.
LEMMA ClippedNonEmpty == \A hs \in WaitSets : Clipped(hs) # <<>>
<1> SUFFICES ASSUME NEW hs \in WaitSets PROVE Clipped(hs) # <<>>
  OBVIOUS
<1>1. hs \in Seq(Handles) /\ Len(hs) > 0
  BY WaitAssumption
<1>2. Len(Clipped(hs)) > 0
  BY <1>1, TableAssumption DEF Clipped
<1>. QED
  BY <1>2

\* No lock lives at NULL.
LEMMA LocksAddr == NoAddr \notin Locks
  BY AddressAssumption DEF Locks

\* An iteration of u32_sched_loop: leaves each fiber with the wait fields of
\* the loop it is in.
LEMMA SchedWaitInv == TypeOK /\ RunInv /\ WaitInv /\ SchedStep => WaitInv'
<1> SUFFICES ASSUME TypeOK, RunInv, WaitInv, SchedStep PROVE WaitInv'
  OBVIOUS
<1>0. PICK me \in Fibers : /\ me = g_cur /\ FieldsMatch(me)
                           /\ ctl = "run" => fst[me] \notin {"BLOCKED", "READY"}
  BY CurFiber DEF WaitInv, RunInv, OneRunning
<1>1. CASE SchedDispatch
  <2>1. \A f \in Fibers : fst'[f] \in {"BLOCKED", "READY"} => fst[f] \in {"BLOCKED", "READY"}
    BY <1>1 DEF SchedDispatch, Picked, Ready, Woken, Timed
  <2>. QED
    BY <1>1, <2>1, WaitStay DEF SchedDispatch, SchedFrame
<1>2. CASE SchedAdvance
  <2>1. \A f \in Fibers : fst'[f] \in {"BLOCKED", "READY"} => fst[f] \in {"BLOCKED", "READY"}
    BY <1>2 DEF SchedAdvance, Picked, Ready, Woken, Timed
  <2>. QED
    BY <1>2, <2>1, WaitStay DEF SchedAdvance, SchedFrame
<1>3. CASE SchedPoll
  BY <1>3, WaitStay DEF SchedPoll, vars, fiberVars, ctxVars, timeVars
<1>4. CASE SchedGiveUp
  <2>1. \A f \in Fibers : fst'[f] \in {"BLOCKED", "READY"} => fst[f] \in {"BLOCKED", "READY"}
    BY <1>4 DEF SchedGiveUp, Picked, Ready, Woken, Timed
  <2>. QED
    BY <1>4, <2>1, WaitStay DEF SchedGiveUp, SchedFrame
<1>. QED
  BY <1>1, <1>2, <1>3, <1>4 DEF SchedStep

\* Sleep, the trampoline and the thread calls: leaves each fiber with the wait
\* fields of the loop it is in.
LEMMA ThreadWaitInv == TypeOK /\ RunInv /\ WaitInv /\ ThreadStep => WaitInv'
<1> SUFFICES ASSUME TypeOK, RunInv, WaitInv, ThreadStep PROVE WaitInv'
  OBVIOUS
<1>0. PICK me \in Fibers : /\ me = g_cur /\ FieldsMatch(me)
                           /\ ctl = "run" => fst[me] \notin {"BLOCKED", "READY"}
  BY CurFiber DEF WaitInv, RunInv, OneRunning
<1>1. CASE SetLastError
  BY <1>1, WaitStay DEF SetLastError, fiberVars, ctxVars, waitVars, timeVars
<1>2. CASE SleepYield
  <2>1. \A f \in Fibers : f # me => SameFields(f)
    BY <1>2, <1>0
       DEF SleepYield, Call, Prog, ToSched, SameFields, waitVars, timeVars, localVars,
           TypeOK, FibersTypeOK, CtxTypeOK, WaitTypeOK, TimeTypeOK, LocalTypeOK
  <2>2. FieldsMatch(me)'
    BY <1>2, <1>0
       DEF SleepYield, Call, Prog, ToSched, FieldsMatch, clockVars, waitVars, timeVars,
           localVars, TypeOK, FibersTypeOK, CtxTypeOK, WaitTypeOK, TimeTypeOK,
           LocalTypeOK
  <2>. QED
    BY <2>1, <2>2, WaitOne
<1>3. CASE ResumeYield
  <2>1. \A f \in Fibers : f # me => SameFields(f)
    BY <1>3, <1>0
       DEF ResumeYield, At, Return, SameFields, waitVars, timeVars, localVars, TypeOK,
           FibersTypeOK, CtxTypeOK, WaitTypeOK, TimeTypeOK, LocalTypeOK
  <2>2. FieldsMatch(me)'
    BY <1>3, <1>0
       DEF ResumeYield, At, Return, FieldsMatch, clockVars, waitVars, timeVars,
           localVars, TypeOK, FibersTypeOK, CtxTypeOK, WaitTypeOK, TimeTypeOK,
           LocalTypeOK
  <2>. QED
    BY <2>1, <2>2, WaitOne
<1>4. CASE ResumeSleep
  <2>1. \A f \in Fibers : f # me => SameFields(f)
    BY <1>4, <1>0
       DEF ResumeSleep, At, Return, ToSched, SameFields, waitVars, timeVars, localVars,
           TypeOK, FibersTypeOK, CtxTypeOK, WaitTypeOK, TimeTypeOK, LocalTypeOK
  <2>2. FieldsMatch(me)'
    BY <1>4, <1>0
       DEF ResumeSleep, At, Return, ToSched, FieldsMatch, clockVars, waitVars,
           timeVars, localVars, TypeOK, FibersTypeOK, CtxTypeOK, WaitTypeOK,
           TimeTypeOK, LocalTypeOK
  <2>. QED
    BY <2>1, <2>2, WaitOne
<1>5. CASE StartFiber
  <2>1. \A f \in Fibers : f # me => SameFields(f)
    BY <1>5, <1>0
       DEF StartFiber, At, Return, SameFields, waitVars, timeVars, localVars, TypeOK,
           FibersTypeOK, CtxTypeOK, WaitTypeOK, TimeTypeOK, LocalTypeOK
  <2>2. FieldsMatch(me)'
    BY <1>5, <1>0
       DEF StartFiber, At, Return, FieldsMatch, clockVars, waitVars, timeVars,
           localVars, TypeOK, FibersTypeOK, CtxTypeOK, WaitTypeOK, TimeTypeOK,
           LocalTypeOK
  <2>. QED
    BY <2>1, <2>2, WaitOne
<1>6. CASE ProcessExit
  BY <1>6, WaitStay DEF ProcessExit, timeVars, RunInv, TypeOK, FibersTypeOK, CtxTypeOK
<1>7. CASE SuspendThread
  BY <1>7, WaitStay
     DEF SuspendThread, Abort, timeVars, RunInv, TypeOK, FibersTypeOK, CtxTypeOK
<1>8. ASSUME NEW ms \in Delays \cup {Infinite}, Sleep(ms)
      PROVE  WaitInv'
  <2>1. \A f \in Fibers : f # me => SameFields(f)
    BY <1>8, <1>0
       DEF Sleep, Call, Prog, ToSched, SameFields, waitVars, timeVars, localVars,
           TypeOK, FibersTypeOK, CtxTypeOK, WaitTypeOK, TimeTypeOK, LocalTypeOK
  <2>2. FieldsMatch(me)'
    BY <1>8, <1>0
       DEF Sleep, Call, Prog, ToSched, FieldsMatch, clockVars, waitVars, timeVars,
           localVars, TypeOK, FibersTypeOK, CtxTypeOK, WaitTypeOK, TimeTypeOK,
           LocalTypeOK
  <2>. QED
    BY <2>1, <2>2, WaitOne
<1>9. ASSUME NEW s \in {"READY", "SUSPENDED"}, CreateThread(s)
      PROVE  WaitInv'
  <2>1. \A f \in Fibers : fst'[f] = fst[f] \/ pc[f] = "new"
    <3>1. CASE g_nfiber >= MaxFiber
      BY <1>9, <3>1 DEF CreateThread
    <3>2. CASE g_nfiber < MaxFiber
      <4>1. g_nfiber \in Fibers /\ g_nfiber \notin Live
        BY <3>2, TableAssumption DEF TypeOK, FibersTypeOK, ClockTypeOK, Fibers, Live
      <4>. QED
        BY <1>9, <3>2, <4>1, TableAssumption
           DEF CreateThread, Publish, RunInv, TypeOK, FibersTypeOK, ClockTypeOK,
               CtxTypeOK
    <3>. QED
      BY <3>1, <3>2, TableAssumption DEF TypeOK, FibersTypeOK, ClockTypeOK
  <2>. QED
    BY <1>9, <2>1, WaitStay DEF CreateThread, timeVars
<1>10. ASSUME NEW code \in ExitCodes, ThreadReturn(code)
      PROVE  WaitInv'
  BY <1>10, WaitStay DEF ThreadReturn, timeVars, RunInv, TypeOK, FibersTypeOK, CtxTypeOK
<1>11. ASSUME NEW code \in ExitCodes, ExitThread(code)
      PROVE  WaitInv'
  BY <1>11, WaitStay DEF ExitThread, timeVars, RunInv, TypeOK, FibersTypeOK, CtxTypeOK
<1>12. ASSUME NEW f \in Fibers, NEW code \in ExitCodes, TerminateThread(f, code)
      PROVE  WaitInv'
  BY <1>12, WaitStay
     DEF TerminateThread, timeVars, RunInv, TypeOK, FibersTypeOK, CtxTypeOK
<1>13. ASSUME NEW f \in Fibers, ResumeThread(f)
      PROVE  WaitInv'
  BY <1>13, WaitStay DEF ResumeThread, timeVars, RunInv, TypeOK, FibersTypeOK, CtxTypeOK
<1>. QED
  BY <1>1, <1>2, <1>3, <1>4, <1>5, <1>6, <1>7, <1>8, <1>9, <1>10, <1>11, <1>12, <1>13
     DEF ThreadStep

\* U32_wait and the calls on events, mutexes and semaphores: leaves each fiber
\* with the wait fields of the loop it is in.
LEMMA HandleWaitInv == TypeOK /\ RunInv /\ WaitInv /\ HandleStep => WaitInv'
<1> SUFFICES ASSUME TypeOK, RunInv, WaitInv, HandleStep PROVE WaitInv'
  OBVIOUS
<1>0. PICK me \in Fibers : /\ me = g_cur /\ FieldsMatch(me)
                           /\ ctl = "run" => fst[me] \notin {"BLOCKED", "READY"}
  BY CurFiber DEF WaitInv, RunInv, OneRunning
<1>1. ASSUME NEW hs \in WaitSets, NEW all \in BOOLEAN, WaitAtOnce(hs, all)
      PROVE  WaitInv'
  <2>1. \A f \in Fibers : f # me => SameFields(f)
    BY <1>1, <1>0
       DEF WaitAtOnce, Call, Prog, WaitFrame, ctxVars, SameFields, waitVars, timeVars,
           localVars, TypeOK, FibersTypeOK, CtxTypeOK, WaitTypeOK, TimeTypeOK,
           LocalTypeOK
  <2>2. FieldsMatch(me)'
    BY <1>1, <1>0
       DEF WaitAtOnce, Call, Prog, WaitFrame, ctxVars, FieldsMatch, clockVars,
           waitVars, timeVars, localVars, TypeOK, FibersTypeOK, CtxTypeOK, WaitTypeOK,
           TimeTypeOK, LocalTypeOK
  <2>. QED
    BY <2>1, <2>2, WaitOne
<1>2. ASSUME NEW hs \in WaitSets, NEW all \in BOOLEAN, WaitPoll(hs, all)
      PROVE  WaitInv'
  <2>1. \A f \in Fibers : f # me => SameFields(f)
    BY <1>2, <1>0
       DEF WaitPoll, Call, Prog, WaitFrame, ctxVars, SameFields, waitVars, timeVars,
           localVars, TypeOK, FibersTypeOK, CtxTypeOK, WaitTypeOK, TimeTypeOK,
           LocalTypeOK
  <2>2. FieldsMatch(me)'
    BY <1>2, <1>0
       DEF WaitPoll, Call, Prog, WaitFrame, ctxVars, FieldsMatch, clockVars, waitVars,
           timeVars, localVars, TypeOK, FibersTypeOK, CtxTypeOK, WaitTypeOK,
           TimeTypeOK, LocalTypeOK
  <2>. QED
    BY <2>1, <2>2, WaitOne
<1>3. ASSUME NEW hs \in WaitSets, NEW all \in BOOLEAN, NEW ms \in Delays \cup {Infinite},
             WaitBlock(hs, all, ms)
      PROVE  WaitInv'
  <2>1. \A f \in Fibers : f # me => SameFields(f)
    BY <1>3, <1>0
       DEF WaitBlock, Call, Prog, ToSched, WaitFrame, SameFields, waitVars, timeVars,
           localVars, TypeOK, FibersTypeOK, CtxTypeOK, WaitTypeOK, TimeTypeOK,
           LocalTypeOK
  <2>2. FieldsMatch(me)'
    BY <1>3, <1>0, ClippedNonEmpty
       DEF WaitBlock, Call, Prog, ToSched, WaitFrame, FieldsMatch, clockVars, waitVars,
           timeVars, localVars, TypeOK, FibersTypeOK, CtxTypeOK, WaitTypeOK,
           TimeTypeOK, LocalTypeOK
  <2>. QED
    BY <2>1, <2>2, WaitOne
<1>4. CASE ResumeWait
  <2>1. \A f \in Fibers : f # me => SameFields(f)
    BY <1>4, <1>0
       DEF ResumeWait, At, Return, ToSched, WaitFrame, SameFields, waitVars, timeVars,
           localVars, TypeOK, FibersTypeOK, CtxTypeOK, WaitTypeOK, TimeTypeOK,
           LocalTypeOK
  <2>2. FieldsMatch(me)'
    BY <1>4, <1>0
       DEF ResumeWait, At, Return, ToSched, WaitFrame, FieldsMatch, clockVars,
           waitVars, timeVars, localVars, TypeOK, FibersTypeOK, CtxTypeOK, WaitTypeOK,
           TimeTypeOK, LocalTypeOK
  <2>. QED
    BY <2>1, <2>2, WaitOne
<1>5. ASSUME NEW a \in BOOLEAN, NEW b \in BOOLEAN, NEW n \in Names \cup {NoName},
             CreateEvent(a, b, n)
      PROVE  WaitInv'
  BY <1>5, WaitStay DEF CreateEvent, fiberVars, ctxVars, waitVars, timeVars
<1>6. ASSUME NEW e \in Events, SetEvent(e)
      PROVE  WaitInv'
  BY <1>6, WaitStay DEF SetEvent, EvFrame, fiberVars, ctxVars, waitVars, timeVars
<1>7. ASSUME NEW e \in Events, ResetEvent(e)
      PROVE  WaitInv'
  BY <1>7, WaitStay DEF ResetEvent, EvFrame, fiberVars, ctxVars, waitVars, timeVars
<1>8. ASSUME NEW e \in Events, NetReady(e)
      PROVE  WaitInv'
  BY <1>8, WaitStay DEF NetReady, EvFrame, fiberVars, ctxVars, waitVars, timeVars
<1>9. ASSUME NEW e \in Events, NEW used \in BOOLEAN, WSAEventSelect(e, used)
      PROVE  WaitInv'
  BY <1>9, WaitStay DEF WSAEventSelect, EvFrame, fiberVars, ctxVars, waitVars, timeVars
<1>10. ASSUME NEW b \in BOOLEAN, NEW n \in Names \cup {NoName}, CreateMutex(b, n)
      PROVE  WaitInv'
  BY <1>10, WaitStay DEF CreateMutex, fiberVars, ctxVars, waitVars, timeVars
<1>11. ASSUME NEW m \in Mutexes, ReleaseMutex(m)
      PROVE  WaitInv'
  BY <1>11, WaitStay DEF ReleaseMutex, fiberVars, ctxVars, waitVars, timeVars
<1>12. ASSUME NEW i \in 0 .. SemMax, NEW x \in 1 .. SemMax,
              NEW n \in Names \cup {NoName}, CreateSemaphore(i, x, n)
      PROVE  WaitInv'
  BY <1>12, WaitStay DEF CreateSemaphore, fiberVars, ctxVars, waitVars, timeVars
<1>13. ASSUME NEW s \in Sems, NEW rel \in RelCounts, ReleaseSemaphore(s, rel)
      PROVE  WaitInv'
  BY <1>13, WaitStay DEF ReleaseSemaphore, fiberVars, ctxVars, waitVars, timeVars
<1>14. ASSUME NEW n \in Names, OpenMissing(n)
      PROVE  WaitInv'
  BY <1>14, WaitStay DEF OpenMissing, fiberVars, ctxVars, waitVars, timeVars
<1>. QED
  BY <1>1, <1>2, <1>3, <1>4, <1>5, <1>6, <1>7, <1>8, <1>9, <1>10, <1>11, <1>12, <1>13,
     <1>14
     DEF HandleStep

\* The calls on critical sections, SRW locks and condition variables: leaves
\* each fiber with the wait fields of the loop it is in.
LEMMA UserLockWaitInv == TypeOK /\ RunInv /\ WaitInv /\ UserLockStep => WaitInv'
<1> SUFFICES ASSUME TypeOK, RunInv, WaitInv, UserLockStep PROVE WaitInv'
  OBVIOUS
<1>0. PICK me \in Fibers : /\ me = g_cur /\ FieldsMatch(me)
                           /\ ctl = "run" => fst[me] \notin {"BLOCKED", "READY"}
  BY CurFiber DEF WaitInv, RunInv, OneRunning
<1>1. CASE ResumeCs
  <2>1. \A f \in Fibers : f # me => SameFields(f)
    BY <1>1, <1>0
       DEF ResumeCs, At, Return, ToSched, CsFrame, SameFields, waitVars, timeVars,
           localVars, TypeOK, FibersTypeOK, CtxTypeOK, WaitTypeOK, TimeTypeOK,
           LocalTypeOK
  <2>2. FieldsMatch(me)'
    BY <1>1, <1>0
       DEF ResumeCs, At, Return, ToSched, CsFrame, FieldsMatch, clockVars, waitVars,
           timeVars, localVars, TypeOK, FibersTypeOK, CtxTypeOK, WaitTypeOK,
           TimeTypeOK, LocalTypeOK
  <2>. QED
    BY <2>1, <2>2, WaitOne
<1>2. CASE ResumeSrw
  <2>1. \A f \in Fibers : f # me => SameFields(f)
    BY <1>2, <1>0
       DEF ResumeSrw, At, Return, ToSched, SrwFrame, SameFields, waitVars, timeVars,
           localVars, TypeOK, FibersTypeOK, CtxTypeOK, WaitTypeOK, TimeTypeOK,
           LocalTypeOK
  <2>2. FieldsMatch(me)'
    BY <1>2, <1>0
       DEF ResumeSrw, At, Return, ToSched, SrwFrame, FieldsMatch, clockVars, waitVars,
           timeVars, localVars, TypeOK, FibersTypeOK, CtxTypeOK, WaitTypeOK,
           TimeTypeOK, LocalTypeOK
  <2>. QED
    BY <2>1, <2>2, WaitOne
<1>3. CASE ResumeCv
  <2>1. \A f \in Fibers : f # me => SameFields(f)
    BY <1>3, <1>0
       DEF ResumeCv, At, CvLeave, ToSched, Fail, SameFields, waitVars, timeVars,
           localVars, TypeOK, FibersTypeOK, CtxTypeOK, WaitTypeOK, TimeTypeOK,
           LocalTypeOK
  <2>2. FieldsMatch(me)'
    BY <1>3, <1>0
       DEF ResumeCv, At, CvLeave, ToSched, Fail, FieldsMatch, clockVars, waitVars,
           timeVars, localVars, TypeOK, FibersTypeOK, CtxTypeOK, WaitTypeOK,
           TimeTypeOK, LocalTypeOK
  <2>. QED
    BY <2>1, <2>2, WaitOne
<1>4. CASE Relock
  <2>1. \A f \in Fibers : f # me => SameFields(f)
    BY <1>4, <1>0
       DEF Relock, At, Return, ToSched, SameFields, waitVars, timeVars, localVars,
           TypeOK, FibersTypeOK, CtxTypeOK, WaitTypeOK, TimeTypeOK, LocalTypeOK
  <2>3. /\ wait_cs[me] \in CSs => wait_srw[me] = NoAddr /\ cv_lock[me] \in CSs
        /\ wait_srw[me] \in SRWs => wait_cs[me] = NoAddr /\ cv_lock[me] \in SRWs
        /\ cv_lock[me] \in CSs => wait_srw[me] = NoAddr
        /\ cv_lock[me] \in SRWs => wait_cs[me] = NoAddr
    BY <1>4, <1>0, AddressAssumption
       DEF Relock, At, FieldsMatch, TypeOK, FibersTypeOK, WaitTypeOK, LocalTypeOK, Locks
  <2>4. /\ UNCHANGED <<wait_cv, wait_h, has_timeout>>
        /\ pc[me] = "relock" /\ wait_cv[me] = NoAddr /\ wait_h[me] = <<>> /\ ~has_timeout[me]
    BY <1>4, <1>0
       DEF Relock, At, timeVars, FieldsMatch, TypeOK, FibersTypeOK, TimeTypeOK
  <2>2. FieldsMatch(me)'
    <3>1. CASE /\ pc'[me] = "prog" /\ cv_lock'[me] = NoAddr
               /\ wait_cs'[me] = NoAddr /\ wait_srw'[me] = NoAddr
      BY <2>4, <3>1 DEF FieldsMatch
    <3>2. CASE /\ pc'[me] = "relock" /\ cv_lock'[me] # NoAddr
               /\ \/ wait_cs'[me] = cv_lock'[me] /\ wait_srw'[me] = NoAddr
                  \/ wait_srw'[me] = cv_lock'[me] /\ wait_cs'[me] = NoAddr
      BY <2>4, <3>2 DEF FieldsMatch
    <3>. QED
      BY <1>4, <1>0, <2>3, <3>1, <3>2, AddressAssumption
         DEF Relock, At, Return, ToSched, TypeOK, FibersTypeOK, CtxTypeOK, WaitTypeOK,
             LocalTypeOK
  <2>. QED
    BY <2>1, <2>2, WaitOne
<1>5. ASSUME NEW x \in CSs \cup SRWs \cup CVs, Initialize(x)
      PROVE  WaitInv'
  BY <1>5, WaitStay DEF Initialize, fiberVars, ctxVars, waitVars, timeVars
<1>6. ASSUME NEW x \in CSs \cup SRWs \cup CVs, RegisterFull(x)
      PROVE  WaitInv'
  BY <1>6, WaitStay
     DEF RegisterFull, Abort, timeVars, RunInv, TypeOK, FibersTypeOK, CtxTypeOK
<1>7. ASSUME NEW c \in CSs, EnterNow(c)
      PROVE  WaitInv'
  BY <1>7, WaitStay DEF EnterNow, CsFrame, fiberVars, ctxVars, waitVars, timeVars
<1>8. ASSUME NEW c \in CSs, EnterBlock(c)
      PROVE  WaitInv'
  <2>1. \A f \in Fibers : f # me => SameFields(f)
    BY <1>8, <1>0
       DEF EnterBlock, Call, Prog, ToSched, CsFrame, SameFields, waitVars, timeVars,
           localVars, TypeOK, FibersTypeOK, CtxTypeOK, WaitTypeOK, TimeTypeOK,
           LocalTypeOK
  <2>2. FieldsMatch(me)'
    BY <1>8, <1>0, AddressAssumption
       DEF EnterBlock, Call, Prog, ToSched, CsFrame, FieldsMatch, clockVars, waitVars,
           timeVars, localVars, TypeOK, FibersTypeOK, CtxTypeOK, WaitTypeOK,
           TimeTypeOK, LocalTypeOK
  <2>. QED
    BY <2>1, <2>2, WaitOne
<1>9. ASSUME NEW c \in CSs, LeaveCriticalSection(c)
      PROVE  WaitInv'
  BY <1>9, WaitStay
     DEF LeaveCriticalSection, CsFrame, fiberVars, ctxVars, waitVars, timeVars
<1>10. ASSUME NEW c \in CSs, DeleteCriticalSection(c)
      PROVE  WaitInv'
  BY <1>10, WaitStay
     DEF DeleteCriticalSection, CsFrame, fiberVars, ctxVars, waitVars, timeVars
<1>11. ASSUME NEW l \in SRWs, NEW excl \in BOOLEAN, SrwAcquireNow(l, excl)
      PROVE  WaitInv'
  BY <1>11, WaitStay DEF SrwAcquireNow, SrwFrame, fiberVars, ctxVars, waitVars, timeVars
<1>12. ASSUME NEW l \in SRWs, NEW excl \in BOOLEAN, SrwAcquireBlock(l, excl)
      PROVE  WaitInv'
  <2>1. \A f \in Fibers : f # me => SameFields(f)
    BY <1>12, <1>0
       DEF SrwAcquireBlock, Call, Prog, ToSched, SrwFrame, SameFields, waitVars,
           timeVars, localVars, TypeOK, FibersTypeOK, CtxTypeOK, WaitTypeOK,
           TimeTypeOK, LocalTypeOK
  <2>2. FieldsMatch(me)'
    BY <1>12, <1>0, AddressAssumption
       DEF SrwAcquireBlock, Call, Prog, ToSched, SrwFrame, FieldsMatch, clockVars,
           waitVars, timeVars, localVars, TypeOK, FibersTypeOK, CtxTypeOK, WaitTypeOK,
           TimeTypeOK, LocalTypeOK
  <2>. QED
    BY <2>1, <2>2, WaitOne
<1>13. ASSUME NEW l \in SRWs, NEW excl \in BOOLEAN, ReleaseSRWLock(l, excl)
      PROVE  WaitInv'
  BY <1>13, WaitStay
     DEF ReleaseSRWLock, SrwFrame, fiberVars, ctxVars, waitVars, timeVars
<1>14. ASSUME NEW v \in CVs, WakeConditionVariable(v)
      PROVE  WaitInv'
  BY <1>14, WaitStay
     DEF WakeConditionVariable, WakeFrame, fiberVars, ctxVars, waitVars, timeVars
<1>15. ASSUME NEW v \in CVs, WakeAllConditionVariable(v)
      PROVE  WaitInv'
  BY <1>15, WaitStay
     DEF WakeAllConditionVariable, WakeFrame, fiberVars, ctxVars, waitVars, timeVars
<1>16. ASSUME NEW v \in CVs, NEW l \in Locks, NEW shared \in BOOLEAN,
              NEW ms \in Delays \cup {0, Infinite},
              SleepConditionVariable(v, l, shared, ms)
      PROVE  WaitInv'
  <2>1. \A f \in Fibers : f # me => SameFields(f)
    BY <1>16, <1>0
       DEF SleepConditionVariable, Call, Prog, ToSched, Fail, SameFields, waitVars,
           timeVars, localVars, TypeOK, FibersTypeOK, CtxTypeOK, WaitTypeOK,
           TimeTypeOK, LocalTypeOK
  <2>2. FieldsMatch(me)'
    BY <1>16, <1>0, AddressAssumption, LocksAddr
       DEF SleepConditionVariable, Call, Prog, ToSched, Fail, FieldsMatch, clockVars,
           waitVars, timeVars, localVars, TypeOK, FibersTypeOK, CtxTypeOK, WaitTypeOK,
           TimeTypeOK, LocalTypeOK
  <2>. QED
    BY <2>1, <2>2, WaitOne
<1>. QED
  BY <1>1, <1>2, <1>3, <1>4, <1>5, <1>6, <1>7, <1>8, <1>9, <1>10, <1>11, <1>12, <1>13,
     <1>14, <1>15, <1>16
     DEF UserLockStep

\* The thread-pool work calls: leaves each fiber with the wait fields of the
\* loop it is in.
LEMMA ThreadPoolWaitInv == TypeOK /\ RunInv /\ WaitInv /\ ThreadPoolStep => WaitInv'
<1> SUFFICES ASSUME TypeOK, RunInv, WaitInv, ThreadPoolStep PROVE WaitInv'
  OBVIOUS
<1>0. PICK me \in Fibers : /\ me = g_cur /\ FieldsMatch(me)
                           /\ ctl = "run" => fst[me] \notin {"BLOCKED", "READY"}
  BY CurFiber DEF WaitInv, RunInv, OneRunning
<1>1. CASE PoolLoop
  <2>1. \A f \in Fibers : f # me => SameFields(f)
    BY <1>1, <1>0
       DEF PoolLoop, At, Return, ToSched, TpFrame, SameFields, waitVars, timeVars,
           localVars, TypeOK, FibersTypeOK, CtxTypeOK, WaitTypeOK, TimeTypeOK,
           LocalTypeOK
  <2>2. FieldsMatch(me)'
    BY <1>1, <1>0
       DEF PoolLoop, At, Return, ToSched, TpFrame, FieldsMatch, clockVars, waitVars,
           timeVars, localVars, TypeOK, FibersTypeOK, CtxTypeOK, WaitTypeOK,
           TimeTypeOK, LocalTypeOK
  <2>. QED
    BY <2>1, <2>2, WaitOne
<1>2. ASSUME NEW w \in Works, CreateThreadpoolWork(w)
      PROVE  WaitInv'
  BY <1>2, WaitStay DEF CreateThreadpoolWork, fiberVars, ctxVars, waitVars, timeVars
<1>3. ASSUME NEW w \in Works, SubmitThreadpoolWork(w)
      PROVE  WaitInv'
  <2>1. \A f \in Fibers : fst'[f] = fst[f] \/ pc[f] = "new"
    <3>1. CASE g_nfiber >= MaxFiber
      BY <1>3, <3>1 DEF SubmitThreadpoolWork
    <3>2. CASE g_nfiber < MaxFiber
      <4>1. g_nfiber \in Fibers /\ g_nfiber \notin Live
        BY <3>2, TableAssumption DEF TypeOK, FibersTypeOK, ClockTypeOK, Fibers, Live
      <4>. QED
        BY <1>3, <3>2, <4>1, TableAssumption
           DEF SubmitThreadpoolWork, Publish, RunInv, TypeOK, FibersTypeOK,
               ClockTypeOK, CtxTypeOK
    <3>. QED
      BY <3>1, <3>2, TableAssumption DEF TypeOK, FibersTypeOK, ClockTypeOK
  <2>. QED
    BY <1>3, <2>1, WaitStay DEF SubmitThreadpoolWork, timeVars
<1>4. ASSUME NEW w \in Works, CloseThreadpoolWork(w)
      PROVE  WaitInv'
  BY <1>4, WaitStay DEF CloseThreadpoolWork, fiberVars, ctxVars, waitVars, timeVars
<1>5. ASSUME NEW w \in Works, NEW cancel \in BOOLEAN,
             WaitForThreadpoolWorkCallbacks(w, cancel)
      PROVE  WaitInv'
  <2>1. \A f \in Fibers : f # me => SameFields(f)
    BY <1>5, <1>0
       DEF WaitForThreadpoolWorkCallbacks, Call, Prog, SameFields, waitVars, timeVars,
           localVars, TypeOK, FibersTypeOK, CtxTypeOK, WaitTypeOK, TimeTypeOK,
           LocalTypeOK
  <2>2. FieldsMatch(me)'
    BY <1>5, <1>0
       DEF WaitForThreadpoolWorkCallbacks, Call, Prog, FieldsMatch, clockVars,
           waitVars, timeVars, localVars, TypeOK, FibersTypeOK, CtxTypeOK, WaitTypeOK,
           TimeTypeOK, LocalTypeOK
  <2>. QED
    BY <2>1, <2>2, WaitOne
<1>. QED
  BY <1>1, <1>2, <1>3, <1>4, <1>5 DEF ThreadPoolStep

-----------------------------------------------------------------------------
(* Finished fibers.                                                         *)

\* The action of DoneIsFinal.
DoneKept == \A f \in Fibers : fst[f] = "DONE" => fst'[f] = "DONE"

\* An iteration of u32_sched_loop: never brings a DONE fiber back.
LEMMA SchedDoneKept == TypeOK /\ RunInv /\ SchedStep => DoneKept
<1> SUFFICES ASSUME TypeOK, RunInv, SchedStep PROVE DoneKept
  OBVIOUS
<1>0. g_cur \in Fibers /\ (ctl = "run" => fst[g_cur] # "DONE")
  BY CurFiber DEF RunInv, OneRunning
<1>1. CASE SchedDispatch
  BY <1>1 DEF SchedDispatch, Picked, Ready, Woken, DoneKept
<1>2. CASE SchedAdvance
  BY <1>2 DEF SchedAdvance, Timed, DoneKept
<1>3. CASE SchedPoll
  BY <1>3 DEF SchedPoll, DoneKept, vars, fiberVars, ctxVars
<1>4. CASE SchedGiveUp
  BY <1>4 DEF SchedGiveUp, DoneKept
<1>. QED
  BY <1>1, <1>2, <1>3, <1>4 DEF SchedStep

\* Sleep, the trampoline and the thread calls: never brings a DONE fiber back.
LEMMA ThreadDoneKept == TypeOK /\ RunInv /\ ThreadStep => DoneKept
<1> SUFFICES ASSUME TypeOK, RunInv, ThreadStep PROVE DoneKept
  OBVIOUS
<1>0. g_cur \in Fibers /\ (ctl = "run" => fst[g_cur] # "DONE")
  BY CurFiber DEF RunInv, OneRunning
<1>1. CASE SetLastError
  BY <1>0, <1>1
     DEF SetLastError, Call, Prog, Fail, DoneKept, fiberVars, ctxVars, TypeOK,
         FibersTypeOK, CtxTypeOK
<1>2. CASE SleepYield
  BY <1>0, <1>2
     DEF SleepYield, Call, Prog, ToSched, DoneKept, fiberVars, ctxVars, TypeOK,
         FibersTypeOK, CtxTypeOK
<1>3. CASE ResumeYield
  BY <1>0, <1>3
     DEF ResumeYield, At, Return, DoneKept, fiberVars, ctxVars, TypeOK, FibersTypeOK,
         CtxTypeOK
<1>4. CASE ResumeSleep
  BY <1>0, <1>4
     DEF ResumeSleep, At, Return, ToSched, DoneKept, fiberVars, ctxVars, TypeOK,
         FibersTypeOK, CtxTypeOK
<1>5. CASE StartFiber
  BY <1>0, <1>5
     DEF StartFiber, At, Return, DoneKept, fiberVars, ctxVars, TypeOK, FibersTypeOK,
         CtxTypeOK
<1>6. CASE ProcessExit
  BY <1>0, <1>6
     DEF ProcessExit, Call, Prog, DoneKept, fiberVars, ctxVars, TypeOK, FibersTypeOK,
         CtxTypeOK
<1>7. CASE SuspendThread
  BY <1>0, <1>7
     DEF SuspendThread, Call, Prog, Abort, DoneKept, fiberVars, ctxVars, TypeOK,
         FibersTypeOK, CtxTypeOK
<1>8. ASSUME NEW ms \in Delays \cup {Infinite}, Sleep(ms)
      PROVE  DoneKept
  BY <1>0, <1>8
     DEF Sleep, Call, Prog, ToSched, DoneKept, fiberVars, ctxVars, TypeOK,
         FibersTypeOK, CtxTypeOK
<1>9. ASSUME NEW s \in {"READY", "SUSPENDED"}, CreateThread(s)
      PROVE  DoneKept
  <2>1. CASE g_nfiber >= MaxFiber
    BY <1>9, <2>1 DEF CreateThread, DoneKept
  <2>2. CASE g_nfiber < MaxFiber
    <3>1. g_nfiber \in Fibers /\ g_nfiber \notin Live
      BY <2>2, TableAssumption DEF TypeOK, FibersTypeOK, ClockTypeOK, Fibers, Live
    <3>. QED
      BY <1>9, <2>2, <3>1, TableAssumption
         DEF CreateThread, Publish, DoneKept, RunInv, TypeOK, FibersTypeOK,
             ClockTypeOK, CtxTypeOK
  <2>. QED
    BY <2>1, <2>2, TableAssumption DEF TypeOK, FibersTypeOK, ClockTypeOK
<1>10. ASSUME NEW code \in ExitCodes, ThreadReturn(code)
      PROVE  DoneKept
  BY <1>0, <1>10
     DEF ThreadReturn, Call, Prog, DoneKept, fiberVars, ctxVars, TypeOK, FibersTypeOK,
         CtxTypeOK
<1>11. ASSUME NEW code \in ExitCodes, ExitThread(code)
      PROVE  DoneKept
  BY <1>0, <1>11
     DEF ExitThread, Call, Prog, DoneKept, fiberVars, ctxVars, TypeOK, FibersTypeOK,
         CtxTypeOK
<1>12. ASSUME NEW f \in Fibers, NEW code \in ExitCodes, TerminateThread(f, code)
      PROVE  DoneKept
  BY <1>0, <1>12
     DEF TerminateThread, Call, Prog, DoneKept, fiberVars, ctxVars, TypeOK,
         FibersTypeOK, CtxTypeOK
<1>13. ASSUME NEW f \in Fibers, ResumeThread(f)
      PROVE  DoneKept
  BY <1>0, <1>13
     DEF ResumeThread, Call, Prog, DoneKept, fiberVars, ctxVars, TypeOK, FibersTypeOK,
         CtxTypeOK
<1>. QED
  BY <1>1, <1>2, <1>3, <1>4, <1>5, <1>6, <1>7, <1>8, <1>9, <1>10, <1>11, <1>12, <1>13
     DEF ThreadStep

\* U32_wait and the calls on events, mutexes and semaphores: never brings a
\* DONE fiber back.
LEMMA HandleDoneKept == TypeOK /\ RunInv /\ HandleStep => DoneKept
<1> SUFFICES ASSUME TypeOK, RunInv, HandleStep PROVE DoneKept
  OBVIOUS
<1>0. g_cur \in Fibers /\ (ctl = "run" => fst[g_cur] # "DONE")
  BY CurFiber DEF RunInv, OneRunning
<1>1. ASSUME NEW hs \in WaitSets, NEW all \in BOOLEAN, WaitAtOnce(hs, all)
      PROVE  DoneKept
  BY <1>0, <1>1
     DEF WaitAtOnce, Call, Prog, WaitFrame, DoneKept, fiberVars, ctxVars, TypeOK,
         FibersTypeOK, CtxTypeOK
<1>2. ASSUME NEW hs \in WaitSets, NEW all \in BOOLEAN, WaitPoll(hs, all)
      PROVE  DoneKept
  BY <1>0, <1>2
     DEF WaitPoll, Call, Prog, WaitFrame, DoneKept, fiberVars, ctxVars, TypeOK,
         FibersTypeOK, CtxTypeOK
<1>3. ASSUME NEW hs \in WaitSets, NEW all \in BOOLEAN, NEW ms \in Delays \cup {Infinite},
             WaitBlock(hs, all, ms)
      PROVE  DoneKept
  BY <1>0, <1>3
     DEF WaitBlock, Call, Prog, ToSched, WaitFrame, DoneKept, fiberVars, ctxVars,
         TypeOK, FibersTypeOK, CtxTypeOK
<1>4. CASE ResumeWait
  BY <1>0, <1>4
     DEF ResumeWait, At, Return, ToSched, WaitFrame, DoneKept, fiberVars, ctxVars,
         TypeOK, FibersTypeOK, CtxTypeOK
<1>5. ASSUME NEW a \in BOOLEAN, NEW b \in BOOLEAN, NEW n \in Names \cup {NoName},
             CreateEvent(a, b, n)
      PROVE  DoneKept
  BY <1>0, <1>5
     DEF CreateEvent, Call, Prog, Fail, DoneKept, fiberVars, ctxVars, TypeOK,
         FibersTypeOK, CtxTypeOK
<1>6. ASSUME NEW e \in Events, SetEvent(e)
      PROVE  DoneKept
  BY <1>0, <1>6
     DEF SetEvent, Call, Prog, EvFrame, DoneKept, fiberVars, ctxVars, TypeOK,
         FibersTypeOK, CtxTypeOK
<1>7. ASSUME NEW e \in Events, ResetEvent(e)
      PROVE  DoneKept
  BY <1>0, <1>7
     DEF ResetEvent, Call, Prog, EvFrame, DoneKept, fiberVars, ctxVars, TypeOK,
         FibersTypeOK, CtxTypeOK
<1>8. ASSUME NEW e \in Events, NetReady(e)
      PROVE  DoneKept
  BY <1>0, <1>8
     DEF NetReady, EvFrame, DoneKept, fiberVars, ctxVars, TypeOK, FibersTypeOK,
         CtxTypeOK
<1>9. ASSUME NEW e \in Events, NEW used \in BOOLEAN, WSAEventSelect(e, used)
      PROVE  DoneKept
  BY <1>0, <1>9
     DEF WSAEventSelect, Call, Prog, EvFrame, DoneKept, fiberVars, ctxVars, TypeOK,
         FibersTypeOK, CtxTypeOK
<1>10. ASSUME NEW b \in BOOLEAN, NEW n \in Names \cup {NoName}, CreateMutex(b, n)
      PROVE  DoneKept
  BY <1>0, <1>10
     DEF CreateMutex, Call, Prog, Fail, DoneKept, fiberVars, ctxVars, TypeOK,
         FibersTypeOK, CtxTypeOK
<1>11. ASSUME NEW m \in Mutexes, ReleaseMutex(m)
      PROVE  DoneKept
  BY <1>0, <1>11
     DEF ReleaseMutex, Call, Prog, DoneKept, fiberVars, ctxVars, TypeOK, FibersTypeOK,
         CtxTypeOK
<1>12. ASSUME NEW i \in 0 .. SemMax, NEW x \in 1 .. SemMax,
              NEW n \in Names \cup {NoName}, CreateSemaphore(i, x, n)
      PROVE  DoneKept
  BY <1>0, <1>12
     DEF CreateSemaphore, Call, Prog, Fail, DoneKept, fiberVars, ctxVars, TypeOK,
         FibersTypeOK, CtxTypeOK
<1>13. ASSUME NEW s \in Sems, NEW rel \in RelCounts, ReleaseSemaphore(s, rel)
      PROVE  DoneKept
  BY <1>0, <1>13
     DEF ReleaseSemaphore, Call, Prog, Fail, DoneKept, fiberVars, ctxVars, TypeOK,
         FibersTypeOK, CtxTypeOK
<1>14. ASSUME NEW n \in Names, OpenMissing(n)
      PROVE  DoneKept
  BY <1>0, <1>14
     DEF OpenMissing, Call, Prog, Fail, DoneKept, fiberVars, ctxVars, TypeOK,
         FibersTypeOK, CtxTypeOK
<1>. QED
  BY <1>1, <1>2, <1>3, <1>4, <1>5, <1>6, <1>7, <1>8, <1>9, <1>10, <1>11, <1>12, <1>13,
     <1>14
     DEF HandleStep

\* The calls on critical sections, SRW locks and condition variables: never
\* brings a DONE fiber back.
LEMMA UserLockDoneKept == TypeOK /\ RunInv /\ UserLockStep => DoneKept
<1> SUFFICES ASSUME TypeOK, RunInv, UserLockStep PROVE DoneKept
  OBVIOUS
<1>0. g_cur \in Fibers /\ (ctl = "run" => fst[g_cur] # "DONE")
  BY CurFiber DEF RunInv, OneRunning
<1>1. CASE ResumeCs
  BY <1>0, <1>1
     DEF ResumeCs, At, Return, ToSched, CsFrame, DoneKept, fiberVars, ctxVars, TypeOK,
         FibersTypeOK, CtxTypeOK
<1>2. CASE ResumeSrw
  BY <1>0, <1>2
     DEF ResumeSrw, At, Return, ToSched, SrwFrame, DoneKept, fiberVars, ctxVars,
         TypeOK, FibersTypeOK, CtxTypeOK
<1>3. CASE ResumeCv
  BY <1>0, <1>3
     DEF ResumeCv, At, CvLeave, ToSched, Fail, DoneKept, fiberVars, ctxVars, TypeOK,
         FibersTypeOK, CtxTypeOK
<1>4. CASE Relock
  BY <1>0, <1>4
     DEF Relock, At, Return, ToSched, DoneKept, fiberVars, ctxVars, TypeOK,
         FibersTypeOK, CtxTypeOK
<1>5. ASSUME NEW x \in CSs \cup SRWs \cup CVs, Initialize(x)
      PROVE  DoneKept
  BY <1>0, <1>5
     DEF Initialize, DoneKept, fiberVars, ctxVars, TypeOK, FibersTypeOK, CtxTypeOK
<1>6. ASSUME NEW x \in CSs \cup SRWs \cup CVs, RegisterFull(x)
      PROVE  DoneKept
  BY <1>0, <1>6
     DEF RegisterFull, Abort, DoneKept, fiberVars, ctxVars, TypeOK, FibersTypeOK,
         CtxTypeOK
<1>7. ASSUME NEW c \in CSs, EnterNow(c)
      PROVE  DoneKept
  BY <1>0, <1>7
     DEF EnterNow, CsFrame, DoneKept, fiberVars, ctxVars, TypeOK, FibersTypeOK,
         CtxTypeOK
<1>8. ASSUME NEW c \in CSs, EnterBlock(c)
      PROVE  DoneKept
  BY <1>0, <1>8
     DEF EnterBlock, Call, Prog, ToSched, CsFrame, DoneKept, fiberVars, ctxVars,
         TypeOK, FibersTypeOK, CtxTypeOK
<1>9. ASSUME NEW c \in CSs, LeaveCriticalSection(c)
      PROVE  DoneKept
  BY <1>0, <1>9
     DEF LeaveCriticalSection, CsFrame, DoneKept, fiberVars, ctxVars, TypeOK,
         FibersTypeOK, CtxTypeOK
<1>10. ASSUME NEW c \in CSs, DeleteCriticalSection(c)
      PROVE  DoneKept
  BY <1>0, <1>10
     DEF DeleteCriticalSection, CsFrame, DoneKept, fiberVars, ctxVars, TypeOK,
         FibersTypeOK, CtxTypeOK
<1>11. ASSUME NEW l \in SRWs, NEW excl \in BOOLEAN, SrwAcquireNow(l, excl)
      PROVE  DoneKept
  BY <1>0, <1>11
     DEF SrwAcquireNow, SrwFrame, DoneKept, fiberVars, ctxVars, TypeOK, FibersTypeOK,
         CtxTypeOK
<1>12. ASSUME NEW l \in SRWs, NEW excl \in BOOLEAN, SrwAcquireBlock(l, excl)
      PROVE  DoneKept
  BY <1>0, <1>12
     DEF SrwAcquireBlock, Call, Prog, ToSched, SrwFrame, DoneKept, fiberVars, ctxVars,
         TypeOK, FibersTypeOK, CtxTypeOK
<1>13. ASSUME NEW l \in SRWs, NEW excl \in BOOLEAN, ReleaseSRWLock(l, excl)
      PROVE  DoneKept
  BY <1>0, <1>13
     DEF ReleaseSRWLock, SrwFrame, DoneKept, fiberVars, ctxVars, TypeOK, FibersTypeOK,
         CtxTypeOK
<1>14. ASSUME NEW v \in CVs, WakeConditionVariable(v)
      PROVE  DoneKept
  BY <1>0, <1>14
     DEF WakeConditionVariable, WakeFrame, DoneKept, fiberVars, ctxVars, TypeOK,
         FibersTypeOK, CtxTypeOK
<1>15. ASSUME NEW v \in CVs, WakeAllConditionVariable(v)
      PROVE  DoneKept
  BY <1>0, <1>15
     DEF WakeAllConditionVariable, WakeFrame, DoneKept, fiberVars, ctxVars, TypeOK,
         FibersTypeOK, CtxTypeOK
<1>16. ASSUME NEW v \in CVs, NEW l \in Locks, NEW shared \in BOOLEAN,
              NEW ms \in Delays \cup {0, Infinite},
              SleepConditionVariable(v, l, shared, ms)
      PROVE  DoneKept
  BY <1>0, <1>16
     DEF SleepConditionVariable, Call, Prog, ToSched, Fail, DoneKept, fiberVars,
         ctxVars, TypeOK, FibersTypeOK, CtxTypeOK
<1>. QED
  BY <1>1, <1>2, <1>3, <1>4, <1>5, <1>6, <1>7, <1>8, <1>9, <1>10, <1>11, <1>12, <1>13,
     <1>14, <1>15, <1>16
     DEF UserLockStep

\* The thread-pool work calls: never brings a DONE fiber back.
LEMMA ThreadPoolDoneKept == TypeOK /\ RunInv /\ ThreadPoolStep => DoneKept
<1> SUFFICES ASSUME TypeOK, RunInv, ThreadPoolStep PROVE DoneKept
  OBVIOUS
<1>0. g_cur \in Fibers /\ (ctl = "run" => fst[g_cur] # "DONE")
  BY CurFiber DEF RunInv, OneRunning
<1>1. CASE PoolLoop
  BY <1>0, <1>1
     DEF PoolLoop, At, Return, ToSched, TpFrame, DoneKept, fiberVars, ctxVars, TypeOK,
         FibersTypeOK, CtxTypeOK
<1>2. ASSUME NEW w \in Works, CreateThreadpoolWork(w)
      PROVE  DoneKept
  BY <1>0, <1>2
     DEF CreateThreadpoolWork, DoneKept, fiberVars, ctxVars, TypeOK, FibersTypeOK,
         CtxTypeOK
<1>3. ASSUME NEW w \in Works, SubmitThreadpoolWork(w)
      PROVE  DoneKept
  <2>1. CASE g_nfiber >= MaxFiber
    BY <1>3, <2>1 DEF SubmitThreadpoolWork, DoneKept
  <2>2. CASE g_nfiber < MaxFiber
    <3>1. g_nfiber \in Fibers /\ g_nfiber \notin Live
      BY <2>2, TableAssumption DEF TypeOK, FibersTypeOK, ClockTypeOK, Fibers, Live
    <3>. QED
      BY <1>3, <2>2, <3>1, TableAssumption
         DEF SubmitThreadpoolWork, Publish, DoneKept, RunInv, TypeOK, FibersTypeOK,
             ClockTypeOK, CtxTypeOK
  <2>. QED
    BY <2>1, <2>2, TableAssumption DEF TypeOK, FibersTypeOK, ClockTypeOK
<1>4. ASSUME NEW w \in Works, CloseThreadpoolWork(w)
      PROVE  DoneKept
  BY <1>0, <1>4
     DEF CloseThreadpoolWork, DoneKept, fiberVars, ctxVars, TypeOK, FibersTypeOK,
         CtxTypeOK
<1>5. ASSUME NEW w \in Works, NEW cancel \in BOOLEAN,
             WaitForThreadpoolWorkCallbacks(w, cancel)
      PROVE  DoneKept
  BY <1>0, <1>5
     DEF WaitForThreadpoolWorkCallbacks, Call, Prog, DoneKept, fiberVars, ctxVars,
         TypeOK, FibersTypeOK, CtxTypeOK
<1>. QED
  BY <1>1, <1>2, <1>3, <1>4, <1>5 DEF ThreadPoolStep
-----------------------------------------------------------------------------
(* Last-error values, deadlines and the clock.                              *)


\* A step that leaves the last-error values alone may finish fibers and may end
\* the process.
LEMMA ErrStay ==
    ASSUME ErrInv, ctl' \in {ctl, "exit", "abort"},
           UNCHANGED <<last_error, g_cur, g_last_error, own_error>>,
           \A f \in Fibers : fst'[f] # "DONE" => fst[f] # "DONE"
    PROVE  ErrInv'
  BY DEF ErrInv, LastErrorIsolated

\* The running fiber sets its last error.
LEMMA ErrSets ==
    ASSUME TypeOK, ErrInv, ctl = "run", UNCHANGED <<ctl, fst, last_error, g_cur>>,
           NEW code, Fail(code)
    PROVE  ErrInv'
  BY CurFiber DEF ErrInv, LastErrorIsolated, Fail, TypeOK, FibersTypeOK, ErrTypeOK

\* The running fiber hands over to the scheduler: u32_to_sched has saved its
\* last error, or the fiber is DONE.
LEMMA ErrLeaves ==
    ASSUME ErrInv, ctl = "run", ctl' = "sched", UNCHANGED <<g_cur, g_last_error,
           own_error>>,
           \A f \in Fibers : f # g_cur =>
                last_error'[f] = last_error[f] /\ fst'[f] = fst[f],
           fst'[g_cur] = "DONE" \/ last_error'[g_cur] = g_last_error
    PROVE  ErrInv'
  BY DEF ErrInv, LastErrorIsolated

\* An iteration of u32_sched_loop: leaves every fiber its own last error.
LEMMA SchedErrInv == TypeOK /\ RunInv /\ ErrInv /\ SchedStep => ErrInv'
<1> SUFFICES ASSUME TypeOK, RunInv, ErrInv, SchedStep PROVE ErrInv'
  OBVIOUS
<1>0. g_cur \in Fibers
  BY CurFiber
<1>1. CASE SchedDispatch
  <2>1. PICK k \in 1 .. g_nfiber :
            /\ Candidate(k) \in Ready
            /\ fst' = [f \in Fibers |-> IF f = Candidate(k) THEN "RUNNING"
                                        ELSE IF f \in Woken THEN "READY" ELSE fst[f]]
            /\ g_cur' = Candidate(k) /\ g_last_error' = last_error[Candidate(k)]
    BY <1>1 DEF SchedDispatch, Picked
  <2>2. UNCHANGED <<last_error, own_error>> /\ ctl = "sched" /\ ctl' = "run"
    BY <1>1 DEF SchedDispatch, SchedFrame
  <2>3. Candidate(k) \in Fibers /\ fst[Candidate(k)] # "DONE"
    BY <2>1, CandidateLive DEF Ready, Woken
  <2>4. \A f \in Fibers : f # Candidate(k) /\ fst'[f] # "DONE" => fst[f] # "DONE"
    BY <2>1 DEF Woken
  <2>. QED
    BY <2>1, <2>2, <2>3, <2>4 DEF ErrInv, LastErrorIsolated
<1>2. CASE SchedAdvance
  <2>1. \A f \in Fibers : fst'[f] # "DONE" => fst[f] # "DONE"
    BY <1>2 DEF SchedAdvance, Timed
  <2>. QED
    BY <1>2, <2>1, ErrStay DEF SchedAdvance, SchedFrame
<1>3. CASE SchedPoll
  BY <1>3, ErrStay DEF SchedPoll, vars, fiberVars, ctxVars, clockVars, errVars
<1>4. CASE SchedGiveUp
  BY <1>4, ErrStay DEF SchedGiveUp, SchedFrame
<1>. QED
  BY <1>1, <1>2, <1>3, <1>4 DEF SchedStep

\* Sleep, the trampoline and the thread calls: leaves every fiber its own last
\* error.
LEMMA ThreadErrInv == TypeOK /\ RunInv /\ ErrInv /\ ThreadStep => ErrInv'
<1> SUFFICES ASSUME TypeOK, RunInv, ErrInv, ThreadStep PROVE ErrInv'
  OBVIOUS
<1>0. g_cur \in Fibers
  BY CurFiber
<1>1. CASE SetLastError
  BY <1>1, ErrSets DEF SetLastError, Call, Prog, fiberVars, ctxVars, clockVars
<1>2. CASE SleepYield
  BY <1>0, <1>2, ErrLeaves
     DEF SleepYield, Call, Prog, ToSched, clockVars, errVars, TypeOK, FibersTypeOK,
         CtxTypeOK
<1>3. CASE ResumeYield
  BY <1>3, ErrStay
     DEF ResumeYield, Return, clockVars, errVars, TypeOK, FibersTypeOK, CtxTypeOK
<1>4. CASE ResumeSleep
  BY <1>0, <1>4, ErrLeaves, ErrStay
     DEF ResumeSleep, At, Return, ToSched, clockVars, errVars, TypeOK, FibersTypeOK,
         CtxTypeOK
<1>5. CASE StartFiber
  BY <1>0, <1>5, ErrLeaves, ErrStay
     DEF StartFiber, At, Return, clockVars, errVars, TypeOK, FibersTypeOK, CtxTypeOK
<1>6. CASE ProcessExit
  BY <1>6, ErrStay DEF ProcessExit, clockVars, errVars, TypeOK, FibersTypeOK, CtxTypeOK
<1>7. CASE SuspendThread
  BY <1>7, ErrStay
     DEF SuspendThread, Abort, clockVars, errVars, TypeOK, FibersTypeOK, CtxTypeOK
<1>8. ASSUME NEW ms \in Delays \cup {Infinite}, Sleep(ms)
      PROVE  ErrInv'
  BY <1>0, <1>8, ErrLeaves
     DEF Sleep, Call, Prog, ToSched, clockVars, errVars, TypeOK, FibersTypeOK, CtxTypeOK
<1>9. ASSUME NEW s \in {"READY", "SUSPENDED"}, CreateThread(s)
      PROVE  ErrInv'
  <2>1. CASE g_nfiber >= MaxFiber
    BY <1>9, <2>1, ErrStay, ErrSets DEF CreateThread, Call, Prog, errVars
  <2>2. CASE g_nfiber < MaxFiber
    <3>1. g_nfiber \in Fibers /\ g_nfiber \notin Live
      BY <2>2, TableAssumption DEF TypeOK, FibersTypeOK, ClockTypeOK, Fibers, Live
    <3>2. \A f \in Fibers : fst'[f] # "DONE" => fst[f] # "DONE"
      BY <1>9, <2>2, <3>1, TableAssumption
         DEF CreateThread, Publish, RunInv, TypeOK, FibersTypeOK, ClockTypeOK, CtxTypeOK
    <3>. QED
      BY <1>9, <2>2, <3>2, ErrStay, TableAssumption
         DEF CreateThread, Call, Prog, errVars, TypeOK, FibersTypeOK, ClockTypeOK
  <2>. QED
    BY <2>1, <2>2, TableAssumption DEF TypeOK, FibersTypeOK, ClockTypeOK
<1>10. ASSUME NEW code \in ExitCodes, ThreadReturn(code)
      PROVE  ErrInv'
  BY <1>0, <1>10, ErrLeaves
     DEF ThreadReturn, Call, Prog, clockVars, errVars, TypeOK, FibersTypeOK, CtxTypeOK
<1>11. ASSUME NEW code \in ExitCodes, ExitThread(code)
      PROVE  ErrInv'
  BY <1>0, <1>11, ErrLeaves
     DEF ExitThread, Call, Prog, clockVars, errVars, TypeOK, FibersTypeOK, CtxTypeOK
<1>12. ASSUME NEW f \in Fibers, NEW code \in ExitCodes, TerminateThread(f, code)
      PROVE  ErrInv'
  BY <1>12, ErrStay
     DEF TerminateThread, clockVars, errVars, TypeOK, FibersTypeOK, CtxTypeOK
<1>13. ASSUME NEW f \in Fibers, ResumeThread(f)
      PROVE  ErrInv'
  BY <1>13, ErrStay
     DEF ResumeThread, clockVars, errVars, TypeOK, FibersTypeOK, CtxTypeOK
<1>. QED
  BY <1>1, <1>2, <1>3, <1>4, <1>5, <1>6, <1>7, <1>8, <1>9, <1>10, <1>11, <1>12, <1>13
     DEF ThreadStep

\* U32_wait and the calls on events, mutexes and semaphores: leaves every fiber
\* its own last error.
LEMMA HandleErrInv == TypeOK /\ RunInv /\ ErrInv /\ HandleStep => ErrInv'
<1> SUFFICES ASSUME TypeOK, RunInv, ErrInv, HandleStep PROVE ErrInv'
  OBVIOUS
<1>0. g_cur \in Fibers
  BY CurFiber
<1>1. ASSUME NEW hs \in WaitSets, NEW all \in BOOLEAN, WaitAtOnce(hs, all)
      PROVE  ErrInv'
  BY <1>1, ErrStay DEF WaitAtOnce, WaitFrame, fiberVars, ctxVars, clockVars, errVars
<1>2. ASSUME NEW hs \in WaitSets, NEW all \in BOOLEAN, WaitPoll(hs, all)
      PROVE  ErrInv'
  BY <1>2, ErrStay DEF WaitPoll, WaitFrame, fiberVars, ctxVars, clockVars, errVars
<1>3. ASSUME NEW hs \in WaitSets, NEW all \in BOOLEAN, NEW ms \in Delays \cup {Infinite},
             WaitBlock(hs, all, ms)
      PROVE  ErrInv'
  BY <1>0, <1>3, ErrLeaves
     DEF WaitBlock, Call, Prog, ToSched, WaitFrame, clockVars, errVars, TypeOK,
         FibersTypeOK, CtxTypeOK
<1>4. CASE ResumeWait
  BY <1>0, <1>4, ErrLeaves, ErrStay
     DEF ResumeWait, At, Return, ToSched, WaitFrame, clockVars, errVars, TypeOK,
         FibersTypeOK, CtxTypeOK
<1>5. ASSUME NEW a \in BOOLEAN, NEW b \in BOOLEAN, NEW n \in Names \cup {NoName},
             CreateEvent(a, b, n)
      PROVE  ErrInv'
  BY <1>5, ErrSets, ErrStay
     DEF CreateEvent, Call, Prog, fiberVars, ctxVars, clockVars, errVars
<1>6. ASSUME NEW e \in Events, SetEvent(e)
      PROVE  ErrInv'
  BY <1>6, ErrStay DEF SetEvent, EvFrame, fiberVars, ctxVars, clockVars, errVars
<1>7. ASSUME NEW e \in Events, ResetEvent(e)
      PROVE  ErrInv'
  BY <1>7, ErrStay DEF ResetEvent, EvFrame, fiberVars, ctxVars, clockVars, errVars
<1>8. ASSUME NEW e \in Events, NetReady(e)
      PROVE  ErrInv'
  BY <1>8, ErrStay DEF NetReady, EvFrame, fiberVars, ctxVars, clockVars, errVars
<1>9. ASSUME NEW e \in Events, NEW used \in BOOLEAN, WSAEventSelect(e, used)
      PROVE  ErrInv'
  BY <1>9, ErrStay DEF WSAEventSelect, EvFrame, fiberVars, ctxVars, clockVars, errVars
<1>10. ASSUME NEW b \in BOOLEAN, NEW n \in Names \cup {NoName}, CreateMutex(b, n)
      PROVE  ErrInv'
  BY <1>10, ErrSets, ErrStay
     DEF CreateMutex, Call, Prog, fiberVars, ctxVars, clockVars, errVars
<1>11. ASSUME NEW m \in Mutexes, ReleaseMutex(m)
      PROVE  ErrInv'
  BY <1>11, ErrStay DEF ReleaseMutex, fiberVars, ctxVars, clockVars, errVars
<1>12. ASSUME NEW i \in 0 .. SemMax, NEW x \in 1 .. SemMax,
              NEW n \in Names \cup {NoName}, CreateSemaphore(i, x, n)
      PROVE  ErrInv'
  BY <1>12, ErrSets, ErrStay
     DEF CreateSemaphore, Call, Prog, fiberVars, ctxVars, clockVars, errVars
<1>13. ASSUME NEW s \in Sems, NEW rel \in RelCounts, ReleaseSemaphore(s, rel)
      PROVE  ErrInv'
  BY <1>13, ErrSets, ErrStay
     DEF ReleaseSemaphore, Call, Prog, fiberVars, ctxVars, clockVars, errVars
<1>14. ASSUME NEW n \in Names, OpenMissing(n)
      PROVE  ErrInv'
  BY <1>14, ErrSets DEF OpenMissing, Call, Prog, fiberVars, ctxVars, clockVars
<1>. QED
  BY <1>1, <1>2, <1>3, <1>4, <1>5, <1>6, <1>7, <1>8, <1>9, <1>10, <1>11, <1>12, <1>13,
     <1>14
     DEF HandleStep

\* The calls on critical sections, SRW locks and condition variables: leaves
\* every fiber its own last error.
LEMMA UserLockErrInv == TypeOK /\ RunInv /\ ErrInv /\ UserLockStep => ErrInv'
<1> SUFFICES ASSUME TypeOK, RunInv, ErrInv, UserLockStep PROVE ErrInv'
  OBVIOUS
<1>0. g_cur \in Fibers
  BY CurFiber
<1>1. CASE ResumeCs
  BY <1>0, <1>1, ErrLeaves, ErrStay
     DEF ResumeCs, At, Return, ToSched, CsFrame, clockVars, errVars, TypeOK,
         FibersTypeOK, CtxTypeOK
<1>2. CASE ResumeSrw
  BY <1>0, <1>2, ErrLeaves, ErrStay
     DEF ResumeSrw, At, Return, ToSched, SrwFrame, clockVars, errVars, TypeOK,
         FibersTypeOK, CtxTypeOK
<1>3. CASE ResumeCv
  BY <1>0, <1>3, ErrLeaves, ErrStay, ErrSets
     DEF ResumeCv, At, CvLeave, ToSched, clockVars, errVars, TypeOK, FibersTypeOK,
         CtxTypeOK
<1>4. CASE Relock
  BY <1>0, <1>4, ErrLeaves, ErrStay
     DEF Relock, At, Return, ToSched, clockVars, errVars, TypeOK, FibersTypeOK,
         CtxTypeOK
<1>5. ASSUME NEW x \in CSs \cup SRWs \cup CVs, Initialize(x)
      PROVE  ErrInv'
  BY <1>5, ErrStay DEF Initialize, fiberVars, ctxVars, clockVars, errVars
<1>6. ASSUME NEW x \in CSs \cup SRWs \cup CVs, RegisterFull(x)
      PROVE  ErrInv'
  BY <1>6, ErrStay
     DEF RegisterFull, Abort, clockVars, errVars, TypeOK, FibersTypeOK, CtxTypeOK
<1>7. ASSUME NEW c \in CSs, EnterNow(c)
      PROVE  ErrInv'
  BY <1>7, ErrStay DEF EnterNow, CsFrame, fiberVars, ctxVars, clockVars, errVars
<1>8. ASSUME NEW c \in CSs, EnterBlock(c)
      PROVE  ErrInv'
  BY <1>0, <1>8, ErrLeaves
     DEF EnterBlock, Call, Prog, ToSched, CsFrame, clockVars, errVars, TypeOK,
         FibersTypeOK, CtxTypeOK
<1>9. ASSUME NEW c \in CSs, LeaveCriticalSection(c)
      PROVE  ErrInv'
  BY <1>9, ErrStay
     DEF LeaveCriticalSection, CsFrame, fiberVars, ctxVars, clockVars, errVars
<1>10. ASSUME NEW c \in CSs, DeleteCriticalSection(c)
      PROVE  ErrInv'
  BY <1>10, ErrStay
     DEF DeleteCriticalSection, CsFrame, fiberVars, ctxVars, clockVars, errVars
<1>11. ASSUME NEW l \in SRWs, NEW excl \in BOOLEAN, SrwAcquireNow(l, excl)
      PROVE  ErrInv'
  BY <1>11, ErrStay DEF SrwAcquireNow, SrwFrame, fiberVars, ctxVars, clockVars, errVars
<1>12. ASSUME NEW l \in SRWs, NEW excl \in BOOLEAN, SrwAcquireBlock(l, excl)
      PROVE  ErrInv'
  BY <1>0, <1>12, ErrLeaves
     DEF SrwAcquireBlock, Call, Prog, ToSched, SrwFrame, clockVars, errVars, TypeOK,
         FibersTypeOK, CtxTypeOK
<1>13. ASSUME NEW l \in SRWs, NEW excl \in BOOLEAN, ReleaseSRWLock(l, excl)
      PROVE  ErrInv'
  BY <1>13, ErrStay DEF ReleaseSRWLock, SrwFrame, fiberVars, ctxVars, clockVars, errVars
<1>14. ASSUME NEW v \in CVs, WakeConditionVariable(v)
      PROVE  ErrInv'
  BY <1>14, ErrStay
     DEF WakeConditionVariable, WakeFrame, fiberVars, ctxVars, clockVars, errVars
<1>15. ASSUME NEW v \in CVs, WakeAllConditionVariable(v)
      PROVE  ErrInv'
  BY <1>15, ErrStay
     DEF WakeAllConditionVariable, WakeFrame, fiberVars, ctxVars, clockVars, errVars
<1>16. ASSUME NEW v \in CVs, NEW l \in Locks, NEW shared \in BOOLEAN,
              NEW ms \in Delays \cup {0, Infinite},
              SleepConditionVariable(v, l, shared, ms)
      PROVE  ErrInv'
  BY <1>0, <1>16, ErrLeaves, ErrSets
     DEF SleepConditionVariable, Call, Prog, ToSched, clockVars, errVars, TypeOK,
         FibersTypeOK, CtxTypeOK
<1>. QED
  BY <1>1, <1>2, <1>3, <1>4, <1>5, <1>6, <1>7, <1>8, <1>9, <1>10, <1>11, <1>12, <1>13,
     <1>14, <1>15, <1>16
     DEF UserLockStep

\* The thread-pool work calls: leaves every fiber its own last error.
LEMMA ThreadPoolErrInv == TypeOK /\ RunInv /\ ErrInv /\ ThreadPoolStep => ErrInv'
<1> SUFFICES ASSUME TypeOK, RunInv, ErrInv, ThreadPoolStep PROVE ErrInv'
  OBVIOUS
<1>0. g_cur \in Fibers
  BY CurFiber
<1>1. CASE PoolLoop
  BY <1>0, <1>1, ErrLeaves, ErrStay
     DEF PoolLoop, At, Return, ToSched, TpFrame, clockVars, errVars, TypeOK,
         FibersTypeOK, CtxTypeOK
<1>2. ASSUME NEW w \in Works, CreateThreadpoolWork(w)
      PROVE  ErrInv'
  BY <1>2, ErrStay
     DEF CreateThreadpoolWork, TpFrame, fiberVars, ctxVars, clockVars, errVars
<1>3. ASSUME NEW w \in Works, SubmitThreadpoolWork(w)
      PROVE  ErrInv'
  <2>1. CASE g_nfiber >= MaxFiber
    BY <1>3, <2>1, ErrStay, ErrSets DEF SubmitThreadpoolWork, TpFrame, errVars
  <2>2. CASE g_nfiber < MaxFiber
    <3>1. g_nfiber \in Fibers /\ g_nfiber \notin Live
      BY <2>2, TableAssumption DEF TypeOK, FibersTypeOK, ClockTypeOK, Fibers, Live
    <3>2. \A f \in Fibers : fst'[f] # "DONE" => fst[f] # "DONE"
      BY <1>3, <2>2, <3>1, TableAssumption
         DEF SubmitThreadpoolWork, Publish, RunInv, TypeOK, FibersTypeOK, ClockTypeOK,
             CtxTypeOK
    <3>. QED
      BY <1>3, <2>2, <3>2, ErrStay, TableAssumption
         DEF SubmitThreadpoolWork, TpFrame, errVars, TypeOK, FibersTypeOK, ClockTypeOK
  <2>. QED
    BY <2>1, <2>2, TableAssumption DEF TypeOK, FibersTypeOK, ClockTypeOK
<1>4. ASSUME NEW w \in Works, CloseThreadpoolWork(w)
      PROVE  ErrInv'
  BY <1>4, ErrStay
     DEF CloseThreadpoolWork, TpFrame, fiberVars, ctxVars, clockVars, errVars
<1>5. ASSUME NEW w \in Works, NEW cancel \in BOOLEAN,
             WaitForThreadpoolWorkCallbacks(w, cancel)
      PROVE  ErrInv'
  BY <1>5, ErrStay DEF WaitForThreadpoolWorkCallbacks, TpFrame, clockVars, errVars
<1>. QED
  BY <1>1, <1>2, <1>3, <1>4, <1>5 DEF ThreadPoolStep

-----------------------------------------------------------------------------
(* Deadlines and the virtual clock.                                         *)

\* The deadline of f is as before, and f is in the same state or finished.
SameTime(f) ==
    /\ has_timeout'[f] = has_timeout[f] /\ timed_out'[f] = timed_out[f]
    /\ wake_time'[f] = wake_time[f]
    /\ has_timeout[f] => fst'[f] \in {fst[f], "DONE"}

\* A step that leaves the clock and every deadline alone may finish fibers.
LEMMA TimeStay ==
    ASSUME TimeInv, UNCHANGED g_vclock, \A f \in Fibers : SameTime(f)
    PROVE  TimeInv'
  BY DEF TimeInv, TimeMatch, SameTime

\* A step of the running fiber that arms, clears or keeps its own deadline.
LEMMA TimeOne ==
    ASSUME TimeInv, UNCHANGED g_vclock, NEW me \in Fibers,
           \A f \in Fibers : f # me => SameTime(f), TimeMatch(me)'
    PROVE  TimeInv'
<1>1. ASSUME NEW f \in Fibers, f # me
      PROVE  TimeMatch(f)'
  BY <1>1 DEF TimeInv, TimeMatch, SameTime
<1>. QED
  BY <1>1 DEF TimeInv

\* An iteration of u32_sched_loop: keeps armed deadlines ahead of the clock and
\* fired ones behind it.
LEMMA SchedTimeInv == TypeOK /\ RunInv /\ WaitInv /\ TimeInv /\ SchedStep => TimeInv'
<1> SUFFICES ASSUME TypeOK, RunInv, WaitInv, TimeInv, SchedStep PROVE TimeInv'
  OBVIOUS
<1>0. PICK me \in Fibers : /\ me = g_cur /\ FieldsMatch(me) /\ TimeMatch(me)
                           /\ ctl = "run" => fst[me] \notin {"BLOCKED", "READY", "DONE"}
  BY CurFiber DEF WaitInv, TimeInv, RunInv, OneRunning
<1>1. CASE SchedDispatch
  <2>1. PICK k \in 1 .. g_nfiber :
            /\ Candidate(k) \in Ready
            /\ fst' = [f \in Fibers |-> IF f = Candidate(k) THEN "RUNNING"
                                        ELSE IF f \in Woken THEN "READY" ELSE fst[f]]
    BY <1>1 DEF SchedDispatch, Picked
  <2>2. /\ UNCHANGED <<has_timeout, wake_time, g_vclock>>
        /\ \A f \in Fibers : timed_out'[f] = (timed_out[f] /\ f \notin Woken)
    BY <1>1 DEF SchedDispatch, SchedFrame
  <2>3. \A f \in Fibers :
            \/ f \in Woken /\ fst[f] = "BLOCKED" /\ fst'[f] \in {"READY", "RUNNING"}
            \/ f \notin Woken /\ fst'[f] = fst[f]
            \/ f \notin Woken /\ fst[f] = "READY" /\ fst'[f] = "RUNNING"
    BY <2>1 DEF Ready, Woken
  <2>4. ASSUME NEW f \in Fibers
        PROVE  TimeMatch(f)'
    BY <2>2, <2>3 DEF TimeInv, TimeMatch, TypeOK, FibersTypeOK, TimeTypeOK
  <2>. QED
    BY <2>4 DEF TimeInv
<1>2. CASE SchedAdvance
  <2>1. PICK e \in Timed :
            /\ \A f \in Timed : wake_time[e] <= wake_time[f]
            /\ g_vclock' = wake_time[e]
            /\ fst' = [f \in Fibers |-> IF f \in {x \in Timed : wake_time[x] <= wake_time[e]}
                                       THEN "READY" ELSE fst[f]]
            /\ timed_out' = [f \in Fibers |->
                    timed_out[f] \/ f \in {x \in Timed : wake_time[x] <= wake_time[e]}]
    BY <1>2 DEF SchedAdvance
  <2>2. UNCHANGED <<has_timeout, wake_time>> /\ Ready = {} /\ ctl = "sched"
    BY <1>2 DEF SchedAdvance, SchedFrame
  <2>3. e \in Fibers /\ wake_time[e] \in Nat /\ g_vclock \in Nat /\ g_vclock <= wake_time[e]
    BY LiveFibers
       DEF Timed, TimeInv, TimeMatch, TypeOK, FibersTypeOK, TimeTypeOK, ClockTypeOK
  <2>4. ASSUME NEW f \in Fibers, has_timeout[f]
        PROVE  f \in Timed \/ fst[f] = "DONE"
    <3>1. f \in Live
      BY <2>4 DEF RunInv, TimeInv, TimeMatch
    <3>2. fst[f] \notin {"FREE", "SUSPENDED", "READY", "RUNNING"}
      BY <2>2, <2>4, <3>1 DEF Ready, TimeInv, TimeMatch, RunInv, OneRunning
    <3>. QED
      BY <2>4, <3>1, <3>2 DEF Timed, TypeOK, FibersTypeOK, CtxTypeOK, FST
  <2>5. ASSUME NEW f \in Fibers
        PROVE  TimeMatch(f)'
    <3>1. CASE ~has_timeout[f]
      BY <2>2, <3>1 DEF TimeMatch
    <3>2. CASE f \in Timed /\ wake_time[f] <= wake_time[e]
      BY <2>1, <2>2, <3>2 DEF TimeMatch
    <3>3. CASE f \in Timed /\ ~(wake_time[f] <= wake_time[e])
      BY <2>1, <2>2, <2>3, <3>3
         DEF Timed, TimeInv, TimeMatch, TypeOK, FibersTypeOK, TimeTypeOK
    <3>4. CASE f \notin Timed /\ fst[f] = "DONE"
      BY <2>1, <2>2, <2>3, <3>4 DEF TimeInv, TimeMatch, TypeOK, FibersTypeOK, TimeTypeOK
    <3>. QED
      BY <2>4, <3>1, <3>2, <3>3, <3>4 DEF Timed
  <2>. QED
    BY <2>5 DEF TimeInv
<1>3. CASE SchedPoll
  BY <1>3, TimeStay
     DEF SchedPoll, vars, fiberVars, ctxVars, clockVars, timeVars, SameTime
<1>4. CASE SchedGiveUp
  BY <1>4, TimeStay DEF SchedGiveUp, SchedFrame, SameTime
<1>. QED
  BY <1>1, <1>2, <1>3, <1>4 DEF SchedStep

\* Sleep, the trampoline and the thread calls: keeps armed deadlines ahead of
\* the clock and fired ones behind it.
LEMMA ThreadTimeInv == TypeOK /\ RunInv /\ WaitInv /\ TimeInv /\ ThreadStep => TimeInv'
<1> SUFFICES ASSUME TypeOK, RunInv, WaitInv, TimeInv, ThreadStep PROVE TimeInv'
  OBVIOUS
<1>0. PICK me \in Fibers : /\ me = g_cur /\ FieldsMatch(me) /\ TimeMatch(me)
                           /\ ctl = "run" => fst[me] \notin {"BLOCKED", "READY", "DONE"}
  BY CurFiber DEF WaitInv, TimeInv, RunInv, OneRunning
<1>1. CASE SetLastError
  BY <1>1, TimeStay DEF SetLastError, fiberVars, ctxVars, clockVars, timeVars, SameTime
<1>2. CASE SleepYield
  <2>1. ~has_timeout[me]
    BY <1>0, <1>2 DEF SleepYield, Call, Prog, FieldsMatch
  <2>. QED
    BY <1>0, <1>2, <2>1, TimeStay
       DEF SleepYield, Call, Prog, ToSched, clockVars, timeVars, SameTime, TypeOK,
           FibersTypeOK, CtxTypeOK
<1>3. CASE ResumeYield
  BY <1>3, TimeStay
     DEF ResumeYield, Return, clockVars, timeVars, SameTime, TypeOK, FibersTypeOK,
         CtxTypeOK
<1>4. CASE ResumeSleep
  <2>1. \A f \in Fibers : f # me => SameTime(f)
    BY <1>0, <1>4
       DEF ResumeSleep, At, Return, ToSched, timeVars, SameTime, TypeOK, FibersTypeOK,
           CtxTypeOK, TimeTypeOK
  <2>2. TimeMatch(me)'
    BY <1>0, <1>4
       DEF ResumeSleep, At, Return, ToSched, clockVars, timeVars, FieldsMatch,
           TimeMatch, ClockTypeOK, TypeOK, FibersTypeOK, CtxTypeOK, TimeTypeOK
  <2>. QED
    BY <1>4, <2>1, <2>2, TimeOne DEF ResumeSleep, clockVars
<1>5. CASE StartFiber
  <2>1. ~has_timeout[me]
    BY <1>0, <1>5 DEF StartFiber, At, FieldsMatch
  <2>. QED
    BY <1>0, <1>5, <2>1, TimeStay
       DEF StartFiber, At, Return, clockVars, timeVars, SameTime, TypeOK, FibersTypeOK,
           CtxTypeOK
<1>6. CASE ProcessExit
  BY <1>6, TimeStay
     DEF ProcessExit, clockVars, timeVars, SameTime, TypeOK, FibersTypeOK, CtxTypeOK
<1>7. CASE SuspendThread
  BY <1>7, TimeStay
     DEF SuspendThread, Abort, clockVars, timeVars, SameTime, TypeOK, FibersTypeOK,
         CtxTypeOK
<1>8. ASSUME NEW ms \in Delays \cup {Infinite}, Sleep(ms)
      PROVE  TimeInv'
  <2>1. \A f \in Fibers : f # me => SameTime(f)
    BY <1>0, <1>8
       DEF Sleep, Call, Prog, ToSched, timeVars, SameTime, TypeOK, FibersTypeOK,
           CtxTypeOK, TimeTypeOK
  <2>2. TimeMatch(me)'
    BY <1>0, <1>8, MsNat
       DEF Sleep, Call, Prog, ToSched, clockVars, timeVars, FieldsMatch, TimeMatch,
           ClockTypeOK, TypeOK, FibersTypeOK, CtxTypeOK, TimeTypeOK
  <2>. QED
    BY <1>8, <2>1, <2>2, TimeOne DEF Sleep, clockVars
<1>9. ASSUME NEW s \in {"READY", "SUSPENDED"}, CreateThread(s)
      PROVE  TimeInv'
  <2>1. \A f \in Fibers : has_timeout[f] => fst'[f] = fst[f]
    <3>1. CASE g_nfiber >= MaxFiber
      BY <1>9, <3>1 DEF CreateThread
    <3>2. CASE g_nfiber < MaxFiber
      <4>1. g_nfiber \in Fibers /\ g_nfiber \notin Live
        BY <3>2, TableAssumption DEF TypeOK, FibersTypeOK, ClockTypeOK, Fibers, Live
      <4>2. ~has_timeout[g_nfiber]
        BY <4>1 DEF RunInv, TimeInv, TimeMatch
      <4>. QED
        BY <1>9, <3>2, <4>1, <4>2, TableAssumption
           DEF CreateThread, Publish, TypeOK, FibersTypeOK, ClockTypeOK, CtxTypeOK
    <3>. QED
      BY <3>1, <3>2, TableAssumption DEF TypeOK, FibersTypeOK, ClockTypeOK
  <2>. QED
    BY <1>9, <2>1, TimeStay DEF CreateThread, timeVars, SameTime
<1>10. ASSUME NEW code \in ExitCodes, ThreadReturn(code)
      PROVE  TimeInv'
  BY <1>10, TimeStay
     DEF ThreadReturn, clockVars, timeVars, SameTime, TypeOK, FibersTypeOK, CtxTypeOK
<1>11. ASSUME NEW code \in ExitCodes, ExitThread(code)
      PROVE  TimeInv'
  BY <1>11, TimeStay
     DEF ExitThread, clockVars, timeVars, SameTime, TypeOK, FibersTypeOK, CtxTypeOK
<1>12. ASSUME NEW f \in Fibers, NEW code \in ExitCodes, TerminateThread(f, code)
      PROVE  TimeInv'
  BY <1>12, TimeStay
     DEF TerminateThread, clockVars, timeVars, SameTime, TypeOK, FibersTypeOK, CtxTypeOK
<1>13. ASSUME NEW f \in Fibers, ResumeThread(f)
      PROVE  TimeInv'
  BY <1>13, TimeStay
     DEF ResumeThread, clockVars, timeVars, SameTime, TimeInv, TimeMatch, TypeOK,
         FibersTypeOK, CtxTypeOK
<1>. QED
  BY <1>1, <1>2, <1>3, <1>4, <1>5, <1>6, <1>7, <1>8, <1>9, <1>10, <1>11, <1>12, <1>13
     DEF ThreadStep

\* U32_wait and the calls on events, mutexes and semaphores: keeps armed
\* deadlines ahead of the clock and fired ones behind it.
LEMMA HandleTimeInv == TypeOK /\ RunInv /\ WaitInv /\ TimeInv /\ HandleStep => TimeInv'
<1> SUFFICES ASSUME TypeOK, RunInv, WaitInv, TimeInv, HandleStep PROVE TimeInv'
  OBVIOUS
<1>0. PICK me \in Fibers : /\ me = g_cur /\ FieldsMatch(me) /\ TimeMatch(me)
                           /\ ctl = "run" => fst[me] \notin {"BLOCKED", "READY", "DONE"}
  BY CurFiber DEF WaitInv, TimeInv, RunInv, OneRunning
<1>1. ASSUME NEW hs \in WaitSets, NEW all \in BOOLEAN, WaitAtOnce(hs, all)
      PROVE  TimeInv'
  BY <1>1, TimeStay
     DEF WaitAtOnce, WaitFrame, fiberVars, ctxVars, clockVars, timeVars, SameTime
<1>2. ASSUME NEW hs \in WaitSets, NEW all \in BOOLEAN, WaitPoll(hs, all)
      PROVE  TimeInv'
  BY <1>2, TimeStay
     DEF WaitPoll, WaitFrame, fiberVars, ctxVars, clockVars, timeVars, SameTime
<1>3. ASSUME NEW hs \in WaitSets, NEW all \in BOOLEAN, NEW ms \in Delays \cup {Infinite},
             WaitBlock(hs, all, ms)
      PROVE  TimeInv'
  <2>1. \A f \in Fibers : f # me => SameTime(f)
    BY <1>0, <1>3
       DEF WaitBlock, Call, Prog, ToSched, WaitFrame, timeVars, SameTime, TypeOK,
           FibersTypeOK, CtxTypeOK, TimeTypeOK
  <2>2. TimeMatch(me)'
    BY <1>0, <1>3, MsNat
       DEF WaitBlock, Call, Prog, ToSched, WaitFrame, clockVars, timeVars, FieldsMatch,
           TimeMatch, ClockTypeOK, TypeOK, FibersTypeOK, CtxTypeOK, TimeTypeOK
  <2>. QED
    BY <1>3, <2>1, <2>2, TimeOne DEF WaitBlock, WaitFrame, clockVars
<1>4. CASE ResumeWait
  <2>1. \A f \in Fibers : f # me => SameTime(f)
    BY <1>0, <1>4
       DEF ResumeWait, At, Return, ToSched, WaitFrame, timeVars, SameTime, TypeOK,
           FibersTypeOK, CtxTypeOK, TimeTypeOK
  <2>2. TimeMatch(me)'
    BY <1>0, <1>4
       DEF ResumeWait, At, Return, ToSched, WaitFrame, clockVars, timeVars,
           FieldsMatch, TimeMatch, ClockTypeOK, TypeOK, FibersTypeOK, CtxTypeOK,
           TimeTypeOK
  <2>. QED
    BY <1>4, <2>1, <2>2, TimeOne DEF ResumeWait, WaitFrame, clockVars
<1>5. ASSUME NEW a \in BOOLEAN, NEW b \in BOOLEAN, NEW n \in Names \cup {NoName},
             CreateEvent(a, b, n)
      PROVE  TimeInv'
  BY <1>5, TimeStay DEF CreateEvent, fiberVars, ctxVars, clockVars, timeVars, SameTime
<1>6. ASSUME NEW e \in Events, SetEvent(e)
      PROVE  TimeInv'
  BY <1>6, TimeStay
     DEF SetEvent, EvFrame, fiberVars, ctxVars, clockVars, timeVars, SameTime
<1>7. ASSUME NEW e \in Events, ResetEvent(e)
      PROVE  TimeInv'
  BY <1>7, TimeStay
     DEF ResetEvent, EvFrame, fiberVars, ctxVars, clockVars, timeVars, SameTime
<1>8. ASSUME NEW e \in Events, NetReady(e)
      PROVE  TimeInv'
  BY <1>8, TimeStay
     DEF NetReady, EvFrame, fiberVars, ctxVars, clockVars, timeVars, SameTime
<1>9. ASSUME NEW e \in Events, NEW used \in BOOLEAN, WSAEventSelect(e, used)
      PROVE  TimeInv'
  BY <1>9, TimeStay
     DEF WSAEventSelect, EvFrame, fiberVars, ctxVars, clockVars, timeVars, SameTime
<1>10. ASSUME NEW b \in BOOLEAN, NEW n \in Names \cup {NoName}, CreateMutex(b, n)
      PROVE  TimeInv'
  BY <1>10, TimeStay DEF CreateMutex, fiberVars, ctxVars, clockVars, timeVars, SameTime
<1>11. ASSUME NEW m \in Mutexes, ReleaseMutex(m)
      PROVE  TimeInv'
  BY <1>11, TimeStay DEF ReleaseMutex, fiberVars, ctxVars, clockVars, timeVars, SameTime
<1>12. ASSUME NEW i \in 0 .. SemMax, NEW x \in 1 .. SemMax,
              NEW n \in Names \cup {NoName}, CreateSemaphore(i, x, n)
      PROVE  TimeInv'
  BY <1>12, TimeStay
     DEF CreateSemaphore, fiberVars, ctxVars, clockVars, timeVars, SameTime
<1>13. ASSUME NEW s \in Sems, NEW rel \in RelCounts, ReleaseSemaphore(s, rel)
      PROVE  TimeInv'
  BY <1>13, TimeStay
     DEF ReleaseSemaphore, fiberVars, ctxVars, clockVars, timeVars, SameTime
<1>14. ASSUME NEW n \in Names, OpenMissing(n)
      PROVE  TimeInv'
  BY <1>14, TimeStay DEF OpenMissing, fiberVars, ctxVars, clockVars, timeVars, SameTime
<1>. QED
  BY <1>1, <1>2, <1>3, <1>4, <1>5, <1>6, <1>7, <1>8, <1>9, <1>10, <1>11, <1>12, <1>13,
     <1>14
     DEF HandleStep

\* The calls on critical sections, SRW locks and condition variables: keeps
\* armed deadlines ahead of the clock and fired ones behind it.
LEMMA UserLockTimeInv == TypeOK /\ RunInv /\ WaitInv /\ TimeInv /\ UserLockStep => TimeInv'
<1> SUFFICES ASSUME TypeOK, RunInv, WaitInv, TimeInv, UserLockStep PROVE TimeInv'
  OBVIOUS
<1>0. PICK me \in Fibers : /\ me = g_cur /\ FieldsMatch(me) /\ TimeMatch(me)
                           /\ ctl = "run" => fst[me] \notin {"BLOCKED", "READY", "DONE"}
  BY CurFiber DEF WaitInv, TimeInv, RunInv, OneRunning
<1>1. CASE ResumeCs
  <2>1. ~has_timeout[me]
    BY <1>0, <1>1 DEF ResumeCs, At, FieldsMatch
  <2>. QED
    BY <1>0, <1>1, <2>1, TimeStay
       DEF ResumeCs, At, Return, ToSched, CsFrame, clockVars, timeVars, SameTime,
           TypeOK, FibersTypeOK, CtxTypeOK
<1>2. CASE ResumeSrw
  <2>1. ~has_timeout[me]
    BY <1>0, <1>2 DEF ResumeSrw, At, FieldsMatch
  <2>. QED
    BY <1>0, <1>2, <2>1, TimeStay
       DEF ResumeSrw, At, Return, ToSched, SrwFrame, clockVars, timeVars, SameTime,
           TypeOK, FibersTypeOK, CtxTypeOK
<1>3. CASE ResumeCv
  <2>1. \A f \in Fibers : f # me => SameTime(f)
    BY <1>0, <1>3
       DEF ResumeCv, At, CvLeave, ToSched, Fail, timeVars, SameTime, TypeOK,
           FibersTypeOK, CtxTypeOK, TimeTypeOK
  <2>2. TimeMatch(me)'
    BY <1>0, <1>3
       DEF ResumeCv, At, CvLeave, ToSched, Fail, clockVars, timeVars, FieldsMatch,
           TimeMatch, ClockTypeOK, TypeOK, FibersTypeOK, CtxTypeOK, TimeTypeOK
  <2>. QED
    BY <1>3, <2>1, <2>2, TimeOne DEF ResumeCv, clockVars
<1>4. CASE Relock
  <2>1. ~has_timeout[me]
    BY <1>0, <1>4 DEF Relock, At, FieldsMatch
  <2>. QED
    BY <1>0, <1>4, <2>1, TimeStay
       DEF Relock, At, Return, ToSched, clockVars, timeVars, SameTime, TypeOK,
           FibersTypeOK, CtxTypeOK
<1>5. ASSUME NEW x \in CSs \cup SRWs \cup CVs, Initialize(x)
      PROVE  TimeInv'
  BY <1>5, TimeStay DEF Initialize, fiberVars, ctxVars, clockVars, timeVars, SameTime
<1>6. ASSUME NEW x \in CSs \cup SRWs \cup CVs, RegisterFull(x)
      PROVE  TimeInv'
  BY <1>6, TimeStay
     DEF RegisterFull, Abort, clockVars, timeVars, SameTime, TypeOK, FibersTypeOK,
         CtxTypeOK
<1>7. ASSUME NEW c \in CSs, EnterNow(c)
      PROVE  TimeInv'
  BY <1>7, TimeStay
     DEF EnterNow, CsFrame, fiberVars, ctxVars, clockVars, timeVars, SameTime
<1>8. ASSUME NEW c \in CSs, EnterBlock(c)
      PROVE  TimeInv'
  <2>1. ~has_timeout[me]
    BY <1>0, <1>8 DEF EnterBlock, Call, Prog, FieldsMatch
  <2>. QED
    BY <1>0, <1>8, <2>1, TimeStay
       DEF EnterBlock, Call, Prog, ToSched, CsFrame, clockVars, timeVars, SameTime,
           TypeOK, FibersTypeOK, CtxTypeOK
<1>9. ASSUME NEW c \in CSs, LeaveCriticalSection(c)
      PROVE  TimeInv'
  BY <1>9, TimeStay
     DEF LeaveCriticalSection, CsFrame, fiberVars, ctxVars, clockVars, timeVars,
         SameTime
<1>10. ASSUME NEW c \in CSs, DeleteCriticalSection(c)
      PROVE  TimeInv'
  BY <1>10, TimeStay
     DEF DeleteCriticalSection, CsFrame, fiberVars, ctxVars, clockVars, timeVars,
         SameTime
<1>11. ASSUME NEW l \in SRWs, NEW excl \in BOOLEAN, SrwAcquireNow(l, excl)
      PROVE  TimeInv'
  BY <1>11, TimeStay
     DEF SrwAcquireNow, SrwFrame, fiberVars, ctxVars, clockVars, timeVars, SameTime
<1>12. ASSUME NEW l \in SRWs, NEW excl \in BOOLEAN, SrwAcquireBlock(l, excl)
      PROVE  TimeInv'
  <2>1. ~has_timeout[me]
    BY <1>0, <1>12 DEF SrwAcquireBlock, Call, Prog, FieldsMatch
  <2>. QED
    BY <1>0, <1>12, <2>1, TimeStay
       DEF SrwAcquireBlock, Call, Prog, ToSched, SrwFrame, clockVars, timeVars,
           SameTime, TypeOK, FibersTypeOK, CtxTypeOK
<1>13. ASSUME NEW l \in SRWs, NEW excl \in BOOLEAN, ReleaseSRWLock(l, excl)
      PROVE  TimeInv'
  BY <1>13, TimeStay
     DEF ReleaseSRWLock, SrwFrame, fiberVars, ctxVars, clockVars, timeVars, SameTime
<1>14. ASSUME NEW v \in CVs, WakeConditionVariable(v)
      PROVE  TimeInv'
  BY <1>14, TimeStay
     DEF WakeConditionVariable, WakeFrame, fiberVars, ctxVars, clockVars, timeVars,
         SameTime
<1>15. ASSUME NEW v \in CVs, WakeAllConditionVariable(v)
      PROVE  TimeInv'
  BY <1>15, TimeStay
     DEF WakeAllConditionVariable, WakeFrame, fiberVars, ctxVars, clockVars, timeVars,
         SameTime
<1>16. ASSUME NEW v \in CVs, NEW l \in Locks, NEW shared \in BOOLEAN,
              NEW ms \in Delays \cup {0, Infinite},
              SleepConditionVariable(v, l, shared, ms)
      PROVE  TimeInv'
  <2>1. \A f \in Fibers : f # me => SameTime(f)
    BY <1>0, <1>16
       DEF SleepConditionVariable, Call, Prog, ToSched, Fail, timeVars, SameTime,
           TypeOK, FibersTypeOK, CtxTypeOK, TimeTypeOK
  <2>2. TimeMatch(me)'
    BY <1>0, <1>16, MsNat
       DEF SleepConditionVariable, Call, Prog, ToSched, Fail, clockVars, timeVars,
           FieldsMatch, TimeMatch, ClockTypeOK, TypeOK, FibersTypeOK, CtxTypeOK,
           TimeTypeOK
  <2>. QED
    BY <1>16, <2>1, <2>2, TimeOne DEF SleepConditionVariable, clockVars
<1>. QED
  BY <1>1, <1>2, <1>3, <1>4, <1>5, <1>6, <1>7, <1>8, <1>9, <1>10, <1>11, <1>12, <1>13,
     <1>14, <1>15, <1>16
     DEF UserLockStep

\* The thread-pool work calls: keeps armed deadlines ahead of the clock and
\* fired ones behind it.
LEMMA ThreadPoolTimeInv ==
    TypeOK /\ RunInv /\ WaitInv /\ TimeInv /\ ThreadPoolStep => TimeInv'
<1> SUFFICES ASSUME TypeOK, RunInv, WaitInv, TimeInv, ThreadPoolStep PROVE TimeInv'
  OBVIOUS
<1>0. PICK me \in Fibers : /\ me = g_cur /\ FieldsMatch(me) /\ TimeMatch(me)
                           /\ ctl = "run" => fst[me] \notin {"BLOCKED", "READY", "DONE"}
  BY CurFiber DEF WaitInv, TimeInv, RunInv, OneRunning
<1>1. CASE PoolLoop
  <2>1. ~has_timeout[me]
    BY <1>0, <1>1 DEF PoolLoop, At, FieldsMatch
  <2>. QED
    BY <1>0, <1>1, <2>1, TimeStay
       DEF PoolLoop, At, Return, ToSched, TpFrame, clockVars, timeVars, SameTime,
           TypeOK, FibersTypeOK, CtxTypeOK
<1>2. ASSUME NEW w \in Works, CreateThreadpoolWork(w)
      PROVE  TimeInv'
  BY <1>2, TimeStay
     DEF CreateThreadpoolWork, fiberVars, ctxVars, clockVars, timeVars, SameTime
<1>3. ASSUME NEW w \in Works, SubmitThreadpoolWork(w)
      PROVE  TimeInv'
  <2>1. \A f \in Fibers : has_timeout[f] => fst'[f] = fst[f]
    <3>1. CASE g_nfiber >= MaxFiber
      BY <1>3, <3>1 DEF SubmitThreadpoolWork
    <3>2. CASE g_nfiber < MaxFiber
      <4>1. g_nfiber \in Fibers /\ g_nfiber \notin Live
        BY <3>2, TableAssumption DEF TypeOK, FibersTypeOK, ClockTypeOK, Fibers, Live
      <4>2. ~has_timeout[g_nfiber]
        BY <4>1 DEF RunInv, TimeInv, TimeMatch
      <4>. QED
        BY <1>3, <3>2, <4>1, <4>2, TableAssumption
           DEF SubmitThreadpoolWork, Publish, TypeOK, FibersTypeOK, ClockTypeOK,
               CtxTypeOK
    <3>. QED
      BY <3>1, <3>2, TableAssumption DEF TypeOK, FibersTypeOK, ClockTypeOK
  <2>. QED
    BY <1>3, <2>1, TimeStay DEF SubmitThreadpoolWork, timeVars, SameTime
<1>4. ASSUME NEW w \in Works, CloseThreadpoolWork(w)
      PROVE  TimeInv'
  BY <1>4, TimeStay
     DEF CloseThreadpoolWork, fiberVars, ctxVars, clockVars, timeVars, SameTime
<1>5. ASSUME NEW w \in Works, NEW cancel \in BOOLEAN,
             WaitForThreadpoolWorkCallbacks(w, cancel)
      PROVE  TimeInv'
  BY <1>5, TimeStay
     DEF WaitForThreadpoolWorkCallbacks, clockVars, timeVars, SameTime, TypeOK,
         FibersTypeOK, CtxTypeOK
<1>. QED
  BY <1>1, <1>2, <1>3, <1>4, <1>5 DEF ThreadPoolStep

\* Only SchedAdvance moves the virtual clock.
LEMMA ClockMover == Next => SchedAdvance \/ g_vclock' = g_vclock
<1>1. SchedStep => SchedAdvance \/ g_vclock' = g_vclock
  BY
     DEF SchedStep, SchedDispatch, SchedPoll, SchedGiveUp, SchedFrame, vars, fiberVars,
         clockVars
<1>2. ThreadStep => g_vclock' = g_vclock
  BY
     DEF ThreadStep, SetLastError, SleepYield, ResumeYield, ResumeSleep, StartFiber,
         ProcessExit, SuspendThread, Sleep, CreateThread, ThreadReturn, ExitThread,
         TerminateThread, ResumeThread, fiberVars, clockVars
<1>3. HandleStep => g_vclock' = g_vclock
  BY
     DEF HandleStep, WaitAtOnce, WaitPoll, WaitBlock, ResumeWait, CreateEvent,
         SetEvent, ResetEvent, NetReady, WSAEventSelect, CreateMutex, ReleaseMutex,
         CreateSemaphore, ReleaseSemaphore, OpenMissing, WaitFrame, EvFrame, fiberVars,
         clockVars
<1>4. UserLockStep => g_vclock' = g_vclock
  BY
     DEF UserLockStep, ResumeCs, ResumeSrw, ResumeCv, Relock, Initialize, RegisterFull,
         EnterNow, EnterBlock, LeaveCriticalSection, DeleteCriticalSection,
         SrwAcquireNow, SrwAcquireBlock, ReleaseSRWLock, WakeConditionVariable,
         WakeAllConditionVariable, SleepConditionVariable, CsFrame, SrwFrame,
         WakeFrame, fiberVars, clockVars
<1>5. ThreadPoolStep => g_vclock' = g_vclock
  BY
     DEF ThreadPoolStep, PoolLoop, CreateThreadpoolWork, SubmitThreadpoolWork,
         CloseThreadpoolWork, WaitForThreadpoolWorkCallbacks, fiberVars, clockVars
<1>. QED
  BY <1>1, <1>2, <1>3, <1>4, <1>5 DEF Next, Gone, vars, fiberVars, clockVars

-----------------------------------------------------------------------------
\* No mutex is touched and no fiber comes back from DONE.
LEMMA MutexStay ==
    ASSUME TypeOK, MutexInv, UNCHANGED mxVars,
           \A f \in Fibers : fst'[f] # "DONE" => fst[f] # "DONE"
    PROVE  MutexInv'
  BY DEF MutexInv, MutexExclusion, mxVars

\* What a satisfied wait takes, it was entitled to: every mutex among it was
\* free, the caller's own, or left behind by a finished fiber.
LEMMA TakenMutex ==
    ASSUME NEW hs, NEW all, WaitOk(hs, all, g_cur), NEW i \in DOMAIN hs,
           IF all THEN i = 1 ELSE FirstSignaled(hs, i),
           NEW m \in Taken(hs, all, i, IsMutex)
    PROVE  /\ m < g_nmutex
           /\ mx_owner[m] \notin {0, g_cur + 1} => fst[mx_owner[m] - 1] = "DONE"
<1>1. PICK k \in DOMAIN hs : (all \/ k = i) /\ IsMutex(hs[k]) /\ m = hs[k][2]
  BY DEF Taken
<1>2. u32_handle_signaled_for(hs[k], g_cur)
  BY <1>1 DEF WaitOk, FirstSignaled
<1>. QED
  BY <1>1, <1>2 DEF u32_handle_signaled_for, IsMutex

\* u32_wait takes its objects: the mutexes among them become the caller's.
LEMMA MutexTaken ==
    ASSUME TypeOK, MutexInv, NEW hs, NEW all, Satisfy(hs, all), UNCHANGED fst,
           fst[g_cur] # "DONE"
    PROVE  MutexInv'
<1>0. g_cur \in Fibers /\ g_cur \in Nat
  BY CurFiber DEF Fibers
<1>1. PICK i \in DOMAIN hs : /\ IF all THEN i = 1 ELSE FirstSignaled(hs, i)
                             /\ Acquire(hs, all, i)
  BY DEF Satisfy
<1> DEFINE M == Taken(hs, all, i, IsMutex)
<1>2. g_nmutex' = g_nmutex
  BY DEF Satisfy
<1>3. \A m \in M : /\ m < g_nmutex
                   /\ mx_owner[m] \notin {0, g_cur + 1} => fst[mx_owner[m] - 1] = "DONE"
  BY <1>1, TakenMutex DEF Satisfy
<1>4. \A m \in Mutexes : /\ mx_owner'[m] = IF m \in M THEN g_cur + 1 ELSE mx_owner[m]
                         /\ mx_rec'[m] = mx_rec[m] + (IF m \in M THEN 1 ELSE 0)
  BY <1>1 DEF Acquire
<1>5. \A f \in Fibers, m \in Mutexes :
        held_mx'[f][m] = held_mx[f][m] + (IF f = g_cur /\ m \in M THEN 1 ELSE 0)
  BY <1>0, <1>1 DEF Acquire, TypeOK, TablesTypeOK, MxTypeOK
<1> HIDE DEF M
<1>6. ASSUME NEW m \in Mutexes, m \notin M
      PROVE  /\ \A f \in Fibers : fst'[f] # "DONE" /\ held_mx'[f][m] > 0 =>
                    mx_owner'[m] = f + 1 /\ mx_rec'[m] >= held_mx'[f][m]
             /\ (mx_owner'[m] = 0) = (mx_rec'[m] = 0)
             /\ m >= g_nmutex' => mx_owner'[m] = 0
  BY <1>2, <1>4, <1>5, <1>6 DEF MutexInv, MutexExclusion, TypeOK, TablesTypeOK, MxTypeOK
<1>7. ASSUME NEW m \in Mutexes, m \in M
      PROVE  /\ \A f \in Fibers : fst'[f] # "DONE" /\ held_mx'[f][m] > 0 =>
                    mx_owner'[m] = f + 1 /\ mx_rec'[m] >= held_mx'[f][m]
             /\ (mx_owner'[m] = 0) = (mx_rec'[m] = 0)
             /\ m >= g_nmutex' => mx_owner'[m] = 0
  <2>1. /\ mx_owner'[m] = g_cur + 1 /\ mx_rec'[m] = mx_rec[m] + 1
        /\ mx_rec[m] \in Nat /\ m \in Nat /\ g_nmutex \in Nat
    BY <1>4, <1>7, TableAssumption DEF TypeOK, TablesTypeOK, MxTypeOK, Mutexes
  <2>2. ASSUME NEW f \in Fibers, f # g_cur, fst[f] # "DONE"
        PROVE  held_mx'[f][m] = 0
    <3>1. held_mx'[f][m] = held_mx[f][m] /\ held_mx[f][m] \in Nat
      BY <1>5, <2>2 DEF TypeOK, TablesTypeOK, MxTypeOK
    <3>2. ASSUME held_mx[f][m] > 0
          PROVE  FALSE
      <4>1. mx_owner[m] = f + 1 /\ f \in Nat
        BY <2>2, <3>2 DEF MutexInv, MutexExclusion, Fibers
      <4>. QED
        BY <1>0, <1>3, <1>7, <2>2, <4>1
    <3>. QED
      BY <3>1, <3>2
  <2>3. held_mx'[g_cur][m] = held_mx[g_cur][m] + 1 /\ held_mx[g_cur][m] \in Nat
    BY <1>0, <1>5, <1>7 DEF TypeOK, TablesTypeOK, MxTypeOK
  <2>4. mx_rec[m] >= held_mx[g_cur][m]
    BY <1>0, <2>1, <2>3 DEF MutexInv, MutexExclusion
  <2>. QED
    BY <1>0, <1>2, <1>3, <1>7, <2>1, <2>2, <2>3, <2>4
<1>. QED
  BY <1>6, <1>7 DEF MutexInv, MutexExclusion

\* CreateMutex hands out a slot nobody was inside.
LEMMA MutexCreated ==
    ASSUME TypeOK, MutexInv, NEW b \in BOOLEAN, NEW n, CreateMutex(b, n)
    PROVE  MutexInv'
<1>0. g_cur \in Fibers /\ g_cur \in Nat
  BY CurFiber DEF Fibers
<1>1. fst' = fst
  BY DEF CreateMutex, fiberVars, ctxVars
<1>2. CASE UNCHANGED mxVars
  BY <1>1, <1>2, MutexStay
<1>3. CASE ~UNCHANGED mxVars
  <2>1. /\ g_nmutex < MaxMutex /\ g_nmutex \in Mutexes /\ g_nmutex \in Nat
        /\ g_nmutex' = g_nmutex + 1
    BY <1>3, TableAssumption DEF CreateMutex, TypeOK, TablesTypeOK, MxTypeOK, Mutexes
  <2>2. /\ mx_owner' = [mx_owner EXCEPT ![g_nmutex] = IF b THEN g_cur + 1 ELSE 0]
        /\ mx_rec' = [mx_rec EXCEPT ![g_nmutex] = IF b THEN 1 ELSE 0]
        /\ held_mx' = [held_mx EXCEPT ![g_cur][g_nmutex] = IF b THEN 1 ELSE 0]
    BY <1>3 DEF CreateMutex
  <2>3. \A f \in Fibers : fst[f] # "DONE" => held_mx[f][g_nmutex] = 0
    BY <2>1 DEF MutexInv, MutexExclusion, Fibers, TypeOK, TablesTypeOK, MxTypeOK
  <2>4. ASSUME NEW m \in Mutexes
        PROVE  /\ \A f \in Fibers : fst'[f] # "DONE" /\ held_mx'[f][m] > 0 =>
                      mx_owner'[m] = f + 1 /\ mx_rec'[m] >= held_mx'[f][m]
               /\ (mx_owner'[m] = 0) = (mx_rec'[m] = 0)
               /\ m >= g_nmutex' => mx_owner'[m] = 0
    <3>1. CASE m = g_nmutex
      BY <1>0, <1>1, <2>1, <2>2, <2>3, <3>1 DEF TypeOK, TablesTypeOK, MxTypeOK
    <3>2. CASE m # g_nmutex
      <4>1. /\ mx_owner'[m] = mx_owner[m] /\ mx_rec'[m] = mx_rec[m]
            /\ \A f \in Fibers : held_mx'[f][m] = held_mx[f][m]
        BY <1>0, <2>1, <2>2, <3>2 DEF TypeOK, TablesTypeOK, MxTypeOK
      <4>2. m \in Nat
        BY DEF Mutexes
      <4>. QED
        BY <1>1, <2>1, <3>2, <4>1, <4>2 DEF MutexInv, MutexExclusion
    <3>. QED
      BY <3>1, <3>2
  <2>. QED
    BY <2>4 DEF MutexInv, MutexExclusion
<1>. QED
  BY <1>2, <1>3

\* ReleaseMutex by the owner takes one from the depth and frees it at zero.
LEMMA MutexReleased ==
    ASSUME TypeOK, MutexInv, NEW m \in Mutexes, ReleaseMutex(m), fst[g_cur] # "DONE"
    PROVE  MutexInv'
<1>0. g_cur \in Fibers /\ g_cur \in Nat
  BY CurFiber DEF Fibers
<1>1. fst' = fst /\ g_nmutex' = g_nmutex /\ m < g_nmutex /\ mx_owner[m] = g_cur + 1
  BY DEF ReleaseMutex, fiberVars, ctxVars
<1>2. mx_rec[m] \in Nat /\ mx_rec[m] > 0
  BY <1>0, <1>1 DEF MutexInv, MutexExclusion, TypeOK, TablesTypeOK, MxTypeOK
<1>3. /\ mx_rec' = [mx_rec EXCEPT ![m] = @ - 1]
      /\ mx_owner' = [mx_owner EXCEPT ![m] = IF mx_rec[m] = 1 THEN 0 ELSE @]
      /\ held_mx' = [held_mx EXCEPT ![g_cur][m] = IF @ > 0 THEN @ - 1 ELSE @]
  BY <1>2 DEF ReleaseMutex
<1>4. ASSUME NEW f \in Fibers, f # g_cur, fst[f] # "DONE"
      PROVE  held_mx[f][m] = 0
  <2>1. held_mx[f][m] \in Nat /\ f \in Nat
    BY DEF TypeOK, TablesTypeOK, MxTypeOK, Fibers
  <2>2. held_mx[f][m] > 0 => mx_owner[m] = f + 1
    BY <1>4 DEF MutexInv, MutexExclusion
  <2>. QED
    BY <1>0, <1>1, <1>4, <2>1, <2>2
<1>5. held_mx[g_cur][m] \in Nat /\ held_mx[g_cur][m] <= mx_rec[m]
  BY <1>0, <1>2 DEF MutexInv, MutexExclusion, TypeOK, TablesTypeOK, MxTypeOK
<1>6. ASSUME NEW k \in Mutexes
      PROVE  /\ \A f \in Fibers : fst'[f] # "DONE" /\ held_mx'[f][k] > 0 =>
                    mx_owner'[k] = f + 1 /\ mx_rec'[k] >= held_mx'[f][k]
             /\ (mx_owner'[k] = 0) = (mx_rec'[k] = 0)
             /\ k >= g_nmutex' => mx_owner'[k] = 0
  <2>1. CASE k = m
    <3>1. /\ mx_rec'[k] = mx_rec[m] - 1
          /\ mx_owner'[k] = IF mx_rec[m] = 1 THEN 0 ELSE g_cur + 1
          /\ held_mx'[g_cur][k] = IF held_mx[g_cur][m] > 0 THEN held_mx[g_cur][m] - 1 ELSE 0
          /\ \A f \in Fibers : f # g_cur => held_mx'[f][k] = held_mx[f][m]
      BY <1>0, <1>1, <1>3, <1>5, <2>1 DEF TypeOK, TablesTypeOK, MxTypeOK
    <3>2. m \in Nat /\ g_nmutex \in Nat
      BY DEF Mutexes, TypeOK, TablesTypeOK, MxTypeOK
    <3>. QED
      BY <1>0, <1>1, <1>2, <1>4, <1>5, <2>1, <3>1, <3>2
  <2>2. CASE k # m
    <3>1. /\ mx_owner'[k] = mx_owner[k] /\ mx_rec'[k] = mx_rec[k]
          /\ \A f \in Fibers : held_mx'[f][k] = held_mx[f][k]
      BY <1>0, <1>3, <2>2 DEF TypeOK, TablesTypeOK, MxTypeOK
    <3>. QED
      BY <1>1, <3>1 DEF MutexInv, MutexExclusion
  <2>. QED
    BY <2>1, <2>2
<1>. QED
  BY <1>6 DEF MutexInv, MutexExclusion

\* Every other step leaves the mutex table and its ghost alone.
LEMMA MutexMover ==
    Next => \/ UNCHANGED mxVars
            \/ /\ ctl = "run"
               /\ \/ \E hs, all : Satisfy(hs, all) /\ UNCHANGED fst
                  \/ \E b \in BOOLEAN, n \in Names \cup {NoName} : CreateMutex(b, n)
                  \/ \E m \in Mutexes : ReleaseMutex(m)
<1>1. SchedStep => UNCHANGED mxVars
  BY
     DEF SchedStep, SchedDispatch, SchedAdvance, SchedPoll, SchedGiveUp, SchedFrame,
         vars, kernVars
<1>2. ThreadStep => UNCHANGED mxVars
  BY
     DEF ThreadStep, SetLastError, SleepYield, ResumeYield, ResumeSleep, StartFiber,
         ProcessExit, SuspendThread, Sleep, CreateThread, ThreadReturn, ExitThread,
         TerminateThread, ResumeThread, ObjFrame, kernVars
<1>3. ASSUME HandleStep
      PROVE  \/ UNCHANGED mxVars
             \/ /\ ctl = "run"
                /\ \/ \E hs, all : Satisfy(hs, all) /\ UNCHANGED fst
                   \/ \E b \in BOOLEAN, n \in Names \cup {NoName} : CreateMutex(b, n)
                   \/ \E m \in Mutexes : ReleaseMutex(m)
  <2>1. ASSUME NEW hs \in WaitSets, NEW all, WaitAtOnce(hs, all)
        PROVE  ctl = "run" /\ Satisfy(Clipped(hs), all) /\ UNCHANGED fst
    BY <2>1 DEF WaitAtOnce, Call, Prog, ctxVars
  <2>2. ASSUME ResumeWait
        PROVE  \/ UNCHANGED mxVars
               \/ ctl = "run" /\ Satisfy(wait_h[g_cur], wait_all[g_cur]) /\ UNCHANGED fst
    BY <2>2 DEF ResumeWait, At, Return, kernVars
  <2>3. ASSUME NEW hs \in WaitSets, NEW all,
               WaitPoll(hs, all) \/ \E ms \in Delays \cup {Infinite} : WaitBlock(hs, all, ms)
        PROVE  UNCHANGED mxVars
    BY <2>3 DEF WaitPoll, WaitBlock, kernVars
  <2>4. ASSUME NEW b \in BOOLEAN, NEW n \in Names \cup {NoName}, CreateMutex(b, n)
        PROVE  ctl = "run"
    BY <2>4 DEF CreateMutex, Call, Prog
  <2>5. ASSUME NEW m \in Mutexes, ReleaseMutex(m)
        PROVE  ctl = "run"
    BY <2>5 DEF ReleaseMutex, Call, Prog
  <2>6. ASSUME \/ \E a, b \in BOOLEAN, n \in Names \cup {NoName} : CreateEvent(a, b, n)
               \/ \E e \in Events : \/ SetEvent(e) \/ ResetEvent(e) \/ NetReady(e)
                                    \/ \E used \in BOOLEAN : WSAEventSelect(e, used)
               \/ \E i \in 0 .. SemMax, n \in Names \cup {NoName} :
                    \E x \in 1 .. SemMax : CreateSemaphore(i, x, n)
               \/ \E s \in Sems, rel \in RelCounts : ReleaseSemaphore(s, rel)
               \/ \E n \in Names : OpenMissing(n)
        PROVE  UNCHANGED mxVars
    BY <2>6
       DEF CreateEvent, SetEvent, ResetEvent, NetReady, WSAEventSelect, EvFrame,
           CreateSemaphore, ReleaseSemaphore, OpenMissing, kernVars
  <2>. QED
    BY <1>3, <2>1, <2>2, <2>3, <2>4, <2>5, <2>6 DEF HandleStep
<1>4. UserLockStep => UNCHANGED mxVars
  BY
     DEF UserLockStep, ResumeCs, ResumeSrw, ResumeCv, Relock, Initialize, RegisterFull,
         EnterNow, EnterBlock, LeaveCriticalSection, DeleteCriticalSection,
         SrwAcquireNow, SrwAcquireBlock, ReleaseSRWLock, WakeConditionVariable,
         WakeAllConditionVariable, SleepConditionVariable, CsFrame, SrwFrame,
         WakeFrame, ObjFrame, kernVars
<1>5. ThreadPoolStep => UNCHANGED mxVars
  BY
     DEF ThreadPoolStep, PoolLoop, CreateThreadpoolWork, SubmitThreadpoolWork,
         CloseThreadpoolWork, WaitForThreadpoolWorkCallbacks, TpFrame, kernVars
<1>. QED
  BY <1>1, <1>2, <1>3, <1>4, <1>5 DEF Next, Gone, vars, kernVars

\* Every step keeps the mutex invariant.
LEMMA StepMutexInv ==
    ASSUME TypeOK, RunInv, MutexInv, Next,
           \A f \in Fibers : fst[f] = "DONE" => fst'[f] = "DONE"
    PROVE  MutexInv'
<1>1. ctl = "run" => fst[g_cur] # "DONE"
  BY CurFiber DEF RunInv, OneRunning
<1>. QED
  BY <1>1, MutexMover, MutexStay, MutexTaken, MutexCreated, MutexReleased

-----------------------------------------------------------------------------
(* The inductive invariant.                                                 *)

IInv == TypeOK /\ RunInv /\ WaitInv /\ ErrInv /\ TimeInv /\ MutexInv

\* The zeroed static tables, with fiber 0 running, satisfy the invariant.
LEMMA InitIInv == Init => IInv
<1> SUFFICES ASSUME Init PROVE IInv
  OBVIOUS
<1>1. TypeOK
  BY InitType
<1> USE DEF Init, FibersInit, TablesInit
<1>2. RunInv
  BY DEF RunInv, OneRunning, Live, Fibers
<1>3. WaitInv
  BY DEF WaitInv, FieldsMatch
<1>4. ErrInv
  BY <1>1, CurFiber DEF ErrInv, LastErrorIsolated
<1>5. TimeInv
  BY DEF TimeInv, TimeMatch
<1>6. MutexInv
  BY DEF MutexInv, MutexExclusion
<1>. QED
  BY <1>1, <1>2, <1>3, <1>4, <1>5, <1>6 DEF IInv

\* A step that changes nothing keeps it.
LEMMA StutterIInv == IInv /\ UNCHANGED vars => IInv'
<1> SUFFICES ASSUME IInv, UNCHANGED vars PROVE IInv'
  OBVIOUS
<1> USE DEF IInv, vars, fiberVars, kernVars
<1>1. TypeOK' /\ RunInv'
  BY StutterTypeOK, RunStay
<1>2. WaitInv'
  BY WaitStay DEF ctxVars, timeVars
<1>3. ErrInv'
  BY ErrStay DEF ctxVars, clockVars, errVars
<1>4. TimeInv'
  BY TimeStay DEF SameTime, ctxVars, clockVars, timeVars
<1>5. MutexInv'
  BY MutexStay DEF ctxVars
<1>. QED
  BY <1>1, <1>2, <1>3, <1>4, <1>5

\* No step of the runtime or of the program brings a finished fiber back.
LEMMA StepDoneKept == IInv /\ [Next]_vars => DoneKept
<1> SUFFICES ASSUME IInv, [Next]_vars PROVE DoneKept
  OBVIOUS
<1>1. CASE UNCHANGED vars
  BY <1>1 DEF DoneKept, vars, fiberVars, ctxVars
<1>2. CASE Next
  BY <1>1, <1>2, SchedDoneKept, ThreadDoneKept, HandleDoneKept, UserLockDoneKept,
     ThreadPoolDoneKept
     DEF Next, Gone, IInv
<1>. QED
  BY <1>1, <1>2

\* Every step keeps the invariant.
LEMMA StepIInv == IInv /\ [Next]_vars => IInv'
<1> SUFFICES ASSUME IInv, Next PROVE IInv'
  BY StutterIInv
<1>1. CASE Gone
  BY <1>1, StutterIInv DEF Gone
<1>2. CASE ~Gone
  <2> USE <1>2 DEF IInv, Next
  <2>1. TypeOK'
    BY StepTypeOK
  <2>2. RunInv'
    BY SchedRunInv, ThreadRunInv, HandleRunInv, UserLockRunInv, ThreadPoolRunInv
  <2>3. WaitInv'
    BY SchedWaitInv, ThreadWaitInv, HandleWaitInv, UserLockWaitInv, ThreadPoolWaitInv
  <2>4. ErrInv'
    BY SchedErrInv, ThreadErrInv, HandleErrInv, UserLockErrInv, ThreadPoolErrInv
  <2>5. TimeInv'
    BY SchedTimeInv, ThreadTimeInv, HandleTimeInv, UserLockTimeInv, ThreadPoolTimeInv
  <2>6. MutexInv'
    BY StepDoneKept, StepMutexInv DEF DoneKept
  <2>. QED
    BY <2>1, <2>2, <2>3, <2>4, <2>5, <2>6
<1>. QED
  BY <1>1, <1>2

\* IInv holds in every reachable state, for every program and every table size.
THEOREM Invariance == Spec => []IInv
  BY InitIInv, StepIInv, PTL DEF Spec

-----------------------------------------------------------------------------
(* What follows.                                                            *)

\* Every field of the fiber and object tables stays in its range: indices name
\* slots of the tables, owners are fibers, counts are not negative.
THEOREM TypeCorrect == Spec => []TypeOK
<1>1. IInv => TypeOK
  BY DEF IInv
<1>. QED
  BY <1>1, Invariance, PTL

\* u32_sched_loop and u32_to_sched never leave two fibers RUNNING, and g_cur is
\* the fiber whose code is executing.
THEOREM RunningUnique == Spec => []OneRunning
<1>1. IInv => OneRunning
  BY DEF IInv, RunInv
<1>. QED
  BY <1>1, Invariance, PTL

\* u32_fiber_runnable always finds the field of the wait the fiber is really in.
THEOREM WaitFieldsSound == Spec => []WaitFieldsMatch
<1>1. IInv => WaitFieldsMatch
  <2> SUFFICES ASSUME IInv, NEW f \in Fibers, fst[f] \in {"BLOCKED", "READY"}
               PROVE  /\ (wait_cv[f] # NoAddr) = (pc[f] = "cv")
                      /\ (wait_h[f] # <<>>) = (pc[f] = "wait")
                      /\ wait_cs[f] # NoAddr => pc[f] \in {"cs", "relock"}
                      /\ wait_srw[f] # NoAddr => pc[f] \in {"srw", "relock"}
                      /\ pc[f] = "cs" => wait_cs[f] # NoAddr
                      /\ pc[f] = "srw" => wait_srw[f] # NoAddr
                      /\ pc[f] = "relock" => (wait_cs[f] # NoAddr) # (wait_srw[f] # NoAddr)
                      /\ has_timeout[f] => pc[f] \in {"sleep", "wait", "cv"}
    BY DEF WaitFieldsMatch
  <2>1. FieldsMatch(f)
    BY DEF IInv, WaitInv
  <2>2. pc[f] = "relock" => (wait_cs[f] # NoAddr) # (wait_srw[f] # NoAddr)
    <3>1. wait_cs[f] \in CSs \cup {NoAddr} /\ wait_srw[f] \in SRWs \cup {NoAddr}
      BY DEF IInv, TypeOK, FibersTypeOK, WaitTypeOK
    <3>. QED
      BY <2>1, <3>1, AddressAssumption DEF FieldsMatch
  <2>. QED
    BY <2>1, <2>2 DEF FieldsMatch
<1>. QED
  BY <1>1, Invariance, PTL

\* Although g_last_error is one global, the running fiber always reads the
\* value it set itself: u32_to_sched saves it and the dispatch restores it.
THEOREM LastErrorPerFiber == Spec => []LastErrorIsolated
<1>1. IInv => LastErrorIsolated
  BY DEF IInv, ErrInv
<1>. QED
  BY <1>1, Invariance, PTL

\* The virtual clock never passes the deadline of a blocked fiber.
THEOREM DeadlinesAhead == Spec => []NoMissedDeadline
<1>1. IInv => NoMissedDeadline
  BY DEF IInv, TimeInv, TimeMatch, NoMissedDeadline
<1>. QED
  BY <1>1, Invariance, PTL

\* timed_out is never stale: a wait that reports a time-out has reached its
\* deadline.
THEOREM TimeoutsDue == Spec => []NoEarlyTimeout
<1>1. IInv => NoEarlyTimeout
  BY
     DEF IInv, TypeOK, FibersTypeOK, TimeTypeOK, ClockTypeOK, TimeInv, TimeMatch,
         NoEarlyTimeout
<1>. QED
  BY <1>1, Invariance, PTL

\* Time-outs are neither early nor overdue.
THEOREM TimeoutsExact == Spec => []DeadlinesKept
  BY DeadlinesAhead, TimeoutsDue, PTL DEF DeadlinesKept

\* Setting g_vclock to the earliest deadline never sets it back.
THEOREM ClockNeverBack == Spec => ClockMonotone
<1>1. ASSUME IInv, [Next]_vars
      PROVE  [g_vclock' >= g_vclock]_vars
  <2>1. g_vclock \in Nat
    BY <1>1 DEF IInv, TypeOK, FibersTypeOK, ClockTypeOK
  <2>2. CASE SchedAdvance
    <3>1. PICK e \in Timed : g_vclock' = wake_time[e]
      BY <2>2 DEF SchedAdvance
    <3>2. e \in Fibers /\ wake_time[e] >= g_vclock
      BY <1>1, LiveFibers DEF IInv, Timed, TimeInv, TimeMatch
    <3>. QED
      BY <3>1, <3>2
  <2>3. CASE Next /\ ~SchedAdvance
    BY <2>1, <2>3, ClockMover
  <2>. QED
    BY <1>1, <2>2, <2>3
<1>. QED
  BY <1>1, Invariance, PTL DEF Spec, ClockMonotone

\* No call, and no pass of the scheduler, resumes, readies or dispatches a fiber
\* that is DONE.
THEOREM DoneForever == Spec => DoneIsFinal
<1>1. ASSUME IInv, [Next]_vars
      PROVE  [\A f \in Fibers : fst[f] = "DONE" => fst'[f] = "DONE"]_vars
  BY <1>1, StepDoneKept DEF DoneKept
<1>. QED
  BY <1>1, Invariance, PTL DEF Spec, DoneIsFinal

\* Neither the clock nor the end of a fiber is ever taken back.
THEOREM NothingBack == Spec => NeverBack
  BY ClockNeverBack, DoneForever, PTL DEF NeverBack

\* No two live fibers are inside one mutex, abandoned mutexes included: whoever
\* is inside is the owner u32_handle_acquire wrote, at least as deep.
THEOREM MutexSafe == Spec => []MutexExclusion
<1>1. IInv => MutexExclusion
  BY DEF IInv, MutexInv
<1>. QED
  BY <1>1, Invariance, PTL
================================================================================
