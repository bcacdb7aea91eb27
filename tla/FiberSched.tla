------------------------------ MODULE FiberSched ------------------------------
(***************************************************************************)
(* The cooperative scheduler of the HLE runtime and the life of a fiber     *)
(* (runtime/aret_hle/aret_win32.c): the fiber table, u32_sched_loop, the    *)
(* trampoline, Sleep, CreateThread, ResumeThread, ExitThread and            *)
(* TerminateThread.                                                         *)
(*                                                                          *)
(* One host thread runs everything.  Control is either with the fiber g_cur *)
(* (ctl = "run"), with the scheduler (ctl = "sched"), or nowhere any more   *)
(* (the process has left: "exit", or aret_unmodelled has aborted it:        *)
(* "abort").  A step is what happens between two swapcontext calls, so a    *)
(* call that does not block is one step, and a call that blocks is one step *)
(* up to the swap and one step for every time it is resumed.  pc[f] is      *)
(* where the saved context of f will continue: "prog" is the program's own  *)
(* code, every other label a wait loop inside the runtime.                  *)
(*                                                                          *)
(* The program is the most general client: whenever its code runs it may    *)
(* make any call of Api, with any argument of the small sets below.         *)
(***************************************************************************)
EXTENDS SyncTables

CONSTANTS
    Api,          \* the calls the program may make
    Delays,       \* finite, non-zero time-outs in ms
    Infinite,     \* U32_INFINITE
    MaxClock,     \* bound: no finite wait is started that would end later
    ErrCodes,     \* arguments of SetLastError
    ExitCodes,    \* exit codes of threads
    MaxRec,       \* bound: acquisitions of one lock one fiber has not released
    Disciplined   \* TRUE: the program keeps the documented rules of the Win32 calls

ASSUME TimeAssumption ==
    /\ Delays \subseteq Nat \ {0} /\ Infinite \in Nat \ {0} /\ Infinite \notin Delays
    /\ MaxClock \in Nat
ASSUME CodeAssumption == ErrCodes \subseteq Nat /\ ExitCodes \subseteq Nat
ASSUME ClientAssumption == MaxRec \in Nat \ {0} /\ Disciplined \in BOOLEAN

VARIABLES
    ctl, pc,
    g_nfiber, g_cur, g_rr, g_vclock, g_sched_ready,
    fst,                                     \* g_fiber[].state
    exit_code, last_error, pool_work,
    wait_h,                                  \* wait_h[0 .. wait_n - 1]
    wait_all, wait_cs, wait_srw, wait_srw_excl, wait_cv,
    has_timeout, timed_out, wake_time,
    cv_lock, cv_shared,                      \* locals of u32_condvar_sleep
    tp_wait,                                 \* local w of WaitForThreadpoolWorkCallbacks
    g_last_error,
    own_error                                \* GHOST: the fiber's own last SetLastError

errVars   == <<g_last_error, own_error>>
clockVars == <<g_nfiber, g_cur, g_rr, g_vclock>>
waitVars  == <<wait_h, wait_all, wait_cs, wait_srw, wait_srw_excl, wait_cv>>
timeVars  == <<has_timeout, timed_out, wake_time>>
localVars == <<cv_lock, cv_shared, tp_wait>>
ctxVars   == <<ctl, pc, fst, last_error, g_sched_ready>>
idVars    == <<exit_code, pool_work>>
fiberVars == <<ctxVars, idVars, clockVars, waitVars, timeVars, localVars>>
vars      == <<fiberVars, errVars, userVars, kernVars, tpVars>>

FST    == {"FREE", "SUSPENDED", "READY", "RUNNING", "BLOCKED", "DONE"}
Labels == {"new", "prog", "yield", "sleep", "wait", "cs", "srw", "cv", "relock", "pool"}
Live   == 0 .. g_nfiber - 1

FibersInit ==
    /\ ctl = "run" /\ g_nfiber = 1 /\ g_cur = 0 /\ g_rr = 0 /\ g_vclock = 0
    /\ g_sched_ready = FALSE /\ g_last_error = 0
    /\ pc = [f \in Fibers |-> IF f = 0 THEN "prog" ELSE "new"]
    /\ fst = [f \in Fibers |-> "FREE"]       \* fiber 0 runs in this state at first
    /\ exit_code = [f \in Fibers |-> 0] /\ last_error = [f \in Fibers |-> 0]
    /\ own_error = [f \in Fibers |-> 0] /\ pool_work = [f \in Fibers |-> NoWork]
    /\ wait_h = [f \in Fibers |-> <<>>] /\ wait_all = [f \in Fibers |-> FALSE]
    /\ wait_cs = [f \in Fibers |-> NoAddr] /\ wait_srw = [f \in Fibers |-> NoAddr]
    /\ wait_srw_excl = [f \in Fibers |-> FALSE] /\ wait_cv = [f \in Fibers |-> NoAddr]
    /\ has_timeout = [f \in Fibers |-> FALSE] /\ timed_out = [f \in Fibers |-> FALSE]
    /\ wake_time = [f \in Fibers |-> 0]
    /\ cv_lock = [f \in Fibers |-> NoAddr] /\ cv_shared = [f \in Fibers |-> FALSE]
    /\ tp_wait = [f \in Fibers |-> NoWork]

CtxTypeOK ==
    /\ ctl \in {"run", "sched", "exit", "abort"} /\ g_sched_ready \in BOOLEAN
    /\ pc \in [Fibers -> Labels] /\ fst \in [Fibers -> FST]
    /\ last_error \in [Fibers -> Nat]
IdTypeOK ==
    exit_code \in [Fibers -> Nat] /\ pool_work \in [Fibers -> Works \cup {NoWork}]
ClockTypeOK ==
    g_nfiber \in 1 .. MaxFiber /\ g_cur \in Live /\ g_rr \in Live /\ g_vclock \in Nat
WaitTypeOK ==
    /\ wait_h \in [Fibers -> Seq(Handles)] /\ wait_all \in [Fibers -> BOOLEAN]
    /\ wait_cs \in [Fibers -> CSs \cup {NoAddr}]
    /\ wait_srw \in [Fibers -> SRWs \cup {NoAddr}]
    /\ wait_srw_excl \in [Fibers -> BOOLEAN]
    /\ wait_cv \in [Fibers -> CVs \cup {NoAddr}]
TimeTypeOK ==
    /\ has_timeout \in [Fibers -> BOOLEAN] /\ timed_out \in [Fibers -> BOOLEAN]
    /\ wake_time \in [Fibers -> Nat]
LocalTypeOK ==
    /\ cv_lock \in [Fibers -> Locks \cup {NoAddr}] /\ cv_shared \in [Fibers -> BOOLEAN]
    /\ tp_wait \in [Fibers -> Works \cup {NoWork}]
ErrTypeOK == g_last_error \in Nat /\ own_error \in [Fibers -> Nat]
FibersTypeOK ==
    /\ CtxTypeOK /\ IdTypeOK /\ ClockTypeOK /\ WaitTypeOK /\ TimeTypeOK /\ LocalTypeOK
    /\ ErrTypeOK

-----------------------------------------------------------------------------
(* What a blocked fiber waits for.                                          *)

IsThread(h) == h[1] = "thread" /\ h[2] < g_nfiber
u32_waitable(h) == IsThread(h) \/ IsEvent(h) \/ IsMutex(h) \/ IsSem(h)

\* MUTANT of u32_handle_signaled_for: a mutex is always free.
SignaledDespiteOwner(h, f) ==
    /\ IsThread(h) => fst[h[2]] = "DONE"
    /\ IsEvent(h)  => ev_signaled[h[2]]
    /\ IsSem(h)    => sem_count[h[2]] > 0

u32_handle_signaled_for(h, f) ==
    /\ IsThread(h) => fst[h[2]] = "DONE"
    /\ IsEvent(h)  => ev_signaled[h[2]]
    /\ IsMutex(h)  => LET o == mx_owner[h[2]]
                      IN  o \notin {0, f + 1} => fst[o - 1] = "DONE"
    /\ IsSem(h)    => sem_count[h[2]] > 0

\* u32_wait_ok on a non-empty wait set.
WaitOk(hs, all, f) ==
    IF all THEN \A i \in DOMAIN hs : u32_handle_signaled_for(hs[i], f)
           ELSE \E i \in DOMAIN hs : u32_handle_signaled_for(hs[i], f)

\* The order of the tests is the code's: SRW, condition variable, section, handles.
u32_fiber_runnable(f) ==
    IF wait_srw[f] # NoAddr
    THEN u32_srw_acquirable(wait_srw[f], wait_srw_excl[f], f)
    ELSE IF wait_cv[f] # NoAddr THEN cv_grants[wait_cv[f]] > 0
    ELSE IF wait_cs[f] # NoAddr THEN CsFreeFor(wait_cs[f], f)
    ELSE wait_h[f] # <<>> /\ WaitOk(wait_h[f], wait_all[f], f)

u32_cv_waiters(v) ==
    Cardinality({f \in Live : fst[f] = "BLOCKED" /\ wait_cv[f] = v})

-----------------------------------------------------------------------------
(* One iteration of u32_sched_loop.                                         *)

\* The wake pass at the top of the loop.
Woken == {f \in Live : fst[f] = "BLOCKED" /\ u32_fiber_runnable(f)}
Ready == {f \in Live : fst[f] = "READY"} \cup Woken

\* MUTANT of Candidate: every scan starts at the same fiber.
CandidateFixed(k) == k % g_nfiber

\* The k-th candidate of the round-robin scan, and the test that picks it.
Candidate(k) == (g_rr + k) % g_nfiber
Picked(k) == /\ Candidate(k) \in Ready
             /\ \A j \in 1 .. k - 1 : Candidate(j) \notin Ready

Timed == {f \in Live : fst[f] = "BLOCKED" /\ has_timeout[f]}
SchedFrame == UNCHANGED <<pc, last_error, g_sched_ready, idVars, g_nfiber, waitVars,
                          has_timeout, wake_time, localVars, own_error,
                          userVars, kernVars, tpVars>>

SchedDispatch ==
    /\ ctl = "sched"
    /\ \E k \in 1 .. g_nfiber :
        /\ Picked(k)
        /\ fst' = [f \in Fibers |-> IF f = Candidate(k) THEN "RUNNING"
                                    ELSE IF f \in Woken THEN "READY" ELSE fst[f]]
        /\ g_rr' = Candidate(k) /\ g_cur' = Candidate(k)
        /\ g_last_error' = last_error[Candidate(k)]
    /\ timed_out' = [f \in Fibers |-> timed_out[f] /\ f \notin Woken]
    /\ ctl' = "run"
    /\ UNCHANGED g_vclock /\ SchedFrame

\* MUTANT of SchedAdvance: every deadline fires, due or not.
AdvanceFiresAll ==
    /\ ctl = "sched" /\ Ready = {}
    /\ \E e \in Timed :
        /\ \A f \in Timed : wake_time[e] <= wake_time[f]
        /\ g_vclock' = wake_time[e]
    /\ fst' = [f \in Fibers |-> IF f \in Timed THEN "READY" ELSE fst[f]]
    /\ timed_out' = [f \in Fibers |-> timed_out[f] \/ f \in Timed]
    /\ UNCHANGED <<ctl, g_rr, g_cur, g_last_error>> /\ SchedFrame

\* MUTANT of SchedAdvance: jumps to the last deadline and fires only that one.
AdvanceToLast ==
    /\ ctl = "sched" /\ Ready = {}
    /\ \E e \in Timed :
        /\ \A f \in Timed : wake_time[e] >= wake_time[f]
        /\ g_vclock' = wake_time[e]
        /\ fst' = [fst EXCEPT ![e] = "READY"]
        /\ timed_out' = [timed_out EXCEPT ![e] = TRUE]
    /\ UNCHANGED <<ctl, g_rr, g_cur, g_last_error>> /\ SchedFrame

\* Nothing can run: jump to the earliest deadline and fire what is due.
SchedAdvance ==
    /\ ctl = "sched" /\ Ready = {}
    /\ \E e \in Timed :
        /\ \A f \in Timed : wake_time[e] <= wake_time[f]
        /\ g_vclock' = wake_time[e]
        /\ LET due == {f \in Timed : wake_time[f] <= wake_time[e]} IN
           /\ fst' = [f \in Fibers |-> IF f \in due THEN "READY" ELSE fst[f]]
           /\ timed_out' = [f \in Fibers |-> timed_out[f] \/ f \in due]
    /\ UNCHANGED <<ctl, g_rr, g_cur, g_last_error>> /\ SchedFrame

\* A blocked fiber waits for an event that is tied to a socket.
ExternalWait ==
    \E f \in Live : /\ fst[f] = "BLOCKED"
                    /\ \E i \in DOMAIN wait_h[f] :
                        IsEvent(wait_h[f][i]) /\ ev_sel[wait_h[f][i][2]]

\* Then the loop sleeps in poll() and looks again, for as long as it takes:
\* NetReady (HandleWaits) is what it waits for.
SchedPoll ==
    /\ ctl = "sched" /\ Ready = {} /\ Timed = {} /\ ExternalWait
    /\ UNCHANGED vars

\* Nothing can run and nothing is due: a deadlock aborts, otherwise the loop
\* returns and, with no uc_link, takes the process with it.
SchedGiveUp ==
    /\ ctl = "sched" /\ Ready = {} /\ Timed = {} /\ ~ExternalWait
    /\ ctl' = IF \E f \in Live : fst[f] = "BLOCKED" THEN "abort" ELSE "exit"
    /\ UNCHANGED <<fst, timed_out, g_vclock, g_rr, g_cur, g_last_error>> /\ SchedFrame

SchedStep == SchedDispatch \/ SchedAdvance \/ SchedPoll \/ SchedGiveUp

-----------------------------------------------------------------------------
(* Switching away from the running fiber.                                   *)

Prog      == ctl = "run" /\ pc[g_cur] = "prog"
Call(api) == Prog /\ api \in Api
At(l)     == ctl = "run" /\ pc[g_cur] = l

\* MUTANT of ToSched: the state of the fiber is not set.
SwitchStillRunning(s, l, err) ==
    /\ ctl' = "sched" /\ pc' = [pc EXCEPT ![g_cur] = l]
    /\ last_error' = [last_error EXCEPT ![g_cur] = err]
    /\ g_sched_ready' = TRUE /\ UNCHANGED fst

\* MUTANT of ToSched: the last error is not saved.
SwitchForgetsError(s, l, err) ==
    /\ ctl' = "sched" /\ fst' = [fst EXCEPT ![g_cur] = s]
    /\ pc' = [pc EXCEPT ![g_cur] = l]
    /\ g_sched_ready' = TRUE /\ UNCHANGED last_error

\* u32_to_sched with the fiber in state s, to be continued at label l; err is
\* the last-error value at the moment of the switch.
ToSched(s, l, err) ==
    /\ ctl' = "sched"
    /\ fst' = [fst EXCEPT ![g_cur] = s]
    /\ pc' = [pc EXCEPT ![g_cur] = l]
    /\ last_error' = [last_error EXCEPT ![g_cur] = err]
    /\ g_sched_ready' = TRUE

\* A wait loop ends and control returns to the program.
Return == /\ pc' = [pc EXCEPT ![g_cur] = "prog"]
          /\ UNCHANGED <<ctl, fst, last_error, g_sched_ready>>

\* SetLastError, by the program or inside a call.
Fail(code) == /\ g_last_error' = code
              /\ own_error' = [own_error EXCEPT ![g_cur] = code]

\* aret_unmodelled.
Abort == ctl' = "abort" /\ UNCHANGED <<pc, fst, last_error, g_sched_ready, errVars>>

ObjFrame == UNCHANGED <<userVars, kernVars, tpVars>>

-----------------------------------------------------------------------------
(* Sleep, and the thread calls.                                             *)

SetLastError ==
    /\ Call("SetLastError")
    /\ \E e \in ErrCodes : Fail(e)
    /\ UNCHANGED fiberVars /\ ObjFrame

\* Sleep(0) once the scheduler exists; before that it is a plain usleep.
SleepYield ==
    /\ Call("Yield") /\ g_sched_ready
    /\ ToSched("READY", "yield", g_last_error)
    /\ UNCHANGED <<idVars, clockVars, waitVars, timeVars, localVars, errVars>> /\ ObjFrame

ResumeYield ==
    /\ At("yield") /\ Return
    /\ UNCHANGED <<idVars, clockVars, waitVars, timeVars, localVars, errVars>> /\ ObjFrame

\* u32_sleep.
Sleep(ms) ==
    /\ Call("Sleep") /\ g_sched_ready /\ g_vclock + ms <= MaxClock
    /\ wait_h' = [wait_h EXCEPT ![g_cur] = <<>>]
    /\ wait_cs' = [wait_cs EXCEPT ![g_cur] = NoAddr]
    /\ has_timeout' = [has_timeout EXCEPT ![g_cur] = TRUE]
    /\ wake_time' = [wake_time EXCEPT ![g_cur] = g_vclock + ms]
    /\ timed_out' = [timed_out EXCEPT ![g_cur] = FALSE]
    /\ ToSched("BLOCKED", "sleep", g_last_error)
    /\ UNCHANGED <<idVars, clockVars, wait_all, wait_srw, wait_srw_excl, wait_cv,
                   localVars, errVars>> /\ ObjFrame

ResumeSleep ==
    /\ At("sleep")
    /\ IF timed_out[g_cur]
       THEN has_timeout' = [has_timeout EXCEPT ![g_cur] = FALSE] /\ Return
       ELSE ToSched("BLOCKED", "sleep", g_last_error) /\ UNCHANGED has_timeout
    /\ UNCHANGED <<idVars, clockVars, waitVars, timed_out, wake_time, localVars, errVars>>
    /\ ObjFrame

\* The slot a spawn takes was never used, so the memset leaves it as it is.
Publish(s, w) ==
    /\ fst' = [fst EXCEPT ![g_nfiber] = s]
    /\ pool_work' = [pool_work EXCEPT ![g_nfiber] = w]
    /\ g_nfiber' = g_nfiber + 1
    /\ g_sched_ready' = TRUE

\* MUTANT of CreateThread: the table is taken to have one more slot.
CreateThreadPastEnd(s) ==
    /\ Call("CreateThread")
    /\ IF g_nfiber > MaxFiber
       THEN Fail(8) /\ UNCHANGED <<fst, pool_work, g_nfiber, g_sched_ready>>
       ELSE Publish(s, NoWork) /\ UNCHANGED errVars
    /\ UNCHANGED <<ctl, pc, last_error, exit_code, g_cur, g_rr, g_vclock, waitVars,
                   timeVars, localVars>> /\ ObjFrame

\* MUTANT of CreateThread: a spawn sets the scheduler up again, clock included.
CreateThreadResetsClock(s) ==
    /\ Call("CreateThread") /\ g_nfiber < MaxFiber
    /\ Publish(s, NoWork) /\ g_vclock' = 0
    /\ UNCHANGED <<ctl, pc, last_error, exit_code, g_cur, g_rr, waitVars, timeVars,
                   localVars, errVars>> /\ ObjFrame

\* u32_spawn, behind CreateThread, _beginthreadex and _beginthread.  A host
\* malloc that fails ends like a full table.
CreateThread(s) ==
    /\ Call("CreateThread")
    /\ IF g_nfiber >= MaxFiber
       THEN Fail(8) /\ UNCHANGED <<fst, pool_work, g_nfiber, g_sched_ready>>
       ELSE Publish(s, NoWork) /\ UNCHANGED errVars
    /\ UNCHANGED <<ctl, pc, last_error, exit_code, g_cur, g_rr, g_vclock, waitVars,
                   timeVars, localVars>> /\ ObjFrame

\* The first dispatch of a fiber: u32_fiber_trampoline up to the call of the
\* thread procedure.  A pool callback that was cancelled is skipped.
StartFiber ==
    /\ At("new")
    /\ LET w == pool_work[g_cur] IN
       IF w # NoWork /\ tp_cancelled[w]
       THEN /\ tp_pending' = [tp_pending EXCEPT ![w] = @ - 1]
            /\ exit_code' = [exit_code EXCEPT ![g_cur] = 0]
            /\ fst' = [fst EXCEPT ![g_cur] = "DONE"]
            /\ ctl' = "sched" /\ UNCHANGED <<pc, last_error, g_sched_ready>>
       ELSE Return /\ UNCHANGED <<tp_pending, exit_code>>
    /\ UNCHANGED <<pool_work, clockVars, waitVars, timeVars, localVars, errVars,
                   userVars, kernVars, tp_live, tp_cancelled>>

\* MUTANT of ThreadReturn: a finished callback is not counted out.
ReturnUncounted(code) ==
    /\ Call("Return") /\ g_cur # 0
    /\ exit_code' = [exit_code EXCEPT ![g_cur] = code]
    /\ fst' = [fst EXCEPT ![g_cur] = "DONE"] /\ ctl' = "sched"
    /\ UNCHANGED <<pc, last_error, g_sched_ready, pool_work, clockVars, waitVars, timeVars,
                   localVars, errVars>> /\ ObjFrame

\* The thread procedure returns into the trampoline.
ThreadReturn(code) ==
    /\ Call("Return") /\ g_cur # 0
    /\ LET w == pool_work[g_cur] IN
       /\ tp_pending' = IF w = NoWork THEN tp_pending
                        ELSE [tp_pending EXCEPT ![w] = @ - 1]
       /\ exit_code' = [exit_code EXCEPT ![g_cur] = IF w = NoWork THEN code ELSE 0]
    /\ fst' = [fst EXCEPT ![g_cur] = "DONE"]
    /\ ctl' = "sched"
    /\ UNCHANGED <<pc, last_error, g_sched_ready, pool_work, clockVars, waitVars, timeVars,
                   localVars, errVars, userVars, kernVars, tp_live, tp_cancelled>>

\* main returns, or calls ExitThread or TerminateThread on itself.
ProcessExit ==
    /\ Call("Return") /\ g_cur = 0
    /\ ctl' = "exit"
    /\ UNCHANGED <<pc, fst, last_error, g_sched_ready, idVars, clockVars, waitVars,
                   timeVars, localVars, errVars>> /\ ObjFrame

\* ExitThread, and TerminateThread of the calling thread.
ExitThread(code) ==
    /\ Call("ExitThread") /\ g_cur # 0
    /\ exit_code' = [exit_code EXCEPT ![g_cur] = code]
    /\ last_error' = [last_error EXCEPT ![g_cur] = g_last_error]
    /\ fst' = [fst EXCEPT ![g_cur] = "DONE"]
    /\ ctl' = "sched"
    /\ UNCHANGED <<pc, g_sched_ready, pool_work, clockVars, waitVars, timeVars, localVars,
                   errVars>> /\ ObjFrame

TerminateThread(f, code) ==
    /\ Call("TerminateThread") /\ f \in Live \ {g_cur}
    /\ exit_code' = [exit_code EXCEPT ![f] = code]
    /\ fst' = [fst EXCEPT ![f] = "DONE"]
    /\ UNCHANGED <<ctl, pc, last_error, g_sched_ready, pool_work, clockVars, waitVars,
                   timeVars, localVars, errVars>> /\ ObjFrame

\* MUTANT of ResumeThread: a thread that has ended is started again.
ResumeFinished(f) ==
    /\ Call("ResumeThread") /\ f \in Live
    /\ fst' = IF fst[f] \in {"SUSPENDED", "DONE"} THEN [fst EXCEPT ![f] = "READY"] ELSE fst
    /\ UNCHANGED <<ctl, pc, last_error, g_sched_ready, idVars, clockVars, waitVars,
                   timeVars, localVars, errVars>> /\ ObjFrame

\* A thread that is not suspended is left alone (the call returns 0).
ResumeThread(f) ==
    /\ Call("ResumeThread") /\ f \in Live
    /\ fst' = IF fst[f] = "SUSPENDED" THEN [fst EXCEPT ![f] = "READY"] ELSE fst
    /\ UNCHANGED <<ctl, pc, last_error, g_sched_ready, idVars, clockVars, waitVars,
                   timeVars, localVars, errVars>> /\ ObjFrame

SuspendThread ==
    /\ Call("SuspendThread") /\ Abort
    /\ UNCHANGED <<idVars, clockVars, waitVars, timeVars, localVars>> /\ ObjFrame

ThreadStep ==
    \/ SetLastError \/ SleepYield \/ ResumeYield \/ ResumeSleep \/ StartFiber
    \/ ProcessExit \/ SuspendThread
    \/ \E ms \in Delays \cup {Infinite} : Sleep(ms)
    \/ \E s \in {"READY", "SUSPENDED"} : CreateThread(s)
    \/ \E code \in ExitCodes :
        \/ ThreadReturn(code) \/ ExitThread(code)
        \/ \E f \in Fibers : TerminateThread(f, code)
    \/ \E f \in Fibers : ResumeThread(f)
=============================================================================
