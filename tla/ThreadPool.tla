------------------------------- MODULE ThreadPool -------------------------------
(***************************************************************************)
(* The Vista thread-pool work API over the fiber scheduler                   *)
(* (runtime/aret_hle/aret_win32.c): every SubmitThreadpoolWork spawns a      *)
(* fiber; the trampoline (StartFiber, ThreadReturn in FiberSched) counts it  *)
(* out of pending.                                                           *)
(***************************************************************************)
EXTENDS FiberSched

TpFrame == UNCHANGED <<errVars, userVars, kernVars>>

\* A PTP_WORK is a calloc'd block; the model has one identity per work item.
CreateThreadpoolWork(w) ==
    /\ Call("ThreadpoolWork") /\ w \notin tp_live
    /\ \A f \in Live : pool_work[f] # w      \* the block has not been used before
    /\ tp_live' = tp_live \cup {w}
    /\ tp_pending' = [tp_pending EXCEPT ![w] = 0]
    /\ tp_cancelled' = [tp_cancelled EXCEPT ![w] = FALSE]
    /\ UNCHANGED fiberVars /\ TpFrame

SubmitThreadpoolWork(w) ==
    /\ Call("ThreadpoolWork") /\ w \in tp_live
    /\ IF g_nfiber >= MaxFiber
       THEN ctl' = "abort" /\ UNCHANGED <<fst, pool_work, g_nfiber, g_sched_ready, tp_pending>>
       ELSE /\ Publish("READY", w) /\ UNCHANGED ctl
            /\ tp_pending' = [tp_pending EXCEPT ![w] = @ + 1]
    /\ UNCHANGED <<pc, last_error, exit_code, g_cur, g_rr, g_vclock, waitVars, timeVars,
                   localVars, tp_live, tp_cancelled>> /\ TpFrame

\* WaitForThreadpoolWorkCallbacks: cancel if asked to, then enter the loop
\* (label "pool"; the first test of pending is made without a switch).
WaitForThreadpoolWorkCallbacks(w, cancel) ==
    /\ Call("ThreadpoolWait") /\ w \in tp_live
    /\ tp_cancelled' = [tp_cancelled EXCEPT ![w] = @ \/ cancel]
    /\ tp_wait' = [tp_wait EXCEPT ![g_cur] = w]
    /\ pc' = [pc EXCEPT ![g_cur] = "pool"] /\ g_sched_ready' = TRUE
    /\ UNCHANGED <<ctl, fst, last_error, idVars, clockVars, waitVars, timeVars,
                   cv_lock, cv_shared, tp_live, tp_pending>> /\ TpFrame

\* MUTANT of PoolLoop: an off-by-one in the test of pending.
PoolLoopTooLong ==
    /\ At("pool") /\ tp_pending[tp_wait[g_cur]] >= 0
    /\ ToSched("READY", "pool", g_last_error)
    /\ UNCHANGED <<idVars, clockVars, waitVars, timeVars, localVars, tpVars>> /\ TpFrame

\* The loop: yield, staying READY, while callbacks are pending.
PoolLoop ==
    /\ At("pool")
    /\ IF tp_pending[tp_wait[g_cur]] > 0
       THEN ToSched("READY", "pool", g_last_error) /\ UNCHANGED tp_wait
       ELSE Return /\ tp_wait' = [tp_wait EXCEPT ![g_cur] = NoWork]
    /\ UNCHANGED <<idVars, clockVars, waitVars, timeVars, cv_lock, cv_shared,
                   tpVars>> /\ TpFrame

\* MUTANT of CloseThreadpoolWork: the block is freed at once.
CloseFreesAtOnce(w) ==
    /\ Call("ThreadpoolWork") /\ w \in tp_live
    /\ \A f \in Live : fst[f] # "DONE" => tp_wait[f] # w
    /\ tp_live' = tp_live \ {w}
    /\ UNCHANGED <<fiberVars, tp_pending, tp_cancelled>> /\ TpFrame

\* Freed only when nothing is pending, otherwise leaked (no change).  The
\* program does not close an item another fiber is waiting for.
CloseThreadpoolWork(w) ==
    /\ Call("ThreadpoolWork") /\ w \in tp_live
    /\ \A f \in Live : fst[f] # "DONE" => tp_wait[f] # w
    /\ tp_live' = IF tp_pending[w] = 0 THEN tp_live \ {w} ELSE tp_live
    /\ UNCHANGED <<fiberVars, tp_pending, tp_cancelled>> /\ TpFrame

ThreadPoolStep ==
    \/ PoolLoop
    \/ \E w \in Works :
        \/ CreateThreadpoolWork(w) \/ SubmitThreadpoolWork(w) \/ CloseThreadpoolWork(w)
        \/ \E cancel \in BOOLEAN : WaitForThreadpoolWorkCallbacks(w, cancel)
=============================================================================
