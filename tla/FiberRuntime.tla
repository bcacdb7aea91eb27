------------------------------ MODULE FiberRuntime ------------------------------
(***************************************************************************)
(* The cooperative-thread runtime as a whole: the scheduler, the handle      *)
(* waits, the user-space locks and the thread pool over one fiber table,     *)
(* driven by the most general program, and the properties that make it      *)
(* correct.                                                                  *)
(***************************************************************************)
EXTENDS HandleWaits, UserLocks, ThreadPool

Init == FibersInit /\ TablesInit

Gone == ctl \in {"exit", "abort"} /\ UNCHANGED vars

Next == SchedStep \/ ThreadStep \/ HandleStep \/ UserLockStep \/ ThreadPoolStep \/ Gone

Spec == Init /\ [][Next]_vars

\* The host thread that executes the process is never stopped between two steps.
LiveSpec == Spec /\ WF_vars(Next)

\* Type invariant of the composed runtime (every variable of the C structs).
TypeOK == FibersTypeOK /\ TablesTypeOK

-----------------------------------------------------------------------------
(* Scheduling.                                                              *)

\* No two fibers are ever running, and what g_cur names while control is with
\* the program is exactly the running fiber (u32_sched_loop, u32_to_sched).
\* Fiber 0 runs as FREE until its first switch.
OneRunning ==
    \A f \in Fibers :
        /\ fst[f] = "RUNNING" => ctl # "sched" /\ f = g_cur
        /\ ctl = "run" /\ f = g_cur =>
            fst[f] = "RUNNING" \/ (f = 0 /\ fst[f] = "FREE")

\* A blocked fiber has exactly the wait fields of the loop its context is in:
\* u32_fiber_runnable tests them in a fixed order, so a field a finished wait
\* left behind would hide the one the fiber is really waiting for.
WaitFieldsMatch ==
    \A f \in Fibers : fst[f] \in {"BLOCKED", "READY"} =>
        /\ (wait_cv[f] # NoAddr) = (pc[f] = "cv")
        /\ (wait_h[f] # <<>>) = (pc[f] = "wait")
        /\ wait_cs[f] # NoAddr => pc[f] \in {"cs", "relock"}
        /\ wait_srw[f] # NoAddr => pc[f] \in {"srw", "relock"}
        /\ pc[f] = "cs" => wait_cs[f] # NoAddr
        /\ pc[f] = "srw" => wait_srw[f] # NoAddr
        /\ pc[f] = "relock" => (wait_cs[f] # NoAddr) # (wait_srw[f] # NoAddr)
        /\ has_timeout[f] => pc[f] \in {"sleep", "wait", "cv"}

\* No deadline of a blocked fiber lies in the past, so setting the clock to the
\* earliest one never sets it back (g_vclock = earliest).
NoMissedDeadline ==
    \A f \in Fibers : fst[f] = "BLOCKED" /\ has_timeout[f] => wake_time[f] >= g_vclock

\* The virtual clock never runs backwards.
ClockMonotone == [][g_vclock' >= g_vclock]_vars

\* A wait or a Sleep that is about to report its time-out has reached its
\* deadline: timed_out is never left over from an earlier wait.
NoEarlyTimeout ==
    \A f \in Fibers : has_timeout[f] /\ timed_out[f] => g_vclock >= wake_time[f]

\* A fiber that is DONE is never scheduled, resumed or revived.
DoneIsFinal == [][\A f \in Fibers : fst[f] = "DONE" => fst'[f] = "DONE"]_vars

\* GetLastError is per thread although g_last_error is one global: whatever
\* the interleaving, the running fiber sees its own last value.
LastErrorIsolated == ctl = "run" => g_last_error = own_error[g_cur]

\* Round robin starves nobody: if the program keeps switching, every READY
\* fiber is dispatched or terminated.
NoStarvation ==
    []<>(ctl = "sched") => \A f \in Fibers : (fst[f] = "READY") ~> (fst[f] # "READY")

-----------------------------------------------------------------------------
(* Kernel objects.                                                          *)

\* One signal of an auto-reset event satisfies at most one wait, however many
\* fibers it wakes (the re-check after every wake in u32_wait).
AutoResetOnce ==
    \A e \in Events : ~ev_manual[e] => ev_tok[e] + (IF ev_signaled[e] THEN 1 ELSE 0) <= 1

\* Semaphore units are neither lost nor invented: what waits have taken and not
\* given back, and what is left, add up to the initial count.
SemConserved == \A s \in Sems : sem_count[s] + sem_out[s] = 0

\* "a bounded counter": the count stays between 0 and the maximum.
SemBounded == \A s \in Sems : 0 <= sem_count[s] /\ sem_count[s] <= sem_max[s]

\* A fiber that is alive and has acquired a mutex more often than it released
\* it owns it, so no two live fibers are ever inside one mutex; and a mutex
\* nobody owns has depth 0.
MutexExclusion ==
    \A m \in Mutexes :
        /\ \A f \in Fibers : fst[f] # "DONE" /\ held_mx[f][m] > 0 =>
            mx_owner[m] = f + 1 /\ mx_rec[m] >= held_mx[f][m]
        /\ (mx_owner[m] = 0) = (mx_rec[m] = 0)

\* The depth of a mutex is the depth its owner acquired it to.
MutexDepth ==
    \A m \in Mutexes, f \in Fibers :
        mx_owner[m] = f + 1 /\ fst[f] # "DONE" => mx_rec[m] = held_mx[f][m]

-----------------------------------------------------------------------------
(* User-space locks.                                                        *)

\* Fiber f has entered section c and is not inside a Sleep that gave it up.
InSection(f, c) == fst[f] # "DONE" /\ held_cs[f][c] > 0 /\ cv_lock[f] # c

\* Whoever has returned from Enter (or from a Sleep on a condition variable)
\* and has not left owns the section: no two fibers are inside.
CsExclusion == \A c \in CSs, f \in Fibers : InSection(f, c) => cs_owner[c] = f + 1

\* rec is "the recursion depth held by that owner".
CsDepth ==
    \A c \in CSs, f \in Fibers :
        InSection(f, c) /\ cs_owner[c] = f + 1 => cs_rec[c] = held_cs[f][c]

\* A section is owned exactly while its depth is positive, whatever calls the
\* program makes; otherwise Leave could never free it, or would free it early.
CsOwnedIffDeep == \A c \in CSs : (cs_owner[c] = 0) = (cs_rec[c] = 0)

\* A writer shares an SRW lock with no other fiber, reader or writer.
SrwExclusion ==
    \A l \in SRWs, f, g \in Fibers :
        f # g /\ held_ex[f][l] => ~held_ex[g][l] /\ held_sh[g][l] = 0

\* The counts of an SRW lock are those of its holders: a sleep on a condition
\* variable gives back exactly the mode it took, and nothing leaks.
SrwCounted ==
    \A l \in SRWs :
        /\ srw_readers[l] =
            Cardinality({p \in Fibers \X (1 .. MaxRec) : p[2] <= held_sh[p[1]][l]})
        /\ \A f \in Fibers : held_ex[f][l] = (srw_writer[l] = f + 1)

\* Fibers inside a sleep on v.
Sleepers(v) == {f \in Fibers : wait_cv[f] = v /\ fst[f] # "DONE"}

\* "a Wake never leaks to a future sleeper": there are never more grants than
\* fibers already asleep.
NoGrantLeak == \A v \in CVs : cv_grants[v] <= Cardinality(Sleepers(v))

\* "release every current waiter": a fiber that was asleep when WakeAll was
\* called is not left blocked without a grant.
WakeAllReleases ==
    \A f \in cv_owed : fst[f] = "BLOCKED" => cv_grants[wait_cv[f]] > 0

-----------------------------------------------------------------------------
(* Thread pool.                                                             *)

\* "pending counts submitted-but-unfinished callbacks".
PendingExact ==
    \A w \in tp_live : tp_pending[w] =
        Cardinality({f \in Fibers : pool_work[f] = w /\ fst[f] # "DONE"})

\* The trampoline never touches a work item that was freed.
NoFreedWork ==
    \A f \in Fibers : /\ fst[f] # "DONE" /\ pool_work[f] # NoWork => pool_work[f] \in tp_live
                      /\ fst[f] # "DONE" /\ tp_wait[f] # NoWork => tp_wait[f] \in tp_live

\* "run them to completion": main gets out of WaitForThreadpoolWorkCallbacks if
\* every callback that keeps getting the processor finishes.
CallbacksFinish ==
    \A f \in Fibers \ {0} : []<>(ctl = "run" /\ g_cur = f) => <>(fst[f] = "DONE")
PoolWaitReturns ==
    CallbacksFinish => ((pc[0] = "pool") ~> (pc[0] # "pool" \/ ctl \in {"exit", "abort"}))

-----------------------------------------------------------------------------
(* What the runs check of the parts above, one property per concern.         *)

\* Time-outs are neither early nor overdue: no blocked fiber's deadline has
\* passed, and a wait reports its time-out only at or after its deadline.
DeadlinesKept == NoMissedDeadline /\ NoEarlyTimeout

\* What must never run backwards: the virtual clock, and the end of a fiber.
NeverBack == ClockMonotone /\ DoneIsFinal

\* Signals are counted: one signal of an auto-reset event ends one wait, and
\* semaphore units are neither lost, nor invented, nor beyond the maximum.
SignalsConserved == AutoResetOnce /\ SemConserved /\ SemBounded

\* Whoever is inside a critical section or an SRW lock in a mode owns it in
\* that mode, and the counts of the SRW lock are those of its holders.
LockExclusion == CsExclusion /\ SrwExclusion /\ SrwCounted

\* pending counts the unfinished callbacks of a work item, and none of them,
\* nor a waiter, is left with an item that was freed.
WorkCounted == PendingExact /\ NoFreedWork
=============================================================================
