------------------------------ MODULE HandleWaits ------------------------------
(***************************************************************************)
(* Waits on handles and the objects they wait for                           *)
(* (runtime/aret_hle/aret_win32.c): u32_wait behind WaitForSingleObject,    *)
(* WaitForMultipleObjects and WSAWaitForMultipleEvents; events, mutexes,    *)
(* semaphores; and the events WSAEventSelect ties to a socket.              *)
(***************************************************************************)
EXTENDS FiberSched

CONSTANTS
    WaitSets,     \* handle arrays the program passes to a wait
    SemMax,       \* bound: largest initial and maximum count of a semaphore
    RelCounts,    \* release counts the program passes to ReleaseSemaphore
    IntMax        \* INT_MAX

\* Win32 forbids a handle to be twice in one array.
ASSUME WaitAssumption ==
    /\ WaitSets \subseteq Seq(Handles) \ {<<>>}
    /\ \A hs \in WaitSets : \A i, j \in DOMAIN hs : hs[i] = hs[j] => i = j
ASSUME CountAssumption ==
    SemMax \in Nat /\ RelCounts \subseteq Int /\ IntMax \in Nat /\ SemMax <= IntMax

\* int arithmetic of the build (gcc -O0, two's complement).
Wrap(x) == ((x + IntMax + 1) % (2 * IntMax + 2)) - IntMax - 1

\* The set of objects of one kind that a wait takes from the array hs: all of
\* them for a wait-all, the one at index i for a wait-any.
Taken(hs, all, i, Is(_)) ==
    {hs[j][2] : j \in {j \in DOMAIN hs : (all \/ j = i) /\ Is(hs[j])}}

\* MUTANT of Acquire: it counts no unit of a semaphore.
AcquireUncounted(hs, all, i) ==
    LET E == {e \in Taken(hs, all, i, IsEvent) : ~ev_manual[e]}
        M == Taken(hs, all, i, IsMutex)
        S == Taken(hs, all, i, IsSem)
        me == g_cur
    IN  /\ ev_signaled' = [e \in Events |-> ev_signaled[e] /\ e \notin E]
        /\ ev_tok' = [e \in Events |-> ev_tok[e] + (IF e \in E THEN 1 ELSE 0)]
        /\ mx_owner' = [m \in Mutexes |-> IF m \in M THEN me + 1 ELSE mx_owner[m]]
        /\ mx_rec' = [m \in Mutexes |-> mx_rec[m] + (IF m \in M THEN 1 ELSE 0)]
        /\ held_mx' = [held_mx EXCEPT ![me] =
                        [m \in Mutexes |-> @[m] + (IF m \in M THEN 1 ELSE 0)]]
        /\ UNCHANGED sem_count
        /\ sem_out' = [s \in Sems |-> sem_out[s] + (IF s \in S THEN 1 ELSE 0)]

\* u32_handle_acquire on each handle the wait takes.
Acquire(hs, all, i) ==
    LET E == {e \in Taken(hs, all, i, IsEvent) : ~ev_manual[e]}
        M == Taken(hs, all, i, IsMutex)
        S == Taken(hs, all, i, IsSem)
        me == g_cur
    IN  /\ ev_signaled' = [e \in Events |-> ev_signaled[e] /\ e \notin E]
        /\ ev_tok' = [e \in Events |-> ev_tok[e] + (IF e \in E THEN 1 ELSE 0)]
        /\ mx_owner' = [m \in Mutexes |-> IF m \in M THEN me + 1 ELSE mx_owner[m]]
        /\ mx_rec' = [m \in Mutexes |-> mx_rec[m] + (IF m \in M THEN 1 ELSE 0)]
        /\ held_mx' = [held_mx EXCEPT ![me] =
                        [m \in Mutexes |-> @[m] + (IF m \in M THEN 1 ELSE 0)]]
        /\ sem_count' = [s \in Sems |-> sem_count[s]
                            - (IF s \in S /\ sem_count[s] > 0 THEN 1 ELSE 0)]
        /\ sem_out' = [s \in Sems |-> sem_out[s] + (IF s \in S THEN 1 ELSE 0)]

\* The tail of u32_wait: a wait-any takes the first signaled handle.
FirstSignaled(hs, i) ==
    /\ u32_handle_signaled_for(hs[i], g_cur)
    /\ \A j \in 1 .. i - 1 : ~u32_handle_signaled_for(hs[j], g_cur)
\* MUTANT of Satisfy: a fiber that was woken takes an object without looking again.
SatisfyUnchecked(hs, all) ==
    /\ \E i \in DOMAIN hs : Acquire(hs, all, i)
    /\ UNCHANGED <<g_nevent, ev_manual, ev_name, ev_sel, g_nmutex, mx_name,
                   g_nsem, sem_max, sem_name>>

Satisfy(hs, all) ==
    /\ WaitOk(hs, all, g_cur)
    /\ \E i \in DOMAIN hs : /\ IF all THEN i = 1 ELSE FirstSignaled(hs, i)
                            /\ Acquire(hs, all, i)
    /\ UNCHANGED <<g_nevent, ev_manual, ev_name, ev_sel, g_nmutex, mx_name,
                   g_nsem, sem_max, sem_name>>

\* The array as u32_wait stores it: no more than the table row holds.
Clipped(hs) == SubSeq(hs, 1, IF Len(hs) > MaxWaitObjects THEN MaxWaitObjects ELSE Len(hs))

\* The program holds no more than MaxRec of a mutex (bound of the model).
MayRecurse(hs) ==
    \A i \in DOMAIN hs : IsMutex(hs[i]) => held_mx[g_cur][hs[i][2]] < MaxRec

WaitFrame == UNCHANGED <<idVars, clockVars, wait_cs, wait_srw, wait_srw_excl, wait_cv,
                         localVars, errVars, userVars, tpVars>>

\* A wait that is satisfied on entry does not switch.
WaitAtOnce(hs, all) ==
    /\ Call("Wait") /\ MayRecurse(hs) /\ \E i \in DOMAIN hs : u32_waitable(hs[i])
    /\ Satisfy(Clipped(hs), all)
    /\ wait_h' = [wait_h EXCEPT ![g_cur] = <<>>]
    /\ wait_all' = [wait_all EXCEPT ![g_cur] = all]
    /\ UNCHANGED <<ctxVars, timeVars>> /\ WaitFrame

\* ms = 0: WAIT_TIMEOUT without a switch.
WaitPoll(hs, all) ==
    /\ Call("Wait") /\ MayRecurse(hs) /\ \E i \in DOMAIN hs : u32_waitable(hs[i])
    /\ ~WaitOk(Clipped(hs), all, g_cur)
    /\ wait_h' = [wait_h EXCEPT ![g_cur] = <<>>]
    /\ wait_all' = [wait_all EXCEPT ![g_cur] = all]
    /\ UNCHANGED <<ctxVars, timeVars, kernVars>> /\ WaitFrame

WaitBlock(hs, all, ms) ==
    /\ Call("Wait") /\ MayRecurse(hs) /\ \E i \in DOMAIN hs : u32_waitable(hs[i])
    /\ ~WaitOk(Clipped(hs), all, g_cur)
    /\ ms # Infinite => g_vclock + ms <= MaxClock
    /\ wait_h' = [wait_h EXCEPT ![g_cur] = Clipped(hs)]
    /\ wait_all' = [wait_all EXCEPT ![g_cur] = all]
    /\ has_timeout' = [has_timeout EXCEPT ![g_cur] = (ms # Infinite)]
    /\ wake_time' = [wake_time EXCEPT ![g_cur] = g_vclock + ms]
    /\ timed_out' = [timed_out EXCEPT ![g_cur] = FALSE]
    /\ ToSched("BLOCKED", "wait", g_last_error)
    /\ UNCHANGED kernVars /\ WaitFrame

\* Back from the scheduler inside u32_wait: take the objects, give up, or block again.
ResumeWait ==
    /\ At("wait")
    /\ LET hs == wait_h[g_cur]  all == wait_all[g_cur] IN
       \/ /\ Satisfy(hs, all)
          /\ wait_h' = [wait_h EXCEPT ![g_cur] = <<>>]
          /\ has_timeout' = [has_timeout EXCEPT ![g_cur] = FALSE]
          /\ Return
       \/ /\ ~WaitOk(hs, all, g_cur) /\ timed_out[g_cur]
          /\ wait_h' = [wait_h EXCEPT ![g_cur] = <<>>]
          /\ has_timeout' = [has_timeout EXCEPT ![g_cur] = FALSE]
          /\ Return /\ UNCHANGED kernVars
       \/ /\ ~WaitOk(hs, all, g_cur) /\ ~timed_out[g_cur]
          /\ ToSched("BLOCKED", "wait", g_last_error)
          /\ UNCHANGED <<wait_h, has_timeout, kernVars>>
    /\ UNCHANGED <<wait_all, timed_out, wake_time>> /\ WaitFrame

-----------------------------------------------------------------------------
(* Events.                                                                  *)

\* u32_create_event (WSACreateEvent: manual-reset, unnamed): an existing name opens
\* that event, a full table fails.
CreateEvent(manual, initial, n) ==
    /\ Call("CreateEvent")
    /\ IF Named(ev_name, g_nevent, n) \/ g_nevent >= MaxEvent
       THEN Fail(IF Named(ev_name, g_nevent, n) THEN 183 ELSE 8) /\ UNCHANGED evVars
       ELSE /\ g_nevent' = g_nevent + 1
            /\ ev_manual' = [ev_manual EXCEPT ![g_nevent] = manual]
            /\ ev_signaled' = [ev_signaled EXCEPT ![g_nevent] = initial]
            /\ ev_name' = [ev_name EXCEPT ![g_nevent] = n]
            /\ ev_tok' = [ev_tok EXCEPT ![g_nevent] = IF initial THEN 0 ELSE 1]
            /\ UNCHANGED <<ev_sel, errVars>>
    /\ UNCHANGED <<fiberVars, mxVars, semVars, userVars, tpVars>>

EvFrame == UNCHANGED <<g_nevent, ev_manual, ev_name, fiberVars, errVars, mxVars, semVars,
                       userVars, tpVars>>
Signal(e) == /\ ev_signaled' = [ev_signaled EXCEPT ![e] = TRUE]
             /\ ev_tok' = [ev_tok EXCEPT ![e] = 0]

\* SetEvent and WSASetEvent.
SetEvent(e) ==
    /\ Call("SetEvent") /\ e < g_nevent /\ Signal(e) /\ UNCHANGED ev_sel /\ EvFrame

\* ResetEvent, WSAResetEvent, and the reset at the end of WSAEnumNetworkEvents.
ResetEvent(e) ==
    /\ Call("ResetEvent") /\ e < g_nevent
    /\ ev_signaled' = [ev_signaled EXCEPT ![e] = FALSE]
    /\ UNCHANGED <<ev_sel, ev_tok>> /\ EvFrame

\* WSAEventSelect with a mask ties the event to a socket; with no mask, like
\* WSACloseEvent, it unties it.
WSAEventSelect(e, used) ==
    /\ Call("WSAEventSelect") /\ e < g_nevent
    /\ ev_sel' = [ev_sel EXCEPT ![e] = used]
    /\ UNCHANGED <<ev_signaled, ev_tok>> /\ EvFrame

\* The host socket is ready.  The code polls it each time it looks at the event
\* (u32_handle_signaled_for) and in u32_sched_loop; nothing else reads the
\* event, so signalling it when the socket becomes ready is the same.
NetReady(e) ==
    /\ ctl \in {"run", "sched"} /\ e < g_nevent /\ ev_sel[e] /\ ~ev_signaled[e]
    /\ Signal(e) /\ UNCHANGED ev_sel /\ EvFrame

-----------------------------------------------------------------------------
(* Mutexes and semaphores.                                                  *)

CreateMutex(initial, n) ==
    /\ Call("CreateMutex")
    /\ IF Named(mx_name, g_nmutex, n) \/ g_nmutex >= MaxMutex
       THEN Fail(IF Named(mx_name, g_nmutex, n) THEN 183 ELSE 8) /\ UNCHANGED mxVars
       ELSE /\ g_nmutex' = g_nmutex + 1
            /\ mx_owner' = [mx_owner EXCEPT ![g_nmutex] = IF initial THEN g_cur + 1 ELSE 0]
            /\ mx_rec' = [mx_rec EXCEPT ![g_nmutex] = IF initial THEN 1 ELSE 0]
            /\ mx_name' = [mx_name EXCEPT ![g_nmutex] = n]
            /\ held_mx' = [held_mx EXCEPT ![g_cur][g_nmutex] = IF initial THEN 1 ELSE 0]
            /\ UNCHANGED errVars
    /\ UNCHANGED <<fiberVars, evVars, semVars, userVars, tpVars>>

\* A caller that is not the owner gets FALSE and changes nothing.
ReleaseMutex(m) ==
    /\ Call("ReleaseMutex") /\ m < g_nmutex /\ mx_owner[m] = g_cur + 1
    /\ mx_rec' = [mx_rec EXCEPT ![m] = IF @ > 0 THEN @ - 1 ELSE @]
    /\ mx_owner' = [mx_owner EXCEPT ![m] = IF mx_rec[m] = 1 THEN 0 ELSE @]
    /\ held_mx' = [held_mx EXCEPT ![g_cur][m] = IF @ > 0 THEN @ - 1 ELSE @]
    /\ UNCHANGED <<g_nmutex, mx_name, fiberVars, errVars, evVars, semVars, userVars, tpVars>>

CreateSemaphore(initial, maximum, n) ==
    /\ Call("CreateSemaphore") /\ (Disciplined => initial <= maximum)
    /\ IF Named(sem_name, g_nsem, n) \/ g_nsem >= MaxSem
       THEN Fail(IF Named(sem_name, g_nsem, n) THEN 183 ELSE 8) /\ UNCHANGED semVars
       ELSE /\ g_nsem' = g_nsem + 1
            /\ sem_count' = [sem_count EXCEPT ![g_nsem] = initial]
            /\ sem_max' = [sem_max EXCEPT ![g_nsem] = maximum]
            /\ sem_name' = [sem_name EXCEPT ![g_nsem] = n]
            /\ sem_out' = [sem_out EXCEPT ![g_nsem] = -initial]
            /\ UNCHANGED errVars
    /\ UNCHANGED <<fiberVars, evVars, mxVars, userVars, tpVars>>

\* MUTANT of ReleaseSemaphore: the maximum is not enforced.
ReleaseUncapped(s, rel) ==
    /\ Call("ReleaseSemaphore") /\ s < g_nsem /\ rel > 0
    /\ sem_count' = [sem_count EXCEPT ![s] = Wrap(@ + rel)]
    /\ sem_out' = [sem_out EXCEPT ![s] = @ - rel]
    /\ UNCHANGED <<g_nsem, sem_max, sem_name, fiberVars, errVars, evVars, mxVars,
                   userVars, tpVars>>

ReleaseSemaphore(s, rel) ==
    /\ Call("ReleaseSemaphore") /\ s < g_nsem
    /\ IF rel <= 0 \/ Wrap(sem_count[s] + rel) > sem_max[s]
       THEN Fail(298) /\ UNCHANGED semVars
       ELSE /\ sem_count' = [sem_count EXCEPT ![s] = Wrap(@ + rel)]
            /\ sem_out' = [sem_out EXCEPT ![s] = @ - rel]
            /\ UNCHANGED <<g_nsem, sem_max, sem_name, errVars>>
    /\ UNCHANGED <<fiberVars, evVars, mxVars, userVars, tpVars>>

\* OpenMutex and OpenSemaphore of a name nobody created.
OpenMissing(n) ==
    /\ Call("Open")
    /\ ~Named(mx_name, g_nmutex, n) \/ ~Named(sem_name, g_nsem, n)
    /\ Fail(2) /\ UNCHANGED <<fiberVars, kernVars, userVars, tpVars>>

HandleStep ==
    \/ \E hs \in WaitSets : \E all \in (IF Len(hs) = 1 THEN {TRUE} ELSE BOOLEAN) :
        \/ WaitAtOnce(hs, all) \/ WaitPoll(hs, all)
        \/ \E ms \in Delays \cup {Infinite} : WaitBlock(hs, all, ms)
    \/ ResumeWait
    \/ \E a, b \in BOOLEAN, n \in Names \cup {NoName} : CreateEvent(a, b, n)
    \/ \E e \in Events : \/ SetEvent(e) \/ ResetEvent(e) \/ NetReady(e)
                         \/ \E used \in BOOLEAN : WSAEventSelect(e, used)
    \/ \E b \in BOOLEAN, n \in Names \cup {NoName} : CreateMutex(b, n)
    \/ \E m \in Mutexes : ReleaseMutex(m)
    \/ \E i \in 0 .. SemMax, n \in Names \cup {NoName} :
        \E x \in 1 .. SemMax : CreateSemaphore(i, x, n)
    \/ \E s \in Sems, rel \in RelCounts : ReleaseSemaphore(s, rel)
    \/ \E n \in Names : OpenMissing(n)
=============================================================================
