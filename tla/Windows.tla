------------------------------ MODULE Windows ------------------------------
(***************************************************************************)
(* USER32 (runtime/aret_hle/aret_win32.c): first the posted-message queue, a *)
(* ring of U32_MAX_MSG slots that is full with one slot to spare; then the   *)
(* windows, timers, painting and focus over it.                              *)
(***************************************************************************)
EXTENDS Naturals, Sequences, Integers, FiniteSets, SequencesExt

CONSTANT QSize          \* U32_MAX_MSG
ASSUME QSizeAssumption == QSize \in Nat /\ QSize >= 2

VARIABLE ring           \* [q, qh, qt]: g_u32_q, g_u32_qh, g_u32_qt

Slots == 0 .. QSize - 1
NoMessage == [h |-> 0, m |-> "none", w |-> 0, p |-> 0]
EmptyRing == [q |-> [i \in Slots |-> NoMessage], qh |-> 0, qt |-> 0]

QEmpty(r) == r.qh = r.qt

\* MUTANT of QPush: the tail does not wrap.
QPushNoWrap(r, x) ==
    IF r.qt + 1 = r.qh \/ r.qt >= QSize THEN r
    ELSE [r EXCEPT !.q[r.qt] = x, !.qt = r.qt + 1]

\* u32_q_push: a message that does not fit is dropped.
QPush(r, x) ==
    IF (r.qt + 1) % QSize = r.qh THEN r
    ELSE [r EXCEPT !.q[r.qt] = x, !.qt = (r.qt + 1) % QSize]

\* u32_q_peek_copy, and the same with remove.  The code leaves the copy in the
\* slot; it is not read again before a push overwrites it, so it is dropped here.
QHead(r) == r.q[r.qh]
QPop(r)  == [r EXCEPT !.qh = (r.qh + 1) % QSize, !.q[r.qh] = NoMessage]

\* The queue as the sequence of its messages, oldest first.
QLen(r)      == (r.qt + QSize - r.qh) % QSize
QContents(r) == [i \in 1 .. QLen(r) |-> r.q[(r.qh + i - 1) % QSize]]

-----------------------------------------------------------------------------
(***************************************************************************)
(* Windows, messages, timers, painting and focus, in the build without a     *)
(* screen.                                                                   *)
(*                                                                           *)
(* One thread runs the program.  A call of the program into the runtime may  *)
(* call a window procedure, which is program code again and may call         *)
(* anything: calls is the stack of such call-backs, each with what the       *)
(* runtime does when it returns.  A window is a slot of a table and its      *)
(* handle is the slot, so a handle is used again once its window is gone.    *)
(***************************************************************************)

CONSTANTS
    MaxWin, MaxTimer,   \* U32_MAX_WIN, U32_MAX_TIMER
    TimerIds, Elapses,  \* arguments of SetTimer
    Apis,               \* the entry points the program uses: "A", "W"
    MaxPlain,           \* bound on the windows made by CreateWindowEx
    Posts,              \* messages the program posts: subset of names
    MaxDepth,           \* bound on nested call-backs
    FocusInKill,        \* may a WM_KILLFOCUS handler move the focus, or dispatch?
    DestroyInCall       \* may a window be destroyed under a call-back of its own?

ASSUME WindowsAssumption ==
    /\ MaxWin \in Nat \ {0} /\ MaxTimer \in Nat /\ MaxDepth \in Nat
    /\ Elapses \subseteq Nat /\ {FocusInKill, DestroyInCall} \subseteq BOOLEAN

VARIABLES
    win,        \* g_u32_win
    timer,      \* g_u32_timer; left is the time until due_ns
    quit,       \* g_u32_quit
    hook,       \* g_u32_hook[WH_CBT + 1] # 0
    focus,      \* g_u32_focus
    calls,      \* call-backs running, innermost last: [kind, h, m, arg, ...]
    msg,        \* the MSG the program fetched last and has not dispatched
    ustat,      \* "run", or "abort" after aret_partial
    told        \* GHOST: windows told by WM_SETFOCUS that they have the focus

vars == <<win, ring, timer, quit, hook, focus, calls, msg, ustat, told>>

Hwnd  == 1 .. MaxWin
Quit  == [NoMessage EXCEPT !.m = "quit"]
Paint(h) == [NoMessage EXCEPT !.h = h, !.m = "paint"]

NoWin   == [used |-> FALSE, proc |-> 0, parent |-> 0, child |-> FALSE, visible |-> FALSE,
            enabled |-> FALSE, tab |-> FALSE, paint |-> FALSE, erase |-> FALSE,
            unicode |-> FALSE, dialog |-> FALSE, cls |-> "none", api |-> "none"]
NoTimer == [used |-> FALSE, h |-> 0, id |-> 0, elapse |-> 0, proc |-> 0, left |-> 0]

UserInit ==
    /\ win = [h \in Hwnd |-> NoWin] /\ timer = [i \in 1 .. MaxTimer |-> NoTimer]
    /\ ring = EmptyRing /\ quit = FALSE /\ hook = FALSE /\ focus = 0
    /\ calls = <<>> /\ msg = NoMessage /\ ustat = "run" /\ told = {}

-----------------------------------------------------------------------------
Live(h) == h \in Hwnd /\ win[h].used                                 \* u32_win_idx
\* u32_win_wndproc: the procedure of a live window, 0 for a system control.
WndProc(h) == IF Live(h) THEN win[h].proc ELSE 0
Free == {h \in Hwnd : ~win[h].used}
Least(S) == CHOOSE x \in S : \A y \in S : x <= y

\* The program is running: the innermost frame is not the runtime's own loop.
RuntimeLoops == {"getmsg", "modal", "fetched"}
Guest == ustat = "run" /\ (calls # <<>> => Last(calls).kind \notin RuntimeLoops)
Deeper == Len(calls) < MaxDepth
Frame(kind, h, m, arg) == [kind |-> kind, h |-> h, m |-> m, arg |-> arg, box |-> FALSE, items |-> <<>>]
InKill == \E i \in DOMAIN calls : calls[i].kind = "killfocus"
\* Windows with a call-back on the stack.
Busy == {calls[i].h : i \in DOMAIN calls}

-----------------------------------------------------------------------------
\* u32_window_create with the fields CreateWindowEx sets next: the slot keeps
\* the unicode flag of its last window unless the W entry point sets it.
Created(h, p, par, s, api) ==
    LET owes == s.visible /\ par = 0 /\ ~s.child
    IN  [NoWin EXCEPT !.used = TRUE, !.proc = p, !.parent = par, !.child = s.child,
                      !.visible = s.visible, !.enabled = TRUE, !.paint = owes, !.erase = owes,
                      !.unicode = win[h].unicode \/ api = "W", !.api = api]

\* u32_create_dispatch, before its first call-back.
CreateDispatch(h, w, stack) ==
    IF w[h].proc = 0 THEN stack ELSE Append(stack, Frame("nccreate", h, "nccreate", w[h].proc))

\* CreateWindowEx of a window with procedure p (0: a predefined control).
CreateWindowEx(p, par, s, api) ==
    /\ Guest /\ Deeper /\ Free # {} /\ Least(Free) <= MaxPlain /\ (par # 0 => Live(par))
    /\ LET h == Least(Free)
           w == [win EXCEPT ![h] = Created(h, p, par, s, api)]
       IN  /\ win' = w
           /\ calls' = IF hook THEN Append(calls, Frame("cbt", h, "cbt", 0))
                       ELSE CreateDispatch(h, w, calls)
           /\ told' = told \ {h}
    /\ UNCHANGED <<ring, timer, quit, hook, focus, msg, ustat>>

\* The CBT hook returns; it may have subclassed the window.
CbtReturn ==
    /\ Guest /\ calls # <<>> /\ Last(calls).kind = "cbt"
    /\ calls' = CreateDispatch(Last(calls).h, win, Front(calls))
    /\ UNCHANGED <<win, ring, timer, quit, hook, focus, msg, ustat, told>>

\* WM_NCCREATE and WM_CREATE return; a rejected window is freed.
CreateReturn(ok) ==
    /\ Guest /\ calls # <<>> /\ Last(calls).kind \in {"nccreate", "create"}
    /\ LET f == Last(calls)
       IN  /\ calls' = IF ok /\ f.kind = "nccreate"
                       THEN Append(Front(calls), Frame("create", f.h, "create", f.arg))
                       ELSE Front(calls)
           /\ win' = IF ok THEN win ELSE [win EXCEPT ![f.h].used = FALSE]
           /\ told' = IF ok THEN told ELSE told \ {f.h}
    /\ UNCHANGED <<ring, timer, quit, hook, focus, msg, ustat>>

\* DestroyWindow tells nobody: messages, timers, children and focus stay.
DestroyWindow(h) ==
    /\ Guest /\ Live(h) /\ (h \in Busy => DestroyInCall)
    /\ win' = [win EXCEPT ![h].used = FALSE]
    /\ told' = told \ {h}
    /\ UNCHANGED <<ring, timer, quit, hook, focus, calls, msg, ustat>>

SetWindowsHookEx(on) ==
    /\ Guest /\ hook # on /\ hook' = on
    /\ UNCHANGED <<win, ring, timer, quit, focus, calls, msg, ustat, told>>

\* SetWindowLong(GWL_WNDPROC): a system control gets a procedure.
Subclass(h) ==
    /\ Guest /\ Live(h) /\ win[h].proc = 0
    /\ win' = [win EXCEPT ![h].proc = 1]
    /\ UNCHANGED <<ring, timer, quit, hook, focus, calls, msg, ustat, told>>

\* SendMessage, SendDlgItemMessage, CallWindowProc with a procedure.
SendMessage(h, m) ==
    /\ Guest /\ Deeper /\ WndProc(h) # 0
    /\ calls' = Append(calls, Frame("plain", h, m, 0))
    /\ UNCHANGED <<win, ring, timer, quit, hook, focus, msg, ustat, told>>

\* A call-back after which the runtime has nothing left to do.
PlainReturn ==
    /\ Guest /\ calls # <<>> /\ Last(calls).kind = "plain"
    /\ calls' = Front(calls)
    /\ UNCHANGED <<win, ring, timer, quit, hook, focus, msg, ustat, told>>

-----------------------------------------------------------------------------
(* Painting: WM_PAINT is made up for a visible top-level window that owes one. *)

Paints(h) == win[h].used /\ win[h].visible /\ win[h].parent = 0      \* u32_win_paints
Owing == {h \in Hwnd : win[h].paint /\ Paints(h)}                    \* u32_next_paint

ShowWindow(h, show) ==
    /\ Guest /\ Live(h)
    /\ LET owes == show /\ ~win[h].visible /\ win[h].parent = 0 /\ ~win[h].child
       IN  win' = [win EXCEPT ![h].visible = show, ![h].paint = @ \/ owes, ![h].erase = @ \/ owes]
    /\ UNCHANGED <<ring, timer, quit, hook, focus, calls, msg, ustat, told>>

\* SetWindowPos with SWP_SHOWWINDOW or SWP_HIDEWINDOW.
SetWindowPos(h, show) ==
    /\ Guest /\ Live(h)
    /\ win' = [win EXCEPT ![h].visible = show]
    /\ UNCHANGED <<ring, timer, quit, hook, focus, calls, msg, ustat, told>>

InvalidateRect(h, erase) ==
    /\ Guest /\ (h # 0 => Live(h))
    /\ win' = [k \in Hwnd |-> IF h \in {0, k} /\ Paints(k)
                              THEN [win[k] EXCEPT !.paint = TRUE, !.erase = @ \/ erase] ELSE win[k]]
    /\ UNCHANGED <<ring, timer, quit, hook, focus, calls, msg, ustat, told>>

ValidateRect(h) ==
    /\ Guest /\ Live(h)
    /\ win' = [win EXCEPT ![h].paint = FALSE]
    /\ UNCHANGED <<ring, timer, quit, hook, focus, calls, msg, ustat, told>>

\* RedrawWindow(RDW_INVALIDATE [| RDW_ERASE] [| RDW_UPDATENOW]); UpdateWindow is
\* the case inv = FALSE, now = TRUE.
RedrawWindow(h, inv, erase, now) ==
    /\ Guest /\ Deeper /\ Live(h)
    /\ LET w == IF inv /\ Paints(h)
                THEN [win EXCEPT ![h].paint = TRUE, ![h].erase = @ \/ erase] ELSE win
       IN  /\ win' = w
           /\ calls' = IF now /\ w[h].paint /\ Paints(h) /\ w[h].proc # 0
                       THEN Append(calls, Frame("plain", h, "paint", 0)) ELSE calls
    /\ UNCHANGED <<ring, timer, quit, hook, focus, msg, ustat, told>>

\* BeginPaint: a pending erase is sent first, then the window is validated.
BeginPaint(h) ==
    /\ Guest /\ Deeper /\ Live(h)
    /\ IF win[h].erase /\ win[h].proc # 0
       THEN /\ win' = [win EXCEPT ![h].erase = FALSE]
            /\ calls' = Append(calls, Frame("erase", h, "erase", 0))
       ELSE /\ win' = [win EXCEPT ![h].erase = FALSE, ![h].paint = FALSE]
            /\ UNCHANGED calls
    /\ UNCHANGED <<ring, timer, quit, hook, focus, msg, ustat, told>>

EraseReturn ==
    /\ Guest /\ calls # <<>> /\ Last(calls).kind = "erase"
    /\ win' = [win EXCEPT ![Last(calls).h].paint = FALSE]
    /\ calls' = Front(calls)
    /\ UNCHANGED <<ring, timer, quit, hook, focus, msg, ustat, told>>

\* DefWindowProc in a procedure handling message m: WM_PAINT erases and
\* validates, WM_CLOSE sends WM_DESTROY and frees the window.
DefWindowProc ==
    /\ Guest /\ calls # <<>> /\ Live(Last(calls).h)
    /\ LET h == Last(calls).h IN
       \/ /\ Last(calls).m = "paint"
          /\ win' = [win EXCEPT ![h].erase = FALSE, ![h].paint = FALSE]
          /\ UNCHANGED calls
       \/ /\ Last(calls).m = "close" /\ Deeper
          /\ IF win[h].proc # 0
             THEN calls' = Append(calls, Frame("close", h, "destroy", 0)) /\ UNCHANGED win
             ELSE win' = [win EXCEPT ![h].used = FALSE] /\ UNCHANGED calls
    /\ UNCHANGED <<ring, timer, quit, hook, focus, msg, ustat, told>>

CloseReturn ==
    /\ Guest /\ calls # <<>> /\ Last(calls).kind = "close"
    /\ win' = [win EXCEPT ![Last(calls).h].used = FALSE]
    /\ told' = told \ {Last(calls).h}
    /\ calls' = Front(calls)
    /\ UNCHANGED <<ring, timer, quit, hook, focus, msg, ustat>>

-----------------------------------------------------------------------------
(* The message loop. *)

PostMessage(h, m, w) ==
    /\ Guest
    /\ ring' = QPush(ring, [h |-> h, m |-> m, w |-> w, p |-> 0])
    /\ UNCHANGED <<win, timer, quit, hook, focus, calls, msg, ustat, told>>

PostQuitMessage ==
    /\ Guest /\ ~quit /\ quit' = TRUE
    /\ UNCHANGED <<win, ring, timer, hook, focus, calls, msg, ustat, told>>

Same(t, h, id) == t.used /\ t.h = h /\ t.id = id

\* MUTANT of TimerSlots: the first free slot is taken without looking further.
TimerSlotsFirst(h, id) ==
    LET free == {i \in DOMAIN timer : ~timer[i].used \/ Same(timer[i], h, id)}
    IN  IF free = {} THEN {} ELSE {Least(free)}

\* The slot SetTimer uses: the timer's own, else the first free one.
TimerSlots(h, id) ==
    LET own  == {i \in DOMAIN timer : Same(timer[i], h, id)}
        free == {i \in DOMAIN timer : ~timer[i].used}
    IN  IF own # {} THEN {Least(own)} ELSE IF free # {} THEN {Least(free)} ELSE {}

SetTimer(h, id, e, p) ==
    /\ Guest
    /\ \E i \in TimerSlots(h, id) :
           timer' = [timer EXCEPT ![i] = [used |-> TRUE, h |-> h, id |-> id, elapse |-> e,
                                          proc |-> p, left |-> e]]
    /\ UNCHANGED <<win, ring, quit, hook, focus, calls, msg, ustat, told>>

KillTimer(h, id) ==
    /\ Guest
    /\ LET own == {i \in DOMAIN timer : Same(timer[i], h, id)}
       IN  own # {} /\ timer' = [timer EXCEPT ![Least(own)].used = FALSE]
    /\ UNCHANGED <<win, ring, quit, hook, focus, calls, msg, ustat, told>>

\* The host's clock.
Tick ==
    /\ ustat = "run" /\ \E i \in DOMAIN timer : timer[i].used /\ timer[i].left > 0
    /\ timer' = [i \in DOMAIN timer |->
                    [timer[i] EXCEPT !.left = IF timer[i].used /\ @ > 0 THEN @ - 1 ELSE @]]
    /\ UNCHANGED <<win, ring, quit, hook, focus, calls, msg, ustat, told>>

\* u32_pump_timers: due timers are posted in slot order and start again, even
\* when their message did not fit.
Due(t)     == t.used /\ t.left = 0
TimerMsg(t) == [h |-> t.h, m |-> "timer", w |-> t.id, p |-> t.proc]
Pump[i \in 0 .. MaxTimer] ==
    IF i = 0 THEN ring
    ELSE IF Due(timer[i]) THEN QPush(Pump[i - 1], TimerMsg(timer[i])) ELSE Pump[i - 1]
Pumped     == Pump[MaxTimer]
Restarted  == [i \in DOMAIN timer |->
                  IF Due(timer[i]) THEN [timer[i] EXCEPT !.left = timer[i].elapse] ELSE timer[i]]

\* The message for an empty queue: the quit flag stays set, a paint stays owed.
MadeUp == IF quit THEN {Quit} ELSE IF Owing # {} THEN {Paint(Least(Owing))} ELSE {}

\* PeekMessage; timers are pumped in every case.
PeekMessage(remove) ==
    /\ Guest
    /\ timer' = Restarted
    /\ IF ~QEmpty(Pumped)
       THEN msg' = QHead(Pumped) /\ ring' = IF remove THEN QPop(Pumped) ELSE Pumped
       ELSE ring' = Pumped /\ (IF MadeUp = {} THEN UNCHANGED msg ELSE msg' \in MadeUp)
    /\ UNCHANGED <<win, quit, hook, focus, calls, ustat, told>>

\* MsgWaitForMultipleObjects[Ex] only pumps the timers.
MsgWait ==
    /\ Guest /\ timer' = Restarted /\ ring' = Pumped
    /\ UNCHANGED <<win, quit, hook, focus, calls, msg, ustat, told>>

GetMessage ==
    /\ Guest /\ Deeper
    /\ calls' = Append(calls, Frame("getmsg", 0, "none", 0))
    /\ UNCHANGED <<win, ring, timer, quit, hook, focus, msg, ustat, told>>

Waiting == ustat = "run" /\ calls # <<>> /\ Last(calls).kind = "getmsg"

\* MUTANT of GetMessageStep: WM_QUIT overtakes posted messages.
GetMessageQuitFirst ==
    /\ Waiting /\ timer' = Restarted
    /\ IF quit THEN msg' = Quit /\ ring' = Pumped /\ calls' = Front(calls) /\ UNCHANGED ustat
       ELSE IF ~QEmpty(Pumped)
       THEN msg' = QHead(Pumped) /\ ring' = QPop(Pumped) /\ calls' = Front(calls) /\ UNCHANGED ustat
       ELSE UNCHANGED <<ring, calls, msg, ustat>>
    /\ UNCHANGED <<win, quit, hook, focus, told>>

\* MUTANT of GetMessageStep: the timers are pumped once, before the loop.
GetMessageNoPump ==
    /\ Waiting
    /\ \/ /\ ~QEmpty(ring)
          /\ msg' = QHead(ring) /\ ring' = QPop(ring) /\ calls' = Front(calls) /\ UNCHANGED ustat
       \/ /\ QEmpty(ring) /\ msg' \in MadeUp /\ calls' = Front(calls) /\ UNCHANGED <<ring, ustat>>
       \/ QEmpty(ring) /\ MadeUp = {} /\ UNCHANGED <<ring, msg, calls, ustat>>
    /\ UNCHANGED <<win, timer, quit, hook, focus, told>>

\* One round of GetMessage's loop: it returns, gives up, or sleeps.
GetMessageStep ==
    /\ Waiting /\ timer' = Restarted
    /\ \/ /\ ~QEmpty(Pumped)
          /\ msg' = QHead(Pumped) /\ ring' = QPop(Pumped) /\ calls' = Front(calls)
          /\ UNCHANGED ustat
       \/ /\ QEmpty(Pumped) /\ msg' \in MadeUp /\ calls' = Front(calls)
          /\ UNCHANGED <<ring, ustat>>
       \/ /\ QEmpty(Pumped) /\ MadeUp = {} /\ \A i \in DOMAIN timer : ~timer[i].used
          /\ ustat' = "abort" /\ UNCHANGED <<ring, calls, msg>>
    /\ UNCHANGED <<win, quit, hook, focus, told>>

\* DispatchMessage: a TIMERPROC is called whether or not the window is there.
DispatchMessage ==
    /\ Guest /\ Deeper /\ msg # NoMessage /\ msg.m # "quit" /\ (InKill => FocusInKill)
    /\ msg' = NoMessage
    /\ calls' = IF msg.m = "timer" /\ msg.p # 0 THEN Append(calls, Frame("plain", 0, "timerproc", 0))
                ELSE IF WndProc(msg.h) # 0 THEN Append(calls, Frame("dispatch", msg.h, msg.m, 0))
                ELSE calls
    /\ UNCHANGED <<win, ring, timer, quit, hook, focus, ustat, told>>

\* The return to DispatchMessage, except for a click on a dialog.
DispatchReturn ==
    /\ Guest /\ calls # <<>> /\ Last(calls).kind = "dispatch"
    /\ ~(Last(calls).m = "lbuttonup" /\ Live(Last(calls).h) /\ win[Last(calls).h].dialog)
    /\ calls' = Front(calls)
    /\ UNCHANGED <<win, ring, timer, quit, hook, focus, msg, ustat, told>>

-----------------------------------------------------------------------------
(* u32_set_focus: the focus moves, then WM_KILLFOCUS, then WM_SETFOCUS. *)

\* WM_SETFOCUS to n, on the stack below.
TellFocus(n, stack) ==
    IF WndProc(n) = 0 THEN calls' = stack /\ UNCHANGED told
    ELSE calls' = Append(stack, Frame("plain", n, "setfocus", 0)) /\ told' = told \cup {n}

\* MUTANT of MoveFocus: the window losing the focus is not told.
MoveFocusNoKill(n, stack) ==
    IF n = focus THEN calls' = stack /\ UNCHANGED <<focus, told>>
    ELSE focus' = n /\ TellFocus(n, stack)

MoveFocus(n, stack) ==
    IF n = focus THEN calls' = stack /\ UNCHANGED <<focus, told>>
    ELSE /\ focus' = n
         /\ IF WndProc(focus) = 0 THEN TellFocus(n, stack)
            ELSE /\ calls' = Append(stack, Frame("killfocus", focus, "killfocus", n))
                 /\ told' = told \ {focus}

SetFocus(n) ==
    /\ Guest /\ Deeper
    /\ InKill => FocusInKill
    /\ MoveFocus(n, calls)
    /\ UNCHANGED <<win, ring, timer, quit, hook, msg, ustat>>

\* WM_KILLFOCUS returns.
KillFocusReturn ==
    /\ Guest /\ calls # <<>> /\ Last(calls).kind = "killfocus"
    /\ TellFocus(Last(calls).arg, Front(calls))
    /\ UNCHANGED <<win, ring, timer, quit, hook, focus, msg, ustat>>
=============================================================================
