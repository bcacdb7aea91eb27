------------------------------ MODULE Dialogs ------------------------------
(***************************************************************************)
(* Dialogs on top of Windows (runtime/aret_hle/aret_win32.c): creation from  *)
(* a template, the modal loop of DialogBoxParam, EndDialog, keyboard         *)
(* navigation and the routing of clicks to controls; and the properties of   *)
(* windows and dialogs together.                                             *)
(***************************************************************************)
EXTENDS Windows

CONSTANTS
    Templates,      \* dialog templates: sequences of [cls, tab, visible, enabled]
    Styles,         \* [child, visible] of the windows the program creates
    SilentClick     \* may a click in a dialog take the focus from a window that was told it has it?
ASSUME DialogsAssumption == SilentClick \in BOOLEAN /\ \A t \in Templates : t \in Seq({t[i] : i \in DOMAIN t})

VARIABLE modal      \* [h, ended]: g_u32_modal_hwnd, g_u32_modal_ended
dlgVars == <<vars, modal>>

DlgInit == UserInit /\ modal = [h |-> 0, ended |-> FALSE]

-----------------------------------------------------------------------------
\* A control u32_next_dlg_item may move to (only a tab stop when tab).
DlgItem(d, tab, i) == win[i].used /\ win[i].parent = d /\ win[i].visible /\ win[i].enabled
                      /\ (tab => win[i].tab)

\* Its loop over the table: the items in slot order.
DlgItems(d, tab) ==
    LET kids[n \in 0 .. MaxWin] ==
            IF n = 0 THEN <<>> ELSE IF DlgItem(d, tab, n) THEN Append(kids[n - 1], n) ELSE kids[n - 1]
    IN  kids[MaxWin]

\* MUTANT of NextDlgItem: going back stops at the current control.
NextDlgItemStuck(d, cur, back, tab) ==
    LET kids == DlgItems(d, tab)
        pos  == {k \in DOMAIN kids : kids[k] = cur}
    IN  IF ~Live(d) \/ kids = <<>> THEN 0 ELSE IF pos = {} THEN kids[1]
        ELSE LET k == Least(pos) IN kids[((IF back THEN k - 1 ELSE k) % Len(kids)) + 1]

\* u32_next_dlg_item: the control after (before) cur in slot order, round the
\* end, among the visible, enabled ones (tab stops only when tab).
NextDlgItem(d, cur, back, tab) ==
    LET kids == DlgItems(d, tab)
        pos  == {k \in DOMAIN kids : kids[k] = cur}
    IN  IF ~Live(d) \/ kids = <<>> THEN 0 ELSE IF pos = {} THEN kids[1]
        ELSE LET k == Least(pos) IN kids[((IF back THEN k - 2 + Len(kids) ELSE k) % Len(kids)) + 1]

\* u32_new_control: a control that finds no slot is left out.
NewControl(w, d, c) ==
    LET free == {h \in Hwnd : ~w[h].used}
    IN  IF free = {} THEN w
        ELSE [w EXCEPT ![Least(free)] =
                 [NoWin EXCEPT !.used = TRUE, !.parent = d, !.child = TRUE, !.cls = c.cls,
                               !.tab = c.tab, !.visible = c.visible, !.enabled = c.enabled]]

\* The loop over the items of the template.
NewControls(w, d, items) ==
    LET made[n \in 0 .. Len(items)] == IF n = 0 THEN w ELSE NewControl(made[n - 1], d, items[n])
    IN  made[Len(items)]

\* The rest of u32_dialog_create after the CBT hook, then WM_INITDIALOG; the
\* modal loop's frame is put under that call-back.
Populate(f, w, stack) ==
    /\ win' = NewControls([w EXCEPT ![f.h].dialog = TRUE], f.h, f.items)
    /\ IF f.box
       THEN /\ modal' = [h |-> f.h, ended |-> FALSE]
            /\ calls' = stack \o <<Frame("modal", f.h, "none", 0), [Frame("init", f.h, "init", 0) EXCEPT !.box = TRUE]>>
       ELSE /\ calls' = Append(stack, Frame("init", f.h, "init", 0))
            /\ UNCHANGED modal

\* DialogBoxParam (box) and CreateDialogParam with template t; the program has
\* dispatched the message it fetched before.
CreateDialog(t, box, vis) ==
    /\ Guest /\ msg = NoMessage /\ (Len(calls) + 2 <= MaxDepth \/ (box /\ modal.h # 0))
    /\ InKill => FocusInKill
    /\ IF box /\ modal.h # 0
       THEN ustat' = "abort" /\ UNCHANGED <<win, ring, timer, quit, hook, focus, calls, msg, told, modal>>
       ELSE /\ Free # {}
            /\ LET h == Least(Free)
                   w == [win EXCEPT ![h] = Created(h, 1, 0, [child |-> FALSE, visible |-> vis], "dialog")]
                   f == [Frame("dlgcbt", h, "cbt", 0) EXCEPT !.items = t, !.box = box]
               IN  /\ IF hook THEN win' = w /\ calls' = Append(calls, f) /\ UNCHANGED modal
                      ELSE Populate(f, w, calls)
                   /\ told' = told \ {h}
            /\ UNCHANGED <<ring, timer, quit, hook, focus, msg, ustat>>

DlgCbtReturn ==
    /\ Guest /\ calls # <<>> /\ Last(calls).kind = "dlgcbt"
    /\ Populate(Last(calls), win, Front(calls))
    /\ UNCHANGED <<ring, timer, quit, hook, focus, msg, ustat, told>>

\* WM_INITDIALOG returns: after TRUE the first tab stop gets the focus.
InitReturn(ret) ==
    /\ Guest /\ calls # <<>> /\ Last(calls).kind = "init"
    /\ LET f == Last(calls)
           first == NextDlgItem(f.h, 0, FALSE, TRUE)
       IN  IF ret /\ first # 0 /\ ~(f.box /\ modal.ended) THEN MoveFocus(first, Front(calls))
           ELSE calls' = Front(calls) /\ UNCHANGED <<focus, told>>
    /\ UNCHANGED <<win, ring, timer, quit, hook, msg, ustat, modal>>

\* EndDialog ends the modal loop, whichever dialog it names.
EndDialog ==
    /\ Guest /\ ~modal.ended /\ modal' = [modal EXCEPT !.ended = TRUE]
    /\ UNCHANGED vars

\* u32_dialog_destroy: the dialog and its direct children.
DialogWindows(d) == {h \in Hwnd : win[h].used /\ (h = d \/ win[h].parent = d)}

\* MUTANT of ModalDone: the loop ends without clearing the active dialog.
ModalDoneLeaves ==
    /\ ustat = "run" /\ calls # <<>> /\ Last(calls).kind = "modal" /\ modal.ended
    /\ win' = [h \in Hwnd |-> IF h \in DialogWindows(Last(calls).h)
                              THEN [win[h] EXCEPT !.used = FALSE] ELSE win[h]]
    /\ told' = told \ DialogWindows(Last(calls).h)
    /\ calls' = Front(calls)
    /\ UNCHANGED <<ring, timer, quit, hook, focus, msg, ustat, modal>>

\* The modal loop ends once EndDialog was called; the dialog is destroyed.
ModalDone ==
    /\ ustat = "run" /\ calls # <<>> /\ Last(calls).kind = "modal" /\ modal.ended
    /\ win' = [h \in Hwnd |-> IF h \in DialogWindows(Last(calls).h)
                              THEN [win[h] EXCEPT !.used = FALSE] ELSE win[h]]
    /\ told' = told \ DialogWindows(Last(calls).h)
    /\ calls' = Front(calls)
    /\ modal' = [modal EXCEPT !.h = 0]
    /\ UNCHANGED <<ring, timer, quit, hook, focus, msg, ustat>>

\* u32_dialog_hittest_click at a point of dialog d: at most one control is hit.
\* A click moves the focus, tells neither window (the one it leaves still
\* believes it has the focus) and, on a button, sends WM_COMMAND.
Clickable(d) == {c \in Hwnd : /\ win[c].used /\ win[c].parent = d /\ win[c].visible /\ win[c].enabled
                              /\ win[c].cls \in {"edit", "button"}}
HitTest(d, stack) ==
    \/ calls' = stack /\ UNCHANGED <<focus, told>>
    \/ \E c \in Clickable(d) :
           /\ focus \in told /\ c # focus => SilentClick
           /\ focus' = c /\ UNCHANGED told
           /\ calls' = IF win[c].cls = "button" /\ WndProc(d) # 0
                       THEN Append(stack, Frame("plain", d, "command", c)) ELSE stack

\* One round of u32_dialog_modal's loop: WM_QUIT and WM_PAINT are not looked at.
ModalStep ==
    /\ ustat = "run" /\ calls # <<>> /\ Last(calls).kind = "modal" /\ ~modal.ended
    /\ timer' = Restarted
    /\ IF QEmpty(Pumped)
       THEN ustat' = "abort" /\ ring' = Pumped /\ UNCHANGED <<calls, msg>>
       ELSE /\ ring' = QPop(Pumped) /\ msg' = QHead(Pumped) /\ UNCHANGED ustat
            /\ calls' = Append(calls, Frame("fetched", 0, "none", 0))
    /\ UNCHANGED <<win, quit, hook, focus, told, modal>>

\* The message the modal loop fetched goes to its window's procedure.
ModalDispatch ==
    /\ ustat = "run" /\ calls # <<>> /\ Last(calls).kind = "fetched"
    /\ LET d == calls[Len(calls) - 1].h IN
       IF WndProc(msg.h) # 0
       THEN calls' = Append(Front(calls), Frame("modalmsg", msg.h, msg.m, 0)) /\ UNCHANGED <<focus, told>>
       ELSE IF msg.h = d /\ msg.m = "lbuttonup" THEN HitTest(d, Front(calls))
       ELSE calls' = Front(calls) /\ UNCHANGED <<focus, told>>
    /\ msg' = NoMessage
    /\ UNCHANGED <<win, ring, timer, quit, hook, ustat, modal>>

\* A message handled in the modal loop, or a click in DispatchMessage, returns.
ClickReturn ==
    /\ Guest /\ calls # <<>>
    /\ LET f == Last(calls)
           d == calls[Len(calls) - 1].h
       IN  \/ /\ f.kind = "modalmsg"
              /\ IF f.h = d /\ f.m = "lbuttonup" THEN HitTest(d, Front(calls))
                 ELSE calls' = Front(calls) /\ UNCHANGED <<focus, told>>
           \/ /\ f.kind = "dispatch" /\ f.m = "lbuttonup" /\ Live(f.h) /\ win[f.h].dialog
              /\ HitTest(f.h, Front(calls))
    /\ UNCHANGED <<win, ring, timer, quit, hook, msg, ustat, modal>>

\* IsDialogMessage for the key in msg: arrows and Tab move the focus, Enter and
\* Escape send WM_COMMAND; the key is then not dispatched.
IsDialogMessage(d) ==
    /\ Guest /\ Deeper /\ Live(d) /\ msg.m \in {"tab", "left", "right", "enter"}
    /\ msg.h = d \/ (Live(msg.h) /\ win[msg.h].parent = d)
    /\ InKill => FocusInKill
    /\ msg' = NoMessage
    /\ IF msg.m = "enter"
       THEN /\ calls' = IF WndProc(d) = 0 THEN calls ELSE Append(calls, Frame("plain", d, "command", 1))
            /\ UNCHANGED <<focus, told>>
       ELSE LET n == NextDlgItem(d, focus, msg.m = "left", msg.m = "tab")
            IN  IF n = 0 THEN UNCHANGED <<focus, told, calls>> ELSE MoveFocus(n, calls)
    /\ UNCHANGED <<win, ring, timer, quit, hook, ustat, modal>>

-----------------------------------------------------------------------------
(* The operations, in the groups programs use together. *)

WindowOps ==
    \/ \E p \in {0, 1}, par \in {0, 1}, s \in Styles, api \in Apis :
           CreateWindowEx(p, par, s, api)
    \/ CbtReturn \/ (\E ok \in BOOLEAN : CreateReturn(ok)) \/ PlainReturn
DestroyOps == \E h \in Hwnd : DestroyWindow(h)
HookOps == (\E on \in BOOLEAN : SetWindowsHookEx(on)) \/ (\E h \in Hwnd : Subclass(h))
CloseOps == (\E h \in Hwnd : SendMessage(h, "close")) \/ DefWindowProc \/ CloseReturn
PaintOps ==
    \/ \E h \in Hwnd, b \in BOOLEAN : ShowWindow(h, b) \/ InvalidateRect(h, b) \/ SetWindowPos(h, b)
    \/ \E b \in BOOLEAN : InvalidateRect(0, b)
    \/ \E h \in Hwnd, i, n \in BOOLEAN : RedrawWindow(h, i, FALSE, n)
    \/ \E h \in Hwnd : ValidateRect(h) \/ BeginPaint(h)
    \/ EraseReturn \/ DefWindowProc
TimerOps ==
    \/ \E id \in TimerIds : KillTimer(1, id) \/ \E e \in Elapses : SetTimer(1, id, e, id - 1)
    \/ Tick \/ MsgWait
PostOps == \E h \in {1}, m \in Posts : PostMessage(h, m, 0)
LoopOps ==
    \/ PostQuitMessage \/ (\E r \in BOOLEAN : PeekMessage(r)) \/ GetMessage \/ GetMessageStep
    \/ DispatchMessage \/ DispatchReturn
FocusOps == (\E n \in {0} \cup Hwnd : SetFocus(n)) \/ KillFocusReturn
DialogOps ==
    \/ \E t \in Templates, box \in BOOLEAN : CreateDialog(t, box, TRUE)
    \/ DlgCbtReturn \/ (\E r \in BOOLEAN : InitReturn(r)) \/ EndDialog
    \/ ModalStep \/ ModalDone \/ ModalDispatch \/ ClickReturn
    \/ \E d \in Hwnd : IsDialogMessage(d)
Aborted == ustat = "abort" /\ UNCHANGED dlgVars

UserOps == WindowOps \/ DestroyOps \/ HookOps \/ CloseOps \/ PaintOps \/ TimerOps \/ PostOps \/ LoopOps \/ FocusOps
DlgNext == (UserOps /\ UNCHANGED modal) \/ DialogOps \/ Aborted
DlgSpec == DlgInit /\ [][DlgNext]_dlgVars

-----------------------------------------------------------------------------
\* Types of the window table, the ring, the timers and the call stack.
UserTypeOK ==
    /\ \A h \in Hwnd : win[h].proc \in {0, 1} /\ win[h].parent \in {0} \cup Hwnd
    /\ ring.qh \in Slots /\ ring.qt \in Slots
    /\ \A i \in DOMAIN timer : timer[i].left \in 0 .. timer[i].elapse
    /\ focus \in {0} \cup Hwnd /\ told \subseteq Hwnd /\ Len(calls) <= MaxDepth
    /\ modal.h \in {0} \cup Hwnd /\ ustat \in {"run", "abort"}

\* The ring, the timers, the quit flag and the paint flags together implement
\* the message source: order of posting, nothing lost or doubled, WM_QUIT and
\* WM_PAINT only once the queue is drained.
Source == INSTANCE MessageSource WITH
              fifo <- QContents(ring), Made <- {Quit} \cup {Paint(h) : h \in Hwnd},
              None <- NoMessage, Capacity <- QSize - 1
MessagesInOrder == Source!SSpec

\* However SetTimer and KillTimer mix, a window has one timer of an id: a
\* second slot would tick at the old rate and survive KillTimer.
TimerUnique ==
    \A i, j \in DOMAIN timer :
        timer[i].used /\ Same(timer[j], timer[i].h, timer[i].id) => i = j

\* When every handler has returned, only the window GetFocus names believes it
\* has the focus, however handlers moved it on or destroyed windows meanwhile.
FocusTold == calls = <<>> => told \subseteq {focus}

\* "g_u32_focus is updated first so GetFocus is correct inside the handlers".
GetFocusCorrect == [][\A n \in told' \ told : focus' = n]_dlgVars

\* "A window created through a W API is Unicode", and one created through an A
\* API is not, whatever window had the slot before.
UnicodeIsApi == \A h \in Hwnd : win[h].used => (win[h].unicode <=> win[h].api = "W")

\* One modal loop runs per active modal dialog, and none without one, although
\* the dialog is entered after its hook and left by another call's EndDialog.
ModalMatches ==
    ustat = "run" =>
        LET loops == {i \in DOMAIN calls : calls[i].kind = "modal"}
        IN  IF loops = {} THEN modal.h = 0
            ELSE \E i \in loops : loops = {i} /\ calls[i].h = modal.h

\* Shift-Tab undoes Tab from every tab stop of every dialog: the two walks
\* agree on the order of the controls that are visible and enabled now.
TabInverse ==
    \A d, c \in Hwnd : LET n == NextDlgItem(d, c, FALSE, TRUE) IN
        /\ win[c].used /\ win[c].parent = d /\ win[c].visible /\ win[c].enabled /\ win[c].tab /\ Live(d)
               => n # 0 /\ NextDlgItem(d, n, TRUE, TRUE) = c
        /\ n # 0 => win[n].used /\ win[n].visible /\ win[n].enabled

\* A GetMessage that waits for a timer returns: the clock runs and the loop
\* pumps the timers on every round.
GetMessageReturns == Waiting ~> ~Waiting

\* Windows, timers and dialogs stay consistent while window procedures change
\* them: one timer per window and id, one modal loop per modal dialog, and a
\* keyboard traversal that reaches each control and can be undone.
WindowsSound == UserTypeOK /\ TimerUnique /\ ModalMatches /\ TabInverse
=============================================================================
