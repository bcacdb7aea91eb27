------------------------------- MODULE MCUser -------------------------------
(* Small instances of windows, messages and dialogs: programs of several       *)
(* profiles, each using some of the operations, explored side by side.         *)
EXTENDS Dialogs

VARIABLE profile
mcVars == <<profile, dlgVars>>

Item(c, t, v) == [cls |-> c, tab |-> t, visible |-> v, enabled |-> TRUE]
MCTemplates == {<<Item("edit", TRUE, TRUE), Item("button", TRUE, TRUE)>>}
MCStyles == {[child |-> FALSE, visible |-> TRUE], [child |-> TRUE, visible |-> FALSE]}

MCInit == DlgInit /\ profile \in {"queue", "paint", "focus", "create", "dialog"}
Ops ==
    \/ profile = "queue" /\ (TimerOps \/ PostMessage(1, "user", 0) \/ LoopOps \/ PlainReturn) /\ UNCHANGED modal
    \/ profile = "paint" /\ (WindowOps \/ PaintOps \/ GetMessage \/ GetMessageStep \/ DispatchMessage
                                \/ DispatchReturn) /\ UNCHANGED modal
    \/ profile = "focus" /\ (WindowOps \/ DestroyOps \/ FocusOps) /\ UNCHANGED modal
    \/ profile = "create" /\ (WindowOps \/ DestroyOps \/ HookOps \/ CloseOps) /\ UNCHANGED modal
    \/ profile = "dialog" /\ \/ DialogOps
                             \/ ((QEmpty(ring) /\ msg = NoMessage /\ PostOps) \/ PlainReturn \/ PeekMessage(TRUE) \/ DispatchMessage
                                   \/ DispatchReturn \/ SetFocus(2) \/ KillFocusReturn
                                   \/ SetWindowsHookEx(TRUE) \/ Subclass(2)) /\ UNCHANGED modal
    \/ Aborted
\* How deep the call-backs of each profile nest.
Depth == [queue |-> 1, paint |-> 2, focus |-> 3, create |-> 3, dialog |-> 3]
MCNext == Ops /\ Len(calls') <= Depth[profile] /\ UNCHANGED profile
Fairness == WF_mcVars(Tick /\ UNCHANGED <<modal, profile>>)
            /\ WF_mcVars(GetMessageStep /\ UNCHANGED <<modal, profile>>)
MCSpec == MCInit /\ [][MCNext]_mcVars /\ Fairness
=============================================================================
