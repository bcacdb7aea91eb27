----------------------------- MODULE ExceptionChain -----------------------------
(***************************************************************************)
(* Structured and MSVC C++ exceptions (runtime/aret_hle/aret_hle.c): the     *)
(* fs:[0] chain, the vectored handlers, the two-phase dispatch, the scope    *)
(* tables of _except_handler3/4, the unwind maps of __CxxFrameHandler3,      *)
(* RtlUnwind, the setjmp table and hardware faults.                          *)
(*                                                                           *)
(* The dispatchers are C functions that call lifted code, which may enter    *)
(* functions and raise again before it returns.  ctl is the C stack of       *)
(* dispatchers and callbacks, innermost first; the program runs when its top *)
(* is a callback or when it is empty.  A step is what happens between two    *)
(* such calls.  A frame is named by its stack address; addresses are reused. *)
(***************************************************************************)
EXTENDS Integers, Sequences, FiniteSets, SequencesExt

CONSTANTS
    MaxAddr,        \* stack addresses of frames, 1 = outermost
    ScopeTables,    \* scope tables of the functions with __try
    FuncInfos,      \* FuncInfo structures of the functions with try/catch
    HandWritten,    \* BOOLEAN: are there frames with a hand-written handler
    Exceptions,     \* what is raised: [cxx, types], types = the CatchableTypeArray
    Veh,            \* vectored handlers
    MaxVeh,         \* ARET_VEH_MAX
    MaxNest,        \* bound: dispatches in progress at once
    RaiseIn,        \* callbacks that may raise: "filter", "finally", "dtor"
    JmpSlots,       \* N of aret_jmpbuf_for
    FaultAddrs, FaultDepth, SameFaults \* faulting addresses; the limits 8 and 16

Addrs == 1 .. MaxAddr
END   == 0          \* the end of the chain: 0 or 0xFFFFFFFF
TOP   == -1         \* the level outside every scope: -1, -2 (v4), state -1

ASSUME ChainAssumption ==
    /\ MaxAddr \in Nat \ {0} /\ JmpSlots \in Nat \ {0} /\ MaxNest \in Nat
    /\ MaxVeh \in Nat /\ FaultDepth \in Nat /\ SameFaults \in Nat
    /\ RaiseIn \subseteq {"filter", "finally", "dtor"} /\ HandWritten \in BOOLEAN

VARIABLES
    teb0,        \* TEB.ExceptionList
    mem,         \* the registration records on the machine stack, by address
    acts,        \* activations that established a frame, innermost first
    ctl,         \* the C stack of dispatchers and callbacks, innermost first
    veh,         \* aret_veh_handler[0..n-1]
    jb_keys,     \* keys of aret_jmpbuf_for, in slot order
    jb_buf,      \* the context saved in each slot
    hw_depth, last_addr, same,  \* statics of aret_hw_fault
    status,      \* "run", "abort", "killed" (default signal action), "exiting", "astray"
    owed,        \* GHOST: cleanups of scopes that were entered and not yet left
    again        \* GHOST: cleanups run for a scope that was not owed one

hwVars == <<hw_depth, last_addr, same>>
vars   == <<teb0, mem, acts, ctl, veh, jb_keys, jb_buf, hwVars, status, owed, again>>

NoFrame == [kind |-> "none", tab |-> <<>>, lvl |-> TOP, prev |-> END, depth |-> 0]

Init ==
    /\ teb0 = END /\ mem = [f \in Addrs |-> NoFrame] /\ acts = <<>> /\ ctl = <<>>
    /\ veh = <<>> /\ jb_keys = <<>> /\ jb_buf = [s \in 1 .. JmpSlots |-> <<>>]
    /\ hw_depth = 0 /\ last_addr = END /\ same = 0
    /\ status = "run" /\ owed = {} /\ again = {}

-----------------------------------------------------------------------------
(* Scope tables and unwind maps.                                              *)

\* EnclosingLevel of a scope record, toState of an unwind entry.
Outer(f, l) == IF mem[f].kind = "cxx" THEN mem[f].tab.unwind[l].to ELSE mem[f].tab[l].to
Levels(f)   == CASE mem[f].kind = "cxx" -> DOMAIN mem[f].tab.unwind
                 [] mem[f].kind = "seh" -> DOMAIN mem[f].tab
                 [] OTHER -> {}

\* A __finally (no filter function), or an unwind entry with an action.
IsCleanup(f, l) ==
    IF mem[f].kind = "cxx" THEN mem[f].tab.unwind[l].dtor ELSE mem[f].tab[l].finally

\* aret_cxx_catchable_match: the thrown object's list names the caught type.
CatchMatches(c, e) == c.type = "..." \/ c.type \in e.types

\* The first try block that covers the state and has a matching catch, and
\* the first such catch: <<try, catch>>.  None: the handler declines.
Catches(f, e) ==
    LET ts == mem[f].tab.tries
    IN  {p \in (DOMAIN ts) \X (1 .. 2) :
            /\ mem[f].lvl \in ts[p[1]].low .. ts[p[1]].high
            /\ p[2] \in DOMAIN ts[p[1]].catches
            /\ CatchMatches(ts[p[1]].catches[p[2]], e)}
FirstCatch(f, e) ==
    CHOOSE p \in Catches(f, e) :
        \A q \in Catches(f, e) : p[1] < q[1] \/ (p[1] = q[1] /\ p[2] <= q[2])

-----------------------------------------------------------------------------
(* The C stack.                                                               *)

Callbacks == {"filter", "cleanup", "raw", "veh"}
Running(k) == status = "run" /\ ctl # <<>> /\ ctl[1].k = k
Guest == status = "run" /\ (ctl # <<>> => ctl[1].k \in Callbacks)
Below(n) == SubSeq(ctl, n + 1, Len(ctl))       \* ctl without its n innermost entries
Push(items) == ctl' = items \o ctl

\* The function running now, when it is one with a frame.
InFunction == Guest /\ acts # <<>> /\ mem[acts[1]].depth = Len(ctl)
\* A callback returns when the functions it called have.
CallbackDone == ~InFunction

MayRaise ==
    /\ Guest
    /\ Cardinality({i \in DOMAIN ctl : ctl[i].k \in {"walk", "vehs"}}) < MaxNest
    /\ ctl # <<>> =>
         CASE ctl[1].k = "filter"  -> "filter" \in RaiseIn
           [] ctl[1].k = "cleanup" ->
                (IF mem[ctl[1].f].kind = "cxx" THEN "dtor" ELSE "finally") \in RaiseIn
           [] OTHER -> FALSE

Frame == UNCHANGED <<veh, hwVars>>
NoJump == UNCHANGED <<jb_keys, jb_buf>>
Abort(why) == status' = why

\* MUTANT of JmpKeys: a new key always takes over the first slot.
JmpKeysFirst(f) == IF f \in Range(jb_keys) THEN jb_keys
                   ELSE IF jb_keys = <<>> THEN <<f>>
                   ELSE [jb_keys EXCEPT ![1] = f]

\* aret_jmpbuf_for(key): the slot of the key, a new one, or slot 1 taken over.
JmpKeys(f) == IF f \in Range(jb_keys) THEN jb_keys
              ELSE IF Len(jb_keys) < JmpSlots THEN Append(jb_keys, f)
              ELSE [jb_keys EXCEPT ![1] = f]
JmpSlot(f) == CHOOSE s \in DOMAIN JmpKeys(f) : JmpKeys(f)[s] = f

-----------------------------------------------------------------------------
(* The program: lifted prologues, scopes and epilogues.                       *)

\* push handler; ...; mov fs:[0], esp, and the setjmp the lifter injects.
Enter(f, kind, tab) ==
    /\ Guest /\ (acts # <<>> => f > acts[1])
    /\ LET r == [kind |-> kind, tab |-> tab, lvl |-> TOP, prev |-> teb0, depth |-> Len(ctl)]
       IN  mem' = [mem EXCEPT ![f] = r]
    /\ jb_buf' = [jb_buf EXCEPT ![JmpSlot(f)] = <<f, Len(ctl)>>]
    /\ jb_keys' = JmpKeys(f)
    /\ teb0' = f /\ acts' = <<f>> \o acts
    /\ UNCHANGED <<ctl, status, owed, again>> /\ Frame

Leave ==
    /\ InFunction /\ mem[acts[1]].lvl = TOP
    /\ teb0' = mem[acts[1]].prev /\ acts' = Tail(acts)
    /\ UNCHANGED <<mem, ctl, status, owed, again>> /\ Frame /\ NoJump

EnterScope(l) ==
    /\ InFunction /\ l \in Levels(acts[1]) /\ Outer(acts[1], l) = mem[acts[1]].lvl
    /\ mem' = [mem EXCEPT ![acts[1]].lvl = l]
    /\ owed' = IF IsCleanup(acts[1], l) THEN owed \cup {<<acts[1], l>>} ELSE owed
    /\ UNCHANGED <<teb0, acts, ctl, status, again>> /\ Frame /\ NoJump

\* The normal end of a scope runs its cleanup inline, in the function.
LeaveScope ==
    /\ InFunction /\ mem[acts[1]].lvl # TOP
    /\ mem' = [mem EXCEPT ![acts[1]].lvl = Outer(acts[1], mem[acts[1]].lvl)]
    /\ owed' = owed \ {<<acts[1], mem[acts[1]].lvl>>}
    /\ UNCHANGED <<teb0, acts, ctl, status, again>> /\ Frame /\ NoJump

-----------------------------------------------------------------------------
(* Vectored handlers.                                                         *)

AddVectoredExceptionHandler(h, first) ==
    /\ Guest /\ Len(veh) < MaxVeh /\ h \notin Range(veh)
    /\ veh' = IF first THEN <<h>> \o veh ELSE Append(veh, h)
    /\ UNCHANGED <<teb0, mem, acts, ctl, hwVars, status, owed, again>> /\ NoJump

RemoveVectoredExceptionHandler(h) ==
    /\ Guest /\ h \in Range(veh)
    /\ veh' = SelectSeq(veh, LAMBDA g : g # h)
    /\ UNCHANGED <<teb0, mem, acts, ctl, hwVars, status, owed, again>> /\ NoJump

\* aret_veh_dispatch: call the next handler of the snapshot, or give up.
VehNext ==
    /\ Running("vehs")
    /\ IF ctl[1].snap = <<>>
       THEN ctl' = <<[k |-> "walk", e |-> ctl[1].e, at |-> teb0, src |-> ctl[1].src]>> \o Below(1)
       ELSE Push(<<[k |-> "veh", h |-> ctl[1].snap[1]]>>)
    /\ UNCHANGED <<teb0, mem, acts, status, owed, again>> /\ Frame /\ NoJump

VehReturn(resume) ==
    /\ Running("veh") /\ CallbackDone
    /\ ctl' = IF resume THEN Below(2)
              ELSE <<[ctl[2] EXCEPT !.snap = Tail(@)]>> \o Below(2)
    /\ UNCHANGED <<teb0, mem, acts, status, owed, again>> /\ Frame /\ NoJump

-----------------------------------------------------------------------------
(* Raising.                                                                   *)

RaiseException(e) ==
    /\ MayRaise
    /\ Push(<<[k |-> "vehs", e |-> e, snap |-> veh, src |-> IF e.cxx THEN "cxx" ELSE "raise"]>>)
    /\ UNCHANGED <<teb0, mem, acts, status, owed, again>> /\ Frame /\ NoJump

CxxThrowException(e) ==
    /\ MayRaise /\ e.cxx
    /\ Push(<<[k |-> "walk", e |-> e, at |-> teb0, src |-> "cxx"]>>)
    /\ UNCHANGED <<teb0, mem, acts, status, owed, again>> /\ Frame /\ NoJump

\* aret_hw_fault up to its walk: the limits on nesting and on repetition.
HwFault(a) ==
    /\ MayRaise /\ hw_depth <= FaultDepth
    /\ hw_depth' = hw_depth + 1
    /\ IF hw_depth + 1 > FaultDepth
       THEN Abort("killed") /\ UNCHANGED <<ctl, last_addr, same>>
       ELSE /\ last_addr' = a /\ same' = IF a = last_addr THEN same + 1 ELSE 0
            /\ IF same' >= SameFaults THEN Abort("abort") /\ UNCHANGED ctl
               ELSE /\ Push(<<[k |-> "walk", e |-> [cxx |-> FALSE, types |-> {}],
                               at |-> teb0, src |-> "fault"]>>)
                    /\ UNCHANGED status
    /\ UNCHANGED <<teb0, mem, acts, veh, owed, again>> /\ NoJump

\* The handler called by the walk returned d: 0 continues the execution of the
\* program (a C++ throw ignores it), 1 goes on with the next frame.
HandlerReturned(n, d) ==
    LET w == ctl[n + 1]
    IN  IF d = 0 /\ w.src # "cxx"
        THEN /\ ctl' = Below(n + 1)
             /\ hw_depth' = IF w.src = "fault" THEN hw_depth - 1 ELSE hw_depth
        ELSE ctl' = <<[w EXCEPT !.at = mem[w.at].prev]>> \o Below(n + 1) /\ UNCHANGED hw_depth

\* MUTANT of CatchHere: the frame's own scopes are unwound before the inner frames.
CatchLocalFirst(f, to, next, cxx) ==
    <<[k |-> "lunw", f |-> f, l |-> mem[f].lvl, to |-> to],
      [k |-> "gunw", target |-> f, at |-> teb0, called |-> FALSE, cxx |-> cxx],
      [k |-> "land", f |-> f, lvl |-> next]>>

\* MUTANT of CatchHere: the level set before the jump is one too high.
CatchLevelPast(f, to, next, cxx) ==
    <<[k |-> "gunw", target |-> f, at |-> teb0, called |-> FALSE, cxx |-> cxx],
      [k |-> "lunw", f |-> f, l |-> mem[f].lvl, to |-> to],
      [k |-> "land", f |-> f, lvl |-> next + 1]>>

\* What an __except handler or a catch does before its jump: unwind the inner
\* frames, then the scopes of this frame, then set its level and jump.
CatchHere(f, to, next, cxx) ==
    <<[k |-> "gunw", target |-> f, at |-> teb0, called |-> FALSE, cxx |-> cxx],
      [k |-> "lunw", f |-> f, l |-> mem[f].lvl, to |-> to],
      [k |-> "land", f |-> f, lvl |-> next]>>

\* The walk of aret_RaiseException, aret_cxx_dispatch and aret_hw_fault: call
\* the handler of the frame.  A C++ frame's handler is a thunk that only the
\* C++ walk can call; for the others it is an unrecovered function: abort.
WalkCall ==
    /\ Running("walk")
    /\ LET w == ctl[1]
       IN  \/ /\ w.at = END
              /\ Abort(IF w.src = "fault" THEN "killed" ELSE "abort") /\ UNCHANGED <<ctl, hwVars>>
           \/ /\ w.at # END /\ mem[w.at].kind = "seh"
              /\ Push(<<[k |-> "search", e |-> w.e, f |-> w.at, l |-> mem[w.at].lvl]>>)
              /\ UNCHANGED <<status, hwVars>>
           \/ /\ w.at # END /\ mem[w.at].kind = "raw"
              /\ Push(<<[k |-> "raw", f |-> w.at, unwinding |-> FALSE]>>)
              /\ UNCHANGED <<status, hwVars>>
           \/ /\ w.at # END /\ mem[w.at].kind = "cxx"
              /\ IF w.src # "cxx" THEN Abort("abort") /\ UNCHANGED <<ctl, hwVars>>
                 ELSE /\ IF Catches(w.at, w.e) = {} THEN HandlerReturned(0, 1)
                         ELSE LET p == FirstCatch(w.at, w.e)
                                  t == mem[w.at].tab.tries[p[1]]
                              IN  /\ Push(CatchHere(w.at, t.low, t.high + 1, TRUE))
                                  /\ UNCHANGED hw_depth
                      /\ UNCHANGED <<status, last_addr, same>>
    /\ UNCHANGED <<teb0, mem, acts, veh, owed, again>> /\ NoJump

\* aret_seh_dispatch_search: outwards through the scopes, filters on the way.
SearchScope ==
    /\ Running("search")
    /\ LET s == ctl[1]
       IN  IF s.l = TOP THEN HandlerReturned(1, 1)
           ELSE /\ IF mem[s.f].tab[s.l].finally
                   THEN ctl' = <<[s EXCEPT !.l = Outer(s.f, s.l)]>> \o Below(1)
                   ELSE Push(<<[k |-> "filter", f |-> s.f]>>)
                /\ UNCHANGED hw_depth
    /\ UNCHANGED <<teb0, mem, acts, veh, last_addr, same, status, owed, again>> /\ NoJump

FilterReturn(d) ==
    /\ Running("filter") /\ CallbackDone
    /\ LET s == ctl[2]
       IN  \/ d < 0 /\ HandlerReturned(2, 0)
           \/ d = 0 /\ ctl' = <<[s EXCEPT !.l = Outer(s.f, s.l)]>> \o Below(2) /\ UNCHANGED hw_depth
           \/ d > 0 /\ ctl' = CatchHere(s.f, s.l, Outer(s.f, s.l), FALSE) \o Below(1)
                    /\ UNCHANGED hw_depth
    /\ UNCHANGED <<teb0, mem, acts, veh, last_addr, same, status, owed, again>> /\ NoJump

\* A hand-written handler: it returns, or it unwinds to its frame and jumps.
RawReturn(d) ==
    /\ Running("raw") /\ CallbackDone
    /\ IF ctl[1].unwinding THEN ctl' = Below(1) /\ UNCHANGED hw_depth
       ELSE HandlerReturned(1, d)
    /\ UNCHANGED <<teb0, mem, acts, veh, last_addr, same, status, owed, again>> /\ NoJump

RawCatch ==
    /\ Running("raw") /\ CallbackDone /\ ~ctl[1].unwinding
    /\ Push(<<[k |-> "gunw", target |-> ctl[1].f, at |-> teb0, called |-> FALSE, cxx |-> FALSE],
              [k |-> "land", f |-> ctl[1].f, lvl |-> mem[ctl[1].f].lvl]>>)
    /\ UNCHANGED <<teb0, mem, acts, status, owed, again>> /\ Frame /\ NoJump

\* RtlUnwind(NULL, ...): the exit unwind, on the way out of the program.
ExitUnwind ==
    /\ status = "run" /\ ctl = <<>> /\ HandWritten
    /\ Push(<<[k |-> "gunw", target |-> END, at |-> teb0, called |-> FALSE, cxx |-> FALSE]>>)
    /\ UNCHANGED <<teb0, mem, acts, status, owed, again>> /\ Frame /\ NoJump

-----------------------------------------------------------------------------
(* Unwinding.                                                                 *)

\* MUTANT of UnwindFrame: the handler runs, the frame stays on the chain.
UnwindKeepsFrame ==
    /\ Running("gunw") /\ ctl[1].at \notin {ctl[1].target, END}
    /\ LET u == ctl[1]
           f == ctl[1].at
       IN  ctl' = IF u.called THEN <<[u EXCEPT !.at = mem[f].prev, !.called = FALSE]>> \o Below(1)
                  ELSE <<[k |-> "lunw", f |-> f, l |-> mem[f].lvl, to |-> TOP],
                         [u EXCEPT !.called = TRUE]>> \o Below(1)
    /\ UNCHANGED <<teb0, mem, acts, status, owed, again>> /\ Frame /\ NoJump

\* MUTANT of UnwindFrame: the frame is popped and its handler not called.
UnwindPopsOnly ==
    /\ Running("gunw") /\ ctl[1].at \notin {ctl[1].target, END}
    /\ teb0' = mem[ctl[1].at].prev
    /\ ctl' = <<[ctl[1] EXCEPT !.at = mem[ctl[1].at].prev]>> \o Below(1)
    /\ UNCHANGED <<mem, acts, status, owed, again>> /\ Frame /\ NoJump

\* The loop of RtlUnwind and of the two global unwinds: the handler of the
\* frame runs its cleanups, then the frame is popped from the chain.
UnwindFrame ==
    /\ Running("gunw") /\ ctl[1].at \notin {ctl[1].target, END}
    /\ LET u == ctl[1]
           f == ctl[1].at
       IN  IF u.called
           THEN /\ teb0' = mem[f].prev
                /\ ctl' = <<[u EXCEPT !.at = mem[f].prev, !.called = FALSE]>> \o Below(1)
                /\ UNCHANGED status
           ELSE /\ UNCHANGED teb0
                /\ IF mem[f].kind = "cxx" /\ ~u.cxx THEN Abort("abort") /\ UNCHANGED ctl
                   ELSE /\ ctl' = <<IF mem[f].kind = "raw"
                                    THEN [k |-> "raw", f |-> f, unwinding |-> TRUE]
                                    ELSE [k |-> "lunw", f |-> f, l |-> mem[f].lvl, to |-> TOP],
                                    [u EXCEPT !.called = TRUE]>> \o Below(1)
                        /\ UNCHANGED status
    /\ UNCHANGED <<mem, acts, owed, again>> /\ Frame /\ NoJump

UnwindDone ==
    /\ Running("gunw") /\ ctl[1].at \in {ctl[1].target, END}
    /\ IF ctl[1].target = END THEN teb0' = END /\ Abort("exiting")
       ELSE IF ctl[1].at = END THEN Abort("abort") /\ UNCHANGED teb0
       ELSE UNCHANGED <<teb0, status>>
    /\ ctl' = Below(1)
    /\ UNCHANGED <<mem, acts, owed, again>> /\ Frame /\ NoJump

RunCleanup(f, l) ==
    /\ owed' = owed \ {<<f, l>>}
    /\ again' = IF <<f, l>> \in owed THEN again ELSE again \cup {<<f, l>>}

\* MUTANT of StateBeforeDtor: the state is advanced after the destructor.
StateAfterDtor(f, l) == mem' = mem

\* frame->state is advanced before the destructor is called.
StateBeforeDtor(f, l) ==
    mem' = IF mem[f].kind = "cxx" THEN [mem EXCEPT ![f].lvl = Outer(f, l)] ELSE mem

\* aret_seh_local_unwind_n and aret_cxx_local_unwind, one scope.
LocalUnwind ==
    /\ Running("lunw") /\ ctl[1].l \notin {ctl[1].to, TOP}
    /\ LET f == ctl[1].f
           l == ctl[1].l
           rest == <<[ctl[1] EXCEPT !.l = Outer(f, l)]>> \o Below(1)
       IN  /\ StateBeforeDtor(f, l)
           /\ IF IsCleanup(f, l)
              THEN ctl' = <<[k |-> "cleanup", f |-> f]>> \o rest /\ RunCleanup(f, l)
              ELSE ctl' = rest /\ UNCHANGED <<owed, again>>
    /\ UNCHANGED <<teb0, acts, status>> /\ Frame /\ NoJump

LocalUnwindDone ==
    /\ Running("lunw") /\ ctl[1].l \in {ctl[1].to, TOP}
    /\ mem' = IF mem[ctl[1].f].kind = "cxx" THEN [mem EXCEPT ![ctl[1].f].lvl = ctl[1].to] ELSE mem
    /\ ctl' = Below(1)
    /\ UNCHANGED <<teb0, acts, status, owed, again>> /\ Frame /\ NoJump

CleanupReturn ==
    /\ Running("cleanup") /\ CallbackDone
    /\ ctl' = Below(1)
    /\ UNCHANGED <<teb0, mem, acts, status, owed, again>> /\ Frame /\ NoJump

\* The level is set and aret_longjmp_do resumes the context saved for the
\* frame: the C stack and the machine stack are cut back to it.
Land ==
    /\ Running("land")
    /\ LET f == ctl[1].f
           c == jb_buf[JmpSlot(f)]
       IN  /\ mem' = [mem EXCEPT ![f].lvl = ctl[1].lvl]
           /\ jb_keys' = JmpKeys(f)
           /\ IF c = <<f, mem[f].depth>>
              THEN /\ ctl' = Below(Len(ctl) - mem[f].depth)
                   /\ acts' = SelectSeq(acts, LAMBDA g : g <= f)
                   /\ UNCHANGED status
              ELSE Abort("astray") /\ UNCHANGED <<ctl, acts>>
    /\ UNCHANGED <<teb0, jb_buf, owed, again>> /\ Frame

-----------------------------------------------------------------------------
Program ==
    \/ \E f \in Addrs : \/ \E t \in ScopeTables : Enter(f, "seh", t)
                        \/ \E t \in FuncInfos : Enter(f, "cxx", t)
                        \/ HandWritten /\ Enter(f, "raw", <<>>)
    \/ Leave \/ (\E l \in 0 .. 3 : EnterScope(l)) \/ LeaveScope
    \/ \E h \in Veh : (\E b \in BOOLEAN : AddVectoredExceptionHandler(h, b))
                      \/ RemoveVectoredExceptionHandler(h)
    \/ \E e \in Exceptions : RaiseException(e) \/ CxxThrowException(e)
    \/ \E a \in FaultAddrs : HwFault(a)
    \/ ExitUnwind

Callback ==
    \/ \E b \in BOOLEAN : VehReturn(b)
    \/ \E d \in {-1, 0, 1} : FilterReturn(d)
    \/ (\E d \in {0, 1} : RawReturn(d)) \/ RawCatch
    \/ CleanupReturn

DispatchStep ==
    \/ VehNext \/ WalkCall \/ SearchScope
    \/ UnwindFrame \/ UnwindDone \/ LocalUnwind \/ LocalUnwindDone \/ Land

Over == status # "run" /\ UNCHANGED vars

Next == Program \/ Callback \/ DispatchStep \/ Over
Spec == Init /\ [][Next]_vars

-----------------------------------------------------------------------------
(* Properties.                                                                *)

\* The chain that starts at frame f, innermost first.
ChainFrom[f \in {END} \cup Addrs] ==
    IF f = END THEN <<>> ELSE <<f>> \o (IF mem[f].prev < f THEN ChainFrom[mem[f].prev] ELSE <<>>)

\* Types of the chain, of the C stack and of the tables.
ChainTypeOK ==
    /\ teb0 \in {END} \cup Addrs /\ Range(acts) \subseteq Addrs
    /\ \A f \in Addrs : mem[f].lvl \in Levels(f) \cup {TOP}
    /\ Len(jb_keys) <= JmpSlots /\ Len(veh) <= MaxVeh
    /\ \A p \in owed : p[2] \in Nat
    /\ status \in {"run", "abort", "killed", "exiting", "astray"}

\* Whenever no dispatch is in progress, fs:[0] links exactly the activations
\* that are live: a catch has popped every frame it jumped over
\* (aret_seh_global_unwind, aret_cxx_global_unwind, RtlUnwind) and no other.
ChainIsStack == status = "run" /\ ctl = <<>> => ChainFrom[teb0] = acts

\* No __finally block and no destructor runs twice for one entry of its scope,
\* even if a destructor or a filter raises during the unwind.
CleanupOnce == again = {}

\* No activation is jumped over before its cleanups have run.
NoCleanupLost == \A p \in owed : p[1] \in Range(acts)

\* Cleanups run innermost first: inner frames before outer ones, enclosed
\* scopes before enclosing ones.
CleanupInnerFirst ==
    [][\A p \in owed \ owed', q \in owed' : q[1] < p[1] \/ (q[1] = p[1] /\ q[2] < p[2])]_vars

\* aret_longjmp_do resumes the activation that owns the frame it names.
JumpHome == status # "astray"

\* The nesting count of aret_hw_fault counts the faults being dispatched: a
\* handler that catches leaves "so later faults are caught too".
FaultDepthIsNesting ==
    hw_depth = Cardinality({i \in DOMAIN ctl : ctl[i].k = "walk" /\ ctl[i].src = "fault"})

\* Unwinding is sound: fs:[0] links the live activations, each cleanup runs
\* once and before its frame is jumped over, and every long jump lands in the
\* activation it was keyed for.
ChainSound == ChainTypeOK /\ ChainIsStack /\ CleanupOnce /\ NoCleanupLost /\ JumpHome
=============================================================================
