----------------------------- MODULE GnuExceptions -----------------------------
(***************************************************************************)
(* GNU/Itanium C++ exceptions (runtime/aret_hle/aret_hle.c): the explicit    *)
(* stack of EH frames the lifter's hooks maintain, the dispatcher that picks *)
(* a landing pad, and the life of exception objects through __cxa_throw,     *)
(* __cxa_begin_catch, __cxa_end_catch, __cxa_rethrow and _Unwind_Resume.     *)
(*                                                                           *)
(* Every call of lifted code records its call site first (setpc), so a call  *)
(* action takes the site as a parameter.  A site has a landing pad or not,   *)
(* the catch clauses its pad tries, the number of handlers of its function   *)
(* that are open there, and the number that stay open around its try block.  *)
(* A pad is code of g++: it ends the handlers it leaves, then begins the     *)
(* catch it was selected for, or resumes the unwind.  The destructor of a    *)
(* thrown object neither throws nor catches.                                 *)
(***************************************************************************)
EXTENDS Integers, Sequences, FiniteSets, SequencesExt

CONSTANTS
    Types, Bases,   \* type_info objects; Bases[t] = <<[base, off, virtual, public], ...>>
    Sites,          \* LSDA call sites: [lp, catches, open, to]
    Objs,           \* addresses of exception objects
    MaxFrames,      \* bound on the depth of calls, below the 256 of g_gnu_eh
    NestedCatch     \* FALSE: a program rethrows only while one handler is open

ASSUME GnuAssumption == MaxFrames \in Nat /\ NestedCatch \in BOOLEAN /\ 0 \notin Objs
\* What g++ emits: a call inside a handler has a pad, which ends the handler.
ASSUME SiteAssumption ==
    \A s \in Sites : /\ s.lp \in BOOLEAN /\ Len(s.catches) \in Nat /\ DOMAIN s.catches = 1..Len(s.catches)
                    /\ s.open \in Nat /\ s.to \in 0..s.open /\ (s.open > 0 => s.lp)

VARIABLES
    gnu_eh,         \* g_gnu_eh: [key, site], innermost last
    gacts,          \* activations of LSDA functions: [key, hs, pad], innermost last;
                    \* hs the open handlers, pad the selector of the pad being run or -1
    exc_obj, exc_ti,\* g_gnu_exc_obj, g_gnu_exc_tinfo
    caught_base,    \* g_gnu_caught_base
    rethrown,       \* g_gnu_rethrown
    heap,           \* exception objects allocated and not freed
    gstat,          \* "run", "abort"
    bad             \* GHOST: wrong rethrows and wrong frees seen
gnuVars == <<gnu_eh, gacts, exc_obj, exc_ti, caught_base, rethrown, heap, gstat, bad>>

NULL == 0

GnuInit ==
    /\ gnu_eh = <<>> /\ gacts = <<>> /\ exc_obj = NULL /\ exc_ti = NULL
    /\ caught_base = NULL /\ rethrown = FALSE /\ heap = {} /\ gstat = "run" /\ bad = {}

-----------------------------------------------------------------------------
(* aret_gnu_type_match_adj: the offset of the first public, non-virtual       *)
(* occurrence of the caught type among the bases, depth first; {} if none.    *)

MatchAdj[p \in Types \X (Types \cup {"..."})] ==
    IF p[2] \in {"...", p[1]} THEN {0}
    ELSE LET usable == {i \in DOMAIN Bases[p[1]] :
                            /\ ~Bases[p[1]][i].virtual /\ Bases[p[1]][i].public
                            /\ MatchAdj[<<Bases[p[1]][i].base, p[2]>>] # {}}
         IN  IF usable = {} THEN {}
             ELSE LET b == Bases[p[1]][CHOOSE i \in usable : \A j \in usable : i <= j]
                  IN  {b.off + a : a \in MatchAdj[<<b.base, p[2]>>]}

\* MUTANT of Selector: no match selects the clause past the last one.
SelectorPast(s, t) ==
    LET ms == {c \in DOMAIN s.catches : MatchAdj[<<t, s.catches[c]>>] # {}}
    IN  IF ms = {} THEN Len(s.catches) + 1 ELSE CHOOSE c \in ms : \A d \in ms : c <= d

\* The selector of a site for a type: the first catch that matches, or 0.
Selector(s, t) ==
    LET ms == {c \in DOMAIN s.catches : MatchAdj[<<t, s.catches[c]>>] # {}}
    IN  IF ms = {} THEN 0 ELSE CHOOSE c \in ms : \A d \in ms : c <= d

-----------------------------------------------------------------------------
RunningPad == gacts # <<>> /\ Last(gacts).pad # -1
InBody     == gstat = "run" /\ ~RunningPad
\* The sites of the part of the function that is running.
Here(s)    == gacts # <<>> /\ s.open = Len(Last(gacts).hs)

\* aret_gnu_eh_setpc: the innermost EH frame records the call site.
SetPc(s) == IF gnu_eh = <<>> THEN gnu_eh ELSE [gnu_eh EXCEPT ![Len(gnu_eh)].site = <<s>>]

\* The EH frames that have a landing pad for their call site.
WithPad(eh) == {i \in DOMAIN eh : eh[i].site # <<>> /\ eh[i].site[1].lp}
Target(eh)  == CHOOSE i \in WithPad(eh) : \A j \in WithPad(eh) : j <= i

\* aret_gnu_dispatch: the innermost EH frame with a pad gets it, whether a
\* catch matches or only a cleanup; inner frames are discarded and the jump
\* cuts the stack back to the activation with the frame's key.
Dispatch(eh, t) ==
    IF WithPad(eh) = {} THEN gstat' = "abort" /\ gnu_eh' = eh /\ UNCHANGED gacts
    ELSE LET i == Target(eh)
             n == CHOOSE n \in DOMAIN gacts : gacts[n].key = eh[i].key
         IN  /\ gnu_eh' = SubSeq(eh, 1, i)
             /\ gacts' = [SubSeq(gacts, 1, n) EXCEPT ![n].pad = Selector(eh[i].site[1], t)]
             /\ UNCHANGED gstat

\* No handler would stay open around the pad a fresh exception is sent to.
LeavesHandlers(eh) ==
    WithPad(eh) # {} =>
        /\ \A j \in DOMAIN eh : j < Target(eh) => gacts[j].hs = <<>>
        /\ eh[Target(eh)].site[1].to = 0

-----------------------------------------------------------------------------
\* A call of an LSDA function from site s (aret_gnu_eh_push).
GnuEnter(s) ==
    /\ InBody /\ (gacts # <<>> => Here(s)) /\ Len(gacts) < MaxFrames
    /\ gnu_eh' = Append(SetPc(s), [key |-> Len(gacts) + 1, site |-> <<>>])
    /\ gacts' = Append(gacts, [key |-> Len(gacts) + 1, hs |-> <<>>, pad |-> -1])
    /\ UNCHANGED <<exc_obj, exc_ti, caught_base, rethrown, heap, gstat, bad>>

\* MUTANT of GnuReturn: a return without the pop hook.
ReturnNoPop ==
    /\ InBody /\ gacts # <<>> /\ Last(gacts).hs = <<>>
    /\ gacts' = Front(gacts)
    /\ UNCHANGED <<gnu_eh, exc_obj, exc_ti, caught_base, rethrown, heap, gstat, bad>>

\* A return (aret_gnu_eh_pop).
GnuReturn ==
    /\ InBody /\ gacts # <<>> /\ Last(gacts).hs = <<>>
    /\ gnu_eh' = Front(gnu_eh) /\ gacts' = Front(gacts)
    /\ UNCHANGED <<exc_obj, exc_ti, caught_base, rethrown, heap, gstat, bad>>

\* __cxa_allocate_exception and __cxa_throw, called from site s.
CxaThrow(s, t, o) ==
    /\ InBody /\ Here(s) /\ o \notin heap
    /\ ~NestedCatch => LeavesHandlers(SetPc(s))
    /\ heap' = heap \cup {o} /\ exc_obj' = o /\ exc_ti' = t
    /\ Dispatch(SetPc(s), t)
    /\ UNCHANGED <<caught_base, rethrown, bad>>

\* The activations with an open handler, and the object of the innermost one:
\* what `throw;` means in C++.
Open == {n \in DOMAIN gacts : gacts[n].hs # <<>>}
OneHandler == \E n \in Open : Open = {n} /\ Len(gacts[n].hs) = 1
Innermost == Last(gacts[CHOOSE n \in Open : \A m \in Open : m <= n].hs)

\* MUTANT of CxaRethrow: the flag that spares the object is not set.
RethrowForgets(s) ==
    /\ InBody /\ Here(s) /\ Open # {}
    /\ ~NestedCatch => OneHandler
    /\ Dispatch(SetPc(s), exc_ti)
    /\ UNCHANGED <<exc_obj, exc_ti, caught_base, heap, rethrown, bad>>

CxaRethrow(s) ==
    /\ InBody /\ Here(s) /\ Open # {}
    /\ ~NestedCatch => OneHandler
    /\ rethrown' = TRUE
    /\ bad' = IF Innermost = exc_obj THEN bad ELSE bad \cup {"rethrow"}
    /\ Dispatch(SetPc(s), exc_ti)
    /\ UNCHANGED <<exc_obj, exc_ti, caught_base, heap>>

\* The handlers that stay open when the pad has done its end_catch calls.
Keeps == IF Last(gacts).pad > 0 THEN Last(gnu_eh).site[1].to ELSE 0
\* end_catch is called where a handler ends: in its body, or by a pad leaving it.
AtEndCatch == /\ gstat = "run" /\ gacts # <<>> /\ Last(gacts).hs # <<>>
              /\ RunningPad => Len(Last(gacts).hs) > Keeps

\* MUTANT of CxaBeginCatch: no snapshot, so end_catch has nothing to destroy.
BeginNoSnapshot ==
    /\ gstat = "run" /\ RunningPad /\ Last(gacts).pad > 0 /\ Len(Last(gacts).hs) = Keeps
    /\ gacts' = [gacts EXCEPT ![Len(gacts)].pad = -1,
                              ![Len(gacts)].hs = Append(@, exc_obj)]
    /\ UNCHANGED <<gnu_eh, exc_obj, exc_ti, caught_base, rethrown, heap, gstat, bad>>

CxaBeginCatch ==
    /\ gstat = "run" /\ RunningPad /\ Last(gacts).pad > 0 /\ Len(Last(gacts).hs) = Keeps
    /\ caught_base' = exc_obj
    /\ gacts' = [gacts EXCEPT ![Len(gacts)].pad = -1,
                              ![Len(gacts)].hs = Append(@, exc_obj)]
    /\ UNCHANGED <<gnu_eh, exc_obj, exc_ti, rethrown, heap, gstat, bad>>

\* The closing end_catch of a handler that rethrew keeps the object.
CxaEndCatch ==
    /\ AtEndCatch
    /\ gacts' = [gacts EXCEPT ![Len(gacts)].hs = Front(@)]
    /\ rethrown' = FALSE
    /\ IF rethrown \/ caught_base = NULL THEN UNCHANGED <<caught_base, heap, bad>>
       ELSE /\ heap' = heap \ {caught_base} /\ caught_base' = NULL
            /\ bad' = IF caught_base \in heap THEN bad ELSE bad \cup {"free"}
    /\ UNCHANGED <<gnu_eh, exc_obj, exc_ti, gstat>>

\* A cleanup pad has run the destructors of its frame: pop it, go on outwards.
UnwindResume ==
    /\ gstat = "run" /\ RunningPad /\ Last(gacts).pad = 0 /\ Last(gacts).hs = <<>>
    /\ Dispatch(Front(gnu_eh), exc_ti)
    /\ UNCHANGED <<exc_obj, exc_ti, caught_base, rethrown, heap, bad>>

GnuOver == gstat = "abort" /\ UNCHANGED gnuVars

GnuNext ==
    \/ \E s \in Sites : \/ GnuEnter(s) \/ CxaRethrow(s)
                        \/ \E t \in Types, o \in Objs : CxaThrow(s, t, o)
    \/ GnuReturn \/ CxaBeginCatch \/ CxaEndCatch \/ UnwindResume \/ GnuOver
GnuSpec == GnuInit /\ [][GnuNext]_gnuVars

-----------------------------------------------------------------------------
\* Types of the EH stack, of the activations and of the exception state.
GnuTypeOK ==
    /\ \A i \in DOMAIN gnu_eh : gnu_eh[i].key \in Nat
    /\ \A n \in DOMAIN gacts : gacts[n].pad \in Int /\ Range(gacts[n].hs) \subseteq Objs
    /\ gstat = "run" /\ RunningPad => Last(gacts).pad \in 0 .. Len(Last(gnu_eh).site[1].catches)
    /\ {exc_obj, caught_base} \subseteq Objs \cup {NULL} /\ heap \subseteq Objs
    /\ rethrown \in BOOLEAN /\ gstat \in {"run", "abort"} /\ bad \subseteq {"rethrow", "free"}

\* The EH stack holds exactly the live activations, in their order, however
\* returns, pads and resumed unwinds interleave: a jump never goes to a dead frame.
EhStackIsCalls ==
    gstat = "run" => [i \in DOMAIN gnu_eh |-> gnu_eh[i].key] = [n \in DOMAIN gacts |-> gacts[n].key]

\* While a handler is open, the object it caught has not been freed, although
\* __cxa_end_catch of inner and outer handlers works on one snapshot.
HandlerObjectLive == \A n \in DOMAIN gacts : Range(gacts[n].hs) \subseteq heap

\* Once no handler is open and no pad is running, every exception object has
\* been destroyed and freed, each exactly once.
ObjectsReclaimed ==
    /\ "free" \notin bad
    /\ gstat = "run" /\ Open = {} /\ ~RunningPad => heap = {}

\* __cxa_rethrow sends on the object of the handler it is in: "The in-flight
\* exception state is untouched by begin/end_catch, so it is exactly what was caught".
RethrowIsCaught == "rethrow" \notin bad

\* Exception objects live exactly as long as they are needed: landing pads run
\* in live activations, an open handler's object is allocated, and all are freed
\* once no handler is left.
ObjectLifetime == GnuTypeOK /\ EhStackIsCalls /\ HandlerObjectLive /\ ObjectsReclaimed
=============================================================================
