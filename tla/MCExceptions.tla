----------------------------- MODULE MCExceptions -----------------------------
(* Small instances of the two exception runtimes, explored side by side: a     *)
(* program uses one of them.                                                   *)
EXTENDS ExceptionChain, GnuExceptions

VARIABLE runtime        \* "msvc" or "gnu"
mcVars == <<runtime, vars, gnuVars>>

Scope(to, fin)  == [to |-> to, finally |-> fin]
State(to, dtor) == [to |-> to, dtor |-> dtor]
\* __try { __try { } __finally { } } __except and the opposite nesting.
MCScopeTables == {(0 :> Scope(TOP, FALSE) @@ 1 :> Scope(0, TRUE)),
                  (0 :> Scope(TOP, TRUE) @@ 1 :> Scope(0, FALSE))}
\* A local object, and a try block with a local object, catching A.
MCFuncInfos ==
    {[unwind |-> (0 :> State(TOP, TRUE) @@ 1 :> State(0, FALSE) @@ 2 :> State(1, TRUE)
                  @@ 3 :> State(0, FALSE)),
      tries  |-> <<[low |-> 1, high |-> 2, catches |-> <<[type |-> "A"]>>]>>]}
MCExceptionSet == {[cxx |-> TRUE, types |-> {"A"}], [cxx |-> TRUE, types |-> {"B"}],
                   [cxx |-> FALSE, types |-> {}]}

\* D derives from E privately and from B publicly, at offset 4.
MCTypes == {"D", "B", "E"}
MCBases == [D |-> <<[base |-> "E", off |-> 0, virtual |-> FALSE, public |-> FALSE],
                    [base |-> "B", off |-> 4, virtual |-> FALSE, public |-> TRUE]>>,
            B |-> <<>>, E |-> <<>>]
Site(lp, catches, open, to) == [lp |-> lp, catches |-> catches, open |-> open, to |-> to]
MCSites == {Site(FALSE, <<>>, 0, 0), Site(TRUE, <<>>, 0, 0), Site(TRUE, <<"B">>, 0, 0),
            Site(TRUE, <<"E", "...">>, 0, 0), Site(TRUE, <<>>, 1, 0),
            Site(TRUE, <<"...">>, 1, 0), Site(TRUE, <<"E">>, 1, 1), Site(TRUE, <<"...">>, 2, 0)}

MCInit == runtime \in {"msvc", "gnu"} /\ Init /\ GnuInit
MCNext == \/ runtime = "msvc" /\ Next /\ UNCHANGED <<runtime, gnuVars>>
          \/ runtime = "gnu" /\ GnuNext /\ UNCHANGED <<runtime, vars>>
MCSpec == MCInit /\ [][MCNext]_mcVars
=============================================================================
