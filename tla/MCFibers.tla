------------------------------- MODULE MCFibers -------------------------------
(***************************************************************************)
(* FiberRuntime for TLC: the handle arrays the runs use, and the programs a *)
(* run is about.  A behaviour is one program from beginning to end; it      *)
(* touches only its own tables, so a run is the union of its programs and   *)
(* not their product.  The other constants are given in the configurations. *)
(***************************************************************************)
EXTENDS FiberRuntime

CONSTANT Programs
VARIABLE program
mcVars == <<vars, program>>

NoWaits == {}

\* A join of the second fiber, with a handle that is none of the tables'.
JoinWaits == { << <<"other", 0>>, <<"thread", 1>> >> }

\* One object alone, and arrays that mix kinds.
EventWaits == { << <<"event", 0>> >>, << <<"event", 0>>, <<"thread", 1>> >> }
MixedWaits == { << <<"sem", 0>> >>, << <<"mutex", 0>>, <<"sem", 0>> >> }
HandleWaitSets == EventWaits \cup MixedWaits

Waits(W) == \A f \in Fibers : wait_h'[f] \in W \cup {<<>>, wait_h[f]}
\* Only these fibers take a mutex they hold.
RecursionIn(F) == \A f \in Fibers \ F, m \in Mutexes :
                      held_mx'[f][m] <= 1 /\ (held_mx'[f][m] = 1 => \A i \in DOMAIN wait_h'[f] : wait_h'[f][i] # <<"mutex", m>>)
\* Only calls of these fibers fail.
ErrorsIn(F) == \A f \in Fibers \ F : own_error'[f] = 0
Within(p) ==
    CASE p = "any" -> TRUE
      [] p = "pool" -> ErrorsIn({0})
      [] p = "events" -> UNCHANGED <<mxVars, semVars>> /\ Waits(EventWaits)
      [] p = "objects" -> UNCHANGED evVars /\ Waits(MixedWaits) /\ RecursionIn({0}) /\ ErrorsIn({0, 1})
      [] p = "condvars" -> reg' \subseteq CSs \cup CVs /\ UNCHANGED srwVars
      [] p = "srw" -> reg' \subseteq SRWs /\ UNCHANGED <<csVars, cvVars>>
      [] p = "srw_sleep" -> reg' \subseteq SRWs \cup CVs /\ UNCHANGED <<csVars, cv_owed>> /\ g_nfiber' <= 2

\* A program that never resumes a thread creates none suspended.
MCNext == /\ Next /\ Within(program) /\ UNCHANGED program
          /\ "ResumeThread" \in Api \/ \A f \in Fibers : fst'[f] # "SUSPENDED"
MCInit == Init /\ program \in Programs
MCSpec == MCInit /\ [][MCNext]_mcVars
MCLiveSpec == MCSpec /\ WF_mcVars(MCNext)
=============================================================================
