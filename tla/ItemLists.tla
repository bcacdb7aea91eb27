------------------------------ MODULE ItemLists -----------------------------
(***************************************************************************)
(* What a menu, a list box and an image list promise: an ordered list to which *)
(* a call adds, takes away or replaces one item, appends some, or clears all.  *)
(***************************************************************************)
EXTENDS Naturals, Sequences, SequencesExt
VARIABLE lists

Added(s, t) == Len(t) = Len(s) + 1 /\ \E i \in DOMAIN t : RemoveAt(t, i) = s
Replaced(s, t) == Len(t) = Len(s) /\ \E i \in DOMAIN t : [t EXCEPT ![i] = s[i]] = s
Step(s, t) == Added(s, t) \/ Added(t, s) \/ Replaced(s, t) \/ IsPrefix(s, t) \/ t = <<>>
Init == \A l \in DOMAIN lists : lists[l] = <<>>
Next == \E l \in DOMAIN lists : /\ lists'[l] # lists[l]
                                /\ Step(lists[l], lists'[l])
                                /\ lists' = [lists EXCEPT ![l] = lists'[l]]
Spec == Init /\ [][Next]_lists
=============================================================================
