--------------------------- MODULE ExceptionProofs ---------------------------
(***************************************************************************)
(* Proofs about GNU C++ exceptions: the shape of the two stacks, kept by    *)
(* every call whatever the program, and the life of exception objects for a *)
(* program that rethrows while one handler is open.                         *)
(***************************************************************************)
EXTENDS GnuExceptions, WellFoundedInduction, SequenceTheorems, TLAPS

Act   == [key : Nat, hs : Seq(Objs), pad : Int]
Frame == [key : Nat, site : {<<>>} \cup {<<s>> : s \in Sites}]

-----------------------------------------------------------------------------
(* The shape of the stacks.                                                 *)

\* The frame at i has recorded a call site of the part of the function that runs.
Sited(eh, i) == eh[i].site # <<>> /\ eh[i].site[1].open = Len(gacts[i].hs)

ShapeInv ==
    /\ gacts \in Seq(Act) /\ gnu_eh \in Seq(Frame)
    /\ \A i \in DOMAIN gacts : gacts[i].key = i /\ (i < Len(gacts) => gacts[i].pad = -1)
    /\ \A i \in DOMAIN gnu_eh : gnu_eh[i].key = i
    /\ gstat = "run" =>
        /\ Len(gnu_eh) = Len(gacts)
        /\ \A i \in DOMAIN gnu_eh : i < Len(gnu_eh) => Sited(gnu_eh, i)
        /\ RunningPad => /\ Last(gnu_eh).site # <<>>
                         /\ Last(gacts).pad \in 0 .. Len(Last(gnu_eh).site[1].catches)

NoHandler == \A i \in DOMAIN gacts : gacts[i].hs = <<>>
StateInv ==
    /\ exc_obj \notin Objs => NoHandler /\ ~RunningPad
    /\ {exc_obj, caught_base} \subseteq Objs \cup {NULL} /\ heap \subseteq Objs
    /\ rethrown \in BOOLEAN /\ gstat \in {"run", "abort"} /\ bad \subseteq {"rethrow", "free"}

-----------------------------------------------------------------------------
(* The exception objects.                                                   *)

\* The only open handlers are those of activation n.
OnlyAt(n, hs) == /\ n \in DOMAIN gacts /\ gacts[n].hs = hs
                 /\ \A i \in DOMAIN gacts : i # n => gacts[i].hs = <<>>
OneOf(o) == \E n \in DOMAIN gacts : OnlyAt(n, <<o>>)
TwoOf(o) == \/ \E n \in DOMAIN gacts : OnlyAt(n, <<o, o>>)
            \/ \E n, m \in DOMAIN gacts : /\ n # m /\ gacts[n].hs = <<o>> /\ gacts[m].hs = <<o>>
                                          /\ \A i \in DOMAIN gacts : i \notin {n, m} => gacts[i].hs = <<>>

\* Outside of pads: nothing is in flight, an exception is being handled, or it
\* was rethrown and is being handled twice.
Calm     == NoHandler /\ heap = {} /\ caught_base = NULL /\ ~rethrown
Handled  == OneOf(exc_obj) /\ exc_obj \in Objs /\ heap = {exc_obj} /\ caught_base = exc_obj /\ ~rethrown
Twice    == TwoOf(exc_obj) /\ exc_obj \in Objs /\ heap = {exc_obj} /\ caught_base = exc_obj /\ rethrown
\* In a pad: a fresh exception or one whose handler has ended, one rethrown by a
\* handler still open, or a fresh one that replaces the object o of the handler
\* the pad will end.
Flying   == NoHandler /\ exc_obj \in Objs /\ heap = {exc_obj} /\ caught_base \in {NULL, exc_obj} /\ ~rethrown
Rethrown == OneOf(exc_obj) /\ exc_obj \in Objs /\ heap = {exc_obj} /\ caught_base = exc_obj /\ rethrown
Replaces(o) == /\ o \in Objs /\ exc_obj \in Objs /\ o # exc_obj /\ heap = {exc_obj, o} /\ caught_base = o
               /\ \/ OnlyAt(Len(gacts), <<o>>) /\ ~rethrown
                  \/ OnlyAt(Len(gacts), <<o, o>>) /\ rethrown
               /\ Last(gnu_eh).site[1].to = 0

ObjInv ==
    /\ "free" \notin bad
    /\ HandlerObjectLive
    /\ gstat = "run" /\ ~RunningPad => Calm \/ Handled \/ Twice
    /\ gstat = "run" /\ RunningPad => Flying \/ Rethrown \/ \E o \in Objs : Replaces(o)

-----------------------------------------------------------------------------
(* Searches take the least or the greatest that fits.                       *)
LEMMA LeastNat == ASSUME NEW S, S \subseteq Nat, S # {} PROVE \E i \in S : \A j \in S : i <= j
  <1>1. PICK i \in S : \A j \in S : ~(<<j, i>> \in OpToRel(<, Nat))
    BY WFMin, NatLessThanWellFounded, Zenon
  <1>2. \A j \in S : ~(j < i)  BY <1>1 DEF OpToRel
  <1> QED BY <1>2
LEMMA MostNat == ASSUME NEW n \in Nat, NEW S, S \subseteq 1..n, S # {} PROVE \E i \in S : \A j \in S : j <= i
  <1>0. PICK x \in S : TRUE  OBVIOUS
  <1>1. {n - j : j \in S} \subseteq Nat /\ {n - j : j \in S} # {}
    <2>1. n - x \in {n - j : j \in S}  BY <1>0
    <2>2. ASSUME NEW j \in S PROVE n - j \in Nat  OBVIOUS
    <2> QED BY <2>1, <2>2
  <1>2. PICK d \in {n - j : j \in S} : \A e \in {n - j : j \in S} : d <= e  BY <1>1, LeastNat
  <1>3. PICK i \in S : d = n - i  BY <1>2
  <1>4. ASSUME NEW j \in S PROVE j <= i  BY <1>2, <1>3
  <1> QED BY <1>4

LEMMA SelectorIn == ASSUME NEW s \in Sites, NEW t PROVE Selector(s, t) \in 0 .. Len(s.catches)
  <1>1. Len(s.catches) \in Nat /\ DOMAIN s.catches = 1..Len(s.catches)  BY SiteAssumption
  <1>2. PICK ms : ms = {c \in DOMAIN s.catches : MatchAdj[<<t, s.catches[c]>>] # {}}  OBVIOUS
  <1>3. Selector(s, t) = IF ms = {} THEN 0 ELSE CHOOSE c \in ms : \A d \in ms : c <= d
    BY <1>2 DEF Selector
  <1>4. ms \subseteq 1..Len(s.catches) /\ ms \subseteq Nat  BY <1>1, <1>2
  <1>5. CASE ms = {}  BY <1>1, <1>3, <1>5
  <1>6. CASE ms # {}
    <2>1. \E c \in ms : \A d \in ms : c <= d  BY <1>4, <1>6, LeastNat
    <2>2. Selector(s, t) \in ms  BY <1>3, <1>6, <2>1
    <2>3. \A n \in Nat : 1..n \subseteq 0..n  OBVIOUS
    <2> QED BY <1>1, <1>4, <2>2, <2>3
  <1> QED BY <1>5, <1>6

\* Frames and activations.
LEMMA FrameIs == ASSUME NEW eh \in Seq(Frame), NEW i \in DOMAIN eh
    PROVE /\ i \in 1..Len(eh) /\ Len(eh) \in Nat /\ eh[i] \in Frame
          /\ eh[i].site # <<>> => eh[i].site[1] \in Sites
  <1>1. i \in 1..Len(eh) /\ Len(eh) \in Nat /\ eh[i] \in Frame  BY LenProperties, ElementOfSeq
  <1>2. eh[i].site \in {<<>>} \cup {<<s>> : s \in Sites}  BY <1>1 DEF Frame
  <1>3. ASSUME eh[i].site # <<>> PROVE eh[i].site[1] \in Sites
    <2>1. PICK s \in Sites : eh[i].site = <<s>>  BY <1>2, <1>3
    <2> QED BY <2>1
  <1> QED BY <1>1, <1>3
LEMMA ActIs == ASSUME NEW g \in Seq(Act), NEW i \in DOMAIN g
    PROVE /\ i \in 1..Len(g) /\ Len(g) \in Nat /\ g[i] \in Act
          /\ g[i].hs \in Seq(Objs) /\ Len(g[i].hs) \in Nat
  <1>1. i \in 1..Len(g) /\ Len(g) \in Nat /\ g[i] \in Act  BY LenProperties, ElementOfSeq
  <1>2. g[i].hs \in Seq(Objs)  BY <1>1 DEF Act
  <1> QED BY <1>1, <1>2, LenProperties
LEMMA PadSet == ASSUME NEW a \in Act, NEW p \in Int
    PROVE LET b == [a EXCEPT !.pad = p] IN b \in Act /\ b.hs = a.hs /\ b.key = a.key /\ b.pad = p
  BY DEF Act
LEMMA HsSet == ASSUME NEW a \in Act, NEW h \in Seq(Objs)
    PROVE LET b == [a EXCEPT !.hs = h] IN b \in Act /\ b.hs = h /\ b.key = a.key /\ b.pad = a.pad
  BY DEF Act
LEMMA NoneLeft == ASSUME NEW S, NEW s \in Seq(S), Len(s) = 0 PROVE s = <<>>
  BY EmptySeq
LEMMA TargetIs == ASSUME NEW eh \in Seq(Frame), WithPad(eh) # {}
    PROVE Target(eh) \in WithPad(eh) /\ \A j \in WithPad(eh) : j <= Target(eh)
  <1>1. Len(eh) \in Nat /\ WithPad(eh) \subseteq 1..Len(eh)  BY LenProperties DEF WithPad
  <1>2. \E i \in WithPad(eh) : \A j \in WithPad(eh) : j <= i  BY <1>1, MostNat
  <1> QED BY <1>2 DEF Target

\* aret_gnu_dispatch on the frames eh, all of which have recorded a call site: it
\* aborts, or cuts both stacks back to one activation; those it discards had no
\* open handler.
LEMMA DispatchCuts ==
    ASSUME ShapeInv, gstat = "run", NEW eh \in Seq(Frame), Len(eh) <= Len(gacts),
           \A i \in DOMAIN eh : eh[i].key = i /\ Sited(eh, i), NEW t, Dispatch(eh, t)
    PROVE  \/ gstat' = "abort" /\ gacts' = gacts /\ gnu_eh' = eh /\ WithPad(eh) = {}
           \/ \E i \in DOMAIN eh :
               /\ gstat' = "run" /\ i = Target(eh) /\ WithPad(eh) # {} /\ i \in DOMAIN gacts
               /\ gnu_eh' \in Seq(Frame) /\ Len(gnu_eh') = i /\ \A j \in 1..i : gnu_eh'[j] = eh[j]
               /\ gacts' \in Seq(Act) /\ Len(gacts') = i /\ \A j \in 1..i : j # i => gacts'[j] = gacts[j]
               /\ gacts'[i].hs = gacts[i].hs /\ gacts'[i].key = i
               /\ gacts'[i].pad \in 0 .. Len(eh[i].site[1].catches)
               /\ \A j \in DOMAIN eh : j > i => gacts[j].hs = <<>>
  <1>1. CASE WithPad(eh) = {}  BY <1>1 DEF Dispatch
  <1>2. CASE WithPad(eh) # {}
    <2>0. PICK i : i = Target(eh)  OBVIOUS
    <2>1. i \in DOMAIN eh /\ eh[i].site # <<>> /\ eh[i].site[1].lp /\ \A j \in WithPad(eh) : j <= i
      BY <1>2, <2>0, TargetIs DEF WithPad
    <2>2. gacts \in Seq(Act) /\ \A j \in DOMAIN gacts : gacts[j].key = j  BY DEF ShapeInv
    <2>3. Len(gacts) \in Nat /\ DOMAIN gacts = 1..Len(gacts) /\ Len(eh) \in Nat /\ DOMAIN eh = 1..Len(eh)
      BY <2>2, LenProperties
    <2>4. i \in DOMAIN gacts /\ i \in 1..Len(eh) /\ eh[i].key = i  BY <2>1, <2>3
    <2>5. (CHOOSE n \in DOMAIN gacts : gacts[n].key = eh[i].key) = i  BY <2>2, <2>4
    <2>6. PICK sel : sel = Selector(eh[i].site[1], t)  OBVIOUS
    <2>7. /\ gnu_eh' = SubSeq(eh, 1, i) /\ gstat' = gstat
          /\ gacts' = [SubSeq(gacts, 1, i) EXCEPT ![i].pad = sel]
      BY <1>2, <2>0, <2>5, <2>6 DEF Dispatch
    <2>8. \A j \in 1..i : eh[j] \in Frame /\ gacts[j] \in Act  BY <2>2, <2>3, <2>4, ElementOfSeq
    <2>9. gnu_eh' \in Seq(Frame) /\ Len(gnu_eh') = i /\ \A j \in 1..i : gnu_eh'[j] = eh[j]
      <3>1. SubSeq(eh, 1, i) \in Seq(Frame) /\ Len(SubSeq(eh, 1, i)) = i /\ \A j \in 1..i : SubSeq(eh, 1, i)[j] = eh[j]
        BY <2>4, <2>8, SubSeqProperties
      <3> QED BY <2>7, <3>1
    <2>10. sel \in 0 .. Len(eh[i].site[1].catches) /\ sel \in Int
      <3>1. eh[i].site[1] \in Sites  BY <2>1, FrameIs
      <3>2. Len(eh[i].site[1].catches) \in Nat  BY <3>1, SiteAssumption
      <3> QED BY <2>6, <3>1, <3>2, SelectorIn
    <2>11. PICK g : g = SubSeq(gacts, 1, i)  OBVIOUS
    <2>12. g \in Seq(Act) /\ Len(g) = i /\ \A j \in 1..i : g[j] = gacts[j]
      BY <2>4, <2>8, <2>11, SubSeqProperties
    <2>13. PICK a : a = [gacts[i] EXCEPT !.pad = sel]  OBVIOUS
    <2>14. a \in Act /\ a.hs = gacts[i].hs /\ a.key = i /\ a.pad = sel
      <3>1. gacts[i] \in Act /\ i \in 1..i /\ gacts[i].key = i  BY <2>2, <2>4, <2>8
      <3> QED BY <2>10, <2>13, <3>1, PadSet
    <2>15. gacts' = [g EXCEPT ![i] = a]
      <3>1. gacts' = [g EXCEPT ![i] = [g[i] EXCEPT !.pad = sel]]  BY <2>7, <2>11
      <3>2. g[i] = gacts[i]  BY <2>4, <2>12
      <3>3. [g[i] EXCEPT !.pad = sel] = a  BY <2>13, <3>2
      <3> QED BY <3>1, <3>3
    <2>16. i \in 1..Len(g)  BY <2>4, <2>12
    <2>17. gacts' \in Seq(Act) /\ Len(gacts') = i /\ \A j \in 1..i : gacts'[j] = IF j = i THEN a ELSE g[j]
      BY <2>12, <2>14, <2>15, <2>16, ExceptSeq
    <2>18. ASSUME NEW j \in DOMAIN eh, j > i PROVE gacts[j].hs = <<>>
      <3>1. j \notin WithPad(eh)  BY <2>1, <2>3, <2>4, <2>18
      <3>2. eh[j].site[1] \in Sites /\ eh[j].site[1].open = Len(gacts[j].hs) /\ ~eh[j].site[1].lp
        BY <2>18, <3>1, FrameIs DEF Sited, WithPad
      <3>3. eh[j].site[1].open = 0  BY <3>2, SiteAssumption
      <3>4. gacts[j].hs \in Seq(Objs)  BY <2>2, <2>3, <2>18, ActIs
      <3> QED BY <3>2, <3>3, <3>4, NoneLeft
    <2>19. gstat' = "run" /\ i = Target(eh) /\ WithPad(eh) # {} /\ i \in DOMAIN eh  BY <1>2, <2>0, <2>1, <2>7
    <2>20. \A j \in 1..i : j # i => gacts'[j] = gacts[j]  BY <2>12, <2>17
    <2>21. gacts'[i] = a  BY <2>16, <2>12, <2>17
    <2>22. gacts'[i].hs = gacts[i].hs /\ gacts'[i].key = i /\ gacts'[i].pad \in 0 .. Len(eh[i].site[1].catches)
      BY <2>10, <2>14, <2>21
    <2>23. \A j \in DOMAIN eh : j > i => gacts[j].hs = <<>>  BY <2>18
    <2>24. gacts' \in Seq(Act) /\ Len(gacts') = i  BY <2>17
    <2>25. i \in DOMAIN gacts  BY <2>4
    <2> HIDE DEF Target, WithPad
    <2> QED BY <2>9, <2>19, <2>20, <2>22, <2>23, <2>24, <2>25
  <1> QED BY <1>1, <1>2

-----------------------------------------------------------------------------
(* Every call keeps the shape.                                              *)
LEMMA ShapeFacts == ASSUME ShapeInv
    PROVE /\ Len(gacts) \in Nat /\ DOMAIN gacts = 1..Len(gacts) /\ Len(gnu_eh) \in Nat /\ DOMAIN gnu_eh = 1..Len(gnu_eh)
          /\ gacts # <<>> => Len(gacts) > 0 /\ Len(gacts) \in DOMAIN gacts /\ Last(gacts) = gacts[Len(gacts)] /\ Last(gacts) \in Act
          /\ gacts = <<>> => Len(gacts) = 0
          /\ gnu_eh = <<>> <=> Len(gnu_eh) = 0
  <1>1. gacts \in Seq(Act) /\ gnu_eh \in Seq(Frame)  BY DEF ShapeInv
  <1>2. Len(gacts) \in Nat /\ DOMAIN gacts = 1..Len(gacts) /\ Len(gnu_eh) \in Nat /\ DOMAIN gnu_eh = 1..Len(gnu_eh)
    BY <1>1, LenProperties
  <1>3. ASSUME gacts # <<>> PROVE Len(gacts) > 0 /\ Len(gacts) \in DOMAIN gacts /\ Last(gacts) = gacts[Len(gacts)] /\ Last(gacts) \in Act
    <2>1. Len(gacts) > 0  BY <1>1, <1>2, <1>3, EmptySeq
    <2>2. Len(gacts) \in 1..Len(gacts)  BY <1>2, <2>1
    <2> QED BY <1>1, <1>2, <2>1, <2>2, ElementOfSeq DEF Last
  <1>4. gacts = <<>> => Len(gacts) = 0  OBVIOUS
  <1>5. gnu_eh = <<>> <=> Len(gnu_eh) = 0  BY <1>1, EmptySeq
  <1> QED BY <1>2, <1>3, <1>4, <1>5

\* The handlers are the same before and after a step that adds and removes
\* activations without any.
HandlersKept ==
    /\ \A j \in DOMAIN gacts : j \in DOMAIN gacts' => gacts'[j].hs = gacts[j].hs
    /\ \A j \in DOMAIN gacts : j \notin DOMAIN gacts' => gacts[j].hs = <<>>
    /\ \A j \in DOMAIN gacts' : j \notin DOMAIN gacts => gacts'[j].hs = <<>>

\* A frame stack of which every entry has recorded a site of its activation.
Ready(eh) == /\ eh \in Seq(Frame) /\ Len(eh) <= Len(gacts)
             /\ \A i \in DOMAIN eh : eh[i].key = i /\ Sited(eh, i)

LEMMA DispatchShape ==
    ASSUME ShapeInv, gstat = "run", NEW eh, Ready(eh), NEW t, Dispatch(eh, t),
           \A j \in DOMAIN gacts : j > Len(eh) => gacts[j].hs = <<>>
    PROVE  ShapeInv' /\ HandlersKept /\ gstat' \in {"run", "abort"} /\ (gstat' = "run" => RunningPad')
  <1>0. eh \in Seq(Frame) /\ Len(eh) <= Len(gacts) /\ \A i \in DOMAIN eh : eh[i].key = i /\ Sited(eh, i)  BY DEF Ready
  <1>e. Len(eh) \in Nat /\ DOMAIN eh = 1..Len(eh)  BY <1>0, LenProperties
  <1>1. CASE gstat' = "abort" /\ gacts' = gacts /\ gnu_eh' = eh
    <2>1. \A i \in DOMAIN gnu_eh' : gnu_eh'[i].key = i  BY <1>0, <1>1
    <2>2. gacts' \in Seq(Act) /\ \A i \in DOMAIN gacts' : gacts'[i].key = i /\ (i < Len(gacts') => gacts'[i].pad = -1)
      BY <1>1 DEF ShapeInv
    <2> QED BY <1>0, <1>1, <2>1, <2>2 DEF ShapeInv, HandlersKept
  <1>2. ASSUME NEW i \in DOMAIN eh,
               gstat' = "run", i = Target(eh), WithPad(eh) # {}, i \in DOMAIN gacts,
               gnu_eh' \in Seq(Frame), Len(gnu_eh') = i, \A j \in 1..i : gnu_eh'[j] = eh[j],
               gacts' \in Seq(Act), Len(gacts') = i, \A j \in 1..i : j # i => gacts'[j] = gacts[j],
               gacts'[i].key = i, gacts'[i].pad \in 0 .. Len(eh[i].site[1].catches),
               gacts'[i].hs = gacts[i].hs, \A j \in DOMAIN eh : j > i => gacts[j].hs = <<>>
        PROVE ShapeInv' /\ HandlersKept /\ RunningPad'
    <2>1. DOMAIN gnu_eh' = 1..i /\ DOMAIN gacts' = 1..i /\ i \in Nat /\ i >= 1 /\ i <= Len(eh)
      BY <1>2, <1>e, LenProperties
    <2>2. \A j \in 1..i : j \in DOMAIN eh /\ j \in DOMAIN gacts  BY <1>e, <1>0, <2>1, ShapeFacts
    <2>3. \A j \in DOMAIN gnu_eh' : gnu_eh'[j].key = j  BY <1>0, <1>2, <2>1, <2>2
    <2>4. ASSUME NEW j \in DOMAIN gacts' PROVE gacts'[j].key = j /\ (j < Len(gacts') => gacts'[j].pad = -1)
      <3>1. CASE j = i  BY <1>2, <2>1, <3>1
      <3>2. CASE j # i
        <4>1. j < Len(gacts) /\ j \in DOMAIN gacts /\ gacts'[j] = gacts[j]
          BY <1>0, <1>2, <1>e, <2>1, <2>2, <3>2, ShapeFacts
        <4> QED BY <4>1 DEF ShapeInv
      <3> QED BY <3>1, <3>2
    <2>5. ASSUME NEW j \in DOMAIN gnu_eh', j < Len(gnu_eh') PROVE Sited(gnu_eh, j)'
      <3>1. j \in 1..i /\ j # i /\ j \in DOMAIN eh  BY <1>2, <2>1, <2>2, <2>5
      <3>2. gnu_eh'[j] = eh[j] /\ gacts'[j] = gacts[j]  BY <1>2, <3>1
      <3>3. Sited(eh, j)  BY <1>0, <3>1
      <3> QED BY <3>2, <3>3 DEF Sited
    <2>6. eh[i].site # <<>>  BY <1>0 DEF Sited
    <2>7. Last(gnu_eh)' = eh[i] /\ Last(gacts)' = gacts'[i]  BY <1>2, <2>1 DEF Last
    <2>8. Last(gnu_eh)'.site # <<>> /\ Last(gacts)'.pad \in 0 .. Len(Last(gnu_eh)'.site[1].catches)  BY <1>2, <2>6, <2>7
    <2>9. ShapeInv'  BY <1>2, <2>1, <2>3, <2>4, <2>5, <2>8 DEF ShapeInv
    <2>10. ASSUME NEW j \in DOMAIN gacts, j \notin DOMAIN gacts' PROVE gacts[j].hs = <<>>
      <3>1. j > i  BY <2>1, <2>10, ShapeFacts
      <3>2. CASE j \in DOMAIN eh  BY <1>2, <3>1, <3>2
      <3>3. CASE j \notin DOMAIN eh
        <4>1. j > Len(eh)  BY <1>e, <3>3, ShapeFacts
        <4> QED BY <4>1
      <3> QED BY <3>2, <3>3
    <2>11. ASSUME NEW j \in DOMAIN gacts' PROVE j \in DOMAIN gacts /\ gacts'[j].hs = gacts[j].hs
      BY <1>2, <2>1, <2>2
    <2>12. RunningPad'
      <3>1. gacts' # <<>>  BY <1>2, <2>1
      <3>2. Last(gacts)'.pad # -1
        <4>1. eh[i].site[1] \in Sites  BY <1>0, <2>6, FrameIs
        <4>2. Len(eh[i].site[1].catches) \in Nat  BY <4>1, SiteAssumption
        <4> QED BY <1>2, <2>7, <4>2
      <3> QED BY <3>1, <3>2 DEF RunningPad
    <2> QED BY <2>9, <2>10, <2>11, <2>12 DEF HandlersKept
  <1>3. \/ gstat' = "abort" /\ gacts' = gacts /\ gnu_eh' = eh /\ WithPad(eh) = {}
        \/ \E i \in DOMAIN eh :
               /\ gstat' = "run" /\ i = Target(eh) /\ WithPad(eh) # {} /\ i \in DOMAIN gacts
               /\ gnu_eh' \in Seq(Frame) /\ Len(gnu_eh') = i /\ \A j \in 1..i : gnu_eh'[j] = eh[j]
               /\ gacts' \in Seq(Act) /\ Len(gacts') = i /\ \A j \in 1..i : j # i => gacts'[j] = gacts[j]
               /\ gacts'[i].hs = gacts[i].hs /\ gacts'[i].key = i
               /\ gacts'[i].pad \in 0 .. Len(eh[i].site[1].catches)
               /\ \A j \in DOMAIN eh : j > i => gacts[j].hs = <<>>
    BY <1>0, DispatchCuts
  <1> QED BY <1>1, <1>2, <1>3

\* aret_gnu_eh_setpc before a call.
LEMMA SetPcReady == ASSUME ShapeInv, gstat = "run", NEW s \in Sites, Here(s)
    PROVE /\ Ready(SetPc(s)) /\ Len(SetPc(s)) = Len(gacts)
          /\ SetPc(s)[Len(gacts)].site = <<s>>
          /\ \A i \in DOMAIN gacts : i # Len(gacts) => SetPc(s)[i] = gnu_eh[i]
  <1>1. /\ Len(gnu_eh) = Len(gacts) /\ \A i \in DOMAIN gnu_eh : i < Len(gnu_eh) => Sited(gnu_eh, i)
        /\ gnu_eh \in Seq(Frame) /\ \A i \in DOMAIN gnu_eh : gnu_eh[i].key = i
    BY DEF ShapeInv
  <1>2. gacts # <<>> /\ s.open = Len(Last(gacts).hs)  BY DEF Here
  <1>3. PICK n : n = Len(gnu_eh)  OBVIOUS
  <1>4. n \in Nat /\ n > 0 /\ DOMAIN gnu_eh = 1..n /\ n \in 1..Len(gnu_eh) /\ Len(gacts) = n /\ gnu_eh # <<>> /\ DOMAIN gacts = 1..n
        /\ Last(gacts) = gacts[n]
    BY <1>1, <1>2, <1>3, ShapeFacts
  <1>5. PICK f : f = [gnu_eh[n] EXCEPT !.site = <<s>>]  OBVIOUS
  <1>6. gnu_eh[n] \in Frame  BY <1>1, <1>4, ElementOfSeq
  <1>7. f \in Frame /\ f.key = n /\ f.site = <<s>>
    <2>1. gnu_eh[n].key = n  BY <1>1, <1>4
    <2> QED BY <1>5, <1>6, <2>1 DEF Frame
  <1>8. SetPc(s) = [gnu_eh EXCEPT ![n] = f]  BY <1>3, <1>4, <1>5 DEF SetPc
  <1>9. SetPc(s) \in Seq(Frame) /\ Len(SetPc(s)) = n /\ \A j \in 1..n : SetPc(s)[j] = IF j = n THEN f ELSE gnu_eh[j]
    BY <1>1, <1>3, <1>4, <1>7, <1>8, ExceptSeq
  <1>10. DOMAIN SetPc(s) = 1..n  BY <1>9, LenProperties
  <1>11. ASSUME NEW i \in DOMAIN SetPc(s) PROVE SetPc(s)[i].key = i /\ Sited(SetPc(s), i)
    <2>1. CASE i = n
      <3>1. SetPc(s)[i] = f  BY <1>9, <1>10, <2>1
      <3>2. <<s>>[1] = s /\ <<s>> # <<>>  OBVIOUS
      <3>3. f.site[1].open = Len(gacts[i].hs)  BY <1>2, <1>4, <1>7, <2>1, <3>2
      <3> QED BY <1>7, <2>1, <3>1, <3>2, <3>3 DEF Sited
    <2>2. CASE i # n
      <3>1. SetPc(s)[i] = gnu_eh[i] /\ i \in DOMAIN gnu_eh /\ i < Len(gnu_eh)  BY <1>3, <1>4, <1>9, <1>10, <2>2
      <3> QED BY <1>1, <3>1 DEF Sited
    <2> QED BY <2>1, <2>2
  <1>12. Ready(SetPc(s))  BY <1>4, <1>9, <1>11 DEF Ready
  <1>13. SetPc(s)[n].site = <<s>>  BY <1>4, <1>7, <1>9
  <1> QED BY <1>4, <1>9, <1>12, <1>13

\* The frames below a pad that resumes.
LEMMA FrontReady == ASSUME ShapeInv, gstat = "run", gacts # <<>>
    PROVE Ready(Front(gnu_eh)) /\ Len(Front(gnu_eh)) = Len(gacts) - 1
  <1>1. /\ Len(gnu_eh) = Len(gacts) /\ \A i \in DOMAIN gnu_eh : i < Len(gnu_eh) => Sited(gnu_eh, i)
        /\ gnu_eh \in Seq(Frame) /\ \A i \in DOMAIN gnu_eh : gnu_eh[i].key = i
    BY DEF ShapeInv
  <1>2. PICK n : n = Len(gnu_eh)  OBVIOUS
  <1>3. n \in Nat /\ n > 0 /\ DOMAIN gnu_eh = 1..n /\ Len(gacts) = n  BY <1>1, <1>2, ShapeFacts
  <1>4. \A i \in 1..(n - 1) : gnu_eh[i] \in Frame  BY <1>1, <1>2, <1>3, ElementOfSeq
  <1>5. Front(gnu_eh) = SubSeq(gnu_eh, 1, n - 1)  BY <1>2 DEF Front
  <1>6. /\ SubSeq(gnu_eh, 1, n - 1) \in Seq(Frame) /\ Len(SubSeq(gnu_eh, 1, n - 1)) = IF 1 <= n - 1 THEN (n - 1) - 1 + 1 ELSE 0
        /\ \A i \in 1..((n - 1) - 1 + 1) : SubSeq(gnu_eh, 1, n - 1)[i] = gnu_eh[1 + i - 1]
    BY <1>3, <1>4, SubSeqProperties
  <1>7. Front(gnu_eh) \in Seq(Frame) /\ Len(Front(gnu_eh)) = n - 1 /\ \A i \in 1..(n - 1) : Front(gnu_eh)[i] = gnu_eh[i]
    BY <1>3, <1>5, <1>6
  <1>8. DOMAIN Front(gnu_eh) = 1..(n - 1)  BY <1>7, LenProperties
  <1>9. ASSUME NEW i \in DOMAIN Front(gnu_eh) PROVE Front(gnu_eh)[i].key = i /\ Sited(Front(gnu_eh), i)
    <2>1. Front(gnu_eh)[i] = gnu_eh[i] /\ i \in DOMAIN gnu_eh /\ i < Len(gnu_eh)  BY <1>2, <1>3, <1>7, <1>8
    <2> QED BY <1>1, <2>1 DEF Sited
  <1> QED BY <1>3, <1>7, <1>9 DEF Ready

LEMMA EnterShape == ASSUME ShapeInv, NEW s \in Sites, GnuEnter(s) PROVE ShapeInv' /\ HandlersKept /\ ~RunningPad'
  <1>0. gstat = "run" /\ gstat' = "run" /\ (gacts # <<>> => Here(s)) /\ ~RunningPad  BY DEF GnuEnter, InBody
  <1>1. PICK n : n = Len(gacts)  OBVIOUS
  <1>2. PICK eh : eh = SetPc(s)  OBVIOUS
  <1>3. n \in Nat /\ DOMAIN gacts = 1..n /\ gacts \in Seq(Act)  BY <1>1, ShapeFacts DEF ShapeInv
  <1>4. eh \in Seq(Frame) /\ Len(eh) = n /\ \A i \in DOMAIN eh : eh[i].key = i /\ Sited(eh, i)
    <2>1. CASE gacts = <<>>
      <3>1. n = 0 /\ gnu_eh = <<>>  BY <1>0, <1>1, <2>1, ShapeFacts DEF ShapeInv
      <3>2. eh = <<>>  BY <1>2, <3>1 DEF SetPc
      <3> QED BY <3>1, <3>2
    <2>2. CASE gacts # <<>>  BY <1>0, <1>1, <1>2, <2>2, SetPcReady DEF Ready
    <2> QED BY <2>1, <2>2
  <1>5. PICK f : f = [key |-> n + 1, site |-> <<>>]  OBVIOUS
  <1>6. PICK a : a = [key |-> n + 1, hs |-> <<>>, pad |-> -1]  OBVIOUS
  <1>7. f \in Frame /\ f.key = n + 1 /\ a \in Act /\ a.key = n + 1 /\ a.pad = -1 /\ a.hs = <<>>
    BY <1>3, <1>5, <1>6 DEF Frame, Act
  <1>8. gnu_eh' = Append(eh, f) /\ gacts' = Append(gacts, a)  BY <1>1, <1>2, <1>5, <1>6 DEF GnuEnter
  <1>9. DOMAIN eh = 1..n  BY <1>4, LenProperties
  <1>10. /\ gnu_eh' \in Seq(Frame) /\ Len(gnu_eh') = n + 1 /\ \A i \in 1..n : gnu_eh'[i] = eh[i]
         /\ gnu_eh'[n + 1] = f
    BY <1>4, <1>7, <1>8, AppendProperties
  <1>11. /\ gacts' \in Seq(Act) /\ Len(gacts') = n + 1 /\ \A i \in 1..n : gacts'[i] = gacts[i]
         /\ gacts'[n + 1] = a
    BY <1>1, <1>3, <1>7, <1>8, AppendProperties
  <1>12. DOMAIN gnu_eh' = 1..(n + 1) /\ DOMAIN gacts' = 1..(n + 1)  BY <1>10, <1>11, LenProperties
  <1>13. ASSUME NEW i \in 1..n PROVE gacts[i].pad = -1 /\ gacts[i].key = i
    <2>1. i \in DOMAIN gacts  BY <1>3
    <2>2. CASE i < Len(gacts)  BY <2>1, <2>2 DEF ShapeInv
    <2>3. CASE ~(i < Len(gacts))
      <3>1. i = Len(gacts) /\ gacts # <<>>  BY <1>1, <1>3, <2>3
      <3>2. Last(gacts).pad = -1  BY <1>0, <3>1 DEF RunningPad
      <3> QED BY <2>1, <3>1, <3>2 DEF Last, ShapeInv
    <2> QED BY <2>2, <2>3
  <1>14. ASSUME NEW i \in DOMAIN gacts' PROVE gacts'[i].key = i /\ gacts'[i].pad = -1
    BY <1>3, <1>7, <1>11, <1>12, <1>13
  <1>15. \A i \in DOMAIN gnu_eh' : gnu_eh'[i].key = i  BY <1>3, <1>4, <1>7, <1>9, <1>10, <1>12
  <1>16. ASSUME NEW i \in DOMAIN gnu_eh', i < Len(gnu_eh') PROVE Sited(gnu_eh, i)'
    <2>1. i \in 1..n /\ i \in DOMAIN eh  BY <1>3, <1>9, <1>10, <1>12, <1>16
    <2>2. gnu_eh'[i] = eh[i] /\ gacts'[i] = gacts[i] /\ Sited(eh, i)  BY <1>4, <1>10, <1>11, <2>1
    <2> QED BY <2>2 DEF Sited
  <1>17. ~RunningPad'
    <2>1. Last(gacts)' = gacts'[n + 1]  BY <1>11 DEF Last
    <2>2. Last(gacts)'.pad = -1  BY <1>7, <1>11, <2>1
    <2> QED BY <2>2 DEF RunningPad
  <1>18. ShapeInv'  BY <1>0, <1>10, <1>11, <1>14, <1>15, <1>16, <1>17 DEF ShapeInv
  <1>19. HandlersKept  BY <1>3, <1>7, <1>11, <1>12 DEF HandlersKept
  <1> QED BY <1>17, <1>18, <1>19

LEMMA FrontIs == ASSUME NEW S, NEW q \in Seq(S), q # <<>>
    PROVE /\ Front(q) \in Seq(S) /\ Len(Front(q)) = Len(q) - 1 /\ DOMAIN Front(q) = 1..(Len(q) - 1)
          /\ \A i \in 1..(Len(q) - 1) : Front(q)[i] = q[i]
  <1>1. PICK n : n = Len(q)  OBVIOUS
  <1>2. n \in Nat /\ n > 0  BY <1>1, EmptySeq
  <1>3. \A i \in 1..(n - 1) : q[i] \in S  BY <1>1, <1>2, ElementOfSeq
  <1>4. /\ SubSeq(q, 1, n - 1) \in Seq(S) /\ Len(SubSeq(q, 1, n - 1)) = IF 1 <= n - 1 THEN (n - 1) - 1 + 1 ELSE 0
        /\ \A i \in 1..((n - 1) - 1 + 1) : SubSeq(q, 1, n - 1)[i] = q[1 + i - 1]
    BY <1>2, <1>3, SubSeqProperties
  <1>5. Front(q) = SubSeq(q, 1, n - 1)  BY <1>1 DEF Front
  <1>6. Front(q) \in Seq(S) /\ Len(Front(q)) = n - 1 /\ \A i \in 1..(n - 1) : Front(q)[i] = q[i]
    BY <1>2, <1>4, <1>5
  <1> QED BY <1>1, <1>6, LenProperties

LEMMA ReturnShape == ASSUME ShapeInv, GnuReturn PROVE ShapeInv' /\ HandlersKept /\ ~RunningPad'
  <1>0. /\ gstat = "run" /\ gstat' = "run" /\ gacts # <<>> /\ gnu_eh' = Front(gnu_eh) /\ gacts' = Front(gacts)
        /\ Len(gnu_eh) = Len(gacts) /\ gacts \in Seq(Act)
        /\ \A i \in DOMAIN gacts : gacts[i].key = i /\ (i < Len(gacts) => gacts[i].pad = -1)
    BY DEF GnuReturn, InBody, ShapeInv
  <1>1. PICK n : n = Len(gacts)  OBVIOUS
  <1>2. n \in Nat /\ n > 0 /\ DOMAIN gacts = 1..n  BY <1>0, <1>1, ShapeFacts
  <1>3. gacts' \in Seq(Act) /\ Len(gacts') = n - 1 /\ DOMAIN gacts' = 1..(n - 1) /\ \A i \in 1..(n - 1) : gacts'[i] = gacts[i]
    BY <1>0, <1>1, FrontIs
  <1>4. gnu_eh' \in Seq(Frame) /\ Len(gnu_eh') = n - 1 /\ \A i \in DOMAIN gnu_eh' : gnu_eh'[i].key = i /\ Sited(gnu_eh', i)
    BY <1>0, <1>1, FrontReady DEF Ready
  <1>5. DOMAIN gnu_eh' = 1..(n - 1)  BY <1>4, LenProperties
  <1>6. ASSUME NEW i \in DOMAIN gacts' PROVE gacts'[i].key = i /\ gacts'[i].pad = -1
    <2>1. i \in DOMAIN gacts /\ i < Len(gacts) /\ gacts'[i] = gacts[i]  BY <1>1, <1>2, <1>3
    <2> QED BY <1>0, <2>1
  <1>7. ASSUME NEW i \in DOMAIN gnu_eh' PROVE Sited(gnu_eh, i)'
    <2>1. gacts'[i] = gacts[i] /\ Sited(gnu_eh', i)  BY <1>3, <1>4, <1>5
    <2> QED BY <2>1 DEF Sited
  <1>8. ~RunningPad'
    <2>1. ASSUME gacts' # <<>> PROVE Last(gacts)'.pad = -1
      <3>1. Len(gacts') \in DOMAIN gacts'  BY <1>2, <1>3, <2>1, EmptySeq
      <3> QED BY <1>6, <3>1 DEF Last
    <2> QED BY <2>1 DEF RunningPad
  <1>9. ShapeInv'  BY <1>0, <1>3, <1>4, <1>6, <1>7, <1>8 DEF ShapeInv
  <1>10. gacts[n].hs = <<>>  BY <1>0, <1>1, ShapeFacts DEF GnuReturn, Last
  <1>11. HandlersKept  BY <1>2, <1>3, <1>10 DEF HandlersKept
  <1> QED BY <1>8, <1>9, <1>11

\* begin_catch and end_catch write the innermost activation only.
LEMMA LastShape ==
    ASSUME ShapeInv, gstat = "run", gacts # <<>>, NEW a \in Act, a.key = Len(gacts), a.pad \in {-1, Last(gacts).pad},
           gacts' = [gacts EXCEPT ![Len(gacts)] = a], UNCHANGED <<gnu_eh, gstat>>
    PROVE  /\ ShapeInv' /\ Len(gacts') = Len(gacts) /\ DOMAIN gacts' = DOMAIN gacts
           /\ Last(gacts)' = a /\ gacts'[Len(gacts)] = a
           /\ \A i \in DOMAIN gacts : i # Len(gacts) => gacts'[i] = gacts[i]
  <1>1. PICK n : n = Len(gacts)  OBVIOUS
  <1>2. n \in Nat /\ n > 0 /\ DOMAIN gacts = 1..n /\ n \in 1..n /\ gacts \in Seq(Act) /\ Last(gacts) = gacts[n]
    BY <1>1, ShapeFacts DEF ShapeInv
  <1>3. gacts' \in Seq(Act) /\ Len(gacts') = n /\ \A i \in 1..n : gacts'[i] = IF i = n THEN a ELSE gacts[i]
    BY <1>1, <1>2, ExceptSeq
  <1>4. DOMAIN gacts' = 1..n /\ Last(gacts)' = a  BY <1>2, <1>3, LenProperties DEF Last
  <1>5. gnu_eh' = gnu_eh /\ gstat' = gstat  OBVIOUS
  <1>6. /\ Len(gnu_eh) = Len(gacts) /\ gnu_eh \in Seq(Frame) /\ \A i \in DOMAIN gnu_eh : gnu_eh[i].key = i
        /\ \A i \in DOMAIN gnu_eh : i < Len(gnu_eh) => Sited(gnu_eh, i)
        /\ RunningPad => /\ Last(gnu_eh).site # <<>>
                         /\ Last(gacts).pad \in 0 .. Len(Last(gnu_eh).site[1].catches)
        /\ \A i \in DOMAIN gacts : gacts[i].key = i /\ (i < Len(gacts) => gacts[i].pad = -1)
    BY DEF ShapeInv
  <1>7. ASSUME NEW i \in DOMAIN gacts' PROVE gacts'[i].key = i /\ (i < Len(gacts') => gacts'[i].pad = -1)
    BY <1>1, <1>2, <1>3, <1>4, <1>6
  <1>8. ASSUME NEW i \in DOMAIN gnu_eh', i < Len(gnu_eh') PROVE Sited(gnu_eh, i)'
    <2>1. i \in 1..n /\ i # n  BY <1>1, <1>2, <1>5, <1>6, <1>8, ShapeFacts
    <2>2. gacts'[i] = gacts[i] /\ Sited(gnu_eh, i)  BY <1>3, <1>5, <1>6, <1>8, <2>1
    <2> QED BY <1>5, <2>2 DEF Sited
  <1>9. RunningPad' => RunningPad /\ Last(gacts)'.pad = Last(gacts).pad  BY <1>4 DEF RunningPad
  <1>10. RunningPad' => Last(gnu_eh)'.site # <<>> /\ Last(gacts)'.pad \in 0 .. Len(Last(gnu_eh)'.site[1].catches)
    BY <1>5, <1>6, <1>9
  <1>11. ShapeInv'  BY <1>1, <1>3, <1>5, <1>6, <1>7, <1>8, <1>10 DEF ShapeInv
  <1> QED BY <1>1, <1>2, <1>3, <1>4, <1>11

LEMMA ActWith == ASSUME NEW a \in Act, NEW h, NEW q \in Int
    PROVE /\ [a EXCEPT !.pad = q, !.hs = h] = [key |-> a.key, hs |-> h, pad |-> q]
          /\ [a EXCEPT !.hs = h] = [key |-> a.key, hs |-> h, pad |-> a.pad]
  <1>1. a = [key |-> a.key, hs |-> a.hs, pad |-> a.pad]  BY DEF Act
  <1>2. PICK k, g, p : a = [key |-> k, hs |-> g, pad |-> p]  BY <1>1
  <1>3. [a EXCEPT !.hs = h] = [key |-> k, hs |-> h, pad |-> p]  BY <1>2
  <1>5. PICK b : b = [a EXCEPT !.pad = q]  OBVIOUS
  <1>4. b = [key |-> k, hs |-> g, pad |-> q]
    <2>1. b \in Act /\ b.key = a.key /\ b.hs = a.hs /\ b.pad = q  BY <1>5, PadSet
    <2>2. b = [key |-> b.key, hs |-> b.hs, pad |-> b.pad]  BY <2>1 DEF Act
    <2> QED BY <1>2, <2>1, <2>2
  <1>6. [b EXCEPT !.hs = h] = [key |-> k, hs |-> h, pad |-> q]  BY <1>4, <1>5
  <1>7. a.key = k /\ a.pad = p  BY <1>2
  <1>8. [a EXCEPT !.pad = q, !.hs = h] = [b EXCEPT !.hs = h]  BY <1>5
  <1> QED BY <1>3, <1>6, <1>7, <1>8
\* What begin_catch and end_catch make of the innermost activation.
LEMMA BeginIs == ASSUME ShapeInv, StateInv, CxaBeginCatch
    PROVE LET a == [key |-> Len(gacts), hs |-> Append(Last(gacts).hs, exc_obj), pad |-> -1]
          IN  gstat = "run" /\ gacts # <<>> /\ a \in Act /\ gacts' = [gacts EXCEPT ![Len(gacts)] = a] /\ exc_obj \in Objs
  <1>1. gstat = "run" /\ RunningPad /\ gacts # <<>>  BY DEF CxaBeginCatch, RunningPad
  <1>2. exc_obj \in Objs  BY <1>1 DEF StateInv
  <1>3. PICK n : n = Len(gacts)  OBVIOUS
  <1>4. n \in Nat /\ n \in DOMAIN gacts /\ Last(gacts) = gacts[n] /\ gacts[n] \in Act /\ gacts[n].key = n
    BY <1>1, <1>3, ShapeFacts DEF ShapeInv
  <1>5. gacts[n].hs \in Seq(Objs) /\ DOMAIN gacts[n] = {"key", "hs", "pad"}  BY <1>4 DEF Act
  <1>6. Append(gacts[n].hs, exc_obj) \in Seq(Objs)  BY <1>2, <1>5, AppendProperties
  <1>7. PICK h : h = Append(gacts[n].hs, exc_obj)  OBVIOUS
  <1>8. [key |-> n, hs |-> h, pad |-> -1] \in Act  BY <1>4, <1>6, <1>7 DEF Act
  <1>9. gacts' = [gacts EXCEPT ![n].pad = -1, ![n].hs = Append(@, exc_obj)]  BY <1>3 DEF CxaBeginCatch
  <1>r. PICK r : r = [gacts[n] EXCEPT !.pad = -1, !.hs = h]  OBVIOUS
  <1>s. r = [key |-> n, hs |-> h, pad |-> -1]
    <2>1. -1 \in Int /\ gacts[n] \in Act  BY <1>4
    <2>2. r = [key |-> gacts[n].key, hs |-> h, pad |-> -1]  BY <1>r, <2>1, ActWith
    <2> QED BY <1>4, <2>2
  <1>t. gacts' = [gacts EXCEPT ![n] = r]
    <2>1. gacts' = [gacts EXCEPT ![n] = [gacts[n] EXCEPT !.pad = -1, !.hs = Append(@, exc_obj)]]  BY <1>4, <1>9
    <2>2. [gacts[n] EXCEPT !.pad = -1, !.hs = Append(@, exc_obj)] = r  BY <1>4, <1>7, <1>r DEF Act
    <2> QED BY <2>1, <2>2
  <1>10. gacts' = [gacts EXCEPT ![n] = [key |-> n, hs |-> h, pad |-> -1]]
    BY <1>s, <1>t
  <1> QED BY <1>1, <1>2, <1>3, <1>4, <1>7, <1>8, <1>10
LEMMA EndIs == ASSUME ShapeInv, CxaEndCatch
    PROVE LET a == [key |-> Len(gacts), hs |-> Front(Last(gacts).hs), pad |-> Last(gacts).pad]
          IN  /\ gstat = "run" /\ gacts # <<>> /\ a \in Act /\ gacts' = [gacts EXCEPT ![Len(gacts)] = a]
              /\ Last(gacts).hs # <<>>
  <1>1. gstat = "run" /\ gacts # <<>> /\ Last(gacts).hs # <<>>  BY DEF CxaEndCatch, AtEndCatch
  <1>3. PICK n : n = Len(gacts)  OBVIOUS
  <1>4. n \in Nat /\ n \in DOMAIN gacts /\ Last(gacts) = gacts[n] /\ gacts[n] \in Act /\ gacts[n].key = n
    BY <1>1, <1>3, ShapeFacts DEF ShapeInv
  <1>5. gacts[n].hs \in Seq(Objs) /\ gacts[n].pad \in Int  BY <1>4 DEF Act
  <1>6. PICK h : h = Front(gacts[n].hs)  OBVIOUS
  <1>7. h \in Seq(Objs)  BY <1>1, <1>4, <1>5, <1>6, FrontIs
  <1>8. [key |-> n, hs |-> h, pad |-> gacts[n].pad] \in Act  BY <1>4, <1>5, <1>7 DEF Act
  <1>9. gacts' = [gacts EXCEPT ![n].hs = h]  BY <1>3, <1>6 DEF CxaEndCatch
  <1>r. PICK r : r = [gacts[n] EXCEPT !.hs = h]  OBVIOUS
  <1>s. r = [key |-> n, hs |-> h, pad |-> gacts[n].pad]
    <2>1. 0 \in Int /\ gacts[n] \in Act  BY <1>4
    <2>2. r = [key |-> gacts[n].key, hs |-> h, pad |-> gacts[n].pad]  BY <1>r, <2>1, ActWith
    <2> QED BY <1>4, <2>2
  <1>t. gacts' = [gacts EXCEPT ![n] = r]  BY <1>9, <1>r
  <1>10. gacts' = [gacts EXCEPT ![n] = [key |-> n, hs |-> h, pad |-> gacts[n].pad]]
    BY <1>s, <1>t
  <1> QED BY <1>1, <1>3, <1>4, <1>6, <1>8, <1>10

\* A throw or a rethrow from site s.
LEMMA RaiseShape == ASSUME ShapeInv, InBody, NEW s \in Sites, Here(s), NEW t, Dispatch(SetPc(s), t)
    PROVE ShapeInv' /\ HandlersKept /\ gstat' \in {"run", "abort"} /\ (gstat' = "run" => RunningPad')
  <1>1. gstat = "run"  BY DEF InBody
  <1>2. Ready(SetPc(s)) /\ Len(SetPc(s)) = Len(gacts)  BY <1>1, SetPcReady
  <1>3. \A j \in DOMAIN gacts : j > Len(SetPc(s)) => gacts[j].hs = <<>>  BY <1>2, ShapeFacts
  <1> QED BY <1>1, <1>2, <1>3, DispatchShape
LEMMA ResumeShape == ASSUME ShapeInv, UnwindResume
    PROVE ShapeInv' /\ HandlersKept /\ gstat' \in {"run", "abort"} /\ (gstat' = "run" => RunningPad')
  <1>1. gstat = "run" /\ gacts # <<>> /\ Last(gacts).hs = <<>> /\ Dispatch(Front(gnu_eh), exc_ti)
    BY DEF UnwindResume, RunningPad
  <1>2. Ready(Front(gnu_eh)) /\ Len(Front(gnu_eh)) = Len(gacts) - 1  BY <1>1, FrontReady
  <1>3. ASSUME NEW j \in DOMAIN gacts, j > Len(Front(gnu_eh)) PROVE gacts[j].hs = <<>>
    <2>1. j = Len(gacts)  BY <1>2, <1>3, ShapeFacts
    <2> QED BY <1>1, <2>1 DEF Last
  <1> QED BY <1>1, <1>2, <1>3, DispatchShape
LEMMA BeginShape == ASSUME ShapeInv, StateInv, CxaBeginCatch
    PROVE /\ ShapeInv' /\ ~RunningPad' /\ DOMAIN gacts' = DOMAIN gacts
          /\ gacts'[Len(gacts)].hs = Append(Last(gacts).hs, exc_obj)
          /\ \A i \in DOMAIN gacts : i # Len(gacts) => gacts'[i] = gacts[i]
  <1>1. PICK a : a = [key |-> Len(gacts), hs |-> Append(Last(gacts).hs, exc_obj), pad |-> -1]  OBVIOUS
  <1>2. gstat = "run" /\ gacts # <<>> /\ a \in Act /\ gacts' = [gacts EXCEPT ![Len(gacts)] = a]  BY <1>1, BeginIs
  <1>3. a.key = Len(gacts) /\ a.pad = -1 /\ a.hs = Append(Last(gacts).hs, exc_obj)  BY <1>1
  <1>4. UNCHANGED <<gnu_eh, gstat>>  BY DEF CxaBeginCatch
  <1>5. a.pad \in {-1, Last(gacts).pad}  BY <1>3
  <1>6. /\ ShapeInv' /\ Last(gacts)' = a /\ gacts'[Len(gacts)] = a /\ DOMAIN gacts' = DOMAIN gacts
        /\ \A i \in DOMAIN gacts : i # Len(gacts) => gacts'[i] = gacts[i]
    BY <1>2, <1>3, <1>4, <1>5, LastShape
  <1>7. ~RunningPad'  BY <1>3, <1>6 DEF RunningPad
  <1> QED BY <1>3, <1>6, <1>7
LEMMA EndShape == ASSUME ShapeInv, CxaEndCatch
    PROVE /\ ShapeInv' /\ (RunningPad' <=> RunningPad) /\ DOMAIN gacts' = DOMAIN gacts
          /\ gacts'[Len(gacts)].hs = Front(Last(gacts).hs) /\ Last(gacts).hs # <<>> /\ Len(gacts') = Len(gacts)
          /\ \A i \in DOMAIN gacts : i # Len(gacts) => gacts'[i] = gacts[i]
  <1>1. PICK a : a = [key |-> Len(gacts), hs |-> Front(Last(gacts).hs), pad |-> Last(gacts).pad]  OBVIOUS
  <1>2. gstat = "run" /\ gacts # <<>> /\ a \in Act /\ gacts' = [gacts EXCEPT ![Len(gacts)] = a] /\ Last(gacts).hs # <<>>
    BY <1>1, EndIs
  <1>3. a.key = Len(gacts) /\ a.pad = Last(gacts).pad /\ a.hs = Front(Last(gacts).hs)  BY <1>1
  <1>4. UNCHANGED <<gnu_eh, gstat>>  BY DEF CxaEndCatch
  <1>5. a.pad \in {-1, Last(gacts).pad}  BY <1>3
  <1>6. /\ ShapeInv' /\ Last(gacts)' = a /\ gacts'[Len(gacts)] = a /\ DOMAIN gacts' = DOMAIN gacts
        /\ Len(gacts') = Len(gacts) /\ \A i \in DOMAIN gacts : i # Len(gacts) => gacts'[i] = gacts[i]
    BY <1>2, <1>3, <1>4, <1>5, LastShape
  <1>7. gacts' # <<>>
    <2>1. Len(gacts) \in DOMAIN gacts' /\ Len(gacts) > 0  BY <1>2, <1>6, ShapeFacts
    <2> QED BY <2>1
  <1>8. RunningPad' <=> RunningPad  BY <1>2, <1>3, <1>6, <1>7 DEF RunningPad
  <1> QED BY <1>2, <1>3, <1>6, <1>8

LEMMA GnuShapeStep == ASSUME ShapeInv, StateInv, GnuNext PROVE ShapeInv' /\ StateInv'
  <1>1. ASSUME NEW s \in Sites, GnuEnter(s) PROVE ShapeInv' /\ StateInv'
    <2>1. ShapeInv' /\ HandlersKept /\ ~RunningPad'  BY <1>1, EnterShape
    <2>2. UNCHANGED <<exc_obj, caught_base, rethrown, heap, gstat, bad>>  BY <1>1 DEF GnuEnter
    <2>3. NoHandler => NoHandler'  BY <2>1 DEF NoHandler, HandlersKept
    <2> QED BY <2>1, <2>2, <2>3 DEF StateInv
  <1>2. ASSUME NEW s \in Sites, CxaRethrow(s) PROVE ShapeInv' /\ StateInv'
    <2>1. ShapeInv' /\ gstat' \in {"run", "abort"}  BY <1>2, RaiseShape DEF CxaRethrow
    <2>2. /\ UNCHANGED <<exc_obj, caught_base, heap>> /\ rethrown' = TRUE
          /\ bad' = (IF Innermost = exc_obj THEN bad ELSE bad \cup {"rethrow"}) /\ Open # {}
      BY <1>2 DEF CxaRethrow
    <2>3. exc_obj \in Objs  BY <2>2 DEF StateInv, Open, NoHandler
    <2> QED BY <2>1, <2>2, <2>3 DEF StateInv
  <1>3. ASSUME NEW s \in Sites, NEW t \in Types, NEW o \in Objs, CxaThrow(s, t, o) PROVE ShapeInv' /\ StateInv'
    <2>1. ShapeInv' /\ gstat' \in {"run", "abort"}  BY <1>3, RaiseShape DEF CxaThrow
    <2>2. UNCHANGED <<caught_base, rethrown, bad>> /\ heap' = heap \cup {o} /\ exc_obj' = o  BY <1>3 DEF CxaThrow
    <2> QED BY <2>1, <2>2 DEF StateInv
  <1>4. ASSUME GnuReturn PROVE ShapeInv' /\ StateInv'
    <2>1. ShapeInv' /\ HandlersKept /\ ~RunningPad'  BY <1>4, ReturnShape
    <2>2. UNCHANGED <<exc_obj, caught_base, rethrown, heap, gstat, bad>>  BY <1>4 DEF GnuReturn
    <2>3. NoHandler => NoHandler'  BY <2>1 DEF NoHandler, HandlersKept
    <2> QED BY <2>1, <2>2, <2>3 DEF StateInv
  <1>5. ASSUME CxaBeginCatch PROVE ShapeInv' /\ StateInv'
    <2>1. ShapeInv' /\ exc_obj \in Objs  BY <1>5, BeginShape, BeginIs
    <2>2. UNCHANGED <<exc_obj, rethrown, heap, gstat, bad>> /\ caught_base' = exc_obj  BY <1>5 DEF CxaBeginCatch
    <2> QED BY <2>1, <2>2 DEF StateInv
  <1>6. ASSUME CxaEndCatch PROVE ShapeInv' /\ StateInv'
    <2>1. ShapeInv' /\ Last(gacts).hs # <<>>  BY <1>6, EndShape
    <2>2. exc_obj \in Objs
      <3>1. gacts # <<>> /\ Len(gacts) \in DOMAIN gacts /\ Last(gacts) = gacts[Len(gacts)]
        BY <1>6, ShapeFacts DEF CxaEndCatch, AtEndCatch
      <3> QED BY <2>1, <3>1 DEF StateInv, NoHandler
    <2>3. UNCHANGED <<exc_obj, gstat>> /\ rethrown' = FALSE  BY <1>6 DEF CxaEndCatch
    <2>4. \/ UNCHANGED <<caught_base, heap, bad>>
          \/ /\ heap' = heap \ {caught_base} /\ caught_base' = NULL
             /\ bad' = IF caught_base \in heap THEN bad ELSE bad \cup {"free"}
      BY <1>6 DEF CxaEndCatch
    <2> QED BY <2>1, <2>2, <2>3, <2>4 DEF StateInv
  <1>7. ASSUME UnwindResume PROVE ShapeInv' /\ StateInv'
    <2>1. ShapeInv' /\ gstat' \in {"run", "abort"}  BY <1>7, ResumeShape
    <2>2. UNCHANGED <<exc_obj, caught_base, rethrown, heap, bad>>  BY <1>7 DEF UnwindResume
    <2>3. exc_obj \in Objs  BY <1>7 DEF UnwindResume, StateInv
    <2> QED BY <2>1, <2>2, <2>3 DEF StateInv
  <1>8. ASSUME GnuOver PROVE ShapeInv' /\ StateInv'
    BY <1>8 DEF GnuOver, gnuVars, ShapeInv, StateInv, Sited, RunningPad, NoHandler
  <1> QED BY <1>1, <1>2, <1>3, <1>4, <1>5, <1>6, <1>7, <1>8 DEF GnuNext

LEMMA ShapeTypes == ASSUME ShapeInv, StateInv PROVE GnuTypeOK /\ EhStackIsCalls
  <1>1. ASSUME NEW n \in DOMAIN gacts PROVE gacts[n].pad \in Int /\ Range(gacts[n].hs) \subseteq Objs
    <2>1. gacts[n] \in Act /\ gacts[n].hs \in Seq(Objs)  BY ActIs DEF ShapeInv
    <2>2. gacts[n].pad \in Int  BY <2>1 DEF Act
    <2>3. \A i \in DOMAIN gacts[n].hs : gacts[n].hs[i] \in Objs  BY <2>1, LenProperties, ElementOfSeq
    <2> QED BY <2>2, <2>3 DEF Range
  <1>2. \A i \in DOMAIN gnu_eh : gnu_eh[i].key \in Nat  BY ShapeFacts DEF ShapeInv
  <1>3. GnuTypeOK  BY <1>1, <1>2 DEF GnuTypeOK, ShapeInv, StateInv
  <1>4. ASSUME gstat = "run" PROVE [i \in DOMAIN gnu_eh |-> gnu_eh[i].key] = [n \in DOMAIN gacts |-> gacts[n].key]
    <2>1. DOMAIN gnu_eh = DOMAIN gacts  BY <1>4, ShapeFacts DEF ShapeInv
    <2>2. \A i \in DOMAIN gacts : gnu_eh[i].key = gacts[i].key  BY <2>1 DEF ShapeInv
    <2> QED BY <2>1, <2>2
  <1> QED BY <1>3, <1>4 DEF EhStackIsCalls

LEMMA GnuStart == GnuInit => ShapeInv /\ StateInv
  <1> SUFFICES ASSUME GnuInit PROVE ShapeInv /\ StateInv  OBVIOUS
  <1>1. gacts = <<>> /\ gnu_eh = <<>> /\ gstat = "run"  BY DEF GnuInit
  <1>2. DOMAIN gacts = {} /\ DOMAIN gnu_eh = {} /\ Len(gacts) = Len(gnu_eh)
    <2>1. DOMAIN <<>> = {}  OBVIOUS
    <2> QED BY <1>1, <2>1
  <1>3. gacts \in Seq(Act) /\ gnu_eh \in Seq(Frame)  BY <1>1, EmptySeq
  <1>4. ~RunningPad  BY <1>1 DEF RunningPad
  <1>5. ShapeInv  BY <1>2, <1>3, <1>4 DEF ShapeInv
  <1>6. StateInv  BY <1>2, <1>4 DEF GnuInit, StateInv, NoHandler
  <1> QED BY <1>5, <1>6

\* However calls, returns, throws, rethrows, catches and resumed unwinds follow
\* each other, the EH stack the hooks maintain is the stack of live activations
\* (a landing pad is never entered in a dead frame), and the selector of a running
\* pad is one of its clauses: for every nesting of handlers.
THEOREM StacksAgree == GnuSpec => [](GnuTypeOK /\ EhStackIsCalls)
  <1>1. GnuInit => ShapeInv /\ StateInv  BY GnuStart
  <1>2. ShapeInv /\ StateInv /\ [GnuNext]_gnuVars => (ShapeInv /\ StateInv)'
    <2>1. ASSUME ShapeInv, StateInv, UNCHANGED gnuVars PROVE ShapeInv' /\ StateInv'
      BY <2>1 DEF gnuVars, ShapeInv, StateInv, Sited, RunningPad, NoHandler
    <2> QED BY <2>1, GnuShapeStep
  <1>3. ShapeInv /\ StateInv => GnuTypeOK /\ EhStackIsCalls  BY ShapeTypes
  <1> QED BY <1>1, <1>2, <1>3, PTL DEF GnuSpec

-----------------------------------------------------------------------------
(* The life of exception objects.                                           *)
LEMMA ShortLists == ASSUME NEW o
    PROVE /\ <<o>> # <<>> /\ <<o, o>> # <<>> /\ Len(<<o>>) = 1 /\ Len(<<o, o>>) = 2
          /\ Append(<<>>, o) = <<o>> /\ Append(<<o>>, o) = <<o, o>>
          /\ Front(<<o>>) = <<>> /\ Front(<<o, o>>) = <<o>>
  <1>1. <<o>> # <<>> /\ <<o, o>> # <<>> /\ Len(<<o>>) = 1 /\ Len(<<o, o>>) = 2  OBVIOUS
  <1>3. <<o>> \in Seq({o}) /\ <<o, o>> \in Seq({o}) /\ <<>> \in Seq({o})  OBVIOUS
  <1>a. Append(<<>>, o) = <<o>>
    <2>1. Append(<<>>, o) \in Seq({o}) /\ Len(Append(<<>>, o)) = 1 /\ Append(<<>>, o)[1] = o  BY <1>3, AppendProperties
    <2>2. \A i \in 1..Len(Append(<<>>, o)) : Append(<<>>, o)[i] = <<o>>[i]  BY <2>1
    <2> QED BY <1>1, <1>3, <2>1, <2>2, SeqEqual
  <1>b. Append(<<o>>, o) = <<o, o>>
    <2>1. Append(<<o>>, o) \in Seq({o}) /\ Len(Append(<<o>>, o)) = 2
      BY <1>3, AppendProperties
    <2>2. \A i \in 1..2 : Append(<<o>>, o)[i] = o  BY <2>1, ElementOfSeq
    <2>3. \A i \in 1..2 : <<o, o>>[i] = o  OBVIOUS
    <2>4. \A i \in 1..Len(Append(<<o>>, o)) : Append(<<o>>, o)[i] = <<o, o>>[i]  BY <2>1, <2>2, <2>3
    <2> QED BY <1>1, <1>3, <2>1, <2>4, SeqEqual
  <1>2. Append(<<>>, o) = <<o>> /\ Append(<<o>>, o) = <<o, o>>  BY <1>a, <1>b
  <1>4. Front(<<o>>) \in Seq({o}) /\ Len(Front(<<o>>)) = 0
    <2>1. Front(<<o>>) \in Seq({o}) /\ Len(Front(<<o>>)) = Len(<<o>>) - 1  BY <1>1, <1>3, FrontIs
    <2> QED BY <1>1, <2>1
  <1>5. Front(<<o>>) = <<>>  BY <1>4, NoneLeft
  <1>6. Front(<<o, o>>) \in Seq({o}) /\ Len(Front(<<o, o>>)) = 1
    <2>1. Front(<<o, o>>) \in Seq({o}) /\ Len(Front(<<o, o>>)) = Len(<<o, o>>) - 1  BY <1>1, <1>3, FrontIs
    <2> QED BY <1>1, <2>1
  <1>7. Len(Front(<<o, o>>)) = Len(<<o>>) /\ \A i \in 1..Len(Front(<<o, o>>)) : Front(<<o, o>>)[i] = <<o>>[i]
    <2>1. \A i \in 1..1 : Front(<<o, o>>)[i] = o  BY <1>6, ElementOfSeq
    <2>2. \A i \in 1..1 : <<o>>[i] = o  OBVIOUS
    <2> QED BY <1>1, <1>6, <2>1, <2>2
  <1>8. Front(<<o, o>>) = <<o>>  BY <1>3, <1>6, <1>7, SeqEqual
  <1> QED BY <1>1, <1>2, <1>5, <1>8

LEMMA LiveNone == ASSUME NEW G, NEW H, \A i \in DOMAIN G : G[i].hs = <<>>
    PROVE \A n \in DOMAIN G : Range(G[n].hs) \subseteq H
  BY DEF Range
LEMMA LiveOne == ASSUME NEW G, NEW H, NEW n, NEW o \in H, G[n].hs = <<o>>, \A i \in DOMAIN G : i # n => G[i].hs = <<>>
    PROVE \A m \in DOMAIN G : Range(G[m].hs) \subseteq H
  <1>1. Range(<<o>>) = {o}
    <2>1. DOMAIN <<o>> = {1} /\ <<o>>[1] = o  OBVIOUS
    <2> QED BY <2>1 DEF Range
  <1>2. Range(<<>>) = {}  BY DEF Range
  <1> QED BY <1>1, <1>2
LEMMA KeptLive == ASSUME HandlersKept, HandlerObjectLive, heap \subseteq heap' PROVE HandlerObjectLive'
  <1>1. ASSUME NEW n \in DOMAIN gacts' PROVE Range(gacts'[n].hs) \subseteq heap'
    <2>1. CASE n \in DOMAIN gacts  BY <2>1 DEF HandlersKept, HandlerObjectLive
    <2>2. CASE n \notin DOMAIN gacts
      <3>1. gacts'[n].hs = <<>>  BY <2>2 DEF HandlersKept
      <3>2. Range(<<>>) = {}  BY DEF Range
      <3> QED BY <3>1, <3>2
    <2> QED BY <2>1, <2>2
  <1> QED BY <1>1 DEF HandlerObjectLive

LEMMA NoneKept == ASSUME HandlersKept, NoHandler PROVE NoHandler'
  BY DEF HandlersKept, NoHandler
LEMMA OneKept == ASSUME NEW CONSTANT o, HandlersKept, OneOf(o) PROVE OneOf(o)'
  <1>1. PICK n \in DOMAIN gacts : gacts[n].hs = <<o>> /\ \A i \in DOMAIN gacts : i # n => gacts[i].hs = <<>>
    BY DEF OneOf, OnlyAt
  <1>2. n \in DOMAIN gacts' /\ gacts'[n].hs = <<o>>  BY <1>1, ShortLists DEF HandlersKept
  <1>3. \A i \in DOMAIN gacts' : i # n => gacts'[i].hs = <<>>  BY <1>1 DEF HandlersKept
  <1> QED BY <1>2, <1>3 DEF OneOf, OnlyAt
LEMMA TwoKept == ASSUME NEW CONSTANT o, HandlersKept, TwoOf(o) PROVE TwoOf(o)'
  <1>1. ASSUME NEW n \in DOMAIN gacts, OnlyAt(n, <<o, o>>) PROVE TwoOf(o)'
    <2>1. n \in DOMAIN gacts' /\ gacts'[n].hs = <<o, o>>  BY <1>1, ShortLists DEF HandlersKept, OnlyAt
    <2>2. \A i \in DOMAIN gacts' : i # n => gacts'[i].hs = <<>>  BY <1>1 DEF HandlersKept, OnlyAt
    <2> QED BY <2>1, <2>2 DEF TwoOf, OnlyAt
  <1>2. ASSUME NEW n \in DOMAIN gacts, NEW m \in DOMAIN gacts, n # m, gacts[n].hs = <<o>>, gacts[m].hs = <<o>>,
               \A i \in DOMAIN gacts : i \notin {n, m} => gacts[i].hs = <<>>
        PROVE TwoOf(o)'
    <2>1. n \in DOMAIN gacts' /\ m \in DOMAIN gacts' /\ gacts'[n].hs = <<o>> /\ gacts'[m].hs = <<o>>
      BY <1>2, ShortLists DEF HandlersKept
    <2>2. \A i \in DOMAIN gacts' : i \notin {n, m} => gacts'[i].hs = <<>>  BY <1>2 DEF HandlersKept
    <2> QED BY <1>2, <2>1, <2>2 DEF TwoOf
  <1> QED BY <1>1, <1>2 DEF TwoOf

\* A step of the program that neither catches nor throws.
LEMMA CallObj ==
    ASSUME ObjInv, gstat = "run", ~RunningPad, HandlersKept, ~RunningPad',
           UNCHANGED <<exc_obj, caught_base, rethrown, heap, gstat, bad>>
    PROVE  ObjInv'
  <1>0. exc_obj' = exc_obj /\ caught_base' = caught_base /\ rethrown' = rethrown /\ heap' = heap /\ gstat' = gstat /\ bad' = bad
    OBVIOUS
  <1>1. HandlerObjectLive'  BY <1>0, KeptLive DEF ObjInv
  <1>2. CASE Calm
    <2>1. Calm'  BY <1>0, <1>2, NoneKept DEF Calm
    <2> QED BY <1>0, <1>1, <2>1 DEF ObjInv
  <1>3. CASE Handled
    <2>1. PICK e : e = exc_obj  OBVIOUS
    <2>2. OneOf(e)'  BY <1>3, <2>1, OneKept DEF Handled
    <2>3. OneOf(exc_obj)'  BY <1>0, <2>1, <2>2
    <2>4. Handled'  BY <1>0, <1>3, <2>3 DEF Handled
    <2> QED BY <1>0, <1>1, <2>4 DEF ObjInv
  <1>4. CASE Twice
    <2>1. PICK e : e = exc_obj  OBVIOUS
    <2>2. TwoOf(e)'  BY <1>4, <2>1, TwoKept DEF Twice
    <2>3. TwoOf(exc_obj)'  BY <1>0, <2>1, <2>2
    <2>4. Twice'  BY <1>0, <1>4, <2>3 DEF Twice
    <2> QED BY <1>0, <1>1, <2>4 DEF ObjInv
  <1> QED BY <1>2, <1>3, <1>4 DEF ObjInv

\* Where a fresh exception of a program that leaves its handlers lands.
LEMMA ThrowPlace ==
    ASSUME ShapeInv, gstat = "run", NEW eh, Ready(eh), Len(eh) = Len(gacts), LeavesHandlers(eh),
           NEW t, Dispatch(eh, t), gstat' = "run"
    PROVE  /\ Last(gnu_eh)'.site[1].to = 0 /\ Len(gacts') \in DOMAIN gacts /\ Len(gacts') \in DOMAIN gacts'
           /\ gacts'[Len(gacts')].hs = gacts[Len(gacts')].hs
           /\ \A j \in DOMAIN gacts : j # Len(gacts') => gacts[j].hs = <<>>
           /\ \A j \in DOMAIN gacts' : j # Len(gacts') => gacts'[j].hs = <<>>
  <1>0. eh \in Seq(Frame) /\ Len(eh) <= Len(gacts) /\ \A i \in DOMAIN eh : eh[i].key = i /\ Sited(eh, i)  BY DEF Ready
  <1>1. Len(eh) \in Nat /\ DOMAIN eh = 1..Len(eh) /\ DOMAIN gacts = DOMAIN eh  BY <1>0, LenProperties, ShapeFacts
  <1>2. \/ gstat' = "abort" /\ gacts' = gacts /\ gnu_eh' = eh /\ WithPad(eh) = {}
        \/ \E i \in DOMAIN eh :
               /\ gstat' = "run" /\ i = Target(eh) /\ WithPad(eh) # {} /\ i \in DOMAIN gacts
               /\ gnu_eh' \in Seq(Frame) /\ Len(gnu_eh') = i /\ \A j \in 1..i : gnu_eh'[j] = eh[j]
               /\ gacts' \in Seq(Act) /\ Len(gacts') = i /\ \A j \in 1..i : j # i => gacts'[j] = gacts[j]
               /\ gacts'[i].hs = gacts[i].hs /\ gacts'[i].key = i
               /\ gacts'[i].pad \in 0 .. Len(eh[i].site[1].catches)
               /\ \A j \in DOMAIN eh : j > i => gacts[j].hs = <<>>
    BY <1>0, DispatchCuts
  <1>3. PICK i \in DOMAIN eh :
               /\ i = Target(eh) /\ WithPad(eh) # {} /\ i \in DOMAIN gacts
               /\ Len(gnu_eh') = i /\ gnu_eh'[i] = eh[i]
               /\ gacts' \in Seq(Act) /\ Len(gacts') = i /\ \A j \in 1..i : j # i => gacts'[j] = gacts[j]
               /\ gacts'[i].hs = gacts[i].hs
               /\ \A j \in DOMAIN eh : j > i => gacts[j].hs = <<>>
    BY <1>1, <1>2
  <1>4. DOMAIN gacts' = 1..i  BY <1>3, LenProperties
  <1>5. (\A j \in DOMAIN eh : j < i => gacts[j].hs = <<>>) /\ eh[i].site[1].to = 0  BY <1>3 DEF LeavesHandlers
  <1>6. Last(gnu_eh)' = eh[i]  BY <1>3 DEF Last
  <1>7. \A j \in DOMAIN gacts : j # i => gacts[j].hs = <<>>  BY <1>1, <1>3, <1>5
  <1>8. \A j \in DOMAIN gacts' : j # i => gacts'[j].hs = <<>>  BY <1>1, <1>3, <1>4, <1>7
  <1> QED BY <1>1, <1>3, <1>4, <1>5, <1>6, <1>7, <1>8

LEMMA ThrowObj == ASSUME ~NestedCatch, ShapeInv, ObjInv, NEW s \in Sites, NEW t, NEW o \in Objs, CxaThrow(s, t, o) PROVE ObjInv'
  <1>0. /\ InBody /\ Here(s) /\ o \notin heap /\ LeavesHandlers(SetPc(s)) /\ heap' = heap \cup {o} /\ exc_obj' = o
        /\ Dispatch(SetPc(s), t) /\ caught_base' = caught_base /\ rethrown' = rethrown /\ bad' = bad
    BY DEF CxaThrow
  <1>1. gstat = "run" /\ ~RunningPad  BY <1>0 DEF InBody
  <1>2. HandlersKept /\ gstat' \in {"run", "abort"} /\ (gstat' = "run" => RunningPad')  BY <1>0, RaiseShape
  <1>3. HandlerObjectLive'  BY <1>0, <1>2, KeptLive DEF ObjInv
  <1>4. CASE gstat' = "abort"  BY <1>0, <1>3, <1>4 DEF ObjInv
  <1>5. CASE gstat' = "run"
    <2>0. RunningPad'  BY <1>2, <1>5
    <2>1. Ready(SetPc(s)) /\ Len(SetPc(s)) = Len(gacts)  BY <1>0, <1>1, SetPcReady
    <2>2. PICK m : m = Len(gacts')  OBVIOUS
    <2>3. /\ Last(gnu_eh)'.site[1].to = 0 /\ m \in DOMAIN gacts /\ m \in DOMAIN gacts'
          /\ gacts'[m].hs = gacts[m].hs
          /\ \A j \in DOMAIN gacts : j # m => gacts[j].hs = <<>>
          /\ \A j \in DOMAIN gacts' : j # m => gacts'[j].hs = <<>>
      BY <1>0, <1>1, <1>5, <2>1, <2>2, ThrowPlace
    <2>4. CASE Calm
      <3>1. NoHandler'  BY <1>2, <2>4, NoneKept DEF Calm
      <3>2. heap' = {o} /\ caught_base' = NULL  BY <1>0, <2>4 DEF Calm
      <3>3. Flying'  BY <1>0, <2>4, <3>1, <3>2 DEF Flying, Calm
      <3> QED BY <1>0, <1>3, <2>0, <3>3 DEF ObjInv
    <2>5. ASSUME NEW e \in Objs, heap = {e}, caught_base = e,
                 \/ gacts[m].hs = <<e>> /\ ~rethrown
                 \/ gacts[m].hs = <<e, e>> /\ rethrown
          PROVE ObjInv'
      <3>1. e # o /\ heap' = {o, e}  BY <1>0, <2>5
      <3>2. ASSUME NEW h, gacts[m].hs = h PROVE OnlyAt(m, h)'  BY <2>3, <3>2 DEF OnlyAt
      <3>3. \/ OnlyAt(Len(gacts), <<e>>)' /\ ~rethrown'
            \/ OnlyAt(Len(gacts), <<e, e>>)' /\ rethrown'
        <4>1. CASE gacts[m].hs = <<e>> /\ ~rethrown
          <5>1. OnlyAt(Len(gacts), <<e>>)'  BY <2>2, <3>2, <4>1
          <5>2. rethrown' = rethrown  BY <1>0
          <5>3. ~rethrown'  BY <4>1, <5>2, Zenon
          <5> QED BY <5>1, <5>3
        <4>2. CASE gacts[m].hs = <<e, e>> /\ rethrown  BY <1>0, <2>2, <3>2, <4>2
        <4> QED BY <2>5, <4>1, <4>2
      <3>4. Replaces(e)'  BY <1>0, <2>3, <2>5, <3>1, <3>3 DEF Replaces
      <3> QED BY <1>0, <1>3, <2>0, <3>4 DEF ObjInv
    <2>6. CASE Handled
      <3>1. PICK n \in DOMAIN gacts : gacts[n].hs = <<exc_obj>>  BY <2>6 DEF Handled, OneOf, OnlyAt
      <3>2. n = m  BY <2>3, <3>1, ShortLists
      <3>3. exc_obj \in Objs /\ heap = {exc_obj} /\ caught_base = exc_obj  BY <2>6 DEF Handled
      <3>4. gacts[m].hs = <<exc_obj>>  BY <3>1, <3>2
      <3>5. ~rethrown  BY <2>6, Zenon DEF Handled
      <3>6. gacts[m].hs = <<exc_obj>> /\ ~rethrown  BY <3>4, <3>5, Zenon
      <3> QED BY <2>5, <3>3, <3>6, Zenon
    <2>7. CASE Twice
      <3>1. PICK n \in DOMAIN gacts : gacts[n].hs = <<exc_obj, exc_obj>>
        <4>1. ASSUME NEW n \in DOMAIN gacts, NEW k \in DOMAIN gacts, n # k, gacts[n].hs = <<exc_obj>>, gacts[k].hs = <<exc_obj>>
              PROVE FALSE
          <5>1. n = m /\ k = m  BY <2>3, <4>1, ShortLists
          <5> QED BY <4>1, <5>1
        <4> QED BY <2>7, <4>1 DEF Twice, TwoOf, OnlyAt
      <3>2. n = m  BY <2>3, <3>1, ShortLists
      <3> QED BY <2>5, <2>7, <3>1, <3>2 DEF Twice
    <2> QED BY <1>1, <2>4, <2>6, <2>7 DEF ObjInv
  <1> QED BY <1>2, <1>4, <1>5

LEMMA RethrowObj == ASSUME ~NestedCatch, ShapeInv, ObjInv, NEW s \in Sites, CxaRethrow(s) PROVE ObjInv'
  <1>0. /\ InBody /\ Here(s) /\ Open # {} /\ OneHandler /\ rethrown' = TRUE
        /\ bad' = (IF Innermost = exc_obj THEN bad ELSE bad \cup {"rethrow"})
        /\ Dispatch(SetPc(s), exc_ti) /\ exc_obj' = exc_obj /\ caught_base' = caught_base /\ heap' = heap
    BY DEF CxaRethrow
  <1>1. gstat = "run" /\ ~RunningPad  BY <1>0 DEF InBody
  <1>2. HandlersKept /\ gstat' \in {"run", "abort"} /\ (gstat' = "run" => RunningPad')  BY <1>0, RaiseShape
  <1>3. HandlerObjectLive' /\ "free" \notin bad'  BY <1>0, <1>2, KeptLive DEF ObjInv
  <1>4. PICK n \in DOMAIN gacts : gacts[n].hs # <<>> /\ Len(gacts[n].hs) = 1 /\ \A i \in DOMAIN gacts : i # n => gacts[i].hs = <<>>
    BY <1>0 DEF OneHandler, Open
  <1>5. ~Calm  BY <1>4 DEF Calm, NoHandler
  <1>6. ~Twice
    <2>1. ASSUME NEW k \in DOMAIN gacts, gacts[k].hs = <<exc_obj, exc_obj>> PROVE FALSE
      <3>1. k = n  BY <1>4, <2>1, ShortLists
      <3>2. Len(<<exc_obj, exc_obj>>) = 1  BY <1>4, <2>1, <3>1
      <3> QED BY <3>2, ShortLists
    <2>2. ASSUME NEW k \in DOMAIN gacts, NEW l \in DOMAIN gacts, k # l, gacts[k].hs = <<exc_obj>>, gacts[l].hs = <<exc_obj>> PROVE FALSE
      <3>1. k = n /\ l = n  BY <1>4, <2>2, ShortLists
      <3> QED BY <2>2, <3>1
    <2> QED BY <2>1, <2>2 DEF Twice, TwoOf, OnlyAt
  <1>7. Handled  BY <1>1, <1>5, <1>6 DEF ObjInv
  <1>8. PICK e : e = exc_obj  OBVIOUS
  <1>9. OneOf(e)'  BY <1>2, <1>7, <1>8, OneKept DEF Handled
  <1>10. OneOf(exc_obj)'  BY <1>0, <1>8, <1>9
  <1>11. Rethrown'  BY <1>0, <1>7, <1>10 DEF Handled, Rethrown
  <1>12. gstat' = "run" => RunningPad'  BY <1>2
  <1> QED BY <1>3, <1>11, <1>12 DEF ObjInv

LEMMA ResumeObj == ASSUME ShapeInv, ObjInv, UnwindResume PROVE ObjInv'
  <1>0. /\ gstat = "run" /\ RunningPad /\ gacts # <<>> /\ Last(gacts).hs = <<>>
        /\ exc_obj' = exc_obj /\ caught_base' = caught_base /\ rethrown' = rethrown /\ heap' = heap /\ bad' = bad
    BY DEF UnwindResume, RunningPad
  <1>1. HandlersKept /\ (gstat' = "run" => RunningPad')  BY ResumeShape
  <1>2. HandlerObjectLive'  BY <1>0, <1>1, KeptLive DEF ObjInv
  <1>3. ~\E o \in Objs : Replaces(o)
    <2>1. Last(gacts) = gacts[Len(gacts)]  BY <1>0, ShapeFacts
    <2> QED BY <1>0, <2>1, ShortLists DEF Replaces, OnlyAt
  <1>4. PICK e : e = exc_obj  OBVIOUS
  <1>5. CASE Flying
    <2>1. Flying'  BY <1>0, <1>1, <1>5, NoneKept DEF Flying
    <2> QED BY <1>0, <1>1, <1>2, <2>1 DEF ObjInv
  <1>6. CASE Rethrown
    <2>1. OneOf(e)'  BY <1>1, <1>4, <1>6, OneKept DEF Rethrown
    <2>2. OneOf(exc_obj)'  BY <1>0, <1>4, <2>1
    <2>3. Rethrown'  BY <1>0, <1>6, <2>2 DEF Rethrown
    <2> QED BY <1>0, <1>1, <1>2, <2>3 DEF ObjInv
  <1> QED BY <1>0, <1>3, <1>5, <1>6 DEF ObjInv

LEMMA BeginObj == ASSUME ShapeInv, StateInv, ObjInv, CxaBeginCatch PROVE ObjInv'
  <1>0. /\ gstat = "run" /\ RunningPad /\ gacts # <<>> /\ Last(gacts).pad > 0 /\ Len(Last(gacts).hs) = Keeps
        /\ exc_obj' = exc_obj /\ caught_base' = exc_obj /\ rethrown' = rethrown /\ heap' = heap /\ bad' = bad /\ gstat' = gstat
    BY DEF CxaBeginCatch, RunningPad
  <1>1. PICK m : m = Len(gacts)  OBVIOUS
  <1>2. PICK e : e = exc_obj  OBVIOUS
  <1>3. /\ ~RunningPad' /\ DOMAIN gacts' = DOMAIN gacts /\ m \in DOMAIN gacts /\ Last(gacts) = gacts[m]
        /\ gacts'[m].hs = Append(gacts[m].hs, e)
        /\ \A i \in DOMAIN gacts : i # m => gacts'[i] = gacts[i]
    BY <1>0, <1>1, <1>2, BeginShape, ShapeFacts
  <1>4. ~\E o \in Objs : Replaces(o)
    <2>1. ASSUME NEW o \in Objs, Replaces(o) PROVE FALSE
      <3>1. Keeps = 0  BY <1>0, <2>1 DEF Keeps, Replaces
      <3>2. gacts[m].hs = <<o>> \/ gacts[m].hs = <<o, o>>  BY <1>1, <2>1 DEF Replaces, OnlyAt
      <3> QED BY <1>0, <1>3, <3>1, <3>2, ShortLists
    <2> QED BY <2>1
  <1>5. e \in heap /\ (Flying \/ Rethrown)  BY <1>0, <1>2, <1>4 DEF ObjInv, Flying, Rethrown
  <1>6. HandlerObjectLive'
    <2>1. ASSUME NEW n \in DOMAIN gacts PROVE Range(gacts'[n].hs) \subseteq heap
      <3>1. CASE n # m  BY <1>3, <3>1 DEF ObjInv, HandlerObjectLive
      <3>2. CASE n = m
        <4>1. gacts[m].hs \in Seq(Objs)  BY <1>3, ActIs DEF ShapeInv
        <4>2. PICK h : h = gacts[m].hs  OBVIOUS
        <4>3. h \in Seq(heap)
          <5>1. \A i \in 1..Len(h) : h[i] \in heap  BY <1>3, <4>1, <4>2, LenProperties DEF ObjInv, HandlerObjectLive, Range
          <5>2. Len(h) \in Nat /\ h \in [1..Len(h) -> Objs]  BY <4>1, <4>2, LenProperties
          <5>3. h \in [1..Len(h) -> heap]  BY <5>1, <5>2
          <5> QED BY <5>2, <5>3, SeqDef
        <4>4. Append(h, e) \in Seq(heap)  BY <1>5, <4>3, AppendProperties
        <4>5. \A i \in DOMAIN Append(h, e) : Append(h, e)[i] \in heap  BY <4>4, LenProperties, ElementOfSeq
        <4> QED BY <1>3, <3>2, <4>2, <4>5 DEF Range
      <3> QED BY <3>1, <3>2
    <2> QED BY <1>0, <1>3, <2>1 DEF HandlerObjectLive
  <1>7. CASE Flying
    <2>1. gacts'[m].hs = <<e>> /\ \A i \in DOMAIN gacts' : i # m => gacts'[i].hs = <<>>
      BY <1>3, <1>7, ShortLists DEF Flying, NoHandler
    <2>2. OneOf(e)'  BY <1>3, <2>1 DEF OneOf, OnlyAt
    <2>3. OneOf(exc_obj)'  BY <1>0, <1>2, <2>2
    <2>4. Handled'  BY <1>0, <1>7, <2>3 DEF Handled, Flying
    <2> QED BY <1>0, <1>3, <1>6, <2>4 DEF ObjInv
  <1>8. CASE Rethrown
    <2>1. PICK n \in DOMAIN gacts : gacts[n].hs = <<e>> /\ \A i \in DOMAIN gacts : i # n => gacts[i].hs = <<>>
      BY <1>2, <1>8 DEF Rethrown, OneOf, OnlyAt
    <2>2. TwoOf(e)'
      <3>1. CASE n = m
        <4>1. gacts'[m].hs = <<e, e>> /\ \A i \in DOMAIN gacts' : i # m => gacts'[i].hs = <<>>
          BY <1>3, <2>1, <3>1, ShortLists
        <4> QED BY <1>3, <4>1 DEF TwoOf, OnlyAt
      <3>2. CASE n # m
        <4>1. gacts'[m].hs = <<e>> /\ gacts'[n].hs = <<e>> /\ n \in DOMAIN gacts' /\ m \in DOMAIN gacts'
          BY <1>3, <2>1, <3>2, ShortLists
        <4>2. \A i \in DOMAIN gacts' : i \notin {n, m} => gacts'[i].hs = <<>>  BY <1>3, <2>1
        <4> QED BY <3>2, <4>1, <4>2 DEF TwoOf
      <3> QED BY <3>1, <3>2
    <2>3. TwoOf(exc_obj)'  BY <1>0, <1>2, <2>2
    <2>4. Twice'  BY <1>0, <1>8, <2>3 DEF Twice, Rethrown
    <2> QED BY <1>0, <1>3, <1>6, <2>4 DEF ObjInv
  <1> QED BY <1>5, <1>7, <1>8

LEMMA EndObj == ASSUME ShapeInv, ObjInv, CxaEndCatch PROVE ObjInv'
  <1>0. /\ gstat = "run" /\ gacts # <<>> /\ exc_obj' = exc_obj /\ rethrown' = FALSE /\ gnu_eh' = gnu_eh /\ gstat' = gstat
    BY DEF CxaEndCatch, AtEndCatch
  <1>1. PICK m : m = Len(gacts)  OBVIOUS
  <1>2. PICK e : e = exc_obj  OBVIOUS
  <1>3. /\ (RunningPad' <=> RunningPad) /\ DOMAIN gacts' = DOMAIN gacts /\ m \in DOMAIN gacts /\ Len(gacts') = m
        /\ gacts'[m].hs = Front(gacts[m].hs) /\ gacts[m].hs # <<>>
        /\ \A i \in DOMAIN gacts : i # m => gacts'[i] = gacts[i]
    BY <1>0, <1>1, EndShape, ShapeFacts
  <1>4. rethrown => UNCHANGED <<caught_base, heap, bad>>  BY DEF CxaEndCatch
  <1>5. ASSUME ~rethrown, caught_base \in Objs, caught_base \in heap
        PROVE heap' = heap \ {caught_base} /\ caught_base' = NULL /\ bad' = bad
    <2>1. caught_base # NULL  BY <1>5, GnuAssumption DEF NULL
    <2> QED BY <1>5, <2>1 DEF CxaEndCatch
  <1>6. ~NoHandler  BY <1>3 DEF NoHandler
  <1>7. ASSUME NEW o, OneOf(o) PROVE gacts[m].hs = <<o>> /\ NoHandler'
    <2>1. gacts[m].hs = <<o>> /\ \A i \in DOMAIN gacts : i # m => gacts[i].hs = <<>>
      BY <1>3, <1>7 DEF OneOf, OnlyAt
    <2>2. gacts'[m].hs = <<>>  BY <1>3, <2>1, ShortLists
    <2> QED BY <1>3, <2>1, <2>2 DEF NoHandler
  <1>8. CASE ~RunningPad
    <2>1. Handled \/ Twice  BY <1>0, <1>6, <1>8 DEF ObjInv, Calm
    <2>2. CASE Handled
      <3>1. NoHandler'  BY <1>7, <2>2 DEF Handled
      <3>2. heap' = {} /\ caught_base' = NULL /\ bad' = bad  BY <1>5, <2>2 DEF Handled
      <3>3. Calm'  BY <1>0, <3>1, <3>2 DEF Calm
      <3>4. HandlerObjectLive'  BY <3>1, LiveNone DEF HandlerObjectLive, NoHandler
      <3> QED BY <1>0, <1>3, <1>8, <3>2, <3>3, <3>4 DEF ObjInv
    <2>3. CASE Twice
      <3>1. caught_base' = caught_base /\ heap' = heap /\ bad' = bad  BY <1>4, <2>3 DEF Twice
      <3>2. PICK n \in DOMAIN gacts' : gacts'[n].hs = <<e>> /\ \A i \in DOMAIN gacts' : i # n => gacts'[i].hs = <<>>
        <4>1. ASSUME NEW n \in DOMAIN gacts, OnlyAt(n, <<e, e>>)
              PROVE \E k \in DOMAIN gacts' : gacts'[k].hs = <<e>> /\ \A i \in DOMAIN gacts' : i # k => gacts'[i].hs = <<>>
          <5>1. n = m /\ gacts[m].hs = <<e, e>>  BY <1>3, <4>1 DEF OnlyAt
          <5>2. gacts'[m].hs = <<e>>  BY <1>3, <5>1, ShortLists
          <5> QED BY <1>3, <4>1, <5>1, <5>2 DEF OnlyAt
        <4>2. ASSUME NEW n \in DOMAIN gacts, NEW k \in DOMAIN gacts, n # k, gacts[n].hs = <<e>>, gacts[k].hs = <<e>>,
                     \A i \in DOMAIN gacts : i \notin {n, k} => gacts[i].hs = <<>>, k = m
              PROVE \E l \in DOMAIN gacts' : gacts'[l].hs = <<e>> /\ \A i \in DOMAIN gacts' : i # l => gacts'[i].hs = <<>>
          <5>1. gacts'[m].hs = <<>> /\ gacts'[n].hs = <<e>>  BY <1>3, <4>2, ShortLists
          <5>2. \A i \in DOMAIN gacts' : i # n => gacts'[i].hs = <<>>  BY <1>3, <4>2, <5>1
          <5> QED BY <1>3, <5>1, <5>2
        <4>3. ASSUME NEW n \in DOMAIN gacts, NEW k \in DOMAIN gacts, n # k, gacts[n].hs = <<e>>, gacts[k].hs = <<e>>,
                     \A i \in DOMAIN gacts : i \notin {n, k} => gacts[i].hs = <<>>
              PROVE \E l \in DOMAIN gacts' : gacts'[l].hs = <<e>> /\ \A i \in DOMAIN gacts' : i # l => gacts'[i].hs = <<>>
          <5>1. k = m \/ n = m  BY <1>3, <4>3
          <5>2. \A i \in DOMAIN gacts : i \notin {k, n} => gacts[i].hs = <<>>  BY <4>3
          <5> QED BY <4>2, <4>3, <5>1, <5>2
        <4> QED BY <1>2, <2>3, <4>1, <4>3 DEF Twice, TwoOf
      <3>3. OneOf(e)'  BY <3>2 DEF OneOf, OnlyAt
      <3>4. OneOf(exc_obj)'  BY <1>0, <1>2, <3>3
      <3>5. Handled'  BY <1>0, <2>3, <3>1, <3>4 DEF Handled, Twice
      <3>6. e \in heap'  BY <1>2, <2>3, <3>1 DEF Twice
      <3>7. HandlerObjectLive'  BY <3>2, <3>6, LiveOne DEF HandlerObjectLive
      <3> QED BY <1>0, <1>3, <1>8, <3>1, <3>5, <3>7 DEF ObjInv
    <2> QED BY <2>1, <2>2, <2>3
  <1>9. CASE RunningPad
    <2>1. Rethrown \/ \E o \in Objs : Replaces(o)  BY <1>0, <1>6, <1>9 DEF ObjInv, Flying
    <2>2. CASE Rethrown
      <3>1. NoHandler'  BY <1>7, <2>2 DEF Rethrown
      <3>2. caught_base' = caught_base /\ heap' = heap /\ bad' = bad  BY <1>4, <2>2 DEF Rethrown
      <3>3. Flying'  BY <1>0, <2>2, <3>1, <3>2 DEF Flying, Rethrown
      <3>4. HandlerObjectLive'  BY <3>1, LiveNone DEF HandlerObjectLive, NoHandler
      <3> QED BY <1>0, <1>3, <1>9, <3>2, <3>3, <3>4 DEF ObjInv
    <2>3. ASSUME NEW o \in Objs, Replaces(o), OnlyAt(Len(gacts), <<o>>), ~rethrown PROVE ObjInv'
      <3>1. NoHandler'  BY <1>7, <2>3 DEF OneOf, OnlyAt
      <3>2. heap' = {exc_obj} /\ caught_base' = NULL /\ bad' = bad  BY <1>5, <2>3 DEF Replaces
      <3>3. Flying'  BY <1>0, <2>3, <3>1, <3>2 DEF Flying, Replaces
      <3>4. HandlerObjectLive'  BY <3>1, LiveNone DEF HandlerObjectLive, NoHandler
      <3> QED BY <1>0, <1>3, <1>9, <3>2, <3>3, <3>4 DEF ObjInv
    <2>4. ASSUME NEW o \in Objs, Replaces(o), OnlyAt(Len(gacts), <<o, o>>), rethrown PROVE ObjInv'
      <3>1. caught_base' = caught_base /\ heap' = heap /\ bad' = bad  BY <1>4, <2>4
      <3>2. gacts'[m].hs = <<o>> /\ \A i \in DOMAIN gacts' : i # m => gacts'[i].hs = <<>>
        BY <1>1, <1>3, <2>4, ShortLists DEF OnlyAt
      <3>3. OnlyAt(Len(gacts), <<o>>)'  BY <1>3, <3>2 DEF OnlyAt
      <3>4. Replaces(o)'  BY <1>0, <2>4, <3>1, <3>3 DEF Replaces
      <3>5. o \in heap'  BY <2>4, <3>1 DEF Replaces
      <3>6. HandlerObjectLive'  BY <3>2, <3>5, LiveOne DEF HandlerObjectLive
      <3> QED BY <1>0, <1>3, <1>9, <3>1, <3>4, <3>6 DEF ObjInv
    <2>5. ASSUME NEW o \in Objs, Replaces(o) PROVE ObjInv'  BY <2>3, <2>4, <2>5 DEF Replaces
    <2> QED BY <2>1, <2>2, <2>5
  <1> QED BY <1>8, <1>9

LEMMA GnuObjStep == ASSUME ~NestedCatch, ShapeInv, StateInv, ObjInv, GnuNext PROVE ObjInv'
  <1>1. ASSUME NEW s \in Sites, GnuEnter(s) PROVE ObjInv'
    <2>1. gstat = "run" /\ ~RunningPad /\ UNCHANGED <<exc_obj, caught_base, rethrown, heap, gstat, bad>>
      BY <1>1 DEF GnuEnter, InBody
    <2> QED BY <1>1, <2>1, EnterShape, CallObj
  <1>2. ASSUME GnuReturn PROVE ObjInv'
    <2>1. gstat = "run" /\ ~RunningPad /\ UNCHANGED <<exc_obj, caught_base, rethrown, heap, gstat, bad>>
      BY <1>2 DEF GnuReturn, InBody
    <2> QED BY <1>2, <2>1, ReturnShape, CallObj
  <1>3. ASSUME GnuOver PROVE ObjInv'
    <2>1. gstat' # "run" /\ bad' = bad /\ heap' = heap /\ gacts' = gacts  BY <1>3 DEF GnuOver, gnuVars
    <2> QED BY <2>1 DEF ObjInv, HandlerObjectLive
  <1> QED BY <1>1, <1>2, <1>3, ThrowObj, RethrowObj, ResumeObj, BeginObj, EndObj DEF GnuNext

\* A program that rethrows only while one handler is open, and whose new exceptions
\* leave the handlers they are thrown in, never runs a handler on a freed object,
\* never frees one twice, and has freed every object once nothing is handled or in
\* flight; for any call graph, call sites, types and depth.
THEOREM ObjectsLive == ASSUME ~NestedCatch PROVE GnuSpec => []ObjectLifetime
  <1>1. GnuInit => ShapeInv /\ StateInv /\ ObjInv
    <2>1. GnuInit => NoHandler /\ ~RunningPad  BY DEF GnuInit, NoHandler, RunningPad
    <2>2. NoHandler => HandlerObjectLive  BY LiveNone DEF NoHandler, HandlerObjectLive
    <2>3. GnuInit => Calm /\ "free" \notin bad  BY <2>1 DEF GnuInit, Calm
    <2> QED BY <2>1, <2>2, <2>3, GnuStart DEF ObjInv
  <1>2. ShapeInv /\ StateInv /\ ObjInv /\ [GnuNext]_gnuVars => (ShapeInv /\ StateInv /\ ObjInv)'
    <2>1. ASSUME ShapeInv, StateInv, ObjInv, UNCHANGED gnuVars PROVE (ShapeInv /\ StateInv /\ ObjInv)'
      BY <2>1 DEF gnuVars, ShapeInv, StateInv, ObjInv, Sited, RunningPad, NoHandler, HandlerObjectLive, Calm, Handled,
                  Twice, Flying, Rethrown, Replaces, OneOf, TwoOf, OnlyAt
    <2> QED BY <2>1, GnuShapeStep, GnuObjStep
  <1>3. ShapeInv /\ StateInv /\ ObjInv => ObjectLifetime
    <2>1. ASSUME ObjInv PROVE HandlerObjectLive /\ ObjectsReclaimed
      <3>1. ASSUME gstat = "run", Open = {}, ~RunningPad PROVE heap = {}
        <4>1. NoHandler  BY <3>1 DEF Open, NoHandler
        <4>2. ~Handled /\ ~Twice  BY <4>1, ShortLists DEF NoHandler, Handled, Twice, OneOf, TwoOf, OnlyAt
        <4> QED BY <2>1, <3>1, <4>2 DEF ObjInv, Calm
      <3> QED BY <2>1, <3>1 DEF ObjInv, ObjectsReclaimed
    <2> QED BY <2>1, ShapeTypes DEF ObjectLifetime
  <1> QED BY <1>1, <1>2, <1>3, PTL DEF GnuSpec
=============================================================================
