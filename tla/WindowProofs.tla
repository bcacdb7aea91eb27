----------------------------- MODULE WindowProofs -----------------------------
(***************************************************************************)
(* Proofs about windows and messages: the ring, the timers, the quit flag   *)
(* and the paint flags implement the message source; the focus belongs to   *)
(* one window; and windows, timers and dialogs stay consistent.             *)
(*                                                                          *)
(* The loops of the model are functions defined by recursion on an index.   *)
(* That they exist, and what they keep, is shown with the least index at     *)
(* which it would fail.                                                     *)
(***************************************************************************)
EXTENDS Dialogs, WellFoundedInduction, SequenceTheorems, TLAPS

LEMMA LeastIndex == ASSUME NEW S, S \subseteq Nat, S # {} PROVE \E i \in S : \A j \in S : i <= j
  <1>1. PICK i \in S : \A j \in S : ~(<<j, i>> \in OpToRel(<, Nat))
    BY WFMin, NatLessThanWellFounded, Zenon
  <1>2. \A j \in S : ~(j < i)  BY <1>1 DEF OpToRel
  <1> QED BY <1>2

-----------------------------------------------------------------------------
(* The ring.                                                                *)

RingOf(S) == [q : [Slots -> S], qh : Slots, qt : Slots]
IsRing(r) == \E S : r \in RingOf(S)

LEMMA ModWrap == ASSUME NEW x \in Int, 0 <= x, x < QSize + QSize PROVE x % QSize = IF x < QSize THEN x ELSE x - QSize
  <1>1. QSize \in Nat /\ QSize > 0  BY QSizeAssumption
  <1> QED BY <1>1, Z3
LEMMA NextSlot == ASSUME NEW a \in Slots
                  PROVE  (a + 1) % QSize = (IF a + 1 = QSize THEN 0 ELSE a + 1) /\ (a + 1) % QSize \in Slots
  BY QSizeAssumption, ModWrap DEF Slots

Place(r, i) == IF r.qh + i - 1 < QSize THEN r.qh + i - 1 ELSE (r.qh + i - 1) - QSize

LEMMA RingLen == ASSUME NEW S, NEW r \in RingOf(S)
    PROVE /\ QLen(r) = (IF r.qt >= r.qh THEN r.qt - r.qh ELSE r.qt + QSize - r.qh)
          /\ QLen(r) \in 0 .. QSize - 1
          /\ QEmpty(r) <=> QLen(r) = 0
  <1>1. r.qt \in Slots /\ r.qh \in Slots  BY DEF RingOf
  <1>2. r.qt + QSize - r.qh \in Int /\ 0 <= r.qt + QSize - r.qh /\ r.qt + QSize - r.qh < QSize + QSize
    BY <1>1, QSizeAssumption DEF Slots
  <1>3. QLen(r) = (IF r.qt >= r.qh THEN r.qt - r.qh ELSE r.qt + QSize - r.qh)
    BY <1>1, <1>2, ModWrap, QSizeAssumption DEF QLen, Slots
  <1> QED BY <1>1, <1>3, QSizeAssumption DEF QEmpty, Slots

LEMMA RingContents == ASSUME NEW S, NEW r \in RingOf(S)
    PROVE /\ QContents(r) \in Seq(S) /\ Len(QContents(r)) = QLen(r) /\ DOMAIN QContents(r) = 1 .. QLen(r)
          /\ \A i \in 1 .. QLen(r) : Place(r, i) \in Slots /\ QContents(r)[i] = r.q[Place(r, i)]
  <1>1. r.qt \in Slots /\ r.qh \in Slots /\ r.q \in [Slots -> S]  BY DEF RingOf
  <1>2. QLen(r) \in Nat /\ QLen(r) < QSize  BY RingLen, QSizeAssumption
  <1>3. ASSUME NEW i \in 1 .. QLen(r) PROVE Place(r, i) \in Slots /\ QContents(r)[i] = r.q[Place(r, i)]
    <2>1. i \in Int /\ 1 <= i /\ i < QSize /\ QSize \in Nat  BY <1>2, QSizeAssumption
    <2>2. r.qh \in Int /\ 0 <= r.qh /\ r.qh < QSize  BY <1>1, QSizeAssumption DEF Slots
    <2>3. r.qh + i - 1 \in Int /\ 0 <= r.qh + i - 1 /\ r.qh + i - 1 < QSize + QSize  BY <2>1, <2>2
    <2>4. (r.qh + i - 1) % QSize = Place(r, i)
      <3>1. \A x : x \in Int /\ 0 <= x /\ x < QSize + QSize => x % QSize = IF x < QSize THEN x ELSE x - QSize
        BY ModWrap
      <3> QED BY <2>3, <3>1, Zenon DEF Place
    <2>5. Place(r, i) \in Slots  BY <2>1, <2>2 DEF Slots, Place
    <2> QED BY <2>4, <2>5 DEF QContents
  <1>4. QContents(r) \in [1 .. QLen(r) -> S]  BY <1>1, <1>3 DEF QContents
  <1>5. QContents(r) \in Seq(S)  BY <1>2, <1>4
  <1> QED BY <1>2, <1>3, <1>4, <1>5

\* A push adds its message behind the others, or drops it when the ring is full.
LEMMA Pushed == ASSUME NEW S, NEW r \in RingOf(S), NEW x
    PROVE /\ QPush(r, x) \in RingOf(S \cup {x})
          /\ QLen(QPush(r, x)) \in {QLen(r), QLen(r) + 1}
          /\ \A i \in 1 .. QLen(r) : QContents(QPush(r, x))[i] = QContents(r)[i]
          /\ QLen(QPush(r, x)) = QLen(r) + 1 => QContents(QPush(r, x))[QLen(r) + 1] = x
  <1>1. r.qt \in Slots /\ r.qh \in Slots /\ r.q \in [Slots -> S]  BY DEF RingOf
  <1>2. r \in RingOf(S \cup {x})  BY DEF RingOf
  <1>3. CASE (r.qt + 1) % QSize = r.qh
    <2>1. QPush(r, x) = r  BY <1>3 DEF QPush
    <2> QED BY <1>2, <2>1, RingLen
  <1>4. CASE (r.qt + 1) % QSize # r.qh
    <2>1. PICK n : n = (r.qt + 1) % QSize  OBVIOUS
    <2>2. PICK p : p = QPush(r, x)  OBVIOUS
    <2>3. p = [r EXCEPT !.q[r.qt] = x, !.qt = n]  BY <1>4, <2>1, <2>2 DEF QPush
    <2>4. n \in Slots /\ n = (IF r.qt + 1 = QSize THEN 0 ELSE r.qt + 1) /\ n # r.qh  BY <1>1, <1>4, <2>1, NextSlot
    <2>5. p.q = [r.q EXCEPT ![r.qt] = x] /\ p.qh = r.qh /\ p.qt = n /\ p \in RingOf(S \cup {x})
      BY <1>1, <2>3, <2>4 DEF RingOf
    <2>6. QLen(p) = QLen(r) + 1
      <3>1. QLen(r) = (IF r.qt >= r.qh THEN r.qt - r.qh ELSE r.qt + QSize - r.qh)  BY RingLen
      <3>2. QLen(p) = (IF n >= r.qh THEN n - r.qh ELSE n + QSize - r.qh)  BY <2>5, RingLen
      <3> QED BY <1>1, <2>4, <3>1, <3>2, QSizeAssumption DEF Slots
    <2>7. QLen(r) \in Nat  BY RingLen, QSizeAssumption
    <2>8. \A i \in 1 .. QLen(r) : Place(r, i) # r.qt
      BY <1>1, RingLen, QSizeAssumption DEF Place, Slots
    <2>9. \A i \in 1 .. QLen(r) : QContents(p)[i] = QContents(r)[i]
      <3> SUFFICES ASSUME NEW i \in 1 .. QLen(r) PROVE QContents(p)[i] = QContents(r)[i]  OBVIOUS
      <3>1. Place(p, i) = Place(r, i)  BY <2>5 DEF Place
      <3>2. Place(r, i) \in Slots /\ QContents(r)[i] = r.q[Place(r, i)]  BY RingContents
      <3>3. i \in 1 .. QLen(p)  BY <2>6, <2>7
      <3>4. QContents(p)[i] = p.q[Place(p, i)]  BY <2>5, <3>3, RingContents
      <3>5. p.q[Place(r, i)] = r.q[Place(r, i)]  BY <1>1, <2>5, <2>8, <3>2
      <3> QED BY <3>1, <3>2, <3>4, <3>5
    <2>10. QContents(p)[QLen(r) + 1] = x
      <3>1. QLen(r) + 1 \in 1 .. QLen(p)  BY <2>6, <2>7
      <3>2. Place(p, QLen(r) + 1) = r.qt
        <4>1. QLen(r) = (IF r.qt >= r.qh THEN r.qt - r.qh ELSE r.qt + QSize - r.qh)  BY RingLen
        <4> QED BY <1>1, <2>5, <4>1, QSizeAssumption DEF Place, Slots
      <3>3. \A i \in 1 .. QLen(p) : QContents(p)[i] = p.q[Place(p, i)]  BY <2>5, RingContents
      <3>4. QContents(p)[QLen(r) + 1] = p.q[r.qt]  BY <3>1, <3>2, <3>3
      <3> QED BY <1>1, <2>5, <3>4
    <2> QED BY <2>2, <2>5, <2>6, <2>9, <2>10
  <1> QED BY <1>3, <1>4

\* The head of the ring is its oldest message, and a pop takes that one.
LEMMA Popped == ASSUME NEW S, NEW r \in RingOf(S), ~QEmpty(r)
    PROVE /\ QPop(r) \in RingOf(S \cup {NoMessage})
          /\ QLen(r) > 0 /\ QHead(r) = QContents(r)[1]
          /\ QLen(QPop(r)) = QLen(r) - 1
          /\ \A i \in 1 .. QLen(r) - 1 : QContents(QPop(r))[i] = QContents(r)[i + 1]
  <1>1. r.qt \in Slots /\ r.qh \in Slots /\ r.q \in [Slots -> S]  BY DEF RingOf
  <1>2. QLen(r) \in Nat /\ QLen(r) > 0 /\ QLen(r) < QSize  BY RingLen, QSizeAssumption
  <1>3. PICK n : n = (r.qh + 1) % QSize  OBVIOUS
  <1>4. n \in Slots /\ n = (IF r.qh + 1 = QSize THEN 0 ELSE r.qh + 1)  BY <1>1, <1>3, NextSlot
  <1>5. PICK p : p = QPop(r)  OBVIOUS
  <1>6. p = [r EXCEPT !.qh = n, !.q[r.qh] = NoMessage]  BY <1>3, <1>5 DEF QPop
  <1>7. p.q = [r.q EXCEPT ![r.qh] = NoMessage] /\ p.qh = n /\ p.qt = r.qt /\ p \in RingOf(S \cup {NoMessage})
    BY <1>1, <1>4, <1>6 DEF RingOf
  <1>8. QLen(p) = QLen(r) - 1
    <2>1. QLen(r) = (IF r.qt >= r.qh THEN r.qt - r.qh ELSE r.qt + QSize - r.qh)  BY RingLen
    <2>2. QLen(p) = (IF r.qt >= n THEN r.qt - n ELSE r.qt + QSize - n)  BY <1>7, RingLen
    <2>3. QSize \in Int /\ r.qt \in Int /\ r.qh \in Int /\ 0 <= r.qt /\ 0 <= r.qh /\ r.qt < QSize /\ r.qh < QSize
      BY <1>1, QSizeAssumption DEF Slots
    <2>4. CASE r.qh + 1 = QSize  BY <1>2, <1>4, <2>1, <2>2, <2>3, <2>4
    <2>5. CASE r.qh + 1 # QSize  BY <1>2, <1>4, <2>1, <2>2, <2>3, <2>5
    <2> QED BY <2>4, <2>5
  <1>9. QHead(r) = QContents(r)[1]
    <2>1. Place(r, 1) = r.qh  BY <1>1, QSizeAssumption DEF Place, Slots
    <2>2. 1 \in 1 .. QLen(r)  BY <1>2
    <2> QED BY <2>1, <2>2, RingContents DEF QHead
  <1>10. ASSUME NEW i \in 1 .. QLen(r) - 1 PROVE QContents(p)[i] = QContents(r)[i + 1]
    <2>1. i + 1 \in 1 .. QLen(r) /\ i \in 1 .. QLen(p)  BY <1>2, <1>8
    <2>2. Place(p, i) = Place(r, i + 1) /\ Place(r, i + 1) # r.qh
      <3>1. i \in Int /\ 1 <= i /\ i < QSize - 1  BY <1>2, QSizeAssumption
      <3>2. Place(p, i) = IF n + i - 1 < QSize THEN n + i - 1 ELSE (n + i - 1) - QSize  BY <1>7 DEF Place
      <3>3. Place(r, i + 1) = IF r.qh + i < QSize THEN r.qh + i ELSE r.qh + i - QSize
        BY <1>1, <3>1, QSizeAssumption DEF Place, Slots
      <3>4. QSize \in Int /\ r.qh \in Int /\ 0 <= r.qh /\ r.qh < QSize  BY <1>1, QSizeAssumption DEF Slots
      <3>5. CASE r.qh + 1 = QSize  BY <1>4, <3>1, <3>2, <3>3, <3>4, <3>5
      <3>6. CASE r.qh + 1 # QSize  BY <1>4, <3>1, <3>2, <3>3, <3>4, <3>6
      <3> QED BY <3>5, <3>6
    <2>3. QContents(p)[i] = p.q[Place(p, i)]  BY <1>7, <2>1, RingContents
    <2>4. QContents(r)[i + 1] = r.q[Place(r, i + 1)] /\ Place(r, i + 1) \in Slots  BY <2>1, RingContents
    <2> QED BY <1>1, <1>7, <2>2, <2>3, <2>4
  <1> QED BY <1>2, <1>5, <1>7, <1>8, <1>9, <1>10

-----------------------------------------------------------------------------
(* The timers that are due, posted one by one.                              *)

Step(i, r) == IF Due(timer[i]) THEN QPush(r, TimerMsg(timer[i])) ELSE r
Rounds(n, f) == f = [i \in 0 .. n |-> IF i = 0 THEN ring ELSE Step(i, f[i - 1])]

LEMMA RoundsExist == \A n \in 0 .. MaxTimer : \E f : Rounds(n, f)
  <1> DEFINE Bad == {n \in 0 .. MaxTimer : ~ \E f : Rounds(n, f)}
  <1> SUFFICES ASSUME Bad # {} PROVE FALSE  OBVIOUS
  <1>1. PICK n \in Bad : \A j \in Bad : n <= j
    <2>1. Bad \subseteq Nat  OBVIOUS
    <2> QED BY <2>1, LeastIndex, Zenon
  <1>2. MaxTimer \in Nat /\ n \in 0 .. MaxTimer /\ ~ \E f : Rounds(n, f)  BY WindowsAssumption
  <1>3. CASE n = 0
    <2>1. Rounds(0, [i \in 0 .. 0 |-> ring])  BY DEF Rounds
    <2> QED BY <1>2, <1>3, <2>1
  <1>4. CASE n # 0
    <2>1. n - 1 \in 0 .. MaxTimer /\ n - 1 \notin Bad  BY <1>1, <1>2, <1>4
    <2>2. PICK g : Rounds(n - 1, g)  BY <2>1
    <2> DEFINE f == [i \in 0 .. n |-> IF i = n THEN Step(n, g[n - 1]) ELSE g[i]]
    <2>3. \A i \in 0 .. n - 1 : g[i] = IF i = 0 THEN ring ELSE Step(i, g[i - 1])  BY <2>2 DEF Rounds
    <2>4. ASSUME NEW i \in 0 .. n PROVE f[i] = IF i = 0 THEN ring ELSE Step(i, f[i - 1])
      <3>1. CASE i = n
        <4>1. f[i] = Step(n, g[n - 1])  BY <3>1
        <4>2. f[n - 1] = g[n - 1]  BY <1>2, <1>4
        <4> QED BY <1>4, <3>1, <4>1, <4>2
      <3>2. CASE i # n
        <4>1. i \in 0 .. n - 1 /\ f[i] = g[i]  BY <1>2, <3>2
        <4>2. i # 0 => f[i - 1] = g[i - 1]  BY <1>2, <3>2
        <4> QED BY <2>3, <4>1, <4>2
      <3> QED BY <3>1, <3>2
    <2>5. Rounds(n, f)  BY <2>4 DEF Rounds
    <2> QED BY <1>2, <2>5
  <1> QED BY <1>3, <1>4

LEMMA PumpIs == /\ Pump[0] = ring
                /\ \A i \in 1 .. MaxTimer : Pump[i] = Step(i, Pump[i - 1])
  <1>1. MaxTimer \in 0 .. MaxTimer  BY WindowsAssumption
  <1>2. PICK f : Rounds(MaxTimer, f)  BY <1>1, RoundsExist
  <1>3. \E g : g = [i \in 0 .. MaxTimer |-> IF i = 0 THEN ring
                    ELSE IF Due(timer[i]) THEN QPush(g[i - 1], TimerMsg(timer[i])) ELSE g[i - 1]]
    BY <1>2, Zenon DEF Rounds, Step
  <1>4. Pump = [i \in 0 .. MaxTimer |-> IF i = 0 THEN ring
                    ELSE IF Due(timer[i]) THEN QPush(Pump[i - 1], TimerMsg(timer[i])) ELSE Pump[i - 1]]
    BY <1>3, Zenon DEF Pump
  <1> QED BY <1>4, WindowsAssumption DEF Step

\* What pumping does to the ring: the messages in it stay in front, and what
\* comes behind them are timer messages.
Extends(p, r) ==
    /\ QLen(r) <= QLen(p)
    /\ \A i \in 1 .. QLen(r) : QContents(p)[i] = QContents(r)[i]
    /\ \A i \in QLen(r) + 1 .. QLen(p) : QContents(p)[i].m = "timer"

LEMMA PumpedExtends == ASSUME IsRing(ring) PROVE IsRing(Pumped) /\ Extends(Pumped, ring)
  <1>1. PICK S0 : ring \in RingOf(S0)  BY DEF IsRing
  <1> DEFINE S == S0 \cup {TimerMsg(timer[j]) : j \in 1 .. MaxTimer}
  <1>2. ring \in RingOf(S)  BY <1>1 DEF RingOf
  <1> DEFINE Good(i) == Pump[i] \in RingOf(S) /\ Extends(Pump[i], ring)
             Bad == {i \in 0 .. MaxTimer : ~Good(i)}
  <1>3. Good(0)
    <2>1. QLen(ring) \in Nat  BY <1>2, RingLen, QSizeAssumption
    <2> QED BY <1>2, <2>1, PumpIs DEF Extends
  <1>4. ASSUME NEW i \in 1 .. MaxTimer, Good(i - 1) PROVE Good(i)
    <2>1. PICK r : r = Pump[i - 1]  OBVIOUS
    <2>2. r \in RingOf(S) /\ Extends(r, ring)  BY <1>4, <2>1
    <2>3. Pump[i] = Step(i, r)  BY <2>1, PumpIs
    <2>4. CASE ~Due(timer[i])  BY <2>2, <2>3, <2>4 DEF Step
    <2>5. CASE Due(timer[i])
      <3>1. PICK x : x = TimerMsg(timer[i])  OBVIOUS
      <3>2. PICK p : p = QPush(r, x)  OBVIOUS
      <3>3. Pump[i] = p  BY <2>3, <2>5, <3>1, <3>2 DEF Step
      <3>4. x \in S /\ x.m = "timer"  BY <3>1 DEF TimerMsg
      <3>5. /\ p \in RingOf(S \cup {x}) /\ QLen(p) \in {QLen(r), QLen(r) + 1}
            /\ \A k \in 1 .. QLen(r) : QContents(p)[k] = QContents(r)[k]
            /\ QLen(p) = QLen(r) + 1 => QContents(p)[QLen(r) + 1] = x
        BY <2>2, <3>2, Pushed
      <3>6. S \cup {x} = S  BY <3>4
      <3>7. QLen(ring) \in Nat /\ QLen(r) \in Nat  BY <1>2, <2>2, RingLen, QSizeAssumption
      <3>8. Extends(p, ring)
        <4>1. QLen(ring) <= QLen(p)  BY <2>2, <3>5, <3>7 DEF Extends
        <4>2. \A k \in 1 .. QLen(ring) : QContents(p)[k] = QContents(ring)[k]  BY <2>2, <3>5, <3>7 DEF Extends
        <4>3. ASSUME NEW k \in QLen(ring) + 1 .. QLen(p) PROVE QContents(p)[k].m = "timer"
          <5>1. CASE k = QLen(r) + 1  BY <3>4, <3>5, <3>7, <5>1
          <5>2. CASE k # QLen(r) + 1  BY <2>2, <3>5, <3>7, <5>2 DEF Extends
          <5> QED BY <5>1, <5>2
        <4> QED BY <4>1, <4>2, <4>3 DEF Extends
      <3>9. p \in RingOf(S)  BY <3>5, <3>6, Zenon
      <3> QED BY <3>3, <3>8, <3>9
    <2> QED BY <2>4, <2>5
  <1>5. Bad = {}
    <2> SUFFICES ASSUME Bad # {} PROVE FALSE  OBVIOUS
    <2>1. PICK n \in Bad : \A j \in Bad : n <= j
      <3>1. Bad \subseteq Nat  OBVIOUS
      <3> QED BY <3>1, LeastIndex, Zenon
    <2>2. n # 0  BY <1>3
    <2>3. n \in 1 .. MaxTimer /\ n - 1 \in 0 .. MaxTimer /\ n - 1 \notin Bad  BY <2>1, <2>2, WindowsAssumption
    <2>4. Good(n - 1)  BY <2>3
    <2>5. Good(n)  BY <1>4, <2>3, <2>4
    <2> QED BY <2>5
  <1>6. MaxTimer \in 0 .. MaxTimer  BY WindowsAssumption
  <1>7. Good(MaxTimer)  BY <1>5, <1>6
  <1> QED BY <1>7 DEF Pumped, IsRing

-----------------------------------------------------------------------------
(* The refinement, from the few things a step does to the ring and the MSG.  *)

\* The messages of r, in their order, are the first ones of p.
Behind(p, r) == QLen(r) <= QLen(p) /\ \A i \in 1 .. QLen(r) : QContents(p)[i] = QContents(r)[i]

LEMMA PrefixLaw == ASSUME NEW S, NEW T, NEW s \in Seq(S), NEW t \in Seq(T), Len(s) <= Len(t),
                          \A i \in 1 .. Len(s) : t[i] = s[i]
                   PROVE  Source!IsPrefix(s, t)
  <1>1. Len(s) \in Nat /\ Len(t) \in Nat  BY LenProperties
  <1>2. SubSeq(s, 1, Len(s)) = [i \in 1 .. Len(s) |-> s[i]]
    BY <1>1
  <1>3. SubSeq(t, 1, Len(s)) = [i \in 1 .. Len(s) |-> t[i]]
    BY <1>1
  <1> QED BY <1>2, <1>3 DEF Source!IsPrefix

LEMMA BehindIsPrefix == ASSUME NEW r, NEW p, IsRing(r), IsRing(p), Behind(p, r)
                        PROVE  Source!IsPrefix(QContents(r), QContents(p)) /\ Len(QContents(p)) <= QSize - 1
  <1>1. PICK S : r \in RingOf(S)  BY DEF IsRing
  <1>2. PICK T : p \in RingOf(T)  BY DEF IsRing
  <1>3. QContents(r) \in Seq(S) /\ Len(QContents(r)) = QLen(r)  BY <1>1, RingContents
  <1>4. QContents(p) \in Seq(T) /\ Len(QContents(p)) = QLen(p)  BY <1>2, RingContents
  <1>5. QLen(p) \in 0 .. QSize - 1  BY <1>2, RingLen
  <1>6. Source!IsPrefix(QContents(r), QContents(p))  BY <1>3, <1>4, PrefixLaw DEF Behind
  <1> QED BY <1>4, <1>5, <1>6, QSizeAssumption

LEMMA EmptyContents == ASSUME NEW r, IsRing(r) PROVE QContents(r) = <<>> <=> QLen(r) = 0
  <1>1. PICK S : r \in RingOf(S)  BY DEF IsRing
  <1>2. QContents(r) \in Seq(S) /\ Len(QContents(r)) = QLen(r)  BY <1>1, RingContents
  <1> QED BY <1>2, EmptySeq

\* What a step may do.
PostStep == IsRing(ring') /\ Behind(ring', ring) /\ msg' = msg
TakeStep == ~QEmpty(Pumped) /\ msg' = QHead(Pumped) /\ ring' = QPop(Pumped)
LookStep == ~QEmpty(Pumped) /\ msg' = QHead(Pumped) /\ ring' = Pumped
MakeStep == QEmpty(Pumped) /\ msg' \in MadeUp /\ ring' \in {ring, Pumped}
DropStep == msg' = NoMessage /\ ring' = ring

LEMMA PostSimulated == ASSUME IsRing(ring), PostStep PROVE Source!Post /\ UNCHANGED msg
  BY BehindIsPrefix DEF PostStep, Source!Post

LEMMA LookSimulated == ASSUME IsRing(ring), LookStep PROVE IsRing(ring') /\ Source!Look
  <1>1. IsRing(Pumped) /\ Extends(Pumped, ring)  BY PumpedExtends
  <1>2. IsRing(ring') /\ Behind(ring', ring)  BY <1>1 DEF LookStep, Behind, Extends
  <1>3. Source!Post  BY <1>2, BehindIsPrefix DEF Source!Post
  <1>4. PICK S : ring' \in RingOf(S)  BY <1>2 DEF IsRing
  <1>5. ~QEmpty(ring') /\ msg' = QHead(ring')  BY DEF LookStep
  <1>6. QLen(ring') > 0 /\ QHead(ring') = QContents(ring')[1]  BY <1>4, <1>5, Popped
  <1>7. QContents(ring') # <<>>  BY <1>2, <1>6, EmptyContents
  <1>8. Head(QContents(ring')) = QContents(ring')[1]  OBVIOUS
  <1> QED BY <1>2, <1>3, <1>5, <1>6, <1>7, <1>8 DEF Source!Look

LEMMA MakeSimulated == ASSUME IsRing(ring), MakeStep PROVE IsRing(ring') /\ Source!Make
  <1>1. IsRing(Pumped) /\ Extends(Pumped, ring)  BY PumpedExtends
  <1>2. PICK S : Pumped \in RingOf(S)  BY <1>1 DEF IsRing
  <1>3. PICK T : ring \in RingOf(T)  BY DEF IsRing
  <1>4. QLen(Pumped) = 0  BY <1>2, RingLen DEF MakeStep
  <1>5. QLen(ring) = 0  BY <1>1, <1>3, <1>4, RingLen, QSizeAssumption DEF Extends
  <1>6. IsRing(ring') /\ QLen(ring') = 0  BY <1>1, <1>4, <1>5 DEF MakeStep
  <1>7. QContents(ring) = <<>> /\ QContents(ring') = <<>>  BY <1>5, <1>6, EmptyContents
  <1>8. msg' \in {Quit} \cup {Paint(h) : h \in Hwnd}
    <2>1. CASE quit  BY <2>1 DEF MakeStep, MadeUp
    <2>2. CASE ~quit /\ Owing # {}
      <3>1. msg' = Paint(Least(Owing))  BY <2>2 DEF MakeStep, MadeUp
      <3>2. Owing \subseteq Nat /\ Owing \subseteq Hwnd  BY WindowsAssumption DEF Owing, Hwnd
      <3>3. PICK i \in Owing : \A j \in Owing : i <= j  BY <2>2, <3>2, LeastIndex, Zenon
      <3>4. Least(Owing) \in Owing  BY <3>3 DEF Least
      <3> QED BY <3>1, <3>2, <3>4
    <2>3. CASE ~quit /\ Owing = {}  BY <2>3 DEF MakeStep, MadeUp
    <2> QED BY <2>1, <2>2, <2>3
  <1> QED BY <1>6, <1>7, <1>8 DEF Source!Make

LEMMA TakeSimulated == ASSUME IsRing(ring), TakeStep PROVE IsRing(ring') /\ Source!Take
  <1>1. IsRing(Pumped) /\ Extends(Pumped, ring)  BY PumpedExtends
  <1>2. PICK S : Pumped \in RingOf(S)  BY <1>1 DEF IsRing
  <1>3. PICK T : ring \in RingOf(T)  BY DEF IsRing
  <1>4. PICK p : p = Pumped  OBVIOUS
  <1>5. /\ ring' \in RingOf(S \cup {NoMessage})
        /\ QLen(p) > 0 /\ msg' = QContents(p)[1] /\ QLen(ring') = QLen(p) - 1
        /\ \A i \in 1 .. QLen(p) - 1 : QContents(ring')[i] = QContents(p)[i + 1]
    BY <1>2, <1>4, Popped DEF TakeStep
  <1>6. QLen(p) \in 0 .. QSize - 1 /\ QLen(ring) \in 0 .. QSize - 1  BY <1>2, <1>3, <1>4, RingLen
  <1>7. QContents(ring) \in Seq(T) /\ Len(QContents(ring)) = QLen(ring)  BY <1>3, RingContents
  <1>8. QContents(ring') \in Seq(S \cup {NoMessage}) /\ Len(QContents(ring')) = QLen(ring')  BY <1>5, RingContents
  <1>9. Len(QContents(ring')) < QSize - 1  BY <1>5, <1>6, <1>8, QSizeAssumption
  <1>10. /\ QLen(ring) <= QLen(p) /\ \A i \in 1 .. QLen(ring) : QContents(p)[i] = QContents(ring)[i]
         /\ \A i \in QLen(ring) + 1 .. QLen(p) : QContents(p)[i].m = "timer"
    BY <1>1, <1>4 DEF Extends
  <1>11. CASE QLen(ring) = 0
    <2>1. QContents(ring) = <<>>  BY <1>11, EmptyContents
    <2>2. 1 \in QLen(ring) + 1 .. QLen(p)  BY <1>5, <1>6, <1>11, QSizeAssumption
    <2>3. msg'.m = "timer"  BY <1>5, <1>10, <2>2
    <2>4. msg' \notin ({Quit} \cup {Paint(h) : h \in Hwnd}) \cup {NoMessage}
      <3>1. NoMessage.m = "none" /\ Quit.m = "quit"  BY DEF NoMessage, Quit
      <3>2. \A h : Paint(h).m = "paint"  BY DEF NoMessage, Paint
      <3> QED BY <2>3, <3>1, <3>2
    <2> QED BY <1>5, <1>9, <2>1, <2>4 DEF Source!Take, IsRing
  <1>12. CASE QLen(ring) # 0
    <2>1. QContents(ring) # <<>>  BY <1>12, EmptyContents
    <2>2. 1 \in 1 .. QLen(ring)  BY <1>6, <1>12, QSizeAssumption
    <2>3. msg' = Head(QContents(ring))  BY <1>5, <1>10, <2>2
    <2>4. /\ Tail(QContents(ring)) \in Seq(T) /\ Len(Tail(QContents(ring))) = QLen(ring) - 1
          /\ \A i \in 1 .. QLen(ring) - 1 : Tail(QContents(ring))[i] = QContents(ring)[i + 1]
      BY <1>7, <2>1, HeadTailProperties
    <2>5. \A i \in 1 .. QLen(ring) - 1 : QContents(ring')[i] = Tail(QContents(ring))[i]
      BY <1>5, <1>6, <1>10, <2>4, QSizeAssumption
    <2>6. Len(Tail(QContents(ring))) <= Len(QContents(ring'))  BY <1>5, <1>6, <1>8, <1>10, <2>4, QSizeAssumption
    <2>7. Source!IsPrefix(Tail(QContents(ring)), QContents(ring'))  BY <1>8, <2>4, <2>5, <2>6, PrefixLaw
    <2> QED BY <1>5, <1>9, <2>1, <2>3, <2>7 DEF Source!Take, IsRing
  <1> QED BY <1>11, <1>12

\* One case per operation: most leave the ring and the MSG alone.
LEMMA StepKinds == ASSUME IsRing(ring), DlgNext
    PROVE PostStep \/ TakeStep \/ LookStep \/ MakeStep \/ DropStep \/ UNCHANGED <<ring, msg>>
  <1>2. CASE WindowOps
    BY <1>2 DEF WindowOps, CreateWindowEx, CbtReturn, CreateReturn, PlainReturn
  <1>3. CASE DestroyOps \/ HookOps \/ CloseOps
    BY <1>3 DEF DestroyOps, DestroyWindow, HookOps, SetWindowsHookEx, Subclass, CloseOps, SendMessage, DefWindowProc,
                CloseReturn
  <1>4. CASE PaintOps
    BY <1>4 DEF PaintOps, ShowWindow, InvalidateRect, SetWindowPos, RedrawWindow, ValidateRect, BeginPaint,
                EraseReturn, DefWindowProc
  <1>5. CASE FocusOps
    BY <1>5 DEF FocusOps, SetFocus, KillFocusReturn
  <1>6. CASE TimerOps
    <2>1. CASE MsgWait  BY <2>1, PumpedExtends DEF MsgWait, PostStep, Behind, Extends
    <2>2. ASSUME NEW id \in TimerIds, KillTimer(1, id) \/ \E e \in Elapses : SetTimer(1, id, e, id - 1)
          PROVE  UNCHANGED <<ring, msg>>
      BY <2>2 DEF KillTimer, SetTimer
    <2>3. CASE Tick  BY <2>3 DEF Tick
    <2> QED BY <1>6, <2>1, <2>2, <2>3 DEF TimerOps
  <1>7. CASE PostOps
    <2>1. PICK x : ring' = QPush(ring, x) /\ msg' = msg  BY <1>7 DEF PostOps, PostMessage
    <2>2. PICK S : ring \in RingOf(S)  BY DEF IsRing
    <2>3. /\ ring' \in RingOf(S \cup {x}) /\ QLen(ring') \in {QLen(ring), QLen(ring) + 1}
          /\ \A i \in 1 .. QLen(ring) : QContents(ring')[i] = QContents(ring)[i]
      <3>1. PICK p : p = QPush(ring, x)  OBVIOUS
      <3>2. /\ p \in RingOf(S \cup {x}) /\ QLen(p) \in {QLen(ring), QLen(ring) + 1}
            /\ \A i \in 1 .. QLen(ring) : QContents(p)[i] = QContents(ring)[i]
        BY <2>2, <3>1, Pushed
      <3>3. ring' = p  BY <2>1, <3>1
      <3> QED BY <3>2, <3>3
    <2>4. QLen(ring) \in Nat  BY <2>2, RingLen, QSizeAssumption
    <2>5. Behind(ring', ring)  BY <2>3, <2>4 DEF Behind
    <2> QED BY <2>1, <2>3, <2>5 DEF PostStep, IsRing
  <1>8. CASE LoopOps
    <2>1. CASE PostQuitMessage \/ GetMessage  BY <2>1 DEF PostQuitMessage, GetMessage
    <2>2. ASSUME NEW remove \in BOOLEAN, PeekMessage(remove) PROVE PostStep \/ TakeStep \/ LookStep \/ MakeStep
      <3>1. CASE ~QEmpty(Pumped) /\ remove  BY <2>2, <3>1 DEF PeekMessage, TakeStep
      <3>2. CASE ~QEmpty(Pumped) /\ ~remove  BY <2>2, <3>2 DEF PeekMessage, LookStep
      <3>3. CASE QEmpty(Pumped) /\ MadeUp = {}
        BY <2>2, <3>3, PumpedExtends DEF PeekMessage, PostStep, Behind, Extends
      <3>4. CASE QEmpty(Pumped) /\ MadeUp # {}  BY <2>2, <3>4 DEF PeekMessage, MakeStep
      <3> QED BY <3>1, <3>2, <3>3, <3>4
    <2>3. CASE GetMessageStep  BY <2>3 DEF GetMessageStep, TakeStep, MakeStep
    <2>4. CASE DispatchMessage  BY <2>4 DEF DispatchMessage, DropStep
    <2>5. CASE DispatchReturn  BY <2>5 DEF DispatchReturn
    <2> QED BY <1>8, <2>1, <2>2, <2>3, <2>4, <2>5 DEF LoopOps
  <1>9. CASE DialogOps
    <2>1. ASSUME NEW t \in Templates, NEW box \in BOOLEAN, CreateDialog(t, box, TRUE) PROVE UNCHANGED <<ring, msg>>
      BY <2>1 DEF CreateDialog
    <2>2. CASE DlgCbtReturn  BY <2>2 DEF DlgCbtReturn
    <2>3. ASSUME NEW r \in BOOLEAN, InitReturn(r) PROVE UNCHANGED <<ring, msg>>  BY <2>3 DEF InitReturn
    <2>4. CASE EndDialog \/ ModalDone  BY <2>4 DEF EndDialog, ModalDone, vars
    <2>5. CASE ModalStep
      <3>1. CASE QEmpty(Pumped)  BY <2>5, <3>1, PumpedExtends DEF ModalStep, PostStep, Behind, Extends
      <3>2. CASE ~QEmpty(Pumped)  BY <2>5, <3>2 DEF ModalStep, TakeStep
      <3> QED BY <3>1, <3>2
    <2>6. CASE ModalDispatch  BY <2>6 DEF ModalDispatch, DropStep
    <2>7. CASE ClickReturn  BY <2>7 DEF ClickReturn
    <2>8. ASSUME NEW d \in Hwnd, IsDialogMessage(d) PROVE DropStep  BY <2>8 DEF IsDialogMessage, DropStep
    <2> QED BY <1>9, <2>1, <2>2, <2>3, <2>4, <2>5, <2>6, <2>7, <2>8 DEF DialogOps
  <1>10. CASE Aborted  BY <1>10 DEF Aborted, dlgVars, vars
  <1> QED BY <1>2, <1>3, <1>4, <1>5, <1>6, <1>7, <1>8, <1>9, <1>10 DEF DlgNext, UserOps

LEMMA StepSimulated == ASSUME IsRing(ring), [DlgNext]_dlgVars
                       PROVE  IsRing(ring') /\ [Source!SNext]_<<QContents(ring), msg>>
  <1>1. CASE PostStep  BY <1>1, PostSimulated DEF PostStep, Source!SNext
  <1>2. CASE TakeStep  BY <1>2, TakeSimulated DEF Source!SNext
  <1>3. CASE LookStep  BY <1>3, LookSimulated DEF Source!SNext
  <1>4. CASE MakeStep  BY <1>4, MakeSimulated DEF Source!SNext
  <1>5. CASE DropStep  BY <1>5 DEF DropStep, Source!SNext
  <1>6. CASE UNCHANGED <<ring, msg>>  BY <1>6
  <1>7. CASE UNCHANGED dlgVars  BY <1>6, <1>7 DEF dlgVars, vars
  <1> QED BY <1>1, <1>2, <1>3, <1>4, <1>5, <1>6, <1>7, StepKinds

LEMMA EmptyAtStart == ASSUME DlgInit PROVE IsRing(ring) /\ Source!SInit
  <1>1. ring = EmptyRing /\ msg = NoMessage  BY DEF DlgInit, UserInit
  <1>2. ring \in RingOf({NoMessage})  BY <1>1, QSizeAssumption DEF EmptyRing, RingOf, Slots
  <1>3. QLen(ring) = 0  BY <1>1, <1>2, RingLen DEF EmptyRing, QEmpty
  <1>4. IsRing(ring)  BY <1>2 DEF IsRing
  <1> QED BY <1>1, <1>3, <1>4, EmptyContents DEF Source!SInit

\* Messages are delivered in the order of their posting, none lost and none
\* twice, and the made-up WM_QUIT and WM_PAINT never overtake one, for every
\* size of the ring and number of timers, however window procedures,
\* call-backs and modal loops nest: the runtime's queue (u32_q_push,
\* u32_pump_timers, GetMessage, PeekMessage, the modal loop) implements
\* MessageSource.
THEOREM QueueRefines == DlgSpec => MessagesInOrder
  <1>1. DlgInit => IsRing(ring) /\ Source!SInit  BY EmptyAtStart
  <1>2. IsRing(ring) /\ [DlgNext]_dlgVars => IsRing(ring)' /\ [Source!SNext]_<<QContents(ring), msg>>
    <2> SUFFICES ASSUME IsRing(ring), [DlgNext]_dlgVars
                 PROVE  IsRing(ring') /\ [Source!SNext]_<<QContents(ring), msg>>  OBVIOUS
    <2> QED BY StepSimulated
  <1> QED BY <1>1, <1>2, PTL DEF DlgSpec, MessagesInOrder, Source!SSpec

-----------------------------------------------------------------------------
(* The focus.                                                               *)
(*                                                                          *)
(* While a WM_KILLFOCUS handler runs, the window that gets the focus is in   *)
(* its frame; with ~FocusInKill nothing above that frame moves the focus.    *)

Harmless == {"cbt", "nccreate", "create", "plain", "erase", "close", "getmsg"}
IsSeq(c) == \E S : c \in Seq(S)
NoKill(c) == \A i \in 1 .. Len(c) : c[i].kind # "killfocus"

StackOK(c, n) ==
    /\ IsSeq(c)
    /\ \A i \in 1 .. Len(c) : c[i].kind = "dlgcbt" => c[i].items \in Templates
    /\ \A i \in 1 .. Len(c) : c[i].kind = "killfocus" =>
           c[i].arg = n /\ \A j \in i + 1 .. Len(c) : c[j].kind \in Harmless

LEMMA Appended == ASSUME NEW c, NEW f, IsSeq(c)
    PROVE /\ IsSeq(Append(c, f)) /\ Len(c) \in Nat /\ Len(Append(c, f)) = Len(c) + 1
          /\ Append(c, f)[Len(c) + 1] = f /\ \A i \in 1 .. Len(c) : Append(c, f)[i] = c[i]
  <1>1. PICK S : c \in Seq(S)  BY DEF IsSeq
  <1>2. c \in Seq(S \cup {f})  BY <1>1, SeqMonotonic
  <1>3. Append(c, f) \in Seq(S \cup {f}) /\ Len(c) \in Nat /\ Len(Append(c, f)) = Len(c) + 1
        /\ Append(c, f)[Len(c) + 1] = f /\ \A i \in 1 .. Len(c) : Append(c, f)[i] = c[i]
    BY <1>2, AppendProperties, LenProperties
  <1> QED BY <1>3 DEF IsSeq

LEMMA Shortened == ASSUME NEW c, IsSeq(c), c # <<>>
    PROVE /\ IsSeq(Front(c)) /\ Len(c) \in Nat \ {0} /\ Len(Front(c)) = Len(c) - 1
          /\ \A i \in 1 .. Len(c) - 1 : Front(c)[i] = c[i]
  <1>1. PICK S : c \in Seq(S)  BY DEF IsSeq
  <1>2. Len(c) \in Nat \ {0}  BY <1>1, EmptySeq
  <1>3. \A i \in 1 .. Len(c) - 1 : c[i] \in S  BY <1>1, <1>2, ElementOfSeq
  <1>4. PICK n : n = Len(c) - 1  OBVIOUS
  <1>5. n \in Int /\ 0 <= n  BY <1>2, <1>4
  <1>6. /\ SubSeq(c, 1, n) \in Seq(S) /\ Len(SubSeq(c, 1, n)) = (IF 1 <= n THEN n - 1 + 1 ELSE 0)
        /\ \A i \in 1 .. n - 1 + 1 : SubSeq(c, 1, n)[i] = c[1 + i - 1]
    BY <1>3, <1>4, <1>5, SubSeqProperties
  <1>7. Front(c) = SubSeq(c, 1, n)  BY <1>4 DEF Front
  <1>8. Front(c) \in Seq(S)  BY <1>6, <1>7
  <1>9. Len(Front(c)) = n  BY <1>5, <1>6, <1>7
  <1>10. \A i \in 1 .. n : Front(c)[i] = c[i]  BY <1>5, <1>6, <1>7
  <1> QED BY <1>2, <1>4, <1>8, <1>9, <1>10 DEF IsSeq

LEMMA PushPlain == ASSUME NEW c, NEW n, NEW f, StackOK(c, n), f.kind \in Harmless PROVE StackOK(Append(c, f), n)
  <1>1. PICK a : a = Append(c, f)  OBVIOUS
  <1>2. IsSeq(a) /\ Len(c) \in Nat /\ Len(a) = Len(c) + 1 /\ a[Len(c) + 1] = f /\ \A i \in 1 .. Len(c) : a[i] = c[i]
    BY <1>1, Appended DEF StackOK
  <1>3. f.kind # "dlgcbt" /\ f.kind # "killfocus"  BY DEF Harmless
  <1>4. ASSUME NEW i \in 1 .. Len(a) PROVE i = Len(c) + 1 \/ (i \in 1 .. Len(c) /\ a[i] = c[i])  BY <1>2
  <1>5. \A i \in 1 .. Len(a) : a[i].kind = "dlgcbt" => a[i].items \in Templates  BY <1>2, <1>3, <1>4 DEF StackOK
  <1>6. ASSUME NEW i \in 1 .. Len(a), a[i].kind = "killfocus"
        PROVE  a[i].arg = n /\ \A j \in i + 1 .. Len(a) : a[j].kind \in Harmless
    <2>1. i \in 1 .. Len(c) /\ a[i] = c[i]  BY <1>2, <1>3, <1>4, <1>6
    <2>2. c[i].arg = n /\ \A j \in i + 1 .. Len(c) : c[j].kind \in Harmless  BY <1>6, <2>1 DEF StackOK
    <2>3. ASSUME NEW j \in i + 1 .. Len(a) PROVE a[j].kind \in Harmless
      <3>1. CASE j = Len(c) + 1  BY <1>2, <3>1
      <3>2. CASE j # Len(c) + 1
        <4>1. j \in i + 1 .. Len(c) /\ j \in 1 .. Len(c)  BY <1>2, <2>1, <3>2
        <4> QED BY <1>2, <2>2, <4>1
      <3> QED BY <3>1, <3>2
    <2> QED BY <2>1, <2>2, <2>3
  <1>7. StackOK(a, n)  BY <1>2, <1>5, <1>6 DEF StackOK
  <1> QED BY <1>1, <1>7

LEMMA PushAny == ASSUME NEW c, NEW n, NEW m, NEW f, StackOK(c, n), NoKill(c),
                        f.kind = "killfocus" => f.arg = m, f.kind = "dlgcbt" => f.items \in Templates
                 PROVE  StackOK(Append(c, f), m) /\ (f.kind # "killfocus" => NoKill(Append(c, f)))
  <1>1. PICK a : a = Append(c, f)  OBVIOUS
  <1>2. IsSeq(a) /\ Len(c) \in Nat /\ Len(a) = Len(c) + 1 /\ a[Len(c) + 1] = f /\ \A i \in 1 .. Len(c) : a[i] = c[i]
    BY <1>1, Appended DEF StackOK
  <1>4. ASSUME NEW i \in 1 .. Len(a) PROVE i = Len(c) + 1 \/ (i \in 1 .. Len(c) /\ a[i] = c[i])  BY <1>2
  <1>5. \A i \in 1 .. Len(a) : a[i].kind = "dlgcbt" => a[i].items \in Templates  BY <1>2, <1>4 DEF StackOK
  <1>6. \A i \in 1 .. Len(a) : a[i].kind = "killfocus" => i = Len(c) + 1  BY <1>2, <1>4 DEF NoKill
  <1>7. ASSUME NEW i \in 1 .. Len(a), a[i].kind = "killfocus"
        PROVE  a[i].arg = m /\ \A j \in i + 1 .. Len(a) : a[j].kind \in Harmless
    BY <1>2, <1>6, <1>7
  <1>8. StackOK(a, m)  BY <1>2, <1>5, <1>7 DEF StackOK
  <1>9. f.kind # "killfocus" => NoKill(a)  BY <1>2, <1>6 DEF NoKill
  <1> QED BY <1>1, <1>8, <1>9

LEMMA PopOne == ASSUME NEW c, NEW n, StackOK(c, n), c # <<>>
                PROVE  StackOK(Front(c), n) /\ (Last(c).kind \notin Harmless => NoKill(Front(c)))
  <1>1. PICK a : a = Front(c)  OBVIOUS
  <1>2. IsSeq(a) /\ Len(c) \in Nat \ {0} /\ Len(a) = Len(c) - 1 /\ \A i \in 1 .. Len(c) - 1 : a[i] = c[i]
    BY <1>1, Shortened DEF StackOK
  <1>3. \A i \in 1 .. Len(a) : i \in 1 .. Len(c) /\ i < Len(c) /\ a[i] = c[i]  BY <1>2
  <1>4. \A i \in 1 .. Len(a) : a[i].kind = "dlgcbt" => a[i].items \in Templates  BY <1>3 DEF StackOK
  <1>5. ASSUME NEW i \in 1 .. Len(a), a[i].kind = "killfocus"
        PROVE  /\ a[i].arg = n /\ \A j \in i + 1 .. Len(a) : a[j].kind \in Harmless
               /\ Last(c).kind \in Harmless
    <2>1. c[i].arg = n /\ \A j \in i + 1 .. Len(c) : c[j].kind \in Harmless  BY <1>3, <1>5 DEF StackOK
    <2>2. \A j \in i + 1 .. Len(a) : j \in i + 1 .. Len(c) /\ a[j] = c[j]  BY <1>2
    <2>3. Len(c) \in i + 1 .. Len(c)  BY <1>2
    <2> QED BY <1>3, <2>1, <2>2, <2>3 DEF Last
  <1>6. StackOK(a, n)  BY <1>2, <1>4, <1>5 DEF StackOK
  <1>7. Last(c).kind \notin Harmless => NoKill(a)  BY <1>5 DEF NoKill
  <1> QED BY <1>1, <1>6, <1>7

LEMMA AnyFocus == ASSUME NEW c, NEW n, NEW m, StackOK(c, n), NoKill(c) PROVE StackOK(c, m)
  BY DEF StackOK, NoKill

\* The window table, whatever its fields hold.
WinOf(S) == [used : S, proc : S, parent : S, child : S, visible : S, enabled : S, tab : S, paint : S, erase : S,
             unicode : S, dialog : S, cls : S, api : S]
IsWin(r) == \E S : r \in WinOf(S)
TableOK(w) == w = [h \in Hwnd |-> w[h]] /\ \A h \in Hwnd : IsWin(w[h])
ToldOK(w, t, n) == t \subseteq {n} /\ \A h \in t : h \in Hwnd /\ w[h].used /\ w[h].proc # 0

FocusInv == TableOK(win) /\ ToldOK(win, told, focus) /\ StackOK(calls, focus)

\* The fields a window keeps when others are written.
LEMMA FieldWritten == ASSUME NEW r, IsWin(r), NEW x
    PROVE /\ IsWin([r EXCEPT !.visible = x]) /\ [r EXCEPT !.visible = x].used = r.used /\ [r EXCEPT !.visible = x].proc = r.proc
          /\ IsWin([r EXCEPT !.paint = x]) /\ [r EXCEPT !.paint = x].used = r.used /\ [r EXCEPT !.paint = x].proc = r.proc
          /\ IsWin([r EXCEPT !.erase = x]) /\ [r EXCEPT !.erase = x].used = r.used /\ [r EXCEPT !.erase = x].proc = r.proc
          /\ IsWin([r EXCEPT !.dialog = x]) /\ [r EXCEPT !.dialog = x].used = r.used /\ [r EXCEPT !.dialog = x].proc = r.proc
          /\ IsWin([r EXCEPT !.used = x]) /\ IsWin([r EXCEPT !.proc = x])
          /\ [r EXCEPT !.proc = x].used = r.used /\ [r EXCEPT !.proc = x].proc = x
  <1>1. PICK S0 : r \in WinOf(S0)  BY DEF IsWin
  <1>2. PICK S : S = S0 \cup {x}  OBVIOUS
  <1>3. r \in WinOf(S) /\ x \in S  BY <1>1, <1>2 DEF WinOf
  <1>4. [r EXCEPT !.visible = x] \in WinOf(S) /\ [r EXCEPT !.paint = x] \in WinOf(S)  BY <1>3 DEF WinOf
  <1>5. [r EXCEPT !.erase = x] \in WinOf(S) /\ [r EXCEPT !.dialog = x] \in WinOf(S)  BY <1>3 DEF WinOf
  <1>6. [r EXCEPT !.used = x] \in WinOf(S) /\ [r EXCEPT !.proc = x] \in WinOf(S)  BY <1>3 DEF WinOf
  <1>7. [r EXCEPT !.visible = x].used = r.used /\ [r EXCEPT !.visible = x].proc = r.proc  BY <1>3 DEF WinOf
  <1>8. [r EXCEPT !.paint = x].used = r.used /\ [r EXCEPT !.paint = x].proc = r.proc  BY <1>3 DEF WinOf
  <1>9. [r EXCEPT !.erase = x].used = r.used /\ [r EXCEPT !.erase = x].proc = r.proc  BY <1>3 DEF WinOf
  <1>10. [r EXCEPT !.dialog = x].used = r.used /\ [r EXCEPT !.dialog = x].proc = r.proc  BY <1>3 DEF WinOf
  <1>11. [r EXCEPT !.proc = x].used = r.used /\ [r EXCEPT !.proc = x].proc = x  BY <1>3 DEF WinOf
  <1> QED BY <1>4, <1>5, <1>6, <1>7, <1>8, <1>9, <1>10, <1>11 DEF IsWin

\* One window is replaced; it is not the one that was told, or it stays as good.
LEMMA OneWindow == ASSUME NEW w, NEW t, NEW n, NEW h, NEW r, TableOK(w), ToldOK(w, t, n), h \in Hwnd => IsWin(r),
                          h \in t => r.used /\ r.proc # 0
                   PROVE  TableOK([w EXCEPT ![h] = r]) /\ ToldOK([w EXCEPT ![h] = r], t, n)
  <1>1. PICK v : v = [w EXCEPT ![h] = r]  OBVIOUS
  <1>2. v = [k \in Hwnd |-> IF k = h THEN r ELSE w[k]]
    <2>1. w = [k \in Hwnd |-> w[k]]  BY DEF TableOK
    <2> QED BY <1>1, <2>1
  <1>3. TableOK(v)  BY <1>2 DEF TableOK
  <1>4. ToldOK(v, t, n)  BY <1>2 DEF ToldOK
  <1> QED BY <1>1, <1>3, <1>4

\* The same when all windows may change.
LEMMA AllWindows == ASSUME NEW w, NEW v, NEW t, NEW n, ToldOK(w, t, n), v = [h \in Hwnd |-> v[h]],
                           \A h \in Hwnd : IsWin(v[h]) /\ (h \in t => v[h].used = w[h].used /\ v[h].proc = w[h].proc)
                    PROVE  TableOK(v) /\ ToldOK(v, t, n)
  BY DEF TableOK, ToldOK

LEMMA FewerTold == ASSUME NEW w, NEW t, NEW n, NEW s, ToldOK(w, t, n), s \subseteq t PROVE ToldOK(w, s, n)
  BY DEF ToldOK

LEMMA TellKeeps == ASSUME NEW n, NEW stack, ToldOK(win, told, n), StackOK(stack, n), TellFocus(n, stack)
                   PROVE  ToldOK(win, told', n) /\ StackOK(calls', n)
  <1>1. CASE WndProc(n) = 0  BY <1>1 DEF TellFocus
  <1>2. CASE WndProc(n) # 0
    <2>1. calls' = Append(stack, Frame("plain", n, "setfocus", 0)) /\ told' = told \cup {n}  BY <1>2 DEF TellFocus
    <2>2. n \in Hwnd /\ win[n].used /\ win[n].proc # 0  BY <1>2 DEF WndProc, Live
    <2>3. ToldOK(win, told', n)  BY <2>1, <2>2 DEF ToldOK
    <2>4. Frame("plain", n, "setfocus", 0).kind \in Harmless  BY DEF Frame, Harmless
    <2>5. StackOK(calls', n)  BY <2>1, <2>4, PushPlain
    <2> QED BY <2>3, <2>5
  <1> QED BY <1>1, <1>2

LEMMA MoveKeeps == ASSUME NEW n, NEW stack, ToldOK(win, told, focus), StackOK(stack, focus), NoKill(stack), MoveFocus(n, stack)
                   PROVE  ToldOK(win, told', focus') /\ StackOK(calls', focus')
  <1>1. CASE n = focus  BY <1>1 DEF MoveFocus
  <1>2. CASE n # focus /\ WndProc(focus) = 0
    <2>1. focus' = n /\ TellFocus(n, stack)  BY <1>2 DEF MoveFocus
    <2>2. told = {}
      <3>1. \A h \in told : h = focus /\ WndProc(h) # 0  BY DEF ToldOK, WndProc, Live
      <3> QED BY <1>2, <3>1
    <2>3. ToldOK(win, told, n)  BY <2>2 DEF ToldOK
    <2>4. StackOK(stack, n)  BY AnyFocus
    <2> QED BY <2>1, <2>3, <2>4, TellKeeps
  <1>3. CASE n # focus /\ WndProc(focus) # 0
    <2>1. /\ focus' = n /\ told' = told \ {focus}
          /\ calls' = Append(stack, Frame("killfocus", focus, "killfocus", n))
      BY <1>3 DEF MoveFocus
    <2>2. told' = {}  BY <2>1 DEF ToldOK
    <2>3. PICK f : f = Frame("killfocus", focus, "killfocus", n)  OBVIOUS
    <2>4. f.kind = "killfocus" /\ f.arg = n  BY <2>3 DEF Frame
    <2>5. StackOK(Append(stack, f), n)  BY <2>4, PushAny
    <2> QED BY <2>1, <2>2, <2>3, <2>5 DEF ToldOK
  <1> QED BY <1>1, <1>2, <1>3

LEMMA ClickKeeps == ASSUME ~SilentClick, NEW d, NEW stack, ToldOK(win, told, focus), StackOK(stack, focus), NoKill(stack), HitTest(d, stack)
                    PROVE  ToldOK(win, told', focus') /\ StackOK(calls', focus')
  <1>1. CASE calls' = stack /\ UNCHANGED <<focus, told>>  BY <1>1
  <1>2. ASSUME NEW c \in Clickable(d), focus \in told /\ c # focus => SilentClick, focus' = c /\ told' = told,
               calls' = IF win[c].cls = "button" /\ WndProc(d) # 0
                        THEN Append(stack, Frame("plain", d, "command", c)) ELSE stack
        PROVE  ToldOK(win, told', focus') /\ StackOK(calls', focus')
    <2>1. ToldOK(win, told', focus')
      <3>1. told' = told /\ told \subseteq {focus} /\ (focus \notin told \/ focus' = focus)  BY <1>2 DEF ToldOK
      <3> QED BY <3>1 DEF ToldOK
    <2>2. StackOK(stack, focus')  BY AnyFocus
    <2>3. Frame("plain", d, "command", c).kind \in Harmless  BY DEF Frame, Harmless
    <2>4. StackOK(Append(stack, Frame("plain", d, "command", c)), focus')  BY <2>2, <2>3, PushPlain
    <2> QED BY <1>2, <2>1, <2>2, <2>4
  <1> QED BY <1>1, <1>2 DEF HitTest

LEMMA NotInKill == ASSUME StackOK(calls, focus), ~InKill PROVE NoKill(calls)
  <1>1. PICK S : calls \in Seq(S)  BY DEF StackOK, IsSeq
  <1>2. DOMAIN calls = 1 .. Len(calls)  BY <1>1, LenProperties
  <1> QED BY <1>2 DEF NoKill, InKill

LEMMA LeastOfHwnd == ASSUME NEW S, S \subseteq Hwnd, S # {} PROVE Least(S) \in S
  <1>1. S \subseteq Nat  BY WindowsAssumption DEF Hwnd
  <1>2. PICK i \in S : \A j \in S : i <= j  BY <1>1, LeastIndex, Zenon
  <1> QED BY <1>2 DEF Least

LEMMA WinMade == ASSUME NEW a, NEW b, NEW c, NEW d, NEW e, NEW f, NEW g, NEW h, NEW i, NEW j, NEW k, NEW l, NEW m
    PROVE IsWin([used |-> a, proc |-> b, parent |-> c, child |-> d, visible |-> e, enabled |-> f, tab |-> g, paint |-> h,
                 erase |-> i, unicode |-> j, dialog |-> k, cls |-> l, api |-> m])
  <1>1. PICK S : S = {a, b, c, d, e, f, g, h, i, j, k, l, m}  OBVIOUS
  <1>2. [used |-> a, proc |-> b, parent |-> c, child |-> d, visible |-> e, enabled |-> f, tab |-> g, paint |-> h,
         erase |-> i, unicode |-> j, dialog |-> k, cls |-> l, api |-> m] \in WinOf(S)
    BY <1>1 DEF WinOf
  <1> QED BY <1>2 DEF IsWin

LEMMA ControlKeeps == ASSUME NEW w, NEW t, NEW n, NEW d, NEW c, TableOK(w), ToldOK(w, t, n)
                      PROVE  TableOK(NewControl(w, d, c)) /\ ToldOK(NewControl(w, d, c), t, n)
  <1>1. PICK free : free = {h \in Hwnd : ~w[h].used}  OBVIOUS
  <1>2. CASE free = {}  BY <1>1, <1>2 DEF NewControl
  <1>3. CASE free # {}
    <2>1. PICK r : r = [NoWin EXCEPT !.used = TRUE, !.parent = d, !.child = TRUE, !.cls = c.cls,
                                      !.tab = c.tab, !.visible = c.visible, !.enabled = c.enabled]
      OBVIOUS
    <2>2. NewControl(w, d, c) = [w EXCEPT ![Least(free)] = r]  BY <1>1, <1>3, <2>1 DEF NewControl
    <2>3. r = [used |-> TRUE, proc |-> 0, parent |-> d, child |-> TRUE, visible |-> c.visible, enabled |-> c.enabled,
               tab |-> c.tab, paint |-> FALSE, erase |-> FALSE, unicode |-> FALSE, dialog |-> FALSE, cls |-> c.cls,
               api |-> "none"]
      BY <2>1 DEF NoWin
    <2>4. IsWin(r)  BY <2>3, WinMade, Zenon
    <2>5. Least(free) \in free  BY <1>1, <1>3, LeastOfHwnd
    <2>6. Least(free) \notin t  BY <1>1, <2>5 DEF ToldOK
    <2>7. TableOK([w EXCEPT ![Least(free)] = r]) /\ ToldOK([w EXCEPT ![Least(free)] = r], t, n)
      BY <2>4, <2>6, OneWindow
    <2> QED BY <2>2, <2>7
  <1> QED BY <1>2, <1>3

Controls(w, d, items, n, f) == f = [k \in 0 .. n |-> IF k = 0 THEN w ELSE NewControl(f[k - 1], d, items[k])]

LEMMA ControlsExist == ASSUME NEW w, NEW d, NEW items, NEW m \in Nat PROVE \A n \in 0 .. m : \E f : Controls(w, d, items, n, f)
  <1> DEFINE Bad == {n \in 0 .. m : ~ \E f : Controls(w, d, items, n, f)}
  <1> SUFFICES ASSUME Bad # {} PROVE FALSE  OBVIOUS
  <1>1. PICK n \in Bad : \A j \in Bad : n <= j
    <2>1. Bad \subseteq Nat  OBVIOUS
    <2> QED BY <2>1, LeastIndex, Zenon
  <1>2. n \in 0 .. m /\ ~ \E f : Controls(w, d, items, n, f)  OBVIOUS
  <1>3. CASE n = 0
    <2>1. Controls(w, d, items, 0, [k \in 0 .. 0 |-> w])  BY DEF Controls
    <2> QED BY <1>2, <1>3, <2>1
  <1>4. CASE n # 0
    <2>1. n - 1 \in 0 .. m /\ n - 1 \notin Bad  BY <1>1, <1>2, <1>4
    <2>2. PICK g : Controls(w, d, items, n - 1, g)  BY <2>1
    <2> DEFINE f == [k \in 0 .. n |-> IF k = n THEN NewControl(g[n - 1], d, items[n]) ELSE g[k]]
    <2>3. \A k \in 0 .. n - 1 : g[k] = IF k = 0 THEN w ELSE NewControl(g[k - 1], d, items[k])  BY <2>2 DEF Controls
    <2>4. ASSUME NEW k \in 0 .. n PROVE f[k] = IF k = 0 THEN w ELSE NewControl(f[k - 1], d, items[k])
      <3>1. CASE k = n
        <4>1. f[k] = NewControl(g[n - 1], d, items[n])  BY <3>1
        <4>2. f[n - 1] = g[n - 1]  BY <1>2, <1>4
        <4> QED BY <1>4, <3>1, <4>1, <4>2
      <3>2. CASE k # n
        <4>1. k \in 0 .. n - 1 /\ f[k] = g[k]  BY <1>2, <3>2
        <4>2. k # 0 => f[k - 1] = g[k - 1]  BY <1>2, <3>2
        <4> QED BY <2>3, <4>1, <4>2
      <3> QED BY <3>1, <3>2
    <2>5. Controls(w, d, items, n, f)  BY <2>4 DEF Controls
    <2> QED BY <1>2, <2>5
  <1> QED BY <1>3, <1>4

\* Adding the controls of a dialog leaves the windows in use as they are.
LEMMA ControlsKeep == ASSUME NEW w, NEW t, NEW n, NEW d, NEW items, Len(items) \in Nat, TableOK(w), ToldOK(w, t, n)
                      PROVE  TableOK(NewControls(w, d, items)) /\ ToldOK(NewControls(w, d, items), t, n)
  <1> DEFINE m == Len(items)
             made == CHOOSE f : f = [k \in 0 .. Len(items) |-> IF k = 0 THEN w ELSE NewControl(f[k - 1], d, items[k])]
  <1>1. \E f : f = [k \in 0 .. Len(items) |-> IF k = 0 THEN w ELSE NewControl(f[k - 1], d, items[k])]
    <2>1. m \in 0 .. m  OBVIOUS
    <2>2. \E f : Controls(w, d, items, m, f)  BY <2>1, ControlsExist
    <2> QED BY <2>2 DEF Controls
  <1>2. made = [k \in 0 .. Len(items) |-> IF k = 0 THEN w ELSE NewControl(made[k - 1], d, items[k])]
    BY <1>1, Zenon
  <1>3. NewControls(w, d, items) = made[Len(items)]  BY Zenon DEF NewControls
  <1> HIDE DEF made
  <1> DEFINE Good(k) == TableOK(made[k]) /\ ToldOK(made[k], t, n)
             Bad == {k \in 0 .. m : ~Good(k)}
  <1>4. Good(0)
    <2>1. made[0] = w  BY <1>2
    <2> QED BY <2>1
  <1>5. ASSUME NEW k \in 1 .. m, Good(k - 1) PROVE Good(k)
    <2>1. made[k] = NewControl(made[k - 1], d, items[k])  BY <1>2
    <2> QED BY <1>5, <2>1, ControlKeeps
  <1>6. Bad = {}
    <2> SUFFICES ASSUME Bad # {} PROVE FALSE  OBVIOUS
    <2>1. PICK i \in Bad : \A j \in Bad : i <= j
      <3>1. Bad \subseteq Nat  OBVIOUS
      <3> QED BY <3>1, LeastIndex, Zenon
    <2>2. i # 0  BY <1>4
    <2>3. i \in 1 .. m /\ i - 1 \in 0 .. m /\ i - 1 \notin Bad  BY <2>1, <2>2
    <2>4. Good(i - 1)  BY <2>3
    <2>5. Good(i)  BY <1>5, <2>3, <2>4
    <2> QED BY <2>5
  <1>7. Good(m)
    <2>1. m \in 0 .. m  OBVIOUS
    <2> QED BY <1>6, <2>1
  <1> QED BY <1>3, <1>7

\* The ways the operations write to a window they leave in place.
LEMMA WroteVisible == ASSUME NEW w, NEW t, NEW n, NEW h, NEW a, TableOK(w), ToldOK(w, t, n)
    PROVE TableOK([w EXCEPT ![h].visible = a]) /\ ToldOK([w EXCEPT ![h].visible = a], t, n)
  <1>1. PICK r : r = [w[h] EXCEPT !.visible = a]  OBVIOUS
  <1>2. h \in Hwnd => IsWin(w[h])  BY DEF TableOK
  <1>3. h \in Hwnd => IsWin(r) /\ r.used = w[h].used /\ r.proc = w[h].proc  BY <1>1, <1>2, FieldWritten
  <1>4. h \in t => r.used /\ r.proc # 0  BY <1>3 DEF ToldOK
  <1>5. TableOK([w EXCEPT ![h] = r]) /\ ToldOK([w EXCEPT ![h] = r], t, n)  BY <1>3, <1>4, OneWindow
  <1> QED BY <1>1, <1>5

LEMMA WrotePaint == ASSUME NEW w, NEW t, NEW n, NEW h, NEW a, TableOK(w), ToldOK(w, t, n)
    PROVE TableOK([w EXCEPT ![h].paint = a]) /\ ToldOK([w EXCEPT ![h].paint = a], t, n)
  <1>1. PICK r : r = [w[h] EXCEPT !.paint = a]  OBVIOUS
  <1>2. h \in Hwnd => IsWin(w[h])  BY DEF TableOK
  <1>3. h \in Hwnd => IsWin(r) /\ r.used = w[h].used /\ r.proc = w[h].proc  BY <1>1, <1>2, FieldWritten
  <1>4. h \in t => r.used /\ r.proc # 0  BY <1>3 DEF ToldOK
  <1>5. TableOK([w EXCEPT ![h] = r]) /\ ToldOK([w EXCEPT ![h] = r], t, n)  BY <1>3, <1>4, OneWindow
  <1> QED BY <1>1, <1>5

LEMMA WroteErase == ASSUME NEW w, NEW t, NEW n, NEW h, NEW a, TableOK(w), ToldOK(w, t, n)
    PROVE TableOK([w EXCEPT ![h].erase = a]) /\ ToldOK([w EXCEPT ![h].erase = a], t, n)
  <1>1. PICK r : r = [w[h] EXCEPT !.erase = a]  OBVIOUS
  <1>2. h \in Hwnd => IsWin(w[h])  BY DEF TableOK
  <1>3. h \in Hwnd => IsWin(r) /\ r.used = w[h].used /\ r.proc = w[h].proc  BY <1>1, <1>2, FieldWritten
  <1>4. h \in t => r.used /\ r.proc # 0  BY <1>3 DEF ToldOK
  <1>5. TableOK([w EXCEPT ![h] = r]) /\ ToldOK([w EXCEPT ![h] = r], t, n)  BY <1>3, <1>4, OneWindow
  <1> QED BY <1>1, <1>5

LEMMA WroteDialog == ASSUME NEW w, NEW t, NEW n, NEW h, NEW a, TableOK(w), ToldOK(w, t, n)
    PROVE TableOK([w EXCEPT ![h].dialog = a]) /\ ToldOK([w EXCEPT ![h].dialog = a], t, n)
  <1>1. PICK r : r = [w[h] EXCEPT !.dialog = a]  OBVIOUS
  <1>2. h \in Hwnd => IsWin(w[h])  BY DEF TableOK
  <1>3. h \in Hwnd => IsWin(r) /\ r.used = w[h].used /\ r.proc = w[h].proc  BY <1>1, <1>2, FieldWritten
  <1>4. h \in t => r.used /\ r.proc # 0  BY <1>3 DEF ToldOK
  <1>5. TableOK([w EXCEPT ![h] = r]) /\ ToldOK([w EXCEPT ![h] = r], t, n)  BY <1>3, <1>4, OneWindow
  <1> QED BY <1>1, <1>5

LEMMA WroteProc == ASSUME NEW w, NEW t, NEW n, NEW h, NEW a, TableOK(w), ToldOK(w, t, n), a # 0
    PROVE TableOK([w EXCEPT ![h].proc = a]) /\ ToldOK([w EXCEPT ![h].proc = a], t, n)
  <1>1. PICK r : r = [w[h] EXCEPT !.proc = a]  OBVIOUS
  <1>2. h \in Hwnd => IsWin(w[h])  BY DEF TableOK
  <1>3. h \in Hwnd => IsWin(r) /\ r.used = w[h].used /\ r.proc = a  BY <1>1, <1>2, FieldWritten
  <1>4. h \in t => r.used /\ r.proc # 0  BY <1>3 DEF ToldOK
  <1>5. TableOK([w EXCEPT ![h] = r]) /\ ToldOK([w EXCEPT ![h] = r], t, n)  BY <1>3, <1>4, OneWindow
  <1> QED BY <1>1, <1>5

LEMMA WroteUsed == ASSUME NEW w, NEW t, NEW n, NEW h, NEW a, TableOK(w), ToldOK(w, t, n), h \notin t
    PROVE TableOK([w EXCEPT ![h].used = a]) /\ ToldOK([w EXCEPT ![h].used = a], t, n)
  <1>1. PICK r : r = [w[h] EXCEPT !.used = a]  OBVIOUS
  <1>2. h \in Hwnd => IsWin(w[h])  BY DEF TableOK
  <1>3. h \in Hwnd => IsWin(r)  BY <1>1, <1>2, FieldWritten
  <1>4. h \in t => r.used /\ r.proc # 0  OBVIOUS
  <1>5. TableOK([w EXCEPT ![h] = r]) /\ ToldOK([w EXCEPT ![h] = r], t, n)  BY <1>3, <1>4, OneWindow
  <1> QED BY <1>1, <1>5

LEMMA PushFrame == ASSUME NEW c, NEW n, NEW k, NEW h, NEW m, NEW a, StackOK(c, n), k \in Harmless
                   PROVE  StackOK(Append(c, Frame(k, h, m, a)), n)
  <1>1. Frame(k, h, m, a).kind \in Harmless  BY DEF Frame
  <1> QED BY <1>1, PushPlain

LEMMA DispatchKeeps == ASSUME NEW h, NEW w, NEW c, NEW n, StackOK(c, n) PROVE StackOK(CreateDispatch(h, w, c), n)
  <1>1. StackOK(Append(c, Frame("nccreate", h, "nccreate", w[h].proc)), n)  BY PushFrame DEF Harmless
  <1> QED BY <1>1 DEF CreateDispatch

LEMMA CreatedIsWin == ASSUME NEW h, NEW p, NEW par, NEW s, NEW api PROVE IsWin(Created(h, p, par, s, api))
  <1>1. PICK owes : owes = (s.visible /\ par = 0 /\ ~s.child)  OBVIOUS
  <1>2. PICK u : u = (win[h].unicode \/ api = "W")  OBVIOUS
  <1>3. Created(h, p, par, s, api) =
            [NoWin EXCEPT !.used = TRUE, !.proc = p, !.parent = par, !.child = s.child,
                      !.visible = s.visible, !.enabled = TRUE, !.paint = owes, !.erase = owes,
                      !.unicode = u, !.api = api]
    BY <1>1, <1>2, Zenon DEF Created
  <1>4. Created(h, p, par, s, api) =
            [used |-> TRUE, proc |-> p, parent |-> par, child |-> s.child, visible |-> s.visible, enabled |-> TRUE,
             tab |-> FALSE, paint |-> owes, erase |-> owes, unicode |-> u, dialog |-> FALSE, cls |-> "none", api |-> api]
    BY <1>3 DEF NoWin
  <1> QED BY <1>4, WinMade, Zenon

LEMMA WindowOpsKeep == ASSUME FocusInv, WindowOps PROVE FocusInv'
  <1>0. TableOK(win) /\ ToldOK(win, told, focus) /\ StackOK(calls, focus)  BY DEF FocusInv
  <1>1. ASSUME NEW p, NEW par, NEW s, NEW api, CreateWindowEx(p, par, s, api) PROVE FocusInv'
    <2>1. PICK h : h = Least(Free)  OBVIOUS
    <2>2. PICK r : r = Created(h, p, par, s, api)  OBVIOUS
    <2>3. PICK w : w = [win EXCEPT ![h] = r]  OBVIOUS
    <2>4. /\ win' = w /\ told' = told \ {h} /\ focus' = focus
          /\ calls' = IF hook THEN Append(calls, Frame("cbt", h, "cbt", 0)) ELSE CreateDispatch(h, w, calls)
      BY <1>1, <2>1, <2>2, <2>3 DEF CreateWindowEx
    <2>5. IsWin(r)  BY <2>2, CreatedIsWin
    <2>6. ToldOK(win, told \ {h}, focus)  BY <1>0, FewerTold
    <2>7. TableOK(w) /\ ToldOK(w, told \ {h}, focus)  BY <1>0, <2>3, <2>5, <2>6, OneWindow
    <2>8. StackOK(Append(calls, Frame("cbt", h, "cbt", 0)), focus)  BY <1>0, PushFrame DEF Harmless
    <2>9. StackOK(CreateDispatch(h, w, calls), focus)  BY <1>0, DispatchKeeps
    <2>10. StackOK(calls', focus')  BY <2>4, <2>8, <2>9
    <2> QED BY <2>4, <2>7, <2>10 DEF FocusInv
  <1>2. CASE CbtReturn
    <2>1. calls # <<>> /\ calls' = CreateDispatch(Last(calls).h, win, Front(calls)) /\ UNCHANGED <<win, told, focus>>
      BY <1>2 DEF CbtReturn
    <2>2. StackOK(Front(calls), focus)  BY <1>0, <2>1, PopOne
    <2>3. StackOK(calls', focus)  BY <2>1, <2>2, DispatchKeeps
    <2> QED BY <1>0, <2>1, <2>3 DEF FocusInv
  <1>3. ASSUME NEW ok \in BOOLEAN, CreateReturn(ok) PROVE FocusInv'
    <2>1. PICK f : f = Last(calls)  OBVIOUS
    <2>2. /\ calls # <<>> /\ focus' = focus
          /\ calls' = IF ok /\ f.kind = "nccreate" THEN Append(Front(calls), Frame("create", f.h, "create", f.arg))
                      ELSE Front(calls)
          /\ win' = IF ok THEN win ELSE [win EXCEPT ![f.h].used = FALSE]
          /\ told' = IF ok THEN told ELSE told \ {f.h}
      BY <1>3, <2>1 DEF CreateReturn
    <2>3. StackOK(Front(calls), focus)  BY <1>0, <2>2, PopOne
    <2>4. StackOK(Append(Front(calls), Frame("create", f.h, "create", f.arg)), focus)  BY <2>3, PushFrame DEF Harmless
    <2>5. StackOK(calls', focus')  BY <2>2, <2>3, <2>4
    <2>6. CASE ok  BY <1>0, <2>2, <2>5, <2>6 DEF FocusInv
    <2>7. CASE ~ok
      <3>1. PICK w : w = [win EXCEPT ![f.h].used = FALSE]  OBVIOUS
      <3>2. win' = w /\ told' = told \ {f.h}  BY <2>2, <2>7, <3>1
      <3>3. ToldOK(win, told \ {f.h}, focus)  BY <1>0, FewerTold
      <3>4. TableOK(w) /\ ToldOK(w, told \ {f.h}, focus)  BY <1>0, <3>1, <3>3, WroteUsed
      <3> QED BY <2>2, <2>5, <3>2, <3>4 DEF FocusInv
    <2> QED BY <2>6, <2>7
  <1>4. CASE PlainReturn
    <2>1. calls # <<>> /\ calls' = Front(calls) /\ UNCHANGED <<win, told, focus>>  BY <1>4 DEF PlainReturn
    <2> QED BY <1>0, <2>1, PopOne DEF FocusInv
  <1> QED BY <1>1, <1>2, <1>3, <1>4 DEF WindowOps

LEMMA TableOpsKeep == ASSUME FocusInv, DestroyOps \/ HookOps \/ CloseOps PROVE FocusInv'
  <1>0. TableOK(win) /\ ToldOK(win, told, focus) /\ StackOK(calls, focus)  BY DEF FocusInv
  <1>1. ASSUME NEW h, DestroyWindow(h) PROVE FocusInv'
    <2>1. win' = [win EXCEPT ![h].used = FALSE] /\ told' = told \ {h} /\ UNCHANGED <<calls, focus>>
      BY <1>1 DEF DestroyWindow
    <2>2. ToldOK(win, told \ {h}, focus)  BY <1>0, FewerTold
    <2>3. TableOK(win') /\ ToldOK(win', told \ {h}, focus)  BY <1>0, <2>1, <2>2, WroteUsed
    <2> QED BY <1>0, <2>1, <2>3 DEF FocusInv
  <1>2. ASSUME NEW on, SetWindowsHookEx(on) PROVE FocusInv'  BY <1>0, <1>2 DEF SetWindowsHookEx, FocusInv
  <1>3. ASSUME NEW h, Subclass(h) PROVE FocusInv'
    <2>1. win' = [win EXCEPT ![h].proc = 1] /\ UNCHANGED <<calls, focus, told>>  BY <1>3 DEF Subclass
    <2>2. 1 # 0  OBVIOUS
    <2>3. TableOK(win') /\ ToldOK(win', told, focus)  BY <1>0, <2>1, <2>2, WroteProc
    <2> QED BY <1>0, <2>1, <2>3 DEF FocusInv
  <1>4. ASSUME NEW h, SendMessage(h, "close") PROVE FocusInv'
    <2>1. calls' = Append(calls, Frame("plain", h, "close", 0)) /\ UNCHANGED <<win, focus, told>>
      BY <1>4 DEF SendMessage
    <2>2. StackOK(calls', focus)  BY <1>0, <2>1, PushFrame DEF Harmless
    <2> QED BY <1>0, <2>1, <2>2 DEF FocusInv
  <1>5. CASE DefWindowProc
    <2>1. PICK h : h = Last(calls).h  OBVIOUS
    <2>2. focus' = focus /\ told' = told  BY <1>5 DEF DefWindowProc
    <2>3. CASE win' = [win EXCEPT ![h].erase = FALSE, ![h].paint = FALSE] /\ UNCHANGED calls
      <3>1. PICK w : w = [win EXCEPT ![h].erase = FALSE]  OBVIOUS
      <3>2. win' = [w EXCEPT ![h].paint = FALSE]  BY <2>3, <3>1
      <3>3. TableOK(w) /\ ToldOK(w, told, focus)  BY <1>0, <3>1, WroteErase
      <3>4. TableOK(win') /\ ToldOK(win', told, focus)  BY <3>2, <3>3, WrotePaint
      <3> QED BY <1>0, <2>2, <2>3, <3>4 DEF FocusInv
    <2>4. CASE calls' = Append(calls, Frame("close", h, "destroy", 0)) /\ UNCHANGED win
      <3>1. StackOK(calls', focus)  BY <1>0, <2>4, PushFrame DEF Harmless
      <3> QED BY <1>0, <2>2, <2>4, <3>1 DEF FocusInv
    <2>5. CASE win[h].proc = 0 /\ win' = [win EXCEPT ![h].used = FALSE] /\ UNCHANGED calls
      <3>1. h \notin told  BY <1>0, <2>5 DEF ToldOK
      <3>2. TableOK(win') /\ ToldOK(win', told, focus)  BY <1>0, <2>5, <3>1, WroteUsed
      <3> QED BY <1>0, <2>2, <2>5, <3>2 DEF FocusInv
    <2> QED BY <1>5, <2>1, <2>3, <2>4, <2>5 DEF DefWindowProc
  <1>6. CASE CloseReturn
    <2>1. PICK h : h = Last(calls).h  OBVIOUS
    <2>2. /\ win' = [win EXCEPT ![h].used = FALSE] /\ told' = told \ {h} /\ focus' = focus
          /\ calls # <<>> /\ calls' = Front(calls)
      BY <1>6, <2>1 DEF CloseReturn
    <2>3. ToldOK(win, told \ {h}, focus)  BY <1>0, FewerTold
    <2>4. TableOK(win') /\ ToldOK(win', told \ {h}, focus)  BY <1>0, <2>2, <2>3, WroteUsed
    <2>5. StackOK(calls', focus)  BY <1>0, <2>2, PopOne
    <2> QED BY <2>2, <2>4, <2>5 DEF FocusInv
  <1> QED BY <1>1, <1>2, <1>3, <1>4, <1>5, <1>6 DEF DestroyOps, HookOps, CloseOps

LEMMA PaintOpsKeep == ASSUME FocusInv, PaintOps PROVE FocusInv'
  <1>0. TableOK(win) /\ ToldOK(win, told, focus) /\ StackOK(calls, focus)  BY DEF FocusInv
  <1>1. ASSUME NEW h, NEW show, ShowWindow(h, show) PROVE FocusInv'
    <2>1. PICK owes : win' = [win EXCEPT ![h].visible = show, ![h].paint = @ \/ owes, ![h].erase = @ \/ owes]
      BY <1>1, Zenon DEF ShowWindow
    <2>2. UNCHANGED <<focus, calls, told>>  BY <1>1 DEF ShowWindow
    <2>3. PICK w : w = [win EXCEPT ![h].visible = show]  OBVIOUS
    <2>4. PICK x, y : win' = [win EXCEPT ![h].visible = show, ![h].paint = x, ![h].erase = y]  BY <2>1, Zenon
    <2>5. PICK v : v = [w EXCEPT ![h].paint = x]  OBVIOUS
    <2>9. win' = [v EXCEPT ![h].erase = y]  BY <2>3, <2>4, <2>5
    <2>6. TableOK(w) /\ ToldOK(w, told, focus)  BY <1>0, <2>3, WroteVisible
    <2>7. TableOK(v) /\ ToldOK(v, told, focus)  BY <2>5, <2>6, WrotePaint
    <2>8. TableOK(win') /\ ToldOK(win', told, focus)  BY <2>7, <2>9, WroteErase
    <2> QED BY <1>0, <2>2, <2>8 DEF FocusInv
  <1>2. ASSUME NEW h, NEW show, SetWindowPos(h, show) PROVE FocusInv'
    <2>1. win' = [win EXCEPT ![h].visible = show] /\ UNCHANGED <<focus, calls, told>>  BY <1>2 DEF SetWindowPos
    <2>2. TableOK(win') /\ ToldOK(win', told, focus)  BY <1>0, <2>1, WroteVisible
    <2> QED BY <1>0, <2>1, <2>2 DEF FocusInv
  <1>3. ASSUME NEW h, NEW erase, InvalidateRect(h, erase) PROVE FocusInv'
    <2>1. /\ win' = [k \in Hwnd |-> IF h \in {0, k} /\ Paints(k)
                              THEN [win[k] EXCEPT !.paint = TRUE, !.erase = @ \/ erase] ELSE win[k]]
          /\ UNCHANGED <<focus, calls, told>>
      BY <1>3 DEF InvalidateRect
    <2>2. ASSUME NEW k \in Hwnd PROVE IsWin(win'[k]) /\ win'[k].used = win[k].used /\ win'[k].proc = win[k].proc
      <3>1. IsWin(win[k])  BY <1>0 DEF TableOK
      <3>2. CASE win'[k] = win[k]  BY <3>1, <3>2
      <3>3. CASE win'[k] = [win[k] EXCEPT !.paint = TRUE, !.erase = @ \/ erase]
        <4>1. PICK r : r = [win[k] EXCEPT !.paint = TRUE]  OBVIOUS
        <4>2. win'[k] = [r EXCEPT !.erase = @ \/ erase]  BY <3>3, <4>1
        <4>3. IsWin(r) /\ r.used = win[k].used /\ r.proc = win[k].proc  BY <3>1, <4>1, FieldWritten
        <4>4. PICK x : win'[k] = [r EXCEPT !.erase = x]  BY <4>2
        <4>5. IsWin([r EXCEPT !.erase = x]) /\ [r EXCEPT !.erase = x].used = r.used /\ [r EXCEPT !.erase = x].proc = r.proc
          BY <4>3, FieldWritten
        <4> QED BY <4>3, <4>4, <4>5
      <3> QED BY <2>1, <3>2, <3>3
    <2>3. win' = [k \in Hwnd |-> win'[k]]  BY <2>1
    <2>4. TableOK(win') /\ ToldOK(win', told, focus)  BY <1>0, <2>2, <2>3, AllWindows
    <2> QED BY <1>0, <2>1, <2>4 DEF FocusInv
  <1>4. ASSUME NEW h, NEW inv, NEW now, RedrawWindow(h, inv, FALSE, now) PROVE FocusInv'
    <2>1. /\ win' = win \/ win' = [win EXCEPT ![h].paint = TRUE, ![h].erase = @ \/ FALSE]
          /\ calls' = calls \/ calls' = Append(calls, Frame("plain", h, "paint", 0))
          /\ UNCHANGED <<focus, told>>
      BY <1>4, Zenon DEF RedrawWindow
    <2>2. StackOK(calls', focus)
      <3>1. StackOK(Append(calls, Frame("plain", h, "paint", 0)), focus)  BY <1>0, PushFrame DEF Harmless
      <3> QED BY <1>0, <2>1, <3>1
    <2>3. TableOK(win') /\ ToldOK(win', told, focus)
      <3>1. CASE win' = win  BY <1>0, <3>1
      <3>2. CASE win' = [win EXCEPT ![h].paint = TRUE, ![h].erase = @ \/ FALSE]
        <4>1. PICK w : w = [win EXCEPT ![h].paint = TRUE]  OBVIOUS
        <4>2. win' = [w EXCEPT ![h].erase = @ \/ FALSE]  BY <3>2, <4>1
        <4>3. TableOK(w) /\ ToldOK(w, told, focus)  BY <1>0, <4>1, WrotePaint
        <4> QED BY <4>2, <4>3, WroteErase
      <3> QED BY <2>1, <3>1, <3>2
    <2> QED BY <2>1, <2>2, <2>3 DEF FocusInv
  <1>5. ASSUME NEW h, ValidateRect(h) PROVE FocusInv'
    <2>1. win' = [win EXCEPT ![h].paint = FALSE] /\ UNCHANGED <<focus, calls, told>>  BY <1>5 DEF ValidateRect
    <2>2. TableOK(win') /\ ToldOK(win', told, focus)  BY <1>0, <2>1, WrotePaint
    <2> QED BY <1>0, <2>1, <2>2 DEF FocusInv
  <1>6. ASSUME NEW h, BeginPaint(h) PROVE FocusInv'
    <2>1. PICK w : w = [win EXCEPT ![h].erase = FALSE]  OBVIOUS
    <2>2. TableOK(w) /\ ToldOK(w, told, focus)  BY <1>0, <2>1, WroteErase
    <2>3. PICK v : v = [w EXCEPT ![h].paint = FALSE]  OBVIOUS
    <2>4. TableOK(v) /\ ToldOK(v, told, focus)  BY <2>2, <2>3, WrotePaint
    <2>5. v = [win EXCEPT ![h].erase = FALSE, ![h].paint = FALSE]  BY <2>1, <2>3
    <2>6. /\ \/ win' = w /\ calls' = Append(calls, Frame("erase", h, "erase", 0))
             \/ win' = v /\ calls' = calls
          /\ UNCHANGED <<focus, told>>
      BY <1>6, <2>1, <2>5 DEF BeginPaint
    <2>7. StackOK(Append(calls, Frame("erase", h, "erase", 0)), focus)  BY <1>0, PushFrame DEF Harmless
    <2> QED BY <1>0, <2>2, <2>4, <2>6, <2>7 DEF FocusInv
  <1>7. CASE EraseReturn
    <2>1. PICK h : h = Last(calls).h  OBVIOUS
    <2>2. /\ win' = [win EXCEPT ![h].paint = FALSE] /\ calls # <<>> /\ calls' = Front(calls)
          /\ UNCHANGED <<focus, told>>
      BY <1>7, <2>1 DEF EraseReturn
    <2>3. TableOK(win') /\ ToldOK(win', told, focus)  BY <1>0, <2>2, WrotePaint
    <2>4. StackOK(calls', focus)  BY <1>0, <2>2, PopOne
    <2> QED BY <2>2, <2>3, <2>4 DEF FocusInv
  <1>8. CASE DefWindowProc  BY <1>8, TableOpsKeep DEF CloseOps
  <1> QED BY <1>1, <1>2, <1>3, <1>4, <1>5, <1>6, <1>7, <1>8 DEF PaintOps

LEMMA LoopOpsKeep == ASSUME FocusInv, ~FocusInKill, TimerOps \/ PostOps \/ LoopOps \/ FocusOps PROVE FocusInv'
  <1>0. TableOK(win) /\ ToldOK(win, told, focus) /\ StackOK(calls, focus)  BY DEF FocusInv
  <1>1. CASE TimerOps
    <2>1. UNCHANGED <<win, told, focus, calls>>
      BY <1>1 DEF TimerOps, KillTimer, SetTimer, Tick, MsgWait
    <2> QED BY <1>0, <2>1 DEF FocusInv
  <1>2. CASE PostOps  BY <1>0, <1>2 DEF PostOps, PostMessage, FocusInv
  <1>3. CASE PostQuitMessage  BY <1>0, <1>3 DEF PostQuitMessage, FocusInv
  <1>4. ASSUME NEW r, PeekMessage(r) PROVE FocusInv'
    <2>1. UNCHANGED <<win, told, focus, calls>>  BY <1>4 DEF PeekMessage
    <2> QED BY <1>0, <2>1 DEF FocusInv
  <1>5. CASE GetMessage
    <2>1. calls' = Append(calls, Frame("getmsg", 0, "none", 0)) /\ UNCHANGED <<win, told, focus>>  BY <1>5 DEF GetMessage
    <2>2. StackOK(calls', focus)  BY <1>0, <2>1, PushFrame DEF Harmless
    <2> QED BY <1>0, <2>1, <2>2 DEF FocusInv
  <1>6. CASE GetMessageStep
    <2>1. calls # <<>> /\ calls' \in {calls, Front(calls)} /\ UNCHANGED <<win, told, focus>>
      BY <1>6 DEF GetMessageStep, Waiting
    <2>2. StackOK(calls', focus)  BY <1>0, <2>1, PopOne
    <2> QED BY <1>0, <2>1, <2>2 DEF FocusInv
  <1>7. CASE DispatchMessage
    <2>1. NoKill(calls)  BY <1>0, <1>7, NotInKill DEF DispatchMessage
    <2>2. /\ UNCHANGED <<win, told, focus>>
          /\ \/ calls' = calls
             \/ calls' = Append(calls, Frame("plain", 0, "timerproc", 0))
             \/ calls' = Append(calls, Frame("dispatch", msg.h, msg.m, 0))
      BY <1>7 DEF DispatchMessage
    <2>3. StackOK(Append(calls, Frame("plain", 0, "timerproc", 0)), focus)  BY <1>0, PushFrame DEF Harmless
    <2>4. StackOK(Append(calls, Frame("dispatch", msg.h, msg.m, 0)), focus)
      <3>1. Frame("dispatch", msg.h, msg.m, 0).kind = "dispatch"  BY DEF Frame
      <3> QED BY <1>0, <2>1, <3>1, PushAny
    <2>5. StackOK(calls', focus)  BY <1>0, <2>2, <2>3, <2>4
    <2> QED BY <1>0, <2>2, <2>5 DEF FocusInv
  <1>8. CASE DispatchReturn
    <2>1. calls # <<>> /\ calls' = Front(calls) /\ UNCHANGED <<win, told, focus>>  BY <1>8 DEF DispatchReturn
    <2> QED BY <1>0, <2>1, PopOne DEF FocusInv
  <1>9. ASSUME NEW n, SetFocus(n) PROVE FocusInv'
    <2>1. MoveFocus(n, calls) /\ win' = win /\ ~InKill  BY <1>9 DEF SetFocus
    <2>2. NoKill(calls)  BY <1>0, <2>1, NotInKill
    <2>3. ToldOK(win, told', focus') /\ StackOK(calls', focus')  BY <1>0, <2>1, <2>2, MoveKeeps
    <2> QED BY <1>0, <2>1, <2>3 DEF FocusInv
  <1>10. CASE KillFocusReturn
    <2>1. /\ calls # <<>> /\ Last(calls).kind = "killfocus" /\ TellFocus(Last(calls).arg, Front(calls))
          /\ UNCHANGED <<win, focus>>
      BY <1>10 DEF KillFocusReturn
    <2>2. StackOK(Front(calls), focus)  BY <1>0, <2>1, PopOne
    <2>3. Last(calls).arg = focus
      <3>1. Len(calls) \in 1 .. Len(calls)
        <4>1. IsSeq(calls)  BY <1>0 DEF StackOK
        <4>2. Len(calls) \in Nat \ {0}  BY <2>1, <4>1, Shortened
        <4> QED BY <4>2
      <3> QED BY <1>0, <2>1, <3>1 DEF StackOK, Last
    <2>4. ToldOK(win, told', focus) /\ StackOK(calls', focus)  BY <1>0, <2>1, <2>2, <2>3, TellKeeps
    <2> QED BY <1>0, <2>1, <2>4 DEF FocusInv
  <1> QED BY <1>1, <1>2, <1>3, <1>4, <1>5, <1>6, <1>7, <1>8, <1>9, <1>10 DEF LoopOps, FocusOps

LEMMA TwoAppended == ASSUME NEW c, IsSeq(c), NEW a, NEW b PROVE c \o <<a, b>> = Append(Append(c, a), b)
  <1>1. PICK S0 : c \in Seq(S0)  BY DEF IsSeq
  <1>2. PICK S : S = S0 \cup {a, b}  OBVIOUS
  <1>3. c \in Seq(S) /\ <<a, b>> \in Seq(S) /\ a \in S /\ b \in S  BY <1>1, <1>2, SeqMonotonic
  <1>4. PICK p : p = Append(Append(c, a), b)  OBVIOUS
  <1>5. p \in Seq(S) /\ Len(p) = Len(c) + 2 /\ Len(c) \in Nat  BY <1>3, <1>4, LenProperties, AppendProperties
  <1>6. \A i \in 1 .. Len(c) + 2 : p[i] = IF i <= Len(c) THEN c[i] ELSE IF i = Len(c) + 1 THEN a ELSE b
    BY <1>3, <1>4, <1>5, AppendProperties
  <1>7. PICK q : q = c \o <<a, b>>  OBVIOUS
  <1>8. q \in Seq(S) /\ Len(q) = Len(c) + 2
        /\ \A i \in 1 .. Len(c) + 2 : q[i] = IF i <= Len(c) THEN c[i] ELSE <<a, b>>[i - Len(c)]
    BY <1>3, <1>7, ConcatProperties
  <1>9. \A i \in 1 .. Len(c) + 2 : q[i] = p[i]  BY <1>5, <1>6, <1>8
  <1>10. q = p  BY <1>5, <1>8, <1>9, SeqEqual
  <1> QED BY <1>4, <1>7, <1>10

LEMMA PopulateKeeps == ASSUME NEW f, NEW w, NEW c, NEW t, TableOK(w), ToldOK(w, t, focus), StackOK(c, focus), NoKill(c),
                              f.items \in Templates, Populate(f, w, c)
                       PROVE  TableOK(win') /\ ToldOK(win', t, focus) /\ StackOK(calls', focus)
  <1>1. TableOK(win') /\ ToldOK(win', t, focus)
    <2>1. PICK v : v = [w EXCEPT ![f.h].dialog = TRUE]  OBVIOUS
    <2>2. TableOK(v) /\ ToldOK(v, t, focus)  BY <2>1, WroteDialog
    <2>3. win' = NewControls(v, f.h, f.items)  BY <2>1 DEF Populate
    <2>4. Len(f.items) \in Nat  BY DialogsAssumption, LenProperties
    <2> QED BY <2>2, <2>3, <2>4, ControlsKeep
  <1>2. PICK a : a = Frame("modal", f.h, "none", 0)  OBVIOUS
  <1>3. PICK b : b = [Frame("init", f.h, "init", 0) EXCEPT !.box = TRUE]  OBVIOUS
  <1>4. a.kind = "modal" /\ b.kind = "init" /\ Frame("init", f.h, "init", 0).kind = "init"  BY <1>2, <1>3 DEF Frame
  <1>5. StackOK(Append(c, Frame("init", f.h, "init", 0)), focus)  BY <1>4, PushAny
  <1>6. StackOK(Append(Append(c, a), b), focus)
    <2>1. StackOK(Append(c, a), focus) /\ NoKill(Append(c, a))  BY <1>4, PushAny
    <2> QED BY <1>4, <2>1, PushAny
  <1>7. c \o <<a, b>> = Append(Append(c, a), b)  BY TwoAppended DEF StackOK
  <1>8. StackOK(calls', focus)  BY <1>2, <1>3, <1>5, <1>6, <1>7 DEF Populate
  <1> QED BY <1>1, <1>8

LEMMA DialogOpsKeep == ASSUME FocusInv, ~FocusInKill, ~SilentClick, DialogOps PROVE FocusInv'
  <1>0. TableOK(win) /\ ToldOK(win, told, focus) /\ StackOK(calls, focus)  BY DEF FocusInv
  <1>1. ASSUME NEW t \in Templates, NEW box \in BOOLEAN, CreateDialog(t, box, TRUE) PROVE FocusInv'
    <2>1. CASE UNCHANGED <<win, focus, calls, told>>  BY <1>0, <2>1 DEF FocusInv
    <2>2. CASE ~(box /\ modal.h # 0)
      <3>1. PICK h : h = Least(Free)  OBVIOUS
      <3>2. PICK r : r = Created(h, 1, 0, [child |-> FALSE, visible |-> TRUE], "dialog")  OBVIOUS
      <3>3. PICK w : w = [win EXCEPT ![h] = r]  OBVIOUS
      <3>4. PICK f : f = [Frame("dlgcbt", h, "cbt", 0) EXCEPT !.items = t, !.box = box]  OBVIOUS
      <3>5. /\ IF hook THEN win' = w /\ calls' = Append(calls, f) ELSE Populate(f, w, calls)
            /\ told' = told \ {h} /\ focus' = focus /\ ~InKill
        BY <1>1, <2>2, <3>1, <3>2, <3>3, <3>4 DEF CreateDialog
      <3>6. NoKill(calls)  BY <1>0, <3>5, NotInKill
      <3>7. IsWin(r)  BY <3>2, CreatedIsWin
      <3>8. ToldOK(win, told \ {h}, focus)  BY <1>0, FewerTold
      <3>9. TableOK(w) /\ ToldOK(w, told \ {h}, focus)  BY <1>0, <3>3, <3>7, <3>8, OneWindow
      <3>10. f.kind = "dlgcbt" /\ f.items = t  BY <3>4 DEF Frame
      <3>11. CASE hook
        <4>1. StackOK(Append(calls, f), focus)  BY <1>0, <3>6, <3>10, PushAny
        <4> QED BY <3>5, <3>9, <3>11, <4>1 DEF FocusInv
      <3>12. CASE ~hook
        <4>1. TableOK(win') /\ ToldOK(win', told \ {h}, focus) /\ StackOK(calls', focus)
          BY <1>0, <3>5, <3>6, <3>9, <3>10, <3>12, PopulateKeeps
        <4> QED BY <3>5, <4>1 DEF FocusInv
      <3> QED BY <3>11, <3>12
    <2> QED BY <1>1, <2>1, <2>2 DEF CreateDialog
  <1>2. CASE DlgCbtReturn
    <2>1. PICK f : f = Last(calls)  OBVIOUS
    <2>2. calls # <<>> /\ f.kind = "dlgcbt" /\ Populate(f, win, Front(calls)) /\ UNCHANGED <<focus, told>>
      BY <1>2, <2>1 DEF DlgCbtReturn
    <2>3. StackOK(Front(calls), focus) /\ NoKill(Front(calls))
      <3>1. f.kind \notin Harmless  BY <2>2 DEF Harmless
      <3> QED BY <1>0, <2>1, <2>2, <3>1, PopOne
    <2>4. f.items \in Templates
      <3>1. IsSeq(calls)  BY <1>0 DEF StackOK
      <3>2. Len(calls) \in Nat \ {0}  BY <2>2, <3>1, Shortened
      <3> QED BY <1>0, <2>1, <2>2, <3>2 DEF StackOK, Last
    <2>5. TableOK(win') /\ ToldOK(win', told, focus) /\ StackOK(calls', focus)
      BY <1>0, <2>2, <2>3, <2>4, PopulateKeeps
    <2> QED BY <2>2, <2>5 DEF FocusInv
  <1>3. ASSUME NEW ret \in BOOLEAN, InitReturn(ret) PROVE FocusInv'
    <2>1. calls # <<>> /\ Last(calls).kind = "init" /\ win' = win  BY <1>3 DEF InitReturn
    <2>2. StackOK(Front(calls), focus) /\ NoKill(Front(calls))
      <3>1. Last(calls).kind \notin Harmless  BY <2>1 DEF Harmless
      <3> QED BY <1>0, <2>1, <3>1, PopOne
    <2>3. CASE calls' = Front(calls) /\ UNCHANGED <<focus, told>>  BY <1>0, <2>1, <2>2, <2>3 DEF FocusInv
    <2>4. ASSUME NEW n, MoveFocus(n, Front(calls)) PROVE FocusInv'
      <3>1. ToldOK(win, told', focus') /\ StackOK(calls', focus')  BY <1>0, <2>2, <2>4, MoveKeeps
      <3> QED BY <1>0, <2>1, <3>1 DEF FocusInv
    <2> QED BY <1>3, <2>3, <2>4 DEF InitReturn
  <1>4. CASE EndDialog  BY <1>0, <1>4 DEF EndDialog, vars, FocusInv
  <1>5. CASE ModalDone
    <2>1. PICK D : D = DialogWindows(Last(calls).h)  OBVIOUS
    <2>2. /\ win' = [h \in Hwnd |-> IF h \in D THEN [win[h] EXCEPT !.used = FALSE] ELSE win[h]]
          /\ told' = told \ D /\ calls # <<>> /\ calls' = Front(calls) /\ focus' = focus
      BY <1>5, <2>1 DEF ModalDone
    <2>3. ToldOK(win, told \ D, focus)  BY <1>0, FewerTold
    <2>4. ASSUME NEW h \in Hwnd PROVE IsWin(win'[h]) /\ (h \notin D => win'[h] = win[h])
      <3>1. IsWin(win[h])  BY <1>0 DEF TableOK
      <3>2. IsWin([win[h] EXCEPT !.used = FALSE])  BY <3>1, FieldWritten
      <3> QED BY <2>2, <3>1, <3>2
    <2>5. win' = [h \in Hwnd |-> win'[h]]  BY <2>2
    <2>6. TableOK(win')  BY <2>4, <2>5 DEF TableOK
    <2>7. ToldOK(win', told \ D, focus)  BY <2>3, <2>4 DEF ToldOK
    <2>8. StackOK(calls', focus)  BY <1>0, <2>2, PopOne
    <2> QED BY <2>2, <2>6, <2>7, <2>8 DEF FocusInv
  <1>6. CASE ModalStep
    <2>1. calls # <<>> /\ Last(calls).kind = "modal" /\ UNCHANGED <<win, focus, told>>
          /\ calls' \in {calls, Append(calls, Frame("fetched", 0, "none", 0))}
      BY <1>6 DEF ModalStep
    <2>2. NoKill(calls)
      <3>1. Last(calls).kind \notin Harmless /\ Last(calls).kind # "killfocus"  BY <2>1 DEF Harmless
      <3>2. NoKill(Front(calls))  BY <1>0, <2>1, <3>1, PopOne
      <3>3. Len(calls) \in Nat \ {0} /\ Len(Front(calls)) = Len(calls) - 1
            /\ \A i \in 1 .. Len(calls) - 1 : Front(calls)[i] = calls[i]
        BY <1>0, <2>1, Shortened DEF StackOK
      <3> QED BY <3>1, <3>2, <3>3 DEF NoKill, Last
    <2>3. Frame("fetched", 0, "none", 0).kind = "fetched"  BY DEF Frame
    <2>4. StackOK(Append(calls, Frame("fetched", 0, "none", 0)), focus)  BY <1>0, <2>2, <2>3, PushAny
    <2>5. StackOK(calls', focus)  BY <1>0, <2>1, <2>4
    <2> QED BY <1>0, <2>1, <2>5 DEF FocusInv
  <1>7. CASE ModalDispatch
    <2>1. calls # <<>> /\ Last(calls).kind = "fetched" /\ win' = win  BY <1>7 DEF ModalDispatch
    <2>2. StackOK(Front(calls), focus) /\ NoKill(Front(calls))
      <3>1. Last(calls).kind \notin Harmless  BY <2>1 DEF Harmless
      <3> QED BY <1>0, <2>1, <3>1, PopOne
    <2>3. CASE calls' = Append(Front(calls), Frame("modalmsg", msg.h, msg.m, 0)) /\ UNCHANGED <<focus, told>>
      <3>1. Frame("modalmsg", msg.h, msg.m, 0).kind = "modalmsg"  BY DEF Frame
      <3>2. StackOK(calls', focus)  BY <2>2, <2>3, <3>1, PushAny
      <3> QED BY <1>0, <2>1, <2>3, <3>2 DEF FocusInv
    <2>4. CASE calls' = Front(calls) /\ UNCHANGED <<focus, told>>  BY <1>0, <2>1, <2>2, <2>4 DEF FocusInv
    <2>5. ASSUME NEW d, HitTest(d, Front(calls)) PROVE FocusInv'
      <3>1. ToldOK(win, told', focus') /\ StackOK(calls', focus')  BY <1>0, <2>2, <2>5, ClickKeeps
      <3> QED BY <1>0, <2>1, <3>1 DEF FocusInv
    <2> QED BY <1>7, <2>3, <2>4, <2>5 DEF ModalDispatch
  <1>8. CASE ClickReturn
    <2>1. calls # <<>> /\ Last(calls).kind \in {"modalmsg", "dispatch"} /\ win' = win  BY <1>8 DEF ClickReturn
    <2>2. StackOK(Front(calls), focus) /\ NoKill(Front(calls))
      <3>1. Last(calls).kind \notin Harmless  BY <2>1 DEF Harmless
      <3> QED BY <1>0, <2>1, <3>1, PopOne
    <2>3. CASE calls' = Front(calls) /\ UNCHANGED <<focus, told>>  BY <1>0, <2>1, <2>2, <2>3 DEF FocusInv
    <2>4. ASSUME NEW d, HitTest(d, Front(calls)) PROVE FocusInv'
      <3>1. ToldOK(win, told', focus') /\ StackOK(calls', focus')  BY <1>0, <2>2, <2>4, ClickKeeps
      <3> QED BY <1>0, <2>1, <3>1 DEF FocusInv
    <2> QED BY <1>8, <2>3, <2>4 DEF ClickReturn
  <1>9. ASSUME NEW d \in Hwnd, IsDialogMessage(d) PROVE FocusInv'
    <2>1. win' = win /\ ~InKill  BY <1>9 DEF IsDialogMessage
    <2>2. NoKill(calls)  BY <1>0, <2>1, NotInKill
    <2>3. CASE calls' = calls /\ UNCHANGED <<focus, told>>  BY <1>0, <2>1, <2>3 DEF FocusInv
    <2>4. CASE calls' = Append(calls, Frame("plain", d, "command", 1)) /\ UNCHANGED <<focus, told>>
      <3>1. StackOK(calls', focus)  BY <1>0, <2>4, PushFrame DEF Harmless
      <3> QED BY <1>0, <2>1, <2>4, <3>1 DEF FocusInv
    <2>5. ASSUME NEW n, MoveFocus(n, calls) PROVE FocusInv'
      <3>1. ToldOK(win, told', focus') /\ StackOK(calls', focus')  BY <1>0, <2>2, <2>5, MoveKeeps
      <3> QED BY <1>0, <2>1, <3>1 DEF FocusInv
    <2> QED BY <1>9, <2>3, <2>4, <2>5 DEF IsDialogMessage
  <1> QED BY <1>1, <1>2, <1>3, <1>4, <1>5, <1>6, <1>7, <1>8, <1>9 DEF DialogOps

LEMMA FocusAtStart == ASSUME DlgInit PROVE FocusInv
  <1>1. win = [h \in Hwnd |-> NoWin] /\ told = {} /\ calls = <<>>  BY DEF DlgInit, UserInit
  <1>2. IsWin(NoWin)  BY WinMade, Zenon DEF NoWin
  <1>3. TableOK(win)  BY <1>1, <1>2 DEF TableOK
  <1>4. ToldOK(win, told, focus)  BY <1>1 DEF ToldOK
  <1>5. StackOK(calls, focus)
    <2>1. calls \in Seq({}) /\ Len(calls) = 0  BY <1>1
    <2> QED BY <2>1 DEF StackOK, IsSeq
  <1> QED BY <1>3, <1>4, <1>5 DEF FocusInv

LEMMA FocusStep == ASSUME ~FocusInKill, ~SilentClick, FocusInv, [DlgNext]_dlgVars PROVE FocusInv'
  <1>1. CASE UserOps
    BY <1>1, WindowOpsKeep, TableOpsKeep, PaintOpsKeep, LoopOpsKeep, Zenon DEF UserOps
  <1>2. CASE DialogOps  BY <1>2, DialogOpsKeep
  <1>3. CASE UNCHANGED dlgVars
    <2>1. UNCHANGED <<win, told, focus, calls>>  BY <1>3 DEF dlgVars, vars
    <2> QED BY <2>1 DEF FocusInv
  <1> QED BY <1>1, <1>2, <1>3, Zenon DEF DlgNext, Aborted

\* When every handler has returned, at most the window GetFocus names believes
\* it has the focus: however window procedures nest, dialogs open and close,
\* and windows are destroyed, for any number of windows and any depth, in a
\* program whose WM_KILLFOCUS handlers neither move the focus nor dispatch
\* (u32_set_focus sends WM_SETFOCUS to the window it was called with, not to
\* the one that has the focus by then) and whose dialog controls are not clicked
\* while a window that was told it has the focus has it (the click takes the
\* focus from it without a WM_KILLFOCUS).
THEOREM OneFocus == ASSUME ~FocusInKill, ~SilentClick PROVE DlgSpec => []FocusTold
  <1>1. DlgInit => FocusInv  BY FocusAtStart
  <1>2. FocusInv /\ [DlgNext]_dlgVars => FocusInv'  BY FocusStep
  <1>3. FocusInv => FocusTold  BY DEF FocusInv, ToldOK, FocusTold
  <1> QED BY <1>1, <1>2, <1>3, PTL DEF DlgSpec

-----------------------------------------------------------------------------
(* The walk over the controls of a dialog.                                  *)

\* The items among the first k slots, in slot order and each once.
Walk(d, tab, k, s) ==
    /\ s \in Seq(1 .. k)
    /\ \A i \in 1 .. Len(s) : DlgItem(d, tab, s[i])
    /\ \A i, j \in 1 .. Len(s) : i < j => s[i] < s[j]
    /\ \A c \in 1 .. k : DlgItem(d, tab, c) => \E i \in 1 .. Len(s) : s[i] = c

LEMMA WalkOn == ASSUME NEW d, NEW tab, NEW k \in Nat, NEW s, Walk(d, tab, k, s)
                PROVE  Walk(d, tab, k + 1, IF DlgItem(d, tab, k + 1) THEN Append(s, k + 1) ELSE s)
  <1>1. s \in Seq(1 .. k + 1) /\ Len(s) \in Nat /\ \A i \in 1 .. Len(s) : s[i] \in 1 .. k
    <2>1. s \in Seq(1 .. k)  BY DEF Walk
    <2>2. 1 .. k \subseteq 1 .. k + 1  OBVIOUS
    <2> QED BY <2>1, <2>2, SeqMonotonic, LenProperties, ElementOfSeq
  <1>2. CASE ~DlgItem(d, tab, k + 1)
    <2>1. \A c \in 1 .. k + 1 : DlgItem(d, tab, c) => c \in 1 .. k  BY <1>2
    <2> QED BY <1>1, <1>2, <2>1 DEF Walk
  <1>3. CASE DlgItem(d, tab, k + 1)
    <2>1. PICK t : t = Append(s, k + 1)  OBVIOUS
    <2>2. /\ t \in Seq(1 .. k + 1) /\ Len(t) = Len(s) + 1 /\ t[Len(s) + 1] = k + 1
          /\ \A i \in 1 .. Len(s) : t[i] = s[i]
      <3>1. k + 1 \in 1 .. k + 1  OBVIOUS
      <3> QED BY <1>1, <2>1, <3>1, AppendProperties
    <2>3. \A i \in 1 .. Len(t) : i = Len(s) + 1 \/ i \in 1 .. Len(s)  BY <1>1, <2>2
    <2>4. \A i \in 1 .. Len(t) : DlgItem(d, tab, t[i])
      <3> SUFFICES ASSUME NEW i \in 1 .. Len(t) PROVE DlgItem(d, tab, t[i])  OBVIOUS
      <3>1. CASE i = Len(s) + 1
        <4>1. t[i] = k + 1  BY <2>2, <3>1
        <4> QED BY <1>3, <4>1
      <3>2. CASE i \in 1 .. Len(s)
        <4>1. t[i] = s[i]  BY <2>2, <3>2
        <4>2. DlgItem(d, tab, s[i])  BY <3>2 DEF Walk
        <4> QED BY <4>1, <4>2
      <3> QED BY <2>3, <3>1, <3>2
    <2>5. \A i, j \in 1 .. Len(t) : i < j => t[i] < t[j]
      <3> SUFFICES ASSUME NEW i \in 1 .. Len(t), NEW j \in 1 .. Len(t), i < j PROVE t[i] < t[j]  OBVIOUS
      <3>1. i \in 1 .. Len(s) /\ t[i] = s[i] /\ s[i] \in 1 .. k  BY <1>1, <2>2, <2>3
      <3>2. CASE j = Len(s) + 1  BY <2>2, <3>1, <3>2
      <3>3. CASE j \in 1 .. Len(s)
        <4>1. s[i] < s[j]  BY <3>1, <3>3 DEF Walk
        <4> QED BY <2>2, <3>1, <3>3, <4>1
      <3> QED BY <2>3, <3>2, <3>3
    <2>6. ASSUME NEW c \in 1 .. k + 1, DlgItem(d, tab, c) PROVE \E i \in 1 .. Len(t) : t[i] = c
      <3>1. CASE c = k + 1
        <4>1. Len(s) + 1 \in 1 .. Len(t)  BY <1>1, <2>2
        <4> QED BY <2>2, <3>1, <4>1
      <3>2. CASE c # k + 1
        <4>1. c \in 1 .. k  BY <3>2
        <4>2. PICK i \in 1 .. Len(s) : s[i] = c  BY <2>6, <4>1 DEF Walk
        <4>3. i \in 1 .. Len(t) /\ t[i] = c  BY <1>1, <2>2, <4>2
        <4> QED BY <4>3
      <3> QED BY <3>1, <3>2
    <2>7. Walk(d, tab, k + 1, t)  BY <2>2, <2>4, <2>5, <2>6 DEF Walk
    <2> QED BY <1>3, <2>1, <2>7
  <1> QED BY <1>2, <1>3

Walks(d, tab, m, f) ==
    f = [n \in 0 .. m |-> IF n = 0 THEN <<>> ELSE IF DlgItem(d, tab, n) THEN Append(f[n - 1], n) ELSE f[n - 1]]

LEMMA WalksExist == ASSUME NEW d, NEW tab, NEW m \in Nat PROVE \A n \in 0 .. m : \E f : Walks(d, tab, n, f)
  <1> DEFINE Bad == {n \in 0 .. m : ~ \E f : Walks(d, tab, n, f)}
             Next1(g, n) == IF DlgItem(d, tab, n) THEN Append(g[n - 1], n) ELSE g[n - 1]
  <1> SUFFICES ASSUME Bad # {} PROVE FALSE  OBVIOUS
  <1>1. PICK n \in Bad : \A j \in Bad : n <= j
    <2>1. Bad \subseteq Nat  OBVIOUS
    <2> QED BY <2>1, LeastIndex, Zenon
  <1>2. n \in 0 .. m /\ ~ \E f : Walks(d, tab, n, f)  OBVIOUS
  <1>3. CASE n = 0
    <2>1. Walks(d, tab, 0, [k \in 0 .. 0 |-> <<>>])  BY DEF Walks
    <2> QED BY <1>2, <1>3, <2>1
  <1>4. CASE n # 0
    <2>1. n - 1 \in 0 .. m /\ n - 1 \notin Bad  BY <1>1, <1>2, <1>4
    <2>2. PICK g : Walks(d, tab, n - 1, g)  BY <2>1
    <2>3. \A k \in 0 .. n - 1 : g[k] = IF k = 0 THEN <<>> ELSE Next1(g, k)  BY <2>2 DEF Walks
    <2> HIDE DEF Next1
    <2> DEFINE f == [k \in 0 .. n |-> IF k = n THEN Next1(g, n) ELSE g[k]]
    <2>4. ASSUME NEW k \in 0 .. n PROVE f[k] = IF k = 0 THEN <<>> ELSE Next1(f, k)
      <3>1. k # 0 => f[k - 1] = g[k - 1]  BY <1>2
      <3>2. k # 0 => Next1(f, k) = Next1(g, k)  BY <3>1 DEF Next1
      <3>3. CASE k = n
        <4>1. f[k] = Next1(g, n)  BY <3>3
        <4> QED BY <1>4, <3>2, <3>3, <4>1
      <3>4. CASE k # n
        <4>1. k \in 0 .. n - 1 /\ f[k] = g[k]  BY <1>2, <3>4
        <4> QED BY <2>3, <3>2, <4>1
      <3> QED BY <3>3, <3>4
    <2>5. f = [k \in 0 .. n |-> IF k = 0 THEN <<>> ELSE Next1(f, k)]  BY <2>4
    <2>6. Walks(d, tab, n, f)  BY <2>5 DEF Walks, Next1
    <2> QED BY <1>2, <2>6
  <1> QED BY <1>3, <1>4

LEMMA ItemsWalk == ASSUME NEW d, NEW tab PROVE Walk(d, tab, MaxWin, DlgItems(d, tab))
  <1>0. MaxWin \in Nat  BY WindowsAssumption
  <1> DEFINE kids == CHOOSE f : f = [n \in 0 .. MaxWin |->
                         IF n = 0 THEN <<>> ELSE IF DlgItem(d, tab, n) THEN Append(f[n - 1], n) ELSE f[n - 1]]
  <1>1. \E f : f = [n \in 0 .. MaxWin |->
                         IF n = 0 THEN <<>> ELSE IF DlgItem(d, tab, n) THEN Append(f[n - 1], n) ELSE f[n - 1]]
    <2>1. MaxWin \in 0 .. MaxWin  BY <1>0
    <2>2. \E f : Walks(d, tab, MaxWin, f)  BY <1>0, <2>1, WalksExist
    <2> QED BY <2>2 DEF Walks
  <1>2. kids = [n \in 0 .. MaxWin |->
                    IF n = 0 THEN <<>> ELSE IF DlgItem(d, tab, n) THEN Append(kids[n - 1], n) ELSE kids[n - 1]]
    BY <1>1, Zenon
  <1>3. DlgItems(d, tab) = kids[MaxWin]  BY Zenon DEF DlgItems
  <1> HIDE DEF kids
  <1> DEFINE Bad == {k \in 0 .. MaxWin : ~Walk(d, tab, k, kids[k])}
  <1>4. Walk(d, tab, 0, kids[0])
    <2>1. kids[0] = <<>>  BY <1>0, <1>2
    <2>2. <<>> \in Seq(1 .. 0) /\ Len(<<>>) = 0  OBVIOUS
    <2> QED BY <2>1, <2>2 DEF Walk
  <1>5. ASSUME NEW k \in 1 .. MaxWin, Walk(d, tab, k - 1, kids[k - 1]) PROVE Walk(d, tab, k, kids[k])
    <2>1. PICK s : s = kids[k - 1]  OBVIOUS
    <2>2. kids[k] = IF DlgItem(d, tab, k) THEN Append(s, k) ELSE s
      <3>1. k \in 0 .. MaxWin /\ k # 0  BY <1>0
      <3>2. kids[k] = IF k = 0 THEN <<>> ELSE IF DlgItem(d, tab, k) THEN Append(kids[k - 1], k) ELSE kids[k - 1]
        BY <1>2, <3>1, Zenon
      <3> QED BY <2>1, <3>1, <3>2, Zenon
    <2>3. PICK j : j = k - 1  OBVIOUS
    <2>4. j \in Nat /\ k = j + 1  BY <1>0, <2>3
    <2>5. Walk(d, tab, j, s)  BY <1>5, <2>1, <2>3
    <2>6. Walk(d, tab, j + 1, IF DlgItem(d, tab, j + 1) THEN Append(s, j + 1) ELSE s)  BY <2>4, <2>5, WalkOn
    <2> QED BY <2>2, <2>4, <2>6
  <1>6. Bad = {}
    <2> SUFFICES ASSUME Bad # {} PROVE FALSE  OBVIOUS
    <2>1. PICK i \in Bad : \A j \in Bad : i <= j
      <3>1. Bad \subseteq Nat  BY <1>0
      <3> QED BY <3>1, LeastIndex, Zenon
    <2>2. i # 0  BY <1>4
    <2>3. i \in 1 .. MaxWin /\ i - 1 \in 0 .. MaxWin /\ i - 1 \notin Bad  BY <1>0, <2>1, <2>2
    <2>4. Walk(d, tab, i - 1, kids[i - 1])  BY <2>3
    <2>5. Walk(d, tab, i, kids[i])  BY <1>5, <2>3, <2>4
    <2> QED BY <2>5
  <1>7. Walk(d, tab, MaxWin, kids[MaxWin])
    <2>1. MaxWin \in 0 .. MaxWin  BY <1>0
    <2> QED BY <1>6, <2>1
  <1> QED BY <1>3, <1>7

LEMMA WrapOnce == ASSUME NEW L \in Nat, L > 0, NEW x \in Int, 0 <= x, x < L + L PROVE x % L = IF x < L THEN x ELSE x - L
  OBVIOUS

\* The index after k and the index before k, round the end of L items.
LEMMA RoundWalk == ASSUME NEW L \in Nat, NEW k \in 1 .. L
    PROVE /\ (k % L) + 1 = (IF k = L THEN 1 ELSE k + 1)
          /\ ((k - 2 + L) % L) + 1 = (IF k = 1 THEN L ELSE k - 1)
  <1>1. L > 0 /\ L \in Int  OBVIOUS
  <1>2. ASSUME NEW x \in Int, 0 <= x, x < L + L PROVE x % L = IF x < L THEN x ELSE x - L
    <2>1. L \in Nat /\ L > 0 /\ x \in Int  BY <1>1
    <2> QED BY <1>2, <2>1, WrapOnce
  <1>3. k % L = IF k = L THEN 0 ELSE k
    <2>1. k \in Int /\ 0 <= k /\ k < L + L  BY <1>1
    <2>2. k % L = IF k < L THEN k ELSE k - L  BY <1>2, <2>1
    <2> QED BY <1>1, <2>2
  <1>4. (k - 2 + L) % L = IF k = 1 THEN L - 1 ELSE k - 2
    <2>1. PICK x : x = k - 2 + L  OBVIOUS
    <2>2. x \in Int /\ 0 <= x /\ x < L + L  BY <1>1, <2>1
    <2>3. x % L = IF x < L THEN x ELSE x - L  BY <1>2, <2>2
    <2> QED BY <1>1, <2>1, <2>3
  <1> QED BY <1>1, <1>3, <1>4

TabStops(d) == DlgItems(d, TRUE)

LEMMA NextAt == ASSUME NEW d, NEW kids, kids = TabStops(d), Live(d), NEW k \in 1 .. Len(kids)
    PROVE /\ NextDlgItem(d, kids[k], TRUE, TRUE) = kids[IF k = 1 THEN Len(kids) ELSE k - 1]
          /\ NextDlgItem(d, kids[k], FALSE, TRUE) = kids[IF k = Len(kids) THEN 1 ELSE k + 1]
  <1>1. Walk(d, TRUE, MaxWin, kids)  BY ItemsWalk DEF TabStops
  <1>2. kids \in Seq(1 .. MaxWin) /\ Len(kids) \in Nat /\ DOMAIN kids = 1 .. Len(kids)  BY <1>1, LenProperties DEF Walk
  <1>3. kids # <<>>
    <2>1. Len(kids) # 0  BY <1>2
    <2> QED BY <1>2, <2>1, EmptySeq
  <1>4. {i \in DOMAIN kids : kids[i] = kids[k]} = {k}
    <2>1. ASSUME NEW i \in 1 .. Len(kids), kids[i] = kids[k] PROVE i = k
      <3>1. kids[i] \in 1 .. MaxWin /\ kids[k] \in 1 .. MaxWin  BY <1>2, ElementOfSeq
      <3>2. \A x, y \in 1 .. Len(kids) : x < y => kids[x] < kids[y]  BY <1>1 DEF Walk
      <3>3. ~(kids[i] < kids[k]) /\ ~(kids[k] < kids[i])  BY <2>1, <3>1
      <3>4. ~(i < k) /\ ~(k < i)  BY <3>2, <3>3
      <3> QED BY <1>2, <3>4
    <2> QED BY <1>2, <2>1
  <1>5. Least({k}) = k  BY DEF Least
  <1>6. PICK p : p = {i \in DOMAIN kids : kids[i] = kids[k]}  OBVIOUS
  <1>7. p # {} /\ Least(p) = k  BY <1>4, <1>5, <1>6
  <1>8. /\ NextDlgItem(d, kids[k], TRUE, TRUE) = kids[((k - 2 + Len(kids)) % Len(kids)) + 1]
        /\ NextDlgItem(d, kids[k], FALSE, TRUE) = kids[(k % Len(kids)) + 1]
    BY <1>3, <1>6, <1>7, Zenon DEF NextDlgItem, TabStops
  <1>9. ((k - 2 + Len(kids)) % Len(kids)) + 1 = IF k = 1 THEN Len(kids) ELSE k - 1  BY <1>2, RoundWalk
  <1>10. (k % Len(kids)) + 1 = IF k = Len(kids) THEN 1 ELSE k + 1  BY <1>2, RoundWalk
  <1> QED BY <1>8, <1>9, <1>10

\* Shift-Tab undoes Tab in every state of the table, not only in those that are reached.
LEMMA TabsInvert == TabInverse
  <1> SUFFICES ASSUME NEW d \in Hwnd, NEW c \in Hwnd, NEW n, n = NextDlgItem(d, c, FALSE, TRUE)
               PROVE  /\ win[c].used /\ win[c].parent = d /\ win[c].visible /\ win[c].enabled /\ win[c].tab /\ Live(d)
                             => n # 0 /\ NextDlgItem(d, n, TRUE, TRUE) = c
                      /\ n # 0 => win[n].used /\ win[n].visible /\ win[n].enabled
    BY DEF TabInverse
  <1>1. PICK kids : kids = DlgItems(d, TRUE)  OBVIOUS
  <1>2. Walk(d, TRUE, MaxWin, kids)  BY <1>1, ItemsWalk
  <1>3. kids \in Seq(1 .. MaxWin) /\ Len(kids) \in Nat /\ DOMAIN kids = 1 .. Len(kids)  BY <1>2, LenProperties DEF Walk
  <1>4. ASSUME NEW k \in 1 .. Len(kids) PROVE kids[k] # 0 /\ win[kids[k]].used /\ win[kids[k]].visible /\ win[kids[k]].enabled
    <2>1. kids[k] \in 1 .. MaxWin  BY <1>3, ElementOfSeq
    <2>2. DlgItem(d, TRUE, kids[k])  BY <1>2 DEF Walk
    <2> QED BY <2>1, <2>2, WindowsAssumption DEF DlgItem
  <1>5. CASE ~Live(d) \/ kids = <<>>
    <2>1. n = 0  BY <1>1, <1>5, Zenon DEF NextDlgItem
    <2>2. ASSUME win[c].used, win[c].parent = d, win[c].visible, win[c].enabled, win[c].tab PROVE ~Live(d)
      <3>1. DlgItem(d, TRUE, c)  BY <2>2 DEF DlgItem
      <3>2. \E i \in 1 .. Len(kids) : kids[i] = c  BY <1>2, <3>1 DEF Walk, Hwnd
      <3>3. kids # <<>>  BY <3>2
      <3> QED BY <1>5, <3>3
    <2> QED BY <2>1, <2>2
  <1>6. CASE Live(d) /\ kids # <<>>
    <2>1. Len(kids) \in 1 .. Len(kids) /\ 1 \in 1 .. Len(kids)
      <3>1. Len(kids) # 0  BY <1>3, <1>6, EmptySeq
      <3> QED BY <1>3, <3>1
    <2>2. CASE \E k \in 1 .. Len(kids) : kids[k] = c
      <3>1. PICK k \in 1 .. Len(kids) : kids[k] = c  BY <2>2
      <3>2. PICK j \in 1 .. Len(kids) : j = (IF k = Len(kids) THEN 1 ELSE k + 1) /\ (IF j = 1 THEN Len(kids) ELSE j - 1) = k
        <4>1. PICK m : m = Len(kids)  OBVIOUS
        <4>2. m \in Nat /\ k \in 1 .. m  BY <1>3, <4>1
        <4>3. CASE k = m
          <5>1. 1 \in 1 .. m  BY <4>2
          <5> QED BY <4>1, <4>2, <4>3, <5>1
        <4>4. CASE k # m
          <5>1. k + 1 \in 1 .. m /\ k + 1 # 1 /\ k + 1 - 1 = k  BY <4>2, <4>4
          <5> QED BY <4>1, <4>4, <5>1
        <4> QED BY <4>3, <4>4
      <3>3. j \in 1 .. Len(kids)  OBVIOUS
      <3>4. n = kids[j]
        <4>1. NextDlgItem(d, kids[k], FALSE, TRUE) = kids[IF k = Len(kids) THEN 1 ELSE k + 1]  BY <1>1, <1>6, NextAt DEF TabStops
        <4> QED BY <3>1, <3>2, <4>1
      <3>5. NextDlgItem(d, kids[j], TRUE, TRUE) = kids[IF j = 1 THEN Len(kids) ELSE j - 1]  BY <1>1, <1>6, <3>3, NextAt DEF TabStops
      <3>6. (IF j = 1 THEN Len(kids) ELSE j - 1) = k  BY <3>2
      <3>7. n # 0 /\ win[n].used /\ win[n].visible /\ win[n].enabled  BY <1>4, <3>3, <3>4
      <3>8. NextDlgItem(d, n, TRUE, TRUE) = c  BY <3>1, <3>4, <3>5, <3>6
      <3> QED BY <3>7, <3>8
    <2>3. CASE ~ \E k \in 1 .. Len(kids) : kids[k] = c
      <3>1. ~DlgItem(d, TRUE, c)  BY <1>2, <2>3 DEF Walk, Hwnd
      <3>2. ~(win[c].used /\ win[c].parent = d /\ win[c].visible /\ win[c].enabled /\ win[c].tab)  BY <3>1 DEF DlgItem
      <3>3. PICK p : p = {k \in DOMAIN kids : kids[k] = c}  OBVIOUS
      <3>4. p = {}  BY <1>3, <2>3, <3>3
      <3>5. n = kids[1]  BY <1>1, <1>6, <3>3, <3>4, Zenon DEF NextDlgItem
      <3> QED BY <1>4, <2>1, <3>2, <3>5
    <2> QED BY <2>2, <2>3
  <1> QED BY <1>5, <1>6

-----------------------------------------------------------------------------
(* The timers.                                                              *)

TimerOf(S) == [used : BOOLEAN, h : S, id : S, elapse : Nat, proc : S, left : Nat]
IsTimer(r) == (\E S : r \in TimerOf(S)) /\ r.left <= r.elapse
TimersOK(t) == t = [i \in 1 .. MaxTimer |-> t[i]] /\ \A i \in 1 .. MaxTimer : IsTimer(t[i])
Unique(t) == \A i, j \in 1 .. MaxTimer : t[i].used /\ t[j].used /\ t[i].h = t[j].h /\ t[i].id = t[j].id => i = j
TimerInv == TimersOK(timer) /\ Unique(timer)

LEMMA TimerDomain == ASSUME NEW t, TimersOK(t) PROVE DOMAIN t = 1 .. MaxTimer
  BY DEF TimersOK

\* Timers that keep their window, their id and whether they are used.
LEMMA SameTimers == ASSUME NEW t, NEW u, Unique(t), u = [i \in 1 .. MaxTimer |-> u[i]],
                           \A i \in 1 .. MaxTimer : IsTimer(u[i]) /\ u[i].h = t[i].h /\ u[i].id = t[i].id /\ (u[i].used => t[i].used)
                    PROVE  TimersOK(u) /\ Unique(u)
  BY DEF TimersOK, Unique

LEMMA TimerLeft == ASSUME NEW r, IsTimer(r), NEW n \in Nat, n <= r.elapse
    PROVE LET q == [r EXCEPT !.left = n] IN IsTimer(q) /\ q.h = r.h /\ q.id = r.id /\ q.used = r.used
  <1>1. PICK S : r \in TimerOf(S)  BY DEF IsTimer
  <1>2. PICK q : q = [r EXCEPT !.left = n]  OBVIOUS
  <1>3. q \in TimerOf(S) /\ q.h = r.h /\ q.id = r.id /\ q.used = r.used /\ q.left = n /\ q.elapse = r.elapse
    BY <1>1, <1>2 DEF TimerOf
  <1> QED BY <1>2, <1>3 DEF IsTimer

LEMMA TimerOff == ASSUME NEW r, IsTimer(r)
    PROVE LET q == [r EXCEPT !.used = FALSE] IN IsTimer(q) /\ q.h = r.h /\ q.id = r.id /\ ~q.used
  <1>1. PICK S : r \in TimerOf(S)  BY DEF IsTimer
  <1>2. PICK q : q = [r EXCEPT !.used = FALSE]  OBVIOUS
  <1>3. q \in TimerOf(S) /\ q.h = r.h /\ q.id = r.id /\ ~q.used /\ q.left = r.left /\ q.elapse = r.elapse
    BY <1>1, <1>2 DEF TimerOf
  <1> QED BY <1>2, <1>3 DEF IsTimer

LEMMA LeastSlot == ASSUME NEW S, S \subseteq 1 .. MaxTimer, S # {} PROVE Least(S) \in S
  <1>1. S \subseteq Nat  BY WindowsAssumption
  <1>2. PICK i \in S : \A j \in S : i <= j  BY <1>1, LeastIndex, Zenon
  <1> QED BY <1>2 DEF Least

LEMMA RestartKeeps == ASSUME TimerInv PROVE TimersOK(Restarted) /\ Unique(Restarted)
  <1>1. DOMAIN timer = 1 .. MaxTimer  BY TimerDomain DEF TimerInv
  <1>2. PICK u : u = Restarted  OBVIOUS
  <1>3. u = [i \in 1 .. MaxTimer |-> IF Due(timer[i]) THEN [timer[i] EXCEPT !.left = timer[i].elapse] ELSE timer[i]]
    BY <1>1, <1>2 DEF Restarted
  <1>4. ASSUME NEW i \in 1 .. MaxTimer
        PROVE  IsTimer(u[i]) /\ u[i].h = timer[i].h /\ u[i].id = timer[i].id /\ (u[i].used => timer[i].used)
    <2>1. IsTimer(timer[i])  BY DEF TimerInv, TimersOK
    <2>2. timer[i].elapse \in Nat /\ timer[i].elapse <= timer[i].elapse
      <3>1. PICK S : timer[i] \in TimerOf(S)  BY <2>1 DEF IsTimer
      <3>2. timer[i].elapse \in Nat  BY <3>1 DEF TimerOf
      <3> QED BY <3>2
    <2>3. PICK q : q = [timer[i] EXCEPT !.left = timer[i].elapse]  OBVIOUS
    <2>4. IsTimer(q) /\ q.h = timer[i].h /\ q.id = timer[i].id /\ q.used = timer[i].used  BY <2>1, <2>2, <2>3, TimerLeft
    <2>5. u[i] = q \/ u[i] = timer[i]  BY <1>3, <2>3
    <2> QED BY <2>1, <2>4, <2>5
  <1>5. u = [i \in 1 .. MaxTimer |-> u[i]]  BY <1>3
  <1>6. TimersOK(u) /\ Unique(u)  BY <1>4, <1>5, SameTimers DEF TimerInv
  <1> QED BY <1>2, <1>6

LEMMA TickKeeps == ASSUME TimerInv, Tick PROVE TimerInv'
  <1>1. DOMAIN timer = 1 .. MaxTimer  BY TimerDomain DEF TimerInv
  <1>2. PICK u : u = timer'  OBVIOUS
  <1>3. u = [i \in 1 .. MaxTimer |->
                [timer[i] EXCEPT !.left = IF timer[i].used /\ timer[i].left > 0 THEN timer[i].left - 1 ELSE timer[i].left]]
    BY <1>1, <1>2 DEF Tick
  <1>4. ASSUME NEW i \in 1 .. MaxTimer
        PROVE  IsTimer(u[i]) /\ u[i].h = timer[i].h /\ u[i].id = timer[i].id /\ (u[i].used => timer[i].used)
    <2>1. IsTimer(timer[i])  BY DEF TimerInv, TimersOK
    <2>2. PICK n : n = IF timer[i].used /\ timer[i].left > 0 THEN timer[i].left - 1 ELSE timer[i].left  OBVIOUS
    <2>3. n \in Nat /\ n <= timer[i].elapse
      <3>1. PICK S : timer[i] \in TimerOf(S)  BY <2>1 DEF IsTimer
      <3>2. timer[i].left \in Nat /\ timer[i].elapse \in Nat  BY <3>1 DEF TimerOf
      <3>3. timer[i].left <= timer[i].elapse  BY <2>1 DEF IsTimer
      <3> QED BY <2>2, <3>2, <3>3
    <2>4. PICK q : q = [timer[i] EXCEPT !.left = n]  OBVIOUS
    <2>5. IsTimer(q) /\ q.h = timer[i].h /\ q.id = timer[i].id /\ q.used = timer[i].used  BY <2>1, <2>3, <2>4, TimerLeft
    <2>6. u[i] = q  BY <1>3, <2>2, <2>4
    <2> QED BY <2>5, <2>6
  <1>5. u = [i \in 1 .. MaxTimer |-> u[i]]  BY <1>3
  <1>6. TimersOK(u) /\ Unique(u)  BY <1>4, <1>5, SameTimers DEF TimerInv
  <1> QED BY <1>2, <1>6 DEF TimerInv

LEMMA KillKeeps == ASSUME TimerInv, NEW h, NEW id, KillTimer(h, id) PROVE TimerInv'
  <1>1. DOMAIN timer = 1 .. MaxTimer /\ timer = [i \in 1 .. MaxTimer |-> timer[i]]  BY TimerDomain DEF TimerInv, TimersOK
  <1>2. PICK k : timer' = [timer EXCEPT ![k].used = FALSE]  BY DEF KillTimer
  <1>3. PICK u : u = timer'  OBVIOUS
  <1>4. u = [i \in 1 .. MaxTimer |-> IF i = k THEN [timer[i] EXCEPT !.used = FALSE] ELSE timer[i]]
    BY <1>1, <1>2, <1>3
  <1>5. ASSUME NEW i \in 1 .. MaxTimer
        PROVE  IsTimer(u[i]) /\ u[i].h = timer[i].h /\ u[i].id = timer[i].id /\ (u[i].used => timer[i].used)
    <2>1. IsTimer(timer[i])  BY DEF TimerInv, TimersOK
    <2>2. PICK q : q = [timer[i] EXCEPT !.used = FALSE]  OBVIOUS
    <2>3. IsTimer(q) /\ q.h = timer[i].h /\ q.id = timer[i].id /\ ~q.used  BY <2>1, <2>2, TimerOff
    <2>4. u[i] = q \/ u[i] = timer[i]  BY <1>4, <2>2
    <2> QED BY <2>1, <2>3, <2>4
  <1>6. u = [i \in 1 .. MaxTimer |-> u[i]]  BY <1>4
  <1>7. TimersOK(u) /\ Unique(u)  BY <1>5, <1>6, SameTimers DEF TimerInv
  <1> QED BY <1>3, <1>7 DEF TimerInv

\* SetTimer takes the timer's own slot if it has one: no slot of the same
\* window and id is left beside it.
LEMMA SetKeeps == ASSUME TimerInv, NEW h, NEW id, NEW e \in Elapses, NEW p, SetTimer(h, id, e, p) PROVE TimerInv'
  <1>1. DOMAIN timer = 1 .. MaxTimer /\ timer = [i \in 1 .. MaxTimer |-> timer[i]]  BY TimerDomain DEF TimerInv, TimersOK
  <1>2. PICK r : r = [used |-> TRUE, h |-> h, id |-> id, elapse |-> e, proc |-> p, left |-> e]  OBVIOUS
  <1>3. PICK k \in TimerSlots(h, id) : timer' = [timer EXCEPT ![k] = r]  BY <1>2 DEF SetTimer
  <1>4. /\ IsTimer(r) /\ r.h = h /\ r.id = id
    <2>1. e \in Nat  BY WindowsAssumption
    <2>2. PICK S : S = {h, id, p}  OBVIOUS
    <2>3. r \in TimerOf(S)  BY <1>2, <2>1, <2>2 DEF TimerOf
    <2>4. r.left = e /\ r.elapse = e /\ r.h = h /\ r.id = id  BY <1>2
    <2> QED BY <2>1, <2>3, <2>4 DEF IsTimer
  <1>5. PICK own : own = {i \in DOMAIN timer : Same(timer[i], h, id)}  OBVIOUS
  <1>6. k \in 1 .. MaxTimer /\ (own # {} => k \in own)
    <2>1. PICK free : free = {i \in DOMAIN timer : ~timer[i].used}  OBVIOUS
    <2>2. k \in IF own # {} THEN {Least(own)} ELSE IF free # {} THEN {Least(free)} ELSE {}
      BY <1>3, <1>5, <2>1, Zenon DEF TimerSlots
    <2>3. own \subseteq 1 .. MaxTimer /\ free \subseteq 1 .. MaxTimer  BY <1>1, <1>5, <2>1
    <2>4. CASE own # {}
      <3>1. k = Least(own)  BY <2>2, <2>4
      <3>2. Least(own) \in own  BY <2>3, <2>4, LeastSlot
      <3> QED BY <2>3, <3>1, <3>2
    <2>5. CASE own = {}
      <3>1. free # {} /\ k = Least(free)  BY <2>2, <2>5
      <3>2. Least(free) \in free  BY <2>3, <3>1, LeastSlot
      <3> QED BY <2>3, <2>5, <3>1, <3>2
    <2> QED BY <2>4, <2>5
  <1>7. PICK u : u = timer'  OBVIOUS
  <1>8. u = [i \in 1 .. MaxTimer |-> IF i = k THEN r ELSE timer[i]]  BY <1>1, <1>3, <1>7
  <1>9. TimersOK(u)
    <2>1. \A i \in 1 .. MaxTimer : IsTimer(u[i])  BY <1>4, <1>8 DEF TimerInv, TimersOK
    <2> QED BY <1>8, <2>1 DEF TimersOK
  <1>10. ASSUME NEW i \in 1 .. MaxTimer, i # k, timer[i].used, timer[i].h = h, timer[i].id = id PROVE FALSE
    <2>1. i \in own  BY <1>1, <1>5, <1>10 DEF Same
    <2>2. k \in own  BY <1>6, <2>1
    <2>3. timer[k].used /\ timer[k].h = h /\ timer[k].id = id  BY <1>5, <2>2 DEF Same
    <2> QED BY <1>6, <1>10, <2>3 DEF TimerInv, Unique
  <1>11. Unique(u)
    <2> SUFFICES ASSUME NEW i \in 1 .. MaxTimer, NEW j \in 1 .. MaxTimer,
                        u[i].used, u[j].used, u[i].h = u[j].h, u[i].id = u[j].id
                 PROVE  i = j
      BY DEF Unique
    <2>1. \A x \in 1 .. MaxTimer : (x = k => u[x] = r) /\ (x # k => u[x] = timer[x])  BY <1>8
    <2>2. CASE i = k /\ j # k  BY <1>4, <1>10, <2>1, <2>2
    <2>3. CASE i # k /\ j = k  BY <1>4, <1>10, <2>1, <2>3
    <2>4. CASE i # k /\ j # k
      <3>1. u[i] = timer[i] /\ u[j] = timer[j]  BY <2>1, <2>4
      <3> QED BY <3>1 DEF TimerInv, Unique
    <2> QED BY <2>2, <2>3, <2>4
  <1> QED BY <1>7, <1>9, <1>11 DEF TimerInv

LEMMA TimersAtStart == ASSUME DlgInit PROVE TimerInv
  <1>1. timer = [i \in 1 .. MaxTimer |-> NoTimer]  BY DEF DlgInit, UserInit
  <1>2. PICK r : r = NoTimer  OBVIOUS
  <1>3. r = [used |-> FALSE, h |-> 0, id |-> 0, elapse |-> 0, proc |-> 0, left |-> 0]  BY <1>2 DEF NoTimer
  <1>4. IsTimer(r) /\ ~r.used
    <2>1. PICK S : S = {0}  OBVIOUS
    <2>2. r \in TimerOf(S) /\ r.left = 0 /\ r.elapse = 0 /\ ~r.used  BY <1>3, <2>1 DEF TimerOf
    <2> QED BY <2>2 DEF IsTimer
  <1>5. timer = [i \in 1 .. MaxTimer |-> timer[i]] /\ \A i \in 1 .. MaxTimer : timer[i] = r  BY <1>1, <1>2
  <1>6. TimersOK(timer)  BY <1>4, <1>5 DEF TimersOK
  <1>7. Unique(timer)  BY <1>4, <1>5 DEF Unique
  <1> QED BY <1>6, <1>7 DEF TimerInv

\* What an operation does to the timers.
TimerStep ==
    \/ timer' = timer \/ timer' = Restarted \/ Tick
    \/ \E h, id : KillTimer(h, id) \/ \E p : \E e \in Elapses : SetTimer(h, id, e, p)

LEMMA TimerStepKeeps == ASSUME TimerInv, TimerStep PROVE TimerInv'
  <1>1. CASE timer' = timer  BY <1>1 DEF TimerInv
  <1>2. CASE timer' = Restarted
    <2>1. PICK u : u = Restarted  OBVIOUS
    <2>2. TimersOK(u) /\ Unique(u) /\ timer' = u  BY <1>2, <2>1, RestartKeeps
    <2> QED BY <2>2 DEF TimerInv
  <1> QED BY <1>1, <1>2, TickKeeps, KillKeeps, SetKeeps, Zenon DEF TimerStep

LEMMA TimerSteps == ASSUME [DlgNext]_dlgVars PROVE TimerStep
  <1>1. CASE WindowOps
    BY <1>1 DEF WindowOps, CreateWindowEx, CbtReturn, CreateReturn, PlainReturn, TimerStep
  <1>2. CASE DestroyOps \/ HookOps \/ CloseOps
    BY <1>2 DEF DestroyOps, DestroyWindow, HookOps, SetWindowsHookEx, Subclass, CloseOps, SendMessage, DefWindowProc,
                CloseReturn, TimerStep
  <1>3. CASE PaintOps
    BY <1>3 DEF PaintOps, ShowWindow, InvalidateRect, SetWindowPos, RedrawWindow, ValidateRect, BeginPaint,
                EraseReturn, DefWindowProc, TimerStep
  <1>4. CASE TimerOps
    <2>1. CASE MsgWait  BY <2>1 DEF MsgWait, TimerStep
    <2> QED BY <1>4, <2>1, Zenon DEF TimerOps, TimerStep
  <1>5. CASE PostOps \/ FocusOps
    BY <1>5 DEF PostOps, PostMessage, FocusOps, SetFocus, KillFocusReturn, TimerStep
  <1>6. CASE LoopOps
    BY <1>6 DEF LoopOps, PostQuitMessage, PeekMessage, GetMessage, GetMessageStep, DispatchMessage, DispatchReturn, TimerStep
  <1>7. CASE DialogOps
    <2>1. CASE EndDialog  BY <2>1 DEF EndDialog, vars, TimerStep
    <2> QED BY <1>7, <2>1 DEF DialogOps, CreateDialog, DlgCbtReturn, InitReturn, ModalStep, ModalDone,
                              ModalDispatch, ClickReturn, IsDialogMessage, TimerStep
  <1>8. CASE UNCHANGED dlgVars  BY <1>8 DEF dlgVars, vars, TimerStep
  <1> QED BY <1>1, <1>2, <1>3, <1>4, <1>5, <1>6, <1>7, <1>8, Zenon DEF DlgNext, UserOps, Aborted

-----------------------------------------------------------------------------
(* The window table.                                                        *)

GoodWin(r) == IsWin(r) /\ r.proc \in {0, 1} /\ r.parent \in {0} \cup Hwnd
WinsOK(w) == w = [h \in Hwnd |-> w[h]] /\ \A h \in Hwnd : GoodWin(w[h])

LEMMA GoodWritten == ASSUME NEW r, GoodWin(r), NEW x
    PROVE /\ GoodWin([r EXCEPT !.visible = x]) /\ GoodWin([r EXCEPT !.paint = x]) /\ GoodWin([r EXCEPT !.erase = x])
          /\ GoodWin([r EXCEPT !.dialog = x]) /\ GoodWin([r EXCEPT !.used = x])
          /\ x \in {0, 1} => GoodWin([r EXCEPT !.proc = x])
  <1>1. PICK S : r \in WinOf(S)  BY DEF GoodWin, IsWin
  <1>2. PICK a : a = [r EXCEPT !.visible = x]  OBVIOUS
  <1>3. PICK b : b = [r EXCEPT !.paint = x]  OBVIOUS
  <1>4. PICK c : c = [r EXCEPT !.erase = x]  OBVIOUS
  <1>5. PICK d : d = [r EXCEPT !.dialog = x]  OBVIOUS
  <1>6. PICK e : e = [r EXCEPT !.used = x]  OBVIOUS
  <1>7. PICK f : f = [r EXCEPT !.proc = x]  OBVIOUS
  <1>8. IsWin(a) /\ IsWin(b) /\ IsWin(c) /\ IsWin(d) /\ IsWin(e) /\ IsWin(f)
    BY <1>2, <1>3, <1>4, <1>5, <1>6, <1>7, FieldWritten DEF GoodWin
  <1>9. a.proc = r.proc /\ b.proc = r.proc /\ c.proc = r.proc /\ d.proc = r.proc /\ e.proc = r.proc /\ f.proc = x
    BY <1>1, <1>2, <1>3, <1>4, <1>5, <1>6, <1>7 DEF WinOf
  <1>10. a.parent = r.parent /\ b.parent = r.parent /\ c.parent = r.parent /\ d.parent = r.parent /\ e.parent = r.parent
         /\ f.parent = r.parent
    BY <1>1, <1>2, <1>3, <1>4, <1>5, <1>6, <1>7 DEF WinOf
  <1>11. GoodWin(a) /\ GoodWin(b) /\ GoodWin(c) /\ GoodWin(d) /\ GoodWin(e) /\ (x \in {0, 1} => GoodWin(f))
    BY <1>8, <1>9, <1>10 DEF GoodWin
  <1> QED BY <1>2, <1>3, <1>4, <1>5, <1>6, <1>7, <1>11

LEMMA PutWindow == ASSUME NEW w, WinsOK(w), NEW h, NEW r, h \in Hwnd => GoodWin(r) PROVE WinsOK([w EXCEPT ![h] = r])
  <1>1. PICK v : v = [w EXCEPT ![h] = r]  OBVIOUS
  <1>2. v = [k \in Hwnd |-> IF k = h THEN r ELSE w[k]]
    <2>1. w = [k \in Hwnd |-> w[k]]  BY DEF WinsOK
    <2> QED BY <1>1, <2>1
  <1>3. WinsOK(v)  BY <1>2 DEF WinsOK
  <1> QED BY <1>1, <1>3

LEMMA WriteWindow == ASSUME NEW w, WinsOK(w), NEW h, NEW x
    PROVE /\ WinsOK([w EXCEPT ![h].visible = x]) /\ WinsOK([w EXCEPT ![h].paint = x]) /\ WinsOK([w EXCEPT ![h].erase = x])
          /\ WinsOK([w EXCEPT ![h].dialog = x]) /\ WinsOK([w EXCEPT ![h].used = x])
          /\ x \in {0, 1} => WinsOK([w EXCEPT ![h].proc = x])
  <1>1. h \in Hwnd => GoodWin(w[h])  BY DEF WinsOK
  <1>2. ASSUME NEW r, r = [w[h] EXCEPT !.visible = x] PROVE WinsOK([w EXCEPT ![h] = r])
    <2>1. h \in Hwnd => GoodWin(r)  BY <1>1, <1>2, GoodWritten
    <2> QED BY <2>1, PutWindow
  <1>3. ASSUME NEW r, r = [w[h] EXCEPT !.paint = x] PROVE WinsOK([w EXCEPT ![h] = r])
    <2>1. h \in Hwnd => GoodWin(r)  BY <1>1, <1>3, GoodWritten
    <2> QED BY <2>1, PutWindow
  <1>4. ASSUME NEW r, r = [w[h] EXCEPT !.erase = x] PROVE WinsOK([w EXCEPT ![h] = r])
    <2>1. h \in Hwnd => GoodWin(r)  BY <1>1, <1>4, GoodWritten
    <2> QED BY <2>1, PutWindow
  <1>5. ASSUME NEW r, r = [w[h] EXCEPT !.dialog = x] PROVE WinsOK([w EXCEPT ![h] = r])
    <2>1. h \in Hwnd => GoodWin(r)  BY <1>1, <1>5, GoodWritten
    <2> QED BY <2>1, PutWindow
  <1>6. ASSUME NEW r, r = [w[h] EXCEPT !.used = x] PROVE WinsOK([w EXCEPT ![h] = r])
    <2>1. h \in Hwnd => GoodWin(r)  BY <1>1, <1>6, GoodWritten
    <2> QED BY <2>1, PutWindow
  <1>7. ASSUME NEW r, r = [w[h] EXCEPT !.proc = x], x \in {0, 1} PROVE WinsOK([w EXCEPT ![h] = r])
    <2>1. h \in Hwnd => GoodWin(r)  BY <1>1, <1>7, GoodWritten
    <2> QED BY <2>1, PutWindow
  <1> QED BY <1>2, <1>3, <1>4, <1>5, <1>6, <1>7, Zenon

LEMMA CreatedIsGood == ASSUME NEW h, NEW p \in {0, 1}, NEW par \in {0} \cup Hwnd, NEW s, NEW api
                       PROVE  GoodWin(Created(h, p, par, s, api))
  <1>1. PICK r : r = Created(h, p, par, s, api)  OBVIOUS
  <1>2. IsWin(r)  BY <1>1, CreatedIsWin
  <1>3. PICK owes : owes = (s.visible /\ par = 0 /\ ~s.child)  OBVIOUS
  <1>4. PICK u : u = (win[h].unicode \/ api = "W")  OBVIOUS
  <1>5. r = [NoWin EXCEPT !.used = TRUE, !.proc = p, !.parent = par, !.child = s.child,
                      !.visible = s.visible, !.enabled = TRUE, !.paint = owes, !.erase = owes,
                      !.unicode = u, !.api = api]
    BY <1>1, <1>3, <1>4, Zenon DEF Created
  <1>6. r = [used |-> TRUE, proc |-> p, parent |-> par, child |-> s.child, visible |-> s.visible, enabled |-> TRUE,
             tab |-> FALSE, paint |-> owes, erase |-> owes, unicode |-> u, dialog |-> FALSE, cls |-> "none", api |-> api]
    BY <1>5 DEF NoWin
  <1>7. r.proc = p /\ r.parent = par  BY <1>6
  <1>8. GoodWin(r)  BY <1>2, <1>7 DEF GoodWin
  <1> QED BY <1>1, <1>8

LEMMA ControlIsGood == ASSUME NEW w, WinsOK(w), NEW d \in Hwnd, NEW c PROVE WinsOK(NewControl(w, d, c))
  <1>1. PICK free : free = {h \in Hwnd : ~w[h].used}  OBVIOUS
  <1>2. CASE free = {}  BY <1>1, <1>2 DEF NewControl
  <1>3. CASE free # {}
    <2>1. PICK r : r = [NoWin EXCEPT !.used = TRUE, !.parent = d, !.child = TRUE, !.cls = c.cls,
                                      !.tab = c.tab, !.visible = c.visible, !.enabled = c.enabled]
      OBVIOUS
    <2>2. NewControl(w, d, c) = [w EXCEPT ![Least(free)] = r]  BY <1>1, <1>3, <2>1 DEF NewControl
    <2>3. r = [used |-> TRUE, proc |-> 0, parent |-> d, child |-> TRUE, visible |-> c.visible, enabled |-> c.enabled,
               tab |-> c.tab, paint |-> FALSE, erase |-> FALSE, unicode |-> FALSE, dialog |-> FALSE, cls |-> c.cls,
               api |-> "none"]
      BY <2>1 DEF NoWin
    <2>4. IsWin(r)  BY <2>3, WinMade, Zenon
    <2>5. r.proc = 0 /\ r.parent = d  BY <2>3
    <2>6. GoodWin(r)  BY <2>4, <2>5 DEF GoodWin
    <2>7. WinsOK([w EXCEPT ![Least(free)] = r])  BY <2>6, PutWindow
    <2> QED BY <2>2, <2>7
  <1> QED BY <1>2, <1>3

LEMMA ControlsAreGood == ASSUME NEW w, WinsOK(w), NEW d \in Hwnd, NEW items, Len(items) \in Nat
                         PROVE  WinsOK(NewControls(w, d, items))
  <1> DEFINE m == Len(items)
             made == CHOOSE f : f = [k \in 0 .. Len(items) |-> IF k = 0 THEN w ELSE NewControl(f[k - 1], d, items[k])]
  <1>1. \E f : f = [k \in 0 .. Len(items) |-> IF k = 0 THEN w ELSE NewControl(f[k - 1], d, items[k])]
    <2>1. m \in 0 .. m  OBVIOUS
    <2>2. \E f : Controls(w, d, items, m, f)  BY <2>1, ControlsExist
    <2> QED BY <2>2 DEF Controls
  <1>2. made = [k \in 0 .. Len(items) |-> IF k = 0 THEN w ELSE NewControl(made[k - 1], d, items[k])]
    BY <1>1, Zenon
  <1>3. NewControls(w, d, items) = made[Len(items)]  BY Zenon DEF NewControls
  <1> HIDE DEF made
  <1> DEFINE Bad == {k \in 0 .. m : ~WinsOK(made[k])}
  <1>4. WinsOK(made[0])
    <2>1. made[0] = w  BY <1>2
    <2> QED BY <2>1
  <1>5. ASSUME NEW k \in 1 .. m, WinsOK(made[k - 1]) PROVE WinsOK(made[k])
    <2>1. made[k] = NewControl(made[k - 1], d, items[k])  BY <1>2
    <2> QED BY <1>5, <2>1, ControlIsGood
  <1>6. Bad = {}
    <2> SUFFICES ASSUME Bad # {} PROVE FALSE  OBVIOUS
    <2>1. PICK i \in Bad : \A j \in Bad : i <= j
      <3>1. Bad \subseteq Nat  OBVIOUS
      <3> QED BY <3>1, LeastIndex, Zenon
    <2>2. i # 0  BY <1>4
    <2>3. i \in 1 .. m /\ i - 1 \in 0 .. m /\ i - 1 \notin Bad  BY <2>1, <2>2
    <2>4. WinsOK(made[i - 1])  BY <2>3
    <2>5. WinsOK(made[i])  BY <1>5, <2>3, <2>4
    <2> QED BY <2>5
  <1>7. WinsOK(made[m])
    <2>1. m \in 0 .. m  OBVIOUS
    <2> QED BY <1>6, <2>1
  <1> QED BY <1>3, <1>7

-----------------------------------------------------------------------------
(* The stack of call-backs: room for the two frames a dialog needs, and one  *)
(* modal loop.  A box that waits for its hook was entered with no modal loop *)
(* below it, so it may start one when the hook returns.                      *)

NoLoop(c) == \A i \in 1 .. Len(c) : c[i].kind # "modal"
FramesOK(c) ==
    /\ IsSeq(c) /\ Len(c) <= MaxDepth
    /\ \A i \in 1 .. Len(c) : c[i].kind \in {"modal", "dlgcbt"} => c[i].h \in Hwnd /\ i < MaxDepth
    /\ \A i \in 1 .. Len(c) : c[i].kind = "dlgcbt" =>
           c[i].items \in Templates /\ (c[i].box => \A j \in 1 .. i : c[j].kind # "modal")
LoopAt(c, m, k) == c[k].kind = "modal" /\ c[k].h = m /\ \A i \in 1 .. Len(c) : c[i].kind = "modal" => i = k
OneLoop(c, m) == (NoLoop(c) /\ m = 0) \/ \E k \in 1 .. Len(c) : LoopAt(c, m, k)
StackInv(c, m) == FramesOK(c) /\ OneLoop(c, m)

LEMMA FramesPushed == ASSUME NEW c, NEW f, FramesOK(c), Len(c) < MaxDepth,
                             f.kind \in {"modal", "dlgcbt"} => f.h \in Hwnd /\ Len(c) + 2 <= MaxDepth,
                             f.kind = "dlgcbt" => f.items \in Templates /\ (f.box => NoLoop(c))
                      PROVE  FramesOK(Append(c, f))
  <1>1. PICK a : a = Append(c, f)  OBVIOUS
  <1>2. IsSeq(a) /\ Len(c) \in Nat /\ Len(a) = Len(c) + 1 /\ a[Len(c) + 1] = f /\ \A i \in 1 .. Len(c) : a[i] = c[i]
    BY <1>1, Appended DEF FramesOK
  <1>3. MaxDepth \in Nat  BY WindowsAssumption
  <1>4. \A i \in 1 .. Len(a) : i = Len(c) + 1 \/ i \in 1 .. Len(c)  BY <1>2
  <1>5. ASSUME NEW i \in 1 .. Len(a), a[i].kind \in {"modal", "dlgcbt"} PROVE a[i].h \in Hwnd /\ i < MaxDepth
    <2>1. CASE i = Len(c) + 1
      <3>1. a[i] = f  BY <1>2, <2>1
      <3>2. f.h \in Hwnd /\ Len(c) + 2 <= MaxDepth  BY <1>5, <3>1
      <3> QED BY <1>2, <1>3, <2>1, <3>1, <3>2
    <2>2. CASE i \in 1 .. Len(c)
      <3>1. a[i] = c[i]  BY <1>2, <2>2
      <3> QED BY <1>5, <2>2, <3>1 DEF FramesOK
    <2> QED BY <1>4, <2>1, <2>2
  <1>6. ASSUME NEW i \in 1 .. Len(a), a[i].kind = "dlgcbt"
        PROVE  a[i].items \in Templates /\ (a[i].box => \A j \in 1 .. i : a[j].kind # "modal")
    <2>1. CASE i = Len(c) + 1
      <3>1. a[i] = f  BY <1>2, <2>1
      <3>2. f.items \in Templates /\ (f.box => NoLoop(c))  BY <1>6, <3>1
      <3>3. ASSUME f.box, NEW j \in 1 .. i PROVE a[j].kind # "modal"
        <4>1. CASE j = i  BY <1>6, <4>1
        <4>2. CASE j # i
          <5>1. j \in 1 .. Len(c) /\ a[j] = c[j]  BY <1>2, <2>1, <4>2
          <5> QED BY <3>2, <3>3, <5>1 DEF NoLoop
        <4> QED BY <4>1, <4>2
      <3> QED BY <3>1, <3>2, <3>3
    <2>2. CASE i \in 1 .. Len(c)
      <3>1. a[i] = c[i]  BY <1>2, <2>2
      <3>2. c[i].items \in Templates /\ (c[i].box => \A j \in 1 .. i : c[j].kind # "modal")  BY <1>6, <2>2, <3>1 DEF FramesOK
      <3>3. \A j \in 1 .. i : a[j] = c[j]  BY <1>2, <2>2
      <3> QED BY <3>1, <3>2, <3>3
    <2> QED BY <1>4, <2>1, <2>2
  <1>7. Len(a) <= MaxDepth  BY <1>2, <1>3
  <1>8. FramesOK(a)  BY <1>2, <1>5, <1>6, <1>7 DEF FramesOK
  <1> QED BY <1>1, <1>8

LEMMA LoopPushed == ASSUME NEW c, NEW m, NEW f, IsSeq(c), OneLoop(c, m), f.kind # "modal" PROVE OneLoop(Append(c, f), m)
  <1>1. PICK a : a = Append(c, f)  OBVIOUS
  <1>2. Len(c) \in Nat /\ Len(a) = Len(c) + 1 /\ a[Len(c) + 1] = f /\ \A i \in 1 .. Len(c) : a[i] = c[i]
    BY <1>1, Appended
  <1>3. \A i \in 1 .. Len(a) : a[i].kind = "modal" => i \in 1 .. Len(c) /\ a[i] = c[i]  BY <1>2
  <1>4. CASE NoLoop(c) /\ m = 0
    <2>1. NoLoop(a)  BY <1>3, <1>4 DEF NoLoop
    <2> QED BY <1>1, <1>4, <2>1 DEF OneLoop
  <1>5. ASSUME NEW k \in 1 .. Len(c), LoopAt(c, m, k) PROVE OneLoop(a, m)
    <2>1. k \in 1 .. Len(a) /\ a[k] = c[k]  BY <1>2
    <2>2. LoopAt(a, m, k)  BY <1>3, <1>5, <2>1 DEF LoopAt
    <2> QED BY <2>1, <2>2 DEF OneLoop
  <1> QED BY <1>1, <1>4, <1>5 DEF OneLoop

LEMMA StackPush == ASSUME NEW c, NEW m, NEW f, StackInv(c, m), Len(c) < MaxDepth, f.kind \notin {"modal", "dlgcbt"}
                   PROVE  StackInv(Append(c, f), m)
  <1>1. FramesOK(Append(c, f))  BY FramesPushed DEF StackInv
  <1>2. OneLoop(Append(c, f), m)  BY LoopPushed DEF StackInv, FramesOK
  <1> QED BY <1>1, <1>2 DEF StackInv

LEMMA NoLoopAtZero == ASSUME NEW c, StackInv(c, 0) PROVE NoLoop(c)
  <1>1. ASSUME NEW k \in 1 .. Len(c), LoopAt(c, 0, k) PROVE FALSE
    <2>1. c[k].h \in Hwnd  BY <1>1 DEF LoopAt, StackInv, FramesOK
    <2>2. c[k].h = 0  BY <1>1 DEF LoopAt
    <2> QED BY <2>1, <2>2, WindowsAssumption DEF Hwnd
  <1> QED BY <1>1 DEF StackInv, OneLoop

LEMMA StackHook == ASSUME NEW c, NEW m, NEW f, StackInv(c, m), Len(c) + 2 <= MaxDepth, f.kind = "dlgcbt", f.h \in Hwnd,
                          f.items \in Templates, f.box => m = 0
                   PROVE  StackInv(Append(c, f), m)
  <1>1. f.box => NoLoop(c)
    <2>1. m = 0 => NoLoop(c)  BY NoLoopAtZero
    <2> QED BY <2>1
  <1>2. Len(c) < MaxDepth
    <2>1. Len(c) \in Nat  BY Appended DEF StackInv, FramesOK
    <2> QED BY <2>1, WindowsAssumption
  <1>3. FramesOK(Append(c, f))  BY <1>1, <1>2, FramesPushed DEF StackInv
  <1>4. OneLoop(Append(c, f), m)  BY LoopPushed DEF StackInv, FramesOK
  <1> QED BY <1>3, <1>4 DEF StackInv

LEMMA StackLoop == ASSUME NEW c, NEW f, FramesOK(c), NoLoop(c), Len(c) + 2 <= MaxDepth, f.kind = "modal", f.h \in Hwnd
                   PROVE  StackInv(Append(c, f), f.h) /\ Len(Append(c, f)) < MaxDepth
  <1>1. PICK a : a = Append(c, f)  OBVIOUS
  <1>2. Len(c) \in Nat /\ Len(a) = Len(c) + 1 /\ a[Len(c) + 1] = f /\ \A i \in 1 .. Len(c) : a[i] = c[i]
    BY <1>1, Appended DEF FramesOK
  <1>3. Len(c) < MaxDepth /\ Len(a) < MaxDepth  BY <1>2, WindowsAssumption
  <1>4. FramesOK(a)  BY <1>1, <1>3, FramesPushed
  <1>5. LoopAt(a, f.h, Len(c) + 1)
    <2>1. \A i \in 1 .. Len(a) : a[i].kind = "modal" => i = Len(c) + 1  BY <1>2 DEF NoLoop
    <2> QED BY <1>2, <2>1 DEF LoopAt
  <1>6. Len(c) + 1 \in 1 .. Len(a)  BY <1>2
  <1>7. OneLoop(a, f.h)  BY <1>5, <1>6 DEF OneLoop
  <1> QED BY <1>1, <1>3, <1>4, <1>7 DEF StackInv

LEMMA FramesPopped == ASSUME NEW c, FramesOK(c), c # <<>>
    PROVE /\ FramesOK(Front(c)) /\ Len(Front(c)) < MaxDepth
          /\ Last(c).kind = "dlgcbt" => /\ Last(c).h \in Hwnd /\ Last(c).items \in Templates /\ Len(Front(c)) + 2 <= MaxDepth
                                        /\ Last(c).box => NoLoop(Front(c))
          /\ Last(c).kind = "modal" => Len(c) < MaxDepth
  <1>1. PICK a : a = Front(c)  OBVIOUS
  <1>2. IsSeq(a) /\ Len(c) \in Nat \ {0} /\ Len(a) = Len(c) - 1 /\ \A i \in 1 .. Len(c) - 1 : a[i] = c[i]
    BY <1>1, Shortened DEF FramesOK
  <1>3. MaxDepth \in Nat /\ Len(c) <= MaxDepth  BY WindowsAssumption DEF FramesOK
  <1>4. \A i \in 1 .. Len(a) : i \in 1 .. Len(c) /\ a[i] = c[i]  BY <1>2
  <1>5. FramesOK(a)
    <2>1. \A i \in 1 .. Len(a) : a[i].kind \in {"modal", "dlgcbt"} => a[i].h \in Hwnd /\ i < MaxDepth
      BY <1>4 DEF FramesOK
    <2>2. ASSUME NEW i \in 1 .. Len(a), a[i].kind = "dlgcbt"
          PROVE  a[i].items \in Templates /\ (a[i].box => \A j \in 1 .. i : a[j].kind # "modal")
      <3>1. i \in 1 .. Len(c) /\ a[i] = c[i] /\ \A j \in 1 .. i : a[j] = c[j]  BY <1>2, <1>4
      <3>2. c[i].items \in Templates /\ (c[i].box => \A j \in 1 .. i : c[j].kind # "modal")  BY <2>2, <3>1 DEF FramesOK
      <3> QED BY <3>1, <3>2
    <2>3. Len(a) <= MaxDepth  BY <1>2, <1>3
    <2> QED BY <1>2, <2>1, <2>2, <2>3 DEF FramesOK
  <1>6. Len(c) \in 1 .. Len(c) /\ Last(c) = c[Len(c)]  BY <1>2 DEF Last
  <1>7. ASSUME Last(c).kind = "dlgcbt"
        PROVE  /\ Last(c).h \in Hwnd /\ Last(c).items \in Templates /\ Len(a) + 2 <= MaxDepth
               /\ Last(c).box => NoLoop(a)
    <2>1. Last(c).h \in Hwnd /\ Len(c) < MaxDepth  BY <1>6, <1>7 DEF FramesOK
    <2>2. Last(c).items \in Templates /\ (Last(c).box => \A j \in 1 .. Len(c) : c[j].kind # "modal")
      BY <1>6, <1>7 DEF FramesOK
    <2>3. Last(c).box => NoLoop(a)  BY <1>4, <2>2 DEF NoLoop
    <2> QED BY <1>2, <1>3, <2>1, <2>2, <2>3
  <1>8. Last(c).kind = "modal" => Len(c) < MaxDepth  BY <1>6 DEF FramesOK
  <1>9. Len(a) < MaxDepth  BY <1>2, <1>3
  <1> QED BY <1>1, <1>5, <1>7, <1>8, <1>9

LEMMA StackPop == ASSUME NEW c, NEW m, StackInv(c, m), c # <<>>
    PROVE /\ Len(Front(c)) < MaxDepth
          /\ Last(c).kind # "modal" => StackInv(Front(c), m)
          /\ Last(c).kind = "modal" => StackInv(Front(c), 0)
  <1>1. PICK a : a = Front(c)  OBVIOUS
  <1>2. Len(c) \in Nat \ {0} /\ Len(a) = Len(c) - 1 /\ \A i \in 1 .. Len(c) - 1 : a[i] = c[i]
    BY <1>1, Shortened DEF StackInv, FramesOK
  <1>3. \A i \in 1 .. Len(a) : i \in 1 .. Len(c) /\ i # Len(c) /\ a[i] = c[i]  BY <1>2
  <1>4. FramesOK(a) /\ Len(a) < MaxDepth  BY <1>1, FramesPopped DEF StackInv
  <1>5. Len(c) \in 1 .. Len(c) /\ Last(c) = c[Len(c)]  BY <1>2 DEF Last
  <1>6. CASE NoLoop(c) /\ m = 0
    <2>1. NoLoop(a)  BY <1>3, <1>6 DEF NoLoop
    <2>2. Last(c).kind # "modal"  BY <1>5, <1>6 DEF NoLoop
    <2>3. StackInv(a, m)  BY <1>4, <1>6, <2>1 DEF StackInv, OneLoop
    <2> QED BY <1>1, <1>4, <2>2, <2>3
  <1>7. ASSUME NEW k \in 1 .. Len(c), LoopAt(c, m, k)
        PROVE  /\ Last(c).kind # "modal" => StackInv(a, m)
               /\ Last(c).kind = "modal" => StackInv(a, 0)
    <2>1. CASE Last(c).kind = "modal"
      <3>1. k = Len(c)  BY <1>5, <1>7, <2>1 DEF LoopAt
      <3>2. NoLoop(a)  BY <1>3, <1>7, <3>1 DEF LoopAt, NoLoop
      <3> QED BY <1>4, <2>1, <3>2 DEF StackInv, OneLoop
    <2>2. CASE Last(c).kind # "modal"
      <3>1. k # Len(c)  BY <1>5, <1>7, <2>2 DEF LoopAt
      <3>2. k \in 1 .. Len(a) /\ a[k] = c[k]  BY <1>2, <3>1
      <3>3. LoopAt(a, m, k)  BY <1>3, <1>7, <3>2 DEF LoopAt
      <3> QED BY <1>4, <2>2, <3>2, <3>3 DEF StackInv, OneLoop
    <2> QED BY <2>1, <2>2
  <1>8. OneLoop(c, m)  BY DEF StackInv
  <1> QED BY <1>1, <1>4, <1>6, <1>7, <1>8 DEF OneLoop

LEMMA FramePush == ASSUME NEW c, NEW m, NEW k, NEW h, NEW x, NEW a, StackInv(c, m), Len(c) < MaxDepth, k \notin {"modal", "dlgcbt"}
                   PROVE  StackInv(Append(c, Frame(k, h, x, a)), m)
  <1>1. Frame(k, h, x, a).kind \notin {"modal", "dlgcbt"}  BY DEF Frame
  <1> QED BY <1>1, StackPush

-----------------------------------------------------------------------------
(* The operations keep the table, the focus and the stack.                  *)

TableInv == WinsOK(win) /\ focus \in {0} \cup Hwnd /\ told \subseteq Hwnd /\ ustat \in {"run", "abort"}
            /\ StackInv(calls, modal.h)

LEMMA LastPart == ASSUME NEW c, NEW m, StackInv(c, m), c # <<>>, Last(c).kind # "modal"
                  PROVE  StackInv(Front(c), m) /\ Len(Front(c)) < MaxDepth
  BY StackPop

LEMMA TellInv == ASSUME NEW n, NEW c, NEW m, StackInv(c, m), Len(c) < MaxDepth, told \subseteq Hwnd, TellFocus(n, c)
                 PROVE  told' \subseteq Hwnd /\ StackInv(calls', m)
  <1>1. CASE WndProc(n) = 0  BY <1>1 DEF TellFocus
  <1>2. CASE WndProc(n) # 0
    <2>1. n \in Hwnd  BY <1>2 DEF WndProc, Live
    <2>2. calls' = Append(c, Frame("plain", n, "setfocus", 0)) /\ told' = told \cup {n}  BY <1>2 DEF TellFocus
    <2>3. StackInv(calls', m)  BY <2>2, FramePush
    <2> QED BY <2>1, <2>2, <2>3
  <1> QED BY <1>1, <1>2

LEMMA MoveInv == ASSUME NEW n \in {0} \cup Hwnd, NEW c, NEW m, StackInv(c, m), Len(c) < MaxDepth, told \subseteq Hwnd,
                        focus \in {0} \cup Hwnd, MoveFocus(n, c)
                 PROVE  told' \subseteq Hwnd /\ focus' \in {0} \cup Hwnd /\ StackInv(calls', m)
  <1>1. CASE n = focus  BY <1>1 DEF MoveFocus
  <1>2. CASE n # focus /\ WndProc(focus) = 0
    <2>1. focus' = n /\ TellFocus(n, c)  BY <1>2 DEF MoveFocus
    <2> QED BY <2>1, TellInv
  <1>3. CASE n # focus /\ WndProc(focus) # 0
    <2>1. focus' = n /\ told' = told \ {focus} /\ calls' = Append(c, Frame("killfocus", focus, "killfocus", n))
      BY <1>3 DEF MoveFocus
    <2>2. StackInv(calls', m)  BY <2>1, FramePush
    <2> QED BY <2>1, <2>2
  <1> QED BY <1>1, <1>2, <1>3

LEMMA HitInv == ASSUME NEW d, NEW c, NEW m, StackInv(c, m), Len(c) < MaxDepth, told \subseteq Hwnd,
                       focus \in {0} \cup Hwnd, HitTest(d, c)
                PROVE  told' \subseteq Hwnd /\ focus' \in {0} \cup Hwnd /\ StackInv(calls', m)
  <1>1. CASE calls' = c /\ UNCHANGED <<focus, told>>  BY <1>1
  <1>2. ASSUME NEW k \in Clickable(d), focus' = k /\ told' = told,
               calls' = IF win[k].cls = "button" /\ WndProc(d) # 0 THEN Append(c, Frame("plain", d, "command", k)) ELSE c
        PROVE  told' \subseteq Hwnd /\ focus' \in {0} \cup Hwnd /\ StackInv(calls', m)
    <2>1. StackInv(Append(c, Frame("plain", d, "command", k)), m)  BY FramePush
    <2>2. k \in Hwnd  BY DEF Clickable
    <2> QED BY <1>2, <2>1, <2>2
  <1> QED BY <1>1, <1>2 DEF HitTest

LEMMA NextIsWindow == ASSUME NEW d, NEW cur, NEW back, NEW tab PROVE NextDlgItem(d, cur, back, tab) \in {0} \cup Hwnd
  <1>1. PICK kids : kids = DlgItems(d, tab)  OBVIOUS
  <1>2. Walk(d, tab, MaxWin, kids)  BY <1>1, ItemsWalk
  <1>3. kids \in Seq(1 .. MaxWin) /\ Len(kids) \in Nat /\ DOMAIN kids = 1 .. Len(kids)  BY <1>2, LenProperties DEF Walk
  <1>4. \A i \in 1 .. Len(kids) : kids[i] \in Hwnd  BY <1>3, ElementOfSeq DEF Hwnd
  <1>5. PICK pos : pos = {k \in DOMAIN kids : kids[k] = cur}  OBVIOUS
  <1>6. CASE ~Live(d) \/ kids = <<>>
    <2>1. NextDlgItem(d, cur, back, tab) = 0  BY <1>1, <1>6, Zenon DEF NextDlgItem
    <2> QED BY <2>1
  <1>7. CASE Live(d) /\ kids # <<>>
    <2>1. 1 \in 1 .. Len(kids)
      <3>1. Len(kids) # 0  BY <1>3, <1>7, EmptySeq
      <3> QED BY <1>3, <3>1
    <2>2. CASE pos = {}
      <3>1. NextDlgItem(d, cur, back, tab) = kids[1]  BY <1>1, <1>5, <1>7, <2>2, Zenon DEF NextDlgItem
      <3> QED BY <1>4, <2>1, <3>1
    <2>3. CASE pos # {}
      <3>1. Least(pos) \in 1 .. Len(kids)
        <4>1. pos \subseteq Nat  BY <1>3, <1>5
        <4>2. PICK i \in pos : \A j \in pos : i <= j  BY <2>3, <4>1, LeastIndex, Zenon
        <4>3. Least(pos) \in pos  BY <4>2 DEF Least
        <4> QED BY <1>3, <1>5, <4>3
      <3>2. PICK k : k = Least(pos)  OBVIOUS
      <3>3. PICK x : x = IF back THEN k - 2 + Len(kids) ELSE k  OBVIOUS
      <3>4. NextDlgItem(d, cur, back, tab) = kids[(x % Len(kids)) + 1]
        BY <1>1, <1>5, <1>7, <2>3, <3>2, <3>3, Zenon DEF NextDlgItem
      <3>5. (x % Len(kids)) + 1 \in 1 .. Len(kids)
        <4>1. PICK L : L = Len(kids)  OBVIOUS
        <4>2. L \in Nat /\ k \in 1 .. L  BY <1>3, <3>1, <3>2, <4>1
        <4>3. /\ (k % L) + 1 = (IF k = L THEN 1 ELSE k + 1)
              /\ ((k - 2 + L) % L) + 1 = (IF k = 1 THEN L ELSE k - 1)
          BY <4>2, RoundWalk
        <4>4. (k % L) + 1 \in 1 .. L /\ ((k - 2 + L) % L) + 1 \in 1 .. L  BY <4>2, <4>3
        <4>5. (x % L) + 1 \in 1 .. L  BY <3>3, <4>1, <4>4, Zenon
        <4> QED BY <4>1, <4>5
      <3> QED BY <1>4, <3>4, <3>5
    <2> QED BY <2>2, <2>3
  <1> QED BY <1>6, <1>7

LEMMA DispatchInv == ASSUME NEW h, NEW w, NEW c, NEW m, StackInv(c, m), Len(c) < MaxDepth
                     PROVE  StackInv(CreateDispatch(h, w, c), m)
  <1>1. StackInv(Append(c, Frame("nccreate", h, "nccreate", w[h].proc)), m)  BY FramePush
  <1> QED BY <1>1 DEF CreateDispatch

LEMMA WindowOpsInv == ASSUME TableInv, WindowOps, modal' = modal PROVE TableInv'
  <1>0. WinsOK(win) /\ focus \in {0} \cup Hwnd /\ told \subseteq Hwnd /\ ustat \in {"run", "abort"} /\ StackInv(calls, modal.h)
    BY DEF TableInv
  <1>1. ASSUME NEW p \in {0, 1}, NEW par \in {0, 1}, NEW s, NEW api, CreateWindowEx(p, par, s, api) PROVE TableInv'
    <2>1. PICK h : h = Least(Free)  OBVIOUS
    <2>2. PICK r : r = Created(h, p, par, s, api)  OBVIOUS
    <2>3. PICK w : w = [win EXCEPT ![h] = r]  OBVIOUS
    <2>4. /\ win' = w /\ told' = told \ {h} /\ focus' = focus /\ ustat' = ustat /\ Len(calls) < MaxDepth
          /\ par # 0 => Live(par)
          /\ calls' = IF hook THEN Append(calls, Frame("cbt", h, "cbt", 0)) ELSE CreateDispatch(h, w, calls)
      BY <1>1, <2>1, <2>2, <2>3 DEF CreateWindowEx, Deeper
    <2>5. par \in {0} \cup Hwnd  BY <2>4 DEF Live
    <2>6. GoodWin(r)  BY <2>2, <2>5, CreatedIsGood
    <2>7. WinsOK(w)  BY <1>0, <2>3, <2>6, PutWindow
    <2>8. StackInv(Append(calls, Frame("cbt", h, "cbt", 0)), modal.h)  BY <1>0, <2>4, FramePush
    <2>9. StackInv(CreateDispatch(h, w, calls), modal.h)  BY <1>0, <2>4, DispatchInv
    <2>10. StackInv(calls', modal.h)  BY <2>4, <2>8, <2>9
    <2> QED BY <1>0, <2>4, <2>7, <2>10 DEF TableInv
  <1>2. CASE CbtReturn
    <2>1. calls # <<>> /\ Last(calls).kind = "cbt" /\ calls' = CreateDispatch(Last(calls).h, win, Front(calls))
          /\ UNCHANGED <<win, told, focus, ustat>>
      BY <1>2 DEF CbtReturn
    <2>2. StackInv(Front(calls), modal.h) /\ Len(Front(calls)) < MaxDepth  BY <1>0, <2>1, LastPart
    <2>3. StackInv(calls', modal.h)  BY <2>1, <2>2, DispatchInv
    <2> QED BY <1>0, <2>1, <2>3 DEF TableInv
  <1>3. ASSUME NEW ok \in BOOLEAN, CreateReturn(ok) PROVE TableInv'
    <2>1. PICK f : f = Last(calls)  OBVIOUS
    <2>2. /\ calls # <<>> /\ f.kind \in {"nccreate", "create"} /\ UNCHANGED <<focus, ustat>>
          /\ calls' = IF ok /\ f.kind = "nccreate" THEN Append(Front(calls), Frame("create", f.h, "create", f.arg))
                      ELSE Front(calls)
          /\ win' = IF ok THEN win ELSE [win EXCEPT ![f.h].used = FALSE]
          /\ told' = IF ok THEN told ELSE told \ {f.h}
      BY <1>3, <2>1 DEF CreateReturn
    <2>3. StackInv(Front(calls), modal.h) /\ Len(Front(calls)) < MaxDepth
      <3>1. Last(calls).kind # "modal"  BY <2>1, <2>2
      <3> QED BY <1>0, <2>2, <3>1, LastPart
    <2>4. StackInv(Append(Front(calls), Frame("create", f.h, "create", f.arg)), modal.h)  BY <2>3, FramePush
    <2>5. StackInv(calls', modal.h)  BY <2>2, <2>3, <2>4
    <2>6. WinsOK([win EXCEPT ![f.h].used = FALSE])  BY <1>0, WriteWindow
    <2>7. WinsOK(win') /\ told' \subseteq Hwnd  BY <1>0, <2>2, <2>6
    <2> QED BY <1>0, <2>2, <2>5, <2>7 DEF TableInv
  <1>4. CASE PlainReturn
    <2>1. calls # <<>> /\ Last(calls).kind = "plain" /\ calls' = Front(calls) /\ UNCHANGED <<win, told, focus, ustat>>
      BY <1>4 DEF PlainReturn
    <2>2. StackInv(calls', modal.h)  BY <1>0, <2>1, LastPart
    <2> QED BY <1>0, <2>1, <2>2 DEF TableInv
  <1> QED BY <1>1, <1>2, <1>3, <1>4 DEF WindowOps

LEMMA TableOpsInv == ASSUME TableInv, DestroyOps \/ HookOps \/ CloseOps, modal' = modal PROVE TableInv'
  <1>0. WinsOK(win) /\ focus \in {0} \cup Hwnd /\ told \subseteq Hwnd /\ ustat \in {"run", "abort"} /\ StackInv(calls, modal.h)
    BY DEF TableInv
  <1>1. ASSUME NEW h, DestroyWindow(h) PROVE TableInv'
    <2>1. win' = [win EXCEPT ![h].used = FALSE] /\ told' = told \ {h} /\ UNCHANGED <<calls, focus, ustat>>
      BY <1>1 DEF DestroyWindow
    <2>2. WinsOK(win')  BY <1>0, <2>1, WriteWindow
    <2> QED BY <1>0, <2>1, <2>2 DEF TableInv
  <1>2. ASSUME NEW on, SetWindowsHookEx(on) PROVE TableInv'  BY <1>0, <1>2 DEF SetWindowsHookEx, TableInv
  <1>3. ASSUME NEW h, Subclass(h) PROVE TableInv'
    <2>1. win' = [win EXCEPT ![h].proc = 1] /\ UNCHANGED <<calls, focus, told, ustat>>  BY <1>3 DEF Subclass
    <2>2. 1 \in {0, 1}  OBVIOUS
    <2>3. WinsOK([win EXCEPT ![h].proc = 1])  BY <1>0, <2>2, WriteWindow
    <2> QED BY <1>0, <2>1, <2>3 DEF TableInv
  <1>4. ASSUME NEW h, SendMessage(h, "close") PROVE TableInv'
    <2>1. calls' = Append(calls, Frame("plain", h, "close", 0)) /\ Len(calls) < MaxDepth /\ UNCHANGED <<win, focus, told, ustat>>
      BY <1>4 DEF SendMessage, Deeper
    <2>2. StackInv(calls', modal.h)  BY <1>0, <2>1, FramePush
    <2> QED BY <1>0, <2>1, <2>2 DEF TableInv
  <1>5. CASE DefWindowProc
    <2>1. PICK h : h = Last(calls).h  OBVIOUS
    <2>2. UNCHANGED <<focus, told, ustat>>  BY <1>5 DEF DefWindowProc
    <2>3. CASE win' = [win EXCEPT ![h].erase = FALSE, ![h].paint = FALSE] /\ UNCHANGED calls
      <3>1. PICK w : w = [win EXCEPT ![h].erase = FALSE]  OBVIOUS
      <3>2. WinsOK(w)  BY <1>0, <3>1, WriteWindow
      <3>3. win' = [w EXCEPT ![h].paint = FALSE]  BY <2>3, <3>1
      <3>4. WinsOK([w EXCEPT ![h].paint = FALSE])  BY <3>2, WriteWindow
      <3> QED BY <1>0, <2>2, <2>3, <3>3, <3>4 DEF TableInv
    <2>4. CASE calls' = Append(calls, Frame("close", h, "destroy", 0)) /\ Deeper /\ UNCHANGED win
      <3>1. StackInv(calls', modal.h)  BY <1>0, <2>4, FramePush DEF Deeper
      <3> QED BY <1>0, <2>2, <2>4, <3>1 DEF TableInv
    <2>5. CASE win' = [win EXCEPT ![h].used = FALSE] /\ UNCHANGED calls
      <3>1. WinsOK([win EXCEPT ![h].used = FALSE])  BY <1>0, WriteWindow
      <3> QED BY <1>0, <2>2, <2>5, <3>1 DEF TableInv
    <2> QED BY <1>5, <2>1, <2>3, <2>4, <2>5 DEF DefWindowProc
  <1>6. CASE CloseReturn
    <2>1. PICK h : h = Last(calls).h  OBVIOUS
    <2>2. /\ calls # <<>> /\ Last(calls).kind = "close" /\ calls' = Front(calls)
          /\ win' = [win EXCEPT ![h].used = FALSE] /\ told' = told \ {h} /\ UNCHANGED <<focus, ustat>>
      BY <1>6, <2>1 DEF CloseReturn
    <2>3. WinsOK([win EXCEPT ![h].used = FALSE])  BY <1>0, WriteWindow
    <2>4. StackInv(calls', modal.h)  BY <1>0, <2>2, LastPart
    <2> QED BY <1>0, <2>2, <2>3, <2>4 DEF TableInv
  <1> QED BY <1>1, <1>2, <1>3, <1>4, <1>5, <1>6 DEF DestroyOps, HookOps, CloseOps

LEMMA PaintOpsInv == ASSUME TableInv, PaintOps, modal' = modal PROVE TableInv'
  <1>0. WinsOK(win) /\ focus \in {0} \cup Hwnd /\ told \subseteq Hwnd /\ ustat \in {"run", "abort"} /\ StackInv(calls, modal.h)
    BY DEF TableInv
  <1>1. ASSUME NEW h, NEW b, ShowWindow(h, b) PROVE TableInv'
    <2>1. PICK owes : owes = (b /\ ~win[h].visible /\ win[h].parent = 0 /\ ~win[h].child)  OBVIOUS
    <2>2. PICK a : a = [win EXCEPT ![h].visible = b]  OBVIOUS
    <2>3. PICK x : x = (a[h].paint \/ owes)  OBVIOUS
    <2>4. PICK c : c = [a EXCEPT ![h].paint = x]  OBVIOUS
    <2>5. PICK y : y = (c[h].erase \/ owes)  OBVIOUS
    <2>6. /\ win' = [win EXCEPT ![h].visible = b, ![h].paint = @ \/ owes, ![h].erase = @ \/ owes]
          /\ UNCHANGED <<calls, focus, told, ustat>>
      BY <1>1, <2>1, Zenon DEF ShowWindow
    <2>7. win' = [c EXCEPT ![h].erase = y]  BY <2>2, <2>3, <2>4, <2>5, <2>6, Zenon
    <2>8. WinsOK(a)  BY <1>0, <2>2, WriteWindow
    <2>9. WinsOK(c)  BY <2>4, <2>8, WriteWindow
    <2>10. WinsOK([c EXCEPT ![h].erase = y])  BY <2>9, WriteWindow
    <2> QED BY <1>0, <2>6, <2>7, <2>10 DEF TableInv
  <1>2. ASSUME NEW h, NEW b, SetWindowPos(h, b) PROVE TableInv'
    <2>1. win' = [win EXCEPT ![h].visible = b] /\ UNCHANGED <<calls, focus, told, ustat>>  BY <1>2 DEF SetWindowPos
    <2>2. WinsOK([win EXCEPT ![h].visible = b])  BY <1>0, WriteWindow
    <2> QED BY <1>0, <2>1, <2>2 DEF TableInv
  <1>3. ASSUME NEW h, NEW b, InvalidateRect(h, b) PROVE TableInv'
    <2>1. /\ win' = [k \in Hwnd |-> IF h \in {0, k} /\ Paints(k)
                                    THEN [win[k] EXCEPT !.paint = TRUE, !.erase = @ \/ b] ELSE win[k]]
          /\ UNCHANGED <<calls, focus, told, ustat>>
      BY <1>3 DEF InvalidateRect
    <2>2. ASSUME NEW k \in Hwnd PROVE GoodWin(win'[k])
      <3>1. GoodWin(win[k])  BY <1>0 DEF WinsOK
      <3>2. PICK p : p = [win[k] EXCEPT !.paint = TRUE]  OBVIOUS
      <3>3. PICK e : e = (p.erase \/ b)  OBVIOUS
      <3>4. PICK q : q = [p EXCEPT !.erase = e]  OBVIOUS
      <3>5. GoodWin(p)  BY <3>1, <3>2, GoodWritten
      <3>6. GoodWin(q)  BY <3>4, <3>5, GoodWritten
      <3>7. win'[k] = (IF h \in {0, k} /\ Paints(k) THEN [win[k] EXCEPT !.paint = TRUE, !.erase = @ \/ b] ELSE win[k])
        BY <2>1, Zenon
      <3>8. [win[k] EXCEPT !.paint = TRUE, !.erase = @ \/ b] = q  BY <3>2, <3>3, <3>4, Zenon
      <3> QED BY <3>1, <3>6, <3>7, <3>8, Zenon
    <2>3. win' = [k \in Hwnd |-> win'[k]]  BY <2>1
    <2>4. WinsOK(win')  BY <2>2, <2>3 DEF WinsOK
    <2> QED BY <1>0, <2>1, <2>4 DEF TableInv
  <1>4. ASSUME NEW h, ValidateRect(h) PROVE TableInv'
    <2>1. win' = [win EXCEPT ![h].paint = FALSE] /\ UNCHANGED <<calls, focus, told, ustat>>  BY <1>4 DEF ValidateRect
    <2>2. WinsOK([win EXCEPT ![h].paint = FALSE])  BY <1>0, WriteWindow
    <2> QED BY <1>0, <2>1, <2>2 DEF TableInv
  <1>5. ASSUME NEW h, NEW inv, NEW now, RedrawWindow(h, inv, FALSE, now) PROVE TableInv'
    <2>1. PICK v : v = [win EXCEPT ![h].paint = TRUE]  OBVIOUS
    <2>2. PICK e : e = (v[h].erase \/ FALSE)  OBVIOUS
    <2>3. PICK u : u = [v EXCEPT ![h].erase = e]  OBVIOUS
    <2>4. WinsOK(v)  BY <1>0, <2>1, WriteWindow
    <2>5. WinsOK(u)  BY <2>3, <2>4, WriteWindow
    <2>6. [win EXCEPT ![h].paint = TRUE, ![h].erase = @ \/ FALSE] = u  BY <2>1, <2>2, <2>3, Zenon
    <2>7. PICK w : w = IF inv /\ Paints(h) THEN [win EXCEPT ![h].paint = TRUE, ![h].erase = @ \/ FALSE] ELSE win  OBVIOUS
    <2>8. /\ win' = w /\ UNCHANGED <<focus, told, ustat>> /\ Len(calls) < MaxDepth
          /\ calls' \in {calls, Append(calls, Frame("plain", h, "paint", 0))}
      BY <1>5, <2>7, Zenon DEF RedrawWindow, Deeper
    <2>9. WinsOK(w)  BY <1>0, <2>5, <2>6, <2>7, Zenon
    <2>10. StackInv(Append(calls, Frame("plain", h, "paint", 0)), modal.h)  BY <1>0, <2>8, FramePush
    <2>11. StackInv(calls', modal.h)  BY <1>0, <2>8, <2>10
    <2> QED BY <1>0, <2>8, <2>9, <2>11 DEF TableInv
  <1>6. ASSUME NEW h, BeginPaint(h) PROVE TableInv'
    <2>1. PICK w : w = [win EXCEPT ![h].erase = FALSE]  OBVIOUS
    <2>2. WinsOK(w)  BY <1>0, <2>1, WriteWindow
    <2>3. UNCHANGED <<focus, told, ustat>> /\ Len(calls) < MaxDepth  BY <1>6 DEF BeginPaint, Deeper
    <2>4. CASE win' = w /\ calls' = Append(calls, Frame("erase", h, "erase", 0))
      <3>1. StackInv(calls', modal.h)  BY <1>0, <2>3, <2>4, FramePush
      <3> QED BY <1>0, <2>2, <2>3, <2>4, <3>1 DEF TableInv
    <2>5. CASE win' = [win EXCEPT ![h].erase = FALSE, ![h].paint = FALSE] /\ UNCHANGED calls
      <3>1. win' = [w EXCEPT ![h].paint = FALSE]  BY <2>1, <2>5
      <3>2. WinsOK([w EXCEPT ![h].paint = FALSE])  BY <2>2, WriteWindow
      <3> QED BY <1>0, <2>3, <2>5, <3>1, <3>2 DEF TableInv
    <2> QED BY <1>6, <2>1, <2>4, <2>5 DEF BeginPaint
  <1>7. CASE EraseReturn
    <2>1. PICK h : h = Last(calls).h  OBVIOUS
    <2>2. /\ calls # <<>> /\ Last(calls).kind = "erase" /\ win' = [win EXCEPT ![h].paint = FALSE] /\ calls' = Front(calls)
          /\ UNCHANGED <<focus, told, ustat>>
      BY <1>7, <2>1 DEF EraseReturn
    <2>3. WinsOK([win EXCEPT ![h].paint = FALSE])  BY <1>0, WriteWindow
    <2>4. StackInv(calls', modal.h)  BY <1>0, <2>2, LastPart
    <2> QED BY <1>0, <2>2, <2>3, <2>4 DEF TableInv
  <1>8. CASE DefWindowProc  BY <1>8, TableOpsInv DEF CloseOps
  <1> QED BY <1>1, <1>2, <1>3, <1>4, <1>5, <1>6, <1>7, <1>8 DEF PaintOps

LEMMA LoopOpsInv == ASSUME TableInv, TimerOps \/ PostOps \/ LoopOps \/ FocusOps, modal' = modal PROVE TableInv'
  <1>0. WinsOK(win) /\ focus \in {0} \cup Hwnd /\ told \subseteq Hwnd /\ ustat \in {"run", "abort"} /\ StackInv(calls, modal.h)
    BY DEF TableInv
  <1>1. CASE TimerOps
    <2>1. UNCHANGED <<win, told, focus, calls, ustat>>
      BY <1>1 DEF TimerOps, KillTimer, SetTimer, Tick, MsgWait
    <2> QED BY <1>0, <2>1 DEF TableInv
  <1>2. CASE PostOps  BY <1>0, <1>2 DEF PostOps, PostMessage, TableInv
  <1>3. CASE PostQuitMessage  BY <1>0, <1>3 DEF PostQuitMessage, TableInv
  <1>4. ASSUME NEW r, PeekMessage(r) PROVE TableInv'
    <2>1. UNCHANGED <<win, told, focus, calls, ustat>>  BY <1>4 DEF PeekMessage
    <2> QED BY <1>0, <2>1 DEF TableInv
  <1>5. CASE GetMessage
    <2>1. calls' = Append(calls, Frame("getmsg", 0, "none", 0)) /\ Len(calls) < MaxDepth /\ UNCHANGED <<win, focus, told, ustat>>
      BY <1>5 DEF GetMessage, Deeper
    <2>2. StackInv(calls', modal.h)  BY <1>0, <2>1, FramePush
    <2> QED BY <1>0, <2>1, <2>2 DEF TableInv
  <1>6. CASE GetMessageStep
    <2>1. /\ calls # <<>> /\ Last(calls).kind = "getmsg" /\ calls' \in {calls, Front(calls)} /\ UNCHANGED <<win, told, focus>>
          /\ ustat' \in {ustat, "abort"}
      BY <1>6 DEF GetMessageStep, Waiting
    <2>2. StackInv(Front(calls), modal.h)  BY <1>0, <2>1, LastPart
    <2>3. StackInv(calls', modal.h)  BY <1>0, <2>1, <2>2
    <2> QED BY <1>0, <2>1, <2>3 DEF TableInv
  <1>7. CASE DispatchMessage
    <2>1. /\ UNCHANGED <<win, told, focus, ustat>> /\ Len(calls) < MaxDepth
          /\ \/ calls' = calls
             \/ calls' = Append(calls, Frame("plain", 0, "timerproc", 0))
             \/ calls' = Append(calls, Frame("dispatch", msg.h, msg.m, 0))
      BY <1>7 DEF DispatchMessage, Deeper
    <2>2. StackInv(Append(calls, Frame("plain", 0, "timerproc", 0)), modal.h)  BY <1>0, <2>1, FramePush
    <2>3. StackInv(Append(calls, Frame("dispatch", msg.h, msg.m, 0)), modal.h)  BY <1>0, <2>1, FramePush
    <2>4. StackInv(calls', modal.h)  BY <1>0, <2>1, <2>2, <2>3
    <2> QED BY <1>0, <2>1, <2>4 DEF TableInv
  <1>8. CASE DispatchReturn
    <2>1. calls # <<>> /\ Last(calls).kind = "dispatch" /\ calls' = Front(calls) /\ UNCHANGED <<win, told, focus, ustat>>
      BY <1>8 DEF DispatchReturn
    <2>2. StackInv(calls', modal.h)  BY <1>0, <2>1, LastPart
    <2> QED BY <1>0, <2>1, <2>2 DEF TableInv
  <1>9. ASSUME NEW n \in {0} \cup Hwnd, SetFocus(n) PROVE TableInv'
    <2>1. MoveFocus(n, calls) /\ Len(calls) < MaxDepth /\ UNCHANGED <<win, ustat>>  BY <1>9 DEF SetFocus, Deeper
    <2>2. told' \subseteq Hwnd /\ focus' \in {0} \cup Hwnd /\ StackInv(calls', modal.h)  BY <1>0, <2>1, MoveInv
    <2> QED BY <1>0, <2>1, <2>2 DEF TableInv
  <1>10. CASE KillFocusReturn
    <2>1. /\ calls # <<>> /\ Last(calls).kind = "killfocus" /\ TellFocus(Last(calls).arg, Front(calls))
          /\ UNCHANGED <<win, focus, ustat>>
      BY <1>10 DEF KillFocusReturn
    <2>2. StackInv(Front(calls), modal.h) /\ Len(Front(calls)) < MaxDepth  BY <1>0, <2>1, LastPart
    <2>3. told' \subseteq Hwnd /\ StackInv(calls', modal.h)  BY <1>0, <2>1, <2>2, TellInv
    <2> QED BY <1>0, <2>1, <2>3 DEF TableInv
  <1> QED BY <1>1, <1>2, <1>3, <1>4, <1>5, <1>6, <1>7, <1>8, <1>9, <1>10 DEF LoopOps, FocusOps

ModalOK == modal \in [h : {0} \cup Hwnd, ended : BOOLEAN]

LEMMA PopulateInv == ASSUME NEW f, NEW w, NEW c, WinsOK(w), f.h \in Hwnd, f.items \in Templates, StackInv(c, modal.h),
                            Len(c) + 2 <= MaxDepth, f.box => NoLoop(c), ModalOK, Populate(f, w, c)
                     PROVE  WinsOK(win') /\ ModalOK' /\ StackInv(calls', modal'.h)
  <1>1. WinsOK(win')
    <2>1. PICK v : v = [w EXCEPT ![f.h].dialog = TRUE]  OBVIOUS
    <2>2. WinsOK(v)  BY <2>1, WriteWindow
    <2>3. win' = NewControls(v, f.h, f.items)  BY <2>1 DEF Populate
    <2>4. Len(f.items) \in Nat  BY DialogsAssumption, LenProperties
    <2>5. WinsOK(NewControls(v, f.h, f.items))  BY <2>2, <2>4, ControlsAreGood
    <2> QED BY <2>3, <2>5
  <1>2. Len(c) < MaxDepth /\ FramesOK(c) /\ IsSeq(c)
    <2>1. FramesOK(c) /\ IsSeq(c)  BY DEF StackInv, FramesOK
    <2>2. Len(c) \in Nat  BY <2>1, Appended
    <2> QED BY <2>1, <2>2, WindowsAssumption
  <1>3. CASE f.box
    <2>1. PICK a : a = Frame("modal", f.h, "none", 0)  OBVIOUS
    <2>2. PICK b : b = [Frame("init", f.h, "init", 0) EXCEPT !.box = TRUE]  OBVIOUS
    <2>3. a.kind = "modal" /\ a.h = f.h /\ b.kind = "init"  BY <2>1, <2>2 DEF Frame
    <2>4. modal' = [h |-> f.h, ended |-> FALSE] /\ calls' = c \o <<a, b>>  BY <1>3, <2>1, <2>2 DEF Populate
    <2>5. PICK p : p = Append(c, a)  OBVIOUS
    <2>6. StackInv(p, f.h) /\ Len(p) < MaxDepth
      <3>1. NoLoop(c) /\ a.h \in Hwnd  BY <1>3, <2>3
      <3>2. StackInv(Append(c, a), a.h) /\ Len(Append(c, a)) < MaxDepth  BY <1>2, <2>3, <3>1, StackLoop
      <3> QED BY <2>3, <2>5, <3>2
    <2>7. StackInv(Append(p, b), f.h)  BY <2>3, <2>6, StackPush
    <2>8. calls' = Append(p, b)  BY <1>2, <2>4, <2>5, TwoAppended
    <2>9. modal'.h = f.h /\ ModalOK'  BY <2>4 DEF ModalOK
    <2> QED BY <1>1, <2>7, <2>8, <2>9
  <1>4. CASE ~f.box
    <2>1. calls' = Append(c, Frame("init", f.h, "init", 0)) /\ modal' = modal  BY <1>4 DEF Populate
    <2>2. StackInv(calls', modal.h)  BY <1>2, <2>1, FramePush
    <2> QED BY <1>1, <2>1, <2>2 DEF ModalOK
  <1> QED BY <1>3, <1>4

LEMMA DialogOpsInv == ASSUME TableInv, ModalOK, DialogOps PROVE TableInv' /\ ModalOK'
  <1>0. WinsOK(win) /\ focus \in {0} \cup Hwnd /\ told \subseteq Hwnd /\ ustat \in {"run", "abort"} /\ StackInv(calls, modal.h)
    BY DEF TableInv
  <1>1. ASSUME NEW t \in Templates, NEW box \in BOOLEAN, CreateDialog(t, box, TRUE) PROVE TableInv' /\ ModalOK'
    <2>1. CASE box /\ modal.h # 0
      <3>1. ustat' = "abort" /\ UNCHANGED <<win, focus, calls, told, modal>>  BY <1>1, <2>1 DEF CreateDialog
      <3> QED BY <1>0, <3>1 DEF TableInv, ModalOK
    <2>2. CASE ~(box /\ modal.h # 0)
      <3>1. PICK h : h = Least(Free)  OBVIOUS
      <3>2. PICK r : r = Created(h, 1, 0, [child |-> FALSE, visible |-> TRUE], "dialog")  OBVIOUS
      <3>3. PICK w : w = [win EXCEPT ![h] = r]  OBVIOUS
      <3>4. PICK f : f = [Frame("dlgcbt", h, "cbt", 0) EXCEPT !.items = t, !.box = box]  OBVIOUS
      <3>5. /\ IF hook THEN win' = w /\ calls' = Append(calls, f) /\ UNCHANGED modal ELSE Populate(f, w, calls)
            /\ told' = told \ {h} /\ UNCHANGED <<focus, ustat>> /\ Free # {} /\ Len(calls) + 2 <= MaxDepth
        BY <1>1, <2>2, <3>1, <3>2, <3>3, <3>4 DEF CreateDialog
      <3>6. h \in Hwnd
        <4>1. Free \subseteq Hwnd  BY DEF Free
        <4> QED BY <3>1, <3>5, <4>1, LeastOfHwnd
      <3>7. GoodWin(r)
        <4>1. 1 \in {0, 1} /\ 0 \in {0} \cup Hwnd  OBVIOUS
        <4> QED BY <3>2, <4>1, CreatedIsGood
      <3>8. WinsOK(w)  BY <1>0, <3>3, <3>7, PutWindow
      <3>9. f.kind = "dlgcbt" /\ f.items = t /\ f.h = h /\ f.box = box  BY <3>4 DEF Frame
      <3>10. f.box => modal.h = 0  BY <2>2, <3>9
      <3>11. CASE hook
        <4>1. StackInv(Append(calls, f), modal.h)  BY <1>0, <3>5, <3>6, <3>9, <3>10, StackHook
        <4>2. win' = w /\ calls' = Append(calls, f) /\ UNCHANGED modal  BY <3>5, <3>11
        <4> QED BY <1>0, <3>5, <3>8, <4>1, <4>2 DEF TableInv, ModalOK
      <3>12. CASE ~hook
        <4>1. Populate(f, w, calls)  BY <3>5, <3>12
        <4>2. f.box => NoLoop(calls)
          <5>1. ASSUME f.box PROVE NoLoop(calls)
            <6>1. modal.h = 0  BY <3>10, <5>1
            <6> QED BY <1>0, <6>1, NoLoopAtZero
          <5> QED BY <5>1
        <4>3. WinsOK(win') /\ ModalOK' /\ StackInv(calls', modal'.h)
          BY <1>0, <3>5, <3>6, <3>8, <3>9, <4>1, <4>2, PopulateInv
        <4> QED BY <1>0, <3>5, <4>3 DEF TableInv
      <3> QED BY <3>11, <3>12
    <2> QED BY <2>1, <2>2
  <1>2. CASE DlgCbtReturn
    <2>1. PICK f : f = Last(calls)  OBVIOUS
    <2>2. calls # <<>> /\ f.kind = "dlgcbt" /\ Populate(f, win, Front(calls)) /\ UNCHANGED <<focus, told, ustat>>
      BY <1>2, <2>1 DEF DlgCbtReturn
    <2>3. PICK c : c = Front(calls)  OBVIOUS
    <2>4. StackInv(c, modal.h)
      <3>1. Last(calls).kind # "modal"  BY <2>1, <2>2
      <3> QED BY <1>0, <2>2, <2>3, <3>1, LastPart
    <2>5. f.h \in Hwnd /\ f.items \in Templates /\ Len(c) + 2 <= MaxDepth /\ (f.box => NoLoop(c))
      BY <1>0, <2>1, <2>2, <2>3, FramesPopped DEF StackInv
    <2>6. WinsOK(win') /\ ModalOK' /\ StackInv(calls', modal'.h)  BY <1>0, <2>2, <2>3, <2>4, <2>5, PopulateInv
    <2> QED BY <1>0, <2>2, <2>6 DEF TableInv
  <1>3. ASSUME NEW ret \in BOOLEAN, InitReturn(ret) PROVE TableInv' /\ ModalOK'
    <2>1. calls # <<>> /\ Last(calls).kind = "init" /\ UNCHANGED <<win, ustat, modal>>  BY <1>3 DEF InitReturn
    <2>2. StackInv(Front(calls), modal.h) /\ Len(Front(calls)) < MaxDepth  BY <1>0, <2>1, LastPart
    <2>3. CASE calls' = Front(calls) /\ UNCHANGED <<focus, told>>  BY <1>0, <2>1, <2>2, <2>3 DEF TableInv, ModalOK
    <2>4. PICK n : n = NextDlgItem(Last(calls).h, 0, FALSE, TRUE)  OBVIOUS
    <2>5. n \in {0} \cup Hwnd  BY <2>4, NextIsWindow
    <2>6. CASE MoveFocus(n, Front(calls))
      <3>1. told' \subseteq Hwnd /\ focus' \in {0} \cup Hwnd /\ StackInv(calls', modal.h)
        BY <1>0, <2>2, <2>5, <2>6, MoveInv
      <3> QED BY <1>0, <2>1, <3>1 DEF TableInv, ModalOK
    <2> QED BY <1>3, <2>3, <2>4, <2>6, Zenon DEF InitReturn
  <1>4. CASE EndDialog
    <2>1. modal' = [modal EXCEPT !.ended = TRUE] /\ UNCHANGED <<win, focus, told, ustat, calls>>  BY <1>4 DEF EndDialog, vars
    <2>2. modal'.h = modal.h /\ ModalOK'  BY <2>1 DEF ModalOK
    <2> QED BY <1>0, <2>1, <2>2 DEF TableInv
  <1>5. CASE ModalDone
    <2>1. PICK D : D = DialogWindows(Last(calls).h)  OBVIOUS
    <2>2. /\ win' = [h \in Hwnd |-> IF h \in D THEN [win[h] EXCEPT !.used = FALSE] ELSE win[h]]
          /\ told' = told \ D /\ calls # <<>> /\ Last(calls).kind = "modal" /\ calls' = Front(calls) /\ UNCHANGED <<focus, ustat>>
          /\ modal' = [modal EXCEPT !.h = 0]
      BY <1>5, <2>1 DEF ModalDone
    <2>3. ASSUME NEW h \in Hwnd PROVE GoodWin(win'[h])
      <3>1. GoodWin(win[h])  BY <1>0 DEF WinsOK
      <3>2. GoodWin([win[h] EXCEPT !.used = FALSE])  BY <3>1, GoodWritten
      <3> QED BY <2>2, <3>1, <3>2
    <2>4. win' = [h \in Hwnd |-> win'[h]]  BY <2>2
    <2>5. WinsOK(win')  BY <2>3, <2>4 DEF WinsOK
    <2>6. modal'.h = 0 /\ ModalOK'  BY <2>2 DEF ModalOK
    <2>7. StackInv(calls', 0)  BY <1>0, <2>2, StackPop
    <2> QED BY <1>0, <2>2, <2>5, <2>6, <2>7 DEF TableInv
  <1>6. CASE ModalStep
    <2>1. /\ calls # <<>> /\ Last(calls).kind = "modal" /\ UNCHANGED <<win, focus, told, modal>> /\ ustat' \in {ustat, "abort"}
          /\ calls' \in {calls, Append(calls, Frame("fetched", 0, "none", 0))}
      BY <1>6 DEF ModalStep
    <2>2. Len(calls) < MaxDepth  BY <1>0, <2>1, FramesPopped DEF StackInv
    <2>3. StackInv(Append(calls, Frame("fetched", 0, "none", 0)), modal.h)  BY <1>0, <2>2, FramePush
    <2>4. StackInv(calls', modal.h)  BY <1>0, <2>1, <2>3
    <2> QED BY <1>0, <2>1, <2>4 DEF TableInv, ModalOK
  <1>7. CASE ModalDispatch
    <2>1. calls # <<>> /\ Last(calls).kind = "fetched" /\ UNCHANGED <<win, ustat, modal>>  BY <1>7 DEF ModalDispatch
    <2>2. StackInv(Front(calls), modal.h) /\ Len(Front(calls)) < MaxDepth  BY <1>0, <2>1, LastPart
    <2>3. CASE calls' = Append(Front(calls), Frame("modalmsg", msg.h, msg.m, 0)) /\ UNCHANGED <<focus, told>>
      <3>1. StackInv(calls', modal.h)  BY <2>2, <2>3, FramePush
      <3> QED BY <1>0, <2>1, <2>3, <3>1 DEF TableInv, ModalOK
    <2>4. CASE calls' = Front(calls) /\ UNCHANGED <<focus, told>>  BY <1>0, <2>1, <2>2, <2>4 DEF TableInv, ModalOK
    <2>5. ASSUME NEW d, HitTest(d, Front(calls)) PROVE TableInv' /\ ModalOK'
      <3>1. told' \subseteq Hwnd /\ focus' \in {0} \cup Hwnd /\ StackInv(calls', modal.h)  BY <1>0, <2>2, <2>5, HitInv
      <3> QED BY <1>0, <2>1, <3>1 DEF TableInv, ModalOK
    <2> QED BY <1>7, <2>3, <2>4, <2>5 DEF ModalDispatch
  <1>8. CASE ClickReturn
    <2>1. calls # <<>> /\ Last(calls).kind \in {"modalmsg", "dispatch"} /\ UNCHANGED <<win, ustat, modal>>
      BY <1>8 DEF ClickReturn
    <2>2. StackInv(Front(calls), modal.h) /\ Len(Front(calls)) < MaxDepth
      <3>1. Last(calls).kind # "modal"  BY <2>1
      <3> QED BY <1>0, <2>1, <3>1, LastPart
    <2>3. CASE calls' = Front(calls) /\ UNCHANGED <<focus, told>>  BY <1>0, <2>1, <2>2, <2>3 DEF TableInv, ModalOK
    <2>4. ASSUME NEW d, HitTest(d, Front(calls)) PROVE TableInv' /\ ModalOK'
      <3>1. told' \subseteq Hwnd /\ focus' \in {0} \cup Hwnd /\ StackInv(calls', modal.h)  BY <1>0, <2>2, <2>4, HitInv
      <3> QED BY <1>0, <2>1, <3>1 DEF TableInv, ModalOK
    <2> QED BY <1>8, <2>3, <2>4 DEF ClickReturn
  <1>9. ASSUME NEW d \in Hwnd, IsDialogMessage(d) PROVE TableInv' /\ ModalOK'
    <2>1. Len(calls) < MaxDepth /\ UNCHANGED <<win, ustat, modal>>  BY <1>9 DEF IsDialogMessage, Deeper
    <2>2. CASE calls' = calls /\ UNCHANGED <<focus, told>>  BY <1>0, <2>1, <2>2 DEF TableInv, ModalOK
    <2>3. CASE calls' = Append(calls, Frame("plain", d, "command", 1)) /\ UNCHANGED <<focus, told>>
      <3>1. StackInv(calls', modal.h)  BY <1>0, <2>1, <2>3, FramePush
      <3> QED BY <1>0, <2>1, <2>3, <3>1 DEF TableInv, ModalOK
    <2>4. PICK n : n = NextDlgItem(d, focus, msg.m = "left", msg.m = "tab")  OBVIOUS
    <2>5. n \in {0} \cup Hwnd  BY <2>4, NextIsWindow
    <2>6. CASE MoveFocus(n, calls)
      <3>1. told' \subseteq Hwnd /\ focus' \in {0} \cup Hwnd /\ StackInv(calls', modal.h)  BY <1>0, <2>1, <2>5, <2>6, MoveInv
      <3> QED BY <1>0, <2>1, <3>1 DEF TableInv, ModalOK
    <2> QED BY <1>9, <2>2, <2>3, <2>4, <2>6, Zenon DEF IsDialogMessage
  <1> QED BY <1>1, <1>2, <1>3, <1>4, <1>5, <1>6, <1>7, <1>8, <1>9 DEF DialogOps

-----------------------------------------------------------------------------
WinInv == TableInv /\ ModalOK /\ TimerInv /\ IsRing(ring)

LEMMA WinAtStart == ASSUME DlgInit PROVE WinInv
  <1>1. /\ win = [h \in Hwnd |-> NoWin] /\ told = {} /\ calls = <<>> /\ focus = 0 /\ ustat = "run"
        /\ modal = [h |-> 0, ended |-> FALSE]
    BY DEF DlgInit, UserInit
  <1>2. GoodWin(NoWin)
    <2>1. IsWin(NoWin)  BY WinMade, Zenon DEF NoWin
    <2>2. NoWin.proc = 0 /\ NoWin.parent = 0  BY DEF NoWin
    <2> QED BY <2>1, <2>2 DEF GoodWin
  <1>3. WinsOK(win)  BY <1>1, <1>2 DEF WinsOK
  <1>4. StackInv(calls, modal.h)
    <2>1. calls \in Seq({}) /\ Len(calls) = 0 /\ modal.h = 0  BY <1>1
    <2>2. FramesOK(calls)  BY <2>1, WindowsAssumption DEF FramesOK, IsSeq
    <2>3. NoLoop(calls)  BY <2>1 DEF NoLoop
    <2> QED BY <2>1, <2>2, <2>3 DEF StackInv, OneLoop
  <1>5. TableInv /\ ModalOK  BY <1>1, <1>3, <1>4 DEF TableInv, ModalOK
  <1> QED BY <1>5, TimersAtStart, EmptyAtStart DEF WinInv

LEMMA WinStep == ASSUME WinInv, [DlgNext]_dlgVars PROVE WinInv'
  <1>0. TableInv /\ ModalOK  BY DEF WinInv
  <1>1. TimerInv'  BY TimerSteps, TimerStepKeeps DEF WinInv
  <1>2. IsRing(ring')  BY StepSimulated DEF WinInv
  <1>3. CASE UserOps /\ UNCHANGED modal
    <2>1. TableInv'  BY <1>0, <1>3, WindowOpsInv, TableOpsInv, PaintOpsInv, LoopOpsInv, Zenon DEF UserOps
    <2>2. ModalOK'  BY <1>0, <1>3 DEF ModalOK
    <2> QED BY <1>1, <1>2, <2>1, <2>2 DEF WinInv
  <1>4. CASE DialogOps
    <2>1. TableInv' /\ ModalOK'  BY <1>0, <1>4, DialogOpsInv
    <2> QED BY <1>1, <1>2, <2>1 DEF WinInv
  <1>5. CASE UNCHANGED dlgVars
    <2>1. UNCHANGED <<win, focus, told, ustat, calls, modal>>  BY <1>5 DEF dlgVars, vars
    <2>2. TableInv' /\ ModalOK'  BY <1>0, <2>1 DEF TableInv, ModalOK
    <2> QED BY <1>1, <1>2, <2>2 DEF WinInv
  <1> QED BY <1>3, <1>4, <1>5, Zenon DEF DlgNext, Aborted

LEMMA WinTypes == ASSUME WinInv PROVE UserTypeOK
  <1>1. \A h \in Hwnd : win[h].proc \in {0, 1} /\ win[h].parent \in {0} \cup Hwnd
    BY DEF WinInv, TableInv, WinsOK, GoodWin
  <1>2. ring.qh \in Slots /\ ring.qt \in Slots
    <2>1. PICK S : ring \in RingOf(S)  BY DEF WinInv, IsRing
    <2> QED BY <2>1 DEF RingOf
  <1>3. ASSUME NEW i \in DOMAIN timer PROVE timer[i].left \in 0 .. timer[i].elapse
    <2>1. i \in 1 .. MaxTimer  BY TimerDomain DEF WinInv, TimerInv
    <2>2. IsTimer(timer[i])  BY <2>1 DEF WinInv, TimerInv, TimersOK
    <2>3. PICK S : timer[i] \in TimerOf(S)  BY <2>2 DEF IsTimer
    <2>4. timer[i].left \in Nat /\ timer[i].elapse \in Nat /\ timer[i].left <= timer[i].elapse
      BY <2>2, <2>3 DEF TimerOf, IsTimer
    <2> QED BY <2>4
  <1>4. focus \in {0} \cup Hwnd /\ told \subseteq Hwnd /\ Len(calls) <= MaxDepth
    BY DEF WinInv, TableInv, StackInv, FramesOK
  <1>5. modal.h \in {0} \cup Hwnd /\ ustat \in {"run", "abort"}  BY DEF WinInv, TableInv, ModalOK
  <1> QED BY <1>1, <1>2, <1>3, <1>4, <1>5 DEF UserTypeOK

LEMMA WinTimers == ASSUME WinInv PROVE TimerUnique
  <1>1. DOMAIN timer = 1 .. MaxTimer /\ Unique(timer)  BY TimerDomain DEF WinInv, TimerInv
  <1> SUFFICES ASSUME NEW i \in DOMAIN timer, NEW j \in DOMAIN timer, timer[i].used, Same(timer[j], timer[i].h, timer[i].id)
               PROVE  i = j
    BY DEF TimerUnique
  <1> QED BY <1>1 DEF Unique, Same

LEMMA WinModal == ASSUME WinInv PROVE ModalMatches
  <1>1. FramesOK(calls) /\ OneLoop(calls, modal.h)  BY DEF WinInv, TableInv, StackInv
  <1>2. PICK S : calls \in Seq(S)  BY <1>1 DEF FramesOK, IsSeq
  <1>3. DOMAIN calls = 1 .. Len(calls)  BY <1>2, LenProperties
  <1>4. PICK loops : loops = {i \in DOMAIN calls : calls[i].kind = "modal"}  OBVIOUS
  <1>5. CASE NoLoop(calls) /\ modal.h = 0
    <2>1. loops = {}  BY <1>3, <1>4, <1>5 DEF NoLoop
    <2> QED BY <1>4, <1>5, <2>1, Zenon DEF ModalMatches
  <1>6. ASSUME NEW k \in 1 .. Len(calls), LoopAt(calls, modal.h, k) PROVE ModalMatches
    <2>1. loops = {k} /\ calls[k].h = modal.h  BY <1>3, <1>4, <1>6 DEF LoopAt
    <2>2. loops # {} /\ \E i \in loops : loops = {i} /\ calls[i].h = modal.h  BY <2>1
    <2> QED BY <1>4, <2>2, Zenon DEF ModalMatches
  <1> QED BY <1>1, <1>5, <1>6 DEF OneLoop

\* Windows, timers and dialogs stay consistent, for every number of windows,
\* timers and nested call-backs and whatever the window procedures do: handles,
\* ring and timers keep their ranges; a window has one timer of an id however
\* SetTimer and KillTimer mix; one modal loop runs for the active modal dialog
\* and none without one, although DialogBoxParam enters it only after its hook
\* ran; and Shift-Tab undoes Tab among the controls (u32_next_dlg_item).
THEOREM WindowsAreSound == DlgSpec => []WindowsSound
  <1>1. DlgInit => WinInv  BY WinAtStart
  <1>2. WinInv /\ [DlgNext]_dlgVars => WinInv'  BY WinStep
  <1>3. WinInv => WindowsSound  BY WinTypes, WinTimers, WinModal, TabsInvert DEF WindowsSound
  <1> QED BY <1>1, <1>2, <1>3, PTL DEF DlgSpec
=============================================================================
