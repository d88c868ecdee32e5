-------------------------- MODULE UsageDaysProofs --------------------------
(***************************************************************************)
(* What the operators of UsageDays do to every word and every day.         *)
(***************************************************************************)
EXTENDS UsageDays, FiniteSetTheorems, TLAPS

(* MarkUsed keeps a word a word: no bit leaves the mask.                   *)
LEMMA MarkedType ==
  ASSUME NEW u \in UsedDays, NEW d \in Nat
  PROVE  Marked(u, d) \in UsedDays
<1> DEFINE shift == d - u.day
<1>1. shift \in Int /\ u.day \in Nat /\ u.mask \in SUBSET (0 .. MaskBits - 1)
  BY DEF UsedDays
<1>2. 0 \in 0 .. MaskBits - 1
  BY MaskBitsAssumption
<1>3. CASE shift >= MaskBits
  BY <1>2, <1>3 DEF Marked, PackUsedDays, UsedDays
<1>4. CASE shift <= 0
  <2>1. ~(shift >= MaskBits)
    BY <1>1, <1>4, MaskBitsAssumption
  <2>2. Marked(u, d) = [u EXCEPT !.mask = @ \cup {0}]
    BY <1>4, <2>1 DEF Marked
  <2> QED
    BY <1>1, <1>2, <2>2 DEF UsedDays
<1>5. CASE ~(shift >= MaskBits) /\ ~(shift <= 0)
  <2> DEFINE mask == {0} \cup {i \in shift .. MaskBits - 1 : i - shift \in u.mask}
  <2>1. Marked(u, d) = [day |-> d, mask |-> mask]
    BY <1>5 DEF Marked
  <2>2. mask \in SUBSET (0 .. MaskBits - 1)
    BY <1>1, <1>2, <1>5, MaskBitsAssumption
  <2> QED
    BY <2>1, <2>2 DEF UsedDays
<1> QED
  BY <1>3, <1>4, <1>5

(* The last day of use is the latest that has been marked.                 *)
LEMMA MarkedDay ==
  ASSUME NEW u \in UsedDays, NEW d \in Nat
  PROVE  Marked(u, d).day \in {u.day, d} /\ Marked(u, d).day >= d
<1>1. u.day \in Nat /\ MaskBits \in Nat \ {0}
  BY MaskBitsAssumption DEF UsedDays
<1>2. CASE d - u.day >= MaskBits
  BY <1>1, <1>2 DEF Marked, PackUsedDays
<1>3. CASE d - u.day <= 0
  <2>1. Marked(u, d) = [u EXCEPT !.mask = @ \cup {0}]
    BY <1>1, <1>3 DEF Marked
  <2>2. Marked(u, d).day = u.day
    BY <2>1 DEF UsedDays
  <2> QED
    BY <1>1, <1>3, <2>2
<1>4. CASE d - u.day > 0 /\ d - u.day < MaskBits
  BY <1>1, <1>4 DEF Marked
<1> QED
  BY <1>1, <1>2, <1>3, <1>4

(* Marked, on the word, is Remembered, on the days the word stands for: no *)
(* day within the reach of the mask is lost or invented by a shift.        *)
LEMMA MarkedRemembers ==
  ASSUME NEW u \in UsedDays, NEW d \in Nat
  PROVE  /\ DaysOf(Marked(u, d)) = Remembered(DaysOf(u), u.day, d)
         /\ Marked(u, d).day = IF d > u.day THEN d ELSE u.day
<1> DEFINE shift == d - u.day
<1>1. shift \in Int /\ u.day \in Nat /\ u.mask \in SUBSET (0 .. MaskBits - 1)
  BY DEF UsedDays
<1>2. \A x \in DaysOf(u) : x \in Int /\ x <= u.day /\ x > u.day - MaskBits
  BY <1>1, MaskBitsAssumption DEF DaysOf
<1>3. CASE shift >= MaskBits
  <2>1. Marked(u, d) = [day |-> d, mask |-> {0}]
    <3>1. ~(shift <= 0)
      BY <1>1, <1>3, MaskBitsAssumption
    <3> QED
      BY <1>3, <3>1 DEF Marked, PackUsedDays
  <2>2. DaysOf(Marked(u, d)) = {d}
    <3>1. DaysOf(Marked(u, d)) = {d - i : i \in {0}}
      BY <2>1 DEF DaysOf
    <3>2. d - 0 = d
      OBVIOUS
    <3> QED
      BY <3>1, <3>2
  <2>3. d > u.day /\ \A x \in DaysOf(u) : ~(x > d - MaskBits)
    BY <1>1, <1>2, <1>3, MaskBitsAssumption
  <2> QED
    BY <2>1, <2>2, <2>3 DEF Remembered
<1>4. CASE shift <= 0
  <2>1. ~(shift >= MaskBits) /\ ~(d > u.day)
    BY <1>1, <1>4, MaskBitsAssumption
  <2>2. Marked(u, d) = [u EXCEPT !.mask = @ \cup {0}]
    BY <1>4, <2>1 DEF Marked
  <2>3. Marked(u, d).day = u.day /\ Marked(u, d).mask = u.mask \cup {0}
    BY <2>2 DEF UsedDays
  <2>4. DaysOf(Marked(u, d)) = DaysOf(u) \cup {u.day}
    <3>1. u.day - 0 = u.day
      BY <1>1
    <3>2. {u.day - i : i \in u.mask \cup {0}} = {u.day - i : i \in u.mask} \cup {u.day}
      BY <3>1
    <3> QED
      BY <2>3, <3>2 DEF DaysOf
  <2>5. Remembered(DaysOf(u), u.day, d) = DaysOf(u) \cup {u.day}
    BY <1>2, <2>1 DEF Remembered
  <2> QED
    BY <2>1, <2>3, <2>4, <2>5
<1>5. CASE ~(shift >= MaskBits) /\ ~(shift <= 0)
  <2> DEFINE mask == {0} \cup {i \in shift .. MaskBits - 1 : i - shift \in u.mask}
  <2>1. Marked(u, d) = [day |-> d, mask |-> mask]
    BY <1>5 DEF Marked
  <2>2. d > u.day
    BY <1>1, <1>5
  <2>3. ASSUME NEW x \in DaysOf(Marked(u, d))
        PROVE  x \in Remembered(DaysOf(u), u.day, d)
    <3>1. PICK i \in mask : x = d - i
      BY <2>1, <2>3 DEF DaysOf
    <3>2. CASE i = 0
      BY <2>2, <3>1, <3>2 DEF Remembered
    <3>3. CASE i \in shift .. MaskBits - 1 /\ i - shift \in u.mask
      <4>1. x = u.day - (i - shift) /\ x > d - MaskBits
        BY <1>1, <3>1, <3>3, MaskBitsAssumption
      <4> QED
        BY <2>2, <3>3, <4>1 DEF DaysOf, Remembered
    <3> QED
      BY <3>1, <3>2, <3>3
  <2>4. ASSUME NEW x \in Remembered(DaysOf(u), u.day, d)
        PROVE  x \in DaysOf(Marked(u, d))
    <3>1. CASE x = d
      BY <2>1, <3>1 DEF DaysOf
    <3>2. CASE x \in DaysOf(u) /\ x > d - MaskBits
      <4>1. PICK j \in u.mask : x = u.day - j
        BY <3>2 DEF DaysOf
      <4>2. j + shift \in mask /\ x = d - (j + shift)
        BY <1>1, <1>5, <3>2, <4>1, MaskBitsAssumption
      <4> QED
        BY <2>1, <4>2 DEF DaysOf
    <3> QED
      BY <2>2, <2>4, <3>1, <3>2 DEF Remembered
  <2>5. Marked(u, d).day = d
    BY <2>1
  <2>6. DaysOf(Marked(u, d)) = Remembered(DaysOf(u), u.day, d)
    BY <2>3, <2>4
  <2> QED
    BY <2>2, <2>5, <2>6
<1> QED
  BY <1>3, <1>4, <1>5

(* DaysUsed counts bits, but what it counts are days: those of the word    *)
(* among the last w, counted back from the last use when day d is earlier. *)
LEMMA DaysUsedCounts ==
  ASSUME NEW u \in UsedDays, NEW d \in Nat, NEW w \in Nat
  PROVE  LET top == IF d > u.day THEN d ELSE u.day
         IN  DaysUsed(u, d, w) = Cardinality({x \in DaysOf(u) : x > top - w})
<1> DEFINE top   == IF d > u.day THEN d ELSE u.day
           shift == IF d > u.day THEN d - u.day ELSE 0
           bits  == {i \in u.mask : i < w - shift}
           days  == {x \in DaysOf(u) : x > top - w}
<1>1. u.day \in Nat /\ u.mask \in SUBSET (0 .. MaskBits - 1) /\ shift \in Nat
      /\ top \in Nat /\ top = u.day + shift
  BY DEF UsedDays
<1>2. \A x \in DaysOf(u) : x \in Int /\ x <= u.day
  BY <1>1, MaskBitsAssumption DEF DaysOf
<1>3. CASE u = NoUse \/ shift >= w
  <2>1. DaysUsed(u, d, w) = 0
    BY <1>3 DEF DaysUsed
  <2>2. days = {}
    <3>1. CASE u = NoUse
      BY <3>1 DEF NoUse, DaysOf
    <3>2. CASE shift >= w
      BY <1>1, <1>2, <3>2
    <3> QED
      BY <1>3, <3>1, <3>2
  <2> QED
    BY <2>1, <2>2, FS_EmptySet
<1>4. CASE ~(u = NoUse \/ shift >= w)
  <2>1. DaysUsed(u, d, w) = Cardinality(bits)
    BY <1>4 DEF DaysUsed
  <2> DEFINE dayOf == [i \in bits |-> u.day - i]
  <2>2. \A i \in bits : i \in Int
    BY <1>1, MaskBitsAssumption
  <2>3. dayOf \in [bits -> days]
    BY <1>1, <2>2, MaskBitsAssumption DEF DaysOf
  <2>4. IsInjective(dayOf)
    BY <1>1, <2>2 DEF IsInjective
  <2>5. ASSUME NEW x \in days PROVE \E i \in bits : dayOf[i] = x
    <3>1. PICK i \in u.mask : x = u.day - i
      BY DEF DaysOf
    <3>2. i \in Int /\ i < w - shift
      BY <1>1, <3>1, MaskBitsAssumption
    <3> QED
      BY <3>1, <3>2
  <2>6. dayOf \in Bijection(bits, days)
    BY <2>3, <2>4, <2>5 DEF Bijection, Injection, Surjection
  <2>7. IsFiniteSet(bits)
    <3>1. IsFiniteSet(0 .. MaskBits - 1)
      BY MaskBitsAssumption, FS_Interval
    <3> QED
      BY <1>1, <3>1, FS_Subset
  <2>8. Cardinality(days) = Cardinality(bits)
    BY <2>6, <2>7, FS_Bijection DEF ExistsBijection
  <2> QED
    BY <2>1, <2>8
<1> QED
  BY <1>3, <1>4
=============================================================================
