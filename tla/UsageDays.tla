----------------------------- MODULE UsageDays -----------------------------
(***************************************************************************)
(* The usage history of a cache entry: Entry.UsedDays of cache/entry.go.   *)
(*                                                                         *)
(* The code packs into one uint64 the local calendar day of the last use   *)
(* (upper 32 bits) and a mask of MaskBits = 32 bits, bit i standing for    *)
(* "that day minus i".  Here the word is the record [day, mask] and the    *)
(* mask is the set of the positions of its one bits, so a shift to the     *)
(* left by s adds s to every position and drops those that leave the word. *)
(* The word 0 of an entry that has no history is day 0 with no bit set.    *)
(***************************************************************************)
EXTENDS Integers, FiniteSets

CONSTANT MaskBits      \* width of the mask, 32 in the code

ASSUME MaskBitsAssumption == MaskBits \in Nat \ {0}

UsedDays == [day : Nat, mask : SUBSET (0 .. MaskBits - 1)]

NoUse == [day |-> 0, mask |-> {}]

PackUsedDays(d) == [day |-> d, mask |-> {0}]

(* Mutant of Marked: the shifted mask is not cut to its 32 bits.           *)
MarkedSpills(u, d) ==
  LET shift == d - u.day
  IN  CASE shift >= MaskBits -> PackUsedDays(d)
        [] shift <= 0        -> [u EXCEPT !.mask = @ \cup {0}]
        [] OTHER             -> [day |-> d, mask |-> {0} \cup {i + shift : i \in u.mask}]

(***************************************************************************)
(* The value MarkUsed computes from the word u it has loaded.  A history   *)
(* older than the mask is dropped; a day that is not later than the last   *)
(* one (same day, or a clock set back) only sets bit 0 again.              *)
(***************************************************************************)
Marked(u, d) ==
  LET shift == d - u.day
  IN  CASE shift >= MaskBits -> PackUsedDays(d)
        [] shift <= 0        -> [u EXCEPT !.mask = @ \cup {0}]
        [] OTHER             -> [day  |-> d,
                                 mask |-> {0} \cup {i \in shift .. MaskBits - 1 :
                                                       i - shift \in u.mask}]

(* Mutant of DaysUsed: a last use in the future not clamped to today.      *)
DaysUsedUnclamped(u, d, window) ==
  LET shift == d - u.day
  IN  IF u = NoUse \/ shift >= window
        THEN 0
        ELSE Cardinality({i \in u.mask : i < window - shift})

(***************************************************************************)
(* DaysUsed: how many of the last `window' days, day d included, are days  *)
(* of use.  The code keeps the lowest window - shift bits and counts them. *)
(***************************************************************************)
DaysUsed(u, d, window) ==
  LET shift == IF d > u.day THEN d - u.day ELSE 0
  IN  IF u = NoUse \/ shift >= window
        THEN 0
        ELSE Cardinality({i \in u.mask : i < window - shift})

----------------------------------------------------------------------------
(* The reference reading of a word: the set of days it stands for.         *)
DaysOf(u) == {u.day - i : i \in u.mask}

(* What a history of days becomes when day d is marked, said of sets of    *)
(* days: the marked day is never earlier than the last known one, and only *)
(* the MaskBits days up to it are remembered.                              *)
Remembered(days, last, d) ==
  LET top == IF d > last THEN d ELSE last
  IN  {x \in days : x > top - MaskBits} \cup {top}
=============================================================================
