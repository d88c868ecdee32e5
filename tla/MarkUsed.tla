------------------------------ MODULE MarkUsed -----------------------------
(***************************************************************************)
(* Entry.MarkUsed as the code runs it: the goroutines that serve the same  *)
(* name race on one atomic word, each in a load / compute / compare-and-   *)
(* swap loop without a lock.  The day of a call is the local day of the    *)
(* time its caller took, so the days of concurrent calls may differ in     *)
(* either direction (midnight, or a clock that was set back).              *)
(***************************************************************************)
EXTENDS UsageDays

CONSTANTS Threads, Days, NoDay

ASSUME DaysAssumption == Days \subseteq Nat /\ NoDay \notin Nat

VARIABLES word,        \* e.UsedDays
          pc,          \* "idle", "load" or "swap", per goroutine
          today,       \* the day of the call, NoDay outside a call
          old          \* what the last atomic load of the call returned

vars == <<word, pc, today, old>>

Init ==
  /\ word = NoUse
  /\ pc = [t \in Threads |-> "idle"]
  /\ today = [t \in Threads |-> NoDay]
  /\ old = [t \in Threads |-> NoUse]

Return(t) ==
  /\ pc' = [pc EXCEPT ![t] = "idle"]
  /\ today' = [today EXCEPT ![t] = NoDay]
  /\ old' = [old EXCEPT ![t] = NoUse]

Begin(t, d) ==
  /\ pc[t] = "idle"
  /\ pc' = [pc EXCEPT ![t] = "load"]
  /\ today' = [today EXCEPT ![t] = d]
  /\ UNCHANGED <<word, old>>

(* The load; when the word already has the day there is nothing to swap.   *)
Load(t) ==
  /\ pc[t] = "load"
  /\ IF Marked(word, today[t]) = word
       THEN Return(t)
       ELSE /\ old' = [old EXCEPT ![t] = word]
            /\ pc' = [pc EXCEPT ![t] = "swap"]
            /\ UNCHANGED today
  /\ UNCHANGED word

(* Mutant of Swap: a plain store in place of the compare-and-swap.         *)
SwapBlindly(t) ==
  /\ pc[t] = "swap"
  /\ word' = Marked(old[t], today[t])
  /\ Return(t)

(* Mutant of Swap: after a failure it tries the same swap again.           *)
SwapAgain(t) ==
  /\ pc[t] = "swap"
  /\ word = old[t]
  /\ word' = Marked(old[t], today[t])
  /\ Return(t)

(* The compare-and-swap: it succeeds only on the word that was loaded, and *)
(* otherwise the loop loads again.                                         *)
Swap(t) ==
  /\ pc[t] = "swap"
  /\ IF word = old[t]
       THEN word' = Marked(old[t], today[t]) /\ Return(t)
       ELSE /\ pc' = [pc EXCEPT ![t] = "load"]
            /\ old' = [old EXCEPT ![t] = NoUse]
            /\ UNCHANGED <<word, today>>

Step(t) == Load(t) \/ Swap(t)

Next == \E t \in Threads : (\E d \in Days : Begin(t, d)) \/ Step(t)

(* The scheduler runs a goroutine that has a step to take.                 *)
Spec == Init /\ [][Next]_vars /\ \A t \in Threads : WF_vars(Step(t))

----------------------------------------------------------------------------
(* Types, and what a thread remembers is consistent with where it is.      *)
TypeOK ==
  /\ word \in UsedDays
  /\ pc \in [Threads -> {"idle", "load", "swap"}]
  /\ today \in [Threads -> Days \cup {NoDay}]
  /\ old \in [Threads -> UsedDays]
  /\ \A t \in Threads : IF pc[t] = "idle" THEN today[t] = NoDay
                                          ELSE today[t] \in Days

(* The loop implements the log: no call is lost or applied twice although  *)
(* calls interleave between their load and their swap, and shifts by up to *)
(* the width of the mask keep the right days (Entry.MarkUsed).             *)
Log == INSTANCE UsageLog
         WITH days <- DaysOf(word), last <- word.day, pending <- today,
              Span <- MaskBits

ImplementsUsageLog == Log!Spec

(* Every call of MarkUsed returns, however the others get in its way: a    *)
(* swap fails only when another goroutine has marked a day, and there are  *)
(* only so many days.                                                      *)
EveryCallReturns == \A t \in Threads : pc[t] # "idle" ~> pc[t] = "idle"

(* DaysUsed, on every word the loop can produce, counts exactly the days   *)
(* of use among the last w, for any width up to that of the mask (a shift  *)
(* by the whole width included) and for a day before the last use, where   *)
(* the code counts back from the last use instead.                         *)
DaysUsedCountsTheWindow ==
  \A d \in Days, w \in 0 .. MaskBits :
    LET top == IF d > word.day THEN d ELSE word.day
    IN  DaysUsed(word, d, w) = Cardinality({x \in DaysOf(word) : x > top - w})

=============================================================================
