--------------------------- MODULE MarkUsedProofs --------------------------
(***************************************************************************)
(* The lock-free loop of Entry.MarkUsed implements the usage log, for any  *)
(* number of goroutines, any days and any width of the mask.               *)
(***************************************************************************)
EXTENDS MarkUsed, UsageDaysProofs

LEMMA StepType == TypeOK /\ [Next]_vars => TypeOK'
<1> SUFFICES ASSUME TypeOK, [Next]_vars PROVE TypeOK'
  OBVIOUS
<1>1. NoUse \in UsedDays
  BY DEF NoUse, UsedDays
<1>2. ASSUME NEW t \in Threads, NEW d \in Days, Begin(t, d) PROVE TypeOK'
  BY <1>2 DEF TypeOK, Begin
<1>3. ASSUME NEW t \in Threads, Load(t) PROVE TypeOK'
  <2>1. CASE Marked(word, today[t]) = word
    <3>1. Return(t) /\ word' = word
      BY <1>3, <2>1 DEF Load
    <3> QED
      BY <1>1, <3>1 DEF TypeOK, Return
  <2>2. CASE Marked(word, today[t]) # word
    <3>1. /\ old' = [old EXCEPT ![t] = word] /\ pc' = [pc EXCEPT ![t] = "swap"]
          /\ UNCHANGED <<today, word>> /\ pc[t] = "load"
      BY <1>3, <2>2 DEF Load
    <3> QED
      BY <3>1 DEF TypeOK
  <2> QED
    BY <2>1, <2>2
<1>4. ASSUME NEW t \in Threads, Swap(t) PROVE TypeOK'
  <2>1. Marked(old[t], today[t]) \in UsedDays
    BY <1>4, MarkedType, DaysAssumption DEF TypeOK, Swap
  <2> QED
    BY <1>1, <1>4, <2>1 DEF TypeOK, Swap, Return
<1>5. CASE UNCHANGED vars
  BY <1>5 DEF TypeOK, vars
<1> QED
  BY <1>2, <1>3, <1>4, <1>5 DEF Next, Step

(* Types of the word and of what each goroutine remembers of it.           *)
THEOREM TypeCorrect == Spec => []TypeOK
<1>1. Init => TypeOK
  BY DEF Init, TypeOK, NoUse, UsedDays
<1> QED
  BY <1>1, StepType, PTL DEF Spec

(* A goroutine's effect on the word is that of one Mark of the log.        *)
LEMMA MarkSimulated ==
  ASSUME TypeOK, NEW t \in Threads, pc[t] # "idle",
         word' = Marked(word, today[t]), Return(t)
  PROVE  Log!Mark(t)
<1>1. today[t] \in Nat /\ today[t] # NoDay /\ word \in UsedDays
  BY DaysAssumption DEF TypeOK
<1>2. /\ DaysOf(word') = Remembered(DaysOf(word), word.day, today[t])
      /\ word'.day = IF today[t] > word.day THEN today[t] ELSE word.day
  BY <1>1, MarkedRemembers
<1>3. DaysOf(word)' = DaysOf(word')
  BY DEF DaysOf
<1> QED
  BY <1>1, <1>2, <1>3 DEF Log!Mark, Return, Remembered

(* Every behaviour of the loop is one of the log (the safety part; that    *)
(* every call returns is a matter of fairness).                            *)
THEOREM LoopImplementsLog == Spec => ImplementsUsageLog
<1>1. Init => Log!Init
  BY DEF Init, Log!Init, NoUse, DaysOf
<1>2. TypeOK /\ [Next]_vars => [Log!Next]_(Log!logVars)
  <2> SUFFICES ASSUME TypeOK, [Next]_vars PROVE [Log!Next]_(Log!logVars)
    OBVIOUS
  <2>1. ASSUME NEW t \in Threads, NEW d \in Days, Begin(t, d) PROVE Log!Call(t, d)
    <3>1. today[t] = NoDay
      BY <2>1 DEF Begin, TypeOK
    <3> QED
      BY <2>1, <3>1 DEF Begin, Log!Call, DaysOf
  <2>2. ASSUME NEW t \in Threads, Load(t)
        PROVE  Log!Mark(t) \/ UNCHANGED Log!logVars
    <3>1. CASE Marked(word, today[t]) = word
      BY <2>2, <3>1, MarkSimulated DEF Load
    <3>2. CASE Marked(word, today[t]) # word
      BY <2>2, <3>2 DEF Load, Log!logVars, DaysOf
    <3> QED
      BY <3>1, <3>2
  <2>3. ASSUME NEW t \in Threads, Swap(t)
        PROVE  Log!Mark(t) \/ UNCHANGED Log!logVars
    <3>1. CASE word = old[t]
      BY <2>3, <3>1, MarkSimulated DEF Swap
    <3>2. CASE word # old[t]
      BY <2>3, <3>2 DEF Swap, Log!logVars, DaysOf
    <3> QED
      BY <3>1, <3>2
  <2>4. CASE UNCHANGED vars
    BY <2>4 DEF vars, Log!logVars, DaysOf
  <2> QED
    BY <2>1, <2>2, <2>3, <2>4 DEF Next, Step, Log!Next
<1> QED
  BY <1>1, <1>2, TypeCorrect, PTL DEF Spec, ImplementsUsageLog, Log!Spec

(* On every word the loop leaves behind, between any two of its steps,     *)
(* DaysUsed counts exactly the days of use of the window.                  *)
THEOREM DaysUsedCorrect == Spec => []DaysUsedCountsTheWindow
<1>1. TypeOK => DaysUsedCountsTheWindow
  BY DaysAssumption, MaskBitsAssumption, DaysUsedCounts
     DEF TypeOK, DaysUsedCountsTheWindow
<1> QED
  BY <1>1, TypeCorrect, PTL
=============================================================================
