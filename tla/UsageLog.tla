----------------------------- MODULE UsageLog ------------------------------
(***************************************************************************)
(* What Entry.MarkUsed promises (cache/entry.go), said of sets of days and *)
(* without words, masks or compare-and-swap: every call takes effect once, *)
(* at one instant between its start and its return, by adding its day to   *)
(* the history, or the last known day when the caller's clock is behind.   *)
(***************************************************************************)
EXTENDS Integers, FiniteSets

CONSTANTS Threads,     \* goroutines that mark the entry
          Days,        \* the local days a caller's clock may show
          Span,        \* how many days the history reaches back
          NoDay        \* a thread that is not in a call

VARIABLES days,        \* the days of use that are remembered
          last,        \* the last of them, 0 before the first
          pending      \* the day each thread is marking, or NoDay

logVars == <<days, last, pending>>

Init ==
  /\ days = {}
  /\ last = 0
  /\ pending = [t \in Threads |-> NoDay]

Call(t, d) ==
  /\ pending[t] = NoDay
  /\ pending' = [pending EXCEPT ![t] = d]
  /\ UNCHANGED <<days, last>>

(* The linearization point and the return of a call. *)
Mark(t) ==
  LET top == IF pending[t] > last THEN pending[t] ELSE last
  IN  /\ pending[t] # NoDay
      /\ days' = {x \in days : x > top - Span} \cup {top}
      /\ last' = top
      /\ pending' = [pending EXCEPT ![t] = NoDay]

Next == \E t \in Threads : (\E d \in Days : Call(t, d)) \/ Mark(t)

Spec == Init /\ [][Next]_logVars
=============================================================================
