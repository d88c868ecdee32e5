----------------------------- MODULE DnsService ----------------------------
(***************************************************************************)
(* What the server promises its clients, said without a cache: once an     *)
(* answer to a name has been given out, no query taken up later gets one   *)
(* that the upstream sent earlier.  The answers are the ones a cache may   *)
(* hold; a reply may also be a Failure, that is SERVFAIL or a message of   *)
(* the upstream that is passed on and forgotten.                           *)
(***************************************************************************)
EXTENDS Integers

CONSTANTS Clients, Keys,
          Ticks,       \* when the upstream may have sent an answer
          Failure,
          Nothing      \* no query, or no reply yet

VARIABLES asked,       \* the key of the query of each client, or Nothing
          floor,       \* the newest answer to it given out before the query
          given,       \* the reply: the tick of an answer, or Failure
          newest       \* per key, the newest answer given out so far

serviceVars == <<asked, floor, given, newest>>

Init ==
  /\ asked = [c \in Clients |-> Nothing]
  /\ floor = [c \in Clients |-> 0]
  /\ given = [c \in Clients |-> Nothing]
  /\ newest = [k \in Keys |-> 0]

Ask(c, k) ==
  /\ asked[c] = Nothing
  /\ asked' = [asked EXCEPT ![c] = k]
  /\ floor' = [floor EXCEPT ![c] = newest[k]]
  /\ UNCHANGED <<given, newest>>

Waiting(c) == asked[c] # Nothing /\ given[c] = Nothing

Answer(c, tick) ==
  /\ Waiting(c) /\ tick >= floor[c]
  /\ given' = [given EXCEPT ![c] = tick]
  /\ newest' = [newest EXCEPT ![asked[c]] = IF tick > @ THEN tick ELSE @]
  /\ UNCHANGED <<asked, floor>>

Fail(c) ==
  /\ Waiting(c)
  /\ given' = [given EXCEPT ![c] = Failure]
  /\ UNCHANGED <<asked, floor, newest>>

Return(c) ==
  /\ given[c] # Nothing
  /\ asked' = [asked EXCEPT ![c] = Nothing]
  /\ floor' = [floor EXCEPT ![c] = 0]
  /\ given' = [given EXCEPT ![c] = Nothing]
  /\ UNCHANGED newest

Next == \E c \in Clients :
          \/ \E k \in Keys : Ask(c, k)
          \/ \E tick \in Ticks : Answer(c, tick)
          \/ Fail(c) \/ Return(c)

Spec == Init /\ [][Next]_serviceVars
=============================================================================
