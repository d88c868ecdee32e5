------------------------------ MODULE MCCache ------------------------------
(***************************************************************************)
(* Small instances of Cache.  One goroutine, four keys, room for three     *)
(* entries and a sample of two; two goroutines in any call on one key.     *)
(***************************************************************************)
EXTENDS Cache, TLC

CONSTANT LoadedKeys    \* the keys the database has a row for

Symmetry == Permutations(Threads) \cup Permutations(LoadedKeys)
              \cup Permutations(Keys \ LoadedKeys)

Msg(rcode, tc, answer, ttl, soaTTL, soaMin) ==
  [rcode |-> rcode, tc |-> tc, answer |-> answer, ttl |-> ttl,
   hasSOA |-> ~answer, soaTTL |-> soaTTL, soaMin |-> soaMin]

Positive == Msg("NOERROR", FALSE, TRUE, 2, 0, 0)
Negative == Msg("NXDOMAIN", FALSE, FALSE, 0, 1, 3)

OnlyPositive == {Positive}

(* Two negative answers; the MINIMUM of the second is 0.                   *)
TwoNegatives == {Negative, [Negative EXCEPT !.soaMin = 0]}

(* A row of the database, last used before the program started.            *)
RowMessage == CHOOSE m \in Answers : m.rcode # "SERVFAIL" /\ ~m.tc

OldRow(k) == [key |-> k, resp |-> [msg |-> RowMessage, at |-> 0], storedAt |-> 0,
              ttl |-> 1, hits |-> 1, lastHit |-> 0, used |-> PackUsedDays(0)]

LoadedRows == {OldRow(k) : k \in LoadedKeys}
=============================================================================
