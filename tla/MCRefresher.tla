---------------------------- MODULE MCRefresher ----------------------------
(***************************************************************************)
(* Small instances of Refresher.  The rows of the database are of names    *)
(* that were asked for on the days 0 and 1, last when day 1 began; the     *)
(* program starts on day 2.                                                *)
(***************************************************************************)
EXTENDS Refresher, MCCache

Refused   == [Positive EXCEPT !.rcode = "SERVFAIL"]
Truncated == [Positive EXCEPT !.tc = TRUE]

GoodOrRefused   == {Positive, Refused}
GoodOrTruncated == {Positive, Truncated}

FirstTick == DayLen - ZoneBefore     \* of day 1

UsualRow(k) == [key |-> k, resp |-> [msg |-> RowMessage, at |-> 0], storedAt |-> FirstTick,
                ttl |-> 1, hits |-> 1, lastHit |-> FirstTick,
                used |-> Marked(PackUsedDays(0), 1)]

UsualRows == {UsualRow(k) : k \in LoadedKeys}

ClientsAndWorkers == Clients \cup Workers
=============================================================================
