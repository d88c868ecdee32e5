--------------------------- MODULE MCPersistence ---------------------------
(***************************************************************************)
(* A small instance of Persistence: the table may begin without a row,     *)
(* with a row of an older version (no last use, no days, no TTL), stored   *)
(* when the day before the start began, with one last used on the day of   *)
(* the start, or with one that cannot be read.                             *)
(***************************************************************************)
EXTENDS Persistence, MCCache

LegacyRow == [msg |-> RowMessage, at |-> 0, storedAt |-> 1, ttl |-> 0,
              hits |-> 2, lastHit |-> 0, used |-> NoUse]

UsedRow == [LegacyRow EXCEPT !.ttl = 1, !.lastHit = 4, !.used = PackUsedDays(DayOf(4))]

(* A row that this version cannot unpack.                                  *)
ForeignRow == [UsedRow EXCEPT !.storedAt = 0]

Foreign == {ForeignRow}

Empty == {NoRow}
TableRows == {NoRow, LegacyRow, UsedRow, ForeignRow}
=============================================================================
