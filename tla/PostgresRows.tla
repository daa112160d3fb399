---------------------------- MODULE PostgresRows ----------------------------
(***************************************************************************)
(* The events table as Postgres keeps it.  A row gets its                  *)
(* sequence_position from a sequence at INSERT and becomes visible at      *)
(* COMMIT; an aborted transaction leaves a hole.  A transaction gets its   *)
(* xid8 at its first write.  The position of a row is its index in rows.   *)
(***************************************************************************)
EXTENDS EventLog, FiniteSetsExt

CONSTANT Tx

VARIABLES
  rows,     \* every row ever inserted: its event and the transaction it is of
  status,   \* "idle", "open", "committed" or "aborted"
  xid,      \* the transaction's xid8, 0 until it has written
  nextXid

rowVars == <<rows, status, xid, nextXid>>

Positions == 1..Len(rows)

TxOf(p) == rows[p].tx
Visible(p) == status[TxOf(p)] = "committed"
InFlight(p) == status[TxOf(p)] = "open"

\* What one statement sees of a query, in the snapshot it takes.
VisibleMatches(query) ==
  {p \in Positions : Visible(p) /\ Matches(rows[p].event, query)}

RowsInit ==
  /\ rows = <<>>
  /\ status = [t \in Tx |-> "idle"]
  /\ xid = [t \in Tx |-> 0]
  /\ nextXid = 1

BeginTx(t) ==
  /\ status[t] = "idle"
  /\ status' = [status EXCEPT ![t] = "open"]

\* pg_current_xact_id: assigned once, at the first write.
AssignXid(t) ==
  /\ xid' = [xid EXCEPT ![t] = IF @ = 0 THEN nextXid ELSE @]
  /\ nextXid' = IF xid[t] = 0 THEN nextXid + 1 ELSE nextXid

InsertRow(t, event) ==
  /\ rows' = Append(rows, [event |-> event, tx |-> t])
  /\ AssignXid(t)

EndTx(t, outcome) ==
  /\ status[t] = "open"
  /\ status' = [status EXCEPT ![t] = outcome]

RowsTypeOK ==
  /\ rows \in Seq([event : Event, tx : Tx])
  /\ status \in [Tx -> {"idle", "open", "committed", "aborted"}]
  /\ xid \in [Tx -> Nat]
  /\ nextXid \in Nat
=============================================================================
