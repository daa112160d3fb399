--------------------------- MODULE PostgresStream ---------------------------
(***************************************************************************)
(* postgresEventStore.open: the stream that tails the events table for an  *)
(* event processor, over writers that begin, write, append and end in any  *)
(* order, and a reader that handles an event and stores its token in one   *)
(* transaction, crashes, and resumes from the token.                       *)
(*                                                                         *)
(* Rows are ordered by (transaction_id, sequence_position), and only those *)
(* below the oldest transaction still running are read.                    *)
(***************************************************************************)
EXTENDS PostgresRows, Functions

CONSTANTS
  Filter,      \* the processor's query
  Filtered,    \* whether the stream was opened with it
  Appended,    \* Tx -> the event the transaction appends
  Limit,       \* rows per fetch; the code's is 100
  MaxCrashes   \* bound: restarts of the reader

ASSUME StreamAssumption ==
  /\ Filter \in EventQuery
  /\ Filtered \in BOOLEAN
  /\ Appended \in [Tx -> Event]
  /\ Limit \in Nat \ {0}
  /\ MaxCrashes \in Nat

VARIABLES
  cursor,    \* cursorXid and cursorPosition; xid 0 is the code's "0"
  buffer,    \* rows fetched and not yet taken
  looking,   \* a fetch came back empty and lookPast is next
  looked,    \* what progressToken answers; Origin stands for undefined
  token,     \* the processor's stored token
  handled,   \* history: the positions handled, in that order
  crashes

streamVars == <<cursor, buffer, looking, looked, token, handled, crashes>>
vars == <<rowVars, streamVars>>

Origin == [xid |-> 0, position |-> 0]

Init ==
  /\ RowsInit
  /\ cursor = Origin
  /\ buffer = <<>>
  /\ looking = FALSE
  /\ looked = Origin
  /\ token = Origin
  /\ handled = <<>>
  /\ crashes = 0

-----------------------------------------------------------------------------
Begin(t) == BeginTx(t) /\ UNCHANGED <<rows, xid, nextXid, streamVars>>

\* A schedule, a projection, a token: a write before the append, if any.
WriteOther(t) ==
  /\ status[t] = "open"
  /\ xid[t] = 0
  /\ AssignXid(t)
  /\ UNCHANGED <<rows, status, streamVars>>

\* One append per transaction.  Its leaf locks are held until the end, so no
\* other transaction has an uncommitted row with one of its tags.
AppendRow(t) ==
  /\ status[t] = "open"
  /\ \A p \in Positions :
       /\ TxOf(p) # t
       /\ rows[p].event.tags \cap Appended[t].tags # {} => ~InFlight(p)
  /\ InsertRow(t, Appended[t])
  /\ UNCHANGED <<status, streamVars>>

End(t, outcome) ==
  /\ EndTx(t, outcome)
  /\ UNCHANGED <<rows, xid, nextXid, streamVars>>

-----------------------------------------------------------------------------
\* Mutant: the place before the row's predecessor.
AtTwoBelow(p) == [xid |-> xid[TxOf(p)], position |-> p - 2]

\* The gap-aware token of a row.
At(p) == [xid |-> xid[TxOf(p)], position |-> p]

\* The row-value comparison (transaction_id, sequence_position) > (x, p).
Beyond(a, b) == a.xid > b.xid \/ (a.xid = b.xid /\ a.position > b.position)

\* Mutant: the oldest running transaction is not looked for.
NextXidOnly == nextXid

\* pg_snapshot_xmin: below it every transaction has ended.
Xmin ==
  Min({nextXid} \cup {xid[t] : t \in {u \in Tx : status[u] = "open" /\ xid[u] # 0}})

\* Mutant: after the first row the position alone decides what is next.
AfterPosition(p) == p > cursor.position

\* The two branches of a fetch: by position until a row was read, then by tuple.
AfterCursor(p) ==
  IF cursor.xid = 0 THEN p > cursor.position ELSE Beyond(At(p), cursor)

Settled == {p \in Positions : Visible(p) /\ xid[TxOf(p)] < Xmin}

Wanted(p) == ~Filtered \/ Matches(rows[p].event, Filter)

\* What a fetch may return ...
Ahead == {p \in Settled : AfterCursor(p) /\ Wanted(p)}

\* ... and what it returns: the first n of it, ordered by the tuple.
Returned(batch, n) ==
  /\ \A i, j \in 1..n : i < j => Beyond(At(batch[j]), At(batch[i]))
  /\ \A p \in Ahead \ Range(batch) : n = Limit /\ Beyond(At(p), At(batch[n]))

\* fetchBatch: one SELECT, in the pump that `polling` keeps single.
Fetch ==
  /\ ~looking
  /\ \E n \in 1..Limit : \E batch \in [1..n -> Ahead] :
       /\ Returned(batch, n)
       /\ buffer' = buffer \o batch
       /\ cursor' = At(batch[n])
  /\ looked' = Origin
  /\ UNCHANGED <<rowVars, looking, token, handled, crashes>>

\* A fetch that finds nothing; only a stream with a query looks further.
FetchNothing ==
  /\ ~looking
  /\ Ahead = {}
  /\ Filtered \/ looked # Origin
  /\ looking' = Filtered
  /\ looked' = Origin
  /\ UNCHANGED <<rowVars, cursor, buffer, token, handled, crashes>>

IsNewest(p) == \A q \in Settled : ~Beyond(At(q), At(p))

\* Mutant: the newest row is taken without asking for matches ahead.
LookPastBlindly ==
  /\ looking
  /\ looking' = FALSE
  /\ \/ \E p \in Settled : IsNewest(p) /\ looked' = At(p) /\ cursor' = At(p)
     \/ Settled = {} /\ looked' = Origin /\ UNCHANGED cursor
  /\ UNCHANGED <<rowVars, buffer, token, handled, crashes>>

\* lookPast: a second statement, with a snapshot of its own.
LookPast ==
  /\ looking
  /\ looking' = FALSE
  /\ \/ /\ Ahead = {}
        /\ \E p \in Settled : IsNewest(p) /\ looked' = At(p) /\ cursor' = At(p)
     \/ /\ Settled = {} \/ Ahead # {}
        /\ looked' = Origin /\ UNCHANGED cursor
  /\ UNCHANGED <<rowVars, buffer, token, handled, crashes>>

\* Mutant: the handlers commit without the token.
HandleUnstored ==
  /\ buffer # <<>>
  /\ handled' = Append(handled, Head(buffer))
  /\ buffer' = Tail(buffer)
  /\ UNCHANGED <<rowVars, cursor, looking, looked, token, crashes>>

\* processBatch: the handlers and the token commit together.
HandleEvent ==
  /\ buffer # <<>>
  /\ token' = At(Head(buffer))
  /\ handled' = Append(handled, Head(buffer))
  /\ buffer' = Tail(buffer)
  /\ UNCHANGED <<rowVars, cursor, looking, looked, crashes>>

\* moveThroughQuietStretch: positions are compared, the whole token is kept.
MoveThroughQuietStretch ==
  /\ buffer = <<>>
  /\ looked # Origin
  /\ looked.position > token.position
  /\ token' = looked
  /\ UNCHANGED <<rowVars, cursor, buffer, looking, looked, handled, crashes>>

\* The reader fails or its process dies: a stream opened from the token.
Reopen ==
  /\ crashes < MaxCrashes
  /\ crashes' = crashes + 1
  /\ cursor' = token
  /\ buffer' = <<>>
  /\ looking' = FALSE
  /\ looked' = Origin
  /\ UNCHANGED <<rowVars, token, handled>>

Next ==
  \/ \E t \in Tx : Begin(t) \/ WriteOther(t) \/ AppendRow(t)
  \/ \E t \in Tx, outcome \in {"committed", "aborted"} : End(t, outcome)
  \/ Fetch
  \/ FetchNothing
  \/ LookPast
  \/ HandleEvent
  \/ MoveThroughQuietStretch
  \/ Reopen

\* The 250 ms interval keeps fetching, a batch that is there is handled, and
\* a transaction ends: its task does, or the session timeouts see to it.
Fairness ==
  /\ WF_vars(Fetch)
  /\ WF_vars(LookPast)
  /\ WF_vars(HandleEvent)
  /\ \A t \in Tx : WF_vars(End(t, "committed") \/ End(t, "aborted"))

Spec == Init /\ [][Next]_vars /\ Fairness

-----------------------------------------------------------------------------
Place == [xid : Nat, position : Nat]

TypeOK ==
  /\ RowsTypeOK
  /\ {cursor, looked, token} \subseteq Place
  /\ buffer \in Seq(Positions)
  /\ looking \in BOOLEAN
  /\ handled \in Seq(Positions)
  /\ crashes \in 0..MaxCrashes

\* A row that is, or may yet become, visible and that the processor wants.
Due(p) == (Visible(p) \/ InFlight(p)) /\ Wanted(p)

Passed(p, place) == place.xid # 0 /\ ~Beyond(At(p), place)

\* GAP-FREE TAILING (README.md:302, postgres-event-store.ts:518): the cursor
\* never passes a wanted row that is not on its way to the handler, however late
\* the row's transaction commits.
NoGaps ==
  \A p \in Positions : Due(p) /\ Passed(p, cursor) =>
    p \in Range(handled) \cup Range(buffer)

\* A restart loses nothing (tracking-token.ts:91-96): all that lies behind the
\* stored token was handled, the quiet stretches it jumped over included.
TokenCovers ==
  \A p \in Positions : Due(p) /\ Passed(p, token) => p \in Range(handled)

\* No event is handled twice, though crashes refetch what was buffered.
HandledOnce == IsInjective(handled)

\* Every committed event the processor wants is handled in the end.
EventuallyHandled ==
  \A t \in Tx : (status[t] = "committed" /\ \E p \in Positions : TxOf(p) = t /\ Wanted(p))
    ~> \E p \in Range(handled) : TxOf(p) = t

\* docs/how-it-works.md:1113: a processor "hands over one event at a time in log
\* order".  Two events of one tag, whose writers the locks put in order, are
\* handled in the order of their positions, the one a load folds them in.
HandledInTagOrder ==
  \A i, j \in DOMAIN handled :
    i < j /\ rows[handled[i]].event.tags \cap rows[handled[j]].event.tags # {}
      => handled[i] < handled[j]
=============================================================================
