------------------------ MODULE PostgresStreamProofs ------------------------
(***************************************************************************)
(* For any number of writers, any filter, any batch size and any number of *)
(* crashes: the stream passes nothing that is due, a restart from the      *)
(* stored token loses nothing, and no event is handled twice.              *)
(*                                                                         *)
(* The argument.  A place of the stream (the cursor, the token) is taken   *)
(* from a row below the oldest running transaction, and xids only grow, so *)
(* no running or later transaction has one at or below it (Frontier).  A   *)
(* row that is still to come therefore lies beyond every place, and what   *)
(* lies at or below a new place was in the snapshot the place came from.   *)
(***************************************************************************)
EXTENDS PostgresStream, SequenceTheorems, WellFoundedInduction, TLAPS

\* A transaction has an xid below nextXid once it has written, and a row is
\* a write.
XidsKnown ==
  /\ nextXid > 0
  /\ \A t \in Tx : xid[t] < nextXid /\ (status[t] = "idle" => xid[t] = 0)
  /\ \A p \in Positions : xid[TxOf(p)] # 0

\* No transaction that may still write has an xid at or below the place's.
Frontier(place) ==
  /\ place.xid < nextXid
  /\ \A t \in Tx : status[t] = "open" /\ xid[t] # 0 => place.xid < xid[t]

\* The place is the start, or that of a committed row.
OfRow(place) ==
  place.xid # 0 => /\ place.position \in Positions
                   /\ Visible(place.position)
                   /\ place = At(place.position)

\* How the three places of the reader are related.
PlacesAgree ==
  /\ Frontier(cursor) /\ OfRow(cursor)
  /\ Frontier(token) /\ OfRow(token)
  /\ cursor.xid = 0 => cursor.position = 0 /\ buffer = <<>>
  /\ token.xid = 0 => token.position = 0 /\ handled = <<>>
  /\ ~Beyond(token, cursor)
  /\ looked # Origin => looked = cursor /\ cursor.xid # 0

\* What was handled ends at the token, what is buffered lies between the token
\* and the cursor, in the order of the tuple.
BetweenPlaces ==
  /\ \A i \in 1..Len(handled) : ~Beyond(At(handled[i]), token)
  /\ \A i \in 1..Len(buffer) :
       /\ Visible(buffer[i])
       /\ Beyond(At(buffer[i]), token) /\ ~Beyond(At(buffer[i]), cursor)
  /\ \A i, j \in 1..Len(buffer) : i < j => Beyond(At(buffer[j]), At(buffer[i]))

\* The inductive invariant.
StreamInv ==
  /\ TypeOK /\ XidsKnown /\ PlacesAgree /\ BetweenPlaces
  /\ NoGaps /\ TokenCovers /\ HandledOnce

-----------------------------------------------------------------------------
\* A nonempty set of naturals has a least element, the one Min chooses.
LEMMA MinOfXids ==
  ASSUME NEW S \in SUBSET Nat, S # {}
  PROVE  Min(S) \in S /\ \A q \in S : Min(S) <= q
<1>1. PICK m \in S : \A y \in S : <<y, m>> \notin OpToRel(<, Nat)
  BY WFMin, NatLessThanWellFounded, Zenon
<1>2. \A y \in S : ~(y < m)
  BY <1>1, Zenon DEF OpToRel
<1>3. \E x \in S : \A y \in S : x <= y
  BY <1>2
<1> QED BY <1>3, Zenon DEF Min

\* pg_snapshot_xmin is at most the next xid and that of every writer.
LEMMA XminBounds ==
  ASSUME TypeOK
  PROVE  /\ Xmin \in Nat
         /\ Xmin <= nextXid
         /\ \A t \in Tx : status[t] = "open" /\ xid[t] # 0 => Xmin <= xid[t]
         /\ \A place : Frontier(place) => place.xid < Xmin
<1> DEFINE S == {nextXid} \cup {xid[t] : t \in {u \in Tx : status[u] = "open" /\ xid[u] # 0}}
<1>1. S \in SUBSET Nat /\ S # {}
  BY Zenon DEF TypeOK, RowsTypeOK
<1>2. Xmin = Min(S)
  BY Zenon DEF Xmin
<1>3. nextXid \in S /\ \A t \in Tx : status[t] = "open" /\ xid[t] # 0 => xid[t] \in S
  BY Zenon
<1>4. \A place : Frontier(place) => \A x \in S : place.xid < x
  BY Zenon DEF Frontier
<1> HIDE DEF S
<1>5. Min(S) \in S /\ \A q \in S : Min(S) <= q
  BY <1>1, MinOfXids, Zenon
<1> QED BY <1>1, <1>2, <1>3, <1>5, <1>4, Zenon

\* A row's place is a place.
LEMMA PlaceOfRow ==
  ASSUME TypeOK, NEW p \in Positions
  PROVE  /\ TxOf(p) \in Tx
         /\ At(p) = [xid |-> xid[TxOf(p)], position |-> p]
         /\ At(p) \in Place
<1>1. rows[p] \in [event : Event, tx : Tx]
  <2>1. rows \in Seq([event : Event, tx : Tx]) /\ p \in 1..Len(rows)
    BY Zenon DEF TypeOK, RowsTypeOK, Positions
  <2> QED BY <2>1, ElementOfSeq, Zenon
<1>2. TxOf(p) \in Tx
  BY <1>1, Zenon DEF TxOf
<1>3. xid[TxOf(p)] \in Nat /\ p \in Nat
  BY <1>2 DEF TypeOK, RowsTypeOK, Positions
<1> QED BY <1>2, <1>3, Zenon DEF At, Place

\* A settled row is a frontier, and all that is due at or below it is settled.
LEMMA SettledFrontier ==
  ASSUME TypeOK, XidsKnown, NEW q \in Settled
  PROVE  /\ q \in Positions
         /\ At(q).xid # 0
         /\ Frontier(At(q)) /\ OfRow(At(q)) /\ Visible(q)
         /\ \A p \in Positions : Due(p) /\ ~Beyond(At(p), At(q)) => p \in Settled
<1>1. q \in Positions /\ xid[TxOf(q)] < Xmin
  BY Zenon DEF Settled
<1>2. At(q).xid = xid[TxOf(q)] /\ xid[TxOf(q)] \in Nat
  BY <1>1, PlaceOfRow DEF TypeOK, RowsTypeOK
<1>3. At(q).xid # 0
  BY <1>1, <1>2, Zenon DEF XidsKnown
<1>4. Frontier(At(q))
  <2> SUFFICES /\ xid[TxOf(q)] < nextXid
               /\ \A t \in Tx : status[t] = "open" /\ xid[t] # 0 => xid[TxOf(q)] < xid[t]
    BY <1>2, Zenon DEF Frontier
  <2> QED BY <1>1, <1>2, XminBounds DEF TypeOK, RowsTypeOK
<1>5. ASSUME NEW p \in Positions, Due(p), ~Beyond(At(p), At(q))
      PROVE  p \in Settled
  <2>1. TxOf(p) \in Tx /\ At(p).xid = xid[TxOf(p)] /\ xid[TxOf(p)] \in Nat
    BY PlaceOfRow DEF TypeOK, RowsTypeOK
  <2>2. xid[TxOf(p)] <= xid[TxOf(q)]
    BY <1>2, <1>5, <2>1 DEF Beyond
  <2>3. xid[TxOf(p)] < Xmin /\ xid[TxOf(p)] # 0
    BY <1>1, <1>2, <2>1, <2>2, XminBounds DEF XidsKnown
  <2>4. ~InFlight(p)
    BY <2>1, <2>3, XminBounds DEF InFlight
  <2> QED BY <1>5, <2>3, <2>4, Zenon DEF Due, Settled
<1>6. OfRow(At(q)) /\ Visible(q)
  BY <1>1, PlaceOfRow DEF OfRow, Settled
<1> QED BY <1>1, <1>3, <1>4, <1>5, <1>6, Zenon

-----------------------------------------------------------------------------
\* What the writers may do to the reader's view: they move no row, settle no
\* frontier anew, and put what they add beyond every frontier.
RowsGrow ==
  /\ Positions \subseteq Positions'
  /\ \A p \in Positions :
       At(p)' = At(p) /\ (Due(p)' => Due(p)) /\ (Visible(p) => Visible(p)')
  /\ \A place \in Place : Frontier(place) =>
       /\ Frontier(place)'
       /\ \A p \in Positions' \ Positions : At(p)'.xid > place.xid

\* A transaction that begins has not written, one that ends no longer may.
LEMMA StatusStep ==
  ASSUME TypeOK, XidsKnown, NEW t \in Tx,
         Begin(t) \/ \E outcome \in {"committed", "aborted"} : End(t, outcome)
  PROVE  RowsTypeOK' /\ XidsKnown' /\ RowsGrow
<1>1. /\ rows' = rows /\ xid' = xid /\ nextXid' = nextXid
      /\ \E s \in {"open", "committed", "aborted"} :
           /\ status' = [status EXCEPT ![t] = s]
           /\ s = "open" => status[t] = "idle"
           /\ s # "open" => status[t] = "open"
  BY Zenon DEF Begin, End, BeginTx, EndTx
<1>2. PICK s \in {"open", "committed", "aborted"} :
        /\ status' = [status EXCEPT ![t] = s]
        /\ s = "open" => status[t] = "idle"
        /\ s # "open" => status[t] = "open"
  BY <1>1, Zenon
<1>3. RowsTypeOK'
  BY <1>1, <1>2, Zenon DEF TypeOK, RowsTypeOK
<1>4. XidsKnown'
  <2>1. Positions' = Positions /\ \A p \in Positions : TxOf(p)' = TxOf(p)
    BY <1>1, Zenon DEF Positions, TxOf
  <2>2. \A u \in Tx : status'[u] = "idle" => status[u] = "idle"
    BY <1>2, Zenon DEF TypeOK, RowsTypeOK
  <2> QED BY <1>1, <2>1, <2>2, Zenon DEF XidsKnown
<1>5. Positions' = Positions
  BY <1>1, Zenon DEF Positions
<1>6. ASSUME NEW p \in Positions
      PROVE  At(p)' = At(p) /\ (Due(p)' => Due(p)) /\ (Visible(p) => Visible(p)')
  <2>1. TxOf(p) \in Tx /\ TxOf(p)' = TxOf(p) /\ rows'[p] = rows[p]
    BY <1>1, PlaceOfRow, Zenon DEF TxOf
  <2>2. At(p)' = At(p)
    BY <1>1, <2>1, Zenon DEF At
  <2>3. xid[TxOf(p)] # 0 /\ status[TxOf(p)] # "idle"
    BY <2>1, Zenon DEF XidsKnown
  <2>4. status'[TxOf(p)] \in {"open", "committed"} => status[TxOf(p)] \in {"open", "committed"}
    BY <1>2, <2>1, <2>3, Zenon DEF TypeOK, RowsTypeOK
  <2>5. status[TxOf(p)] = "committed" => status'[TxOf(p)] = "committed"
    BY <1>2, <2>1, Zenon DEF TypeOK, RowsTypeOK
  <2> QED BY <1>1, <2>1, <2>2, <2>4, <2>5, Zenon DEF Due, Wanted, Visible, InFlight
<1>7. ASSUME NEW place \in Place, Frontier(place) PROVE Frontier(place)'
  <2>1. \A u \in Tx : status'[u] = "open" => status[u] = "open" \/ xid[u] = 0
    BY <1>2, Zenon DEF XidsKnown, TypeOK, RowsTypeOK
  <2> QED BY <1>1, <1>7, <2>1, Zenon DEF Frontier
<1> QED BY <1>3, <1>4, <1>5, <1>6, <1>7, Zenon DEF RowsGrow

\* A first write takes the next xid.
LEMMA XidStep ==
  ASSUME TypeOK, XidsKnown, NEW t \in Tx, status[t] = "open", AssignXid(t), status' = status
  PROVE  /\ xid' \in [Tx -> Nat] /\ nextXid' \in Nat /\ nextXid' > 0
         /\ xid'[t] # 0
         /\ \A u \in Tx : /\ xid'[u] < nextXid'
                          /\ status'[u] = "idle" => xid'[u] = 0
                          /\ xid[u] # 0 => xid'[u] = xid[u]
         /\ \A place \in Place : Frontier(place) => Frontier(place)' /\ place.xid < xid'[t]
<1>1. /\ xid \in [Tx -> Nat] /\ nextXid \in Nat /\ nextXid > 0
      /\ \A u \in Tx : xid[u] < nextXid /\ (status[u] = "idle" => xid[u] = 0)
  BY Zenon DEF TypeOK, RowsTypeOK, XidsKnown
<1>2. /\ xid' = [xid EXCEPT ![t] = IF xid[t] = 0 THEN nextXid ELSE xid[t]]
      /\ nextXid' = IF xid[t] = 0 THEN nextXid + 1 ELSE nextXid
  BY Zenon DEF AssignXid
<1>3. /\ xid' \in [Tx -> Nat] /\ nextXid' \in Nat /\ nextXid' > 0
      /\ xid'[t] # 0
      /\ \A u \in Tx : /\ xid'[u] < nextXid'
                       /\ status'[u] = "idle" => xid'[u] = 0
                       /\ xid[u] # 0 => xid'[u] = xid[u]
  BY <1>1, <1>2
<1>4. ASSUME NEW place \in Place, Frontier(place)
      PROVE  Frontier(place)' /\ place.xid < xid'[t]
  <2>1. place.xid \in Nat /\ place.xid < nextXid
    BY <1>4, Zenon DEF Frontier, Place
  <2>2. \A u \in Tx : status[u] = "open" /\ xid[u] # 0 => place.xid < xid[u]
    BY <1>4, Zenon DEF Frontier
  <2>3. place.xid < xid'[t] /\ place.xid < nextXid'
    BY <1>1, <1>2, <2>1, <2>2
  <2>4. \A u \in Tx : status'[u] = "open" /\ xid'[u] # 0 => place.xid < xid'[u]
    BY <1>1, <1>2, <2>1, <2>2, <2>3, Zenon
  <2> QED BY <2>3, <2>4, Zenon DEF Frontier
<1> QED BY <1>3, <1>4, Zenon

\* A write that is no append adds no row.
LEMMA OtherStep ==
  ASSUME TypeOK, XidsKnown, NEW t \in Tx, WriteOther(t)
  PROVE  RowsTypeOK' /\ XidsKnown' /\ RowsGrow
<1>1. status[t] = "open" /\ AssignXid(t) /\ status' = status /\ rows' = rows
  BY Zenon DEF WriteOther
<1>2. Positions' = Positions /\ \A p \in Positions : TxOf(p)' = TxOf(p) /\ TxOf(p) \in Tx
  BY <1>1, PlaceOfRow, Zenon DEF Positions, TxOf
<1>3. RowsTypeOK'
  BY <1>1, XidStep, Zenon DEF TypeOK, RowsTypeOK
<1>4. \A p \in Positions : xid'[TxOf(p)] = xid[TxOf(p)]
  BY <1>1, <1>2, XidStep, Zenon DEF XidsKnown
<1>5. XidsKnown'
  <2>1. \A p \in Positions' : xid'[TxOf(p)'] # 0
    BY <1>2, <1>4, Zenon DEF XidsKnown
  <2> QED BY <1>1, <2>1, XidStep, Zenon DEF XidsKnown
<1>6. \A p \in Positions :
        At(p)' = At(p) /\ (Due(p)' => Due(p)) /\ (Visible(p) => Visible(p)')
  BY <1>1, <1>2, <1>4, Zenon DEF At, Due, Wanted, Visible, InFlight
<1>7. \A place \in Place : Frontier(place) => Frontier(place)'
  BY <1>1, XidStep, Zenon
<1> QED BY <1>2, <1>3, <1>5, <1>6, <1>7, Zenon DEF RowsGrow

\* An append adds one row, with the xid of its transaction.
LEMMA AppendStep ==
  ASSUME TypeOK, XidsKnown, NEW t \in Tx, AppendRow(t)
  PROVE  RowsTypeOK' /\ XidsKnown' /\ RowsGrow
<1> DEFINE row == [event |-> Appended[t], tx |-> t]
           Row == [event : Event, tx : Tx]
<1>1. status[t] = "open" /\ AssignXid(t) /\ status' = status /\ rows' = Append(rows, row)
  BY Zenon DEF AppendRow, InsertRow
<1>2. row \in Row /\ rows \in Seq(Row)
  <2>1. Appended[t] \in Event
    BY StreamAssumption, Zenon
  <2> QED BY <2>1, Zenon DEF TypeOK, RowsTypeOK
<1>3. /\ rows' \in Seq(Row)
      /\ Len(rows') = Len(rows) + 1
      /\ Len(rows) \in Nat
      /\ \A p \in 1..Len(rows) : rows'[p] = rows[p]
      /\ rows'[Len(rows) + 1] = row
  <2> HIDE DEF row, Row
  <2> QED BY <1>1, <1>2
<1>4. /\ Positions' = Positions \cup {Len(rows) + 1}
      /\ \A p \in Positions : TxOf(p)' = TxOf(p) /\ rows'[p] = rows[p]
      /\ \A p \in Positions' \ Positions : TxOf(p)' = t
  BY <1>3 DEF Positions, TxOf
<1>5. RowsTypeOK'
  BY <1>1, <1>3, XidStep, Zenon DEF TypeOK, RowsTypeOK
<1>6. \A p \in Positions : xid'[TxOf(p)] = xid[TxOf(p)]
  BY <1>1, PlaceOfRow, XidStep, Zenon DEF XidsKnown
<1>7. XidsKnown'
  <2>1. \A p \in Positions' : xid'[TxOf(p)'] # 0
    <3> TAKE p \in Positions'
    <3>1. CASE p \in Positions
      BY <1>4, <1>6, <3>1 DEF XidsKnown
    <3>2. CASE p \notin Positions
      BY <1>1, <1>4, <3>2, XidStep, Zenon
    <3> QED BY <3>1, <3>2, Zenon
  <2> QED BY <1>1, <2>1, XidStep, Zenon DEF XidsKnown
<1>8. \A p \in Positions :
        At(p)' = At(p) /\ (Due(p)' => Due(p)) /\ (Visible(p) => Visible(p)')
  BY <1>1, <1>4, <1>6, Zenon DEF At, Due, Wanted, Visible, InFlight
<1>9. \A p \in Positions' \ Positions : At(p)'.xid = xid'[t]
  BY <1>4, Zenon DEF At
<1>10. \A place \in Place : Frontier(place) => Frontier(place)' /\ xid'[t] > place.xid
  <2>1. \A place \in Place : place.xid \in Nat
    BY Zenon DEF Place
  <2>2. xid'[t] \in Nat
    BY <1>1, XidStep, Zenon
  <2> QED BY <1>1, <2>1, <2>2, XidStep, Zenon
<1> QED BY <1>4, <1>5, <1>7, <1>8, <1>9, <1>10, Zenon DEF RowsGrow

\* The reader's places and elements are places and positions.
LEMMA ReaderTypes ==
  ASSUME TypeOK
  PROVE  /\ cursor \in Place /\ token \in Place /\ looked \in Place
         /\ Len(buffer) \in Nat /\ Len(handled) \in Nat
         /\ DOMAIN buffer = 1..Len(buffer) /\ DOMAIN handled = 1..Len(handled)
         /\ \A i \in 1..Len(buffer) : buffer[i] \in Positions
         /\ \A i \in 1..Len(handled) : handled[i] \in Positions
<1>1. buffer \in Seq(Positions) /\ handled \in Seq(Positions)
  BY Zenon DEF TypeOK
<1>2. cursor \in Place /\ token \in Place /\ looked \in Place
  BY Zenon DEF TypeOK
<1> HIDE DEF Positions
<1> QED BY <1>1, <1>2

\* Beyond is a strict order, and total on places.
LEMMA BeyondOrder ==
  ASSUME NEW a \in Place, NEW b \in Place, NEW c \in Place
  PROVE  /\ ~Beyond(a, a)
         /\ Beyond(a, b) => ~Beyond(b, a)
         /\ ~Beyond(a, b) /\ ~Beyond(b, a) => a.xid = b.xid /\ a.position = b.position
         /\ Beyond(a, b) /\ ~Beyond(c, b) => Beyond(a, c)
         /\ ~Beyond(b, a) /\ Beyond(b, c) => Beyond(a, c)
         /\ ~Beyond(a, b) /\ ~Beyond(b, c) => ~Beyond(a, c)
         /\ a.xid > b.xid => Beyond(a, b)
         /\ ~Beyond(a, b) => a.xid <= b.xid
<1>1. /\ a.xid \in Nat /\ b.xid \in Nat /\ c.xid \in Nat
      /\ a.position \in Nat /\ b.position \in Nat /\ c.position \in Nat
  BY Zenon DEF Place
<1> QED BY <1>1 DEF Beyond

\* A step of a writer keeps the invariant.
LEMMA WriterStep ==
  ASSUME StreamInv, RowsTypeOK', XidsKnown', RowsGrow, UNCHANGED streamVars
  PROVE  StreamInv'
<1>1. /\ cursor' = cursor /\ buffer' = buffer /\ looking' = looking /\ looked' = looked
      /\ token' = token /\ handled' = handled /\ crashes' = crashes
  BY Zenon DEF streamVars
<1>2. TypeOK /\ cursor \in Place /\ token \in Place
  BY ReaderTypes, Zenon DEF StreamInv
<1>3. TypeOK'
  <2>1. buffer \in Seq(Positions) /\ handled \in Seq(Positions)
    BY <1>2, Zenon DEF TypeOK
  <2>2. Positions \subseteq Positions'
    BY Zenon DEF RowsGrow
  <2>3. buffer \in Seq(Positions') /\ handled \in Seq(Positions')
    <3> HIDE DEF Positions
    <3> QED BY <2>1, <2>2
  <2> QED BY <1>1, <1>2, <2>3, Zenon DEF TypeOK
<1>4. PlacesAgree'
  <2>1. Frontier(cursor) /\ Frontier(token)
    BY Zenon DEF StreamInv, PlacesAgree
  <2>2. Frontier(cursor)' /\ Frontier(token)'
    BY <1>1, <1>2, <2>1, Zenon DEF RowsGrow, Frontier
  <2>3. OfRow(cursor)' /\ OfRow(token)'
    BY <1>1, Zenon DEF StreamInv, PlacesAgree, OfRow, RowsGrow, At, Visible, TxOf
  <2> QED BY <1>1, <2>2, <2>3, Zenon DEF StreamInv, PlacesAgree, Origin
<1>5. /\ \A i \in 1..Len(handled) : At(handled[i])' = At(handled[i])
      /\ \A i \in 1..Len(buffer) : At(buffer[i])' = At(buffer[i])
  BY <1>1, <1>2, ReaderTypes, Zenon DEF RowsGrow, At, TxOf
<1>6. BetweenPlaces'
  <2>1. \A i \in 1..Len(buffer) : Visible(buffer[i]) => Visible(buffer[i])'
    BY <1>1, <1>2, ReaderTypes, Zenon DEF RowsGrow, Visible, TxOf
  <2> QED BY <1>1, <1>5, <2>1, Zenon DEF StreamInv, BetweenPlaces
<1>7. ASSUME NEW p \in Positions', NEW place \in Place, Frontier(place),
             Due(p)', place.xid # 0, ~Beyond(At(p)', place)
      PROVE  p \in Positions /\ Due(p) /\ ~Beyond(At(p), place)
  <2>1. CASE p \in Positions
    BY <1>7, <2>1, Zenon DEF RowsGrow
  <2>2. CASE p \notin Positions
    BY <1>7, <2>2, Zenon DEF RowsGrow, Beyond
  <2> QED BY <2>1, <2>2, Zenon
<1>8. NoGaps'
  <2>1. ASSUME NEW p \in Positions', Due(p)', Passed(p, cursor)'
        PROVE  p \in Range(handled) \cup Range(buffer)
    <3>1. cursor.xid # 0 /\ ~Beyond(At(p)', cursor) /\ Frontier(cursor)
      BY <1>1, <2>1, Zenon DEF Passed, StreamInv, PlacesAgree
    <3>2. p \in Positions /\ Due(p) /\ Passed(p, cursor)
      BY <1>2, <1>7, <2>1, <3>1, Zenon DEF Passed
    <3> QED BY <3>2, Zenon DEF StreamInv, NoGaps
  <2> QED BY <1>1, <2>1, Zenon DEF NoGaps
<1>9. TokenCovers'
  <2>1. ASSUME NEW p \in Positions', Due(p)', Passed(p, token)'
        PROVE  p \in Range(handled)
    <3>1. token.xid # 0 /\ ~Beyond(At(p)', token) /\ Frontier(token)
      BY <1>1, <2>1, Zenon DEF Passed, StreamInv, PlacesAgree
    <3>2. p \in Positions /\ Due(p) /\ Passed(p, token)
      BY <1>2, <1>7, <2>1, <3>1, Zenon DEF Passed
    <3> QED BY <3>2, Zenon DEF StreamInv, TokenCovers
  <2> QED BY <1>1, <2>1, Zenon DEF TokenCovers
<1>10. HandledOnce'
  BY <1>1, Zenon DEF StreamInv, HandledOnce, IsInjective
<1> QED BY <1>3, <1>4, <1>6, <1>8, <1>9, <1>10, Zenon DEF StreamInv

-----------------------------------------------------------------------------
\* While the rows stay as they are, so does what the reader can say of them.
LEMMA RowsStay ==
  ASSUME TypeOK, XidsKnown, UNCHANGED rowVars
  PROVE  /\ RowsTypeOK' /\ XidsKnown' /\ Positions' = Positions
         /\ \A p : At(p)' = At(p)
         /\ \A p : (Due(p)' <=> Due(p)) /\ (Visible(p)' <=> Visible(p))
         /\ \A place : Frontier(place)' <=> Frontier(place)
<1>1. rows' = rows /\ status' = status /\ xid' = xid /\ nextXid' = nextXid
  BY Zenon DEF rowVars
<1>2. Positions' = Positions /\ \A p : TxOf(p)' = TxOf(p)
  BY <1>1, Zenon DEF Positions, TxOf
<1>3. RowsTypeOK'
  BY <1>1, Zenon DEF TypeOK, RowsTypeOK
<1>4. XidsKnown'
  BY <1>1, <1>2, Zenon DEF XidsKnown
<1>5. \A p : At(p)' = At(p)
  BY <1>1, <1>2, Zenon DEF At
<1>6. \A p : (Due(p)' <=> Due(p)) /\ (Visible(p)' <=> Visible(p))
  BY <1>1, <1>2, Zenon DEF Due, Wanted, Visible, InFlight
<1>7. \A place : Frontier(place)' <=> Frontier(place)
  BY <1>1, Zenon DEF Frontier
<1> QED BY <1>2, <1>3, <1>4, <1>5, <1>6, <1>7, Zenon

\* What is due at or below a settled row is behind the cursor already, or ahead.
LEMMA BehindOrAhead ==
  ASSUME StreamInv, NEW q \in Settled, NEW p \in Positions, Due(p), ~Beyond(At(p), At(q))
  PROVE  Passed(p, cursor) \/ p \in Ahead
<1>1. TypeOK /\ XidsKnown /\ PlacesAgree
  BY Zenon DEF StreamInv
<1>2. p \in Settled /\ Wanted(p)
  BY <1>1, SettledFrontier, Zenon DEF Due
<1>3. CASE cursor.xid = 0
  BY <1>1, <1>2, <1>3 DEF Ahead, AfterCursor, PlacesAgree, Positions
<1>4. CASE cursor.xid # 0
  BY <1>2, <1>4, Zenon DEF Ahead, AfterCursor, Passed
<1> QED BY <1>3, <1>4, Zenon

\* What is ahead lies beyond the cursor.
LEMMA AheadBeyond ==
  ASSUME StreamInv, NEW p \in Ahead
  PROVE  p \in Positions /\ p \in Settled /\ At(p) \in Place /\ Beyond(At(p), cursor)
<1>1. TypeOK /\ XidsKnown /\ PlacesAgree /\ cursor \in Place
  BY ReaderTypes, Zenon DEF StreamInv
<1>2. p \in Settled /\ AfterCursor(p)
  BY Zenon DEF Ahead
<1>3. p \in Positions /\ At(p).xid # 0 /\ At(p) \in Place
  BY <1>1, <1>2, SettledFrontier, PlaceOfRow, Zenon
<1>4. At(p).xid \in Nat /\ cursor.xid \in Nat
  BY <1>1, <1>3, Zenon DEF Place
<1>5. Beyond(At(p), cursor)
  BY <1>2, <1>3, <1>4 DEF AfterCursor, Beyond
<1> QED BY <1>2, <1>3, <1>5, Zenon

\* A fetch: the batch continues the buffer, and its last row is the cursor.
LEMMA FetchStep ==
  ASSUME StreamInv, Fetch
  PROVE  StreamInv'
<1>1. TypeOK /\ XidsKnown /\ PlacesAgree /\ BetweenPlaces
  BY Zenon DEF StreamInv
<1>2. PICK n \in 1..Limit : \E batch \in [1..n -> Ahead] :
        Returned(batch, n) /\ buffer' = buffer \o batch /\ cursor' = At(batch[n])
  BY Zenon DEF Fetch
<1>3. PICK batch \in [1..n -> Ahead] :
        Returned(batch, n) /\ buffer' = buffer \o batch /\ cursor' = At(batch[n])
  BY <1>2, Zenon
<1>4. /\ n \in Nat /\ n >= 1 /\ n \in 1..n
      /\ looked' = Origin /\ UNCHANGED rowVars
      /\ looking' = looking /\ token' = token /\ handled' = handled /\ crashes' = crashes
  BY StreamAssumption DEF Fetch
<1>5. \A i \in 1..n : batch[i] \in Positions /\ batch[i] \in Settled /\ batch[i] \in Ahead
                     /\ At(batch[i]) \in Place /\ Beyond(At(batch[i]), cursor)
  BY <1>3, AheadBeyond, Zenon
<1>6. /\ buffer' \in Seq(Positions)
      /\ Len(buffer') = Len(buffer) + n
      /\ \A i \in 1..Len(buffer) : buffer'[i] = buffer[i]
      /\ \A i \in Len(buffer) + 1..Len(buffer) + n : buffer'[i] = batch[i - Len(buffer)]
  <2>1. batch \in Seq(Positions) /\ Len(batch) = n
    <3>1. batch \in [1..n -> Positions]
      BY <1>3, <1>5, Zenon
    <3> HIDE DEF Positions
    <3> QED BY <1>4, <3>1
  <2>2. buffer \in Seq(Positions) /\ Len(buffer) \in Nat
    BY <1>1, ReaderTypes, Zenon DEF TypeOK
  <2>3. /\ buffer \o batch \in Seq(Positions)
        /\ Len(buffer \o batch) = Len(buffer) + Len(batch)
        /\ \A i \in 1..Len(buffer) + Len(batch) :
             (buffer \o batch)[i] = IF i <= Len(buffer) THEN buffer[i] ELSE batch[i - Len(buffer)]
    <3> HIDE DEF Positions
    <3> QED BY <2>1, <2>2, ConcatProperties, Zenon
  <2> QED BY <1>3, <1>4, <2>1, <2>2, <2>3
<1>7. /\ Len(buffer) \in Nat /\ Len(buffer') = Len(buffer) + n
      /\ \A i \in 1..Len(buffer) : buffer'[i] = buffer[i]
      /\ \A i \in Len(buffer) + 1..Len(buffer) + n : buffer'[i] = batch[i - Len(buffer)]
  BY <1>1, <1>6, ReaderTypes, Zenon
<1>8. n \in Nat /\ n >= 1
  BY <1>4, Zenon
<1> DEFINE q == batch[n]
<1>9. /\ q \in Settled /\ q \in Positions /\ At(q) \in Place /\ cursor' = At(q)
      /\ Beyond(At(q), cursor) /\ At(q).xid # 0 /\ Frontier(At(q)) /\ OfRow(At(q))
  BY <1>1, <1>3, <1>4, <1>5, SettledFrontier, Zenon
<1>10. /\ RowsTypeOK' /\ XidsKnown' /\ Positions' = Positions
       /\ \A p : At(p)' = At(p)
       /\ \A p : (Due(p)' <=> Due(p)) /\ (Visible(p)' <=> Visible(p))
       /\ \A place : Frontier(place)' <=> Frontier(place)
  BY <1>1, <1>4, RowsStay, Zenon
<1>11. cursor \in Place /\ token \in Place /\ Len(buffer) \in Nat
  BY <1>1, ReaderTypes, Zenon
<1>12. \A i \in 1..Len(buffer) : buffer[i] \in Positions /\ At(buffer[i]) \in Place
  BY <1>1, ReaderTypes, PlaceOfRow, Zenon
<1> HIDE DEF q
<1>13. TypeOK'
  <2>1. Origin \in Place
    BY Zenon DEF Origin, Place
  <2>2. {cursor', looked', token'} \subseteq Place
    BY <1>4, <1>9, <1>11, <2>1, Zenon
  <2> QED BY <1>1, <1>4, <1>6, <1>10, <2>2, Zenon DEF TypeOK
<1>14. PlacesAgree'
  <2>1. Frontier(cursor)' /\ Frontier(token)'
    BY <1>1, <1>4, <1>9, <1>10, Zenon DEF PlacesAgree, Frontier
  <2>2. ~Beyond(token, At(q))
    BY <1>1, <1>9, <1>11, BeyondOrder, Zenon DEF PlacesAgree
  <2>3. OfRow(cursor)' /\ OfRow(token)'
    BY <1>1, <1>4, <1>9, <1>10, Zenon DEF PlacesAgree, OfRow, At, Visible, TxOf
  <2> QED BY <1>1, <1>4, <1>9, <2>1, <2>2, <2>3, Zenon DEF PlacesAgree, Origin
<1>15. BetweenPlaces'
  <2>1. \A i \in 1..n : Beyond(At(batch[i]), token) /\ ~Beyond(At(batch[i]), At(q))
    <3> TAKE i \in 1..n
    <3>1. Beyond(At(batch[i]), token)
      BY <1>1, <1>5, <1>11, BeyondOrder, Zenon DEF PlacesAgree
    <3>2. i < n => Beyond(At(q), At(batch[i]))
      BY <1>3, <1>4, Zenon DEF Returned, q
    <3>3. i = n => batch[i] = q
      BY Zenon DEF q
    <3> QED BY <1>4, <1>5, <1>9, <3>1, <3>2, <3>3, BeyondOrder
  <2>2. \A i \in 1..Len(buffer) : Beyond(At(buffer[i]), token) /\ ~Beyond(At(buffer[i]), At(q))
    BY <1>1, <1>9, <1>11, <1>12, BeyondOrder, Zenon DEF BetweenPlaces
  <2>3. \A i \in 1..Len(buffer'), j \in 1..Len(buffer') :
          i < j => Beyond(At(buffer'[j]), At(buffer'[i]))
    <3> TAKE i \in 1..Len(buffer'), j \in 1..Len(buffer')
    <3> HAVE i < j
    <3>1. CASE j <= Len(buffer)
      <4>1. /\ i \in 1..Len(buffer) /\ j \in 1..Len(buffer)
            /\ buffer'[i] = buffer[i] /\ buffer'[j] = buffer[j]
        BY <1>7, <1>8, <3>1
      <4> QED BY <1>1, <4>1, Zenon DEF BetweenPlaces
    <3>2. CASE i <= Len(buffer) /\ j > Len(buffer)
      <4>1. j - Len(buffer) \in 1..n /\ buffer'[j] = batch[j - Len(buffer)] /\ buffer'[i] = buffer[i]
        BY <1>7, <1>8, <3>2
      <4>2. Beyond(At(batch[j - Len(buffer)]), cursor) /\ ~Beyond(At(buffer[i]), cursor)
        BY <1>1, <1>5, <1>11, <3>2, <4>1 DEF BetweenPlaces
      <4> QED BY <1>5, <1>11, <1>12, <3>2, <4>1, <4>2, BeyondOrder
    <3>3. CASE i > Len(buffer)
      <4>1. /\ j - Len(buffer) \in 1..n /\ buffer'[j] = batch[j - Len(buffer)]
            /\ i - Len(buffer) \in 1..n /\ buffer'[i] = batch[i - Len(buffer)]
            /\ i - Len(buffer) < j - Len(buffer)
        BY <1>7, <1>8, <3>3
      <4> QED BY <1>3, <4>1, Zenon DEF Returned
    <3> QED BY <1>7, <1>8, <3>1, <3>2, <3>3
  <2>4. \A i \in 1..Len(buffer') : Beyond(At(buffer'[i]), token) /\ ~Beyond(At(buffer'[i]), At(q))
    <3> TAKE i \in 1..Len(buffer')
    <3>1. CASE i <= Len(buffer)
      BY <1>7, <2>2, <3>1
    <3>2. CASE i > Len(buffer)
      <4>1. i - Len(buffer) \in 1..n /\ buffer'[i] = batch[i - Len(buffer)]
        BY <1>7, <1>8, <3>2
      <4> QED BY <2>1, <4>1, Zenon
    <3> QED BY <1>7, <1>8, <3>1, <3>2
  <2>5. /\ \A i \in 1..Len(buffer') : At(buffer[i])' = At(buffer'[i])
        /\ \A i \in 1..Len(handled) : At(handled[i])' = At(handled[i])
    BY <1>4, <1>10, Zenon DEF At, TxOf
  <2>6. \A i \in 1..Len(buffer') : Visible(buffer[i])'
    <3> TAKE i \in 1..Len(buffer')
    <3>1. CASE i <= Len(buffer)
      <4>1. i \in 1..Len(buffer) /\ buffer'[i] = buffer[i]
        BY <1>7, <3>1
      <4>2. Visible(buffer[i])
        BY <1>1, <4>1, Zenon DEF BetweenPlaces
      <4> QED BY <1>10, <4>1, <4>2, Zenon DEF Visible, TxOf
    <3>2. CASE i > Len(buffer)
      <4>1. i - Len(buffer) \in 1..n /\ buffer'[i] = batch[i - Len(buffer)]
        BY <1>7, <1>8, <3>2
      <4>2. Visible(batch[i - Len(buffer)])
        BY <1>5, <4>1, Zenon DEF Settled
      <4> QED BY <1>10, <4>1, <4>2, Zenon DEF Visible, TxOf
    <3> QED BY <1>7, <1>8, <3>1, <3>2
  <2> QED BY <1>1, <1>4, <1>9, <2>3, <2>4, <2>5, <2>6, Zenon DEF BetweenPlaces
<1>16. Range(buffer') = Range(buffer) \cup Range(batch)
  <2>1. /\ DOMAIN buffer' = 1..Len(buffer) + n /\ DOMAIN buffer = 1..Len(buffer)
        /\ DOMAIN batch = 1..n
    BY <1>1, <1>3, <1>4, <1>6, ReaderTypes
  <2>2. ASSUME NEW p \in Range(buffer') PROVE p \in Range(buffer) \cup Range(batch)
    <3>1. PICK i \in 1..Len(buffer) + n : p = buffer'[i]
      BY <2>1, Zenon DEF Range
    <3>2. CASE i <= Len(buffer)
      <4>1. i \in 1..Len(buffer) /\ p = buffer[i]
        BY <1>7, <3>1, <3>2
      <4> QED BY <2>1, <4>1, Zenon DEF Range
    <3>3. CASE i > Len(buffer)
      <4>1. i - Len(buffer) \in 1..n /\ p = batch[i - Len(buffer)]
        BY <1>7, <1>8, <3>1, <3>3
      <4> QED BY <2>1, <4>1, Zenon DEF Range
    <3> QED BY <1>4, <1>11, <3>1, <3>2, <3>3
  <2>3. ASSUME NEW p \in Range(buffer) PROVE p \in Range(buffer')
    <3>1. PICK i \in 1..Len(buffer) : p = buffer[i]
      BY <2>1, Zenon DEF Range
    <3>2. i \in 1..Len(buffer) + n /\ buffer'[i] = p
      BY <1>7, <1>8, <3>1
    <3> QED BY <2>1, <3>2, Zenon DEF Range
  <2>4. ASSUME NEW p \in Range(batch) PROVE p \in Range(buffer')
    <3>1. PICK i \in 1..n : p = batch[i]
      BY <2>1, Zenon DEF Range
    <3>2. i + Len(buffer) \in 1..Len(buffer) + n /\ buffer'[i + Len(buffer)] = p
      BY <1>7, <1>8, <3>1
    <3> QED BY <2>1, <3>2, Zenon DEF Range
  <2> QED BY <2>2, <2>3, <2>4, Zenon
<1>17. NoGaps'
  <2>1. ASSUME NEW p \in Positions, Due(p), ~Beyond(At(p), At(q))
        PROVE  p \in Range(handled) \cup Range(buffer')
    <3>1. CASE Passed(p, cursor)
      BY <1>16, <2>1, <3>1, Zenon DEF StreamInv, NoGaps
    <3>2. CASE p \in Ahead
      BY <1>3, <1>16, <2>1, <3>2, Zenon DEF Returned, q
    <3> QED BY <1>9, <2>1, <3>1, <3>2, BehindOrAhead, Zenon
  <2> QED BY <1>4, <1>9, <1>10, <2>1, Zenon DEF NoGaps, Passed
<1>18. TokenCovers' /\ HandledOnce'
  BY <1>4, <1>10, Zenon DEF StreamInv, TokenCovers, Passed, HandledOnce, IsInjective
<1> QED BY <1>10, <1>13, <1>14, <1>15, <1>17, <1>18, Zenon DEF StreamInv

\* A look past the end: nothing due lies between the cursor and the newest row.
LEMMA LookPastStep ==
  ASSUME StreamInv, LookPast
  PROVE  StreamInv'
<1>1. TypeOK /\ XidsKnown /\ PlacesAgree /\ BetweenPlaces
  BY Zenon DEF StreamInv
<1>2. /\ UNCHANGED rowVars /\ looking' \in BOOLEAN
      /\ buffer' = buffer /\ token' = token /\ handled' = handled /\ crashes' = crashes
  BY Zenon DEF LookPast
<1>3. /\ RowsTypeOK' /\ XidsKnown' /\ Positions' = Positions
      /\ \A p : At(p)' = At(p)
      /\ \A p : (Due(p)' <=> Due(p)) /\ (Visible(p)' <=> Visible(p))
      /\ \A place : Frontier(place)' <=> Frontier(place)
  BY <1>1, <1>2, RowsStay, Zenon
<1>4. /\ cursor \in Place /\ token \in Place /\ Origin \in Place
      /\ \A i \in 1..Len(buffer) : At(buffer[i]) \in Place
  BY <1>1, ReaderTypes, PlaceOfRow, Zenon DEF Origin, Place
<1>5. CASE looked' = Origin /\ cursor' = cursor
  <2>1. TypeOK'
    BY <1>1, <1>2, <1>3, <1>4, <1>5, Zenon DEF TypeOK
  <2>2. PlacesAgree' /\ BetweenPlaces'
    BY <1>1, <1>2, <1>3, <1>5
       DEF PlacesAgree, BetweenPlaces, Frontier, OfRow, At, TxOf, Visible, Origin
  <2>3. NoGaps' /\ TokenCovers' /\ HandledOnce'
    BY <1>2, <1>3, <1>5, Zenon DEF StreamInv, NoGaps, TokenCovers, Passed, HandledOnce, IsInjective
  <2> QED BY <1>3, <2>1, <2>2, <2>3, Zenon DEF StreamInv
<1>6. CASE Ahead = {} /\ \E q \in Settled : IsNewest(q) /\ looked' = At(q) /\ cursor' = At(q)
  <2>1. PICK q \in Settled : IsNewest(q) /\ looked' = At(q) /\ cursor' = At(q)
    BY <1>6, Zenon
  <2>2. q \in Positions /\ At(q).xid # 0 /\ Frontier(At(q)) /\ At(q) \in Place
    BY <1>1, SettledFrontier, PlaceOfRow, Zenon
  <2>3. TypeOK'
    BY <1>1, <1>2, <1>3, <1>4, <2>1, <2>2, Zenon DEF TypeOK
  <2>4. ASSUME NEW p \in Positions, Due(p), ~Beyond(At(p), At(q))
        PROVE  p \in Range(handled) \cup Range(buffer)
    BY <1>6, <2>4, BehindOrAhead, Zenon DEF StreamInv, NoGaps
  \* The cursor is the start or a settled row, so it does not go back.
  <2>5. ~Beyond(cursor, At(q))
    <3>1. CASE cursor.xid = 0
      <4>1. cursor.position = 0 /\ At(q).xid \in Nat /\ At(q).position \in Nat
        BY <1>1, <2>2, <3>1, Zenon DEF PlacesAgree, Place
      <4> QED BY <3>1, <4>1 DEF Beyond
    <3>2. CASE cursor.xid # 0
      <4>1. /\ cursor.position \in Positions /\ Visible(cursor.position)
            /\ cursor = At(cursor.position) /\ cursor.xid < Xmin
        BY <1>1, <3>2, XminBounds, Zenon DEF PlacesAgree, OfRow
      <4>2. cursor.xid = xid[TxOf(cursor.position)]
        BY <4>1 DEF At
      <4>3. cursor.position \in Settled
        BY <4>1, <4>2, Zenon DEF Settled
      <4> QED BY <2>1, <4>1, <4>3, Zenon DEF IsNewest
    <3> QED BY <3>1, <3>2, Zenon
  <2>6. PlacesAgree'
    <3>1. Frontier(cursor)' /\ Frontier(token)'
      BY <1>1, <1>2, <1>3, <2>1, <2>2, Zenon DEF PlacesAgree, Frontier
    <3>2. OfRow(cursor)' /\ OfRow(token)'
      <4>1. OfRow(At(q)) /\ OfRow(token)
        BY <1>1, SettledFrontier, Zenon DEF PlacesAgree
      <4> QED BY <1>2, <1>3, <2>1, <4>1, Zenon DEF OfRow, At, Visible, TxOf
    <3>3. ~Beyond(token, At(q))
      BY <1>1, <1>4, <2>2, <2>5, BeyondOrder, Zenon DEF PlacesAgree
    <3> QED BY <1>1, <1>2, <2>1, <2>2, <3>1, <3>2, <3>3, Zenon DEF PlacesAgree, Origin
  <2>7. BetweenPlaces'
    <3>1. \A i \in 1..Len(buffer) : ~Beyond(At(buffer[i]), At(q))
      BY <1>1, <1>4, <2>2, <2>5, BeyondOrder, Zenon DEF BetweenPlaces
    <3> QED BY <1>1, <1>2, <1>3, <2>1, <3>1, Zenon DEF BetweenPlaces, At, Visible, TxOf
  <2>8. NoGaps'
    BY <1>2, <1>3, <2>1, <2>4, Zenon DEF NoGaps, Passed
  <2>9. TokenCovers' /\ HandledOnce'
    BY <1>2, <1>3, Zenon DEF StreamInv, TokenCovers, Passed, HandledOnce, IsInjective
  <2> QED BY <1>3, <2>3, <2>6, <2>7, <2>8, <2>9, Zenon DEF StreamInv
<1> QED BY <1>5, <1>6, Zenon DEF LookPast

\* An event handled: the first of the buffer, with its place as the token.
LEMMA HandleStep ==
  ASSUME StreamInv, HandleEvent
  PROVE  StreamInv'
<1> DEFINE h == Head(buffer)
<1>1. TypeOK /\ XidsKnown /\ PlacesAgree /\ BetweenPlaces
  BY Zenon DEF StreamInv
<1>2. /\ UNCHANGED rowVars /\ buffer # <<>>
      /\ token' = At(h) /\ handled' = Append(handled, h) /\ buffer' = Tail(buffer)
      /\ cursor' = cursor /\ looking' = looking /\ looked' = looked /\ crashes' = crashes
  BY Zenon DEF HandleEvent
<1>3. /\ RowsTypeOK' /\ XidsKnown' /\ Positions' = Positions
      /\ \A p : At(p)' = At(p)
      /\ \A p : (Due(p)' <=> Due(p)) /\ (Visible(p)' <=> Visible(p))
      /\ \A place : Frontier(place)' <=> Frontier(place)
  BY <1>1, <1>2, RowsStay, Zenon
<1>4. /\ cursor \in Place /\ token \in Place /\ Len(buffer) \in Nat /\ Len(handled) \in Nat
      /\ \A i \in 1..Len(buffer) : buffer[i] \in Positions /\ At(buffer[i]) \in Place
      /\ \A i \in 1..Len(handled) : handled[i] \in Positions /\ At(handled[i]) \in Place
  BY <1>1, ReaderTypes, PlaceOfRow, Zenon
<1>5. /\ Len(buffer) >= 1 /\ h = buffer[1] /\ h \in Positions
      /\ buffer' \in Seq(Positions) /\ Len(buffer') = Len(buffer) - 1
      /\ \A i \in 1..Len(buffer') : buffer'[i] = buffer[i + 1]
  <2>1. buffer \in Seq(Positions)
    BY <1>1, Zenon DEF TypeOK
  <2> HIDE DEF Positions
  <2> QED BY <1>2, <2>1
<1> HIDE DEF h
<1>6. /\ handled' \in Seq(Positions) /\ Len(handled') = Len(handled) + 1
      /\ \A i \in 1..Len(handled) : handled'[i] = handled[i]
      /\ handled'[Len(handled) + 1] = h
  <2>1. handled \in Seq(Positions)
    BY <1>1, Zenon DEF TypeOK
  <2> HIDE DEF Positions
  <2> QED BY <1>2, <1>5, <2>1
<1>7. /\ Len(buffer) \in Nat /\ Len(buffer) >= 1 /\ Len(buffer') = Len(buffer) - 1
      /\ \A i \in 1..Len(buffer') : buffer'[i] = buffer[i + 1]
      /\ h = buffer[1]
  BY <1>4, <1>5, Zenon
<1>8. /\ Len(handled) \in Nat /\ Len(handled') = Len(handled) + 1
      /\ \A i \in 1..Len(handled) : handled'[i] = handled[i]
      /\ handled'[Len(handled) + 1] = h
  BY <1>4, <1>6, Zenon
<1>9. \A i \in 1..Len(buffer') :
        i + 1 \in 1..Len(buffer) /\ 1 \in 1..Len(buffer) /\ 1 < i + 1 /\ buffer'[i] = buffer[i + 1]
  BY <1>7
<1>10. /\ At(h) \in Place /\ At(h).xid # 0 /\ Visible(h)
       /\ Beyond(At(h), token) /\ ~Beyond(At(h), cursor)
  <2>1. 1 \in 1..Len(buffer)
    BY <1>4, <1>5
  <2>2. At(h) = [xid |-> xid[TxOf(h)], position |-> h] /\ At(h) \in Place
    BY <1>1, <1>5, PlaceOfRow, Zenon
  <2>3. At(h).xid # 0
    BY <1>1, <1>5, <2>2 DEF XidsKnown
  <2>4. Visible(h) /\ Beyond(At(h), token) /\ ~Beyond(At(h), cursor)
    BY <1>1, <1>7, <2>1, Zenon DEF BetweenPlaces
  <2> QED BY <2>2, <2>3, <2>4, Zenon
<1>11. \A i \in 1..Len(buffer') : Beyond(At(buffer'[i]), At(h))
  <2>1. \A i, j \in 1..Len(buffer) : i < j => Beyond(At(buffer[j]), At(buffer[i]))
    BY <1>1, Zenon DEF BetweenPlaces
  <2> QED BY <1>7, <1>9, <2>1, Zenon
<1>12. TypeOK'
  BY <1>1, <1>2, <1>3, <1>5, <1>6, <1>10, Zenon DEF TypeOK
<1>13. PlacesAgree'
  <2>1. Frontier(cursor) /\ cursor.xid # 0
    <3>1. cursor.xid = 0 => buffer = <<>>
      BY <1>1, Zenon DEF PlacesAgree
    <3> QED BY <1>1, <1>2, <3>1, Zenon DEF PlacesAgree
  <2>2. Frontier(At(h))
    <3>1. At(h).xid <= cursor.xid /\ At(h).xid \in Nat /\ cursor.xid \in Nat
      BY <1>4, <1>10, BeyondOrder, Zenon DEF Place
    <3>2. nextXid \in Nat /\ xid \in [Tx -> Nat]
      BY <1>1, Zenon DEF TypeOK, RowsTypeOK
    <3> QED BY <2>1, <3>1, <3>2 DEF Frontier
  <2>3. Frontier(cursor)' /\ Frontier(token)'
    BY <1>2, <1>3, <2>1, <2>2, Zenon DEF Frontier
  <2>4. OfRow(cursor)' /\ OfRow(token)'
    <3>1. At(h).position = h
      BY Zenon DEF At
    <3> QED BY <1>1, <1>2, <1>3, <1>5, <1>10, <3>1, Zenon DEF PlacesAgree, OfRow, At, Visible, TxOf
  <2> QED BY <1>1, <1>2, <1>10, <2>1, <2>3, <2>4, Zenon DEF PlacesAgree, Origin
<1>14. BetweenPlaces'
  <2>1. \A i \in 1..Len(handled') : ~Beyond(At(handled'[i]), At(h))
    <3> TAKE i \in 1..Len(handled')
    <3>1. CASE i = Len(handled) + 1
      BY <1>10, <1>8, <3>1, BeyondOrder, Zenon
    <3>2. CASE i <= Len(handled)
      <4>1. i \in 1..Len(handled) /\ handled'[i] = handled[i]
        BY <1>8, <3>2
      <4>2. At(handled[i]) \in Place /\ ~Beyond(At(handled[i]), token)
        BY <1>1, <1>4, <4>1, Zenon DEF BetweenPlaces
      <4> QED BY <1>4, <1>10, <4>1, <4>2, BeyondOrder, Zenon
    <3> QED BY <1>8, <3>1, <3>2
  <2>2. \A i \in 1..Len(buffer') : Visible(buffer'[i]) /\ ~Beyond(At(buffer'[i]), cursor)
    BY <1>1, <1>9, Zenon DEF BetweenPlaces
  <2>3. \A i \in 1..Len(buffer'), j \in 1..Len(buffer') :
          i < j => Beyond(At(buffer'[j]), At(buffer'[i]))
    <3>1. \A i \in 1..Len(buffer'), j \in 1..Len(buffer') : i < j => i + 1 < j + 1
      BY <1>7
    <3>2. \A i, j \in 1..Len(buffer) : i < j => Beyond(At(buffer[j]), At(buffer[i]))
      BY <1>1, Zenon DEF BetweenPlaces
    <3> QED BY <1>9, <3>1, <3>2, Zenon
  <2>4. /\ \A i \in 1..Len(buffer') : At(buffer[i])' = At(buffer'[i])
        /\ \A i \in 1..Len(buffer') : Visible(buffer[i])' <=> Visible(buffer'[i])
        /\ \A i \in 1..Len(handled') : At(handled[i])' = At(handled'[i])
    BY <1>3, Zenon DEF At, Visible, TxOf
  <2>5. token' = At(h) /\ cursor' = cursor
    BY <1>2, Zenon
  <2> QED BY <1>11, <2>1, <2>2, <2>3, <2>4, <2>5, Zenon DEF BetweenPlaces
<1>15. /\ \A p : p \in Range(buffer) => p = h \/ p \in Range(buffer')
       /\ \A p : p \in Range(handled) \/ p = h => p \in Range(handled')
  <2>1. /\ DOMAIN buffer = 1..Len(buffer) /\ DOMAIN handled = 1..Len(handled)
        /\ DOMAIN buffer' = 1..Len(buffer') /\ DOMAIN handled' = 1..Len(handled')
    BY <1>1, <1>5, <1>6, ReaderTypes
  <2>2. ASSUME NEW p \in Range(buffer), p # h PROVE p \in Range(buffer')
    <3>1. PICK i \in 1..Len(buffer) : p = buffer[i]
      BY <2>1, Zenon DEF Range
    <3>2. i # 1
      BY <1>5, <2>2, <3>1, Zenon
    <3>3. i - 1 \in 1..Len(buffer') /\ buffer'[i - 1] = p
      BY <1>7, <3>1, <3>2
    <3> QED BY <2>1, <3>3, Zenon DEF Range
  <2>3. ASSUME NEW p \in Range(handled) PROVE p \in Range(handled')
    <3>1. PICK i \in 1..Len(handled) : p = handled[i]
      BY <2>1, Zenon DEF Range
    <3>2. i \in 1..Len(handled') /\ handled'[i] = p
      BY <1>8, <3>1
    <3> QED BY <2>1, <3>2, Zenon DEF Range
  <2>4. h \in Range(handled')
    <3>1. Len(handled) + 1 \in 1..Len(handled')
      BY <1>8
    <3> QED BY <1>8, <2>1, <3>1, Zenon DEF Range
  <2> QED BY <2>2, <2>3, <2>4, Zenon
<1>16. NoGaps'
  BY <1>2, <1>3, <1>15, Zenon DEF StreamInv, NoGaps, Passed
<1>17. TokenCovers'
  <2>1. ASSUME NEW p \in Positions, Due(p), ~Beyond(At(p), At(h))
        PROVE  p \in Range(handled')
    <3>1. At(p) \in Place /\ ~Beyond(At(p), cursor)
      BY <1>1, <1>4, <1>10, <2>1, PlaceOfRow, BeyondOrder, Zenon
    <3>2. cursor.xid # 0
      <4>1. cursor.xid = 0 => buffer = <<>>
        BY <1>1, Zenon DEF PlacesAgree
      <4> QED BY <1>2, <4>1, Zenon
    <3>3. p \in Range(handled) \cup Range(buffer)
      BY <2>1, <3>1, <3>2, Zenon DEF StreamInv, NoGaps, Passed
    <3>4. p \notin Range(buffer')
      <4>1. DOMAIN buffer' = 1..Len(buffer')
        BY <1>5
      <4> QED BY <1>11, <2>1, <4>1, Zenon DEF Range
    <3> QED BY <1>15, <3>3, <3>4, Zenon
  <2> QED BY <1>2, <1>3, <2>1, Zenon DEF TokenCovers, Passed
<1>18. HandledOnce'
  <2>1. DOMAIN handled' = 1..Len(handled') /\ DOMAIN handled = 1..Len(handled)
    BY <1>1, <1>6, ReaderTypes
  <2>2. \A i \in 1..Len(handled) : handled[i] # h
    BY <1>1, <1>10, Zenon DEF BetweenPlaces
  <2>3. \A i, j \in 1..Len(handled) : handled[i] = handled[j] => i = j
    BY <2>1, Zenon DEF StreamInv, HandledOnce, IsInjective
  <2>4. \A i, j \in 1..Len(handled') : handled'[i] = handled'[j] => i = j
    BY <1>8, <2>2, <2>3
  <2> QED BY <2>1, <2>4, Zenon DEF HandledOnce, IsInjective
<1> QED BY <1>3, <1>12, <1>13, <1>14, <1>16, <1>17, <1>18, Zenon DEF StreamInv

\* The steps that only forget or move a place.
LEMMA PlaceStep ==
  ASSUME StreamInv, FetchNothing \/ MoveThroughQuietStretch \/ Reopen
  PROVE  StreamInv'
<1>1. TypeOK /\ XidsKnown /\ PlacesAgree /\ BetweenPlaces
  BY Zenon DEF StreamInv
<1>2. UNCHANGED rowVars /\ handled' = handled
  BY Zenon DEF FetchNothing, MoveThroughQuietStretch, Reopen
<1>3. /\ RowsTypeOK' /\ XidsKnown' /\ Positions' = Positions
      /\ \A p : At(p)' = At(p)
      /\ \A p : (Due(p)' <=> Due(p)) /\ (Visible(p)' <=> Visible(p))
      /\ \A place : Frontier(place)' <=> Frontier(place)
  BY <1>1, <1>2, RowsStay, Zenon
<1>4. /\ cursor \in Place /\ token \in Place /\ Origin \in Place /\ Len(handled) \in Nat
      /\ \A i \in 1..Len(handled) : At(handled[i]) \in Place
  BY <1>1, ReaderTypes, PlaceOfRow, Zenon DEF Origin, Place
<1>5. HandledOnce'
  BY <1>2, Zenon DEF StreamInv, HandledOnce, IsInjective
<1>6. CASE FetchNothing
  <2>1. /\ cursor' = cursor /\ buffer' = buffer /\ token' = token /\ crashes' = crashes
        /\ looked' = Origin /\ looking' \in BOOLEAN
    BY <1>6, StreamAssumption, Zenon DEF FetchNothing
  <2>2. TypeOK'
    BY <1>1, <1>2, <1>3, <1>4, <2>1, Zenon DEF TypeOK
  <2>3. PlacesAgree' /\ BetweenPlaces'
    BY <1>1, <1>2, <1>3, <2>1, Zenon
       DEF PlacesAgree, BetweenPlaces, Frontier, OfRow, At, TxOf, Visible, Origin
  <2>4. NoGaps' /\ TokenCovers'
    BY <1>2, <1>3, <2>1, Zenon DEF StreamInv, NoGaps, TokenCovers, Passed
  <2> QED BY <1>3, <1>5, <2>2, <2>3, <2>4, Zenon DEF StreamInv
<1>7. CASE MoveThroughQuietStretch
  <2>1. /\ buffer = <<>> /\ cursor' = cursor /\ buffer' = buffer /\ crashes' = crashes
        /\ looked # Origin /\ token' = looked /\ looked' = looked /\ looking' = looking
    BY <1>7, Zenon DEF MoveThroughQuietStretch
  <2>2. looked = cursor /\ cursor.xid # 0
    BY <1>1, <2>1, Zenon DEF PlacesAgree
  <2>3. TypeOK'
    BY <1>1, <1>2, <1>3, <2>1, Zenon DEF TypeOK
  <2>4. PlacesAgree'
    <3>1. ~Beyond(cursor, cursor)
      BY <1>4, BeyondOrder, Zenon
    <3> QED BY <1>1, <1>2, <1>3, <2>1, <2>2, <3>1, Zenon
            DEF PlacesAgree, Frontier, OfRow, At, TxOf, Visible, Origin
  <2>5. BetweenPlaces'
    <3>1. \A i \in 1..Len(handled) : ~Beyond(At(handled[i]), cursor)
      BY <1>1, <1>4, BeyondOrder, Zenon DEF PlacesAgree, BetweenPlaces
    <3>2. 1..Len(buffer') = {} /\ token' = cursor
      BY <2>1, <2>2
    <3> QED BY <1>2, <1>3, <3>1, <3>2, Zenon DEF BetweenPlaces, At, TxOf
  <2>6. NoGaps' /\ TokenCovers'
    <3>1. Range(buffer) = {}
      BY <2>1 DEF Range
    <3> QED BY <1>2, <1>3, <2>1, <2>2, <3>1, Zenon DEF StreamInv, NoGaps, TokenCovers, Passed
  <2> QED BY <1>3, <1>5, <2>3, <2>4, <2>5, <2>6, Zenon DEF StreamInv
<1>8. CASE Reopen
  <2>1. /\ cursor' = token /\ buffer' = <<>> /\ looking' = FALSE /\ looked' = Origin
        /\ token' = token /\ crashes < MaxCrashes /\ crashes' = crashes + 1
    BY <1>8, Zenon DEF Reopen
  <2>2. TypeOK'
    <3>1. crashes' \in 0..MaxCrashes
      BY <1>1, <2>1, StreamAssumption DEF TypeOK
    <3>2. <<>> \in Seq(Positions)
      BY EmptySeq, Zenon
    <3> QED BY <1>1, <1>2, <1>3, <1>4, <2>1, <3>1, <3>2, Zenon DEF TypeOK
  <2>3. PlacesAgree'
    <3>1. ~Beyond(token, token)
      BY <1>4, BeyondOrder, Zenon
    <3> QED BY <1>1, <1>2, <1>3, <2>1, <3>1, Zenon
            DEF PlacesAgree, Frontier, OfRow, At, TxOf, Visible, Origin
  <2>4. BetweenPlaces'
    <3>1. 1..Len(buffer') = {} /\ token' = token
      BY <2>1
    <3> QED BY <1>1, <1>2, <1>3, <3>1, Zenon DEF BetweenPlaces, At, TxOf
  <2>5. NoGaps' /\ TokenCovers'
    BY <1>2, <1>3, <2>1, Zenon DEF StreamInv, NoGaps, TokenCovers, Passed
  <2> QED BY <1>3, <1>5, <2>2, <2>3, <2>4, <2>5, Zenon DEF StreamInv
<1> QED BY <1>6, <1>7, <1>8, Zenon

-----------------------------------------------------------------------------
\* The stream starts at the origin of an empty table.
LEMMA StreamInit ==
  ASSUME Init
  PROVE  StreamInv
<1>1. /\ rows = <<>> /\ status = [t \in Tx |-> "idle"] /\ xid = [t \in Tx |-> 0] /\ nextXid = 1
      /\ cursor = Origin /\ buffer = <<>> /\ looking = FALSE /\ looked = Origin
      /\ token = Origin /\ handled = <<>> /\ crashes = 0
  BY Zenon DEF Init, RowsInit
<1>2. Positions = {} /\ Len(handled) = 0 /\ Len(buffer) = 0
  BY <1>1 DEF Positions
<1>3. TypeOK
  <2>1. Origin \in Place
    BY Zenon DEF Origin, Place
  <2>2. RowsTypeOK
    BY <1>1 DEF RowsTypeOK
  <2>3. buffer \in Seq(Positions) /\ handled \in Seq(Positions)
    BY <1>1, EmptySeq, Zenon
  <2>4. crashes \in 0..MaxCrashes /\ looking \in BOOLEAN
    <3>1. crashes \in 0..MaxCrashes
      BY <1>1, StreamAssumption
    <3>2. looking \in BOOLEAN
      BY <1>1, Zenon
    <3> QED BY <3>1, <3>2, Zenon
  <2>5. {cursor, looked, token} \subseteq Place
    BY <1>1, <2>1, Zenon
  <2> QED BY <2>2, <2>3, <2>4, <2>5, Zenon DEF TypeOK
<1>4. XidsKnown
  BY <1>1, <1>2 DEF XidsKnown
<1>5. PlacesAgree
  BY <1>1 DEF PlacesAgree, Frontier, OfRow, Beyond, Origin
<1>6. BetweenPlaces
  BY <1>2 DEF BetweenPlaces
<1>7. NoGaps /\ TokenCovers /\ HandledOnce
  BY <1>1, <1>2 DEF NoGaps, TokenCovers, HandledOnce, IsInjective
<1> QED BY <1>3, <1>4, <1>5, <1>6, <1>7, Zenon DEF StreamInv

\* Every step keeps the invariant.
LEMMA StreamStep ==
  ASSUME StreamInv, [Next]_vars
  PROVE  StreamInv'
<1>1. TypeOK /\ XidsKnown
  BY Zenon DEF StreamInv
<1>2. ASSUME NEW t \in Tx,
             Begin(t) \/ \E outcome \in {"committed", "aborted"} : End(t, outcome)
      PROVE  StreamInv'
  <2>1. UNCHANGED streamVars
    BY <1>2, Zenon DEF Begin, End
  <2> QED BY <1>1, <1>2, <2>1, StatusStep, WriterStep, Zenon
<1>3. ASSUME NEW t \in Tx, WriteOther(t)
      PROVE  StreamInv'
  <2>1. UNCHANGED streamVars
    BY <1>3, Zenon DEF WriteOther
  <2> QED BY <1>1, <1>3, <2>1, OtherStep, WriterStep, Zenon
<1>4. ASSUME NEW t \in Tx, AppendRow(t)
      PROVE  StreamInv'
  <2>1. UNCHANGED streamVars
    BY <1>4, Zenon DEF AppendRow
  <2> QED BY <1>1, <1>4, <2>1, AppendStep, WriterStep, Zenon
<1>5. CASE UNCHANGED vars
  <2>1. UNCHANGED rowVars /\ UNCHANGED streamVars
    BY <1>5, Zenon DEF vars
  <2>2. /\ RowsTypeOK' /\ XidsKnown' /\ Positions' = Positions
        /\ \A p : At(p)' = At(p)
        /\ \A p : (Due(p)' <=> Due(p)) /\ (Visible(p)' <=> Visible(p))
        /\ \A place : Frontier(place)' <=> Frontier(place)
    BY <1>1, <2>1, RowsStay, Zenon
  <2>3. RowsGrow
    BY <2>2, Zenon DEF RowsGrow
  <2> QED BY <2>1, <2>2, <2>3, WriterStep, Zenon
<1> QED BY <1>2, <1>3, <1>4, <1>5, FetchStep, LookPastStep, HandleStep, PlaceStep, Zenon DEF Next

\* The whole invariant holds of every behaviour of the stream.
THEOREM StreamHolds == Spec => []StreamInv
<1>1. Init => StreamInv
  BY StreamInit, Zenon
<1>2. StreamInv /\ [Next]_vars => StreamInv'
  BY StreamStep, Zenon
<1> QED BY <1>1, <1>2, PTL DEF Spec

\* The state of the reader keeps its types, positions and places included.
THEOREM StreamTyped == Spec => []TypeOK
<1>1. StreamInv => TypeOK
  BY Zenon DEF StreamInv
<1> QED BY <1>1, StreamHolds, PTL

\* GAP-FREE TAILING for any number of writers (README.md:302): fetchBatch's
\* xmin fence is enough for the cursor never to pass a row that is still due.
THEOREM TailsWithoutGaps == Spec => []NoGaps
<1>1. StreamInv => NoGaps
  BY Zenon DEF StreamInv
<1> QED BY <1>1, StreamHolds, PTL

\* A restart from the stored token loses nothing, whatever the crashes, the
\* quiet stretches lookPast jumped over and the order of the commits.
THEOREM RestartsLoseNothing == Spec => []TokenCovers
<1>1. StreamInv => TokenCovers
  BY Zenon DEF StreamInv
<1> QED BY <1>1, StreamHolds, PTL

\* The handlers and the token commit together, so nothing is handled twice.
THEOREM HandlesOnce == Spec => []HandledOnce
<1>1. StreamInv => HandledOnce
  BY Zenon DEF StreamInv
<1> QED BY <1>1, StreamHolds, PTL
=============================================================================
