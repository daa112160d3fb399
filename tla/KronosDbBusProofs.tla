------------------------- MODULE KronosDbBusProofs -------------------------
(***************************************************************************)
(* What a KronosDB command bus promises for any names, commands, requests, *)
(* windows and limits: its credits agree with the server's, start() means  *)
(* that every name was answered, and close() drains before it closes.      *)
(***************************************************************************)
EXTENDS KronosDbBus, FiniteSetTheorems, TLAPS

(* The shapes of the state. *)
HandlerStream ==
  [started : BOOLEAN, at : {"none", "waiting", "live", "draining"}, pending : SUBSET Name,
   credit : Int, timer : BOOLEAN, attempts : Nat, stopped : BOOLEAN]
ServerStream ==
  [open : BOOLEAN, registered : SUBSET Name, refused : SUBSET Name, credits : Nat]
Inbound == [Command -> {"new", "sent", "running", "stale", "answered", "lost"}]
Outbound == [Request -> {"new", "waiting", "late", "live", "draining", "done"}]

Typed ==
  /\ handlers \in HandlerStream
  /\ server \in ServerStream
  /\ inbound \in Inbound
  /\ names \in SUBSET Name

SentIn(f) == {c \in Command : f[c] = "sent"}

\* One incarnation h of the handler stream and the server's end s of it: every
\* name was announced on it, and the credits counted are those of s and those
\* that went into the commands on their way.  Without one nothing is on its way.
Agree(h, s, f, ns, shut) ==
  /\ h.started <=> ns # {}
  /\ h.at # "none" \/ h.timer => h.started
  /\ IsFiniteSet(SentIn(f))
  /\ h.at \in Open =>
       /\ ns \subseteq h.pending \cup s.registered \cup s.refused
       /\ h.credit = s.credits + Cardinality(SentIn(f))
       /\ h.credit <= Permits + Threshold
       /\ ~shut => h.credit > Threshold
  /\ h.at \notin Open => SentIn(f) = {} /\ ~s.open

Stream == Typed /\ Agree(handlers, server, inbound, names, ShuttingDown)

-----------------------------------------------------------------------------
(* The operations on the stream's record. *)

\* The fields of the records, once and for all.
LEMMA HandlerFields ==
  ASSUME NEW h \in HandlerStream
  PROVE  /\ h.started \in BOOLEAN /\ h.timer \in BOOLEAN /\ h.stopped \in BOOLEAN
         /\ h.at \in {"none", "waiting", "live", "draining"}
         /\ h.pending \in SUBSET Name
         /\ h.credit \in Int /\ h.attempts \in Nat
  BY DEF HandlerStream

\* ... and of the server's end.
LEMMA ServerFields ==
  ASSUME NEW s \in ServerStream
  PROVE  s.open \in BOOLEAN /\ s.registered \in SUBSET Name /\ s.refused \in SUBSET Name /\ s.credits \in Nat
  BY DEF ServerStream

\* The server counts anew, and nothing else of its end changes.
LEMMA CreditShape ==
  ASSUME NEW s \in ServerStream, NEW k \in Nat
  PROVE  /\ [s EXCEPT !.credits = k] \in ServerStream
         /\ [s EXCEPT !.credits = k].registered = s.registered /\ [s EXCEPT !.credits = k].refused = s.refused
         /\ [s EXCEPT !.credits = k].credits = k /\ [s EXCEPT !.credits = k].open = s.open
  BY DEF ServerStream

\* A stream keeps its shape when its place, its instructions and its credit are
\* replaced ...
LEMMA PlacedShape ==
  ASSUME NEW h \in HandlerStream, NEW at \in {"none", "waiting", "live", "draining"},
         NEW pending \in SUBSET Name, NEW credit \in Int
  PROVE  [h EXCEPT !.at = at, !.pending = pending, !.credit = credit] \in HandlerStream
  BY Zenon DEF HandlerStream

\* ... and so it does when the recovery's fields are.
LEMMA RecoveryShape ==
  ASSUME NEW h \in HandlerStream, NEW timer \in BOOLEAN, NEW attempts \in Nat, NEW stopped \in BOOLEAN
  PROVE  /\ [h EXCEPT !.timer = timer] \in HandlerStream
         /\ [h EXCEPT !.attempts = attempts] \in HandlerStream
         /\ [h EXCEPT !.timer = timer, !.attempts = attempts] \in HandlerStream
         /\ [h EXCEPT !.stopped = stopped, !.timer = timer] \in HandlerStream
         /\ [h EXCEPT !.started = timer] \in HandlerStream
  BY Zenon DEF HandlerStream

\* recovery.failed arms the timer, and leaves the rest of the stream alone.
LEMMA FailedFields ==
  ASSUME NEW h \in HandlerStream, NEW state
  PROVE  /\ Failed(h, state) \in HandlerStream
         /\ Failed(h, state).started = h.started /\ Failed(h, state).at = h.at
         /\ Failed(h, state).pending = h.pending /\ Failed(h, state).credit = h.credit
<1>1. h.attempts + 1 \in Nat BY HandlerFields
<1>2. [h EXCEPT !.timer = TRUE, !.attempts = h.attempts + 1] \in HandlerStream BY <1>1, RecoveryShape, Zenon
<1>3. Failed(h, state) = h \/ Failed(h, state) = [h EXCEPT !.timer = TRUE, !.attempts = h.attempts + 1]
  BY DEF Failed
<1> QED BY <1>2, <1>3, Zenon DEF HandlerStream

\* A stream that ends has no place, and is otherwise as it was.
LEMMA EndedFields ==
  ASSUME NEW h \in HandlerStream
  PROVE  /\ Ended(h) \in HandlerStream
         /\ Ended(h).started = h.started /\ Ended(h).at = "none"
<1>1. {} \in SUBSET Name /\ Undefined \in Int BY DEF Undefined
<1>2. Ended(h) \in HandlerStream BY <1>1, PlacedShape, Zenon DEF Ended
<1> QED BY <1>2 DEF Ended, HandlerStream

\* What an incarnation that ends leaves behind: no command on its way.
LEMMA AbandonedFields ==
  ASSUME NEW f \in Inbound
  PROVE  /\ Abandoned(f) \in Inbound /\ SentIn(Abandoned(f)) = {}
         /\ \A c \in Command : Abandoned(f)[c] \in {"running", "stale"} <=> f[c] \in {"running", "stale"}
  BY DEF Abandoned, Inbound, SentIn

\* No stream is a closed one.
LEMMA NoStreamFields == NoStream \in ServerStream /\ ~NoStream.open
  BY DEF NoStream, ServerStream

\* A stream that has ended agrees with a server that has none.
LEMMA EndedAgree ==
  ASSUME NEW h \in HandlerStream, h.at = "none", h.timer => h.started, NEW ns, h.started <=> ns # {},
         NEW f \in Inbound, NEW shut
  PROVE  Agree(h, NoStream, Abandoned(f), ns, shut)
<1>1. SentIn(Abandoned(f)) = {} BY AbandonedFields
<1>2. IsFiniteSet(SentIn(Abandoned(f))) BY <1>1, FS_EmptySet
<1> QED BY <1>1, <1>2, NoStreamFields DEF Agree, Open

\* A stream on a fresh socket has every name to be answered and one window of
\* credits, and so has the server.
LEMMA AnnouncedAgree ==
  ASSUME NEW h \in HandlerStream, h.started, NEW ns \in SUBSET Name, ns # {},
         NEW f \in Inbound, SentIn(f) = {}, NEW shut
  PROVE  /\ Announced(h, ns) \in HandlerStream /\ Fresh(ns) \in ServerStream
         /\ Agree(Announced(h, ns), Fresh(ns), f, ns, shut)
<1>1. Permits \in Nat /\ Threshold \in Nat /\ Threshold < Permits BY BusAssumption
<1>11. Announced(h, ns) = [h EXCEPT !.at = "live", !.pending = ns, !.credit = Permits] BY Zenon DEF Announced
<1>10. Permits \in Int BY <1>1
<1>13. [h EXCEPT !.at = "live", !.pending = ns, !.credit = Permits] \in HandlerStream BY <1>10, PlacedShape, Zenon
<1>12. Announced(h, ns) \in HandlerStream BY <1>11, <1>13, Zenon
<1>2. /\ Announced(h, ns).started /\ Announced(h, ns).at = "live"
      /\ Announced(h, ns).pending = ns /\ Announced(h, ns).credit = Permits
  BY <1>11 DEF HandlerStream
<1>3. Fresh(ns) \in ServerStream /\ Fresh(ns).credits = Permits
  BY <1>1 DEF Fresh, ServerStream
<1>4. IsFiniteSet(SentIn(f)) /\ Cardinality(SentIn(f)) = 0 BY FS_EmptySet
<1> QED BY <1>1, <1>12, <1>2, <1>3, <1>4 DEF Agree, Open

\* What is to be shown of a stream that has a socket.
LEMMA OpenAgree ==
  ASSUME NEW h, NEW s, NEW f, NEW ns, NEW shut,
         h.started, h.at \in Open, ns # {}, IsFiniteSet(SentIn(f)),
         ns \subseteq h.pending \cup s.registered \cup s.refused,
         h.credit = s.credits + Cardinality(SentIn(f)), h.credit <= Permits + Threshold,
         ~shut => h.credit > Threshold
  PROVE  Agree(h, s, f, ns, shut)
  BY Zenon DEF Agree

\* open() gives the names a stream, or one that waits for its socket.
LEMMA OpenedAgree ==
  ASSUME NEW h \in HandlerStream, NEW live \in BOOLEAN, NEW ns \in SUBSET Name, ns # {},
         NEW f \in Inbound, NEW shut
  PROVE  /\ Opened(h, live, ns) \in HandlerStream
         /\ (IF live THEN Fresh(ns) ELSE NoStream) \in ServerStream
         /\ Agree(Opened(h, live, ns), IF live THEN Fresh(ns) ELSE NoStream, Abandoned(f), ns, shut)
<1>1. Abandoned(f) \in Inbound /\ SentIn(Abandoned(f)) = {} BY AbandonedFields
<1>2. CASE live
  <2>1. [h EXCEPT !.started = TRUE] \in HandlerStream /\ [h EXCEPT !.started = TRUE].started
    BY RecoveryShape, Zenon DEF HandlerStream
  <2>2. Opened(h, live, ns) = Announced([h EXCEPT !.started = TRUE], ns) BY <1>2 DEF Opened
  <2> QED BY <1>1, <1>2, <2>1, <2>2, AnnouncedAgree, Zenon
<1>3. CASE ~live
  <2>1. /\ Opened(h, live, ns) \in HandlerStream
        /\ Opened(h, live, ns).started /\ Opened(h, live, ns).at = "waiting"
    BY <1>3, EndedFields, Zenon DEF Opened, HandlerStream
  <2>2. IsFiniteSet(SentIn(Abandoned(f))) BY <1>1, FS_EmptySet
  <2> QED BY <1>1, <1>3, <2>1, <2>2, NoStreamFields DEF Agree, Open
<1> QED BY <1>2, <1>3

-----------------------------------------------------------------------------
(* The steps. *)

\* Steps that leave the incarnation, its credits and what is on its way as they
\* are, be it that the server closes its end, the stream moves to the draining
\* socket, a timer is set or a handler ends.
LEMMA SameStream ==
  ASSUME Stream,
         handlers' \in HandlerStream, handlers'.started = handlers.started,
         handlers'.at = handlers.at \/ {handlers.at, handlers'.at} \subseteq Open,
         handlers'.pending = handlers.pending, handlers'.credit = handlers.credit,
         handlers'.timer => handlers.timer,
         server' \in ServerStream, server'.registered = server.registered,
         server'.refused = server.refused, server'.credits = server.credits, server'.open => server.open,
         inbound' \in Inbound, SentIn(inbound') = SentIn(inbound),
         names' = names, ShuttingDown => ShuttingDown'
  PROVE  Stream'
<1>1. Typed' BY DEF Stream, Typed
<1>2. Agree(handlers, server, inbound, names, ShuttingDown) BY DEF Stream
<1>3. handlers.at \in Open <=> handlers'.at \in Open BY Zenon
<1>4. Agree(handlers', server', inbound', names', ShuttingDown')
  <2>1. /\ handlers'.started <=> names' # {}
        /\ handlers'.at # "none" \/ handlers'.timer => handlers'.started
        /\ IsFiniteSet(SentIn(inbound'))
    BY <1>2, Zenon DEF Agree, Open
  <2>2. ASSUME handlers'.at \in Open
        PROVE  /\ names' \subseteq handlers'.pending \cup server'.registered \cup server'.refused
               /\ handlers'.credit = server'.credits + Cardinality(SentIn(inbound'))
               /\ handlers'.credit <= Permits + Threshold
               /\ ~ShuttingDown' => handlers'.credit > Threshold
    BY <1>2, <1>3, <2>2, Zenon DEF Agree
  <2>3. handlers'.at \notin Open => SentIn(inbound') = {} /\ ~server'.open
    BY <1>2, <1>3, Zenon DEF Agree
  <2> QED BY <2>1, <2>2, <2>3, Zenon DEF Agree
<1> QED BY <1>1, <1>4 DEF Stream

\* ... among them those that touch none of it.
LEMMA Untouched ==
  ASSUME Stream, UNCHANGED <<handlers, server, inbound, names, closing>>
  PROVE  Stream'
  BY DEF Stream, Typed, ShuttingDown

\* ... and those by which the server closes its end.
LEMMA ServerCloses ==
  ASSUME Stream, server' = [server EXCEPT !.open = FALSE], UNCHANGED <<handlers, inbound, names, closing>>
  PROVE  Stream'
<1>1. /\ server' \in ServerStream /\ server'.registered = server.registered
      /\ server'.refused = server.refused /\ server'.credits = server.credits /\ ~server'.open
  BY Zenon DEF Stream, Typed, ServerStream
<1>2. handlers' = handlers /\ handlers \in HandlerStream /\ inbound' = inbound /\ inbound \in Inbound
  BY DEF Stream, Typed
<1> QED BY <1>1, <1>2, SameStream DEF ShuttingDown

\* The stream ends at both ends.
LEMMA EndsBoth ==
  ASSUME Stream, NEW h \in HandlerStream, h.at = "none", h.started = handlers.started, h.timer => h.started,
         EndStream(h), names' = names
  PROVE  Stream'
<1>1. handlers' = h /\ server' = NoStream /\ inbound' = Abandoned(inbound) BY DEF EndStream
<1>2. inbound \in Inbound /\ names \in SUBSET Name /\ (handlers.started <=> names # {})
  BY DEF Stream, Typed, Agree
<1>3. Typed' BY <1>1, <1>2, AbandonedFields, NoStreamFields DEF Typed
<1>4. Agree(h, NoStream, Abandoned(inbound), names, ShuttingDown') BY <1>2, EndedAgree
<1> QED BY <1>1, <1>3, <1>4 DEF Stream

\* open(): a new incarnation, on the socket or waiting for one.
LEMMA OpensAnew ==
  ASSUME Stream, NEW h \in HandlerStream, NEW ns \in SUBSET Name, ns # {}, names' = ns, OpenStream(h, ns)
  PROVE  Stream'
<1> DEFINE live == "live" \in sockets
           s == IF live THEN Fresh(ns) ELSE NoStream
<1>1. handlers' = Opened(h, live, ns) /\ server' = s /\ inbound' = Abandoned(inbound) BY DEF OpenStream
<1>2. inbound \in Inbound /\ live \in BOOLEAN BY DEF Stream, Typed
<1> HIDE DEF live
<1>3. /\ Opened(h, live, ns) \in HandlerStream /\ s \in ServerStream
      /\ Agree(Opened(h, live, ns), s, Abandoned(inbound), ns, ShuttingDown')
  BY <1>2, OpenedAgree, Zenon
<1> HIDE DEF s
<1>4. Typed' BY <1>1, <1>2, <1>3, AbandonedFields DEF Typed
<1> QED BY <1>1, <1>3, <1>4 DEF Stream

\* The socket is there at last.
LEMMA StreamAttaches ==
  ASSUME Stream, HandlersAttach
  PROVE  Stream'
<1>1. /\ handlers \in HandlerStream /\ handlers.at = "waiting" /\ handlers.started
      /\ names \in SUBSET Name /\ names # {} /\ inbound \in Inbound /\ SentIn(inbound) = {}
  BY DEF Stream, Typed, Agree, HandlersAttach, Open
<1>2. /\ handlers' = Announced(handlers, names) /\ server' = Fresh(names)
      /\ inbound' = inbound /\ names' = names
  BY DEF HandlersAttach
<1>3. /\ Announced(handlers, names) \in HandlerStream /\ Fresh(names) \in ServerStream
      /\ Agree(Announced(handlers, names), Fresh(names), inbound, names, ShuttingDown')
  BY <1>1, AnnouncedAgree
<1>4. Typed' BY <1>1, <1>2, <1>3 DEF Typed
<1> QED BY <1>2, <1>3, <1>4 DEF Stream

\* The end of the stream arrives.
LEMMA StreamStreamEnds ==
  ASSUME Stream, StreamEnds
  PROVE  Stream'
<1> DEFINE h == Failed(Ended(handlers), conn.state)
<1>1. EndStream(h) /\ names' = names BY DEF StreamEnds
<1>2. handlers \in HandlerStream /\ handlers.started BY DEF Stream, Typed, Agree, StreamEnds, Open
<1>3. h \in HandlerStream /\ h.at = "none" /\ h.started = handlers.started BY <1>2, EndedFields, FailedFields, Zenon
<1> HIDE DEF h
<1> QED BY <1>1, <1>2, <1>3, EndsBoth, Zenon

\* The recovery's timer opens a stream, or finds that none is wanted any more.
LEMMA StreamRecoveryTimer ==
  ASSUME Stream, RecoveryTimer
  PROVE  Stream'
<1> DEFINE h == [handlers EXCEPT !.timer = FALSE]
<1>1. handlers \in HandlerStream /\ names \in SUBSET Name /\ inbound \in Inbound /\ server \in ServerStream
  BY DEF Stream, Typed
<1>2. names' = names /\ closing' = closing /\ handlers.timer BY DEF RecoveryTimer
<1>3. /\ h \in HandlerStream /\ h.started = handlers.started /\ h.at = handlers.at
      /\ h.pending = handlers.pending /\ h.credit = handlers.credit /\ ~h.timer
  <2>1. h \in HandlerStream BY <1>1, RecoveryShape, Zenon
  <2> QED BY <1>1, <2>1, Zenon DEF HandlerStream
<1>4. names # {} BY <1>2 DEF Stream, Agree
<1>5. CASE handlers' = h /\ UNCHANGED <<server, inbound>>
  <2> HIDE DEF h
  <2> QED BY <1>1, <1>2, <1>3, <1>5, SameStream DEF ShuttingDown
<1>6. CASE OpenStream(h, names)
  <2> HIDE DEF h
  <2> QED BY <1>1, <1>2, <1>3, <1>4, <1>6, OpensAnew
<1> QED BY <1>5, <1>6 DEF RecoveryTimer

\* subscribe: on an open stream the name is announced and the credits stay; the
\* first name opens the stream; a stream that is down will announce it later.
LEMMA StreamSubscribe ==
  ASSUME Stream, NEW n \in Name, Subscribe(n)
  PROVE  Stream'
<1>1. /\ handlers \in HandlerStream /\ names \in SUBSET Name /\ inbound \in Inbound /\ server \in ServerStream
      /\ Agree(handlers, server, inbound, names, ShuttingDown)
  BY DEF Stream, Typed
<1>2. names' = names \cup {n} /\ closing' = closing BY DEF Subscribe
<1>3. names' \in SUBSET Name /\ names' # {} BY <1>1, <1>2
<1>4. CASE handlers.at \in Open
  <2>1. handlers.started /\ handlers.credit # Undefined
    <3>1. handlers.credit = server.credits + Cardinality(SentIn(inbound)) /\ IsFiniteSet(SentIn(inbound))
      BY <1>1, <1>4 DEF Agree
    <3>2. Cardinality(SentIn(inbound)) \in Nat /\ server.credits \in Nat
      BY <1>1, <3>1, FS_CardinalityType, ServerFields
    <3> QED BY <1>1, <1>4, <3>1, <3>2 DEF Undefined, Agree, Open
  <2>2. /\ handlers' = [handlers EXCEPT !.pending = @ \cup {n}, !.credit = IF @ = Undefined THEN Permits ELSE @]
        /\ server' = [server EXCEPT !.credits = IF handlers.credit = Undefined THEN @ + Permits ELSE @]
        /\ inbound' = inbound
    BY <1>4, <2>1 DEF Subscribe
  <2>3. /\ handlers' \in HandlerStream
        /\ handlers'.at = handlers.at /\ handlers'.started = handlers.started
        /\ handlers'.pending = handlers.pending \cup {n} /\ handlers'.credit = handlers.credit
    <3>1. handlers.pending \cup {n} \in SUBSET Name /\ handlers.credit \in Int BY <1>1, HandlerFields
    <3>2. handlers' = [handlers EXCEPT !.pending = handlers.pending \cup {n}, !.credit = handlers.credit]
      BY <2>1, <2>2
    <3>3. [handlers EXCEPT !.pending = handlers.pending \cup {n}, !.credit = handlers.credit] \in HandlerStream
      BY <1>1, <3>1, Zenon DEF HandlerStream
    <3> QED BY <1>1, <3>2, <3>3 DEF HandlerStream
  <2>4. server' = server BY <1>1, <2>1, <2>2 DEF ServerStream
  <2>5. Typed' BY <1>1, <1>3, <2>2, <2>3, <2>4 DEF Typed
  <2>6. Agree(handlers', server', inbound', names', ShuttingDown')
    BY <1>1, <1>2, <1>3, <1>4, <2>1, <2>2, <2>3, <2>4 DEF Agree, ShuttingDown
  <2> QED BY <2>5, <2>6 DEF Stream
<1>5. CASE handlers.at \notin Open /\ ~handlers.started
  <2>1. OpenStream(handlers, names') BY <1>5 DEF Subscribe
  <2> QED BY <1>1, <1>3, <2>1, OpensAnew
<1>6. CASE handlers.at \notin Open /\ handlers.started
  <2>1. UNCHANGED <<handlers, server, inbound>> BY <1>6 DEF Subscribe, streamVars
  <2>2. Typed' BY <1>1, <1>3, <2>1 DEF Typed
  <2>3. Agree(handlers', server', inbound', names', ShuttingDown') BY <1>1, <1>3, <1>6, <2>1 DEF Agree
  <2> QED BY <2>2, <2>3 DEF Stream
<1> QED BY <1>4, <1>5, <1>6

\* The server's answer to a subscription.
LEMMA StreamAnswered ==
  ASSUME Stream, NEW n \in Name, Register(n) \/ Refuse(n)
  PROVE  Stream'
<1>1. /\ handlers \in HandlerStream /\ names \in SUBSET Name /\ inbound \in Inbound /\ server \in ServerStream
      /\ Agree(handlers, server, inbound, names, ShuttingDown)
  BY DEF Stream, Typed
<1>2. UNCHANGED <<handlers, inbound, names, closing>> BY DEF Register, Refuse, clientVars
<1>3. /\ server' \in ServerStream
      /\ server'.open = server.open /\ server'.credits = server.credits
      /\ server.registered \subseteq server'.registered /\ server.refused \subseteq server'.refused
  BY <1>1 DEF Register, Refuse, ServerStream
<1>4. Typed' BY <1>1, <1>2, <1>3 DEF Typed
<1>5. Agree(handlers', server', inbound', names', ShuttingDown')
  BY <1>1, <1>2, <1>3 DEF Agree, ShuttingDown
<1> QED BY <1>4, <1>5 DEF Stream

\* ... and its arrival: the name it answers is one the server knows.
LEMMA StreamAckArrives ==
  ASSUME Stream, NEW n \in Name, AckArrives(n)
  PROVE  Stream'
<1>1. /\ handlers \in HandlerStream /\ names \in SUBSET Name /\ inbound \in Inbound /\ server \in ServerStream
      /\ Agree(handlers, server, inbound, names, ShuttingDown)
  BY DEF Stream, Typed
<1>2. UNCHANGED <<server, inbound, names, closing>> /\ n \in server.registered \cup server.refused
  BY DEF AckArrives
<1>3. PICK h \in Received([handlers EXCEPT !.pending = @ \ {n}]) : handlers' = h BY DEF AckArrives
<1>4. /\ handlers' \in HandlerStream
      /\ handlers'.started = handlers.started /\ handlers'.at = handlers.at
      /\ handlers'.pending = handlers.pending \ {n} /\ handlers'.credit = handlers.credit
      /\ handlers'.timer = handlers.timer
  <2> DEFINE g == [handlers EXCEPT !.pending = @ \ {n}]
  <2>1. /\ g \in HandlerStream /\ g.started = handlers.started /\ g.at = handlers.at
        /\ g.pending = handlers.pending \ {n} /\ g.credit = handlers.credit /\ g.timer = handlers.timer
    BY <1>1 DEF HandlerStream
  <2> HIDE DEF g
  <2>2. [g EXCEPT !.attempts = 0] \in HandlerStream BY <2>1, RecoveryShape, Zenon
  <2>3. handlers' = g \/ handlers' = [g EXCEPT !.attempts = 0] BY <1>3 DEF Received, g
  <2> QED BY <2>1, <2>2, <2>3 DEF HandlerStream
<1>5. Typed' BY <1>1, <1>2, <1>4 DEF Typed
<1>6. Agree(handlers', server', inbound', names', ShuttingDown')
  BY <1>1, <1>2, <1>4 DEF Agree, ShuttingDown
<1> QED BY <1>5, <1>6 DEF Stream

\* A command is sent: one credit less with the server, one more on its way.
LEMMA StreamRoute ==
  ASSUME Stream, NEW c \in Command, Route(c)
  PROVE  Stream'
<1>1. /\ handlers \in HandlerStream /\ names \in SUBSET Name /\ inbound \in Inbound /\ server \in ServerStream
      /\ Agree(handlers, server, inbound, names, ShuttingDown)
  BY DEF Stream, Typed
<1>2. UNCHANGED <<handlers, names, closing>> BY DEF Route, clientVars
<1>3. /\ server' \in ServerStream
      /\ server'.registered = server.registered /\ server'.refused = server.refused
      /\ server'.credits = server.credits - 1 /\ server'.open = server.open
  <2>1. server.credits - 1 \in Nat BY <1>1, ServerFields DEF Route
  <2>2. server' = [server EXCEPT !.credits = server.credits - 1] BY DEF Route
  <2> QED BY <1>1, <2>1, <2>2, CreditShape
<1>4. inbound' \in Inbound /\ SentIn(inbound') = SentIn(inbound) \cup {c} /\ c \notin SentIn(inbound)
  BY <1>1 DEF Route, SentIn, Inbound
<1>5. IsFiniteSet(SentIn(inbound)) /\ Cardinality(SentIn(inbound)) \in Nat BY <1>1, FS_CardinalityType DEF Agree
<1>6. IsFiniteSet(SentIn(inbound')) /\ Cardinality(SentIn(inbound')) = Cardinality(SentIn(inbound)) + 1
  BY <1>4, <1>5, FS_AddElement
<1>7. handlers.at \in Open BY <1>1 DEF Route, Agree
<1>8. server.credits \in Nat BY <1>1, ServerFields
<1>9. Typed' BY <1>1, <1>2, <1>3, <1>4 DEF Typed
<1>10. server'.credits + Cardinality(SentIn(inbound')) = server.credits + Cardinality(SentIn(inbound))
  BY <1>3, <1>5, <1>6, <1>8
<1>11. Agree(handlers', server', inbound', names', ShuttingDown')
  BY <1>1, <1>2, <1>3, <1>6, <1>7, <1>10 DEF Agree, ShuttingDown
<1> QED BY <1>9, <1>11 DEF Stream

\* A command arrives: its credit is spent, and replaced by a window of credits
\* when the threshold is reached, for the client and for the server.
LEMMA StreamCommandArrives ==
  ASSUME Stream, NEW c \in Command, CommandArrives(c)
  PROVE  Stream'
<1> DEFINE left == handlers.credit - 1
           credit == IF Refills(left) THEN left + Permits ELSE left
           sent == Cardinality(SentIn(inbound))
<1>1. /\ handlers \in HandlerStream /\ names \in SUBSET Name /\ inbound \in Inbound /\ server \in ServerStream
      /\ Agree(handlers, server, inbound, names, ShuttingDown) /\ handlers.at \in Open
  BY DEF Stream, Typed, CommandArrives
<1>2. names' = names /\ closing' = closing BY DEF CommandArrives
<1>3. Permits \in Nat /\ Threshold \in Nat /\ Threshold < Permits BY BusAssumption
<1>4. inbound' \in Inbound /\ SentIn(inbound') = SentIn(inbound) \ {c} /\ c \in SentIn(inbound)
  BY <1>1 DEF CommandArrives, SentIn, Inbound
<1>5. IsFiniteSet(SentIn(inbound)) /\ sent \in Nat BY <1>1, FS_CardinalityType DEF Agree
<1>6. IsFiniteSet(SentIn(inbound')) /\ Cardinality(SentIn(inbound')) = sent - 1
  BY <1>4, <1>5, FS_RemoveElement
<1>7. /\ handlers.credit \in Int /\ server.credits \in Nat /\ handlers.credit = server.credits + sent
      /\ handlers.credit <= Permits + Threshold
      /\ ~ShuttingDown => handlers.credit > Threshold
      /\ names \subseteq handlers.pending \cup server.registered \cup server.refused
      /\ handlers.started
  BY <1>1, HandlerFields, ServerFields DEF Agree, Open
<1>8. PICK h \in Received([handlers EXCEPT !.credit = credit]) : handlers' = h BY DEF CommandArrives
<1>9. server' = IF Refills(left) THEN [server EXCEPT !.credits = server.credits + Permits] ELSE server
  BY DEF CommandArrives
<1>10. credit \in Int BY <1>3, <1>7
<1>11. /\ credit <= Permits + Threshold
       /\ ~ShuttingDown => credit > Threshold
  BY <1>3, <1>7 DEF Refills
<1>12. /\ server' \in ServerStream
       /\ server'.registered = server.registered /\ server'.refused = server.refused
       /\ server'.credits = IF Refills(left) THEN server.credits + Permits ELSE server.credits
  <2>1. server.credits + Permits \in Nat BY <1>3, <1>7
  <2> QED BY <1>1, <1>9, <2>1, CreditShape
<1>13. credit = server'.credits + Cardinality(SentIn(inbound'))
  BY <1>3, <1>5, <1>6, <1>7, <1>12
<1> HIDE DEF credit
<1>14. /\ handlers' \in HandlerStream
       /\ handlers'.started = handlers.started /\ handlers'.at = handlers.at
       /\ handlers'.pending = handlers.pending /\ handlers'.credit = credit
  <2> DEFINE g == [handlers EXCEPT !.credit = credit]
  <2>1. /\ g \in HandlerStream /\ g.started = handlers.started /\ g.at = handlers.at
        /\ g.pending = handlers.pending /\ g.credit = credit
    BY <1>1, <1>10 DEF HandlerStream
  <2> HIDE DEF g
  <2>2. [g EXCEPT !.attempts = 0] \in HandlerStream BY <2>1, RecoveryShape, Zenon
  <2>3. handlers' = g \/ handlers' = [g EXCEPT !.attempts = 0] BY <1>8 DEF Received, g
  <2> QED BY <2>1, <2>2, <2>3 DEF HandlerStream
<1>15. Typed' BY <1>1, <1>2, <1>4, <1>12, <1>14 DEF Typed
<1>16. handlers'.started <=> names' # {} BY <1>1, <1>2, <1>14 DEF Agree
<1>17. Agree(handlers', server', inbound', names', ShuttingDown')
  <2>1. handlers'.started /\ handlers'.at \in Open BY <1>1, <1>7, <1>14
  <2>2. names' \subseteq handlers'.pending \cup server'.registered \cup server'.refused
    BY <1>2, <1>7, <1>12, <1>14
  <2>3. /\ handlers'.credit = server'.credits + Cardinality(SentIn(inbound'))
        /\ handlers'.credit <= Permits + Threshold
        /\ ~ShuttingDown' => handlers'.credit > Threshold
    BY <1>2, <1>11, <1>13, <1>14 DEF ShuttingDown
  <2>4. IsFiniteSet(SentIn(inbound')) BY <1>6
  <2> HIDE DEF left, sent
  <2> QED BY <1>16, <2>1, <2>2, <2>3, <2>4, OpenAgree, Zenon
<1> QED BY <1>15, <1>17 DEF Stream

\* A handler ends.
LEMMA StreamHandlerEnds ==
  ASSUME Stream, NEW c \in Command, HandlerEnds(c)
  PROVE  Stream'
<1>1. handlers \in HandlerStream /\ server \in ServerStream /\ inbound \in Inbound BY DEF Stream, Typed
<1>2. UNCHANGED <<handlers, server, names, closing>> BY DEF HandlerEnds, clientVars
<1>3. inbound' \in Inbound /\ SentIn(inbound') = SentIn(inbound)
  BY <1>1 DEF HandlerEnds, SentIn, Inbound
<1> QED BY <1>1, <1>2, <1>3, SameStream DEF ShuttingDown

\* No socket is to be had: a stream that waited for it has failed.
LEMMA StreamConnectFails ==
  ASSUME Stream, ConnectFails
  PROVE  Stream'
<1> DEFINE h == Failed(Ended(handlers), conn.state)
<1>1. handlers \in HandlerStream /\ server \in ServerStream /\ inbound \in Inbound /\ names \in SUBSET Name
  BY DEF Stream, Typed
<1>2. UNCHANGED <<server, inbound, names, closing>> BY DEF ConnectFails
<1>3. CASE handlers.at = "waiting"
  <2>1. h \in HandlerStream /\ h.at = "none" /\ h.started = handlers.started BY <1>1, EndedFields, FailedFields
  <2>2. handlers' = h BY <1>3 DEF ConnectFails
  <2> HIDE DEF h
  <2>3. Typed' BY <1>1, <1>2, <2>1, <2>2 DEF Typed
  <2>4. Agree(handlers', server', inbound', names', ShuttingDown')
    BY <1>2, <1>3, <2>1, <2>2 DEF Stream, Agree, Open
  <2> QED BY <2>3, <2>4 DEF Stream
<1>4. CASE handlers.at # "waiting"
  <2>1. handlers' = handlers BY <1>4 DEF ConnectFails
  <2> QED BY <1>2, <2>1, Untouched
<1> QED BY <1>3, <1>4

\* The stream moves to the draining socket with the rest.
LEMMA StreamGoAway ==
  ASSUME Stream, GoAway
  PROVE  Stream'
<1> DEFINE at == IF handlers.at = "live" THEN "draining" ELSE handlers.at
<1>1. handlers \in HandlerStream /\ server \in ServerStream /\ inbound \in Inbound BY DEF Stream, Typed
<1>2. UNCHANGED <<server, inbound, names, closing>> /\ handlers' = [handlers EXCEPT !.at = at] BY DEF GoAway
<1>3. at \in {"none", "waiting", "live", "draining"} /\ (at = handlers.at \/ {handlers.at, at} \subseteq Open)
  BY <1>1, HandlerFields DEF Open
<1> HIDE DEF at
<1>4. /\ handlers' \in HandlerStream /\ handlers'.started = handlers.started /\ handlers'.at = at
      /\ handlers'.pending = handlers.pending /\ handlers'.credit = handlers.credit
      /\ handlers'.timer = handlers.timer
  BY <1>1, <1>2, <1>3 DEF HandlerStream
<1> QED BY <1>1, <1>2, <1>3, <1>4, SameStream DEF ShuttingDown

\* close() stops the recovery and leaves the stream.
LEMMA StreamClose ==
  ASSUME Stream, Close
  PROVE  Stream'
<1>1. handlers \in HandlerStream /\ server \in ServerStream /\ inbound \in Inbound BY DEF Stream, Typed
<1>2. UNCHANGED <<server, inbound, names>> /\ ShuttingDown' /\ handlers' = [handlers EXCEPT !.stopped = TRUE, !.timer = FALSE]
  BY DEF Close, ShuttingDown
<1>3. [handlers EXCEPT !.stopped = TRUE, !.timer = FALSE] \in HandlerStream BY <1>1, RecoveryShape, Zenon
<1>4. /\ handlers' \in HandlerStream /\ handlers'.started = handlers.started /\ handlers'.at = handlers.at
      /\ handlers'.pending = handlers.pending /\ handlers'.credit = handlers.credit /\ ~handlers'.timer
  BY <1>1, <1>2, <1>3 DEF HandlerStream
<1> QED BY <1>1, <1>2, <1>4, SameStream

\* The connection is reset, and the streams with it.
LEMMA StreamPlatformTimer ==
  ASSUME Stream, PlatformTimer
  PROVE  Stream'
<1>1. handlers \in HandlerStream /\ names' = names /\ closing' = closing BY DEF Stream, Typed, PlatformTimer
<1>2. CASE EndStream(Ended(handlers))
  <2>1. /\ Ended(handlers) \in HandlerStream /\ Ended(handlers).at = "none"
        /\ Ended(handlers).started = handlers.started /\ Ended(handlers).timer = handlers.timer
    BY <1>1, EndedFields, Zenon DEF Ended, HandlerStream
  <2>2. handlers.timer => handlers.started BY DEF Stream, Agree
  <2> QED BY <1>1, <1>2, <2>1, <2>2, EndsBoth
<1>3. CASE UNCHANGED <<handlers, server, inbound>> BY <1>1, <1>3, Untouched
<1> QED BY <1>2, <1>3 DEF PlatformTimer, Reconnecting, streamVars

\* ... also when the heartbeat stays away.
LEMMA StreamHeartbeatTimeout ==
  ASSUME Stream, HeartbeatTimeout
  PROVE  Stream'
<1> DEFINE g == IF handlers.at = "live" THEN Failed(handlers, conn.state) ELSE handlers
<1>1. handlers \in HandlerStream /\ names' = names BY DEF Stream, Typed, HeartbeatTimeout
<1>2. EndStream(Ended(g)) BY DEF HeartbeatTimeout, Reconnecting
<1>3. g \in HandlerStream /\ g.started = handlers.started BY <1>1, FailedFields
<1>4. g.timer => g.started BY <1>3 DEF Stream, Agree
<1> HIDE DEF g
<1>5. /\ Ended(g) \in HandlerStream /\ Ended(g).at = "none"
      /\ Ended(g).started = g.started /\ Ended(g).timer = g.timer
  BY <1>3, EndedFields, Zenon DEF Ended, HandlerStream
<1> QED BY <1>1, <1>2, <1>3, <1>4, <1>5, EndsBoth

\* The connection is back, and the streams open on it.
LEMMA StreamReconnected ==
  ASSUME Stream, Reconnected
  PROVE  Stream'
<1> DEFINE h == [handlers EXCEPT !.timer = FALSE, !.attempts = 0]
<1>1. handlers \in HandlerStream /\ names \in SUBSET Name /\ names' = names /\ closing' = closing
  BY DEF Stream, Typed, Reconnected
<1>2. CASE ShuttingDown \/ ~handlers.started \/ handlers.stopped
  <2>1. UNCHANGED <<handlers, server, inbound>> BY <1>2 DEF Reconnected, streamVars
  <2> QED BY <1>1, <2>1, Untouched
<1>3. CASE ~(ShuttingDown \/ ~handlers.started \/ handlers.stopped)
  <2>1. OpenStream(h, names) BY <1>3 DEF Reconnected
  <2>2. h \in HandlerStream BY <1>1, RecoveryShape, Zenon
  <2>3. names # {} BY <1>3 DEF Stream, Agree
  <2> HIDE DEF h
  <2> QED BY <1>1, <2>1, <2>2, <2>3, OpensAnew
<1> QED BY <1>2, <1>3

\* A socket dies, with the stream on it, or with the platform stream.
LEMMA StreamSocketDies ==
  ASSUME Stream, NEW k \in Open, SocketDies(k)
  PROVE  Stream'
<1> DEFINE h == Failed(Ended(handlers), conn.state)
<1>1. handlers \in HandlerStream /\ names' = names /\ closing' = closing BY DEF Stream, Typed, SocketDies
<1>2. CASE handlers.at = k
  <2>1. EndStream(h) BY <1>2 DEF SocketDies
  <2>2. h \in HandlerStream /\ h.at = "none" /\ h.started = handlers.started BY <1>1, EndedFields, FailedFields
  <2>3. handlers.started BY <1>2 DEF Stream, Agree, Open
  <2> HIDE DEF h
  <2> QED BY <1>1, <2>1, <2>2, <2>3, EndsBoth, Zenon
<1>3. CASE handlers.at # k
  <2>1. /\ UNCHANGED <<handlers, inbound>>
        /\ server' = [server EXCEPT !.open = FALSE] \/ server' = server
    BY <1>3 DEF SocketDies
  <2> QED BY <1>1, <2>1, ServerCloses, Untouched
<1> QED BY <1>2, <1>3

\* The connection is closed for good.
LEMMA StreamClosed ==
  ASSUME Stream, Drained \/ DrainTimesOut
  PROVE  Stream'
<1>1. EndStream(Ended(handlers)) /\ names' = names BY Zenon DEF Drained, DrainTimesOut, CloseConnection
<1>2. handlers \in HandlerStream /\ (handlers.timer => handlers.started) BY DEF Stream, Typed, Agree
<1>3. /\ Ended(handlers) \in HandlerStream /\ Ended(handlers).at = "none"
      /\ Ended(handlers).started = handlers.started /\ Ended(handlers).timer = handlers.timer
  BY <1>2, EndedFields, Zenon DEF Ended, HandlerStream
<1> QED BY <1>1, <1>2, <1>3, EndsBoth

\* Every step keeps it.
LEMMA StreamNext ==
  ASSUME Stream, [Next]_vars
  PROVE  Stream'
<1>1. CASE ClientStep
  <2>1. CASE HandlersAttach BY <2>1, StreamAttaches
  <2>2. CASE OrphanOpens BY <2>2, ServerCloses DEF OrphanOpens
  <2>3. CASE StreamEnds BY <2>3, StreamStreamEnds
  <2>4. CASE RecoveryTimer BY <2>4, StreamRecoveryTimer
  <2>5. CASE PlatformAttaches BY <2>5, Untouched DEF PlatformAttaches, streamVars
  <2>6. CASE PlatformTimer BY <2>6, StreamPlatformTimer
  <2>7. CASE Reconnected BY <2>7, StreamReconnected
  <2>8. CASE BackoffEnds BY <2>8, Untouched DEF BackoffEnds, streamVars
  <2>9. CASE Connect BY <2>9, Untouched DEF Connect, streamVars
  <2>10. CASE PlatformAcked BY <2>10, Untouched DEF PlatformAcked, streamVars
  <2>11. CASE Drained BY <2>11, StreamClosed
  <2> QED BY <1>1, <2>1, <2>2, <2>3, <2>4, <2>5, <2>6, <2>7, <2>8, <2>9, <2>10, <2>11 DEF ClientStep
<1>2. CASE ServerStep
  <2>1. CASE NodeInfo BY <2>1, Untouched DEF NodeInfo, streamVars
  <2>2. CASE \E n \in Name : Register(n) BY <2>2, StreamAnswered
  <2>3. CASE \E n \in Name : AckArrives(n) BY <2>3, StreamAckArrives
  <2>4. CASE \E c \in Command : Route(c) BY <2>4, StreamRoute
  <2>5. CASE \E c \in Command : CommandArrives(c) BY <2>5, StreamCommandArrives
  <2>6. CASE \E r \in Request : Response(r) BY <2>6, Untouched DEF Response, clientVars
  <2> QED BY <1>2, <2>1, <2>2, <2>3, <2>4, <2>5, <2>6 DEF ServerStep
<1>3. CASE ApplicationStep
  <2>1. CASE \E n \in Name : Subscribe(n) BY <2>1, StreamSubscribe
  <2>2. CASE \E c \in Command : HandlerEnds(c) BY <2>2, StreamHandlerEnds
  <2>3. CASE \E r \in Request : Dispatch(r) \/ RequestOpens(r) \/ Deadline(r)
    BY <2>3, Untouched DEF Dispatch, RequestOpens, Deadline, clientVars
  <2>4. CASE Start BY <2>4, Untouched DEF Start, streamVars
  <2>5. CASE StartTimesOut BY <2>5, Untouched DEF StartTimesOut, streamVars
  <2>6. CASE Close BY <2>6, StreamClose
  <2>7. CASE DrainTimesOut BY <2>7, StreamClosed
  <2> QED BY <1>3, <2>1, <2>2, <2>3, <2>4, <2>5, <2>6, <2>7 DEF ApplicationStep
<1>4. CASE FaultStep
  <2>1. CASE ConnectFails BY <2>1, StreamConnectFails
  <2>2. CASE GoAway BY <2>2, StreamGoAway
  <2>3. CASE HeartbeatTimeout BY <2>3, StreamHeartbeatTimeout
  <2>4. CASE PlatformEnds BY <2>4, ServerCloses DEF PlatformEnds
  <2>5. CASE RequestReconnect BY <2>5, Untouched DEF RequestReconnect, streamVars
  <2>6. CASE \E k \in Open : SocketDies(k) BY <2>6, StreamSocketDies
  <2>7. CASE \E n \in Name : Refuse(n) BY <2>7, StreamAnswered
  <2> QED BY <1>4, <2>1, <2>2, <2>3, <2>4, <2>5, <2>6, <2>7 DEF FaultStep
<1>5. CASE UNCHANGED vars BY <1>5, Untouched DEF vars, clientVars
<1> QED BY <1>1, <1>2, <1>3, <1>4, <1>5 DEF Next

\* At first there is no stream and no name.
LEMMA StreamAtFirst == Init => Stream
<1> SUFFICES ASSUME Init PROVE Stream OBVIOUS
<1>1. handlers \in HandlerStream /\ handlers.at = "none" /\ ~handlers.started /\ ~handlers.timer
  BY DEF Init, HandlerStream, Undefined
<1>2. server = NoStream /\ names = {} /\ inbound \in Inbound /\ SentIn(inbound) = {}
  BY DEF Init, Inbound, SentIn
<1>3. Typed BY <1>1, <1>2, NoStreamFields DEF Typed
<1>4. IsFiniteSet(SentIn(inbound)) BY <1>2, FS_EmptySet
<1> QED BY <1>1, <1>2, <1>3, <1>4, NoStreamFields DEF Stream, Agree, Open

\* Each incarnation of the handler stream agrees with the server's end of it.
THEOREM StreamsAgree == Spec => []Stream
  BY StreamAtFirst, StreamNext, PTL DEF Spec

\* Client and server agree on the stream's credits, for every window and
\* threshold and however many commands are in flight.
THEOREM CreditsHold == Spec => []CreditsAgree
<1>1. Stream => CreditsAgree
  <2> SUFFICES ASSUME Stream, handlers.at \in Open PROVE
        /\ names # {} /\ handlers.credit = server.credits + Cardinality(SentIn(inbound))
        /\ handlers.credit <= Permits + Threshold
        /\ ~ShuttingDown => handlers.credit > Threshold
    BY DEF CreditsAgree, SentIn
  <2> QED BY DEF Stream, Agree, Open
<1> QED BY <1>1, StreamsAgree, PTL
-----------------------------------------------------------------------------
(* The start barrier. *)

\* The barrier is lifted by settle() and by the platform's acknowledgement only:
\* with a stream that is open and has no name unanswered.
LEMMA ReadyMeansAcknowledged ==
  ASSUME Stream, [Next]_vars, barrier # "ready", barrier' = "ready", names' # {}
  PROVE  handlers'.at \in Open /\ handlers'.pending = {}
<1>1. CASE \E h : handlers' = h /\ Settle(h) BY <1>1 DEF Settle, Acknowledged
<1>2. CASE barrier' = barrier BY <1>2
<1>3. CASE ClientStep
  <2>1. CASE HandlersAttach BY <1>1, <2>1 DEF HandlersAttach
  <2>2. CASE RecoveryTimer BY <1>1, <1>2, <2>2 DEF RecoveryTimer, OpenStream
  <2>3. CASE Reconnected BY <1>1, <1>2, <2>3 DEF Reconnected, OpenStream
  <2>4. CASE PlatformAcked
    <3>1. UNCHANGED <<handlers, names>> /\ (~handlers.started \/ Acknowledged(handlers))
      BY <2>4 DEF PlatformAcked, streamVars
    <3>2. handlers.started BY <3>1 DEF Stream, Agree
    <3> QED BY <3>1, <3>2 DEF Acknowledged
  <2>5. CASE OrphanOpens \/ StreamEnds \/ PlatformAttaches \/ PlatformTimer \/ BackoffEnds \/ Connect \/ Drained
    BY <1>2, <2>5 DEF OrphanOpens, StreamEnds, PlatformAttaches, PlatformTimer, BackoffEnds, Connect, Drained,
                      CloseConnection
  <2> QED BY <1>3, <2>1, <2>2, <2>3, <2>4, <2>5 DEF ClientStep
<1>4. CASE ServerStep
  <2>1. CASE \E n \in Name : AckArrives(n) BY <1>1, <1>2, <2>1 DEF AckArrives
  <2>2. CASE \/ NodeInfo
             \/ \E n \in Name : Register(n)
             \/ \E c \in Command : Route(c) \/ CommandArrives(c)
             \/ \E r \in Request : Response(r)
    BY <1>2, <2>2 DEF NodeInfo, Register, Route, CommandArrives, Response, clientVars
  <2> QED BY <1>4, <2>1, <2>2 DEF ServerStep
<1>5. CASE ApplicationStep
  <2>1. CASE \E n \in Name : Subscribe(n)
    <3>1. PICK n \in Name : Subscribe(n) BY <2>1
    <3>2. CASE handlers.at \in Open BY <1>2, <3>1, <3>2 DEF Subscribe, Stream, Agree, Open
    <3>3. CASE handlers.at \notin Open /\ ~handlers.started BY <1>1, <3>1, <3>3 DEF Subscribe, OpenStream
    <3>4. CASE handlers.at \notin Open /\ handlers.started BY <1>2, <3>1, <3>4 DEF Subscribe
    <3> QED BY <3>2, <3>3, <3>4
  <2>2. CASE \/ \E c \in Command : HandlerEnds(c)
             \/ \E r \in Request : Dispatch(r) \/ RequestOpens(r) \/ Deadline(r)
             \/ Start \/ StartTimesOut \/ Close \/ DrainTimesOut
    BY <1>2, <2>2, Zenon DEF HandlerEnds, Dispatch, RequestOpens, Deadline, Start, StartTimesOut, Close, DrainTimesOut,
                      CloseConnection, clientVars
  <2> QED BY <1>5, <2>1, <2>2 DEF ApplicationStep
<1>6. CASE FaultStep
  BY <1>2, <1>6, Zenon DEF FaultStep, ConnectFails, GoAway, HeartbeatTimeout, PlatformEnds, RequestReconnect, SocketDies,
                    Refuse
<1>7. CASE UNCHANGED vars BY <1>2, <1>7 DEF vars, clientVars
<1> QED BY <1>3, <1>4, <1>5, <1>6, <1>7 DEF Next

\* start() resolves when the server has answered every name announced, on the
\* stream that is open then: no name can have slipped out of the instructions
\* without the server's answer, for every incarnation announces them all.
THEOREM StartAnswered == Spec => StartMeansAnswered
<1>1. ASSUME Stream, Stream', [Next]_vars, barrier # "ready", barrier' = "ready", names' # {}
      PROVE  handlers'.at \in Open /\ names' \subseteq server'.registered \cup server'.refused
  <2>1. handlers'.at \in Open /\ handlers'.pending = {} BY <1>1, ReadyMeansAcknowledged
  <2> QED BY <1>1, <2>1 DEF Stream, Agree
<1>2. Stream /\ Stream' /\ [Next]_vars =>
        [barrier # "ready" /\ barrier' = "ready" /\ names' # {} =>
           /\ handlers'.at \in Open
           /\ names' \subseteq server'.registered \cup server'.refused]_vars
  BY <1>1
<1> QED BY <1>2, StreamsAgree, PTL DEF Spec, StartMeansAnswered
-----------------------------------------------------------------------------
(* The latch of the drain. *)

\* The latch counts the commands in a handler and the requests in flight.
Busy ==
  /\ outbound \in Outbound
  /\ IsFiniteSet(Handling) /\ IsFiniteSet(Pending)
  /\ active = Cardinality(Handling) + Cardinality(Pending)

\* A step that neither admits nor ends anything.
LEMMA BusyKept ==
  ASSUME Busy, outbound' \in Outbound, Handling' = Handling, Pending' = Pending, active' = active
  PROVE  Busy'
  BY DEF Busy

\* ... among them those that at most abandon the handler stream's incarnation.
LEMMA BusyStream ==
  ASSUME Stream, Busy, UNCHANGED requestVars, inbound' \in {inbound, Abandoned(inbound)}
  PROVE  Busy'
<1>1. Handling' = Handling
  <2>1. CASE inbound' = inbound BY <2>1 DEF Handling
  <2>2. CASE inbound' = Abandoned(inbound)
    <3>1. \A c \in Command : inbound'[c] \in {"running", "stale"} <=> inbound[c] \in {"running", "stale"}
      BY <2>2, AbandonedFields DEF Stream, Typed
    <3> QED BY <3>1 DEF Handling
  <2> QED BY <2>1, <2>2
<1> QED BY <1>1, BusyKept DEF Busy, Pending, requestVars

\* What was sent on a socket fails with it, and each activity ends once.
LEMMA BusyFails ==
  ASSUME Stream, Busy, NEW places, FailRequests(places), inbound' \in {inbound, Abandoned(inbound)}
  PROVE  Busy'
<1>1. Handling' = Handling
  <2>1. CASE inbound' = inbound BY <2>1 DEF Handling
  <2>2. CASE inbound' = Abandoned(inbound)
    <3>1. \A c \in Command : inbound'[c] \in {"running", "stale"} <=> inbound[c] \in {"running", "stale"}
      BY <2>2, AbandonedFields DEF Stream, Typed
    <3> QED BY <3>1 DEF Handling
  <2> QED BY <2>1, <2>2
<1>2. outbound' \in Outbound /\ Pending' = Pending \ Ending(places) /\ Pending \cap Ending(places) = Ending(places)
  BY DEF Busy, FailRequests, Outbound, Pending, Ending
<1>3. IsFiniteSet(Pending) /\ IsFiniteSet(Handling) BY DEF Busy
<1>4. IsFiniteSet(Ending(places)) BY <1>3, FS_Subset DEF Ending
<1>5. IsFiniteSet(Pending') /\ Cardinality(Pending') = Cardinality(Pending) - Cardinality(Ending(places))
  BY <1>2, <1>3, FS_Difference, Zenon
<1>6. Cardinality(Pending) \in Nat /\ Cardinality(Ending(places)) \in Nat /\ Cardinality(Handling) \in Nat
  BY <1>3, <1>4, FS_CardinalityType
<1>7. active' = active - Cardinality(Ending(places)) BY DEF FailRequests
<1> QED BY <1>1, <1>2, <1>3, <1>5, <1>6, <1>7 DEF Busy

\* A finite set grows by one element.
LEMMA Grown ==
  ASSUME NEW S, IsFiniteSet(S), NEW x, x \notin S
  PROVE  IsFiniteSet(S \cup {x}) /\ Cardinality(S \cup {x}) = Cardinality(S) + 1
  BY FS_AddElement

\* ... or shrinks by one.
LEMMA Shrunk ==
  ASSUME NEW S, IsFiniteSet(S), NEW x, x \in S
  PROVE  IsFiniteSet(S \ {x}) /\ Cardinality(S \ {x}) = Cardinality(S) - 1
  BY FS_RemoveElement

\* One command more or less in a handler.
LEMMA BusyHandling ==
  ASSUME Busy, outbound' = outbound, NEW c \in Command,
         \/ c \notin Handling /\ Handling' = Handling \cup {c} /\ active' = active + 1
         \/ c \in Handling /\ Handling' = Handling \ {c} /\ active' = active - 1
  PROVE  Busy'
<1>1. Pending' = Pending BY DEF Pending
<1>2. IsFiniteSet(Pending) /\ IsFiniteSet(Handling) /\ active = Cardinality(Handling) + Cardinality(Pending) BY DEF Busy
<1>3. Cardinality(Pending) \in Nat /\ Cardinality(Handling) \in Nat BY <1>2, FS_CardinalityType
<1>4. IsFiniteSet(Handling') /\ active' = Cardinality(Handling') + Cardinality(Pending)
  <2>1. CASE c \notin Handling /\ Handling' = Handling \cup {c} /\ active' = active + 1
    <3>1. IsFiniteSet(Handling') /\ Cardinality(Handling') = Cardinality(Handling) + 1 BY <1>2, <2>1, Grown
    <3> QED BY <1>2, <1>3, <2>1, <3>1
  <2>2. CASE c \in Handling /\ Handling' = Handling \ {c} /\ active' = active - 1
    <3>1. IsFiniteSet(Handling') /\ Cardinality(Handling') = Cardinality(Handling) - 1 BY <1>2, <2>2, Shrunk
    <3> QED BY <1>2, <1>3, <2>2, <3>1
  <2> QED BY <2>1, <2>2
<1> QED BY <1>1, <1>2, <1>4 DEF Busy

\* One request more or less in flight.
LEMMA BusyPending ==
  ASSUME Busy, inbound' = inbound, outbound' \in Outbound, NEW r \in Request,
         \/ r \notin Pending /\ Pending' = Pending \cup {r} /\ active' = active + 1
         \/ r \in Pending /\ Pending' = Pending \ {r} /\ active' = active - 1
  PROVE  Busy'
<1>1. Handling' = Handling BY DEF Handling
<1>2. IsFiniteSet(Pending) /\ IsFiniteSet(Handling) /\ active = Cardinality(Handling) + Cardinality(Pending) BY DEF Busy
<1>3. Cardinality(Pending) \in Nat /\ Cardinality(Handling) \in Nat BY <1>2, FS_CardinalityType
<1>4. IsFiniteSet(Pending') /\ active' = Cardinality(Handling) + Cardinality(Pending')
  <2>1. CASE r \notin Pending /\ Pending' = Pending \cup {r} /\ active' = active + 1
    <3>1. IsFiniteSet(Pending') /\ Cardinality(Pending') = Cardinality(Pending) + 1 BY <1>2, <2>1, Grown
    <3> QED BY <1>2, <1>3, <2>1, <3>1
  <2>2. CASE r \in Pending /\ Pending' = Pending \ {r} /\ active' = active - 1
    <3>1. IsFiniteSet(Pending') /\ Cardinality(Pending') = Cardinality(Pending) - 1 BY <1>2, <2>2, Shrunk
    <3> QED BY <1>2, <1>3, <2>2, <3>1
  <2> QED BY <2>1, <2>2
<1> QED BY <1>1, <1>2, <1>4 DEF Busy
\* A command is admitted, or answered at once.
LEMMA BusyCommandArrives ==
  ASSUME Stream, Busy, NEW c \in Command, CommandArrives(c)
  PROVE  Busy'
<1>1. inbound \in Inbound /\ outbound' = outbound /\ inbound[c] = "sent" BY DEF Stream, Typed, CommandArrives
<1>2. c \notin Handling BY <1>1 DEF Handling
<1>3. CASE inbound' = [inbound EXCEPT ![c] = "answered"] /\ UNCHANGED active
  <2>1. Handling' = Handling BY <1>1, <1>3 DEF Handling, Inbound
  <2> QED BY <1>1, <1>3, <2>1, BusyKept DEF Busy, Pending
<1>4. CASE inbound' = [inbound EXCEPT ![c] = "running"] /\ active' = active + 1
  <2>1. Handling' = Handling \cup {c} BY <1>1, <1>4 DEF Handling, Inbound
  <2> QED BY <1>1, <1>2, <1>4, <2>1, BusyHandling
<1> QED BY <1>3, <1>4 DEF CommandArrives

\* A handler ends, whether its stream is still there or not.
LEMMA BusyHandlerEnds ==
  ASSUME Stream, Busy, NEW c \in Command, HandlerEnds(c)
  PROVE  Busy'
<1>1. inbound \in Inbound /\ outbound' = outbound /\ active' = active - 1 BY DEF Stream, Typed, HandlerEnds
<1>2. c \in Handling /\ Handling' = Handling \ {c} BY <1>1 DEF HandlerEnds, Handling, Inbound
<1> QED BY <1>1, <1>2, BusyHandling

\* A command is sent: it is in no handler yet.
LEMMA BusyRoute ==
  ASSUME Stream, Busy, NEW c \in Command, Route(c)
  PROVE  Busy'
<1>1. inbound \in Inbound /\ outbound' = outbound /\ active' = active BY DEF Stream, Typed, Route
<1>2. Handling' = Handling BY <1>1 DEF Route, Handling, Inbound
<1> QED BY <1>1, <1>2, BusyKept DEF Busy, Pending

\* A request is admitted or refused.
LEMMA BusyDispatch ==
  ASSUME Busy, NEW r \in Request, Dispatch(r)
  PROVE  Busy'
<1>1. outbound \in Outbound /\ inbound' = inbound /\ outbound[r] = "new" BY DEF Busy, Dispatch
<1>2. r \notin Pending BY <1>1 DEF Pending
<1>3. CASE outbound' = [outbound EXCEPT ![r] = "done"] /\ UNCHANGED active
  <2>1. outbound' \in Outbound /\ Pending' = Pending BY <1>1, <1>3 DEF Pending, Outbound
  <2> QED BY <1>1, <1>3, <2>1, BusyKept DEF Handling
<1>4. CASE /\ outbound' = [outbound EXCEPT ![r] = IF "live" \in sockets THEN "live" ELSE "waiting"]
           /\ active' = active + 1
  <2>1. outbound' \in Outbound /\ Pending' = Pending \cup {r} BY <1>1, <1>4 DEF Pending, Outbound
  <2> QED BY <1>1, <1>2, <1>4, <2>1, BusyPending
<1> QED BY <1>3, <1>4 DEF Dispatch

\* A request's frame is written; a late one was counted out before.
LEMMA BusyRequestOpens ==
  ASSUME Busy, NEW r \in Request, RequestOpens(r)
  PROVE  Busy'
<1>1. outbound \in Outbound /\ inbound' = inbound /\ active' = active BY DEF Busy, RequestOpens
<1>2. outbound' \in Outbound /\ Pending' = Pending BY <1>1 DEF RequestOpens, Pending, Outbound
<1> QED BY <1>1, <1>2, BusyKept DEF Handling

\* A request is answered, or its deadline passes.
LEMMA BusyRequestEnds ==
  ASSUME Busy, NEW r \in Request, Response(r) \/ Deadline(r)
  PROVE  Busy'
<1>1. outbound \in Outbound /\ inbound' = inbound /\ active' = active - 1 BY DEF Busy, Response, Deadline
<1>2. r \in Pending BY DEF Response, Deadline, Pending, Open
<1>3. outbound' \in Outbound /\ Pending' = Pending \ {r}
  BY <1>1, <1>2 DEF Response, Deadline, Pending, Outbound
<1> QED BY <1>1, <1>2, <1>3, BusyPending

\* Requests move to the draining socket with the rest.
LEMMA BusyGoAway ==
  ASSUME Busy, GoAway
  PROVE  Busy'
<1>1. outbound \in Outbound /\ inbound' = inbound /\ active' = active BY DEF Busy, GoAway
<1>2. outbound' \in Outbound /\ Pending' = Pending BY <1>1 DEF GoAway, Pending, Outbound
<1> QED BY <1>1, <1>2, BusyKept DEF Handling

\* Every step keeps the count.
LEMMA BusyNext ==
  ASSUME Stream, Busy, [Next]_vars
  PROVE  Busy'
<1>1. CASE ClientStep
  <2>1. CASE Drained BY <2>1, BusyFails DEF Drained, CloseConnection, EndStream
  <2>2. CASE HandlersAttach \/ OrphanOpens \/ StreamEnds \/ RecoveryTimer
    BY <2>2, BusyStream DEF HandlersAttach, OrphanOpens, StreamEnds, RecoveryTimer, EndStream, OpenStream
  <2>3. CASE PlatformAttaches \/ PlatformTimer \/ Reconnected \/ BackoffEnds \/ Connect \/ PlatformAcked
    BY <2>3, BusyStream DEF PlatformAttaches, PlatformTimer, Reconnected, BackoffEnds, Connect, PlatformAcked,
                            Reconnecting, EndStream, OpenStream, streamVars
  <2> QED BY <1>1, <2>1, <2>2, <2>3 DEF ClientStep
<1>2. CASE ServerStep
  <2>1. CASE \E c \in Command : Route(c) BY <2>1, BusyRoute
  <2>2. CASE \E c \in Command : CommandArrives(c) BY <2>2, BusyCommandArrives
  <2>3. CASE \E r \in Request : Response(r) BY <2>3, BusyRequestEnds
  <2>4. CASE NodeInfo \/ \E n \in Name : Register(n) \/ AckArrives(n)
    BY <2>4, BusyStream, Zenon DEF NodeInfo, Register, AckArrives, streamVars, requestVars
  <2> QED BY <1>2, <2>1, <2>2, <2>3, <2>4 DEF ServerStep
<1>3. CASE ApplicationStep
  <2>1. CASE \E c \in Command : HandlerEnds(c) BY <2>1, BusyHandlerEnds
  <2>2. CASE \E r \in Request : Dispatch(r) BY <2>2, BusyDispatch
  <2>3. CASE \E r \in Request : RequestOpens(r) BY <2>3, BusyRequestOpens
  <2>4. CASE \E r \in Request : Deadline(r) BY <2>4, BusyRequestEnds
  <2>5. CASE DrainTimesOut BY <2>5, BusyFails, Zenon DEF DrainTimesOut, CloseConnection, EndStream
  <2>6. CASE \E n \in Name : Subscribe(n)
    BY <2>6, BusyStream DEF Subscribe, OpenStream, streamVars
  <2>7. CASE Start \/ StartTimesOut \/ Close
    BY <2>7, BusyStream DEF Start, StartTimesOut, Close, streamVars
  <2> QED BY <1>3, <2>1, <2>2, <2>3, <2>4, <2>5, <2>6, <2>7 DEF ApplicationStep
<1>4. CASE FaultStep
  <2>1. CASE ConnectFails BY <2>1, BusyFails DEF ConnectFails
  <2>2. CASE GoAway BY <2>2, BusyGoAway
  <2>3. CASE HeartbeatTimeout BY <2>3, BusyFails DEF HeartbeatTimeout, Reconnecting, EndStream
  <2>4. CASE \E k \in Open : SocketDies(k) BY <2>4, BusyFails DEF SocketDies, EndStream
  <2>5. CASE PlatformEnds \/ RequestReconnect \/ \E n \in Name : Refuse(n)
    BY <2>5, BusyStream DEF PlatformEnds, RequestReconnect, Refuse, streamVars
  <2> QED BY <1>4, <2>1, <2>2, <2>3, <2>4, <2>5 DEF FaultStep
<1>5. CASE UNCHANGED vars BY <1>5, BusyStream DEF vars, requestVars
<1> QED BY <1>1, <1>2, <1>3, <1>4, <1>5 DEF Next

\* Nothing is in flight at first.
LEMMA BusyAtFirst == Init => Busy
<1> SUFFICES ASSUME Init PROVE Busy OBVIOUS
<1>1. outbound \in Outbound /\ Handling = {} /\ Pending = {} /\ active = 0
  BY DEF Init, Outbound, Handling, Pending
<1> QED BY <1>1, FS_EmptySet DEF Busy

\* The latch is exact: whatever sockets, streams and deadlines did, it counts
\* the commands in a handler and the requests whose caller waits.
THEOREM LatchIsExact == Spec => []Busy
  BY BusyAtFirst, BusyNext, StreamsAgree, PTL DEF Spec

\* close() drains: unless that took too long, no command is in a handler and no
\* caller waits when the connection is closed.
THEOREM DrainsFirst == Spec => DrainedFirst
<1>1. ASSUME Busy, [Next]_vars, closing = "draining", closing' = "drained" PROVE active = 0
  BY <1>1, Zenon DEF Next, ClientStep, ServerStep, ApplicationStep, FaultStep, HandlersAttach, OrphanOpens, StreamEnds,
       RecoveryTimer, PlatformAttaches, PlatformTimer, Reconnected, BackoffEnds, Connect, PlatformAcked, Drained,
       NodeInfo, Register, AckArrives, Route, CommandArrives, Response, Subscribe, HandlerEnds, Dispatch,
       RequestOpens, Deadline, Start, StartTimesOut, Close, DrainTimesOut, ConnectFails, GoAway, HeartbeatTimeout,
       PlatformEnds, RequestReconnect, SocketDies, Refuse, clientVars, vars
<1>2. ASSUME Busy, active = 0 PROVE Handling = {} /\ Pending = {}
  <2>1. IsFiniteSet(Handling) /\ IsFiniteSet(Pending) /\ Cardinality(Handling) + Cardinality(Pending) = 0
    BY <1>2 DEF Busy
  <2>2. Cardinality(Handling) \in Nat /\ Cardinality(Pending) \in Nat BY <2>1, FS_CardinalityType
  <2>3. Cardinality(Handling) = 0 /\ Cardinality(Pending) = 0 BY <2>1, <2>2
  <2> QED BY <2>1, <2>3, FS_EmptySet
<1>3. ASSUME Busy, Handling = {}, Pending = {}
      PROVE  /\ \A c \in Command : inbound[c] \notin {"running", "stale"}
             /\ \A r \in Request : outbound[r] \in {"new", "late", "done"}
  BY <1>3 DEF Handling, Pending, Busy, Outbound
<1>4. Busy /\ [Next]_vars =>
        [closing = "draining" /\ closing' = "drained" =>
           /\ \A c \in Command : inbound[c] \notin {"running", "stale"}
           /\ \A r \in Request : outbound[r] \in {"new", "late", "done"}]_vars
  BY <1>1, <1>2, <1>3
<1> QED BY <1>4, LatchIsExact, PTL DEF Spec, DrainedFirst
=============================================================================
