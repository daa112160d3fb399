---------------------------- MODULE KronosDbBus ----------------------------
(***************************************************************************)
(* A command bus on KronosDB: one socket (and one that drains), on it the  *)
(* platform stream, the handler stream, that comes back by itself, and the *)
(* requests the bus dispatches; the start barrier, and the drain on close. *)
(* The server is external: it registers names, sends a command per credit, *)
(* and ends a client's handler stream when its platform stream ends or     *)
(* when the client opens another.                                          *)
(***************************************************************************)
EXTENDS Integers, FiniteSets

CONSTANTS
  Name,              \* command names with a handler here
  Command,           \* commands the server has for this client
  NameOf,            \* command -> its name
  Request,           \* commands dispatched here
  Permits, Threshold,
  MaxHandlers,
  MaxPending,
  MaxAttempts,       \* of the handler stream's recovery
  MaxFaults          \* bound: sockets, connects and streams that fail, refusals, server requests

ASSUME BusAssumption ==
  /\ NameOf \in [Command -> Name]
  /\ {Permits, Threshold, MaxHandlers, MaxPending, MaxAttempts, MaxFaults} \subseteq Nat
  /\ Threshold < Permits

VARIABLES
  conn,       \* connection.state, and whether reconnect() waits out its backoff
  sockets,    \* which sockets are there: "live", and a "draining" one
  platform,   \* the platform stream: place, NodeInfo seen, recoveryTimer
  handlers,   \* the live incarnation of the handler stream, and its recovery
  orphans,    \* incarnations that were replaced before they had a socket
  names,      \* localHandlers
  server,     \* the server's end of the live incarnation
  inbound,    \* commands from the server
  outbound,   \* commands dispatched here
  barrier,    \* start()
  closing,    \* close()
  active,     \* the latch's activeCount
  faults

clientVars == <<conn, sockets, platform, handlers, orphans, names, barrier, closing, faults>>
streamVars == <<handlers, orphans, server, inbound>>
requestVars == <<outbound, active>>
vars == <<clientVars, server, inbound, outbound, active>>

Undefined == -1
Open == {"live", "draining"}     \* places of a stream that has a socket

NoStream == [open |-> FALSE, registered |-> {}, refused |-> {}, credits |-> 0]

Init ==
  /\ conn = [state |-> "connected", asleep |-> FALSE]
  /\ sockets = {}
  /\ platform = [armed |-> FALSE, at |-> "none", acked |-> FALSE, timer |-> FALSE]
  /\ handlers = [started |-> FALSE, at |-> "none", pending |-> {}, credit |-> Undefined,
                 timer |-> FALSE, attempts |-> 0, stopped |-> FALSE]
  /\ orphans = 0
  /\ names = {}
  /\ server = NoStream
  /\ inbound = [c \in Command |-> "new"]
  /\ outbound = [r \in Request |-> "new"]
  /\ barrier = "none"
  /\ closing = "no"
  /\ active = 0
  /\ faults = 0

Fault == faults < MaxFaults /\ faults' = faults + 1
ShuttingDown == closing # "no"

-----------------------------------------------------------------------------
(* The handler stream, as functions of its record h; ns is localHandlers. *)
CanReconnect(state) == ~ShuttingDown /\ state = "connected"

\* Mutant: a stream that has ended is not taken for one that failed.
FailedQuietly(h, state) == h

\* recovery.failed
Failed(h, state) ==
  IF h.stopped \/ h.timer \/ ~CanReconnect(state) \/ h.attempts >= MaxAttempts THEN h
  ELSE [h EXCEPT !.timer = TRUE, !.attempts = @ + 1]

\* end and onEnded: the incarnation's instructions and credits go with it.
Ended(h) == [h EXCEPT !.at = "none", !.pending = {}, !.credit = Undefined]

Announced(h, ns) ==
  [h EXCEPT !.at = "live", !.pending = ns, !.credit = IF ns = {} THEN Undefined ELSE Permits]

\* open(): on the live socket at once, or when there is one.
Opened(h, live, ns) ==
  IF live THEN Announced([h EXCEPT !.started = TRUE], ns)
  ELSE [Ended(h) EXCEPT !.started = TRUE, !.at = "waiting"]

\* Every incarnation starts from scratch at the server.
Fresh(ns) == [open |-> TRUE, registered |-> {}, refused |-> {}, credits |-> IF ns = {} THEN 0 ELSE Permits]

\* An incarnation that has not its socket yet is not told that it was replaced.
Orphaned == orphans + (IF handlers.at = "waiting" THEN 1 ELSE 0)

\* Commands of an incarnation that ends: those on their way are lost, those
\* being handled will find no stream to answer on.
Abandoned(f) == [c \in Command |-> CASE f[c] = "sent" -> "lost"
                                     [] f[c] = "running" -> "stale"
                                     [] OTHER -> f[c]]

EndStream(h) ==
  /\ handlers' = h
  /\ server' = NoStream
  /\ inbound' = Abandoned(inbound)

\* Mutant: the answers are not waited for.
AcknowledgedOnceOpen(h) == h.at \in Open

\* acknowledged(): open, and nothing unanswered.
Acknowledged(h) == h.at \in Open /\ h.pending = {}

\* settle(), called after attach and after an acknowledgement.
Settle(h) == barrier' = IF barrier = "waiting" /\ Acknowledged(h) THEN "ready" ELSE barrier

\* open(), with what becomes of the incarnation before.
OpenStream(h, ns) ==
  LET live == "live" \in sockets
  IN /\ handlers' = Opened(h, live, ns)
     /\ server' = IF live THEN Fresh(ns) ELSE NoStream
     /\ inbound' = Abandoned(inbound)
     /\ orphans' = Orphaned
     /\ Settle(Opened(h, live, ns))

HandlersAttach ==
  /\ handlers.at = "waiting" /\ "live" \in sockets
  /\ handlers' = Announced(handlers, names)
  /\ server' = Fresh(names)
  /\ Settle(Announced(handlers, names))
  /\ UNCHANGED <<requestVars, conn, sockets, platform, orphans, inbound, names, closing, faults>>

\* A replaced incarnation gets its socket: its opening frame is written before
\* it is found to be an old one, and takes the server's registration over.
OrphanOpens ==
  /\ orphans > 0 /\ "live" \in sockets
  /\ orphans' = orphans - 1
  /\ server' = [server EXCEPT !.open = FALSE]
  /\ UNCHANGED <<requestVars, conn, sockets, platform, handlers, inbound, names, barrier, closing, faults>>

\* The end of the stream arrives.
StreamEnds ==
  /\ handlers.at \in Open /\ ~server.open
  /\ EndStream(Failed(Ended(handlers), conn.state))
  /\ UNCHANGED <<requestVars, conn, sockets, platform, orphans, names, barrier, closing, faults>>

RecoveryTimer ==
  /\ handlers.timer
  /\ IF handlers.stopped \/ ~CanReconnect(conn.state)
       THEN /\ handlers' = [handlers EXCEPT !.timer = FALSE]
            /\ UNCHANGED <<orphans, server, inbound, barrier>>
       ELSE OpenStream([handlers EXCEPT !.timer = FALSE], names)
  /\ UNCHANGED <<requestVars, conn, sockets, platform, names, closing, faults>>

\* subscribe
Subscribe(n) ==
  /\ n \notin names /\ conn.state # "closed"
  /\ names' = names \cup {n}
  /\ CASE handlers.at \in Open ->
            /\ handlers' = [handlers EXCEPT !.pending = @ \cup {n},
                                            !.credit = IF @ = Undefined THEN Permits ELSE @]
            /\ server' = [server EXCEPT !.credits = IF handlers.credit = Undefined THEN @ + Permits ELSE @]
            /\ UNCHANGED <<orphans, inbound, barrier>>
       [] ~handlers.started -> OpenStream(handlers, names')
       [] OTHER -> UNCHANGED <<streamVars, barrier>>
  /\ UNCHANGED <<requestVars, conn, sockets, platform, closing, faults>>

\* The server's answer to a subscription ...
Register(n) ==
  /\ server.open /\ n \in handlers.pending \ (server.registered \cup server.refused)
  /\ server' = [server EXCEPT !.registered = @ \cup {n}]
  /\ UNCHANGED <<clientVars, inbound, outbound, active>>

Refuse(n) ==
  /\ server.open /\ n \in handlers.pending \ (server.registered \cup server.refused)
  /\ Fault
  /\ server' = [server EXCEPT !.refused = @ \cup {n}]
  /\ UNCHANGED <<requestVars, conn, sockets, platform, handlers, orphans, inbound, names, barrier, closing>>

\* recovery.received: a stream that has been open for long is a stable one.
Received(h) == {h, [h EXCEPT !.attempts = 0]}

\* ... arrives: a refusal fails the barrier if it is waited on by then.
AckArrives(n) ==
  /\ handlers.at \in Open /\ n \in handlers.pending \cap (server.registered \cup server.refused)
  /\ \E h \in Received([handlers EXCEPT !.pending = @ \ {n}]) :
       /\ handlers' = h
       /\ IF n \in server.registered THEN Settle(h)
          ELSE barrier' = IF barrier = "waiting" THEN "failed" ELSE barrier
  /\ UNCHANGED <<requestVars, conn, sockets, platform, orphans, server, inbound, names, closing, faults>>
-----------------------------------------------------------------------------
(* Commands from the server. *)
Route(c) ==
  /\ inbound[c] = "new"
  /\ server.open /\ NameOf[c] \in server.registered /\ server.credits > 0
  /\ inbound' = [inbound EXCEPT ![c] = "sent"]
  /\ server' = [server EXCEPT !.credits = @ - 1]
  /\ UNCHANGED <<clientVars, outbound, active>>

Handling == {c \in Command : inbound[c] \in {"running", "stale"}}
Pending == {r \in Request : outbound[r] \in {"waiting", "live", "draining"}}

\* Mutant: one credit too late.
RefillsLate(left) == left < Threshold /\ ~ShuttingDown

Refills(left) == left <= Threshold /\ ~ShuttingDown

\* onFrame: the credit is replaced on receipt; the latch and the admission
\* refuse with an answer.
CommandArrives(c) ==
  /\ inbound[c] = "sent" /\ handlers.at \in Open
  /\ LET left == handlers.credit - 1
         grant == Refills(left)
     IN \E h \in Received([handlers EXCEPT !.credit = IF grant THEN left + Permits ELSE left]) :
          /\ handlers' = h
          /\ server' = IF grant THEN [server EXCEPT !.credits = @ + Permits] ELSE server
  /\ IF ShuttingDown \/ Cardinality(Handling) >= MaxHandlers
       THEN inbound' = [inbound EXCEPT ![c] = "answered"] /\ UNCHANGED active
       ELSE inbound' = [inbound EXCEPT ![c] = "running"] /\ active' = active + 1
  /\ UNCHANGED <<conn, sockets, platform, orphans, outbound, names, barrier, closing, faults>>

\* The answer goes to the incarnation the command came on, or nowhere.
HandlerEnds(c) ==
  /\ inbound[c] \in {"running", "stale"}
  /\ inbound' = [inbound EXCEPT ![c] = IF @ = "running" THEN "answered" ELSE "lost"]
  /\ active' = active - 1
  /\ UNCHANGED <<clientVars, server, outbound>>

-----------------------------------------------------------------------------
(* Commands dispatched here. *)
Dispatch(r) ==
  /\ outbound[r] = "new"
  /\ IF ShuttingDown \/ Cardinality(Pending) >= MaxPending
       THEN outbound' = [outbound EXCEPT ![r] = "done"] /\ UNCHANGED active
       ELSE /\ outbound' = [outbound EXCEPT ![r] = IF "live" \in sockets THEN "live" ELSE "waiting"]
            /\ active' = active + 1
  /\ UNCHANGED <<clientVars, server, inbound>>

\* The frame is written, also for a caller whose deadline has passed; the
\* latter is cancelled behind it.
RequestOpens(r) ==
  /\ outbound[r] \in {"waiting", "late"} /\ "live" \in sockets
  /\ outbound' = [outbound EXCEPT ![r] = IF @ = "waiting" THEN "live" ELSE "done"]
  /\ UNCHANGED <<clientVars, server, inbound, active>>

Response(r) ==
  /\ outbound[r] \in Open
  /\ outbound' = [outbound EXCEPT ![r] = "done"]
  /\ active' = active - 1
  /\ UNCHANGED <<clientVars, server, inbound>>

Deadline(r) ==
  /\ r \in Pending
  /\ outbound' = [outbound EXCEPT ![r] = IF @ = "waiting" THEN "late" ELSE "done"]
  /\ active' = active - 1
  /\ UNCHANGED <<clientVars, server, inbound>>

\* Mutant: an activity may end twice.
EndingAgain(places) == {r \in Request : outbound[r] \in places}

\* Their activities, which end once.
Ending(places) == {r \in Pending : outbound[r] \in places}

\* What was sent on a socket that dies, or waited for one, fails.
FailRequests(places) ==
  /\ outbound' = [r \in Request |-> IF outbound[r] \in places THEN "done" ELSE outbound[r]]
  /\ active' = active - Cardinality(Ending(places))

-----------------------------------------------------------------------------
(* The platform stream. *)
ScheduleRecovery(p, state) == IF p.armed /\ state = "connected" THEN [p EXCEPT !.timer = TRUE] ELSE p
PlatformClosed(p) == [p EXCEPT !.at = "none", !.acked = FALSE]
PlatformOpened(p) == [p EXCEPT !.at = IF "live" \in sockets THEN "live" ELSE "waiting", !.acked = FALSE]

PlatformAttaches ==
  /\ platform.at = "waiting" /\ "live" \in sockets
  /\ platform' = PlatformOpened(platform)
  /\ UNCHANGED <<streamVars, requestVars, conn, sockets, names, barrier, closing, faults>>

NodeInfo ==
  /\ platform.at \in Open /\ ~platform.acked
  /\ platform' = [platform EXCEPT !.acked = TRUE]
  /\ UNCHANGED <<streamVars, requestVars, conn, sockets, names, barrier, closing, faults>>

\* The server ends it, and the client's handler stream with it.
PlatformEnds ==
  /\ platform.at \in Open
  /\ Fault
  /\ platform' = ScheduleRecovery(PlatformClosed(platform), conn.state)
  /\ server' = [server EXCEPT !.open = FALSE]
  /\ UNCHANGED <<requestVars, conn, sockets, handlers, orphans, inbound, names, barrier, closing>>

RequestReconnect ==
  /\ platform.at \in Open
  /\ Fault
  /\ platform' = ScheduleRecovery(platform, conn.state)
  /\ UNCHANGED <<streamVars, requestVars, conn, sockets, names, barrier, closing>>

-----------------------------------------------------------------------------
(* The connection. *)
\* reconnect() begins: the long-lived streams are abandoned.
Reconnecting(p, h) ==
  /\ conn' = [state |-> "reconnecting", asleep |-> FALSE]
  /\ platform' = PlatformClosed(p)
  /\ EndStream(Ended(h))
  /\ orphans' = Orphaned

PlatformTimer ==
  /\ platform.timer
  /\ LET p == [platform EXCEPT !.timer = FALSE]
     IN IF conn.state = "connected" THEN Reconnecting(p, handlers)
        ELSE platform' = p /\ UNCHANGED <<streamVars, conn>>
  /\ UNCHANGED <<requestVars, sockets, names, barrier, closing, faults>>

\* Nothing from the server for too long: the link's socket is closed, and what
\* is on it fails before the connection is reset.
HeartbeatTimeout ==
  /\ platform.at \in Open /\ conn.state = "connected"
  /\ Fault
  /\ sockets' = sockets \ {"live"}
  /\ FailRequests({"live"})
  /\ Reconnecting(IF platform.at = "live" THEN ScheduleRecovery(platform, conn.state) ELSE platform,
                  IF handlers.at = "live" THEN Failed(handlers, conn.state) ELSE handlers)
  /\ UNCHANGED <<names, barrier, closing>>

\* It is over once there is a live socket, and the streams open on it.
Reconnected ==
  /\ conn.state = "reconnecting" /\ ~conn.asleep /\ "live" \in sockets
  /\ conn' = [state |-> "connected", asleep |-> FALSE]
  /\ platform' = IF platform.armed THEN [PlatformOpened(platform) EXCEPT !.timer = FALSE] ELSE platform
  /\ IF ShuttingDown \/ ~handlers.started \/ handlers.stopped
       THEN UNCHANGED <<streamVars, barrier>>
       ELSE OpenStream([handlers EXCEPT !.timer = FALSE, !.attempts = 0], names)
  /\ UNCHANGED <<requestVars, sockets, names, closing, faults>>

BackoffEnds ==
  /\ conn.asleep
  /\ conn' = [conn EXCEPT !.asleep = FALSE]
  /\ UNCHANGED <<streamVars, requestVars, sockets, platform, names, barrier, closing, faults>>

Wanted ==
  \/ "waiting" \in {handlers.at, platform.at}
  \/ orphans > 0
  \/ \E r \in Request : outbound[r] \in {"waiting", "late"}
  \/ conn.state = "reconnecting" /\ ~conn.asleep

\* connectOnce, for all who are in ready().
Connect ==
  /\ Wanted /\ "live" \notin sockets /\ conn.state # "closed"
  /\ sockets' = sockets \cup {"live"}
  /\ UNCHANGED <<streamVars, requestVars, conn, platform, names, barrier, closing, faults>>

ConnectFails ==
  /\ Wanted /\ "live" \notin sockets /\ conn.state # "closed"
  /\ Fault
  /\ handlers' = IF handlers.at = "waiting" THEN Failed(Ended(handlers), conn.state) ELSE handlers
  /\ platform' = IF platform.at = "waiting" THEN ScheduleRecovery(PlatformClosed(platform), conn.state) ELSE platform
  /\ orphans' = 0
  /\ FailRequests({"waiting", "late"})
  /\ conn' = [conn EXCEPT !.asleep = conn.state = "reconnecting"]
  /\ UNCHANGED <<sockets, server, inbound, names, barrier, closing>>

SocketDies(k) ==
  /\ k \in sockets
  /\ Fault
  /\ sockets' = sockets \ {k}
  /\ FailRequests({k})
  /\ platform' = IF platform.at = k THEN ScheduleRecovery(PlatformClosed(platform), conn.state) ELSE platform
  /\ IF handlers.at = k THEN EndStream(Failed(Ended(handlers), conn.state))
     ELSE /\ server' = IF platform.at = k THEN [server EXCEPT !.open = FALSE] ELSE server
          /\ UNCHANGED <<handlers, inbound>>
  /\ UNCHANGED <<conn, orphans, names, barrier, closing>>

\* What is open stays on the old socket, and what comes needs a new one.
GoAway ==
  LET moved(at) == IF at = "live" THEN "draining" ELSE at
  IN /\ "live" \in sockets
     /\ Fault
     /\ sockets' = {"draining"}
     /\ handlers' = [handlers EXCEPT !.at = moved(@)]
     /\ platform' = [platform EXCEPT !.at = moved(@)]
     /\ outbound' = [r \in Request |-> moved(outbound[r])]
     /\ UNCHANGED <<conn, orphans, server, inbound, active, names, barrier, closing>>
-----------------------------------------------------------------------------
(* The handle's start() and close(). *)
Start ==
  /\ barrier = "none" /\ ~ShuttingDown
  /\ barrier' = "platform"
  /\ platform' = PlatformOpened([platform EXCEPT !.armed = TRUE])
  /\ UNCHANGED <<streamVars, requestVars, conn, sockets, names, closing, faults>>

PlatformAcked ==
  /\ barrier = "platform" /\ platform.acked
  /\ barrier' = IF ~handlers.started \/ Acknowledged(handlers) THEN "ready" ELSE "waiting"
  /\ UNCHANGED <<streamVars, requestVars, conn, sockets, platform, names, closing, faults>>

StartTimesOut ==
  /\ barrier \in {"platform", "waiting"}
  /\ barrier' = "failed"
  /\ UNCHANGED <<streamVars, requestVars, conn, sockets, platform, names, closing, faults>>

\* initiateShutdown: nothing new is admitted, and the stream, left open for the
\* answers to come, is not recovered any more.
Close ==
  /\ closing = "no"
  /\ closing' = "draining"
  /\ handlers' = [handlers EXCEPT !.stopped = TRUE, !.timer = FALSE]
  /\ UNCHANGED <<requestVars, conn, sockets, platform, orphans, server, inbound, names, barrier, faults>>

\* platform.stop and connection.close
CloseConnection ==
  /\ conn' = [state |-> "closed", asleep |-> FALSE]
  /\ sockets' = {}
  /\ platform' = [armed |-> FALSE, at |-> "none", acked |-> FALSE, timer |-> FALSE]
  /\ EndStream(Ended(handlers))
  /\ orphans' = 0
  /\ FailRequests({"waiting", "late", "live", "draining"})
  /\ UNCHANGED <<names, barrier, faults>>

Drained ==
  /\ closing = "draining" /\ active = 0
  /\ closing' = "drained"
  /\ CloseConnection

DrainTimesOut ==
  /\ closing = "draining" /\ active > 0
  /\ closing' = "timed out"
  /\ CloseConnection

-----------------------------------------------------------------------------
ClientStep ==
  \/ HandlersAttach \/ OrphanOpens \/ StreamEnds \/ RecoveryTimer
  \/ PlatformAttaches \/ PlatformTimer \/ Reconnected \/ BackoffEnds \/ Connect
  \/ PlatformAcked \/ Drained

ServerStep ==
  \/ NodeInfo
  \/ \E n \in Name : Register(n) \/ AckArrives(n)
  \/ \E c \in Command : Route(c) \/ CommandArrives(c)
  \/ \E r \in Request : Response(r)

ApplicationStep ==
  \/ \E n \in Name : Subscribe(n)
  \/ \E c \in Command : HandlerEnds(c)
  \/ \E r \in Request : Dispatch(r) \/ RequestOpens(r) \/ Deadline(r)
  \/ Start \/ StartTimesOut \/ Close \/ DrainTimesOut

FaultStep ==
  \/ ConnectFails \/ GoAway \/ HeartbeatTimeout \/ PlatformEnds \/ RequestReconnect
  \/ \E k \in Open : SocketDies(k)
  \/ \E n \in Name : Refuse(n)

Next == ClientStep \/ ServerStep \/ ApplicationStep \/ FaultStep

Spec == Init /\ [][Next]_vars

\* Timers fire, promises settle, and a server that is there answers.
Fairness ==
  /\ WF_vars(HandlersAttach) /\ WF_vars(OrphanOpens) /\ WF_vars(StreamEnds) /\ WF_vars(RecoveryTimer)
  /\ WF_vars(PlatformTimer) /\ WF_vars(Reconnected) /\ WF_vars(BackoffEnds) /\ WF_vars(Connect)
  /\ \A n \in Name : WF_vars(Register(n)) /\ WF_vars(AckArrives(n))

FairSpec == Spec /\ Fairness

-----------------------------------------------------------------------------
\* Client and server agree on the stream's credits, whichever incarnations came
\* and went: what the client counts is with the server or on its way, never
\* more than one window and a threshold, and never too little to go on.
CreditsAgree ==
  handlers.at \in Open /\ server.open =>
    LET sent == Cardinality({c \in Command : inbound[c] = "sent"})
    IN /\ handlers.credit = (IF names = {} THEN Undefined ELSE server.credits + sent)
       /\ handlers.credit <= Permits + Threshold
       /\ names # {} /\ ~ShuttingDown => handlers.credit > Threshold

\* close() "drain[s] every bus's in-flight work": unless that took too long, no
\* command is in a handler, and no caller waits, when the socket is closed.
DrainedFirst ==
  [][closing = "draining" /\ closing' = "drained" =>
       /\ \A c \in Command : inbound[c] \notin {"running", "stale"}
       /\ \A r \in Request : outbound[r] \in {"new", "late", "done"}]_vars

\* start() resolves when the server has answered every name announced, on the
\* stream that is open then; no answer to an earlier incarnation counts.
StartMeansAnswered ==
  [][barrier # "ready" /\ barrier' = "ready" /\ names' # {} =>
       /\ handlers'.at \in Open
       /\ names' \subseteq server'.registered \cup server'.refused]_vars

Serving ==
  /\ handlers.at \in Open /\ server.open
  /\ names \subseteq server.registered \cup server.refused

GaveUp == handlers.at = "none" /\ ~handlers.timer /\ handlers.attempts >= MaxAttempts

\* However sockets, streams and connects fail, the handlers are back in the
\* end, unless the bus shuts down or the stream was lost more often than its
\* recovery goes along with.
HandlersComeBack ==
  <>[](names = {} \/ Serving \/ ShuttingDown \/ GaveUp)
=============================================================================
