------------------------------ MODULE EventLog ------------------------------
(***************************************************************************)
(* Events, event queries and the reads and conflict checks the stores make *)
(* with them: event-sourcing/dcb-query.ts and the matching code of         *)
(* event-sourcing/in-memory.ts.                                            *)
(*                                                                         *)
(* A log is a sequence of events.  Positions are the indices 1..Len(log);  *)
(* the code counts from 0, so a position here is the code's plus one and   *)
(* the marker 0 is the code's ORIGIN marker -1.                            *)
(***************************************************************************)
EXTENDS Integers, Sequences, FiniteSets

CONSTANTS EventType, Tag

Event == [type : EventType, tags : SUBSET Tag]

\* One item of a query: ALL of its tags and, unless it names none, ANY of its
\* types.  An item with neither matches every event.
QueryItem == [tags : SUBSET Tag, types : SUBSET EventType]

\* The items of a query are ORed.  queryItems refuses an empty array.
EventQuery == (SUBSET QueryItem) \ {{}}

MatchesItem(event, item) ==
  /\ item.tags \subseteq event.tags
  /\ item.types = {} \/ event.type \in item.types

Matches(event, query) == \E item \in query : MatchesItem(event, item)

\* The positions from..to of log whose event the query selects.
Sourced(log, query, from, to) ==
  {p \in from..to : Matches(log[p], query)}

\* A read is what an append condition keeps of it: its query and the marker
\* it returned.  Some check of the condition is violated by an event after
\* that check's own marker.
Conflicts(log, checks) ==
  \E c \in checks : Sourced(log, c.query, c.marker + 1, Len(log)) # {}

\* Mutant: the last read's marker instead of the first's.
EarliestIsLatest(reads) ==
  CHOOSE m \in {r.marker : r \in reads} : \A r \in reads : m >= r.marker

\* The marker of a whole-condition check over several reads.
Earliest(reads) ==
  CHOOSE m \in {r.marker : r \in reads} : \A r \in reads : m <= r.marker
=============================================================================
