------------------------- MODULE SegmentOperations -------------------------
(***************************************************************************)
(* splitSegment, mergeSegment and resetTokens, run on one node while the   *)
(* others claim, handle and crash.  Each takes the segments it is about    *)
(* from their workers or by claiming them, reads their tokens, writes in   *)
(* one transaction, and hands the segments back.                           *)
(***************************************************************************)
EXTENDS SegmentClaims, Sequences

CONSTANTS
  Alone,    \* operations run while no node starts, stops, renews or claims
  MaxOps    \* bound: operations, one at a time

ASSUME OperationsAssumption == Alone \in BOOLEAN /\ MaxOps \in Nat

VARIABLES
  op,       \* the operation under way
  ops       \* how many were begun

opVars == <<op, ops>>
allVars == <<vars, opVars>>

NoOp == [kind |-> "none", node |-> Nobody, segment |-> [id |-> 0, mask |-> 0],
         todo |-> <<>>, held |-> {}, tokens |-> {}, read |-> FALSE]

OpInit ==
  /\ Init
  /\ op = NoOp
  /\ ops = 0

-----------------------------------------------------------------------------
Kept == <<initialSegments, up, rounds, renewals, faults, ops>>

\* After an operation: a worker for what the node now holds, or the release.
Resume(n, resumed) ==
  workers' = IF up[n] = "running"
               THEN WithWorkers({StartedWorker(n, s.segment, s.token) : s \in resumed})
               ELSE workers

Releases(n, ids, table) ==
  [i \in Ids |-> IF i \in ids /\ table[i].owner = n THEN ReleasedRow(table[i]) ELSE table[i]]

\* Mutant: what was claimed for the operation is not released.
LetGoNothing(n) == {}

LetGo(n) == {h.segment.id : h \in {g \in op.held : g.how = "claimed" \/ up[n] # "running"}}

\* What a catch or finally block puts back: a worker for what was taken from
\* one, at the token read, if any, and the release of what was claimed.
GiveBack(tokens) ==
  LET n == op.node
      token(h) == IF \E t \in tokens : t.id = h.segment.id /\ t.token # Plain(0)
                    THEN (CHOOSE t \in tokens : t.id = h.segment.id).token
                    ELSE h.known
  IN /\ Resume(n, {[segment |-> h.segment, token |-> token(h)] : h \in {g \in op.held : g.how = "held"}})
     /\ rows' = Releases(n, LetGo(n), rows)
     /\ op' = NoOp

\* No round or renewal is under way, and the workers are those of the running
\* nodes, each with its claim.
Quiet ==
  /\ \A n \in Node : rounds[n] = IdleRound
  /\ renewals = {}
  /\ \A w \in workers : w.current /\ up[w.node] = "running" /\ Stores(w.node, w.segment.id)

Begin(kind, n, s, todo) ==
  /\ op.kind = "none"
  /\ Alone => Quiet
  /\ ops < MaxOps
  /\ ops' = ops + 1
  /\ SegmentIds # {}
  /\ op' = [kind |-> kind, node |-> n, segment |-> s, todo |-> todo,
            held |-> {}, tokens |-> {}, read |-> FALSE]
  /\ UNCHANGED vars

BeginSplit(n, s) ==
  /\ up[n] # "dead"
  /\ s \in SegmentsOf(SegmentIds)
  /\ 2 * s.mask + 1 \in Masks
  /\ Begin("split", n, s, <<s>>)

BeginMerge(n, s) ==
  /\ up[n] # "dead"
  /\ s \in SegmentsOf(SegmentIds)
  /\ s.mask # 0
  /\ LET partner == [id |-> MergeableSegmentId(s), mask |-> s.mask]
     IN /\ partner \in SegmentsOf(SegmentIds)
        /\ Begin("merge", n, s, <<s, partner>>)

\* Only when this node has stopped; every segment, by id.
BeginReset(n) ==
  /\ up[n] = "stopped"
  /\ rounds[n] = IdleRound
  /\ ~\E r \in renewals : r.node = n
  /\ \E count \in 1..(2^Depth) : \E todo \in [1..count -> SegmentsOf(SegmentIds)] :
       /\ SegmentsOf(SegmentIds) = {todo[i] : i \in 1..count}
       /\ \A i, j \in 1..count : i < j => todo[i].id < todo[j].id
       /\ Begin("reset", n, [id |-> 0, mask |-> 0], todo)

\* holdForOperation, with a worker: it stops, writes what it deferred, and
\* keeps the claim.
TakeFromWorker ==
  /\ op.todo # <<>>
  /\ op.kind # "reset"
  /\ ~\E c \in claims : c.operation
  /\ \E w \in workers :
       /\ w.node = op.node /\ w.segment.id = Head(op.todo).id /\ w.current
       /\ workers' = workers \ {w}
       /\ rows' = IF w.unwritten /\ Stores(w.node, w.segment.id)
                    THEN [rows EXCEPT ![w.segment.id] = StoredRow(w.node, w.token)]
                    ELSE rows
       /\ op' = [op EXCEPT !.todo = Tail(@),
                           !.held = @ \cup {[segment |-> Head(op.todo), how |-> "held", known |-> w.token]}]
  /\ UNCHANGED <<claims, history, Kept>>

\* ... and without one: the SELECT of a claim, which another node's refuses.
ClaimForOperation ==
  /\ op.todo # <<>>
  /\ op.kind = "reset" \/ ~Has(op.node, Head(op.todo).id)
  /\ ~\E c \in claims : c.operation
  /\ LET s == Head(op.todo)
     IN IF Claimable(op.node, rows[s.id])
          THEN /\ claims' = claims \cup {[node |-> op.node, segment |-> s, row |-> rows[s.id], operation |-> TRUE]}
               /\ UNCHANGED <<rows, workers, op>>
          ELSE GiveBack({}) /\ UNCHANGED claims
  /\ UNCHANGED <<history, Kept>>

ClaimedForOperation(c) ==
  /\ c.operation
  /\ claims' = claims \ {c}
  /\ IF ClaimStatementFails(c) THEN GiveBack({})
     ELSE /\ rows' = [rows EXCEPT ![c.segment.id] = ClaimedRow(c)]
          /\ op' = [op EXCEPT !.todo = Tail(@),
                              !.held = @ \cup {[segment |-> c.segment, how |-> "claimed", known |-> c.row.token]}]
          /\ UNCHANGED workers
  /\ UNCHANGED <<history, Kept>>

\* The tokens, read in the operation's transaction; a segment that is still
\* catching up is not split, and one that is replaying is not merged either.
ReadTokens ==
  LET tokens == {[id |-> h.segment.id, token |-> rows[h.segment.id].token] : h \in op.held}
  IN /\ op.kind # "none"
     /\ op.todo = <<>>
     /\ ~op.read
     /\ IF \E t \in tokens : \/ op.kind \in {"split", "merge"} /\ Merged(t.token)
                             \/ op.kind = "merge" /\ Replaying(t.token)
          THEN GiveBack(tokens)
          ELSE op' = [op EXCEPT !.tokens = tokens, !.read = TRUE] /\ UNCHANGED <<rows, workers>>
     /\ UNCHANGED <<claims, history, Kept>>

TokenOf(s) == (CHOOSE t \in op.tokens : t.id = s.id).token

\* The second half's row is claimed and written; the first keeps its row.
Split ==
  LET n == op.node
      first == FirstHalf(op.segment)
      second == SecondHalf(op.segment)
      table == [rows EXCEPT ![second.id] = StoredRow(n, TokenOf(op.segment))]
  IN /\ op.kind = "split"
     /\ op.read
     /\ IF ~Claimable(n, rows[second.id]) THEN GiveBack(op.tokens)
        ELSE /\ Resume(n, {[segment |-> s, token |-> TokenOf(op.segment)] : s \in {first, second}})
             /\ rows' = IF up[n] = "running" THEN table ELSE Releases(n, {first.id, second.id}, table)
             /\ op' = NoOp
     /\ UNCHANGED <<claims, history, Kept>>

\* Mutant: the row of the higher id is the one kept.
KeptIdHigher(ids) == Max(ids)

KeptId(ids) == Min(ids)

\* One token for both halves, in the row of the lower id.
Merge ==
  LET n == op.node
      s == op.segment
      ids == {t.id : t \in op.tokens}
      keep == KeptId(ids)
      drop == CHOOSE i \in ids : i # keep
      token == MergedToken(s.mask, {[segment |-> t.id, at |-> t.token.at] : t \in op.tokens})
      table == [rows EXCEPT ![keep] = StoredRow(n, token), ![drop] = NoRow]
  IN /\ op.kind = "merge"
     /\ op.read
     /\ IF ~Stores(n, keep) THEN GiveBack(op.tokens)
        ELSE /\ Resume(n, {[segment |-> [id |-> keep, mask |-> s.mask \div 2], token |-> token]})
             /\ rows' = IF up[n] = "running" THEN table ELSE Releases(n, {keep}, table)
             /\ op' = NoOp
     /\ UNCHANGED <<claims, history, Kept>>

\* Mutant: the replay runs up to the head of the log.
ResetTokenToHead(t) == IF LastEvent > 0 THEN ReplayToken(LastEvent, 0) ELSE Plain(0)

\* Back to the start of the log: a replay up to where the segment had got to.
ResetToken(t) == IF ReachedBy(t) > 0 THEN ReplayToken(ReachedBy(t), 0) ELSE Plain(0)

\* The read model is cleared with it.
Reset ==
  LET n == op.node
      ids == {t.id : t \in op.tokens}
      written == \A i \in ids : Stores(n, i)
      table == [i \in Ids |->
        IF i \in ids THEN StoredRow(n, ResetToken((CHOOSE t \in op.tokens : t.id = i).token)) ELSE rows[i]]
  IN /\ op.kind = "reset"
     /\ op.read
     /\ rows' = Releases(n, ids, IF written THEN table ELSE rows)
     /\ op' = NoOp
     /\ folded' = IF written THEN {} ELSE folded
     /\ UNCHANGED <<workers, claims, handled, repeated, misreplayed, contested, Kept>>

-----------------------------------------------------------------------------
\* A step of the claims while an operation is under way, or not.
ClaimStep ==
  /\ Next
  /\ Alone /\ op.kind # "none" => Quiet' /\ \A n \in Node : up'[n] \in {up[n], "dead"}
  /\ op' = IF op.kind # "none" /\ up'[op.node] = "dead" THEN NoOp ELSE op
  /\ UNCHANGED ops

OperationStep ==
  \/ \E n \in Node :
       \/ \E s \in Segment : BeginSplit(n, s) \/ BeginMerge(n, s)
       \/ BeginReset(n)
  \/ TakeFromWorker \/ ClaimForOperation \/ ReadTokens
  \/ \E c \in claims : ClaimedForOperation(c)
  \/ Split \/ Merge \/ Reset

OpNext == ClaimStep \/ OperationStep

OpSpec == OpInit /\ [][OpNext]_allVars

-----------------------------------------------------------------------------
\* The events handled as a replay had been handled: one operation alone resets
\* a segment to a replay of what it was past, and no more.
NoMisreplay == misreplayed = {}

\* splitSegment and mergeSegment leave a row for each segment the walk over the
\* ids finds: no part of the hash space is without a token.
EverySegmentHasARow == \A s \in SegmentsOf(SegmentIds) : rows[s.id].there

\* No claim is left behind: what a node holds a worker works, or the operation
\* under way; an operation that is refused half-way gives everything back.
ClaimsAreWorked ==
  faults = 0 => \A i \in SegmentIds : rows[i].owner \in Node =>
    \/ Has(rows[i].owner, i)
    \/ op.node = rows[i].owner /\ \E h \in op.held : h.segment.id = i
=============================================================================
