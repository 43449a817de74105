--------------------------- MODULE ThresholdPolicy ---------------------------
(***************************************************************************)
(* The in-memory half of core/policy/threshold.rs as operators: the        *)
(* History struct, with its secondary eviction index, and the decision     *)
(* ThresholdPolicy::evaluate takes on it while it holds the history lock.  *)
(*                                                                         *)
(* Instants are positive integers and an identity is a natural number: the *)
(* only things the code does with an Identity are to compare it for        *)
(* equality and, inside the index, to order it.                            *)
(*                                                                         *)
(* Some operators are preceded by a faulty variant of themselves, which    *)
(* only serves to see that the properties notice the fault.                *)
(***************************************************************************)
EXTENDS Integers, Sequences, FiniteSets

\* Option<Instant>::None, which sorts below every Some(instant).
None == 0

Instant == Nat \ {0}

EmptyHistory == [byIdentity |-> <<>>, byActivity |-> {}]

\* The key by_activity should hold for an identity with these timestamps.
ActivityKey(ts) == IF ts = <<>> THEN None ELSE ts[Len(ts)]

\* The order of the BTreeSet<(Option<Instant>, Identity)>.
Before(a, b) == a[1] < b[1] \/ (a[1] = b[1] /\ a[2] < b[2])

Tracked(h) == DOMAIN h.byIdentity

StaleAtTheEdge(t, now, window) == now - t >= window

Stale(t, now, window) == now - t > window

\* How many timestamps the loop of prune_stale pops off the front.
StalePrefix(ts, now, window) ==
  CHOOSE k \in 0..Len(ts) :
    /\ \A i \in 1..k : Stale(ts[i], now, window)
    /\ k < Len(ts) => ~Stale(ts[k + 1], now, window)

WindowLen(h, id) == IF id \in Tracked(h) THEN Len(h.byIdentity[id]) ELSE 0

Ensure(h, id) ==
  IF id \in Tracked(h) THEN h
  ELSE [byIdentity |-> [i \in Tracked(h) \cup {id} |->
                          IF i = id THEN <<>> ELSE h.byIdentity[i]],
        byActivity |-> h.byActivity \cup {<<None, id>>}]

PruneFromBack(h, id, now, window) ==
  [byIdentity |-> [h.byIdentity EXCEPT ![id] =
                     SubSeq(@, 1, Len(@) - StalePrefix(@, now, window))],
   byActivity |-> h.byActivity]

\* The index is left alone, also when the last timestamp goes.
PruneStale(h, id, now, window) ==
  [byIdentity |-> [h.byIdentity EXCEPT ![id] =
                     SubSeq(@, StalePrefix(@, now, window) + 1, Len(@))],
   byActivity |-> h.byActivity]

RecordWithoutReindex(h, id, now, count) ==
  [byIdentity |-> [h.byIdentity EXCEPT ![id] = @ \o [i \in 1..count |-> now]],
   byActivity |-> h.byActivity \ {<<ActivityKey(h.byIdentity[id]), id>>}]

RecordOldKey(h, id, now, count) ==
  LET old == ActivityKey(h.byIdentity[id])
  IN  [byIdentity |-> [h.byIdentity EXCEPT ![id] = @ \o [i \in 1..count |-> old]],
       byActivity |-> (h.byActivity \ {<<old, id>>}) \cup {<<now, id>>}]

RecordAdmitted(h, id, now, count) ==
  LET old == ActivityKey(h.byIdentity[id])
  IN  [byIdentity |-> [h.byIdentity EXCEPT ![id] = @ \o [i \in 1..count |-> now]],
       byActivity |-> IF old = now THEN h.byActivity
                      ELSE (h.byActivity \ {<<old, id>>}) \cup {<<now, id>>}]

\* The loop removes index entries in ascending order for as long as more than
\* target identities are left. An entry therefore goes exactly when removing
\* all the entries before it would still leave too many.
EvictStalestUntil(h, target) ==
  LET left(gone) == Tracked(h) \ {e[2] : e \in gone}
      evicted == {e \in h.byActivity :
                    Cardinality(left({x \in h.byActivity : Before(x, e)})) > target}
  IN  [byIdentity |-> [i \in left(evicted) |-> h.byIdentity[i]],
       byActivity |-> h.byActivity \ evicted]

Unchanged(n) == n

\* usize::saturating_sub(1)
SaturatingPred(n) == IF n = 0 THEN 0 ELSE n - 1

PrepareWithoutPrune(c, h, id, now) ==
  Ensure(IF id \in Tracked(h) THEN h
         ELSE EvictStalestUntil(h, SaturatingPred(c.maxTracked)), id)

\* What evaluate does to the history before it compares the window with the
\* budget: make room for an identity it does not track, enter it, prune it.
Prepare(c, h, id, now) ==
  LET room == IF id \in Tracked(h) THEN h
              ELSE EvictStalestUntil(h, SaturatingPred(c.maxTracked))
  IN  PruneStale(Ensure(room, id), id, now, c.window)

\* GLOBAL_HISTORY_KEY, no caller's identity.
GlobalHistoryKey == 0

PerCallerAlways(c, id) == id

\* The bucket an action is counted in.
HistoryKey(c, id) == IF c.scope = "Global" THEN GlobalHistoryKey ELSE id

\* ThresholdPolicy::evaluate up to drop(history): the decision, the history it
\* leaves and how many timestamps it recorded. c is the ThresholdConfig, a the
\* Action and id the history_key.
Evaluate(c, h, a, id, now) ==
  IF a.operation \notin c.operations
    THEN [allow |-> TRUE, history |-> h, recorded |-> 0]
  ELSE IF a.blastRadius > c.maxPerRequest
    THEN [allow |-> FALSE, history |-> h, recorded |-> 0]
  ELSE LET p == Prepare(c, h, id, now)
       IN  IF WindowLen(p, id) + a.blastRadius > c.maxPerWindow
             THEN [allow |-> FALSE, history |-> p, recorded |-> 0]
             ELSE [allow |-> TRUE,
                   history |-> RecordAdmitted(p, id, now, a.blastRadius),
                   recorded |-> a.blastRadius]
==============================================================================
