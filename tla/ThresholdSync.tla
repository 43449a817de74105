---------------------------- MODULE ThresholdSync ----------------------------
(***************************************************************************)
(* ThresholdPolicy with a SQLite state_db: one policy in full (its         *)
(* in-memory history, its buffer of admissions not yet flushed and its     *)
(* background task) and any number of others on the same file, of which    *)
(* only the transactions can be noticed.                                   *)
(*                                                                         *)
(* evaluate records an admission under the history lock and queues it      *)
(* under another; sync_once takes an anchor, drains the queue, runs a      *)
(* transaction and merges. All of these interleave with each other, with   *)
(* the clock, with the others and with the end of the process, or of a     *)
(* policy that a reload superseded.                                        *)
(*                                                                         *)
(* Definitions whose comment begins with "Faulty" are not part of the      *)
(* specification: each is a mistake that one of the properties excludes.   *)
(***************************************************************************)
EXTENDS ThresholdPolicy, HistoryStore

LOCAL INSTANCE SequencesExt

CONSTANTS
  Identity,       \* the history keys
  BlastRadius,    \* the blast radii asked for
  MaxPerWindow, Window, MaxTracked,
  MaxNow,         \* bound on the clock
  MaxCalls,       \* bound on the evaluate calls, here and elsewhere
  MaxFaults,      \* bound on failures of the store and stops of the policy
  MaxLag,         \* bound on the age of an anchor another policy still uses
  MaxAge          \* bound on the age of an event another policy flushes

ASSUME SyncAssumption ==
  /\ Identity \subseteq Nat \ {0}
  /\ BlastRadius \subseteq Nat \ {0}
  /\ MaxPerWindow \in Nat /\ MaxTracked \in Nat \ {0}
  /\ Window \in Nat /\ Window % TicksPerMilli = 0
  /\ MaxNow \in Nat /\ MaxCalls \in Nat /\ MaxFaults \in Nat
  /\ MaxLag \in Nat /\ MaxAge \in Nat

VARIABLES
  now,            \* Instant::now()
  mode,           \* down, shared (state is Some) or alone (state is None)
  history,        \* ThresholdPolicy.history
  recorded,       \* evaluate calls between drop(history) and pending.lock()
  pending,        \* PersistentState.pending
  sync,           \* where sync_once is, and its local variables
  table,          \* the SQLite table
  calls, faults,
  granted,        \* history variable: every unit admitted, here or elsewhere
  ledger,         \* history variable: what this policy admitted since it
                  \* started or last evicted the identity
  stored,         \* history variable: the admitted units the table should hold
  seen            \* history variable: those a snapshot showed this policy, of
                  \* identities it did not evict since

local == <<history, recorded, pending, sync, ledger, seen>>
vars == <<now, mode, local, table, calls, faults, granted, stored>>

Config ==
  [maxPerRequest |-> MaxPerWindow, maxPerWindow |-> MaxPerWindow,
   window |-> Window, maxTracked |-> MaxTracked, operations |-> {"policed"}]

Idle == [pc |-> "idle", anchor |-> AnchorAt(0), drained |-> <<>>, rows |-> EmptyTable,
         holds |-> {}]

Nothing == [id \in Identity |-> <<>>]

\* The units of one admission. The code has the identity and the instant of
\* each; unit tells them apart for the history variables.
Units(id, at, call, n) == [i \in 1..n |-> [id |-> id, at |-> at, unit |-> <<call, i>>]]

\* The first instant of a run, from which no rounding leads below 1.
Begin == 2 * TicksPerMilli

\* The process is about to start, on an empty file.
Init ==
  /\ now = Begin
  /\ mode = "down"
  /\ history = EmptyHistory
  /\ recorded = {}
  /\ pending = <<>>
  /\ sync = Idle
  /\ table = EmptyTable
  /\ calls = 0 /\ faults = 0
  /\ granted = Nothing
  /\ ledger = Nothing
  /\ stored = {}
  /\ seen = {}

\* The history variables once the identities gone are evicted.
LedgerWithout(gone) == [id \in Identity |-> IF id \in gone THEN <<>> ELSE ledger[id]]
Without(events, gone) == {e \in events : e.id \notin gone}

-----------------------------------------------------------------------------
(* evaluate *)

\* evaluate up to drop(history).
Ask(id, n) ==
  LET r == Evaluate(Config, history, [operation |-> "policed", blastRadius |-> n], id, now)
      units == [i \in 1..r.recorded |-> now]
      gone == Tracked(history) \ Tracked(r.history)
  IN  /\ mode # "down"
      /\ calls < MaxCalls
      /\ calls' = calls + 1
      /\ history' = r.history
      /\ recorded' = IF r.recorded = 0 \/ mode = "alone" THEN recorded
                     ELSE recorded \cup {[id |-> id, at |-> now, count |-> r.recorded,
                                          call |-> calls]}
      /\ granted' = [granted EXCEPT ![id] = @ \o units]
      /\ ledger' = [LedgerWithout(gone) EXCEPT ![id] = @ \o units]
      /\ seen' = Without(seen, gone)
      /\ UNCHANGED <<now, mode, pending, sync, table, faults, stored>>

\* The rest of evaluate: one entry in pending per unit of blast radius.
PushPending(r) ==
  /\ recorded' = recorded \ {r}
  /\ pending' = pending \o Units(r.id, r.at, r.call, r.count)
  /\ UNCHANGED <<now, mode, history, sync, table, calls, faults, granted, ledger, stored, seen>>

-----------------------------------------------------------------------------
(* sync_once, at a tick of the flush interval *)

\* Anchor::now(), before pending is locked.
TakeAnchor ==
  /\ mode = "shared"
  /\ sync.pc = "idle"
  /\ sync' = [Idle EXCEPT !.pc = "anchored", !.anchor = AnchorAt(now)]
  /\ UNCHANGED <<now, mode, history, recorded, pending, table, calls, faults, granted, ledger,
                 stored, seen>>

\* Faulty: a cycle with nothing to flush goes no further.
DrainIfPending ==
  /\ sync.pc = "anchored"
  /\ sync' = IF pending = <<>> THEN Idle ELSE [sync EXCEPT !.pc = "drained", !.drained = pending]
  /\ pending' = <<>>
  /\ UNCHANGED <<now, mode, history, recorded, table, calls, faults, granted, ledger, stored, seen>>

\* mem::take(pending). What was queued since the anchor is later than it.
Drain ==
  /\ sync.pc = "anchored"
  /\ sync' = [sync EXCEPT !.pc = "drained", !.drained = pending]
  /\ pending' = <<>>
  /\ UNCHANGED <<now, mode, history, recorded, table, calls, faults, granted, ledger, stored, seen>>

\* new_events: the drained events as rows.
NewEvents(anchor, drained) ==
  [i \in 1..Len(drained) |-> <<drained[i].id, ToEpochMillis(anchor, drained[i].at)>>]

\* The units a table should hold once drained is added to those before: the
\* ones in the window, but for the identities it has no room for.
Holding(t, anchor, drained) ==
  {e \in stored \cup Range(drained) :
     /\ ~Stale(e.at, anchor.instant, Window)
     /\ e.id \in Identities(t) \/ Cardinality(Identities(t)) < MaxTracked}

\* The tables a transaction with these events may leave.
Outcomes(anchor, drained) ==
  BlockingSync(table, NewEvents(anchor, drained), EpochMillisBefore(anchor, Window), MaxTracked)

Commit(anchor, drained, t) ==
  /\ table' = t
  /\ stored' = Holding(t, anchor, drained)

\* The transaction of this cycle; its snapshot is on its way to the merge.
StoreSync ==
  /\ sync.pc = "drained"
  /\ UNCHANGED <<now, mode, history, recorded, pending, calls, faults, granted, ledger, seen>>
  /\ \E t \in Outcomes(sync.anchor, sync.drained) :
       /\ Commit(sync.anchor, sync.drained, t)
       /\ sync' = [sync EXCEPT !.pc = "fetched", !.drained = <<>>, !.rows = t,
                               !.holds = stored']

\* The transaction fails and is rolled back. The drained events are gone.
StoreFails ==
  /\ sync.pc = "drained"
  /\ faults < MaxFaults
  /\ faults' = faults + 1
  /\ sync' = Idle
  /\ UNCHANGED <<now, mode, history, recorded, pending, table, calls, granted, ledger, stored, seen>>

\* History::set for each identity of new. What it removes from the index is
\* the key of the deque as it is, which prune_stale may have changed.
SetAll(h, new) ==
  LET ids == DOMAIN new
      full == {id \in ids : new[id] # <<>>}
  IN  [byIdentity |-> [id \in (Tracked(h) \ ids) \cup full |->
                         IF id \in full THEN new[id] ELSE h.byIdentity[id]],
       byActivity |-> (h.byActivity \ {<<ActivityKey(h.byIdentity[id]), id>> :
                                         id \in ids \cap Tracked(h)})
                        \cup {<<ActivityKey(new[id]), id>> : id \in full}]

Sorted(ts) == SortSeq(ts, <)

\* The instants of some of a snapshot's rows, as far as they are in the window.
Instants(anchor, rows, t) ==
  LET some == SetToSeq(rows)
      all == [i \in 1..Len(some) |-> ToInstant(anchor, some[i].millis)]
  IN  SelectSeq(all, LAMBDA i : ~Stale(i, t, Window))

RowsOf(rows, id) == {r \in rows : r.id = id}

\* Of the rows of one millisecond the merge takes in the first.
Distinct(rows) == {r \in rows : r.copy = 1}

\* Faulty: an identity's entry is replaced by its rows.
ReplaceHistoryFromRows(h, anchor, rows, t) ==
  SetAll(h, [id \in Identities(rows) |->
               Sorted(Instants(anchor, Distinct(RowsOf(rows, id)), t))])

\* merge_history_from_rows: what the identity's deque holds in the window,
\* and the rows whose millisecond nothing in it has.
MergeHistoryFromRows(h, anchor, rows, t) ==
  LET existing(id) == IF id \in Tracked(h)
                        THEN SelectSeq(h.byIdentity[id], LAMBDA i : ~Stale(i, t, Window))
                        ELSE <<>>
      known(id) == {ToEpochMillis(anchor, i) : i \in Range(existing(id))}
      other(id) == {r \in Distinct(RowsOf(rows, id)) : r.millis \notin known(id)}
  IN  SetAll(h, [id \in Identities(rows) |->
                   Sorted(existing(id) \o Instants(anchor, other(id), t))])

\* The snapshot is folded into the history, under the history lock.
Merge ==
  /\ sync.pc = "fetched"
  /\ sync' = Idle
  /\ \E merged \in {MergeHistoryFromRows(history, sync.anchor, sync.rows, now)} :
       \E kept \in {EvictStalestUntil(merged, MaxTracked)} :
         LET gone == Tracked(merged) \ Tracked(kept)
         IN  /\ history' = kept
             /\ ledger' = LedgerWithout(gone)
             /\ seen' = Without(seen \cup sync.holds, gone)
  /\ UNCHANGED <<now, mode, recorded, pending, table, calls, faults, granted, stored>>

-----------------------------------------------------------------------------
(* The lifetime of the policy, and the others *)

\* The process ends, or the last reference to a superseded policy is dropped
\* and the task no longer upgrades its Weak. Nothing is flushed.
Stop ==
  /\ mode # "down"
  /\ faults < MaxFaults
  /\ faults' = faults + 1
  /\ mode' = "down"
  /\ history' = EmptyHistory
  /\ recorded' = {}
  /\ pending' = <<>>
  /\ sync' = Idle
  /\ ledger' = Nothing
  /\ seen' = {}
  /\ UNCHANGED <<now, table, calls, granted, stored>>

\* rows_into_history: every row counts, those of one millisecond included.
RowsIntoHistory(anchor, rows, t) ==
  SetAll(EmptyHistory, [id \in Identities(rows) |->
                          Sorted(Instants(anchor, RowsOf(rows, id), t))])

\* ThresholdPolicy::new opens the file, prunes it and loads what is left.
Start ==
  /\ mode = "down"
  /\ mode' = "shared"
  /\ \E t \in Outcomes(AnchorAt(now), <<>>) :
       LET loaded == RowsIntoHistory(AnchorAt(now), t, now)
           kept == EvictStalestUntil(loaded, MaxTracked)
       IN  /\ Commit(AnchorAt(now), <<>>, t)
           /\ history' = kept
           /\ seen' = Without(stored', Tracked(loaded) \ Tracked(kept))
  /\ UNCHANGED <<now, recorded, pending, sync, calls, faults, granted, ledger>>

\* The file opens but cannot be read, or does not open at all: the policy
\* starts empty, and in the second case stays on its own.
StartFails(m) ==
  /\ mode = "down"
  /\ faults < MaxFaults
  /\ faults' = faults + 1
  /\ mode' = m
  /\ UNCHANGED <<now, local, table, calls, granted, stored>>

\* Another policy starts, or syncs with nothing new: a transaction under its
\* own anchor, taken somewhat earlier.
OtherPrunes ==
  /\ \E a \in (now - MaxLag)..now :
       \E t \in Outcomes(AnchorAt(a), <<>>) : Commit(AnchorAt(a), <<>>, t)
  /\ UNCHANGED <<now, mode, local, calls, faults, granted>>

\* Another policy flushes n units it admitted under id, before its anchor or
\* between the anchor and the drain.
OtherSyncs(id, n) ==
  /\ calls < MaxCalls
  /\ calls' = calls + 1
  /\ \E a \in (now - MaxLag)..now : \E at \in Max({Begin, now - MaxAge})..now :
       LET drained == Units(id, at, calls, n)
       IN  /\ \E t \in Outcomes(AnchorAt(a), drained) : Commit(AnchorAt(a), drained, t)
           /\ granted' = [granted EXCEPT ![id] = @ \o [i \in 1..n |-> at]]
  /\ UNCHANGED <<now, mode, local, faults>>

Tick ==
  /\ now < MaxNow
  /\ now' = now + 1
  /\ UNCHANGED <<mode, local, table, calls, faults, granted, stored>>

Next ==
  \/ \E id \in Identity, n \in BlastRadius : Ask(id, n) \/ OtherSyncs(id, n)
  \/ \E r \in recorded : PushPending(r)
  \/ TakeAnchor \/ Drain \/ StoreSync \/ StoreFails \/ Merge
  \/ Start \/ Stop
  \/ \E m \in {"shared", "alone"} : StartFails(m)
  \/ OtherPrunes
  \/ Tick

\* The interval ticks for as long as the policy lives, spawn_blocking and the
\* task that awaits it are run. Nobody has to ask, to stop or to start.
Fairness == WF_vars(TakeAnchor \/ Drain \/ StoreSync \/ Merge)

Spec == Init /\ [][Next]_vars /\ Fairness

-----------------------------------------------------------------------------
(* Properties *)

Event == [id : Identity, at : Instant, unit : (0..MaxCalls) \X Nat]

\* Every history, buffer and snapshot holds instants or milliseconds of the
\* identities, and a policy that is down holds nothing.
TypeOK ==
  /\ now \in Instant
  /\ mode \in {"down", "shared", "alone"}
  /\ calls \in 0..MaxCalls /\ faults \in 0..MaxFaults
  /\ Tracked(history) \subseteq Identity
  /\ history.byIdentity \in [Tracked(history) -> Seq(Instant)]
  /\ history.byActivity \subseteq Nat \X Identity
  /\ recorded \subseteq [id : Identity, at : Instant, count : BlastRadius, call : 0..MaxCalls]
  /\ pending \in Seq(Event)
  /\ sync.pc \in {"idle", "anchored", "drained", "fetched"}
  /\ seen \subseteq Event
  /\ ledger \in [Identity -> Seq(Instant)]
  /\ mode = "down" => history = EmptyHistory /\ sync = Idle
  /\ table \subseteq [id : Identity, millis : Nat, copy : Nat \ {0}]
  /\ stored \subseteq Event
  /\ granted \in [Identity -> Seq(Instant)]

\* max_tracked_identities bounds the file and the in-memory map, whatever the
\* policies write to the file and take in from it.
StoreAndMapsBounded ==
  /\ Cardinality(Identities(table)) <= MaxTracked
  /\ Cardinality(Tracked(history)) <= MaxTracked

Occurrences(ts, t) == Cardinality({i \in 1..Len(ts) : ts[i] = t})

Deque(id) == IF id \in Tracked(history) THEN history.byIdentity[id] ELSE <<>>

\* "a wholesale replace would silently erase" it (sync_once): whatever a merge
\* folds in, each unit the policy admitted itself keeps counting until it
\* leaves the window or its identity is evicted, also when it was admitted
\* in the middle of a sync and when its flush failed.
OwnAdmissionsCount ==
  \A id \in Identity :
    \A i \in 1..Len(ledger[id]) :
      LET t == ledger[id][i]
      IN  Stale(t, now, Window)
            \/ Occurrences(Deque(id), t) >= Occurrences(ledger[id], t)

\* How far a trip through the file can move an event. The anchor's millisecond
\* and the distance to it are truncated when the row is made, and another
\* anchor's millisecond when it is read. For an event later than its anchor
\* the first two both make it earlier.
Rounding == 2 * TicksPerMilli - 2

\* How far apart two events can be that the merge takes for one, because the
\* row of the one and the instant of the other come to the same millisecond.
Matching == 3 * TicksPerMilli - 3

\* The history has an event that may stand for this one.
Counts(id, at) ==
  \E i \in 1..Len(Deque(id)) : Deque(id)[i] \in (at - Matching)..(at + Matching)

\* What a snapshot showed the policy, at a sync or when it started, counts
\* from then on: merges, prunes and cleanups by others lose it only when it
\* leaves the window or its identity is evicted. The merge goes by the
\* millisecond, so what counts may be an event that shares its.
SeenAdmissionsCount ==
  \A e \in seen : Stale(e.at - Matching, now, Window) \/ Counts(e.id, e.at)

\* However often an event travels through the file and back, under however
\* many anchors, what a history holds is the time of an admission of the
\* identity, give or take less than two milliseconds: conversions do not add
\* up, and no event turns up for an identity that was granted none. (Early by
\* a whole millisecond is an event queued between Anchor::now() and the drain.)
OnlyAdmissionsCount ==
  \A id \in Tracked(history) :
    \A i \in 1..Len(Deque(id)) :
      \E g \in 1..Len(granted[id]) :
        Deque(id)[i] \in (granted[id][g] - Rounding)..(granted[id][g] + Rounding)

\* Once no more is admitted, a policy that goes on running comes to count what
\* is in the file, whoever wrote it, each admission by an event of about its
\* millisecond: but for what leaves the window, and what the policy's own map,
\* full of others, has no room for. spawn_background_sync keeps sharing the
\* budget, also after failed syncs and restarts, and with nothing of its own
\* to flush. (How many units of a burst count is SeenCountInFull's question.)
Converges ==
  []<>(mode = "shared" =>
         \A e \in stored :
           \/ Counts(e.id, e.at)
           \/ Stale(e.at - Matching, now, Window)
           \/ e.id \notin Tracked(history) /\ Cardinality(Tracked(history)) = MaxTracked)

\* "each see the other's admitted actions within one `flush_interval` [...] a
\* real, if eventually-consistent, shared budget" (ARCHITECTURE.md): of the
\* units a snapshot showed the policy, as many count as are in the window.
SeenCountInFull ==
  \A id \in Identity :
    Cardinality({e \in seen : e.id = id /\ ~Stale(e.at - Rounding, now, Window)})
      <= Len(Deque(id))

\* "a plain union without dedup would double-count it every cycle"
\* (merge_history_from_rows): the policy counts no more units for an identity
\* than were ever admitted for it, here and elsewhere.
NeverCountedTwice ==
  \A id \in Identity : Len(Deque(id)) <= Len(granted[id])
==============================================================================
