------------------------------ MODULE Threshold ------------------------------
(***************************************************************************)
(* One ThresholdPolicy without a state_db, asked by any number of          *)
(* connections. evaluate holds the history mutex from the lookup to the    *)
(* record and reads the clock under it, so a call is one step.             *)
(***************************************************************************)
EXTENDS ThresholdPolicy

CONSTANTS
  Identity,       \* the history keys callers are evaluated under
  Action,         \* the actions callers ask for
  Policed,        \* config.operations
  MaxPerRequest, MaxPerWindow, Window,
  MaxTracked,     \* config.max_tracked_identities
  MaxNow          \* bound on the clock

ASSUME ConfigAssumption ==
  /\ Identity \subseteq Nat
  /\ \A a \in Action : a.blastRadius \in Nat
  /\ MaxPerRequest \in Nat
  /\ MaxPerWindow \in Nat
  /\ Window \in Nat
  /\ MaxTracked \in Nat
  /\ MaxNow \in Nat

VARIABLES
  now,            \* Instant::now()
  history,        \* ThresholdPolicy.history
  decision,       \* the last request and its Decision
  ledger          \* history variable: all that was granted to each identity
                  \* since the policy last began to track it

vars == <<now, history, decision, ledger>>

Config ==
  [maxPerRequest |-> MaxPerRequest, maxPerWindow |-> MaxPerWindow,
   window |-> Window, maxTracked |-> MaxTracked, operations |-> Policed]

NoDecision == [id |-> 0, action |-> <<>>, allow |-> FALSE]

Init ==
  /\ now = 1
  /\ history = EmptyHistory
  /\ decision = NoDecision
  /\ ledger = <<>>

\* A connection asks for an action under identity id.
Ask(id, a) ==
  LET r == Evaluate(Config, history, a, id, now)
  IN  /\ history' = r.history
      /\ decision' = [id |-> id, action |-> a, allow |-> r.allow]
      /\ ledger' = [i \in Tracked(r.history) |->
                      (IF i \in DOMAIN ledger THEN ledger[i] ELSE <<>>)
                        \o [n \in 1..(IF i = id THEN r.recorded ELSE 0) |-> now]]
      /\ UNCHANGED now

Tick ==
  /\ now < MaxNow
  /\ now' = now + 1
  /\ UNCHANGED <<history, decision, ledger>>

Next ==
  \/ \E id \in Identity, a \in Action : Ask(id, a)
  \/ Tick

Spec == Init /\ [][Next]_vars

-----------------------------------------------------------------------------
(* Properties *)

\* History maps identities to deques of past instants and indexes identities
\* by an optional instant; the ledger is kept for the tracked identities.
TypeOK ==
  /\ now \in Instant
  /\ Tracked(history) \subseteq Identity
  /\ history.byIdentity \in [Tracked(history) -> Seq(Instant)]
  /\ history.byActivity \subseteq Nat \X Identity
  /\ ledger \in [Tracked(history) -> Seq(Instant)]

\* max_tracked_identities bounds the map whatever identities ask, with the
\* one exception of a limit of 0, where saturating_sub leaves room for one.
TrackedBounded ==
  Cardinality(Tracked(history)) <= IF MaxTracked = 0 THEN 1 ELSE MaxTracked

\* The eviction loop of evict_stalest_until never runs out of index entries
\* while it still has an identity to evict, although prune_stale and
\* record_admitted leave entries behind and move them independently.
IndexCoversTracked ==
  \A id \in Tracked(history) : \E e \in history.byActivity : e[2] = id

\* prune_stale and the evictions of others forget nothing that still counts:
\* the deque of a tracked identity is the end of all it was granted, and what
\* was popped off its front is out of the window for good.
WindowKeepsRecent ==
  \A id \in Tracked(history) :
    LET kept == history.byIdentity[id]
        popped == Len(ledger[id]) - Len(kept)
    IN  /\ popped >= 0
        /\ \A j \in 1..Len(kept) : kept[j] = ledger[id][popped + j]
        /\ \A i \in 1..popped : Stale(ledger[id][i], now, Window)

\* The sliding window: whatever the interleaving of callers, ticks, prunes and
\* evictions of others, any MaxPerWindow + 1 consecutive units granted to an
\* identity that stays tracked span more than Window.
WindowBudget ==
  \A id \in DOMAIN ledger : \A i \in 1..(Len(ledger[id]) - MaxPerWindow) :
    ledger[id][i + MaxPerWindow] - ledger[id][i] > Window

\* evaluate decides exactly as a policy that counts every grant of the last
\* Window, and forgets an identity only to make room for a new one.
ImplementsBudget == INSTANCE Budget

BudgetSpec == ImplementsBudget!Spec

\* The last recorded activity of a tracked identity.
LastActivity(id) == ActivityKey(history.byIdentity[id])

\* "Evicts the identity with the least recently recorded activity"
\* (evict_stalest_until): whoever is evicted was last active no later than
\* whoever stays.
EvictsLeastRecentlyActive ==
  [][\A gone \in Tracked(history) \ Tracked(history)' :
       \A kept \in Tracked(history) \cap Tracked(history)' :
         LastActivity(gone) <= LastActivity(kept)]_vars
==============================================================================
