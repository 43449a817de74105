--------------------------- MODULE ThresholdProofs ---------------------------
(***************************************************************************)
(* Proofs about Threshold, for any set of identities and any limits: the   *)
(* history map stays bounded and indexed, its deques keep what still       *)
(* counts, and no identity is granted more than MaxPerWindow per Window.   *)
(***************************************************************************)
EXTENDS Threshold, ThresholdPolicyProofs

\* The inductive invariant. WindowBudget alone is not inductive: it says
\* nothing of the deque evaluate counts, so the invariant also ties the deque
\* to the ledger (LedgerOK), and the map to its index (HistoryOK), which is
\* what makes the eviction loop reach its target.
IInv ==
  /\ now \in Instant
  /\ HistoryOK(history, Identity)
  /\ Cardinality(Tracked(history)) <= Cap(Config)
  /\ LedgerOK(Config, history, ledger, now)

\* The configuration record has the limits the constants give it.
LEMMA ConfigFields ==
  /\ Config.window = Window
  /\ Config.maxPerWindow = MaxPerWindow
  /\ Config.maxTracked = MaxTracked
  /\ Window \in Nat /\ MaxPerWindow \in Nat /\ MaxTracked \in Nat
  /\ Identity \subseteq Nat
BY ConfigAssumption DEF Config

\* A new policy starts with an empty history.
LEMMA InitIInv == Init => IInv
<1> SUFFICES ASSUME Init PROVE IInv
  OBVIOUS
<1>1. Tracked(history) = {} /\ history.byIdentity = <<>> /\ history.byActivity = {}
  BY DEF Init, EmptyHistory, Tracked
<1>2. IsFiniteSet({}) /\ Cardinality({}) = 0
  BY FS_EmptySet
<1>3. HistoryOK(history, Identity)
  BY <1>1, <1>2 DEF HistoryOK
<1>4. Cardinality(Tracked(history)) <= Cap(Config)
  BY <1>1, <1>2, ConfigFields DEF Cap
<1>5. LedgerOK(Config, history, ledger, now)
  BY <1>1 DEF LedgerOK, Init
<1> QED
  BY <1>3, <1>4, <1>5 DEF IInv, Init, Instant

\* evaluate preserves the invariant: EvaluateCorrect, with the ledger of Ask.
LEMMA AskIInv ==
  ASSUME IInv, NEW id \in Identity, NEW a \in Action, Ask(id, a)
  PROVE  IInv'
<1> DEFINE r == Evaluate(Config, history, a, id, now)
           after == [i \in Tracked(r.history) |->
                       (IF i \in DOMAIN ledger THEN ledger[i] ELSE <<>>)
                         \o Copies(IF i = id THEN r.recorded ELSE 0, now)]
<1>1. history' = r.history /\ ledger' = after /\ now' = now
  BY DEF Ask, Copies
<1>2. a.blastRadius \in Nat
  BY ConfigAssumption
<1>3. /\ HistoryOK(r.history, Identity)
      /\ Cardinality(Tracked(r.history)) <= Cap(Config)
      /\ LedgerOK(Config, r.history, after, now)
  BY <1>2, ConfigFields, EvaluateCorrect DEF IInv
<1> HIDE DEF r, after
<1> QED
  BY <1>1, <1>3 DEF IInv, Tracked, HistoryOK, LedgerOK, Cap, Config

\* The passing of time makes nothing stale again count.
LEMMA TickIInv == IInv /\ Tick => IInv'
<1> SUFFICES ASSUME IInv, Tick PROVE IInv'
  OBVIOUS
<1>1. now \in Nat /\ now' = now + 1 /\ history' = history /\ ledger' = ledger
  BY DEF IInv, Tick, Instant
<1>2. ASSUME NEW id \in Tracked(history)
      PROVE  KeepsRecent(history.byIdentity[id], ledger[id], now + 1, Window)
  <2> DEFINE kept == history.byIdentity[id]
             granted == ledger[id]
  <2>1. /\ KeepsRecent(kept, granted, now, Window)
        /\ kept \in Seq(Instant) /\ granted \in Seq(Instant)
    BY ConfigFields DEF IInv, LedgerOK, HistoryOK
  <2> HIDE DEF kept, granted
  <2>2. \A i \in 1..(Len(granted) - Len(kept)) : granted[i] \in Nat
    <3>1. Len(granted) - Len(kept) <= Len(granted)
      BY <2>1
    <3> QED
      BY <2>1, <3>1, ElementOfSeq DEF Instant
  <2>3. \A i \in 1..(Len(granted) - Len(kept)) : Stale(granted[i], now + 1, Window)
    BY <1>1, <2>1, <2>2, ConfigFields DEF KeepsRecent, Stale
  <2> QED
    BY <2>1, <2>3 DEF KeepsRecent, kept, granted
<1>3. LedgerOK(Config, history, ledger, now + 1)
  BY <1>2, ConfigFields DEF IInv, LedgerOK
<1> QED
  BY <1>1, <1>3 DEF IInv, Instant, HistoryOK, Tracked, LedgerOK, Cap, Config

\* The invariant holds in every reachable state.
THEOREM Invariance == Spec => []IInv
<1>1. IInv /\ [Next]_vars => IInv'
  <2> SUFFICES ASSUME IInv, [Next]_vars PROVE IInv'
    OBVIOUS
  <2>1. CASE \E id \in Identity, a \in Action : Ask(id, a)
    BY <2>1, AskIInv
  <2>2. CASE Tick
    BY <2>2, TickIInv
  <2>3. CASE UNCHANGED vars
    BY <2>3 DEF IInv, vars, HistoryOK, Tracked, LedgerOK, Cap, Config
  <2> QED
    BY <2>1, <2>2, <2>3 DEF Next
<1> QED
  BY <1>1, InitIInv, PTL DEF Spec

\* History and its index keep their types under every sequence of calls.
THEOREM TypeCorrect == Spec => []TypeOK
<1>1. IInv => TypeOK
  BY DEF IInv, TypeOK, HistoryOK, LedgerOK
<1> QED
  BY <1>1, Invariance, PTL

\* evict_stalest_until keeps the map within max_tracked_identities although
\* its index holds stale entries.
THEOREM Bounded == Spec => [](TrackedBounded /\ IndexCoversTracked)
<1>1. IInv => TrackedBounded /\ IndexCoversTracked
  BY ConfigFields DEF IInv, TrackedBounded, IndexCoversTracked, HistoryOK, Cap
<1> QED
  BY <1>1, Invariance, PTL

\* prune_stale forgets nothing that still counts.
THEOREM KeepsWhatCounts == Spec => []WindowKeepsRecent
<1>1. IInv => WindowKeepsRecent
  BY ConfigFields DEF IInv, WindowKeepsRecent, LedgerOK, KeepsRecent
<1> QED
  BY <1>1, Invariance, PTL

\* No identity that stays tracked is granted more than max_per_window units
\* of blast radius within any window.
THEOREM WithinBudget == Spec => []WindowBudget
<1>1. IInv => WindowBudget
  BY ConfigFields DEF IInv, WindowBudget, LedgerOK, Spaced
<1> QED
  BY <1>1, Invariance, PTL
==============================================================================
