------------------------------- MODULE Budget -------------------------------
(***************************************************************************)
(* What a threshold policy promises its operator, without deques, indexes  *)
(* or pruning: every policed request is decided by counting what its       *)
(* identity was granted in the last Window, and only a lack of room for a  *)
(* new identity may make the policy forget what it granted to another.     *)
(***************************************************************************)
EXTENDS Integers, Sequences, FiniteSets

CONSTANTS
  Identity,       \* the callers, as natural numbers
  Action,         \* what they may ask for
  Policed,        \* the operations the policy is configured for
  MaxPerRequest,
  MaxPerWindow,
  Window,
  MaxTracked,     \* config.max_tracked_identities
  MaxNow          \* bound on the clock

VARIABLES
  now,
  ledger,         \* identity |-> the instants of all it was granted
  decision        \* the last request and whether it was allowed

vars == <<now, ledger, decision>>

NoDecision == [id |-> 0, action |-> <<>>, allow |-> FALSE]

Init ==
  /\ now = 1
  /\ ledger = <<>>
  /\ decision = NoDecision

InWindow(granted) ==
  Cardinality({i \in 1..Len(granted) : now - granted[i] <= Window})

\* The room a new identity needs others to leave.
Others == IF MaxTracked = 0 THEN 0 ELSE MaxTracked - 1

\* The sets of identities that may be forgotten when id asks.
Forgettable(id) ==
  {F \in SUBSET (DOMAIN ledger) :
     /\ id \in DOMAIN ledger \/ Cardinality(DOMAIN ledger) <= Others => F = {}
     /\ id \notin DOMAIN ledger => Cardinality(DOMAIN ledger \ F) <= Others}

Answer(id, a, allow) == decision' = [id |-> id, action |-> a, allow |-> allow]

\* A request of a kind the policy does not police costs nothing.
Bypass(id, a) ==
  /\ a.operation \notin Policed
  /\ Answer(id, a, TRUE)
  /\ UNCHANGED <<now, ledger>>

TooLarge(id, a) ==
  /\ a.operation \in Policed
  /\ a.blastRadius > MaxPerRequest
  /\ Answer(id, a, FALSE)
  /\ UNCHANGED <<now, ledger>>

Decide(id, a) ==
  /\ a.operation \in Policed
  /\ a.blastRadius <= MaxPerRequest
  /\ \E F \in Forgettable(id) :
       LET kept == [i \in (DOMAIN ledger \ F) \cup {id} |->
                      IF i \in DOMAIN ledger THEN ledger[i] ELSE <<>>]
           fits == InWindow(kept[id]) + a.blastRadius <= MaxPerWindow
       IN  /\ Answer(id, a, fits)
           /\ ledger' = IF fits
                        THEN [kept EXCEPT ![id] = @ \o [n \in 1..a.blastRadius |-> now]]
                        ELSE kept
  /\ UNCHANGED now

Tick ==
  /\ now < MaxNow
  /\ now' = now + 1
  /\ UNCHANGED <<ledger, decision>>

Next ==
  \/ \E id \in Identity, a \in Action : Bypass(id, a) \/ TooLarge(id, a) \/ Decide(id, a)
  \/ Tick

Spec == Init /\ [][Next]_vars
==============================================================================
