----------------------------- MODULE PolicyChain -----------------------------
(***************************************************************************)
(* evaluate_all (core/policy.rs): the ordered policies of a [[proxy]]      *)
(* entry, asked by several connections at once. Every policy locks its own *)
(* history, so the evaluations of two connections interleave between the   *)
(* policies, and time passes while they do.                                *)
(***************************************************************************)
EXTENDS ThresholdPolicy

CONSTANTS
  Conn,           \* connection tasks
  Identity,       \* their identities, positive numbers
  Action,         \* the actions they ask for
  Policies,       \* the sequence of ThresholdConfigs
  MaxAsked,       \* bound on the number of requests
  MaxNow          \* bound on the clock

ASSUME ChainAssumption ==
  /\ Identity \subseteq Nat \ {GlobalHistoryKey}
  /\ \A a \in Action : a.blastRadius \in Nat
  /\ MaxAsked \in Nat /\ MaxNow \in Nat

VARIABLES
  now,
  history,        \* the history of each policy
  request,        \* what each connection is having evaluated
  asked,          \* how many requests there were
  forwarded       \* history variable: the units granted to requests that all
                  \* policies allowed, as [policy, id, time], by policies
                  \* that have not evicted the identity since

vars == <<now, history, request, asked, forwarded>>

Idle == [state |-> "idle", spent |-> <<>>]

Init ==
  /\ now = 1
  /\ history = [p \in 1..Len(Policies) |-> EmptyHistory]
  /\ request = [c \in Conn |-> Idle]
  /\ asked = 0
  /\ forwarded = <<>>

\* A connection calls evaluate_all.
Start(c, id, a) ==
  /\ request[c].state # "evaluating"
  /\ asked < MaxAsked
  /\ request' = [request EXCEPT ![c] =
       [state |-> "evaluating", id |-> id, action |-> a, next |-> 1, spent |-> <<>>]]
  /\ asked' = asked + 1
  /\ UNCHANGED <<now, history, forwarded>>

\* The loop body: the next policy evaluates, and the first block ends the loop.
\* What it evicts to make room no longer counts, and leaves the history
\* variables.
EvaluateNext(c) ==
  LET r == request[c]
      p == r.next
      key == HistoryKey(Policies[p], r.id)
      verdict == Evaluate(Policies[p], history[p], r.action, key, now)
      unit == [policy |-> p, id |-> r.id, time |-> now]
      gone == Tracked(history[p]) \ Tracked(verdict.history)
      kept(units) == SelectSeq(units, LAMBDA u :
                       ~(u.policy = p /\ HistoryKey(Policies[p], u.id) \in gone))
  IN  /\ r.state = "evaluating"
      /\ p <= Len(Policies)
      /\ history' = [history EXCEPT ![p] = verdict.history]
      /\ request' = [d \in Conn |->
           IF d # c THEN [request[d] EXCEPT !.spent = kept(@)]
           ELSE [r EXCEPT !.state = IF verdict.allow THEN "evaluating" ELSE "blocked",
                          !.next = p + 1,
                          !.spent = kept(@) \o [n \in 1..verdict.recorded |-> unit]]]
      /\ forwarded' = kept(forwarded)
      /\ UNCHANGED <<now, asked>>

\* No policy blocked: the frame goes upstream.
Forward(c) ==
  LET r == request[c]
  IN  /\ r.state = "evaluating"
      /\ r.next > Len(Policies)
      /\ forwarded' = forwarded \o r.spent
      /\ request' = [request EXCEPT ![c].state = "forwarded"]
      /\ UNCHANGED <<now, history, asked>>

Tick ==
  /\ now < MaxNow
  /\ now' = now + 1
  /\ UNCHANGED <<history, request, asked, forwarded>>

Next ==
  \/ \E c \in Conn : \/ \E id \in Identity, a \in Action : Start(c, id, a)
                     \/ EvaluateNext(c)
                     \/ Forward(c)
  \/ Tick

Spec == Init /\ [][Next]_vars

-----------------------------------------------------------------------------
(* Properties *)

\* Every policy has a history of its own; a connection is at one of them.
TypeOK ==
  /\ now \in Instant
  /\ \A p \in DOMAIN Policies :
       /\ Tracked(history[p]) \subseteq Identity \cup {GlobalHistoryKey}
       /\ history[p].byIdentity \in [Tracked(history[p]) -> Seq(Instant)]
  /\ \A c \in Conn : request[c].state \in {"idle", "evaluating", "blocked", "forwarded"}
  /\ asked \in 0..MaxAsked

\* The units that reached the directory in the window up to t, of those policy
\* p granted to id, or to anyone if it pools all identities.
Reached(p, id, t) ==
  {i \in DOMAIN forwarded :
     /\ forwarded[i].policy = p
     /\ forwarded[i].id = id \/ Policies[p].scope = "Global"
     /\ forwarded[i].time \in (t - Policies[p].window)..t}

\* However connections interleave between the policies, what reaches the
\* directory stays within the budget of every policy that polices it, for each
\* identity as long as the policy keeps track of it, or for all identities
\* together if the policy has Global scope: and it still counts there, whatever
\* the evaluations of other connections pruned or made room for meanwhile, so
\* that the next evaluation will see it.
ForwardedWithinBudgets ==
  \A p \in DOMAIN Policies : \A id \in Identity :
    LET key == IF Policies[p].scope = "Global" THEN GlobalHistoryKey ELSE id
        counting == {i \in 1..WindowLen(history[p], key) :
                       ~Stale(history[p].byIdentity[key][i], now, Policies[p].window)}
    IN  /\ \A t \in 1..now : Cardinality(Reached(p, id, t)) <= Policies[p].maxPerWindow
        /\ Cardinality(Reached(p, id, now)) <= Cardinality(counting)

\* "state is only advanced when the action is ultimately allowed (blocked
\* actions don't pollute history)": a blocked request has spent nothing.
BlockedSpendsNothing ==
  \A c \in Conn : request[c].state = "blocked" => request[c].spent = <<>>
==============================================================================
