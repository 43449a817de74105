---------------------------- MODULE UpstreamPool ----------------------------
(***************************************************************************)
(* The pool of upstream targets (core/upstream_pool.rs) and the connect    *)
(* loop over it (connector/ldap.rs: connect_upstream), run concurrently by *)
(* any number of connections. The pool's state is shared and has no lock   *)
(* of its own: each target's cooldown has a mutex, the counters are        *)
(* atomics, so candidates() reads the targets one after the other while    *)
(* other connections change them. A dial takes time and may fail, succeed  *)
(* or hang until io_timeout drops the whole attempt.                       *)
(*                                                                         *)
(* Definitions whose comment begins with "Faulty" are not part of the      *)
(* specification: each is a mistake that one of the properties excludes.   *)
(***************************************************************************)
EXTENDS Integers, Sequences, FiniteSets, SequencesExt, TLC

CONSTANTS
  Conn,         \* client connections
  NTargets,     \* how many targets are configured
  Strategies,   \* the load-balancing strategies considered
  Cooldown,     \* upstream_failure_cooldown_secs
  MaxAttempts,  \* bound on the calls of connect_upstream
  MaxNow        \* bound on the clock

ASSUME PoolAssumption ==
  /\ NTargets \in Nat \ {0}        \* UpstreamPool::new rejects an empty list
  /\ Strategies \subseteq {"RoundRobin", "Random", "LeastConnections"}
  /\ Cooldown \in Nat
  /\ MaxAttempts \in Nat /\ MaxNow \in Nat

Target == 0..(NTargets - 1)
None == -1

VARIABLES
  strategy,
  downUntil,           \* Target.down_until; None when healthy
  activeConnections,   \* Target.active_connections
  roundRobinCounter,
  now,
  conn,                \* where each connection is in connect_upstream
  attempts,            \* how often connect_upstream was called
  firsts,              \* history: how often a target was the first candidate
  failures,            \* history: whether a dial has failed
  steady               \* history: targets that were up, or down, all through
                       \* a connection's current attempt

pool == <<downUntil, activeConnections, roundRobinCounter>>
vars == <<strategy, pool, now, conn, attempts, firsts, failures, steady>>

Idle == [at |-> "idle"]

Init ==
  /\ strategy \in Strategies
  /\ downUntil = [t \in Target |-> None]
  /\ activeConnections = [t \in Target |-> 0]
  /\ roundRobinCounter = 0
  /\ now = 0
  /\ conn = [c \in Conn |-> Idle]
  /\ attempts = 0
  /\ firsts = [t \in Target |-> 0]
  /\ failures = FALSE
  /\ steady = [c \in Conn |-> [up |-> {}, down |-> {}]]

-----------------------------------------------------------------------------
(* candidates()                                                            *)

\* Faulty: a target stays down at the instant its cooldown ends.
HealthyAfter(t) == downUntil[t] = None \/ now > downUntil[t]

IsHealthy(t) == downUntil[t] = None \/ now >= downUntil[t]

\* A call of connect_upstream: candidates() starts to partition the targets.
Begin(c) ==
  /\ conn[c].at \in {"idle", "failed"} /\ attempts < MaxAttempts
  /\ attempts' = attempts + 1
  /\ conn' = [conn EXCEPT ![c] = [at |-> "partition", next |-> 0, healthy |-> <<>>, down |-> <<>>]]
  /\ UNCHANGED <<strategy, pool, now, firsts, failures>>

\* The partition looks at one target.
Partition(c) ==
  LET t == conn[c].next
  IN  /\ conn[c].at = "partition" /\ t \in Target
      /\ conn' = [conn EXCEPT ![c].next = t + 1,
                              ![c].healthy = IF IsHealthy(t) THEN Append(@, t) ELSE @,
                              ![c].down = IF IsHealthy(t) THEN @ ELSE Append(@, t)]
      /\ UNCHANGED <<strategy, pool, now, attempts, firsts, failures>>

RotateLeft(s, n) == SubSeq(s, n + 1, Len(s)) \o SubSeq(s, 1, n)

\* The orders the strategy may put the healthy targets in; they come in
\* configuration order. (The sort is stable. Its loads of the counts are
\* taken as one: a difference shows only when a count moves meanwhile.)
Orders(healthy) ==
  CASE strategy = "RoundRobin" -> {RotateLeft(healthy, roundRobinCounter % Len(healthy))}
    [] strategy = "Random" -> SetToSeqs(ToSet(healthy))
    [] strategy = "LeastConnections" ->
         {SortSeq(healthy, LAMBDA t, u :
            \/ activeConnections[t] < activeConnections[u]
            \/ activeConnections[t] = activeConnections[u] /\ t < u)}

\* Faulty: the targets that cool down are left out while others are up.
HealthyOnly(healthy, down) == IF healthy = <<>> THEN down ELSE healthy

\* The candidates: the healthy targets, then the ones that cool down.
Chain(healthy, down) == healthy \o down

\* Faulty: the counter is not advanced.
SameCounter(healthy) == roundRobinCounter

\* fetch_add, only for a round robin over at least one target.
NextCounter(healthy) ==
  IF strategy = "RoundRobin" /\ healthy # <<>> THEN roundRobinCounter + 1 ELSE roundRobinCounter

\* candidates() orders what it partitioned and returns.
Order(c) ==
  LET healthy == conn[c].healthy
  IN  /\ conn[c].at = "partition" /\ conn[c].next = NTargets
      /\ \E order \in IF healthy = <<>> THEN {<<>>} ELSE Orders(healthy) :
           LET candidates == Chain(order, conn[c].down)
           IN  /\ conn' = [conn EXCEPT ![c] = [at |-> "dial", left |-> candidates, tried |-> <<>>]]
               /\ firsts' = [firsts EXCEPT ![Head(candidates)] = @ + 1]
      /\ roundRobinCounter' = NextCounter(healthy)
      /\ UNCHANGED <<strategy, downUntil, activeConnections, now, attempts, failures>>

-----------------------------------------------------------------------------
(* connect_upstream's loop                                                 *)

\* Faulty: the loop runs past the last candidate.
DialFailsPastEnd(c) ==
  /\ conn[c].at = "dial"
  /\ downUntil' = [downUntil EXCEPT ![Head(conn[c].left)] = now + Cooldown]
  /\ failures' = TRUE
  /\ conn' = [conn EXCEPT ![c].left = Tail(@), ![c].tried = Append(@, Head(conn[c].left))]
  /\ UNCHANGED <<strategy, activeConnections, roundRobinCounter, now, attempts, firsts>>

\* dial returns an error: mark_failed, then the next candidate if any.
DialFails(c) ==
  LET tried == Append(conn[c].tried, Head(conn[c].left))
  IN  /\ conn[c].at = "dial"
      /\ downUntil' = [downUntil EXCEPT ![Head(conn[c].left)] = now + Cooldown]
      /\ failures' = TRUE
      /\ conn' = [conn EXCEPT ![c] =
           IF Len(conn[c].left) = 1 THEN [at |-> "failed", tried |-> tried]
           ELSE [at |-> "dial", left |-> Tail(conn[c].left), tried |-> tried]]
      /\ UNCHANGED <<strategy, activeConnections, roundRobinCounter, now, attempts, firsts>>

\* dial succeeds, and mark_connected clears the cooldown ...
DialSucceeds(c) ==
  /\ conn[c].at = "dial"
  /\ downUntil' = [downUntil EXCEPT ![Head(conn[c].left)] = None]
  /\ conn' = [conn EXCEPT ![c] = [at |-> "count", target |-> Head(conn[c].left)]]
  /\ UNCHANGED <<strategy, activeConnections, roundRobinCounter, now, attempts, firsts, failures>>

\* ... and then, in a step of its own, counts the connection.
Count(c) ==
  /\ conn[c].at = "count"
  /\ activeConnections' = [activeConnections EXCEPT ![conn[c].target] = @ + 1]
  /\ conn' = [conn EXCEPT ![c].at = "connected"]
  /\ UNCHANGED <<strategy, downUntil, roundRobinCounter, now, attempts, firsts, failures>>

\* Faulty: the deadline is looked at between two dials only.
TimesOutBetween(c) ==
  /\ conn[c].at = "dial" /\ conn[c].tried # <<>>
  /\ conn' = [conn EXCEPT ![c] = Idle]
  /\ UNCHANGED <<strategy, pool, now, attempts, firsts, failures>>

\* io_timeout, around all of connect_upstream, drops it while it dials. It
\* cannot strike elsewhere: the rest has no await.
TimesOut(c) ==
  /\ conn[c].at = "dial"
  /\ conn' = [conn EXCEPT ![c] = Idle]
  /\ UNCHANGED <<strategy, pool, now, attempts, firsts, failures>>

\* Faulty: the connection ends and its guard is forgotten.
DropUncounted(c) ==
  /\ conn[c].at = "connected"
  /\ conn' = [conn EXCEPT ![c] = Idle]
  /\ UNCHANGED <<strategy, pool, now, attempts, firsts, failures>>

\* The connection ends, however it does: the ActiveConnectionGuard is dropped.
Drop(c) ==
  /\ conn[c].at = "connected"
  /\ activeConnections' = [activeConnections EXCEPT ![conn[c].target] = @ - 1]
  /\ conn' = [conn EXCEPT ![c] = Idle]
  /\ UNCHANGED <<strategy, downUntil, roundRobinCounter, now, attempts, firsts, failures>>

Tick ==
  /\ now < MaxNow
  /\ now' = now + 1
  /\ UNCHANGED <<strategy, pool, conn, attempts, firsts, failures>>

\* In the given state, whether a target's cooldown has not run out.
Cooling(t) == downUntil[t] # None /\ now < downUntil[t]

\* The history of what was up, or down, since an attempt began.
Observe ==
  steady' = [c \in Conn |->
    CASE conn'[c].at = "partition" /\ conn[c].at # "partition" ->
           [up |-> {t \in Target : ~Cooling(t)}, down |-> {t \in Target : Cooling(t)}]
      [] conn'[c].at \in {"partition", "dial"} /\ conn[c].at \in {"partition", "dial"} ->
           [up |-> {t \in steady[c].up : ~Cooling(t)'}, down |-> {t \in steady[c].down : Cooling(t)'}]
      [] OTHER -> [up |-> {}, down |-> {}]]

\* The steps of connect_upstream that do not wait for a target.
Compute(c) == Partition(c) \/ Order(c) \/ Count(c)

Next ==
  /\ \/ \E c \in Conn : \/ Begin(c) \/ Compute(c)
                        \/ DialFails(c) \/ DialSucceeds(c) \/ TimesOut(c)
                        \/ Drop(c)
     \/ Tick
  /\ Observe

\* The runtime polls a ready task and fires an expired timer. A dial need
\* never return, and connections need neither be opened nor end.
Spec ==
  /\ Init /\ [][Next]_vars
  /\ \A c \in Conn : WF_vars(Compute(c) /\ Observe) /\ WF_vars(TimesOut(c) /\ Observe)

-----------------------------------------------------------------------------

Held(t) == {c \in Conn : conn[c].at = "connected" /\ conn[c].target = t}

\* The type invariant, with what connect_upstream takes for granted: a
\* connection that dials has a candidate to dial (its `expect`).
TypeOK ==
  /\ strategy \in Strategies
  /\ downUntil \in [Target -> 0..(MaxNow + Cooldown) \cup {None}]
  /\ \A t \in Target : activeConnections[t] \in 0..Cardinality(Conn)
  /\ roundRobinCounter \in 0..MaxAttempts
  /\ \A c \in Conn :
       \/ conn[c].at = "idle"
       \/ conn[c].at = "partition" /\ conn[c].next \in 0..NTargets
       \/ conn[c].at = "dial" /\ conn[c].left # <<>>
       \/ conn[c].at \in {"count", "connected"} /\ conn[c].target \in Target
       \/ conn[c].at = "failed"

\* A target's count is the number of live connections to it, so that
\* LeastConnections never drifts, however dials fail, time out or race with
\* ends of connections (mark_connected, ActiveConnectionGuard::drop).
ActiveCountsLive == \A t \in Target : activeConnections[t] = Cardinality(Held(t))

\* connect_upstream gives up only when it has dialled every target, each
\* once, whatever cooldowns other connections set meanwhile: a cooldown is a
\* preference and not a veto (candidates).
FailsOnlyAfterAll ==
  \A c \in Conn : conn[c].at = "failed" =>
    Len(conn[c].tried) = NTargets /\ ToSet(conn[c].tried) = Target

\* A target that has been cooling down since the attempt began is dialled
\* only after every target that has been healthy since then, although
\* candidates() reads the targets one at a time (is_healthy, candidates).
HealthyTriedFirst ==
  \A c \in Conn :
    conn[c].at = "dial" /\ Head(conn[c].left) \in steady[c].down
      => steady[c].up \subseteq ToSet(conn[c].tried)

\* As long as no dial has failed, round robin spreads concurrent attempts
\* evenly: no target is the first candidate twice more than another.
RoundRobinBalanced ==
  strategy = "RoundRobin" /\ ~failures
    => \A t, u \in Target : firsts[t] - firsts[u] <= 1

\* Every call of connect_upstream ends, in a connection or without one.
AttemptEnds ==
  \A c \in Conn : conn[c].at = "partition" ~> conn[c].at \in {"connected", "failed", "idle"}
==============================================================================
