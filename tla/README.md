# A TLA+ model of ai-protect

ai-protect is an inline LDAP proxy: it relays a client's LDAP messages to a directory, and stops
the ones whose blast radius exceeds what a policy allows. This directory holds TLA+ modules
translated from its source, TLC configurations that check them on small instances, and TLAPS
proofs. `PROJECT.json` maps every definition to the lines it models and lists the hazards of the
code with the properties that answer them.

Run `tlc -config X.cfg M` for a run (the pairs are below) and `tlapm` on each of
`ThresholdPolicyProofs.tla`, `ThresholdProofs.tla` and `LdapProofs.tla` for the proofs, in this
directory.

## Inventory

| Part (source) | State | Operations | Model |
|---|---|---|---|
| Threshold policy (`core/policy/threshold.rs`) | per-identity deques of grant times, an index of identities by last activity | `evaluate` (make room, ensure, prune, check, record) | `ThresholdPolicy`, `Threshold` |
| Policy list (`core/policy.rs`, `core/policy/config.rs`) | an ordered list, shared by connections | `evaluate_all` | `PolicyChain` |
| Connection (`proxy.rs`) | client and upstream streams, `BindState`, the `client_write` lock | StartTLS upgrade, connect, two relay loops, deadlines | `Connection` |
| Upstream pool (`core/upstream_pool.rs`, `connector/ldap.rs`) | cooldowns, connection counts, round-robin counter | `candidates`, `mark_failed`, `mark_connected`, guard drop, `connect_upstream` | `UpstreamPool` |
| Process (`proxy.rs: serve`, `lib.rs`) | semaphores, JoinSets, shutdown and policy watches | accept, drain, abort, reload on SIGHUP, exit | `Serve` |
| Shared history (`threshold.rs: sync_once`, `store/`) | rows of a SQLite or Valkey store, `pending` events | sync, merge, start-up load | `ThresholdSync`, `HistoryStore` (SQLite); Valkey planned |
| LDAP codec (`connector/ldap.rs`) | none (pure) | `read_frame`, `decode`, `classify_lock_write`, ... | `Ldap` (used by `Connection`); framing planned |
| Health endpoint, configuration, TLS, audit, metrics, entry points | none of consequence | I/O and parsing | not modelled |

How they interact: `Serve` spawns connections, each with a snapshot of the policy list. A
connection gets its upstream stream from the pool, and then alternates between reading requests
(asking the policies about actions, under the identity its binds earned) and relaying responses.
Policies and pool are shared by all connections; the policies can be replaced between connections.

What is hard here, and hardly reached by a test: index and map of the history drifting apart over
a long sequence of calls; two connections inside `evaluate_all` at once; a bind's claim, its
answer and the next action crossing each other in two loops; frames of two loops on one stream;
message IDs used again; peers that stop reading; cooldowns that change while
`candidates` reads them; signals, deadlines and ends of connections racing with each other.

## Modules

**`ThresholdPolicy`** has the operations of `History` and `evaluate` as functions from a history
to a history: `byIdentity` maps an identity to its deque, `byActivity` is the `BTreeSet` of
`(Option<Instant>, Identity)` pairs. The loop of `evict_stalest_until` is given by what it removes: the
index entries before which too many identities are still left. Identities are numbers, since the `BTreeSet` orders them; `GlobalHistoryKey` is 0.

**`Threshold`** is one policy without a `state_db`. `Ask` is a whole call of `evaluate`, one step
because the code holds the mutex and reads the clock under it; `Tick` is the clock. `ledger` is a
history variable: everything granted to an identity since the policy began to track it.

**`Budget`** is what a policy promises, without a map, an index or an eviction rule: each identity
has a ledger of its grants, an action is granted if and only if it fits both limits, and only a
lack of room for a new identity makes the policy forget another. `Threshold` is shown to implement it
(`BudgetSpec`, through `INSTANCE ... WITH`).

**`PolicyChain`** is `evaluate_all` over a list of policies by several connections, one step per
policy: each locks only its own history. The history variables hold what each policy granted since it
began to track the identity: one that is evicted starts afresh.

**`Connection`** is one connection. `phase` is where `handle_connection` is; `relay` says where
each loop waits and with which frame. Both loops run in one task, so a step goes from one await to
the next: reading a request includes staging a bind, or reading the identity and evaluating the
action; reading a response includes resolving the bind. `write_all` to the client is two writes
of half a frame. The client chooses any message ID for any request, also one that is outstanding,
since nothing in the code prevents it; for the properties a request is known by its place in the order of
sending. The directory answers in any order, and may accept a bind that has no password. `log` is a
history variable. A handshake reads the bare socket from where `read_frame` stopped, so it meets
whatever was sent behind the StartTLS request, and fails on a frame in plaintext.

**`Ldap`** is the connector's `decode`, `bind_request`, `bind_response`, `upgrade_request` and
`build_rejection`, as operators on messages reduced to the fields these look at. `Connection` takes
every decision about a frame through them. Which lock attribute a value unlocks is modelled; that
an attribute can be spelled by OID or with options is abstracted to the attribute it names.

**`UpstreamPool`** is the pool with concurrent callers. `Partition` reads the cooldown of one
target per step; `Order` applies the strategy; `DialFails`, `DialSucceeds`+`Count` and `TimesOut`
are the ends of a dial; `Drop` is the guard's. `steady` is a history variable: what was up, or
down, all through an attempt.

**`HistoryStore`** is `Anchor` and the SQLite transaction. An instant is a number of ticks, several to
a millisecond, so that the truncation of both conversions is there. The table is a set of rows.

**`ThresholdSync`** is one policy with a `state_db` in full, and the others on the same file as the
transactions they commit. `Ask` and `PushPending` are the two critical sections of `evaluate`;
`TakeAnchor`, `Drain`, `StoreSync` or `StoreFails`, and `Merge` are `sync_once`, where anything may
happen between the reading of the clocks and the drain of `pending`; `Stop` and `Start` are the end of
the process (or of a policy a reload replaced) and `ThresholdPolicy::new`. Ghosts record what was
admitted and what a snapshot showed; in them the units of one action are told apart, as neither the
rows nor the deques can. What a snapshot showed is recorded from the rows, not from the history that the
merge makes of them, so that `SeenAdmissionsCount` compares two things.

**`Serve`** is the process: an accept loop per entry, the connections as tasks that run until they
end or are aborted, the reload task and the join loop of `run_with_config`. A policy list is the
version of the file it came from.

Definitions whose comment begins with "Faulty" are used by no specification. Each is a plausible
mistake that one of the properties catches when it takes the place of the right definition.

## Runs

| Run | Configuration, module | Checks |
|---|---|---|
| threshold | `MCThreshold.cfg`, `MCThreshold` | `TypeOK`, `TrackedBounded`, `IndexCoversTracked`, `WindowKeepsRecent`, `WindowBudget`; refinement `BudgetSpec` |
| eviction_order | `EvictionOrder.cfg`, `MCThreshold` | `EvictsLeastRecentlyActive`: violated |
| policy_chain | `MCPolicyChain.cfg`, `MCPolicyChain` | `TypeOK`, `ForwardedWithinBudgets` |
| blocked_spends | `BlockedSpends.cfg`, `MCPolicyChain` | `BlockedSpendsNothing`: violated |
| bind_identity | `BindIdentity.cfg`, `MCConnection` | `TypeOK`, `IdentityVerified`, `IdentityMatchesTold`, `ChargedAsTold`, `PendingOutstanding` |
| relay | `Relay.cfg`, `MCConnection` | `EveryRequestOnce`, `BlockedAnsweredHere`, `WholeFrames`, liveness `FramesPassOn`, `SilenceEnds` |
| upstream_pool | `UpstreamPool.cfg`, `MCUpstreamPool` | `TypeOK`, `ActiveCountsLive`, `FailsOnlyAfterAll`, `HealthyTriedFirst`, `RoundRobinBalanced`, liveness `AttemptEnds` |
| serve | `MCServe.cfg`, `MCServe` | `TypeOK`, `PermitsBalance`, `DrainedOnReturn`, `NoReloadLost`, liveness `ShutdownCompletes` |
| in_flight | `InFlight.cfg`, `MCServe` | `InFlightIsLive`: violated |
| threshold_sync | `ThresholdSync.cfg`, `MCThresholdSync` | `TypeOK`, `StoreAndMapsBounded`, `OwnAdmissionsCount`, `OnlyAdmissionsCount`, `SeenAdmissionsCount`, liveness `Converges` |
| counted_twice | `CountedTwice.cfg`, `MCThresholdSync` | `NeverCountedTwice`: violated |
| burst_shared | `BurstShared.cfg`, `MCThresholdSync` | `SeenCountInFull`: violated |

### What the violated ones show

* **eviction_order** (code). `prune_stale` says it never changes an identity's `back()`. It does
  when it pops the last timestamp: the key becomes `None`, and the index keeps `Some(t)`. The next
  `record_admitted` removes an entry that is not there, so the stale one stays, and the identity
  can be evicted by it while a less recently active one stays.
* **blocked_spends** (documentation). Blocked actions are said not to advance state. That holds
  for the policy that blocks; the ones before it in the list have recorded the action.
* **in_flight** (code). `serve` reports `connections.len()` as connections in flight, but nothing
  takes ended tasks out of the JoinSet while it accepts: it counts, and holds, all that ever ran.
* **counted_twice** (code). The comment of `merge_history_from_rows` says that a flushed event comes
  back as the value already in the history. Each cycle has a new anchor, whose millisecond is
  truncated, and so is the distance to it: the same instant can be one millisecond under one anchor
  and the next under another. The row of an event then does not match the event, and is merged as a
  second one. The error is on the side of fewer grants.
* **burst_shared** (documentation). Instances on one file are said to see each other's admitted actions.
  A merge skips a row whose millisecond it has, and an action with a blast radius of 2 is two rows of one
  millisecond: another instance counts one of them. A start-up load counts both. So
  `SeenAdmissionsCount`, which holds, asks only for an event of about that millisecond.

### What the qualified ones say

`IdentityVerified` is the promise that the identity of a connection is one the directory accepted. Where
a client binds again under the ID of a bind that is unresolved, the map of `stage_pending_bind` has room for one of
the claims, and the response to either resolves it. So for such IDs the property only says that
the identity was claimed under that ID, and `ARCHITECTURE.md` ("promotion only happens on a confirmed
success") says more. `IdentityMatchesTold` and `ChargedAsTold` exclude these
behaviours, since a client that reuses an outstanding ID, against RFC 4511, cannot itself tell which
bind a response is about. IDs that are used again after their response are not excluded.

`ForwardedWithinBudgets` is about an identity for as long as a policy tracks it, and adds that what reached
the directory still counts in that policy. `max_tracked_identities` makes a policy forget, by design.

`Converges` is eventual consistency: once no more is admitted, the history comes to have an event for each
row in the window. It says nothing of how many.

`FramesPassOn` and `SilenceEnds` are what `io_timeout` gives. It is per operation, so a frame that was taken
in moves on or the connection ends, and a client that has gone silent does not keep it open. That each request is
answered is not so: while a client goes on sending and others are answered, one may wait for ever.

Smaller divergences have no run of their own. `ARCHITECTURE.md` describes the sync as "replacing (not merging into)" the entry of
an identity; the code merges. `store/mod.rs` says rows "at or older than" the cutoff are pruned; the
statement deletes those before it. And the comment of `serve` says that shutdown turning true
stops it from taking any new connection, but `select!` picks a ready branch at random, so
`Accept` stays possible until `StopAccepting` happens. `ShutdownCompletes` shows that this delays,
and does not prevent, the end.

### Bounds

* threshold: three identities compete for two tracked slots, so eviction, re-tracking and ties
  happen; window 1 and clock 1..3 let a grant be inside, at the edge and outside; requests of 1
  to 4 units meet both limits from both sides. eviction_order needs one more tick.
* policy_chain: two connections, two identities, a per-identity policy with room for one of them
  before a `Global` one, five requests, clock 1..3: an identity is evicted, also between the two
  evaluations of an action, and comes back.
* bind_identity: three requests are enough for two pipelined binds and an action after them;
  one pending claim makes the second bind evict the first. Two message IDs for three requests, so
  one is reused, outstanding or not, and IDs come in either order. Peers do not close (`PeersClose`),
  which only cuts behaviours short; deadlines still do.
* relay: three requests put a rejection between two responses; buffers of two writes fill. One
  message ID, since only binds depend on it and this run has none; peers may close.
* upstream_pool: three targets so that a rotation differs from a swap, three attempts for a full
  turn (the counter wraps around the targets only with a fourth); a cooldown of 1 starts, ends with the one tick of the clock, or is cleared.
* threshold_sync: two ticks to a millisecond are the least that make anchors round differently; two
  identities compete for one tracked slot, here and in the file; two calls and one fault, at most
  one tick between another policy's anchor and its transaction, and what it brings is at most `MaxAge`
  ticks old and may be later than its anchor. The window is two milliseconds, so that an event can be in
  the file, leave the window and leave the file. burst_shared and counted_twice need less.
* serve: two entries, one permit each, so that the second connection of an entry is rejected and
  an error of one entry takes the other down; one edit lets a SIGHUP fall inside a reload.

Deadlock checking is off where a system may stop: a connection ends, a process exits, callers need
not ask again, and the bounds (`MaxAsked`, `MaxRequests`, `MaxAttempts`, `MaxCalls`,
`MaxFaults`, `MaxNow`, `MaxEdits`)
end a run. It is on for `Threshold`. Symmetry (connections, DNs) is used in safety runs only.

### Fairness

Weak fairness on what the runtime does by itself: polling a task that is ready, firing an expired
timer, ending an aborted task. Nothing is assumed of clients, of the directory, of a dial or of
operators. `StopReloading` has strong fairness: with a SIGHUP ready each time the reload task
waits, its random `select!` must not prefer the signal for ever. In `ThresholdSync` the background
task keeps running (`spawn_background_sync` loops on an interval); nothing is assumed of the store
beyond the bound on its failures.

## Proofs

`ThresholdPolicyProofs` has lemmas on the operators: `StalePrefixStops` (pruning stops at the
first grant that counts), `EvictLeavesTarget` (the eviction loop reaches its target and keeps map
and index together), `PrepareCorrect`, and `EvaluateCorrect` on a whole call. `ThresholdProofs`
proves about `Threshold`, for every set of identities and every value of the limits:

* `TypeCorrect`: `Spec => []TypeOK`;
* `Bounded`: at most `max_tracked_identities` identities are tracked (one if that is 0), and every
  tracked identity is in the index;
* `KeepsWhatCounts`: a deque lacks only grants that are out of the window;
* `WithinBudget`: an identity is never granted more than `max_per_window` units within any window,
  as long as it stays tracked.

`LdapProofs` proves, for every message, `EveryActionRejectable` (what `decode` takes for an action
`build_rejection` can answer, with the response the request expects, so its `bail!` is not reached)
and `ClaimsAreNoActions` (no frame both claims an identity and is charged to one).

The assumptions of the former are `ConfigAssumption`: limits, times and radii are natural numbers. The
inductive invariant `IInv` is more than these properties. What `evaluate` counts is the deque,
so `LedgerOK` ties the deque to the ledger, and says that grants more than `max_per_window` apart
in the ledger are more than a window apart in time. Eviction stops only if the index covers the
map, so `HistoryOK` has that. Note what is not invariant: that the index has one entry per
identity, or the right one. eviction_order shows why; the loop terminates all the same, since a
leftover entry costs it one turn.

Only model-checked: the refinement of `Budget`, everything about `PolicyChain`, `Connection`,
`UpstreamPool`, `Serve` and `ThresholdSync`, and all liveness (fairness and ENABLED are beyond the prover).

## Limits of the model

* The state of a policy ends with the policy: a reload starts new ones, which `Serve` shows only
  as a version.
* A response is one frame per request; a search with many entries would add more of the same.
* `sort_by_key` under `LeastConnections` loads the counts in one step.
* The implicit-TLS handshake of a listener happens before `handle_connection` and is part of a
  connection's run in `Serve`.
* No property tells the kinds of action apart yet (a lock from an unlock, say): `Connection` asks only
  whether `decode` returns one, and its runs send a lock and a delete. The other cases of `Ldap` are
  translated, and covered by the two theorems of `LdapProofs` alone.
* `ThresholdSync` sees other policies through their transactions only. The wall clock is never set,
  `Anchor::now` reads both clocks in one tick, so does the start of a process, and `i64` does not
  overflow.
* How many bytes a read takes off a socket is below `Connection`: that `read_frame` reads no further than
  its frame before the upgrade is in the guard of `Handshake`, and no property derives it.
* BER, `read_frame`'s length prefix and `cap_dn`, TLS, the health endpoint, configuration, audit and
  metrics, as in the inventory.

## Plan

1. The Valkey store: the contract of `HistoryStore` kept by a pipeline per key instead of one
   transaction, with `ThresholdSync`'s properties asked of it.
2. `LdapFrame`: `read_frame`'s length prefix as a function, checked against a reference definition.
3. `Connection` composed with `PolicyChain`: charges against what reaches the directory.
4. Proofs: `Threshold` implements `Budget`; `ForwardedWithinBudgets`; `PermitsBalance` and
   `DrainedOnReturn` of `Serve`; `ActiveCountsLive` and `FailsOnlyAfterAll` of `UpstreamPool`;
   `IdentityVerified` and `WholeFrames` of `Connection`; `OwnAdmissionsCount` of `ThresholdSync`.
