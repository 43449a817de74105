------------------------------- MODULE Serve --------------------------------
(***************************************************************************)
(* The process (lib.rs: run_with_config): one accept loop per [[proxy]]    *)
(* entry (proxy.rs: serve) with its semaphore and its JoinSet of           *)
(* connection tasks, the task that waits for SIGTERM, the task that        *)
(* reloads policy files on SIGHUP, and the loop that joins them all. Tasks *)
(* run on several threads: a step is what one of them does between two     *)
(* awaits, or to one shared object.                                        *)
(*                                                                         *)
(* A policy list is the version of the file it was loaded from. What a     *)
(* connection does while it runs is modelled by Connection.                *)
(*                                                                         *)
(* Definitions whose comment begins with "Faulty" are not part of the      *)
(* specification: each is a mistake that one of the properties excludes.   *)
(***************************************************************************)
EXTENDS Integers, Sequences, FiniteSets

CONSTANTS
  NEntries,         \* how many [[proxy]] entries are configured
  Conn,             \* incoming connections
  MaxConnections,   \* ConnectionLimits.max_connections
  MaxEdits          \* bound on the edits of the policy files

ASSUME ServeAssumption ==
  NEntries \in Nat \ {0} /\ MaxConnections \in Nat /\ MaxEdits \in Nat

Entry == 1..NEntries

VARIABLES
  process,    \* run_with_config: running, or how it returned
  shutdown,   \* the shutdown watch channel
  serve,      \* for each entry, where its accept loop is
  conn,       \* for each connection, its entry, its state and its policies
  permits,    \* for each entry, the permits left in its semaphore
  connections,\* for each entry, the tasks in its JoinSet
  inFlight,   \* for each entry, the in_flight that it logged, or -1
  policies,   \* for each entry, the policy list in its watch channel
  reload,     \* the reload task: waiting, done, or the entry it is at
  hangup,     \* a SIGHUP has not been received yet
  file,       \* the version of the policy files on disk
  asked       \* history: for each entry, the version at the last SIGHUP,
              \* unless loading it failed since

tasks == <<process, serve, conn, permits, connections, inFlight>>
reloads == <<policies, reload, hangup, file, asked>>
vars == <<shutdown, tasks, reloads>>

New == [at |-> "new"]
Waiting == 0    \* the reload task, between two reloads
Stopped == -1

Init ==
  /\ process = "running" /\ shutdown = FALSE
  /\ serve = [e \in Entry |-> "bind"]
  /\ conn = [c \in Conn |-> New]
  /\ permits = [e \in Entry |-> MaxConnections]
  /\ connections = [e \in Entry |-> {}]
  /\ inFlight = [e \in Entry |-> -1]
  /\ policies = [e \in Entry |-> 0]
  /\ reload = Waiting /\ hangup = FALSE
  /\ file = 0 /\ asked = [e \in Entry |-> 0]

\* The connections of entry e whose task has not ended.
Live(e) == {c \in connections[e] : conn[c].at \in {"running", "aborted"}}

\* Abort the tasks of a set: each ends at its next await.
Abort(S) == [c \in Conn |-> IF c \in S /\ conn[c].at = "running"
                            THEN [conn[c] EXCEPT !.at = "aborted"] ELSE conn[c]]

-----------------------------------------------------------------------------
(* serve                                                                   *)

Bind(e) ==
  /\ process = "running" /\ serve[e] = "bind"
  /\ serve' = [serve EXCEPT ![e] = "accept"]
  /\ UNCHANGED <<shutdown, process, conn, permits, connections, inFlight, reloads>>

\* Faulty: the connection is spawned whether or not there is a permit.
AcceptOverLimit(e, c) ==
  /\ process = "running" /\ serve[e] = "accept" /\ conn[c].at = "new"
  /\ conn' = [conn EXCEPT ![c] = [at |-> "running", policies |-> policies[e]]]
  /\ permits' = [permits EXCEPT ![e] = @ - 1]
  /\ connections' = [connections EXCEPT ![e] = @ \cup {c}]
  /\ UNCHANGED <<shutdown, process, serve, inFlight, reloads>>

\* A connection is accepted, and spawned with a permit and the current
\* policy list. (select! tries its ready branches in random order, so this
\* may also happen once shutdown is requested.)
Accept(e, c) ==
  /\ process = "running" /\ serve[e] = "accept" /\ conn[c].at = "new"
  /\ permits[e] > 0
  /\ conn' = [conn EXCEPT ![c] = [at |-> "running", policies |-> policies[e]]]
  /\ permits' = [permits EXCEPT ![e] = @ - 1]
  /\ connections' = [connections EXCEPT ![e] = @ \cup {c}]
  /\ UNCHANGED <<shutdown, process, serve, inFlight, reloads>>

\* No permit is left: the connection is closed.
Reject(e, c) ==
  /\ process = "running" /\ serve[e] = "accept" /\ conn[c].at = "new"
  /\ permits[e] = 0
  /\ conn' = [conn EXCEPT ![c] = [at |-> "rejected"]]
  /\ UNCHANGED <<shutdown, process, serve, permits, connections, inFlight, reloads>>

\* Binding the listener or accepting fails: serve returns the error, which
\* drops its JoinSet.
ServeFails(e) ==
  /\ process = "running" /\ serve[e] \in {"bind", "accept"}
  /\ serve' = [serve EXCEPT ![e] = "failed"]
  /\ conn' = Abort(connections[e])
  /\ UNCHANGED <<shutdown, process, permits, connections, inFlight, reloads>>

\* The accept loop sees the shutdown request.
StopAccepting(e) ==
  /\ process = "running" /\ serve[e] = "accept" /\ shutdown
  /\ inFlight' = [inFlight EXCEPT ![e] = Cardinality(connections[e])]
  /\ serve' = [serve EXCEPT ![e] = IF connections[e] = {} THEN "done" ELSE "drain"]
  /\ UNCHANGED <<shutdown, process, conn, permits, connections, reloads>>

\* join_next returns a connection task that has ended; the last one ends
\* the drain, or the wait for aborted tasks.
JoinNext(e, c) ==
  /\ process = "running" /\ serve[e] \in {"drain", "abort"}
  /\ c \in connections[e] \ Live(e)
  /\ connections' = [connections EXCEPT ![e] = @ \ {c}]
  /\ serve' = [serve EXCEPT ![e] = IF connections[e] = {c} THEN "done" ELSE @]
  /\ UNCHANGED <<shutdown, process, conn, permits, inFlight, reloads>>

\* Faulty: the tasks are aborted but not waited for.
GraceExpiresNoWait(e) ==
  /\ process = "running" /\ serve[e] = "drain"
  /\ conn' = Abort(connections[e])
  /\ serve' = [serve EXCEPT ![e] = "done"]
  /\ UNCHANGED <<shutdown, process, permits, connections, inFlight, reloads>>

\* shutdown_timeout passes: JoinSet::shutdown aborts what is left and waits
\* for it.
GraceExpires(e) ==
  /\ process = "running" /\ serve[e] = "drain"
  /\ conn' = Abort(connections[e])
  /\ serve' = [serve EXCEPT ![e] = "abort"]
  /\ UNCHANGED <<shutdown, process, permits, connections, inFlight, reloads>>

\* A connection task ends, on its own or because it was aborted.
Release(e, c) ==
  /\ c \in Live(e)
  /\ conn' = [conn EXCEPT ![c].at = "ended"]
  /\ permits' = [permits EXCEPT ![e] = @ + 1]
  /\ UNCHANGED <<shutdown, process, serve, connections, inFlight, reloads>>

Finish(e, c) == conn[c].at = "running" /\ Release(e, c)

\* Faulty: an aborted task keeps its permit.
AbortWithoutDrop(e, c) ==
  /\ conn[c].at = "aborted" /\ c \in Live(e)
  /\ conn' = [conn EXCEPT ![c].at = "ended"]
  /\ UNCHANGED <<shutdown, process, serve, permits, connections, inFlight, reloads>>

AbortTakesEffect(e, c) == conn[c].at = "aborted" /\ Release(e, c)

-----------------------------------------------------------------------------
(* run_with_config                                                         *)

\* SIGTERM or SIGINT: the signal task sets the watch, and is done.
ShutdownSignal ==
  /\ process = "running" /\ ~shutdown
  /\ shutdown' = TRUE
  /\ UNCHANGED <<tasks, reloads>>

\* join_next returns the error of an entry: run_with_config returns it, and
\* the JoinSet it drops takes every other accept loop down.
ReturnError(e) ==
  /\ process = "running" /\ serve[e] = "failed"
  /\ process' = "error"
  /\ serve' = [i \in Entry |-> IF serve[i] \in {"done", "failed"} THEN serve[i] ELSE "dropped"]
  /\ conn' = Abort(Conn)
  /\ UNCHANGED <<shutdown, permits, connections, inFlight, reloads>>

\* Every task has ended without an error.
ReturnOk ==
  /\ process = "running"
  /\ shutdown /\ reload = Stopped /\ \A e \in Entry : serve[e] = "done"
  /\ process' = "ok"
  /\ UNCHANGED <<shutdown, serve, conn, permits, connections, inFlight, reloads>>

-----------------------------------------------------------------------------
(* reload_policies_on_signal                                               *)

\* The operator edits the policy files.
EditFiles ==
  /\ process = "running" /\ file < MaxEdits
  /\ file' = file + 1
  /\ UNCHANGED <<shutdown, tasks, policies, reload, hangup, asked>>

\* SIGHUP. One that is not received yet absorbs the next.
Sighup ==
  /\ process = "running" /\ reload # Stopped
  /\ hangup' = TRUE
  /\ asked' = [e \in Entry |-> file]
  /\ UNCHANGED <<shutdown, tasks, policies, reload, file>>

StartReload ==
  /\ process = "running" /\ reload = Waiting /\ hangup
  /\ hangup' = FALSE
  /\ reload' = 1
  /\ UNCHANGED <<shutdown, tasks, policies, file, asked>>

\* The entry after e, or back to the wait for a signal.
AfterEntry(e) == IF e = NEntries THEN Waiting ELSE e + 1

\* Faulty: the handler is installed anew for each wait, which forgets a
\* signal that came during the reload.
LoadEntryRearming(e) ==
  /\ process = "running" /\ reload = e
  /\ policies' = [policies EXCEPT ![e] = file]
  /\ reload' = AfterEntry(e)
  /\ hangup' = (hangup /\ e # NEntries)
  /\ UNCHANGED <<shutdown, tasks, file, asked>>

\* The policy file of an entry is read, parsed and sent to its watch.
LoadEntry(e) ==
  /\ process = "running" /\ reload = e
  /\ policies' = [policies EXCEPT ![e] = file]
  /\ reload' = AfterEntry(e)
  /\ UNCHANGED <<shutdown, tasks, hangup, file, asked>>

\* The file cannot be loaded: the entry keeps its policies, the others are
\* still reloaded.
LoadFails(e) ==
  /\ process = "running" /\ reload = e
  /\ asked' = [asked EXCEPT ![e] = 0]
  /\ reload' = AfterEntry(e)
  /\ UNCHANGED <<shutdown, tasks, policies, hangup, file>>

\* Faulty: the task waits for signals only.
NeverStopReloading == FALSE /\ UNCHANGED vars

StopReloading ==
  /\ process = "running" /\ reload = Waiting /\ shutdown
  /\ reload' = Stopped
  /\ UNCHANGED <<shutdown, tasks, policies, hangup, file, asked>>

-----------------------------------------------------------------------------

ServeStep(e) ==
  Bind(e) \/ StopAccepting(e) \/ GraceExpires(e) \/ \E c \in Conn : JoinNext(e, c)
ReloadStep == StartReload \/ StopReloading \/ \E e \in Entry : LoadEntry(e) \/ LoadFails(e)
MainStep == ReturnOk \/ \E e \in Entry : ReturnError(e)
ConnEnds(c) == \E e \in Entry : Finish(e, c)
AbortEnds(c) == \E e \in Entry : AbortTakesEffect(e, c)

Next ==
  \/ \E e \in Entry : \/ ServeStep(e) \/ ServeFails(e)
                      \/ \E c \in Conn : Accept(e, c) \/ Reject(e, c)
  \/ \E c \in Conn : ConnEnds(c) \/ AbortEnds(c)
  \/ ReloadStep \/ MainStep
  \/ ShutdownSignal \/ Sighup \/ EditFiles

\* The runtime polls every ready task, fires the shutdown timer, and ends an
\* aborted task. Connections need not end by themselves, and nobody need
\* send a signal. select! picks among its ready branches at random, so it
\* does not pass over the shutdown branch again and again for SIGHUPs.
Spec ==
  /\ Init /\ [][Next]_vars
  /\ \A e \in Entry : WF_vars(ServeStep(e))
  /\ \A c \in Conn : WF_vars(AbortEnds(c))
  /\ WF_vars(ReloadStep) /\ SF_vars(StopReloading) /\ WF_vars(MainStep)

-----------------------------------------------------------------------------

\* The type invariant.
TypeOK ==
  /\ process \in {"running", "ok", "error"} /\ shutdown \in BOOLEAN
  /\ serve \in [Entry -> {"bind", "accept", "drain", "abort", "done", "failed", "dropped"}]
  /\ \A c \in Conn : conn[c].at \in {"new", "running", "aborted", "ended", "rejected"}
  /\ permits \in [Entry -> 0..MaxConnections]
  /\ connections \in [Entry -> SUBSET Conn]
  /\ policies \in [Entry -> 0..MaxEdits] /\ asked \in [Entry -> 0..MaxEdits]
  /\ reload \in {Waiting, Stopped} \cup Entry /\ hangup \in BOOLEAN

\* A permit is held by exactly the connection tasks that have not ended, so
\* an entry never handles more than max_connections at once and never loses
\* capacity, whether tasks finish, fail or are aborted.
PermitsBalance == \A e \in Entry : permits[e] + Cardinality(Live(e)) = MaxConnections

\* When serve returns without an error, and so when run_with_config does,
\* none of its connections is running any more: all were drained or their
\* abort was waited for.
DrainedOnReturn ==
  /\ \A e \in Entry : serve[e] = "done" => Live(e) = {}
  /\ process = "ok" => \A c \in Conn : conn[c].at \notin {"running", "aborted"}

\* No SIGHUP is lost, and no bad file stops the others: when the reload task
\* waits with none outstanding, each entry has policies at least as new as
\* the files were at the last SIGHUP, unless its own file could not be
\* loaded since.
NoReloadLost ==
  reload = Waiting /\ ~hangup => \A e \in Entry : policies[e] >= asked[e]

\* Once shutdown is requested, run_with_config returns: no accept loop, no
\* connection that never ends and no waiting reload task holds it up.
ShutdownCompletes == shutdown ~> process # "running"

\* Every accept loop that is in the process of draining really has that many
\* connections left in flight: "shutting down: draining in-flight
\* connections", with `in_flight`.
InFlightIsLive ==
  [][\A e \in Entry : inFlight'[e] # inFlight[e] => inFlight'[e] = Cardinality(Live(e))]_vars
==============================================================================
