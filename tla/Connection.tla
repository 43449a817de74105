----------------------------- MODULE Connection -----------------------------
(***************************************************************************)
(* One client connection (proxy.rs: handle_connection): the optional       *)
(* StartTLS upgrade, the upstream connect, and the two relay loops that    *)
(* select! polls in one task until the first of them returns. A step of a  *)
(* loop goes from one await to the next. A client gives its requests any   *)
(* message IDs: RFC 4511 (4.1.1.1) forbids it to reuse one that is still   *)
(* outstanding, stage_pending_bind expects it to happen. Where a property  *)
(* has to name a request it does so by n, the place of the request among   *)
(* all of them, which the code does not know.                              *)
(*                                                                         *)
(* write_all to the client is two writes, each of half a frame; the        *)
(* client_write lock keeps the halves together. Buffers of Capacity        *)
(* writes stand for the sockets. The verdict of the policies is a free     *)
(* choice here: PolicyChain models how it comes about. What a message is   *)
(* to the proxy is what the methods of Ldap make of it.                    *)
(*                                                                         *)
(* Definitions whose comment begins with "Faulty" are not part of the      *)
(* specification: each is a mistake that one of the properties excludes.   *)
(***************************************************************************)
EXTENDS Ldap, Integers, FiniteSets, FiniteSetsExt

CONSTANTS
  Dn,             \* the DNs clients bind as
  Peer,           \* Identity::from_peer_addr
  Message,        \* the messages clients send
  MessageId,      \* the message IDs they give them
  MaxPendingBinds,
  MaxRequests,    \* bound on the requests of a client
  PeersClose,     \* bound on the client and the directory: whether they close
  Capacity,       \* how many writes a socket buffers
  ListenStarttls  \* listen_starttls is configured

ASSUME ConnectionAssumption ==
  /\ Peer \notin Dn
  /\ MessageId \subseteq Nat
  /\ MaxPendingBinds \in Nat \ {0}
  /\ MaxRequests \in Nat
  /\ Capacity \in Nat \ {0, 1}
  /\ PeersClose \in BOOLEAN /\ ListenStarttls \in BOOLEAN

VARIABLES
  phase,          \* where handle_connection is
  requests,       \* what the client sent, in this order
  read,           \* how many of them the proxy has read
  clientEof,      \* the client closed its sending side
  toClient,       \* every write to the client stream so far
  received,       \* how many of them the client has read
  relay,          \* for each relay loop, where it is and with which frame
  writer,         \* the relay loop that holds the client_write lock
  identity,       \* BindState.identity
  pending,        \* BindState.pending
  toUpstream,     \* requests on the way to the directory
  toProxy,        \* responses on the way from the directory
  upstreamEof,    \* the directory closed the connection
  log             \* history: what became of the requests

client == <<requests, clientEof, received>>
bindState == <<identity, pending>>
upstream == <<toUpstream, toProxy, upstreamEof>>
vars == <<phase, read, client, toClient, relay, writer, bindState, upstream, log>>

None == "none"
Loop == {"c2u", "u2c"}   \* relay_client_requests, relay_upstream_responses
At(where, frame) == [at |-> where, frame |-> frame]
Reading == [at |-> "read"]

Init ==
  /\ phase = IF ListenStarttls THEN "peek" ELSE "connect"
  /\ requests = <<>> /\ read = 0 /\ clientEof = FALSE
  /\ toClient = <<>> /\ received = 0
  /\ relay = [loop \in Loop |-> Reading]
  /\ writer = None
  /\ identity = Peer /\ pending = <<>>
  /\ toUpstream = <<>> /\ toProxy = <<>> /\ upstreamEof = FALSE
  /\ log = [accepted |-> {}, evicted |-> {}, charged |-> <<>>, forwarded |-> <<>>]

-----------------------------------------------------------------------------
(* The client and the directory (external).                                *)

IsAnswer(write, n) == write.part = 2 /\ write.frame.n = n

\* A bind the directory checks a password for; it may accept others unseen.
ChecksPassword(message) ==
  /\ message.op = "BindRequest"
  /\ message.authentication = "simple" /\ message.name.dn # "" /\ message.password # ""

\* Whether a response accepts a password of the client, for a claim that was
\* not dropped as the oldest of too many.
Verifies(response) ==
  /\ BindResponse(response) = "accepted"
  /\ ChecksPassword(requests[response.n].message)
  /\ response.n \notin log.evicted

\* Such responses among the first n writes to the client.
ToldBinds(count) ==
  {i \in 1..count : /\ toClient[i].part = 2
                    /\ Verifies(toClient[i].frame)}

Claim(n) == requests[n].message.name.dn

ToldDn(count) == IF ToldBinds(count) = {} THEN Peer
                 ELSE Claim(toClient[Max(ToldBinds(count))].frame.n)

\* Every bind of the client has been answered, as far as it has read.
Settled ==
  \A n \in DOMAIN requests :
    requests[n].message.op = "BindRequest" => \E i \in 1..received : IsAnswer(toClient[i], n)

\* The client has bound under this message ID, and read no answer yet.
BindOutstanding(id) ==
  \E n \in DOMAIN requests :
    /\ requests[n].id = id /\ requests[n].message.op = "BindRequest"
    /\ \A i \in 1..received : ~IsAnswer(toClient[i], n)

\* The client sends a request. For an action, `as` is the identity the client
\* knows itself to have, unless a bind of it is still open; for a bind,
\* `reuses` says that its message ID is another's that is.
ClientSends(message, id) ==
  /\ phase # "closed" /\ ~clientEof
  /\ Len(requests) < MaxRequests
  /\ requests' = Append(requests,
       [n |-> Len(requests) + 1, id |-> id, message |-> message,
        as |-> IF Decode(message) # Absent /\ Settled THEN ToldDn(received) ELSE None,
        reuses |-> message.op = "BindRequest" /\ BindOutstanding(id)])
  /\ UNCHANGED <<phase, read, clientEof, received, toClient, relay, writer, bindState,
                 upstream, log>>

ClientCloses ==
  /\ PeersClose
  /\ phase # "closed" /\ ~clientEof
  /\ clientEof' = TRUE
  /\ UNCHANGED <<phase, read, requests, received, toClient, relay, writer, bindState,
                 upstream, log>>

ClientReceives ==
  /\ phase # "closed" /\ received < Len(toClient)
  /\ received' = received + 1
  /\ UNCHANGED <<phase, read, requests, clientEof, toClient, relay, writer, bindState,
                 upstream, log>>

\* The directory answers its requests in any order, a bind with a verdict.
\* It tells DNs apart whatever their spelling, and may accept a bind without
\* a password, which verifies nothing.
DirectoryAnswers(i, success) ==
  LET request == toUpstream[i]
      verified == success /\ ChecksPassword(request.message)
  IN  /\ phase = "relay" /\ ~upstreamEof /\ Len(toProxy) < Capacity
      /\ success => request.message.op = "BindRequest"
      /\ toUpstream' = SubSeq(toUpstream, 1, i - 1) \o SubSeq(toUpstream, i + 1, Len(toUpstream))
      /\ toProxy' = Append(toProxy, [n |-> request.n, id |-> request.id, by |-> "directory",
                                     op |-> ResponseOp(request.message), success |-> success])
      /\ log' = IF verified THEN [log EXCEPT !.accepted = @ \cup {Claim(request.n)}] ELSE log
      /\ UNCHANGED <<phase, read, client, toClient, relay, writer, bindState, upstreamEof>>

DirectoryCloses ==
  /\ PeersClose
  /\ phase = "relay" /\ ~upstreamEof
  /\ upstreamEof' = TRUE
  /\ UNCHANGED <<phase, read, client, toClient, relay, writer, bindState, toUpstream,
                 toProxy, log>>

-----------------------------------------------------------------------------
(* handle_connection up to the relay loops                                 *)

\* handle_connection returns: both streams and both relay loops are dropped.
Close ==
  /\ phase' = "closed"
  /\ UNCHANGED <<read, client, toClient, relay, writer, bindState, upstream, log>>

Halves(frame) == [part \in 1..2 |-> [frame |-> frame, part |-> part]]

\* maybe_upgrade_to_tls answers a StartTLS request (the empty socket buffer
\* takes the response at once).
AnswerStarttls ==
  /\ phase = "peek" /\ read < Len(requests)
  /\ UpgradeRequest(requests[read + 1].message)
  /\ read' = read + 1
  /\ toClient' = toClient \o Halves([n |-> read + 1, id |-> requests[read + 1].id, by |-> "upgrade",
                                     op |-> "ExtendedResp", success |-> TRUE])
  /\ phase' = "upgrade"
  /\ UNCHANGED <<client, relay, writer, bindState, upstream, log>>

\* Faulty: the frame that was peeked is not handed back.
LoseFirstFrame ==
  /\ phase = "peek" /\ read < Len(requests)
  /\ requests[read + 1].message.op # "malformed"
  /\ ~UpgradeRequest(requests[read + 1].message)
  /\ read' = read + 1
  /\ phase' = "connect"
  /\ UNCHANGED <<client, toClient, relay, writer, bindState, upstream, log>>

\* Any other first frame is kept, for relay_client_requests to begin with.
KeepFirstFrame ==
  /\ phase = "peek" /\ read < Len(requests)
  /\ requests[read + 1].message.op # "malformed"
  /\ ~UpgradeRequest(requests[read + 1].message)
  /\ read' = read + 1
  /\ relay' = [relay EXCEPT !["c2u"] = At("first", requests[read + 1])]
  /\ phase' = "connect"
  /\ UNCHANGED <<client, toClient, writer, bindState, upstream, log>>

\* The client closed before its first frame: the upgrade is skipped.
PeekEof ==
  /\ phase = "peek" /\ read = Len(requests) /\ clientEof
  /\ phase' = "connect"
  /\ UNCHANGED <<read, client, toClient, relay, writer, bindState, upstream, log>>

\* upgrade_request cannot decode the first frame.
PeekGarbage ==
  /\ phase = "peek" /\ read < Len(requests)
  /\ requests[read + 1].message.op = "malformed"
  /\ Close

\* The TLS accept reads the socket where read_frame stopped. Plaintext that
\* the client sent behind its StartTLS request is there, and is no handshake.
Handshake ==
  /\ phase = "upgrade"
  /\ read = Len(requests) /\ ~clientEof
  /\ phase' = "connect"
  /\ UNCHANGED <<read, client, toClient, relay, writer, bindState, upstream, log>>

HandshakeFails == phase = "upgrade" /\ Close

\* connect_upstream, which UpstreamPool models, under io_timeout.
ConnectUpstream ==
  /\ phase = "connect"
  /\ phase' = "relay"
  /\ UNCHANGED <<read, client, toClient, relay, writer, bindState, upstream, log>>

ConnectFails == phase = "connect" /\ Close

-----------------------------------------------------------------------------
(* relay_client_requests                                                   *)

\* For the log: the latest of the binds handled so far that claimed under id.
LatestClaim(id) ==
  Max({n \in 1..read : requests[n].id = id /\ BindRequest(requests[n].message) # Absent})

\* Faulty: no eviction at the limit.
StageUnbounded(id, dn) ==
  /\ pending' = [i \in DOMAIN pending \cup {id} |-> IF i = id THEN dn ELSE pending[i]]
  /\ log' = log

\* stage_pending_bind
StagePendingBind(id, dn) ==
  LET full == Cardinality(DOMAIN pending) >= MaxPendingBinds /\ id \notin DOMAIN pending
      victims == IF full THEN {Min(DOMAIN pending)} ELSE {}
  IN  /\ pending' = [i \in (DOMAIN pending \ victims) \cup {id} |->
                       IF i = id THEN dn ELSE pending[i]]
      /\ log' = [log EXCEPT !.evicted = @ \cup {LatestClaim(i) : i \in victims}]

\* Faulty: the identity is the one the connection began with.
FirstIdentity == Peer

\* The identity that handle_client_frame evaluates an action under.
ChargedIdentity == identity

\* Faulty: the rejection is logged and the request forwarded all the same.
ForwardAnyway(frame, verdict) == At("forward", frame)

\* What becomes of an action: forwarded, or answered by build_rejection.
AfterVerdict(frame, verdict) ==
  IF verdict = "allow" THEN At("forward", frame)
  ELSE At("lock", [n |-> frame.n, id |-> frame.id, by |-> "rejection",
                   op |-> BuildRejection(frame.message), success |-> FALSE])

\* handle_client_frame up to its first await: a claim is staged, what decode
\* ignores is forwarded, an action is evaluated.
HandleClientFrame(frame, verdict) ==
  LET claim == BindRequest(frame.message)
      action == Decode(frame.message)
  IN  /\ action # Undecodable
      /\ \/ /\ action = Absent /\ verdict = "allow"
            /\ IF claim # Absent THEN StagePendingBind(frame.id, claim)
               ELSE UNCHANGED <<pending, log>>
            /\ relay' = [relay EXCEPT !["c2u"] = At("forward", frame)]
         \/ /\ action # Absent
            /\ relay' = [relay EXCEPT !["c2u"] = AfterVerdict(frame, verdict)]
            /\ log' = [log EXCEPT !.charged = Append(@, [n |-> frame.n, to |-> ChargedIdentity,
                                                         verdict |-> verdict])]
            /\ UNCHANGED pending

HandleFirstFrame(verdict) ==
  /\ phase = "relay" /\ relay["c2u"].at = "first"
  /\ HandleClientFrame(relay["c2u"].frame, verdict)
  /\ UNCHANGED <<phase, read, client, toClient, writer, identity, upstream>>

ReadRequest(verdict) ==
  /\ phase = "relay" /\ relay["c2u"].at = "read" /\ read < Len(requests)
  /\ read' = read + 1
  /\ HandleClientFrame(requests[read + 1], verdict)
  /\ UNCHANGED <<phase, client, toClient, writer, identity, upstream>>

\* bind_request or decode cannot decode the frame.
ReadGarbage ==
  /\ phase = "relay"
  /\ \/ relay["c2u"].at = "first" /\ Decode(relay["c2u"].frame.message) = Undecodable
     \/ relay["c2u"].at = "read" /\ read < Len(requests)
        /\ Decode(requests[read + 1].message) = Undecodable
  /\ Close

ClientEof ==
  /\ phase = "relay" /\ relay["c2u"].at = "read" /\ read = Len(requests) /\ clientEof
  /\ Close

\* upstream_write.write_all
ForwardRequest ==
  /\ phase = "relay" /\ relay["c2u"].at = "forward" /\ Len(toUpstream) < Capacity
  /\ toUpstream' = Append(toUpstream, relay["c2u"].frame)
  /\ log' = [log EXCEPT !.forwarded = Append(@, relay["c2u"].frame.n)]
  /\ relay' = [relay EXCEPT !["c2u"] = Reading]
  /\ UNCHANGED <<phase, read, client, toClient, writer, bindState, toProxy, upstreamEof>>

-----------------------------------------------------------------------------
(* relay_upstream_responses                                                *)

\* Faulty: the claim is promoted whatever the directory said.
ResolveAnyResult(response) ==
  IF BindResponse(response) # Absent /\ response.id \in DOMAIN pending
  THEN /\ identity' = pending[response.id]
       /\ pending' = [i \in DOMAIN pending \ {response.id} |-> pending[i]]
  ELSE UNCHANGED bindState

\* Faulty: the claim is discarded and not promoted.
DiscardClaim(response) ==
  /\ pending' = [i \in DOMAIN pending \ {response.id} |-> pending[i]]
  /\ UNCHANGED identity

\* resolve_pending_bind
ResolvePendingBind(response) ==
  IF BindResponse(response) # Absent /\ response.id \in DOMAIN pending
  THEN /\ identity' = IF BindResponse(response) = "accepted" THEN pending[response.id]
                   ELSE identity
       /\ pending' = [i \in DOMAIN pending \ {response.id} |-> pending[i]]
  ELSE UNCHANGED bindState

ReadResponse ==
  /\ phase = "relay" /\ relay["u2c"].at = "read" /\ toProxy # <<>>
  /\ ResolvePendingBind(Head(toProxy))
  /\ toProxy' = Tail(toProxy)
  /\ relay' = [relay EXCEPT !["u2c"] = At("lock", Head(toProxy))]
  /\ UNCHANGED <<phase, read, client, toClient, writer, toUpstream, upstreamEof, log>>

UpstreamEof ==
  /\ phase = "relay" /\ relay["u2c"].at = "read" /\ toProxy = <<>> /\ upstreamEof
  /\ Close

-----------------------------------------------------------------------------
(* client_write.lock().await.write_all(..).await, in either loop           *)

\* Faulty: each loop writes to the client without the lock.
WriteUnlocked(loop) ==
  /\ phase = "relay" /\ relay[loop].at = "lock"
  /\ relay' = [relay EXCEPT ![loop].at = "write"]
  /\ UNCHANGED <<phase, read, client, toClient, writer, bindState, upstream, log>>

LockClient(loop) ==
  /\ phase = "relay" /\ relay[loop].at = "lock" /\ writer = None
  /\ writer' = loop
  /\ relay' = [relay EXCEPT ![loop].at = "write"]
  /\ UNCHANGED <<phase, read, client, toClient, bindState, upstream, log>>

\* The first half of the frame, then the second, which releases the lock.
WriteClient(loop) ==
  LET frame == relay[loop].frame
      part == IF relay[loop].at = "write" THEN 1 ELSE 2
  IN  /\ phase = "relay" /\ relay[loop].at \in {"write", "rest"}
      /\ Len(toClient) - received < Capacity
      /\ toClient' = Append(toClient, Halves(frame)[part])
      /\ IF part = 1
         THEN relay' = [relay EXCEPT ![loop].at = "rest"] /\ UNCHANGED writer
         ELSE relay' = [relay EXCEPT ![loop] = Reading] /\ writer' = None
      /\ UNCHANGED <<phase, read, client, bindState, upstream, log>>

-----------------------------------------------------------------------------
(* with_timeout                                                            *)

\* What a relay loop awaits is not there.
Waiting(loop) ==
  \/ loop = "c2u" /\ relay[loop].at = "read" /\ read = Len(requests) /\ ~clientEof
  \/ loop = "u2c" /\ relay[loop].at = "read" /\ toProxy = <<>> /\ ~upstreamEof
  \/ relay[loop].at = "forward" /\ Len(toUpstream) = Capacity
  \/ relay[loop].at = "lock" /\ writer # None
  \/ relay[loop].at \in {"write", "rest"} /\ Len(toClient) - received = Capacity

\* Faulty: the relay loops have a deadline on their writes only.
TimeOutWrites ==
  /\ \/ phase = "peek" /\ read = Len(requests) /\ ~clientEof
     \/ phase = "relay" /\ \E loop \in Loop : Waiting(loop) /\ relay[loop].at # "read"
  /\ Close

\* Faulty: the relay loops have a deadline on their reads only.
TimeOutReads ==
  /\ \/ phase = "peek" /\ read = Len(requests) /\ ~clientEof
     \/ phase = "relay" /\ \E loop \in Loop : Waiting(loop) /\ relay[loop].at = "read"
  /\ Close

\* io_timeout expires on a read, a write or the lock. (The handshake's and
\* the connect's are HandshakeFails and ConnectFails.)
TimeOut ==
  /\ \/ phase = "peek" /\ read = Len(requests) /\ ~clientEof
     \/ phase = "relay" /\ \E loop \in Loop : Waiting(loop)
  /\ Close

\* A read or a write fails, or shutdown aborts the task.
IoError == phase # "closed" /\ Close

ClientStep == 
  \/ \E message \in Message, id \in MessageId : ClientSends(message, id)
  \/ ClientCloses \/ ClientReceives
DirectoryStep ==
  \/ \E i \in DOMAIN toUpstream, success \in BOOLEAN : DirectoryAnswers(i, success)
  \/ DirectoryCloses
SetUp ==
  \/ AnswerStarttls \/ KeepFirstFrame \/ PeekEof \/ PeekGarbage
  \/ Handshake \/ HandshakeFails
  \/ ConnectUpstream \/ ConnectFails
ClientToUpstream ==
  \/ \E verdict \in {"allow", "block"} : HandleFirstFrame(verdict) \/ ReadRequest(verdict)
  \/ ReadGarbage \/ ClientEof \/ ForwardRequest \/ LockClient("c2u") \/ WriteClient("c2u")
UpstreamToClient ==
  \/ ReadResponse \/ UpstreamEof \/ LockClient("u2c") \/ WriteClient("u2c")

Next ==
  \/ ClientStep \/ DirectoryStep
  \/ SetUp \/ ClientToUpstream \/ UpstreamToClient
  \/ TimeOut \/ IoError

\* The runtime polls a ready task and fires an expired timer. Nothing is
\* assumed of the client, the directory or the network.
Spec ==
  /\ Init /\ [][Next]_vars
  /\ WF_vars(SetUp) /\ WF_vars(ClientToUpstream) /\ WF_vars(UpstreamToClient)
  /\ WF_vars(TimeOut)

-----------------------------------------------------------------------------

Request ==
  [n : 1..MaxRequests, id : MessageId, message : Message, as : Dn \cup {Peer, None},
   reuses : BOOLEAN]
Response ==
  [n : 1..MaxRequests, id : MessageId, by : {"directory", "upgrade", "rejection"},
   op : {ResponseOp(m) : m \in Message}, success : BOOLEAN]

\* The type invariant; for a loop, the frame it carries fits where it is.
TypeOK ==
  /\ phase \in {"peek", "upgrade", "connect", "relay", "closed"}
  /\ clientEof \in BOOLEAN /\ upstreamEof \in BOOLEAN
  /\ \A n \in DOMAIN requests : requests[n] \in Request
  /\ read \in 0..Len(requests) /\ received \in 0..Len(toClient)
  /\ \A i \in DOMAIN toClient : toClient[i] \in [frame : Response, part : 1..2]
  /\ Len(toClient) - received <= Capacity
  /\ DOMAIN relay = Loop
  /\ \A loop \in Loop :
       \/ relay[loop] = Reading
       \/ loop = "c2u" /\ relay[loop].at \in {"first", "forward"} /\ relay[loop].frame \in Request
       \/ relay[loop].at \in {"lock", "write", "rest"} /\ relay[loop].frame \in Response
  /\ \A loop \in Loop : writer = loop <=> relay[loop].at \in {"write", "rest"}
  /\ writer \in Loop \cup {None}
  /\ identity \in Dn \cup {Peer}
  /\ DOMAIN pending \subseteq MessageId
  /\ \A id \in DOMAIN pending : pending[id] \in Dn
  /\ Len(toUpstream) <= Capacity /\ Len(toProxy) <= Capacity

\* The message IDs under which the client bound again before it had read the
\* answer to the bind before.
Reused == {requests[n].id : n \in {m \in DOMAIN requests : requests[m].reuses}}

\* The connection's identity is its peer address or a DN whose bind the
\* directory accepted on this connection with a password: neither a claim
\* alone changes it nor a bind without one, which many directories accept
\* (BindState, bind_request, resolve_pending_bind). Only for a message ID
\* that was reused while it was outstanding is it no more than a claim made
\* under that ID: stage_pending_bind overwrites the claim, and the answer to
\* either bind resolves what is there.
IdentityVerified ==
  \/ identity \in {Peer} \cup log.accepted
  \/ \E n \in 1..read : requests[n].id \in Reused /\ BindRequest(requests[n].message) = identity

\* Of a client that reuses no outstanding message ID, the identity is always
\* the one of the last successful bind response that was written to it, or is
\* about to be: resolve_pending_bind runs before the response is relayed, so
\* a client that has read a bind's success is never charged under an older
\* identity, whatever it pipelined, under whatever IDs, and in whatever order
\* the directory answered. (A claim that was evicted at MAX_PENDING_BINDS does
\* not count.)
IdentityMatchesTold ==
  LET telling == relay["u2c"].at # "read" /\ Verifies(relay["u2c"].frame)
  IN  Reused = {} =>
        identity = IF telling THEN Claim(relay["u2c"].frame.n) ELSE ToldDn(Len(toClient))

\* An action that the client sends when all its binds have been answered is
\* charged to the identity those answers gave it, unless it reused their
\* message IDs: handle_client_frame reads
\* the identity when it evaluates the action, not when the connection began
\* or when a bind was claimed.
ChargedAsTold ==
  \A i \in DOMAIN log.charged :
    LET sent == requests[log.charged[i].n]
    IN  sent.as # None /\ Reused = {} => log.charged[i].to = sent.as

\* Where the n-th request is: handled by the upgrade, held by
\* relay_client_requests, sent to the directory, or rejected.
Whereabouts(n) ==
  {place \in {"upgraded", "held", "forwarded", "rejected"} :
     \/ place = "upgraded" /\ \E i \in DOMAIN toClient :
                                IsAnswer(toClient[i], n) /\ toClient[i].frame.by = "upgrade"
     \/ place = "held" /\ relay["c2u"].at # "read" /\ relay["c2u"].frame.n = n
     \/ place = "forwarded" /\ \E i \in DOMAIN log.forwarded : log.forwarded[i] = n
     \/ place = "rejected" /\ \E i \in DOMAIN toClient :
                                IsAnswer(toClient[i], n) /\ toClient[i].frame.by = "rejection"}

\* No request is lost, duplicated or overtaken: each one that was read is in
\* exactly one place, the first frame that maybe_upgrade_to_tls peeked
\* included, and the directory gets them in the order they were sent.
EveryRequestOnce ==
  /\ \A n \in 1..read : Cardinality(Whereabouts(n)) = 1
  /\ \A i, j \in DOMAIN log.forwarded : i < j => log.forwarded[i] < log.forwarded[j]

\* A blocked action never reaches the directory, no request gets two answers,
\* or both the proxy's rejection and the directory's, and every answer is of
\* the kind the request asks for and under its message ID ("clients validate that a response's tag
\* matches the request", build_rejection).
BlockedAnsweredHere ==
  /\ \A i \in DOMAIN log.charged :
       log.charged[i].verdict = "block" =>
         \A j \in DOMAIN log.forwarded : log.forwarded[j] # log.charged[i].n
  /\ \A i \in DOMAIN toClient :
       /\ toClient[i].frame.op = ResponseOp(requests[toClient[i].frame.n].message)
       /\ toClient[i].frame.id = requests[toClient[i].frame.n].id
  /\ \A i, j \in DOMAIN toClient :
       toClient[i].part = 2 /\ toClient[j].part = 2 /\ toClient[i].frame.n = toClient[j].frame.n
         => i = j

\* The client stream is a sequence of whole frames, the last perhaps cut off
\* by the end of the connection: the rejections of one loop and the
\* responses of the other do not mix (client_write).
WholeFrames ==
  \A i \in DOMAIN toClient :
    /\ toClient[i].part = IF i % 2 = 1 THEN 1 ELSE 2
    /\ i % 2 = 0 => toClient[i].frame = toClient[i - 1].frame

\* Claims do not pile up: there are at most MAX_PENDING_BINDS, and each is
\* of a bind whose response relay_upstream_responses has yet to see.
PendingOutstanding ==
  /\ Cardinality(DOMAIN pending) <= MaxPendingBinds
  /\ \A id \in DOMAIN pending :
       \/ relay["c2u"].at = "forward" /\ relay["c2u"].frame.id = id
       \/ \E i \in DOMAIN toUpstream : toUpstream[i].id = id
       \/ \E i \in DOMAIN toProxy : toProxy[i].id = id

\* A frame that a relay loop has taken in is passed on in full, or the
\* connection ends, whatever the client and the directory do, and however much
\* more is on its way: neither loop stays in a write to a peer that does not
\* read, nor in wait for the lock that the other holds meanwhile
\* (with_timeout around each of them).
FramesPassOn ==
  \A loop \in Loop :
    relay[loop].at # "read" ~> relay[loop].at = "read" \/ phase = "closed"

\* A client that sends no more, since it closed its side or has made its last
\* request, does not hold the connection open, whether or not it was answered:
\* the deadline of relay_client_requests' next read runs out. (While it goes
\* on sending, a request that the directory leaves unanswered stays so for as
\* long as the directory answers others in time: io_timeout is per read.)
SilenceEnds == (clientEof \/ Len(requests) = MaxRequests) ~> phase = "closed"
==============================================================================
