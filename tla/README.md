# A TLA+ verification project for PeregrineProxy

PeregrineProxy is an asynchronous HTTP/SOCKS5 proxy written in Rust on top of
tokio and hyper. This directory holds TLA+ models of its parts, TLC
configurations that check them on small instances, and TLAPS proofs of what
matters most for instances of every size. File names and line numbers refer to
the Rust sources (`server.rs` is `src/server.rs` of the repository).

Contents: 1 inventory, 2 modules and how they correspond to the code, 3 runs,
4 fairness, 5 proofs, 6 what the runs found, 7 what is not modelled, 8 plan.

## 1. Inventory

| Part | Source | State | Operations | Hard behaviour |
|---|---|---|---|---|
| Server | `server.rs` | semaphore permits and their wait queue, one accept loop per listener, one task per connection, the `Notify`, the position of `run()` | bind, accept, acquire, spawn, peek, drop permit, Ctrl-C, join, drain | several loops race for permits; Ctrl-C meets loops in any position; drain against a timer; tunnels that outlive their permit |
| Protocol detection | `protocol/detect.rs`, `server.rs:282-323` | none (pure function of the peeked bytes) | peek, `detect_protocol`, dispatch | short first segments in a zero-padded buffer |
| HTTP handler | `protocol/http_handler.rs` | request loop of a connection, upstream connection and driver task per request, tunnel task | forward, CONNECT, upgrade, tunnel | the 200 answer, the upgrade and the dial of a CONNECT run in two tasks; pipelining; broken responses |
| SOCKS5 server | `protocol/socks5/{handshake,mod,tcp_connect}.rs` | position in the handshake, fields read, replies written | negotiate, authenticate, read request, dial, relay | any segmentation; a timeout or end of file at each read; a reply on every path |
| SOCKS5 UDP relay | `protocol/socks5/udp_associate.rs` | map from client address to socket, one task per datagram, one listener per socket | receive, bind, insert, send, forward answers, control channel closes | check-then-insert across an await; clean-up by address; listeners outlive the association |
| Upstream connectors, chain, router | `upstream/*.rs` | current hop, far end of the stream | connect, wrap in TLS, handshake per hop | which hop is asked for whom; whose bytes a read takes; early data of the target |
| ACL | `acl/*.rs`, `http_handler.rs:185-210` | the configured rules | `from_config`, `check_request`, `check_access`, `get_auth_users_for_rule`, `check_proxy_auth` | first match wins; two lookups that should agree; patterns sorted into three stores |
| Configuration reload | `server.rs:115-157`, `config.rs` | watch channel, file, pending signal | SIGHUP, reload, send | signals during a reload or before the handler exists; a file half written; nobody reads the channel |
| Metrics endpoint | `metrics.rs` | counters, gauge, registry | increment, scrape | not connected to the server |
| Logging, errors, CLI | `logging.rs`, `error.rs`, `main.rs`, `lib.rs` | none of interest | set-up | none |

How they interact: `main` calls `server::run`, which spawns an `accept_loop` per
listener; all loops share one `Semaphore` and one `Notify`. A loop waits for a
permit itself (not the new task), so a full server stops accepting. The
connection's task owns the permit; it detects the protocol and calls the HTTP or
the SOCKS5 handler, and drops the permit when the handler returns. The HTTP
handler spawns further tasks (a driver per upstream connection, a tunnel task
per CONNECT) that own no permit. A SOCKS5 UDP ASSOCIATE spawns a task per
datagram and a listener per socket, which share `client_map`. The upstream
connectors are library code: the handlers use `DirectConnector` only. ACL,
metrics and reload are not called by the server's data path.

What makes each part correct:

- Server: permits are conserved on every path; the wait queue is consistent with
  the blocked loops and served in order; once accepting has stopped the process
  ends; a drain reported as clean left no permit owner behind.
- HTTP handler: responses in the order of the requests, each from its own target
  and whole; connections and tasks it spawns come to an end; a tunnel's target is
  dialled only with the client's socket in hand, and neither the handler's task nor the
  tunnel's waits for the other.
- SOCKS5 server: a request is acted on only if it was framed and authorised;
  replies tell what happened; no read waits for ever.
- UDP relay: answers reach the client that asked; entries of the map lead to live
  sockets; what came in is forwarded while the association lasts; datagrams are parsed as
  they were meant.
- Connectors: a stream that is returned ends at the target, through all hops;
  credentials go to their hop only; a handshake takes exactly its own bytes, and
  does not wait for a peer that waits for it.
- Detection: what a client is taken for does not depend on how its bytes are cut.
- ACL: the first rule that matches decides, and the users who may authenticate
  are those of that rule; a pattern matches what it says.
- Reload: the last signal counts, and what it loads comes into force.

The hazards of the code, each at its line and with the properties aimed at it,
are listed in `PROJECT.json` under `hazards`.

## 2. Modules

`AdmissionControl` is the abstract promise of the server: connections are
admitted up to a limit, while the server serves; then it drains; then it has
ended, with a report that is "clean" only if nobody was left.

`Server` models `server.rs`. Variables: `main` is the position of `run()`,
`outcome` its last log line, `loop` the position of each `accept_loop`, `conn`
and `on` the stage and the listener of each connection slot, `tunnel` the stage of
its tunnel task, if it has one, `available` and `waiters` the semaphore. Actions are
named after the code: `Bind`, `EnterSelect`,
`Accept` (accept branch and `acquire_owned`), `Spawn`, `AcceptError`, `StopLoop`
(the shutdown branch), `TlsAccepted`, `TlsFailed`, `Peek`, `HttpConnect`,
`Upgraded`, `HandlerReturns`, `TunnelConnects`, `TunnelEnds`, `SignalFails`
(`ctrl_c().await?` returns its error), `Shutdown`
(Ctrl-C and `notify_waiters`), `JoinedIdle`, `JoinedBusy`, `DrainDone`,
`DrainTimeout`. Three details of tokio decide the outcome and are kept: a
released permit goes to the task that waits longest (`Release`);
`notify_waiters` reaches only futures that exist at that moment (a loop is
`"select"` only between entering and leaving `select!`); and `select!` may take
any branch that is ready (`Accept` is enabled in `"notified"` too). The drain
asks for `MaxConn % U32` permits, as `max_conn as u32` does.

`ConnTask` is the contract between `Server` and the HTTP handler: the two tasks of a
connection from the start of its handler. `handler` is the task that owns the permit
and gives it back when the handler returns, `tunnel` the one `handle_connect` spawns,
which owns none. hyper fulfils the upgrade before `serve_connection` returns; from then
on nothing in the code orders the two, so the tunnel may be dialled, open or over before
the permit is back, or long after (`http_handler.rs:138-169`, `server.rs:254-255`).
`HttpHandler` implements its `Spec` (property `TaskSpec`; the safety half is the theorem
`ImplementsConnTask`), and `Server` moves such connections by its `Next` only (property
and theorem `HandlersFollowConnTask`).

`HttpHandler` models one client connection of `http_handler.rs`: `taken` counts
the requests given to the service, `serve` is the await `serve_connection` is
in, `upstream[i]` the connection made for request i (`to`, the request it
carries, how much of the response has come in), `replies` what the client got,
`tunnel` the task of `handle_connect`. `Upgrade` hands the socket to that task, `Return`
is the return of `serve_connection` that follows. `ServeEnds` stands for everything that
makes hyper end a connection; it drops the service's future at any await.

`Socks5Server` models one session of `socks5/{handshake,mod,tcp_connect}.rs` on
real bytes: `pipe` is what the client has written, `arrived` how much of it has
arrived, `pc` the `read_exact` the session is at; `Wanted` gives each buffer its
size. A read takes its bytes once they have all arrived, or its timer fires.

`Socks5Link` gives this session its beginning and its client. `door` says who has
the connection: `handle_connection`, until one `peek` has shown it a first byte
(`Detection` holds `detect_protocol` and the zero-padded buffer), then the
session, the HTTP handler or nobody; a session called directly, as the tests
call `handle_socks5`, may have users, one dispatched by the server has none.
`client` is either a script written without waiting for answers or the handshake
of `socks5_proxy.rs`, which `chain.rs` repeats: it writes its messages into the
session's `pipe` and reads `down` up to `took`, a `read_exact` at a time, without
timeouts. `WellFormed` are the sessions the protocol knows: their lengths fit the
length bytes, their addresses have the size of their type (the reserved byte may be
anything, as nobody looks at it). The length bytes of a connector are cut to a byte as `len() as u8` does, and one
connector of the instance has a name of 256 bytes.

`UdpRelay` models the tasks of one UDP association: `task` (a slot per datagram),
`clientMap` (`client_map`), `listener` (a task per socket), `inbox` (answers in
a socket's buffer). `Lookup` and `BindSocket` are two actions because the code
awaits `bind` between them. `Association` is what a client may expect of all
this, without sockets, tasks or the map: answers come only from targets it has
asked itself, and as long as the association lasts (`open`) each is passed on or lost; of
what comes after its end nothing is demanded. `UdpRelay` implements it: `open` is the
control channel's state, `asked` is
`sent` without its sockets, `coming` counts, for each client and target, the
answers in the buffers of all sockets whose listener serves that client (there may
be several). `UdpPacket` holds the parser and the builder of the
datagrams as functions on byte strings.

`ProxyChain` models `upstream/*.rs`: `hop` is the hop whose handshake is made,
`far` who is at the far end of the stream (each proxy that says yes moves it on),
`down` the pieces of messages in flight. HTTP responses come in three pieces, so
that one `read` can cut or overrun them; SOCKS5 answers are taken by
`read_exact`. `wrap_tls` is two steps: the proxy's side of the handshake (`AnswerTls`,
external) and the return of `wrap_tls` after it (`WrapTls`).

`AccessControl` holds the ACL as operators: `NewFilter` and `FilterMatches` are
`DomainFilter`, `FromConfig` and `BuildRule` are `from_config`, `CheckRequest` and
`GetAuthUsers` the two scans of the rules, `ParseBasicAuth` and `CheckProxyAuth`
the credentials of an HTTP request. A network, a glob and a regular expression
are known by what they match and by whether they compile; the text of
credentials is a sequence of characters, as the place of its colons matters.

`Configuration` is the life of a configuration: an operator adds rules to the
file (`BeginEdit`, `EndEdit`: in between a reader may find any beginning
of it: an error, or the rules up to a cut) and sends
SIGHUP (`Hangup`); the task of `run()` (`Install`, `Receive`, `Load`, `Send`)
reads the file and sends the result into the watch channel. `inForce` is the copy
`run()` took at its start. The decisions of `AccessControl` are checked in every
state of it, that is for every configuration a file may hold.

`MC...` modules give the constants values for TLC. `ServerProofs`,
`UdpRelayProofs`, `UdpPacketProofs`, `HttpHandlerProofs`, `ProxyChainProofs` and
`ConfigurationProofs` hold the theorems about the module they are named after,
`Socks5LinkProofs` those about the SOCKS5 session and its client, from the lemmas
of `Socks5ServerProofs` about a step of the session. Operators commented as "Mutant" are wrong versions of the
definition that follows them; no specification uses them. For each property one of them
(named in `PROJECT.json`) shows that the property would notice such a bug.

## 3. Runs

| Run | What it asks | Bounds and why they are enough |
|---|---|---|
| `server` | type invariant, `PermitsConserved`, `WaitQueueSound`, that `AdmissionControl` is implemented, `HandlersFollowConnTask`, `StoppedServerExits`, `WaiterServed` | 2 listeners (one with TLS), 3 connections, 1 permit: both loops wait for a permit at once, while the third connection holds it; slots are used again. Tunnels stay behind, binds and `ctrl_c()` fail. More permits and connections are covered by the proofs. |
| `http` | `RepliesTruthful`, `OneAtATime`, `UpstreamsReleased`, `RequestsSettled`, and that `ConnTask` is implemented, its fairness included | every script of up to 3 requests of every kind to 2 targets: answers can be confused, reordered and follow a CONNECT. |
| `socks5` | `RequestFramed`, `NothingWithoutAuth`, `RepliesTruthful`, `SessionEnds`, `Dispatched`, `LinkConnects`, `NeverBothWait` | sessions of every command, address type and outcome of the authentication, with early payload, and malformed ones that stop at each check; connectors with right, wrong and no credentials, to every type of address; first bytes of other protocols; with and without users; every segmentation. |
| `udp_relay` | `EntriesAreLive`, `SendersHaveListeners`, `AnswersAreForwarded`, and that `Association` is implemented, its fairness included | 2 clients, 1 target, 3 sockets, 2 datagrams in processing: two tasks of one client, or of two, interleave, with one more socket to replace a failed one; the control channel closes at any time. |
| `udp_packet` | `PrefixesUnderstood`, `AcceptedIsRebuilt` | every address type, empty and longest names, cut at every byte, any of the first five bytes replaced. |
| `chain` | `StreamsReachTheTarget`, `CredentialsStayHome`, `StreamsAreExact`, `CredentialsInTls`, `ConnectSettles` | every single upstream and every chain of up to 3 hops: a hop with a predecessor and a successor exists; the target may send two pieces on its own. |
| `configuration` | `LastSignalCounts`, `AddedRulesComeLast`, `FilterMeansItsPatterns`, `UsersOfTheDecidingRule`, `OwnHeadersUnderstood` | files of up to 2 rules out of 13 that cover every condition, action and error, under each default action: of two rules the first hides the second or does not; the file may change during a reload and once more after it, and be read when any number of its rules are there. |
| `server_shutdown`, `server_tunnels`, `udp_leak`, `policy_ports`, `reload_applied` | statements of the repository that the code does not meet, see 6 | the smallest instance that shows it |

Deadlock is checked for `Server` and `Socks5Link`, whose last states stutter
explicitly. The other models end in states where nothing is left to do.

Bounds that are not in the code: the number of connection slots (`Conns`),
datagram slots (`Packets`) and sockets (`Sockets`), one waiting answer per
target and socket (`UdpRelay!Respond`), the length of a script (`MaxRequests`),
of a chain (`MaxHops`) and of what a target sends unasked (`MaxData`), the rules
in a file (`MaxRules`).

## 4. Fairness

Liveness assumes what the runtime does: a task that is ready runs, a timer that
is armed fires. In `Server` this is weak fairness of `run()` (`MainStep`) and of
each loop (`LoopStep`); `AcceptError` and everything clients do is left out, so
a silent client may keep its permit for ever, as in the code, which has no
timeout there. `WaiterServed` states its further assumption in the formula:
`FairClients`, each connection's task gets on. In `Socks5Link` weak fairness
of `LSession` says that a read completes or its timer fires and that an attempt
to connect is decided by the kernel, that of `Connects` that the connector's task
goes on when its answer, or the end of the stream, is there; delivery of bytes
and `peek`, which has no timeout, are not fair, so `SessionEnds` starts when the
session does. In `UdpRelay` tasks and listeners are fair, targets and clients are
not; `Association` demands that answers be passed on only until the control channel
closes, and so does `AnswersAreForwarded`, although the listeners go on (see 6). In
`HttpHandler` the service, the failing upgrade and the driver tasks are fair, while the
tunnel task is not: its target may be slow. A write to a client is taken to complete. In
`ProxyChain` the connector is fair, in `Configuration` the reload task.

Where the code has no timeout a silent peer can hold it for ever; there the
property says so in its own formula: `RequestsSettled` assumes that each target
answers or closes, `ConnectSettles` that whoever has been asked answers, the proxy's side
of a TLS handshake (`AnswerTls`) included, as `wrap_tls` has no timeout either
(`upstream/mod.rs:49`). What they claim is that the program itself waits for no more than
that. A dial is ended by the kernel.

## 5. Proofs

Every safety property the runs check is a theorem too, for every value of the
constants. Theorems are about `SafeSpec` (`LSafeSpec` of `Socks5Link`), the specification without its
fairness (`UdpPacket` has none to leave out). In each module the argument is the same: an inductive
invariant `IInv`, lemmas that the initial states satisfy it and that each action
keeps it, and the property as a consequence. What differs is what `IInv` has to add.

**Server** (`ServerProofs`: `TypeCorrectness`, `PermitConservation`, `WaitQueue`,
`HandlerContract`, `ImplementsAdmissionControl`). Neither the conservation of
permits nor the queue is inductive alone: handing a permit to the head of the queue
keeps the count only if the head does wait (`Queue`); a granted connection is
spawned by its loop only if the loop blocks on exactly it (`Loops`); that nobody
waits while a permit is free (`NoIdlePermit`) needs both; and the drain is clean
only because stopped loops stay stopped and therefore nobody is admitted any more
(`Stages`). The refinement maps the owners of a permit to `admitted` and `main`,
`outcome` to `phase`, `report` through two tables, and assumes `MaxConn < U32`:
without that it is false, as the drain then asks for too few permits
(`server.rs:279`). `HandlerContract` needs `IInv` because a drop moves a second
connection, which must be one that is not with a handler, and because a tunnel task that
has not got its socket, or is over, is there only while its handler runs (`Attached`).

**UDP relay** (`UdpRelayProofs`: `TypeCorrect`, `EntriesAlwaysLive`,
`SendersAlwaysHaveListeners`, `ImplementsAssociation`). That an entry of the map leads
to a live socket survives a listener's clean-up only because a listener's client never
changes and a socket is sent from for that client alone (`SocketsServe`), and because
a task that is about to send has a socket with a listener (`TasksKnow`,
`SendersHaveListeners`). In the refinement an answer taken from a buffer must be one
that is counted in `coming`, and counted once (`Inboxes`).

**UDP datagrams** (`UdpPacketProofs`: `PrefixesAlwaysUnderstood`,
`AcceptedAlwaysRebuilt`). The invariant says only that bytes come in (`Bytes`). The
content is in four lemmas about functions: where the builder puts each part
(`BuildLays`), what the parser takes for each part (`PartFacts`), that building what
was parsed gives the packet back (`Rebuilt`), and that every prefix of a packet is
parsed as it was meant or rejected (`Understood`).

**HTTP handler** (`HttpHandlerProofs`: `TypeCorrect`, `RepliesAlwaysTruthful`,
`AlwaysOneAtATime`, `ImplementsConnTask`). A response is the right one because the
connection it came from was made for the request now being served and carries no other
(`Upstreams`); how many requests are answered is known at every await (`Position`);
and a CONNECT ends the pipeline (`ConnectIsLast`), without which a second tunnel could
start and the refinement would fail. The theorem is about the safety half of `TaskSpec`;
that the handler does not outlast a CONNECT is left to the run.

**SOCKS5** (`Socks5ServerProofs`, `Socks5LinkProofs`: `TypeCorrect`,
`RequestsAlwaysFramed`, `AlwaysAuthorised`, `RepliesAlwaysTruthful`,
`AlwaysDispatched`, `ConnectorsAlwaysReach`, `NeverBothAlwaysWait`). `Framing` says at each read which part of one session has been
consumed: with the read before it a buffer's size is the length just read, so the next
field ends where it should. That is what makes a request framed when it is acted on,
and it carries the name and password to the place where they are compared. `Told` says
at each point what has been written; `Heard` ties the connector's position to it.
`RequestFramed` asks for a member of `Requests`, in the runs a handful of sessions; the
two theorems about requests take `Requests` to be all sessions (`WellFormed \subseteq
Requests`, while `RequestsAssumption` is the converse), so what they conclude is that
the bytes are some session of the protocol. The last two theorems are about the session
and the connector together and have an invariant of their own, `JInv`, which adds `Linked`
to `IInv`: where the two are in their handshakes fixes, byte for byte, what is in the pipe
(`Greeted`, `LoggingIn`, `Requesting`: the rest of the message the connector has written
last) and which request the session holds (`Placed`). So a read finds its bytes whenever
the connector waits, and when the connector has its stream the request read is the one it
wrote. The step from one message to the next needs `Told`: the answer the connector takes
tells it where the session is. Lengths above 255 are part of this: a host name that is cut
leaves the rest of it in the pipe (`Surplus`), and `LinkConnects` excludes it by its
hypothesis; credentials that are cut are excluded from both (`CredFits`), see 6.

**Proxy chain** (`ProxyChainProofs`: `TypeCorrect`, `StreamsAlwaysReachTheTarget`,
`CredentialsAlwaysStayHome`, `CredentialsAlwaysInTls`, `StreamsAlwaysExact`). The hop
whose turn it is is at the far end (`AtHop`), and nothing is in the stream but what the
hop before may have left (`IsRest`); a positive answer is the answer to what was asked,
as what may stand before it never looks like one (`AtHttp`, `AtSocks`). The first of
these fails for a `Direct` in the middle of a chain, so `Handshakes` is claimed of
sensible configurations; `Places` and `Wrapping` hold of all.

**Configuration** (`ConfigurationProofs`: `TypeCorrect`, `FiltersAlwaysFaithful`,
`UsersAlwaysOfTheDecidingRule`, `AddedRulesAlwaysComeLast`,
`OwnHeadersAlwaysUnderstood`). What the decisions promise follows from lemmas about the
operators of `AccessControl`, for any rules and requests: the two scans stop at the same
first match; a list with rules appended has the first match of the list if that had
one. The reloads need only their types.

Assumptions on constants, all evaluated by TLC: the sets of connection slots and of
sockets are finite; no member of a set is `None`; `ConfigsAssumption`
and `CredentialsAssumption` give hops and credentials the types they have in the code;
`RequestsAssumption`, `ConnectorsAssumption` and `PacketsAssumption` give sessions,
destinations and addresses the sizes of their kinds; numbers are natural numbers.

Only model-checked is liveness, which needs fairness: `StoppedServerExits`,
`WaiterServed`, `SessionEnds`, `AnswersAreForwarded`, `UpstreamsReleased`,
`RequestsSettled`, `ConnectSettles`, `LastSignalCounts`, and the liveness half of
`ACSpec`, of `AssociationSpec` and of `TaskSpec`.

## 6. Findings

- `server_shutdown`: Ctrl-C while a loop is not inside `select!` (it waits for a
  permit, or has just been woken by an accept) does not reach it. The loop goes
  on accepting and `run()` waits in `join` for ever, without the 30 s limit
  that `requirement.md:347` promises.
- `server_tunnels`: the drain counts permits, and CONNECT tunnels own none:
  "drained" is logged while tunnels carry data (`server.rs:278`).
- `udp_leak`: the listeners of an association are told nothing when it ends and
  wait in `recv_from` with their sockets for ever, and go on forwarding what comes in
  (`udp_associate.rs:228`), against `tests/socks5_test.rs:444`; the test itself sees only that
  no new datagram is taken.
- `policy_ports`: `from_config` reads no `dst_port`, so a rule that is to block some
  ports decides about all (`config.example.yaml:45`, `acl/mod.rs:72`).
- `reload_applied`: a reload ends in the watch channel; nothing reads it again
  (`README.md:257`, `server.rs:120`, `:145`).

Met while modelling, and visible in what the properties do not claim:

- Two first datagrams of a client both miss in `client_map` and bind a socket
  each, against the comment of `udp_associate.rs:116`. `AssociationSpec` shows what
  it does not harm: answers are neither lost nor misdirected. A listener that fails
  removes the client's entry even if it is the other socket's (`:246`); `AnswersAreForwarded`
  shows that this one is read all the same.
- One `read` is taken for an HTTP proxy's whole response (`http_proxy.rs:82-93`,
  `chain.rs:155-168`): the rest of the head stays in the stream, or the target's first
  bytes go with the buffer. `StreamsAreExact` says how far that can go.
- `get_auth_users_for_rule` leaves the method out: it may stop at a rule that
  `check_request` passes over, and then a request that is to authenticate has no
  users, or another rule's (`acl/mod.rs:99-119`). `UsersOfTheDecidingRule` is claimed
  of requests no matching rule rejects for their method.
- `peek` may show the first segment only, and the whole zero-padded array is
  inspected: `GE` is not `GET `, and the client is turned away. The branch of
  `detect.rs:46` for short buffers cannot be reached from `server.rs`.
- A pattern is a glob only if it has `*` or `?` (`domain_filter.rs:30`): one with
  braces or brackets alone is compared letter by letter, against
  `domain_filter.rs:18`.
- A host name of 256 bytes is announced as empty (`socks5_proxy.rs:99`): the proxy
  connects to the empty name and takes its first two letters for the port. User names
  and passwords are cut in the same way (`:68-71`): what follows the announced length is
  read as the next field, as far as the session's checks let it, and may make it wait for
  more than the connector sends.
- `peek`, unlike every read after it, has no timeout.

## 7. Not modelled, or only in part

- Metrics: atomic counters nothing increments, and an endpoint nothing starts.
- Logging, error types, the command line: no state a property could be about.
- How YAML, CIDRs, globs, regular expressions and base64 are read: only their
  outcome is kept.
- In `Server` the outcome of `Peek` is a free choice; `Socks5Link` has the bytes.
- Contents of HTTP messages (header rewriting, authority parsing), TLS itself,
  name resolution, log output.
- In `ProxyChain`: lengths of names (`Socks5Link` has them), addresses of hops
  that do not parse. A `Direct` in the middle of a chain is accepted by the code and makes
  the next proxy's handshake, credentials included, go to the target; the
  properties are claimed of chains without one (`Sensible`). `tls` of a hop in a chain is
  not used (`chain.rs:134`), and `CredentialsInTls` is claimed of single proxies.
- Bind addresses other than IPv4 in a SOCKS5 answer: `BindSize` reads them, as the
  connectors do, but this repository's server, the only one in the runs, sends none.
- A file cut within a rule: a reader finds whole rules or an error.
- Timeouts the code does not have (TLS accept, peek, dials, HTTP, connectors):
  their absence is part of the models.

## 8. Plan

Done: the modules of section 2 and the theorems of section 5. What remains of the
properties is liveness, which stays with the runs.

Should the server's configuration come to be used, `Configuration!Send` becomes an
action of `Server`; should it start the metrics endpoint, that gets a module.
