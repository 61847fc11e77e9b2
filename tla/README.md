# A TLA+ verification of SpoofDPI

SpoofDPI is a local proxy (HTTP, SOCKS5 or a TUN device) that forwards a
client's connections and cuts the first TLS message so that a middle box does
not find the server name in it.  Around that small idea sits a fair amount of
concurrent code: shared caches, races between dials, tunnels of two copiers,
UDP sessions that expire, packet sniffers, and network settings of the host that
must be taken back whatever happens.  This directory holds TLA+ models of those
parts, TLC configurations that check them on small instances, and proofs checked
by TLAPS.  Every definition is translated from the Go source; `PROJECT.json` ("map")
gives the file and lines of each.

Contents: 1 inventory, 2 plan, 3 modules and code, 4 runs, 5 fairness, 6 proofs,
7 what is only model-checked, 8 findings, 9 what is not modelled.

## 1. Inventory

### 1.1 Components, their state and operations

| Component (source) | State | Operations |
|---|---|---|
| LRU cache (`cache/lru_cache.go`) | per shard a list, most recent first, and a map into it | `Get`, `Set` (insert, replace, skip, evict the tail), `Delete`, callback `onInvalidate` |
| TTL cache (`cache/ttl_cache.go`) | per shard a map of value and expiry | `Set`, `Get` (read lock, decision, write lock), `Delete`, janitor |
| UDP NAT pool (`netutil/conn_registry.go`, `conn.go`) | the LRU cache of sockets, their deadlines | `Store`, `Fetch`, `Evict`, sweep of expired sessions, `CloseAll` |
| SOCKS5 UDP ASSOCIATE (`handler_udp_assoc.go`) | one read loop per association, one relay per session | receive, dial, store, spawn relay, forward, evict, end |
| DNS client (`dns/*.go`) | the TTL cache, lookup goroutines, result channel | `Resolve` by UDP, HTTPS or the system, retries, timeout, storing an answer |
| Fastest dial (`netutil/dial.go`) | semaphore, result channel, one goroutine per address | launch, bind, dial, offer, receive, give up |
| Tunnel (`netutil/conn.go`) | two connections, two copiers, `sync.Once`, result channel | copy, end, close, `AfterFunc`, wait, verdict |
| Admission (`server/http`, `server/socks5`, `server/tun`) | one accepted connection, its rule, its remote connection | read the request, match a rule, check, dial, reply, forward the first message |
| SOCKS5 BIND (`handler_bind.go`) | listener, client's read deadline, monitor and acceptor goroutines | listen, reply, monitor, accept, stop the monitor, reply, tunnel |
| Rules (`rule/set.go`, `trie/`) | a domain trie, a CIDR trie | `Add` with conflicts, `Search`, best match |
| Network jobs (`netutil/network_job.go`, `cmd/spoofdpi/main.go`) | the host's settings, the state file | save, apply, roll back, reset, start, stop |
| TUN pumps (`server/tun/tun.go`) | the endpoint's queue, a one-slot channel | notify, drain, wait, read, shut down |
| TLS desync (`desync/tls.go`) | the socket's TTL | split (five modes), send fakes, lower, write, restore |
| Sniffers (`packet/*_sniffer.go`) | an LRU cache of hop counts, BPF programs | register, capture, learn, pick a TTL |
| Address selection (`dns/addrselect`) | none; policy table, source addresses of the host | compare by the rules of RFC 6724, sort |
| Idle sessions (`netutil/conn.go`) | atomics `expiredAt` and `lastActivity`, the socket's deadline | `ExtendDeadline`, read, time out, sweep |
| Route discovery (`packet/discover.go`, `handle_linux.go`) | raw sockets, their readers, a ticker | ARP request, capture, time out, close |
| Accept loops (`server/server.go`, `http.go`, `socks5.go`, `netutil/system.go`) | listener, backoff delay, PAC server | accept, retry, stop, PAC file |
| Program and TUI (`cmd/spoofdpi`) | `appctx`, `readyChan`, the server, deferred reset | start, create the server, set up, stop, show an error |
| Configuration (`config/*.go`) | the loaded configuration | lay file and flags over the defaults, resolve rules, validate |
| Logging, packet writers, protocol formats | | display, byte formats |

### 1.2 How they interact

`main.go` loads the configuration, starts the TUI and builds the parts: it adds the rules
to the rule set, cleans up what earlier sessions left in any mode
(`ResetJobs`), discovers the route, starts the sniffers, builds the server, saves
and applies the network jobs, and resets them when the server stops.  A server
accepts a connection, reads the destination, asks the rule set, resolves the name
through the DNS client, dials with `DialFastest`, forwards the first message
(through the TLS desyncer, which asks the sniffer for a TTL) and leaves the rest to
`TunnelConns`.  UDP ASSOCIATE keeps its sockets in the NAT pool instead.  Shared state:
the LRU caches (pool, hop counts), the TTL cache, the rule tries (written before the
servers start), the connections that two copiers and a handler close.  Callbacks:
`onInvalidate` closes a socket that leaves the pool; `context.AfterFunc` closes a
tunnel; the endpoint's `WriteNotify` wakes the TUN pump.

### 1.3 What is hard

The list with lines is "hazards" in `PROJECT.json`.  In short:

* goroutines meeting over shared keys (two associations with one NAT key; a relay, a
  sweeper and a newer session; readers and cleanup of the TTL cache between locks);
* channels whose reader may have gone (DNS lookups, dial results, accepted BIND peers);
* closings that make somebody else's call fail (a copier closing the other one's
  connection, a monitor's deadline, a closed device);
* lost wake-ups (the one-slot notifier);
* a crash between any two commands that change the host's network;
* partial failure of every step between accept and tunnel;
* deadlines that two goroutines extend without a lock, descriptors closed under a reader;
* a stop at any moment: while the TUI starts, while a setup fails, with an error on the screen;
* boundaries (full shards, TTLs at 8 bits, cut points at the ends of a message,
  hand-counted jumps in BPF programs).

### 1.4 What makes each component correct

Caches: list and map agree, capacity holds, no value leaves untold, no live entry is
removed, no hit is stale.  Pool: no open socket without an owner, no closed socket
handed out, every pooled session has a reader.  DNS: an answer in time is used; only
found records are cached and never beyond their TTL; no goroutine is stuck.  Dial: the
winner stays open; failure means all failed; the call returns.  Tunnel: a peer's failure is
reported and our own closing is not; a chunk is dropped only for a cause; one end ends all.  Admission: nothing left open, no blocked
destination dialled by the proxies, true replies, bytes taken from the client sent on or left to the tunnel.  BIND: no byte of the tunnel
stolen, no deadline left, a drop frees everything.  Rules: a pattern matches iff the trie
finds one, and priorities decide.  Jobs: what is applied is on record, and gone after an
exit.  Pumps: no sleeping with a packet queued.  Desync: the segments are the message and
the TTL comes back.  Sniffers: a fake does not reach the server.  Address selection: an order, so
that an answer's order is not left to a race.  Idle sessions: they end when idle and only then.
Discovery: it ends, and leaves the sniffer its packets.  Program: it serves until it is stopped, and a stop ends it.
Configuration: layers override in order, and what is asked for has been opened.

## 2. Plan

Order, most important first:

1. `LRUSpec` (what an LRU cache promises), `LRUCache` (list and map) and their proofs.
2. `NatPool` = `LRUCache` + UDP ASSOCIATE + sweeper, and proofs.
3. `TTLCache`; `DnsClient` on top of it, and proofs of both.
4. `DialFastest`, `BindHandler` and `Admission`, which composes them; `Tunnel`: the life of a connection; proofs of all.
5. `NetworkJobs` and proofs, `JobLists`; `Program` on top of them, and the proof that it
   implements `NetworkJobs`; `TunPump` and proofs.
6. `DomainTrie`, `RuleSet`, `Configuration` and `Startup`, which composes them; `BPFFilter` and
   `HopSniffer` (on `LRUCache`); `TLSDesync`; proofs of all.
7. `AddrSelect` (used by `DnsClient`), `IdleConn`, `RouteDiscovery`, and proofs of their safety.

Nothing of the plan is open: every invariant and every action property that a passing run checks has a theorem, and what
is left to TLC is liveness (section 7).

Compositions: `NatPool` and `HopSniffer` extend `LRUCache` and use its operations inside their
own actions; `DnsClient` extends `TTLCache` and sorts with `AddrSelect`; `Admission` extends `DialFastest` and `BindHandler`, whose
goroutines interleave with the handler's steps; `Program` extends `NetworkJobs`; `Startup` extends
`RuleSet` (which extends `DomainTrie`) and `Configuration`; `HopSniffer`
extends `BPFFilter`.  A component that is shared is thus checked under the calls its real
callers make, and proved under arbitrary calls.

## 3. Modules and code

* **LRUSpec** is the promise: a set of cached keys with their values, an order of
  use, eviction of the least recently used key of a full shard.  **LRUCache** is the code: one
  sequence per shard (the `container/list`, front first) and the function `items`; `Get`
  moves to the front, `Set` splits into `SetExisting`, `SetNew` (evicting the tail
  first when the shard is full) and `SetRefused` (`SkipExisting`); `Delete` removes.
  `invalidated` is what the call hands to `onInvalidate`, in the same step because the code
  calls back under the shard's lock.  `ShardOf` stands for the hash.
* **NatPool**: `apc` is the step of each association's read loop, `rpc` of each relay, `spc`
  of the cleanup loop.  Each call on the pool is one step, since the pool's lock is
  per call; dial, spawn and write lie between them.  `Expire` says that a deadline has passed
  without naming times.  The raw socket and its wrapper are one value.
* **IdleConn** is that wrapper in time: the relay and the association's read loop call
  `ExtendDeadline`, whose loads, stores and system calls are a step each (the load and the store of `lastActivity`, too:
  between them the other goroutine may store a later time, which is then set back); the clock ticks, but no goroutine is held up for more
  than `MaxDelay` between two of its steps.
* **TTLCache**: a Get is `GetCopies` (read lock), `GetChecks` (no lock), `GetRemoves` (write
  lock, with its second look) and `GetReturns`; the cleanup reads the clock once and visits the shards one after the other.
* **DnsClient**: every call is a process; its lookup goroutines, the closer of the result
  channel and the collector are separate steps; the channel is unbuffered, so a send is
  a step of the collector's or a drop after the context has ended.  An answer is the sequence of the
  addresses of the types for which records came, sorted; a call comes with the DNS options of its rule.  `DnsAssumption` leaves
  out AAAA records that hold an IPv4 address mapped into IPv6: `parseMsg` would keep it mapped, `Less` would find it level with the
  addresses of A records, and which of them comes first would depend on which message did.
* **AddrSelect** is the sort: policy table, scopes, the rules of `Less`, common prefixes, and
  the stable insertion of each address into the sorted prefix before it (`sort.Stable` merges blocks of more than twenty; a stable
  sort has one result).  An address is its part of the address space (all the tables look at)
  and its prefix bits; which source address the host would use is a constant.  That `Less` is a strict weak order on every kind of address and source
  (`LessIsAnOrder`) is an assumption that TLC evaluates at the start of the `dns` run.
* **DialFastest**: spawner, semaphore, goroutines and caller; `results` is the buffered
  channel; a `select` with two ready cases is a choice.
* **Tunnel**: the copiers' `io.Copy` is read and write of chunks; `once` and both connections are
  explicit; `AfterFunc` is a goroutine of its own; the errors that `Benign` accepts are the code's.  A TUN client is a gonet
  connection (`Gonet`), whose write after closing fails with an error of its own that `Benign` does not know.  `CtxDone` is the
  context that ends the tunnel: the application's, which is not that of the dial.
* **NetworkJobs**: every mode has a list of jobs and a state file.  `present` is what the host shows, `file` the state files (`none`, `jobs`, or `corrupt` from
  the truncation to the end of the write); jobs differ by having no Apply command, failing when already there,
  vanishing with the device, or having been there before us; `Crash` is possible between any two steps.  The cleanup at
  startup visits all modes of the platform, the session then runs in one.
  **JobLists** are the lists that `BuildJobs` returns on Linux, FreeBSD and macOS, for the TUN server and the proxies.
* **Program** puts the process around it: `RunApp` with or without a TUI, `startTUI`'s wait, `appctx` ended by a signal
  or with the TUI, creating the server and its errors, the accept loop with its backoff, the PAC server, the
  goroutines that close listener, device and PAC server, and `Killed` at any moment.  Every action of `NetworkJobs` that is `runApp`'s
  is wrapped in `Main`; the others leave the network state alone.  A rule set that is refused ends the program before the
  cleanup, so a crashed session's effects then stay for the next start (`RuleSetFails`).
* **DomainTrie** is the search over the set of stored patterns (a node exists
  iff it is a prefix of one), with `*` and `**`; the recursive calls of `search` go one level down each, so the search is a recursive
  function over the number of levels (`searchAll`), and `search` is one call with what the deeper ones return.  **RuleSet** adds rules in any order and
  searches names and addresses; a CIDR is kept as it is written, host bits and
  `Spelling` (case, zeros) included: the conflict check goes by the text, the tree by the masked prefix.
* **Configuration**: a TOML table or the given flags are partial functions laid over the defaults by `Overlay`; `Decodes`
  is what the decoders check, `resolveRule` and `RuleIsOK` one round of `resolveRules`; a match entry may be a text, a
  value of another type, or a file with lines.  `timeout` and `qtype` stand for all fields of their sections that are copied and
  nothing else.  **Startup** is `Load`, then the loop of `createServer` over the rules, then the opening of sniffers and writers.
* **Admission**: one connection per behaviour, entry point chosen in `Init`; every
  parse, lookup and write has its failing outcome.  Dialling is the module `DialFastest`, whose losing goroutines
  go on while the handler forwards, tunnels and closes; a BIND request goes on in `BindHandler`.  `lConn` and the
  winner's connection are what the deferred closes act on.  `first` and `ahead` say where the bytes are that were taken from the
  client: still in its stream, in the `BufferedConn`, sent on, or lost in the reader that `ReadHttpRequest` throws away.
* **BindHandler**: handler, monitor and acceptor over a client stream of numbered
  bytes; the read deadline is `none`, `future` or `past`.
* **BPFFilter** holds both programs as data with their jump offsets, and a machine that runs
  them instruction by instruction on a frame's header fields for each link type (one that the code does not name gets Ethernet's offset).  **HopSniffer** runs packets through them into two sniffers and the cache;
  `observed` keeps the TTLs that came from a host, so that `estimateHops` can be judged.
* **RouteDiscovery**: descriptors are numbers that are used again; a reader resolves its number when
  a call starts and keeps the socket it then waits at, as the kernel does; `captureARPReply`, the reader goroutine of its
  packet source and `resolveGatewayMAC` are separate processes.  One sniffer stands for the TCP and the UDP one.
* **TunPump**: the endpoint's queue as a count, the notifier's slot, the two pumps; between
  finding the queue empty and entering the `select` the pump can be overtaken.
* **TLSDesync**: a ClientHello is a length and the place of the name; a segment is an interval and
  a flag; all arithmetic of the split modes is kept, and a loop that cuts is a recursive function over its rounds (`MaskRound`,
  `PointRound`).

## 4. Runs

All runs pass except `natpool_aba`, which is expected to find a violation.

| Run | Instance | Shows |
|---|---|---|
| `natpool` | 2 keys in one shard of capacity 1, 2 sockets, 2 associations | no socket is leaked, pooled sockets have a reader |
| `natpool_aba` | 3 sockets, 1 association | a relay or sweep that ends late closes a newer session (finding) |
| `dns` | 3 calls (one for both types by HTTPS or the system, two for one type by UDP), 4 addresses, TTLs 0 and 1, clock to 2 | no answer in time is lost, only found records are cached and not too long, no goroutine is stuck, no live entry removed, the order of an answer is fixed |
| `admission` | all six entries, 2 priorities, up to 3 addresses with 2 slots, 2 client bytes | nothing left open, the winner stays open, blocked is not dialled, replies true, bytes taken from the client arrive (but for what the HTTP reader took too much), BIND's monitor is gone in time, dialling ends, a drop releases all |
| `tunnel` | 1 chunk each way, a plain or a gonet client, idle timeout, cancellation | our own closings are no errors, a peer's failure is in the verdict, a chunk in hand is dropped for a cause only, one end ends all |
| `jobs` | the job lists of all modes on three platforms; the gateway's host route (Linux) was there before; any number of sessions | effects recorded, discovery on a clean host, order, clean exit; serving until stopped; a stop ends the program |
| `rules` | 22,863 starts: one field (two of `https`) per layer, every spelling of a match, up to 3 rules with names of up to 3 labels and 2-bit addresses in 2 spellings | layers in order, nothing missing at run time, the trie finds exactly the matches and in order, priorities decide |
| `hops` | 3 hosts in a shard of capacity 2, 3 link types, 2 TTLs | the filters' verdicts, only registered hosts, learned values stay, fakes fall short, LRU |
| `pump` | 2 writers, queue of 2, 4 packets | no lost wake-up, the queue drains, the pumps end |
| `desync` | all messages up to 6 bytes, all modes, 4 mask bits, plans with noise up to 1 | segments are the message, TTL restored |
| `discovery` | 2 numbers of descriptors, channels of 2, 1 packet queued per socket | discovery ends, few packets are taken from the sniffer |
| `idle` | timeout of 10 ticks, delays of up to 1, clock to 24 | a session ends when idle, and only then |

Why these bounds reach the interesting cases: capacity 1 (2 for the sniffers) with more keys than room makes every
`Set` an eviction; two associations and two keys produce both the same-key race and
the eviction of somebody else's session; TTL 0 and 1 with a clock of three values lets entries
expire between any two parts of `Get`, and three calls are the least with which one stores while
another is about to remove an older entry; three addresses with two slots make the spawner wait;
one chunk in each direction is enough for data to be in a copier's buffer when the other
side closes; the job lists have jobs of every kind, and macOS three modes whose sessions can follow each other;
two numbers let the sniffer get the closed descriptor's number or another one; 24 ticks are more than two timeouts of a session, so that
deadlines are extended by both goroutines and after each other; two spellings let a prefix be named in the same and in
another way; three labels are the
shortest names on which `*`, `**` and exact children have to backtrack, and three rules
the least that let two conflict while a third shadows both; two client bytes tell a byte
before the reply from one after; messages of six bytes with a name inside have room for cuts before, in, and
after the name.  Named bounds: `MaxTime`, `MaxRetries`, `MaxLen`, `MaxChunks`, `MaxBytes`, `MaxPackets`, `MaxFakes`, `MaxNoise`, `MaxQueue`, `MaxDelay`, `Flaky`.
Symmetry is used only in `natpool` and `dns`, which check no liveness, over sets whose elements no
definition names.  Deadlock is not checked, because each model comes to
an end: a closed connection, a served call, a used-up supply of sockets or packets.

## 5. Fairness

`admission`, `tunnel`, `pump`, `jobs` and `discovery` check liveness.  Weak fairness is assumed of the steps of
goroutines, which the Go runtime schedules, of `DialContext` returning (its dialer has a
timeout, and the kernel's connect has one), of a read deadline or a context's timeout passing, of a
read on a closed device failing, of the commands that `runApp` runs returning, and of the terminal telling the TUI its
size (`TUIReady`).  The one strong fairness, in `Admission`, is of the BIND monitor's read:
the client's end of stream is there each time the monitor reads between two of its
deadlines, and the deadline of 200 ms, renewed before each read, leaves it the time to see
it.  Nothing is assumed of clients, servers, BIND peers, packets on the network or users: they may stay silent for ever.
`IdleConn` has no fairness; its bound `MaxDelay` on what a goroutine is held up is part of the
statements.

## 6. Proofs

Eight modules hold theorems; each extends the modules it is about, and its assumptions are the `ASSUME`s
there, which TLC evaluates in the runs.  Each property that a run checks was proved after TLC had agreed.  The
recursive functions of the models (sorting, searching, cutting, running a filter, adding rules) are reasoned
about by an induction over sets of naturals (`SetInduction`, from the well-foundedness of the naturals), which
also gives the existence of the function: the library's own induction theorems take an operator as a parameter
and cannot be applied.

* **LRUCacheProofs** (`LRUAssumption`: the absent value is no value, every key has a shard, the capacity is
  positive).  `CacheInv` joins the types, the agreement of list and map (each shard's list holds exactly the
  cached keys of the shard, once) and the capacity.  They need each other: an eviction removes one key only
  because the list has no repeats, and room exists only because the capacity held. The lemmas say what
  unlinking, pushing to the front and moving to the front do to a list. `CacheTellsEviction` is the action
  property that no step drops a value without the callback. `CacheImplementsLRU` is the refinement: under the
  mapping `NewerPairs` (a is before b in a list) each call is the step of `LRUSpec` of the same name or a
  stutter.  It rests on what each list operation does to the order of two elements (`UnlinkKeepsOrder`,
  `PushFrontOrder`), on a bijection between a list and the cached keys of its shard (so that a full list is a
  full shard), and on the tail being before nobody.
* **NatPoolProofs** (in addition `NatAssumption`) proves `NatInv`, hence `NoSocketLeak`, `PooledAreOpen` and
  `PooledHaveReader`, for any number of associations, keys, sockets and any capacity. The strengthening says
  which socket an association holds at each step (`InHand`), that a socket which is not yet stored has no
  relay (`Unspawned`), and that sockets with a relay or a deadline were stored under a key (`Stored`): without
  these a relay's eviction could not be tied to its key. `PoolIsLRU` carries the refinement over to the pool.
  The same module has the session in time (`IdleAssumption`: a positive timeout): `IdleInv` proves
  `IdleSessionEnds` and the action property `EndsOnlyWhenIdle` for every timeout, activity interval and delay.
  It says that nobody is ahead of the clock or further behind than the delay (`PromptInv`), that the socket's
  deadline and the reader follow the last call (`DeadlineInv`), that a late store sets `lastActivity` back by
  no more than a delay (`ActivityInv`), and that `expiredAt`, and the socket's deadline when nobody is between
  storing the one and setting the other, is ahead of the last call by at least 70% of the timeout, less a
  delay (`ExpiryInv`).  The attempt to prove an earlier version, in which `lastActivity` was loaded and stored
  in one step, led to the present model.
* **DnsClientProofs** (`TTLAssumption`, `DnsAssumption`, `AddrAssumption`: addresses and sources of any kind)
  starts with the cache: `TTLInv` says that a reader about to remove holds an expired copy, and that the
  cleanup's clock reading is not ahead of the clock.  From it follow `HitsAreLive` and the action property
  `OnlyDeleteRemovesLive`.  Then the client, for any number of calls, names and addresses: `ClientInv` joins
  the types, where each lookup goroutine can be while its channel is open or closed (`LookupInv`), what the
  collector has (`CollectInv`: of every type that has been delivered, the records, and of no other), and who
  vouches for a cache entry (`StoredInv`).  Hence `NothingLostInTime`, `CacheHoldsFoundRecords` and
  `LookupsReleased`.  `NothingLostInTime` is about the answer after the sort, so the sort has to keep every
  address: it is a recursive function over prefixes. `ClientImplementsCache` shows that each step of the
  client is a step of `TTLCache` or leaves it alone, so that `LiveEntriesStay` holds under the client's calls;
  its hypothesis is that the cache may hold sequences of addresses (`MCValue` is all of them).
  `DnsAssumption` says that a name server's message holds a non-empty sequence of addresses of the type it was
  asked for (section 3 says what it leaves out). `OrderIsFixed` takes three steps.  Of the addresses
  (`AddressesAreOrdered`): IPv4 addresses, and no others, have precedence 35, so two families are told apart
  by rule 6 at the latest; rule 9, which is for IPv6 only, therefore never meets a mixed pair, and `Less` is
  the lexicographic order of five numbers that each address has by itself, hence a strict weak order.  Of the
  sort (`SortIsStable`): by induction, every insertion keeps the sequence in order and keeps the order of
  addresses that are level.  Of the client (`CollectsInEitherOrder`): what was collected is some of the two
  messages, each at most once, in either order.  Then of two addresses that `Less` tells apart the better one
  is first in either sorted sequence, and two reachable ones that are level came with the same message and
  stay as they were in it.
* **ProgramProofs** (`JobsAssumption`) proves `JobsInv` for any number of modes with jobs of any kinds, and
  from it that effects are recorded, that discovery sees a clean host, that effects stand in order, and that
  an orderly exit leaves nothing.  The invariant says, per step of the program, which jobs can have an effect:
  those of the modes not yet cleaned up, above the index during reset none, below the index during apply all.
  With `ProgramAssumption` it proves `ProgramImplementsJobs`: the initial states of `Program` are initial
  states of `NetworkJobs` and each of its steps is one of `NetworkJobs` or stutters, so `ProgramIsCrashSafe`
  carries the four safety properties over to the program with its TUI, signals and servers.  `ServingInv` adds
  listener, accept loop and PAC server: what is up at which step, and that only a stop takes it down; hence
  `ServesUntilStopped`.
* **TrafficProofs** is about the bytes of a connection.  `TLSDesync` (`DesyncAssumption`): after each round of
  a splitter the segments so far are exactly a prefix of the message (`Covers`, `Tiles`), for every length,
  chunk size, width and value of the mask, plan and random offset; points are sorted in any of the orders that
  the unstable sort allows.  Hence `SegmentsAreMessage`.  `DesyncInv` adds that the bytes written are where
  the next segment starts and that the TTL is low only within a held-back segment or after a failed
  `setsockopt`, hence `SentWholeAndRestored`. `Tunnel` (`TunnelAssumption`): `TunnelInv`, hence
  `VerdictIsTrue` (`NoSpuriousError` and `FailuresAreReported`) and `DropsForCause`, for any number of chunks.  Each error that is
  on its way (in a copier, the result channel or the handler) is one of our own or that of a peer which failed
  in that way (`TrailInv`), a copier that met a failure has it on its way (`ReportInv`), and the connections
  are closed only when a direction has come to an end of its own, a deadline has passed or the application
  stops (`CauseInv`).
  `TunPump` (`PumpAssumption`): `PumpInv`, hence `NoLostWakeup`, for any number of writers and any queue: if
  packets are queued, the pump is about to look, the slot is full, or a writer is about to fill it.
* **StartupProofs** (`TrieAssumption`, `AddrAssumption`, `InputAssumption`: the sources of a configuration
  have the shapes that the TOML and flag parsers return, and `NoRule`, Go's nil, is no rule) proves all four
  invariants of the `rules` run, for any patterns, addresses, rules and options. *The trie:* by induction over
  the levels a search from a node answers with a stored pattern under it that matches the rest of the name, if
  there is one, and with none that another one comes before (`Under`, `Answers`); a `**` without a value of
  its own needs the loop over all numbers of segments. *The priorities:* by induction over the two loops of
  `RuleSet.Add`, every key of a rule that is accepted ends up with the better of the old and the new rule
  (`Merged`), so that each key holds the one rule of highest priority among those accepted so far that name it
  (`Held`).  A prefix of the CIDR tree holds what one of its spellings holds (`Backed`), hence the highest
  priority if the file always writes it in one way.  `BestMatchIsBest` is
  an induction over the addresses of a connection. *The start:* `StartInv` says that the rule set holds only
  rules that `Load` has returned (`Known`, `TreesHold`), so that any configuration a connection can get has
  passed `Load`'s checks and was seen by the test that opens the sniffers: `ConfigIsComplete`.
  `LayersInOrder` follows what each layer does to each field.
* **AdmissionProofs** (`AdmissionAssumption` and those of the parts) proves `AdmissionInv`, for any number of
  addresses, slots and client bytes, and from it all six safety properties of the `admission` run.  The
  invariants of the dial race (who holds a slot, whose connection is open, what the channel and the caller
  have: `DialInv`) and of BIND (`BindInv`: the deadline, the monitor and the bytes it may take) are joined by
  what the handler knows at each step (`HandlerInv`).  `RepliesAreHonest` needs the former: "all failed"
  counts results, and only distinct goroutines have sent them.  It speaks of every entry and names its exceptions: the HTTP proxy's
  403 after which it goes on, and the 200 that HTTPS clients get before the dial.  `TakenBytesArrive` rests on where the
  tunnel reads (`TunnelSource`); its exception is what the reader of an HTTP request took beyond the request.
* **HopSnifferProofs** (`HopAssumption`, `DiscoveryAssumption`) proves `HopInv`, hence `CacheKeepsWhatCounts`
  and `FakeFallsShort`, and `HopsAreLRU`.  `estimateHops` never gives more than the distance from any of the
  initial TTLs that are possible (`LeastDistance`), so a fake falls short whichever it was.  Between a sniffer's lookup and its store the host may be evicted;
  `CheckedInv` says that it was registered, so what the store puts back belongs there. `DiscoveryInv` proves
  `StolenAreFew` for any channel: the sniffer's socket is opened only when a MAC address has been received,
  hence when `captureARPReply` has returned and nobody empties the reader's channel any more.
  `FiltersAreRight` follows both BPF programs instruction by instruction, for each link type and any header:
  the UDP program accepts exactly IPv4 UDP; the paths of the other one show which packets its jumps accept and
  that every SYN/ACK is among them (`SynAckExactly`).

The runs check the consequences that matter, and the proofs the rest (`NatInv`, `PooledAreOpen`, `CacheInv`,
`TTLInv`, `JobsInv`, `PumpInv`, `HitWasLive`, `NothingVanishes`, and the other invariants above).

## 7. Only model-checked

Every invariant and action property of a passing run is also a theorem.  TLC alone checks

* liveness, which the prover does not handle: `DialTerminates`, `DropReleasesAll`, `OneEndsAllEnd`,
  `PumpsDrainAndEnd`, `DiscoveryEnds`, `StopEndsProgram`;
* `LessIsAnOrder` on all pairs of kinds with the sources of their family, as an assumption of the `dns` run
  (`AddressesAreOrdered` proves the same of the addresses that occur in answers, whatever they are);
* the job lists themselves (`JobLists`): the theorems hold of any lists that satisfy `JobsAssumption`, and TLC
  evaluates that for the lists of the code.

The bounds of the models are assumptions of the theorems only as numbers: names of at most `MaxLen` labels,
messages of at most `MaxLen` bytes, noise of at most `MaxNoise`, a clock that stops at `MaxTime`, for every
value of these.  What is outside the models (section 9) is outside the theorems.


## 8. Findings

**Eviction by key** (`natpool_aba`).  A relay defers `pool.Evict(key)`
(`handler_udp_assoc.go:198`) and the sweep evicts the keys it has collected
(`conn_registry.go:118`).  If the session has been evicted and another one stored under
the same key in between, the late eviction closes the new one, while it is active.  The theorems show what it costs
at most: a session ends early; no socket leaks and no closed socket stays in the pool.

Differences between code and text that were met while modelling and have no run of their own:

* `netutil/dial.go:76`: a dial that succeeds after another has won may choose the buffered
  channel; nobody receives it, so that connection stays open, while the comment at line 21 says all others are
  cancelled.
* `netutil/network_job.go:76`: after a failed Apply, the rollback resets all jobs, not only the applied
  ones; a setting of the same kind that was there before goes with them.
* `trie/domain.go:107`: a rule at `**` is returned at once, even if a longer pattern behind `**`
  matches, so the pattern found need not be "the most specific pattern" of line 64.
  `SearchFindsTheMostSpecific` states the order the search does keep.
* `rule/set.go:68`: conflicts of CIDRs are looked for by their text, while the tree is keyed by the masked
  prefix; of two spellings of a prefix (`fd00::/8` and `FD00::/8`, `10.0.0.0/8` and `10.0.0.1/8`) the one stored later
  stays, whatever its priority ("Priority resolves conflicts at Add time", line 15).  `PriorityWins` says what holds
  for every file: the priority decides among the rules that write a prefix in the same way.
* `server/tun/handler_tcp.go:53`: the TUN handlers, BIND and UDP ASSOCIATE do not look at `Block`, though
  `docs/user-guide/rules.md:18` names no exception.  `BlockedIsNotDialled` is therefore about the HTTP and CONNECT entries.
* `server/http/http.go:203`: a request for the proxy itself is answered with 403 and then handled on (an exception in `RepliesAreHonest`).
* `server/http/handler_https.go:54`: a CONNECT is answered with 200 before the dial at line 64, so a client may be told of a
  success that does not come (the other exception in `RepliesAreHonest`).
* `proto/http.go:60`: the request is read through a `bufio.Reader` that is thrown away; what it has read beyond the request (an early
  ClientHello after CONNECT) is lost, since the tunnel reads the connection itself (the exception in `TakenBytesArrive`).
* `netutil/conn.go:68`: the end of one direction closes both connections, so a client that half-closes may lose what the server
  was still sending, the chunk in the other copier's hand included (`DropsForCause` says it happens for no other reason).
* `netutil/conn.go:81`: `net.ErrClosed` is filtered, but a gonet connection that we have closed fails a write with another error, which
  is then reported (the exception in `VerdictIsTrue`).
* `packet/tcp_sniffer.go:155`: "On mismatch, jump 8 forward to the reject instruction" (line 151), but the jump ends one instruction
  earlier, at the accepting one, and so do those of the tests for TCP and for fragments.  Frames that are not IPv4 (on Ethernet), other
  protocols and later fragments reach the sniffer; `processPacket` drops all of them but SYN/ACKs over IPv6, from
  which hop counts of IPv6 hosts are learned.  `FiltersPassTheirs` states the programs' exact verdicts.
* `desync/tls.go:113`: when `setsockopt` fails in restoring the TTL, sending goes on with a TTL of 1 (the exception in `SentWholeAndRestored`).
* `desync/tls.go:219`: a name that ends with the message counts as out of range, and the message is
  sent uncut (`docs/user-guide/https.md:15`: "Splits the packet right after the SNI extension").
* `desync/tls.go:297`: fake packets are cut by the split mode, so whether they are does not depend on
  `https-chunk-size` as `docs/user-guide/https.md:100` says.
* `dns/client.go:98`: the cache is keyed by the name alone, so a rule with another `qtype` is served what an
  earlier rule's lookup has cached.
* `packet/handle_linux.go:117`: a descriptor is closed while a goroutine is about to read from its number; if the sniffer's
  socket gets the number, that goroutine reads there until its channel is full (`StolenAreFew`).
* `server/server.go:9`: "ListenAndServe blocks until ctx is cancelled, then releases all resources"; all three servers
  return at once and leave that to a goroutine.  `runApp` relies on what the code does.
* `server/server.go:22`: the first delay is 5 ns; the SOCKS5 proxy passes 0 every time, so its delay does not grow, and the
  HTTP proxy never sets its delay back.
* `cmd/spoofdpi/tui.go:363`: a TUI that is quit before it is told its window size leaves `startTUI` waiting for ever
  (`Stuck`, the exception in `StopEndsProgram`).
* `config/types.go:520`: `custom` without segments is refused in the file but not as `--https-split-mode`; the
  message is then sent in one piece (the exception in `ConfigIsComplete`).
* `config/load.go`: a rule's `name` or `block` of the wrong type, and a match entry that is not a string, are dropped without
  an error, while other fields of the wrong type are refused.
* `netutil/conn.go:304`: between storing `expiredAt` and setting the deadlines the socket still has the old ones; the other goroutine's
  read may meet them (the exception in `EndsOnlyWhenIdle`).

## 9. Not modelled

The texts of the
platform commands, the binding of dialers and the search for a free address; reading the routing table; byte formats of HTTP, SOCKS5, TLS and DNS, taken by the models as outcomes, and of
the flags' and TOML values (a value is accepted or refused);
packet writers and libpcap (I/O); the sending loop of UDP desync, which keeps no state (its TTLs are checked in `HopSniffer`);
what the TUI draws; logging and trace identifiers.  The remaining source is of these kinds, so no further component is
planned.  Two instances of the program on one state file are not modelled: nothing in the code tells a running
session's file from a crashed one's, so the second instance's cleanup undoes the first one's settings.
The IP stack of the TUN server, the kernel, `container/list`, `io.Copy` and contexts are external: modelled from how the
code uses them.
