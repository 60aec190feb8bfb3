# locrest-server: verification

`locrest-server` gives a machine behind a NAT a public subdomain. A client asks the
server for a session (`/<port>`), registers an ed25519 key for it (`/register`),
proves that it holds the key (`/challenge`, `/verify`), and then opens a reverse tunnel
to a chisel server embedded in the same process. Requests for the subdomain are
injected into that tunnel. Sessions and user accounts live in a bbolt database; routes,
chisel users and pipes live in memory.

This directory holds TLA+ models of that process, TLC configurations that check them on
small instances, and TLAPS proofs about them for instances of any size. Paths below
are relative to `src/internal/`.

## Inventory

| Part | State | Operations | Interacts with |
|---|---|---|---|
| Session store, `db/session*.go` | buckets `sessions`, `sessions_by_subdomain`, `sessions_by_pubkey` | create, register key, update nonce, activate, delete, look up | called by every handler and both cleaners, one bbolt transaction per call |
| User accounts, `db/users.go`, `db/cleanup.go`, `server/admin.go` | buckets `users`, `users_by_token`, `users_by_seed_hash` | create, delete, regenerate a token, clear expired ones | admin socket, `/regenerate`, the 30 s ticker of `StartCleaner` |
| Frontend handlers, `server/handlers*.go`, `server/routes.go` | `routes`, `nextPort`, the configuration | `/<port>`, `/register`, `/challenge`, `/verify` | session store, chisel's user index |
| Cleaners, `server/cleanup.go` | a snapshot, two lists of tokens, one of names | drop stale routes, chisel users and sessions | everything above, and the pipes |
| Chisel server, `chiselvendor/server/` | user index, SSH sessions | authenticate, connect, disconnect | handlers add users, cleaners delete them |
| Tunnel, `chiselvendor/tunnel/tunnel.go`, `wg.go` | one SSH connection, a gate (wait group) | bind, wait for the connection, unwind | one per chisel connection; its proxies wait at the gate |
| Proxy pipes, `chiselvendor/tunnel/tunnel_in_proxy.go` | map port and protocol -> queue of connections | register, unregister, inject, accept | read by the cleaners and the HTTP proxy |
| Raw listeners, `server/tcp.go`, `server/udp.go` | maps port -> listener | start after `/verify`, close by a cleaner | pipes, cleaners |
| HTTP/WebSocket proxy, `server/proxy_*.go` | none of its own | route, inject, copy | routes, session store, pipes |
| Rate limiter, `server/middleware.go` | IP -> timestamps | allow, cleanup, reconfigure | handlers, the 30 s cleaner, config reload |
| Permissions and lifetimes, `server/permissions.go`, `config/` | the configuration | pure functions, reload | handlers |
| Client binary cache, `binary/` | a directory | update, list, serve | `/<port>`, the command line |
| Auth primitives, script, TLS, command line, logging | none that matters here | - | - |

What makes the system hard:

* **Interleaving.** net/http runs each request in its own goroutine; two cleaner
  goroutines (30 s and 5 s) run the same function. A handler is several transactions and
  several locked accesses to maps, with copies carried in between.
* **Resources named by value.** Index entries, routes and chisel users are removed by
  name, pipes by port number. A name can belong to somebody else by the time it is
  removed.
* **Crashes.** The database survives, everything in memory does not, and
  `ReloadChiselUsers` rebuilds one from the other.
* **Time.** Nonces age, sessions expire, a fresh activation has a grace period during
  which its client may not have connected yet.

## What makes each part correct

* *Session store*: the subdomain index is exact; a key never leads to somebody else's
  session; a live session keeps its identity; a deleted one never returns.
* *User accounts*: a token works exactly while it is in its user's record; a seed phrase is
  looked up to the account that has it, and should recover no other; a revoked token stays
  revoked; an account is never overwritten; expired tokens get cleared in the end.
* *Tunnel life cycle*: an activated session can be reached, crash or not, and what it has been
  given is lost only to somebody late for an earlier owner of its name; a name leads only
  to the session that holds it, so nothing is left of one that is gone; the grace period is
  respected; pending sessions are spared; expired and abandoned ones are reaped.
* *Tunnels and pipes*: the gate is open only for a connection or for a tunnel that is over, and
  whoever has passed it misses the connection only because that has broken; the registry
  never leads to a dead proxy; a queued connection is answered or closed, unless its proxy
  ended first or its client stays and keeps silent; a broken connection unwinds completely.
* *Raw listeners*: what the map holds is alive, an open socket has a goroutine, and what
  the cleaner takes ends.
* *Rate limiter*: no IP gets more through within a window than the limit loaded, however
  the limits were reloaded or the window pruned; refused requests do not shut it out.
* *Binary cache*: a binary on offer is the one its checksum is about (the code keeps this up
  to files that are cut short); the directory goes missing only for the swap, and is lost to
  nothing but a crash in it; with the network in order it catches up with upstream.
* *Lifetimes*: what `effectiveTTL` grants stays within the role's and the server's limits,
  and is what was asked for.

## Modules

| Module | What it is |
|---|---|
| `SessionRegistry` | what the store promises, without buckets or indexes: tokens lease subdomains |
| `SessionStore` | `db/session*.go`: one action per transaction; refines `SessionRegistry` |
| `SessionStoreProofs` | its theorems |
| `Frontend` | extends `SessionStore` with handlers, cleaners, tunnels, config reload, crash; every step is a transaction of the store and a step of `PipeRegistry`, or leaves them alone |
| `FrontendProofs` | its theorems |
| `Accounts` | what the user store promises, without buckets, indexes or handlers: accounts open, renew, expire and close, and a credential opens the account it was issued to |
| `UserStore` | `db/users.go`, `db/cleanup.go` and the handlers that change accounts; refines `Accounts` |
| `UserStoreProofs` | its theorems |
| `PipeRegistry` | what the rest of the server sees of tunnels: proxies open under a key and close, one by one or, in a crash, all; implemented by `Tunnel` and by the tunnels of `Frontend` |
| `Tunnel` | `chiselvendor/tunnel/`, and the visitors of `server/proxy_tunnel.go`; refines `PipeRegistry` |
| `TunnelProofs` | its theorems |
| `RawTunnels` | `server/tcp.go`, `server/udp.go`, their starters and the cleaner's side |
| `RawTunnelsProofs` | its theorems |
| `Recovery` | `UserStore` behind the rate limiter of `server/middleware.go`: `/regenerate` by IP, pruning, reloads |
| `RecoveryProofs` | its theorems |
| `BinaryCache` | `binary/cache.go`, `binary/download.go` and their callers in `server/binary.go` |
| `BinaryCacheProofs` | its theorems |
| `Lifetimes` | `effectiveTTL` and the checks of `config.Validate` it relies on: a pure function, with its theorems |
| `MC*` and the `.cfg` files | instances for TLC |

### SessionStore

`sessions`, `bySub` and `byKey` are the three buckets, `issued` the tokens drawn so far
(`randHex(32)` never repeats; it has no counterpart in the code's state). The chisel
password is drawn beside the setup token and identified with it. A key reaches the
server as hex text: `PubHex` is a key with a flag that tells lower case from anything
else, because `RegisterPubkey` keys its index by the text while `DeleteSession` encodes
the stored bytes again. Timestamps are ages that saturate at `Horizon`, so time goes on
for ever in a finite model; `Tick` ages every record at once.

The mapping to `SessionRegistry` reads the stage of a token off its record and off
`issued`. The registry grants a subdomain when no lease holds it; the code asks its
index. That the two agree is the point of the refinement.

### Frontend

| Model | Code |
|---|---|
| `ScriptCheck`, `ScriptPort`, `ScriptCreate`, `ScriptRefused` | `handleScript`: count against `MaxSessions` (its other refusals touch nothing modelled here), choose a port, create |
| `Register` | `handleRegister`, one transaction |
| `ChallengeBegin`, `ChallengeEnd` | `handleChallenge`: read, then `UpdateSessionNonce` |
| `VerifyBegin` | `handleVerify` reads the session and checks the nonce of its copy |
| `VerifyPerms`, `VerifyDeny` | it loads the configuration, and deletes the session if that denies it |
| `VerifyAddUser`, `VerifyRoute`, `VerifyActivate` | `AddUser`, `RegisterRoute`, `ActivateSession` and the answer |
| `CleanBegin` ... `CleanEnd` | `cleanStaleRoutesAndSessions`: snapshot, one look at the pipes per session, routes, then user and session one by one |
| `Connect`, `Disconnect` | a chisel client: `authUser`, then any remote it asks for; the pipe registered and unregistered by port |
| `ReloadConfig`, `Restart`, `Time` | `reloadConfig`; a crash and `ReloadChiselUsers`; the clock |

A handler's local state `req[r]` holds exactly what the code carries from one shared
access to the next, a stale copy of a session included; so does `clean[c]`. `users` is
chisel's user index, `told` the sessions whose password `/verify` has given out, `pipes` the
registry by port and `at` the port each client serves. `authUser` lets a client in who
knows a password of the index, and anybody while the index is empty; all users have the
pattern `.*`, so whoever is in opens whatever port it likes, one that a session of
somebody else was given included. A client that opens several is several `Clients`.

Simplifications, and why they do not hide anything the properties speak of:

* Only sessions of mode `http`. Raw sessions differ by their listeners: `RawTunnels`.
* `NextServerPort` draws and tests a port in one step (it holds the lock for the test
  only), and ports held by other processes are skipped in silence.
* A cleaner deletes its tokens in any order; the code does expired ones first.
* A refusal that touches no session (missing parameter, bad signature, rate limit, no client
  binaries) is not a step.
* `cfg.Tunnel.TTL > 0` is assumed: at 0 sessions never expire.
* A restart keeps the permissions; a `ReloadConfig` may follow at once.
* `Prompt = TRUE` makes handlers finish before the clock moves (handlers take
  milliseconds, a tick stands for seconds). It is FALSE in the liveness run, where a
  handler may take for ever less one step.

### UserStore

Every transaction is one step; handlers that look up in one transaction and write in
another are two, with a crash possible in between. Of `/regenerate` there are three: past
the limiter (`Regenerate`), the look-up by phrase, the update by name. A handler
remembers the phrase it was asked with, which the code does not, to say whose phrase got
the token. Seeds and their hashes are identified. No code outside the tests sets
`User.Expire`, so records created by the admin API never expire (`None`); records with an
expiry are in the model because the cleaner exists for them. No query looks at the expiry:
a token works until that cleaner clears it.

The mapping to `Accounts` (`Book`) knows an account by its seed phrase: `Holder` is the name
under which the index of seed hashes finds it, `Opens` the account of the user whom
`bearerUser` finds for a token. What the abstract book calls one step, creating an account or
renewing its token, is the second transaction of a handler that read in its first one; the
refinement says that whatever happened in between, the second one alone decides.

### Tunnel

| Model | Code |
|---|---|
| `Connect` | `handleWebsocket` past the configuration: a `Tunnel` whose gate is shut, `BindSSH` and `BindRemotes` in an errgroup |
| `MarkActive` ... `Return` | `BindSSH`: set `activeConn`, open the gate, wait for the connection to break, shut the gate, clear `activeConn`, return an error, which cancels the context |
| `CloseSSH`, `Release` | the goroutine `BindSSH` starts: `Close`, `DoneAll` |
| `NewProxy`, `Run` | `BindRemotes`: register every pipe, then run them |
| `ClosePipe`, `Accept`, `AcceptFails`, `Unregister` | `runPipe` and its watcher |
| `FindPipe`, `NotFound`, `Inject`, `Overloaded` | `waitProxyPipe` and the non-blocking send of `proxyTunnel`, `proxyWebSocket` and `startTCPListener` |
| `GetSSH`, `PassGate`, `Reread`, `GiveUp` | `getSSH`: read `activeConn`; if there is none, `Wait` in a goroutine that closes a channel, then read again, or be woken by the context or the clock |
| `ClientAnswers`, `ChannelFails`, `Finish` | `pipeRemote`: `OpenChannel`, which the client accepts, refuses or leaves open and a broken connection fails, then the copying |

`registry` goes by key, so a reconnecting client's two tunnels meet there: the old
proxy's `Unregister` may remove the new one's pipe. `PipeRegistry` states this as a
promise (`Close` clears the key, whoever has it), and `Frontend` is shown to move its
tunnels by nothing else (`ServerUses`): `Connect` opens a proxy under a port of the
client's choice, `Disconnect` closes it, and a crash closes all. A visitor carries the pipe
it looked up, so it may inject into one that is closed or that nobody reads any more.

Left out: inside `sync.WaitGroup`, `Wait` returns in one step, so its panic when `Add`
overtakes a waiter that has not returned is not in the model. A dead client whose
connection stays open is a tunnel in which `Hangup` does not happen and nobody answers (no
keepalive is configured); `SSH_WAIT` is a choice that may be taken at any time.

### RawTunnels

`tcp[v]` is what one `/verify` of a raw session starts: the handler (`VerifyBegin`, `Verify`),
then its goroutine, which polls for the pipe (`FindPipe`, `GiveUp`) and becomes
`startTCPListener`, over `Listen` and `Register` to the deferred `CloseSocket` and `Forget`.
A session verified by two requests at once has two of them. The socket is a member of
`sockets`. `Reap` and `Delete` are the cleaner: first the entry of the port leaves the map,
then the socket is closed and the session deleted. A session draws its port when it is
created (`Draw`, which asks `isPortInUse` and nothing else) and is verified later, so two
may hold one. `Connect` has chisel's `CanListen` in its guard. `udp[v]` is the goroutine of
`startUDPListener`; `StartUDP` is a turn of its loop, with the branch that binds, registers
and serves. Connections that a listener accepts are visitors of `Tunnel`. `Restart` is
`ReloadChiselUsers` as raw sessions see it: verified sessions stay, and no listener comes
back; a port that a dead listener held is free again.

### Recovery

| Model | Code |
|---|---|
| `Allow`, `Refuse` | `rateLimiter.allow`: drop what is older than the window, compare with the limit, leave a stamp or none |
| `Cleanup` | `rateLimiter.cleanup`, called by `startCleaner` |
| `Reload` | `reconfigure`: other limits, the same stamps |
| `RegenerateFrom`, `RegenerateRefused` | `handleRegenerate` up to the limiter's verdict; the look-up and the update are steps of `UserStore`, and an unknown seed phrase counts too |
| `Restart` | the windows are lost, the users are not |

It extends `UserStore`: each step is one of the user store's, or leaves users alone. A
stamp is its age in ticks; `Oldest` is the longest window, and older stamps count for
nobody. `Numbers` tells requests of one age apart, and bounds them. `admitted` has no
counterpart in the code: it is what was let through since the present limits were
loaded, which is what a limit promises. The code keeps stamps only as far back as the
window in force when it last pruned, so a reload that widens the window cannot count
what a narrower one dropped; `RateRespected` therefore counts from the reload. The same
limiter stands before `/<port>`, where a refused request is no step of `Frontend`.

### BinaryCache

`cache` and `backup` are the directory and its `.old`; `job[u]` is an update, with its
temporary directory and the list of downloaded platforms. Any number may run: the
ticker's and one per `lrs binary update`, and no lock keeps them apart. Each step is a
file or a system call: `FetchSum`, `Copy` or `FetchBinary` for each platform, `Verify`,
then `Stat`, `MoveAside`, `Install`, `Restore`, `Drop`. A path is looked up when it is used, so
`Copy` reads whatever the name leads to by then. Downloads and copies may fail, cut
short or not, at any platform; `Crash` ends all updates.

A release stands for its binary and its checksum; `Torn` is a file that was not written
to its end. Simplifications: `RemoveAll` is one step; renames fail only when the model's
directories say so; the reads of one reuse check are one step; a checksum file without
its binary is left out, nobody looks at it; `version.txt`, `List` and the handlers that
serve files change nothing.

### Lifetimes

`EffectiveTTL` and `Refused` are `effectiveTTL`; `Valid` is what `config.Validate` demands of
the durations. A role without `set_ttl` gets its `max_ttl`, which is compared with no other
limit and may be 0: such a session is born expired. The instance of `SessionStore` takes the
lifetimes of its sessions from here, 0 included.

## Runs

| Run | Instance | Shows |
|---|---|---|
| `store` | 3 sessions, 2 names, 2 keys in both spellings, 1 nonce, horizon 1, lifetimes 0 and 1 as `Lifetimes` grants them (289,004 states) | types, exact index, keys, identity, no return, refinement |
| `frontend` | 2 tokens, 2 names, 2 ports, 2 nonces that expire, 2 requests, 1 cleaner, 1 client, 1 crash, a role without `infinity`, symmetric (874,269 states) | activated sessions are served, rightful names, grace, pending sessions spared, the specifications of the store and of the pipes |
| `frontend_fair` | 2 tokens, 1 name, 1 port, 1 session at a time, 2 nonces that expire, 1 request, 2 cleaners, 1 crash, changing permissions, slow handlers (146,552 states) | expired and abandoned sessions go; service is lost to latecomers only |
| `two_cleaners` | 2 tokens, 1 name, 1 request, 2 cleaners | violation: a fresh route is removed |
| `ports_unique` | 2 tokens, 3 ports, 1 crash | violation: a port is given out twice |
| `tunnel` | 2 tunnels with a proxy each on one key, 2 visitors, 1 slot (259,237 states) | the gate, live registry, refinement; tunnels unwind, visitors are answered or closed |
| `raw` | 2 sessions on one port, one of them tcp/udp, the other verified by 2 requests at once, restarts (411,798 states) | live map, owned sockets, what is taken ends, no UDP socket |
| `users` | 2 names, 3 tokens, 2 seeds, 2 handlers, 1 IP, two limits that trade window for number (178,900 states) | types, token and seed indexes, the abstract accounts, revocation, expiry; the limit holds, and nobody is shut out |
| `old_phrase` | the same with 1 name | violation: an old phrase recovers the account that took the name |
| `cache` | 2 platforms, 2 releases, the ticker's update and another, every fault, 1 crash (469,916 states) | no visible binary is of another release than its checksum, the directory is not lost, the cache converges |
| `colliding_updates` | the same with 1 release and without faults | violation: a platform is missing |
| `torn_copy` | 1 update, 1 release, faults | violation: a torn binary is published |

**Bounds.** Two sessions are the least at which one can take over the other's name or
port, and every hazard above is between two: a stale actor and the present owner.
The store has three, so that a name can change hands twice. Two ports make the counter
wrap. Ages saturate at horizon 1: a lifetime of one tick is running or over, a grace of one
tick likewise, and a nonce is good for the tick it was drawn in (`NonceTTL` is 0) and too
old after it, so that a second challenge may be needed. Nonces are two wherever sessions
are, so both may be activated; in `frontend_fair` only one at a time exists
(`MaxSessions` is 1), and the second takes name and port over from the first while a
cleaner may still be late. One client is enough to hold, to lose and to take over a port:
what the cleaners read is whether the port has a pipe. One crash
reaches every point of every handler; a second one finds the same memory, lost again.
Limits (1, window 2) and (2, window 1) make a reload narrow and widen the window and move
the limit both ways; three numbers are one more stamp than any limit. Two updates are
the ticker and an operator; the second platform is the one lost when the first
succeeded; the second release is the one published while an update is under way.
Two tunnels on one key are a reconnect; two visitors and one slot fill the pipe, where
the code has 128. `InOrder` in `users` and `tunnel` stands for a symmetry that TLC does not
combine with liveness: tokens and seeds are drawn in one order, and of two visitors or two
tunnels one is the first to move. What it leaves out are renamings of what it explores,
and it rules out no step that fairness asks for. `raw` verifies one session twice: the second
goroutine meets the first one's socket, entry and deferred calls.
Tunnels, visitors, verifications and raw sessions are used once each between restarts, so those runs
may stop, as the system does without clients; deadlock is not checked there.
`issued` and `drawn` only grow, so a run ends when tokens and nonces are used up and only
the clock ticks: enough for a session to be created, activated, lost, deleted, and its
name taken once more.

**Fairness.** Weak fairness of each handler's next step (the Go scheduler), of each
cleaner (its ticker) and of the clock; weak fairness of `InvalidateExpiredUsers` and
of time in `Recovery`; of an update's next step, success or fault, and of the ticker's
`Begin` in `BinaryCache`. In `Tunnel`, of the goroutines of each tunnel, proxy and accepted
connection; in `RawTunnels`, of a listener's own steps and of the cleaner's second one.
Nothing is assumed of clients, of the operator, or of crashes: that a client answers
(`ClientAnswers`), connects or leaves is asked by no fairness condition, and crashes are
bounded by `MaxRestarts` and `MaxCrashes`. `Converges` speaks of behaviours in which faults and updates by hand
have an end (`Settled`).

**What holds only under conditions.** Three properties of `Frontend` are checked in an
instance with one cleaner, one configuration, a positive grace period and prompt handlers.
The theorems tell apart what each of them needs:

| Property | Needs |
|---|---|
| `GraceRespected` | one configuration and prompt handlers (`Steady`) |
| `RightfulNames` | a positive grace period besides (`Gentle`) |
| `ActiveIsServed` | that a name is given out again only when nobody works for the session that had it (`NamesRest`), and none of the above |

All three are proved for any number of cleaners. `Steady` and `Gentle` fail in the code for a handler
slower than the grace period, which activates again what a cleaner has listed, and for a
reload that lets one handler deny and delete what another has just activated, user and
route left behind; without grace a cleaner may condemn a session whose second verification
is under way. `NamesRest` fails because a name is free as soon as its session is deleted,
while the other cleaner, of the two that the program always starts, may still hold it
(`two_cleaners`): with a second cleaner the run `frontend` would report `ActiveIsServed`, too.
The run has one, and says what the handlers, that cleaner and a crash keep among themselves;
of both cleaners `ServiceKept` says what remains. The defaults (10 s of grace) make the slow handler unlikely, and nothing
excludes it. `ServiceKept`, `PendingKept`, `ServerUses`, `AccessIsRightful` and the liveness
properties need none of this.

## Disagreements between code and comments

The first five are runs that violate a property, with the line each quotes in `PROJECT.json`.

* `NextServerPort` "returns a unique internal port number" (`server/routes.go:10`), but the
  ports of pending sessions are not counted as used. Two sessions then share a route's
  target, and one client's disconnect unregisters the other's pipe.
* "route should still exist during grace period" (`server/cleanup_test.go:89`) fails when
  the other cleaner acts on an older snapshot.
* `Update` "downloads all platform binaries" (`binary/cache.go:53`), and without any fault it
  may publish a directory that lacks one: while it copies a binary from the cache,
  another update moves the cache away, and the platform is skipped.
* "Verify every checksum before moving anything into place" (`binary/cache.go:87`; "if any
  checksum fails, the update is aborted", `:54`): a download or a copy cut short leaves its
  file in the directory, the platform is skipped, `Verify` is not asked about it, and the
  torn file is published beside its checksum.
* "The seed phrase is the only way to recover a lost token" (`cli/users.go:76`): a `/regenerate`
  that has looked its name up renews the token of whoever has the name later. If the
  account was deleted and created anew in between, the old phrase's holder gets the token
  of the new account.
* "If cleanup removed the listener, exit" (`server/udp.go:24`): the UDP goroutine looks for its
  port in a map that only it fills, after looking. It exits at once, every time; a
  tcp/udp tunnel has no UDP socket. `UDPSilent` states this, and holds; a repair would
  break it.
* `bearerUser` returns nil for an expired token (`server/auth.go:11`): it does so once the cleaner
  has cleared it, and until then an expired user's token works. `TokenIndexExact` is
  stated, and holds, without regard to the expiry; `ExpiredCleared` says that the cleaner
  comes.
* The swap of the binary cache is called atomic (`binary/cache.go:54`, `:94`). It is two renames;
  see below.

## Proofs

All theorems hold for every value of the constants that meets the named assumptions:
`None` is outside the sets it extends, a pipe has at least one slot, lifetimes do not
exceed the horizon, ports are `1..n`, limits are naturals, windows are positive, there is
at least one platform and one release, and the ticker's update is one of the updates. Liveness and `ENABLED` are out of the prover's reach.

**Session store.** `SubIndexExact` and `KeyLeadsToOwner` are not inductive alone: a token
drawn now must not be found under an old entry. `StoreInv` adds `TokensIssued` (live
sessions and key-index entries carry issued tokens) and states key ownership on the raw
index (`KeyIndexSound`). From it follow type correctness, `SubIndexExact`,
`KeyLeadsToOwner`, `SessionIdentityStable`, `DeletedForever`, and `ImplementsRegistry`:
creation is a `Claim` because an exact index means a free name is leased to nobody, deletion is a
`Release`, and nonces, keys and ticks are stutters.

**Frontend.** `FrontInv` is `FrontTypeOK` with `StoreInv`. Each of the server's actions is
shown to be one transaction of the store or none (`FrontUsesStore`), which carries all
the store's theorems over to the server, with any number of requests and cleaners.
`PendingSpared` proves `PendingKept` from `ReapInv`: whatever token a cleaner holds in its
snapshot, list or hand is activated or gone, and neither is ever undone.

`AccessInv` is about copies: a handler adds the user, the route and the answer to its
client from a copy that may be stale by then, and a name or a port may be somebody else's. It says
that a handler's copy agrees with the record as long as there is one (`CopyFaithful`), that
the password under a name was drawn for a session of this name (`RightfulUsers`), and that nothing
is activated without a key (`ActiveHasKey`); `AccessIsRightful` is the last two. It is proved
without any assumption on cleaners, configuration or clock. It says nothing of what a
client does once it is in, which the code leaves to the client. `ServerUsesParts` joins
`FrontUsesStore` with the same fact about the tunnels: what `Tunnel` implements is what the
server uses.

**User store.** `UserInv` adds to the type and to both indexes that every token and seed in use
has been minted, so a fresh one collides with nothing. From it follow
`TokenIndexExact`, `SeedIndexExact`, `RevokedForever` and `AccountKept`, and the refinement
`RefinesAccounts`: since the indexes are exact, what opens an account is what its record
holds, so a creation that found its name free twice changes nobody's account, a renewal takes
away exactly one token, and a deletion leaves no credential behind. What the book does not
say is whose phrase asked for a renewal: `PhraseRenewsItsAccount` is the positive side of the
run `old_phrase`. As long as no user is deleted whom a regeneration has looked up, the token handed
out for a phrase is of its account.

**Tunnels.** `GateSound` speaks of a moment; what makes it inductive is `Phases`: how far `BindSSH`
is determines the context, `activeConn`, the count of the gate and whether the connection has
broken, and the watcher moves only after the end. That a waiter past the gate may miss
`activeConn` only after a break takes one thing more: that its tunnel has been bound
(`PassedBound`). `RegistryLive` is inductive with the types. From these, `RefinesPipes`: only
`NewProxy` and `Unregister` are seen from outside, as `Open` and `Close`.
`RegistryLive` is all the registry promises; that it may miss a live proxy is the effect of
two tunnels on one key, and of nothing else: `ProxiesFound` assumes `OwnKeys` (no client
reconnects before its tunnel is gone) and proves that every proxy between its
registration and its unregistration is found.

**Names, grace and serving.** For any number of cleaners, and as much assumed as each takes:

* `Steady`: one configuration, and handlers that end before the clock moves. `GraceInv` then
  says that no time has passed since another request activated what a handler holds
  (`HeldYoung`), that whatever went on past the permissions was permitted and what is
  activated still is, and that a cleaner's targets are past their grace as long as they live.
  `GraceKept` follows: neither a denial nor a cleaner deletes a session within its grace.
* `Gentle`: a positive grace period besides. The crux is `Apart`: a permitted handler's session
  and a cleaner's living target are never the same, nor share a name, because one has age 0 and
  the other is past its grace. `OwnInv` builds on it: a permitted verification has its session
  (`AllowedLive`); a cleaner takes route, user and record of a living target in this order, whatever
  the other cleaners are up to (`CleanersTidy`); and routes and users are those of the session that
  holds the name, which is activated or about to be (`Owned`). `NamesAreRightful` follows.
* Nothing: `ServiceIsKept`. A cleaner that works for living sessions knows their names
  (`CleanersKnow`), and a crash serves every activated session anew (`RestartServes`); so whoever
  takes a session's user or route is working for one that is gone, under the same name.
* `NamesRest`: a name is given out only when no cleaner and no verification holds it for the
  session that had it. Then nobody is late (`EveryoneOnTime`) and nobody takes what a
  verification has registered (`Prepared`), which with `ActiveIsServed` makes `ServeInv`, and
  `ActiveServed` follows. With `Steady` besides, `FreshRouteServed`: what the run `two_cleaners`
  refutes holds with both cleaners at work, so the name given out too early is what it takes.

There is one lemma per invariant and, where an action disturbs one, a step per action.

**Recovery.** `RateRespected` counts a history; `LimiterInv` says that what was admitted and is
young is still among the stamps of its IP, and that those are finitely many, so the
comparison in `allow` covers it.
`RecoveryImplementsUsers` shows that each step is one of `UserStore` or leaves users alone, so
all theorems about accounts hold behind the limiter (`RecoveryKeepsUsers` for the indexes,
`RecoveryKeepsAccounts` for revocation, ownership and the refinement of `Accounts`).

**Binary cache.** `VisibleUnmixed` rests on `DirectoriesOK`: a platform that an update has not
finished holds nothing or a torn file, what has passed `Verify` matches or is torn, and so
does the backup, which `Restore` may bring back. That torn files are all that can be
wrong is `IntactIsVerified`: as long as no copy or download is cut short, `VisibleVerified` holds, skipped
platforms, crashes and colliding updates notwithstanding. `CacheAvailable` goes step by step:
only `MoveAside` takes the directory away, and leaves its update about to install; `Install`
leaves a directory behind, whoever it belongs to; so once there, the directory is there or
about to be until a crash. `SoleUpdateComplete` is the counterpart of the
run `colliding_updates`: without faults and with `OneUpdate`, every directory that is published
has all platforms, so that run's counterexample takes the second update.

**Lifetimes.** Four theorems about `EffectiveTTL` for all integers: never beyond `max_ttl`;
never beyond `ttl_limit` for a role that may choose, its default included; positive when
`max_ttl` is; and as asked.

**Raw listeners.** `RawTypeOK`, `RegisteredAlive` and `SocketOwned` are inductive together;
the type says that no listener is started for an unverified session.
`TakenIsRightful` says that the cleaner, between taking a listener out of the map and closing
it, holds one of its own session's port, in its accept loop or on its way out.
`ListenersFound` assumes that no two sessions have a port (`OwnPorts`, what `ports_unique` shows
the code does not ensure) and that each is verified by one request (`OwnVerification`, what
two concurrent `/verify` break), and proves that a listener in its accept loop is then in
the map for as long as its session is active: a listener that a cleaner cannot find takes
two goroutines on a port, or a cleaner ahead of the registration.
`NoUDPListener` proves `UDPSilent` for any sessions and verifications: the branch that would put a
port into the map of UDP sockets runs only for a port that is there.

**Only model-checked** are the liveness properties `ExpiredReaped`, `LostReaped`,
`ExpiredCleared`, `NotLockedOut`, `Converges`, `TunnelUnwinds`, `VisitorAnswered` and
`TakenEnds`. The code violates `PortsUnique`, `FreshRouteKept`, `AllPlatforms`, `VisibleVerified`
and `RenewedByOwner`; for all but the first, a theorem says under which condition they hold
(`FreshRouteServed`, `SoleUpdateComplete`, `IntactIsVerified`, `PhraseRenewsItsAccount`).

## What the models show besides

* `DeleteSession` "removes a session and its indexes" (`db/session_update.go:54`), but not the
  key's entry when the client sent its key in upper-case hex. `KeyLeadsToOwner` shows that
  the entry is harmless: a lookup through it finds nothing or a session with that key.
* `ConsumeNonce` clears the nonce "so it cannot be reused" (`db/session.go:98`), but in a copy:
  two requests may verify with one nonce. Both are of the same client.
* The "atomic swap" of the binary cache (`binary/cache.go:94`) is two renames. Between them the
  directory is missing, and a crash there leaves none until the next update succeeds.
* An update that began before a later one ended may put an older release in its place;
  `Converges` says that the next updates undo it.
* A raw client that loses its connection cannot come back while its session's listener
  is open: chisel's `CanListen` wants the port the listener holds. It waits for the
  cleaner, which deletes the session.
* A cleaner that comes between `net.Listen` and the registration, or an older listener's
  `Forget` after a newer one's `Register`, leaves a socket that no cleaner will close.
  The port is then passed over by `NextServerPort`, and the socket stays.
* A connection injected into a pipe whose proxy has ended is never answered, and neither is
  one whose channel request the client leaves open: there is no timeout, and no keepalive
  finds a client that is dead (`VisitorAnswered` excepts exactly these two).
* Whoever knows one password of chisel's index, and anybody while that is empty, may open the
  port of any session: the cleaners then take that session for connected, and `LostReaped` is
  stated by the port, not by the client.
* A visitor past the gate may find no connection before its tunnel is over: `Wait` returns, and
  `BindSSH` shuts the gate and clears `activeConn` before the waiter reads it.

## Plan

1. *Done*: `SessionRegistry`, `SessionStore`, `Frontend`, `UserStore`, and their proofs.
2. *Done*: `PipeRegistry`, `Tunnel`, `RawTunnels`, and their proofs.
3. *Done*: `Lifetimes`, `Recovery`, `BinaryCache`, and their proofs; a restart in `RawTunnels`.
4. *Done*: proofs of all safety properties that the runs check; the abstract `Accounts`; the server as
   a user of both the session store and the registry of pipes; what the violated properties
   need in order to hold.
5. Left: the chisel handshake as its own steps (`authUser`, the map of SSH sessions, the
   configuration message), composed with `Tunnel`; the admission checks of `handleScript` by
   user and by role.

## Not modelled

* The setup script, TLS, logging, the command line, and parsing, saving and redacting the
  configuration: they compute text, configure libraries or call what is modelled.
* Cryptography and randomness stay abstract: what is drawn is new, and a signature that
  is accepted is right.
* The forward direction of a tunnel, UDP framing and header rewriting copy or format
  bytes. Of the UDP loop, the branches are modelled and the packets are not.
* The handshake of a chisel client is one step in `Frontend` and in `Tunnel`; the map of SSH
  sessions is read by nothing else of this server.
