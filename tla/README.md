# A verification development for StricklySoft Core

This directory holds TLA+ modules for the parts of `stricklysoft-core` where the
order of events decides whether the code is right: the life cycle of an agent
(`pkg/lifecycle`), the validation of tokens with its two caches
(`pkg/auth/jwt.go`), the way from the claims of a token to an authorization
decision (`pkg/auth/rbac.go`, `pkg/auth/k8s.go`), the identity of a request on
its way through the services (`pkg/auth/propagation.go`, `http.go`, `grpc.go`),
and a service from its configuration (`pkg/config`) to the last call of its
database client (`pkg/clients`), with the errors it gets (`pkg/errors`). TLC
model-checks the modules on small instances; TLAPS proves the theorems of the
`*_proofs` modules for every value of the constants.

    tlc -workers 2 -config lifecycle_concurrent.cfg MCBaseAgent.tla
    tlapm BaseAgent_proofs.tla

`PROJECT.json` lists the runs, ties every definition to the lines of code it
stands for, and names for every property a faulty variant of the code that the
property catches. The variants are definitions in the modules, introduced by a
comment that begins with "Variant"; no specification uses them.

## 1. The system

The repository is a Go SDK. Services link it; nothing in it runs on its own.
The processes of every model are therefore the goroutines of the service that
call it at the same time, its HTTP peers, and time.

| Component | State it keeps | Operations | Talks to |
|---|---|---|---|
| Agent states, `lifecycle/state.go` | none: a transition matrix | `ValidTransition`, `IsTerminal` | BaseAgent |
| BaseAgent, `lifecycle/agent.go` | `state`, `startedAt`, `onChange`, under `mu` | `Start`, `Stop`, `Pause`, `Resume`, `SetState`, `State`, `Info` | hooks (outside the lock), handlers (under it) |
| Agent builder, `lifecycle/agent_builder.go` | collected options | `With...`, `Build` | makes a BaseAgent |
| Token cache, `auth/jwt.go:279-390` | `entries`: hash, identity, `expiresAt`, under `mu` | `get`, `put`, `evictExpired` | JWTValidator |
| JWKS cache, `auth/jwt.go:392-520` | key set and `fetchedAt` per issuer, under `mu` | `getKey` | provider over HTTP, JWTValidator |
| JWTValidator, `auth/jwt.go` | the two caches, the OIDC discovery document under `oidcJWKSMu` | `Validate` | providers, claim and permission mappers |
| Permissions, `auth/rbac.go`, `auth/identity.go` | three indexes in a `PermissionSet`, immutable | `ClaimsToPermissions`, `NewPermissionSet`, `Match`, `Has` | identities, interceptors |
| Identity propagation, `auth/propagation.go`, `http.go`, `grpc.go`, `context.go` | values in a context, headers | inject, extract, middleware and interceptors, `AppendCaller` | the next service |
| Kubernetes token source, `auth/k8s.go` | path of a projected token | read, extract claims | JWTValidator |
| Database clients, `clients/{postgres,redis,neo4j,qdrant,minio}` | a driver handle | `NewClient`, operations, `Health`, `Close` | the driver |
| Configuration loader, `config/loader.go` | options of one Load | `Load` | file, environment |
| Errors, `errors/` | none: codes and wrapping | constructors, `Is...` | everything |
| Execution record, `models/execution.go` | a data record | constructors, validation | none |

### Which behaviours are hard, and what makes each component correct

* **BaseAgent.** A call of `Start` is two critical sections of `mu` with user
  code between them; `Pause` and `Resume` check under the read lock, run user
  code, and change the state later. Everything another goroutine does in those
  gaps is possible. Correct means: only transitions of the matrix happen;
  handlers hear of all of them, in order, each handler before the next
  transition; nobody leaves the agent in `Starting` or `Stopping`; `startedAt`
  and the state agree wherever a reader can look; every call returns.
* **Token cache.** A bounded map with two ways to expire. Correct means: never
  larger than its limit, no entry older than the TTL, none older than its token,
  and an entry that is still good is given up only by a put into a full cache, and
  then one that expires first. (A put of a token that is cached already makes room
  all the same, `jwt.go:347-365`.)
* **JWTValidator.** Cache hits skip the verification; the key set may be stale
  or be overwritten by an older response; discovery is one HTTP exchange under a
  mutex; the type of a token is guessed from its algorithm if its issuer is
  unknown. Correct means: only genuine tokens become identities, a genuine one
  is not refused because of a stale cache, discovery is done by one goroutine at
  a time and its failure is not remembered, every call returns.
* **Permissions.** `PermissionSet.Match` answers from three indexes with two
  fast paths; correct means that it grants what the claims of the token say and
  nothing else, for every mix of wildcards, empty scopes and malformed entries.
* **Identity propagation**. Each hop takes caller and chain from the headers,
  appends itself, and may have to go without headers that are too large. Correct
  means: the chain names the services of the route the request took since it was
  last lost, in order, up to the documented cut at 32 callers; the originator
  survives the cut; the caller is the service that made the call.
* **Kubernetes token source.** The account is put together from three places of
  the claims. Correct means: nothing they say is lost or made up, and where they
  contradict each other the more preferred place prevails, field by field.
* **Configuration loader.** Defaults, file and environment overwrite one another
  in order, the first failure ends the load half way, and at the end `Validate`
  may write, too. Correct means: every field has the value of the highest layer
  that has one, Load fails only for the reason its code gives, and `Validate`,
  which `NewClient` calls again, accepts and leaves alone what Load accepted, so
  that `NewClient` refuses only what is left to the driver.
* **Database clients.** `NewClient` opens a driver before it knows whether the
  server answers; operations overlap with one another and with `Close`; a context
  may have no deadline. Correct means: no failing path leaves a driver, a span or
  a session behind; what is opened has settings that can work; an error says
  truthfully whether to try again; health checks, startup and `Close` come back.
* **Errors.** Class, status and retryability of a code are written down in
  separate tables, and have to agree however an error is wrapped.

The hazards, each at its line, are in `PROJECT.json`.

## 2. Modules

| Module | Stands for | Extends / uses |
|---|---|---|
| `LifecycleStates` | the transition matrix | |
| `AgentLifecycle` | what BaseAgent promises its observers (abstract) | `LifecycleStates` |
| `BaseAgent` | goroutines calling one BaseAgent | `LifecycleStates`, instance of `AgentLifecycle` |
| `MCBaseAgent` | finite instances of it | `BaseAgent` |
| `BaseAgent_proofs` | its theorems | `BaseAgent` |
| `TokenCache` | the token cache on its own | |
| `MCTokenCache`, `TokenCache_proofs` | instances, theorems | `TokenCache` |
| `JWTValidator` | goroutines calling `Validate`, clock, providers | instance of `TokenCache` |
| `MCJWTValidator`, `JWTValidator_proofs` | instances, theorems | `JWTValidator` |
| `Permissions` | claims to decisions | |
| `ServiceAccount` | the projected token file and the account its claims name | `Permissions` |
| `MCPermissions`, `Permissions_proofs` | instances, theorems | `ServiceAccount` |
| `Propagation` | a request on its way through the services | |
| `MCPropagation`, `Propagation_proofs` | a finite instance, theorems | `Propagation` |
| `ErrorCodes` | codes, wrapping, the tables that classify them | |
| `ClientConfig` | the five `Config` structs, `Validate`, what a driver is opened with | |
| `ConfigLoader` | `Loader.Load` on such a struct | `ClientConfig`, `ErrorCodes` |
| `DatabaseClient` | the five clients: `NewClient`, operations, `Health`, `Close` | `ClientConfig`, `ErrorCodes` |
| `DriverHandle` | what a client promises about its driver (abstract) | |
| `ClientService` | a service that loads, makes a client, uses and closes it | `ConfigLoader`, instances of `DatabaseClient` and `DriverHandle` |
| `MCClientService` | a finite instance | `ClientService` |
| `ConfigLoader_proofs`, `ClientService_proofs` | theorems | `ConfigLoader`; `ClientService` |
| `ClientSettings_proofs` | theorems about settings, types, errors and the driver | `ClientService_proofs` |

### BaseAgent

A step ends where another goroutine can come in. `Call` and `CallSetState` begin
a call; `StopIfTerminal`, `CheckContext` and `requireState` are the checks in
the order of the code; `Hook` is the user's function outside the lock, which may
succeed, fail or panic. A critical section is three actions: `Accept` locks,
checks the matrix and assigns; `Notify` calls the next handler, under the lock;
`Release` updates `startedAt` and unlocks. `Refuse` is the critical section that
ends at once because the transition is not in the matrix. The same actions
serve `SetState`, the two halves of `Start` and `Stop`, and the way to `Failed`
after a hook failed: `pc` says which, and `Target` what the call asks for.

Times are reduced to what the properties tell apart: `startedAt` is nil, from
the present life of the agent, or from an earlier one. A read under `RLock` is a
guard `mu = NoCaller`. The builder is `Init`. Tracing, logging, identity fields
and capabilities are left out; a handler is code that returns (a panic in it is
recovered by the code; a handler that calls the agent is forbidden by
`agent.go:346-347` and would wait for itself).

`AgentLifecycle` is the promise to observers: the first handler is told of a
legal transition, the others follow in order of registration, and only then the
next transition is announced. `BaseAgent` implements it with `told <- seen`.
The refinement is not by construction: `seen` is written by `Notify`, one
handler at a time, from whatever `state` is at that moment, and an unlock before
the last handler or an unchecked transition breaks it.

### TokenCache and JWTValidator

`TokenCache` has one action per operation, since each holds `c.mu` throughout;
`get` changes nothing and is a predicate. An entry is reduced to its
`expiresAt`. `Room` is the two-stage eviction of `put`: the set of the key sets
that may be left, one for each choice among equally old entries (the code
depends on the order in which Go walks a map).

A token may be put at any time, also after its `exp`: in the composition time
passes between its verification and its put, and `ClockSkew` is for tokens that
have expired.

`JWTValidator` composes it: `Put` is `Cache!Put`, `LookupToken` asks
`Cache!get`, and what the goroutines do to the cache together is a behaviour of
`TokenCache` (proved). The steps of a call are the places where something can come in
between: the token cache, the discovery mutex, the discovery response, the read
section of `getKey`, the JWKS response, the write section of `getKey`, the
verification, the put. `Tick` moves time and `Rotate` changes what a provider
publishes, at any moment. A token is a record of what the code can find out
about it: its issuer (one of the configured types or another), its algorithm,
the key id in its header, if there is one, and the key it was really signed with,
whether its audience is right, whether an identity can be built from its claims,
its `nbf` and its `exp`. The JWT library (`golang-jwt`) is modelled by how `jwt.go`
uses it: `ValidMethod` before the key is asked for, then signature, time, claims;
`nbf` is checked with the same leeway as `exp`, and a token that comes too early is
refused, not cached, and may be accepted later.
`excuse` is a history variable: whether, during this call, a request failed or
the provider did not publish the key the token needs.

### Permissions

A permission string is the sequence of parts that `strings.SplitN` makes of it;
a claim is a set of them. The three claims are read one after the other, the
permissions collected, the set indexed; then `Match` and `HasPermission` answer.
The properties compare the answers with `Says`, which is read off the claim
directly and not off the intermediate data.

### Propagation

One request is followed through the services. `Serve` and `Refuse` are the
server side (`HTTPMiddleware`, `extractIdentityFromGRPC`), `Propagate` and
`PropagationFails` the client side (`RoundTrip`, `propagateIdentityToGRPC`),
which differ in what they do with values that are already there (`WithHeaders`).
`Mangle` stands for whatever makes the chain header unreadable on the way.
Contexts and chains are values, so the branches of a fan-out cannot see each
other, and one path stands for all of them. `AppendCaller` copies its slice, and
the model takes that for granted. `route` is a history variable, written
independently of the headers; the properties compare the context with it.

### ServiceAccount

A call reads the token file (`ReadFails` if there is none, or nothing in it), maps
the permissions of its claims (`MapPermissions`, the steps of `Permissions`), and
then `Identify` puts namespace and name together from the nested claim, the flat
ones and the subject, field by field, as `k8s.go` does; `IndexPermissions` is the
service that goes on with the identity. `AccountSpec` extends `Spec` this way, so
that the run asks both modules its questions.

### Configuration and clients

`ClientConfig` gives every struct its fields in the order of declaration; fields
that one rule treats alike are one field. `Fill` is the "if zero, set the default"
of the `Validate` methods, and each `...Validate` keeps their order: what is filled
in before the URI is looked at, what after, and what is checked in between. A
`Verdict` has both results, since a `Validate` that refuses has written, too.

`ConfigLoader` translates the four phases of `Load` as operators from a struct to
a result, and `Loaded` is the sequence of them that stops at the first error;
`Load` is one step, since nobody else has the struct. The file and the environment
are functions from the fields they set to values. A struct may be the client's
`Config` or have one nested in it behind a field `app` with `envDefault` and
`required` tags, of which `validate` asks only the outer one.

`DatabaseClient` has one action for each place where a goroutine waits:
`NewClient` (validation, the driver's own checks, opening), `PingSucceeds` and
`PingFails` (the request that shows whether the server is there), `Begin` (span,
session, deadline of a health check), `Acquire` (a connection of the pool),
`Collect` and `Repeat` (a statement and its results in a session, which the driver
may do again), `Return` (`wrapError`, and what is deferred). The operations of the
five packages are listed in `Operations` by what they do with the driver; those
of one shape do the same. The drivers are external: they answer, give up when the
context is done, or refuse when they are closed; the pool of `pgx` has its limit,
and its `Close` waits for every connection. The `Close` of neo4j takes the time it
takes: `neo4j/client.go:358` says that it waits for the sessions, the driver may
also end them, and both are possible here, sessions and rows going on meanwhile.
The other drivers close at once. `ClientService` has the main goroutine
that loads, makes the client (or adopts a driver it opened itself) and closes it,
and the goroutines that use it meanwhile.

`DriverHandle` is the client without its operations: a driver that is opened,
published or abandoned, lent and given back connection by connection, and closed.
`ClientService` implements it with `limit` and `lent` read off the client: nothing
is lent before there is a client (`Lendable`), and connections are counted for
postgres, whose client waits for them. Nobody writes these counts: they follow from
where each goroutine is and what it holds, so that a path of an operation that
keeps a connection, or a `Close` that does not wait for one, breaks the refinement.

Drivers classify a deadline by themselves: `ContextErrors` has the gRPC status of
qdrant next to `context.DeadlineExceeded`. The limits of the pools of redis and
neo4j are settings here and no bound of the behaviour.

### The environment of Propagation

The application is the environment: it calls over either transport, with the
token it was called with, with its own, or with none, and over the transports in
`Copying` it may start from the headers of the request it serves, as a gateway
does.

## 3. The runs

| Run | Instance | What it shows |
|---|---|---|
| `lifecycle_concurrent` | 2 drivers, 1 monitor, 2 handlers, hooks ok or error | `TypeOK`, `NotifiedInOrder`, `TransientStateIsOwned`, `StoppedHasNoStartTime`; `ObserversSeeLifecycle`, the refinement; and `EveryCallReturns`, `TransientStatesEnd` under fairness |
| `lifecycle_single_driver` | 1 driver, 2 monitors, hooks may also panic | `StartedThisLife`, `FailedHookFailsAgent`: what the documentation says holds as long as one goroutine drives the agent |
| `lifecycle_resume_race` | 2 drivers, 1 monitor, 1 handler | violation of `RunningHasStartTime` |
| `lifecycle_hook_race` | the same | violation of `FailedHookFailsAgent` |
| `token_cache` | 4 tokens, 2 places, 9 instants, put before and after their `exp` | `SizeBounded`, `GoneAfterTTL`, `GoodEntriesGoLast`, `PutRespectsExp` |
| `validator_late_put` | 1 goroutine, the tokens of the next run, no skew | violation of `CachedNoLongerThanToken` |
| `validator_concurrent` | 2 goroutines, 12 tokens, 2 providers with 2 key sets, requests fail | `OnlyGenuineAccepted`, `RefusalsHaveReason`, `DiscoveryIsExclusive` |
| `validator_live` | 2 goroutines, 2 tokens, OIDC only | `EveryValidateReturns` |
| `permissions` | up to 2 permissions, 1 role and 2 scope entries per token, out of 13, 4 and 5 entries; a token file with accounts of 2 namespaces and 2 names in each place | `MatchesWhatIsClaimed`, `ListAgreesWithSet`, `SurvivesFormatting`, `NamesTheAccount` |
| `propagation` | 2 services and one outside, 1 client, `MaxCallChainDepth` 2, routes of 4 hops, copied headers over HTTP | `ChainIsRoute`, `SentChainsFit`, `CallerIsSender` |
| `propagation_caller_identity` | the same with routes of 2 hops | violation of `CallersNameThemselves` |
| `clients` | the five packages, zero and default structs, nested or not, 2 fields set by file and environment, 2 goroutines | of loading `LayersInOrder`, `LoadRefusesForAReason`, `AcceptedIsStable`; of the client `SaneSettings`, `NoDriverLeaked`, `NothingLeftBehind`, and `DriverIsAHandle`, the refinement; of its errors `RetryTellsTheTruth`, `StatusMatchesClass`; and `HealthReturns`, `StartupReturns`, `CloseReturns` under fairness |

### What the violations say

1. `lifecycle_resume_race`. `Resume` checks for `Paused`, runs its hook, and
   then calls `SetState(Running)`. If the agent was stopped and started anew
   while the hook ran, the agent is `Starting`, and `Running` is a legal
   transition from there: the agent runs and `startedAt` is nil until the new
   `Start` gets to its second half. `agent.go:473-475` says that this window is
   prevented.
2. `lifecycle_hook_race`. A failed hook is followed by `_ = a.SetState(StateFailed)`.
   If another goroutine stopped the agent meanwhile the transition is refused,
   the error dropped, and the agent stays `Stopped`. `agent.go:219-221` says
   that the agent becomes `Failed`.
3. `validator_late_put`. A token expires between its verification and its put,
   even with a clock without skew: nothing is left of its lifetime, and `put` then
   takes the branch of the whole TTL. A token accepted within `ClockSkew` of its
   `exp` goes the same way. `jwt.go:341` says of the early return below that
   branch that an expired token is not cached, and `jwt.go:168-170` that the TTL
   is a minimum of the two. `PutRespectsExp` is what does hold: what is put in time
   does not outlive its token.
4. `propagation_caller_identity`. A service that forwards the request of a user
   writes itself on the chain with the identity of the context (`http.go:131-135`),
   which is the user's. `identity.go:459-460` says of `CallerInfo.IdentityID` that
   it is the service's own identity, not the original requester's. `ChainIsRoute`
   therefore speaks of the services on the chain only.

### Why the bounds are enough

* *Two drivers and a monitor.* The overtaking that matters is of one call in its
  gap, and the other goroutine makes every call meanwhile, one after the other:
  it stops the agent and begins a new life. The third fails the agent at any
  moment. Two handlers are the least for which "one after the other" means
  something. The safety properties are proved for any number of each.
* *Token cache.* Two places and four tokens with three expiry times, two of them
  equal, reach eviction of expired entries only, of the oldest only, and of both;
  the clock goes past every `exp`, so that each token is put in time and too late,
  and past the end of what is put up to instant 4 (`MaxTime` bounds it and nothing
  else).
* *Validator.* Every branch of the validation has a token that takes it. Two
  goroutines are what overtaking needs: one fetches, the other stores. `MaxTime`
  1 with TTLs of 1 and a skew of 1 passes through fresh, stale, in time, within
  the skew, and expired (`OIDC1` has `exp` 0), or not valid yet (`Kube1` has `nbf` 2,
  and is accepted at 1). One place in the token cache
  makes goroutines throw out each other's entries.
* *Permissions.* Every question over 7 words, the wildcard and the empty string
  is asked; an answer depends on at most two permissions and the question, so
  two permissions, a role and the OAuth2 scope in every combination reach each
  pair of index entries. The computation ends, so this run does not check for
  deadlock.
* *Propagation.* A chain of two is cut on the third hop, one that enters with three
  on the first. Four hops are enough to lose a chain and to start, fill and cut
  another one, with a change of transport and of identity between any two of them
  (`MaxHops` bounds the route); two show whose identity a caller has. A request ends
  where it is refused and where the route is as long as it may be, so these runs do
  not check for deadlock either.
* *Clients.* Two fields are what it takes for two layers, or two fields of one
  layer, to disagree (`MaxSet`): a limit of the file against one of the
  environment, a value that is skipped behind one that cannot be parsed, a maximum
  below a minimum whose default is not in place. Each field has a good value, the
  zero value where writing it matters, and a bad one. Pools have 1 or 3 connections
  and there are two goroutines, so the pool is exhausted by one that holds what the
  other waits for, or by one that waits for itself. A second is two units of time,
  so that a timeout below it exists; ports go up to 2. When the loader is done
  with the configuration it is dropped, so that states are told apart by the
  client's copy only. A service ends with a failed load or with `Close`, so this run
  does not check for deadlock; goroutines that wait for ever while the service goes
  on are what its three liveness properties are for.

Symmetry is used for the goroutines of `validator_concurrent` and for the services
of the two runs of `Propagation`, which are model values and which the
specification does not tell apart; it is not used with liveness.

### Fairness

`FairSpec` assumes for each goroutine that it goes on when it can: the Go scheduler
runs it, hooks and handlers return, an HTTP request is answered or given up
(`http.Client.Timeout`, `jwt.go`). Lock acquisition is strongly fair, because
`sync.RWMutex` and `sync.Mutex` starve nobody: a waiting writer blocks later
readers, and a mutex that made a goroutine wait too long is handed over. No
goroutine is assumed to call anything: the begin of a call is not fair, and neither
are the clock and the rotation of keys. For the clients, `Client!Fairness` assumes
that deadlines pass, that drivers heed the context they were given and their own
closing (`pgx`, `go-redis` and gRPC document both), that `pgxpool.Pool.Close`
returns once every connection is back (nothing of the kind is assumed of neo4j, and
`CloseReturns` does not speak of it), and that callers close the rows, transactions
and sessions they hold; the last is strongly fair, since a caller may be in another
call at any moment. No server is assumed to answer and nobody to call.
`CloseReturns` states its condition itself: operations without a deadline may keep
`Close` waiting.

What is *not* guaranteed, and
not claimed: that a call whose context was cancelled returns before the mutex
of discovery is free, or that a hook returns.

## 4. The proofs

Every theorem holds for all values of the constants that satisfy the named
assumptions: any number of goroutines, handlers and tokens, any TTL and limit,
any words and role mapping.

* `BaseAgent_proofs`. `IInv` joins the types, `NotifiedInOrder` and `LockOK`:
  the holder of `mu` is inside a critical section, the transition it makes is in
  the matrix, and when nobody holds the lock `from` is the state. `NotifiedInOrder`
  alone is not inductive, since it does not say that the one who notifies also
  holds the lock. From `IInv` follow `TypeCorrect`, `HandlersInOrder` and
  `Refinement` (initial states map to initial states; `Notify` maps to
  `Announce` for the first handler and to `Relay` for the others; every other
  step stutters). `TransientOwned` assumes that hooks do not panic and that
  `SetState` is not asked for `Starting` or `Stopping`; its step needs two
  lemmas, one that an owner stays until the state moves on, one that a call that
  brings the transient state about is its owner. `StoppedClean` assumes that
  `SetState` is not asked for `Stopped`. `OneDriverStarted` and `OneDriverFails`
  assume one driver and `SetState` used for `Failed` only: the conditions whose
  absence the runs `lifecycle_resume_race` and `lifecycle_hook_race` show to be
  fatal. `OneDriverInv` says that from its hook on a call finds the state it left,
  or `Failed`, and that a running or paused agent has the time of its life or Start
  holds the lock to record it.
  `CallsAreBounded` is what `EveryCallReturns` rests on besides fairness: a call
  has at most `2 * NumHandlers + 7` steps before it (`StepsLeft`), each of its own
  takes one away, nobody else's adds one, and the lock it may wait for is held by a
  goroutine inside a critical section, never by one in a hook. `NilMeansDone` says
  what a nil is worth under concurrency: when it is returned the agent is where the
  caller wanted it, or `Stop` found it down, and every handler has been told. It is
  said of the moment of the return only, since others may move the agent on at once.
* `TokenCache_proofs`. `IInv` joins types, the size bound, and the age bound.
  `RoomIsSmaller` says that eviction makes room; it rests on the finite set
  theorems. `GoodEntriesLast` and `PutInTime` are action properties.
* `JWTValidator_proofs`. `IInv` says of every goroutine at `put` that its token
  was verified, of one at `verify` that the method fits, and of both caches that
  they hold what a provider published or what was verified. `OnlyGenuineAccepted`
  is not inductive, because a cache hit returns what another call put. `BegunInv`
  adds that whatever was verified had begun, and that the clock does not run back.
  `RefusedWithReason` rests on `KeyAtHand`: a call without excuse finds the key of
  its token published, and in every response it has read. `ValidatorUsesCache` is
  the refinement of `TokenCache`; by it the theorems about the cache hold in the
  validator (`ValidatorCacheBounded`, `ValidatorCacheFair`). Proving it is what
  showed that the cache has to expect puts after `exp` however precise the clock.
  `ValidateIsBounded`: `StepsFrom` falls with every step of a call's own.
* `Permissions_proofs`. `IInv` says what has been granted at each stage and what
  the indexes hold at the end. `IndexesAnswer` is the heart: the fast paths
  together answer like a scan of the whole list. `AccountNamed` is about the service
  account: from which place each field comes, and which places it contradicts; it
  assumes that the constant `Refused` is not a record of an account.
  `AccountMapsClaims` says that the way of a service account implements `Spec`, a
  token that cannot be read being a stutter, so that everything proved of claims
  holds of its decisions (`AccountDecisions`).

* `Propagation_proofs`. `IInv` joins the types and that a handler has an
  authenticated caller; `LatestKeepsTheEnd` says what truncation keeps. `ChainsFit`,
  `CallerCorrect` and `ChainTellsRoute` assume that no application starts gRPC calls
  with the metadata it was called with (see the observations below).
  `CallerIsSender` looks at handlers only; its strengthening `SenderInv` says of the
  headers of every request, sent or served, that they name the last service that
  wrote some, which survives hops that copy, drop or spoil. `ChainIsRoute` is proved
  in the same way from `ChainInv`. `TellsRoute` places every caller of a chain at a
  hop of the route; the proof says what becomes of the places when a hop is added
  that is on the chain, is not, or loses it, and when the chain is cut in front.
  Written with places, and not as a filter of the route, it needs no recursive
  operator.
* `ConfigLoader_proofs`. Filling in defaults is idempotent and keeps what an
  earlier filling left (`FillFills`, `FillKeeps`); from this follows for each of
  the five packages that `Validate` accepts what it left behind and leaves it alone
  (`ValidatingTwice`). `LoadedMerges` says that a load that succeeds went through
  all four phases, and `ValidateCompletes` that the last of them only writes zero
  fields: together `LayeringCorrect`, for any file and environment.
  `FailuresHaveReason` goes through the phases and says of each what it leaves
  behind if it fails; from it follows `RefusedForAReason`.
* `ClientService_proofs`. `ServiceInv` joins the loader's invariant, `MainInv`
  (where the driver and the client are at each step of the main goroutine) and
  `CallInv` (spans and sessions of every goroutine). `NoDriverLeaked` says nothing
  of the time between opening and ping; `MainInv` does, and says why a configuration
  that Load accepted may be refused, by way of `CreationRoots` and
  `RefusedByDriver`. The lemmas `Same...` identify the definitions the client is
  instantiated with as those of the loader. `RetryTellsTheTruth` is inductive as it
  stands (`RetryInv` names its two parts): `WrappedNative` says that a wrapped error
  is retryable as its code is, and `OutcomeTruthful` and `CreationTruthful` go
  through every way to fail. The errors it says nothing about are named in its
  statement: those of calls that were canceled and `MisreportedFaults` (see the
  observations below). `ClosingStep` and `CloseRoots` are about a driver that takes
  time to close. `ServiceLayersInOrder` and `ServiceRefusesForAReason` carry the
  theorems of the loader to a service that goes on and drops its configuration.
* `ClientSettings_proofs`. What a `Validate` accepts and leaves alone is sane
  (`Sane`, `ValidatedSane`); since a driver is opened with such a struct, so is what
  it is opened with (`ServiceSaneSettings`). That takes numbers to be numbers: they
  are, because `Load` refuses what it cannot parse (`LoaderTyped`). For the same reason
  `ServiceAcceptedIsStable` is proved here: that a pool is refused only for what is
  left to the driver compares its limit with one. The types of the
  driver and of the calls give `ServiceTypeCorrect`, those of the errors
  (`WellFormed`, `ClassOfStatus`) `ServiceStatusMatchesClass`. `ServiceKeepsHandle` is
  the refinement of `DriverHandle`. Its invariant `HandleInv` says that nobody
  has called a client that does not exist yet, that only operations in a session come
  to collect results, and that the limit of a pool is positive, because it comes from
  a validated struct; where the driver is at each step of the main goroutine
  `ServiceInv` knows. `InUseIs` adds up leases and statements, and
  `UseLends` says of each step of an operation that it borrows one connection, gives
  one back, or changes nothing. `ServiceDrainsPool` is what the handle promises
  (`HandleIsSafe`), said of the client. Both assume finitely many goroutines, since
  connections are counted; nothing is assumed of how many.

Only model-checked: liveness (`EveryCallReturns`, `TransientStatesEnd`,
`EveryValidateReturns`, `HealthReturns`, `StartupReturns`, `CloseReturns`), which the
prover cannot do. What it rests on is proved where it says something by itself:
`CallsAreBounded`, `ValidateIsBounded` and `ServiceDrainsPool`. Every safety property
of the passing runs is a theorem.

## 5. What is not modelled, and what is assumed

* The configured issuers are not empty and differ from each other; hashes of
  different tokens differ.
* The two readings of the clock in `put` happen at one instant.
* Providers answer with what they publish at the moment they answer; a response
  that cannot be parsed is a failed request.
* A claim that has the wrong JSON type grants nothing, like an empty claim, and
  is modelled as one.
* Observed while modelling, without a run: `Stop` returns a conflict, not nil,
  if the agent becomes terminal between `agent.go:517` and `530`; a `Start`
  overtaken by `Stop` and another `Start` settles the other call's life
  (`agent.go:477`). gRPC metadata is joined behind what is already there
  (`grpc.go:206`) and receivers read the first value, so that an application which
  forwards the metadata it was called with hides its own hop: with `"grpc"` in
  `Copying` `ChainIsRoute`, `SentChainsFit` and `CallerIsSender` fail.
* Observed of the clients and the loader, without a run.
  - `postgres/client.go:136` documents `CodeInternalDatabase` for a pool that cannot
    be created; `177-181` return `CodeUnavailableDependency`, which is retryable. It
    happens for settings that will never work: with a URI, limits are not validated.
    `qdrant/client.go:165-168` do the same with what its library finds wrong. These
    are the `MisreportedFaults`, which `RetryTellsTheTruth` excepts: of any other
    fault of the configuration it says that it is not retryable.
  - A startup or health check whose caller canceled it is reported as a dependency
    that cannot be reached, hence retryable; the doc of `wrapError`
    (`postgres/client.go:424-427`) says of operations that cancellation is not, and
    nothing says how it should be for these two. `RetryTellsTheTruth` does not judge.
  - With a URI, `Validate` of postgres and redis returns before it looks at limits and
    timeouts (`redis/config.go:257-269`), and postgres ignores `ConnectTimeout`.
  - A zero that the environment sets explicitly is replaced by the default when
    `Validate` runs at the end of `Load`, although `loader.go:111-115` gives the
    environment the last word; `LayersInOrder` has this as its second case.
  - A `ConnectTimeout` below a second is written as 0, which means none
    (`postgres/config.go:471`); `SaneSettings` excepts it.
  - Validation is not applied to a configuration nested in another struct; only there
    can the `Validate` of `NewClient` still refuse what `Load` accepted. What is left
    to the driver (`LeftToDriver`) `NewClient` refuses after any `Load`: a URI that
    cannot be parsed, certificates that are none, a pool limit below one next to a
    URI, a scheme that the neo4j driver does not know, and whatever the libraries of
    qdrant and minio look at.
  - `NewClient` of postgres, redis, neo4j and minio makes its first request without
    a deadline of its own; `StartupReturns` claims it of qdrant only.
  - The time limits that the redis driver sets by itself arrive as errors that
    `wrapError` does not take for timeouts, and its retries send commands again that
    are not idempotent. `QueryRow` and `ListObjects` hand out errors that no wrapper
    has classified.
  - `IsServerError` is false of a code of no known category, whose `HTTPStatus` is 500.
  - `neo4j/client.go:151` tests for an empty database name, which the validation
    before it has filled in or refused; its scheme is not validated.
  - A file that does not exist is no error even if its extension is of no known
    format; YAML does not know the `json` names of fields that are more than one word.
  - `k8s.go:67` lists the formats of a token in order of preference; they are
    combined field by field, so that claims that contradict each other may yield an
    account that no single claim names: a nested namespace with a flat name.
    `NamesTheAccount` asks of each field by itself that it comes from the most
    preferred place that says it, and claims nothing of their combination.
* What the file and the environment say of a number is a number or `Garbled`
  (`ValuesOfNumbers`), and a tag that cannot be parsed is a tag (`GarbledIsATag`).
* Names, prefixes and file syntax of the configuration, statements and results of
  the clients, messages and details of errors are data no property tells apart.
  Bulk operations count as one exchange with the server.
* Components with status `not_modelled` in `PROJECT.json` have no behaviour:
  placeholders, immutable data, test support.

## 6. Plan

1. What an error is worth to the caller of `Stop` if the agent moves on between its
   two looks at the state (`agent.go:517` and `530`), next to `NilMeansDone`.
2. The pools of redis and neo4j with their limits, in `DriverHandle` next to that of
   postgres, and the retries of the redis driver as a second delivery of a command.
