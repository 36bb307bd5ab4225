---------------------------- MODULE DatabaseClient ----------------------------
(***************************************************************************)
(* The life of a database client of pkg/clients: NewClient opens a driver  *)
(* and asks the server for a sign of life, goroutines call operations, and *)
(* Close releases the driver.  The five packages differ where an operator  *)
(* below asks for the kind.                                                *)
(*                                                                         *)
(* An operation starts a span, waits for the driver, wraps the error and   *)
(* ends the span.  What the driver does is modelled by how the packages    *)
(* use it: it answers, or gives up when the context is done or the driver  *)
(* is closed.  The pool of postgres is modelled with its limit; Close      *)
(* waits for its connections.  Spans are counted, statements left out.     *)
(***************************************************************************)
EXTENDS ClientConfig, ErrorCodes, FiniteSets

CONSTANTS
    Goroutines      \* that use the client

VARIABLES
    kind,           \* which of the five packages
    cfg,            \* NewClient's copy of the configuration
    driver,         \* "none", "open", "closing" or "closed"
    client,         \* what operations read of the client, or NoClient
    main,           \* the goroutine that calls NewClient and Close
    call,           \* call[g]: the operation g is in, or came back from
    leases          \* goroutines that hold rows, a transaction, a session, ...

vars == <<kind, cfg, driver, client, main, call, leases>>

\* The operations of a kind, by what they do with the driver.
\*   command      one exchange with the server
\*   lease        what comes back holds a resource until the caller releases it
\*   lazy         like lease, and the error is only seen by the caller
\*   transaction  a statement and its results in a session, which the driver
\*                may do again
\*   run          a statement, then its results, in a session
\*   session      a session is handed to the caller, without a span
\*   health       Health
PostgresOperations ==
    [command |-> {"Exec"}, lease |-> {"Query", "Begin"}, lazy |-> {"QueryRow"}]

RedisKeyCommands  == {"Set", "Get", "Del", "Exists", "Expire", "TTL", "Incr", "Decr"}
RedisHashCommands == {"HSet", "HGet", "HGetAll", "HDel"}
RedisListCommands == {"LPush", "RPush", "LRange", "LLen"}
RedisSetCommands  == {"SAdd", "SMembers", "SIsMember", "SRem"}
RedisOperations ==
    [command |-> UNION {RedisKeyCommands, RedisHashCommands, RedisListCommands,
                        RedisSetCommands}]

Neo4jOperations ==
    [transaction |-> {"ExecuteRead", "ExecuteWrite"}, run |-> {"Run"},
     session |-> {"Session"}]

QdrantCollectionCommands ==
    {"CreateCollection", "DeleteCollection", "ListCollections", "CollectionInfo"}
QdrantPointCommands == {"Upsert", "Search", "Get", "Delete", "Scroll"}
QdrantOperations == [command |-> QdrantCollectionCommands \cup QdrantPointCommands]

MinioObjectCommands  == {"PutObject", "RemoveObject", "StatObject"}
MinioBucketCommands  == {"BucketExists", "MakeBucket", "RemoveBucket"}
MinioPresignCommands == {"PresignedGetObject", "PresignedPutObject"}
MinioOperations ==
    [command |-> UNION {MinioObjectCommands, MinioBucketCommands, MinioPresignCommands},
     lease |-> {"GetObject"}, lazy |-> {"ListObjects"}]

Operations ==
    [postgres |-> PostgresOperations, redis |-> RedisOperations,
     neo4j |-> Neo4jOperations, qdrant |-> QdrantOperations, minio |-> MinioOperations]

Shapes(k) == DOMAIN Operations[k] \cup {"health"}

\* Calls go through a session of their own.
InSession(shape) == shape \in {"transaction", "run"}

NoClient == [f \in {} |-> 0]

Idle == [pc |-> "idle", shape |-> "none", ctx |-> "none", spans |-> 0,
         session |-> FALSE, err |-> NoError]

Init ==
    /\ kind \in Kinds
    /\ cfg = [f \in {} |-> ""]
    /\ driver = "none"
    /\ client = NoClient
    /\ main = [pc |-> "start", ctx |-> "none", err |-> NoError]
    /\ call = [g \in Goroutines |-> Idle]
    /\ leases = {}
-----------------------------------------------------------------------------
(***************************************************************************)
(* NewClient                                                               *)
(***************************************************************************)
\* A context.WithTimeout of t.
Deadline(t) == IF t > 0 THEN "armed" ELSE "expired"

\* What may come of making the driver, before anything is sent; postgres looks
\* at the connection string, then at the certificates, then at the limits.
PostgresCreation(c) ==
    IF c.uri = "odd" THEN Wrap(Native("parse"), CodeValidation)
    ELSE IF TLSFails(c) THEN Wrap(Native("tls"), CodeInternalConfiguration)
    ELSE IF c.max < 1 THEN Wrap(Native("settings"), CodeUnavailableDependency)
    ELSE NoError

RedisCreation(c) ==
    IF c.uri = "odd" THEN Wrap(Native("parse"), CodeValidation) ELSE NoError

Neo4jCreation(c) ==
    IF c.uri = "odd" \/ (c.uri = "" /\ c.mode = "bad")
    THEN Wrap(Native("create"), CodeInternalDatabase) ELSE NoError

QdrantCreation == {NoError, Wrap(Native("create"), CodeUnavailableDependency)}

MinioCreation == {NoError, Wrap(Native("create"), CodeInternalDatabase)}

CreationErrors(c) ==
    CASE kind = "postgres" -> {PostgresCreation(c)}
      [] kind = "redis"    -> {RedisCreation(c)}
      [] kind = "neo4j"    -> {Neo4jCreation(c)}
      [] kind = "qdrant"   -> QdrantCreation
      [] kind = "minio"    -> MinioCreation

\* Variant: the first health check has the caller's deadline or none.
FirstDeadlineOfCaller(ctx, c) == ctx

\* Only qdrant bounds the sign of life it waits for.
FirstDeadline(ctx, c) ==
    IF kind = "qdrant" /\ ctx = "none" THEN Deadline(c.timeout) ELSE ctx

\* NewClient up to the request that shows whether the server is there.
NewClient(ctx, c) ==
    /\ main.pc = "start"
    /\ LET v == Validate(kind, c)
           errors == IF v.ok THEN CreationErrors(v.config)
                     ELSE {Wrap(Native("config"), CodeValidation)}
       IN  \E err \in errors :
              IF err = NoError
              THEN /\ driver' = "open"
                   /\ cfg' = v.config
                   /\ main' = [main EXCEPT !.pc = "ping",
                                           !.ctx = FirstDeadline(ctx, v.config)]
              ELSE /\ main' = [main EXCEPT !.pc = "end", !.err = err]
                   /\ UNCHANGED <<driver, cfg>>
    /\ UNCHANGED <<kind, client, call, leases>>

Forget == cfg' = [f \in {} |-> ""]

PingSucceeds ==
    /\ main.pc = "ping"
    /\ main' = [main EXCEPT !.pc = "serve", !.ctx = "none"]
    /\ client' = [limit   |-> IF kind = "postgres" THEN PoolSettings(kind, cfg).max ELSE 0,
                  timeout |-> IF kind = "qdrant" THEN cfg.timeout ELSE 0]
    /\ Forget
    /\ UNCHANGED <<kind, driver, call, leases>>

\* How the driver says that the context is done.
ContextErrors(ctx) ==
    CASE ctx = "expired"  -> {"DeadlineExceeded"}
                                \cup (IF kind = "qdrant" THEN {"grpcDeadline"} ELSE {})
      [] ctx = "canceled" -> {"Canceled"}
      [] OTHER            -> {}

\* Variant: the driver is left behind.
PingFailsAndLeaks(root) ==
    /\ main.pc = "ping"
    /\ main' = [pc |-> "end", ctx |-> "none",
                err |-> Wrap(Native(root), CodeUnavailableDependency)]
    /\ Forget
    /\ UNCHANGED <<kind, driver, client, call, leases>>

\* The minio client has nothing to close.
PingFails(root) ==
    /\ main.pc = "ping"
    /\ main' = [pc |-> "end", ctx |-> "none",
                err |-> Wrap(Native(root), CodeUnavailableDependency)]
    /\ driver' = IF kind = "minio" THEN driver ELSE "closed"
    /\ Forget
    /\ UNCHANGED <<kind, client, call, leases>>

\* The context of NewClient is done.
PingGivesUp == \E root \in ContextErrors(main.ctx) : PingFails(root)

\* NewFromPool, NewFromClient, ... with no configuration: the driver is the
\* caller's, so is its limit.
NewFrom(limit) ==
    /\ main.pc = "start"
    /\ driver' = "open"
    /\ client' = [limit |-> IF kind = "postgres" THEN limit ELSE 0, timeout |-> 0]
    /\ main' = [main EXCEPT !.pc = "serve"]
    /\ UNCHANGED <<kind, cfg, call, leases>>
-----------------------------------------------------------------------------
(***************************************************************************)
(* Operations                                                              *)
(***************************************************************************)
\* The time a health check has if its context has no deadline: of qdrant the
\* configured one, of a client that was made without a configuration the default.
QdrantHealthTimeout == IF client.timeout > 0 THEN client.timeout ELSE DefaultTimeout

HealthTimeout == IF kind = "qdrant" THEN QdrantHealthTimeout ELSE DefaultTimeout

\* Variant: only a context with a deadline gets one.
HealthDeadlineInverted(ctx) == IF ctx = "armed" THEN Deadline(HealthTimeout) ELSE ctx

\* Variant: a client without a configured time waits as long as it takes.
HealthDeadlineOfConfig(ctx) ==
    IF ctx = "none" /\ client.timeout > 0 THEN Deadline(client.timeout) ELSE ctx

HealthDeadline(ctx) == IF ctx = "none" THEN Deadline(HealthTimeout) ELSE ctx

\* Deadlines that errors.Is does not know: a gRPC status.
QdrantTimeout(err) == Is(err, "grpcDeadline")

IsTimeout(err) ==
    Is(err, "DeadlineExceeded") \/ (kind = "qdrant" /\ QdrantTimeout(err))

\* Variant: only the context is asked what happened.
wrapErrorByContext(err) ==
    IF Is(err, "DeadlineExceeded") THEN Wrap(err, CodeTimeoutDatabase)
    ELSE Wrap(err, CodeInternalDatabase)

\* wrapError; nil stays nil.
wrapError(err) ==
    IF IsTimeout(err) THEN Wrap(err, CodeTimeoutDatabase)
    ELSE Wrap(err, CodeInternalDatabase)

\* What the caller gets for an error of the driver.
Outcome(shape, err) ==
    CASE shape = "health" -> Wrap(err, CodeUnavailableDependency)
      [] shape = "lazy"   -> NoError
      [] OTHER            -> wrapError(err)

InFlight(g) == call[g].pc # "idle"

\* Connections of the pool that are in use.
InUse == Cardinality(leases) + Cardinality({g \in Goroutines : call[g].pc = "sent"})

\* A goroutine calls an operation under a context that may have a deadline.
\* startSpan and NewSession cannot wait.
Begin(g, shape, ctx) ==
    /\ client # NoClient /\ ~InFlight(g)
    /\ shape \in Shapes(kind) \ {"session"}
    /\ shape \in {"lease", "lazy"} => g \notin leases
    /\ call' = [call EXCEPT ![g] =
          [Idle EXCEPT !.pc = IF kind = "postgres" THEN "acquire" ELSE "sent",
                       !.shape = shape,
                       !.ctx = IF shape = "health" THEN HealthDeadline(ctx) ELSE ctx,
                       !.spans = 1,
                       !.session = InSession(shape)]]
    /\ UNCHANGED <<kind, cfg, driver, client, main, leases>>

\* Session
HandOut(g) ==
    /\ client # NoClient /\ ~InFlight(g) /\ g \notin leases
    /\ "session" \in Shapes(kind)
    /\ leases' = leases \cup {g}
    /\ UNCHANGED <<kind, cfg, driver, client, main, call>>

\* pgxpool: a connection is free, and the pool is open.
Acquire(g) ==
    /\ call[g].pc = "acquire" /\ driver = "open" /\ InUse < client.limit
    /\ call' = [call EXCEPT ![g].pc = "sent"]
    /\ UNCHANGED <<kind, cfg, driver, client, main, leases>>

\* The statement went through; its results are still to be collected.
Collect(g) ==
    /\ call[g].pc = "sent" /\ InSession(call[g].shape)
    /\ driver \in {"open", "closing"}
    /\ call' = [call EXCEPT ![g].pc = "collect"]
    /\ UNCHANGED <<kind, cfg, driver, client, main, leases>>

\* The driver does a transaction that failed again.
Repeat(g) ==
    /\ call[g].pc = "collect" /\ call[g].shape = "transaction"
    /\ driver \in {"open", "closing"}
    /\ call' = [call EXCEPT ![g].pc = "sent"]
    /\ UNCHANGED <<kind, cfg, driver, client, main, leases>>

\* Variant: when the statement of Run fails, its span is not ended.
ReturnEarlyWithSpan(g, root) ==
    LET err == IF root = "nil" THEN NoError ELSE Native(root)
        c   == call[g]
    IN  /\ call' = [call EXCEPT ![g] =
              [Idle EXCEPT !.shape = c.shape, !.err = Outcome(c.shape, err),
                           !.spans = IF c.shape = "run" /\ c.pc = "sent" THEN c.spans
                                     ELSE c.spans - 1]]
        /\ leases' = IF c.shape \in {"lease", "lazy"} /\ err = NoError
                      THEN leases \cup {g} ELSE leases
        /\ UNCHANGED <<kind, cfg, driver, client, main>>

\* Variant: rows that came with an error are kept.
ReturnKeepsLease(g, root) ==
    LET err == IF root = "nil" THEN NoError ELSE Native(root)
        c   == call[g]
    IN  /\ call' = [call EXCEPT ![g] =
              [Idle EXCEPT !.shape = c.shape, !.err = Outcome(c.shape, err),
                           !.spans = c.spans - 1]]
        /\ leases' = IF c.shape \in {"lease", "lazy"} THEN leases \cup {g} ELSE leases
        /\ UNCHANGED <<kind, cfg, driver, client, main>>

\* An operation returns: finishSpan, wrapError, and the deferred session.Close,
\* cancel and span.End.
Return(g, root) ==
    LET err == IF root = "nil" THEN NoError ELSE Native(root)
        c   == call[g]
    IN  /\ call' = [call EXCEPT ![g] =
              [Idle EXCEPT !.shape = c.shape, !.err = Outcome(c.shape, err),
                           !.spans = c.spans - 1]]
        /\ leases' = IF c.shape \in {"lease", "lazy"} /\ err = NoError
                      THEN leases \cup {g} ELSE leases
        /\ UNCHANGED <<kind, cfg, driver, client, main>>

\* The server answers, or refuses what it was asked for; so may the pool.
ServerAnswers(g) ==
    /\ driver \in {"open", "closing"}
    /\ \/ call[g].pc \in {"sent", "collect"} /\ Return(g, "server")
       \/ call[g].pc = "sent" /\ ~InSession(call[g].shape) /\ Return(g, "nil")
       \/ call[g].pc = "collect" /\ Return(g, "nil")

\* The context is done, wherever the driver waits.
GiveUp(g) ==
    InFlight(g) /\ \E root \in ContextErrors(call[g].ctx) : Return(g, root)

\* A closed driver refuses; a closing pool does once a connection is free, and
\* a closing neo4j driver whenever it likes.
Rejected(g) ==
    /\ InFlight(g)
    /\ \/ driver = "closed"
       \/ driver = "closing" /\ kind = "neo4j"
       \/ driver = "closing" /\ call[g].pc = "acquire" /\ InUse < client.limit
    /\ Return(g, "closed")

\* Time passes, or somebody cancels.
Expire(g) ==
    /\ InFlight(g) /\ call[g].ctx = "armed"
    /\ call' = [call EXCEPT ![g].ctx = "expired"]
    /\ UNCHANGED <<kind, cfg, driver, client, main, leases>>
Cancel(g) ==
    /\ InFlight(g) /\ call[g].ctx \in {"none", "armed"}
    /\ call' = [call EXCEPT ![g].ctx = "canceled"]
    /\ UNCHANGED <<kind, cfg, driver, client, main, leases>>

\* The caller closes the rows, ends the transaction, closes the session.
Release(g) ==
    /\ g \in leases /\ ~InFlight(g)
    /\ leases' = leases \ {g}
    /\ UNCHANGED <<kind, cfg, driver, client, main, call>>
-----------------------------------------------------------------------------
(***************************************************************************)
(* Close, and time for the main goroutine                                  *)
(***************************************************************************)
\* What Close may return of what the driver says.
Neo4jCloseErrors == {NoError, Wrap(Native("close"), CodeInternalDatabase)}

CloseErrors ==
    CASE kind = "neo4j" -> Neo4jCloseErrors
      [] kind \in {"redis", "qdrant"} -> {NoError, Native("close")}
      [] OTHER -> {NoError}

CloseReturned ==
    \E err \in CloseErrors : main' = [main EXCEPT !.pc = "end", !.err = err]

\* Close of postgres waits for the pool and that of neo4j for sessions.
CloseWaits == kind \in {"postgres", "neo4j"}

\* Variant: every driver but that of minio is left to close by itself.
CloseInBackground ==
    /\ main.pc = "serve"
    /\ driver' = IF kind = "minio" THEN driver ELSE "closing"
    /\ IF CloseWaits THEN main' = [main EXCEPT !.pc = "close"] ELSE CloseReturned
    /\ UNCHANGED <<kind, cfg, client, call, leases>>

\* Close of minio does nothing.
Close ==
    /\ main.pc = "serve"
    /\ IF CloseWaits
       THEN driver' = "closing" /\ main' = [main EXCEPT !.pc = "close"]
       ELSE driver' = (IF kind = "minio" THEN driver ELSE "closed") /\ CloseReturned
    /\ UNCHANGED <<kind, cfg, client, call, leases>>

\* pgxpool.Pool.Close returns when all connections are back.  The driver of
\* neo4j may wait for the sessions or end them: it takes the time it takes.
Closed ==
    /\ main.pc = "close"
    /\ kind = "postgres" => InUse = 0
    /\ driver' = "closed"
    /\ CloseReturned
    /\ UNCHANGED <<kind, cfg, client, call, leases>>

MainExpires ==
    /\ main.pc = "ping" /\ main.ctx = "armed"
    /\ main' = [main EXCEPT !.ctx = "expired"]
    /\ UNCHANGED <<kind, cfg, driver, client, call, leases>>
MainCanceled ==
    /\ main.pc = "ping" /\ main.ctx \in {"none", "armed"}
    /\ main' = [main EXCEPT !.ctx = "canceled"]
    /\ UNCHANGED <<kind, cfg, driver, client, call, leases>>
-----------------------------------------------------------------------------
Use(g) ==
    \/ \E shape \in Shapes(kind), ctx \in {"none", "armed"} : Begin(g, shape, ctx)
    \/ HandOut(g) \/ Acquire(g) \/ Collect(g) \/ Repeat(g)
    \/ ServerAnswers(g) \/ GiveUp(g) \/ Rejected(g)
    \/ Expire(g) \/ Cancel(g) \/ Release(g)

\* Deadlines come, the driver heeds them and its own closing, callers release
\* what they hold; nobody is bound to call, no server to answer, and no driver
\* but the pool of postgres to come to the end of its Close.
Fairness ==
    /\ \A g \in Goroutines :
          /\ WF_vars(Expire(g)) /\ WF_vars(GiveUp(g)) /\ WF_vars(Rejected(g))
          /\ SF_vars(Release(g))
    /\ WF_vars(MainExpires) /\ WF_vars(PingGivesUp)
    /\ WF_vars(kind = "postgres" /\ Closed)
-----------------------------------------------------------------------------
TypeOK ==
    /\ kind \in Kinds
    /\ driver \in {"none", "open", "closing", "closed"}
    /\ driver = "closing" <=> main.pc = "close"
    /\ client = NoClient \/ (client.limit \in Int /\ client.timeout \in Nat)
    /\ main.pc \in {"start", "ping", "serve", "close", "end"}
    /\ \A g \in Goroutines :
          /\ call[g].pc \in {"idle", "acquire", "sent", "collect"}
          /\ call[g].ctx \in {"none", "armed", "expired", "canceled"}
          /\ call[g].shape \in Shapes(kind) \cup {"none"}
    /\ leases \subseteq Goroutines

\* A driver is only opened with settings that can work: every default applied
\* (with a URI too), and without a URI the limits in order and the time to
\* connect bounded.  A timeout of less than a second is not: it is written as 0
\* seconds (postgres/config.go:471).
SaneSettings ==
    main.pc = "ping" =>
        /\ \A f \in DOMAIN cfg : f \in Numbers \ {"port"} => cfg[f] # 0
        /\ kind \in {"postgres", "redis", "neo4j"} /\ cfg["uri"] = "" =>
              LET s == PoolSettings(kind, cfg)
              IN  /\ 1 <= s.max /\ 0 <= s.min /\ s.min <= s.max
                  /\ s.connect = "unbounded" => cfg["timeout"] \in 1..(Second - 1)
        /\ kind = "qdrant" => cfg["timeout"] > 0

\* Whatever way NewClient fails or Close ends, no driver stays open
\* (postgres/client.go:127-128, 373-378); minio has nothing to release.  And
\* nobody gets a client without a driver.
NoDriverLeaked ==
    /\ kind # "minio" =>
          (main.pc = "end" \/ (client = NoClient /\ main.pc # "ping")
              => driver \in {"none", "closed"})
    /\ client # NoClient => driver # "none"

\* NewClient's faults of which nothing is said: a limit below one next to a URI
\* and what the library of qdrant finds call themselves retryable, although the
\* configuration is at fault (postgres/client.go:177-181, qdrant/client.go:165-168).
MisreportedFaults == {"settings"} \cup (IF kind = "qdrant" THEN {"create"} ELSE {})

\* An error says that trying again may help (errors/checks.go:153-164), of an
\* operation, exactly when a deadline cut it short, whatever the driver makes of
\* the deadline; of a health check, whenever the server is at fault or late; of
\* NewClient, exactly when the server cannot be reached or is late: never for
\* what Validate, the connection string, the certificates or the drivers of
\* neo4j and minio find wrong, nor of Close.  Nothing is said of a call that
\* its caller canceled (of which an operation alone says that it is not
\* retryable, postgres/client.go:424-427), and of the misreported faults.
RetryTellsTheTruth ==
    /\ \A g \in Goroutines :
          LET err == call[g].err
          IN  err # NoError =>
                 IF call[g].shape = "health"
                 THEN err.root \notin {"Canceled", "closed"} => IsRetryable(err)
                 ELSE IsRetryable(err) <=> err.root \in {"DeadlineExceeded", "grpcDeadline"}
    /\ main.err.root \notin {"nil", "Canceled"} \cup MisreportedFaults =>
          (IsRetryable(main.err) <=>
              main.err.root \in {"refused", "DeadlineExceeded", "grpcDeadline"})

\* An operation that returned has ended its span, once, and closed its session;
\* one that has not, has both (neo4j/client.go:292-302).
NothingLeftBehind ==
    \A g \in Goroutines :
        /\ call[g].spans = IF InFlight(g) THEN 1 ELSE 0
        /\ call[g].session <=> InFlight(g) /\ InSession(call[g].shape)

\* However an error is wrapped on its way out, the class it is in and the
\* status that it is answered with agree (errors/codes.go:14-23), and the root
\* is not lost.
StatusMatchesClass ==
    \A err \in {main.err} \cup {call[g].err : g \in Goroutines} : \A code \in Codes :
        err # NoError =>
            LET w == Wrap(FromError(err), code)
            IN  /\ GetCode(w) = code /\ Is(w, err.root)
                /\ IsClientError(w) <=> HTTPStatus(w) < 500
                /\ IsServerError(w) <=> HTTPStatus(w) >= 500
                /\ IsRetryable(w) <=> HTTPStatus(w) \in {503, 504}
-----------------------------------------------------------------------------
\* A health check comes back, whatever context it is called with and whatever
\* server, pool or other goroutine is stuck (postgres/client.go:342-343).
HealthReturns ==
    \A g \in Goroutines :
        InFlight(g) /\ call[g].shape = "health" ~> ~InFlight(g)

\* NewClient of qdrant returns (qdrant/client.go:170-176); the others wait as
\* long as the context allows.
StartupReturns ==
    main.pc = "ping" /\ (kind = "qdrant" \/ main.ctx # "none") ~> main.pc # "ping"

\* Close of postgres returns if from some moment on no operation is in flight
\* without a deadline (postgres/client.go:376-378).  Health checks need none.
CloseReturns ==
    <>[](\A g \in Goroutines :
            InFlight(g) /\ call[g].shape # "health" => call[g].ctx # "none")
        => (kind = "postgres" /\ driver = "closing" ~> driver = "closed")
=============================================================================
