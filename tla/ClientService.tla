---------------------------- MODULE ClientService -----------------------------
(***************************************************************************)
(* A service from its configuration to its last call: the main goroutine   *)
(* loads the configuration, makes a client of it and closes it in the end, *)
(* the other goroutines use the client; or the client is made from a       *)
(* driver that the service opened itself.                                  *)
(***************************************************************************)
EXTENDS ConfigLoader

CONSTANT Goroutines

VARIABLES cfg, driver, client, main, call, leases

Client == INSTANCE DatabaseClient

service == <<loader, cfg, driver, client, main, call, leases>>

\* The configuration goes out of scope: only the client's copy is left.
DropConfig ==
    /\ tag' = NoTag /\ preset' = None /\ config' = None
    /\ broken' = "no" /\ file' = None /\ env' = None
    /\ loading' = "dropped" /\ loadErr' = NoError

\* The kind is chosen once, by the loader's Init.
ServiceInit == Init /\ Client!Init

LoadConfig == Load /\ UNCHANGED <<cfg, driver, client, main, call, leases>>

\* NewClient takes its configuration by value.
MakeClient ==
    /\ loading = "ok"
    /\ \E ctx \in {"none", "armed"} :
          Client!NewClient(ctx, [f \in Fields(kind) |-> config[f]])
    /\ UNCHANGED loader

AdoptDriver ==
    /\ loading = "before"
    /\ \E limit \in {1, DefaultMax} : Client!NewFrom(limit)
    /\ DropConfig

\* NewClient returns, one way or the other.
ClientMade ==
    /\ Client!PingSucceeds \/ Client!PingFails("refused") \/ Client!PingGivesUp
    /\ DropConfig

ServiceNext ==
    \/ LoadConfig
    \/ MakeClient
    \/ AdoptDriver
    \/ ClientMade
    \/ /\ \/ Client!MainExpires \/ Client!MainCanceled
          \/ \E g \in Goroutines : Client!Use(g)
          \/ Client!Close \/ Client!Closed
       /\ UNCHANGED loader

ServiceSpec == ServiceInit /\ [][ServiceNext]_service /\ Client!Fairness
-----------------------------------------------------------------------------
\* The client's driver as a handle.  Connections are counted where the client
\* knows their limit; other drivers keep theirs to themselves and lend nothing.
Lendable ==
    IF client = Client!NoClient THEN 0
    ELSE IF kind = "postgres" THEN client.limit ELSE 1

Lent == IF kind = "postgres" THEN Client!InUse ELSE 0

Handle == INSTANCE DriverHandle WITH handle <- driver, limit <- Lendable, lent <- Lent

\* However NewClient, the operations and Close overlap, and wherever they fail: the
\* driver is opened and published once, lent within its limit, and closed for good
\* when all it lent is back (postgres/client.go:376-381).
DriverIsAHandle == Handle!Spec
-----------------------------------------------------------------------------
\* What is left to the driver to refuse in a configuration that Validate
\* accepted: a URI that it cannot parse, certificates that are none, a limit
\* below one, of which Validate asks nothing next to a URI, a scheme it does not
\* know.  What the libraries of qdrant and minio look at is their own.
LeftToDriver(c) ==
    CASE kind = "postgres" -> c.uri = "odd" \/ TLSFails(c) \/ (c.uri # "" /\ c.max < 1)
      [] kind = "redis"    -> c.uri = "odd"
      [] kind = "neo4j"    -> c.uri = "odd" \/ (c.uri = "" /\ c.mode = "bad")
      [] OTHER             -> TRUE

\* What Load has validated, the Validate of NewClient accepts and leaves as it
\* is: validating twice is validating once (config/loader.go:156,
\* postgres/client.go:147).  So Validate only finds fault with a configuration
\* that was nested in another, of which Load asks nothing; and NewClient refuses
\* one that Load accepted, before it asks the server, only for what is left to
\* the driver (postgres/client.go:154-181).
AcceptedIsStable ==
    /\ loading = "ok" /\ ~Nested => Validate(kind, config) = Verdict(config, TRUE)
    /\ loading = "ok" /\ ~Nested /\ main.pc = "end" => LeftToDriver(config)
    /\ main.err.root = "config" => Nested

\* The client has its types, and a driver is closing exactly as long as a Close
\* waits for it (postgres/client.go:379-381, neo4j/client.go:358-362).
TypeOK == Client!TypeOK

\* With a configuration that went through the loader or none, a driver is only
\* opened with settings that can work (postgres/config.go:428-447).
SaneSettings == Client!SaneSettings

\* No failing path of NewClient and no Close leaves a driver open
\* (postgres/client.go:127-128).
NoDriverLeaked == Client!NoDriverLeaked

\* Errors of operations call themselves retryable exactly when a deadline passed,
\* those of NewClient and Health when the server is not there or late, with the
\* exceptions named in DatabaseClient (errors/checks.go:153-164).
RetryTellsTheTruth == Client!RetryTellsTheTruth

\* Operations that came back have ended their span and closed their session
\* (neo4j/client.go:292-302).
NothingLeftBehind == Client!NothingLeftBehind

\* The class of an error and the status it is answered with agree
\* (errors/codes.go:14-23).
StatusMatchesClass == Client!StatusMatchesClass

\* A health check comes back, whoever else is stuck (postgres/client.go:342-343).
HealthReturns == Client!HealthReturns

\* NewClient of qdrant comes back, and that of the others when its context is
\* done (qdrant/client.go:170-176).
StartupReturns == Client!StartupReturns

\* Close of postgres comes back once every operation has a deadline
\* (postgres/client.go:376-378).
CloseReturns == Client!CloseReturns
=============================================================================
