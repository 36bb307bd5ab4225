----------------------------- MODULE ClientConfig -----------------------------
(***************************************************************************)
(* The Config structs of the five database clients and their Validate      *)
(* methods, which both fill in defaults and refuse.                        *)
(*                                                                         *)
(* Fields that one rule treats alike are one field here:                   *)
(*   name     what has no default to fall back on: database and user,      *)
(*            username, or the endpoint and the keys of MinIO              *)
(*   mode     SSLMode of postgres, Scheme of neo4j                         *)
(*   cert     SSLRootCert, by what becomes of reading it                   *)
(*   max, min the limits of the pool                                       *)
(*   timeout  the durations, in units of which Second make a second        *)
(* A URI is "good", "bad" (Validate refuses it) or "odd" (Validate takes   *)
(* it and the driver does not).  Passwords, TLS switches and database      *)
(* numbers are never looked at and left out.                               *)
(***************************************************************************)
EXTENDS Integers, Sequences

CONSTANTS
    MaxPort,            \* 65535
    DefaultPort,
    DefaultMax,         \* DefaultMaxConns, DefaultPoolSize, ...
    DefaultMin,         \* DefaultMinConns, DefaultMinIdleConns
    DefaultRetries,
    DefaultTimeout,     \* DefaultConnectTimeout, DefaultHealthTimeout, ...
    Second

ASSUME ClientConfigConstants ==
    /\ MaxPort \in Nat
    /\ DefaultPort \in 1..MaxPort
    /\ DefaultMin \in Nat \ {0}
    /\ DefaultMax \in Nat /\ DefaultMin <= DefaultMax
    /\ DefaultRetries \in Nat \ {0}
    /\ Second \in Nat \ {0}
    /\ DefaultTimeout \in Nat /\ Second <= DefaultTimeout

Kinds == {"postgres", "redis", "neo4j", "qdrant", "minio"}

\* The fields of each struct in the order of their declaration.
FieldOrder(kind) ==
    CASE kind = "postgres" ->
            <<"uri", "host", "port", "name", "mode", "cert", "max", "min", "timeout">>
      [] kind = "redis"    ->
            <<"uri", "host", "port", "max", "min", "retries", "timeout">>
      [] kind = "neo4j"    ->
            <<"uri", "host", "port", "mode", "name", "max", "timeout">>
      [] kind = "qdrant"   -> <<"host", "port", "timeout">>
      [] kind = "minio"    -> <<"name", "region">>

Fields(kind) == {FieldOrder(kind)[i] : i \in DOMAIN FieldOrder(kind)}

Numbers == {"port", "max", "min", "retries", "timeout"}

Zero(f) == IF f \in Numbers THEN 0 ELSE ""

Default(f) ==
    CASE f = "port"    -> DefaultPort
      [] f = "max"     -> DefaultMax
      [] f = "min"     -> DefaultMin
      [] f = "retries" -> DefaultRetries
      [] f = "timeout" -> DefaultTimeout
      [] OTHER         -> "default"

\* DefaultConfig of each package.
DefaultConfig(kind) ==
    LET unset == CASE kind = "postgres" -> {"uri", "cert"}
                   [] kind = "minio"    -> {"name"}
                   [] OTHER             -> {"uri"}
    IN  [f \in Fields(kind) |-> IF f \in unset THEN Zero(f) ELSE Default(f)]

\* c with the default in each of the fields F that is zero.
Fill(c, F) ==
    [f \in DOMAIN c |-> IF f \in F /\ c[f] = Zero(f) THEN Default(f) ELSE c[f]]

\* What a Validate leaves behind and whether it returned nil.
Verdict(c, ok) == [config |-> c, ok |-> ok]

PortOK(c) == c.port \in 1..MaxPort

PoolOK(c) == c.max >= 1 /\ c.min >= 0 /\ c.max >= c.min
-----------------------------------------------------------------------------
\* Variant: the defaults of the pool are only applied to structured fields.
PostgresValidateURIFirst(c) ==
    LET pooled == Fill(c, {"max", "min", "timeout"})
        placed == Fill(pooled, {"host", "port"})
        full   == Fill(placed, {"mode"})
    IN  IF c.uri # "" THEN Verdict(c, c.uri # "bad")
        ELSE IF ~PortOK(placed) \/ placed.name = "" THEN Verdict(placed, FALSE)
        ELSE Verdict(full,
                /\ full.mode # "bad"
                /\ full.cert # "missing"
                /\ PoolOK(full)
                /\ full.timeout >= 0)

\* Variant: the limits are compared before the defaults are in place.
PostgresValidateLimitsFirst(c) ==
    LET pooled == Fill(c, {"max", "min", "timeout"})
        placed == Fill(pooled, {"host", "port"})
        full   == Fill(placed, {"mode"})
    IN  IF c.uri # "" THEN Verdict(pooled, c.uri # "bad")
        ELSE IF ~PortOK(placed) \/ placed.name = "" THEN Verdict(placed, FALSE)
        ELSE Verdict(full,
                /\ full.mode # "bad"
                /\ full.cert # "missing"
                /\ full.max >= 1 /\ c.min >= 0 /\ full.max >= c.min
                /\ full.timeout >= 0)

PostgresValidate(c) ==
    LET pooled == Fill(c, {"max", "min", "timeout"})
        placed == Fill(pooled, {"host", "port"})
        full   == Fill(placed, {"mode"})
    IN  IF c.uri # "" THEN Verdict(pooled, c.uri # "bad")
        ELSE IF ~PortOK(placed) \/ placed.name = "" THEN Verdict(placed, FALSE)
        ELSE Verdict(full,
                /\ full.mode # "bad"
                /\ full.cert # "missing"
                /\ PoolOK(full)
                /\ full.timeout >= 0)

RedisValidate(c) ==
    LET pooled == Fill(c, {"max", "min", "retries", "timeout"})
        placed == Fill(pooled, {"host", "port"})
    IN  IF c.uri # "" THEN Verdict(pooled, c.uri # "bad")
        ELSE Verdict(placed, PortOK(placed) /\ PoolOK(placed) /\ placed.timeout >= 0)

\* Neo4j does not look at the scheme of structured fields.
Neo4jValidate(c) ==
    LET pooled == Fill(c, {"max", "timeout"})
        placed == Fill(pooled, {"host", "port"})
        full   == Fill(placed, {"mode"})
    IN  IF c.uri # "" THEN
            IF c.uri = "bad" THEN Verdict(pooled, FALSE)
            ELSE Verdict(Fill(pooled, {"name"}), TRUE)
        ELSE IF ~PortOK(placed) THEN Verdict(placed, FALSE)
        ELSE Verdict(full, full.name # "" /\ full.max >= 1 /\ full.timeout >= 0)

QdrantValidate(c) ==
    LET placed == Fill(c, {"host", "port"})
        full   == Fill(placed, {"timeout"})
    IN  IF ~PortOK(placed) THEN Verdict(placed, FALSE)
        ELSE Verdict(full, full.timeout >= 0)

MinioValidate(c) ==
    IF c.name = "" THEN Verdict(c, FALSE) ELSE Verdict(Fill(c, {"region"}), TRUE)

Validate(kind, c) ==
    CASE kind = "postgres" -> PostgresValidate(c)
      [] kind = "redis"    -> RedisValidate(c)
      [] kind = "neo4j"    -> Neo4jValidate(c)
      [] kind = "qdrant"   -> QdrantValidate(c)
      [] kind = "minio"    -> MinioValidate(c)
-----------------------------------------------------------------------------
\* tlsConfig fails, although Validate may have found the file.
TLSFails(c) == c.mode # "disable" /\ c.cert \in {"missing", "garbled"}

\* ConnectionString: the timeout is written in whole seconds.
ConnectTimeout(c) == c.timeout \div Second

\* What NewClient sets the driver to.  Whether it bounds the time to connect is
\* "own" where the driver or the URI decides.
PoolSettings(kind, c) ==
    [max     |-> c.max,
     min     |-> IF kind = "neo4j" THEN 0 ELSE c.min,
     connect |->
        CASE kind = "postgres" /\ (c.uri # "" \/ c.timeout <= 0) -> "own"
          [] kind = "postgres" /\ ConnectTimeout(c) = 0           -> "unbounded"
          [] kind = "redis" /\ c.uri # "" /\ c.timeout <= 0       -> "own"
          [] OTHER -> IF c.timeout > 0 THEN "bounded" ELSE "unbounded"]
=============================================================================
