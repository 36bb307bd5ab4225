------------------------- MODULE ConfigLoader_proofs -------------------------
(***************************************************************************)
(* What Validate and Load make of any struct, file and environment.        *)
(*                                                                         *)
(* Filling in defaults is idempotent, keeps what an earlier Fill left and  *)
(* touches no other field; so each Validate accepts what it left behind    *)
(* and leaves it alone.  A load that succeeds is the overlay of its layers *)
(* followed by one Validate, which only completes zero fields.             *)
(***************************************************************************)
EXTENDS ConfigLoader, TLAPS

\* The defaults of the fields F are in place.
Filled(c, F) == Fill(c, F) = c

\* Filling twice is filling once.
LEMMA FillFills ==
    ASSUME NEW c, NEW F
    PROVE  Filled(Fill(c, F), F)
  BY DEF Filled, Fill

\* Filling more fields keeps the defaults that are in place.
LEMMA FillKeeps ==
    ASSUME NEW c, NEW F, NEW G, Filled(c, F)
    PROVE  Filled(Fill(c, G), F)
<1>1. \A f \in DOMAIN c : f \in F /\ c[f] = Zero(f) => c[f] = Default(f)
  BY DEF Filled, Fill
<1> QED
  BY <1>1 DEF Filled, Fill

\* Fill touches only the fields it is asked to.
LEMMA FillLeavesOthers ==
    ASSUME NEW c, NEW F, NEW f, f \in DOMAIN c, f \notin F
    PROVE  Fill(c, F)[f] = c[f]
  BY DEF Fill

\* The fields that the Validate methods decide by.
LEMMA FieldsOf ==
    /\ {"uri", "port", "name"} \subseteq Fields("postgres")
    /\ {"uri", "port"} \subseteq Fields("redis")
    /\ {"uri", "port"} \subseteq Fields("neo4j")
    /\ "port" \in Fields("qdrant")
    /\ "name" \in Fields("minio")
<1> DEFINE Pg == FieldOrder("postgres")
           Rd == FieldOrder("redis")
           Nj == FieldOrder("neo4j")
           Qd == FieldOrder("qdrant")
           Mn == FieldOrder("minio")
<1>1. {1, 3, 4} \subseteq DOMAIN Pg /\ Pg[1] = "uri" /\ Pg[3] = "port" /\ Pg[4] = "name"
  BY DEF FieldOrder
<1>2. {1, 3} \subseteq DOMAIN Rd /\ Rd[1] = "uri" /\ Rd[3] = "port"
  BY DEF FieldOrder
<1>3. {1, 3} \subseteq DOMAIN Nj /\ Nj[1] = "uri" /\ Nj[3] = "port"
  BY DEF FieldOrder
<1>4. 2 \in DOMAIN Qd /\ Qd[2] = "port"
  BY DEF FieldOrder
<1>5. 1 \in DOMAIN Mn /\ Mn[1] = "name"
  BY DEF FieldOrder
<1> QED
  BY <1>1, <1>2, <1>3, <1>4, <1>5 DEF Fields
-----------------------------------------------------------------------------
\* Of each package: Validate accepts what it left behind and leaves it as it is.
LEMMA PostgresStable ==
    ASSUME NEW c, {"uri", "port", "name"} \subseteq DOMAIN c, PostgresValidate(c).ok
    PROVE  LET d == PostgresValidate(c).config
           IN  PostgresValidate(d) = Verdict(d, TRUE)
<1> DEFINE P == {"max", "min", "timeout"}
           H == {"host", "port"}
           M == {"mode"}
           pooled == Fill(c, P)
           placed == Fill(pooled, H)
           full == Fill(placed, M)
<1>1. Filled(pooled, P) /\ pooled["uri"] = c["uri"]
  BY FillFills, FillLeavesOthers
<1>2. Filled(placed, P) /\ Filled(placed, H)
  BY <1>1, FillFills, FillKeeps
<1>3. Filled(full, P) /\ Filled(full, H) /\ Filled(full, M)
  BY <1>2, FillFills, FillKeeps
<1>4. full["uri"] = c["uri"]
  <2>1. "uri" \in DOMAIN pooled /\ "uri" \in DOMAIN placed
    BY DEF Fill
  <2>2. placed["uri"] = pooled["uri"] /\ full["uri"] = placed["uri"]
    BY <2>1, FillLeavesOthers
  <2> QED
    BY <2>2, <1>1
<1>5. CASE c.uri # ""
  <2>1. PostgresValidate(c) = Verdict(pooled, c["uri"] # "bad")
    BY <1>5 DEF PostgresValidate
  <2>2. c["uri"] # "bad" /\ PostgresValidate(c).config = pooled
    <3> DEFINE good == c["uri"] # "bad"
    <3>1. PostgresValidate(c) = Verdict(pooled, good)
      BY <2>1
    <3> HIDE DEF good
    <3>2. good /\ PostgresValidate(c).config = pooled
      BY <3>1 DEF Verdict
    <3> QED
      BY <3>2 DEF good
  <2>3. PostgresValidate(pooled) = Verdict(pooled, TRUE)
    BY <1>1, <1>5, <2>2 DEF PostgresValidate, Filled
  <2> QED
    BY <2>2, <2>3
<1>6. CASE c.uri = ""
  <2> DEFINE fine == /\ full.mode # "bad"
                     /\ full.cert # "missing"
                     /\ PoolOK(full)
                     /\ full.timeout >= 0
  <2>1. ~(~PortOK(placed) \/ placed.name = "")
    BY <1>6 DEF PostgresValidate, Verdict
  <2>2. PostgresValidate(c) = Verdict(full, fine)
    BY <1>6, <2>1 DEF PostgresValidate
  <2>3. fine /\ PostgresValidate(c).config = full
    BY <2>2 DEF Verdict
  <2>4. full.name = placed.name /\ full.port = placed.port
    BY FillLeavesOthers DEF Fill
  <2>5. PortOK(full)
    BY <2>1, <2>4 DEF PortOK
  <2>6. PostgresValidate(full) = Verdict(full, fine)
    BY <1>3, <1>4, <1>6, <2>1, <2>4, <2>5 DEF PostgresValidate, Filled
  <2> QED
    BY <2>3, <2>6
<1> QED
  BY <1>5, <1>6

\* The same of redis.
LEMMA RedisStable ==
    ASSUME NEW c, {"uri", "port"} \subseteq DOMAIN c, RedisValidate(c).ok
    PROVE  LET d == RedisValidate(c).config
           IN  RedisValidate(d) = Verdict(d, TRUE)
<1> DEFINE P == {"max", "min", "retries", "timeout"}
           H == {"host", "port"}
           pooled == Fill(c, P)
           placed == Fill(pooled, H)
<1>1. Filled(pooled, P) /\ pooled["uri"] = c["uri"]
  BY FillFills, FillLeavesOthers
<1>2. Filled(placed, P) /\ Filled(placed, H) /\ placed["uri"] = c["uri"]
  <2>1. "uri" \in DOMAIN pooled
    BY DEF Fill
  <2> QED
    BY <1>1, <2>1, FillFills, FillKeeps, FillLeavesOthers
<1>3. CASE c.uri # ""
  <2> DEFINE good == c["uri"] # "bad"
  <2>1. RedisValidate(c) = Verdict(pooled, good)
    BY <1>3 DEF RedisValidate
  <2>2. good /\ RedisValidate(c).config = pooled
    <3> HIDE DEF good
    <3> QED
      BY <2>1 DEF Verdict
  <2>3. RedisValidate(pooled) = Verdict(pooled, TRUE)
    BY <1>1, <1>3, <2>2 DEF RedisValidate, Filled
  <2> QED
    BY <2>2, <2>3
<1>4. CASE c.uri = ""
  <2> DEFINE fine == PortOK(placed) /\ PoolOK(placed) /\ placed.timeout >= 0
  <2>1. RedisValidate(c) = Verdict(placed, fine)
    BY <1>4 DEF RedisValidate
  <2>2. fine /\ RedisValidate(c).config = placed
    <3> HIDE DEF fine
    <3> QED
      BY <2>1 DEF Verdict
  <2>3. RedisValidate(placed) = Verdict(placed, fine)
    BY <1>2, <1>4 DEF RedisValidate, Filled
  <2> QED
    BY <2>2, <2>3
<1> QED
  BY <1>3, <1>4

\* The same of neo4j.
LEMMA Neo4jStable ==
    ASSUME NEW c, {"uri", "port"} \subseteq DOMAIN c, Neo4jValidate(c).ok
    PROVE  LET d == Neo4jValidate(c).config
           IN  Neo4jValidate(d) = Verdict(d, TRUE)
<1> DEFINE P == {"max", "timeout"}
           H == {"host", "port"}
           M == {"mode"}
           N == {"name"}
           pooled == Fill(c, P)
           named  == Fill(pooled, N)
           placed == Fill(pooled, H)
           full   == Fill(placed, M)
<1>1. Filled(pooled, P) /\ pooled["uri"] = c["uri"] /\ "uri" \in DOMAIN pooled
  <2>1. "uri" \in DOMAIN pooled
    BY DEF Fill
  <2> QED
    BY <2>1, FillFills, FillLeavesOthers
<1>2. Filled(named, P) /\ Filled(named, N) /\ named["uri"] = c["uri"]
  BY <1>1, FillFills, FillKeeps, FillLeavesOthers
<1>3. Filled(full, P) /\ Filled(full, H) /\ Filled(full, M)
  <2>1. Filled(placed, P) /\ Filled(placed, H)
    BY <1>1, FillFills, FillKeeps
  <2> QED
    BY <2>1, FillFills, FillKeeps
<1>4. full["uri"] = c["uri"] /\ full.port = placed.port
  <2>1. {"uri", "port"} \subseteq DOMAIN placed /\ "port" \in DOMAIN pooled
    BY DEF Fill
  <2>2. placed["uri"] = pooled["uri"] /\ full["uri"] = placed["uri"]
    BY <1>1, <2>1, FillLeavesOthers
  <2>3. full["port"] = placed["port"]
    BY <2>1, FillLeavesOthers
  <2> QED
    BY <1>1, <2>2, <2>3
<1>5. CASE c.uri # ""
  <2>1. pooled.uri # "bad"
    <3>1. pooled["uri"] = "bad" => Neo4jValidate(c) = Verdict(pooled, FALSE)
      BY <1>1, <1>5 DEF Neo4jValidate
    <3> QED
      BY <3>1 DEF Verdict
  <2>2. Neo4jValidate(c) = Verdict(named, TRUE)
    BY <1>1, <1>5, <2>1 DEF Neo4jValidate
  <2>3. Neo4jValidate(c).config = named
    BY <2>2 DEF Verdict
  <2>4. Neo4jValidate(named) = Verdict(named, TRUE)
    BY <1>1, <1>2, <1>5, <2>1 DEF Neo4jValidate, Filled
  <2> QED
    BY <2>3, <2>4
<1>6. CASE c.uri = ""
  <2> DEFINE fine == full.name # "" /\ full.max >= 1 /\ full.timeout >= 0
  <2>1. PortOK(placed)
    BY <1>6 DEF Neo4jValidate, Verdict
  <2>2. Neo4jValidate(c) = Verdict(full, fine)
    BY <1>6, <2>1 DEF Neo4jValidate
  <2>3. fine /\ Neo4jValidate(c).config = full
    <3> HIDE DEF fine
    <3> QED
      BY <2>2 DEF Verdict
  <2>4. PortOK(full)
    BY <1>4, <2>1 DEF PortOK
  <2>5. Neo4jValidate(full) = Verdict(full, fine)
    BY <1>3, <1>4, <1>6, <2>4 DEF Neo4jValidate, Filled
  <2> QED
    BY <2>3, <2>5
<1> QED
  BY <1>5, <1>6

\* The same of qdrant.
LEMMA QdrantStable ==
    ASSUME NEW c, "port" \in DOMAIN c, QdrantValidate(c).ok
    PROVE  LET d == QdrantValidate(c).config
           IN  QdrantValidate(d) = Verdict(d, TRUE)
<1> DEFINE H == {"host", "port"}
           T == {"timeout"}
           placed == Fill(c, H)
           full   == Fill(placed, T)
           fine   == full.timeout >= 0
<1>1. Filled(full, H) /\ Filled(full, T) /\ full.port = placed.port
  <2>1. "port" \in DOMAIN placed
    BY DEF Fill
  <2> QED
    BY <2>1, FillFills, FillKeeps, FillLeavesOthers
<1>2. PortOK(placed)
  BY DEF QdrantValidate, Verdict
<1>3. QdrantValidate(c) = Verdict(full, fine)
  BY <1>2 DEF QdrantValidate
<1>4. fine /\ QdrantValidate(c).config = full
  <2> HIDE DEF fine
  <2> QED
    BY <1>3 DEF Verdict
<1>5. PortOK(full)
  BY <1>1, <1>2 DEF PortOK
<1>6. QdrantValidate(full) = Verdict(full, fine)
  BY <1>1, <1>5 DEF QdrantValidate, Filled
<1> QED
  BY <1>4, <1>6

\* The same of minio.
LEMMA MinioStable ==
    ASSUME NEW c, "name" \in DOMAIN c, MinioValidate(c).ok
    PROVE  LET d == MinioValidate(c).config
           IN  MinioValidate(d) = Verdict(d, TRUE)
<1> DEFINE R == {"region"}
           full == Fill(c, R)
<1>1. c.name # ""
  BY DEF MinioValidate, Verdict
<1>2. MinioValidate(c).config = full
  BY <1>1 DEF MinioValidate, Verdict
<1>3. Filled(full, R) /\ full["name"] = c["name"]
  BY FillFills, FillLeavesOthers
<1>4. MinioValidate(full) = Verdict(full, TRUE)
  BY <1>1, <1>3 DEF MinioValidate, Filled
<1> QED
  BY <1>2, <1>4

\* What a Validate has accepted, it accepts again and leaves as it is
\* (the Validate methods of the five config.go).
THEOREM ValidatingTwice ==
    ASSUME NEW k \in Kinds, NEW c, DOMAIN c = Fields(k), Validate(k, c).ok
    PROVE  LET d == Validate(k, c).config
           IN  Validate(k, d) = Verdict(d, TRUE)
<1>1. CASE k = "postgres"
  BY <1>1, FieldsOf, PostgresStable DEF Validate
<1>2. CASE k = "redis"
  BY <1>2, FieldsOf, RedisStable DEF Validate
<1>3. CASE k = "neo4j"
  BY <1>3, FieldsOf, Neo4jStable DEF Validate
<1>4. CASE k = "qdrant"
  BY <1>4, FieldsOf, QdrantStable DEF Validate
<1>5. CASE k = "minio"
  BY <1>5, FieldsOf, MinioStable DEF Validate
<1> QED
  BY <1>1, <1>2, <1>3, <1>4, <1>5 DEF Kinds

\* d is c with defaults in some of the fields that were zero.
Completes(d, c) ==
    /\ d = [f \in DOMAIN c |-> d[f]]
    /\ \A f \in DOMAIN c : d[f] = c[f] \/ (c[f] = Zero(f) /\ d[f] = Default(f))

\* Fill only gives zero fields their defaults.
LEMMA FillCompletes ==
    ASSUME NEW b, NEW c, NEW F, Completes(c, b)
    PROVE  Completes(Fill(c, F), b)
  BY DEF Completes, Fill

\* So does every Validate, whether it accepts or refuses.
LEMMA ValidateCompletes ==
    ASSUME NEW k \in Kinds, NEW c, c = [f \in DOMAIN c |-> c[f]]
    PROVE  Completes(Validate(k, c).config, c)
<1>1. Completes(c, c)
  BY DEF Completes
<1>2. CASE k = "postgres"
  <2> DEFINE pooled == Fill(c, {"max", "min", "timeout"})
             placed == Fill(pooled, {"host", "port"})
             full   == Fill(placed, {"mode"})
  <2>1. PostgresValidate(c).config \in {pooled, placed, full}
    BY DEF PostgresValidate, Verdict
  <2>2. Completes(pooled, c)
    BY <1>1, FillCompletes
  <2>3. Completes(placed, c)
    BY <2>2, FillCompletes
  <2>4. Completes(full, c)
    BY <2>3, FillCompletes
  <2> HIDE DEF full, placed, pooled
  <2> QED
    BY <1>2, <2>1, <2>2, <2>3, <2>4 DEF Validate
<1>3. CASE k = "redis"
  <2> DEFINE pooled == Fill(c, {"max", "min", "retries", "timeout"})
             placed == Fill(pooled, {"host", "port"})
  <2>1. RedisValidate(c).config \in {pooled, placed}
    BY DEF RedisValidate, Verdict
  <2>2. Completes(pooled, c)
    BY <1>1, FillCompletes
  <2>3. Completes(placed, c)
    BY <2>2, FillCompletes
  <2> HIDE DEF placed, pooled
  <2> QED
    BY <1>3, <2>1, <2>2, <2>3 DEF Validate
<1>4. CASE k = "neo4j"
  <2> DEFINE pooled == Fill(c, {"max", "timeout"})
             named  == Fill(pooled, {"name"})
             placed == Fill(pooled, {"host", "port"})
             full   == Fill(placed, {"mode"})
  <2>1. Neo4jValidate(c).config \in {pooled, named, placed, full}
    BY DEF Neo4jValidate, Verdict
  <2>2. Completes(pooled, c)
    BY <1>1, FillCompletes
  <2>3. Completes(placed, c) /\ Completes(named, c)
    BY <2>2, FillCompletes
  <2>4. Completes(full, c)
    BY <2>3, FillCompletes
  <2> HIDE DEF full, placed, named, pooled
  <2> QED
    BY <1>4, <2>1, <2>2, <2>3, <2>4 DEF Validate
<1>5. CASE k = "qdrant"
  <2> DEFINE placed == Fill(c, {"host", "port"})
             full   == Fill(placed, {"timeout"})
  <2>1. QdrantValidate(c).config \in {placed, full}
    BY DEF QdrantValidate, Verdict
  <2>2. Completes(placed, c)
    BY <1>1, FillCompletes
  <2>3. Completes(full, c)
    BY <2>2, FillCompletes
  <2> HIDE DEF full, placed
  <2> QED
    BY <1>5, <2>1, <2>2, <2>3 DEF Validate
<1>6. CASE k = "minio"
  <2> DEFINE full == Fill(c, {"region"})
  <2>1. MinioValidate(c).config \in {c, full}
    BY DEF MinioValidate, Verdict
  <2>2. Completes(full, c)
    BY <1>1, FillCompletes
  <2> HIDE DEF full
  <2> QED
    BY <1>1, <1>6, <2>1, <2>2 DEF Validate
<1> QED
  BY <1>2, <1>3, <1>4, <1>5, <1>6 DEF Kinds

-----------------------------------------------------------------------------
\* An error stays an error, with its root, when it is wrapped.
LEMMA WrapFails ==
    ASSUME NEW root, root # "nil", NEW code
    PROVE  Wrap(Native(root), code) # NoError /\ Wrap(Native(root), code).root = root
<1>1. Native(root) # NoError
  BY DEF Native, NoError
<1>2. Wrap(Native(root), code).root = root
  BY <1>1 DEF Wrap, Native
<1> QED
  BY <1>2 DEF NoError

\* A struct has the fields of its kind, and "app" if they are nested in it.
IsStruct(c) ==
    /\ c = [f \in DOMAIN c |-> c[f]]
    /\ DOMAIN c = IF Nested THEN Fields(kind) \cup {"app"} ELSE Fields(kind)

\* What the first three phases leave behind if none of them fails.
Merged(f, e) ==
    LET d == IF Nested /\ tag # NoTag /\ preset["app"] = ""
             THEN [preset EXCEPT !["app"] = tag] ELSE preset
    IN  Overlay(Overlay(d, f), e)

\* A load that succeeds went through all four phases.
LEMMA LoadedMerges ==
    ASSUME config = preset, IsStruct(preset), kind \in Kinds, NEW how, NEW f, NEW e,
           how \in {"no", "file", "field"},
           Loaded(how, f, e).err = NoError
    PROVE  /\ Loaded(how, f, e) = validate(Merged(f, e))
           /\ validate(Merged(f, e)).err = NoError
<1> DEFINE d == applyDefaults(config)
           r == loadFile(d.config, how, f)
           v == applyEnv(r.config, e)
           bad == {x \in DOMAIN e : e[x] = Garbled}
           applied == {x \in DOMAIN e : \A b \in bad : Place(kind, x) < Place(kind, b)}
           start == IF Nested /\ tag # NoTag /\ preset["app"] = ""
                    THEN [preset EXCEPT !["app"] = tag] ELSE preset
<1> DEFINE err == Wrap(Native("parse"), CodeInternalConfiguration)
<1>0. err # NoError /\ \A root \in {"file", "type"} :
                         Wrap(Native(root), CodeInternalConfiguration) # NoError
  BY WrapFails
<1>1. d.err = NoError /\ r.err = NoError /\ v.err = NoError
  BY DEF Loaded
<1>2. Loaded(how, f, e) = validate(v.config)
  BY <1>1 DEF Loaded
<1>3. d.config = start
  BY <1>0, <1>1 DEF applyDefaults, Result, Nested
<1>4. r.config = Overlay(start, f)
  BY <1>0, <1>1, <1>3 DEF loadFile, Result
<1>5. v.config = Overlay(Overlay(start, f), e)
  <2>1. v = Result(Overlay(Overlay(start, f), [x \in applied |-> e[x]]),
                   IF bad = {} THEN NoError ELSE err)
    BY <1>4 DEF applyEnv
  <2>2. bad = {}
    <3> HIDE DEF bad, err, applied, start
    <3> QED
      BY <1>0, <1>1, <2>1 DEF Result
  <2>3. applied = DOMAIN e
    BY <2>2
  <2>4. v.config = Overlay(Overlay(start, f), [x \in applied |-> e[x]])
    <3> HIDE DEF bad, err, applied, start
    <3> QED
      BY <2>1 DEF Result
  <2> HIDE DEF v, start, applied
  <2> QED
    BY <2>3, <2>4 DEF Overlay
<1>6. v.config = Merged(f, e)
  BY <1>5 DEF Merged
<1> HIDE DEF v
<1> QED
  BY <1>2, <1>6

\* The field of the service is not one of the client's.
LEMMA AppIsNoField == \A k \in Kinds : "app" \notin Fields(k)
<1>1. "app" \notin Fields("postgres")
  BY DEF Fields, FieldOrder
<1>2. "app" \notin Fields("redis")
  BY DEF Fields, FieldOrder
<1>3. "app" \notin Fields("neo4j")
  BY DEF Fields, FieldOrder
<1>4. "app" \notin Fields("qdrant")
  BY DEF Fields, FieldOrder
<1>5. "app" \notin Fields("minio")
  BY DEF Fields, FieldOrder
<1> QED
  BY <1>1, <1>2, <1>3, <1>4, <1>5 DEF Kinds

\* What is known of the struct while Load has not run, and after it succeeded.
LoaderInv ==
    /\ kind \in Kinds
    /\ loading = "before" => config = preset
    /\ loading \in {"before", "ok"} => IsStruct(preset)
    /\ loading = "ok" => /\ config = validate(Merged(file, env)).config
                         /\ validate(Merged(file, env)).err = NoError

\* It holds before Load,
LEMMA LoaderInit == Init => LoaderInv
<1> SUFFICES ASSUME Init PROVE LoaderInv
  OBVIOUS
<1>1. kind \in Kinds /\ "app" \notin Fields(kind)
  BY AppIsNoField DEF Init
<1>2. PICK c \in {[f \in Fields(kind) |-> Zero(f)], DefaultConfig(kind)} :
          preset \in {c, InService(c)}
  BY DEF Init
<1>3. c = [f \in DOMAIN c |-> c[f]] /\ DOMAIN c = Fields(kind)
  BY <1>2 DEF DefaultConfig
<1>4. CASE preset = c
  BY <1>1, <1>3, <1>4 DEF Init, LoaderInv, IsStruct, Nested
<1>5. CASE preset = InService(c)
  BY <1>1, <1>3, <1>5 DEF Init, LoaderInv, IsStruct, Nested, InService
<1> QED
  BY <1>2, <1>4, <1>5

\* Load preserves it,
LEMMA LoaderStep == LoaderInv /\ Load => LoaderInv'
<1> SUFFICES ASSUME LoaderInv, Load PROVE LoaderInv'
  OBVIOUS
<1>1. /\ kind \in Kinds /\ config = preset /\ IsStruct(preset) /\ loading = "before"
      /\ kind' = kind /\ preset' = preset /\ tag' = tag
  BY DEF LoaderInv, Load
<1>2. PICK how \in {"no", "file", "field"}, f \in Files, e \in Envs :
          /\ config' = Loaded(how, f, e).config
          /\ loading' = IF Loaded(how, f, e).err = NoError THEN "ok" ELSE "failed"
          /\ file' = f /\ env' = e
  BY DEF Load
<1>3. IsStruct(preset)'
  BY <1>1 DEF IsStruct, Nested
<1>4. CASE Loaded(how, f, e).err = NoError
  <2>1. /\ Loaded(how, f, e) = validate(Merged(f, e))
        /\ validate(Merged(f, e)).err = NoError
    BY <1>1, <1>4, LoadedMerges
  <2>2. validate(Merged(file, env))' = validate(Merged(f, e))
    BY <1>1, <1>2 DEF validate, Merged, Nested
  <2> QED
    BY <1>1, <1>2, <1>3, <1>4, <2>1, <2>2 DEF LoaderInv
<1>5. CASE Loaded(how, f, e).err # NoError
  BY <1>1, <1>2, <1>3, <1>5 DEF LoaderInv
<1> QED
  BY <1>4, <1>5

\* and so does every step that leaves the struct alone.
LEMMA LoaderStutter == LoaderInv /\ UNCHANGED loader => LoaderInv'
  BY DEF LoaderInv, loader, IsStruct, Nested, validate, Merged

\* A merge has the fields of the struct, each with the value of its highest layer.
LEMMA MergedLayers ==
    ASSUME IsStruct(preset)
    PROVE  /\ Merged(file, env) = [x \in DOMAIN preset |-> Merged(file, env)[x]]
           /\ \A x \in DOMAIN preset : Merged(file, env)[x] = Layered(x)
<1> DEFINE start == IF Nested /\ tag # NoTag /\ preset["app"] = ""
                    THEN [preset EXCEPT !["app"] = tag] ELSE preset
<1>1. /\ DOMAIN start = DOMAIN preset
      /\ \A x \in DOMAIN preset :
            start[x] = IF x = "app" /\ preset[x] = "" /\ tag # NoTag THEN tag ELSE preset[x]
  BY DEF IsStruct, Nested
<1>2. Merged(file, env) = Overlay(Overlay(start, file), env)
  BY DEF Merged
<1> HIDE DEF start
<1> QED
  BY <1>1, <1>2 DEF Overlay, Layered

\* A struct that was loaded has in every field what the layers say, or a default.
LEMMA LoadedIsLayered == LoaderInv => LayersInOrder
<1> SUFFICES ASSUME LoaderInv, loading = "ok", NEW f \in DOMAIN config
             PROVE  \/ config[f] = Layered(f)
                    \/ ~Nested /\ Layered(f) = Zero(f) /\ config[f] = Default(f)
  BY DEF LayersInOrder
<1> DEFINE m == Merged(file, env)
<1>1. /\ kind \in Kinds /\ IsStruct(preset)
      /\ config = validate(m).config
  BY DEF LoaderInv
<1>2. /\ m = [x \in DOMAIN m |-> m[x]] /\ DOMAIN m = DOMAIN preset
      /\ \A x \in DOMAIN preset : m[x] = Layered(x)
  BY <1>1, MergedLayers
<1> HIDE DEF m
<1>3. CASE Nested
  <2>1. config = m
    BY <1>1, <1>2, <1>3 DEF validate, Result, Nested
  <2> QED
    BY <1>2, <2>1
<1>4. CASE ~Nested
  <2>1. config = Validate(kind, m).config
    BY <1>1, <1>2, <1>4 DEF validate, Result, Nested
  <2>2. Completes(config, m)
    BY <1>1, <1>2, <2>1, ValidateCompletes
  <2>3. DOMAIN config = DOMAIN m
    BY <2>2 DEF Completes
  <2> QED
    BY <1>2, <1>4, <2>2, <2>3 DEF Completes
<1> QED
  BY <1>3, <1>4

\* A struct that was loaded and validated is accepted again, and as it is.
LEMMA LoadedIsStable ==
    LoaderInv /\ loading = "ok" /\ ~Nested
        => /\ Validate(kind, config) = Verdict(config, TRUE)
           /\ DOMAIN config = Fields(kind)
           /\ config = [f \in DOMAIN config |-> config[f]]
<1> SUFFICES ASSUME LoaderInv, loading = "ok", ~Nested
             PROVE  /\ Validate(kind, config) = Verdict(config, TRUE)
                    /\ DOMAIN config = Fields(kind)
                    /\ config = [f \in DOMAIN config |-> config[f]]
  OBVIOUS
<1> DEFINE m == Merged(file, env)
<1>1. /\ kind \in Kinds /\ IsStruct(preset)
      /\ config = validate(m).config /\ validate(m).err = NoError
  BY DEF LoaderInv
<1>2. m = [x \in DOMAIN m |-> m[x]] /\ DOMAIN m = DOMAIN preset
  BY <1>1, MergedLayers
<1>3. DOMAIN preset = Fields(kind) /\ "app" \notin DOMAIN preset
  BY <1>1 DEF IsStruct, Nested
<1> HIDE DEF m
<1>4. config = Validate(kind, m).config /\ Validate(kind, m).ok
  BY <1>1, <1>2, <1>3, WrapFails DEF validate, Result
<1>5. Completes(config, m)
  BY <1>1, <1>2, <1>4, ValidateCompletes
<1>6. DOMAIN config = Fields(kind) /\ config = [f \in DOMAIN config |-> config[f]]
  BY <1>2, <1>3, <1>5 DEF Completes
<1>7. LET d == Validate(kind, m).config IN Validate(kind, d) = Verdict(d, TRUE)
  <2>1. DOMAIN m = Fields(kind)
    BY <1>2, <1>3
  <2> QED
    BY <1>1, <1>4, <2>1, ValidatingTwice
<1>8. Validate(kind, config) = Verdict(config, TRUE)
  BY <1>4, <1>7
<1> QED
  BY <1>6, <1>8

\* After a load that succeeded, every field has the value of the highest layer
\* that has one, whatever the values and however many of them are set
\* (config/loader.go:111-115).
THEOREM LayeringCorrect == Spec => []LayersInOrder
<1>1. Init => LoaderInv
  BY LoaderInit
<1>2. LoaderInv /\ [Load]_loader => LoaderInv'
  BY LoaderStep, LoaderStutter
<1>3. LoaderInv => LayersInOrder
  BY LoadedIsLayered
<1> QED
  BY <1>1, <1>2, <1>3, PTL DEF Spec

-----------------------------------------------------------------------------
(* Why a load fails, and what it leaves behind. *)

\* Something that Load reads is not there, or of another type.
Unreadable(how, e) ==
    how # "no" \/ tag = Garbled \/ \E f \in DOMAIN e : e[f] = Garbled

\* Every field of c has what it had before, a default, or what a layer says.
Traceable(c, f, e) ==
    \A x \in DOMAIN c :
        \/ c[x] \in {preset[x], Default(x)}
        \/ x = "app" /\ c[x] = tag
        \/ x \in DOMAIN f /\ c[x] = f[x]
        \/ x \in DOMAIN e /\ c[x] = e[x] /\ e[x] # Garbled

\* The code of an error is the one it was wrapped with.
LEMMA CodeOfWrap ==
    ASSUME NEW root, root # "nil", NEW code
    PROVE  GetCode(Wrap(Native(root), code)) = code
<1> DEFINE w == Wrap(Native(root), code)
<1>1. Native(root) # NoError
  BY DEF Native, NoError
<1>2. w = [codes |-> <<code>>, root |-> root]
  BY <1>1 DEF Wrap, Native
<1>3. Head(<<code>>) = code
  OBVIOUS
<1> HIDE DEF w
<1>4. GetCode(w) = code
  BY <1>2, <1>3 DEF GetCode
<1> QED
  BY <1>4 DEF w

\* The fields of a struct have their places in the walk.
LEMMA PlacesAreNumbers ==
    ASSUME NEW k \in Kinds, NEW f \in Fields(k) \cup {"app"}
    PROVE  Place(k, f) \in Nat
<1>1. DOMAIN FieldOrder(k) \subseteq Nat
  <2>1. k = "postgres" => DOMAIN FieldOrder(k) \subseteq Nat
    BY DEF FieldOrder
  <2>2. k = "redis" => DOMAIN FieldOrder(k) \subseteq Nat
    BY DEF FieldOrder
  <2>3. k = "neo4j" => DOMAIN FieldOrder(k) \subseteq Nat
    BY DEF FieldOrder
  <2>4. k = "qdrant" => DOMAIN FieldOrder(k) \subseteq Nat
    BY DEF FieldOrder
  <2>5. k = "minio" => DOMAIN FieldOrder(k) \subseteq Nat
    BY DEF FieldOrder
  <2> QED
    BY <2>1, <2>2, <2>3, <2>4, <2>5 DEF Kinds
<1>2. CASE f = "app"
  BY <1>2 DEF Place
<1>3. CASE f # "app"
  <2>1. \E i \in DOMAIN FieldOrder(k) : FieldOrder(k)[i] = f
    BY <1>3 DEF Fields
  <2>2. Place(k, f) \in DOMAIN FieldOrder(k)
    BY <1>3, <2>1 DEF Place
  <2> QED
    BY <1>1, <2>2
<1> QED
  BY <1>2, <1>3

\* The environment names fields of the struct only.
LEMMA EnvsNameFields ==
    ASSUME NEW e \in Envs PROVE DOMAIN e \subseteq DOMAIN config
<1> DEFINE S == Singles(EnvFields) \cup Spoilt(EnvFields)
<1>1. \A a \in S : DOMAIN a \subseteq DOMAIN config
  <2>1. EnvFields \subseteq DOMAIN config
    BY DEF EnvFields
  <2>2. \A a \in Singles(EnvFields) : \E x \in EnvFields : DOMAIN a = {x}
    BY DEF Singles
  <2>3. \A a \in Spoilt(EnvFields) : \E x \in EnvFields : DOMAIN a = {x}
    BY DEF Spoilt
  <2> QED
    BY <2>1, <2>2, <2>3
<1>2. DOMAIN None = {}
  BY DEF None
<1>3. e = None \/ \E a, b \in S : e = Both(a, b)
  BY DEF Envs
<1>4. ASSUME NEW a \in S, NEW b \in S, e = Both(a, b)
      PROVE  DOMAIN e = DOMAIN a \cup DOMAIN b
  BY <1>4 DEF Both
<1> HIDE DEF S
<1> QED
  BY <1>1, <1>2, <1>3, <1>4

\* What a struct is made of before Load reads anything.
Prepared ==
    /\ LoaderInv
    /\ loading = "before" =>
          IF Nested THEN preset["app"] = "" ELSE tag = NoTag

\* The phases of a load one by one.
LEMMA FailuresHaveReason ==
    ASSUME Prepared, loading = "before", NEW how \in {"no", "file", "field"},
           NEW f, NEW e \in Envs
    PROVE  LET r == Loaded(how, f, e)
           IN  /\ DOMAIN r.config = DOMAIN preset
               /\ Traceable(r.config, f, e)
               /\ r.err = NoError =>
                     /\ ~Unreadable(how, e)
                     /\ Nested => Merged(f, e)["app"] # ""
               /\ r.err # NoError =>
                     \/ /\ GetCode(r.err) = CodeInternalConfiguration
                        /\ Unreadable(how, e)
                     \/ /\ GetCode(r.err) = CodeValidationRequired
                        /\ ~Unreadable(how, e)
                        /\ Nested /\ Merged(f, e)["app"] = ""
                     \/ /\ GetCode(r.err) = CodeValidation
                        /\ ~Unreadable(how, e) /\ ~Nested
<1> DEFINE d == applyDefaults(config)
           r == loadFile(d.config, how, f)
           v == applyEnv(r.config, e)
           bad == {x \in DOMAIN e : e[x] = Garbled}
           applied == {x \in DOMAIN e : \A b \in bad : Place(kind, x) < Place(kind, b)}
           start == IF Nested /\ tag # NoTag /\ preset["app"] = ""
                    THEN [preset EXCEPT !["app"] = tag] ELSE preset
           parse == Wrap(Native("parse"), CodeInternalConfiguration)
           left == Loaded(how, f, e)
<1>0. /\ config = preset /\ IsStruct(preset) /\ kind \in Kinds
      /\ IF Nested THEN preset["app"] = "" ELSE tag = NoTag
  BY DEF Prepared, LoaderInv
<1>1. \A root \in {"parse", "type", "file"} :
          /\ Wrap(Native(root), CodeInternalConfiguration) # NoError
          /\ GetCode(Wrap(Native(root), CodeInternalConfiguration))
                = CodeInternalConfiguration
  BY WrapFails, CodeOfWrap
<1>2. DOMAIN start = DOMAIN preset
      /\ \A x \in DOMAIN preset : start[x] = preset[x] \/ (x = "app" /\ start[x] = tag)
  BY <1>0 DEF IsStruct
<1>3. CASE Nested /\ tag = Garbled
  <2>1. d = Result(preset, parse)
    BY <1>0, <1>3, GarbledIsATag DEF applyDefaults, Nested
  <2>2. left = Result(preset, parse)
    BY <1>1, <2>1 DEF Loaded, Result
  <2> HIDE DEF d, r, v, bad, applied, start, parse
  <2>3. left.config = preset /\ left.err = parse
    BY <2>2 DEF Result
  <2>4. Traceable(preset, f, e) /\ Unreadable(how, e)
    BY <1>3 DEF Traceable, Unreadable
  <2> QED
    BY <1>1, <2>3, <2>4 DEF parse
<1>4. CASE ~(Nested /\ tag = Garbled)
  <2>0. tag # Garbled
    BY <1>0, <1>4, GarbledIsATag
  <2>1. d = Result(start, NoError)
    BY <1>0, <1>4 DEF applyDefaults, Nested
  <2>2. d.config = start /\ d.err = NoError
    <3> HIDE DEF d, start
    <3> QED
      BY <2>1 DEF Result
  <2>3. CASE how # "no"
    <3> DEFINE c == IF how = "file" THEN start ELSE Overlay(start, f)
               root == IF how = "file" THEN "file" ELSE "type"
               err == Wrap(Native(root), CodeInternalConfiguration)
    <3>1. r = Result(c, err)
      BY <2>2, <2>3 DEF loadFile
    <3>2. err # NoError /\ GetCode(err) = CodeInternalConfiguration
      BY <1>1
    <3>3. DOMAIN c = DOMAIN preset /\ Traceable(c, f, e)
      BY <1>2 DEF Overlay, Traceable
    <3>4. Unreadable(how, e)
      BY <2>3 DEF Unreadable
    <3> HIDE DEF c, err, d, v, start, bad, applied, parse
    <3>5. r.config = c /\ r.err = err
      BY <3>1 DEF Result
    <3>6. left = r
      BY <2>2, <3>2, <3>5 DEF Loaded, d, v
    <3> HIDE DEF r, left
    <3> QED
      BY <3>2, <3>3, <3>4, <3>5, <3>6 DEF left
  <2>4. CASE how = "no"
    <3>1. r = Result(Overlay(start, f), NoError)
      BY <2>2, <2>4 DEF loadFile
    <3>2. r.config = Overlay(start, f) /\ r.err = NoError
      <4> HIDE DEF r, d, start
      <4> QED
        BY <3>1 DEF Result
    <3>3. CASE bad # {}
      <4> DEFINE c == Overlay(Overlay(start, f), [x \in applied |-> e[x]])
      <4>1. v = Result(c, parse)
        BY <3>2, <3>3 DEF applyEnv
      <4>2. \A x \in applied : e[x] # Garbled
        <5> SUFFICES ASSUME NEW x \in applied, e[x] = Garbled PROVE FALSE
          OBVIOUS
        <5>1. x \in bad /\ Place(kind, x) < Place(kind, x)
          OBVIOUS
        <5>2. x \in Fields(kind) \cup {"app"}
          BY <1>0, EnvsNameFields DEF IsStruct
        <5>3. Place(kind, x) \in Nat
          BY <1>0, <5>2, PlacesAreNumbers
        <5> QED
          BY <5>1, <5>3
      <4>3. DOMAIN c = DOMAIN preset /\ Traceable(c, f, e)
        <5> HIDE DEF start
        <5> QED
          BY <1>2, <4>2 DEF Overlay, Traceable
      <4>4. Unreadable(how, e)
        BY <3>3 DEF Unreadable
      <4> HIDE DEF c, d, r, start, bad, applied, parse
      <4>5. v.config = c /\ v.err = parse
        BY <4>1 DEF Result
      <4>6. left = v
        BY <1>1, <2>2, <3>2, <4>5 DEF Loaded, d, r, parse
      <4> HIDE DEF v, left
      <4> QED
        BY <1>1, <4>3, <4>4, <4>5, <4>6 DEF left, parse
    <3>4. CASE bad = {}
      <4> DEFINE m == Merged(f, e)
      <4>1. applied = DOMAIN e
        BY <3>4
      <4>2. v = Result(Overlay(Overlay(start, f), [x \in applied |-> e[x]]), NoError)
        BY <3>2, <3>4 DEF applyEnv
      <4>3. v.config = m /\ v.err = NoError
        <5> HIDE DEF start, applied, v
        <5>1. m = Overlay(Overlay(start, f), e)
          BY DEF Merged, start
        <5> QED
          BY <4>1, <4>2, <5>1 DEF Result, Overlay
      <4>4. ~Unreadable(how, e)
        BY <2>0, <2>4, <3>4 DEF Unreadable
      <4>5. /\ DOMAIN m = DOMAIN preset /\ m = [x \in DOMAIN m |-> m[x]]
            /\ \A x \in DOMAIN preset :
                  \/ m[x] = preset[x]
                  \/ x = "app" /\ m[x] = tag
                  \/ x \in DOMAIN f /\ m[x] = f[x]
                  \/ x \in DOMAIN e /\ m[x] = e[x] /\ e[x] # Garbled
        <5>1. m = Overlay(Overlay(start, f), e)
          BY DEF Merged
        <5>2. \A x \in DOMAIN e : e[x] # Garbled
          BY <3>4
        <5> HIDE DEF m, start
        <5> QED
          BY <1>2, <5>1, <5>2 DEF Overlay
      <4> HIDE DEF d, r, v, start, bad, applied, parse, m
      <4>6. left = validate(m)
        BY <2>2, <3>2, <4>3 DEF Loaded, d, r, v
      <4>7. CASE Nested
        <5>1. left = Result(m, IF m["app"] = "" THEN New(CodeValidationRequired)
                                                ELSE NoError)
          BY <4>5, <4>6, <4>7 DEF validate, Nested
        <5>2. /\ New(CodeValidationRequired) # NoError
              /\ GetCode(New(CodeValidationRequired)) = CodeValidationRequired
          BY DEF New, NoError, GetCode
        <5>3. Traceable(m, f, e)
          BY <4>5 DEF Traceable
        <5> HIDE DEF left
        <5>4. left.config = m
              /\ left.err = IF m["app"] = "" THEN New(CodeValidationRequired)
                                             ELSE NoError
          BY <5>1 DEF Result
        <5> QED
          BY <4>4, <4>5, <4>7, <5>2, <5>3, <5>4 DEF left, m
      <4>8. CASE ~Nested
        <5> DEFINE w == Validate(kind, m)
        <5>1. left = Result(w.config, IF w.ok THEN NoError
                                      ELSE Wrap(Native("config"), CodeValidation))
          BY <4>5, <4>6, <4>8 DEF validate, Nested
        <5>2. GetCode(Wrap(Native("config"), CodeValidation)) = CodeValidation
          BY CodeOfWrap
        <5>3. Completes(w.config, m)
          BY <1>0, <4>5, ValidateCompletes
        <5> HIDE DEF w, left
        <5>4. DOMAIN w.config = DOMAIN preset /\ Traceable(w.config, f, e)
          BY <4>5, <5>3 DEF Completes, Traceable
        <5>5. /\ left.config = w.config
              /\ left.err = IF w.ok THEN NoError
                            ELSE Wrap(Native("config"), CodeValidation)
          BY <5>1 DEF Result
        <5> QED
          BY <4>4, <4>8, <5>2, <5>4, <5>5 DEF left
      <4> QED
        BY <4>7, <4>8
    <3> QED
      BY <3>3, <3>4
  <2> QED
    BY <2>3, <2>4
<1> QED
  BY <1>3, <1>4

LEMMA RefusalStep ==
    Prepared /\ Load => LoadRefusesForAReason'
<1> SUFFICES ASSUME Prepared, Load PROVE LoadRefusesForAReason'
  OBVIOUS
<1>1. /\ loading = "before" /\ IsStruct(preset)
      /\ kind' = kind /\ preset' = preset /\ tag' = tag
  BY DEF Prepared, LoaderInv, Load
<1>2. PICK how \in {"no", "file", "field"}, f \in Files, e \in Envs :
          /\ config' = Loaded(how, f, e).config
          /\ loadErr' = Loaded(how, f, e).err
          /\ loading' = IF Loaded(how, f, e).err = NoError THEN "ok" ELSE "failed"
          /\ broken' = how /\ file' = f /\ env' = e
  BY DEF Load
<1> DEFINE r == Loaded(how, f, e)
<1>3. /\ DOMAIN r.config = DOMAIN preset
      /\ Traceable(r.config, f, e)
      /\ r.err = NoError => ~Unreadable(how, e) /\ (Nested => Merged(f, e)["app"] # "")
      /\ r.err # NoError =>
            \/ GetCode(r.err) = CodeInternalConfiguration /\ Unreadable(how, e)
            \/ /\ GetCode(r.err) = CodeValidationRequired /\ ~Unreadable(how, e)
               /\ Nested /\ Merged(f, e)["app"] = ""
            \/ GetCode(r.err) = CodeValidation /\ ~Unreadable(how, e) /\ ~Nested
  BY <1>1, FailuresHaveReason
<1>4. /\ Nested' = Nested
      /\ Nested => Layered("app")' = Merged(f, e)["app"]
  <2>1. IsStruct(preset)'
    BY <1>1 DEF IsStruct, Nested
  <2>2. Merged(file, env)' = Merged(f, e)
    BY <1>1, <1>2 DEF Merged, Nested
  <2>3. (\A x \in DOMAIN preset : Merged(file, env)[x] = Layered(x))'
    BY <2>1, MergedLayers, PTL
  <2> QED
    BY <1>1, <2>2, <2>3 DEF Nested
<1>5. /\ CodeInternalConfiguration # CodeValidationRequired
      /\ CodeInternalConfiguration # CodeValidation
      /\ CodeValidationRequired # CodeValidation
  BY DEF CodeInternalConfiguration, CodeValidationRequired, CodeValidation
<1> HIDE DEF r
<1>6. /\ config' = r.config /\ loadErr' = r.err
      /\ loading' = IF r.err = NoError THEN "ok" ELSE "failed"
  BY <1>2 DEF r
<1>7. Unreadable(how, e) <=>
         \/ broken' # "no"
         \/ tag' = Garbled
         \/ \E x \in DOMAIN env' : env'[x] = Garbled
  BY <1>1, <1>2 DEF Unreadable
<1> QED
  BY <1>1, <1>2, <1>3, <1>4, <1>5, <1>6, <1>7
  DEF LoadRefusesForAReason, Traceable

LEMMA InitPrepared == Init => Prepared
<1> SUFFICES ASSUME Init PROVE Prepared
  OBVIOUS
<1>1. LoaderInv
  BY LoaderInit
<1>2. kind \in Kinds /\ "app" \notin Fields(kind)
  BY AppIsNoField DEF Init
<1>3. PICK c \in {[f \in Fields(kind) |-> Zero(f)], DefaultConfig(kind)} :
          preset \in {c, InService(c)}
  BY DEF Init
<1>4. "app" \notin DOMAIN c
  BY <1>2, <1>3 DEF DefaultConfig
<1>5. Nested => preset["app"] = ""
  BY <1>3, <1>4 DEF Nested, InService
<1>6. ~Nested => tag = NoTag
  BY DEF Init, Nested
<1> QED
  BY <1>1, <1>5, <1>6 DEF Prepared

\* A load fails only for one of the documented reasons and with its code, and
\* what it leaves behind is made of what the layers and the defaults say,
\* whatever they say (config/loader.go:121-124).
THEOREM RefusedForAReason == Spec => []LoadRefusesForAReason
<1>1. Init => Prepared /\ LoadRefusesForAReason
  BY InitPrepared DEF Init, LoadRefusesForAReason
<1>2. Prepared /\ LoadRefusesForAReason /\ [Load]_loader
         => (Prepared /\ LoadRefusesForAReason)'
  <2>1. ASSUME Prepared, Load
        PROVE  Prepared' /\ LoadRefusesForAReason'
    <3>1. LoaderInv' /\ loading' # "before"
      BY <2>1, LoaderStep DEF Prepared, Load
    <3> QED
      BY <2>1, <3>1, RefusalStep DEF Prepared
  <2>2. ASSUME Prepared, LoadRefusesForAReason, UNCHANGED loader
        PROVE  Prepared' /\ LoadRefusesForAReason'
    <3>1. LoaderInv'
      BY <2>2, LoaderStutter DEF Prepared
    <3>2. Prepared'
      BY <2>2, <3>1 DEF Prepared, loader, Nested
    <3>3. LoadRefusesForAReason'
      BY <2>2 DEF loader, LoadRefusesForAReason, Nested, Layered
    <3> QED
      BY <3>2, <3>3
  <2> QED
    BY <2>1, <2>2
<1> QED
  BY <1>1, <1>2, PTL DEF Spec
=============================================================================
