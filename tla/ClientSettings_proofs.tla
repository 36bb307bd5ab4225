------------------------ MODULE ClientSettings_proofs ------------------------
(***************************************************************************)
(* What NewClient sets a driver to, for any limits and any values in the   *)
(* file and the environment: the settings are in order because NewClient   *)
(* validates its copy again, and numbers because the loader refuses what   *)
(* it cannot parse; so what Load accepted is only refused for what is left *)
(* to the driver.  With it, the types of the client, the classes of its    *)
(* errors, and that it keeps the promises of DriverHandle: what it lends   *)
(* of its driver is within the limit, and back when the driver is closed.  *)
(***************************************************************************)
EXTENDS ClientService_proofs, FiniteSetTheorems

\* The numbers of a struct are numbers.
TypedConfig(c) == \A f \in DOMAIN c : f \in Numbers => c[f] \in Int

\* Every default of a number is positive.
LEMMA DefaultsPositive ==
    \A f \in Numbers : Zero(f) = 0 /\ Default(f) \in Int /\ Default(f) # 0
<1>1. /\ DefaultPort \in Int /\ DefaultPort # 0
      /\ DefaultMax \in Int /\ DefaultMax # 0
      /\ DefaultMin \in Int /\ DefaultMin # 0
      /\ DefaultRetries \in Int /\ DefaultRetries # 0
      /\ DefaultTimeout \in Int /\ DefaultTimeout # 0
  BY ClientConfigConstants
<1> QED
  BY <1>1 DEF Numbers, Zero, Default

\* A number that Fill was asked for is not zero,
LEMMA FillNonzero ==
    ASSUME NEW c, NEW F, NEW f \in Numbers, f \in DOMAIN c, f \in F \/ c[f] # 0
    PROVE  f \in DOMAIN Fill(c, F) /\ Fill(c, F)[f] # 0
  BY DefaultsPositive DEF Fill

\* and completing a typed struct leaves a typed one.
LEMMA CompletesTyped ==
    ASSUME NEW c, NEW d, TypedConfig(c), Completes(d, c)
    PROVE  TypedConfig(d) /\ DOMAIN d = DOMAIN c
  BY DefaultsPositive DEF TypedConfig, Completes

\* The numbers of each struct.
LEMMA NumbersOf ==
    /\ Fields("postgres") \cap Numbers \subseteq {"port", "max", "min", "timeout"}
    /\ Fields("neo4j") \cap Numbers \subseteq {"port", "max", "timeout"}
    /\ Fields("qdrant") \cap Numbers \subseteq {"port", "timeout"}
    /\ Fields("minio") \cap Numbers = {}
    /\ {"max", "min", "timeout", "uri"} \subseteq Fields("postgres")
    /\ {"max", "min", "timeout", "retries", "uri"} \subseteq Fields("redis")
    /\ {"max", "timeout", "uri"} \subseteq Fields("neo4j")
    /\ "timeout" \in Fields("qdrant")
<1>1. /\ "retries" \notin Fields("postgres")
      /\ {"min", "retries"} \cap Fields("neo4j") = {}
      /\ {"max", "min", "retries"} \cap Fields("qdrant") = {}
      /\ Numbers \cap Fields("minio") = {}
  BY DEF Fields, FieldOrder, Numbers
<1> DEFINE Pg == FieldOrder("postgres")
           Rd == FieldOrder("redis")
           Nj == FieldOrder("neo4j")
           Qd == FieldOrder("qdrant")
<1>2. /\ {1, 7, 8, 9} \subseteq DOMAIN Pg
      /\ Pg[1] = "uri" /\ Pg[7] = "max" /\ Pg[8] = "min" /\ Pg[9] = "timeout"
  BY DEF FieldOrder
<1>3. /\ {1, 4, 5, 6, 7} \subseteq DOMAIN Rd
      /\ Rd[1] = "uri" /\ Rd[4] = "max" /\ Rd[5] = "min" /\ Rd[6] = "retries"
      /\ Rd[7] = "timeout"
  BY DEF FieldOrder
<1>4. /\ {1, 6, 7} \subseteq DOMAIN Nj
      /\ Nj[1] = "uri" /\ Nj[6] = "max" /\ Nj[7] = "timeout"
  BY DEF FieldOrder
<1>5. 3 \in DOMAIN Qd /\ Qd[3] = "timeout"
  BY DEF FieldOrder
<1>6. /\ {"max", "min", "timeout", "uri"} \subseteq Fields("postgres")
      /\ {"max", "min", "timeout", "retries", "uri"} \subseteq Fields("redis")
      /\ {"max", "timeout", "uri"} \subseteq Fields("neo4j")
      /\ "timeout" \in Fields("qdrant")
  BY <1>2, <1>3, <1>4, <1>5 DEF Fields
<1> QED
  BY <1>1, <1>6 DEF Numbers
-----------------------------------------------------------------------------
\* What SaneSettings asks of the configuration c of a client of kind k.
Sane(k, c) ==
    /\ \A f \in DOMAIN c : f \in Numbers \ {"port"} => c[f] # 0
    /\ k \in {"postgres", "redis", "neo4j"} /\ c["uri"] = "" =>
          /\ c["max"] >= 1 /\ c["timeout"] > 0
          /\ k # "neo4j" => c["min"] >= 0 /\ c["max"] >= c["min"]
    /\ k = "qdrant" => c["timeout"] > 0

\* A struct that a Validate accepts as it is, is sane: of postgres,
LEMMA PostgresSane ==
    ASSUME NEW c, DOMAIN c = Fields("postgres"), TypedConfig(c),
           PostgresValidate(c) = Verdict(c, TRUE)
    PROVE  Sane("postgres", c)
<1> DEFINE pooled == Fill(c, {"max", "min", "timeout"})
           placed == Fill(pooled, {"host", "port"})
           full   == Fill(placed, {"mode"})
           fine   == /\ full.mode # "bad"
                     /\ full.cert # "missing"
                     /\ PoolOK(full)
                     /\ full.timeout >= 0
<1>1. \A f \in {"max", "min", "timeout"} :
         /\ f \in Numbers /\ f \in DOMAIN c /\ c[f] \in Int
         /\ pooled[f] # 0 /\ full[f] # 0
  <2> SUFFICES ASSUME NEW f \in {"max", "min", "timeout"}
               PROVE  /\ f \in Numbers /\ f \in DOMAIN c /\ c[f] \in Int
                      /\ pooled[f] # 0 /\ full[f] # 0
    OBVIOUS
  <2>1. f \in Numbers /\ f \in DOMAIN c
    BY NumbersOf DEF Numbers
  <2>2. f \in DOMAIN pooled /\ pooled[f] # 0
    BY <2>1, FillNonzero
  <2>3. f \in DOMAIN placed /\ placed[f] # 0
    BY <2>1, <2>2, FillNonzero
  <2>4. full[f] # 0
    BY <2>1, <2>3, FillNonzero
  <2> QED
    BY <2>1, <2>2, <2>4 DEF TypedConfig
<1>2. CASE c.uri # ""
  <2>1. c = pooled
    <3> HIDE DEF pooled
    <3> QED
      BY <1>2 DEF PostgresValidate, Verdict, pooled
  <2> HIDE DEF pooled
  <2> QED
    BY <1>1, <1>2, <2>1, NumbersOf DEF Sane
<1>3. CASE c.uri = ""
  <2>1. PostgresValidate(c) \in {Verdict(placed, FALSE), Verdict(full, fine)}
    BY <1>3 DEF PostgresValidate
  <2>2. c = full /\ fine
    <3> HIDE DEF placed, full, fine
    <3> QED
      BY <2>1 DEF Verdict
  <2>3. PoolOK(c) /\ c["timeout"] >= 0
    <3> HIDE DEF full
    <3> QED
      BY <2>2
  <2> HIDE DEF full, fine
  <2>4. \A f \in {"max", "min", "timeout"} : c[f] # 0 /\ c[f] \in Int
    BY <1>1, <2>2
  <2>5. /\ c["max"] >= 1 /\ c["timeout"] > 0
        /\ c["min"] >= 0 /\ c["max"] >= c["min"]
    BY <2>3, <2>4 DEF PoolOK
  <2>6. \A f \in DOMAIN c : f \in Numbers \ {"port"} => c[f] # 0
    BY <2>4, NumbersOf
  <2> QED
    BY <2>5, <2>6 DEF Sane
<1> QED
  BY <1>2, <1>3

\* of redis,
LEMMA RedisSane ==
    ASSUME NEW c, DOMAIN c = Fields("redis"), TypedConfig(c),
           RedisValidate(c) = Verdict(c, TRUE)
    PROVE  Sane("redis", c)
<1> DEFINE N == {"max", "min", "retries", "timeout"}
           pooled == Fill(c, N)
           placed == Fill(pooled, {"host", "port"})
           fine   == PortOK(placed) /\ PoolOK(placed) /\ placed.timeout >= 0
<1>1. \A f \in N : c[f] \in Int /\ pooled[f] # 0 /\ placed[f] # 0
  <2> SUFFICES ASSUME NEW f \in N
               PROVE  c[f] \in Int /\ pooled[f] # 0 /\ placed[f] # 0
    OBVIOUS
  <2>1. f \in Numbers /\ f \in DOMAIN c
    BY NumbersOf DEF Numbers
  <2>2. f \in DOMAIN pooled /\ pooled[f] # 0
    BY <2>1, FillNonzero
  <2>3. placed[f] # 0
    BY <2>1, <2>2, FillNonzero
  <2> QED
    BY <2>1, <2>2, <2>3 DEF TypedConfig
<1>2. CASE c.uri # ""
  <2> DEFINE good == c.uri # "bad"
  <2>1. RedisValidate(c) = Verdict(pooled, good)
    BY <1>2 DEF RedisValidate
  <2>2. c = pooled
    <3> HIDE DEF pooled, good
    <3> QED
      BY <2>1 DEF Verdict
  <2> HIDE DEF pooled
  <2>3. \A f \in DOMAIN c : f \in Numbers \ {"port"} => c[f] # 0
    BY <1>1, <2>2 DEF Numbers
  <2> QED
    BY <1>2, <2>3 DEF Sane
<1>3. CASE c.uri = ""
  <2>1. RedisValidate(c) = Verdict(placed, fine)
    BY <1>3 DEF RedisValidate
  <2>2. c = placed /\ fine
    <3> HIDE DEF placed, fine
    <3> QED
      BY <2>1 DEF Verdict
  <2>3. PoolOK(c) /\ c["timeout"] >= 0
    <3> HIDE DEF placed
    <3> QED
      BY <2>2
  <2> HIDE DEF placed, fine
  <2>4. \A f \in N : c[f] # 0 /\ c[f] \in Int
    BY <1>1, <2>2
  <2>5. /\ c["max"] >= 1 /\ c["timeout"] > 0
        /\ c["min"] >= 0 /\ c["max"] >= c["min"]
    BY <2>3, <2>4 DEF PoolOK
  <2>6. \A f \in DOMAIN c : f \in Numbers \ {"port"} => c[f] # 0
    BY <2>4 DEF Numbers
  <2> QED
    BY <2>5, <2>6 DEF Sane
<1> QED
  BY <1>2, <1>3

\* of neo4j,
LEMMA Neo4jSane ==
    ASSUME NEW c, DOMAIN c = Fields("neo4j"), TypedConfig(c),
           Neo4jValidate(c) = Verdict(c, TRUE)
    PROVE  Sane("neo4j", c)
<1> DEFINE N == {"max", "timeout"}
           pooled == Fill(c, N)
           named  == Fill(pooled, {"name"})
           placed == Fill(pooled, {"host", "port"})
           full   == Fill(placed, {"mode"})
           fine   == full.name # "" /\ full.max >= 1 /\ full.timeout >= 0
<1>1. \A f \in N : c[f] \in Int /\ named[f] # 0 /\ full[f] # 0
  <2> SUFFICES ASSUME NEW f \in N
               PROVE  c[f] \in Int /\ named[f] # 0 /\ full[f] # 0
    OBVIOUS
  <2>1. f \in Numbers /\ f \in DOMAIN c
    BY NumbersOf DEF Numbers
  <2>2. f \in DOMAIN pooled /\ pooled[f] # 0
    BY <2>1, FillNonzero
  <2>3. f \in DOMAIN placed /\ placed[f] # 0 /\ named[f] # 0
    BY <2>1, <2>2, FillNonzero
  <2>4. full[f] # 0
    BY <2>1, <2>3, FillNonzero
  <2> QED
    BY <2>1, <2>3, <2>4 DEF TypedConfig
<1>2. CASE c.uri # ""
  <2>1. \/ Neo4jValidate(c) = Verdict(pooled, FALSE)
        \/ Neo4jValidate(c) = Verdict(named, TRUE)
    BY <1>2 DEF Neo4jValidate
  <2>2. c = named
    <3> HIDE DEF pooled, named
    <3> QED
      BY <2>1 DEF Verdict
  <2> HIDE DEF named
  <2>3. \A f \in DOMAIN c : f \in Numbers \ {"port"} => c[f] # 0
    BY <1>1, <2>2, NumbersOf
  <2> QED
    BY <1>2, <2>3 DEF Sane
<1>3. CASE c.uri = ""
  <2>1. \/ Neo4jValidate(c) = Verdict(placed, FALSE)
        \/ Neo4jValidate(c) = Verdict(full, fine)
    BY <1>3 DEF Neo4jValidate
  <2>2. c = full /\ fine
    <3> HIDE DEF placed, full, fine
    <3> QED
      BY <2>1 DEF Verdict
  <2>3. c["max"] >= 1 /\ c["timeout"] >= 0
    <3> HIDE DEF full
    <3> QED
      BY <2>2
  <2> HIDE DEF full, fine
  <2>4. \A f \in N : c[f] # 0 /\ c[f] \in Int
    BY <1>1, <2>2
  <2>5. c["max"] >= 1 /\ c["timeout"] > 0
    BY <2>3, <2>4
  <2>6. \A f \in DOMAIN c : f \in Numbers \ {"port"} => c[f] # 0
    BY <2>4, NumbersOf
  <2> QED
    BY <2>5, <2>6 DEF Sane
<1> QED
  BY <1>2, <1>3

\* of qdrant.
LEMMA QdrantSane ==
    ASSUME NEW c, DOMAIN c = Fields("qdrant"), TypedConfig(c),
           QdrantValidate(c) = Verdict(c, TRUE)
    PROVE  Sane("qdrant", c)
<1> DEFINE placed == Fill(c, {"host", "port"})
           full   == Fill(placed, {"timeout"})
           fine   == full.timeout >= 0
<1>1. "timeout" \in DOMAIN c /\ "timeout" \in Numbers
  BY NumbersOf DEF Numbers
<1>2. full["timeout"] # 0
  <2>1. "timeout" \in DOMAIN placed
    BY <1>1 DEF Fill
  <2> QED
    BY <1>1, <2>1, FillNonzero
<1>3. c = full /\ fine
  <2>1. \/ QdrantValidate(c) = Verdict(placed, FALSE)
        \/ QdrantValidate(c) = Verdict(full, fine)
    BY DEF QdrantValidate
  <2> HIDE DEF placed, full, fine
  <2> QED
    BY <2>1 DEF Verdict
<1>4. c["timeout"] >= 0 /\ c["timeout"] # 0 /\ c["timeout"] \in Int
  <2>1. fine => full["timeout"] >= 0
    OBVIOUS
  <2> HIDE DEF full, fine
  <2> QED
    BY <1>1, <1>2, <1>3, <2>1 DEF TypedConfig
<1> QED
  BY <1>4, NumbersOf DEF Sane

\* Whatever NewClient got, the copy that it goes on with is sane and typed.
LEMMA ValidatedSane ==
    ASSUME NEW k \in Kinds, NEW c, DOMAIN c = Fields(k), c = [f \in DOMAIN c |-> c[f]],
           TypedConfig(c), Validate(k, c).ok
    PROVE  LET d == Validate(k, c).config
           IN  Sane(k, d) /\ TypedConfig(d) /\ DOMAIN d = Fields(k)
<1> DEFINE d == Validate(k, c).config
<1>1. TypedConfig(d) /\ DOMAIN d = Fields(k)
  BY ValidateCompletes, CompletesTyped
<1>2. Validate(k, d) = Verdict(d, TRUE)
  BY ValidatingTwice
<1> SUFFICES Sane(k, d)
  BY <1>1
<1> HIDE DEF d
<1>3. CASE k = "postgres"
  BY <1>1, <1>2, <1>3, PostgresSane DEF Validate
<1>4. CASE k = "redis"
  BY <1>1, <1>2, <1>4, RedisSane DEF Validate
<1>5. CASE k = "neo4j"
  BY <1>1, <1>2, <1>5, Neo4jSane DEF Validate
<1>6. CASE k = "qdrant"
  BY <1>1, <1>2, <1>6, QdrantSane DEF Validate
<1>7. CASE k = "minio"
  BY <1>1, <1>7, NumbersOf DEF Sane
<1> QED
  BY <1>3, <1>4, <1>5, <1>6, <1>7 DEF Kinds
-----------------------------------------------------------------------------
\* What the loader holds is typed as long as a client can be made of it.
LoaderTyped ==
    /\ loading = "before" => TypedConfig(preset)
    /\ loading = "ok" => TypedConfig(config)

\* What the file says, and of the environment what can be parsed, is typed.
LEMMA LayersTyped ==
    /\ \A f \in Files : TypedConfig(f)
    /\ \A e \in Envs : \A x \in DOMAIN e : x \in Numbers => e[x] = Garbled \/ e[x] \in Int
<1>1. ASSUME NEW F, NEW s \in Singles(F) PROVE TypedConfig(s)
  <2>1. PICK f \in F : \E v \in Values[f] : s = [x \in {f} |-> v]
    BY DEF Singles
  <2> QED
    BY <2>1, ValuesOfNumbers DEF TypedConfig
<1>2. TypedConfig(None) /\ DOMAIN None = {}
  BY DEF TypedConfig, None
<1>3. \A f \in Files : TypedConfig(f)
  BY <1>1, <1>2 DEF Files
<1>4. ASSUME NEW e \in Envs, NEW x \in DOMAIN e, x \in Numbers
      PROVE  e[x] = Garbled \/ e[x] \in Int
  <2> DEFINE S == Singles(EnvFields) \cup Spoilt(EnvFields)
  <2>1. \A s \in S : x \in DOMAIN s => s[x] = Garbled \/ s[x] \in Int
    BY <1>1, <1>4 DEF Spoilt, TypedConfig
  <2>2. e = None \/ \E a \in S, b \in S : e = Both(a, b)
    BY DEF Envs
  <2>3. PICK a \in S, b \in S : e = Both(a, b)
    BY <1>2, <2>2
  <2>4. x \in DOMAIN a \/ x \in DOMAIN b
    BY <2>3 DEF Both
  <2>5. e[x] = IF x \in DOMAIN a THEN a[x] ELSE b[x]
    BY <2>3 DEF Both
  <2> QED
    BY <2>1, <2>4, <2>5
<1> QED
  BY <1>3, <1>4

\* A merge of them is typed, if the environment could be parsed.
LEMMA MergedTyped ==
    ASSUME IsStruct(preset), TypedConfig(preset), NEW f \in Files, NEW e \in Envs,
           \A x \in DOMAIN e : e[x] # Garbled
    PROVE  /\ TypedConfig(Merged(f, e))
           /\ Merged(f, e) = [x \in DOMAIN preset |-> Merged(f, e)[x]]
<1> DEFINE start == IF Nested /\ tag # NoTag /\ preset["app"] = ""
                    THEN [preset EXCEPT !["app"] = tag] ELSE preset
<1>1. TypedConfig(start) /\ DOMAIN start = DOMAIN preset
  <2>1. "app" \notin Numbers
    BY DEF Numbers
  <2> QED
    BY <2>1 DEF TypedConfig
<1>2. Merged(f, e) = Overlay(Overlay(start, f), e)
  BY DEF Merged
<1>3. TypedConfig(f) /\ TypedConfig(e)
  BY LayersTyped DEF TypedConfig
<1> HIDE DEF start
<1> QED
  BY <1>1, <1>2, <1>3 DEF Overlay, TypedConfig

\* A load that succeeds met nothing that cannot be parsed.
LEMMA LoadedParses ==
    ASSUME NEW how, NEW f, NEW e, Loaded(how, f, e).err = NoError
    PROVE  \A x \in DOMAIN e : e[x] # Garbled
<1> DEFINE d == applyDefaults(config)
           r == loadFile(d.config, how, f)
           v == applyEnv(r.config, e)
           err == Wrap(Native("parse"), CodeInternalConfiguration)
           bad == {x \in DOMAIN e : e[x] = Garbled}
<1>1. v.err = NoError
  BY DEF Loaded
<1>2. v.err = IF bad = {} THEN NoError ELSE err
  BY DEF applyEnv, Result
<1>3. err # NoError
  BY WrapFails
<1>4. bad = {}
  <2> HIDE DEF v, err, bad
  <2> QED
    BY <1>1, <1>2, <1>3
<1> QED
  BY <1>4

\* The loader's struct is typed before Load,
LEMMA LoaderTypedInit == Init => LoaderTyped
<1> SUFFICES ASSUME Init PROVE TypedConfig(preset)
  BY DEF Init, LoaderTyped
<1>1. PICK c \in {[f \in Fields(kind) |-> Zero(f)], DefaultConfig(kind)} :
          preset \in {c, InService(c)}
  BY DEF Init
<1>2. TypedConfig(c)
  <2>1. CASE c = [f \in Fields(kind) |-> Zero(f)]
    BY <2>1, DefaultsPositive DEF TypedConfig
  <2>2. CASE c = DefaultConfig(kind)
    BY <2>2, DefaultsPositive DEF DefaultConfig, TypedConfig
  <2> QED
    BY <1>1, <2>1, <2>2
<1>3. "app" \notin Numbers
  BY DEF Numbers
<1> QED
  BY <1>1, <1>2, <1>3 DEF InService, TypedConfig

\* and after a Load that succeeded.
LEMMA LoadTyped == LoaderInv /\ LoaderTyped /\ Load => LoaderTyped'
<1> SUFFICES ASSUME LoaderInv, LoaderTyped, Load PROVE LoaderTyped'
  OBVIOUS
<1>1. /\ kind \in Kinds /\ config = preset /\ IsStruct(preset) /\ TypedConfig(preset)
      /\ kind' = kind /\ preset' = preset
  BY DEF LoaderInv, LoaderTyped, Load
<1>2. PICK how \in {"no", "file", "field"}, f \in Files, e \in Envs :
          /\ config' = Loaded(how, f, e).config
          /\ loading' = IF Loaded(how, f, e).err = NoError THEN "ok" ELSE "failed"
  BY DEF Load
<1>3. CASE Loaded(how, f, e).err # NoError
  BY <1>2, <1>3 DEF LoaderTyped
<1>4. CASE Loaded(how, f, e).err = NoError
  <2> DEFINE m == Merged(f, e)
  <2>1. Loaded(how, f, e) = validate(m)
    BY <1>1, <1>4, LoadedMerges
  <2>2. TypedConfig(m) /\ m = [x \in DOMAIN m |-> m[x]] /\ DOMAIN m = DOMAIN preset
    BY <1>1, <1>4, LoadedParses, MergedTyped
  <2> HIDE DEF m
  <2>3. CASE Nested
    <3>1. validate(m).config = m
      BY <2>2, <2>3 DEF validate, Result, Nested
    <3> QED
      BY <1>2, <1>4, <2>1, <2>2, <3>1 DEF LoaderTyped
  <2>4. CASE ~Nested
    <3>1. validate(m).config = Validate(kind, m).config
      BY <2>2, <2>4 DEF validate, Result, Nested
    <3>2. Completes(Validate(kind, m).config, m)
      BY <1>1, <2>2, ValidateCompletes
    <3>3. TypedConfig(Validate(kind, m).config)
      BY <2>2, <3>2, CompletesTyped
    <3> QED
      BY <1>2, <1>4, <2>1, <3>1, <3>3 DEF LoaderTyped
  <2> QED
    BY <2>3, <2>4
<1> QED
  BY <1>3, <1>4

\* A struct that was loaded has the fields of its kind.
LEMMA LoadedFields == LoaderInv /\ loading = "ok" => Fields(kind) \subseteq DOMAIN config
<1> SUFFICES ASSUME LoaderInv, loading = "ok" PROVE Fields(kind) \subseteq DOMAIN config
  OBVIOUS
<1>1. CASE ~Nested
  BY <1>1, LoadedIsStable
<1>2. CASE Nested
  <2> DEFINE m == Merged(file, env)
  <2>1. IsStruct(preset) /\ config = validate(m).config
    BY DEF LoaderInv
  <2>2. DOMAIN m = DOMAIN preset
    BY <2>1, MergedLayers
  <2> HIDE DEF m
  <2>3. config = m
    BY <1>2, <2>1, <2>2 DEF validate, Result, Nested
  <2> QED
    BY <1>2, <2>1, <2>2, <2>3 DEF IsStruct
<1> QED
  BY <1>1, <1>2

\* The settings of a driver while NewClient waits for its sign of life.
SettingsInv ==
    /\ LoaderTyped
    /\ main.pc = "ping" => Sane(kind, cfg) /\ TypedConfig(cfg) /\ DOMAIN cfg = Fields(kind)

\* NewClient opens a driver with settings that are in order, whoever loaded them.
LEMMA MakeClientSettings ==
    ASSUME ServiceInv, SettingsInv, MakeClient
    PROVE  SettingsInv'
<1> DEFINE c == [f \in Fields(kind) |-> config[f]]
           v == Validate(kind, c)
<1>1. PICK ctx \in {"none", "armed"} : Client!NewClient(ctx, c)
  BY DEF MakeClient
<1>2. /\ kind \in Kinds /\ kind' = kind /\ loading = "ok" /\ UNCHANGED loader
      /\ main = [pc |-> main.pc, ctx |-> main.ctx, err |-> main.err]
  BY <1>1 DEF ServiceInv, LoaderInv, MainInv, MakeClient, loader
<1>3. TypedConfig(c)
  <2>1. Fields(kind) \subseteq DOMAIN config /\ TypedConfig(config)
    BY <1>2, LoadedFields DEF ServiceInv, SettingsInv, LoaderTyped
  <2> QED
    BY <2>1 DEF TypedConfig
<1>4. LoaderTyped'
  BY <1>2 DEF SettingsInv, LoaderTyped, TypedConfig, loader
<1>5. main'.pc = "ping" => v.ok /\ cfg' = v.config
  <2> DEFINE errors == IF v.ok THEN Client!CreationErrors(v.config)
                       ELSE {Client!Wrap(Client!Native("config"), Client!CodeValidation)}
  <2>1. Client!Validate(kind, c) = v
    BY SameConfigs
  <2>2. PICK err \in errors :
           IF err = Client!NoError THEN cfg' = v.config
           ELSE main' = [main EXCEPT !.pc = "end", !.err = err]
    <3> HIDE DEF v, c
    <3> QED
      BY <1>1, <2>1 DEF Client!NewClient
  <2>3. CASE err = Client!NoError
    <3>1. v.ok
      <4>1. Client!Wrap(Client!Native("config"), Client!CodeValidation) # Client!NoError
        BY WrapFails, SameErrors
      <4> HIDE DEF v
      <4> QED
        BY <2>2, <2>3, <4>1
    <3> HIDE DEF v
    <3> QED
      BY <2>2, <2>3, <3>1
  <2>4. CASE err # Client!NoError
    BY <1>2, <2>2, <2>4
  <2> QED
    BY <2>3, <2>4
<1>6. v.ok => Sane(kind, v.config) /\ TypedConfig(v.config) /\ DOMAIN v.config = Fields(kind)
  <2>1. DOMAIN c = Fields(kind) /\ c = [f \in DOMAIN c |-> c[f]]
    OBVIOUS
  <2> HIDE DEF c
  <2> QED
    BY <1>2, <1>3, <2>1, ValidatedSane
<1> HIDE DEF v
<1> QED
  BY <1>2, <1>4, <1>5, <1>6 DEF SettingsInv

\* No other step opens a driver with a configuration.
LEMMA SettingsStep == ServiceInv /\ SettingsInv /\ [ServiceNext]_service => SettingsInv'
<1> SUFFICES ASSUME ServiceInv, SettingsInv, [ServiceNext]_service PROVE SettingsInv'
  OBVIOUS
<1>1. main = [pc |-> main.pc, ctx |-> main.ctx, err |-> main.err]
  BY DEF ServiceInv, MainInv
<1>2. ASSUME LoaderTyped', kind' = kind, cfg' = cfg, main'.pc = main.pc \/ main'.pc # "ping"
      PROVE  SettingsInv'
  BY <1>2 DEF SettingsInv
<1>3. ASSUME UNCHANGED loader PROVE LoaderTyped' /\ kind' = kind
  BY <1>3 DEF SettingsInv, LoaderTyped, TypedConfig, loader
<1>4. CASE LoadConfig
  <2>1. LoaderTyped' /\ kind' = kind
    BY <1>4, LoadTyped DEF ServiceInv, SettingsInv, LoadConfig, Load
  <2> QED
    BY <1>2, <1>4, <2>1 DEF LoadConfig
<1>5. CASE MakeClient
  BY <1>5, MakeClientSettings
<1>6. ASSUME DropConfig, main'.pc # "ping"
      PROVE  SettingsInv'
  BY <1>6 DEF DropConfig, SettingsInv, LoaderTyped
<1>7. CASE AdoptDriver
  BY <1>1, <1>6, <1>7 DEF AdoptDriver, Client!NewFrom
<1>8. CASE ClientMade
  <2>1. main'.pc # "ping"
    <3>1. Client!PingSucceeds => main'.pc # "ping"
      BY <1>1 DEF Client!PingSucceeds
    <3>2. \A root : Client!PingFails(root) => main'.pc # "ping"
      BY DEF Client!PingFails
    <3> QED
      BY <1>8, <3>1, <3>2 DEF ClientMade, Client!PingGivesUp
  <2> QED
    BY <1>6, <1>8, <2>1 DEF ClientMade
<1>9. CASE (Client!MainExpires \/ Client!MainCanceled \/ Client!Close \/ Client!Closed)
           /\ UNCHANGED loader
  <2>1. cfg' = cfg
    BY <1>9 DEF Client!MainExpires, Client!MainCanceled, Client!Close, Client!Closed
  <2>2. main'.pc = main.pc \/ main'.pc # "ping"
    BY <1>1, <1>9, ClosingStep DEF Client!MainExpires, Client!MainCanceled
  <2> QED
    BY <1>2, <1>3, <1>9, <2>1, <2>2
<1>10. ASSUME NEW g \in Goroutines, Client!Use(g), UNCHANGED loader
       PROVE  SettingsInv'
  <2>1. cfg' = cfg /\ main' = main
    BY <1>10 DEF Client!Use, Client!Begin, Client!HandOut, Client!Acquire, Client!Collect,
         Client!Repeat, Client!ServerAnswers, Client!GiveUp, Client!Rejected,
         Client!Return, Client!Expire, Client!Cancel, Client!Release
  <2> QED
    BY <1>2, <1>3, <1>10, <2>1
<1>11. CASE UNCHANGED service
  BY <1>2, <1>3, <1>11 DEF service
<1> QED
  BY <1>4, <1>5, <1>7, <1>8, <1>9, <1>10, <1>11 DEF ServiceNext

LEMMA SettingsInvariant == ServiceSpec => []SettingsInv
<1>1. ServiceInit => SettingsInv
  BY LoaderTypedInit DEF ServiceInit, Client!Init, SettingsInv
<1> QED
  BY <1>1, ServiceInvariant, SettingsStep, PTL DEF ServiceSpec

\* Whatever the file and the environment say and whatever the limits are, a
\* driver is only opened with the limits of its pool in order, every default
\* applied, and a bound on the time to connect that is at most rounded away
\* (postgres/config.go:428-447, 471).
THEOREM ServiceSaneSettings == ServiceSpec => []SaneSettings
<1>1. ServiceInv /\ SettingsInv => SaneSettings
  <2> SUFFICES ASSUME ServiceInv, SettingsInv, main.pc = "ping" PROVE SaneSettings
    BY DEF SaneSettings, Client!SaneSettings
  <2>1. Sane(kind, cfg) /\ TypedConfig(cfg) /\ DOMAIN cfg = Fields(kind)
    BY DEF SettingsInv
  <2>2. Client!Numbers = Numbers
    BY DEF Client!Numbers, Numbers
  <2>3. ASSUME kind \in {"postgres", "redis", "neo4j"}, cfg["uri"] = ""
        PROVE  LET t == Client!PoolSettings(kind, cfg)
               IN  /\ 1 <= t.max /\ 0 <= t.min /\ t.min <= t.max
                   /\ t.connect = "unbounded" => cfg["timeout"] \in 1..(Second - 1)
    <3> DEFINE t == Client!PoolSettings(kind, cfg)
    <3>1. /\ cfg["max"] >= 1 /\ cfg["timeout"] > 0
          /\ kind # "neo4j" => cfg["min"] >= 0 /\ cfg["max"] >= cfg["min"]
      BY <2>1, <2>3 DEF Sane
    <3>2. /\ cfg["max"] \in Int /\ cfg["timeout"] \in Int
          /\ kind # "neo4j" => cfg["min"] \in Int
      <4>1. {"max", "timeout", "min"} \subseteq Numbers
        BY DEF Numbers
      <4> QED
        BY <2>1, <2>3, <4>1, NumbersOf DEF TypedConfig
    <3>3. t.max = cfg["max"] /\ t.min = IF kind = "neo4j" THEN 0 ELSE cfg["min"]
      BY DEF Client!PoolSettings
    <3>4. t.connect = "unbounded" => cfg["timeout"] \div Second = 0
      <4>1. t.connect = CASE kind = "postgres" /\ (cfg["uri"] # "" \/ cfg["timeout"] <= 0) -> "own"
                          [] kind = "postgres" /\ cfg["timeout"] \div Second = 0 -> "unbounded"
                          [] kind = "redis" /\ cfg["uri"] # "" /\ cfg["timeout"] <= 0 -> "own"
                          [] OTHER -> IF cfg["timeout"] > 0 THEN "bounded" ELSE "unbounded"
        BY DEF Client!PoolSettings, Client!ConnectTimeout
      <4> HIDE DEF t
      <4> QED
        BY <2>3, <3>1, <4>1
    <3>5. cfg["timeout"] \div Second = 0 => cfg["timeout"] < Second
      BY <3>1, <3>2, ClientConfigConstants
    <3> HIDE DEF t
    <3>6. 1 <= t.max /\ 0 <= t.min /\ t.min <= t.max
      BY <3>1, <3>2, <3>3
    <3>7. t.connect = "unbounded" => cfg["timeout"] \in 1..(Second - 1)
      BY <3>1, <3>2, <3>4, <3>5, ClientConfigConstants
    <3> QED
      BY <3>6, <3>7 DEF t
  <2>4. /\ \A f \in DOMAIN cfg : f \in Numbers \ {"port"} => cfg[f] # 0
        /\ kind = "qdrant" => cfg["timeout"] > 0
    BY <2>1 DEF Sane
  <2> QED
    BY <2>2, <2>3, <2>4 DEF SaneSettings, Client!SaneSettings
<1> QED
  BY <1>1, ServiceInvariant, SettingsInvariant, PTL
\* What Load's validation accepted, that of NewClient accepts and leaves as it is
\* (config/loader.go:156, postgres/client.go:147); NewClient then refuses it only
\* for an odd URI, certificates that are none, a limit below one next to a URI
\* or an unknown scheme, or where the library of qdrant or minio does.
THEOREM ServiceAcceptedIsStable == ServiceSpec => []AcceptedIsStable
<1>1. ServiceInv /\ SettingsInv => AcceptedIsStable
  <2> SUFFICES ASSUME ServiceInv, SettingsInv PROVE AcceptedIsStable
    OBVIOUS
  <2>1. loading = "ok" /\ ~Nested => Validate(kind, config) = Verdict(config, TRUE)
    BY LoadedIsStable DEF ServiceInv
  <2>2. main.err.root = "config" => Nested
    BY DEF ServiceInv, MainInv
  <2>3. ASSUME loading = "ok", ~Nested, main.pc = "end" PROVE LeftToDriver(config)
    <3>1. RefusedLater(config)
      BY <2>3 DEF ServiceInv, MainInv
    <3>2. kind = "postgres" => config.max \in Int
      <4> SUFFICES ASSUME kind = "postgres" PROVE config.max \in Int
        OBVIOUS
      <4>1. "max" \in Fields(kind) /\ "max" \in Numbers
        BY NumbersOf DEF Numbers
      <4>2. TypedConfig(config) /\ DOMAIN config = Fields(kind)
        BY <2>3, LoadedIsStable DEF ServiceInv, SettingsInv, LoaderTyped
      <4> QED
        BY <4>1, <4>2 DEF TypedConfig
    <3> QED
      BY <3>1, <3>2 DEF RefusedLater
  <2> QED
    BY <2>1, <2>2, <2>3 DEF AcceptedIsStable
<1> QED
  BY <1>1, ServiceInvariant, SettingsInvariant, PTL

-----------------------------------------------------------------------------
\* The types of the client; a driver is closing while a Close waits for it.
DriverTyped ==
    /\ driver \in {"none", "open", "closing", "closed"}
    /\ driver = "closing" <=> main.pc = "close"
    /\ client = Client!NoClient \/ (client.limit \in Int /\ client.timeout \in Nat)

CallsTyped ==
    /\ \A g \in Goroutines :
          /\ call[g].pc \in {"idle", "acquire", "sent", "collect"}
          /\ call[g].ctx \in {"none", "armed", "expired", "canceled"}
          /\ call[g].shape \in Client!Shapes(kind) \cup {"none"}
    /\ leases \subseteq Goroutines

\* The main goroutine keeps the types of the driver and the client.
LEMMA DriverStep ==
    ASSUME ServiceInv, SettingsInv, DriverTyped, [ServiceNext]_service
    PROVE  DriverTyped'
<1>1. /\ main = [pc |-> main.pc, ctx |-> main.ctx, err |-> main.err]
      /\ main.pc # "close" => driver # "closing"
  BY DEF ServiceInv, MainInv, DriverTyped
<1>2. ASSUME main'.pc = main.pc, driver' = driver, client' = client
      PROVE  DriverTyped'
  BY <1>2 DEF DriverTyped
<1>3. CASE MakeClient
  <2>1. /\ main.pc = "start" /\ client' = client
        /\ \/ driver' = "open" /\ main'.pc = "ping"
           \/ driver' = driver /\ main'.pc = "end"
    <3>1. PICK ctx, c : Client!NewClient(ctx, c)
      BY <1>3 DEF MakeClient
    <3> DEFINE v == Client!Validate(kind, c)
    <3>2. PICK err \in IF v.ok THEN Client!CreationErrors(v.config)
                       ELSE {Client!Wrap(Client!Native("config"), Client!CodeValidation)} :
             \/ driver' = "open" /\ main' = [main EXCEPT !.pc = "ping",
                                                 !.ctx = Client!FirstDeadline(ctx, v.config)]
             \/ driver' = driver /\ main' = [main EXCEPT !.pc = "end", !.err = err]
      BY <3>1 DEF Client!NewClient
    <3> HIDE DEF v
    <3>3. main.pc = "start" /\ client' = client
      BY <3>1 DEF Client!NewClient
    <3> QED
      BY <1>1, <3>2, <3>3
  <2> QED
    BY <1>1, <2>1 DEF DriverTyped
<1>4. CASE AdoptDriver
  <2>1. PICK limit \in {1, DefaultMax} : Client!NewFrom(limit)
    BY <1>4 DEF AdoptDriver
  <2>2. limit \in Int
    BY ClientConfigConstants
  <2>3. /\ client'.limit = (IF kind = "postgres" THEN limit ELSE 0) /\ client'.timeout = 0
        /\ driver' = "open" /\ main' = [main EXCEPT !.pc = "serve"]
    BY <2>1 DEF Client!NewFrom
  <2> QED
    BY <1>1, <2>2, <2>3 DEF DriverTyped
<1>5. CASE Client!PingSucceeds
  <2>1. /\ kind = "postgres" => cfg["max"] \in Int
        /\ kind = "qdrant" => cfg["timeout"] \in Nat
    <3>1. Sane(kind, cfg) /\ TypedConfig(cfg) /\ DOMAIN cfg = Fields(kind)
      BY <1>5 DEF SettingsInv, Client!PingSucceeds
    <3>2. kind = "qdrant" => cfg["timeout"] \in Int /\ cfg["timeout"] > 0
      BY <3>1, NumbersOf DEF TypedConfig, Sane, Numbers
    <3> QED
      BY <3>1, <3>2, NumbersOf DEF TypedConfig, Numbers
  <2>2. /\ client'.limit = (IF kind = "postgres" THEN cfg["max"] ELSE 0)
        /\ client'.timeout = (IF kind = "qdrant" THEN cfg["timeout"] ELSE 0)
    BY <1>5 DEF Client!PingSucceeds, Client!PoolSettings
  <2>3. client'.limit \in Int /\ client'.timeout \in Nat
    BY <2>1, <2>2
  <2>4. driver' = driver /\ main.pc = "ping" /\ main'.pc = "serve"
    BY <1>1, <1>5 DEF Client!PingSucceeds
  <2> QED
    BY <2>3, <2>4 DEF DriverTyped
<1>6. ASSUME NEW root, Client!PingFails(root) PROVE DriverTyped'
  <2>1. /\ main.pc = "ping" /\ main'.pc = "end" /\ client' = client
        /\ driver' \in {driver, "closed"}
    BY <1>6 DEF Client!PingFails
  <2> QED
    BY <1>1, <2>1 DEF DriverTyped
<1>7. CASE ClientMade
  BY <1>5, <1>6, <1>7 DEF ClientMade, Client!PingGivesUp
<1>8. CASE Client!Close \/ Client!Closed
  BY <1>1, <1>8, ClosingStep DEF DriverTyped
<1>10. CASE \/ LoadConfig \/ Client!MainExpires \/ Client!MainCanceled
           \/ UNCHANGED service
  BY <1>1, <1>2, <1>10 DEF LoadConfig, Client!MainExpires, Client!MainCanceled, service
<1>11. CASE \E g \in Goroutines : Client!Use(g)
  BY <1>2, <1>11 DEF Client!Use, Client!Begin, Client!HandOut, Client!Acquire, Client!Collect,
         Client!Repeat, Client!ServerAnswers, Client!GiveUp, Client!Rejected,
         Client!Return, Client!Expire, Client!Cancel, Client!Release
<1> QED
  BY <1>3, <1>4, <1>7, <1>8, <1>10, <1>11 DEF ServiceNext

\* So do the goroutines those of their operations.
LEMMA UseTyped ==
    ASSUME CallInv, CallsTyped, NEW g \in Goroutines, Client!Use(g)
    PROVE  CallsTyped'
<1>0. kind' = kind
  BY DEF Client!Use, Client!Begin, Client!HandOut, Client!Acquire, Client!Collect,
         Client!Repeat, Client!ServerAnswers, Client!GiveUp, Client!Rejected,
         Client!Return, Client!Expire, Client!Cancel, Client!Release
<1>1. ASSUME NEW new, call' = [call EXCEPT ![g] = new], leases' \subseteq Goroutines,
             new.pc \in {"idle", "acquire", "sent", "collect"},
             new.ctx \in {"none", "armed", "expired", "canceled"},
             new.shape \in Client!Shapes(kind) \cup {"none"}
      PROVE  CallsTyped'
  BY <1>0, <1>1 DEF CallInv, CallsTyped
<1>2. ASSUME NEW shape \in Client!Shapes(kind), NEW ctx \in {"none", "armed"},
             Client!Begin(g, shape, ctx)
      PROVE  CallsTyped'
  <2> DEFINE new == [Client!Idle EXCEPT
                       !.pc = IF kind = "postgres" THEN "acquire" ELSE "sent",
                       !.shape = shape,
                       !.ctx = IF shape = "health" THEN Client!HealthDeadline(ctx) ELSE ctx,
                       !.spans = 1,
                       !.session = Client!InSession(shape)]
  <2>1. call' = [call EXCEPT ![g] = new] /\ leases' = leases
    BY <1>2 DEF Client!Begin
  <2>2. Client!HealthDeadline(ctx) \in {"none", "armed", "expired", "canceled"}
    BY DEF Client!HealthDeadline, Client!Deadline
  <2>3. /\ new.pc \in {"idle", "acquire", "sent", "collect"}
        /\ new.ctx \in {"none", "armed", "expired", "canceled"}
        /\ new.shape = shape
    BY <2>2 DEF Client!Idle
  <2> HIDE DEF new
  <2> QED
    BY <1>1, <2>1, <2>3 DEF CallsTyped
<1>3. CASE Client!HandOut(g) \/ Client!Release(g)
  BY <1>0, <1>3 DEF CallsTyped, Client!HandOut, Client!Release
<1>4. ASSUME NEW pc \in {"sent", "collect"}, call' = [call EXCEPT ![g].pc = pc],
             leases' = leases
      PROVE  CallsTyped'
  BY <1>0, <1>4 DEF CallInv, CallsTyped
<1>5. ASSUME NEW ctx \in {"expired", "canceled"}, call' = [call EXCEPT ![g].ctx = ctx],
             leases' = leases
      PROVE  CallsTyped'
  BY <1>0, <1>5 DEF CallInv, CallsTyped
<1>6. CASE Client!Acquire(g) \/ Client!Collect(g) \/ Client!Repeat(g)
  BY <1>4, <1>6 DEF Client!Acquire, Client!Collect, Client!Repeat
<1>7. CASE Client!Expire(g) \/ Client!Cancel(g)
  BY <1>5, <1>7 DEF Client!Expire, Client!Cancel
<1>8. CASE Client!ServerAnswers(g) \/ Client!GiveUp(g) \/ Client!Rejected(g)
  <2>1. PICK root : Client!Return(g, root)
    BY <1>8 DEF Client!ServerAnswers, Client!GiveUp, Client!Rejected
  <2> DEFINE result == [Client!Idle EXCEPT
                           !.shape = call[g].shape,
                           !.err = Client!Outcome(call[g].shape,
                                      IF root = "nil" THEN Client!NoError
                                      ELSE Client!Native(root)),
                           !.spans = call[g].spans - 1]
  <2>2. call' = [call EXCEPT ![g] = result]
    BY <2>1 DEF Client!Return
  <2>3. leases' \subseteq Goroutines
    BY <2>1 DEF Client!Return, CallsTyped
  <2>4. result.pc = "idle" /\ result.ctx = "none" /\ result.shape = call[g].shape
    BY DEF Client!Idle
  <2> HIDE DEF result
  <2> QED
    BY <1>1, <2>2, <2>3, <2>4 DEF CallsTyped
<1> QED
  BY <1>2, <1>3, <1>6, <1>7, <1>8 DEF Client!Use

\* Steps that are not of an operation leave the calls and what they hold alone.
LEMMA BesideCalls ==
    ASSUME [ServiceNext]_service, ~\E g \in Goroutines : Client!Use(g)
    PROVE  call' = call /\ leases' = leases /\ kind' = kind
  BY DEF ServiceNext, LoadConfig, Load, MakeClient, AdoptDriver, ClientMade, service,
         loader, Client!NewClient, Client!NewFrom, Client!PingSucceeds, Client!PingFails,
         Client!PingGivesUp, Client!MainExpires, Client!MainCanceled, Client!Close,
         Client!Closed

Typed == DriverTyped /\ CallsTyped

LEMMA TypedInvariant == ServiceSpec => []Typed
<1>1. ServiceInit => Typed
  <2> SUFFICES ASSUME ServiceInit PROVE Typed
    OBVIOUS
  <2>1. DriverTyped
    BY DEF ServiceInit, Client!Init, DriverTyped
  <2>2. \A g \in Goroutines : call[g] = Client!Idle
    BY DEF ServiceInit, Client!Init
  <2>3. leases = {}
    BY DEF ServiceInit, Client!Init
  <2> QED
    BY <2>1, <2>2, <2>3 DEF Typed, CallsTyped, Client!Idle
<1>2. ServiceInv /\ SettingsInv /\ Typed /\ [ServiceNext]_service => Typed'
  <2> SUFFICES ASSUME ServiceInv, SettingsInv, Typed, [ServiceNext]_service
               PROVE  CallsTyped'
    BY DriverStep DEF Typed
  <2>1. CASE \E g \in Goroutines : Client!Use(g)
    BY <2>1, UseTyped DEF ServiceInv, Typed
  <2>2. CASE ~\E g \in Goroutines : Client!Use(g)
    <3>1. call' = call /\ leases' = leases /\ kind' = kind
      BY <2>2, BesideCalls
    <3> QED
      BY <3>1 DEF Typed, CallsTyped
  <2> QED
    BY <2>1, <2>2
<1> QED
  BY <1>1, <1>2, ServiceInvariant, SettingsInvariant, PTL DEF ServiceSpec

\* The client has its types, and a driver is closing exactly as long as a Close
\* waits for it (postgres/client.go:379-381), for any number of goroutines.
THEOREM ServiceTypeCorrect == ServiceSpec => []TypeOK
<1>1. ServiceInv /\ Typed => TypeOK
  BY SameConfigs DEF ServiceInv, LoaderInv, MainInv, Typed, DriverTyped, CallsTyped, TypeOK,
         Client!TypeOK
<1> QED
  BY <1>1, ServiceInvariant, TypedInvariant, PTL
-----------------------------------------------------------------------------
\* An error is codes of the table and a root.
WellFormed(err) ==
    /\ err = [codes |-> err.codes, root |-> err.root]
    /\ err.codes \in Seq(Client!Codes)

\* Errors of drivers are well formed, and so are wrapped ones.
LEMMA WrapWellFormed ==
    /\ WellFormed(Client!NoError)
    /\ \A root : WellFormed(Client!Native(root))
    /\ \A err, code : WellFormed(err) /\ code \in Client!Codes
                        => WellFormed(Client!Wrap(err, code))
<1>1. <<>> \in Seq(Client!Codes)
  OBVIOUS
<1>2. WellFormed(Client!NoError) /\ \A root : WellFormed(Client!Native(root))
  BY <1>1 DEF WellFormed, Client!NoError, Client!Native
<1>3. ASSUME NEW err, NEW code \in Client!Codes, WellFormed(err)
      PROVE  WellFormed(Client!Wrap(err, code))
  <2>1. CASE err = Client!NoError
    BY <1>2, <2>1 DEF Client!Wrap
  <2>2. CASE err # Client!NoError
    <3> DEFINE s == err.codes
    <3>1. Client!Wrap(err, code) = [err EXCEPT !.codes = <<code>> \o s]
      BY <2>2 DEF Client!Wrap
    <3>2. err = [codes |-> s, root |-> err.root] /\ s \in Seq(Client!Codes)
      BY <1>3 DEF WellFormed
    <3>3. <<code>> \o s \in Seq(Client!Codes)
      BY <3>2
    <3> HIDE DEF s
    <3>4. Client!Wrap(err, code) = [codes |-> <<code>> \o s, root |-> err.root]
      BY <3>1, <3>2
    <3> QED
      BY <3>3, <3>4 DEF WellFormed
  <2> QED
    BY <2>1, <2>2
<1> QED
  BY <1>2, <1>3

\* Wrapping an error puts its code in front and keeps its root.
LEMMA WrapInFront ==
    ASSUME NEW err, WellFormed(err), err # Client!NoError, NEW code \in Client!Codes
    PROVE  LET w == Client!Wrap(err, code)
           IN  /\ w # Client!NoError /\ w.root = err.root
               /\ Client!AsError(w) /\ Client!GetCode(w) = code
<1> DEFINE w == Client!Wrap(err, code)
           s == err.codes
<1>1. w = [err EXCEPT !.codes = <<code>> \o s]
  BY DEF Client!Wrap
<1>2. err = [codes |-> s, root |-> err.root] /\ s \in Seq(Client!Codes)
  BY DEF WellFormed
<1>3. <<code>> \o s # <<>> /\ Head(<<code>> \o s) = code
  BY <1>2
<1> HIDE DEF w, s
<1>4. w.codes = <<code>> \o s /\ w.root = err.root
  BY <1>1, <1>2
<1>5. w # Client!NoError
  BY <1>3, <1>4 DEF Client!NoError
<1>6. Client!AsError(w) /\ Client!GetCode(w) = code
  BY <1>3, <1>4 DEF Client!AsError, Client!GetCode
<1> QED
  BY <1>4, <1>5, <1>6 DEF w

\* The codes that errors are wrapped with are in the table.
LEMMA CodesKnown ==
    /\ {Client!CodeValidation, Client!CodeInternal, Client!CodeInternalDatabase,
        Client!CodeInternalConfiguration, Client!CodeUnavailableDependency,
        Client!CodeTimeoutDatabase} \subseteq Client!Codes
    /\ \A code \in Client!Codes : code[1] \in Client!Categories
  BY DEF Client!Codes, Client!Categories, Client!CodeValidation, Client!CodeInternal,
         Client!CodeInternalDatabase, Client!CodeInternalConfiguration,
         Client!CodeUnavailableDependency, Client!CodeTimeoutDatabase

\* The table of statuses goes with the classes (errors/codes.go:14-23).
LEMMA ClassOfStatus ==
    ASSUME NEW err, WellFormed(err), err # Client!NoError, NEW code \in Client!Codes
    PROVE  LET w == Client!Wrap(Client!FromError(err), code)
           IN  /\ Client!GetCode(w) = code /\ Client!Is(w, err.root)
               /\ Client!IsClientError(w) <=> Client!HTTPStatus(w) < 500
               /\ Client!IsServerError(w) <=> Client!HTTPStatus(w) >= 500
               /\ Client!IsRetryable(w) <=> Client!HTTPStatus(w) \in {503, 504}
<1> DEFINE from == Client!FromError(err)
           w == Client!Wrap(from, code)
<1>1. WellFormed(from) /\ from # Client!NoError /\ from.root = err.root
  <2>1. CASE Client!AsError(err)
    BY <2>1 DEF Client!FromError
  <2>2. CASE ~Client!AsError(err)
    <3>1. from = Client!Wrap(err, Client!CodeInternal)
      BY <2>2 DEF Client!FromError
    <3>2. Client!CodeInternal \in Client!Codes
      BY CodesKnown
    <3>3. WellFormed(Client!Wrap(err, Client!CodeInternal))
      BY <3>2, WrapWellFormed
    <3>4. /\ Client!Wrap(err, Client!CodeInternal) # Client!NoError
          /\ Client!Wrap(err, Client!CodeInternal).root = err.root
      BY <3>2, WrapInFront
    <3> HIDE DEF from
    <3> QED
      BY <3>1, <3>3, <3>4
  <2> QED
    BY <2>1, <2>2
<1> HIDE DEF from
<1>2. /\ w.root = err.root
      /\ Client!AsError(w) /\ Client!GetCode(w) = code
  BY <1>1, WrapInFront
<1> HIDE DEF w
<1>3. Client!Category(w) = code[1] /\ code[1] \in Client!Categories
  BY <1>2, CodesKnown DEF Client!Category
<1>4. /\ Client!IsClientError(w) <=> Client!HTTPStatus(w) < 500
      /\ Client!IsServerError(w) <=> Client!HTTPStatus(w) >= 500
      /\ Client!IsRetryable(w) <=> Client!HTTPStatus(w) \in {503, 504}
  BY <1>2, <1>3 DEF Client!IsClientError, Client!IsServerError, Client!IsRetryable,
         Client!HTTPStatus, Client!Categories
<1> QED
  BY <1>2, <1>4 DEF w, from, Client!Is

\* The errors that the service holds are well formed.
ErrorsInv ==
    /\ WellFormed(main.err)
    /\ \A g \in Goroutines : WellFormed(call[g].err)

\* Whatever an operation ends with,
LEMMA OutcomeWellFormed ==
    ASSUME NEW shape, NEW err, WellFormed(err)
    PROVE  WellFormed(Client!Outcome(shape, err))
<1>1. Client!Outcome(shape, err) \in
         {Client!Wrap(err, Client!CodeUnavailableDependency), Client!NoError,
          Client!Wrap(err, Client!CodeTimeoutDatabase),
          Client!Wrap(err, Client!CodeInternalDatabase)}
  BY DEF Client!Outcome, Client!wrapError
<1> QED
  BY <1>1, CodesKnown, WrapWellFormed

\* NewClient with,
LEMMA CreationWellFormed ==
    ASSUME NEW c, NEW err \in Client!CreationErrors(c), kind \in Kinds
    PROVE  WellFormed(err)
<1> DEFINE E(root, code) == Client!Wrap(Client!Native(root), code)
<1>1. /\ WellFormed(E("parse", Client!CodeValidation))
      /\ WellFormed(E("tls", Client!CodeInternalConfiguration))
      /\ WellFormed(E("settings", Client!CodeUnavailableDependency))
      /\ WellFormed(E("create", Client!CodeInternalDatabase))
      /\ WellFormed(E("create", Client!CodeUnavailableDependency))
      /\ WellFormed(Client!NoError)
  BY CodesKnown, WrapWellFormed
<1>2. err \in {E("parse", Client!CodeValidation),
               E("tls", Client!CodeInternalConfiguration),
               E("settings", Client!CodeUnavailableDependency),
               E("create", Client!CodeInternalDatabase),
               E("create", Client!CodeUnavailableDependency), Client!NoError}
  <2>1. CASE kind = "postgres"
    BY <2>1 DEF Client!CreationErrors, Client!PostgresCreation
  <2>2. CASE kind = "redis"
    BY <2>2 DEF Client!CreationErrors, Client!RedisCreation
  <2>3. CASE kind = "neo4j"
    BY <2>3 DEF Client!CreationErrors, Client!Neo4jCreation
  <2>4. CASE kind = "qdrant"
    BY <2>4 DEF Client!CreationErrors, Client!QdrantCreation
  <2>5. CASE kind = "minio"
    BY <2>5 DEF Client!CreationErrors, Client!MinioCreation
  <2> QED
    BY <2>1, <2>2, <2>3, <2>4, <2>5 DEF Kinds
<1> QED
  BY <1>1, <1>2

\* and the main goroutine with,
LEMMA MainStepWellFormed ==
    ASSUME ServiceInv, ErrorsInv, [ServiceNext]_service
    PROVE  WellFormed(main.err)'
<1>1. main = [pc |-> main.pc, ctx |-> main.ctx, err |-> main.err] /\ kind \in Kinds
  BY DEF ServiceInv, MainInv, LoaderInv
<1>2. CASE main'.err = main.err
  BY <1>2 DEF ErrorsInv
<1>3. CASE MakeClient
  <2>1. PICK ctx, c : Client!NewClient(ctx, c)
    BY <1>3 DEF MakeClient
  <2> DEFINE v == Client!Validate(kind, c)
             refused == Client!Wrap(Client!Native("config"), Client!CodeValidation)
  <2>2. PICK err \in IF v.ok THEN Client!CreationErrors(v.config) ELSE {refused} :
           \/ main' = [main EXCEPT !.pc = "ping", !.ctx = Client!FirstDeadline(ctx, v.config)]
           \/ main' = [main EXCEPT !.pc = "end", !.err = err]
    BY <2>1 DEF Client!NewClient
  <2>3. WellFormed(refused)
    BY CodesKnown, WrapWellFormed
  <2> HIDE DEF v, refused
  <2>4. WellFormed(err)
    BY <1>1, <2>2, <2>3, CreationWellFormed
  <2> QED
    BY <1>1, <2>2, <2>4 DEF ErrorsInv
<1>4. CASE ClientMade
  <2>1. ASSUME NEW root, Client!PingFails(root) PROVE WellFormed(main.err)'
    <3> DEFINE err == Client!Wrap(Client!Native(root), Client!CodeUnavailableDependency)
    <3>1. WellFormed(err)
      BY CodesKnown, WrapWellFormed
    <3>2. main'.err = err
      BY <2>1 DEF Client!PingFails
    <3> HIDE DEF err
    <3> QED
      BY <3>1, <3>2
  <2>2. CASE Client!PingSucceeds
    BY <1>1, <1>2, <2>2 DEF Client!PingSucceeds
  <2> QED
    BY <1>4, <2>1, <2>2 DEF ClientMade, Client!PingGivesUp
<1>5. CASE Client!Close \/ Client!Closed
  <2>1. WellFormed(Client!Wrap(Client!Native("close"), Client!CodeInternalDatabase))
    BY CodesKnown, WrapWellFormed
  <2>2. \A err \in Client!CloseErrors : WellFormed(err)
    BY <2>1, WrapWellFormed DEF Client!CloseErrors, Client!Neo4jCloseErrors
  <2> QED
    BY <1>1, <1>2, <1>5, <2>2, ClosingStep DEF ErrorsInv
<1>6. CASE \E g \in Goroutines : Client!Use(g)
  BY <1>2, <1>6 DEF Client!Use, Client!Begin, Client!HandOut, Client!Acquire, Client!Collect,
         Client!Repeat, Client!ServerAnswers, Client!GiveUp, Client!Rejected,
         Client!Return, Client!Expire, Client!Cancel, Client!Release
<1>7. CASE LoadConfig \/ AdoptDriver \/ UNCHANGED service
  BY <1>1, <1>2, <1>7 DEF LoadConfig, AdoptDriver, Client!NewFrom, service
<1>8. CASE Client!MainExpires \/ Client!MainCanceled
  BY <1>1, <1>2, <1>8 DEF Client!MainExpires, Client!MainCanceled
<1> QED
  BY <1>3, <1>4, <1>5, <1>6, <1>7, <1>8 DEF ServiceNext

\* and a goroutine with.
LEMMA UseWellFormed ==
    ASSUME CallInv, ErrorsInv, NEW g \in Goroutines, Client!Use(g)
    PROVE  \A h \in Goroutines : WellFormed(call[h].err)'
<1>1. ASSUME NEW new, call' = [call EXCEPT ![g] = new], WellFormed(new.err)
      PROVE  \A h \in Goroutines : WellFormed(call[h].err)'
  BY <1>1 DEF CallInv, ErrorsInv
<1>2. ASSUME NEW shape, NEW ctx, Client!Begin(g, shape, ctx)
      PROVE  \A h \in Goroutines : WellFormed(call[h].err)'
  <2> DEFINE new == [Client!Idle EXCEPT
                       !.pc = IF kind = "postgres" THEN "acquire" ELSE "sent",
                       !.shape = shape,
                       !.ctx = IF shape = "health" THEN Client!HealthDeadline(ctx) ELSE ctx,
                       !.spans = 1,
                       !.session = Client!InSession(shape)]
  <2>1. call' = [call EXCEPT ![g] = new]
    BY <1>2 DEF Client!Begin
  <2>2. new.err = Client!NoError
    BY DEF Client!Idle
  <2> HIDE DEF new
  <2> QED
    BY <1>1, <2>1, <2>2, WrapWellFormed
<1>3. CASE Client!HandOut(g) \/ Client!Release(g)
  BY <1>3 DEF ErrorsInv, Client!HandOut, Client!Release
<1>4. ASSUME NEW pc, call' = [call EXCEPT ![g].pc = pc]
      PROVE  \A h \in Goroutines : WellFormed(call[h].err)'
  BY <1>4 DEF CallInv, ErrorsInv
<1>5. ASSUME NEW ctx, call' = [call EXCEPT ![g].ctx = ctx]
      PROVE  \A h \in Goroutines : WellFormed(call[h].err)'
  BY <1>5 DEF CallInv, ErrorsInv
<1>6. CASE Client!Acquire(g) \/ Client!Collect(g) \/ Client!Repeat(g)
  BY <1>4, <1>6 DEF Client!Acquire, Client!Collect, Client!Repeat
<1>7. CASE Client!Expire(g) \/ Client!Cancel(g)
  BY <1>5, <1>7 DEF Client!Expire, Client!Cancel
<1>8. CASE Client!ServerAnswers(g) \/ Client!GiveUp(g) \/ Client!Rejected(g)
  <2>1. PICK root : Client!Return(g, root)
    BY <1>8 DEF Client!ServerAnswers, Client!GiveUp, Client!Rejected
  <2> DEFINE err == IF root = "nil" THEN Client!NoError ELSE Client!Native(root)
             result == [Client!Idle EXCEPT
                           !.shape = call[g].shape,
                           !.err = Client!Outcome(call[g].shape, err),
                           !.spans = call[g].spans - 1]
  <2>2. call' = [call EXCEPT ![g] = result]
    BY <2>1 DEF Client!Return
  <2>3. result.err = Client!Outcome(call[g].shape, err)
    BY DEF Client!Idle
  <2>4. WellFormed(err)
    BY WrapWellFormed
  <2> HIDE DEF result, err
  <2> QED
    BY <1>1, <2>2, <2>3, <2>4, OutcomeWellFormed
<1> QED
  BY <1>2, <1>3, <1>6, <1>7, <1>8 DEF Client!Use

\* However an error came about and however it is wrapped on its way out, the
\* class it is in and the status it is answered with agree, and its root is kept
\* (errors/codes.go:14-23).
THEOREM ServiceStatusMatchesClass == ServiceSpec => []StatusMatchesClass
<1>1. ServiceInit => ErrorsInv
  <2> SUFFICES ASSUME ServiceInit PROVE ErrorsInv
    OBVIOUS
  <2>1. main.err = Client!NoError
    BY DEF ServiceInit, Client!Init
  <2>2. \A g \in Goroutines : call[g].err = Client!NoError
    BY DEF ServiceInit, Client!Init, Client!Idle
  <2> QED
    BY <2>1, <2>2, WrapWellFormed DEF ErrorsInv
<1>2. ServiceInv /\ ErrorsInv /\ [ServiceNext]_service => ErrorsInv'
  <2> SUFFICES ASSUME ServiceInv, ErrorsInv, [ServiceNext]_service
               PROVE  \A g \in Goroutines : WellFormed(call[g].err)'
    BY MainStepWellFormed DEF ErrorsInv
  <2>1. CASE \E g \in Goroutines : Client!Use(g)
    BY <2>1, UseWellFormed DEF ServiceInv
  <2>2. CASE ~\E g \in Goroutines : Client!Use(g)
    <3>1. call' = call
      BY <2>2 DEF ServiceNext, LoadConfig, MakeClient, AdoptDriver, ClientMade, service,
           Client!NewClient, Client!NewFrom, Client!PingSucceeds, Client!PingFails,
           Client!PingGivesUp, Client!MainExpires, Client!MainCanceled, Client!Close,
           Client!Closed
    <3> QED
      BY <3>1 DEF ErrorsInv
  <2> QED
    BY <2>1, <2>2
<1>3. ErrorsInv => StatusMatchesClass
  BY ClassOfStatus DEF ErrorsInv, StatusMatchesClass, Client!StatusMatchesClass
<1> QED
  BY <1>1, <1>2, <1>3, ServiceInvariant, PTL DEF ServiceSpec
-----------------------------------------------------------------------------
(* The driver as a handle. *)

\* An operation is only there with a client, and only if it has a session does it
\* come to collect its results.
Served(g) ==
    /\ call[g].pc # "idle" => client # Client!NoClient
    /\ call[g].pc = "collect" => Client!InSession(call[g].shape)

\* Besides, what the limit of a pool is made of is positive.
HandleInv ==
    /\ kind = "postgres" /\ main.pc = "ping" => cfg["max"] \in Nat \ {0}
    /\ kind = "postgres" /\ client # Client!NoClient => client.limit \in Nat \ {0}
    /\ \A g \in Goroutines : Served(g)

\* The goroutines whose statement is with the server.
Sent == {g \in Goroutines : call[g].pc = "sent"}

LEMMA InUseIs == Client!InUse = Cardinality(leases) + Cardinality(Sent)
<1>1. \A S : Client!Cardinality(S) = Cardinality(S)
  BY Zenon DEF Client!Cardinality, Cardinality
<1> QED
  BY <1>1 DEF Client!InUse, Sent

\* Only postgres counts connections, and it has no sessions.
LEMMA PostgresHasNoSessions ==
    ASSUME kind = "postgres", NEW shape \in Client!Shapes(kind) \cup {"none"}
    PROVE  ~Client!InSession(shape) /\ shape # "session"
<1>1. Client!Shapes("postgres") = {"command", "lease", "lazy", "health"}
  BY DEF Client!Shapes, Client!Operations, Client!PostgresOperations
<1> QED
  BY <1>1 DEF Client!InSession

\* A step of a goroutine changes its own part of Sent.
LEMMA SentAfter ==
    ASSUME CallInv, NEW g \in Goroutines, NEW new, call' = [call EXCEPT ![g] = new]
    PROVE  Sent' = IF new.pc = "sent" THEN Sent \cup {g} ELSE Sent \ {g}
  BY DEF CallInv, Sent

\* What an operation borrows it borrows of an open pool that has room, and what
\* a call leaves in the hands of its caller it has borrowed before.
LEMMA UseLends ==
    ASSUME IsFiniteSet(Goroutines), CallInv, CallsTyped, HandleInv, kind = "postgres",
           NEW g \in Goroutines, Client!Use(g)
    PROVE  LET n == Client!InUse
           IN  \/ n' = n
               \/ driver = "open" /\ n < Lendable /\ n' = n + 1
               \/ n > 0 /\ n' = n - 1
<1> DEFINE L == Cardinality(leases)
           S == Cardinality(Sent)
<1>1. IsFiniteSet(leases) /\ IsFiniteSet(Sent) /\ L \in Nat /\ S \in Nat
  <2>1. leases \subseteq Goroutines /\ Sent \subseteq Goroutines
    BY DEF CallsTyped, Sent
  <2>2. IsFiniteSet(leases) /\ IsFiniteSet(Sent)
    BY <2>1, FS_Subset
  <2> QED
    BY <2>2, FS_CardinalityType
<1>2. Client!InUse = L + S /\ Client!InUse' = L' + S'
  <2>1. (Client!InUse = Cardinality(leases) + Cardinality(Sent))'
    BY InUseIs, PTL
  <2> QED
    BY <2>1, InUseIs
<1>3. /\ L' = L \/ leases' # leases
      /\ leases' = leases \cup {g} => L' = IF g \in leases THEN L ELSE L + 1
      /\ leases' = leases \ {g} => L' = IF g \in leases THEN L - 1 ELSE L
  BY <1>1, FS_AddElement, FS_RemoveElement
<1>4. /\ S' = S \/ Sent' # Sent
      /\ Sent' = Sent \cup {g} => S' = IF g \in Sent THEN S ELSE S + 1
      /\ Sent' = Sent \ {g} => S' = IF g \in Sent THEN S - 1 ELSE S
  BY <1>1, FS_AddElement, FS_RemoveElement
<1>5. g \in leases => L > 0
  BY <1>1, FS_EmptySet
<1>6. g \in Sent => S > 0
  BY <1>1, FS_EmptySet
<1>7. call[g].shape \in Client!Shapes(kind) \cup {"none"}
  BY DEF CallsTyped
<1>8. g \in Sent <=> call[g].pc = "sent"
  BY DEF Sent
<1> HIDE DEF L, S
<1>9. ASSUME leases' = leases, NEW new, call' = [call EXCEPT ![g] = new],
             new.pc = "sent" <=> g \in Sent
      PROVE  Client!InUse' = Client!InUse
  <2>1. Sent' = Sent
    BY <1>9, SentAfter
  <2> QED
    BY <1>2, <1>3, <1>4, <1>9, <2>1
<1>10. ASSUME NEW shape, NEW ctx, Client!Begin(g, shape, ctx)
       PROVE  Client!InUse' = Client!InUse
  <2> DEFINE new == [Client!Idle EXCEPT
                       !.pc = IF kind = "postgres" THEN "acquire" ELSE "sent",
                       !.shape = shape,
                       !.ctx = IF shape = "health" THEN Client!HealthDeadline(ctx) ELSE ctx,
                       !.spans = 1,
                       !.session = Client!InSession(shape)]
  <2>1. call' = [call EXCEPT ![g] = new] /\ leases' = leases /\ call[g].pc = "idle"
    BY <1>10 DEF Client!Begin, Client!InFlight
  <2>2. new.pc = "acquire"
    BY DEF Client!Idle
  <2> HIDE DEF new
  <2> QED
    BY <1>8, <1>9, <2>1, <2>2
<1>11. CASE Client!HandOut(g) \/ Client!Collect(g) \/ Client!Repeat(g)
  <2>1. ~Client!HandOut(g)
    BY PostgresHasNoSessions DEF Client!HandOut
  <2>2. ~Client!Collect(g) /\ ~Client!Repeat(g)
    BY <1>7, PostgresHasNoSessions DEF Client!Collect, Client!Repeat, Client!InSession
  <2> QED
    BY <1>11, <2>1, <2>2
<1>12. CASE Client!Acquire(g)
  <2> DEFINE new == [call[g] EXCEPT !.pc = "sent"]
  <2>1. call' = [call EXCEPT ![g] = new] /\ new.pc = "sent"
    BY <1>12 DEF Client!Acquire, CallInv
  <2>2. Sent' = Sent \cup {g} /\ g \notin Sent
    <3> HIDE DEF new
    <3> QED
      BY <1>8, <1>12, <2>1, SentAfter DEF Client!Acquire
  <2>3. leases' = leases /\ driver = "open" /\ Client!InUse < Lendable
    BY <1>12 DEF Client!Acquire, HandleInv, Served, Lendable
  <2> QED
    BY <1>1, <1>2, <1>3, <1>4, <2>2, <2>3
<1>13. CASE Client!Expire(g) \/ Client!Cancel(g)
  <2>1. PICK ctx : call' = [call EXCEPT ![g].ctx = ctx]
    BY <1>13 DEF Client!Expire, Client!Cancel
  <2> DEFINE new == [call[g] EXCEPT !.ctx = ctx]
  <2>2. call' = [call EXCEPT ![g] = new] /\ new.pc = call[g].pc
    BY <2>1 DEF CallInv
  <2>3. leases' = leases
    BY <1>13 DEF Client!Expire, Client!Cancel
  <2> HIDE DEF new
  <2> QED
    BY <1>8, <1>9, <2>2, <2>3
<1>14. CASE Client!Release(g)
  <2>1. leases' = leases \ {g} /\ g \in leases /\ call' = call
    BY <1>14 DEF Client!Release
  <2>2. Sent' = Sent
    BY <2>1 DEF Sent
  <2> QED
    BY <1>1, <1>2, <1>3, <1>4, <1>5, <2>1, <2>2
<1>15. ASSUME NEW root, Client!Return(g, root),
              root = "nil" => call[g].pc = "sent"
       PROVE  Client!InUse' = Client!InUse \/
                 (Client!InUse > 0 /\ Client!InUse' = Client!InUse - 1)
  <2> DEFINE result == [Client!Idle EXCEPT
                           !.shape = call[g].shape,
                           !.err = Client!Outcome(call[g].shape,
                                      IF root = "nil" THEN Client!NoError
                                      ELSE Client!Native(root)),
                           !.spans = call[g].spans - 1]
  <2>1. call' = [call EXCEPT ![g] = result] /\ result.pc = "idle"
    BY <1>15 DEF Client!Return, Client!Idle
  <2>2. Sent' = Sent \ {g}
    <3> HIDE DEF result
    <3> QED
      BY <2>1, SentAfter
  <2>3. leases' = leases \/ (root = "nil" /\ leases' = leases \cup {g})
    <3>1. root # "nil" => Client!Native(root) # Client!NoError
      BY DEF Client!Native, Client!NoError
    <3> QED
      BY <1>15, <3>1 DEF Client!Return
  <2> QED
    BY <1>1, <1>2, <1>3, <1>4, <1>6, <1>8, <1>15, <2>2, <2>3
<1>16. CASE Client!ServerAnswers(g) \/ Client!GiveUp(g) \/ Client!Rejected(g)
  <2>1. call[g].pc # "collect"
    BY <1>7, PostgresHasNoSessions DEF HandleInv, Served
  <2>2. PICK root : Client!Return(g, root) /\ (root = "nil" => call[g].pc = "sent")
    BY <1>16, <2>1 DEF Client!ServerAnswers, Client!GiveUp, Client!Rejected,
                       Client!ContextErrors
  <2> QED
    BY <1>15, <2>2
<1> QED
  BY <1>10, <1>11, <1>12, <1>13, <1>14, <1>16 DEF Client!Use

\* What a pool may lend is positive: the pool is not made of a configuration
\* whose limit is not, with a URI or without (postgres/client.go:177-180).
LEMMA HandleStep ==
    ServiceInv /\ SettingsInv /\ Typed /\ HandleInv /\ [ServiceNext]_service => HandleInv'
<1> SUFFICES ASSUME ServiceInv, SettingsInv, Typed, HandleInv, [ServiceNext]_service
             PROVE  HandleInv'
  OBVIOUS
<1>1. /\ main = [pc |-> main.pc, ctx |-> main.ctx, err |-> main.err]
      /\ kind \in Kinds /\ kind' = kind
  <2>1. CASE \E g \in Goroutines : Client!Use(g)
    BY <2>1 DEF ServiceInv, LoaderInv, MainInv, Client!Use, Client!Begin, Client!HandOut,
         Client!Acquire, Client!Collect, Client!Repeat, Client!ServerAnswers, Client!GiveUp,
         Client!Rejected, Client!Return, Client!Expire, Client!Cancel, Client!Release
  <2>2. CASE ~\E g \in Goroutines : Client!Use(g)
    BY <2>2, BesideCalls DEF ServiceInv, LoaderInv, MainInv
  <2> QED
    BY <2>1, <2>2
<1>2. \A g \in Goroutines : Served(g)'
  <2>1. CASE ~\E g \in Goroutines : Client!Use(g)
    <3>1. client' = client \/ client' # Client!NoClient
      BY <2>1, IsClient DEF ServiceNext, LoadConfig, MakeClient, AdoptDriver, ClientMade,
         service, Client!NewClient, Client!NewFrom, Client!PingSucceeds, Client!PingFails,
         Client!PingGivesUp, Client!MainExpires, Client!MainCanceled, Client!Close,
         Client!Closed
    <3> QED
      BY <2>1, <3>1, BesideCalls DEF HandleInv, Served, Client!InSession
  <2>2. ASSUME NEW g \in Goroutines, Client!Use(g)
        PROVE  \A h \in Goroutines : Served(h)'
    <3>0. client' = client
      BY <2>2 DEF Client!Use, Client!Begin, Client!HandOut, Client!Acquire, Client!Collect,
         Client!Repeat, Client!ServerAnswers, Client!GiveUp, Client!Rejected,
         Client!Return, Client!Expire, Client!Cancel, Client!Release
    <3>1. ASSUME NEW new, call' = [call EXCEPT ![g] = new],
                 new.pc = "collect" => Client!InSession(new.shape),
                 new.pc # "idle" => client # Client!NoClient
          PROVE  \A h \in Goroutines : Served(h)'
      BY <3>0, <3>1 DEF HandleInv, Served, ServiceInv, CallInv, Client!InSession
    <3>2. ASSUME NEW shape, NEW ctx, Client!Begin(g, shape, ctx)
          PROVE  \A h \in Goroutines : Served(h)'
      <4> DEFINE new == [Client!Idle EXCEPT
                       !.pc = IF kind = "postgres" THEN "acquire" ELSE "sent",
                       !.shape = shape,
                       !.ctx = IF shape = "health" THEN Client!HealthDeadline(ctx) ELSE ctx,
                       !.spans = 1,
                       !.session = Client!InSession(shape)]
      <4>1. call' = [call EXCEPT ![g] = new] /\ client # Client!NoClient
        BY <3>2 DEF Client!Begin
      <4>2. new.pc # "collect"
        BY DEF Client!Idle
      <4> HIDE DEF new
      <4> QED
        BY <3>1, <4>1, <4>2
    <3>3. CASE Client!HandOut(g) \/ Client!Release(g)
      BY <3>0, <3>3 DEF Client!HandOut, Client!Release, HandleInv, Served, Client!InSession
    <3>4. ASSUME NEW pc, call' = [call EXCEPT ![g].pc = pc], call[g].pc # "idle",
                 pc = "collect" => Client!InSession(call[g].shape)
          PROVE  \A h \in Goroutines : Served(h)'
      BY <3>0, <3>4 DEF HandleInv, Served, ServiceInv, CallInv, Client!InSession
    <3>5. ASSUME NEW ctx, call' = [call EXCEPT ![g].ctx = ctx]
          PROVE  \A h \in Goroutines : Served(h)'
      BY <3>0, <3>5 DEF HandleInv, Served, ServiceInv, CallInv, Client!InSession
    <3>6. CASE Client!Acquire(g) \/ Client!Collect(g) \/ Client!Repeat(g)
      BY <3>4, <3>6 DEF Client!Acquire, Client!Collect, Client!Repeat
    <3>7. CASE Client!Expire(g) \/ Client!Cancel(g)
      BY <3>5, <3>7 DEF Client!Expire, Client!Cancel
    <3>8. CASE Client!ServerAnswers(g) \/ Client!GiveUp(g) \/ Client!Rejected(g)
      <4>1. PICK root : Client!Return(g, root)
        BY <3>8 DEF Client!ServerAnswers, Client!GiveUp, Client!Rejected
      <4> DEFINE result == [Client!Idle EXCEPT
                           !.shape = call[g].shape,
                           !.err = Client!Outcome(call[g].shape,
                                      IF root = "nil" THEN Client!NoError
                                      ELSE Client!Native(root)),
                           !.spans = call[g].spans - 1]
      <4>2. call' = [call EXCEPT ![g] = result] /\ result.pc = "idle"
        BY <4>1 DEF Client!Return, Client!Idle
      <4> HIDE DEF result
      <4> QED
        BY <3>1, <4>2
    <3> QED
      BY <2>2, <3>2, <3>3, <3>6, <3>7, <3>8 DEF Client!Use
  <2> QED
    BY <2>1, <2>2
<1>3. ASSUME cfg' = cfg, client' = client, main'.pc = main.pc \/ main'.pc # "ping"
      PROVE  HandleInv'
  BY <1>1, <1>2, <1>3 DEF HandleInv
<1>4. CASE MakeClient
  <2>1. PICK ctx, c : Client!NewClient(ctx, c)
    BY <1>4 DEF MakeClient
  <2> DEFINE v == Client!Validate(kind, c)
             refused == Client!Wrap(Client!Native("config"), Client!CodeValidation)
  <2>2. PICK err \in IF v.ok THEN Client!CreationErrors(v.config) ELSE {refused} :
           IF err = Client!NoError THEN cfg' = v.config
           ELSE main' = [main EXCEPT !.pc = "end", !.err = err]
    BY <2>1 DEF Client!NewClient
  <2>3. client' = client /\ main.pc = "start"
    BY <2>1 DEF Client!NewClient
  <2>4. main'.pc = "ping" => err = Client!NoError
    BY <1>1, <2>2
  <2>5. refused # Client!NoError
    BY WrapFails, SameErrors
  <2> HIDE DEF v, refused
  <2>6. err = Client!NoError => cfg' = v.config /\ err \in Client!CreationErrors(v.config)
    BY <2>2, <2>5
  <2>7. kind = "postgres" /\ err = Client!NoError => ~(cfg'["max"] < 1)
    <3> SUFFICES ASSUME kind = "postgres", err = Client!NoError, v.config.max < 1
                 PROVE  FALSE
      BY <2>6
    <3>1. err = Client!PostgresCreation(v.config)
      BY <2>6 DEF Client!CreationErrors
    <3>2. err \in {Wrap(Native("parse"), Client!CodeValidation),
                   Wrap(Native("tls"), Client!CodeInternalConfiguration),
                   Wrap(Native("settings"), Client!CodeUnavailableDependency)}
      BY <3>1, SameErrors DEF Client!PostgresCreation
    <3> QED
      BY <3>2, WrapFails, SameErrors
  <2>8. kind = "postgres" /\ main'.pc = "ping" => cfg'["max"] \in Int
    <3>1. SettingsInv'
      BY <1>4, MakeClientSettings
    <3> QED
      BY <1>1, <3>1, NumbersOf DEF SettingsInv, TypedConfig, Numbers
  <2> QED
    BY <1>1, <1>2, <2>3, <2>4, <2>7, <2>8 DEF HandleInv
<1>5. CASE AdoptDriver
  <2>1. PICK limit \in {1, DefaultMax} : Client!NewFrom(limit)
    BY <1>5 DEF AdoptDriver
  <2>2. limit \in Nat \ {0}
    BY ClientConfigConstants
  <2> QED
    BY <1>1, <1>2, <2>1, <2>2 DEF HandleInv, Client!NewFrom
<1>6. CASE Client!PingSucceeds
  BY <1>1, <1>2, <1>6 DEF HandleInv, Client!PingSucceeds, Client!PoolSettings
<1>7. ASSUME NEW root, Client!PingFails(root) PROVE HandleInv'
  BY <1>1, <1>2, <1>7 DEF HandleInv, Client!PingFails
<1>8. CASE ClientMade
  BY <1>6, <1>7, <1>8 DEF ClientMade, Client!PingGivesUp
<1>9. CASE LoadConfig \/ UNCHANGED service
  BY <1>3, <1>9 DEF LoadConfig, service
<1>10. CASE Client!MainExpires \/ Client!MainCanceled \/ Client!Close \/ Client!Closed
  <2>1. UNCHANGED <<cfg, client, call>>
    BY <1>10 DEF Client!MainExpires, Client!MainCanceled, Client!Close, Client!Closed
  <2>2. main'.pc = main.pc \/ main'.pc # "ping"
    BY <1>1, <1>10, ClosingStep DEF Client!MainExpires, Client!MainCanceled
  <2> QED
    BY <1>1, <1>3, <2>1, <2>2
<1>11. CASE \E g \in Goroutines : Client!Use(g)
  BY <1>3, <1>11 DEF Client!Use, Client!Begin, Client!HandOut, Client!Acquire, Client!Collect,
         Client!Repeat, Client!ServerAnswers, Client!GiveUp, Client!Rejected,
         Client!Return, Client!Expire, Client!Cancel, Client!Release
<1> QED
  BY <1>4, <1>5, <1>8, <1>9, <1>10, <1>11 DEF ServiceNext

LEMMA HandleInvariant == ServiceSpec => []HandleInv
<1>1. ServiceInit => HandleInv
  BY DEF ServiceInit, Client!Init, Client!Idle, HandleInv, Served
<1> QED
  BY <1>1, HandleStep, ServiceInvariant, SettingsInvariant, TypedInvariant, PTL DEF ServiceSpec

\* Whatever NewClient, the operations and Close do with the driver is one step
\* of its handle, or none.
LEMMA HandleRefined ==
    ASSUME IsFiniteSet(Goroutines), ServiceInv, CallsTyped, HandleInv, [ServiceNext]_service
    PROVE  [Handle!Next]_<<driver, Lendable, Lent>>
<1>1. CASE \E g \in Goroutines : Client!Use(g)
  <2>1. PICK g \in Goroutines : Client!Use(g)
    BY <1>1
  <2>2. driver' = driver /\ client' = client /\ kind' = kind
    BY <2>1 DEF Client!Use, Client!Begin, Client!HandOut, Client!Acquire, Client!Collect,
         Client!Repeat, Client!ServerAnswers, Client!GiveUp, Client!Rejected,
         Client!Return, Client!Expire, Client!Cancel, Client!Release
  <2>3. Lendable' = Lendable
    BY <2>2 DEF Lendable
  <2>4. CASE kind # "postgres"
    BY <2>2, <2>3, <2>4 DEF Lent
  <2>5. CASE kind = "postgres"
    <3>1. Lent = Client!InUse /\ Lent' = Client!InUse'
      BY <2>2, <2>5 DEF Lent
    <3> QED
      BY <2>1, <2>2, <2>3, <2>5, <3>1, UseLends
      DEF ServiceInv, Handle!Next, Handle!Lend, Handle!GiveBack
  <2> QED
    BY <2>4, <2>5
<1>2. CASE ~\E g \in Goroutines : Client!Use(g)
  <2>1. kind' = kind /\ Lent' = Lent
    <3>1. call' = call /\ leases' = leases /\ kind' = kind
      BY <1>2, BesideCalls
    <3>2. Client!InUse' = Client!InUse
      BY <3>1 DEF Client!InUse
    <3> QED
      BY <3>1, <3>2 DEF Lent
  <2>2. client' = client => Lendable' = Lendable
    BY <2>1 DEF Lendable
  <2>3. client' # Client!NoClient =>
           Lendable' = IF kind = "postgres" THEN client'.limit ELSE 1
    BY <2>1 DEF Lendable
  <2>4. client = Client!NoClient <=> Lendable = 0
    BY DEF Lendable, HandleInv
  <2>5. client # Client!NoClient => Lendable > 0
    BY DEF Lendable, HandleInv
  <2>6. CASE MakeClient
    <3>1. client' = client /\ (driver' = driver \/ (driver = "none" /\ driver' = "open"))
      BY <2>6 DEF MakeClient, Client!NewClient, ServiceInv, MainInv
    <3> QED
      BY <2>1, <2>2, <3>1 DEF Handle!Next, Handle!Open
  <2>7. CASE AdoptDriver
    <3>1. PICK limit \in {1, DefaultMax} : Client!NewFrom(limit)
      BY <2>7 DEF AdoptDriver
    <3>2. limit \in Nat \ {0}
      BY ClientConfigConstants
    <3>3. /\ client' # Client!NoClient /\ driver' = "open"
          /\ kind = "postgres" => client'.limit = limit
      BY <3>1, IsClient DEF Client!NewFrom
    <3>4. driver = "none" /\ client = Client!NoClient
      BY <3>1 DEF Client!NewFrom, ServiceInv, MainInv
    <3> QED
      BY <2>1, <2>3, <2>4, <3>2, <3>3, <3>4 DEF Handle!Next, Handle!Publish
  <2>8. CASE Client!PingSucceeds
    <3>1. driver = "open" /\ driver' = "open" /\ client = Client!NoClient
      BY <2>8 DEF Client!PingSucceeds, ServiceInv, MainInv
    <3>2. client' # Client!NoClient /\ (kind = "postgres" => client'.limit = cfg["max"])
      BY <2>8, IsClient DEF Client!PingSucceeds, Client!PoolSettings
    <3>3. kind = "postgres" => cfg["max"] \in Nat \ {0}
      BY <2>8 DEF Client!PingSucceeds, HandleInv
    <3> QED
      BY <2>1, <2>3, <2>4, <3>1, <3>2, <3>3 DEF Handle!Next, Handle!Publish
  <2>9. ASSUME NEW root, Client!PingFails(root)
        PROVE  [Handle!Next]_<<driver, Lendable, Lent>>
    <3>1. driver = "open" /\ client = Client!NoClient /\ client' = client
      BY <2>9 DEF Client!PingFails, ServiceInv, MainInv
    <3>2. driver' = driver \/ driver' = "closed"
      BY <2>9 DEF Client!PingFails
    <3> QED
      BY <2>1, <2>2, <2>4, <3>1, <3>2 DEF Handle!Next, Handle!Abandon
  <2>10. CASE ClientMade
    BY <2>8, <2>9, <2>10 DEF ClientMade, Client!PingGivesUp
  <2>11. CASE Client!Close \/ Client!Closed
    <3>1. /\ client' = client /\ client # Client!NoClient
          /\ \/ driver = "open" /\ driver' = "closing"
             \/ driver = "open" /\ kind # "postgres" /\ driver' \in {driver, "closed"}
             \/ /\ driver = "closing" /\ driver' = "closed"
                /\ kind = "postgres" => Client!InUse = 0
      BY <2>11, ClosingStep DEF ServiceInv, MainInv
    <3>2. (kind = "postgres" => Client!InUse = 0) => Lent = 0
      BY DEF Lent
    <3> QED
      BY <2>1, <2>2, <2>5, <3>1, <3>2 DEF Handle!Next, Handle!BeginClose, Handle!Close
  <2>13. CASE LoadConfig \/ Client!MainExpires \/ Client!MainCanceled \/ UNCHANGED service
    BY <2>1, <2>2, <2>13 DEF LoadConfig, Client!MainExpires, Client!MainCanceled, service
  <2> QED
    BY <1>2, <2>6, <2>7, <2>10, <2>11, <2>13 DEF ServiceNext
<1> QED
  BY <1>1, <1>2

\* However many goroutines call, fail, hold on to rows and transactions or wait
\* while NewClient or Close is under way: a driver is opened once, published once
\* with room for an operation, lent within its limit, and closed for good when
\* nothing is lent any more (postgres/client.go:376-381).
THEOREM ServiceKeepsHandle ==
    ASSUME IsFiniteSet(Goroutines) PROVE ServiceSpec => DriverIsAHandle
<1>1. ServiceInit => Handle!Init
  <2> SUFFICES ASSUME ServiceInit PROVE Handle!Init
    OBVIOUS
  <2>1. /\ driver = "none" /\ client = Client!NoClient /\ leases = {}
        /\ call = [g \in Goroutines |-> Client!Idle]
    BY DEF ServiceInit, Client!Init
  <2>2. Sent = {}
    BY <2>1 DEF Sent, Client!Idle
  <2>3. Client!InUse = 0
    BY <2>1, <2>2, InUseIs, FS_EmptySet
  <2> QED
    BY <2>1, <2>3 DEF Handle!Init, Lendable, Lent
<1>2. ServiceInv /\ Typed /\ HandleInv /\ [ServiceNext]_service
          => [Handle!Next]_<<driver, Lendable, Lent>>
  BY HandleRefined DEF Typed
<1> QED
  BY <1>1, <1>2, ServiceInvariant, TypedInvariant, HandleInvariant, PTL
  DEF ServiceSpec, Handle!Spec, DriverIsAHandle

\* What the handle promises.
HandleSafe ==
    /\ driver \in {"none", "open", "closing", "closed"}
    /\ Lendable \in Nat /\ Lent \in 0..Lendable
    /\ driver = "closed" => Lent = 0

\* Whoever keeps the promises of the handle never lends more than the limit, and
\* has everything back when the driver is closed.
LEMMA HandleIsSafe == Handle!Spec => []HandleSafe
<1>1. Handle!Init => HandleSafe
  BY DEF Handle!Init, HandleSafe
<1>2. HandleSafe /\ [Handle!Next]_<<driver, Lendable, Lent>> => HandleSafe'
  BY DEF HandleSafe, Handle!Next, Handle!Open, Handle!Abandon, Handle!Publish, Handle!Lend,
         Handle!GiveBack, Handle!BeginClose, Handle!Close
<1> QED
  BY <1>1, <1>2, PTL DEF Handle!Spec

\* The connections in use are never more than the pool has, and when Close of
\* postgres has returned nobody holds one: rows, transactions and statements on
\* their way included (postgres/client.go:376-378).
THEOREM ServiceDrainsPool ==
    ASSUME IsFiniteSet(Goroutines)
    PROVE  ServiceSpec => [](kind = "postgres" =>
               /\ client # Client!NoClient => Client!InUse <= client.limit
               /\ driver = "closed" => leases = {} /\ Sent = {})
<1>1. ASSUME HandleSafe, CallsTyped, kind = "postgres"
      PROVE  /\ client # Client!NoClient => Client!InUse <= client.limit
             /\ driver = "closed" => leases = {} /\ Sent = {}
  <2>1. Lent = Cardinality(leases) + Cardinality(Sent)
    BY <1>1, InUseIs DEF Lent
  <2>2. IsFiniteSet(leases) /\ IsFiniteSet(Sent)
    <3>1. leases \subseteq Goroutines /\ Sent \subseteq Goroutines
      BY <1>1 DEF CallsTyped, Sent
    <3> QED
      BY <3>1, FS_Subset
  <2>3. Cardinality(leases) \in Nat /\ Cardinality(Sent) \in Nat
    BY <2>2, FS_CardinalityType
  <2>4. driver = "closed" => leases = {} /\ Sent = {}
    BY <1>1, <2>1, <2>2, <2>3, FS_EmptySet DEF HandleSafe
  <2>5. client # Client!NoClient => Client!InUse <= client.limit
    BY <1>1 DEF HandleSafe, Lent, Lendable
  <2> QED
    BY <2>4, <2>5
<1> QED
  BY <1>1, ServiceKeepsHandle, HandleIsSafe, TypedInvariant, PTL DEF Typed, DriverIsAHandle
=============================================================================
