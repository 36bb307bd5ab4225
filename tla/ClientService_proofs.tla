------------------------ MODULE ClientService_proofs ------------------------
(***************************************************************************)
(* Theorems about a service and its client, for any number of goroutines,  *)
(* any limits and whatever the file and the environment say.               *)
(*                                                                         *)
(* The invariant says where the driver and the client are at each step of  *)
(* the main goroutine, what the loader left behind, and which spans and    *)
(* sessions are open.                                                      *)
(***************************************************************************)
EXTENDS ClientService, ConfigLoader_proofs

\* LeftToDriver as far as it can be said before the limits are known to be numbers.
RefusedLater(c) ==
    LeftToDriver(c) \/ (kind = "postgres" /\ c.max >= 1 /\ c.max < 1)

\* Where the driver and the client are while main is at each of its steps, how
\* far the loader is, and why a configuration is refused that Load has accepted.
MainInv ==
    /\ main = [pc |-> main.pc, ctx |-> main.ctx, err |-> main.err]
    /\ \/ main.pc = "start" /\ driver = "none" /\ client = Client!NoClient
       \/ main.pc = "ping" /\ driver = "open" /\ client = Client!NoClient
       \/ main.pc = "serve" /\ driver = "open" /\ client # Client!NoClient
       \/ main.pc = "close" /\ driver = "closing" /\ client # Client!NoClient
       \/ /\ main.pc = "end"
          /\ driver \in {"none", "closed"} \/ kind = "minio"
          /\ client # Client!NoClient => driver # "none"
    /\ loading = "before" => main.pc = "start"
    /\ main.pc \in {"serve", "close"} => loading = "dropped"
    /\ main.err.root = "config" => main.pc = "end" /\ Nested
    /\ loading = "ok" /\ ~Nested /\ main.pc = "end" => RefusedLater(config)

\* The spans and sessions of every goroutine.
CallInv ==
    /\ call = [g \in Goroutines |-> call[g]]
    /\ \A g \in Goroutines :
          /\ {"pc", "ctx", "spans", "session", "shape"} \subseteq DOMAIN call[g]
          /\ call[g].spans = IF Client!InFlight(g) THEN 1 ELSE 0
          /\ call[g].session <=> Client!InFlight(g) /\ Client!InSession(call[g].shape)

ServiceInv == LoaderInv /\ MainInv /\ CallInv

\* The client's errors and configurations are those of the loader.
LEMMA SameErrors ==
    /\ Client!NoError = NoError
    /\ \A root : Client!Native(root) = Native(root)
    /\ \A err, code : Client!Wrap(err, code) = Wrap(err, code)
  BY DEF Client!NoError, NoError, Client!Native, Native, Client!Wrap, Wrap

\* So are the defaults they fill in,
LEMMA SameFill == \A c, F : Client!Fill(c, F) = Fill(c, F)
  BY DEF Client!Fill, Fill, Client!Zero, Zero, Client!Default, Default,
         Client!Numbers, Numbers

\* the limits they check,
LEMMA SameChecks ==
    /\ \A c : Client!PortOK(c) <=> PortOK(c)
    /\ \A c : Client!PoolOK(c) <=> PoolOK(c)
    /\ \A c, ok : Client!Verdict(c, ok) = Verdict(c, ok)
  BY DEF Client!PortOK, PortOK, Client!PoolOK, PoolOK, Client!Verdict, Verdict

\* and the verdicts they come to.
LEMMA SameConfigs ==
    /\ Client!Kinds = Kinds
    /\ \A k, c : Client!Validate(k, c) = Validate(k, c)
<1>1. Client!Kinds = Kinds
  BY DEF Client!Kinds, Kinds
<1> SUFFICES ASSUME NEW k, NEW c PROVE Client!Validate(k, c) = Validate(k, c)
  BY <1>1
<1> USE SameFill, SameChecks
<1>2. Client!PostgresValidate(c) = PostgresValidate(c)
  BY DEF Client!PostgresValidate, PostgresValidate
<1>3. Client!RedisValidate(c) = RedisValidate(c)
  BY DEF Client!RedisValidate, RedisValidate
<1>4. Client!Neo4jValidate(c) = Neo4jValidate(c)
  BY DEF Client!Neo4jValidate, Neo4jValidate
<1>5. Client!QdrantValidate(c) = QdrantValidate(c)
  BY DEF Client!QdrantValidate, QdrantValidate
<1>6. Client!MinioValidate(c) = MinioValidate(c)
  BY DEF Client!MinioValidate, MinioValidate
<1> QED
  BY <1>2, <1>3, <1>4, <1>5, <1>6 DEF Client!Validate, Validate

\* What operations read of a client tells it from none.
LEMMA IsClient ==
    ASSUME NEW a, NEW b
    PROVE  [limit |-> a, timeout |-> b] # Client!NoClient
<1> DEFINE c == [limit |-> a, timeout |-> b]
<1>1. "limit" \in DOMAIN c
  OBVIOUS
<1>2. DOMAIN Client!NoClient = {}
  BY DEF Client!NoClient
<1> HIDE DEF c
<1>3. c # Client!NoClient
  BY <1>1, <1>2
<1> QED
  BY <1>3 DEF c

\* What creating a driver may fail with is never the configuration.
LEMMA CreationRoots ==
    ASSUME NEW c, NEW err \in Client!CreationErrors(c), kind \in Kinds
    PROVE  err.root # "config"
<1> USE WrapFails, SameErrors
<1>0. NoError.root # "config"
  BY DEF NoError
<1>1. CASE kind = "postgres"
  BY <1>0, <1>1 DEF Client!CreationErrors, Client!PostgresCreation
<1>2. CASE kind = "redis"
  BY <1>0, <1>2 DEF Client!CreationErrors, Client!RedisCreation
<1>3. CASE kind = "neo4j"
  <2>1. err = Client!Neo4jCreation(c)
    BY <1>3 DEF Client!CreationErrors
  <2>2. err \in {Wrap(Native("create"), Client!CodeInternalDatabase), NoError}
    BY <2>1 DEF Client!Neo4jCreation
  <2> QED
    BY <1>0, <2>2
<1>4. CASE kind = "qdrant"
  BY <1>0, <1>4 DEF Client!CreationErrors, Client!QdrantCreation
<1>5. CASE kind = "minio"
  BY <1>0, <1>5 DEF Client!CreationErrors, Client!MinioCreation
<1> QED
  BY <1>1, <1>2, <1>3, <1>4, <1>5 DEF Kinds
\* What making a driver refuses of a configuration that Validate accepted, and
\* left as it was, is what is left to the driver.
LEMMA RefusedByDriver ==
    ASSUME NEW c, NEW err \in Client!CreationErrors(c), err # NoError, kind \in Kinds,
           Validate(kind, c) = Verdict(c, TRUE)
    PROVE  RefusedLater(c)
<1> USE SameErrors DEF RefusedLater
<1>1. CASE kind = "postgres"
  <2>1. err = Client!PostgresCreation(c)
    BY <1>1 DEF Client!CreationErrors
  <2>2. Client!TLSFails(c) <=> TLSFails(c)
    BY DEF Client!TLSFails, TLSFails
  <2>3. c.uri = "odd" \/ TLSFails(c) \/ c.max < 1
    BY <2>1, <2>2 DEF Client!PostgresCreation
  <2>4. c.uri = "" => c.max >= 1
    <3> SUFFICES ASSUME c.uri = "" PROVE c.max >= 1
      OBVIOUS
    <3> DEFINE placed == Fill(Fill(c, {"max", "min", "timeout"}), {"host", "port"})
               full   == Fill(placed, {"mode"})
               sound  == /\ full.mode # "bad" /\ full.cert # "missing"
                         /\ PoolOK(full) /\ full.timeout >= 0
    <3>1. Verdict(c, TRUE) = IF ~PortOK(placed) \/ placed.name = ""
                             THEN Verdict(placed, FALSE) ELSE Verdict(full, sound)
      BY <1>1 DEF Validate, PostgresValidate
    <3> HIDE DEF placed, full, sound
    <3>2. full = c /\ sound
      BY <3>1 DEF Verdict
    <3> QED
      BY <3>2 DEF sound, PoolOK
  <2> QED
    <3>1. c.uri = "odd" \/ TLSFails(c) => LeftToDriver(c)
      BY <1>1 DEF LeftToDriver
    <3>2. c.uri # "" /\ c.max < 1 => LeftToDriver(c)
      BY <1>1 DEF LeftToDriver
    <3> QED
      BY <1>1, <2>3, <2>4, <3>1, <3>2
<1>2. CASE kind = "redis"
  BY <1>2 DEF Client!CreationErrors, Client!RedisCreation, LeftToDriver
<1>3. CASE kind = "neo4j"
  BY <1>3 DEF Client!CreationErrors, Client!Neo4jCreation, LeftToDriver
<1>4. CASE kind \in {"qdrant", "minio"}
  BY <1>4 DEF LeftToDriver
<1> QED
  BY <1>1, <1>2, <1>3, <1>4 DEF Kinds

\* Close begins and ends; where it does not wait it does both at once.
LEMMA ClosingStep ==
    ASSUME main = [pc |-> main.pc, ctx |-> main.ctx, err |-> main.err],
           Client!Close \/ Client!Closed
    PROVE  /\ main' = [pc |-> main'.pc, ctx |-> main'.ctx, err |-> main'.err]
           /\ main'.err \in Client!CloseErrors \cup {main.err}
           /\ client' = client /\ kind' = kind /\ call' = call
           /\ \/ main.pc = "serve" /\ main'.pc = "close" /\ driver' = "closing"
              \/ /\ main.pc = "serve" /\ main'.pc = "end" /\ kind # "postgres"
                 /\ driver' = IF kind = "minio" THEN driver ELSE "closed"
              \/ /\ main.pc = "close" /\ main'.pc = "end" /\ driver' = "closed"
                 /\ kind = "postgres" => Client!InUse = 0
<1>1. CASE Client!CloseReturned
  <2>1. PICK err \in Client!CloseErrors : main' = [main EXCEPT !.pc = "end", !.err = err]
    BY <1>1 DEF Client!CloseReturned
  <2> QED
    BY <2>1 DEF Client!Close, Client!Closed, Client!CloseWaits
<1>2. CASE ~Client!CloseReturned
  <2>1. Client!Close /\ Client!CloseWaits
    BY <1>2 DEF Client!Close, Client!Closed
  <2> QED
    BY <2>1 DEF Client!Close
<1> QED
  BY <1>1, <1>2

\* Errors of Close are the driver's.
LEMMA CloseRoots ==
    ASSUME NEW err \in Client!CloseErrors
    PROVE  err \in {NoError, Native("close"), Wrap(Native("close"), Client!CodeInternalDatabase)}
  BY SameErrors DEF Client!CloseErrors, Client!Neo4jCloseErrors
-----------------------------------------------------------------------------
\* Before anything is loaded there is no driver and no call.
LEMMA ServiceInitInv == ServiceInit => ServiceInv
<1> SUFFICES ASSUME ServiceInit PROVE ServiceInv
  OBVIOUS
<1>1. LoaderInv
  BY LoaderInit DEF ServiceInit
<1>2. MainInv
  BY SameErrors DEF ServiceInit, Client!Init, MainInv, NoError
<1>3. CallInv
  BY DEF ServiceInit, Client!Init, CallInv, Client!Idle, Client!InFlight
<1> QED
  BY <1>1, <1>2, <1>3 DEF ServiceInv

\* Load has no part in the client.
LEMMA LoadConfigInv == ServiceInv /\ LoadConfig => ServiceInv'
<1> SUFFICES ASSUME ServiceInv, LoadConfig PROVE ServiceInv'
  OBVIOUS
<1>1. LoaderInv'
  BY LoaderStep DEF ServiceInv, LoadConfig
<1>2. MainInv'
  BY DEF ServiceInv, LoadConfig, Load, MainInv, Nested
<1>3. CallInv'
  BY DEF ServiceInv, LoadConfig, CallInv, Client!InFlight
<1> QED
  BY <1>1, <1>2, <1>3 DEF ServiceInv

\* NewClient opens a driver or fails, and not because of what Load accepted.
LEMMA MakeClientInv == ServiceInv /\ MakeClient => ServiceInv'
<1> SUFFICES ASSUME ServiceInv, MakeClient PROVE ServiceInv'
  OBVIOUS
<1>1. LoaderInv'
  BY LoaderStutter DEF ServiceInv, MakeClient
<1>2. CallInv'
  BY DEF ServiceInv, MakeClient, Client!NewClient, CallInv, Client!InFlight
<1>3. MainInv'
  <2> DEFINE c == [f \in Fields(kind) |-> config[f]]
             v == Validate(kind, c)
             refused == Wrap(Native("config"), CodeValidation)
  <2>1. PICK ctx \in {"none", "armed"} : Client!NewClient(ctx, c)
    BY DEF MakeClient
  <2>2. /\ main.pc = "start" /\ driver = "none" /\ client = Client!NoClient
        /\ main = [pc |-> main.pc, ctx |-> main.ctx, err |-> main.err]
        /\ main.err.root # "config" /\ kind \in Kinds
    BY <2>1 DEF ServiceInv, MainInv, LoaderInv, Client!NewClient
  <2>3. PICK err \in IF v.ok THEN Client!CreationErrors(v.config) ELSE {refused} :
           IF err = NoError
           THEN driver' = "open" /\ main' = [main EXCEPT !.pc = "ping",
                                  !.ctx = Client!FirstDeadline(ctx, v.config)]
           ELSE main' = [main EXCEPT !.pc = "end", !.err = err] /\ driver' = driver
    <3> DEFINE errors == IF v.ok THEN Client!CreationErrors(v.config) ELSE {refused}
               Makes(err) ==
                  IF err = NoError
                  THEN driver' = "open" /\ main' = [main EXCEPT !.pc = "ping",
                                         !.ctx = Client!FirstDeadline(ctx, v.config)]
                  ELSE main' = [main EXCEPT !.pc = "end", !.err = err] /\ driver' = driver
    <3>1. Client!Validate(kind, c) = v
      BY SameConfigs
    <3>2. Client!Wrap(Client!Native("config"), Client!CodeValidation) = refused
      BY SameErrors DEF Client!CodeValidation, CodeValidation
    <3>3. \E err \in errors : Makes(err)
      <4> HIDE DEF v, c, refused
      <4> QED
        BY <2>1, <3>1, <3>2, SameErrors DEF Client!NewClient
    <3> QED
      BY <3>3
  <2>4. /\ client' = client /\ kind' = kind /\ preset' = preset
        /\ config' = config /\ loading' = loading /\ loading = "ok"
    BY <2>1 DEF Client!NewClient, MakeClient, loader
  <2>5. err.root = "config" => Nested
    <3> SUFFICES ASSUME err.root = "config", ~Nested PROVE FALSE
      OBVIOUS
    <3>1. Validate(kind, config) = Verdict(config, TRUE) /\ c = config
      BY LoadedIsStable DEF ServiceInv, MakeClient
    <3>2. v.ok
      BY <3>1 DEF Verdict
    <3> HIDE DEF v
    <3> QED
      BY <2>2, <2>3, <3>2, CreationRoots
  <2>8. err # NoError /\ ~Nested => RefusedLater(config)
    <3> SUFFICES ASSUME err # NoError, ~Nested PROVE RefusedLater(config)
      OBVIOUS
    <3>1. Validate(kind, config) = Verdict(config, TRUE) /\ c = config
      BY LoadedIsStable DEF ServiceInv, MakeClient
    <3>2. v.ok /\ v.config = config
      BY <3>1 DEF Verdict
    <3> HIDE DEF v
    <3> QED
      BY <2>2, <2>3, <3>1, <3>2, RefusedByDriver
  <2>6. CASE err = NoError
    <3>1. main' = [pc |-> "ping", ctx |-> main'.ctx, err |-> main.err] /\ driver' = "open"
      BY <2>2, <2>3, <2>6
    <3> HIDE DEF v, c
    <3> QED
      BY <2>2, <2>4, <3>1 DEF MainInv, Nested
  <2>7. CASE err # NoError
    BY <2>2, <2>3, <2>4, <2>5, <2>7, <2>8 DEF MainInv, Nested, RefusedLater, LeftToDriver
  <2> QED
    BY <2>6, <2>7
<1> QED
  BY <1>1, <1>2, <1>3 DEF ServiceInv

\* Nothing is known of a configuration that went out of scope.
LEMMA DroppedInv ==
    ASSUME DropConfig, kind' \in Kinds
    PROVE  LoaderInv'
  BY DEF DropConfig, LoaderInv

\* A client made from a driver has one.
LEMMA AdoptDriverInv == ServiceInv /\ AdoptDriver => ServiceInv'
<1> SUFFICES ASSUME ServiceInv, AdoptDriver PROVE ServiceInv'
  OBVIOUS
<1>1. PICK limit \in {1, DefaultMax} : Client!NewFrom(limit)
  BY DEF AdoptDriver
<1>2. LoaderInv'
  BY <1>1, DroppedInv DEF ServiceInv, LoaderInv, AdoptDriver, Client!NewFrom
<1>3. MainInv'
  <2>1. client' # Client!NoClient /\ loading' = "dropped"
    BY <1>1, IsClient DEF Client!NewFrom, AdoptDriver, DropConfig
  <2> QED
    BY <1>1, <2>1 DEF ServiceInv, MainInv, Client!NewFrom
<1>4. CallInv'
  BY <1>1 DEF ServiceInv, CallInv, Client!NewFrom, Client!InFlight
<1> QED
  BY <1>2, <1>3, <1>4 DEF ServiceInv

\* NewClient returns with a client, or closes the driver.
LEMMA ClientMadeInv == ServiceInv /\ ClientMade => ServiceInv'
<1> SUFFICES ASSUME ServiceInv, ClientMade PROVE ServiceInv'
  OBVIOUS
<1>1. kind' = kind /\ call' = call /\ main.pc = "ping"
  BY DEF ClientMade, Client!PingSucceeds, Client!PingFails, Client!PingGivesUp
<1>2. LoaderInv'
  BY <1>1, DroppedInv DEF ServiceInv, LoaderInv, ClientMade
<1>3. MainInv'
  <2>0. loading' = "dropped"
    BY DEF ClientMade, DropConfig
  <2>1. CASE Client!PingSucceeds
    <3>1. client' # Client!NoClient
      BY <2>1, IsClient DEF Client!PingSucceeds
    <3> QED
      BY <2>0, <2>1, <3>1 DEF ServiceInv, MainInv, Client!PingSucceeds
  <2>2. ASSUME NEW root, root \notin {"nil", "config"}, Client!PingFails(root)
        PROVE  MainInv'
    <3>1. Client!Wrap(Client!Native(root), Client!CodeUnavailableDependency).root = root
      BY <2>2, WrapFails, SameErrors
    <3> QED
      BY <2>0, <2>2, <3>1 DEF ServiceInv, MainInv, Client!PingFails
  <2>3. CASE Client!PingGivesUp
    BY <2>2, <2>3 DEF Client!PingGivesUp, Client!ContextErrors
  <2> QED
    BY <2>1, <2>2, <2>3 DEF ClientMade
<1>4. CallInv'
  BY <1>1 DEF ServiceInv, CallInv, Client!InFlight
<1> QED
  BY <1>2, <1>3, <1>4 DEF ServiceInv

\* Steps of the client that the loader has no part in.
LEMMA BesideLoader ==
    ASSUME ServiceInv, UNCHANGED loader
    PROVE  /\ LoaderInv' /\ kind' = kind /\ Nested' = Nested
           /\ loading' = loading /\ RefusedLater(config)' = RefusedLater(config)
<1>1. kind' = kind /\ config' = config
  BY DEF loader
<1>2. RefusedLater(config)' = RefusedLater(config)
  BY <1>1 DEF RefusedLater, LeftToDriver
<1> QED
  BY <1>2, LoaderStutter DEF ServiceInv, loader, Nested

\* Time and cancellation close nothing by themselves.
LEMMA MainTimeInv ==
    ServiceInv /\ (Client!MainExpires \/ Client!MainCanceled) /\ UNCHANGED loader => ServiceInv'
<1> SUFFICES ASSUME ServiceInv, Client!MainExpires \/ Client!MainCanceled, UNCHANGED loader
             PROVE  ServiceInv'
  OBVIOUS
<1>1. MainInv'
  BY BesideLoader DEF ServiceInv, MainInv, Client!MainExpires, Client!MainCanceled
<1>2. CallInv'
  BY DEF ServiceInv, CallInv, Client!InFlight, Client!MainExpires, Client!MainCanceled
<1> QED
  BY <1>1, <1>2, BesideLoader DEF ServiceInv

\* Close closes the driver, of postgres in two steps.
LEMMA ClosingInv ==
    ServiceInv /\ (Client!Close \/ Client!Closed) /\ UNCHANGED loader => ServiceInv'
<1> SUFFICES ASSUME ServiceInv, Client!Close \/ Client!Closed, UNCHANGED loader
             PROVE  ServiceInv'
  OBVIOUS
<1>0. main = [pc |-> main.pc, ctx |-> main.ctx, err |-> main.err]
  BY DEF ServiceInv, MainInv
<1>1. MainInv'
  <2>1. main.pc \in {"serve", "close"} /\ main.err.root # "config" /\ loading = "dropped"
    BY <1>0, ClosingStep DEF ServiceInv, MainInv
  <2>2. main'.err.root # "config"
    <3>1. Wrap(Native("close"), Client!CodeInternalDatabase).root = "close"
      BY WrapFails
    <3> QED
      BY <1>0, <2>1, <3>1, ClosingStep, CloseRoots DEF NoError, Native
  <2> QED
    BY <1>0, <2>1, <2>2, ClosingStep, BesideLoader DEF ServiceInv, MainInv
<1>2. CallInv'
  BY <1>0, ClosingStep DEF ServiceInv, CallInv, Client!InFlight
<1> QED
  BY <1>1, <1>2, BesideLoader DEF ServiceInv

\* An operation that returns has ended its span and closed its session.
LEMMA ReturnInv ==
    ASSUME CallInv, NEW g \in Goroutines, NEW root, Client!InFlight(g), Client!Return(g, root)
    PROVE  CallInv'
<1> DEFINE result == [Client!Idle EXCEPT
                         !.shape = call[g].shape,
                         !.err = Client!Outcome(call[g].shape,
                                    IF root = "nil" THEN Client!NoError
                                    ELSE Client!Native(root)),
                         !.spans = call[g].spans - 1]
<1>1. call' = [call EXCEPT ![g] = result]
  BY DEF Client!Return
<1>2. result.pc = "idle" /\ ~result.session
  BY DEF Client!Idle
<1>3. result.spans = 0
  <2>1. call[g].spans = 1
    BY DEF CallInv
  <2>2. result.spans = call[g].spans - 1
    BY DEF Client!Idle
  <2> QED
    BY <2>1, <2>2
<1>4. {"pc", "ctx", "spans", "session", "shape"} \subseteq DOMAIN result
  BY DEF Client!Idle
<1> HIDE DEF result
<1> QED
  BY <1>1, <1>2, <1>3, <1>4 DEF CallInv, Client!InFlight

\* No step of a goroutine leaves a span or a session behind.
LEMMA UseInv ==
    ASSUME CallInv, NEW g \in Goroutines, Client!Use(g)
    PROVE  CallInv'
<1>1. ASSUME NEW shape, NEW ctx, Client!Begin(g, shape, ctx)
      PROVE  CallInv'
  <2> DEFINE new == [Client!Idle EXCEPT
                       !.pc = IF kind = "postgres" THEN "acquire" ELSE "sent",
                       !.shape = shape,
                       !.ctx = IF shape = "health" THEN Client!HealthDeadline(ctx) ELSE ctx,
                       !.spans = 1,
                       !.session = Client!InSession(shape)]
  <2>1. call' = [call EXCEPT ![g] = new]
    BY <1>1 DEF Client!Begin
  <2>2. new.pc # "idle" /\ new.spans = 1 /\ new.shape = shape
    BY DEF Client!Idle
  <2>3. new.session <=> Client!InSession(shape)
    BY DEF Client!Idle
  <2>4. {"pc", "ctx", "spans", "session", "shape"} \subseteq DOMAIN new
    BY DEF Client!Idle
  <2> HIDE DEF new
  <2> QED
    BY <2>1, <2>2, <2>3, <2>4 DEF CallInv, Client!InFlight
<1>2. ASSUME Client!HandOut(g) \/ Client!Release(g)
      PROVE  CallInv'
  BY <1>2 DEF CallInv, Client!InFlight, Client!HandOut, Client!Release
<1>3. ASSUME NEW pc, pc # "idle", Client!InFlight(g), call' = [call EXCEPT ![g].pc = pc]
      PROVE  CallInv'
  BY <1>3 DEF CallInv, Client!InFlight
<1>4. ASSUME NEW ctx, call' = [call EXCEPT ![g].ctx = ctx]
      PROVE  CallInv'
  BY <1>4 DEF CallInv, Client!InFlight
<1>5. CASE Client!Acquire(g) \/ Client!Collect(g) \/ Client!Repeat(g)
  BY <1>3, <1>5 DEF Client!Acquire, Client!Collect, Client!Repeat, Client!InFlight
<1>6. CASE Client!Expire(g) \/ Client!Cancel(g)
  BY <1>4, <1>6 DEF Client!Expire, Client!Cancel
<1>7. CASE Client!ServerAnswers(g) \/ Client!GiveUp(g) \/ Client!Rejected(g)
  <2>1. Client!InFlight(g) /\ \E root : Client!Return(g, root)
    BY <1>7 DEF Client!ServerAnswers, Client!GiveUp, Client!Rejected, Client!InFlight
  <2> QED
    BY <2>1, ReturnInv
<1> QED
  BY <1>1, <1>2, <1>5, <1>6, <1>7 DEF Client!Use

\* Operations leave the main goroutine and the driver alone.
LEMMA OperationInv ==
    ASSUME ServiceInv, NEW g \in Goroutines, Client!Use(g), UNCHANGED loader
    PROVE  ServiceInv'
<1>1. main' = main /\ client' = client /\ driver' = driver
  BY DEF Client!Use, Client!Begin, Client!HandOut, Client!Acquire, Client!Collect,
         Client!Repeat, Client!ServerAnswers, Client!GiveUp, Client!Rejected,
         Client!Return, Client!Expire, Client!Cancel, Client!Release
<1>2. MainInv'
  BY <1>1, BesideLoader DEF ServiceInv, MainInv
<1>3. CallInv'
  BY UseInv DEF ServiceInv
<1> QED
  BY <1>2, <1>3, BesideLoader DEF ServiceInv

\* Nothing happens.
LEMMA ServiceStutter == ServiceInv /\ UNCHANGED service => ServiceInv'
<1> SUFFICES ASSUME ServiceInv, UNCHANGED service PROVE ServiceInv'
  OBVIOUS
<1>1. UNCHANGED loader
  BY DEF service
<1>2. MainInv' /\ CallInv'
  BY <1>1, BesideLoader DEF service, ServiceInv, MainInv, CallInv, Client!InFlight
<1> QED
  BY <1>1, <1>2, BesideLoader DEF ServiceInv

\* Every step of the service preserves the invariant,
LEMMA ServiceStep == ServiceInv /\ [ServiceNext]_service => ServiceInv'
  BY LoadConfigInv, MakeClientInv, AdoptDriverInv, ClientMadeInv, MainTimeInv,
     ClosingInv, OperationInv, ServiceStutter DEF ServiceNext

\* which therefore always holds.
LEMMA ServiceInvariant == ServiceSpec => []ServiceInv
  BY ServiceInitInv, ServiceStep, PTL DEF ServiceSpec
-----------------------------------------------------------------------------
\* Whatever is loaded and whatever the client does, the configuration that Load
\* accepted has the value of its highest layer in every field
\* (config/loader.go:111-115).
THEOREM ServiceLayersInOrder == ServiceSpec => []LayersInOrder
<1>1. ServiceInv => LayersInOrder
  BY LoadedIsLayered DEF ServiceInv
<1> QED
  BY <1>1, ServiceInvariant, PTL

\* The load of a service fails only for a documented reason and with its code,
\* and the failed struct can be traced to its layers, whatever becomes of the
\* configuration after a load that succeeds (config/loader.go:121-124).
THEOREM ServiceRefusesForAReason == ServiceSpec => []LoadRefusesForAReason
<1> DEFINE Inv == Prepared /\ LoadRefusesForAReason
<1>1. ServiceInit => Inv
  BY InitPrepared DEF ServiceInit, Init, LoadRefusesForAReason
<1>2. ServiceInv /\ ServiceInv' /\ Inv /\ [ServiceNext]_service => Inv'
  <2> SUFFICES ASSUME ServiceInv', Inv, [ServiceNext]_service PROVE Inv'
    OBVIOUS
  <2>1. LoaderInv'
    BY DEF ServiceInv
  <2>2. CASE LoadConfig
    BY <2>1, <2>2, RefusalStep DEF LoadConfig, Load, Prepared
  <2>3. CASE AdoptDriver \/ ClientMade
    BY <2>1, <2>3 DEF AdoptDriver, ClientMade, DropConfig, Prepared, LoadRefusesForAReason
  <2>4. CASE UNCHANGED loader
    BY <2>1, <2>4 DEF loader, Prepared, LoadRefusesForAReason, Nested, Layered
  <2> QED
    BY <2>2, <2>3, <2>4 DEF ServiceNext, MakeClient, service
<1> QED
  BY <1>1, <1>2, ServiceInvariant, PTL DEF ServiceSpec

\* No failing path of NewClient and no Close leaves a driver open, and nobody
\* has a client without a driver (postgres/client.go:127-128).
THEOREM ServiceNoDriverLeaked == ServiceSpec => []NoDriverLeaked
<1>1. ServiceInv => NoDriverLeaked
  BY DEF ServiceInv, MainInv, NoDriverLeaked, Client!NoDriverLeaked
<1> QED
  BY <1>1, ServiceInvariant, PTL

\* However many goroutines use the client, an operation that came back ended its
\* span once and closed its session (neo4j/client.go:292-302).
THEOREM ServiceNothingLeftBehind == ServiceSpec => []NothingLeftBehind
<1>1. ServiceInv => NothingLeftBehind
  BY DEF ServiceInv, CallInv, NothingLeftBehind, Client!NothingLeftBehind
<1> QED
  BY <1>1, ServiceInvariant, PTL
-----------------------------------------------------------------------------
\* What a wrapped error of a driver says is what its code says.
LEMMA WrappedNative ==
    ASSUME NEW root, root # "nil", NEW code
    PROVE  LET w == Client!Wrap(Client!Native(root), code)
           IN  /\ w # Client!NoError /\ w.root = root
               /\ Client!IsRetryable(w) <=> code[1] \in {"TIMEOUT", "UNAVAIL"}
<1> DEFINE w == Client!Wrap(Client!Native(root), code)
<1>1. Client!Native(root) # Client!NoError
  BY DEF Client!Native, Client!NoError
<1>2. w = [codes |-> <<code>>, root |-> root]
  BY <1>1 DEF Client!Wrap, Client!Native
<1>3. <<code>> # <<>> /\ Head(<<code>>) = code
  OBVIOUS
<1> HIDE DEF w
<1>4. w # Client!NoError /\ w.root = root
  BY <1>2 DEF Client!NoError
<1>5. Client!AsError(w) /\ Client!GetCode(w) = code
  BY <1>2, <1>3 DEF Client!AsError, Client!GetCode
<1>6. Client!IsRetryable(w) <=> code[1] \in {"TIMEOUT", "UNAVAIL"}
  BY <1>5 DEF Client!IsRetryable, Client!Category
<1> QED
  BY <1>4, <1>6 DEF w

\* The error of one operation.
Truthful(shape, err) ==
    err # Client!NoError =>
        IF shape = "health"
        THEN err.root \notin {"Canceled", "closed"} => Client!IsRetryable(err)
        ELSE Client!IsRetryable(err) <=> err.root \in {"DeadlineExceeded", "grpcDeadline"}

\* The ways for an operation to end in this package.
Roots == {"nil", "server", "closed", "DeadlineExceeded", "Canceled"}
            \cup (IF kind = "qdrant" THEN {"grpcDeadline"} ELSE {})

\* What the caller gets says truthfully whether to try again.
LEMMA OutcomeTruthful ==
    ASSUME NEW shape, NEW root \in Roots
    PROVE  Truthful(shape, Client!Outcome(shape,
                IF root = "nil" THEN Client!NoError ELSE Client!Native(root)))
<1>1. CASE root = "nil"
  <2>1. \A code : Client!Wrap(Client!NoError, code) = Client!NoError
    BY DEF Client!Wrap
  <2>2. Client!wrapError(Client!NoError) = Client!NoError
    BY <2>1 DEF Client!wrapError
  <2>3. Client!Outcome(shape, Client!NoError) = Client!NoError
    BY <2>1, <2>2 DEF Client!Outcome
  <2> QED
    BY <1>1, <2>3 DEF Truthful
<1>2. CASE root # "nil"
  <2> DEFINE err == Client!Native(root)
             late == root \in {"DeadlineExceeded", "grpcDeadline"}
  <2>1. Client!IsTimeout(err) <=> late
    BY DEF Client!IsTimeout, Client!QdrantTimeout, Client!Is, Client!Native, Roots
  <2>2. /\ Client!CodeTimeoutDatabase[1] = "TIMEOUT"
        /\ Client!CodeInternalDatabase[1] = "INT"
        /\ Client!CodeUnavailableDependency[1] = "UNAVAIL"
    BY DEF Client!CodeTimeoutDatabase, Client!CodeInternalDatabase,
           Client!CodeUnavailableDependency
  <2> HIDE DEF err
  <2>3. CASE shape = "health"
    <3>1. Client!Outcome(shape, err) = Client!Wrap(err, Client!CodeUnavailableDependency)
      BY <2>3 DEF Client!Outcome
    <3>2. Client!IsRetryable(Client!Wrap(err, Client!CodeUnavailableDependency))
      BY <1>2, <2>2, WrappedNative DEF err
    <3> QED
      BY <1>2, <2>3, <3>1, <3>2 DEF Truthful, err
  <2>4. CASE shape = "lazy"
    BY <1>2, <2>4 DEF Client!Outcome, Truthful
  <2>5. CASE shape \notin {"health", "lazy"}
    <3>1. Client!Outcome(shape, err) = Client!wrapError(err)
      BY <2>5 DEF Client!Outcome
    <3>2. Client!wrapError(err) = Client!Wrap(err,
             IF late THEN Client!CodeTimeoutDatabase ELSE Client!CodeInternalDatabase)
      BY <2>1 DEF Client!wrapError
    <3> DEFINE w == Client!wrapError(err)
    <3>3. w.root = root /\ (Client!IsRetryable(w) <=> late)
      <4>1. CASE late
        BY <1>2, <2>2, <3>2, <4>1, WrappedNative DEF err
      <4>2. CASE ~late
        BY <1>2, <2>2, <3>2, <4>2, WrappedNative DEF err
      <4> QED
        BY <4>1, <4>2
    <3> QED
      BY <1>2, <2>5, <3>1, <3>3 DEF Truthful, err
  <2> QED
    BY <2>3, <2>4, <2>5
<1> QED
  BY <1>1, <1>2

Late == {"DeadlineExceeded", "grpcDeadline"}

\* The error that NewClient or Close returned.
MainTruthful(err) ==
    err.root \notin {"nil", "Canceled"} \cup Client!MisreportedFaults =>
        (Client!IsRetryable(err) <=> err.root \in {"refused"} \cup Late)

RetryInv ==
    /\ \A g \in Goroutines : Truthful(call[g].shape, call[g].err)
    /\ MainTruthful(main.err)

\* No error is an error that says nothing.
LEMMA NoErrorTruthful == MainTruthful(Client!NoError)
  BY DEF MainTruthful, Client!NoError

\* A wrapped error is truthful when its code can be retried exactly where the
\* server is away or late.
LEMMA NativeTruthful ==
    ASSUME NEW root, root # "nil", NEW code,
           \/ root \in {"Canceled"} \cup Client!MisreportedFaults
           \/ code[1] \in {"TIMEOUT", "UNAVAIL"} <=> root \in {"refused"} \cup Late
    PROVE  MainTruthful(Client!Wrap(Client!Native(root), code))
<1> DEFINE w == Client!Wrap(Client!Native(root), code)
<1>1. w.root = root /\ (Client!IsRetryable(w) <=> code[1] \in {"TIMEOUT", "UNAVAIL"})
  BY WrappedNative
<1> HIDE DEF w
<1>2. MainTruthful(w)
  BY <1>1 DEF MainTruthful
<1> QED
  BY <1>2 DEF w

\* What making a driver finds wrong with a configuration is not called retryable,
\* but for the faults named in the property.
LEMMA CreationTruthful ==
    ASSUME NEW c, NEW err \in Client!CreationErrors(c), kind \in Kinds
    PROVE  MainTruthful(err)
<1> DEFINE E(root, code) == Client!Wrap(Client!Native(root), code)
<1>0. /\ Client!CodeValidation[1] = "VAL"
      /\ Client!CodeInternalConfiguration[1] = "INT"
      /\ Client!CodeInternalDatabase[1] = "INT"
  BY DEF Client!CodeValidation, Client!CodeInternalConfiguration, Client!CodeInternalDatabase
<1>1. /\ MainTruthful(E("parse", Client!CodeValidation))
      /\ MainTruthful(E("tls", Client!CodeInternalConfiguration))
      /\ MainTruthful(E("create", Client!CodeInternalDatabase))
      /\ MainTruthful(E("settings", Client!CodeUnavailableDependency))
  <2>1. {"parse", "tls", "create"} \cap ({"nil", "refused"} \cup Late) = {}
    BY DEF Late
  <2>2. MainTruthful(E("parse", Client!CodeValidation))
    BY <1>0, <2>1, NativeTruthful
  <2>3. MainTruthful(E("tls", Client!CodeInternalConfiguration))
    BY <1>0, <2>1, NativeTruthful
  <2>4. MainTruthful(E("create", Client!CodeInternalDatabase))
    BY <1>0, <2>1, NativeTruthful
  <2>5. "settings" \in Client!MisreportedFaults
    BY DEF Client!MisreportedFaults
  <2>6. MainTruthful(E("settings", Client!CodeUnavailableDependency))
    BY <2>5, NativeTruthful
  <2> QED
    BY <2>2, <2>3, <2>4, <2>6
<1>2. CASE kind = "postgres"
  <2>1. err \in {E("parse", Client!CodeValidation),
                 E("tls", Client!CodeInternalConfiguration),
                 E("settings", Client!CodeUnavailableDependency), Client!NoError}
    BY <1>2 DEF Client!CreationErrors, Client!PostgresCreation
  <2> QED
    BY <1>1, <2>1, NoErrorTruthful
<1>3. CASE kind = "redis"
  <2>1. err \in {E("parse", Client!CodeValidation), Client!NoError}
    BY <1>3 DEF Client!CreationErrors, Client!RedisCreation
  <2> QED
    BY <1>1, <2>1, NoErrorTruthful
<1>4. CASE kind = "neo4j"
  <2>1. err = Client!Neo4jCreation(c)
    BY <1>4 DEF Client!CreationErrors
  <2>2. err \in {E("create", Client!CodeInternalDatabase), Client!NoError}
    BY <2>1 DEF Client!Neo4jCreation
  <2> QED
    BY <1>1, <2>2, NoErrorTruthful
<1>5. CASE kind = "qdrant"
  <2>1. err \in {E("create", Client!CodeUnavailableDependency), Client!NoError}
    BY <1>5 DEF Client!CreationErrors, Client!QdrantCreation
  <2>2. "create" \in Client!MisreportedFaults
    BY <1>5 DEF Client!MisreportedFaults
  <2>3. MainTruthful(E("create", Client!CodeUnavailableDependency))
    BY <2>2, NativeTruthful
  <2> QED
    BY <2>1, <2>3, NoErrorTruthful
<1>6. CASE kind = "minio"
  <2>1. err \in {E("create", Client!CodeInternalDatabase), Client!NoError}
    BY <1>6 DEF Client!CreationErrors, Client!MinioCreation
  <2> QED
    BY <1>1, <2>1, NoErrorTruthful
<1> QED
  BY <1>2, <1>3, <1>4, <1>5, <1>6 DEF Kinds

\* No step of a goroutine makes an error untruthful.
LEMMA UseTruthful ==
    ASSUME CallInv, RetryInv, NEW g \in Goroutines, Client!Use(g)
    PROVE  \A h \in Goroutines : Truthful(call[h].shape, call[h].err)'
<1>1. ASSUME NEW result, call' = [call EXCEPT ![g] = result],
             Truthful(result.shape, result.err)
      PROVE  \A h \in Goroutines : Truthful(call[h].shape, call[h].err)'
  BY <1>1 DEF CallInv, RetryInv, Truthful
<1>2. ASSUME NEW shape, NEW ctx, Client!Begin(g, shape, ctx)
      PROVE  \A h \in Goroutines : Truthful(call[h].shape, call[h].err)'
  <2> DEFINE new == [Client!Idle EXCEPT
                       !.pc = IF kind = "postgres" THEN "acquire" ELSE "sent",
                       !.shape = shape,
                       !.ctx = IF shape = "health" THEN Client!HealthDeadline(ctx) ELSE ctx,
                       !.spans = 1,
                       !.session = Client!InSession(shape)]
  <2>1. call' = [call EXCEPT ![g] = new]
    BY <1>2 DEF Client!Begin
  <2>2. new.err = Client!NoError
    BY DEF Client!Idle
  <2> HIDE DEF new
  <2> QED
    BY <1>1, <2>1, <2>2 DEF Truthful
<1>3. CASE Client!HandOut(g) \/ Client!Release(g)
  BY <1>3 DEF RetryInv, Truthful, Client!HandOut, Client!Release
<1>4. ASSUME NEW pc, call' = [call EXCEPT ![g].pc = pc]
      PROVE  \A h \in Goroutines : Truthful(call[h].shape, call[h].err)'
  BY <1>4 DEF CallInv, RetryInv, Truthful
<1>5. ASSUME NEW ctx, call' = [call EXCEPT ![g].ctx = ctx]
      PROVE  \A h \in Goroutines : Truthful(call[h].shape, call[h].err)'
  BY <1>5 DEF CallInv, RetryInv, Truthful
<1>6. CASE Client!Acquire(g) \/ Client!Collect(g) \/ Client!Repeat(g)
  BY <1>4, <1>6 DEF Client!Acquire, Client!Collect, Client!Repeat
<1>7. CASE Client!Expire(g) \/ Client!Cancel(g)
  BY <1>5, <1>7 DEF Client!Expire, Client!Cancel
<1>8. CASE Client!ServerAnswers(g) \/ Client!GiveUp(g) \/ Client!Rejected(g)
  <2>1. PICK root \in Roots : Client!Return(g, root)
    BY <1>8 DEF Client!ServerAnswers, Client!GiveUp, Client!Rejected, Client!ContextErrors, Roots
  <2> DEFINE result == [Client!Idle EXCEPT
                           !.shape = call[g].shape,
                           !.err = Client!Outcome(call[g].shape,
                                      IF root = "nil" THEN Client!NoError
                                      ELSE Client!Native(root)),
                           !.spans = call[g].spans - 1]
  <2>2. call' = [call EXCEPT ![g] = result]
    BY <2>1 DEF Client!Return
  <2>3. /\ result.shape = call[g].shape
        /\ result.err = Client!Outcome(call[g].shape,
                           IF root = "nil" THEN Client!NoError ELSE Client!Native(root))
    BY DEF Client!Idle
  <2> HIDE DEF result
  <2> QED
    BY <1>1, <2>2, <2>3, OutcomeTruthful
<1> QED
  BY <1>2, <1>3, <1>6, <1>7, <1>8 DEF Client!Use

\* The kind of a service is chosen once.
LEMMA KindStays == [ServiceNext]_service => kind' = kind
  BY DEF ServiceNext, LoadConfig, Load, MakeClient, Client!NewClient, AdoptDriver,
         Client!NewFrom, ClientMade, Client!PingSucceeds, Client!PingFails,
         Client!PingGivesUp, service, loader

\* The error of main only changes where NewClient or Close returns.
LEMMA MainStepTruthful ==
    ASSUME ServiceInv, RetryInv, [ServiceNext]_service
    PROVE  MainTruthful(main.err)'
<1>0. kind' = kind
  BY KindStays
<1>1. main = [pc |-> main.pc, ctx |-> main.ctx, err |-> main.err] /\ kind \in Kinds
  BY DEF ServiceInv, MainInv, LoaderInv
<1>5. CASE main'.err = main.err
  BY <1>0, <1>5 DEF RetryInv, MainTruthful, Client!MisreportedFaults
<1>2. CASE MakeClient
  <2>1. PICK ctx, c : Client!NewClient(ctx, c)
    BY <1>2 DEF MakeClient
  <2> DEFINE v == Client!Validate(kind, c)
             refused == Client!Wrap(Client!Native("config"), Client!CodeValidation)
  <2>2. PICK err \in IF v.ok THEN Client!CreationErrors(v.config) ELSE {refused} :
           \/ main' = [main EXCEPT !.pc = "ping", !.ctx = Client!FirstDeadline(ctx, v.config)]
           \/ main' = [main EXCEPT !.pc = "end", !.err = err]
    BY <2>1 DEF Client!NewClient
  <2>3. MainTruthful(refused)
    <3>1. Client!CodeValidation[1] = "VAL"
      BY DEF Client!CodeValidation
    <3> QED
      BY <3>1, NativeTruthful DEF Late
  <2> HIDE DEF v, refused
  <2>4. MainTruthful(err) /\ MainTruthful(main.err)
    BY <1>1, <2>2, <2>3, CreationTruthful DEF RetryInv
  <2>5. main'.err \in {err, main.err}
    BY <1>1, <2>2
  <2> QED
    BY <1>0, <2>4, <2>5 DEF MainTruthful, Client!MisreportedFaults
<1>3. CASE ClientMade
  <2>1. ASSUME NEW root \in {"refused", "Canceled"} \cup Late, Client!PingFails(root)
        PROVE  MainTruthful(main.err)'
    <3>1. Client!CodeUnavailableDependency[1] = "UNAVAIL"
      BY DEF Client!CodeUnavailableDependency
    <3> DEFINE err == Client!Wrap(Client!Native(root), Client!CodeUnavailableDependency)
    <3>2. MainTruthful(err)
      BY <2>1, <3>1, NativeTruthful DEF Late
    <3>3. main'.err = err
      BY <2>1 DEF Client!PingFails
    <3> HIDE DEF err
    <3> QED
      BY <1>0, <3>2, <3>3 DEF MainTruthful, Client!MisreportedFaults
  <2>2. CASE Client!PingSucceeds
    BY <1>1, <1>5, <2>2 DEF Client!PingSucceeds
  <2>3. CASE Client!PingFails("refused")
    BY <2>1, <2>3
  <2>4. CASE Client!PingGivesUp
    BY <2>1, <2>4 DEF Client!PingGivesUp, Client!ContextErrors, Late
  <2> QED
    BY <1>3, <2>2, <2>3, <2>4 DEF ClientMade
<1>4. CASE Client!Close \/ Client!Closed
  <2>1. MainTruthful(Client!Wrap(Client!Native("close"), Client!CodeInternalDatabase))
    BY NativeTruthful DEF Client!CodeInternalDatabase, Late
  <2>2. MainTruthful(Client!Native("close"))
    BY DEF MainTruthful, Client!Native, Client!IsRetryable, Client!AsError, Late
  <2>3. \A err \in Client!CloseErrors : MainTruthful(err)
    BY <2>1, <2>2, NoErrorTruthful DEF Client!CloseErrors, Client!Neo4jCloseErrors
  <2>4. MainTruthful(main'.err)
    BY <1>1, <1>4, <2>3, ClosingStep DEF RetryInv
  <2> QED
    BY <1>0, <2>4 DEF MainTruthful, Client!MisreportedFaults
<1>6. CASE \E g \in Goroutines : Client!Use(g)
  BY <1>5, <1>6 DEF Client!Use, Client!Begin, Client!HandOut, Client!Acquire, Client!Collect,
         Client!Repeat, Client!ServerAnswers, Client!GiveUp, Client!Rejected,
         Client!Return, Client!Expire, Client!Cancel, Client!Release
<1>7. CASE LoadConfig \/ AdoptDriver \/ UNCHANGED service
  BY <1>1, <1>5, <1>7 DEF LoadConfig, AdoptDriver, Client!NewFrom, service
<1>8. CASE Client!MainExpires \/ Client!MainCanceled
  BY <1>1, <1>5, <1>8 DEF Client!MainExpires, Client!MainCanceled
<1> QED
  BY <1>2, <1>3, <1>4, <1>6, <1>7, <1>8 DEF ServiceNext

\* The errors of the service stay truthful.
LEMMA RetryStep == ServiceInv /\ RetryInv /\ [ServiceNext]_service => RetryInv'
<1> SUFFICES ASSUME ServiceInv, RetryInv, [ServiceNext]_service
             PROVE  \A g \in Goroutines : Truthful(call[g].shape, call[g].err)'
  BY MainStepTruthful DEF RetryInv
<1>1. CASE \E g \in Goroutines : Client!Use(g)
  BY <1>1, UseTruthful DEF ServiceInv
<1>2. CASE call' = call
  BY <1>2 DEF RetryInv, Truthful
<1>3. CASE LoadConfig \/ MakeClient \/ AdoptDriver \/ ClientMade \/ UNCHANGED service
  BY <1>2, <1>3 DEF LoadConfig, MakeClient, AdoptDriver, ClientMade, service,
         Client!NewClient, Client!NewFrom, Client!PingSucceeds, Client!PingFails,
         Client!PingGivesUp
<1>4. CASE \/ Client!MainExpires \/ Client!MainCanceled
          \/ Client!Close \/ Client!Closed
  BY <1>2, <1>4 DEF Client!MainExpires, Client!MainCanceled, Client!Close, Client!Closed
<1> QED
  BY <1>1, <1>3, <1>4 DEF ServiceNext

\* However many goroutines fail in whatever way: the error of an operation calls
\* itself retryable exactly when a deadline cut it short, that of a health check
\* when the server is at fault or late, that of NewClient or Close exactly when
\* the server is not there or late (errors/checks.go:153-164).  Not claimed: of a
\* call that its caller canceled; and of a limit below one next to a URI and of
\* what the library of qdrant refuses, which the code reports as retryable
\* (postgres/client.go:177-181, qdrant/client.go:165-168).
THEOREM ServiceRetryTellsTheTruth == ServiceSpec => []RetryTellsTheTruth
<1>1. ServiceInit => RetryInv
  <2> SUFFICES ASSUME ServiceInit PROVE RetryInv
    OBVIOUS
  <2>1. main.err = Client!NoError
    BY DEF ServiceInit, Client!Init
  <2>2. \A g \in Goroutines : call[g].err = Client!NoError
    BY DEF ServiceInit, Client!Init, Client!Idle
  <2> QED
    BY <2>1, <2>2, NoErrorTruthful DEF RetryInv, Truthful
<1>2. RetryInv => RetryTellsTheTruth
  BY DEF RetryInv, Truthful, MainTruthful, Late,
         RetryTellsTheTruth, Client!RetryTellsTheTruth
<1> QED
  BY <1>1, <1>2, RetryStep, ServiceInvariant, PTL DEF ServiceSpec
=============================================================================
