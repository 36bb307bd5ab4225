----------------------------- MODULE ConfigLoader -----------------------------
(***************************************************************************)
(* Loader.Load of pkg/config for a struct that is the Config of a database *)
(* client, or that has one nested in it next to a field of its own, "app", *)
(* with the tags env, envDefault and required:"true".  Load walks the      *)
(* struct four times; nobody else has the struct meanwhile, so Load is one *)
(* step, and its phases are operators from a struct to a result.           *)
(*                                                                         *)
(* A file or the environment is a function from the fields it sets to the  *)
(* values, Garbled standing for text of the wrong type.  Names, prefixes   *)
(* and the two file formats are left out.                                  *)
(***************************************************************************)
EXTENDS ClientConfig, ErrorCodes, FiniteSets

CONSTANTS
    Garbled,        \* a value that cannot be parsed
    NoTag,          \* no envDefault tag
    Values,         \* Values[f]: what is written for the field f
    MaxSet          \* bound: fields set by the file and the environment

\* What is not Garbled has the type of its field.
ASSUME ValuesOfNumbers == \A f \in Numbers : Values[f] \subseteq Int

\* A tag that cannot be parsed is a tag.
ASSUME GarbledIsATag == Garbled # NoTag

VARIABLES
    kind,           \* which of the five structs
    tag,            \* the envDefault tag of the field app, if there is one
    preset,         \* the struct before Load
    config,         \* the struct
    broken,         \* the file cannot be read, or a field of it has another type
    file,           \* what the file says
    env,            \* what the environment says
    loading,        \* "before", "ok", "failed", or "dropped" by the service
    loadErr         \* the error that Load returned

loader == <<kind, tag, preset, config, broken, file, env, loading, loadErr>>

None == [f \in {} |-> ""]

Nested == "app" \in DOMAIN preset

\* A struct and the error of the phase that left it behind.
Result(c, err) == [config |-> c, err |-> err]

Overlay(c, layer) == [f \in DOMAIN c |-> IF f \in DOMAIN layer THEN layer[f] ELSE c[f]]

\* applyDefaults: only zero fields, only where there is a tag.
applyDefaults(c) ==
    IF "app" \in DOMAIN c /\ tag # NoTag /\ c["app"] = ""
    THEN IF tag = Garbled
         THEN Result(c, Wrap(Native("parse"), CodeInternalConfiguration))
         ELSE Result([c EXCEPT !["app"] = tag], NoError)
    ELSE Result(c, NoError)

\* loadFile: what cannot be read or parsed sets nothing; a field of another
\* type is an error, and the other fields are set all the same.
loadFile(c, how, f) ==
    CASE how = "file"  -> Result(c, Wrap(Native("file"), CodeInternalConfiguration))
      [] how = "field" -> Result(Overlay(c, f), Wrap(Native("type"), CodeInternalConfiguration))
      [] how = "no"    -> Result(Overlay(c, f), NoError)

\* The place of a field in the order of the walk; the nested struct comes
\* behind the field app.
Place(k, f) ==
    IF f = "app" THEN 0 ELSE CHOOSE i \in DOMAIN FieldOrder(k) : FieldOrder(k)[i] = f

\* Variant: a value that cannot be parsed is skipped.
applyEnvLeniently(c, e) ==
    Result(Overlay(c, [f \in {x \in DOMAIN e : e[x] # Garbled} |-> e[f]]), NoError)

\* applyEnv stops at the first value that cannot be parsed.
applyEnv(c, e) ==
    LET bad     == {f \in DOMAIN e : e[f] = Garbled}
        applied == {f \in DOMAIN e : \A b \in bad : Place(kind, f) < Place(kind, b)}
    IN  Result(Overlay(c, [f \in applied |-> e[f]]),
               IF bad = {} THEN NoError
               ELSE Wrap(Native("parse"), CodeInternalConfiguration))

\* validate: required fields first, then the struct's own Validate.  Only the
\* outermost struct is asked whether it has one.
validate(c) ==
    IF "app" \in DOMAIN c
    THEN Result(c, IF c["app"] = "" THEN New(CodeValidationRequired) ELSE NoError)
    ELSE LET v == Validate(kind, c)
         IN  Result(v.config,
                    IF v.ok THEN NoError ELSE Wrap(Native("config"), CodeValidation))
-----------------------------------------------------------------------------
\* Variant: the file is read after the environment.
LoadedFileLast(how, f, e) ==
    LET d == applyDefaults(config)
        v == applyEnv(d.config, e)
        r == loadFile(v.config, how, f)
    IN  IF d.err # NoError THEN d
        ELSE IF v.err # NoError THEN v
        ELSE IF r.err # NoError THEN r
        ELSE validate(r.config)

\* The first phase that fails ends the load and leaves its struct behind.
Loaded(how, f, e) ==
    LET d == applyDefaults(config)
        r == loadFile(d.config, how, f)
        v == applyEnv(r.config, e)
    IN  IF d.err # NoError THEN d
        ELSE IF r.err # NoError THEN r
        ELSE IF v.err # NoError THEN v
        ELSE validate(v.config)

-----------------------------------------------------------------------------
\* What the file and the environment may say, at most two fields each.  Every
\* text is a string.
Singles(F) == UNION {{[x \in {f} |-> v] : v \in Values[f]} : f \in F}
Spoilt(F)  == {[x \in {f} |-> Garbled] : f \in F \cap Numbers}

Files == {None} \cup Singles(DOMAIN config)

\* HealthTimeout of qdrant has no env tag.
EnvFields == IF kind = "qdrant" THEN DOMAIN config \ {"timeout"} ELSE DOMAIN config

\* A function that is a, and b elsewhere.
Both(a, b) ==
    [f \in DOMAIN a \cup DOMAIN b |-> IF f \in DOMAIN a THEN a[f] ELSE b[f]]

Envs ==
    LET S == Singles(EnvFields) \cup Spoilt(EnvFields)
    IN  {None} \cup {Both(a, b) : a, b \in S}

\* The config nested in a struct of the service, behind its field app.
InService(c) == [f \in DOMAIN c \cup {"app"} |-> IF f = "app" THEN "" ELSE c[f]]

\* A zero struct or DefaultConfig, alone or nested.
Init ==
    /\ kind \in Kinds
    /\ \E c \in {[f \in Fields(kind) |-> Zero(f)], DefaultConfig(kind)} :
          preset \in {c, InService(c)}
    /\ tag \in IF "app" \in DOMAIN preset THEN {NoTag, "default", Garbled} ELSE {NoTag}
    /\ config = preset
    /\ broken = "no" /\ file = None /\ env = None
    /\ loading = "before" /\ loadErr = NoError

Load ==
    /\ loading = "before"
    /\ \E how \in {"no", "file", "field"}, f \in Files, e \in Envs :
          /\ Cardinality(DOMAIN f) + Cardinality(DOMAIN e) <= MaxSet
          /\ how = "file" => f = None
          /\ LET r == Loaded(how, f, e)
             IN  /\ config' = r.config
                 /\ loadErr' = r.err
                 /\ loading' = IF r.err = NoError THEN "ok" ELSE "failed"
          /\ broken' = how /\ file' = f /\ env' = e
    /\ UNCHANGED <<kind, tag, preset>>

Spec == Init /\ [][Load]_loader
-----------------------------------------------------------------------------
\* What the highest layer says of the field f, zero if none does.
Layered(f) ==
    CASE f \in DOMAIN env                  -> env[f]
      [] f \notin DOMAIN env /\ f \in DOMAIN file -> file[f]
      [] OTHER -> IF f = "app" /\ preset[f] = "" /\ tag # NoTag THEN tag ELSE preset[f]

\* After a load that succeeded every field has the value of the highest layer
\* that has one: environment, file, what was there before, tag (loader.go:111-115).
\* Validate only replaces zero values, and of a nested struct nothing at all.
LayersInOrder ==
    loading = "ok" =>
        \A f \in DOMAIN config :
            \/ config[f] = Layered(f)
            \/ ~Nested /\ Layered(f) = Zero(f) /\ config[f] = Default(f)

\* Load fails with the code that is documented for the reason
\* (loader.go:121-124) and only if there is one; and what it leaves behind is
\* still made of what the layers and the defaults say.
LoadRefusesForAReason ==
    LET unreadable == \/ broken # "no"
                      \/ tag = Garbled
                      \/ \E f \in DOMAIN env : env[f] = Garbled
        missing    == Nested /\ Layered("app") = ""
    IN  /\ loading = "ok" => ~unreadable /\ ~missing
        /\ loading = "failed" =>
              CASE GetCode(loadErr) = CodeInternalConfiguration -> unreadable
                [] GetCode(loadErr) = CodeValidationRequired    -> ~unreadable /\ missing
                [] GetCode(loadErr) = CodeValidation            -> ~unreadable /\ ~Nested
        /\ loading = "failed" =>
              \A f \in DOMAIN config :
                  \/ config[f] \in {preset[f], Default(f)}
                  \/ f = "app" /\ config[f] = tag
                  \/ f \in DOMAIN file /\ config[f] = file[f]
                  \/ f \in DOMAIN env /\ config[f] = env[f] /\ env[f] # Garbled
=============================================================================
