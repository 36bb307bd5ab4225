--------------------------- MODULE ServiceAccount ---------------------------
(***************************************************************************)
(* A service that authenticates itself with its projected ServiceAccount   *)
(* token (pkg/auth/k8s.go): the token is read from its file, the claims    *)
(* that grant permissions are mapped, and the account is looked for in     *)
(* three places of the claims.  The signature is the business of           *)
(* JWTValidator; here it is good.                                          *)
(*                                                                         *)
(* Next to its other claims a token has the claim "account":               *)
(*   nested   what "kubernetes.io" says                                    *)
(*   flat     what the two "kubernetes.io/serviceaccount/..." claims say   *)
(*   sub      the subject, by what strings.Split(sub, ":") makes of it     *)
(* A claim that is missing or of another type is the empty string.         *)
(***************************************************************************)
EXTENDS Permissions

CONSTANTS
    Pending,    \* the call has not returned
    Refused     \* it returned an error

VARIABLES
    file,       \* what is at SATokenPath: "missing", "blank" or "token"
    identity    \* what ValidateServiceAccount returned

account == <<file, identity>>

NoSubject == <<Empty>>

\* Only a subject of this form names an account.
OfSubject(sub) ==
    IF Len(sub) = 4 /\ sub[1] = "system" /\ sub[2] = "serviceaccount"
    THEN [namespace |-> sub[3], name |-> sub[4]]
    ELSE [namespace |-> Empty, name |-> Empty]

\* The first of the places that has the field f, else the last.
Preferred(first, second, third, f) ==
    IF first[f] # Empty THEN first[f]
    ELSE IF second[f] # Empty THEN second[f] ELSE third[f]

\* Variant: the flat claims are only looked at if the nested one is missing.
parseAllOrNothing(a) ==
    LET next == IF a.nested.namespace = Empty /\ a.nested.name = Empty
                THEN a.flat ELSE a.nested
        ns   == Preferred(next, next, OfSubject(a.sub), "namespace")
        name == Preferred(next, next, OfSubject(a.sub), "name")
    IN  IF ns = Empty \/ name = Empty THEN Refused
        ELSE [id |-> IF a.sub = NoSubject
                     THEN <<"system", "serviceaccount", ns, name>> ELSE a.sub,
              namespace |-> ns, name |-> name, permissions |-> granted]

\* The namespace and the name are looked for independently of each other.
parseK8sServiceAccountClaims(a) ==
    LET ns   == Preferred(a.nested, a.flat, OfSubject(a.sub), "namespace")
        name == Preferred(a.nested, a.flat, OfSubject(a.sub), "name")
    IN  IF ns = Empty \/ name = Empty THEN Refused
        ELSE [id |-> IF a.sub = NoSubject
                     THEN <<"system", "serviceaccount", ns, name>> ELSE a.sub,
              namespace |-> ns, name |-> name, permissions |-> granted]
-----------------------------------------------------------------------------
AccountInit ==
    /\ Init
    /\ file \in {"missing", "blank", "token"}
    /\ identity = Pending

\* ReadServiceAccountToken finds no file, or nothing in it.
ReadFails ==
    /\ stage = "permissions" /\ identity = Pending
    /\ file # "token"
    /\ identity' = Refused
    /\ UNCHANGED <<vars, file>>

\* The permission mapper, before the account is looked for.
MapPermissions ==
    /\ file = "token"
    /\ FromPermissions \/ FromRoles \/ FromScope
    /\ UNCHANGED account

Identify ==
    /\ stage = "set" /\ identity = Pending
    /\ identity' = parseK8sServiceAccountClaims(claims.account)
    /\ UNCHANGED <<vars, file>>

\* The service indexes the permissions of the identity it got.
IndexPermissions ==
    /\ identity \notin {Pending, Refused}
    /\ NewPermissionSet
    /\ UNCHANGED account

AccountNext == ReadFails \/ MapPermissions \/ Identify \/ IndexPermissions

AccountSpec == AccountInit /\ [][AccountNext]_<<vars, account>>
-----------------------------------------------------------------------------
\* The three places, the most preferred first, and those that say field f.
PlacesOf(a) == <<a.nested, a.flat, OfSubject(a.sub)>>
Saying(a, f) == {i \in 1..3 : PlacesOf(a)[i][f] # Empty}

\* Some place that is preferred to place i says something else about f.
Overruled(a, f, i) ==
    \E j \in Saying(a, f) : j < i /\ PlacesOf(a)[j][f] # PlacesOf(a)[i][f]

\* However many of the three places say something about the account, and
\* however incompletely, nothing they say is lost or made up: a token is refused
\* only if no place says the namespace or none says the name; what is returned
\* has its namespace and its name from the claims, and contradicts no place that
\* a more preferred one does not overrule (k8s.go:65-79).  The ID does not speak
\* of another account either, unless the claims overrule the subject.  The two
\* fields may come from two places: of claims that contradict each other the
\* account can be one that no single claim names.
NamesTheAccount ==
    identity # Pending =>
        IF file # "token" THEN identity = Refused
        ELSE LET a == claims.account
             IN  /\ identity = Refused <=>
                       \E f \in {"namespace", "name"} : Saying(a, f) = {}
                 /\ identity # Refused =>
                       \A f \in {"namespace", "name"} :
                          /\ \E i \in Saying(a, f) : identity[f] = PlacesOf(a)[i][f]
                          /\ \A i \in Saying(a, f) :
                                identity[f] = PlacesOf(a)[i][f] \/ Overruled(a, f, i)
                          /\ \/ OfSubject(identity.id)[f] \in {Empty, identity[f]}
                             \/ Overruled(a, f, 3)
=============================================================================
