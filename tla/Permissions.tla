---------------------------- MODULE Permissions ----------------------------
(***************************************************************************)
(* From the claims of a token to an authorization decision                 *)
(* (pkg/auth/rbac.go, Permission in pkg/auth/identity.go): the three       *)
(* claims that grant permissions are read in turn, the permissions are     *)
(* indexed in a PermissionSet, and questions are answered from the         *)
(* indexes.                                                                *)
(*                                                                         *)
(* A permission string is modelled by what strings.SplitN(s, ":", 3) makes *)
(* of it, a sequence of one to three parts.  Order and repetition inside a *)
(* claim do not matter to any decision: a claim is a set, and so is the    *)
(* deduplicated slice that is built from it.  A claim that is missing or   *)
(* of another type grants nothing, like an empty one.                      *)
(*                                                                         *)
(* A definition introduced as a "Variant" is a faulty version of the one   *)
(* that follows it; no specification uses it.                              *)
(***************************************************************************)
EXTENDS Naturals, Sequences

CONSTANTS
    Words,      \* resources, actions and scopes other than the two below
    RoleMap,    \* RolePermissionMap: role name -> its permissions
    Claims      \* what the claims of a token may be

Any   == "*"    \* every resource, action or scope
Empty == ""     \* a part of which there are no characters; no scope

Parts      == Words \cup {Empty, Any}
Permission == [resource : Parts, action : Parts, scope : Parts]
Strings    == UNION {[1..n -> Parts] : n \in 1..3}

ASSUME PermissionsConstants ==
    /\ RoleMap \in [DOMAIN RoleMap -> SUBSET Permission]
    /\ \A c \in Claims : /\ c.permissions \subseteq Strings
                         /\ c.scope \subseteq Strings

\* The mapping of the platform.
DefaultRolePermissions ==
    LET Grants(r, a) == [resource |-> r, action |-> a, scope |-> Empty]
    IN  [admin     |-> {Grants(Any, Any)},
         operator  |-> {Grants("agents", Any), Grants("deployments", Any),
                        Grants("logs", "read")},
         developer |-> {Grants("agents", "read"), Grants("agents", "execute"),
                        Grants("logs", "read"), Grants("deployments", "read")},
         viewer    |-> {Grants(Any, "read")}]

VARIABLES
    claims,     \* the claims of the token at hand
    stage,      \* what is done next
    granted,    \* `result`, without its order
    exact, anyScope, wildcards   \* the indexes of the PermissionSet

vars == <<claims, stage, granted, exact, anyScope, wildcards>>

-----------------------------------------------------------------------------
(* Permission strings. *)

WellFormed(s) ==
    /\ Len(s) >= 2
    /\ \A i \in DOMAIN s : s[i] # Empty

ParsePermissionString(s) ==
    [resource |-> s[1], action |-> s[2],
     scope |-> IF Len(s) = 3 THEN s[3] ELSE Empty]

\* Variant: an explicit wildcard scope is printed, an empty one too.
FormatPermissionInFull(p) == <<p.resource, p.action, p.scope>>

FormatPermission(p) ==
    IF p.scope \in {Empty, Any} THEN <<p.resource, p.action>>
                             ELSE <<p.resource, p.action, p.scope>>

\* What the well-formed strings of a claim grant; the others are skipped.
Parsed(S) == {ParsePermissionString(s) : s \in {x \in S : WellFormed(x)}}

-----------------------------------------------------------------------------
(* Permission.Match: does p grant what the check c asks for? *)

Covers(p, c) ==
    /\ p.resource \in {Any, c.resource}
    /\ p.action \in {Any, c.action}
    /\ p.scope \in {Empty, Any} \/ c.scope \in {Empty, Any} \/ p.scope = c.scope

HasPermission(P, c) == \E p \in P : Covers(p, [c EXCEPT !.scope = Empty])

-----------------------------------------------------------------------------
(* PermissionSet *)

IsWildcard(p) == p.resource = Any \/ p.action = Any \/ p.scope = Any

Has(c) == c \in exact

\* Variants: the permission that holds in every scope is not looked up; a
\* check without a scope does not ask the index made for it.
MatchSkipsGlobal(c) ==
    \/ Has(c)
    \/ c.scope \in {Empty, Any} /\ <<c.resource, c.action>> \in anyScope
    \/ \E p \in wildcards : Covers(p, c)

MatchStarOnly(c) ==
    \/ Has(c)
    \/ c.scope = Any /\ <<c.resource, c.action>> \in anyScope
    \/ c.scope \notin {Empty, Any} /\ Has([c EXCEPT !.scope = Empty])
    \/ \E p \in wildcards : Covers(p, c)

Match(c) ==
    \/ Has(c)
    \/ c.scope \in {Empty, Any} /\ <<c.resource, c.action>> \in anyScope
    \/ c.scope \notin {Empty, Any} /\ Has([c EXCEPT !.scope = Empty])
    \/ \E p \in wildcards : Covers(p, c)

-----------------------------------------------------------------------------
Init ==
    /\ claims \in Claims
    /\ stage = "permissions"
    /\ granted = {}
    /\ exact = {} /\ anyScope = {} /\ wildcards = {}

\* One claim of ClaimsToPermissions is read.
Grant(now, then, P) ==
    /\ stage = now
    /\ stage' = then
    /\ granted' = granted \cup P
    /\ UNCHANGED <<claims, exact, anyScope, wildcards>>

FromPermissions == Grant("permissions", "roles", Parsed(claims.permissions))

FromRoles == Grant("roles", "scope",
                   UNION {RoleMap[r] : r \in claims.roles \cap DOMAIN RoleMap})

\* Variant: a malformed token ends the reading of the scope claim.
FromScopeAllOrNothing ==
    Grant("scope", "set", IF \A s \in claims.scope : WellFormed(s)
                          THEN Parsed(claims.scope) ELSE {})

FromScope == Grant("scope", "set", Parsed(claims.scope))

\* Variant: the index for checks without a scope is keyed with the scope.
NewPermissionSetScopedIndex ==
    /\ stage = "set"
    /\ stage' = "done"
    /\ wildcards' = {p \in granted : IsWildcard(p)}
    /\ exact' = granted \ wildcards'
    /\ anyScope' = {<<p.resource, p.action, p.scope>> : p \in exact'}
    /\ UNCHANGED <<claims, granted>>

NewPermissionSet ==
    /\ stage = "set"
    /\ stage' = "done"
    /\ wildcards' = {p \in granted : IsWildcard(p)}
    /\ exact' = granted \ wildcards'
    /\ anyScope' = {<<p.resource, p.action>> : p \in exact'}
    /\ UNCHANGED <<claims, granted>>

Next == FromPermissions \/ FromRoles \/ FromScope \/ NewPermissionSet

Spec == Init /\ [][Next]_vars

-----------------------------------------------------------------------------
(* Properties. *)

\* The claims are read in order, and what is indexed are permissions and the
\* pairs that a check without a scope asks for (rbac.go:330-333).
TypeOK ==
    /\ claims \in Claims
    /\ stage \in {"permissions", "roles", "scope", "set", "done"}
    /\ granted \subseteq Permission
    /\ exact \subseteq Permission
    /\ anyScope \subseteq Parts \X Parts
    /\ wildcards \subseteq Permission

\* What a permission string says, read from the documentation of the format:
\* two parts hold in every scope, three in the scope they name.
Says(s, c) ==
    /\ Len(s) \in {2, 3} /\ \A i \in DOMAIN s : s[i] # Empty
    /\ s[1] = Any \/ s[1] = c.resource
    /\ s[2] = Any \/ s[2] = c.action
    /\ Len(s) = 2 \/ s[3] \in {Any, c.scope} \/ c.scope \in {Empty, Any}

Claimed(c) ==
    \/ \E s \in claims.permissions \cup claims.scope : Says(s, c)
    \/ \E r \in claims.roles \cap DOMAIN RoleMap :
          \E p \in RoleMap[r] : Covers(p, c)

\* From end to end, the fast paths of PermissionSet.Match grant exactly what
\* the claims of the token say, for every combination of wildcards, empty
\* scopes and malformed entries (rbac.go:412-426).
MatchesWhatIsClaimed ==
    stage = "done" => \A c \in Permission : Match(c) <=> Claimed(c)

\* The scope-unaware check of an identity that keeps its permissions as a
\* list agrees with the PermissionSet built from that list (rbac.go:330-333).
ListAgreesWithSet ==
    stage = "done" => \A c \in Permission :
        HasPermission(granted, c) <=> Match([c EXCEPT !.scope = Empty])

\* A permission that is written as a string and read again grants the same,
\* although an explicit wildcard scope is lost on the way (identity.go:260-266).
SurvivesFormatting ==
    \A p \in Parsed(claims.permissions) :
        /\ WellFormed(FormatPermission(p))
        /\ \A c \in Permission :
              Covers(ParsePermissionString(FormatPermission(p)), c)
                  <=> Covers(p, c)
=============================================================================
