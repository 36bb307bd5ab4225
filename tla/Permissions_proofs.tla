------------------------- MODULE Permissions_proofs -------------------------
(***************************************************************************)
(* The indexes of a PermissionSet answer every question as the claims of   *)
(* the token do, for all words, role mappings and claims; and the account  *)
(* of a projected token is one that its claims name.                       *)
(***************************************************************************)
EXTENDS ServiceAccount, TLAPS

RolesGrant == UNION {RoleMap[r] : r \in claims.roles \cap DOMAIN RoleMap}

\* What has been granted at each stage, and what the indexes hold at the end.
GrantedSoFar ==
    CASE stage = "permissions" -> {}
      [] stage = "roles"       -> Parsed(claims.permissions)
      [] stage = "scope"       -> Parsed(claims.permissions) \cup RolesGrant
      [] OTHER -> Parsed(claims.permissions) \cup RolesGrant
                      \cup Parsed(claims.scope)

Indexed ==
    /\ wildcards = {p \in granted : IsWildcard(p)}
    /\ exact = granted \ wildcards
    /\ anyScope = {<<p.resource, p.action>> : p \in exact}

IInv ==
    /\ claims \in Claims
    /\ stage \in {"permissions", "roles", "scope", "set", "done"}
    /\ granted = GrantedSoFar
    /\ stage # "done" => exact = {} /\ anyScope = {} /\ wildcards = {}
    /\ stage = "done" => Indexed

-----------------------------------------------------------------------------
\* A well-formed string has two or three parts and parses to a permission.
LEMMA ParsedIsPermission ==
    ASSUME NEW s \in Strings, WellFormed(s)
    PROVE  /\ Len(s) \in {2, 3}
           /\ s[1] \in Parts \ {Empty} /\ s[2] \in Parts \ {Empty}
           /\ Len(s) = 3 => s[3] \in Parts \ {Empty}
           /\ ParsePermissionString(s) \in Permission
<1>1. PICK n \in 1..3 : s \in [1..n -> Parts]
  BY DEF Strings
<1>2. Len(s) = n /\ DOMAIN s = 1..n
  BY <1>1
<1>3. Len(s) >= 2
  BY DEF WellFormed
<1>4. \A i \in DOMAIN s : s[i] # Empty
  BY DEF WellFormed
<1>5. n \in {2, 3}
  BY <1>2, <1>3
<1>6. \A i \in 1..n : s[i] \in Parts \ {Empty}
  BY <1>1, <1>2, <1>4
<1>7. 1 \in 1..n /\ 2 \in 1..n /\ (n = 3 => 3 \in 1..n)
  BY <1>5
<1>8. /\ s[1] \in Parts \ {Empty} /\ s[2] \in Parts \ {Empty}
      /\ n = 3 => s[3] \in Parts \ {Empty}
  BY <1>6, <1>7
<1>9. Empty \in Parts
  BY DEF Parts
<1>10. ParsePermissionString(s) \in Permission
  BY <1>2, <1>8, <1>9 DEF ParsePermissionString, Permission
<1> QED
  BY <1>2, <1>5, <1>8, <1>10

\* What a string says is what the permission it parses to covers.
LEMMA ParsedMeansSaid ==
    ASSUME NEW s \in Strings, WellFormed(s), NEW c \in Permission
    PROVE  Covers(ParsePermissionString(s), c) <=> Says(s, c)
<1>1. /\ Len(s) \in {2, 3}
      /\ s[1] # Empty /\ s[2] # Empty /\ (Len(s) = 3 => s[3] # Empty)
  BY ParsedIsPermission
<1>2. \A i \in DOMAIN s : s[i] # Empty
  BY DEF WellFormed
<1>3. Says(s, c) <=> /\ s[1] = Any \/ s[1] = c.resource
                     /\ s[2] = Any \/ s[2] = c.action
                     /\ Len(s) = 2 \/ s[3] \in {Any, c.scope}
                                  \/ c.scope \in {Empty, Any}
  BY <1>1, <1>2 DEF Says
<1>4. CASE Len(s) = 2
  BY <1>3, <1>4 DEF ParsePermissionString, Covers
<1>5. CASE Len(s) = 3
  <2>1. s[3] # Empty /\ Len(s) # 2
    BY <1>1, <1>5
  <2> QED
    BY <1>3, <1>5, <2>1 DEF ParsePermissionString, Covers
<1> QED
  BY <1>1, <1>4, <1>5

\* Only well-formed strings say something.
LEMMA SaidIsWellFormed ==
    ASSUME NEW s \in Strings, NEW c, Says(s, c)
    PROVE  WellFormed(s)
<1>1. Len(s) \in {2, 3}
  BY DEF Says
<1>2. Len(s) >= 2
  BY <1>1
<1>3. \A i \in DOMAIN s : s[i] # Empty
  BY DEF Says
<1> QED
  BY <1>2, <1>3 DEF WellFormed

\* A string of two non-empty parts parses to the permission in every scope.
LEMMA PairParses ==
    ASSUME NEW a, NEW b, a # Empty, b # Empty
    PROVE  /\ WellFormed(<<a, b>>)
           /\ ParsePermissionString(<<a, b>>)
                 = [resource |-> a, action |-> b, scope |-> Empty]
<1>1. \A i \in DOMAIN <<a, b>> : <<a, b>>[i] # Empty
  OBVIOUS
<1>2. WellFormed(<<a, b>>)
  BY <1>1 DEF WellFormed
<1> QED
  BY <1>2 DEF ParsePermissionString

\* A string of three non-empty parts parses to the permission they spell.
LEMMA TripleParses ==
    ASSUME NEW a, NEW b, NEW d, a # Empty, b # Empty, d # Empty
    PROVE  /\ WellFormed(<<a, b, d>>)
           /\ ParsePermissionString(<<a, b, d>>)
                 = [resource |-> a, action |-> b, scope |-> d]
<1>1. \A i \in DOMAIN <<a, b, d>> : <<a, b, d>>[i] # Empty
  OBVIOUS
<1>2. WellFormed(<<a, b, d>>)
  BY <1>1 DEF WellFormed
<1> QED
  BY <1>2 DEF ParsePermissionString

\* The entries of a claim that parse cover what the entries of the claim say.
LEMMA ParsedCovers ==
    ASSUME NEW S, S \subseteq Strings, NEW c \in Permission
    PROVE  (\E p \in Parsed(S) : Covers(p, c)) <=> (\E s \in S : Says(s, c))
<1>1. ASSUME NEW p \in Parsed(S), Covers(p, c)
      PROVE  \E s \in S : Says(s, c)
  <2>1. PICK s \in S : WellFormed(s) /\ p = ParsePermissionString(s)
    BY <1>1 DEF Parsed
  <2> QED
    BY <1>1, <2>1, ParsedMeansSaid
<1>2. ASSUME NEW s \in S, Says(s, c)
      PROVE  \E p \in Parsed(S) : Covers(p, c)
  <2>1. WellFormed(s)
    BY <1>2, SaidIsWellFormed
  <2>2. ParsePermissionString(s) \in Parsed(S)
    BY <2>1 DEF Parsed
  <2> QED
    BY <1>2, <2>1, <2>2, ParsedMeansSaid
<1> QED
  BY <1>1, <1>2

LEMMA ParsedArePermissions ==
    ASSUME NEW S, S \subseteq Strings
    PROVE  Parsed(S) \subseteq Permission
BY ParsedIsPermission DEF Parsed

\* The indexes together answer like a scan of all permissions.
LEMMA IndexesAnswer ==
    ASSUME granted \subseteq Permission, Indexed, NEW c \in Permission
    PROVE  Match(c) <=> \E p \in granted : Covers(p, c)
<1>1. ASSUME Match(c) PROVE \E p \in granted : Covers(p, c)
  <2>1. CASE Has(c)
    BY <2>1 DEF Has, Indexed, Covers, Permission
  <2>2. CASE c.scope \in {Empty, Any} /\ <<c.resource, c.action>> \in anyScope
    <3>1. PICK p \in exact : <<c.resource, c.action>> = <<p.resource, p.action>>
      BY <2>2 DEF Indexed
    <3>2. p.resource = c.resource /\ p.action = c.action
      BY <3>1
    <3> QED
      BY <2>2, <3>1, <3>2 DEF Indexed, Covers
  <2>3. CASE c.scope \notin {Empty, Any} /\ Has([c EXCEPT !.scope = Empty])
    <3>1. [c EXCEPT !.scope = Empty] \in granted
      BY <2>3 DEF Has, Indexed
    <3>2. Covers([c EXCEPT !.scope = Empty], c)
      BY DEF Covers, Permission
    <3> QED
      BY <3>1, <3>2
  <2>4. CASE \E p \in wildcards : Covers(p, c)
    BY <2>4 DEF Indexed
  <2> QED
    BY <1>1, <2>1, <2>2, <2>3, <2>4 DEF Match
<1>2. ASSUME NEW p \in granted, Covers(p, c) PROVE Match(c)
  <2>1. CASE IsWildcard(p)
    BY <1>2, <2>1 DEF Match, Indexed
  <2>2. CASE ~IsWildcard(p)
    <3>1. p \in exact /\ p \in Permission
      BY <2>2 DEF Indexed
    <3>2. p.resource = c.resource /\ p.action = c.action /\ p.scope # Any
      BY <1>2, <2>2 DEF IsWildcard, Covers
    <3>3. CASE c.scope \in {Empty, Any}
      <4>1. <<p.resource, p.action>> \in anyScope
        BY <3>1 DEF Indexed
      <4> QED
        BY <3>2, <3>3, <4>1 DEF Match
    <3>4. CASE c.scope \notin {Empty, Any} /\ p.scope = Empty
      <4>1. p = [c EXCEPT !.scope = Empty]
        BY <3>1, <3>2, <3>4 DEF Permission
      <4> QED
        BY <3>1, <3>4, <4>1 DEF Match, Has
    <3>5. CASE c.scope \notin {Empty, Any} /\ p.scope # Empty
      <4>1. p.scope = c.scope
        BY <1>2, <3>2, <3>5 DEF Covers
      <4>2. p = c
        BY <3>1, <3>2, <4>1 DEF Permission
      <4> QED
        BY <3>1, <4>2 DEF Match, Has
    <3> QED
      BY <3>3, <3>4, <3>5
  <2> QED
    BY <2>1, <2>2
<1> QED
  BY <1>1, <1>2

-----------------------------------------------------------------------------
LEMMA InitIInv == Init => IInv
BY DEF Init, IInv, GrantedSoFar

LEMMA NextIInv == IInv /\ [Next]_vars => IInv'
<1> SUFFICES ASSUME IInv, [Next]_vars PROVE IInv'
  OBVIOUS
<1>1. CASE FromPermissions
  BY <1>1 DEF IInv, FromPermissions, Grant, GrantedSoFar, Parsed
<1>2. CASE FromRoles
  BY <1>2 DEF IInv, FromRoles, Grant, GrantedSoFar, RolesGrant, Parsed
<1>3. CASE FromScope
  BY <1>3 DEF IInv, FromScope, Grant, GrantedSoFar, RolesGrant, Parsed
<1>4. CASE NewPermissionSet
  <2>1. granted' = GrantedSoFar'
    BY <1>4 DEF IInv, NewPermissionSet, GrantedSoFar, RolesGrant, Parsed
  <2>2. Indexed'
    BY <1>4 DEF NewPermissionSet, Indexed, IsWildcard
  <2> QED
    BY <1>4, <2>1, <2>2 DEF IInv, NewPermissionSet
<1>5. CASE UNCHANGED vars
  BY <1>5 DEF IInv, vars, GrantedSoFar, RolesGrant, Parsed, Indexed, IsWildcard
<1> QED
  BY <1>1, <1>2, <1>3, <1>4, <1>5 DEF Next

\* At every moment what was granted is what the claims read so far grant.
THEOREM Invariance == Spec => []IInv
<1>1. IInv /\ [Next]_vars => IInv'
  BY NextIInv
<1> QED
  BY InitIInv, <1>1, PTL DEF Spec

-----------------------------------------------------------------------------
\* The claims grant permissions.
LEMMA GrantedArePermissions ==
    ASSUME IInv PROVE granted \subseteq Permission
<1>1. /\ claims.permissions \subseteq Strings /\ claims.scope \subseteq Strings
  BY PermissionsConstants DEF IInv
<1>2. /\ Parsed(claims.permissions) \subseteq Permission
      /\ Parsed(claims.scope) \subseteq Permission
  BY <1>1, ParsedArePermissions
<1>3. RolesGrant \subseteq Permission
  BY PermissionsConstants DEF RolesGrant
<1> QED
  BY <1>2, <1>3 DEF IInv, GrantedSoFar

\* The indexes only hold permissions, whatever is written in the claims
\* (rbac.go:100-131).
THEOREM TypeCorrect == Spec => []TypeOK
<1>1. ASSUME IInv PROVE TypeOK
  <2>1. granted \subseteq Permission
    BY <1>1, GrantedArePermissions
  <2>2. exact \subseteq granted /\ wildcards \subseteq granted
    BY <1>1 DEF IInv, Indexed
  <2>3. anyScope \subseteq Parts \X Parts
    BY <1>1, <2>1, <2>2 DEF IInv, Indexed, Permission
  <2> QED
    BY <1>1, <2>1, <2>2, <2>3 DEF IInv, TypeOK
<1> QED
  BY <1>1, Invariance, PTL

\* PermissionSet.Match grants what the claims say and nothing else: no claim
\* is lost, and no fast path grants what was not claimed.
THEOREM DecisionsFollowClaims == Spec => []MatchesWhatIsClaimed
<1>1. IInv => MatchesWhatIsClaimed
  <2> SUFFICES ASSUME IInv, stage = "done", NEW c \in Permission
               PROVE  Match(c) <=> Claimed(c)
    BY DEF MatchesWhatIsClaimed
  <2>1. Match(c) <=> \E p \in granted : Covers(p, c)
    BY IndexesAnswer, GrantedArePermissions DEF IInv
  <2>2. granted = Parsed(claims.permissions) \cup RolesGrant
                      \cup Parsed(claims.scope)
    BY DEF IInv, GrantedSoFar
  <2>3. /\ (\E p \in Parsed(claims.permissions) : Covers(p, c))
              <=> \E s \in claims.permissions : Says(s, c)
        /\ (\E p \in Parsed(claims.scope) : Covers(p, c))
              <=> \E s \in claims.scope : Says(s, c)
    BY ParsedCovers, PermissionsConstants DEF IInv
  <2>4. (\E p \in RolesGrant : Covers(p, c))
            <=> \E r \in claims.roles \cap DOMAIN RoleMap :
                   \E p \in RoleMap[r] : Covers(p, c)
    BY DEF RolesGrant
  <2> QED
    BY <2>1, <2>2, <2>3, <2>4 DEF Claimed
<1> QED
  BY Invariance, <1>1, PTL

\* An identity that keeps its permissions as a list answers the scope-unaware
\* question like the PermissionSet of that list.
THEOREM ListAndSetAgree == Spec => []ListAgreesWithSet
<1>1. IInv => ListAgreesWithSet
  <2> SUFFICES ASSUME IInv, stage = "done", NEW c \in Permission
               PROVE  HasPermission(granted, c) <=> Match([c EXCEPT !.scope = Empty])
    BY DEF ListAgreesWithSet
  <2>1. [c EXCEPT !.scope = Empty] \in Permission
    BY DEF Permission, Parts
  <2> QED
    BY <2>1, IndexesAnswer, GrantedArePermissions DEF IInv, HasPermission
<1> QED
  BY Invariance, <1>1, PTL

\* Printing a permission that was read from a claim and reading it again
\* changes no decision.
THEOREM FormattingIsHarmless == Spec => []SurvivesFormatting
<1>1. IInv => SurvivesFormatting
  <2> SUFFICES ASSUME IInv, NEW p \in Parsed(claims.permissions)
               PROVE  /\ WellFormed(FormatPermission(p))
                      /\ \A c \in Permission :
                            Covers(ParsePermissionString(FormatPermission(p)), c)
                                <=> Covers(p, c)
    BY DEF SurvivesFormatting
  <2>1. PICK s \in claims.permissions :
           WellFormed(s) /\ p = ParsePermissionString(s)
    BY DEF Parsed
  <2>2. s \in Strings
    BY PermissionsConstants DEF IInv
  <2>3. p.resource # Empty /\ p.action # Empty
    BY <2>1, <2>2, ParsedIsPermission DEF ParsePermissionString
  <2>4. CASE p.scope \in {Empty, Any}
    <3>1. FormatPermission(p) = <<p.resource, p.action>>
      BY <2>4 DEF FormatPermission
    <3>2. /\ WellFormed(FormatPermission(p))
          /\ ParsePermissionString(FormatPermission(p))
                = [resource |-> p.resource, action |-> p.action, scope |-> Empty]
      BY <2>3, <3>1, PairParses
    <3> QED
      BY <2>4, <3>2 DEF Covers
  <2>5. CASE p.scope \notin {Empty, Any}
    <3>1. FormatPermission(p) = <<p.resource, p.action, p.scope>>
      BY <2>5 DEF FormatPermission
    <3>2. /\ WellFormed(FormatPermission(p))
          /\ ParsePermissionString(FormatPermission(p))
                = [resource |-> p.resource, action |-> p.action,
                   scope |-> p.scope]
      BY <2>3, <2>5, <3>1, TripleParses
    <3> QED
      BY <3>2 DEF Covers
  <2> QED
    BY <2>4, <2>5
<1> QED
  BY Invariance, <1>1, PTL

-----------------------------------------------------------------------------
(* The account of a projected token. *)

\* Every step of a service that authenticates itself is a step of the
\* permission mapper or none: ValidateServiceAccount grants nothing of its own.
LEMMA AccountStep == [AccountNext]_<<vars, account>> => [Next]_vars
<1> SUFFICES ASSUME [AccountNext]_<<vars, account>> PROVE [Next]_vars
  OBVIOUS
<1>1. CASE ReadFails \/ Identify
  BY <1>1 DEF ReadFails, Identify
<1>2. CASE MapPermissions
  BY <1>2 DEF MapPermissions, Next
<1>3. CASE IndexPermissions
  BY <1>3 DEF IndexPermissions, Next
<1>4. CASE UNCHANGED <<vars, account>>
  BY <1>4 DEF vars
<1> QED
  BY <1>1, <1>2, <1>3, <1>4 DEF AccountNext

\* What a service does with the token of its account is what the permission
\* mapper and NewPermissionSet do with the claims of any token, whether the
\* token can be read or not and whatever account it names (k8s.go:51-63).
THEOREM AccountMapsClaims == AccountSpec => Spec
<1>1. AccountInit => Init
  BY DEF AccountInit
<1> QED
  BY <1>1, AccountStep, PTL DEF AccountSpec, Spec

\* So what is known of the claims of any token is known of these: the decisions
\* of a service about its own account are those the claims ask for.
THEOREM AccountDecisions ==
    AccountSpec => [](/\ TypeOK /\ MatchesWhatIsClaimed
                      /\ ListAgreesWithSet /\ SurvivesFormatting)
  BY AccountMapsClaims, TypeCorrect, DecisionsFollowClaims, ListAndSetAgree,
     FormattingIsHarmless, PTL

RefusedIsNoAccount ==
    \A i, s, n, p : Refused # [id |-> i, namespace |-> s, name |-> n, permissions |-> p]

\* What was returned is what the claims yield; nothing is granted afterwards.
Settled ==
    /\ stage # "permissions" => file = "token"
    /\ identity # Pending =>
          IF file # "token" THEN identity = Refused
          ELSE /\ identity = parseK8sServiceAccountClaims(claims.account)
               /\ stage \in {"set", "done"}

LEMMA SettledStep == Settled /\ [AccountNext]_<<vars, account>> => Settled'
<1> SUFFICES ASSUME Settled, [AccountNext]_<<vars, account>> PROVE Settled'
  OBVIOUS
<1>1. CASE ReadFails
  BY <1>1 DEF ReadFails, Settled, vars
<1>2. CASE MapPermissions
  BY <1>2 DEF MapPermissions, FromPermissions, FromRoles, FromScope, Grant,
              account, Settled
<1>3. CASE Identify
  BY <1>3 DEF Identify, Settled, vars, parseK8sServiceAccountClaims
<1>4. CASE IndexPermissions
  BY <1>4 DEF IndexPermissions, NewPermissionSet, account, Settled,
              parseK8sServiceAccountClaims
<1>5. CASE UNCHANGED <<vars, account>>
  BY <1>5 DEF vars, account, Settled, parseK8sServiceAccountClaims
<1> QED
  BY <1>1, <1>2, <1>3, <1>4, <1>5 DEF AccountNext

\* The ID made of a namespace and a name is read back as these.
LEMMA SubjectOfAccount ==
    ASSUME NEW s, NEW n
    PROVE  OfSubject(<<"system", "serviceaccount", s, n>>) = [namespace |-> s, name |-> n]
<1> DEFINE id == <<"system", "serviceaccount", s, n>>
<1>1. /\ Len(id) = 4 /\ id[1] = "system" /\ id[2] = "serviceaccount"
      /\ id[3] = s /\ id[4] = n
  OBVIOUS
<1> HIDE DEF id
<1>2. OfSubject(id) = [namespace |-> s, name |-> n]
  BY <1>1 DEF OfSubject
<1> QED
  BY <1>2 DEF id

\* The three places one by one.
LEMMA ThePlaces ==
    ASSUME NEW a, NEW f
    PROVE  /\ PlacesOf(a)[1] = a.nested
           /\ PlacesOf(a)[2] = a.flat
           /\ PlacesOf(a)[3] = OfSubject(a.sub)
           /\ \A i \in 1..3 : i = 1 \/ i = 2 \/ i = 3
           /\ \A i : i \in Saying(a, f) <=> i \in 1..3 /\ PlacesOf(a)[i][f] # Empty
<1>1. \A i \in 1..3 : i = 1 \/ i = 2 \/ i = 3
  OBVIOUS
<1>2. /\ PlacesOf(a)[1] = a.nested
      /\ PlacesOf(a)[2] = a.flat
      /\ PlacesOf(a)[3] = OfSubject(a.sub)
  <2> DEFINE third == OfSubject(a.sub)
  <2> HIDE DEF third
  <2>1. PlacesOf(a) = <<a.nested, a.flat, third>>
    BY DEF PlacesOf, third
  <2>2. PlacesOf(a)[1] = a.nested /\ PlacesOf(a)[2] = a.flat /\ PlacesOf(a)[3] = third
    BY <2>1
  <2> QED
    BY <2>2 DEF third
<1>3. \A i : i \in Saying(a, f) <=> i \in 1..3 /\ PlacesOf(a)[i][f] # Empty
  BY DEF Saying
<1> QED
  BY <1>1, <1>2, <1>3

\* What is preferred of a field is something if some place says the field, and
\* then what one of them says and no other is ignored without being overruled.
LEMMA PreferredIsSaid ==
    ASSUME NEW a, NEW f, NEW v, v = Preferred(a.nested, a.flat, OfSubject(a.sub), f)
    PROVE  /\ v = Empty <=> Saying(a, f) = {}
           /\ v # Empty => \E i \in Saying(a, f) : v = PlacesOf(a)[i][f]
           /\ \A i \in Saying(a, f) : v = PlacesOf(a)[i][f] \/ Overruled(a, f, i)
<1> DEFINE p == PlacesOf(a)
<1>1. /\ v = IF p[1][f] # Empty THEN p[1][f]
             ELSE IF p[2][f] # Empty THEN p[2][f] ELSE p[3][f]
      /\ \A i \in 1..3 : i = 1 \/ i = 2 \/ i = 3
      /\ \A i : i \in Saying(a, f) <=> i \in 1..3 /\ p[i][f] # Empty
  BY ThePlaces DEF Preferred
<1>2. 1 \in 1..3 /\ 2 \in 1..3 /\ 3 \in 1..3 /\ 1 < 2 /\ 1 < 3 /\ 2 < 3
  OBVIOUS
<1>3. \A i, j : j \in Saying(a, f) /\ j < i /\ p[j][f] # p[i][f] => Overruled(a, f, i)
  BY DEF Overruled
<1> HIDE DEF p
<1>4. v = Empty <=> Saying(a, f) = {}
  BY <1>1, <1>2
<1>5. v # Empty => \E i \in Saying(a, f) : v = p[i][f]
  BY <1>1, <1>2
<1>6. ASSUME NEW i \in Saying(a, f) PROVE v = p[i][f] \/ Overruled(a, f, i)
  <2>1. CASE i = 1
    BY <1>1, <2>1
  <2>2. CASE i = 2
    BY <1>1, <1>2, <1>3, <2>2
  <2>3. CASE i = 3
    BY <1>1, <1>2, <1>3, <2>3
  <2> QED
    BY <1>1, <2>1, <2>2, <2>3
<1> QED
  BY <1>4, <1>5, <1>6 DEF p

\* Whatever the claims of a token say of its account, and however they
\* contradict each other, ValidateServiceAccount makes nothing up and ignores
\* nothing that is not overruled (k8s.go:65-79).
THEOREM AccountNamed ==
    ASSUME RefusedIsNoAccount PROVE AccountSpec => []NamesTheAccount
<1>1. AccountInit => Settled
  BY DEF AccountInit, Init, Settled
<1>2. Settled => NamesTheAccount
  <2> SUFFICES ASSUME Settled, identity # Pending, file = "token"
               PROVE  NamesTheAccount
    BY DEF Settled, NamesTheAccount
  <2> DEFINE a == claims.account
             Fields == {"namespace", "name"}
             said(f) == Preferred(a.nested, a.flat, OfSubject(a.sub), f)
             ns == said("namespace")
             name == said("name")
             id == IF a.sub = NoSubject
                   THEN <<"system", "serviceaccount", ns, name>> ELSE a.sub
             made == [id |-> id, namespace |-> ns, name |-> name,
                      permissions |-> granted]
  <2>1. identity = IF ns = Empty \/ name = Empty THEN Refused ELSE made
    BY DEF Settled, parseK8sServiceAccountClaims
  <2>2. ASSUME NEW f \in Fields
        PROVE  /\ said(f) = Empty <=> Saying(a, f) = {}
               /\ said(f) # Empty => \E i \in Saying(a, f) : said(f) = PlacesOf(a)[i][f]
               /\ \A i \in Saying(a, f) : said(f) = PlacesOf(a)[i][f] \/ Overruled(a, f, i)
    BY PreferredIsSaid
  <2>3. /\ made # Refused /\ made.id = id
        /\ \A f \in Fields : made[f] = said(f)
    BY DEF RefusedIsNoAccount
  <2>4. ASSUME NEW f \in Fields
        PROVE  \/ OfSubject(id)[f] \in {Empty, said(f)}
               \/ Overruled(a, f, 3)
    <3>1. CASE a.sub = NoSubject
      <4>1. OfSubject(id) = [namespace |-> ns, name |-> name]
        BY <3>1, SubjectOfAccount
      <4>2. OfSubject(id)[f] = said(f)
        BY <4>1
      <4> QED
        BY <4>2
    <3>2. CASE a.sub # NoSubject
      <4>1. id = a.sub /\ PlacesOf(a)[3] = OfSubject(a.sub)
        BY <3>2, ThePlaces
      <4>2. PlacesOf(a)[3][f] # Empty => 3 \in Saying(a, f)
        BY DEF Saying
      <4> HIDE DEF id, said
      <4> QED
        BY <2>2, <4>1, <4>2
    <3> QED
      BY <3>1, <3>2
  <2>5. ns = Empty \/ name = Empty <=> \E f \in Fields : Saying(a, f) = {}
    BY <2>2
  <2> HIDE DEF made, said, id
  <2>6. CASE ns = Empty \/ name = Empty
    BY <2>1, <2>5, <2>6 DEF NamesTheAccount
  <2>7. CASE ~(ns = Empty \/ name = Empty)
    <3>1. identity = made /\ identity # Refused /\ identity.id = id
      BY <2>1, <2>3, <2>7
    <3>2. \A f \in Fields : identity[f] = said(f) /\ said(f) # Empty
      BY <2>3, <2>7, <3>1
    <3>3. ~\E f \in Fields : Saying(a, f) = {}
      BY <2>5, <2>7
    <3>4. ASSUME NEW f \in Fields
          PROVE  /\ \E i \in Saying(a, f) : identity[f] = PlacesOf(a)[i][f]
                 /\ \A i \in Saying(a, f) :
                       identity[f] = PlacesOf(a)[i][f] \/ Overruled(a, f, i)
                 /\ \/ OfSubject(identity.id)[f] \in {Empty, identity[f]}
                    \/ Overruled(a, f, 3)
      BY <2>2, <2>4, <3>1, <3>2
    <3> QED
      BY <3>1, <3>3, <3>4 DEF NamesTheAccount
  <2> QED
    BY <2>6, <2>7
<1> QED
  BY <1>1, <1>2, SettledStep, PTL DEF AccountSpec
=============================================================================
