--------------------------- MODULE MCPermissions ---------------------------
(***************************************************************************)
(* A finite instance of ServiceAccount: tokens with up to two permissions, *)
(* a role, which may be unknown, and up to one OAuth2 scope, all of one    *)
(* account; and tokens with one permission and every account.              *)
(***************************************************************************)
EXTENDS ServiceAccount, FiniteSets

Entries ==
    {<<"agents", "read">>, <<"logs", "read">>, <<"agents", "read", "prod">>,
     <<"agents", "read", "dev">>, <<"agents", "*">>, <<"*", "read", "prod">>,
     <<"agents", "read", "*">>, <<"agents", "*", "dev">>, <<"*", "*", "*">>,
     <<"agents">>, <<"", "read">>, <<"agents", "">>, <<"agents", "read", "">>}

AtMost(n, S) == {T \in SUBSET S : Cardinality(T) <= n}

Places   == [namespace : {"", "x", "y"}, name : {"", "x", "y"}]
Subjects ==
    {NoSubject, <<"f7a2">>, <<"system", "serviceaccount", "x">>, <<"system", "node", "x", "y">>}
        \cup {<<"system", "serviceaccount", p.namespace, p.name>> : p \in Places}
Accounts == [nested : Places, flat : Places, sub : Subjects]

SomeAccount ==
    [nested |-> [namespace |-> "x", name |-> "y"],
     flat   |-> [namespace |-> "", name |-> ""],
     sub    |-> <<"system", "serviceaccount", "x", "y">>]

SomeClaims ==
    [permissions : AtMost(2, Entries),
     roles : AtMost(1, {"operator", "developer", "viewer", "guest"}),
     scope : AtMost(1, {<<"logs", "*">>, <<"logs", "read", "dev">>,
                        <<"*", "read">>, <<"logs", "read", "">>})
             \cup {{<<"logs", "*">>, <<"logs">>}},
     account : {SomeAccount}]
    \cup
    [permissions : {{<<"agents", "read">>}}, roles : {{}}, scope : {{}},
     account : Accounts]
=============================================================================
