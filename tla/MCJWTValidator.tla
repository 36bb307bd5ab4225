--------------------------- MODULE MCJWTValidator ---------------------------
(***************************************************************************)
(* Finite instances of JWTValidator.  k1 and k2 are the keys a provider    *)
(* rotates between; kx is a key nobody publishes.  Every branch of the     *)
(* validation has a token that takes it.                                   *)
(***************************************************************************)
EXTENDS JWTValidator, TLC

Token(iss, alg, kid, key, exp) ==
    [shape |-> "ok", iss |-> iss, alg |-> alg, kid |-> kid, key |-> key,
     aud |-> TRUE, who |-> TRUE, nbf |-> 0, exp |-> exp]

OIDC1     == Token("oidc", "RS256", "k1", "k1", 0)
OIDC2     == Token("oidc", "ES256", "k2", "k2", NoExp)
Kube1     == [Token("kubernetes", "RS256", "k1", "k1", 3) EXCEPT !.nbf = 2]
Platform1 == Token("platform", "HS256", NoKid, "secret", 1)

\* Not genuine, each for another reason.
ForgedKey   == Token("oidc", "RS256", "k1", "kx", 3)
WrongFamily == Token("oidc", "PS256", "k1", "k1", 3)
NoKeyId     == Token("oidc", "RS256", NoKid, "k1", 3)
Guessed     == Token("other", "RS256", "k1", "k1", 3)
Unroutable1 == Token("other", "PS256", "k1", "k1", 3)
OtherAud    == [Platform1 EXCEPT !.aud = FALSE]
Malformed   == [Platform1 EXCEPT !.shape = "malformed"]
Oversized   == [Platform1 EXCEPT !.shape = "oversized"]

AllTokens == {OIDC1, OIDC2, Kube1, Platform1, ForgedKey, WrongFamily, NoKeyId,
              Guessed, Unroutable1, OtherAud, Malformed, Oversized}
RotatingTokens == {OIDC1, OIDC2}

GoroutinesAlike == Permutations(Goroutines)

Rotation == {{"k1"}, {"k2"}}
=============================================================================
