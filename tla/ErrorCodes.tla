------------------------------ MODULE ErrorCodes ------------------------------
(***************************************************************************)
(* The structured errors of pkg/errors: what a code says about the request *)
(* that failed, and what is left of it when the error is wrapped.          *)
(*                                                                         *)
(* An error is the codes of the *Error values in its chain, the outermost  *)
(* first, and the error at the root of the chain.  Wrapping with           *)
(* fmt.Errorf changes neither.  Messages and details are left out.         *)
(***************************************************************************)
EXTENDS Integers, Sequences

Categories == {"VAL", "AUTH", "AUTHZ", "NF", "CONF", "INT", "UNAVAIL", "TIMEOUT"}

\* A code is its category and its number.
Codes == ({"VAL"} \X (1..4)) \cup ((Categories \ {"VAL"}) \X (1..3))

CodeValidation            == <<"VAL", 1>>
CodeValidationRequired    == <<"VAL", 2>>
CodeInternal              == <<"INT", 1>>
CodeInternalDatabase      == <<"INT", 2>>
CodeInternalConfiguration == <<"INT", 3>>
CodeUnavailableDependency == <<"UNAVAIL", 2>>
CodeTimeoutDatabase       == <<"TIMEOUT", 2>>

NoError == [codes |-> <<>>, root |-> "nil"]

\* An error that does not come from this package.
Native(root) == [codes |-> <<>>, root |-> root]

New(code) == [codes |-> <<code>>, root |-> "Error"]

\* Wrap: nil stays nil.
Wrap(err, code) ==
    IF err = NoError THEN NoError ELSE [err EXCEPT !.codes = <<code>> \o @]

\* AsError finds the first *Error of the chain.
AsError(err) == err.codes # <<>>

GetCode(err) == Head(err.codes)

Category(err) == GetCode(err)[1]

\* errors.Is for the errors a chain can start from.
Is(err, target) == err.root = target

IsRetryable(err) == AsError(err) /\ Category(err) \in {"TIMEOUT", "UNAVAIL"}

IsClientError(err) ==
    AsError(err) /\ Category(err) \in {"VAL", "AUTH", "AUTHZ", "NF", "CONF"}

IsServerError(err) ==
    AsError(err) /\ Category(err) \in {"INT", "UNAVAIL", "TIMEOUT"}

\* FromError: an error without a code becomes an internal one.
FromError(err) == IF AsError(err) THEN err ELSE Wrap(err, CodeInternal)

\* Variant: the table knows no timeouts.
HTTPStatusNoTimeout(err) ==
    CASE Category(err) = "VAL"     -> 400
      [] Category(err) = "AUTH"    -> 401
      [] Category(err) = "AUTHZ"   -> 403
      [] Category(err) = "NF"      -> 404
      [] Category(err) = "CONF"    -> 409
      [] Category(err) = "UNAVAIL" -> 503
      [] OTHER                     -> 500

HTTPStatus(err) ==
    CASE Category(err) = "VAL"     -> 400
      [] Category(err) = "AUTH"    -> 401
      [] Category(err) = "AUTHZ"   -> 403
      [] Category(err) = "NF"      -> 404
      [] Category(err) = "CONF"    -> 409
      [] Category(err) = "UNAVAIL" -> 503
      [] Category(err) = "TIMEOUT" -> 504
      [] OTHER                     -> 500
=============================================================================
