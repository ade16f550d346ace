------------------------------- MODULE Tokens -------------------------------
(***************************************************************************)
(* The bearer token: what --auth-token accepts (internal/cli) and which    *)
(* requests it authorises (internal/handler/auth.go).  Digests are equal   *)
(* exactly when the tokens are.                                            *)
(***************************************************************************)
EXTENDS Text

CONSTANTS
    MinAuthTokenLength,    \* 32 in the code
    MaxAuthTokenLength     \* 4096 in the code

ASSUME TokenLengthsAssumption ==
    /\ MinAuthTokenLength \in Nat \ {0}
    /\ MaxAuthTokenLength \in Nat

\* The characters of a header that are not printable ASCII.
Unprintable == {Space, "control"}

\* MUTANT: any character may be part of a token
ValidTokenOfLength(token) ==
    token = <<>> \/ Len(token) \in MinAuthTokenLength..MaxAuthTokenLength

ValidToken(token) ==
    \/ token = <<>>
    \/ /\ Len(token) \in MinAuthTokenLength..MaxAuthTokenLength
       /\ \A i \in DOMAIN token : token[i] \notin Unprintable

\* Spellings of the scheme that are equal under case folding.
BearerSchemes == {"Bearer", "bearer"}

\* The token of an Authorization header, <<>> if it is of another scheme.
BearerToken(header) ==
    LET parts == Cut(TrimSpace(header), Space)
    IN  IF parts.found /\ parts.before \in {<<s>> : s \in BearerSchemes}
        THEN TrimSpace(parts.after)
        ELSE <<>>

Authorized(authToken, header) == authToken = <<>> \/ BearerToken(header) = authToken

=============================================================================
