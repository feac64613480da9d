--------------------------- MODULE MCAuthorizeFlow ---------------------------
(* Small instances of AuthorizeFlow for TLC.                               *)
EXTENDS AuthorizeFlow, TLC

MCErrorTypes == "errorTransient" :> "temporarily_unavailable"

\* Unavailable with a body that looks like a token, a 200 without a token,
\* no answer.
MCTroubles ==
  {[status |-> 503, body |-> [error |-> NoError, token |-> TRUE, refresh |-> 1]],
   [status |-> 200, body |-> ErrorBody(NoError)],
   [status |-> NoStatus, body |-> ErrorBody("server_error")]}

Symmetry ==
  Permutations(ClientIds) \cup Permutations(Tabs) \cup Permutations(Browsers)
=============================================================================
