--------------------------- MODULE MCTLSSecretRenewal ---------------------------
(* TLC instances of TLSSecretRenewal: one replica, or two. *)
EXTENDS TLSSecretRenewal

CONSTANTS a, b

MCDeployments == {{a}, {a, b}}
MCLone == {{a}}
MCPair == {{a, b}}
MCMaxEdits == <<3, 1>>
MCMaxFails == <<2, 2>>
=============================================================================
