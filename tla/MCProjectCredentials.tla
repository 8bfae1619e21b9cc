------------------------- MODULE MCProjectCredentials -------------------------
(* Two server processes, two launches that may be requested at once, two   *)
(* replacements of the secret, and one connection: nothing of one          *)
(* connection depends on another, and a second one would only repeat the   *)
(* first.  No symmetry: a liveness property is checked.                    *)
EXTENDS ProjectCredentials
=============================================================================
