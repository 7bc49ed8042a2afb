----------------------------- MODULE MCJwtSecrets -----------------------------
(* One rotation and one restart: the procedure of secrets.service.ts:17. *)
EXTENDS JwtSecrets

CONSTANT a1
==============================================================================
