---------------------------- MODULE MCInvitations -----------------------------
(* One address, two organizations, four calls: two creates race in o1, an     *)
(* acceptance meets a revoke, a resend, a register, an ssoLogin or an         *)
(* invitation of o2; c, if it registers or logs in, types capitals.           *)
EXTENDS Invitations

CONSTANTS o1, o2, a, b, c, d

MCOrg == [x \in {a, b, c, d} |-> IF x = d THEN o2 ELSE o1]
==============================================================================
