---------------------------- MODULE MCAuthSessions ----------------------------
(* One user, four calls: a login and three refreshes, or a chain of them, with *)
(* a restart or a rejected call, and a deactivation or an expiry.             *)
EXTENDS AuthSessions

CONSTANTS u1, a, b, c, d

MCOwner == [x \in {a, b, c, d} |-> u1]
==============================================================================
