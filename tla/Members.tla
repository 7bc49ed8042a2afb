-------------------------------- MODULE Members --------------------------------
(***************************************************************************)
(* UsersService.updateMember, with the guard in front of it: the roles and *)
(* the isActive of an organization's users while its admins change them.   *)
(***************************************************************************)
EXTENDS FiniteSets

CONSTANTS
  Staff, Admins,  \* the members, and those who are admins at first
  Updates         \* requests PATCH /users/:id

\* Whoever registers an organization is its admin, and active.
ASSUME AdminsAssumption == Admins # {} /\ Admins \subseteq Staff

VARIABLES
  admin, active,           \* users whose role is ADMIN, whose isActive is set
  updPc, actor, target, change,  \* of each request: its step and what it asks
  late                     \* history: requests written when their actor had no right any more

memberVars == <<admin, active, updPc, actor, target, change, late>>

Changes == {"demote", "promote", "deactivate", "activate", "title"}
Somebody == CHOOSE u \in Staff : TRUE

MembersInit ==
  /\ admin = Admins /\ active = Staff
  /\ updPc = [r \in Updates |-> "idle"] /\ late = {}
  /\ actor = [r \in Updates |-> Somebody] /\ target = [r \in Updates |-> Somebody]
  /\ change = [r \in Updates |-> "title"]

\* JwtStrategy reads the user's row with every request; RolesGuard asks its role.
MayAdminister(u) == u \in admin /\ u \in active

\* Mutant: an admin may be named by himself.
SelfDenied(u, t, c) == FALSE

\* The role of one's own row cannot be named at all, nor isActive be taken away.
SelfProtected(u, t, c) == u = t /\ c \in {"demote", "promote", "deactivate"}

RequestUpdate(r) ==
  /\ updPc[r] = "idle"
  /\ \E u \in Staff, t \in Staff, c \in Changes :
       /\ updPc' = [updPc EXCEPT ![r] = IF ~MayAdminister(u) \/ SelfProtected(u, t, c)
                                        THEN "denied" ELSE "find"]
       /\ actor' = [actor EXCEPT ![r] = u] /\ target' = [target EXCEPT ![r] = t]
       /\ change' = [change EXCEPT ![r] = c]
  /\ UNCHANGED <<admin, active, late>>

\* The target is of this organization, and nothing sets a user's deletedAt.
FindTarget(r) ==
  /\ updPc[r] = "find" /\ updPc' = [updPc EXCEPT ![r] = "update"]
  /\ UNCHANGED <<admin, active, actor, target, change, late>>

WriteMember(r) ==
  /\ updPc[r] = "update" /\ updPc' = [updPc EXCEPT ![r] = "done"]
  /\ admin' = CASE change[r] = "promote" -> admin \cup {target[r]}
                [] change[r] = "demote"  -> admin \ {target[r]}
                [] OTHER -> admin
  /\ active' = CASE change[r] = "activate"   -> active \cup {target[r]}
                 [] change[r] = "deactivate" -> active \ {target[r]}
                 [] OTHER -> active
  /\ late' = IF MayAdminister(actor[r]) THEN late ELSE late \cup {r}
  /\ UNCHANGED <<actor, target, change>>

\* A call of the database that is rejected.
UpdateRejected(r) ==
  /\ updPc[r] \in {"find", "update"} /\ updPc' = [updPc EXCEPT ![r] = "error"]
  /\ UNCHANGED <<admin, active, actor, target, change, late>>

MembersNext ==
  \E r \in Updates : RequestUpdate(r) \/ FindTarget(r) \/ WriteMember(r) \/ UpdateRejected(r)

MembersSpec == MembersInit /\ [][MembersNext]_memberVars

----------------------------------------------------------------------------
(* Properties *)

MembersTypeOK ==
  /\ admin \subseteq Staff /\ active \subseteq Staff /\ late \subseteq Updates
  /\ updPc \in [Updates -> {"idle", "denied", "find", "update", "done", "error"}]
  /\ actor \in [Updates -> Staff] /\ target \in [Updates -> Staff]
  /\ change \in [Updates -> Changes]

\* An organization that has an active admin keeps one, unless an update was written
\* whose own actor had lost the right to it after the guard had let it through, as
\* when two admins demote each other at once (users.service.ts:159).
AdminRemains == late = {} => \E u \in Staff : MayAdminister(u)

==============================================================================
