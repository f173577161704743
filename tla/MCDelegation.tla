---------------------------- MODULE MCDelegation ---------------------------
(* Constants of the bounded checks of Delegation: one program p with one     *)
(* activity v, an administrator, and users who become delegators.            *)
EXTENDS Delegation, PermissionCatalog, TLC

CONSTANTS p, v, admin, ana, luis

MCParentProgram == [x \in ActivityScopes |-> p]

\* Two roles, one within the other, and a permission that neither brings.
SmallDefaults ==
  [VIEWER |-> {"program:read"}, ORGANIZER |-> {"program:read", "program:update"}]

From(t) == [validFrom |-> t, validUntil |-> Null]
Until(t) == [validFrom |-> Null, validUntil |-> t]

\* One request at a time: windows that end, that begin, and a clock.
OneAtATime ==
  [actors |-> Users, scopes |-> Scopes, windows |-> {Unlimited, Until(1), From(2)},
   delegable |-> {PERMISSION_GRANT}, suspendable |-> Administrators,
   inFlight |-> 1, until |-> 2]

\* Two requests in flight over the collaborators of the program.
TwoInFlight ==
  [actors |-> Administrators, scopes |-> ProgramScopes, windows |-> {Unlimited},
   delegable |-> {PERMISSION_GRANT, "program:read"}, suspendable |-> {},
   inFlight |-> 2, until |-> 0]

BothClients == [oneAtATime |-> OneAtATime, twoInFlight |-> TwoInFlight]

\* A default of a role is delegated by name.
OverridingClients ==
  [overriding |->
     [OneAtATime EXCEPT !.windows = {Unlimited}, !.until = 0, !.scopes = ProgramScopes,
                        !.delegable = {PERMISSION_GRANT} \cup VIEWER_DEFAULTS]]

\* The administrator gives a user windows with a gap between them.
WindowsWithAGap ==
  [gap |-> [OneAtATime EXCEPT !.actors = Administrators, !.delegable = {PERMISSION_GRANT},
                              !.suspendable = {}]]

\* Requests, row ids and the users who are not administrators are alike.
RowSymmetry ==
  Permutations(Workers) \cup Permutations(Collaborations)
    \cup Permutations(Users \ Administrators)
=============================================================================
