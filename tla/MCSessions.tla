----------------------------- MODULE MCSessions ----------------------------
(* Constants of the bounded checks of Sessions: users the baseline has       *)
(* created, who sign in from browsers with several tabs.                     *)
EXTENDS Sessions, TLC

CONSTANTS ana, root

Row(name, role, active, verified) ==
  [email |-> name, identificationNumber |-> name, emailVerified |-> verified,
   password |-> "p1", globalRole |-> role, isActive |-> active,
   unitId |-> Null, careerId |-> Null]

Accounts(verified) ==
  [u \in Users |-> IF u = root THEN Row("root", "ADMIN", TRUE, TRUE)
                   ELSE Row("ana", "USER", TRUE, verified)]

SetActive(active) ==
  [globalRole |-> Undefined, isActive |-> active,
   unitId |-> Undefined, careerId |-> Undefined]

\* One request at a time, any of them lost at any step.
OneAtATime ==
  [endpoints |-> {"login", "refresh", "logout", "change-password", "reset", "verify", "users"},
   seeded |-> Accounts(FALSE), profiles |-> {}, accounts |-> {},
   adminInputs |-> {SetActive(b) : b \in BOOLEAN},
   inFlight |-> 1, faults |-> TRUE, logins |-> 2, draws |-> 3, until |-> 1]

\* Two in flight that open, rotate and end sessions.
Rotating ==
  [OneAtATime EXCEPT
     !.endpoints = {"login", "refresh", "logout", "change-password", "users"},
     !.seeded = Accounts(TRUE), !.inFlight = 2, !.until = 0]

\* Two in flight that reset passwords and verify addresses.
Resetting ==
  [OneAtATime EXCEPT
     !.endpoints = {"login", "refresh", "reset", "verify"}, !.adminInputs = {},
     !.inFlight = 2, !.logins = 1, !.draws = 2, !.until = 0]

MCClients == [oneAtATime |-> OneAtATime, rotating |-> Rotating, resetting |-> Resetting]

\* Two tabs that refresh, and nothing is lost.
TwoTabs ==
  [twoTabs |-> [Rotating EXCEPT !.endpoints = {"login", "refresh"}, !.adminInputs = {},
                                !.faults = FALSE, !.draws = 4, !.until = 1]]

SessionSymmetry == Permutations(Workers) \cup Permutations(Sessions) \cup Permutations(Tokens)
=============================================================================
