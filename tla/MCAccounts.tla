----------------------------- MODULE MCAccounts ----------------------------
(* Constants of the bounded checks of Accounts: the administrator root of    *)
(* the baseline seed and users created or signed up later, two faculties,    *)
(* and careers besides the global one.                                       *)
EXTENDS Accounts, TLC

CONSTANTS root, fic, fie, otros, k1

MCRootRow ==
  [email |-> "root", identificationNumber |-> "root", emailVerified |-> TRUE,
   password |-> "pw", globalRole |-> "ADMIN", isActive |-> TRUE,
   unitId |-> Null, careerId |-> Null]

Account(name, active, unit, c) ==
  [email |-> name, identificationNumber |-> name, password |-> "pw",
   isActive |-> active, unitId |-> unit, careerId |-> c]

NoChange ==
  [globalRole |-> Undefined, isActive |-> Undefined,
   unitId |-> Undefined, careerId |-> Undefined]

ToUnit(x) == [NoChange EXCEPT !.unitId = x]
ToCareer(x) == [NoChange EXCEPT !.careerId = x]

ProfileOf(x, c) == [unitId |-> x, careerId |-> c]
CareerOf(code, x) == [code |-> code, unitId |-> x]

RowSymmetry == Permutations(Workers) \cup Permutations(Users \ {root})

-----------------------------------------------------------------------------
\* Careers and assignments, one request at a time.
Assignments ==
  [careerRows |-> {CareerOf("K1", fic), CareerOf("OTROS", fic)},
   careerInputs |->
     {CareerOf(Undefined, x) : x \in {Null, fic, fie}} \cup {CareerOf("OTROS", Undefined)},
   profiles |->
     {ProfileOf(x, c) : x \in {Null, fic, fie, Undefined}, c \in {otros, k1, Undefined}},
   accounts |->
     {Account("ana", TRUE, x, c) : x \in {Null, fic, Undefined}, c \in {otros, k1, Undefined}},
   adminInputs |-> {ToUnit(fie), ToCareer(k1)},
   movable |-> {fie}, inFlight |-> 1]

\* Roles of three users, one request at a time.
Roles ==
  [careerRows |-> {}, careerInputs |-> {}, profiles |-> {},
   accounts |-> {Account(x, b, Undefined, Undefined) : x \in {"ana", "eva"}, b \in BOOLEAN},
   adminInputs |->
     {[NoChange EXCEPT !.globalRole = r, !.isActive = b] :
        r \in {"USER", "ADMIN", Undefined}, b \in {TRUE, FALSE, Undefined}},
   movable |-> {}, inFlight |-> 1]

\* Two requests in flight over users and careers.
Tables ==
  [careerRows |-> {CareerOf("K1", fic)},
   careerInputs |-> {CareerOf(Undefined, fie), CareerOf("K1", Undefined), CareerOf("OTROS", Null)},
   profiles |-> {ProfileOf(Undefined, k1)},
   accounts |-> {Account("ana", TRUE, fic, k1)},
   adminInputs |-> {}, movable |-> {}, inFlight |-> 2]

MCClients == [assignments |-> Assignments, roles |-> Roles, tables |-> Tables]
=============================================================================
