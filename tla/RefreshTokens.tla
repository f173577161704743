--------------------------- MODULE RefreshTokens ---------------------------
(***************************************************************************)
(* What a refresh token promises, whoever presents it and whatever is in   *)
(* flight.  A sign-in opens a line of tokens that belongs to one user and  *)
(* ends at one instant.  At any time one token of the line works.  Using   *)
(* it replaces it, once; a line that is closed stays closed.               *)
(* (docs/decisiones-de-seguridad.md, SEG-06, SEG-07 and SEG-09.)           *)
(***************************************************************************)
CONSTANTS Lines, Users, Tokens, Instants, Null

VARIABLES
  line,      (* the lines that are open: owner, token that works, end      *)
  opened,    (* lines that were opened at some time                        *)
  drawn      (* tokens that were given out at some time                    *)

Line == [userId : Users, token : Tokens, expiresAt : Instants]

TypeOK ==
  /\ line \in [Lines -> Line \cup {Null}]
  /\ opened \subseteq Lines
  /\ drawn \subseteq Tokens

Init ==
  /\ line = [l \in Lines |-> Null]
  /\ opened = {}
  /\ drawn = {}

Open(l, new) ==
  /\ l \notin opened
  /\ new.token \notin drawn
  /\ line' = [line EXCEPT ![l] = new]
  /\ opened' = opened \cup {l}
  /\ drawn' = drawn \cup {new.token}

Use(l, token) ==
  /\ line[l] # Null
  /\ token \notin drawn
  /\ line' = [line EXCEPT ![l].token = token]
  /\ drawn' = drawn \cup {token}
  /\ UNCHANGED opened

\* Sign-out, a change of password or a deactivation close any number of lines.
Close(closed) ==
  /\ line' = [l \in Lines |-> IF l \in closed THEN Null ELSE line[l]]
  /\ UNCHANGED <<opened, drawn>>

Next ==
  \/ \E l \in Lines, new \in Line : Open(l, new)
  \/ \E l \in Lines, token \in Tokens : Use(l, token)
  \/ \E closed \in SUBSET Lines : Close(closed)

Spec == Init /\ [][Next]_<<line, opened, drawn>>

-----------------------------------------------------------------------------
(***************************************************************************)
(* A token works for one line at most.                                     *)
(***************************************************************************)
TokensAreOfOneLine ==
  \A l, m \in Lines :
    line[l] # Null /\ line[m] # Null /\ line[l].token = line[m].token => l = m

(***************************************************************************)
(* A token that does not work any more never works again.                  *)
(***************************************************************************)
SpentStaysSpent ==
  [][\A t \in drawn :
       (\A l \in Lines : line[l] # Null => line[l].token # t)
       => (\A l \in Lines : line'[l] # Null => line'[l].token # t)]_<<line, opened, drawn>>
=============================================================================
