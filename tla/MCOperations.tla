---------------------------- MODULE MCOperations ----------------------------
(* Constants of the bounded checks of Operations.                          *)
EXTENDS Operations

\* No administrator configured, the one of the demo, and another one.
MCAdminEmails == {Null, "admin@utp", "ops@utp"}

\* Three days of four ticks in a zone one tick behind UTC, read from before
\* the first day, where the quotient of an instant is negative, to after the last.
MCZoneOffset == -1
MCDates == -1 .. 1
MCFirstNow == -6
=============================================================================
