------------------------------- MODULE Absent -------------------------------
(* The value of a column, a field or a variable that holds nothing.        *)
CONSTANT Null
=============================================================================
