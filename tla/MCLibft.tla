------------------------------- MODULE MCLibft -------------------------------
(* Values for the constants of Libft and LibftText. *)
EXTENDS LibftText

AllLengths == 0 .. SIZE_MAX
=============================================================================
