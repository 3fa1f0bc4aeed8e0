--------------------------- MODULE MCSprintChannel ---------------------------
(* SprintChannel: values for the constants.                                *)
EXTENDS SprintChannel

CONSTANTS w1, root

=============================================================================
