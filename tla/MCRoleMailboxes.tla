--------------------------- MODULE MCRoleMailboxes ---------------------------
EXTENDS RoleMailboxes, TLC

CONSTANTS r1, r2, d1, ta, tb, tb2

MCRunOf == [d \in Dispatches |-> r1]

(* tb2 is the handle the pane of tb gets when its terminal is started again. *)
MCPaneOf == [h \in Handles |-> IF h = ta THEN "pane_a" ELSE "pane_b"]
=============================================================================
