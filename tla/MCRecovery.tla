------------------------------ MODULE MCRecovery ------------------------------
(* Files x* and x[*]: the pattern x*.*.backup finds the backups of both,     *)
(* x[*].*.backup those of x* but not its own.                                *)
EXTENDS Recovery

CONSTANTS star, bracket, x, y

MCGlobs == [p \in Paths |-> IF p = star THEN Paths ELSE {star}]
=============================================================================
