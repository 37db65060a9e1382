---------------------------- MODULE MCJwtSecret ----------------------------
(* JwtSecret for TLC: a few secrets and statements, any number of starts.  *)
EXTENDS JwtSecret

=============================================================================
