---------------------------- MODULE MCMigrations ----------------------------
(* Migrations for TLC: the processes are interchangeable.                  *)
EXTENDS Migrations

Symmetry == Permutations(Runners)
=============================================================================
