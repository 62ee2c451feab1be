---------------------------- MODULE MCBlocklist ----------------------------
(***************************************************************************)
(* Two list handlers in flight at the same time.  Two owners of blocklist  *)
(* rows stand for a person and an agent, so that a row changing hands      *)
(* would be seen.                                                          *)
(***************************************************************************)
EXTENDS Blocklist, TLC

CONSTANT Agent

MCOwners == {Human, Agent}

Symmetry == Permutations(Workers)
=============================================================================
