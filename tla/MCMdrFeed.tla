----------------------------- MODULE MCMdrFeed -----------------------------
(***************************************************************************)
(* Instances of MdrFeed for TLC: MCMdrFeed.cfg lets the scheduler and an   *)
(* administrator sync at the same time, MCMdrFeedLive.cfg checks delivery  *)
(* under fairness.                                                         *)
(***************************************************************************)
EXTENDS MdrFeed, TLC

CONSTANTS f1, f2

\* Every sync targets the healthy firewall, some the flaky one as well.
MCTargetings == {{f1}, {f1, f2}}

\* Every sync targets both.
MCBothTargeted == {{f1, f2}}

\* The callers run the same code and are told apart by nothing else.
Symmetry == Permutations(Callers)
=============================================================================
