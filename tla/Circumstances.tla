---------------------------- MODULE Circumstances ----------------------------
(***************************************************************************)
(* The circumstances in which a behaviour's calls are made: whether they   *)
(* overlap, what may fail.  They are chosen when a behaviour starts and    *)
(* never change, so that one specification says both what holds whatever   *)
(* happens and what holds only as long as calls come one after the other,  *)
(* or nothing fails.                                                       *)
(***************************************************************************)
CONSTANT Worlds     \* the sets of circumstances that are looked at

VARIABLE world      \* the circumstances of this behaviour, one of Worlds

\* Does each call run to its end before the next arrives?
Serial == "serial" \in world
\* May queries, providers and the server fail?
Faulty == "faulty" \in world
=============================================================================
