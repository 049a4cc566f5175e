---------------------------- MODULE MCRuntimeCore ----------------------------
(***************************************************************************)
(* RuntimeCore for TLC: one App with a timer, a conflicting state of the   *)
(* same revision, the same App without timer, and another App.             *)
(***************************************************************************)
EXTENDS RuntimeCore

MCPublished ==
  << [revision |-> 1, app |-> "a", view |-> 1, timer |-> 2, overlay |-> 0],
     [revision |-> 1, app |-> "b", view |-> 1, timer |-> 1, overlay |-> 0],
     [revision |-> 2, app |-> "a", view |-> 2, timer |-> 0, overlay |-> 1],
     [revision |-> 3, app |-> "b", view |-> 1, timer |-> 1, overlay |-> 0] >>

(* For liveness and the failing panel: two Apps suffice. *)
MCTwoApps ==
  << [revision |-> 1, app |-> "a", view |-> 1, timer |-> 1, overlay |-> 0],
     [revision |-> 2, app |-> "b", view |-> 1, timer |-> 0, overlay |-> 1] >>
=============================================================================
