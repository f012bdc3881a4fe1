------------------------------- MODULE ErrGroup -------------------------------
(***************************************************************************)
(* golang.org/x/sync/errgroup as load/load.go and load/catalog/run.go use  *)
(* it: members run until each returns, the first error is kept and cancels *)
(* the derived context, Wait returns that error when no member is left.    *)
(***************************************************************************)
VARIABLES
  running,   \* members whose function has not returned
  firstErr   \* the error errgroup kept, "nil" if none

\* grp.Go for each of the members.
Start(members) == running = members /\ firstErr = "nil"

\* The same as a step.
Launch(members) == running' = members /\ firstErr' = "nil"

\* A member's function returns e.
Return(m, e) ==
  /\ m \in running
  /\ running' = running \ {m}
  /\ firstErr' = IF firstErr = "nil" THEN e ELSE firstErr

\* Done() of the context errgroup.WithContext derives from the parent's.
Cancelled(parentDone) == parentDone \/ firstErr # "nil"

Finished == running = {}
=============================================================================
