------------------------------ MODULE SeedReplay ------------------------------
(***************************************************************************)
(* Two pushes of the same data, one run of the command after the other:    *)
(* the second begins with a generator in the same state as the first did,  *)
(* because both were given the same -seed.                                 *)
(***************************************************************************)
EXTENDS CatalogInit

VARIABLES phase2, req2, rng2, drawn2, sent2, catalog2, ctxDone2, result2

second == <<phase2, req2, rng2, drawn2, sent2, catalog2, ctxDone2, result2>>

Second == INSTANCE CatalogInit WITH
  phase <- phase2, req <- req2, rng <- rng2, drawn <- drawn2,
  sent <- sent2, catalog <- catalog2, ctxDone <- ctxDone2, result <- result2

ReplayInit == Init /\ Second!Init

ReplayNext ==
  \/ result = "none" /\ Next /\ UNCHANGED second
  \/ result # "none" /\ Second!Next /\ UNCHANGED vars

ReplaySpec == ReplayInit /\ [][ReplayNext]_<<vars, second>>

\* "the values used with a particular seed remain predictable across runs":
\* two complete pushes draw the same metadata for the same resources.
SameSeedSameData == result = "nil" /\ result2 = "nil" => drawn2 = drawn
=============================================================================
