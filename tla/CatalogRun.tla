------------------------------ MODULE CatalogRun ------------------------------
(***************************************************************************)
(* load/catalog/run.go and limiter.go: up to three loops (node, service    *)
(* and check updates) run in one errgroup.  Each waits for its limiter,    *)
(* picks a random resource and registers it again.                         *)
(*                                                                         *)
(* rate.Limiter.Wait refuses at once when the next token would come after  *)
(* the context's deadline; wrappedLimiter turns that refusal into waiting  *)
(* for the context, so that one loop does not end the others early.        *)
(***************************************************************************)
EXTENDS Integers

CONSTANTS
  Updaters,   \* the loops whose update rate is not zero
  Bursts,     \* values of int(rate*10) the runs try
  Lens        \* lengths of the lists the loops pick from

ASSUME BurstsAreIntegers == Bursts \subseteq Int
ASSUME LensAreNaturals == Lens \subseteq Nat

VARIABLES
  burst,       \* the burst of each loop's limiter
  len,         \* len(lg.nodes), len(lg.serviceInstances), len(lg.checks)
  parentDone,  \* the context given to Run is done
  running,     \* loops that have not returned
  firstErr,    \* the error the errgroup kept
  pc,          \* where each loop is
  result,      \* what Run returned, "none" before
  crashed      \* a loop panicked and took the process down

vars == <<burst, len, parentDone, running, firstErr, pc, result, crashed>>
conf == <<burst, len>>

Group == INSTANCE ErrGroup

\* Mutant: the loops watch the caller's context instead of the group's.
ParentOnly == parentDone

CtxDone == Group!Cancelled(parentDone)

Init ==
  /\ burst \in [Updaters -> Bursts]
  /\ len \in [Updaters -> Lens]
  /\ parentDone = FALSE
  /\ Group!Start(Updaters)
  /\ pc = [u \in Updaters |-> "enter"]
  /\ result = "none"
  /\ crashed = FALSE

Goto(u, l) == pc' = [pc EXCEPT ![u] = l]

\* A loop returns e to the errgroup.
Leave(u, e) ==
  /\ ~crashed
  /\ Group!Return(u, e)
  /\ Goto(u, "done")
  /\ UNCHANGED <<conf, parentDone, result, crashed>>

Move(u, from, to) ==
  /\ ~crashed
  /\ pc[u] = from
  /\ Goto(u, to)
  /\ UNCHANGED <<conf, parentDone, running, firstErr, result, crashed>>

-----------------------------------------------------------------------------
(* limiter.Wait, in the order rate.Limiter tests its conditions.           *)

\* A burst below one can never grant a token; the wrapper passes the error.
NoBurst(u) ==
  /\ pc[u] = "enter"
  /\ burst[u] < 1
  /\ Leave(u, "burst")

\* The context was done when Wait was called; nilContextError hides it.
EnterDone(u) ==
  /\ pc[u] = "enter"
  /\ burst[u] >= 1
  /\ CtxDone
  /\ Leave(u, "nil")

\* A token is there, or comes before the deadline, or would come after it.
Reserve(u) ==
  /\ burst[u] >= 1
  /\ ~CtxDone
  /\ \E to \in {"pick", "sleep", "exceed"} : Move(u, "enter", to)

TokenArrives(u) == Move(u, "sleep", "pick")

SleepCancelled(u) ==
  /\ pc[u] = "sleep"
  /\ CtxDone
  /\ Leave(u, "nil")

\* Mutant: plain rate.Limiter, as load/kv uses it.
RefusalReturned(u) ==
  /\ pc[u] = "exceed"
  /\ Leave(u, "exceed")
\* Mutant: the wrapper swallows the refusal and the loop ends quietly.
RefusalForgotten(u) ==
  /\ pc[u] = "exceed"
  /\ Leave(u, "nil")

\* wrappedLimiter: the refusal becomes a wait for the context.
ParkUntilDone(u) ==
  /\ pc[u] = "exceed"
  /\ CtxDone
  /\ Leave(u, "nil")

-----------------------------------------------------------------------------
(* The update.                                                             *)

\* rng.IntN(len(list)) panics on an empty list.
Pick(u) ==
  /\ ~crashed
  /\ pc[u] = "pick"
  /\ crashed' = (len[u] = 0)
  /\ Goto(u, "call")
  /\ UNCHANGED <<conf, parentDone, running, firstErr, result>>

Registered(u) == Move(u, "call", "enter")

RegisterFails(u) ==
  /\ pc[u] = "call"
  /\ Leave(u, "api")

\* Mutant: a register call without the context in its options.
CallIgnoresContext(u) == pc[u] = "call" /\ FALSE

\* The call ends with the context's error, which the loop does return.
RegisterAbandoned(u) ==
  /\ pc[u] = "call"
  /\ CtxDone
  /\ Leave(u, "ctx")

-----------------------------------------------------------------------------
\* Mutant: Run reports success whatever its loops returned.
WaitIgnored ==
  /\ ~crashed
  /\ Group!Finished
  /\ result = "none"
  /\ result' = "nil"
  /\ UNCHANGED <<conf, parentDone, running, firstErr, pc, crashed>>

\* grp.Wait
Wait ==
  /\ ~crashed
  /\ Group!Finished
  /\ result = "none"
  /\ result' = firstErr
  /\ UNCHANGED <<conf, parentDone, running, firstErr, pc, crashed>>

ParentDone ==
  /\ ~crashed
  /\ ~parentDone
  /\ parentDone' = TRUE
  /\ UNCHANGED <<conf, running, firstErr, pc, result, crashed>>

\* Steps of a loop that need nothing from Consul.
Local(u) ==
  \/ NoBurst(u) \/ EnterDone(u) \/ Reserve(u) \/ TokenArrives(u)
  \/ SleepCancelled(u) \/ ParkUntilDone(u) \/ Pick(u) \/ RegisterAbandoned(u)

\* A panic is the end of the process: every action asks for ~crashed.
Next ==
  \/ \E u \in Updaters : Local(u) \/ Registered(u) \/ RegisterFails(u)
  \/ Wait
  \/ ParentDone

\* The loops and the timers run; Consul owes no answer and the parent need
\* not ever be done.
Fairness ==
  /\ \A u \in Updaters : WF_vars(Local(u))
  /\ WF_vars(Wait)

Spec == Init /\ [][Next]_vars
FairSpec == Spec /\ Fairness

-----------------------------------------------------------------------------
Errors == {"nil", "burst", "api", "ctx"}

TypeOK ==
  /\ burst \in [Updaters -> Bursts]
  /\ len \in [Updaters -> Lens]
  /\ parentDone \in BOOLEAN
  /\ running \subseteq Updaters
  /\ firstErr \in Errors
  /\ pc \in [Updaters -> {"enter", "sleep", "exceed", "pick", "call", "done"}]
  /\ \A u \in Updaters : u \in running <=> pc[u] # "done"
  /\ result \in Errors \cup {"none"}
  /\ crashed \in BOOLEAN

\* The comment in limiter.go: the approach of the deadline is no reason for
\* one loop to end the others.  The group's context is done only because the
\* caller's is, or because a call or a limiter really failed.
OnlyFaultsCancel == firstErr \in {"nil", "api", "burst"} \/ parentDone

\* A loop that stops while the caller's context is live stops because of a
\* failure, and then all loops are on their way out.
NoQuietExit ==
  (\E u \in Updaters : pc[u] = "done") => parentDone \/ firstErr # "nil"

\* Run ends once its context is done or one of its loops has failed, even if
\* Consul never answers the calls in flight.
Winds == (CtxDone /\ ~crashed) ~> (result # "none" \/ crashed)

Contract == INSTANCE Generator WITH
  ctxDone <- parentDone,
  idle <- Updaters = {},
  fault <- firstErr \in {"api", "burst"},
  status <- IF result = "none" THEN "running"
            ELSE IF result = "nil" THEN "nil" ELSE "error"

\* CatalogRun keeps the contract load/load.go relies on; only a panic excuses
\* it from returning.
KeepsContract == Contract!SafeSpec /\ (Contract!Returns \/ <>crashed)
=============================================================================
