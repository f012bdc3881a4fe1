----------------------------- MODULE CatalogInit -----------------------------
(***************************************************************************)
(* load/catalog/initialize.go: pushAllData registers every generated       *)
(* resource with Consul in three batches (nodes, service instances,        *)
(* checks), one goroutine per resource, with a sync.WaitGroup between the  *)
(* batches.  The errors of the register calls are dropped; the context is  *)
(* looked at once after each batch.                                        *)
(*                                                                         *)
(* The goroutines of a batch draw their metadata from one *rand.Rand that  *)
(* no lock guards.  Its PCG state is two words, lo and hi, so a draw is a  *)
(* read followed by two stores that other goroutines may interleave with.  *)
(* A word is modelled by its position in the seed's stream.                *)
(*                                                                         *)
(* Consul is external.  What becomes of a request is a step of its own: it *)
(* is carried out at any time after it was sent, or never, whatever the    *)
(* tool has made of the call meanwhile.                                    *)
(***************************************************************************)
EXTENDS Naturals

CONSTANTS
  Nodes,      \* lg.nodes
  Services,   \* lg.serviceInstances
  Checks      \* lg.checks

ASSUME BatchesDisjoint ==
  /\ Nodes \cap Services = {}
  /\ Nodes \cap Checks = {}
  /\ Services \cap Checks = {}

Resources == Nodes \cup Services \cup Checks

VARIABLES
  phase,    \* the batch the main goroutine waits for, or "returned"
  req,      \* progress of the goroutine that registers a resource
  rng,      \* PCG state of nodeRng ("nodes") and serviceRng ("services")
  drawn,    \* the PCG state a goroutine read for its metadata
  sent,     \* resources whose registration was sent to Consul
  catalog,  \* Consul: the resources it has registered
  ctxDone,  \* the context was cancelled or its deadline passed
  result    \* what Initialize returned: "none" while it runs

vars == <<phase, req, rng, drawn, sent, catalog, ctxDone, result>>

Batch(p) ==
  IF p = "nodes" THEN Nodes
  ELSE IF p = "services" THEN Services
  ELSE IF p = "checks" THEN Checks ELSE {}

\* registerNode draws from nodeRng, registerService from serviceRng.
Stream(r) == IF r \in Nodes THEN "nodes" ELSE "services"

Settled == {"ok", "failed"}

\* Mutant: no wg.Wait after the services.
NoWaitForServices(p) == p = "services" \/ \A r \in Batch(p) : req[r] \in Settled
\* Mutant: no wg.Wait after the checks.
NoWaitForChecks(p) == p = "checks" \/ \A r \in Batch(p) : req[r] \in Settled

\* wg.Wait: every goroutine of the batch has called wg.Done.
BatchSettled(p) == \A r \in Batch(p) : req[r] \in Settled

\* The loops that call wg.Add and start the goroutines of a batch.
Started(p, progress) ==
  [r \in Resources |-> IF r \in Batch(p) THEN "started" ELSE progress[r]]

Words == [lo : Nat, hi : Nat]

Init ==
  /\ phase = "nodes"
  /\ req = Started("nodes", [r \in Resources |-> "idle"])
  /\ rng = [p \in {"nodes", "services"} |-> [lo |-> 0, hi |-> 0]]
  /\ drawn = [r \in Nodes \cup Services |-> [lo |-> 0, hi |-> 0]]
  /\ sent = {}
  /\ catalog = {}
  /\ ctxDone = FALSE
  /\ result = "none"

-----------------------------------------------------------------------------
(* The goroutines of a batch.                                              *)

\* generateMeta, first half: read the shared generator's state.
ReadRng(r) ==
  /\ req[r] = "started"
  /\ r \notin Checks
  /\ drawn' = [drawn EXCEPT ![r] = rng[Stream(r)]]
  /\ req' = [req EXCEPT ![r] = "read"]
  /\ UNCHANGED <<phase, rng, sent, catalog, ctxDone, result>>

\* generateMeta, second half: the generator stores its two words one by one.
StoreLo(r) ==
  /\ req[r] = "read"
  /\ rng' = [rng EXCEPT ![Stream(r)].lo = drawn[r].lo + 1]
  /\ req' = [req EXCEPT ![r] = "half"]
  /\ UNCHANGED <<phase, drawn, sent, catalog, ctxDone, result>>

StoreHi(r) ==
  /\ req[r] = "half"
  /\ rng' = [rng EXCEPT ![Stream(r)].hi = drawn[r].hi + 1]
  /\ req' = [req EXCEPT ![r] = "ready"]
  /\ UNCHANGED <<phase, drawn, sent, catalog, ctxDone, result>>

\* Catalog().Register with the context in its options: a done context fails
\* the call before anything is sent.  registerCheck draws no random value
\* here, its status is fixed to passing.
Send(r) ==
  /\ \/ req[r] = "started" /\ r \in Checks
     \/ req[r] = "ready"
  /\ IF ctxDone
     THEN req' = [req EXCEPT ![r] = "failed"] /\ UNCHANGED sent
     ELSE req' = [req EXCEPT ![r] = "sent"] /\ sent' = sent \cup {r}
  /\ UNCHANGED <<phase, rng, drawn, catalog, ctxDone, result>>

Answered(r, outcome) ==
  /\ req[r] = "sent"
  /\ req' = [req EXCEPT ![r] = outcome]
  /\ UNCHANGED <<phase, rng, drawn, sent, catalog, ctxDone, result>>

Accepted(r) == r \in catalog /\ Answered(r, "ok")

\* An error answer: the request was carried out, will be, or never is.
Rejected(r) == Answered(r, "failed")

\* Mutant: write options without WithContext.
NeverAbandoned(r) == ctxDone /\ FALSE

\* The client gives the call up because its context is done.
Abandoned(r) ==
  /\ ctxDone
  /\ Rejected(r)

-----------------------------------------------------------------------------
(* Consul, at its leisure.                                                 *)

\* It may carry out a request that the tool has given up, or had an error
\* for, and even after Initialize has returned.
Applies(r) ==
  /\ r \in sent \ catalog
  /\ catalog' = catalog \cup {r}
  /\ UNCHANGED <<phase, req, rng, drawn, sent, ctxDone, result>>

-----------------------------------------------------------------------------
(* The main goroutine, each time wg.Wait returns.                          *)

\* Mutant: the context's error is seen but not returned.
KeepGoing ==
  /\ phase # "returned"
  /\ BatchSettled(phase)
  /\ ctxDone
  /\ result' = "ctxErr"
  /\ UNCHANGED <<phase, req, rng, drawn, sent, catalog, ctxDone>>

StopAtBarrier ==
  /\ phase # "returned"
  /\ BatchSettled(phase)
  /\ ctxDone
  /\ phase' = "returned"
  /\ result' = "ctxErr"
  /\ UNCHANGED <<req, rng, drawn, sent, catalog, ctxDone>>

NextBatch ==
  /\ phase \in {"nodes", "services"}
  /\ BatchSettled(phase)
  /\ ~ctxDone
  /\ phase' = IF phase = "nodes" THEN "services" ELSE "checks"
  /\ req' = Started(phase', req)
  /\ UNCHANGED <<rng, drawn, sent, catalog, ctxDone, result>>

Finish ==
  /\ phase = "checks"
  /\ BatchSettled(phase)
  /\ ~ctxDone
  /\ phase' = "returned"
  /\ result' = "nil"
  /\ UNCHANGED <<req, rng, drawn, sent, catalog, ctxDone>>

\* The deadline of the command's context, or a signal.
ContextDone ==
  /\ ~ctxDone
  /\ ctxDone' = TRUE
  /\ UNCHANGED <<phase, req, rng, drawn, sent, catalog, result>>

-----------------------------------------------------------------------------
\* The steps the tool takes by itself; Consul's answers are not among them.
Local(r) == ReadRng(r) \/ StoreLo(r) \/ StoreHi(r) \/ Send(r) \/ Abandoned(r)
Main == StopAtBarrier \/ NextBatch \/ Finish

Next ==
  \/ \E r \in Resources : Local(r) \/ Accepted(r) \/ Rejected(r) \/ Applies(r)
  \/ Main
  \/ ContextDone

\* Goroutines are scheduled and the context has a deadline.  Nothing is
\* assumed of Consul: it may never answer, nor carry anything out.
Fairness ==
  /\ \A r \in Resources : WF_vars(Local(r))
  /\ WF_vars(Main)
  /\ WF_vars(ContextDone)

Spec == Init /\ [][Next]_vars
FairSpec == Spec /\ Fairness

-----------------------------------------------------------------------------
Progress == {"idle", "started", "read", "half", "ready", "sent"} \cup Settled

TypeOK ==
  /\ phase \in {"nodes", "services", "checks", "returned"}
  /\ req \in [Resources -> Progress]
  /\ rng \in [{"nodes", "services"} -> Words]
  /\ drawn \in [Nodes \cup Services -> Words]
  /\ catalog \subseteq sent
  /\ sent \subseteq Resources
  /\ ctxDone \in BOOLEAN
  /\ result \in {"none", "nil", "ctxErr"}
  /\ (result = "none") <=> (phase # "returned")

Untouched(S) == \A r \in S : req[r] = "idle"
AllSettled(S) == \A r \in S : req[r] \in Settled

\* No goroutine of a service instance starts while a node's call is still
\* outstanding, and none of a check while a service's is: what a resource
\* hangs off was answered, or given up, before the resource is sent.
PhaseBarrier ==
  /\ Untouched(Services) \/ AllSettled(Nodes)
  /\ Untouched(Checks) \/ AllSettled(Services)

\* A nil result means that every resource of every batch was tried and that
\* no attempt is still running.
NilMeansAllAttempted == result = "nil" => AllSettled(Resources)

\* Once Initialize has returned the push is over on the tool's side: it sends
\* nothing more, and all that Consul may still do is carry out a registration
\* whose call ended in an error.
QuietAfterReturn ==
  [][result # "none" => /\ sent' = sent
                        /\ \A r \in catalog' \ catalog : req[r] = "failed"]_vars

\* What is missing after a nil result was refused or given up: nothing gets
\* lost but by an error, and nothing that was answered with success.
OnlyFailuresGoMissing ==
  /\ \A r \in Resources : req[r] = "ok" => r \in catalog
  /\ result = "nil" => \A r \in Resources \ catalog : req[r] = "failed"

Contract == INSTANCE Initializer WITH
  status <- IF result = "none" THEN "running"
            ELSE IF result = "nil" THEN "nil" ELSE "error"

\* pushAllData keeps the contract LoadRun relies on when it lets Initialize
\* fail only with a done context, and starts Run once it has returned.
KeepsContract == Contract!Spec

\* Initialize returns even if Consul stops answering, because every register
\* call carries the context and the context has a deadline.
AlwaysReturns == <>(result # "none")

\* What "wait for all nodes to be registered" (and its two siblings) say: when
\* Initialize reports success the resources are registered.
NilMeansAllRegistered == result = "nil" => catalog = Resources
=============================================================================
