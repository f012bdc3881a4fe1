-------------------------- MODULE CatalogInitProofs --------------------------
(***************************************************************************)
(* Proofs about CatalogInit for any sets of nodes, service instances and   *)
(* checks.  The safety properties follow from one inductive invariant: the *)
(* phase says which batches are settled and which are untouched.  With the *)
(* fact that an accepted resource stays in the catalog it also gives the   *)
(* contract of Initialize, step by step.                                   *)
(***************************************************************************)
EXTENDS CatalogInit, TLAPS

\* Nothing of S has a goroutine between its start and its wg.Done.
Quiescent(S) == \A r \in S : req[r] = "idle" \/ req[r] \in Settled

\* Checks draw no random value, so they never hold a half-made draw.
ChecksDrawNothing == \A c \in Checks : req[c] \notin {"read", "half", "ready"}

PhaseInv ==
  /\ phase = "nodes" => Untouched(Services) /\ Untouched(Checks)
  /\ phase = "services" => AllSettled(Nodes) /\ Untouched(Checks)
  /\ phase = "checks" => AllSettled(Nodes) /\ AllSettled(Services)
  /\ phase = "returned" => Quiescent(Resources)

IInv ==
  /\ TypeOK
  /\ ChecksDrawNothing
  /\ PhaseInv
  /\ PhaseBarrier
  /\ NilMeansAllAttempted

-----------------------------------------------------------------------------
LEMMA InitInv == Init => IInv
<1> SUFFICES ASSUME Init PROVE IInv
  OBVIOUS
<1> USE DEF Init, Resources, Started, Batch
<1>1. [lo |-> 0, hi |-> 0] \in Words
  BY DEF Words
<1>2. TypeOK
  BY <1>1 DEF TypeOK, Progress
<1>3. ChecksDrawNothing /\ PhaseInv /\ PhaseBarrier /\ NilMeansAllAttempted
  BY BatchesDisjoint DEF ChecksDrawNothing, PhaseInv, PhaseBarrier, NilMeansAllAttempted, Untouched
<1>4. QED BY <1>2, <1>3 DEF IInv

\* A goroutine that was started, is not over and changes only its own
\* resource's progress keeps the batches in order.
LEMMA LocalStep ==
  ASSUME IInv, NEW r \in Resources, NEW v,
         v \in Progress \ {"idle", "started"},
         r \in Checks => v \notin {"read", "half", "ready"},
         req[r] \notin {"idle"} \cup Settled,
         req' = [req EXCEPT ![r] = v],
         UNCHANGED <<phase, result>>
  PROVE  /\ req' \in [Resources -> Progress]
         /\ (ChecksDrawNothing /\ PhaseInv /\ PhaseBarrier /\ NilMeansAllAttempted)'
<1> USE DEF IInv, TypeOK, Resources, Progress
<1>1. req' \in [Resources -> Progress]
  BY DEF Settled
<1>2. ChecksDrawNothing'
  BY DEF ChecksDrawNothing, Settled
<1>3. phase # "returned"
  BY DEF PhaseInv, Quiescent, Settled
<1>4. /\ phase = "nodes" => r \in Nodes
      /\ phase = "services" => r \in Services
      /\ phase = "checks" => r \in Checks
  BY <1>3 DEF PhaseInv, Untouched, AllSettled, Settled
<1>5. PhaseInv' /\ PhaseBarrier'
  BY <1>3, <1>4, BatchesDisjoint DEF PhaseInv, PhaseBarrier, Untouched, AllSettled, Settled
<1>6. NilMeansAllAttempted'
  BY <1>3 DEF NilMeansAllAttempted
<1>7. QED BY <1>1, <1>2, <1>5, <1>6

\* The next batch is untouched until it is started, and the rest is as it was.
LEMMA BatchStarts ==
  ASSUME IInv, NextBatch
  PROVE  /\ req' \in [Resources -> Progress]
         /\ \A r \in Resources :
              \/ r \in Batch(phase') /\ req[r] = "idle" /\ req'[r] = "started"
              \/ r \notin Batch(phase') /\ req'[r] = req[r]
<1>1. \A r \in Resources : r \in Batch(phase') => req[r] = "idle"
  BY BatchesDisjoint DEF IInv, PhaseInv, NextBatch, Batch, Untouched
<1>2. QED BY <1>1 DEF NextBatch, Started, IInv, TypeOK, Progress

LEMMA NextInv == IInv /\ [Next]_vars => IInv'
<1> SUFFICES ASSUME IInv, [Next]_vars PROVE IInv'
  OBVIOUS
<1>0. TypeOK /\ ChecksDrawNothing /\ PhaseInv /\ PhaseBarrier /\ NilMeansAllAttempted
  BY DEF IInv
<1>1. ASSUME NEW r \in Resources, ReadRng(r) PROVE IInv'
  <2>1. /\ r \in Nodes \cup Services
        /\ r \notin Checks
        /\ rng[Stream(r)] \in Words
    BY <1>0, <1>1 DEF ReadRng, Resources, Stream, TypeOK
  <2>2. /\ req' \in [Resources -> Progress]
        /\ (ChecksDrawNothing /\ PhaseInv /\ PhaseBarrier /\ NilMeansAllAttempted)'
    BY <1>1, <2>1, LocalStep DEF ReadRng, Settled, Progress
  <2>3. drawn' \in [Nodes \cup Services -> Words]
    BY <1>0, <1>1, <2>1 DEF ReadRng, TypeOK
  <2>4. QED BY <1>0, <1>1, <2>2, <2>3 DEF IInv, TypeOK, ReadRng
<1>2. ASSUME NEW r \in Resources, StoreLo(r) \/ StoreHi(r) PROVE IInv'
  <2>1. /\ r \notin Checks
        /\ Stream(r) \in {"nodes", "services"}
        /\ drawn[r] \in Words
    BY <1>0, <1>2 DEF StoreLo, StoreHi, ChecksDrawNothing, Stream, TypeOK, Resources
  <2>2. /\ req' \in [Resources -> Progress]
        /\ (ChecksDrawNothing /\ PhaseInv /\ PhaseBarrier /\ NilMeansAllAttempted)'
    BY <1>2, <2>1, LocalStep DEF StoreLo, StoreHi, Settled, Progress
  <2>3. rng' \in [{"nodes", "services"} -> Words]
    BY <1>0, <1>2, <2>1 DEF StoreLo, StoreHi, TypeOK, Words
  <2>4. QED BY <1>0, <1>2, <2>2, <2>3 DEF IInv, TypeOK, StoreLo, StoreHi
<1>3. ASSUME NEW r \in Resources, Send(r) PROVE IInv'
  <2>1. /\ req' \in [Resources -> Progress]
        /\ (ChecksDrawNothing /\ PhaseInv /\ PhaseBarrier /\ NilMeansAllAttempted)'
    BY <1>3, LocalStep DEF Send, Settled, Progress
  <2>2. QED BY <1>0, <1>3, <2>1 DEF IInv, TypeOK, Send
<1>4. ASSUME NEW r \in Resources, NEW outcome \in Settled, Answered(r, outcome)
      PROVE  IInv'
  <2>1. /\ req' \in [Resources -> Progress]
        /\ (ChecksDrawNothing /\ PhaseInv /\ PhaseBarrier /\ NilMeansAllAttempted)'
    BY <1>4, LocalStep DEF Answered, Settled, Progress
  <2>2. QED BY <1>0, <1>4, <2>1 DEF IInv, TypeOK, Answered
<1>5. CASE StopAtBarrier
  <2>1. Quiescent(Resources)
    BY <1>0, <1>5 DEF StopAtBarrier, BatchSettled, Batch, PhaseInv, TypeOK,
       Quiescent, Untouched, AllSettled, Resources
  <2>2. (ChecksDrawNothing /\ PhaseInv /\ PhaseBarrier /\ NilMeansAllAttempted)'
    BY <1>0, <1>5, <2>1 DEF StopAtBarrier, ChecksDrawNothing, PhaseInv, PhaseBarrier,
       NilMeansAllAttempted, Quiescent, Untouched, AllSettled
  <2>3. QED BY <1>0, <1>5, <2>2 DEF IInv, TypeOK, StopAtBarrier
<1>6. CASE NextBatch
  <2>1. (ChecksDrawNothing /\ PhaseInv /\ PhaseBarrier /\ NilMeansAllAttempted)'
    <3>1. \/ phase = "nodes" /\ phase' = "services" /\ AllSettled(Nodes)
          \/ phase = "services" /\ phase' = "checks" /\ AllSettled(Services)
      BY <1>6 DEF NextBatch, BatchSettled, Batch, AllSettled
    <3>2. PhaseInv' /\ PhaseBarrier'
      BY <1>0, <1>6, <3>1, BatchStarts, BatchesDisjoint
      DEF PhaseInv, PhaseBarrier, Untouched, AllSettled, Batch, Resources
    <3>3. ChecksDrawNothing' /\ NilMeansAllAttempted'
      BY <1>0, <1>6, BatchStarts
      DEF ChecksDrawNothing, NilMeansAllAttempted, NextBatch, TypeOK, Resources
    <3>4. QED BY <3>2, <3>3
  <2>2. QED BY <1>0, <1>6, <2>1, BatchStarts DEF IInv, TypeOK, NextBatch
<1>7. CASE Finish
  <2>1. AllSettled(Resources)
    BY <1>0, <1>7 DEF Finish, BatchSettled, Batch, PhaseInv, AllSettled, Resources
  <2>2. (ChecksDrawNothing /\ PhaseInv /\ PhaseBarrier /\ NilMeansAllAttempted)'
    BY <1>0, <1>7, <2>1 DEF Finish, ChecksDrawNothing, PhaseInv, PhaseBarrier,
       NilMeansAllAttempted, Quiescent, Untouched, AllSettled
  <2>3. QED BY <1>0, <1>7, <2>2 DEF IInv, TypeOK, Finish
<1>8. CASE ContextDone \/ UNCHANGED vars
  BY <1>0, <1>8 DEF ContextDone, vars, IInv, TypeOK, ChecksDrawNothing, PhaseInv,
     PhaseBarrier, NilMeansAllAttempted, Quiescent, Untouched, AllSettled
<1>9. ASSUME NEW r \in Resources, Applies(r) PROVE IInv'
  BY <1>0, <1>9 DEF Applies, IInv, TypeOK, ChecksDrawNothing, PhaseInv, PhaseBarrier,
     NilMeansAllAttempted, Quiescent, Untouched, AllSettled
<1>10. QED
  BY <1>1, <1>2, <1>3, <1>4, <1>5, <1>6, <1>7, <1>8, <1>9
  DEF Next, Local, Main, Abandoned, Accepted, Rejected, Settled

LEMMA Invariance == Spec => []IInv
<1>1. QED BY InitInv, NextInv, PTL DEF Spec

-----------------------------------------------------------------------------
\* Type correctness of the push, for any resources.
THEOREM TypeCorrect == Spec => []TypeOK
<1>1. IInv => TypeOK
  BY DEF IInv
<1>2. QED BY <1>1, Invariance, PTL

\* The WaitGroup barriers order the batches in every run, cancelled or not.
THEOREM BarrierHolds == Spec => []PhaseBarrier
<1>1. IInv => PhaseBarrier
  BY DEF IInv
<1>2. QED BY <1>1, Invariance, PTL

\* Success is reported only after every resource was tried.
THEOREM NilIsComplete == Spec => []NilMeansAllAttempted
<1>1. IInv => NilMeansAllAttempted
  BY DEF IInv
<1>2. QED BY <1>1, Invariance, PTL

-----------------------------------------------------------------------------
(* What Consul still may do, and what a success is worth.                  *)

\* The catalog has every resource whose call succeeded.
AcceptedIsThere == \A r \in Resources : req[r] = "ok" => r \in catalog

\* A resource that was sent has a call in flight or over.
SentIsOver == \A r \in sent : req[r] \in {"sent"} \cup Settled

\* Only Consul touches the catalog, and only to add what was sent.
LEMMA CatalogGrows ==
  ASSUME [Next]_vars
  PROVE  /\ catalog \subseteq catalog'
         /\ catalog' \ catalog \subseteq sent
<1> USE DEF vars, ReadRng, StoreLo, StoreHi, Send, Abandoned, Accepted, Rejected,
            Answered, Applies, StopAtBarrier, NextBatch, Finish, ContextDone
<1>1. ASSUME NEW r \in Resources, Local(r) \/ Accepted(r) \/ Rejected(r) \/ Applies(r)
      PROVE  catalog \subseteq catalog' /\ catalog' \ catalog \subseteq sent
  BY <1>1 DEF Local
<1>2. CASE Main \/ ContextDone \/ UNCHANGED vars
  BY <1>2 DEF Main
<1>3. QED BY <1>1, <1>2 DEF Next

LEMMA SentStays == IInv /\ SentIsOver /\ [Next]_vars => SentIsOver'
<1> SUFFICES ASSUME IInv, SentIsOver, [Next]_vars PROVE SentIsOver'
  OBVIOUS
<1> USE DEF SentIsOver, Settled
<1>1. /\ req \in [Resources -> Progress]
      /\ sent \subseteq Resources
  BY DEF IInv, TypeOK
<1>2. ASSUME NEW r \in Resources, ReadRng(r) \/ StoreLo(r) \/ StoreHi(r)
      PROVE  SentIsOver'
  <2>1. r \notin sent /\ sent' = sent /\ \A s \in Resources \ {r} : req'[s] = req[s]
    BY <1>1, <1>2 DEF ReadRng, StoreLo, StoreHi
  <2>2. QED BY <1>1, <2>1
<1>3. ASSUME NEW r \in Resources, Send(r) \/ Accepted(r) \/ Rejected(r)
      PROVE  SentIsOver'
  <2>1. /\ req'[r] \in {"sent"} \cup Settled
        /\ sent' \subseteq sent \cup {r}
        /\ \A s \in Resources \ {r} : req'[s] = req[s]
    BY <1>1, <1>3 DEF Send, Accepted, Rejected, Answered
  <2>2. QED BY <1>1, <2>1
<1>4. CASE NextBatch
  BY <1>1, <1>4, BatchStarts DEF NextBatch
<1>5. CASE \/ \E r \in Resources : Applies(r)
           \/ StopAtBarrier \/ Finish \/ ContextDone \/ UNCHANGED vars
  BY <1>5 DEF Applies, StopAtBarrier, Finish, ContextDone, vars
<1>6. QED BY <1>2, <1>3, <1>4, <1>5 DEF Next, Local, Abandoned, Main

LEMMA AcceptedStays == IInv /\ AcceptedIsThere /\ [Next]_vars => AcceptedIsThere'
<1> SUFFICES ASSUME IInv, AcceptedIsThere, [Next]_vars PROVE AcceptedIsThere'
  OBVIOUS
<1>1. req \in [Resources -> Progress]
      /\ catalog \subseteq catalog'
  BY CatalogGrows DEF IInv, TypeOK
<1>2. ASSUME NEW r \in Resources, Local(r) \/ Rejected(r) PROVE AcceptedIsThere'
  <2>1. PICK v \in {"read", "half", "ready", "sent", "failed"} :
          req' = [req EXCEPT ![r] = v]
    BY <1>2 DEF Local, ReadRng, StoreLo, StoreHi, Send, Abandoned, Rejected, Answered
  <2>2. QED BY <1>1, <2>1 DEF AcceptedIsThere
<1>3. ASSUME NEW r \in Resources, Accepted(r) \/ Applies(r) PROVE AcceptedIsThere'
  BY <1>1, <1>3 DEF Accepted, Answered, Applies, AcceptedIsThere
<1>4. CASE NextBatch
  BY <1>1, <1>4, BatchStarts DEF AcceptedIsThere
<1>5. CASE StopAtBarrier \/ Finish \/ ContextDone \/ UNCHANGED vars
  BY <1>5 DEF StopAtBarrier, Finish, ContextDone, vars, AcceptedIsThere
<1>6. QED BY <1>2, <1>3, <1>4, <1>5 DEF Next, Main

LEMMA AcceptedInvariant == Spec => []AcceptedIsThere
<1>1. Init => AcceptedIsThere
  BY DEF Init, Started, AcceptedIsThere
<1>2. QED BY <1>1, AcceptedStays, Invariance, PTL DEF Spec

\* The push is quiet once Initialize has returned: no goroutine of it is left,
\* and a registration carried out after that is one of a call that failed,
\* given up by the client or answered with an error.
THEOREM PushIsQuiet == Spec => QuietAfterReturn
<1>1. Init => SentIsOver
  BY DEF Init, SentIsOver
<1>2. IInv /\ SentIsOver /\ AcceptedIsThere /\ [Next]_vars
        => [result # "none" => /\ sent' = sent
                               /\ \A r \in catalog' \ catalog : req[r] = "failed"]_vars
  <2> SUFFICES ASSUME IInv, SentIsOver, AcceptedIsThere, [Next]_vars, result # "none"
               PROVE  sent' = sent /\ \A r \in catalog' \ catalog : req[r] = "failed"
    OBVIOUS
  <2>1. /\ \A r \in Resources : req[r] = "idle" \/ req[r] \in Settled
        /\ phase = "returned" /\ sent \subseteq Resources
    BY DEF IInv, TypeOK, PhaseInv, Quiescent
  <2>2. sent' = sent
    BY <2>1 DEF Next, Local, Main, ReadRng, StoreLo, StoreHi, Send, Abandoned, Accepted,
       Rejected, Answered, Applies, StopAtBarrier, NextBatch, Finish, ContextDone, vars,
       Settled
  <2>3. \A r \in catalog' \ catalog : req[r] = "failed"
    BY <2>1, CatalogGrows DEF SentIsOver, AcceptedIsThere, Settled
  <2>4. QED BY <2>2, <2>3
<1>3. QED
  BY <1>1, <1>2, SentStays, Invariance, AcceptedInvariant, PTL DEF Spec, QuietAfterReturn

\* What a nil result leaves out has failed; a success is never lost.
THEOREM NothingLostButFailures == Spec => []OnlyFailuresGoMissing
<1>1. IInv /\ AcceptedIsThere => OnlyFailuresGoMissing
  BY DEF IInv, AcceptedIsThere, OnlyFailuresGoMissing, NilMeansAllAttempted, AllSettled,
     Settled
<1>2. QED BY <1>1, Invariance, AcceptedInvariant, PTL

\* The comments of pushAllData hold of a push in which no call fails: what
\* they overlook is nothing but the dropped error.
THEOREM CleanPushIsComplete ==
  Spec /\ [](\A r \in Resources : req[r] # "failed") => []NilMeansAllRegistered
<1>1. IInv /\ OnlyFailuresGoMissing /\ (\A r \in Resources : req[r] # "failed")
        => NilMeansAllRegistered
  BY DEF IInv, TypeOK, OnlyFailuresGoMissing, NilMeansAllRegistered
<1>2. QED BY <1>1, Invariance, NothingLostButFailures, PTL

-----------------------------------------------------------------------------
(* The contract of Initialize.                                             *)

LEMMA InitMaps == Init => Contract!Init
BY DEF Init, Contract!Init

\* Requests are sent while the push runs, the main goroutine returns, and
\* everything else, Consul's part included, is invisible.
LEMMA StepMaps == IInv /\ [Next]_vars => [Contract!Next]_(Contract!vars)
<1> SUFFICES ASSUME IInv, [Next]_vars PROVE [Contract!Next]_(Contract!vars)
  OBVIOUS
<1> USE DEF Contract!vars, Contract!Next
<1>1. ASSUME NEW r \in Resources,
             ReadRng(r) \/ StoreLo(r) \/ StoreHi(r) \/ Accepted(r) \/ Rejected(r) \/ Applies(r)
      PROVE  [Contract!Next]_(Contract!vars)
  BY <1>1 DEF ReadRng, StoreLo, StoreHi, Accepted, Rejected, Answered, Applies
<1>2. ASSUME NEW r \in Resources, Send(r)
      PROVE  [Contract!Next]_(Contract!vars)
  <2>1. result = "none"
    BY <1>2, BatchesDisjoint DEF Send, IInv, TypeOK, PhaseInv, Quiescent, Settled
  <2>2. Contract!Send
    BY <1>2, <2>1 DEF Send, Contract!Send
  <2>3. QED BY <2>2
<1>3. CASE Main
  <2>1. /\ StopAtBarrier => result = "none"
        /\ Finish => result = "none"
    BY DEF StopAtBarrier, Finish, IInv, TypeOK
  <2>2. CASE StopAtBarrier
    BY <2>1, <2>2 DEF StopAtBarrier, Contract!ReturnError
  <2>3. CASE NextBatch
    BY <2>3 DEF NextBatch
  <2>4. CASE Finish
    BY <2>1, <2>4 DEF Finish, Contract!ReturnNil
  <2>5. QED BY <1>3, <2>2, <2>3, <2>4 DEF Main
<1>4. CASE ContextDone
  BY <1>4 DEF ContextDone, Contract!ContextDone
<1>5. CASE UNCHANGED vars
  BY <1>5 DEF vars
<1>6. QED
  BY <1>1, <1>2, <1>3, <1>4, <1>5 DEF Next, Local, Abandoned

\* The safety half of KeepsContract: pushAllData sends requests until its one
\* return, which reports an error only of the context.  What Consul makes of
\* the requests, and when, is left open.
THEOREM PushKeepsContract == Spec => Contract!SafeSpec
<1>1. QED BY InitMaps, StepMaps, Invariance, PTL DEF Spec, Contract!SafeSpec

-----------------------------------------------------------------------------
(* What a lock around the shared random generators would buy.              *)

Drawers == Nodes \cup Services
Drawing(r) == req[r] \in {"read", "half"}
Drawn(r) == req[r] \notin {"idle", "started"}

\* A draw from a stream is over before the next one from it begins.
OneDrawAtATime ==
  \A r, s \in Drawers :
    Stream(r) = Stream(s) /\ Drawing(r) /\ Drawing(s) => r = s

\* No draw mixes the words of two states, and none is handed out twice.
DrawsWholeAndOnce ==
  \A r \in Drawers : Drawn(r) =>
    /\ drawn[r].lo = drawn[r].hi
    /\ \A s \in Drawers \ {r} :
         Stream(s) = Stream(r) /\ Drawn(s) => drawn[s].hi # drawn[r].hi

\* A generator is ahead of all it has given out,
DrawsBehind ==
  \A r \in Drawers :
    /\ req[r] = "read" => rng[Stream(r)] = drawn[r]
    /\ req[r] = "half" => /\ rng[Stream(r)].hi = drawn[r].hi
                          /\ rng[Stream(r)].lo = drawn[r].lo + 1
    /\ Drawn(r) /\ ~Drawing(r) => drawn[r].hi < rng[Stream(r)].hi

\* and whole between two draws.
WholeBetweenDraws ==
  \A p \in {"nodes", "services"} :
    (\A r \in Drawers : Stream(r) = p => ~Drawing(r)) => rng[p].lo = rng[p].hi

DrawInv == DrawsWholeAndOnce /\ DrawsBehind /\ WholeBetweenDraws

LEMMA DrawTypes ==
  ASSUME TypeOK
  PROVE  /\ \A r \in Drawers : /\ drawn[r].lo \in Nat /\ drawn[r].hi \in Nat
                               /\ Stream(r) \in {"nodes", "services"}
         /\ \A p \in {"nodes", "services"} : rng[p].lo \in Nat /\ rng[p].hi \in Nat
BY DEF TypeOK, Words, Drawers, Stream

\* The rest of a registration leaves the draws alone.
LEMMA RestKeepsDraws ==
  ASSUME DrawInv, UNCHANGED <<rng, drawn>>,
         \A s \in Drawers : \/ req'[s] = req[s]
                            \/ ~Drawing(s) /\ ~Drawing(s)' /\ (Drawn(s)' <=> Drawn(s))
  PROVE  DrawInv'
<1>1. \A s \in Drawers : (Drawn(s)' <=> Drawn(s)) /\ (Drawing(s)' <=> Drawing(s))
  BY DEF Drawn, Drawing
<1>2. \A s \in Drawers : Stream(s)' = Stream(s)
  BY DEF Stream
<1>3. DrawsWholeAndOnce'
  BY <1>1, <1>2 DEF DrawInv, DrawsWholeAndOnce
<1>4. \A s \in Drawers : Drawing(s)' => req'[s] = req[s]
  OBVIOUS
<1>5. DrawsBehind' /\ WholeBetweenDraws'
  BY <1>1, <1>2, <1>4 DEF DrawInv, DrawsBehind, WholeBetweenDraws, Drawing
<1>6. QED BY <1>3, <1>5 DEF DrawInv

LEMMA DrawsStay ==
  IInv /\ DrawInv /\ OneDrawAtATime /\ OneDrawAtATime' /\ [Next]_vars => DrawInv'
<1> SUFFICES ASSUME IInv, DrawInv, OneDrawAtATime, OneDrawAtATime', [Next]_vars
             PROVE  DrawInv'
  OBVIOUS
<1>0. /\ TypeOK /\ ChecksDrawNothing
      /\ req \in [Resources -> Progress]
      /\ drawn \in [Drawers -> Words] /\ rng \in [{"nodes", "services"} -> Words]
      /\ Drawers \subseteq Resources
      /\ \A s \in Drawers : Stream(s)' = Stream(s)
  BY DEF IInv, TypeOK, Drawers, Resources, Stream
<1>1. ASSUME NEW r \in Resources, ReadRng(r) PROVE DrawInv'
  <2> DEFINE p == Stream(r)
  <2>1. /\ r \in Drawers /\ p \in {"nodes", "services"} /\ ~Drawn(r)
    BY <1>1 DEF ReadRng, Drawers, Resources, Stream, Drawn
  <2>2. /\ req' = [req EXCEPT ![r] = "read"] /\ rng' = rng
        /\ drawn' = [drawn EXCEPT ![r] = rng[p]]
    BY <1>1 DEF ReadRng
  <2>3. /\ req'[r] = "read" /\ drawn'[r] = rng[p]
        /\ \A s \in Drawers \ {r} : req'[s] = req[s] /\ drawn'[s] = drawn[s]
    BY <1>0, <2>1, <2>2
  <2>4. \A s \in Drawers : Stream(s) = p => ~Drawing(s)
    BY <1>0, <2>1, <2>3 DEF OneDrawAtATime, Drawing, Drawn
  <2>5. rng[p].lo = rng[p].hi
    BY <2>1, <2>4 DEF DrawInv, DrawsBehind, WholeBetweenDraws
  <2>6. \A s \in Drawers : Stream(s) = p /\ Drawn(s) => drawn[s].hi < rng[p].hi
    BY <2>4 DEF DrawInv, DrawsBehind, WholeBetweenDraws
  <2>7. rng[p].hi \in Nat /\ \A s \in Drawers : drawn[s].hi \in Nat
    BY <1>0, <2>1, DrawTypes
  <2>8. DrawsWholeAndOnce'
    BY <1>0, <2>1, <2>3, <2>5, <2>6, <2>7 DEF DrawInv, DrawsWholeAndOnce, Drawn
  <2>9. DrawsBehind' /\ WholeBetweenDraws'
    BY <1>0, <2>1, <2>2, <2>3
    DEF DrawInv, DrawsBehind, WholeBetweenDraws, Drawn, Drawing
  <2>10. QED BY <2>8, <2>9 DEF DrawInv
<1>2. ASSUME NEW r \in Resources, StoreLo(r) PROVE DrawInv'
  <2> DEFINE p == Stream(r)
  <2>1. /\ r \in Drawers /\ p \in {"nodes", "services"} /\ req[r] = "read"
        /\ drawn' = drawn
    BY <1>0, <1>2 DEF StoreLo, ChecksDrawNothing, Drawers, Resources, Stream
  <2>2. /\ req'[r] = "half" /\ \A s \in Drawers \ {r} : req'[s] = req[s]
        /\ rng'[p].lo = drawn[r].lo + 1 /\ rng'[p].hi = rng[p].hi
        /\ \A q \in {"nodes", "services"} \ {p} : rng'[q] = rng[q]
    BY <1>0, <1>2, <2>1 DEF StoreLo, Words
  <2>3. \A s \in Drawers \ {r} : Stream(s) = p => ~Drawing(s)
    BY <1>0, <2>1, <2>2 DEF OneDrawAtATime, Drawing
  <2>4. DrawsWholeAndOnce'
    BY <1>0, <2>1, <2>2 DEF DrawInv, DrawsWholeAndOnce, Drawn
  <2>5. DrawsBehind' /\ WholeBetweenDraws'
    <3>1. rng[p] = drawn[r]
      BY <2>1 DEF DrawInv, DrawsBehind, WholeBetweenDraws
    <3>2. \A s \in Drawers \ {r} :
            /\ Stream(s) = p => rng'[p].hi = rng[p].hi
            /\ Stream(s) # p => rng'[Stream(s)] = rng[Stream(s)]
      BY <1>0, <2>2, DrawTypes
    <3>3. DrawsBehind'
      BY <1>0, <2>1, <2>2, <2>3, <3>1, <3>2
      DEF DrawInv, DrawsBehind, Drawn, Drawing
    <3>4. WholeBetweenDraws'
      BY <1>0, <2>1, <2>2 DEF DrawInv, DrawsBehind, WholeBetweenDraws, Drawing
    <3>5. QED BY <3>3, <3>4
  <2>6. QED BY <2>4, <2>5 DEF DrawInv
<1>3. ASSUME NEW r \in Resources, StoreHi(r) PROVE DrawInv'
  <2> DEFINE p == Stream(r)
  <2>1. /\ r \in Drawers /\ p \in {"nodes", "services"} /\ req[r] = "half"
        /\ drawn' = drawn
    BY <1>0, <1>3 DEF StoreHi, ChecksDrawNothing, Drawers, Resources, Stream
  <2>2. /\ req'[r] = "ready" /\ \A s \in Drawers \ {r} : req'[s] = req[s]
        /\ rng'[p].hi = drawn[r].hi + 1 /\ rng'[p].lo = rng[p].lo
        /\ \A q \in {"nodes", "services"} \ {p} : rng'[q] = rng[q]
    BY <1>0, <1>3, <2>1 DEF StoreHi, Words
  <2>3. rng[p].hi = drawn[r].hi /\ rng[p].lo = drawn[r].lo + 1
        /\ drawn[r].lo = drawn[r].hi
    BY <2>1 DEF DrawInv, DrawsWholeAndOnce, DrawsBehind, WholeBetweenDraws, Drawn
  <2>4. \A s \in Drawers : drawn[s].hi \in Nat
    BY <1>0, DrawTypes
  <2>5. DrawsWholeAndOnce'
    BY <1>0, <2>1, <2>2 DEF DrawInv, DrawsWholeAndOnce, Drawn
  <2>6. DrawsBehind' /\ WholeBetweenDraws'
    <3>1. \A s \in Drawers \ {r} :
            /\ Stream(s) = p => ~Drawing(s)
            /\ Stream(s) # p => rng'[Stream(s)] = rng[Stream(s)]
      BY <1>0, <2>1, <2>2, DrawTypes DEF OneDrawAtATime, Drawing
    <3>2. DrawsBehind'
      BY <1>0, <2>1, <2>2, <2>3, <2>4, <3>1
      DEF DrawInv, DrawsBehind, Drawn, Drawing
    <3>3. WholeBetweenDraws'
      BY <1>0, <2>1, <2>2, <2>3 DEF DrawInv, DrawsBehind, WholeBetweenDraws, Drawing
    <3>4. QED BY <3>2, <3>3
  <2>7. QED BY <2>5, <2>6 DEF DrawInv
<1>4. ASSUME NEW r \in Resources, Send(r) \/ Accepted(r) \/ Rejected(r)
      PROVE  DrawInv'
  <2>1. /\ UNCHANGED <<rng, drawn>>
        /\ \A s \in Drawers \ {r} : req'[s] = req[s]
    BY <1>0, <1>4 DEF Send, Accepted, Rejected, Answered
  <2>2. ASSUME r \in Drawers
        PROVE  req[r] \in {"ready", "sent"} /\ req'[r] \in {"sent", "ok", "failed"}
    <3>1. r \notin Checks
      BY <2>2, BatchesDisjoint DEF Drawers
    <3>2. QED BY <1>0, <1>4, <3>1 DEF Send, Accepted, Rejected, Answered
  <2>3. QED BY <2>1, <2>2, RestKeepsDraws DEF Drawn, Drawing
<1>5. CASE NextBatch
  BY <1>0, <1>5, BatchStarts, RestKeepsDraws DEF NextBatch, Drawn, Drawing
<1>6. CASE \/ \E r \in Resources : Applies(r)
           \/ StopAtBarrier \/ Finish \/ ContextDone \/ UNCHANGED vars
  <2>1. UNCHANGED <<rng, drawn, req>>
    BY <1>6 DEF Applies, StopAtBarrier, Finish, ContextDone, vars
  <2>2. QED BY <2>1, RestKeepsDraws
<1>7. QED BY <1>1, <1>2, <1>3, <1>4, <1>5, <1>6 DEF Next, Local, Abandoned, Main

\* If the goroutines took turns at the generator, every resource would draw a
\* state of its own.  Which one would still be up to the scheduler.
THEOREM TurnsKeepDrawsApart == Spec /\ []OneDrawAtATime => []DrawsWholeAndOnce
<1>1. Init => DrawInv
  <2> SUFFICES ASSUME Init PROVE DrawInv
    OBVIOUS
  <2>1. \A r \in Drawers : ~Drawn(r) /\ ~Drawing(r)
    BY DEF Init, Started, Drawers, Resources, Drawn, Drawing
  <2>2. \A p \in {"nodes", "services"} : rng[p].lo = rng[p].hi
    BY DEF Init
  <2>3. QED
    BY <2>1, <2>2
    DEF DrawInv, DrawsWholeAndOnce, DrawsBehind, WholeBetweenDraws, Drawing
<1>2. DrawInv => DrawsWholeAndOnce
  BY DEF DrawInv
<1>3. QED BY <1>1, <1>2, DrawsStay, Invariance, PTL DEF Spec
=============================================================================
