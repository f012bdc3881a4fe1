------------------------------- MODULE Peering -------------------------------
(***************************************************************************)
(* load/peering/generator.go.  Run checks that the acceptor and the        *)
(* clusters to peer answer, peers them concurrently, and then keeps one    *)
(* worker per peered cluster.  In a round a worker registers a service,    *)
(* reads its index at the peer, starts a goroutine that waits on that      *)
(* index, adds the service to the acceptor's "exported-services" entry     *)
(* (read, append, write back) and waits for the goroutine or a timeout.    *)
(*                                                                         *)
(* Consul is external.  A request that fails may have been carried out all *)
(* the same, and a write of the entry even after the worker has gone on.   *)
(***************************************************************************)
EXTENDS Integers

CONSTANTS
  Clusters,     \* lg.conf.PeeringClusters
  Names,        \* what petname.Name() can return
  NumServices,  \* lg.conf.NumServices, the burst of each worker's limiter
  MaxRounds     \* bound of the runs: register calls of a worker

ASSUME NumServicesIsInteger == NumServices \in Int
ASSUME SomeName == Names # {}
ASSUME MaxRoundsIsNatural == MaxRounds \in Nat

Exports == Clusters \X Names

VARIABLES
  ctxDone,  \* the context given to Run is done
  stage,    \* where Run is
  pc,       \* where the goroutine of each cluster is
  round,    \* register calls each worker has made
  svc,      \* svcName of the round
  since,    \* index of the round
  got,      \* the exported-services entry the worker read
  waiters,  \* goroutines inside their blocking query
  closed,   \* waitExportServiceCh of the round is closed
  outcome,  \* status of the last latency sample each worker recorded
  entry,    \* Consul: the services of the exported-services entry
  stale,    \* Consul: exports whose latest change the peer has not seen
  index,    \* Consul: index of each service that a peer can see, 0 of others
  clock,    \* Consul: index of the latest change in each peer's catalog
  late      \* Consul: failed writes that it may still carry out, or has

worker == <<round, svc, since, got, waiters, closed, outcome>>
consul == <<entry, stale, index, clock, late>>
vars == <<ctxDone, stage, pc, worker, consul>>

Init ==
  /\ ctxDone = FALSE
  /\ stage = "test"
  /\ pc = [c \in Clusters |-> "off"]
  /\ round = [c \in Clusters |-> 0]
  /\ svc = [c \in Clusters |-> CHOOSE n \in Names : TRUE]
  /\ since = [c \in Clusters |-> 0]
  /\ got = [c \in Clusters |-> {}]
  /\ waiters = {}
  /\ closed = [c \in Clusters |-> FALSE]
  /\ outcome = [c \in Clusters |-> "none"]
  /\ entry = {}
  /\ stale = {}
  /\ index = [e \in Exports |-> 0]
  /\ clock = [c \in Clusters |-> 0]
  /\ late = {}

Goto(c, l) == pc' = [pc EXCEPT ![c] = l]

Move(c, from, to) ==
  /\ pc[c] = from
  /\ Goto(c, to)
  /\ UNCHANGED <<ctxDone, stage, worker, consul>>

-----------------------------------------------------------------------------
(* Run, up to generateLoad.                                                *)

Stage(from, to) ==
  /\ stage = from
  /\ stage' = to
  /\ UNCHANGED <<ctxDone, worker, consul>>

\* testClient and getPeeringClients, neither of which looks at the context.
ClientsAnswer ==
  /\ Stage("test", "peer")
  /\ pc' = [c \in Clusters |-> "token"]

ClientFails == Stage("test", "failed") /\ UNCHANGED pc

GenerateToken(c) == Move(c, "token", "establish")
Establish(c) == Move(c, "establish", "peered")

\* The error is logged and the cluster left out; a done context is one cause.
PeeringFails(c) == \E l \in {"token", "establish"} : Move(c, l, "unpeered")

\* Mutant: wg.Done is left out when the peering fails.
AllPeered == \A c \in Clusters : pc[c] = "peered"
\* Mutant: establishPeerings does not wait for its goroutines.
AnyPeered == \E c \in Clusters : pc[c] = "peered"

\* wg.Wait
PeeringOver == \A c \in Clusters : pc[c] \in {"peered", "unpeered"}

StartLoad ==
  /\ PeeringOver
  /\ Stage("peer", "load")
  /\ pc' = [c \in Clusters |-> IF pc[c] = "peered" THEN "top" ELSE pc[c]]

-----------------------------------------------------------------------------
(* The loop of doLoad.                                                     *)

\* The calls of a round in program order: where each one leads.
ExportFirst == [register |-> "get", query |-> "wait", set |-> "query"]  \* Mutant
Then == [register |-> "query", query |-> "get", set |-> "wait"]

\* The check at the top of the loop, and the one limiter.Wait begins with.
Enter(c) == ~ctxDone /\ Move(c, "top", "limit")
EnterDone(c) == ctxDone /\ Move(c, "top", "done")

\* A token; when it came after a sleep the context may be done meanwhile.
Granted(c) ==
  /\ NumServices >= 1
  /\ round[c] < MaxRounds
  /\ Move(c, "limit", "register")

\* The context is done, its deadline too near for the next token, or the
\* burst too small for any.
LimiterExits(c) == Move(c, "limit", "done")

\* Registering n again makes every export of it differ from its copy.
Registers(n) ==
  /\ stale' = stale \cup {e \in entry : e[2] = n}
  /\ UNCHANGED <<entry, index, clock, late>>

RegisterCall(c, n, to) ==
  /\ pc[c] = "register"
  /\ round' = [round EXCEPT ![c] = @ + 1]
  /\ svc' = [svc EXCEPT ![c] = n]
  /\ Goto(c, to)
  /\ UNCHANGED <<ctxDone, stage, since, got, waiters, closed, outcome>>

\* agent.ServiceRegister, with a name drawn anew in every round.
Register(c) ==
  \E n \in Names : RegisterCall(c, n, Then.register) /\ Registers(n)

RegisterFails(c) ==
  \E n \in Names :
    /\ RegisterCall(c, n, "top")
    /\ Registers(n) \/ UNCHANGED consul

Visible(e) == index[e] > 0

\* The index that a query for a service reports: the service's own one at the
\* peer, but for a service that is missing there the one of everything else.
LastIndex(e) == IF Visible(e) THEN index[e] ELSE clock[e[1]]

\* The non-blocking health query, and the goroutine that waits from there.
Query(c) ==
  /\ pc[c] = "query"
  /\ since' = [since EXCEPT ![c] = LastIndex(<<c, svc[c]>>)]
  /\ waiters' = waiters \cup {[cluster |-> c, round |-> round[c],
                               svc |-> svc[c], since |-> since'[c]]}
  /\ closed' = [closed EXCEPT ![c] = FALSE]
  /\ Goto(c, Then.query)
  /\ UNCHANGED <<ctxDone, stage, round, svc, got, outcome, consul>>

QueryFails(c) == Move(c, "query", "top")

-----------------------------------------------------------------------------
(* exportService.                                                          *)

\* ConfigEntries().Get; an entry that does not exist yet reads as empty.
Get(c) ==
  /\ pc[c] = "get"
  /\ got' = [got EXCEPT ![c] = entry]
  /\ Goto(c, "set")
  /\ UNCHANGED <<ctxDone, stage, round, svc, since, waiters, closed, outcome,
                 consul>>

GetFails(c) == Move(c, "get", "top")

\* What the worker writes back.
Appended(c) == got[c] \cup {<<c, svc[c]>>}

\* The write replaces the entry: ConfigEntries().Set, not CAS.
Writes(new) ==
  /\ entry' = new
  /\ stale' = stale \cup (entry \ new) \cup (new \ entry)
  /\ UNCHANGED <<index, clock>>

SetDone(c, to) ==
  /\ pc[c] = "set"
  /\ Goto(c, to)
  /\ UNCHANGED <<ctxDone, stage, worker>>

Set(c) == SetDone(c, Then.set) /\ Writes(Appended(c)) /\ UNCHANGED late

GivenUp(c) ==
  [cluster |-> c, round |-> round[c], content |-> Appended(c), pending |-> TRUE]

\* The worker sees an error: the write is done by now, or under way.
SetFails(c) ==
  /\ SetDone(c, "top")
  /\ \/ Writes(Appended(c)) /\ UNCHANGED late
     \/ /\ late' = late \cup {GivenUp(c)}
        /\ UNCHANGED <<entry, stale, index, clock>>

-----------------------------------------------------------------------------
(* The goroutine, and the select that waits for it.                        *)

\* Mutant: one channel for all rounds of a worker.
AnyRound(w) == TRUE
\* Each round makes a channel of its own.
OwnRound(w) == w.round = round[w.cluster]

\* The query is over, with an error or without; doneCh is closed either way.
WaiterEnds(w) ==
  /\ waiters' = waiters \ {w}
  /\ closed' = [closed EXCEPT ![w.cluster] = @ \/ OwnRound(w)]
  /\ UNCHANGED <<ctxDone, stage, pc, round, svc, since, got, outcome, consul>>

\* The index has moved; while the service is missing, so does any other change.
WaiterWakes(w) == LastIndex(<<w.cluster, w.svc>>) > w.since /\ WaiterEnds(w)

\* Consul's limit on blocking queries, an error, or a change at the peer that
\* is not the doing of this program.
WaiterGivesUp(w) == WaiterEnds(w)

Record(c, o) ==
  /\ pc[c] = "wait"
  /\ Goto(c, "top")
  /\ outcome' = [outcome EXCEPT ![c] = o]
  /\ UNCHANGED <<ctxDone, stage, round, svc, since, got, waiters, closed, consul>>

Succeeds(c) == closed[c] /\ Record(c, "success")
TimesOut(c) == Record(c, "timeout")
WaitCancelled(c) == ctxDone /\ Move(c, "wait", "done")

WorkersEnded == \A c \in Clusters : pc[c] \in {"done", "unpeered"}

\* Mutant: Run does not wait for its workers.
NoWait == TRUE
\* Mutant: Run also waits for the goroutines its workers started.
GoroutinesDone == waiters = {} /\ WorkersEnded

\* waitForChannelsToClose
WorkersDone == WorkersEnded

Finish == WorkersDone /\ Stage("load", "finished") /\ UNCHANGED pc

-----------------------------------------------------------------------------
ContextDone ==
  /\ ~ctxDone
  /\ ctxDone' = TRUE
  /\ UNCHANGED <<stage, pc, worker, consul>>

\* A peer catches up with an export, or with its end.
Sync(e) ==
  /\ e \in stale
  /\ stale' = stale \ {e}
  /\ clock' = [clock EXCEPT ![e[1]] = @ + 1]
  /\ index' = [index EXCEPT ![e] = IF e \in entry THEN clock'[e[1]] ELSE 0]
  /\ UNCHANGED <<ctxDone, stage, pc, worker, entry, late>>

\* Consul carries out a write whose failure the worker has seen before.
LateWrite(w) ==
  /\ w.pending
  /\ Writes(w.content)
  /\ late' = (late \ {w}) \cup {[w EXCEPT !.pending = FALSE]}
  /\ UNCHANGED <<ctxDone, stage, pc, worker>>

\* Steps that need nothing from Consul.
Local(c) ==
  \/ Enter(c) \/ EnterDone(c) \/ Granted(c) \/ LimiterExits(c)
  \/ Succeeds(c) \/ TimesOut(c) \/ WaitCancelled(c)

\* Answers to the calls of a worker.
Answer(c) ==
  \/ GenerateToken(c) \/ Establish(c) \/ PeeringFails(c)
  \/ Register(c) \/ RegisterFails(c) \/ Query(c) \/ QueryFails(c)
  \/ Get(c) \/ GetFails(c) \/ Set(c) \/ SetFails(c)

Next ==
  \/ ClientsAnswer \/ ClientFails \/ StartLoad \/ Finish
  \/ ContextDone
  \/ \E c \in Clusters : Local(c) \/ Answer(c)
  \/ \E w \in waiters : WaiterWakes(w) \/ WaiterGivesUp(w)
  \/ \E e \in Exports : Sync(e)
  \/ \E w \in late : LateWrite(w)

Spec == Init /\ [][Next]_vars

\* The program's own steps happen, and a call bound to the context ends with
\* it: GenerateToken and Establish take ctx, no other call does.
OwnFairness ==
  /\ WF_vars(StartLoad) /\ WF_vars(Finish)
  /\ \A c \in Clusters : WF_vars(Local(c)) /\ WF_vars(ctxDone /\ PeeringFails(c))

\* In addition every call but the blocking query is answered in the end.
ConsulAnswers ==
  /\ WF_vars(ClientsAnswer \/ ClientFails)
  /\ \A c \in Clusters : WF_vars(Answer(c))

SilentSpec == Spec /\ OwnFairness
FairSpec == Spec /\ OwnFairness /\ ConsulAnswers

-----------------------------------------------------------------------------
Loop == {"top", "limit", "register", "query", "get", "set", "wait"}

\* Where the goroutines of the clusters can be in each stage of Run.
Places ==
  [test |-> {"off"}, failed |-> {"off"},
   peer |-> {"token", "establish", "peered", "unpeered"},
   load |-> Loop \cup {"done", "unpeered"},
   finished |-> {"done", "unpeered"}]

\* Beyond the types: no worker runs while a cluster is still being peered
\* (wg.Wait in establishPeerings), and none after Run has returned.
TypeOK ==
  /\ ctxDone \in BOOLEAN
  /\ stage \in DOMAIN Places
  /\ pc \in [Clusters -> Places[stage]]
  /\ round \in [Clusters -> 0 .. MaxRounds]
  /\ svc \in [Clusters -> Names]
  /\ since \in [Clusters -> Nat]
  /\ got \in [Clusters -> SUBSET Exports]
  /\ waiters \subseteq [cluster : Clusters, round : 0 .. MaxRounds,
                         svc : Names, since : Nat]
  /\ closed \in [Clusters -> BOOLEAN]
  /\ outcome \in [Clusters -> {"none", "success", "timeout"}]
  /\ entry \subseteq Exports
  /\ stale \subseteq Exports
  /\ index \in [Exports -> Nat]
  /\ clock \in [Clusters -> Nat]
  /\ late \subseteq [cluster : Clusters, round : 0 .. MaxRounds,
                      content : SUBSET Exports, pending : BOOLEAN]

\* A worker takes its channel for closed only when the query of this very
\* round is over: goroutines left behind by earlier rounds, which outlive a
\* timeout or a failed export, do not end a later one.
ClosedByOwnQuery ==
  \A w \in waiters : w.round = round[w.cluster] => ~closed[w.cluster]

\* The comment at the blocking query.  The index is read before the export
\* is written, so once the peer has seen the new export the query can end: the
\* wake-up is not lost, even if the export arrives at once.
NoMissedWakeup ==
  \A w \in waiters : LET e == <<w.cluster, w.svc>> IN
    (/\ pc[w.cluster] = "wait" /\ w.round = round[w.cluster]
     /\ e \notin got[w.cluster] /\ e \in entry \ stale) => LastIndex(e) > w.since

\* "The load test can be stopped by ctrl-C or timeout": Run returns once its
\* context is done, whatever goroutines are still waiting for the peers.
Stops == ctxDone ~> stage \in {"failed", "finished"}

\* A cluster that cannot be peered is left out and nothing else: Run goes on to
\* the load, and returns when there is nobody left to put it on.
LeftOut ==
  /\ stage = "peer" ~> stage = "load"
  /\ stage = "load" /\ (\A c \in Clusters : pc[c] = "unpeered") ~> stage = "finished"

Contract == INSTANCE Generator WITH
  fault <- stage = "failed",
  idle <- stage \in {"load", "finished"} /\ WorkersEnded,
  status <- IF stage = "finished" THEN "nil"
            ELSE IF stage = "failed" THEN "error" ELSE "running"

\* Run is the generator that load.Run takes it for: it returns an error only of
\* its clients, and nil only when its context is done or its workers have all
\* ended.  A worker whose limiter refuses it ends like one that has nothing
\* left to do, so the contract does not tell the two apart.
KeepsContract == Contract!Spec

\* "Multiple clusters can be peered with the acceptor cluster simultaneously":
\* the worker of one cluster does not undo the exports of another, even if no
\* write fails.
ExportsAccumulate == [][late = {} => entry \subseteq entry']_entry

\* "this will block until the service has been exported to the peer": a
\* success is recorded only for a service the peer can see.
SuccessMeansVisible ==
  [][\A c \in Clusters :
       Succeeds(c) => Visible(<<c, svc[c]>>)]_vars
=============================================================================
