---------------------------- MODULE PeeringProofs ----------------------------
(***************************************************************************)
(* Proofs about Peering for any clusters, names, limits and number of      *)
(* rounds.  IInv is inductive: the goroutines left behind by earlier       *)
(* rounds are told apart from the one of this round by their round number, *)
(* and the clock of a peer only grows, so what is read before an export is *)
(* written stays below what the peer shows after it.                       *)
(***************************************************************************)
EXTENDS Peering, TLAPS

Own(w) == w.round = round[w.cluster]

\* No goroutine is ahead of its worker; none waits for the round whose index
\* has not been read yet.
RoundsBehind ==
  /\ \A w \in waiters : w.round <= round[w.cluster]
  /\ \A w \in waiters : pc[w.cluster] = "query" => ~Own(w)
  /\ \A c \in Clusters : pc[c] = "register" => round[c] < MaxRounds

\* A round starts at most one goroutine.
OnePerRound ==
  \A v, w \in waiters : v.cluster = w.cluster /\ v.round = w.round => v = w

\* It waits for the service of the round, from an index the peer has had.
WaitsForRound ==
  \A w \in waiters :
    /\ Own(w) => w.svc = svc[w.cluster]
    /\ w.since <= clock[w.cluster]

\* A service that a peer can see has changed there by now.
IndexBehind == \A e \in Exports : index[e] <= clock[e[1]]

\* From the read of the entry on: an export the worker did not find there and
\* that is there now is still to be seen by the peer, or was seen after the
\* index was read.
NotMissed ==
  \A w \in waiters : LET e == <<w.cluster, w.svc>> IN
    Own(w) /\ pc[w.cluster] \in {"set", "wait"} /\ e \notin got[w.cluster] /\ e \in entry
      => e \in stale \/ LastIndex(e) > w.since

IInv ==
  /\ TypeOK
  /\ RoundsBehind
  /\ OnePerRound
  /\ WaitsForRound
  /\ IndexBehind
  /\ ClosedByOwnQuery
  /\ NotMissed

Late ==
  [cluster : Clusters, round : 0 .. MaxRounds, content : SUBSET Exports, pending : BOOLEAN]

Waiting == [cluster : Clusters, round : 0 .. MaxRounds, svc : Names, since : Nat]

-----------------------------------------------------------------------------
\* Where a goroutine is tells the stage of Run.
LEMMA StageOf ==
  ASSUME TypeOK, NEW c \in Clusters
  PROVE  /\ pc[c] \in Loop => stage = "load"
         /\ pc[c] \in {"token", "establish"} => stage = "peer"
BY DEF TypeOK, Places, Loop

LEMMA InitInv == Init => IInv
<1> SUFFICES ASSUME Init PROVE IInv
  OBVIOUS
<1>1. (CHOOSE n \in Names : TRUE) \in Names
  BY SomeName
<1>2. TypeOK
  <2>1. stage \in DOMAIN Places /\ Places[stage] = {"off"}
    BY DEF Init, Places
  <2>2. pc \in [Clusters -> Places[stage]]
    BY <2>1 DEF Init
  <2>3. round \in [Clusters -> 0 .. MaxRounds]
    BY MaxRoundsIsNatural DEF Init
  <2>4. svc \in [Clusters -> Names] /\ since \in [Clusters -> Nat]
    BY <1>1 DEF Init
  <2>5. /\ index \in [Exports -> Nat] /\ clock \in [Clusters -> Nat]
        /\ got \in [Clusters -> SUBSET Exports]
    BY DEF Init
  <2>6. QED BY <2>1, <2>2, <2>3, <2>4, <2>5 DEF Init, TypeOK
<1>3. waiters = {} /\ \A c \in Clusters : pc[c] = "off"
  BY DEF Init
<1>4. IndexBehind
  BY DEF Init, IndexBehind, Exports
<1>5. QED
  BY <1>2, <1>3, <1>4 DEF IInv, RoundsBehind, OnePerRound, WaitsForRound,
     ClosedByOwnQuery, NotMissed

\* A goroutine moves on and nothing else happens.  The places NotMissed and
\* RoundsBehind speak of are reached in other ways.
LEMMA MoveStep ==
  ASSUME IInv, NEW c \in Clusters, NEW from, NEW to, Move(c, from, to),
         to \in Places[stage], to \notin {"query", "set", "wait"},
         to = "register" => round[c] < MaxRounds
  PROVE  IInv'
<1> USE DEF IInv, Move, Goto, worker, consul
<1>1. TypeOK'
  BY DEF TypeOK
<1>2. \A w \in waiters : w.cluster \in Clusters
  BY DEF TypeOK
<1>3. \A d \in Clusters : pc'[d] \in {"query", "set", "wait"} => pc'[d] = pc[d]
  BY DEF TypeOK
<1>4. (RoundsBehind /\ OnePerRound /\ WaitsForRound /\ IndexBehind
        /\ ClosedByOwnQuery /\ NotMissed)'
  BY <1>2, <1>3 DEF RoundsBehind, OnePerRound, WaitsForRound, IndexBehind,
     ClosedByOwnQuery, NotMissed, LastIndex, Visible, Own
<1>5. QED BY <1>1, <1>4

\* Run itself moves on; the workers' records and Consul stay as they are.
LEMMA StageStep ==
  ASSUME IInv, UNCHANGED <<ctxDone, worker, consul>>, TypeOK',
         \A c \in Clusters :
           pc'[c] \in {"register", "query", "set", "wait"} => pc'[c] = pc[c]
  PROVE  IInv'
<1> USE DEF IInv, worker, consul
<1>2. \A w \in waiters : w.cluster \in Clusters
  BY DEF TypeOK
<1>4. (RoundsBehind /\ OnePerRound /\ WaitsForRound /\ IndexBehind
        /\ ClosedByOwnQuery /\ NotMissed)'
  BY <1>2 DEF RoundsBehind, OnePerRound, WaitsForRound, IndexBehind,
     ClosedByOwnQuery, NotMissed, LastIndex, Visible, Own
<1>5. QED BY <1>4

\* A register call begins a new round, which no goroutine waits for yet.
LEMMA RegisterStep ==
  ASSUME IInv, NEW c \in Clusters, NEW n \in Names, NEW to \in {"query", "top"},
         RegisterCall(c, n, to),
         Registers(n) \/ UNCHANGED consul
  PROVE  IInv'
<1> USE DEF IInv, RegisterCall, Registers, Goto, consul
<1>1. stage = "load" /\ to \in Places[stage]
  BY StageOf DEF Loop, Places
<1>2. round' \in [Clusters -> 0 .. MaxRounds]
  BY MaxRoundsIsNatural DEF TypeOK, RoundsBehind
<1>3. pc' \in [Clusters -> Places[stage]]
  BY <1>1 DEF TypeOK
<1>4. TypeOK'
  BY <1>2, <1>3 DEF TypeOK
<1>5. \A w \in waiters : w.cluster \in Clusters /\ w.round \in Nat
  BY DEF TypeOK
<1>6. /\ round'[c] = round[c] + 1 /\ round[c] \in Nat /\ pc'[c] = to
      /\ \A d \in Clusters \ {c} : round'[d] = round[d] /\ svc'[d] = svc[d] /\ pc'[d] = pc[d]
  BY DEF TypeOK
<1>7. \A w \in waiters : w.cluster = c => w.round < round'[c]
  BY <1>5, <1>6 DEF RoundsBehind
<1>8. RoundsBehind'
  BY <1>5, <1>6, <1>7 DEF RoundsBehind, Own
<1>9. OnePerRound' /\ ClosedByOwnQuery'
  BY <1>5, <1>6, <1>7 DEF OnePerRound, ClosedByOwnQuery
<1>10. WaitsForRound' /\ IndexBehind' /\ NotMissed'
  BY <1>5, <1>6, <1>7 DEF WaitsForRound, IndexBehind, NotMissed, LastIndex, Visible, Own
<1>11. QED BY <1>4, <1>8, <1>9, <1>10

\* The goroutine of the round starts from the index the peer shows now.
LEMMA QueryStep == ASSUME IInv, NEW c \in Clusters, Query(c) PROVE IInv'
<1> USE DEF IInv, Query, Goto, consul
<1> DEFINE new == [cluster |-> c, round |-> round[c], svc |-> svc[c], since |-> since'[c]]
<1>1. stage = "load" /\ Then.query = "get"
  BY StageOf DEF Loop, Then
<1>2. LastIndex(<<c, svc[c]>>) \in Nat /\ LastIndex(<<c, svc[c]>>) <= clock[c]
  <2>1. <<c, svc[c]>> \in Exports /\ <<c, svc[c]>>[1] = c
    BY DEF TypeOK, Exports
  <2>2. index[<<c, svc[c]>>] \in Nat /\ clock[c] \in Nat
    BY <2>1 DEF TypeOK
  <2>3. QED BY <2>1, <2>2 DEF LastIndex, IndexBehind
<1>3. since'[c] = LastIndex(<<c, svc[c]>>) /\ since' \in [Clusters -> Nat]
  BY <1>2 DEF TypeOK
<1>4. pc' \in [Clusters -> Places[stage]]
  BY <1>1 DEF TypeOK, Places, Loop
<1>5. round[c] \in Nat /\ round[c] <= MaxRounds
  BY MaxRoundsIsNatural DEF TypeOK
<1>6. new \in Waiting /\ waiters' = waiters \cup {new}
  BY <1>3, <1>5 DEF TypeOK, Waiting
<1>7. TypeOK'
  BY <1>3, <1>4, <1>6 DEF TypeOK, Waiting
<1>8. \A w \in waiters : /\ w.cluster \in Clusters
                         /\ w.cluster = c => w.round # round[c]
  BY DEF TypeOK, RoundsBehind, Own
<1>9. /\ pc'[c] = "get" /\ closed'[c] = FALSE
      /\ \A d \in Clusters \ {c} : pc'[d] = pc[d] /\ closed'[d] = closed[d]
  BY <1>1 DEF TypeOK
<1>10. RoundsBehind'
  BY <1>5, <1>6, <1>8, <1>9 DEF RoundsBehind, Own
<1>11. OnePerRound'
  BY <1>6, <1>8 DEF OnePerRound
<1>12. WaitsForRound'
  <2> SUFFICES ASSUME NEW w \in waiters'
               PROVE  /\ Own(w)' => w.svc = svc[w.cluster]
                      /\ w.since <= clock[w.cluster]
    BY DEF WaitsForRound
  <2>1. CASE w \in waiters
    BY <2>1 DEF WaitsForRound, Own
  <2>2. CASE w = new
    BY <2>2, <1>2, <1>3
  <2>3. QED BY <2>1, <2>2, <1>6
<1>13. ClosedByOwnQuery'
  BY <1>6, <1>8, <1>9 DEF ClosedByOwnQuery
<1>14. NotMissed'
  BY <1>6, <1>8, <1>9 DEF NotMissed, LastIndex, Visible, Own
<1>15. IndexBehind'
  BY DEF IndexBehind
<1>16. QED BY <1>7, <1>10, <1>11, <1>12, <1>13, <1>14, <1>15

\* After the read nothing can be missing from got that is in the entry.
LEMMA GetStep == ASSUME IInv, NEW c \in Clusters, Get(c) PROVE IInv'
<1> USE DEF IInv, Get, Goto, consul
<1>1. stage = "load"
  BY StageOf DEF Loop
<1>2. pc' \in [Clusters -> Places[stage]] /\ got' \in [Clusters -> SUBSET Exports]
  BY <1>1 DEF TypeOK, Places, Loop
<1>3. TypeOK'
  BY <1>2 DEF TypeOK
<1>4. \A w \in waiters : w.cluster \in Clusters
  BY DEF TypeOK
<1>5. /\ pc'[c] = "set" /\ got'[c] = entry
      /\ \A d \in Clusters \ {c} : pc'[d] = pc[d] /\ got'[d] = got[d]
  BY DEF TypeOK
<1>6. RoundsBehind' /\ OnePerRound' /\ WaitsForRound' /\ IndexBehind' /\ ClosedByOwnQuery'
  BY <1>4, <1>5 DEF RoundsBehind, OnePerRound, WaitsForRound, IndexBehind, ClosedByOwnQuery, Own
<1>7. NotMissed'
  BY <1>4, <1>5 DEF NotMissed, LastIndex, Visible, Own
<1>8. QED BY <1>3, <1>6, <1>7

\* Whatever a write adds to the entry is stale until the peer has seen it.
LEMMA WriteStep ==
  ASSUME IInv, NEW c \in Clusters, NEW to \in {"wait", "top"}, SetDone(c, to),
         Writes(Appended(c)) \/ UNCHANGED <<entry, stale, index, clock>>,
         late' \in {late, late \cup {GivenUp(c)}}
  PROVE  IInv'
<1> USE DEF IInv, SetDone, Writes, Appended, Goto, worker
<1>1. stage = "load"
  BY StageOf DEF Loop
<1>2. pc' \in [Clusters -> Places[stage]]
  BY <1>1 DEF TypeOK, Places, Loop
<1>3. entry' \subseteq Exports /\ stale' \subseteq Exports
  BY DEF TypeOK, Exports
<1>4. TypeOK'
  <2>1. round[c] \in 0 .. MaxRounds /\ Appended(c) \in SUBSET Exports
    BY DEF TypeOK, Exports
  <2>2. GivenUp(c) \in Late
    BY <2>1 DEF GivenUp, Late
  <2>3. late \subseteq Late
    BY DEF TypeOK, Late
  <2>4. late' \subseteq Late
    BY <2>2, <2>3
  <2>5. QED BY <1>2, <1>3, <2>4 DEF TypeOK, Late
<1>5. \A w \in waiters : w.cluster \in Clusters
  BY DEF TypeOK
<1>6. pc[c] = "set" /\ pc'[c] = to /\ \A d \in Clusters \ {c} : pc'[d] = pc[d]
  BY DEF TypeOK
<1>7. RoundsBehind' /\ OnePerRound' /\ WaitsForRound' /\ IndexBehind' /\ ClosedByOwnQuery'
  BY <1>5, <1>6 DEF RoundsBehind, OnePerRound, WaitsForRound, IndexBehind, ClosedByOwnQuery, Own
<1>8. \A e \in entry' : e \in entry \/ e \in stale'
  OBVIOUS
<1>9. stale \subseteq stale'
  OBVIOUS
<1>10. NotMissed'
  BY <1>5, <1>6, <1>8, <1>9 DEF NotMissed, LastIndex, Visible, Own
<1>11. QED BY <1>4, <1>7, <1>10

\* So is what a late write adds, whenever it comes.
LEMMA LateWriteStep == ASSUME IInv, NEW v \in late, LateWrite(v) PROVE IInv'
<1> USE DEF IInv, LateWrite, Writes, worker
<1>1. late \subseteq Late /\ v \in Late
  BY DEF TypeOK, Late
<1>2. [v EXCEPT !.pending = FALSE] \in Late
  BY <1>1 DEF Late
<1>3. late' \subseteq Late
  BY <1>1, <1>2
<1>4. entry' \subseteq Exports /\ stale' \subseteq Exports
  BY <1>1 DEF TypeOK, Late
<1>5. TypeOK'
  BY <1>3, <1>4 DEF TypeOK, Late
<1>6. RoundsBehind' /\ OnePerRound' /\ WaitsForRound' /\ IndexBehind' /\ ClosedByOwnQuery'
  BY DEF RoundsBehind, OnePerRound, WaitsForRound, IndexBehind, ClosedByOwnQuery, Own
<1>7. stale \subseteq stale' /\ \A e \in entry' : e \in entry \/ e \in stale'
  OBVIOUS
<1>8. NotMissed'
  BY <1>7 DEF NotMissed, LastIndex, Visible, Own
<1>9. QED BY <1>5, <1>6, <1>8

\* A goroutine closes the channel of its own round; no other one of that
\* round is left that could still be waiting.
LEMMA WaiterStep == ASSUME IInv, NEW w \in waiters, WaiterEnds(w) PROVE IInv'
<1> USE DEF IInv, WaiterEnds, consul
<1>1. \A v \in waiters : v.cluster \in Clusters
  BY DEF TypeOK
<1>2. OwnRound(w) \in BOOLEAN
  BY DEF OwnRound
<1>3. closed' \in [Clusters -> BOOLEAN]
  BY <1>1, <1>2 DEF TypeOK
<1>4. TypeOK'
  BY <1>3 DEF TypeOK
<1>5. RoundsBehind' /\ OnePerRound' /\ WaitsForRound' /\ IndexBehind' /\ NotMissed'
  BY <1>1 DEF RoundsBehind, OnePerRound, WaitsForRound, IndexBehind, NotMissed, LastIndex,
     Visible, Own
<1>6. ClosedByOwnQuery'
  <2> SUFFICES ASSUME NEW v \in waiters', v.round = round[v.cluster]
               PROVE  ~closed'[v.cluster]
    BY DEF ClosedByOwnQuery
  <2>1. ~closed[v.cluster] /\ v.cluster \in Clusters
    BY <1>1 DEF ClosedByOwnQuery
  <2>2. CASE v.cluster = w.cluster
    <3>1. ~OwnRound(w)
      BY <2>2 DEF OnePerRound, OwnRound
    <3>2. QED BY <2>1, <2>2, <3>1 DEF TypeOK
  <2>3. CASE v.cluster # w.cluster
    BY <2>1, <2>3 DEF TypeOK
  <2>4. QED BY <2>2, <2>3
<1>7. QED BY <1>4, <1>5, <1>6

\* A round is over; its latency sample is recorded.
LEMMA RecordStep ==
  ASSUME IInv, NEW c \in Clusters, NEW o \in {"success", "timeout"}, Record(c, o)
  PROVE  IInv'
<1> USE DEF IInv, Record, Goto, consul
<1>1. stage = "load"
  BY StageOf DEF Loop
<1>2. pc' \in [Clusters -> Places[stage]]
  BY <1>1 DEF TypeOK, Places, Loop
<1>3. TypeOK'
  BY <1>2 DEF TypeOK
<1>4. \A w \in waiters : w.cluster \in Clusters
  BY DEF TypeOK
<1>5. pc'[c] = "top" /\ \A d \in Clusters \ {c} : pc'[d] = pc[d]
  BY DEF TypeOK
<1>6. (RoundsBehind /\ OnePerRound /\ WaitsForRound /\ IndexBehind
        /\ ClosedByOwnQuery /\ NotMissed)'
  BY <1>4, <1>5 DEF RoundsBehind, OnePerRound, WaitsForRound, IndexBehind,
     ClosedByOwnQuery, NotMissed, LastIndex, Visible, Own
<1>7. QED BY <1>3, <1>6

\* A peer that catches up shows a greater index than any before.
LEMMA SyncStep == ASSUME IInv, NEW e \in Exports, Sync(e) PROVE IInv'
<1> USE DEF IInv, Sync, worker
<1>1. /\ e[1] \in Clusters /\ clock[e[1]] \in Nat
      /\ \A f \in Exports : f[1] \in Clusters /\ clock[f[1]] \in Nat /\ index[f] \in Nat
  BY DEF TypeOK, Exports
<1>2. clock' \in [Clusters -> Nat] /\ clock'[e[1]] = clock[e[1]] + 1
  BY <1>1 DEF TypeOK
<1>3. /\ index' \in [Exports -> Nat] /\ index'[e] \in {clock'[e[1]], 0}
      /\ e \in entry => index'[e] = clock'[e[1]]
      /\ \A f \in Exports \ {e} : index'[f] = index[f] /\ (f \in stale <=> f \in stale')
  BY <1>1, <1>2 DEF TypeOK
<1>4. \A c \in Clusters : clock'[c] \in {clock[c], clock[c] + 1}
  BY DEF TypeOK
<1>5. TypeOK'
  BY <1>2, <1>3 DEF TypeOK
<1>6. \A w \in waiters : /\ w.cluster \in Clusters /\ w.svc \in Names /\ w.since \in Nat
                         /\ clock[w.cluster] \in Nat
                         /\ <<w.cluster, w.svc>> \in Exports
                         /\ <<w.cluster, w.svc>>[1] = w.cluster
  BY DEF TypeOK, Exports
<1>7. RoundsBehind' /\ OnePerRound' /\ ClosedByOwnQuery'
  BY DEF RoundsBehind, OnePerRound, ClosedByOwnQuery, Own
<1>8. WaitsForRound'
  <2> SUFFICES ASSUME NEW w \in waiters PROVE w.since <= clock'[w.cluster]
    BY DEF WaitsForRound, Own
  <2>1. w.since <= clock[w.cluster]
    BY DEF WaitsForRound
  <2>2. /\ clock'[w.cluster] = clock[w.cluster] \/ clock'[w.cluster] = clock[w.cluster] + 1
        /\ clock[w.cluster] \in Nat /\ w.since \in Nat
    BY <1>4, <1>6
  <2> HIDE DEF Sync
  <2>3. QED BY <2>1, <2>2
<1>9. IndexBehind'
  <2> SUFFICES ASSUME NEW f \in Exports PROVE index'[f] <= clock'[f[1]]
    BY DEF IndexBehind
  <2>1. CASE f = e
    BY <2>1, <1>1, <1>2, <1>3
  <2>2. CASE f # e
    BY <2>2, <1>1, <1>3, <1>4 DEF IndexBehind
  <2>3. QED BY <2>1, <2>2
<1>10. NotMissed'
  <2> SUFFICES ASSUME NEW w \in waiters, Own(w), pc[w.cluster] \in {"set", "wait"},
                      <<w.cluster, w.svc>> \notin got[w.cluster],
                      <<w.cluster, w.svc>> \in entry
               PROVE  \/ <<w.cluster, w.svc>> \in stale'
                      \/ LastIndex(<<w.cluster, w.svc>>)' > w.since
    BY DEF NotMissed, Own
  <2>1. CASE <<w.cluster, w.svc>> = e
    <3>1. index'[e] = clock[w.cluster] + 1 /\ w.since <= clock[w.cluster]
      BY <2>1, <1>2, <1>3, <1>6 DEF WaitsForRound
    <3>2. index'[e] > w.since /\ index'[e] > 0
      BY <3>1, <1>6
    <3>3. QED BY <2>1, <3>2 DEF LastIndex, Visible
  <2>2. CASE <<w.cluster, w.svc>> # e
    <3>1. index'[<<w.cluster, w.svc>>] = index[<<w.cluster, w.svc>>]
      BY <2>2, <1>3, <1>6
    <3>2. LastIndex(<<w.cluster, w.svc>>)' >= LastIndex(<<w.cluster, w.svc>>)
      BY <3>1, <1>1, <1>4, <1>6 DEF LastIndex, Visible
    <3>3. LastIndex(<<w.cluster, w.svc>>) \in Nat /\ LastIndex(<<w.cluster, w.svc>>)' \in Nat
      BY <3>1, <1>1, <1>4, <1>6 DEF LastIndex
    <3>4. \/ <<w.cluster, w.svc>> \in stale
          \/ LastIndex(<<w.cluster, w.svc>>) > w.since
      BY DEF NotMissed
    <3>5. QED BY <3>2, <3>3, <3>4, <2>2, <1>3, <1>6
  <2>3. QED BY <2>1, <2>2
<1>11. QED BY <1>5, <1>7, <1>8, <1>9, <1>10

-----------------------------------------------------------------------------
\* The steps of a worker that only move it on.
LEMMA MovesKeep ==
  ASSUME IInv, NEW c \in Clusters,
         \/ GenerateToken(c) \/ Establish(c) \/ PeeringFails(c)
         \/ Enter(c) \/ EnterDone(c) \/ Granted(c) \/ LimiterExits(c)
         \/ QueryFails(c) \/ GetFails(c) \/ WaitCancelled(c)
  PROVE  IInv'
<1>1. TypeOK
  BY DEF IInv
<1>2. ASSUME NEW from \in Loop, NEW to \in {"top", "limit", "done"}, Move(c, from, to)
      PROVE  IInv'
  <2>1. stage = "load"
    BY <1>1, <1>2, StageOf DEF Move
  <2>2. to \in Places[stage]
    BY <2>1 DEF Places, Loop
  <2>3. QED BY <1>2, <2>2, MoveStep
<1>3. ASSUME NEW from \in {"token", "establish"},
             NEW to \in {"establish", "peered", "unpeered"}, Move(c, from, to)
      PROVE  IInv'
  <2>1. stage = "peer"
    BY <1>1, <1>3, StageOf DEF Move
  <2>2. to \in Places[stage]
    BY <2>1 DEF Places
  <2>3. QED BY <1>3, <2>2, MoveStep
<1>4. CASE GenerateToken(c) \/ Establish(c) \/ PeeringFails(c)
  BY <1>4, <1>3 DEF GenerateToken, Establish, PeeringFails
<1>5. CASE Granted(c)
  <2>1. stage = "load"
    BY <1>1, <1>5, StageOf DEF Granted, Move, Loop
  <2>2. "register" \in Places[stage]
    BY <2>1 DEF Places, Loop
  <2>3. QED BY <1>5, <2>2, MoveStep DEF Granted
<1>6. CASE Enter(c) \/ EnterDone(c) \/ LimiterExits(c)
  BY <1>6, <1>2 DEF Enter, EnterDone, LimiterExits, Loop
<1>7. CASE QueryFails(c) \/ GetFails(c) \/ WaitCancelled(c)
  BY <1>7, <1>2 DEF QueryFails, GetFails, WaitCancelled, Loop
<1>8. QED BY <1>4, <1>5, <1>6, <1>7

\* The steps of Run and of its context.
LEMMA StagesKeep ==
  ASSUME IInv, ClientsAnswer \/ ClientFails \/ StartLoad \/ Finish \/ ContextDone
  PROVE  IInv'
<1> USE DEF IInv, Stage
<1>1. CASE ClientsAnswer
  <2>1. TypeOK' /\ \A c \in Clusters : pc'[c] = "token"
    BY <1>1 DEF ClientsAnswer, TypeOK, Places, worker, consul
  <2>2. QED BY <1>1, <2>1, StageStep DEF ClientsAnswer
<1>2. CASE ClientFails
  <2>1. TypeOK'
    BY <1>2 DEF ClientFails, TypeOK, Places, worker, consul
  <2>2. QED BY <1>2, <2>1, StageStep DEF ClientFails
<1>3. CASE StartLoad
  <2>1. /\ \A c \in Clusters : pc'[c] \in {"top", "unpeered"}
        /\ pc' \in [Clusters -> {"top", "unpeered"}]
    BY <1>3 DEF StartLoad, PeeringOver
  <2>2. TypeOK'
    BY <1>3, <2>1 DEF StartLoad, TypeOK, Places, Loop, worker, consul
  <2>3. QED BY <1>3, <2>1, <2>2, StageStep DEF StartLoad
<1>4. CASE Finish
  <2>1. TypeOK'
    BY <1>4 DEF Finish, WorkersDone, WorkersEnded, TypeOK, Places, worker, consul
  <2>2. QED BY <1>4, <2>1, StageStep DEF Finish
<1>5. CASE ContextDone
  BY <1>5 DEF ContextDone, TypeOK, RoundsBehind, OnePerRound, WaitsForRound,
     IndexBehind, ClosedByOwnQuery, NotMissed, LastIndex, Visible, Own, worker, consul
<1>6. QED BY <1>1, <1>2, <1>3, <1>4, <1>5

LEMMA NextInv == IInv /\ [Next]_vars => IInv'
<1> SUFFICES ASSUME IInv, [Next]_vars PROVE IInv'
  OBVIOUS
<1>1. CASE ClientsAnswer \/ ClientFails \/ StartLoad \/ Finish \/ ContextDone
  BY <1>1, StagesKeep
<1>2. ASSUME NEW c \in Clusters, Local(c) PROVE IInv'
  <2>1. CASE Succeeds(c) \/ TimesOut(c)
    BY <2>1, RecordStep DEF Succeeds, TimesOut
  <2>2. CASE ~(Succeeds(c) \/ TimesOut(c))
    BY <1>2, <2>2, MovesKeep DEF Local
  <2>3. QED BY <2>1, <2>2
<1>3. ASSUME NEW c \in Clusters, Answer(c) PROVE IInv'
  <2>1. CASE Register(c) \/ RegisterFails(c)
    BY <2>1, RegisterStep DEF Register, RegisterFails, Then
  <2>2. CASE Query(c)
    BY <2>2, QueryStep
  <2>3. CASE Get(c)
    BY <2>3, GetStep
  <2>4. CASE Set(c) \/ SetFails(c)
    BY <2>4, WriteStep DEF Set, SetFails, Then
  <2>5. CASE GenerateToken(c) \/ Establish(c) \/ PeeringFails(c) \/ QueryFails(c) \/ GetFails(c)
    BY <2>5, MovesKeep
  <2>6. QED BY <1>3, <2>1, <2>2, <2>3, <2>4, <2>5 DEF Answer
<1>4. ASSUME NEW w \in waiters, WaiterWakes(w) \/ WaiterGivesUp(w) PROVE IInv'
  BY <1>4, WaiterStep DEF WaiterWakes, WaiterGivesUp
<1>5. ASSUME NEW e \in Exports, Sync(e) PROVE IInv'
  BY <1>5, SyncStep
<1>6. ASSUME NEW v \in late, LateWrite(v) PROVE IInv'
  BY <1>6, LateWriteStep
<1>7. CASE UNCHANGED vars
  BY <1>7 DEF vars, worker, consul, IInv, TypeOK, RoundsBehind, OnePerRound,
     WaitsForRound, IndexBehind, ClosedByOwnQuery, NotMissed, LastIndex, Visible, Own
<1>8. QED BY <1>1, <1>2, <1>3, <1>4, <1>5, <1>6, <1>7 DEF Next

LEMMA Invariance == Spec => []IInv
BY InitInv, NextInv, PTL DEF Spec

-----------------------------------------------------------------------------
\* Types, and that workers run only after all peerings and before Run returns.
THEOREM TypeCorrect == Spec => []TypeOK
<1>1. IInv => TypeOK
  BY DEF IInv
<1>2. QED BY <1>1, Invariance, PTL

\* A goroutine left behind by an earlier round never ends a later one.
THEOREM ChannelsApart == Spec => []ClosedByOwnQuery
<1>1. IInv => ClosedByOwnQuery
  BY DEF IInv
<1>2. QED BY <1>1, Invariance, PTL

\* However fast the peer is, an export written in a round wakes the goroutine
\* of that round; this holds for any number of clusters.
THEOREM WakeUpKept == Spec => []NoMissedWakeup
<1>1. IInv => NoMissedWakeup
  BY DEF IInv, NotMissed, NoMissedWakeup, Own
<1>2. QED BY <1>1, Invariance, PTL

-----------------------------------------------------------------------------
(* Run as the generator that load.Run starts.                              *)

\* A goroutine moves only while Run waits for it, and not once it has ended.
LEMMA MovesWhileRunning ==
  ASSUME TypeOK, NEW c \in Clusters, Local(c) \/ Answer(c)
  PROVE  /\ stage \in {"peer", "load"} /\ ~WorkersEnded
         /\ stage' = stage /\ ctxDone' = ctxDone
<1>1. /\ pc[c] \in Loop \cup {"token", "establish"}
      /\ stage' = stage /\ ctxDone' = ctxDone
  BY DEF Local, Enter, EnterDone, Granted, LimiterExits, Succeeds, TimesOut,
     WaitCancelled, Record, Move, Answer, GenerateToken, Establish, PeeringFails,
     Register, RegisterFails, RegisterCall, Query, QueryFails, Get, GetFails,
     Set, SetFails, SetDone, Loop
<1>2. QED BY <1>1, StageOf DEF WorkersEnded, Loop

LEMMA StepMaps == IInv /\ [Next]_vars => [Contract!Next]_(Contract!vars)
<1> SUFFICES ASSUME TypeOK, [Next]_vars PROVE [Contract!Next]_(Contract!vars)
  BY DEF IInv
<1> USE DEF Contract!Next, Contract!vars
<1>1. CASE UNCHANGED <<ctxDone, stage, pc>>
  BY <1>1 DEF WorkersEnded
<1>2. CASE ClientsAnswer
  BY <1>2 DEF ClientsAnswer, Stage
<1>3. CASE ClientFails
  BY <1>3 DEF ClientFails, Stage, WorkersEnded, Contract!Fail
<1>4. CASE StartLoad
  <2>1. Contract!Work
    BY <1>4 DEF StartLoad, Stage, Contract!Work
  <2>2. QED BY <2>1
<1>5. CASE Finish
  BY <1>5 DEF Finish, WorkersDone, WorkersEnded, Stage, Contract!ReturnNil
<1>6. CASE ContextDone
  BY <1>6 DEF ContextDone, WorkersEnded, Contract!ContextDone
<1>7. ASSUME NEW c \in Clusters, Local(c) \/ Answer(c) PROVE Contract!Work
  BY <1>7, MovesWhileRunning DEF Contract!Work
<1>8. QED
  BY <1>1, <1>2, <1>3, <1>4, <1>5, <1>6, <1>7 DEF Next, vars, WaiterWakes,
     WaiterGivesUp, WaiterEnds, Sync, LateWrite

\* Run implements the contract of a generator for any number of clusters: nil
\* comes only with the context or with the end of every worker, an error only
\* of its clients, and no goroutine of a worker outlives it.
THEOREM PeeringKeepsContract == Spec => Contract!SafeSpec
<1>1. Init => Contract!Init
  BY DEF Init, Contract!Init, WorkersEnded
<1>2. QED BY <1>1, StepMaps, Invariance, PTL DEF Spec, Contract!SafeSpec

-----------------------------------------------------------------------------
(* Workers that do not overlap in exportService.  A single one never does; *)
(* with several this is what a lock would give.                            *)

OneAtATime == \A c, d \in Clusters : pc[c] = "set" /\ pc[d] = "set" => c = d

\* A write that was left behind is never forgotten.
LEMMA LateStays ==
  ASSUME [Next]_vars
  PROVE  late' = {} => late = {}
<1>1. ASSUME NEW w \in late, LateWrite(w) PROVE late' # {}
  BY <1>1 DEF LateWrite
<1>2. \A w \in late : LateWrite(w) => late' # {}
  BY <1>1
<1>3. ASSUME NEW c \in Clusters, Local(c) \/ Answer(c) PROVE late \subseteq late'
  BY <1>3 DEF Local, Enter, EnterDone, Granted, LimiterExits, Succeeds, TimesOut,
     WaitCancelled, Record, Move, Answer, GenerateToken, Establish, PeeringFails,
     Register, RegisterFails, RegisterCall, Registers, Query, QueryFails, Get,
     GetFails, Set, SetFails, consul
<1>4. QED
  BY <1>2, <1>3 DEF Next, vars, consul, ClientsAnswer, ClientFails, StartLoad, Finish,
     Stage, ContextDone, WaiterWakes, WaiterGivesUp, WaiterEnds, Sync

\* Nobody writes the entry between a worker's read and its write, unless a
\* write was left behind before.
GotCurrent ==
  late = {} => \A c \in Clusters : pc[c] = "set" => got[c] = entry

LEMMA GotCurrentInv ==
  ASSUME OneAtATime, IInv, GotCurrent, [Next]_vars
  PROVE  GotCurrent'
<1> SUFFICES ASSUME late = {}, late' = {}, NEW d \in Clusters, pc'[d] = "set"
             PROVE  got'[d] = entry'
  BY LateStays DEF GotCurrent
<1> USE DEF GotCurrent, Goto, worker, consul
<1>1. TypeOK
  BY DEF IInv
<1>2. CASE pc' = pc /\ got' = got /\ entry' = entry
  BY <1>2
<1>3. CASE ClientsAnswer \/ ClientFails \/ StartLoad \/ Finish
  <2>1. \A c \in Clusters : pc'[c] = pc[c] \/ pc'[c] \in {"token", "top"}
    BY <1>3, <1>1 DEF ClientsAnswer, ClientFails, StartLoad, Finish
  <2>2. QED BY <1>3, <2>1 DEF ClientsAnswer, ClientFails, StartLoad, Finish, Stage
<1>4. ASSUME NEW c \in Clusters, Local(c) PROVE got'[d] = entry'
  <2>1. pc'[c] # "set" /\ \A k \in Clusters \ {c} : pc'[k] = pc[k]
    BY <1>4, <1>1 DEF Local, Enter, EnterDone, Granted, LimiterExits, Succeeds,
       TimesOut, WaitCancelled, Record, Move, TypeOK
  <2>2. got' = got /\ entry' = entry
    BY <1>4 DEF Local, Enter, EnterDone, Granted, LimiterExits, Succeeds,
       TimesOut, WaitCancelled, Record, Move
  <2>3. QED BY <2>1, <2>2
<1>5. ASSUME NEW c \in Clusters, Answer(c) PROVE got'[d] = entry'
  <2>1. CASE Get(c)
    BY <2>1, <1>1 DEF Get, TypeOK
  <2>2. CASE Register(c) \/ RegisterFails(c) \/ Query(c)
    BY <2>2, <1>1 DEF Register, RegisterFails, RegisterCall, Registers, Query, Then, TypeOK
  <2>3. CASE Set(c) \/ SetFails(c)
    <3>1. pc[c] = "set" /\ pc'[c] # "set" /\ (d # c => pc[d] = "set")
      BY <2>3, <1>1 DEF Set, SetFails, SetDone, Then, TypeOK
    <3>2. QED BY <3>1 DEF OneAtATime
  <2>4. CASE GenerateToken(c) \/ Establish(c) \/ PeeringFails(c) \/ QueryFails(c) \/ GetFails(c)
    BY <2>4, <1>1 DEF GenerateToken, Establish, PeeringFails, QueryFails,
       GetFails, Move, TypeOK
  <2>5. QED BY <1>5, <2>1, <2>2, <2>3, <2>4 DEF Answer
<1>6. ASSUME NEW w \in late, LateWrite(w) PROVE FALSE
  BY <1>6
<1>7. QED
  BY <1>2, <1>3, <1>4, <1>5, <1>6 DEF Next, vars, ContextDone, WaiterWakes,
     WaiterGivesUp, WaiterEnds, Sync

\* What a step can do to Consul as long as no write is left behind.
LEMMA ConsulSteps ==
  ASSUME GotCurrent, [Next]_vars, late = {}
  PROVE  \/ UNCHANGED <<entry, stale, index, clock>>
         \/ \E n \in Names : Registers(n)
         \/ \E c \in Clusters : Writes(entry \cup {<<c, svc[c]>>})
         \/ \E e \in Exports : Sync(e)
<1> USE DEF worker, consul
<1>1. ASSUME NEW c \in Clusters, Set(c) \/ SetFails(c),
             ~UNCHANGED <<entry, stale, index, clock>>
      PROVE  Writes(entry \cup {<<c, svc[c]>>})
  BY <1>1 DEF Set, SetFails, SetDone, Writes, Appended, GotCurrent
<1>2. ASSUME NEW c \in Clusters, Register(c) \/ RegisterFails(c),
             ~UNCHANGED <<entry, stale, index, clock>>
      PROVE  \E n \in Names : Registers(n)
  BY <1>2 DEF Register, RegisterFails
<1>3. ASSUME NEW c \in Clusters, Local(c) \/ Answer(c),
             ~(Set(c) \/ SetFails(c) \/ Register(c) \/ RegisterFails(c))
      PROVE  UNCHANGED consul
  BY <1>3 DEF Local, Enter, EnterDone, Granted, LimiterExits, Succeeds, TimesOut,
     WaitCancelled, Record, Move, Answer, GenerateToken, Establish, PeeringFails,
     Query, QueryFails, Get, GetFails
<1>4. CASE ClientsAnswer \/ ClientFails \/ StartLoad \/ Finish \/ ContextDone
  BY <1>4 DEF ClientsAnswer, ClientFails, StartLoad, Finish, ContextDone, Stage
<1>5. QED
  BY <1>1, <1>2, <1>3, <1>4 DEF Next, vars, WaiterWakes, WaiterGivesUp, WaiterEnds

LEMMA EntryGrows ==
  ASSUME GotCurrent, [Next]_vars, late = {}
  PROVE  entry' = entry \/ \E c \in Clusters : entry' = entry \cup {<<c, svc[c]>>}
BY ConsulSteps DEF Registers, Writes, Sync

\* No export is on its way out.
NothingLeaves == late = {} => stale \subseteq entry

LEMMA NothingLeavesInv ==
  ASSUME IInv, GotCurrent, NothingLeaves, [Next]_vars
  PROVE  NothingLeaves'
<1> SUFFICES ASSUME late = {} PROVE stale' \subseteq entry'
  BY LateStays DEF NothingLeaves
<1> USE DEF NothingLeaves
<1>1. ASSUME NEW n \in Names, Registers(n) PROVE stale' \subseteq entry'
  BY <1>1 DEF Registers
<1>2. ASSUME NEW c \in Clusters, Writes(entry \cup {<<c, svc[c]>>})
      PROVE  stale' \subseteq entry'
  BY <1>2 DEF Writes
<1>3. ASSUME NEW d \in Exports, Sync(d) PROVE stale' \subseteq entry'
  BY <1>3 DEF Sync
<1>4. QED BY <1>1, <1>2, <1>3, ConsulSteps

Serial == IInv /\ GotCurrent /\ NothingLeaves

LEMMA SerialInvariant == Spec /\ []OneAtATime => []Serial
<1>1. Init => GotCurrent /\ NothingLeaves
  BY DEF Init, GotCurrent, NothingLeaves
<1>2. IInv /\ OneAtATime /\ GotCurrent /\ NothingLeaves /\ [Next]_vars => (GotCurrent /\ NothingLeaves)'
  BY GotCurrentInv, NothingLeavesInv
<1>3. QED BY <1>1, <1>2, Invariance, PTL DEF Spec, Serial

-----------------------------------------------------------------------------
\* The lost exports are due to overlapping workers and to late writes only:
\* when neither occurs no cluster undoes what another one has exported.
THEOREM SerialAccumulates == Spec /\ []OneAtATime => ExportsAccumulate
<1>1. Serial /\ [Next]_vars => [late = {} => entry \subseteq entry']_entry
  BY EntryGrows DEF Serial
<1>2. QED BY <1>1, SerialInvariant, PTL DEF Spec, ExportsAccumulate

-----------------------------------------------------------------------------
(* What a recorded success is worth.                                       *)

\* A blocking query ends only once the peer can see the service: not by an
\* error, by its wait time or by another change at the peer.
EndsWhenVisible == \A w \in waiters \ waiters' : Visible(<<w.cluster, w.svc>>)

\* The channel of the round is closed for a service the peer can see.
ClosedShows ==
  late = {} => \A c \in Clusters :
    closed[c] /\ pc[c] \in {"get", "set", "wait"} => Visible(<<c, svc[c]>>)

LEMMA VisibleGrows ==
  ASSUME Serial, [Next]_vars, late = {}, NEW e \in Exports, Visible(e)
  PROVE  Visible(e)'
<1> USE DEF Visible
<1>1. TypeOK /\ stale \subseteq entry
  BY DEF Serial, IInv, NothingLeaves
<1>2. ASSUME NEW d \in Exports, Sync(d) PROVE index'[e] > 0
  <2>1. d \in entry /\ clock[d[1]] \in Nat /\ d[1] \in Clusters
    BY <1>1, <1>2 DEF Sync, TypeOK, Exports
  <2>2. index'[e] = IF e = d THEN clock[d[1]] + 1 ELSE index[e]
    BY <1>1, <1>2, <2>1 DEF Sync, TypeOK
  <2>3. QED BY <2>1, <2>2
<1>3. QED BY <1>2, ConsulSteps DEF Serial, Registers, Writes

LEMMA ClosedShowsInv ==
  ASSUME Serial, ClosedShows, EndsWhenVisible, [Next]_vars
  PROVE  ClosedShows'
<1> SUFFICES ASSUME late = {}, NEW d \in Clusters, closed'[d], pc'[d] \in {"get", "set", "wait"}
             PROVE  (index[<<d, svc[d]>>] > 0)'
  BY LateStays DEF ClosedShows, Visible
<1> USE DEF Goto, worker, consul, Visible
<1>1. TypeOK /\ <<d, svc[d]>> \in Exports
  BY DEF Serial, IInv, TypeOK, Exports
<1>2. ASSUME closed[d], pc[d] \in {"get", "set", "wait"}, svc'[d] = svc[d]
      PROVE  (index[<<d, svc[d]>>] > 0)'
  BY <1>1, <1>2, VisibleGrows DEF ClosedShows
<1>3. CASE closed' = closed /\ pc' = pc /\ svc' = svc
  BY <1>2, <1>3
<1>4. CASE ClientsAnswer \/ ClientFails \/ StartLoad \/ Finish
  <2>1. pc'[d] = pc[d] /\ closed' = closed /\ svc' = svc
    BY <1>4, <1>1 DEF ClientsAnswer, ClientFails, StartLoad, Finish, Stage
  <2>2. QED BY <2>1, <1>2
<1>5. ASSUME NEW c \in Clusters, Local(c) \/ Answer(c) PROVE (index[<<d, svc[d]>>] > 0)'
  <2>1. CASE Query(c)
    <3>1. c # d /\ closed'[d] = closed[d] /\ pc'[d] = pc[d] /\ svc' = svc
      BY <2>1, <1>1 DEF Query, TypeOK
    <3>2. QED BY <3>1, <1>2
  <2>2. CASE Get(c) \/ Set(c) \/ SetFails(c)
    <3>1. pc[d] \in {"get", "set", "wait"} /\ closed' = closed /\ svc' = svc
      BY <2>2, <1>1 DEF Get, Set, SetFails, SetDone, Then, TypeOK
    <3>2. QED BY <3>1, <1>2
  <2>3. CASE Register(c) \/ RegisterFails(c)
    <3>1. c # d /\ closed' = closed /\ pc'[d] = pc[d] /\ svc'[d] = svc[d]
      BY <2>3, <1>1 DEF Register, RegisterFails, RegisterCall, Then, TypeOK
    <3>2. QED BY <3>1, <1>2
  <2>4. CASE ~(Query(c) \/ Get(c) \/ Set(c) \/ SetFails(c) \/ Register(c) \/ RegisterFails(c))
    <3>1. c # d /\ closed' = closed /\ pc'[d] = pc[d] /\ svc' = svc
      BY <1>5, <2>4, <1>1 DEF Local, Enter, EnterDone, Granted, LimiterExits, Succeeds,
         TimesOut, WaitCancelled, Record, Answer, GenerateToken, Establish, PeeringFails,
         QueryFails, GetFails, Move, TypeOK
    <3>2. QED BY <3>1, <1>2
  <2>5. QED BY <2>1, <2>2, <2>3, <2>4
<1>6. ASSUME NEW w \in waiters, WaiterEnds(w) PROVE (index[<<d, svc[d]>>] > 0)'
  <2>1. pc' = pc /\ svc' = svc /\ index' = index /\ w \notin waiters'
    BY <1>6 DEF WaiterEnds
  <2>2. CASE closed[d]
    BY <2>1, <2>2, <1>2
  <2>3. CASE ~closed[d]
    <3>1. w.cluster = d /\ Own(w)
      BY <1>6, <2>3, <1>1 DEF WaiterEnds, OwnRound, Own, TypeOK
    <3>2. w.svc = svc[d]
      BY <3>1 DEF Serial, IInv, WaitsForRound
    <3>3. Visible(<<d, svc[d]>>)
      BY <2>1, <3>1, <3>2 DEF EndsWhenVisible
    <3>4. QED BY <2>1, <3>3
  <2>4. QED BY <2>2, <2>3
<1>7. QED
  BY <1>3, <1>4, <1>5, <1>6 DEF Next, vars, ContextDone, WaiterWakes, WaiterGivesUp,
     Sync, LateWrite

LEMMA SuccessShows ==
  ASSUME ClosedShows, late = {}
  PROVE  [\A c \in Clusters : Succeeds(c) => Visible(<<c, svc[c]>>)]_vars
BY DEF ClosedShows, Succeeds, Record

\* A success is recorded although the peer cannot see the service only when a
\* query ended too early, or an export was lost to another worker or to a
\* write left behind: without these the channel of a round, closed once, still
\* tells the truth when the select gets to read it.
THEOREM SuccessIsVisible ==
  Spec /\ []OneAtATime /\ [](late = {}) /\ [][EndsWhenVisible]_vars => SuccessMeansVisible
<1>1. Init => ClosedShows
  BY DEF Init, ClosedShows
<1>2. Serial /\ ClosedShows /\ [Next]_vars /\ [EndsWhenVisible]_vars => ClosedShows'
  <2>1. ASSUME ClosedShows, UNCHANGED vars PROVE ClosedShows'
    BY <2>1 DEF ClosedShows, Visible, vars, worker, consul
  <2>2. QED BY <2>1, ClosedShowsInv
<1>3. ClosedShows /\ late = {} => [\A c \in Clusters : Succeeds(c) => Visible(<<c, svc[c]>>)]_vars
  BY SuccessShows
<1>4. QED BY <1>1, <1>2, <1>3, SerialInvariant, PTL DEF Spec, SuccessMeansVisible

-----------------------------------------------------------------------------
(* Clusters that could not be peered.                                      *)

\* An export is in the entry, in somebody's copy of it, or in a write that was
\* left behind.
Known(e) ==
  e \in entry \/ (\E d \in Clusters : e \in got[d]) \/ (\E w \in late : e \in w.content)

\* It comes from a round of the worker of its cluster, which then is at its
\* loop for good.
RoundsFirst ==
  \A c \in Clusters :
    /\ \A n \in Names : Known(<<c, n>>) => round[c] > 0
    /\ pc[c] \in {"query", "get", "set"} => round[c] > 0
    /\ round[c] > 0 => pc[c] \in Loop \cup {"done"}

LEMMA KnownGrows ==
  ASSUME IInv, [Next]_vars, NEW e, Known(e)'
  PROVE  Known(e) \/ \E c \in Clusters : pc[c] = "set" /\ e = <<c, svc[c]>>
<1> USE DEF Known, worker, consul
<1>1. CASE UNCHANGED <<entry, got, late>>
  BY <1>1
<1>2. ASSUME NEW c \in Clusters, Get(c) PROVE Known(e)
  <2>1. entry' = entry /\ late' = late /\ \A d \in Clusters : got'[d] \in {got[d], entry}
    BY <1>2 DEF Get, IInv, TypeOK
  <2>2. QED BY <2>1
<1>3. ASSUME NEW c \in Clusters, Set(c) \/ SetFails(c)
      PROVE  Known(e) \/ (pc[c] = "set" /\ e = <<c, svc[c]>>)
  <2>1. /\ pc[c] = "set" /\ got' = got
        /\ entry' = entry \/ entry' = Appended(c)
        /\ late' = late \/ late' = late \cup {GivenUp(c)}
    BY <1>3 DEF Set, SetFails, SetDone, Writes
  <2>2. GivenUp(c).content = Appended(c)
    BY DEF GivenUp
  <2>3. QED BY <2>1, <2>2 DEF Appended
<1>4. ASSUME NEW w \in late, LateWrite(w) PROVE Known(e)
  <2>1. /\ entry' = w.content /\ got' = got
        /\ late' = (late \ {w}) \cup {[w EXCEPT !.pending = FALSE]}
    BY <1>4 DEF LateWrite, Writes
  <2>2. [w EXCEPT !.pending = FALSE].content = w.content
    BY DEF IInv, TypeOK
  <2>3. QED BY <2>1, <2>2
<1>5. ASSUME NEW c \in Clusters, Local(c) \/ Answer(c), ~(Get(c) \/ Set(c) \/ SetFails(c))
      PROVE  UNCHANGED <<entry, got, late>>
  BY <1>5 DEF Local, Enter, EnterDone, Granted, LimiterExits, Succeeds, TimesOut,
     WaitCancelled, Record, Move, Answer, GenerateToken, Establish, PeeringFails,
     Register, RegisterFails, RegisterCall, Registers, Query, QueryFails, GetFails
<1>6. QED
  BY <1>1, <1>2, <1>3, <1>4, <1>5 DEF Next, vars, ClientsAnswer, ClientFails, StartLoad,
     Finish, Stage, ContextDone, WaiterWakes, WaiterGivesUp, WaiterEnds, Sync

LEMMA RoundsFirstInv == IInv /\ RoundsFirst /\ [Next]_vars => RoundsFirst'
<1> SUFFICES ASSUME IInv, RoundsFirst, [Next]_vars, NEW c \in Clusters
             PROVE  /\ \A n \in Names : Known(<<c, n>>)' => round'[c] > 0
                    /\ pc'[c] \in {"query", "get", "set"} => round'[c] > 0
                    /\ round'[c] > 0 => pc'[c] \in Loop \cup {"done"}
  BY DEF RoundsFirst
<1> DEFINE Good == /\ round'[c] \in {round[c], round[c] + 1}
                   /\ pc'[c] \in {"query", "get", "set"} => round'[c] > 0
                   /\ round'[c] > 0 => pc'[c] \in Loop \cup {"done"}
<1> USE DEF Goto, worker, consul
<1>0. /\ round[c] \in Nat /\ round \in [Clusters -> 0 .. MaxRounds]
      /\ pc \in [Clusters -> Places[stage]]
  BY MaxRoundsIsNatural DEF IInv, TypeOK
<1>1. ASSUME pc' = pc, round' = round PROVE Good
  BY <1>0, <1>1 DEF RoundsFirst
<1>2. ASSUME ClientsAnswer \/ ClientFails \/ StartLoad \/ Finish PROVE Good
  <2>1. /\ round' = round
        /\ pc'[c] = pc[c] \/ pc'[c] = "top" \/ (pc'[c] = "token" /\ stage = "test")
    BY <1>0, <1>2 DEF ClientsAnswer, ClientFails, StartLoad, Finish, Stage
  <2>2. stage = "test" => round[c] = 0
    BY <1>0 DEF RoundsFirst, Places, Loop
  <2>3. QED BY <2>1, <2>2 DEF RoundsFirst, Loop
<1>3. ASSUME NEW d \in Clusters, Local(d) PROVE Good
  <2>1. /\ round' = round
        /\ pc'[c] = pc[c]
           \/ (pc[c] \in Loop /\ pc'[c] \in {"top", "limit", "register", "done"})
    BY <1>0, <1>3 DEF Local, Enter, EnterDone, Granted, LimiterExits, Succeeds, TimesOut,
       WaitCancelled, Record, Move, Loop
  <2>2. QED BY <2>1 DEF RoundsFirst, Loop
<1>4. ASSUME NEW d \in Clusters, Answer(d) PROVE Good
  <2>1. CASE Register(d) \/ RegisterFails(d)
    <3>1. \/ round'[c] = round[c] /\ pc'[c] = pc[c]
          \/ round'[c] = round[c] + 1 /\ pc'[c] \in {"query", "top"}
      BY <1>0, <2>1 DEF Register, RegisterFails, RegisterCall, Then
    <3>2. QED BY <1>0, <3>1 DEF RoundsFirst, Loop
  <2>2. CASE GenerateToken(d) \/ Establish(d) \/ PeeringFails(d)
    <3>1. /\ round' = round
          /\ pc'[c] = pc[c]
             \/ /\ pc[c] \in {"token", "establish"}
                /\ pc'[c] \in {"establish", "peered", "unpeered"}
      BY <1>0, <2>2 DEF GenerateToken, Establish, PeeringFails, Move
    <3>2. QED BY <1>0, <3>1 DEF RoundsFirst, Loop
  <2>3. CASE Query(d) \/ QueryFails(d) \/ Get(d) \/ GetFails(d) \/ Set(d) \/ SetFails(d)
    <3>1. /\ round' = round
          /\ pc'[c] = pc[c]
             \/ /\ pc[c] \in {"query", "get", "set"}
                /\ pc'[c] \in {"get", "set", "wait", "top"}
      BY <1>0, <2>3 DEF Query, QueryFails, Get, GetFails, Set, SetFails, SetDone, Then, Move
    <3>2. QED BY <3>1 DEF RoundsFirst, Loop
  <2>4. QED BY <1>4, <2>1, <2>2, <2>3 DEF Answer
<1>5. Good
  BY <1>1, <1>2, <1>3, <1>4 DEF Next, vars, ContextDone, WaiterWakes, WaiterGivesUp,
     WaiterEnds, Sync, LateWrite
<1>6. ASSUME NEW n \in Names, Known(<<c, n>>)' PROVE round[c] > 0
  <2>1. Known(<<c, n>>) \/ pc[c] = "set"
    BY <1>6, KnownGrows
  <2>2. QED BY <2>1 DEF RoundsFirst
<1>7. QED BY <1>0, <1>5, <1>6

\* A cluster that could not be peered is left out of the load altogether: its
\* worker makes no round, and nothing is exported to it.
LeftOutGetsNothing ==
  \A c \in Clusters : pc[c] = "unpeered" =>
    round[c] = 0 /\ \A n \in Names : <<c, n>> \notin entry

\* The error of one cluster in establishPeerings costs Consul no load for it.
THEOREM LeftOutForGood == Spec => []LeftOutGetsNothing
<1>1. Init => RoundsFirst
  <2> SUFFICES ASSUME Init PROVE RoundsFirst
    OBVIOUS
  <2>1. \A c \in Clusters : pc[c] = "off" /\ round[c] = 0 /\ got[c] = {}
    BY DEF Init
  <2>2. \A c \in Clusters, n \in Names : ~Known(<<c, n>>)
    BY <2>1 DEF Init, Known
  <2>3. \A c \in Clusters : pc[c] \notin {"query", "get", "set"}
    BY <2>1
  <2>4. \A c \in Clusters : ~(round[c] > 0)
    <3>1. round \in [Clusters -> {0}]
      BY DEF Init
    <3>2. QED BY <3>1
  <2>5. QED BY <2>2, <2>3, <2>4 DEF RoundsFirst
<1>2. IInv /\ RoundsFirst => LeftOutGetsNothing
  BY DEF IInv, TypeOK, RoundsFirst, Known, Loop, LeftOutGetsNothing
<1>3. QED BY <1>1, <1>2, RoundsFirstInv, Invariance, PTL DEF Spec
=============================================================================
