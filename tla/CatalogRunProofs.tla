-------------------------- MODULE CatalogRunProofs --------------------------
(***************************************************************************)
(* Proofs about CatalogRun for any set of updaters, bursts and lengths:    *)
(* its invariants, and that every step of it is a step the contract in     *)
(* Generator allows.  That Run ends in the end is left to TLC.             *)
(***************************************************************************)
EXTENDS CatalogRun, TLAPS

\* Run has an answer only after all loops have returned.
ReturnedLast == result # "none" => running = {}

IInv == TypeOK /\ ReturnedLast /\ OnlyFaultsCancel /\ NoQuietExit

LEMMA InitInv == Init => IInv
BY DEF Init, IInv, TypeOK, ReturnedLast, OnlyFaultsCancel, NoQuietExit, Errors,
   Group!Start

\* A loop returns: quietly only when the context is done, and with the
\* context's error only then.
LEMMA LeaveStep ==
  ASSUME IInv, NEW u \in Updaters, NEW e \in Errors, Leave(u, e), pc[u] # "done",
         e \in {"nil", "ctx"} => CtxDone
  PROVE  IInv'
<1> USE DEF IInv, Leave, Goto, conf, Group!Return, Errors
<1>1. /\ u \in running
      /\ pc' \in [Updaters -> {"enter", "sleep", "exceed", "pick", "call", "done"}]
      /\ pc'[u] = "done" /\ \A v \in Updaters \ {u} : pc'[v] = pc[v]
  BY DEF TypeOK
<1>2. firstErr' \in Errors
  BY DEF TypeOK
<1>3. TypeOK'
  BY <1>1, <1>2 DEF TypeOK
<1>4. ReturnedLast'
  BY <1>1 DEF ReturnedLast
<1>5. OnlyFaultsCancel' /\ NoQuietExit'
  BY <1>1 DEF OnlyFaultsCancel, NoQuietExit, CtxDone, Group!Cancelled
<1>6. QED BY <1>3, <1>4, <1>5

\* A loop goes on.
LEMMA StayStep ==
  ASSUME IInv, NEW u \in Updaters, pc[u] # "done",
         NEW l \in {"enter", "sleep", "exceed", "pick", "call"}, Goto(u, l),
         UNCHANGED <<conf, parentDone, running, firstErr, result>>,
         crashed' \in BOOLEAN
  PROVE  IInv'
<1> USE DEF IInv, Goto, conf
<1>1. /\ pc' \in [Updaters -> {"enter", "sleep", "exceed", "pick", "call", "done"}]
      /\ pc'[u] # "done" /\ \A v \in Updaters \ {u} : pc'[v] = pc[v]
  BY DEF TypeOK
<1>2. TypeOK'
  BY <1>1 DEF TypeOK
<1>3. ReturnedLast' /\ OnlyFaultsCancel' /\ NoQuietExit'
  BY <1>1 DEF ReturnedLast, OnlyFaultsCancel, NoQuietExit
<1>4. QED BY <1>2, <1>3

LEMMA NextInv == IInv /\ [Next]_vars => IInv'
<1> SUFFICES ASSUME IInv, [Next]_vars PROVE IInv'
  OBVIOUS
<1>1. ASSUME NEW u \in Updaters, Local(u) \/ Registered(u) \/ RegisterFails(u)
      PROVE  IInv'
  <2>1. CASE NoBurst(u) \/ EnterDone(u) \/ SleepCancelled(u) \/ ParkUntilDone(u)
             \/ RegisterAbandoned(u) \/ RegisterFails(u)
    BY <2>1, LeaveStep DEF NoBurst, EnterDone, SleepCancelled, ParkUntilDone,
       RegisterAbandoned, RegisterFails, Errors
  <2>2. CASE Pick(u)
    BY <2>2, StayStep DEF Pick
  <2>3. CASE Reserve(u) \/ TokenArrives(u) \/ Registered(u)
    <3>1. crashed' \in BOOLEAN
      BY <2>3 DEF Reserve, TokenArrives, Registered, Move, IInv, TypeOK
    <3>2. QED BY <2>3, <3>1, StayStep DEF Reserve, TokenArrives, Registered, Move
  <2>4. QED BY <1>1, <2>1, <2>2, <2>3 DEF Local
<1>2. CASE Wait
  BY <1>2 DEF Wait, IInv, TypeOK, ReturnedLast, OnlyFaultsCancel, NoQuietExit,
     Group!Finished, conf
<1>3. CASE ParentDone
  BY <1>3 DEF ParentDone, IInv, TypeOK, ReturnedLast, OnlyFaultsCancel,
     NoQuietExit, conf
<1>4. CASE UNCHANGED vars
  BY <1>4 DEF vars, IInv, TypeOK, ReturnedLast, OnlyFaultsCancel, NoQuietExit
<1>5. QED BY <1>1, <1>2, <1>3, <1>4 DEF Next

LEMMA Invariance == Spec => []IInv
BY InitInv, NextInv, PTL DEF Spec

\* Types, and that exactly the loops that have not returned count as running.
THEOREM TypeCorrect == Spec => []TypeOK
<1>1. IInv => TypeOK
  BY DEF IInv
<1>2. QED BY <1>1, Invariance, PTL

\* A refused reservation is never what ends the other loops.
THEOREM FaultsCancel == Spec => []OnlyFaultsCancel
<1>1. IInv => OnlyFaultsCancel
  BY DEF IInv
<1>2. QED BY <1>1, Invariance, PTL

\* No loop gives up while the caller still wants load and nothing has failed.
THEOREM LoopsGoOn == Spec => []NoQuietExit
<1>1. IInv => NoQuietExit
  BY DEF IInv
<1>2. QED BY <1>1, Invariance, PTL

-----------------------------------------------------------------------------
(* The contract of Generator, step by step.                                *)

LEMMA InitMaps == Init => Contract!Init
BY DEF Init, Contract!Init, Group!Start

LEMMA StepMaps == IInv /\ [Next]_vars => [Contract!Next]_(Contract!vars)
<1> SUFFICES ASSUME IInv, [Next]_vars PROVE [Contract!Next]_(Contract!vars)
  OBVIOUS
<1> USE DEF Contract!vars, conf
<1>1. ASSUME UNCHANGED <<parentDone, firstErr, result>>
      PROVE  [Contract!Next]_(Contract!vars)
  BY <1>1
<1>2. ASSUME NEW u \in Updaters, NEW e \in Errors, Leave(u, e)
      PROVE  [Contract!Next]_(Contract!vars)
  <2>1. result = "none" /\ UNCHANGED <<parentDone, result>>
    BY <1>2 DEF IInv, ReturnedLast, Leave, Group!Return
  <2>2. firstErr \in {"api", "burst"} => UNCHANGED firstErr
    BY <1>2 DEF Leave, Group!Return
  <2>3. QED BY <2>1, <2>2 DEF Contract!Next, Contract!Work
<1>3. ASSUME NEW u \in Updaters, Local(u) \/ Registered(u) \/ RegisterFails(u)
      PROVE  [Contract!Next]_(Contract!vars)
  BY <1>1, <1>2, <1>3 DEF Local, NoBurst, EnterDone, Reserve, TokenArrives,
     SleepCancelled, ParkUntilDone, Pick, RegisterAbandoned, Registered,
     RegisterFails, Move, Errors
<1>4. CASE Wait
  <2>1. firstErr = "nil" => Updaters = {} \/ parentDone
    BY <1>4 DEF Wait, Group!Finished, IInv, TypeOK, NoQuietExit
  <2>2. firstErr # "nil" => firstErr \in {"api", "burst"} \/ parentDone
    BY DEF IInv, OnlyFaultsCancel
  <2>3. firstErr \in Errors
    BY DEF IInv, TypeOK
  <2>4. QED
    BY <1>4, <2>1, <2>2, <2>3 DEF Wait, Errors, Contract!Next, Contract!ReturnNil,
       Contract!ReturnError
<1>5. CASE ParentDone
  BY <1>5 DEF ParentDone, Contract!Next, Contract!ContextDone
<1>6. CASE UNCHANGED vars
  BY <1>6, <1>1 DEF vars
<1>7. QED BY <1>3, <1>4, <1>5, <1>6 DEF Next

\* What load/load.go may rely on: no failure turned into success, no end
\* without a cause.
THEOREM ContractKept == Spec => Contract!SafeSpec
BY InitMaps, StepMaps, Invariance, PTL DEF Spec, Contract!SafeSpec

-----------------------------------------------------------------------------
(* The excuse in KeepsContract, and the burst.                             *)

\* Where every list has something to pick, which positive minimums ensure
\* (SomethingToUpdate in CatalogData), no loop panics.
THEOREM FullListsNeverPanic == 0 \notin Lens => (Spec => []~crashed)
<1> SUFFICES ASSUME 0 \notin Lens PROVE Spec => []~crashed
  OBVIOUS
<1>1. Init => ~crashed
  BY DEF Init
<1>2. IInv /\ ~crashed /\ [Next]_vars => ~crashed'
  <2> SUFFICES ASSUME IInv, ~crashed, [Next]_vars PROVE ~crashed'
    OBVIOUS
  <2>1. ASSUME NEW u \in Updaters, Local(u) \/ Registered(u) \/ RegisterFails(u)
        PROVE  ~crashed'
    <3>1. len[u] # 0
      BY DEF IInv, TypeOK
    <3>2. QED
      BY <2>1, <3>1 DEF Local, NoBurst, EnterDone, Reserve, TokenArrives,
         SleepCancelled, ParkUntilDone, Pick, RegisterAbandoned, Registered,
         RegisterFails, Move, Leave
  <2>2. CASE Wait \/ ParentDone \/ UNCHANGED vars
    BY <2>2 DEF Wait, ParentDone, vars
  <2>3. QED BY <2>1, <2>2 DEF Next
<1>3. QED BY <1>1, <1>2, Invariance, PTL DEF Spec

\* With rates that leave every limiter a token nothing but a register call
\* ends the group early: an error is Consul's or the context's.
OnlyRequestsFail == firstErr \in {"nil", "api"} \/ parentDone

THEOREM BurstsNeverFail == (\A b \in Bursts : b >= 1) => (Spec => []OnlyRequestsFail)
<1> SUFFICES ASSUME \A b \in Bursts : b >= 1 PROVE Spec => []OnlyRequestsFail
  OBVIOUS
<1>1. Init => firstErr # "burst"
  BY DEF Init, Group!Start
<1>2. IInv /\ firstErr # "burst" /\ [Next]_vars => (firstErr # "burst")'
  <2> SUFFICES ASSUME IInv, firstErr # "burst", [Next]_vars PROVE firstErr' # "burst"
    OBVIOUS
  <2>1. ASSUME NEW u \in Updaters, Local(u) \/ Registered(u) \/ RegisterFails(u)
        PROVE  firstErr' # "burst"
    <3>1. ~NoBurst(u)
      <4>1. burst[u] \in Bursts
        BY DEF IInv, TypeOK
      <4>2. burst[u] \in Int /\ burst[u] >= 1
        BY <4>1, BurstsAreIntegers
      <4>3. ~(burst[u] < 1)
        BY <4>2
      <4>4. QED BY <4>3 DEF NoBurst
    <3>2. QED
      BY <2>1, <3>1 DEF Local, EnterDone, Reserve, TokenArrives,
         SleepCancelled, ParkUntilDone, Pick, RegisterAbandoned, Registered,
         RegisterFails, Move, Leave, Group!Return
  <2>2. CASE Wait \/ ParentDone \/ UNCHANGED vars
    BY <2>2 DEF Wait, ParentDone, vars
  <2>3. QED BY <2>1, <2>2 DEF Next
<1>3. IInv /\ firstErr # "burst" => OnlyRequestsFail
  BY DEF IInv, OnlyFaultsCancel, OnlyRequestsFail
<1>4. QED BY <1>1, <1>2, <1>3, Invariance, PTL DEF Spec
=============================================================================
