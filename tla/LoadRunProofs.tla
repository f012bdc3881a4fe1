----------------------------- MODULE LoadRunProofs -----------------------------
(***************************************************************************)
(* Proofs about a process, for any command lines, configuration files,     *)
(* lengths of the signal queue and numbers of signals.  A step belongs to  *)
(* the start, to load.Run or to what goes on around it; each of the three  *)
(* has its own part of the invariant.  The last part shows that load.Run   *)
(* keeps the contract of Generator itself; that it returns and the process *)
(* ends is left to TLC.                                                    *)
(***************************************************************************)
EXTENDS LoadRun, StartUpProofs

Signalled == {"int", "pipe"}

\* Generators start once all are initialised, and only a panic leaves them
\* behind.
LoadInv ==
  /\ stage \in Stages
  /\ inits \in 0 .. Len(generators)
  /\ running \subseteq Range(generators)
  /\ firstErr \in Errors /\ loadErr \in Errors /\ queries \in 0 .. 2
  /\ stage \in Early \cup {"new"} => inits = 0 /\ running = {} /\ firstErr = "nil"
  /\ stage = "run" \/ running # {} \/ firstErr # "nil" =>
       inits = Len(generators) /\ stage \in {"run", "report", "exit"}
  /\ running # {} => stage = "run" \/ (stage = "exit" /\ code = 2)

Holds(q, s) == \E i \in 1 .. Len(q) : q[i] = s

\* Only an interrupt or the deadline stops anything, and an interrupt that
\* waits has been sent.
AroundInv ==
  /\ deadline \in BOOLEAN /\ cancelled \in BOOLEAN /\ scraping \in BOOLEAN
  /\ signalCh \in Seq(Signalled) /\ Len(signalCh) <= QueueLen
  /\ sent \in Seq(Signalled) /\ Len(sent) <= MaxSignals
  /\ handler \in {"select", "stopping", "gone"}
  /\ server \in {"new", "up", "failed", "closed"}
  /\ Holds(signalCh, "int") => Holds(sent, "int")
  /\ handler = "stopping" \/ cancelled => Holds(sent, "int")
  /\ server = "closed" => deadline \/ Holds(sent, "int")

LInv == SInv /\ FlagsInv /\ LoadInv /\ AroundInv

LEMMA Begins == Init => LInv
<1> SUFFICES ASSUME Init PROVE LInv
  OBVIOUS
<1>1. SInv /\ FlagsInv
  BY StartUpBegins, FlagsBegin DEF Init
<1>2. LoadInv
  BY DEF Init, StartUpInit, LoadInv, Stages, Errors
<1>3. AroundInv
  <2>1. <<>> \in Seq(Signalled) /\ Len(<<>>) = 0 /\ ~Holds(<<>>, "int")
    BY DEF Holds
  <2>2. /\ signalCh = <<>> /\ sent = <<>> /\ handler = "select" /\ server = "new"
        /\ deadline = FALSE /\ cancelled = FALSE /\ scraping = FALSE
    BY DEF Init
  <2>3. ~cancelled /\ ~deadline /\ cancelled \in BOOLEAN /\ deadline \in BOOLEAN
        /\ scraping \in BOOLEAN
    BY <2>2
  <2>4. /\ signalCh \in Seq(Signalled) /\ Len(signalCh) <= QueueLen
        /\ sent \in Seq(Signalled) /\ Len(sent) <= MaxSignals
        /\ ~Holds(signalCh, "int") /\ ~Holds(sent, "int")
    BY <2>1, <2>2, BoundsAreNatural
  <2>5. handler = "select" /\ server = "new"
    BY <2>2
  <2>6. QED BY <2>3, <2>4, <2>5 DEF AroundInv
<1>4. QED BY <1>1, <1>2, <1>3 DEF LInv

-----------------------------------------------------------------------------
(* The start, seen from load.Run: nothing is initialised yet.              *)

LEMMA StartUpStepKeeps == LInv /\ StartUpStep => LInv'
<1> SUFFICES ASSUME LInv, StartUpStep PROVE LInv'
  OBVIOUS
<1>1. SInv' /\ FlagsInv'
  BY StartUpKeeps, FlagsKeep DEF LInv, StartUpStep
<1>2. AroundInv'
  BY DEF LInv, StartUpStep, AroundInv, Holds, around, context, signals, metrics
<1>3. /\ stage \in Early \cup {"new"} /\ stage' \in Early \cup {"new", "exit"}
      /\ inits' = 0 /\ running' = {} /\ firstErr' = "nil"
      /\ loadErr' = loadErr /\ queries' = queries
  <2>1. stage \in Early \cup {"new"} /\ stage' \in Early \cup {"new", "exit"}
    BY DEF StartUpStep, StartUpNext, ParseFlag, Parsed, ParseFails, ReadConfig,
       ReadConfigFails, APIClient, APIClientFails, NextKind, ExitWith, Early
  <2>2. UNCHANGED <<inits, running, firstErr, loadErr, queries>>
    BY DEF StartUpStep, load, group
  <2>3. QED BY <2>1, <2>2 DEF LInv, LoadInv
<1>4. Len(generators') \in Nat
  BY <1>1 DEF SInv, StartUpTypeOK
<1>5. LoadInv'
  BY <1>3, <1>4 DEF LInv, LoadInv, Early, Stages
<1>6. QED BY <1>1, <1>2, <1>5 DEF LInv

-----------------------------------------------------------------------------
(* load.Run and the end.                                                   *)

Loads ==
  \/ RunLoad \/ Initialize \/ InitializeFails \/ InitializePanics \/ StartGroup
  \/ \E g \in running, e \in Errors : Return(g, e)
  \/ KvPanics \/ CatalogPanics \/ LoadReturns \/ Ends

LEMMA LoadStepKeeps == LInv /\ Loads => LInv'
<1> SUFFICES ASSUME LInv, Loads PROVE LInv'
  OBVIOUS
<1> USE DEF LInv, Early
<1>1. UNCHANGED startUp /\ UNCHANGED around
  BY DEF Loads, RunLoad, Initialize, InitializeFails, InitializePanics, StartGroup,
     Return, KvPanics, CatalogPanics, LoadReturns, Ends, Exit, QueryAnswered, QueryFails
<1>2. AroundInv'
  BY <1>1 DEF AroundInv, Holds, around, context, signals, metrics
<1>3. generators' = generators /\ Len(generators) \in Nat
  BY <1>1 DEF startUp, made, SInv, StartUpTypeOK
<1>4. /\ code' \in 0 .. 2
      /\ stage' = "exit" \/ (stage \notin Early \cup {"exit"} /\ stage' \notin Early)
      /\ LoadInv'
  <2> USE <1>3 DEF LoadInv, Stages, Errors, ExitWith
  <2>0. code \in 0 .. 2
    BY DEF SInv, StartUpTypeOK
  <2>1. CASE RunLoad
    BY <2>0, <2>1 DEF RunLoad, load, group
  <2>2. CASE Initialize \/ InitializePanics
    BY <2>0, <2>2 DEF Initialize, InitializePanics, load, group
  <2>3. CASE InitializeFails
    BY <2>0, <2>3 DEF InitializeFails, group
  <2>4. CASE StartGroup
    BY <2>0, <2>4 DEF StartGroup, Group!Launch
  <2>5. ASSUME NEW g \in running, NEW e \in Errors, Return(g, e)
        PROVE  /\ code' \in 0 .. 2
               /\ stage' = "exit" \/ (stage \notin Early \cup {"exit"} /\ stage' \notin Early)
               /\ LoadInv'
    BY <2>0, <2>5 DEF Return, Group!Return
  <2>6. CASE KvPanics \/ CatalogPanics
    BY <2>0, <2>6 DEF KvPanics, CatalogPanics, load, group
  <2>7. CASE LoadReturns
    BY <2>0, <2>7 DEF LoadReturns, AllReturned, Group!Finished, group
  <2>8. CASE Ends
    BY <2>0, <2>8 DEF Ends, Exit, QueryAnswered, QueryFails, load, group
  <2>9. QED BY <2>1, <2>2, <2>3, <2>4, <2>5, <2>6, <2>7, <2>8 DEF Loads
<1>5. SInv' /\ FlagsInv'
  BY <1>1, <1>4, StartUpStays, FlagsStay
<1>6. QED BY <1>2, <1>4, <1>5

-----------------------------------------------------------------------------
(* Signals, the deadline and the metrics server.                           *)

Arounds ==
  \/ Deadline
  \/ \E s \in Signalled : Signal(s)
  \/ Handler
  \/ Listen \/ ScrapeStarts \/ ScrapeEnds

\* What is appended to a queue is in it, with all that was.
LEMMA Appended ==
  ASSUME NEW q \in Seq(Signalled), NEW s \in Signalled
  PROVE  /\ Append(q, s) \in Seq(Signalled) /\ Len(Append(q, s)) = Len(q) + 1
         /\ Holds(Append(q, s), "int") <=> Holds(q, "int") \/ s = "int"
<1>1. /\ Append(q, s) \in Seq(Signalled) /\ Len(Append(q, s)) = Len(q) + 1
      /\ Append(q, s)[Len(q) + 1] = s
      /\ \A i \in 1 .. Len(q) : Append(q, s)[i] = q[i]
      /\ Len(q) \in Nat
  OBVIOUS
<1>2. \A i \in 1 .. Len(q) + 1 : i \in 1 .. Len(q) \/ i = Len(q) + 1
  BY <1>1
<1>3. QED BY <1>1, <1>2 DEF Holds

LEMMA Taken ==
  ASSUME NEW q \in Seq(Signalled), q # <<>>
  PROVE  /\ Tail(q) \in Seq(Signalled) /\ Len(Tail(q)) = Len(q) - 1
         /\ Holds(Tail(q), "int") => Holds(q, "int")
         /\ Head(q) = "int" => Holds(q, "int")
<1>1. /\ Tail(q) \in Seq(Signalled) /\ Len(Tail(q)) = Len(q) - 1
      /\ \A i \in 1 .. Len(Tail(q)) : Tail(q)[i] = q[i + 1] /\ i + 1 \in 1 .. Len(q)
      /\ 1 \in 1 .. Len(q) /\ Head(q) = q[1]
  OBVIOUS
<1>2. QED BY <1>1 DEF Holds

LEMMA AroundStepKeeps == LInv /\ Arounds => LInv'
<1> SUFFICES ASSUME LInv, Arounds PROVE LInv'
  OBVIOUS
<1> USE DEF LInv, context, signals, metrics
<1>1. UNCHANGED <<startUp, stage, code, load>>
  BY DEF Arounds, Deadline, Signal, Handler, TakePipe, TakeInterrupt, Take, Cancel,
     SeeDone, Listen, ScrapeStarts, ScrapeEnds, Scrape
<1>2. code' \in 0 .. 2
  BY <1>1 DEF SInv, StartUpTypeOK
<1>3. SInv' /\ FlagsInv'
  BY <1>1, <1>2, StartUpStays, FlagsStay
<1>4. LoadInv'
  BY <1>1 DEF LoadInv, startUp, made, load, group
<1>5. AroundInv'
  <2> USE DEF AroundInv
  <2>1. CASE Deadline
    BY <2>1 DEF Deadline, Holds
  <2>2. ASSUME NEW s \in Signalled, Signal(s) PROVE AroundInv'
    <3>1. sent' = Append(sent, s) /\ Len(sent) < MaxSignals /\ Len(sent) \in Nat
          /\ Len(signalCh) \in Nat
      BY <2>2 DEF Signal
    <3>2. \/ signalCh' = signalCh
          \/ signalCh' = Append(signalCh, s) /\ Len(signalCh) < QueueLen
      BY <2>2 DEF Signal
    <3>3. UNCHANGED <<deadline, cancelled, handler, server, scraping>>
      BY <2>2 DEF Signal
    <3>4. /\ sent' \in Seq(Signalled) /\ Len(sent') <= MaxSignals
          /\ Holds(sent', "int") <=> Holds(sent, "int") \/ s = "int"
      BY <3>1, Appended, BoundsAreNatural
    <3>5. /\ signalCh' \in Seq(Signalled) /\ Len(signalCh') <= QueueLen
          /\ Holds(signalCh', "int") => Holds(signalCh, "int") \/ s = "int"
      <4>1. CASE signalCh' = signalCh
        BY <4>1
      <4>2. CASE signalCh' = Append(signalCh, s) /\ Len(signalCh) < QueueLen
        <5>1. /\ signalCh' \in Seq(Signalled) /\ Len(signalCh') = Len(signalCh) + 1
              /\ Holds(signalCh', "int") <=> Holds(signalCh, "int") \/ s = "int"
          BY <4>2, Appended
        <5>2. QED BY <3>1, <4>2, <5>1, BoundsAreNatural
      <4>3. QED BY <3>2, <4>1, <4>2
    <3>6. QED BY <3>3, <3>4, <3>5
  <2>3. ASSUME NEW s \in Signalled, Take(s)
        PROVE  /\ UNCHANGED <<deadline, cancelled, sent, scraping>>
               /\ handler = "select"
               /\ signalCh' \in Seq(Signalled) /\ Len(signalCh') <= QueueLen
               /\ Holds(signalCh', "int") => Holds(signalCh, "int")
               /\ s = "int" => Holds(sent, "int")
    <3>1. /\ signalCh # <<>> /\ signalCh' = Tail(signalCh) /\ Head(signalCh) = s
          /\ UNCHANGED <<deadline, cancelled, sent, scraping>> /\ handler = "select"
      BY <2>3 DEF Take
    <3>2. QED BY <3>1, Taken, BoundsAreNatural
  <2>4. CASE TakePipe
    <3>1. Take("pipe") /\ UNCHANGED <<handler, server>>
      BY <2>4 DEF TakePipe
    <3>2. "pipe" \in Signalled
      BY DEF Signalled
    <3>3. QED BY <2>3, <3>1, <3>2 DEF Holds
  <2>5. CASE TakeInterrupt
    <3>1. Take("int") /\ handler' = "stopping" /\ server' = "closed"
      BY <2>5 DEF TakeInterrupt
    <3>2. "int" \in Signalled
      BY DEF Signalled
    <3>3. Holds(sent, "int") /\ sent' = sent
      BY <2>3, <3>1, <3>2
    <3>4. QED BY <2>3, <3>1, <3>2, <3>3 DEF Holds
  <2>6. CASE Cancel
    BY <2>6 DEF Cancel, Holds
  <2>7. CASE SeeDone
    BY <2>7 DEF SeeDone, Holds, CtxDone
  <2>8. CASE Listen \/ ScrapeStarts \/ ScrapeEnds
    <3>1. /\ UNCHANGED <<deadline, cancelled, signalCh, sent, handler>>
          /\ server' = server \/ server' \in {"up", "failed"}
          /\ scraping' = scraping \/ scraping' = TRUE \/ scraping' = FALSE
      BY <2>8 DEF Listen, ScrapeStarts, ScrapeEnds, Scrape
    <3>2. scraping' \in BOOLEAN
      BY <3>1
    <3>3. QED BY <3>1, <3>2 DEF Holds
  <2> HIDE DEF AroundInv
  <2>9. QED BY <2>1, <2>2, <2>4, <2>5, <2>6, <2>7, <2>8 DEF Arounds, Handler
<1>6. QED BY <1>3, <1>4, <1>5

LEMMA StutterKeeps == LInv /\ UNCHANGED vars => LInv'
<1> SUFFICES ASSUME LInv, UNCHANGED vars PROVE LInv'
  OBVIOUS
<1>1. SInv' /\ FlagsInv'
  BY StartUpStays, FlagsStay DEF LInv, vars, SInv, StartUpTypeOK
<1>2. LoadInv'
  BY DEF LInv, vars, LoadInv, startUp, made, load, group
<1>3. AroundInv'
  BY DEF LInv, vars, AroundInv, Holds, around, context, signals, metrics
<1>4. QED BY <1>1, <1>2, <1>3 DEF LInv

LEMMA NextKeeps == LInv /\ [Next]_vars => LInv'
BY StartUpStepKeeps, LoadStepKeeps, AroundStepKeeps, StutterKeeps
   DEF Next, Loads, Arounds, Signalled

LEMMA Invariant == Spec => []LInv
BY Begins, NextKeeps, PTL DEF Spec

-----------------------------------------------------------------------------
(* The theorems.                                                           *)

\* Types, lengths and the bounds of the channel, over the whole of load.go.
THEOREM TypeCorrect == Spec => []TypeOK
<1>1. LInv => TypeOK
  BY DEF LInv, SInv, LoadInv, AroundInv, TypeOK, Signalled
<1>2. QED BY Invariant, <1>1, PTL

\* NewLoadGenerator's seeds are those of the places of the generators.
THEOREM SeedsPlaced == Spec => []SeedsKeepTheirPlace
<1>1. LInv => SeedsKeepTheirPlace
  BY PlacesKept DEF LInv
<1>2. QED BY Invariant, <1>1, PTL

\* Set keeps the last value of a flag, and Merge hands it to the client.
THEOREM LastFlagUsed == Spec => []LastFlagWins
<1>1. LInv => LastFlagWins
  BY FlagsUsed DEF LInv, SInv
<1>2. QED BY Invariant, <1>1, PTL

\* Normalize leaves nothing to be normalised.
THEOREM Normalizes == Spec => []NormalizedOnce
<1>1. LInv => NormalizedOnce
  BY DEF LInv, SInv
<1>2. QED BY Invariant, <1>1, PTL

\* load.Run starts nothing before all is initialised.
THEOREM ReadyFirst == Spec => []RunsOnlyWhenReady
<1>1. LInv => RunsOnlyWhenReady
  BY DEF LInv, LoadInv, RunsOnlyWhenReady
<1>2. QED BY Invariant, <1>1, PTL

\* grp.Wait lets nobody be left behind.
THEOREM WaitsForAll == Spec => []ExitsAfterGenerators
<1>1. LInv => ExitsAfterGenerators
  BY DEF LInv, LoadInv, ExitsAfterGenerators
<1>2. QED BY Invariant, <1>1, PTL

\* The signal goroutine ignores SIGPIPE.
THEOREM PipesIgnored == Spec => []PipesAreHarmless
<1>1. LInv => PipesAreHarmless
  BY DEF LInv, AroundInv, PipesAreHarmless, Holds, Range
<1>2. QED BY Invariant, <1>1, PTL

-----------------------------------------------------------------------------
(* The contract of Generator, step by step.                                *)

\* load.Run gets all the generators there are, and the group's context is not
\* done for nothing.
Caused ==
  /\ stage \in {"init", "run", "report"} => considered = Len(Kinds)
  /\ firstErr = "ctx" => CtxDone

LEMMA CausedStays == LInv /\ Caused /\ [Next]_vars => Caused'
<1> SUFFICES ASSUME LInv, Caused, [Next]_vars PROVE Caused'
  OBVIOUS
<1>0. deadline \in BOOLEAN /\ cancelled \in BOOLEAN
  BY DEF LInv, AroundInv
<1>1. CASE StartUpStep
  <2>1. stage \in Early \cup {"new"} /\ stage' \in Early \cup {"new", "exit"}
    BY <1>1 DEF StartUpStep, StartUpNext, ParseFlag, Parsed, ParseFails, ReadConfig,
       ReadConfigFails, APIClient, APIClientFails, NextKind, ExitWith, Early
  <2>2. UNCHANGED <<firstErr, deadline, cancelled>>
    BY <1>1 DEF StartUpStep, load, group, around, context
  <2>3. QED BY <2>1, <2>2 DEF Caused, CtxDone, Early
<1>2. CASE Loads
  <2>1. UNCHANGED <<considered, deadline, cancelled>>
    BY <1>2 DEF Loads, RunLoad, Initialize, InitializeFails, InitializePanics, StartGroup,
       Return, KvPanics, CatalogPanics, LoadReturns, Ends, Exit, QueryAnswered,
       QueryFails, startUp, made, around, context
  <2>2. stage' \in {"init", "run", "report"} => considered = Len(Kinds)
    BY <1>2 DEF Caused, Loads, RunLoad, Initialize, InitializeFails, InitializePanics,
       StartGroup, Return, KvPanics, CatalogPanics, LoadReturns, Ends, Exit,
       QueryAnswered, QueryFails, ExitWith
  <2>3. ASSUME NEW g \in running, NEW e \in Errors, Return(g, e)
        PROVE  firstErr' = "ctx" => CtxDone
    <3>1. firstErr' = IF firstErr = "nil" THEN e ELSE firstErr
      BY <2>3 DEF Return, Group!Return
    <3>2. e = "ctx" => GroupDone
      BY <2>3 DEF Return, Results
    <3>3. QED BY <3>1, <3>2 DEF Caused, GroupDone, Group!Cancelled
  <2>4. firstErr' = "ctx" => CtxDone
    <3>1. CASE StartGroup
      BY <3>1 DEF StartGroup, Group!Launch
    <3>2. CASE \/ RunLoad \/ Initialize \/ InitializeFails \/ InitializePanics
               \/ KvPanics \/ CatalogPanics \/ LoadReturns \/ Ends
      <4>1. firstErr' = firstErr
        BY <3>2 DEF RunLoad, Initialize, InitializeFails, InitializePanics, KvPanics,
           CatalogPanics, LoadReturns, Ends, Exit, QueryAnswered, QueryFails, load, group
      <4>2. QED BY <4>1 DEF Caused
    <3>3. QED BY <1>2, <2>3, <3>1, <3>2 DEF Loads
  <2>5. QED BY <2>1, <2>2, <2>4 DEF Caused, CtxDone
<1>3. CASE Arounds
  <2>1. UNCHANGED <<startUp, stage, firstErr>>
    BY <1>3 DEF Arounds, Deadline, Signal, Handler, TakePipe, TakeInterrupt, Take, Cancel,
       SeeDone, Listen, ScrapeStarts, ScrapeEnds, Scrape, load, group
  <2>2. CtxDone => CtxDone'
    BY <1>3 DEF Arounds, Deadline, Signal, Handler, TakePipe, TakeInterrupt, Take, Cancel,
       SeeDone, Listen, ScrapeStarts, ScrapeEnds, Scrape, context, CtxDone
  <2>3. QED BY <2>1, <2>2 DEF Caused, startUp, made
<1>4. CASE UNCHANGED vars
  BY <1>4 DEF vars, Caused, CtxDone, startUp, made, load, group, around, context
<1>5. QED BY <1>1, <1>2, <1>3, <1>4 DEF Next, Loads, Arounds, Signalled

LEMMA CausedInvariant == Spec => []Caused
<1>1. Init => Caused
  BY DEF Init, StartUpInit, Caused
<1>2. QED BY <1>1, CausedStays, Invariant, PTL DEF Spec

LEMMA InitMaps == Init => Contract!Init
<1> SUFFICES ASSUME Init PROVE Contract!Init
  OBVIOUS
<1>1. /\ stage = "flags" /\ firstErr = "nil" /\ deadline = FALSE /\ cancelled = FALSE
  BY DEF Init, StartUpInit
<1>2. ~CtxDone /\ ~LoadReturned /\ ~GroupStarted
  BY <1>1 DEF CtxDone, LoadReturned, GroupStarted
<1>3. QED BY <1>1, <1>2 DEF Contract!Init

\* A step between the calls of load.Run's generators is invisible, or work.
LEMMA WorkMaps ==
  ASSUME CtxDone' <=> CtxDone, ~LoadReturned, ~LoadReturned',
         firstErr = "failure" => firstErr' = "failure",
         GroupStarted /\ running = {} => (GroupStarted /\ running = {})'
  PROVE  Contract!Work
BY DEF Contract!Work

LEMMA UnseenMaps ==
  ASSUME CtxDone' <=> CtxDone, LoadReturned' <=> LoadReturned,
         UNCHANGED <<firstErr, loadErr, running>>, GroupStarted' <=> GroupStarted
  PROVE  UNCHANGED Contract!vars
BY DEF Contract!vars

LEMMA StepMaps == LInv /\ Caused /\ [Next]_vars => [Contract!Next]_(Contract!vars)
<1> SUFFICES ASSUME LInv, Caused, [Next]_vars PROVE [Contract!Next]_(Contract!vars)
  OBVIOUS
<1>0. /\ deadline \in BOOLEAN /\ cancelled \in BOOLEAN /\ stage \in Stages
      /\ firstErr \in Errors /\ loadErr \in Errors /\ Len(generators) \in Nat
      /\ inits \in 0 .. Len(generators) /\ Len(Kinds) = 3
  BY DEF LInv, AroundInv, LoadInv, SInv, StartUpTypeOK, Kinds
<1>1. CASE StartUpStep
  <2>1. /\ stage \in Early \cup {"new"} /\ stage' \in Early \cup {"new", "exit"}
        /\ stage' = "exit" => stage \in Early /\ considered' = considered
    BY <1>1 DEF StartUpStep, StartUpNext, ParseFlag, Parsed, ParseFails, ReadConfig,
       ReadConfigFails, APIClient, APIClientFails, NextKind, ExitWith, Early, startUp, made
  <2>2. UNCHANGED <<firstErr, loadErr, running, deadline, cancelled>>
    BY <1>1 DEF StartUpStep, load, group, around, context
  <2>3. stage' = "exit" => considered' = 0
    BY <2>1 DEF LInv, SInv, NothingEarly
  <2>4. ~LoadReturned /\ ~LoadReturned' /\ ~GroupStarted /\ ~GroupStarted'
    BY <1>0, <2>1, <2>3 DEF LoadReturned, GroupStarted, Early, Kinds
  <2>5. QED BY <2>2, <2>4, UnseenMaps DEF CtxDone
<1>2. CASE Loads
  <2>1. /\ UNCHANGED <<startUp, around>> /\ UNCHANGED <<considered, generators>>
        /\ CtxDone' <=> CtxDone
    BY <1>2 DEF Loads, RunLoad, Initialize, InitializeFails, InitializePanics, StartGroup,
       Return, KvPanics, CatalogPanics, LoadReturns, Ends, Exit, QueryAnswered,
       QueryFails, startUp, made, around, context, CtxDone
  <2>2. CASE RunLoad \/ Initialize \/ InitializePanics
    <3>1. /\ stage \in {"new", "init"} /\ UNCHANGED <<firstErr, loadErr, running>>
          /\ \/ stage' \in {"new", "init"}
             \/ stage' = "exit" /\ code' = 2 /\ inits' = inits /\ inits < Len(generators)
      BY <2>2, <1>0 DEF RunLoad, Initialize, InitializePanics, KvCannotStart, Upcoming,
         ExitWith, load, group
    <3>2. ~LoadReturned /\ ~LoadReturned' /\ ~GroupStarted /\ ~GroupStarted'
      BY <1>0, <2>1, <3>1 DEF LoadReturned, GroupStarted
    <3>3. QED BY <2>1, <3>1, <3>2, UnseenMaps
  <2>3. CASE InitializeFails
    <3>1. /\ stage = "init" /\ stage' = "report" /\ inits' = inits
          /\ inits < Len(generators) /\ CtxDone /\ loadErr' = "ctx"
          /\ UNCHANGED <<firstErr, running>>
      BY <2>3 DEF InitializeFails, Upcoming, group
    <3>2. ~LoadReturned /\ LoadReturned' /\ ~GroupStarted /\ ~GroupStarted'
      BY <1>0, <2>1, <3>1 DEF LoadReturned, GroupStarted
    <3>3. QED BY <2>1, <3>1, <3>2 DEF Contract!Next, Contract!ReturnError
  <2>4. CASE StartGroup
    <3>1. /\ stage = "init" /\ stage' = "run" /\ firstErr = "nil"
      BY <2>4 DEF StartGroup, LInv, LoadInv
    <3>2. ~LoadReturned /\ ~LoadReturned' /\ ~GroupStarted
      BY <3>1 DEF LoadReturned, GroupStarted
    <3>3. QED BY <2>1, <3>1, <3>2, WorkMaps DEF Contract!Next
  <2>5. ASSUME NEW g \in running, NEW e \in Errors, Return(g, e)
        PROVE  [Contract!Next]_(Contract!vars)
    <3>1. /\ stage = "run" /\ stage' = "run" /\ running # {}
          /\ firstErr = "failure" => firstErr' = "failure"
      BY <2>5 DEF Return, Group!Return
    <3>2. ~LoadReturned /\ ~LoadReturned'
      BY <3>1 DEF LoadReturned
    <3>3. QED BY <2>1, <3>1, <3>2, WorkMaps DEF Contract!Next
  <2>6. CASE KvPanics \/ CatalogPanics
    <3>1. /\ stage = "run" /\ stage' = "exit" /\ code' = 2
          /\ UNCHANGED <<firstErr, loadErr, running, inits>>
      BY <2>6 DEF KvPanics, CatalogPanics, ExitWith, load, group
    <3>2. ~LoadReturned /\ ~LoadReturned' /\ (GroupStarted' <=> GroupStarted)
      BY <2>1, <3>1 DEF LoadReturned, GroupStarted
    <3>3. QED BY <2>1, <3>1, <3>2, UnseenMaps
  <2>7. CASE LoadReturns
    <3>1. /\ stage = "run" /\ stage' = "report" /\ running = {} /\ loadErr' = firstErr
          /\ UNCHANGED <<firstErr, running, inits>>
      BY <2>7 DEF LoadReturns, AllReturned, Group!Finished, group
    <3>2. considered = Len(Kinds) /\ inits = Len(generators)
      BY <3>1 DEF Caused, LInv, LoadInv
    <3>3. ~LoadReturned /\ LoadReturned' /\ GroupStarted /\ GroupStarted'
      BY <2>1, <3>1, <3>2 DEF LoadReturned, GroupStarted
    <3>4. CASE firstErr = "nil"
      BY <2>1, <3>1, <3>3, <3>4 DEF Contract!Next, Contract!ReturnNil
    <3>5. CASE firstErr # "nil"
      <4>1. CtxDone \/ firstErr = "failure"
        BY <1>0, <3>5 DEF Caused, Errors
      <4>2. QED BY <2>1, <3>1, <3>3, <3>5, <4>1 DEF Contract!Next, Contract!ReturnError
    <3>6. QED BY <3>4, <3>5
  <2>8. CASE Ends
    <3>1. /\ stage = "report"
          /\ stage' = "report" \/ (stage' = "exit" /\ code' # 2)
          /\ UNCHANGED <<firstErr, loadErr, running, inits>>
      BY <2>8 DEF Ends, Exit, QueryAnswered, QueryFails, ExitWith, load, group
    <3>2. LoadReturned /\ LoadReturned' /\ (GroupStarted' <=> GroupStarted)
      BY <2>1, <3>1 DEF LoadReturned, GroupStarted, Caused
    <3>3. QED BY <2>1, <3>1, <3>2, UnseenMaps
  <2>9. QED BY <1>2, <2>2, <2>3, <2>4, <2>5, <2>6, <2>7, <2>8 DEF Loads
<1>3. CASE Arounds
  <2>1. UNCHANGED <<startUp, stage, code, load>> /\ (CtxDone => CtxDone')
    BY <1>3 DEF Arounds, Deadline, Signal, Handler, TakePipe, TakeInterrupt, Take, Cancel,
       SeeDone, Listen, ScrapeStarts, ScrapeEnds, Scrape, context, CtxDone
  <2>2. /\ UNCHANGED <<firstErr, loadErr, running>>
        /\ LoadReturned' <=> LoadReturned
        /\ GroupStarted' <=> GroupStarted
    BY <2>1 DEF startUp, made, load, group, LoadReturned, GroupStarted
  <2>3. CASE CtxDone' <=> CtxDone
    BY <2>2, <2>3, UnseenMaps
  <2>4. CASE ~CtxDone /\ CtxDone'
    BY <2>2, <2>4 DEF Contract!Next, Contract!ContextDone
  <2>5. QED BY <2>1, <2>3, <2>4
<1>4. CASE UNCHANGED vars
  <2>1. /\ CtxDone' <=> CtxDone
        /\ LoadReturned' <=> LoadReturned
        /\ GroupStarted' <=> GroupStarted
        /\ UNCHANGED <<firstErr, loadErr, running>>
    BY <1>4 DEF vars, CtxDone, startUp, made, load, group, around, context, LoadReturned,
       GroupStarted
  <2>2. QED BY <2>1, UnseenMaps
<1>5. QED BY <1>1, <1>2, <1>3, <1>4 DEF Next, Loads, Arounds, Signalled

\* The safety half of KeepsContract: load.Run is a generator itself.
THEOREM RunKeepsContract == Spec => Contract!SafeSpec
BY InitMaps, StepMaps, Invariant, CausedInvariant, PTL DEF Spec, Contract!SafeSpec

-----------------------------------------------------------------------------
(* What it takes to bring the process down.                                *)

\* A configuration that some generator may not survive.
Fragile(c) == c.kv # {} \/ \E s \in c.catalog : ~s.sound \/ ~s.stocked

Blamed == code = 2 => stage = "exit" /\ Fragile(conf)

\* A generator that runs, or is initialised, has a section.
LEMMA PanicsAreFragile ==
  ASSUME LInv, Caused, KvPanics \/ CatalogPanics \/ InitializePanics
  PROVE  Fragile(conf)
<1>1. CASE KvPanics
  <2>1. "kv" \in Range(generators) /\ considered = 3
    BY <1>1 DEF KvPanics, LInv, LoadInv, Caused, Kinds
  <2>2. Kinds[2] = "kv" /\ Sections("kv") = conf.kv
    BY DEF Kinds, Sections
  <2>3. QED BY <2>1, <2>2 DEF LInv, SInv, StartUpTypeOK, Fragile
<1>2. CASE CatalogPanics
  BY <1>2 DEF CatalogPanics, Fragile
<1>3. CASE InitializePanics
  BY <1>3 DEF InitializePanics, KvCannotStart, Fragile
<1>4. QED BY <1>1, <1>2, <1>3

LEMMA BlamedStays == LInv /\ Caused /\ Blamed /\ [Next]_vars => Blamed'
<1> SUFFICES ASSUME LInv, Caused, Blamed, [Next]_vars PROVE Blamed'
  OBVIOUS
<1>1. CASE StartUpStep
  <2>1. stage # "exit" /\ code' \in {code, 1}
    BY <1>1 DEF StartUpStep, StartUpNext, ParseFlag, Parsed, ParseFails, ReadConfig,
       ReadConfigFails, APIClient, APIClientFails, NextKind, ExitWith
  <2>2. QED BY <2>1 DEF Blamed
<1>2. CASE Loads
  <2>1. stage # "exit" /\ conf' = conf
    BY <1>2 DEF Loads, RunLoad, Initialize, InitializeFails, InitializePanics, StartGroup,
       Return, KvPanics, CatalogPanics, LoadReturns, Ends, Exit, QueryAnswered, QueryFails,
       startUp, configured
  <2>2. CASE KvPanics \/ CatalogPanics \/ InitializePanics
    BY <2>1, <2>2, PanicsAreFragile
       DEF KvPanics, CatalogPanics, InitializePanics, ExitWith, Blamed, Fragile
  <2>3. CASE ~(KvPanics \/ CatalogPanics \/ InitializePanics)
    <3>1. code' \in {code, 0, 1}
      BY <1>2, <2>3 DEF Loads, RunLoad, Initialize, InitializeFails, StartGroup, Return,
         LoadReturns, Ends, Exit, QueryAnswered, QueryFails, ExitWith
    <3>2. QED BY <2>1, <3>1 DEF Blamed
  <2>4. QED BY <2>2, <2>3
<1>3. CASE Arounds \/ UNCHANGED vars
  <2>1. UNCHANGED <<startUp, stage, code>>
    BY <1>3 DEF Arounds, Deadline, Signal, Handler, TakePipe, TakeInterrupt, Take, Cancel,
       SeeDone, Listen, ScrapeStarts, ScrapeEnds, Scrape, vars
  <2>2. QED BY <2>1 DEF Blamed, Fragile, startUp, configured
<1>4. QED BY <1>1, <1>2, <1>3 DEF Next, Loads, Arounds, Signalled

\* A process panics only for its kv generator, or for a catalog section whose
\* data may draw from an empty interval or leave a list without items that the
\* loops of run.go pick from.  Nothing else in the start, in load.Run, in the
\* signal goroutine or in the report does.
THEOREM PanicsHaveCauses == Spec => [](code = 2 => Fragile(conf))
<1>1. Init => Blamed
  BY DEF Init, StartUpInit, Blamed
<1>2. Blamed => (code = 2 => Fragile(conf))
  BY DEF Blamed
<1>3. QED BY <1>1, <1>2, BlamedStays, Invariant, CausedInvariant, PTL DEF Spec
=============================================================================
