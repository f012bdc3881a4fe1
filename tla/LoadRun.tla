------------------------------- MODULE LoadRun -------------------------------
(***************************************************************************)
(* The life of one consul-load process: after StartUp load.go has a        *)
(* metrics server, a goroutine for signals and load/load.go's Run, which   *)
(* initialises the configured generators one after the other and then runs *)
(* them in an errgroup; the report of metrics/metrics.go comes last.       *)
(*                                                                         *)
(* The kv generator is modelled in full.  Those of the catalog and of      *)
(* peering appear by what their own modules show of them: when Initialize  *)
(* can fail or panic, and when Run can return what or panic.               *)
(***************************************************************************)
EXTENDS StartUp

CONSTANTS
  QueueLen,     \* capacity of signalCh, 10 in the code
  MaxSignals    \* bound of the runs: signals sent to the process

ASSUME BoundsAreNatural == QueueLen \in Nat /\ MaxSignals \in Nat

VARIABLES
  inits,       \* generators that have been initialised
  running,     \* generators whose Run has not returned
  firstErr,    \* the error the errgroup kept
  loadErr,     \* what load.Run returned
  queries,     \* questions of the report Prometheus has answered
  deadline,    \* -timeout is over
  cancelled,   \* cancel() was called
  signalCh,    \* signals waiting to be looked at
  sent,        \* signals sent so far, in order
  handler,     \* the signal goroutine: "select", "stopping" or "gone"
  server,      \* the metrics server: "new", "up", "failed" or "closed"
  scraping     \* a scrape is being answered

group == <<running, firstErr>>
load == <<inits, group, loadErr, queries>>
context == <<deadline, cancelled>>
signals == <<signalCh, sent, handler>>
metrics == <<server, scraping>>
around == <<context, signals, metrics>>
vars == <<startUp, stage, code, load, around>>

ServerOn == Option(given, "port") # "0"
Reporting == ServerOn /\ Option(given, "report") # ""

\* The signal goroutine runs.
Alive == stage \in {"new", "init", "run", "report"}

Group == INSTANCE ErrGroup

\* Mutant: a context without a deadline.
CancelOnly == cancelled
CtxDone == deadline \/ cancelled

\* Mutant: the generators get the context of load.Run, not the group's.
OuterContext == CtxDone
GroupDone == Group!Cancelled(CtxDone)

Init ==
  /\ StartUpInit
  /\ inits = 0
  /\ running = {}
  /\ firstErr = "nil"
  /\ loadErr = "nil"
  /\ queries = 0
  /\ deadline = FALSE
  /\ cancelled = FALSE
  /\ signalCh = <<>>
  /\ sent = <<>>
  /\ handler = "select"
  /\ server = "new"
  /\ scraping = FALSE

StartUpStep == StartUpNext /\ UNCHANGED <<load, around>>

-----------------------------------------------------------------------------
(* load.Run.                                                               *)

RunLoad ==
  /\ stage = "new"
  /\ considered = Len(Kinds)
  /\ stage' = "init"
  /\ UNCHANGED <<startUp, code, load, around>>

\* The next generator to be initialised is g.
Upcoming(g) == inits < Len(generators) /\ generators[inits + 1] = g

KvCannotStart == Upcoming("kv") /\ \E s \in conf.kv : KVInitializePanics(s)

Initialize ==
  /\ stage = "init"
  /\ inits < Len(generators)
  /\ ~KvCannotStart
  /\ inits' = inits + 1
  /\ UNCHANGED <<startUp, stage, code, group, loadErr, queries, around>>

\* What the catalog draws decides whether an empty interval is drawn from.
InitializePanics ==
  /\ stage = "init"
  /\ KvCannotStart \/ (Upcoming("catalog") /\ \E s \in conf.catalog : ~s.sound)
  /\ ExitWith(2)
  /\ UNCHANGED <<startUp, load, around>>

\* Mutant: the loop is left with break, and the group starts all the same.
BreakNotReturn ==
  /\ stage = "init"
  /\ Upcoming("catalog")
  /\ CtxDone
  /\ stage' = "run"
  /\ Group!Launch(Range(generators))
  /\ UNCHANGED <<startUp, code, inits, loadErr, queries, around>>

\* Only the catalog's Initialize can fail, with the context's error; the
\* generators that were initialised before are never run.
InitializeFails ==
  /\ stage = "init"
  /\ Upcoming("catalog")
  /\ CtxDone
  /\ stage' = "report"
  /\ loadErr' = "ctx"
  /\ UNCHANGED <<startUp, code, inits, group, queries, around>>

StartGroup ==
  /\ stage = "init"
  /\ inits = Len(generators)
  /\ stage' = "run"
  /\ Group!Launch(Range(generators))
  /\ UNCHANGED <<startUp, code, inits, loadErr, queries, around>>

Errors == {"nil", "ctx", "failure"}

\* What Run of g can return now.  Without a burst kv fails at its first token,
\* with one it lasts until its context is done; the others may also end well
\* early, the catalog with nothing to update, peering for its limiter.
Results(g) ==
  (IF GroupDone THEN {"ctx"} ELSE {})
  \cup (IF g # "kv" THEN {"nil", "failure"} ELSE {})

KVStarves == \E s \in conf.kv : KVNoBurst(s)

Return(g, e) ==
  /\ stage = "run"
  /\ e \in IF g = "kv" /\ KVStarves THEN {"failure"} ELSE Results(g)
  /\ Group!Return(g, e)
  /\ UNCHANGED <<startUp, stage, code, inits, loadErr, queries, around>>

\* kv has got a token: it picks a key, of which there may be none, and draws a
\* value from a generator whose rng field nobody sets, which always panics.
KvPanics ==
  /\ stage = "run"
  /\ "kv" \in running
  /\ ~KVStarves
  /\ ExitWith(2)
  /\ UNCHANGED <<startUp, load, around>>

\* A loop of the catalog has got a token and picks from a list without items.
CatalogPanics ==
  /\ stage = "run"
  /\ "catalog" \in running
  /\ \E s \in conf.catalog : ~s.stocked
  /\ ExitWith(2)
  /\ UNCHANGED <<startUp, load, around>>

\* Mutant: the first error is returned without waiting for the others.
FirstErrorOnly == running = {} \/ firstErr # "nil"
\* grp.Wait
AllReturned == Group!Finished

\* Mutant: the group's error is not passed on.
WaitIgnored ==
  /\ stage = "run"
  /\ AllReturned
  /\ stage' = "report"
  /\ UNCHANGED <<startUp, code, inits, group, loadErr, queries, around>>

LoadReturns ==
  /\ stage = "run"
  /\ AllReturned
  /\ stage' = "report"
  /\ loadErr' = firstErr
  /\ UNCHANGED <<startUp, code, inits, group, queries, around>>

-----------------------------------------------------------------------------
(* The end of the command, which drops loadErr.                            *)

Exit ==
  /\ stage = "report"
  /\ ~Reporting \/ queries = 2
  /\ ExitWith(0)
  /\ UNCHANGED <<startUp, load, around>>

\* KVLoadReport asks for two percentiles.
QueryAnswered ==
  /\ stage = "report"
  /\ Reporting /\ queries < 2
  /\ queries' = queries + 1
  /\ UNCHANGED <<startUp, stage, code, inits, group, loadErr, around>>

\* Prometheus does not answer, or in another format: the one ends the process
\* where it is, the other is an error nobody looks at.
QueryFails ==
  /\ stage = "report"
  /\ Reporting /\ queries < 2
  /\ \E n \in {0, 1} : ExitWith(n)
  /\ UNCHANGED <<startUp, load, around>>

-----------------------------------------------------------------------------
(* Signals, the deadline and the metrics server.                           *)

Deadline ==
  /\ Alive
  /\ ~deadline
  /\ deadline' = TRUE
  /\ UNCHANGED <<startUp, stage, code, load, cancelled, signals, metrics>>

\* Mutant: a channel that takes every signal.
NeverFull(s) ==
  /\ Alive
  /\ Len(sent) < MaxSignals
  /\ sent' = Append(sent, s)
  /\ signalCh' = Append(signalCh, s)
  /\ UNCHANGED <<startUp, stage, code, load, context, handler, metrics>>

\* signal.Notify does not block: a signal that finds the channel full is lost.
Signal(s) ==
  /\ Alive
  /\ Len(sent) < MaxSignals
  /\ sent' = Append(sent, s)
  /\ signalCh' = IF Len(signalCh) < QueueLen THEN Append(signalCh, s) ELSE signalCh
  /\ UNCHANGED <<startUp, stage, code, load, context, handler, metrics>>

Take(s) ==
  /\ Alive
  /\ handler = "select"
  /\ signalCh # <<>>
  /\ Head(signalCh) = s
  /\ signalCh' = Tail(signalCh)
  /\ UNCHANGED <<startUp, stage, code, load, context, sent, scraping>>

TakePipe == Take("pipe") /\ UNCHANGED <<handler, server>>

\* Mutant: SIGPIPE is handled like the other signals.
TakeAny ==
  /\ \E s \in {"int", "pipe"} : Take(s)
  /\ handler' = "stopping"
  /\ server' = "closed"

\* Shutdown closes the listener and then waits for the open scrape.
TakeInterrupt ==
  /\ Take("int")
  /\ handler' = "stopping"
  /\ server' = "closed"

\* Only after Shutdown does the goroutine call cancel, and end.
Cancel ==
  /\ Alive
  /\ handler = "stopping"
  /\ ~scraping \/ CtxDone
  /\ cancelled' = TRUE
  /\ handler' = "gone"
  /\ UNCHANGED <<startUp, stage, code, load, deadline, signalCh, sent, metrics>>

\* The context is done first: Shutdown gives up at once, the goroutine ends.
SeeDone ==
  /\ Alive
  /\ handler = "select"
  /\ CtxDone
  /\ handler' = "gone"
  /\ server' = "closed"
  /\ UNCHANGED <<startUp, stage, code, load, context, signalCh, sent, scraping>>

\* ListenAndServe in its goroutine; its error is logged and no more.
Listen ==
  /\ Alive
  /\ ServerOn
  /\ server = "new"
  /\ server' \in {"up", "failed"}
  /\ UNCHANGED <<startUp, stage, code, load, context, signals, scraping>>

Scrape(from, to) ==
  /\ Alive
  /\ scraping = from
  /\ scraping' = to
  /\ UNCHANGED <<startUp, stage, code, load, context, signals, server>>

ScrapeStarts == server = "up" /\ Scrape(FALSE, TRUE)
ScrapeEnds == Scrape(TRUE, FALSE)

Handler == TakePipe \/ TakeInterrupt \/ Cancel \/ SeeDone
Ends == Exit \/ QueryAnswered \/ QueryFails

Next ==
  \/ StartUpStep \/ RunLoad
  \/ Initialize \/ InitializeFails \/ InitializePanics \/ StartGroup
  \/ \E g \in running, e \in Errors : Return(g, e)
  \/ KvPanics \/ CatalogPanics \/ LoadReturns \/ Ends
  \/ Deadline
  \/ \E s \in {"int", "pipe"} : Signal(s)
  \/ Handler
  \/ Listen \/ ScrapeStarts \/ ScrapeEnds

Spec == Init /\ [][Next]_vars

\* The goroutines of the process run, and a generator whose context is done
\* comes to an end (CatalogInit and CatalogRun show it of the catalog, Peering
\* when Consul answers).  Prometheus is given five seconds.  Scrapers read
\* their answers to the end.  Neither the deadline nor a signal need ever come.
FairSpec ==
  /\ Spec
  /\ WF_vars(StartUpStep \/ RunLoad)
  /\ WF_vars(CtxDone /\ (Initialize \/ InitializeFails \/ InitializePanics))
  /\ WF_vars(StartGroup) /\ WF_vars(LoadReturns) /\ WF_vars(Ends)
  /\ \A i \in 1 .. Len(Kinds) :
       WF_vars(/\ GroupDone /\ Kinds[i] \in running
               /\ \E e \in Errors : Return(Kinds[i], e))
  /\ WF_vars(Handler)
  /\ WF_vars(ScrapeEnds)

-----------------------------------------------------------------------------
Stages == {"flags", "config", "client", "new", "init", "run", "report", "exit"}

TypeOK ==
  /\ StartUpTypeOK
  /\ stage \in Stages
  /\ inits \in 0 .. Len(generators)
  /\ running \subseteq Range(generators)
  /\ firstErr \in Errors
  /\ loadErr \in Errors
  /\ queries \in 0 .. 2
  /\ deadline \in BOOLEAN
  /\ cancelled \in BOOLEAN
  /\ signalCh \in Seq({"int", "pipe"}) /\ Len(signalCh) <= QueueLen
  /\ sent \in Seq({"int", "pipe"}) /\ Len(sent) <= MaxSignals
  /\ handler \in {"select", "stopping", "gone"}
  /\ server \in {"new", "up", "failed", "closed"}
  /\ scraping \in BOOLEAN

\* No generator puts load on Consul before every Initialize has succeeded,
\* and when one fails none ever does.
RunsOnlyWhenReady ==
  running # {} \/ firstErr # "nil" => inits = Len(generators)

\* Unless a panic takes the process down it exits only when no generator is
\* running: an error of one is not a reason to leave the others mid-request.
ExitsAfterGenerators == stage = "exit" /\ code # 2 => running = {}

\* A process that has seen nothing but SIGPIPE keeps its context and its
\* metrics server until the deadline.
PipesAreHarmless ==
  "int" \notin Range(sent) /\ ~deadline => ~cancelled /\ server # "closed"

Interrupted == handler = "select" /\ "int" \in Range(signalCh)

\* "The load test can be stopped by ctrl-C or timeout": the process exits
\* after its deadline and after an interrupt it has not lost.
Stops == Interrupted \/ deadline ~> stage = "exit"

\* The error of one generator ends the others and the process, without the
\* help of a deadline.
FailureStopsAll == firstErr # "nil" ~> stage = "exit"

\* load.Run has started its group, and has returned.
GroupStarted ==
  considered = Len(Kinds) /\ inits = Len(generators) /\ stage \in {"run", "report", "exit"}
LoadReturned ==
  stage = "report" \/ (stage = "exit" /\ considered = Len(Kinds) /\ code # 2)

Contract == INSTANCE Generator WITH
  ctxDone <- CtxDone,
  fault <- firstErr = "failure",
  idle <- GroupStarted /\ running = {},
  status <- IF ~LoadReturned THEN "running"
            ELSE IF loadErr = "nil" THEN "nil" ELSE "error"

\* load.Run is to its caller what a generator is to load.Run: the group hides
\* no failure and invents none, and an error that is not a generator's own has
\* the context for its cause.  Only a panic excuses it from returning.
KeepsContract == Contract!SafeSpec /\ (Contract!Returns \/ <>(code = 2))

\* "We can run the load test" with the sample configuration, which has a kv
\* section: none of the generators brings the process down.
NeverPanics == code # 2
=============================================================================
