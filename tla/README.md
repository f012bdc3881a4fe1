# Verification of consul-load-test

`consul-load` puts load on a Consul cluster: it registers nodes, services and
checks, updates keys, or peers clusters and measures how long an exported
service takes to become visible. This directory holds TLA+ models of the
program, the TLC configurations that check them and TLAPS proofs about them.
All paths below are relative to the repository's root.

    tlc -config Peering.cfg Peering.tla      # one run
    tlapm PeeringProofs.tla                  # the proofs of one module

## 1. Inventory

### Components

| Component | Code | State | Operations |
|---|---|---|---|
| process life cycle | `cmd/consul-load/load.go` | flags, configuration, client; context (deadline, cancel), signal channel, signal goroutine, metrics server, load goroutine | parse, read the configuration, make a client, take a signal, shut the metrics server down, cancel, wait for the load, report, exit |
| HTTP flags | `cmd/consul-load/consul_http.go` | flags that were given | set, merge onto the client's configuration |
| entry point, usage | `cmd/consul-load/main.go`, `usage.go` | none | dispatch, help text |
| orchestration | `load/load.go` | list of generators, their seeds, errgroup | a seed for each kind, `Initialize` of each in turn, `Run` of all at once, `Wait` |
| configuration | `load/config.go`, `load/config/config.go`, `load/*/config.go` | user configuration | read, `Normalize` |
| catalog data | `load/catalog/initialize.go` 49-134, `random.go` | lists of nodes, instances, checks | generate |
| catalog push | `load/catalog/initialize.go` 136-198, `generator.go` | one goroutine per resource, WaitGroup, two shared random generators | register in three batches |
| catalog updates | `load/catalog/run.go`, `limiter.go` | three loops, a limiter each, errgroup | wait for a token, pick, register |
| kv | `load/kv` | key list, value generator, limiter | wait, pick, put in a goroutine of its own |
| peering | `load/peering/generator.go` | a worker per cluster, a limiter each, one waiting goroutine per round | peer, register, query, export, wait |
| metrics | `metrics/metrics.go` | HTTP server, histogram | scrape, record, report |
| random data | `random/**` | PCG or ChaCha8 state | draw |

### How they interact

The command parses its flags, reads and normalises the configuration, replaces
its seed, makes a client and lets `NewLoadGenerator` give a seed of its own to
the generator of every section. It then starts the metrics server
and the signal goroutine, and runs `load.Run` in a third goroutine, which is
the only one it waits for. The pieces share one context: the deadline of
`-timeout` or the signal goroutine ends it, and every loop is supposed to
notice. `load.Run` calls `Initialize` sequentially and then hands the
generators to an errgroup, whose context ends with the first error of any of
them; the catalog generator does the same once more with its loops. A panic in
any goroutine ends the process. Consul is reached over HTTP; requests of the
catalog carry the context, those of kv and most of those of peering do not.

### What is hard here, and what correct means

| Component | Hard behaviour | Correct when |
|---|---|---|
| start-up | a flag given twice or empty; two sources of one option; defaults that depend on each other's order; seeds from one stream | the last word given counts, a seed does not depend on unrelated sections, what was normalised stays as it is |
| life cycle | signals, deadline and scrapes in any order; signals lost in a full channel; shutdown before cancel | the process ends after a signal or the deadline, and never on SIGPIPE; it does not leave generators behind |
| orchestration | failure of `Initialize`; failure of one of several generators | nothing runs before all is ready; one failure ends all |
| configuration and data | zero, negative and swapped bounds; names drawn repeatedly | what is validated does not panic; data is within its limits when counted by identifier; addresses stay in the range reserved for tests |
| catalog push | hundreds of goroutines, dropped errors, cancellation between batches, registrations carried out late, a random generator without a lock | batches do not overtake each other; nothing is sent after the return; it returns even if Consul does not answer |
| catalog updates | a limiter that refuses near the deadline; errors that are, or are not, the context's | a loop ends only for a cause, and then all do |
| peering | goroutines outliving their round; an index read before and used after a write; read-append-write of a shared entry; calls without a context | rounds do not disturb each other, no wake-up is lost, no export is lost, `Run` returns |

Everything this code makes hard to test is listed, at its line, under
`hazards` in `PROJECT.json`, with the properties that watch over it or the
reason why none does.

## 2. Modules

    Initializer      what load.Run may expect of Initialize         (abstract)
    Generator        what a caller may expect of Run                (abstract)
    ErrGroup         golang.org/x/sync/errgroup                     (external)
    IPPrefix         random/ip                       IPPrefixProofs
    CatalogData      Normalize, initializeData       MCCatalogData,
                       extends IPPrefix                CatalogDataProofs, CatalogLimitsProofs
    CatalogInit      pushAllData                     CatalogInitProofs
                       implements Initializer
    SeedReplay       two pushes with one seed        extends and instantiates CatalogInit
    CatalogRun       Run and limiter of the catalog  CatalogRunProofs
                       instantiates ErrGroup, implements Generator
    Peering          Run of peering                  PeeringProofs
                       implements Generator
    KV, HTTPFlags    operators of load/kv and of consul_http.go
    StartUp          Run of the command up to the generators   StartUpProofs
                       extends KV, HTTPFlags
    LoadRun          load.Run and the command        MCLoadRun, LoadRunProofs
                       extends StartUp, instantiates ErrGroup, implements Generator

`CatalogData`, `CatalogInit` and `CatalogRun` follow one another in the life of
the catalog generator: the first yields the lists the second pushes and the
third picks from. `LoadRun` composes the whole process: it has start-up and the
kv generator in full, and the generators of the catalog and of peering by what
their modules show of them: only the catalog's `Initialize` can fail and only
with the context's error, what a catalog section must be like for its generator
not to panic, and that a generator whose context is done ends.

A definition that models code has an entry under `map` in `PROJECT.json` with
the lines it stands for. Definitions marked *Mutant* are deliberate bugs; for
each checked property one of them, put in the place of the correct definition,
makes TLC report a violation.

### IPPrefix

An address is a function from byte positions to bytes. The code works with bit
masks; each of them covers the low bits of a byte, so that `& mask` is a
remainder (`And`), and `|` an addition where those bits have been cleared.
`Mask` is the loop over the bytes of the prefix, `Masked` is
`netip.Prefix.Masked`, `GenerateIP` takes the random bytes as a parameter.
`InPrefix` says what a prefix is, bit by bit, without any of this.

### CatalogData

`conf` is the configuration, `Accepts` is `Normalize` of the catalog with its
two early returns, `Draw` is `randInterval`: the set of values it may return,
empty where it panics. `GenerateNode` is one iteration of the loop over the
nodes with all its inner loops; one goroutine does this, so nothing can come
between. An instance or check is identified by its place in the loops
(`node`, `index`, `sidecar`); `ServiceID` and `CheckID` are the parts the
identifier text is made of. `WithinLimits` counts identifiers and not records,
because of two instances with one identifier Consul would keep one; it fails
when the index is left out of the identifier. That the text has its parts in one
way only is not checked: it rests on petnames being words of letters, which the
files under `random/petname/data` hold and nothing else. `Push` is the part of
the push that depends on the configuration, the number of metadata entries.

### CatalogInit, SeedReplay

`req[r]` is the goroutine that registers resource `r`: *idle*, *read* and
*half* (it is in the middle of its draw), *ready*, *sent*, and the two
outcomes. The generators `nodeRng` and `serviceRng` are used by all goroutines
of a batch without a lock: a draw reads the state (`ReadRng`) and stores its
two words (`StoreLo`, `StoreHi`), and other goroutines come in between.
`phase` is the `wg.Wait` the main goroutine stands at.

A request and its answer are two things. `Send` puts the request among those
Consul may carry out (`sent`), which it does in `Applies` at any later time or
never: before the answer, after an error, after the client has given the call
up (`Rejected`, `Abandoned`), and after `Initialize` has returned. Only a call
answered with success (`Accepted`) was carried out before its answer. So a
push that is cut short does leave registrations behind that Consul applies
late; `QuietAfterReturn` says what the tool answers for: it sends nothing more,
and what is applied late belongs to a call that ended in an error.

`Initializer` is what `LoadRun` assumes of the catalog's `Initialize`: it
sends requests only until it returns, an error is its context's, and once that
is done it returns. `KeepsContract` of `CatalogInit` is the refinement.

`SeedReplay` runs one copy of this module after another, both from the same
state of the generators, as two runs of the command with one `-seed` do, and
compares what they have drawn.

### CatalogRun, ErrGroup, Generator

`pc[u]` follows a loop through `Wait`, the pick and the register call.
The limiter tests in the order of `rate.Limiter.Wait`: burst, context, then the
reservation, which is granted, granted after a sleep or refused because of the
deadline. *exceed* is the place where `wrappedLimiter` waits for the context
instead of returning the refusal. `burst` is `int(rate*10)`, zero for a rate
below a tenth, and `len` the length of the list; an empty one panics.
`Generator` states the contract in terms of four facts: the context is done,
something failed, nothing is left to do, and what `Run` has returned: nil only
after the context or the work, and never after a failure; an error only after
the context or a failure. `KeepsContract` is the refinement, with the state of
`CatalogRun` mapped to these four; nothing is left to do when there is no loop
to start. `Peering` and `LoadRun` keep the same contract.

### Peering

`stage` is where `Run` is, `pc[c]` where the goroutine of cluster `c` is: first
the one that peers it, then its worker. `Then` is the order of the calls in a
round. `round` counts register calls and so tells apart the channels
`waitExportServiceCh` of different rounds: `waiters` are the goroutines inside
their blocking queries, `closed[c]` says that the channel of the present round
is closed. `got` is the entry read by `exportService`, `Appended` what it
writes back. Consul's side is `entry`, the replication to the peers (`stale`,
`Sync`) and the indices a blocking query waits on. `index` is a service's own
index at a peer that can see it; for a service that is missing there Consul
reports, and waits on, the latest change of the whole of that peer's catalog,
`clock` (`LastIndex`). An export of an earlier round that arrives late, or
anybody's change at the peer (`WaiterGivesUp`), may therefore end the query of a
service that is still missing.

A failed request has been carried out or not. The write of the entry, which
replaces what others have written, may also be carried out after the worker has
seen it fail and gone on: `SetFails` then leaves the write in `late`, and
`LateWrite` carries it out at any later time, or never.

For `KeepsContract` the fault of a generator is a client that does not answer,
and nothing is left to do when every worker has ended. A worker whose limiter
refuses it ends too, without an error, so that the contract cannot tell it from
one that has done its work.

### KV, HTTPFlags, StartUp

`StartUp` is `Run` of the command in the order of the code: `ParseFlag` and
`Parsed`, `ReadConfig` with `Normalize` of every section, the seed of the
command line over that of the file, the client (`APIClient`), and
`NewLoadGenerator`, which goes by the kinds of generators in a fixed order and
draws a seed for each whether it has a section or not (`NextKind`). Every error
path exits with 1. A flag that was set is `{value}`, one that was not is `{}`,
and so are sections of the configuration and the file itself. The flags are
those of the command; three have shorter names (`port` is `-metrics-port`,
`report` is `-report-addr`, `loglevel` is `-log-level`). Numbers of a kv or
peering section are integers, rates count hundredths of an update per second.
Of the catalog's section there are three facts: it is *accepted* by `Normalize`;
it is *sound*, so that nothing generated or pushed from it can panic; and it is
*stocked*, so that no loop of `run.go` can find its list empty. `ValidatedIsSafe`
says that an accepted section with nodes and services is sound, `ListsFilled` and
`FullListsNeverPanic` when it is stocked.

`api.NewClient` looks an empty address, token or token file up in the
environment again (`Refilled`), so for these a flag given empty is as good as
none. It does the same with the TLS fields, but by then the transport has been
built from the merged ones, and keeps them.

### LoadRun

`handler` is the signal goroutine; *stopping* is the call of `Shutdown`, which
closes the listener and waits for the open scrape or the context, before
`cancel`. `Signal` drops a signal that finds the channel full. `Return` is the
return of a generator. kv either gets no token at all (`KVStarves`) or panics
with the first value it generates (`KvPanics`); that it panics earlier when
there are no keys to pick from makes no difference. `InitializePanics` is the
panic of `make` for a negative number of keys, and those of a catalog section
that is not sound; `CatalogPanics` is the pick from an empty list, by a section
that is not stocked. Both of the catalog may happen and need not: what is drawn
decides. The report (`QueryAnswered`, `QueryFails`) asks Prometheus twice; an
error of its answer ends the process with 1, an answer of another type silently
with 0. `code` is the exit code, 2 for a panic.

`load.Run` has the shape of the generators it runs, and `KeepsContract` says
that it keeps the same contract: `fault` is a failure the group has kept, and
nothing is left to do when all generators have returned.

## 3. Runs

| Run | Bounds | States | Shows |
|---|---|---|---|
| `catalog_data` | 3840 configurations, up to 2 nodes with up to 2 services, 2 names, two groups of random bytes | 107 728 | types; a validated configuration does not panic; addresses reserved; numbers of identifiers within limits; lists not empty if the minimums are positive |
| `catalog_init` | 2 nodes, 2 services, 2 checks | 274 969 | types; `PhaseBarrier`, `NilMeansAllAttempted`, `OnlyFailuresGoMissing`, `QuietAfterReturn`, `AlwaysReturns`, `KeepsContract` |
| `catalog_init_errors` | 1 of each | | *violated:* a nil result with a resource missing |
| `seed_replay` | 2 nodes, 1 service, twice | | *violated:* one seed, two sets of data |
| `catalog_run` | 3 loops, bursts 0 and 10, lists empty or not | 9 475 | types; `OnlyFaultsCancel`, `NoQuietExit`, `Winds`, `KeepsContract` |
| `peering` | 1 cluster, 2 names, 3 rounds | 1 606 866 | types; `ClosedByOwnQuery`, `NoMissedWakeup` |
| `peering_two` | 2 clusters, 1 round each | 48 912 | types; `Stops`, `LeftOut`, `KeepsContract` |
| `peering_lost_export` | 2 clusters, 1 round each | | *violated:* an export disappears |
| `peering_false_success` | 1 cluster, 1 round | | *violated:* a success for an invisible service |
| `peering_silent` | 1 cluster, 1 round | | *violated:* `Run` does not return when Consul is silent |
| `load_run` | 8 sets of sections, 13 odd files, 8 odd command lines, a negative seed in the file, no file; 3 signals, channel of 2 | 185 644 | types; `SeedsKeepTheirPlace`, `LastFlagWins`, `NormalizedOnce`, `RunsOnlyWhenReady`, `ExitsAfterGenerators`, `PipesAreHarmless`, `Stops`, `FailureStopsAll`, `KeepsContract` |
| `load_run_kv` | the README's sample, 1 signal | | *violated:* a kv section brings the process down |

### Bounds

- *Two of each* in `catalog_init`: the hazards are between two goroutines of a
  batch and between two batches; all goroutines of a batch are alike. Two
  nodes are the fewest that can swap their draws in `seed_replay`.
- `Randoms` are the bytes with all bits on and with all bits off: a mask that
  is too wide in any place shows with one of them. `StaysInPrefix` covers all
  other bytes.
- `Bursts`: only below one, or not, matters to the limiter. `Lens`: only zero,
  or not, matters to the pick.
- `MaxRounds` = 3: a goroutine can be left behind by a first round, another by
  a second, and both meet a third; so can a late write. Two names make a name
  return.
- `QueueLen` = 2 in place of 10 with three signals: the channel fills and
  drops, which is all its capacity decides.
- `MaxSignals` bounds the environment of `LoadRun`.
- The configurations of `catalog_data` have for every interval a usual one and
  some that are empty, swapped or negative; `Normalize` compares only the two
  bounds of one interval with each other and with zero.
- The inputs of `load_run` (`MCLoadRun`): every set of sections runs with a
  server, a seed and a report. Sections that are refused (rate zero, no
  register limit, no services, a refused catalog), that cannot be initialised
  (negative keys, after a catalog), or that cannot run (a rate below a tenth,
  no keys), catalogs that are not sound or not stocked, all pairs of given and
  missing value sizes, a missing file, a negative seed in the file or on the
  command line, a flag given twice, an address given and then given empty, an
  empty datacenter, an unknown log level and a malformed value come one at a
  time.
  Start-up has no loop over sections that could make two of them interact
  except through the order of the seeds, and the eight sets cover that.

Deadlock checking is off in all runs because the programs end.

### Fairness

- `CatalogInit`: every goroutine that can take a step of its own does, and the
  context is done in the end, because the command gives it a deadline. Nothing
  is assumed of Consul: `AlwaysReturns` holds although it may never answer.
  `Initializer` asks for less, a return once the context is done, which is all
  that `LoadRun` assumes.
- `CatalogRun`: loops and timers run; Consul may be silent and the context need
  not end. `Winds` starts from the end of the context or a failure.
  `Generator` has weak fairness of its returns; a process that panics need not
  return, which is the second half of `KeepsContract`, here and in `LoadRun`.
- `Peering`: the program's own steps (`OwnFairness`), including the failure of
  `GenerateToken` and `Establish` once their context is done, since these take
  it. `FairSpec` also assumes that Consul answers every call but the blocking
  query, `SilentSpec` does not; the difference is the finding
  `peering_silent`. Under `FairSpec` it keeps the contract of `Generator`,
  returns included. Late writes need never happen. In `peering_two` the blocking
  queries may last forever: nothing waits for those goroutines.
- `LoadRun`: the process's goroutines run and a generator ends after its
  context (shown of the catalog by `Winds` and `AlwaysReturns`, of peering by
  `Stops` when Consul answers). `Initialize` need not end before its context
  does. Prometheus has five seconds to answer, the time-out of the query.
  Neither the deadline nor a signal need ever come. That scrapers read their
  answers (`WF` of `ScrapeEnds`) is an assumption about the outside: without it
  `Stops` fails, because the metrics server is shut down with the context that
  is cancelled only afterwards, so that an open scrape holds ctrl-C back until
  the deadline.

## 4. Findings

Each is a counterexample TLC finds. Where the table of section 5 has a theorem
about the same property, it says what would have to hold for the property to
be true, so that together they name the cause.

1. **Lost exports** (`peering_lost_export`). Workers read the one
   `exported-services` entry, append and write it back without a
   compare-and-set (`generator.go:198-240`); two clusters undo each other's
   exports, without any failure. `SerialAccumulates`: not if workers took turns
   in `exportService`.
2. **kv cannot run** (`load_run_kv`). `NewRandomB64Generator` does not set
   `rng`; the first value panics. The README's sample configuration is one.
   `PanicsHaveCauses`: apart from kv only a catalog section that is not sound or
   not stocked can bring the process down.
3. **Silent Consul** (`peering_silent`). None of the calls of a round takes
   the context of `Run`, and the client has no time-out.
4. **Failures measured as successes** (`peering_false_success`). A blocking
   query that fails, reaches its wait time or is answered because something
   else has changed at the peer closes the channel like one that saw the
   service. `SuccessIsVisible`: a success can be trusted when queries end only
   once the service is there, workers take turns and no write comes late.
5. **One seed, different data** (`seed_replay`). `load/load.go:34-37` says that
   values stay predictable across runs; the goroutines of a batch draw from one
   generator in the order they happen to be scheduled. `TurnsKeepDrawsApart`: a
   lock would keep the draws whole and distinct, but which resource gets which
   would still be the scheduler's choice, so that a lock alone is no remedy.
6. **Dropped errors** (`catalog_init_errors`). `Initialize` returns nil when
   registrations have failed. `CleanPushIsComplete`: nothing else makes it
   incomplete.

Seen in the models without a run of their own:

- ctrl-C behind an open scrape (see *Fairness*);
- the `Seed` of the file is overridden in any case, by `-seed` or by the clock
  (`WithSeed`); the flags `-stale` and `-quiet` are read by nobody;
- an update rate below 0.1 gives a burst of zero, whose error ends all
  generators (`NoBurst` in `CatalogRun`, `KVStarves` in `LoadRun`); a negative
  `NumKeys` is accepted and panics (`KVInitializePanics`), and so is a section
  without keys, which cannot run (`load/config_test.go:32-38` accepts one);
- the default of a kv section's minimal value size lifts the maximum the user
  asked for (`KVNormalized`), and makes both equal;
- `Normalize` of the catalog skips its checks when there are no nodes or no
  services, so that a negative `NumServices`, or services on nodes without a
  service name, panic (`MakeNames`, `GenerateNodePanics`); an update rate for a
  list the configuration leaves empty panics (`Pick`, `CatalogPanics`);
- a push that is cut short leaves registrations behind that Consul may still
  carry out (`Applies`), after `Initialize` and even the process have ended;
- the sample in `docs/consul_peering_load.md:15-24` names a field that does not
  exist (`UpdateRate`), leaves `RegisterLimit` zero and is refused;
- a write of `exported-services` that is carried out late undoes newer exports
  even with one cluster (`LateWrite`; `ExportsAccumulate` sets it aside);
- the command exits with 0 although `load.Run` failed (`Exit`).

## 5. Proofs

Each `*Proofs` module extends its component and shows its results for every
value of the constants, under the assumptions the component names. The argument
is an inductive invariant: it holds initially, a lemma per action (or group of
actions) keeps it, and the theorems follow from it.

| Theorem | Assumes | Why the invariant needs more than the property |
|---|---|---|
| `IPPrefixProofs`: `StaysInPrefix`, every address of a prefix and no other can be drawn | nothing: any prefix length, any number of bytes | no invariant: byte by byte, a mask leaves the block of numbers that share the fixed bits (`SameBlock`, `ByteStep`) |
| `CatalogDataProofs`: `TypeCorrect`, `ValidatedIsSafe`, `OnlyReserved` | configurations and random bytes are typed | `AcceptedOnly`: past `Normalize` the configuration is accepted, hence every interval that is drawn from is not empty |
| `CatalogLimitsProofs`: `LimitsKept`, `ListsFilled` | the same | `SidecarsChecked`, `PushedLast`; sets of instances and checks are in bijection with `Indices(k)`, whose cardinality the library gives (`Counted`), and a new node's data is disjoint from the older ones' (`NodeCounts`) |
| `CatalogInitProofs`: `TypeCorrect`, `BarrierHolds`, `NilIsComplete`, `PushKeepsContract` | the batches are disjoint | `PhaseInv`: the phase tells which batches are settled and which untouched; `ChecksDrawNothing`, so that a check goes straight from its start to its request |
| `CatalogInitProofs`: `PushIsQuiet`, `NothingLostButFailures`, `CleanPushIsComplete` | the same | `AcceptedIsThere`: what was answered with success is in Consul, in every state and not only at the end, so that what is carried out after the return has failed |
| `CatalogInitProofs`: `TurnsKeepDrawsApart` | the same | `DrawInv`: a generator is ahead of all it has given out, and whole between two draws |
| `CatalogRunProofs`: `TypeCorrect`, `FaultsCancel`, `LoopsGoOn`, `ContractKept`, `FullListsNeverPanic`, `BurstsNeverFail` | bursts and lengths are numbers | `ReturnedLast`: a result exists only when no loop runs |
| `PeeringProofs`: `TypeCorrect`, `ChannelsApart`, `WakeUpKept` | some name; numbers are numbers | `RoundsBehind`, `OnePerRound`, `WaitsForRound` tie a waiting goroutine to its round; `NotMissed` says from the read of the entry on that a new export is still to be seen or was seen after the index was read, late writes included; `IndexBehind`: no index at a peer is ahead of its catalog's, so that a service that becomes visible moves past every index read before |
| `PeeringProofs`: `PeeringKeepsContract` | the same | types: where a worker may be in each stage of `Run` |
| `PeeringProofs`: `SerialAccumulates` | the same | `GotCurrent`: what a worker has read is current until it writes, as long as no other worker and no late write exists; `NothingLeaves`: then nothing goes from the entry or from a peer |
| `PeeringProofs`: `SuccessIsVisible` | the same | `ClosedShows`: a closed channel belongs to a visible service |
| `PeeringProofs`: `LeftOutForGood` | the same | `RoundsFirst`: an export anywhere, in the entry, in a copy a worker has read or in a late write, comes from a round, and rounds from a worker |
| `LoadRunProofs`: `TypeCorrect`, `SeedsPlaced`, `LastFlagUsed`, `Normalizes`, `ReadyFirst`, `WaitsForAll`, `PipesIgnored` | inputs are typed, bounds are numbers | start-up (`StartUpProofs`): `DrawsInStep` ties the draws to the kinds come by, `FlagsInv` says that what was parsed and what is left make up the command line and that each flag holds its last use so far. `LoadInv`: nothing runs before all is initialised, and only in a panic is it left behind. `AroundInv`: an interrupt in the queue, a stopping handler or a closed server has a cause |
| `LoadRunProofs`: `RunKeepsContract`, `PanicsHaveCauses` | the same | `Caused`: where an error of the group or of `load.Run` that is not a failure comes from, and that a group exists only for the generators that were made, which have a section each; `Blamed`: a panic ends the process, and the configuration stays the one that is to blame |

`PushKeepsContract`, `ContractKept`, `PeeringKeepsContract` and
`RunKeepsContract` are the safety halves of the four `KeepsContract`: every step
of the module is a step of the contract or a stutter. With these every invariant
and every action property of the passing runs is proved.

Four theorems have a hypothesis about the behaviour, because what they conclude
is false of the code without it, as section 4 and the runs show:
`SerialAccumulates` (`OneAtATime`, no two workers at the write at once),
`SuccessIsVisible` (also no late write and no query that ends while its service
is missing), `CleanPushIsComplete` (no failed call), `TurnsKeepDrawsApart`
(`OneDrawAtATime`). Behaviours of the code satisfy all of these. Two more
restrict the inputs: `FullListsNeverPanic` (no empty list; `ListsFilled` says
which configurations have none) and `BurstsNeverFail` (no rate below a tenth).

Left to TLC: everything under fairness (`AlwaysReturns`, `Winds`, `Stops`,
`LeftOut`, `FailureStopsAll`, the second halves of the four `KeepsContract`),
because it rests on ENABLED; and the findings, which are counterexamples.

## 6. Plan

Done, in this order: catalog push, catalog updates with the abstract
`Generator`, peering, the process, the catalog's data and configuration;
then addresses, start-up with flags, configuration and seeds, the whole process
around it, kv, late writes, the replay of a seed, and proofs of all of these;
then the contracts of `Initialize`, of `load.Run` and of peering, registrations
that Consul carries out late, the index a blocking query really waits on, the
panics of a catalog section, and what each finding needs in order not to happen.

Next, to prove: that two pushes with one seed draw the same data when their
goroutines take the same turns, which is the other half of
`TurnsKeepDrawsApart`.

## 7. Not modelled

- Dispatch to the one command and the layout of its help text (`main.go`,
  `usage.go`): no state, nothing concurrent.
- `sendKey` of kv: every update panics before it could be called. Its puts in
  goroutines that nobody waits for, and `IntN(max-min)` for equal sizes, become
  reachable only when `rng` is set.
- The accessors of single HTTP flags, which nothing calls, and TLS set-up beyond
  its failure.
- The text of logs, metadata, petnames, UUIDs and Prometheus queries; bucket
  counts of the histogram.
- Time, except for what can and cannot have expired. One consequence: the
  report of a run shorter than half a second asks for a rate over `0s`, whose
  refusal is an ordinary `QueryFails` here.
- The odds of repeated node names. A refused registration is in the model, for
  whatever reason.
- Go's unspecified behaviour in a data race is reduced to interleavings of the
  loads and stores of two words.
