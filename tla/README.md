# TLA+ models of siso-ng

This directory holds TLA+ models of siso-ng (the Go sources under `src/`) and the
TLC configurations that check them. `PROJECT.json` is the machine-readable index:
every component with its status, every run, the mutant that each checked
property must catch, the source lines each definition translates, the findings
and the hazards.

Check a run with, for example:

    cd tla
    tlc -workers 2 -config MC_Process.cfg MC_Process

## The system and its parts

siso is a build tool. It reads a ninja build graph and runs each step locally or
remotely through the Remote Execution API (REAPI). The parts that have a
protocol, a concurrency structure or a decision worth checking are:

* **Step scheduling.** `Prioritized` in `src/sync/semaphore` is a weighted
  priority semaphore: a mutex, a heap of waiting requests, and an unbuffered
  hand-off channel per request.
* **The REAPI client.** `retry.Do` with exponential backoff wraps every call.
  Blobs are streamed with the ByteStream adapters (`src/reapi/bytestreamio`).
  The client's setup (`reapi.New`, `NewFromConn`) dials, negotiates versions and
  picks a blob compressor. `siso proxy` relays REAPI streams to an upstream.
* **Credentials.** The credential helper's per-endpoint cache
  (`part_006`), the luci-auth token source with its scope fallback
  (`part_009`), and the choice of helper made by `sisoMain` and `cred.New`
  (`main.go`, `part_007`, `part_008`, `subcmd/auth`).
* **Process-level subcommands.** `fs flush`, `isolate` (uploads under an
  errgroup, an interrupt handler and a spinner), the query subcommands, the
  metrics export, `metrics cmp`, `report`, `ps` and `version`.
* **The entry point.** `sisoMain` sets up the profilers the flags ask for
  and the terminal UI, each with a deferred call, and runs the subcommand.
* **Filesystem and flag parsing.** The io/fs view of HashFS with its symlink
  resolution, and the gcc/msvc argument parsers that scandeps uses.

How they interact: a build step takes a semaphore slot, then either runs locally
or calls REAPI under `retry.Do`; the REAPI calls carry the cached credentials;
results go through HashFS, which `fs flush` later writes back to disk. An
interrupt cancels the context every one of these watches. Every subcommand
runs inside `sisoMain`, whose deferred calls unwind when it returns or panics.

## Modules

Each component module has the component's state as VARIABLES, an `Init`, one
action per operation or step of the Go code (with its guard from the code's
conditions and early returns), `Next`, `Spec`, a `TypeOK` and the component's
own properties. MC modules instantiate them with small constants.

| module | models (source) |
|---|---|
| `PrioritySemaphore` | `WaitAcquire`, `privateRelease`, `Do` and `container/heap` over the repository's `Less`/`Swap` |
| `PrioritySemaphoreAbstract` | the promise of spec 4.4: at most Capacity holders, a release grants a heaviest waiter or frees the slot |
| `Retry` | one `retry.Do`: `Next`'s classification, the auth retry once, the retry limit, the jittered backoff and the select on timer or ctx.Done |
| `ByteStreamWriter`, `ByteStreamReader` | the Writer's chunk loop, Close's FinishWrite and CloseAndRecv; the Reader's Open and Read over server chunks of any size |
| `CredHelper` | `credHelper.get`: endpoint normalisation, cache entry under `h.mu`, the entry mutex held across the helper run, expiry and refresh |
| `LuciAuthToken` | `luciAuthTokenSource.Token` with `flags()` and `fallback()`, its callers serialized by the `oauth2.ReuseTokenSource` that `cred.New` wraps it in |
| `Cred` | `DefaultCredentialHelper` (the stat goroutines, the 3-slot channel, three timeouts), the env var and flag override, `AuthOpts`, `Login`, `cred.New` with its token source, and `siso login`, `logout` and `auth-check` |
| `ReapiClient` | `UpdateProjectID`, `CheckValid`, `NeedCred`, `New`/`newConn` (insecure, TLS, mTLS for two connections) and `NewFromConn` (capabilities, compressor, versions) |
| `Proxy` | `siso proxy`: setup, and the Execute, Read and Write relays |
| `Flush` | `fs flush`: the name loop with directory expansion, `flushEntry`'s mtime check, symlinks, `flushFile`'s outcomes |
| `Interrupt`, `Spinner`, `Isolate` | `signals.HandleInterrupt`, the termui spinner, and `isolate` composing them with the errgroup of uploads |
| `Monitoring` | `SetupViews` (with Go's slice growth) and the exporters appending to `staticMetricLabels` |
| `Query` | `query digraph`, `commands` and `targets` as RECURSIVE walks, checked against reachability from the Graphs module, and `query rule` |
| `SisoMain` | `sisoMain`: the profiler setup with its `log.Fatalf` exits, the deferred writers, closers, pprof wait, `ui.Restore` and panic handler, unwound last-in first-out |
| `QueryDeps` | `query deps`: target selection and `lookupDeps` |
| `HashFSView` | every `FileSystem` method of the io/fs view with symlink resolution, checked against a kernel-like reference resolver |
| `ScanDepsArgs` | both `ExtractScanDepsParams` loops with @rspfile insertion (`MC_ScanDepsArgs` gives its inputs, for its own run and for `MC_Process`, which extends it) |
| `MetricsCmp` | `metrics cmp`: load, `indexMap`, `join`, `outputDiff`, printing |
| `Report` | `siso report`: `collect`, `collectInDir` and `archive` with its deferred closes |
| `PsCommand` | `siso ps`: `Execute`'s terminal defaults, the fetch/render/wait loop, `render`'s line limit and `localSource.fetch`'s outcomes |
| `Version` | `siso version`: `Execute`, with each CIPD, DEPS and gitiles fetch abstracted to its outcome |

### Data abstraction

Paths, blobs, endpoints and output names are model values or short strings from
small sets. gRPC errors are their codes. Durations are small integers. Every
I/O call (stat, read, write, dial, HTTP fetch, digest) is a nondeterministic
choice over the outcomes the code distinguishes, so every error branch is
explored. Sorting (`sort.Strings`) is a `SelectSeq` over a constant listing the
names in their sort order.

### Composition into unions

The client pieces share no state, and neither do the process-level pieces. So
`MC_Client`, `MC_Process` and `MC_Safety` explore their *union* rather than
their product. A
variable `part`, chosen in `Init`, says which component a behaviour runs. Every
other component is pinned to one fixed initial state, and each `Next` disjunct
is `part = X /\ X!Next /\ UNCHANGED <other components>`. The pins come before
the instances' `Init` conjuncts so that TLC does not enumerate the other
components' choices. A property of component X is read in every state and
holds trivially in the others.

`MC_Process` holds the parts with liveness properties, whose checking (and
whose mutant runs) must explore the whole union's state graph, plus small
safety-only parts. The large safety-only parts, `siso query` and `siso metrics
cmp`, are in `MC_Safety` with the semaphore's five-goroutine safety run. There
TLC uses symmetry over the goroutines; it stays sound for the union because
the query and cmp values contain no goroutine, so a permutation maps each of
their states to itself.

## Runs

| run | module / cfg | checks | result |
|---|---|---|---|
| safety | MC_Safety.cfg | TypeOK, SlotAccounting, NoLostWakeup, IndexConsistent, GrantToHighestWaiter and RefinesAbstract of PrioritySemaphore (five goroutines, symmetry); DigraphComplete, CommandsInBuildOrder and TargetsListed of Query; JoinPairsEveryOutput of MetricsCmp | pass |
| ps_fifo | MC_PrioritySemaphore_fifo.cfg | FifoAmongEqualWeights | violation |
| client | MC_Client.cfg | TypeOK and 12 properties of Retry, the ByteStream adapters, CredHelper, LuciAuthToken, Proxy, ReapiClient, Cred and SisoMain | pass |
| bs_dedup | MC_ByteStreamWriter_dedup.cfg | DedupedUploadSucceeds | violation |
| process | MC_Process.cfg | TypeOK and 15 properties of Flush, Isolate (with Interrupt and Spinner), HashFSView, ScanDepsArgs, Report, Version, PsCommand and PrioritySemaphore (liveness, three goroutines); Monitoring and QueryDeps for their type invariants | pass |
| flush_newer | MC_Flush_newer.cfg | NeverOverwritesNewerDisk | violation |
| flush_symlink | MC_Flush_symlink.cfg | SymlinkFlushed | violation |
| monitoring_race | MC_Monitoring_race.cfg | ActionLabelledWithOwnStatus | violation |
| query_depth | MC_Query_depth.cfg | TargetsWithinDepth | violation |
| reapi_compression | MC_ReapiClient_compression.cfg | BlobCompressionOffUnderGrpc | violation |
| scandeps_loop | MC_ScanDepsArgs.cfg | ParseReturns | violation |
| reapi_cas_leak | MC_ReapiClient_leak.cfg | ConnectionsReleased | violation |

What the passing runs show, in short:

* **Semaphore.** Slots are accounted exactly. No waiter is stranded while a
  slot is free. The heap index stays consistent through Push, Pop and Remove. A
  release grants the heaviest waiter. The implementation refines
  `PrioritySemaphoreAbstract` (`RefinesAbstract` is the abstract `Spec` under
  the refinement mapping: holders are goroutines that hold or are being sent a
  slot, waiting are queued requests still Waiting). Under fairness every
  `WaitAcquire` returns and all slots drain.
* **Client.** `retry.Do` always returns. Two concurrent uploads of one blob report success only for a
  stored blob and track the server's offset. A download returns the blob in
  order. Helper runs are serialized per endpoint and return unexpired
  credentials. luci-auth calls, which `oauth2.ReuseTokenSource` serializes,
  all return. The proxy relays one to one
  and reports a write ok only once committed. `cred.New` wraps only a live token source in OAuth. However
  `sisoMain` ends (a return, a panic reported by its handler, or `log.Fatalf`
  at setup or in a deferred call), the terminal is restored once `ui.Init`
  ran, and a go trace is stopped before its file is closed.
* **Process.** flush restores exactly the requested files and touches no other;
  a failed `flushFile` may leave a partial file, since its `os.Remove`
  errors are ignored, and the model lets it. isolate succeeds only with every target's digest, always ends, and its spinner prints nothing after Stop's last line.
  The HashFS view resolves symlinks like the reference resolver
  over every small tree of chained, cyclic, escaping and dangling links.
  The argument parsers read response files as if expanded in place,
  for every set of response files that does not include itself.
  `siso version` exits 0 whatever its informational lookups return: a
  `commit.String` panic is recovered by `fmt` and printed.
  `siso report` succeeds only when every collected file was packed in sorted
  order and the report file was shown. A pack or flush error is not masked by
  the deferred closes. The priority semaphore's liveness (every `WaitAcquire`
  returns, all slots drain) is checked here too, as part `"ps"`. `siso ps`
  (part `"pscmd"`) returns after the first interrupt, whatever its loop is
  doing: a fetch in flight fails on the canceled context and the select takes
  `ctx.Done`.
* **Safety union.** Beside the semaphore's safety, the query walks print
  exactly the reachable nodes, commands and targets of every 4-node build
  graph; `query rule` runs over the same graphs for its type invariant only.
  `metrics cmp` pairs every output of either file once, sorted, with its last
  metric in each.

Every property of a passing run has a mutant in `PROJECT.json`: a plausible bug
in the mapped code (a dropped guard, an off-by-one, a missing reset, a swapped
order) under which TLC finds that property violated with the run's own cfg.

### Bounds, and why they are enough

* **Semaphore:** five goroutines (two cancelable, with symmetry within each
  group) with weights 1 and 2 on one slot give four
  queued requests. That covers every heap shape up to a node with two children,
  a cancel racing a grant, and a canceled root discarded by the pop loop. A
  larger capacity only adds immediate grants, which are accounted the same way.
* **Retry:** `CallBound` 13 lets the loop reach the "too many retries" exit.
* **ByteStream:** two uploads of a 3-byte blob in 2-byte chunks, so one can
  dedup the other mid-stream, with write buffers of 1 and 3 bytes. Downloads use
  server chunks of 0, 1 and 4 bytes against read buffers of 1 and 3 bytes, so a
  chunk is empty, smaller or larger than the buffer.
* **Credentials:** two goroutines, and two googleapis.com endpoints that share
  the wildcard cache entry plus one endpoint with its own. There are three
  luci-auth callers, so a caller after the fallback reads the flags it set.
* **scandeps:** commands of up to three arguments over every token kind and
  two response files that may include each other. `MaxInserts` 7 is one more
  than the six insertions any set of them that does not include itself needs,
  so reaching it means the code would insert for ever.
* **Retry:** one error code of each class `Next` tells apart, and jitters near
  0, at 1/2 and near 1.
* **Query:** every acyclic graph on four nodes, which includes diamonds and a
  node reachable at two depths.
* **HashFS:** three symlink slots with every kind of target.
* **metrics cmp:** files of up to three metrics of two outputs, so an output
  repeats within a file and is missing from the other.
* **report:** a file, a `.redirected` file, a directory and a dangling symlink
  among the matches, or only the dangling one.
* **ps:** `-n` of 0, 1 and 5, terminal heights 3 and 6, fetches of up to three
  active steps, every interval sign, on a terminal or not. That reaches the
  terminal defaults, a limit below, at and above the two heading lines, and an
  interrupt in each of the start, fetch and wait states.
* **sisoMain:** every subset of the seven flags that add setup steps, rates
  and fractions of -1, 0 and 2, and every outcome of each `os.Create`,
  `trace.Start` and trace-file `Close`, with a subcommand that returns or
  panics. That covers a `log.Fatalf` at each setup step and in the deferred
  close, with and without the terminal initialised.
* **version:** the three known repositories and an unknown one.

### Fairness

* **Semaphore:** each goroutine is weakly fair, since the Go runtime eventually
  runs a runnable goroutine. Cancellation is an environment choice and is not
  fair. The liveness properties are checked in the `process` union (part
  `"ps"`, three goroutines of weight 1, one slot, every one cancelable),
  without symmetry, which is unsound with liveness.
* **Retry:** the call `f` and the timer eventually return (`WF` on the outcome
  and on the select).
* **luci-auth:** each caller's steps are weakly fair, and the
  `ReuseTokenSource` mutex, modelled as the `Lock` step, is free whenever no
  caller is inside `Token`. The `luci-auth` process itself always exits.
* **isolate:** the main goroutine, each upload, the interrupt handler and the
  spinner goroutine are weakly fair. Signals are not.
* **ps:** the main goroutine is weakly fair: a fetch returns (the HTTP client
  fails a request on a canceled context) and `time.After` fires. The
  interrupt is the user's and is not fair.

No other component has a liveness property. Their runs check only safety.

## Findings

Each finding is a violation run that TLC reproduces:

1. **ps_fifo.** `Prioritized` does not serve equal weights FIFO, although spec
   4.4 and 8 say it does: `container/heap` is not stable.
2. **bs_dedup.** When a concurrent upload stores the blob, the server may end
   this stream after the last data chunk. The FinishWrite `Send` then returns
   `io.EOF`, and `Close` fails for a blob that is in the CAS.
3. **flush_newer.** Without `-f`, flush overwrites a disk file *newer* than the
   state and refuses an older one, the opposite of its comments.
4. **flush_symlink.** A symlink entry over an existing file is not created (EEXIST
   is only printed), yet flush succeeds.
5. **monitoring_race.** With 7 to 10 metric label pairs, concurrent
   `ExportActionMetrics` calls append into one backing array. A record can
   carry the other call's status.
6. **query_depth.** `query targets -depth 3` omits a target three levels down
   when the walk first reaches its parent at the depth limit.
7. **reapi_compression.** `-reapi_enable_grpc_compression` does not disable
   blob compression: `newConn` clears it on a by-value copy of the options.
8. **scandeps_loop.** `ExtractScanDepsParams` (gccutil, and msvcutil)
   inserts an `@rspfile`'s arguments with `slices.Insert` and no visited set or
   depth limit, and reads an exact flag's value after `i++` without a bounds
   check. A response file ending in `-I` makes it panic with index out of
   range; two response files that include each other make it insert for ever.
   clang, which the code's comment points to, reports both as errors.
9. **reapi_cas_leak.** With a separate CAS address `New` dials two
   connections. `Close` (reapi.go line 504), documented as "Close closes the
   client", and `NewFromConn`'s failure path (line 457) close only `conn`: the
   CAS connection stays open.

Disagreements found while modelling that no run checks:

* **`siso logout` calls `Login`.** `logout.go` line 46 runs `authOpts.Login`,
  the same as `siso login`. `Cred`'s `LogoutCmd` models it as the code does.
* **The empty `-credential_helper`.** Its help says `""` uses ADC, but
  `cred.New` rejects an empty type.
* **`metrics cmp --format diff`.** For an output only in input_b, `outputDiff`
  takes the action and output from input_a's zero metric. The line has an empty
  name and negative durations. `MetricsCmp.OutputDiff` models it.
* **`report` leaves files behind on failure.** `archive` prints "report file"
  before `tw.Flush` and the deferred closes. A close error makes the command
  fail after naming the file, and the temporary file is never removed on any
  error path.
* **`siso ps -n` counts the headings.** The flag says "limit number of steps",
  but `render` stops when all lines, the two headings included, reach `-n`:
  `-n 5` shows three steps and any `-n` of 1 or 2 shows one. The render after
  `io.EOF` has no headings, so there `-n` counts steps. `PsCommand.RenderCount`
  models it as the code does.

* **A failing profile `os.Create` loses the CPU profile.** The comment says
  "Save a CPU profile to disk on exit", but if `-memprofile`, `-mutexprofile`,
  `-blockprofile` or `-trace` cannot be created, `log.Fatalf` exits before the
  deferred `StopCPUProfile` runs (main.go lines 188-231). `SisoMain` models
  the exit as the code does.

## Not modelled

* **HashFS core, scandeps' include scanner and merkletree.** Only their tests
  are under `src/`.
* **The action cache lookup and run strategy (`build/cache.go`,
  `build/run_cmd.go`).** `GetActionResult` sets the result on the command
  before it fetches stdout and stderr. Nothing under `src/` calls it, though.
  `run_cmd.go` is a fragment of the Builder, whose scheduler is not under
  `src/`.
* **`PathTable` (scandeps/path_table_test.go).** It is documented as
  thread-safe but takes no lock. Nothing under `src/` calls it, so no
  interleaving of its callers exists to model.
* **The rest of `sisoMain` (main.go).** The usage text and the subcommand
  registration have no control of interest. What `ui.Init` and `ui.Restore` do
  to the terminal is in the `ui` package, which is not under `src/`, so
  `SisoMain` records only whether they ran.
* **`monitoring.SetupViews` called concurrently.** It tests its labels before
  taking `mu`, but nothing under `src/` calls it. `Monitoring` models
  sequential calls.
* **ninja quiet mode (`quiet.go`).** It is a no-op UI plus integration tests.
* **I/O and rendering.** gRPC and TLS internals, HTTP status pages, `statusz`, the webui server, `fs export`/`import`, TermUI
  printing render or copy data. None of them has a
  concurrent step or a decision that a property could tell apart.
* **`metrics summary`.** Its source is not under `src/`.
