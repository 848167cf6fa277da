# A TLA+ model of memaudit

memaudit measures idle memory on Linux hosts. `memauditd` collects samples,
keeps them in a spool on disk and ships them to an ingest endpoint;
`memaudit-synth` checks the DAMON measurement against memory it keeps hot or
cold itself. This directory models the parts of it that keep state, run
concurrently or must survive failures, checks them with TLC on small instances,
and proves the most important properties with TLAPS for all values of the
constants.

## The system

| part | state | operations | interacts with |
|---|---|---|---|
| spool (`internal/spool`) | `active.jsonl`, `<ulid>.jsonl.zst`, `.tmp`; `*Spool`: descriptor, size, start | `Open`, `Write`, `rotate`, `enforceCap`, `writeWarning`, `Close`, `Segments` | called by the sources under `writeMu`; shares the directory with the shipper, without a lock |
| shipper (`internal/ship`) | backoff, listing, segment in flight | `Run`, `shipWithRetry`, `ship` | lists and unlinks the spool's segments; POSTs to the endpoint |
| agent (`internal/agent`) | one goroutine per source, a ship goroutine, `writeMu`, a `WaitGroup` | `Run`, `runSource`, `runShipper`, shutdown | calls spool and shipper |
| DAMON session (`pkg/damon`, `damonSource`) | the one kdamond slot, in the kernel | `Start`, `Snapshot`, `Stop` | shared by memauditd and memaudit-synth |
| memaudit-synth | mapped region, hot-touch goroutine, band | `run` | DAMON slot |
| damon_hist collector | none | `bucketRegions` | a DAMON snapshot |
| cgroup collector | the walk | `Collect`, `walk`, `readCgroup`, `enrich` | cgroupfs, which changes under it; kubelet client |
| kubelet client (`internal/k8s`) | pod list and its age | `LookupPod`, `refreshIfStale`, `fetchPods` | the kubelet |
| host collectors (`meminfo`, `vmstat`, `psi`, `numa`, `hugepages`) | none | `Collect` | procfs and sysfs, which change under them |
| gpu and vllm collectors | the metrics already warned about | `GPU.Collect`, `VLLM.Collect`, `buildRecord`, `warnUnmatchedOnce` | nvidia-smi; inference servers |
| sources (`internal/agent/sources.go`) | the list of sources | `buildSources`, `single`, `multi`, `envelopes` | collectors; the spool, through the agent |
| selftest | none | `Run`, `Failed` | the same host as the collectors |
| config, pprof, `vllm-dump`, deploy | none | decoding, debugging, printing | not modelled |

What is hard here: the spool and the shipper work on the same files with no
lock; a rotation is eight system calls, each of which may fail, and a crash may
come between any two; an answer of the endpoint may be lost after it took the
batch; shutdown has to stop everyone, flush, and still end when the endpoint
hangs; two programs share one kernel slot through files; cgroups, pods, nodes,
page sizes and devices come and go while they are read; the clock that dates
segments may be set back.  `PROJECT.json` lists these hazards, each at its
line and with the properties that cover it.

What makes each part correct:

* spool: no line is lost, what is listed is complete, the cap holds, the oldest
  goes first, its own account of what it dropped is exact;
* shipper: a segment is removed only when the endpoint has it, batch ids are
  unambiguous, order is kept, cancellation works;
* agent: end to end nothing is lost, the spool has one caller at a time, the
  exit status is true, shutdown ends;
* DAMON: measurements are made with one's own configuration, the slot is given
  back and recovered after a kill;
* histogram and verdict: every byte counted as it should be, no wrap-around;
* cgroup walk and kubelet client: no selected cgroup is missed, answers are as
  fresh as the TTL promises, failures of enrichment cost nothing else;
* the other collectors: what stays is reported once, under its own name and with
  all of its fields, a tick is lost only for a cause, and every tick ends;
* selftest: it tells what the collectors will do.

## Modules

* `SpoolDir` - the directory that spool and shipper share: for each ULID the
  file's name (none, `.tmp`, final, or unlinked and by whom), its lines, whether
  its zstd stream is complete, its size; and the system calls that may fail.
  The n-th ULID drawn is n; its name sorts by what the clock said then (`Date`,
  any function), and for equal times by n. `Behind` are the ULIDs dated before
  an earlier one, by a clock that was set back.
* `Spool` - `internal/spool`. `pc` is the system call that the call in progress
  is at: `Append`; `Seal`, `Create`, `Compress`, `Publish`, `Reopen` (rotate);
  `CapList`, `CapStat`, `CapCompare`, `CapRemove`, `CapWarn` (enforceCap);
  `BeginClose`, `CloseFile`. `cont` is whom rotate returns to. `Crash` ends the
  process at any step; `Open` starts the next one. Whether a rotation is due to
  age is up to the clock, so `BeginWrite` may choose it whenever the active file
  is not empty. `ShipperRemoves` is the shipper as the spool alone sees it.
* `LineStore` - the abstract specification: lines are held until they are
  released. `Spool!RefinesLineStore` maps it to the union of the active file and
  the published segments.
* `Delivery` - the abstract specification of the whole: a line that was taken is
  on disk, with the endpoint, or given up. `Agent!RefinesDelivery` maps `held` to
  the lines in the active file and the segments, `delivered` to what the endpoint
  accepted, `dropped` to evicted and refused segments.
* `Shipper` - `internal/ship`. `shp` is the step of `Run`; the endpoint is a set
  of accepted batches that may answer 2xx, 4xx, 5xx or not at all, and may have
  taken the batch when the answer is lost.
* `Agent` - `internal/agent`: composes `Spool` and `Shipper` (their actions are
  taken as they are) with the sources, the ship goroutine and `Run`, from the
  set-up in `cmd/memauditd` (after the spool is open, when a step may still fail
  and a signal may already come) to the exit status.
* `Damon` - the kdamond slot with memauditd's source and memaudit-synth as its
  users, including the mapped region and the goroutine that touches it.
* `DamonHist`, `Histogram` - `bucketRegions`; `Synth` - memaudit-synth's checks,
  band and verdict over histograms made by `DamonHist`.
* `Kubelet` - the kubelet client; `CgroupWalk` - the walk, composed with it: the
  walk reads the files of a cgroup one at a time, calls `LookupPod`, waits for
  the fetch, and goes on with the answer. A cgroup may lack files: those of the
  memory controller when its parent does not hand it down (`delegates`), and
  those its kernel does not have. Any stat, listing or read may fail.
* `Collect` - the host collectors, a system call at a time. The host is the set
  of paths that exist; `Churn` changes it between any two calls. A
  record is the path it is about and the paths its values were read from: what
  is missing from these reads as zero. `Scrape` - nvidia-smi and the inference
  servers, which may fail, hang or be killed. `Sources` - a tick from
  `buildSources` to the envelopes, over `Collect`, `Scrape` and the histogram,
  and the selftest on the same host.
* `MC*` - instances for TLC.
* The proofs: `SpoolProofs` (what the spool keeps) and `SpoolAccounts`, which
  extends it (what it leaves behind and says about it); `ShipperProofs`;
  `AgentProofs`, which extends these three; `DamonProofs`; `CgroupProofs` (with
  the kubelet client); `SourcesProofs` (collectors, histogram, selftest);
  `SynthProofs`.

Definitions whose comment begins with "Mutation" are plausible bugs: each takes
the place of the definition that follows it to show that a property would
notice.

## Runs that pass

| run | what it shows | bounds |
|---|---|---|
| `spool_faults` | `NoLoss`, `OneLinePerShortWrite`, `WholeSegments`, `NoLeftovers` (`OneTmp` and `SinglePlace`), `WarningsExact`, `CloseFlushesEnvelopes`, and `RefinesLineStore`, with any one call failing | 3 envelopes, 5 ULIDs, 2 processes, 1 failure; rotation at 2 lines and cap of 2 segments, so that size rotation, age rotation and eviction all happen, also in the second process; the clock set back at the third ULID, which sorts first |
| `spool_cap` | `CapEnforced`, `EvictsOldest`, `CallsReturn` | segments of size 1 or 3 under a cap of 3: one listing may evict none, one or several; the third ULID sorts between the first and the second |
| `shipper` | `ShippedIsIngested`, `ShipsInOrder`, `RunReturnsOnCancel`, `EverySegmentGoes` | 3 segments, the third of a clock set back to between the other two, 2 failures; backoff 2, 4, 5: doubling and the ceiling both happen |
| `agent` | `NothingLost`, `IngestSound` (with `BatchIdsStable`), `OneSpoolCaller`, `EvictsOnlyOverCap`, `RefinesDelivery` | 2 sources, 2 ticks of up to 2 envelopes, 2 processes, each in push or in bundle mode; a cap of 1 segment, so that evictions race the shipper; the second ULID sorts first |
| `agent_shutdown` | `ShutdownEnds`, and `ExitStatusTrue` with a failing spool | 2 sources, 2 ticks, 1 process, both modes; one failing open (Run does not start), append (a Write fails) or rename (a rotation fails half-way, and Close after it) |
| `damon` | `SlotReleased`, `TouchesMapped`; `OwnMeasurement` and `RestartRecovers` as long as the two programs never ran at once | 3 starts, 2 failures, 2 configuration writes (two suffice for a mixed configuration) |
| `sources` | `StableReported`, `ValuesAttributed`, `LossHasCause`, `WarnedOnce`, `SelftestTells`, `HistConsistent`, `HistExact`, `TickEnds` | 2 nodes, 2 page sizes, 2 devices with a process, 2 endpoints with 2 metrics, on 5 kinds of host; 2 ticks or selftests (the second sees what the first left: warnings, a selftest's report); 2 comings or goings, so that a directory or an endpoint may go and come back during one tick; 1 failing, hanging or non-finite answer; for the histogram every sequence of regions in 5 bytes, ages around both thresholds |
| `synth` | `PreflightSafe`, `VerdictRight` (`TruePasses` and `BrokenFails`) | 4-bit sizes: every number and one of two suffixes for `--alloc` and `--hot`, so that products and sums can wrap, and every machine up to 8 units |
| `cgroup_walk` | `StableSampled`, `SampledOnce`, `LostOnlyToCgroupfs`, `RecordsTellFiles`, and `AnswerFresh` of the kubelet client | every tree of at most four cgroups of two names and three levels, one of the names a pod's; two files, one of them of the memory controller, which some cgroups have at first and others not; 5 lists of globs; one creation, removal, or change of who has the controller, at any step; any listing or read failing; depth cap 2 and limit 3, so that both are hit; TTL 1, fetches that take up to 1, clock to 2, so that the cache expires during the walk |

A clock that is set back costs what it must and no more: `EvictsOldest`,
`ShipsInOrder` and `EvictsOnlyOverCap` except the segments it dated (each is
violated without the exception), everything else holds of these too. The last
needs it because the shipper may find such a segment only after the older ones
it has already listed.

`RecordsTellFiles` is as much as the cgroup collector gives. A missing file reads
as zero or nil: that is right for a cgroup without the memory controller (the
record of `ssh.service` in the test data), and it is also what a cgroup that
goes between the listing and the reading yields. The two cannot be told apart
in the record; what is excluded is that zeros stand for a file that was there
all the time, or that a failed read passes for a missing file. `LossHasCause` lists what a tick may be lost to; among it is a
single non-finite metric, which drops all envelopes of its tick.

The type invariants `SpoolTypeOK`, `ShipTypeOK` and `AgentTypeOK` are in no run:
they are proved.

Deadlock is checked where the system never stops by itself (the shipper). The
other instances come to an end when their bounds, or the program,
do.

## Runs that show a disagreement

Each checks one sentence of the repository that the code does not keep; the
findings in `PROJECT.json` quote it.

* `spool_bad_tick` - a rotation that fails after closing the active file leaves
  a spool that accepts nothing until a restart.
* `shipper_bad_url` - errors before the request is sent never look at the
  context: `Run` spins and does not return.
* `agent_misreport` - a shipped segment can still be reported as evicted.

Other sentences that the code does not keep to the letter, seen while modelling;
the models have the steps, no run is spent on them:

* "Close flushes any pending data to a segment" (`spool.go`): the rotation in
  `Close` may evict, and the warning stays in `active.jsonl` until the next
  start. `CloseFlushesEnvelopes` says what does hold.
* "Write appends e as one JSON line" (`spool.go`): after a short write the next
  line is appended to the torn one (`glued`), and neither can be decoded.
  `NoLoss` is stated of the other lines, and `OneLinePerShortWrite` says that
  there is no more than one such line for each short write.
* "memaudit-synth checks for and refuses to steal a slot already in use"
  (`README.md`): the check and the taking are far apart. `OwnMeasurement` is
  stated of programs that never ran at once.
* "CacheTTL bounds how often the full pod list is refetched" (`kubelet.go`): a
  failed fetch leaves `cachedAt` alone, so that every lookup fetches again while
  the kubelet fails.
* "most-shallow first" and "only descends into a child when there's still a glob
  that child's path could grow into a match for" (`cgroup.go`): the walk is
  depth first, and reads one level below a cgroup that matches a glob to its
  last segment.

## Fairness

* A call in progress goes on (`WF` of `SpoolStep`, `ShipStep`): a goroutine that
  is not blocked is run by the Go scheduler.
* A POST may take forever (the client has no timeout), but not once its context
  is cancelled: `WF` only of `ctxDone /\ ShipPost`.
* Where a `select` has two ready branches Go chooses at random, and a contended
  `sync.Mutex` is handed over in the end: `SF` for taking the branch on
  `ctx.Done` (`ShipAbort`, `Stop`, `DrainStop`) and for the lock.
* The shutdown timer fires (`WF` of `DrainTimeout`).
* The agent's ticker calls the shipper again (`WF` of `CallRun \/ RunDone`).
* A tick goes on (`WF` of `TickStep`): reads of procfs return, and nvidia-smi and
  the endpoints are under a timeout, so that a hanging peer is a failing one in
  the end. This takes for granted that nvidia-smi exits once it is killed.
* None for ticks, signals, deaths, restarts or failures, and none for the
  endpoint. `EverySegmentGoes` states what it needs as its premise: from some
  time on nobody cancels, and the endpoint accepts now and then. It is not
  enough that it accepts other segments: one that only ever gets 5xx blocks
  those behind it, since its retries have no limit.

## What is proved

`SpoolProofs`, for every number of envelopes, ULIDs, failures and processes, any
sizes, rotation threshold and cap (assumptions: `SpoolDirAssumption`,
`SpoolAssumption`, which only give the constants their types):

* `TypeCorrect`: `SpoolSpec => []SpoolTypeOK`.
* `NothingIsLost`: `SpoolSpec => []NoLoss`, and `SegmentsAreWhole`: `SpoolSpec
  => []WholeSegments`. Both follow from `LossInv`. `NoLoss` is not inductive:
  `Reopen` truncates the active file, and that its lines are in a published
  segment by then follows only from what the earlier steps of the rotation did.
  `RotationInv` says what is true at each of them: the file being rotated is a
  temporary one while it is compressed, holds exactly the lines of the active
  file once it is complete, and is published when the active file is about to be
  truncated. The lemmas `KeptInActive` and `KeptInSegment` are the two ways in
  which a step keeps every line; the inductive step has one case per action.
* `ShortWritesSpoilOne`: `SpoolSpec => []OneLinePerShortWrite`. Inductive with
  `TornInv`: lines that cannot be decoded are finitely many, and a torn tail of
  the active file is a short write that has not yet spoiled the next line, so
  that the two together are never more than the failures so far.
* `SpoolImplementsStore`: `SpoolSpec => RefinesLineStore`. Every step of the
  spool is a step of `LineStore` or a stutter. That a line enters only once
  needs `FreshInv`: the envelope that `Write` works on has the last number and
  is in no file (through all steps of an age rotation that comes before its
  append), and a warning is written once, about a segment that was evicted.

`SpoolAccounts`, from the same assumptions, with `SpoolInv` (the conjunction of
`LossInv`, `FreshInv` and the next three) as the inductive invariant:

* `CloseFlushes`: `SpoolSpec => []CloseFlushesEnvelopes`. `FlushInv`: the
  counter is zero only when the open file has no line, also one that an earlier
  process left, and from the truncation on only warnings are appended; so it is
  the same whether `Close` had to rotate or not.
* `NothingIsLeftOver`: `SpoolSpec => []NoLeftovers`. `TmpInv`: a
  process that can append has no temporary file, and one that has failed to
  rotate has a closed descriptor, and never rotates again. `SinglePlace` is
  inductive with what `RotationInv` says of the segment being published.
* `WarningsAreExact`: `SpoolSpec => []WarningsExact`. `AccountInv` adds that
  there is no segment before the first process, so that a process without a
  failure has seen every eviction.
* `CapEvictsOldest`: `SpoolSpec => EvictsOldest`, an action property. `ListedInv`:
  between the listing and the removal no segment appears, so that the first of
  the list is the oldest there is, or has vanished.
* `CapIsEnforced`: `SpoolSpec => CapEnforced`, an action property. The bytes of the
  directory are a set of pairs (segment, byte), so that the theorems on finite
  sets stand in for a sum. `SumInv`: while enforceCap reads sizes, `total` is no
  less than the bytes of the segments that are there and have been read; it may
  be more, by what the shipper took since.
* `CapRoundsShrink`: whenever enforceCap starts over, fewer segments are left than
  it had listed and none is new. This is the decreasing measure behind
  `CallsReturn`, whose fairness argument stays with TLC.

All of this holds for every `Date`, so for a clock that is set back any number
of times and to any time; the runs have one ULID dated before all others or
between two. Two ULIDs of the same millisecond are taken to ascend, as
`ulid.Make` has it within one process.

`ShipperProofs`, for any number of segments, retries and failures
(`ShipperAssumption`: the backoff's bounds are positive and in order):

* `ShipperTypeCorrect`: `ShipperSpec => []ShipTypeOK`.
* `ShippingIsSound`: `ShipperSpec => [](ShippedIsIngested /\ BatchIdsStable)`.
  The inductive `ShippingInv` adds that the body in flight is the content of the
  segment it was read from (`InFlight`), although the cap may evict that segment
  meanwhile; that a positive answer is about a batch the endpoint has
  (`Acknowledged`); and that whatever the endpoint has is the content of the
  segment whose id it carries (`IngestIsContent`).
* `ShippingIsOrdered`: `ShipperSpec => ShipsInOrder`, an action property.
  `OrderInv`: until something fails, the segment in hand is older than the rest
  of the list (but for names dated by a clock set back), and whatever is in the
  directory and not in the list was created after the listing. The part of it
  about Run (`QueueInv`) is kept by whoever publishes segments newer than all
  there were, and so carries over to the agent.

`AgentProofs`, for any sources, modes, ticks and restarts:

* `AgentLosesNothing`: `AgentSpec => []NothingLost`, `IngestIsSound`: `AgentSpec =>
  []IngestSound`, and `SpoolKeepsItsWord`: `AgentSpec => [](WarningsExact /\
  NoLeftovers /\ CloseFlushesEnvelopes)`. They compose `SpoolInv` and
  `ShippingInv` of the shipper: each step of the
  agent is a step of one of the two, a call or a return around them, or the end
  of the process (`StepKinds`); what the spool does changes no segment the
  shipper can see except by removing it (`SpoolKeepsSegments`), and what the
  shipper does is, to the spool, the removal of a segment (`ShipperForSpool`).
* `AgentDelivers`: `AgentSpec => RefinesDelivery`. The same split, step by step:
  an append takes a line that was nowhere before (`FreshInv`); an unlinking as
  shipped only takes lines that the endpoint has (`ShippingInv`), any other one
  adds to what was given up; nothing else changes what is held.
* `SpoolHasOneCaller`: `AgentSpec => [](AgentTypeOK /\ OneSpoolCaller)`. Inductive
  with: a source that locks or writes has an envelope left, no call is made
  during the set-up, and outside of the running phase every source is done
  (`CallerInv`).
* `ExitStatusIsTrue`: `AgentSpec => []ExitStatusTrue`. `ExitInv`: once `Close` has
  returned nobody calls the spool again, so that what `FlushInv` says of that
  moment lasts; and a drain that returned without an error listed an empty
  directory, which nothing fills any more.
* `EvictionsAreNeeded`: `AgentSpec => EvictsOnlyOverCap`, an action property, and
  the one that takes both programs at once. `ExactInv`: as long as the oldest
  segment of enforceCap's listing is there, `total` is exact, since the shipper
  takes the oldest first (`ShipsOldest`, from `QueueInv`): if any listed segment has
  gone, the oldest has, and `os.Remove` finds nothing. It needs that nothing has
  failed: a segment that the shipper could not read or remove is passed over, and
  may then be evicted although the ones behind it have made room.
* `CapHoldsInAgent`: `AgentSpec => CapEnforced /\ EvictsOldest`, and
  `AgentShipsInOrder`: `AgentSpec => ShipsInOrder`: what spool and shipper promise
  alone they keep together. `NewestInv` is what the shipper needs of rotate: the
  segment it publishes has the newest ULID drawn, also after the temporary file
  of a killed process was cleared away.

`DamonProofs`, for either program or both, any number of configuration files,
incarnations, kills and failures (`DamonAssumption` only gives types):

* `HotTouchIsSafe`: `DamonSpec => []TouchesMapped` (`RegionInv`: between `Mmap` and
  `Munmap` the region is there, and the goroutine runs only in between).
* `SlotIsReleased`: `DamonSpec => []SlotReleased` (`SlotInv`: as long as every `Stop`
  succeeds, a kdamond that is on has a program that will turn it off).
* `MeasurementIsOwn`: `DamonSpec => []OwnMeasurement`, and `RestartTakesOver`:
  `DamonSpec => []RestartRecovers` (`AloneInv`: if the programs never overlapped
  there is at most one, whose writes are the first ones of the files, and what
  it reads was taken after all of them).

`CgroupProofs`, for any set of trees, pods, globs, limit, depth, time to live and
length of a fetch (`CgroupAssumption`, `KubeletAssumption`: types, and that a tree
contains the parents of its members):

* `LookupIsFresh`: `WalkSpec => AnswerFresh`, an action property. `FetchInv`: a
  fetch is no older than the client's timeout, what it brought was true when it
  began, and the cache since one fetch before it was filled.
* `KubeletCostsNoTick`: `WalkSpec => []LostOnlyToCgroupfs`, and `ZerosMeanMissing`:
  `WalkSpec => []RecordsTellFiles`. `FileInv`: the files there are lie between
  those kept since Collect began and those seen since, and what rec has been
  filled from so far lies between the same bounds, up to the next file; enrich
  gets a rec that is complete, and a walk that goes on has met no error.
* `WalkVisitsOnce`: `WalkSpec => []SampledOnce`. `OnceInv`: the open directories
  form a chain from the root, and a path in the output is in none of the
  directories that are left to visit, nor below one. That is why a cgroup that
  is removed and created again under its name is not sampled twice.
* `MatchGlobMatches`: `matchGlob`, which recurses over two positions, answers as the
  reference `Matches` does, for any glob and any path. `Matches` says that the path
  can be cut into consecutive pieces, one for each segment of the glob. The proof
  shows that this satisfies the equations of the recursion (`RestSolves`) and that
  they have one solution (`MatchUnique`: two solutions that differ would differ at
  a last place, where the equations make them agree).
* `WalkMissesNone`: `WalkSpec => []StableSampled`. `CoverInv`: a selected cgroup that
  has been there all the time is in the output or still ahead of the walk
  (`Ahead`: it or a cgroup above it is in an open directory's list of what is left,
  or is about to be entered); `SelectInv` relates what was decided with the globs
  to the paths. The step into a directory needs `PrefixPossible`: whatever lies
  above a path that a glob matches is a possible prefix of that glob, so pruning
  cuts off nothing that is selected.

`SourcesProofs`, for any host, kinds of source, endpoints, metrics, ticks, changes
and failures. `CollectAssumption` and `ScrapeAssumption` say which paths procfs and
sysfs can have: a path's directory is there when it is, a node's directory has
the two files that the collector reads (the kernel creates them together), and
the numbers of nodes, sizes and endpoints are positive. `AgeAssumption`: an age (a
uint32) times the aggregation interval fits a uint64.

* `HistogramConsistent`: `Spec => []HistConsistent`. Since regions are disjoint,
  what is monitored stays below the end of the last region, so that no sum wraps;
  and a region that is idle long enough for a bucket is so for every warmer one.
* `HistogramExact`: `Spec => []HistExact`. The region added is disjoint from those
  before it (`ExactInv`), so that the sizes of the sets of bytes add up.
* `StableIsReported`: `Spec => []StableReported`; `ValuesAreAttributed`: `Spec =>
  []ValuesAttributed`; `LossesHaveCause`: `Spec => []LossHasCause`. The inductive
  `TickInv` says what each loop has done and has still to do: `ReadInv`, `NumaInv`,
  `HugeInv` and `VLLMInv` that what is left to visit has no record yet, and was
  seen; `ReportInv` that whatever was there all the time is still to be visited
  (`Pending`) or has its record (`Reported`), at every step of every collector;
  `HostInv` how the host and its history are related while things come and go.
* `MetricsAreWarnedOnce`: `Spec => []WarnedOnce`, across ticks (`WarnInv`).
* `SelftestIsTrue`: `Spec => []SelftestTells`: a report that was made of a host
  (`TestInv`), against what `ProcInv` says of a tick on the same host.

`SynthProofs`, for any width, machine, suffixes and sizes (`SynthAssumption`:
`math.MaxInt` and the headroom together fit a uint64; idle memory is older than the
second threshold, as the run lasts at least `minDuration`):

* `PreflightIsSafe`: `SynthSpec => []PreflightSafe`. A number that passes
  `parseSize`'s division check times its suffix does not wrap (`ParsedIsAsked`); an
  allocation of at most `MaxInt` plus the headroom does not either.
* `VerdictIsRight`: `SynthSpec => []VerdictRight`. `PictureIsCounted` computes what
  the loop of `bucketRegions` makes of a picture, region by region, without a
  wrap; `BandInv` keeps the band and the reading next to each other until the
  verdict.

Only model-checked, and why: liveness under fairness (`CallsReturn`,
`RunReturnsOnCancel`, `EverySegmentGoes`, `ShutdownEnds`, `TickEnds`), which is out of
the prover's reach. Every safety property that a passing run checks is proved for
all values of the constants.

## What is not modelled

* Text formats (JSON, zstd, procfs, sysfs, Prometheus) and the numbers in them: a
  field is there, missing, or does not parse. So the model says nothing of
  `KReclaimable`, which is read from `/proc/meminfo` a second time and is of
  another moment than the other fields.
* `internal/config` (defaults and YAML), flags and tokens: their values are the
  models' constants. TLS; label filtering; `vllm-dump` (prints one scrape); the
  pprof server (a listener around `net/http` that shares nothing); the
  deployment scripts. The record types are declarations.
* memauditd does not start its DAMON session again when another program turns
  the kdamond off. `Damon` has these steps; nothing in the repository promises a
  recovery, and so there is no property.
* Loss of data that was not yet synced when the power fails (`Crash` is the end
  of the process); jitter and intervals.

## Plan

1. Done: spool, shipper, agent, DAMON slot, collectors, sources, selftest,
   verdict, kubelet client and cgroup walk, and `Delivery` over the agent.
   Proved: every safety property and every refinement that a passing run checks.
2. Next, in the model: `/proc/iomem` and what is chosen from it; ticks that
   block inside the agent (the cgroup and vllm sources are called with
   `context.Background()`, which delays the shutdown by their timeouts).
