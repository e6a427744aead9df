# A formal model of hierwalk

hierwalk answers questions about Verilog hierarchies and connectivity without
elaborating the design first: it walks the instance paths it is asked for, reads
only the files that walk needs, and keeps what it learns in caches in memory and
on disk. The caches, the retries, the threads and the searches they serve are
what this project models.
Source paths below are relative to `src/src/hierwalk/` unless they start with
`src/`.

- [Inventory](#inventory)
- [Modules](#modules)
- [Runs](#runs)
- [Fairness](#fairness)
- [Proofs](#proofs)
- [What the code does not keep](#what-the-code-does-not-keep)
- [Not modelled](#not-modelled)
- [Plan](#plan)

## Inventory

| Part | State | Operations | Hard behaviour |
|---|---|---|---|
| Module database, tier 1 (`path_walk_db.py`) | define environment with watermark and digest, preprocessed texts, validated scans, scan lock, set of warming files, prefetch thread | `tier1_scan_file`, `_ensure_defines_for_file`, `_preprocessed_text_for_file`, start of warm and prefetch threads, drain | the walk reads and extends shared defines without the lock while background threads scan; a file may fail at any time; a run may stop at any time and the next one opens its sidecars |
| Module database, tier 0 (`path_walk_db.py`) | map from module names to candidate files, futures in flight, file of each indexed module, graph of filelists | scan of a pool, of shells and of the queue, submit and drain, choice of candidates under two policies, `ensure_module_in_index`, `resolve_child_edge`, gate of recovery | results in completion order, failed workers, stragglers of an earlier question, caps |
| Cache store (`pw_cache_store.py`) | regex, validated and preprocessed sidecars, pickle files or one SQLite file | load, save, clear | writers of one sidecar share a temporary name; kills in the middle of a write; sources edited between runs |
| Walk state (`path_walk.py`) | rows by path, blocked prefixes, pending misses, step cache, defer queue (in the database), counters of passes | `ensure_path`, `run_recovery_pass`, `_reset_walk_subtree`, the drains, `_finalize_walk_endpoint_targets`, `_expand_subtree` | a retry invalidates rows and cached misses that other endpoints depend on; blocked prefixes hide subtrees; loops that must end |
| Text connectivity (`connect/session.py`, `connect/text/`, `connect/shared/resolve_cache.py`, the pipeline in `path_walk.py`) | endpoint caches, dedup cache, cache of walks, two counters, results | check batch, clamped fast path, unclamped retry | check, compute, store by several workers; a count outside the lock; keys coarser than the answer; the answers of two scopes in one cache |
| Net walks, text and logical (`connect/text/walk.py`, `connect/logical/search.py`) | net graph of each module, parent and verdict caches of the session, two frontiers and what each has seen | search between two nets, search from a net to an instance, trace | caches keyed by less than the answer depends on; early exits; clamped views |
| Endpoint expansion (`connect/shared/`) | none | parse, expand bus and glob specs | string handling |
| Hierarchy grep (`hierarchy_grep.py`, `connect/hierarchy_grep_gate.py`, `connect/hgrep_pathwalk_handoff.py`) | module index and its cache file `grep_hie.json`, texts read, branches of a resolution, file index, handoff file | load or build the index, resolve a path, gate a check, write the handoff | an index and texts of different moments; modules declared twice; a reject is final |
| Preprocessor (`preprocess.py`) | macro table, conditional stack | preprocess, accumulate defines | nesting, include cycles |
| Full index (`index.py`, `elab.py`, `cache.py`, `manifest.py`) | module records, elaborated tree, one cache file | build, elaborate, load, store | staleness by digest |
| Scanners, search, cones, reports, command line | none or output only | | data handling, no protocol |

How they interact: a connectivity request makes the pipeline create one walk
state over one module database. For each check the walk ensures the endpoint
paths (under `_walk_lock`), asking the database for edges and modules; the
database asks tier 0 for candidate files, scans them in tier 1 (under
`_tier1_scan_lock`) and loads or saves sidecars through the store. What cannot be
resolved at once is deferred in the database's queue, and the walk's recovery
passes retry it under a more expensive policy. Before a text check the gate asks
the hierarchy grep whether its endpoints exist: a reject ends the check, a pass
clamps it to the rows of the grep, a fallback leaves it to the walk. When the
hierarchy is there, the text session answers the checks over its rows with a pool
of workers. Warm and
prefetch threads scan files beside all of this.

What makes each part correct:

- **tier 1**: a cached text is what preprocessing now would give; a scan sees the
  defines of its filelist prefix; two threads never scan at once; the walk is
  never stuck behind a background thread.
- **store**: an answer is for the present sources, whole, and no load or save
  raises, whatever was killed before.
- **walk**: no deferred item gets lost, recovery ends, rows stand on rows, no
  cached miss or block hides what the index knows, and everything resolvable is
  in the result.
- **tier 0**: no result of a worker is lost, a search that fails has looked
  everywhere its policy allows, and one that succeeds names a file that declares
  the module.
- **text session**: sharing between workers and scope clamping change the cost of an
  answer and never the answer, but for what the keys of its caches merge by intent.
- **hierarchy grep**: what the gate rejects does not exist, what it passes does, and
  the rows it hands on are those of one hierarchy.
- **net walks**: the verdict is whether a path exists, in whatever order nets are
  expanded and whatever earlier checks cached; the trace is such a path; the text
  walk finds all the logical walk does.

## Modules

| Module | Models | State and actions |
|---|---|---|
| `PwTier1` | tier 1 of the database | One variable per attribute of the object and, per thread, a program counter with the locals of the call in progress. Each action is the code between two accesses to shared state: taking the lock, the memory check, the guard of the watermark, the claim, marking and applying one source, the digest, the lookups, preprocessing, recording. `Restart` ends the process anywhere and keeps the sidecars. |
| `PwTier1Abs` | what tier 1 promises | Environment and scans with no cache at all. `PwTier1` instantiates it WITH `defines <- env` and `scans <- memory`. |
| `PwWalk` | `PathWalkState` and the defer queue | A driver (`stage`) runs the checks as the code does: walk, drain, passes, last-chance walk, subtree expansion. `ensure_path` is one action per hop. A pass takes the queue, recovers the items one by one, resets and unblocks, retries what stayed, walks the touched endpoints again. |
| `FlTree` | the graph of filelists | Operators only: subtrees, shells, the pools of files a policy may search, the gate of recovery. |
| `PwTier0` | tier 0 of the database | The map, the workers and how far each is, the index. The walk thread's program counter goes through a question as the code does: pool, extra files, shells, queue, expansion, ranking, trying one file after another, a second pass. Workers finish or raise at any moment. |
| `PwStore` | one sidecar of the pickle backend | File names, file contents in blocks, open files of the threads; `open("wb")`, block writes, rename, block reads, end of a run. |
| `ConnText` | a batch of text checks | Workers with the check, the pair and the endpoints they hold; endpoint caches, dedup cache, cache of walks, counters. `Count` and `Counted` are the two halves of an increment outside the lock, `DedupMiss` to `Connect` the walk between a lookup and its store, `WalkMiss` and `Walk` the same for the cache of walks. |
| `NetGraph` | the edges of a net | Operators only: net classes and ties, children through port maps, hierarchical references, and the nets above (`Expand`, `UpTargets`), in the text and in the logical variant. |
| `NetWalk` | a session of connectivity walks | Two frontiers, expanded one net at a time; `Open` expands a net, `Turn` ends a round, `Serve` and `Shortcut` answer without a walk. `ups` and `verdicts` are the caches that outlive a check. |
| `HierGrep` | a grep session and its gate | What the sources say, the cache file, the session's index and the texts it read. `Ask` starts a check; `Root` and `Hop` advance all branches of one path, `Strip` starts over without the net at its end, `Miss` and `Hit` finish an endpoint, `Decide` finishes the check. `Edit` and `Stop` happen at any time. |
| `MC...` | instances for TLC | Filelists, hierarchies, file contents, net graphs, module texts, buses and batches. |
| `...Proofs` | theorems | See [Proofs](#proofs). |

### Abstractions

- **Defines** (`PwTier1`). An environment is the sequence of sources applied to
  it; the digest is injective. A text is the file and the environment it was
  preprocessed under, so two texts are equal exactly if nothing can tell them
  apart by the order of definitions. Include digests and preprocess tags are
  constant in a run. The accumulated environment is a shared dictionary that
  threads mutate between any two statements; marking a source as seen and
  applying it are separate actions for that reason. One source is applied in one
  step, though the code adds its defines one by one, so a copy taken in between
  is left out. The files to prefetch are any of those not yet scanned, which is what
  skip patterns and the cap on them leave. Source digests are pinned for
  a run (`LazyPathDigests`), so the stamp compared by `_tier1_defines` never
  changes.
- **Resolution** (`PwWalk`). Whether an edge or a module is in the index, is found
  by the confident policy, only by the recovery policy, or never, is a choice of
  the initial state (`design`). Specs are instance paths: signal and port tails
  and folded names are gone. All files of a module are one. The step cache stands
  for `_failed_edge_cache` too, and holds misses only: a cached hit answers what
  the index answers. `should_retry_deferred_recovery` is one flag per anchor, set
  wherever the recovery policy finds more, since a gate that denies what could be
  found would make every claim about recovery vacuous. Parallel workers walk
  under `_walk_lock`; they differ from one thread in the order of paths and in
  ensuring the branches of the trie first.
- **Store**. A digest stands for the whole header of an entry. A file is `K`
  blocks, the header in the first and the end of the pickle in the last, so that
  a file may be short, whole, or have a hole. `together` chooses whether saves of
  this sidecar can overlap: validated sidecars are saved under the scan lock,
  preprocessed ones are not. A process may die anywhere; the machine does not.
- **Tier 0** (`PwTier0`). A file is the names tier 0 reads in it, the modules tier 1
  finds, and which of them hold the instance looked for; the three may disagree,
  which is what ghosts (a name in a comment) and stubs are. Ranking is any order
  within the groups the code keeps apart, so the order of files in a group is not
  modelled; neither are the regex sidecar and the pool override of a queue. The
  branch that drains when a batch is empty cannot be reached and is left out.
- **Net walks** (`NetWalk`). The body of a module is data: what ties its nets, its
  port maps, its hierarchical references; `Read` says which data a body makes: a net a
  port map names is in a class of its own (`core.py:1005`), also when it is a bit. A net
  has at most one bit select. Edges
  and frontiers are taken in any order, as both come from sets. A view is the rows
  of the design or those a gate left. The meetings looked for between two rounds
  find nothing new, since each net is compared when it is reached. One walk runs
  at a time; the caches of a session are shared by workers, but a walk reads and
  fills them only by whole entries of the same value.
- **Hierarchy grep** (`HierGrep`). A module text is a set of instances, ports,
  signals and signals of a user type, each with the generate blocks around it. A
  block is its label and the place of its `begin`, so that blocks of one label in
  the branches of an `if`, or in different parents, are different blocks, and the
  first in the text is the one `_generate_block_body` finds. A
  name occurs in a text as an item or as a label. A hop reads all the sources it needs
  in one step, and no source is deleted. Case, macros and the order of
  branches are abstracted, so whichever of several equal branches is reported is a
  choice. The index is built in one step, as each source is read on its own. A work
  directory is given, so that the index is cached. What the walk's own index knows
  of an instance, which the last probe of the gate asks, is a choice too
  (`known`). The probes read the source again; in a pure grep run the code keeps
  what they read, and uses it only to move a name from the path to its net.
- **Text session** (`ConnText`). Which endpoints are found and which pairs a walk
  connects is a choice of the initial state, pair by pair: two bits of a bus, or two
  instances of an array, may have different verdicts. `Coarse` is what
  `text_dedup_key` keeps of an endpoint, and `rep` the net the cache of walks names
  for it; both may merge endpoints. The clamp never shows more ports than the design;
  a walk over a clamp that hides rows, or over parents cached under it, may miss a
  path. One clamp serves all checks of a batch. A batch of fewer than four checks, or
  in the pipeline, is answered serially, as in the code. Gates are indexed by
  check: checks of one id, which share a gate in the code, are given equal gates.

## Runs

| Run | Instance | What it shows |
|---|---|---|
| `PwTier1Seq` | 3 sources in one listing, sidecars, source 2 may fail, restarts | `KeysMatch`, `SeesOwnPrefix`, and that the walk implements `PwTier1Abs` |
| `PwTier1Warm` | 2 sources, source 2 may fail, batches capped at 1, a warm thread for source 1 and the prefetch thread | `KeyNeverAhead`, `OneScanAtATime`, `ScansAreFinal`, and `WalkReturns` under fairness |
| `PwTier1WarmKeys` | 2 sources, one warm thread, sidecars | `KeysMatch` is violated |
| `PwTier1Siblings` | two sibling listings, one thread | `SeesOwnPrefix` is violated |
| `PwWalkPass` | a top with two instances of one module, 11 paths, 2377 designs, four requests, parallel | `RowsStand`, `NoDeferDropped`, `NoStaleMiss`, `PassesBounded`, `EndpointsWalked`, `RecoveryRestores`, and `Finishes` under fairness |
| `PwWalkTwins` | the same, two twins asked | `RecoveredIsUnblocked` is violated |
| `PwTier0` | 5 filelist graphs by 5 contents of 5 files and one design more, 3 questions in a row under either policy, 2 workers, one of which may raise | `NothingLost`, `MissExplained`, `GateMissesOnly`, `ConfidentStaysScoped`, `FoundIsThere`, and `Answers` under fairness |
| `PwStore` | 2 threads, 2 versions of the sources, 3 blocks, 3 files | `NeverStale`, `SidecarWhole`, `NothingRaises`, `QuietWhole` |
| `ConnText` | two bits of a bus and a port assigned one of them, with different verdicts, batches of 4 and 2, every gate outcome, both callers, with the cache of walks and without, 2 workers | `UngatedOfKin`, `NoFalseConnect`, `PortsRecovered`, `UniqueCounts`, `VerdictsStay` |
| `ConnTextRetry` | one gated check | `MissIsRetried` is violated |
| `NetWalk` | 11 net graphs of 4 instances, text and logical, 3 views, 2 checks in a row out of 17 | `TypeOK`, `YesIsPath`, `NoIsNoPath`, `ServedIsOfItsClass`, `TraceIsWhole`, `TextCoversLogical`, and `Answers` under fairness |
| `HierGrep` | 3 sources of 2 or 3 texts, 2 filelists, 2 edits, 28 checks of two endpoints | `RejectExplained`, `PassExplained`, `PassIsUnique`, `RowsAreOneHierarchy` |

The types of the modules whose run does not check `TypeOK` are proved instead.

### Bounds

- `PwTier1`: three sources are the least with a source before and one after a
  failing one; every rule of the code compares two positions or a position with
  the watermark. Sidecars and threads together exceed what TLC explores in
  minutes, so passing runs have one or the other; `PwTier1WarmKeys` has both. The
  theorems hold for any number of sources and threads, with sidecars.
- `AccumMax` is `HIERWALK_PW_DEFINE_ACCUM_MAX`: 0 (no cap) and 1, the least cap a
  batch of two exceeds.
- `PassCap` is `HIERWALK_PW_RECOVERY_CAP`, at its default of 32 in all runs. The
  instances need at most two passes; a cap of 1 is not run; the theorems hold for every cap.
- `PwWalk`: two instances of one module are the least on which keys without a
  path and caches per module matter; a depth of three lets a reset drop rows
  below the recovered one; siblings let it drop rows of other endpoints. All
  tiers of resolution are enumerated for every edge and load of the two middle
  modules, but one tier of one edge. One more design and request let a drain
  give up before the last check, the exception of `EndpointsWalked`.
- `PwStore`: `K = 3` has a header, an end and a block between, which is what a hole
  takes. One file more than there are threads is all that can be open or named.
- `ConnText`: four checks are the fewest answered in parallel; the batch has a pair
  twice, the pair of another bit, which has its dedup key, and the pair of a port of
  another name, which may share its walk. A third pair is what tells an answer of a kin from
  one of a pair no key merges.
- `PwTier0`: four files make a candidate, a rival, one beyond a cap and a file of
  no listing, and a fifth file of no listing is the one left unopened in the design
  where two listings stand apart; three listings make a chain or two siblings. `FileCap`,
  `GlobalMax`, `ShellMax` and `QueueBatch` are the code's limits scaled to five files, small
  enough that each one cuts; `ParallelMin` = 2 has both serial and parallel scans.
  Three questions (`MaxAsks`) are needed for a straggler: one that leaves it, one
  that takes it in, one that asks again.
- `NetWalk`: two checks (`MaxAsks`) are the least where a cache answers. Two bits
  and three bases have slices of one bus, equal slices of two, and a concatenation.
  `FanoutCap` is 1 where the code has 64, and one design exceeds it.
- `HierGrep`: two endpoints are the least whose rows can disagree. The texts have a
  name with two alternative cells, nested generate blocks, blocks of one label in two
  branches and in two parents with other instances in each, a block and a net whose
  names suggest a module, a stub, a module declared twice, a cell no source
  declares, a net of a user type, and a name that is an instance in one text and a net in
  another. `MaxEdits` = 2 has an edit before and one after a
  source is read, and an edit back.

Deadlock is checked in every run but `NetWalk`, whose session really ends after the
last check. `PwWalk` and `ConnText` have a `Done` action for the end of a request;
the others never stop.

## Fairness

Four runs assume any. Python's interpreter schedules every runnable thread, and
each call made between two steps (a file read, a preprocessing) returns.

- `PwTier1Warm`: weak fairness of each thread's own steps, and of the prefetch
  thread going on to its next file. The walk is never obliged to call. The lock
  is not assumed fair, and need not be: only the walk creates work for background
  threads, so while it waits they run out of work and the lock comes free. What
  could go wrong is an exception while the lock is held; source 2 may fail in this
  run, in the prefetch thread too.
- `PwWalkPass`: weak fairness of the walk's next step. One thread walks at a time,
  under `_walk_lock`, and waits for nobody. What could keep it going for ever is the
  loop of the drain, which ends a pass with items back in the queue, and rows that
  one part of a pass drops and another walks to.
- `PwTier0`: weak fairness of the walk's steps and of each worker; the pool is the
  library's, which runs what was submitted. Nobody is obliged to ask.
- `NetWalk`: weak fairness of the walk's steps. That it ends is because no net is
  reached twice.

## Proofs

The proof modules hold theorems for every value of the constants the assumptions
allow.

**`PwTier1Proofs`.** `TypeCorrect`, then four results.
`ScansExclude` (`OneScanAtATime`) and `ScansStay` (`ScansAreFinal`) follow from
`LockInv`: at most one thread is in `holders`, a thread between the memory check and
the end of its scan is the one, and from the check to the record its file is not
in memory. Mutual exclusion alone is not inductive, since the property speaks of
program counters and the lock of `holders`. `KeysNeverAhead` (`KeyNeverAhead`) holds
with any threads and rests on `PrefixInv`: the digest and the key of every call in
progress are prefixes of the environment, which only grows, and the key is a
prefix of the defines a call took after it.
`KeysMatchAlone` and `TransparentAlone` assume `Sequential` (no warm and no prefetch
thread) and use `WalkInv`, which ties the walk's locals and the digest to the
environment at every program counter: with one thread, the digest is out of date
only between the claim and its refresh. `TransparentAlone` is the refinement:
`PwTier1Abs` with the same variables, initial states and every step. `ScansSeeTheirPrefix` (`SeesOwnPrefix`) adds two hypotheses,
and the code keeps the property under no less: `OneListing`, every source comes after all
of its predecessors in one filelist (`PwTier1Siblings` shows two listings lose it), and
`Uncapped`, no batch is cut down to its last source. With `PrefixSeenInv` the
watermark is ahead of the environment only while the batch it was moved for is being
applied, and a source is marked before it is applied only while it is the next one;
so whatever order the walk asks for, nothing is skipped for ever.

**`PwWalkProofs`.** `NothingDropped` (`NoDeferDropped`), for every hierarchy, design,
sequence of checks and cap: `DeferInv` adds which stages have a batch, and that
outside the collecting stages what a pass skipped or missed is back in the
queue; otherwise the next pass, which forgets both sets, could drop an item.
`RowsAlwaysStand` (`RowsStand`): `RowsInv` adds that the walk in progress goes on
from a row, and that rows are dropped only while none is in progress; `ItemsInv`
that the prefix of every item is a path, so that a reset drops whole subtrees.
`NoMissIsStale` (`NoStaleMiss`): `MissInv` says that while a pass collects, a stale
miss is one of a module whose item is among the fresh ones, which the
pass empties before it goes on.
`TypeCorrect` needs `FlowInv`, who may drain at which stage: a drain for a check has a
check to go back to, the drain before connect has none. `PassesAreBounded`
(`PassesBounded`): with `BoundInv`, the passes so far and the items still held are never
more than the items ever deferred and the drains begun; the bound alone is not
inductive, as a pass may put back all it took. A deferred item brings a new key
(`DeferCounts`), and a drain goes on only when the queue has become shorter. So a
drain ends without its cap.
`EndpointsAreWalked` (`EndpointsWalked`) needs two facts that span the whole request:
`SeenInv`, a cached miss of what the recovery policy finds was made by the confident
policy, which deferred it, and `ConnectInv`, the last chance is taken with an empty queue
or after a drain gave up. With `MissInv` and `DeferInv` a hop that fails at the last chance is
then one the sources do not have or one whose item is queued (`MissExplained`), and
`LastChance` carries this to the end. How deep the hierarchy is does not matter, nor
how many instances share a module: the key without a path costs a walk, not an
endpoint.
`RowsAreRestored` (`RecoveryRestores`): `TreeInv` says that with a row all rows above it
stand and that a block hangs on a row; `FoundInv` that the way to an endpoint once walked
to stays in the index and no block is put on it again; `LieInv` and `AskedInv`, that
what a check walks, defers and finds lies on the way to one of `_spec_targets`. So the
endpoints a pass walks again lead past all it dropped (`AgainLeads`), and a walk past
a place that was found brings its row even if it is skipped or fails further on
(`AheadWalking`). Rows being a tree is an invariant of its own because `RowsStand`, which
gives each row its parent only, would need induction over the depth.

**`PwTier0Proofs`**, for every filelist graph, contents, caps, pool and sequence of
questions. `TypeCorrect` and `ResultsAreKept` (`NothingLost`) follow from `IInv`, whose
part `ScanOK` says that the files of a scan in progress are neither scanned nor at
a worker, so that no file is submitted twice, and that a waiting scan has a
worker to wait for. `FoundOnlyThere` (`FoundIsThere`) needs that what the index
names is a file tier 1 has parsed the module in, or a placeholder.
`ConfidentScope` (`ConfidentStaysScoped`) adds, per program counter, which pools the
files still to open come from: the history of opened files alone says nothing of
the next batch.

**`PwTier0AnswerProofs`** goes on to what an answer of "not found" means, with the same
constants and no further hypothesis. `MissesAreExplained` (`MissExplained`): each of the three
rounds of a recovery question may stop at the first file that has the name, so a
miss stands on the last one (`LastRound`, `MissInv`): it covers what the rounds before
left open, unless the module had a file already, and then that file was tried.
`GateMisses` (`GateMissesOnly`): a confident question sends files to workers only in scans that
wait for all of them (`StrayInv`), so what is still at a worker was left there by an earlier
search; the pool is opened whole before the second pass, and before the first is
given up unless the module has a file (`GateRound`); and a listing the gate gives no
recovery has nothing above or beside it (`GateScope`). Both invariants were checked with
TLC first, over several caps and with and without the global search; that showed the
two exceptions named [below](#what-the-code-does-not-keep), which the properties did not
name before.

**`NetWalkProofs`**, for every graph, views, order and session. `TypeCorrect`: an edge
leads to a net of an instance that exists, also through a cached parent. What can
be reached is `Reachable`, the intersection of the sets closed under the edges; that the
recursive closure of the properties is this set (`ClosureIsReachable`) is proved from the
finiteness of the design (`FiniteAssumption`): of the sets where the recursion went wrong
take one of the fewest missing states, and its successor is another with fewer.
`YesIsCertain`, `NoIsCertain` and `ServedIsCertain` are the three verdict properties
(`YesIsPath`, `NoIsNoPath`, `ServedIsOfItsClass`). They rest on `WalkInv`: what a side has seen can be reached from its end
(`SeenIsReal`); what it has seen and not yet expanded is in its frontier or in the
two sets of the round (`FrontsSeen`), so that when both are empty the seen sets are
closed; and as long as the search goes on no net of one side meets the other
(`Searching`). `CacheInv` says that a cached "connected" has a question it was found
for. `TextIsCoarser` (`TextCoversLogical`) is a simulation between the two variants of the
same graph. A net the logical walk reaches is `Covered` when text conn reaches it or a
whole net of the class it has for text conn; a port map kept as text is covered when
every net in it is. One lemma for each kind of edge (`StepWithin`, `StepDown`, ...)
shows that what is covered leads only to what is covered, and `CoveredTouch` that two
sides that cover one net touch. Each of the premises of `Whole` is used: the attempt
without them gave the counterexample [below](#what-the-code-does-not-keep).
`TracesAreWhole` (`TraceIsWhole`) rests on `TraceInv`: every net of a side hangs from
the side's seed by edges of the design (`Rooted`), as no net is reached twice, and an answer's
hops end at nets the sides have seen, save at two bits of different names (`EndsSeen`).
That as many hops as the side has nets are enough is `LadderReaches`: the nets reached in k hops
are k + 1 or all. The recursion that counts them has a solution, the least family of sets that
climbs (`LadderExists`).

**`HierGrepProofs`**, for all sources, texts, filelists, checks and edits. `TypeCorrect`:
each branch stands in a module the index knows, in a source that was read.
`PassIsExplained` (`PassExplained`) and `RejectIsExplained` (`RejectExplained`) follow from `Inv`.
Its part `FoundExists` says that every branch ends a chain of the texts read, where
a chain may skip blocks and follow a guess as the code does. `NothingMissed` says that
every chain through first blocks of their labels (`SeenChains`) is at a branch, for every set of texts that agrees with the index and
with what was read so far: for the present sources alone it would not be
inductive, since an edit may put back a text that was there before.
`GatesRight`, `WalkRight` and `VerdictRight` carry both over the second resolution, the
gates gathered and the verdict.
`RowsAreJoined` (`RowsAreOneHierarchy`): with `RowsInv` a branch stays in its module until it
enters an instance of that module, and the nodes of a branch are the names of its path, so
the rows of one gate are chained. Of the rows of a path the latest endpoint's stands; that
there is a latest one is `LeastOf`, the least element of a set of naturals.
`PathsAreUnique` (`PassIsUnique`): with `UniqueInv` every module with content at the path is at
a branch (`EndsFound`), so equal keys mean one module of one source; a name that did not
end at a net entered an instance (`LeafEntered`), and a path missed after its last name was
found a net has nothing above that name (`NoEnds`). Only what is above a name that may be an
instance was then never compared, which is the property's exception. An earlier form of the
property named none and held in the runs; the proof failed on it, and a third text, with a
name that is a net in one version and an instance in the next, gave TLC the counterexample.

**`PwStoreProofs`.** `TypeCorrect`; `NothingStale` (`NeverStale`) with `FilesInv`: all
blocks of a file are of one version, a file open for writing holds only blocks
of this run's version, no reader has the temporary file open, and what a reader
has in hand is what its file holds. `WholeAlone` (`SidecarWhole`) and `AloneRaisesNothing`
(`NothingRaises`) with `AloneInv`: with one writer at a time the file under the
sidecar's name is never open for writing. `WholeWhenQuiet` (`QuietWhole`) with
`QuietInv`: as long as nobody was killed, each hole in a named file has a writer
whose position is before it.

**`ConnTextProofs`**, for every batch, design, merging of endpoints and number of workers.
`TypeCorrect` needs `CursorInv`, where a worker stands in its check at each program
counter. What an answer may be taken from is `Kin`: the pairs of the batch whose walk
the dedup key or the cache of walks does not tell from the pair's own.
`UngatedAnswersOfKin` (`UngatedOfKin`), `NothingFalselyConnected` (`NoFalseConnect`) and
`HiddenPortsRecovered` (`PortsRecovered`) rest on three invariants. `PortInv`: what the
endpoint caches say of a port is so in the whole design, and a miss too where no clamp
filled the cache. `EndsInv`: the flags a worker holds, which become part of its key, are
those the walk reads from the cache later; this is where a batch answered check by
check (`SerialInv`: at most one worker has a check) differs from a gated parallel one.
`VerdictInv`: each verdict in the dedup cache (`KeyTold`), in the cache of walks (`WalkTold`),
at a worker and in the results (`PairTold`) is that of a kin, for "connected" always and
for "not connected" where no clamp hides rows and the port flags are right. The answers
alone are not inductive, as they come from caches other workers filled.
`VerdictsNeverChange` (`VerdictsStay`), and `CountsAreRight` (`UniqueCounts`) with `CountInv`:
the verdicts stored are counted under the lock; in a batch answered check by check the
number a worker is about to write is `leaves`, and one that missed the dedup cache has been
counted as a leaf and not yet as unique.

The proofs assume nothing but the named assumptions on constants (`...Assumption`),
which TLC evaluates in the runs, and, in the statements that name them, `Sequential`,
`OneListing` and `Uncapped`.

**Model-checked only**: no safety invariant of a passing run. `WalkReturns`, `Finishes` and both
`Answers` are liveness under fairness, which this prover does not reach, as it does
not reach ENABLED and RECURSIVE operators. No module here declares a RECURSIVE operator.

## What the code does not keep

Each of these is a run whose property comes from a text of the repository.

- `PwTier1WarmKeys`: digest, defines and effective digest are read at different
  moments and partly without the scan lock, so with a warm thread a sidecar is
  saved under the digest of other defines. `KeyNeverAhead` is what remains.
- `PwTier1Siblings`: one watermark serves all listings; scanning a late listing
  first loses the defines of an earlier one.
- `PwWalkTwins`: the key of a deferred item has no path, so of two instances of a
  module only one is deferred, and the other stays blocked after recovery.
  `EndpointsWalked` says that the last-chance walk finds it in a connect request, unless a
  drain gave up before.
- `ConnTextRetry`: the retry of a clamped check is answered with the clamped miss
  from the dedup cache.

What follows has no run of its own.

In the walk, the text session and the grep:

- An answer is not always the pair's own (`AnsweredAlone` in `ConnText` is refuted).
  `text_dedup_key` drops slices and the indices of instances (`connect/text/dedup.py:12`,
  `:52`), while the walk starts from the selected net (`connect/text/pair.py:199`,
  `connect/text/walk.py:1417`), bits a port map names are in classes of their own
  (`connect/logical/scan/core.py:1005`) and different bits do not meet
  (`connect/text/walk.py:532`). With leaves `u1(.x(a[0]))` and `u2(.x(a[1]))`, a batch
  that asks for `top.a[0]` to `top.u1.x` first answers "connected" for `top.a[1]` to
  `top.u1.x` too. `UngatedOfKin`, `NoFalseConnect` and `PortsRecovered` speak of the pairs the
  keys merge (`Kin`) for that reason.
- `dedup_stats[0] += 1` (`connect/text/pair.py:402`) is outside the lock that guards
  `dedup_stats[1]`: parallel workers may lose a count, and `unique` may then exceed
  `leaves`. `UniqueCounts` claims `unique <= leaves` for serial batches only.
- `NoFalseConnect` holds for serial batches: with four or more checks in parallel
  and a gated one among them, the worker's own answer about a port and the cached
  one the walk reads can differ, and a connected verdict is stored under the key
  of a missing port.
- `recovery_stalled`, once set by an item nobody can recover or by the pass cap, is
  never reset: what a later walk defers is not drained (`path_walk.py:3635`), and
  `_finalize_walk_endpoint_targets`, the "Last-chance hierarchy walk so verification sees
  recovery-resolved paths" (`path_walk.py:3557`), unblocks the endpoint but keeps its cached
  miss. An endpoint the recovery policy would find is then missing. The design
  `Stalling` of `MCPwWalk` is such a case; `GivenUp` is the exception it makes in
  `EndpointsWalked`.
- `_drain_deferred_recovery_passes` (`path_walk.py:3587`) asks its passes to plan for a walk
  of the affected endpoints and makes none, so rows it dropped come back only in
  the last-chance walk that follows: `RecoveryRestores` speaks of the drains of the
  checks, and of the rows there are when connect starts.
- A pass that recovers nothing resets the parents of persistent misses, so that
  between two checks endpoints found earlier have no row.
- The last pass of `run_path_walk_index` (`path_walk.py:3509`) resets the subtree above a
  recovered item and walks only the item's own target again, so the rows of other
  endpoints there are missing from a result that promises "hierarchy rows for
  arbitrary endpoint specs" (`path_walk.py:3426`).

In the hierarchy grep; the properties of `HierGrep` name each as an exception:

- The docstring of `gate_connect_check` (`connect/hierarchy_grep_gate.py:980`) says
  "`pass` when every endpoint spec resolves cleanly (non-ambiguous)". A path through
  a module declared in two files passes when both ways end in the same declaration,
  as `_finalize_branches` (`hierarchy_grep.py:1426`) tells branches apart by their last
  module, file and block only; the rows name the last of the two files. When two
  endpoints share such a path their rows may name different files, and the later
  endpoint's stand (`connect/hierarchy_grep_gate.py:860`).
- Of the generate blocks of one label only the first in the text is looked into
  (`_generate_block_body`, `hierarchy_grep.py:1169`). With
  `if (W) begin : g A u_x(); end else begin : g B u_y(); end` the path `top.g.u_y` is rejected for
  good; with one instance name in both branches the path passes as that of the first
  module alone. The same goes for equal labels in different parents. `RejectExplained` and
  `PassIsUnique` leave these blocks out (`Overlooked`); with them TLC refutes both.
- A name `u_core` that no instance has is taken for an instance of `core`, if some
  source declares it (`hierarchy_grep.py:1077`). A generate block of that label is then
  not entered: what it holds is rejected, and what `core` holds passes in its place.
- A signal of a user type, and an instance of a cell no source declares, are
  rejected although they exist (`hierarchy_grep.py:1237`, `:1014`). A reject is final.
- A path that leaves out the generate blocks it goes through passes
  (`hierarchy_grep.py:1169` searches at any depth, and so does the scan of instances).
- When the last name of a path is peeled off as a net, the declarations of the module
  above it have not been compared (`connect/hierarchy_grep_gate.py:817`). The probe that peels
  reads the source again, so an edit since the path was resolved is enough; and it searches
  the whole file, not the module (`:762`).
- The cached index is taken whenever the set of paths is the same
  (`hierarchy_grep.py:434`), whatever the files say by now.
- The rows reported for a miss in the middle of a path have a row for the missing
  instance, with the module of its parent (`connect/hierarchy_grep_gate.py:716` does
  not ask whether the node was found); the model leaves them out.

In tier 0 (`GateIsSound` in `PwTier0` is the property TLC refutes):

- A confident question that takes in a straggler of an earlier recovery search
  during its own pool scan (`path_walk_db.py:2609`) does not collect its candidates
  again and defers, while `should_retry_deferred_recovery` says no recovery can help.
  `GateMissesOnly` is what remains.
- A confident scan of the pool stops as soon as the module has a file
  (`path_walk_db.py:2623`). When that file was found outside the pool before, the scan stops
  after its first file, no file of the pool becomes a candidate, and the
  question is deferred. "True when recovery policy may succeed where confident
  resolution could not" (`path_walk_db.py:2153`) then says no. `Unopened` names these files.
- Without an anchor a recovery search goes on to the sources its expansion lists
  (`path_walk_db.py:2993`), which are those of the seed unless the global search is on
  (`:1740`); with a cap reached in the seed or its shells, the files beyond are not looked at
  by a later round either. `cut` counts them all.
- A file still at a worker is invisible to the next question.
- A recovery load without an instance returns true with whatever file the index
  names, a placeholder included (`path_walk_db.py:3456`, `:3864`); `FoundIsThere` names
  this exception.
- For an anchor that no listing names the gate denies recovery, although recovery
  would search every source (`path_walk_db.py:1738`).
- With an empty child pool a confident question for an instance opens the files of
  the centre of the filelist tree (`path_walk_db.py:3801`); `Scope` names this exception.
- The preferred file of a module (`_prefer_file`) is put first and sorted away again,
  while `src/JOBS.md:22` says it is tried first.

In the net walks (`TraceLeads` and `ServedIsRight` in `NetWalk` are refuted):

- Two equally selected bits of different names meet in the rep index
  (`connect/text/walk.py:1228`) and not when the hops are rebuilt (`:528`): the trace
  of the check then lacks the hops of one side. `TraceIsWhole` names the exception.
- The verdict cache is keyed by the representative of a net (`:1105`), so one bit of
  a bus is answered with the verdict of another. `ServedIsOfItsClass` is what remains.
- The text walk, the coarse filter before the logical one (`connect/text/pair.py:62`),
  does not find every connection of the logical walk. Below a port of which bits are
  mapped on, `leaf l(.x(p[0]))`, a bit has a name of its own, while above it, where
  nothing names the bit, text conn has the whole bus: it comes down as the whole port
  `p`, from which the maps of `p[0]` are not followed. With `wire [1:0] a, b` in the top,
  `mid m(.p(a), .q(b))`, two leaves on `p[0]`, `q[0]` and `p[1]`, `q[1]`, and
  `assign y = x` two levels below, the program connects `top.a[0]` to `top.b[0]`
  logically and answers "no path" in text mode. A whole port also leads nowhere above a
  concatenation, and a net with more than 64 binds loses some (`walk.py:884`).
  `TextCoversLogical` is about the designs with none of these (`Whole`).
- A check that saw fewer rows leaves an empty parent in the cache for the later
  ones; `NoIsNoPath` excepts them.
- A constant tied to two ports connects them, in both walks.

## Not modelled

The SQLite backend (each save is one transaction of that library), the extraction
of net graphs, instances and ports from Verilog text (most of logical connectivity
and of the scanners), the preprocessor, full elaboration, the pyslang adapters, the
command line, reports and generators. `PROJECT.json` gives the reason for each.
Most of the repository is of these kinds: lexical work on strings, formatting, and
generators of test designs, with no state a step could leave wrong for a later one.
Inside the modelled parts: port-only scans and module snapshots (tier 1), the regex
sidecar (tier 0), parameter folding and suite re-entry (walk), waypoint checks,
worker exceptions and sessions kept across batches (text), concurrent walks of one
session (net walks), list endpoints, deleted sources, the file index and the handoff file
(hierarchy grep). A crash of the machine is not modelled; the code does not sync files and
makes no claim about it.

## Plan

Done, in the order of importance the modules were written in:

1. `PwTier1`, `PwTier1Abs`: the environment that every cached result depends on, and
   the threads that race for it.
2. `PwWalk`: recovery, the part with the most state to keep consistent.
3. `PwStore`: the sidecars under crashes and concurrent writers.
4. `ConnText`: deduplication and the clamped fast path.
5. `PwTier0` with `FlTree`: the candidates of a module, from workers in any order.
6. `NetWalk` with `NetGraph`: the search over nets, against reachability.
7. `HierGrep`: the gate, against what a path means in the texts.

Left, with what each would add:

- `PwWalk` over `PwTier0` and `PwTier1` in place of the `design` constant: recovery,
  stragglers and defines together. Each alone fills what TLC explores in
  minutes; the product needs an abstract tier 0 first, for which
  `MissExplained` and `GateMissesOnly`, now proved, say what it may promise.
- `ConnText` over `HierGrep` and `NetWalk`: the gate's outcomes and the walk's answers in
  place of the choices of `design`.
- `PpCond`: the conditional stack of the preprocessor as a function, against a
  reference definition over all short inputs.
- The file index of the hierarchy grep with its event and error flag: no caller in
  the repository starts its background thread.
