# A verification project for gofresh

gofresh decides whether a recorded test or benchmark result may still be used: it
hashes the sources a subject can reach, records the guards of the environment and
the runtime inputs of the process, and later compares what it recorded with what
it observes. Two mistakes matter. A *false valid* reuses a result that no longer
holds; a *false stale* throws a good one away. Around the comparison sit the parts
that make it hard: transactions over a moving tree, callers that cancel and abort,
memo files shared by processes, analyses of many subjects at once, and go commands
that must not outlive their caller.

This directory holds TLA+ modules translated from the Go code, TLC configurations
that check them on small instances, and TLAPS proofs. `PROJECT.json` maps every
definition to the lines it stands for and lists runs, mutants, hazards and theorems.

## The system's parts

| Part | State | Operations | What is hard | What makes it correct |
|---|---|---|---|---|
| Snapshot and view (`view.go`, `closure/listingmemo.go`, `closure/memo.go`) | agreed facts, proofs, captures, seal; three memos | construct, capture, attach, `Sibling`, `Validate` | a pass reads the tree in steps and through memos; two passes must agree; budget cuts | the facts held at one instant; a validation neither passes nor invents a move |
| Producing unit (`unit.go`) | phase, the one execution, its terminal and observation | `Register`, `Submit`, `Abort`, `Close`, `Account` | long work with the mutex released; late abort or cancellation; a moving tree | evidence only from a closed unit, coherent with one instant; an end is final |
| Checking unit (`checking.go`) | phase, busy, gate, slots | `CheckBatch`, `ExtendInertBatch`, `Abort`, `Close` | rounds against close; inputs that move and return | a motion once demonstrated is kept; a final valid answer was true |
| Judgment (`judgment.go`, `fingerprint.go`, `internal/guard`) | none; a record | verdict ladder, inert extension | overlapping overrides, missing values | no false valid, no false stale |
| Test variants (`internal/testvariant`, `closure/internal/compartment`) | a ledger of the test files | delta, cone, inertness for a subject | methods, initialisers, shadowed names, import aliases, external tests | an inert edit is one the subject cannot observe |
| Producer frame (`runtimeinput/producer.go`, `bracket.go`, `hash.go`, `testlog.go`) | bracket, log, manifest | capture, ingest, finish | the process runs between two looks and writes itself; links; scratch | what is verifiable binds what the process saw |
| Observations (`runtimeinput/observation.go`, `manifest.go`) | manifests of finished processes | adopt, `Absolute`, `Relative`, `Merge`, evaluate | inputs move between the looks; a spelling changes what is bound | no doubt or input is lost, the order decides nothing |
| Reachability (`internal/closure/internal/rta`) | work list, reached functions, runtime types, call sites | one visit for many subjects | either side of an edge may be met last, for other subjects | each subject gets what it reaches alone |
| Proof batch (`view.go`, `closure/observability.go`, `closure/memo.go`) | memo, slices, retries, budget | a pass over subjects of several packages | a failure or a cut in the middle of shared work | no subject answers for a companion; finished work is kept |
| Memo store (`internal/cachefile`) | files, byte account per process | `Load`, `Store`, `Merge`, `Prune` | unlocked read and rename, crashes, entries that cannot go | only what was stored is served; the ceiling |
| One-shot holders (`gotool/memo.go`) | answer, the running take | `take`, `prime` | cancellation and panic of the taker | one spawn, one answer, a cancellation stays its caller's |
| Collected go command (`gotool/collect_linux.go`, `contain_unix.go`) | process group, pipes, signal mutex | run, cancel | a reused process number, descendants, late signals | no stranger struck, nobody left, whole answers |
| Session, engine (`session.go`) | bindings, contexts | construction, binding | – | – |
| Closures, function summaries, toolchain audit (`internal/closure`, `internal/dynstate`, `internal/auditset`) | memo tables | hashing and static analysis | syntax; tables | a partial analysis is never served as a whole one |
| Residency, guidance, explanation, records, test support | little | text, limits | – | – |

How they interact: a session observes the tree twice and builds a snapshot (`Snapshot`).
A runtime binding begins producing or checking units over private views of it. A producing
unit (`Unit`) captures fingerprints, lets its executor run the process, ingests the test log
through its frame (`Producer`) and validates its view. The finished observations travel, are
merged and come back (`Observations`). A checking unit (`CheckingUnit`) judges recorded
fingerprints over rounds, and all of them again at close, with the judgment ladder (`Reuse`).
Proofs come from a batch pass (`ProofBatch`) whose walks are the reachability analysis
(`Reach`). All of them read the go environment and the sources through holders (`Once`), memo
files (`MemoStore`) and collected go commands (`Collected`).

## Modules

* **`Snapshot`** models the transaction of `view.go` over observation passes. A pass reads the go
  environment; lists and keys one package after another, a listing from its memo or from the go command and
  then stored, a key looked up in the scan memo; loads what was missed; loads it again for the discharges, which the
  budget may cut; stores what was judged; and folds. Each of these reads is a step of its own. Construction compares
  two passes. A proof (`Open`, `List`, `ProveKey`, `ProveLoad`) looks at the environment, lists and keys its packages in the
  same way, takes what the proof memo has, and loads the rest one by one. Captures, attachments, siblings and both arms of
  `Validate` follow; two threads interleave. What an analysis says of a package is a function of the versions its loads
  found: what the typed load names (`Marks`), and which programs may reach it (`Reached`).
  `held` remembers which contents the construction saw at its seam, `seen` what each part has been.
* **`Unit`** models `unit.go` over its view. Each critical section under the mutex and
  each read of the outside is one action. `phase`, `execution`, `ready`, `terminal` are
  the fields of `Unit` and `unitExecution`; `rpc` and `cpc` are program counters of calls
  of `Register` and of `Close`. Tree (sources and code guards) and runtime inputs are counters that
  only grow: a change undone between two agreeing reads is excluded by the code's own contract
  (`view.go:1492`). Observations carry what a `State` carries: completeness, support,
  motion, a digest. How such an observation comes about is `Producer`.
* **`UnitContract`** states what a unit promises without saying how: one contributor, one
  terminal, one closing, at most one grant, and an end. `Unit` implements it under the mapping `UC`.
* **`CheckingUnit`** models `checking.go`: rounds wait at the gate, `Close` and `Abort` only
  take the mutex. A round here carries one record, the code's carry a list whose entries
  take the same steps; the closing covers all slots. Inputs may move and *return* here, because the
  code promises to keep a motion that its reads demonstrated (`runtimeMotion`).
* **`Reuse`** models the judgment as operators (`Verdict`, `EvidenceRefusal`, `GuardsFail`,
  ...) over one record, the current value of each axis and every kind of session, and a small
  machine around it: axes drift and the holder of the record extends it (`Extend`) whenever the
  license and the check allow.
* **`TestVariants`** models the ledger a test-variant compartment yields (`Ledger`), the delta of two ledgers
  (`Moved`, `Added`, `DataMoved`), the binding evidence and `InertForSubject` with its cone. Beside them stands what
  a run can observe by the scope rules of Go (`Observed`), written without regard to the code. `MCReuse` derives
  the relation `Inert` of `Reuse` from it: an assumption there says that the relation written out is the one that
  `InertForSubject` computes from three contents of the test files, and `ValidIsUnobserved` joins the two: whatever inert edits the steps of a
  chain were, a valid answer is about test files that its subject cannot tell from the producing ones.
* **`Producer`** models one frame: capture of the bracket, the process that opens, stats, creates
  scratch and changes directory while others change files and links, the second look, the
  classification of its log line by line, digests and the comparison of the two walks. A walk may fail to read a member or to list the
  directory whole (`Walks`), and an ingest that requires operation outcomes refuses a log with other lines than environment reads (`Ends`). Paths are
  a few places (in the package, elsewhere in the module, scratch namespace, temporary, guarded, external).
* **`Observations`** models what happens to finished observations: adoption into a process's
  evidence, conversion of identities, merges that check one member after another while the world
  moves, and evaluation. A merge gathers from its members in whatever order (`Union`), where the code
  goes over them one by one: a set of subjects, a doubt, the stronger class of each input.
* **`Reach`** models the forked rapid type analysis: one visit of an instruction, one recorded type
  and one recorded edge at a time, with masks of subjects. The program is data.
* **`ProofBatch`** models `ensureObservable` with `ComputeObservabilityBatch`: groups by package,
  memo rows, slices of bounded width, bisection, the harness, retries one by one, the budget, a caller
  that leaves and loads that fail. A package has a memo key or not, and the first load of a call reads the memos of all that wait and
  prepares those it must load together (`Ahead`, `Candidates`, `Prepare`). The order of the requests is one constant (`Order`); a group or a slice is the
  *set* of its subjects, whose first ones in that order are served first (`First`).
* **`MemoStore`** models `internal/cachefile`: entries at paths, a call's own temporary file, the
  walk that looks at one file at a time, evictions, the byte account and mutex of each process,
  crashes of processes and damage of entries. A walk notes the payload it found at a path (`found`);
  the bytes of a set of files are the number of items in them (`Bytes`). A walk may pass over an entry it cannot read and may fail (`WalkFails`); `uncounted` names
  the files whose last write or walk the account has not seen.
* **`Once`** models `once.take`: the loop, the critical section, the wait, the take and the
  deferred completion, with cancellations, failures and panics. A primed reader is an initial state.
* **`Collected`** models one contained run: `runContained`, its two copiers, the drain, the sweep
  and the reap; the goroutine of `os/exec` that cancels, with a grace; the kernel's processes.
* **`MC*`** modules give constants values; **`UnitProofs`**, **`CheckingUnitProofs`** (with those of `Reuse`), **`SnapshotProofs`**,
  **`ObservationsProofs`**, **`ProducerProofs`**, **`ReachProofs`**, **`ProofBatchProofs`** and **`MemoProofs`** (with those of
  `Once` and `Collected`) hold the theorems. A component whose theorems share a module names its specification apart
  (`LadderSpec`, `OnceSpec`, `CommandSpec`).

A definition introduced as a mutant or a plausible mistake is a bug the code could have. No action
uses it; put in the place of the definition it imitates, it must break a property.

## Runs

| Run | Bounds | What it shows |
|---|---|---|
| `mc_unit` | two registrations, one closing, two subjects (one pure), one move of tree and inputs each | evidence is granted only by the closed unit and was coherent at one instant, no unsupported valid, the view is never shared, the contract is implemented, liveness included |
| `mc_checking` | two rounds over four candidates (and extensions of earlier slots), one closing, two moves of the inputs | demonstrated motion is stale, a final valid stood, one worker at a time, work returns |
| `mc_reuse` | three values an axis, all complete forms, every single missing axis, two drifts, chains of extensions; contents of three test files with up to four edited declarations, imports and data, four subjects | no false valid, no false stale, extensions are licensed step by step, directives are final; an inert edit is unobserved |
| `mc_snapshot` | two subjects, two threads, two contents, one move or prune, two calls, siblings over one subject | the facts were one instant's, proofs are of the facts, a validation says neither a false valid nor a false drift |
| `mc_observations` | two processes, two runs, a pool of three, merges of up to two, one move of a file, a link or a variable | nothing is lost, a later change is seen, merges are commutative, associative, idempotent |
| `mc_observations_convert` | the same over a listed directory | a counterexample, see Findings |
| `mc_producer` | seven paths of all places, two logged reads, one move; the namespace is empty at first, and others or the process fill it | a verifiable observation is bound to the run; movement is reported exactly |
| `mc_reach` | all programs of a family: two roots of up to two instructions, a method of one, two subjects | nothing foreign, nothing lost, edges have both sides, the analysis ends |
| `mc_batch` | four subjects in two packages of every kind, width two, two passes, one fault | rows are the subject's own, a failing load is done once, finished slices are kept, passes end |
| `mc_memo` | one process, three calls, three keys on two paths, one entry that cannot be removed, ceiling two, one crash or damage | what the account of the quiet store could see is bounded, and the store serves only what was stored under the key |
| `mc_once` | three asks, two answers, one failure | one spawn at a time and none after an answer, own cancellations; every ask returns |
| `mc_collected` | none: the module has no constants and a finite state, so the run is exhaustive | signals, leftovers, earned answers, return |

Why the bounds suffice: two registrations are enough for the refused second contributor, and one
move of each counter falls into every window between two reads (each read can be before or after
it); with two moves the inputs leave and return. Two rounds give a round that waits, one that is inside
and an extension of an earlier slot. Two calls over a snapshot give every pair of operations of two threads,
and a validation after a capture or a sibling; one move reaches every gap between the reads of a pass and of the passes.
Two runs give a merge of unlike observations, a pool of three a merge of merges and a conversion beside it. The contents of test files hold every kind of declaration
the code tells apart, alone and in pairs, and each pair of contents is an edit. Two logged
reads give a read before and one after a change of directory or a write. Two subjects and up to two instructions each give every order
in which the two sides of an edge, or a type and its interface, are met; the proofs lift the bound.
Four subjects at width two give two slices and a bisection; the second pass meets the memo. Three calls on
the store give a walk, a rename in its course and a third write that relies on the account.
Three asks give a taker, a waiter that takes over and one that waits twice. Inertness in `MCReuse` is
not symmetric: a chain may come to a compartment from which the way back is not inert, though the producing one is there. Symmetry is used over calls, items, processes, threads and
subjects, and only in runs without liveness.

`CHECK_DEADLOCK FALSE` stands in each configuration: units end, calls return and bounds are
reached; what must not get stuck is stated as liveness.

### Fairness

A started call of `Register`, `Close`, a round or an ask runs on (weak fairness of its steps,
which goroutines have). Nobody owes a first call, a cancellation, an abort, a submission, a move
of the tree or an exit of a process. `TakesEnd` adds that a go command that an ask spawned ends, which `Collected`
bounds. `Reach` and `ProofBatch` are sequential computations: weak fairness says only that they run on;
a caller that leaves or a budget that ends is never owed. In `Collected` timers expire and copiers of a closed
pipe return; a descendant may hold its pipes for ever. `WorkReturns` and `PassEnds` say that again and
again nobody is at work, which a call that never returns violates.

### Exclusions by name

Some properties exclude cases the code itself rules out or documents; a history variable names each.
`restored` (`Snapshot`, `Producer`): contents that left and came back between two looks. `torn` (`Snapshot`): the tree
moved between the go command that derived a listing or scan and the digest of its inputs. `torn`
(`Observations`): an input moved while a merge or a conversion was looking at its members. `Silenced`
(`Producer`): bracket members the filter leaves out.

## Proofs

TLAPS proves, for every value of the constants:

* **`UnitProofs`**: `TypeCorrect`, `EvidenceIsGuarded`, `ViewIsNeverShared`, `EndsOnce`, `AccountOnlyGrows`,
  `EvidenceIsCoherent`, `ValidIsSupported` and the safety half of the refinement, `KeepsItsContract`. They rest on `UnitAssumption` (calls of `Register` and `Close` differ,
  the sets of subjects are disjoint, bounds are numbers) and on one inductive invariant `IInv`: who
  closes and how far, what was granted, what the one registration reached, and what the closing
  work relies on. None of the properties is inductive alone: that an ended unit stays ended needs that a closing
  at work finds the unit closing or aborted and nothing else. What evidence rests on needs a second layer (`VInv`): what each step of the closing
  has established by the time it is reached, and that the tree and the inputs stood at the reads that say so. `EndsOnce` (`EndIsFinal`), `AccountOnlyGrows` (`AccountGrows`) and, of `Once`, `AnswersAgree`
  (`OneAnswer`) are proved and no longer run. `mc_unit` has one closing, so that a second `Close` after the first rests on the proofs alone.
* **`CheckingUnitProofs`**: `TypeCorrect`, `WorkersExclude`, `MotionIsRemembered`, `ValidIsTrue`, for any number of rounds, candidates and
  moves. The gate is held by the one round past it and a closing that began finds nobody inside (`Gated`, `Closing`); from its read on,
  the answers say what the slots and the inputs say (`Judged`), which holds only because nobody appends a slot behind a closing.
* **`SnapshotProofs`**: `TypeCorrect`, `FactsHeld`, `ProofsHeld`, `ValidationRight`, `MotionReal`, from `SnapshotAssumption` (the environment is no
  subject, "unavailable" is no version), for any threads, contents, moves, prunes and
  siblings over any of the subsets allowed. The invariant has three layers. The shape: which operations can be under
  way over which views, and that a snapshot is built by one thread alone. What was read: whatever a pass, a proof or the facts hold was in the tree at some time
  since the construction began, and memo entries are of one version (`MemosTrue`, the proof memo included). What held: where contents do not return, what was read on both sides of an instant was
  there at it. Drift needs the first two, the instant of the facts all three.
* **`ProducerProofs`**: `ReadsAreBound` and `MovementExact`, for any paths and links, any log and any movement. The invariant says that
  a time is never used twice, so that a path that is as it was at the capture has not moved, or is absent at both ends (`Changes`); that what was
  read or digested is what lies there now unless the path, or what it leads to, has changed since, and that a path absent at
  both ends held nothing but what the process minted itself (`Reads`, `Digested`); that each classified line is recorded or of a class that is no input (`Classified`);
  and what the second look establishes (`Ended`). `ProducerAssumption` says what others may put at a path: not the very bytes the process writes, and under the temp root they
  remove nothing. The code relies on the latter: what is absent there at the ingest is taken for scratch of the process (`withEphemeralTempRoot`,
  `scratch.go:77`).
* **`ProofBatchProofs`**: `TypeCorrect`, `RowsStayOwn`, `LoadsOnce`, `WorkKept`, for any packages, subjects, faults and width. Rows on their way
  are the subject's own (`RowsOwn`), what is still to walk has none (`ToWalk`, `Finished`), failing loads are counted (`LoadsCounted`), and while a subject is
  retried it is the only one without an answer and is on its way (`Retrying`), so that a refusal can only be its own. `ProofBatchAssumption` gives the sets their
  types and the order of the requests.
* **`CheckingUnitProofs`**, of the judgment (`Reuse`): `RecordTypeCorrect`, `ValidMeansUnmoved`,
  `StaleMeansDemonstrated`, `FinalDirectives`, `ValidMeansLicensed`. All but the last need only the types; that one needs the invariant that
  the recorded route starts at the producing compartment, ends at the effective one and steps inertly.
* **`ObservationsProofs`**: `EvidenceIsKept`, `FileChangesAreSeen`, `ChangesAreSeen`, `MergesAgree`, for any inputs, any readings and merges of any number.
  The invariant (`Inv`) says that a state is a function of the digests of its manifest (`IsObservation`: its doubt is a reason or a link that has a digest), that it
  keeps what each run was (`Keeps`), and that the digests of a verifiable one tell what each run read from everything else (`Binds`); and that what a merge
  has looked at stays unmoved unless it is torn (`Looked`). Two lemmas turn the last but one to and fro: digests that bind a read say that it is what is there
  (`BindsTell`), and what is there, digested, binds the read (`ReadsBind`); so a merge or a conversion, which digests anew, loses nothing. The algebra of merges needs only
  that a union is a function of the fields (`UnionFields`) and that an observation that carries support names no path (`CarriesNoPath`).
  `FileChangesAreSeen` excepts directories; `ChangesAreSeen` is `ChangeIsSeen` where there are none, since with them it is false (see Findings).
* **`MemoProofs`**, of the store: `LoadsWhatWasStored` for any number of processes, crashes and damaged entries: whatever lies at a path or in a temporary file is
  some payload a call of that key has stored, or was damaged and is not taken. `CeilingHolds`, for the one process that works on a store: outside of calls what
  is on disk, but for what a walk passed over or a failed walk left out, is what the account knows of and is within the ceiling, or cannot be removed. Its invariant follows the bytes
  through a call: the account is an upper bound of what lies on disk but for those and for the bytes of a walk under way (`Accounts`), a walk notes what it has seen (`Walks`), and an eviction takes files off until the target is met (`Evicts`).
  That the hypothesis of one process is needed is no weakness of the proof: two processes do not know of each other's writes (see Remarks).
* **`MemoProofs`**, of the one-shot holder (`Once`): `HolderTypeCorrect`, `SpawnsOnce`, `AnswersAgree`, `CancellationStaysOwn`, from the invariant
  that the running take is the one ask that owns it, that nothing is held meanwhile and that what was answered is held.
* **`MemoProofs`**, of one collected go command (`Collected`, which has no constants): `StrangersAreSpared`, `GroupIsEnded`, `AnswersEarned`. A signal is sent only while
  the number is the group's (`NumberIsOurs`): a leader is reaped after signals are over, and a Cancel that waits out its grace keeps them from being over. A group that was owned
  and swept has nobody left who could fork (`SweptForGood`); a signal that reached it is reported once its grace is over (`SignalIsReported`), so that an answer without a
  report is of a run that none reached.
* **`ReachProofs`**: for every program and every batch, `TypeCorrect`, `NothingForeignHolds`, `EdgesHold` and
  `NothingLostHolds`, from `ProgramAssumption` (a program's parts have their types). Soundness goes by an arbitrary set of functions
  and types that is closed for one subject alone: whatever the work list still holds for that subject lies
  within it (`Within`), hence what was attributed does. Completeness rests on `INothingLost`: at each
  moment, an instruction that was visited for a subject has been *served* (`Served`), or is still to be visited, both sides
  of an edge that have met produced the edge (`DynKept`, `InvokeKept`), known types are linked to known
  interfaces (`LinksKept`), recorded types recorded their parts (`TypesKept`), and whoever has pending subjects is
  queued (`QueueKept`). With an empty work list nothing is still to be visited, so what is left is closure.

Proving corrected the models four times. `MotionIsReal` had no premise about torn memo entries and held in the run only because one move cannot tear an
entry and then be contradicted; it is false for two moves (a listing torn before the construction is served to its first pass, and a prune makes the second
read the tree), so it now excludes `torn` like its neighbours. `BoundToTheRun` now names one more case: the process may read what it minted itself *through* a
link that dangles before and after, and then there is content in what it saw and none in the digest. `NothingIsLost` said that an observation of an incomplete run has no
support, which is false of the code: a run whose bracket moved keeps its support beside the doubt (`testlog.go:556`), and now says that support never exceeds that of
any run it speaks of. And merges and sizes were folds, which no proof reaches; what they compute is now said of sets, for merges of any number of members.

Only model-checked:

* liveness (`WorkReturns`, `AsksReturn`, `RunReturns`, `AnalysisEnds`, `PassEnds`, the liveness half of the contract), which with ENABLED is out of the prover's reach;
* `ValidIsUnobserved`, which compares two algorithms over all contents of test files.

## Findings

`Absolute` is documented to return "equivalent evidence" (`observation.go:151`). A directory of the module
that was bound by a walk of its contents becomes an absolute identity, and `hashPath` digests an existing
absolute directory by its existence alone (`hash.go:166`), although "existing external dirs never mint
identities" (`hash.go:160`). A change of the contents after the conversion is then unseen
(`mc_observations_convert`: list, convert to absolute, change, and the observation still counts as unmoved).

### Remarks without a run

* `cachefile.go:24` says that `DefaultMaxBytes` bounds the store. The account skips the walk while *its process's* known
  bytes and the write fit (`cachefile.go:207`); two processes that each stay below the ceiling can leave a
  quiet store above it until a later walk. No verdict depends on it. `mc_memo` therefore has one process.
* The inputs of a listing record are digested after the go command that listed them (`closure.go:939`,
  `storeListing`; `listingmemo.go:27`): a tree that moves in between is recorded under the new
  digest with the old listing. The models exclude this by name (`torn`).
* The memo key of a scan is read before its load, so the same window exists there; a budget cut of a
  package stays with a view until a validation.
* When a slice has a subject that runs through a test main and that test main holds an unsupported shape, the walk of the slice fails, and
  the probe of the roots it shares (`attribution.go:146`-`152`) makes every subject of the slice unavailable, those that do not run through the
  test main too; the memo keeps their rows (`HarnessDenied` in `ProofBatch`, over the subjects each was walked in one slice with). This is what `closure.md:1289`-`1295`
  asks for, a failure of the shared roots degrades every subject at once; it is in tension with REQ-closure-observability-batch-equivalence
  (`closure.md:2065`-`2073`), by which no fact that only one subject reaches may deny another's proof, and which gives those subjects a proof when
  each is analysed alone. It is conservative: nothing is proved that should not be.
* A walk of the store that passes over an entry, or fails, leaves its bytes out of the account (`cachefile.go:254`, `:277`, `:303`, `:316`): a write whose own
  walk fails is not known to the calls that follow, which may then leave the store above its ceiling until a walk sees it. `StoreIsBounded` bounds what the
  account could see (`Counted`).
* A directive's entry carries no references (`compartment.go:418`). A test that calls a bodiless function reaches the body
  only through the text of its `//go:linkname`, so the cone of the test does not hold the declarations that text names.

## Simplifications

`TestVariants`: no blank identifiers, no constants that repeat their group's expressions, no member that is both
compiled and embedded; entries are a set, so two equal directives of a file count once; a directive names nothing. `Snapshot`: a subject stands for a package with one subject; the effect memo, the file memo and the
memos of rooted functions are left out, so that a discharge always loads; the typed load reads all missed packages at one
instant, and so do the discharges and the fold; a proof keys all its packages before it loads the first, where the code goes on to the next package after a load
(a package's own reads keep their order; `ProofBatch` has the groups in the order of the code); `ProofBatch`:
subjects are asked in one order, rows of subjects without a root are stored at load, and
the world is fixed. `Producer`: one bracket root, the package directory; names are members of places.
`Observations`: a class of inputs is represented by one name, a doubt by a token. `CheckingUnit`: one record
a round. `MemoStore`: the configuration does not change, the ceiling is not negative and the dry
run, which only reads, is left out.

## Not modelled, and the plan

Without a protocol of their own: parsing of flags, of the go environment and of the machine's
description, text for people, strict JSON, platform arms of containment, test support. Syntax-directed analyses of
Go source: hashing of closures, function summaries, attribution, fresh paths, the toolchain audit (tables and a
checker of sources). They are most of the lines of the repository; their results are opaque values or
outcomes here, and a model of them would be a transliteration of case tables.

Next, in this order:

1. `DynamicState`: the fixpoint of the facts and the discharge of culprits under a budget (a cut is never an absence).
2. The file and effect memos over `MemoStore`; pure captures and checks of recorded fingerprints over a snapshot outside a unit.
3. The selection of a toolchain; the once-only ceiling of `resident`; bindings and contexts of a session.
4. Proofs: an abstract specification "a view is one instant of the tree" that `Snapshot` implements, step for step,
   on the invariant of `SnapshotProofs`.
