# portable-runtime: TLA+ models, checks and proofs

Models of the control logic of `portable-runtime` (`src/src/portable_runtime`),
model-checked with TLC on small instances and, for the properties that matter
most, proved with TLAPS for every value of the constants.

`PROJECT.json` lists the components, the TLC runs, the mutants that show each
property can fail, the source lines behind each definition (`map`), the
disagreements between code and documents (`findings`), the hazards and the
theorems.

## 1. The system and its parts

The runtime puts a governed boundary between "somebody decided to act" and "a
provider acted on the world".

| Part | State it keeps | Operations | What is hard about it |
|---|---|---|---|
| Cognitive controller (`controller/`) | append-only journal of `ControllerState` snapshots, closures, revisions | `create`, `step`, `apply` of seven decision kinds, `reopen_required` | an awaited capability call outlives the snapshot it was made from, or ends without a result; two clients decide on one version; proposal and snapshot are two writes |
| Responsibility kernel (`responsibility/`) | append-only journal of typed objects | register, revise, transition, expectations, assessment, proposal, judgments, reservation, commitment, Work; sessions, snapshots, handoffs | history sorted by caller-stamped times; resolutions stamped by their caller; expiry; objects checked at one time and used at another; a shared pool |
| Reality boundary (`core/boundary*.py`) | none across calls except reliability counters and breakers; writes Step, StepAttempt, Action, Events | `execute`, `reconcile` | a dozen gates and four awaits in one call, each gate's facts can change before the provider is called; exits on every path must balance |
| Reliability controls (`core/reliability.py`) | counters, timestamps, circuit state | `assess`, `record_action`, `complete_action`, breaker | check and update are separated by awaits |
| Run lease (`stores/sqlite.py`, `core/boundary_fencing.py`) | `runtime_leases` row | acquire, renew, release, fencing check | expiry and takeover while a provider works |
| Governance (`governance/`) | canonical Event history, sidecar projection | obligations, decisions, applications, revalidation, outcome impact, use admission, dispatch commit | mutation racing dispatch; projection against history |
| Recovery chain (`workflows/recovery_*`, `reconciliation_consumer`, `core/reconciliation_*`) | recovery records keyed by digest | disposition, observation, application, reconciliation | crash between any two steps, two consumers, replays, bundles that bring or replace facts |
| Runtime and workflow context (`core/runtime.py`, `workflows/context.py`) | Run, cached by the workflow | start, resume, recover, interrupt, cancel, transition | a stale cached Run saved over a newer one |
| Records (`records/`, `protocol/validation.py`) | assertions, Revisions, grants and their uses, relations, projections, a qualification journal, outcomes | save, edit, qualify, apply, supersede, promote, import, verified outcome commit and replay | copies read before a write, authority presented twice, a graph rule over everything for every write |
| Experience (`experience/`) | recorded reliances of judgments on projections | evaluate an admission, commit a historical use, replay it | the records move between evaluation and commit; lost answers |
| Workflows and completion (`workflows/`, `api/http.py`) | proofs, terminal Run and Work | capability calls, proof writes, completion authority, terminal commit, reply | one of several writes fails; two calls finish one Work |
| Stores (`stores/`) | everything above | transactions, compare-and-swap, bundle import | atomicity; two implementations |
| Registry, plugins, triggers | registrations, incarnations; idempotency cache | register, unregister, load, reload; dedupe | replaced while in use; eviction |
| CLI, message schemas, observation, providers | no shared control state | — | — |

How they interact: the controller proposes Work to the responsibility kernel
(`propose`) and invokes capabilities through the runtime, which is the boundary.
The kernel's commitments become `Work`; a workflow runs it under a lease and
every effect it has goes through `RealityBoundary.execute`, which reads
qualification facts, governance and the registry, and writes the execution
records the recovery chain later reads. A Run is completed through
`CompletionAuthority` with proofs that the boundary's answers produced. Outcomes,
assertions and projections are records of the same store; recovery decisions cite
outcomes, and judgments cite projections through a historical use.

What makes each part correct:

- controller: one closure, one handoff; late results take nothing away; handed
  off work is closed only through its revision; it waits for a request only while the call
  is in flight, or after the call was cut off.
- kernel: the reported status is the last accepted one; nothing is committed
  outside its chain; the pool is not overcommitted; an inactive responsibility
  is quiet.
- governance: what is rebuilt from the journal is what the sidecar says; no state is
  applied on an outdated one; an event opens its reviews once; an allowed use is allowed
  by the journal at that moment.
- recovery: what the store acts upon rests on the earlier facts, also when a bundle brought
  or replaced some; a basis is applied once, only the provider the dispatch was committed to
  is asked again, and an application is completed once.
- runs: Work and Run are completed together, once, on passing proofs; the reply says what
  is stored.
- records: authority is spent once, a Revision is applied once, the lineage is determined,
  the journal agrees with the records, official knowledge is supported.
- experience: what is on record as relied on was sound, was what the caller saw, and is
  what every caller is told.
- boundary: no governed effect without a commitment made under the governance it
  was admitted on; no effect without a durable trace; no success without a
  durable projection and an unbroken lease; capacity is neither leaked nor
  invented.

## 2. Modules

| Module | Models | Proofs | TLC |
|---|---|---|---|
| `Controller` | `controller/service.py` for one controller id | `ControllerProofs` | `MCController` |
| `Responsibility` | `responsibility/service.py`, `domain.record_domain_assessment` | `ResponsibilityProofs` | `MCResponsibility` |
| `Lease` | one row of `runtime_leases` and `validate_fencing` | through `Boundary` | through `Boundary` |
| `Boundary` (extends `Lease`) | `RealityBoundary.execute`, `boundary_stages`, the reliability counters, the dispatch commit | `BoundaryProofs` | `MCBoundary` |
| `Governance` | reviews, decisions, applications, their journal and sidecar, outcome impact, use admission | `GovernanceProofs` | `MCGovernance` |
| `Recovery` | recovery observations, dispositions, applications and completions, the execution binding and repeatability contract captured at dispatch, the reconciliation consumer, verified outcomes | `RecoveryProofs` | `MCRecovery` |
| `RunControl` | workflow calls over one Work: the Runtime's run operations, the workflow context, the built-in workflows, completion, terminal commit, the reply of the endpoint | `RunControlProofs` | `MCRunControl` |
| `Authorization` | grants, typed requests, authorization uses | through `Records` | through `Records` |
| `Records` (extends `Authorization`) | assertions, Revisions, supersession, qualification, relations, projections and the graph validation of every write | `RecordsProofs` | `MCRecords` |
| `Experience` (extends `Records`) | use admission and historical uses on top of the record store | `ExperienceProofs` | `MCExperience` |
| `DurableFact` | abstract: a write-once fact with honest answers | the three refinements, in the proofs of the refining modules | refined by `Recovery`, `RunControl`, `Experience` |

Definitions whose comment begins with "Faulty" are plausible defects of the code
next to them. Nothing uses them; `PROJECT.json` pairs each with the property that
detects it when it replaces the real definition.

### Controller

`state` is the snapshot `get()` returns: the greatest `(version, updated_at)` of
the journal. Snapshots are stamped and appended in one synchronous step, so of two
snapshots with one version the one appended last wins (`Record`). A client holds
in `seen` the version it read while it thinks; `apply` requires it to be current
(`RequireCurrent`) and the status to admit the decision (`Allowed`).
`InvokeCapability` is the code up to the await, `ResultArrives` the continuation,
which derives the next snapshot from the one it *held*, whatever the journal has
become. `calls` is the set of those held snapshots; two calls that hold equal
snapshots would have equal continuations. `CallCutOff` is a call that ends without its
result: its task is cancelled in the await (`service.py:275` has no `try`, and the boundary
turns only an `Exception` into a result), or an append fails; the `waiting` snapshot stays in
the journal. `cutOff` is history: the snapshots of such calls and of those a crash ended.
`ReopenRequired` is the external signal
with no version check. `ProposeInterrupted` and `FormInterrupted` are the two
operations cut off between their writes; `Crash` is a crash anywhere else. `closing`
is history: the proposals for which a revision recommended `close`.

### Responsibility

Each kind of object is a function from identity to content, `None` until it is
journaled, as `_save_append_only` never changes an object. Kernel calls are
synchronous, one step each. A resource vector is compared and added component by
component, so one component represents it; amounts are whole numbers, and what is held is
the set of units of the live reservations (`Held`). `accepted` is history: the status set by
the transition accepted last, which is what an honest `current_status` must report
although it sorts by the stamps of the callers. `resolved` is the set of expectations with a
resolution. The code stores whatever `resolved_at` the caller gives and never reads it, so a
resolution has no time here: it counts from when it is recorded, and `resolvedFirst` is
history, the expectations resolved before any missing signal. The `now` that callers pass to
assessments and reservations is taken to be the time of the call. `Active` includes readability
because an unreadable history raises in every call that asks for the status.

### Lease and Boundary

A request's `pc` advances one phase per stretch of `execute()` between two awaits,
or between two reads of state that another thread or process may change. `basis` is
what the `AssessmentContext` and the admission captured, `claim` the lease copied by
`InvocationFactory.build`, `target` the provider selected and the incarnation that
`registry.get` returned. `Refuse` stands for every gate whose only effect is a typed
refusal (contract, effect, policy and its obligations, procedure, rate, cooldown,
exposure, blast radius, breaker, failure domains, precommit failure); it is possible
in every phase before records exist. A governance snapshot is a version number: a
change that is undone again gives a new version here, while the code compares digests of
content and accepts it (`governance/use_admission.py:181-217`), so the model refuses more
dispatches than the code, and what the code compares is the content, not the version. The
gates that the properties depend on are guards of `Admit`, `Assess`, `Precommitted`,
`Requalify` and `Dispatch`.
`SaveRecords`, `CancelRecords`, `Project` and `ReturnFenced` write the execution
records with the atomicity of the code: one transaction for side effects, best effort
for reads. `Cancel` is `CancelledError` at an await, which no handler catches.
`touched` and `overtaken` are history: requests whose provider was called, and
requests during whose provider call somebody acquired the lease. The lease is that of
the SQLite store, whose row survives release with its generation.

### Governance

`states`, `reviews`, `decisions` and `applications` are the four kinds of
`runtime_governance_records`; `lineage`, `opened`, `decided`, `applied` and
`processed` are the five kinds of canonical event, each keyed by its event id as
`append_event` does (an equal event is ignored, another one refused). Order matters
only between events that carry a state of one scheme, which `lineage` keeps.
`HistoryState` and `HistoryReviews` are `reconstruct_governance_history`. A
transaction is one action. What precedes it is not: `apply_state` and `discharge`
read states (`ReadStates`), then reviews (`ReadReviews`), then decisions,
applications and basis anchors together with the judgment (`AdmitState`,
`AdmitDischarge`), and commit later; `observe_change` and
`observe_outcome_confirmed` judge and project one affected scheme at a time
(`Project`) and commit all reviews at once (`CommitEvent`). Decisions and
applications are never changed or removed, so reading them in one step with the
judgment loses nothing. `record_decision` is one action because its transaction
repeats every check of the snapshot but authority. A use admission reads the journal
twice; a rebuild reads it before its transaction. `GiveUp` is every refusal,
exception and process death: the transaction rolls back and nothing is durable.
Left out: scope and partition (no operation changes them), authority (it only
refuses), the operation name of a decision (it must match the application's and
restricts nothing else), `superseded` (no operation sets it). `overlapped` is history: a
rebuild replaced the sidecar by a journal it had read before another commit.

Two behaviours the model shows and no property forbids: a review opened again by
`open_obligation` under an identity already discharged is open in the sidecar and
closed in the journal, because its event already exists; and a decision recorded
between a projection and its commit is not among the decisions the new review
invalidates.

### DurableFact

What `commit_recovery_application_observation`, `commit_terminal` and
`commit_historical_experience_use` have in common: under one identity at most one value
is recorded, and a caller that is told of a success is told the recorded value. Its two
variables are the facts and what each caller was last told. The three detailed modules
instantiate it: in `Recovery` the key is the application and the value the reported
status; in `RunControl` the one key is the completion of the Work, the value the Run and
its proofs, and a call was told when its cached Run is `succeeded`; in `Experience` the
key is the judgment and the value what it relies on.

### Recovery

The dispatches are successive attempts of one Step. `Precommit` rewrites
`Step.effect_semantics` (`stepSem`) as `precommit_execution_records` does; `Dispatch`
captures the binding of the live registration and, for a repeat-safe contract only, the
authority to ask again. Evidence (`proofs`) may be rewritten after an Outcome was
confirmed from it, which makes the Outcome stop replaying. Facts are represented by
the content their digests cover. `CommitDisposition` is parameterised by the policy's
answer, any of `Decisions`; a replay of an existing disposition changes nothing and is a
stutter.

A bundle import writes an event over a stored one with the same identity. It refuses an
Outcome that does not replay (`ImportOutcome`), every `RecoveryApplicationRecorded`, an
observation about an application, and a dispatch that carries an execution binding. The
rest comes in unchecked: a dispatch without a binding (`ImportDispatch`), an observation, of any
dispatch, over the one of its instance (`ImportObservation`), and a disposition, whatever
it claims, in the place of the one its basis had (`ImportDisposition`, from the set
`Bundled`). `bundled` and `rewritten` are history: the bases and the instances so written.
What the store has applied is not undone, but `commit_recovery_application` refuses a basis
whose application is on record with other semantics (`Rebound`). Bundles are taken to be
exports, whose events carry the identity their kind prescribes; `Step.reversibility`, which
the basis also cites, is set once and the same for every basis of the one Step.

`consume()` is the chain `Consume`, `ResolveTarget`, `AskProvider`,
`ProviderAnswers`, `CommitCompletion`: the application and the registry are read again
at each of them, the provider object in hand is not. `ForeignAnswer`, `CommitFails` and
`Crash` end it without a durable fact. `calls` is history.

### RunControl

One Work and two workflow calls, each with a Run of its own. `pc` ends a step where the
call awaits a provider or reads the store again. `cached` is the status of the context's
copy of the Run, against which `transition_run` validates before it saves the copy over
whatever is stored (`TransitionRun`, `SaveRun`). Operators cancel, interrupt, resume and
cancel the Work in two steps, read and write. Each capability may report any status; each
proof write may be lost in the way its workflow handles it: an incident stops at the
first failure, a scan swallows it. `Authorize` is `CompletionAuthority.authorize`,
`CommitTerminal` the store's transaction, which validates proofs and terminal pairs
again. `Settle` (the Run is read), `SettleRun` (the cached copy is written), `Reread`,
`Conclude` (the Work is read) and `SettleWork` are what `run_workflow` does after the
workflow returned; nothing is awaited between them, but another process may write.

### Authorization and Records

The store is one record `db`: assertions, Revisions, grants, uses, relations, projections
and the journal of qualification transitions. Every write that the code validates builds
a candidate store and is accepted when `ValidGraph` holds of it. Callers hold the copies
they read (`op`), so that two callers apply and supersede opposite Revisions, edit and
requalify the same assertion, import a stale copy, or promote a projection listed
earlier. `apply_revision` is four steps (`ApplyStart`, `ApplyMaterialize`,
`ApplyAuthorize`, `ApplyCommit`), `supersede` two. The write gates differ between an
assertion (content only under a later version and a Revision or use for the exact version
replaced) and a Revision (first application only from `proposed`, with its own proof).
The edits of an honest caller follow the lifecycle machine (`AdvanceFact`,
`AdvanceRevision`), although `save_record` would accept any other change of status that its
graph rules allow. An import brings a record (`ImportFact`); that a bundle may also carry
qualification events and grants, and replace stored ones of the same id, is left out.
`SqliteBackend` selects the store where the two differ; the runs use the memory store.
`spent` and `rewound` are history, computed in one place (`History`): the uses some change
of content rested on, and the assertions whose stored version was set back by a write with
equal content. `UseSpentOnce` and `JournalMatches` speak of assertions that were never set
back; see "Further deviations" for the others.

### Experience

`Evaluate` is the verdict of `ExperienceUseAdmissionEvaluator` for a requirement over one
coherent export; `UseSnapshot` is everything the verdict was taken from, which is what
both digests cover. `CommitUse` is one transaction: a replay when the judgment already
has its event, otherwise the re-evaluation, the comparison with the snapshot the caller
holds, the write of the judgment and its event, and at the end the check of the whole
graph of historical uses. A caller keeps its request after a success, which is the lost
answer and the retry. `PostEdge` posts contradictions and demands for revalidation.

## 3. What TLC checks

Every action of every specification fires in the passing runs.

| Run | Bounds | Shows |
|---|---|---|
| `controller` | 2 clients, 2 closure ids, 1 capability, 2 effect classes, versions up to 6, 2 proposals, 1 crash; 0.67 M states | one handoff and one proposal per closure, proposals within their closure, handed off work closed only by its revision, a closure dropped only by reopen, a version names one snapshot (with one exception, see below); a controller waits for a request only while the call is in flight or was cut off |
| `responsibility` | 1 responsibility, 1 expectation, 1 domain assessment, 1 proposal, 2 reservations, 1 commitment, capacity 3, request 2, clock 0..1, 2 versions, 3 judgments; 0.63 M states | an honest status, no overcommitted pool, commitments with their chain, no missing signal after a resolution, quiet while inactive |
| `boundary` | a governed side effect and a governed read, both citing their grant; 1 provider, 2 workers, 2 lease generations, ttl 1, 3 changes of the world; 1.2 M states | dispatch, recording, accounting and durability, also where the records are best effort; two workers never both pass the fence; a cited grant holds at the last gate |
| `governance` | 2 workers, 1 scheme, 1 context, an outcome and a manual review, 1 decision, 2 applications, 2 dispositions, 2 rulings, 2 moves, 1 change of each basis; 1.6 M states | sidecar and journal agree, states form a chain, events are processed once under their durable disposition, discharges are backed, allowed uses are current |
| `recovery` | 2 dispatches (1 examined, 1 keyed), 2 bindings, 1 repeat-safe and 1 other contract, 1 observation instance, 1 policy with 2 answers, 2 statuses, 2 results, 2 consumers, 2 dispositions, 2 that a bundle may bring, 1 fault; 0.86 M states up to symmetry | lineage of every fact the store acts upon, one application per basis, only the exact historical target asked; completion refines `DurableFact` |
| `run_control` | 2 calls, all four workflow kinds, 5 statuses, 1 operator call, 1 fault; 1.0 M states | completion is paired, proven and write-once (refines `DurableFact`); replies are honest |
| `records` | 2 assertions, 2 opposite Revisions, 3 grants, 1 projection, 2 callers with different roles, versions up to 3, clock 0..1, 3 operations, 2 uses; 0.27 M states | the discipline of section 1 |
| `experience` | an assertion, a judgment, a negative fact, 2 grants (one revocable), 1 projection, 2 callers, clock 0..1, 4 operations; 0.20 M states | soundness and exactness of what is recorded; reliance refines `DurableFact` |
| `boundary_limits` | as `boundary`, with two side effects | violated: the reliability limits are exceeded by two calls past the gate together |
| `run_control_cancel` | incident only | violated: a cancelled Run is running again |
| `records_expiry` | clock 0..2, 1 operation | violated: after the grant of an official projection expires the store fails its own validation |
| `experience_history` | 2 judgments, 1 Revision | violated: a superseded judgment makes the graph of historical uses invalid |

Why the bounds are enough. Controller: six versions let a late result, held since
version 1, meet every later phase (reopened, closure formed, handed off, revised,
reopened again); two clients are enough for every race on one version; two closure ids
allow reuse of one. Responsibility: two clock values give every order of two stamps; a
request of 2 in a pool of 3 makes a second reservation fit only after the first ended;
two versions make every object stale. Boundary: three changes allow, for instance,
acquire, expiry and takeover during one provider call, or unregister, register and a
governance change. Governance: two workers give every race of two commits; two
applications race on one state, or apply and then discharge; two reviews let one outlive
what was decided on the other. Recovery: two attempts with different semantics make a
fact of one available to be confused with the other; two consumers with two possible
answers disagree on one completion; one fault is one crash, or one replacement of the
provider between two reads, or one fact that a bundle brings or replaces; two dispositions
are two bases of one dispatch or of both.
RunControl: two calls race for one Work, and each obligation may be met, lost, revised or
answered negatively; one operator call with a stale read overlaps any step of either.
Records: three versions are a creation, a change and one more after a stale copy; opposite
Revisions are the smallest cycle; three operations are both applications and one more, and
creating records, uses and relations is not counted among them.
Experience: two callers, one of them a retry, and one change between evaluation and
commit. The proofs remove the bounds for the properties they cover. Deadlock is not
checked: with the counters at their bounds and every call finished, each model stops.

No run checks a liveness property: a provider is awaited without a timeout
(`core/boundary.py:1083`) and may never answer, and a cancelled await leaves its caller as
it was, so nothing that waits for a provider is promised an end. Fairness is assumed in one
place. `Spec` of `RunControl` is weakly fair to `LocalStep`, the steps a workflow call takes
between its awaits: the event loop resumes it unless its process dies, which is `Crash`. Answers of
providers, starting a call, operators, revisions of proofs and crashes are not fair. The step
that violates `run_control_cancel` is one that fairness makes the call take.

The runs that end in a violation are described, with quotations, under `findings`.

### Further deviations

Read from the models while they were built; no run is kept for them.

- A capability result that arrives after `reopen_required` derives its snapshot from the
  `waiting` one it held; equal in version and newer, it wins in `get()`, and the
  controller is open without a `reopen` decision (`controller/service.py:289`;
  `contracts/semantics/core/revision-control-v1.md:74` says only an explicit later
  `reopen` does that). `ResultArrives` reaches it; `VersionNamesSnapshot` states, and
  `VersionStable` proves, that this is the only case in which a version changes its
  snapshot, and that no closure or proposal is involved.
- After a capability call was cancelled, or an append failed, the controller stays `waiting`
  for a request that nobody will answer, and only an explicit signal and `reopen` lead out
  (`controller/service.py:275`). `CallCutOff` reaches it; `RequestIsHeld` states that a
  controller waits with no call in flight for no other reason.
- A signal that was missing stays on record after it arrived: the assessment is not revised by
  a late resolution, and work may still be proposed from it
  (`responsibility/service.py:193`). `MissedWhileOpen` is about the order of recording.
- An import replaces recovery dispositions and observations without a check
  (`stores/memory.py:709`, `stores/sqlite.py:1147`). An application may then disagree with
  the disposition now on record for its basis, or cite an observation that has become one of
  another dispatch. `RecoveryLineage` delimits this by `bundled` and `rewritten`.
- A crash between saving a WorkProposal and appending the snapshot lets the restarted
  controller propose again from the same closure under a new id
  (`controller/service.py:397`, against README.md:164). `ProposeInterrupted` reaches it;
  `OneProposalPerClosure` is therefore about recorded handoffs.
- `materialize_work` re-checks nothing: a commitment becomes Work after its
  responsibility was suspended or revised or its reservation ended
  (`responsibility/service.py:408`, against `persistent-responsibility-v1.md:103`).
- `refresh_matches` re-reads what a request cites by reference; a grant found by listing
  is not read again before the reality exit (`core/boundary.py:869`). `CitedGrantHolds` is
  about the cited case.
- `commit_state_application` does not look at open reviews again, so an application
  commits under a decision that a review opened after its snapshot invalidates
  (`governance/persistence.py:495`, against `distinction-governance-v1.md:44`).
- The recovery mode of a dispatch is derived from the semantics its Step has now, which a
  later attempt at another provider has rewritten (`governance/dispatch.py:171`;
  `docs/governance-dispatch-linearization.md:133` speaks of the committed attempt). In
  `Recovery` the basis records the mode it was decided under, and a disposition whose
  Step has changed no longer reconstructs.
- An assertion written with equal content is accepted under any version
  (`protocol/validation.py:1329`), so importing a held copy sets the stored version back.
  Afterwards an old journal entry, or a use already spent on that version, justifies a
  second change: after three transitions of one record (versions 2, 3 and 4) the copies of
  versions 2 and 3 can be imported one after the other, and the status then changes without
  a transition that says so, against the comment at
  `records/qualification_transition.py:121` ("so audit and current state cannot diverge").
  Found when the inductive step of the invariant behind `JournalMatches` failed; `rewound`
  delimits it.

## 4. What is proved

For all values of the constants that satisfy the named assumptions. They say that `None`
is no element of the sets it stands outside of, that bounds are naturals, and how the
constant tables are typed; beyond that, that the set of requests (`BoundaryAssumption`) and
the schemes, decisions and applications (`GovernanceAssumption`) are finite, that manual,
change and outcome reviews have distinct causes, that safe and other contracts are disjoint
(`RecoveryAssumption`), that a Revision does not replace a record by itself and a
projection under refutation is not promotable (`RecordsAssumption`), and that the negative
facts and versions a projection is asked about are among its citations
(`ExperienceAssumption`). The others are `ConstantsAssumption`, `ResponsibilityAssumption`,
`NoneIsNoObject`, `LeaseAssumption`, `RecordAssumption` and `RunControlAssumption`. Every
one is evaluated by TLC in the run of its module.

In each module the properties alone are not inductive; the invariant adds what the
participants remember, and why what they remember is still of use.

**ControllerProofs.** `IInv` adds to the properties where a held snapshot can stand
relative to the current one: it is a closure-free waiting snapshot (`CallShape`), at
most as new as the journal, identical if equally new, and one version behind only while
the current snapshot has no closure (`CallAge`); two held snapshots are at least two
versions apart (`CallsApart`). So the only snapshots a late result can outrank are
closure-free. `RefsResolve` and `ProposalsBehind` tie closures and proposals to
versions. Without the clauses on held snapshots the step `ResultArrives` would break
every property. For `VersionNamesSnapshot` a second invariant is proved on top of `IInv`:
one version after a call in flight the controller is bare, that is open or
reopen-required without references (`LateWins`), because in a snapshot that a call holds
`_require_current` admits only `reopen`. `RequestIsHeld` needs `IInv` too: a result or a
second call must not leave the controller with the request of a call that has ended, and the
snapshots still held say that it does not. It distinguishes the calls in flight from those that
were cut off, so it holds through cancellations and crashes.
Theorems: `TypeCorrect`, `HandoffExclusive`, `OneProposal`, `WithinClosure`,
`ClosedByRevision`, `ClosureKept`, `VersionStable`, `RequestHasItsCall`.

**ResponsibilityProofs.** `RInv` adds that stamps identify transitions
(`LifecycleStamps`), that a proposal's assessment and a reservation's proposal exist and
agree with it (`ProposalLineage`, `ReservationLineage`), and that a missing-signal
assessment belongs to an expectation past its due time (`MissingIsDue`) that nobody had
resolved when it was made (`MissedOpen`). Lifecycle: a
transition inserted before the end of a contiguous history breaks its contiguity,
because the entry after it started where the inserted one starts and a transition always
changes the status; so a readable history ends with the transition accepted last.
Lineage: objects are never overwritten, so what was checked when an object was recorded
still holds when a later one cites it. The pool: time and release only take units out of
the set held, and `reserve` adds as many as the proposal asks for, which is at most what is
left (`PoolFits`, with cardinality facts from `FiniteSetTheorems`).
Theorems: `KernelTypes`, `HonestLifecycle`, `Lineage`, `MissingWasMissing`,
`PoolNeverOvercommitted`, `QuietWhileInactive`.

**BoundaryProofs.** `BInv` has one named conjunct per concern: `Routed` (a selected
provider exists from routing on), `Answered`, `TouchedLate` (a provider is touched only
from `invoking` on), `Recorded` and `Unbound` (records and their dispatch metadata
exist from precommit on), `Committed` (a governed request past the dispatch holds a
commitment on its snapshot), `Refused`, `Overtaken` (a fence that still holds means no
acquisition since admission), `Captured` and `Granted` (what was captured is true while
versions agree). `AccountingBalanced` is inductive with the types and rests on
cardinality facts from `FiniteSetTheorems`. Each conjunct has a lemma with one step per
action. Fencing has an invariant of its own, `ClaimsOrdered`: a claim is no younger than
the lease, and a generation has one owner, in the row and in every claim, also after the
row was released; so claims that pass together belong to one worker.
Theorems: `BoundaryTypes`, `Linearized`, `Recording`, `Accounting`, `Durable`,
`CitedGrant`, `OneWorker`.

**GovernanceProofs.** `IInv` adds `HasBest` (a history that is not empty has a latest
state), `SidecarBehind` (the sidecar holds nothing the journal does not) and `JobFacts`,
what a worker between its reads and its commit may rely on: the reviews prepared for an
event carry that event's judgments; an admitted discharge is backed by decisions and
applications that are never removed; a rebuild or a use admission saw a journal that is no
longer than the present one, and if the lengths agree, it saw the present one. The last
fact is what the comparison of two reads rests on, and it holds because the journal only
grows. `HasBest` is needed because the reconstruction chooses the greatest version, not
the last event; that they are the same follows from `StatesFormChain`, which in turn needs
the sidecar's state to be the reconstructed one.
Theorems: `GovernanceTypes`, `ProjectionIsRebuildable`, `ChainHolds`,
`EventsProcessedOnce`, `DispositionsAreDurable`, `DischargesAreBacked`, `AllowedUses`.

**RecoveryProofs.** `IInv` adds `StepKnown` (an attempt that was precommitted gave the
Step its semantics), `ConsumerKnows` (the job of a busy consumer is a recorded
reconciliation application, the target it resolved is the binding of that application's
dispatch, and its question is on record once asked) and `CallsBacked` (a question was asked
for a recorded application). A committed dispatch keeps its binding for ever, so what a
consumer resolved stays right while the registry changes under it: an import brings
dispatches without a binding only, which no consumer resolves. `RecoveryLineage` is
inductive with these although imports may write any disposition, because an application is
committed from a source that reconstructs from the store's own facts (`Grounded`), and these
facts are never removed, only an observation replaced. That a basis is applied once rests on two
checks, one disposition per basis and the refusal of a rebound application: without the
second, a disposition replaced by a bundle would be applied beside the first.
Theorems: `RecoveryTypes`, `LineageHolds`, `OneApplication`, `OnlyExactTarget`, and
`CompletionRefines`, the refinement of `DurableFact`.

**RunControlProofs.** `IInv` adds `Graph` (the stored Work, Runs and proofs satisfy the
store's own gate), `CallFacts` (a Run is stored once its call began, a succeeded one belongs
to a call past its commit, what `run_workflow` read of a Run is still true of its success
when it concludes), `BeliefFacts` (a call that takes its Run for succeeded committed
it, with the proofs it holds), `OperatorFacts` (an operator writes only Runs that started
and never `succeeded`) and `ProofFacts` (a stored proof is about an obligation of the Work).
The gate is not enough by itself: starting a Run and saving a proof do not pass it, and are
harmless only because of where a call stands when it does so.
Theorems: `RunControlTypes`, `CompletionIsBacked`, `RepliesAreHonest`, and
`CompletionLinearizes`, the refinement of `DurableFact`.

**RecordsProofs.** The argument goes through one relation between stores, `StoreStep`: how
each assertion and each Revision may differ before and after a write (`FactStep`,
`RevisionStep`), together with what only ever grows. One lemma per kind of write shows that
it is a `StoreStep` to a well-typed store that passed the graph gate; one lemma per property
shows that it survives any `StoreStep`. `IInv` consists of the types (`StoreOK`, with
what each caller holds in `OperationsOK`), `JournalBehind` and `JournalAgrees` (no entry is
newer than its record, and the last one states its status), `SpentBehind` (a spent use
names a version its record has left) and `Consistent` (the rules of the graph gate
that do not depend on the time). Lineage and support are not local to a record: they hold
because the gate is evaluated on the whole candidate.
Theorems: `RecordsTypes`, `JournalTellsTheStatus`, `LineageIsDetermined`,
`OfficialRestsOnSupport`, `RevisionAppliedOnce`, `UsesAreSpentOnce`.

**ExperienceProofs.** `UInv` is the invariant of `Records` with: a judgment has at most one
use on record, which is of its first version (`UsesOK`); a caller holds a request of the
known shape (`ReliesOK`); what a caller was told is on record (`ToldOK`); and every use on
record is sound for the snapshot it carries (`AllSound`). The steps of `Records` are steps
here too, so its invariant carries over. A verdict may be arbitrarily old: `CommitUse`
evaluates again and compares snapshots, and the proof shows that equal snapshots mean that
what is recorded is what was evaluated.
Theorems: `ExperienceTypes`, `RelianceIsSound`, `RecordedAsEvaluated`, and
`ReliancesRefine`, the refinement of `DurableFact`.

The type invariants have no run of their own, except that of `Experience`, which contains
the one of `Records`: they are established by proof alone, as are the other inductive
invariants.

Only model-checked: the four properties whose runs end in a violation. Every other property of a
run is a theorem. The refinements of `DurableFact` are safety: the abstract specification
has no fairness. That `Used` of `Responsibility`, which counts units, is the sum that
`available_resources` accumulates is an assumption of `MCResponsibility` that TLC
evaluates for small sets of reservations: a sum over a set needs induction over data.

## 5. What is not modelled, and why

- Observation and inspection evaluate recorded transitions without writing any.
- Triggers: a bounded idempotency cache in front of the endpoints; it shares no state with
  the rest.
- Plugins, public contracts, interfaces, deployment: loading, declarations and process
  glue. What a plugin registers is the registry's.
- Providers are environment: any status, an exception, or no answer.
- Imports of Steps, attempts and actions over existing ones, and of qualification events and
  grants: `Recovery` and `Records` import the facts their own properties are about.
- Controller plugins and the handoff envelope are a lookup table and a frozen object.
- Sessions, context snapshots and handoffs of the responsibility kernel are appended
  objects that no operation of the modelled chain reads.
- The circuit breaker, rate, cooldown, exposure and blast radius appear in `Boundary` as
  refusals; how the breaker opens and closes does not.
- `_execute_legacy` is unreachable, `records/reopen.py` is retired and only raises, and
  `reconcile()` of the Runtime returns a provider's report.
- Rule tables of contracts and policies, relation types, message schemas, ranking of
  candidates, `workflows/procedure.py` and `invocation_specification.py`: data without
  control state. A digest is the content it stands for.
- Store listing, bundle files, artifacts and schema migration: I/O.

## 6. What is left

- Liveness of workflow calls: that a call whose providers have answered comes to an end is
  not checked; the instance of the run is too large without symmetry, under which TLC
  checks safety only.
- The circuit breaker of the reliability controls, and Triggers, as components of their
  own.
- The deviations of section 3 become properties to prove once the code rules them out: the
  natural statements are `WithinLimits`, `TerminalRunStays`, `GraphStaysValid` and
  `HistoryReconstructs`, and for the controller `VersionNamesSnapshot` without its
  exception.
