# provider-sentry: specifications and proofs

A verification project for the Sentry error-tracking provider: TLA+ modules of
its control, TLC runs on small instances, and theorems checked by TLAPS.
Paths such as `observe.go` are under `internal/provider/`.

## 1. The system

The provider is a plugin that a host runs.  It never opens a socket: it hands
the host admitted requests (`ExecuteRequest`) and proposals (`ProposeOutput`)
and receives answers filtered by the packaged response policy.  It keeps no
state of its own between calls.  What persists is the host's: the binding's
desired input, the latest observation, the plan made from it, the committed
output generation.

    host ──Observe(cursor)──▶ provider ──project.retrieve, client-key.list──▶ host ──▶ Sentry
    host ──Plan(desired, observation, target)──▶ provider          (offline)
    host ──ApplyAction(plan, action)──▶ provider ──ProposeOutput──▶ host
    host ──Doctor──▶ provider ──the same two reads──▶ host ──▶ Sentry

| Component | State and operations | What is hard | What makes it correct |
| --- | --- | --- | --- |
| Read classification (`errors.go`, `observe.go` `read`) | none; one answer to one outcome | refusals, redirects, 429, 5xx and 4xx must be told apart | an outcome that is not known is never reported as one that is |
| Client-key selection (`observe.go` `selectClientKey`) | none; a list and an explicit id to an outcome | lists that are incomplete, reordered, or repeat an id | never `array[0]`; a verdict drawn early survives later pages |
| Regrouping (`request.go` `clientKeysFromResponse`) | a map built while ranging over a map | the order Go leaves open, missing fields, numeric indices | the list is Sentry's, in its order |
| `Observe` | one call: two reads, then an observation | the remote changes between the reads; either may fail | incomplete if and only if a read is uncertain; resumable; backs off |
| `Plan` | none; offline | the observation is older than the desired input and the remote | projects only what was confirmed; concludes only what was read |
| `ApplyAction` | the host's provider state, through its caller | a commit whose reply is lost, a stale prior state, an action of another plan | commits only what the bound plan carries; never loses a generation |
| `Doctor` | none | the two reads straddle changes; other early returns than Observe | agrees with Plan on what is healthy |
| Validation (`validate.go`, `inputs.go`, `origin.go`) | none | text rules at their boundaries | what is admitted is a public DSN and a bounded origin |
| Server, process start, packaging (`server.go`, `main.go`, `cmd/package`) | files on disk, then a fixed identity | a crash between the three writes | a mismatched layout never starts |
| Catalog, `UpgradeState`, `RateLimit` | none | little | see section 8 |

Calls share no state, so one `Observe` at a time stands for any number, and so
for `Doctor` and `ApplyAction`.  What two calls do share is the host's: the
ledger of answered requests (`RequestIdentity`) and the fence of the outputs
(`ApplyHandler`).

## 2. Modules

| Module | Models | Extends |
| --- | --- | --- |
| `SentryRead` | `ClassifySentryError`, `read`, diagnostics and their codes | |
| `ClientKeySelection` | `selectClientKey`, `exhaustivenessDependent` | |
| `PageReading` | selection over a list that arrives key by key | `ClientKeySelection` |
| `KeyListResponse` | the `client_key_list` response policy; regrouping as a function | `ClientKeySelection` |
| `RegroupLoop` | regrouping as the loop of the code | `KeyListResponse` |
| `Observation` | the observation's resources, as Observe writes and Plan reads them | `ClientKeySelection` |
| `ErrorTrackingPlan` | `Plan`: parse, validate, gate, runtime and build contracts | `Observation`, `SentryRead` |
| `SentryRemote` | external: Sentry's projects and keys, people who change them, the answers to the two reads | `Observation`, `KeyListResponse`, `SentryRead` |
| `ObserveHandler` | `Observe` against that remote | `SentryRemote`, `ErrorTrackingPlan`, `ProviderServer` |
| `ProviderServer` | what the broker-driven handlers share: the injected host, the admitted context, the ways to return | |
| `Reconcile` | the host's loop over Observe and Plan | `ObserveHandler` |
| `ApplyHandler` | `ApplyAction`, and the host that commits what it proposes | `ErrorTrackingPlan`, `ProviderServer` |
| `ApplyRetries` | a host that applies given plans again and again | `ApplyHandler` |
| `ProviderLoop` | the whole: observe, plan, apply | `Reconcile`, `ApplyHandler` |
| `ProjectionContract` | abstract: what is promised of each committed output | `ErrorTrackingPlan` |
| `DoctorHandler` | `Doctor` against the changing remote | `SentryRemote`, `ErrorTrackingPlan`, `ProviderServer` |
| `RequestIdentity` | `buildExecuteRequest`, `callbackID`, and the host's ledger | `Observation`, `SentryRead` |
| `InputValidation` | `parseInputs`, `parseOrigin`, `validateInputs`, `Validate` | `ErrorTrackingPlan` |
| `BindingChecks` | the host that validates a raw input and has `Doctor` look into it | `InputValidation`, `DoctorHandler` |
| `ArtifactStart` | `cmd/package`, the host's installation, `main` and `NewServer` | |
| `SharedProofs` | lemmas about selection, responses, the remote and the planner | `SentryRemote`, `ErrorTrackingPlan` |
| `PageReadingProofs` | theorems about lists that grow | `PageReading`, `SharedProofs` |
| `RegroupLoopProofs` | theorems about the loop | `RegroupLoop`, `SharedProofs` |
| `ReconcileProofs` | theorems about Observe, the loop and the whole, each part resting on the one before | `ProviderLoop`, `SharedProofs` |
| `ApplyProofs` | theorems about the application of plans | `ApplyRetries` |
| `RequestProofs` | theorems about request ids and the ledger | `RequestIdentity` |
| `ArtifactProofs` | theorems about layouts and identities | `ArtifactStart` |
| `ChecksProofs` | theorems about validation and Doctor | `BindingChecks`, `SharedProofs` |
| `MC*` | instances for TLC | |

How the state corresponds to the code:

- `ObserveHandler.call` holds the locals of `Observe` (`in`, the request's
  cursor, the resources so far, `complete`, the diagnostics and `retryAfter`);
  its `pc` is where the call waits for the host.  `Observe`, `ReadProject` and
  `ReadKeys` are the three stretches of code between those points; every early
  return is a disjunct of one of them (`Fail`).
- `hosted` is whether `WithHost` was given, `admitted` whether
  `buildExecuteRequest` finds the `api` origin and the management handle.  The
  binary started by `main.go` passes no host, so `hosted = FALSE` is a state
  the program is in.
- `observation` and `volatile` are what the host holds of the latest successful
  `Observe`.  `read` is a history variable, of what that observation was read
  from; no action's guard mentions it.
- `Reconcile.plan` is what the host holds of the latest `Plan`.  A plan is made
  from the *current* desired input and the *held* observation, as `PlanRequest`
  carries both separately.
- `ApplyHandler.apply` is a call to `ApplyAction` between its start and
  `ProposeOutput`, and between that and its return; `held` is the `ProviderState`
  the host threads through, `outputs` what the host has committed of each
  contract.  `committed` is a history of every commit.
- `DoctorHandler.doctor` holds the locals of `Doctor`, `report` its response;
  `heard`, a history, is what the call was answered.
- `RequestIdentity.ledger` holds the requests the host executed, by id; a call's
  `delivered` is the answer it was just given with, as history, the read that
  answer was produced for.
- `ArtifactStart.dist` is the layout directory, `packaging` a run of the tool
  with what it read so far, `server` the process last started.  `Write` opens
  (and truncates) a file in one step and fills it in another.
- `RegroupLoop.byIndex` is the map of the code, `visited` the selectors the
  range loop has already yielded.

Data is abstracted to what the properties tell apart.  A slug pair is one
address.  A text is a model value, and `""` is Go's zero string, a value in its
own right: an unset option, a field the policy did not forward.  A selector is a
pair of an index and a suffix.  A digest is the content it is the digest of.
An origin or a DSN is the components its rules look at, the slashes at its end
and whether space surrounds it; a host is its name and whether letters of it are
capitals.  The empty text has no component, and a blank one is an empty one with
space around it.  Each conversion of the code takes away what it takes away
there (`Trimmed`, `TrimRight`, `Lowered`, `ParsePattern`), and each rule trips
over what is left: a URL with space around it does not parse, a slash after a
host is a path, a host in capitals is not in the table.
Wording, plan ids and a plan's digests are left out.

The SDK decides which proposals become actions (`sdk.NewProjectOutputAction`),
and its code is not in the repository: `SDKAccepts(target, values)` is a constant
operator, about which nothing is assumed but that a proposal of generation zero is
refused (`ProposalAccepted`), which the planner itself tests for only of a runtime
target (`plan.go:204`).

The mutants (operators introduced by "Mutant:") are the faults used to show
that a property can fail; no specification uses them.

## 3. Runs

| Run | Instance | Shows |
| --- | --- | --- |
| `page_reading` | 2 ids, 1 DSN, lists up to 3 keys, every prefix | `VerdictStable`, `HeldBackVerdictsOverturnable`, `OrderIrrelevant` |
| `regroup` | 6 kinds of element, lists up to 3, every iteration order | `EntriesOfVisited`, `OrderIndependent`, `KeysMirrorBody` |
| `reconcile` | 2 addresses, 2 projects, 4 keys, two keys per page, 5 inputs, 5 targets, of one of which the SDK refuses every proposal, 2 changes, 2 failures | of Observe: `PageReachesHost`, `UncertainIsIncomplete`, `BackOffIffRateLimited`; of Plan: `UncertainNeverDefinitive`, `ProjectionSound`, `VerdictsTrue`, `PlansExplainThemselves` |
| `reconcile_live` | 2 inputs, 1 target, 1 change, 1 failure, fairness | `PlansSettle` |
| `apply` | 5 plans of up to 2 actions, 3 actions handed besides, generations 1..3, 2 mishaps, fairness | `ReceiptsAreOfCommits`, `StateRecordsOneCommit`, `OutputsAreAuthored`, `RecordedGenerationNeverFalls`, `CommitsAreRecorded` |
| `provider` | the remote of `reconcile`, a binding per address, both contracts, 2 generations, a forged action, 1 change, 1 failure, 1 mishap | `ContractKept`, the refinement |
| `checks` | every origin and DSN, padded or not, with up to 2 trailing slashes, the hosts in capitals or not, and the other inputs in every combination; for 6 of these inputs Doctor, against the remote of `reconcile`, with 4 failing statuses, 2 changes, 2 failures | `SpellingIsImmaterial`, `FieldsAreJudgedApart`; `HealthyIffPlannable`, `WarningMeansUnknown`, `HealthyIsTrue` |
| `request` | 2 attempts, 5 contexts, 2 manifests, 2 addresses, 2 failures, 1 lost call, fairness | `AnswerIsOwn`, `ReadOnce`, `WithinAdmission`, `ObservationCompletes` |
| `artifact` | 5 manifests, 2 revisions, 1 edit, 1 crash, fairness | `IdentityIsOwn`, `CheckoutIsServed` |
| `unread_page`, `denied_keys`, `restart_cursor` | as `reconcile`, with 2 inputs and 1 target | the divergences of section 6 |

Each run of safety properties but `provider` also checks one type invariant, of
all it composes; the modules of `provider` have theirs in the runs before.

Bounds, and why they suffice:

- Lists of up to three keys hold none, one, several active keys, repeated ids
  and each with a further key to come; the proofs remove this bound.
- `PageSize` is 2: the first project's two keys fill a page, so a third key that
  is created falls on the second.  The proofs remove this bound.
- `MaxChanges` = 2 lets something change before and between the reads, or move
  an address and edit the input to it; `MaxFaults` = 2 lets both reads of a call
  fail, or the same read twice.  In `reconcile_live` one of each is enough to
  leave a wrong or partial observation behind, from which the loop must recover.
  Observe itself only ever issues the cursors `""` and `"restart"`, so the loop
  resumes from these two and never from a cursor of Sentry's; the theorems about
  `ObserveSpec` are about hosts that pass those as well (`HostCursors`).
- The second runtime target of `reconcile` is there for the SDK's refusal: its
  plans select a key and project nothing, and so are plans for a build target of
  generation zero.  In the other runs the SDK accepts everything, since what it
  refuses never gets that far.
- The failing statuses are one each of a redirect, a definitive denial, a rate
  limit and a server error; 404 and 400 are answers of the remote itself.
- In `apply` two plans of one contract with successive generations and other
  values are the least in which an older proposal can follow a newer one; the
  host may number an output one above the generation proposed (`MaxSkip`), so
  that what is recorded differs from what was asked.  Two mishaps: a call is given
  up and, once another has run, its proposal or a reply is lost again.  The
  theorems of `ApplyProofs` remove these bounds.
- In `provider` one change, one failure and one mishap give every order of an
  edit or a remote change with respect to the three calls; two generations let
  an output be replaced.  `MCServing` restricts it to a server with a host and to
  a binding without state, as the runs of the handlers cover the others.  The
  two bindings differ in their environment, so that an output tells which of
  them it is made of.
- In `request` a second attempt starts from the cursor of the first, so that
  within one run the same descriptor is read with and without a cursor, in one
  attempt and in another, by either handler.  `ObservationCompletes` is about the
  behaviours with an attempt for each failure and one more: one failure here.
- In `checks` Doctor sees six of the inputs: with and without an explicit key, a
  padded one whose key has no DSN, a self-hosted origin, a rejected slug and an
  input that looks secret.  For the thousands of others there is one remote, which
  stays as it is (`OneRemote`).  That `SpellingIsImmaterial` depends on each of
  the four conversions was tried: without the trimming of origin and DSN, of the
  other inputs, of the slashes or the lowering of the host, this run fails.
- In `artifact` one edit is enough to fall between any two of build, the two
  reads, the three writes, the host's copies and the start, and one crash to
  leave any prefix of the writes behind.

Deadlock is checked everywhere but where the system stops: the list or the map
ends (`page_reading`, `regroup`), an input was judged (`checks`), the attempts
are used up (`request`), everything is installed and served (`artifact`).

## 4. Fairness

`FairSpec` is about the host, for the provider never acts unasked: the host
answers each callback (weak fairness of `AnswerProjectRead` and
`AnswerKeyRead`; the answer may be a failure), calls `Observe` again after a
call has ended (weak), and calls `Plan` if it can again and again between calls
(strong, since each call to `Observe` interrupts it).  Remote changes, edits and
failures are not fair: the bounds end them, which is the "once failures and
changes stop" of `PlansSettle`.  The property holds for a host that resumes from
the next cursor, including `"restart"`, and for a Sentry that either rejects a
cursor it did not issue or lists from the start.

`ApplyRetries.FairSpec`: the host answers proposals and the provider finishes its
calls (weak), and a commit that the state does not record is retried if it can
be again and again (strong, per contract, as calls for the other contract come
in between).
`RequestIdentity.Fairness` is that the host opens attempts until the observation
is complete, and answers.  Mishaps, losses and failures are never fair.
`ArtifactStart.Fairness` is that the checkout is built and packaged again until
the layout is up to date, and that the host keeps copying, installing and
starting it.

What is assumed of the host, since its code is not in the repository:

- it fences outputs: a proposal is committed for a later generation than the
  contract's last, repeated to the one committed last, refused otherwise
  (`Fenced`; what makes a retry harmless);
- it has one live `ApplyAction` call at a time per binding, though a given-up
  call's proposal may arrive later;
- it plans for the generation after its latest output, and projects only what
  differs from it or is not recorded (`Needed`);
- it executes a request under an id it does not know, and answers a known id as
  before;
- it installs only what it verified, and leaves an installed layout alone while
  a process starts from it.

## 5. Proofs

Every invariant, action property and refinement that a passing run checks is
also a theorem, for all values of the constants.  `SharedProofs` holds the
lemmas that several modules rest on: about selection, the response policy, the
remote's answers, and what a plan contains exactly, one function of the planner
at a time.

`PageReadingProofs`, for any sets of ids and DSNs and any length of list:

- `TypeCorrect`: the list and its selection keep their types.
- `VerdictsAreStable`: a verdict Plan may draw from an incomplete list survives
  each key appended to it.  `AppendKeepsKeys` says that the positions read so
  far keep their keys, `PositionsGrow` that the active keys and the matches of
  an id only gain positions, `FirstMatchStays` that the first match does not
  move; `SelectionCases` reads the selection off those sets.  The type invariant
  is all the induction needs, as the property is about one step.
- `HeldBackWithReason`: for each verdict that is held back the proof names the
  key of an unread page that overturns it: an active key, which bears the
  configured id, or no id when none is configured.
- `OrderNeverDecides`: a reordering maps the positions one to one onto
  themselves (`ReorderedPositions`), so a single active key, or a single match of
  the configured id, stays the single one wherever it stands.

`RegroupLoopProofs`, for any list and any order:

- `EntriesFollowVisits`, `RegroupingIsOrderIndependent`: half-way through the
  map the entries are those of the selectors visited, and at its end the keys
  are a function of the fields.  The second alone is not inductive, since it
  speaks of the returned state only; the invariant `Loop` joins the two.
  `AssignWritesOneField` and `EntriesGrow` show that a turn preserves it
  whichever selector it takes.
- `RegroupingMirrorsTheList`: the keys returned are the elements that forwarded
  something, in order.  The code sorts the indices that occur; the model takes
  the k-th smallest.  That it exists (`NthExists`), grows with k (`NthGrows`) and
  reaches every index (`NthCovers`) is proved by least counterexample on the
  number of indices below a point, so no induction is needed.  The property
  speaks of an increasing choice of positions and not of `SelectSeq`, whose
  definition the provers cannot expand.
- `RegroupTypeCorrect`, from `EntriesTyped`.

`SharedProofs.RoundTrip`, for any page: filtering the elements of a page and
regrouping the fields gives the page back.  Every element forwards its id, so the
indices that occur are all of 0..n-1 (`BodyOfPage`); the k-th smallest of those
is k-1 (`NthOfInterval`); and a field that is missing is Go's zero, which is what
the key had (`ElementOfKey`).

`ReconcileProofs`, of Observe, for any remote, page size, inputs, and number of
changes and failures:

- `ObserveTypeCorrect`: type correctness, one lemma or step per action; it is the
  part of `ReconcileTypeCorrect` that is about Observe.
- `UncertainReadsAreIncomplete`, `PagesReachHost`, `RateLimitsBackOff`.  None is
  inductive: each speaks of an observation that two actions build between them.
  The invariant `Accounts` adds `CallAccounts`, which ties the locals of a call
  under way to the outcome of its first read, and the clauses of
  `ObservationAccounts` that tie the resources to the history `read`.
  `OutcomeOfAnswer` sums up the classification of an answer.

Of the loop, for any targets besides:

- `LoopObserves`: the loop implements `ObserveSpec`, so that the invariants
  above hold of it too; every step maps to a step of Observe or a stutter.
- `UncertainReadsStayUncertain`, `ProjectionsAreOfActiveKeys`,
  `VerdictsAreTrue`, `PlansAreSelfExplanatory` and `ReconcileTypeCorrect`.  The
  inductive invariant `LoopAccounts` joins the invariants above with
  `PlanOfObservation`: a plan that is held was composed of the observation that
  is held.  What such a plan can say is settled by the lemmas about the planner
  (`SelectedKey`, `UnselectedKeys`, `SelectedPlan`, `RuntimePlan`, `PlanShape`),
  and follows from what the accounts say of the observation (`WhatIsObserved`).
- `PlansAreSelfExplanatory` holds whatever `SDKAccepts` is: a
  plan without a projection names an error, or was not asked for one, or is one
  whose proposal was refused, and one with a projection names no error
  (`PlansAreExplained`, from `KeyRefused`, `ListedRefused`, `SelfExplained`).

Of the whole, for any actions a caller hands besides:

- `ProviderKeepsContract`: `ProviderLoop` implements `ProjectionContract`, the
  abstract promise that each output is made of an input once desired and a key
  once active at its address.  A step maps to `Learn` when people edit or change
  something, to `ProjectRuntime` or `ProjectBuild` when the host commits a
  proposal, and to a stutter otherwise.  What the step of a commit needs was true
  long before it, when the plan was made, or earlier, when the page was read; the
  invariant `ProviderAccounts` carries it there.  `HistoriesKept` says that what
  is true now is remembered (`Truths`: who lives at each address, and its active
  keys); `HeldIsRemembered` that so is what the call, the observation and the plan
  hold; `ProposalsKept` that each proposal under way or late is already justified
  (`Promised`), which stays so as the histories only grow (`PromisesStay`).  The
  planner's part is `ProjectionPromised`, the host's `HostKeepsOrAdvances`.

`ApplyProofs`, for any plans, any actions a caller hands besides, any numbering
of the host above the generations proposed, and any number of mishaps:

- `ReceiptsOnlyOfCommits`, `StateOfOneCommit`, `OnlyAuthoredOutputs`: none is
  inductive alone, since what ties a receipt or a state to a commit is the call
  in between.  `IInv` adds that a proposal on its way, of a call or of an
  abandoned one, was authored by a plan (`Underway`), that the latest outputs are
  in the history (`History`), and that a durable reply names an entry of the
  history for the call's own proposal (`RepliesAreOfCommits`).
- `GenerationsNeverFall`, an action property, needs `RecordedInOrder` besides:
  what is recorded is no later than what was committed last, nor than a durable
  reply that has not been taken yet.
- `ApplyTypeCorrect`: a second invariant, `Typed`, holds on top of the first.
- `FencedResult` and `FailingResult` say what the fence lets through; then there
  is one lemma per action.

`RequestProofs`, for any contexts, manifests, attempts, failures and losses:

- `CallbackIDInjective`: the id joins the segments that are there, without
  saying which; that it still tells the requests of a named attempt from all
  others rests on descriptors, cursors and attempt ids being different texts.
- `AnswersAreOwn`, `ReadsAreExecutedOnce`, `RequestsWithinAdmission`,
  `RequestTypeCorrect`.  What makes an answer from the ledger the caller's own is
  a fact about the ledger: its entries have the id that their attempt and read
  determine, and no two entries share an id (`LedgerSound`).  With
  `CallbackIDInjective` a hit is then an entry of the same read (`ReplayKept`).
  `OriginAdmitted` and `HandleAdmitted` say what the two searches return.

`ArtifactProofs`, for any manifests, revisions, edits and crashes:

- `IdentitiesAreOwn`: neither the checkout nor the layout directory is ever
  known to be consistent.  What is: an installed layout was verified
  (`InstalledVerified`), and a starting process reads the installed one
  (`StartsFromInstalled`).  `VerifiedLayout` says what verification establishes.
- `ArtifactTypeCorrect`.

`ChecksProofs`, for any remote, page size, inputs and changes:

- `DoctorAgreesWithPlan`, `WarningsAreUnknowns`, `HealthIsTrue`,
  `ChecksTypeCorrect`: properties of a report, which two reads build.  The
  inductive invariant `DoctorHears` says before each read what the call has heard
  (`CallUnderWay`), after it what the report says of it (`CallReported`), and
  that what was heard is true while nothing changes (`Undisturbed`).
  `PlanOfHeard` gives the plan over the same answers, and each theorem compares
  the two case by case.
- `SpellingNeverMatters`, `NoFieldExcusesAnother`: a response is `Validated` of
  its input (`ValidatedExactly`); `OriginSpelling` shows that the space, the
  slashes after the host and the capitals are each gone before the check that
  would trip over them; `ValidFieldwise` and `FieldAlone` say that
  validity is that of each field, alone or among others.

The theorems rest on the named assumptions of the modules:

- `""` is no id, DSN, address, project, host, text or attempt id, and attempt ids
  differ;
- the elements of a body carry values of their types;
- the remote starts with typed keys, a page holds at least one, and a failing
  status lies in 300..599;
- inputs, targets, plans, contexts and manifests are of their types, Doctor has
  an input to look into, and what an input means is one of the typed ones;
- bounds are natural numbers.

Nothing is assumed of `SDKAccepts`.  TLC evaluates the assumptions in the runs.
The inductive invariants were checked as
invariants of the runs before they were proved.

Only model-checked: the liveness properties `PlansSettle`, `CommitsAreRecorded`,
`ObservationCompletes` and `CheckoutIsServed`.  Liveness under fairness, for
which a proof needs ENABLED, is beyond the prover.  The three runs of section 6
need none: they show a counterexample.

## 6. Where the repository and its code disagree

Three runs are expected to find a violation; each states what a document or a
comment says and TLC shows a behaviour of the code that does otherwise.

- `unread_page` — README.md:102-104 says an unconfirmed client-key list is
  treated as incomplete.  `Observe` marks it complete whenever both reads are
  answered with 2xx (`observe.go:54-75`), so the sole active key of a first page
  is selected while a second page holds another.
- `denied_keys` — `observe.go:340-344` and `plan.go:118-124` hold back "no
  active key" and "key not found" unless the list was seen in full.  A 403 on
  the key list is definitive, not uncertain (`observe.go:153`), so the
  observation is complete with no keys and Plan reports exactly that.
- `restart_cursor` — `observe.go:109-111` calls `"restart"` a resume marker,
  never a Sentry cursor.  Handed back by the host, it is forwarded as the
  `cursor` of the key list (`observe.go:64-66`).

Seven more were met while modelling.  The models follow the code; the properties
set these cases aside and no run is about them.

- `apply.go:117-121` says a committed generation is never silently dropped.  A
  prior state without a V1 payload is returned as it came, and none is minted
  when the context names no binding (`apply.go:125`, `133`), while the receipt
  reports the projection complete.
- `observe.go:137-138`, in the `read` both handlers share, says a refusal leaves
  the remote state unknown.  It has no status, and `doctorSeverity` makes an
  error of status 0 (`doctor.go:55`, `104-108`); so it does of a redirect.
- `doctor.go:83-85` says Doctor and Plan agree on what a healthy key
  configuration is.  A selected key without a public DSN is healthy to Doctor and
  schema drift to Plan (`plan.go:207-210`).
- `plan.go:197-202` says nothing is projected only when the target is not a
  runtime projection, and that a diagnostic is given "rather than silently
  omitting the projection while the plan still claims a key was chosen".
  `projectOutput` turns any error of the SDK into no action
  (`plan.go:264-267`), so a refused proposal leaves a plan that says "client key
  resolved" and projects nothing, without a diagnostic; `planBuild` drops its
  diagnostic too and leaves the plan empty (`plan.go:248-250`), of a target of
  generation zero among others.  Which other proposals the SDK refuses is not in
  the repository.
- `server.go:61-62` says the running host supplies the callback.  `main.go:39`
  builds the server without one, so the broker-driven methods of the binary
  always fail.  README.md:95-101 discloses that live wiring is pending.
- `origin.go:24-25` calls the three hosts the exact ones the manifest's rule
  covers.  The rule also has `*.sentry.io` (`provider.codefly.yaml:80`), so that
  an origin under it is warned of as self-hosted.
- `validate.go:75-76` accepts only an https origin with a public key.  The host
  is never looked at: `https://key@/1` passes.

`VerdictsTrue` is therefore stated for lists that one page held and that were
read.  `UncertainNeverDefinitive` covers the reads whose outcome is unknown
(429, 5xx, 3xx, a refusal), as the comments and tests do.  `WarningMeansUnknown`
sets refused and redirected reads aside, `HealthyIffPlannable` a missing DSN.
`PlansExplainThemselves` shows that an SDK refusal is the only reason for which a
plan that was asked for a projection neither has it nor reports an error,
and `CommitsAreRecorded` is about states that can record.

## 7. Hazards

PROJECT.json lists them with their lines.  The central ones: the two reads of
`Observe` are not atomic; an observation outlives the input and the remote it
describes; one of the reads fails; pages that were not read; a resume cursor
that comes back; iteration in an unspecified order; missing fields; a commit
whose reply is lost, or whose call was given up; a state stamped from a stale
one; a request id that tells too little or too much; Doctor and Plan grading the
same answers by rules of their own; a crash, an edit or a copy between the files
of a layout.  Eight have no property, since the code does what they warn of (section 6)
or the part that decides is outside the repository; their notes say so.

## 8. Not modelled

- `assemblePlan`'s digests and the plan id: the provider writes them and never
  reads them back, so what they are good for depends on checks of the host that
  are not in the repository.  `ApplyAction` looks at the actions of the bound
  plan only, which the model has.
- The fields of the catalog: copied from the manifest once, at start.
  `ArtifactStart` has the copy and its refusal.
- `UpgradeState` refuses every request; `RateLimit.Bounded` has no caller.
- Logging, messages, the text of summaries.
- `url.Parse`, the regular expressions and `LooksSecret` themselves: a text is
  what they find in it.
- The host's own checks (budgets, admission, redirects): the provider sees them
  as a refusal.
- The SDK's own checks: of a proposal any may be refused (`SDKAccepts`), of an
  observation its failure is an early return without effect, like those of
  `Undecodable`.  What the host's filter takes a selector to match is `ForwardSafe`
  as the manifest lists it.
- In `ArtifactStart` the refusals of a missing or unparsable descriptor in
  `discoverIdentity`: the host verifies a layout before it installs it, so a
  process that starts from an installed one never meets them.
- Observed slugs that differ from those requested, in `Observe`: a response names
  the project at the address asked for.  The gate's mismatch branch is reached
  by editing the input after the observation.  In `Doctor`, whose input is that
  of the call, the slugs may be missing.
- A state that another provider or another host wrote, beyond the kinds of
  `PriorStates`.

## 9. Plan

Done: every handler but `UpgradeState`, and the packaging tool, are modelled and
checked; the loop of observation, plan and application implements the abstract
promise; all that the runs check is proved but for liveness.

Left:

1. Theorems beyond the runs: that an id without an attempt still tells the
   descriptor and the cursor apart; that Observe, Plan and Doctor over one
   unchanged remote reach the same verdict; that what the provider state records
   of a contract is what the whole loop last projected for it.
2. Shorter proofs where a long case split repeats itself (`ReplayKept`,
   `HeldStep`, `ApplyStepKeeps`).
