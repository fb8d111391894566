# Verification of the TargetThisRole workflow core

TargetThisRole takes a candidate from a *Compatibility Check* through *Fit Review*
and the *Baseline Expansion Interview* to *resume and cover letter generation* and
the *application tracker*. It is a NestJS API over PostgreSQL (`src/apps/api`) with
a Next.js client (`src/apps/web`). The rules that the steps follow are in
`src/docs/workflow-authority-contract.md` and `src/docs/authority-audit.md`.

Every step is an HTTP handler that reads some rows, computes for seconds, and writes
some rows. There are hardly any transactions and no locks: what keeps concurrent
requests apart is one table of reservations, a few unique indexes and the hashes of
the inputs that are stored with every result. This project models that core in TLA+,
checks it with TLC and proves its main invariants with TLAPS.

Contents: [inventory](#1-inventory), [the modules](#2-the-modules-and-how-they-correspond-to-the-code),
[the runs](#3-the-runs), [fairness](#4-fairness), [the proofs](#5-the-proofs),
[findings and observations](#6-findings-and-observations),
[what is not modelled](#7-what-is-not-modelled), [plan](#8-plan).

Paths below are relative to `src/apps/api/src` unless they start with `src/`.

## 1. Inventory

| component | state | operations | hard behaviour | what makes it correct |
|---|---|---|---|---|
| workflow idempotency (`common/workflow-idempotency.service.ts`) | `workflow_operation_runs`: status, run id, response body per dedupe key | `reserve`, `complete`, `markFailure` | find-then-save with no compare-and-swap, unique conflicts, crashes, superseded runs | only accepted results are replayed; duplicate work only after a failure; a superseded run stays superseded; it implements `RunLedger` |
| studio artifacts (`studio-artifacts/`) | one row per user, baseline and job: for resume and letter a status, inputs hash, analysis and body | `record*InProgress/Success/Failure`, `readState` | unconditional upserts of concurrent attempts; readers with other inputs than writers | a completed document was made from the inputs on its label; readers agree; generation ends |
| cover letter generation (`cover-letters/`) | `cover_letters`, plus the two above | `generateCoverLetter`, `deleteCoverLetter` | reservation, artifact and letter written one after the other; detached failure calls; duplicate check and unique index | Studio and the reservations tell the truth about some run; letters stay distinct; everything ends |
| resume generation (`resume/`) | the resume columns of the artifact row | `generateResume`: reuse, fallback, catch block, fail-safe | no reservation at all; nested calls; an exit for every kind of error; detached failure calls | Studio tells the truth whichever exit is taken; only answered resumes are reused; a usable one survives failures |
| fit analysis (`analysis/`) | `fit_assessments`, the baseline's latest assessment, reservations | `runFitAssessment` | inputs that change between hash, recheck and save; rows written over in place; two reports of one run | the reservations tell the truth; answers name assessments that are there, one per inputs |
| baseline expansion interview (`interviews/`) | interview records, accepted additions, reservations | update, decide, accept, promote, `computeExpandedFit` | rows saved as they were read, before or after a long computation, column by column | the fit belongs to the answers and additions next to it until two saves cross; keys settle |
| baseline versions and ingestion (`baseline/`) | `baselines`, `baseline_versions` | upload, revive, archive, restore, set current, reparse, block edits, additions, scores | two number sequences; rows saved as they were read; transactions at READ COMMITTED that check without a lock; the current pointer moved by many | version numbers name versions; a current baseline is lost only to a request that others have overtaken |
| opportunities (`opportunities/`) | `opportunities`: status, score, band, snapshot, dormancy | track (three ways), transition, update, sweep, rescore, lists | whole rows read, held and saved column by column; two status models; background rescoring | bands explain scores until two saves cross; rejection is final; applying needs a fit of 70; the snapshot is immutable |
| applications, job tracker (`applications/`, `job-tracker/`) | `applications`, tracker items | upsert by pair, status changes | read, then save of the whole row | APPLIED is not lost |
| web workflow authority (`src/apps/web/lib`) | none (pure functions of API answers) | normalize artifact state, resolve authority | many shapes of answer | never claims ready what the API calls stale |
| scoring, composition, export, jobs, auth, support, synthetic users | request-local or append-only | | | see [section 7](#7-what-is-not-modelled) |

How they interact:

```
  generateCoverLetter --+                      +--> studio_artifacts (record*) <--- readState (Studio)
  runFitAssessment -----+--> reserve(key) -----+--> cover_letters, fit_assessments, interviews
  computeExpandedFit ---+        |
                                 +--> complete(key) / markFailure(key)

  generateResume ------> studio_artifacts (record*), applications, opportunities (best effort)
  promoteAcceptedAdditions ------> baseline_versions
  runFitAssessment --------------> baselines (latest assessment and score), opportunities (rescore)
```

Two facts about the database shape every module. `repository.save` of TypeORM (external)
is two statements: a SELECT of the row and an UPDATE of the columns in which the entity
differs from it; no entity has a version column, and nothing locks the row in between.
And `data-source.ts` sets no isolation level, so that transactions run at READ COMMITTED:
each statement sees what others have committed by then.

All calls are in-process and awaited, but for the failure records of the generation
handlers, which are detached promises (`cover-letters.service.ts:1095-1121`,
`resume.service.ts:7256-7299`): they land after the user has been answered.

The hazards of the code, each at its line and with the properties that watch it, are
listed in `PROJECT.json`.

## 2. The modules and how they correspond to the code

```
RunLedger <--implements-- WorkflowIdempotency <--INSTANCE--+-- CoverLetterGeneration
                                                           +-- AnalysisRun
                                                           +-- InterviewExpansion

StudioArtifactRow <--EXTENDS--+-- StudioArtifacts
                              +-- CoverLetterGeneration
                              +-- ResumeGeneration

EntitySave <--EXTENDS--+-- InterviewExpansion
                       +-- BaselineLibrary
                       +-- Opportunities
```

For each component `X` there is `MCX` (symmetry for TLC) and `XProofs` (the
theorems). A definition whose name is that of another one plus `_Something` is a
*mutant* of it: a plausible bug, used to show that a property can fail. No behaviour
uses a mutant.

### RunLedger: what a reservation promises
The abstract specification. A key has at most one owner, a run is granted a key at
most once, only the result of the owner is stored, and only a stored result is
delivered to others. No reads, no writes, no conflicts.

### WorkflowIdempotency: the table of reservations
One action per database call of `reserve` (`Find`, `SaveExisting`, `InsertRow`,
`Refind`), one for `complete` and one for `markFailure`, which are single `UPDATE`s
restricted to the caller's run id. `row` is the table, `pc/key/outcome/reply` the call
in progress, `reopened` a history variable (who wrote over a failed row). Callers are
the most general ones that the services allow: any key, any sequence of reports after
an acceptance. `Crash` ends a run at any point, since a process may die and nothing
cleans up after it. A response body is identified by the run that computed it.

### StudioArtifactRow and StudioArtifacts: what Studio shows
`StudioArtifactRow` has the columns of a document as a record, the `record*` writes as
functions of it (an upsert is `INSERT .. ON CONFLICT DO NOTHING` and an unconditional
`UPDATE`, hence a function of the columns it leaves alone) and the reads
(`artifactCurrent`, `usableCurrent`, `resolvePairStatus`, `exportReady`) as predicates.
`StudioArtifacts` runs attempts that fix their inputs at the start and write later,
while the pair is assessed again (`Assess`, which is what `runFitAssessment` does to
`fit_assessments`). Readers bring a baseline version and an analysis of their own.

Abstractions: the inputs hash is the tuple of what is hashed; a body is the inputs it
was generated from and whether it passes the quality checks; the structured template
is assumed, so that `staleLegacy` is never set.

### EntitySave: what `repository.save` writes
`Updated(row, selected, entity)` is the row after the UPDATE of a save: the columns in
which the entity differs from what the save selected are the entity's, the others are
what they are by then. A module that uses it gives a save two actions, one that selects
and one that writes, and other requests come in between. `Crossed` says that somebody
wrote given columns in between; the properties that relate two columns of a row have it
as their exception, since there the code really breaks them (section 6).

### CoverLetterGeneration: a handler from reserve to answer
Composes the reservations (an `INSTANCE` of `WorkflowIdempotency` over its own
variables; every step of the handler is a step of the table or leaves it alone) with
the letter columns of the artifact row and the rows of `cover_letters`. One action per
database call: reserve, second reserve under a `:regen:` key, in-progress record,
duplicate check, insert with its unique index, conflict resolution, overwrite, success
record, complete. `Fail` is the catch block: it answers at once and leaves two
*pending* calls, each of which lands on its own. `DatabaseError` makes any database
call in the try block throw; `Crash` loses the run with its pending calls;
`DeleteLetter` is the user.

Abstractions: requests that are refused before `reserve` change nothing and are left
out, as is the application record written best effort after the answer is composed.
The controller's 12-second timeout (`common/timeout.ts:43`) abandons the handler but
does not stop it, so `answer` is how the handler ends. A crash takes one run: the
others of that process are runs that crash too, within the bound. No stored response
is ever reused: the runs that yield a structured template have a score of 80 or more
and skip `complete` (`cover-letters.service.ts:550-575`), and every other stored
response is rejected as legacy (`:577-607`); see the observations.

### ResumeGeneration: a handler with many exits
`generateResume` for one user, baseline and job. `Begin/ReadBaseline/ReadAssessment`
read what makes the artifact label, `Reuse/Regenerate` is the lookup of the stored
resume through `readState`, `Compose/FallBack/RecordInProgress/Finish/RecordSuccess`
the work. `FallBack` is the call of `generateResume` by itself when compliance blocks a
tailored resume: `outer` keeps the label of the call that is waiting, and an error of
the inner call is caught by the outer one under that older label. The catch block is
one action per exit: `CatchUnrecorded`, `CatchPersisted`, `CatchPlain` (which leaves a
detached call for `LandFailure`; taken, whatever the authority, until
`usePersistedResumeV2Authority` is set at `resume.service.ts:3392`), `FailSafe`,
`FailSafeInvalid`, `FailSafeThrows`; and `LoseSuccess` is the error that is thrown past
all of them.

The code asks for a reservation only below `forceTemplateRegen`, which is true for
every baseline that gets there, so the module has no reservations: what TLC searches
is any number of requests side by side on one row.

Abstractions: the three authorities of a baseline (persisted ResumeV2, parsed sections,
none) are an input of the request; the latest assessment of the pair is its inputs
hash; a body is the run that composed it and whether it is good.

### AnalysisRun: an assessment of inputs that change
`runFitAssessment` composed with the reservations. A run hashes the inputs (`Begin`),
reserves that key, scores, reads and hashes the inputs again (`Recheck`), saves
(`Save`: over the row the baseline linked to when it was read, or a new one, under the
unique index), resolves a conflict (`Resolve`), links the row to the baseline (`Link`)
and completes. `Replay/Refresh/Relink` is the path of a request whose key is
completed. The catch block (`Fail`) reports FAILED after whatever was reported before,
and a turned-away request reports too: `markFailure` is restricted to the run id, and
`LedgerTellsTheTruth` depends on it.

Abstractions: everything that is hashed is its hash, which the user changes at any
time (`ChangeInputs`); a score is known by the hash it was computed from; an
assessment of another job takes the baseline's link away (`AssessOtherJob`).

### InterviewExpansion: one row, many copies
Every request reads the interview row, changes its copy (`Select` keeps what it saves
and what the save selected) and writes the columns that differ (`Write`, in `Saved` and
`WriteFit`); `computeExpandedFit` keeps its copy while it reserves the key of the row's
content, computes for seconds, compares the content again and saves. A fit carries the
content it was computed from, so that `FitStaysOfItsAnswers` can say that the row goes on
agreeing with itself whichever copy is saved over which, unless two saves cross.
`AcceptRecommendation` writes a table of its own, which is not part of the key;
`Promote/SavePromoted` are the two writes of a promotion.

Abstractions: an answer stands for the addition that is derived from it; the interview
starts from a fit review; the request hash is the record of what is hashed.

### BaselineLibrary: numbers and the current pointer
Baselines are numbered in the order in which their uploads commit. A request is a walk
through `step`: each of its reads is an action (`CountCurrent`, `NumberBaseline`,
`ReadStatus`, `ListBaselines`, `CountForRevival`, ...) that leaves what it read in `call`,
and its last action commits (`Upload`, `SetCurrent`, `Archive`, `Restore`, `Revive`,
`ReviveWithSections`, `Reparse`, `EditBlocks`, `ApproveAdditions`, `RecordScore`). Nothing
locks what was only read, so others commit in between; from its first UPDATE of a row to
its commit nobody else writes that row, so a transaction's UPDATEs are one step. The
UPDATE of all rows of a user (`Single`) finds the rows that were there when the request
began and of the later ones some (`Found`). An inserted version holds its number against
others before it is committed (`Held`, `Inserts`). A request may end in an error at any
point (`Fail`). There are two ways to number: per baseline (`Follows` on its own versions)
and per user (`NextOfUser`), and a revived baseline mixes them.

Abstractions: the contents of versions; `cloneBaselineForFitReview`, whose insert always
breaks the unique index on user and file hash (`baseline.service.ts:1135-1148`).

### Opportunities: the tracker
`tracker` is the table, in order of creation. `call[c]` is a call of the service
between its read and its saves, with the *copies* it read and, in `saving`, the rows whose
save has selected and not yet written. A slow call undoes what happened meanwhile, which
is why `RejectedIsFinal` and `AppliedNeedsFit` speak of the copy that a call had read; and
two saves that cross leave columns of two calls in one row, which is the exception of
`BandsStayExplained` and of the second half of `AppliedNeedsFit`. `Save` selects, `Write`
updates; `Track/FindOther/Merge/Create` are the three ways to track an
opportunity (`upsertOpportunity`, `createFromResumeStudio`,
`createFromFitReviewOverride`), `Open/Transition/Update` the two ways to change its
status, `Sweep/SweepOne` the dormancy sweep, `Rescore/RescoreOne` the rescoring.

Abstractions: a posting stands for company and title, an analysis for its pair of
baseline and job; names, notes, salary and evidence are left out; refused calls change
nothing and are left out; among several rows of one analysis any may be the one found;
scores are given in tenths because requests carry fractions and the columns hold
integers, and lie between 0 and 100, which the request objects ask for but for that of
`upsertOpportunity`, whose clients send a computed fit; `GrowOld` makes ninety days pass
for a row while no call is in progress (a request lives for seconds, not for months).

## 3. The runs

`tlc -workers 2 -config <cfg> <module>` for each row; all state counts are of distinct
states of complete searches.

| run | module, cfg | checks | instance |
|---|---|---|---|
| idempotency_safety | `MCWorkflowIdempotency`, `MCIdempotencySafety` | `TypeOK`, `ReplayIsAnAcceptedResult`, `DuplicateWorkNeedsAFailure`, `SupersededForever`, `ImplementsLedger` | 3 runs, 2 keys, 2 reports, 1 fault: 99,191 |
| studio_safety | `MCStudioArtifacts`, `MCStudioSafety` | `TypeOK`, `CompletedMeansGenerated`, `InProgressHasAWorker`, `ReadersAgree`, `CompletedPairIsUsable`, `GenerationEnds` | 3 attempts, 2 versions, 2 analyses, 2 hashes, 1 lost attempt, no symmetry: 1,627,369 |
| cover_letter_safety | `MCCoverLetterGeneration`, `MCCoverLetterSafety` | `TypeOK`, `StudioTellsTheTruth`, `LedgerTellsTheTruth`, `LettersAreDistinct`, `UsesReservationsAsSpecified` | 3 requests, 2 versions, 1 crash or error: 656,670 |
| cover_letter_live | `MCCoverLetterGeneration`, `MCCoverLetterLive` | `EveryRequestEnds`, `GenerationEnds` | 2 requests, 2 versions, 1 crash or error: 34,135 |
| resume_safety | `MCResumeGeneration`, `MCResumeSafety` | `TypeOK`, `StudioTellsTheTruth`, `ReusedWasAnswered`, `UsableSurvivesFailures`, `GenerationEnds` | 2 requests, 2 hashes, 1 crash or error, no symmetry: 618,122 |
| resume_stale_reuse | `MCResumeGeneration`, `MCResumeStaleReuse` | violates `ReusedResumeIsOfItsInputs` | 3 requests, 2 hashes |
| analysis_safety | `MCAnalysisRun`, `MCAnalysisRun` | `TypeOK`, `LedgerTellsTheTruth`, `AssessmentsAreThere`, `UsesReservationsAsSpecified`, `KeysSettle` | 3 requests, 2 hashes, 1 crash or error, no symmetry: 743,950 |
| interview_safety | `MCInterviewExpansion`, `MCInterviewSafety` | `TypeOK`, `FitStaysOfItsAnswers`, `LedgerTellsTheTruth`, `UsesReservationsAsSpecified`, `KeysSettle` | 2 computations, 3 other requests, 1 answer, 1 crash or error, no symmetry: 826,370 |
| interview_retry | `MCInterviewExpansion`, `MCInterviewRetry` | violates `RetriesAreWorked` | 2 computations, 1 other request, 1 error |
| baseline_safety | `MCBaselineLibrary`, `MCBaselineSafety` | `TypeOK`, `VersionsAreThere`, `CurrentIsKept` | 2 baselines, 2 requests side by side, numbers up to 3, 4 versions: 4,429,769 |
| baseline_archive | `MCBaselineLibrary`, `MCBaselineArchive` | violates `ArchiveKeepsPointer` | 3 baselines, 1 request |
| opportunities_safety | `MCOpportunities`, `MCOpportunities` | `TypeOK`, `BandsStayExplained`, `RejectedIsFinal`, `AppliedNeedsFit` | 3 calls, 2 baselines, 3 fits: 278,553 |

The bounds and why they are enough for the question each run asks:

- *Three runs of one key*: one makes the row what it is (failed, say), two race on it.
  With `MaxUpdates = 2` a run can complete and then report a failure, as the outer
  catch block of `runFitAssessment` does. The second key is the second reservation of
  a regeneration. The invariants are proved for every number of runs and keys.
- *Three attempts on a row*: a resume and a letter can be there while a third attempt
  of other inputs is under way or lost. Two versions, analyses and hashes each give
  every reader something that differs from what was written.
- *Three requests for a letter*: one leaves a letter of other inputs, two race. One
  template suffices, since it only enters the inputs, and the two versions already
  give two different inputs. `MaxUpsets = 1`: one crash or database error, anywhere.
- *Two requests for a resume*: one leaves a resume and fails or falls back, the other
  reuses it or writes over it, of the same hash or another; the violation needs a
  third. One version suffices, since the assessment's hash is the other half of the
  label. The safety properties are proved for any number.
- *Three requests for an assessment*: one inserts the row, one writes over it, one
  conflicts or replays; two hashes, since only "the inputs of the key or others"
  matters. `MaxUpdates = 2` in the instance of `WorkflowIdempotency`: no path reports
  more often, which the run checks with `UsesReservationsAsSpecified`.
- *One answer in the interview*: answered or not, recommended or blocked, accepted or
  not already make contents with different keys for two computations; three other requests can change, accept and recommend around them.
- *Two baselines, two requests*: a request that has ended begins another one, so any
  history is there when two requests cross; one baseline can be current while the other
  is archived, revived, reparsed or uploaded in between, and a version can be inserted by
  one and refused to the other. Numbers up to 3 let the user's numbers and a baseline's
  own run into each other. States with more than 4 versions in all (`FewVersions`, a
  CONSTRAINT of the cfg) are checked and not followed further: four give one baseline three
  numbers beside the other's first, or each two. A third baseline is what `baseline_archive` needs. The
  invariants and action properties are proved for any number of each.
- *Three calls on the tracker*: one makes the row, two hold copies of it. The fits
  65.0, 69.6 and 85.0 are below the limit, on the wrong side of it only before
  rounding, and above both limits (70 and 80).
- Deadlock is checked in `baseline_safety`, where a request can always begin or end. It is
  not checked elsewhere: all requests can have ended.
- Symmetry is used for safety only, over sets whose elements are only compared.

The only bounds besides are guards inside the modules: `MaxUpdates` (`Report`), `MaxFaults`
(`Crash`, `Lose`), `MaxUpsets` (crashes and errors), `MaxAgeings` (`GrowOld`),
`MaxBaselines` (`Upload`) and `MaxNumber` (every action that takes a number).

## 4. Fairness

`WF` of the server's own steps of each run, attempt or request: a handler that was
called runs on (Node's event loop, a database that answers or throws), and so do the
calls it detached. Nothing is assumed of users (no request is ever made to start, no
letter to be deleted, no interview to be edited), of crashes or of errors. Liveness
properties therefore except what died:

- `GenerationEnds` lets a status stay IN_PROGRESS when a run with that very label
  crashed; for resumes also when one was answered with an error, since some exits of
  `generateResume` record nothing (`resume.service.ts:6452`, and every 422 of the
  persisted authority).
- `KeysSettle` lets a key stay IN_FLIGHT only when the run that holds it crashed.
- `EveryRequestEnds` excepts the request that crashed itself.

## 5. The proofs

Checked with `tlapm XProofs.tla` (SMT, Zenon and LS4). The theorems hold for every
value of the constants; the assumptions are the named `ASSUME`s of the modules: the
`No...` values are outside the sets they extend, runs and edits are different
requests, bounds are natural numbers and fits lie in `0..1000`. The sets of runs,
keys, attempts and calls may be infinite.

**WorkflowIdempotencyProofs** proves every property of `idempotency_safety`. None of
them is inductive as it stands. The invariant `IInv` adds `RowInv` (the run id of a
row is an accepted run *of that key*, and a COMPLETED row carries that run's body),
`AcceptedHasRow` (rows are never deleted, so an accepted run's key has a row) and
`PhaseInv` (an accepted run only works or stops). `RowInv` is what makes a replayed
body an accepted run's; `AcceptedHasRow` is what makes a second insert impossible.
`Refinement` maps each kind of step to a `Grant`, `Settle`, `Deliver` or
a stutter of `RunLedger`.

The three handlers that compose the reservations *reuse* these lemmas: their proof
modules instantiate `WorkflowIdempotencyProofs` (as `IdemP`), prove that each of their
steps is a step of `WorkflowIdempotency` or leaves its variables alone
(`ReservationsStep`, which is also the theorem `Composition`), and get `IdemP!IInv`
from the lemmas of the table. What remains to be shown of a handler is how its own
steps go with the phases of its reservation. That the reservations below a handler
implement `RunLedger` (`LedgerPromise` in each module) follows in the same way.

Whatever happens between the calls of `reserve`, it has an answer that its callers handle
(`Answered`): a request whose insert failed meets a row, and a request that is not
accepted is told that its key is in flight or completed.

**What the handlers guarantee of replays.** Three theorems are proved of letters,
assessments and interviews alike. `ReplayTruth`: whoever finds its key completed is told
of a run of the *same* inputs, and of what that run answered. `RepeatedWork`: two runs do
the work of one key only when a run of that key had failed, so races alone never double
the work. `StoredResults`: a late or repeated report takes no stored result away; only the
retry that had read the failed row does. The invariant `AInv` adds to `IInv` what each run
must keep true of itself (`Own`: it reports once and at its end, `Repeats`: what a
completed row says is what its run answered) and the run that failed before a second was
accepted (`FailedBefore`). The lemmas `StoredChange` and `ReopensChange` of the table say
which of its steps could disturb them.

**Progress.** The liveness properties cannot be proved here, but all of their argument
other than the fairness rule can. `Progress`, of letters, assessments, interviews and
resumes, says that every step of a run lowers its `Rank`, a natural number
(`Counted`), that no step of another run touches it (`ForwardOnly`), and that a run that
was called and has not ended is always `Ready` (`NobodyWaits`): whatever row it meets has an answer for it, its second key
is nobody else's, a failure has a call left to land, and no error is in a catch block that
no exit fits. `Ready` is the guard of a step of the server written out, as the provers
cannot reason about `ENABLED`; TLC found the two equal with the constants of
the safety runs. Under weak fairness of the server's steps, runs that begin must therefore end.

**StudioArtifactsProofs** proves the safety properties of `studio_safety`. `IInv` adds
`BegunInv` (a running attempt knows its inputs), `BoundInv` (a generated resume is
bound to an analysis) and `LatestInv` (an assessed pair has a latest assessment).
The lemma behind all of it is that each write of an attempt leaves a document that
carries that attempt's label (`Written`), whatever the columns were before.
`LetterFreshness` (a usable letter is of its reader's version) follows too.

**CoverLetterGenerationProofs** proves all properties of `cover_letter_safety`. Studio's
writes are unguarded, so the row cannot witness anything: `WriterInv` follows a *run*
that wrote the label and has not recorded a success since, and `RunInv` says that
answers are final and that only a refused run has calls to land. For
`LettersAreDistinct`, `FreshInv` adds that a run that has not saved has its id in no
row, whatever was deleted or overwritten. `LettersRequested` is the other direction:
every row is the answer of a run that asked for its inputs, although runs overwrite each
other's rows and put deleted ones back. It needs that a run takes a letter only once
(`Own`). For `LedgerTellsTheTruth`, `KeyInv` ties a
run's place in the handler to its place in the reservation and to its one or two keys.

**ResumeGenerationProofs** proves the safety properties of `resume_safety`. Again the
row witnesses nothing. `RunInv` says where a run may stand with which label and error,
and that all labels of a run, its fallback's included, are of the version it was asked
for: that is what keeps the run behind a FAILED or IN_PROGRESS resume behind it while
its label goes from the inner call's to the outer one's. `PathInv` adds for `Progress`
that a request without an authority never gets a label. `RowInv` says that a stored
body was answered. `UsableSurvives` needs only what a step can do to the row
(`RowStep`).

**AnalysisRunProofs** proves the safety properties of `analysis_safety`. `RunInv` ties
the handler to the reservation; the lemmas `AsideRest`, `WorkRest` and `ReportRest`
say what a step that reports nothing, goes on, or reports leaves of
`LedgerTellsTheTruth`. `AssessmentsAreThere` is inductive with the types: a row is
only ever written with inputs that no other row has.

**InterviewExpansionProofs** proves the safety properties of `interview_safety`.
`FitStaysOfItsAnswers` is about what a save writes, and the request has made that of its
copy one step, and any number of foreign steps, before: `SavesInv` says of every entity
that waits to be written that it agrees with itself if the copy did, whence the written
row does unless a column was `Crossed`. `RunInv` adds that the key a run reserved is that
of the copy it keeps. `FitFromARun` says where the fit on the row comes from: a run
computed it, with at least one addition and only verified ones; all copies and all
entities that wait must satisfy it too.

**BaselineLibraryProofs** proves every property of `baseline_safety`. `CallInv` asserts
of the rows in the hands of requests that their numbers are those of versions that are
there; versions are only added, so it stays true of copies. `CurrentStays` goes through
the commits: each leaves a current baseline, or archives the last one, or is `Overtaken`,
which says exactly what the request had read and is no longer so. Two theorems say what
other exceptions there are. `OneCurrent`: a second current baseline comes only of a
request that is `Overtaken`, or began before the last upload was committed and may not
clear its row (`Misses`: the second of two first uploads, say), or of a version added to a
baseline that was not current. `LatestShown`: a row that shows its latest version stops to
do so only by a revival, by a version committed after a newer one, or by a score saved
over a version it had not read (`Outdates`). They need `HInv`: a version that is inserted
and not committed has a number that no other version of the baseline has (`Holding`, which
is the unique index), so that a save never takes the number it adds for the one it
selected. TLC found each exception of the three properties to be needed: without it, the
property fails.

**OpportunitiesProofs** proves every property of `opportunities_safety`. What a save
writes comes of a copy that may be stale and of a row it selected before others wrote it,
so `IInv` asserts of every entity in `saving` that it is `Proper` to its copy: explained
if the copy is, flagged if the copy is, no rejection taken back but by a reset, APPLIED only
if the copy was or had a score of 70. A copy and what a save selected agree with their row
on the initial score, which no call changes; that a sweep's copies are due is what keeps it from changing a
rejected one. `BandCorrect` needs the arithmetic of rounding: a rounded fit rounds to
itself, so `Band` of the rounded score is explained by that score. `DormancyFlagged`
and `SnapshotsStay` state two further facts for every value of the constants. `RoleStays`
says that a row is about one role, although a request without a job is merged by company
and title or by analysis into whatever it finds: its job and its analysis are of the
posting it shows. `CInv` asserts this of the copies, the entities and the names in requests too, and
that a request that does not write the posting holds a copy of its own posting.

Only model-checked: every liveness property (leads-to under fairness is out of this
prover's reach, as is `ENABLED`): `GenerationEnds` (three modules), `EveryRequestEnds`
and `KeysSettle` (two modules), of which `Progress` proves the safety part; and of course
the violations. No module has recursive operators or proofs by induction over data. Every
invariant and every action property that a passing run checks is also a theorem. The
theorems that no run checks (`Progress`, those about replays, `LettersRequested`,
`FitFromARun`, `OneCurrent`, `LatestShown`, `RoleStays`) state their property in the proof
module, next to the invariant they need.

## 6. Findings and observations

Findings are runs that violate what a document or a test of the repository says; the
quotes are in `PROJECT.json`.

1. `resume_stale_reuse`: a newer attempt puts its inputs hash on the old body, and a
   resume is judged by its label and body whatever its status: while the attempt runs,
   or after it failed, a request for the new inputs is answered with the old resume.
2. `interview_retry`: a failed computation of the expanded fit is stored as the
   *completed* outcome of its key, so the retry that it asks for is answered with it.
3. `baseline_archive`: archiving a baseline that is not current moves the current
   pointer to the most recent of the others.

Met while modelling, and not the subject of a run:

*Reservations.*
- A process that dies between `reserve` and `complete` leaves the key in flight for
  ever; users are told "Please wait and try again" (`cover-letters.service.ts:710`).
- `reserve` writes over the failed row it read, even if another retry has completed it
  meanwhile (`common/workflow-idempotency.service.ts:79`): the response is erased and
  the work done again. `DuplicateWorkNeedsAFailure` states what does hold.

*Studio and cover letters.*
- A resume is labelled with the latest assessment (`resume.service.ts:3708`) and read
  with the one its row names (`studio-artifacts.service.ts:2370-2384`); when they
  differ, a resume just generated is not current.
- `ensureNoDuplicateCoverLetter` throws COVER_LETTER_DUPLICATE exactly when the latest
  letter has *other* inputs; the controller answers "A matching cover letter already
  exists." (`cover-letters.controller.ts:297`).
- The check and the save of a letter are two calls, so a pair can get two letters of
  different inputs although the refusal says there is one per pair
  (`cover-letters.service.ts:2516`, `:2535`).
- After a unique conflict the *latest* letter is overwritten instead of the conflicting
  one, which conflicts again (`:809-823`).
- The reuse of a completed cover letter cannot happen (`:590` always finds a legacy
  response), although its test expects it (`cover-letters.service.spec.ts:1606`).
- After a failed attempt the old letter stays exportable
  (`studio-artifacts.service.ts:1946`); after a deletion its body stays in the row.
- `recoverCoverLetterArtifact` and the `seed*` functions of studio artifacts are called
  by nothing.

*Resumes.*
- The reservation lane of `generateResume` (`resume.service.ts:5287-5552`) is dead code:
  `forceTemplateRegen` is true for every baseline that gets there. Two requests for the
  same inputs compose side by side.
- A fail-safe draft that does not pass the quality gate is recorded as FAILED and
  answered as a success (`:7193-7253`).
- A minimal fail-safe draft is recorded over a good resume, although `:6036` calls it not
  eligible; `UsableSurvivesFailures` therefore excepts requests that end in success.
- An early failure relabels a good resume with an empty hash (`:7271`): its body is
  kept, but it is usable for nobody.
- The tracker entry and the opportunity are written before the resume is persisted
  (`:5574-5628`) and stay if that fails.

*Assessments.*
- The STALE or PERSISTENCE_CONFLICT mark of a run is overwritten by FAILED in the outer
  catch block (`analysis.service.ts:4439`), so that the table does not say why a run failed.
- Two concurrent assessments of a baseline write over one row in place (`:4155-4262`): the
  earlier answer's assessment has by then the other inputs. `AssessmentsAreThere`
  states what does hold.

*Interviews.*
- The catch block of `computeExpandedFit` calls `fail`, which is declared inside the try
  block (`interview-records.service.ts:986`, `:1256`): a ReferenceError, which the
  controller turns into a generic outcome; the key is marked first.
- A replay answers "Expanded fit is ready." although an edit has cleared the fit of the
  row meanwhile; a change of job or baseline alone keeps the fit (`:700-714`).
- The accepted recommendations are not part of the request hash (`:1020`, `:1057`): a fit
  computed without them is replayed. Two clicks insert a recommendation twice (`:894`);
  every reader takes distinct texts.
- A request can save the expanded fit and yet be answered with an error, when the database
  fails between the save and `complete`: what `FitFromARun` calls a success is the
  computation, not the answer.
- The UPDATE of a save leaves out the columns that did not differ when the row was
  selected (`:755`, `:1186`): new answers saved between the two statements of a run's save
  stay beside the fit of the old answers.
- A promotion does not look whether the interview was promoted already (`:1310`).

*Baselines.*
- A file of an archived baseline cannot be uploaded again when the next number of the
  user is already a version of it: the unique index refuses it
  (`baseline.service.spec.ts:1395` tests a number that is free).
- Two baselines are current at once after a reparse or a block edit of one that is not
  current (`baseline.service.spec.ts:1454`); a block edit makes an archived one current.
- Uploading the file of an archived baseline without sections again sets `version` back to
  `versionNumber` (`baseline.service.ts:1007-1008`), behind versions that approved
  additions had added: the revival that `LatestShown` excepts.
- A score recorded from an older copy takes the number of the row back (`:2110-2135`).
- A user can be left without a current baseline although one is not archived:
  `setCurrentBaseline` reads the status without a lock (`:1838-1849`), and an archival that
  commits before its updates (`:1859-1860`) makes it choose an archived baseline; an
  archival that has listed the others (`:1905-1917`) does not see one that is restored or
  uploaded since. `CurrentIsKept` excepts these.
- Two first uploads side by side both count no current baseline (`:1274-1281`), and both
  become current: the UPDATE that clears the others (`:746`) may not see the row that the
  other transaction has not committed.
- Two approvals of additions side by side compute one number, and the unique index refuses
  the second (`baseline-version.service.ts:206`).
- `cloneBaselineForFitReview` inserts a second row of the same user and hash
  (`baseline.service.ts:1135-1148`), which the index of migration 2120000000000 forbids.
- `updateBlockPolicies` compares the hash it was given with the version it was given, not
  with the latest one (`:2898-2907`), so an edit of an older version is not a conflict.
- Promotions take the additions of their own request only: earlier promotions' are not in
  the new version, and a reparse drops them all.

*Opportunities and applications.*
- Generating a resume again puts an APPLIED opportunity back to SAVED
  (`opportunities.service.ts:399`; `opportunities.service.spec.ts:147` moves forward only).
- A change of notes alone rewrites an opportunity's status: LOOP or OFFER becomes
  SAVED, DORMANT and WITHDRAWN become REJECTED (`opportunities.service.ts:326-332`).
- An upsert revives a WITHDRAWN or DORMANT opportunity and leaves its `dormant` flag
  set (`:244-249`), so the action cards still show it as dormant.
- A rescore of 69.6 is stored as score 70 with the band FIT_REVIEW
  (`opportunity-rescore.handler.ts:43-46`).
- A Studio or Fit Review request without job and analysis is merged by company and title
  into a row of *another* baseline and changes its `baselineId` alone
  (`opportunities.service.ts:379-389`): the analysis on the row stays one of the old
  baseline. `RoleStays` therefore speaks of the posting only.
- Saves of one row that cross leave columns of both: a score beside the band of another
  score, the status DORMANT beside a flag that was cleared, APPLIED beside a fit that fell
  below 70 between the two statements. `BandsStayExplained`, `DormantStaysFlagged` and
  `AppliedNeedsFit` except exactly these.
- The sweep and the rescoring save rows read at their start over what users did
  meanwhile; a rejection made in between is lost.
- Applications keep `job:` and `pair:` rows for one and the same role.

## 7. What is not modelled

- *Applications and job tracker, web authority*: see section 8.
- *Scoring, compliance, composition, export, parsing*: deterministic functions of one
  request's text, without state or concurrency; tests reach them better than a model
  checker does. They are most of the lines of the API, and the pages of the web client
  that render their results are most of the rest.
- *Jobs and job sources*: fetching and parsing; a posting enters as part of the inputs.
- *Authentication, access codes*: outside the aim of this project.
- *Support, analytics, admin, synthetic users*: append-only records, queries and test
  tooling.
- In modelled components: legacy (`staleLegacy`) artifact rows and the debug report;
  drafting, previews and exports of letters and resumes; calibration and report requests
  of the analysis, which the inputs hash stands for; the question sets, validation and
  deletion of interviews; the contents of baseline versions; lists, exports and action
  cards of opportunities, which only read.

Steps that the modules take at once and the code in several, and why nothing is lost:

- `SaveExisting` of `WorkflowIdempotency` is the save of `reserve` (`:79-100`), a SELECT and
  an UPDATE of what differs. The saved entity differs from a failed row in its run id and
  status at least; only a run that came and reported between the two statements could leave
  a column of its own, which needs a whole foreign request in that gap.
- `RecordSuccess` of `ResumeGeneration` and `Complete` of `AnalysisRun` and
  `CoverLetterGeneration` commit a last write and answer (`resume.service.ts:6432` and
  `:6506`, `analysis.service.ts:4396-4408`). No other write of the request lies between, and
  nobody reads its answer in the model before it has ended; a crash in the gap leaves the
  same rows as one right after it, with nobody told.
- `Begin` of `AnalysisRun` reads all inputs at once (`analysis.service.ts:3536-3657`); a
  change between two of the reads gives the hash of a mixture, which is one more value of
  what `ChangeInputs` may choose. `Save` looks for the old row (`:4155-4164`) and saves over
  it; the unique index decides at the UPDATE either way, and `AssessmentsAreThere` is about
  the inputs hash alone, one column that every save of other inputs writes.
- Two exits of `generateResume` have no action of their own: the second fallback
  (`resume.service.ts:3310`), taken while the inputs are read, calls what `FallBack` calls,
  with an outer call that has no label yet; and a request with `preflightOnly` ends at
  `:5187` with nothing written. Its errors before that are those of any other request.
- The UPDATEs of a transaction of `BaselineLibrary` are its last step: see section 2. A
  request that waits for a row lock of another is one whose step comes later; two that wait
  for each other are one that ends in `Fail`.

## 8. Plan

Done, in this order: `RunLedger` and `WorkflowIdempotency` (everything else rests on
it), `StudioArtifactRow` and `StudioArtifacts`, `CoverLetterGeneration` (their
composition), `Opportunities`, `ResumeGeneration`, `AnalysisRun`, `InterviewExpansion`,
`BaselineLibrary`; each with its runs and its proofs.

Next, by importance:

1. `Applications`: the two upserts by pair and by job and the status changes, each a
   read and a save of the whole row (`applications.service.ts:323`); APPLIED is kept.
2. The composition of `ResumeGeneration` with `Applications` and `Opportunities`: what
   is left of a generation that failed after it had tracked its role.
3. The composition of `InterviewExpansion` with `BaselineLibrary`: an abstract
   specification worth stating is that every accepted addition is in some later version.
4. The web normalizer as a pure function, compared with `StudioArtifactRow`.
