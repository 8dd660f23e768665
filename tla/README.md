# FireDash Server in TLA+

FireDash Server keeps the operational data of fire departments (phone books,
hydrants, fire plans, file libraries, personnel) and publishes it as immutable,
encrypted dataset versions to tablets. This directory holds the TLA+
specifications of its concurrent parts, the TLC configurations that check them
on small instances, and the TLAPS proofs of what holds for every instance.

    tlasany M.tla                          parse a module
    tlc -workers 2 -config X.cfg M         check a run (PROJECT.json names module and cfg)
    tlapm PublicationProofs.tla            check the proofs of a module

## The system

One PostgreSQL database, a few Django processes around it, and files:

| Part | State | Who changes it |
|---|---|---|
| Canonical source (reference data, personnel, libraries) | rows; `Library.source_revision` | portal users, imports |
| Scope (`DatasetScopeState`) | `source_revision`, `current_source_fingerprint`, `dirty_since`, `current_published_publication`, `latest_built_publication` | every publication service, under its row lock |
| Publication attempt (`DatasetPublication`) | status, frozen snapshot and fingerprint, artifact | worker, administrators, retention |
| Job (`PublicationJob`) | status, attempt, `not_before`, heartbeat, attempt count | the same |
| Build worker | what it read, between its transactions | systemd: one-shot, nightly at 00:05 or woken; killed after 120 s |
| Artifact files, document artifacts | ciphertext on disk | worker, callbacks after commits, daily maintenance |
| Manifests, key grants | status rows per installation | tablet requests, the delivery worker |
| Tablets, installations, adoption | status machines, leases | administrators, tablets, timers |
| Imports, report transfer, outbound mail | status machines with files | users, tablets, workers |

What makes it hard: a build spans several transactions and the source, its job
and its attempt can change between any two; callbacks after a commit
(`transaction.on_commit`) are lost when the process dies; retention lists its
candidates outside every lock; a heartbeat that expires hands a job to another
worker; requests are coalesced, so that whoever ends a job must notice what was
asked for meanwhile. PROJECT.json lists every component with its status, and
the hazards at the line where each bites.

## Modules

| Module | What it is |
|---|---|
| `PublicationLifecycle` | one dataset scope: source, scope row, attempts, jobs, workers, administrators, retention, files |
| `PublishedRegister` | what a scope promises its readers: a register of immutable versions |
| `MCPublicationLifecycle` | the instance for TLC (symmetry of contents) |
| `PublicationWriters` | lemmas: every helper that writes the database keeps the invariant |
| `PublicationSteps` | lemmas: every action does |
| `PublicationProofs` | the inductive invariant and the theorems |
| `TabletDelivery` | what a tablet may fetch: asset, installation, lease, vehicle, key grants, signed manifests, the delivery worker |
| `MCTabletDelivery` | its instance for TLC (symmetry of versions and vehicles) |


### PublicationLifecycle

Every service in `publications/services.py` is one `@transaction.atomic` function
that first locks the scope row, so each is one action, and its helpers are
operators from a database record to a database record (`EnqueuePublicationJob`,
`ReconcileCleanSource`, `ActivatePublication`, ...). Steps of their own are what
happens outside such a transaction:

* the worker: `ClaimJob`, `PrepareBuild` (reads the frozen attempt), `BuildArtifact`, `Checkpoint`, one of the four closeouts of
  `finalize_publication_job` or `FailPublicationJob`, then `QueueFollowUp`, the
  callback after the commit. `Crash` may come between any two;
* `RemoveArtifactFile` and `RemovalLost`, the callback that deletes a file;
* `DiscoverCandidates`, the lock-free listing of retention;
* time: `NightlyTimer` (jobs reach `not_before`), `HeartbeatExpires`, and `Drift`
  (the personnel payload depends on the date, so it changes with no edit).

Data is abstracted to what the properties tell apart. A content is a model value
and its own fingerprint. A version number is the index of its row (`MAX + 1` over
rows that are never deleted, which `AttemptsAreImmutable` checks). An artifact is
the content it was built from; a document generation (`Kind` "plans" or "files")
lives in the database and may be damaged, a JSON artifact lives in `files`. The
path of a file is recorded exactly when its artifact is READY. An error inside
`build_encrypted_artifact` may come after the file was promoted, when nobody gives
it back (`FilesAfterError`). A claim's listing and the claim itself are one step:
the claim checks the job's status again under its lock, and what it does not check
again, `not_before`, only grows less binding as time passes, except that an edit may
move it to the next night; the timer of the model may fire at any moment, so the job
an old listing names is due there too. The listing of `bulk_request_rebuilds` takes
no lock either; a scope qualifies from its creation, so `BulkRequestRebuild` meets
any state of the scope. The limits of batches and the age of snapshots are
nondeterministic skips. Not modelled: `publish_publication`,
`reject_publication` and `heartbeat_job` (no caller outside tests), the summary shown
to administrators (for datasets other than libraries it is built from the live rows,
services.py:681), audit events, legacy fingerprints of file scopes, dry runs, and
restore-aware retention (off by default).

`Ops` selects the optional operations of an instance, so that a run asks one
question; `Overlap` says whether a heartbeat may expire under a live worker. The
deployment rules that out (the service is killed at 120 s, the heartbeat allows
300 s), and one run shows what still holds without it.

### PublishedRegister

The abstract specification: an authoritative version, the versions that can be
served or restored with their values, and the highest version ever published.
A publication is newer than all before it; rollback returns to an available
version; a version is withdrawn for good; when the authoritative one is
withdrawn an older one takes its place in the same step.
`ImplementsRegister` is the refinement, mapping `available` to the rows in
PUBLISHED or SUPERSEDED and `highest` to the highest version that was ever READY.

### TabletDelivery

A request of a tablet (`RequestManifest`, `RequestGenerationKeyGrant`, `CheckIn`,
`RefreshLease`) and a service call of an administrator (`DeactivateTablet`,
`RetireVehicle`, `ActivatePublication`, ...) are one transaction and one action each.
The delivery worker goes through cycles of at most `BatchSize` slots, and a slot through a
dataset grant, a generation grant and a manifest; for the first and the last it claims in
one transaction and builds in a second (`ClaimGrant`, `BuildGrant`, `ClaimManifest`,
`BuildManifest`), and a `Crash` or any change may come between. The two kinds of grant are
two tables (`grants`, `docGrants`). Every queue is served oldest first and is shared by all
installations; a manifest that waits for a grant goes back to PENDING and is passed over
for the rest of the cycle (`ClaimableManifests`). `cleanup_signed_manifests` lists ids and deletes them
later.

A state hash is the record of what it covers, so two hashes are equal exactly when
the states are. A wrapping is a number that is new with each `hpke_seal`, so that a
manifest with an old wrapping can be told from one with the current wrapping. The lease
is a counter of the deadlines it has had and whether the clock is far from, near or past
the present one; a refresh keeps the later of the old deadline and its target
(`RefreshLease`). `outage` stands for a missing or unusable KEK or signing key that the worker
reports as FAILED; an error the code does not catch there (`InvalidUnwrap`, from a wrong KEK
of the right length) ends the process and is a `Crash`. Publications are known by status only: their life is
`PublicationLifecycle`'s.

Left out: adoption and the replacement of an installation (one current installation per
tablet); the department, always ACTIVE; stations, which are deactivated only without
active vehicles; an assignment for a later date, which no caller of
`assign_tablet_vehicle` asks for; the app-version test of generations (an outdated client appears in
`CheckIn`); races of single statements inside requests (READ COMMITTED); a second
delivery worker; the age of rows at cleanup, which is a free choice.

## Runs

Bounds of the lifecycle runs: two contents (an edit and its revert), 3 or 4 attempts
(a predecessor, the authoritative version, a live attempt, and one more where
retention must have something to retire), up to 4 edits, 2 attempts per job (one
retry, then exhaustion), 1 retained predecessor. Two contents are enough to tell
clean from dirty, and the runs together take every action. Deadlock is
not checked: a scope with nothing to do stops, and the bounds stop it.

| Run | Shows |
|---|---|
| `lifecycle_admin` | without crash, drift and cancellation: jobs and attempts stay paired, attempts immutable, and a closeout that publishes or fails strands no newer revision |
| `lifecycle_retention` | JSON datasets with crashes: retention with stale candidates against rollback, deletion and rebuild; only an administrator's deletion cuts into the protected predecessors; what is published is whole; the scope implements the register |
| `lifecycle_files` | file libraries publish only their current revision, and keep nothing staged when an edit is undone; document generations, damaged ones included, under staging, rollback, deletion, retention and crashes implement the register |
| `lifecycle_overlap` | two workers on one job, crashes, errors, cancellations, a drifting source: the scope still implements the register, retries are bounded, and no job runs forever |
| `lifecycle_followup` | a plan dataset without crashes, errors and cancellations: a generation holds the source frozen for it, and (liveness) the last edit is published once edits stop |
| `delivery_withdrawal` | withdrawn access stays withdrawn, whatever the worker had claimed; a manifest is complete for the state it is filed under; a served manifest carries live wrappings |
| `delivery_progress` | liveness: a tablet that keeps asking gets its manifest and its generation keys, through outages, crashes, rollbacks, cleanup and a retired vehicle |
| `delivery_queue` | liveness with two tablets in one queue and two slots to a cycle: a manifest that waits for an orphaned grant does not starve the other tablet |

Bounds of the delivery runs: two vehicles or one, two versions of a JSON
dataset or of a library, and three changes (two in `delivery_progress`) anywhere between the
steps of requests and worker; requests and worker steps are not bounded. Two
changes are what it takes to leave a state and return to it, the third may fall
between a claim and a build. Tablets meet only in the worker's queues. Safety is about the
rows of one installation, whose order among the rows of others no property mentions, so
one tablet is enough there; progress is not, and `delivery_queue` has two, one of which may
be blocked for good by an orphaned grant (a crash between claim and build). A cycle has two
slots, the least with which the exclusion of deferred manifests matters; the code has ten
by default (`PUBLICATION_WORKER_BATCH_SIZE`). The guarantee ends there: as many blocked
installations as a cycle has slots fill every cycle, and the others wait until the
orphaned rows are repaired.

Fairness (`FairSpec`): weak fairness of the nightly timer, of a worker's steps (the
service is started by the timer or a wake, and a live process goes on), of ageing
heartbeats, of callbacks and of daily maintenance. Nothing is assumed of edits,
administrators, errors or crashes.

For `TabletDelivery` they are weak fairness of the worker (a persistent service, restarted on
failure), of a tablet's repeated requests (the answer to a pending request says
`Retry-After`), of the end of an outage and of a cleanup that has begun.

Four runs show a disagreement between the code and what its documents or comments
say (PROJECT.json quotes both):

* `found_stranded_by_cancel`: a newer edit is left without a build when the running one is
  cancelled (`NewerRevisionNotStranded`);
* `found_orphan_file`: the file of an attempt whose worker died is never removed
  (`TerminalFilesRemoved`);
* `found_revoked_wrapping`: after a rollback the manifest signed earlier is served again with
  the wrapping that was revoked (`ServedWrappingsAreLive`). The same happens when a vehicle
  is retired and revived and assigned again, so `delivery_withdrawal` has neither;
* `found_running_forever`: a grant or manifest whose worker died is never picked up
  (`RequestsNeedNoRepair`); `ManifestsArrive` excludes exactly such rows (`Orphaned`).

Three more are known and have no run of their own. A worker that dies before its callback
leaves a dirty scope without a job until the next edit or rebuild
(`DirtyScopeHasIntent` is checked without crashes; docs/architecture.md:48 promises a
follow-up). docs/architecture.md:49 says "A successful build is auto-published only when
its source snapshot is still current", of every dataset. The code does so for file
libraries alone (`RevisionChanged`, services.py:895); any other build is published though
its source has moved on, and the closeout queues a follow-up (services.py:1026). So
`PublishedSourceIsCurrent` is a property of `lifecycle_files` only, and fails of the other kinds. Retention counts predecessors that can no longer be restored among
the ones it protects (docs/architecture.md:60).

Two limits of the lifecycle runs come from the code as well. The deduplicating
branch of `finalize_publication_job` (services.py:929) ends a job without a follow-up
and does strand a newer edit, so `lifecycle_admin`, which checks
`NewerRevisionNotStranded`, has neither crashes nor drift, the two ways a build can turn
out to equal what is published after a newer edit. `SuccessfulIsServable` says nothing
about damage: storage may be damaged after a version was published, and what the code
does then is refuse to go back to it (`Restorable`).

With `Overlap`, `SuccessfulIsServable` does not hold: a worker that outlives its
heartbeat passes the check of `_build_is_still_running`, which asks about the job, and
closes out the attempt of its successor. It is not among the properties of
`lifecycle_overlap`; the deployment is what excludes it.

## Proofs

`PublicationProofs` proves, for every set of contents and of workers, with or without
overlap, for every limit and every bound:

* `TypeCorrect`: `Spec => []TypeOK`
* `OneAuthoritative`: `Spec => []OneAuthoritativeVersion`
* `OneLive`: `Spec => []OneLiveJob`
* `Ownership`: `Spec => []JobsOwnAttempts`

from the assumptions of `LifecycleAssumption` alone. The argument is one inductive
invariant, `IInv` (in `PublicationSteps`). `OneAuthoritativeVersion` by itself is not
inductive: a closeout that published the authoritative row again would
supersede and publish the same row. That its attempt is another row follows from
`JobsOwnAttempts` (a running job owns a BUILDING row), which needs `OneLiveJob` (ending a
job together with its attempt must leave no other job with it), and from
`WorkersHoldRows` (rows are never deleted, so what a worker read at its claim is there
at its closeout). `PublicationWriters` proves of each database writer that it keeps
`DbInv` and deletes no row, `PublicationSteps` of each action, and `PublicationProofs`
adds the workers, the files and the candidates.

`BulkRequestRebuild` on an old listing and the files an error leaves behind are part of the
steps proved.

A by-product: the branch of `_claim_job` that finds its attempt no longer STAGED is
never taken (`FrozenInv`).
Only model-checked: everything about `TabletDelivery`, and of the lifecycle
`SuccessfulIsServable`, `CleanLibraryStagesNothing`, `RetriesAreBounded`, the action
properties, the refinement, and all liveness (fairness is out of the prover's reach).

## Plan

In this order; each step adds a module with its runs, then its invariant and proof.

1. Tablets: adoption (invitations, attempt limits, replay, replacement), several
   installations of a tablet, composed with delivery.
2. Document artifacts: content-addressed sharing, references, the cleanup queue.
3. The build cycle over several scopes: batch limit, wake socket, retries.
4. File library: tree, quotas, blob pinning by snapshots, content collection.
5. Ingestion, report transfer, outbound mail.
6. Assignments of personnel and authorization windows; `compute_scope_state` as an
   operator; requests and activations at the level of statements.
7. Proofs: `ImplementsRegister` and `AttemptsAreImmutable` (they need that a live attempt
   is the last row and that READY means published once); `GrantsFollowAuthority` with the
   invariant that a grant row is unique; then the invariants of 1 to 5.

Not planned: payloads, encryption and signatures, PDF sanitising, HTTP views and
forms, shell deployment (PROJECT.json gives the reason for each).
