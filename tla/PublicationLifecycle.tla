------------------------ MODULE PublicationLifecycle ------------------------
(***************************************************************************)
(* The publication lifecycle of ONE dataset scope: the canonical source,   *)
(* the scope row, its immutable publication attempts, its build jobs, the  *)
(* build workers, the administrator's operations and the maintenance lane  *)
(* (apps/publications/services.py, retention.py, artifacts.py).            *)
(*                                                                         *)
(* Every service function of the code is one database transaction that     *)
(* first locks the scope row, so each is one action here.  What is NOT in  *)
(* such a transaction is a step of its own: the worker's build between its *)
(* claim and its closeout, the callbacks Django runs after a commit (the   *)
(* follow-up enqueue, the removal of a file), the discovery of retention   *)
(* candidates, and a crash between any two of these.                       *)
(***************************************************************************)
EXTENDS Naturals, Sequences, FiniteSets

CONSTANTS
    Contents,      \* logical contents of the canonical source (its fingerprints)
    None,          \* NULL, or an empty fingerprint
    Kind,          \* "json": one ciphertext per publication; "plans": a document
                   \* generation; "files": a document generation of a file library
    Workers,       \* build worker processes
    Overlap,       \* may a heartbeat expire while the worker that set it lives?
    MaxAttempts,   \* PUBLICATION_JOB_MAX_ATTEMPTS
    Retained,      \* PUBLICATION_RETAINED_ROLLBACK_PREDECESSORS
    Ops,           \* the optional operations this instance exercises
    MaxVersion,    \* bound on publication attempts
    MaxRevision    \* bound on source edits

Kinds == {"json", "plans", "files"}
OpNames == {"drift", "crash", "fail", "rebuild", "stage", "cancel", "rollback",
            "delete", "bulk", "retention", "damage"}

ASSUME LifecycleAssumption ==
    /\ None \notin Contents
    /\ Kind \in Kinds
    /\ Overlap \in BOOLEAN
    /\ MaxAttempts \in Nat \ {0}
    /\ Retained \in Nat
    /\ Ops \subseteq OpNames
    /\ MaxVersion \in Nat
    /\ MaxRevision \in Nat

VARIABLES
    source,     \* the canonical rows a builder would read now
    db,         \* the scope row, its publications and its jobs
    worker,     \* what each build process holds between its transactions
    files,      \* versions whose publication ciphertext is on disk
    removals,   \* versions whose file some process is to remove after its commit
    cand        \* retention candidates discovered and not yet processed

vars == <<source, db, worker, files, removals, cand>>

Document == Kind # "json"
FileScope == Kind = "files"

Terminal == {"FAILED", "REJECTED", "OBSOLETE", "CANCELLED"}
Successful == {"PUBLISHED", "SUPERSEDED"}
LiveJob == {"PENDING", "RUNNING"}
PubStatus == {"STAGED", "BUILDING"} \cup Terminal \cup Successful
JobStatus == LiveJob \cup {"SUCCEEDED", "FAILED", "OBSOLETE", "CANCELLED"}
Triggers == {"DATA_CHANGE", "USER_REQUEST", "BULK_REQUEST"}

(* A publication: its version is its index in db.pubs.  `content' is what  *)
(* its stored artifact (or document generation) holds, `intact' whether a  *)
(* strict check of a document generation would accept it.                  *)
Publication ==
    [status : PubStatus, rev : Nat, fp : Contents \cup {None},
     snap : Contents \cup {None}, artifact : {"PENDING", "READY", "FAILED"},
     content : Contents \cup {None}, intact : BOOLEAN]

(* A job: `pub' is its build_publication (0 is NULL), `due' says that      *)
(* not_before has passed, `stale' that heartbeat_at is beyond the timeout. *)
Job ==
    [status : JobStatus, pub : Nat, trigger : Triggers, clean : BOOLEAN,
     due : BOOLEAN, attempts : Nat, stale : BOOLEAN]

(* The rows of the scope.  `dirty' is dirty_since # NULL, `current' and    *)
(* `latest' are current_published_publication and latest_built_publication *)
(* (0 is NULL).                                                            *)
Database ==
    [exists : BOOLEAN, rev : Nat, fp : Contents \cup {None}, dirty : BOOLEAN,
     current : Nat, latest : Nat, pubs : Seq(Publication), jobs : Seq(Job)]

WorkerState ==
    [pc : {"idle", "claimed", "prepared", "built", "checked", "followup"},
     job : Nat, pub : Nat, fp : Contents \cup {None},
     content : Contents \cup {None}]

Idle == [pc |-> "idle", job |-> 0, pub |-> 0, fp |-> None, content |-> None]

Init ==
    /\ source \in Contents
    /\ db = [exists |-> FALSE, rev |-> 0, fp |-> None, dirty |-> FALSE,
             current |-> 0, latest |-> 0, pubs |-> <<>>, jobs |-> <<>>]
    /\ worker = [w \in Workers |-> Idle]
    /\ files = {}
    /\ removals = {}
    /\ cand = {}

-----------------------------------------------------------------------------
(* Reading the scope under its lock.                                       *)

Versions(d) == DOMAIN d.pubs

(* _scope_is_dirty: a scope is clean only when it has a publication and    *)
(* the fingerprint f of its source is known and that of the publication.   *)
ScopeIsClean(d, f) ==
    /\ d.current # 0
    /\ f # None
    /\ f = d.pubs[d.current].fp

ScopeIsDirty(d, f) == ~ScopeIsClean(d, f)

LiveJobs(d) == {j \in DOMAIN d.jobs : d.jobs[j].status \in LiveJob}
Running(d) == {j \in DOMAIN d.jobs : d.jobs[j].status = "RUNNING"}
Pending(d) == {j \in DOMAIN d.jobs : d.jobs[j].status = "PENDING"}

NewerLiveAttemptExists(d, n) ==
    \E v \in Versions(d) : v > n /\ d.pubs[v].status \in {"STAGED", "BUILDING"}

(* Mutant: the status of the restored row is not checked.                  *)
RestorableAnyStatus(d, v) == d.pubs[v].artifact = "READY"

(* publication_restore_blocked_reason(strict=True) is empty.               *)
Restorable(d, v) ==
    /\ d.pubs[v].status = "SUPERSEDED"
    /\ d.pubs[v].artifact = "READY"
    /\ Document => d.pubs[v].intact

(* _build_is_still_running                                                 *)
StillRunning(d, j) ==
    /\ d.jobs[j].status = "RUNNING"
    /\ d.jobs[j].pub # 0
    /\ d.pubs[d.jobs[j].pub].status = "BUILDING"

-----------------------------------------------------------------------------
(* Writing the scope under its lock: each operator is one helper of the    *)
(* code, from the rows before to the rows after.  c is the content of the  *)
(* canonical source when the helper reads it.                              *)

(* publication.save and job.save.                                          *)
SavePublication(d, v, p) == [d EXCEPT !.pubs[v] = p]
SaveJob(d, j, r) == [d EXCEPT !.jobs[j] = r]
EndJob(d, j, status) == SaveJob(d, j, [d.jobs[j] EXCEPT !.status = status])

(* Mutant: the attempt records the revision before the one it freezes.     *)
AllocateStagedLate(d, c) ==
    [d EXCEPT !.pubs = Append(@,
        [status |-> "STAGED", rev |-> d.rev - 1, fp |-> c, snap |-> c,
         artifact |-> "PENDING", content |-> None, intact |-> TRUE])]

(* _allocate_staged_publication: rows are never deleted, so the highest    *)
(* version is the number of rows.                                          *)
AllocateStaged(d, c) ==
    [d EXCEPT !.pubs = Append(@,
        [status |-> "STAGED", rev |-> d.rev, fp |-> c, snap |-> c,
         artifact |-> "PENDING", content |-> None, intact |-> TRUE])]

(* Mutant: the jobs are cancelled, their staged attempts are forgotten.    *)
CancelPendingJobsOnly(d) ==
    [d EXCEPT !.jobs = [j \in DOMAIN d.jobs |->
        IF d.jobs[j].status = "PENDING" /\ ~d.jobs[j].clean
        THEN [d.jobs[j] EXCEPT !.status = "CANCELLED"] ELSE d.jobs[j]]]

(* _cancel_redundant_pending: every pending job that is not an explicit    *)
(* rebuild, and every staged attempt no live job owns any more.            *)
CancelRedundantPending(d) ==
    LET js == [j \in DOMAIN d.jobs |->
                 IF d.jobs[j].status = "PENDING" /\ ~d.jobs[j].clean
                 THEN [d.jobs[j] EXCEPT !.status = "CANCELLED"]
                 ELSE d.jobs[j]]
        Owned(v) == \E j \in DOMAIN js : js[j].pub = v /\ js[j].status \in LiveJob
    IN  [d EXCEPT
          !.jobs = js,
          !.pubs = [v \in DOMAIN d.pubs |->
                      IF d.pubs[v].status = "STAGED" /\ ~Owned(v)
                      THEN [d.pubs[v] EXCEPT !.status = "CANCELLED"]
                      ELSE d.pubs[v]]]

(* Mutant: the scope is marked clean and its queue is left alone.          *)
MarkCleanOnly(d, c) ==
    IF ScopeIsDirty(d, c) THEN d ELSE [d EXCEPT !.fp = c, !.dirty = FALSE]

(* _reconcile_clean_source                                                 *)
ReconcileCleanSource(d, c) ==
    IF ScopeIsDirty(d, c)
    THEN d
    ELSE CancelRedundantPending([d EXCEPT !.fp = c, !.dirty = FALSE])

(* enqueue_publication_job, no live job: a pending job and its staged      *)
(* attempt.  A data change waits for the next nightly build.               *)
NewJob(d, c, trigger, clean) ==
    LET a == AllocateStaged(d, c)
    IN  [a EXCEPT !.jobs = Append(@,
           [status |-> "PENDING", pub |-> Len(a.pubs), trigger |-> trigger,
            clean |-> clean, due |-> trigger # "DATA_CHANGE", attempts |-> 0,
            stale |-> FALSE])]

(* enqueue_publication_job, job j pending: it takes the latest source; an  *)
(* explicit request makes it due, a data change puts a data-change job off *)
(* to the next night.                                                      *)
CoalesceJob(d, j, c, trigger, clean) ==
    LET job == d.jobs[j]
        explicit == trigger # "DATA_CHANGE"
        due == explicit \/ (job.trigger # "DATA_CHANGE" /\ job.due)
        refresh == job.pub # 0 /\ d.pubs[job.pub].status = "STAGED"
        e == IF refresh
             THEN SavePublication(d, job.pub, [d.pubs[job.pub] EXCEPT
                                                 !.rev = d.rev, !.fp = c, !.snap = c])
             ELSE d
    IN  SaveJob(e, j, [job EXCEPT !.clean = job.clean \/ clean, !.due = due,
                                  !.trigger = IF explicit THEN trigger ELSE job.trigger])

(* Mutant: only a pending job counts as active, so one is created beside a *)
(* running build.                                                          *)
EnqueueBesideRunning(d0, c, trigger, clean) ==
    LET d == [d0 EXCEPT !.fp = c]
    IN  IF ~clean /\ ~ScopeIsDirty(d, c)
        THEN ReconcileCleanSource(d, c)
        ELSE IF Pending(d) = {}
        THEN NewJob(d, c, trigger, clean)
        ELSE CoalesceJob(d, CHOOSE k \in Pending(d) : TRUE, c, trigger, clean)

(* enqueue_publication_job: nothing for a clean scope, one intent per      *)
(* scope, and nothing while a build runs.                                  *)
EnqueuePublicationJob(d0, c, trigger, clean) ==
    LET d == [d0 EXCEPT !.fp = c]
    IN  IF ~clean /\ ~ScopeIsDirty(d, c)
        THEN ReconcileCleanSource(d, c)
        ELSE IF LiveJobs(d) = {}
        THEN NewJob(d, c, trigger, clean)
        ELSE LET j == CHOOSE k \in LiveJobs(d) : TRUE
             IN  IF d.jobs[j].status = "RUNNING" THEN d
                 ELSE CoalesceJob(d, j, c, trigger, clean)

(* mark_dirty, in the transaction of the canonical edit.                   *)
MarkDirty(d0, c) ==
    LET d == [d0 EXCEPT !.exists = TRUE, !.rev = d0.rev + 1, !.fp = c]
    IN  IF ScopeIsDirty(d, c)
        THEN EnqueuePublicationJob([d EXCEPT !.dirty = TRUE], c, "DATA_CHANGE", FALSE)
        ELSE ReconcileCleanSource(d, c)

(* A terminal attempt; a document generation releases its references.      *)
Terminate(p, status) ==
    [p EXCEPT !.status = status, !.content = IF Document THEN None ELSE p.content]

(* An obsolete attempt also gives up its source snapshot.                  *)
Retire(p) == [Terminate(p, "OBSOLETE") EXCEPT !.snap = None]

(* Mutant: the previous publication is not superseded.                     *)
ActivateKeepingPrevious(d, v) ==
    [d EXCEPT !.pubs[v].status = "PUBLISHED", !.current = v]

(* _activate_publication                                                   *)
ActivatePublication(d, v) ==
    LET e == IF d.current = 0 THEN d
             ELSE SavePublication(d, d.current,
                                  [d.pubs[d.current] EXCEPT !.status = "SUPERSEDED"])
        f == SavePublication(e, v, [e.pubs[v] EXCEPT !.status = "PUBLISHED"])
    IN  [f EXCEPT !.current = v]

(* The retirement of a successful publication by deletion or retention.    *)
Obsolete(d, v) ==
    [SavePublication(d, v, Retire(d.pubs[v])) EXCEPT
        !.latest = IF d.latest = v THEN d.current ELSE d.latest]

(* Mutant: the attempt of a lost or failed job stays BUILDING.             *)
FailJobOnly(d, v, artifact) == d

(* The attempt of a failed or lost job fails if it is still building.      *)
FailAttempt(d, v, artifact) ==
    IF d.pubs[v].status = "BUILDING"
    THEN SavePublication(d, v, [Terminate(d.pubs[v], "FAILED") EXCEPT !.artifact = artifact])
    ELSE d

-----------------------------------------------------------------------------
(* The canonical source and the clock.                                     *)

(* The bound on attempts guards every transaction that may allocate one.   *)
Write(d) ==
    /\ Len(d.pubs) <= MaxVersion
    /\ db' = d

(* A canonical edit and mark_dirty commit together.                        *)
Edit(c) ==
    /\ db.rev < MaxRevision
    /\ source' = c
    /\ Write(MarkDirty(db, c))
    /\ UNCHANGED <<worker, files, removals, cand>>

(* A time-dependent source (assignments that start or end) changes with no *)
(* edit, so no transaction marks the scope.                                *)
Drift(c) ==
    /\ "drift" \in Ops
    /\ ~FileScope
    /\ c # source
    /\ source' = c
    /\ UNCHANGED <<db, worker, files, removals, cand>>

(* Mutant: only the jobs of administrators fall due.                       *)
NightlyUserRequests ==
    /\ \E j \in Pending(db) : ~db.jobs[j].due /\ db.jobs[j].trigger # "DATA_CHANGE"
    /\ db' = [db EXCEPT !.jobs = [j \in DOMAIN @ |->
                 IF @[j].status = "PENDING" THEN [@[j] EXCEPT !.due = TRUE] ELSE @[j]]]
    /\ UNCHANGED <<source, worker, files, removals, cand>>

(* 00:05 passes: pending data-change jobs reach not_before.                *)
NightlyTimer ==
    /\ \E j \in Pending(db) : ~db.jobs[j].due
    /\ db' = [db EXCEPT !.jobs = [j \in DOMAIN @ |->
                 IF @[j].status = "PENDING" THEN [@[j] EXCEPT !.due = TRUE] ELSE @[j]]]
    /\ UNCHANGED <<source, worker, files, removals, cand>>

(* The heartbeat, set once by the claim, passes the timeout.  Deployed     *)
(* workers are killed long before that.                                    *)
HeartbeatExpires(j) ==
    /\ j \in Running(db)
    /\ ~db.jobs[j].stale
    /\ Overlap \/ \A w \in Workers : worker[w].job # j
    /\ db' = SaveJob(db, j, [db.jobs[j] EXCEPT !.stale = TRUE])
    /\ UNCHANGED <<source, worker, files, removals, cand>>

-----------------------------------------------------------------------------
(* The administrator's operations.                                         *)

RequestRebuild ==
    /\ "rebuild" \in Ops
    /\ LiveJobs(db) = {}
    /\ \A v \in Versions(db) : db.pubs[v].status \notin {"STAGED", "BUILDING"}
    /\ Write(EnqueuePublicationJob([db EXCEPT !.exists = TRUE], source,
                                   "USER_REQUEST", TRUE))
    /\ UNCHANGED <<source, worker, files, removals, cand>>

(* A clean file scope is reconciled and left; any other clean scope is     *)
(* refused.                                                                *)
StagePublicationUpdate ==
    /\ "stage" \in Ops
    /\ db.exists
    /\ \/ /\ FileScope
          /\ ~ScopeIsDirty(db, source)
          /\ Write(ReconcileCleanSource(db, source))
       \/ /\ ScopeIsDirty(db, source)
          /\ ScopeIsDirty(db, db.fp)
          /\ LiveJobs(db) = {}
          /\ Write(EnqueuePublicationJob(db, source, "DATA_CHANGE", FALSE))
    /\ UNCHANGED <<source, worker, files, removals, cand>>

BuildStagedPublication(j) ==
    /\ "stage" \in Ops
    /\ j \in Pending(db)
    /\ db.jobs[j].pub # 0
    /\ db.pubs[db.jobs[j].pub].status = "STAGED"
    /\ IF FileScope /\ ~db.jobs[j].clean /\ ~ScopeIsDirty(db, source)
       THEN Write(ReconcileCleanSource(db, source))
       ELSE Write(SaveJob(db, j, [db.jobs[j] EXCEPT !.trigger = "USER_REQUEST",
                                                    !.due = TRUE]))
    /\ UNCHANGED <<source, worker, files, removals, cand>>

(* The staged attempt and every job that owns it.                          *)
DeleteStaged(d, v) ==
    LET js == [j \in DOMAIN d.jobs |->
                 IF d.jobs[j].pub = v THEN [d.jobs[j] EXCEPT !.status = "CANCELLED"]
                 ELSE d.jobs[j]]
        e == SavePublication(d, v, [d.pubs[v] EXCEPT !.status = "CANCELLED"])
    IN  [e EXCEPT !.jobs = js]

DeleteStagedPublication(v) ==
    /\ "stage" \in Ops
    /\ v \in Versions(db)
    /\ db.pubs[v].status = "STAGED"
    /\ \A j \in DOMAIN db.jobs : db.jobs[j].pub = v => db.jobs[j].status = "PENDING"
    /\ LET d == DeleteStaged(db, v)
       IN  Write(IF FileScope THEN ReconcileCleanSource(d, source) ELSE d)
    /\ UNCHANGED <<source, worker, files, removals, cand>>

(* Cancelling a build leaves the worker to notice; no follow-up is queued. *)
CancelPublicationBuild(j) ==
    /\ "cancel" \in Ops
    /\ j \in Running(db)
    /\ db.jobs[j].pub # 0
    /\ db.pubs[db.jobs[j].pub].status = "BUILDING"
    /\ LET v == db.jobs[j].pub
       IN  Write(EndJob(SavePublication(db, v, Terminate(db.pubs[v], "CANCELLED")),
                        j, "CANCELLED"))
    /\ UNCHANGED <<source, worker, files, removals, cand>>

RollbackPublication(v) ==
    /\ "rollback" \in Ops
    /\ v \in Versions(db)
    /\ Restorable(db, v)
    /\ db.current # 0
    /\ ~NewerLiveAttemptExists(db, db.current)
    /\ Write(ActivatePublication(db, v))
    /\ UNCHANGED <<source, worker, files, removals, cand>>

(* Mutant: any restorable version, newer ones included.                    *)
RestorableVersions(d, n) == {v \in Versions(d) \ {n} : Restorable(d, v)}

(* The predecessor an active deletion falls back to: the newest restorable *)
(* version below the deleted one.                                          *)
EligiblePredecessors(d, n) ==
    LET below == {v \in Versions(d) : v < n /\ Restorable(d, v)}
    IN  {v \in below : \A u \in below : u <= v}

(* The ciphertext of a publication is removed after the commit.            *)
ScheduleArtifactRemoval(v) ==
    removals' = IF Document THEN removals ELSE removals \cup {v}

DeleteActivePublication ==
    /\ "delete" \in Ops
    /\ db.current # 0
    /\ ~NewerLiveAttemptExists(db, db.current)
    /\ \E u \in EligiblePredecessors(db, db.current) :
          Write(Obsolete(ActivatePublication(db, u), db.current))
    /\ ScheduleArtifactRemoval(db.current)
    /\ UNCHANGED <<source, worker, files, cand>>

DeleteSupersededPublication(v) ==
    /\ "delete" \in Ops
    /\ v \in Versions(db)
    /\ db.pubs[v].status = "SUPERSEDED"
    /\ Write(Obsolete(db, v))
    /\ ScheduleArtifactRemoval(v)
    /\ UNCHANGED <<source, worker, files, cand>>

(* bulk_request_rebuilds, for this scope.  Its listing takes no lock and   *)
(* may be old when the scope is enqueued.  Every scope qualified when it   *)
(* was created (nothing built, nothing running), so the enqueue may meet   *)
(* any state of a scope that exists.                                       *)
BulkRequestRebuild ==
    /\ "bulk" \in Ops
    /\ db.exists
    /\ Write(EnqueuePublicationJob(db, source, "BULK_REQUEST", FALSE))
    /\ UNCHANGED <<source, worker, files, removals, cand>>

(* File libraries: the portal's publish_now, and the first publication of  *)
(* a library the worker discovers.                                         *)
PublishNow ==
    /\ FileScope
    /\ "stage" \in Ops
    /\ db.exists
    /\ \/ Running(db) = {}
       \/ /\ \A j \in LiveJobs(db) : ~db.jobs[j].clean
          /\ ~ScopeIsDirty(db, source)
    /\ Write(EnqueuePublicationJob(db, source, "USER_REQUEST", FALSE))
    /\ UNCHANGED <<source, worker, files, removals, cand>>

InitializeLibrary ==
    /\ FileScope
    /\ ~db.exists
    /\ Write(EnqueuePublicationJob([db EXCEPT !.exists = TRUE], source,
                                   "DATA_CHANGE", FALSE))
    /\ UNCHANGED <<source, worker, files, removals, cand>>

(* The repair command of file scopes.                                      *)
ReconcileFileScope ==
    /\ FileScope
    /\ "stage" \in Ops
    /\ db.exists
    /\ Running(db) = {}
    /\ ~ScopeIsDirty(db, source)
    /\ Write(ReconcileCleanSource(db, source))
    /\ UNCHANGED <<source, worker, files, removals, cand>>

-----------------------------------------------------------------------------
(* A build worker: claim, build outside every lock, close out.             *)

GoIdle(w) == worker' = [worker EXCEPT ![w] = Idle]

(* Mutant: no follow-up is registered.                                     *)
NoFollowUp(w, d) == GoIdle(w)

(* After a commit the process still has to run the follow-up callback that *)
(* the transaction registered when the scope stayed dirty.                 *)
AfterCloseout(w, d) ==
    worker' = [worker EXCEPT ![w] =
        IF ScopeIsDirty(d, d.fp) THEN [Idle EXCEPT !.pc = "followup"] ELSE Idle]

(* Mutant: the attempt allocated for a retried job is not linked to it.    *)
FreezeUnlinkedAttempt(d0, j, c) ==
    LET d1 == [d0 EXCEPT !.fp = c]
        d == IF d1.jobs[j].pub = 0 THEN AllocateStaged(d1, c) ELSE d1
        v == IF d1.jobs[j].pub = 0 THEN Len(d.pubs) ELSE d1.jobs[j].pub
    IN  [d EXCEPT
          !.pubs[v] = [@ EXCEPT !.rev = d.rev, !.fp = c, !.snap = c,
                                !.status = "BUILDING"],
          !.jobs[j] = [@ EXCEPT !.status = "RUNNING", !.attempts = @ + 1,
                                !.stale = FALSE]]

(* _claim_job: the frozen source is the canonical one at the claim.  A     *)
(* retried job has lost its failed attempt and is given a new one.         *)
FreezeAttempt(d0, j, c) ==
    LET d1 == [d0 EXCEPT !.fp = c]
        d == IF d1.jobs[j].pub = 0 THEN AllocateStaged(d1, c) ELSE d1
        v == IF d1.jobs[j].pub = 0 THEN Len(d.pubs) ELSE d1.jobs[j].pub
    IN  IF d.pubs[v].status # "STAGED"
        THEN EndJob(d, j, "OBSOLETE")
        ELSE SaveJob(
               SavePublication(d, v, [d.pubs[v] EXCEPT !.rev = d.rev, !.fp = c, !.snap = c,
                                                       !.status = "BUILDING"]),
               j, [d.jobs[j] EXCEPT !.status = "RUNNING", !.pub = v,
                                    !.attempts = d.jobs[j].attempts + 1, !.stale = FALSE])

ClaimJob(w, j) ==
    /\ worker[w].pc = "idle"
    /\ j \in Pending(db)
    /\ db.jobs[j].due
    /\ IF FileScope /\ ~db.jobs[j].clean /\ ~ScopeIsDirty(db, source)
       THEN /\ Write(ReconcileCleanSource(db, source))
            /\ UNCHANGED worker
       ELSE /\ Write(FreezeAttempt(db, j, source))
            /\ worker' = [worker EXCEPT ![w] =
                            [Idle EXCEPT !.pc = "claimed", !.job = j]]
    /\ UNCHANGED <<source, files, removals, cand>>

(* build_claimed_job up to its first checkpoint: the attempt's frozen      *)
(* fingerprint and snapshot are read (and the summary is built, which only *)
(* the portal shows).                                                      *)
PrepareBuild(w) ==
    LET j == worker[w].job
        p == db.pubs[db.jobs[j].pub]
    IN  /\ worker[w].pc = "claimed"
        /\ IF ~StillRunning(db, j)
           THEN GoIdle(w)
           ELSE worker' = [worker EXCEPT ![w] =
                   [@ EXCEPT !.pc = "prepared", !.pub = db.jobs[j].pub,
                             !.fp = p.fp, !.content = p.snap]]
        /\ UNCHANGED <<source, db, files, removals, cand>>

(* Mutant: the document generation is built from the canonical rows.       *)
BuildLiveGeneration(w) ==
    /\ worker[w].pc = "prepared"
    /\ db.pubs[worker[w].pub].status = "BUILDING"
    /\ db' = [db EXCEPT !.pubs[worker[w].pub].content = source]
    /\ worker' = [worker EXCEPT ![w].pc = "built"]
    /\ UNCHANGED <<source, files, removals, cand>>

(* The encrypted artifact is promoted to the attempt's own path, or the    *)
(* document generation is committed while the attempt is still building.   *)
BuildArtifact(w) ==
    LET v == worker[w].pub
    IN  /\ worker[w].pc = "prepared"
        /\ IF ~Document
           THEN /\ files' = files \cup {v}
                /\ worker' = [worker EXCEPT ![w].pc = "built"]
                /\ UNCHANGED db
           ELSE /\ UNCHANGED files
                /\ IF db.pubs[v].status # "BUILDING"
                   THEN GoIdle(w) /\ UNCHANGED db
                   ELSE /\ db' = SavePublication(db, v,
                                    [db.pubs[v] EXCEPT !.content = db.pubs[v].snap])
                        /\ worker' = [worker EXCEPT ![w].pc = "built"]
        /\ UNCHANGED <<source, removals, cand>>

(* The last checkpoint before the closeout: an attempt that is no longer   *)
(* wanted gives its artifact back.                                         *)
Checkpoint(w) ==
    LET v == worker[w].pub
    IN  /\ worker[w].pc = "built"
        /\ IF StillRunning(db, worker[w].job)
           THEN /\ worker' = [worker EXCEPT ![w].pc = "checked"]
                /\ UNCHANGED <<db, files>>
           ELSE /\ GoIdle(w)
                /\ files' = files \ {v}
                /\ db' = IF Document /\ db.pubs[v].status \in Terminal
                         THEN SavePublication(db, v, [db.pubs[v] EXCEPT !.content = None])
                         ELSE db
        /\ UNCHANGED <<source, removals, cand>>

(* finalize_publication_job finds its job or its attempt gone.             *)
FinalizeInactive(w) ==
    /\ worker[w].pc = "checked"
    /\ ~StillRunning(db, worker[w].job)
    /\ ScheduleArtifactRemoval(worker[w].pub)
    /\ GoIdle(w)
    /\ UNCHANGED <<source, db, files, cand>>

(* Mutant: the closeout does not validate the attempt.                     *)
NotValidated(w, v) == TRUE

(* full_clean accepts the attempt: its ciphertext is at its own path, or   *)
(* its document generation is complete.                                    *)
Valid(w, v) == IF Document THEN db.pubs[v].content # None ELSE worker[w].pub = v

(* Mutant: the published fingerprint is that of the scope at the closeout. *)
FingerprintAtCloseout(w, v) == db.fp

(* The fingerprint the closeout records: that of the frozen source.        *)
BuiltFingerprint(w, v) == IF FileScope THEN db.pubs[v].snap ELSE worker[w].fp

(* Mutant: the closeout of a file library ignores later revisions.         *)
RevisionIgnored(v) == FALSE

(* A file library has moved on since the attempt was frozen.               *)
RevisionChanged(v) == FileScope /\ db.rev # db.pubs[v].rev

SourceMatchesCurrent(w, v, j) ==
    /\ db.current # 0
    /\ db.pubs[db.current].fp # None
    /\ db.pubs[db.current].fp = BuiltFingerprint(w, v)
    /\ ~db.jobs[j].clean

(* A file library that moved on: the attempt is obsolete and its intent is *)
(* queued again in the same transaction.                                   *)
FinalizeRevisionChanged(w) ==
    LET j == worker[w].job
        v == db.jobs[j].pub
    IN  /\ worker[w].pc = "checked"
        /\ StillRunning(db, j)
        /\ RevisionChanged(v)
        /\ Write(EnqueuePublicationJob(
                   EndJob(SavePublication(db, v, Retire(db.pubs[v])), j, "OBSOLETE"),
                   source, db.jobs[j].trigger, db.jobs[j].clean))
        /\ ScheduleArtifactRemoval(worker[w].pub)
        /\ GoIdle(w)
        /\ UNCHANGED <<source, files, cand>>

(* The built content is what is published already.                         *)
FinalizeDuplicate(w) ==
    LET j == worker[w].job
        v == db.jobs[j].pub
        p == [Retire(db.pubs[v]) EXCEPT !.fp = BuiltFingerprint(w, v)]
    IN  /\ worker[w].pc = "checked"
        /\ StillRunning(db, j)
        /\ ~RevisionChanged(v)
        /\ SourceMatchesCurrent(w, v, j)
        /\ Write([EndJob(SavePublication(db, v, p), j, "OBSOLETE") EXCEPT !.dirty = FALSE])
        /\ ScheduleArtifactRemoval(worker[w].pub)
        /\ GoIdle(w)
        /\ UNCHANGED <<source, files, cand>>

(* The attempt becomes the authoritative publication.                      *)
FinalizePublish(w) ==
    LET j == worker[w].job
        v == db.jobs[j].pub
        p == [db.pubs[v] EXCEPT
                !.fp = BuiltFingerprint(w, v),
                !.artifact = "READY",
                !.content = IF Document THEN db.pubs[v].content ELSE worker[w].content]
        built == [SavePublication(db, v, p) EXCEPT !.latest = v]
        d == EndJob(ActivatePublication(built, v), j, "SUCCEEDED")
    IN  /\ worker[w].pc = "checked"
        /\ StillRunning(db, j)
        /\ ~RevisionChanged(v)
        /\ ~SourceMatchesCurrent(w, v, j)
        /\ Valid(w, v)
        /\ Write([d EXCEPT !.dirty = ScopeIsDirty(d, d.fp)])
        /\ AfterCloseout(w, d)
        /\ UNCHANGED <<source, files, removals, cand>>

(* What an error leaves on disk.  The closeout gives its artifact back; an *)
(* error inside build_encrypted_artifact may come after the file was       *)
(* promoted, when the caller has no artifact to give back.                 *)
FilesAfterError(w) ==
    IF worker[w].pc = "checked" THEN {files \ {worker[w].pub}}
    ELSE IF worker[w].pc = "prepared" /\ ~Document
    THEN {files, files \cup {worker[w].pub}}
    ELSE {files}

(* A build error before, during or at the closeout: fail_publication_job   *)
(* ends whatever attempt the job owns now.                                 *)
FailPublicationJob(w) ==
    LET j == worker[w].job
        d == EndJob(FailAttempt(db, db.jobs[j].pub, "FAILED"), j, "FAILED")
    IN  /\ \/ "fail" \in Ops /\ worker[w].pc \in {"claimed", "prepared", "checked"}
           \/ /\ worker[w].pc = "checked"
              /\ StillRunning(db, j)
              /\ ~RevisionChanged(db.jobs[j].pub)
              /\ ~SourceMatchesCurrent(w, db.jobs[j].pub, j)
              /\ ~Valid(w, db.jobs[j].pub)
        /\ files' \in FilesAfterError(w)
        /\ IF db.jobs[j].status = "RUNNING"
           THEN Write(d) /\ AfterCloseout(w, d)
           ELSE GoIdle(w) /\ UNCHANGED db
        /\ UNCHANGED <<source, removals, cand>>

(* The callback of a committed closeout.                                   *)
QueueFollowUp(w) ==
    /\ worker[w].pc = "followup"
    /\ Write(EnqueuePublicationJob(db, source, "DATA_CHANGE", FALSE))
    /\ GoIdle(w)
    /\ UNCHANGED <<source, files, removals, cand>>

(* The process dies: killed at its start timeout, or an error that         *)
(* propagates.                                                             *)
Crash(w) ==
    /\ "crash" \in Ops
    /\ worker[w].pc # "idle"
    /\ GoIdle(w)
    /\ UNCHANGED <<source, db, files, removals, cand>>

(* Mutant: a job that has had its attempts is left as it is.               *)
RecoverUnexhaustedJob(w, j) ==
    LET d == FailAttempt(db, db.jobs[j].pub, db.pubs[db.jobs[j].pub].artifact)
    IN  /\ worker[w].pc = "idle"
        /\ j \in Running(db)
        /\ db.jobs[j].stale
        /\ db.jobs[j].attempts < MaxAttempts
        /\ Write([d EXCEPT !.jobs[j] = [@ EXCEPT !.status = "PENDING", !.pub = 0,
                                                  !.stale = FALSE]])
        /\ UNCHANGED <<source, worker, files, removals, cand>>

(* Mutant: one retry too many.                                             *)
RecoverOnceMore(w, j) ==
    LET d == FailAttempt(db, db.jobs[j].pub, db.pubs[db.jobs[j].pub].artifact)
        f == EndJob(d, j, "FAILED")
    IN  /\ worker[w].pc = "idle"
        /\ j \in Running(db)
        /\ db.jobs[j].stale
        /\ IF db.jobs[j].attempts > MaxAttempts
           THEN Write(f) /\ AfterCloseout(w, f)
           ELSE /\ Write(SaveJob(d, j, [d.jobs[j] EXCEPT !.status = "PENDING", !.pub = 0,
                                                         !.stale = FALSE]))
                /\ UNCHANGED worker
        /\ UNCHANGED <<source, files, removals, cand>>

(* recover_stale_jobs, at the start of a worker's cycle: the job is tried  *)
(* again with a new attempt, or has had its attempts.                      *)
RecoverStaleJob(w, j) ==
    LET d == FailAttempt(db, db.jobs[j].pub, db.pubs[db.jobs[j].pub].artifact)
        exhausted == db.jobs[j].attempts >= MaxAttempts
        f == EndJob(d, j, "FAILED")
    IN  /\ worker[w].pc = "idle"
        /\ j \in Running(db)
        /\ db.jobs[j].stale
        /\ IF exhausted
           THEN Write(f) /\ AfterCloseout(w, f)
           ELSE /\ Write(SaveJob(d, j, [d.jobs[j] EXCEPT !.status = "PENDING", !.pub = 0,
                                                         !.stale = FALSE]))
                /\ UNCHANGED worker
        /\ UNCHANGED <<source, files, removals, cand>>

-----------------------------------------------------------------------------
(* Files after a commit, and the maintenance lane.                         *)

RemoveArtifactFile(v) ==
    /\ v \in removals
    /\ files' = files \ {v}
    /\ removals' = removals \ {v}
    /\ UNCHANGED <<source, db, worker, cand>>

(* The callback fails or its process dies; nothing remembers it.           *)
RemovalLost(v) ==
    /\ "crash" \in Ops
    /\ v \in removals
    /\ removals' = removals \ {v}
    /\ UNCHANGED <<source, db, worker, files, cand>>

(* cleanup_stale_artifacts: the files of terminal attempts whose row holds *)
(* an artifact path, that is, of those that were once published.           *)
CleanupStaleArtifacts ==
    LET recorded == {v \in Versions(db) : /\ db.pubs[v].status \in Terminal
                                          /\ db.pubs[v].artifact = "READY"
                                          /\ ~Document}
    IN  /\ "retention" \in Ops
        /\ files \cap recorded # {}
        /\ files' = files \ recorded
        /\ UNCHANGED <<source, db, worker, removals, cand>>

(* _is_retained_predecessor: the newest READY superseded versions.         *)
ReadySuperseded(d) ==
    {v \in Versions(d) : d.pubs[v].status = "SUPERSEDED" /\ d.pubs[v].artifact = "READY"}

IsRetainedPredecessor(d, v) ==
    /\ v \in ReadySuperseded(d)
    /\ Cardinality({u \in ReadySuperseded(d) : u > v}) < Retained

(* _candidate_ids, read outside every lock.                                *)
DiscoverCandidates ==
    LET found == {v \in Versions(db) :
                    \/ db.pubs[v].status = "SUPERSEDED" /\ ~IsRetainedPredecessor(db, v)
                    \/ db.pubs[v].status \in {"FAILED", "CANCELLED"} /\ db.pubs[v].snap # None}
    IN  /\ "retention" \in Ops
        /\ cand = {}
        /\ found # {}
        /\ cand' = found
        /\ UNCHANGED <<source, db, worker, files, removals>>

(* Mutant: the candidate list is trusted.                                  *)
ObsoleteUnchecked(v) ==
    /\ v \in cand
    /\ LiveJobs(db) = {}
    /\ db.pubs[v].status = "SUPERSEDED"
    /\ Write(Obsolete(db, v))
    /\ ScheduleArtifactRemoval(v)
    /\ cand' = cand \ {v}
    /\ UNCHANGED <<source, worker, files>>

(* _process_candidate: every condition is checked again under the lock.    *)
ObsoleteCandidate(v) ==
    /\ v \in cand
    /\ LiveJobs(db) = {}
    /\ db.pubs[v].status = "SUPERSEDED"
    /\ db.current # v
    /\ ~IsRetainedPredecessor(db, v)
    /\ Write(Obsolete(db, v))
    /\ ScheduleArtifactRemoval(v)
    /\ cand' = cand \ {v}
    /\ UNCHANGED <<source, worker, files>>

PurgeCandidateSnapshot(v) ==
    /\ v \in cand
    /\ LiveJobs(db) = {}
    /\ db.pubs[v].status \in {"FAILED", "CANCELLED"}
    /\ db.pubs[v].snap # None
    /\ Write(SavePublication(db, v,
               [Terminate(db.pubs[v], db.pubs[v].status) EXCEPT !.snap = None]))
    /\ cand' = cand \ {v}
    /\ UNCHANGED <<source, worker, files, removals>>

SkipCandidate(v) ==
    /\ v \in cand
    /\ \/ LiveJobs(db) # {}
       \/ /\ db.pubs[v].status = "SUPERSEDED"
          /\ db.current = v \/ IsRetainedPredecessor(db, v)
       \/ db.pubs[v].status \notin {"SUPERSEDED", "FAILED", "CANCELLED"}
       \/ db.pubs[v].status \in {"FAILED", "CANCELLED"}
    /\ cand' = cand \ {v}
    /\ UNCHANGED <<source, db, worker, files, removals>>

(* The storage of a superseded document generation no longer validates.    *)
DamageGeneration(v) ==
    /\ "damage" \in Ops
    /\ Document
    /\ v \in Versions(db)
    /\ db.pubs[v].status = "SUPERSEDED"
    /\ db.pubs[v].intact
    /\ db' = SavePublication(db, v, [db.pubs[v] EXCEPT !.intact = FALSE])
    /\ UNCHANGED <<source, worker, files, removals, cand>>

-----------------------------------------------------------------------------
WorkerStep(w) ==
    \/ \E j \in DOMAIN db.jobs : ClaimJob(w, j)
    \/ PrepareBuild(w)
    \/ BuildArtifact(w)
    \/ Checkpoint(w)
    \/ FinalizeInactive(w)
    \/ FinalizeRevisionChanged(w)
    \/ FinalizeDuplicate(w)
    \/ FinalizePublish(w)
    \/ FailPublicationJob(w)
    \/ QueueFollowUp(w)
    \/ \E j \in DOMAIN db.jobs : RecoverStaleJob(w, j)

AdminStep ==
    \/ RequestRebuild
    \/ StagePublicationUpdate
    \/ \E j \in DOMAIN db.jobs : BuildStagedPublication(j)
    \/ \E v \in Versions(db) : DeleteStagedPublication(v)
    \/ \E j \in DOMAIN db.jobs : CancelPublicationBuild(j)
    \/ \E v \in Versions(db) : RollbackPublication(v)
    \/ DeleteActivePublication
    \/ \E v \in Versions(db) : DeleteSupersededPublication(v)
    \/ BulkRequestRebuild
    \/ PublishNow
    \/ ReconcileFileScope

MaintenanceStep ==
    \/ \E v \in removals : RemoveArtifactFile(v) \/ RemovalLost(v)
    \/ CleanupStaleArtifacts
    \/ DiscoverCandidates
    \/ \E v \in cand : \/ ObsoleteCandidate(v)
                       \/ PurgeCandidateSnapshot(v)
                       \/ SkipCandidate(v)
    \/ \E v \in Versions(db) : DamageGeneration(v)

Next ==
    \/ \E c \in Contents : Edit(c) \/ Drift(c)
    \/ NightlyTimer
    \/ InitializeLibrary
    \/ \E j \in DOMAIN db.jobs : HeartbeatExpires(j)
    \/ AdminStep
    \/ \E w \in Workers : WorkerStep(w) \/ Crash(w)
    \/ MaintenanceStep

Spec == Init /\ [][Next]_vars

(* The lanes keep running: the nightly timer fires, the build service is   *)
(* started again by it or by a wake, a live process finishes its steps and *)
(* runs its callbacks, an abandoned heartbeat ages, and maintenance runs   *)
(* daily.  Edits, administrators, errors and crashes owe nothing.          *)
Fairness ==
    /\ WF_vars(NightlyTimer)
    /\ WF_vars(InitializeLibrary)
    /\ WF_vars(\E j \in DOMAIN db.jobs : HeartbeatExpires(j))
    /\ \A w \in Workers : WF_vars(WorkerStep(w))
    /\ WF_vars(\E v \in removals : RemoveArtifactFile(v))
    /\ WF_vars(CleanupStaleArtifacts)

FairSpec == Spec /\ Fairness

-----------------------------------------------------------------------------
(* Every row, process and set has the shape the code gives it.             *)
TypeOK ==
    /\ source \in Contents
    /\ db \in Database
    /\ worker \in [Workers -> WorkerState]
    /\ files \subseteq Nat
    /\ removals \subseteq Nat
    /\ cand \subseteq Nat

(* current_published_publication is the one PUBLISHED row of the scope,    *)
(* through activations, rollbacks, deletions and retention.                *)
OneAuthoritativeIn(d) ==
    /\ d.current # 0 => d.current \in Versions(d)
    /\ \A v \in Versions(d) : d.pubs[v].status = "PUBLISHED" <=> v = d.current

OneAuthoritativeVersion == OneAuthoritativeIn(db)

(* At most one job of a scope is pending or running (one_active_job).      *)
OneLiveJobIn(d) == \A i, j \in LiveJobs(d) : i = j

OneLiveJob == OneLiveJobIn(db)

(* Jobs and attempts agree: a running job owns a building attempt, a       *)
(* pending one a staged attempt or none, and no staged or building attempt *)
(* is left without its job.                                                *)
JobsOwnAttemptsIn(d) ==
    /\ \A j \in Running(d) : /\ d.jobs[j].pub \in Versions(d)
                              /\ d.pubs[d.jobs[j].pub].status = "BUILDING"
    /\ \A j \in Pending(d) : d.jobs[j].pub # 0 =>
                              /\ d.jobs[j].pub \in Versions(d)
                              /\ d.pubs[d.jobs[j].pub].status = "STAGED"
    /\ \A v \in Versions(d) :
         /\ d.pubs[v].status = "STAGED" => \E j \in Pending(d) : d.jobs[j].pub = v
         /\ d.pubs[v].status = "BUILDING" => \E j \in Running(d) : d.jobs[j].pub = v

JobsOwnAttempts == JobsOwnAttemptsIn(db)

(* What a tablet may be served or an administrator may restore is whole:   *)
(* its artifact holds exactly the source its fingerprint names, and its    *)
(* ciphertext is on disk with no removal on its way.                       *)
SuccessfulIsServable ==
    \A v \in Versions(db) : db.pubs[v].status \in Successful =>
        /\ db.pubs[v].artifact = "READY"
        /\ db.pubs[v].content # None
        /\ db.pubs[v].content = db.pubs[v].fp
        /\ ~Document => v \in files \ removals

(* A file library whose source is what is published has no update staged,  *)
(* an explicit rebuild apart: an edit that was undone, a closeout that is  *)
(* late or a repair leaves no intent to publish the same content again.    *)
CleanLibraryStagesNothing ==
    FileScope /\ ~ScopeIsDirty(db, source) =>
        \A j \in Pending(db) : db.jobs[j].pub # 0 => db.jobs[j].clean

(* However often its worker dies, a job starts at most MaxAttempts builds. *)
RetriesAreBounded ==
    \A j \in DOMAIN db.jobs : db.jobs[j].attempts <= MaxAttempts

(* An attempt is immutable: once it builds, its revision and fingerprint   *)
(* are frozen, a terminal status is final, a successful one only moves     *)
(* between PUBLISHED, SUPERSEDED and OBSOLETE, and no row disappears.      *)
AttemptsAreImmutable ==
    [][ \A v \in Versions(db) :
          LET p == db.pubs[v]
              q == db'.pubs[v]
          IN  /\ v \in Versions(db')
              /\ p.status # "STAGED" => q.rev = p.rev /\ q.fp = p.fp
              /\ p.status # "STAGED" => q.snap \in {p.snap, None}
              /\ q.status \in {"BUILDING"} \cup Successful => q.snap # None
              /\ p.status \in Terminal => q.status = p.status
              /\ p.status \in Successful => q.status \in Successful \cup {"OBSOLETE"}
      ]_vars

(* A build is published only while its frozen source is still current.     *)
PublishedSourceIsCurrent ==
    [][ \A v \in Versions(db) :
          db.pubs[v].status = "BUILDING" /\ db'.pubs[v].status = "PUBLISHED" =>
            db'.pubs[v].fp = db'.fp ]_vars

(* When a running job leaves the active state and the source has advanced  *)
(* past its attempt, a dirty scope has a job or a follow-up on its way.    *)
NewerRevisionNotStranded ==
    [][ \A j \in Running(db) :
          /\ db'.jobs[j].status \notin LiveJob
          /\ db.rev # db.pubs[db.jobs[j].pub].rev
          /\ ScopeIsDirty(db', db'.fp)
          => LiveJobs(db') # {} \/ \E w \in Workers : worker'[w].pc = "followup" ]_vars

(* Without an administrator's decision to leave it so, a scope whose       *)
(* recorded source differs from what is published has a job, or a process  *)
(* about to queue one: "changes while a build is running coalesce into one *)
(* follow-up intent".                                                      *)
DirtyScopeHasIntent ==
    db.exists /\ ScopeIsDirty(db, db.fp) =>
        LiveJobs(db) # {} \/ \E w \in Workers : worker[w].pc = "followup"

(* Only an administrator's deletion cuts into the predecessors the scope   *)
(* can go back to.  In every other step of anyone (a closeout, a recovery, *)
(* a rollback, a retention pass with a list of another day) a predecessor  *)
(* that is withdrawn leaves Retained newer ones that are READY.            *)
RetentionKeepsPredecessors ==
    [][ LET lost == ReadySuperseded(db) \ (ReadySuperseded(db') \cup {db'.current})
        IN  \/ DeleteActivePublication
            \/ \E v \in lost : DeleteSupersededPublication(v)
            \/ \A v \in lost :
                 Cardinality({u \in ReadySuperseded(db') : u > v}) >= Retained ]_vars

(* A running job does not run forever, whatever happens to its worker.     *)
RunningJobsEnd ==
    \A j \in 1..(MaxVersion + 1) :
        (j \in Running(db)) ~> (j \notin Running(db))

(* Once edits stop, what is published is the source.                       *)
SourceEventuallyPublished ==
    <>[](db.exists => db.current # 0 /\ db.pubs[db.current].fp = source)

(* The file of a failed, cancelled or obsolete attempt goes eventually.    *)
TerminalFilesRemoved ==
    \A v \in 1..MaxVersion :
        (v \in files /\ db.pubs[v].status \in Terminal) ~> (v \notin files)

(* What readers may rely on: the register of immutable versions.           *)
Published(d) == {v \in Versions(d) : d.pubs[v].status \in Successful}
EverPublished(d) == {v \in Versions(d) : d.pubs[v].artifact = "READY"}

Register == INSTANCE PublishedRegister WITH
    Values <- Contents,
    current <- db.current,
    available <- [v \in Published(db) |-> db.pubs[v].content],
    highest <- IF EverPublished(db) = {} THEN 0
               ELSE CHOOSE v \in EverPublished(db) : \A u \in EverPublished(db) : u <= v

(* The scope implements the register: every transaction either changes     *)
(* nothing a reader sees or is one of its steps.                           *)
ImplementsRegister == Register!Spec
=============================================================================
