------------------------- MODULE PublicationSteps -------------------------
(***************************************************************************)
(* One lemma per group of actions of PublicationLifecycle: from a state of *)
(* the inductive invariant IInv, what an action commits satisfies DbInv    *)
(* again and removes no row (StepOK). Every proof names the written record *)
(* step by step and cites the lemma of PublicationWriters for the helper   *)
(* the action calls.                                                       *)
(***************************************************************************)
EXTENDS PublicationWriters

(* delete_staged_publication ends every job that owns the staged attempt.  *)
LEMMA DeletedStagedInv ==
    ASSUME NEW d, DbInv(d), NEW v \in DOMAIN d.pubs, d.pubs[v].status = "STAGED"
    PROVE  DbInv(DeleteStaged(d, v)) /\ Grows(d, DeleteStaged(d, v))
<1> DEFINE js == [j \in DOMAIN d.jobs |->
                    IF d.jobs[j].pub = v THEN [d.jobs[j] EXCEPT !.status = "CANCELLED"]
                    ELSE d.jobs[j]]
           p == [d.pubs[v] EXCEPT !.status = "CANCELLED"]
           m == SavePublication(d, v, p)
           e == [m EXCEPT !.jobs = js]
<1> USE DEF Versions, Running, Pending, LiveJobs, LiveJob
<1>0. d \in Database
  BY DEF DbInv
<1>1. DeleteStaged(d, v) = e
  BY DEF DeleteStaged
<1>2. p \in Publication /\ p.status = "CANCELLED"
  <2> DEFINE old == d.pubs[v]
  <2>1. old \in Publication /\ "CANCELLED" \in PubStatus
    BY <1>0, Rows DEF PubStatus, Terminal
  <2> HIDE DEF old
  <2>2. LET q == [old EXCEPT !.status = "CANCELLED"]
        IN q \in Publication /\ q.status = "CANCELLED"
    BY <2>1, PublicationStatusUpdate
  <2> QED
    BY <2>2 DEF old
<1> HIDE DEF p
<1>3. \A j \in DOMAIN d.jobs :
        /\ js[j] \in Job
        /\ js[j].pub = d.jobs[j].pub
        /\ js[j].status = IF d.jobs[j].pub = v THEN "CANCELLED" ELSE d.jobs[j].status
  <2> TAKE j \in DOMAIN d.jobs
  <2>1. d.jobs[j] \in Job
    BY <1>0, Rows
  <2>2. "CANCELLED" \in JobStatus
    BY DEF JobStatus
  <2> QED
    BY <2>1, <2>2, JobStatusUpdate
<1>4. js \in Seq(Job) /\ DOMAIN js = DOMAIN d.jobs
  <2>1. js \in [DOMAIN d.jobs -> Job]
    BY <1>3
  <2> HIDE DEF js
  <2> QED
    BY <2>1, <1>0, DatabaseFields, MappedSeq
<1> HIDE DEF js
<1>5. /\ m \in Database /\ m.jobs = d.jobs /\ m.current = d.current
      /\ DOMAIN m.pubs = DOMAIN d.pubs /\ m.pubs[v] = p
      /\ \A u \in DOMAIN d.pubs : u # v => m.pubs[u] = d.pubs[u]
  BY <1>0, <1>2, SavedPublication
<1> HIDE DEF m
<1>6. e \in Database /\ e.jobs = js /\ e.pubs = m.pubs /\ e.current = m.current
  BY <1>4, <1>5, SetJobs
<1> HIDE DEF e
<1>7. OneAuthoritativeIn(e)
  BY <1>2, <1>5, <1>6 DEF DbInv, OneAuthoritativeIn
<1>8. OneLiveJobIn(e)
  BY <1>3, <1>4, <1>6 DEF DbInv, OneLiveJobIn
<1>9. JobsOwnAttemptsIn(e)
  <2>1. JobsOwnAttemptsIn(d)
    BY DEF DbInv
  <2>2. \A j \in DOMAIN e.jobs : e.jobs[j].status \in LiveJob =>
          /\ e.jobs[j].pub # v
          /\ e.jobs[j].pub = d.jobs[j].pub /\ e.jobs[j].status = d.jobs[j].status
    BY <1>3, <1>4, <1>6
  <2>3. \A u \in DOMAIN e.pubs : e.pubs[u].status \in {"STAGED", "BUILDING"} =>
          u # v /\ e.pubs[u] = d.pubs[u]
    BY <1>2, <1>5, <1>6
  <2>4. \A u \in DOMAIN d.pubs : u # v => e.pubs[u] = d.pubs[u]
    BY <1>5, <1>6
  <2>5. \A j \in DOMAIN d.jobs : d.jobs[j].pub # v =>
          e.jobs[j].pub = d.jobs[j].pub /\ e.jobs[j].status = d.jobs[j].status
    BY <1>3, <1>4, <1>6
  <2>6. DOMAIN e.jobs = DOMAIN d.jobs /\ DOMAIN e.pubs = DOMAIN d.pubs
    BY <1>4, <1>5, <1>6
  <2>7. \A j \in Running(e) : /\ e.jobs[j].pub \in Versions(e)
                              /\ e.pubs[e.jobs[j].pub].status = "BUILDING"
    BY <2>1, <2>2, <2>4, <2>6 DEF JobsOwnAttemptsIn
  <2>8. \A j \in Pending(e) : e.jobs[j].pub # 0 =>
                              /\ e.jobs[j].pub \in Versions(e)
                              /\ e.pubs[e.jobs[j].pub].status = "STAGED"
    BY <2>1, <2>2, <2>4, <2>6 DEF JobsOwnAttemptsIn
  <2>9. \A u \in Versions(e) : e.pubs[u].status = "STAGED" =>
                                 \E j \in Pending(e) : e.jobs[j].pub = u
    BY <2>1, <2>3, <2>5, <2>6 DEF JobsOwnAttemptsIn
  <2>10. \A u \in Versions(e) : e.pubs[u].status = "BUILDING" =>
                                 \E j \in Running(e) : e.jobs[j].pub = u
    BY <2>1, <2>3, <2>5, <2>6 DEF JobsOwnAttemptsIn
  <2> QED
    BY <2>7, <2>8, <2>9, <2>10 DEF JobsOwnAttemptsIn
<1>10. DbInv(e) /\ Grows(d, e)
  BY <1>4, <1>5, <1>6, <1>7, <1>8, <1>9 DEF DbInv, Grows
<1> QED
  BY <1>1, <1>10

(* Jobs that fall due keep their status and attempt.                       *)
LEMMA NightlyInv ==
    ASSUME NEW d, DbInv(d)
    PROVE  LET e == [d EXCEPT !.jobs = [j \in DOMAIN d.jobs |->
                       IF d.jobs[j].status = "PENDING" THEN [d.jobs[j] EXCEPT !.due = TRUE]
                       ELSE d.jobs[j]]]
           IN  DbInv(e) /\ Grows(d, e)
<1> DEFINE js == [j \in DOMAIN d.jobs |->
                    IF d.jobs[j].status = "PENDING" THEN [d.jobs[j] EXCEPT !.due = TRUE]
                    ELSE d.jobs[j]]
           e == [d EXCEPT !.jobs = js]
<1>0. d \in Database
  BY DEF DbInv
<1>1. \A j \in DOMAIN d.jobs :
        js[j] \in Job /\ js[j].pub = d.jobs[j].pub /\ js[j].status = d.jobs[j].status
  <2> TAKE j \in DOMAIN d.jobs
  <2>1. d.jobs[j] \in Job
    BY <1>0, Rows
  <2> QED
    BY <2>1, JobDueUpdate
<1>2. js \in Seq(Job) /\ DOMAIN js = DOMAIN d.jobs
  <2>1. js \in [DOMAIN d.jobs -> Job]
    BY <1>1
  <2> HIDE DEF js
  <2> QED
    BY <2>1, <1>0, DatabaseFields, MappedSeq
<1> HIDE DEF js
<1>3. e \in Database /\ e.jobs = js /\ e.pubs = d.pubs /\ e.current = d.current
  BY <1>0, <1>2, SetJobs
<1> HIDE DEF e
<1>4. DbInv(e) /\ Grows(d, e)
  BY <1>1, <1>2, <1>3, SameShape
<1> QED
  BY <1>4 DEF e, js

-----------------------------------------------------------------------------
(* A worker past its claim holds a job row, and past its first checkpoint  *)
(* a publication row, that exist.                                          *)
WorkersHoldRows ==
    \A w \in Workers :
        /\ worker[w].pc \notin {"idle", "followup"} => worker[w].job \in DOMAIN db.jobs
        /\ worker[w].pc \in {"prepared", "built", "checked"} => worker[w].pub \in DOMAIN db.pubs

(* The inductive invariant. OneAuthoritativeVersion alone is not           *)
(* inductive: the attempt a closeout publishes must not be the             *)
(* authoritative one already, which holds because its job owns a BUILDING  *)
(* row (JobsOwnAttempts). That in turn needs OneLiveJob (ending one job    *)
(* must leave no other with the same attempt), and the rows a worker read  *)
(* at its claim must be there at its closeout (WorkersHoldRows).           *)
IInv ==
    /\ TypeOK
    /\ DbInv(db)
    /\ WorkersHoldRows
    /\ cand \subseteq DOMAIN db.pubs

(* What a step must establish of the database.                             *)
StepOK == DbInv(db') /\ Grows(db, db')

(* A step that leaves the database alone.                                  *)
LEMMA Stays ==
    ASSUME IInv, UNCHANGED db
    PROVE  StepOK
BY DEF IInv, StepOK, Grows

(* A step that commits a database that satisfies the invariant.            *)
LEMMA Written ==
    ASSUME NEW d, Write(d), DbInv(d), Grows(db, d)
    PROVE  StepOK
BY DEF Write, StepOK

(* The constants the actions pass to the writers are typed.                *)
LEMMA TriggerNames ==
    /\ "DATA_CHANGE" \in Triggers /\ "USER_REQUEST" \in Triggers /\ "BULK_REQUEST" \in Triggers
    /\ TRUE \in BOOLEAN /\ FALSE \in BOOLEAN /\ 0 \in Nat /\ None \in Contents \cup {None}
BY DEF Triggers

(* Edits, drift of time-dependent sources, the timer and ageing            *)
(* heartbeats.                                                             *)
LEMMA SourceSteps ==
    ASSUME IInv
    PROVE  /\ \A c \in Contents : Edit(c) => StepOK
           /\ \A c \in Contents : Drift(c) => StepOK
           /\ NightlyTimer => StepOK
           /\ \A j \in DOMAIN db.jobs : HeartbeatExpires(j) => StepOK
<1>0. DbInv(db) /\ db \in Database
  BY DEF IInv, DbInv
<1>1. ASSUME NEW c \in Contents, Edit(c) PROVE StepOK
  <2>1. Write(MarkDirty(db, c))
    BY <1>1 DEF Edit
  <2>2. DbInv(MarkDirty(db, c)) /\ Grows(db, MarkDirty(db, c))
    BY <1>0, MarkDirtyInv
  <2> QED
    BY <2>1, <2>2, Written
<1>2. ASSUME NEW c \in Contents, Drift(c) PROVE StepOK
  BY <1>2, Stays DEF Drift
<1>3. ASSUME NightlyTimer PROVE StepOK
  <2> DEFINE e == [db EXCEPT !.jobs = [j \in DOMAIN db.jobs |->
                     IF db.jobs[j].status = "PENDING" THEN [db.jobs[j] EXCEPT !.due = TRUE]
                     ELSE db.jobs[j]]]
  <2>1. db' = e
    BY <1>3 DEF NightlyTimer
  <2>2. DbInv(e) /\ Grows(db, e)
    BY <1>0, NightlyInv
  <2> HIDE DEF e
  <2> QED
    BY <2>1, <2>2 DEF StepOK
<1>4. ASSUME NEW j \in DOMAIN db.jobs, HeartbeatExpires(j) PROVE StepOK
  <2> DEFINE old == db.jobs[j]
             r == [old EXCEPT !.stale = TRUE]
  <2>1. db' = SaveJob(db, j, r)
    BY <1>4 DEF HeartbeatExpires
  <2>2. old \in Job
    BY <1>0, Rows
  <2> HIDE DEF old
  <2>3. r \in Job /\ r.status = old.status /\ r.pub = old.pub
    BY <2>2, JobStaleUpdate
  <2> HIDE DEF r
  <2>4. DbInv(SaveJob(db, j, r)) /\ Grows(db, SaveJob(db, j, r))
    BY <1>0, <2>3, SameJobShapeInv DEF old
  <2> QED
    BY <2>1, <2>4 DEF StepOK
<1> QED
  BY <1>1, <1>2, <1>3, <1>4

(* The commands of administrators and the file library.                    *)
LEMMA AdminSteps ==
    ASSUME IInv, AdminStep \/ InitializeLibrary
    PROVE  StepOK
<1>0. DbInv(db) /\ db \in Database /\ source \in Contents
  BY DEF IInv, DbInv, TypeOK
<1>e. ASSUME NEW d, DbInv(d), Grows(db, d), NEW t \in Triggers, NEW b \in BOOLEAN,
             Write(EnqueuePublicationJob(d, source, t, b))
      PROVE  StepOK
  <2> DEFINE e == EnqueuePublicationJob(d, source, t, b)
  <2>1. DbInv(e) /\ Grows(d, e)
    BY <1>0, <1>e, EnqueueInv
  <2> HIDE DEF e
  <2>2. Grows(db, e)
    BY <1>e, <2>1, GrowsTransitive
  <2> QED
    BY <1>e, <2>1, <2>2, Written DEF e
<1>r. ASSUME Write(ReconcileCleanSource(db, source)) PROVE StepOK
  BY <1>0, <1>r, ReconcileInv, Written
<1>g. Grows(db, db)
  BY DEF Grows
<1>x. DbInv([db EXCEPT !.exists = TRUE]) /\ Grows(db, [db EXCEPT !.exists = TRUE])
  BY <1>0, TriggerNames, ScopeFieldsInv
<1>1. CASE RequestRebuild
  BY <1>1, <1>x, <1>e, TriggerNames DEF RequestRebuild
<1>2. CASE StagePublicationUpdate
  BY <1>2, <1>0, <1>g, <1>e, <1>r, TriggerNames DEF StagePublicationUpdate
<1>3. ASSUME NEW j \in DOMAIN db.jobs, BuildStagedPublication(j) PROVE StepOK
  <2> DEFINE old == db.jobs[j]
             r == [old EXCEPT !.trigger = "USER_REQUEST", !.due = TRUE]
  <2>1. Write(ReconcileCleanSource(db, source)) \/ Write(SaveJob(db, j, r))
    BY <1>3 DEF BuildStagedPublication
  <2>2. old \in Job
    BY <1>0, Rows
  <2> HIDE DEF old
  <2>3. r \in Job /\ r.status = old.status /\ r.pub = old.pub
    BY <2>2, JobPromoted
  <2> HIDE DEF r
  <2>4. DbInv(SaveJob(db, j, r)) /\ Grows(db, SaveJob(db, j, r))
    BY <1>0, <2>3, SameJobShapeInv DEF old
  <2> QED
    BY <2>1, <2>4, <1>r, Written
<1>4. ASSUME NEW v \in Versions(db), DeleteStagedPublication(v) PROVE StepOK
  <2> DEFINE d == DeleteStaged(db, v)
             e == ReconcileCleanSource(d, source)
  <2>1. Write(e) \/ Write(d)
    BY <1>4 DEF DeleteStagedPublication
  <2>2. DbInv(d) /\ Grows(db, d)
    BY <1>0, <1>4, DeletedStagedInv DEF DeleteStagedPublication, Versions
  <2> HIDE DEF d
  <2>3. DbInv(e) /\ Grows(d, e)
    BY <1>0, <2>2, ReconcileInv
  <2> HIDE DEF e
  <2>4. Grows(db, e)
    BY <2>2, <2>3, GrowsTransitive
  <2> QED
    BY <2>1, <2>2, <2>3, <2>4, Written
<1>5. ASSUME NEW j \in DOMAIN db.jobs, CancelPublicationBuild(j) PROVE StepOK
  <2> DEFINE v == db.jobs[j].pub
             p == Terminate(db.pubs[v], "CANCELLED")
             e == EndJob(SavePublication(db, v, p), j, "CANCELLED")
  <2>1. Write(e) /\ j \in Running(db)
    BY <1>5 DEF CancelPublicationBuild
  <2>2. v \in DOMAIN db.pubs
    BY <1>0, <2>1, RunningOwns
  <2>3. "CANCELLED" \in PubStatus /\ "CANCELLED" \in Terminal
        /\ "CANCELLED" \in JobStatus /\ "CANCELLED" \notin LiveJob
    BY DEF PubStatus, Terminal, JobStatus, LiveJob
  <2>4. p \in Publication /\ p.status = "CANCELLED"
    BY <1>0, <2>2, <2>3, Rows, Terminated
  <2> HIDE DEF p
  <2>5. DbInv(e) /\ Grows(db, e)
    BY <1>0, <2>1, <2>3, <2>4, ClosedInv
  <2> HIDE DEF e
  <2> QED
    BY <2>1, <2>5, Written
<1>6. ASSUME NEW v \in Versions(db), RollbackPublication(v) PROVE StepOK
  BY <1>0, <1>6, RollbackInv, Written DEF RollbackPublication, Restorable, Versions
<1>7. CASE DeleteActivePublication
  <2>1. PICK u \in EligiblePredecessors(db, db.current) :
          Write(Obsolete(ActivatePublication(db, u), db.current))
    BY <1>7 DEF DeleteActivePublication
  <2>2. u \in DOMAIN db.pubs /\ db.pubs[u].status = "SUPERSEDED"
    BY <2>1 DEF EligiblePredecessors, Versions, Restorable
  <2>3. db.current # 0 /\ db.current \in DOMAIN db.pubs
    BY <1>0, <1>7 DEF DeleteActivePublication, DbInv, OneAuthoritativeIn, Versions
  <2> DEFINE a == ActivatePublication(db, u)
             e == Obsolete(a, db.current)
  <2>4. DbInv(a) /\ Grows(db, a) /\ a.pubs[db.current].status = "SUPERSEDED"
    BY <1>0, <2>2, <2>3, RollbackInv
  <2> HIDE DEF a
  <2>5. db.current \in DOMAIN a.pubs
    BY <2>3, <2>4 DEF Grows
  <2>6. DbInv(e) /\ Grows(a, e)
    BY <2>4, <2>5, ObsoleteInv
  <2>7. Write(e)
    BY <2>1 DEF a
  <2> HIDE DEF e
  <2>8. Grows(db, e)
    BY <2>4, <2>6, GrowsTransitive
  <2> QED
    BY <2>6, <2>7, <2>8, Written
<1>8. ASSUME NEW v \in Versions(db), DeleteSupersededPublication(v) PROVE StepOK
  BY <1>0, <1>8, ObsoleteInv, Written DEF DeleteSupersededPublication, Versions
<1>9. CASE BulkRequestRebuild
  BY <1>9, <1>0, <1>g, <1>e, TriggerNames DEF BulkRequestRebuild
<1>10. CASE PublishNow
  BY <1>10, <1>0, <1>g, <1>e, TriggerNames DEF PublishNow
<1>11. CASE InitializeLibrary
  BY <1>11, <1>x, <1>e, TriggerNames DEF InitializeLibrary
<1>12. CASE ReconcileFileScope
  BY <1>12, <1>r DEF ReconcileFileScope
<1> QED
  BY <1>1, <1>2, <1>3, <1>4, <1>5, <1>6, <1>7, <1>8, <1>9, <1>10, <1>11, <1>12 DEF AdminStep

(* fail_publication_job and recover_stale_jobs find the attempt of a       *)
(* running job building, and terminate it.                                 *)
LEMMA FailedAttempt ==
    ASSUME NEW d, DbInv(d), NEW j \in Running(d), NEW a \in {"PENDING", "READY", "FAILED"}
    PROVE  LET v == d.jobs[j].pub
               p == [Terminate(d.pubs[v], "FAILED") EXCEPT !.artifact = a]
           IN  /\ FailAttempt(d, v, a) = SavePublication(d, v, p)
               /\ p \in Publication /\ p.status = "FAILED"
<1> DEFINE v == d.jobs[j].pub
           t == Terminate(d.pubs[v], "FAILED")
           p == [t EXCEPT !.artifact = a]
<1>1. d \in Database /\ v \in DOMAIN d.pubs /\ d.pubs[v].status = "BUILDING"
  BY RunningOwns
<1>2. FailAttempt(d, v, a) = SavePublication(d, v, p)
  BY <1>1 DEF FailAttempt, Versions
<1>3. "FAILED" \in PubStatus
  BY DEF PubStatus, Terminal
<1>4. d.pubs[v] \in Publication
  BY <1>1, Rows
<1> HIDE DEF v
<1>5. t \in Publication /\ t.status = "FAILED"
  BY <1>3, <1>4, Terminated
<1> HIDE DEF t
<1>6. p \in Publication /\ p.status = "FAILED"
  BY <1>5, PublicationArtifactUpdate
<1> QED
  BY <1>2, <1>6 DEF v, t

(* A running job that fails takes its attempt with it.                     *)
LEMMA FailedInv ==
    ASSUME NEW d, DbInv(d), NEW j \in Running(d), NEW a \in {"PENDING", "READY", "FAILED"}
    PROVE  LET e == EndJob(FailAttempt(d, d.jobs[j].pub, a), j, "FAILED")
           IN  DbInv(e) /\ Grows(d, e)
<1> DEFINE v == d.jobs[j].pub
           p == [Terminate(d.pubs[v], "FAILED") EXCEPT !.artifact = a]
<1>1. /\ FailAttempt(d, v, a) = SavePublication(d, v, p)
      /\ p \in Publication /\ p.status = "FAILED"
  BY FailedAttempt
<1>2. "FAILED" \in Terminal /\ "FAILED" \in JobStatus /\ "FAILED" \notin LiveJob
  BY DEF Terminal, JobStatus, LiveJob
<1> HIDE DEF p
<1>3. DbInv(EndJob(SavePublication(d, v, p), j, "FAILED"))
      /\ Grows(d, EndJob(SavePublication(d, v, p), j, "FAILED"))
  BY <1>1, <1>2, ClosedInv
<1> QED
  BY <1>1, <1>3

(* What the invariant says of one worker.                                  *)
LEMMA WorkerFacts ==
    ASSUME IInv, NEW w \in Workers
    PROVE  /\ DbInv(db) /\ db \in Database /\ source \in Contents
           /\ worker \in [Workers -> WorkerState]
           /\ worker[w] \in WorkerState
           /\ worker[w].job \in Nat /\ worker[w].pub \in Nat
           /\ worker[w].fp \in Contents \cup {None}
           /\ worker[w].content \in Contents \cup {None}
           /\ worker[w].pc \notin {"idle", "followup"} => worker[w].job \in DOMAIN db.jobs
           /\ worker[w].pc \in {"prepared", "built", "checked"} => worker[w].pub \in DOMAIN db.pubs
<1>1. /\ DbInv(db) /\ db \in Database /\ source \in Contents
      /\ worker \in [Workers -> WorkerState]
      /\ worker[w].pc \notin {"idle", "followup"} => worker[w].job \in DOMAIN db.jobs
      /\ worker[w].pc \in {"prepared", "built", "checked"} => worker[w].pub \in DOMAIN db.pubs
  BY DEF IInv, TypeOK, DbInv, WorkersHoldRows
<1>2. worker[w] \in WorkerState
  BY <1>1
<1> QED
  BY <1>1, <1>2 DEF WorkerState

(* A worker up to its closeout, its follow-up callback and its crash.      *)
LEMMA BuildSteps ==
    ASSUME IInv, NEW w \in Workers
    PROVE  /\ \A j \in DOMAIN db.jobs : ClaimJob(w, j) => StepOK
           /\ PrepareBuild(w) => StepOK
           /\ BuildArtifact(w) => StepOK
           /\ Checkpoint(w) => StepOK
           /\ FinalizeInactive(w) => StepOK
           /\ QueueFollowUp(w) => StepOK
           /\ Crash(w) => StepOK
<1>0. DbInv(db) /\ db \in Database /\ source \in Contents
  BY WorkerFacts
<1>1. ASSUME NEW j \in DOMAIN db.jobs, ClaimJob(w, j) PROVE StepOK
  <2>1. CASE Write(ReconcileCleanSource(db, source))
    BY <1>0, <2>1, ReconcileInv, Written
  <2>2. CASE Write(FreezeAttempt(db, j, source))
    <3>1. j \in Pending(db)
      BY <1>1 DEF ClaimJob
    <3>2. DbInv(FreezeAttempt(db, j, source)) /\ Grows(db, FreezeAttempt(db, j, source))
      BY <1>0, <3>1, FrozenInv
    <3> QED
      BY <2>2, <3>2, Written
  <2> QED
    BY <1>1, <2>1, <2>2 DEF ClaimJob
<1>2. ASSUME PrepareBuild(w) PROVE StepOK
  BY <1>2, Stays DEF PrepareBuild
<1>3. ASSUME BuildArtifact(w) PROVE StepOK
  <2> DEFINE v == worker[w].pub
             old == db.pubs[v]
             p == [old EXCEPT !.content = old.snap]
  <2>1. UNCHANGED db \/ db' = SavePublication(db, v, p)
    BY <1>3 DEF BuildArtifact
  <2>2. v \in DOMAIN db.pubs
    BY <1>3, WorkerFacts DEF BuildArtifact
  <2>3. old \in Publication /\ old.snap \in Contents \cup {None}
    BY <1>0, <2>2, Rows, RowFields
  <2> HIDE DEF old
  <2>4. p \in Publication /\ p.status = old.status
    BY <2>3, PublicationContentUpdate
  <2> HIDE DEF p
  <2>5. DbInv(SavePublication(db, v, p)) /\ Grows(db, SavePublication(db, v, p))
    BY <1>0, <2>2, <2>4, SameStatusInv DEF old
  <2> QED
    BY <2>1, <2>5, Stays DEF StepOK
<1>4. ASSUME Checkpoint(w) PROVE StepOK
  <2> DEFINE v == worker[w].pub
             old == db.pubs[v]
             p == [old EXCEPT !.content = None]
  <2>1. UNCHANGED db \/ db' = SavePublication(db, v, p)
    BY <1>4 DEF Checkpoint
  <2>2. v \in DOMAIN db.pubs
    BY <1>4, WorkerFacts DEF Checkpoint
  <2>3. old \in Publication /\ None \in Contents \cup {None}
    BY <1>0, <2>2, Rows
  <2> HIDE DEF old
  <2>4. p \in Publication /\ p.status = old.status
    BY <2>3, PublicationContentUpdate
  <2> HIDE DEF p
  <2>5. DbInv(SavePublication(db, v, p)) /\ Grows(db, SavePublication(db, v, p))
    BY <1>0, <2>2, <2>4, SameStatusInv DEF old
  <2> QED
    BY <2>1, <2>5, Stays DEF StepOK
<1>5. ASSUME FinalizeInactive(w) PROVE StepOK
  BY <1>5, Stays DEF FinalizeInactive
<1>6. ASSUME QueueFollowUp(w) PROVE StepOK
  <2> DEFINE e == EnqueuePublicationJob(db, source, "DATA_CHANGE", FALSE)
  <2>1. Write(e)
    BY <1>6 DEF QueueFollowUp
  <2>2. DbInv(e) /\ Grows(db, e)
    BY <1>0, TriggerNames, EnqueueInv
  <2> HIDE DEF e
  <2> QED
    BY <2>1, <2>2, Written
<1>7. ASSUME Crash(w) PROVE StepOK
  BY <1>7, Stays DEF Crash
<1> QED
  BY <1>1, <1>2, <1>3, <1>4, <1>5, <1>6, <1>7

(* The three branches of finalize_publication_job that end a job.          *)
LEMMA CloseoutSteps ==
    ASSUME IInv, NEW w \in Workers
    PROVE  /\ FinalizeRevisionChanged(w) => StepOK
           /\ FinalizeDuplicate(w) => StepOK
           /\ FinalizePublish(w) => StepOK
<1> DEFINE j == worker[w].job
           v == db.jobs[j].pub
           f == BuiltFingerprint(w, v)
<1>0. DbInv(db) /\ db \in Database /\ source \in Contents
  BY WorkerFacts
<1>1. SUFFICES ASSUME worker[w].pc = "checked", StillRunning(db, j),
                      \/ FinalizeRevisionChanged(w)
                      \/ FinalizeDuplicate(w)
                      \/ FinalizePublish(w)
               PROVE  StepOK
  BY DEF FinalizeRevisionChanged, FinalizeDuplicate, FinalizePublish
<1>2. j \in Running(db)
  BY <1>1, WorkerFacts DEF StillRunning, Running
<1>3. v \in DOMAIN db.pubs /\ db.pubs[v].status = "BUILDING" /\ j \in DOMAIN db.jobs
  BY <1>0, <1>2, RunningOwns
<1>4. db.pubs[v] \in Publication /\ db.jobs[j] \in Job
  BY <1>0, <1>3, Rows
<1>5. /\ db.pubs[v].snap \in Contents \cup {None} /\ db.pubs[v].content \in Contents \cup {None}
      /\ db.jobs[j].trigger \in Triggers /\ db.jobs[j].clean \in BOOLEAN
  BY <1>4 DEF Publication, Job
<1>6. f \in Contents \cup {None}
  BY <1>5, WorkerFacts DEF BuiltFingerprint
<1>7. "OBSOLETE" \in Terminal /\ "OBSOLETE" \in JobStatus /\ "OBSOLETE" \notin LiveJob
  BY DEF Terminal, JobStatus, LiveJob
<1>8. Retire(db.pubs[v]) \in Publication /\ Retire(db.pubs[v]).status = "OBSOLETE"
  BY <1>4, Retired
<1>9. CASE FinalizeRevisionChanged(w)
  <2> DEFINE p == Retire(db.pubs[v])
             d == EndJob(SavePublication(db, v, p), j, "OBSOLETE")
             e == EnqueuePublicationJob(d, source, db.jobs[j].trigger, db.jobs[j].clean)
  <2>1. Write(e)
    BY <1>9 DEF FinalizeRevisionChanged
  <2>2. p \in Publication /\ p.status = "OBSOLETE"
    BY <1>8
  <2> HIDE DEF p
  <2>3. DbInv(d) /\ Grows(db, d)
    BY <1>0, <1>2, <1>7, <2>2, ClosedInv
  <2> HIDE DEF d
  <2>4. DbInv(e) /\ Grows(d, e)
    BY <1>0, <1>5, <2>3, EnqueueInv
  <2> HIDE DEF e
  <2>5. Grows(db, e)
    BY <2>3, <2>4, GrowsTransitive
  <2> QED
    BY <2>1, <2>4, <2>5, Written
<1>10. CASE FinalizeDuplicate(w)
  <2> DEFINE q == Retire(db.pubs[v])
             p == [q EXCEPT !.fp = f]
             d == EndJob(SavePublication(db, v, p), j, "OBSOLETE")
             e == [d EXCEPT !.dirty = FALSE]
  <2>1. Write(e)
    BY <1>10 DEF FinalizeDuplicate
  <2>2. q \in Publication /\ q.status = "OBSOLETE"
    BY <1>8
  <2> HIDE DEF q, f
  <2>3. p \in Publication /\ p.status = "OBSOLETE"
    BY <1>6, <2>2, PublicationFingerprintUpdate
  <2> HIDE DEF p
  <2>4. DbInv(d) /\ Grows(db, d)
    BY <1>0, <1>2, <1>7, <2>3, ClosedInv
  <2> HIDE DEF d
  <2>5. DbInv(e) /\ Grows(d, e)
    BY <2>4, DirtyInv, FALSE \in BOOLEAN
  <2> HIDE DEF e
  <2>6. Grows(db, e)
    BY <2>4, <2>5, GrowsTransitive
  <2> QED
    BY <2>1, <2>5, <2>6, Written
<1>11. CASE FinalizePublish(w)
  <2> DEFINE old == db.pubs[v]
             c == IF Document THEN old.content ELSE worker[w].content
             p == [old EXCEPT !.fp = f, !.artifact = "READY", !.content = c]
             d == EndJob(ActivatePublication([SavePublication(db, v, p) EXCEPT !.latest = v], v),
                         j, "SUCCEEDED")
             b == ScopeIsDirty(d, d.fp)
             e == [d EXCEPT !.dirty = b]
  <2>1. Write(e)
    BY <1>11 DEF FinalizePublish
  <2>2. old \in Publication /\ old.status = "BUILDING"
    BY <1>3, <1>4
  <2>3. c \in Contents \cup {None}
    BY <1>5, WorkerFacts
  <2> HIDE DEF old, c, f
  <2>4. p \in Publication /\ p.status = "BUILDING"
    BY <1>6, <2>2, <2>3 DEF Publication
  <2> HIDE DEF p
  <2>5. DbInv(d) /\ Grows(db, d)
    BY <1>0, <1>2, <2>4, PublishedInv
  <2> HIDE DEF d
  <2>6. b \in BOOLEAN
    BY DEF ScopeIsDirty
  <2> HIDE DEF b
  <2>7. DbInv(e) /\ Grows(d, e)
    BY <2>5, <2>6, DirtyInv
  <2> HIDE DEF e
  <2>8. Grows(db, e)
    BY <2>5, <2>7, GrowsTransitive
  <2> QED
    BY <2>1, <2>7, <2>8, Written
<1> QED
  BY <1>1, <1>9, <1>10, <1>11

(* fail_publication_job and recover_stale_jobs.                            *)
LEMMA FailureSteps ==
    ASSUME IInv, NEW w \in Workers
    PROVE  /\ FailPublicationJob(w) => StepOK
           /\ \A j \in DOMAIN db.jobs : RecoverStaleJob(w, j) => StepOK
<1>0. DbInv(db) /\ db \in Database
  BY WorkerFacts
<1>1. ASSUME FailPublicationJob(w) PROVE StepOK
  <2> DEFINE j == worker[w].job
             e == EndJob(FailAttempt(db, db.jobs[j].pub, "FAILED"), j, "FAILED")
  <2>1. CASE db.jobs[j].status = "RUNNING"
    <3>1. j \in Running(db)
      BY <1>1, <2>1, WorkerFacts DEF FailPublicationJob, Running
    <3>2. Write(e)
      BY <1>1, <2>1 DEF FailPublicationJob
    <3>3. DbInv(e) /\ Grows(db, e)
      BY <1>0, <3>1, FailedInv
    <3> HIDE DEF e
    <3> QED
      BY <3>2, <3>3, Written
  <2>2. CASE db.jobs[j].status # "RUNNING"
    BY <1>1, <2>2, Stays DEF FailPublicationJob
  <2> QED
    BY <2>1, <2>2
<1>2. ASSUME NEW j \in DOMAIN db.jobs, RecoverStaleJob(w, j) PROVE StepOK
  <2> DEFINE v == db.jobs[j].pub
             a == db.pubs[v].artifact
             d == FailAttempt(db, v, a)
             old == d.jobs[j]
             r == [old EXCEPT !.status = "PENDING", !.pub = 0, !.stale = FALSE]
             e == EndJob(d, j, "FAILED")
  <2>1. j \in Running(db) /\ (Write(e) \/ Write(SaveJob(d, j, r)))
    BY <1>2 DEF RecoverStaleJob
  <2>2. v \in DOMAIN db.pubs
    BY <1>0, <2>1, RunningOwns
  <2>3. db.pubs[v] \in Publication /\ db.jobs[j] \in Job
    BY <1>0, <2>2, Rows
  <2>4. a \in {"PENDING", "READY", "FAILED"}
    BY <2>3 DEF Publication
  <2>5. DbInv(e) /\ Grows(db, e)
    BY <1>0, <2>1, <2>4, FailedInv
  <2> DEFINE p == [Terminate(db.pubs[v], "FAILED") EXCEPT !.artifact = a]
  <2>6. d = SavePublication(db, v, p) /\ p \in Publication /\ p.status = "FAILED"
    BY <1>0, <2>1, <2>4, FailedAttempt
  <2> HIDE DEF p, d
  <2>7. d.jobs = db.jobs
    BY <1>0, <2>2, <2>6, SavedPublication
  <2>8. old \in Job
    BY <2>3, <2>7
  <2> HIDE DEF old
  <2>9. r \in Job /\ r.status = "PENDING" /\ r.pub = 0
    BY <2>8 DEF Job, JobStatus, LiveJob
  <2> HIDE DEF r
  <2>10. "FAILED" \in Terminal
    BY DEF Terminal
  <2>11. DbInv(SaveJob(SavePublication(db, v, p), j, r))
         /\ Grows(db, SaveJob(SavePublication(db, v, p), j, r))
    BY <1>0, <2>1, <2>6, <2>9, <2>10, RequeuedInv
  <2>12. DbInv(SaveJob(d, j, r)) /\ Grows(db, SaveJob(d, j, r))
    BY <2>6, <2>11
  <2> HIDE DEF e
  <2> QED
    BY <2>1, <2>5, <2>12, Written
<1> QED
  BY <1>1, <1>2

(* Artifact cleanup, retention and storage damage.                         *)
LEMMA MaintenanceSteps ==
    ASSUME IInv, MaintenanceStep
    PROVE  StepOK
<1>0. DbInv(db) /\ db \in Database /\ cand \subseteq DOMAIN db.pubs
  BY DEF IInv, DbInv
<1>1. ASSUME NEW v \in removals, RemoveArtifactFile(v) \/ RemovalLost(v) PROVE StepOK
  BY <1>1, Stays DEF RemoveArtifactFile, RemovalLost
<1>2. ASSUME CleanupStaleArtifacts \/ DiscoverCandidates PROVE StepOK
  BY <1>2, Stays DEF CleanupStaleArtifacts, DiscoverCandidates
<1>3. ASSUME NEW v \in cand, ObsoleteCandidate(v) PROVE StepOK
  BY <1>0, <1>3, ObsoleteInv, Written DEF ObsoleteCandidate
<1>4. ASSUME NEW v \in cand, PurgeCandidateSnapshot(v) PROVE StepOK
  <2> DEFINE old == db.pubs[v]
             t == Terminate(old, old.status)
             p == [t EXCEPT !.snap = None]
  <2>1. Write(SavePublication(db, v, p))
    BY <1>4 DEF PurgeCandidateSnapshot
  <2>2. old \in Publication /\ old.status \in PubStatus
    BY <1>0, Rows, RowFields
  <2> HIDE DEF old
  <2>3. t \in Publication /\ t.status = old.status
    BY <2>2, Terminated
  <2> HIDE DEF t
  <2>4. p \in Publication /\ p.status = old.status
    BY <2>3, PublicationPurged
  <2> HIDE DEF p
  <2>5. DbInv(SavePublication(db, v, p)) /\ Grows(db, SavePublication(db, v, p))
    BY <1>0, <2>4, SameStatusInv DEF old
  <2> QED
    BY <2>1, <2>5, Written
<1>5. ASSUME NEW v \in cand, SkipCandidate(v) PROVE StepOK
  BY <1>5, Stays DEF SkipCandidate
<1>6. ASSUME NEW v \in Versions(db), DamageGeneration(v) PROVE StepOK
  <2> DEFINE old == db.pubs[v]
             p == [old EXCEPT !.intact = FALSE]
  <2>1. db' = SavePublication(db, v, p) /\ v \in DOMAIN db.pubs
    BY <1>6 DEF DamageGeneration, Versions
  <2>2. old \in Publication
    BY <1>0, <2>1, Rows
  <2> HIDE DEF old
  <2>3. p \in Publication /\ p.status = old.status
    BY <2>2 DEF Publication
  <2> HIDE DEF p
  <2>4. DbInv(SavePublication(db, v, p)) /\ Grows(db, SavePublication(db, v, p))
    BY <1>0, <2>1, <2>3, SameStatusInv DEF old
  <2> QED
    BY <2>1, <2>4 DEF StepOK
<1> QED
  BY <1>1, <1>2, <1>3, <1>4, <1>5, <1>6 DEF MaintenanceStep
=============================================================================
