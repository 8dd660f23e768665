------------------------- MODULE PublicationProofs -------------------------
(***************************************************************************)
(* IInv is an inductive invariant of PublicationLifecycle, and the         *)
(* theorems that follow from it for any set of sources and of workers, any *)
(* retention and attempt limits and any bounds: type correctness, one      *)
(* authoritative publication, one live job, and jobs that agree with the   *)
(* attempts they own.                                                      *)
(***************************************************************************)
EXTENDS PublicationSteps

(* The states of a worker at rest are typed.                               *)
LEMMA IdleState ==
    /\ Idle \in WorkerState /\ Idle.pc = "idle"
    /\ [Idle EXCEPT !.pc = "followup"] \in WorkerState
    /\ [Idle EXCEPT !.pc = "followup"].pc = "followup"
BY DEF Idle, WorkerState

(* Every step keeps the database part of the invariant.                    *)
LEMMA DatabaseStep ==
    ASSUME IInv, Next
    PROVE  StepOK
<1>1. ASSUME NEW w \in Workers, WorkerStep(w) PROVE StepOK
  BY <1>1, BuildSteps, CloseoutSteps, FailureSteps DEF WorkerStep
<1> QED
  BY <1>1, SourceSteps, AdminSteps, BuildSteps, MaintenanceSteps DEF Next

(* A worker state whose rows exist after the step.                         *)
HoldsRows(s) ==
    /\ s.pc \notin {"idle", "followup"} => s.job \in DOMAIN db'.jobs
    /\ s.pc \in {"prepared", "built", "checked"} => s.pub \in DOMAIN db'.pubs

(* What a step must establish of the workers.                              *)
WorkersOK == worker' \in [Workers -> WorkerState] /\ WorkersHoldRows'

(* A step that leaves the workers alone: no row they hold is deleted.      *)
LEMMA WorkersStay ==
    ASSUME IInv, StepOK, UNCHANGED worker
    PROVE  WorkersOK
BY DEF IInv, TypeOK, StepOK, Grows, WorkersHoldRows, WorkersOK

(* A step that moves one worker to a state whose rows exist.               *)
LEMMA WorkerMoves ==
    ASSUME IInv, StepOK, NEW w \in Workers, NEW s \in WorkerState, HoldsRows(s),
           worker' = [worker EXCEPT ![w] = s]
    PROVE  WorkersOK
<1>1. worker \in [Workers -> WorkerState] /\ WorkersHoldRows
  BY DEF IInv, TypeOK
<1>2. worker' \in [Workers -> WorkerState]
  BY <1>1
<1>3. DOMAIN db.jobs \subseteq DOMAIN db'.jobs /\ DOMAIN db.pubs \subseteq DOMAIN db'.pubs
  BY DEF StepOK, Grows
<1>4. worker'[w] = s /\ \A x \in Workers : x # w => worker'[x] = worker[x]
  BY <1>1
<1>5. ASSUME NEW x \in Workers
      PROVE  /\ worker'[x].pc \notin {"idle", "followup"} => worker'[x].job \in DOMAIN db'.jobs
             /\ worker'[x].pc \in {"prepared", "built", "checked"} =>
                  worker'[x].pub \in DOMAIN db'.pubs
  <2>1. CASE x = w
    BY <1>4, <2>1 DEF HoldsRows
  <2>2. CASE x # w
    BY <1>1, <1>3, <1>4, <2>2 DEF WorkersHoldRows
  <2> QED
    BY <2>1, <2>2
<1> QED
  BY <1>2, <1>5 DEF WorkersOK, WorkersHoldRows

(* A worker that goes idle, or on to its follow-up, holds no row.          *)
LEMMA WorkerRests ==
    ASSUME IInv, StepOK, NEW w \in Workers, NEW d, GoIdle(w) \/ AfterCloseout(w, d)
    PROVE  WorkersOK
<1>1. HoldsRows(Idle) /\ HoldsRows([Idle EXCEPT !.pc = "followup"])
  BY IdleState DEF HoldsRows
<1>2. CASE GoIdle(w)
  BY <1>1, <1>2, IdleState, WorkerMoves DEF GoIdle
<1>3. CASE AfterCloseout(w, d)
  <2> DEFINE f == [Idle EXCEPT !.pc = "followup"]
  <2>1. f \in WorkerState /\ HoldsRows(f)
    BY <1>1, IdleState
  <2>2. worker' = [worker EXCEPT ![w] = f] \/ worker' = [worker EXCEPT ![w] = Idle]
    BY <1>3 DEF AfterCloseout
  <2> HIDE DEF f
  <2> QED
    BY <1>1, <2>1, <2>2, IdleState, WorkerMoves
<1> QED
  BY <1>2, <1>3

(* A worker that goes on with the rows it holds.                           *)
LEMMA PcUpdate ==
    ASSUME IInv, StepOK, NEW w \in Workers, NEW pc \in {"built", "checked"},
           worker[w].pc \in {"prepared", "built", "checked"},
           worker' = [worker EXCEPT ![w].pc = pc]
    PROVE  WorkersOK
<1> DEFINE old == worker[w]
           s == [old EXCEPT !.pc = pc]
<1>1. /\ old \in WorkerState /\ worker \in [Workers -> WorkerState]
      /\ old.job \in DOMAIN db.jobs /\ old.pub \in DOMAIN db.pubs
  BY WorkerFacts
<1>2. worker' = [worker EXCEPT ![w] = s]
  OBVIOUS
<1> HIDE DEF old
<1>3. s \in WorkerState /\ s.job = old.job /\ s.pub = old.pub
  BY <1>1 DEF WorkerState
<1> HIDE DEF s
<1>4. HoldsRows(s)
  BY <1>1, <1>3 DEF HoldsRows, StepOK, Grows
<1> QED
  BY <1>2, <1>3, <1>4, WorkerMoves

(* Every step of a worker keeps the workers part of the invariant.         *)
LEMMA WorkerSteps ==
    ASSUME IInv, StepOK, NEW w \in Workers, WorkerStep(w)
    PROVE  WorkersOK
<1>1. ASSUME NEW j \in DOMAIN db.jobs, ClaimJob(w, j) PROVE WorkersOK
  <2> DEFINE s == [Idle EXCEPT !.pc = "claimed", !.job = j]
  <2>1. j \in DOMAIN db'.jobs /\ j \in Nat
    BY WorkerFacts, RowFields DEF StepOK, Grows, Database
  <2>2. s \in WorkerState /\ s.job = j /\ s.pc = "claimed"
    BY <2>1 DEF Idle, WorkerState
  <2>3. UNCHANGED worker \/ worker' = [worker EXCEPT ![w] = s]
    BY <1>1 DEF ClaimJob
  <2> HIDE DEF s
  <2>4. HoldsRows(s)
    BY <2>1, <2>2 DEF HoldsRows
  <2> QED
    BY <2>2, <2>3, <2>4, WorkersStay, WorkerMoves
<1>2. ASSUME PrepareBuild(w) PROVE WorkersOK
  <2>1. CASE GoIdle(w)
    BY <2>1, WorkerRests
  <2>2. CASE ~GoIdle(w)
    <3> DEFINE j == worker[w].job
               v == db.jobs[j].pub
               p == db.pubs[v]
               old == worker[w]
               s == [old EXCEPT !.pc = "prepared", !.pub = v, !.fp = p.fp,
                                !.content = p.snap]
    <3>1. worker[w].pc = "claimed" /\ StillRunning(db, j) /\ worker' = [worker EXCEPT ![w] = s]
      BY <1>2, <2>2 DEF PrepareBuild
    <3>2. j \in Running(db) /\ DbInv(db) /\ j \in DOMAIN db.jobs
          /\ source \in Contents /\ old \in WorkerState
      BY <3>1, WorkerFacts DEF StillRunning, Running
    <3>3. db \in Database /\ v \in DOMAIN db.pubs
      BY <3>2, RunningOwns
    <3>4. p \in Publication /\ v \in Nat
      BY <3>2, <3>3, Rows DEF Job
    <3>5. p.fp \in Contents \cup {None} /\ p.snap \in Contents \cup {None}
      BY <3>2, <3>4 DEF Publication
    <3>6. old.job = j
      OBVIOUS
    <3> HIDE DEF p, old, j, v
    <3>7. s \in WorkerState /\ s.job = j /\ s.pub = v
      BY <3>2, <3>4, <3>5, <3>6 DEF WorkerState
    <3> HIDE DEF s
    <3>8. HoldsRows(s)
      BY <3>2, <3>3, <3>7 DEF HoldsRows, StepOK, Grows
    <3> QED
      BY <3>1, <3>7, <3>8, WorkerMoves
  <2> QED
    BY <2>1, <2>2
<1>3. ASSUME BuildArtifact(w) PROVE WorkersOK
  BY <1>3, WorkerRests, PcUpdate DEF BuildArtifact
<1>4. ASSUME Checkpoint(w) PROVE WorkersOK
  BY <1>4, WorkerRests, PcUpdate DEF Checkpoint
<1>5. ASSUME FinalizeInactive(w) PROVE WorkersOK
  BY <1>5, WorkerRests DEF FinalizeInactive
<1>6. ASSUME FinalizeRevisionChanged(w) PROVE WorkersOK
  BY <1>6, WorkerRests DEF FinalizeRevisionChanged
<1>7. ASSUME FinalizeDuplicate(w) PROVE WorkersOK
  BY <1>7, WorkerRests DEF FinalizeDuplicate
<1>8. ASSUME FinalizePublish(w) PROVE WorkersOK
  <2>1. PICK d : AfterCloseout(w, d)
    BY <1>8 DEF FinalizePublish
  <2> QED
    BY <2>1, WorkerRests
<1>9. ASSUME FailPublicationJob(w) PROVE WorkersOK
  <2>1. PICK d : GoIdle(w) \/ AfterCloseout(w, d)
    BY <1>9 DEF FailPublicationJob
  <2> QED
    BY <2>1, WorkerRests
<1>10. ASSUME QueueFollowUp(w) PROVE WorkersOK
  BY <1>10, WorkerRests DEF QueueFollowUp
<1>11. ASSUME NEW j \in DOMAIN db.jobs, RecoverStaleJob(w, j) PROVE WorkersOK
  <2>1. PICK d : UNCHANGED worker \/ AfterCloseout(w, d)
    BY <1>11 DEF RecoverStaleJob
  <2> QED
    BY <2>1, WorkersStay, WorkerRests
<1> QED
  BY <1>1, <1>2, <1>3, <1>4, <1>5, <1>6, <1>7, <1>8, <1>9, <1>10, <1>11 DEF WorkerStep

-----------------------------------------------------------------------------
(* What a step must establish of the artifact files.                       *)
FilesOK == files' \subseteq Nat /\ removals' \subseteq Nat

(* A scheduled removal names a version.                                    *)
LEMMA Scheduled ==
    ASSUME IInv, NEW v \in Nat, ScheduleArtifactRemoval(v)
    PROVE  removals' \subseteq Nat
BY DEF IInv, TypeOK, ScheduleArtifactRemoval

(* Every step keeps the sets of files typed.                               *)
LEMMA FileSteps ==
    ASSUME IInv, Next
    PROVE  FilesOK
<1>0. files \subseteq Nat /\ removals \subseteq Nat /\ cand \subseteq Nat /\ db \in Database
  BY DEF IInv, TypeOK
<1>1. DOMAIN db.pubs \subseteq Nat
  BY <1>0 DEF Database
<1>2. ASSUME UNCHANGED <<files, removals>> PROVE FilesOK
  BY <1>0, <1>2 DEF FilesOK
<1>3. ASSUME (\E c \in Contents : Edit(c) \/ Drift(c)) \/ NightlyTimer \/ InitializeLibrary
             \/ \E j \in DOMAIN db.jobs : HeartbeatExpires(j)
      PROVE  FilesOK
  BY <1>2, <1>3 DEF Edit, Drift, NightlyTimer, InitializeLibrary, HeartbeatExpires
<1>4. ASSUME AdminStep PROVE FilesOK
  <2>1. CASE DeleteActivePublication
    <3>1. db.current \in Nat
      BY <1>0 DEF Database
    <3> QED
      BY <1>0, <2>1, <3>1, Scheduled DEF DeleteActivePublication, FilesOK
  <2>2. ASSUME NEW v \in Versions(db), DeleteSupersededPublication(v) PROVE FilesOK
    BY <1>0, <1>1, <2>2, Scheduled DEF DeleteSupersededPublication, FilesOK, Versions
  <2> QED
    BY <1>2, <1>4, <2>1, <2>2 DEF AdminStep, RequestRebuild, StagePublicationUpdate,
       BuildStagedPublication, DeleteStagedPublication, CancelPublicationBuild,
       RollbackPublication, BulkRequestRebuild, PublishNow, ReconcileFileScope
<1>5. ASSUME NEW w \in Workers, WorkerStep(w) \/ Crash(w) PROVE FilesOK
  <2>0. worker[w].pub \in Nat
    BY WorkerFacts
  <2>1. CASE BuildArtifact(w) \/ Checkpoint(w) \/ FailPublicationJob(w)
    BY <1>0, <2>0, <2>1 DEF BuildArtifact, Checkpoint, FailPublicationJob, FilesAfterError, FilesOK
  <2>2. CASE FinalizeInactive(w) \/ FinalizeRevisionChanged(w) \/ FinalizeDuplicate(w)
    BY <1>0, <2>0, <2>2, Scheduled
    DEF FinalizeInactive, FinalizeRevisionChanged, FinalizeDuplicate, FilesOK
  <2> QED
    BY <1>2, <1>5, <2>1, <2>2
    DEF WorkerStep, ClaimJob, PrepareBuild, FinalizePublish, QueueFollowUp, RecoverStaleJob, Crash
<1>6. ASSUME MaintenanceStep PROVE FilesOK
  <2>1. ASSUME NEW v \in removals, RemoveArtifactFile(v) \/ RemovalLost(v) PROVE FilesOK
    BY <1>0, <2>1 DEF RemoveArtifactFile, RemovalLost, FilesOK
  <2>2. CASE CleanupStaleArtifacts
    BY <1>0, <2>2 DEF CleanupStaleArtifacts, FilesOK
  <2>3. ASSUME NEW v \in cand, ObsoleteCandidate(v) PROVE FilesOK
    BY <1>0, <2>3, Scheduled DEF ObsoleteCandidate, FilesOK
  <2> QED
    BY <1>2, <1>6, <2>1, <2>2, <2>3
    DEF MaintenanceStep, DiscoverCandidates, PurgeCandidateSnapshot, SkipCandidate, DamageGeneration
<1> QED
  BY <1>3, <1>4, <1>5, <1>6 DEF Next

(* Retention candidates are versions of the scope.                         *)
LEMMA CandidateSteps ==
    ASSUME IInv, Next
    PROVE  cand' \subseteq DOMAIN db.pubs
<1>0. cand \subseteq DOMAIN db.pubs
  BY DEF IInv
<1>1. ASSUME AdminStep PROVE UNCHANGED cand
  BY <1>1 DEF AdminStep, RequestRebuild, StagePublicationUpdate,
     BuildStagedPublication, DeleteStagedPublication, CancelPublicationBuild,
     RollbackPublication, DeleteActivePublication, DeleteSupersededPublication,
     BulkRequestRebuild, PublishNow, ReconcileFileScope
<1>2. ASSUME NEW w \in Workers, WorkerStep(w) \/ Crash(w) PROVE UNCHANGED cand
  BY <1>2 DEF WorkerStep, ClaimJob, PrepareBuild, BuildArtifact, Checkpoint,
     FinalizeInactive, FinalizeRevisionChanged, FinalizeDuplicate, FinalizePublish,
     FailPublicationJob, QueueFollowUp, RecoverStaleJob, Crash
<1>3. ASSUME MaintenanceStep PROVE cand' \subseteq DOMAIN db.pubs
  BY <1>0, <1>3 DEF MaintenanceStep, RemoveArtifactFile, RemovalLost, CleanupStaleArtifacts,
     DiscoverCandidates, ObsoleteCandidate, PurgeCandidateSnapshot, SkipCandidate,
     DamageGeneration, Versions
<1> QED
  BY <1>0, <1>1, <1>2, <1>3
  DEF Next, Edit, Drift, NightlyTimer, InitializeLibrary, HeartbeatExpires

(* Every step keeps the source and the workers in the invariant.           *)
LEMMA OtherVariables ==
    ASSUME IInv, Next, StepOK
    PROVE  source' \in Contents /\ WorkersOK
<1>1. source' \in Contents
  <2>1. ASSUME AdminStep PROVE UNCHANGED source
    BY <2>1 DEF AdminStep, RequestRebuild, StagePublicationUpdate,
       BuildStagedPublication, DeleteStagedPublication, CancelPublicationBuild,
       RollbackPublication, DeleteActivePublication, DeleteSupersededPublication,
       BulkRequestRebuild, PublishNow, ReconcileFileScope, Write
  <2>2. ASSUME NEW w \in Workers, WorkerStep(w) \/ Crash(w) PROVE UNCHANGED source
    BY <2>2 DEF WorkerStep, ClaimJob, PrepareBuild, BuildArtifact, Checkpoint,
       FinalizeInactive, FinalizeRevisionChanged, FinalizeDuplicate, FinalizePublish,
       FailPublicationJob, QueueFollowUp, RecoverStaleJob, Crash
  <2>3. ASSUME MaintenanceStep PROVE UNCHANGED source
    BY <2>3 DEF MaintenanceStep, RemoveArtifactFile, RemovalLost, CleanupStaleArtifacts,
       DiscoverCandidates, ObsoleteCandidate, PurgeCandidateSnapshot, SkipCandidate,
       DamageGeneration
  <2> QED
    BY <2>1, <2>2, <2>3
    DEF Next, Edit, Drift, NightlyTimer, InitializeLibrary, HeartbeatExpires, IInv, TypeOK
<1>2. WorkersOK
  <2>1. ASSUME AdminStep PROVE UNCHANGED worker
    BY <2>1 DEF AdminStep, RequestRebuild, StagePublicationUpdate,
       BuildStagedPublication, DeleteStagedPublication, CancelPublicationBuild,
       RollbackPublication, DeleteActivePublication, DeleteSupersededPublication,
       BulkRequestRebuild, PublishNow, ReconcileFileScope
  <2>2. ASSUME NEW w \in Workers, Crash(w) PROVE WorkersOK
    BY <2>2, WorkerRests DEF Crash
  <2>3. ASSUME MaintenanceStep PROVE UNCHANGED worker
    BY <2>3 DEF MaintenanceStep, RemoveArtifactFile, RemovalLost, CleanupStaleArtifacts,
       DiscoverCandidates, ObsoleteCandidate, PurgeCandidateSnapshot, SkipCandidate,
       DamageGeneration
  <2> QED
    BY <2>1, <2>2, <2>3, WorkersStay, WorkerSteps
    DEF Next, Edit, Drift, NightlyTimer, InitializeLibrary, HeartbeatExpires
<1> QED
  BY <1>1, <1>2

(* A deployment starts in the invariant.                                   *)
LEMMA InitInv ==
    ASSUME Init
    PROVE  IInv
<1>1. /\ db.pubs = <<>> /\ db.jobs = <<>> /\ db.current = 0
      /\ DOMAIN db.pubs = {} /\ DOMAIN db.jobs = {}
  BY DEF Init
<1>2. <<>> \in Seq(Publication) /\ <<>> \in Seq(Job)
  OBVIOUS
<1>3. db \in Database
  BY <1>2 DEF Init, Database
<1>4. OneAuthoritativeIn(db) /\ OneLiveJobIn(db) /\ JobsOwnAttemptsIn(db)
  BY <1>1 DEF OneAuthoritativeIn, OneLiveJobIn, JobsOwnAttemptsIn, Versions, LiveJobs,
              Running, Pending
<1>5. worker \in [Workers -> WorkerState] /\ WorkersHoldRows
  BY IdleState DEF Init, WorkersHoldRows
<1> QED
  BY <1>1, <1>3, <1>4, <1>5 DEF Init, IInv, TypeOK, DbInv

(* The inductive invariant holds of the publication pipeline in every      *)
(* state: Init establishes it and every step keeps it.                     *)
THEOREM Invariance == Spec => []IInv
<1>1. Init => IInv
  BY InitInv
<1>2. IInv /\ [Next]_vars => IInv'
  <2>1. ASSUME IInv, Next PROVE IInv'
    <3>1. StepOK
      BY <2>1, DatabaseStep
    <3>2. source' \in Contents /\ WorkersOK
      BY <2>1, <3>1, OtherVariables
    <3>3. FilesOK /\ cand' \subseteq DOMAIN db.pubs
      BY <2>1, FileSteps, CandidateSteps
    <3>4. cand' \subseteq DOMAIN db'.pubs /\ DbInv(db') /\ db' \in Database
      BY <3>1, <3>3 DEF StepOK, Grows, DbInv
    <3>5. DOMAIN db'.pubs \subseteq Nat
      BY <3>4 DEF Database
    <3> QED
      BY <3>2, <3>3, <3>4, <3>5 DEF IInv, TypeOK, WorkersOK, FilesOK
  <2>2. ASSUME IInv, UNCHANGED vars PROVE IInv'
    BY <2>2 DEF IInv, vars, TypeOK, WorkersHoldRows
  <2> QED
    BY <2>1, <2>2
<1> QED
  BY <1>1, <1>2, PTL DEF Spec

(* Every row, process and set has the shape the code gives it, forever.    *)
THEOREM TypeCorrect == Spec => []TypeOK
<1>1. IInv => TypeOK
  BY DEF IInv
<1> QED
  BY <1>1, Invariance, PTL

(* current_published_publication is the one PUBLISHED row of a scope       *)
(* whatever activations, rollbacks, deletions and retention passes         *)
(* interleave with builds, crashes and recoveries, for any number of       *)
(* workers.                                                                *)
THEOREM OneAuthoritative == Spec => []OneAuthoritativeVersion
<1>1. IInv => OneAuthoritativeVersion
  BY DEF IInv, DbInv, OneAuthoritativeVersion
<1> QED
  BY <1>1, Invariance, PTL

(* No interleaving of enqueues, claims, recoveries and closeouts leaves a  *)
(* scope with two jobs pending or running.                                 *)
THEOREM OneLive == Spec => []OneLiveJob
<1>1. IInv => OneLiveJob
  BY DEF IInv, DbInv, OneLiveJob
<1> QED
  BY <1>1, Invariance, PTL

(* Jobs and attempts agree: a running job owns a building attempt, a       *)
(* pending one a staged attempt or none, and no attempt is left STAGED or  *)
(* BUILDING without the job that will end it.                              *)
THEOREM Ownership == Spec => []JobsOwnAttempts
<1>1. IInv => JobsOwnAttempts
  BY DEF IInv, DbInv, JobsOwnAttempts
<1> QED
  BY <1>1, Invariance, PTL
=============================================================================
