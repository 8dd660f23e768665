------------------------- MODULE PublicationWriters -------------------------
(***************************************************************************)
(* Lemmas about the writers of PublicationLifecycle, the operators that    *)
(* take a database and return the one a transaction commits. Each keeps    *)
(* DbInv, the part of the inductive invariant that speaks of the database  *)
(* alone, and removes no row (Grows). The first half are facts about one   *)
(* row or one field; the second half has one lemma per helper of           *)
(* publications/services.py.                                               *)
(***************************************************************************)
EXTENDS PublicationLifecycle, SequenceTheorems, TLAPS

(* A function over the indices of a sequence, with values in the same set, *)
(* is a sequence of the same length.                                       *)
LEMMA MappedSeq ==
    ASSUME NEW S, NEW s \in Seq(S), NEW t, t \in [DOMAIN s -> S]
    PROVE  t \in Seq(S) /\ DOMAIN t = DOMAIN s /\ Len(t) = Len(s)
<1>1. DOMAIN s = 1..Len(s) /\ Len(s) \in Nat
  OBVIOUS
<1>2. t \in [1..Len(s) -> S]
  BY <1>1
<1>3. t \in Seq(S)
  BY <1>1, <1>2, SeqDef
<1> QED
  BY <1>1, <1>2, <1>3

(* The fields of a typed database are typed.                               *)
LEMMA DatabaseFields ==
    ASSUME NEW d \in Database
    PROVE  /\ d.exists \in BOOLEAN /\ d.rev \in Nat /\ d.fp \in Contents \cup {None}
           /\ d.dirty \in BOOLEAN /\ d.current \in Nat /\ d.latest \in Nat
           /\ d.pubs \in Seq(Publication) /\ d.jobs \in Seq(Job)
BY DEF Database

(* Replacing the publication rows keeps the database typed and the rest of *)
(* it.                                                                     *)
LEMMA SetPubs ==
    ASSUME NEW d \in Database, NEW ps \in Seq(Publication)
    PROVE  LET e == [d EXCEPT !.pubs = ps]
           IN e \in Database /\ e.pubs = ps /\ e.jobs = d.jobs /\ e.current = d.current
              /\ e.rev = d.rev /\ e.fp = d.fp
BY DEF Database

(* Replacing the job rows keeps the database typed and the rest of it.     *)
LEMMA SetJobs ==
    ASSUME NEW d \in Database, NEW js \in Seq(Job)
    PROVE  LET e == [d EXCEPT !.jobs = js]
           IN e \in Database /\ e.jobs = js /\ e.pubs = d.pubs /\ e.current = d.current
              /\ e.rev = d.rev /\ e.fp = d.fp
BY DEF Database

(* Saving one DatasetPublication row (save) changes that row and no other. *)
LEMMA SavedPublication ==
    ASSUME NEW d \in Database, NEW v \in DOMAIN d.pubs, NEW p \in Publication
    PROVE  LET e == SavePublication(d, v, p)
           IN /\ e \in Database /\ e.jobs = d.jobs /\ e.current = d.current
              /\ e.rev = d.rev /\ e.fp = d.fp
              /\ DOMAIN e.pubs = DOMAIN d.pubs /\ Len(e.pubs) = Len(d.pubs)
              /\ e.pubs[v] = p
              /\ \A u \in DOMAIN d.pubs : u # v => e.pubs[u] = d.pubs[u]
<1> DEFINE ps == [d.pubs EXCEPT ![v] = p]
<1>1. d.pubs \in Seq(Publication)
  BY DatabaseFields
<1>2. ps \in [DOMAIN d.pubs -> Publication]
  <2> SUFFICES ASSUME NEW u \in DOMAIN d.pubs PROVE d.pubs[u] \in Publication
    BY <1>1
  <2> QED BY <1>1
<1>3. ps \in Seq(Publication) /\ DOMAIN ps = DOMAIN d.pubs /\ Len(ps) = Len(d.pubs)
  BY <1>1, <1>2, MappedSeq
<1>4. SavePublication(d, v, p) = [d EXCEPT !.pubs = ps]
  BY DEF SavePublication
<1>5. ps[v] = p /\ \A u \in DOMAIN d.pubs : u # v => ps[u] = d.pubs[u]
  BY <1>1
<1> HIDE DEF ps
<1> QED BY <1>3, <1>4, <1>5, SetPubs

(* Saving one PublicationJob row changes that row and no other.            *)
LEMMA SavedJob ==
    ASSUME NEW d \in Database, NEW j \in DOMAIN d.jobs, NEW r \in Job
    PROVE  LET e == SaveJob(d, j, r)
           IN /\ e \in Database /\ e.pubs = d.pubs /\ e.current = d.current
              /\ e.rev = d.rev /\ e.fp = d.fp
              /\ DOMAIN e.jobs = DOMAIN d.jobs
              /\ e.jobs[j] = r
              /\ \A i \in DOMAIN d.jobs : i # j => e.jobs[i] = d.jobs[i]
<1> DEFINE js == [d.jobs EXCEPT ![j] = r]
<1>1. d.jobs \in Seq(Job)
  BY DatabaseFields
<1>2. js \in [DOMAIN d.jobs -> Job]
  BY <1>1
<1>3. js \in Seq(Job) /\ DOMAIN js = DOMAIN d.jobs
  BY <1>1, <1>2, MappedSeq
<1>4. SaveJob(d, j, r) = [d EXCEPT !.jobs = js]
  BY DEF SaveJob
<1>5. js[j] = r /\ \A u \in DOMAIN d.jobs : u # j => js[u] = d.jobs[u]
  BY <1>1
<1> HIDE DEF js
<1> QED BY <1>3, <1>4, <1>5, SetJobs

(* A job whose status alone is saved stays typed and keeps its attempt.    *)
LEMMA JobStatusUpdate ==
    ASSUME NEW r \in Job, NEW s \in JobStatus
    PROVE  LET q == [r EXCEPT !.status = s]
           IN  q \in Job /\ q.status = s /\ q.pub = r.pub
BY DEF Job

(* An expired heartbeat changes neither status nor attempt of the job.     *)
LEMMA JobStaleUpdate ==
    ASSUME NEW r \in Job
    PROVE  LET q == [r EXCEPT !.stale = TRUE]
           IN  q \in Job /\ q.status = r.status /\ q.pub = r.pub
BY DEF Job

(* A job that becomes due keeps its status and its attempt.                *)
LEMMA JobDueUpdate ==
    ASSUME NEW r \in Job
    PROVE  LET q == [r EXCEPT !.due = TRUE]
           IN  q \in Job /\ q.status = r.status /\ q.pub = r.pub
BY DEF Job

(* build_staged_publication: a promoted job keeps its status and attempt.  *)
LEMMA JobPromoted ==
    ASSUME NEW r \in Job
    PROVE  LET q == [r EXCEPT !.trigger = "USER_REQUEST", !.due = TRUE]
           IN  q \in Job /\ q.status = r.status /\ q.pub = r.pub
BY DEF Job, Triggers

(* recover_stale_jobs: a job that is tried again is pending and owns       *)
(* nothing.                                                                *)
LEMMA JobRequeued ==
    ASSUME NEW r \in Job
    PROVE  LET q == [r EXCEPT !.status = "PENDING", !.pub = 0, !.stale = FALSE]
           IN  q \in Job /\ q.status = "PENDING" /\ q.pub = 0
BY DEF Job, JobStatus, LiveJob

(* _claim_job: a claimed job runs and owns the attempt it was given.       *)
LEMMA JobClaimed ==
    ASSUME NEW r \in Job, NEW v \in Nat, NEW n \in Nat
    PROVE  LET q == [r EXCEPT !.status = "RUNNING", !.pub = v, !.attempts = n, !.stale = FALSE]
           IN  q \in Job /\ q.status = "RUNNING" /\ q.pub = v
BY DEF Job, JobStatus, LiveJob

(* A publication whose status is saved stays typed.                        *)
LEMMA PublicationStatusUpdate ==
    ASSUME NEW p \in Publication, NEW s \in PubStatus
    PROVE  LET q == [p EXCEPT !.status = s]
           IN  q \in Publication /\ q.status = s
BY DEF Publication

(* Storing or releasing a document generation keeps the status.            *)
LEMMA PublicationContentUpdate ==
    ASSUME NEW p \in Publication, NEW c \in Contents \cup {None}
    PROVE  LET q == [p EXCEPT !.content = c]
           IN  q \in Publication /\ q.status = p.status
BY DEF Publication

(* Damage to the storage of a generation keeps the status.                 *)
LEMMA PublicationDamaged ==
    ASSUME NEW p \in Publication
    PROVE  LET q == [p EXCEPT !.intact = FALSE]
           IN  q \in Publication /\ q.status = p.status
BY DEF Publication

(* Purging a source snapshot keeps the status.                             *)
LEMMA PublicationPurged ==
    ASSUME NEW p \in Publication
    PROVE  LET q == [p EXCEPT !.snap = None]
           IN  q \in Publication /\ q.status = p.status
BY DEF Publication

(* Saving the fingerprint keeps the status.                                *)
LEMMA PublicationFingerprintUpdate ==
    ASSUME NEW p \in Publication, NEW c \in Contents \cup {None}
    PROVE  LET q == [p EXCEPT !.fp = c]
           IN  q \in Publication /\ q.status = p.status
BY DEF Publication

(* Saving the artifact status keeps the status of the attempt.             *)
LEMMA PublicationArtifactUpdate ==
    ASSUME NEW p \in Publication, NEW a \in {"PENDING", "READY", "FAILED"}
    PROVE  LET q == [p EXCEPT !.artifact = a]
           IN  q \in Publication /\ q.status = p.status
BY DEF Publication

(* A staged attempt that takes over a newer source keeps its status.       *)
LEMMA PublicationRefreshed ==
    ASSUME NEW p \in Publication, NEW n \in Nat, NEW c \in Contents \cup {None}
    PROVE  LET q == [p EXCEPT !.rev = n, !.fp = c, !.snap = c]
           IN  q \in Publication /\ q.status = p.status
BY DEF Publication

(* _claim_job: the frozen attempt is building.                             *)
LEMMA PublicationFrozen ==
    ASSUME NEW p \in Publication, NEW n \in Nat, NEW c \in Contents \cup {None}
    PROVE  LET q == [p EXCEPT !.rev = n, !.fp = c, !.snap = c, !.status = "BUILDING"]
           IN  q \in Publication /\ q.status = "BUILDING"
BY DEF Publication, PubStatus

(* finalize_publication_job: recording what was built keeps the status.    *)
LEMMA PublicationBuilt ==
    ASSUME NEW p \in Publication, NEW f \in Contents \cup {None}, NEW c \in Contents \cup {None}
    PROVE  LET q == [p EXCEPT !.fp = f, !.artifact = "READY", !.content = c]
           IN  q \in Publication /\ q.status = p.status
BY DEF Publication

(* release_terminal_document_artifact_references: a terminated attempt is  *)
(* typed and has the status it was given.                                  *)
LEMMA Terminated ==
    ASSUME NEW p \in Publication, NEW s \in PubStatus
    PROVE  Terminate(p, s) \in Publication /\ Terminate(p, s).status = s
BY DEF Publication, Terminate

(* A retired attempt, purged of its snapshot, is obsolete.                 *)
LEMMA Retired ==
    ASSUME NEW p \in Publication
    PROVE  Retire(p) \in Publication /\ Retire(p).status = "OBSOLETE"
<1>1. "OBSOLETE" \in PubStatus
  BY DEF PubStatus, Terminal
<1> QED
  BY <1>1, Terminated, PublicationPurged DEF Retire

-----------------------------------------------------------------------------
(* The part of the inductive invariant that every transaction must keep.   *)
DbInv(d) ==
    /\ d \in Database
    /\ OneAuthoritativeIn(d)
    /\ OneLiveJobIn(d)
    /\ JobsOwnAttemptsIn(d)

(* No row is deleted: version numbers are MAX + 1 over the rows of the     *)
(* scope.                                                                  *)
Grows(d, e) == DOMAIN d.pubs \subseteq DOMAIN e.pubs /\ DOMAIN d.jobs \subseteq DOMAIN e.jobs

(* Rows of a typed database are typed.                                     *)
LEMMA Rows ==
    ASSUME NEW d \in Database
    PROVE  /\ \A v \in DOMAIN d.pubs : v \in Nat \ {0} /\ d.pubs[v] \in Publication
           /\ \A j \in DOMAIN d.jobs : j \in Nat \ {0} /\ d.jobs[j] \in Job
           /\ Len(d.pubs) \in Nat /\ DOMAIN d.pubs = 1..Len(d.pubs)
BY DatabaseFields

(* The fields of typed rows are typed.                                     *)
LEMMA RowFields ==
    ASSUME NEW d \in Database
    PROVE  /\ \A v \in DOMAIN d.pubs :
                /\ d.pubs[v].status \in PubStatus
                /\ d.pubs[v].rev \in Nat
                /\ d.pubs[v].fp \in Contents \cup {None}
                /\ d.pubs[v].snap \in Contents \cup {None}
                /\ d.pubs[v].content \in Contents \cup {None}
                /\ d.pubs[v].artifact \in {"PENDING", "READY", "FAILED"}
           /\ \A j \in DOMAIN d.jobs :
                /\ d.jobs[j].status \in JobStatus
                /\ d.jobs[j].pub \in Nat
                /\ d.jobs[j].trigger \in Triggers
                /\ d.jobs[j].clean \in BOOLEAN
                /\ d.jobs[j].due \in BOOLEAN
                /\ d.jobs[j].attempts \in Nat
BY Rows DEF Publication, Job

(* A database with the same statuses, owners and authoritative version     *)
(* satisfies the invariant when the other does.                            *)
LEMMA SameShape ==
    ASSUME NEW d, NEW e, DbInv(d), e \in Database,
           DOMAIN e.pubs = DOMAIN d.pubs, DOMAIN e.jobs = DOMAIN d.jobs,
           e.current = d.current,
           \A v \in DOMAIN d.pubs : e.pubs[v].status = d.pubs[v].status,
           \A j \in DOMAIN d.jobs : e.jobs[j].status = d.jobs[j].status
                                    /\ e.jobs[j].pub = d.jobs[j].pub
    PROVE  DbInv(e) /\ Grows(d, e)
<1> USE DEF Versions, LiveJobs, Running, Pending
<1>1. OneAuthoritativeIn(e)
  BY DEF DbInv, OneAuthoritativeIn
<1>2. OneLiveJobIn(e)
  BY DEF DbInv, OneLiveJobIn
<1>3. JobsOwnAttemptsIn(e)
  BY DEF DbInv, JobsOwnAttemptsIn
<1> QED
  BY <1>1, <1>2, <1>3 DEF DbInv, Grows

(* Saving fields of the scope row that name no publication keeps the       *)
(* invariant.                                                              *)
LEMMA ScopeFieldsInv ==
    ASSUME NEW d, DbInv(d), NEW c \in Contents \cup {None}, NEW n \in Nat
    PROVE  /\ LET e == [d EXCEPT !.fp = c]
              IN DbInv(e) /\ Grows(d, e) /\ e.jobs = d.jobs /\ e.pubs = d.pubs
           /\ LET e == [d EXCEPT !.dirty = TRUE] IN DbInv(e) /\ Grows(d, e)
           /\ LET e == [d EXCEPT !.dirty = FALSE] IN DbInv(e) /\ Grows(d, e)
           /\ LET e == [d EXCEPT !.exists = TRUE]
              IN DbInv(e) /\ Grows(d, e) /\ e.jobs = d.jobs /\ e.pubs = d.pubs
           /\ LET e == [d EXCEPT !.latest = n] IN DbInv(e) /\ Grows(d, e)
           /\ LET e == [d EXCEPT !.fp = c, !.dirty = FALSE] IN DbInv(e) /\ Grows(d, e)
           /\ LET e == [d EXCEPT !.exists = TRUE, !.rev = n, !.fp = c]
              IN DbInv(e) /\ Grows(d, e)
<1>0. d \in Database
  BY DEF DbInv
<1> DEFINE Same(e) == e \in Database /\ e.pubs = d.pubs /\ e.jobs = d.jobs
                      /\ e.current = d.current
<1>1. Same([d EXCEPT !.fp = c])
  BY <1>0 DEF Database
<1>2. Same([d EXCEPT !.dirty = TRUE]) /\ Same([d EXCEPT !.dirty = FALSE])
  BY <1>0 DEF Database
<1>3. Same([d EXCEPT !.exists = TRUE])
  BY <1>0 DEF Database
<1>4. Same([d EXCEPT !.latest = n])
  BY <1>0 DEF Database
<1>5. Same([d EXCEPT !.fp = c, !.dirty = FALSE])
  BY <1>0 DEF Database
<1>6. Same([d EXCEPT !.exists = TRUE, !.rev = n, !.fp = c])
  BY <1>0 DEF Database
<1>7. ASSUME NEW e, Same(e) PROVE DbInv(e) /\ Grows(d, e)
  BY <1>7, SameShape
<1>8. ASSUME NEW e, Same(e) PROVE e.jobs = d.jobs /\ e.pubs = d.pubs
  BY <1>8
<1> HIDE DEF Same
<1> QED
  BY <1>1, <1>2, <1>3, <1>4, <1>5, <1>6, <1>7, <1>8

(* _cancel_redundant_pending ends the pending job together with its staged *)
(* attempt.                                                                *)
LEMMA CancelRedundantInv ==
    ASSUME NEW d, DbInv(d)
    PROVE  DbInv(CancelRedundantPending(d)) /\ Grows(d, CancelRedundantPending(d))
<1> DEFINE js == [j \in DOMAIN d.jobs |->
                    IF d.jobs[j].status = "PENDING" /\ ~d.jobs[j].clean
                    THEN [d.jobs[j] EXCEPT !.status = "CANCELLED"] ELSE d.jobs[j]]
           Owned(v) == \E j \in DOMAIN js : js[j].pub = v /\ js[j].status \in LiveJob
           ps == [v \in DOMAIN d.pubs |->
                    IF d.pubs[v].status = "STAGED" /\ ~Owned(v)
                    THEN [d.pubs[v] EXCEPT !.status = "CANCELLED"] ELSE d.pubs[v]]
           e == CancelRedundantPending(d)
<1>0. d \in Database
  BY DEF DbInv
<1>1. \A j \in DOMAIN d.jobs :
        /\ js[j] \in Job
        /\ js[j].pub = d.jobs[j].pub
        /\ js[j].status = IF d.jobs[j].status = "PENDING" /\ ~d.jobs[j].clean
                          THEN "CANCELLED" ELSE d.jobs[j].status
  <2> TAKE j \in DOMAIN d.jobs
  <2>1. d.jobs[j] \in Job
    BY <1>0, Rows
  <2>2. "CANCELLED" \in JobStatus
    BY DEF JobStatus
  <2> QED
    BY <2>1, <2>2, JobStatusUpdate
<1>2. js \in Seq(Job) /\ DOMAIN js = DOMAIN d.jobs
  <2>1. js \in [DOMAIN d.jobs -> Job]
    BY <1>1
  <2> HIDE DEF js
  <2> QED
    BY <2>1, <1>0, DatabaseFields, MappedSeq
<1>3. \A v \in DOMAIN d.pubs :
        /\ ps[v] \in Publication
        /\ ps[v].status = IF d.pubs[v].status = "STAGED" /\ ~Owned(v)
                          THEN "CANCELLED" ELSE d.pubs[v].status
  <2> HIDE DEF Owned
  <2> TAKE v \in DOMAIN d.pubs
  <2>1. d.pubs[v] \in Publication
    BY <1>0, Rows
  <2>2. "CANCELLED" \in PubStatus
    BY DEF PubStatus, Terminal
  <2> QED
    BY <2>1, <2>2, PublicationStatusUpdate
<1>4. ps \in Seq(Publication) /\ DOMAIN ps = DOMAIN d.pubs
  <2> HIDE DEF Owned
  <2>1. ps \in [DOMAIN d.pubs -> Publication]
    BY <1>3
  <2> HIDE DEF ps
  <2> QED
    BY <2>1, <1>0, DatabaseFields, MappedSeq
<1>5. e = [d EXCEPT !.jobs = js, !.pubs = ps]
  BY DEF CancelRedundantPending
<1> HIDE DEF js, ps, e
<1>6. e \in Database /\ e.jobs = js /\ e.pubs = ps /\ e.current = d.current
  BY <1>0, <1>2, <1>4, <1>5 DEF Database
<1> USE DEF Versions, LiveJobs, Running, Pending, LiveJob
<1>7. OneAuthoritativeIn(e)
  BY <1>3, <1>4, <1>6 DEF DbInv, OneAuthoritativeIn
<1>8. OneLiveJobIn(e)
  BY <1>1, <1>2, <1>6 DEF DbInv, OneLiveJobIn
<1>9. JobsOwnAttemptsIn(e)
  <2>1. \A j \in Running(e) : /\ e.jobs[j].pub \in Versions(e)
                              /\ e.pubs[e.jobs[j].pub].status = "BUILDING"
    <3> SUFFICES ASSUME NEW j \in DOMAIN js, js[j].status = "RUNNING"
                 PROVE  /\ js[j].pub \in DOMAIN d.pubs
                        /\ ps[js[j].pub].status = "BUILDING"
      BY <1>4, <1>6
    <3>1. d.jobs[j].status = "RUNNING" /\ js[j].pub = d.jobs[j].pub
      BY <1>1, <1>2
    <3>2. d.jobs[j].pub \in DOMAIN d.pubs /\ d.pubs[d.jobs[j].pub].status = "BUILDING"
      BY <3>1, <1>2 DEF DbInv, JobsOwnAttemptsIn
    <3> QED
      BY <3>1, <3>2, <1>3
  <2>2. \A j \in Pending(e) : e.jobs[j].pub # 0 =>
                              /\ e.jobs[j].pub \in Versions(e)
                              /\ e.pubs[e.jobs[j].pub].status = "STAGED"
    <3> SUFFICES ASSUME NEW j \in DOMAIN js, js[j].status = "PENDING", js[j].pub # 0
                 PROVE  /\ js[j].pub \in DOMAIN d.pubs
                        /\ ps[js[j].pub].status = "STAGED"
      BY <1>4, <1>6
    <3>1. d.jobs[j].status = "PENDING" /\ js[j].pub = d.jobs[j].pub
      BY <1>1, <1>2
    <3>2. d.jobs[j].pub \in DOMAIN d.pubs /\ d.pubs[d.jobs[j].pub].status = "STAGED"
      BY <3>1, <1>2 DEF DbInv, JobsOwnAttemptsIn
    <3>3. Owned(js[j].pub)
      OBVIOUS
    <3> HIDE DEF Owned
    <3> QED
      BY <3>1, <3>2, <3>3, <1>3
  <2>3. \A v \in Versions(e) : e.pubs[v].status = "STAGED" =>
                                 \E j \in Pending(e) : e.jobs[j].pub = v
    <3> SUFFICES ASSUME NEW v \in DOMAIN d.pubs, ps[v].status = "STAGED"
                 PROVE  \E j \in DOMAIN js : js[j].status = "PENDING" /\ js[j].pub = v
      BY <1>4, <1>6
    <3>1. d.pubs[v].status = "STAGED" /\ Owned(v)
      BY <1>3
    <3>2. PICK j \in DOMAIN js : js[j].pub = v /\ js[j].status \in LiveJob
      BY <3>1
    <3>3. js[j].status # "RUNNING"
      BY <3>1, <3>2, <1>1, <1>2 DEF DbInv, JobsOwnAttemptsIn
    <3> QED
      BY <3>2, <3>3
  <2>4. \A v \in Versions(e) : e.pubs[v].status = "BUILDING" =>
                                 \E j \in Running(e) : e.jobs[j].pub = v
    <3> SUFFICES ASSUME NEW v \in DOMAIN d.pubs, ps[v].status = "BUILDING"
                 PROVE  \E j \in DOMAIN js : js[j].status = "RUNNING" /\ js[j].pub = v
      BY <1>4, <1>6
    <3>1. d.pubs[v].status = "BUILDING"
      BY <1>3
    <3>2. PICK j \in DOMAIN d.jobs : d.jobs[j].status = "RUNNING" /\ d.jobs[j].pub = v
      BY <3>1 DEF DbInv, JobsOwnAttemptsIn
    <3> QED
      BY <3>2, <1>1, <1>2
  <2> QED
    BY <2>1, <2>2, <2>3, <2>4 DEF JobsOwnAttemptsIn
<1> QED
  BY <1>2, <1>4, <1>6, <1>7, <1>8, <1>9 DEF DbInv, Grows, e

(* Rows survive a sequence of writers.                                     *)
LEMMA GrowsTransitive ==
    ASSUME NEW d, NEW e, NEW f, Grows(d, e), Grows(e, f)
    PROVE  Grows(d, f)
BY DEF Grows

(* _reconcile_clean_source keeps the invariant.                            *)
LEMMA ReconcileInv ==
    ASSUME NEW d, DbInv(d), NEW c \in Contents
    PROVE  DbInv(ReconcileCleanSource(d, c)) /\ Grows(d, ReconcileCleanSource(d, c))
<1> DEFINE e == [d EXCEPT !.fp = c, !.dirty = FALSE]
<1>1. DbInv(e) /\ Grows(d, e)
  BY ScopeFieldsInv, 0 \in Nat
<1>2. DbInv(CancelRedundantPending(e)) /\ Grows(e, CancelRedundantPending(e))
  BY <1>1, CancelRedundantInv
<1>3. Grows(d, d)
  BY DEF Grows
<1> QED
  BY <1>1, <1>2, <1>3, GrowsTransitive DEF ReconcileCleanSource

(* _allocate_staged_publication appends one STAGED row and touches no      *)
(* other.                                                                  *)
LEMMA Allocated ==
    ASSUME NEW d \in Database, NEW c \in Contents
    PROVE  LET a == AllocateStaged(d, c)
           IN  /\ a \in Database /\ a.jobs = d.jobs /\ a.current = d.current
               /\ a.rev = d.rev
               /\ Len(a.pubs) \in Nat \ {0}
               /\ Len(a.pubs) \notin DOMAIN d.pubs
               /\ DOMAIN a.pubs = DOMAIN d.pubs \cup {Len(a.pubs)}
               /\ \A v \in DOMAIN d.pubs : a.pubs[v] = d.pubs[v]
               /\ a.pubs[Len(a.pubs)].status = "STAGED"
<1> DEFINE p == [status |-> "STAGED", rev |-> d.rev, fp |-> c, snap |-> c,
                 artifact |-> "PENDING", content |-> None, intact |-> TRUE]
           ps == Append(d.pubs, p)
<1>1. p \in Publication /\ p.status = "STAGED"
  BY DatabaseFields DEF Publication, PubStatus
<1>2. AllocateStaged(d, c) = [d EXCEPT !.pubs = ps]
  BY DEF AllocateStaged
<1> HIDE DEF p
<1>3. d.pubs \in Seq(Publication)
  BY DatabaseFields
<1>4. /\ ps \in Seq(Publication)
      /\ Len(ps) = Len(d.pubs) + 1
      /\ DOMAIN ps = DOMAIN d.pubs \cup {Len(ps)}
      /\ Len(ps) \notin DOMAIN d.pubs
      /\ Len(ps) \in Nat \ {0}
      /\ \A v \in DOMAIN d.pubs : ps[v] = d.pubs[v]
      /\ ps[Len(ps)] = p
  BY <1>1, <1>3
<1> HIDE DEF ps
<1> DEFINE a == AllocateStaged(d, c)
<1>5. a \in Database /\ a.pubs = ps /\ a.jobs = d.jobs /\ a.current = d.current
      /\ a.rev = d.rev
  BY <1>2, <1>4, SetPubs
<1> HIDE DEF a
<1> QED
  BY <1>1, <1>4, <1>5 DEF a

(* A new job, with the attempt staged for it, is the only live one.        *)
LEMMA NewJobInv ==
    ASSUME NEW d, DbInv(d), LiveJobs(d) = {}, NEW c \in Contents,
           NEW trigger \in Triggers, NEW clean \in BOOLEAN
    PROVE  DbInv(NewJob(d, c, trigger, clean)) /\ Grows(d, NewJob(d, c, trigger, clean))
<1> DEFINE a == AllocateStaged(d, c)
           n == Len(a.pubs)
           r == [status |-> "PENDING", pub |-> n, trigger |-> trigger,
                 clean |-> clean, due |-> trigger # "DATA_CHANGE", attempts |-> 0,
                 stale |-> FALSE]
           js == Append(a.jobs, r)
           e == NewJob(d, c, trigger, clean)
           k == Len(js)
<1>0. d \in Database
  BY DEF DbInv
<1>1. /\ a \in Database /\ a.jobs = d.jobs /\ a.current = d.current
      /\ n \in Nat \ {0} /\ n \notin DOMAIN d.pubs
      /\ DOMAIN a.pubs = DOMAIN d.pubs \cup {n}
      /\ \A v \in DOMAIN d.pubs : a.pubs[v] = d.pubs[v]
      /\ a.pubs[n].status = "STAGED"
  BY <1>0, Allocated
<1>2. e = [a EXCEPT !.jobs = js]
  BY DEF NewJob
<1> HIDE DEF a, n, e
<1>3. r \in Job /\ r.status = "PENDING" /\ r.pub = n
  <2>1. (trigger # "DATA_CHANGE") \in BOOLEAN
    OBVIOUS
  <2> QED
    BY <1>1, <2>1 DEF Job, JobStatus, LiveJob
<1> HIDE DEF r
<1>4. d.jobs \in Seq(Job)
  BY <1>0, DatabaseFields
<1>5. /\ js \in Seq(Job) /\ k \notin DOMAIN d.jobs /\ DOMAIN js = DOMAIN d.jobs \cup {k}
      /\ js[k] = r /\ \A j \in DOMAIN d.jobs : js[j] = d.jobs[j]
  BY <1>1, <1>3, <1>4
<1> HIDE DEF js, k
<1>6. e \in Database /\ e.jobs = js /\ e.pubs = a.pubs /\ e.current = d.current
  BY <1>1, <1>2, <1>5, SetJobs
<1> USE DEF Versions, LiveJobs, Running, Pending, LiveJob
<1>7. OneAuthoritativeIn(e)
  <2>1. n # d.current
    BY <1>1 DEF DbInv, OneAuthoritativeIn
  <2> QED
    BY <2>1, <1>1, <1>6 DEF DbInv, OneAuthoritativeIn
<1>8. OneLiveJobIn(e)
  BY <1>5, <1>6 DEF OneLiveJobIn
<1>9. JobsOwnAttemptsIn(e)
  <2>1. \A j \in DOMAIN d.jobs : d.jobs[j].status \notin LiveJob
    OBVIOUS
  <2>2. \A v \in DOMAIN d.pubs : d.pubs[v].status \notin {"STAGED", "BUILDING"}
    BY <2>1 DEF DbInv, JobsOwnAttemptsIn
  <2>3. \A v \in DOMAIN e.pubs : e.pubs[v].status \in {"STAGED", "BUILDING"} => v = n
    BY <2>2, <1>1, <1>6
  <2>4. \A j \in DOMAIN e.jobs : e.jobs[j].status \in LiveJob => j = k
    BY <2>1, <1>5, <1>6
  <2>5. /\ k \in DOMAIN e.jobs /\ e.jobs[k].status = "PENDING" /\ e.jobs[k].pub = n
        /\ n \in DOMAIN e.pubs /\ e.pubs[n].status = "STAGED"
    BY <1>1, <1>3, <1>5, <1>6
  <2> QED
    BY <2>3, <2>4, <2>5 DEF JobsOwnAttemptsIn
<1> QED
  BY <1>1, <1>5, <1>6, <1>7, <1>8, <1>9 DEF DbInv, Grows, e

(* Coalescing into a pending job refreshes its staged attempt or stages    *)
(* one.                                                                    *)
LEMMA CoalesceInv ==
    ASSUME NEW d, DbInv(d), NEW j \in Pending(d), NEW c \in Contents,
           NEW trigger \in Triggers, NEW clean \in BOOLEAN
    PROVE  /\ DbInv(CoalesceJob(d, j, c, trigger, clean))
           /\ Grows(d, CoalesceJob(d, j, c, trigger, clean))
<1> DEFINE job == d.jobs[j]
           explicit == trigger # "DATA_CHANGE"
           due == explicit \/ (job.trigger # "DATA_CHANGE" /\ job.due)
           cl == job.clean \/ clean
           tr == IF explicit THEN trigger ELSE job.trigger
           refresh == job.pub # 0 /\ d.pubs[job.pub].status = "STAGED"
           p == [d.pubs[job.pub] EXCEPT !.rev = d.rev, !.fp = c, !.snap = c]
           e == IF refresh THEN SavePublication(d, job.pub, p) ELSE d
           r == [job EXCEPT !.clean = cl, !.due = due, !.trigger = tr]
           f == SaveJob(e, j, r)
<1>0. d \in Database /\ j \in DOMAIN d.jobs /\ job.status = "PENDING"
  BY DEF DbInv, Pending
<1>1. CoalesceJob(d, j, c, trigger, clean) = f
  BY DEF CoalesceJob
<1>2. job \in Job /\ job.trigger \in Triggers /\ job.clean \in BOOLEAN /\ job.due \in BOOLEAN
  BY <1>0, Rows, RowFields
<1>3. due \in BOOLEAN /\ cl \in BOOLEAN /\ tr \in Triggers
  BY <1>2
<1> HIDE DEF due, cl, tr
<1>4. r \in Job /\ r.status = job.status /\ r.pub = job.pub
  <2> HIDE DEF job
  <2>1. job \in Job /\ due \in BOOLEAN /\ cl \in BOOLEAN /\ tr \in Triggers
    BY <1>2, <1>3
  <2>2. r = [job EXCEPT !.clean = cl, !.due = due, !.trigger = tr]
    OBVIOUS
  <2> HIDE DEF r
  <2> QED
    BY <2>1, <2>2 DEF Job
<1> HIDE DEF r
<1>5. /\ e \in Database /\ e.jobs = d.jobs /\ e.current = d.current
      /\ DOMAIN e.pubs = DOMAIN d.pubs
      /\ \A v \in DOMAIN d.pubs : e.pubs[v].status = d.pubs[v].status
  <2>1. CASE refresh
    <3>1. job.pub \in DOMAIN d.pubs
      BY <2>1, <1>0 DEF DbInv, JobsOwnAttemptsIn, Pending, Versions
    <3>2. p \in Publication /\ p.status = d.pubs[job.pub].status
      <4> DEFINE old == d.pubs[job.pub]
                 rev == d.rev
      <4>1. old \in Publication /\ rev \in Nat /\ c \in Contents \cup {None}
        BY <3>1, <1>0, Rows, DatabaseFields
      <4>2. p = [old EXCEPT !.rev = rev, !.fp = c, !.snap = c]
        OBVIOUS
      <4> HIDE DEF old, rev, p
      <4>3. p \in Publication /\ p.status = old.status
        BY <4>1, <4>2, PublicationRefreshed
      <4> QED
        BY <4>3 DEF old
    <3>3. e = SavePublication(d, job.pub, p)
      BY <2>1
    <3> HIDE DEF p, e, job
    <3> QED
      BY <3>1, <3>2, <3>3, <1>0, SavedPublication
  <2>2. CASE ~refresh
    BY <2>2, <1>0
  <2> QED
    BY <2>1, <2>2
<1> HIDE DEF e
<1>6. /\ f \in Database /\ f.pubs = e.pubs /\ f.current = e.current
      /\ DOMAIN f.jobs = DOMAIN d.jobs /\ f.jobs[j] = r
      /\ \A i \in DOMAIN d.jobs : i # j => f.jobs[i] = d.jobs[i]
  BY <1>0, <1>4, <1>5, SavedJob
<1> HIDE DEF f
<1>7. \A i \in DOMAIN d.jobs : f.jobs[i].status = d.jobs[i].status /\ f.jobs[i].pub = d.jobs[i].pub
  BY <1>4, <1>6
<1> QED
  BY <1>1, <1>5, <1>6, <1>7, SameShape

(* enqueue_publication_job keeps the invariant on each of its branches.    *)
LEMMA EnqueueInv ==
    ASSUME NEW d0, DbInv(d0), NEW c \in Contents,
           NEW trigger \in Triggers, NEW clean \in BOOLEAN
    PROVE  /\ DbInv(EnqueuePublicationJob(d0, c, trigger, clean))
           /\ Grows(d0, EnqueuePublicationJob(d0, c, trigger, clean))
<1> DEFINE d == [d0 EXCEPT !.fp = c]
           e == EnqueuePublicationJob(d0, c, trigger, clean)
           j == CHOOSE k \in LiveJobs(d) : TRUE
<1>1. DbInv(d) /\ Grows(d0, d)
  BY ScopeFieldsInv, 0 \in Nat
<1>2. e = IF ~clean /\ ~ScopeIsDirty(d, c) THEN ReconcileCleanSource(d, c)
          ELSE IF LiveJobs(d) = {} THEN NewJob(d, c, trigger, clean)
          ELSE IF d.jobs[j].status = "RUNNING" THEN d
          ELSE CoalesceJob(d, j, c, trigger, clean)
  BY DEF EnqueuePublicationJob
<1> HIDE DEF d, e
<1>3. DbInv(ReconcileCleanSource(d, c)) /\ Grows(d, ReconcileCleanSource(d, c))
  BY <1>1, ReconcileInv
<1>4. LiveJobs(d) = {} => /\ DbInv(NewJob(d, c, trigger, clean))
                          /\ Grows(d, NewJob(d, c, trigger, clean))
  BY <1>1, NewJobInv
<1>5. LiveJobs(d) # {} /\ d.jobs[j].status # "RUNNING" =>
        /\ DbInv(CoalesceJob(d, j, c, trigger, clean))
        /\ Grows(d, CoalesceJob(d, j, c, trigger, clean))
  <2> SUFFICES ASSUME LiveJobs(d) # {}, d.jobs[j].status # "RUNNING"
               PROVE  j \in Pending(d)
    BY <1>1, CoalesceInv
  <2>1. j \in LiveJobs(d)
    OBVIOUS
  <2> HIDE DEF j
  <2> QED
    BY <2>1 DEF LiveJobs, LiveJob, Pending
<1>6. Grows(d, d)
  BY DEF Grows
<1>7. DbInv(e) /\ Grows(d, e)
  <2> HIDE DEF j
  <2> QED
    BY <1>1, <1>2, <1>3, <1>4, <1>5, <1>6
<1> QED
  BY <1>1, <1>7, GrowsTransitive DEF e

(* mark_dirty keeps the invariant.                                         *)
LEMMA MarkDirtyInv ==
    ASSUME NEW d0, DbInv(d0), NEW c \in Contents
    PROVE  DbInv(MarkDirty(d0, c)) /\ Grows(d0, MarkDirty(d0, c))
<1> DEFINE n == d0.rev + 1
           d == [d0 EXCEPT !.exists = TRUE, !.rev = n, !.fp = c]
           f == [d EXCEPT !.dirty = TRUE]
           e == EnqueuePublicationJob(f, c, "DATA_CHANGE", FALSE)
<1>1. n \in Nat
  BY DatabaseFields DEF DbInv
<1>2. MarkDirty(d0, c) = IF ScopeIsDirty(d, c) THEN e ELSE ReconcileCleanSource(d, c)
  BY DEF MarkDirty
<1> HIDE DEF n
<1>3. DbInv(d) /\ Grows(d0, d)
  BY <1>1, ScopeFieldsInv
<1> HIDE DEF d
<1>4. DbInv(f) /\ Grows(d, f)
  BY <1>1, <1>3, ScopeFieldsInv
<1> HIDE DEF f
<1>5. "DATA_CHANGE" \in Triggers /\ FALSE \in BOOLEAN
  BY DEF Triggers
<1>6. DbInv(e) /\ Grows(f, e)
  BY <1>4, <1>5, EnqueueInv
<1>7. DbInv(ReconcileCleanSource(d, c)) /\ Grows(d, ReconcileCleanSource(d, c))
  BY <1>3, ReconcileInv
<1> HIDE DEF e
<1> QED
  BY <1>2, <1>3, <1>4, <1>6, <1>7, GrowsTransitive

(* Ending a job changes its status and nothing else.                       *)
LEMMA Ended ==
    ASSUME NEW d \in Database, NEW j \in DOMAIN d.jobs, NEW s \in JobStatus
    PROVE  LET e == EndJob(d, j, s)
           IN  /\ e \in Database /\ e.pubs = d.pubs /\ e.current = d.current
               /\ DOMAIN e.jobs = DOMAIN d.jobs
               /\ e.jobs[j].status = s /\ e.jobs[j].pub = d.jobs[j].pub
               /\ \A i \in DOMAIN d.jobs : i # j => e.jobs[i] = d.jobs[i]
<1> DEFINE old == d.jobs[j]
           r == [old EXCEPT !.status = s]
           e == SaveJob(d, j, r)
<1>1. old \in Job
  BY Rows
<1>2. EndJob(d, j, s) = e
  BY DEF EndJob
<1> HIDE DEF old
<1>3. r \in Job /\ r.status = s /\ r.pub = old.pub
  BY <1>1, JobStatusUpdate
<1> HIDE DEF r
<1>4. /\ e \in Database /\ e.pubs = d.pubs /\ e.current = d.current
      /\ DOMAIN e.jobs = DOMAIN d.jobs /\ e.jobs[j] = r
      /\ \A i \in DOMAIN d.jobs : i # j => e.jobs[i] = d.jobs[i]
  BY <1>3, SavedJob
<1> HIDE DEF e
<1> QED
  BY <1>2, <1>3, <1>4 DEF old

(* A running job owns the one live attempt of the scope, which is not the  *)
(* authoritative publication, and is the one live job.                     *)
LEMMA RunningOwns ==
    ASSUME NEW d, DbInv(d), NEW j \in Running(d)
    PROVE  /\ d \in Database /\ j \in DOMAIN d.jobs
           /\ d.jobs[j].pub \in DOMAIN d.pubs
           /\ d.pubs[d.jobs[j].pub].status = "BUILDING"
           /\ d.jobs[j].pub # d.current
           /\ \A i \in DOMAIN d.jobs : i # j => d.jobs[i].status \notin LiveJob
           /\ \A v \in DOMAIN d.pubs : v # d.jobs[j].pub =>
                 d.pubs[v].status \notin {"STAGED", "BUILDING"}
<1> USE DEF Versions, Running, Pending, LiveJobs, LiveJob
<1>1. d \in Database /\ j \in DOMAIN d.jobs /\ d.jobs[j].status = "RUNNING"
  BY DEF DbInv
<1>2. d.jobs[j].pub \in DOMAIN d.pubs /\ d.pubs[d.jobs[j].pub].status = "BUILDING"
  BY <1>1 DEF DbInv, JobsOwnAttemptsIn
<1>3. d.jobs[j].pub # d.current
  BY <1>2 DEF DbInv, OneAuthoritativeIn
<1>4. \A i \in DOMAIN d.jobs : i # j => d.jobs[i].status \notin LiveJob
  BY <1>1 DEF DbInv, OneLiveJobIn
<1>5. ASSUME NEW v \in DOMAIN d.pubs, v # d.jobs[j].pub
      PROVE  d.pubs[v].status \notin {"STAGED", "BUILDING"}
  BY <1>1, <1>4, <1>5 DEF DbInv, JobsOwnAttemptsIn
<1> QED
  BY <1>1, <1>2, <1>3, <1>4, <1>5

(* A running job that ends together with its attempt leaves nothing live.  *)
LEMMA ClosedInv ==
    ASSUME NEW d, DbInv(d), NEW j \in Running(d), NEW p \in Publication,
           p.status \in Terminal, NEW s \in JobStatus, s \notin LiveJob
    PROVE  LET e == EndJob(SavePublication(d, d.jobs[j].pub, p), j, s)
           IN  DbInv(e) /\ Grows(d, e)
<1> DEFINE v == d.jobs[j].pub
           m == SavePublication(d, v, p)
           e == EndJob(m, j, s)
<1>1. /\ d \in Database /\ j \in DOMAIN d.jobs /\ v \in DOMAIN d.pubs /\ v # d.current
      /\ \A i \in DOMAIN d.jobs : i # j => d.jobs[i].status \notin LiveJob
      /\ \A u \in DOMAIN d.pubs : u # v => d.pubs[u].status \notin {"STAGED", "BUILDING"}
  BY RunningOwns
<1> HIDE DEF v
<1>2. /\ m \in Database /\ m.jobs = d.jobs /\ m.current = d.current
      /\ DOMAIN m.pubs = DOMAIN d.pubs /\ m.pubs[v] = p
      /\ \A u \in DOMAIN d.pubs : u # v => m.pubs[u] = d.pubs[u]
  BY <1>1, SavedPublication
<1> HIDE DEF m
<1>3. /\ e \in Database /\ e.pubs = m.pubs /\ e.current = m.current
      /\ DOMAIN e.jobs = DOMAIN m.jobs /\ e.jobs[j].status = s
      /\ \A i \in DOMAIN m.jobs : i # j => e.jobs[i] = m.jobs[i]
  BY <1>1, <1>2, Ended
<1> HIDE DEF e
<1>4. \A i \in DOMAIN e.jobs : e.jobs[i].status \notin LiveJob
  BY <1>1, <1>2, <1>3
<1>5. \A u \in DOMAIN e.pubs : e.pubs[u].status \notin {"STAGED", "BUILDING"}
  BY <1>1, <1>2, <1>3 DEF Terminal
<1>6. OneAuthoritativeIn(e)
  BY <1>1, <1>2, <1>3 DEF DbInv, OneAuthoritativeIn, Terminal, Versions
<1>7. OneLiveJobIn(e)
  BY <1>4 DEF OneLiveJobIn, LiveJobs
<1>8. JobsOwnAttemptsIn(e)
  BY <1>4, <1>5 DEF JobsOwnAttemptsIn, Running, Pending, Versions, LiveJob
<1>9. DbInv(e) /\ Grows(d, e)
  BY <1>2, <1>3, <1>6, <1>7, <1>8 DEF DbInv, Grows
<1> QED
  BY <1>9 DEF e, m, v

(* A running job that goes back to pending, its attempt terminated, is the *)
(* one live job and owns nothing.                                          *)
LEMMA RequeuedInv ==
    ASSUME NEW d, DbInv(d), NEW j \in Running(d), NEW p \in Publication,
           p.status \in Terminal, NEW r \in Job, r.status = "PENDING", r.pub = 0
    PROVE  LET e == SaveJob(SavePublication(d, d.jobs[j].pub, p), j, r)
           IN  DbInv(e) /\ Grows(d, e)
<1> DEFINE v == d.jobs[j].pub
           m == SavePublication(d, v, p)
           e == SaveJob(m, j, r)
<1>1. /\ d \in Database /\ j \in DOMAIN d.jobs /\ v \in DOMAIN d.pubs /\ v # d.current
      /\ \A i \in DOMAIN d.jobs : i # j => d.jobs[i].status \notin LiveJob
      /\ \A u \in DOMAIN d.pubs : u # v => d.pubs[u].status \notin {"STAGED", "BUILDING"}
  BY RunningOwns
<1> HIDE DEF v
<1>2. /\ m \in Database /\ m.jobs = d.jobs /\ m.current = d.current
      /\ DOMAIN m.pubs = DOMAIN d.pubs /\ m.pubs[v] = p
      /\ \A u \in DOMAIN d.pubs : u # v => m.pubs[u] = d.pubs[u]
  BY <1>1, SavedPublication
<1> HIDE DEF m
<1>3. /\ e \in Database /\ e.pubs = m.pubs /\ e.current = m.current
      /\ DOMAIN e.jobs = DOMAIN m.jobs /\ e.jobs[j] = r
      /\ \A i \in DOMAIN m.jobs : i # j => e.jobs[i] = m.jobs[i]
  BY <1>1, <1>2, SavedJob
<1> HIDE DEF e
<1>4. \A i \in DOMAIN e.jobs : e.jobs[i].status \in LiveJob => i = j
  BY <1>1, <1>2, <1>3
<1>5. \A u \in DOMAIN e.pubs : e.pubs[u].status \notin {"STAGED", "BUILDING"}
  BY <1>1, <1>2, <1>3 DEF Terminal
<1>6. OneAuthoritativeIn(e)
  BY <1>1, <1>2, <1>3 DEF DbInv, OneAuthoritativeIn, Terminal, Versions
<1>7. OneLiveJobIn(e)
  BY <1>4 DEF OneLiveJobIn, LiveJobs
<1>8. JobsOwnAttemptsIn(e)
  BY <1>3, <1>4, <1>5 DEF JobsOwnAttemptsIn, Running, Pending, Versions, LiveJob
<1>9. DbInv(e) /\ Grows(d, e)
  BY <1>2, <1>3, <1>6, <1>7, <1>8 DEF DbInv, Grows
<1> QED
  BY <1>9 DEF e, m, v

(* Saving a publication without changing its status keeps the invariant.   *)
LEMMA SameStatusInv ==
    ASSUME NEW d, DbInv(d), NEW v \in DOMAIN d.pubs, NEW p \in Publication,
           p.status = d.pubs[v].status
    PROVE  DbInv(SavePublication(d, v, p)) /\ Grows(d, SavePublication(d, v, p))
<1> DEFINE e == SavePublication(d, v, p)
<1>1. d \in Database
  BY DEF DbInv
<1>2. /\ e \in Database /\ e.jobs = d.jobs /\ e.current = d.current
      /\ DOMAIN e.pubs = DOMAIN d.pubs /\ e.pubs[v] = p
      /\ \A u \in DOMAIN d.pubs : u # v => e.pubs[u] = d.pubs[u]
  BY <1>1, SavedPublication
<1> HIDE DEF e
<1>3. \A u \in DOMAIN d.pubs : e.pubs[u].status = d.pubs[u].status
  BY <1>2
<1> QED
  BY <1>2, <1>3, SameShape DEF e

(* Saving a job without changing its status or attempt keeps the           *)
(* invariant.                                                              *)
LEMMA SameJobShapeInv ==
    ASSUME NEW d, DbInv(d), NEW j \in DOMAIN d.jobs, NEW r \in Job,
           r.status = d.jobs[j].status, r.pub = d.jobs[j].pub
    PROVE  DbInv(SaveJob(d, j, r)) /\ Grows(d, SaveJob(d, j, r))
<1> DEFINE e == SaveJob(d, j, r)
<1>1. d \in Database
  BY DEF DbInv
<1>2. /\ e \in Database /\ e.pubs = d.pubs /\ e.current = d.current
      /\ DOMAIN e.jobs = DOMAIN d.jobs /\ e.jobs[j] = r
      /\ \A i \in DOMAIN d.jobs : i # j => e.jobs[i] = d.jobs[i]
  BY <1>1, SavedJob
<1> HIDE DEF e
<1>3. \A i \in DOMAIN d.jobs : e.jobs[i].status = d.jobs[i].status
                               /\ e.jobs[i].pub = d.jobs[i].pub
  BY <1>2
<1> QED
  BY <1>2, <1>3, SameShape DEF e

(* _activate_publication supersedes the authoritative publication and puts *)
(* the new one in its place.                                               *)
LEMMA Activated ==
    ASSUME NEW d \in Database, OneAuthoritativeIn(d), NEW v \in DOMAIN d.pubs, v # d.current
    PROVE  LET e == ActivatePublication(d, v)
           IN  /\ e \in Database /\ e.jobs = d.jobs /\ e.current = v
               /\ DOMAIN e.pubs = DOMAIN d.pubs
               /\ e.pubs[v].status = "PUBLISHED"
               /\ d.current # 0 => e.pubs[d.current].status = "SUPERSEDED"
               /\ \A u \in DOMAIN d.pubs : u \notin {v, d.current} => e.pubs[u] = d.pubs[u]
               /\ OneAuthoritativeIn(e)
<1> DEFINE n == d.current
           old == d.pubs[n]
           q == [old EXCEPT !.status = "SUPERSEDED"]
           m == IF n = 0 THEN d ELSE SavePublication(d, n, q)
           new == m.pubs[v]
           p == [new EXCEPT !.status = "PUBLISHED"]
           f == SavePublication(m, v, p)
           e == [f EXCEPT !.current = v]
<1>1. ActivatePublication(d, v) = e
  BY DEF ActivatePublication
<1>2. "SUPERSEDED" \in PubStatus /\ "PUBLISHED" \in PubStatus
  BY DEF PubStatus, Successful
<1>3. n # 0 => n \in DOMAIN d.pubs
  BY DEF OneAuthoritativeIn, Versions
<1>4. /\ m \in Database /\ m.jobs = d.jobs /\ DOMAIN m.pubs = DOMAIN d.pubs
      /\ n # 0 => m.pubs[n].status = "SUPERSEDED"
      /\ \A u \in DOMAIN d.pubs : u # n => m.pubs[u] = d.pubs[u]
  <2>1. CASE n = 0
    BY <2>1
  <2>2. CASE n # 0
    <3>1. old \in Publication
      BY <2>2, <1>3, Rows
    <3> HIDE DEF old
    <3>2. q \in Publication /\ q.status = "SUPERSEDED"
      BY <1>2, <3>1, PublicationStatusUpdate
    <3>3. m = SavePublication(d, n, q)
      BY <2>2
    <3> HIDE DEF q, m, n
    <3> QED
      BY <2>2, <3>2, <3>3, <1>3, SavedPublication
  <2> QED
    BY <2>1, <2>2
<1> HIDE DEF m, n
<1>5. new \in Publication
  BY <1>4, Rows
<1> HIDE DEF new
<1>6. p \in Publication /\ p.status = "PUBLISHED"
  BY <1>2, <1>5, PublicationStatusUpdate
<1> HIDE DEF p
<1>7. /\ f \in Database /\ f.jobs = m.jobs /\ DOMAIN f.pubs = DOMAIN m.pubs
      /\ f.pubs[v] = p /\ \A u \in DOMAIN m.pubs : u # v => f.pubs[u] = m.pubs[u]
  BY <1>4, <1>6, SavedPublication
<1> HIDE DEF f
<1>8. v \in Nat
  BY Rows
<1>9. e \in Database /\ e.jobs = f.jobs /\ e.pubs = f.pubs /\ e.current = v
  BY <1>7, <1>8 DEF Database
<1> HIDE DEF e
<1>10. /\ DOMAIN e.pubs = DOMAIN d.pubs /\ e.pubs[v].status = "PUBLISHED"
       /\ n # 0 => e.pubs[n].status = "SUPERSEDED"
       /\ \A u \in DOMAIN d.pubs : u \notin {v, n} => e.pubs[u] = d.pubs[u]
  BY <1>3, <1>4, <1>6, <1>7, <1>9 DEF n
<1>11. OneAuthoritativeIn(e)
  <2>1. \A u \in DOMAIN d.pubs : u \notin {v, n} => d.pubs[u].status # "PUBLISHED"
    BY DEF OneAuthoritativeIn, Versions, n
  <2>2. 0 \notin DOMAIN d.pubs
    BY Rows
  <2>3. \A u \in DOMAIN e.pubs : e.pubs[u].status = "PUBLISHED" <=> u = e.current
    BY <2>1, <2>2, <1>9, <1>10
  <2> QED
    BY <2>3, <1>9, <1>10 DEF OneAuthoritativeIn, Versions
<1> QED
  BY <1>1, <1>4, <1>7, <1>9, <1>10, <1>11 DEF n

(* Activating a superseded publication keeps the invariant, and the        *)
(* replaced one is superseded.                                             *)
LEMMA RollbackInv ==
    ASSUME NEW d, DbInv(d), NEW v \in DOMAIN d.pubs, d.pubs[v].status = "SUPERSEDED"
    PROVE  LET e == ActivatePublication(d, v)
           IN  DbInv(e) /\ Grows(d, e) /\ e.current = v
               /\ (d.current # 0 => e.pubs[d.current].status = "SUPERSEDED")
<1> DEFINE e == ActivatePublication(d, v)
<1> USE DEF Versions, Running, Pending, LiveJobs
<1>1. d \in Database /\ OneAuthoritativeIn(d)
  BY DEF DbInv
<1>2. v # d.current
  BY <1>1 DEF OneAuthoritativeIn
<1>3. /\ e \in Database /\ e.jobs = d.jobs /\ e.current = v
      /\ DOMAIN e.pubs = DOMAIN d.pubs
      /\ e.pubs[v].status = "PUBLISHED"
      /\ d.current # 0 => e.pubs[d.current].status = "SUPERSEDED"
      /\ \A u \in DOMAIN d.pubs : u \notin {v, d.current} => e.pubs[u] = d.pubs[u]
      /\ OneAuthoritativeIn(e)
  BY <1>1, <1>2, Activated
<1> HIDE DEF e
<1>4. OneLiveJobIn(e)
  BY <1>3 DEF DbInv, OneLiveJobIn
<1>5. \A u \in DOMAIN d.pubs : d.pubs[u].status \in {"STAGED", "BUILDING"}
                               => u \notin {v, d.current}
  BY <1>1 DEF OneAuthoritativeIn
<1>6. \A u \in DOMAIN d.pubs : e.pubs[u].status \in {"STAGED", "BUILDING"}
                               => e.pubs[u] = d.pubs[u]
  <2>1. 0 \notin DOMAIN d.pubs
    BY <1>1, Rows
  <2> QED
    BY <2>1, <1>3
<1>7. JobsOwnAttemptsIn(e)
  <2>1. JobsOwnAttemptsIn(d)
    BY DEF DbInv
  <2>2. \A u \in DOMAIN d.pubs : d.pubs[u].status \in {"STAGED", "BUILDING"}
                               => e.pubs[u] = d.pubs[u]
    BY <1>3, <1>5
  <2> QED
    BY <2>1, <2>2, <1>3, <1>6, SMTT(30) DEF JobsOwnAttemptsIn
<1>8. DbInv(e) /\ Grows(d, e)
  BY <1>3, <1>4, <1>7 DEF DbInv, Grows
<1> QED
  BY <1>3, <1>8 DEF e

(* Retiring a superseded publication keeps the invariant.                  *)
LEMMA ObsoleteInv ==
    ASSUME NEW d, DbInv(d), NEW v \in DOMAIN d.pubs, d.pubs[v].status = "SUPERSEDED"
    PROVE  DbInv(Obsolete(d, v)) /\ Grows(d, Obsolete(d, v))
<1> DEFINE p == Retire(d.pubs[v])
           e == SavePublication(d, v, p)
           n == IF d.latest = v THEN d.current ELSE d.latest
           f == [e EXCEPT !.latest = n]
<1> USE DEF Versions, Running, Pending, LiveJobs
<1>1. d \in Database
  BY DEF DbInv
<1>2. p \in Publication /\ p.status = "OBSOLETE"
  BY <1>1, Rows, Retired
<1>3. Obsolete(d, v) = f
  BY DEF Obsolete
<1>4. n \in Nat
  BY <1>1, DatabaseFields
<1> HIDE DEF p, n
<1>5. /\ e \in Database /\ e.jobs = d.jobs /\ e.current = d.current
      /\ DOMAIN e.pubs = DOMAIN d.pubs /\ e.pubs[v] = p
      /\ \A u \in DOMAIN d.pubs : u # v => e.pubs[u] = d.pubs[u]
  BY <1>1, <1>2, SavedPublication
<1> HIDE DEF e
<1>6. OneAuthoritativeIn(e)
  BY <1>2, <1>5 DEF DbInv, OneAuthoritativeIn
<1>7. OneLiveJobIn(e)
  BY <1>5 DEF DbInv, OneLiveJobIn
<1>8. JobsOwnAttemptsIn(e)
  BY <1>2, <1>5, SMTT(30) DEF DbInv, JobsOwnAttemptsIn
<1>9. DbInv(e) /\ Grows(d, e)
  BY <1>5, <1>6, <1>7, <1>8 DEF DbInv, Grows
<1>10. DbInv(f) /\ Grows(e, f)
  <2>1. None \in Contents \cup {None}
    OBVIOUS
  <2> QED
    BY <1>4, <1>9, <2>1, ScopeFieldsInv
<1> HIDE DEF f
<1> QED
  BY <1>3, <1>9, <1>10, GrowsTransitive

(* dirty_since may be set or cleared freely.                               *)
LEMMA DirtyInv ==
    ASSUME NEW d, DbInv(d), NEW b \in BOOLEAN
    PROVE  DbInv([d EXCEPT !.dirty = b]) /\ Grows(d, [d EXCEPT !.dirty = b])
<1>1. /\ DbInv([d EXCEPT !.dirty = TRUE]) /\ Grows(d, [d EXCEPT !.dirty = TRUE])
      /\ DbInv([d EXCEPT !.dirty = FALSE]) /\ Grows(d, [d EXCEPT !.dirty = FALSE])
  BY ScopeFieldsInv, 0 \in Nat, None \in Contents \cup {None}
<1>2. CASE b = TRUE
  BY <1>1, <1>2
<1>3. CASE b = FALSE
  BY <1>1, <1>3
<1> QED
  BY <1>2, <1>3

(* The publishing closeout: the attempt of a running job becomes           *)
(* authoritative and the job ends.                                         *)
LEMMA PublishedInv ==
    ASSUME NEW d, DbInv(d), NEW j \in Running(d), NEW p \in Publication,
           p.status = "BUILDING"
    PROVE  LET v == d.jobs[j].pub
               built == [SavePublication(d, v, p) EXCEPT !.latest = v]
               e == EndJob(ActivatePublication(built, v), j, "SUCCEEDED")
           IN  DbInv(e) /\ Grows(d, e)
<1> DEFINE v == d.jobs[j].pub
           m == SavePublication(d, v, p)
           b == [m EXCEPT !.latest = v]
           a == ActivatePublication(b, v)
           e == EndJob(a, j, "SUCCEEDED")
<1> USE DEF Versions, Running, Pending, LiveJobs, LiveJob
<1>1. /\ d \in Database /\ j \in DOMAIN d.jobs /\ v \in DOMAIN d.pubs /\ v # d.current
      /\ d.pubs[v].status = "BUILDING"
      /\ \A i \in DOMAIN d.jobs : i # j => d.jobs[i].status \notin LiveJob
      /\ \A u \in DOMAIN d.pubs : u # v => d.pubs[u].status \notin {"STAGED", "BUILDING"}
  BY RunningOwns
<1>2. v \in Nat
  BY <1>1, Rows
<1> HIDE DEF v
<1>3. DbInv(m) /\ Grows(d, m)
  BY <1>1, SameStatusInv
<1>4. /\ m \in Database /\ m.jobs = d.jobs /\ m.current = d.current
      /\ DOMAIN m.pubs = DOMAIN d.pubs
      /\ \A u \in DOMAIN d.pubs : u # v => m.pubs[u] = d.pubs[u]
  BY <1>1, SavedPublication
<1> HIDE DEF m
<1>5. DbInv(b)
  BY <1>2, <1>3, ScopeFieldsInv, None \in Contents \cup {None}
<1>6. b.jobs = m.jobs /\ b.pubs = m.pubs /\ b.current = m.current
  BY <1>4 DEF Database
<1> HIDE DEF b
<1>7. /\ a \in Database /\ a.jobs = b.jobs /\ a.current = v
      /\ DOMAIN a.pubs = DOMAIN b.pubs
      /\ a.pubs[v].status = "PUBLISHED"
      /\ b.current # 0 => a.pubs[b.current].status = "SUPERSEDED"
      /\ \A u \in DOMAIN b.pubs : u \notin {v, b.current} => a.pubs[u] = b.pubs[u]
      /\ OneAuthoritativeIn(a)
  <2>1. b \in Database /\ OneAuthoritativeIn(b) /\ v \in DOMAIN b.pubs /\ v # b.current
    BY <1>1, <1>4, <1>5, <1>6 DEF DbInv
  <2> QED
    BY <2>1, Activated
<1> HIDE DEF a
<1>8. "SUCCEEDED" \in JobStatus
  BY DEF JobStatus
<1>9. /\ e \in Database /\ e.pubs = a.pubs /\ e.current = a.current
      /\ DOMAIN e.jobs = DOMAIN a.jobs /\ e.jobs[j].status = "SUCCEEDED"
      /\ \A i \in DOMAIN a.jobs : i # j => e.jobs[i] = a.jobs[i]
  BY <1>1, <1>4, <1>6, <1>7, <1>8, Ended
<1> HIDE DEF e
<1>10. \A i \in DOMAIN e.jobs : e.jobs[i].status \notin LiveJob
  BY <1>1, <1>4, <1>6, <1>7, <1>9
<1>11. \A u \in DOMAIN e.pubs : e.pubs[u].status \notin {"STAGED", "BUILDING"}
  <2>1. 0 \notin DOMAIN d.pubs
    BY <1>1, Rows
  <2> QED
    BY <2>1, <1>1, <1>4, <1>6, <1>7, <1>9
<1>12. OneAuthoritativeIn(e)
  BY <1>7, <1>9 DEF OneAuthoritativeIn
<1>13. OneLiveJobIn(e)
  BY <1>10 DEF OneLiveJobIn
<1>14. JobsOwnAttemptsIn(e)
  BY <1>10, <1>11 DEF JobsOwnAttemptsIn
<1>15. DbInv(e) /\ Grows(d, e)
  BY <1>4, <1>6, <1>7, <1>9, <1>12, <1>13, <1>14 DEF DbInv, Grows
<1> QED
  BY <1>15 DEF e, a, b, m, v

(* The staged attempt of a pending job becomes the building attempt of a   *)
(* running one.                                                            *)
LEMMA ClaimedInv ==
    ASSUME NEW d \in Database, OneAuthoritativeIn(d), NEW j \in DOMAIN d.jobs,
           NEW v \in DOMAIN d.pubs, d.pubs[v].status = "STAGED",
           \A i \in DOMAIN d.jobs : i # j => d.jobs[i].status \notin LiveJob,
           \A u \in DOMAIN d.pubs : u # v => d.pubs[u].status \notin {"STAGED", "BUILDING"},
           NEW p \in Publication, p.status = "BUILDING",
           NEW r \in Job, r.status = "RUNNING", r.pub = v
    PROVE  LET e == SaveJob(SavePublication(d, v, p), j, r)
           IN  DbInv(e) /\ Grows(d, e)
<1> DEFINE m == SavePublication(d, v, p)
           e == SaveJob(m, j, r)
<1> USE DEF Versions, Running, Pending, LiveJobs, LiveJob
<1>1. /\ m \in Database /\ m.jobs = d.jobs /\ m.current = d.current
      /\ DOMAIN m.pubs = DOMAIN d.pubs /\ m.pubs[v] = p
      /\ \A u \in DOMAIN d.pubs : u # v => m.pubs[u] = d.pubs[u]
  BY SavedPublication
<1> HIDE DEF m
<1>2. /\ e \in Database /\ e.pubs = m.pubs /\ e.current = m.current
      /\ DOMAIN e.jobs = DOMAIN m.jobs /\ e.jobs[j] = r
      /\ \A i \in DOMAIN m.jobs : i # j => e.jobs[i] = m.jobs[i]
  BY <1>1, SavedJob
<1> HIDE DEF e
<1>3. \A i \in DOMAIN e.jobs : e.jobs[i].status \in LiveJob => i = j
  BY <1>1, <1>2
<1>4. \A u \in DOMAIN e.pubs : e.pubs[u].status \in {"STAGED", "BUILDING"} => u = v
  BY <1>1, <1>2
<1>5. e.jobs[j].status = "RUNNING" /\ e.jobs[j].pub = v /\ j \in DOMAIN e.jobs
      /\ v \in DOMAIN e.pubs /\ e.pubs[v].status = "BUILDING"
  BY <1>1, <1>2
<1>6. OneAuthoritativeIn(e)
  BY <1>1, <1>2 DEF OneAuthoritativeIn
<1>7. OneLiveJobIn(e)
  BY <1>3 DEF OneLiveJobIn
<1>8. JobsOwnAttemptsIn(e)
  BY <1>3, <1>4, <1>5 DEF JobsOwnAttemptsIn
<1>9. DbInv(e) /\ Grows(d, e)
  BY <1>1, <1>2, <1>6, <1>7, <1>8 DEF DbInv, Grows
<1> QED
  BY <1>9 DEF e, m

(* _claim_job keeps the invariant: a job with no attempt is given one, and *)
(* the branch that finds its attempt no longer STAGED is never taken.      *)
LEMMA FrozenInv ==
    ASSUME NEW d0, DbInv(d0), NEW j \in Pending(d0), NEW c \in Contents
    PROVE  DbInv(FreezeAttempt(d0, j, c)) /\ Grows(d0, FreezeAttempt(d0, j, c))
<1> DEFINE d1 == [d0 EXCEPT !.fp = c]
           d == IF d1.jobs[j].pub = 0 THEN AllocateStaged(d1, c) ELSE d1
           v == IF d1.jobs[j].pub = 0 THEN Len(d.pubs) ELSE d1.jobs[j].pub
           old == d.pubs[v]
           p == [old EXCEPT !.rev = d.rev, !.fp = c, !.snap = c, !.status = "BUILDING"]
           job == d.jobs[j]
           r == [job EXCEPT !.status = "RUNNING", !.pub = v,
                            !.attempts = job.attempts + 1, !.stale = FALSE]
           e == FreezeAttempt(d0, j, c)
<1> USE DEF Versions, Running, Pending, LiveJobs, LiveJob
<1>1. DbInv(d1) /\ Grows(d0, d1) /\ d1.jobs = d0.jobs /\ d1.pubs = d0.pubs
  BY ScopeFieldsInv, 0 \in Nat
<1>2. e = IF d.pubs[v].status # "STAGED" THEN EndJob(d, j, "OBSOLETE")
          ELSE SaveJob(SavePublication(d, v, p), j, r)
  BY DEF FreezeAttempt
<1> HIDE DEF d1, e
<1>3. d1 \in Database /\ j \in DOMAIN d1.jobs /\ d1.jobs[j].status = "PENDING"
  BY <1>1 DEF DbInv
<1>4. \A i \in DOMAIN d1.jobs : i # j => d1.jobs[i].status \notin LiveJob
  BY <1>1, <1>3 DEF DbInv, OneLiveJobIn
<1>5. \A u \in DOMAIN d1.pubs : u # d1.jobs[j].pub =>
        d1.pubs[u].status \notin {"STAGED", "BUILDING"}
  <2> SUFFICES ASSUME NEW u \in DOMAIN d1.pubs,
                      d1.pubs[u].status \in {"STAGED", "BUILDING"}
               PROVE  u = d1.jobs[j].pub
    OBVIOUS
  <2>1. PICK i \in DOMAIN d1.jobs : /\ d1.jobs[i].status \in LiveJob
                                    /\ d1.jobs[i].pub = u
    BY <1>1 DEF DbInv, JobsOwnAttemptsIn
  <2> QED
    BY <2>1, <1>4
<1>6. /\ d \in Database /\ OneAuthoritativeIn(d) /\ d.jobs = d1.jobs
      /\ v \in DOMAIN d.pubs /\ d.pubs[v].status = "STAGED"
      /\ \A u \in DOMAIN d.pubs : u # v => d.pubs[u].status \notin {"STAGED", "BUILDING"}
      /\ DOMAIN d1.pubs \subseteq DOMAIN d.pubs
  <2>1. CASE d1.jobs[j].pub = 0
    <3> DEFINE a == AllocateStaged(d1, c)
    <3>1. /\ a \in Database /\ a.jobs = d1.jobs /\ a.current = d1.current
          /\ Len(a.pubs) \notin DOMAIN d1.pubs
          /\ DOMAIN a.pubs = DOMAIN d1.pubs \cup {Len(a.pubs)}
          /\ \A u \in DOMAIN d1.pubs : a.pubs[u] = d1.pubs[u]
          /\ a.pubs[Len(a.pubs)].status = "STAGED"
          /\ Len(a.pubs) \in Nat \ {0}
      BY <1>3, Allocated
    <3>2. d = a /\ v = Len(a.pubs)
      BY <2>1
    <3> HIDE DEF a, d, v
    <3>3. 0 \notin DOMAIN d1.pubs
      BY <1>3, Rows
    <3>4. OneAuthoritativeIn(a)
      BY <1>1, <3>1 DEF DbInv, OneAuthoritativeIn
    <3> QED
      BY <2>1, <3>1, <3>2, <3>3, <3>4, <1>5
  <2>2. CASE d1.jobs[j].pub # 0
    <3>1. d = d1 /\ v = d1.jobs[j].pub
      BY <2>2
    <3> HIDE DEF d, v
    <3>2. d1.jobs[j].pub \in DOMAIN d1.pubs /\ d1.pubs[d1.jobs[j].pub].status = "STAGED"
      BY <2>2, <1>1, <1>3 DEF DbInv, JobsOwnAttemptsIn
    <3> QED
      BY <3>1, <3>2, <1>1, <1>3, <1>5 DEF DbInv
  <2> QED
    BY <2>1, <2>2
<1> HIDE DEF d, v
<1>7. old \in Publication /\ d.rev \in Nat /\ job \in Job /\ job.attempts + 1 \in Nat /\ v \in Nat
  BY <1>3, <1>6, Rows, RowFields, DatabaseFields
<1>8. p \in Publication /\ p.status = "BUILDING"
  <2> DEFINE n == d.rev
  <2>1. n \in Nat /\ c \in Contents \cup {None} /\ old \in Publication
    BY <1>7
  <2>2. p = [old EXCEPT !.rev = n, !.fp = c, !.snap = c, !.status = "BUILDING"]
    OBVIOUS
  <2> HIDE DEF n, old, p
  <2> QED
    BY <2>1, <2>2, PublicationFrozen
<1>9. r \in Job /\ r.status = "RUNNING" /\ r.pub = v
  <2> DEFINE n == job.attempts + 1
  <2>1. n \in Nat /\ v \in Nat /\ job \in Job
    BY <1>7
  <2>2. r = [job EXCEPT !.status = "RUNNING", !.pub = v, !.attempts = n, !.stale = FALSE]
    OBVIOUS
  <2> HIDE DEF n, job, r
  <2> QED
    BY <2>1, <2>2 DEF Job, JobStatus
<1> HIDE DEF p, r, old, job
<1>10. e = SaveJob(SavePublication(d, v, p), j, r)
  BY <1>2, <1>6
<1>11. DbInv(e) /\ Grows(d, e)
  BY <1>3, <1>4, <1>6, <1>8, <1>9, <1>10, ClaimedInv
<1>12. Grows(d0, e)
  BY <1>1, <1>6, <1>11 DEF Grows
<1> QED
  BY <1>11, <1>12 DEF e
=============================================================================
