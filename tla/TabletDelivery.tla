--------------------------- MODULE TabletDelivery ---------------------------
(***************************************************************************)
(* What a tablet is allowed to fetch: the asset and its installation       *)
(* (apps/tablets/services.py), its vehicle (apps/assignments,              *)
(* apps/organizations), the key grants and the signed manifests prepared   *)
(* for it (apps/publications/manifests.py, worker_grants.py,               *)
(* document_v2.py) and the delivery worker that prepares them              *)
(* (work_cycle.py).                                                        *)
(*                                                                         *)
(* A request of a tablet and a service call of an administrator are one    *)
(* transaction, so one action, each.  The worker claims a grant or a       *)
(* manifest in one transaction and builds it in a second one; anything may *)
(* happen between the two, a crash included.                               *)
(***************************************************************************)
EXTENDS Naturals, Sequences, FiniteSets, Functions

CONSTANTS
    Installations,  \* one current installation for each tablet
    Vehicles,
    JsonPubs,       \* publications of a JSON dataset (a DatasetKeyGrant each)
    PlanPubs,       \* document generations of a plan dataset
    LibraryPubs,    \* document generations of a file library
    None,           \* no vehicle
    BatchSize,      \* PUBLICATION_WORKER_BATCH_SIZE: slots of one delivery cycle
    Ops,            \* the optional operations this instance exercises
    MaxChanges      \* bound on the changes made around the tablet's requests

OpNames == {"publish", "rollback", "obsolete", "feature", "guides", "asset",
            "revoke", "assign", "retire", "revive", "lease", "outage", "crash",
            "cleanup"}

Publications == JsonPubs \cup PlanPubs \cup LibraryPubs
DocumentPubs == PlanPubs \cup LibraryPubs
Datasets == {JsonPubs, PlanPubs, LibraryPubs} \ {{}}

ASSUME DeliveryAssumption ==
    /\ JsonPubs \cap DocumentPubs = {} /\ PlanPubs \cap LibraryPubs = {}
    /\ None \notin Vehicles
    /\ BatchSize \in Nat \ {0}
    /\ Ops \subseteq OpNames
    /\ MaxChanges \in Nat

VARIABLES
    pubs,       \* status of each publication of the datasets in scope
    features,   \* the datasets whose feature is enabled for the department
    guides,     \* the capability block: which Vehicle Rescue Guides URL is set
    asset,      \* Tablet.status
    inst,       \* AppInstallation.status
    lease,      \* authorization_valid_until and where the clock is against it
    vehicle,    \* the tablet's current vehicle assignment
    inService,  \* vehicles with active = True
    grants,     \* DatasetKeyGrant rows, by age
    docGrants,  \* DocumentGenerationKeyGrant rows, by age
    manifests,  \* SignedManifest rows, by age
    worker,     \* the delivery worker between its transactions
    outage,     \* the worker cannot read a usable KEK or signing key
    listed,     \* manifest rows a cleanup has listed and not yet deleted
    changes     \* changes made so far

domain == <<pubs, features, guides, asset, inst, lease, vehicle, inService>>
vars == <<domain, grants, docGrants, manifests, worker, outage, listed, changes>>

PubStatus == {"NEW", "PUBLISHED", "SUPERSEDED", "OBSOLETE"}
AssetStatus == {"INACTIVE", "ACTIVE", "LOST", "RETIRED"}
InstStatus == {"ACTIVE", "STALE", "REVOKED"}
GrantStatus == {"PENDING", "RUNNING", "READY", "FAILED", "REVOKED"}
ManifestStatus == {"PENDING", "RUNNING", "READY", "FAILED", "OBSOLETE", "DELETED"}

(* `phase': the lease is far from its end, within AUTO_RENEW_THRESHOLD of  *)
(* it, or over.  `until' counts the values authorization_valid_until has   *)
(* had.                                                                    *)
Lease == [until : Nat, phase : {"fresh", "due", "expired"}]

(* `wrap' is the HPKE wrapping the row stores (0 is NULL); `seals' counts  *)
(* the wrappings made for the row, so that each is a new value.            *)
Grant == [inst : Installations, pub : Publications, status : GrantStatus,
          wrap : Nat, seals : Nat]

(* What manifest_state_hash covers.                                        *)
StateHash == [asset : AssetStatus, until : Nat, vehicle : Vehicles \cup {None},
              datasets : SUBSET Publications, guides : BOOLEAN]

(* A manifest row.  `payload' gives, for each JSON publication it lists,   *)
(* the wrapping embedded as its key_grant.                                 *)
IsManifest(m) ==
    /\ m = [inst |-> m.inst, hash |-> m.hash, status |-> m.status,
            payload |-> m.payload]
    /\ m.inst \in Installations
    /\ m.hash \in StateHash
    /\ m.status \in ManifestStatus
    /\ DOMAIN m.payload \subseteq JsonPubs
    /\ m.payload \in [DOMAIN m.payload -> Nat]

NoPayload == [p \in {} |-> 0]

(* The worker at the start of a cycle.  `slot' counts the slots it has     *)
(* begun, `busy' says that the present one found something to do,          *)
(* `deferred' are the manifests this cycle has put back.                   *)
Ready == [pc |-> "grant", item |-> 0, slot |-> 1, busy |-> FALSE, deferred |-> {}]

-----------------------------------------------------------------------------
(* Authorization: what the current rows allow an installation.             *)

(* control_plane_context: tablet.active is True exactly while the asset is *)
(* ACTIVE or INACTIVE; the department is ACTIVE throughout.                *)
ControlPlane(i) ==
    /\ inst[i] = "ACTIVE"
    /\ lease[i].phase # "expired"
    /\ asset[i] \in {"ACTIVE", "INACTIVE"}

(* The vehicle control_plane_context returns.                              *)
ScopeVehicle(i) == IF asset[i] = "INACTIVE" THEN None ELSE vehicle[i]

Exposed == {p \in Publications :
                pubs[p] = "PUBLISHED" /\ \E d \in features : p \in d}

ManifestPublications(i) ==
    IF asset[i] = "ACTIVE" /\ vehicle[i] # None THEN Exposed ELSE {}

(* authorized_publications raises without an operational scope.            *)
AuthorizedPublications(i) ==
    IF ControlPlane(i) THEN ManifestPublications(i) ELSE {}

(* _authorized_generation: the current generation, or a superseded one of  *)
(* a file library whose current generation is authorized.                  *)
AuthorizedGeneration(i, p) ==
    /\ p \in DocumentPubs
    /\ \/ p \in AuthorizedPublications(i)
       \/ /\ p \in LibraryPubs
          /\ pubs[p] = "SUPERSEDED"
          /\ AuthorizedPublications(i) \cap LibraryPubs # {}

CurrentState(i) ==
    [asset |-> asset[i], until |-> lease[i].until, vehicle |-> ScopeVehicle(i),
     datasets |-> ManifestPublications(i), guides |-> guides]

-----------------------------------------------------------------------------
(* Writers of the grant and manifest tables.                               *)

(* Make the wrapping unusable; a row that is already revoked stays as is.  *)
RevokeGrants(gs, Chosen(_)) ==
    [k \in DOMAIN gs |->
        IF Chosen(gs[k]) THEN [gs[k] EXCEPT !.status = "REVOKED"] ELSE gs[k]]

(* revoke_dataset_key_grants: every grant of the installation.             *)
RevokeDatasetKeyGrants(gs, is) == RevokeGrants(gs, LAMBDA g : g.inst \in is)

(* Mutant: only finished grants are revoked.                               *)
RevokeReadyGrantsOnly(gs, ps) ==
    RevokeGrants(gs, LAMBDA g : g.pub \in ps \ LibraryPubs /\ g.status = "READY")

(* revoke_publication_dataset_key_grants: a file library keeps its grants. *)
RevokePublicationGrants(gs, ps) ==
    RevokeGrants(gs, LAMBDA g : g.pub \in ps \ LibraryPubs)

NewGrant(i, p) ==
    [inst |-> i, pub |-> p, status |-> "PENDING", wrap |-> 0, seals |-> 0]

(* Mutant: a failed grant is never tried again.                            *)
RequestWithoutRetry(g, retryFailed) ==
    IF g.status = "REVOKED" THEN [g EXCEPT !.status = "PENDING", !.wrap = 0] ELSE g

(* request_dataset_key_grant on an existing row.                           *)
RequestedGrant(g, retryFailed) ==
    CASE g.status = "REVOKED" -> [g EXCEPT !.status = "PENDING", !.wrap = 0]
      [] g.status = "FAILED" /\ retryFailed -> [g EXCEPT !.status = "PENDING"]
      [] OTHER -> g

HasRow(gs, i, p) == \E k \in DOMAIN gs : gs[k].inst = i /\ gs[k].pub = p

(* Some enumeration of the rows to create: they share one transaction.     *)
RowsFor(i, ps) ==
    CHOOSE s \in [1..Cardinality(ps) -> {NewGrant(i, p) : p \in ps}] :
        \A p \in ps : \E k \in DOMAIN s : s[k].pub = p

RequestDatasetKeyGrants(gs, i, ps, retryFailed) ==
    [k \in DOMAIN gs |->
        IF gs[k].inst = i /\ gs[k].pub \in ps
        THEN RequestedGrant(gs[k], retryFailed) ELSE gs[k]]
    \o RowsFor(i, {p \in ps : ~HasRow(gs, i, p)})

GrantOf(gs, i, p) ==
    gs[CHOOSE k \in DOMAIN gs : gs[k].inst = i /\ gs[k].pub = p]

(* hpke_seal: a wrapping nobody has seen before.                           *)
Sealed(g) ==
    [g EXCEPT !.status = "READY", !.wrap = g.seals + 1, !.seals = g.seals + 1]

Rows(ms, i, h) ==
    {k \in DOMAIN ms : ms[k].inst = i /\ ms[k].hash = h /\ ms[k].status # "DELETED"}

SetManifests(ms, Chosen(_), new) ==
    [k \in DOMAIN ms |->
        IF Chosen(ms[k]) THEN [ms[k] EXCEPT !.status = new] ELSE ms[k]]

First(S) == CHOOSE k \in S : \A j \in S : k <= j

-----------------------------------------------------------------------------
(* Requests of a tablet.                                                   *)

(* request_manifest: queue the grants and the manifest of the current      *)
(* state; a READY row is returned as it is.                                *)
RequestManifest(i) ==
    /\ ControlPlane(i)
    /\ grants' = RequestDatasetKeyGrants(grants, i,
                     ManifestPublications(i) \cap JsonPubs, TRUE)
    /\ LET h == CurrentState(i)
           row == Rows(manifests, i, h)
       IN manifests' =
            IF row = {}
            THEN Append(manifests, [inst |-> i, hash |-> h, status |-> "PENDING",
                                    payload |-> NoPayload])
            ELSE [k \in DOMAIN manifests |->
                    IF k \in row /\ manifests[k].status \in {"FAILED", "OBSOLETE"}
                    THEN [manifests[k] EXCEPT !.status = "PENDING"]
                    ELSE manifests[k]]
    /\ UNCHANGED <<domain, docGrants, worker, outage, listed, changes>>

(* Mutant: only a revoked generation grant is queued again.                *)
RequestGenerationUnlessFailed(i, p) ==
    /\ AuthorizedGeneration(i, p)
    /\ docGrants' =
        IF HasRow(docGrants, i, p)
        THEN [k \in DOMAIN docGrants |->
                IF /\ docGrants[k].inst = i /\ docGrants[k].pub = p
                   /\ docGrants[k].status = "REVOKED"
                THEN [docGrants[k] EXCEPT !.status = "PENDING", !.wrap = 0]
                ELSE docGrants[k]]
        ELSE Append(docGrants, NewGrant(i, p))
    /\ UNCHANGED <<domain, grants, manifests, worker, outage, listed, changes>>

(* request_generation_key_grant, from the generation endpoint.             *)
RequestGenerationKeyGrant(i, p) ==
    /\ AuthorizedGeneration(i, p)
    /\ docGrants' =
        IF HasRow(docGrants, i, p)
        THEN [k \in DOMAIN docGrants |->
                IF /\ docGrants[k].inst = i /\ docGrants[k].pub = p
                   /\ docGrants[k].status \in {"FAILED", "REVOKED"}
                THEN [docGrants[k] EXCEPT !.status = "PENDING", !.wrap = 0]
                ELSE docGrants[k]]
        ELSE Append(docGrants, NewGrant(i, p))
    /\ UNCHANGED <<domain, grants, manifests, worker, outage, listed, changes>>

Operational(i) == asset[i] = "ACTIVE" /\ vehicle[i] # None

(* Mutant: the target is taken from the wrong side of the old deadline.    *)
RenewedBackwards(l) == [until |-> l.until - 1, phase |-> "fresh"]

Renewed(l) == [until |-> l.until + 1, phase |-> "fresh"]

(* check_in of an ACTIVE asset.  A lease that is over makes the            *)
(* installation STALE first; a client below the minimum version stops      *)
(* there, any other recovers at once with a new lease.  A check-in of an   *)
(* INACTIVE asset changes only telemetry.                                  *)
CheckIn(i, outdated) ==
    /\ inst[i] \in {"ACTIVE", "STALE"}
    /\ asset[i] = "ACTIVE"
    /\ LET stale == inst[i] = "STALE" \/ lease[i].phase = "expired"
       IN IF outdated
          THEN /\ inst' = [inst EXCEPT ![i] = IF stale THEN "STALE" ELSE @]
               /\ lease' = lease
          ELSE /\ Operational(i)
               /\ inst' = [inst EXCEPT ![i] = "ACTIVE"]
               /\ lease' = [lease EXCEPT ![i] =
                      IF stale \/ @.phase = "due" THEN Renewed(@) ELSE @]
    /\ UNCHANGED <<pubs, features, guides, asset, vehicle, inService, grants,
                   docGrants, manifests, worker, outage, listed, changes>>

(* Changes around the requests, at most MaxChanges of them.                *)
Change(op) ==
    /\ op \in Ops
    /\ changes < MaxChanges
    /\ changes' = changes + 1

(* refresh_installation_lease: an explicit top-up of a running lease, to   *)
(* the later of the old deadline and the target.                           *)
RefreshLease(i) ==
    /\ Change("lease")
    /\ ControlPlane(i)
    /\ Operational(i)
    /\ lease' \in {lease, [lease EXCEPT ![i] = Renewed(@)]}
    /\ UNCHANGED <<pubs, features, guides, asset, inst, vehicle, inService,
                   grants, docGrants, manifests, worker, outage, listed>>

(* The clock moves towards, then past, authorization_valid_until.          *)
TimePasses(i) ==
    /\ Change("lease")
    /\ lease[i].phase # "expired"
    /\ lease' = [lease EXCEPT ![i].phase =
                    IF @ = "fresh" THEN "due" ELSE "expired"]
    /\ UNCHANGED <<pubs, features, guides, asset, inst, vehicle, inService,
                   grants, docGrants, manifests, worker, outage, listed>>

(* mark_stale_installations, from its timer.                               *)
MarkStaleInstallations ==
    /\ \E i \in Installations : inst[i] = "ACTIVE" /\ lease[i].phase = "expired"
    /\ inst' = [i \in Installations |->
                    IF inst[i] = "ACTIVE" /\ lease[i].phase = "expired"
                    THEN "STALE" ELSE inst[i]]
    /\ UNCHANGED <<pubs, features, guides, asset, lease, vehicle, inService,
                   grants, docGrants, manifests, worker, outage, listed,
                   changes>>

-----------------------------------------------------------------------------
(* The delivery worker: slots of one dataset grant, one generation grant   *)
(* and one manifest.                                                       *)

Pending(gs, status) == {k \in DOMAIN gs : gs[k].status \in status}

(* claim_next_dataset_key_grant.                                           *)
ClaimGrant ==
    /\ worker.pc = "grant"
    /\ LET S == Pending(grants, {"PENDING"})
       IN IF S = {}
          THEN /\ worker' = [worker EXCEPT !.pc = "document"]
               /\ grants' = grants
          ELSE /\ worker' = [worker EXCEPT !.pc = "seal", !.item = First(S),
                                           !.busy = TRUE]
               /\ grants' = [grants EXCEPT ![First(S)].status = "RUNNING"]
    /\ UNCHANGED <<domain, docGrants, manifests, outage, listed, changes>>

(* What sealing a claimed grant for an authorized recipient comes to.      *)
SealOutcome(g, authorized) ==
    CASE ~authorized -> [g EXCEPT !.status = "REVOKED"]
      [] authorized /\ outage -> [g EXCEPT !.status = "FAILED"]
      [] OTHER -> Sealed(g)

(* Mutant: the status of the claimed row is not read again.                *)
BuildWithoutStatusCheck(g) ==
    SealOutcome(g, g.pub \in AuthorizedPublications(g.inst))

(* build_claimed_dataset_key_grant: a row that is no longer RUNNING is     *)
(* left alone, and the authorization is read again.                        *)
BuiltGrant(g) ==
    IF g.status = "RUNNING"
    THEN SealOutcome(g, g.pub \in AuthorizedPublications(g.inst)) ELSE g

BuildGrant ==
    /\ worker.pc = "seal"
    /\ grants' = [grants EXCEPT ![worker.item] = BuiltGrant(@)]
    /\ worker' = [worker EXCEPT !.pc = "document", !.item = 0]
    /\ UNCHANGED <<domain, docGrants, manifests, outage, listed, changes>>

(* process_next_generation_key_grant: claim and seal in one transaction.   *)
ProcessGenerationGrant ==
    /\ worker.pc = "document"
    /\ LET S == Pending(docGrants, {"PENDING", "RUNNING"})
           k == First(S)
       IN IF S = {}
          THEN /\ worker' = [worker EXCEPT !.pc = "manifest"]
               /\ docGrants' = docGrants
          ELSE /\ worker' = [worker EXCEPT !.pc = "manifest", !.busy = TRUE]
               /\ docGrants' = [docGrants EXCEPT ![k] = SealOutcome(@,
                                   AuthorizedGeneration(@.inst, @.pub))]
    /\ UNCHANGED <<domain, grants, manifests, outage, listed, changes>>

(* The end of a slot: an idle slot, or the batch limit, ends the cycle.    *)
EndSlot(w) ==
    worker' = IF w.busy /\ w.slot < BatchSize
              THEN [w EXCEPT !.pc = "grant", !.item = 0, !.slot = @ + 1,
                              !.busy = FALSE]
              ELSE Ready

(* Mutant: the deferred manifests of this cycle are not excluded.          *)
AnyPendingManifest == {k \in DOMAIN manifests : manifests[k].status = "PENDING"}

(* The queue all installations share, less what this cycle has deferred.   *)
ClaimableManifests ==
    {k \in DOMAIN manifests :
        manifests[k].status = "PENDING" /\ k \notin worker.deferred}

(* claim_next_signed_manifest: the oldest row that may be claimed.         *)
ClaimManifest ==
    /\ worker.pc = "manifest"
    /\ LET S == ClaimableManifests
       IN IF S = {}
          THEN EndSlot(worker) /\ manifests' = manifests
          ELSE /\ worker' = [worker EXCEPT !.pc = "sign", !.item = First(S),
                                           !.busy = TRUE]
               /\ manifests' = [manifests EXCEPT ![First(S)].status = "RUNNING"]
    /\ UNCHANGED <<domain, grants, docGrants, outage, listed, changes>>

(* Mutant: the state hash is not compared before signing.                  *)
SignWhateverIsCurrent(m, gs) ==
    LET ps == ManifestPublications(m.inst) \cap JsonPubs
        Some(S) == \E p \in ps : GrantOf(gs, m.inst, p).status \in S
    IN CASE ~ControlPlane(m.inst) -> [m EXCEPT !.status = "OBSOLETE"]
         [] Some({"FAILED"}) -> [m EXCEPT !.status = "FAILED"]
         [] Some({"PENDING", "RUNNING"}) -> [m EXCEPT !.status = "PENDING"]
         [] outage -> [m EXCEPT !.status = "FAILED"]
         [] OTHER -> [m EXCEPT !.status = "READY",
                        !.payload = [p \in ps |-> GrantOf(gs, m.inst, p).wrap]]

(* build_claimed_signed_manifest on a RUNNING row m, with the grants gs    *)
(* its own requests (without retry_failed) have left.                      *)
SignedOutcome(m, gs) ==
    LET ps == ManifestPublications(m.inst) \cap JsonPubs
        Some(S) == \E p \in ps : GrantOf(gs, m.inst, p).status \in S
    IN CASE ~ControlPlane(m.inst) -> [m EXCEPT !.status = "OBSOLETE"]
         [] CurrentState(m.inst) # m.hash -> [m EXCEPT !.status = "OBSOLETE"]
         [] Some({"FAILED"}) -> [m EXCEPT !.status = "FAILED"]
         [] Some({"PENDING", "RUNNING"}) -> [m EXCEPT !.status = "PENDING"]
         [] Some({"REVOKED"}) -> [m EXCEPT !.status = "OBSOLETE"]
         [] outage -> [m EXCEPT !.status = "FAILED"]
         [] OTHER -> [m EXCEPT !.status = "READY",
                        !.payload = [p \in ps |-> GrantOf(gs, m.inst, p).wrap]]

(* A row that was deleted meanwhile raises: the service exits and systemd  *)
(* restarts it.                                                            *)
BuildManifest ==
    /\ worker.pc = "sign"
    /\ LET m == manifests[worker.item]
           running == m.status = "RUNNING"
           gs == IF running /\ ControlPlane(m.inst)
                 THEN RequestDatasetKeyGrants(grants, m.inst,
                        ManifestPublications(m.inst) \cap JsonPubs, FALSE)
                 ELSE grants
           built == IF running THEN SignedOutcome(m, gs) ELSE m
           defer == IF built.status = "PENDING" THEN {worker.item} ELSE {}
       IN /\ grants' = gs
          /\ manifests' = [manifests EXCEPT ![worker.item] = built]
          /\ IF m.status = "DELETED" THEN worker' = Ready
             ELSE EndSlot([worker EXCEPT !.deferred = @ \cup defer])
    /\ UNCHANGED <<domain, docGrants, outage, listed, changes>>

(* The worker dies between two of its transactions and is started again.   *)
Crash ==
    /\ Change("crash")
    /\ worker # Ready
    /\ worker' = Ready
    /\ UNCHANGED <<domain, grants, docGrants, manifests, outage, listed>>

OutageBegins ==
    /\ Change("outage")
    /\ ~outage
    /\ outage' = TRUE
    /\ UNCHANGED <<domain, grants, docGrants, manifests, worker, listed>>

OutageEnds ==
    /\ outage
    /\ outage' = FALSE
    /\ UNCHANGED <<domain, grants, docGrants, manifests, worker, listed,
                   changes>>

(* cleanup_signed_manifests lists old terminal rows, the newest READY row  *)
(* of an ACTIVE installation excepted, and deletes by id in a transaction  *)
(* of its own.  Which rows are old enough, and the batch, are free.        *)
CleanupCandidates ==
    LET ready(i) == {k \in DOMAIN manifests :
                        manifests[k].inst = i /\ manifests[k].status = "READY"}
        newest == {k \in DOMAIN manifests :
                    \E i \in Installations :
                        /\ inst[i] = "ACTIVE"
                        /\ k \in ready(i)
                        /\ \A j \in ready(i) : j <= k}
    IN {k \in DOMAIN manifests :
            manifests[k].status \in {"READY", "FAILED", "OBSOLETE"}} \ newest

ListOldManifests ==
    /\ Change("cleanup")
    /\ listed = {}
    /\ \E S \in SUBSET CleanupCandidates \ {{}} : listed' = S
    /\ UNCHANGED <<domain, grants, docGrants, manifests, worker, outage>>

DeleteListedManifests ==
    /\ listed # {}
    /\ manifests' = [k \in DOMAIN manifests |->
            IF k \in listed
            THEN [manifests[k] EXCEPT !.status = "DELETED", !.payload = NoPayload]
            ELSE manifests[k]]
    /\ listed' = {}
    /\ UNCHANGED <<domain, grants, docGrants, worker, outage, changes>>

-----------------------------------------------------------------------------
(* Publications: the effects of the build lane that delivery depends on.   *)

(* _activate_publication: p becomes current and the grants of the version  *)
(* it replaces are revoked, in one transaction.  p is a new version, or a  *)
(* superseded one that an administrator rolls back to.                     *)
ActivatePublication(p) ==
    /\ Change(IF pubs[p] = "NEW" THEN "publish" ELSE "rollback")
    /\ pubs[p] \in {"NEW", "SUPERSEDED"}
    /\ LET d == CHOOSE d \in Datasets : p \in d
           previous == {q \in d : pubs[q] = "PUBLISHED"}
       IN /\ pubs' = [q \in Publications |->
                        IF q = p THEN "PUBLISHED"
                        ELSE IF q \in previous THEN "SUPERSEDED" ELSE pubs[q]]
          /\ grants' = RevokePublicationGrants(grants, previous)
          /\ docGrants' = RevokePublicationGrants(docGrants, previous)
    /\ UNCHANGED <<features, guides, asset, inst, lease, vehicle, inService,
                   manifests, worker, outage, listed>>

(* Retention gives up a superseded version.                                *)
ObsoletePublication(p) ==
    /\ Change("obsolete")
    /\ pubs[p] = "SUPERSEDED"
    /\ pubs' = [pubs EXCEPT ![p] = "OBSOLETE"]
    /\ grants' = RevokePublicationGrants(grants, {p})
    /\ docGrants' = RevokePublicationGrants(docGrants, {p})
    /\ UNCHANGED <<features, guides, asset, inst, lease, vehicle, inService,
                   manifests, worker, outage, listed>>

(* The department's feature gate for one dataset is switched.              *)
SwitchFeature(d) ==
    /\ Change("feature")
    /\ features' = IF d \in features THEN features \ {d} ELSE features \cup {d}
    /\ UNCHANGED <<pubs, guides, asset, inst, lease, vehicle, inService,
                   grants, docGrants, manifests, worker, outage, listed>>

(* set_vehicle_rescue_guides_web_url: another URL; manifests that are      *)
(* queued or ready are invalidated, one that is being built is not.        *)
SetGuidesUrl ==
    /\ Change("guides")
    /\ guides' = ~guides
    /\ manifests' = SetManifests(manifests,
                        LAMBDA m : m.status \in {"PENDING", "READY"}, "OBSOLETE")
    /\ UNCHANGED <<pubs, features, asset, inst, lease, vehicle, inService,
                   grants, docGrants, worker, outage, listed>>

-----------------------------------------------------------------------------
(* The asset, the installation and the vehicle.                            *)

(* ASSET_TRANSITIONS.                                                      *)
AssetTransition(from, to) ==
    \/ from = "INACTIVE" /\ to \in {"ACTIVE", "LOST", "RETIRED"}
    \/ from = "ACTIVE" /\ to \in {"INACTIVE", "LOST", "RETIRED"}
    \/ from = "LOST" /\ to = "INACTIVE"

MoveAsset(i, to) ==
    /\ Change("asset")
    /\ AssetTransition(asset[i], to)
    /\ asset' = [asset EXCEPT ![i] = to]
    /\ UNCHANGED <<pubs, features, guides, lease, vehicle, inService, worker,
                   outage, listed>>

(* activate_tablet.                                                        *)
ActivateTablet(i) ==
    /\ MoveAsset(i, "ACTIVE")
    /\ inst[i] \in {"ACTIVE", "STALE"}
    /\ vehicle[i] # None
    /\ UNCHANGED <<inst, grants, docGrants, manifests>>

(* Mutant: a finished manifest survives the deactivation.                  *)
DeactivateUnfinishedManifests(i) ==
    SetManifests(manifests, LAMBDA m : m.inst = i /\ m.status \in {"PENDING", "RUNNING"},
                 "OBSOLETE")

(* deactivate_tablet: the identity stays, every grant and every manifest   *)
(* of it goes.                                                             *)
DeactivatedManifests(i) ==
    SetManifests(manifests, LAMBDA m : m.inst = i /\ m.status # "DELETED",
                 "OBSOLETE")

DeactivateTablet(i) ==
    /\ asset[i] = "ACTIVE"
    /\ MoveAsset(i, "INACTIVE")
    /\ IF inst[i] \in {"ACTIVE", "STALE"}
       THEN /\ grants' = RevokeDatasetKeyGrants(grants, {i})
            /\ docGrants' = RevokeDatasetKeyGrants(docGrants, {i})
            /\ manifests' = DeactivatedManifests(i)
       ELSE UNCHANGED <<grants, docGrants, manifests>>
    /\ inst' = inst

RevokeTabletInstallations(i) ==
    /\ inst' = [inst EXCEPT ![i] = "REVOKED"]
    /\ grants' = RevokeDatasetKeyGrants(grants, {i})
    /\ docGrants' = RevokeDatasetKeyGrants(docGrants, {i})

MarkTabletLost(i) ==
    /\ MoveAsset(i, "LOST")
    /\ RevokeTabletInstallations(i)
    /\ manifests' = manifests

RetireTablet(i) ==
    /\ MoveAsset(i, "RETIRED")
    /\ RevokeTabletInstallations(i)
    /\ manifests' = manifests

(* recover_tablet.                                                         *)
RecoverTablet(i) ==
    /\ asset[i] = "LOST"
    /\ MoveAsset(i, "INACTIVE")
    /\ UNCHANGED <<inst, grants, docGrants, manifests>>

(* revoke_installation leaves the asset as it is.                          *)
RevokeInstallation(i) ==
    /\ Change("revoke")
    /\ inst[i] \in {"ACTIVE", "STALE"}
    /\ inst' = [inst EXCEPT ![i] = "REVOKED"]
    /\ grants' = RevokeDatasetKeyGrants(grants, {i})
    /\ docGrants' = RevokeDatasetKeyGrants(docGrants, {i})
    /\ UNCHANGED <<pubs, features, guides, asset, lease, vehicle, inService,
                   manifests, worker, outage, listed>>

(* assign_tablet_vehicle ends the open assignment and opens the next.      *)
AssignVehicle(i, v) ==
    /\ Change("assign")
    /\ asset[i] \in {"ACTIVE", "INACTIVE"}
    /\ v \in inService
    /\ vehicle' = [vehicle EXCEPT ![i] = v]
    /\ UNCHANGED <<pubs, features, guides, asset, inst, lease, inService,
                   grants, docGrants, manifests, worker, outage, listed>>

(* Mutant: the grants outlive the assignment they were made for.           *)
RetireVehicleOnly(v) ==
    /\ Change("retire")
    /\ v \in inService
    /\ inService' = inService \ {v}
    /\ vehicle' = [i \in Installations |->
                    IF vehicle[i] = v THEN None ELSE vehicle[i]]
    /\ UNCHANGED <<pubs, features, guides, asset, inst, lease, grants,
                   docGrants, manifests, worker, outage, listed>>

(* retire_vehicle ends the open assignments of the vehicle and revokes the *)
(* grants of the current installations they belong to.                     *)
RetireVehicle(v) ==
    /\ Change("retire")
    /\ v \in inService
    /\ inService' = inService \ {v}
    /\ vehicle' = [i \in Installations |->
                    IF vehicle[i] = v THEN None ELSE vehicle[i]]
    /\ LET carried == {i \in Installations :
                        vehicle[i] = v /\ inst[i] \in {"ACTIVE", "STALE"}}
       IN /\ grants' = RevokeDatasetKeyGrants(grants, carried)
          /\ docGrants' = RevokeDatasetKeyGrants(docGrants, carried)
    /\ UNCHANGED <<pubs, features, guides, asset, inst, lease, manifests,
                   worker, outage, listed>>

(* update_vehicle may set a retired vehicle active again.                  *)
ReviveVehicle(v) ==
    /\ Change("revive")
    /\ v \notin inService
    /\ inService' = inService \cup {v}
    /\ UNCHANGED <<pubs, features, guides, asset, inst, lease, vehicle,
                   grants, docGrants, manifests, worker, outage, listed>>

-----------------------------------------------------------------------------
(* At first every dataset has a current version, the tablets are in        *)
(* service or not, and nothing has been requested.                         *)
Init ==
    /\ pubs \in [Publications -> {"NEW", "PUBLISHED"}]
    /\ \A d \in Datasets : Cardinality({p \in d : pubs[p] = "PUBLISHED"}) = 1
    /\ features = Datasets
    /\ guides = FALSE
    /\ asset \in [Installations -> {"ACTIVE", "INACTIVE"}]
    /\ inst = [i \in Installations |-> "ACTIVE"]
    /\ lease = [i \in Installations |-> [until |-> 0, phase |-> "fresh"]]
    /\ vehicle \in [Installations -> Vehicles]
    /\ inService = Vehicles
    /\ grants = <<>>
    /\ docGrants = <<>>
    /\ manifests = <<>>
    /\ worker = Ready
    /\ outage = FALSE
    /\ listed = {}
    /\ changes = 0

Worker ==
    ClaimGrant \/ BuildGrant \/ ProcessGenerationGrant \/ ClaimManifest
    \/ BuildManifest

Next ==
    \/ Worker \/ Crash \/ OutageBegins \/ OutageEnds
    \/ ListOldManifests \/ DeleteListedManifests
    \/ MarkStaleInstallations \/ SetGuidesUrl
    \/ \E p \in Publications : ActivatePublication(p) \/ ObsoletePublication(p)
    \/ \E d \in Datasets : SwitchFeature(d)
    \/ \E v \in Vehicles : RetireVehicle(v) \/ ReviveVehicle(v)
    \/ \E i \in Installations :
        \/ RequestManifest(i) \/ RefreshLease(i) \/ TimePasses(i)
        \/ ActivateTablet(i) \/ DeactivateTablet(i) \/ MarkTabletLost(i)
        \/ RetireTablet(i) \/ RecoverTablet(i) \/ RevokeInstallation(i)
        \/ \E p \in DocumentPubs : RequestGenerationKeyGrant(i, p)
        \/ \E outdated \in BOOLEAN : CheckIn(i, outdated)
        \/ \E v \in Vehicles : AssignVehicle(i, v)

Spec == Init /\ [][Next]_vars

(* The worker polls for ever and is restarted when it dies; a tablet asks  *)
(* again after Retry-After; an operator ends a credential outage.          *)
Fairness ==
    /\ WF_vars(Worker)
    /\ WF_vars(OutageEnds)
    /\ WF_vars(DeleteListedManifests)
    /\ \A i \in Installations : WF_vars(RequestManifest(i))
    /\ \A i \in Installations : \A p \in DocumentPubs :
        WF_vars(RequestGenerationKeyGrant(i, p))

FairSpec == Spec /\ Fairness

-----------------------------------------------------------------------------
(* Types.                                                                  *)
TypeOK ==
    /\ pubs \in [Publications -> PubStatus]
    /\ features \subseteq Datasets
    /\ guides \in BOOLEAN
    /\ asset \in [Installations -> AssetStatus]
    /\ inst \in [Installations -> InstStatus]
    /\ lease \in [Installations -> Lease]
    /\ vehicle \in [Installations -> Vehicles \cup {None}]
    /\ inService \subseteq Vehicles
    /\ grants \in Seq(Grant)
    /\ docGrants \in Seq(Grant)
    /\ manifests = [k \in 1..Len(manifests) |-> manifests[k]]
    /\ \A k \in DOMAIN manifests : IsManifest(manifests[k])
    /\ worker.pc \in {"grant", "seal", "document", "manifest", "sign"}
    /\ worker.item \in Nat
    /\ worker.slot \in 1..BatchSize
    /\ worker.busy \in BOOLEAN
    /\ worker.deferred \subseteq Nat
    /\ outage \in BOOLEAN
    /\ listed \subseteq DOMAIN manifests
    /\ changes \in 0..MaxChanges

(* The stored grant state matches the authority decision: a grant that is  *)
(* not REVOKED belongs to a current installation of an ACTIVE asset with a *)
(* vehicle, and, file libraries apart, to the current publication.         *)
GrantsFollowAuthority ==
    \A g \in Range(grants) \cup Range(docGrants) :
        g.status # "REVOKED" =>
            /\ inst[g.inst] \in {"ACTIVE", "STALE"}
            /\ asset[g.inst] = "ACTIVE"
            /\ vehicle[g.inst] # None
            /\ g.pub \in LibraryPubs \/ pubs[g.pub] = "PUBLISHED"

(* A READY manifest describes the state it is filed under: it carries a    *)
(* wrapping for exactly the JSON publications of that state.               *)
ReadyManifestIsComplete ==
    \A k \in DOMAIN manifests :
        LET m == manifests[k] IN
        m.status = "READY" =>
            /\ DOMAIN m.payload = m.hash.datasets \cap JsonPubs
            /\ \A p \in DOMAIN m.payload : m.payload[p] # 0

Servable(i) ==
    {k \in Rows(manifests, i, CurrentState(i)) : manifests[k].status = "READY"}

(* "A formerly operational signed manifest must not be reused after the    *)
(* asset is recommissioned: its grants were intentionally invalidated": a  *)
(* manifest request_manifest would return now embeds only wrappings whose  *)
(* grants are READY.                                                       *)
ServedWrappingsAreLive ==
    \A i \in Installations : ControlPlane(i) =>
        \A k \in Servable(i) : \A p \in DOMAIN manifests[k].payload :
            \E j \in DOMAIN grants :
                /\ grants[j].inst = i /\ grants[j].pub = p
                /\ grants[j].status = "READY"
                /\ grants[j].wrap = manifests[k].payload[p]

(* Withdrawn access stays withdrawn: a REVOKED grant, or an OBSOLETE       *)
(* manifest, changes only by a new request that queues it again, never by  *)
(* the worker finishing what it had claimed before.                        *)
WithdrawnUntilRequested ==
    [][/\ \A k \in DOMAIN grants :
            grants[k].status = "REVOKED" =>
                grants'[k].status \in {"REVOKED", "PENDING"}
       /\ \A k \in DOMAIN docGrants :
            docGrants[k].status = "REVOKED" =>
                docGrants'[k].status \in {"REVOKED", "PENDING"}
       /\ \A k \in DOMAIN manifests :
            manifests[k].status = "OBSOLETE" =>
                manifests'[k].status \in {"OBSOLETE", "PENDING", "DELETED"}]_vars

(* A row left RUNNING by a worker that died: nothing claims it again.      *)
Orphaned(i) ==
    \/ \E k \in DOMAIN grants :
        /\ grants[k].inst = i /\ grants[k].status = "RUNNING"
        /\ ~(worker.pc = "seal" /\ worker.item = k)
    \/ \E k \in DOMAIN manifests :
        /\ manifests[k].inst = i /\ manifests[k].status = "RUNNING"
        /\ ~(worker.pc = "sign" /\ worker.item = k)

(* A tablet that keeps asking gets a signed manifest of its current state  *)
(* as long as it may synchronize, unless a row of it is orphaned.          *)
ManifestsArrive ==
    \A i \in Installations :
        []<>(~ControlPlane(i) \/ Servable(i) # {} \/ Orphaned(i))

(* A tablet that keeps asking for an authorized document generation gets a *)
(* key for it, whatever the worker has been through.                       *)
GenerationKeysArrive ==
    \A i \in Installations : \A p \in DocumentPubs :
        []<>(\/ ~AuthorizedGeneration(i, p)
             \/ \E g \in Range(docGrants) :
                    g.inst = i /\ g.pub = p /\ g.status = "READY")

(* A tablet that keeps asking always gets its manifest: the retry signal   *)
(* of its request needs no database repair.                                *)
RequestsNeedNoRepair ==
    \A i \in Installations : []<>(~ControlPlane(i) \/ Servable(i) # {})
=============================================================================
