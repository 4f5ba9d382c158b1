----------------------- MODULE BeegfsDriverReconciler -----------------------
(***************************************************************************)
(* The operator (operator/controllers/beegfsdriver_controller.go): one     *)
(* worker runs Reconcile for the single BeegfsDriver resource.  It reads   *)
(* from a cache that lags behind the API server and writes to the server;  *)
(* between two of its calls users, the workload controllers and the        *)
(* garbage collector change what it has read.                              *)
(*                                                                         *)
(* A resource version is only ever compared for equality: a write takes a  *)
(* version that nothing remembers.  A cache jumps to the latest state.     *)
(***************************************************************************)
EXTENDS Naturals, Sequences, FiniteSets

CONSTANTS
    Order,       \* the objects to deploy, in the order Reconcile visits them
    Specs,       \* records [config, image, level, affinity, limit]
    Initial,     \* the specs a new BeegfsDriver may have
    Unset,       \* an empty field
    Default,     \* the image and the log level of the deployment manifests
    MaxEvents    \* bound on edits by users, changes of the pods' state, failing
                 \* calls, restarts and repeated creations, together

\* Kinds, by how Reconcile treats them.
Secrets == {"connauth", "tls"}
Workloads == {"statefulSet", "daemonSet"}
ClusterScoped == {"clusterRole", "clusterRoleBinding", "csiDriver"}
Namespaced == {"serviceAccount", "role", "roleBinding"}
Versioned == {"configMap"} \cup Secrets

\* SetupWithManager: the kinds whose events queue a reconciliation.
Watched == Versioned \cup Workloads

\* The RBAC kinds whose contents are compared; the operator's own role lets
\* it update only one of them.
Compared == {"clusterRole", "clusterRoleBinding", "role", "roleBinding"}
MayUpdate == {"clusterRole"}

Objects == {Order[i] : i \in 1..Len(Order)}
Deployed == Objects \cap Workloads
Inputs == Objects \cap Versioned
Cluster == Objects \cap ClusterScoped

ASSUME OrderAssumption ==
    /\ Order \in Seq(Watched \cup ClusterScoped \cup Namespaced) /\ Order # <<>>
    /\ \A i, j \in 1..Len(Order) : Order[i] = Order[j] => i = j
    /\ \A i, j \in 1..Len(Order) :
          Order[i] \in Versioned /\ Order[j] \in Workloads => i < j

ASSUME BoundsAssumption == MaxEvents \in Nat

ASSUME SpecsAssumption == Initial \subseteq Specs

VARIABLES
    cr,       \* the BeegfsDriver on the API server
    obj,      \* the deployed objects on the API server
    seen,     \* the operator's cached BeegfsDriver
    current,  \* seen is the latest version of cr
    cache,    \* the operator's cached objects
    queued,   \* the work queue holds the BeegfsDriver's name
    rec,      \* the reconciliation in progress
    births,   \* creations of the BeegfsDriver so far
    events    \* edits, changes, failures, restarts and creations again so far

api == <<cr, obj>>
cached == <<seen, current, cache>>
vars == <<api, cached, queued, rec, births, events>>

Nobody == 0
MaxBirths == MaxEvents + 1
Owners == 0..MaxBirths
Versions == 0..10   \* one more than can be remembered, and 0 for none
Configs == {s.config : s \in Specs}
Templates == [versions : [Inputs -> Versions],
              image : {s.image : s \in Specs} \cup {Default},
              level : {s.level : s \in Specs} \cup {Default},
              affinity : {s.affinity : s \in Specs} \cup {Unset},
              limit : {s.limit : s \in Specs} \cup {Unset}]
PodReasons == {"PodsNotScheduled", "PodsNotReady", "PodsReady"}
Reasons == PodReasons \cup {"ServiceNotCreated", "none"}

Absent == [absent |-> TRUE]
ConfigMaps == [owner : Owners, version : Versions, config : Configs]
SecretObjects == [owner : Owners, version : Versions]
PlainObjects == [owner : Owners, edited : BOOLEAN]
WorkloadObjects == [owner : Owners, pods : PodReasons, template : Templates]
ObjectsOf(k) ==
    {Absent} \cup (CASE k = "configMap" -> ConfigMaps
                     [] k \in Secrets -> SecretObjects
                     [] k \in Workloads -> WorkloadObjects
                     [] OTHER -> PlainObjects)

NoDriver == [uid |-> Nobody]
Drivers == [uid : 1..MaxBirths, spec : Specs, deleting : BOOLEAN,
            finalizer : BOOLEAN, status : [Deployed -> Reasons]]

Idle == [pc |-> "idle", fresh |-> FALSE]
Reconciliations ==
    [pc : {"status", "finalizer", "delete", "unfinalize", "deploy"},
     i : 1..Len(Order), driver : Drivers, fresh : BOOLEAN,
     read : [Deployed -> {Absent} \cup WorkloadObjects],
     versions : [Inputs -> Versions]]

\* Every variable stays within its values.
TypeOK ==
    /\ cr \in Drivers \cup {NoDriver} /\ seen \in Drivers \cup {NoDriver}
    /\ \A k \in Objects : obj[k] \in ObjectsOf(k) /\ cache[k] \in ObjectsOf(k)
    /\ DOMAIN obj = Objects /\ DOMAIN cache = Objects
    /\ current \in BOOLEAN /\ queued \in BOOLEAN
    /\ rec \in Reconciliations \cup {Idle}
    /\ births \in 0..MaxBirths /\ events \in 0..MaxEvents

Init ==
    /\ cr = NoDriver /\ seen = NoDriver /\ current = TRUE
    /\ obj = [k \in Objects |-> Absent] /\ cache = obj
    /\ queued = FALSE /\ rec = Idle
    /\ births = 0 /\ events = 0
-----------------------------------------------------------------------------
(***************************************************************************)
(* Calls.                                                                  *)
(***************************************************************************)
Exists(o) == o # Absent

\* The versions of input k that something still remembers.
Remembered(k) ==
    {o.version : o \in {obj[k], cache[k]} \ {Absent}}
      \cup {o.template.versions[k] : o \in UNION {{obj[w], cache[w]} : w \in Deployed} \ {Absent}}
      \cup (IF rec = Idle THEN {} ELSE {rec.versions[k]} \cup
              {o.template.versions[k] : o \in {rec.read[w] : w \in Deployed} \ {Absent}})

NewVersion(k) == CHOOSE n \in 1..10 : n \notin Remembered(k)

\* Reconcile returns: without an error, or with one and is queued again.
Done == rec' = Idle /\ UNCHANGED queued
Error == rec' = Idle /\ queued' = TRUE

Event == events < MaxEvents /\ events' = events + 1

\* After a call the server has carried out: the answer arrives or is lost.
Then(next) ==
    \/ rec' = next /\ UNCHANGED <<queued, events>>
    \/ Event /\ Error

\* Mutant of Forward: the end is not noticed.
ForwardPastEnd(r) == [r EXCEPT !.i = r.i + 1]

\* The reconciliation after the object it is at.
Forward(r) == IF r.i = Len(Order) THEN Idle ELSE [r EXCEPT !.i = r.i + 1]

\* Create and Update of an object: rejected if it exists, or does not.
Put(k, accepted, o, next) ==
    /\ IF accepted
       THEN obj' = [obj EXCEPT ![k] = o] /\ Then(next)
       ELSE Error /\ UNCHANGED <<obj, events>>
    /\ UNCHANGED cr

\* Update of the BeegfsDriver: rejected unless the copy is the latest.
PutDriver(d, next) ==
    /\ IF rec.fresh
       THEN cr' = d /\ current' = FALSE /\ Then(next)
       ELSE Error /\ UNCHANGED <<cr, current, events>>
    /\ UNCHANGED <<obj, seen, cache>>
-----------------------------------------------------------------------------
(***************************************************************************)
(* Reconcile.                                                              *)
(***************************************************************************)
\* The worker takes the name from the queue and gets the BeegfsDriver.
Begin ==
    /\ rec = Idle /\ queued
    /\ queued' = FALSE
    /\ rec' = IF seen = NoDriver THEN Idle
              ELSE [pc |-> "status", i |-> 1, driver |-> seen, fresh |-> current,
                    read |-> [w \in Deployed |-> Absent],
                    versions |-> [k \in Inputs |-> 0]]
    /\ UNCHANGED <<api, cached, births, events>>

Reason(o) == IF Exists(o) THEN o.pods ELSE "ServiceNotCreated"

\* The conditions, from the workloads read now, and Status().Update.
UpdateStatus ==
    /\ rec.pc = "status"
    /\ LET read == [w \in Deployed |-> cache[w]]
           status == [w \in Deployed |-> Reason(read[w])]
           next == [rec EXCEPT !.pc = "finalizer", !.read = read,
                               !.driver.status = status]
       IN  IF status = rec.driver.status
           THEN rec' = next /\ UNCHANGED <<api, cached, queued, events>>
           ELSE PutDriver([cr EXCEPT !.status = status], next)
    /\ UNCHANGED births

\* The finalizer is added before anything is deployed.
AddFinalizer ==
    /\ rec.pc = "finalizer" /\ ~rec.driver.deleting
    /\ LET next == [rec EXCEPT !.pc = "deploy", !.driver.finalizer = TRUE]
       IN  IF rec.driver.finalizer
           THEN rec' = next /\ UNCHANGED <<api, cached, queued, events>>
           ELSE PutDriver([cr EXCEPT !.finalizer = TRUE], next)
    /\ UNCHANGED births

\* Mutant of BeginDeletion: the finalizer is removed first.
BeginDeletionLast ==
    /\ rec.pc = "finalizer" /\ rec.driver.deleting
    /\ IF rec.driver.finalizer
       THEN rec' = [rec EXCEPT !.pc = "unfinalize"] /\ UNCHANGED queued
       ELSE Done
    /\ UNCHANGED <<api, cached, births, events>>

BeginDeletion ==
    /\ rec.pc = "finalizer" /\ rec.driver.deleting
    /\ IF rec.driver.finalizer
       THEN rec' = [rec EXCEPT !.pc = "delete"] /\ UNCHANGED queued
       ELSE Done
    /\ UNCHANGED <<api, cached, births, events>>

\* Cluster-scoped objects are deleted one by one; a missing one is no error.
DeleteObject ==
    /\ rec.pc = "delete"
    /\ LET k == Order[rec.i]
           next == IF rec.i = Len(Order) THEN [rec EXCEPT !.pc = "unfinalize"]
                   ELSE [rec EXCEPT !.i = rec.i + 1]
       IN  IF k \in ClusterScoped
           THEN Put(k, TRUE, Absent, next)
           ELSE rec' = next /\ UNCHANGED <<api, queued, events>>
    /\ UNCHANGED <<cached, births>>

\* Without a finalizer a BeegfsDriver that is being deleted is gone.
RemoveFinalizer ==
    /\ rec.pc = "unfinalize"
    /\ PutDriver(NoDriver, Idle)
    /\ UNCHANGED births

Deploying(k) == rec.pc = "deploy" /\ Order[rec.i] = k

\* The object on the server will do.
Keep(next) == rec' = next /\ UNCHANGED <<api, queued, events>>

\* Mutant of Owner: no owner reference is set.
OwnerForgotten(k) == Nobody

\* The owner reference of an object that the BeegfsDriver may own.
Owner(k) == IF k \in ClusterScoped THEN Nobody ELSE rec.driver.uid

\* A write that changes nothing leaves the version as it is.
DeployConfigMap ==
    LET k == "configMap"
        config == rec.driver.spec.config
        same == Exists(obj[k]) /\ obj[k].owner = Owner(k) /\ obj[k].config = config
        version == IF same THEN obj[k].version ELSE NewVersion(k)
        o == [owner |-> Owner(k), version |-> version, config |-> config]
        next(v) == Forward([rec EXCEPT !.versions[k] = v])
    IN  /\ Deploying(k)
        /\ IF ~Exists(cache[k]) THEN Put(k, ~Exists(obj[k]), o, next(version))
           ELSE IF cache[k].config # config THEN Put(k, Exists(obj[k]), o, next(version))
           ELSE Keep(next(cache[k].version))
        /\ UNCHANGED <<cached, births>>

\* A Secret is created empty and never updated.
DeploySecret(k) ==
    LET o == [owner |-> Owner(k), version |-> NewVersion(k)]
        next(v) == Forward([rec EXCEPT !.versions[k] = v])
    IN  /\ Deploying(k)
        /\ IF Exists(cache[k]) THEN Keep(next(cache[k].version))
           ELSE Put(k, ~Exists(obj[k]), o, next(o.version))
        /\ UNCHANGED <<cached, births>>

\* RBAC objects and the CSIDriver.
DeployPlain(k) ==
    LET o == [owner |-> Owner(k), edited |-> FALSE]
    IN  /\ Deploying(k)
        /\ IF ~Exists(cache[k]) THEN Put(k, ~Exists(obj[k]), o, Forward(rec))
           ELSE IF cache[k].edited /\ k \in Compared
           THEN Put(k, Exists(obj[k]) /\ k \in MayUpdate, o, Forward(rec))
           ELSE Keep(Forward(rec))
        /\ UNCHANGED <<cached, births>>
-----------------------------------------------------------------------------
(***************************************************************************)
(* The StatefulSet and the DaemonSet.                                      *)
(***************************************************************************)
\* The pod template of the deployment manifests.
Manifest == [versions |-> [k \in Inputs |-> 0], image |-> Default,
             level |-> Default, affinity |-> Unset, limit |-> Unset]

setResourceVersionAnnotations(t, versions) == [t EXCEPT !.versions = versions]

setImages(t, spec) ==
    IF spec.image = Unset THEN t ELSE [t EXCEPT !.image = spec.image]

setLogLevel(t, spec) ==
    IF spec.level = Unset THEN t ELSE [t EXCEPT !.level = spec.level]

setNodeAffinity(t, spec) == [t EXCEPT !.affinity = spec.affinity]

\* setControllerResources and setNodeResources.
setResources(t, spec) ==
    IF spec.limit = Unset THEN t ELSE [t EXCEPT !.limit = spec.limit]

Template(versions, spec) ==
    LET t == setImages(setResourceVersionAnnotations(Manifest, versions), spec)
    IN  setResources(setNodeAffinity(setLogLevel(t, spec), spec), spec)

\* Semantic.DeepDerivative: what is empty in the first is not compared.
DeepDerivative(t, u) ==
    /\ t.versions = u.versions /\ t.image = u.image /\ t.level = u.level
    /\ t.affinity \in {Unset, u.affinity} /\ t.limit \in {Unset, u.limit}

\* Mutant of DeployWorkload: versions are not compared.
DeployWorkloadOnce(w) ==
    LET t == Template(rec.versions, rec.driver.spec)
        pods == IF Exists(obj[w]) THEN obj[w].pods ELSE "PodsNotScheduled"
        o == [owner |-> Owner(w), pods |-> pods, template |-> t]
    IN  /\ Deploying(w)
        /\ IF rec.driver.status[w] = "ServiceNotCreated"
           THEN Put(w, ~Exists(obj[w]), o, Forward(rec))
           ELSE IF t.image # rec.read[w].template.image
           THEN Put(w, Exists(obj[w]), o, Forward(rec))
           ELSE Keep(Forward(rec))
        /\ UNCHANGED <<cached, births>>

\* The workload compared is the one read for the status.
DeployWorkload(w) ==
    LET t == Template(rec.versions, rec.driver.spec)
        pods == IF Exists(obj[w]) THEN obj[w].pods ELSE "PodsNotScheduled"
        o == [owner |-> Owner(w), pods |-> pods, template |-> t]
    IN  /\ Deploying(w)
        /\ IF rec.driver.status[w] = "ServiceNotCreated"
           THEN Put(w, ~Exists(obj[w]), o, Forward(rec))
           ELSE IF ~DeepDerivative(t, rec.read[w].template)
           THEN Put(w, Exists(obj[w]), o, Forward(rec))
           ELSE Keep(Forward(rec))
        /\ UNCHANGED <<cached, births>>

\* A call of Reconcile returns an error.
CallFails ==
    /\ rec # Idle /\ Event /\ Error
    /\ UNCHANGED <<api, cached, births>>

Reconcile ==
    \/ Begin \/ UpdateStatus \/ AddFinalizer
    \/ BeginDeletion \/ DeleteObject \/ RemoveFinalizer
    \/ DeployConfigMap
    \/ \E k \in Objects \cap Secrets : DeploySecret(k)
    \/ \E k \in Objects \cap (Namespaced \cup ClusterScoped) : DeployPlain(k)
    \/ \E w \in Deployed : DeployWorkload(w)
-----------------------------------------------------------------------------
(***************************************************************************)
(* The cache, its events and the work queue.                               *)
(***************************************************************************)
Owned(o) == Exists(o) /\ o.owner # Nobody

\* Mutant of SyncObject: the events of Secrets are not watched.
SyncObjectWithoutSecrets(k) ==
    /\ cache[k] # obj[k]
    /\ cache' = [cache EXCEPT ![k] = obj[k]]
    /\ queued' = (queued \/ /\ k \in Watched \ Secrets
                            /\ Owned(cache[k]) \/ Owned(obj[k]))
    /\ UNCHANGED <<api, seen, current, rec, births, events>>

\* Owns: an event of an object queues the BeegfsDriver that owns it.
SyncObject(k) ==
    /\ cache[k] # obj[k]
    /\ cache' = [cache EXCEPT ![k] = obj[k]]
    /\ queued' = (queued \/ /\ k \in Watched
                            /\ Owned(cache[k]) \/ Owned(obj[k]))
    /\ UNCHANGED <<api, seen, current, rec, births, events>>

SyncDriver ==
    /\ ~current
    /\ seen' = cr /\ current' = TRUE /\ queued' = TRUE
    /\ UNCHANGED <<api, cache, rec, births, events>>

\* The manager's periodic resynchronisation.
Resync ==
    /\ seen # NoDriver /\ ~queued
    /\ queued' = TRUE
    /\ UNCHANGED <<api, cached, rec, births, events>>

\* The operator restarts, lists everything and queues what it finds.
Crash ==
    /\ Event
    /\ rec' = Idle
    /\ seen' = cr /\ current' = TRUE /\ cache' = obj
    /\ queued' = (cr # NoDriver \/ \E k \in Objects \cap Watched : Owned(obj[k]))
    /\ UNCHANGED <<api, births>>
-----------------------------------------------------------------------------
(***************************************************************************)
(* Users and the cluster.                                                  *)
(***************************************************************************)
WriteDriver(d) ==
    /\ cr' = d /\ current' = FALSE /\ rec' = [rec EXCEPT !.fresh = FALSE]
    /\ UNCHANGED <<obj, seen, cache, queued>>

CreateDriver(s) ==
    /\ cr = NoDriver
    /\ IF births = 0 THEN UNCHANGED events ELSE Event
    /\ births' = births + 1
    /\ WriteDriver([uid |-> births + 1, spec |-> s, deleting |-> FALSE,
                    finalizer |-> FALSE, status |-> [w \in Deployed |-> "none"]])

EditDriver(s) ==
    /\ cr # NoDriver /\ cr.spec # s /\ Event
    /\ WriteDriver([cr EXCEPT !.spec = s])
    /\ UNCHANGED births

DeleteDriver ==
    /\ cr # NoDriver /\ ~cr.deleting
    /\ WriteDriver(IF cr.finalizer THEN [cr EXCEPT !.deleting = TRUE] ELSE NoDriver)
    /\ UNCHANGED <<births, events>>

WriteObject(k, o) ==
    /\ obj' = [obj EXCEPT ![k] = o]
    /\ UNCHANGED <<cr, cached, queued, rec, births>>

\* An administrator creates a Secret before the operator does, or changes it.
EditSecret(k) ==
    /\ Event
    /\ WriteObject(k, [owner |-> IF Exists(obj[k]) THEN obj[k].owner ELSE Nobody,
                       version |-> NewVersion(k)])

EditConfigMap(config) ==
    LET k == "configMap" IN
    /\ Event /\ Exists(obj[k]) /\ obj[k].config # config
    /\ WriteObject(k, [obj[k] EXCEPT !.config = config, !.version = NewVersion(k)])

EditRules(k) ==
    /\ Event /\ Exists(obj[k]) /\ ~obj[k].edited
    /\ WriteObject(k, [obj[k] EXCEPT !.edited = TRUE])

PodsChange(w, reason) ==
    /\ Event /\ Exists(obj[w]) /\ obj[w].pods # reason
    /\ WriteObject(w, [obj[w] EXCEPT !.pods = reason])

\* The owner no longer exists.
Garbage(k) == Owned(obj[k]) /\ obj[k].owner # cr.uid

CollectGarbage(k) ==
    /\ Garbage(k)
    /\ WriteObject(k, Absent)
    /\ UNCHANGED events

User ==
    \/ \E s \in Initial : CreateDriver(s)
    \/ \E s \in Specs : EditDriver(s)
    \/ DeleteDriver
    \/ \E k \in Objects \cap Secrets : EditSecret(k)
    \/ "configMap" \in Objects /\ \E c \in Configs : EditConfigMap(c)
    \/ \E k \in Objects \cap MayUpdate : EditRules(k)
    \/ \E w \in Deployed, reason \in PodReasons : PodsChange(w, reason)

Next ==
    \/ Reconcile \/ CallFails \/ SyncDriver \/ Resync \/ Crash \/ User
    \/ \E k \in Objects : SyncObject(k) \/ CollectGarbage(k)

Spec == Init /\ [][Next]_vars

\* The worker, the watches, the resynchronisation and the garbage collector
\* keep running; users, pods, failures and restarts need not.
Fairness ==
    /\ WF_vars(Reconcile) /\ WF_vars(SyncDriver) /\ WF_vars(Resync)
    /\ \A k \in Objects : WF_vars(SyncObject(k)) /\ WF_vars(CollectGarbage(k))

FairSpec == Spec /\ Fairness
-----------------------------------------------------------------------------
(***************************************************************************)
(* Properties.                                                             *)
(***************************************************************************)
\* Cluster-scoped objects, which nothing collects, exist only while the
\* BeegfsDriver carries the finalizer: it is stored before the first of them
\* is created and removed after the last is deleted, whatever copy of the
\* BeegfsDriver the reconciliation works on and wherever it fails.
ClusterObjectsHaveFinalizer ==
    (\E k \in Cluster : Exists(obj[k])) => cr # NoDriver /\ cr.finalizer

\* The configuration the pods run with is the one the BeegfsDriver asks for; an
\* affinity or a limit it no longer mentions may stay.
WorkloadIsAsSpecified(w) ==
    /\ Exists(obj[w])
    /\ \A k \in Inputs : obj[w].template.versions[k] = obj[k].version
    /\ obj[w].template.image = (IF cr.spec.image = Unset THEN Default ELSE cr.spec.image)
    /\ obj[w].template.level = (IF cr.spec.level = Unset THEN Default ELSE cr.spec.level)
    /\ cr.spec.affinity # Unset => obj[w].template.affinity = cr.spec.affinity
    /\ cr.spec.limit # Unset => obj[w].template.limit = cr.spec.limit
    /\ cr.status[w] = obj[w].pods

InputsAreAsSpecified ==
    /\ \A k \in Inputs : Exists(obj[k])
    /\ "configMap" \in Inputs => obj["configMap"].config = cr.spec.config

Installed == cr # NoDriver /\ ~cr.deleting

Quiet == rec = Idle /\ ~queued /\ current /\ cache = obj

\* The watches suffice: when nothing is queued and every event has been seen,
\* the watched objects and the status are as the BeegfsDriver asks, except
\* that a Secret created by an administrator is not watched.
QuietIsDeployed ==
    Quiet /\ Installed =>
        /\ InputsAreAsSpecified
        /\ (\A k \in Inputs : Owned(obj[k])) =>
               \A w \in Deployed : WorkloadIsAsSpecified(w)

IsDeployed ==
    /\ Installed /\ \A k \in Objects : Exists(obj[k])
    /\ InputsAreAsSpecified /\ \A w \in Deployed : WorkloadIsAsSpecified(w)

\* A BeegfsDriver that stays is deployed in the end, every object of it.
EventuallyDeployed == Installed ~> (~Installed \/ IsDeployed)

\* After the deletion of a BeegfsDriver nothing remains of what it deployed,
\* unless a new one has been created.
EventuallyUninstalled ==
    \A u \in 1..MaxBirths :
        (cr.uid = u /\ ~Installed) ~>
            \/ births > u
            \/ cr = NoDriver /\ \A k \in Objects : Exists(obj[k]) =>
                                     k \in Secrets /\ ~Owned(obj[k])
=============================================================================
