-------------------- MODULE BeegfsDriverReconcilerProofs --------------------
(***************************************************************************)
(* The operator, for every list of objects, every set of specs and any     *)
(* number of edits, failing calls and restarts.                            *)
(*                                                                         *)
(* Reconcile works on copies.  The inductive invariant says what a copy    *)
(* still tells about the BeegfsDriver on the server (Copies, Finalized),   *)
(* and, for a reconciliation that no event is going to repeat, that what   *)
(* it has passed is as it should be in the operator's cache or differs     *)
(* from the server there, so that an event is still to come (Settled).     *)
(***************************************************************************)
EXTENDS BeegfsDriverReconciler, TLAPS

Running == rec # Idle

\* What the operator remembers of the BeegfsDriver.
Copies ==
    /\ current => seen = cr
    /\ Running =>
          /\ rec.fresh => rec.driver = cr
          /\ rec.fresh \/ queued \/ ~current
          /\ rec.pc \in {"status", "finalizer"} => rec.i = 1
          /\ rec.pc \in {"delete", "unfinalize"} => rec.driver.deleting
          /\ rec.fresh /\ rec.driver.deleting => seen # NoDriver /\ seen.deleting
          /\ rec.pc = "deploy" => rec.driver.finalizer /\ ~rec.driver.deleting
          /\ rec.pc # "status" =>
                \A w \in Deployed : rec.driver.status[w] = Reason(rec.read[w])

\* A copy from which Reconcile deploys without storing the finalizer.
MayDeploy(d) == d # NoDriver /\ d.finalizer /\ ~d.deleting

Finalized ==
    /\ ClusterObjectsHaveFinalizer
    /\ MayDeploy(seen) \/ (Running /\ MayDeploy(rec.driver)) =>
          cr # NoDriver /\ cr.finalizer
    /\ Running /\ rec.pc = "delete" =>
          \A j \in 1..(rec.i - 1) : Order[j] \in Cluster => ~Exists(obj[Order[j]])
    /\ Running /\ rec.pc = "unfinalize" => \A k \in Cluster : ~Exists(obj[k])

\* Only a Secret may be without an owner, and then it stays.
OwnersKept ==
    \A k \in Inputs \cup Deployed :
        /\ k \notin Secrets /\ Exists(obj[k]) => Owned(obj[k])
        /\ Exists(cache[k]) /\ ~Owned(cache[k]) => Exists(obj[k]) /\ ~Owned(obj[k])

\* No event is going to queue the BeegfsDriver for what the operator has seen.
Calm == ~queued /\ current

\* What is missing in the cache is on the server and is not garbage.
Arriving(k) == Exists(cache[k]) \/ (Exists(obj[k]) /\ obj[k].owner = cr.uid)

InputDone(k) ==
    /\ Arriving(k)
    /\ k = "configMap" /\ cache[k] = obj[k] => obj[k].config = cr.spec.config

\* v is the version of input k, unless an event is to come or k is not watched.
IsVersion(k, v) == Owned(obj[k]) /\ cache[k] = obj[k] => v = obj[k].version

Fits(t) ==
    /\ \A k \in Inputs : IsVersion(k, t.versions[k])
    /\ t.image = (IF cr.spec.image = Unset THEN Default ELSE cr.spec.image)
    /\ t.level = (IF cr.spec.level = Unset THEN Default ELSE cr.spec.level)
    /\ cr.spec.affinity # Unset => t.affinity = cr.spec.affinity
    /\ cr.spec.limit # Unset => t.limit = cr.spec.limit

WorkloadDone(w) ==
    /\ Arriving(w)
    /\ Exists(cache[w]) /\ Exists(obj[w]) /\ cache[w].template = obj[w].template =>
          Fits(obj[w].template)

StatusDone == \A w \in Deployed : cr.status[w] = Reason(cache[w])

Passed == {Order[j] : j \in 1..(rec.i - 1)}

Settled ==
    Calm =>
      /\ Running =>
           /\ rec.pc # "status" =>
                 StatusDone /\ \A w \in Deployed : rec.read[w] = cache[w]
           /\ rec.pc = "deploy" =>
                 /\ \A k \in Inputs \cap Passed :
                       InputDone(k) /\ IsVersion(k, rec.versions[k])
                 /\ \A w \in Deployed \cap Passed : WorkloadDone(w)
      /\ ~Running /\ Installed =>
           /\ StatusDone
           /\ \A k \in Inputs : InputDone(k)
           /\ \A w \in Deployed : WorkloadDone(w)

Shaped ==
    /\ cr \in Drivers \cup {NoDriver} /\ seen \in Drivers \cup {NoDriver}
    /\ \A k \in Objects : obj[k] \in ObjectsOf(k) /\ cache[k] \in ObjectsOf(k)
    /\ DOMAIN obj = Objects /\ DOMAIN cache = Objects
    /\ current \in BOOLEAN /\ queued \in BOOLEAN
    /\ rec \in Reconciliations \cup {Idle}

\* A BeegfsDriver is created again only by an event.
Counted ==
    /\ births \in 0..MaxBirths /\ events \in 0..MaxEvents
    /\ births <= events + 1

OperatorInv == Shaped /\ Counted /\ Copies /\ Finalized /\ OwnersKept /\ Settled
-----------------------------------------------------------------------------
(***************************************************************************)
(* Values.                                                                 *)
(***************************************************************************)
\* What an object on the server may be, by its kind.
LEMMA Kinds ==
    /\ ObjectsOf("configMap") = {Absent} \cup ConfigMaps
    /\ \A k \in Secrets : ObjectsOf(k) = {Absent} \cup SecretObjects
    /\ \A k \in Workloads : ObjectsOf(k) = {Absent} \cup WorkloadObjects
    /\ \A k \in Namespaced \cup ClusterScoped :
          ObjectsOf(k) = {Absent} \cup PlainObjects
BY DEF ObjectsOf, Workloads, Secrets, Namespaced, ClusterScoped

\* The value that stands for nothing is none of the values.
LEMMA NothingIsApart ==
    /\ Absent \notin ConfigMaps \cup SecretObjects \cup WorkloadObjects \cup PlainObjects
    /\ NoDriver \notin Drivers
    /\ Idle \notin Reconciliations
<1>1. Absent \notin ConfigMaps
  BY DEF Absent, ConfigMaps
<1>2. Absent \notin SecretObjects
  BY DEF Absent, SecretObjects
<1>3. Absent \notin WorkloadObjects
  BY DEF Absent, WorkloadObjects
<1>4. Absent \notin PlainObjects
  BY DEF Absent, PlainObjects
<1>5. NoDriver \notin Drivers
  BY BoundsAssumption DEF Drivers, NoDriver, Nobody
<1>6. Idle \notin Reconciliations
  BY DEF Reconciliations, Idle
<1>. QED
  BY <1>1, <1>2, <1>3, <1>4, <1>5, <1>6, Zenon

\* The kinds of the objects to deploy are apart, and the inputs come first.
LEMMA OrderOfObjects ==
    /\ Len(Order) \in Nat \ {0}
    /\ \A i \in 1..Len(Order) : Order[i] \in Objects
    /\ \A k \in Objects : \E i \in 1..Len(Order) : k = Order[i]
    /\ \A i, j \in 1..Len(Order) : Order[i] = Order[j] => i = j
    /\ \A i, j \in 1..Len(Order) :
          Order[i] \in Inputs /\ Order[j] \in Deployed => i < j
    /\ Objects \subseteq Versioned \cup Workloads \cup ClusterScoped \cup Namespaced
<1>1. Len(Order) \in Nat \ {0}
  BY OrderAssumption
<1>. QED
  BY <1>1, OrderAssumption DEF Objects, Inputs, Deployed, Watched

LEMMA PlacesUpTo ==
    ASSUME NEW n \in Nat, NEW i \in 1..n
    PROVE  /\ \A j \in 1..(i - 1) : j \in 1..i
           /\ \A j \in 1..i : j \in 1..(i - 1) \/ j = i
           /\ i \in 1..i /\ (i + 1) - 1 = i
OBVIOUS

\* A reconciliation in progress has its fields.
LEMMA RecTyped ==
    ASSUME Shaped, Running
    PROVE  /\ rec \in Reconciliations
           /\ rec.pc \in {"status", "finalizer", "delete", "unfinalize", "deploy"}
           /\ rec.i \in 1..Len(Order) /\ rec.driver \in Drivers
           /\ rec.fresh \in BOOLEAN
           /\ rec.read \in [Deployed -> {Absent} \cup WorkloadObjects]
           /\ rec.versions \in [Inputs -> Versions]
<1>1. rec \in Reconciliations
  BY DEF Shaped, Running
<1>. QED
  BY <1>1 DEF Reconciliations

\* Only a reconciliation in progress is at one of Reconcile's calls.
LEMMA AtCall ==
    ASSUME rec.pc # "idle"
    PROVE  Running
BY DEF Running, Idle

\* Nine values leave one of ten versions.
LEMMA NineOfTen ==
    ASSUME NEW a, NEW b, NEW c, NEW d, NEW e, NEW f, NEW g, NEW h, NEW i
    PROVE  \E n \in 1..10 : n \notin {a, b, c, d, e, f, g, h, i}
<1>. DEFINE S == {a, b, c, d, e, f, g, h, i}
<1>. SUFFICES ASSUME \A n \in 1..10 : n \in S
              PROVE  FALSE
  OBVIOUS
<1>1. 1 \in S /\ 2 \in S /\ 3 \in S /\ 4 \in S /\ 5 \in S
  OBVIOUS
<1>2. 6 \in S /\ 7 \in S /\ 8 \in S /\ 9 \in S /\ 10 \in S
  OBVIOUS
<1>. QED
  BY <1>1, <1>2, SMTT(60)

\* A write of an input finds a version that nothing remembers.
LEMMA NewVersions ==
    ASSUME Shaped, NEW k \in Inputs
    PROVE  /\ NewVersion(k) \in Versions
           /\ Exists(obj[k]) => NewVersion(k) # obj[k].version
           /\ Exists(cache[k]) => NewVersion(k) # cache[k].version
<1>. DEFINE V(o) == o.template.versions[k]
            s == "statefulSet"
            d == "daemonSet"
            Known == {obj[k].version, cache[k].version, rec.versions[k],
                      V(obj[s]), V(cache[s]), V(rec.read[s]),
                      V(obj[d]), V(cache[d]), V(rec.read[d])}
<1>1. ASSUME NEW v \in Remembered(k) PROVE v \in Known
  <2>1. CASE v \in {o.version : o \in {obj[k], cache[k]} \ {Absent}}
    BY <2>1, Zenon
  <2>2. CASE \E w \in Deployed : \E o \in {obj[w], cache[w], rec.read[w]} : v = V(o)
    BY <2>2, Zenon DEF Deployed, Workloads
  <2>3. CASE v = rec.versions[k]
    BY <2>3, Zenon
  <2>4. CASE v \in {V(o) : o \in UNION {{obj[w], cache[w]} : w \in Deployed} \ {Absent}}
    BY <2>2, <2>4
  <2>5. CASE v \in {V(o) : o \in {rec.read[w] : w \in Deployed} \ {Absent}}
    BY <2>2, <2>5
  <2>. QED
    BY <1>1, <2>1, <2>3, <2>4, <2>5 DEF Remembered
<1>2. \E n \in 1..10 : n \notin Known
  BY NineOfTen, Zenon
<1>. HIDE DEF Known
<1>3. NewVersion(k) \in 1..10 /\ NewVersion(k) \notin Remembered(k)
  BY <1>1, <1>2, Zenon DEF NewVersion
<1>4. /\ Exists(obj[k]) => obj[k].version \in Remembered(k)
      /\ Exists(cache[k]) => cache[k].version \in Remembered(k)
  BY Zenon DEF Remembered, Exists
<1>. QED
  BY <1>3, <1>4 DEF Versions

\* Forward ends after the last object and changes nothing else.
LEMMA ForwardMoves ==
    ASSUME NEW r \in Reconciliations
    PROVE  \/ r.i = Len(Order) /\ Forward(r) = Idle
           \/ /\ r.i < Len(Order) /\ Forward(r) \in Reconciliations
              /\ Forward(r).i = r.i + 1 /\ Forward(r).pc = r.pc
              /\ Forward(r).driver = r.driver /\ Forward(r).fresh = r.fresh
              /\ Forward(r).read = r.read /\ Forward(r).versions = r.versions
<1>1. CASE r.i = Len(Order)
  BY <1>1 DEF Forward
<1>2. CASE r.i # Len(Order)
  <2>1. r.i \in 1..Len(Order) /\ r.i + 1 \in 1..Len(Order)
    BY <1>2, OrderOfObjects DEF Reconciliations
  <2>. QED
    BY <1>2, <2>1 DEF Forward, Reconciliations
<1>. QED
  BY <1>1, <1>2

\* Writing an object of the right kind.
LEMMA ObjectWritten ==
    ASSUME Shaped, NEW k \in Objects, NEW o \in ObjectsOf(k),
           obj' = [obj EXCEPT ![k] = o]
    PROVE  /\ DOMAIN obj' = Objects /\ \A j \in Objects : obj'[j] \in ObjectsOf(j)
           /\ obj'[k] = o /\ \A j \in Objects \ {k} : obj'[j] = obj[j]
BY DEF Shaped

\* A reconciliation ends with an error and has changed nothing.
LEMMA ErrorStep ==
    ASSUME OperatorInv, Error, UNCHANGED <<api, cached, births>>,
           UNCHANGED events \/ Event
    PROVE  OperatorInv'
<1>. USE DEF OperatorInv, Error, api, cached
<1>1. Shaped' /\ Counted'
  <2>1. Shaped'
    BY Zenon DEF Shaped
  <2>2. Counted'
    BY BoundsAssumption DEF Counted, Event, MaxBirths
  <2>. QED
    BY <2>1, <2>2
<1>2. ~Running'
  BY DEF Running
<1>3. Copies'
  BY <1>2 DEF Copies
<1>4. Finalized'
  BY <1>2, Zenon DEF Finalized, ClusterObjectsHaveFinalizer, MayDeploy, Exists
<1>5. OwnersKept'
  BY Zenon DEF OwnersKept, Exists, Owned
<1>6. Settled'
  BY DEF Settled, Calm
<1>. QED
  BY <1>1, <1>3, <1>4, <1>5, <1>6

\* What Settled says of an object, when the object or its copy changes.
StaysDone(k) ==
    /\ k \in Inputs =>
          /\ InputDone(k) => InputDone(k)'
          /\ \A v : IsVersion(k, v) => IsVersion(k, v)'
    /\ k \in Deployed =>
          /\ cache'[k] = cache[k] /\ (Arriving(k) => Arriving(k)')
          /\ Exists(obj[k])' => Exists(obj[k]) /\ obj'[k].template = obj[k].template

\* A template keeps fitting, and a workload stays done.
LEMMA WorkloadStays ==
    ASSUME UNCHANGED cr, \A k \in Inputs \cup Deployed : StaysDone(k)
    PROVE  /\ \A t : Fits(t) => Fits(t)'
           /\ \A w \in Deployed : WorkloadDone(w) => WorkloadDone(w)'
<1>1. ASSUME NEW t, Fits(t) PROVE Fits(t)'
  BY <1>1, Zenon DEF Fits, StaysDone
<1>2. ASSUME NEW w \in Deployed, WorkloadDone(w) PROVE WorkloadDone(w)'
  BY <1>1, <1>2, Zenon DEF WorkloadDone, StaysDone, Exists
<1>. QED
  BY <1>1, <1>2, Zenon

\* Settled is kept by a step outside Reconcile after which every object that
\* was done is done.
LEMMA SettledFrame ==
    ASSUME Settled, UNCHANGED <<cr, rec>>, Calm' => Calm,
           Calm' => \A k \in Inputs \cup Deployed : StaysDone(k)
    PROVE  Settled'
<1>. SUFFICES ASSUME Calm' PROVE Settled'
  BY Zenon DEF Settled
<1>1. /\ \A t : Fits(t) => Fits(t)'
      /\ \A w \in Deployed : WorkloadDone(w) => WorkloadDone(w)'
  BY WorkloadStays, Zenon
<1>2. /\ \A k \in Inputs : InputDone(k) => InputDone(k)'
      /\ \A k \in Inputs : \A v : IsVersion(k, v) => IsVersion(k, v)'
      /\ \A w \in Deployed : cache'[w] = cache[w]
  BY Zenon DEF StaysDone
<1>3. /\ Running' <=> Running
      /\ Installed' <=> Installed
      /\ Passed' = Passed
      /\ StatusDone => StatusDone'
  BY <1>2, Zenon DEF Running, Installed, Passed, StatusDone, Reason, Exists
<1>. QED
  BY <1>1, <1>2, <1>3, Zenon DEF Settled

LEMMA SyncDriverStep ==
    ASSUME OperatorInv, SyncDriver
    PROVE  OperatorInv'
<1>. USE DEF OperatorInv, SyncDriver, api
<1>1. Shaped' /\ Counted'
  BY Zenon DEF Shaped, Counted
<1>2. Copies'
  BY RecTyped, NothingIsApart, Zenon DEF Copies, Shaped, Running, Reason, Exists
<1>3. Finalized'
  BY Zenon DEF Finalized, ClusterObjectsHaveFinalizer, MayDeploy, Exists, Running
<1>4. OwnersKept'
  BY Zenon DEF OwnersKept, Exists, Owned
<1>5. Settled'
  BY Zenon DEF Settled, Calm
<1>. QED
  BY <1>1, <1>2, <1>3, <1>4, <1>5, Zenon

LEMMA ResyncStep ==
    ASSUME OperatorInv, Resync
    PROVE  OperatorInv'
<1>. USE DEF OperatorInv, Resync, api, cached
<1>1. Shaped' /\ Counted'
  BY Zenon DEF Shaped, Counted
<1>2. Copies'
  BY Zenon DEF Copies, Running, Reason, Exists
<1>3. Finalized'
  BY Zenon DEF Finalized, ClusterObjectsHaveFinalizer, MayDeploy, Exists, Running
<1>4. OwnersKept'
  BY Zenon DEF OwnersKept, Exists, Owned
<1>5. Settled'
  BY Zenon DEF Settled, Calm
<1>. QED
  BY <1>1, <1>2, <1>3, <1>4, <1>5, Zenon

\* A restart: nothing is queued only if there is no BeegfsDriver.
LEMMA CrashStep ==
    ASSUME OperatorInv, Crash
    PROVE  OperatorInv'
<1>. USE DEF OperatorInv, Crash, api
<1>1. Shaped' /\ Counted'
  <2>1. Shaped'
    BY Zenon DEF Shaped
  <2>2. Counted'
    BY BoundsAssumption DEF Counted, Event, MaxBirths
  <2>. QED
    BY <2>1, <2>2, Zenon
<1>2. Copies'
  BY Zenon DEF Copies, Running
<1>3. Finalized'
  BY Zenon DEF Finalized, ClusterObjectsHaveFinalizer, MayDeploy, Exists, Running
<1>4. OwnersKept'
  BY Zenon DEF OwnersKept, Exists, Owned
<1>5. Settled'
  BY Zenon DEF Settled, Calm, Installed, Running
<1>. QED
  BY <1>1, <1>2, <1>3, <1>4, <1>5, Zenon

\* A copy of an object arrives; if that queues nothing, the object is not
\* watched or is a Secret without an owner.
LEMMA SyncObjectStep ==
    ASSUME OperatorInv, NEW k \in Objects, SyncObject(k)
    PROVE  OperatorInv'
<1>. USE DEF OperatorInv, SyncObject, api
<1>0. /\ cache'[k] = obj[k] /\ DOMAIN cache' = Objects
      /\ \A j \in Objects \ {k} : cache'[j] = cache[j]
  BY Zenon DEF Shaped
<1>1. Shaped' /\ Counted'
  BY <1>0, Zenon DEF Shaped, Counted
<1>2. Copies'
  BY Zenon DEF Copies, Running, Reason, Exists
<1>3. Finalized'
  BY Zenon DEF Finalized, ClusterObjectsHaveFinalizer, MayDeploy, Exists, Running
<1>4. OwnersKept'
  <2>1. Inputs \cup Deployed \subseteq Objects
    BY Zenon DEF Inputs, Deployed
  <2>. QED
    BY <1>0, <2>1, Zenon DEF OwnersKept, Exists, Owned
<1>5. Settled'
  <2>1. Calm' => Calm
    BY Zenon DEF Calm
  <2>2. ASSUME Calm', NEW j \in Inputs \cup Deployed PROVE StaysDone(j)
    <3>0. j \in Objects /\ j \in Watched
      BY Zenon DEF Inputs, Deployed, Watched
    <3>1. CASE j # k
      BY <1>0, <3>0, <3>1, Zenon
      DEF StaysDone, InputDone, IsVersion, Arriving, Exists, Owned
    <3>2. CASE j = k
      <4>1. ~Owned(cache[k]) /\ ~Owned(obj[k]) /\ cache[k] # obj[k]
        BY <2>2, <3>0, <3>2, Zenon DEF Calm
      <4>2. k \in Secrets
        BY <3>2, <4>1, Zenon DEF OwnersKept, Exists
      <4>3. k # "configMap" /\ k \notin Deployed
        BY <4>2 DEF Secrets, Deployed, Workloads
      <4>4. Exists(obj[k])
        BY <3>2, <4>1, Zenon DEF OwnersKept, Exists
      <4>. QED
        BY <1>0, <3>2, <4>1, <4>3, <4>4, Zenon
        DEF StaysDone, InputDone, IsVersion, Arriving, Exists, Owned
    <3>. QED
      BY <3>1, <3>2, Zenon
  <2>. QED
    BY <2>1, <2>2, SettledFrame, Zenon
<1>. QED
  BY <1>1, <1>2, <1>3, <1>4, <1>5, Zenon

\* Someone else writes an object.
LEMMA WriteStep ==
    ASSUME OperatorInv, NEW k \in Objects, NEW o \in ObjectsOf(k),
           WriteObject(k, o), UNCHANGED events \/ Event,
           k \in Cluster /\ Exists(o) => Exists(obj[k]),
           k \in Inputs \cup Deployed =>
              /\ k \notin Secrets /\ Exists(o) => Owned(o)
              /\ Exists(cache[k]) /\ ~Owned(cache[k]) => Exists(o) /\ ~Owned(o)
              /\ StaysDone(k)
    PROVE  OperatorInv'
<1>. USE DEF OperatorInv, WriteObject, cached
<1>0. /\ DOMAIN obj' = Objects /\ \A j \in Objects : obj'[j] \in ObjectsOf(j)
      /\ obj'[k] = o /\ \A j \in Objects \ {k} : obj'[j] = obj[j]
  BY ObjectWritten, Zenon
<1>1. Shaped' /\ Counted'
  <2>1. Shaped'
    BY <1>0, Zenon DEF Shaped
  <2>2. Counted'
    BY BoundsAssumption DEF Counted, Event, MaxBirths
  <2>. QED
    BY <2>1, <2>2, Zenon
<1>2. Copies'
  BY Zenon DEF Copies, Running, Reason, Exists
<1>3. Finalized'
  <2>1. \A j \in Cluster : Exists(obj[j])' => Exists(obj[j])
    BY <1>0, Zenon DEF Cluster, Exists
  <2>2. ClusterObjectsHaveFinalizer'
    BY <2>1, Zenon DEF Finalized, ClusterObjectsHaveFinalizer
  <2>3. Running' <=> Running
    BY Zenon DEF Running
  <2>. QED
    BY <2>1, <2>2, <2>3, Zenon DEF Finalized, MayDeploy, Exists
<1>4. OwnersKept'
  <2>1. Inputs \cup Deployed \subseteq Objects
    BY Zenon DEF Inputs, Deployed
  <2>. QED
    BY <1>0, <2>1, Zenon DEF OwnersKept, Exists, Owned
<1>5. Settled'
  <2>1. Calm' => Calm
    BY Zenon DEF Calm
  <2>2. ASSUME NEW j \in Inputs \cup Deployed PROVE StaysDone(j)
    <3>0. j \in Objects
      BY Zenon DEF Inputs, Deployed
    <3>1. CASE j # k
      BY <1>0, <3>0, <3>1, Zenon
      DEF StaysDone, InputDone, IsVersion, Arriving, Exists, Owned
    <3>. QED
      BY <3>1, <2>2, Zenon
  <2>. QED
    BY <2>1, <2>2, SettledFrame, Zenon
<1>. QED
  BY <1>1, <1>2, <1>3, <1>4, <1>5, Zenon

\* An administrator's write of a Secret has a new version, so the operator's
\* copy differs until an event has arrived.
LEMMA EditSecretStep ==
    ASSUME OperatorInv, NEW k \in Objects \cap Secrets, EditSecret(k)
    PROVE  OperatorInv'
<1>. DEFINE owner == IF Exists(obj[k]) THEN obj[k].owner ELSE Nobody
            o == [owner |-> owner, version |-> NewVersion(k)]
<1>1. k \in Inputs /\ k \notin Deployed /\ k \notin Cluster /\ k # "configMap"
  BY DEF Inputs, Versioned, Secrets, Deployed, Workloads, Cluster, ClusterScoped
<1>2. /\ NewVersion(k) \in Versions
      /\ Exists(cache[k]) => NewVersion(k) # cache[k].version
  BY <1>1, NewVersions, Zenon DEF OperatorInv
<1>3. owner \in Owners
  <2>1. Exists(obj[k]) => obj[k] \in SecretObjects
    BY Kinds, Zenon DEF OperatorInv, Shaped, Exists
  <2>2. Nobody \in Owners
    BY BoundsAssumption DEF Owners, Nobody, MaxBirths
  <2>. QED
    BY <2>1, <2>2 DEF SecretObjects
<1>4. o \in SecretObjects
  BY <1>2, <1>3 DEF SecretObjects
<1>5. o \in ObjectsOf(k) /\ Exists(o)
  BY <1>4, Kinds, NothingIsApart, Zenon DEF Exists
<1>6. o.owner = owner /\ o.version = NewVersion(k)
  OBVIOUS
<1>7. WriteObject(k, o) /\ obj'[k] = o /\ UNCHANGED <<cr, cache>> /\ Event
  BY Zenon DEF EditSecret, WriteObject, OperatorInv, Shaped, cached
<1>. HIDE DEF o
<1>8. StaysDone(k)
  BY <1>1, <1>2, <1>5, <1>6, <1>7, Zenon
  DEF StaysDone, InputDone, IsVersion, Arriving, Exists
<1>9. Exists(cache[k]) /\ ~Owned(cache[k]) => ~Owned(o)
  BY <1>1, <1>6, Zenon DEF OperatorInv, OwnersKept, Owned
<1>. QED
  BY <1>1, <1>5, <1>7, <1>8, <1>9, WriteStep, Zenon

\* A user changes the configuration in the ConfigMap.
LEMMA EditConfigMapStep ==
    ASSUME OperatorInv, "configMap" \in Objects, NEW c \in Configs, EditConfigMap(c)
    PROVE  OperatorInv'
<1>. DEFINE k == "configMap"
            o == [obj[k] EXCEPT !.config = c, !.version = NewVersion(k)]
<1>1. /\ k \in Objects /\ k \in Inputs /\ k \notin Deployed
      /\ k \notin Cluster /\ k \notin Secrets
  BY DEF Inputs, Versioned, Secrets, Deployed, Workloads, Cluster, ClusterScoped
<1>2. /\ NewVersion(k) \in Versions
      /\ Exists(cache[k]) => NewVersion(k) # cache[k].version
  BY <1>1, NewVersions, Zenon DEF OperatorInv
<1>3. Exists(obj[k]) /\ Event /\ WriteObject(k, o)
  BY Zenon DEF EditConfigMap
<1>4. obj[k] \in ConfigMaps
  BY <1>3, Kinds, Zenon DEF OperatorInv, Shaped, Exists
<1>5. o \in ConfigMaps /\ o.owner = obj[k].owner /\ o.version = NewVersion(k)
  BY <1>2, <1>4, Zenon DEF ConfigMaps
<1>6. o \in ObjectsOf(k) /\ Exists(o)
  BY <1>5, Kinds, NothingIsApart, Zenon DEF Exists
<1>7. obj'[k] = o /\ UNCHANGED <<cr, cache>>
  BY <1>3, Zenon DEF WriteObject, OperatorInv, Shaped, cached
<1>. HIDE DEF o
<1>8. StaysDone(k)
  BY <1>1, <1>2, <1>3, <1>5, <1>6, <1>7, Zenon
  DEF StaysDone, InputDone, IsVersion, Arriving, Exists
<1>9. Owned(o) /\ ~(Exists(cache[k]) /\ ~Owned(cache[k]))
  BY <1>1, <1>3, <1>5, <1>6, Zenon DEF OperatorInv, OwnersKept, Owned
<1>. HIDE DEF k
<1>. QED
  BY <1>1, <1>3, <1>6, <1>8, <1>9, WriteStep, Zenon

\* A user changes the rules of the ClusterRole.
LEMMA EditRulesStep ==
    ASSUME OperatorInv, NEW k \in Objects \cap MayUpdate, EditRules(k)
    PROVE  OperatorInv'
<1>. DEFINE o == [obj[k] EXCEPT !.edited = TRUE]
<1>1. k \in ClusterScoped /\ k \notin Inputs \cup Deployed
  BY DEF MayUpdate, Inputs, Versioned, Secrets, Deployed, Workloads, ClusterScoped
<1>2. Exists(obj[k]) /\ Event /\ WriteObject(k, o)
  BY Zenon DEF EditRules
<1>3. obj[k] \in PlainObjects
  BY <1>1, <1>2, Kinds, Zenon DEF OperatorInv, Shaped, Exists
<1>4. o \in PlainObjects
  BY <1>3, Zenon DEF PlainObjects
<1>5. o \in ObjectsOf(k)
  BY <1>1, <1>4, Kinds, Zenon
<1>. HIDE DEF o
<1>. QED
  BY <1>1, <1>2, <1>5, WriteStep, Zenon

\* The pods of a workload change their state.
LEMMA PodsChangeStep ==
    ASSUME OperatorInv, NEW w \in Deployed, NEW reason \in PodReasons,
           PodsChange(w, reason)
    PROVE  OperatorInv'
<1>. DEFINE o == [obj[w] EXCEPT !.pods = reason]
<1>1. w \in Objects /\ w \in Workloads /\ w \notin Inputs \cup Cluster \cup Secrets
  BY DEF Inputs, Versioned, Secrets, Deployed, Workloads, ClusterScoped, Cluster
<1>2. Exists(obj[w]) /\ Event /\ WriteObject(w, o)
  BY Zenon DEF PodsChange
<1>3. obj[w] \in WorkloadObjects
  BY <1>1, <1>2, Kinds, Zenon DEF OperatorInv, Shaped, Exists
<1>4. /\ o \in WorkloadObjects /\ o.owner = obj[w].owner
      /\ o.template = obj[w].template
  BY <1>3 DEF WorkloadObjects
<1>5. o \in ObjectsOf(w) /\ Exists(o)
  BY <1>1, <1>4, Kinds, NothingIsApart, Zenon DEF Exists
<1>6. obj'[w] = o /\ UNCHANGED <<cr, cache>>
  BY <1>1, <1>2, Zenon DEF WriteObject, OperatorInv, Shaped, cached
<1>. HIDE DEF o
<1>7. StaysDone(w)
  BY <1>1, <1>2, <1>4, <1>5, <1>6, Zenon DEF StaysDone, Arriving, Exists
<1>8. Owned(o) /\ ~(Exists(cache[w]) /\ ~Owned(cache[w]))
  BY <1>1, <1>2, <1>4, <1>5, Zenon DEF OperatorInv, OwnersKept, Owned
<1>. QED
  BY <1>1, <1>2, <1>5, <1>7, <1>8, WriteStep, Zenon

\* What is collected has another owner than the BeegfsDriver, and an event of
\* it is to come unless the operator has not even seen it.
LEMMA CollectGarbageStep ==
    ASSUME OperatorInv, NEW k \in Objects, CollectGarbage(k)
    PROVE  OperatorInv'
<1>1. Absent \in ObjectsOf(k) /\ ~Exists(Absent) /\ ~Owned(Absent)
  BY Zenon DEF ObjectsOf, Exists, Owned
<1>2. WriteObject(k, Absent) /\ Garbage(k) /\ UNCHANGED events
  BY Zenon DEF CollectGarbage
<1>3. obj'[k] = Absent /\ UNCHANGED <<cr, cache>>
  BY <1>2, Zenon DEF WriteObject, OperatorInv, Shaped, cached
<1>4. k \in Inputs \cup Deployed => StaysDone(k)
  BY <1>1, <1>2, <1>3, Zenon
  DEF StaysDone, InputDone, IsVersion, Arriving, Exists, Owned, Garbage
<1>5. k \in Inputs \cup Deployed => ~(Exists(cache[k]) /\ ~Owned(cache[k]))
  BY <1>2, Zenon DEF OperatorInv, OwnersKept, Garbage
<1>. QED
  BY <1>1, <1>2, <1>4, <1>5, WriteStep, Zenon

\* Someone else writes the BeegfsDriver: the copies are out of date.
LEMMA WriteDriverStep ==
    ASSUME OperatorInv, NEW d \in Drivers \cup {NoDriver}, WriteDriver(d), Counted',
           cr # NoDriver /\ cr.finalizer => d # NoDriver /\ d.finalizer
    PROVE  OperatorInv'
<1>. USE DEF OperatorInv, WriteDriver
<1>0. /\ rec' \in Reconciliations \cup {Idle} /\ (Running' <=> Running)
      /\ Running => /\ rec'.fresh = FALSE /\ rec'.pc = rec.pc /\ rec'.i = rec.i
                    /\ rec'.driver = rec.driver /\ rec'.read = rec.read
  <2>1. CASE rec = Idle
    BY <2>1, Zenon DEF Idle, Running
  <2>2. CASE rec # Idle
    <3>1. rec \in Reconciliations
      BY <2>2, Zenon DEF Shaped
    <3>2. /\ rec' \in Reconciliations
          /\ rec'.fresh = FALSE /\ rec'.pc = rec.pc /\ rec'.i = rec.i
          /\ rec'.driver = rec.driver /\ rec'.read = rec.read
      BY <3>1, Zenon DEF Reconciliations
    <3>. QED
      BY <2>2, <3>2, NothingIsApart, Zenon DEF Running
  <2>. QED
    BY <2>1, <2>2, Zenon
<1>1. Shaped'
  BY <1>0, Zenon DEF Shaped
<1>2. Copies'
  BY <1>0, Zenon DEF Copies, Reason, Exists
<1>3. Finalized'
  BY <1>0, Zenon DEF Finalized, ClusterObjectsHaveFinalizer, MayDeploy, Exists
<1>4. OwnersKept'
  BY Zenon DEF OwnersKept, Exists, Owned
<1>5. Settled'
  BY Zenon DEF Settled, Calm
<1>. QED
  BY <1>1, <1>2, <1>3, <1>4, <1>5, Zenon

LEMMA CreateDriverStep ==
    ASSUME OperatorInv, NEW s \in Initial, CreateDriver(s)
    PROVE  OperatorInv'
<1>. DEFINE d == [uid |-> births + 1, spec |-> s, deleting |-> FALSE,
                  finalizer |-> FALSE, status |-> [w \in Deployed |-> "none"]]
<1>1. births + 1 \in 1..MaxBirths /\ Counted'
  BY BoundsAssumption DEF OperatorInv, Counted, CreateDriver, Event, MaxBirths
<1>2. d \in Drivers
  <2>1. s \in Specs /\ [w \in Deployed |-> "none"] \in [Deployed -> Reasons]
    BY SpecsAssumption DEF Reasons
  <2>. QED
    BY <1>1, <2>1 DEF Drivers
<1>3. WriteDriver(d) /\ cr = NoDriver
  BY Zenon DEF CreateDriver
<1>. HIDE DEF d
<1>. QED
  BY <1>1, <1>2, <1>3, WriteDriverStep, Zenon

LEMMA EditDriverStep ==
    ASSUME OperatorInv, NEW s \in Specs, EditDriver(s)
    PROVE  OperatorInv'
<1>. DEFINE d == [cr EXCEPT !.spec = s]
<1>1. Counted'
  BY BoundsAssumption DEF OperatorInv, Counted, EditDriver, Event, MaxBirths
<1>2. cr \in Drivers /\ WriteDriver(d)
  BY Zenon DEF EditDriver, OperatorInv, Shaped
<1>3. d \in Drivers /\ d.finalizer = cr.finalizer
  BY <1>2 DEF Drivers
<1>. HIDE DEF d
<1>. QED
  BY <1>1, <1>2, <1>3, WriteDriverStep, NothingIsApart, Zenon

\* A BeegfsDriver with the finalizer is only marked.
LEMMA DeleteDriverStep ==
    ASSUME OperatorInv, DeleteDriver
    PROVE  OperatorInv'
<1>. DEFINE d == [cr EXCEPT !.deleting = TRUE]
<1>1. Counted'
  BY DEF OperatorInv, Counted, DeleteDriver
<1>2. cr \in Drivers
  BY Zenon DEF DeleteDriver, OperatorInv, Shaped
<1>3. d \in Drivers /\ d.finalizer = cr.finalizer
  BY <1>2, Zenon DEF Drivers
<1>4. WriteDriver(IF cr.finalizer THEN d ELSE NoDriver)
  BY Zenon DEF DeleteDriver
<1>. HIDE DEF d
<1>5. CASE cr.finalizer
  BY <1>1, <1>3, <1>4, <1>5, WriteDriverStep, NothingIsApart, Zenon
<1>6. CASE ~cr.finalizer
  BY <1>1, <1>4, <1>6, WriteDriverStep, Zenon
<1>. QED
  BY <1>5, <1>6, Zenon

(***************************************************************************)
(* Reconcile, until it deploys.                                            *)
(***************************************************************************)
\* A reconciliation begins with the copy of the BeegfsDriver.
LEMMA BeginStep ==
    ASSUME OperatorInv, Begin
    PROVE  OperatorInv'
<1>. USE DEF OperatorInv, Begin, api, cached
<1>. DEFINE r == [pc |-> "status", i |-> 1, driver |-> seen, fresh |-> current,
                  read |-> [w \in Deployed |-> Absent],
                  versions |-> [k \in Inputs |-> 0]]
<1>0. seen # NoDriver => /\ r \in Reconciliations
                         /\ r.driver = seen /\ r.fresh = current
                         /\ r.pc = "status" /\ r.i = 1
  <2>1. 0 \in Versions /\ 1 \in 1..Len(Order)
    BY OrderOfObjects DEF Versions
  <2>2. /\ [k \in Inputs |-> 0] \in [Inputs -> Versions]
        /\ [w \in Deployed |-> Absent] \in [Deployed -> {Absent} \cup WorkloadObjects]
    BY <2>1
  <2>3. seen # NoDriver => seen \in Drivers
    BY Zenon DEF Shaped
  <2>4. current \in BOOLEAN
    BY Zenon DEF Shaped
  <2>. QED
    BY <2>1, <2>2, <2>3, <2>4 DEF Reconciliations
<1>00. rec' = IF seen = NoDriver THEN Idle ELSE r
  BY Zenon
<1>. HIDE DEF r
<1>1. Shaped'
  BY <1>0, <1>00, Zenon DEF Shaped
<1>2. Counted'
  BY Zenon DEF Counted
<1>3. Running' <=> seen # NoDriver
  BY <1>0, <1>00, NothingIsApart, Zenon DEF Running
<1>4. Copies'
  BY <1>0, <1>00, <1>3 DEF Copies, Shaped
<1>5. Finalized'
  BY <1>0, <1>00, <1>3 DEF Finalized, ClusterObjectsHaveFinalizer, MayDeploy, Exists
<1>6. OwnersKept'
  BY Zenon DEF OwnersKept, Exists, Owned
<1>7. Settled'
  <2>1. CASE seen = NoDriver
    BY <1>3, <2>1, Zenon DEF Settled, Calm, Copies, Installed
  <2>2. CASE seen # NoDriver
    BY <1>0, <1>00, <1>3, <2>2 DEF Settled
  <2>. QED
    BY <2>1, <2>2, Zenon
<1>. QED
  BY <1>1, <1>2, <1>4, <1>5, <1>6, <1>7, Zenon

\* What a reconciliation must know of the BeegfsDriver d, at its next call.
Knows(next, d) ==
    /\ next.driver = d
    /\ next.pc \in {"finalizer", "deploy"} /\ (next.pc = "finalizer" => next.i = 1)
    /\ d.deleting => seen # NoDriver /\ seen.deleting
    /\ next.pc = "deploy" => d.finalizer /\ ~d.deleting
    /\ \A w \in Deployed : d.status[w] = Reason(next.read[w])

\* An update of the BeegfsDriver is made to the latest version only.
LEMMA PutDriverStep ==
    ASSUME OperatorInv, Running, NEW d \in Drivers \cup {NoDriver},
           NEW next \in Reconciliations \cup {Idle},
           PutDriver(d, next), UNCHANGED births,
           rec.fresh =>
              /\ MayDeploy(seen) \/ (\E k \in Cluster : Exists(obj[k])) =>
                    d # NoDriver /\ d.finalizer
              /\ next # Idle => d # NoDriver /\ Knows(next, d)
    PROVE  OperatorInv'
<1>1. CASE ~rec.fresh
  <2>1. Error /\ UNCHANGED <<api, cached, births>> /\ UNCHANGED events
    BY <1>1, Zenon DEF PutDriver, api, cached
  <2>. QED
    BY <2>1, ErrorStep, Zenon
<1>2. CASE rec.fresh
  <2>. USE DEF OperatorInv
  <2>0. cr' = d /\ current' = FALSE /\ Then(next) /\ UNCHANGED <<obj, seen, cache>>
    BY <1>2, Zenon DEF PutDriver
  <2>1. rec' = Idle \/ (rec' = next /\ next # Idle)
    BY <2>0, Zenon DEF Then, Error
  <2>2. Shaped'
    <3>1. queued' \in BOOLEAN
      BY <2>0, Zenon DEF Shaped, Then, Error
    <3>. QED
      BY <2>0, <2>1, <3>1, Zenon DEF Shaped
  <2>3. Counted'
    BY <2>0, BoundsAssumption DEF Counted, Then, Event, MaxBirths
  <2>4. Copies'
    BY <1>2, <2>0, <2>1 DEF Copies, Running, Knows, Reason, Exists
  <2>5. Finalized'
    BY <1>2, <2>0, <2>1
    DEF Finalized, ClusterObjectsHaveFinalizer, Running, MayDeploy, Knows, Exists
  <2>6. OwnersKept'
    BY <2>0, Zenon DEF OwnersKept, Exists, Owned
  <2>7. Settled'
    BY <2>0, Zenon DEF Settled, Calm
  <2>. QED
    BY <2>2, <2>3, <2>4, <2>5, <2>6, <2>7, Zenon
<1>. QED
  BY <1>1, <1>2, Zenon

\* The status is written only if it changes, and then an event is to come.
LEMMA UpdateStatusStep ==
    ASSUME OperatorInv, UpdateStatus
    PROVE  OperatorInv'
<1>. DEFINE read == [w \in Deployed |-> cache[w]]
            status == [w \in Deployed |-> Reason(read[w])]
            next == [rec EXCEPT !.pc = "finalizer", !.read = read,
                                !.driver.status = status]
<1>0. rec.pc = "status" /\ Running /\ UNCHANGED births
  BY AtCall DEF UpdateStatus
<1>1. /\ rec \in Reconciliations /\ rec.driver \in Drivers
      /\ rec.driver # NoDriver
  BY <1>0, RecTyped, NothingIsApart, Zenon DEF OperatorInv
<1>2. \A w \in Deployed : cache[w] \in {Absent} \cup WorkloadObjects
  <2>1. \A w \in Deployed : w \in Objects /\ w \in Workloads
    BY Zenon DEF Deployed
  <2>. QED
    BY <2>1, Kinds, Zenon DEF OperatorInv, Shaped
<1>3. read \in [Deployed -> {Absent} \cup WorkloadObjects]
  BY <1>2, Zenon
<1>4. status \in [Deployed -> Reasons]
  <2>1. \A o \in {Absent} \cup WorkloadObjects : Reason(o) \in Reasons
    BY DEF Reason, Reasons, Exists, WorkloadObjects
  <2>. QED
    BY <1>3, <2>1, Zenon
<1>5. /\ \A w \in Deployed : read[w] = cache[w]
      /\ \A w \in Deployed : status[w] = Reason(cache[w])
  BY Zenon
<1>6. IF status = rec.driver.status
      THEN rec' = next /\ UNCHANGED <<api, cached, queued, events>>
      ELSE PutDriver([cr EXCEPT !.status = status], next)
  BY Zenon DEF UpdateStatus
<1>. HIDE DEF read, status
<1>7. /\ next \in Reconciliations /\ next.driver = [rec.driver EXCEPT !.status = status]
      /\ next.pc = "finalizer" /\ next.read = read /\ next.fresh = rec.fresh
      /\ next.i = 1
  <2>1. [rec.driver EXCEPT !.status = status] \in Drivers
    BY <1>1, <1>4 DEF Drivers
  <2>2. rec.i = 1
    BY <1>0 DEF OperatorInv, Copies
  <2>. QED
    BY <1>1, <1>3, <2>1, <2>2, Zenon DEF Reconciliations
<1>. HIDE DEF next
<1>8. CASE status = rec.driver.status
  <2>. USE DEF OperatorInv, api, cached
  <2>0. rec' = next /\ UNCHANGED <<api, cached, queued, events>>
    BY <1>6, <1>8, Zenon
  <2>1. next.driver = rec.driver
    BY <1>1, <1>7, <1>8 DEF Drivers
  <2>2. Running'
    BY <1>7, <2>0, NothingIsApart, Zenon DEF Running
  <2>3. Shaped' /\ Counted'
    BY <1>0, <1>7, <2>0, Zenon DEF Shaped, Counted
  <2>4. Copies'
    BY <1>0, <1>5, <1>7, <1>8, <2>0, <2>1, <2>2 DEF Copies, Reason, Exists
  <2>5. Finalized'
    BY <1>0, <1>7, <2>0, <2>1, <2>2
    DEF Finalized, ClusterObjectsHaveFinalizer, MayDeploy, Exists
  <2>6. OwnersKept'
    BY <2>0, Zenon DEF OwnersKept, Exists, Owned
  <2>7. Settled'
    BY <1>0, <1>5, <1>7, <1>8, <2>0, <2>1, <2>2
    DEF Settled, Copies, Calm, StatusDone, Reason, Exists
  <2>. QED
    BY <2>3, <2>4, <2>5, <2>6, <2>7, Zenon
<1>9. CASE status # rec.driver.status
  <2>. DEFINE d == [cr EXCEPT !.status = status]
  <2>1. PutDriver(d, next)
    BY <1>6, <1>9, Zenon
  <2>2. CASE ~rec.fresh
    <3>1. Error /\ UNCHANGED <<api, cached, births>> /\ UNCHANGED events
      BY <1>0, <2>1, <2>2, Zenon DEF PutDriver, api, cached
    <3>. QED
      BY <3>1, ErrorStep, Zenon
  <2>3. CASE rec.fresh
    <3>1. rec.driver = cr
      BY <1>0, <2>3, Zenon DEF OperatorInv, Copies
    <3>2. /\ d \in Drivers /\ d.deleting = cr.deleting /\ d.finalizer = cr.finalizer
          /\ d.status = status /\ next.driver = d
      BY <1>1, <1>4, <1>7, <3>1 DEF Drivers
    <3>. HIDE DEF d
    <3>3. /\ MayDeploy(seen) \/ (\E k \in Cluster : Exists(obj[k])) =>
                d # NoDriver /\ d.finalizer
      BY <3>2, NothingIsApart, Zenon
      DEF OperatorInv, Finalized, ClusterObjectsHaveFinalizer
    <3>4. Knows(next, d)
      BY <1>0, <1>5, <1>7, <2>3, <3>1, <3>2 DEF Knows, OperatorInv, Copies
    <3>. QED
      BY <1>0, <1>7, <2>1, <3>2, <3>3, <3>4, PutDriverStep, NothingIsApart, Zenon
  <2>. QED
    BY <2>2, <2>3, Zenon
<1>. QED
  BY <1>8, <1>9, Zenon

LEMMA AddFinalizerStep ==
    ASSUME OperatorInv, AddFinalizer
    PROVE  OperatorInv'
<1>. DEFINE next == [rec EXCEPT !.pc = "deploy", !.driver.finalizer = TRUE]
<1>0. /\ rec.pc = "finalizer" /\ Running /\ ~rec.driver.deleting /\ UNCHANGED births
      /\ IF rec.driver.finalizer
         THEN rec' = next /\ UNCHANGED <<api, cached, queued, events>>
         ELSE PutDriver([cr EXCEPT !.finalizer = TRUE], next)
  BY AtCall DEF AddFinalizer
<1>1. /\ rec \in Reconciliations /\ rec.driver \in Drivers /\ rec.i \in 1..Len(Order)
      /\ rec.driver # NoDriver
  BY <1>0, RecTyped, NothingIsApart, Zenon DEF OperatorInv
<1>2. /\ next \in Reconciliations /\ next.driver = [rec.driver EXCEPT !.finalizer = TRUE]
      /\ next.pc = "deploy" /\ next.read = rec.read /\ next.fresh = rec.fresh
  <2>1. [rec.driver EXCEPT !.finalizer = TRUE] \in Drivers
    BY <1>1, Zenon DEF Drivers
  <2>. QED
    BY <1>1, <2>1, Zenon DEF Reconciliations
<1>3. next.i = rec.i
  BY <1>1 DEF Reconciliations
<1>. HIDE DEF next
<1>4. CASE rec.driver.finalizer
  <2>. USE DEF OperatorInv, api, cached
  <2>0. rec' = next /\ UNCHANGED <<api, cached, queued, events>>
    BY <1>0, <1>4, Zenon
  <2>1. next.driver = rec.driver
    BY <1>1, <1>2, <1>4, Zenon DEF Drivers
  <2>2. Running'
    BY <1>2, <2>0, NothingIsApart, Zenon DEF Running
  <2>3. Shaped' /\ Counted'
    BY <1>0, <1>2, <2>0, Zenon DEF Shaped, Counted
  <2>4. Copies'
    BY <1>0, <1>2, <1>4, <2>0, <2>1, <2>2 DEF Copies, Reason, Exists
  <2>5. Finalized'
    BY <1>0, <1>2, <2>0, <2>1, <2>2
    DEF Finalized, ClusterObjectsHaveFinalizer, MayDeploy, Exists
  <2>6. OwnersKept'
    BY <2>0, Zenon DEF OwnersKept, Exists, Owned
  <2>7. Settled'
    <3>1. Passed' = {}
      BY <1>0, <1>3, <2>0 DEF Passed, Copies
    <3>. QED
      BY <1>0, <1>2, <2>0, <2>2, <3>1 DEF Settled, Calm, StatusDone, Reason, Exists
  <2>. QED
    BY <2>3, <2>4, <2>5, <2>6, <2>7, Zenon
<1>5. CASE ~rec.driver.finalizer
  <2>. DEFINE d == [cr EXCEPT !.finalizer = TRUE]
  <2>1. PutDriver(d, next)
    BY <1>0, <1>5, Zenon
  <2>2. CASE ~rec.fresh
    <3>1. Error /\ UNCHANGED <<api, cached, births>> /\ UNCHANGED events
      BY <1>0, <2>1, <2>2, Zenon DEF PutDriver, api, cached
    <3>. QED
      BY <3>1, ErrorStep, Zenon
  <2>3. CASE rec.fresh
    <3>1. rec.driver = cr
      BY <1>0, <2>3, Zenon DEF OperatorInv, Copies
    <3>2. /\ d \in Drivers /\ d.deleting = cr.deleting /\ d.finalizer
          /\ d.status = cr.status /\ next.driver = d
      BY <1>1, <1>2, <3>1, Zenon DEF Drivers
    <3>. HIDE DEF d
    <3>3. Knows(next, d)
      BY <1>0, <1>2, <2>3, <3>1, <3>2 DEF Knows, OperatorInv, Copies
    <3>. QED
      BY <1>0, <1>2, <2>1, <3>2, <3>3, PutDriverStep, NothingIsApart, Zenon
  <2>. QED
    BY <2>2, <2>3, Zenon
<1>. QED
  BY <1>4, <1>5, Zenon

LEMMA BeginDeletionStep ==
    ASSUME OperatorInv, BeginDeletion
    PROVE  OperatorInv'
<1>. USE DEF OperatorInv, api, cached
<1>0. /\ rec.pc = "finalizer" /\ Running /\ rec.driver.deleting
      /\ UNCHANGED <<api, cached, births, events, queued>>
      /\ rec' = Idle \/ rec' = [rec EXCEPT !.pc = "delete"]
  BY AtCall DEF BeginDeletion, Done
<1>1. rec \in Reconciliations /\ rec.i = 1
  BY <1>0, RecTyped DEF Copies
<1>2. \/ rec' = Idle
      \/ /\ rec' \in Reconciliations /\ rec'.pc = "delete" /\ rec'.i = 1
         /\ rec'.driver = rec.driver /\ rec'.fresh = rec.fresh /\ rec'.read = rec.read
  BY <1>0, <1>1 DEF Reconciliations
<1>3. Shaped' /\ Counted'
  BY <1>0, <1>2, Zenon DEF Shaped, Counted
<1>4. Copies'
  BY <1>0, <1>2 DEF Copies, Running, Reason, Exists
<1>5. Finalized'
  BY <1>0, <1>2 DEF Finalized, ClusterObjectsHaveFinalizer, MayDeploy, Exists, Running
<1>6. OwnersKept'
  BY <1>0, Zenon DEF OwnersKept, Exists, Owned
<1>7. Settled'
  <2>. SUFFICES ASSUME Calm' PROVE Settled'
    BY Zenon DEF Settled
  <2>1. Calm /\ rec.fresh /\ ~Installed'
    BY <1>0 DEF Calm, Copies, Installed
  <2>2. StatusDone' /\ \A w \in Deployed : rec.read[w] = cache'[w]
    BY <1>0, <2>1 DEF Settled, StatusDone, Reason, Exists
  <2>. QED
    BY <1>2, <2>1, <2>2, Zenon DEF Settled, Running
<1>. QED
  BY <1>3, <1>4, <1>5, <1>6, <1>7, Zenon

\* The deletion passes an object; if it is cluster-scoped it is gone.
LEMMA DeleteObjectStep ==
    ASSUME OperatorInv, DeleteObject
    PROVE  OperatorInv'
<1>. USE DEF OperatorInv, cached
<1>. DEFINE k == Order[rec.i]
            next == IF rec.i = Len(Order) THEN [rec EXCEPT !.pc = "unfinalize"]
                    ELSE [rec EXCEPT !.i = rec.i + 1]
<1>0. /\ rec.pc = "delete" /\ Running /\ UNCHANGED <<cached, births>>
      /\ IF k \in ClusterScoped THEN Put(k, TRUE, Absent, next)
         ELSE rec' = next /\ UNCHANGED <<api, queued, events>>
  BY AtCall, Zenon DEF DeleteObject
<1>1. rec \in Reconciliations /\ rec.i \in 1..Len(Order) /\ k \in Objects
  BY <1>0, RecTyped, OrderOfObjects
<1>2. /\ next \in Reconciliations
      /\ next.driver = rec.driver /\ next.fresh = rec.fresh /\ next.read = rec.read
      /\ \/ next.pc = "unfinalize" /\ rec.i = Len(Order)
         \/ next.pc = "delete" /\ next.i = rec.i + 1
  BY <1>0, <1>1 DEF Reconciliations
<1>. HIDE DEF next
<1>3. /\ UNCHANGED cr
      /\ (rec' = Idle /\ queued' = TRUE) \/ (rec' = next /\ UNCHANGED queued)
      /\ UNCHANGED events \/ Event
  BY <1>0, Zenon DEF Put, Then, Error, api
<1>4. obj' = IF k \in ClusterScoped THEN [obj EXCEPT ![k] = Absent] ELSE obj
  BY <1>0, Zenon DEF Put, api
<1>5. /\ DOMAIN obj' = Objects /\ \A j \in Objects : obj'[j] \in ObjectsOf(j)
      /\ \A j \in Objects : j = k /\ k \in ClusterScoped => ~Exists(obj'[j])
      /\ \A j \in Objects : ~(j = k /\ k \in ClusterScoped) => obj'[j] = obj[j]
  <2>1. Absent \in ObjectsOf(k) /\ ~Exists(Absent)
    BY Zenon DEF ObjectsOf, Exists
  <2>. QED
    BY <1>1, <1>4, <2>1, ObjectWritten, Zenon DEF Shaped
<1>. HIDE DEF k
<1>6. Shaped'
  BY <1>0, <1>2, <1>3, <1>5, Zenon DEF Shaped
<1>7. Counted'
  BY <1>0, <1>3, BoundsAssumption DEF Counted, Event, MaxBirths
<1>8. Copies'
  BY <1>0, <1>2, <1>3 DEF Copies, Running, Reason, Exists
<1>9. Finalized'
  <2>1. \A j \in Cluster : Exists(obj[j])' => Exists(obj[j])
    BY <1>5, Zenon DEF Cluster, Exists
  <2>2. ClusterObjectsHaveFinalizer'
    BY <1>3, <2>1, Zenon DEF Finalized, ClusterObjectsHaveFinalizer
  <2>3. \A j \in 1..rec.i : Order[j] \in Cluster => ~Exists(obj[Order[j]])'
    <3>1. ASSUME NEW j \in 1..rec.i, Order[j] \in Cluster, j # rec.i
          PROVE  ~Exists(obj[Order[j]])
      BY <1>0, <1>1, <3>1 DEF Finalized
    <3>2. Order[rec.i] \in Cluster => ~Exists(obj'[Order[rec.i]])
      BY <1>5, Zenon DEF Cluster, k
    <3>. QED
      BY <2>1, <3>1, <3>2, Zenon DEF Exists
  <2>4. next.pc = "unfinalize" => \A j \in Cluster : ~Exists(obj[j])'
    BY <1>2, <2>3, OrderOfObjects DEF Cluster
  <2>5. next.pc = "delete" =>
           \A j \in 1..(next.i - 1) : Order[j] \in Cluster => ~Exists(obj[Order[j]])'
    BY <1>1, <1>2, <2>3
  <2>6. /\ MayDeploy(seen') => cr' # NoDriver /\ cr'.finalizer
        /\ MayDeploy(next.driver) => cr' # NoDriver /\ cr'.finalizer
    BY <1>0, <1>2, <1>3, Zenon DEF Finalized
  <2>. QED
    BY <1>0, <1>2, <1>3, <2>2, <2>4, <2>5, <2>6, Zenon
    DEF Finalized, Running, MayDeploy, Exists
<1>10. OwnersKept'
  <2>1. \A j \in Inputs \cup Deployed : obj'[j] = obj[j]
    BY <1>5
    DEF Inputs, Versioned, Secrets, Deployed, Workloads, ClusterScoped
  <2>. QED
    BY <1>0, <2>1, Zenon DEF OwnersKept, Exists, Owned
<1>11. Settled'
  <2>. SUFFICES ASSUME Calm' PROVE Settled'
    BY Zenon DEF Settled
  <2>1. Calm /\ rec' = next /\ Running'
    BY <1>0, <1>2, <1>3, NothingIsApart DEF Calm, Running
  <2>2. StatusDone' /\ \A w \in Deployed : rec.read[w] = cache'[w]
    BY <1>0, <1>3, <2>1 DEF Settled, StatusDone, Reason, Exists
  <2>. QED
    BY <1>2, <2>1, <2>2 DEF Settled
<1>. QED
  BY <1>6, <1>7, <1>8, <1>9, <1>10, <1>11, Zenon

\* The finalizer is removed by a reconciliation that has deleted everything,
\* and the operator's copy of the BeegfsDriver is one that is being deleted.
LEMMA RemoveFinalizerStep ==
    ASSUME OperatorInv, RemoveFinalizer
    PROVE  OperatorInv'
<1>0. rec.pc = "unfinalize" /\ Running /\ PutDriver(NoDriver, Idle) /\ UNCHANGED births
  BY AtCall DEF RemoveFinalizer
<1>1. rec.fresh => ~MayDeploy(seen)
  BY <1>0 DEF OperatorInv, Copies, MayDeploy
<1>2. \A k \in Cluster : ~Exists(obj[k])
  BY <1>0 DEF OperatorInv, Finalized
<1>. QED
  BY <1>0, <1>1, <1>2, PutDriverStep, Zenon

(***************************************************************************)
(* Reconcile deploys the objects in order.                                 *)
(***************************************************************************)
\* The object k is passed: it is done, if no event is to come for it.
PassedWell(k, r) ==
    /\ k \in Inputs => InputDone(k)' /\ IsVersion(k, r.versions[k])'
    /\ k \in Deployed => WorkloadDone(k)'

\* The reconciliation after the call for the object k.
AfterCall(k, r) ==
    /\ r \in Reconciliations /\ r.pc = rec.pc /\ r.i = rec.i /\ r.driver = rec.driver
    /\ r.fresh = rec.fresh /\ r.read = rec.read
    /\ \A j \in Inputs \ {k} : r.versions[j] = rec.versions[j]

\* When k has been passed, so has every object up to it.
LEMMA PassedNext ==
    ASSUME OperatorInv, NEW k \in Objects, Deploying(k), Calm,
           UNCHANGED <<cr, cache>>, \A j \in Objects \ {k} : obj'[j] = obj[j],
           NEW r, AfterCall(k, r), PassedWell(k, r)
    PROVE  /\ StatusDone' /\ \A w \in Deployed : rec.read[w] = cache'[w]
           /\ \A j \in Inputs \cap (Passed \cup {k}) :
                 InputDone(j)' /\ IsVersion(j, r.versions[j])'
           /\ \A w \in Deployed \cap (Passed \cup {k}) : WorkloadDone(w)'
<1>. USE DEF OperatorInv
<1>0. /\ rec.pc = "deploy" /\ Order[rec.i] = k /\ Running
      /\ rec.i \in 1..Len(Order)
  BY AtCall, RecTyped DEF Deploying
<1>1. k \notin Passed
  <2>1. ASSUME NEW j \in 1..(rec.i - 1) PROVE Order[j] # Order[rec.i]
    <3>1. j \in 1..Len(Order) /\ j # rec.i
      BY <1>0, OrderOfObjects
    <3>. QED
      BY <1>0, <3>1, OrderOfObjects
  <2>. QED
    BY <1>0, <2>1, Zenon DEF Passed
<1>2. ASSUME NEW j \in Inputs \cup Deployed, j # k PROVE StaysDone(j)
  <2>1. j \in Objects
    BY Zenon DEF Inputs, Deployed
  <2>. QED
    BY <1>2, <2>1, Zenon
    DEF StaysDone, InputDone, IsVersion, Arriving, Exists, Owned
<1>3. StatusDone' /\ \A w \in Deployed : rec.read[w] = cache'[w]
  BY <1>0 DEF Settled, StatusDone, Reason, Exists
<1>4. ASSUME NEW j \in Inputs \cap Passed
      PROVE  InputDone(j)' /\ IsVersion(j, r.versions[j])'
  <2>1. j # k /\ InputDone(j) /\ IsVersion(j, r.versions[j])
    BY <1>0, <1>1, <1>4 DEF Settled, AfterCall
  <2>2. InputDone(j)'
    BY <1>2, <2>1, Zenon DEF StaysDone
  <2>3. IsVersion(j, r.versions[j])'
    <3>1. PICK v : v = r.versions[j]
      OBVIOUS
    <3>2. IsVersion(j, v)'
      BY <1>2, <2>1, <3>1, Zenon DEF StaysDone
    <3>. QED
      BY <3>1, <3>2
  <2>. QED
    BY <2>2, <2>3
<1>5. ASSUME NEW w \in Deployed \cap Passed PROVE WorkloadDone(w)'
  <2>1. k \notin Inputs /\ w # k
    BY <1>0, <1>1, OrderOfObjects DEF Passed
  <2>2. StaysDone(w) /\ WorkloadDone(w)
    BY <1>0, <1>2, <2>1, Zenon DEF Settled
  <2>3. \A t : Fits(t) => Fits(t)'
    BY <1>2, <2>1, Zenon DEF Fits, StaysDone
  <2>. QED
    BY <2>2, <2>3, Zenon DEF WorkloadDone, StaysDone, Exists
<1>. QED
  BY <1>3, <1>4, <1>5, Zenon DEF PassedWell

\* A call for the object k leaves it or writes it, and the reconciliation goes
\* on or ends with an error.
LEMMA DeployStep ==
    ASSUME OperatorInv, NEW k \in Objects, Deploying(k),
           UNCHANGED <<cr, cached, births>>, UNCHANGED events \/ Event,
           NEW r, AfterCall(k, r), NEW o \in ObjectsOf(k),
           obj' = obj \/ obj' = [obj EXCEPT ![k] = o],
           (rec' = Idle /\ queued' = TRUE) \/ (rec' = Forward(r) /\ UNCHANGED queued),
           obj' # obj /\ k \in Inputs \cup Deployed =>
              /\ k \notin Secrets /\ Exists(o) => Owned(o)
              /\ Exists(cache[k]) /\ ~Owned(cache[k]) => Exists(o) /\ ~Owned(o),
           Calm' => PassedWell(k, r)
    PROVE  OperatorInv'
<1>. USE DEF OperatorInv, cached
<1>0. /\ rec.pc = "deploy" /\ Order[rec.i] = k /\ Running
      /\ rec.i \in 1..Len(Order)
  BY AtCall, RecTyped DEF Deploying
<1>1. /\ DOMAIN obj' = Objects /\ \A j \in Objects : obj'[j] \in ObjectsOf(j)
      /\ obj' # obj => obj'[k] = o
      /\ \A j \in Objects \ {k} : obj'[j] = obj[j]
  BY ObjectWritten, Zenon DEF Shaped
<1>2. \/ rec.i = Len(Order) /\ Forward(r) = Idle
      \/ /\ rec.i < Len(Order) /\ Forward(r) \in Reconciliations
         /\ Forward(r).i = rec.i + 1 /\ Forward(r).pc = "deploy"
         /\ Forward(r).driver = rec.driver /\ Forward(r).fresh = rec.fresh
         /\ Forward(r).read = rec.read /\ Forward(r).versions = r.versions
  BY <1>0, ForwardMoves, Zenon DEF AfterCall
<1>3. Shaped'
  BY <1>1, <1>2, Zenon DEF Shaped
<1>4. Counted'
  BY BoundsAssumption DEF Counted, Event, MaxBirths
<1>5. Copies'
  BY <1>0, <1>2 DEF Copies, Running, Reason, Exists
<1>6. Finalized'
  <2>1. cr' # NoDriver /\ cr'.finalizer
    <3>1. MayDeploy(rec.driver)
      BY <1>0, RecTyped, NothingIsApart DEF Copies, MayDeploy
    <3>. QED
      BY <1>0, <3>1, Zenon DEF Finalized
  <2>. QED
    BY <1>2, <2>1 DEF Finalized, ClusterObjectsHaveFinalizer, Running, Idle
<1>7. OwnersKept'
  <2>1. Inputs \cup Deployed \subseteq Objects
    BY Zenon DEF Inputs, Deployed
  <2>. QED
    BY <1>1, <2>1, Zenon DEF OwnersKept, Exists, Owned
<1>8. Settled'
  <2>. SUFFICES ASSUME Calm' PROVE Settled'
    BY Zenon DEF Settled
  <2>1. Calm /\ rec' = Forward(r)
    BY DEF Calm
  <2>2. /\ StatusDone' /\ \A w \in Deployed : rec.read[w] = cache'[w]
        /\ \A j \in Inputs \cap (Passed \cup {k}) :
              InputDone(j)' /\ IsVersion(j, r.versions[j])'
        /\ \A w \in Deployed \cap (Passed \cup {k}) : WorkloadDone(w)'
    BY <1>1, <2>1, PassedNext, Zenon
  <2>3. Passed \cup {k} = {Order[j] : j \in 1..rec.i}
    <3>1. /\ \A j \in 1..(rec.i - 1) : j \in 1..rec.i
          /\ \A j \in 1..rec.i : j \in 1..(rec.i - 1) \/ j = rec.i
          /\ rec.i \in 1..rec.i
      BY <1>0, OrderOfObjects, PlacesUpTo, Zenon
    <3>2. ASSUME NEW x \in Passed \cup {k} PROVE x \in {Order[j] : j \in 1..rec.i}
      BY <1>0, <3>1, Zenon DEF Passed
    <3>3. ASSUME NEW x \in {Order[j] : j \in 1..rec.i} PROVE x \in Passed \cup {k}
      BY <1>0, <3>1, Zenon DEF Passed
    <3>. QED
      BY <3>2, <3>3, Zenon
  <2>4. CASE Forward(r) = Idle
    <3>1. rec.i = Len(Order)
      BY <1>2, <2>4, NothingIsApart, Zenon
    <3>2. Inputs \cup Deployed \subseteq Passed \cup {k}
      BY <2>3, <3>1, OrderOfObjects, Zenon DEF Inputs, Deployed
    <3>. QED
      BY <2>1, <2>2, <2>4, <3>2, Zenon DEF Settled, Running
  <2>5. CASE Forward(r) # Idle
    <3>1. /\ rec'.i = rec.i + 1 /\ rec'.pc = "deploy" /\ Running'
          /\ rec'.read = rec.read /\ rec'.versions = r.versions
      BY <1>2, <2>1, <2>5, Zenon DEF Running
    <3>2. Passed' = Passed \cup {k}
      <4>1. rec'.i - 1 = rec.i
        BY <1>0, <3>1, OrderOfObjects, PlacesUpTo, Zenon
      <4>. QED
        BY <2>3, <4>1, Zenon DEF Passed
    <3>3. \A j \in Inputs \cap Passed' : IsVersion(j, rec.versions[j])'
      BY <2>2, <3>1, <3>2, Zenon DEF IsVersion
    <3>4. /\ \A j \in Inputs \cap Passed' : InputDone(j)'
          /\ \A w \in Deployed \cap Passed' : WorkloadDone(w)'
          /\ StatusDone' /\ \A w \in Deployed : rec'.read[w] = cache'[w]
      BY <2>2, <3>1, <3>2, Zenon
    <3>. QED
      BY <3>1, <3>3, <3>4, Zenon DEF Settled
  <2>. QED
    BY <2>4, <2>5, Zenon
<1>. QED
  BY <1>3, <1>4, <1>5, <1>6, <1>7, <1>8, Zenon

\* The two ends of a write.
LEMMA PutEnds ==
    ASSUME NEW k, NEW accepted, NEW o, NEW next, Put(k, accepted, o, next)
    PROVE  /\ UNCHANGED cr /\ (UNCHANGED events \/ Event)
           /\ obj' = obj \/ obj' = [obj EXCEPT ![k] = o]
           /\ \/ rec' = Idle /\ queued' = TRUE
              \/ /\ accepted /\ obj' = [obj EXCEPT ![k] = o]
                 /\ rec' = next /\ UNCHANGED queued
BY Zenon DEF Put, Then, Error

\* The reconciliation notes the version of an input.
LEMMA VersionNoted ==
    ASSUME rec \in Reconciliations, NEW k \in Inputs, NEW v \in Versions,
           NEW r, r = [rec EXCEPT !.versions[k] = v]
    PROVE  AfterCall(k, r) /\ r.versions[k] = v
<1>1. /\ rec.versions \in [Inputs -> Versions]
      /\ [rec.versions EXCEPT ![k] = v] \in [Inputs -> Versions]
  BY DEF Reconciliations
<1>2. r.versions = [rec.versions EXCEPT ![k] = v]
  BY DEF Reconciliations
<1>3. /\ r \in Reconciliations /\ r.pc = rec.pc /\ r.i = rec.i /\ r.driver = rec.driver
      /\ r.fresh = rec.fresh /\ r.read = rec.read
  BY <1>1 DEF Reconciliations
<1>. QED
  BY <1>1, <1>2, <1>3, Zenon DEF AfterCall

\* The BeegfsDriver that a reconciliation deploys for may own an object, and
\* if no event is to come it is the one on the server.
LEMMA Deployer ==
    ASSUME OperatorInv, NEW k, Deploying(k)
    PROVE  /\ rec \in Reconciliations /\ rec.driver \in Drivers /\ Running
           /\ Owner(k) \in Owners
           /\ k \notin ClusterScoped => Owner(k) # Nobody
           /\ Calm => rec.driver = cr
           /\ Calm /\ k \notin ClusterScoped => Owner(k) = cr.uid
<1>1. rec.pc = "deploy" /\ Running
  BY AtCall DEF Deploying
<1>2. rec \in Reconciliations /\ rec.driver \in Drivers
  BY <1>1, RecTyped, Zenon DEF OperatorInv
<1>3. Calm => rec.driver = cr
  BY <1>1, Zenon DEF OperatorInv, Copies, Calm
<1>4. rec.driver.uid \in 1..MaxBirths
  BY <1>2 DEF Drivers
<1>5. /\ Owner(k) \in Owners
      /\ k \notin ClusterScoped => Owner(k) # Nobody /\ Owner(k) = rec.driver.uid
  BY <1>4, BoundsAssumption DEF Owner, Owners, Nobody, MaxBirths
<1>. QED
  BY <1>1, <1>2, <1>3, <1>5, Zenon

\* An object that is not watched.
LEMMA DeployPlainStep ==
    ASSUME OperatorInv, NEW k \in Objects \cap (Namespaced \cup ClusterScoped),
           DeployPlain(k)
    PROVE  OperatorInv'
<1>. DEFINE o == [owner |-> Owner(k), edited |-> FALSE]
<1>1. Deploying(k) /\ UNCHANGED <<cached, births>>
  BY Zenon DEF DeployPlain
<1>2. rec \in Reconciliations /\ Owner(k) \in Owners
  BY <1>1, Deployer, Zenon
<1>3. k \notin Inputs \cup Deployed
  BY DEF Namespaced, ClusterScoped, Inputs, Versioned, Secrets, Deployed, Workloads
<1>4. o \in ObjectsOf(k)
  <2>1. o \in PlainObjects
    BY <1>2 DEF PlainObjects
  <2>. QED
    BY <2>1, Kinds, Zenon
<1>5. \/ \E accepted : Put(k, accepted, o, Forward(rec))
      \/ rec' = Forward(rec) /\ UNCHANGED <<api, queued, events>>
  BY Zenon DEF DeployPlain, Keep
<1>. HIDE DEF o
<1>6. /\ UNCHANGED cr /\ (UNCHANGED events \/ Event)
      /\ obj' = obj \/ obj' = [obj EXCEPT ![k] = o]
      /\ \/ rec' = Idle /\ queued' = TRUE
         \/ rec' = Forward(rec) /\ UNCHANGED queued
  BY <1>5, PutEnds, Zenon DEF api
<1>7. PICK r : r = rec
  OBVIOUS
<1>8. AfterCall(k, r) /\ PassedWell(k, r)
  BY <1>2, <1>3, <1>7, Zenon DEF AfterCall, PassedWell
<1>. QED
  BY <1>1, <1>3, <1>4, <1>6, <1>7, <1>8, DeployStep, Zenon

\* A Secret: created, or noted as it is in the cache.
LEMMA DeploySecretStep ==
    ASSUME OperatorInv, NEW k \in Objects \cap Secrets, DeploySecret(k)
    PROVE  OperatorInv'
<1>. DEFINE o == [owner |-> Owner(k), version |-> NewVersion(k)]
<1>1. /\ Deploying(k) /\ UNCHANGED <<cached, births>>
      /\ \/ /\ Exists(cache[k])
            /\ rec' = Forward([rec EXCEPT !.versions[k] = cache[k].version])
            /\ UNCHANGED <<api, queued, events>>
         \/ /\ ~Exists(cache[k])
            /\ Put(k, ~Exists(obj[k]), o, Forward([rec EXCEPT !.versions[k] = o.version]))
  BY Zenon DEF DeploySecret, Keep
<1>2. /\ k \in Inputs /\ k \notin Deployed /\ k \notin ClusterScoped
      /\ k # "configMap"
  BY DEF ClusterScoped, Inputs, Versioned, Secrets, Deployed, Workloads
<1>3. /\ rec \in Reconciliations /\ Owner(k) \in Owners
      /\ Calm => Owner(k) = cr.uid
  BY <1>1, <1>2, Deployer, Zenon
<1>4. /\ NewVersion(k) \in Versions
      /\ Exists(cache[k]) => cache[k].version \in Versions
  <2>1. Exists(cache[k]) => cache[k] \in SecretObjects
    BY Kinds, Zenon DEF OperatorInv, Shaped, Exists
  <2>. QED
    BY <1>2, <2>1, NewVersions DEF OperatorInv, SecretObjects
<1>5. o \in SecretObjects /\ o.owner = Owner(k) /\ o.version = NewVersion(k)
  BY <1>3, <1>4 DEF SecretObjects
<1>6. o \in ObjectsOf(k) /\ Exists(o)
  BY <1>5, Kinds, NothingIsApart, Zenon DEF Exists
<1>. HIDE DEF o
<1>7. CASE Exists(cache[k])
  <2>1. PICK v : v = cache[k].version
    OBVIOUS
  <2>2. PICK r : r = [rec EXCEPT !.versions[k] = v]
    BY Zenon
  <2>3. AfterCall(k, r) /\ r.versions[k] = v
    BY <1>2, <1>3, <1>4, <1>7, <2>1, <2>2, VersionNoted, Zenon
  <2>4. rec' = Forward(r) /\ UNCHANGED <<api, cached, births, queued, events>>
    BY <1>1, <1>7, <2>1, <2>2, Zenon
  <2>5. PassedWell(k, r)
    BY <1>2, <1>7, <2>1, <2>3, <2>4
    DEF PassedWell, InputDone, Arriving, IsVersion, api, cached, Exists
  <2>. QED
    BY <1>1, <1>6, <2>3, <2>4, <2>5, DeployStep, Zenon DEF api
<1>8. CASE ~Exists(cache[k])
  <2>1. PICK v : v = o.version
    OBVIOUS
  <2>2. PICK r : r = [rec EXCEPT !.versions[k] = v]
    BY Zenon
  <2>3. AfterCall(k, r) /\ r.versions[k] = v
    BY <1>2, <1>3, <1>4, <1>5, <2>1, <2>2, VersionNoted, Zenon
  <2>4. Put(k, ~Exists(obj[k]), o, Forward(r))
    BY <1>1, <1>8, <2>1, <2>2, Zenon
  <2>5. /\ UNCHANGED cr /\ (UNCHANGED events \/ Event)
        /\ obj' = obj \/ obj' = [obj EXCEPT ![k] = o]
        /\ \/ rec' = Idle /\ queued' = TRUE
           \/ obj' = [obj EXCEPT ![k] = o] /\ rec' = Forward(r) /\ UNCHANGED queued
    BY <2>4, PutEnds, Zenon
  <2>6. ASSUME Calm' PROVE PassedWell(k, r)
    <3>1. /\ obj'[k] = o /\ UNCHANGED <<cr, cache>> /\ Owner(k) = cr.uid
      BY <1>1, <1>3, <2>5, <2>6 DEF Calm, cached, OperatorInv, Shaped
    <3>. QED
      BY <1>2, <1>5, <1>6, <2>1, <2>3, <3>1, Zenon
      DEF PassedWell, InputDone, Arriving, IsVersion, Exists
  <2>7. ~(Exists(cache[k]) /\ ~Owned(cache[k])) /\ k \in Secrets
    BY <1>8, Zenon
  <2>. QED
    BY <1>1, <1>6, <2>3, <2>5, <2>6, <2>7, DeployStep, Zenon
<1>. QED
  BY <1>7, <1>8, Zenon

\* The ConfigMap: created, brought up to date, or noted as it is in the cache.
LEMMA DeployConfigMapStep ==
    ASSUME OperatorInv, DeployConfigMap
    PROVE  OperatorInv'
<1>. DEFINE k == "configMap"
            config == rec.driver.spec.config
            same == Exists(obj[k]) /\ obj[k].owner = Owner(k) /\ obj[k].config = config
            version == IF same THEN obj[k].version ELSE NewVersion(k)
            o == [owner |-> Owner(k), version |-> version, config |-> config]
<1>1. /\ Deploying(k) /\ UNCHANGED <<cached, births>>
      /\ \/ /\ ~Exists(cache[k]) \/ cache[k].config # config
            /\ \E accepted : Put(k, accepted, o, Forward([rec EXCEPT !.versions[k] = version]))
         \/ /\ Exists(cache[k]) /\ cache[k].config = config
            /\ rec' = Forward([rec EXCEPT !.versions[k] = cache[k].version])
            /\ UNCHANGED <<api, queued, events>>
  BY Zenon DEF DeployConfigMap, Keep
<1>2. /\ k \in Objects /\ k \in Inputs /\ k \notin Deployed /\ k \notin ClusterScoped
      /\ k \notin Secrets
  <2>1. rec.i \in 1..Len(Order) /\ k = Order[rec.i]
    BY <1>1, AtCall, RecTyped DEF Deploying, OperatorInv
  <2>. QED
    BY <2>1, OrderOfObjects
    DEF ClusterScoped, Inputs, Versioned, Secrets, Deployed, Workloads
<1>3. /\ rec \in Reconciliations /\ Owner(k) \in Owners /\ Owner(k) # Nobody
      /\ Calm => Owner(k) = cr.uid /\ config = cr.spec.config
      /\ rec.driver \in Drivers
  BY <1>1, <1>2, Deployer, Zenon
<1>4. /\ version \in Versions
      /\ Exists(cache[k]) => cache[k].version \in Versions
  <2>1. /\ Exists(cache[k]) => cache[k] \in ConfigMaps
        /\ Exists(obj[k]) => obj[k] \in ConfigMaps
    BY <1>2, Kinds, Zenon DEF OperatorInv, Shaped, Exists
  <2>2. NewVersion(k) \in Versions
    BY <1>2, NewVersions, Zenon DEF OperatorInv
  <2>3. /\ Exists(cache[k]) => cache[k].version \in Versions
        /\ Exists(obj[k]) => obj[k].version \in Versions
    BY <2>1 DEF ConfigMaps
  <2>. QED
    BY <2>2, <2>3, Zenon
<1>. HIDE DEF version
<1>5. o \in ConfigMaps /\ o.owner = Owner(k) /\ o.version = version /\ o.config = config
  <2>1. config \in Configs
    BY <1>3 DEF Drivers, Configs
  <2>. QED
    BY <1>3, <1>4, <2>1 DEF ConfigMaps
<1>6. o \in ObjectsOf(k) /\ Exists(o) /\ Owned(o)
  BY <1>3, <1>5, Kinds, NothingIsApart, Zenon DEF Exists, Owned
<1>7. ~(Exists(cache[k]) /\ ~Owned(cache[k]))
  BY <1>2, Zenon DEF OperatorInv, OwnersKept
<1>. HIDE DEF o, config
<1>8. CASE Exists(cache[k]) /\ cache[k].config = config
  <2>1. PICK v : v = cache[k].version
    OBVIOUS
  <2>2. PICK r : r = [rec EXCEPT !.versions[k] = v]
    BY Zenon
  <2>3. AfterCall(k, r) /\ r.versions[k] = v
    BY <1>2, <1>3, <1>4, <1>8, <2>1, <2>2, VersionNoted, Zenon
  <2>4. rec' = Forward(r) /\ UNCHANGED <<api, cached, births, queued, events>>
    BY <1>1, <1>8, <2>1, <2>2, Zenon
  <2>5. ASSUME Calm' PROVE PassedWell(k, r)
    <3>1. Calm /\ UNCHANGED <<cr, obj, cache>>
      BY <2>4, <2>5, Zenon DEF Calm, api, cached
    <3>. QED
      BY <1>2, <1>3, <1>8, <2>1, <2>3, <3>1
      DEF PassedWell, InputDone, Arriving, IsVersion, Exists
  <2>. HIDE DEF k
  <2>. QED
    BY <1>1, <1>2, <1>6, <2>3, <2>4, <2>5, DeployStep, Zenon DEF api
<1>9. CASE ~Exists(cache[k]) \/ cache[k].config # config
  <2>1. PICK v \in Versions : v = version
    BY <1>4, Zenon
  <2>2. PICK r : r = [rec EXCEPT !.versions[k] = v]
    BY Zenon
  <2>3. AfterCall(k, r) /\ r.versions[k] = v
    <3>1. rec \in Reconciliations /\ k \in Inputs
      BY <1>2, <1>3, Zenon
    <3>. HIDE DEF k
    <3>. QED
      BY <2>2, <3>1, VersionNoted, Zenon
  <2>4. \E accepted : Put(k, accepted, o, Forward(r))
    BY <1>1, <1>9, <2>1, <2>2, Zenon
  <2>5. /\ UNCHANGED cr /\ (UNCHANGED events \/ Event)
        /\ obj' = obj \/ obj' = [obj EXCEPT ![k] = o]
        /\ \/ rec' = Idle /\ queued' = TRUE
           \/ obj' = [obj EXCEPT ![k] = o] /\ rec' = Forward(r) /\ UNCHANGED queued
    BY <2>4, PutEnds, Zenon
  <2>6. ASSUME Calm' PROVE PassedWell(k, r)
    <3>1. /\ obj'[k] = o /\ UNCHANGED <<cr, cache>>
          /\ Owner(k) = cr.uid /\ config = cr.spec.config
      BY <1>1, <1>2, <1>3, <2>5, <2>6 DEF Calm, cached, OperatorInv, Shaped
    <3>. QED
      BY <1>2, <1>5, <1>6, <2>1, <2>3, <3>1, Zenon
      DEF PassedWell, InputDone, Arriving, IsVersion, Exists
  <2>. HIDE DEF k
  <2>. QED
    BY <1>1, <1>2, <1>6, <1>7, <2>3, <2>5, <2>6, DeployStep, Zenon
<1>. QED
  BY <1>8, <1>9, Zenon

\* The pod template that Reconcile computes from a spec.
LEMMA TemplateOfSpec ==
    ASSUME NEW versions \in [Inputs -> Versions], NEW spec \in Specs,
           NEW t, t = Template(versions, spec)
    PROVE  /\ t \in Templates /\ t.versions = versions
           /\ t.image = (IF spec.image = Unset THEN Default ELSE spec.image)
           /\ t.level = (IF spec.level = Unset THEN Default ELSE spec.level)
           /\ t.affinity = spec.affinity
           /\ t.limit = spec.limit
<1>. DEFINE a == setResourceVersionAnnotations(Manifest, versions)
            b == setImages(a, spec)
            c == setLogLevel(b, spec)
            d == setNodeAffinity(c, spec)
<1>0. /\ spec.image \in {s.image : s \in Specs} /\ spec.level \in {s.level : s \in Specs}
      /\ spec.affinity \in {s.affinity : s \in Specs}
      /\ spec.limit \in {s.limit : s \in Specs}
  OBVIOUS
<1>1. /\ a \in Templates /\ a.versions = versions /\ a.image = Default
      /\ a.level = Default /\ a.limit = Unset
  BY DEF setResourceVersionAnnotations, Manifest, Templates
<1>. HIDE DEF a
<1>2. /\ b \in Templates /\ b.versions = versions
      /\ b.image = (IF spec.image = Unset THEN Default ELSE spec.image)
      /\ b.level = Default /\ b.limit = Unset
  BY <1>0, <1>1 DEF setImages, Templates
<1>. HIDE DEF b
<1>3. /\ c \in Templates /\ c.versions = versions /\ c.image = b.image
      /\ c.level = (IF spec.level = Unset THEN Default ELSE spec.level)
      /\ c.limit = Unset
  BY <1>0, <1>2 DEF setLogLevel, Templates
<1>. HIDE DEF c
<1>4. /\ d \in Templates /\ d.versions = versions /\ d.image = b.image
      /\ d.level = c.level /\ d.affinity = spec.affinity /\ d.limit = Unset
  BY <1>0, <1>3 DEF setNodeAffinity, Templates
<1>. HIDE DEF d
<1>5. t = setResources(d, spec)
  BY Zenon DEF Template, a, b, c, d
<1>6. /\ t \in Templates /\ t.versions = versions /\ t.image = b.image
      /\ t.level = c.level /\ t.affinity = spec.affinity /\ t.limit = spec.limit
  BY <1>0, <1>4, <1>5 DEF setResources, Templates
<1>. QED
  BY <1>2, <1>3, <1>6

\* A template that was computed now, or of which a computed one derives, fits
\* when every input has been passed.
LEMMA DerivedFits ==
    ASSUME OperatorInv, NEW w \in Deployed, Deploying(w), Calm,
           UNCHANGED <<cr, cache>>, \A j \in Objects \ {w} : obj'[j] = obj[j],
           NEW u, DeepDerivative(Template(rec.versions, rec.driver.spec), u)
    PROVE  Fits(u)'
<1>1. /\ rec \in Reconciliations /\ rec.driver = cr /\ cr \in Drivers /\ Running
      /\ rec.pc = "deploy" /\ w = Order[rec.i]
  BY Deployer, Zenon DEF Deploying
<1>2. /\ rec.versions \in [Inputs -> Versions] /\ rec.i \in 1..Len(Order)
      /\ cr.spec \in Specs
  BY <1>1 DEF Reconciliations, Drivers
<1>3. PICK t : t = Template(rec.versions, cr.spec)
  OBVIOUS
<1>4. /\ t.versions = rec.versions
      /\ t.image = (IF cr.spec.image = Unset THEN Default ELSE cr.spec.image)
      /\ t.level = (IF cr.spec.level = Unset THEN Default ELSE cr.spec.level)
      /\ t.affinity = cr.spec.affinity
      /\ t.limit = cr.spec.limit
  BY <1>2, <1>3, TemplateOfSpec
<1>5. /\ u.versions = rec.versions /\ u.image = t.image /\ u.level = t.level
      /\ t.affinity # Unset => u.affinity = t.affinity
      /\ t.limit # Unset => u.limit = t.limit
  BY <1>1, <1>3, <1>4 DEF DeepDerivative
<1>6. ASSUME NEW k \in Inputs PROVE IsVersion(k, u.versions[k])'
  <2>1. k \in Objects /\ k # w
    BY DEF Inputs, Versioned, Secrets, Deployed, Workloads
  <2>2. k \in Passed
    <3>1. PICK i \in 1..Len(Order) : k = Order[i]
      BY <2>1, OrderOfObjects, Zenon
    <3>2. i < rec.i
      BY <1>1, <1>2, <3>1, OrderOfObjects
    <3>. QED
      BY <1>2, <3>1, <3>2, OrderOfObjects DEF Passed
  <2>3. IsVersion(k, rec.versions[k])
    BY <1>1, <2>2, Zenon DEF OperatorInv, Settled
  <2>. QED
    BY <1>5, <2>1, <2>3 DEF IsVersion, Owned, Exists
<1>. QED
  BY <1>4, <1>5, <1>6 DEF Fits

\* A workload: created, brought up to date, or left alone.
LEMMA DeployWorkloadStep ==
    ASSUME OperatorInv, NEW w \in Deployed, DeployWorkload(w)
    PROVE  OperatorInv'
<1>. DEFINE t == Template(rec.versions, rec.driver.spec)
            pods == IF Exists(obj[w]) THEN obj[w].pods ELSE "PodsNotScheduled"
            o == [owner |-> Owner(w), pods |-> pods, template |-> t]
            created == rec.driver.status[w] # "ServiceNotCreated"
<1>1. /\ Deploying(w) /\ UNCHANGED <<cached, births>>
      /\ \/ /\ created /\ DeepDerivative(t, rec.read[w].template)
            /\ rec' = Forward(rec) /\ UNCHANGED <<api, queued, events>>
         \/ \E accepted : Put(w, accepted, o, Forward(rec))
  BY Zenon DEF DeployWorkload, Keep
<1>2. /\ w \in Objects /\ w \in Workloads /\ w \notin Inputs
      /\ w \notin ClusterScoped /\ w \notin Secrets
  BY DEF Deployed, Workloads, Inputs, Versioned, Secrets, ClusterScoped
<1>3. /\ rec \in Reconciliations /\ rec.driver \in Drivers /\ Running
      /\ Owner(w) \in Owners /\ Owner(w) # Nobody
      /\ Calm => Owner(w) = cr.uid
  BY <1>1, <1>2, Deployer, Zenon
<1>4. t \in Templates
  <2>1. rec.versions \in [Inputs -> Versions] /\ rec.driver.spec \in Specs
    BY <1>3 DEF Reconciliations, Drivers
  <2>. QED
    BY <2>1, TemplateOfSpec, Zenon
<1>5. pods \in PodReasons
  <2>1. Exists(obj[w]) => obj[w] \in WorkloadObjects
    BY <1>2, Kinds, Zenon DEF OperatorInv, Shaped, Exists
  <2>. QED
    BY <2>1 DEF WorkloadObjects, PodReasons
<1>. HIDE DEF t, pods
<1>6. o \in WorkloadObjects /\ o.owner = Owner(w) /\ o.template = t
  BY <1>3, <1>4, <1>5 DEF WorkloadObjects
<1>7. o \in ObjectsOf(w) /\ Exists(o) /\ Owned(o)
  BY <1>2, <1>3, <1>6, Kinds, NothingIsApart, Zenon DEF Exists, Owned
<1>. HIDE DEF o
<1>8. /\ UNCHANGED cr /\ (UNCHANGED events \/ Event)
      /\ obj' = obj \/ obj' = [obj EXCEPT ![w] = o]
      /\ \/ rec' = Idle /\ queued' = TRUE
         \/ rec' = Forward(rec) /\ UNCHANGED queued
  BY <1>1, PutEnds, Zenon DEF api
<1>9. ~(Exists(cache[w]) /\ ~Owned(cache[w]))
  BY <1>2, Zenon DEF OperatorInv, OwnersKept
<1>10. PICK r : r = rec
  OBVIOUS
<1>11. ASSUME Calm' PROVE WorkloadDone(w)'
  <2>1. /\ Calm /\ UNCHANGED <<cr, cache>>
        /\ \A j \in Objects \ {w} : obj'[j] = obj[j]
    BY <1>1, <1>2, <1>8, <1>11 DEF Calm, cached, OperatorInv, Shaped
  <2>2. rec.read[w] = cache[w] /\ rec.driver.status[w] = Reason(cache[w])
    BY <1>1, <1>3, <2>1 DEF Deploying, OperatorInv, Settled, Copies
  <2>3. created => Exists(cache[w])
    BY <2>2, Zenon DEF Reason
  <2>4. CASE created /\ DeepDerivative(t, rec.read[w].template) /\ obj' = obj
    <3>1. PICK u : u = cache[w].template
      OBVIOUS
    <3>2. Fits(u)'
      BY <1>1, <2>1, <2>2, <2>4, <3>1, DerivedFits, Zenon DEF t
    <3>. QED
      BY <2>1, <2>3, <2>4, <3>1, <3>2, Zenon DEF WorkloadDone, Arriving, Exists
  <2>5. CASE obj'[w] = o
    <3>1. Arriving(w)'
      BY <1>3, <1>6, <1>7, <2>1, <2>5, Zenon DEF Arriving, Exists
    <3>2. PICK u : u = t
      OBVIOUS
    <3>3. Fits(u)'
      <4>1. DeepDerivative(t, u)
        BY <3>2 DEF DeepDerivative
      <4>. QED
        BY <1>1, <2>1, <4>1, DerivedFits, Zenon DEF t
    <3>. QED
      BY <1>6, <2>5, <3>1, <3>2, <3>3, Zenon DEF WorkloadDone
  <2>6. \/ created /\ DeepDerivative(t, rec.read[w].template) /\ obj' = obj
        \/ obj'[w] = o
    <3>1. ASSUME NEW accepted, Put(w, accepted, o, Forward(rec))
          PROVE  obj'[w] = o
      <4>1. obj' = [obj EXCEPT ![w] = o]
        BY <1>11, <3>1, PutEnds, Zenon DEF Calm
      <4>. QED
        BY <1>2, <4>1, Zenon DEF OperatorInv, Shaped
    <3>. QED
      BY <1>1, <3>1, Zenon DEF api
  <2>. QED
    BY <2>4, <2>5, <2>6, Zenon
<1>12. AfterCall(w, r) /\ (Calm' => PassedWell(w, r))
  BY <1>2, <1>3, <1>10, <1>11, Zenon DEF AfterCall, PassedWell
<1>. QED
  BY <1>1, <1>2, <1>7, <1>8, <1>9, <1>10, <1>12, DeployStep, Zenon

(***************************************************************************)
(* The theorems.                                                           *)
(***************************************************************************)
LEMMA OperatorStart ==
    ASSUME Init
    PROVE  OperatorInv
<1>. USE DEF Init
<1>1. Shaped
  <2>1. \A k \in Objects : Absent \in ObjectsOf(k)
    BY Zenon DEF ObjectsOf
  <2>. QED
    BY <2>1, Zenon DEF Shaped
<1>2. Counted
  BY BoundsAssumption DEF Counted, MaxBirths
<1>3. ~Running /\ ~Installed /\ ~MayDeploy(seen)
  BY Zenon DEF Running, Installed, MayDeploy
<1>4. Copies
  BY <1>3, Zenon DEF Copies
<1>5. \A k \in Objects : ~Exists(obj[k]) /\ ~Exists(cache[k])
  BY Zenon DEF Exists
<1>6. Finalized
  BY <1>3, <1>5, Zenon DEF Finalized, ClusterObjectsHaveFinalizer, Cluster
<1>7. OwnersKept
  BY <1>5, Zenon DEF OwnersKept, Inputs, Deployed
<1>8. Settled
  BY <1>3, Zenon DEF Settled
<1>. QED
  BY <1>1, <1>2, <1>4, <1>6, <1>7, <1>8, Zenon DEF OperatorInv

LEMMA OperatorStep ==
    ASSUME OperatorInv, [Next]_vars
    PROVE  OperatorInv'
<1>1. ASSUME Reconcile PROVE OperatorInv'
  BY <1>1, BeginStep, UpdateStatusStep, AddFinalizerStep, BeginDeletionStep,
     DeleteObjectStep, RemoveFinalizerStep, DeployConfigMapStep, DeploySecretStep,
     DeployPlainStep, DeployWorkloadStep, Zenon DEF Reconcile
<1>2. ASSUME CallFails PROVE OperatorInv'
  BY <1>2, ErrorStep, Zenon DEF CallFails
<1>3. ASSUME User PROVE OperatorInv'
  BY <1>3, CreateDriverStep, EditDriverStep, DeleteDriverStep, EditSecretStep,
     EditConfigMapStep, EditRulesStep, PodsChangeStep, Zenon DEF User
<1>4. ASSUME UNCHANGED vars PROVE OperatorInv'
  <2>. USE <1>4 DEF vars, api, cached
  <2>1. Shaped' /\ Counted'
    BY Zenon DEF OperatorInv, Shaped, Counted
  <2>2. Copies'
    BY Zenon DEF OperatorInv, Copies, Running, Reason, Exists
  <2>3. Finalized'
    BY Zenon
    DEF OperatorInv, Finalized, ClusterObjectsHaveFinalizer, MayDeploy, Exists, Running
  <2>4. OwnersKept'
    BY Zenon DEF OperatorInv, OwnersKept, Exists, Owned
  <2>5. Settled'
    <3>1. \A k \in Inputs \cup Deployed : StaysDone(k)
      BY Zenon DEF StaysDone, InputDone, IsVersion, Arriving, Exists, Owned
    <3>. QED
      BY <3>1, SettledFrame, Zenon DEF OperatorInv, Calm
  <2>. QED
    BY <2>1, <2>2, <2>3, <2>4, <2>5, Zenon DEF OperatorInv
<1>. QED
  BY <1>1, <1>2, <1>3, <1>4, SyncDriverStep, ResyncStep, CrashStep, SyncObjectStep,
     CollectGarbageStep, Zenon DEF Next

LEMMA OperatorInvariant == Spec => []OperatorInv
BY OperatorStart, OperatorStep, PTL DEF Spec

\* Every variable of the operator's model stays within its values: a write of
\* an input always finds a version that neither the server nor the operator
\* remembers, and a reconciliation never leaves the list of objects.
THEOREM OperatorTypes == Spec => []TypeOK
<1>1. OperatorInv => TypeOK
  BY Zenon DEF OperatorInv, Shaped, Counted, TypeOK
<1>. QED
  BY <1>1, OperatorInvariant, PTL

\* Cluster-scoped objects exist only while the BeegfsDriver carries the
\* finalizer, whatever stale copy of it Reconcile works on, whichever of its
\* calls fails or loses its answer, and wherever the operator restarts.
THEOREM FinalizerGuards == Spec => []ClusterObjectsHaveFinalizer
<1>1. OperatorInv => ClusterObjectsHaveFinalizer
  BY Zenon DEF OperatorInv, Finalized
<1>. QED
  BY <1>1, OperatorInvariant, PTL

\* The watches suffice: when nothing is queued and every event has been seen,
\* the watched objects and the status are as the BeegfsDriver asks; for every
\* list of objects in which the inputs come before the workloads.
THEOREM WatchesSuffice == Spec => []QuietIsDeployed
<1>1. OperatorInv => QuietIsDeployed
  <2>. SUFFICES ASSUME OperatorInv, Quiet, Installed
                PROVE  /\ InputsAreAsSpecified
                       /\ (\A k \in Inputs : Owned(obj[k])) =>
                             \A w \in Deployed : WorkloadIsAsSpecified(w)
    BY Zenon DEF QuietIsDeployed
  <2>1. /\ StatusDone /\ cache = obj
        /\ \A k \in Inputs : InputDone(k)
        /\ \A w \in Deployed : WorkloadDone(w)
    BY Zenon DEF OperatorInv, Settled, Quiet, Calm, Running
  <2>2. InputsAreAsSpecified
    BY <2>1, Zenon DEF InputsAreAsSpecified, InputDone, Arriving
  <2>3. ASSUME \A k \in Inputs : Owned(obj[k]), NEW w \in Deployed
        PROVE  WorkloadIsAsSpecified(w)
    <3>1. Exists(obj[w]) /\ Fits(obj[w].template) /\ cr.status[w] = obj[w].pods
      BY <2>1, Zenon DEF WorkloadDone, Arriving, StatusDone, Reason
    <3>2. \A k \in Inputs : obj[w].template.versions[k] = obj[k].version
      BY <2>1, <2>3, <3>1, Zenon DEF Fits, IsVersion
    <3>. QED
      BY <3>1, <3>2, Zenon DEF WorkloadIsAsSpecified, Fits
  <2>. QED
    BY <2>2, <2>3, Zenon
<1>. QED
  BY <1>1, OperatorInvariant, PTL
=============================================================================
