-------------------------- MODULE NodeServerTypes ---------------------------
(***************************************************************************)
(* Types of the node service, for calls that overlap as well.  The look    *)
(* before the mount and the mount are two calls, so that mounts may stack; *)
(* but a handler goes on to mount only if it saw nothing mounted, so that  *)
(* the mounts of a path and the handlers about to add one are never more   *)
(* than the requests.                                                      *)
(***************************************************************************)
EXTENDS NodeServer, FiniteSetTheorems, TLAPS

Mounters(p) == {r \in Requests : job[r].pc = "mount" /\ job[r].place = p}
Binders(p, t) ==
    {r \in Requests : job[r].pc = "bind" /\ job[r].place = p /\ job[r].target = t}

Typed ==
    /\ job \in [Requests -> Jobs \cup {Idle}]
    /\ staged \in [Places -> [dir : BOOLEAN, conf : BOOLEAN, mounts : Nat]]
    /\ bound \in [Places -> [Targets -> Nat]]
    /\ want \in [Places -> {"unstaged", "staging", "staged", "unstaging"}]
    /\ publish \in [Places -> [Targets ->
          {"absent", "publishing", "published", "unpublishing"}]]
    /\ volDir \in [Volumes -> BOOLEAN]
    /\ csiDir \in [Volumes -> BOOLEAN]
    /\ tracked \in [Volumes -> SUBSET Nodes]
    /\ faults \in 0..MaxFaults
    /\ restarts \in 0..MaxRestarts

Stacks ==
    /\ \A p \in Places :
          staged[p].mounts + Cardinality(Mounters(p)) <= Cardinality(Requests)
    /\ \A p \in Places, t \in Targets :
          bound[p][t] + Cardinality(Binders(p, t)) <= Cardinality(Requests)

\* m mounts and handlers S about to add one, before and after a step.
StackMoves(m, S, m2, S2) ==
    \/ m2 <= m /\ S2 \subseteq S
    \/ m2 = 0
    \/ m2 = m + 1 /\ \E r \in S : S2 \subseteq S \ {r}

LEMMA StackBound ==
    ASSUME IsFiniteSet(Requests), NEW m \in Nat, NEW m2 \in Nat,
           NEW S \in SUBSET Requests, NEW S2 \in SUBSET Requests,
           m + Cardinality(S) <= Cardinality(Requests), StackMoves(m, S, m2, S2)
    PROVE  m2 + Cardinality(S2) <= Cardinality(Requests)
<1>1. /\ IsFiniteSet(S) /\ IsFiniteSet(S2)
      /\ Cardinality(S2) <= Cardinality(Requests)
  BY FS_Subset, Zenon
<1>2. /\ Cardinality(S) \in Nat /\ Cardinality(S2) \in Nat
      /\ Cardinality(Requests) \in Nat
  BY <1>1, FS_CardinalityType, Zenon
<1>3. CASE m2 <= m /\ S2 \subseteq S
  <2>1. Cardinality(S2) <= Cardinality(S)
    BY <1>1, <1>3, FS_Subset, Zenon
  <2>. QED
    BY <1>2, <1>3, <2>1
<1>4. CASE m2 = 0
  BY <1>1, <1>2, <1>4
<1>5. CASE m2 = m + 1 /\ \E r \in S : S2 \subseteq S \ {r}
  <2>1. PICK r \in S : S2 \subseteq S \ {r}
    BY <1>5, Zenon
  <2>2. IsFiniteSet(S \ {r}) /\ Cardinality(S \ {r}) = Cardinality(S) - 1
    BY <1>1, FS_RemoveElement, Zenon
  <2>3. Cardinality(S2) <= Cardinality(S \ {r})
    BY <2>1, <2>2, FS_Subset, Zenon
  <2>. QED
    BY <1>2, <1>5, <2>2, <2>3
<1>. QED
  BY <1>3, <1>4, <1>5, Zenon DEF StackMoves

\* What is left to show of a step.
LEMMA StacksKept ==
    ASSUME IsFiniteSet(Requests), Typed, Typed', Stacks,
           \A p \in Places : StackMoves(staged[p].mounts, Mounters(p),
                                        staged'[p].mounts, Mounters(p)'),
           \A p \in Places, t \in Targets :
               StackMoves(bound[p][t], Binders(p, t), bound'[p][t], Binders(p, t)')
    PROVE  Stacks'
<1>1. ASSUME NEW p \in Places
      PROVE  staged'[p].mounts + Cardinality(Mounters(p)') <= Cardinality(Requests)
  <2>1. /\ staged[p].mounts \in Nat /\ staged'[p].mounts \in Nat
        /\ Mounters(p) \in SUBSET Requests /\ Mounters(p)' \in SUBSET Requests
    BY Zenon DEF Typed, Mounters
  <2>2. staged[p].mounts + Cardinality(Mounters(p)) <= Cardinality(Requests)
    BY Zenon DEF Stacks
  <2>3. StackMoves(staged[p].mounts, Mounters(p), staged'[p].mounts, Mounters(p)')
    OBVIOUS
  <2>. HIDE DEF Mounters
  <2>. QED
    BY <2>1, <2>2, <2>3, StackBound, Zenon
<1>2. ASSUME NEW p \in Places, NEW t \in Targets
      PROVE  bound'[p][t] + Cardinality(Binders(p, t)') <= Cardinality(Requests)
  <2>1. /\ bound[p][t] \in Nat /\ bound'[p][t] \in Nat
        /\ Binders(p, t) \in SUBSET Requests /\ Binders(p, t)' \in SUBSET Requests
    BY DEF Typed, Binders
  <2>2. bound[p][t] + Cardinality(Binders(p, t)) <= Cardinality(Requests)
    BY Zenon DEF Stacks
  <2>3. StackMoves(bound[p][t], Binders(p, t), bound'[p][t], Binders(p, t)')
    OBVIOUS
  <2>. QED
    BY <2>1, <2>2, <2>3, StackBound, Zenon
<1>. QED
  BY <1>1, <1>2, Zenon DEF Stacks

\* A handler's step in its own slot: what it leaves of the job.
Moves(r) ==
    /\ job[r] \in Jobs
    /\ job' \in [Requests -> Jobs \cup {Idle}]
    /\ \A q \in Requests \ {r} : job'[q] = job[q]
    /\ job'[r].pc # "idle" => /\ job'[r].place = job[r].place
                              /\ job'[r].target = job[r].target

LEMMA MovesOn ==
    ASSUME Typed, NEW r \in Requests, job[r].pc # "idle",
           NEW point \in Points, Goto(r, point)
    PROVE  Moves(r) /\ job'[r].pc = point
<1>1. job[r] \in Jobs
  BY DEF Typed, Idle
<1>2. job'[r] = [job[r] EXCEPT !.pc = point] /\ \A q \in Requests \ {r} : job'[q] = job[q]
  BY Zenon DEF Typed, Goto
<1>3. /\ [job[r] EXCEPT !.pc = point] \in Jobs
      /\ [job[r] EXCEPT !.pc = point].pc = point
      /\ [job[r] EXCEPT !.pc = point].place = job[r].place
      /\ [job[r] EXCEPT !.pc = point].target = job[r].target
  BY <1>1, Zenon DEF Jobs
<1>4. job' \in [Requests -> Jobs \cup {Idle}]
  BY <1>3, Zenon DEF Typed, Goto
<1>. QED
  BY <1>1, <1>2, <1>3, <1>4, Zenon DEF Moves

LEMMA MovesOut ==
    ASSUME Typed, NEW r \in Requests, job[r].pc # "idle", Failure(r)
    PROVE  Moves(r) /\ job'[r].pc = "answer"
<1>. DEFINE j == [job[r] EXCEPT !.pc = "answer", !.ok = FALSE]
<1>1. job[r] \in Jobs
  BY DEF Typed, Idle
<1>2. job'[r] = j /\ \A q \in Requests \ {r} : job'[q] = job[q]
  BY Zenon DEF Typed, Failure
<1>3. /\ j \in Jobs /\ j.pc = "answer"
      /\ j.place = job[r].place /\ j.target = job[r].target
  BY <1>1, Zenon DEF Jobs, Points
<1>4. job' \in [Requests -> Jobs \cup {Idle}]
  BY <1>3, Zenon DEF Typed, Failure
<1>. QED
  BY <1>1, <1>2, <1>3, <1>4, Zenon DEF Moves

\* A handler that is not about to mount leaves those that are.
LEMMA NoMounter ==
    ASSUME NEW r \in Requests, Moves(r), job'[r].pc \notin {"mount", "bind"}
    PROVE  /\ \A p \in Places : Mounters(p)' \subseteq Mounters(p) \ {r}
           /\ \A p \in Places, t \in Targets : Binders(p, t)' \subseteq Binders(p, t) \ {r}
BY Zenon DEF Moves, Mounters, Binders

LEMMA FewerMounts ==
    ASSUME IsFiniteSet(Requests), Typed, Typed', Stacks, NEW r \in Requests,
           Moves(r), job'[r].pc \notin {"mount", "bind"},
           \A p \in Places : staged'[p].mounts <= staged[p].mounts,
           \A p \in Places, t \in Targets : bound'[p][t] <= bound[p][t]
    PROVE  Stacks'
<1>1. /\ \A p \in Places : Mounters(p)' \subseteq Mounters(p)
      /\ \A p \in Places, t \in Targets : Binders(p, t)' \subseteq Binders(p, t)
  BY NoMounter, Zenon
<1>. QED
  BY <1>1, StacksKept, Zenon DEF StackMoves

LEMMA SameIsNoMore ==
    ASSUME Typed
    PROVE  /\ \A p \in Places : staged[p].mounts <= staged[p].mounts
           /\ \A p \in Places, t \in Targets : bound[p][t] <= bound[p][t]
<1>1. ASSUME NEW p \in Places PROVE staged[p].mounts <= staged[p].mounts
  <2>1. staged[p].mounts \in Nat
    BY Zenon DEF Typed
  <2>. QED
    BY <2>1
<1>2. ASSUME NEW p \in Places, NEW t \in Targets PROVE bound[p][t] <= bound[p][t]
  <2>1. bound[p][t] \in Nat
    BY DEF Typed
  <2>. QED
    BY <2>1
<1>. QED
  BY <1>1, <1>2, Zenon

\* A call that fails, or not.
LEMMA FaultsTyped ==
    ASSUME Typed, NEW r \in Requests, UNCHANGED faults \/ CallFails(r)
    PROVE  faults' \in 0..MaxFaults
  BY NodeOptionsAssumption DEF Typed, CallFails

LEMMA LooksTyped ==
    ASSUME IsFiniteSet(Requests), Typed, Stacks, NEW r \in Requests,
           \/ StatStagingDir(r) \/ StatDirectory(r) \/ Track(r) \/ Untrack(r)
           \/ ListMounts(r)
    PROVE  Typed' /\ Stacks'
<1>. USE DEF At
<1>1. /\ job[r].pc # "idle" /\ UNCHANGED <<staged, bound, want, publish, volDir, csiDir>>
      /\ UNCHANGED restarts /\ (UNCHANGED faults \/ CallFails(r))
      /\ \/ Failure(r)
         \/ \E point \in {"write", "isMnt", "isBound", "answer", "list", "unmount"} :
               Goto(r, point)
  BY Zenon DEF StatStagingDir, StatDirectory, Track, Untrack, ListMounts, agent, beegfs, Success
<1>2. Moves(r) /\ job'[r].pc \notin {"mount", "bind"}
  <2>1. CASE Failure(r)
    BY <1>1, <2>1, MovesOut, Zenon
  <2>2. ASSUME NEW point \in {"write", "isMnt", "isBound", "answer", "list", "unmount"},
               Goto(r, point)
        PROVE  Moves(r) /\ job'[r].pc \notin {"mount", "bind"}
    <3>1. point \in Points
      BY <2>2, Zenon DEF Points
    <3>. QED
      BY <1>1, <2>2, <3>1, MovesOn, Zenon
  <2>. QED
    BY <1>1, <2>1, <2>2, Zenon
<1>3. tracked' \in [Volumes -> SUBSET Nodes]
  <2>0. Place(r) \in Places /\ NodeOf(Place(r)) \in Nodes
    BY <1>2, Zenon DEF Moves, Jobs, Place, Places, NodeOf
  <2>1. CASE Track(r)
    BY <2>0, <2>1 DEF Track, Typed
  <2>2. CASE Untrack(r)
    BY <2>0, <2>2 DEF Untrack, Typed
  <2>3. CASE StatStagingDir(r) \/ StatDirectory(r) \/ ListMounts(r)
    BY <2>3, Zenon DEF StatStagingDir, StatDirectory, ListMounts, beegfs, Typed
  <2>. QED
    BY <2>1, <2>2, <2>3, Zenon
<1>4. Typed'
  BY <1>1, <1>2, <1>3, FaultsTyped, Zenon DEF Typed, Moves
<1>5. /\ \A p \in Places : staged'[p].mounts <= staged[p].mounts
      /\ \A p \in Places, t \in Targets : bound'[p][t] <= bound[p][t]
  BY <1>1, SameIsNoMore, Zenon
<1>. QED
  BY <1>2, <1>4, <1>5, FewerMounts, Zenon

\* The looks before a mount: who goes on has seen none.
LEMMA MountLooksTyped ==
    ASSUME IsFiniteSet(Requests), Typed, Stacks, NEW r \in Requests,
           IsLikelyNotMountPoint(r) \/ IsMountPoint(r)
    PROVE  Typed' /\ Stacks'
<1>. USE DEF At
<1>1. /\ job[r].pc # "idle"
      /\ UNCHANGED <<staged, bound, want, publish, volDir, csiDir, tracked>>
      /\ UNCHANGED restarts /\ (UNCHANGED faults \/ CallFails(r))
      /\ \/ Failure(r)
         \/ \E point \in {"track", "mount", "answer", "bind"} :
               /\ Goto(r, point)
               /\ point = "mount" => ~(staged[job[r].place].mounts > 0)
               /\ point = "bind" => bound[job[r].place][job[r].target] = 0
  BY Zenon DEF IsLikelyNotMountPoint, IsMountPoint, agent, beegfs, Success, Mounted, Place
<1>2. /\ Moves(r)
      /\ job'[r].pc = "mount" => ~(staged[job[r].place].mounts > 0)
      /\ job'[r].pc = "bind" => bound[job[r].place][job[r].target] = 0
  <2>1. CASE Failure(r)
    BY <1>1, <2>1, MovesOut, Zenon
  <2>2. ASSUME NEW point \in {"track", "mount", "answer", "bind"}, Goto(r, point),
               point = "mount" => ~(staged[job[r].place].mounts > 0),
               point = "bind" => bound[job[r].place][job[r].target] = 0
        PROVE  /\ Moves(r)
               /\ job'[r].pc = "mount" => ~(staged[job[r].place].mounts > 0)
               /\ job'[r].pc = "bind" => bound[job[r].place][job[r].target] = 0
    <3>1. point \in Points
      BY <2>2, Zenon DEF Points
    <3>2. Moves(r) /\ job'[r].pc = point
      BY <1>1, <2>2, <3>1, MovesOn, Zenon
    <3>. QED
      BY <2>2, <3>2, Zenon
  <2>. QED
    BY <1>1, <2>1, <2>2, Zenon
<1>3. Typed'
  BY <1>1, <1>2, FaultsTyped, Zenon DEF Typed, Moves
<1>4. ASSUME NEW p \in Places
      PROVE  StackMoves(staged[p].mounts, Mounters(p), staged'[p].mounts, Mounters(p)')
  <2>0. staged[p].mounts \in Nat /\ staged'[p].mounts = staged[p].mounts
    BY <1>1, Zenon DEF Typed
  <2>1. CASE job'[r].pc = "mount" /\ job[r].place = p
    BY <1>2, <2>0, <2>1 DEF StackMoves
  <2>2. CASE ~(job'[r].pc = "mount" /\ job[r].place = p)
    <3>1. Mounters(p)' \subseteq Mounters(p)
      BY <1>2, <2>2, Zenon DEF Mounters, Moves
    <3>. QED
      BY <2>0, <3>1 DEF StackMoves
  <2>. QED
    BY <2>1, <2>2, Zenon
<1>5. ASSUME NEW p \in Places, NEW t \in Targets
      PROVE  StackMoves(bound[p][t], Binders(p, t), bound'[p][t], Binders(p, t)')
  <2>0. bound[p][t] \in Nat /\ bound'[p][t] = bound[p][t]
    BY <1>1, Zenon DEF Typed
  <2>1. CASE job'[r].pc = "bind" /\ job[r].place = p /\ job[r].target = t
    BY <1>2, <2>0, <2>1, Zenon DEF StackMoves
  <2>2. CASE ~(job'[r].pc = "bind" /\ job[r].place = p /\ job[r].target = t)
    <3>1. Binders(p, t)' \subseteq Binders(p, t)
      BY <1>2, <2>2, Zenon DEF Binders, Moves
    <3>. QED
      BY <2>0, <3>1 DEF StackMoves
  <2>. QED
    BY <2>1, <2>2, Zenon
<1>. QED
  BY <1>3, <1>4, <1>5, StacksKept, Zenon

\* The mounts: who was about to add one has done so, or has failed.
LEMMA MountTyped ==
    ASSUME IsFiniteSet(Requests), Typed, Stacks, NEW r \in Requests, Mount(r)
    PROVE  Typed' /\ Stacks'
<1>. USE DEF At
<1>. DEFINE p == job[r].place
<1>1. /\ job[r].pc = "mount" /\ UNCHANGED <<bound, want, publish, volDir, csiDir, tracked>>
      /\ UNCHANGED restarts /\ (UNCHANGED faults \/ CallFails(r))
      /\ \/ UNCHANGED staged /\ Failure(r)
         \/ staged' = [staged EXCEPT ![p].mounts = @ + 1] /\ Goto(r, "track")
  BY Zenon DEF Mount, agent, beegfs, Place
<1>2. Moves(r) /\ job'[r].pc \notin {"mount", "bind"}
  BY <1>1, MovesOut, MovesOn, Zenon DEF Points
<1>3. /\ \A x \in Places : Mounters(x)' \subseteq Mounters(x) \ {r}
      /\ \A x \in Places, t \in Targets : Binders(x, t)' \subseteq Binders(x, t) \ {r}
  BY <1>2, NoMounter, Zenon
<1>4. p \in Places /\ r \in Mounters(p)
  BY <1>1, <1>2, Zenon DEF Moves, Jobs, Mounters
<1>. HIDE DEF p
<1>5. /\ staged' \in [Places -> [dir : BOOLEAN, conf : BOOLEAN, mounts : Nat]]
      /\ \A x \in Places \ {p} : staged'[x].mounts = staged[x].mounts
      /\ staged'[p].mounts \in {staged[p].mounts, staged[p].mounts + 1}
  <2>1. CASE UNCHANGED staged
    BY <2>1, Zenon DEF Typed
  <2>2. CASE staged' = [staged EXCEPT ![p].mounts = @ + 1]
    <3>1. staged[p].mounts \in Nat
      BY <1>4, Zenon DEF Typed
    <3>0. staged[p] \in [dir : BOOLEAN, conf : BOOLEAN, mounts : Nat]
      BY <1>4, Zenon DEF Typed
    <3>a. [staged[p] EXCEPT !.mounts = @ + 1] \in
              [dir : BOOLEAN, conf : BOOLEAN, mounts : Nat]
      BY <3>0, <3>1
    <3>2. staged' \in [Places -> [dir : BOOLEAN, conf : BOOLEAN, mounts : Nat]]
      BY <2>2, <3>a, Zenon DEF Typed
    <3>3. /\ \A x \in Places \ {p} : staged'[x] = staged[x]
          /\ staged'[p].mounts = staged[p].mounts + 1
      BY <1>4, <2>2 DEF Typed
    <3>. QED
      BY <3>2, <3>3, Zenon
  <2>. QED
    BY <1>1, <2>1, <2>2, Zenon
<1>6. Typed'
  BY <1>1, <1>2, <1>5, FaultsTyped, Zenon DEF Typed, Moves
<1>7. ASSUME NEW x \in Places
      PROVE  StackMoves(staged[x].mounts, Mounters(x), staged'[x].mounts, Mounters(x)')
  <2>0. staged[x].mounts \in Nat
    BY Zenon DEF Typed
  <2>1. CASE staged'[x].mounts = staged[x].mounts
    BY <1>3, <2>0, <2>1 DEF StackMoves
  <2>2. CASE x = p /\ staged'[p].mounts = staged[p].mounts + 1
    BY <1>3, <1>4, <2>2, Zenon DEF StackMoves
  <2>. QED
    BY <1>5, <2>1, <2>2, Zenon
<1>8. ASSUME NEW x \in Places, NEW t \in Targets
      PROVE  StackMoves(bound[x][t], Binders(x, t), bound'[x][t], Binders(x, t)')
  <2>0. bound[x][t] \in Nat /\ bound'[x][t] = bound[x][t]
    BY <1>1 DEF Typed
  <2>. QED
    BY <1>3, <2>0 DEF StackMoves
<1>. QED
  BY <1>6, <1>7, <1>8, StacksKept, Zenon

LEMMA BindTyped ==
    ASSUME IsFiniteSet(Requests), Typed, Stacks, NEW r \in Requests, Bind(r)
    PROVE  Typed' /\ Stacks'
<1>. USE DEF At
<1>. DEFINE p == job[r].place
            u == job[r].target
<1>1. /\ job[r].pc = "bind" /\ UNCHANGED <<staged, want, publish, volDir, csiDir, tracked>>
      /\ UNCHANGED restarts /\ (UNCHANGED faults \/ CallFails(r))
      /\ \/ UNCHANGED bound /\ Failure(r)
         \/ bound' = [bound EXCEPT ![p][u] = @ + 1] /\ Goto(r, "answer")
  BY Zenon DEF Bind, agent, beegfs, Place, Success
<1>2. Moves(r) /\ job'[r].pc \notin {"mount", "bind"}
  BY <1>1, MovesOut, MovesOn, Zenon DEF Points
<1>3. /\ \A x \in Places : Mounters(x)' \subseteq Mounters(x) \ {r}
      /\ \A x \in Places, t \in Targets : Binders(x, t)' \subseteq Binders(x, t) \ {r}
  BY <1>2, NoMounter, Zenon
<1>4. p \in Places /\ r \in Binders(p, u)
  BY <1>1, <1>2, Zenon DEF Moves, Jobs, Binders
<1>. HIDE DEF p, u
<1>5. /\ bound' \in [Places -> [Targets -> Nat]]
      /\ \A x \in Places, t \in Targets :
            \/ bound'[x][t] = bound[x][t]
            \/ x = p /\ t = u /\ bound'[x][t] = bound[x][t] + 1
  <2>1. CASE UNCHANGED bound
    BY <2>1, Zenon DEF Typed
  <2>2. CASE bound' = [bound EXCEPT ![p][u] = @ + 1] /\ u \in Targets
    BY <1>4, <2>2 DEF Typed
  <2>3. CASE bound' = [bound EXCEPT ![p][u] = @ + 1] /\ u \notin Targets
    <3>1. bound[p] \in [Targets -> Nat]
      BY <1>4, Zenon DEF Typed
    <3>2. [bound[p] EXCEPT ![u] = @ + 1] = bound[p]
      BY <2>3, <3>1, Zenon
    <3>. QED
      BY <1>4, <2>3, <3>2, Zenon DEF Typed
  <2>. QED
    BY <1>1, <2>1, <2>2, <2>3, Zenon
<1>6. Typed'
  BY <1>1, <1>2, <1>5, FaultsTyped, Zenon DEF Typed, Moves
<1>7. ASSUME NEW x \in Places
      PROVE  StackMoves(staged[x].mounts, Mounters(x), staged'[x].mounts, Mounters(x)')
  <2>0. staged[x].mounts \in Nat /\ staged'[x].mounts = staged[x].mounts
    BY <1>1, Zenon DEF Typed
  <2>. QED
    BY <1>3, <2>0 DEF StackMoves
<1>8. ASSUME NEW x \in Places, NEW t \in Targets
      PROVE  StackMoves(bound[x][t], Binders(x, t), bound'[x][t], Binders(x, t)')
  <2>0. bound[x][t] \in Nat
    BY DEF Typed
  <2>1. CASE bound'[x][t] = bound[x][t]
    BY <1>3, <2>0, <2>1 DEF StackMoves
  <2>2. CASE x = p /\ t = u /\ bound'[x][t] = bound[x][t] + 1
    BY <1>3, <1>4, <2>2 DEF StackMoves
  <2>. QED
    BY <1>5, <2>1, <2>2, Zenon
<1>. QED
  BY <1>6, <1>7, <1>8, StacksKept, Zenon

\* Client files, unmounts and answers.
LEMMA StagedTyped ==
    ASSUME IsFiniteSet(Requests), Typed, Stacks, NEW r \in Requests,
           WriteClientFiles(r) \/ Unmount(r) \/ CleanUp(r)
    PROVE  Typed' /\ Stacks'
<1>. USE DEF At
<1>. DEFINE p == job[r].place
<1>1. /\ job[r].pc # "idle" /\ UNCHANGED <<bound, want, publish>>
      /\ UNCHANGED restarts /\ (UNCHANGED faults \/ CallFails(r))
      /\ Failure(r) \/ \E point \in {"ctl", "clean", "answer"} : Goto(r, point)
  BY Zenon DEF WriteClientFiles, Unmount, CleanUp, agent, beegfs, Success
<1>2. Moves(r) /\ job'[r].pc \notin {"mount", "bind"}
  <2>1. CASE Failure(r)
    BY <1>1, <2>1, MovesOut, Zenon
  <2>2. ASSUME NEW point \in {"ctl", "clean", "answer"}, Goto(r, point)
        PROVE  Moves(r) /\ job'[r].pc \notin {"mount", "bind"}
    <3>1. point \in Points
      BY <2>2, Zenon DEF Points
    <3>. QED
      BY <1>1, <2>2, <3>1, MovesOn, Zenon
  <2>. QED
    BY <1>1, <2>1, <2>2, Zenon
<1>3. p \in Places
  BY <1>2, Zenon DEF Moves, Jobs
<1>4. \/ \E c \in BOOLEAN : staged' \in {staged, [staged EXCEPT ![p].conf = c]}
      \/ staged' \in {staged, [staged EXCEPT ![p].mounts = AfterUnmount(@)]}
  BY Zenon DEF WriteClientFiles, Unmount, CleanUp, Place
<1>5. /\ volDir' \in [Volumes -> BOOLEAN] /\ csiDir' \in [Volumes -> BOOLEAN]
      /\ tracked' \in [Volumes -> SUBSET Nodes]
  BY Zenon DEF WriteClientFiles, Unmount, CleanUp, beegfs, Typed
<1>. HIDE DEF p
<1>6. /\ staged' \in [Places -> [dir : BOOLEAN, conf : BOOLEAN, mounts : Nat]]
      /\ \A x \in Places : staged'[x].mounts <= staged[x].mounts
  <2>1. CASE UNCHANGED staged
    BY <2>1, SameIsNoMore, Zenon DEF Typed
  <2>2. ASSUME NEW c \in BOOLEAN, staged' = [staged EXCEPT ![p].conf = c]
        PROVE  /\ staged' \in [Places -> [dir : BOOLEAN, conf : BOOLEAN, mounts : Nat]]
               /\ \A x \in Places : staged'[x].mounts <= staged[x].mounts
    <3>1. \A x \in Places : staged'[x].mounts = staged[x].mounts
      BY <1>3, <2>2 DEF Typed
    <3>2. staged' \in [Places -> [dir : BOOLEAN, conf : BOOLEAN, mounts : Nat]]
      <4>1. staged[p] \in [dir : BOOLEAN, conf : BOOLEAN, mounts : Nat]
        BY <1>3, Zenon DEF Typed
      <4>2. [staged[p] EXCEPT !.conf = c] \in [dir : BOOLEAN, conf : BOOLEAN, mounts : Nat]
        BY <4>1, Zenon
      <4>. QED
        BY <2>2, <4>2, Zenon DEF Typed
    <3>. QED
      BY <3>1, <3>2, SameIsNoMore, Zenon
  <2>3. CASE staged' = [staged EXCEPT ![p].mounts = AfterUnmount(@)]
    <3>1. \A x \in Places : staged[x].mounts \in Nat
      BY Zenon DEF Typed
    <3>2. /\ AfterUnmount(staged[p].mounts) \in Nat
          /\ AfterUnmount(staged[p].mounts) <= staged[p].mounts
      BY <1>3, <3>1 DEF AfterUnmount
    <3>3. staged' \in [Places -> [dir : BOOLEAN, conf : BOOLEAN, mounts : Nat]]
      <4>1. staged[p] \in [dir : BOOLEAN, conf : BOOLEAN, mounts : Nat]
        BY <1>3, Zenon DEF Typed
      <4>2. [staged[p] EXCEPT !.mounts = AfterUnmount(@)] \in
                [dir : BOOLEAN, conf : BOOLEAN, mounts : Nat]
        BY <3>2, <4>1, Zenon
      <4>. QED
        BY <2>3, <4>2, Zenon DEF Typed
    <3>4. \A x \in Places : staged'[x].mounts =
              IF x = p THEN AfterUnmount(staged[p].mounts) ELSE staged[x].mounts
      BY <1>3, <2>3 DEF Typed
    <3>. QED
      BY <3>1, <3>2, <3>3, <3>4
  <2>. QED
    BY <1>4, <2>1, <2>2, <2>3, Zenon
<1>7. Typed'
  BY <1>1, <1>2, <1>5, <1>6, FaultsTyped, Zenon DEF Typed, Moves
<1>8. \A x \in Places, t \in Targets : bound'[x][t] <= bound[x][t]
  BY <1>1, SameIsNoMore, Zenon
<1>. QED
  BY <1>2, <1>6, <1>7, <1>8, FewerMounts, Zenon

LEMMA UnbindTyped ==
    ASSUME IsFiniteSet(Requests), Typed, Stacks, NEW r \in Requests, Unbind(r)
    PROVE  Typed' /\ Stacks'
<1>. USE DEF At
<1>. DEFINE p == job[r].place
            u == job[r].target
<1>1. /\ job[r].pc # "idle" /\ UNCHANGED <<staged, want, publish, volDir, csiDir, tracked>>
      /\ UNCHANGED restarts /\ (UNCHANGED faults \/ CallFails(r))
      /\ Failure(r) \/ Goto(r, "answer")
      /\ bound' \in {bound, [bound EXCEPT ![p][u] = AfterUnmount(@)]}
  BY Zenon DEF Unbind, agent, beegfs, Place, Success
<1>2. Moves(r) /\ job'[r].pc \notin {"mount", "bind"}
  BY <1>1, MovesOut, MovesOn, Zenon DEF Points
<1>3. p \in Places
  BY <1>2, Zenon DEF Moves, Jobs
<1>. HIDE DEF p, u
<1>4. /\ bound' \in [Places -> [Targets -> Nat]]
      /\ \A x \in Places, t \in Targets : bound'[x][t] <= bound[x][t]
  <2>1. CASE UNCHANGED bound
    BY <2>1, SameIsNoMore, Zenon DEF Typed
  <2>2. CASE bound' = [bound EXCEPT ![p][u] = AfterUnmount(@)] /\ u \notin Targets
    <3>1. bound[p] \in [Targets -> Nat]
      BY <1>3, Zenon DEF Typed
    <3>2. [bound[p] EXCEPT ![u] = AfterUnmount(@)] = bound[p]
      BY <2>2, <3>1, Zenon
    <3>3. bound' = bound
      BY <1>3, <2>2, <3>2, Zenon DEF Typed
    <3>. QED
      BY <2>1, <3>3, Zenon
  <2>3. CASE bound' = [bound EXCEPT ![p][u] = AfterUnmount(@)] /\ u \in Targets
    <3>1. \A x \in Places, t \in Targets : bound[x][t] \in Nat
      BY Zenon DEF Typed
    <3>2. AfterUnmount(bound[p][u]) \in Nat /\ AfterUnmount(bound[p][u]) <= bound[p][u]
      BY <1>3, <2>3, <3>1 DEF AfterUnmount
    <3>3. bound' \in [Places -> [Targets -> Nat]]
      BY <1>3, <2>3, <3>2, Zenon DEF Typed
    <3>4. \A x \in Places, t \in Targets : bound'[x][t] =
              IF x = p /\ t = u THEN AfterUnmount(bound[p][u]) ELSE bound[x][t]
      BY <1>3, <2>3, Zenon DEF Typed
    <3>. QED
      BY <3>1, <3>2, <3>3, <3>4
  <2>. QED
    BY <1>1, <2>1, <2>2, <2>3, Zenon
<1>5. Typed'
  BY <1>1, <1>2, <1>4, FaultsTyped, Zenon DEF Typed, Moves
<1>6. \A x \in Places : staged'[x].mounts <= staged[x].mounts
  BY <1>1, SameIsNoMore, Zenon
<1>. QED
  BY <1>2, <1>4, <1>5, <1>6, FewerMounts, Zenon

LEMMA AnswerTyped ==
    ASSUME IsFiniteSet(Requests), Typed, Stacks, NEW r \in Requests, Answer(r)
    PROVE  Typed' /\ Stacks'
<1>. USE DEF At
<1>. DEFINE p == job[r].place
            t == job[r].target
<1>1. /\ job[r].pc = "answer" /\ UNCHANGED <<bound, volDir, csiDir, tracked>>
      /\ UNCHANGED restarts /\ (UNCHANGED faults \/ CallFails(r))
      /\ job' = [job EXCEPT ![r] = Idle]
      /\ \E w \in {"staged", "unstaged"} : want' \in {want, [want EXCEPT ![p] = w]}
      /\ \E w \in {"published", "absent"} :
            publish' \in {publish, [publish EXCEPT ![p][t] = w]}
      /\ staged' \in {staged, [staged EXCEPT ![p].dir = FALSE]}
  BY Zenon DEF Answer, Acknowledge, agent, beegfs
<1>2. Moves(r) /\ job'[r].pc = "idle"
  BY <1>1 DEF Moves, Typed, Idle
<1>3. p \in Places
  BY <1>2, Zenon DEF Moves, Jobs
<1>. HIDE DEF p, t
<1>4. want' \in [Places -> {"unstaged", "staging", "staged", "unstaging"}]
  BY <1>1, <1>3, Zenon DEF Typed
<1>5. publish' \in [Places -> [Targets ->
          {"absent", "publishing", "published", "unpublishing"}]]
  <2>1. PICK w \in {"published", "absent"} :
            publish' \in {publish, [publish EXCEPT ![p][t] = w]}
    BY <1>1, Zenon
  <2>2. publish[p] \in [Targets -> {"absent", "publishing", "published", "unpublishing"}]
    BY <1>3, Zenon DEF Typed
  <2>3. [publish[p] EXCEPT ![t] = w] \in
            [Targets -> {"absent", "publishing", "published", "unpublishing"}]
    BY <2>2, Zenon
  <2>. QED
    BY <1>3, <2>1, <2>3, Zenon DEF Typed
<1>6. /\ staged' \in [Places -> [dir : BOOLEAN, conf : BOOLEAN, mounts : Nat]]
      /\ \A x \in Places : staged'[x].mounts = staged[x].mounts
  <2>1. CASE UNCHANGED staged
    BY <2>1, Zenon DEF Typed
  <2>2. CASE staged' = [staged EXCEPT ![p].dir = FALSE]
    <3>0. staged[p] \in [dir : BOOLEAN, conf : BOOLEAN, mounts : Nat]
      BY <1>3, Zenon DEF Typed
    <3>1. /\ [staged[p] EXCEPT !.dir = FALSE] \in
                [dir : BOOLEAN, conf : BOOLEAN, mounts : Nat]
          /\ [staged[p] EXCEPT !.dir = FALSE].mounts = staged[p].mounts
      BY <3>0, Zenon
    <3>. QED
      BY <1>3, <2>2, <3>1, Zenon DEF Typed
  <2>. QED
    BY <1>1, <2>1, <2>2, Zenon
<1>7. Typed'
  BY <1>1, <1>2, <1>4, <1>5, <1>6, FaultsTyped, Zenon DEF Typed, Moves
<1>8. /\ \A x \in Places : staged'[x].mounts <= staged[x].mounts
      /\ \A x \in Places, y \in Targets : bound'[x][y] <= bound[x][y]
  BY <1>1, <1>6, SameIsNoMore, Zenon
<1>. QED
  BY <1>2, <1>7, <1>8, FewerMounts, Zenon

\* Arrivals, restarts and what is outside of the services.
LEMMA OthersTyped ==
    ASSUME IsFiniteSet(Requests), Typed, Typed', Stacks, UNCHANGED bound,
           \A x \in Places : staged'[x].mounts = staged[x].mounts,
           \A q \in Requests :
               job'[q].pc \in {"mount", "bind"} =>
                   /\ job'[q].pc = job[q].pc /\ job'[q].place = job[q].place
                   /\ job'[q].target = job[q].target
    PROVE  Stacks'
<1>1. /\ \A x \in Places : Mounters(x)' \subseteq Mounters(x)
      /\ \A x \in Places, t \in Targets : Binders(x, t)' \subseteq Binders(x, t)
  BY Zenon DEF Mounters, Binders
<1>2. /\ \A x \in Places : staged'[x].mounts <= staged[x].mounts
      /\ \A x \in Places, t \in Targets : bound'[x][t] <= bound[x][t]
  BY SameIsNoMore, Zenon
<1>. QED
  BY <1>1, <1>2, StacksKept, Zenon DEF StackMoves

LEMMA BeginTyped ==
    ASSUME IsFiniteSet(Requests), Typed, Stacks, NEW r \in Requests, NEW op \in Ops,
           NEW p \in Places, NEW t \in Targets \cup {NoTarget},
           NEW point \in Points \ {"mount", "bind"}, Begin(r, op, p, t, point)
    PROVE  Typed' /\ Stacks'
<1>1. ASSUME NEW q \in Requests
      PROVE  /\ job'[q] \in Jobs \cup {Idle}
             /\ job'[q].pc \in {"mount", "bind"} =>
                   /\ job'[q].pc = job[q].pc /\ job'[q].place = job[q].place
                   /\ job'[q].target = job[q].target
  <2>0. job[q] \in Jobs \cup {Idle}
    BY Zenon DEF Typed
  <2>1. CASE q = r
    BY <2>1, Zenon DEF Begin, Jobs
  <2>2. CASE q # r /\ q \in Running(p, t)
    <3>1. job[q] \in Jobs /\ job'[q] = [job[q] EXCEPT !.heard = FALSE]
      BY <2>0, <2>2 DEF Begin, Running, Idle
    <3>. QED
      BY <3>1, Zenon DEF Jobs
  <2>3. CASE q # r /\ q \notin Running(p, t)
    BY <2>0, <2>3, Zenon DEF Begin
  <2>. QED
    BY <2>1, <2>2, <2>3, Zenon
<1>2. Typed'
  <2>1. job' = [q \in Requests |-> job'[q]]
    BY Zenon DEF Begin
  <2>2. job' \in [Requests -> Jobs \cup {Idle}]
    BY <1>1, <2>1, Zenon
  <2>. QED
    BY <2>2, Zenon DEF Begin, Typed, agent, beegfs
<1>. QED
  BY <1>1, <1>2, OthersTyped, Zenon DEF Begin

LEMMA AgentTyped ==
    ASSUME IsFiniteSet(Requests), Typed, Stacks, Agent
    PROVE  Typed' /\ Stacks'
<1>1. PICK p \in Places :
          \/ WantStaged(p) \/ WantUnstaged(p)
          \/ \E t \in Targets : WantPublished(p, t) \/ WantUnpublished(p, t)
  BY Zenon DEF Agent
<1>2. UNCHANGED <<job, bound, volDir, csiDir, tracked, faults, restarts>>
  BY <1>1, Zenon DEF WantStaged, WantUnstaged, WantPublished, WantUnpublished, beegfs
<1>3. want' \in [Places -> {"unstaged", "staging", "staged", "unstaging"}]
  BY <1>1 DEF WantStaged, WantUnstaged, WantPublished, WantUnpublished, Typed
<1>4. publish' \in [Places -> [Targets ->
          {"absent", "publishing", "published", "unpublishing"}]]
  <2>1. ASSUME NEW t \in Targets, NEW w \in {"publishing", "unpublishing"},
               publish' = [publish EXCEPT ![p][t] = w]
        PROVE  publish' \in [Places -> [Targets ->
                   {"absent", "publishing", "published", "unpublishing"}]]
    <3>1. publish[p] \in [Targets -> {"absent", "publishing", "published", "unpublishing"}]
      BY Zenon DEF Typed
    <3>2. [publish[p] EXCEPT ![t] = w] \in
              [Targets -> {"absent", "publishing", "published", "unpublishing"}]
      BY <3>1, Zenon
    <3>. QED
      BY <2>1, <3>2, Zenon DEF Typed
  <2>2. CASE UNCHANGED publish
    BY <2>2, Zenon DEF Typed
  <2>. QED
    BY <1>1, <2>1, <2>2, Zenon DEF WantStaged, WantUnstaged, WantPublished, WantUnpublished
<1>5. /\ staged' \in [Places -> [dir : BOOLEAN, conf : BOOLEAN, mounts : Nat]]
      /\ \A x \in Places : staged'[x].mounts = staged[x].mounts
  <2>1. CASE UNCHANGED staged
    BY <2>1, Zenon DEF Typed
  <2>2. CASE staged' = [staged EXCEPT ![p].dir = TRUE]
    <3>0. staged[p] \in [dir : BOOLEAN, conf : BOOLEAN, mounts : Nat]
      BY Zenon DEF Typed
    <3>1. /\ [staged[p] EXCEPT !.dir = TRUE] \in
                [dir : BOOLEAN, conf : BOOLEAN, mounts : Nat]
          /\ [staged[p] EXCEPT !.dir = TRUE].mounts = staged[p].mounts
      BY <3>0, Zenon
    <3>. QED
      BY <2>2, <3>1, Zenon DEF Typed
  <2>. QED
    BY <1>1, <2>1, <2>2, Zenon DEF WantStaged, WantUnstaged, WantPublished, WantUnpublished
<1>6. Typed'
  BY <1>2, <1>3, <1>4, <1>5, Zenon DEF Typed
<1>. QED
  BY <1>2, <1>5, <1>6, OthersTyped, Zenon

LEMMA TypedStep ==
    ASSUME IsFiniteSet(Requests), Typed, Stacks, [Next]_vars
    PROVE  Typed' /\ Stacks'
<1>1. ASSUME NEW r \in Requests, Call(r) PROVE Typed' /\ Stacks'
  <2>1. PICK op \in Ops, p \in Places, t \in Targets \cup {NoTarget},
             point \in Points \ {"mount", "bind"} : Begin(r, op, p, t, point)
    <3>1. /\ "stage" \in Ops /\ "unstage" \in Ops /\ "publish" \in Ops /\ "unpublish" \in Ops
          /\ "statDir" \in Points \ {"mount", "bind"}
          /\ "untrack" \in Points \ {"mount", "bind"}
          /\ "pubCtl" \in Points \ {"mount", "bind"}
          /\ "unbind" \in Points \ {"mount", "bind"}
      BY Zenon DEF Ops, Points
    <3>2. NoTarget \in Targets \cup {NoTarget}
          /\ \A t \in Targets : t \in Targets \cup {NoTarget}
      OBVIOUS
    <3>. QED
      BY <1>1, <3>1, <3>2, Zenon DEF Call, NodeStageVolume, NodeUnstageVolume,
         NodePublishVolume, NodeUnpublishVolume
  <2>. QED
    BY <2>1, BeginTyped, Zenon
<1>2. ASSUME NEW r \in Requests, Step(r) PROVE Typed' /\ Stacks'
  BY <1>2, LooksTyped, MountLooksTyped, MountTyped, BindTyped, StagedTyped, UnbindTyped,
     AnswerTyped, Zenon DEF Step
<1>3. ASSUME NEW v \in Volumes, VolumeDeleted(v) PROVE Typed' /\ Stacks'
  <2>1. Typed'
    BY <1>3, Zenon DEF VolumeDeleted, Typed, agent
  <2>. QED
    BY <1>3, <2>1, OthersTyped, Zenon DEF VolumeDeleted
<1>4. ASSUME NEW n \in Nodes, Restart(n) PROVE Typed' /\ Stacks'
  <2>1. job' \in [Requests -> Jobs \cup {Idle}]
    BY <1>4, Zenon DEF Restart, Typed
  <2>2. restarts' \in 0..MaxRestarts
    BY <1>4, NodeOptionsAssumption DEF Restart, Typed
  <2>3. Typed'
    BY <1>4, <2>1, <2>2, Zenon DEF Restart, Typed, agent, beegfs
  <2>4. \A q \in Requests : job'[q] \in {job[q], Idle} /\ Idle.pc = "idle"
    BY <1>4, Zenon DEF Restart, Idle
  <2>. QED
    BY <1>4, <2>3, <2>4, OthersTyped, Zenon DEF Restart
<1>5. CASE UNCHANGED vars
  <2>1. Typed'
    BY <1>5, Zenon DEF Typed, vars
  <2>. QED
    BY <1>5, <2>1, OthersTyped, Zenon DEF vars
<1>. QED
  BY <1>1, <1>2, <1>3, <1>4, <1>5, AgentTyped, Zenon DEF Next

\* Whether or not the agent's calls overlap, every variable keeps its type:
\* mountIfNecessary and NodePublishVolume mount only after a look that found
\* nothing mounted, so that no path has more mounts than there are requests.
THEOREM NodeTypesKept ==
    ASSUME IsFiniteSet(Requests) PROVE Spec => []TypeOK
<1>1. Init => Typed /\ Stacks
  <2>. SUFFICES ASSUME Init PROVE Typed /\ Stacks
    OBVIOUS
  <2>1. Typed
    BY NodeOptionsAssumption DEF Init, Typed
  <2>2. /\ \A p \in Places : staged[p].mounts = 0 /\ Mounters(p) = {}
        /\ \A p \in Places, t \in Targets : bound[p][t] = 0 /\ Binders(p, t) = {}
    BY Zenon DEF Init, Mounters, Binders, Idle
  <2>3. Cardinality({}) = 0 /\ Cardinality(Requests) \in Nat
    BY FS_EmptySet, FS_CardinalityType, Zenon
  <2>4. ASSUME NEW p \in Places
        PROVE  staged[p].mounts + Cardinality(Mounters(p)) <= Cardinality(Requests)
    <3>1. staged[p].mounts = 0 /\ Cardinality(Mounters(p)) = 0
      BY <2>2, <2>3, Zenon
    <3>. QED
      BY <2>3, <3>1
  <2>5. ASSUME NEW p \in Places, NEW t \in Targets
        PROVE  bound[p][t] + Cardinality(Binders(p, t)) <= Cardinality(Requests)
    <3>1. bound[p][t] = 0 /\ Cardinality(Binders(p, t)) = 0
      BY <2>2, <2>3, Zenon
    <3>. QED
      BY <2>3, <3>1
  <2>. QED
    BY <2>1, <2>4, <2>5, Zenon DEF Stacks
<1>2. Typed /\ Stacks /\ [Next]_vars => Typed' /\ Stacks'
  BY TypedStep, Zenon
<1>3. Typed /\ Stacks => TypeOK
  <2>. SUFFICES ASSUME Typed, Stacks PROVE TypeOK
    OBVIOUS
  <2>1. Cardinality(Requests) \in Nat
    BY FS_CardinalityType, Zenon
  <2>2. ASSUME NEW S \in SUBSET Requests PROVE Cardinality(S) \in Nat
    BY FS_Subset, FS_CardinalityType, Zenon
  <2>3. ASSUME NEW p \in Places PROVE staged[p].mounts \in Mounts
    <3>1. Cardinality(Mounters(p)) \in Nat /\ staged[p].mounts \in Nat
      BY <2>2, Zenon DEF Mounters, Typed
    <3>2. staged[p].mounts + Cardinality(Mounters(p)) <= Cardinality(Requests)
      BY Zenon DEF Stacks
    <3>. QED
      BY <2>1, <3>1, <3>2 DEF Mounts
  <2>4. ASSUME NEW p \in Places, NEW t \in Targets PROVE bound[p][t] \in Mounts
    <3>1. Cardinality(Binders(p, t)) \in Nat /\ bound[p][t] \in Nat
      BY <2>2, Zenon DEF Binders, Typed
    <3>2. bound[p][t] + Cardinality(Binders(p, t)) <= Cardinality(Requests)
      BY Zenon DEF Stacks
    <3>. QED
      BY <2>1, <3>1, <3>2 DEF Mounts
  <2>5. staged \in [Places -> [dir : BOOLEAN, conf : BOOLEAN, mounts : Mounts]]
    BY <2>3, Zenon DEF Typed
  <2>6. bound \in [Places -> [Targets -> Mounts]]
    BY <2>4, Zenon DEF Typed
  <2>. QED
    BY <2>5, <2>6, Zenon DEF Typed, TypeOK
<1>. QED
  BY <1>1, <1>2, <1>3, PTL DEF Spec
=============================================================================
